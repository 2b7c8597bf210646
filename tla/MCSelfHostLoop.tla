--------------------------- MODULE MCSelfHostLoop ---------------------------
(***************************************************************************)
(* Instances of SelfHostLoop for TLC: two workers, of two loops with one   *)
(* file, of one loop with two files of one stem, and of one loop with two  *)
(* stems.  Compiler 2 miscompiles version 1 of a source.                   *)
(***************************************************************************)
EXTENDS SelfHostLoop

CONSTANTS w1, w2

Place(file, stem, loop) == [file |-> file, stem |-> stem, loop |-> loop]

Two(first, second) == [w \in Worker |-> IF w = w1 THEN first ELSE second]

SomeLayouts == {Two(Place("f1", "s1", "l1"), Place("f1", "s1", "l2")),
                Two(Place("f1", "s1", "l1"), Place("f2", "s1", "l1")),
                Two(Place("f1", "s1", "l1"), Place("f2", "s2", "l1"))}

SomeBeginnings == {<<2, [f \in File |-> 2]>>}

SomeMiscompiled == {<<2, 1>>}
=============================================================================
