----------------------------- MODULE MCRunCache -----------------------------
(***************************************************************************)
(* Instances of RunCache for TLC: two workers, each with any two of four   *)
(* programs: one that succeeds silently, one that fails silently, one that *)
(* prints, and an instrumented one that does as the first.                 *)
(***************************************************************************)
EXTENDS RunCache, TLC

CONSTANTS silent, failing, printing, instrumented

Symmetry == Permutations(Worker)

SomePrograms == {silent, failing, printing, instrumented}

TheirBehaviour ==
  [p \in SomePrograms |->
     [status |-> IF p = failing THEN "1" ELSE "0",
      stdout |-> IF p = printing THEN "text" ELSE ""]]
=============================================================================
