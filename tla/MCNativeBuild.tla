--------------------------- MODULE MCNativeBuild ---------------------------
(***************************************************************************)
(* Instances of NativeBuild for TLC: two builds of one output path, each   *)
(* in a process of its own, with two option combinations that between them *)
(* write every companion and leave every companion out.                    *)
(***************************************************************************)
EXTENDS NativeBuild, TLC

CONSTANTS b1, b2, p1, p2

TwoBuilds  == {b1, b2}
OwnProcess == b1 :> p1 @@ b2 :> p2

Covered == [keep_c |-> TRUE, coverage |-> TRUE, record |-> FALSE]
Logged  == [keep_c |-> FALSE, coverage |-> FALSE, record |-> TRUE]
Requests == {Covered, Logged}
=============================================================================
