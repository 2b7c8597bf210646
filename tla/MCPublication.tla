--------------------------- MODULE MCPublication ---------------------------
(***************************************************************************)
(* An instance of Publication for TLC: two builds of one output path, each *)
(* in a process of its own.                                                *)
(***************************************************************************)
EXTENDS Publication, TLC

CONSTANTS b1, b2, p1, p2

TwoBuilds  == {b1, b2}
OwnProcess == b1 :> p1 @@ b2 :> p2
=============================================================================
