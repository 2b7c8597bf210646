---------------------------- MODULE MCOutputLock ----------------------------
(***************************************************************************)
(* Instances of OutputLock for TLC: three builders, two of them threads of *)
(* one process.                                                            *)
(***************************************************************************)
EXTENDS OutputLock, TLC

CONSTANTS b1, b2, b3, p1, p2

ThreeBuilders  == {b1, b2, b3}
TwoThreads     == b1 :> p1 @@ b2 :> p1 @@ b3 :> p2
=============================================================================
