----------------------------- MODULE MCHelpers -----------------------------
(***************************************************************************)
(* The two helpers of the native driver that share no state with it or     *)
(* with each other, in one run: which of them is at work is settled at the *)
(* start.                                                                  *)
(*                                                                         *)
(* Atomic text: four calls, two under each of two process ids.  The calls  *)
(* of one id run one after the other (a killed process and a later one     *)
(* with its id, or one process that writes twice).                         *)
(***************************************************************************)
EXTENDS AtomicText, Cancellation, TLC

CONSTANTS w1, w2, w3, w4, p1, p2

VARIABLE helper  \* the one that is at work

helperVars == <<helper, textVars, vars>>

FourWriters == {w1, w2, w3, w4}
TwoEach     == w1 :> p1 @@ w2 :> p1 @@ w3 :> p2 @@ w4 :> p2

HelperInit ==
  /\ helper \in {"staging", "subprocess"} /\ TextInit
  /\ CancelInit /\ (helper = "staging" => stubborn = {} /\ detached = {})

StagingStep == helper = "staging" /\ TextNext /\ UNCHANGED <<helper, vars>>

SubprocessStep == helper = "subprocess" /\ CancelNext /\ UNCHANGED <<helper, textVars>>

(* CancelFairness, of the call that is at work.                            *)
HelperFairness ==
  /\ WF_helperVars(SubprocessStep /\ CallerStep)
  /\ \A m \in Member : WF_helperVars(SubprocessStep /\ m \in doomed /\ MemberEnds(m))

HelperSpec == HelperInit /\ [][StagingStep \/ SubprocessStep]_helperVars /\ HelperFairness
=============================================================================
