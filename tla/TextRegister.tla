---------------------------- MODULE TextRegister ----------------------------
(***************************************************************************)
(* What write_text_atomically (scripts/native_exe_staging.py) promises the *)
(* readers of one output path: the path always holds one whole text, the   *)
(* earlier one or that of a single write, and changes in one step.  A      *)
(* write that fails or is killed changes nothing.                          *)
(***************************************************************************)
CONSTANTS
  Writer,
  Prior      \* the text, or its absence, before the first write

VARIABLES
  text,      \* what a reader of the path sees
  verdict    \* the fate of each write

registerVars == <<text, verdict>>

RegisterInit ==
  /\ text = Prior
  /\ verdict = [w \in Writer |-> "pending"]

Write(w) ==
  /\ verdict[w] = "pending"
  /\ text' = w
  /\ verdict' = [verdict EXCEPT ![w] = "written"]

Lose(losers) ==
  /\ \A w \in losers : verdict[w] = "pending"
  /\ verdict' = [w \in Writer |-> IF w \in losers THEN "lost" ELSE verdict[w]]
  /\ UNCHANGED text

RegisterNext ==
  \/ \E w \in Writer : Write(w)
  \/ \E losers \in SUBSET Writer : Lose(losers)

RegisterSpec == RegisterInit /\ [][RegisterNext]_registerVars
=============================================================================
