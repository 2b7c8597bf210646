--------------------------- MODULE ArtifactStore ---------------------------
(***************************************************************************)
(* What publication promises the users of one output path (ART-002 to      *)
(* ART-004, section 22.1 of the specification the code cites): the path    *)
(* always holds one whole artifact, the one that was there before or a     *)
(* usable one of a single build; it changes in one step, and only to the   *)
(* artifact of the build that takes the step; a build that does not        *)
(* publish leaves it alone, and a verdict is final.                        *)
(***************************************************************************)
CONSTANTS
  Builder,
  Prior        \* what the path held before the first build (or nothing)

VARIABLES
  artifact,    \* what the output path holds
  usable,      \* builds that have produced a usable temporary output
  verdict      \* the fate of each build

storeVars == <<artifact, usable, verdict>>

StoreInit ==
  /\ artifact = Prior
  /\ usable = {}
  /\ verdict = [b \in Builder |-> "pending"]

Prepare(b) ==
  /\ verdict[b] = "pending"
  /\ usable' = usable \union {b}
  /\ UNCHANGED <<artifact, verdict>>

Publish(b) ==
  /\ verdict[b] = "pending"
  /\ b \in usable
  /\ artifact' = b
  /\ verdict' = [verdict EXCEPT ![b] = "published"]
  /\ UNCHANGED usable

(* Several builds can be lost in one step: the threads of one process. *)
Reject(losers) ==
  /\ \A b \in losers : verdict[b] = "pending"
  /\ verdict' = [b \in Builder |-> IF b \in losers THEN "rejected" ELSE verdict[b]]
  /\ UNCHANGED <<artifact, usable>>

StoreNext ==
  \/ \E b \in Builder : Prepare(b) \/ Publish(b)
  \/ \E losers \in SUBSET Builder : Reject(losers)

StoreSpec == StoreInit /\ [][StoreNext]_storeVars
=============================================================================
