---------------------------- MODULE Publication ----------------------------
(***************************************************************************)
(* publish_atomically (scripts/native_exe_publish.py) run by several       *)
(* builds of one output path, around the lock of OutputLock.               *)
(*                                                                         *)
(* The lock's steps are those of OutputLock; the body of its with          *)
(* statement is Validate, then Replace or ReplaceFails.  The with          *)
(* statement releases the lock however its body ends.                      *)
(***************************************************************************)
EXTENDS OutputLock

CONSTANT Prior   \* the artifact at the output path before, or its absence

ASSUME PriorAssumption == Prior \notin Builder

VARIABLES
  tmp,       \* each build's temporary output
  final,     \* the build whose artifact is at the output path
  outcome    \* how far the with body of each build came

pubVars  == <<tmp, final, outcome>>
pubState == <<lockVars, pubVars>>

TmpState == {"missing", "unusable", "usable", "moved"}
Outcome  == {"none", "valid", "host_link", "published", "publish_failed"}
Settled  == {"host_link", "published", "publish_failed"}

PubTypeOK ==
  /\ LockTypeOK
  /\ tmp \in [Builder -> TmpState]
  /\ final \in Builder \union {Prior}
  /\ outcome \in [Builder -> Outcome]

PubInit ==
  /\ LockInit
  /\ tmp = [b \in Builder |-> "missing"]
  /\ final = Prior
  /\ outcome = [b \in Builder |-> "none"]

-----------------------------------------------------------------------------

(* The host compiler leaves something, or nothing, at the temporary path.  *)
HostCompile(b) ==
  /\ pc[b] = "idle"
  /\ PidOf[b] \notin dead
  /\ tmp[b] = "missing"
  /\ \E result \in {"unusable", "usable"} : tmp' = [tmp EXCEPT ![b] = result]
  /\ UNCHANGED <<lockVars, final, outcome>>

(* Mutant of IsUsable: any output will do. *)
IsUsable_exists(t) == t # "missing"

(* validate_temp_output: a nonempty executable regular file, or HOST_LINK. *)
IsUsable(t) == t = "usable"

Validate(b) ==
  /\ pc[b] = "held"
  /\ outcome[b] = "none"
  /\ outcome' = [outcome EXCEPT ![b] =
                   IF IsUsable(tmp[b]) THEN "valid" ELSE "host_link"]
  /\ UNCHANGED <<lockVars, tmp, final>>

(* os.replace: one atomic rename. *)
Replace(b) ==
  /\ pc[b] = "held"
  /\ outcome[b] = "valid"
  /\ final' = b
  /\ tmp' = [tmp EXCEPT ![b] = "moved"]
  /\ outcome' = [outcome EXCEPT ![b] = "published"]
  /\ UNCHANGED lockVars

(* os.replace raises: another file system, a directory at the path. *)
ReplaceFails(b) ==
  /\ pc[b] = "held"
  /\ outcome[b] = "valid"
  /\ outcome' = [outcome EXCEPT ![b] = "publish_failed"]
  /\ UNCHANGED <<lockVars, tmp, final>>

Body(b) == Validate(b) \/ Replace(b) \/ ReplaceFails(b)

(* Mutant of LeaveBody: releases the lock only when the body succeeds. *)
LeaveBody_onSuccess(b) ==
  /\ outcome[b] = "published"
  /\ Leave(b)
  /\ UNCHANGED pubVars

(* The body has ended, normally or by raising. *)
LeaveBody(b) ==
  /\ outcome[b] \in Settled
  /\ Leave(b)
  /\ UNCHANGED pubVars

LockStep(b) ==
  /\ Begin(b) \/ Acquire(b) \/ Release(b)
  /\ UNCHANGED pubVars

PubNext ==
  \/ \E b \in Builder : HostCompile(b) \/ LockStep(b) \/ Body(b) \/ LeaveBody(b)
  \/ LockEnvironment /\ UNCHANGED pubVars

PubSpec == PubInit /\ [][PubNext]_pubState

PubFairness ==
  \A b \in Builder :
    /\ WF_pubState(Acquire(b) /\ UNCHANGED pubVars)
    /\ WF_pubState(Body(b))
    /\ WF_pubState(LeaveBody(b))
    /\ WF_pubState(Release(b) /\ UNCHANGED pubVars)
    /\ WF_pubState(DeadlinePasses(b) /\ UNCHANGED pubVars)

FairPubSpec == PubSpec /\ PubFairness

-----------------------------------------------------------------------------
(* Properties                                                              *)

(* The promise of ArtifactStore is kept by the rename alone, also when a   *)
(* reclaimed lock lets two builds into the body at once: one whole usable  *)
(* artifact at the path at any time, and a failed build preserves it.      *)
Lost == {"timed_out", "failed", "crashed"}

Verdict(b) ==
  IF outcome[b] = "published" THEN "published"
  ELSE IF outcome[b] \in Settled \/ pc[b] \in Lost THEN "rejected"
  ELSE "pending"

Store == INSTANCE ArtifactStore WITH
  artifact <- final,
  usable   <- {b \in Builder : tmp[b] \in {"usable", "moved"}},
  verdict  <- [b \in Builder |-> Verdict(b)]

ImplementsStore == Store!StoreSpec

(* Builds take turns: until a lock is reclaimed, no other build renames    *)
(* its output over the path between one build's validation and its rename. *)
TurnsAreExclusive ==
  [][\A b \in Builder :
       ~reclaimed' /\ pc[b] = "held" /\ outcome[b] = "valid" /\ final' # final
         => final' = b]_pubState

(* A build that reaches publication ends with a verdict, also when other   *)
(* builds of the path publish, crash or have their locks reclaimed, unless *)
(* one of them left a lock file without a payload.                         *)
EveryBuildIsDecided ==
  \A b \in Builder :
    pc[b] = "read" ~> (pc[b] \in Over /\ Verdict(b) # "pending") \/ Wedged
=============================================================================
