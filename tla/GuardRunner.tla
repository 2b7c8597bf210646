---------------------------- MODULE GuardRunner ----------------------------
(***************************************************************************)
(* The guards of sv0 test, test-guards and test-light (run_python_guards   *)
(* of scripts/sv0): a parallel pass in which every guard leaves a status   *)
(* file, then one pass over the status files that runs each guard without  *)
(* an "ok" once more, alone.                                               *)
(***************************************************************************)
EXTENDS Naturals, FiniteSets

CONSTANTS
  Guards,  \* how many guards there are
  Jobs,    \* how many run at the same time (sv0_jobs)
  Heavy,   \* the guards left out under SV0_GUARDS_FAST
  Nature   \* what kinds of guards there may be: subsets of AllNatures

Guard == 1 .. Guards

(* A broken guard fails whenever it runs; a flaky one may fail when it     *)
(* does not run alone.                                                     *)
AllNatures == {"sound", "flaky", "broken"}

ASSUME GuardsAssumption == Guards \in Nat /\ Jobs \in Nat \ {0} /\ Heavy \subseteq Guard
ASSUME NatureAssumption == Nature \subseteq [Guard -> AllNatures]

VARIABLES
  runner,    \* the pass run_python_guards is in
  nature,    \* what each guard is like
  selected,  \* the guards of this run
  next,      \* the guard to be started or judged next
  running,   \* the guards that are running
  crowded,   \* those that ran while another did
  status,    \* the status files
  guardEc    \* the exit status so far

guardVars == <<runner, nature, selected, next, running, crowded, status, guardEc>>

GuardInit ==
  /\ runner = "idle"
  /\ nature \in Nature
  /\ selected = {}
  /\ next = 1
  /\ running = {}
  /\ crowded = {}
  /\ status = [g \in Guard |-> "none"]
  /\ guardEc = 0

RunGuards(fast) ==
  /\ runner = "idle"
  /\ runner' = "parallel"
  /\ selected' = IF fast THEN Guard \ Heavy ELSE Guard
  /\ UNCHANGED <<nature, next, running, crowded, status, guardEc>>

(* xargs starts the next guard when one of its jobs is free.               *)
Dispatch ==
  /\ runner = "parallel" /\ next \in Guard
  /\ next' = next + 1
  /\ IF next \in selected
     THEN /\ Cardinality(running) < Jobs
          /\ running' = running \union {next}
          /\ crowded' = IF running = {} THEN crowded
                        ELSE crowded \union running \union {next}
     ELSE UNCHANGED <<running, crowded>>
  /\ UNCHANGED <<runner, nature, selected, status, guardEc>>

MayPass(g) == nature[g] # "broken"
MayFail(g) == nature[g] = "broken" \/ (nature[g] = "flaky" /\ g \in crowded)

GuardEnds(g) ==
  /\ runner = "parallel" /\ g \in running
  /\ running' = running \ {g}
  /\ \/ MayPass(g) /\ status' = [status EXCEPT ![g] = "ok"]
     \/ MayFail(g) /\ status' = [status EXCEPT ![g] = "fail"]
  /\ UNCHANGED <<runner, nature, selected, next, crowded, guardEc>>

(* A guard's shell is killed, or the disk is full: no status file.         *)
GuardIsLost(g) ==
  /\ runner = "parallel" /\ g \in running
  /\ running' = running \ {g}
  /\ UNCHANGED <<runner, nature, selected, next, crowded, status, guardEc>>

ParallelPassEnds_awaitsStatus ==
  /\ runner = "parallel" /\ next \notin Guard
  /\ \A g \in selected : status[g] # "none"
  /\ runner' = "judge"
  /\ next' = 1
  /\ UNCHANGED <<nature, selected, running, crowded, status, guardEc>>

ParallelPassEnds ==
  /\ runner = "parallel" /\ next \notin Guard /\ running = {}
  /\ runner' = "judge"
  /\ next' = 1
  /\ UNCHANGED <<nature, selected, running, crowded, status, guardEc>>

Judged_onlyFailIsRetried(g) == IF status[g] # "fail" \/ MayPass(g) THEN guardEc ELSE 1

Judged_noRetry(g) == IF status[g] = "ok" THEN guardEc ELSE 1

(* A status other than ok, also none at all, has the guard run once more;  *)
(* nothing else runs by now.                                               *)
Judged(g) == IF status[g] = "ok" \/ MayPass(g) THEN guardEc ELSE 1

Judge ==
  /\ runner = "judge" /\ next \in Guard
  /\ guardEc' = IF next \in selected THEN Judged(next) ELSE guardEc
  /\ next' = next + 1
  /\ UNCHANGED <<runner, nature, selected, running, crowded, status>>

Return ==
  /\ runner = "judge" /\ next \notin Guard
  /\ runner' = "returned"
  /\ UNCHANGED <<nature, selected, next, running, crowded, status, guardEc>>

RunnerStep == Dispatch \/ ParallelPassEnds \/ Judge \/ Return

GuardNext == RunnerStep \/ \E g \in Guard : GuardEnds(g) \/ GuardIsLost(g)

-----------------------------------------------------------------------------

GuardTypeOK ==
  /\ runner \in {"idle", "parallel", "judge", "returned"}
  /\ nature \in [Guard -> AllNatures]
  /\ selected \subseteq Guard
  /\ next \in 1 .. Guards + 1
  /\ running \subseteq selected
  /\ crowded \subseteq selected
  /\ status \in [Guard -> {"none", "ok", "fail"}]
  /\ guardEc \in {0, 1}

(* "A genuine bug fails both times; a scheduling flake only fails the      *)
(* first" (run_python_guards): whatever the order, the crowding and the    *)
(* guards that leave no status, the run passes exactly when no selected    *)
(* guard is broken.                                                        *)
GuardsTellTheTruth ==
  runner = "returned" => (guardEc = 0 <=> \A g \in selected : nature[g] # "broken")
=============================================================================
