------------------------------ MODULE RunCache ------------------------------
(***************************************************************************)
(* The content-addressed compile+run cache of scripts/sv0 (_cc_run_cached, *)
(* _run_cache_prune) and the behavioural parity check of the self-host     *)
(* loop (_self_host_sv0_loop_one) that relies on it.                       *)
(*                                                                         *)
(* A worker is one file of a loop: it runs the SML reference C and then    *)
(* the native compiler's C through the cache and compares their exit       *)
(* status and stdout.  Workers run at the same time and share the cache; a *)
(* second loop that starts meanwhile prunes it.  A key is a hash of the C  *)
(* text and of the environment, the same for all workers, so a program is  *)
(* its own key.  An entry is two files, .out and .rc; every access to one  *)
(* of them is a step.                                                      *)
(***************************************************************************)
EXTENDS FiniteSets

CONSTANTS
  Worker,
  Program,       \* C texts
  Behaviour,     \* what each program does when it is compiled and run
  Instrumented,  \* programs that register with the coverage runtime
  Faults         \* which of AllCacheFaults may happen

AllCacheFaults == {"prune", "kill", "store_error", "cc_error"}

Status == {"0", "1"}
Stdout == {"", "text"}
Result == [status : Status, stdout : Stdout]

ASSUME BehaviourAssumption    == Behaviour \in [Program -> Result]
ASSUME InstrumentedAssumption == Instrumented \subseteq Program
ASSUME CacheFaultsAssumption  == Faults \subseteq AllCacheFaults

VARIABLES
  pc,      \* the step each worker takes next
  job,     \* the two programs each worker compares
  side,    \* the one it is running
  run,     \* RUN_EXIT and the stdout file of the call under way
  refRun,  \* what the call for the reference returned
  out,     \* the .out file of each key
  rc,      \* the .rc file of each key
  younger, \* the keys whose .out is younger than their .rc
  doomed,  \* the files a prune has listed and not removed yet
  pruned,  \* history: a prune has removed a file
  verdict  \* how each worker ended

cacheVars == <<pc, job, side, run, refRun, out, rc, younger, doomed, pruned, verdict>>

(* Blank is a .rc file that touch has created, and what RUN_EXIT is after  *)
(* a .rc file could not be read; the shell takes it for 0 in arithmetic.   *)
Missing == "missing"
Blank   == "blank"
Number(status) == IF status = Blank THEN "0" ELSE status

Step == {"check_rc", "check_out", "copy_out", "read_rc", "touch_rc", "run",
         "store_out", "store_rc", "return", "over"}

CacheTypeOK ==
  /\ pc \in [Worker -> Step]
  /\ job \in [Worker -> [ref : Program, built : Program]]
  /\ side \in [Worker -> {"ref", "built"}]
  /\ run \in [Worker -> [status : Status \union {Blank}, stdout : Stdout]]
  /\ refRun \in [Worker -> [status : Status \union {Blank}, stdout : Stdout]]
  /\ out \in [Program -> Stdout \union {Missing}]
  /\ rc \in [Program -> Status \union {Missing, Blank}]
  /\ younger \subseteq Program
  /\ doomed \subseteq Program \X {"out", "rc"}
  /\ pruned \in BOOLEAN
  /\ verdict \in [Worker -> {"none", "pass", "fail", "not_compiled", "killed"}]

(* Mutant of Cacheable: instrumented C is cached too. *)
Cacheable_always(p) == TRUE

(* _run_cache_ok_for: instrumented C is never looked up or stored.         *)
Cacheable(p) == p \notin Instrumented

(* RUN_EXIT=0, and the stdout file is a new empty one.                     *)
FreshRun == [status |-> "0", stdout |-> ""]

FirstStep(p) == IF Cacheable(p) THEN "check_rc" ELSE "run"

CacheInit ==
  /\ job \in [Worker -> [ref : Program, built : Program]]
  /\ side = [w \in Worker |-> "ref"]
  /\ pc = [w \in Worker |-> FirstStep(job[w].ref)]
  /\ run = [w \in Worker |-> FreshRun]
  /\ refRun = [w \in Worker |-> FreshRun]
  /\ out = [p \in Program |-> Missing]
  /\ rc = [p \in Program |-> Missing]
  /\ younger = {}
  /\ doomed = {}
  /\ pruned = FALSE
  /\ verdict = [w \in Worker |-> "none"]

Text(w) == job[w][side[w]]

Goto(w, from, to) ==
  /\ pc[w] = from
  /\ pc' = [pc EXCEPT ![w] = to]

-----------------------------------------------------------------------------
(* _cc_run_cached: a hit                                                   *)

CheckRc(w) ==
  /\ Goto(w, "check_rc", IF rc[Text(w)] = Missing THEN "run" ELSE "check_out")
  /\ UNCHANGED <<job, side, run, refRun, out, rc, younger, doomed, pruned, verdict>>

CheckOut(w) ==
  /\ Goto(w, "check_out", IF out[Text(w)] = Missing THEN "run" ELSE "copy_out")
  /\ UNCHANGED <<job, side, run, refRun, out, rc, younger, doomed, pruned, verdict>>

(* The calls stand in an if condition, so errexit is off and a command     *)
(* that fails, here for a file that is gone, does not end the call.        *)
CopyOut(w) ==
  /\ Goto(w, "copy_out", "read_rc")
  /\ run' = IF out[Text(w)] = Missing THEN run
            ELSE [run EXCEPT ![w].stdout = out[Text(w)]]
  /\ UNCHANGED <<job, side, refRun, out, rc, younger, doomed, pruned, verdict>>

ReadRc(w) ==
  /\ Goto(w, "read_rc", "touch_rc")
  /\ run' = [run EXCEPT ![w].status =
               IF rc[Text(w)] = Missing THEN Blank ELSE rc[Text(w)]]
  /\ UNCHANGED <<job, side, refRun, out, rc, younger, doomed, pruned, verdict>>

(* touch creates the file if it is gone. *)
TouchRc(w) ==
  /\ Goto(w, "touch_rc", "return")
  /\ rc' = IF rc[Text(w)] = Missing THEN [rc EXCEPT ![Text(w)] = Blank] ELSE rc
  /\ younger' = younger \ {Text(w)}
  /\ UNCHANGED <<job, side, run, refRun, out, doomed, pruned, verdict>>

-----------------------------------------------------------------------------
(* _cc_run_cached: a miss                                                  *)

RunProgram(w) ==
  /\ Goto(w, "run", IF Cacheable(Text(w)) THEN "store_out" ELSE "return")
  /\ run' = [run EXCEPT ![w] = Behaviour[Text(w)]]
  /\ UNCHANGED <<job, side, refRun, out, rc, younger, doomed, pruned, verdict>>

(* The C compiler fails: the call returns 2 and the worker fails. *)
CompileFails(w) ==
  /\ "cc_error" \in Faults
  /\ Goto(w, "run", "over")
  /\ verdict' = [verdict EXCEPT ![w] = "not_compiled"]
  /\ UNCHANGED <<job, side, run, refRun, out, rc, younger, doomed, pruned>>

(* Both files are written aside and renamed in, .out first. *)
StoreOut(w) ==
  /\ Goto(w, "store_out", "store_rc")
  /\ out' = [out EXCEPT ![Text(w)] = run[w].stdout]
  /\ younger' = IF rc[Text(w)] = Missing THEN younger ELSE younger \union {Text(w)}
  /\ UNCHANGED <<job, side, run, refRun, rc, doomed, pruned, verdict>>

StoreRc(w) ==
  /\ Goto(w, "store_rc", "return")
  /\ rc' = [rc EXCEPT ![Text(w)] = run[w].status]
  /\ younger' = younger \ {Text(w)}
  /\ UNCHANGED <<job, side, run, refRun, out, doomed, pruned, verdict>>

(* A copy or a rename fails: the rest is given up, what is renamed stays. *)
StoreFails(w) ==
  /\ "store_error" \in Faults
  /\ \E from \in {"store_out", "store_rc"} : Goto(w, from, "return")
  /\ UNCHANGED <<job, side, run, refRun, out, rc, younger, doomed, pruned, verdict>>

-----------------------------------------------------------------------------
(* _self_host_sv0_loop_one, behavioural mode, reusing the emit             *)

RefReturns(w) ==
  /\ side[w] = "ref"
  /\ Goto(w, "return", FirstStep(job[w].built))
  /\ side' = [side EXCEPT ![w] = "built"]
  /\ refRun' = [refRun EXCEPT ![w] = run[w]]
  /\ run' = [run EXCEPT ![w] = FreshRun]
  /\ UNCHANGED <<job, out, rc, younger, doomed, pruned, verdict>>

(* Mutant of Agree: stdout is not compared. *)
Agree_statusOnly(w) ==
  /\ Number(run[w].status) = "0"
  /\ Number(refRun[w].status) = Number(run[w].status)

(* The built side must exit 0 and do what the reference did. *)
Agree(w) ==
  /\ Number(run[w].status) = "0"
  /\ Number(refRun[w].status) = Number(run[w].status)
  /\ refRun[w].stdout = run[w].stdout

BuiltReturns(w) ==
  /\ side[w] = "built"
  /\ Goto(w, "return", "over")
  /\ verdict' = [verdict EXCEPT ![w] = IF Agree(w) THEN "pass" ELSE "fail"]
  /\ UNCHANGED <<job, side, run, refRun, out, rc, younger, doomed, pruned>>

-----------------------------------------------------------------------------
(* The environment                                                         *)

(* _run_cache_prune of another loop removes, one by one, the files that    *)
(* are old enough or among the oldest.  A hit touches .rc only, so of an   *)
(* entry the .out is the older file, unless it was stored anew since.      *)
OutFiles == {<<p, "out">> : p \in {q \in Program : out[q] # Missing}}
RcFiles  == {<<p, "rc">> : p \in {q \in Program : rc[q] # Missing}}

ListOldest ==
  /\ "prune" \in Faults
  /\ doomed = {}
  /\ doomed' \in SUBSET (OutFiles \union RcFiles) \ {{}}
  /\ \A p \in Program \ younger :
       <<p, "rc">> \in doomed' /\ <<p, "out">> \in OutFiles => <<p, "out">> \in doomed'
  /\ UNCHANGED <<pc, job, side, run, refRun, out, rc, younger, pruned, verdict>>

RemoveOut(p) ==
  /\ <<p, "out">> \in doomed
  /\ doomed' = doomed \ {<<p, "out">>}
  /\ out' = [out EXCEPT ![p] = Missing]
  /\ younger' = younger \ {p}
  /\ pruned' = TRUE
  /\ UNCHANGED <<pc, job, side, run, refRun, rc, verdict>>

RemoveRc(p) ==
  /\ <<p, "rc">> \in doomed
  /\ doomed' = doomed \ {<<p, "rc">>}
  /\ rc' = [rc EXCEPT ![p] = Missing]
  /\ younger' = younger \ {p}
  /\ pruned' = TRUE
  /\ UNCHANGED <<pc, job, side, run, refRun, out, verdict>>

Kill(w) ==
  /\ "kill" \in Faults
  /\ pc[w] # "over"
  /\ pc' = [pc EXCEPT ![w] = "over"]
  /\ verdict' = [verdict EXCEPT ![w] = "killed"]
  /\ UNCHANGED <<job, side, run, refRun, out, rc, younger, doomed, pruned>>

-----------------------------------------------------------------------------

CacheStep(w) ==
  \/ CheckRc(w) \/ CheckOut(w) \/ CopyOut(w) \/ ReadRc(w) \/ TouchRc(w)
  \/ RunProgram(w) \/ CompileFails(w) \/ StoreOut(w) \/ StoreRc(w) \/ StoreFails(w)
  \/ RefReturns(w) \/ BuiltReturns(w)

CacheNext ==
  \/ \E w \in Worker : CacheStep(w) \/ Kill(w)
  \/ ListOldest
  \/ \E p \in Program : RemoveOut(p) \/ RemoveRc(p)

CacheSpec == CacheInit /\ [][CacheNext]_cacheVars

-----------------------------------------------------------------------------
(* Properties                                                              *)

SameBehaviour(w) ==
  /\ Behaviour[job[w].built].status = "0"
  /\ Behaviour[job[w].ref] = Behaviour[job[w].built]

(* A parity verdict tells the truth about the two programs, as long as no  *)
(* file is removed from the cache while workers run: a pass means that     *)
(* they behave alike and the built one exits 0, and a reported difference  *)
(* is one.  What the worker compares may come from a run of its own or be  *)
(* replayed from any other worker's, some of which were killed or could    *)
(* not store their result.                                                 *)
VerdictsAreTrueUntilPruned ==
  ~pruned =>
    \A w \in Worker : /\ verdict[w] = "pass" => SameBehaviour(w)
                      /\ verdict[w] = "fail" => ~SameBehaviour(w)

(* What is stored under a key is a result of that program and never that   *)
(* of an instrumented one, whatever is pruned, killed or fails.            *)
EntriesAreSound ==
  \A p \in Program :
    /\ out[p] # Missing => p \notin Instrumented /\ out[p] = Behaviour[p].stdout
    /\ rc[p] \notin {Missing, Blank} => p \notin Instrumented /\ rc[p] = Behaviour[p].status

(* "entries are written atomically (.rc last)": until a file is removed, a *)
(* reader that finds the .rc file of a key finds its .out too, and a       *)
(* status in it.                                                           *)
EntryIsWhole(p) == rc[p] # Missing => rc[p] # Blank /\ out[p] # Missing

EntriesAreWhole == ~pruned => \A p \in Program : EntryIsWhole(p)

(* Both: what is there is right, and until a file is removed it is all     *)
(* there.                                                                  *)
EntriesAreTrue == EntriesAreSound /\ EntriesAreWhole
=============================================================================
