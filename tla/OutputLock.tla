----------------------------- MODULE OutputLock -----------------------------
(***************************************************************************)
(* The same-output publication lock of scripts/native_exe_output_lock.py.  *)
(*                                                                         *)
(* A builder is one OutputLock instance: one token, one acquire(), one     *)
(* release().  Builders of one output path share one lock file.  Every     *)
(* file-system call is a step of its own, because a step of another        *)
(* builder, a process exit or a crash can fall between any two of them.    *)
(*                                                                         *)
(* Time is abstracted: late holds the builders whose acquire deadline has  *)
(* passed, aged those whose acquired_at is older than the stale threshold. *)
(***************************************************************************)
EXTENDS FiniteSets

CONSTANTS
  Builder,   \* OutputLock instances; an instance is its own token
  Pid,       \* operating-system processes
  PidOf,     \* the process a builder runs in (threads share one)
  NoOwner,   \* what _read_owner returns for a missing or undecodable file
  Faults     \* which of AllFaults the environment may exhibit

AllFaults == {"age", "exit", "crash", "crash_in_create", "write_error"}

ASSUME PidOfAssumption   == PidOf \in [Builder -> Pid]
ASSUME NoOwnerAssumption == NoOwner \notin Builder
ASSUME FaultsAssumption  == Faults \subseteq AllFaults

VARIABLES
  pc,         \* where each builder is in acquire() and release()
  file,       \* the lock file: Absent, or its creating builder and content
  seen,       \* the owner each builder read last
  late,       \* builders past their acquire deadline
  aged,       \* builders whose acquired_at is past the stale threshold
  dead,       \* processes that exited or crashed
  reclaimed   \* history: some acquirer has removed a lock file as stale

lockVars == <<pc, file, seen, late, aged, dead, reclaimed>>

-----------------------------------------------------------------------------

(* A created file is empty until the payload is written; the payload is    *)
(* one small buffered write, so it is seen whole or not at all.            *)
Absent == [by |-> NoOwner, owner |-> NoOwner]
LockFile(b, content) == [by |-> b, owner |-> content]

Acquiring == {"read", "judge", "remove", "create", "write"}
Releasing == {"check", "unlink"}
Over      == {"done", "timed_out", "failed", "crashed"}
Location  == {"idle", "held"} \union Acquiring \union Releasing \union Over

Holders == {b \in Builder : pc[b] = "held"}

LockTypeOK ==
  /\ pc \in [Builder -> Location]
  /\ file \in [by : Builder \union {NoOwner}, owner : Builder \union {NoOwner}]
  /\ seen \in [Builder -> Builder \union {NoOwner}]
  /\ late \subseteq Builder
  /\ aged \subseteq Builder
  /\ dead \subseteq Pid
  /\ reclaimed \in BOOLEAN

LockInit ==
  /\ pc = [b \in Builder |-> "idle"]
  /\ file = Absent
  /\ seen = [b \in Builder |-> NoOwner]
  /\ late = {}
  /\ aged = {}
  /\ dead = {}
  /\ reclaimed = FALSE

Goto(b, from, to) ==
  /\ pc[b] = from
  /\ pc' = [pc EXCEPT ![b] = to]

-----------------------------------------------------------------------------
(* acquire()                                                               *)

(* The deadline is fixed and the loop entered. *)
Begin(b) ==
  /\ PidOf[b] \notin dead
  /\ Goto(b, "idle", "read")
  /\ UNCHANGED <<file, seen, late, aged, dead, reclaimed>>

(* _read_owner(); no owner leads straight to the exclusive create. *)
ReadOwner(b) ==
  /\ seen' = [seen EXCEPT ![b] = file.owner]
  /\ Goto(b, "read", IF file.owner = NoOwner THEN "create" ELSE "judge")
  /\ UNCHANGED <<file, late, aged, dead, reclaimed>>

(* _is_stale: the age of the payload read, and whether its pid still runs  *)
(* now, which may be later than the read.                                  *)
IsStale(owner) == owner \in aged \/ PidOf[owner] \in dead

JudgeStale(b) ==
  /\ Goto(b, "judge", "remove")
  /\ IsStale(seen[b])
  /\ UNCHANGED <<file, seen, late, aged, dead, reclaimed>>

JudgeLive(b) ==
  /\ Goto(b, "judge", "read")
  /\ ~IsStale(seen[b])
  /\ b \notin late
  /\ UNCHANGED <<file, seen, late, aged, dead, reclaimed>>

(* Mutant of GiveUp: cleans up the lock file when it times out. *)
GiveUp_unlinks(b) ==
  /\ Goto(b, "judge", "timed_out")
  /\ ~IsStale(seen[b])
  /\ b \in late
  /\ file' = Absent
  /\ UNCHANGED <<seen, late, aged, dead, reclaimed>>

GiveUp(b) ==
  /\ Goto(b, "judge", "timed_out")
  /\ ~IsStale(seen[b])
  /\ b \in late
  /\ UNCHANGED <<file, seen, late, aged, dead, reclaimed>>

(* Mutant of RemoveStale: the removal fails and the error is swallowed. *)
RemoveStale_fails(b) ==
  /\ Goto(b, "remove", "create")
  /\ UNCHANGED <<file, seen, late, aged, dead, reclaimed>>

(* os.remove of whatever file is at the path now. *)
RemoveStale(b) ==
  /\ Goto(b, "remove", "create")
  /\ file' = Absent
  /\ reclaimed' = (reclaimed \/ file # Absent)
  /\ UNCHANGED <<seen, late, aged, dead>>

(* Mutant of CreateWins: opened without O_EXCL. *)
CreateWins_shared(b) ==
  /\ Goto(b, "create", "write")
  /\ file' = LockFile(b, NoOwner)
  /\ UNCHANGED <<seen, late, aged, dead, reclaimed>>

(* os.open with O_CREAT|O_EXCL; FileExistsError goes back to the top. *)
CreateWins(b) ==
  /\ file = Absent
  /\ Goto(b, "create", "write")
  /\ file' = LockFile(b, NoOwner)
  /\ UNCHANGED <<seen, late, aged, dead, reclaimed>>

CreateLoses(b) ==
  /\ file # Absent
  /\ Goto(b, "create", "read")
  /\ UNCHANGED <<file, seen, late, aged, dead, reclaimed>>

(* The payload goes to the descriptor: to the path only while the path     *)
(* still names the file this builder created.                              *)
WritePayload(b) ==
  /\ Goto(b, "write", "held")
  /\ file' = IF file.by = b THEN LockFile(b, b) ELSE file
  /\ UNCHANGED <<seen, late, aged, dead, reclaimed>>

(* The write fails (a full disk): acquire() raises and leaves the file. *)
WriteFails(b) ==
  /\ "write_error" \in Faults
  /\ Goto(b, "write", "failed")
  /\ UNCHANGED <<file, seen, late, aged, dead, reclaimed>>

-----------------------------------------------------------------------------
(* release()                                                               *)

(* The body of the with statement is over; release() is entered. *)
Leave(b) ==
  /\ Goto(b, "held", "check")
  /\ UNCHANGED <<file, seen, late, aged, dead, reclaimed>>

OwnsFile(b) == file.owner = b

CheckOwner(b) ==
  /\ seen' = [seen EXCEPT ![b] = file.owner]
  /\ Goto(b, "check", IF OwnsFile(b) THEN "unlink" ELSE "done")
  /\ UNCHANGED <<file, late, aged, dead, reclaimed>>

(* Mutant of Unlink: leaves the file. *)
Unlink_forgets(b) ==
  /\ Goto(b, "unlink", "done")
  /\ UNCHANGED <<file, seen, late, aged, dead, reclaimed>>

Unlink(b) ==
  /\ Goto(b, "unlink", "done")
  /\ file' = Absent
  /\ UNCHANGED <<seen, late, aged, dead, reclaimed>>

-----------------------------------------------------------------------------
(* The environment                                                         *)

DeadlinePasses(b) ==
  /\ pc[b] \in Acquiring
  /\ b \notin late
  /\ late' = late \union {b}
  /\ UNCHANGED <<pc, file, seen, aged, dead, reclaimed>>

(* Five minutes pass after the payload was computed. *)
GrowsOld(b) ==
  /\ "age" \in Faults
  /\ pc[b] \in {"write", "held"} \union Releasing
  /\ b \notin aged
  /\ aged' = aged \union {b}
  /\ UNCHANGED <<pc, file, seen, late, dead, reclaimed>>

BuildersOf(p) == {b \in Builder : PidOf[b] = p}

(* A process whose builds are over exits; nothing of it is left running. *)
ProcessExits(p) ==
  /\ "exit" \in Faults
  /\ p \notin dead
  /\ \A b \in BuildersOf(p) : pc[b] \in Over
  /\ dead' = dead \union {p}
  /\ UNCHANGED <<pc, file, seen, late, aged, reclaimed>>

(* A process is killed, taking all its builders with it.                   *)
Crash(p) ==
  /\ "crash" \in Faults
  /\ p \notin dead
  /\ \A b \in BuildersOf(p) : pc[b] = "write" => "crash_in_create" \in Faults
  /\ dead' = dead \union {p}
  /\ pc' = [b \in Builder |->
              IF b \in BuildersOf(p) /\ pc[b] \notin Over THEN "crashed" ELSE pc[b]]
  /\ UNCHANGED <<file, seen, late, aged, reclaimed>>

-----------------------------------------------------------------------------

Acquire(b) ==
  \/ ReadOwner(b)
  \/ JudgeStale(b)
  \/ JudgeLive(b)
  \/ GiveUp(b)
  \/ RemoveStale(b)
  \/ CreateWins(b)
  \/ CreateLoses(b)
  \/ WritePayload(b)

Release(b) == CheckOwner(b) \/ Unlink(b)

LockEnvironment ==
  \/ \E b \in Builder : DeadlinePasses(b) \/ GrowsOld(b) \/ WriteFails(b)
  \/ \E p \in Pid : ProcessExits(p) \/ Crash(p)

LockNext ==
  \/ \E b \in Builder : Begin(b) \/ Acquire(b) \/ Leave(b) \/ Release(b)
  \/ LockEnvironment

LockSpec == LockInit /\ [][LockNext]_lockVars

(* A running builder keeps taking its steps, the with body ends, and its   *)
(* deadline passes if it waits long enough.  No fault is ever owed.        *)
LockFairness ==
  \A b \in Builder :
    /\ WF_lockVars(Acquire(b))
    /\ WF_lockVars(Leave(b))
    /\ WF_lockVars(Release(b))
    /\ WF_lockVars(DeadlinePasses(b))

FairLockSpec == LockSpec /\ LockFairness

-----------------------------------------------------------------------------
(* Properties                                                              *)

(* Until some acquirer has removed a lock file as stale, at most one       *)
(* builder is inside the with body: O_CREAT|O_EXCL and the token check of  *)
(* release() exclude the others whatever crashes, exits or write errors    *)
(* happen.                                                                 *)
ExclusiveUntilReclaim ==
  ~reclaimed => \A a, b \in Holders : a = b

(* A lock file never outlives the build that created it, unless that build *)
(* was killed or could not write its payload: with every reclaim and every *)
(* release race allowed, a build that ends normally leaves no lock behind. *)
NoOrphanedLock ==
  file # Absent =>
    pc[file.by] \in {"write", "held", "crashed", "failed"} \union Releasing

(* Until some acquirer has removed a lock file as stale, a builder that    *)
(* owns the lock keeps it: no step of another builder removes or replaces  *)
(* the file while its creator still writes, holds or releases it.          *)
LockNotStolen ==
  [][~reclaimed' /\ file # Absent /\ pc[file.by] \in {"write", "held", "check"}
       => file'.by = file.by]_lockVars

(* A lock file whose creator will never write its payload. *)
Wedged == file # Absent /\ file.owner = NoOwner /\ pc[file.by] \in {"crashed", "failed"}

(* Every builder that starts acquiring ends: it gets the lock and releases *)
(* it, times out, or dies.  Stale locks are reclaimed, live ones waited    *)
(* for until the deadline, and the removals of late reclaimers delay no    *)
(* one for ever; the only thing in the way is a file without a payload.    *)
EveryAcquireEndsUnlessWedged ==
  \A b \in Builder : pc[b] = "read" ~> pc[b] \in Over \/ Wedged
=============================================================================
