----------------------------- MODULE Dashboard -----------------------------
(***************************************************************************)
(* progress_dashboard_server.py: threads of one HTTP server answer with    *)
(* the digest of the task files, which is rebuilt when the last one is too *)
(* old.  _JsonBodyCache guards the body with one lock, held while the      *)
(* files are read.                                                         *)
(*                                                                         *)
(* The milestones have a cache of the same class to themselves.  Other     *)
(* paths than the two APIs only read files that nothing changes.           *)
(***************************************************************************)
EXTENDS Naturals, FiniteSets

CONSTANTS
  Client,     \* the requests that may be under way at once
  TaskFile,   \* the files under task/
  TTL,        \* --refresh-seconds, in ticks
  BuildTime,  \* how many ticks a build may take
  MaxClock, MaxEdit

ASSUME DashboardAssumption ==
  TTL \in Nat \ {0} /\ BuildTime \in Nat /\ MaxClock \in Nat /\ TTL <= MaxClock

Nobody == "nobody"

ASSUME NobodyAssumption == Nobody \notin Client

VARIABLES
  clock,    \* time.monotonic()
  version,  \* of each file
  holder,   \* of _lock
  body,     \* {} or {the version of each file}: _body
  builtAt,  \* _built_at
  serving,  \* what each request is doing
  reading,  \* the files its build has read, in the versions it found
  began,    \* when its build began
  answer,   \* what it was answered: {} or {the version of each file}
  floor,    \* history: the versions answered before it came in
  answered, \* history: the newest version of each file in an answer
  past      \* history: the versions there were at the start of each tick

dashVars == <<clock, version, holder, body, builtAt, serving, reading, began, answer,
              floor, answered, past>>

NoVersions == [f \in TaskFile |-> 0]

DashInit ==
  /\ clock = TTL /\ version = NoVersions
  /\ holder = Nobody /\ body = {} /\ builtAt = 0
  /\ serving = [c \in Client |-> "idle"] /\ reading = [c \in Client |-> << >>]
  /\ began = [c \in Client |-> 0] /\ answer = [c \in Client |-> {}]
  /\ floor = [c \in Client |-> NoVersions] /\ answered = NoVersions
  /\ past = [t \in 0 .. MaxClock |-> NoVersions]

Goes(c, from, to) == serving[c] = from /\ serving' = [serving EXCEPT ![c] = to]

WorldStays == UNCHANGED <<clock, version, past>>

(* do_GET for /api/digest.                                                 *)
Arrive(c) ==
  /\ Goes(c, "idle", "waiting")
  /\ floor' = [floor EXCEPT ![c] = answered] /\ answer' = [answer EXCEPT ![c] = {}]
  /\ WorldStays /\ UNCHANGED <<holder, body, builtAt, reading, began, answered>>

Free_always(c) == TRUE

Free(c) == holder = Nobody

(* The time is read once the lock is held.                                 *)
Recent == body # {} /\ clock - builtAt < TTL

Consult(c) ==
  /\ Free(c) /\ ~Recent
  /\ Goes(c, "waiting", "building") /\ holder' = c
  /\ reading' = [reading EXCEPT ![c] = << >>] /\ began' = [began EXCEPT ![c] = clock]
  /\ WorldStays /\ UNCHANGED <<body, builtAt, answer, floor, answered>>

Reuse(c) ==
  /\ Free(c) /\ Recent
  /\ Goes(c, "waiting", "sending")
  /\ answer' = [answer EXCEPT ![c] = body]
  /\ WorldStays /\ UNCHANGED <<holder, body, builtAt, reading, began, floor, answered>>

(* _build_digest reads one file after the other.                           *)
ReadTask(c) ==
  /\ serving[c] = "building"
  /\ \E f \in TaskFile \ DOMAIN reading[c] :
       reading' = [reading EXCEPT ![c] = [g \in DOMAIN @ \union {f} |-> IF g = f THEN version[f] ELSE @[g]]]
  /\ WorldStays /\ UNCHANGED <<holder, body, builtAt, serving, began, answer, floor, answered>>

Store(c) ==
  /\ Goes(c, "building", "sending") /\ DOMAIN reading[c] = TaskFile
  /\ holder' = Nobody
  /\ body' = {reading[c]} /\ builtAt' = clock
  /\ answer' = [answer EXCEPT ![c] = {reading[c]}]
  /\ WorldStays /\ UNCHANGED <<reading, began, floor, answered>>

(* A file that cannot be read: the thread dies and the body stays.         *)
BuildRaises(c) ==
  /\ Goes(c, "building", "idle") /\ holder' = Nobody
  /\ WorldStays /\ UNCHANGED <<body, builtAt, reading, began, answer, floor, answered>>

Send(c) ==
  /\ Goes(c, "sending", "idle")
  /\ \E a \in answer[c] :
       answered' = [f \in TaskFile |-> IF a[f] > answered[f] THEN a[f] ELSE answered[f]]
  /\ WorldStays /\ UNCHANGED <<holder, body, builtAt, reading, began, answer, floor>>

Edit(f) ==
  /\ version[f] < MaxEdit /\ version' = [version EXCEPT ![f] = @ + 1]
  /\ UNCHANGED <<clock, holder, body, builtAt, serving, reading, began, answer, floor, answered, past>>

(* Time passes; a build takes BuildTime at most, and a body waits to be    *)
(* sent as long as it likes.                                               *)
Tick ==
  /\ clock < MaxClock /\ \A c \in Client : serving[c] = "building" => clock < began[c] + BuildTime
  /\ clock' = clock + 1 /\ past' = [past EXCEPT ![clock + 1] = version]
  /\ UNCHANGED <<version, holder, body, builtAt, serving, reading, began, answer, floor, answered>>

DashNext ==
  \/ \E c \in Client : \/ Arrive(c) \/ Consult(c) \/ Reuse(c) \/ ReadTask(c)
                       \/ Store(c) \/ BuildRaises(c) \/ Send(c)
  \/ \E f \in TaskFile : Edit(f)
  \/ Tick

DashSpec == DashInit /\ [][DashNext]_dashVars

-----------------------------------------------------------------------------
(* Properties.                                                             *)

(* A request that comes in after an answer was sent is not answered with   *)
(* an older version of any file.                                           *)
NeverGoesBack ==
  \A c \in Client : serving[c] = "sending" => \A a \in answer[c], f \in TaskFile : a[f] >= floor[c][f]

(* An edit shows in every answer settled later than the refresh time and   *)
(* the time of a build after it, whatever else is being read, built, sent  *)
(* or failing meanwhile.                                                   *)
EditsShowUp ==
  Recent => \A b \in body, f \in TaskFile :
    clock + 1 >= TTL + BuildTime => b[f] >= past[clock + 1 - (TTL + BuildTime)][f]

AnswersAreRecent == NeverGoesBack /\ EditsShowUp
=============================================================================
