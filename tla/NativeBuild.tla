----------------------------- MODULE NativeBuild -----------------------------
(***************************************************************************)
(* `sv0 native-compile`: the pipeline of build_native_executable           *)
(* (scripts/native_exe_build.py) and the driver around it                  *)
(* (scripts/native_exe_main.py, run), for several builds of one output     *)
(* path that may run at the same time.  Publication is one stage of it.    *)
(*                                                                         *)
(* Besides the executable a build can leave three companions beside it:    *)
(* the retained C (--keep-c), the coverage map (--coverage), which the     *)
(* core compiler writes while it runs, and the build record.               *)
(* Contents are identified with the build that wrote them.  The text       *)
(* companions are written through a temporary file of the writing process  *)
(* and renamed, so each write is one step (AtomicText has the detail).     *)
(***************************************************************************)
EXTENDS Publication, Naturals

CONSTANTS
  Request,   \* the option combinations builds are run with
  NoFile     \* an absent companion

ASSUME RequestAssumption ==
  Request \subseteq [keep_c : BOOLEAN, coverage : BOOLEAN, record : BOOLEAN]
ASSUME NoFileAssumption == NoFile \notin Builder

VARIABLES
  request,     \* the options of each build
  stage,       \* the pipeline step each build takes next
  exit,        \* the exit code of each build
  scratch,     \* builds whose scratch directory exists
  keptC,       \* whose C is at the --keep-c path
  covMap,      \* whose map is at the default map path
  hashed,      \* the artifact a build hashed for its record
  record,      \* the record at the --build-record path
  removable,   \* whether a map at the map path can be read and removed
  overlapped   \* history: builds that ran while another one did

ownVars    == <<request, stage, exit, scratch, keptC, covMap, hashed, record, removable, overlapped>>
nativeVars == <<pubState, ownVars>>

Stage == {"new", "check", "core", "keep", "scratch", "host", "publish",
          "see_stale", "drop_stale", "provenance", "hash", "record", "over"}

(* The exit classes of native_exe_errors.py, for the phases a build can    *)
(* fail in; 1 is Python's own exit code for an exception nobody catches.   *)
ExitCode ==
  [usage |-> 2, input |-> 3, frontend |-> 4, entry |-> 4, emit_c |-> 4,
   tool_discovery |-> 5, host_compile |-> 6, host_link |-> 6, runtime |-> 7,
   publish |-> 8]
ExitSuccess == 0
Traceback   == 1
Running     == 99
ExitClasses == {ExitSuccess} \union {ExitCode[p] : p \in DOMAIN ExitCode}

Record == [by : Builder, artifact : Builder \union {Prior}]

NativeInit ==
  /\ PubInit
  /\ request \in [Builder -> Request]
  /\ stage = [b \in Builder |-> "new"]
  /\ exit = [b \in Builder |-> Running]
  /\ scratch = {}
  /\ keptC = NoFile
  /\ covMap = NoFile
  /\ hashed = [b \in Builder |-> Prior]
  /\ record = NoFile
  /\ removable \in BOOLEAN
  /\ overlapped = {}

-----------------------------------------------------------------------------

Alive(b)  == PidOf[b] \notin dead
Active(b) == stage[b] \notin {"new", "over"} /\ Alive(b)

(* A live build moves on in the pipeline. *)
Step(b, from, to) ==
  /\ Alive(b)
  /\ stage[b] = from
  /\ stage' = [stage EXCEPT ![b] = to]
  /\ UNCHANGED <<exit, request, removable, overlapped>>

(* A live build ends with an exit code; leaving the with block of          *)
(* ScratchDir removes the scratch directory on every path.                 *)
Finish(b, from, code) ==
  /\ Alive(b)
  /\ stage[b] = from
  /\ stage' = [stage EXCEPT ![b] = "over"]
  /\ exit' = [exit EXCEPT ![b] = code]
  /\ scratch' = scratch \ {b}
  /\ UNCHANGED <<request, removable, overlapped>>

Fail(b, from, phase) == Finish(b, from, ExitCode[phase])

companions == <<keptC, covMap, record>>

Start(b) ==
  /\ Alive(b)
  /\ stage[b] = "new"
  /\ stage' = [stage EXCEPT ![b] = "check"]
  /\ LET others == {c \in Builder \ {b} : Active(c)}
     IN  overlapped' = overlapped \union others
                         \union (IF others = {} THEN {} ELSE {b})
  /\ UNCHANGED <<pubState, request, exit, scratch, companions, hashed, removable>>

(* Steps 0 to 4: usage, input, entry, output path, runtime and compiler    *)
(* are checked before anything is written or run.                          *)
Check(b) ==
  /\ \/ Step(b, "check", "core") /\ UNCHANGED scratch
     \/ \E phase \in {"usage", "input", "entry", "publish", "runtime", "tool_discovery"} :
          Fail(b, "check", phase)
  /\ UNCHANGED <<pubState, companions, hashed>>

(* Steps 5 and 6: the core compiler writes the map of a coverage build     *)
(* along with the C it emits; or it rejects the program, or what it emits  *)
(* breaks the protocol, and it writes no map.                              *)
CoreCompile(b) ==
  /\ \/ /\ Step(b, "core", "keep")
        /\ covMap' = IF request[b].coverage THEN b ELSE covMap
        /\ UNCHANGED scratch
     \/ \E phase \in {"frontend", "emit_c"} : Fail(b, "core", phase) /\ UNCHANGED covMap
  /\ UNCHANGED <<pubState, keptC, record, hashed>>

(* An exception that is no BuildError ends the process with a traceback:   *)
(* OSError where the output directory, the scratch directory, the C or a   *)
(* companion cannot be written or the artifact is gone, SubprocessError    *)
(* when the core compiler cannot be run, and any error of the second       *)
(* probe, which is outside the try that maps errors to codes.              *)
Uncaught(b) ==
  /\ \E from \in {"check", "core", "keep", "scratch", "host", "provenance", "hash", "record"} :
       /\ from = "keep" => request[b].keep_c
       /\ from = "provenance" => request[b].record
       /\ Finish(b, from, Traceback)
  /\ UNCHANGED <<pubState, companions, hashed>>

(* Mutant of KeepC: the C is left for after the host compiler. *)
KeepC_later(b) ==
  /\ Step(b, "keep", "scratch")
  /\ UNCHANGED <<pubState, companions, hashed, scratch>>

(* Step 6b, before the host compiler runs. *)
KeepC(b) ==
  /\ Step(b, "keep", "scratch")
  /\ keptC' = IF request[b].keep_c THEN b ELSE keptC
  /\ UNCHANGED <<pubState, covMap, record, hashed, scratch>>

(* Step 7. *)
EnterScratch(b) ==
  /\ Step(b, "scratch", "host")
  /\ scratch' = scratch \union {b}
  /\ UNCHANGED <<pubState, companions, hashed>>

(* run_host_compile: a nonzero exit is HOST_COMPILE, an unusable output    *)
(* HOST_LINK, and only a usable one goes on to publication.                *)
HostSucceeds(b) ==
  /\ HostCompile(b)
  /\ IsUsable(tmp'[b])
  /\ Step(b, "host", "publish")
  /\ UNCHANGED <<companions, hashed, scratch>>

HostFails(b) ==
  /\ \E phase \in {"host_compile", "host_link"} : Fail(b, "host", phase)
  /\ UNCHANGED <<pubState, companions, hashed>>

(* Step 8: the steps of publish_atomically. *)
PublishStep(b) ==
  /\ stage[b] = "publish"
  /\ LockStep(b) \/ Body(b) \/ LeaveBody(b)
  /\ UNCHANGED ownVars

(* publish_atomically has returned or raised, and the scratch directory    *)
(* goes.  A lock that timed out or could not be written raises             *)
(* TimeoutError or OSError, which run() does not catch.  Its validation    *)
(* cannot fail here: it repeats that of run_host_compile on a file only    *)
(* this build can reach.                                                   *)
PublishReturns(b) ==
  /\ pc[b] = "done"
  /\ outcome[b] = "published"
  /\ Step(b, "publish", "see_stale")
  /\ scratch' = scratch \ {b}
  /\ UNCHANGED <<pubState, companions, hashed>>

(* Mutant of PublishRaises: a failed rename is ignored. *)
PublishRaises_swallowed(b) ==
  /\ pc[b] = "done" /\ outcome[b] = "publish_failed"
  /\ Step(b, "publish", "see_stale")
  /\ scratch' = scratch \ {b}
  /\ UNCHANGED <<pubState, companions, hashed>>

PublishRaises(b) ==
  /\ \/ pc[b] = "done" /\ outcome[b] = "publish_failed" /\ Fail(b, "publish", "publish")
     \/ pc[b] \in {"timed_out", "failed"} /\ Finish(b, "publish", Traceback)
  /\ UNCHANGED <<pubState, companions, hashed>>

(* Mutant of SeeStale: an earlier build's map is left alone. *)
SeeStale_never(b) ==
  /\ Step(b, "see_stale", "provenance")
  /\ UNCHANGED <<pubState, companions, hashed, scratch>>

(* Step 8b, remove_stale_outputs: a map beside the artifact that this      *)
(* build did not write is looked at, then unlinked; an OSError on the way  *)
(* is swallowed and leaves it.                                             *)
SeeStale(b) ==
  /\ Step(b, "see_stale",
          IF ~request[b].coverage /\ covMap # NoFile THEN "drop_stale" ELSE "provenance")
  /\ UNCHANGED <<pubState, companions, hashed, scratch>>

DropStale(b) ==
  /\ Step(b, "drop_stale", "provenance")
  /\ covMap' = IF removable THEN NoFile ELSE covMap
  /\ UNCHANGED <<pubState, keptC, record, hashed, scratch>>

(* run() after the pipeline: a record needs the provenance, the hash of    *)
(* what is at the output path by then, and the write.                      *)
Provenance(b) ==
  /\ \/ ~request[b].record /\ Finish(b, "provenance", ExitSuccess)
     \/ request[b].record /\ Step(b, "provenance", "hash") /\ UNCHANGED scratch
  /\ UNCHANGED <<pubState, companions, hashed>>

HashArtifact(b) ==
  /\ Step(b, "hash", "record")
  /\ hashed' = [hashed EXCEPT ![b] = final]
  /\ UNCHANGED <<pubState, companions, scratch>>

WriteRecord(b) ==
  /\ record' = [by |-> b, artifact |-> hashed[b]]
  /\ Finish(b, "record", ExitSuccess)
  /\ UNCHANGED <<pubState, keptC, covMap, hashed>>

-----------------------------------------------------------------------------

Pipeline(b) ==
  \/ Check(b)
  \/ CoreCompile(b)
  \/ Uncaught(b)
  \/ KeepC(b)
  \/ EnterScratch(b)
  \/ HostSucceeds(b)
  \/ HostFails(b)
  \/ PublishStep(b)
  \/ PublishReturns(b)
  \/ PublishRaises(b)
  \/ SeeStale(b)
  \/ DropStale(b)
  \/ Provenance(b)
  \/ HashArtifact(b)
  \/ WriteRecord(b)

(* A process exits when its build is over; it may be killed before. *)
NativeEnvironment ==
  /\ \/ \E b \in Builder : DeadlinePasses(b) \/ GrowsOld(b) \/ WriteFails(b)
     \/ \E p \in Pid : /\ \A b \in BuildersOf(p) : stage[b] = "over"
                       /\ ProcessExits(p)
     \/ \E p \in Pid : /\ \E b \in BuildersOf(p) : Active(b)
                       /\ Crash(p)
  /\ UNCHANGED <<pubVars, ownVars>>

NativeNext ==
  \/ \E b \in Builder : Start(b) \/ Pipeline(b)
  \/ NativeEnvironment

NativeSpec == NativeInit /\ [][NativeNext]_nativeVars

-----------------------------------------------------------------------------
(* Properties                                                              *)

(* When a build that had the output path to itself succeeds, everything    *)
(* beside the path is its own: the executable, the retained C and the      *)
(* record it was asked for, the map of a coverage build, and, unless it    *)
(* could not be removed, no map left by an earlier build beside an         *)
(* uninstrumented executable.                                              *)
SoloBuildIsConsistent ==
  [][\A b \in Builder :
       exit[b] = Running /\ exit'[b] = ExitSuccess /\ b \notin overlapped
         => /\ final' = b
            /\ request[b].keep_c => keptC' = b
            /\ request[b].record => record' = [by |-> b, artifact |-> b]
            /\ request[b].coverage => covMap' = b
            /\ ~request[b].coverage /\ removable => covMap' = NoFile]_nativeVars

(* The exit code tells whether the executable was published: 0 only after  *)
(* the rename, and an error class of native_exe_errors only when the       *)
(* artifact that was at the path before is untouched by this build.        *)
ExitCodeTellsPublication ==
  \A b \in Builder :
    /\ exit[b] = ExitSuccess => outcome[b] = "published"
    /\ exit[b] \in ExitClasses \ {ExitSuccess} =>
         outcome[b] # "published" /\ final # b

(* The scratch directory of a build lives exactly while the build is in    *)
(* the with block: no failing path leaks it, only a kill does.             *)
ScratchIsReleased ==
  \A b \in scratch : stage[b] \in {"host", "publish"}

(* Asked-for C is retained before the host compiler runs: it is this       *)
(* build's own from then on if no other build runs, and there is C to      *)
(* inspect after every host-compile failure.                               *)
RetainedCSurvivesFailure ==
  \A b \in Builder : request[b].keep_c =>
    /\ stage[b] \in {"scratch", "host", "publish"} /\ Alive(b) /\ b \notin overlapped
         => keptC = b
    /\ exit[b] = ExitCode["host_compile"] => keptC # NoFile

(* However a build ends, its scratch directory is gone and its C is there.  *)
FailureLeavesOrder == ScratchIsReleased /\ RetainedCSurvivesFailure
=============================================================================
