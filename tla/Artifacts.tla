------------------------------ MODULE Artifacts ------------------------------
(***************************************************************************)
(* The native compilers under build/: how scripts/sv0 decides that one is  *)
(* stale (_artifact_stale and the ensure_ functions) and how the scripts   *)
(* build-sv0-megatu-{native,verify-native,vm-native}.sh make it.          *)
(*                                                                         *)
(* A driver that finds the compiler missing or older than a source builds  *)
(* it in place: it derives a main, assembles one translation unit, emits C *)
(* for it, links, and writes a wrapper.  Every file on that way has a      *)
(* fixed name and two drivers of a checkout share it.  Sources are edited  *)
(* meanwhile; a file's modification time is the tick of a coarse clock.    *)
(***************************************************************************)
EXTENDS Naturals, FiniteSets

CONSTANTS
  Driver,
  Kind,      \* which of the three compilers the drivers want
  MaxClock,  \* ticks of the clock
  MaxEdits   \* edits of a source

(* "lib" stands for everything _artifact_stale looks at; "patch" for       *)
(* native_exe_vm_compose_patch.py, which only the VM build reads.          *)
Src == {"lib", "patch"}

ASSUME ArtifactsAssumption ==
  /\ Kind \subseteq {"native", "verify", "vm"}
  /\ MaxClock \in Nat /\ MaxEdits \in Nat

VARIABLES
  kind,
  errexit,  \* drivers whose caller leaves errexit on
  clock,
  version,  \* of each source
  mtime,    \* of each source
  main,     \* the derived main
  tu,       \* the assembled translation unit
  emitC,    \* the C emitted for it
  binary,
  wrapper,  \* "none", "empty" (an executable just truncated) or "whole"
  pc,
  got,      \* what a driver has read and not yet written
  mixed,    \* drivers whose emit another emit of the file overlaps
  alone,    \* history: drivers no other build or edit has overlapped
  built     \* history: the binary was built alone

fileVars    == <<version, mtime, main, tu, emitC, binary, wrapper>>
historyVars == <<alone, built>>
artVars == <<kind, errexit, clock, fileVars, pc, got, mixed, historyVars>>

Build == {"derive", "assemble", "retarget", "emit", "emitting", "cc", "link",
          "linking", "wrap", "wrapping"}

NoText == [lib |-> 0, main |-> 0, patch |-> 0, target |-> "none"]
Torn   == [NoText EXCEPT !.target = "torn"]
None   == [exec |-> FALSE, text |-> NoText, mtime |-> 0, by |-> {}]

Reads == IF kind = "vm" THEN Src ELSE {"lib"}
Wrapped == kind # "vm"

Current(text) ==
  /\ text.lib = version["lib"] /\ text.main = version["lib"]
  /\ text.target = (IF kind = "vm" THEN "vm" ELSE "c")

ArtInit ==
  /\ kind \in Kind
  /\ errexit \in SUBSET Driver
  /\ clock = 1
  /\ version = [s \in Src |-> 1]
  /\ mtime = [s \in Src |-> 0]
  /\ main = NoText /\ tu = NoText /\ emitC = NoText
  /\ binary = None
  /\ wrapper = "none"
  /\ pc = [d \in Driver |-> "start"]
  /\ got = [d \in Driver |-> NoText]
  /\ mixed = {}
  /\ alone = {}
  /\ built = FALSE

-----------------------------------------------------------------------------
(* The driver's question.                                                  *)

(* test -x on what the driver is going to run.                             *)
Runnable == IF Wrapped THEN wrapper # "none" ELSE binary.exec

(* -nt is strict, and the list does not name the patch.                    *)
Stale == ~binary.exec \/ mtime["lib"] > binary.mtime

Goto(d, step) == pc' = [pc EXCEPT ![d] = step]

Building(d) == pc[d] \in Build
Busy(d)     == Building(d) \/ pc[d] = "check"

(* A build that begins while another is under way spoils both.             *)
BeginsBuild(d) ==
  alone' = {e \in alone : ~Busy(e)} \union (IF \E e \in Driver : Building(e) THEN {} ELSE {d})

Ensure(d) ==
  /\ pc[d] = "start"
  /\ IF ~Runnable \/ Stale
     THEN Goto(d, "derive") /\ BeginsBuild(d)
     ELSE Goto(d, "check") /\ UNCHANGED alone
  /\ UNCHANGED <<kind, errexit, clock, fileVars, got, mixed, built>>

(* With SV0_GUARDS_FAST the driver does without the VM emitter.            *)
SkipFast(d) ==
  /\ pc[d] = "start" /\ kind = "vm"
  /\ Goto(d, "skipped")
  /\ UNCHANGED <<kind, errexit, clock, fileVars, got, mixed, historyVars>>

(* After a build, or without one, the driver only asks test -x again.      *)
Check(d) ==
  /\ pc[d] = "check"
  /\ Goto(d, IF Runnable THEN "proceed" ELSE "failed")
  /\ UNCHANGED <<kind, errexit, clock, fileVars, got, mixed, historyVars>>

-----------------------------------------------------------------------------
(* The build script.                                                       *)

Exit_goesOn(d) == Goto(d, "check")

(* Any step of the script may fail and ends it.  That ends the driver too, *)
(* unless its caller has put errexit aside: then it goes on to its check.  *)
Exit(d) == Goto(d, IF d \in errexit THEN "failed" ELSE "check")

Forget(d) == got' = [got EXCEPT ![d] = NoText] /\ mixed' = mixed \ {d}

DeriveMain(d) ==
  /\ pc[d] = "derive" /\ Goto(d, "assemble")
  /\ main' = [NoText EXCEPT !.main = version["lib"],
                            !.patch = IF "patch" \in Reads THEN version["patch"] ELSE 0]
  /\ UNCHANGED <<kind, errexit, clock, version, mtime, tu, emitC, binary, wrapper,
                 got, mixed, historyVars>>

Assemble(d) ==
  /\ pc[d] = "assemble" /\ Goto(d, IF kind = "vm" THEN "retarget" ELSE "emit")
  /\ tu' = [main EXCEPT !.lib = version["lib"], !.target = "c"]
  /\ UNCHANGED <<kind, errexit, clock, version, mtime, main, emitC, binary, wrapper,
                 got, mixed, historyVars>>

Retarget_missesIt(d) ==
  /\ pc[d] = "retarget"
  /\ UNCHANGED tu /\ Goto(d, "emit")
  /\ UNCHANGED <<kind, errexit, clock, version, mtime, main, emitC, binary, wrapper,
                 got, mixed, historyVars>>

(* The VM build flips a constant of the assembled text, and stops when it  *)
(* finds it flipped.                                                       *)
Retarget(d) ==
  /\ pc[d] = "retarget"
  /\ IF tu.target = "c"
     THEN tu' = [tu EXCEPT !.target = "vm"] /\ Goto(d, "emit")
     ELSE UNCHANGED tu /\ Exit(d)
  /\ UNCHANGED <<kind, errexit, clock, version, mtime, main, emitC, binary, wrapper,
                 got, mixed, historyVars>>

(* The shell truncates the C file, then the heap reads the text.           *)
OpenEmit(d) ==
  /\ pc[d] = "emit" /\ Goto(d, "emitting")
  /\ got' = [got EXCEPT ![d] = tu]
  /\ emitC' = Torn
  /\ LET others == {e \in Driver \ {d} : pc[e] = "emitting"}
     IN mixed' = IF others = {} THEN mixed \ {d} ELSE mixed \union others \union {d}
  /\ UNCHANGED <<kind, errexit, clock, version, mtime, main, tu, binary, wrapper, historyVars>>

FillEmit(d) ==
  /\ pc[d] = "emitting" /\ Goto(d, "cc")
  /\ emitC' \in {got[d]} \union (IF d \in mixed THEN {Torn} ELSE {})
  /\ Forget(d)
  /\ UNCHANGED <<kind, errexit, clock, version, mtime, main, tu, binary, wrapper, historyVars>>

(* The C compiler reads the C file; a torn one has no main.                *)
CcReads(d) ==
  /\ pc[d] = "cc"
  /\ IF emitC = Torn THEN Exit(d) /\ UNCHANGED got
     ELSE Goto(d, "link") /\ got' = [got EXCEPT ![d] = emitC]
  /\ UNCHANGED <<kind, errexit, clock, fileVars, mixed, historyVars>>

(* The linker makes a new file in place of the old one and makes it        *)
(* executable when it is done.                                             *)
OpenLink(d) ==
  /\ pc[d] = "link" /\ Goto(d, "linking")
  /\ binary' = [None EXCEPT !.by = {d}]
  /\ UNCHANGED <<kind, errexit, clock, version, mtime, main, tu, emitC, wrapper, got,
                 mixed, historyVars>>

FillLink(d) ==
  /\ pc[d] = "linking" /\ Goto(d, IF Wrapped THEN "wrap" ELSE "check")
  /\ IF binary.by = {d}
     THEN /\ binary' = [exec |-> TRUE, text |-> got[d], mtime |-> clock, by |-> {}]
          /\ built' = (d \in alone)
     ELSE UNCHANGED <<binary, built>>
  /\ got' = [got EXCEPT ![d] = NoText]
  /\ UNCHANGED <<kind, errexit, clock, version, mtime, main, tu, emitC, wrapper, mixed, alone>>

(* A wrapper that was there keeps its x bit while it is written anew.      *)
OpenWrap(d) ==
  /\ pc[d] = "wrap" /\ Goto(d, "wrapping")
  /\ wrapper' = IF wrapper = "none" THEN "none" ELSE "empty"
  /\ UNCHANGED <<kind, errexit, clock, version, mtime, main, tu, emitC, binary, got, mixed,
                 historyVars>>

FillWrap(d) ==
  /\ pc[d] = "wrapping" /\ Goto(d, "check")
  /\ wrapper' = "whole"
  /\ UNCHANGED <<kind, errexit, clock, version, mtime, main, tu, emitC, binary, got, mixed,
                 historyVars>>

(* A step fails for a reason of its own; a link that fails takes its       *)
(* output away.                                                            *)
StepFails(d) ==
  /\ Building(d) /\ Exit(d)
  /\ binary' = IF pc[d] = "linking" /\ binary.by = {d} THEN None ELSE binary
  /\ Forget(d)
  /\ UNCHANGED <<kind, errexit, clock, version, mtime, main, tu, emitC, wrapper, historyVars>>

Kill(d) ==
  /\ Building(d) /\ Goto(d, "killed")
  /\ Forget(d)
  /\ UNCHANGED <<kind, errexit, clock, fileVars, historyVars>>

(* Another command of the checkout, in place of one that has ended.        *)
Again(d) ==
  /\ pc[d] \in {"proceed", "failed", "skipped", "killed"} /\ Goto(d, "start")
  /\ alone' = alone \ {d}
  /\ UNCHANGED <<kind, errexit, clock, fileVars, got, mixed, built>>

-----------------------------------------------------------------------------
Tick ==
  /\ clock < MaxClock /\ clock' = clock + 1
  /\ UNCHANGED <<kind, errexit, fileVars, pc, got, mixed, historyVars>>

Edit(s) ==
  /\ s \in Reads /\ version[s] <= MaxEdits
  /\ version' = [version EXCEPT ![s] = @ + 1]
  /\ mtime' = [mtime EXCEPT ![s] = clock]
  /\ alone' = alone \ {d \in Driver : Busy(d)}
  /\ UNCHANGED <<kind, errexit, clock, main, tu, emitC, binary, wrapper, pc, got, mixed,
                 built>>

BuildStep(d) ==
  \/ DeriveMain(d) \/ Assemble(d) \/ Retarget(d) \/ OpenEmit(d) \/ FillEmit(d)
  \/ CcReads(d) \/ OpenLink(d) \/ FillLink(d) \/ OpenWrap(d) \/ FillWrap(d)

ArtNext ==
  \/ \E d \in Driver : \/ Ensure(d) \/ SkipFast(d) \/ Check(d)
                       \/ BuildStep(d) \/ StepFails(d) \/ Kill(d) \/ Again(d)
  \/ Tick
  \/ \E s \in Src : Edit(s)

ArtSpec == ArtInit /\ [][ArtNext]_artVars
-----------------------------------------------------------------------------
(* Properties.                                                             *)

(* A compiler that does not look stale is the compiler of the sources as   *)
(* they are ("older than the sources under test silently lags the gate by  *)
(* a push", sv0:169), however many builds failed or were killed before:    *)
(* so long as nothing overlapped its own build, and no edit fell in the    *)
(* tick it was linked in.                                                  *)
FreshIsCurrent ==
  ~Stale /\ built /\ mtime["lib"] # binary.mtime => Current(binary.text)

(* A driver that has built the compiler, undisturbed by an edit or another *)
(* build, and whose caller left errexit on, goes on with the compiler of   *)
(* the sources and a wrapper that is whole: a build that failed at any     *)
(* step does not send it on with the compiler that was there before.       *)
ProceedsWithCurrent ==
  [][\A d \in errexit \intersect alone :
       pc[d] = "check" /\ pc'[d] = "proceed"
         => binary.exec /\ Current(binary.text) /\ (Wrapped => wrapper = "whole")]_artVars
=============================================================================
