---------------------------- MODULE SelfHostLoop ----------------------------
(***************************************************************************)
(* The self-host loop of scripts/sv0 in its default, behavioural mode      *)
(* (run_self_host_sv0_loop, _self_host_sv0_loop_one) with the emit cache   *)
(* and its key (scripts/emit_cache_key.py).                                *)
(*                                                                         *)
(* A worker handles one file of one loop.  It has the native compiler emit *)
(* C for it twice, or takes the C from the emit cache, has the SML heap    *)
(* emit the reference, and compares what the two programs do.  Workers     *)
(* write scratch files named after the stem of their file, in a directory  *)
(* all loops of the checkout share.  Sources are edited and the compiler   *)
(* rebuilt while loops run.                                                *)
(***************************************************************************)
EXTENDS Naturals, FiniteSets

CONSTANTS
  Worker,
  Loop,
  Version,     \* versions of a source, and of the compiler
  Layout,      \* which file, stem and loop each worker may have
  Miscompiled, \* the pairs of compiler and source that go wrong
  Begin,       \* the compiler and the sources there may be at first
  Jobs,        \* workers of a loop at one time
  MaxEvents    \* how many edits, rebuild steps, prunes, kills and failures there are

File == {"f1", "f2"}
Stem == {"s1", "s2"}

ASSUME LayoutAssumption ==
  /\ Layout \subseteq [Worker -> [file : File, stem : Stem, loop : Loop]]
  /\ Miscompiled \subseteq Version \X Version
  /\ Begin \subseteq Version \X [File -> Version]
  /\ Jobs \in Nat \ {0} /\ MaxEvents \in Nat

(* The stem is the base name of the file (sv0:1477).                       *)
ASSUME StemAssumption ==
  \A l \in Layout : \A v, w \in Worker : l[v].file = l[w].file => l[v].stem = l[w].stem

(* No version is 0: that marks the SML heap's emits, and no text at all.   *)
ASSUME VersionAssumption == 0 \notin Version

VARIABLES
  layout,
  source,   \* the version of each file
  tuC,      \* the version of build/megaTU-native.c
  binary,   \* the version of the compiler built from it
  pc,       \* the step each worker takes next
  key,      \* the emit key it has computed
  start,    \* history: the versions it began with
  fd,       \* the file it has open for an emit
  scratch,  \* the scratch files: .a.c, .b.c and .ref.c of each stem
  ecache,   \* the emit cache
  FAILED,   \* the FAILED file of each loop
  stopped,  \* the loops whose xargs has stopped
  result,   \* how each loop ended
  events,   \* how many events there have been
  moved,    \* history: workers under way at an edit or a rebuild
  tainted   \* history: keys such a worker stored under

loopVars == <<layout, source, tuC, binary, pc, key, start, fd, scratch,
              ecache, FAILED, stopped, result, events, moved, tainted>>

worldVars  == <<layout, source, tuC, binary>>
quietVars  == <<worldVars, events>>

NoKey   == [compiler |-> 0, source |-> 0]
Key     == [compiler : Version, source : Version, file : File]
Kind    == {"a", "b", "ref"}
Opening == [a |-> "open_a", b |-> "open_b", ref |-> "open_ref"]
Filling == [a |-> "fill_a", b |-> "fill_b", ref |-> "fill_ref"]
NoText  == [by |-> 0, of |-> 0, file |-> "none"]
Partial == [by |-> 0, of |-> 0, file |-> "partial"]
Missing == [inode |-> "none", text |-> NoText]
SML     == 0

(* C text: who emitted it, of what.  The file matters too, but the stem of *)
(* two files is one only when they differ, and then their texts differ.    *)
Emitted(by, file) == [by |-> by, of |-> source[file], file |-> file]
Texts == [by : Version \union {SML}, of : Version, file : File]

FileOf(w) == layout[w].file
StemOf(w) == layout[w].stem
LoopOf(w) == layout[w].loop
Peers(l)  == {w \in Worker : LoopOf(w) = l}

Under(w)  == pc[w] \notin {"idle", "pass", "fail", "lost"}

LoopInit ==
  /\ layout \in Layout
  /\ \E begin \in Begin : tuC = begin[1] /\ binary = begin[1] /\ source = begin[2]
  /\ pc = [w \in Worker |-> "idle"]
  /\ key = [w \in Worker |-> NoKey]
  /\ start = [w \in Worker |-> NoKey]
  /\ fd = [w \in Worker |-> "none"]
  /\ scratch = [s \in Stem |-> [k \in Kind |-> Missing]]
  /\ ecache = [k \in Key |-> NoText]
  /\ FAILED = [l \in Loop |-> {}]
  /\ stopped = {}
  /\ result = [l \in Loop |-> IF Peers(l) = {} THEN "ok" ELSE "none"]
  /\ events = 0
  /\ moved = {}
  /\ tainted = {}

-----------------------------------------------------------------------------
(* One worker.                                                             *)

Goto(w, step) == pc' = [pc EXCEPT ![w] = step]

Fail_unrecorded(w) == Goto(w, "fail") /\ UNCHANGED FAILED

(* A worker that exits with an error is named in FAILED by the shell that  *)
(* xargs started for it.                                                   *)
Fail(w) ==
  /\ Goto(w, "fail")
  /\ FAILED' = [FAILED EXCEPT ![LoopOf(w)] = @ \union {w}]

KeyNow_anySource(w) ==
  IF binary = tuC
  THEN [compiler |-> tuC, source |-> CHOOSE v \in Version : TRUE, file |-> FileOf(w)]
  ELSE NoKey

KeyNow_anyBinary(w) == [compiler |-> tuC, source |-> source[FileOf(w)], file |-> FileOf(w)]

(* The key names the compiler by the C it was built from; a binary older   *)
(* than that C is not known and its emits are not cached.                  *)
KeyNow(w) == IF binary = tuC
             THEN [compiler |-> tuC, source |-> source[FileOf(w)], file |-> FileOf(w)]
             ELSE NoKey

(* A worker starts, computes its key and looks it up.                      *)
Dispatch(w) ==
  /\ pc[w] = "idle" /\ result[LoopOf(w)] = "none" /\ LoopOf(w) \notin stopped
  /\ Cardinality({v \in Peers(LoopOf(w)) : Under(v)}) < Jobs
  /\ start' = [start EXCEPT ![w] = [compiler |-> binary, source |-> source[FileOf(w)]]]
  /\ key' = [key EXCEPT ![w] = KeyNow(w)]
  /\ Goto(w, IF KeyNow(w) # NoKey /\ ecache[KeyNow(w)] # NoText THEN "copy" ELSE "open_a")
  /\ UNCHANGED <<quietVars, fd, scratch, ecache, FAILED, stopped, result, moved, tainted>>

(* Opening a scratch file truncates it, or creates it.                     *)
Truncated(kind, w) ==
  LET file == scratch[StemOf(w)][kind]
  IN  [inode |-> IF file = Missing THEN w ELSE file.inode, text |-> Partial]

(* The entry may have been pruned since the lookup.                        *)
Copy(w) ==
  /\ pc[w] = "copy"
  /\ IF ecache[key[w]] = NoText THEN Fail(w) /\ UNCHANGED scratch
     ELSE /\ scratch' = [scratch EXCEPT ![StemOf(w)]["a"] =
                           [Truncated("a", w) EXCEPT !.text = ecache[key[w]]]]
          /\ Goto(w, "open_ref") /\ UNCHANGED FAILED
  /\ UNCHANGED <<quietVars, key, start, fd, ecache, stopped, result,
                 moved, tainted>>

OpenEmit(w, kind) ==
  /\ pc[w] = Opening[kind]
  /\ scratch' = [scratch EXCEPT ![StemOf(w)][kind] = Truncated(kind, w)]
  /\ fd' = [fd EXCEPT ![w] = Truncated(kind, w).inode]
  /\ Goto(w, Filling[kind])
  /\ UNCHANGED <<quietVars, key, start, ecache, FAILED, stopped, result,
                 moved, tainted>>

AfterFill(kind) == CASE kind = "a" -> "open_b" [] kind = "b" -> "cmp" [] OTHER -> "run"

(* The emit goes to the file that was opened, which may have lost its name *)
(* meanwhile; then what is under the name is looked at for an #include.    *)
FillEmit(w, kind) ==
  /\ pc[w] = Filling[kind]
  /\ LET named == scratch[StemOf(w)][kind]
         text  == Emitted(IF kind = "ref" THEN SML ELSE binary, FileOf(w))
         now   == IF named.inode = fd[w] THEN [named EXCEPT !.text = text] ELSE named
     IN  /\ scratch' = [scratch EXCEPT ![StemOf(w)][kind] = now]
         /\ IF now.text \in Texts THEN Goto(w, AfterFill(kind)) /\ UNCHANGED FAILED
            ELSE Fail(w)
  /\ UNCHANGED <<quietVars, key, start, fd, ecache, stopped, result,
                 moved, tainted>>

Compare(w) ==
  /\ pc[w] = "cmp"
  /\ LET a == scratch[StemOf(w)]["a"]
         b == scratch[StemOf(w)]["b"]
         same == a # Missing /\ b # Missing /\ a.text = b.text
     IN  IF same
         THEN /\ scratch' = [scratch EXCEPT ![StemOf(w)]["b"] = Missing]
              /\ Goto(w, IF key[w] = NoKey THEN "open_ref" ELSE "store")
              /\ UNCHANGED FAILED
         ELSE /\ scratch' = [scratch EXCEPT ![StemOf(w)]["a"] = Missing,
                                            ![StemOf(w)]["b"] = Missing]
              /\ Fail(w)
  /\ UNCHANGED <<quietVars, key, start, fd, ecache, stopped, result,
                 moved, tainted>>

(* cp and mv; a copy that fails is given up.                               *)
Store(w) ==
  /\ pc[w] = "store"
  /\ LET a == scratch[StemOf(w)]["a"]
     IN  IF a = Missing THEN UNCHANGED <<ecache, tainted>>
         ELSE /\ ecache' = [ecache EXCEPT ![key[w]] = a.text]
              /\ tainted' = IF w \in moved THEN tainted \union {key[w]}
                            ELSE tainted \ {key[w]}
  /\ Goto(w, "open_ref")
  /\ UNCHANGED <<quietVars, key, start, fd, scratch, FAILED, stopped,
                 result, moved>>

(* What a C text does: it does not compile, or it does the right thing, or *)
(* it was miscompiled.                                                     *)
Does(text) == IF text \notin Texts THEN "nothing"
              ELSE IF <<text.by, text.of>> \in Miscompiled THEN "wrong"
              ELSE "right"

(* Parity: the two do the same, and it is not an error.                    *)
Run(w) ==
  /\ pc[w] = "run"
  /\ LET ref   == scratch[StemOf(w)]["ref"].text
         built == scratch[StemOf(w)]["a"].text
     IN  IF Does(ref) # "nothing" /\ Does(built) = Does(ref)
         THEN Goto(w, "pass") /\ UNCHANGED FAILED
         ELSE Fail(w)
  /\ scratch' = [scratch EXCEPT ![StemOf(w)]["a"] = Missing, ![StemOf(w)]["ref"] = Missing]
  /\ UNCHANGED <<quietVars, key, start, fd, ecache, stopped, result, moved, tainted>>

WorkerStep(w) ==
  \/ Dispatch(w) \/ Copy(w) \/ Compare(w) \/ Store(w) \/ Run(w)
  \/ \E kind \in Kind : OpenEmit(w, kind) \/ FillEmit(w, kind)

-----------------------------------------------------------------------------
(* The loop, and what happens around it.                                   *)

EndLoop_awaitsEveryFile(l) ==
  /\ result[l] = "none"
  /\ \A w \in Peers(l) : ~Under(w) /\ pc[w] # "idle"
  /\ result' = [result EXCEPT ![l] =
                  IF FAILED[l] # {} THEN "failed" ELSE "ok"]
  /\ UNCHANGED <<quietVars, pc, key, start, fd, scratch, ecache, FAILED,
                 stopped, moved, tainted>>

(* xargs has no more to do.  When it stopped early it exits with an error, *)
(* which nobody looks at: both callers call the loop in a condition, where *)
(* errexit is off.                                                         *)
EndLoop(l) ==
  /\ result[l] = "none"
  /\ \A w \in Peers(l) : ~Under(w) /\ (pc[w] = "idle" => l \in stopped)
  /\ result' = [result EXCEPT ![l] =
                  IF FAILED[l] # {} THEN "failed" ELSE "ok"]
  /\ UNCHANGED <<quietVars, pc, key, start, fd, scratch, ecache, FAILED,
                 stopped, moved, tainted>>

Event == events < MaxEvents /\ events' = events + 1

(* The compiler rejects the file or crashes; the worker cleans up.         *)
EmitFails(w, kind) ==
  /\ pc[w] = Filling[kind] /\ Event
  /\ LET gone == IF kind = "ref" THEN {"a", "ref"} ELSE {"a", "b"}
     IN  scratch' = [scratch EXCEPT ![StemOf(w)] =
                       [k \in Kind |-> IF k \in gone THEN Missing ELSE @[k]]]
  /\ Fail(w)
  /\ UNCHANGED <<worldVars, key, start, fd, ecache, stopped, result,
                 moved, tainted>>

Kill(w) ==
  /\ Under(w) /\ Event
  /\ Fail(w)
  /\ UNCHANGED <<worldVars, key, start, fd, scratch, ecache, stopped,
                 result, moved, tainted>>

(* The shell around the worker is killed: nothing is written to FAILED and *)
(* xargs starts no more workers.                                           *)
KillWrapper(w) ==
  /\ Under(w) /\ Event
  /\ Goto(w, "lost")
  /\ stopped' = stopped \union {LoopOf(w)}
  /\ UNCHANGED <<worldVars, key, start, fd, scratch, ecache, FAILED,
                 result, moved, tainted>>

Prune ==
  /\ Event
  /\ \E k \in Key : ecache[k] # NoText /\ ecache' = [ecache EXCEPT ![k] = NoText]
  /\ UNCHANGED <<worldVars, pc, key, start, fd, scratch, FAILED, stopped,
                 result, moved, tainted>>

Moving == moved' = moved \union {w \in Worker : Under(w)}

Edit ==
  /\ Event
  /\ \E w \in Worker : \E v \in Version \ {source[FileOf(w)]} :
       source' = [source EXCEPT ![FileOf(w)] = v]
  /\ Moving
  /\ UNCHANGED <<layout, tuC, binary, pc, key, start, fd, scratch,
                 ecache, FAILED, stopped, result, tainted>>

(* Another driver rebuilds the compiler: first the C, then the binary.     *)
Rebuild ==
  /\ Event
  /\ \/ binary = tuC /\ tuC' \in Version \ {tuC} /\ UNCHANGED binary
     \/ binary # tuC /\ binary' = tuC /\ UNCHANGED tuC
  /\ Moving
  /\ UNCHANGED <<layout, source, pc, key, start, fd, scratch,
                 ecache, FAILED, stopped, result, tainted>>

LoopNext ==
  \/ \E w \in Worker : WorkerStep(w) \/ Kill(w) \/ KillWrapper(w)
  \/ \E w \in Worker, kind \in Kind : EmitFails(w, kind)
  \/ \E l \in Loop : EndLoop(l)
  \/ Prune \/ Edit \/ Rebuild

LoopSpec == LoopInit /\ [][LoopNext]_loopVars

(* Some worker goes on, or a loop without workers returns; which of them   *)
(* does not matter, for none of them has infinitely many steps.            *)
LoopFairness == WF_loopVars(\/ \E w \in Worker : WorkerStep(w)
                            \/ \E l \in Loop : EndLoop(l))

FairLoopSpec == LoopSpec /\ LoopFairness

-----------------------------------------------------------------------------

Alone(w) == \A v \in Worker \ {w} : StemOf(v) # StemOf(w)

(* A worker that passed compared C of the compiler and the source it began *)
(* with, and they are no miscompiled pair - unless the sources or the      *)
(* compiler changed on the way of a worker with these scratch files, or    *)
(* two files share them.  Two loops on one file cost each other failures   *)
(* and never a wrong pass.                                                 *)
PassIsTrue ==
  \A w \in Worker :
    /\ pc[w] = "pass"
    /\ \A v \in Worker : StemOf(v) = StemOf(w) => v \notin moved /\ FileOf(v) = FileOf(w)
    => <<start[w].compiler, start[w].source>> \notin Miscompiled

(* An entry of the emit cache is what its compiler emits for its source,   *)
(* when no worker shares its scratch files and nothing changed between the *)
(* computation of its key and the second emit.                             *)
EntryIsWhatItsKeySays ==
  (\A w \in Worker : Alone(w)) =>
    \A k \in Key \ tainted :
      ecache[k] \in {NoText, [by |-> k.compiler, of |-> k.source, file |-> k.file]}

(* A loop that ends with OK has checked every file, unless the shell of a  *)
(* worker was killed.                                                      *)
OkMeansEveryFilePassed ==
  \A l \in Loop :
    result[l] = "ok" /\ l \notin stopped =>
      \A w \in Peers(l) : pc[w] = "pass"

(* All loops come to an end, whatever is killed, edited or shared.         *)
EveryLoopEnds == <>(\A l \in Loop : result[l] # "none")
=============================================================================
