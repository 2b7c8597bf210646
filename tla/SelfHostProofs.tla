--------------------------- MODULE SelfHostProofs ---------------------------
(***************************************************************************)
(* What a pass of the self-host loop, its OK and an entry of its emit      *)
(* cache are worth, for any number of workers, loops and versions and any  *)
(* layout in which one file has one stem.                                  *)
(*                                                                         *)
(* The properties are not inductive: a pass is true because of what the    *)
(* scratch files held before it, and that because of what the worker knew  *)
(* when it opened them.  LoopInd says this, part by part.  Workers whose   *)
(* stem nobody shares own their emit (AloneInd, for the cache); workers    *)
(* that share a stem read what others left there, which is as good as      *)
(* their own while all are at work on one file and nothing moves           *)
(* (SteadyInd, for the passes).                                            *)
(***************************************************************************)
EXTENDS SelfHostLoop, TLAPS

(* What a file may hold, where a worker may be, what a directory entry is. *)
TextType == Texts \union {NoText, Partial}
Location == {"idle", "copy", "open_a", "fill_a", "open_b", "fill_b", "cmp", "store",
             "open_ref", "fill_ref", "run", "pass", "fail", "lost"}

Slot == [inode : Worker \union {"none"}, text : TextType]

LoopTypeOK ==
  /\ layout \in Layout
  /\ source \in [File -> Version] /\ tuC \in Version /\ binary \in Version
  /\ pc \in [Worker -> Location]
  /\ key \in [Worker -> Key \union {NoKey}]
  /\ start \in [Worker -> [compiler : Version, source : Version] \union {NoKey}]
  /\ fd \in [Worker -> Worker \union {"none"}]
  /\ scratch \in [Stem -> [Kind -> Slot]]
  /\ ecache \in [Key -> TextType]
  /\ FAILED \in [Loop -> SUBSET Worker]
  /\ stopped \subseteq Loop
  /\ result \in [Loop -> {"none", "ok", "failed"}]
  /\ moved \subseteq Worker
  /\ tainted \subseteq Key

(* A worker that ended without a pass left a trace, and a loop that has    *)
(* ended has no worker under way, nor, unless it was stopped, one to come. *)
EndsAreNoted ==
  /\ \A w \in Worker :
       /\ pc[w] = "fail" => w \in FAILED[LoopOf(w)]
       /\ pc[w] = "lost" => LoopOf(w) \in stopped
  /\ \A l \in Loop : result[l] # "none" =>
       \A w \in Peers(l) : ~Under(w) /\ (pc[w] = "idle" => l \in stopped)
  /\ \A l \in Loop : result[l] = "ok" => FAILED[l] = {}

(* The text a key promises, and the key a worker would compute now.        *)
Exact(k) == [by |-> k.compiler, of |-> k.source, file |-> k.file]

CurrentKey(w) == [compiler |-> binary, source |-> source[FileOf(w)], file |-> FileOf(w)]

(* What a worker knows is true until something moves.                      *)
KnowsTheWorld ==
  \A w \in Worker :
    /\ pc[w] \in {"copy", "store"} => key[w] # NoKey
    /\ key[w] # NoKey => key[w].file = FileOf(w)
    /\ Under(w) /\ w \notin moved =>
         /\ start[w] = [compiler |-> binary, source |-> source[FileOf(w)]]
         /\ key[w] \in {NoKey, CurrentKey(w)}

(* A worker that shares its scratch files with none has its own emit.      *)
OwnEmit(w) ==
  /\ pc[w] = "fill_a" => scratch[StemOf(w)]["a"].text = Partial
  /\ pc[w] \in {"open_b", "fill_b", "cmp", "store"} =>
       scratch[StemOf(w)]["a"].text = Exact(CurrentKey(w))

AloneInd ==
  (\A w \in Worker : Alone(w)) =>
    /\ \A w \in Worker \ moved : OwnEmit(w)
    /\ \A k \in Key \ tainted : ecache[k] \in {NoText, Exact(k)}

(* Nothing moved under the workers with these scratch files, and all of    *)
(* them are at work on one file.                                           *)
Steady(w) ==
  \A v \in Worker : StemOf(v) = StemOf(w) => v \notin moved /\ FileOf(v) = FileOf(w)

(* The scratch files hold C of this compiler for this source, or none.     *)
SharedEmit(w) ==
  /\ pc[w] \in {"fill_a", "open_b", "fill_b", "cmp", "store", "open_ref", "fill_ref", "run"} =>
       scratch[StemOf(w)]["a"].text \in {NoText, Partial, Exact(CurrentKey(w))}
  /\ pc[w] \in {"fill_ref", "run"} =>
       scratch[StemOf(w)]["ref"].text \in {NoText, Partial, Emitted(SML, FileOf(w))}
  /\ pc[w] = "pass" => <<start[w].compiler, start[w].source>> \notin Miscompiled

SteadyInd ==
  /\ \A w \in Worker : Steady(w) => SharedEmit(w)
  /\ \A k \in Key : (\A w \in Worker : FileOf(w) = k.file => Steady(w)) =>
       ecache[k] \in {NoText, Partial, Exact(k)}

(* The inductive invariant.                                                *)
LoopInd == LoopTypeOK /\ EndsAreNoted /\ KnowsTheWorld /\ AloneInd /\ SteadyInd

-----------------------------------------------------------------------------
(* Types.                                                                  *)

(* No version is 0, so a text is never the empty or the partial one.       *)
LEMMA TextKinds ==
  /\ NoText \in TextType /\ Partial \in TextType
  /\ NoText \notin Texts /\ Partial \notin Texts /\ NoText # Partial
  /\ NoKey \notin Key
  /\ \A k \in Key : Exact(k) \in Texts
  /\ \A of \in Version, file \in File : [by |-> SML, of |-> of, file |-> file] \in Texts
BY VersionAssumption DEF TextType, Texts, NoText, Partial, NoKey, Key, Exact, SML, File

(* A worker's file, stem and loop, and its keys and texts, are what their  *)
(* names say.                                                              *)
LEMMA Places ==
  ASSUME LoopTypeOK, NEW w \in Worker
  PROVE  /\ FileOf(w) \in File /\ StemOf(w) \in Stem /\ LoopOf(w) \in Loop
         /\ CurrentKey(w) \in Key
         /\ Emitted(binary, FileOf(w)) = Exact(CurrentKey(w))
         /\ Emitted(binary, FileOf(w)) \in Texts /\ Emitted(SML, FileOf(w)) \in Texts
         /\ KeyNow(w) \in {NoKey, CurrentKey(w)}
BY LayoutAssumption, VersionAssumption
DEF LoopTypeOK, FileOf, StemOf, LoopOf, CurrentKey, Key, Emitted, Exact, Texts, KeyNow

(* What goes into the place of a scratch file is one.                      *)
LEMMA Slots ==
  ASSUME LoopTypeOK, NEW w \in Worker
  PROVE  /\ Missing \in Slot
         /\ \A kind \in Kind : Truncated(kind, w) \in Slot /\ Truncated(kind, w).text = Partial
         /\ \A kind \in Kind : \A text \in TextType :
              [Truncated(kind, w) EXCEPT !.text = text] \in Slot
         /\ \A kind \in Kind : \A text \in TextType :
              [scratch[StemOf(w)][kind] EXCEPT !.text = text] \in Slot
<1>1. Missing \in Slot BY TextKinds DEF Missing, Slot
<1>2. ASSUME NEW kind \in Kind PROVE scratch[StemOf(w)][kind] \in Slot
  BY Places DEF LoopTypeOK
<1>3. ASSUME NEW kind \in Kind
      PROVE  Truncated(kind, w) \in Slot /\ Truncated(kind, w).text = Partial
  BY <1>2, TextKinds DEF Truncated, Slot
<1>4. QED BY <1>1, <1>2, <1>3 DEF Slot

(* One file put into its place leaves the scratch directory well-formed.   *)
LEMMA PutTypes ==
  ASSUME LoopTypeOK, NEW s \in Stem, NEW kind \in Kind, NEW file \in Slot
  PROVE  [scratch EXCEPT ![s][kind] = file] \in [Stem -> [Kind -> Slot]]
BY DEF LoopTypeOK

ScratchOK == scratch' \in [Stem -> [Kind -> Slot]]

(* Every step leaves the scratch directory well-formed.                    *)
LEMMA ScratchStep ==
  ASSUME LoopTypeOK, KnowsTheWorld, LoopNext
  PROVE  ScratchOK
<1>1. ASSUME NEW w \in Worker, Copy(w) PROVE ScratchOK
  <2>1. "a" \in Kind /\ StemOf(w) \in Stem BY Places DEF Kind
  <2>2. CASE ecache[key[w]] = NoText
    BY <1>1, <2>2 DEF Copy, LoopTypeOK, ScratchOK
  <2>3. CASE ecache[key[w]] # NoText
    <3>1. ecache[key[w]] \in TextType
      BY <1>1 DEF Copy, KnowsTheWorld, LoopTypeOK
    <3>2. [Truncated("a", w) EXCEPT !.text = ecache[key[w]]] \in Slot
      BY <2>1, <3>1, Slots
    <3>3. scratch' = [scratch EXCEPT ![StemOf(w)]["a"] =
                        [Truncated("a", w) EXCEPT !.text = ecache[key[w]]]]
      BY <1>1, <2>3 DEF Copy
    <3>4. QED BY <2>1, <3>2, <3>3, PutTypes DEF ScratchOK
  <2>4. QED BY <2>2, <2>3
<1>2. ASSUME NEW w \in Worker, Compare(w) PROVE ScratchOK
  <2>1. "a" \in Kind /\ "b" \in Kind /\ StemOf(w) \in Stem /\ Missing \in Slot
    BY Places, Slots DEF Kind
  <2>2. CASE scratch' = [scratch EXCEPT ![StemOf(w)]["b"] = Missing]
    BY <2>1, <2>2, PutTypes DEF ScratchOK
  <2>3. CASE scratch' = [scratch EXCEPT ![StemOf(w)]["a"] = Missing,
                                        ![StemOf(w)]["b"] = Missing]
    BY <2>1, <2>3 DEF ScratchOK, LoopTypeOK
  <2>4. QED BY <1>2, <2>2, <2>3 DEF Compare
<1>3. ASSUME NEW w \in Worker, Run(w) PROVE ScratchOK
  <2>1. "a" \in Kind /\ "ref" \in Kind /\ StemOf(w) \in Stem /\ Missing \in Slot
    BY Places, Slots DEF Kind
  <2>2. scratch' = [scratch EXCEPT ![StemOf(w)]["a"] = Missing,
                                   ![StemOf(w)]["ref"] = Missing]
    BY <1>3 DEF Run
  <2>3. QED BY <2>1, <2>2 DEF ScratchOK, LoopTypeOK
<1>4. ASSUME NEW w \in Worker, NEW kind \in Kind, OpenEmit(w, kind) PROVE ScratchOK
  <2>1. scratch' = [scratch EXCEPT ![StemOf(w)][kind] = Truncated(kind, w)]
    BY <1>4 DEF OpenEmit
  <2>2. QED BY <2>1, Places, Slots, PutTypes DEF ScratchOK
<1>5. ASSUME NEW w \in Worker, NEW kind \in Kind, FillEmit(w, kind) PROVE ScratchOK
  <2>1. PICK text \in TextType :
          \/ scratch' = [scratch EXCEPT ![StemOf(w)][kind] = scratch[StemOf(w)][kind]]
          \/ scratch' = [scratch EXCEPT ![StemOf(w)][kind] =
                           [scratch[StemOf(w)][kind] EXCEPT !.text = text]]
    <3>1. Emitted(IF kind = "ref" THEN SML ELSE binary, FileOf(w)) \in TextType
      BY Places DEF TextType
    <3>2. QED BY <1>5, <3>1 DEF FillEmit
  <2>2. scratch[StemOf(w)][kind] \in Slot BY Places DEF LoopTypeOK
  <2>3. QED BY <2>1, <2>2, Places, Slots, PutTypes DEF ScratchOK
<1>6. ASSUME NEW w \in Worker, NEW kind \in Kind, EmitFails(w, kind) PROVE ScratchOK
  <2>1. PICK gone : scratch' = [scratch EXCEPT ![StemOf(w)] =
                       [k \in Kind |-> IF k \in gone THEN Missing ELSE @[k]]]
    BY <1>6, Zenon DEF EmitFails
  <2>2. Missing \in Slot BY Slots
  <2>3. QED BY <2>1, <2>2, Places DEF ScratchOK, LoopTypeOK
<1>7. CASE scratch' = scratch BY <1>7 DEF LoopTypeOK, ScratchOK
<1>8. QED
  BY <1>1, <1>2, <1>3, <1>4, <1>5, <1>6, <1>7
  DEF LoopNext, WorkerStep, Dispatch, Store, Kill, KillWrapper, EndLoop, Prune, Edit,
      Rebuild, ScratchOK

(* How a worker goes on, whatever it does with its files.                  *)
Moves(w, step) ==
  /\ pc' = [pc EXCEPT ![w] = step]
  /\ FAILED' = IF step = "fail" THEN [FAILED EXCEPT ![LoopOf(w)] = @ \union {w}]
               ELSE FAILED
  /\ pc[w] = "idle" => Dispatch(w)
  /\ pc[w] \notin {"pass", "fail", "lost"}
  /\ step = "copy" => Dispatch(w)
  /\ step = "store" => key[w] # NoKey
  /\ Dispatch(w) \/ UNCHANGED <<key, start>>
  /\ UNCHANGED <<worldVars, stopped, result, moved>>

(* Each step of a worker but the loss of its shell is such a move.         *)
LEMMA WorkerMoves ==
  ASSUME LoopTypeOK, NEW w \in Worker,
         WorkerStep(w) \/ Kill(w) \/ \E kind \in Kind : EmitFails(w, kind)
  PROVE  \E step \in Location \ {"idle", "lost"} : Moves(w, step)
<1> USE DEF LoopTypeOK, Location, Goto, Fail, quietVars, worldVars, Kind, Opening, Filling,
            AfterFill, Moves
<1>1. CASE Dispatch(w)
  <2>1. Moves(w, "copy") \/ Moves(w, "open_a") BY <1>1 DEF Dispatch
  <2>2. QED BY <2>1, Zenon
<1>2. CASE Copy(w)     BY <1>2 DEF Copy
<1>3. CASE Compare(w)  BY <1>3 DEF Compare
<1>4. CASE Store(w)    BY <1>4 DEF Store
<1>5. CASE Run(w)      BY <1>5 DEF Run
<1>6. CASE Kill(w)     BY <1>6 DEF Kill, Under
<1>7. ASSUME NEW kind \in Kind, OpenEmit(w, kind) PROVE \E step \in Location \ {"idle", "lost"} : Moves(w, step)
  <2>1. Filling[kind] \in {"fill_a", "fill_b", "fill_ref"} OBVIOUS
  <2>2. Moves(w, Filling[kind]) BY <1>7, <2>1 DEF OpenEmit
  <2>3. QED BY <2>1, <2>2
<1>8. ASSUME NEW kind \in Kind, FillEmit(w, kind) PROVE \E step \in Location \ {"idle", "lost"} : Moves(w, step)
  BY <1>8 DEF FillEmit
<1>9. ASSUME NEW kind \in Kind, EmitFails(w, kind) PROVE \E step \in Location \ {"idle", "lost"} : Moves(w, step)
  <2>1. Moves(w, "fail") BY <1>9 DEF EmitFails
  <2>2. QED BY <2>1, Zenon
<1>10. QED
  BY <1>1, <1>2, <1>3, <1>4, <1>5, <1>6, <1>7, <1>8, <1>9 DEF WorkerStep

(* What a worker does to the caches and to what it remembers.              *)
LEMMA WorkerTypes ==
  ASSUME LoopTypeOK, KnowsTheWorld, NEW w \in Worker,
         WorkerStep(w) \/ Kill(w) \/ \E kind \in Kind : EmitFails(w, kind)
  PROVE  /\ key' \in [Worker -> Key \union {NoKey}]
         /\ start' \in [Worker -> [compiler : Version, source : Version] \union {NoKey}]
         /\ fd' \in [Worker -> Worker \union {"none"}]
         /\ ecache' \in [Key -> TextType] /\ tainted' \subseteq Key
<1> USE DEF LoopTypeOK, quietVars, worldVars
<1>1. CASE Dispatch(w)
  <2>1. KeyNow(w) \in Key \union {NoKey} BY Places
  <2>2. [compiler |-> binary, source |-> source[FileOf(w)]] \in
          [compiler : Version, source : Version]
    BY Places
  <2>3. QED BY <1>1, <2>1, <2>2 DEF Dispatch
<1>2. CASE Store(w)
  <2>1. key[w] \in Key BY <1>2 DEF Store, KnowsTheWorld
  <2>2. scratch[StemOf(w)]["a"].text \in TextType BY Places DEF Kind, Slot
  <2>3. ecache' \in {ecache, [ecache EXCEPT ![key[w]] = scratch[StemOf(w)]["a"].text]}
    BY <1>2 DEF Store
  <2>4. ecache' \in [Key -> TextType] BY <2>1, <2>2, <2>3
  <2>5. tainted' \subseteq Key BY <1>2, <2>1 DEF Store
  <2>6. QED BY <1>2, <2>4, <2>5 DEF Store
<1>3. ASSUME NEW kind \in Kind, OpenEmit(w, kind)
      PROVE  fd' \in [Worker -> Worker \union {"none"}] /\ UNCHANGED <<key, start, ecache, tainted>>
  <2>1. Truncated(kind, w).inode \in Worker \union {"none"} BY Slots DEF Slot
  <2>2. QED BY <1>3, <2>1 DEF OpenEmit
<1>4. CASE UNCHANGED <<key, start, fd, ecache, tainted>> BY <1>4
<1>5. QED
  BY <1>1, <1>2, <1>3, <1>4
  DEF WorkerStep, Copy, Compare, Run, Kill, FillEmit, EmitFails

(* Every step preserves the types.                                         *)
LEMMA LoopTypeStep ==
  ASSUME LoopTypeOK, KnowsTheWorld, LoopNext
  PROVE  LoopTypeOK'
<1>1. scratch' \in [Stem -> [Kind -> Slot]] BY ScratchStep DEF ScratchOK
<1>2. ASSUME NEW w \in Worker,
             WorkerStep(w) \/ Kill(w) \/ \E kind \in Kind : EmitFails(w, kind)
      PROVE  LoopTypeOK'
  <2>1. PICK step \in Location : Moves(w, step) BY <1>2, WorkerMoves
  <2>2. pc' \in [Worker -> Location] /\ FAILED' \in [Loop -> SUBSET Worker]
    BY <2>1, Places DEF Moves, LoopTypeOK
  <2>3. QED BY <1>1, <1>2, <2>1, <2>2, WorkerTypes DEF Moves, worldVars, LoopTypeOK
<1> USE DEF LoopTypeOK, Goto, quietVars, worldVars
<1>3. ASSUME NEW w \in Worker, KillWrapper(w) PROVE LoopTypeOK'
  BY <1>1, <1>3, Places DEF KillWrapper, Location
<1>4. ASSUME NEW l \in Loop, EndLoop(l) PROVE LoopTypeOK'
  BY <1>1, <1>4 DEF EndLoop
<1>5. CASE Prune   BY <1>1, <1>5, TextKinds DEF Prune
<1>6. CASE Edit    BY <1>1, <1>6, Places DEF Edit, Moving
<1>7. CASE Rebuild BY <1>1, <1>7 DEF Rebuild, Moving
<1>8. QED BY <1>2, <1>3, <1>4, <1>5, <1>6, <1>7 DEF LoopNext

-----------------------------------------------------------------------------

(* Every step preserves the record of the ends: a worker goes on only in a *)
(* loop that has not ended.                                                *)
LEMMA EndsStep ==
  ASSUME LoopTypeOK, EndsAreNoted, LoopNext
  PROVE  EndsAreNoted'
<1> USE DEF LoopTypeOK, EndsAreNoted, Under, Peers, LoopOf, worldVars, quietVars
<1>1. ASSUME NEW w \in Worker,
             WorkerStep(w) \/ Kill(w) \/ \E kind \in Kind : EmitFails(w, kind)
      PROVE  EndsAreNoted'
  <2>1. PICK step \in Location \ {"idle", "lost"} : Moves(w, step) BY <1>1, WorkerMoves
  <2>2. result[LoopOf(w)] = "none"
    BY <2>1, Places DEF Moves, Dispatch
  <2>3. QED BY <2>1, <2>2, Places DEF Moves
<1>2. ASSUME NEW w \in Worker, KillWrapper(w) PROVE EndsAreNoted'
  BY <1>2, Places DEF KillWrapper, Goto
<1>3. ASSUME NEW l \in Loop, EndLoop(l) PROVE EndsAreNoted'
  BY <1>3 DEF EndLoop
<1>4. CASE Prune \/ Edit \/ Rebuild
  BY <1>4 DEF Prune, Edit, Rebuild
<1>5. QED BY <1>1, <1>2, <1>3, <1>4 DEF LoopNext

(* Every step preserves what workers know: an edit or a rebuild puts every *)
(* worker under way into moved.                                            *)
LEMMA KnowsStep ==
  ASSUME LoopTypeOK, KnowsTheWorld, LoopNext
  PROVE  KnowsTheWorld'
<1> USE DEF LoopTypeOK, KnowsTheWorld, Under, worldVars, quietVars, FileOf, CurrentKey
<1>1. ASSUME NEW w \in Worker,
             WorkerStep(w) \/ Kill(w) \/ \E kind \in Kind : EmitFails(w, kind)
      PROVE  KnowsTheWorld'
  <2>1. PICK step \in Location \ {"idle", "lost"} : Moves(w, step) BY <1>1, WorkerMoves
  <2>2. CASE Dispatch(w)
    <3>1. KeyNow(w) \in {NoKey, CurrentKey(w)} /\ (KeyNow(w) # NoKey => KeyNow(w).file = FileOf(w))
      BY DEF KeyNow
    <3>2. key' = [key EXCEPT ![w] = KeyNow(w)]
          /\ start' = [start EXCEPT ![w] = [compiler |-> binary, source |-> source[FileOf(w)]]]
          /\ pc' = [pc EXCEPT ![w] = step]
          /\ (step = "copy" => KeyNow(w) # NoKey) /\ step # "store"
          /\ UNCHANGED <<layout, source, tuC, binary, moved>>
      BY <2>1, <2>2 DEF Dispatch, Moves, Goto
    <3>3. QED BY <3>1, <3>2
  <2>3. CASE ~Dispatch(w)
    <3>1. UNCHANGED <<key, start, layout, source, tuC, binary, moved>>
          /\ pc' = [pc EXCEPT ![w] = step] /\ step # "copy" /\ (step = "store" => key[w] # NoKey)
          /\ pc[w] \notin {"idle", "pass", "fail", "lost"}
      BY <2>1, <2>3 DEF Moves
    <3>2. QED BY <3>1
  <2>4. QED BY <2>2, <2>3
<1>2. ASSUME NEW w \in Worker, KillWrapper(w) PROVE KnowsTheWorld'
  BY <1>2 DEF KillWrapper, Goto
<1>3. ASSUME NEW l \in Loop, EndLoop(l) PROVE KnowsTheWorld'
  BY <1>3 DEF EndLoop
<1>4. CASE Prune
  BY <1>4 DEF Prune
<1>5. CASE Edit \/ Rebuild
  <2>1. moved' = moved \union {w \in Worker : Under(w)} /\ UNCHANGED <<layout, pc, key, start>>
    BY <1>5 DEF Edit, Rebuild, Moving
  <2>2. QED BY <2>1
<1>6. QED BY <1>1, <1>2, <1>3, <1>4, <1>5 DEF LoopNext

-----------------------------------------------------------------------------

(* Workers alone with their scratch files.                                 *)

(* Every step of a worker but the loss of its shell.                       *)
AnyStep(w) == WorkerStep(w) \/ Kill(w) \/ \E kind \in Kind : EmitFails(w, kind)

(* A worker leaves the scratch files of other stems alone.                 *)
LEMMA OtherStems ==
  ASSUME LoopTypeOK, NEW w \in Worker, AnyStep(w), NEW s \in Stem, s # StemOf(w)
  PROVE  scratch'[s] = scratch[s]
<1> USE DEF LoopTypeOK
<1>1. ASSUME NEW kind \in Kind, OpenEmit(w, kind) PROVE scratch'[s] = scratch[s]
  BY <1>1 DEF OpenEmit
<1>2. ASSUME NEW kind \in Kind, FillEmit(w, kind) PROVE scratch'[s] = scratch[s]
  BY <1>2 DEF FillEmit
<1>3. ASSUME NEW kind \in Kind, EmitFails(w, kind) PROVE scratch'[s] = scratch[s]
  BY <1>3 DEF EmitFails
<1>4. QED
  BY <1>1, <1>2, <1>3
  DEF AnyStep, WorkerStep, Dispatch, Copy, Compare, Store, Run, Kill

(* A worker's step keeps its emit its own.                                 *)
LEMMA OwnStep ==
  ASSUME LoopTypeOK, KnowsTheWorld, NEW w \in Worker, AnyStep(w), w \notin moved, OwnEmit(w)
  PROVE  OwnEmit(w)'
<1> USE DEF LoopTypeOK, OwnEmit, quietVars, worldVars, FileOf, StemOf, CurrentKey, Goto, Fail
<1>0. StemOf(w) \in Stem /\ Emitted(binary, FileOf(w)) = Exact(CurrentKey(w))
      /\ "a" \in Kind /\ "b" \in Kind
  BY Places DEF Kind
<1>1. CASE Dispatch(w) BY <1>1 DEF Dispatch
<1>2. CASE Copy(w)     BY <1>2 DEF Copy
<1>3. CASE Compare(w)
  <2>1. CASE pc' = [pc EXCEPT ![w] = "fail"] BY <2>1
  <2>2. CASE scratch' = [scratch EXCEPT ![StemOf(w)]["b"] = Missing]
    BY <1>0, <1>3, <2>2 DEF Compare
  <2>3. QED BY <1>3, <2>1, <2>2 DEF Compare
<1>4. CASE Store(w)    BY <1>4 DEF Store
<1>5. CASE Run(w)      BY <1>5 DEF Run
<1>6. CASE Kill(w)     BY <1>6 DEF Kill
<1>7. ASSUME NEW kind \in Kind, OpenEmit(w, kind) PROVE OwnEmit(w)'
  <2>1. Truncated(kind, w).text = Partial BY Slots
  <2>2. scratch' = [scratch EXCEPT ![StemOf(w)][kind] = Truncated(kind, w)]
        /\ pc' = [pc EXCEPT ![w] = Filling[kind]] /\ pc[w] = Opening[kind]
        /\ UNCHANGED <<layout, source, binary>>
    BY <1>7 DEF OpenEmit
  <2>3. QED BY <1>0, <2>1, <2>2 DEF Kind, Opening, Filling
<1>8. ASSUME NEW kind \in Kind, FillEmit(w, kind) PROVE OwnEmit(w)'
  <2> DEFINE named == scratch[StemOf(w)][kind]
             text  == Emitted(IF kind = "ref" THEN SML ELSE binary, FileOf(w))
             now   == IF named.inode = fd[w] THEN [named EXCEPT !.text = text] ELSE named
  <2>1. /\ pc[w] = Filling[kind]
        /\ scratch' = [scratch EXCEPT ![StemOf(w)][kind] = now]
        /\ \/ now.text \in Texts /\ pc' = [pc EXCEPT ![w] = AfterFill(kind)]
           \/ pc' = [pc EXCEPT ![w] = "fail"]
        /\ UNCHANGED <<layout, source, binary>>
    BY <1>8 DEF FillEmit
  <2>2. now.text \in {named.text, text}
    BY <1>0 DEF Slot
  <2>3. CASE kind = "a"
    BY <1>0, <2>1, <2>2, <2>3, TextKinds DEF Filling, AfterFill
  <2>4. CASE kind = "b"
    BY <1>0, <2>1, <2>4 DEF Filling, AfterFill
  <2>5. CASE kind = "ref"
    BY <2>1, <2>5 DEF Filling, AfterFill
  <2>6. QED BY <2>3, <2>4, <2>5 DEF Kind
<1>9. ASSUME NEW kind \in Kind, EmitFails(w, kind) PROVE OwnEmit(w)'
  BY <1>9 DEF EmitFails
<1>10. QED
  BY <1>1, <1>2, <1>3, <1>4, <1>5, <1>6, <1>7, <1>8, <1>9 DEF AnyStep, WorkerStep

(* Every step keeps the emits and the cache of workers alone: no other     *)
(* worker touches their files, and only an unmoved worker stores untainted.*)
LEMMA AloneStep ==
  ASSUME LoopTypeOK, KnowsTheWorld, AloneInd, LoopNext
  PROVE  AloneInd'
<1>1. layout' = layout
  BY DEF LoopNext, WorkerStep, Dispatch, Copy, Compare, Store, Run, OpenEmit, FillEmit,
         EmitFails, Kill, KillWrapper, EndLoop, Prune, Edit, Rebuild, quietVars, worldVars
<1>2. SUFFICES ASSUME \A w \in Worker : Alone(w)
               PROVE  /\ \A w \in Worker \ moved' : OwnEmit(w)'
                      /\ \A k \in Key \ tainted' : ecache'[k] \in {NoText, Exact(k)}
  BY <1>1 DEF AloneInd, Alone, StemOf
<1>3. /\ \A w \in Worker \ moved : OwnEmit(w)
      /\ \A k \in Key \ tainted : ecache[k] \in {NoText, Exact(k)}
  BY <1>2 DEF AloneInd
<1>4. ASSUME NEW w \in Worker, AnyStep(w)
      PROVE  /\ \A v \in Worker \ moved' : OwnEmit(v)'
             /\ \A k \in Key \ tainted' : ecache'[k] \in {NoText, Exact(k)}
  <2>1. PICK step \in Location : Moves(w, step) BY <1>4, WorkerMoves DEF AnyStep
  <2>2. ASSUME NEW v \in Worker \ moved' PROVE OwnEmit(v)'
    <3>1. v \notin moved /\ OwnEmit(v) BY <1>3, <2>1 DEF Moves
    <3>2. CASE v = w BY <1>4, <3>1, <3>2, OwnStep
    <3>3. CASE v # w
      <4>1. StemOf(v) # StemOf(w) BY <1>2, <3>3 DEF Alone
      <4>2. scratch'[StemOf(v)] = scratch[StemOf(v)] BY <1>4, <4>1, OtherStems, Places
      <4>3. pc'[v] = pc[v] /\ UNCHANGED <<layout, source, binary>>
        BY <2>1, <3>3 DEF Moves, worldVars, LoopTypeOK
      <4>4. QED BY <3>1, <4>2, <4>3 DEF OwnEmit, StemOf, FileOf, CurrentKey
    <3>4. QED BY <3>2, <3>3
  <2>3. CASE Store(w)
    <3>1. key[w] # NoKey /\ key[w] \in Key BY <2>3 DEF Store, KnowsTheWorld, LoopTypeOK
    <3>2. CASE UNCHANGED <<ecache, tainted>> BY <1>3, <2>2, <3>2
    <3>3. CASE /\ ecache' = [ecache EXCEPT ![key[w]] = scratch[StemOf(w)]["a"].text]
               /\ tainted' = IF w \in moved THEN tainted \union {key[w]}
                             ELSE tainted \ {key[w]}
      <4>1. CASE w \in moved BY <1>3, <2>2, <3>1, <3>3, <4>1 DEF LoopTypeOK
      <4>2. CASE w \notin moved
        <5>1. key[w] = CurrentKey(w)
          BY <2>3, <3>1, <4>2 DEF Store, KnowsTheWorld, Under
        <5>2. scratch[StemOf(w)]["a"].text = Exact(key[w])
          BY <1>3, <2>3, <4>2, <5>1 DEF OwnEmit, Store
        <5>3. QED BY <1>3, <2>2, <3>1, <3>3, <4>2, <5>2 DEF LoopTypeOK
      <4>3. QED BY <4>1, <4>2
    <3>4. QED BY <2>2, <2>3, <3>2, <3>3 DEF Store
  <2>4. CASE UNCHANGED <<ecache, tainted>> BY <1>3, <2>2, <2>4
  <2>5. QED
    BY <1>4, <2>3, <2>4
    DEF AnyStep, WorkerStep, Dispatch, Copy, Compare, Run, OpenEmit, FillEmit, EmitFails, Kill
<1> USE DEF OwnEmit, StemOf, FileOf, CurrentKey, LoopTypeOK, quietVars, worldVars
<1>5. ASSUME NEW w \in Worker, KillWrapper(w)
      PROVE  /\ \A v \in Worker \ moved' : OwnEmit(v)'
             /\ \A k \in Key \ tainted' : ecache'[k] \in {NoText, Exact(k)}
  BY <1>3, <1>5 DEF KillWrapper, Goto
<1>6. ASSUME NEW l \in Loop, EndLoop(l)
      PROVE  /\ \A v \in Worker \ moved' : OwnEmit(v)'
             /\ \A k \in Key \ tainted' : ecache'[k] \in {NoText, Exact(k)}
  BY <1>3, <1>6 DEF EndLoop
<1>7. CASE Prune
  BY <1>3, <1>7 DEF Prune
<1>8. CASE Edit \/ Rebuild
  <2>1. moved' = moved \union {w \in Worker : Under(w)} /\ UNCHANGED <<pc, ecache, tainted>>
    BY <1>8 DEF Edit, Rebuild, Moving
  <2>2. QED BY <1>3, <2>1 DEF Under
<1>9. QED BY <1>4, <1>5, <1>6, <1>7, <1>8 DEF LoopNext, AnyStep

-----------------------------------------------------------------------------
(* Workers that share their scratch files.                                 *)

(* Workers of one steady stem are at work on one file, unmoved.            *)
LEMMA SteadyPeers ==
  ASSUME LoopTypeOK, NEW v \in Worker, NEW w \in Worker, Steady(v), StemOf(w) = StemOf(v)
  PROVE  /\ w \notin moved /\ FileOf(w) = FileOf(v) /\ Steady(w)
         /\ CurrentKey(w) = CurrentKey(v)
BY DEF Steady, CurrentKey

(* An entry for the file of a steady worker is this file's, or none.       *)
LEMMA SteadyEntry ==
  ASSUME LoopTypeOK, KnowsTheWorld, SteadyInd, NEW w \in Worker, Steady(w), Under(w),
         key[w] # NoKey
  PROVE  /\ key[w] = CurrentKey(w) /\ key[w] \in Key
         /\ ecache[key[w]] \in {NoText, Partial, Exact(CurrentKey(w))}
<1>1. w \notin moved BY DEF Steady
<1>2. key[w] = CurrentKey(w) BY <1>1 DEF KnowsTheWorld
<1>3. key[w] \in Key BY <1>2, Places
<1>4. ASSUME NEW v \in Worker, FileOf(v) = key[w].file PROVE Steady(v)
  <2>1. FileOf(v) = FileOf(w) BY <1>2, <1>4 DEF CurrentKey
  <2>2. StemOf(v) = StemOf(w)
    BY <2>1, StemAssumption DEF FileOf, StemOf, LoopTypeOK
  <2>3. QED BY <2>2, SteadyPeers
<1>5. QED BY <1>2, <1>3, <1>4 DEF SteadyInd

(* The texts a steady worker may find or leave under its names.            *)
AText(w) == {NoText, Partial, Exact(CurrentKey(w))}
RefText(w) == {NoText, Partial, Emitted(SML, FileOf(w))}

(* A step puts such texts where it writes, and the worker stays as it must.*)
WritesWell(w) ==
  /\ scratch'[StemOf(w)]["a"].text \in {scratch[StemOf(w)]["a"].text} \union AText(w)
  /\ scratch'[StemOf(w)]["ref"].text \in {scratch[StemOf(w)]["ref"].text} \union RefText(w)
  /\ SharedEmit(w)'

(* The steps of a steady worker do.  Parity with the SML heap's program,   *)
(* which is right, makes the compiled one right at a pass.                 *)
LEMMA SteadyWrites ==
  ASSUME LoopTypeOK, KnowsTheWorld, SteadyInd, NEW w \in Worker, Steady(w), AnyStep(w)
  PROVE  WritesWell(w)
<1>0. /\ StemOf(w) \in Stem /\ Emitted(binary, FileOf(w)) = Exact(CurrentKey(w))
      /\ "a" \in Kind /\ "b" \in Kind /\ "ref" \in Kind
      /\ SharedEmit(w)
  BY Places DEF Kind, SteadyInd
<1> USE DEF LoopTypeOK, SharedEmit, quietVars, worldVars, FileOf, StemOf, CurrentKey, Goto,
            Fail, AText, RefText, Emitted, WritesWell, Missing
<1>1. CASE Dispatch(w) BY <1>0, <1>1 DEF Dispatch
<1>2. CASE Copy(w)
  <2>1. key[w] # NoKey /\ Under(w) BY <1>2 DEF Copy, KnowsTheWorld, Under
  <2>2. ecache[key[w]] \in AText(w) BY <2>1, SteadyEntry
  <2>3. CASE /\ scratch' = [scratch EXCEPT ![StemOf(w)]["a"] =
                           [Truncated("a", w) EXCEPT !.text = ecache[key[w]]]]
             /\ pc' = [pc EXCEPT ![w] = "open_ref"]
    <3>1. [Truncated("a", w) EXCEPT !.text = ecache[key[w]]].text = ecache[key[w]]
      BY DEF Truncated
    <3>2. QED BY <1>0, <1>2, <2>2, <2>3, <3>1 DEF Copy
  <2>4. CASE UNCHANGED scratch /\ pc' = [pc EXCEPT ![w] = "fail"]
    BY <1>0, <2>4
  <2>5. QED BY <1>2, <2>3, <2>4 DEF Copy
<1>3. CASE Compare(w)
  <2>1. CASE scratch' = [scratch EXCEPT ![StemOf(w)]["b"] = Missing]
    BY <1>0, <1>3, <2>1 DEF Compare
  <2>2. CASE scratch' = [scratch EXCEPT ![StemOf(w)]["a"] = Missing,
                                        ![StemOf(w)]["b"] = Missing]
    BY <1>0, <1>3, <2>2 DEF Compare
  <2>3. QED BY <1>3, <2>1, <2>2 DEF Compare
<1>4. CASE Store(w)    BY <1>0, <1>4 DEF Store
<1>5. CASE Run(w)
  <2>1. scratch' = [scratch EXCEPT ![StemOf(w)]["a"] = Missing, ![StemOf(w)]["ref"] = Missing]
        /\ pc[w] = "run" /\ UNCHANGED <<layout, source, binary, start>>
    BY <1>5 DEF Run
  <2>2. CASE pc' = [pc EXCEPT ![w] = "fail"] BY <1>0, <2>1, <2>2
  <2>3. CASE pc' = [pc EXCEPT ![w] = "pass"]
             /\ Does(scratch[StemOf(w)]["ref"].text) # "nothing"
             /\ Does(scratch[StemOf(w)]["a"].text) = Does(scratch[StemOf(w)]["ref"].text)
    <3> DEFINE ref == scratch[StemOf(w)]["ref"].text
               built == scratch[StemOf(w)]["a"].text
    <3>1. ref = Emitted(SML, FileOf(w))
      BY <1>0, <2>1, <2>3, TextKinds DEF Does
    <3>2. <<SML, source[FileOf(w)]>> \notin Miscompiled
      BY LayoutAssumption, VersionAssumption DEF SML
    <3>3. Does(ref) = "right" BY <2>3, <3>1, <3>2 DEF Does
    <3>4. built = Exact(CurrentKey(w))
      BY <1>0, <2>1, <2>3, TextKinds DEF Does
    <3>5. <<binary, source[FileOf(w)]>> \notin Miscompiled
      BY <2>3, <3>3, <3>4 DEF Does, Exact
    <3>6. start[w] = [compiler |-> binary, source |-> source[FileOf(w)]]
      BY <2>1 DEF Steady, KnowsTheWorld, Under
    <3>7. QED BY <1>0, <2>1, <2>3, <3>5, <3>6
  <2>4. QED BY <1>5, <2>2, <2>3 DEF Run
<1>6. CASE Kill(w)     BY <1>0, <1>6 DEF Kill
<1>7. ASSUME NEW kind \in Kind, OpenEmit(w, kind) PROVE WritesWell(w)
  <2>1. Truncated(kind, w).text = Partial BY Slots
  <2>2. scratch' = [scratch EXCEPT ![StemOf(w)][kind] = Truncated(kind, w)]
        /\ pc' = [pc EXCEPT ![w] = Filling[kind]] /\ pc[w] = Opening[kind]
        /\ UNCHANGED <<layout, source, binary, start>>
    BY <1>7 DEF OpenEmit
  <2>3. QED BY <1>0, <2>1, <2>2 DEF Kind, Opening, Filling
<1>8. ASSUME NEW kind \in Kind, FillEmit(w, kind) PROVE WritesWell(w)
  <2> DEFINE named == scratch[StemOf(w)][kind]
             text  == Emitted(IF kind = "ref" THEN SML ELSE binary, FileOf(w))
             now   == IF named.inode = fd[w] THEN [named EXCEPT !.text = text] ELSE named
  <2>1. /\ pc[w] = Filling[kind]
        /\ scratch' = [scratch EXCEPT ![StemOf(w)][kind] = now]
        /\ \/ now.text \in Texts /\ pc' = [pc EXCEPT ![w] = AfterFill(kind)]
           \/ pc' = [pc EXCEPT ![w] = "fail"]
        /\ UNCHANGED <<layout, source, binary, start>>
    BY <1>8 DEF FillEmit
  <2>2. now.text \in {named.text, text}
    BY <1>0 DEF Slot
  <2>3. CASE kind = "a"
    BY <1>0, <2>1, <2>2, <2>3 DEF Filling, AfterFill
  <2>4. CASE kind = "b"
    BY <1>0, <2>1, <2>4 DEF Filling, AfterFill
  <2>5. CASE kind = "ref"
    BY <1>0, <2>1, <2>2, <2>5 DEF Filling, AfterFill
  <2>6. QED BY <2>3, <2>4, <2>5 DEF Kind
<1>9. ASSUME NEW kind \in Kind, EmitFails(w, kind) PROVE WritesWell(w)
  <2>1. PICK gone : scratch' = [scratch EXCEPT ![StemOf(w)] =
                       [k \in Kind |-> IF k \in gone THEN Missing ELSE @[k]]]
    BY <1>9, Zenon DEF EmitFails
  <2>2. pc' = [pc EXCEPT ![w] = "fail"] /\ UNCHANGED <<layout, source, binary, start>>
    BY <1>9 DEF EmitFails
  <2>3. QED BY <1>0, <2>1, <2>2
<1>10. QED
  BY <1>1, <1>2, <1>3, <1>4, <1>5, <1>6, <1>7, <1>8, <1>9 DEF AnyStep, WorkerStep

(* Every step preserves the invariant of the steady: the worker that steps *)
(* either shares the stem, and then writes well, or another one.           *)
LEMMA SteadyStep ==
  ASSUME LoopTypeOK, KnowsTheWorld, SteadyInd, LoopNext
  PROVE  SteadyInd'
<1>1. layout' = layout /\ moved \subseteq moved'
  BY DEF LoopNext, WorkerStep, Dispatch, Copy, Compare, Store, Run, OpenEmit, FillEmit,
         EmitFails, Kill, KillWrapper, EndLoop, Prune, Edit, Rebuild, Moving, quietVars,
         worldVars
<1>2. ASSUME NEW w \in Worker, Steady(w)' PROVE Steady(w)
  BY <1>1, <1>2 DEF Steady, StemOf, FileOf
<1>3. ASSUME NEW k \in Key, \A w \in Worker : FileOf(w)' = k.file => Steady(w)'
      PROVE  \A w \in Worker : FileOf(w) = k.file => Steady(w)
  BY <1>1, <1>2, <1>3 DEF FileOf
<1> DEFINE Entries(k) == (\A w \in Worker : FileOf(w) = k.file => Steady(w)) =>
                           ecache'[k] \in {NoText, Partial, Exact(k)}
<1>4. SUFFICES /\ \A w \in Worker : Steady(w)' => SharedEmit(w)'
               /\ \A k \in Key : Entries(k)
  BY <1>3 DEF SteadyInd
<1>5. /\ \A w \in Worker : Steady(w) => SharedEmit(w)
      /\ \A k \in Key : (\A w \in Worker : FileOf(w) = k.file => Steady(w)) =>
           ecache[k] \in {NoText, Partial, Exact(k)}
  BY DEF SteadyInd
<1>6. ASSUME NEW w \in Worker, AnyStep(w)
      PROVE  /\ \A v \in Worker : Steady(v)' => SharedEmit(v)'
             /\ \A k \in Key : Entries(k)
  <2>1. PICK step \in Location : Moves(w, step) BY <1>6, WorkerMoves DEF AnyStep
  <2>2. UNCHANGED <<layout, source, binary>> BY <2>1 DEF Moves, worldVars
  <2>3. ASSUME NEW v \in Worker, Steady(v)' PROVE SharedEmit(v)'
    <3>1. Steady(v) /\ SharedEmit(v) BY <1>2, <1>5, <2>3
    <3>2. CASE v = w BY <1>6, <3>1, <3>2, SteadyWrites DEF WritesWell
    <3>3. CASE v # w
      <4>1. pc'[v] = pc[v] /\ start'[v] = start[v]
        BY <2>1, <3>3 DEF Moves, Dispatch, LoopTypeOK
      <4>2. CASE StemOf(v) # StemOf(w)
        <5>1. scratch'[StemOf(v)] = scratch[StemOf(v)] BY <1>6, <4>2, OtherStems, Places
        <5>2. QED
          BY <2>2, <3>1, <4>1, <5>1 DEF SharedEmit, StemOf, FileOf, CurrentKey, Emitted
      <4>3. CASE StemOf(v) = StemOf(w)
        <5>1. Steady(w) /\ FileOf(w) = FileOf(v) /\ CurrentKey(w) = CurrentKey(v)
          BY <3>1, <4>3, SteadyPeers
        <5>2. WritesWell(w) BY <1>6, <5>1, SteadyWrites
        <5>3. QED
          BY <2>2, <3>1, <4>1, <4>3, <5>1, <5>2
          DEF SharedEmit, WritesWell, AText, RefText, StemOf, FileOf, CurrentKey, Emitted
      <4>4. QED BY <4>2, <4>3
    <3>4. QED BY <3>2, <3>3
  <2>4. CASE Store(w)
    <3>1. key[w] # NoKey /\ key[w] \in Key /\ key[w].file = FileOf(w)
          /\ Under(w) /\ pc[w] = "store"
      BY <2>4 DEF Store, KnowsTheWorld, LoopTypeOK, Under
    <3>2. CASE ecache' = ecache BY <1>5, <2>3, <3>2
    <3>3. CASE ecache' = [ecache EXCEPT ![key[w]] = scratch[StemOf(w)]["a"].text]
      <4>1. ASSUME NEW k \in Key, \A u \in Worker : FileOf(u) = k.file => Steady(u)
            PROVE  ecache'[k] \in {NoText, Partial, Exact(k)}
        <5>1. CASE k # key[w] BY <1>5, <3>3, <4>1, <5>1 DEF LoopTypeOK
        <5>2. CASE k = key[w]
          <6>1. Steady(w) BY <3>1, <4>1, <5>2
          <6>2. key[w] = CurrentKey(w) BY <3>1, <6>1, SteadyEntry
          <6>3. scratch[StemOf(w)]["a"].text \in {NoText, Partial, Exact(CurrentKey(w))}
            BY <1>5, <3>1, <6>1 DEF SharedEmit
          <6>4. QED BY <3>1, <3>3, <5>2, <6>2, <6>3 DEF LoopTypeOK
        <5>3. QED BY <5>1, <5>2
      <4>2. QED BY <2>3, <4>1
    <3>4. QED BY <2>4, <3>2, <3>3 DEF Store
  <2>5. CASE ecache' = ecache BY <1>5, <2>3, <2>5
  <2>6. QED
    BY <1>6, <2>4, <2>5
    DEF AnyStep, WorkerStep, Dispatch, Copy, Compare, Run, OpenEmit, FillEmit, EmitFails, Kill
<1> USE DEF SharedEmit, StemOf, FileOf, CurrentKey, Emitted, LoopTypeOK, quietVars, worldVars
<1>7. ASSUME NEW w \in Worker, KillWrapper(w)
      PROVE  /\ \A v \in Worker : Steady(v)' => SharedEmit(v)'
             /\ \A k \in Key : Entries(k)
  BY <1>2, <1>5, <1>7 DEF KillWrapper, Goto
<1>8. ASSUME NEW l \in Loop, EndLoop(l)
      PROVE  /\ \A v \in Worker : Steady(v)' => SharedEmit(v)'
             /\ \A k \in Key : Entries(k)
  BY <1>2, <1>5, <1>8 DEF EndLoop
<1>9. CASE Prune
  BY <1>2, <1>5, <1>9 DEF Prune
<1>10. CASE Edit \/ Rebuild
  <2>1. moved' = moved \union {w \in Worker : Under(w)} /\ UNCHANGED <<pc, start, ecache, scratch>>
    BY <1>10 DEF Edit, Rebuild, Moving
  <2>2. ASSUME NEW v \in Worker, Steady(v)' PROVE SharedEmit(v)'
    <3>1. ~Under(v) BY <2>1, <2>2 DEF Steady
    <3>2. QED BY <1>2, <1>5, <2>1, <2>2, <3>1 DEF Under
  <2>3. QED BY <1>5, <2>1, <2>2
<1>11. QED BY <1>6, <1>7, <1>8, <1>9, <1>10 DEF LoopNext, AnyStep

-----------------------------------------------------------------------------
(* The theorems.                                                           *)

(* The invariant holds at first.                                           *)
LEMMA LoopInitInd == LoopInit => LoopInd
<1> SUFFICES ASSUME LoopInit PROVE LoopInd
  OBVIOUS
<1> USE LayoutAssumption DEF LoopInit
<1>1. LoopTypeOK BY TextKinds DEF LoopTypeOK, Location, Missing, Slot, Kind, Stem
<1>2. EndsAreNoted BY DEF EndsAreNoted, Under, Peers
<1>3. KnowsTheWorld BY DEF KnowsTheWorld, Under
<1>4. AloneInd BY DEF AloneInd, OwnEmit
<1>5. SteadyInd BY DEF SteadyInd, SharedEmit
<1>6. QED BY <1>1, <1>2, <1>3, <1>4, <1>5 DEF LoopInd

(* Every step preserves it.                                                *)
LEMMA LoopStepInd == LoopInd /\ [LoopNext]_loopVars => LoopInd'
<1> SUFFICES ASSUME LoopInd, [LoopNext]_loopVars PROVE LoopInd'
  OBVIOUS
<1>1. CASE LoopNext
  BY <1>1, LoopTypeStep, EndsStep, KnowsStep, AloneStep, SteadyStep DEF LoopInd
<1>2. CASE UNCHANGED loopVars
  <2> USE <1>2 DEF loopVars, LoopInd, FileOf, StemOf, LoopOf
  <2>1. LoopTypeOK' BY DEF LoopTypeOK
  <2>2. EndsAreNoted' BY DEF EndsAreNoted, Under, Peers
  <2>3. KnowsTheWorld' BY DEF KnowsTheWorld, Under, CurrentKey
  <2>4. AloneInd' BY DEF AloneInd, Alone, OwnEmit, CurrentKey
  <2>5. SteadyInd'
    <3>1. ASSUME NEW w \in Worker
          PROVE  Steady(w)' <=> Steady(w)
      BY DEF Steady
    <3>2. ASSUME NEW w \in Worker
          PROVE  SharedEmit(w)' <=> SharedEmit(w)
      BY DEF SharedEmit, CurrentKey, Emitted
    <3>3. QED BY <3>1, <3>2 DEF SteadyInd
  <2>6. QED BY <2>1, <2>2, <2>3, <2>4, <2>5
<1>3. QED BY <1>1, <1>2

(* The loop keeps its invariant: its types, what the ends of its workers   *)
(* leave in FAILED, what a worker knows of the world, and what the scratch *)
(* files and the cache hold for workers alone and for steady ones.         *)
THEOREM LoopInvariant == LoopSpec => []LoopInd
BY LoopInitInd, LoopStepInd, PTL DEF LoopSpec

(* A loop that ends with OK, none of whose shells was killed, has passed   *)
(* every file it had: no worker ends otherwise without a line in FAILED.   *)
THEOREM OkLoopsPassedAll == LoopSpec => []OkMeansEveryFilePassed
<1>1. LoopInd => OkMeansEveryFilePassed
  BY DEF LoopInd, LoopTypeOK, EndsAreNoted, OkMeansEveryFilePassed, Under, Location, Peers,
         LoopOf
<1>2. QED BY <1>1, LoopInvariant, PTL

(* A worker passes only files that its compiler does not miscompile, as    *)
(* long as nothing changes under the workers with these scratch files and  *)
(* all of them are at work on the same file.                               *)
THEOREM PassesAreTrue == LoopSpec => []PassIsTrue
<1>1. LoopInd => PassIsTrue
  BY DEF LoopInd, SteadyInd, Steady, SharedEmit, PassIsTrue
<1>2. QED BY <1>1, LoopInvariant, PTL

(* The emit cache holds under a key what the compiler of that key emits,   *)
(* when no worker shares its scratch files.                                *)
THEOREM EntriesAreExact == LoopSpec => []EntryIsWhatItsKeySays
<1>1. LoopInd => EntryIsWhatItsKeySays
  BY DEF LoopInd, AloneInd, EntryIsWhatItsKeySays, Exact
<1>2. QED BY <1>1, LoopInvariant, PTL
=============================================================================
