----------------------------- MODULE ToolProofs -----------------------------
(***************************************************************************)
(* Small tools and the cache of results, for any values of their           *)
(* constants: answers of the dashboard are recent and never go back; the   *)
(* sv0cov that is dispatched is the pinned one; the artifact of a build    *)
(* that nobody disturbed has its own companions beside it; and an entry of *)
(* the cache is a result of its program.                                   *)
(*                                                                         *)
(* Of the cache, SoundInd holds whatever happens: only a worker that has   *)
(* run a cacheable program stores under its key.  WholeInd adds what holds *)
(* until a prune removes a file: a worker that found the .rc file will     *)
(* find .out as well, so what a call returns is what the program does.     *)
(***************************************************************************)
EXTENDS Dashboard, Pinning, Companions, RunCache, SequenceTheorems, TLAPS

-----------------------------------------------------------------------------
(* The cache of results.                                                   *)

StoresItsRun ==
  \A w \in Worker : pc[w] \in {"store_out", "store_rc"} =>
    Cacheable(Text(w)) /\ run[w] = Behaviour[Text(w)]

SoundInd ==
  /\ CacheTypeOK
  /\ StoresItsRun
  /\ EntriesAreSound

HitIsWhole ==
  \A w \in Worker :
    /\ pc[w] = "check_out" => rc[Text(w)] # Missing
    /\ pc[w] \in {"copy_out", "read_rc", "touch_rc"} =>
         rc[Text(w)] # Missing /\ out[Text(w)] # Missing
    /\ pc[w] = "store_rc" => out[Text(w)] # Missing

ReturnsTheResult ==
  \A w \in Worker :
    /\ pc[w] \in {"read_rc", "touch_rc", "return"} =>
         run[w].stdout = Behaviour[Text(w)].stdout
    /\ pc[w] \in {"touch_rc", "return"} =>
         run[w].status = Behaviour[Text(w)].status
    /\ side[w] = "built" => refRun[w] = Behaviour[job[w].ref]

VerdictsAreTrue ==
  \A w \in Worker :
    /\ verdict[w] = "pass" => SameBehaviour(w)
    /\ verdict[w] = "fail" => ~SameBehaviour(w)

WholeInd ==
  /\ SoundInd
  /\ \A p \in Program : EntryIsWhole(p)
  /\ HitIsWhole
  /\ ReturnsTheResult
  /\ VerdictsAreTrue

CacheInd == SoundInd /\ (~pruned => WholeInd)

-----------------------------------------------------------------------------
(* Whatever is pruned, killed or fails                                     *)

LEMMA TextType ==
  ASSUME CacheTypeOK, NEW w \in Worker
  PROVE  /\ Text(w) \in Program
         /\ Behaviour[Text(w)] \in Result
         /\ Behaviour[job[w].ref] \in Result
<1>1. job[w].ref \in Program /\ job[w].built \in Program
  BY DEF CacheTypeOK
<1>2. Text(w) = job[w].ref \/ Text(w) = job[w].built
  BY DEF CacheTypeOK, Text
<1> QED
  BY <1>1, <1>2, BehaviourAssumption

LEMMA CacheInitSound == CacheInit => SoundInd
<1> SUFFICES ASSUME CacheInit PROVE SoundInd
  OBVIOUS
<1>1. CacheTypeOK
  BY DEF CacheInit, CacheTypeOK, FreshRun, FirstStep, Step, Status, Stdout
<1>2. StoresItsRun /\ EntriesAreSound
  BY DEF CacheInit, FirstStep, StoresItsRun, EntriesAreSound
<1> QED
  BY <1>1, <1>2 DEF SoundInd

LEMMA ReplayedStdout ==
  ASSUME NEW r \in [status : Status \union {Blank}, stdout : Stdout], NEW t \in Stdout
  PROVE  [r EXCEPT !.stdout = t] \in [status : Status \union {Blank}, stdout : Stdout]
OBVIOUS

LEMMA CacheTypeStep ==
  ASSUME CacheTypeOK, [CacheNext]_cacheVars
  PROVE  CacheTypeOK'
<1> USE DEF CacheTypeOK, Goto, Step
<1>1. ASSUME NEW w \in Worker, CheckRc(w) \/ CheckOut(w)
      PROVE  CacheTypeOK'
  BY <1>1 DEF CheckRc, CheckOut
<1>2. ASSUME NEW w \in Worker, CopyOut(w)
      PROVE  CacheTypeOK'
  <2>1. run' \in [Worker -> [status : Status \union {Blank}, stdout : Stdout]]
    <3>1. out[Text(w)] = Missing \/ out[Text(w)] \in Stdout
      BY TextType
    <3>2. [run[w] EXCEPT !.stdout = out[Text(w)]]
            \in [status : Status \union {Blank}, stdout : Stdout]
          \/ out[Text(w)] = Missing
      <4>1. run[w] \in [status : Status \union {Blank}, stdout : Stdout]
        OBVIOUS
      <4> HIDE DEF CacheTypeOK
      <4> QED
        BY <3>1, <4>1, ReplayedStdout
    <3> QED
      BY <1>2, <3>2 DEF CopyOut
  <2> QED
    BY <1>2, <2>1 DEF CopyOut
<1>3. ASSUME NEW w \in Worker, ReadRc(w)
      PROVE  CacheTypeOK'
  <2>1. (IF rc[Text(w)] = Missing THEN Blank ELSE rc[Text(w)]) \in Status \union {Blank}
    BY TextType
  <2>2. run' \in [Worker -> [status : Status \union {Blank}, stdout : Stdout]]
    BY <1>3, <2>1 DEF ReadRc
  <2> QED
    BY <1>3, <2>2 DEF ReadRc
<1>4. ASSUME NEW w \in Worker, TouchRc(w)
      PROVE  CacheTypeOK'
  BY <1>4, TextType DEF TouchRc
<1>5. ASSUME NEW w \in Worker, RunProgram(w)
      PROVE  CacheTypeOK'
  <2>1. run' \in [Worker -> [status : Status \union {Blank}, stdout : Stdout]]
    BY <1>5, TextType DEF RunProgram, Result
  <2> QED
    BY <1>5, <2>1 DEF RunProgram
<1>6. ASSUME NEW w \in Worker, CompileFails(w) \/ StoreFails(w) \/ Kill(w)
      PROVE  CacheTypeOK'
  BY <1>6 DEF CompileFails, StoreFails, Kill
<1>7. ASSUME NEW w \in Worker, StoreOut(w)
      PROVE  CacheTypeOK'
  BY <1>7, TextType DEF StoreOut
<1>8. ASSUME NEW w \in Worker, StoreRc(w)
      PROVE  CacheTypeOK'
  BY <1>8, TextType DEF StoreRc
<1>9. ASSUME NEW w \in Worker, RefReturns(w) \/ BuiltReturns(w)
      PROVE  CacheTypeOK'
  <2>1. FreshRun \in [status : Status \union {Blank}, stdout : Stdout]
    BY DEF FreshRun, Status, Stdout
  <2>2. CASE RefReturns(w)
    BY <2>1, <2>2 DEF RefReturns, FirstStep
  <2>3. CASE BuiltReturns(w)
    BY <2>3 DEF BuiltReturns
  <2> QED
    BY <1>9, <2>2, <2>3
<1>10. ASSUME ListOldest \/ \E p \in Program : RemoveOut(p) \/ RemoveRc(p)
       PROVE  CacheTypeOK'
  <2>1. CASE ListOldest
    BY <2>1 DEF ListOldest, OutFiles, RcFiles
  <2>2. ASSUME NEW p \in Program, RemoveOut(p)
        PROVE  CacheTypeOK'
    BY <2>2 DEF RemoveOut
  <2>3. ASSUME NEW p \in Program, RemoveRc(p)
        PROVE  CacheTypeOK'
    BY <2>3 DEF RemoveRc
  <2> QED
    BY <1>10, <2>1, <2>2, <2>3
<1>11. CASE UNCHANGED cacheVars
  BY <1>11 DEF cacheVars
<1> QED
  BY <1>1, <1>2, <1>3, <1>4, <1>5, <1>6, <1>7, <1>8, <1>9, <1>10, <1>11
  DEF CacheNext, CacheStep

(* A step of one worker leaves the call of every other worker alone. *)
LEMMA OtherWorkers ==
  ASSUME CacheTypeOK, NEW w \in Worker, CacheStep(w) \/ Kill(w),
         NEW v \in Worker, v # w
  PROVE  /\ pc'[v] = pc[v] /\ run'[v] = run[v] /\ refRun'[v] = refRun[v]
         /\ side'[v] = side[v] /\ job'[v] = job[v] /\ verdict'[v] = verdict[v]
         /\ Text(v)' = Text(v)
<1> USE DEF CacheTypeOK, Goto
<1>1. job' = job
  BY DEF CacheStep, Kill, CheckRc, CheckOut, CopyOut, ReadRc, TouchRc, RunProgram,
         CompileFails, StoreOut, StoreRc, StoreFails, RefReturns, BuiltReturns
<1>2. pc'[v] = pc[v]
  BY DEF CacheStep, Kill, CheckRc, CheckOut, CopyOut, ReadRc, TouchRc, RunProgram,
         CompileFails, StoreOut, StoreRc, StoreFails, RefReturns, BuiltReturns
<1>3. run'[v] = run[v]
  BY DEF CacheStep, Kill, CheckRc, CheckOut, CopyOut, ReadRc, TouchRc, RunProgram,
         CompileFails, StoreOut, StoreRc, StoreFails, RefReturns, BuiltReturns
<1>4. side'[v] = side[v] /\ refRun'[v] = refRun[v]
  BY DEF CacheStep, Kill, CheckRc, CheckOut, CopyOut, ReadRc, TouchRc, RunProgram,
         CompileFails, StoreOut, StoreRc, StoreFails, RefReturns, BuiltReturns
<1>5. verdict'[v] = verdict[v]
  BY DEF CacheStep, Kill, CheckRc, CheckOut, CopyOut, ReadRc, TouchRc, RunProgram,
         CompileFails, StoreOut, StoreRc, StoreFails, RefReturns, BuiltReturns
<1> QED
  BY <1>1, <1>2, <1>3, <1>4, <1>5 DEF Text

(* A call keeps its program until it returns. *)
LEMMA SameTextInCall ==
  ASSUME CacheTypeOK, NEW w \in Worker, CacheStep(w) \/ Kill(w), ~RefReturns(w)
  PROVE  Text(w)' = Text(w) /\ side' = side /\ refRun' = refRun /\ job' = job
BY DEF CacheStep, Kill, CheckRc, CheckOut, CopyOut, ReadRc, TouchRc, RunProgram,
       CompileFails, StoreOut, StoreRc, StoreFails, BuiltReturns, Text

LEMMA CacheSoundStep ==
  ASSUME SoundInd, [CacheNext]_cacheVars
  PROVE  SoundInd'
<1> USE DEF SoundInd
<1>1. CacheTypeOK'
  BY CacheTypeStep
<1>2. StoresItsRun'
  <2>1. ASSUME NEW w \in Worker, CacheStep(w) \/ Kill(w)
        PROVE  StoresItsRun'
    <3>1. ASSUME NEW v \in Worker, v # w, pc'[v] \in {"store_out", "store_rc"}
          PROVE  Cacheable(Text(v)') /\ run'[v] = Behaviour[Text(v)']
      BY <2>1, <3>1, OtherWorkers DEF StoresItsRun
    <3>2. ASSUME pc'[w] \in {"store_out", "store_rc"}
          PROVE  Cacheable(Text(w)') /\ run'[w] = Behaviour[Text(w)']
      <4>1. RunProgram(w) \/ StoreOut(w)
        BY <2>1, <3>2 DEF CacheTypeOK, Goto, CacheStep, Kill, CheckRc, CheckOut, CopyOut,
             ReadRc, TouchRc, CompileFails, StoreRc, StoreFails, RefReturns, BuiltReturns,
             FirstStep
      <4>2. Text(w)' = Text(w)
        BY <4>1 DEF RunProgram, StoreOut, Text
      <4>3. CASE RunProgram(w)
        BY <4>2, <4>3, <3>2 DEF RunProgram, Goto, CacheTypeOK
      <4>4. CASE StoreOut(w)
        BY <4>2, <4>4 DEF StoreOut, Goto, StoresItsRun
      <4> QED
        BY <4>1, <4>3, <4>4
    <3> QED
      BY <3>1, <3>2 DEF StoresItsRun, Cacheable
  <2>2. ASSUME UNCHANGED <<pc, job, side, run>>
        PROVE  StoresItsRun'
    BY <2>2 DEF StoresItsRun, Text
  <2> QED
    BY <2>1, <2>2 DEF CacheNext, ListOldest, RemoveOut, RemoveRc, cacheVars
<1>3. EntriesAreSound'
  <2>1. ASSUME NEW w \in Worker, StoreOut(w)
        PROVE  EntriesAreSound'
    BY <2>1, TextType DEF StoreOut, Goto, StoresItsRun, EntriesAreSound, CacheTypeOK, Cacheable
  <2>2. ASSUME NEW w \in Worker, StoreRc(w)
        PROVE  EntriesAreSound'
    BY <2>2, TextType DEF StoreRc, Goto, StoresItsRun, EntriesAreSound, CacheTypeOK, Cacheable
  <2>3. ASSUME NEW w \in Worker, TouchRc(w)
        PROVE  EntriesAreSound'
    BY <2>3, TextType DEF TouchRc, EntriesAreSound, CacheTypeOK, Cacheable
  <2>4. ASSUME UNCHANGED <<out, rc>>
        PROVE  EntriesAreSound'
    BY <2>4 DEF EntriesAreSound, Cacheable
  <2>5. ASSUME NEW p \in Program, RemoveOut(p)
        PROVE  EntriesAreSound'
    BY <2>5 DEF RemoveOut, EntriesAreSound, CacheTypeOK, Cacheable
  <2>6. ASSUME NEW p \in Program, RemoveRc(p)
        PROVE  EntriesAreSound'
    BY <2>6 DEF RemoveRc, EntriesAreSound, CacheTypeOK, Cacheable
  <2> QED
    BY <2>1, <2>2, <2>3, <2>4, <2>5, <2>6
    DEF CacheNext, CacheStep, Kill, CheckRc, CheckOut, CopyOut, ReadRc, RunProgram,
        CompileFails, StoreFails, RefReturns, BuiltReturns, ListOldest, cacheVars
<1> QED
  BY <1>1, <1>2, <1>3

LEMMA SoundInvariant == CacheSpec => []SoundInd
<1>1. CacheInit => SoundInd
  BY CacheInitSound
<1>2. SoundInd /\ [CacheNext]_cacheVars => SoundInd'
  BY CacheSoundStep
<1> QED
  BY <1>1, <1>2, PTL DEF CacheSpec

(* Every variable of the cache's model keeps its type. *)
THEOREM CacheTypeCorrect == CacheSpec => []CacheTypeOK
<1>1. SoundInd => CacheTypeOK
  BY DEF SoundInd
<1> QED
  BY <1>1, SoundInvariant, PTL

(* What the cache holds under a key is a result of that program, and       *)
(* nothing is ever held for an instrumented one, whatever is pruned,       *)
(* killed or fails.                                                        *)
THEOREM CacheIsSound == CacheSpec => []EntriesAreSound
<1>1. SoundInd => EntriesAreSound
  BY DEF SoundInd
<1> QED
  BY <1>1, SoundInvariant, PTL

-----------------------------------------------------------------------------
(* Until a file is pruned                                                  *)

LEMMA CacheInitWhole == CacheInit => WholeInd
<1> SUFFICES ASSUME CacheInit PROVE WholeInd
  OBVIOUS
<1>1. SoundInd
  BY CacheInitSound
<1>2. (\A p \in Program : EntryIsWhole(p)) /\ VerdictsAreTrue
  BY DEF CacheInit, EntryIsWhole, VerdictsAreTrue
<1>3. HitIsWhole /\ ReturnsTheResult
  BY DEF CacheInit, HitIsWhole, ReturnsTheResult, FirstStep
<1> QED
  BY <1>1, <1>2, <1>3 DEF WholeInd

(* Workers remove no file, and touch creates none for them. *)
LEMMA FilesStay ==
  ASSUME WholeInd, NEW w \in Worker, CacheStep(w) \/ Kill(w), NEW p \in Program
  PROVE  /\ out[p] # Missing => out'[p] # Missing
         /\ rc[p] # Missing => rc'[p] # Missing
         /\ rc'[p] \notin {Missing, rc[p]} => out'[p] # Missing /\ rc'[p] # Blank
<1> USE DEF WholeInd, SoundInd, CacheTypeOK
<1>1. CASE StoreOut(w)
  <2>1. run[w].stdout \in Stdout
    OBVIOUS
  <2> QED
    BY <1>1, <2>1, TextType DEF StoreOut, Stdout, Missing
<1>2. CASE StoreRc(w)
  <2>1. run[w].status \in Status
    BY <1>2, TextType DEF StoreRc, Goto, StoresItsRun, Result
  <2> QED
    BY <1>2, <2>1, TextType DEF StoreRc, Goto, HitIsWhole, Status, Missing, Blank
<1>3. CASE TouchRc(w)
  BY <1>3 DEF TouchRc, Goto, HitIsWhole
<1>4. CASE UNCHANGED <<out, rc>>
  BY <1>4
<1> QED
  BY <1>1, <1>2, <1>3, <1>4
  DEF CacheStep, Kill, CheckRc, CheckOut, CopyOut, ReadRc, RunProgram,
      CompileFails, StoreFails, RefReturns, BuiltReturns

LEMMA WholeHits ==
  ASSUME WholeInd, NEW w \in Worker, CacheStep(w) \/ Kill(w)
  PROVE  HitIsWhole'
<1> USE DEF WholeInd, SoundInd
<1>0. CacheTypeOK
  OBVIOUS
<1>1. ASSUME NEW v \in Worker, v # w
      PROVE  /\ pc'[v] = "check_out" => rc'[Text(v)'] # Missing
             /\ pc'[v] \in {"copy_out", "read_rc", "touch_rc"} =>
                  rc'[Text(v)'] # Missing /\ out'[Text(v)'] # Missing
             /\ pc'[v] = "store_rc" => out'[Text(v)'] # Missing
  <2>1. pc'[v] = pc[v] /\ Text(v)' = Text(v)
    BY <1>0, <1>1, OtherWorkers
  <2>2. Text(v) \in Program
    BY <1>0, TextType
  <2> QED
    BY <2>1, <2>2, FilesStay DEF HitIsWhole
<1>2. /\ pc'[w] = "check_out" => rc'[Text(w)'] # Missing
      /\ pc'[w] \in {"copy_out", "read_rc", "touch_rc"} =>
           rc'[Text(w)'] # Missing /\ out'[Text(w)'] # Missing
      /\ pc'[w] = "store_rc" => out'[Text(w)'] # Missing
  <2>0. Text(w) \in Program
    BY <1>0, TextType
  <2>1. CASE CheckRc(w)
    BY <1>0, <2>1 DEF CheckRc, Goto, CacheTypeOK, Text
  <2>2. CASE CheckOut(w)
    BY <1>0, <2>2 DEF CheckOut, Goto, CacheTypeOK, Text, HitIsWhole
  <2>3. CASE CopyOut(w) \/ ReadRc(w)
    BY <1>0, <2>3 DEF CopyOut, ReadRc, Goto, CacheTypeOK, Text, HitIsWhole
  <2>4. CASE StoreOut(w)
    <3>1. out'[Text(w)] = run[w].stdout /\ run[w].stdout # Missing
      BY <1>0, <2>0, <2>4 DEF StoreOut, CacheTypeOK, Stdout, Missing
    <3>2. pc'[w] = "store_rc" /\ Text(w)' = Text(w)
      BY <1>0, <2>4 DEF StoreOut, Goto, CacheTypeOK, Text
    <3> QED
      BY <3>1, <3>2
  <2>5. CASE \/ TouchRc(w) \/ RunProgram(w) \/ CompileFails(w) \/ StoreRc(w) \/ StoreFails(w)
             \/ RefReturns(w) \/ BuiltReturns(w) \/ Kill(w)
    <3>1. pc'[w] \notin {"check_out", "copy_out", "read_rc", "touch_rc", "store_rc"}
      BY <1>0, <2>5 DEF TouchRc, RunProgram, CompileFails, StoreRc, StoreFails, RefReturns,
           BuiltReturns, Kill, Goto, CacheTypeOK, FirstStep
    <3> QED
      BY <3>1
  <2> QED
    BY <2>1, <2>2, <2>3, <2>4, <2>5 DEF CacheStep
<1> QED
  BY <1>1, <1>2 DEF HitIsWhole

LEMMA WholeReturns ==
  ASSUME WholeInd, NEW w \in Worker, CacheStep(w) \/ Kill(w)
  PROVE  ReturnsTheResult'
<1> USE DEF WholeInd, SoundInd
<1>0. CacheTypeOK /\ Text(w) \in Program
  BY TextType
<1>1. ASSUME NEW v \in Worker, v # w
      PROVE  /\ pc'[v] \in {"read_rc", "touch_rc", "return"} =>
                  run'[v].stdout = Behaviour[Text(v)'].stdout
             /\ pc'[v] \in {"touch_rc", "return"} =>
                  run'[v].status = Behaviour[Text(v)'].status
             /\ side'[v] = "built" => refRun'[v] = Behaviour[job'[v].ref]
  BY <1>0, <1>1, OtherWorkers DEF ReturnsTheResult
<1>2. /\ pc'[w] \in {"read_rc", "touch_rc", "return"} =>
           run'[w].stdout = Behaviour[Text(w)'].stdout
      /\ pc'[w] \in {"touch_rc", "return"} =>
           run'[w].status = Behaviour[Text(w)'].status
  <2>1. CASE CopyOut(w)
    <3>1. out[Text(w)] = Behaviour[Text(w)].stdout /\ out[Text(w)] # Missing
      BY <1>0, <2>1 DEF CopyOut, Goto, HitIsWhole, EntriesAreSound
    <3>2. run'[w].stdout = out[Text(w)] /\ pc'[w] = "read_rc" /\ Text(w)' = Text(w)
      BY <1>0, <2>1, <3>1 DEF CopyOut, Goto, CacheTypeOK, Text
    <3> QED
      BY <3>1, <3>2
  <2>2. CASE ReadRc(w)
    <3>1. rc[Text(w)] = Behaviour[Text(w)].status /\ rc[Text(w)] # Missing
      BY <1>0, <2>2 DEF ReadRc, Goto, HitIsWhole, EntriesAreSound, EntryIsWhole
    <3>2. /\ run'[w].status = rc[Text(w)] /\ run'[w].stdout = run[w].stdout
          /\ Text(w)' = Text(w) /\ pc[w] = "read_rc"
      BY <1>0, <2>2, <3>1 DEF ReadRc, Goto, CacheTypeOK, Text
    <3> QED
      BY <3>1, <3>2 DEF ReturnsTheResult
  <2>3. CASE TouchRc(w)
    BY <1>0, <2>3 DEF TouchRc, Goto, CacheTypeOK, Text, ReturnsTheResult
  <2>4. CASE RunProgram(w)
    <3>1. run'[w] = Behaviour[Text(w)] /\ Text(w)' = Text(w)
      BY <1>0, <2>4 DEF RunProgram, CacheTypeOK, Text
    <3> QED
      BY <3>1
  <2>5. CASE StoreRc(w) \/ StoreFails(w)
    <3>1. /\ pc[w] \in {"store_out", "store_rc"}
          /\ Text(w)' = Text(w) /\ run'[w] = run[w]
      BY <1>0, <2>5 DEF StoreRc, StoreFails, Goto, Text
    <3> QED
      BY <3>1 DEF StoresItsRun
  <2>6. CASE \/ CheckRc(w) \/ CheckOut(w) \/ CompileFails(w) \/ StoreOut(w)
             \/ RefReturns(w) \/ BuiltReturns(w) \/ Kill(w)
    <3>1. pc'[w] \notin {"read_rc", "touch_rc", "return"}
      BY <1>0, <2>6 DEF CheckRc, CheckOut, CompileFails, StoreOut, RefReturns,
           BuiltReturns, Kill, Goto, CacheTypeOK, FirstStep
    <3> QED
      BY <3>1
  <2> QED
    BY <2>1, <2>2, <2>3, <2>4, <2>5, <2>6 DEF CacheStep
<1>3. side'[w] = "built" => refRun'[w] = Behaviour[job'[w].ref]
  <2>1. CASE RefReturns(w)
    <3>1. /\ pc[w] = "return" /\ side[w] = "ref" /\ Text(w) = job[w].ref
          /\ refRun'[w] = run[w] /\ job' = job
      BY <1>0, <2>1 DEF RefReturns, Goto, CacheTypeOK, Text
    <3>2. /\ run[w].stdout = Behaviour[Text(w)].stdout
          /\ run[w].status = Behaviour[Text(w)].status
      BY <3>1 DEF ReturnsTheResult
    <3>3. /\ run[w] \in [status : Status \union {Blank}, stdout : Stdout]
          /\ Behaviour[Text(w)] \in [status : Status, stdout : Stdout]
      BY <1>0, TextType DEF CacheTypeOK, Result
    <3>4. run[w] = Behaviour[Text(w)]
      BY <3>2, <3>3
    <3> QED
      BY <3>1, <3>4
  <2>2. CASE ~RefReturns(w)
    BY <1>0, <2>2, SameTextInCall DEF ReturnsTheResult
  <2> QED
    BY <2>1, <2>2
<1> QED
  BY <1>1, <1>2, <1>3 DEF ReturnsTheResult

(* What is compared is what the programs do. *)
LEMMA AgreeIsTrue ==
  ASSUME WholeInd, NEW w \in Worker, BuiltReturns(w)
  PROVE  Agree(w) <=> SameBehaviour(w)
<1> DEFINE ref == Behaviour[job[w].ref]
           built == Behaviour[job[w].built]
<1>0. CacheTypeOK
  BY DEF WholeInd, SoundInd
<1>1. side[w] = "built" /\ pc[w] = "return" /\ Text(w) = job[w].built
  BY DEF BuiltReturns, Goto, Text
<1>2. /\ run[w].stdout = built.stdout /\ run[w].status = built.status
      /\ refRun[w] = ref
  BY <1>1 DEF WholeInd, ReturnsTheResult
<1>3. /\ built \in [status : Status, stdout : Stdout]
      /\ ref \in [status : Status, stdout : Stdout]
  BY <1>0, <1>1, TextType DEF Result
<1>4. Number(built.status) = built.status /\ Number(ref.status) = ref.status
  BY <1>3 DEF Number, Blank, Status
<1>5. Agree(w) <=> built.status = "0" /\ ref.status = built.status /\ ref.stdout = built.stdout
  BY <1>2, <1>4 DEF Agree
<1>6. ref = built <=> ref.status = built.status /\ ref.stdout = built.stdout
  BY <1>3
<1> QED
  BY <1>5, <1>6 DEF SameBehaviour

LEMMA CacheWholeStep ==
  ASSUME WholeInd, ~pruned', [CacheNext]_cacheVars
  PROVE  WholeInd'
<1> USE DEF WholeInd
<1>1. SoundInd'
  BY CacheSoundStep
<1>2. ASSUME NEW w \in Worker, CacheStep(w) \/ Kill(w)
      PROVE  WholeInd'
  <2>2. HitIsWhole' /\ ReturnsTheResult'
    BY <1>2, WholeHits, WholeReturns
  <2>3. (\A p \in Program : EntryIsWhole(p))'
    BY <1>2, FilesStay DEF EntryIsWhole
  <2>4. VerdictsAreTrue'
    <3>0. CacheTypeOK
      BY DEF SoundInd
    <3>1. job' = job
      BY <1>2 DEF CacheStep, Kill, CheckRc, CheckOut, CopyOut, ReadRc, TouchRc, RunProgram,
           CompileFails, StoreOut, StoreRc, StoreFails, RefReturns, BuiltReturns
    <3>2. ASSUME NEW v \in Worker, verdict'[v] = verdict[v]
          PROVE  /\ verdict'[v] = "pass" => SameBehaviour(v)'
                 /\ verdict'[v] = "fail" => ~SameBehaviour(v)'
      BY <3>1, <3>2 DEF VerdictsAreTrue, SameBehaviour
    <3>3. ASSUME NEW v \in Worker, verdict'[v] # verdict[v], verdict'[v] \in {"pass", "fail"}
          PROVE  /\ verdict'[v] = "pass" => SameBehaviour(v)'
                 /\ verdict'[v] = "fail" => ~SameBehaviour(v)'
      <4>1. v = w
        BY <1>2, <3>3, <3>0, OtherWorkers
      <4>2. BuiltReturns(w)
        BY <1>2, <3>3, <3>0, <4>1
        DEF CacheStep, Kill, CheckRc, CheckOut, CopyOut, ReadRc, TouchRc, RunProgram,
            CompileFails, StoreOut, StoreRc, StoreFails, RefReturns, CacheTypeOK
      <4>3. Agree(w) <=> SameBehaviour(w)
        BY <4>2, AgreeIsTrue
      <4>4. SameBehaviour(w)' <=> SameBehaviour(w)
        BY <3>1 DEF SameBehaviour
      <4>5. verdict'[w] = IF Agree(w) THEN "pass" ELSE "fail"
        BY <4>2, <3>0 DEF BuiltReturns, CacheTypeOK
      <4> QED
        BY <4>1, <4>3, <4>4, <4>5
    <3> QED
      BY <3>2, <3>3 DEF VerdictsAreTrue
  <2> QED
    BY <1>1, <2>2, <2>3, <2>4
<1>3. CASE ListOldest \/ UNCHANGED cacheVars
  <2>1. UNCHANGED <<pc, job, side, run, refRun, out, rc, verdict>>
    BY <1>3 DEF ListOldest, cacheVars
  <2>2. HitIsWhole' /\ ReturnsTheResult'
    BY <2>1 DEF HitIsWhole, ReturnsTheResult, Text
  <2>3. (\A p \in Program : EntryIsWhole(p))' /\ VerdictsAreTrue'
    BY <2>1 DEF EntryIsWhole, VerdictsAreTrue, SameBehaviour
  <2> QED
    BY <1>1, <2>2, <2>3
<1> QED
  BY <1>2, <1>3 DEF CacheNext, RemoveOut, RemoveRc

LEMMA PrunedForEver ==
  ASSUME SoundInd, [CacheNext]_cacheVars, pruned
  PROVE  pruned'
BY DEF CacheNext, CacheStep, Kill, CheckRc, CheckOut, CopyOut, ReadRc, TouchRc, RunProgram,
       CompileFails, StoreOut, StoreRc, StoreFails, RefReturns, BuiltReturns,
       ListOldest, RemoveOut, RemoveRc, cacheVars

LEMMA CacheInvariant == CacheSpec => []CacheInd
<1>1. CacheInit => CacheInd
  BY CacheInitSound, CacheInitWhole DEF CacheInd
<1>2. CacheInd /\ [CacheNext]_cacheVars => CacheInd'
  <2> SUFFICES ASSUME CacheInd, [CacheNext]_cacheVars PROVE CacheInd'
    OBVIOUS
  <2>1. SoundInd'
    BY CacheSoundStep DEF CacheInd
  <2>2. ASSUME ~pruned' PROVE WholeInd'
    BY <2>2, PrunedForEver, CacheWholeStep DEF CacheInd, SoundInd
  <2> QED
    BY <2>1, <2>2 DEF CacheInd
<1> QED
  BY <1>1, <1>2, PTL DEF CacheSpec

(* Until a file is removed from the cache, a reader that finds the .rc     *)
(* file of a key finds its .out file too, and a status in it.              *)
THEOREM CacheEntriesAreWhole == CacheSpec => []EntriesAreWhole
<1>1. CacheInd => EntriesAreWhole
  BY DEF CacheInd, WholeInd, EntriesAreWhole
<1> QED
  BY <1>1, CacheInvariant, PTL

(* The two together: entries are true.                                     *)
THEOREM CacheEntriesAreTrue == CacheSpec => []EntriesAreTrue
BY CacheIsSound, CacheEntriesAreWhole, PTL DEF EntriesAreTrue

(* Until a file is removed from the cache, a parity verdict of "pass"      *)
(* means that both programs behave alike and exit 0, and one of "fail"     *)
(* that they do not, however the results that are compared were shared     *)
(* and whoever is killed or cannot store.                                  *)
THEOREM ParityVerdictsAreTrue == CacheSpec => []VerdictsAreTrueUntilPruned
<1>1. CacheInd => VerdictsAreTrueUntilPruned
  BY DEF CacheInd, WholeInd, VerdictsAreTrue, VerdictsAreTrueUntilPruned
<1> QED
  BY <1>1, CacheInvariant, PTL

-----------------------------------------------------------------------------
(* The dashboard.  Versions of the task files only grow, and bodies are    *)
(* built one at a time under the lock, so that each is at least as new as  *)
(* the one before it, file by file.                                        *)

Versions == [TaskFile -> Nat]

Doing == {"idle", "waiting", "building", "sending"}

DashTypeOK ==
  /\ clock \in Nat /\ clock <= MaxClock /\ builtAt \in Nat /\ builtAt <= clock
  /\ version \in Versions /\ answered \in Versions
  /\ past \in [0 .. MaxClock -> Versions]
  /\ body \subseteq Versions /\ (\A a, b \in body : a = b)
  /\ serving \in [Client -> Doing] /\ holder \in Client \union {Nobody}
  /\ began \in [Client -> Nat] /\ answer \in [Client -> SUBSET Versions]
  /\ floor \in [Client -> Versions]
  /\ DOMAIN reading = Client
  /\ \A c \in Client : DOMAIN reading[c] \subseteq TaskFile /\ reading[c] \in [DOMAIN reading[c] -> Nat]

(* One client builds at a time, from files it read since the body there is *)
(* was stored and since it began.                                          *)
Builder(c) ==
  /\ holder = c
  /\ began[c] <= clock /\ clock <= began[c] + BuildTime
  /\ \A f \in DOMAIN reading[c] :
       /\ reading[c][f] <= version[f]
       /\ \A b \in body : b[f] <= reading[c][f]
       /\ \A t \in 0 .. MaxClock : t <= began[c] => past[t][f] <= reading[c][f]

BuildersHaveTheLock == \A c \in Client : serving[c] = "building" => Builder(c)

PastIsOld ==
  \A f \in TaskFile : \A t \in 0 .. MaxClock : t <= clock => past[t][f] <= version[f]

FloorIsOld == \A c \in Client, f \in TaskFile : floor[c][f] <= answered[f]

BodyIsTheNewest ==
  \A f \in TaskFile :
    /\ answered[f] # 0 => body # {}
    /\ \A b \in body :
         /\ answered[f] <= b[f] /\ b[f] <= version[f]
         /\ \A t \in 0 .. MaxClock : t + BuildTime <= builtAt => past[t][f] <= b[f]

SentWasABody ==
  \A c \in Client : serving[c] = "sending" =>
    \A a \in answer[c], f \in TaskFile :
      floor[c][f] <= a[f] /\ body # {} /\ \A b \in body : a[f] <= b[f]

DashInd ==
  /\ DashTypeOK /\ BuildersHaveTheLock /\ PastIsOld /\ FloorIsOld
  /\ BodyIsTheNewest /\ SentWasABody

LEMMA DashInitInd == DashInit => DashInd
BY DashboardAssumption
   DEF DashInit, DashInd, DashTypeOK, Versions, NoVersions, Doing, BuildersHaveTheLock,
       PastIsOld, FloorIsOld, BodyIsTheNewest, SentWasABody

LEMMA DashArrive ==
  ASSUME DashInd, NEW c \in Client, Arrive(c) PROVE DashInd'
<1> USE DashboardAssumption, NobodyAssumption
    DEF DashTypeOK, Versions, Doing, Arrive, Goes, WorldStays, Builder
<1>0. DashTypeOK
  BY DEF DashInd
<1>1. DashTypeOK'
  BY <1>0 DEF DashInd
<1>2. BuildersHaveTheLock'
  BY <1>0 DEF DashInd, BuildersHaveTheLock
<1>3. PastIsOld'
  BY <1>0 DEF DashInd, PastIsOld
<1>4. FloorIsOld'
  BY <1>0 DEF DashInd, FloorIsOld
<1>5. BodyIsTheNewest'
  BY <1>0 DEF DashInd, BodyIsTheNewest
<1>6. SentWasABody'
  BY <1>0 DEF DashInd, SentWasABody
<1>7. QED
  BY <1>1, <1>2, <1>3, <1>4, <1>5, <1>6 DEF DashInd

LEMMA DashConsult ==
  ASSUME DashInd, NEW c \in Client, Consult(c) PROVE DashInd'
<1> USE DashboardAssumption, NobodyAssumption
    DEF DashTypeOK, Versions, Doing, Consult, Free, Goes, WorldStays, Builder
<1>0. DashTypeOK
  BY DEF DashInd
<1>1. DashTypeOK'
  <2>1. \A d \in Client : reading'[d] = IF d = c THEN << >> ELSE reading[d]
    BY <1>0
  <2>2. << >> \in [DOMAIN << >> -> Nat] /\ DOMAIN << >> \subseteq TaskFile
    OBVIOUS
  <2>3. \A d \in Client : DOMAIN reading'[d] \subseteq TaskFile /\ reading'[d] \in [DOMAIN reading'[d] -> Nat]
    BY <2>1, <2>2, <1>0
  <2>4. QED
    BY <2>3, <1>0
<1>2. BuildersHaveTheLock'
  BY <1>0 DEF DashInd, BuildersHaveTheLock
<1>3. PastIsOld'
  BY <1>0 DEF DashInd, PastIsOld
<1>4. FloorIsOld'
  BY <1>0 DEF DashInd, FloorIsOld
<1>5. BodyIsTheNewest'
  BY <1>0 DEF DashInd, BodyIsTheNewest
<1>6. SentWasABody'
  BY <1>0 DEF DashInd, SentWasABody
<1>7. QED
  BY <1>1, <1>2, <1>3, <1>4, <1>5, <1>6 DEF DashInd

LEMMA DashReuse ==
  ASSUME DashInd, NEW c \in Client, Reuse(c) PROVE DashInd'
<1> USE DashboardAssumption, NobodyAssumption
    DEF DashTypeOK, Versions, Doing, Reuse, Recent, Goes, WorldStays, Builder
<1>0. DashTypeOK
  BY DEF DashInd
<1>1. DashTypeOK'
  BY <1>0 DEF DashInd
<1>2. BuildersHaveTheLock'
  BY <1>0 DEF DashInd, BuildersHaveTheLock
<1>3. PastIsOld'
  BY <1>0 DEF DashInd, PastIsOld
<1>4. FloorIsOld'
  BY <1>0 DEF DashInd, FloorIsOld
<1>5. BodyIsTheNewest'
  BY <1>0 DEF DashInd, BodyIsTheNewest
<1>6. SentWasABody'
  <2> SUFFICES ASSUME NEW d \in Client, serving'[d] = "sending", NEW a \in answer'[d],
                      NEW f \in TaskFile
               PROVE  floor'[d][f] <= a[f] /\ body' # {} /\ \A b \in body' : a[f] <= b[f]
    BY DEF SentWasABody
  <2>1. CASE d = c
    <3>1. a \in body /\ floor'[d] = floor[c] /\ body' = body
      BY <2>1, <1>0
    <3>2. floor[c][f] <= answered[f] /\ answered[f] <= a[f]
      BY <3>1 DEF DashInd, FloorIsOld, BodyIsTheNewest
    <3>3. floor[c][f] \in Nat /\ answered[f] \in Nat /\ a[f] \in Nat
      BY <3>1, <1>0
    <3>4. \A b \in body : b = a
      BY <3>1, <1>0
    <3>5. QED
      BY <3>1, <3>2, <3>3, <3>4
  <2>2. CASE d # c
    BY <2>2, <1>0 DEF DashInd, SentWasABody
  <2>3. QED
    BY <2>1, <2>2
<1>7. QED
  BY <1>1, <1>2, <1>3, <1>4, <1>5, <1>6 DEF DashInd

LEMMA DashReadTask ==
  ASSUME DashInd, NEW c \in Client, ReadTask(c) PROVE DashInd'
<1> USE DashboardAssumption, NobodyAssumption
    DEF DashTypeOK, Versions, Doing, ReadTask, WorldStays, Builder
<1>0. DashTypeOK
  BY DEF DashInd
<1>1. DashTypeOK'
  BY <1>0 DEF DashInd
<1>2. BuildersHaveTheLock'
  <2> SUFFICES ASSUME NEW d \in Client, serving[d] = "building" PROVE Builder(d)'
    BY <1>0 DEF BuildersHaveTheLock
  <2>1. Builder(d)
    BY DEF DashInd, BuildersHaveTheLock
  <2>2. CASE d # c
    BY <2>1, <2>2, <1>0
  <2>3. CASE d = c
    <3>1. PICK f \in TaskFile \ DOMAIN reading[c] :
            reading' = [reading EXCEPT ![c] = [g \in DOMAIN @ \union {f} |-> IF g = f THEN version[f] ELSE @[g]]]
      OBVIOUS
    <3>2. /\ DOMAIN reading'[c] = DOMAIN reading[c] \union {f} /\ reading'[c][f] = version[f]
          /\ \A g \in DOMAIN reading[c] : reading'[c][g] = reading[c][g]
      BY <3>1, <1>0
    <3>3. /\ version[f] <= version[f]
          /\ \A b \in body : b[f] <= version[f]
          /\ \A t \in 0 .. MaxClock : t <= began[c] => past[t][f] <= version[f]
      <4>1. \A t \in 0 .. MaxClock : t <= began[c] => t <= clock
        BY <2>1, <2>3, <1>0
      <4>2. \A t \in 0 .. MaxClock : t <= clock => past[t][f] <= version[f]
        BY DEF DashInd, PastIsOld
      <4>3. \A b \in body : b[f] <= version[f]
        BY DEF DashInd, BodyIsTheNewest
      <4>4. version[f] \in Nat
        BY <1>0
      <4>5. QED
        BY <4>1, <4>2, <4>3, <4>4
    <3>4. QED
      BY <2>1, <2>3, <3>2, <3>3, <1>0
  <2>4. QED
    BY <2>2, <2>3
<1>3. PastIsOld'
  BY <1>0 DEF DashInd, PastIsOld
<1>4. FloorIsOld'
  BY <1>0 DEF DashInd, FloorIsOld
<1>5. BodyIsTheNewest'
  BY <1>0 DEF DashInd, BodyIsTheNewest
<1>6. SentWasABody'
  BY <1>0 DEF DashInd, SentWasABody
<1>7. QED
  BY <1>1, <1>2, <1>3, <1>4, <1>5, <1>6 DEF DashInd

LEMMA DashStore ==
  ASSUME DashInd, NEW c \in Client, Store(c) PROVE DashInd'
<1> USE DashboardAssumption, NobodyAssumption
    DEF DashTypeOK, Versions, Doing, Store, Goes, WorldStays, Builder
<1>0. DashTypeOK
  BY DEF DashInd
<1>1. DashTypeOK'
  <2>1. Builder(c) /\ reading[c] \in Versions
    BY <1>0 DEF DashInd, BuildersHaveTheLock
  <2>2. body' \subseteq Versions /\ (\A a, b \in body' : a = b) /\ answer' \in [Client -> SUBSET Versions]
    BY <2>1, <1>0
  <2>3. QED
    BY <2>2, <1>0
<1>2. BuildersHaveTheLock'
  BY <1>0 DEF DashInd, BuildersHaveTheLock
<1>3. PastIsOld'
  BY <1>0 DEF DashInd, PastIsOld
<1>4. FloorIsOld'
  BY <1>0 DEF DashInd, FloorIsOld
<1>5. BodyIsTheNewest'
  <2>1. Builder(c) /\ reading[c] \in Versions
    BY <1>0 DEF DashInd, BuildersHaveTheLock
  <2>2. ASSUME NEW f \in TaskFile PROVE answered[f] <= reading[c][f]
    <3>1. answered[f] = 0 \/ \E b \in body : answered[f] <= b[f] /\ b[f] <= reading[c][f]
      BY <2>1, <1>0 DEF DashInd, BodyIsTheNewest
    <3>2. QED
      BY <2>1, <3>1, <1>0
  <2>3. ASSUME NEW f \in TaskFile, NEW t \in 0 .. MaxClock, t + BuildTime <= clock
        PROVE  past[t][f] <= reading[c][f]
    <3>1. t <= began[c]
      BY <2>1, <2>3, <1>0
    <3>2. QED
      BY <2>1, <3>1, <1>0
  <2>4. \A f \in TaskFile : reading[c][f] <= version[f]
    BY <2>1, <1>0
  <2>5. QED
    BY <2>2, <2>3, <2>4, <1>0 DEF BodyIsTheNewest
<1>6. SentWasABody'
  <2> SUFFICES ASSUME NEW d \in Client, serving'[d] = "sending", NEW a \in answer'[d],
                      NEW f \in TaskFile
               PROVE  floor'[d][f] <= a[f] /\ body' # {} /\ \A b \in body' : a[f] <= b[f]
    BY DEF SentWasABody
  <2>1. Builder(c) /\ reading[c] \in Versions
    BY <1>0 DEF DashInd, BuildersHaveTheLock
  <2>2. body' = {reading[c]} /\ f \in DOMAIN reading[c]
    OBVIOUS
  <2>3. CASE d = c
    <3>1. a = reading[c] /\ floor'[d] = floor[c]
      BY <2>3, <1>0
    <3>2. floor[c][f] <= answered[f]
      BY DEF DashInd, FloorIsOld
    <3>3. answered[f] = 0 \/ \E b \in body : answered[f] <= b[f] /\ b[f] <= reading[c][f]
      BY <2>1, <2>2, <1>0 DEF DashInd, BodyIsTheNewest
    <3>4. QED
      BY <2>1, <2>2, <3>1, <3>2, <3>3, <1>0
  <2>4. CASE d # c
    <3>1. serving[d] = "sending" /\ a \in answer[d] /\ floor'[d] = floor[d]
      BY <2>4, <1>0
    <3>2. floor[d][f] <= a[f] /\ \E b \in body : a[f] <= b[f]
      BY <3>1 DEF DashInd, SentWasABody
    <3>3. \A b \in body : b[f] <= reading[c][f]
      BY <2>1, <2>2
    <3>4. a \in Versions
      BY <3>1, <1>0
    <3>5. QED
      BY <2>1, <2>2, <3>1, <3>2, <3>3, <3>4, <1>0
  <2>5. QED
    BY <2>3, <2>4
<1>7. QED
  BY <1>1, <1>2, <1>3, <1>4, <1>5, <1>6 DEF DashInd

LEMMA DashBuildRaises ==
  ASSUME DashInd, NEW c \in Client, BuildRaises(c) PROVE DashInd'
<1> USE DashboardAssumption, NobodyAssumption
    DEF DashTypeOK, Versions, Doing, BuildRaises, Goes, WorldStays, Builder
<1>0. DashTypeOK
  BY DEF DashInd
<1>1. DashTypeOK'
  BY <1>0 DEF DashInd
<1>2. BuildersHaveTheLock'
  BY <1>0 DEF DashInd, BuildersHaveTheLock
<1>3. PastIsOld'
  BY <1>0 DEF DashInd, PastIsOld
<1>4. FloorIsOld'
  BY <1>0 DEF DashInd, FloorIsOld
<1>5. BodyIsTheNewest'
  BY <1>0 DEF DashInd, BodyIsTheNewest
<1>6. SentWasABody'
  BY <1>0 DEF DashInd, SentWasABody
<1>7. QED
  BY <1>1, <1>2, <1>3, <1>4, <1>5, <1>6 DEF DashInd

LEMMA DashSend ==
  ASSUME DashInd, NEW c \in Client, Send(c) PROVE DashInd'
<1> USE DashboardAssumption, NobodyAssumption
    DEF DashTypeOK, Versions, Doing, Send, Goes, WorldStays, Builder
<1>0. DashTypeOK
  BY DEF DashInd
<1>1. DashTypeOK'
  BY <1>0 DEF DashInd
<1>2. BuildersHaveTheLock'
  BY <1>0 DEF DashInd, BuildersHaveTheLock
<1>3. PastIsOld'
  BY <1>0 DEF DashInd, PastIsOld
<1>4. FloorIsOld'
  BY <1>0 DEF DashInd, FloorIsOld
<1>5. BodyIsTheNewest'
  <2> SUFFICES ASSUME NEW f \in TaskFile
               PROVE  /\ answered'[f] # 0 => body # {}
                      /\ \A b \in body : answered'[f] <= b[f]
    BY <1>0 DEF DashInd, BodyIsTheNewest
  <2>1. PICK a \in answer[c] : answered' = [g \in TaskFile |-> IF a[g] > answered[g] THEN a[g] ELSE answered[g]]
    OBVIOUS
  <2>2. body # {} /\ \A b \in body : a[f] <= b[f] /\ answered[f] <= b[f]
    BY DEF DashInd, SentWasABody, BodyIsTheNewest
  <2>3. QED
    BY <2>1, <2>2
<1>6. SentWasABody'
  BY <1>0 DEF DashInd, SentWasABody
<1>7. QED
  BY <1>1, <1>2, <1>3, <1>4, <1>5, <1>6 DEF DashInd

LEMMA DashEdit ==
  ASSUME DashInd, NEW f \in TaskFile, Edit(f) PROVE DashInd'
<1> USE DashboardAssumption, NobodyAssumption
    DEF DashTypeOK, Versions, Doing, Edit, Builder
<1>0. DashTypeOK
  BY DEF DashInd
<1>1. DashTypeOK'
  BY <1>0 DEF DashInd
<1>2. BuildersHaveTheLock'
  <2> SUFFICES ASSUME NEW d \in Client, serving[d] = "building" PROVE Builder(d)'
    BY DEF BuildersHaveTheLock
  <2>1. Builder(d)
    BY DEF DashInd, BuildersHaveTheLock
  <2>2. \A g \in TaskFile : version[g] <= version'[g] /\ version[g] \in Nat /\ version'[g] \in Nat
    <3>1. version \in [TaskFile -> Nat] /\ version' = [version EXCEPT ![f] = @ + 1]
      BY <1>0
    <3> HIDE DEF DashTypeOK, Versions, Doing, Edit, Builder
    <3>2. QED
      BY <3>1
  <2>3. \A g \in DOMAIN reading[d] : reading[d][g] <= version'[g]
    BY <2>1, <2>2, <1>0
  <2>4. QED
    BY <2>1, <2>3, <1>0
<1>3. PastIsOld'
  <2> SUFFICES ASSUME NEW g \in TaskFile, NEW t \in 0 .. MaxClock, t <= clock
               PROVE  past[t][g] <= version'[g]
    BY DEF PastIsOld
  <2>1. past[t][g] <= version[g] /\ past[t][g] \in Nat
    BY <1>0 DEF DashInd, PastIsOld
  <2>2. version[g] <= version'[g] /\ version[g] \in Nat /\ version'[g] \in Nat
    <3>1. version \in [TaskFile -> Nat] /\ version' = [version EXCEPT ![f] = @ + 1]
      BY <1>0
    <3> HIDE DEF DashTypeOK, Versions, Doing, Edit, Builder
    <3>2. QED
      BY <3>1
  <2> HIDE DEF DashTypeOK, Versions, Doing, Edit, Builder
  <2>3. QED
    BY <2>1, <2>2
<1>4. FloorIsOld'
  BY <1>0 DEF DashInd, FloorIsOld
<1>5. BodyIsTheNewest'
  BY <1>0 DEF DashInd, BodyIsTheNewest
<1>6. SentWasABody'
  BY <1>0 DEF DashInd, SentWasABody
<1>7. QED
  BY <1>1, <1>2, <1>3, <1>4, <1>5, <1>6 DEF DashInd

LEMMA DashTick ==
  ASSUME DashInd, Tick PROVE DashInd'
<1> USE DashboardAssumption, NobodyAssumption
    DEF DashTypeOK, Versions, Doing, Tick, Builder
<1>0. DashTypeOK
  BY DEF DashInd
<1>1. DashTypeOK'
  <2>1. clock' \in Nat /\ clock' <= MaxClock /\ builtAt <= clock'
    BY <1>0
  <2>2. past' \in [0 .. MaxClock -> [TaskFile -> Nat]]
    BY <1>0
  <2>3. QED
    BY <2>1, <2>2, <1>0
<1>2. BuildersHaveTheLock'
  <2> SUFFICES ASSUME NEW d \in Client, serving[d] = "building" PROVE Builder(d)'
    BY DEF BuildersHaveTheLock
  <2>1. Builder(d)
    BY DEF DashInd, BuildersHaveTheLock
  <2>2. began[d] <= clock' /\ clock' <= began[d] + BuildTime
    BY <2>1, <1>0
  <2>3. \A t \in 0 .. MaxClock : t <= began[d] => past'[t] = past[t]
    BY <2>1, <1>0
  <2>4. QED
    BY <2>1, <2>2, <2>3, <1>0
<1>3. PastIsOld'
  BY <1>0 DEF DashInd, PastIsOld
<1>4. FloorIsOld'
  BY <1>0 DEF DashInd, FloorIsOld
<1>5. BodyIsTheNewest'
  BY <1>0 DEF DashInd, BodyIsTheNewest
<1>6. SentWasABody'
  BY <1>0 DEF DashInd, SentWasABody
<1>7. QED
  BY <1>1, <1>2, <1>3, <1>4, <1>5, <1>6 DEF DashInd

LEMMA DashInvariant == DashSpec => []DashInd
<1>1. DashInd /\ UNCHANGED dashVars => DashInd'
  BY DEF DashInd, DashTypeOK, Builder, dashVars, BuildersHaveTheLock, PastIsOld, FloorIsOld,
         BodyIsTheNewest, SentWasABody
<1>2. DashInd /\ [DashNext]_dashVars => DashInd'
  BY <1>1, DashArrive, DashConsult, DashReuse, DashReadTask, DashStore, DashBuildRaises,
     DashSend, DashEdit, DashTick DEF DashNext
<1>3. QED
  BY <1>2, DashInitInd, PTL DEF DashSpec

(* The variables of the dashboard keep their types.                        *)
THEOREM DashTypeCorrect == DashSpec => []DashTypeOK
<1>1. DashInd => DashTypeOK
  BY DEF DashInd
<1>2. QED
  BY <1>1, DashInvariant, PTL

(* For any refresh time and any number of requests and files: no answer is *)
(* older, in any file, than one sent before the request came in, and every *)
(* edit shows in the answers settled later than the refresh time and the   *)
(* time of a build after it.                                               *)
THEOREM DashboardIsRecent == DashSpec => []AnswersAreRecent
<1>1. DashInd => NeverGoesBack
  BY DEF DashInd, SentWasABody, DashTypeOK, Versions, NeverGoesBack
<1>2. DashInd => EditsShowUp
  <2> SUFFICES ASSUME DashInd, Recent, NEW b \in body, NEW f \in TaskFile,
                      clock + 1 >= TTL + BuildTime
               PROVE  b[f] >= past[clock + 1 - (TTL + BuildTime)][f]
    BY DEF EditsShowUp
  <2> DEFINE t == clock + 1 - (TTL + BuildTime)
  <2>1. t \in 0 .. MaxClock /\ t + BuildTime <= builtAt
    BY DashboardAssumption DEF DashInd, DashTypeOK, Recent
  <2>2. past[t][f] <= b[f]
    BY <2>1 DEF DashInd, BodyIsTheNewest
  <2>3. past[t][f] \in Nat /\ b[f] \in Nat
    BY <2>1 DEF DashInd, DashTypeOK, Versions
  <2>4. QED
    BY <2>2, <2>3
<1>3. QED
  BY <1>1, <1>2, DashInvariant, PTL DEF AnswersAreRecent

-----------------------------------------------------------------------------
(* Dispatch.  What was read and told is kept while the repository changes; *)
(* only a launcher that is swapped after it was asked escapes.             *)

Asking == {"policy", "link", "ask", "evaluate"}

PinnedSoFar ==
  /\ dispatch \in Asking => sub # "doctor"
  /\ sub # "doctor" =>
       /\ dispatch \in {"ask", "evaluate", "exec", "running"} => Facts[seen.revision].mode = "100755"
       /\ dispatch = "evaluate" => told = Named(told.revision) /\ (~swapped => told.revision = head)
       /\ dispatch \in {"exec", "running"} => told = seen /\ seen = Named(seen.revision)
       /\ dispatch = "exec" /\ ~swapped => seen.revision = head
       /\ dispatch = "running" /\ ~swapped => ran \in {seen.revision, "edited"}

(* As long as nothing changes, what the guard found is what dispatch finds.*)
CalmSoFar ==
  /\ dispatch = "begin" => exitCode = 0 /\ ran = NoRevision
  /\ PolicyFits /\ CheckoutIsPinned /\ ~stirred =>
       /\ exitCode # 7 /\ ran \in {NoRevision, link}
       /\ dispatch \in {"link", "ask", "evaluate"} => seen = policy
       /\ dispatch = "evaluate" => told = Named(head)

LEMMA DrillLeavesDispatch ==
  ASSUME Drill PROVE UNCHANGED <<repoVars, commits, changes, dispatchVars, stirred, swapped>>
BY DEF Drill, BeginDrill, ReadCurrent, PreviousPin, RollBack, RollForward, CompareCheckout, Moved,
       DrillFails, DrillGoes

LEMMA PinnedStep ==
  ASSUME PinnedSoFar, [PinNext]_pinVars PROVE PinnedSoFar'
<1> USE DEF PinnedSoFar, Asking, Steps, Now, Refuse, repoVars
<1>1. CASE Change
  <2>1. UNCHANGED dispatchVars /\ (swapped => swapped')
        /\ (dispatch \in {"evaluate", "exec"} /\ ~swapped' => head' = head)
    BY <1>1 DEF Change
  <2>2. QED
    BY <2>1 DEF dispatchVars, Named
<1>2. CASE BeginCommand \/ Misused
  BY <1>2 DEF BeginCommand, Misused, Named
<1>3. CASE FindLauncher
  BY <1>3 DEF FindLauncher, Named
<1>4. CASE ReadPolicy
  BY <1>4 DEF ReadPolicy, Named
<1>5. CASE ReadLink
  BY <1>5 DEF ReadLink, LinkFits, Named
<1>6. CASE AskVersion
  BY <1>6 DEF AskVersion, Named
<1>7. CASE Evaluate
  BY <1>7 DEF Evaluate, Named
<1>8. CASE Exec
  BY <1>8 DEF Exec, Named
<1>9. CASE UNCHANGED pinVars \/ Drill
  BY <1>9, DrillLeavesDispatch DEF pinVars, dispatchVars, Named
<1>10. QED
  BY <1>1, <1>2, <1>3, <1>4, <1>5, <1>6, <1>7, <1>8, <1>9 DEF PinNext

LEMMA CalmStep ==
  ASSUME CalmSoFar, [PinNext]_pinVars PROVE CalmSoFar'
<1> USE DEF CalmSoFar, Steps, Now, Refuse, repoVars, PolicyFits, CheckoutIsPinned, Pinned, Named
<1>1. CASE Change
  <2>1. UNCHANGED dispatchVars /\ (dispatch # "begin" => stirred')
    BY <1>1 DEF Change
  <2>2. QED
    BY <2>1 DEF dispatchVars
<1>2. CASE BeginCommand \/ Misused
  BY <1>2 DEF BeginCommand, Misused
<1>3. CASE FindLauncher
  BY <1>3 DEF FindLauncher
<1>4. CASE ReadPolicy
  BY <1>4 DEF ReadPolicy
<1>5. CASE ReadLink
  BY <1>5 DEF ReadLink, LinkFits
<1>6. CASE AskVersion
  BY <1>6 DEF AskVersion
<1>7. CASE Evaluate
  BY <1>7 DEF Evaluate
<1>8. CASE Exec
  BY <1>8 DEF Exec
<1>9. CASE UNCHANGED pinVars \/ Drill
  BY <1>9, DrillLeavesDispatch DEF pinVars, dispatchVars
<1>10. QED
  BY <1>1, <1>2, <1>3, <1>4, <1>5, <1>6, <1>7, <1>8, <1>9 DEF PinNext

(* The drill.  Commits are only added, and a policy that some commit has   *)
(* came with a commit that changed the policy.                             *)

SomeLink   == Revision \union {NoRevision} \union {e[1] : e \in Earlier}
AnyPolicy  == {BadPolicy} \union Policy \union {Named(r) : r \in Revision} \union {e[2] : e \in Earlier}
SomeCommit == [link : SomeLink, policy : AnyPolicy, touches : BOOLEAN]

HistorySoFar ==
  /\ head \in Fetched /\ link \in SomeLink /\ policy \in AnyPolicy /\ staged \in AnyPolicy
  /\ commits \in Seq(SomeCommit) /\ commits # << >>
  /\ \A i \in DOMAIN commits : \E j \in DOMAIN commits :
       commits[j].touches /\ commits[j].policy = commits[i].policy

Drilling == {"current", "previous", "back", "forward", "compare", "passed"}

DrillSoFar ==
  /\ drill \in Drilling => before[1] \in DOMAIN commits
  /\ drill \in {"previous", "back", "forward", "compare"} /\ Len(commits) = before[1] =>
       current = commits[Len(commits)].link
  /\ drill \in {"back", "forward", "compare"} =>
       previous \in DOMAIN commits /\ commits[previous].link # current
  /\ drill \in {"forward", "compare"} => PinWorks(commits[previous].link, commits[previous].policy)
  /\ drill = "compare" /\ Len(commits) = before[1] => PinWorks(current, commits[Len(commits)].policy)
  /\ DrillIsOfOneCommit

BlameSoFar ==
  /\ drill \in Drilling /\ ~stirred => before = Snapshot
  /\ DrillBlamesTheRepository

LEMMA LastCommit ==
  ASSUME HistorySoFar
  PROVE  /\ Len(commits) \in Nat \ {0} /\ DOMAIN commits = 1 .. Len(commits)
         /\ Len(commits) \in DOMAIN commits /\ commits[Len(commits)] \in SomeCommit
BY DEF HistorySoFar

LEMMA NamedTells == \A r : Named(r).revision = r
BY DEF Named

LEMMA CommitAppends ==
  ASSUME HistorySoFar, CommitPin
  PROVE  /\ commits' \in Seq(SomeCommit) /\ Len(commits') = Len(commits) + 1
         /\ \A i \in DOMAIN commits : i \in DOMAIN commits' /\ commits'[i] = commits[i]
         /\ DOMAIN commits' = DOMAIN commits \union {Len(commits) + 1}
         /\ commits'[Len(commits) + 1] = CommitOf(link, staged, staged # commits[Len(commits)].policy)
<1>1. CommitOf(link, staged, staged # commits[Len(commits)].policy) \in SomeCommit
  BY DEF CommitOf, SomeCommit, HistorySoFar
<1> DEFINE new == CommitOf(link, staged, staged # commits[Len(commits)].policy)
<1>2. commits \in Seq(SomeCommit) /\ new \in SomeCommit /\ commits' = Append(commits, new)
  BY <1>1 DEF CommitPin, HistorySoFar
<1> HIDE DEF new
<1>3. /\ commits' \in Seq(SomeCommit) /\ Len(commits') = Len(commits) + 1
      /\ \A i \in 1 .. Len(commits) : commits'[i] = commits[i]
      /\ commits'[Len(commits) + 1] = new
  BY <1>2, AppendProperties
<1>4. DOMAIN commits = 1 .. Len(commits) /\ DOMAIN commits' = 1 .. Len(commits) + 1 /\ Len(commits) \in Nat
  BY <1>2, <1>3
<1>5. QED
  BY <1>3, <1>4 DEF new

LEMMA HistoryInit == ASSUME PinInit PROVE HistorySoFar
<1>1. PICK r \in Fetched :
        /\ link = r /\ head = r /\ policy = Named(r) /\ staged = Named(r)
        /\ \/ commits = <<CommitOf(r, Named(r), TRUE)>>
           \/ \E e \in Earlier : commits = <<CommitOf(e[1], e[2], TRUE), CommitOf(r, Named(r), e[2] # Named(r))>>
  BY DEF PinInit
<1>2. r \in SomeLink /\ Named(r) \in AnyPolicy
  BY RevisionAssumption DEF SomeLink, AnyPolicy
<1>3. head \in Fetched /\ link \in SomeLink /\ policy \in AnyPolicy /\ staged \in AnyPolicy
  BY <1>1, <1>2
<1>4. CASE commits = <<CommitOf(r, Named(r), TRUE)>>
  BY <1>2, <1>3, <1>4 DEF HistorySoFar, SomeCommit, CommitOf
<1>5. CASE \E e \in Earlier : commits = <<CommitOf(e[1], e[2], TRUE), CommitOf(r, Named(r), e[2] # Named(r))>>
  <2>1. PICK e \in Earlier : commits = <<CommitOf(e[1], e[2], TRUE), CommitOf(r, Named(r), e[2] # Named(r))>>
    BY <1>5
  <2>2. e[1] \in SomeLink /\ e[2] \in AnyPolicy
    BY DEF SomeLink, AnyPolicy
  <2>3. CommitOf(e[1], e[2], TRUE) \in SomeCommit /\ CommitOf(r, Named(r), e[2] # Named(r)) \in SomeCommit
    BY <1>2, <2>2 DEF SomeCommit, CommitOf
  <2>4. commits \in Seq(SomeCommit) /\ commits # << >> /\ DOMAIN commits = {1, 2}
    <3> DEFINE c == CommitOf(e[1], e[2], TRUE)
               d == CommitOf(r, Named(r), e[2] # Named(r))
    <3>1. c \in SomeCommit /\ d \in SomeCommit /\ commits = <<c, d>>
      BY <2>1, <2>3
    <3> HIDE DEF c, d
    <3>2. commits \in Seq(SomeCommit) /\ Len(commits) = 2
      BY <3>1
    <3>3. DOMAIN commits = 1 .. 2
      BY <3>2
    <3>4. 1 .. 2 = {1, 2}
      OBVIOUS
    <3>5. QED
      BY <3>2, <3>3, <3>4
  <2>5. commits[1].touches /\ (commits[2].touches \/ commits[1].policy = commits[2].policy)
    BY <2>1 DEF CommitOf
  <2>6. QED
    BY <1>3, <2>4, <2>5 DEF HistorySoFar
<1>6. QED
  BY <1>1, <1>4, <1>5

LEMMA HistoryStep ==
  ASSUME HistorySoFar, [PinNext]_pinVars PROVE HistorySoFar'
<1>1. CASE UNCHANGED <<repoVars, commits>>
  BY <1>1 DEF HistorySoFar, repoVars
<1>2. CASE Change /\ UNCHANGED commits
  <2>1. head' \in Fetched
    BY <1>2 DEF Change, Reseal, Checkout, EditLauncher, StageLink, StagePolicy, EditPolicy, CommitPin, repoVars, HistorySoFar
  <2>2. link' \in SomeLink
    BY <1>2, RevisionAssumption
    DEF Change, Reseal, Checkout, EditLauncher, StageLink, StagePolicy, EditPolicy, CommitPin, repoVars, HistorySoFar, SomeLink
  <2>3. policy' \in AnyPolicy /\ staged' \in AnyPolicy
    BY <1>2, RevisionAssumption
    DEF Change, Reseal, Checkout, EditLauncher, StageLink, StagePolicy, EditPolicy, CommitPin, repoVars, HistorySoFar, AnyPolicy, Pinned
  <2>4. QED
    BY <1>2, <2>1, <2>2, <2>3 DEF HistorySoFar
<1>3. CASE CommitPin
  <2>1. UNCHANGED repoVars
    BY <1>3 DEF CommitPin
  <2>2. \A i \in DOMAIN commits' : \E j \in DOMAIN commits' :
          commits'[j].touches /\ commits'[j].policy = commits'[i].policy
    <3>1. SUFFICES ASSUME NEW i \in DOMAIN commits'
                   PROVE  \E j \in DOMAIN commits' : commits'[j].touches /\ commits'[j].policy = commits'[i].policy
      OBVIOUS
    <3>2. CASE i \in DOMAIN commits
      <4>1. PICK j \in DOMAIN commits : commits[j].touches /\ commits[j].policy = commits[i].policy
        BY <3>2 DEF HistorySoFar
      <4>2. QED
        BY <1>3, <3>2, <4>1, CommitAppends
    <3>3. CASE i = Len(commits) + 1 /\ staged # commits[Len(commits)].policy
      <4> DEFINE touches_ == staged # commits[Len(commits)].policy
      <4>1. commits'[i] = CommitOf(link, staged, touches_) /\ i \in DOMAIN commits'
        BY <1>3, <3>3, CommitAppends
      <4>2. touches_ = TRUE
        BY <3>3
      <4> HIDE DEF touches_
      <4>3. commits'[i].touches = touches_
        BY <4>1 DEF CommitOf
      <4>4. QED
        BY <4>1, <4>2, <4>3
    <3>4. CASE i = Len(commits) + 1 /\ staged = commits[Len(commits)].policy
      <4>1. PICK j \in DOMAIN commits : commits[j].touches /\ commits[j].policy = staged
        BY <3>4, LastCommit DEF HistorySoFar
      <4>2. QED
        BY <1>3, <3>4, <4>1, CommitAppends DEF CommitOf
    <3>5. QED
      BY <1>3, <3>1, <3>2, <3>3, <3>4, CommitAppends
  <2>3. commits' # << >>
    BY <1>3, CommitAppends, LastCommit
  <2>4. QED
    BY <1>3, <2>1, <2>2, <2>3, CommitAppends DEF HistorySoFar, repoVars
<1>4. QED
  BY <1>1, <1>2, <1>3, DrillLeavesDispatch
  DEF PinNext, pinVars, Change, BeginCommand, Misused, FindLauncher, ReadPolicy, ReadLink, AskVersion, Evaluate,
      Exec, Steps, Refuse, Now

LEMMA DrillStep ==
  ASSUME HistorySoFar, DrillSoFar, [PinNext]_pinVars PROVE DrillSoFar'
<1> USE LastCommit DEF Drilling, DrillIsOfOneCommit
<1>1. CASE UNCHANGED <<commits, drillVars>>
  BY <1>1 DEF DrillSoFar, drillVars, PinWorks, Pinned, Named
<1>2. CASE CommitPin /\ UNCHANGED drillVars
  <2>1. /\ DOMAIN commits \subseteq DOMAIN commits' /\ \A i \in DOMAIN commits : commits'[i] = commits[i]
        /\ Len(commits') = Len(commits) + 1 /\ UNCHANGED <<drill, before, current, previous>>
    BY <1>2, CommitAppends DEF drillVars
  <2>2. \A r, q : PinWorks(r, q)' = PinWorks(r, q)
    BY DEF PinWorks, Pinned, Named
  <2>3. drill \in Drilling => before[1] \in DOMAIN commits' /\ Len(commits') # before[1]
    BY <2>1 DEF DrillSoFar
  <2>4. drill \in {"forward", "compare"} => PinWorks(commits'[previous].link, commits'[previous].policy)
    BY <2>1 DEF DrillSoFar
  <2>5. DrillIsOfOneCommit'
    <3>1. SUFFICES ASSUME drill = "passed" PROVE DrillIsOfOneCommit'
      BY <2>1
    <3>2. /\ before[1] \in 1 .. Len(commits)
          /\ PinWorks(commits[before[1]].link, commits[before[1]].policy)
      BY <3>1 DEF DrillSoFar
    <3>3. PICK i \in 1 .. before[1] :
            commits[i].link # commits[before[1]].link /\ PinWorks(commits[i].link, commits[i].policy)
      BY <3>1 DEF DrillSoFar
    <3>4. i \in DOMAIN commits
      BY <3>2, <3>3
    <3>5. /\ before'[1] = before[1] /\ before[1] \in DOMAIN commits
          /\ commits'[before[1]] = commits[before[1]] /\ commits'[i] = commits[i]
      BY <2>1, <3>2, <3>4
    <3>6. /\ PinWorks(commits[before[1]].link, commits[before[1]].policy)'
          /\ PinWorks(commits[i].link, commits[i].policy)'
      BY <3>2, <3>3, <3>5 DEF PinWorks, Pinned, Named
    <3>7. commits'[i].link # commits'[before'[1]].link /\ i \in 1 .. before'[1]
      BY <3>3, <3>5
    <3>8. QED
      BY <3>5, <3>6, <3>7
  <2>6. QED
    BY <2>1, <2>3, <2>4, <2>5 DEF DrillSoFar, PinWorks, Pinned, Named
<1>3. CASE BeginDrill
  BY <1>3 DEF BeginDrill, DrillGoes, DrillFails, Snapshot, DrillSoFar
<1>4. CASE ReadCurrent
  BY <1>4 DEF ReadCurrent, DrillGoes, DrillFails, DrillSoFar
<1>5. CASE PreviousPin
  BY <1>5 DEF PreviousPin, OtherPins, DrillGoes, DrillFails, DrillSoFar
<1>6. CASE RollBack
  BY <1>6 DEF RollBack, Moved, DrillGoes, DrillFails, DrillSoFar, PinWorks, Pinned, Named
<1>7. CASE RollForward
  BY <1>7 DEF RollForward, Moved, DrillGoes, DrillFails, DrillSoFar, PinWorks, Pinned, Named
<1>8. CASE CompareCheckout
  <2>1. CASE drill' = "passed"
    <3>1. before[1] = Len(commits) /\ drill = "compare" /\ UNCHANGED <<commits, before, current, previous>>
      BY <1>8, <2>1 DEF CompareCheckout, Moved, DrillGoes, DrillFails, Snapshot
    <3>2. PinWorks(commits[Len(commits)].link, commits[Len(commits)].policy)
      BY <3>1 DEF DrillSoFar
    <3>3. /\ previous \in 1 .. Len(commits) /\ commits[previous].link # commits[Len(commits)].link
          /\ PinWorks(commits[previous].link, commits[previous].policy)
      BY <3>1 DEF DrillSoFar
    <3>4. QED
      BY <2>1, <3>1, <3>2, <3>3 DEF DrillSoFar, PinWorks, Pinned, Named
  <2>2. CASE drill' # "passed"
    BY <1>8, <2>2 DEF CompareCheckout, Moved, DrillGoes, DrillFails, DrillSoFar
  <2>3. QED
    BY <2>1, <2>2
<1>9. QED
  BY <1>1, <1>2, <1>3, <1>4, <1>5, <1>6, <1>7, <1>8
  DEF PinNext, Drill, pinVars, Change, BeginCommand, Misused, FindLauncher, ReadPolicy, ReadLink, AskVersion, Evaluate,
      Exec, Steps, Refuse, Now

(* Nothing changes under an undisturbed drill, and a commit made past the  *)
(* guard has a policy from which its pin can be told.                      *)
LEMMA BlameStep ==
  ASSUME HistorySoFar, DrillSoFar, BlameSoFar, [PinNext]_pinVars PROVE BlameSoFar'
<1> DEFINE AllWork  == \A i \in DOMAIN commits : PinWorks(commits[i].link, commits[i].policy)
           PinMoves == \E i \in DOMAIN commits : commits[i].link # commits[Len(commits)].link
<1> USE DEF Drilling
<1>1. CASE UNCHANGED <<repoVars, commits, stirred, drillVars>>
  BY <1>1 DEF BlameSoFar, DrillBlamesTheRepository, Snapshot, PinWorks, Pinned, Named, drillVars, repoVars
<1>2. CASE Change
  <2>1. UNCHANGED drillVars /\ (drill # "idle" => stirred')
    BY <1>2 DEF Change
  <2>2. QED
    BY <2>1 DEF BlameSoFar, DrillBlamesTheRepository, drillVars
<1>3. CASE Drill
  <2>1. UNCHANGED <<policy, link, staged, commits, stirred>>
    BY <1>3, DrillLeavesDispatch DEF repoVars
  <2>2. drill' \in Drilling /\ ~stirred' => before' = Snapshot'
    BY <1>3, <2>1 DEF Drill, BeginDrill, ReadCurrent, PreviousPin, RollBack, RollForward, CompareCheckout, Moved,
                      DrillFails, DrillGoes, BlameSoFar, Snapshot
  <2>3. ASSUME policy # BadPolicy, ~stirred, AllWork, PinMoves PROVE drill' # "failed"
    <3>1. \A i \in DOMAIN commits : commits[i].link # NoRevision /\ commits[i].policy = Named(commits[i].link)
      BY <2>3, RevisionAssumption DEF PinWorks, Pinned
    <3>2. drill # "failed"
      BY <2>3 DEF BlameSoFar, DrillBlamesTheRepository
    <3>3. drill \in Drilling => before = Snapshot /\ before[1] = Len(commits)
      BY <2>3 DEF BlameSoFar, Snapshot
    <3>4. CASE BeginDrill
      BY <2>3, <3>4 DEF BeginDrill, DrillFails, DrillGoes
    <3>5. CASE ReadCurrent
      BY <3>1, <3>5, LastCommit DEF ReadCurrent, DrillFails, DrillGoes
    <3>6. CASE PreviousPin
      <4>1. current = commits[Len(commits)].link
        BY <3>3, <3>6 DEF PreviousPin, DrillFails, DrillGoes, DrillSoFar
      <4>2. PICK i \in DOMAIN commits : commits[i].link # current
        BY <2>3, <4>1
      <4>3. PICK j \in DOMAIN commits : commits[j].touches /\ commits[j].policy = commits[i].policy
        BY DEF HistorySoFar
      <4>4. commits[j].link = commits[i].link
        BY <3>1, <4>3, NamedTells
      <4>5. j \in OtherPins
        BY <4>2, <4>3, <4>4 DEF OtherPins
      <4>6. \A k \in OtherPins : commits[k].link # NoRevision /\ commits[k].policy # BadPolicy
        <5>1. \A k \in DOMAIN commits : commits[k].link \in Revision
          BY <2>3, RevisionAssumption DEF PinWorks, Pinned
        <5>2. \A k \in DOMAIN commits : commits[k].policy.revision # "bad"
          BY <3>1, <5>1, RevisionAssumption, NamedTells
        <5>3. QED
          BY <3>1, <5>2 DEF OtherPins, BadPolicy
      <4>7. QED
        BY <3>2, <3>6, <4>5, <4>6 DEF PreviousPin, DrillFails, DrillGoes
    <3>7. CASE RollBack
      BY <2>3, <3>7 DEF RollBack, Moved, DrillFails, DrillGoes, DrillSoFar
    <3>8. CASE RollForward
      <4>1. drill = "forward" /\ current = commits[Len(commits)].link
        BY <3>3, <3>8 DEF RollForward, DrillSoFar
      <4>2. PinWorks(current, commits[Len(commits)].policy)
        BY <2>3, <4>1, LastCommit
      <4>3. QED
        BY <3>8, <4>2 DEF RollForward, Moved, DrillGoes
    <3>9. CASE CompareCheckout
      BY <3>3, <3>9 DEF CompareCheckout, Moved, DrillGoes
    <3>10. QED
      BY <1>3, <3>4, <3>5, <3>6, <3>7, <3>8, <3>9 DEF Drill
  <2>4. QED
    BY <2>1, <2>2, <2>3 DEF BlameSoFar, DrillBlamesTheRepository, PinWorks, Pinned, Named
<1>4. QED
  BY <1>1, <1>2, <1>3
  DEF PinNext, pinVars, BeginCommand, Misused, FindLauncher, ReadPolicy, ReadLink, AskVersion, Evaluate,
      Exec, Steps, Refuse, Now

(* Whatever the commits hold and whoever changes what and how often: the   *)
(* sv0cov that runs is the one the policy named and the gitlink pinned,    *)
(* where the guard passes and nothing changes dispatch refuses nothing,    *)
(* and the verdict of the drill is about one commit and its own.           *)
THEOREM DispatchIsPinned == PinSpec => []DispatchRunsThePinned
<1> DEFINE PinInv == PinnedSoFar /\ CalmSoFar /\ HistorySoFar /\ DrillSoFar /\ BlameSoFar
<1>1. PinInit => PinInv
  <2>1. PinInit => PinnedSoFar /\ CalmSoFar
    BY DEF PinInit, PinnedSoFar, CalmSoFar, Asking
  <2>2. PinInit => DrillSoFar /\ BlameSoFar
    BY DEF PinInit, DrillSoFar, BlameSoFar, Drilling, DrillIsOfOneCommit, DrillBlamesTheRepository
  <2>3. QED
    BY <2>1, <2>2, HistoryInit
<1>2. PinInv /\ [PinNext]_pinVars => PinInv'
  BY PinnedStep, CalmStep, HistoryStep, DrillStep, BlameStep
<1>3. PinInv => DispatchRunsThePinned
  BY DEF PinnedSoFar, CalmSoFar, DrillSoFar, BlameSoFar, DispatchRunsThePinned, RunsThePinned, GuardSpeaksForDispatch
<1>4. QED
  BY <1>1, <1>2, <1>3, PTL DEF PinSpec

-----------------------------------------------------------------------------
(* Companions.  Nobody but the last build takes a step near it while it is *)
(* undisturbed.                                                            *)

Stages == {"map", "binding", "publish", "clean map", "clean binding", "done", "failed", "killed"}

Begun == DOMAIN stage

CompanionsTypeOK ==
  /\ Begun \subseteq Builds /\ DOMAIN wish = Begun
  /\ \A b \in Begun : stage[b] \in Stages /\ wish[b] \in Wish
  /\ artifact \in [Kind -> 0 .. MaxBuild]
  /\ defaultMap \in 0 .. MaxBuild + 1 /\ binding \in 0 .. MaxBuild + 1
  /\ solitary \subseteq Begun /\ tidied \subseteq Begun

(* They begin in their order.                                              *)
InOrder == \A b \in Begun : \A c \in Builds : c < b => c \in Begun

(* The last build, as long as nobody disturbs it.                          *)
IsLast(b) == \A c \in Begun : c <= b

MapWritten(b)      == stage[b] \in {"binding", "publish", "clean map", "clean binding"} \/ b \in tidied
BindingWritten(b)  == stage[b] \in {"publish", "clean map", "clean binding"} \/ b \in tidied
ArtifactThere(b)   == stage[b] \in {"clean map", "clean binding"} \/ b \in tidied
MapCleaned(b)      == stage[b] = "clean binding" \/ b \in tidied

Undisturbed(b) ==
  /\ UnderWay \subseteq {b}
  /\ MapWritten(b) /\ WritesMap(wish[b]) => defaultMap = b
  /\ BindingWritten(b) /\ WritesBinding(wish[b]) => binding = b
  /\ ArtifactThere(b) => artifact[wish[b].kind] = b
  /\ MapCleaned(b) /\ ~WritesMap(wish[b]) => defaultMap \in {None, Foreign}
  /\ b \in tidied /\ wish[b].kind = "sv0b" /\ ~WritesBinding(wish[b]) => binding \in {None, Foreign}

CompanionsInd ==
  /\ CompanionsTypeOK
  /\ InOrder
  /\ \A b \in tidied : stage[b] = "done"
  /\ \A b \in solitary : IsLast(b) => Undisturbed(b)

USE MaxBuildAssumption DEF Builds

LEMMA CompanionsInitInd == CompanionsInit => CompanionsInd
<1> SUFFICES ASSUME CompanionsInit PROVE CompanionsInd
  OBVIOUS
<1>1. Begun = {} /\ DOMAIN wish = {}
  BY DEF CompanionsInit, Begun
<1>2. CompanionsTypeOK
  BY <1>1 DEF CompanionsInit, CompanionsTypeOK, None, Foreign
<1>3. QED
  BY <1>1, <1>2 DEF CompanionsInit, CompanionsInd, InOrder

(* A build that begins is the last one, and disturbs those under way.      *)
LEMMA BeginKeepsInd ==
  ASSUME CompanionsInd, NEW b \in Builds, BeginBuild(b)
  PROVE  CompanionsInd'
<1> USE DEF BeginBuild, CompanionsInd, CompanionsTypeOK, Begun
<1>1. Begun' = Begun \union {b} /\ b \notin Begun /\ DOMAIN wish' = Begun'
  OBVIOUS
<1>2. \A c \in Begun : stage'[c] = stage[c] /\ wish'[c] = wish[c]
  OBVIOUS
<1>3. stage'[b] = "map" /\ wish'[b] \in Wish
  OBVIOUS
<1>4. solitary' \subseteq Begun' /\ tidied' = tidied
  OBVIOUS
<1>5. CompanionsTypeOK'
  BY <1>1, <1>2, <1>3, <1>4 DEF Stages
<1>6. InOrder'
  BY <1>1 DEF InOrder
<1>7. \A c \in Begun : c < b
  BY <1>1 DEF InOrder
<1>8. \A c \in solitary' : IsLast(c)' => Undisturbed(c)'
  <2> SUFFICES ASSUME NEW c \in solitary', IsLast(c)' PROVE Undisturbed(c)'
    OBVIOUS
  <2>1. c = b
    BY <1>1, <1>4, <1>7 DEF IsLast
  <2>2. UnderWay = {}
    BY <2>1, <1>1
  <2>3. UnderWay' \subseteq {b}
    BY <2>2, <1>1, <1>2 DEF UnderWay
  <2>4. b \notin tidied'
    BY <1>1, <1>4
  <2>5. QED
    BY <2>1, <2>3, <2>4, <1>3
       DEF Undisturbed, MapWritten, BindingWritten, ArtifactThere, MapCleaned
<1>9. \A c \in tidied' : stage'[c] = "done"
  BY <1>2, <1>4
<1>10. QED
  BY <1>5, <1>6, <1>8, <1>9

Later(b) == WriteMap(b) \/ WriteBinding(b) \/ BuildFails(b) \/ PublishBuild(b) \/ CleanMap(b)
            \/ CleanBinding(b) \/ CleanFails(b) \/ BuildKilled(b)

(* What is common to the steps of a build under way.                       *)
LEMMA LaterSteps ==
  ASSUME CompanionsInd, NEW b \in Builds, Later(b)
  PROVE  /\ b \in UnderWay /\ b \in Begun /\ b \notin tidied
         /\ Begun' = Begun /\ wish' = wish /\ solitary' = solitary
         /\ \A c \in Begun \ {b} : stage'[c] = stage[c]
         /\ stage'[b] \in Stages
         /\ tidied' = IF CleanBinding(b) THEN tidied \union {b} ELSE tidied
<1> USE DEF CompanionsInd, CompanionsTypeOK, Begun
<1>1. b \in UnderWay /\ stage[b] \notin {"done", "failed", "killed"}
  BY DEF Later, WriteMap, WriteBinding, BuildFails, PublishBuild, CleanMap, CleanBinding,
         CleanFails, BuildKilled, Moves, UnderWay
<1>2. wish' = wish /\ solitary' = solitary
  BY DEF Later, WriteMap, WriteBinding, BuildFails, PublishBuild, CleanMap, CleanBinding,
         CleanFails, BuildKilled, History
<1>3. \E to \in Stages : stage' = [stage EXCEPT ![b] = to]
  BY DEF Later, WriteMap, WriteBinding, BuildFails, PublishBuild, CleanMap, CleanBinding,
         CleanFails, BuildKilled, Moves, Stages
<1>4. tidied' = IF CleanBinding(b) THEN tidied \union {b} ELSE tidied
  BY DEF Later, WriteMap, WriteBinding, BuildFails, PublishBuild, CleanMap, CleanBinding,
         CleanFails, BuildKilled, History
<1>5. b \in Begun /\ b \notin tidied
  BY <1>1 DEF UnderWay
<1>6. QED
  BY <1>1, <1>2, <1>3, <1>4, <1>5

LEMMA LaterKeepsTypes ==
  ASSUME CompanionsInd, NEW b \in Builds, Later(b)
  PROVE  CompanionsTypeOK' /\ InOrder' /\ \A c \in tidied' : stage'[c] = "done"
<1> USE DEF CompanionsInd
<1>1. /\ artifact' \in [Kind -> 0 .. MaxBuild]
      /\ defaultMap' \in 0 .. MaxBuild + 1 /\ binding' \in 0 .. MaxBuild + 1
  <2> USE DEF CompanionsTypeOK, None
  <2>1. b \in 0 .. MaxBuild /\ b \in 0 .. MaxBuild + 1 /\ 0 \in 0 .. MaxBuild + 1
    OBVIOUS
  <2>2. artifact' = artifact \/ artifact' = [artifact EXCEPT ![wish[b].kind] = b]
    BY DEF Later, WriteMap, WriteBinding, BuildFails, PublishBuild, CleanMap, CleanBinding,
           CleanFails, BuildKilled, Files
  <2>3. defaultMap' \in {defaultMap, b, None}
    BY DEF Later, WriteMap, WriteBinding, BuildFails, PublishBuild, CleanMap, CleanBinding,
           CleanFails, BuildKilled, Files, Without
  <2>4. binding' \in {binding, b, None}
    BY DEF Later, WriteMap, WriteBinding, BuildFails, PublishBuild, CleanMap, CleanBinding,
           CleanFails, BuildKilled, Files, Without
  <2>5. QED
    BY <2>1, <2>2, <2>3, <2>4
<1>2. \A c \in Begun : stage'[c] \in Stages
  BY LaterSteps DEF CompanionsTypeOK
<1>3. DOMAIN wish' = Begun' /\ \A c \in Begun' : wish'[c] \in Wish
  BY LaterSteps DEF CompanionsTypeOK
<1>4. CompanionsTypeOK'
  BY LaterSteps, <1>1, <1>2, <1>3 DEF CompanionsTypeOK
<1>5. InOrder'
  BY LaterSteps DEF InOrder
<1>6. CleanBinding(b) => stage'[b] = "done"
  BY LaterSteps DEF CleanBinding, Moves, Begun
<1>7. \A c \in tidied' : stage'[c] = "done"
  BY LaterSteps, <1>6 DEF CompanionsTypeOK
<1>8. QED
  BY <1>4, <1>5, <1>7

(* The one step that is taken near an undisturbed last build is its own.   *)
LEMMA LaterKeepsUndisturbed ==
  ASSUME CompanionsInd, NEW b \in Builds, Later(b), NEW c \in solitary', IsLast(c)'
  PROVE  Undisturbed(c)'
<1> USE DEF CompanionsInd, CompanionsTypeOK
<1>1. c = b /\ Undisturbed(b)
  <2>1. b \in UnderWay /\ Begun' = Begun /\ solitary' = solitary
    BY LaterSteps
  <2>2. c \in solitary /\ IsLast(c)
    BY <2>1 DEF IsLast
  <2>3. Undisturbed(c)
    BY <2>2
  <2>4. QED
    BY <2>1, <2>3 DEF Undisturbed
<1>2. UnderWay' \subseteq {b}
  BY <1>1, LaterSteps DEF Undisturbed, UnderWay, Begun
<1>3. wish' = wish /\ b \notin tidied /\ wish[b].kind \in Kind /\ wish[b] \in Wish
  BY LaterSteps DEF Wish
<1> DEFINE w == wish[b]
<1>4. \A to : stage' = [stage EXCEPT ![b] = to] => stage'[b] = to
  BY LaterSteps DEF Begun
<1> USE DEF Undisturbed, MapWritten, BindingWritten, ArtifactThere, MapCleaned
<1>5. CASE WriteMap(b)
  BY <1>1, <1>2, <1>3, <1>4, <1>5 DEF WriteMap, Moves, History
<1>6. CASE WriteBinding(b)
  BY <1>1, <1>2, <1>3, <1>4, <1>6 DEF WriteBinding, Moves, History
<1>7. CASE BuildFails(b)
  BY <1>1, <1>2, <1>3, <1>4, <1>7 DEF BuildFails, Moves, Files, History
<1>8. CASE PublishBuild(b)
  BY <1>1, <1>2, <1>3, <1>4, <1>8 DEF PublishBuild, Moves, History
<1>9. CASE CleanMap(b)
  <2>1. stage[b] = "clean map" /\ stage'[b] = "clean binding" /\ tidied' = tidied
        /\ binding' = binding /\ artifact' = artifact
    BY <1>9, <1>4 DEF CleanMap, Moves, History
  <2>2. WritesMap(w) => defaultMap' = b
    BY <1>9, <2>1, <1>1 DEF CleanMap, Without, StaleOutputs
  <2>3. ~WritesMap(w) => defaultMap' \in {None, Foreign}
    BY <1>9 DEF CleanMap, Without, StaleOutputs
  <2>4. QED
    BY <1>1, <1>2, <1>3, <2>1, <2>2, <2>3
<1>10. CASE CleanBinding(b)
  <2>1. stage[b] = "clean binding" /\ stage'[b] = "done" /\ tidied' = tidied \union {b}
        /\ defaultMap' = defaultMap /\ artifact' = artifact
    BY <1>10, <1>4 DEF CleanBinding, Moves, History
  <2>2. WritesBinding(w) => binding' = b
    BY <1>10, <2>1, <1>1 DEF CleanBinding, Without, StaleOutputs
  <2>3. w.kind = "sv0b" /\ ~WritesBinding(w) => binding' \in {None, Foreign}
    BY <1>10 DEF CleanBinding, Without, StaleOutputs
  <2>4. QED
    BY <1>1, <1>2, <1>3, <2>1, <2>2, <2>3
<1>11. CASE CleanFails(b)
  BY <1>1, <1>2, <1>3, <1>4, <1>11 DEF CleanFails, Moves, Files, History
<1>12. CASE BuildKilled(b)
  BY <1>1, <1>2, <1>3, <1>4, <1>12 DEF BuildKilled, Moves, Files, History
<1>13. QED
  BY <1>5, <1>6, <1>7, <1>8, <1>9, <1>10, <1>11, <1>12 DEF Later

LEMMA CompanionsInvariant == CompanionsSpec => []CompanionsInd
<1>1. CompanionsInd /\ [CompanionsNext]_companionVars => CompanionsInd'
  <2> SUFFICES ASSUME CompanionsInd, [CompanionsNext]_companionVars PROVE CompanionsInd'
    OBVIOUS
  <2>1. ASSUME NEW b \in Builds, BeginBuild(b) PROVE CompanionsInd'
    BY <2>1, BeginKeepsInd
  <2>2. ASSUME NEW b \in Builds, Later(b) PROVE CompanionsInd'
    BY <2>2, LaterKeepsTypes, LaterKeepsUndisturbed DEF CompanionsInd
  <2>3. CASE UNCHANGED companionVars
    BY <2>3 DEF companionVars, CompanionsInd, CompanionsTypeOK, InOrder, IsLast, Undisturbed,
       Begun, UnderWay, MapWritten, BindingWritten, ArtifactThere, MapCleaned
  <2>4. QED
    BY <2>1, <2>2, <2>3 DEF CompanionsNext, Later
<1>2. QED
  BY <1>1, CompanionsInitInd, PTL DEF CompanionsSpec

(* The variables of the builds of a stem keep their types.                 *)
THEOREM CompanionsTypeCorrect == CompanionsSpec => []CompanionsTypeOK
<1>1. CompanionsInd => CompanionsTypeOK
  BY DEF CompanionsInd
<1>2. QED
  BY <1>1, CompanionsInvariant, PTL

(* The last build, when it overlapped with no other and its removals did   *)
(* not fail, has its own companions beside its artifact, or none.          *)
THEOREM CompanionsAreRight == CompanionsSpec => []CompanionsMatchTheArtifact
<1>1. CompanionsInd => CompanionsMatchTheArtifact
  BY DEF CompanionsInd, CompanionsTypeOK, CompanionsMatchTheArtifact, IsLast, Begun, Undisturbed,
         MapWritten, BindingWritten, ArtifactThere, MapCleaned, WritesBinding
<1>2. QED
  BY <1>1, CompanionsInvariant, PTL
=============================================================================
