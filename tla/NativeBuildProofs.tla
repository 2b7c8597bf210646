------------------------- MODULE NativeBuildProofs -------------------------
(***************************************************************************)
(* Proofs about OutputLock, Publication and NativeBuild, for every set of  *)
(* builders, processes, option combinations and faults.                    *)
(*                                                                         *)
(* The lock: a builder past its exclusive create and before the end of its *)
(* release is the creator of the lock file, as long as nobody removed a    *)
(* file as stale (LockFileIsMine); a file has one creator, so two such     *)
(* builders are the same.  LockFileIsMine is inductive only together with  *)
(* what the file itself can look like (FileShape) and with the fact that a *)
(* creator that finished writing and still finds its own file finds its    *)
(* own token in it (PayloadIsMine), which is why release() removes it.     *)
(*                                                                         *)
(* Publication takes the lock's steps and steps that leave the lock alone, *)
(* so it implements OutputLock and inherits LockInd.  PubInd adds what the *)
(* with body keeps: nothing has happened in a body not entered yet         *)
(* (BodyNotBegun), and an output judged usable still is (ValidIsUsable).   *)
(* With these every step is a step of ArtifactStore or a stutter, however  *)
(* many builds are in the body at once.                                    *)
(*                                                                         *)
(* The pipeline takes the steps of Publication and steps that leave it     *)
(* alone, so LockInd and PubInd hold inside it.  NativeInd adds:           *)
(*   ExitInd   a build publishes in one stage only, so its stage, its exit *)
(*             code and its outcome tell the same story;                   *)
(*   OrderInd  scratch directories and retained C, by stage;               *)
(*   SoloInd   a build that runs alongside no other finds everything       *)
(*             beside the path as it left it.  This needs overlapped to    *)
(*             name both of any two running builds (OverlapIsNoted) and    *)
(*             that a process that is gone moves nothing (DeadAreOver).    *)
(* Each part is preserved by each action (one lemma per part); the steps   *)
(* of publish_atomically enter through PublishStepEffect.                  *)
(***************************************************************************)
EXTENDS NativeBuild, TLAPS

(* The lock. *)

Entered == {"write", "held"} \union Releasing

FileShape ==
  /\ file.by = NoOwner => file = Absent
  /\ file.owner \in {NoOwner, file.by}

PayloadIsMine ==
  \A b \in Builder :
    file.by = b /\ pc[b] \in {"held"} \union Releasing => file.owner = b

LockFileIsMine ==
  ~reclaimed => \A b \in Builder : pc[b] \in Entered => file.by = b

LockInd ==
  /\ LockTypeOK
  /\ FileShape
  /\ NoOrphanedLock
  /\ PayloadIsMine
  /\ LockFileIsMine

-----------------------------------------------------------------------------

(* The initial state satisfies the invariant. *)
LEMMA LockInitInd == LockInit => LockInd
<1> SUFFICES ASSUME LockInit PROVE LockInd
  OBVIOUS
<1> USE NoOwnerAssumption DEF LockInit, Absent
<1>1. LockTypeOK     BY DEF LockTypeOK, Location
<1>2. FileShape      BY DEF FileShape
<1>3. NoOrphanedLock BY DEF NoOrphanedLock
<1>4. PayloadIsMine  BY DEF PayloadIsMine
<1>5. LockFileIsMine BY DEF LockFileIsMine, Entered, Releasing
<1>6. QED BY <1>1, <1>2, <1>3, <1>4, <1>5 DEF LockInd

(* The steps of acquire() preserve the invariant. *)
LEMMA AcquireInd ==
  ASSUME LockInd, NEW b \in Builder, Acquire(b)
  PROVE  LockInd'
<1> USE NoOwnerAssumption
    DEF LockInd, LockTypeOK, FileShape, NoOrphanedLock, PayloadIsMine,
        LockFileIsMine, Entered, Absent, LockFile, Location, Acquiring,
        Releasing, Over, Goto
<1>1. CASE ReadOwner(b)   BY <1>1 DEF ReadOwner
<1>2. CASE JudgeStale(b)  BY <1>2 DEF JudgeStale
<1>3. CASE JudgeLive(b)   BY <1>3 DEF JudgeLive
<1>4. CASE GiveUp(b)      BY <1>4 DEF GiveUp
<1>5. CASE RemoveStale(b) BY <1>5 DEF RemoveStale
<1>6. CASE CreateWins(b)  BY <1>6 DEF CreateWins
<1>7. CASE CreateLoses(b) BY <1>7 DEF CreateLoses
<1>8. CASE WritePayload(b)
  <2>1. CASE file.by = b  BY <1>8, <2>1 DEF WritePayload
  <2>2. CASE file.by # b  BY <1>8, <2>2 DEF WritePayload
  <2>3. QED BY <2>1, <2>2
<1>9. QED
  BY <1>1, <1>2, <1>3, <1>4, <1>5, <1>6, <1>7, <1>8 DEF Acquire

(* Entering acquire(), leaving the with body and the two steps of          *)
(* release() preserve the invariant.                                       *)
LEMMA ReleaseInd ==
  ASSUME LockInd, NEW b \in Builder, Begin(b) \/ Leave(b) \/ Release(b)
  PROVE  LockInd'
<1> USE NoOwnerAssumption
    DEF LockInd, LockTypeOK, FileShape, NoOrphanedLock, PayloadIsMine,
        LockFileIsMine, Entered, Absent, Location, Acquiring,
        Releasing, Over, Goto
<1>1. CASE Begin(b)      BY <1>1 DEF Begin
<1>2. CASE Leave(b)      BY <1>2 DEF Leave
<1>3. CASE CheckOwner(b) BY <1>3 DEF CheckOwner, OwnsFile
<1>4. CASE Unlink(b)     BY <1>4 DEF Unlink
<1>5. QED BY <1>1, <1>2, <1>3, <1>4 DEF Release

(* Whatever the environment does preserves the invariant. *)
LEMMA EnvironmentInd ==
  ASSUME LockInd, LockEnvironment
  PROVE  LockInd'
<1> USE NoOwnerAssumption
    DEF LockInd, LockTypeOK, FileShape, NoOrphanedLock, PayloadIsMine,
        LockFileIsMine, Entered, Absent, Location, Acquiring,
        Releasing, Over, Goto
<1>1. ASSUME NEW b \in Builder, DeadlinePasses(b) PROVE LockInd'
  BY <1>1 DEF DeadlinePasses
<1>2. ASSUME NEW b \in Builder, GrowsOld(b) PROVE LockInd'
  BY <1>2 DEF GrowsOld
<1>3. ASSUME NEW b \in Builder, WriteFails(b) PROVE LockInd'
  BY <1>3 DEF WriteFails
<1>4. ASSUME NEW p \in Pid, ProcessExits(p) PROVE LockInd'
  BY <1>4 DEF ProcessExits
<1>5. ASSUME NEW p \in Pid, Crash(p) PROVE LockInd'
  BY <1>5 DEF Crash
<1>6. QED BY <1>1, <1>2, <1>3, <1>4, <1>5 DEF LockEnvironment

LEMMA LockStepInd == LockInd /\ [LockNext]_lockVars => LockInd'
<1> SUFFICES ASSUME LockInd, [LockNext]_lockVars PROVE LockInd'
  OBVIOUS
<1>1. CASE UNCHANGED lockVars
  BY <1>1
  DEF LockInd, LockTypeOK, FileShape, NoOrphanedLock, PayloadIsMine,
      LockFileIsMine, lockVars
<1>2. CASE LockNext
  BY <1>2, AcquireInd, ReleaseInd, EnvironmentInd DEF LockNext
<1>3. QED BY <1>1, <1>2

(* The inductive invariant holds in every reachable state. *)
THEOREM LockInvariant == LockSpec => []LockInd
BY LockInitInd, LockStepInd, PTL DEF LockSpec

(* Every reachable state is well typed. *)
THEOREM LockTypeCorrect == LockSpec => []LockTypeOK
<1>1. LockInd => LockTypeOK BY DEF LockInd
<1>2. QED BY <1>1, LockInvariant, PTL

(* Two builders hold the lock at once only after an acquirer has removed a *)
(* lock file it judged stale.                                              *)
THEOREM MutualExclusionUntilReclaim == LockSpec => []ExclusiveUntilReclaim
<1>1. LockInd => ExclusiveUntilReclaim
  BY DEF LockInd, LockFileIsMine, ExclusiveUntilReclaim, Holders, Entered
<1>2. QED BY <1>1, LockInvariant, PTL

(* A build that ends normally leaves no lock file of its own, whatever was *)
(* reclaimed from it or by it.                                             *)
THEOREM LockCleansUp == LockSpec => []NoOrphanedLock
<1>1. LockInd => NoOrphanedLock BY DEF LockInd
<1>2. QED BY <1>1, LockInvariant, PTL

(* No step takes the lock file from a builder that writes, holds or checks *)
(* it, before the first removal of a stale file.                           *)
THEOREM LockStaysWithOwner == LockSpec => LockNotStolen
<1> DEFINE Kept ==
      ~reclaimed' /\ file # Absent /\ pc[file.by] \in {"write", "held", "check"}
        => file'.by = file.by
<1>1. LockInd /\ [LockNext]_lockVars => [Kept]_lockVars
  <2> SUFFICES ASSUME LockInd, LockNext,
                      ~reclaimed', file # Absent,
                      pc[file.by] \in {"write", "held", "check"}
               PROVE  file'.by = file.by
    OBVIOUS
  <2> USE DEF LockInd, LockTypeOK, Absent
  <2>1. ASSUME NEW b \in Builder, Acquire(b) PROVE file'.by = file.by
    <3>1. CASE RemoveStale(b)   BY <3>1 DEF RemoveStale
    <3>2. CASE CreateWins(b)    BY <3>2 DEF CreateWins
    <3>3. CASE WritePayload(b)
      <4>1. CASE file.by = b    BY <3>3, <4>1 DEF WritePayload, LockFile
      <4>2. CASE file.by # b    BY <3>3, <4>2 DEF WritePayload
      <4>3. QED BY <4>1, <4>2
    <3>4. CASE file' = file     BY <3>4
    <3>5. QED
      BY <2>1, <3>1, <3>2, <3>3, <3>4
      DEF Acquire, ReadOwner, JudgeStale, JudgeLive, GiveUp, CreateLoses
  <2>2. ASSUME NEW b \in Builder, Begin(b) \/ Leave(b) \/ CheckOwner(b)
        PROVE  file'.by = file.by
    BY <2>2 DEF Begin, Leave, CheckOwner
  <2>3. ASSUME NEW b \in Builder, Unlink(b) PROVE file'.by = file.by
    <3>1. pc[b] = "unlink" /\ reclaimed' = reclaimed
      BY <2>3 DEF Unlink, Goto
    <3>2. file.by = b
      BY <3>1 DEF LockFileIsMine, Entered, Releasing
    <3>3. QED BY <3>1, <3>2
  <2>4. ASSUME LockEnvironment PROVE file'.by = file.by
    BY <2>4
    DEF LockEnvironment, DeadlinePasses, GrowsOld, WriteFails, ProcessExits, Crash
  <2>5. QED BY <2>1, <2>2, <2>3, <2>4 DEF LockNext, Release
<1>2. QED BY <1>1, LockInvariant, PTL DEF LockSpec, LockNotStolen

-----------------------------------------------------------------------------
(* The publication. *)

BodyNotBegun ==
  \A b \in Builder :
    pc[b] \in {"idle", "timed_out", "failed"} \union Acquiring
      => outcome[b] = "none"

ValidIsUsable ==
  \A b \in Builder : outcome[b] = "valid" => tmp[b] = "usable"

PubInd == PubTypeOK /\ BodyNotBegun /\ ValidIsUsable

-----------------------------------------------------------------------------

(* Every step of the publication is a step of the lock or leaves it alone. *)
LEMMA PubStepIsLockStep == [PubNext]_pubState => [LockNext]_lockVars
<1> SUFFICES ASSUME [PubNext]_pubState PROVE [LockNext]_lockVars
  OBVIOUS
<1>1. CASE UNCHANGED pubState BY <1>1 DEF pubState
<1>2. ASSUME NEW b \in Builder, HostCompile(b) \/ Body(b)
      PROVE  UNCHANGED lockVars
  BY <1>2 DEF HostCompile, Body, Validate, Replace, ReplaceFails
<1>3. ASSUME NEW b \in Builder, LockStep(b) \/ LeaveBody(b)
      PROVE  LockNext
  BY <1>3 DEF LockStep, LeaveBody, LockNext
<1>4. ASSUME LockEnvironment PROVE LockNext
  BY <1>4 DEF LockNext
<1>5. QED BY <1>1, <1>2, <1>3, <1>4 DEF PubNext

(* A publication behaves as the lock does, so all that is proved of the    *)
(* lock holds of it.                                                       *)
THEOREM PublicationUsesLock == PubSpec => LockSpec
<1>1. PubInit => LockInit BY DEF PubInit
<1>2. QED BY <1>1, PubStepIsLockStep, PTL DEF PubSpec, LockSpec

-----------------------------------------------------------------------------

LEMMA PubInitInd == PubInit => PubInd
<1> SUFFICES ASSUME PubInit PROVE PubInd
  OBVIOUS
<1>1. LockTypeOK BY LockInitInd DEF PubInit, LockInd
<1>2. QED
  BY <1>1
  DEF PubInit, PubInd, PubTypeOK, TmpState, Outcome, BodyNotBegun, ValidIsUsable

(* What the lock's own steps do to the program counters: nobody enters the *)
(* acquiring part from inside the body.                                    *)
LEMMA BackOnlyFromOutside ==
  ASSUME LockTypeOK, LockNext, NEW b \in Builder,
         pc'[b] \in {"idle", "timed_out", "failed"} \union Acquiring
  PROVE  pc[b] \in {"idle", "timed_out", "failed"} \union Acquiring
<1> USE DEF LockTypeOK, Acquiring, Goto
<1>1. ASSUME NEW c \in Builder, Begin(c) \/ Leave(c) \/ Release(c)
      PROVE  pc[b] \in {"idle", "timed_out", "failed"} \union Acquiring
  BY <1>1 DEF Begin, Leave, Release, CheckOwner, Unlink
<1>2. ASSUME NEW c \in Builder, Acquire(c)
      PROVE  pc[b] \in {"idle", "timed_out", "failed"} \union Acquiring
  BY <1>2
  DEF Acquire, ReadOwner, JudgeStale, JudgeLive, GiveUp, RemoveStale,
      CreateWins, CreateLoses, WritePayload
<1>3. ASSUME LockEnvironment
      PROVE  pc[b] \in {"idle", "timed_out", "failed"} \union Acquiring
  BY <1>3
  DEF LockEnvironment, DeadlinePasses, GrowsOld, WriteFails, ProcessExits, Crash
<1>4. QED BY <1>1, <1>2, <1>3 DEF LockNext

LEMMA PubStepInd == PubInd /\ LockInd /\ [PubNext]_pubState => PubInd'
<1> SUFFICES ASSUME PubInd, LockInd, [PubNext]_pubState PROVE PubInd'
  OBVIOUS
<1>1. LockTypeOK'
  BY PubStepIsLockStep, LockStepInd DEF LockInd
<1> USE DEF PubInd, PubTypeOK, TmpState, Outcome, BodyNotBegun, ValidIsUsable
<1>2. CASE UNCHANGED pubVars /\ [LockNext]_lockVars
  <2>1. CASE UNCHANGED lockVars BY <1>1, <1>2, <2>1 DEF pubVars, lockVars
  <2>2. CASE LockNext
    BY <1>1, <1>2, <2>2, BackOnlyFromOutside DEF pubVars
  <2>3. QED BY <1>2, <2>1, <2>2
<1>3. ASSUME NEW b \in Builder, HostCompile(b) PROVE PubInd'
  BY <1>1, <1>3 DEF HostCompile, lockVars, Acquiring
<1>4. ASSUME NEW b \in Builder, Body(b) PROVE PubInd'
  <2>1. CASE Validate(b)
    BY <1>1, <2>1 DEF Validate, lockVars, Acquiring, IsUsable
  <2>2. CASE Replace(b)
    BY <1>1, <2>2 DEF Replace, lockVars, Acquiring
  <2>3. CASE ReplaceFails(b)
    BY <1>1, <2>3 DEF ReplaceFails, lockVars, Acquiring
  <2>4. QED BY <1>4, <2>1, <2>2, <2>3 DEF Body
<1>5. QED
  BY <1>2, <1>3, <1>4, PubStepIsLockStep
  DEF PubNext, LockStep, LeaveBody, pubState

(* Every reachable state of a publication is well typed. *)
THEOREM PubTypeCorrect == PubSpec => []PubTypeOK
<1>1. PubSpec => []LockInd BY PublicationUsesLock, LockInvariant, PTL
<1>2. PubSpec => []PubInd BY <1>1, PubInitInd, PubStepInd, PTL DEF PubSpec
<1>3. PubInd => PubTypeOK BY DEF PubInd
<1>4. QED BY <1>2, <1>3, PTL

(* Until a lock is reclaimed no other build's rename falls between one     *)
(* build's validation and its rename.                                      *)
THEOREM PublicationTakesTurns == PubSpec => TurnsAreExclusive
<1> DEFINE Turn ==
      \A b \in Builder :
        ~reclaimed' /\ pc[b] = "held" /\ outcome[b] = "valid" /\ final' # final
          => final' = b
<1>1. LockInd /\ [PubNext]_pubState => [Turn]_pubState
  <2> SUFFICES ASSUME LockInd, PubNext, NEW b \in Builder,
                      ~reclaimed', pc[b] = "held", final' # final
               PROVE  final' = b
    OBVIOUS
  <2>1. PICK c \in Builder : Replace(c)
    BY DEF PubNext, HostCompile, LockStep, LeaveBody, Body, Validate,
           ReplaceFails, pubVars
  <2>2. pc[c] = "held" /\ final' = c /\ reclaimed' = reclaimed
    BY <2>1 DEF Replace, lockVars
  <2>3. file.by = b /\ file.by = c
    BY <2>2 DEF LockInd, LockFileIsMine, Entered
  <2>4. QED BY <2>2, <2>3
<1>2. PubSpec => []LockInd BY PublicationUsesLock, LockInvariant, PTL
<1>3. QED BY <1>1, <1>2, PTL DEF PubSpec, TurnsAreExclusive

-----------------------------------------------------------------------------
(* Publication implements ArtifactStore.                                   *)

(* A builder that gave up, failed or was killed stays so. *)
LEMMA LostIsForever ==
  ASSUME LockTypeOK, LockNext, NEW b \in Builder, pc[b] \in Lost
  PROVE  pc'[b] \in Lost
<1> USE DEF LockTypeOK, Lost, Goto
<1>1. ASSUME NEW c \in Builder, Begin(c) \/ Leave(c) \/ Release(c)
      PROVE  pc'[b] \in Lost
  BY <1>1 DEF Begin, Leave, Release, CheckOwner, Unlink
<1>2. ASSUME NEW c \in Builder, Acquire(c) PROVE pc'[b] \in Lost
  BY <1>2
  DEF Acquire, ReadOwner, JudgeStale, JudgeLive, GiveUp, RemoveStale,
      CreateWins, CreateLoses, WritePayload
<1>3. ASSUME LockEnvironment PROVE pc'[b] \in Lost
  BY <1>3
  DEF LockEnvironment, DeadlinePasses, GrowsOld, WriteFails, ProcessExits, Crash
<1>4. QED BY <1>1, <1>2, <1>3 DEF LockNext

StoreUsable  == {b \in Builder : tmp[b] \in {"usable", "moved"}}
StoreVerdict == [b \in Builder |-> Verdict(b)]

(* A step of the lock publishes nothing: it can only lose builds that had  *)
(* no verdict yet.                                                         *)
LEMMA LockStepsOnlyReject ==
  ASSUME LockTypeOK, LockNext, UNCHANGED pubVars
  PROVE  \E losers \in SUBSET Builder : Store!Reject(losers)
<1> DEFINE losers == {b \in Builder : Verdict(b) = "pending" /\ Verdict(b)' = "rejected"}
<1>1. ASSUME NEW b \in Builder, b \notin losers PROVE Verdict(b)' = Verdict(b)
  <2>1. CASE outcome[b] \in Settled
    BY <2>1 DEF Verdict, Settled, pubVars
  <2>2. CASE outcome[b] \notin Settled /\ pc[b] \in Lost
    BY <2>2, LostIsForever DEF Verdict, Settled, Lost, pubVars
  <2>3. CASE outcome[b] \notin Settled /\ pc[b] \notin Lost
    BY <1>1, <2>3 DEF Verdict, Settled, Lost, pubVars
  <2>4. QED BY <2>1, <2>2, <2>3
<1>2. StoreVerdict' =
        [b \in Builder |-> IF b \in losers THEN "rejected" ELSE StoreVerdict[b]]
  BY <1>1 DEF StoreVerdict
<1>3. StoreUsable' = StoreUsable /\ final' = final
  BY DEF StoreUsable, pubVars
<1>4. Store!Reject(losers)
  BY <1>2, <1>3 DEF Store!Reject, StoreVerdict, StoreUsable
<1>5. QED BY <1>4

LEMMA PubStepIsStoreStep ==
  PubInd /\ LockInd /\ [PubNext]_pubState => [Store!StoreNext]_(Store!storeVars)
<1> SUFFICES ASSUME PubInd, LockInd, [PubNext]_pubState
             PROVE  [Store!StoreNext]_(Store!storeVars)
  OBVIOUS
<1> USE DEF PubInd, PubTypeOK, Settled, Lost
<1>1. CASE UNCHANGED pubVars /\ [LockNext]_lockVars
  <2>1. CASE LockNext
    BY <1>1, <2>1, LockStepsOnlyReject DEF Store!StoreNext
  <2>2. CASE UNCHANGED lockVars
    BY <1>1, <2>2 DEF Store!storeVars, Verdict, pubVars, lockVars
  <2>3. QED BY <1>1, <2>1, <2>2
<1>2. ASSUME NEW b \in Builder, HostCompile(b)
      PROVE  [Store!StoreNext]_(Store!storeVars)
  <2>1. Verdict(b) = "pending"
    BY <1>2 DEF HostCompile, BodyNotBegun, Verdict
  <2>2. StoreVerdict' = StoreVerdict /\ final' = final
    BY <1>2 DEF HostCompile, StoreVerdict, Verdict, lockVars
  <2>3. CASE tmp' = [tmp EXCEPT ![b] = "usable"]
    <3>1. StoreUsable' = StoreUsable \union {b}
      BY <2>3 DEF StoreUsable, TmpState
    <3>2. Store!Prepare(b)
      BY <2>1, <2>2, <3>1 DEF Store!Prepare, StoreVerdict, StoreUsable
    <3>3. QED BY <3>2 DEF Store!StoreNext
  <2>4. CASE tmp' = [tmp EXCEPT ![b] = "unusable"]
    <3>1. StoreUsable' = StoreUsable
      BY <1>2, <2>4 DEF HostCompile, StoreUsable, TmpState
    <3>2. QED
      BY <2>2, <3>1 DEF Store!storeVars, StoreVerdict, StoreUsable
  <2>5. QED BY <1>2, <2>3, <2>4 DEF HostCompile
<1>3. ASSUME NEW b \in Builder, Replace(b)
      PROVE  [Store!StoreNext]_(Store!storeVars)
  <2>1. Verdict(b) = "pending" /\ b \in StoreUsable
    BY <1>3 DEF Replace, Verdict, StoreUsable, ValidIsUsable
  <2>2. StoreVerdict' = [StoreVerdict EXCEPT ![b] = "published"]
    <3>1. Verdict(b)' = "published"
      <4>1. outcome'[b] = "published" BY <1>3 DEF Replace
      <4>2. QED BY <4>1 DEF Verdict
    <3>2. ASSUME NEW c \in Builder, c # b PROVE Verdict(c)' = Verdict(c)
      BY <1>3, <3>2 DEF Replace, Verdict, lockVars
    <3>3. QED BY <3>1, <3>2 DEF StoreVerdict
  <2>3. StoreUsable' = StoreUsable
    BY <1>3, <2>1 DEF Replace, StoreUsable
  <2>4. Store!Publish(b)
    BY <1>3, <2>1, <2>2, <2>3 DEF Replace, Store!Publish, StoreVerdict, StoreUsable
  <2>5. QED BY <2>4 DEF Store!StoreNext
<1>4. ASSUME NEW b \in Builder, Validate(b) \/ ReplaceFails(b)
      PROVE  [Store!StoreNext]_(Store!storeVars)
  <2>1. StoreUsable' = StoreUsable /\ final' = final
    BY <1>4 DEF Validate, ReplaceFails, StoreUsable
  <2>2. Verdict(b) = "pending"
    BY <1>4 DEF Validate, ReplaceFails, Verdict
  <2>3. CASE outcome' = [outcome EXCEPT ![b] = "valid"]
    <3>1. StoreVerdict' = StoreVerdict
      BY <1>4, <2>2, <2>3
      DEF Validate, ReplaceFails, StoreVerdict, Verdict, lockVars
    <3>2. QED BY <2>1, <3>1 DEF Store!storeVars, StoreVerdict, StoreUsable
  <2>4. CASE \E r \in {"host_link", "publish_failed"} :
               outcome' = [outcome EXCEPT ![b] = r]
    <3>1. StoreVerdict' =
            [c \in Builder |-> IF c \in {b} THEN "rejected" ELSE StoreVerdict[c]]
      BY <1>4, <2>4 DEF Validate, ReplaceFails, StoreVerdict, Verdict, lockVars
    <3>2. Store!Reject({b})
      BY <2>1, <2>2, <3>1 DEF Store!Reject, StoreVerdict, StoreUsable
    <3>3. QED BY <3>2 DEF Store!StoreNext
  <2>5. QED BY <1>4, <2>3, <2>4 DEF Validate, ReplaceFails
<1>5. QED
  BY <1>1, <1>2, <1>3, <1>4, PubStepIsLockStep
  DEF PubNext, LockStep, LeaveBody, Body, pubState, LockNext

(* Publishing keeps the promise of ArtifactStore for any number of builds  *)
(* and whatever happens to the lock: the rename alone carries it.          *)
THEOREM PublicationImplementsStore == PubSpec => ImplementsStore
<1>1. PubInit => Store!StoreInit
  BY DEF PubInit, LockInit, Store!StoreInit, Verdict, Settled, Lost
<1>2. PubSpec => []LockInd BY PublicationUsesLock, LockInvariant, PTL
<1>3. PubSpec => []PubInd BY <1>2, PubInitInd, PubStepInd, PTL DEF PubSpec
<1>4. QED
  BY <1>1, <1>2, <1>3, PubStepIsStoreStep, PTL
  DEF PubSpec, ImplementsStore, Store!StoreSpec

-----------------------------------------------------------------------------
(* The pipeline. *)

AnyExit == ExitClasses \union {Traceback, Running}

NativeTypeOK ==
  /\ request \in [Builder -> [keep_c : BOOLEAN, coverage : BOOLEAN, record : BOOLEAN]]
  /\ stage \in [Builder -> Stage]
  /\ exit \in [Builder -> AnyExit]
  /\ scratch \subseteq Builder
  /\ keptC \in Builder \union {NoFile}
  /\ covMap \in Builder \union {NoFile}
  /\ hashed \in [Builder -> Builder \union {Prior}]
  /\ record \in Record \union {NoFile}
  /\ removable \in BOOLEAN
  /\ overlapped \subseteq Builder

BeforePublish == {"new", "check", "core", "keep", "scratch", "host"}
AfterPublish  == {"see_stale", "drop_stale", "provenance", "hash", "record"}
AfterKeep     == {"scratch", "host", "publish"} \union AfterPublish
AfterCore     == {"keep"} \union AfterKeep

(* A build has an exit code exactly when it is over. *)
OverHasExit == \A b \in Builder : exit[b] = Running <=> stage[b] # "over"

(* The body of publish_atomically has not begun before the stage that runs *)
(* it, and it has renamed the output once the pipeline is past it.         *)
PublishedInStage ==
  \A b \in Builder :
    /\ stage[b] \in BeforePublish => outcome[b] = "none" /\ pc[b] \in {"idle", "crashed"}
    /\ stage[b] \in AfterPublish => outcome[b] = "published"

FinalIsPublished == \A b \in Builder : final = b => outcome[b] = "published"

(* A process that is gone takes no further step of the lock. *)
DeadAreOver == \A b \in Builder : pc[b] \notin Over => Alive(b)

CKept ==
  \A b \in Builder : request[b].keep_c =>
    /\ stage[b] \in AfterKeep => keptC # NoFile
    /\ exit[b] = ExitCode["host_compile"] => keptC # NoFile

OverlapIsNoted ==
  \A a, b \in Builder : Active(a) /\ Active(b) /\ a # b => a \in overlapped

Solo(b) == Active(b) /\ b \notin overlapped

(* What a build that has the path to itself finds beside it. *)
SoloOwns ==
  \A b \in Builder : Solo(b) =>
    /\ request[b].keep_c /\ stage[b] \in AfterKeep => keptC = b
    /\ request[b].coverage /\ stage[b] \in AfterCore => covMap = b
    /\ stage[b] = "drop_stale" => ~request[b].coverage
    /\ ~request[b].coverage /\ removable /\ stage[b] \in {"provenance", "hash", "record"}
         => covMap = NoFile
    /\ outcome[b] = "published" => final = b
    /\ stage[b] = "record" => hashed[b] = b

ExitInd  == OverHasExit /\ PublishedInStage /\ FinalIsPublished /\ ExitCodeTellsPublication
OrderInd == ScratchIsReleased /\ CKept
SoloInd  == DeadAreOver /\ OverlapIsNoted /\ SoloOwns

NativeInd == NativeTypeOK /\ ExitInd /\ OrderInd /\ SoloInd

-----------------------------------------------------------------------------

(* Every step of the pipeline is a step of the publication or leaves it    *)
(* alone.                                                                  *)
LEMMA NativeStepIsPubStep == [NativeNext]_nativeVars => [PubNext]_pubState
<1> SUFFICES ASSUME [NativeNext]_nativeVars PROVE [PubNext]_pubState
  OBVIOUS
<1>1. CASE UNCHANGED nativeVars BY <1>1 DEF nativeVars
<1>2. ASSUME NEW b \in Builder, HostSucceeds(b) \/ PublishStep(b)
      PROVE  PubNext
  BY <1>2 DEF HostSucceeds, PublishStep, PubNext
<1>3. ASSUME NEW b \in Builder, Start(b) \/ Pipeline(b),
             ~(HostSucceeds(b) \/ PublishStep(b))
      PROVE  UNCHANGED pubState
  BY <1>3
  DEF Start, Pipeline, Check, CoreCompile, Uncaught, KeepC, EnterScratch,
      HostFails, PublishReturns, PublishRaises, SeeStale, DropStale,
      Provenance, HashArtifact, WriteRecord
<1>4. ASSUME NativeEnvironment PROVE PubNext
  BY <1>4 DEF NativeEnvironment, LockEnvironment, PubNext
<1>5. QED BY <1>1, <1>2, <1>3, <1>4 DEF NativeNext, Pipeline

(* The pipeline of several builds publishes as Publication does, so what   *)
(* is proved of publication and of its lock holds inside it.               *)
THEOREM PipelinePublishes == NativeSpec => PubSpec
<1>1. NativeInit => PubInit BY DEF NativeInit
<1>2. QED BY <1>1, NativeStepIsPubStep, PTL DEF NativeSpec, PubSpec

(* Whatever builds of a path do to each other in the pipeline, the path    *)
(* keeps the promise of ArtifactStore.                                     *)
THEOREM PipelineImplementsStore == NativeSpec => ImplementsStore
BY PipelinePublishes, PublicationImplementsStore, PTL

-----------------------------------------------------------------------------

(* The initial state satisfies the invariant. *)
LEMMA NativeInitInd == NativeInit => NativeInd
<1> SUFFICES ASSUME NativeInit PROVE NativeInd
  OBVIOUS
<1> USE NoFileAssumption, PriorAssumption, RequestAssumption
    DEF NativeInit, PubInit, LockInit
<1>1. NativeTypeOK
  BY DEF NativeTypeOK, Stage, AnyExit
<1>2. ExitInd
  BY DEF ExitInd, OverHasExit, PublishedInStage, FinalIsPublished,
         ExitCodeTellsPublication, BeforePublish, AfterPublish, ExitClasses,
         ExitSuccess, ExitCode, Running
<1>3. OrderInd
  BY DEF OrderInd, ScratchIsReleased, CKept, AfterKeep, AfterPublish,
         ExitCode, Running
<1>4. SoloInd
  BY DEF SoloInd, DeadAreOver, OverlapIsNoted, SoloOwns, Solo, Active, Alive
<1>5. QED BY <1>1, <1>2, <1>3, <1>4 DEF NativeInd

(* The codes the phases fail with are error classes, none of them success. *)
LEMMA ErrorCodes ==
  /\ \A phase \in DOMAIN ExitCode :
       ExitCode[phase] \in ExitClasses \ {ExitSuccess, Traceback, Running}
  /\ DOMAIN ExitCode = {"usage", "input", "frontend", "entry", "emit_c",
                        "tool_discovery", "host_compile", "host_link",
                        "runtime", "publish"}
  /\ ExitSuccess \in ExitClasses /\ Traceback \notin ExitClasses
  /\ Running \notin {ExitSuccess, Traceback} \union ExitClasses
BY DEF ExitCode, ExitClasses, ExitSuccess, Traceback, Running

(* What a step of publish_atomically can do: it settles only the outcome   *)
(* of the build that takes it, publishes by renaming that build's output,  *)
(* takes back no publication, and is not taken for a process that is gone. *)
LEMMA PublishStepEffect ==
  ASSUME PubInd, LockInd, DeadAreOver, NEW b \in Builder, PublishStep(b)
  PROVE  /\ stage[b] = "publish" /\ UNCHANGED <<ownVars, dead>>
         /\ Alive(b)
         /\ \A c \in Builder \ {b} : outcome'[c] = outcome[c] /\ pc'[c] = pc[c]
         /\ outcome[b] = "published" => outcome'[b] = "published" /\ final' = final
         /\ \/ final' = final /\ (outcome'[b] = "published" => outcome[b] = "published")
            \/ final' = b /\ outcome'[b] = "published"
<1> USE DEF PubInd, PubTypeOK, LockTypeOK, DeadAreOver, Over, Goto, PublishStep, Alive
<1>1. CASE Begin(b) /\ UNCHANGED pubVars
  BY <1>1 DEF Begin, pubVars
<1>2. CASE Acquire(b) /\ UNCHANGED pubVars
  BY <1>2
  DEF Acquire, ReadOwner, JudgeStale, JudgeLive, GiveUp, RemoveStale,
      CreateWins, CreateLoses, WritePayload, pubVars
<1>3. CASE Release(b) /\ UNCHANGED pubVars
  BY <1>3 DEF Release, CheckOwner, Unlink, pubVars
<1>4. CASE LeaveBody(b)
  BY <1>4 DEF LeaveBody, Leave, pubVars
<1>5. CASE Validate(b)
  BY <1>5 DEF Validate, lockVars
<1>6. CASE Replace(b)
  BY <1>6 DEF Replace, lockVars
<1>7. CASE ReplaceFails(b)
  BY <1>7 DEF ReplaceFails, lockVars
<1>8. QED BY <1>1, <1>2, <1>3, <1>4, <1>5, <1>6, <1>7 DEF LockStep, Body


(* The pipeline keeps its variables well typed. *)
LEMMA TypeStep ==
  ASSUME NativeInd, PubInd, LockInd, NEW b \in Builder, Start(b) \/ Pipeline(b)
  PROVE  NativeTypeOK'
<1> USE ErrorCodes, NoFileAssumption DEF NativeInd, NativeTypeOK, Stage,
        AnyExit, Record, PubInd, PubTypeOK, Step, Finish, Fail, companions,
        pubState, pubVars, lockVars, ownVars
<1>1. CASE Start(b)           BY <1>1 DEF Start
<1>2. CASE Check(b)
  <2>1. CASE Step(b, "check", "core") /\ UNCHANGED scratch
    BY <1>2, <2>1 DEF Check
  <2>2. ASSUME NEW phase \in DOMAIN ExitCode, Fail(b, "check", phase)
        PROVE  NativeTypeOK'
    <3>1. ExitCode[phase] \in AnyExit OBVIOUS
    <3>2. QED BY <1>2, <2>2, <3>1 DEF Check
  <2>3. QED BY <1>2, <2>1, <2>2 DEF Check
<1>3. CASE CoreCompile(b)     BY <1>3 DEF CoreCompile
<1>4. CASE Uncaught(b)        BY <1>4 DEF Uncaught
<1>5. CASE KeepC(b)           BY <1>5 DEF KeepC
<1>6. CASE EnterScratch(b)    BY <1>6 DEF EnterScratch
<1>7. CASE HostSucceeds(b)    BY <1>7 DEF HostSucceeds
<1>8. CASE HostFails(b)       BY <1>8 DEF HostFails
<1>9. CASE PublishStep(b)     BY <1>9 DEF PublishStep
<1>10. CASE PublishReturns(b) BY <1>10 DEF PublishReturns
<1>11. CASE PublishRaises(b)
  <2>1. CASE Fail(b, "publish", "publish")
    <3>1. ExitCode["publish"] \in AnyExit OBVIOUS
    <3>2. QED BY <1>11, <2>1, <3>1 DEF PublishRaises
  <2>2. CASE Finish(b, "publish", Traceback)
    BY <1>11, <2>2 DEF PublishRaises
  <2>3. QED BY <1>11, <2>1, <2>2 DEF PublishRaises
<1>12. CASE SeeStale(b)       BY <1>12 DEF SeeStale
<1>13. CASE DropStale(b)      BY <1>13 DEF DropStale
<1>14. CASE Provenance(b)
  <2>1. CASE Finish(b, "provenance", ExitSuccess)
    BY <1>14, <2>1 DEF Provenance
  <2>2. CASE Step(b, "provenance", "hash") /\ UNCHANGED scratch
    BY <1>14, <2>2 DEF Provenance
  <2>3. QED BY <1>14, <2>1, <2>2 DEF Provenance
<1>15. CASE HashArtifact(b)   BY <1>15 DEF HashArtifact
<1>16. CASE WriteRecord(b)    BY <1>16 DEF WriteRecord
<1>17. QED
  BY <1>1, <1>2, <1>3, <1>4, <1>5, <1>6, <1>7, <1>8, <1>9, <1>10,
     <1>11, <1>12, <1>13, <1>14, <1>15, <1>16
  DEF Pipeline

(* A build gets an exit code in the step that ends it, and never another.  *)
LEMMA OverHasExitStep ==
  ASSUME NativeInd, PubInd, LockInd, NEW b \in Builder, Start(b) \/ Pipeline(b)
  PROVE  OverHasExit'
<1> USE ErrorCodes DEF NativeInd, NativeTypeOK, ExitInd, OverHasExit, Step,
        Finish, Fail, companions, pubState, pubVars, lockVars, ownVars
<1>1. CASE Start(b)           BY <1>1 DEF Start
<1>2. CASE Check(b)           BY <1>2 DEF Check
<1>3. CASE CoreCompile(b)     BY <1>3 DEF CoreCompile
<1>4. CASE Uncaught(b)        BY <1>4 DEF Uncaught
<1>5. CASE KeepC(b)           BY <1>5 DEF KeepC
<1>6. CASE EnterScratch(b)    BY <1>6 DEF EnterScratch
<1>7. CASE HostSucceeds(b)    BY <1>7 DEF HostSucceeds
<1>8. CASE HostFails(b)       BY <1>8 DEF HostFails
<1>9. CASE PublishStep(b)     BY <1>9 DEF PublishStep
<1>10. CASE PublishReturns(b) BY <1>10 DEF PublishReturns
<1>11. CASE PublishRaises(b)  BY <1>11 DEF PublishRaises
<1>12. CASE SeeStale(b)       BY <1>12 DEF SeeStale
<1>13. CASE DropStale(b)      BY <1>13 DEF DropStale
<1>14. CASE Provenance(b)     BY <1>14 DEF Provenance
<1>15. CASE HashArtifact(b)   BY <1>15 DEF HashArtifact
<1>16. CASE WriteRecord(b)    BY <1>16 DEF WriteRecord
<1>17. QED
  BY <1>1, <1>2, <1>3, <1>4, <1>5, <1>6, <1>7, <1>8, <1>9, <1>10,
     <1>11, <1>12, <1>13, <1>14, <1>15, <1>16
  DEF Pipeline

(* The body of publish_atomically runs in the publish stage alone, and the *)
(* pipeline goes past that stage only with the output renamed.             *)
LEMMA InStageStep ==
  ASSUME NativeInd, PubInd, LockInd, NEW b \in Builder, Start(b) \/ Pipeline(b)
  PROVE  PublishedInStage'
<1> USE DEF NativeInd, NativeTypeOK, ExitInd, SoloInd, PublishedInStage,
        BeforePublish, AfterPublish, PubInd, PubTypeOK, Step, Finish, Fail,
        companions, pubState, pubVars, lockVars, ownVars
<1>1. CASE Start(b)           BY <1>1 DEF Start
<1>2. CASE Check(b)           BY <1>2 DEF Check
<1>3. CASE CoreCompile(b)     BY <1>3 DEF CoreCompile
<1>4. CASE Uncaught(b)        BY <1>4 DEF Uncaught
<1>5. CASE KeepC(b)           BY <1>5 DEF KeepC
<1>6. CASE EnterScratch(b)    BY <1>6 DEF EnterScratch
<1>7. CASE HostSucceeds(b)    BY <1>7 DEF HostSucceeds, HostCompile
<1>8. CASE HostFails(b)       BY <1>8 DEF HostFails
<1>9. CASE PublishStep(b)     BY <1>9, PublishStepEffect DEF PublishStep
<1>10. CASE PublishReturns(b) BY <1>10 DEF PublishReturns
<1>11. CASE PublishRaises(b)  BY <1>11 DEF PublishRaises
<1>12. CASE SeeStale(b)       BY <1>12 DEF SeeStale
<1>13. CASE DropStale(b)      BY <1>13 DEF DropStale
<1>14. CASE Provenance(b)     BY <1>14 DEF Provenance
<1>15. CASE HashArtifact(b)   BY <1>15 DEF HashArtifact
<1>16. CASE WriteRecord(b)    BY <1>16 DEF WriteRecord
<1>17. QED
  BY <1>1, <1>2, <1>3, <1>4, <1>5, <1>6, <1>7, <1>8, <1>9, <1>10,
     <1>11, <1>12, <1>13, <1>14, <1>15, <1>16
  DEF Pipeline

(* The path names only builds that renamed their output. *)
LEMMA FinalStep ==
  ASSUME NativeInd, PubInd, LockInd, NEW b \in Builder, Start(b) \/ Pipeline(b)
  PROVE  FinalIsPublished'
<1> USE DEF NativeInd, NativeTypeOK, ExitInd, SoloInd, FinalIsPublished,
        Step, Finish, Fail, companions, pubState, pubVars, lockVars, ownVars
<1>1. CASE Start(b)           BY <1>1 DEF Start
<1>2. CASE Check(b)           BY <1>2 DEF Check
<1>3. CASE CoreCompile(b)     BY <1>3 DEF CoreCompile
<1>4. CASE Uncaught(b)        BY <1>4 DEF Uncaught
<1>5. CASE KeepC(b)           BY <1>5 DEF KeepC
<1>6. CASE EnterScratch(b)    BY <1>6 DEF EnterScratch
<1>7. CASE HostSucceeds(b)    BY <1>7 DEF HostSucceeds, HostCompile
<1>8. CASE HostFails(b)       BY <1>8 DEF HostFails
<1>9. CASE PublishStep(b)     BY <1>9, PublishStepEffect DEF PublishStep
<1>10. CASE PublishReturns(b) BY <1>10 DEF PublishReturns
<1>11. CASE PublishRaises(b)  BY <1>11 DEF PublishRaises
<1>12. CASE SeeStale(b)       BY <1>12 DEF SeeStale
<1>13. CASE DropStale(b)      BY <1>13 DEF DropStale
<1>14. CASE Provenance(b)     BY <1>14 DEF Provenance
<1>15. CASE HashArtifact(b)   BY <1>15 DEF HashArtifact
<1>16. CASE WriteRecord(b)    BY <1>16 DEF WriteRecord
<1>17. QED
  BY <1>1, <1>2, <1>3, <1>4, <1>5, <1>6, <1>7, <1>8, <1>9, <1>10,
     <1>11, <1>12, <1>13, <1>14, <1>15, <1>16
  DEF Pipeline

(* Every step that gives an exit code gives the one that fits the outcome. *)
LEMMA TellsStep ==
  ASSUME NativeInd, PubInd, LockInd, NEW b \in Builder, Start(b) \/ Pipeline(b)
  PROVE  ExitCodeTellsPublication'
<1> USE ErrorCodes DEF NativeInd, NativeTypeOK, ExitInd, SoloInd,
        OverHasExit, FinalIsPublished, PublishedInStage,
        ExitCodeTellsPublication, BeforePublish, AfterPublish, Step, Finish,
        Fail, companions, pubState, pubVars, lockVars, ownVars
<1>1. CASE Start(b)           BY <1>1 DEF Start
<1>2. CASE Check(b)           BY <1>2 DEF Check
<1>3. CASE CoreCompile(b)     BY <1>3 DEF CoreCompile
<1>4. CASE Uncaught(b)        BY <1>4 DEF Uncaught
<1>5. CASE KeepC(b)           BY <1>5 DEF KeepC
<1>6. CASE EnterScratch(b)    BY <1>6 DEF EnterScratch
<1>7. CASE HostSucceeds(b)    BY <1>7 DEF HostSucceeds, HostCompile
<1>8. CASE HostFails(b)       BY <1>8 DEF HostFails
<1>9. CASE PublishStep(b)     BY <1>9, PublishStepEffect DEF PublishStep
<1>10. CASE PublishReturns(b) BY <1>10 DEF PublishReturns
<1>11. CASE PublishRaises(b)
  <2>1. CASE outcome[b] = "publish_failed" /\ Fail(b, "publish", "publish")
    BY <1>11, <2>1 DEF PublishRaises
  <2>2. CASE Finish(b, "publish", Traceback)
    BY <1>11, <2>2 DEF PublishRaises
  <2>3. QED BY <1>11, <2>1, <2>2 DEF PublishRaises
<1>12. CASE SeeStale(b)       BY <1>12 DEF SeeStale
<1>13. CASE DropStale(b)      BY <1>13 DEF DropStale
<1>14. CASE Provenance(b)     BY <1>14 DEF Provenance
<1>15. CASE HashArtifact(b)   BY <1>15 DEF HashArtifact
<1>16. CASE WriteRecord(b)    BY <1>16 DEF WriteRecord
<1>17. QED
  BY <1>1, <1>2, <1>3, <1>4, <1>5, <1>6, <1>7, <1>8, <1>9, <1>10,
     <1>11, <1>12, <1>13, <1>14, <1>15, <1>16
  DEF Pipeline

(* Every step out of the with block removes the scratch directory, and no  *)
(* step removes retained C.                                                *)
LEMMA OrderStep ==
  ASSUME NativeInd, PubInd, LockInd, NEW b \in Builder, Start(b) \/ Pipeline(b)
  PROVE  OrderInd'
<1> USE NoFileAssumption DEF NativeInd, NativeTypeOK, ExitInd, OverHasExit, OrderInd,
        ScratchIsReleased, CKept, AfterKeep, AfterPublish, ExitCode,
        ExitSuccess, Traceback, Running, Step, Finish, Fail, companions,
        pubState, pubVars, lockVars, ownVars
<1>1. CASE Start(b)           BY <1>1 DEF Start
<1>2. CASE Check(b)           BY <1>2 DEF Check
<1>3. CASE CoreCompile(b)     BY <1>3 DEF CoreCompile
<1>4. CASE Uncaught(b)        BY <1>4 DEF Uncaught
<1>5. CASE KeepC(b)           BY <1>5 DEF KeepC
<1>6. CASE EnterScratch(b)    BY <1>6 DEF EnterScratch
<1>7. CASE HostSucceeds(b)    BY <1>7 DEF HostSucceeds
<1>8. CASE HostFails(b)       BY <1>8 DEF HostFails
<1>9. CASE PublishStep(b)     BY <1>9 DEF PublishStep
<1>10. CASE PublishReturns(b) BY <1>10 DEF PublishReturns
<1>11. CASE PublishRaises(b)  BY <1>11 DEF PublishRaises
<1>12. CASE SeeStale(b)       BY <1>12 DEF SeeStale
<1>13. CASE DropStale(b)      BY <1>13 DEF DropStale
<1>14. CASE Provenance(b)     BY <1>14 DEF Provenance
<1>15. CASE HashArtifact(b)   BY <1>15 DEF HashArtifact
<1>16. CASE WriteRecord(b)    BY <1>16 DEF WriteRecord
<1>17. QED
  BY <1>1, <1>2, <1>3, <1>4, <1>5, <1>6, <1>7, <1>8, <1>9, <1>10,
     <1>11, <1>12, <1>13, <1>14, <1>15, <1>16
  DEF Pipeline

(* Only a live process moves in the lock. *)
LEMMA DeadStep ==
  ASSUME NativeInd, PubInd, LockInd, NEW b \in Builder, Start(b) \/ Pipeline(b)
  PROVE  DeadAreOver'
<1> USE DEF NativeInd, SoloInd, DeadAreOver, Alive, PubInd, PubTypeOK,
        LockTypeOK, Step, Finish, Fail, companions, pubState, pubVars,
        lockVars, ownVars
<1>1. CASE Start(b)           BY <1>1 DEF Start
<1>2. CASE Check(b)           BY <1>2 DEF Check
<1>3. CASE CoreCompile(b)     BY <1>3 DEF CoreCompile
<1>4. CASE Uncaught(b)        BY <1>4 DEF Uncaught
<1>5. CASE KeepC(b)           BY <1>5 DEF KeepC
<1>6. CASE EnterScratch(b)    BY <1>6 DEF EnterScratch
<1>7. CASE HostSucceeds(b)    BY <1>7 DEF HostSucceeds, HostCompile
<1>8. CASE HostFails(b)       BY <1>8 DEF HostFails
<1>9. CASE PublishStep(b)     BY <1>9, PublishStepEffect DEF PublishStep
<1>10. CASE PublishReturns(b) BY <1>10 DEF PublishReturns
<1>11. CASE PublishRaises(b)  BY <1>11 DEF PublishRaises
<1>12. CASE SeeStale(b)       BY <1>12 DEF SeeStale
<1>13. CASE DropStale(b)      BY <1>13 DEF DropStale
<1>14. CASE Provenance(b)     BY <1>14 DEF Provenance
<1>15. CASE HashArtifact(b)   BY <1>15 DEF HashArtifact
<1>16. CASE WriteRecord(b)    BY <1>16 DEF WriteRecord
<1>17. QED
  BY <1>1, <1>2, <1>3, <1>4, <1>5, <1>6, <1>7, <1>8, <1>9, <1>10,
     <1>11, <1>12, <1>13, <1>14, <1>15, <1>16
  DEF Pipeline

(* A build that starts beside running ones is noted, and so are they. *)
LEMMA OverlapStep ==
  ASSUME NativeInd, PubInd, LockInd, NEW b \in Builder, Start(b) \/ Pipeline(b)
  PROVE  OverlapIsNoted'
<1> USE DEF NativeInd, NativeTypeOK, SoloInd, OverlapIsNoted, Active, Alive,
        Step, Finish, Fail, companions, pubState, pubVars, lockVars, ownVars
<1>1. CASE Start(b)           BY <1>1 DEF Start
<1>2. CASE Check(b)           BY <1>2 DEF Check
<1>3. CASE CoreCompile(b)     BY <1>3 DEF CoreCompile
<1>4. CASE Uncaught(b)        BY <1>4 DEF Uncaught
<1>5. CASE KeepC(b)           BY <1>5 DEF KeepC
<1>6. CASE EnterScratch(b)    BY <1>6 DEF EnterScratch
<1>7. CASE HostSucceeds(b)    BY <1>7 DEF HostSucceeds, HostCompile
<1>8. CASE HostFails(b)       BY <1>8 DEF HostFails
<1>9. CASE PublishStep(b)     BY <1>9, PublishStepEffect DEF PublishStep
<1>10. CASE PublishReturns(b) BY <1>10 DEF PublishReturns
<1>11. CASE PublishRaises(b)  BY <1>11 DEF PublishRaises
<1>12. CASE SeeStale(b)       BY <1>12 DEF SeeStale
<1>13. CASE DropStale(b)      BY <1>13 DEF DropStale
<1>14. CASE Provenance(b)     BY <1>14 DEF Provenance
<1>15. CASE HashArtifact(b)   BY <1>15 DEF HashArtifact
<1>16. CASE WriteRecord(b)    BY <1>16 DEF WriteRecord
<1>17. QED
  BY <1>1, <1>2, <1>3, <1>4, <1>5, <1>6, <1>7, <1>8, <1>9, <1>10,
     <1>11, <1>12, <1>13, <1>14, <1>15, <1>16
  DEF Pipeline

(* Nobody but the build itself writes beside the path while it is alone. *)
LEMMA OwnsStep ==
  ASSUME NativeInd, PubInd, LockInd, NEW b \in Builder, Start(b) \/ Pipeline(b)
  PROVE  SoloOwns'
<1> USE DEF NativeInd, NativeTypeOK, SoloInd, OverlapIsNoted, SoloOwns,
        Solo, Active, Alive, ExitInd, PublishedInStage, BeforePublish,
        AfterPublish, AfterKeep, AfterCore, Step, Finish, Fail, companions,
        pubState, pubVars, lockVars, ownVars
<1>1. CASE Start(b)           BY <1>1 DEF Start
<1>2. CASE Check(b)           BY <1>2 DEF Check
<1>3. CASE CoreCompile(b)     BY <1>3 DEF CoreCompile
<1>4. CASE Uncaught(b)        BY <1>4 DEF Uncaught
<1>5. CASE KeepC(b)           BY <1>5 DEF KeepC
<1>6. CASE EnterScratch(b)    BY <1>6 DEF EnterScratch
<1>7. CASE HostSucceeds(b)    BY <1>7 DEF HostSucceeds, HostCompile
<1>8. CASE HostFails(b)       BY <1>8 DEF HostFails
<1>9. CASE PublishStep(b)     BY <1>9, PublishStepEffect DEF PublishStep
<1>10. CASE PublishReturns(b) BY <1>10 DEF PublishReturns
<1>11. CASE PublishRaises(b)  BY <1>11 DEF PublishRaises
<1>12. CASE SeeStale(b)       BY <1>12 DEF SeeStale
<1>13. CASE DropStale(b)      BY <1>13 DEF DropStale
<1>14. CASE Provenance(b)     BY <1>14 DEF Provenance
<1>15. CASE HashArtifact(b)   BY <1>15 DEF HashArtifact
<1>16. CASE WriteRecord(b)    BY <1>16 DEF WriteRecord
<1>17. QED
  BY <1>1, <1>2, <1>3, <1>4, <1>5, <1>6, <1>7, <1>8, <1>9, <1>10,
     <1>11, <1>12, <1>13, <1>14, <1>15, <1>16
  DEF Pipeline

(* What happens around the builds preserves the invariant: processes only  *)
(* disappear, and a program counter moves only out of the lock's write.    *)
LEMMA NativeEnvironmentInd ==
  ASSUME NativeInd, PubInd, LockInd, NativeEnvironment
  PROVE  NativeInd'
<1> DEFINE Fading ==
      /\ dead \subseteq dead'
      /\ \A b \in Builder : pc'[b] = pc[b] \/ pc[b] = "write" \/ pc'[b] = "crashed"
<1>1. UNCHANGED <<pubVars, ownVars>> BY DEF NativeEnvironment
<1>2. Fading /\ DeadAreOver'
  <2> USE DEF NativeInd, SoloInd, DeadAreOver, Alive, PubInd, PubTypeOK,
              LockTypeOK, Over, Goto
  <2>1. ASSUME NEW b \in Builder, DeadlinePasses(b) \/ GrowsOld(b) \/ WriteFails(b)
        PROVE  Fading /\ DeadAreOver'
    BY <2>1 DEF DeadlinePasses, GrowsOld, WriteFails
  <2>2. ASSUME NEW p \in Pid, ProcessExits(p) PROVE Fading /\ DeadAreOver'
    BY <2>2 DEF ProcessExits, BuildersOf
  <2>3. ASSUME NEW p \in Pid, Crash(p) PROVE Fading /\ DeadAreOver'
    BY <2>3 DEF Crash, BuildersOf
  <2>4. QED BY <2>1, <2>2, <2>3 DEF NativeEnvironment
<1>3. NativeTypeOK' /\ OrderInd'
  BY <1>1
  DEF NativeInd, NativeTypeOK, OrderInd, ScratchIsReleased, CKept, ownVars
<1>4. ExitInd'
  BY <1>1, <1>2
  DEF NativeInd, ExitInd, OverHasExit, PublishedInStage, FinalIsPublished,
      ExitCodeTellsPublication, pubVars, ownVars
<1>5. SoloInd'
  BY <1>1, <1>2
  DEF NativeInd, SoloInd, OverlapIsNoted, SoloOwns, Solo, Active, Alive,
      pubVars, ownVars
<1>6. QED BY <1>3, <1>4, <1>5 DEF NativeInd

(* Every step preserves the invariant. *)
LEMMA NativeStepInd ==
  NativeInd /\ PubInd /\ LockInd /\ [NativeNext]_nativeVars => NativeInd'
<1> SUFFICES ASSUME NativeInd, PubInd, LockInd, [NativeNext]_nativeVars
             PROVE  NativeInd'
  OBVIOUS
<1>1. CASE UNCHANGED nativeVars
  BY <1>1
  DEF nativeVars, pubState, lockVars, pubVars, ownVars, NativeInd, NativeTypeOK,
      ExitInd, OverHasExit, PublishedInStage, FinalIsPublished,
      ExitCodeTellsPublication, OrderInd, ScratchIsReleased, CKept, SoloInd,
      DeadAreOver, OverlapIsNoted, SoloOwns, Solo, Active, Alive
<1>2. CASE \E b \in Builder : Start(b) \/ Pipeline(b)
  BY <1>2, TypeStep, OverHasExitStep, InStageStep, FinalStep, TellsStep,
     OrderStep, DeadStep, OverlapStep, OwnsStep
  DEF NativeInd, ExitInd, SoloInd
<1>3. CASE NativeEnvironment BY <1>3, NativeEnvironmentInd
<1>4. QED BY <1>1, <1>2, <1>3 DEF NativeNext

(* The inductive invariant holds in every reachable state, beside that of  *)
(* the lock and of publication.                                            *)
THEOREM NativeInvariant == NativeSpec => [](NativeInd /\ PubInd /\ LockInd)
<1>1. NativeSpec => []LockInd
  BY PipelinePublishes, PublicationUsesLock, LockInvariant, PTL
<1>2. PubSpec => []PubInd
  <2>1. PubSpec => []LockInd BY PublicationUsesLock, LockInvariant, PTL
  <2>2. QED BY <2>1, PubInitInd, PubStepInd, PTL DEF PubSpec
<1>3. NativeSpec => []PubInd BY <1>2, PipelinePublishes, PTL
<1>4. QED BY <1>1, <1>3, NativeInitInd, NativeStepInd, PTL DEF NativeSpec

(* A build exits with 0 only when the output path was renamed to its       *)
(* artifact, and with an error class only when it never touched it.        *)
THEOREM ExitCodeIsTrue == NativeSpec => []ExitCodeTellsPublication
<1>1. NativeInd => ExitCodeTellsPublication BY DEF NativeInd, ExitInd
<1>2. QED BY <1>1, NativeInvariant, PTL

(* No path out of the pipeline leaks the scratch directory, and the C that *)
(* was asked for is there after every host-compile failure.                *)
THEOREM FailuresLeaveOrder == NativeSpec => []FailureLeavesOrder
<1>1. NativeInd => FailureLeavesOrder
  BY DEF NativeInd, OrderInd, CKept, SoloInd, SoloOwns, Solo, Active, AfterKeep,
         FailureLeavesOrder, RetainedCSurvivesFailure
<1>2. QED BY <1>1, NativeInvariant, PTL

(* A build that was never alongside another one of the path succeeds only  *)
(* with its own executable and companions there, and no stale map.         *)
THEOREM SoloBuildOwnsThePath == NativeSpec => SoloBuildIsConsistent
<1> DEFINE Consistent ==
      \A b \in Builder :
        exit[b] = Running /\ exit'[b] = ExitSuccess /\ b \notin overlapped
          => /\ final' = b
             /\ request[b].keep_c => keptC' = b
             /\ request[b].record => record' = [by |-> b, artifact |-> b]
             /\ request[b].coverage => covMap' = b
             /\ ~request[b].coverage /\ removable => covMap' = NoFile
<1>1. NativeInd /\ PubInd /\ LockInd /\ [NativeNext]_nativeVars => [Consistent]_nativeVars
  <2> SUFFICES ASSUME NativeInd, PubInd, LockInd, NativeNext, NEW b \in Builder,
                      exit[b] = Running, exit'[b] = ExitSuccess, b \notin overlapped
               PROVE  /\ final' = b
                      /\ request[b].keep_c => keptC' = b
                      /\ request[b].record => record' = [by |-> b, artifact |-> b]
                      /\ request[b].coverage => covMap' = b
                      /\ ~request[b].coverage /\ removable => covMap' = NoFile
    OBVIOUS
  <2>1. Running # ExitSuccess BY ErrorCodes
  <2>2. \/ Provenance(b) /\ ~request[b].record
        \/ WriteRecord(b)
    <3> USE <2>1, ErrorCodes DEF NativeInd, NativeTypeOK, Step, Finish, Fail
    <3>1. ~NativeEnvironment BY DEF NativeEnvironment, ownVars
    <3>2. PICK c \in Builder : Start(c) \/ Pipeline(c) BY <3>1 DEF NativeNext
    <3>3. ~(Start(c) \/ KeepC(c) \/ EnterScratch(c) \/ HostSucceeds(c)
            \/ PublishStep(c) \/ PublishReturns(c) \/ SeeStale(c) \/ DropStale(c)
            \/ HashArtifact(c))
      BY DEF Start, KeepC, EnterScratch, HostSucceeds, PublishStep, PublishReturns,
             SeeStale, DropStale, HashArtifact, ownVars
    <3>4. ~(Check(c) \/ CoreCompile(c))
      BY DEF Check, CoreCompile
    <3>5. ~(Uncaught(c) \/ HostFails(c))
      BY DEF Uncaught, HostFails
    <3>6. ~PublishRaises(c)
      BY DEF PublishRaises
    <3>7. QED
      BY <3>2, <3>3, <3>4, <3>5, <3>6 DEF Pipeline, Provenance, WriteRecord
  <2>3. Solo(b) /\ stage[b] \in {"provenance", "record"}
    BY <2>2 DEF Solo, Active, Provenance, WriteRecord, Finish
  <2>4. outcome[b] = "published"
    BY <2>3 DEF NativeInd, ExitInd, PublishedInStage, AfterPublish
  <2> USE <2>3, <2>4 DEF NativeInd, SoloInd, SoloOwns, AfterCore, AfterKeep, AfterPublish
  <2>5. CASE Provenance(b) /\ ~request[b].record
    BY <2>5 DEF Provenance, pubState, pubVars, companions
  <2>6. CASE WriteRecord(b)
    <3>1. hashed[b] = b /\ final = b BY <2>6 DEF WriteRecord, Finish
    <3>2. QED BY <2>6, <3>1 DEF WriteRecord, pubState, pubVars
  <2>7. QED BY <2>2, <2>5, <2>6
<1>2. QED BY <1>1, NativeInvariant, PTL DEF NativeSpec, SoloBuildIsConsistent
=============================================================================
