--------------------------- MODULE CheckoutProofs ---------------------------
(***************************************************************************)
(* What is built, installed and formatted in a checkout somebody works in. *)
(*                                                                         *)
(* Artifacts, for any number of drivers, edits and ticks: a compiler that  *)
(* does not look stale is the one of the sources, and a driver goes on     *)
(* with no other.  The inductive invariant follows one build that nothing  *)
(* disturbs through its stages (Progress): what each stage has produced is *)
(* of the sources as they are, because an edit or another build takes the  *)
(* driver out of alone.                                                    *)
(*                                                                         *)
(* Installation, for any number of changes: a build that gets past the     *)
(* checks of an installed tree is made of files that fit.  Manifests       *)
(* record what stood together (StoodTogether), and the versions of the     *)
(* entry surface only grow, from the snapshot in the tree over the one in  *)
(* the checkout to the driver, each standing for one surface               *)
(* (VersionsGrow), which a module of the tree carries on (ModulesFit).     *)
(*                                                                         *)
(* Formatter, for any batch of texts: the files of the checkout lose and   *)
(* gain blanks only (FormatInv).  Pieces stand one after another with      *)
(* blanks between (PiecesFollow); an edit leaves the text as it was up to  *)
(* a cut, and the cut lies behind every earlier run, so that the edits may *)
(* be made one after another from the last (EditedCuts, AllEditedKeeps).   *)
(* What the code computes from places further on is a recursive function   *)
(* whose being defined has to be shown (RankedRecursion).                  *)
(***************************************************************************)
EXTENDS Artifacts, Installation, Formatter, FiniteSetTheorems, SequenceTheorems, NaturalsInduction,
        WellFoundedInduction, TLAPS

-----------------------------------------------------------------------------
(* Artifacts.                                                              *)

(* What the files of a build hold.                                         *)
Text   == [lib : Nat, main : Nat, patch : Nat, target : {"none", "torn", "c", "vm"}]
Binary == [exec : BOOLEAN, text : Text, mtime : Nat, by : SUBSET Driver]

ArtTypeOK ==
  /\ kind \in {"native", "verify", "vm"} /\ errexit \subseteq Driver
  /\ clock \in Nat
  /\ version \in [Src -> Nat] /\ mtime \in [Src -> Nat]
  /\ main \in Text /\ tu \in Text /\ emitC \in Text
  /\ binary \in Binary
  /\ wrapper \in {"none", "empty", "whole"}
  /\ pc \in [Driver -> Build \union {"start", "check", "proceed", "failed", "skipped", "killed"}]
  /\ got \in [Driver -> Text]
  /\ mixed \subseteq Driver /\ alone \subseteq Driver
  /\ built \in BOOLEAN

(* No file is younger than the clock.                                      *)
PastTimes == mtime["lib"] <= clock /\ binary.mtime <= clock

(* A compiler that is there, runs, and is of the sources as they are.      *)
Sound == binary.exec /\ Current(binary.text)

(* How far a build that nothing disturbs has come.                         *)
Progress(d) ==
  /\ pc[d] = "assemble" => main.main = version["lib"]
  /\ pc[d] = "retarget" =>
       /\ kind = "vm" /\ tu.target = "c"
       /\ tu.lib = version["lib"] /\ tu.main = version["lib"]
  /\ pc[d] = "emit" => Current(tu)
  /\ pc[d] = "emitting" => Current(got[d]) /\ d \notin mixed
  /\ pc[d] = "cc" => Current(emitC)
  /\ pc[d] \in {"link", "linking"} => Current(got[d])
  /\ pc[d] = "linking" => binary.by = {d}
  /\ pc[d] \in {"wrap", "wrapping"} => Sound
  /\ pc[d] = "check" /\ d \in errexit => Sound /\ (Wrapped => wrapper = "whole")

(* While a build is alone nobody else builds, up to its last look at the   *)
(* result.                                                                 *)
Undisturbed ==
  \A d \in alone :
    /\ pc[d] # "start"
    /\ Busy(d) => Progress(d) /\ \A e \in Driver \ {d} : ~Building(e)

(* The inductive invariant.                                                *)
ArtInd == ArtTypeOK /\ PastTimes /\ Undisturbed /\ FreshIsCurrent

(* The invariant holds at first.                                           *)
LEMMA ArtInitInd == ArtInit => ArtInd
<1> SUFFICES ASSUME ArtInit PROVE ArtInd
  OBVIOUS
<1> USE ArtifactsAssumption DEF ArtInit
<1>1. NoText \in Text /\ None \in Binary
  BY DEF NoText, Text, None, Binary
<1>2. ArtTypeOK BY <1>1 DEF ArtTypeOK, Src
<1>3. PastTimes /\ FreshIsCurrent BY DEF PastTimes, FreshIsCurrent, Src, None
<1>4. Undisturbed BY DEF Undisturbed
<1>5. QED BY <1>2, <1>3, <1>4 DEF ArtInd

(* What stands for no text, a torn one and no compiler is of its type.     *)
LEMMA BlankFiles == NoText \in Text /\ Torn \in Text /\ None \in Binary
BY DEF NoText, Torn, Text, None, Binary

(* Every step preserves the types.                                         *)
LEMMA ArtTypeStep ==
  ASSUME ArtInd, ArtNext
  PROVE  ArtTypeOK'
<1> USE BlankFiles DEF ArtInd, ArtTypeOK, Build, Src, BeginsBuild, Reads, fileVars,
        historyVars, Goto, Exit, Forget
<1>1. ASSUME NEW d \in Driver, Ensure(d) \/ SkipFast(d) \/ Check(d) \/ BuildStep(d)
                              \/ StepFails(d) \/ Kill(d) \/ Again(d)
      PROVE  ArtTypeOK'
  <2>1. CASE Ensure(d)      BY <2>1 DEF Ensure
  <2>2. CASE SkipFast(d)    BY <2>2 DEF SkipFast
  <2>3. CASE Check(d)       BY <2>3 DEF Check
  <2>4. CASE DeriveMain(d)
    <3>1. main' \in Text BY <2>4 DEF DeriveMain, NoText, Text
    <3>2. QED BY <2>4, <3>1 DEF DeriveMain
  <2>5. CASE Assemble(d)
    <3>1. tu' \in Text BY <2>5 DEF Assemble, Text
    <3>2. QED BY <2>5, <3>1 DEF Assemble
  <2>6. CASE Retarget(d)
    <3>1. tu' \in Text BY <2>6 DEF Retarget, Text
    <3>2. QED BY <2>6, <3>1 DEF Retarget
  <2>7. CASE OpenEmit(d)    BY <2>7 DEF OpenEmit
  <2>8. CASE FillEmit(d)    BY <2>8 DEF FillEmit
  <2>9. CASE CcReads(d)     BY <2>9 DEF CcReads
  <2>10. CASE OpenLink(d)
    <3>1. binary' \in Binary BY <2>10 DEF OpenLink, None, Binary, NoText, Text
    <3>2. QED BY <2>10, <3>1 DEF OpenLink
  <2>11. CASE FillLink(d)
    <3>1. CASE binary.by = {d}
      <4>1. binary' = [exec |-> TRUE, text |-> got[d], mtime |-> clock, by |-> {}]
        BY <2>11, <3>1 DEF FillLink
      <4>2. binary' \in Binary BY <4>1 DEF Binary
      <4>3. built' \in BOOLEAN BY <2>11, <3>1 DEF FillLink
      <4>4. got' \in [Driver -> Text] /\ pc' = [pc EXCEPT ![d] = IF Wrapped THEN "wrap" ELSE "check"]
        BY <2>11 DEF FillLink
      <4>5. UNCHANGED <<kind, errexit, clock, version, mtime, main, tu, emitC, wrapper, mixed, alone>>
        BY <2>11 DEF FillLink
      <4>6. QED BY <4>2, <4>3, <4>4, <4>5
    <3>2. CASE binary.by # {d}
      BY <2>11, <3>2 DEF FillLink
    <3>3. QED BY <3>1, <3>2
  <2>12. CASE OpenWrap(d)   BY <2>12 DEF OpenWrap
  <2>13. CASE FillWrap(d)   BY <2>13 DEF FillWrap
  <2>14. CASE StepFails(d)  BY <2>14 DEF StepFails
  <2>15. CASE Kill(d)       BY <2>15 DEF Kill
  <2>16. CASE Again(d)      BY <2>16 DEF Again
  <2>17. QED
    BY <1>1, <2>1, <2>2, <2>3, <2>4, <2>5, <2>6, <2>7, <2>8,
       <2>9, <2>10, <2>11, <2>12, <2>13, <2>14, <2>15, <2>16
    DEF BuildStep
<1>2. CASE Tick BY <1>2 DEF Tick
<1>3. ASSUME NEW s \in Src, Edit(s) PROVE ArtTypeOK'
  BY <1>3 DEF Edit
<1>4. QED BY <1>1, <1>2, <1>3 DEF ArtNext

(* Every step leaves the files no younger than the clock.                  *)
LEMMA PastTimesStep ==
  ASSUME ArtInd, ArtNext
  PROVE  PastTimes'
<1> USE DEF ArtInd, ArtTypeOK, PastTimes, Binary, Src, None, fileVars,
        historyVars, Goto, Exit, Forget
<1>1. ASSUME NEW d \in Driver, Ensure(d) \/ SkipFast(d) \/ Check(d) \/ BuildStep(d)
                              \/ StepFails(d) \/ Kill(d) \/ Again(d)
      PROVE  PastTimes'
  <2>1. CASE Ensure(d)      BY <2>1 DEF Ensure
  <2>2. CASE SkipFast(d)    BY <2>2 DEF SkipFast
  <2>3. CASE Check(d)       BY <2>3 DEF Check
  <2>4. CASE DeriveMain(d)  BY <2>4 DEF DeriveMain
  <2>5. CASE Assemble(d)    BY <2>5 DEF Assemble
  <2>6. CASE Retarget(d)    BY <2>6 DEF Retarget
  <2>7. CASE OpenEmit(d)    BY <2>7 DEF OpenEmit
  <2>8. CASE FillEmit(d)    BY <2>8 DEF FillEmit
  <2>9. CASE CcReads(d)     BY <2>9 DEF CcReads
  <2>10. CASE OpenLink(d)   BY <2>10 DEF OpenLink
  <2>11. CASE FillLink(d)   BY <2>11 DEF FillLink
  <2>12. CASE OpenWrap(d)   BY <2>12 DEF OpenWrap
  <2>13. CASE FillWrap(d)   BY <2>13 DEF FillWrap
  <2>14. CASE StepFails(d)  BY <2>14 DEF StepFails
  <2>15. CASE Kill(d)       BY <2>15 DEF Kill
  <2>16. CASE Again(d)      BY <2>16 DEF Again
  <2>17. QED
    BY <1>1, <2>1, <2>2, <2>3, <2>4, <2>5, <2>6, <2>7, <2>8,
       <2>9, <2>10, <2>11, <2>12, <2>13, <2>14, <2>15, <2>16
    DEF BuildStep
<1>2. CASE Tick BY <1>2 DEF Tick
<1>3. ASSUME NEW s \in Src, Edit(s) PROVE PastTimes'
  BY <1>3 DEF Edit
<1>4. QED BY <1>1, <1>2, <1>3 DEF ArtNext

(* Every step preserves the progress of the builds that are alone.         *)
LEMMA UndisturbedStep ==
  ASSUME ArtInd, ArtNext
  PROVE  Undisturbed'
<1> USE BlankFiles DEF ArtInd, ArtTypeOK, Undisturbed, Progress, Busy, Building,
        Build, Current, Sound, Wrapped, Reads, BeginsBuild, Text, Binary, Src,
        fileVars, historyVars, Goto, Exit, Forget
<1>1. ASSUME NEW d \in Driver, Ensure(d) \/ SkipFast(d) \/ Check(d) \/ BuildStep(d)
                              \/ StepFails(d) \/ Kill(d) \/ Again(d)
      PROVE  Undisturbed'
  <2>1. CASE Ensure(d)      BY <2>1 DEF Ensure
  <2>2. CASE SkipFast(d)    BY <2>2 DEF SkipFast
  <2>3. CASE Check(d)       BY <2>3 DEF Check
  <2>4. CASE DeriveMain(d)  BY <2>4 DEF DeriveMain
  <2>5. CASE Assemble(d)    BY <2>5 DEF Assemble
  <2>6. CASE Retarget(d)    BY <2>6 DEF Retarget
  <2>7. CASE OpenEmit(d)    BY <2>7 DEF OpenEmit
  <2>8. CASE FillEmit(d)    BY <2>8 DEF FillEmit
  <2>9. CASE CcReads(d)     BY <2>9 DEF CcReads
  <2>10. CASE OpenLink(d)   BY <2>10 DEF OpenLink
  <2>11. CASE FillLink(d)   BY <2>11 DEF FillLink
  <2>12. CASE OpenWrap(d)   BY <2>12 DEF OpenWrap
  <2>13. CASE FillWrap(d)   BY <2>13 DEF FillWrap
  <2>14. CASE StepFails(d)  BY <2>14 DEF StepFails
  <2>15. CASE Kill(d)       BY <2>15 DEF Kill
  <2>16. CASE Again(d)      BY <2>16 DEF Again
  <2>17. QED
    BY <1>1, <2>1, <2>2, <2>3, <2>4, <2>5, <2>6, <2>7, <2>8,
       <2>9, <2>10, <2>11, <2>12, <2>13, <2>14, <2>15, <2>16
    DEF BuildStep
<1>2. CASE Tick BY <1>2 DEF Tick
<1>3. ASSUME NEW s \in Src, Edit(s) PROVE Undisturbed'
  BY <1>3 DEF Edit
<1>4. QED BY <1>1, <1>2, <1>3 DEF ArtNext

(* A compiler that does not look stale stays current, whatever is built,   *)
(* edited or given up.                                                     *)
LEMMA FreshStep ==
  ASSUME ArtInd, ArtNext
  PROVE  FreshIsCurrent'
<1> USE DEF ArtInd, ArtTypeOK, PastTimes, Undisturbed, Progress, Busy,
        Building, Build, FreshIsCurrent, Stale, Current, Binary, Src, None,
        fileVars, historyVars, Goto, Exit, Forget
<1>1. ASSUME NEW d \in Driver, Ensure(d) \/ SkipFast(d) \/ Check(d) \/ BuildStep(d)
                              \/ StepFails(d) \/ Kill(d) \/ Again(d)
      PROVE  FreshIsCurrent'
  <2>1. CASE Ensure(d)      BY <2>1 DEF Ensure
  <2>2. CASE SkipFast(d)    BY <2>2 DEF SkipFast
  <2>3. CASE Check(d)       BY <2>3 DEF Check
  <2>4. CASE DeriveMain(d)  BY <2>4 DEF DeriveMain
  <2>5. CASE Assemble(d)    BY <2>5 DEF Assemble
  <2>6. CASE Retarget(d)    BY <2>6 DEF Retarget
  <2>7. CASE OpenEmit(d)    BY <2>7 DEF OpenEmit
  <2>8. CASE FillEmit(d)    BY <2>8 DEF FillEmit
  <2>9. CASE CcReads(d)     BY <2>9 DEF CcReads
  <2>10. CASE OpenLink(d)   BY <2>10 DEF OpenLink
  <2>11. CASE FillLink(d)
    <3>1. CASE binary.by = {d}
      <4>1. /\ binary' = [exec |-> TRUE, text |-> got[d], mtime |-> clock, by |-> {}]
            /\ built' = (d \in alone) /\ pc[d] = "linking"
            /\ UNCHANGED <<version, mtime, kind>>
        BY <2>11, <3>1 DEF FillLink
      <4>2. binary'.text = got[d] BY <4>1
      <4>3. d \in alone => Current(got[d]) BY <4>1
      <4>4. QED BY <4>1, <4>2, <4>3
    <3>2. CASE binary.by # {d}
      BY <2>11, <3>2 DEF FillLink
    <3>3. QED BY <3>1, <3>2
  <2>12. CASE OpenWrap(d)   BY <2>12 DEF OpenWrap
  <2>13. CASE FillWrap(d)   BY <2>13 DEF FillWrap
  <2>14. CASE StepFails(d)  BY <2>14 DEF StepFails
  <2>15. CASE Kill(d)       BY <2>15 DEF Kill
  <2>16. CASE Again(d)      BY <2>16 DEF Again
  <2>17. QED
    BY <1>1, <2>1, <2>2, <2>3, <2>4, <2>5, <2>6, <2>7, <2>8,
       <2>9, <2>10, <2>11, <2>12, <2>13, <2>14, <2>15, <2>16
    DEF BuildStep
<1>2. CASE Tick BY <1>2 DEF Tick
<1>3. ASSUME NEW s \in Src, Edit(s) PROVE FreshIsCurrent'
  BY <1>3 DEF Edit
<1>4. QED BY <1>1, <1>2, <1>3 DEF ArtNext

(* Every step preserves the invariant.                                     *)
LEMMA ArtStepInd == ArtInd /\ [ArtNext]_artVars => ArtInd'
<1> SUFFICES ASSUME ArtInd, [ArtNext]_artVars PROVE ArtInd'
  OBVIOUS
<1>1. CASE UNCHANGED artVars
  BY <1>1
  DEF artVars, fileVars, historyVars, ArtInd, ArtTypeOK, PastTimes, Undisturbed, Progress,
      Busy, Building, Current, Sound, Wrapped, FreshIsCurrent, Stale
<1>2. CASE ArtNext
  BY <1>2, ArtTypeStep, PastTimesStep, UndisturbedStep, FreshStep DEF ArtInd
<1>3. QED BY <1>1, <1>2

(* The invariant of the compilers holds in every reachable state.          *)
THEOREM ArtInvariant == ArtSpec => []ArtInd
BY ArtInitInd, ArtStepInd, PTL DEF ArtSpec

(* For any number of drivers, edits and ticks: a compiler that does not    *)
(* look stale is the one of the sources as they are, unless its build was  *)
(* overlapped or an edit fell in its tick.                                 *)
THEOREM FreshCompilersAreCurrent == ArtSpec => []FreshIsCurrent
<1>1. ArtInd => FreshIsCurrent BY DEF ArtInd
<1>2. QED BY <1>1, ArtInvariant, PTL

(* A driver that built the compiler undisturbed goes on with that of the   *)
(* sources: no failure on the way lets it go on with an earlier one.       *)
THEOREM DriversProceedWithCurrent == ArtSpec => ProceedsWithCurrent
<1> DEFINE Proceeds ==
      \A d \in errexit \intersect alone :
        pc[d] = "check" /\ pc'[d] = "proceed"
          => binary.exec /\ Current(binary.text) /\ (Wrapped => wrapper = "whole")
<1>1. ArtInd => Proceeds
  BY DEF ArtInd, ArtTypeOK, Undisturbed, Busy, Building, Build, Progress, Sound
<1>2. QED BY <1>1, ArtInvariant, PTL DEF ArtSpec, ProceedsWithCurrent

-----------------------------------------------------------------------------
(* Installation.                                                           *)

(* One says of the entry surface what the other says, or is of an earlier  *)
(* version.                                                                *)
Precedes(older, newer) ==
  /\ older["entry"] <= newer["entry"]
  /\ older["entry"] = newer["entry"] => older = newer

(* What the files are, as far as they matter.                              *)
Snapshot == [SurfaceField -> Nat]
AnyFile  == Nat \union [abi : Nat, header : Nat, source : Nat] \union Snapshot

PartOf(Names, Values) == UNION {[F -> Values] : F \in SUBSET Names}

TreeType ==
  [driver : PartOf(Field, Nat),
   runtime : PartOf(RuntimeFile, AnyFile),
   compiler : BOOLEAN, launcher : BOOLEAN]

InstallTypeOK ==
  /\ touches \in Nat /\ driver \in [Field -> Nat] /\ hashed \subseteq Nat
  /\ pending \subseteq Module
  /\ runtime \in [RuntimeFile -> AnyFile]
  /\ runtime["header"] \in Nat /\ runtime["source"] \in Nat
  /\ runtime["entry-manifest"] \in Snapshot
  /\ installed \in TreeType
  /\ "entry-manifest" \in DOMAIN installed.runtime =>
       installed.runtime["entry-manifest"] \in Snapshot
  /\ origin \in [SurfaceModule -> SUBSET Snapshot]

(* What manifests record stood together, unless a file was edited while    *)
(* the manifest was written.                                               *)
RecordsStood(manifest) == <<manifest.header, manifest.source>> \in stood

StoodTogether ==
  /\ <<runtime["header"], runtime["source"]>> \in stood
  /\ apart =>
       /\ hashed \subseteq {runtime["header"]}
       /\ RecordsStood(runtime["manifest"])
       /\ "manifest" \in DOMAIN installed.runtime => RecordsStood(installed.runtime["manifest"])

(* Versions of the entry surface only grow, and each stands for one, from  *)
(* the snapshot in the tree over the one in the checkout to the driver.    *)
VersionsGrow ==
  LET snapshot == runtime["entry-manifest"]
  IN /\ snapshot["entry"] <= driver["entry"] /\ driver["entry"] <= touches
     /\ approved => snapshot = Surface
     /\ honest /\ "entry-manifest" \in DOMAIN installed.runtime =>
          Precedes(installed.runtime["entry-manifest"], snapshot)

(* A module of the tree says what the driver said that it was copied from, *)
(* whose surface is that of its version.                                   *)
ModuleFits(m, d) ==
  /\ \A f \in Declares(m) : f \in DOMAIN installed.driver /\ installed.driver[f] = d[f]
  /\ honest =>
       /\ Precedes(d, runtime["entry-manifest"])
       /\ "entry-manifest" \in DOMAIN installed.runtime =>
            LET copied == installed.runtime["entry-manifest"]
            IN copied["entry"] = d["entry"] => copied = d

ModulesFit == \A m \in SurfaceModule : \A d \in origin[m] : ModuleFits(m, d)

(* The inductive invariant.                                                *)
InstallInd == InstallTypeOK /\ StoodTogether /\ VersionsGrow /\ ModulesFit /\ AcceptedTreeFits

(* What one module declares, no other does.                                *)
LEMMA ModulesApart ==
  /\ SurfaceModule \subseteq Module
  /\ \A m \in Module : Declares(m) \subseteq Field /\ Declares(m) # {}
  /\ \A m \in SurfaceModule : Declares(m) \subseteq SurfaceField
  /\ \A m, n \in Module : m # n => Declares(m) \intersect Declares(n) = {}
<1>1. /\ Declares("entry_reserved") = {"symbols"} /\ Declares("entry_abi") = {"shapes", "entry"}
      /\ Declares("runtime_manifest") = {"abi"}
  BY DEF Declares
<1>2. QED BY <1>1 DEF Module, SurfaceModule, SurfaceField, Field

(* The invariant holds at first.                                           *)
LEMMA InstallInitInd == InstallInit => InstallInd
<1> SUFFICES ASSUME InstallInit PROVE InstallInd
  OBVIOUS
<1> USE DEF InstallInit, RuntimeFile, NoTree
<1>1. InstallTypeOK
  <2>1. runtime["entry-manifest"] \in Snapshot /\ runtime["header"] \in Nat /\ runtime["source"] \in Nat
    BY DEF Snapshot
  <2>2. runtime \in [RuntimeFile -> AnyFile]
    BY <2>1 DEF AnyFile, Snapshot
  <2>3. [f \in {} |-> 0] \in [{} -> AnyFile] /\ [f \in {} |-> 0] \in [{} -> Nat]
        /\ DOMAIN [f \in {} |-> 0] = {}
    OBVIOUS
  <2>4. installed \in TreeType BY <2>3 DEF TreeType, PartOf
  <2>5. QED BY <2>1, <2>2, <2>3, <2>4 DEF InstallTypeOK
<1>2. StoodTogether BY DEF StoodTogether, RecordsStood
<1>3. VersionsGrow BY DEF VersionsGrow, Field, SurfaceField
<1>4. ModulesFit BY DEF ModulesFit
<1>5. AcceptedTreeFits BY DEF AcceptedTreeFits
<1>6. QED BY <1>1, <1>2, <1>3, <1>4, <1>5 DEF InstallInd

(* A step of the checkout that leaves the snapshot and the tree preserves  *)
(* what is said of both.                                                   *)
LEMMA TreeKept ==
  ASSUME InstallInd, honest' => honest, UNCHANGED <<installed, origin, accepted>>,
         runtime'["entry-manifest"] = runtime["entry-manifest"],
         stood \subseteq stood', apart' => apart
  PROVE  ModulesFit' /\ AcceptedTreeFits'
<1>1. ModulesFit' BY DEF InstallInd, ModulesFit, ModuleFits, Precedes
<1>2. AcceptedTreeFits' BY DEF InstallInd, AcceptedTreeFits
<1>3. QED BY <1>1, <1>2

(* Every step preserves it.                                                *)
LEMMA InstallStepInd ==
  ASSUME InstallInd, InstallNext
  PROVE  InstallInd'
<1> USE DEF InstallInd, RuntimeFile, Changed, Rewritten, TreeStays, CheckoutStays
<1>0. "entry" \in Field /\ "abi" \in Field /\ SurfaceField \subseteq Field /\ "entry" \in SurfaceField
  BY DEF Field, SurfaceField
<1>1. CASE EditRuntime
  <2> USE <1>1 DEF EditRuntime
  <2>1. InstallTypeOK' BY DEF InstallTypeOK, AnyFile
  <2>2. StoodTogether' BY DEF StoodTogether, RecordsStood, InstallTypeOK
  <2>4. runtime'["entry-manifest"] = runtime["entry-manifest"] BY DEF InstallTypeOK
  <2>3. VersionsGrow'
    <3>1. driver["entry"] <= touches + 1 BY <1>0 DEF VersionsGrow, InstallTypeOK
    <3>2. QED BY <2>4, <3>1 DEF VersionsGrow, Precedes
  <2>5. ModulesFit' /\ AcceptedTreeFits' BY <2>4, TreeKept
  <2>6. QED BY <2>1, <2>2, <2>3, <2>5
<1>2. CASE EditDriver
  <2> USE <1>2 DEF EditDriver
  <2>0. /\ driver' \in [Field -> Nat] /\ driver["entry"] <= driver'["entry"]
        /\ driver'["entry"] <= touches' /\ touches' \in Nat
    BY <1>0 DEF InstallTypeOK, VersionsGrow
  <2>1. InstallTypeOK' BY <2>0 DEF InstallTypeOK
  <2>2. StoodTogether' BY DEF StoodTogether, RecordsStood
  <2>3. VersionsGrow'
    <3>1. runtime["entry-manifest"]["entry"] <= driver'["entry"]
      BY <1>0, <2>0 DEF VersionsGrow, InstallTypeOK, Snapshot
    <3>2. QED BY <2>0, <3>1 DEF VersionsGrow, Precedes
  <2>4. ModulesFit' /\ AcceptedTreeFits' BY TreeKept
  <2>5. QED BY <2>1, <2>2, <2>3, <2>4
<1>3. CASE HashHeader
  <2> USE <1>3 DEF HashHeader
  <2>1. InstallTypeOK' BY DEF InstallTypeOK
  <2>2. StoodTogether' BY DEF StoodTogether, RecordsStood
  <2>3. VersionsGrow' BY <1>0 DEF VersionsGrow, Precedes, InstallTypeOK
  <2>4. ModulesFit' /\ AcceptedTreeFits' BY TreeKept
  <2>5. QED BY <2>1, <2>2, <2>3, <2>4
<1>4. CASE WriteManifest
  <2> USE <1>4 DEF WriteManifest
  <2>0. runtime'["entry-manifest"] = runtime["entry-manifest"] BY DEF InstallTypeOK
  <2>1. InstallTypeOK' BY <1>0 DEF InstallTypeOK, AnyFile
  <2>2. StoodTogether' BY DEF StoodTogether, RecordsStood, InstallTypeOK
  <2>3. VersionsGrow' BY <2>0 DEF VersionsGrow, Precedes
  <2>4. ModulesFit' /\ AcceptedTreeFits' BY <2>0, TreeKept
  <2>5. QED BY <2>1, <2>2, <2>3, <2>4
<1>5. CASE WriteEntryManifest
  <2> USE <1>5 DEF WriteEntryManifest
  <2> DEFINE snapshot == runtime["entry-manifest"]
  <2>0. runtime'["entry-manifest"] = Surface /\ Surface \in Snapshot /\ Surface["entry"] = driver["entry"]
    BY <1>0 DEF InstallTypeOK, Surface, Snapshot
  <2>1. InstallTypeOK' BY <2>0 DEF InstallTypeOK, AnyFile
  <2>2. StoodTogether' BY DEF StoodTogether, RecordsStood, InstallTypeOK
  <2>9. /\ touches' \in {touches, touches + 1} /\ touches \in Nat /\ driver["entry"] \in Nat
        /\ UNCHANGED <<driver, installed, origin, accepted, stood, apart>> /\ approved' = FALSE
    BY <1>0 DEF InstallTypeOK
  <2>3. ASSUME honest', NEW older \in Snapshot, Precedes(older, snapshot)
        PROVE  honest /\ Precedes(older, Surface)
    <3>1. honest /\ (snapshot = Surface \/ snapshot["entry"] # driver["entry"])
      BY <2>3 DEF SurfaceFits
    <3>2. snapshot["entry"] <= driver["entry"] /\ snapshot["entry"] \in Nat /\ driver["entry"] \in Nat
          /\ older["entry"] \in Nat
      BY <1>0, <2>3 DEF VersionsGrow, InstallTypeOK, Snapshot
    <3>3. QED BY <2>0, <2>3, <3>1, <3>2 DEF Precedes
  <2>4. honest' => honest OBVIOUS
  <2>5. VersionsGrow'
    <3>1. Surface["entry"] <= driver["entry"] /\ driver["entry"] <= touches
      BY <1>0, <2>0 DEF VersionsGrow, InstallTypeOK
    <3>2. honest' /\ "entry-manifest" \in DOMAIN installed.runtime =>
            Precedes(installed.runtime["entry-manifest"], Surface)
      BY <2>3, <2>4 DEF VersionsGrow, InstallTypeOK
    <3>3. driver["entry"] <= touches' BY <2>9, <3>1
    <3>4. QED BY <2>0, <2>9, <3>1, <3>2, <3>3 DEF VersionsGrow, Precedes
  <2>6. ModulesFit'
    <3> SUFFICES ASSUME NEW m \in SurfaceModule, NEW d \in origin[m] PROVE ModuleFits(m, d)'
      BY DEF ModulesFit
    <3>1. ModuleFits(m, d) /\ d \in Snapshot BY DEF ModulesFit, InstallTypeOK
    <3>2. honest' => Precedes(d, Surface) BY <2>3, <2>4, <3>1 DEF ModuleFits
    <3>3. QED BY <2>0, <2>4, <3>1, <3>2 DEF ModuleFits, Precedes
  <2>7. AcceptedTreeFits' BY DEF AcceptedTreeFits
  <2>8. QED BY <2>1, <2>2, <2>5, <2>6, <2>7
<1>6. CASE RunInstallGuards
  <2> USE <1>6 DEF RunInstallGuards
  <2>1. InstallTypeOK' BY DEF InstallTypeOK
  <2>2. StoodTogether' BY DEF StoodTogether, RecordsStood
  <2>3. VersionsGrow' BY DEF VersionsGrow, Surface, SurfaceFits, EntryFits, Precedes
  <2>4. ModulesFit' /\ AcceptedTreeFits' BY TreeKept
  <2>5. QED BY <2>1, <2>2, <2>3, <2>4
<1>7. CASE BeginInstall \/ MakeRuntime \/ InstallerKilled
  <2> USE <1>7 DEF BeginInstall, MakeRuntime, InstallerKilled
  <2>1. InstallTypeOK' BY DEF InstallTypeOK
  <2>2. StoodTogether' BY DEF StoodTogether, RecordsStood
  <2>3. VersionsGrow' BY DEF VersionsGrow, Surface, Precedes
  <2>4. ModulesFit' /\ AcceptedTreeFits' BY TreeKept
  <2>5. QED BY <2>1, <2>2, <2>3, <2>4
<1>8. ASSUME NEW m \in Module, CopyModule(m) PROVE InstallInd'
  <2> USE <1>8 DEF CopyModule
  <2> DEFINE was == installed.driver
  <2>0. /\ installed' = [installed EXCEPT !.driver = Overlaid(was, Declares(m), driver)]
        /\ installed \in TreeType /\ Declares(m) \subseteq Field /\ driver \in [Field -> Nat]
        /\ was \in PartOf(Field, Nat)
    BY ModulesApart DEF InstallTypeOK, TreeType
  <2>1. /\ Overlaid(was, Declares(m), driver) \in PartOf(Field, Nat)
        /\ DOMAIN Overlaid(was, Declares(m), driver) = DOMAIN was \union Declares(m)
        /\ \A f \in DOMAIN was \union Declares(m) :
             Overlaid(was, Declares(m), driver)[f] = IF f \in Declares(m) THEN driver[f] ELSE was[f]
    <3>1. PICK F \in SUBSET Field : was \in [F -> Nat] BY <2>0 DEF PartOf
    <3>2. Overlaid(was, Declares(m), driver) \in [F \union Declares(m) -> Nat]
      BY <2>0, <3>1 DEF Overlaid
    <3>3. F \union Declares(m) \in SUBSET Field BY <2>0
    <3>4. Overlaid(was, Declares(m), driver) \in PartOf(Field, Nat)
      BY ONLY <3>2, <3>3 DEF PartOf
    <3>5. QED BY <3>4 DEF Overlaid
  <2>2. /\ installed'.driver = Overlaid(was, Declares(m), driver) /\ installed'.runtime = installed.runtime
        /\ installed' \in TreeType
    BY <2>0, <2>1 DEF TreeType
  <2>3. Surface \in Snapshot /\ \A n \in SurfaceModule : \A f \in Declares(n) : Surface[f] = driver[f]
    BY <1>0, <2>0, ModulesApart DEF Surface, Snapshot
  <2>4. origin' \in [SurfaceModule -> SUBSET Snapshot]
        /\ \A n \in SurfaceModule : origin'[n] = IF n = m THEN (IF approved THEN {Surface} ELSE {}) ELSE origin[n]
    BY <2>3 DEF InstallTypeOK, CopiedFrom
  <2>5. InstallTypeOK' BY <2>2, <2>4 DEF InstallTypeOK
  <2>6. StoodTogether' BY <2>2 DEF StoodTogether, RecordsStood
  <2>7. VersionsGrow' BY <2>2 DEF VersionsGrow, Surface, Precedes
  <2>8. ModulesFit'
    <3> SUFFICES ASSUME NEW n \in SurfaceModule, NEW d \in origin'[n] PROVE ModuleFits(n, d)'
      BY DEF ModulesFit
    <3>1. CASE n = m
      <4>0. d \in (IF approved THEN {Surface} ELSE {}) BY <2>4, <3>1
      <4>1. approved /\ d = Surface /\ runtime["entry-manifest"] = Surface BY <4>0 DEF VersionsGrow
      <4>2. \A f \in Declares(m) : f \in DOMAIN installed'.driver /\ installed'.driver[f] = Surface[f]
        BY <2>1, <2>2, <2>3, <3>1
      <4>3. Precedes(Surface, Surface)
        BY <1>0, <2>3 DEF Precedes, Snapshot
      <4>4. honest /\ "entry-manifest" \in DOMAIN installed.runtime =>
              Precedes(installed.runtime["entry-manifest"], Surface)
        BY <4>1 DEF VersionsGrow
      <4>5. QED BY <2>2, <3>1, <4>1, <4>2, <4>3, <4>4 DEF ModuleFits, Precedes
    <3>2. CASE n # m
      <4>1. ModuleFits(n, d) BY <2>4, <3>2 DEF ModulesFit
      <4>2. \A f \in Declares(n) : f \in DOMAIN was /\ f \notin Declares(m)
        BY <3>2, <4>1, ModulesApart DEF ModuleFits
      <4>3. \A f \in Declares(n) : f \in DOMAIN installed'.driver /\ installed'.driver[f] = was[f]
        BY <2>1, <2>2, <4>2
      <4>4. QED BY <2>2, <4>1, <4>3 DEF ModuleFits, Precedes
    <3>3. QED BY <3>1, <3>2
  <2>9. AcceptedTreeFits' BY DEF AcceptedTreeFits
  <2>10. QED BY <2>5, <2>6, <2>7, <2>8, <2>9
<1>9. ASSUME NEW m \in Module, TornCopy(m) PROVE InstallInd'
  <2> USE <1>9 DEF TornCopy
  <2> DEFINE was == installed.driver
             left == [f \in DOMAIN was \ Declares(m) |-> was[f]]
  <2>0. installed \in TreeType /\ installed' = [installed EXCEPT !.driver = left]
    BY DEF InstallTypeOK
  <2>1. left \in PartOf(Field, Nat)
    <3>1. PICK F \in SUBSET Field : was \in [F -> Nat] BY <2>0 DEF TreeType, PartOf
    <3>2. left \in [F \ Declares(m) -> Nat] BY <3>1
    <3>3. QED BY <3>2 DEF PartOf
  <2>2. installed'.driver = left /\ installed'.runtime = installed.runtime /\ installed' \in TreeType
    BY <2>0, <2>1 DEF TreeType
  <2>3. origin' \in [SurfaceModule -> SUBSET Snapshot]
        /\ \A n \in SurfaceModule : origin'[n] = IF n = m THEN {} ELSE origin[n]
    BY DEF InstallTypeOK, CopiedFrom
  <2>4. InstallTypeOK' BY <2>2, <2>3 DEF InstallTypeOK
  <2>5. StoodTogether' BY <2>2 DEF StoodTogether, RecordsStood
  <2>6. VersionsGrow' BY <2>2 DEF VersionsGrow, Surface, Precedes
  <2>7. ModulesFit'
    <3> SUFFICES ASSUME NEW n \in SurfaceModule, NEW d \in origin'[n] PROVE ModuleFits(n, d)'
      BY DEF ModulesFit
    <3>1. n # m /\ ModuleFits(n, d) BY <2>3 DEF ModulesFit
    <3>2. \A f \in Declares(n) : f \in DOMAIN left /\ left[f] = was[f]
      BY <3>1, ModulesApart DEF ModuleFits
    <3>3. QED BY <2>2, <3>1, <3>2 DEF ModuleFits, Precedes
  <2>8. AcceptedTreeFits' BY DEF AcceptedTreeFits
  <2>9. QED BY <2>4, <2>5, <2>6, <2>7, <2>8
<1>10. ASSUME NEW f \in RuntimeFile, CopyRuntimeFile(f) PROVE InstallInd'
  <2> USE <1>10 DEF CopyRuntimeFile
  <2> DEFINE was == installed.runtime
             laid == Overlaid(was, {f}, runtime)
  <2>0. /\ installed \in TreeType /\ was \in PartOf(RuntimeFile, AnyFile)
        /\ runtime[f] \in AnyFile /\ installed' = [installed EXCEPT !.runtime = laid]
    BY DEF InstallTypeOK, TreeType
  <2>1. /\ laid \in PartOf(RuntimeFile, AnyFile)
        /\ DOMAIN laid = DOMAIN was \union {f}
        /\ \A g \in DOMAIN was \union {f} : laid[g] = IF g \in {f} THEN runtime[g] ELSE was[g]
    <3>1. PICK F \in SUBSET RuntimeFile : was \in [F -> AnyFile] BY <2>0 DEF PartOf
    <3>2. laid \in [F \union {f} -> AnyFile] BY <2>0, <3>1 DEF Overlaid
    <3>3. F \union {f} \in SUBSET RuntimeFile OBVIOUS
    <3>4. laid \in PartOf(RuntimeFile, AnyFile) BY <3>2, <3>3 DEF PartOf
    <3>5. QED BY <3>4 DEF Overlaid
  <2>2. installed'.driver = installed.driver /\ installed'.runtime = laid /\ installed' \in TreeType
    BY <2>0, <2>1 DEF TreeType
  <2> HIDE DEF laid
  <2>3. InstallTypeOK' BY <2>1, <2>2 DEF InstallTypeOK
  <2>4. StoodTogether' BY <2>1, <2>2 DEF StoodTogether, RecordsStood
  <2>5. VersionsGrow'
    <3>1. Precedes(runtime["entry-manifest"], runtime["entry-manifest"])
      BY <1>0 DEF Precedes, InstallTypeOK, Snapshot
    <3>2. QED BY <2>1, <2>2, <3>1 DEF VersionsGrow, Surface, Precedes
  <2>6. ModulesFit'
    <3> SUFFICES ASSUME NEW m \in SurfaceModule, NEW d \in origin[m] PROVE ModuleFits(m, d)'
      BY DEF ModulesFit
    <3>1. ModuleFits(m, d) BY DEF ModulesFit
    <3>2. QED BY <2>1, <2>2, <3>1 DEF ModuleFits, Precedes
  <2>7. AcceptedTreeFits' BY DEF AcceptedTreeFits
  <2>8. QED BY <2>3, <2>4, <2>5, <2>6, <2>7
<1>11. CASE CopyCompiler \/ WriteLauncher
  <2> USE <1>11 DEF CopyCompiler, WriteLauncher
  <2>0. /\ installed'.driver = installed.driver /\ installed'.runtime = installed.runtime
        /\ installed' \in TreeType
    BY DEF InstallTypeOK, TreeType
  <2>1. InstallTypeOK' BY <2>0 DEF InstallTypeOK
  <2>2. StoodTogether' BY <2>0 DEF StoodTogether, RecordsStood
  <2>3. VersionsGrow' BY <2>0 DEF VersionsGrow, Surface, Precedes
  <2>4. ModulesFit' BY <2>0 DEF ModulesFit, ModuleFits, Precedes
  <2>5. AcceptedTreeFits' BY DEF AcceptedTreeFits
  <2>6. QED BY <2>1, <2>2, <2>3, <2>4, <2>5
<1>12. CASE InstalledBuild
  <2> USE <1>12 DEF InstalledBuild
  <2>1. InstallTypeOK' BY DEF InstallTypeOK
  <2>2. StoodTogether' BY DEF StoodTogether, RecordsStood
  <2>3. VersionsGrow' BY DEF VersionsGrow, Surface, Precedes
  <2>4. ModulesFit' BY DEF ModulesFit, ModuleFits, Precedes
  <2>5. AcceptedTreeFits'
    <3>1. /\ accepted' = {[driver |-> installed.driver, runtime |-> installed.runtime]}
          /\ apart' = apart /\ stood' = stood /\ honest' = honest /\ origin' = origin
      OBVIOUS
    <3>2. apart => <<installed.runtime["header"], installed.runtime["source"]>> \in stood
      BY DEF ManifestFits, StoodTogether, RecordsStood
    <3>3. ASSUME honest, NEW m \in SurfaceModule, NEW d \in origin[m], d["entry"] = installed.driver["entry"],
                 NEW f \in Declares(m)
          PROVE  installed.driver[f] = installed.runtime["entry-manifest"][f]
      <4>1. ModuleFits(m, d) BY DEF ModulesFit
      <4>2. "entry-manifest" \in DOMAIN installed.runtime
            /\ installed.runtime["entry-manifest"]["entry"] = d["entry"]
        BY <3>3 DEF EntryFits
      <4>3. installed.runtime["entry-manifest"] = d BY <3>3, <4>1, <4>2 DEF ModuleFits
      <4>4. QED BY <4>1, <4>3 DEF ModuleFits
    <3>4. QED BY <3>1, <3>2, <3>3 DEF AcceptedTreeFits
  <2>6. QED BY <2>1, <2>2, <2>3, <2>4, <2>5
<1>13. QED
  BY <1>1, <1>2, <1>3, <1>4, <1>5, <1>6, <1>7, <1>8, <1>9, <1>10, <1>11, <1>12 DEF InstallNext

(* The invariant of checkout and tree holds in every reachable state.      *)
THEOREM InstallInvariant == InstallSpec => []InstallInd
<1>1. InstallInd /\ [InstallNext]_installVars => InstallInd'
  <2>1. InstallInd /\ UNCHANGED installVars => InstallInd'
    BY DEF InstallInd, installVars, InstallTypeOK, StoodTogether, RecordsStood, VersionsGrow,
           ModulesFit, ModuleFits, Precedes, Surface, AcceptedTreeFits
  <2>2. QED BY <2>1, InstallStepInd
<1>2. QED BY <1>1, InstallInitInd, PTL DEF InstallSpec

(* For any number of edits, installations broken off between or within two *)
(* modules and second ones: a build that the checks of an installed tree   *)
(* let through has a header and a source that stood together, and modules  *)
(* of its version say of the surface what its runtime records.             *)
THEOREM AcceptedTreesFit == InstallSpec => []AcceptedTreeFits
<1>1. InstallInd => AcceptedTreeFits BY DEF InstallInd
<1>2. QED BY <1>1, InstallInvariant, PTL

-----------------------------------------------------------------------------
(* Formatter: numbers and functions.                                       *)

(* A set of naturals has a least element.                                  *)
LEMMA LeastElement ==
  ASSUME NEW S \in SUBSET Nat, S # {}
  PROVE  \E x \in S : \A y \in S : x <= y
<1>1. PICK x \in S : \A y \in S : ~(<<y, x>> \in OpToRel(<, Nat))
  BY NatLessThanWellFounded, WFMin
<1>2. ASSUME NEW y \in S, y < x PROVE <<y, x>> \in OpToRel(<, Nat)
  BY <1>2 DEF OpToRel
<1>3. \A y \in S : ~(y < x) BY <1>1, <1>2, Zenon
<1>4. \A y \in S : x <= y BY <1>3
<1>5. QED BY <1>4

(* Induction from 0 to n, over a set rather than a predicate.              *)
LEMMA UpToInduction ==
  ASSUME NEW n \in Nat, NEW S, 0 \in S, \A m \in 0 .. n : m \in S /\ m < n => m + 1 \in S
  PROVE  0 .. n \subseteq S
<1> DEFINE B == (0 .. n) \ S
<1> SUFFICES ASSUME B # {} PROVE FALSE
  OBVIOUS
<1>1. B \in SUBSET Nat OBVIOUS
<1>2. PICK x \in B : \A y \in B : x <= y 
  <2> HIDE DEF B
  <2>1. QED BY <1>1, LeastElement
<1>3. x \in 0 .. n /\ x \notin S /\ x # 0 OBVIOUS
<1>4. x - 1 \in 0 .. n /\ x - 1 < n /\ (x - 1) + 1 = x /\ ~(x <= x - 1) BY <1>3
<1>5. x - 1 \in S BY <1>2, <1>4
<1>6. QED BY <1>3, <1>4, <1>5

-----------------------------------------------------------------------------
(* Formatter: the scan, the solid symbols of a text, its lines.            *)

(* The scan is in code before the text, and moves on by ScanOn from each   *)
(* symbol to the next.                                                     *)
LEMMA ScanSteps ==
  ASSUME NEW text, Len(text) \in Nat, NEW quotes, NEW broken
  PROVE  /\ Scanned(text, quotes, broken)[0] = Code
         /\ \A i \in 1 .. Len(text) :
              Scanned(text, quotes, broken)[i] =
                ScanOn(Scanned(text, quotes, broken)[i - 1], text, i, quotes, broken)
<1> DEFINE l == Len(text)
           Step(was, i) == ScanOn(was, text, i, quotes, broken)
           Upto(m, f) == f = [i \in 0 .. m |-> IF i = 0 THEN Code ELSE Step(f[i - 1], i)]
           S == {m \in 0 .. l : \E f : Upto(m, f)}
<1>1. Scanned(text, quotes, broken) = CHOOSE f : Upto(l, f) BY DEF Scanned
<1> HIDE DEF l, Step
<1>0. l \in Nat BY DEF l
<1>2. 0 \in S
  <2>1. Upto(0, [i \in 0 .. 0 |-> Code]) OBVIOUS
  <2>2. \E f : Upto(0, f) BY <2>1, Zenon
  <2>3. QED BY <1>0, <2>2
<1>3. ASSUME NEW m \in 0 .. l, m \in S, m < l PROVE m + 1 \in S
  <2>1. PICK f : Upto(m, f) BY <1>3
  <2> DEFINE g == [i \in 0 .. m + 1 |-> IF i = m + 1 THEN Step(f[m], m + 1) ELSE f[i]]
  <2>2. m \in Nat /\ m + 1 \in 0 .. l BY <1>0, <1>3
  <2>3. \A i \in 0 .. m : g[i] = f[i] BY <2>2
  <2>4. ASSUME NEW i \in 0 .. m + 1
        PROVE  g[i] = IF i = 0 THEN Code ELSE Step(g[i - 1], i)
    <3>1. CASE i = m + 1
      <4>1. i # 0 /\ i - 1 = m /\ m \in 0 .. m BY <2>2, <3>1
      <4>2. g[i] = Step(f[m], m + 1) BY <2>2, <3>1
      <4>3. g[i - 1] = f[m] BY <2>3, <4>1
      <4>4. QED BY <3>1, <4>1, <4>2, <4>3
    <3>2. CASE i # m + 1
      <4>1. i \in 0 .. m /\ (i # 0 => i - 1 \in 0 .. m) BY <2>2, <3>2
      <4>2. f[i] = IF i = 0 THEN Code ELSE Step(f[i - 1], i) BY <2>1, <4>1
      <4>3. g[i] = f[i] /\ (i # 0 => g[i - 1] = f[i - 1]) BY <2>3, <4>1
      <4>4. QED BY <4>2, <4>3
    <3>3. QED BY <3>1, <3>2
  <2>5. g = [i \in 0 .. m + 1 |-> g[i]] OBVIOUS
  <2> HIDE DEF g
  <2>6. Upto(m + 1, g) BY <2>4, <2>5
  <2>7. QED BY <2>2, <2>6
<1>4. \E f : Upto(l, f)
  <2>1. 0 .. l \subseteq S 
    <3> HIDE DEF S
    <3>1. QED BY <1>0, <1>2, <1>3, UpToInduction
  <2>2. l \in 0 .. l BY <1>0
  <2>3. QED BY <2>1, <2>2
<1> DEFINE scan == Scanned(text, quotes, broken)
<1> HIDE DEF scan
<1>5. Upto(l, scan) BY <1>1, <1>4 DEF scan
<1>6. scan[0] = Code BY <1>0, <1>5
<1>7. ASSUME NEW i \in 1 .. l PROVE scan[i] = Step(scan[i - 1], i)
  <2>1. i \in 0 .. l /\ i # 0 BY <1>0
  <2>2. QED BY <1>5, <2>1
<1>8. QED BY <1>6, <1>7 DEF scan, l, Step

(* A function whose values are made of values of lower rank is defined.    *)
Ranked(I, V, n, rank, G) ==
  /\ n \in Nat /\ V # {} /\ rank \in [I -> 0 .. n] /\ G \in [[I -> V] \X I -> V]
  /\ \A h, g \in [I -> V], i \in I :
       (\A j \in I : rank[j] < rank[i] => h[j] = g[j]) => G[<<h, i>>] = G[<<g, i>>]

Solves(f, I, G) == \A i \in I : f[i] = G[<<f, i>>]

(* Some f takes each of its values from G, when G looks only at values of  *)
(* lower rank.                                                             *)
LEMMA RankedRecursion ==
  ASSUME NEW I, NEW V, NEW n, NEW rank, NEW G, Ranked(I, V, n, rank, G)
  PROVE  \E f \in [I -> V] : Solves(f, I, G)
<1> USE DEF Ranked, Solves
<1> DEFINE Good(f, m) == \A i \in I : rank[i] < m => f[i] = G[<<f, i>>]
           S == {m \in 0 .. n + 1 : \E f \in [I -> V] : Good(f, m)}
<1>1. 0 \in S
  <2>1. PICK v \in V : TRUE OBVIOUS
  <2>2. [i \in I |-> v] \in [I -> V] OBVIOUS
  <2>3. Good([i \in I |-> v], 0)
    <3>1. \A i \in I : rank[i] \in 0 .. n OBVIOUS
    <3>2. QED BY <3>1
  <2>4. 0 \in 0 .. n + 1 OBVIOUS
  <2>5. \E f \in [I -> V] : Good(f, 0) BY <2>2, <2>3
  <2>6. QED BY <2>4, <2>5
<1>2. ASSUME NEW m \in 0 .. n + 1, m \in S, m < n + 1 PROVE m + 1 \in S
  <2>1. PICK f \in [I -> V] : Good(f, m) BY <1>2
  <2> DEFINE g == [i \in I |-> IF rank[i] < m THEN f[i] ELSE G[<<f, i>>]]
  <2>2. g \in [I -> V] OBVIOUS
  <2>3. \A j \in I : rank[j] < m => g[j] = f[j] OBVIOUS
  <2>4. ASSUME NEW i \in I, rank[i] < m + 1 PROVE g[i] = G[<<g, i>>]
    <3>1. rank[i] \in Nat /\ m \in Nat /\ \A j \in I : rank[j] \in Nat BY <1>2
    <3>2. \A j \in I : rank[j] < rank[i] => g[j] = f[j] BY <2>3, <2>4, <3>1
    <3>3. G[<<g, i>>] = G[<<f, i>>] BY <2>2, <3>2
    <3>4. CASE rank[i] < m
      <4>1. f[i] = G[<<f, i>>] BY <2>1, <3>4
      <4>2. g[i] = f[i] BY <3>4
      <4>3. QED BY <3>3, <4>1, <4>2
    <3>5. CASE ~(rank[i] < m)
      <4>1. g[i] = G[<<f, i>>] BY <3>5
      <4>2. QED BY <3>3, <4>1
    <3>6. QED BY <3>4, <3>5
  <2> HIDE DEF g
  <2>5. Good(g, m + 1) BY <2>4
  <2>6. m + 1 \in 0 .. n + 1 BY <1>2
  <2>7. QED BY <2>2, <2>5, <2>6
<1>3. n + 1 \in S
  <2> HIDE DEF S
  <2>1. 0 .. n + 1 \subseteq S BY <1>1, <1>2, UpToInduction
  <2>2. QED BY <2>1
<1>4. PICK f \in [I -> V] : Good(f, n + 1) BY <1>3
<1>5. \A i \in I : rank[i] < n + 1
  <2>1. \A i \in I : rank[i] \in 0 .. n OBVIOUS
  <2>2. QED BY <2>1
<1>6. QED BY <1>4, <1>5
(* At, symbol by symbol.                                                   *)
AtTo(t, places, f) ==
  f = [n \in 0 .. Len(t) |->
         IF n = 0 THEN << >> ELSE IF n \in places THEN Append(f[n - 1], t[n]) ELSE f[n - 1]]

(* At walks the text and appends the symbols at the places.                *)
LEMMA AtSteps ==
  ASSUME NEW t \in Seq(Symbol), NEW places
  PROVE  \E f : /\ AtTo(t, places, f) /\ At(t, places) = f[Len(t)]
                /\ f[0] = << >> /\ \A n \in 0 .. Len(t) : f[n] \in Seq(Symbol)
                /\ \A n \in 1 .. Len(t) :
                     f[n] = IF n \in places THEN Append(f[n - 1], t[n]) ELSE f[n - 1]
<1> DEFINE l == Len(t)
           I == 0 .. l
           V == Seq(Symbol)
           Step(f, n) == IF n = 0 THEN << >> ELSE IF n \in places THEN Append(f[n - 1], t[n]) ELSE f[n - 1]
           rank == [n \in I |-> n]
           G == [x \in [I -> V] \X I |-> Step(x[1], x[2])]
<1>0. l \in Nat /\ \A n \in 1 .. l : t[n] \in Symbol OBVIOUS
<1> HIDE DEF l
<1>1. rank \in [I -> 0 .. l] OBVIOUS
<1>2. << >> \in V /\ V # {} OBVIOUS
<1>3. ASSUME NEW f \in [I -> V], NEW n \in I PROVE Step(f, n) \in V /\ G[<<f, n>>] = Step(f, n)
  <2>1. Step(f, n) \in V
    <3>1. CASE n = 0 BY <3>1, <1>2
    <3>2. CASE n # 0
      <4>1. n \in 1 .. l /\ n - 1 \in I BY <1>0, <3>2
      <4>2. f[n - 1] \in Seq(Symbol) /\ t[n] \in Symbol BY <1>0, <4>1
      <4>3. Append(f[n - 1], t[n]) \in Seq(Symbol) BY <4>2, AppendProperties
      <4>4. QED BY <3>2, <4>2, <4>3
    <3>3. QED BY <3>1, <3>2
  <2>2. <<f, n>> \in [I -> V] \X I OBVIOUS
  <2>3. QED BY <2>1, <2>2
<1>4. G \in [[I -> V] \X I -> V]
  <2>1. ASSUME NEW x \in [I -> V] \X I PROVE Step(x[1], x[2]) \in V
    <3>1. x[1] \in [I -> V] /\ x[2] \in I OBVIOUS
    <3> HIDE DEF Step, I, V, G
    <3>2. QED BY <1>3, <3>1
  <2> HIDE DEF Step, I, V
  <2>2. QED BY <2>1
<1>5. ASSUME NEW h \in [I -> V], NEW g \in [I -> V], NEW n \in I, \A j \in I : rank[j] < rank[n] => h[j] = g[j]
      PROVE  G[<<h, n>>] = G[<<g, n>>]
  <2>1. n # 0 => n - 1 \in I /\ rank[n - 1] < rank[n] BY <1>0
  <2>2. n # 0 => h[n - 1] = g[n - 1] BY <1>5, <2>1
  <2>3. Step(h, n) = Step(g, n) BY <2>2
  <2> HIDE DEF Step, I, V, G
  <2>4. QED BY <1>3, <2>3
<1>6. PICK f \in [I -> V] : Solves(f, I, G)
  <2> HIDE DEF rank, G, I, V
  <2>1. \A h, g \in [I -> V], i \in I :
          (\A j \in I : rank[j] < rank[i] => h[j] = g[j]) => G[<<h, i>>] = G[<<g, i>>]
    BY <1>5
  <2>2. V # {} BY <1>2
  <2>3. Ranked(I, V, l, rank, G) BY <1>0, <1>1, <1>4, <2>1, <2>2 DEF Ranked
  <2>4. QED BY <2>3, RankedRecursion
<1>7. f = [n \in I |-> Step(f, n)]
  <2>1. \A n \in I : f[n] = Step(f, n)
    <3> HIDE DEF Step, I, V, G
    <3>1. QED BY <1>3, <1>6 DEF Solves
  <2> HIDE DEF Step, I, V, G
  <2>2. QED BY <2>1
<1>8. AtTo(t, places, f) BY <1>7 DEF AtTo, l
<1>9. PICK g : AtTo(t, places, g) /\ At(t, places) = g[l]
  <2>1. At(t, places) = (CHOOSE g : AtTo(t, places, g))[l] BY DEF At, AtTo, l
  <2>2. AtTo(t, places, CHOOSE g : AtTo(t, places, g)) BY <1>8
  <2>3. QED BY <2>1, <2>2
<1>10. g = [n \in I |-> Step(g, n)] BY <1>9 DEF AtTo, l
<1>11. \A n \in I : g[n] = Step(g, n) BY <1>10
<1>12. 0 .. l \subseteq {n \in I : g[n] \in V}
  <2>1. 0 \in {n \in I : g[n] \in V}
    <3>1. 0 \in I BY <1>0
    <3>2. g[0] = << >> BY <1>11, <3>1
    <3>3. QED BY <1>2, <3>1, <3>2
  <2>2. ASSUME NEW m \in 0 .. l, g[m] \in V, m < l PROVE m + 1 \in I /\ g[m + 1] \in V
    <3>1. m + 1 \in I /\ m + 1 # 0 /\ (m + 1) - 1 = m /\ m + 1 \in 1 .. l BY <1>0, <2>2
    <3>2. g[m + 1] = IF m + 1 \in places THEN Append(g[m], t[m + 1]) ELSE g[m] BY <1>11, <3>1
    <3>3. t[m + 1] \in Symbol BY <1>0, <3>1
    <3>4. QED BY <2>2, <3>1, <3>2, <3>3, AppendProperties
  <2> DEFINE S == {n \in I : g[n] \in V}
  <2>3. \A m \in 0 .. l : m \in S /\ m < l => m + 1 \in S BY <2>2
  <2> HIDE DEF S
  <2>4. 0 .. l \subseteq S BY <1>0, <2>1, <2>3, UpToInduction DEF S
  <2>5. QED BY <2>4 DEF S
<1>13. g[0] = << >>
  <2>1. 0 \in I BY <1>0
  <2>2. QED BY <1>11, <2>1
<1>14. \A n \in 1 .. l : g[n] = IF n \in places THEN Append(g[n - 1], t[n]) ELSE g[n - 1]
  <2>1. \A n \in 1 .. l : n \in I /\ n # 0 BY <1>0
  <2>2. QED BY <1>11, <2>1
<1>15. QED BY <1>9, <1>12, <1>13, <1>14 DEF l

(* At picks symbols of the text.                                           *)
LEMMA AtType == ASSUME NEW t \in Seq(Symbol), NEW places PROVE At(t, places) \in Seq(Symbol)
<1>1. PICK f : At(t, places) = f[Len(t)] /\ \A n \in 0 .. Len(t) : f[n] \in Seq(Symbol) BY AtSteps
<1>2. Len(t) \in 0 .. Len(t) OBVIOUS
<1>3. QED BY <1>1, <1>2

(* One symbol more: At picks it or not, whatever else the places are.      *)
LEMMA AtAppend ==
  ASSUME NEW s \in Seq(Symbol), NEW x \in Symbol, NEW K, NEW M, \A n \in 1 .. Len(s) : n \in K <=> n \in M
  PROVE  At(Append(s, x), K) = IF Len(s) + 1 \in K THEN Append(At(s, M), x) ELSE At(s, M)
<1> DEFINE t == Append(s, x)
           l == Len(s)
<1>1. t \in Seq(Symbol) /\ Len(t) = l + 1 /\ l \in Nat /\ t[l + 1] = x /\ \A n \in 1 .. l : t[n] = s[n]
  BY AppendProperties
<1>a. \A n \in 1 .. l : n \in K <=> n \in M OBVIOUS
<1> HIDE DEF t, l
<1>2. PICK f : /\ At(s, M) = f[l] /\ f[0] = << >>
               /\ \A n \in 1 .. l : f[n] = IF n \in M THEN Append(f[n - 1], s[n]) ELSE f[n - 1]
  BY AtSteps DEF l
<1>3. PICK h : /\ At(t, K) = h[l + 1] /\ h[0] = << >>
               /\ \A n \in 1 .. l + 1 : h[n] = IF n \in K THEN Append(h[n - 1], t[n]) ELSE h[n - 1]
  <2>1. t \in Seq(Symbol) BY <1>1
  <2>2. \E h : /\ AtTo(t, K, h) /\ At(t, K) = h[Len(t)]
               /\ h[0] = << >> /\ \A n \in 0 .. Len(t) : h[n] \in Seq(Symbol)
               /\ \A n \in 1 .. Len(t) : h[n] = IF n \in K THEN Append(h[n - 1], t[n]) ELSE h[n - 1]
    BY <2>1, AtSteps
  <2>3. QED BY <1>1, <2>2
<1> DEFINE S == {n \in 0 .. l : h[n] = f[n]}
<1>4. 0 \in S BY <1>1, <1>2, <1>3
<1>5. ASSUME NEW n \in 0 .. l, n \in S, n < l PROVE n + 1 \in S
  <2>1. n + 1 \in 1 .. l /\ n + 1 \in 1 .. l + 1 /\ n + 1 \in 0 .. l /\ (n + 1) - 1 = n BY <1>1, <1>5
  <2>2. t[n + 1] = s[n + 1] /\ (n + 1 \in K <=> n + 1 \in M) BY <1>1, <1>a, <2>1
  <2>3. h[n] = f[n] BY <1>5
  <2>4. h[n + 1] = f[n + 1] BY <1>2, <1>3, <2>1, <2>2, <2>3
  <2>5. QED BY <2>1, <2>4
<1>6. h[l] = f[l]
  <2> HIDE DEF S
  <2>1. 0 .. l \subseteq S BY <1>1, <1>4, <1>5, UpToInduction
  <2>2. l \in 0 .. l BY <1>1
  <2>3. QED BY <2>1, <2>2 DEF S
<1>7. l + 1 \in 1 .. l + 1 /\ (l + 1) - 1 = l BY <1>1
<1>8. At(t, K) = IF l + 1 \in K THEN Append(h[l], x) ELSE h[l] BY <1>1, <1>3, <1>7
<1>9. QED BY <1>2, <1>6, <1>8 DEF t, l

(* The solid symbols of a text are a text, an empty one has none.          *)
LEMMA SolidsType == ASSUME NEW t \in Seq(Symbol) PROVE Solids(t) \in Seq(Symbol)
BY AtType DEF Solids

LEMMA AtOfNone ==
  ASSUME NEW t \in Seq(Symbol), NEW places
  PROVE  Len(t) = 0 => At(t, places) = << >>
<1>1. PICK f : At(t, places) = f[Len(t)] /\ f[0] = << >> BY AtSteps
<1>2. QED BY <1>1

LEMMA AtOfNothing == \A places : At(<< >>, places) = << >>
<1>1. << >> \in Seq(Symbol) /\ Len(<< >>) = 0 OBVIOUS
<1>2. QED BY <1>1, AtOfNone

LEMMA SolidsEmpty == Solids(<< >>) = << >>
BY AtOfNothing DEF Solids

(* A blank appended leaves the solid symbols, any other symbol joins       *)
(* them.                                                                   *)
LEMMA SolidsAppend ==
  ASSUME NEW s \in Seq(Symbol), NEW x \in Symbol
  PROVE  Solids(Append(s, x)) = IF x \in Blank THEN Solids(s) ELSE Append(Solids(s), x)
<1> DEFINE t == Append(s, x)
           K == {i \in DOMAIN t : t[i] \notin Blank}
           M == {i \in DOMAIN s : s[i] \notin Blank}
<1>1. /\ DOMAIN t = 1 .. Len(s) + 1 /\ DOMAIN s = 1 .. Len(s) /\ t[Len(s) + 1] = x /\ Len(s) \in Nat
      /\ \A n \in 1 .. Len(s) : t[n] = s[n]
  BY AppendProperties
<1> HIDE DEF t
<1>2. \A n \in 1 .. Len(s) : n \in K <=> n \in M BY <1>1
<1>3. Len(s) + 1 \in K <=> x \notin Blank BY <1>1
<1> HIDE DEF K, M
<1>4. At(t, K) = IF Len(s) + 1 \in K THEN Append(At(s, M), x) ELSE At(s, M) BY <1>2, AtAppend DEF t
<1>5. QED BY <1>3, <1>4 DEF Solids, t, K, M

(* The first n + 1 symbols are the first n and one more.                   *)
LEMMA OneSymbolMore ==
  ASSUME NEW t \in Seq(Symbol), NEW n \in 0 .. Len(t), n < Len(t)
  PROVE  /\ SubSeq(t, 1, n) \in Seq(Symbol) /\ t[n + 1] \in Symbol
         /\ SubSeq(t, 1, n + 1) = Append(SubSeq(t, 1, n), t[n + 1])
<1>1. n \in Nat /\ n + 1 \in 1 .. Len(t) OBVIOUS
<1>2. SubSeq(t, 1, n) \in Seq(Symbol) /\ SubSeq(t, 1, n + 1) \in Seq(Symbol) OBVIOUS
<1>3. Len(SubSeq(t, 1, n)) = n /\ Len(SubSeq(t, 1, n + 1)) = n + 1 BY <1>1
<1>4. t[n + 1] \in Symbol BY <1>1
<1>5. Append(SubSeq(t, 1, n), t[n + 1]) \in Seq(Symbol) /\ Len(Append(SubSeq(t, 1, n), t[n + 1])) = n + 1
  BY <1>2, <1>3, <1>4, AppendProperties
<1>6. \A k \in 1 .. n + 1 : SubSeq(t, 1, n + 1)[k] = Append(SubSeq(t, 1, n), t[n + 1])[k]
  <2>1. ASSUME NEW k \in 1 .. n + 1 PROVE SubSeq(t, 1, n + 1)[k] = Append(SubSeq(t, 1, n), t[n + 1])[k]
    <3>1. SubSeq(t, 1, n + 1)[k] = t[k] BY <1>1
    <3>2. k \in 1 .. n => SubSeq(t, 1, n)[k] = t[k] BY <1>1
    <3>3. CASE k = n + 1 BY <1>1, <1>2, <1>3, <1>4, <3>1, <3>3, AppendProperties
    <3>4. CASE k # n + 1
      <4>1. k \in 1 .. n BY <1>1, <3>4
      <4>2. QED BY <1>2, <1>3, <1>4, <3>1, <3>2, <4>1, AppendProperties
    <3>5. QED BY <3>3, <3>4
  <2>2. QED BY <2>1
<1>7. QED BY <1>2, <1>3, <1>4, <1>5, <1>6, SeqEqual

(* All of a text, and none of it.                                          *)
LEMMA WholeAndNone ==
  ASSUME NEW t \in Seq(Symbol)
  PROVE  SubSeq(t, 1, Len(t)) = t /\ SubSeq(t, 1, 0) = << >>
<1>1. SubSeq(t, 1, Len(t)) = t BY SubSeqFull
<1>2. SubSeq(t, 1, 0) = << >> BY SubSeqEmpty
<1>3. QED BY <1>1, <1>2

(* The solid symbols of two texts joined are those of the one, then those  *)
(* of the other.                                                           *)
LEMMA SolidsConcat ==
  ASSUME NEW s \in Seq(Symbol), NEW t \in Seq(Symbol)
  PROVE  Solids(s \o t) = Solids(s) \o Solids(t)
<1> DEFINE l == Len(t)
           S == {n \in 0 .. l : Solids(s \o SubSeq(t, 1, n)) = Solids(s) \o Solids(SubSeq(t, 1, n))}
<1>0. l \in Nat /\ Solids(s) \in Seq(Symbol) BY SolidsType
<1>1. 0 \in S
  <2>1. SubSeq(t, 1, 0) = << >> BY WholeAndNone
  <2>2. s \o << >> = s /\ Solids(s) \o << >> = Solids(s) BY <1>0, ConcatEmptySeq
  <2>3. Solids(s \o SubSeq(t, 1, 0)) = Solids(s) \o Solids(SubSeq(t, 1, 0)) BY <2>1, <2>2, SolidsEmpty
  <2>4. 0 \in 0 .. l BY <1>0
  <2>5. QED BY <2>3, <2>4
<1>2. ASSUME NEW n \in 0 .. l, n \in S, n < l PROVE n + 1 \in S
  <2> DEFINE u == SubSeq(t, 1, n)
             x == t[n + 1]
  <2>1. u \in Seq(Symbol) /\ x \in Symbol /\ SubSeq(t, 1, n + 1) = Append(u, x) BY <1>2, OneSymbolMore
  <2>2. Solids(s \o u) = Solids(s) \o Solids(u) /\ n + 1 \in 0 .. l BY <1>2
  <2> HIDE DEF u, x
  <2>3. s \o Append(u, x) = Append(s \o u, x) /\ s \o u \in Seq(Symbol) BY <2>1
  <2>4. Solids(u) \in Seq(Symbol) BY <2>1, SolidsType
  <2>5. Solids(s) \o Append(Solids(u), x) = Append(Solids(s) \o Solids(u), x) BY <1>0, <2>1, <2>4
  <2>6. Solids(Append(s \o u, x)) = IF x \in Blank THEN Solids(s \o u) ELSE Append(Solids(s \o u), x)
    BY <2>1, <2>3, SolidsAppend
  <2>7. Solids(Append(u, x)) = IF x \in Blank THEN Solids(u) ELSE Append(Solids(u), x) BY <2>1, SolidsAppend
  <2>8. Solids(s \o Append(u, x)) = Solids(s) \o Solids(Append(u, x)) BY <2>2, <2>3, <2>5, <2>6, <2>7
  <2>9. QED BY <2>1, <2>2, <2>8
<1>3. l \in S
  <2> HIDE DEF S
  <2>1. 0 .. l \subseteq S BY <1>0, <1>1, <1>2, UpToInduction
  <2>2. QED BY <1>0, <2>1
<1>4. QED BY <1>3, WholeAndNone

(* Blanks alone have no solid symbol.                                      *)
LEMMA SolidsOfBlanks ==
  ASSUME NEW t \in Seq(Symbol), \A i \in 1 .. Len(t) : t[i] \in Blank
  PROVE  Solids(t) = << >>
<1> DEFINE l == Len(t)
           S == {n \in 0 .. l : Solids(SubSeq(t, 1, n)) = << >>}
<1>0. l \in Nat OBVIOUS
<1>1. 0 \in S
  <2>1. SubSeq(t, 1, 0) = << >> BY WholeAndNone
  <2>2. Solids(SubSeq(t, 1, 0)) = << >> BY <2>1, SolidsEmpty
  <2>3. 0 \in 0 .. l BY <1>0
  <2>4. QED BY <2>2, <2>3
<1>2. ASSUME NEW n \in 0 .. l, n \in S, n < l PROVE n + 1 \in S
  <2>1. /\ SubSeq(t, 1, n) \in Seq(Symbol) /\ t[n + 1] \in Symbol
        /\ SubSeq(t, 1, n + 1) = Append(SubSeq(t, 1, n), t[n + 1]) BY <1>2, OneSymbolMore
  <2>2. t[n + 1] \in Blank /\ n + 1 \in 0 .. l BY <1>2
  <2>3. Solids(SubSeq(t, 1, n + 1)) = Solids(SubSeq(t, 1, n)) BY <2>1, <2>2, SolidsAppend
  <2>4. QED BY <1>2, <2>2, <2>3
<1>3. l \in S
  <2> HIDE DEF S
  <2>1. 0 .. l \subseteq S BY <1>0, <1>1, <1>2, UpToInduction
  <2>2. QED BY <1>0, <2>1
<1>4. QED BY <1>3, WholeAndNone

(* format_whitespace takes blanks only.                                    *)
LEMMA StrippedKeeps ==
  ASSUME NEW t \in Seq(Symbol)
  PROVE  Stripped(t) \in Seq(Symbol) /\ Solids(Stripped(t)) = Solids(t)
<1> DEFINE l == Len(t)
           solid == {i \in DOMAIN t : t[i] \notin Blank}
           kept  == {i \in DOMAIN t : /\ \E k \in solid : i <= k
                                      /\ t[i] = "sp" => \E k \in solid : i < k /\ \A m \in i .. k - 1 : t[m] = "sp"}
           u(n) == SubSeq(t, 1, n)
           S == {n \in 0 .. l : Solids(At(u(n), kept)) = Solids(u(n))}
<1>0. l \in Nat /\ DOMAIN t = 1 .. l OBVIOUS
<1>1. 0 \in S
  <2>1. u(0) = << >> BY WholeAndNone
  <2>2. At(u(0), kept) = << >>
    <3> HIDE DEF kept
    <3>1. QED BY <2>1, AtOfNothing
  <2>3. 0 \in 0 .. l BY <1>0
  <2>4. QED BY <2>1, <2>2, <2>3
<1>2. ASSUME NEW n \in 0 .. l, n \in S, n < l PROVE n + 1 \in S
  <2> DEFINE s == u(n)
             x == t[n + 1]
  <2>1. s \in Seq(Symbol) /\ x \in Symbol /\ u(n + 1) = Append(s, x) /\ Len(s) = n
    <3>1. Len(s) = n BY <1>2
    <3>2. QED BY <1>2, <3>1, OneSymbolMore
  <2>2. n + 1 \in 0 .. l /\ n + 1 \in 1 .. l BY <1>0, <1>2
  <2>3. x \notin Blank => n + 1 \in kept
    <3>1. SUFFICES ASSUME x \notin Blank PROVE n + 1 \in kept
      OBVIOUS
    <3>2. n + 1 \in solid /\ n + 1 <= n + 1 BY <1>0, <2>2, <3>1
    <3>3. x # "sp" BY <3>1 DEF Blank
    <3>4. QED BY <1>0, <2>2, <3>2, <3>3
  <2>4. Solids(At(s, kept)) = Solids(s) BY <1>2
  <2> HIDE DEF s, x, kept, solid
  <2>5. At(Append(s, x), kept) = IF n + 1 \in kept THEN Append(At(s, kept), x) ELSE At(s, kept)
    BY <2>1, AtAppend
  <2>6. At(s, kept) \in Seq(Symbol) BY <2>1, AtType
  <2>7. Solids(Append(At(s, kept), x)) = IF x \in Blank THEN Solids(At(s, kept)) ELSE Append(Solids(At(s, kept)), x)
    BY <2>1, <2>6, SolidsAppend
  <2>8. Solids(Append(s, x)) = IF x \in Blank THEN Solids(s) ELSE Append(Solids(s), x) BY <2>1, SolidsAppend
  <2>9. Solids(At(Append(s, x), kept)) = Solids(Append(s, x)) BY <2>3, <2>4, <2>5, <2>7, <2>8
  <2>10. QED BY <2>1, <2>2, <2>9
<1>3. l \in S
  <2> HIDE DEF S
  <2>1. 0 .. l \subseteq S BY <1>0, <1>1, <1>2, UpToInduction
  <2>2. QED BY <1>0, <2>1
<1>4. Solids(At(t, kept)) = Solids(t) BY <1>3, WholeAndNone
<1>5. At(t, kept) \in Seq(Symbol)
  <2> HIDE DEF kept
  <2>1. QED BY AtType
<1> DEFINE w == <<"nl">>
<1>6. w \in Seq(Symbol) /\ Len(w) = 1 /\ w[1] = "nl" BY DEF Symbol, Blank
<1>7. Solids(w) = << >>
  <2>1. \A i \in 1 .. Len(w) : w[i] \in Blank BY <1>6 DEF Blank
  <2> HIDE DEF w
  <2>2. QED BY <1>6, <2>1, SolidsOfBlanks
<1>8. Stripped(t) = At(t, kept) \o w BY DEF Stripped
<1> HIDE DEF w, kept
<1>9. Stripped(t) \in Seq(Symbol) BY <1>5, <1>6, <1>8
<1>10. Solids(Stripped(t)) = Solids(At(t, kept)) \o Solids(w) BY <1>5, <1>6, <1>8, SolidsConcat
<1>11. Solids(t) \in Seq(Symbol) BY SolidsType
<1>12. QED BY <1>4, <1>7, <1>9, <1>10, <1>11, ConcatEmptySeq

(* A number with a property, of which there are only so many, has a last.  *)
LEMMA LastElement ==
  ASSUME NEW n \in Nat, NEW S \in SUBSET (0 .. n), S # {}
  PROVE  \E x \in S : \A y \in S : y <= x
<1> DEFINE T == {n - x : x \in S}
<1>1. T \in SUBSET Nat /\ T # {}
  <2>1. \A x \in S : x \in 0 .. n OBVIOUS
  <2>2. \A x \in S : n - x \in Nat BY <2>1
  <2>3. QED BY <2>2
<1>2. PICK z \in T : \A y \in T : z <= y
  <2> HIDE DEF T
  <2>1. QED BY <1>1, LeastElement
<1>3. PICK x \in S : z = n - x BY <1>2
<1>4. \A y \in S : n - y \in T OBVIOUS
<1>5. \A y \in S : y <= x BY <1>2, <1>3, <1>4
<1>6. QED BY <1>5

(* Only blanks are trimmed to nothing.                                     *)
LEMMA TrimIsEmpty ==
  ASSUME NEW t \in Seq(Symbol)
  PROVE  Trim(t) = << >> <=> \A i \in 1 .. Len(t) : t[i] \in Blank
<1> DEFINE solid == {i \in DOMAIN t : t[i] \notin Blank}
           first == CHOOSE i \in solid : \A j \in solid : i <= j
           last  == CHOOSE i \in solid : \A j \in solid : j <= i
<1>1. DOMAIN t = 1 .. Len(t) /\ Len(t) \in Nat OBVIOUS
<1>2. CASE solid = {} BY <1>1, <1>2 DEF Trim
<1>3. CASE solid # {}
  <2>1. solid \in SUBSET Nat /\ solid \in SUBSET (0 .. Len(t)) BY <1>1
  <2>2. \E i \in solid : \A j \in solid : i <= j
    <3> HIDE DEF solid
    <3>1. QED BY <1>3, <2>1, LeastElement
  <2>3. \E i \in solid : \A j \in solid : j <= i
    <3> HIDE DEF solid
    <3>1. QED BY <1>1, <1>3, <2>1, LastElement
  <2>4. first \in solid /\ last \in solid /\ first <= last
    <3> HIDE DEF solid
    <3>1. QED BY <2>2, <2>3
  <2>5. Trim(t) = SubSeq(t, first, last) BY <1>3 DEF Trim
  <2> HIDE DEF first, last
  <2>6. first \in 1 .. Len(t) /\ last \in 1 .. Len(t) BY <1>1, <2>4
  <2>7. Len(SubSeq(t, first, last)) = last - first + 1 BY <2>4, <2>6
  <2>8. SubSeq(t, first, last) # << >>
    <3>1. last - first + 1 # 0 BY <2>4, <2>6
    <3>2. QED BY <2>7, <3>1
  <2>9. QED BY <1>1, <2>4, <2>5, <2>8
<1>4. QED BY <1>2, <1>3

(* The line of p begins at most there, and has no end before it.           *)
LEMMA LineStarts ==
  ASSUME NEW t, NEW p \in Nat \ {0}
  PROVE  LineStart(t, p) \in 1 .. p /\ \A i \in LineStart(t, p) .. p - 1 : t[i] # "nl"
<1> DEFINE ends == {i \in 1 .. p - 1 : t[i] = "nl"}
           Latest(i) == t[i] = "nl" /\ \A k \in i + 1 .. p - 1 : t[k] # "nl"
           last == CHOOSE i \in 1 .. p - 1 : Latest(i)
<1>1. CASE ends = {} BY <1>1 DEF LineStart
<1>2. CASE ends # {}
  <2>1. ends \in SUBSET (0 .. p - 1) /\ p - 1 \in Nat OBVIOUS
  <2>2. PICK x \in ends : \A y \in ends : y <= x
    <3> HIDE DEF ends
    <3>1. QED BY <1>2, <2>1, LastElement
  <2>3. x \in 1 .. p - 1 /\ Latest(x) BY <2>2
  <2>4. last \in 1 .. p - 1 /\ Latest(last)
    <3> HIDE DEF Latest
    <3>1. QED BY <2>3
  <2>5. LineStart(t, p) = 1 + last BY <1>2 DEF LineStart
  <2> HIDE DEF last
  <2>6. QED BY <2>4, <2>5
<1>3. QED BY <1>1, <1>2

(* The blanks in a line before a place are all "sp".                       *)
LEMMA BlanksOfLine ==
  ASSUME NEW t \in Seq(Symbol), NEW p \in 1 .. Len(t)
  PROVE  \A i \in LineStart(t, p) .. p - 1 : i \in 1 .. Len(t) /\ (t[i] \in Blank => t[i] = "sp")
<1>1. LineStart(t, p) \in 1 .. p /\ \A i \in LineStart(t, p) .. p - 1 : t[i] # "nl" BY LineStarts
<1> HIDE DEF LineStart
<1>2. QED BY <1>1 DEF Blank

(* There is code before a place when its line is not blank up to there.    *)
LEMMA CodeIsBefore ==
  ASSUME NEW t \in Seq(Symbol), NEW p \in 1 .. Len(t)
  PROVE  CodeBefore(t, p) <=> \E i \in LineStart(t, p) .. p - 1 : t[i] \notin Blank
<1> DEFINE a == LineStart(t, p)
           s == SubSeq(t, a, p - 1)
<1>1. a \in 1 .. p BY LineStarts
<1> HIDE DEF a
<1>2. s \in Seq(Symbol) /\ Len(s) = p - a /\ \A i \in 1 .. p - a : s[i] = t[a + i - 1]
  BY <1>1
<1>3. CodeBefore(t, p) <=> ~(\A i \in 1 .. Len(s) : s[i] \in Blank) BY <1>2, TrimIsEmpty DEF CodeBefore, a
<1> HIDE DEF s
<1>4. ASSUME NEW i \in 1 .. p - a, s[i] \notin Blank PROVE \E j \in a .. p - 1 : t[j] \notin Blank
  <2>1. a + i - 1 \in a .. p - 1 BY <1>1
  <2>2. QED BY <1>2, <1>4, <2>1
<1>5. ASSUME NEW j \in a .. p - 1, t[j] \notin Blank PROVE \E i \in 1 .. p - a : s[i] \notin Blank
  <2>1. j - a + 1 \in 1 .. p - a /\ a + (j - a + 1) - 1 = j BY <1>1
  <2>2. QED BY <1>2, <1>5, <2>1
<1>6. QED BY <1>2, <1>3, <1>4, <1>5 DEF a

(* The last place that is not a space: only spaces follow it.              *)
LEMMA SolidIs ==
  ASSUME NEW t \in Seq(Symbol), NEW from \in Nat \ {0}, NEW to \in Nat,
         \E i \in from .. to : t[i] # "sp"
  PROVE  Solid(t, from, to) \in from .. to /\ \A k \in Solid(t, from, to) + 1 .. to : t[k] = "sp"
<1> DEFINE S == {i \in from .. to : t[i] # "sp"}
           Is(i) == t[i] # "sp" /\ \A k \in i + 1 .. to : t[k] = "sp"
<1>1. S \in SUBSET (0 .. to) /\ S # {} OBVIOUS
<1>2. PICK x \in S : \A y \in S : y <= x
  <2> HIDE DEF S
  <2>1. QED BY <1>1, LastElement
<1>3. x \in from .. to /\ Is(x) BY <1>2
<1>4. Solid(t, from, to) = CHOOSE i \in from .. to : Is(i) BY DEF Solid
<1>5. Solid(t, from, to) \in from .. to /\ Is(Solid(t, from, to))
  <2> HIDE DEF Is
  <2>1. QED BY <1>3, <1>4
<1>6. QED BY <1>5

(* What stays before a run is what stood before it, but blanks.            *)
LEMMA BeforeIs ==
  ASSUME NEW t \in Seq(Symbol), NEW p \in 1 .. Len(t)
  PROVE  \E r \in 0 .. p - 1, w \in Seq(Symbol) :
           /\ Before(t, p) = SubSeq(t, 1, r) \o w /\ \A i \in 1 .. Len(w) : w[i] \in Blank
           /\ \A i \in r + 1 .. p - 1 : t[i] \in Blank
<1> DEFINE a == LineStart(t, p)
<1>1. a \in 1 .. p /\ Len(t) \in Nat BY LineStarts
<1>2. CodeBefore(t, p) <=> \E i \in a .. p - 1 : t[i] \notin Blank BY CodeIsBefore
<1>3. \A i \in a .. p - 1 : t[i] \in Blank => t[i] = "sp" BY BlanksOfLine
<1>4. Before(t, p) = IF CodeBefore(t, p) THEN SubSeq(t, 1, Solid(t, a, p - 1)) \o <<"nl">> ELSE SubSeq(t, 1, a - 1)
  BY DEF Before
<1> HIDE DEF a
<1>5. CASE CodeBefore(t, p)
  <2>1. a \in Nat \ {0} /\ p - 1 \in Nat BY <1>1
  <2>2. \E i \in a .. p - 1 : t[i] # "sp" BY <1>2, <1>5 DEF Blank
  <2> DEFINE r == Solid(t, a, p - 1)
             w == <<"nl">>
  <2>3. r \in a .. p - 1 /\ \A k \in r + 1 .. p - 1 : t[k] = "sp" BY <2>1, <2>2, SolidIs
  <2>4. w \in Seq(Symbol) /\ \A i \in 1 .. Len(w) : w[i] \in Blank BY DEF Symbol, Blank
  <2>5. Before(t, p) = SubSeq(t, 1, r) \o w BY <1>4, <1>5
  <2> HIDE DEF r, w
  <2>6. r \in 0 .. p - 1 /\ \A i \in r + 1 .. p - 1 : t[i] \in Blank BY <1>1, <2>3 DEF Blank
  <2>7. QED BY <2>4, <2>5, <2>6
<1>6. CASE ~CodeBefore(t, p)
  <2> DEFINE r == a - 1
             w == << >>
  <2>1. w \in Seq(Symbol) /\ \A i \in 1 .. Len(w) : w[i] \in Blank OBVIOUS
  <2>2. r \in 0 .. p - 1 /\ r + 1 = a BY <1>1
  <2>3. SubSeq(t, 1, r) \in Seq(Symbol) BY <2>2
  <2>4. Before(t, p) = SubSeq(t, 1, r) \o w BY <1>4, <1>6, <2>3, ConcatEmptySeq
  <2>5. \A i \in r + 1 .. p - 1 : t[i] \in Blank BY <1>2, <1>6, <2>2
  <2> HIDE DEF r, w
  <2>6. QED BY <2>1, <2>2, <2>4, <2>5
<1>7. QED BY <1>5, <1>6

(* Indentation is blank.                                                   *)
LEMMA IndentIsBlank ==
  ASSUME NEW t \in Seq(Symbol), NEW p \in 1 .. Len(t)
  PROVE  Indent(t, p) \in Seq(Symbol) /\ \A i \in 1 .. Len(Indent(t, p)) : Indent(t, p)[i] \in Blank
<1> DEFINE a == LineStart(t, p)
           lead == {i \in a .. p : \A k \in a .. i - 1 : t[k] = "sp"}
           m == CHOOSE i \in lead : \A k \in lead : k <= i
<1>1. a \in 1 .. p /\ p \in Nat /\ Len(t) \in Nat BY LineStarts
<1>2. Indent(t, p) = SubSeq(t, a, m - 1) BY DEF Indent
<1> HIDE DEF a
<1>3. a \in lead /\ lead \in SUBSET (0 .. p) BY <1>1
<1>4. m \in lead
  <2> HIDE DEF lead
  <2>1. \E i \in lead : \A k \in lead : k <= i BY <1>1, <1>3, LastElement
  <2>2. QED BY <2>1
<1> HIDE DEF m
<1>5. m \in a .. p /\ \A k \in a .. m - 1 : t[k] = "sp" BY <1>4
<1>6. SubSeq(t, a, m - 1) \in Seq(Symbol) /\ Len(SubSeq(t, a, m - 1)) = m - a BY <1>1, <1>5
<1>7. ASSUME NEW i \in 1 .. m - a PROVE SubSeq(t, a, m - 1)[i] = "sp"
  <2>1. a + i - 1 \in a .. m - 1 /\ SubSeq(t, a, m - 1)[i] = t[a + i - 1] BY <1>1, <1>5
  <2>2. QED BY <1>5, <2>1
<1>8. QED BY <1>2, <1>6, <1>7 DEF Blank

(* What the scan can be in; a pair that has been read has a second symbol. *)
ScanState(quotes) == [in : {"code", "line", "block"} \union quotes, depth : Int, half : BOOLEAN]

(* Every state the scan passes through is one of ScanState.                *)
LEMMA ScanStates ==
  ASSUME NEW text, Len(text) \in Nat, NEW quotes, "line" \notin quotes, NEW broken
  PROVE  /\ \A i \in 0 .. Len(text) : Scanned(text, quotes, broken)[i] \in ScanState(quotes)
         /\ \A i \in 1 .. Len(text) : Scanned(text, quotes, broken)[i].half => i < Len(text)
<1> DEFINE at == Scanned(text, quotes, broken)
           l == Len(text)
           S == {i \in 0 .. l : at[i] \in ScanState(quotes)}
<1>0. l \in Nat OBVIOUS
<1>1. at[0] = Code /\ \A i \in 1 .. l : at[i] = ScanOn(at[i - 1], text, i, quotes, broken) BY ScanSteps
<1>2. Code \in ScanState(quotes) /\ Code.half = FALSE BY DEF Code, ScanState
<1> HIDE DEF at
<1>3. ASSUME NEW i \in 1 .. l, NEW was \in ScanState(quotes)
      PROVE  /\ ScanOn(was, text, i, quotes, broken) \in ScanState(quotes)
             /\ ScanOn(was, text, i, quotes, broken).half => i < l
  <2>1. CASE was.half BY <2>1 DEF ScanOn, ScanState
  <2>2. CASE ~was.half
    <3> DEFINE c == text[i]
    <3>1. CASE was.in = "line"
      <4>1. ScanOn(was, text, i, quotes, broken) \in {Code, was} BY <2>2, <3>1 DEF ScanOn
      <4>2. QED BY <1>2, <2>2, <4>1
    <3>2. ASSUME was.in # "line"
          PROVE  \/ ScanOn(was, text, i, quotes, broken) \in {Code, was}
                 \/ ScanOn(was, text, i, quotes, broken) = [was EXCEPT !.depth = @ + 1, !.half = TRUE] /\ i < l
                 \/ /\ ScanOn(was, text, i, quotes, broken)
                         = [in |-> IF was.depth = 1 THEN "code" ELSE "block", depth |-> was.depth - 1, half |-> TRUE]
                    /\ i < l
                 \/ ScanOn(was, text, i, quotes, broken) = [was EXCEPT !.half = TRUE] /\ i < l
                 \/ ScanOn(was, text, i, quotes, broken) = [Code EXCEPT !.in = "line"]
                 \/ ScanOn(was, text, i, quotes, broken) = [in |-> "block", depth |-> 1, half |-> TRUE] /\ i < l
                 \/ ScanOn(was, text, i, quotes, broken) = [Code EXCEPT !.in = c] /\ c \in quotes
      BY <2>2, <3>2 DEF ScanOn
    <3> HIDE DEF c
    <3>3. was \in [in : {"code", "line", "block"} \union quotes, depth : Int, half : BOOLEAN] BY DEF ScanState
    <3>4. /\ [was EXCEPT !.depth = @ + 1, !.half = TRUE] \in ScanState(quotes)
          /\ [was EXCEPT !.half = TRUE] \in ScanState(quotes)
      <4>1. was.depth \in Int /\ was.depth + 1 \in Int BY <3>3
      <4>2. [was EXCEPT !.half = TRUE] \in ScanState(quotes) BY <3>3 DEF ScanState
      <4>3. [was EXCEPT !.depth = was.depth + 1, !.half = TRUE] \in ScanState(quotes) BY <3>3, <4>1 DEF ScanState
      <4>4. QED BY <4>2, <4>3
    <3>5. [in |-> IF was.depth = 1 THEN "code" ELSE "block", depth |-> was.depth - 1, half |-> TRUE]
            \in ScanState(quotes)
      <4>1. was.depth \in Int BY <3>3
      <4>2. (IF was.depth = 1 THEN "code" ELSE "block") \in {"code", "line", "block"} \union quotes OBVIOUS
      <4>3. was.depth - 1 \in Int BY <4>1
      <4>4. QED BY <4>2, <4>3 DEF ScanState
    <3>6. Code \in [in : {"code", "line", "block"} \union quotes, depth : Int, half : BOOLEAN] BY <1>2 DEF ScanState
    <3>7. [Code EXCEPT !.in = "line"] \in ScanState(quotes) /\ ~[Code EXCEPT !.in = "line"].half
      BY <1>2, <3>6 DEF ScanState
    <3>8. c \in quotes => [Code EXCEPT !.in = c] \in ScanState(quotes) /\ ~[Code EXCEPT !.in = c].half
      BY <1>2, <3>6 DEF ScanState
    <3>9. [in |-> "block", depth |-> 1, half |-> TRUE] \in ScanState(quotes) BY DEF ScanState
    <3>10. QED BY <1>2, <2>2, <3>1, <3>2, <3>4, <3>5, <3>7, <3>8, <3>9
  <2>3. QED BY <2>1, <2>2
<1>4. 0 \in S BY <1>0, <1>1, <1>2
<1>5. ASSUME NEW i \in 0 .. l, i \in S, i < l PROVE i + 1 \in S
  <2>1. i + 1 \in 1 .. l /\ i + 1 \in 0 .. l /\ (i + 1) - 1 = i BY <1>0, <1>5
  <2>2. at[i + 1] = ScanOn(at[i], text, i + 1, quotes, broken) BY <1>1, <2>1
  <2>3. QED BY <1>3, <1>5, <2>1, <2>2
<1>6. 0 .. l \subseteq S
  <2> HIDE DEF S
  <2>1. QED BY <1>0, <1>4, <1>5, UpToInduction
<1>7. \A i \in 0 .. l : at[i] \in ScanState(quotes) BY <1>6
<1>8. \A i \in 1 .. l : at[i].half => i < l
  <2>1. ASSUME NEW i \in 1 .. l PROVE at[i].half => i < l
    <3>1. i - 1 \in 0 .. l BY <1>0
    <3>2. at[i - 1] \in ScanState(quotes) /\ at[i] = ScanOn(at[i - 1], text, i, quotes, broken) BY <1>1, <1>7, <3>1
    <3>3. QED BY <1>3, <3>2
  <2>2. QED BY <2>1
<1>9. QED BY <1>7, <1>8 DEF at

(* AfterBlank is the first place that is not blank, or the end of the      *)
(* text.                                                                   *)
LEMMA AfterBlankIs ==
  ASSUME NEW t \in Seq(Symbol), NEW i \in 1 .. Len(t) + 1
  PROVE  AfterBlank(t, i) \in i .. Len(t) + 1
<1> DEFINE Is(j) == /\ \A k \in i .. j - 1 : t[k] \in Blank
                    /\ j <= Len(t) => t[j] \notin Blank
           S == {j \in i .. Len(t) + 1 : j = Len(t) + 1 \/ t[j] \notin Blank}
<1>1. Len(t) + 1 \in S /\ S \in SUBSET Nat OBVIOUS
<1>2. PICK j \in S : \A k \in S : j <= k
  <2> HIDE DEF S
  <2>1. QED BY <1>1, LeastElement
<1>3. \A k \in i .. j - 1 : t[k] \in Blank
  <2>1. ASSUME NEW k \in i .. j - 1, t[k] \notin Blank PROVE FALSE
    <3>1. k \in S /\ k < j BY <1>2, <2>1
    <3>2. QED BY <1>2, <3>1
  <2>2. QED BY <2>1
<1>4. j \in i .. Len(t) + 1 /\ Is(j) BY <1>2, <1>3
<1>5. AfterBlank(t, i) = CHOOSE m \in i .. Len(t) + 1 : Is(m) BY DEF AfterBlank
<1> HIDE DEF Is
<1>6. QED BY <1>4, <1>5

-----------------------------------------------------------------------------
(* Formatter: the pieces of a text.                                        *)

(* What a piece is, where one that begins at p ends, the scan format_sv0   *)
(* takes the pieces from.                                                  *)
OnePiece == [kind : {"attr", "comment", "code"}, start : Nat, end : Nat]

PieceFits(t, piece, p) == piece \in OnePiece /\ piece.start = p /\ p < piece.end /\ piece.end <= Len(t) + 1

ScanOf(t) == Scanned(t, {"quote", "tick"}, {"tick"})

(* Least chooses an element.                                               *)
LEMMA LeastIs ==
  ASSUME NEW S \in SUBSET Nat, S # {}
  PROVE  Least(S) \in S
<1>1. \E i \in S : \A j \in S : i <= j BY LeastElement
<1>2. QED BY <1>1 DEF Least

(* The piece at a solid place begins there and holds at least one symbol   *)
(* of the text.                                                            *)
LEMMA PieceIsSound ==
  ASSUME NEW t \in Seq(Symbol), NEW p \in 1 .. Len(t)
  PROVE  PieceFits(t, PieceAt(t, ScanOf(t), p), p)
<1> DEFINE at == ScanOf(t)
           l == Len(t)
           back == {i \in p .. l : at[i].in = "code"}
           shut == Least(back)
           open == AfterBlank(t, p + 1)
<1>0. l \in Nat /\ p \in Nat OBVIOUS
<1>1. \A i \in 1 .. l : at[i].half => i < l
  <2>1. "line" \notin {"quote", "tick"} OBVIOUS
  <2>2. QED BY <1>0, <2>1, ScanStates DEF ScanOf
<1>2. open \in p + 1 .. l + 1
  <2>1. p + 1 \in 1 .. l + 1 BY <1>0
  <2>2. QED BY <2>1, AfterBlankIs
<1>3. back # {} => shut \in back
  <2>1. back \in SUBSET Nat BY <1>0
  <2> HIDE DEF back
  <2>2. QED BY <2>1, LeastIs
<1>4. PICK ends \in SUBSET (open + 1 .. l) :
        PieceAt(t, at, p) =
          IF at[p].in # "code"
          THEN Piece(IF at[p].in \in {"line", "block"} THEN "comment" ELSE "code", p,
                     IF back = {} THEN l + 1
                     ELSE IF t[shut] = "nl" THEN shut ELSE IF at[shut].half THEN shut + 2 ELSE shut + 1)
          ELSE IF t[p] = "#" /\ open <= l /\ t[open] = "["
          THEN Piece("attr", p, IF ends = {} THEN l + 1 ELSE Least(ends) + 1)
          ELSE Piece("code", p, p + 1)
  <2> DEFINE deep == CHOOSE deep : deep =
               [i \in p .. l |->
                  LET was == IF i = p THEN 0 ELSE deep[i - 1]
                  IN IF Hidden(at, i) THEN was
                     ELSE IF t[i] = "[" THEN was + 1 ELSE IF t[i] = "]" THEN was - 1 ELSE was]
             ends == {i \in open + 1 .. l : deep[i] = 0}
  <2> HIDE DEF at
  <2>1. ends \in SUBSET (open + 1 .. l) OBVIOUS
  <2>2. QED BY <2>1 DEF PieceAt
<1> HIDE DEF at, open
<1>5. CASE at[p].in # "code"
  <2> DEFINE end == IF back = {} THEN l + 1
                    ELSE IF t[shut] = "nl" THEN shut ELSE IF at[shut].half THEN shut + 2 ELSE shut + 1
             form == IF at[p].in \in {"line", "block"} THEN "comment" ELSE "code"
  <2>1. back # {} => shut \in p + 1 .. l
    <3>1. p \notin back BY <1>5
    <3>2. back \subseteq p .. l OBVIOUS
    <3> HIDE DEF back, shut
    <3>3. back # {} => shut \in p .. l /\ shut # p BY <1>3, <3>1, <3>2
    <3> HIDE DEF l
    <3>4. QED BY <1>0, <3>3
  <2>2. back # {} /\ at[shut].half => shut < l
    <3>1. back # {} => shut \in 1 .. l BY <1>0, <2>1
    <3> HIDE DEF back, shut
    <3>2. QED BY <1>1, <3>1
  <2>3. PieceAt(t, at, p) = Piece(form, p, end) BY <1>4, <1>5
  <2> HIDE DEF back, shut
  <2>4. end \in p + 1 .. l + 1 BY <1>0, <2>1, <2>2
  <2>5. form \in {"comment", "code"} OBVIOUS
  <2> HIDE DEF end, form
  <2>6. QED BY <1>0, <2>3, <2>4, <2>5 DEF Piece, PieceFits, OnePiece, at
<1>6. CASE at[p].in = "code" /\ t[p] = "#" /\ open <= l /\ t[open] = "["
  <2> DEFINE end == IF ends = {} THEN l + 1 ELSE Least(ends) + 1
  <2>1. ends \in SUBSET Nat BY <1>0, <1>2
  <2>2. ends # {} => Least(ends) \in open + 1 .. l BY <2>1, LeastIs
  <2>3. end \in p + 1 .. l + 1 BY <1>0, <1>2, <2>2
  <2>4. PieceAt(t, at, p) = Piece("attr", p, end) BY <1>4, <1>6
  <2> HIDE DEF end
  <2>5. QED BY <1>0, <2>3, <2>4 DEF Piece, PieceFits, OnePiece, at
<1>7. CASE at[p].in = "code" /\ ~(t[p] = "#" /\ open <= l /\ t[open] = "[")
  <2>1. PieceAt(t, at, p) = Piece("code", p, p + 1) BY <1>4, <1>7
  <2>2. p + 1 \in p + 1 .. l + 1 BY <1>0
  <2>3. QED BY <1>0, <2>1, <2>2 DEF Piece, PieceFits, OnePiece, at
<1>8. QED BY <1>5, <1>6, <1>7

(* Pieces from p on: one after another, with only blanks between them.     *)
PieceAfter(t, ps, p, k) ==
  /\ PieceFits(t, ps[k], ps[k].start) /\ ps[k].start \in p .. Len(t) /\ t[ps[k].start] \notin Blank
  /\ k = 1 => \A i \in p .. ps[k].start - 1 : t[i] \in Blank
  /\ k > 1 => ps[k - 1].end <= ps[k].start /\ \A i \in ps[k - 1].end .. ps[k].start - 1 : t[i] \in Blank

(* Pieces from p on: each begins at or after the end of the one before     *)
(* it, with blanks between.                                                *)
PiecesFrom(t, ps, p) == ps \in Seq(OnePiece) /\ \A k \in 1 .. Len(ps) : PieceAfter(t, ps, p, k)

(* A blank before the pieces changes nothing.                              *)
LEMMA PiecesFromBlank ==
  ASSUME NEW t \in Seq(Symbol), NEW p \in 1 .. Len(t), t[p] \in Blank, NEW ps, PiecesFrom(t, ps, p + 1)
  PROVE  PiecesFrom(t, ps, p)
<1> SUFFICES ASSUME NEW k \in 1 .. Len(ps) PROVE PieceAfter(t, ps, p, k)
  BY DEF PiecesFrom
<1>1. PieceAfter(t, ps, p + 1, k) BY DEF PiecesFrom
<1>2. ps[k].start \in p .. Len(t) BY <1>1 DEF PieceAfter
<1>3. k = 1 => \A i \in p .. ps[k].start - 1 : t[i] \in Blank BY <1>1 DEF PieceAfter
<1>4. QED BY <1>1, <1>2, <1>3 DEF PieceAfter

(* One piece more in front.                                                *)
LEMMA PiecesFromPiece ==
  ASSUME NEW t \in Seq(Symbol), NEW p \in 1 .. Len(t), t[p] \notin Blank,
         NEW x, PieceFits(t, x, p), NEW ps, PiecesFrom(t, ps, x.end)
  PROVE  PiecesFrom(t, <<x>> \o ps, p)
<1> DEFINE qs == <<x>> \o ps
<1>1. x \in OnePiece /\ x.start = p /\ p < x.end /\ x.end <= Len(t) + 1 /\ x.end \in Nat BY DEF PieceFits, OnePiece
<1>2. ps \in Seq(OnePiece) /\ \A k \in 1 .. Len(ps) : PieceAfter(t, ps, x.end, k) BY DEF PiecesFrom
<1>3. /\ qs \in Seq(OnePiece) /\ Len(qs) = Len(ps) + 1 /\ qs[1] = x /\ Len(ps) \in Nat
      /\ \A k \in 1 .. Len(ps) : qs[k + 1] = ps[k]
  BY <1>1, <1>2
<1> HIDE DEF qs
<1>4. PieceAfter(t, qs, p, 1) BY <1>1, <1>3 DEF PieceAfter
<1>5. ASSUME NEW k \in 1 .. Len(ps) PROVE PieceAfter(t, qs, p, k + 1)
  <2>1. PieceAfter(t, ps, x.end, k) BY <1>2
  <2>2. qs[k + 1] = ps[k] /\ k + 1 > 1 /\ k + 1 # 1 /\ (k + 1) - 1 = k BY <1>3
  <2>3. ps[k].start \in p .. Len(t) BY <1>1, <2>1 DEF PieceAfter
  <2>4. CASE k = 1
    <3>1. qs[k] = x BY <1>3, <2>4
    <3>2. x.end <= ps[k].start /\ \A i \in x.end .. ps[k].start - 1 : t[i] \in Blank BY <2>1, <2>4 DEF PieceAfter
    <3>3. QED BY <2>1, <2>2, <2>3, <3>1, <3>2 DEF PieceAfter
  <2>5. CASE k # 1
    <3>1. k - 1 \in 1 .. Len(ps) /\ (k - 1) + 1 = k /\ k > 1 BY <1>3, <2>5
    <3>2. qs[k] = ps[k - 1] BY <1>3, <3>1
    <3>3. ps[k - 1].end <= ps[k].start /\ \A i \in ps[k - 1].end .. ps[k].start - 1 : t[i] \in Blank
      BY <2>1, <3>1 DEF PieceAfter
    <3>4. QED BY <2>1, <2>2, <2>3, <3>2, <3>3 DEF PieceAfter
  <2>6. QED BY <2>4, <2>5
<1>6. ASSUME NEW k \in 1 .. Len(qs) PROVE PieceAfter(t, qs, p, k)
  <2>1. CASE k = 1 BY <1>4, <2>1
  <2>2. CASE k # 1
    <3>1. k - 1 \in 1 .. Len(ps) /\ (k - 1) + 1 = k BY <1>3, <2>2
    <3>2. QED BY <1>5, <3>1
  <2>3. QED BY <2>1, <2>2
<1>7. QED BY <1>3, <1>6 DEF PiecesFrom, qs

(* The pieces of a text stand one after another with only blanks between   *)
(* them.                                                                   *)
LEMMA PiecesFollow ==
  ASSUME NEW t \in Seq(Symbol)
  PROVE  PiecesFrom(t, Pieces(t), 1)
<1> DEFINE l == Len(t)
           at == ScanOf(t)
           I == 1 .. l + 1
           V == Seq(OnePiece)
           Step(f, p) == IF p > l THEN << >>
                         ELSE IF t[p] \in Blank THEN f[p + 1]
                         ELSE <<PieceAt(t, at, p)>> \o f[PieceAt(t, at, p).end]
           rank == [p \in I |-> l + 1 - p]
           G == [x \in [I -> V] \X I |-> Step(x[1], x[2])]
           To(f) == f = [p \in I |-> Step(f, p)]
<1>0. l \in Nat OBVIOUS
<1>1. \A p \in 1 .. l : PieceFits(t, PieceAt(t, at, p), p) BY PieceIsSound
<1> HIDE DEF l, at
<1>2. rank \in [I -> 0 .. l]
  <2>1. \A p \in I : l + 1 - p \in 0 .. l BY <1>0
  <2>2. QED BY <2>1
<1>3. << >> \in V /\ V # {}
  <2>1. << >> \in Seq(OnePiece) BY EmptySeq
  <2>2. QED BY <2>1
<1>4. ASSUME NEW p \in I, p <= l
      PROVE  /\ p \in 1 .. l /\ p + 1 \in I /\ rank[p + 1] < rank[p]
             /\ PieceAt(t, at, p) \in OnePiece
             /\ PieceAt(t, at, p).end \in I /\ rank[PieceAt(t, at, p).end] < rank[p] /\ p < PieceAt(t, at, p).end
  <2>1. p \in 1 .. l /\ p + 1 \in I BY <1>0, <1>4
  <2>2. PieceFits(t, PieceAt(t, at, p), p) BY <1>1, <2>1
  <2> DEFINE x == PieceAt(t, at, p)
  <2>3. x \in OnePiece /\ x.end \in Nat /\ p < x.end /\ x.end <= l + 1 BY <2>2 DEF PieceFits, OnePiece, l
  <2> HIDE DEF x
  <2>4. x.end \in I BY <1>0, <2>1, <2>3
  <2>5. rank[p] = l + 1 - p /\ rank[p + 1] = l + 1 - (p + 1) /\ rank[x.end] = l + 1 - x.end BY <2>1, <2>4
  <2>6. QED BY <1>0, <2>1, <2>3, <2>4, <2>5 DEF x
<1>5. ASSUME NEW f \in [I -> V], NEW p \in I PROVE Step(f, p) \in V /\ G[<<f, p>>] = Step(f, p)
  <2>1. Step(f, p) \in V
    <3>1. CASE p > l BY <1>3, <3>1
    <3>2. CASE ~(p > l)
      <4>1. p <= l BY <1>0, <3>2
      <4>2. p + 1 \in I /\ PieceAt(t, at, p) \in OnePiece /\ PieceAt(t, at, p).end \in I BY <1>4, <4>1
      <4>3. f[p + 1] \in Seq(OnePiece) /\ f[PieceAt(t, at, p).end] \in Seq(OnePiece) BY <4>2
      <4>4. <<PieceAt(t, at, p)>> \in Seq(OnePiece) BY <4>2
      <4>5. QED BY <3>2, <4>3, <4>4
    <3>3. QED BY <3>1, <3>2
  <2>2. <<f, p>> \in [I -> V] \X I OBVIOUS
  <2> HIDE DEF Step, I, V
  <2>3. QED BY <2>1, <2>2
<1>6. G \in [[I -> V] \X I -> V]
  <2>1. ASSUME NEW x \in [I -> V] \X I PROVE Step(x[1], x[2]) \in V
    <3>1. x[1] \in [I -> V] /\ x[2] \in I OBVIOUS
    <3> HIDE DEF Step, I, V, G
    <3>2. QED BY <1>5, <3>1
  <2> HIDE DEF Step, I, V
  <2>2. QED BY <2>1
<1>7. ASSUME NEW h \in [I -> V], NEW g \in [I -> V], NEW p \in I, \A j \in I : rank[j] < rank[p] => h[j] = g[j]
      PROVE  G[<<h, p>>] = G[<<g, p>>]
  <2>1. p <= l => h[p + 1] = g[p + 1] /\ h[PieceAt(t, at, p).end] = g[PieceAt(t, at, p).end]
    <3> HIDE DEF I, V, rank
    <3>1. QED BY <1>4, <1>7
  <2>2. p > l \/ p <= l BY <1>0
  <2>3. Step(h, p) = Step(g, p) BY <2>1, <2>2
  <2> HIDE DEF Step, I, V, G
  <2>4. QED BY <1>5, <2>3
<1>8. PICK f \in [I -> V] : Solves(f, I, G)
  <2> HIDE DEF rank, G, I, V
  <2>1. \A h, g \in [I -> V], i \in I :
          (\A j \in I : rank[j] < rank[i] => h[j] = g[j]) => G[<<h, i>>] = G[<<g, i>>]
    BY <1>7
  <2>2. V # {} BY <1>3
  <2>3. Ranked(I, V, l, rank, G) BY <1>0, <1>2, <1>6, <2>1, <2>2 DEF Ranked
  <2>4. QED BY <2>3, RankedRecursion
<1>9. To(f)
  <2>1. \A p \in I : f[p] = Step(f, p)
    <3> HIDE DEF Step, I, V, G
    <3>1. QED BY <1>5, <1>8 DEF Solves
  <2> HIDE DEF Step, I, V, G
  <2>2. QED BY <2>1
<1>10. PICK g : To(g) /\ Pieces(t) = g[1]
  <2>1. Pieces(t) = (CHOOSE g : To(g))[1] BY DEF Pieces, ScanOf, at, l
  <2> HIDE DEF To
  <2>2. To(CHOOSE g : To(g)) BY <1>9
  <2>3. QED BY <2>1, <2>2
<1>11. \A p \in I : g[p] = Step(g, p) BY <1>10
<1> DEFINE S == {m \in 0 .. l : PiecesFrom(t, g[l + 1 - m], l + 1 - m)
                               /\ \A j \in l + 1 - m .. l + 1 : PiecesFrom(t, g[j], j)}
<1>12. 0 \in S
  <2>1. l + 1 \in I /\ l + 1 > l /\ l + 1 - 0 = l + 1 BY <1>0
  <2>2. g[l + 1] = << >> BY <1>11, <2>1
  <2>3. PiecesFrom(t, << >>, l + 1) BY DEF PiecesFrom
  <2>4. \A j \in l + 1 - 0 .. l + 1 : j = l + 1 BY <1>0
  <2>5. QED BY <1>0, <2>1, <2>2, <2>3, <2>4
<1>13. ASSUME NEW m \in 0 .. l, m \in S, m < l PROVE m + 1 \in S
  <2> DEFINE p == l + 1 - (m + 1)
             x == PieceAt(t, at, p)
  <2>1. p \in 1 .. l /\ p \in I /\ p <= l /\ ~(p > l) /\ p + 1 = l + 1 - m /\ m + 1 \in 0 .. l BY <1>0, <1>13
  <2>2. \A j \in p + 1 .. l + 1 : PiecesFrom(t, g[j], j) BY <1>13, <2>1
  <2>3. g[p] = IF t[p] \in Blank THEN g[p + 1] ELSE <<x>> \o g[x.end] BY <1>11, <2>1
  <2>4. x.end \in p + 1 .. l + 1 /\ PieceFits(t, x, p)
    <3>1. x.end \in I /\ p < x.end BY <1>4, <2>1
    <3>2. PieceFits(t, x, p) BY <1>1, <2>1
    <3> HIDE DEF x, p
    <3>3. QED BY <1>0, <2>1, <3>1, <3>2
  <2>5. p + 1 \in p + 1 .. l + 1 BY <1>0, <2>1
  <2>6. p \in 1 .. Len(t) BY <2>1 DEF l
  <2> HIDE DEF p, x
  <2>7. PiecesFrom(t, g[p], p)
    <3>1. CASE t[p] \in Blank BY <2>2, <2>3, <2>5, <2>6, <3>1, PiecesFromBlank
    <3>2. CASE t[p] \notin Blank BY <2>2, <2>3, <2>4, <2>6, <3>2, PiecesFromPiece
    <3>3. QED BY <3>1, <3>2
  <2>8. \A j \in p .. l + 1 : j = p \/ j \in p + 1 .. l + 1 BY <1>0, <2>1
  <2>9. \A j \in p .. l + 1 : PiecesFrom(t, g[j], j) BY <2>2, <2>7, <2>8
  <2>10. QED BY <2>1, <2>7, <2>9 DEF p
<1>14. l \in S
  <2> HIDE DEF S
  <2>1. 0 .. l \subseteq S BY <1>0, <1>12, <1>13, UpToInduction
  <2>2. QED BY <1>0, <2>1
<1>15. l + 1 - l = 1 BY <1>0
<1>16. QED BY <1>10, <1>14, <1>15

(* A text cut in two is the two parts joined.                              *)
LEMMA SubSeqsJoin ==
  ASSUME NEW t \in Seq(Symbol), NEW i \in 1 .. Len(t) + 1, NEW c \in i - 1 .. Len(t), NEW d \in c .. Len(t)
  PROVE  /\ SubSeq(t, i, c) \in Seq(Symbol) /\ SubSeq(t, c + 1, d) \in Seq(Symbol)
         /\ SubSeq(t, i, d) \in Seq(Symbol) /\ SubSeq(t, i, d) = SubSeq(t, i, c) \o SubSeq(t, c + 1, d)
<1>0. i \in Nat /\ c \in Nat /\ d \in Nat /\ Len(t) \in Nat /\ 1 <= i /\ i <= c + 1 /\ c <= d /\ d <= Len(t) OBVIOUS
<1>1. SubSeq(t, i, c) \in Seq(Symbol) /\ SubSeq(t, c + 1, d) \in Seq(Symbol) /\ SubSeq(t, i, d) \in Seq(Symbol)
  BY <1>0
<1>2. SubSeq(t, i, d) = SubSeq(t, i, c) \o SubSeq(t, c + 1, d) BY ConcatAdjacentSubSeq
<1>3. QED BY <1>1, <1>2

LEMMA SolidsSplit ==
  ASSUME NEW t \in Seq(Symbol), NEW i \in 1 .. Len(t) + 1, NEW c \in i - 1 .. Len(t), NEW d \in c .. Len(t)
  PROVE  Solids(SubSeq(t, i, d)) = Solids(SubSeq(t, i, c)) \o Solids(SubSeq(t, c + 1, d))
BY SubSeqsJoin, SolidsConcat

LEMMA SolidsOfBlankPart ==
  ASSUME NEW t \in Seq(Symbol), NEW i \in 1 .. Len(t) + 1, NEW d \in i - 1 .. Len(t),
         \A k \in i .. d : t[k] \in Blank
  PROVE  Solids(SubSeq(t, i, d)) = << >>
<1> DEFINE s == SubSeq(t, i, d)
<1>0. i \in Nat /\ d \in Nat /\ Len(t) \in Nat /\ 1 <= i /\ i <= d + 1 /\ d <= Len(t) OBVIOUS
<1>1. s \in Seq(Symbol) /\ Len(s) = d - i + 1 /\ \A k \in 1 .. d - i + 1 : s[k] = t[i + k - 1] BY <1>0
<1> HIDE DEF s
<1>2. \A k \in 1 .. Len(s) : s[k] \in Blank
  <2>1. ASSUME NEW k \in 1 .. Len(s) PROVE s[k] \in Blank
    <3>1. i + k - 1 \in i .. d BY <1>0, <1>1
    <3>2. QED BY <1>1, <3>1
  <2>2. QED BY <2>1
<1>3. QED BY <1>1, <1>2, SolidsOfBlanks DEF s

(* The tail of a text whose beginning is that of another.                  *)
LEMMA TailOf ==
  ASSUME NEW t \in Seq(Symbol), NEW X \in Seq(Symbol), NEW c \in 0 .. Len(t), NEW i \in 1 .. c + 1
  PROVE  LET u == SubSeq(t, 1, c) \o X IN SubSeq(u, i, Len(u)) = SubSeq(t, i, c) \o X
<1> DEFINE h == SubSeq(t, 1, c)
           u == h \o X
           s == SubSeq(t, i, c)
           w == SubSeq(u, i, Len(u))
<1>0. i \in Nat /\ c \in Nat /\ Len(t) \in Nat /\ Len(X) \in Nat /\ 1 <= i /\ i <= c + 1 /\ c <= Len(t) OBVIOUS
<1>1. h \in Seq(Symbol) /\ Len(h) = c /\ \A k \in 1 .. c : h[k] = t[k] BY <1>0
<1>2. s \in Seq(Symbol) /\ Len(s) = c - i + 1 /\ \A k \in 1 .. c - i + 1 : s[k] = t[i + k - 1] BY <1>0
<1> HIDE DEF h, s
<1>3. /\ u \in Seq(Symbol) /\ Len(u) = c + Len(X)
      /\ \A k \in 1 .. c + Len(X) : u[k] = IF k <= c THEN h[k] ELSE X[k - c] BY <1>0, <1>1
<1> HIDE DEF u
<1>4. /\ w \in Seq(Symbol) /\ Len(w) = c + Len(X) - i + 1
      /\ \A k \in 1 .. c + Len(X) - i + 1 : w[k] = u[i + k - 1] BY <1>0, <1>3
<1>5. /\ s \o X \in Seq(Symbol) /\ Len(s \o X) = c + Len(X) - i + 1
      /\ \A k \in 1 .. c + Len(X) - i + 1 : (s \o X)[k] = IF k <= c - i + 1 THEN s[k] ELSE X[k - (c - i + 1)]
  <2>1. Len(s) + Len(X) = c + Len(X) - i + 1 BY <1>0, <1>2
  <2>2. /\ s \o X \in Seq(Symbol) /\ Len(s \o X) = Len(s) + Len(X)
        /\ \A k \in 1 .. Len(s) + Len(X) : (s \o X)[k] = IF k <= Len(s) THEN s[k] ELSE X[k - Len(s)]
    BY <1>2, ConcatProperties
  <2>3. QED BY <1>2, <2>1, <2>2
<1> HIDE DEF w
<1>6. ASSUME NEW k \in 1 .. c + Len(X) - i + 1 PROVE w[k] = (s \o X)[k]
  <2>1. i + k - 1 \in 1 .. c + Len(X) BY <1>0
  <2>2. CASE k <= c - i + 1
    <3>1. i + k - 1 <= c /\ i + k - 1 \in 1 .. c /\ k \in 1 .. c - i + 1 BY <1>0, <2>2
    <3>2. w[k] = t[i + k - 1] BY ONLY <1>1, <1>3, <1>4, <2>1, <3>1, k \in 1 .. c + Len(X) - i + 1
    <3>3. (s \o X)[k] = t[i + k - 1] BY ONLY <1>2, <1>5, <2>2, <3>1, k \in 1 .. c + Len(X) - i + 1
    <3>4. QED BY ONLY <3>2, <3>3
  <2>3. CASE ~(k <= c - i + 1)
    <3>1. ~(i + k - 1 <= c) /\ (i + k - 1) - c = k - (c - i + 1) BY <1>0, <2>3
    <3>2. QED BY <1>3, <1>4, <1>5, <2>1, <2>3, <3>1
  <2>4. QED BY <2>2, <2>3
<1>7. w = s \o X BY <1>4, <1>5, <1>6, SeqEqual
<1>8. QED BY <1>7 DEF w, u, h, s

(* Later pieces start later.                                               *)
LEMMA PiecesAreInOrder ==
  ASSUME NEW t \in Seq(Symbol), NEW ps, PiecesFrom(t, ps, 1),
         NEW i \in 1 .. Len(ps), NEW j \in 1 .. Len(ps), i < j
  PROVE  ps[i].start < ps[j].start
<1> DEFINE S == {m \in 0 .. Len(ps) - i - 1 : ps[i].start < ps[i + 1 + m].start}
<1>0. ps \in Seq(OnePiece) /\ Len(ps) \in Nat /\ \A k \in 1 .. Len(ps) : PieceAfter(t, ps, 1, k) BY DEF PiecesFrom
<1>1. \A k \in 1 .. Len(ps) : ps[k] \in OnePiece BY <1>0
<1>2. ASSUME NEW k \in 1 .. Len(ps), k + 1 <= Len(ps) PROVE ps[k].start < ps[k + 1].start
  <2>1. k + 1 \in 1 .. Len(ps) /\ k + 1 > 1 /\ (k + 1) - 1 = k BY <1>0, <1>2
  <2>2. ps[k].end <= ps[k + 1].start BY <1>0, <2>1 DEF PieceAfter
  <2>3. ps[k].start < ps[k].end BY <1>0 DEF PieceAfter, PieceFits
  <2>4. ps[k].start \in Nat /\ ps[k].end \in Nat /\ ps[k + 1].start \in Nat BY <1>1, <2>1 DEF OnePiece
  <2>5. QED BY <2>2, <2>3, <2>4
<1>3. 0 \in S
  <2>1. i + 1 <= Len(ps) /\ i + 1 + 0 = i + 1 /\ 0 \in 0 .. Len(ps) - i - 1 BY <1>0
  <2>2. QED BY <1>2, <2>1
<1>4. ASSUME NEW m \in 0 .. Len(ps) - i - 1, m \in S, m < Len(ps) - i - 1 PROVE m + 1 \in S
  <2> DEFINE k == i + 1 + m
  <2>0. i \in Nat /\ m \in Nat /\ m + 1 <= Len(ps) - i - 1 /\ 1 <= i BY <1>0, <1>4
  <2>1. /\ k \in 1 .. Len(ps) /\ k + 1 <= Len(ps) /\ k + 1 = i + 1 + (m + 1) /\ k + 1 \in 1 .. Len(ps)
        /\ m + 1 \in 0 .. Len(ps) - i - 1 BY <1>0, <2>0
  <2>2. ps[i].start < ps[k].start BY <1>4
  <2> HIDE DEF k
  <2>3. ps[k].start < ps[k + 1].start BY <1>2, <2>1
  <2>4. ps[i].start \in Nat /\ ps[k].start \in Nat /\ ps[k + 1].start \in Nat BY <1>1, <2>1 DEF OnePiece
  <2>5. \A a, b, d \in Nat : a < b /\ b < d => a < d OBVIOUS
  <2>6. ps[i].start < ps[k + 1].start BY <2>2, <2>3, <2>4, <2>5, Zenon
  <2>7. QED BY <2>1, <2>6
<1>5. Len(ps) - i - 1 \in Nat /\ j - i - 1 \in 0 .. Len(ps) - i - 1 /\ i + 1 + (j - i - 1) = j BY <1>0
<1>6. j - i - 1 \in S
  <2> HIDE DEF S
  <2>1. 0 .. Len(ps) - i - 1 \subseteq S BY <1>3, <1>4, <1>5, UpToInduction
  <2>2. QED BY <1>5, <2>1
<1>7. QED BY <1>5, <1>6

(* Texts without a solid symbol.                                           *)
Blanks(s) == s \in Seq(Symbol) /\ Solids(s) = << >>

(* Line ends and spaces are blanks, so are blanks joined, and they add no  *)
(* solid symbol wherever they are put.                                     *)
LEMMA BlanksAre ==
  /\ Blanks(<<"nl">>) /\ Blanks(<<"sp">>)
  /\ \A s, t : Blanks(s) /\ Blanks(t) => Blanks(s \o t)
  /\ \A s \in Seq(Symbol) : (\A i \in 1 .. Len(s) : s[i] \in Blank) => Blanks(s)
  /\ \A s, t \in Seq(Symbol) : \A b : Blanks(b) => /\ s \o (b \o t) \in Seq(Symbol)
                                                   /\ Solids(s \o (b \o t)) = Solids(s) \o Solids(t)
  /\ \A s \in Seq(Symbol) : \A b : Blanks(b) => s \o b \in Seq(Symbol) /\ Solids(s \o b) = Solids(s)
<1>1. \A s \in Seq(Symbol) : (\A i \in 1 .. Len(s) : s[i] \in Blank) => Blanks(s) BY SolidsOfBlanks DEF Blanks
<1>2. Blanks(<<"nl">>) /\ Blanks(<<"sp">>)
  <2>1. <<"nl">> \in Seq(Symbol) /\ <<"sp">> \in Seq(Symbol) BY DEF Symbol, Blank
  <2>2. \A i \in 1 .. Len(<<"nl">>) : <<"nl">>[i] \in Blank BY DEF Blank
  <2>3. \A i \in 1 .. Len(<<"sp">>) : <<"sp">>[i] \in Blank BY DEF Blank
  <2>4. QED BY <1>1, <2>1, <2>2, <2>3
<1>3. ASSUME NEW s \in Seq(Symbol), NEW b, Blanks(b) PROVE s \o b \in Seq(Symbol) /\ Solids(s \o b) = Solids(s)
  <2>1. b \in Seq(Symbol) /\ Solids(b) = << >> BY <1>3 DEF Blanks
  <2>2. Solids(s \o b) = Solids(s) \o << >> BY <2>1, SolidsConcat
  <2>3. Solids(s) \in Seq(Symbol) BY SolidsType
  <2>4. QED BY <2>1, <2>2, <2>3, ConcatEmptySeq
<1>4. ASSUME NEW s, NEW t, Blanks(s), Blanks(t) PROVE Blanks(s \o t) BY <1>3, <1>4 DEF Blanks
<1>5. ASSUME NEW s \in Seq(Symbol), NEW t \in Seq(Symbol), NEW b, Blanks(b)
      PROVE  s \o (b \o t) \in Seq(Symbol) /\ Solids(s \o (b \o t)) = Solids(s) \o Solids(t)
  <2>1. b \in Seq(Symbol) /\ Solids(b) = << >> BY <1>5 DEF Blanks
  <2>2. b \o t \in Seq(Symbol) BY <2>1
  <2>3. Solids(b \o t) = Solids(b) \o Solids(t) BY <2>1, SolidsConcat
  <2>4. Solids(t) \in Seq(Symbol) BY SolidsType
  <2>5. Solids(b \o t) = Solids(t) BY <2>1, <2>3, <2>4, ConcatEmptySeq
  <2>6. s \o (b \o t) \in Seq(Symbol) BY <2>2
  <2>7. Solids(s \o (b \o t)) = Solids(s) \o Solids(b \o t) BY <2>2, SolidsConcat
  <2>8. QED BY <2>5, <2>6, <2>7
<1>6. QED BY <1>1, <1>2, <1>3, <1>4, <1>5

(* A piece, and what follows it from the next piece on.                    *)
LEMMA PieceAndRest ==
  ASSUME NEW t \in Seq(Symbol), NEW ps, PiecesFrom(t, ps, 1), NEW k \in 1 .. Len(ps), k + 1 <= Len(ps),
         NEW e \in ps[k + 1].start - 1 .. Len(t)
  PROVE  /\ Body(t, ps[k]) \in Seq(Symbol)
         /\ Solids(SubSeq(t, ps[k].start, e)) = Solids(Body(t, ps[k])) \o Solids(SubSeq(t, ps[k + 1].start, e))
<1> DEFINE s == ps[k].start
           m == ps[k].end
           z == ps[k + 1].start
<1>0. ps \in Seq(OnePiece) /\ Len(ps) \in Nat /\ \A j \in 1 .. Len(ps) : PieceAfter(t, ps, 1, j) BY DEF PiecesFrom
<1>1. k + 1 \in 1 .. Len(ps) /\ k + 1 > 1 /\ (k + 1) - 1 = k /\ Len(t) \in Nat BY <1>0
<1>2. s \in 1 .. Len(t) /\ s < m /\ m <= Len(t) + 1 /\ m \in Nat
  <2>1. PieceAfter(t, ps, 1, k) BY <1>0
  <2>2. QED BY <2>1 DEF PieceAfter, PieceFits, OnePiece
<1>3. z \in 1 .. Len(t) /\ m <= z /\ \A i \in m .. z - 1 : t[i] \in Blank
  <2>1. PieceAfter(t, ps, 1, k + 1) BY <1>0, <1>1
  <2>2. z \in 1 .. Len(t) BY <2>1 DEF PieceAfter
  <2>3. m <= z /\ \A i \in m .. z - 1 : t[i] \in Blank BY <1>1, <2>1 DEF PieceAfter
  <2>4. QED BY <2>2, <2>3
<1>a. e \in z - 1 .. Len(t) OBVIOUS
<1>b. Body(t, ps[k]) = SubSeq(t, s, m - 1) BY DEF Body
<1> HIDE DEF s, m, z
<1>4. /\ s \in 1 .. Len(t) + 1 /\ m - 1 \in s - 1 .. Len(t) /\ e \in m - 1 .. Len(t) /\ (m - 1) + 1 = m
      /\ m \in 1 .. Len(t) + 1 /\ z - 1 \in m - 1 .. Len(t) /\ e \in z - 1 .. Len(t) /\ (z - 1) + 1 = z
  BY <1>1, <1>2, <1>3, <1>a
<1>5. SubSeq(t, s, m - 1) \in Seq(Symbol) /\ SubSeq(t, m, e) \in Seq(Symbol) /\ SubSeq(t, z, e) \in Seq(Symbol)
  BY <1>4, SubSeqsJoin
<1>6. Solids(SubSeq(t, s, e)) = Solids(SubSeq(t, s, m - 1)) \o Solids(SubSeq(t, m, e)) BY <1>4, SolidsSplit
<1>7. Solids(SubSeq(t, m, e)) = Solids(SubSeq(t, m, z - 1)) \o Solids(SubSeq(t, z, e)) BY <1>4, SolidsSplit
<1>8. Solids(SubSeq(t, m, z - 1)) = << >> BY <1>3, <1>4, SolidsOfBlankPart
<1>9. Solids(SubSeq(t, z, e)) \in Seq(Symbol) BY <1>5, SolidsType
<1>10. Solids(SubSeq(t, m, e)) = Solids(SubSeq(t, z, e)) BY <1>7, <1>8, <1>9, ConcatEmptySeq
<1>11. QED BY <1>b, <1>5, <1>6, <1>10 DEF s, z

(* A run laid out has the solid symbols of the run.                        *)
LEMMA LaidOutKeeps ==
  ASSUME NEW t \in Seq(Symbol), NEW ps, PiecesFrom(t, ps, 1), NEW indent, Blanks(indent),
         NEW first \in 1 .. Len(ps), NEW last \in first .. Len(ps), last + 1 <= Len(ps)
  PROVE  /\ LaidOut(t, ps, indent, first, last) \in Seq(Symbol)
         /\ Solids(LaidOut(t, ps, indent, first, last)) = Solids(SubSeq(t, ps[first].start, ps[last + 1].start - 1))
<1> DEFINE I == first .. last
           V == Seq(Symbol)
           l == last - first
           sameLine(k) == \A i \in ps[k].end .. ps[k + 1].start - 1 : t[i] # "nl"
           after == <<"nl">> \o indent
           gap(k) == IF Joins(ps[k + 1], sameLine(k)) THEN <<"sp">> ELSE after
           Step(f, k) == Body(t, ps[k]) \o (IF k = last THEN after ELSE gap(k) \o f[k + 1])
           rank == [k \in I |-> last - k]
           G == [x \in [I -> V] \X I |-> Step(x[1], x[2])]
           To(f) == f = [k \in I |-> Step(f, k)]
           e == ps[last + 1].start - 1
<1>0. /\ Len(ps) \in Nat /\ l \in Nat /\ first \in Nat /\ last \in Nat /\ 1 <= first /\ first <= last
      /\ last + 1 <= Len(ps) /\ first \in I /\ last \in I
  BY DEF PiecesFrom
<1>1. Blanks(after) /\ \A k : Blanks(gap(k)) BY BlanksAre
<1>2. ASSUME NEW k \in I
      PROVE  /\ k \in 1 .. Len(ps) /\ k + 1 <= Len(ps) /\ k \in Nat /\ (k # last => k + 1 \in I /\ k < last)
             /\ e \in ps[k + 1].start - 1 .. Len(t)
             /\ Body(t, ps[k]) \in Seq(Symbol)
             /\ Solids(SubSeq(t, ps[k].start, e)) = Solids(Body(t, ps[k])) \o Solids(SubSeq(t, ps[k + 1].start, e))
  <2>1. k \in 1 .. Len(ps) /\ k + 1 <= Len(ps) /\ k \in Nat /\ (k # last => k + 1 \in I /\ k < last) BY <1>0
  <2>2. \A j \in 1 .. Len(ps) : ps[j].start \in 1 .. Len(t) BY DEF PiecesFrom, PieceAfter
  <2>3. k + 1 \in 1 .. Len(ps) /\ last + 1 \in 1 .. Len(ps) BY <1>0, <2>1
  <2>4. k # last => ps[k + 1].start < ps[last + 1].start
    <3>1. k # last => k + 1 < last + 1 BY <1>0, <2>1
    <3>2. QED BY <2>3, <3>1, PiecesAreInOrder
  <2>5. ps[k + 1].start \in 1 .. Len(t) /\ ps[last + 1].start \in 1 .. Len(t) BY <2>2, <2>3
  <2>6. ps[k + 1].start <= ps[last + 1].start BY <2>4, <2>5
  <2>7. e \in ps[k + 1].start - 1 .. Len(t) BY <2>5, <2>6
  <2> HIDE DEF e, I
  <2>8. /\ Body(t, ps[k]) \in Seq(Symbol)
        /\ Solids(SubSeq(t, ps[k].start, e)) = Solids(Body(t, ps[k])) \o Solids(SubSeq(t, ps[k + 1].start, e))
    BY ONLY <2>1, <2>7, PieceAndRest, t \in Seq(Symbol), PiecesFrom(t, ps, 1)
  <2>9. QED BY ONLY <2>1, <2>7, <2>8
<1>3. Solids(SubSeq(t, ps[last + 1].start, e)) = << >>
  <2>1. last + 1 \in 1 .. Len(ps) BY <1>0
  <2>2. ps[last + 1].start \in 1 .. Len(t) BY <2>1 DEF PiecesFrom, PieceAfter
  <2>3. SubSeq(t, ps[last + 1].start, e) = << >> BY <2>2, SubSeqEmpty
  <2>4. QED BY <2>3, SolidsEmpty
<1> HIDE DEF after, gap, e
<1>4. ASSUME NEW f \in [I -> V], NEW k \in I PROVE Step(f, k) \in V /\ G[<<f, k>>] = Step(f, k)
  <2>1. Step(f, k) \in V
    <3>1. CASE k = last BY <1>1, <1>2, <3>1, BlanksAre
    <3>2. CASE k # last
      <4>1. f[k + 1] \in Seq(Symbol) BY <1>2, <3>2
      <4> HIDE DEF I, V
      <4>2. QED BY <1>1, <1>2, <3>2, <4>1, BlanksAre DEF V
    <3>3. QED BY <3>1, <3>2
  <2>2. <<f, k>> \in [I -> V] \X I OBVIOUS
  <2> HIDE DEF Step, I, V
  <2>3. QED BY <2>1, <2>2
<1>5. G \in [[I -> V] \X I -> V]
  <2>1. ASSUME NEW x \in [I -> V] \X I PROVE Step(x[1], x[2]) \in V
    <3>1. x[1] \in [I -> V] /\ x[2] \in I OBVIOUS
    <3> HIDE DEF Step, I, V, G
    <3>2. QED BY <1>4, <3>1
  <2> HIDE DEF Step, I, V
  <2>2. QED BY <2>1
<1>6. ASSUME NEW h \in [I -> V], NEW g \in [I -> V], NEW k \in I, \A j \in I : rank[j] < rank[k] => h[j] = g[j]
      PROVE  G[<<h, k>>] = G[<<g, k>>]
  <2>1. k # last => h[k + 1] = g[k + 1]
    <3>1. k # last => k + 1 \in I /\ last - (k + 1) < last - k BY <1>0, <1>2
    <3>2. QED BY <1>6, <3>1
  <2>2. Step(h, k) = Step(g, k) BY <2>1
  <2> HIDE DEF Step, I, V, G
  <2>3. QED BY <1>4, <2>2
<1>7. PICK f \in [I -> V] : Solves(f, I, G)
  <2>1. rank \in [I -> 0 .. l] BY <1>0
  <2>2. V # {} BY EmptySeq
  <2> HIDE DEF rank, G, I, V
  <2>3. \A h, g \in [I -> V], i \in I :
          (\A j \in I : rank[j] < rank[i] => h[j] = g[j]) => G[<<h, i>>] = G[<<g, i>>]
    BY <1>6
  <2>4. Ranked(I, V, l, rank, G) BY <1>0, <1>5, <2>1, <2>2, <2>3 DEF Ranked
  <2>5. QED BY <2>4, RankedRecursion
<1>8. To(f)
  <2>1. \A k \in I : f[k] = Step(f, k)
    <3> HIDE DEF Step, I, V, G
    <3>1. QED BY <1>4, <1>7 DEF Solves
  <2> HIDE DEF Step, I, V, G
  <2>2. QED BY <2>1
<1>9. PICK g : To(g) /\ LaidOut(t, ps, indent, first, last) = g[first]
  <2>1. LaidOut(t, ps, indent, first, last) = (CHOOSE g : To(g))[first] BY DEF LaidOut, after, gap
  <2> HIDE DEF To
  <2>2. To(CHOOSE g : To(g)) BY <1>8
  <2>3. QED BY <2>1, <2>2
<1>10. \A k \in I : g[k] = Step(g, k) BY <1>9
<1> DEFINE Good(k) == g[k] \in Seq(Symbol) /\ Solids(g[k]) = Solids(SubSeq(t, ps[k].start, e))
           S == {m \in 0 .. l : Good(last - m)}
<1>11. 0 \in S
  <2>1. g[last] = Body(t, ps[last]) \o after BY <1>0, <1>10
  <2>2. /\ Body(t, ps[last]) \in Seq(Symbol)
        /\ Solids(SubSeq(t, ps[last].start, e)) = Solids(Body(t, ps[last])) \o << >>
    BY <1>0, <1>2, <1>3
  <2>3. g[last] \in Seq(Symbol) /\ Solids(g[last]) = Solids(Body(t, ps[last])) BY <1>1, <2>1, <2>2, BlanksAre
  <2>4. Solids(Body(t, ps[last])) \in Seq(Symbol) BY <2>2, SolidsType
  <2>5. Solids(Body(t, ps[last])) \o << >> = Solids(Body(t, ps[last])) BY <2>4, ConcatEmptySeq
  <2>6. Good(last) BY <2>2, <2>3, <2>5
  <2>7. 0 \in 0 .. l /\ last - 0 = last BY <1>0
  <2> HIDE DEF Good
  <2>8. QED BY <2>6, <2>7
<1>12. ASSUME NEW m \in 0 .. l, m \in S, m < l PROVE m + 1 \in S
  <2> DEFINE k == last - (m + 1)
  <2>0. m \in Nat /\ m < last - first BY <1>0, <1>12
  <2>1. k \in I /\ k # last /\ k + 1 = last - m /\ m + 1 \in 0 .. l BY <1>0, <2>0
  <2>2. Good(k + 1) BY <1>12, <2>1
  <2>3. g[k] = Body(t, ps[k]) \o (gap(k) \o g[k + 1]) BY <1>10, <2>1
  <2> HIDE DEF k
  <2>4. Body(t, ps[k]) \in Seq(Symbol) /\ Blanks(gap(k)) BY <1>1, <1>2, <2>1
  <2>5. g[k] \in Seq(Symbol) /\ Solids(g[k]) = Solids(Body(t, ps[k])) \o Solids(g[k + 1])
    <3> DEFINE a == Body(t, ps[k])
               b == gap(k)
               z == g[k + 1]
    <3>1. a \in Seq(Symbol) /\ Blanks(b) /\ z \in Seq(Symbol) BY <2>2, <2>4
    <3> HIDE DEF a, b, z
    <3>2. a \o (b \o z) \in Seq(Symbol) /\ Solids(a \o (b \o z)) = Solids(a) \o Solids(z)
      BY <3>1, BlanksAre
    <3>3. QED BY <2>3, <3>2 DEF a, b, z
  <2>6. Solids(SubSeq(t, ps[k].start, e)) = Solids(Body(t, ps[k])) \o Solids(SubSeq(t, ps[k + 1].start, e))
    BY <1>2, <2>1
  <2>7. Good(k) BY <2>2, <2>5, <2>6
  <2> HIDE DEF Good
  <2>8. QED BY <2>1, <2>7 DEF k
<1>13. l \in S
  <2> HIDE DEF S
  <2>1. 0 .. l \subseteq S BY <1>0, <1>11, <1>12, UpToInduction
  <2>2. QED BY <1>0, <2>1
<1>14. last - l = first BY <1>0
<1>15. QED BY <1>9, <1>13, <1>14 DEF e

(* u is t up to c, and has the solid symbols of t after it.                *)
Cut(t, u, c) ==
  /\ c \in 0 .. Len(t)
  /\ \E X \in Seq(Symbol) : u = SubSeq(t, 1, c) \o X /\ Solids(X) = Solids(SubSeq(t, c + 1, Len(t)))

(* A text cut so keeps the solid symbols, all of them and those from any   *)
(* place up to the cut.                                                    *)
LEMMA CutKeeps ==
  ASSUME NEW t \in Seq(Symbol), NEW u, NEW c, Cut(t, u, c)
  PROVE  /\ u \in Seq(Symbol) /\ Solids(u) = Solids(t)
         /\ \A i \in 1 .. c + 1 : /\ SubSeq(u, i, Len(u)) \in Seq(Symbol)
                                  /\ Solids(SubSeq(u, i, Len(u))) = Solids(SubSeq(t, i, Len(t)))
<1>0. c \in 0 .. Len(t) /\ Len(t) \in Nat BY DEF Cut
<1>1. PICK X \in Seq(Symbol) : u = SubSeq(t, 1, c) \o X /\ Solids(X) = Solids(SubSeq(t, c + 1, Len(t))) BY DEF Cut
<1>2. ASSUME NEW i \in 1 .. c + 1
      PROVE  /\ SubSeq(t, i, c) \in Seq(Symbol)
             /\ Solids(SubSeq(t, i, c) \o X) = Solids(SubSeq(t, i, Len(t)))
  <2>1. i \in 1 .. Len(t) + 1 /\ c \in i - 1 .. Len(t) /\ Len(t) \in c .. Len(t) BY <1>0
  <2>2. SubSeq(t, i, c) \in Seq(Symbol) BY <2>1, SubSeqsJoin
  <2>3. Solids(SubSeq(t, i, Len(t))) = Solids(SubSeq(t, i, c)) \o Solids(SubSeq(t, c + 1, Len(t)))
    BY <2>1, SolidsSplit
  <2>4. Solids(SubSeq(t, i, c) \o X) = Solids(SubSeq(t, i, c)) \o Solids(X) BY <2>2, SolidsConcat
  <2>5. QED BY <1>1, <2>2, <2>3, <2>4
<1>3. 1 \in 1 .. c + 1 BY <1>0
<1>4. u \in Seq(Symbol) BY <1>1, <1>2, <1>3
<1>5. Solids(u) = Solids(t)
  <2>1. Solids(u) = Solids(SubSeq(t, 1, Len(t))) BY <1>1, <1>2, <1>3
  <2>2. QED BY <2>1, WholeAndNone
<1>6. ASSUME NEW i \in 1 .. c + 1
      PROVE  /\ SubSeq(u, i, Len(u)) \in Seq(Symbol)
             /\ Solids(SubSeq(u, i, Len(u))) = Solids(SubSeq(t, i, Len(t)))
  <2>1. SubSeq(u, i, Len(u)) = SubSeq(t, i, c) \o X BY <1>0, <1>1, TailOf
  <2>2. SubSeq(t, i, c) \o X \in Seq(Symbol) BY <1>2
  <2>3. QED BY <1>2, <2>1, <2>2
<1>7. QED BY <1>4, <1>5, <1>6

(* A run's place among the pieces, and among the other runs.               *)
LEMMA RunsAreApart ==
  ASSUME NEW ps \in Seq(OnePiece), NEW run \in Runs(ps)
  PROVE  /\ run.first \in 1 .. Len(ps) /\ run.construct \in 1 .. Len(ps) /\ run.first < run.construct
         /\ \A r \in Runs(ps) : r.first < run.first => r.construct < run.first
<1>1. \A r \in Runs(ps) : r \in [first : 1 .. Len(ps), construct : 1 .. Len(ps)] BY DEF Runs
<1>2. run.first < run.construct BY DEF Runs
<1>3. ASSUME NEW r \in Runs(ps), r.first < run.first PROVE r.construct < run.first
  <2>1. r.first \in 1 .. Len(ps) /\ run.first \in 1 .. Len(ps) /\ r.construct \in 1 .. Len(ps) BY <1>1
  <2>2. r.first \in 1 .. run.first - 1 BY <1>3, <2>1
  <2>3. ps[r.first].kind = "attr" BY DEF Runs
  <2>4. PICK m \in r.first .. run.first - 1 : ps[m].kind = "code"
    <3>1. \A k \in 1 .. run.first - 1 :
            ps[k].kind = "attr" => \E m \in k .. run.first - 1 : ps[m].kind = "code" BY DEF Runs
    <3>2. QED BY <2>2, <2>3, <3>1
  <2>5. \A k \in r.first .. r.construct - 1 : ps[k].kind # "code" BY DEF Runs
  <2>6. ~(m \in r.first .. r.construct - 1) BY <2>4, <2>5
  <2>7. QED BY <2>1, <2>4, <2>6
<1>4. QED BY <1>1, <1>2, <1>3

(* ab is a and then b.                                                     *)
Joined(a, b, ab) == a \in Seq(Symbol) /\ b \in Seq(Symbol) /\ ab = a \o b

(* Joining is associative.                                                 *)
LEMMA JoinedTwice ==
  ASSUME NEW a, NEW b, NEW c, NEW ab, NEW bc, NEW x, Joined(a, b, ab), Joined(b, c, bc), Joined(ab, c, x)
  PROVE  Joined(a, bc, x)
<1>1. a \in Seq(Symbol) /\ b \in Seq(Symbol) /\ c \in Seq(Symbol) BY DEF Joined
<1>2. (a \o b) \o c = a \o (b \o c) BY ONLY <1>1, ConcatAssociative
<1>3. ab = a \o b /\ bc = b \o c /\ x = ab \o c BY DEF Joined
<1>4. x = a \o bc BY <1>2, <1>3, Zenon
<1>5. bc \in Seq(Symbol) BY <1>1, <1>3
<1>6. QED BY <1>1, <1>4, <1>5 DEF Joined

(* A text joined to blanks, blanks, a run and the rest.                    *)
LEMMA FourJoined ==
  ASSUME NEW h, NEW w, NEW i, NEW m, NEW z, NEW p, NEW v, NEW x, NEW y, Blanks(w), Blanks(i),
         Joined(h, w, p), Joined(p, i, v), Joined(v, m, x), Joined(x, z, y)
  PROVE  \E X \in Seq(Symbol) : Joined(h, X, y) /\ Solids(X) = Solids(m) \o Solids(z)
<1>1. h \in Seq(Symbol) /\ w \in Seq(Symbol) /\ i \in Seq(Symbol) /\ m \in Seq(Symbol) /\ z \in Seq(Symbol)
  BY DEF Joined
<1>2. PICK q : q = m \o z OBVIOUS
<1>3. PICK s : s = i \o q OBVIOUS
<1>4. PICK r : r = w \o s OBVIOUS
<1>5. q \in Seq(Symbol) BY <1>1, <1>2
<1>6. s \in Seq(Symbol) BY <1>1, <1>3, <1>5
<1>7. r \in Seq(Symbol) BY <1>1, <1>4, <1>6
<1>8. Joined(m, z, q) /\ Joined(i, q, s) /\ Joined(w, s, r) BY <1>1, <1>2, <1>3, <1>4, <1>5, <1>6 DEF Joined
<1>9. Joined(v, q, y) BY <1>8, JoinedTwice
<1>10. Joined(p, s, y) BY <1>8, <1>9, JoinedTwice
<1>11. Joined(h, r, y) BY <1>8, <1>10, JoinedTwice
<1>12. Solids(q) = Solids(m) \o Solids(z) BY <1>1, <1>2, SolidsConcat
<1>13. Solids(s) = Solids(i) \o Solids(q) BY <1>1, <1>3, <1>5, SolidsConcat
<1>14. Solids(r) = Solids(w) \o Solids(s) BY <1>1, <1>4, <1>6, SolidsConcat
<1>15. Solids(q) \in Seq(Symbol) BY <1>5, SolidsType
<1>16. Solids(w) = << >> /\ Solids(i) = << >> BY DEF Blanks
<1>17. << >> \o Solids(q) = Solids(q) BY <1>15, ConcatEmptySeq
<1>18. Solids(r) = Solids(m) \o Solids(z) BY <1>12, <1>13, <1>14, <1>16, <1>17, Zenon
<1>19. QED BY <1>7, <1>11, <1>18

(* The parts of an edited text.                                            *)
LEMMA EditedIs ==
  ASSUME NEW t \in Seq(Symbol), NEW ps, PiecesFrom(t, ps, 1), NEW run \in Runs(ps), NEW u \in Seq(Symbol)
  PROVE  /\ Edited(t, u, ps, run) \in Seq(Symbol)
         /\ \E c \in 0 .. ps[run.first].start - 1, m, X \in Seq(Symbol) :
              /\ Edited(t, u, ps, run) = SubSeq(t, 1, c) \o X
              /\ Solids(X) = Solids(m) \o Solids(SubSeq(u, ps[run.construct].start, Len(u)))
              /\ Solids(m) = Solids(SubSeq(t, ps[run.first].start, ps[run.construct].start - 1))
              /\ \A k \in c + 1 .. ps[run.first].start - 1 : t[k] \in Blank
<1> DEFINE first == ps[run.first].start
           place == ps[run.construct].start
           indent == Indent(t, place)
           m == LaidOut(t, ps, indent, run.first, run.construct - 1)
           z == SubSeq(u, place, Len(u))
<1>0. ps \in Seq(OnePiece) /\ Len(ps) \in Nat /\ \A j \in 1 .. Len(ps) : PieceAfter(t, ps, 1, j) BY DEF PiecesFrom
<1>1. /\ run.first \in 1 .. Len(ps) /\ run.construct \in 1 .. Len(ps) /\ run.first < run.construct BY <1>0, RunsAreApart
<1>2. first \in 1 .. Len(t) /\ place \in 1 .. Len(t) BY <1>0, <1>1 DEF PieceAfter
<1>3. Edited(t, u, ps, run) = ((Before(t, first) \o indent) \o m) \o z BY DEF Edited
<1>4. Blanks(indent)
  <2>1. indent \in Seq(Symbol) /\ \A i \in 1 .. Len(indent) : indent[i] \in Blank BY <1>2, IndentIsBlank
  <2> HIDE DEF indent
  <2>2. QED BY <2>1, BlanksAre
<1>5. z \in Seq(Symbol)
  <2>1. place \in Nat /\ 1 <= place /\ Len(u) \in Nat /\ \A i \in 1 .. Len(u) : u[i] \in Symbol BY <1>2
  <2>2. place \in Int /\ Len(u) \in Int /\ \A i \in place .. Len(u) : u[i] \in Symbol BY <2>1
  <2> HIDE DEF place
  <2>3. QED BY <2>2, SubSeqProperties
<1> HIDE DEF indent, first, place
<1>6. m \in Seq(Symbol) /\ Solids(m) = Solids(SubSeq(t, first, place - 1))
  <2> DEFINE last == run.construct - 1
  <2>1. last \in run.first .. Len(ps) /\ last + 1 <= Len(ps) /\ last + 1 = run.construct BY <1>0, <1>1
  <2> HIDE DEF last
  <2>2. /\ LaidOut(t, ps, indent, run.first, last) \in Seq(Symbol)
        /\ Solids(LaidOut(t, ps, indent, run.first, last))
             = Solids(SubSeq(t, ps[run.first].start, ps[last + 1].start - 1))
    BY <1>1, <1>4, <2>1, LaidOutKeeps
  <2>3. QED BY <2>1, <2>2 DEF last, first, place
<1>7. PICK c \in 0 .. first - 1, w \in Seq(Symbol) :
        /\ Before(t, first) = SubSeq(t, 1, c) \o w /\ \A i \in 1 .. Len(w) : w[i] \in Blank
        /\ \A i \in c + 1 .. first - 1 : t[i] \in Blank
  BY <1>2, BeforeIs
<1>8. Blanks(w) BY <1>7, BlanksAre
<1> HIDE DEF m, z
<1>9. indent \in Seq(Symbol) BY <1>4 DEF Blanks
<1>10. SubSeq(t, 1, c) \in Seq(Symbol) BY <1>2, <1>7
<1>11. PICK h, p, v, x, y : h = SubSeq(t, 1, c) /\ p = Before(t, first) /\ v = p \o indent /\ x = v \o m /\ y = x \o z
  OBVIOUS
<1>12. p = h \o w /\ h \in Seq(Symbol) /\ p \in Seq(Symbol) BY <1>7, <1>10, <1>11
<1>13. v \in Seq(Symbol) BY <1>9, <1>11, <1>12
<1>14. x \in Seq(Symbol) BY <1>6, <1>11, <1>13
<1>15. Joined(h, w, p) /\ Joined(p, indent, v) /\ Joined(v, m, x) /\ Joined(x, z, y)
  BY <1>5, <1>6, <1>7, <1>9, <1>11, <1>12, <1>13, <1>14 DEF Joined
<1>16. PICK X \in Seq(Symbol) : Joined(h, X, y) /\ Solids(X) = Solids(m) \o Solids(z)
  BY <1>4, <1>8, <1>15, FourJoined
<1>17. Edited(t, u, ps, run) = y BY <1>3, <1>11, Zenon
<1>18. y = h \o X /\ y \in Seq(Symbol) BY <1>16 DEF Joined
<1>19. \A i \in c + 1 .. first - 1 : t[i] \in Blank BY <1>7
<1>20. QED BY <1>6, <1>7, <1>11, <1>16, <1>17, <1>18, <1>19, Zenon DEF z, place, first

(* An edit of a text edited after its place.                               *)
LEMMA EditedCuts ==
  ASSUME NEW t \in Seq(Symbol), NEW ps, PiecesFrom(t, ps, 1), NEW run \in Runs(ps),
         NEW u, NEW c, Cut(t, u, c), ps[run.construct].start <= c
  PROVE  \E d : Cut(t, Edited(t, u, ps, run), d) /\ \A j \in 1 .. Len(ps) : j < run.first => ps[j].start <= d
<1> DEFINE first == ps[run.first].start
           place == ps[run.construct].start
           l == Len(t)
           z == SubSeq(u, place, Len(u))
<1>0. ps \in Seq(OnePiece) /\ Len(ps) \in Nat /\ \A j \in 1 .. Len(ps) : PieceAfter(t, ps, 1, j) BY DEF PiecesFrom
<1>1. run.first \in 1 .. Len(ps) /\ run.construct \in 1 .. Len(ps) /\ run.first < run.construct BY <1>0, RunsAreApart
<1>2. \A j \in 1 .. Len(ps) : ps[j].start \in 1 .. l /\ t[ps[j].start] \notin Blank BY <1>0 DEF PieceAfter
<1>3. first \in 1 .. l /\ place \in 1 .. l /\ first < place BY <1>1, <1>2, PiecesAreInOrder
<1>4. u \in Seq(Symbol) BY CutKeeps
<1>5. c \in 0 .. l /\ l \in Nat BY DEF Cut
<1>6. z \in Seq(Symbol) /\ Solids(z) = Solids(SubSeq(t, place, l))
  <2>1. place \in 1 .. c + 1 BY <1>3, <1>5
  <2> HIDE DEF place, l
  <2>2. QED BY <2>1, CutKeeps DEF l
<1>7. PICK d \in 0 .. first - 1, m \in Seq(Symbol), X \in Seq(Symbol) :
        /\ Edited(t, u, ps, run) = SubSeq(t, 1, d) \o X
        /\ Solids(X) = Solids(m) \o Solids(z)
        /\ Solids(m) = Solids(SubSeq(t, first, place - 1))
        /\ \A k \in d + 1 .. first - 1 : t[k] \in Blank
  BY <1>4, EditedIs
<1> HIDE DEF first, place, l, z
<1>8. d \in 0 .. l /\ d <= first - 1 /\ d \in Nat BY <1>3, <1>5, <1>7
<1>9. X \in Seq(Symbol) /\ Solids(X) = Solids(m) \o Solids(z) BY <1>7
<1>10. Solids(SubSeq(t, d + 1, l)) = Solids(SubSeq(t, first, l))
  <2>1. /\ d + 1 \in 1 .. l + 1 /\ first - 1 \in (d + 1) - 1 .. l /\ l \in first - 1 .. l /\ (first - 1) + 1 = first
        /\ first \in 1 .. l + 1
    BY <1>3, <1>5, <1>8
  <2>2. Solids(SubSeq(t, d + 1, l)) = Solids(SubSeq(t, d + 1, first - 1)) \o Solids(SubSeq(t, (first - 1) + 1, l))
    BY <2>1, SolidsSplit DEF l
  <2>3. Solids(SubSeq(t, d + 1, first - 1)) = << >> BY <1>7, <2>1, SolidsOfBlankPart DEF l
  <2>4. SubSeq(t, first, l) \in Seq(Symbol) BY <1>3, <1>5 DEF l
  <2>5. Solids(SubSeq(t, first, l)) \in Seq(Symbol) BY <2>4, SolidsType
  <2>6. QED BY <2>1, <2>2, <2>3, <2>5, ConcatEmptySeq
<1>11. Solids(SubSeq(t, first, l)) = Solids(m) \o Solids(z)
  <2>1. first \in 1 .. l + 1 /\ place - 1 \in first - 1 .. l /\ l \in place - 1 .. l /\ (place - 1) + 1 = place
    BY <1>3, <1>5
  <2>2. Solids(SubSeq(t, first, l)) = Solids(SubSeq(t, first, place - 1)) \o Solids(SubSeq(t, (place - 1) + 1, l))
    BY <2>1, SolidsSplit DEF l
  <2>3. QED BY <1>6, <1>7, <2>1, <2>2
<1>12. Cut(t, Edited(t, u, ps, run), d)
  <2>1. Edited(t, u, ps, run) = SubSeq(t, 1, d) \o X BY <1>7
  <2>2. Solids(X) = Solids(SubSeq(t, d + 1, l)) BY <1>9, <1>10, <1>11
  <2>3. QED BY <1>8, <1>9, <2>1, <2>2 DEF Cut, l
<1>13. ASSUME NEW j \in 1 .. Len(ps), j < run.first PROVE ps[j].start <= d
  <2>1. ps[j].start < first BY <1>1, <1>13, PiecesAreInOrder DEF first
  <2>2. ps[j].start \in 1 .. l /\ t[ps[j].start] \notin Blank BY <1>2
  <2>3. ~(ps[j].start \in d + 1 .. first - 1) BY <1>7, <2>2
  <2>4. QED BY <1>3, <1>8, <2>1, <2>2, <2>3
<1>14. QED BY <1>12, <1>13

(* The edits from the last run to the first.                               *)
LEMMA AllEditedKeeps ==
  ASSUME NEW t \in Seq(Symbol), NEW ps, PiecesFrom(t, ps, 1)
  PROVE  AllEdited(t, ps, Runs(ps)) \in Seq(Symbol) /\ Solids(AllEdited(t, ps, Runs(ps))) = Solids(t)
<1> DEFINE n == Len(ps)
           I == 1 .. n + 1
           V == Seq(Symbol)
           runs == Runs(ps)
           Starts(k) == \E r \in runs : r.first = k
           that(k) == CHOOSE r \in runs : r.first = k
           Step(f, k) == IF k > n THEN t ELSE IF Starts(k) THEN Edited(t, f[k + 1], ps, that(k)) ELSE f[k + 1]
           rank == [k \in I |-> n + 1 - k]
           G == [x \in [I -> V] \X I |-> Step(x[1], x[2])]
           To(f) == f = [k \in I |-> Step(f, k)]
<1>0. ps \in Seq(OnePiece) /\ n \in Nat BY DEF PiecesFrom
<1>1. \A k : Starts(k) => that(k) \in runs /\ that(k).first = k OBVIOUS
<1>2. ASSUME NEW r \in runs
      PROVE  /\ r.first \in 1 .. n /\ r.construct \in 1 .. n /\ r.first < r.construct
             /\ \A q \in runs : q.first < r.first => q.construct < r.first
             /\ ps[r.construct].start \in 1 .. Len(t)
  <2>1. /\ r.first \in 1 .. n /\ r.construct \in 1 .. n /\ r.first < r.construct
        /\ \A q \in runs : q.first < r.first => q.construct < r.first
    BY <1>0, RunsAreApart
  <2>2. PieceAfter(t, ps, 1, r.construct) BY <2>1 DEF PiecesFrom
  <2>3. QED BY <2>1, <2>2 DEF PieceAfter
<1>3. \A k \in I : k <= n => k \in 1 .. n /\ k + 1 \in I /\ n + 1 - (k + 1) < n + 1 - k BY <1>0
<1> HIDE DEF n, runs, Starts, that
<1>4. ASSUME NEW f \in [I -> V], NEW k \in I PROVE Step(f, k) \in V /\ G[<<f, k>>] = Step(f, k)
  <2>1. Step(f, k) \in V
    <3>1. CASE k > n BY <3>1
    <3>2. CASE ~(k > n)
      <4>1. k <= n BY <1>0, <3>2
      <4>2. k + 1 \in I BY <1>3, <4>1
      <4>3. f[k + 1] \in Seq(Symbol) BY <4>2
      <4>4. CASE Starts(k)
        <5>1. that(k) \in Runs(ps) BY <1>1, <4>4 DEF runs
        <5>2. Edited(t, f[k + 1], ps, that(k)) \in Seq(Symbol) BY <4>3, <5>1, EditedIs
        <5>3. QED BY <3>2, <4>4, <5>2
      <4>5. CASE ~Starts(k) BY <3>2, <4>3, <4>5
      <4>6. QED BY <4>4, <4>5
    <3>3. QED BY <3>1, <3>2
  <2>2. <<f, k>> \in [I -> V] \X I OBVIOUS
  <2> HIDE DEF Step, I, V
  <2>3. QED BY <2>1, <2>2
<1>5. G \in [[I -> V] \X I -> V]
  <2>1. ASSUME NEW x \in [I -> V] \X I PROVE Step(x[1], x[2]) \in V
    <3>1. x[1] \in [I -> V] /\ x[2] \in I OBVIOUS
    <3> HIDE DEF Step, I, V, G
    <3>2. QED BY <1>4, <3>1
  <2> HIDE DEF Step, I, V
  <2>2. QED BY <2>1
<1>6. ASSUME NEW h \in [I -> V], NEW g \in [I -> V], NEW k \in I, \A j \in I : rank[j] < rank[k] => h[j] = g[j]
      PROVE  G[<<h, k>>] = G[<<g, k>>]
  <2>1. k <= n => h[k + 1] = g[k + 1]
    <3>1. k <= n => k + 1 \in I /\ rank[k + 1] < rank[k] BY <1>3
    <3> HIDE DEF I, V, rank
    <3>2. QED BY <1>6, <3>1
  <2>2. k > n \/ k <= n BY <1>0
  <2>3. Step(h, k) = Step(g, k) BY <2>1, <2>2
  <2> HIDE DEF Step, I, V, G
  <2>4. QED BY <1>4, <2>3
<1>7. PICK f \in [I -> V] : Solves(f, I, G)
  <2>1. rank \in [I -> 0 .. n]
    <3>1. \A k \in I : n + 1 - k \in 0 .. n BY <1>0
    <3>2. QED BY <3>1
  <2>2. V # {} BY EmptySeq
  <2> HIDE DEF rank, G, I, V
  <2>3. \A h, g \in [I -> V], i \in I :
          (\A j \in I : rank[j] < rank[i] => h[j] = g[j]) => G[<<h, i>>] = G[<<g, i>>]
    BY <1>6
  <2>4. Ranked(I, V, n, rank, G) BY <1>0, <1>5, <2>1, <2>2, <2>3 DEF Ranked
  <2>5. QED BY <2>4, RankedRecursion
<1>8. To(f)
  <2>1. \A k \in I : f[k] = Step(f, k)
    <3> HIDE DEF Step, I, V, G
    <3>1. QED BY <1>4, <1>7 DEF Solves
  <2> HIDE DEF Step, I, V, G
  <2>2. QED BY <2>1
<1>9. PICK g : To(g) /\ AllEdited(t, ps, runs) = g[1]
  <2>1. AllEdited(t, ps, runs) = (CHOOSE g : To(g))[1] BY DEF AllEdited, n, Starts, that
  <2> HIDE DEF To
  <2>2. To(CHOOSE g : To(g)) BY <1>8
  <2>3. QED BY <2>1, <2>2
<1>10. \A k \in I : g[k] = Step(g, k) BY <1>9
<1> DEFINE Good(k) == \E c : Cut(t, g[k], c) /\ \A r \in runs : r.first < k => ps[r.construct].start <= c
           S == {m \in 0 .. n : Good(n + 1 - m)}
<1>11. 0 \in S
  <2>1. n + 1 \in I /\ n + 1 > n /\ n + 1 - 0 = n + 1 /\ 0 \in 0 .. n BY <1>0
  <2>2. g[n + 1] = t BY <1>10, <2>1
  <2>3. Cut(t, t, Len(t))
    <3>1. << >> \in Seq(Symbol) /\ t \o << >> = t BY EmptySeq, ConcatEmptySeq
    <3>2. SubSeq(t, 1, Len(t)) = t BY WholeAndNone
    <3>3. SubSeq(t, Len(t) + 1, Len(t)) = << >> BY SubSeqEmpty
    <3>4. t = SubSeq(t, 1, Len(t)) \o << >> /\ Solids(<< >>) = Solids(SubSeq(t, Len(t) + 1, Len(t)))
      BY <3>1, <3>2, <3>3
    <3>5. Len(t) \in 0 .. Len(t) OBVIOUS
    <3>6. QED BY <3>1, <3>4, <3>5, Zenon DEF Cut
  <2>4. \A r \in runs : ps[r.construct].start <= Len(t) BY <1>2
  <2>5. Good(n + 1) BY <2>2, <2>3, <2>4
  <2> HIDE DEF Good
  <2>6. QED BY <2>1, <2>5
<1>12. ASSUME NEW m \in 0 .. n, m \in S, m < n PROVE m + 1 \in S
  <2> DEFINE k == n + 1 - (m + 1)
  <2>1. k \in I /\ k \in 1 .. n /\ ~(k > n) /\ k + 1 = n + 1 - m /\ m + 1 \in 0 .. n BY <1>0, <1>12
  <2>2. Good(k + 1) BY <1>12, <2>1
  <2>3. g[k] = IF Starts(k) THEN Edited(t, g[k + 1], ps, that(k)) ELSE g[k + 1] BY <1>10, <2>1
  <2> HIDE DEF k
  <2>4. PICK c : Cut(t, g[k + 1], c) /\ \A r \in runs : r.first < k + 1 => ps[r.construct].start <= c BY <2>2
  <2>5. Good(k)
    <3>1. CASE Starts(k)
      <4>1. that(k) \in runs /\ that(k).first = k BY <1>1, <3>1
      <4>2. ps[that(k).construct].start <= c
        <5>1. k < k + 1 BY <2>1
        <5>2. QED BY <2>4, <4>1, <5>1
      <4>3. PICK d : /\ Cut(t, Edited(t, g[k + 1], ps, that(k)), d)
                     /\ \A j \in 1 .. n : j < that(k).first => ps[j].start <= d
        BY <2>4, <4>1, <4>2, EditedCuts DEF runs, n
      <4>4. ASSUME NEW r \in runs, r.first < k PROVE ps[r.construct].start <= d
        <5>1. r.construct < k /\ r.construct \in 1 .. n BY <1>2, <4>1, <4>4
        <5>2. QED BY <4>1, <4>3, <5>1
      <4>5. Cut(t, g[k], d) BY <2>3, <3>1, <4>3
      <4>6. QED BY <4>4, <4>5
    <3>2. CASE ~Starts(k)
      <4>1. \A r \in runs : r.first < k => r.first < k + 1
        <5>1. \A r \in runs : r.first \in Nat /\ k \in Nat BY <1>2, <2>1
        <5>2. QED BY <5>1
      <4>2. g[k] = g[k + 1] BY <2>3, <3>2
      <4>3. QED BY <2>4, <4>1, <4>2
    <3>3. QED BY <3>1, <3>2
  <2> HIDE DEF Good
  <2>6. QED BY <2>1, <2>5 DEF k
<1>13. n \in S
  <2> HIDE DEF S
  <2>1. 0 .. n \subseteq S BY <1>0, <1>11, <1>12, UpToInduction
  <2>2. QED BY <1>0, <2>1
<1>14. n + 1 - n = 1 BY <1>0
<1>15. PICK c : Cut(t, g[1], c) BY <1>13, <1>14
<1>16. g[1] \in Seq(Symbol) /\ Solids(g[1]) = Solids(t) BY <1>15, CutKeeps
<1>17. QED BY <1>9, <1>16 DEF runs

(* What a text is formatted to, if it is.                                  *)
LEMMA FormatSv0Keeps ==
  ASSUME NEW t \in Seq(Symbol)
  PROVE  \/ FormatSv0(t) = {}
         \/ \E x \in Seq(Symbol) : FormatSv0(t) = {x} /\ Solids(x) = Solids(t)
<1> DEFINE ps == Pieces(t)
           u == AllEdited(t, ps, Runs(ps))
<1>1. PiecesFrom(t, ps, 1) BY PiecesFollow
<1> HIDE DEF ps
<1>2. u \in Seq(Symbol) /\ Solids(u) = Solids(t) BY <1>1, AllEditedKeeps
<1> HIDE DEF u
<1>3. Stripped(u) \in Seq(Symbol) /\ Solids(Stripped(u)) = Solids(t) BY <1>2, StrippedKeeps
<1>4. Stripped(t) \in Seq(Symbol) /\ Solids(Stripped(t)) = Solids(t) BY StrippedKeeps
<1>5. FormatSv0(t) \in {{Stripped(t)}, {}, {Stripped(u)}} BY DEF FormatSv0, ps, u
<1>6. QED BY <1>3, <1>4, <1>5

(* A file formatted, and a file that lost and gained blanks only.          *)
FormattedTo(was, is) == FormatSv0(was) = {is}

Whole(was, is) == Solids(is) = Solids(was)

-----------------------------------------------------------------------------
(* Formatter: a run of it.                                                 *)

(* The parts of the inductive invariant: what the variables hold; files    *)
(* are whole, or could not be written; files not reached are as they       *)
(* were; what the formatter returned is of the next file; files passed     *)
(* are formatted, unless a run goes on past what it counts against         *)
(* itself; and a run ends well only if nothing counted.                    *)
FormatTypes ==
  /\ Len(old) \in Nat /\ old \in [1 .. Len(old) -> Seq(Symbol)] /\ texts \in [1 .. Len(old) -> Seq(Symbol)]
  /\ next \in 1 .. Len(old) + 1

FilesAreWhole == \A f \in 1 .. Len(old) : Whole(old[f], texts[f]) \/ (ending = "fail" /\ f = next /\ texts[f] = << >>)

RestIsOld == ending = "none" => \A f \in next .. Len(old) : texts[f] = old[f]

NewIsOfNext == new = Unread \/ (next <= Len(old) /\ new = FormatSv0(old[next]))

DoneSoFar == ~failed /\ ~(check /\ changed) => \A f \in 1 .. next - 1 : FormattedTo(old[f], texts[f])

EndsWell == ending = "ok" => ~failed /\ ~(check /\ changed) /\ next > Len(old)

(* The inductive invariant of a run of the formatter.                      *)
FormatInv == /\ FormatTypes /\ (check => texts = old) /\ FilesAreWhole /\ RestIsOld
             /\ NewIsOfNext /\ DoneSoFar /\ EndsWell

(* A run starts with the files as they were.                               *)
LEMMA FormatStarts == ASSUME FormatInit PROVE FormatInv
<1>0. PICK b \in Batch : FormatStartsFrom(b) BY DEF FormatInit
<1>1. texts = old /\ next = 1 /\ new = Unread /\ ending = "none" BY <1>0 DEF FormatStartsFrom
<1>2. Len(old) \in Nat /\ old \in [1 .. Len(old) -> Seq(Symbol)]
  <2>1. old \in Seq(Seq(Symbol)) BY <1>0, BatchAssumption DEF FormatStartsFrom
  <2>2. QED BY ONLY <2>1, LenProperties
<1>3. FormatTypes BY <1>1, <1>2 DEF FormatTypes
<1>4. FilesAreWhole BY <1>1 DEF FilesAreWhole, Whole
<1>5. RestIsOld /\ NewIsOfNext /\ EndsWell BY <1>1 DEF RestIsOld, NewIsOfNext, EndsWell
<1>6. DoneSoFar
  <2>1. \A f \in 1 .. next - 1 : FALSE BY <1>1
  <2>2. QED BY <2>1 DEF DoneSoFar
<1>7. QED BY <1>1, <1>3, <1>4, <1>5, <1>6 DEF FormatInv

(* A step that changes the next file.                                      *)
LEMMA NextFileChanges ==
  ASSUME FormatTypes, UNCHANGED <<old, check>>, next <= Len(old), NEW x \in Seq(Symbol),
         texts' = [texts EXCEPT ![next] = x]
  PROVE  /\ texts' \in [1 .. Len(old) -> Seq(Symbol)] /\ texts'[next] = x
         /\ \A f \in 1 .. Len(old) : f # next =>
              texts'[f] = texts[f]
<1>1. texts \in [1 .. Len(old) -> Seq(Symbol)] BY DEF FormatTypes
<1>2. texts' \in [1 .. Len(old) -> Seq(Symbol)] BY <1>1
<1>3. \A f \in 1 .. Len(old) : f # next => texts'[f] = texts[f] BY <1>1
<1>4. next \in 1 .. Len(old) BY DEF FormatTypes
<1>5. texts'[next] = x BY <1>1, <1>4
<1>6. QED BY <1>2, <1>3, <1>5

(* A new text the formatter returned has the solid symbols of the file.    *)
LEMMA NewIsOne ==
  ASSUME FormatInv, new # Unread, new # {}
  PROVE  /\ next <= Len(old) /\ new = FormatSv0(old[next])
         /\ \E x \in Seq(Symbol) : new = {x} /\ Solids(x) = Solids(old[next])
<1>1. next <= Len(old) /\ new = FormatSv0(old[next]) BY DEF FormatInv, NewIsOfNext
<1>2. Len(old) \in Nat /\ next \in 1 .. Len(old) + 1 BY DEF FormatInv, FormatTypes
<1>3. next \in 1 .. Len(old) BY <1>1, <1>2
<1>4. old[next] \in Seq(Symbol) BY <1>3 DEF FormatInv, FormatTypes
<1>5. QED BY <1>1, <1>4, FormatSv0Keeps

(* A step to the next file.                                                *)
LEMMA NextFileComes ==
  ASSUME FormatInv, ending = "none", GoesOn, next <= Len(old), texts' \in [1 .. Len(old) -> Seq(Symbol)],
         check' => texts' = old',
         \A f \in 1 .. Len(old) : Whole(old'[f], texts'[f]), \A f \in 1 .. Len(old) : f # next => texts'[f] = texts[f],
         ~failed' /\ ~(check' /\ changed') => ~failed /\ ~(check /\ changed) /\ FormattedTo(old'[next], texts'[next])
  PROVE  FormatInv'
<1>1. next' = next + 1 /\ new' = Unread /\ ending' = ending /\ old' = old /\ check' = check BY DEF GoesOn
<1>2. Len(old) \in Nat /\ old \in [1 .. Len(old) -> Seq(Symbol)] BY DEF FormatInv, FormatTypes
<1>3. Len(old) \in Nat BY <1>2
<1>4. next \in 1 .. Len(old) BY <1>3 DEF FormatInv, FormatTypes
<1>5. FormatTypes'
  <2>1. next' \in 1 .. Len(old) + 1 BY <1>1, <1>3, <1>4
  <2>2. QED BY <1>1, <1>2, <2>1 DEF FormatTypes
<1>6. FilesAreWhole' BY <1>1 DEF FilesAreWhole
<1>7. RestIsOld'
  <2>1. \A f \in next' .. Len(old) : f \in next .. Len(old) /\ f \in 1 .. Len(old) /\ f # next BY <1>1, <1>3, <1>4
  <2>2. \A f \in next .. Len(old) : texts[f] = old[f] BY DEF FormatInv, RestIsOld
  <2>3. QED BY <1>1, <2>1, <2>2 DEF RestIsOld
<1>8. NewIsOfNext'
  <2>1. Unread' = Unread BY DEF Unread
  <2>2. QED BY <1>1, <2>1 DEF NewIsOfNext
<1>9. DoneSoFar'
  <2>1. SUFFICES ASSUME ~failed', ~(check' /\ changed'), NEW f \in 1 .. next' - 1 PROVE FormattedTo(old'[f], texts'[f])
    BY DEF DoneSoFar
  <2>2. f = next \/ (f \in 1 .. next - 1 /\ f \in 1 .. Len(old) /\ f # next) BY <1>1, <1>3, <1>4
  <2>3. CASE f = next
    <3>1. FormattedTo(old'[next], texts'[next]) BY <2>1
    <3>2. QED BY <2>3, <3>1
  <2>4. CASE f \in 1 .. next - 1 /\ f \in 1 .. Len(old) /\ f # next
    <3>1. FormattedTo(old[f], texts[f]) BY <2>1, <2>4 DEF FormatInv, DoneSoFar
    <3>2. QED BY <1>1, <2>4, <3>1
  <2>5. QED BY <2>2, <2>3, <2>4
<1>10. EndsWell' BY <1>1 DEF EndsWell
<1>11. QED BY <1>5, <1>6, <1>7, <1>8, <1>9, <1>10 DEF FormatInv

(* A step that stays with its file.                                        *)
LEMMA FormatStays ==
  ASSUME FormatInv, ending = "none", UNCHANGED <<old, texts, check, next, changed, failed>>, NewIsOfNext',
         ending' = "ok" => EndsWell'
  PROVE  FormatInv'
<1>1. FormatTypes' /\ (check' => texts' = old') BY DEF FormatInv, FormatTypes
<1>2. FilesAreWhole'
  <2>1. \A f \in 1 .. Len(old) : Whole(old[f], texts[f]) BY DEF FormatInv, FilesAreWhole
  <2>2. QED BY <2>1 DEF FilesAreWhole
<1>3. RestIsOld' BY DEF FormatInv, RestIsOld
<1>4. DoneSoFar'
  <2>1. ~failed /\ ~(check /\ changed) => \A f \in 1 .. next - 1 : FormattedTo(old[f], texts[f])
    BY DEF FormatInv, DoneSoFar
  <2>2. QED BY <2>1 DEF DoneSoFar
<1>5. EndsWell' BY DEF EndsWell
<1>6. QED BY <1>1, <1>2, <1>3, <1>4, <1>5 DEF FormatInv

(* Every step of a run keeps the invariant.                                *)
LEMMA FormatSteps ==
  ASSUME FormatInv, FormatNext
  PROVE  FormatInv'
<1>0. texts \in [1 .. Len(old) -> Seq(Symbol)] /\ next \in 1 .. Len(old) + 1
  BY DEF FormatInv, FormatTypes
<1>1. Len(old) \in Nat BY DEF FormatInv, FormatTypes
<1>2. Len(texts) = Len(old)
  <2>1. DOMAIN texts = 1 .. Len(old) BY <1>0
  <2>2. QED BY ONLY <1>1, <2>1
<1>3. ending = "none" /\ old' = old /\ check' = check
  BY DEF FormatNext, ReadFile, ReadFails, LayoutError, NothingToDo, WouldReformat, Rewrite, WriteFails, FormatEnds,
         Differs, GoesOn
<1>4. \A f \in 1 .. Len(old) : Whole(old[f], texts[f]) BY <1>3 DEF FormatInv, FilesAreWhole
<1>5. check => texts = old BY DEF FormatInv
<1>6. new # Unread => next <= Len(old) /\ next \in 1 .. Len(old) /\ new = FormatSv0(old[next])
  BY <1>0, <1>1 DEF FormatInv, NewIsOfNext
<1>7. ASSUME UNCHANGED <<texts, old>> PROVE \A f \in 1 .. Len(old) : Whole(old'[f], texts'[f]) BY <1>4, <1>7
<1>8. ASSUME ReadFile PROVE FormatInv'
  <2>1. next <= Len(old) /\ new' = FormatSv0(texts[next]) /\ UNCHANGED <<texts, next, changed, failed, ending>>
    BY <1>2, <1>8 DEF ReadFile
  <2>2. next \in next .. Len(old) BY <1>0, <1>1, <2>1
  <2>3. texts[next] = old[next] BY <1>3, <2>2 DEF FormatInv, RestIsOld
  <2>4. NewIsOfNext' BY <1>3, <2>1, <2>3 DEF NewIsOfNext
  <2>5. QED BY <1>3, <2>1, <2>4, FormatStays
<1>9. ASSUME ReadFails PROVE FormatInv'
  <2>1. ending' = "fail" /\ UNCHANGED <<texts, next, new, changed, failed>> BY <1>9 DEF ReadFails
  <2>2. NewIsOfNext' BY <1>3, <2>1 DEF FormatInv, NewIsOfNext
  <2>3. QED BY <1>3, <2>1, <2>2, FormatStays
<1>10. ASSUME LayoutError PROVE FormatInv'
  <2>1. new # Unread /\ failed' /\ GoesOn /\ UNCHANGED <<texts, changed>> BY <1>10 DEF LayoutError, Unread
  <2>2. QED BY <1>0, <1>3, <1>5, <1>6, <1>7, <2>1, NextFileComes
<1>11. ASSUME NothingToDo PROVE FormatInv'
  <2>1. new # Unread /\ new = {texts[next]} /\ GoesOn /\ UNCHANGED <<texts, changed, failed>> BY <1>11 DEF NothingToDo
  <2>2. FormattedTo(old'[next], texts'[next]) BY <1>3, <1>6, <2>1 DEF FormattedTo
  <2>3. QED BY <1>0, <1>3, <1>5, <1>6, <1>7, <2>1, <2>2, NextFileComes
<1>12. ASSUME WouldReformat PROVE FormatInv'
  <2>1. new # Unread /\ check /\ changed' /\ GoesOn /\ UNCHANGED <<texts, failed>> BY <1>12 DEF WouldReformat, Differs
  <2>2. QED BY <1>0, <1>3, <1>5, <1>6, <1>7, <2>1, NextFileComes
<1>13. ASSUME Rewrite PROVE FormatInv'
  <2>1. new # Unread /\ new # {} /\ ~check /\ GoesOn /\ UNCHANGED failed BY <1>13 DEF Rewrite, Differs
  <2>2. PICK x \in Seq(Symbol) : new = {x} /\ Solids(x) = Solids(old[next]) BY <2>1, NewIsOne
  <2>3. texts' = [texts EXCEPT ![next] = x] BY <1>13, <2>2 DEF Rewrite
  <2>4. next \in 1 .. Len(old) /\ next <= Len(old) /\ new = FormatSv0(old[next]) BY <1>6, <2>1
  <2>5. /\ texts' \in [1 .. Len(old) -> Seq(Symbol)] /\ texts'[next] = x
        /\ \A f \in 1 .. Len(old) : f # next => texts'[f] = texts[f]
    BY <1>3, <2>3, <2>4, NextFileChanges DEF FormatInv
  <2>6. Solids(texts'[next]) = Solids(old'[next]) BY <1>3, <2>2, <2>5
  <2>7. \A f \in 1 .. Len(old) : Whole(old'[f], texts'[f])
    <3>1. ASSUME NEW f \in 1 .. Len(old) PROVE Whole(old'[f], texts'[f])
      <4>1. CASE f = next BY <2>6, <4>1 DEF Whole
      <4>2. CASE f # next BY <1>3, <1>4, <2>5, <4>2
      <4>3. QED BY <4>1, <4>2
    <3>2. QED BY <3>1
  <2>8. FormatSv0(old'[next]) = {texts'[next]} BY <1>3, <2>2, <2>4, <2>5
  <2>9. ~check' /\ check' = check BY <1>3, <2>1
  <2>10. ~failed' /\ ~(check' /\ changed') => ~failed /\ ~(check /\ changed) BY <2>1
  <2>11. FormattedTo(old'[next], texts'[next]) BY <2>8 DEF FormattedTo
  <2>12. QED BY <1>3, <2>1, <2>4, <2>5, <2>7, <2>9, <2>10, <2>11, NextFileComes
<1>14. ASSUME WriteFails PROVE FormatInv'
  <2>1. new # Unread /\ ~check /\ ending' = "fail" /\ UNCHANGED <<next, new, changed, failed>>
    BY <1>14 DEF WriteFails, Differs
  <2>2. PICK left \in {texts[next], << >>} : texts' = [texts EXCEPT ![next] = left] BY <1>14 DEF WriteFails
  <2>3. next \in 1 .. Len(old) /\ next <= Len(old) BY <1>6, <2>1
  <2>4. left \in Seq(Symbol)
    <3>1. << >> \in Seq(Symbol) BY EmptySeq
    <3>2. texts[next] \in Seq(Symbol) BY <1>0, <2>3
    <3>3. QED BY <3>1, <3>2
  <2>5. /\ texts' \in [1 .. Len(old) -> Seq(Symbol)] /\ texts'[next] = left
        /\ \A f \in 1 .. Len(old) : f # next => texts'[f] = texts[f]
    BY <1>3, <2>2, <2>3, <2>4, NextFileChanges DEF FormatInv
  <2>6. FilesAreWhole'
    <3>1. ASSUME NEW f \in 1 .. Len(old) PROVE Whole(old'[f], texts'[f]) \/ (f = next /\ texts'[f] = << >>)
      <4>1. CASE f # next BY <1>3, <1>4, <2>5, <4>1
      <4>2. CASE f = next /\ left = << >> BY <2>5, <4>2
      <4>3. CASE f = next /\ left = texts[next]
        <5>1. Solids(texts[next]) = Solids(old[next]) BY <1>4, <2>3 DEF Whole
        <5>2. Solids(texts'[f]) = Solids(old'[f]) BY <1>3, <2>5, <4>3, <5>1
        <5>3. QED BY <5>2 DEF Whole
      <4>4. QED BY <4>1, <4>2, <4>3
    <3>2. QED BY <1>3, <2>1, <3>1 DEF FilesAreWhole
  <2>7. DoneSoFar'
    <3>1. \A f \in 1 .. next - 1 : f \in 1 .. Len(old) /\ f # next BY <1>0, <1>1
    <3>2. ~failed /\ ~(check /\ changed) => \A f \in 1 .. next - 1 : FormattedTo(old[f], texts[f])
      BY DEF FormatInv, DoneSoFar
    <3>3. QED BY <1>3, <2>1, <2>5, <3>1, <3>2 DEF DoneSoFar
  <2>8. FormatTypes'
    <3>1. Len(old) \in Nat /\ old \in [1 .. Len(old) -> Seq(Symbol)] BY DEF FormatInv, FormatTypes
    <3>2. QED BY <1>0, <1>3, <2>1, <2>5, <3>1 DEF FormatTypes
  <2>9. NewIsOfNext' /\ RestIsOld' /\ EndsWell'
    BY <1>3, <2>1 DEF FormatInv, NewIsOfNext, RestIsOld, EndsWell
  <2>10. QED BY <1>3, <2>1, <2>6, <2>7, <2>8, <2>9 DEF FormatInv
<1>15. ASSUME FormatEnds PROVE FormatInv'
  <2>1. /\ next > Len(old) /\ UNCHANGED <<texts, next, new, changed, failed>>
        /\ ending' = IF failed \/ (check /\ changed) THEN "fail" ELSE "ok"
    BY <1>2, <1>15 DEF FormatEnds
  <2>2. NewIsOfNext' BY <1>3, <2>1 DEF FormatInv, NewIsOfNext
  <2>3. EndsWell' BY <1>3, <2>1 DEF EndsWell
  <2>4. QED BY <1>3, <2>1, <2>2, <2>3, FormatStays
<1>16. QED BY <1>8, <1>9, <1>10, <1>11, <1>12, <1>13, <1>14, <1>15 DEF FormatNext

(* However a run of the formatter ends, whatever the texts: a file keeps   *)
(* every symbol but blanks, in its order, unless it could not be written;  *)
(* --check writes nothing; and a run that ends well has left each file as  *)
(* format_sv0 would have it.                                               *)
THEOREM FormatMovesOnlyBlanks == FormatSpec => []OnlyBlanksMove
<1>1. FormatInit => FormatInv BY FormatStarts
<1>2. FormatInv /\ [FormatNext]_fmtVars => FormatInv'
  <2>1. ASSUME FormatInv, UNCHANGED fmtVars PROVE FormatInv'
    <3>1. UNCHANGED <<old, texts, check, next, new, changed, failed, ending>> BY <2>1 DEF fmtVars
    <3>2. FormatTypes' /\ (check' => texts' = old') /\ RestIsOld' /\ NewIsOfNext' /\ EndsWell'
      BY <2>1, <3>1 DEF FormatInv, FormatTypes, RestIsOld, NewIsOfNext, EndsWell
    <3>3. FilesAreWhole' /\ DoneSoFar'
      BY <2>1, <3>1 DEF FormatInv, FilesAreWhole, DoneSoFar
    <3>4. QED BY <3>2, <3>3 DEF FormatInv
  <2>2. QED BY <2>1, FormatSteps
<1>3. FormatInv => OnlyBlanksMove
  <2> SUFFICES ASSUME FormatInv PROVE OnlyBlanksMove
    OBVIOUS
  <2>1. texts \in [1 .. Len(old) -> Seq(Symbol)] /\ next \in 1 .. Len(old) + 1 BY DEF FormatInv, FormatTypes
  <2>2. DOMAIN texts = 1 .. Len(old) BY <2>1
  <2>3. Len(old) \in Nat BY DEF FormatInv, FormatTypes
  <2>4. ending = "ok" => \A f \in 1 .. Len(old) : FormatSv0(old[f]) = {texts[f]}
    <3>1. ending = "ok" => \A f \in 1 .. next - 1 : FormattedTo(old[f], texts[f]) BY DEF FormatInv, DoneSoFar, EndsWell
    <3>2. ending = "ok" => next > Len(old) BY DEF FormatInv, EndsWell
    <3>3. next > Len(old) => \A f \in 1 .. Len(old) : f \in 1 .. next - 1 BY <2>1, <2>3
    <3>4. QED BY <3>1, <3>2, <3>3 DEF FormattedTo
  <2>5. QED BY <2>2, <2>4 DEF FormatInv, FilesAreWhole, OnlyBlanksMove, Whole
<1>4. QED BY <1>1, <1>2, <1>3, PTL DEF FormatSpec
=============================================================================
