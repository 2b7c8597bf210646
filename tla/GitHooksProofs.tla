--------------------------- MODULE GitHooksProofs ---------------------------
(***************************************************************************)
(* What the hooks and the stripping of proven contracts may be held to,    *)
(* for any number of guards, jobs, commands and files.                     *)
(*                                                                         *)
(* GitHooks, for any natures and interleavings, any pushes and commits:    *)
(* the guards tell the truth in every use the hooks make of them           *)
(* (GuardInv), what a hook lets through has passed every stage that reads  *)
(* it, and what it refuses was refused for a reason (HookInv).             *)
(*                                                                         *)
(* HookInv follows the refs of a push through the hook: a ref that was     *)
(* read has left its mark in unknown or paths (RefsAreCollected), and once *)
(* the suite is decided no stage that a ref needs is dropped while the     *)
(* exit status is 0 (ScopeCoversRefs).  A commit's suite is its guards,    *)
(* selected as this commit allows (CommitSuite, SelectedByHook).           *)
(*                                                                         *)
(* ContractStripping, for any texts: a command that had the control file   *)
(* for itself lists its own file, and what is stripped from the text that  *)
(* was proven shares a line with a valid ensures (StripInv).               *)
(***************************************************************************)
EXTENDS GitHooks, ContractStripping, TLAPS

-----------------------------------------------------------------------------
(* GitHooks.                                                               *)

(* An ok is no broken guard's, and a judged guard has been counted.        *)
JudgedSoFar == {g \in selected : g < next}

GuardInv ==
  /\ GuardTypeOK
  /\ runner \in {"idle", "parallel"} => guardEc = 0
  /\ runner = "idle" => running = {} /\ crowded = {}
  /\ \A g \in Guard : status[g] = "ok" => nature[g] # "broken"
  /\ runner \in {"judge", "returned"} =>
       (guardEc = 0 <=> \A g \in JudgedSoFar : nature[g] # "broken")
  /\ runner = "returned" => next \notin Guard

USE GuardsAssumption, NatureAssumption DEF Guard

(* The guards' invariant holds at first, and every step preserves it.      *)
LEMMA GuardInitInv == GuardInit => GuardInv
BY DEF GuardInit, GuardInv, GuardTypeOK

LEMMA GuardStepInv ==
  ASSUME GuardInv, NEW fast \in BOOLEAN,
         GuardNext \/ RunGuards(fast) \/ UNCHANGED guardVars
  PROVE  GuardInv'
<1> USE DEF GuardInv, GuardTypeOK, JudgedSoFar
<1>1. CASE RunGuards(fast)
  BY <1>1 DEF RunGuards
<1>2. CASE Dispatch
  <2>1. next' \in 1 .. Guards + 1
    BY <1>2 DEF Dispatch
  <2>2. running' \subseteq selected /\ crowded' \subseteq selected
    BY <1>2 DEF Dispatch
  <2>3. UNCHANGED <<runner, nature, selected, status, guardEc>> /\ runner = "parallel"
    BY <1>2 DEF Dispatch
  <2>4. QED
    BY <2>1, <2>2, <2>3
<1>3. ASSUME NEW g \in Guard, GuardEnds(g) PROVE GuardInv'
  BY <1>3 DEF GuardEnds, MayPass, MayFail
<1>4. ASSUME NEW g \in Guard, GuardIsLost(g) PROVE GuardInv'
  BY <1>4 DEF GuardIsLost
<1>5. CASE ParallelPassEnds
  BY <1>5 DEF ParallelPassEnds
<1>6. CASE Judge
  <2>1. GuardTypeOK'
    BY <1>6 DEF Judge, Judged
  <2>2. JudgedSoFar' = JudgedSoFar \union (IF next \in selected THEN {next} ELSE {})
    <3>1. next \in Guard /\ next' = next + 1 /\ selected' = selected
      BY <1>6 DEF Judge
    <3>2. \A g \in Guard : g < next + 1 <=> g < next \/ g = next
      BY <3>1
    <3>3. QED
      BY <3>1, <3>2
  <2>3. next \in selected => (guardEc' = 0 <=> guardEc = 0 /\ nature[next] # "broken")
    BY <1>6 DEF Judge, Judged, MayPass
  <2>4. next \notin selected => guardEc' = guardEc
    BY <1>6 DEF Judge
  <2>5. guardEc' = 0 <=> \A g \in JudgedSoFar' : nature[g] # "broken"
    BY <1>6, <2>2, <2>3, <2>4 DEF Judge
  <2>6. QED
    BY <1>6, <2>1, <2>5 DEF Judge
<1>7. CASE Return
  BY <1>7 DEF Return
<1>8. CASE UNCHANGED guardVars
  BY <1>8 DEF guardVars
<1>9. QED
  BY <1>1, <1>2, <1>3, <1>4, <1>5, <1>6, <1>7, <1>8 DEF GuardNext, RunnerStep

(* What the hooks do to the guards is a step of theirs or none.            *)
LEMMA HooksDriveGuards ==
  ASSUME [HookNext]_hookVars
  PROVE  GuardNext \/ RunGuards(Fast) \/ UNCHANGED guardVars
<1>1. CASE HookNext
  BY <1>1 DEF HookNext, StartCommit, StartPush, ReadRef, Decide, RunStage, BeginGuards,
              GuardStep, EndGuards, EndSuite
<1>2. CASE UNCHANGED hookVars
  BY <1>2 DEF hookVars
<1>3. QED
  BY <1>1, <1>2

(* The guards' invariant holds throughout a hook.                          *)
THEOREM GuardInvAlways == HookSpec => []GuardInv
<1>1. HookInit => GuardInv
  BY GuardInitInv DEF HookInit
<1>2. GuardInv /\ [HookNext]_hookVars => GuardInv'
  BY HooksDriveGuards, GuardStepInv, Fast \in BOOLEAN DEF Fast
<1>3. QED
  BY <1>1, <1>2, PTL DEF HookSpec

(* A commit or a push sees the guards fail exactly when one of the guards  *)
(* it selected is broken: no flake, no crowd and no missing status file    *)
(* makes a difference.                                                     *)
THEOREM GuardsAreRight == HookSpec => []GuardsTellTheTruth
<1>1. GuardInv => GuardsTellTheTruth
  BY DEF GuardInv, GuardTypeOK, GuardsTellTheTruth, JudgedSoFar
<1>2. QED
  BY <1>1, GuardInvAlways, PTL

-----------------------------------------------------------------------------
(* The hooks' own variables.                                               *)

(* Whatever is decided is a sequence of stages.                            *)
LEMMA SuitesHaveStages ==
  /\ \A repo : Suite(repo) \in Seq(Stage)
  /\ \A repo, classes : Classify(repo, classes) \in Seq(Stage)
<1> USE DEF Stage
<1>1. FullSuite \in Seq(Stage) /\ <<"sv0c">> \in Seq(Stage)
  BY DEF FullSuite
<1>2. ASSUME NEW repo PROVE Suite(repo) \in Seq(Stage)
  BY <1>1 DEF Suite
<1>3. ASSUME NEW groups PROVE LightSuite(groups) \in Seq(Stage)
  <2> DEFINE a == IF "strings" \in groups THEN <<"alloc">> ELSE << >>
             b == IF "mathlib" \in groups THEN <<"parity">> ELSE << >>
             c == IF groups # {} THEN <<"project">> ELSE << >>
  <2>1. a \in Seq(Stage) /\ b \in Seq(Stage) /\ c \in Seq(Stage)
    <3>1. << >> \in Seq(Stage) /\ <<"alloc">> \in Seq(Stage)
          /\ <<"parity">> \in Seq(Stage) /\ <<"project">> \in Seq(Stage)
      OBVIOUS
    <3>2. QED
      BY <3>1, Zenon
  <2>2. <<"guards">> \in Seq(Stage) /\ <<"doctests">> \in Seq(Stage)
    OBVIOUS
  <2> HIDE DEF a, b, c
  <2>3. <<"guards">> \o a \o b \o c \o <<"doctests">> \in Seq(Stage)
    BY <2>1, <2>2
  <2>4. QED
    BY <2>3 DEF LightSuite, a, b, c
<1>4. ASSUME NEW repo, NEW classes PROVE Classify(repo, classes) \in Seq(Stage)
  BY <1>2, <1>3 DEF Classify
<1>5. QED
  BY <1>2, <1>4

(* The end of a stage keeps the types.                                     *)
LEMMA StageTypes ==
  ASSUME HookTypeOK, scope # << >>, NEW passes \in BOOLEAN, StageEnds(Head(scope), passes)
  PROVE  ec' \in {0, 1} /\ passed' \subseteq Stage /\ scope' \in Seq(Stage)
<1>1. Head(scope) \in Stage /\ Tail(scope) \in Seq(Stage)
  BY DEF HookTypeOK
<1>2. QED
  BY <1>1 DEF StageEnds, HookTypeOK

(* The variables of the hooks keep their types.                            *)
THEOREM HookTypeCorrect == HookSpec => []HookTypeOK
<1>1. HookInit => HookTypeOK
  <2> SUFFICES ASSUME HookInit PROVE HookTypeOK
    OBVIOUS
  <2>1. GuardTypeOK
    BY GuardInitInv DEF HookInit, GuardInv
  <2>2. push \in Seq(Ref)
    <3>1. CASE setting.hook = "pre-push"
      BY <3>1, PushAssumption DEF HookInit
    <3>2. CASE setting.hook # "pre-push"
      <4>1. push = << >>
        BY <3>2 DEF HookInit
      <4>2. QED
        BY <4>1
    <3>3. QED
      BY <3>1, <3>2
  <2>3. << >> \in Seq(Stage)
    OBVIOUS
  <2>4. QED
    BY <2>1, <2>2, <2>3 DEF HookInit, HookTypeOK
<1>2. HookTypeOK /\ GuardInv' /\ [HookNext]_hookVars => HookTypeOK'
  <2> SUFFICES ASSUME HookTypeOK, GuardTypeOK', [HookNext]_hookVars PROVE HookTypeOK'
    BY DEF GuardInv
  <2>1. CASE StartCommit
    <3>1. << >> \in Seq(Stage) /\ <<"guards">> \in Seq(Stage)
      BY DEF Stage
    <3>2. scope' \in Seq(Stage)
      BY <2>1, <3>1, Zenon DEF StartCommit
    <3>3. hook' \in {"start", "refs", "suite", "allowed", "refused"}
      BY <2>1 DEF StartCommit
    <3>4. QED
      BY <2>1, <3>2, <3>3 DEF StartCommit, HookTypeOK
  <2>2. CASE StartPush
    BY <2>2, SuitesHaveStages DEF StartPush, HookTypeOK
  <2>3. CASE ReadRef
    <3>1. Head(unread) \in Ref /\ Tail(unread) \in Seq(Ref)
      BY <2>3 DEF ReadRef, HookTypeOK
    <3>2. QED
      BY <2>3, <3>1 DEF ReadRef, HookTypeOK, Ref
  <2>4. CASE Decide
    BY <2>4, SuitesHaveStages DEF Decide, HookTypeOK
  <2>5. CASE RunStage
    <3>1. ec' \in {0, 1} /\ passed' \subseteq Stage /\ scope' \in Seq(Stage)
      BY <2>5, StageTypes DEF RunStage
    <3>2. QED
      BY <2>5, <3>1 DEF RunStage, HookTypeOK
  <2>6. CASE BeginGuards \/ GuardStep \/ EndSuite \/ UNCHANGED hookVars
    BY <2>6 DEF BeginGuards, GuardStep, EndSuite, hookVars, HookTypeOK
  <2>7. CASE EndGuards
    <3>1. ec' \in {0, 1} /\ passed' \subseteq Stage /\ scope' \in Seq(Stage)
      BY <2>7, StageTypes DEF EndGuards
    <3>2. QED
      BY <2>7, <3>1 DEF EndGuards, HookTypeOK
  <2>8. QED
    BY <2>1, <2>2, <2>3, <2>4, <2>5, <2>6, <2>7 DEF HookNext
<1>3. QED
  BY <1>1, <1>2, GuardInvAlways, PTL DEF HookSpec

-----------------------------------------------------------------------------
(* What either hook lets through, and why it refuses.                      *)

(* The stages that read what a ref changes, or all of them. *)
Needed(ref) ==
  IF ref.base = "none" THEN ToSet(Suite(setting.repo))
  ELSE UNION {Feeds(setting.repo, class) : class \in ref.changes}

(* A ref that is not to be read any more has left its mark.                *)
RefsAreCollected ==
  \A ref \in Tested :
    \/ ref \in ToSet(unread)
    \/ anyRef /\ (IF ref.base = "none" THEN unknown ELSE ref.changes \subseteq paths)

(* The suite drops no stage a ref needs without an exit status to show.    *)
ScopeCoversRefs ==
  setting.hook = "pre-push" /\ hook = "suite" =>
    \A ref \in Tested : \A stage \in Needed(ref) :
      stage \in passed \/ ec = 1 \/ stage \in ToSet(scope)

(* The guards are run in the way this hook asks for.                       *)
SelectedByHook ==
  setting.hook = "pre-commit" /\ runner # "idle" =>
    selected = IF Fast THEN Guard \ Heavy ELSE Guard

(* The suite of a commit is its guards.                                    *)
CommitSuite ==
  setting.hook = "pre-commit" =>
    /\ hook # "refs"
    /\ hook = "suite" =>
         /\ setting.repo = "parent" /\ \A file \in Seen : file.accepted
         /\ scope \in {<<"guards">>, << >>}
         /\ scope = << >> /\ ec = 0 => runner = "returned" /\ guardEc = 0
    /\ hook = "allowed" /\ ~Bypassed /\ Seen # {} =>
         /\ \A file \in Seen : file.accepted
         /\ setting.repo = "parent" => runner = "returned" /\ guardEc = 0

(* An exit status of 1 comes from a stage or a guard that fails.           *)
FailureHasAReason ==
  /\ ec = 1 => failing # {} \/ \E g \in Guard : nature[g] = "broken"
  /\ RefusalHasAReason

(* The inductive invariant.                                                *)
HookInv ==
  /\ setting \in Setting /\ commit \subseteq Staged
  /\ hook \in {"refs", "suite"} => ~Bypassed
  /\ RefsAreCollected
  /\ ScopeCoversRefs
  /\ AllowedPushIsTested
  /\ SelectedByHook
  /\ CommitSuite
  /\ FailureHasAReason

(* What has been read off a sequence was its head or is still in it.       *)
LEMMA HeadOrTail ==
  ASSUME NEW S, NEW s \in Seq(S), s # << >>, NEW x \in ToSet(s), x # Head(s)
  PROVE  x \in ToSet(Tail(s))
<1>1. PICK i \in 1 .. Len(s) : s[i] = x BY DEF ToSet
<1>2. i # 1 BY <1>1
<1>3. i - 1 \in 1 .. Len(Tail(s)) /\ Tail(s)[i - 1] = x BY <1>1, <1>2
<1>4. DOMAIN Tail(s) = 1 .. Len(Tail(s)) OBVIOUS
<1>5. QED BY <1>3, <1>4 DEF ToSet

(* A concatenation holds the members of both parts.                        *)
LEMMA MembersOfConcatenation ==
  ASSUME NEW S, NEW s \in Seq(S), NEW t \in Seq(S)
  PROVE  ToSet(s) \union ToSet(t) \subseteq ToSet(s \o t)
<1>1. ASSUME NEW i \in 1 .. Len(s) PROVE s[i] \in ToSet(s \o t)
  BY DEF ToSet
<1>2. ASSUME NEW i \in 1 .. Len(t) PROVE t[i] \in ToSet(s \o t)
  <2>1. Len(s) + i \in 1 .. Len(s \o t) /\ (s \o t)[Len(s) + i] = t[i] OBVIOUS
  <2>2. QED BY <2>1 DEF ToSet
<1>3. \A x \in ToSet(s) : \E i \in 1 .. Len(s) : x = s[i] BY DEF ToSet
<1>4. \A x \in ToSet(t) : \E i \in 1 .. Len(t) : x = t[i] BY DEF ToSet
<1>5. QED BY <1>1, <1>2, <1>3, <1>4

(* The full suite of a repository holds every stage any of its paths       *)
(* feeds, and the light suite those of the paths that lead to it.          *)
LEMMA SuiteFeedsAll ==
  ASSUME NEW repo \in {"parent", "sv0c"}, NEW class \in Class
  PROVE  Feeds(repo, class) \subseteq ToSet(Suite(repo))
<1>1. CASE repo = "sv0c"
  <2>1. Suite(repo) = <<"sv0c">> BY <1>1 DEF Suite
  <2>2. "sv0c" \in ToSet(<<"sv0c">>) BY DEF ToSet
  <2>3. QED BY <1>1, <2>1, <2>2 DEF Feeds
<1>2. CASE repo = "parent"
  <2>1. Suite(repo) = FullSuite BY <1>2 DEF Suite
  <2>2. {"guards", "doctests", "alloc", "parity", "project"} \subseteq ToSet(FullSuite)
    <3>1. /\ FullSuite[2] = "guards" /\ FullSuite[4] = "alloc" /\ FullSuite[5] = "parity"
          /\ FullSuite[7] = "project" /\ FullSuite[8] = "doctests"
          /\ {2, 4, 5, 7, 8} \subseteq DOMAIN FullSuite
      BY DEF FullSuite
    <3>2. \A i \in DOMAIN FullSuite : FullSuite[i] \in ToSet(FullSuite)
      BY DEF ToSet
    <3>3. QED BY <3>1, <3>2
  <2>3. QED BY <1>2, <2>1, <2>2 DEF Feeds, Class
<1>3. QED BY <1>1, <1>2

(* The light suite of a set of classes feeds each of them.                 *)
LEMMA LightSuiteFeeds ==
  ASSUME NEW classes, classes \subseteq Class \ {"other"}, NEW class \in classes
  PROVE  Feeds("parent", class) \subseteq ToSet(LightSuite(classes \intersect Groups))
<1> DEFINE g == classes \intersect Groups
           a == IF "strings" \in g THEN <<"alloc">> ELSE << >>
           b == IF "mathlib" \in g THEN <<"parity">> ELSE << >>
           c == IF g # {} THEN <<"project">> ELSE << >>
           l == <<"guards">> \o a \o b \o c \o <<"doctests">>
<1>1. a \in Seq(Stage) /\ b \in Seq(Stage) /\ c \in Seq(Stage)
  <2>1. << >> \in Seq(Stage) /\ <<"alloc">> \in Seq(Stage)
        /\ <<"parity">> \in Seq(Stage) /\ <<"project">> \in Seq(Stage)
    BY DEF Stage
  <2>2. QED BY <2>1, Zenon
<1>2. <<"guards">> \in Seq(Stage) /\ <<"doctests">> \in Seq(Stage) BY DEF Stage
<1>3. /\ "guards" \in ToSet(<<"guards">>) /\ "doctests" \in ToSet(<<"doctests">>)
      /\ "alloc" \in ToSet(<<"alloc">>) /\ "parity" \in ToSet(<<"parity">>)
      /\ "project" \in ToSet(<<"project">>)
  BY DEF ToSet
<1>4. /\ "strings" \in g => "alloc" \in ToSet(a)
      /\ "mathlib" \in g => "parity" \in ToSet(b)
      /\ g # {} => "project" \in ToSet(c)
  BY <1>3, Zenon
<1> HIDE DEF a, b, c
<1>5. ToSet(<<"guards">>) \union ToSet(a) \union ToSet(b) \union ToSet(c)
        \union ToSet(<<"doctests">>) \subseteq ToSet(l)
  <2>1. /\ <<"guards">> \o a \in Seq(Stage)
        /\ <<"guards">> \o a \o b \in Seq(Stage)
        /\ <<"guards">> \o a \o b \o c \in Seq(Stage)
    BY <1>1, <1>2
  <2>2. ToSet(<<"guards">>) \union ToSet(a) \subseteq ToSet(<<"guards">> \o a)
    BY <1>1, <1>2, MembersOfConcatenation
  <2>3. ToSet(<<"guards">> \o a) \union ToSet(b) \subseteq ToSet(<<"guards">> \o a \o b)
    BY <1>1, <2>1, MembersOfConcatenation
  <2>4. ToSet(<<"guards">> \o a \o b) \union ToSet(c)
          \subseteq ToSet(<<"guards">> \o a \o b \o c)
    BY <1>1, <2>1, MembersOfConcatenation
  <2>5. ToSet(<<"guards">> \o a \o b \o c) \union ToSet(<<"doctests">>) \subseteq ToSet(l)
    BY <1>2, <2>1, MembersOfConcatenation
  <2> HIDE DEF l
  <2>6. QED BY <2>2, <2>3, <2>4, <2>5
<1>6. l = LightSuite(g) BY DEF LightSuite, a, b, c
<1> HIDE DEF l
<1>7. {"guards", "doctests"} \subseteq ToSet(LightSuite(g))
      /\ ("strings" \in g => "alloc" \in ToSet(LightSuite(g)))
      /\ ("mathlib" \in g => "parity" \in ToSet(LightSuite(g)))
      /\ (g # {} => "project" \in ToSet(LightSuite(g)))
  BY <1>3, <1>4, <1>5, <1>6
<1>8. QED BY <1>7 DEF Feeds, Class, Groups

-----------------------------------------------------------------------------

(* The hooks' invariant holds at first.                                    *)
LEMMA HookInitInv == HookInit => HookInv
<1> SUFFICES ASSUME HookInit PROVE HookInv
  OBVIOUS
<1> USE DEF HookInit
<1>1. setting \in Setting /\ commit \subseteq Staged /\ hook = "start"
  BY CommitAssumption
<1>2. RefsAreCollected /\ ScopeCoversRefs /\ AllowedPushIsTested
  BY DEF RefsAreCollected, Tested, ScopeCoversRefs, AllowedPushIsTested, Pushed
<1>3. SelectedByHook /\ CommitSuite /\ FailureHasAReason
  BY DEF GuardInit, SelectedByHook, CommitSuite, FailureHasAReason, RefusalHasAReason
<1>4. QED BY <1>1, <1>2, <1>3 DEF HookInv

(* The end of a stage loses no stage a ref needs.                          *)
LEMMA StageEndKeepsScope ==
  ASSUME HookTypeOK, scope # << >>, NEW passes \in BOOLEAN, StageEnds(Head(scope), passes),
         NEW stage, stage \in passed \/ ec = 1 \/ stage \in ToSet(scope)
  PROVE  stage \in passed' \/ ec' = 1 \/ stage \in ToSet(scope')
<1>1. CASE ~passes BY <1>1 DEF StageEnds
<1>2. CASE passes
  <2>1. passed' = passed \union {Head(scope)} /\ ec' = ec /\ scope' = Tail(scope)
    BY <1>2 DEF StageEnds
  <2>2. stage \in ToSet(scope) /\ stage # Head(scope) => stage \in ToSet(Tail(scope))
    BY HeadOrTail DEF HookTypeOK
  <2>3. QED BY <2>1, <2>2
<1>3. QED BY <1>1, <1>2

(* What is decided for the paths collected feeds from every ref.           *)
LEMMA DecisionCoversRefs ==
  ASSUME HookTypeOK, HookInv, Decide, setting.repo \in {"parent", "sv0c"},
         NEW ref \in Tested, NEW stage \in Needed(ref)
  PROVE  hook' = "suite" /\ stage \in ToSet(scope')
<1>1. anyRef /\ (IF ref.base = "none" THEN unknown ELSE ref.changes \subseteq paths)
  BY DEF HookInv, RefsAreCollected, Decide, ToSet
<1>2. ref.changes \subseteq Class
  <2>1. PICK i \in DOMAIN push : push[i] = ref BY DEF Tested, ToSet
  <2>2. ref \in Ref BY <2>1 DEF HookTypeOK
  <2>3. QED BY <2>2 DEF Ref
<1> DEFINE decided == IF unknown \/ setting.classifier = "fails" THEN Suite(setting.repo)
                      ELSE Classify(setting.repo, paths)
<1>3. stage \in ToSet(decided)
  <2>1. CASE unknown \/ setting.classifier = "fails"
    BY <1>2, <2>1, SuiteFeedsAll DEF Needed
  <2>2. CASE ~(unknown \/ setting.classifier = "fails")
    <3>1. PICK class \in ref.changes : stage \in Feeds(setting.repo, class)
      BY <1>1, <2>2 DEF Needed
    <3>2. class \in paths /\ class \in Class
      BY <1>1, <1>2, <2>2
    <3>3. stage \in ToSet(Classify(setting.repo, paths))
      <4>1. CASE setting.repo = "parent" /\ "other" \notin paths
        BY <3>1, <3>2, <4>1, LightSuiteFeeds DEF Classify, HookTypeOK
      <4>2. CASE setting.repo = "parent" /\ "other" \in paths
        BY <3>1, <3>2, <4>2, SuiteFeedsAll DEF Classify
      <4>3. CASE setting.repo = "sv0c"
        <5>1. class # "doc" BY <3>1, <4>3 DEF Feeds
        <5>2. Classify(setting.repo, paths) = Suite(setting.repo)
          BY <3>2, <4>3, <5>1 DEF Classify
        <5>3. QED BY <3>1, <3>2, <5>2, SuiteFeedsAll
      <4>4. QED BY <4>1, <4>2, <4>3
    <3>4. QED BY <2>2, <3>3
  <2>3. QED BY <2>1, <2>2
<1>4. decided # << >>
  BY <1>3 DEF ToSet
<1>5. QED BY <1>1, <1>3, <1>4 DEF Decide

(* A ref leaves the unread ones with its mark.                             *)
LEMMA ReadRefCollects ==
  ASSUME HookTypeOK, HookInv, HookNext
  PROVE  RefsAreCollected'
<1> USE DEF HookInv, RefsAreCollected, Tested
<1>1. CASE ReadRef
  <2> SUFFICES ASSUME NEW ref \in Tested
               PROVE  \/ ref \in ToSet(unread')
                      \/ /\ anyRef'
                         /\ IF ref.base = "none" THEN unknown' ELSE ref.changes \subseteq paths'
    BY <1>1 DEF ReadRef
  <2>1. CASE ref \in ToSet(unread) /\ ref # Head(unread)
    BY <1>1, <2>1, HeadOrTail DEF ReadRef, HookTypeOK
  <2>2. CASE ref = Head(unread)
    <3>1. ref \in Ref /\ ~ref.deletion
      <4>1. PICK i \in DOMAIN push : push[i] = ref BY DEF ToSet
      <4>2. QED BY <4>1 DEF HookTypeOK
    <3>2. QED BY <1>1, <2>2, <3>1 DEF ReadRef, Ref
  <2>3. CASE ref \notin ToSet(unread)
    BY <1>1, <2>3 DEF ReadRef
  <2>4. QED BY <2>1, <2>2, <2>3
<1>2. CASE UNCHANGED <<push, unread, anyRef, unknown, paths>>
  BY <1>2
<1>3. QED
  BY <1>1, <1>2
  DEF HookNext, StartCommit, StartPush, Decide, RunStage, BeginGuards,
      GuardStep, EndGuards, EndSuite

(* No step of a push leaves a needed stage out.                            *)
LEMMA PushStepCovers ==
  ASSUME HookTypeOK, HookInv, HookNext
  PROVE  ScopeCoversRefs' /\ AllowedPushIsTested'
<1> SUFFICES ASSUME setting.hook = "pre-push"
             PROVE  ScopeCoversRefs' /\ AllowedPushIsTested'
  BY DEF HookNext, StartCommit, StartPush, ReadRef, Decide, RunStage, BeginGuards,
         GuardStep, EndGuards, EndSuite, ScopeCoversRefs, AllowedPushIsTested, Pushed
<1> USE DEF HookInv, ScopeCoversRefs, AllowedPushIsTested, Pushed, Bypassed, Tested, Needed
<1>1. setting.repo \in {"parent", "sv0c", "unknown"} /\ setting.skipHooks \in BOOLEAN
  BY SettingAssumption
<1>2. \A ref \in Tested : ref.base \in {"found", "none"} /\ ref.changes \subseteq Class
  <2> SUFFICES ASSUME NEW ref \in ToSet(push)
               PROVE  ref.base \in {"found", "none"} /\ ref.changes \subseteq Class
    OBVIOUS
  <2>1. PICK i \in DOMAIN push : push[i] = ref BY DEF ToSet
  <2>2. ref \in Ref BY <2>1 DEF HookTypeOK
  <2>3. QED BY <2>2 DEF Ref
<1>3. CASE StartPush
  <2>1. CASE hook' = "suite"
    <3>1. scope' = Suite(setting.repo) /\ setting.repo \in {"parent", "sv0c"}
      BY <1>1, <1>3, <2>1 DEF StartPush
    <3>2. \A ref \in Tested : Needed(ref) \subseteq ToSet(Suite(setting.repo))
      BY <1>2, <3>1, SuiteFeedsAll
    <3>3. QED BY <1>3, <2>1, <3>1, <3>2 DEF StartPush
  <2>2. CASE hook' # "suite"
    BY <1>3, <2>2 DEF StartPush
  <2>3. QED BY <2>1, <2>2
<1>4. CASE Decide
  <2>9. setting.repo \in {"parent", "sv0c"} BY <1>1, <1>4 DEF Decide
  <2>1. \A ref \in Tested : \A stage \in Needed(ref) :
          hook' = "suite" /\ stage \in ToSet(scope')
    BY <1>4, <2>9, DecisionCoversRefs
  <2>2. UNCHANGED <<push, setting, passed, ec>> BY <1>4 DEF Decide
  <2>3. hook' = "allowed" \/ hook' = "suite" BY <1>4 DEF Decide
  <2>4. ScopeCoversRefs' BY <2>1, <2>2
  <2>5. ASSUME hook' = "allowed" PROVE AllowedPushIsTested'
    <3>1. \A ref \in Tested : Needed(ref) = {} BY <2>1, <2>5
    <3>2. QED BY <2>2, <3>1
  <2>6. QED BY <2>3, <2>4, <2>5
<1>5. CASE hook' = hook /\ hook = "suite" /\ scope # << >> /\ UNCHANGED <<push, setting>>
           /\ \E passes \in BOOLEAN : StageEnds(Head(scope), passes)
  <2>1. ASSUME NEW stage, stage \in passed \/ ec = 1 \/ stage \in ToSet(scope)
        PROVE  stage \in passed' \/ ec' = 1 \/ stage \in ToSet(scope')
    BY <1>5, <2>1, StageEndKeepsScope
  <2>2. QED BY <1>5, <2>1
<1>6. CASE EndSuite
  <2>1. ToSet(scope) = {} BY <1>6 DEF EndSuite, ToSet
  <2>2. UNCHANGED <<push, setting, passed>> /\ hook = "suite" /\ hook' # "suite"
        /\ (hook' = "allowed" => ec = 0)
    BY <1>6 DEF EndSuite
  <2>3. ASSUME ec = 0 PROVE \A ref \in Tested : Needed(ref) \subseteq passed
    BY <2>1, <2>2, <2>3
  <2>4. QED BY <2>2, <2>3
<1>7. CASE hook' \notin {"suite", "allowed"}
  BY <1>7
<1>8. CASE UNCHANGED <<hook, push, setting, passed, ec, scope>>
  BY <1>8
<1>9. CASE RunStage \/ EndGuards
  BY <1>5, <1>9 DEF RunStage, EndGuards
<1>10. QED
  BY <1>3, <1>4, <1>6, <1>7, <1>8, <1>9
  DEF HookNext, StartCommit, ReadRef, BeginGuards, GuardStep

(* A commit's suite is its guards, run as fast as this commit allows.      *)
LEMMA CommitStep ==
  ASSUME HookTypeOK, HookInv, GuardInv, HookNext
  PROVE  SelectedByHook' /\ CommitSuite'
<1> USE DEF HookInv, SelectedByHook, CommitSuite, Bypassed, Seen, Fast
<1>1. UNCHANGED <<setting, commit>>
  BY DEF HookNext, StartCommit, StartPush, ReadRef, Decide, RunStage, BeginGuards,
         GuardStep, EndGuards, EndSuite
<1>2. setting.repo \in {"parent", "sv0c", "unknown"} /\ setting.hook \in {"pre-commit", "pre-push"}
  BY SettingAssumption
<1>3. SelectedByHook'
  <2>1. CASE BeginGuards
    BY <1>1, <2>1 DEF BeginGuards, RunGuards
  <2>2. CASE GuardStep
    BY <1>1, <2>2
    DEF GuardStep, GuardNext, RunnerStep, Dispatch, ParallelPassEnds, Judge, Return,
        GuardEnds, GuardIsLost
  <2>3. CASE UNCHANGED guardVars
    BY <1>1, <2>3 DEF guardVars
  <2>4. QED
    BY <2>1, <2>2, <2>3
    DEF HookNext, StartCommit, StartPush, ReadRef, Decide, RunStage, EndGuards, EndSuite
<1>4. ASSUME setting.hook = "pre-commit" PROVE CommitSuite'
  <2>1. ~(StartPush \/ ReadRef \/ Decide)
    BY <1>4 DEF StartPush, ReadRef, Decide
  <2>2. CASE StartCommit
    <3>1. CASE hook' = "suite"
      BY <1>1, <1>2, <2>2, <3>1 DEF StartCommit
    <3>2. CASE hook' # "suite"
      BY <1>1, <1>2, <2>2, <3>2 DEF StartCommit
    <3>3. QED BY <3>1, <3>2
  <2>3. CASE RunStage
    BY <2>3, <1>4 DEF RunStage
  <2>4. CASE BeginGuards
    BY <1>1, <2>4 DEF BeginGuards, RunGuards
  <2>5. CASE GuardStep
    <3>1. runner \notin {"idle", "returned"}
      BY <2>5 DEF GuardStep, GuardNext, RunnerStep, Dispatch, ParallelPassEnds, Judge,
                  Return, GuardEnds, GuardIsLost
    <3>2. UNCHANGED <<hook, scope, ec>>
      BY <2>5 DEF GuardStep
    <3>3. QED BY <1>1, <3>1, <3>2
  <2>6. CASE EndGuards
    <3>1. scope = <<"guards">> /\ hook = "suite" /\ hook' = "suite" /\ runner' = "returned"
          /\ UNCHANGED guardVars
      BY <1>4, <2>6 DEF EndGuards, guardVars
    <3>2. scope' = << >> /\ (ec' = 0 => guardEc = 0)
      BY <2>6, <3>1 DEF EndGuards, StageEnds
    <3>3. QED BY <1>1, <3>1, <3>2 DEF guardVars
  <2>7. CASE EndSuite
    BY <1>1, <1>4, <2>7 DEF EndSuite, guardVars, HookTypeOK
  <2>8. QED BY <2>1, <2>2, <2>3, <2>4, <2>5, <2>6, <2>7 DEF HookNext
<1>5. QED BY <1>1, <1>3, <1>4

(* An exit status comes from a failing stage or a broken guard.            *)
LEMMA ReasonStep ==
  ASSUME HookTypeOK, HookInv, GuardInv, HookNext
  PROVE  FailureHasAReason'
<1> USE DEF HookInv, FailureHasAReason, RefusalHasAReason
<1>1. UNCHANGED <<setting, failing, nature>>
  BY DEF HookNext, StartCommit, StartPush, ReadRef, Decide, RunStage, BeginGuards,
         GuardStep, EndGuards, EndSuite, guardVars, RunGuards, GuardNext, RunnerStep,
         Dispatch, ParallelPassEnds, Judge, Return, GuardEnds, GuardIsLost
<1>2. CASE RunStage
  <2>1. ec' = ec \/ Head(scope) \in failing
    BY <1>2 DEF RunStage, StageEnds
  <2>2. QED BY <1>1, <1>2, <2>1 DEF RunStage
<1>3. CASE EndGuards
  <2>1. ec' = ec \/ guardEc # 0
    BY <1>3 DEF EndGuards, StageEnds
  <2>2. guardEc # 0 => \E g \in Guard : nature[g] = "broken"
    BY <1>3 DEF EndGuards, GuardInv, GuardTypeOK, JudgedSoFar
  <2>3. QED BY <1>1, <1>3, <2>1, <2>2 DEF EndGuards
<1>4. CASE EndSuite
  <2>1. ec' = ec /\ (hook' = "refused" => ec = 1)
    BY <1>4 DEF EndSuite, HookTypeOK
  <2>2. QED BY <1>1, <2>1
<1>5. CASE StartCommit
  BY <1>1, <1>5 DEF StartCommit
<1>6. CASE StartPush \/ ReadRef \/ Decide \/ BeginGuards \/ GuardStep
  BY <1>1, <1>6 DEF StartPush, ReadRef, Decide, BeginGuards, GuardStep
<1>7. QED BY <1>2, <1>3, <1>4, <1>5, <1>6 DEF HookNext

(* Every step preserves it.                                                *)
LEMMA HookStepInv ==
  HookTypeOK /\ GuardInv /\ HookInv /\ [HookNext]_hookVars => HookInv'
<1> SUFFICES ASSUME HookTypeOK, GuardInv, HookInv, [HookNext]_hookVars PROVE HookInv'
  OBVIOUS
<1>1. CASE UNCHANGED hookVars
  BY <1>1
  DEF hookVars, guardVars, HookInv, RefsAreCollected, ScopeCoversRefs, AllowedPushIsTested,
      SelectedByHook, CommitSuite, FailureHasAReason, RefusalHasAReason, Tested, Needed,
      Bypassed, Pushed, Seen, Fast
<1>2. CASE HookNext
  <2>1. UNCHANGED <<setting, commit>>
    BY <1>2 DEF HookNext, StartCommit, StartPush, ReadRef, Decide, RunStage, BeginGuards,
                GuardStep, EndGuards, EndSuite
  <2>2. hook' \in {"refs", "suite"} => ~Bypassed'
    BY <1>2, <2>1
    DEF HookNext, StartCommit, StartPush, ReadRef, Decide, RunStage, BeginGuards,
        GuardStep, EndGuards, EndSuite, HookInv, Bypassed
  <2>3. QED
    BY <1>2, <2>1, <2>2, ReadRefCollects, PushStepCovers, CommitStep, ReasonStep DEF HookInv
<1>3. QED BY <1>1, <1>2

(* The invariant of the hooks holds throughout, with that of the guards.   *)
THEOREM HookInvAlways == HookSpec => [](HookTypeOK /\ GuardInv /\ HookInv)
BY HookInitInv, HookStepInv, HookTypeCorrect, GuardInvAlways, PTL DEF HookSpec

(* Whatever is pushed or committed, in whichever setting and with any      *)
(* stages failing: what a hook lets through has passed every stage that    *)
(* reads it, and every guard the hook does not leave out.                  *)
THEOREM LetThroughWasChecked == HookSpec => []LetThroughIsChecked
<1>1. HookInv /\ GuardInv => LetThroughIsChecked
  <2> SUFFICES ASSUME HookInv, GuardInv PROVE AllowedCommitIsChecked
    BY DEF HookInv, LetThroughIsChecked
  <2> SUFFICES ASSUME Committed, Seen # {}
               PROVE  /\ \A file \in Seen : file.accepted
                      /\ setting.repo = "parent" =>
                           \A g \in Guard : nature[g] = "broken" =>
                             g \in Heavy /\ \A file \in commit : file.path # "other"
    BY DEF AllowedCommitIsChecked
  <2>1. \A file \in Seen : file.accepted
    BY DEF HookInv, CommitSuite, Committed
  <2>2. ASSUME setting.repo = "parent", NEW g \in Guard, nature[g] = "broken"
        PROVE  g \in Heavy /\ \A file \in commit : file.path # "other"
    <3>1. runner = "returned" /\ guardEc = 0
      BY <2>2 DEF HookInv, CommitSuite, Committed
    <3>2. selected = IF Fast THEN Guard \ Heavy ELSE Guard
      BY <3>1 DEF HookInv, SelectedByHook, Committed
    <3>3. g \notin selected
      BY <2>2, <3>1 DEF GuardInv, GuardTypeOK, JudgedSoFar
    <3>4. QED BY <3>2, <3>3 DEF Fast
  <2>3. QED BY <2>1, <2>2
<1>2. QED BY <1>1, HookInvAlways, PTL

(* No push is refused for a guard that is sound or only flaky.             *)
THEOREM RefusalsAreDeserved == HookSpec => []RefusalHasAReason
<1>1. HookInv => RefusalHasAReason BY DEF HookInv, FailureHasAReason
<1>2. QED BY <1>1, HookInvAlways, PTL

-----------------------------------------------------------------------------
(* ContractStripping.                                                      *)

(* A command that was not crossed finds its own file in ctl, and has kept  *)
(* that file's clauses apart from every other's.                           *)
Undisturbed(c) ==
  /\ pc[c] = "compile" => job[c].op = "compile"
  /\ c \notin crossed =>
       /\ pc[c] = "read" => ctl = job[c].file
       /\ pc[c] \in {"clear", "prove", "done"} /\ job[c].op = "verify"
            => read[c].file = job[c].file

(* Two commands that are both open have been crossed.                      *)
OpenIsExclusive ==
  \A c, d \in Command : c # d /\ Open(c) /\ Open(d) => c \in crossed /\ d \in crossed

OnlyValidIsProven(c) ==
  /\ \A k \in proven[c] : k \in read[c].text /\ k.holds
                          /\ (job[c].op = "compile" => k.kind = "ensures")
  /\ pc[c] \in {"start", "write", "read", "clear", "prove"} => proven[c] = {}
  /\ ~solver => proven[c] = {}

OnlyItsLinesAreStripped(c) ==
  Verified(c) => \A k \in emitted[c].unchecked :
                   k.kind = "ensures" /\ \E p \in proven[c] : p.line = k.line

StripInv ==
  /\ StripTypeOK
  /\ OpenIsExclusive
  /\ \A c \in Command : Undisturbed(c) /\ OnlyValidIsProven(c) /\ OnlyItsLinesAreStripped(c)

USE DEF GoTo, Open, OthersOpen, NoC

(* The clauses of any text are clauses.                                    *)
LEMMA TextsHoldClauses ==
  ASSUME NEW t \in Text \union {{}}
  PROVE  t \subseteq Clause
  BY TextAssumption

LEMMA StripInitInv == StripInit => StripInv
<1> SUFFICES ASSUME StripInit PROVE StripInv
  OBVIOUS
<1>1. StripTypeOK
  BY DEF StripInit, StripTypeOK, Nothing
<1>2. QED
  BY <1>1, RequestAssumption
     DEF StripInit, StripInv, OpenIsExclusive, Undisturbed, OnlyValidIsProven,
         OnlyItsLinesAreStripped, Verified

(* Every action keeps the variables in their types.                        *)
LEMMA StripTypeStep ==
  ASSUME StripTypeOK, [StripNext]_stripVars
  PROVE  StripTypeOK'
<1> USE DEF StripTypeOK
<1>1. ASSUME NEW c \in Command, Start(c) PROVE StripTypeOK'
  BY <1>1 DEF Start
<1>2. ASSUME NEW c \in Command, Write(c) PROVE StripTypeOK'
  BY <1>2, RequestAssumption DEF Write
<1>3. ASSUME NEW c \in Command, Read(c) PROVE StripTypeOK'
  BY <1>3 DEF Read, Nothing
<1>4. ASSUME NEW c \in Command, Clear(c) PROVE StripTypeOK'
  BY <1>4 DEF Clear
<1>5. ASSUME NEW c \in Command, Prove(c) PROVE StripTypeOK'
  <2>1. read[c].text \subseteq Clause
    BY TextsHoldClauses
  <2>2. Provable(c) \subseteq Clause
    BY <2>1 DEF Provable
  <2>3. PICK unsat \in SUBSET Clause : proven' = [proven EXCEPT ![c] = unsat]
    BY <1>5, <2>2 DEF Prove
  <2>4. QED
    BY <1>5, <2>3 DEF Prove
<1>6. ASSUME NEW c \in Command, Compile(c) PROVE StripTypeOK'
  <2>1. text[job[c].file] \in Text
    BY RequestAssumption
  <2>2. Unchecked(c, text[job[c].file]) \subseteq Clause
    BY <2>1, TextsHoldClauses DEF Unchecked
  <2>3. QED
    BY <1>6, <2>1, <2>2 DEF Compile
<1>7. CASE Edit
  BY <1>7 DEF Edit
<1>8. CASE UNCHANGED stripVars
  BY <1>8 DEF stripVars
<1>9. QED
  BY <1>1, <1>2, <1>3, <1>4, <1>5, <1>6, <1>7, <1>8 DEF StripNext

(* A step of a command leaves what the invariant says of the others.       *)
LEMMA OthersKeepTheirs ==
  ASSUME StripInv, NEW c \in Command, NEW d \in Command, c # d,
         Start(c) \/ Write(c) \/ Read(c) \/ Clear(c) \/ Prove(c) \/ Compile(c)
  PROVE  (Undisturbed(d) /\ OnlyValidIsProven(d) /\ OnlyItsLinesAreStripped(d))'
<1> USE DEF StripInv, StripTypeOK
<1>1. /\ pc'[d] = pc[d] /\ read'[d] = read[d] /\ proven'[d] = proven[d]
      /\ emitted'[d] = emitted[d] /\ job' = job /\ solver' = solver /\ crossed \subseteq crossed'
  BY DEF Start, Write, Read, Clear, Prove, Compile
<1>2. d \notin crossed' /\ pc[d] = "read" => ctl' = ctl
  <2>1. CASE Write(c)
    BY <2>1 DEF Write
  <2>2. CASE Clear(c)
    BY <2>2 DEF Clear, OpenIsExclusive
  <2>3. CASE Start(c) \/ Read(c) \/ Prove(c) \/ Compile(c)
    BY <2>3 DEF Start, Read, Prove, Compile
  <2>4. QED
    BY <2>1, <2>2, <2>3
<1>3. Undisturbed(d)'
  BY <1>1, <1>2 DEF Undisturbed
<1>4. OnlyValidIsProven(d)'
  BY <1>1 DEF OnlyValidIsProven
<1>5. OnlyItsLinesAreStripped(d)'
  <2>1. Verified(d)' => Verified(d)
    BY <1>1 DEF Verified, ModeOf
  <2>2. SUFFICES ASSUME Verified(d)
                 PROVE  \A k \in emitted'[d].unchecked :
                          k.kind = "ensures" /\ \E p \in proven'[d] : p.line = k.line
    BY <2>1 DEF OnlyItsLinesAreStripped
  <2>3. QED
    BY <1>1, <2>2 DEF OnlyItsLinesAreStripped
<1>6. QED
  BY <1>3, <1>4, <1>5

(* ... and keeps what the invariant says of itself.                        *)
LEMMA ItKeepsItsOwn ==
  ASSUME StripInv, NEW c \in Command,
         Start(c) \/ Write(c) \/ Read(c) \/ Clear(c) \/ Prove(c) \/ Compile(c)
  PROVE  (Undisturbed(c) /\ OnlyValidIsProven(c) /\ OnlyItsLinesAreStripped(c))'
<1> USE DEF StripInv, StripTypeOK, Undisturbed, OnlyValidIsProven,
            OnlyItsLinesAreStripped, Verified
<1>0. job[c] \in [op : {"verify", "compile"}, file : File, flag : STRING]
  BY RequestAssumption
<1>1. CASE Start(c)
  BY <1>0, <1>1 DEF Start
<1>2. CASE Write(c)
  BY <1>0, <1>2 DEF Write
<1>3. CASE Read(c)
  BY <1>0, <1>3, FileAssumption DEF Read
<1>4. CASE Clear(c)
  BY <1>0, <1>4 DEF Clear
<1>5. CASE Prove(c)
  <2>1. PICK unsat \in SUBSET Provable(c) : proven' = [proven EXCEPT ![c] = unsat]
    BY <1>5 DEF Prove
  <2>2. pc' = [pc EXCEPT ![c] = IF job[c].op = "verify" THEN "done" ELSE "compile"]
    BY <1>5 DEF Prove
  <2>3. pc[c] = "prove" /\ UNCHANGED <<ctl, job, read, crossed, emitted, solver>>
    BY <1>5 DEF Prove
  <2>4. \A k \in proven'[c] : k \in read[c].text /\ k.holds
                              /\ (job[c].op = "compile" => k.kind = "ensures")
    BY <1>0, <2>1 DEF Provable
  <2>5. ~solver => proven'[c] = {}
    BY <1>5 DEF Prove
  <2>6. QED
    BY <1>0, <2>2, <2>3, <2>4, <2>5
<1>6. CASE Compile(c)
  <2>1. pc[c] = "compile" /\ pc' = [pc EXCEPT ![c] = "done"]
        /\ UNCHANGED <<ctl, job, read, proven, crossed, solver>>
    BY <1>6 DEF Compile
  <2>2. emitted'[c].unchecked = Unchecked(c, text[job[c].file])
    BY <1>6 DEF Compile
  <2>3. Undisturbed(c)'
    BY <1>0, <2>1
  <2>4. OnlyValidIsProven(c)'
    BY <2>1
  <2>5. OnlyItsLinesAreStripped(c)'
    <3>1. SUFFICES ASSUME ModeOf(job[c]) = "verified"
                   PROVE  \A k \in emitted'[c].unchecked :
                            k.kind = "ensures" /\ \E p \in proven[c] : p.line = k.line
      BY <2>1
    <3>2. emitted'[c].unchecked
            = {k \in text[job[c].file] : k.kind = "ensures" /\ k.line \in ProofLines(c)}
      BY <2>2, <3>1 DEF Unchecked
    <3>3. QED
      BY <3>2 DEF ProofLines
  <2>6. QED
    BY <2>3, <2>4, <2>5
<1>7. QED
  BY <1>1, <1>2, <1>3, <1>4, <1>5, <1>6

LEMMA OpenStaysExclusive ==
  ASSUME StripInv, NEW c \in Command,
         Start(c) \/ Write(c) \/ Read(c) \/ Clear(c) \/ Prove(c) \/ Compile(c)
  PROVE  OpenIsExclusive'
<1> USE DEF StripInv, StripTypeOK
<1>1. crossed \subseteq crossed' /\ \A d \in Command \ {c} : pc'[d] = pc[d]
  BY DEF Start, Write, Read, Clear, Prove, Compile
<1>2. CASE Write(c)
  BY <1>1, <1>2 DEF Write, OpenIsExclusive
<1>3. CASE Start(c) \/ Read(c) \/ Clear(c) \/ Prove(c) \/ Compile(c)
  <2>1. Open(c)' => Open(c)
    BY <1>3 DEF Start, Read, Clear, Prove, Compile
  <2>2. QED
    BY <1>1, <2>1 DEF OpenIsExclusive
<1>4. QED
  BY <1>2, <1>3

LEMMA StripStepInv == StripInv /\ [StripNext]_stripVars => StripInv'
<1> SUFFICES ASSUME StripInv, [StripNext]_stripVars PROVE StripInv'
  OBVIOUS
<1>1. StripTypeOK'
  BY StripTypeStep DEF StripInv
<1>2. CASE \E c \in Command : Start(c) \/ Write(c) \/ Read(c) \/ Clear(c)
                              \/ Prove(c) \/ Compile(c)
  BY <1>1, <1>2, OthersKeepTheirs, ItKeepsItsOwn, OpenStaysExclusive DEF StripInv
<1>3. CASE Edit \/ UNCHANGED stripVars
  <2>1. UNCHANGED <<solver, ctl, job, pc, read, proven, emitted, crossed>>
    BY <1>3 DEF Edit, stripVars
  <2>2. OpenIsExclusive'
    BY <2>1 DEF StripInv, OpenIsExclusive
  <2>3. \A c \in Command : Verified(c)' = Verified(c)
    BY <2>1 DEF Verified, ModeOf
  <2>4. ASSUME NEW c \in Command
        PROVE  (Undisturbed(c) /\ OnlyValidIsProven(c) /\ OnlyItsLinesAreStripped(c))'
    BY <2>1, <2>3 DEF StripInv, Undisturbed, OnlyValidIsProven, OnlyItsLinesAreStripped
  <2>5. QED
    BY <1>1, <2>2, <2>4 DEF StripInv
<1>4. QED
  BY <1>2, <1>3 DEF StripNext

(* Every reachable state satisfies the inductive invariant.                *)
THEOREM StripInvAlways == StripSpec => []StripInv
BY StripInitInv, StripStepInv, PTL DEF StripSpec

(* The variables of a verified compilation keep their types.               *)
THEOREM StripTypeCorrect == StripSpec => []StripTypeOK
<1>1. StripInv => StripTypeOK
  BY DEF StripInv
<1>2. QED
  BY <1>1, StripInvAlways, PTL

(* Whatever the texts, the files and the number of commands: verified C    *)
(* lacks a check only on a line with a valid ensures, when the text that   *)
(* was compiled is the one whose clauses were proven.                      *)
THEOREM StrippingIsSound == StripSpec => []StrippedSharesAProvenLine
<1>1. StripInv => StrippedSharesAProvenLine
  <2> SUFFICES ASSUME StripInv, NEW c \in Command, Verified(c),
                      emitted[c].text = read[c].text, NEW k \in emitted[c].unchecked
               PROVE  k.kind = "ensures"
                      /\ \E p \in emitted[c].text :
                           p.kind = "ensures" /\ p.line = k.line /\ p.holds
    BY DEF StrippedSharesAProvenLine
  <2>1. k.kind = "ensures" /\ \E p \in proven[c] : p.line = k.line
    BY DEF StripInv, OnlyItsLinesAreStripped
  <2>2. \A p \in proven[c] : p \in read[c].text /\ p.holds /\ p.kind = "ensures"
    BY DEF StripInv, OnlyValidIsProven, Verified
  <2>3. QED
    BY <2>1, <2>2
<1>2. QED
  BY <1>1, StripInvAlways, PTL

(* A verification without a solver, or that read nothing, costs no check.  *)
THEOREM WithoutProofNothingIsStripped == StripSpec => []NothingReadNothingStripped
<1>1. StripInv => NothingReadNothingStripped
  BY DEF StripInv, OnlyValidIsProven, OnlyItsLinesAreStripped, NothingReadNothingStripped,
         Nothing, StripTypeOK, Verified
<1>2. QED
  BY <1>1, StripInvAlways, PTL

(* Only a proof takes a check out of the C.                                *)
THEOREM ChecksStay == StripSpec => []UnprovenStaysChecked
BY StrippingIsSound, WithoutProofNothingIsStripped, PTL DEF UnprovenStaysChecked

(* A verdict of sv0 verify is about the file it was asked for.             *)
THEOREM VerdictsAreAboutTheirFile == StripSpec => []VerdictIsAboutTheFile
<1>1. StripInv => VerdictIsAboutTheFile
  BY DEF StripInv, Undisturbed, OnlyValidIsProven, VerdictIsAboutTheFile
<1>2. QED
  BY <1>1, StripInvAlways, PTL

(* The control file names a file only while its last writer is open.       *)
THEOREM ControlFileIsEmptied == StripSpec => []ControlFileIsReleased
<1>1. StripInit => ControlFileIsReleased
  BY DEF StripInit, ControlFileIsReleased
<1>2. StripInv /\ ControlFileIsReleased /\ [StripNext]_stripVars => ControlFileIsReleased'
  <2> SUFFICES ASSUME StripInv, ControlFileIsReleased, [StripNext]_stripVars
               PROVE  ControlFileIsReleased'
    OBVIOUS
  <2> USE DEF StripInv, StripTypeOK, ControlFileIsReleased
  <2>1. ASSUME NEW c \in Command, Write(c) PROVE ControlFileIsReleased'
    BY <2>1 DEF Write
  <2>2. ASSUME NEW c \in Command, Clear(c) PROVE ControlFileIsReleased'
    BY <2>2 DEF Clear
  <2>3. ASSUME NEW c \in Command, Start(c) \/ Read(c) \/ Prove(c) \/ Compile(c)
        PROVE  ControlFileIsReleased'
    <3>1. ctl' = ctl /\ job' = job
          /\ \A d \in Command : Open(d) => Open(d)'
      BY <2>3 DEF Start, Read, Prove, Compile
    <3>2. QED
      BY <3>1
  <2>4. CASE Edit \/ UNCHANGED stripVars
    BY <2>4 DEF Edit, stripVars
  <2>5. QED
    BY <2>1, <2>2, <2>3, <2>4 DEF StripNext
<1>3. QED
  BY <1>1, <1>2, StripInvAlways, PTL DEF StripSpec

=============================================================================
