------------------------------ MODULE GitHooks ------------------------------
(***************************************************************************)
(* The pre-commit and pre-push hooks (scripts/git-hooks) with the scope    *)
(* they ask for (scripts/prepush_scope.py) and the suites they run:        *)
(* run_test_guards, run_test_light and run_test of scripts/sv0, whose      *)
(* guards are those of GuardRunner.                                        *)
(*                                                                         *)
(* A changed path is what the classifier can tell of it; git reports a     *)
(* renamed file under its new path only.                                   *)
(***************************************************************************)
EXTENDS GuardRunner, Sequences, SequencesExt

CONSTANTS
  Push,    \* what may be pushed: sequences of refs
  Commit,  \* what may be committed: sets of staged files
  Setting, \* where and how: the repository and the environment
  Failing  \* the sets of stages that may fail

(* Path classes: documents and task data, the submodules only guards read, *)
(* the two libraries with stages of their own, and everything else.        *)
Class == {"doc", "guard_only", "mathlib", "strings", "other"}

(* A ref: base is "none" when neither the remote's commit nor a merge base *)
(* with origin/main is there to compare with.                              *)
Ref == [deletion : BOOLEAN, base : {"found", "none"}, changes : SUBSET Class]

(* A staged file: what git says happened to it, and whether the check of   *)
(* its kind (format, shell, Python or YAML syntax) accepts it on disk.     *)
Staged == [path : Class, diff : {"A", "C", "M", "R", "D"}, accepted : BOOLEAN]

ASSUME PushAssumption    == Push \subseteq Seq(Ref)
ASSUME CommitAssumption  == Commit \subseteq SUBSET Staged
ASSUME SettingAssumption ==
  Setting \subseteq [hook : {"pre-commit", "pre-push"},
                     repo : {"parent", "sv0c", "unknown"}, skipHooks : BOOLEAN,
                     forceFull : BOOLEAN, classifier : {"works", "fails", "absent"}]

VARIABLES
  hook,    \* the step the hook takes next
  push,    \* the refs of this push, and those not read yet
  unread,
  commit,  \* the files of this commit
  setting,
  failing, \* the stages that fail
  anyRef,  \* as in the hook
  unknown,
  paths,   \* paths_file
  scope,   \* what is to run: the sequence of stages left
  ec,      \* the exit status of the suite so far
  passed   \* history: the stages that passed

hookVars == <<hook, push, unread, commit, setting, failing, anyRef, unknown, paths,
              scope, ec, passed, guardVars>>

FullSuite == <<"units", "guards", "integration", "alloc", "parity", "loop",
               "project", "doctests", "orphans">>

(* What run_test_light runs for the groups it is given.                    *)
LightSuite(groups) ==
  <<"guards">> \o (IF "strings" \in groups THEN <<"alloc">> ELSE << >>)
               \o (IF "mathlib" \in groups THEN <<"parity">> ELSE << >>)
               \o (IF groups # {} THEN <<"project">> ELSE << >>)
               \o <<"doctests">>

Suite(repo) == IF repo = "parent" THEN FullSuite ELSE <<"sv0c">>

Groups == {"mathlib", "strings"}

Classify(repo, classes) ==
  CASE classes = {} \/ (repo = "sv0c" /\ classes \subseteq {"doc"}) -> << >>
    [] classes # {} /\ repo = "parent" /\ "other" \notin classes ->
         LightSuite(classes \intersect Groups)
    [] OTHER -> Suite(repo)

HookInit ==
  /\ GuardInit
  /\ hook = "start"
  /\ setting \in Setting
  /\ IF setting.hook = "pre-push" THEN push \in Push /\ commit = {}
                                  ELSE push = << >> /\ commit \in Commit
  /\ unread = push
  /\ failing \in Failing
  /\ anyRef = FALSE
  /\ unknown = FALSE
  /\ paths = {}
  /\ scope = << >>
  /\ ec = 0
  /\ passed = {}

StartPush ==
  /\ hook = "start" /\ setting.hook = "pre-push"
  /\ LET known == setting.repo # "unknown" /\ ~setting.skipHooks
         reads == ~setting.forceFull /\ setting.classifier # "absent"
     IN  /\ hook' = IF ~known THEN "allowed" ELSE IF reads THEN "refs" ELSE "suite"
         /\ scope' = IF known /\ ~reads THEN Suite(setting.repo) ELSE << >>
  /\ UNCHANGED <<push, unread, commit, setting, failing, anyRef, unknown, paths, ec,
                 passed, guardVars>>

ReadRef_lastRefDecides ==
  /\ hook = "refs" /\ unread # << >>
  /\ LET ref == Head(unread)
         counts == ~ref.deletion
     IN  /\ anyRef' = (anyRef \/ counts)
         /\ unknown' = IF counts THEN ref.base = "none" ELSE unknown
         /\ paths' = IF counts /\ ref.base = "found"
                     THEN paths \union ref.changes ELSE paths
  /\ unread' = Tail(unread)
  /\ UNCHANGED <<hook, push, commit, setting, failing, scope, ec, passed, guardVars>>

ReadRef ==
  /\ hook = "refs" /\ unread # << >>
  /\ LET ref == Head(unread)
         counts == ~ref.deletion
     IN  /\ anyRef' = (anyRef \/ counts)
         /\ unknown' = (unknown \/ (counts /\ ref.base = "none"))
         /\ paths' = IF counts /\ ref.base = "found"
                     THEN paths \union ref.changes ELSE paths
  /\ unread' = Tail(unread)
  /\ UNCHANGED <<hook, push, commit, setting, failing, scope, ec, passed, guardVars>>

(* A classifier that fails means the full suite.                           *)
Decide ==
  /\ hook = "refs" /\ unread = << >>
  /\ LET decided == IF unknown \/ setting.classifier = "fails" THEN Suite(setting.repo)
                    ELSE Classify(setting.repo, paths)
     IN  /\ hook' = IF ~anyRef \/ decided = << >> THEN "allowed" ELSE "suite"
         /\ scope' = IF anyRef THEN decided ELSE << >>
  /\ UNCHANGED <<push, unread, commit, setting, failing, anyRef, unknown, paths, ec,
                 passed, guardVars>>

(* pre-commit looks at what was added, copied or modified, and lets a      *)
(* commit of anything else through.                                        *)
Seen == {file \in commit : file.diff \in {"A", "C", "M"}}

StartCommit ==
  /\ hook = "start" /\ setting.hook = "pre-commit"
  /\ hook' = IF setting.skipHooks THEN "allowed"
             ELSE IF setting.repo = "unknown" THEN "refused"
             ELSE IF Seen = {} THEN "allowed"
             ELSE IF \E file \in Seen : ~file.accepted THEN "refused"
             ELSE IF setting.repo = "sv0c" THEN "allowed"
             ELSE "suite"
  /\ scope' = IF hook' = "suite" THEN <<"guards">> ELSE << >>
  /\ UNCHANGED <<push, unread, commit, setting, failing, anyRef, unknown, paths, ec,
                 passed, guardVars>>

(* A commit of documents and library bumps alone has the fast guards only. *)
Fast == /\ setting.hook = "pre-commit"
        /\ setting.classifier = "works"
        /\ "other" \notin {file.path : file \in commit}

(* The golden comparison and the self-host loop exit the suite when they   *)
(* fail (sv0_fail).                                                        *)
Fatal == {"loop"}

(* One stage after the other; a failure is remembered and the rest runs.   *)
StageEnds(stage, passes) ==
  /\ ec' = IF passes THEN ec ELSE 1
  /\ passed' = IF passes THEN passed \union {stage} ELSE passed
  /\ scope' = IF ~passes /\ stage \in Fatal THEN << >> ELSE Tail(scope)

RunStage ==
  /\ hook = "suite" /\ scope # << >> /\ Head(scope) # "guards"
  /\ StageEnds(Head(scope), Head(scope) \notin failing)
  /\ UNCHANGED <<hook, push, unread, commit, setting, failing, anyRef, unknown, paths, guardVars>>

BeginGuards ==
  /\ hook = "suite" /\ scope # << >> /\ Head(scope) = "guards"
  /\ RunGuards(Fast)
  /\ UNCHANGED <<hook, push, unread, commit, setting, failing, anyRef, unknown, paths,
                 scope, ec, passed>>

GuardStep ==
  /\ GuardNext
  /\ UNCHANGED <<hook, push, unread, commit, setting, failing, anyRef, unknown, paths,
                 scope, ec, passed>>

EndGuards ==
  /\ hook = "suite" /\ scope # << >> /\ Head(scope) = "guards" /\ runner = "returned"
  /\ StageEnds("guards", guardEc = 0)
  /\ UNCHANGED <<hook, push, unread, commit, setting, failing, anyRef, unknown, paths, guardVars>>

(* The suite exits; a failure aborts the commit or the push.               *)
EndSuite ==
  /\ hook = "suite" /\ scope = << >>
  /\ hook' = IF ec = 0 THEN "allowed" ELSE "refused"
  /\ UNCHANGED <<push, unread, commit, setting, failing, anyRef, unknown, paths, scope,
                 ec, passed, guardVars>>

HookNext == \/ StartCommit \/ StartPush \/ ReadRef \/ Decide
            \/ RunStage \/ BeginGuards \/ GuardStep \/ EndGuards \/ EndSuite

HookSpec == HookInit /\ [][HookNext]_hookVars

(* The hook, the suite and every guard make progress: none of them waits   *)
(* for anything but the processes it started.                              *)
HookFairness == WF_hookVars(HookNext)

FairHookSpec == HookSpec /\ HookFairness

-----------------------------------------------------------------------------

Stage == {"units", "guards", "integration", "alloc", "parity", "loop", "project",
          "doctests", "orphans", "sv0c"}

HookTypeOK ==
  /\ GuardTypeOK
  /\ hook \in {"start", "refs", "suite", "allowed", "refused"}
  /\ push \in Seq(Ref) /\ unread \in Seq(Ref)
  /\ anyRef \in BOOLEAN /\ unknown \in BOOLEAN
  /\ paths \subseteq Class
  /\ scope \in Seq(Stage)
  /\ ec \in {0, 1}
  /\ passed \subseteq Stage

Bypassed == setting.skipHooks \/ setting.repo = "unknown"

Pushed    == setting.hook = "pre-push" /\ hook = "allowed" /\ ~Bypassed
Committed == setting.hook = "pre-commit" /\ hook = "allowed" /\ ~Bypassed

Tested == {ref \in ToSet(push) : ~ref.deletion}

(* The stages that read what is under a path of this class.                *)
Feeds(repo, class) ==
  IF repo = "sv0c" THEN IF class = "doc" THEN {} ELSE {"sv0c"}
  ELSE CASE class \in {"doc", "guard_only"} -> {"guards", "doctests"}
         [] class = "mathlib" -> {"guards", "doctests", "parity", "project"}
         [] class = "strings" -> {"guards", "doctests", "alloc", "project"}
         [] OTHER -> ToSet(FullSuite)

(* A push that is let through had every stage pass that reads one of the   *)
(* paths it changes, of whichever of its refs, and every stage when a ref  *)
(* had nothing to be compared with.                                        *)
AllowedPushIsTested ==
  Pushed =>
    \A ref \in Tested :
      IF ref.base = "none" THEN ToSet(Suite(setting.repo)) \subseteq passed
      ELSE \A class \in ref.changes : Feeds(setting.repo, class) \subseteq passed

(* A commit to the parent repository that is let through with a file       *)
(* outside documents and submodule bumps has no file its check refuses and *)
(* no broken guard; one without has no broken guard but heavy ones.  Only  *)
(* a commit of nothing but renames and deletions goes unchecked.           *)
AllowedCommitIsChecked ==
  Committed /\ Seen # {} =>
    /\ \A file \in Seen : file.accepted
    /\ setting.repo = "parent" =>
         \A g \in Guard : nature[g] = "broken" =>
           g \in Heavy /\ \A file \in commit : file.path # "other"

(* What either hook lets through has passed all that reads what it changes. *)
LetThroughIsChecked == AllowedPushIsTested /\ AllowedCommitIsChecked

(* A push is refused only for a stage that fails or a guard that is really *)
(* broken: never for a guard that only failed in the crowd or was killed.  *)
RefusalHasAReason ==
  setting.hook = "pre-push" /\ hook = "refused" =>
    failing # {} \/ \E g \in Guard : nature[g] = "broken"

(* Every commit and every push is decided.                                 *)
EveryHookDecides == <>(hook \in {"allowed", "refused"})
=============================================================================
