------------------------------ MODULE Pinning ------------------------------
(***************************************************************************)
(* Which sv0cov runs: the policy compatibility/sv0cov.json, the gitlink it *)
(* must name, the guard that compares the two (verify_sv0cov_compatibility *)
(* .py) and `sv0 coverage` (sv0cov_dispatch.py), which looks at the same   *)
(* things one after the other, asks the launcher what it is and then       *)
(* becomes it, while somebody may be working in the checkout.  The drill   *)
(* (verify_sv0cov_rollback_drill.py) moves a copy of the checkout back to  *)
(* the pin before this one and forward again, while somebody commits.      *)
(*                                                                         *)
(* A policy is reduced to the revision, version and registry it names; the *)
(* host is a supported one.  sv0cov itself is external: what a launcher    *)
(* says of itself, and the comparison of that with the policy.             *)
(***************************************************************************)
EXTENDS Naturals, FiniteSets, Sequences

CONSTANTS
  Revision,  \* commits of sv0cov
  Facts,     \* what each holds: [version, registry, mode]
  Fetched,   \* those the submodule has
  Policy,    \* policies somebody may write by hand: [revision, version, registry]
  Earlier,   \* what the commits before the first one here may hold: <<link, policy>>
  MaxChange  \* how often somebody changes something

NoRevision == "none"
BadPolicy  == [revision |-> "bad", version |-> "bad", registry |-> "bad"]

ASSUME RevisionAssumption ==
  Fetched \subseteq Revision /\ NoRevision \notin Revision /\ "bad" \notin Revision

VARIABLES
  policy,    \* in the working tree; BadPolicy: missing, a link, not canonical, too large
  staged,    \* the policy in the index; BadPolicy also when it is not tracked
  link,      \* the gitlink in the index
  head,      \* the commit checked out in the submodule
  launcher,  \* at sv0cov/scripts/sv0cov: "clean", "edited" or "broken"
  commits,   \* of the toolchain: [link, policy, touches], touches: the policy is another
  changes,
  dispatch,  \* the command: what it does next
  sub,       \* the subcommand
  seen,      \* the policy it read
  told,      \* what the launcher said of itself
  ran,       \* what was executed in the end: a revision or "edited"
  exitCode,
  stirred,   \* history: something changed since the command began
  swapped,   \* history: the launcher changed since it was asked
  drill,     \* what the drill does next
  before,    \* what it found here: how many commits, and what is staged and written
  current,   \* the gitlink of HEAD
  previous   \* the commit with the pin before it

repoVars     == <<policy, staged, link, head, launcher>>
dispatchVars == <<dispatch, sub, seen, told, ran, exitCode>>
drillVars    == <<drill, before, current, previous>>
pinVars      == <<repoVars, commits, changes, dispatchVars, stirred, swapped, drillVars>>

Named(r) == [revision |-> r, version |-> Facts[r].version, registry |-> Facts[r].registry]

CommitOf(link_, policy_, touches_) == [link |-> link_, policy |-> policy_, touches |-> touches_]

Snapshot == <<Len(commits), link, staged, policy>>

PinInit ==
  /\ \E r \in Fetched :
       /\ link = r /\ head = r /\ policy = Named(r) /\ staged = Named(r)
       /\ \/ commits = <<CommitOf(r, Named(r), TRUE)>>
          \/ \E e \in Earlier : commits = <<CommitOf(e[1], e[2], TRUE), CommitOf(r, Named(r), e[2] # Named(r))>>
  /\ launcher = "clean" /\ changes = 0
  /\ dispatch = "begin" /\ sub = "none" /\ seen = BadPolicy /\ told = BadPolicy
  /\ ran = NoRevision /\ exitCode = 0
  /\ stirred = FALSE /\ swapped = FALSE
  /\ drill = "idle" /\ before = << >> /\ current = NoRevision /\ previous = 0

-----------------------------------------------------------------------------
(* The guard.                                                              *)

Pinned(r) == r \in Fetched

PolicyFits ==
  /\ policy # BadPolicy /\ staged = policy
  /\ Pinned(link) /\ policy = Named(link) /\ Facts[link].mode = "100755"

(* --require-clean, as CI runs it.                                         *)
CheckoutIsPinned == head = link /\ launcher = "clean"

(* --write: the policy is sealed for the staged gitlink.                   *)
Reseal == Pinned(link) /\ policy' = Named(link) /\ UNCHANGED <<staged, link, head, launcher>>

-----------------------------------------------------------------------------
(* Somebody at work.                                                       *)

Checkout ==
  /\ \E r \in Fetched : head' = r
  /\ launcher' = "clean" /\ UNCHANGED <<policy, staged, link>>

EditLauncher ==
  /\ launcher' \in {"edited", "broken"} /\ UNCHANGED <<policy, staged, link, head>>

StageLink == link' \in {head, NoRevision} \union Revision /\ UNCHANGED <<policy, staged, head, launcher>>

StagePolicy == staged' = policy /\ UNCHANGED <<policy, link, head, launcher>>

EditPolicy == policy' \in Policy \union {BadPolicy} /\ UNCHANGED <<staged, link, head, launcher>>

(* git commit, of the toolchain.                                           *)
CommitPin ==
  /\ commits' = Append(commits, CommitOf(link, staged, staged # commits[Len(commits)].policy))
  /\ UNCHANGED repoVars

Change ==
  /\ changes < MaxChange /\ changes' = changes + 1
  /\ \/ (Reseal \/ Checkout \/ EditLauncher \/ StageLink \/ StagePolicy \/ EditPolicy) /\ UNCHANGED commits
     \/ CommitPin
  /\ stirred' = (stirred \/ dispatch # "begin" \/ drill # "idle")
  /\ swapped' = (swapped \/ ((head' # head \/ launcher' # launcher) /\ dispatch \in {"evaluate", "exec"}))
  /\ UNCHANGED <<dispatchVars, drillVars>>

-----------------------------------------------------------------------------
(* dispatch.                                                               *)

Now == UNCHANGED <<repoVars, commits, changes, stirred, swapped, drillVars>>

Steps(from, to) == dispatch = from /\ dispatch' = to /\ Now

Refuse(from, code) ==
  Steps(from, "refused") /\ exitCode' = code /\ UNCHANGED <<sub, seen, told, ran>>

(* run_coverage: one of seven subcommands, and doctor without a root.      *)
BeginCommand ==
  /\ Steps("begin", "launcher") /\ drill = "idle" /\ sub' \in {"doctor", "report"}
  /\ UNCHANGED <<seen, told, ran, exitCode>>

Misused == Refuse("begin", 2)

(* The fixed launcher: no link on the way, a regular executable file.      *)
FindLauncher ==
  \/ /\ launcher # "broken"
     /\ Steps("launcher", IF sub = "doctor" THEN "exec" ELSE "policy")
     /\ UNCHANGED <<sub, seen, told, ran, exitCode>>
  \/ launcher = "broken" /\ Refuse("launcher", 7)

ReadPolicy ==
  \/ /\ policy # BadPolicy /\ Steps("policy", "link") /\ seen' = policy
     /\ UNCHANGED <<sub, told, ran, exitCode>>
  \/ policy = BadPolicy /\ Refuse("policy", 7)

LinkFits_unchecked == Pinned(link) /\ Facts[link].mode = "100755"

(* The gitlink, its commit's launcher mode and its registry.               *)
LinkFits == Pinned(link) /\ seen.revision = link /\ Facts[link].mode = "100755"

ReadLink ==
  \/ LinkFits /\ Steps("link", "ask") /\ UNCHANGED <<sub, seen, told, ran, exitCode>>
  \/ ~LinkFits /\ Refuse("link", 7)

(* version --json: a clean launcher tells what its commit is; an edited    *)
(* one may tell the same, or fail, write to stderr or take too long.       *)
AskVersion ==
  \/ /\ launcher # "broken" /\ Steps("ask", "evaluate")
     /\ told' = Named(head) /\ UNCHANGED <<sub, seen, ran, exitCode>>
  \/ launcher # "clean" /\ Refuse("ask", 7)

(* sv0cov's own comparison, with what the policy names.                    *)
Evaluate ==
  \/ told = seen /\ Steps("evaluate", "exec") /\ UNCHANGED <<sub, seen, told, ran, exitCode>>
  \/ told # seen /\ Refuse("evaluate", 7)

(* The process becomes whatever is there now.                              *)
Exec ==
  \/ /\ launcher # "broken" /\ Steps("exec", "running")
     /\ ran' = IF launcher = "edited" THEN "edited" ELSE head
     /\ UNCHANGED <<sub, seen, told, exitCode>>
  \/ launcher = "broken" /\ Refuse("exec", 7)

-----------------------------------------------------------------------------
(* The drill, which works in copies; a command and a drill are followed    *)
(* each by itself.                                                         *)

DrillGoes(from, to) ==
  /\ drill = from /\ drill' = to
  /\ UNCHANGED <<repoVars, commits, changes, dispatchVars, stirred, swapped>>

DrillFails(from) == DrillGoes(from, "failed") /\ UNCHANGED <<before, current, previous>>

(* A policy that is missing cannot be read.                                *)
BeginDrill ==
  /\ dispatch = "begin"
  /\ \/ DrillGoes("idle", "current") /\ before' = Snapshot /\ UNCHANGED <<current, previous>>
     \/ policy = BadPolicy /\ DrillFails("idle")

ReadCurrent ==
  LET pin == commits[Len(commits)].link
  IN \/ pin # NoRevision /\ DrillGoes("current", "previous") /\ current' = pin /\ UNCHANGED <<before, previous>>
     \/ pin = NoRevision /\ DrillFails("current")

(* previous_pin: git log lists the commits with another policy than the    *)
(* one before them, the newest first.                                      *)
OtherPins == {i \in DOMAIN commits : commits[i].touches /\ commits[i].link # current}

PreviousPin ==
  \/ \E i \in OtherPins :
       /\ \A j \in OtherPins : j <= i
       /\ \/ /\ commits[i].link # NoRevision
             /\ DrillGoes("previous", "back") /\ previous' = i /\ UNCHANGED <<before, current>>
          \/ (commits[i].link = NoRevision \/ commits[i].policy = BadPolicy) /\ DrillFails("previous")
  \/ OtherPins = {} /\ DrillFails("previous")

(* pin: the copy is moved to a revision and its policy sealed anew, which  *)
(* must give the qualified one; the guard and the preflight must pass.     *)
PinWorks(revision, qualified) ==
  Pinned(revision) /\ qualified = Named(revision) /\ Facts[revision].mode = "100755"

Moved(from, to, works) ==
  IF works THEN DrillGoes(from, to) /\ UNCHANGED <<before, current, previous>> ELSE DrillFails(from)

RollBack ==
  drill = "back" /\ Moved("back", "forward", PinWorks(commits[previous].link, commits[previous].policy))

(* The policy is that of HEAD as it is now.                                *)
RollForward ==
  drill = "forward" /\ Moved("forward", "compare", PinWorks(current, commits[Len(commits)].policy))

CompareCheckout == drill = "compare" /\ Moved("compare", "passed", Snapshot = before)

Drill == BeginDrill \/ ReadCurrent \/ PreviousPin \/ RollBack \/ RollForward \/ CompareCheckout

PinNext ==
  \/ Drill
  \/ Change \/ BeginCommand \/ Misused \/ FindLauncher \/ ReadPolicy \/ ReadLink
  \/ AskVersion \/ Evaluate \/ Exec

PinSpec == PinInit /\ [][PinNext]_pinVars

-----------------------------------------------------------------------------
(* Properties.                                                             *)

(* Whatever git does under the command, a launcher that was not swapped    *)
(* after it was asked runs only as the revision, version and registry the  *)
(* policy named when it was read, and that revision was the gitlink; only  *)
(* an edit in the checkout of that revision goes unseen.                   *)
RunsThePinned ==
  dispatch = "running" /\ sub # "doctor" =>
    /\ told = seen /\ Facts[seen.revision].mode = "100755" /\ seen = Named(seen.revision)
    /\ ~swapped => ran \in {seen.revision, "edited"}

(* The guard and the command agree: where CI's check passes and nothing is *)
(* changed meanwhile, no subcommand is refused, and the pinned commit runs.*)
GuardSpeaksForDispatch ==
  PolicyFits /\ CheckoutIsPinned /\ ~stirred => exitCode # 7 /\ ran \in {NoRevision, link}

(* A drill that passes was about the commit that was HEAD when it began,   *)
(* and rolled from its pin to one an earlier commit qualified, though it   *)
(* asked for HEAD three times.                                             *)
DrillIsOfOneCommit ==
  drill = "passed" =>
    LET here == commits[before[1]]
    IN /\ PinWorks(here.link, here.policy)
       /\ \E i \in 1 .. before[1] :
            commits[i].link # here.link /\ PinWorks(commits[i].link, commits[i].policy)

(* Where every commit was made past the guard and one has another pin, a   *)
(* drill that nobody disturbs does not fail.                               *)
DrillBlamesTheRepository ==
  /\ policy # BadPolicy /\ ~stirred
  /\ \A i \in DOMAIN commits : PinWorks(commits[i].link, commits[i].policy)
  /\ \E i \in DOMAIN commits : commits[i].link # commits[Len(commits)].link
  => drill # "failed"

DispatchRunsThePinned ==
  RunsThePinned /\ GuardSpeaksForDispatch /\ DrillIsOfOneCommit /\ DrillBlamesTheRepository
=============================================================================
