# A verification project for sv0-toolchain

TLA+ specifications of the parts of this repository where several processes,
threads or failures meet (native builds and what they publish, caches, guards,
hooks, the self-host loop) and of the pure parts where a text has to mean one
thing (command lines, configuration, source scans, task files). TLC checks them
on small instances; TLAPS proves the main results for every instance. All paths
below are relative to the repository root.

    tlc -config lock.cfg MCOutputLock            # model-check one run
    tlapm NativeBuildProofs.tla                  # check one module's proofs

`PROJECT.json` lists the runs, the mutants that show each property can fail, the
source lines of every definition, the findings, the hazards and the theorems.

## 1. The system

sv0-toolchain is the driver repository of the sv0 language. The compiler
(`sv0c`), the virtual machine (`sv0vm`), the coverage tool (`sv0cov`) and the
language documents are git submodules and not part of it. What it holds is a
shell driver (`scripts/sv0`), the native-executable driver in Python
(`scripts/native_exe_*.py`), helpers around them, and a body of guards and
verifiers.

| Component | State it keeps | Operations | Interaction | What is hard |
|---|---|---|---|---|
| Request, `native_exe_cli.py`, `_request`, `_config`, `_coverage.resolve`, `_cc_select`, `_runtime` | none | parse, merge, resolve, verify | command line, `sv0.toml`, disk, environment → one line for the core compiler | option values that look like options, precedence, links, collisions |
| Source scans, `native_exe_entry_*.py`, `fmt_sv0.py` | none, or the files being formatted | mask, search, lay out | before the pipeline; by hand | comments, strings and quotes without a parser |
| Build pipeline, `native_exe_build.py` and the stages it calls | scratch directory, temporary output, retained C, coverage map | 9 stages | core compiler, host compiler, publication | any stage fails; companions are written before and after publication |
| Driver, `native_exe_main.py` | exit code, build record | run | calls the pipeline, then looks again at what it made | exceptions outside the mapping; another build publishes first |
| Output lock, `native_exe_output_lock.py` | one lock file per output path | acquire, reclaim, release | builds of one path, through the file system | create, read, judge, remove are separate calls; crashes; age; threads share a pid |
| Publication, `native_exe_publish.py` | the artifact at the output path | validate, rename | calls the lock; last stage of a build | a reclaimed lock lets two in; the rename fails |
| Coverage companions, `native_exe_coverage.py`, `sv0 vm-native-compile` | a map and a binding per stem | write, remove stale ones | three front ends share a stem | written first, removed last |
| Text writes, `native_exe_staging.py` | a temporary file per path and pid | write, rename | retained C and build record go through it | threads share a name; a killed write leaves its file |
| Cancellable subprocess, `native_exe_subprocess.py` | a process group | poll, terminate, kill | caller's event, KeyboardInterrupt | signals race exits; the group outlives its leader |
| Result cache, `scripts/sv0` `_cc_run_cached`, `_run_cache_prune` | two files per key | hit, miss, store, prune | workers of one loop, other loops | check and use are apart; two files per entry |
| Self-host loop, `scripts/sv0`, `emit_cache_key.py` | emits, parity verdicts, FAILED | emit twice, compile, run, compare | caches, xargs workers, other loops | keys of files that change; scratch names by stem; lost workers |
| Artifact builders, `scripts/sv0` `_artifact_stale`, `ensure_*`, `build-sv0-megatu-*.sh` | binaries under `build/` | test, rebuild in place | any command that needs one | modification times; two drivers at once |
| Contract stripping, `scripts/sv0` `run_verify`, `run_emit_verified`, `run_compile` | the control file of the verify binary | prove, strip | solver, compiler, other commands | the file is read twice; one control file for all |
| Guard runner, `scripts/sv0` `run_python_guards` | one status file per guard | parallel pass, second attempt | xargs workers | a missing status, a retry |
| Git hooks, `git-hooks/*`, `prepush_scope.py` | none | classify, choose a suite, run it | git, guard runner | scope of several refs; early exits |
| Coverage dispatch, `sv0cov_dispatch.py`, `verify_sv0cov_compatibility.py` | policy, gitlink, checkout | check, ask, exec | git, sv0cov | looks at one thing after another |
| Task tracking, `task_rmd_tracking.py` | a stack of regions | parse | dashboard, verifiers | nesting, table phases, pending anchors |
| Dashboard, `progress_dashboard_server.py` | one cached body | answer, rebuild | request threads, editors | freshness under a lock |
| Test harnesses, `verify_*corpus*.py`, `vm_behavioral_parity.py`, `sv0_doctest.py` and others | bytecode per stem | read a manifest, run its rows, judge | compilers, pools of jobs | rows skipped, refused or empty; bytecode shared by stem |
| Submodule guards, `verify_readme_sv0c_gitlink.py`, `verify_sv0cov_submodule.py` | none | read README, `.gitmodules`, index, HEAD | git, editors | they read the working tree, git commits the index |
| Milestones, `milestone_orient.py` and the guards over the catalogue | none | four guards, one question | task files, workspace file | spelling of ids, references in three files |
| Installation, `native_exe_installed_layout.py`, manifests, `_entry_abi` | manifests, installed tree | approve, write manifests, copy, launch | checkout, driver | a checkout that changes between the copies; an older tree |
| Release evidence, `native_exe_benchmark.py`, `_perf_regression`, `_release_evidence` and others | reports, baseline | measure, compare, assemble | checkout, git, compilers | results of one revision, evidence for another |
| Reading guards, `verify_native_exe_traceability.py` and others | none | scan by patterns | the texts of the repository | what only a parser could know |

What makes each of them correct:

* **lock**: one holder at a time; the owner keeps it; nothing is left behind; every acquire ends;
* **publication**: the path holds one whole validated artifact at any time, and a failed build leaves it alone;
* **pipeline and driver**: the exit code tells whether the artifact is new; scratch is removed; companions belong to the build they lie beside;
* **text writes**: readers see whole texts; a writer publishes its own;
* **cancellation**: a result means a natural exit; a cancelled call ends, and has asked
  its group to, unless an interrupted wait had already reaped the child;
* **caches and loop**: an entry is a result of its key; a verdict is true; OK means every file passed;
* **artifacts**: what looks fresh is built from the sources that are there;
* **stripping**: a check that was not proven stays;
* **guards and hooks**: what is let through has passed everything that reads what it changes; what is refused has a reason;
* **request**: the parser agrees with the grammar, the build is the one that was asked for, outputs do not hit each other or the source;
* **scans, task files**: the answer is that of a definition that does not scan;
* **dashboard, dispatch**: answers are recent; what runs is what the policy pins, and
  the rollback drill rehearses with the pins of one commit;
* **harnesses**: green means that every row that is meant for them did what it says;
* **submodule guards, catalogue**: what the guards pass is what git and
  `milestone-orient` make of the same files;
* **installation**: a tree that builds belongs together, but for a module of another
  version;
* **release**: evidence for which a clean tree was required is of the revision it
  names, and a budget is kept when the report says so;
* **reading guards**: they find what is there and accuse nothing else.

## 2. Modules

    OutputLock  <--EXTENDS--  Publication  <--EXTENDS--  NativeBuild
                                  | implements           (NativeBuildProofs)
                              ArtifactStore

    AtomicText --implements--> TextRegister,  Cancellation     (HelperProofs)
    ContractStripping,
    GuardRunner  <--EXTENDS--  GitHooks                      (GitHooksProofs)
    SelfHostLoop                                             (SelfHostProofs)
    Artifacts, Installation, Formatter                       (CheckoutProofs)
    RunCache, Dashboard, Companions, Pinning                     (ToolProofs)
    SourceText  <--EXTENDS--  Request,  TaskCatalogue, Release (AnswerProofs)
    SourceText  <--EXTENDS--  Formatter, SourceGuards
    TaskTracking, Gitlinks, Corpora, SourceGuards               (CheckProofs)

`MC*` modules give values to the constants for TLC. Operators named
`X_something` that stand before `X` are mutants: plausible bugs of `X` that a
property has to notice; no specification uses them.

**OutputLock.** A builder is one `OutputLock` instance and its own token. `pc`
is its place in `acquire()` (`read`, `judge`, `remove`, `create`, `write`), in
the with body (`held`) and in `release()` (`check`, `unlink`); each file-system
call of the code is one action. `file` is the lock file: who created it and
whose payload is in it, so that a payload written to a removed file goes
nowhere, as it does through a file descriptor. Between the create and the write
the file is empty and `_read_owner` returns no owner. Time is two sets, `late`
(the acquire deadline has passed) and `aged` (the payload is older than 300 s).
The environment ages payloads, ends and kills processes and lets the write fail,
each only if `Faults` allows it. `reclaimed` is a history variable: it turns
true at the first removal of a lock as stale.

**Publication** runs `publish_atomically` around these steps: `Validate`,
`Replace` or `ReplaceFails` while the lock is held, and `LeaveBody`, which is
what the with statement does however its body ends. `HostCompile` is where the
temporary output comes from.

**ArtifactStore** says what users of the path are promised: it changes in one
step, only to a usable artifact of the build that takes the step, and a verdict
is final.

**NativeBuild** puts the pipeline of `build_native_executable` and `run()`
around publication, for several builds with different options. A stage is one
action that goes on or fails with one of the phases that stage can raise;
`Uncaught` is every exception that is not a `BuildError`. The core compiler
writes the coverage map while it runs, so `CoreCompile` changes `covMap`.
Contents are identified with the build that wrote them.

**AtomicText** models `write_text_atomically` down to names and files: `tmp`
says which file a process's temporary name stands for, a file has two chunks,
and a rename moves a file that another call may still have open. `Threaded` are
the process ids under which calls may run at the same time. **TextRegister** is
its abstract specification.

**RunCache** models `_cc_run_cached` with one action per access to an entry's
files, `_run_cache_prune` as a list of files removed one by one, and the parity
check of a worker. `pruned` is a history variable: it turns true at the first
removal. Because the calls stand in an `if` condition, a failing
command does not end them; the model follows this (`CopyOut`, `ReadRc`).

**Cancellation** models the caller of `run_argv_cancellable` and a group of
processes; every member may or may not ignore SIGTERM and may or may not hold
the pipes open, the event may be set and an interrupt may arrive at any moment.

**ContractStripping.** A text is a set of clauses: a line, a kind, what the
verify binary lists for it and whether the obligation is valid. A command goes
from the contract mode (option, `sv0.toml`) over the control file, the listing,
the solver and the compile to its C. The control file is one variable, as it is
one path for all commands of a machine. Between the two readings a proof is only
a line number, and the file may be edited.

**GuardRunner** starts guards in parallel (`Jobs` at a time), each of which
leaves a status file or, killed, none; then judges them in order and runs every
one without an "ok" once more, alone. A flaky guard may fail in company only.
**GitHooks** goes from the refs or staged files to the scope, the suite, its
stages and the guards between them. A changed path is the class the classifier
tells apart.

**SelfHostLoop** has one worker per file of a loop: emit twice and compare, or
take the C from the emit cache under a key computed earlier; the reference emit;
compile, run, compare; FAILED. Scratch files are named by stem in a directory
all loops of a checkout share. Sources are edited, the compiler is rebuilt,
entries are pruned and shells are killed meanwhile.

**Artifacts** takes the builders apart file access by file access: derive a
main, assemble, retarget (vm), emit, link, write the wrapper; each at a fixed
name, under a coarse clock, by drivers at once, whose caller may or may not
leave errexit on.

**SourceText** has the three scans of source text (entry scan, reserved names,
formatter) as one fold over symbols with the quotes and line ends each of them
knows; **Request** uses it for entry validation and goes from a command line and
a disk to the one line given to the core compiler and back (`parse_args`,
`normalize_request`, `resolve`, input and output checks, compiler tiers and
probe, runtime and manifests), then to the environment of the core compiler, the
command line of the C compiler, the build record and the JSON event. Each stage is
an action that goes on or ends with its error; the properties compare what comes
out with definitions of what was asked (`CompilesWhatWasAsked`,
`NamedCompilerOrNone`, `RecordTellsTheBuild`) that do not scan and do not go
through the stages.
**Formatter** has the scan, the layout of attributes, the whitespace pass and
the run over a batch of files. What the code builds in loops over pieces and lines is
recursive functions here; an edit is made of the old text and of the text with the
later edits in it, as the code makes them in reverse.

**TaskTracking** is `parse_task_rmd_body`, one action per line, with its stack of
regions; the property compares the digest with one that is read off the file as a
whole (which `end` closes which `begin`, which anchor an item follows).

**Dashboard** has the threads of the server, its lock, its cached body and its
clock. **Companions** has builds of one stem by the three front ends, one after
another or at once. **Pinning** has the dispatch step by step, the guard and
`--write`, while somebody commits, checks out, stages and edits, and the rollback
drill: it reads the current pin and the last different one of the history, rolls a
copy back and forward, and compares the checkout with what it was
(`DrillIsOfOneCommit`, `DrillBlamesTheRepository`).

**Corpora** has the nineteen harnesses that run rows and compare, as one machine:
tools, manifest, rows that are compiled, taken by `Jobs` workers and finished in
any order, verdict. What a harness does with a line it cannot read, a tool that is
missing or a program that fails is its own (`ReadsFirst`, `Pooled`, ...). The one
directory they share, bytecode by stem, is written by others meanwhile.

**Gitlinks** has README, `.gitmodules` and the gitlinks in working tree, index and
HEAD, what the two guards read of them and when, and how git itself reads the
same file. **TaskCatalogue** has the milestones, the task files and the workspace
file with their four guards and the question `milestone-orient show`; an id is a
prefix, a number and the blanks around it. **SourceGuards** has eleven guards that
judge a text by patterns, and beside each what a reader would say of that text
(`ChecklistIsRead`, `CommentsAreRead`, `DriverIsRead`, `MessageIsRead`,
`StoreIsItsOwn`, `ListsAreRead`).

**Installation** has a checkout whose runtime, entry surface and ABI versions are
edited, the manifest writers, the guards, the installer, and builds in the installed
tree. The installer copies file by file: the three modules that say what the
manifests record in any order, each of which may break off, then the runtime, then
the compiler; it may be killed between any two, and run again over a tree that is
complete. `origin` remembers which driver a module of the tree was copied from, if
the guards were green then. An import that fails, of a module that is missing or
torn, is a build that gets nowhere; a build imports its modules in one moment.
**Release** has versions of the checkout that are edited, committed and left
again, the captures, medians and the budget, the two builds that are compared
byte by byte, the speedup, the warnings, and the evidence.

These tools share no state. Two runs of one module go through them (`MCTools`,
constant `Tool`, variable `tool`), those that read in `tools`, those that look at
what others change in `checkout`; which one is at work is settled at the start. The
two helpers of the driver share `MCHelpers` in the same way. `MCRequest` and
`MCChecks` hold the inputs.

### Abstractions

* One output path, one text path: paths share no state.
* Process ids are not used again in OutputLock (a reused pid would make a stale
  lock look live until it is 300 s old); in AtomicText they are.
* The payload of a lock is one small write and is seen whole or not at all.
* Text companions are written in one step in NativeBuild; AtomicText has the detail.
* A cache key is the program or the versions it is a hash of.
* The order in which a prune finds files follows from their age: a hit touches
  `.rc` only, so `.out` is the older file unless it was stored again (`younger`).
* The solver answers rightly or not at all; the compiler may be wrong (`Miscompiled`).
* Words, messages and payload texts are symbols; a line of a task file is what the
  regular expressions and the JSON parser can tell of it; TOML is readable or not.
* External: what sv0cov says of itself, what the core and host compilers make.

## 3. Runs

| Run | Checks | Bounds |
|---|---|---|
| `lock` | ExclusiveUntilReclaim, NoOrphanedLock, LockNotStolen, EveryAcquireEndsUnlessWedged | 3 builders, 2 of them threads; all faults |
| `publication` | EveryBuildIsDecided | 2 builds; all faults |
| `native_build` | ExitCodeTellsPublication, FailureLeavesOrder, SoloBuildIsConsistent, ImplementsStore | 2 builds, 2 option sets, 4 faults, maps that can and cannot be removed |
| `helpers` | ImplementsRegister, OutcomeIsTrue, CancelledCallEnds | 4 writes under 2 pids, one at a time per pid; 3 members of every nature, 2 interrupts |
| `cache` | VerdictsAreTrueUntilPruned, EntriesAreTrue | 2 workers, 4 programs, any jobs; all faults |
| `strip` | UnprovenStaysChecked, VerdictIsAboutTheFile | 2 commands, 2 files, both edited |
| `strip_race` | OnlyProvenIsStripped (violated) | 2 compilations of 2 files, no edits |
| `hooks` | GuardsTellTheTruth, LetThroughIsChecked, RefusalHasAReason, EveryHookDecides | 3 guards, 2 jobs, pushes of ≤ 2 refs, commits of ≤ 2 files |
| `selfhost` | PassIsTrue, EntryIsWhatItsKeySays, OkMeansEveryFilePassed, EveryLoopEnds | 2 workers, 3 layouts, 2 events |
| `artifacts` | FreshIsCurrent, ProceedsWithCurrent | 2 drivers, native and vm, 2 ticks, 1 edit |
| `tools` | ParseMeansGrammar, EntryIsTheOneMain, BuildsWhatWasAsked (Request), DigestIsTheFile (TaskTracking), FormatIsSafe (Formatter), GreenCatalogueAnswers (TaskCatalogue), GuardsReadTheText (SourceGuards) | see below |
| `checkout` | AnswersAreRecent (Dashboard), CompanionsMatchTheArtifact (Companions), DispatchRunsThePinned (Pinning), CommitsNameTheirLinks (Gitlinks), AcceptedTreeFits (Installation), EvidenceIsOfItsRevision (Release), VerdictsAreEarned (Corpora) | see below |

What they show, in a sentence each, is in `PROJECT.json`.

**Bounds.** Three builders are the least for both races on the lock: a previous
owner, a late reclaimer and a new owner; two of them as threads of one process
cover what a shared pid does. With two builds the lock can be stale, live or
reclaimed and each build can overtake the other in every stage. Four writes under
two pids give a killed write, a later one with its pid, and a third party. Two
workers with any two of four programs (silent, failing, printing, instrumented)
give every pair of equal and different results and every sharing of keys. A
group of three is a leader and two members that differ; a third interrupt would
meet the same handler as the second. Two commands and two files are what a race
on the control file needs; the texts have clauses of every kind, also two on a
line. Three guards with two jobs have one that waits, one that runs in company
and one that is heavy. The three layouts of the loop are one loop of two stems,
two loops of one stem and two loops of one file; an edit and a rebuild, or two
of either, separate a key from what is compiled. Two ticks let a file be older,
of the same age and younger than another.

In `tools`: command lines of up to
three or four tokens out of every kind of option, value and operand; task files
of up to three lines of any form, four of fewer, nests of five, and tables; texts
of up to three chunks, five of the plain ones; catalogues of up to two milestones,
workspace files of up to four lines; checklists and assembly of up to four lines,
comment texts of up to four chunks, driver bodies of up to four items, messages of
up to three lines, lists of up to two. In `checkout`: two clients, two task files and three ticks with
a refresh time and a build time of one; two builds of a stem of every kind and
mode; four revisions of sv0cov, one of them not fetched, one earlier commit of
every kind of policy, and three changes; `.gitmodules` with one or two lines
inserted anywhere, two commits of each submodule and three pieces of work; edits
that give a runtime file, the surface and a version a second value, two of them
(writing a manifest is not counted, except where a version should have changed with
it), and nobody who installs over a tree that can never be complete or after a build
was accepted; two versions of a checkout for a release, out of three that cost as before, as
much as the budget allows, and more; manifests of up to two rows of every kind, three in a pool.
A pattern that reads a text wrongly does so in a text of two or three lines: what
opens, what is between, what closes.

Interchangeable, and declared so by `SYMMETRY`: the workers of `cache`, the
commands of `strip` and `strip_race`, the drivers of `artifacts`. No run with
symmetry has a liveness property.

`CHECK_DEADLOCK FALSE` stands in every cfg: builds, writes, workers, calls,
commands and hooks end, and a state in which all have ended has no successor.

**Fairness.** Weak fairness on the steps of a running builder, caller, hook,
guard or worker says that the operating system schedules it. A step of a killed
process is not enabled, so fairness owes it nothing. The deadline of an acquire
passes if the builder keeps waiting (clocks advance). In `Cancellation`, a
process that was sent SIGTERM and heeds it ends. No fairness is given to faults,
ageing, edits, exits, events, interrupts or natural ends. The liveness of the
lock and of publication is stated up to `Wedged`: a lock file whose creator will
never write its payload. `NativeBuild` has no liveness property: its stages run
compilers with `run_argv`, which is called without a timeout, so nothing in the
code makes them return.

## 4. Proofs

Type invariants are proved and not run: TLC meets a type error as an error of
its own. All theorems hold for every value of the constants under the named
assumptions of the modules.

**NativeBuildProofs** goes up the three modules it is about.

*Lock.* `ExclusiveUntilReclaim` is not inductive: it says nothing
of a builder between its create and its write, nor of one about to remove.
`LockInd` strengthens it: until a reclaim every builder from its create to the
end of its release is the creator of the lock file (`LockFileIsMine`), and a file
has one creator. That needs what the file can look like (`FileShape`), that a
creator that has written and still finds its own file finds its own token in it
(`PayloadIsMine`), and `NoOrphanedLock`. A lemma per group of actions shows that
steps preserve it (`AcquireInd`, `ReleaseInd`, `EnvironmentInd`). From
`LockInvariant` follow `LockTypeCorrect`, `MutualExclusionUntilReclaim`,
`LockCleansUp` and `LockStaysWithOwner`, for any set of builders, finite or not,
and any faults.

*Publication.* `PublicationUsesLock` shows that each step of publication
is a step of the lock or leaves it alone, so `LockInvariant` carries over. With
it, `PubTypeCorrect` and `PublicationTakesTurns`: while one build holds the lock
and no reclaim has happened, no other build is in the body. The refinement
`PublicationImplementsStore` needs no exclusion at all: its invariant `PubInd`
says that nothing has happened in a body that has not been entered
(`BodyNotBegun`) and that an output judged usable still is (`ValidIsUsable`), and
`LostIsForever` that a verdict once given stays.

*Pipeline.* In the same way `PipelinePublishes` (`NativeSpec => PubSpec`) carries
all of this into the pipeline, and gives `PipelineImplementsStore`. Then
`NativeInd`: a build publishes in one stage only, so stage, exit code and outcome
tell one story (`ExitInd`, giving `ExitCodeIsTrue`); what there is of scratch and
retained C by stage (`OrderInd`, giving `FailuresLeaveOrder`); and a build that
runs alongside no other finds what lies beside the path as it left it (`SoloInd`).
The last needs that `overlapped` names both of any two running builds
(`OverlapIsNoted`) and that a process that is gone moves nothing (`DeadAreOver`);
it gives `SoloBuildOwnsThePath`, an action property. One lemma per part of the
invariant, one step per action.

**HelperProofs.** *Text writes*, under `Threaded = {}`: temporary names and the
output path stand for different files (`NamesApart`), a running call writes to the
file its own name stands for (`WritesToOwnName`), a call that has not begun has no
file (`IdleHasNoFile`), and what was written so far is there (`WrittenSoFar`). So a
running call writes to a file no reader and no other running call has
(`FilesApart`), and renames a whole text of its own. Readers see whole texts
(`ReadersSeeWholeTexts`) and the calls implement a register
(`TextImplementsRegister`). Without the assumption both fail: see section 5.
*Cancellation*: `CancelInd` records what has been sent to whom at each place of the
caller, and what may have been reaped before anybody was signalled
(`AskedOrReaped`); from it `CancelTypeCorrect` and `CancelledOrNatural`.

**GitHooksProofs.** *Stripping*: `StripInv` relates the lines a command holds as
proven to the text it listed, and the control file to the commands between their
write and their trap. From it `StrippingIsSound`, `WithoutProofNothingIsStripped`
and both together as `ChecksStay`; `VerdictsAreAboutTheirFile` for commands whose
use of the control file no other overlapped; `ControlFileIsEmptied`.
*Guards and hooks*: `GuardInv` for the runner: a status is true of the guard it
names unless it was crowded, and a second attempt is alone. `HooksDriveGuards`
shows that hooks take the runner's steps or leave it alone, so that
`GuardsAreRight` holds inside them; `SuitesHaveStages` gives `HookTypeCorrect`.
`HookInv` then follows the refs of a push, for any number of them: a ref that was
read has left its mark in `unknown` or `paths` (`RefsAreCollected`), and once the
suite is decided no stage a ref needs is dropped while the exit status is 0
(`ScopeCoversRefs`; `DecisionCoversRefs` is the step where the one turns into the
other). A commit's suite is its guards (`CommitSuite`), chosen as this commit
allows (`SelectedByHook`). `LetThroughWasChecked` follows, and from
`FailureHasAReason` `RefusalsAreDeserved`: what goes in is not less than what must
be checked, and what comes out is not refused for nothing.

**SelfHostProofs.** `LoopInd`, for any number of workers and loops. A worker that
ended without a pass left a trace, and a loop that has ended has nobody under way
(`EndsAreNoted`, giving `OkLoopsPassedAll`). What a worker knows is true until
something moves (`KnowsTheWorld`). Two parts are about the scratch files:
workers whose stem nobody shares own their emit from the first write to the store
(`AloneInd`, giving `EntriesAreExact`), while workers on one stem read what others
left there, which is as good as their own while all are at work on one file and
nothing moves (`SteadyInd`, giving `PassesAreTrue`). The two are different facts:
the cache is exact with one worker per stem whatever moves elsewhere, verdicts
are true with several. Assumed: one file has one stem (`StemAssumption`; a stem is
a function of the file's name, `sv0:1477`) and no version is 0, the mark of the SML
heap (`VersionAssumption`, an encoding).

**CheckoutProofs.** *Artifacts*, for any number of drivers, edits and ticks:
`ArtInd` follows a build that nothing disturbs through its stages (`Progress`,
`Undisturbed`): what each stage has made is of the sources as they are, because an
edit or another build takes the driver out of `alone`. Times lie in the past
(`PastTimes`). It gives `FreshCompilersAreCurrent` and the action property
`DriversProceedWithCurrent`.
*Installation*, for any number of changes: manifests record what stood together
(`StoodTogether`); versions of the surface only grow from the manifest of the tree
over that of the checkout to the driver, and while nobody replaced a snapshot of one
version by another a version stands for one surface (`VersionsGrow`). A module in the
tree says what its `origin` said, and an origin was recorded in the manifest of the
checkout when it was copied (`ModulesFit`): if its version is that of the tree's
manifest, so is the rest. That is `AcceptedTreesFit`.
*Formatter*, for any batch of texts: `FormatMovesOnlyBlanks`, the third part of
`FormatIsSafe`. `FormatInv` follows the run over the files; what a file becomes is a
matter of the functions: pieces stand one after another with blanks between them
(`PiecesFollow`), a run laid out has the symbols of the run (`LaidOutKeeps`), and an
edit leaves the text as it was up to a cut that lies behind every run before it
(`EditedCuts`), so that the edits the code makes from the last to the first, at places of
the old text, do not meet (`AllEditedKeeps`). Assumed is the form of the texts
(`BatchAssumption`).

**ToolProofs.** `DashInd`: the body is not older than what its builder read, and
what it read is at most a build and a refresh time old; with the lock this gives
`DashboardIsRecent`. `DispatchIsPinned` follows step by step: every check pins
one more thing to the policy that was read (`PinnedStep`), as long as nobody
works in the checkout (`CalmStep`). `DrillSoFar` and
`BlameSoFar` say what each step of the drill has read, and `HistorySoFar` that a
history only grows and ends with the pin of HEAD; with them the drill rehearses
the pins of one commit and blames only a repository that is at fault.
`CompanionsInd` separates builds that overlapped from those that did not and gives
`CompanionsAreRight`.

*Cache of results.* `SoundInd`: a worker stores only what it has run, under the
key of a cacheable program (`StoresItsRun`), because nothing between the run and
the two renames changes its `run` or its key. It holds under every fault and
gives `CacheIsSound` and `CacheTypeCorrect`. `WholeInd` adds what holds until the
history variable `pruned` turns true: a worker past its hit test finds both files
(`HitIsWhole`), and what a call returns is what the program does
(`ReturnsTheResult`), so that the comparison is about the two programs
(`AgreeIsTrue`). From it follow `CacheEntriesAreWhole`, `CacheEntriesAreTrue` and
`ParityVerdictsAreTrue`.

**AnswerProofs.** *Request*, for any command lines, configurations, disks and
environments: `RequestInd` says of every stage that what the stages before it have
settled is a function of the command line and of what was found (the request of the
command line and `sv0.toml`, the line for the core compiler and its coverage
request of the request, the command, the record and the event of both), so that
they cannot come apart, and that the map was apart from the outputs when it was
placed. That the line is read as it was meant (`LineIsRead`) needs that an input is
a token of the command line (`TokensAreRead`) and no word of the line: paths are
absolute there (`TokenAssumption`). It gives `WhatWasAskedIsBuilt`.
`GrammarInd` compares the parser with the grammar on the tokens read so far: which
places hold values is a recursive function over the line (`ValuesExist`), and what
is given after n tokens is what the places up to n say (`Parsed`). It gives
`CommandLinesMean`, for command lines of any length. `TokenAssumption` also says that
no token is an option in two ways (a split one is no whole one).
*TaskCatalogue*, for any checkout: a question that means a milestone finds it
(`MeantIsFound`, from the guard against repeated ids), and what stands below the
first title is in the section of the table (`BelowTheTitle`, with
`LeastElement`: a set of numbers that is not empty has a least one). With
`CatalogueInd` they give `GreenCataloguesAnswer`.
*Release*, for any number of versions: from the moment the tree was found clean, where
that was required, until the revision is read, what is in the tree is what is committed or was made
since and measured by nobody (`ReleaseInd`). So `RevisionsAreMeasured`, although
reading the revision is a later step than looking at the tree. `BudgetInd` follows
three captures into their medians: with one mishap per label at most two of three
times are the true ones, and the median is one of those (`MedianOfThree`). With both,
`EvidenceIsTrue`. Assumed: the corpus is finite, no two of its programs have one
size (they are ranked by it, `SizeAssumption`), and a build takes time
(`ContentAssumption`).

**CheckProofs**, for files, corpora and texts of any length. *TaskTracking*:
`TrackInd` says that while nothing was wrong the parser's stack of regions, its table
states, its anchor and its items are those of the file up to the line it is at
(`Follows`); brackets are counted (`Excess`), and the n-th region from the top is the
n-th that is open. It gives `DigestsAreTheFile`.
*Corpora*, for any rows, any number of jobs and any order in which they finish:
`CorpusInd` says that a row that was taken up and is not under way was shown to keep
its promise or is among the wrong ones (`Running`), and while the VM corpus compiles
that a stem has the bytecode of its row (`Compiling`). It gives `VerdictsAreEarnedAlways`.
Assumed is the form of the rows (`SurveyAssumption`).
*Gitlinks*, for any `.gitmodules`: what the parser has read of it is compared with what
git reads by induction over the lines (`ParsedText`, `FitReadsOurs`). With `GitInd`
(the index and an archive have the form of a commit) it gives `LinksAreNamed`.
*SourceGuards*, for any texts: what eleven guards say (`GuardsInd`) is compared with
what a reader says, by a lemma per guard: nesting of comments over the scan
(`FlatSoFar`), braces that stay open over a body (`BracesStayOpen`), citations over the
tables of a checklist (`HasCited`). It gives `GuardsAreReadAlways`. Assumed is the form
of the texts (`ExhibitAssumption`).

Theorems are stated about each tool's own specification; `ToolSpec` runs one of
them at a time.

A recursive function over a text is not out of reach: that it is defined, and what it
has come to after n symbols, is shown by induction over the numbers up to n, with a set
in the place of a predicate (`UpToInduction`).

Only model-checked: every liveness property, which TLAPS does not reach;
`EntryIsTheOneMain`, which compares the scan with how many mains a text has in truth,
and that is given with the texts of the instance; and two parts of `FormatIsSafe`, which
say that a scan of the new text finds what a scan of the old one found
(`FormatKeepsTokens`, `FormatIsStable`). That does not hold of every
text (a backslash before blanks at the end of a line in an unclosed character literal
comes to stand before the line end), and the instance has texts a compiler would read.

## 5. Where the code does otherwise

Properties above are stated for what the code keeps. Where a document, a comment
or a test says more than that, the models show the following. The first has a run
of its own.

Stripping
* `strip_race`: two verified compilations of different files write the one control
  file; the proofs of one are taken for the other and remove checks never proven.
* An edit between the two readings moves lines: a proof of line 5 is applied to
  whatever line 5 has become. `UnprovenStaysChecked` is about unchanged texts.
* Verified mode in the native driver passes on a mode but never names a file of
  proofs; `--project` ignores the contract mode, yet record and JSON call it
  effective (`native_exe_main.py:259`). `sv0_contract_mode.py` and
  `native_exe_config.py` read the same key differently.

Lock, publication, driver
* Two builders judge one lock stale and the slower removes the faster one's new
  lock. It needs no crash: an owner that releases and exits between `_read_owner`
  and the pid check is judged stale too (`native_exe_output_lock.py:89`). The races
  never reach the artifact: `ImplementsStore` holds with them.
* A kill between create and write leaves an empty file, which has no owner to judge
  and whose loop skips the deadline (`Wedged`).
* The build record hashes what is at the output path after the lock is released; a
  build that publishes in between is hashed instead (`native_exe_main.py:239`).
* A coverage build that fails later has already written its map beside an older
  executable. `SoloBuildIsConsistent` leaves that case out.
* Failures that are not `BuildError`s end in a traceback with exit code 1
  (`Uncaught`), although `native_exe_errors.py:4` gives every failure a phase; so
  does a `BuildError` of `_collect_provenance`, raised after publication.
* Threads of one process share a temporary name in `write_text_atomically`: one
  truncates the file another renames.

Companions
* prog, prog.c and prog.sv0b share one default map: a build of one with
  `--coverage=off` removes its sibling's map, with `map` overwrites it; failures of
  `clean-stale` are ignored. `CompanionsMatchTheArtifact` speaks of builds that
  overlapped with none and could tidy up.

Cancellation
* A member that ignores SIGTERM outlives a child that heeds it (the group is
  killed only if the child is late).
* A wait that an interrupt breaks off may have reaped a child which ended by itself;
  then `getpgid` finds nobody and `_terminate_process_group` returns
  (`native_exe_subprocess.py:101`): the call reports `Cancelled`, and what the child
  had started was never signalled, while a reader of the docstring (lines 128-131) may
  take it that the entire group is terminated. This is `NobodyAsked` in `SurvivorsWereAsked`.
* An event set during a wait in which the child exits naturally does not cancel
  the call (`native_exe_subprocess.py:159`).

Caches and loop
* A prune between the hit test and the read makes a missing status count as 0: a
  parity pass of a program that failed. `.out` is pruned before `.rc`, since a hit
  touches `.rc` only.
* Two loops of one checkout compile each other's emits where stems are equal;
  `PassIsTrue` is about what a worker began with and says which loops it leaves out.
* A worker whose shell was killed is in no list, and with errexit off in both
  callers the loop prints OK (`OkMeansEveryFilePassed` leaves it out).

Artifacts
* The list `_artifact_stale` looks at lacks `native_exe_vm_compose_patch.py`, though
  `sv0:165` calls it a superset of the real inputs.
* With errexit off a failed rebuild goes on with the old compiler. An edit within
  the tick of a build, or during it, leaves a binary that looks fresh. A second
  driver can run an empty wrapper.

Guards and hooks
* pre-commit checks the working tree, not the index; commits of only renames and
  deletions are not checked; files of the MCP server go unchecked without `uv`.
  pre-push tests the working tree, not the pushed commit, and a rename hides the
  old path from its scope.

Request, scans, files
* `keep-c` and `build-record` of `sv0.toml` are silently ignored with `--emit=c`;
  `output-dir` counts as an explicit `-o`, so the directory is not made; nothing
  compares keep-c, record, `-o` and source with each other.
* Runtime files are verified before the core compiler runs and read by the C
  compiler seconds later.
* The mask of `native_exe_entry_scan.py` knows no character literals, so `'"'`
  hides a later main; an unclosed `fn main(` is accepted; a main with a contract
  clause before its body is rejected; nothing checks that main is at top level.
* `fmt_sv0.py` strips blanks at line ends inside strings, takes a comment before an
  attribute for code, and writes over edits made since it read.
* A region of a task file that is opened twice is closed by the first end; the
  internal `_table_phase` appears in the digest.
* `sv0 coverage` executes what is at the launcher's path after asking it; an edited
  launcher in the pinned checkout that answers rightly runs.
* A commit made during the rollback drill fails it with "the drill changed this
  checkout", and the current pin is read outside the `try`, so that a bad policy
  ends in a traceback.
* `c_compiler_argv` of a build record is always empty; the record hashes the source
  and reads the revision of sv0c after the build. What `--verbose` prints of the C
  compiler's command leaves out the coverage runtime.

Harnesses
* Bytecode and results of the VM corpus are keyed by stem. Doctests share
  `snippet.sv0b`, so after a compile that fails silently the previous snippet runs.
* A compiler build that fails counts as "1 fixture OK" in the FFI corpus. `"vm_exit:1"
  in stdout` is also true of `vm_exit:10`. A diagnostics row of the SML compiler needs
  its needle and nothing else. Most harnesses are green with no rows at all.
* The comment at `native_exe_sanitizer_corpus.py:41` calls any other sanitizer output
  "on any fixture (this one included ...)" a hard failure. The code (lines 98-105)
  looks for the known message in all of stderr: the known fixture is green with any
  further finding beside it. In the parity of release builds the known fixture may
  differ in exit and output.
* `VerdictsAreEarned` says of green only what each harness does look at; for the known
  fixture that is the known finding, whatever stands beside it.
* The lists of the VM parity harness are read in four ways: bootstrap-build takes a
  line as it is (`sv0:1152`), its guard strips it, the tier-2 guard takes out spaces,
  the harness all white space. A list with a blank or a carriage return behind a name
  passes the guards and cannot be built; `ListsAreRead` is about lists without.
* `native_exe_no_duplicate_cc_recipe.py` reads `.py` and `.sh` files only and looks
  for `cc` before `-std=` with nothing but blanks and quotes between; the recipe of
  `sv0:1341`, in a file without extension, has `}}` there.

Submodules, catalogue
* README edits that are not staged pass for staged ones; an index entry that cannot
  be read falls back to HEAD; header and key on one line, quotes and comments of
  `.gitmodules` are read otherwise than by git.
* `milestone-orient show 3` does not find an id written `m3`. Hints that are no texts
  pass the guards and make `show` raise.

Installation
* `native_exe_entry_abi.py:15` says a changed adapter shape of the emitter fails the
  hash check; the hash is of the Python copies, never of `megaTU-main.sv0`. A manifest of
  another version is not looked at further.
* An installation over an existing tree copies the modules one by one and then raises
  at `copytree`: new driver, old runtime. The checks find that by the versions, which
  two modules hold: when the second installation stops after it has copied
  `native_exe_entry_reserved.py` (the symbols, line 47) and before
  `native_exe_entry_abi.py` (the version, line 34), the tree has symbols of one version
  and the number and manifest of another, and builds. `AcceptedTreeFits` therefore
  speaks of modules of the version the build reports. In the model versions only grow.
* The launcher resolves its directory without following links.

Release
* Nothing compares record, benchmark or reproducibility report with the revision,
  which is read after the tree was found clean. With `require_clean_tree=False` a
  dirty tree is no obstacle (the second case of the self-test asserts it,
  `native_exe_release_evidence.py:104`): the evidence then names HEAD for
  measurements of what was never committed, and its `clean_tree` (line 72) says true
  all the same. `EvidenceIsOfItsRevision` is about evidence with the requirement.
* A fixture whose builds all fail drops out of the medians and is never a
  regression. The labels `median` and `largest` stand for other programs when the
  corpus grows.
* Two binaries with different UUIDs may differ anywhere in their last 1024 bytes,
  which is all of a small file, and count as `semantic-only`. The warning report ignores the
  compiler's return code. `validate_known_conflicts` runs in its self-test only.
* The self-test of `native_exe_release_evidence.py` puts a marker file into the real
  checkout while other guards run.

Reading guards
* The comment at `verify_native_exe_traceability.py:77` says an implausible range is
  treated as a single id; the code skips it. `CLI-007/008` in a header cites CLI-007
  only. A `|` in a cell shifts the columns.
* The commit-msg guard reads the diff below the scissors of `commit -v`, and drops `#`
  lines that `commit -m` keeps. Bodies, braces and calls are counted in raw text,
  comments and strings included.

## 6. Not modelled

* The submodules: compiler, virtual machine, coverage tool, documents. Their
  directories are empty; what they answer is an input of the models.
* Words for people: human output, timings, messages, the layout of JSON; the syntax
  of TOML (a file is readable or not); the documentation generator.
* `native_exe_phases.py` and the helpers around it: the driver does not go through
  its phase machine, the order of the phases is that of `NativeBuild`.
* `.agent/runner.sh`, a sequential driver nothing in the toolchain calls; the hook
  installer and the shell wrapper of commit-msg (what it checks is in
  `SourceGuards`); `build-sv0-self-host-compiler.sh`, which builds one more artifact
  the way `Artifacts` describes; the byte-diff mode of the loop; `vm-run`.
* Snapshots, tables and plots made from the digest of a task file.
* Stress and preservation tests of the driver, which state what the models check;
  `verify_sv0cov_root_namespace.py`, `verify_coverage_modes.py`, the toolchain doctor
  guard and guards that look for one fixed text in one file.

A quarter of the Python lines are self-tests, about a third are docstrings,
imports and tables. `PROJECT.json` gives the status of every component.

## 7. What could follow

1. All of `FormatIsSafe` for all texts a lexer accepts: needs that lexer as a definition.
2. `EntryIsTheOneMain` likewise, with a definition of what the mains of a text are.
3. The 14-day clock of the cache prune; the byte-diff mode of the loop; liveness of
   the lock under a prover that knows fairness.
