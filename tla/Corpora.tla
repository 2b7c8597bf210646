------------------------------ MODULE Corpora ------------------------------
(***************************************************************************)
(* The harnesses of sv0 test and of the release gates that run programs    *)
(* and compare: each reads a manifest or has a list of its own, takes the  *)
(* rows that are meant for it, some in a pool of jobs, and ends green or   *)
(* red.                                                                    *)
(*                                                                         *)
(* A row is what its line says and what is true of its program.  Rows have *)
(* temporary directories of their own, with one exception: bytecode goes   *)
(* to sv0c/build/vm/<stem>.sv0b, which the VM corpus, the doctests and     *)
(* every other compilation for the VM share.                               *)
(***************************************************************************)
EXTENDS Integers, Sequences, FiniteSets

CONSTANTS
  Survey,  \* what a harness may be started on: [harness, lines, tools]
  VmStem,  \* the stems of the cases, under which their bytecode lies
  Jobs     \* SV0_JOBS

Bytecode == [does : {"ok", "no code", "raises", "silent", "nothing"}, exit : Int]

(* Those that check every row before they end, in a pool or one by one;    *)
(* the others end at the first row that fails.                             *)
Pooled  == {"verify_behavior_corpus_native", "native_exe_behavior_corpus", "vm_behavioral_parity"}
Patient == Pooled \union {"sv0_doctest", "verify_corpus", "verify_z3_driver", "verify_behavior_corpus_vm",
                          "verify_sv0_verify_e2e", "verify_contract_mode", "verify_contract_toml"}

(* Those that read the whole manifest before they run anything.            *)
ReadsFirst == {"verify_behavior_corpus_native", "native_exe_behavior_corpus", "native_exe_sanitizer_corpus",
               "native_exe_release_parity", "verify_behavior_corpus_vm"}

NeedsCompiler == {"verify_behavior_corpus_native", "verify_diagnostics_corpus_behavior_native",
                  "verify_vm_ffi_gate", "verify_string_alloc_failure", "vm_behavioral_parity"}

NeedsZ3 == {"verify_corpus", "verify_determinism", "verify_sv0_verify_e2e", "verify_z3_driver",
            "verify_contract_mode", "verify_contract_toml"}

Batched == {"verify_behavior_corpus_vm"}

(* What each harness reads or has a list of.                               *)
Diagnosers == {"verify_diagnostics_corpus_layout", "verify_diagnostics_corpus_behavior",
               "verify_diagnostics_corpus_behavior_native"}

(* What a program writes, stdout and stderr, is one of two texts; noise is *)
(* what there is on stderr of an instrumented one, fast is the program     *)
(* built with -O2.                                                         *)
Program ==
  [form : {"row"}, stem : VmStem, there : BOOLEAN, project : BOOLEAN, tag : {"both", "native", "sml"},
   number : BOOLEAN, want : Int, emit : {"ok", "reject", "hang"}, says : BOOLEAN, smlSays : BOOLEAN,
   link : BOOLEAN, exit : 0 .. 255, wrote : {"this", "that"}, prints : BOOLEAN,
   noise : SUBSET {"panic", "overflow", "finding"}, known : BOOLEAN,
   fast : [exit : 0 .. 255, wrote : {"this", "that"}], vm : Bytecode]

Judgements == {"verified", "runtime"}

LinesOf(h) ==
  CASE h \in ReadsFirst \union Diagnosers -> Seq(Program \union [form : {"bare"}])
    [] h \in {"vm_behavioral_parity", "verify_vm_ffi_gate"} -> Seq(Program)
    [] h = "sv0_doctest" -> Seq({p \in Program : p.there /\ p.number})
    [] h = "verify_ffi_regression_corpus" ->
         Seq([form : {"check"}, check : {"c", "vm", "golden"}, built : BOOLEAN, clean : BOOLEAN])
    [] h = "verify_string_alloc_failure" ->
         Seq([form : {"run"}, side : {"c", "vm"}, exit : Nat, want : Nat, panics : BOOLEAN])
    [] h = "verify_corpus" ->
         Seq([form : {"file"}, exit : Int, annotated : Seq(Judgements \union {"none"}),
              contracts : Seq([line : Nat, status : Judgements])])
    [] h = "verify_determinism" -> Seq([form : {"output"}, exit : Int, output : STRING])
    [] h = "verify_sv0_verify_e2e" ->
         Seq([form : {"report"}, exit : Int, ensures : Seq(Judgements), requires : SUBSET Judgements,
              summary : [1 .. 2 -> Int]])
    [] h = "verify_z3_driver" -> Seq([form : {"query"}, exit : Int, output : Seq(STRING), want : Seq(STRING)])
    [] h = "verify_contract_mode" ->
         Seq([form : {"modes"}, exit : Int, link : BOOLEAN, left : [runtime : Int, verified : Int, requires : Int]])
    [] h = "verify_contract_toml" -> Seq([form : {"toml"}, flag : BOOLEAN, left : Int])

Harnesses ==
  Patient \union ReadsFirst \union Diagnosers
  \union {"verify_vm_ffi_gate", "verify_ffi_regression_corpus", "verify_string_alloc_failure", "verify_determinism"}

ASSUME JobsAssumption == Jobs \in Nat \ {0}

ASSUME SurveyAssumption ==
  \A s \in Survey :
    /\ s.harness \in Harnesses /\ s.lines \in LinesOf(s.harness)
    /\ s.tools \in [manifest : BOOLEAN, compiler : BOOLEAN, z3 : BOOLEAN, vm : BOOLEAN, probe : BOOLEAN]

VARIABLES
  harness, lines, tools,
  phase,     \* "tools", "manifest", "compile", "rows", then "done"
  rows,      \* the numbers of the lines it is about
  taken,     \* the last of them it has begun
  busy,      \* those under way
  wrong,     \* those that failed
  bytecode,  \* stem -> what lies in build/vm
  mixed,     \* history: somebody else compiled for the VM meanwhile
  verdict

corpusVars == <<harness, lines, tools, phase, rows, taken, busy, wrong, bytecode, mixed, verdict>>

Nothing  == [does |-> "nothing", exit |-> 0]
Stranger == [does |-> "ok", exit |-> 0]

CorpusStartsFrom(s) ==
  /\ harness = s.harness /\ lines = s.lines /\ tools = s.tools
  /\ phase = "tools" /\ rows = {} /\ taken = 0 /\ busy = {} /\ wrong = {}
  /\ bytecode \in [VmStem -> {Nothing, Stranger}] /\ mixed = FALSE /\ verdict = "none"

CorpusInit == \E s \in Survey : CorpusStartsFrom(s)

-----------------------------------------------------------------------------
(* What a line is to a harness.                                            *)

IsRow(l) == l.form # "bare"

Absent(l) == l.project /\ ~l.there

VmIsThere(l) == l.side = "c" \/ tools.vm

(* The tag of a row: "both", "native" or "sml".  Skipped are a project     *)
(* whose directory is absent, and injections on a VM that is not there.    *)
Selects(h, l) ==
  CASE h = "verify_behavior_corpus_vm"                  -> ~IsRow(l) \/ l.tag # "native"
    [] h = "verify_diagnostics_corpus_behavior"         -> ~IsRow(l) \/ l.tag # "native"
    [] h = "verify_diagnostics_corpus_behavior_native"  -> ~IsRow(l) \/ l.tag # "sml"
    [] h = "vm_behavioral_parity"                       -> ~Absent(l)
    [] h = "verify_string_alloc_failure"                -> VmIsThere(l)
    [] OTHER -> TRUE

(* A line that ends a harness that reads first: no bar, an exit that is no *)
(* number, and for the VM a case that is missing.                          *)
Refuses(h, l) ==
  \/ ~IsRow(l)
  \/ /\ IsRow(l) /\ Selects(h, l)
     /\ ~l.number \/ (h \in Batched /\ ~l.there)

(* Emit, compile, link, run: what any of the native recipes comes to.      *)
RunsNative(l) == l.there /\ l.emit = "ok" /\ l.link /\ l.exit = l.want

(* The driver's own corpus probes the C compiler with its first row.       *)
DriverRuns(l, i) == (i = 1 => tools.probe) /\ RunsNative(l)

(* The lines of a panic or of a violated contract are no finding.  The     *)
(* known fixture passes when the known finding is among those it has.      *)
Sanitized(l, i) ==
  /\ DriverRuns(l, i)
  /\ l.noise \subseteq {"panic"} \/ (l.known /\ "overflow" \in l.noise)

(* The known fixture may come out of a release build in any way.           *)
SameInRelease(l) == RunsNative(l) /\ (l.known \/ (l.fast.exit = l.exit /\ l.fast.wrote = l.wrote))

LowByte(n) == n % 256

(* run_c and run_vm give an exit code, or a word for what went wrong; and a *)
(* program that prints cannot be compared yet.                             *)
OnC(l)  == IF l.there /\ l.emit = "ok" /\ l.link THEN <<l.exit>> ELSE << >>
OnVm(l) == IF l.there /\ l.vm.does = "ok" THEN <<LowByte(l.vm.exit)>> ELSE << >>

BackEndsAgree(l) == OnC(l) # << >> /\ OnC(l) = OnVm(l) /\ ~l.prints

(* What runs on the VM is what lies under the stem.                        *)
Lies(l) == bytecode[l.stem]

RunsOnVm(l) == Lies(l).does = "ok" /\ LowByte(Lies(l).exit) = l.want

DoctestHolds(l) == l.vm.does # "no code" /\ Lies(l).does = "ok" /\ Lies(l).exit = l.want

CaseIsThere(l) == IsRow(l) /\ l.there

SmlDiagnoses(l) == IsRow(l) /\ l.smlSays

NativeDiagnoses(l) == IsRow(l) /\ l.emit # "ok" /\ l.says

(* verify_vm_ffi_gate: refused, with the diagnostic.                       *)
GateFires(l) == l.there /\ l.emit # "ok" /\ l.says

(* The three checks of verify_ffi_regression_corpus: where the compiler    *)
(* cannot be built, the first two return 1, which reads as one program.    *)
FfiCheck(l) == IF l.built THEN l.clean ELSE l.check # "golden"

(* A run of the program that injects a failed allocation.                  *)
InjectionOnC(l) == l.exit = l.want /\ (l.want = 1 => l.panics)

(* "vm_exit:1" is looked for in the output, so digits may follow.          *)
InjectionOnVm(l) == (\E power \in {1, 10, 100} : l.exit \div power = l.want) /\ (l.want = 1 => l.panics)

(* check_file: annotated is the status after //@, "none" on a line without *)
(* one, contracts are those of the report, in order.                       *)
Annotated(l) == {n \in DOMAIN l.annotated : l.annotated[n] # "none"}

FileVerifies(l) ==
  /\ l.exit = 0 /\ l.contracts # << >>
  /\ \A i \in DOMAIN l.contracts :
       LET c == l.contracts[i] IN c.line \in Annotated(l) /\ l.annotated[c.line] = c.status
  /\ Annotated(l) \subseteq {l.contracts[i].line : i \in DOMAIN l.contracts}

(* verify_determinism compares with the first run.                         *)
SameOutput(l) == l.exit = 0 /\ l.output = lines[1].output

(* The report of the end-to-end fixture, as text and as JSON.              *)
ReportFits(l) ==
  /\ l.exit = 0 /\ l.ensures = <<"verified", "runtime", "verified">>
  /\ l.requires \subseteq {"runtime"} /\ l.summary = <<2, 5>>

(* A query, and the answers expected of the solver, in order.              *)
Answers(l) == l.exit = 0 /\ l.output = l.want

(* The checks left in the C, verified and not; the stripped C compiles.    *)
Strips(l) == l.exit = 0 /\ l.left = [runtime |-> 2, verified |-> 1, requires |-> 2] /\ l.link

(* sv0.toml and the flag; a failed command counts -1.                      *)
ModeHolds(l) == l.left = IF l.flag THEN 2 ELSE 1

-----------------------------------------------------------------------------
(* The run.                                                                *)

CorpusStays == UNCHANGED <<harness, lines, tools>>

Ends(v) == phase' = "done" /\ verdict' = v

Skips == \/ harness \in NeedsZ3 /\ ~tools.z3
         \/ harness = "verify_corpus" /\ lines = << >>

(* A compiler that is missing is built first.  The parity check has looked *)
(* whether its manifest is empty by then.                                  *)
Lacks ==
  \/ ~tools.manifest /\ harness # "verify_corpus"
  \/ /\ harness \in NeedsCompiler /\ ~tools.compiler
     /\ harness = "vm_behavioral_parity" => lines # << >>

FindTools ==
  /\ phase = "tools"
  /\ \/ Lacks /\ Ends("red")
     \/ ~Lacks /\ Skips /\ Ends("skipped")
     \/ ~Lacks /\ ~Skips /\ phase' = "manifest" /\ UNCHANGED verdict
  /\ CorpusStays /\ UNCHANGED <<rows, taken, busy, wrong, bytecode, mixed>>

(* Where nothing is selected the run goes on and ends green, except that   *)
(* the layout check wants one row.                                         *)
ReadManifest ==
  /\ phase = "manifest"
  /\ LET selected == {i \in DOMAIN lines : Selects(harness, lines[i])}
     IN IF \/ harness \in ReadsFirst /\ \E i \in DOMAIN lines : Refuses(harness, lines[i])
           \/ harness = "verify_diagnostics_corpus_layout" /\ selected = {}
        THEN Ends("red") /\ UNCHANGED rows
        ELSE /\ phase' = IF harness \in Batched THEN "compile" ELSE "rows"
             /\ rows' = selected /\ UNCHANGED verdict
  /\ CorpusStays /\ UNCHANGED <<taken, busy, wrong, bytecode, mixed>>

(* Main.compileFileVm writes the bytecode, raises, or returns without.     *)
Compiled(l) == IF l.vm.does \in {"no code", "silent"} THEN bytecode
               ELSE [bytecode EXCEPT ![l.stem] = l.vm]

(* The rows are begun in the order of their lines.                         *)
Left == {i \in rows : i > taken}

IsNext(i) == i \in Left /\ \A j \in Left : i <= j

(* The VM corpus compiles every row before it runs one.                    *)
CompileRow(i) ==
  /\ phase = "compile" /\ IsNext(i)
  /\ taken' = i /\ bytecode' = Compiled(lines[i])
  /\ wrong' = IF lines[i].vm.does = "no code" THEN wrong \union {i} ELSE wrong
  /\ CorpusStays /\ UNCHANGED <<phase, rows, busy, mixed, verdict>>

CompiledAll ==
  /\ phase = "compile" /\ Left = {}
  /\ IF wrong # {} THEN Ends("red") ELSE phase' = "rows" /\ UNCHANGED verdict
  /\ taken' = 0 /\ CorpusStays /\ UNCHANGED <<rows, busy, wrong, bytecode, mixed>>

(* The driver's corpus runs its first row alone, with the probe of the C   *)
(* compiler; a doctest compiles its snippet, all of which have one stem.   *)
TakeRow(i) ==
  /\ phase = "rows" /\ IsNext(i)
  /\ Cardinality(busy) < (IF harness \in Pooled THEN Jobs ELSE 1)
  /\ harness = "native_exe_behavior_corpus" => 1 \notin busy
  /\ harness \notin Patient => wrong = {}
  /\ taken' = i /\ busy' = busy \union {i}
  /\ bytecode' = IF harness = "sv0_doctest" THEN Compiled(lines[i]) ELSE bytecode
  /\ CorpusStays /\ UNCHANGED <<phase, rows, wrong, mixed, verdict>>

Passes(i) ==
  LET l == lines[i]
  IN CASE harness = "verify_behavior_corpus_native"      -> RunsNative(l)
       [] harness = "native_exe_behavior_corpus"         -> DriverRuns(l, i)
       [] harness = "native_exe_sanitizer_corpus"        -> Sanitized(l, i)
       [] harness = "native_exe_release_parity"          -> SameInRelease(l)
       [] harness = "vm_behavioral_parity"               -> BackEndsAgree(l)
       [] harness = "verify_behavior_corpus_vm"          -> RunsOnVm(l)
       [] harness = "sv0_doctest"                        -> DoctestHolds(l)
       [] harness = "verify_diagnostics_corpus_layout"   -> CaseIsThere(l)
       [] harness = "verify_diagnostics_corpus_behavior" -> SmlDiagnoses(l)
       [] harness = "verify_diagnostics_corpus_behavior_native" -> NativeDiagnoses(l)
       [] harness = "verify_vm_ffi_gate"                 -> GateFires(l)
       [] harness = "verify_ffi_regression_corpus"       -> FfiCheck(l)
       [] harness = "verify_string_alloc_failure"        -> IF l.side = "c" THEN InjectionOnC(l) ELSE InjectionOnVm(l)
       [] harness = "verify_corpus"                      -> FileVerifies(l)
       [] harness = "verify_determinism"                 -> SameOutput(l)
       [] harness = "verify_sv0_verify_e2e"              -> ReportFits(l)
       [] harness = "verify_z3_driver"                   -> Answers(l)
       [] harness = "verify_contract_mode"               -> Strips(l)
       [] OTHER                                          -> ModeHolds(l)

Noted_last(i) == IF Passes(i) THEN {} ELSE {i}

(* The failures so far: rows end in any order and none is forgotten.       *)
Noted(i) == IF Passes(i) THEN wrong ELSE wrong \union {i}

FinishRow(i) ==
  /\ phase = "rows" /\ i \in busy
  /\ busy' = busy \ {i} /\ wrong' = Noted(i)
  /\ CorpusStays /\ UNCHANGED <<phase, rows, taken, bytecode, mixed, verdict>>

Report ==
  /\ phase = "rows" /\ busy = {}
  /\ Left = {} \/ (harness \notin Patient /\ wrong # {})
  /\ Ends(IF wrong = {} THEN "green" ELSE "red")
  /\ CorpusStays /\ UNCHANGED <<rows, taken, busy, wrong, bytecode, mixed>>

(* Another command of the checkout compiles a file of the same stem.       *)
SomebodyCompiles(s) ==
  /\ phase \in {"compile", "rows"} /\ harness \in {"verify_behavior_corpus_vm", "sv0_doctest"}
  /\ ~mixed /\ mixed' = TRUE
  /\ bytecode' = [bytecode EXCEPT ![s] = Stranger]
  /\ CorpusStays /\ UNCHANGED <<phase, rows, taken, busy, wrong, verdict>>

CorpusNext ==
  \/ FindTools \/ ReadManifest \/ CompiledAll \/ Report
  \/ \E i \in rows : CompileRow(i) \/ TakeRow(i) \/ FinishRow(i)
  \/ \E s \in VmStem : SomebodyCompiles(s)

CorpusSpec == CorpusInit /\ [][CorpusNext]_corpusVars
-----------------------------------------------------------------------------
(* Properties.                                                             *)

(* What a row has to be for its harness to be right about it, said of its  *)
(* own program, whatever lies in the shared directory.                     *)
Keeps(l) ==
  IsRow(l) /\
  CASE harness \in {"verify_behavior_corpus_vm", "sv0_doctest"} ->
         /\ l.there /\ l.number /\ l.vm.does = "ok"
         /\ l.want = IF harness = "sv0_doctest" THEN l.vm.exit ELSE LowByte(l.vm.exit)
    [] harness = "verify_ffi_regression_corpus" -> l.built => l.clean
    [] harness = "verify_corpus" ->
         /\ l.exit = 0 /\ l.contracts # << >>
         /\ {<<c.line, c.status>> : c \in {l.contracts[i] : i \in DOMAIN l.contracts}}
              = {<<n, l.annotated[n]>> : n \in Annotated(l)}
    [] harness = "verify_determinism" -> \A i \in DOMAIN lines : lines[i].exit = 0 /\ lines[i].output = l.output
    [] harness \in ReadsFirst \ Batched ->
         /\ l.there /\ l.emit = "ok" /\ l.link /\ l.number /\ l.exit = l.want
         /\ harness = "native_exe_release_parity" =>
              l.known \/ l.fast = [exit |-> l.exit, wrote |-> l.wrote]
         /\ harness = "native_exe_sanitizer_corpus" =>
              \/ {"overflow", "finding"} \intersect l.noise = {}
              \/ l.known /\ "overflow" \in l.noise
    [] harness = "vm_behavioral_parity" ->
         /\ l.there /\ l.emit = "ok" /\ l.link /\ ~l.prints /\ l.vm.does = "ok"
         /\ (l.vm.exit - l.exit) % 256 = 0
    [] harness = "verify_diagnostics_corpus_layout" -> l.there
    [] harness = "verify_diagnostics_corpus_behavior" -> l.smlSays
    [] harness = "verify_string_alloc_failure" ->
         /\ \/ l.exit = l.want
            \/ l.side = "vm" /\ \E unit \in {10, 100} : l.exit \in unit * l.want .. unit * l.want + unit - 1
         /\ l.panics \/ l.want # 1
    [] harness \in {"verify_diagnostics_corpus_behavior_native", "verify_vm_ffi_gate"} ->
         l.emit # "ok" /\ l.says /\ (harness = "verify_vm_ffi_gate" => l.there)
    [] harness = "verify_contract_toml" -> IF l.flag THEN l.left = 2 ELSE l.left = 1
    [] harness = "verify_contract_mode" ->
         l.exit = 0 /\ l.link /\ l.left.requires = 2 /\ l.left.runtime = 2 /\ l.left.verified = 1
    [] harness = "verify_z3_driver" ->
         /\ l.exit = 0 /\ Len(l.output) = Len(l.want)
         /\ \A i \in DOMAIN l.want : l.output[i] = l.want[i]
    [] OTHER ->
         /\ l.exit = 0 /\ "verified" \notin l.requires /\ l.summary[1] = 2 /\ l.summary[2] = 5
         /\ Len(l.ensures) = 3 /\ {i \in 1 .. 3 : l.ensures[i] = "verified"} = {1, 3}

(* Nobody else compiled for the VM, no two rows of the VM corpus have one  *)
(* stem, and nothing that runs on the VM failed to compile without a word. *)
OwnBytecode ==
  /\ ~mixed
  /\ harness \in Batched =>
       \A i, j \in rows : i # j => lines[i].stem # lines[j].stem
  /\ harness \in Batched \union {"sv0_doctest"} => \A i \in rows : lines[i].vm.does # "silent"

(* Green means that every row the harness is about keeps what it promises, *)
(* and red that something is missing or some row does not, in whatever     *)
(* order the jobs end and wherever the harness stops.  The one fixture     *)
(* that is known promises less: instrumented, that its known finding is    *)
(* there, whatever else is; released, nothing beyond the exit of the other *)
(* build.                                                                  *)
VerdictsAreEarned ==
  phase = "done" /\ OwnBytecode =>
    LET mine == {i \in DOMAIN lines : Selects(harness, lines[i])}
    IN /\ verdict = "green" => \A i \in mine : Keeps(lines[i])
       /\ verdict = "red" =>
            \/ Lacks \/ ~tools.probe \/ \E i \in mine : ~Keeps(lines[i])
            \/ harness = "verify_diagnostics_corpus_layout" /\ mine = {}
            \/ harness = "verify_ffi_regression_corpus" /\ \E i \in mine : ~lines[i].built
=============================================================================
