------------------------------ MODULE Request ------------------------------
(***************************************************************************)
(* From a command line to a build, and what is reported of it.             *)
(*                                                                         *)
(* native_exe_cli.parse_args reads the command line one token at a time;   *)
(* native_exe_request.normalize_request merges it with the sv0.toml beside *)
(* the input; native_exe_coverage.resolve places the coverage map among    *)
(* the other outputs; then the input, the output and the C compiler are    *)
(* settled, and the core compiler is told what to do by one line of text   *)
(* (native_exe_core_compiler) that it takes apart again.  The C compiler   *)
(* is given its command, and what was done is reported in the build record *)
(* and the JSON event.  Whether the steps succeed is NativeBuild's part.   *)
(***************************************************************************)
EXTENDS SourceText, Functions, TLC

CONSTANTS
  Case,   \* what a build may start from: [argv, toml, disk, env, chain]
  Split,  \* the tokens with a "=": token -> <<option, value>>
  Path    \* the tokens that can be operands: token -> path

(* argv is a sequence of tokens; toml what is found beside the input, [ok, *)
(* build, kinds], the kinds of values it holds; disk has dirs, links, execs and files, from paths to sources    *)
(* (the text and what is true of it: how many mains it declares and        *)
(* whether they and its other names are sound); env is [SV0_CC, CC, path]; *)
(* chain is what the installation and the C compiler are like.             *)

(* A path is a sequence of names below the working directory; a name is    *)
(* the sequence of its parts between dots.                                 *)
ASSUME RequestAssumption ==
  /\ \A t \in DOMAIN Split : Len(Split[t]) = 2
  /\ \A t \in DOMAIN Path : Path[t] # << >>
  /\ \A c \in Case : << >> \in c.disk.dirs

VARIABLES
  argv,
  toml, disk, env, chain,
  pc,
  rest,     \* the tokens not read yet
  over,     \* "--" has been read
  given,    \* option -> value, for the options read so far
  operands,
  request,
  map,      \* where the coverage map goes: {} or one path
  made,     \* a directory made for the output
  cc,       \* the tier the C compiler came from
  control,  \* what the core compiler is told
  heard,    \* its coverage request: {} or one
  command,  \* what the C compiler is told: {} or one command
  written,  \* the build record: {} or one
  event,    \* what is printed with --message-format=json: {} or one
  exit

worldVars   == <<argv, toml, disk, env, chain>>
parseVars   == <<rest, over, given, operands>>
doneVars    == <<control, heard, command, written, event>>
resolveVars == <<request, map, made, cc, doneVars>>
requestVars == <<worldVars, pc, parseVars, resolveVars, exit>>

ScalarValue   == {"-o", "--project", "--cc", "--coverage-map",
                  "--coverage-max-counters", "--coverage-max-bytes"}
ScalarEquals  == {"--profile", "--contract-mode", "--emit", "--message-format",
                  "--coverage", "--coverage-tier"}
OptionalValue == {"--keep-c", "--build-record"}
Flag          == {"--verbose", "--quiet"}
Known         == ScalarValue \union ScalarEquals \union OptionalValue \union Flag
Bare          == "bare"

(* The values parse_args itself insists on.                                *)
Allowed == [opt \in {"--emit", "--message-format", "--coverage", "--coverage-tier"} |->
  CASE opt = "--emit"           -> {"exe", "c"}
    [] opt = "--message-format" -> {"human", "json"}
    [] opt = "--coverage"       -> {"off", "map", "instrument"}
    [] opt = "--coverage-tier"  -> {"standard", "large", "custom"}]

NoRequest == [kind |-> "none"]

StartsFrom(c) ==
  /\ argv = c.argv /\ toml = c.toml /\ disk = c.disk /\ env = c.env /\ chain = c.chain
  /\ pc = "parse"
  /\ rest = argv /\ over = FALSE /\ given = << >> /\ operands = << >>
  /\ request = NoRequest /\ map = {} /\ made = FALSE /\ cc = "none"
  /\ control = << >> /\ heard = {} /\ command = {} /\ written = {} /\ event = {}
  /\ exit = 0

RequestInit == \E c \in Case : StartsFrom(c)

-----------------------------------------------------------------------------
(* native_exe_cli.parse_args.                                              *)

Stop(code) == pc' = "exit" /\ exit' = code

UsageError == Stop(2) /\ UNCHANGED <<worldVars, parseVars, resolveVars>>

Reading(t) == pc = "parse" /\ ~over /\ rest # << >> /\ Head(rest) = t

Take(n) == rest' = SubSeq(rest, n + 1, Len(rest))

Give(opt, value) ==
  given' = [o \in DOMAIN given \union {opt} |-> IF o = opt THEN value ELSE given[o]]

ReadsOn == UNCHANGED <<worldVars, pc, resolveVars, exit>>

Value(opt, default) == IF opt \in DOMAIN given THEN given[opt] ELSE default

EndOptions ==
  /\ Reading("--") /\ Take(1) /\ over' = TRUE
  /\ ReadsOn /\ UNCHANGED <<given, operands>>

Trailing ==
  /\ pc = "parse" /\ over /\ rest # << >>
  /\ operands' = Append(operands, Head(rest)) /\ Take(1)
  /\ ReadsOn /\ UNCHANGED <<over, given>>

(* The token after the option is its value, whatever it looks like.        *)
BadValue(opt, value) == opt \in {"-o", "--coverage-map"} /\ value \in {"", "-"}

ScalarOption_dashIsOption(opt) ==
  /\ Reading(opt)
  /\ IF opt \in DOMAIN given \/ Len(rest) < 2 \/ rest[2] \in Flag \/ BadValue(opt, rest[2])
     THEN UsageError
     ELSE Give(opt, rest[2]) /\ Take(2) /\ ReadsOn /\ UNCHANGED <<over, operands>>

ScalarOption(opt) ==
  /\ Reading(opt)
  /\ IF opt \in DOMAIN given \/ Len(rest) < 2 \/ BadValue(opt, rest[2])
     THEN UsageError
     ELSE Give(opt, rest[2]) /\ Take(2) /\ ReadsOn /\ UNCHANGED <<over, operands>>

BadChoice(opt, value) ==
  value = "" \/ (opt \in DOMAIN Allowed /\ value \notin Allowed[opt])

EqualsOption(t) ==
  LET opt == Split[t][1]
      value == Split[t][2]
  IN /\ Reading(t)
     /\ IF opt \in DOMAIN given \/ BadChoice(opt, value)
        THEN UsageError
        ELSE Give(opt, value) /\ Take(1) /\ ReadsOn /\ UNCHANGED <<over, operands>>

(* --keep-c and --build-record, bare or with a path.                       *)
OptionalOption(t) ==
  LET opt == IF t \in DOMAIN Split THEN Split[t][1] ELSE t
      value == IF t \in DOMAIN Split THEN Split[t][2] ELSE Bare
  IN /\ Reading(t)
     /\ IF opt \in DOMAIN given \/ value = ""
        THEN UsageError
        ELSE Give(opt, value) /\ Take(1) /\ ReadsOn /\ UNCHANGED <<over, operands>>

FlagOption(t) ==
  /\ Reading(t) /\ Give(t, Bare) /\ Take(1)
  /\ ReadsOn /\ UNCHANGED <<over, operands>>

Operand(t) ==
  /\ Reading(t) /\ operands' = Append(operands, t) /\ Take(1)
  /\ ReadsOn /\ UNCHANGED <<over, given>>

(* --target=vm, and anything else that begins with a dash.                 *)
UnknownOption(t) == Reading(t) /\ UsageError

IsEquals(t, opts) == t \in DOMAIN Split /\ Split[t][1] \in opts

ReadToken ==
  rest # << >> /\
  LET t == Head(rest)
  IN IF t \in ScalarValue THEN ScalarOption(t)
     ELSE IF IsEquals(t, ScalarEquals) THEN EqualsOption(t)
     ELSE IF t \in OptionalValue \/ IsEquals(t, OptionalValue) THEN OptionalOption(t)
     ELSE IF t \in Flag THEN FlagOption(t)
     ELSE IF t \in DOMAIN Path THEN Operand(t)
     ELSE t # "--" /\ UnknownOption(t)

(* The checks over the whole command line.                                 *)
Conflict ==
  \/ Flag \subseteq DOMAIN given
  \/ /\ Value("--coverage", "off") = "off"
     /\ DOMAIN given \intersect {"--coverage-map", "--coverage-tier",
                                 "--coverage-max-counters", "--coverage-max-bytes"} # {}
  \/ /\ Value("--emit", "exe") = "c"
     /\ \/ "-o" \notin DOMAIN given
        \/ DOMAIN given \intersect OptionalValue # {}
        \/ Value("--message-format", "human") = "json"

(* Any token may come to be a value or, after "--", an operand.            *)
PathOf(t) == IF t \in DOMAIN Path THEN Path[t] ELSE <<<<t>>>>

(* A command line is a sequence of tokens.  No option is spelled with a    *)
(* "=", no operand is or begins with one (native_exe_cli.py:234), and no   *)
(* path is a word of the line the core compiler is given, as it is         *)
(* absolute there (native_exe_build.py:15).                                *)
ASSUME TokenAssumption ==
  /\ DOMAIN Split \intersect (ScalarValue \union OptionalValue \union Flag \union {"--"}) = {}
  /\ \A t \in DOMAIN Path : t \notin Known \union {"--"} /\ (t \in DOMAIN Split => Split[t][1] \notin Known)
  /\ \A c \in Case : /\ c.argv \in Seq(STRING)
                     /\ \A i \in DOMAIN c.argv, word \in {"--project", "--verified", "--disabled"} :
                          PathOf(c.argv[i]) # word

Suffix(path) == IF Len(Last(path)) > 1 THEN Last(Last(path)) ELSE ""

BadOperands ==
  IF "--project" \in DOMAIN given THEN operands # << >>
  ELSE Len(operands) # 1 \/ Suffix(PathOf(operands[1])) = "sv0b"

FinishParse ==
  /\ pc = "parse" /\ rest = << >>
  /\ IF Conflict \/ BadOperands THEN UsageError
     ELSE pc' = "normalize" /\ UNCHANGED <<worldVars, parseVars, resolveVars, exit>>

Parse == EndOptions \/ Trailing \/ (~over /\ ReadToken) \/ FinishParse

-----------------------------------------------------------------------------
(* native_exe_request.normalize_request, with native_exe_config.           *)

(* discover_config looks in the input's own directory and no further.      *)
ConfigDir(kind, input) == IF kind = "project" THEN input ELSE Front(input)

KnownKeys ==
  [key \in {"contract-mode", "profile", "c-compiler", "output-dir"} |-> "text"]
  @@ [key \in {"keep-c", "build-record"} |-> "yes or no"]

(* load_config: TOML with a table of known keys, each of its kind.         *)
ConfigLoads ==
  toml.ok /\ \A key \in DOMAIN toml.kinds : key \in DOMAIN KnownKeys /\ toml.kinds[key] = KnownKeys[key]

(* The command line, then sv0.toml, then the default.                      *)
Precedence(opt, key, default) ==
  IF opt \in DOMAIN given THEN given[opt]
  ELSE IF key \in DOMAIN toml.build THEN toml.build[key] ELSE default

Profiles == {"dev", "release"}
Modes    == {"runtime", "verified", "disabled"}

(* A path option of the command line, if it was given with a path.         *)
GivenPath(opt) == IF opt \in DOMAIN given /\ given[opt] # Bare THEN {PathOf(given[opt])} ELSE {}

Stem(kind, input) ==
  IF kind = "file" /\ Suffix(input) = "sv0" THEN Front(Last(input)) ELSE Last(input)

Configured(key, dir) == IF key \in DOMAIN toml.build THEN {dir \o toml.build[key]} ELSE {}

(* An option that asks for one more file: on the command line bare or with *)
(* a path, in sv0.toml as a yes or no.                                     *)
Asked(opt, key) == opt \in DOMAIN given \/ (key \in DOMAIN toml.build /\ toml.build[key])

Normalized ==
  LET kind  == IF "--project" \in DOMAIN given THEN "project" ELSE "file"
      input == PathOf(IF kind = "project" THEN given["--project"] ELSE operands[1])
      dir   == ConfigDir(kind, input)
      outputs == Configured("output-dir", dir)
  IN [kind    |-> kind,
      input   |-> input,
      output  |-> IF "-o" \in DOMAIN given THEN GivenPath("-o")
                  ELSE {Append(d, Stem(kind, input)) : d \in outputs},
      emit    |-> Value("--emit", "exe"),
      profile |-> Precedence("--profile", "profile", "dev"),
      mode    |-> Precedence("--contract-mode", "contract-mode", "runtime"),
      cc      |-> IF "--cc" \in DOMAIN given THEN GivenPath("--cc")
                  ELSE Configured("c-compiler", dir),
      keepC   |-> [asked |-> Asked("--keep-c", "keep-c"), path |-> GivenPath("--keep-c")],
      record  |-> [asked |-> Asked("--build-record", "build-record"),
                   path  |-> GivenPath("--build-record")]]

Normalize ==
  /\ pc = "normalize"
  /\ IF ~ConfigLoads THEN Stop(3) /\ UNCHANGED <<worldVars, parseVars, resolveVars>>
     ELSE IF Normalized.profile \notin Profiles \/ Normalized.mode \notin Modes
          THEN Stop(3) /\ UNCHANGED <<worldVars, parseVars, resolveVars>>
     ELSE /\ request' = Normalized /\ pc' = "coverage"
          /\ UNCHANGED <<worldVars, parseVars, map, made, cc, doneVars, exit>>

-----------------------------------------------------------------------------
(* native_exe_coverage.resolve, as native_exe_main.run calls it.           *)

Dotted(path, suffix) == Append(Front(path), Append(Last(path), suffix))

Artifact(r) == IF r.output # {} THEN CHOOSE p \in r.output : TRUE
               ELSE <<<<"build">>, <<"native">>, Stem(r.kind, r.input)>>

(* A bare request puts the file beside the artifact.                       *)
Companion(wish, r, suffix) ==
  IF ~wish.asked THEN {} ELSE IF wish.path # {} THEN wish.path ELSE {Dotted(Artifact(r), suffix)}

KeptC(r)  == Companion(r.keepC, r, "c")
Record(r) == Companion(r.record, r, "build-record.json")

Undotted(path) == Append(Front(path), Front(Last(path)))

DefaultMap(artifact) ==
  Dotted(IF Suffix(artifact) \in {"sv0b", "c"} THEN Undotted(artifact) ELSE artifact,
         "sv0covmap.json")

Binding(artifact) ==
  IF Value("--coverage", "off") = "instrument" /\ Suffix(artifact) = "sv0b"
  THEN {Dotted(Undotted(artifact), "sv0covbind.json")} ELSE {}

Real(path) == IF path \in DOMAIN disk.links THEN disk.links[path] ELSE path

Reals(paths) == {Real(p) : p \in paths}

(* custom needs both ceilings, each a number in range; the others neither. *)
Ceilings == {"--coverage-max-counters", "--coverage-max-bytes"}

TierName == Value("--coverage-tier", "standard")

BadTier ==
  IF TierName = "custom"
  THEN \E c \in Ceilings : c \notin DOMAIN given \/ given[c] \notin {"number", "huge"}
  ELSE Ceilings \intersect DOMAIN given # {}

ResolveCoverage ==
  LET artifact == Artifact(request)
      chosen   == IF "--coverage-map" \in DOMAIN given THEN GivenPath("--coverage-map")
                  ELSE {DefaultMap(artifact)}
      others   == {artifact} \union
                  (IF request.emit = "c" THEN {} ELSE KeptC(request) \union Record(request))
      binding  == Binding(artifact)
  IN /\ pc = "coverage"
     /\ IF Value("--coverage", "off") = "off"
        THEN pc' = "input" /\ UNCHANGED <<map, exit>>
        ELSE IF \/ BadTier
                \/ Reals(chosen) \intersect Reals(others) # {}
                \/ Reals(binding) \intersect Reals(others \union chosen) # {}
                \/ Reals(chosen \union binding) \intersect disk.dirs # {}
        THEN Stop(2) /\ UNCHANGED map
        ELSE pc' = "input" /\ map' = chosen /\ UNCHANGED exit
     /\ UNCHANGED <<worldVars, parseVars, request, made, cc, doneVars>>

-----------------------------------------------------------------------------
(* The steps before the core compiler runs.                                *)

Settled == UNCHANGED <<worldVars, parseVars, request, map, doneVars>>

GoOn(step) == pc' = step /\ UNCHANGED exit

(* A file must be a readable regular file with the right suffix.           *)
ValidateInput ==
  /\ pc = "input"
  /\ IF request.kind = "file"
        /\ (Suffix(request.input) # "sv0" \/ Real(request.input) \notin DOMAIN disk.files)
     THEN Stop(3) ELSE GoOn("entry")
  /\ Settled /\ UNCHANGED <<made, cc>>

(* discover_sv0_files: nothing under a name that begins with a dot.        *)
Sources(r) ==
  IF r.kind = "file" THEN {Real(r.input)}
  ELSE {p \in DOMAIN disk.files :
          /\ Suffix(p) = "sv0" /\ IsPrefix(r.input, p)
          /\ \A i \in Len(r.input) + 1 .. Len(p) : p[i][1] # ""}

ValidateEntry ==
  /\ pc = "entry"
  /\ IF EntryAccepted([p \in Sources(request) |-> disk.files[p].text])
     THEN GoOn("output") ELSE Stop(4)
  /\ Settled /\ UNCHANGED <<made, cc>>

(* Only the default output gets its directory made.                        *)
SettleOutput ==
  LET output == Artifact(request)
  IN /\ pc = "output"
     /\ IF \/ output \in DOMAIN disk.links \/ output \in disk.dirs
           \/ Front(output) \notin disk.dirs /\ request.output # {}
        THEN Stop(8) /\ UNCHANGED made
        ELSE /\ GoOn(IF request.emit = "c" THEN "compile" ELSE "runtime")
             /\ made' = (Front(output) \notin disk.dirs)
     /\ Settled /\ UNCHANGED cc

(* The runtime bundle of the installation, its manifest with the hashes of *)
(* its two files, the manifest of the entry adapter and, for an            *)
(* instrumented build, the coverage runtime.                               *)
RuntimeVerified ==
  /\ chain.bundle
  /\ chain.manifest.readable /\ chain.manifest.schema = 1 /\ chain.manifest.abi = 1
  /\ chain.manifest.header = chain.header /\ chain.manifest.source = chain.source
  /\ chain.entryAbi = 1

VerifyRuntime ==
  /\ pc = "runtime"
  /\ IF RuntimeVerified /\ (Value("--coverage", "off") = "instrument" => chain.coverageRuntime)
     THEN GoOn("cc") ELSE Stop(7)
  /\ Settled /\ UNCHANGED <<made, cc>>

(* select_cc: a tier that is set and leads nowhere is an error, never a    *)
(* reason to try the next.                                                 *)
SelectCc ==
  LET tier == IF request.cc # {} THEN "explicit"
              ELSE IF env.SV0_CC # "unset" THEN "SV0_CC"
              ELSE IF env.CC # "unset" THEN "CC" ELSE "PATH"
      found == CASE tier = "explicit" -> request.cc \subseteq disk.execs
                 [] tier = "PATH" -> env.path
                 [] OTHER -> env[tier] = "found"
  IN /\ pc = "cc"
     /\ IF found THEN GoOn("probe") /\ cc' = tier ELSE Stop(5) /\ UNCHANGED cc
     /\ Settled /\ UNCHANGED made

(* probe_compiler: the compiler tells its version, compiles and links a    *)
(* program, and the program runs.                                          *)
Probe ==
  /\ pc = "probe"
  /\ IF \A step \in {"version", "link", "run"} : step \in chain.probe
     THEN GoOn("compile") ELSE Stop(5)
  /\ Settled /\ UNCHANGED <<made, cc>>

Encode_projectMode(r) ==
  CASE r.mode = "disabled" -> <<"--disabled", r.input>>
    [] r.mode = "verified" -> <<"--verified", "", r.input>>
    [] r.kind = "project" -> <<"--project", r.input>>
    [] OTHER -> <<r.input>>

(* CoreCompilerRequest: the line of text for each kind of build.  No proof *)
(* file is ever named.                                                     *)
Encode(r) ==
  IF r.kind = "project" THEN <<"--project", r.input>>
  ELSE CASE r.mode = "disabled" -> <<"--disabled", r.input>>
         [] r.mode = "verified" -> <<"--verified", "", r.input>>
         [] OTHER -> <<r.input>>

(* Tier, as resolve_tier makes it: the ceilings the options give, or those *)
(* the tier comes with; a map of any but the standard tier may be as large *)
(* as a signed number of 32 bits can say.                                  *)
Ceiling(opt) == IF TierName = "custom" THEN given[opt] ELSE TierName

Tier ==
  [name |-> TierName, counters |-> Ceiling("--coverage-max-counters"),
   bytes |-> Ceiling("--coverage-max-bytes"),
   map |-> IF TierName = "standard" THEN "standard" ELSE "largest"]

(* The compiler is told the largest such number in place of a larger one.  *)
Told(ceiling) == IF ceiling = "huge" THEN "largest" ELSE ceiling

(* request_value, which child_env puts in place of anything inherited.     *)
CoverageRequest ==
  IF Value("--coverage", "off") = "off" THEN {}
  ELSE {[mode |-> given["--coverage"], map |-> map, tier |->
           IF Tier.name = "standard" THEN << >> ELSE <<Told(Tier.counters), Told(Tier.map)>>]}

(* CoreCompilerClient.invoke: two variables of an environment of its own.  *)
Invoke == control' = Encode(request) /\ heard' = CoverageRequest

Compile ==
  /\ pc = "compile" /\ GoOn(IF request.emit = "c" THEN "done" ELSE "host")
  /\ Invoke
  /\ UNCHANGED <<worldVars, parseVars, request, map, made, cc, command, written, event>>

(* compile_coverage_runtime: the runtime is compiled for the tier.         *)
CoverageRuntime == IF Tier.name = "standard" THEN << >> ELSE <<Tier.counters, Tier.bytes>>

(* build_dev_profile_argv and build_release_profile_argv.                  *)
BuildArgv(profile, linked) ==
  [compiler |-> cc, level |-> IF profile = "dev" THEN "-O0" ELSE "-O2", linked |-> linked]

HostCommand ==
  /\ pc = "host" /\ GoOn("report")
  /\ command' = {BuildArgv(request.profile,
                           IF Value("--coverage", "off") = "instrument" THEN {CoverageRuntime} ELSE {})}
  /\ UNCHANGED <<worldVars, parseVars, request, map, made, cc, control, heard, written, event>>

(* What was asked for is what is called effective.                         *)
BuildRecord ==
  [path |-> Artifact(request), kind |-> request.kind, root |-> request.input,
   profile |-> request.profile, requested |-> request.mode, effective |-> request.mode,
   compiler |-> cc,
   coverage |-> [mode |-> Value("--coverage", "off"), map |-> map,
                 tier |-> IF Value("--coverage", "off") = "off" THEN {} ELSE {Tier}]]

BuildEvent ==
  [input |-> request.input, output |-> Artifact(request), profile |-> request.profile,
   requested |-> request.mode, effective |-> request.mode, compiler |-> cc]

ReportBuild ==
  /\ pc = "report" /\ GoOn("done")
  /\ written' = IF request.record.asked THEN {BuildRecord} ELSE {}
  /\ event' = IF Value("--message-format", "human") = "json" THEN {BuildEvent} ELSE {}
  /\ UNCHANGED <<worldVars, parseVars, request, map, made, cc, control, heard, command>>

(* What the compiler makes of the line (the derived main of                *)
(* build-sv0-megatu-native.sh).                                            *)
Decoded(line) ==
  [kind  |-> IF line[1] = "--project" THEN "project" ELSE "file",
   input |-> Last(line),
   mode  |-> CASE line[1] = "--verified" -> "verified"
               [] line[1] = "--disabled" -> "disabled" [] OTHER -> "runtime"]

RequestNext ==
  \/ Parse \/ Normalize \/ ResolveCoverage
  \/ ValidateInput \/ ValidateEntry \/ SettleOutput
  \/ VerifyRuntime \/ SelectCc \/ Probe
  \/ Compile \/ HostCommand \/ ReportBuild

RequestSpec == RequestInit /\ [][RequestNext]_requestVars

-----------------------------------------------------------------------------
(* Properties.                                                             *)

(* What a command line means, token by place rather than token by token:   *)
(* which places hold the value of the option before them, where the        *)
(* options end, and what is then an option or an operand.                  *)
Place == 1 .. Len(argv)

IsValue == CHOOSE v \in SUBSET Place : \A i \in Place :
  i \in v <=> /\ i > 1 /\ i - 1 \notin v /\ argv[i - 1] \in ScalarValue
              /\ ~\E j \in 1 .. i - 1 : argv[j] = "--" /\ j \notin v

Dashes  == {i \in Place \ IsValue : argv[i] = "--" /\ \A j \in 1 .. i - 1 : argv[j] # "--" \/ j \in IsValue}
Options == {i \in Place \ (IsValue \union Dashes) : \A d \in Dashes : i < d}

OptionAt(i) == IF argv[i] \in DOMAIN Split THEN Split[argv[i]][1] ELSE argv[i]
ValueAt(i)  == IF argv[i] \in DOMAIN Split THEN Split[argv[i]][2]
               ELSE IF argv[i] \in ScalarValue THEN argv[i + 1] ELSE Bare

Words == {i \in Options : argv[i] \in DOMAIN Path} \union
         (Place \ (IsValue \union Dashes \union Options))

WellFormed ==
  \A i \in Options \ Words :
    /\ OptionAt(i) \in Known
    /\ OptionAt(i) \in ScalarEquals <=> IsEquals(argv[i], ScalarEquals)
    /\ OptionAt(i) \in ScalarValue \union Flag => argv[i] \notin DOMAIN Split
    /\ argv[i] \in ScalarValue => i < Len(argv) /\ ~BadValue(argv[i], argv[i + 1])
    /\ argv[i] \in DOMAIN Split => ~BadChoice(OptionAt(i), ValueAt(i))
    /\ OptionAt(i) \notin Flag =>
         \A j \in Options \ (Words \union {i}) : OptionAt(j) # OptionAt(i)

(* parse_args takes exactly the well-formed command lines and gives every  *)
(* option the value it stands beside, whatever the order: an option's      *)
(* value is never read as an option, and nothing after "--" is.            *)
ParseMeansGrammar ==
  /\ pc = "exit" /\ exit = 2 /\ request = NoRequest => ~WellFormed \/ Conflict \/ BadOperands
  /\ pc = "normalize" =>
       /\ WellFormed
       /\ DOMAIN given = {OptionAt(i) : i \in Options \ Words}
       /\ \A i \in Options \ Words : given[OptionAt(i)] = ValueAt(i)
       /\ Len(operands) = Cardinality(Words)

(* The files the build may write, when it starts, other than the map.      *)
Outputs == {Artifact(request)} \union
           (IF request.emit = "c" THEN {} ELSE KeptC(request) \union Record(request))

(* The coverage map never lands on another file of the build, through a    *)
(* link or by default.                                                     *)
MapIsItsOwn == pc \in {"compile", "host", "report", "done"} => Reals(map) \intersect Reals(Outputs) = {}

(* Every main of the sources is seen, and nothing else is taken for one:   *)
(* a build goes on exactly when its sources really declare one main, a     *)
(* sound one, and none of the names of the entry adapter.                  *)
EntryIsTheOneMain ==
  LET truths == {<<p, disk.files[p].mains>> : p \in Sources(request)}
      right  == /\ \E p \in Sources(request) : {t \in truths : t[2] # 0} = {<<p, 1>>}
                /\ \A p \in Sources(request) : disk.files[p].sound
  IN /\ pc \in {"output", "runtime", "cc", "probe", "compile", "host", "report", "done"} => right
     /\ exit = 4 => ~right

(* The compiler is told what was asked: it reads the input of the request  *)
(* and, for a file, checks contracts in the mode the build record and the  *)
(* events will call effective; and checks are left out only when the       *)
(* command line says so, or an sv0.toml that it does not overrule.         *)
CompilesWhatWasAsked ==
  pc = "done" =>
    LET told == Decoded(control)
    IN /\ told.kind = request.kind /\ told.input = request.input
       /\ request.kind = "file" => told.mode = request.mode
       /\ told.mode # "runtime" =>
            IF "--contract-mode" \in DOMAIN given THEN given["--contract-mode"] = told.mode
            ELSE toml.ok /\ toml.build["contract-mode"] = told.mode

(* No C compiler but the one the first tier that is set leads to is used.  *)
NamedCompilerOrNone ==
  cc # "none" =>
    /\ request.cc # {} => cc = "explicit" /\ request.cc \subseteq disk.execs
    /\ cc = "CC" => env.SV0_CC = "unset" /\ env.CC = "found"
    /\ cc = "PATH" => env.SV0_CC = "unset" /\ env.CC = "unset" /\ env.path

(* The core compiler, the coverage runtime that is linked in and the       *)
(* record are about one build: the same profile, compiler, contract mode   *)
(* (of a file), coverage mode and map; and what the compiler may plan is   *)
(* never more than what the runtime was compiled to write.                 *)
RecordTellsTheBuild ==
  \A c \in command :
    /\ c.linked # {} <=> \E h \in heard : h.mode = "instrument"
    /\ \A h \in heard, limits \in c.linked :
         IF h.tier = << >> THEN limits = << >>
         ELSE h.tier[1] = limits[1] \/ (h.tier[1] = "largest" /\ limits[1] = "huge")
    /\ \A r \in written :
         /\ r.compiler = c.compiler /\ (r.profile = "release" <=> c.level = "-O2")
         /\ r.kind = "file" => r.effective = Decoded(control).mode
         /\ r.coverage.mode = "off" <=> heard = {}
         /\ \A h \in heard : r.coverage.mode = h.mode /\ r.coverage.map = h.map
         /\ \A h \in heard, t \in r.coverage.tier : t.name = "standard" <=> h.tier = << >>
    /\ \A e \in event :
         /\ e.compiler = c.compiler /\ (e.profile = "release" <=> c.level = "-O2")
         /\ \A r \in written : e.output = r.path /\ e.input = r.root /\ e.effective = r.effective

(* No input, mode or compiler but those that were asked for, and no output *)
(* over another.                                                           *)
BuildsWhatWasAsked ==
  CompilesWhatWasAsked /\ NamedCompilerOrNone /\ MapIsItsOwn /\ RecordTellsTheBuild
=============================================================================
