---------------------------- MODULE AnswerProofs ----------------------------
(***************************************************************************)
(* What the tools that answer a question from what they read may be held   *)
(* to.                                                                     *)
(*                                                                         *)
(* Request, for any command lines, configurations, disks and environments: *)
(* what is built is what was asked for.  The invariant says of every stage *)
(* that what the stages before it have settled is a function of the        *)
(* command line and of what was found (RequestInd), so that the line the   *)
(* core compiler is told, the command of the C compiler, the record and    *)
(* the event are read off the same request.  And what the parser, token by *)
(* token, makes of a command line of any length is what its grammar, place *)
(* by place, says: the invariant (GrammarInd) compares the two on the      *)
(* tokens read so far; that the places that hold values are well defined   *)
(* is an induction over the places (ValuesExist).                          *)
(*                                                                         *)
(* TaskCatalogue, for any checkout: green guards mean that a question has  *)
(* one answer.  The guards are kept as facts about the checkout            *)
(* (CatalogueInd); that a meant milestone is found (MeantIsFound) and that *)
(* what stands below the title is in the section of the table              *)
(* (BelowTheTitle) are facts about the operators.                          *)
(*                                                                         *)
(* Release, for any number of versions, programs, sizes and costs: where a *)
(* clean tree was required, the revision that is named is the one that was *)
(* measured, though it is read later (ReleaseInd); and the budget is judged*)
(* rightly from captures each of whose labels met one mishap at most       *)
(* (BudgetInd): the median of three is the time of the two that met none   *)
(* (MedianOfThree), and the program of a label is one of the corpus        *)
(* (RankedIs).                                                             *)
(***************************************************************************)
EXTENDS Request, TaskCatalogue, Release, FiniteSetTheorems, SequenceTheorems, NaturalsInduction,
        WellFoundedInduction, TLAPS

-----------------------------------------------------------------------------
(* The least of some numbers, and a set with 0 and what comes after each.  *)

LEMMA LeastElement ==
  ASSUME NEW S \in SUBSET Nat, S # {}
  PROVE  \E x \in S : \A y \in S : x <= y
<1>1. PICK x \in S : \A y \in S : ~(<<y, x>> \in OpToRel(<, Nat))
  BY NatLessThanWellFounded, WFMin
<1>2. ASSUME NEW y \in S, y < x PROVE <<y, x>> \in OpToRel(<, Nat)
  BY <1>2 DEF OpToRel
<1>3. \A y \in S : ~(y < x) BY <1>1, <1>2, Zenon
<1>4. \A y \in S : x <= y BY <1>3
<1>5. QED BY <1>4

LEMMA UpToInduction ==
  ASSUME NEW n \in Nat, NEW S, 0 \in S, \A m \in 0 .. n : m \in S /\ m < n => m + 1 \in S
  PROVE  0 .. n \subseteq S
<1> DEFINE B == (0 .. n) \ S
<1> SUFFICES ASSUME B # {} PROVE FALSE
  OBVIOUS
<1>1. B \in SUBSET Nat OBVIOUS
<1>2. PICK x \in B : \A y \in B : x <= y
  <2> HIDE DEF B
  <2>1. QED BY <1>1, LeastElement
<1>3. x \in 0 .. n /\ x \notin S /\ x # 0 OBVIOUS
<1>4. x - 1 \in 0 .. n /\ x - 1 < n /\ (x - 1) + 1 = x /\ ~(x <= x - 1) BY <1>3
<1>5. x - 1 \in S BY <1>2, <1>4
<1>6. QED BY <1>3, <1>4, <1>5

-----------------------------------------------------------------------------
(* Request.                                                                *)

Token == {argv[i] : i \in DOMAIN argv}

Late   == {"coverage", "input", "entry", "output", "runtime", "cc", "probe",
           "compile", "host", "report", "done"}
Mapped == Late \ {"coverage"}

(* What is read, and what may be read yet, are tokens of the command line. *)
TokensAreRead ==
  /\ \E c \in Case : argv = c.argv
  /\ rest \in Seq(Token) /\ operands \in Seq(Token)
  /\ "--project" \in DOMAIN given => given["--project"] \in Token

RequestIsMade ==
  /\ pc = "normalize" => ~BadOperands
  /\ pc \in Late => /\ ~BadOperands /\ request = Normalized /\ toml.ok
                    /\ request.mode \in Modes /\ request.profile \in Profiles

MapIsApart ==
  /\ pc \in {"parse", "normalize", "coverage"} => map = {}
  /\ pc \in Mapped => Reals(map) \intersect Reals(Outputs) = {}

CompilerIsFound ==
  /\ pc \in {"parse", "normalize"} => cc = "none"
  /\ NamedCompilerOrNone

CompilerIsTold ==
  pc \in {"host", "report", "done"} => control = Encode(request) /\ heard = CoverageRequest

(* The command and the reports, as this request has them made.             *)
HostArgv ==
  BuildArgv(request.profile,
            IF Value("--coverage", "off") = "instrument" THEN {CoverageRuntime} ELSE {})

ReportsFollow ==
  /\ pc \notin {"report", "done"} => command = {}
  /\ pc # "done" => written = {} /\ event = {}
  /\ \A c \in command : c = HostArgv
  /\ (\A r \in written : r = BuildRecord) /\ \A e \in event : e = BuildEvent

RequestInd ==
  /\ TokensAreRead /\ RequestIsMade /\ MapIsApart
  /\ CompilerIsFound /\ CompilerIsTold /\ ReportsFollow

LEMMA RequestInitInd == RequestInit => RequestInd
<1> SUFFICES ASSUME NEW c \in Case, StartsFrom(c) PROVE RequestInd
  BY DEF RequestInit
<1> USE DEF StartsFrom
<1>1. TokensAreRead
  <2>1. argv \in Seq(STRING) BY TokenAssumption
  <2>2. argv \in Seq(Token) BY <2>1 DEF Token
  <2>3. QED BY <2>2 DEF TokensAreRead
<1>2. RequestIsMade BY DEF RequestIsMade, Late
<1>3. MapIsApart BY DEF MapIsApart, Mapped, Late
<1>4. CompilerIsFound BY DEF CompilerIsFound, NamedCompilerOrNone
<1>5. CompilerIsTold /\ ReportsFollow BY DEF CompilerIsTold, ReportsFollow
<1>6. QED BY <1>1, <1>2, <1>3, <1>4, <1>5 DEF RequestInd

(* The option that is given changes, the others stay.                      *)
LEMMA GivenAfter ==
  ASSUME NEW opt, NEW value, Give(opt, value)
  PROVE  /\ DOMAIN given' = DOMAIN given \union {opt}
         /\ \A o \in DOMAIN given \ {opt} : given'[o] = given[o]
         /\ given'[opt] = value
BY DEF Give

LEMMA TakenTokens ==
  ASSUME NEW n \in Nat, n <= Len(rest), Take(n), rest \in Seq(Token)
  PROVE  rest' \in Seq(Token)
BY DEF Take

(* Reading on: only the command line is taken apart further.               *)
Reads == UNCHANGED <<worldVars, resolveVars>> /\ pc = "parse" /\ pc' \in {"parse", "exit", "normalize"}

LEMMA ReadingKeepsTheRest ==
  ASSUME RequestInd, Reads, TokensAreRead', pc' = "normalize" => ~BadOperands'
  PROVE  RequestInd'
<1> USE DEF RequestInd, Reads, worldVars, resolveVars, doneVars
<1>1. RequestIsMade' BY DEF RequestIsMade, Late
<1>2. MapIsApart' BY DEF MapIsApart, Mapped, Late
<1>3. CompilerIsFound'
  BY DEF CompilerIsFound, NamedCompilerOrNone
<1>4. CompilerIsTold' /\ ReportsFollow' BY DEF CompilerIsTold, ReportsFollow
<1>5. QED BY <1>1, <1>2, <1>3, <1>4

LEMMA ParseInd == RequestInd /\ Parse => RequestInd'
<1> SUFFICES ASSUME RequestInd, Parse PROVE RequestInd' OBVIOUS
<1> USE DEF RequestInd
<1>0. /\ rest \in Seq(Token) /\ operands \in Seq(Token)
      /\ "--project" \in DOMAIN given => given["--project"] \in Token
  BY DEF TokensAreRead
<1>u. ASSUME UsageError, pc = "parse" PROVE RequestInd'
  <2> USE <1>u DEF UsageError, Stop, parseVars, worldVars
  <2>1. Reads BY DEF Reads
  <2>2. TokensAreRead' BY DEF TokensAreRead, Token
  <2>3. QED BY <2>1, <2>2, ReadingKeepsTheRest
<1>g. ASSUME NEW opt, NEW value, NEW n \in 1 .. 2, n <= Len(rest), Give(opt, value), Take(n),
             ReadsOn, pc = "parse", UNCHANGED operands,
             opt = "--project" => value \in Token
      PROVE RequestInd'
  <2>1. Reads BY <1>g DEF Reads, ReadsOn, worldVars
  <2>2. argv' = argv BY <2>1 DEF Reads, worldVars
  <2>3. rest' \in Seq(Token) BY <1>0, <1>g, TakenTokens
  <2>4. "--project" \in DOMAIN given' => given'["--project"] \in Token
    <3>1. /\ DOMAIN given' = DOMAIN given \union {opt}
          /\ \A o \in DOMAIN given \ {opt} : given'[o] = given[o]
          /\ given'[opt] = value
      BY <1>g, GivenAfter
    <3>2. CASE opt = "--project" BY <1>g, <3>1, <3>2
    <3>3. CASE opt # "--project" BY <1>0, <3>1, <3>3
    <3>4. QED BY <3>2, <3>3
  <2>5. TokensAreRead' BY <1>0, <1>g, <2>2, <2>3, <2>4 DEF TokensAreRead, Token
  <2>6. pc' # "normalize" BY <1>g DEF ReadsOn
  <2>7. QED BY <2>1, <2>5, <2>6, ReadingKeepsTheRest
<1>o. ASSUME Take(1), rest # << >>, ReadsOn, pc = "parse", UNCHANGED given,
             operands' \in {operands, Append(operands, Head(rest))}
      PROVE RequestInd'
  <2>1. Reads BY <1>o DEF Reads, ReadsOn, worldVars
  <2>2. argv' = argv BY <2>1 DEF Reads, worldVars
  <2>3. Head(rest) \in Token /\ 1 <= Len(rest) BY <1>0, <1>o
  <2>4. rest' \in Seq(Token) /\ operands' \in Seq(Token) BY <1>0, <1>o, <2>3, TakenTokens
  <2>5. TokensAreRead' BY <1>0, <1>o, <2>2, <2>4 DEF TokensAreRead, Token
  <2>6. pc' # "normalize" BY <1>o DEF ReadsOn
  <2>7. QED BY <2>1, <2>5, <2>6, ReadingKeepsTheRest
<1>1. CASE EndOptions BY <1>1, <1>o DEF EndOptions, Reading
<1>2. CASE Trailing BY <1>2, <1>o DEF Trailing
<1>3. CASE ~over /\ ReadToken
  <2> DEFINE t == Head(rest)
  <2>0. rest # << >> /\ t \in Token /\ 1 <= Len(rest) /\ rest[1] = t BY <1>0, <1>3 DEF ReadToken
  <2>1. CASE t \in ScalarValue
    <3>1. ScalarOption(t) BY <1>3, <2>1 DEF ReadToken
    <3>2. CASE t \in DOMAIN given \/ Len(rest) < 2 \/ BadValue(t, rest[2])
      BY <3>1, <3>2, <1>u DEF ScalarOption, Reading
    <3>3. CASE ~(t \in DOMAIN given \/ Len(rest) < 2 \/ BadValue(t, rest[2]))
      <4>1. 2 <= Len(rest) /\ rest[2] \in Token BY <1>0, <3>3
      <4>2. Give(t, rest[2]) /\ Take(2) /\ ReadsOn /\ UNCHANGED operands /\ pc = "parse"
        BY <3>1, <3>3 DEF ScalarOption, Reading
      <4>3. QED BY <4>1, <4>2, <1>g
    <3>4. QED BY <3>2, <3>3
  <2>2. CASE t \notin ScalarValue /\ IsEquals(t, ScalarEquals)
    <3> DEFINE opt == Split[t][1]
               value == Split[t][2]
    <3>1. EqualsOption(t) BY <1>3, <2>2 DEF ReadToken
    <3>2. CASE opt \in DOMAIN given \/ BadChoice(opt, value)
      BY <3>1, <3>2, <1>u DEF EqualsOption, Reading
    <3>3. CASE ~(opt \in DOMAIN given \/ BadChoice(opt, value))
      <4>1. Give(opt, value) /\ Take(1) /\ ReadsOn /\ UNCHANGED operands /\ pc = "parse"
        BY <3>1, <3>3 DEF EqualsOption, Reading
      <4>2. opt # "--project" BY <2>2 DEF IsEquals, ScalarEquals
      <4>3. QED BY <2>0, <4>1, <4>2, <1>g
    <3>4. QED BY <3>2, <3>3
  <2>3. CASE t \in OptionalValue \/ IsEquals(t, OptionalValue)
    <3> DEFINE opt == IF t \in DOMAIN Split THEN Split[t][1] ELSE t
               value == IF t \in DOMAIN Split THEN Split[t][2] ELSE Bare
    <3>0. CASE t \in ScalarValue \/ IsEquals(t, ScalarEquals) BY <3>0, <2>1, <2>2
    <3>1. CASE ~(t \in ScalarValue \/ IsEquals(t, ScalarEquals))
      <4>1. OptionalOption(t) BY <1>3, <2>3, <3>1 DEF ReadToken
      <4>2. CASE opt \in DOMAIN given \/ value = ""
        BY <4>1, <4>2, <1>u DEF OptionalOption, Reading
      <4>3. CASE ~(opt \in DOMAIN given \/ value = "")
        <5>1. Give(opt, value) /\ Take(1) /\ ReadsOn /\ UNCHANGED operands /\ pc = "parse"
          BY <4>1, <4>3 DEF OptionalOption, Reading
        <5>2. opt \in OptionalValue
          BY <2>3, TokenAssumption DEF IsEquals
        <5>3. opt # "--project" BY <5>2 DEF OptionalValue
        <5>4. QED BY <2>0, <5>1, <5>3, <1>g
      <4>4. QED BY <4>2, <4>3
    <3>2. QED BY <3>0, <3>1
  <2>4. CASE ~(t \in ScalarValue \/ IsEquals(t, ScalarEquals)
               \/ t \in OptionalValue \/ IsEquals(t, OptionalValue))
    <3>1. CASE t \in Flag
      <4>1. FlagOption(t) BY <1>3, <2>4, <3>1 DEF ReadToken
      <4>2. Give(t, Bare) /\ Take(1) /\ ReadsOn /\ UNCHANGED operands /\ pc = "parse" /\ t # "--project"
        BY <3>1, <4>1 DEF FlagOption, Reading, Flag
      <4>3. QED BY <2>0, <4>2, <1>g
    <3>2. CASE t \notin Flag /\ t \in DOMAIN Path
      <4>1. Operand(t) BY <1>3, <2>4, <3>2 DEF ReadToken
      <4>2. QED BY <2>0, <4>1, <1>o DEF Operand, Reading
    <3>3. CASE t \notin Flag /\ t \notin DOMAIN Path
      <4>1. UnknownOption(t) BY <1>3, <2>4, <3>3 DEF ReadToken
      <4>2. QED BY <4>1, <1>u DEF UnknownOption, Reading
    <3>4. QED BY <3>1, <3>2, <3>3
  <2>5. QED BY <2>1, <2>2, <2>3, <2>4
<1>4. CASE FinishParse
  <2>1. CASE Conflict \/ BadOperands BY <1>4, <2>1, <1>u DEF FinishParse
  <2>2. CASE ~(Conflict \/ BadOperands)
    <3> USE <1>4, <2>2 DEF FinishParse, worldVars, parseVars
    <3>1. Reads BY DEF Reads, worldVars
    <3>2. TokensAreRead' BY DEF TokensAreRead, Token
    <3>3. ~BadOperands' BY DEF BadOperands
    <3>4. QED BY <3>1, <3>2, <3>3, ReadingKeepsTheRest
  <2>3. QED BY <2>1, <2>2
<1>5. QED BY <1>1, <1>2, <1>3, <1>4 DEF Parse

-----------------------------------------------------------------------------

(* What is a function of the command line and of what was found stays as   *)
(* they stay.                                                              *)
LEMMA CommandLineStays ==
  ASSUME UNCHANGED <<worldVars, parseVars>>
  PROVE  UNCHANGED <<Normalized, Token>> /\ (BadOperands' <=> BadOperands)
BY DEF worldVars, parseVars, Normalized, Precedence, Asked, Configured, GivenPath, Value,
       Token, BadOperands

LEMMA OutputsStay ==
  ASSUME UNCHANGED <<worldVars, request>>
  PROVE  UNCHANGED Outputs /\ UNCHANGED Reals(Outputs)
<1>1. UNCHANGED Outputs BY DEF Outputs, Artifact, KeptC, Record
<1>2. QED BY <1>1 DEF worldVars, Reals, Real

LEMMA ReportsStay ==
  ASSUME UNCHANGED <<worldVars, parseVars, request, map, cc>>
  PROVE  /\ UNCHANGED <<Encode(request), CoverageRequest, HostArgv, BuildRecord, BuildEvent>>
         /\ UNCHANGED Reals(map)
<1> USE DEF worldVars, parseVars
<1>1. \A o, d : Value(o, d)' = Value(o, d) BY DEF Value
<1>2. UNCHANGED Artifact(request) BY DEF Artifact
<1>3. UNCHANGED Encode(request) BY DEF Encode
<1>4. UNCHANGED TierName BY <1>1 DEF TierName
<1>5. UNCHANGED Tier BY <1>4 DEF Tier, Ceiling
<1>6. UNCHANGED CoverageRequest BY <1>1, <1>5 DEF CoverageRequest
<1>7. UNCHANGED CoverageRuntime BY <1>5 DEF CoverageRuntime
<1>8. UNCHANGED HostArgv BY <1>1, <1>7 DEF HostArgv, BuildArgv
<1>9. UNCHANGED BuildRecord BY <1>1, <1>2, <1>5 DEF BuildRecord
<1>10. UNCHANGED BuildEvent BY <1>2 DEF BuildEvent
<1>11. UNCHANGED Reals(map) BY DEF Reals, Real
<1>12. QED BY <1>3, <1>6, <1>8, <1>9, <1>10, <1>11

(* Between the map and the core compiler nothing is written: the stages go *)
(* on or stop, and only the choice of a C compiler settles anything.       *)
Between == {"input", "entry", "output", "runtime", "cc", "probe"}

LEMMA BetweenKeepsTheRest ==
  ASSUME RequestInd, UNCHANGED <<worldVars, parseVars, request, map, doneVars>>,
         pc \in Between, pc' \in Between \union {"compile", "exit"},
         cc' = cc \/ NamedCompilerOrNone'
  PROVE  RequestInd'
<1> USE DEF RequestInd, Between
<1>0. UNCHANGED <<worldVars, parseVars, request, map, control, heard, command, written, event>>
  BY DEF doneVars
<1>1. UNCHANGED <<Normalized, Reals(map), Reals(Outputs), Token>> /\ (BadOperands' <=> BadOperands)
  <2>1. UNCHANGED <<Normalized, Token>> /\ (BadOperands' <=> BadOperands) BY <1>0, CommandLineStays
  <2>2. UNCHANGED Reals(Outputs) BY <1>0, OutputsStay
  <2>3. UNCHANGED Reals(map) BY <1>0 DEF worldVars, Reals, Real
  <2>4. QED BY <2>1, <2>2, <2>3
<1>2. TokensAreRead' BY <1>0, <1>1 DEF TokensAreRead, worldVars, parseVars
<1>3. RequestIsMade' BY <1>0, <1>1 DEF RequestIsMade, Late, worldVars
<1>4. MapIsApart' BY <1>1 DEF MapIsApart, Mapped, Late
<1>5. CompilerIsFound' BY <1>0 DEF CompilerIsFound, NamedCompilerOrNone, worldVars
<1>6. CompilerIsTold' /\ ReportsFollow' BY <1>0 DEF CompilerIsTold, ReportsFollow
<1>7. QED BY <1>2, <1>3, <1>4, <1>5, <1>6

LEMMA StagesInd ==
  ASSUME RequestInd,
         ValidateInput \/ ValidateEntry \/ SettleOutput \/ VerifyRuntime \/ SelectCc \/ Probe
  PROVE  RequestInd'
<1> USE DEF GoOn, Stop, Settled, Between
<1>1. CASE ValidateInput BY <1>1, BetweenKeepsTheRest DEF ValidateInput
<1>2. CASE ValidateEntry BY <1>2, BetweenKeepsTheRest DEF ValidateEntry
<1>3. CASE SettleOutput BY <1>3, BetweenKeepsTheRest DEF SettleOutput
<1>4. CASE VerifyRuntime BY <1>4, BetweenKeepsTheRest DEF VerifyRuntime
<1>5. CASE Probe BY <1>5, BetweenKeepsTheRest DEF Probe
<1>6. CASE SelectCc
  <2>1. cc' = cc \/ NamedCompilerOrNone'
    BY <1>6 DEF SelectCc, NamedCompilerOrNone, worldVars
  <2>2. QED BY <1>6, <2>1, BetweenKeepsTheRest DEF SelectCc
<1>7. QED BY <1>1, <1>2, <1>3, <1>4, <1>5, <1>6

LEMMA NormalizeInd == ASSUME RequestInd, Normalize PROVE RequestInd'
<1> USE DEF RequestInd, Normalize, Stop
<1>0. /\ pc = "normalize" /\ UNCHANGED <<worldVars, parseVars, map, made, cc, doneVars>>
      /\ \/ pc' = "exit" /\ UNCHANGED request
         \/ pc' = "coverage" /\ request' = Normalized /\ ConfigLoads
            /\ Normalized.mode \in Modes /\ Normalized.profile \in Profiles
  BY DEF resolveVars
<1>1. UNCHANGED <<Normalized, Token>> /\ (BadOperands' <=> BadOperands)
  BY <1>0, CommandLineStays
<1>2. TokensAreRead' BY <1>0, <1>1 DEF TokensAreRead, worldVars, parseVars
<1>3. RequestIsMade' BY <1>0, <1>1 DEF RequestIsMade, Late, worldVars, ConfigLoads
<1>4. MapIsApart' BY <1>0 DEF MapIsApart, Mapped, Late
<1>5. CompilerIsFound' BY <1>0 DEF CompilerIsFound, NamedCompilerOrNone
<1>6. CompilerIsTold' /\ ReportsFollow' BY <1>0 DEF CompilerIsTold, ReportsFollow, doneVars
<1>7. QED BY <1>2, <1>3, <1>4, <1>5, <1>6

LEMMA CoverageInd == ASSUME RequestInd, ResolveCoverage PROVE RequestInd'
<1> USE DEF RequestInd, Stop
<1>0. /\ pc = "coverage" /\ UNCHANGED <<worldVars, parseVars, request, made, cc, doneVars>>
      /\ pc' \in {"exit", "input"}
  BY DEF ResolveCoverage
<1>1. UNCHANGED <<Normalized, Token>> /\ (BadOperands' <=> BadOperands)
  BY <1>0, CommandLineStays
<1>2. TokensAreRead' BY <1>0, <1>1 DEF TokensAreRead, worldVars, parseVars
<1>3. RequestIsMade' BY <1>0, <1>1 DEF RequestIsMade, Late, worldVars
<1>4. ASSUME pc' = "input" PROVE Reals(map)' \intersect Reals(Outputs)' = {}
  <2>2. Reals(Outputs)' = Reals(Outputs) BY <1>0, OutputsStay
  <2>3. CASE map' = {} BY <2>3 DEF Reals
  <2>4. CASE Reals(map') \intersect Reals(Outputs) = {}
    <3>1. Reals(map)' = Reals(map') BY <1>0 DEF worldVars, Reals, Real
    <3>2. QED BY <2>2, <2>4, <3>1
  <2>5. CASE Value("--coverage", "off") = "off"
    BY <1>0, <1>4, <2>3, <2>5 DEF ResolveCoverage, MapIsApart
  <2>6. CASE Value("--coverage", "off") # "off"
    BY <1>0, <1>4, <2>4, <2>6 DEF ResolveCoverage, Outputs
  <2>7. QED BY <2>5, <2>6
<1>5. MapIsApart' BY <1>0, <1>4 DEF MapIsApart, Mapped, Late
<1>6. CompilerIsFound' BY <1>0 DEF CompilerIsFound, NamedCompilerOrNone, worldVars
<1>7. CompilerIsTold' /\ ReportsFollow' BY <1>0 DEF CompilerIsTold, ReportsFollow, doneVars
<1>8. QED BY <1>2, <1>3, <1>5, <1>6, <1>7

LEMMA CompileInd == ASSUME RequestInd, Compile PROVE RequestInd'
<1> USE DEF RequestInd, Compile, GoOn
<1>0. /\ pc = "compile" /\ pc' \in {"host", "done"}
      /\ UNCHANGED <<worldVars, parseVars, request, map, made, cc, command, written, event>>
      /\ control' = Encode(request) /\ heard' = CoverageRequest
  BY DEF Invoke
<1>1. /\ UNCHANGED <<Normalized, Token, Encode(request), CoverageRequest, Reals(map), Reals(Outputs)>>
      /\ BadOperands' <=> BadOperands
  BY <1>0, CommandLineStays, OutputsStay, ReportsStay
<1>2. TokensAreRead' BY <1>0, <1>1 DEF TokensAreRead, worldVars, parseVars
<1>3. RequestIsMade' BY <1>0, <1>1 DEF RequestIsMade, Late, worldVars
<1>4. MapIsApart' BY <1>0, <1>1 DEF MapIsApart, Mapped, Late
<1>5. CompilerIsFound' BY <1>0 DEF CompilerIsFound, NamedCompilerOrNone, worldVars
<1>6. CompilerIsTold' BY <1>0, <1>1 DEF CompilerIsTold
<1>7. ReportsFollow' BY <1>0 DEF ReportsFollow
<1>8. QED BY <1>2, <1>3, <1>4, <1>5, <1>6, <1>7

LEMMA ReportInd == ASSUME RequestInd, HostCommand \/ ReportBuild PROVE RequestInd'
<1> USE DEF RequestInd, GoOn
<1>0. /\ <<pc, pc'>> \in {<<"host", "report">>, <<"report", "done">>}
      /\ UNCHANGED <<worldVars, parseVars, request, map, made, cc, control, heard>>
  BY DEF HostCommand, ReportBuild
<1>1. /\ UNCHANGED <<Normalized, Token, Encode(request), CoverageRequest, Reals(map), Reals(Outputs)>>
      /\ UNCHANGED <<HostArgv, BuildRecord, BuildEvent>>
      /\ BadOperands' <=> BadOperands
  BY <1>0, CommandLineStays, OutputsStay, ReportsStay
<1>2. TokensAreRead' BY <1>0, <1>1 DEF TokensAreRead, worldVars, parseVars
<1>3. RequestIsMade' BY <1>0, <1>1 DEF RequestIsMade, Late, worldVars
<1>4. MapIsApart' BY <1>0, <1>1 DEF MapIsApart, Mapped, Late
<1>5. CompilerIsFound' BY <1>0 DEF CompilerIsFound, NamedCompilerOrNone, worldVars
<1>6. CompilerIsTold' BY <1>0, <1>1 DEF CompilerIsTold
<1>7. ReportsFollow'
  <2>1. CASE HostCommand
    <3>1. command' = {HostArgv} BY <2>1 DEF HostCommand, HostArgv
    <3>2. QED BY <2>1, <1>1, <3>1 DEF ReportsFollow, HostCommand
  <2>2. CASE ReportBuild BY <2>2, <1>1 DEF ReportsFollow, ReportBuild
  <2>3. QED BY <2>1, <2>2
<1>8. QED BY <1>2, <1>3, <1>4, <1>5, <1>6, <1>7

LEMMA RequestStepInd == RequestInd /\ [RequestNext]_requestVars => RequestInd'
<1> SUFFICES ASSUME RequestInd, [RequestNext]_requestVars PROVE RequestInd'
  OBVIOUS
<1>1. CASE UNCHANGED requestVars
  <2>0. UNCHANGED <<worldVars, parseVars, request, map, cc, control, heard, command, written, event, pc>>
    BY <1>1 DEF requestVars, resolveVars, doneVars
  <2>1. /\ UNCHANGED <<Normalized, Token, Encode(request), CoverageRequest, Reals(map), Reals(Outputs)>>
        /\ UNCHANGED <<HostArgv, BuildRecord, BuildEvent>>
        /\ BadOperands' <=> BadOperands
    BY <2>0, CommandLineStays, OutputsStay, ReportsStay
  <2> USE DEF RequestInd
  <2>2. TokensAreRead' BY <2>0, <2>1 DEF TokensAreRead, worldVars, parseVars
  <2>3. RequestIsMade' BY <2>0, <2>1 DEF RequestIsMade, worldVars
  <2>4. MapIsApart' BY <2>0, <2>1 DEF MapIsApart
  <2>5. CompilerIsFound' BY <2>0 DEF CompilerIsFound, NamedCompilerOrNone, worldVars
  <2>6. CompilerIsTold' BY <2>0, <2>1 DEF CompilerIsTold
  <2>7. ReportsFollow' BY <2>0, <2>1 DEF ReportsFollow
  <2>8. QED BY <2>2, <2>3, <2>4, <2>5, <2>6, <2>7
<1>2. CASE RequestNext
  BY <1>2, ParseInd, NormalizeInd, CoverageInd, StagesInd, CompileInd, ReportInd DEF RequestNext
<1>3. QED BY <1>1, <1>2

(* Every stage finds what the stages before it have settled as a function  *)
(* of the command line and of what was found.                              *)
THEOREM RequestInvariant == RequestSpec => []RequestInd
BY RequestInitInd, RequestStepInd, PTL DEF RequestSpec

(* The input is no word of the line, so the line is read as it was meant.  *)
LEMMA InputIsNoWord ==
  ASSUME TokensAreRead, ~BadOperands
  PROVE  Normalized.input \notin {"--project", "--verified", "--disabled"}
<1>1. \A t \in Token : PathOf(t) \notin {"--project", "--verified", "--disabled"}
  BY TokenAssumption DEF TokensAreRead, Token
<1>2. CASE "--project" \in DOMAIN given BY <1>1, <1>2 DEF TokensAreRead, Normalized
<1>3. CASE "--project" \notin DOMAIN given
  <2>1. Len(operands) = 1 BY <1>3 DEF BadOperands
  <2>2. operands[1] \in Token BY <2>1 DEF TokensAreRead
  <2>3. QED BY <1>1, <1>3, <2>2 DEF Normalized
<1>4. QED BY <1>2, <1>3

LEMMA LineIsRead ==
  ASSUME RequestInd, pc \in Late
  PROVE  LET told == Decoded(Encode(request))
         IN /\ told.kind = request.kind /\ told.input = request.input
            /\ request.kind = "file" => told.mode = request.mode
            /\ request.kind # "file" => told.mode = "runtime"
<1>1. /\ request.input \notin {"--project", "--verified", "--disabled"}
      /\ request.kind \in {"project", "file"} /\ request.mode \in {"runtime", "verified", "disabled"}
  <2>1. request = Normalized /\ request.mode \in Modes /\ ~BadOperands /\ TokensAreRead
    BY DEF RequestInd, RequestIsMade
  <2>2. request.input \notin {"--project", "--verified", "--disabled"} BY <2>1, InputIsNoWord
  <2>3. request.kind \in {"project", "file"} BY <2>1 DEF Normalized
  <2>4. QED BY <2>1, <2>2, <2>3 DEF Modes
<1>2. CASE request.kind = "project" BY <1>1, <1>2 DEF Encode, Decoded, Last
<1>3. CASE request.kind = "file" /\ request.mode = "disabled" BY <1>1, <1>3 DEF Encode, Decoded, Last
<1>4. CASE request.kind = "file" /\ request.mode = "verified" BY <1>1, <1>4 DEF Encode, Decoded, Last
<1>5. CASE request.kind = "file" /\ request.mode = "runtime" BY <1>1, <1>5 DEF Encode, Decoded, Last
<1>6. QED BY <1>1, <1>2, <1>3, <1>4, <1>5

LEMMA WhatWasAskedIsCompiled == RequestInd => CompilesWhatWasAsked
<1> SUFFICES ASSUME RequestInd, pc = "done" PROVE CompilesWhatWasAsked
  BY DEF CompilesWhatWasAsked
<1>1. control = Encode(request) BY DEF RequestInd, CompilerIsTold
<1>2. request = Normalized /\ toml.ok BY DEF RequestInd, RequestIsMade, Late
<1>3. request.mode = Precedence("--contract-mode", "contract-mode", "runtime")
  BY <1>2 DEF Normalized
<1>4. request.kind \in {"project", "file"} BY <1>2 DEF Normalized
<1>5. QED BY <1>1, <1>2, <1>3, <1>4, LineIsRead DEF Late, CompilesWhatWasAsked, Precedence

LEMMA ReportsAreOfOneBuild == RequestInd => RecordTellsTheBuild
<1> SUFFICES ASSUME RequestInd, NEW c \in command PROVE RecordTellsTheBuild
  BY DEF RecordTellsTheBuild
<1>1. /\ pc \in {"report", "done"} /\ c = HostArgv /\ command = {HostArgv}
      /\ heard = CoverageRequest /\ control = Encode(request)
      /\ written \subseteq {BuildRecord} /\ event \subseteq {BuildEvent}
      /\ request.profile \in Profiles
  BY DEF RequestInd, ReportsFollow, CompilerIsTold, RequestIsMade, Late
<1>2. c.linked # {} <=> \E h \in heard : h.mode = "instrument"
  <2>1. CASE Value("--coverage", "off") = "off"
    BY <1>1, <2>1 DEF HostArgv, BuildArgv, CoverageRequest
  <2>2. CASE Value("--coverage", "off") # "off"
    <3>1. given["--coverage"] = Value("--coverage", "off") BY <2>2 DEF Value
    <3>2. heard # {} /\ \A h \in heard : h.mode = Value("--coverage", "off")
      <4>1. \A h \in heard : h.mode = given["--coverage"] BY <1>1, <2>2 DEF CoverageRequest
      <4>2. heard # {} BY <1>1, <2>2 DEF CoverageRequest
      <4>3. QED BY <3>1, <4>1, <4>2
    <3>3. c.linked # {} <=> Value("--coverage", "off") = "instrument"
      BY <1>1 DEF HostArgv, BuildArgv
    <3>4. QED BY <3>2, <3>3
  <2>3. QED BY <2>1, <2>2
<1>3. \A h \in heard, limits \in c.linked :
         IF h.tier = << >> THEN limits = << >>
         ELSE h.tier[1] = limits[1] \/ (h.tier[1] = "largest" /\ limits[1] = "huge")
  BY <1>1 DEF HostArgv, BuildArgv, CoverageRequest, CoverageRuntime, Told
<1>4. ASSUME NEW r \in written
      PROVE  /\ r.compiler = c.compiler /\ (r.profile = "release" <=> c.level = "-O2")
             /\ r.kind = "file" => r.effective = Decoded(control).mode
             /\ r.coverage.mode = "off" <=> heard = {}
             /\ \A h \in heard : r.coverage.mode = h.mode /\ r.coverage.map = h.map
             /\ \A h \in heard, t \in r.coverage.tier : t.name = "standard" <=> h.tier = << >>
  <2>1. r = BuildRecord BY <1>1, <1>4
  <2>2. r.kind = "file" => r.effective = Decoded(control).mode
    BY <1>1, <2>1, LineIsRead DEF BuildRecord, Late
  <2>3. r.compiler = c.compiler BY <1>1, <2>1 DEF BuildRecord, HostArgv, BuildArgv
  <2>4. r.profile = "release" <=> c.level = "-O2"
    BY <1>1, <2>1 DEF BuildRecord, HostArgv, BuildArgv, Profiles
  <2>5. r.coverage.mode = "off" <=> heard = {}
    BY <1>1, <2>1 DEF BuildRecord, CoverageRequest
  <2>6. ASSUME NEW h \in heard
        PROVE  /\ r.coverage.mode = h.mode /\ r.coverage.map = h.map
               /\ \A t \in r.coverage.tier : t.name = "standard" <=> h.tier = << >>
    <3>1. Value("--coverage", "off") # "off" BY <1>1, <2>6 DEF CoverageRequest
    <3>2. given["--coverage"] = Value("--coverage", "off") BY <3>1 DEF Value
    <3>3. /\ h.mode = given["--coverage"] /\ h.map = map
          /\ h.tier = IF Tier.name = "standard" THEN << >> ELSE <<Told(Tier.counters), Told(Tier.map)>>
      BY <1>1, <2>6, <3>1 DEF CoverageRequest
    <3>4. r.coverage.mode = Value("--coverage", "off") /\ r.coverage.map = map /\ r.coverage.tier = {Tier}
      BY <2>1, <3>1 DEF BuildRecord
    <3>5. QED BY <3>2, <3>3, <3>4
  <2>7. QED BY <2>2, <2>3, <2>4, <2>5, <2>6
<1>5. ASSUME NEW e \in event
      PROVE  /\ e.compiler = c.compiler /\ (e.profile = "release" <=> c.level = "-O2")
             /\ \A r \in written : e.output = r.path /\ e.input = r.root /\ e.effective = r.effective
  <2>1. e = BuildEvent BY <1>1, <1>5
  <2>2. e.compiler = c.compiler /\ (e.profile = "release" <=> c.level = "-O2")
    BY <1>1, <2>1 DEF BuildEvent, HostArgv, BuildArgv, Profiles
  <2>3. \A r \in written : e.output = r.path /\ e.input = r.root /\ e.effective = r.effective
    BY <1>1, <2>1 DEF BuildEvent, BuildRecord
  <2>4. QED BY <2>2, <2>3
<1>6. \A d \in command : d = c BY <1>1
<1>7. QED BY <1>2, <1>3, <1>4, <1>5, <1>6 DEF RecordTellsTheBuild

(* What comes out of a command line and an sv0.toml is the build they ask  *)
(* for (native_exe_request.py:normalize_request and the stages after it):  *)
(* no input, contract mode or compiler but the one asked for, no output    *)
(* over another, and a record and an event about that build.               *)
THEOREM WhatWasAskedIsBuilt == RequestSpec => []BuildsWhatWasAsked
<1>1. RequestInd => BuildsWhatWasAsked
  <2>1. RequestInd => MapIsItsOwn
    BY DEF RequestInd, MapIsApart, Mapped, Late, MapIsItsOwn
  <2>2. RequestInd => NamedCompilerOrNone BY DEF RequestInd, CompilerIsFound
  <2>3. QED BY <2>1, <2>2, WhatWasAskedIsCompiled, ReportsAreOfOneBuild DEF BuildsWhatWasAsked
<1>2. QED BY <1>1, RequestInvariant, PTL

-----------------------------------------------------------------------------
(* The grammar of the command line.                                        *)

(* The places up to i decide whether i holds a value.                      *)
Follows(i, v) ==
  /\ i > 1 /\ i - 1 \notin v /\ argv[i - 1] \in ScalarValue
  /\ ~\E j \in 1 .. i - 1 : argv[j] = "--" /\ j \notin v

LEMMA ValuesExist ==
  ASSUME argv \in Seq(STRING)
  PROVE  /\ IsValue \in SUBSET Place
         /\ \A i \in Place : i \in IsValue <=> Follows(i, IsValue)
<1> DEFINE n == Len(argv)
           Right(v, m) == \A i \in 1 .. m : i \in v <=> Follows(i, v)
           S == {m \in 0 .. n : \E v \in SUBSET (1 .. m) : Right(v, m)}
<1>1. n \in Nat OBVIOUS
<1>2. 0 \in S
  <2>1. {} \in SUBSET (1 .. 0) /\ Right({}, 0) OBVIOUS
  <2>2. QED BY <1>1, <2>1
<1>3. ASSUME NEW m \in 0 .. n, m \in S, m < n PROVE m + 1 \in S
  <2>1. PICK v \in SUBSET (1 .. m) : Right(v, m) BY <1>3
  <2> DEFINE w == IF Follows(m + 1, v) THEN v \union {m + 1} ELSE v
  <2>2. w \in SUBSET (1 .. m + 1) BY <1>1
  <2>3. \A j \in 1 .. m : j \in w <=> j \in v BY <1>1
  <2>4. m + 1 \in w <=> Follows(m + 1, v) BY <1>1
  <2> HIDE DEF w
  <2>5. ASSUME NEW i \in 1 .. m + 1 PROVE Follows(i, w) <=> Follows(i, v)
    <3>1. \A j \in 1 .. i - 1 : j \in 1 .. m BY <1>1
    <3>2. \A j \in 1 .. i - 1 : j \in w <=> j \in v BY <2>3, <3>1
    <3>3. i > 1 => (i - 1 \in w <=> i - 1 \in v) BY <3>2
    <3>4. QED BY <3>2, <3>3 DEF Follows
  <2>6. ASSUME NEW i \in 1 .. m + 1 PROVE i \in w <=> Follows(i, w)
    <3>1. i \in 1 .. m \/ i = m + 1 BY <1>1
    <3>2. CASE i \in 1 .. m BY <2>1, <2>3, <2>5, <3>2
    <3>3. CASE i = m + 1 BY <2>4, <2>5, <3>3
    <3>4. QED BY <3>1, <3>2, <3>3
  <2>7. Right(w, m + 1) BY <2>6
  <2>8. m + 1 \in 0 .. n BY <1>1, <1>3
  <2>9. QED BY <2>2, <2>7, <2>8
<1>4. n \in S
  <2> HIDE DEF S
  <2>1. 0 .. n \subseteq S BY <1>1, <1>2, <1>3, UpToInduction
  <2>2. QED BY <1>1, <2>1
<1>5. PICK u \in SUBSET Place : \A i \in Place : i \in u <=> Follows(i, u) BY <1>4 DEF Place
<1>6. \E v \in SUBSET Place : \A i \in Place :
        i \in v <=> /\ i > 1 /\ i - 1 \notin v /\ argv[i - 1] \in ScalarValue
                    /\ ~\E j \in 1 .. i - 1 : argv[j] = "--" /\ j \notin v
  BY <1>5 DEF Follows
<1>7. QED BY <1>6 DEF IsValue, Follows

LEMMA PlacesStay ==
  ASSUME UNCHANGED argv
  PROVE  /\ UNCHANGED <<Place, IsValue, Dashes, Options, Words, WellFormed>>
         /\ \A i : OptionAt(i)' = OptionAt(i) /\ ValueAt(i)' = ValueAt(i)
<1>1. UNCHANGED Place BY DEF Place
<1>2. UNCHANGED IsValue BY <1>1 DEF IsValue
<1>3. UNCHANGED Dashes BY <1>1, <1>2 DEF Dashes
<1>4. UNCHANGED Options BY <1>1, <1>2, <1>3 DEF Options
<1>5. \A i : OptionAt(i)' = OptionAt(i) BY DEF OptionAt
<1>6. \A i : ValueAt(i)' = ValueAt(i) BY DEF ValueAt
<1>7. UNCHANGED Words BY <1>1, <1>2, <1>3, <1>4 DEF Words
<1>8. UNCHANGED WellFormed BY <1>4, <1>5, <1>6, <1>7 DEF WellFormed
<1>9. QED BY <1>1, <1>2, <1>3, <1>4, <1>5, <1>6, <1>7, <1>8

(* An option that stands well, apart from being the only one of its kind.  *)
Sound(i) ==
  /\ OptionAt(i) \in Known
  /\ OptionAt(i) \in ScalarEquals <=> IsEquals(argv[i], ScalarEquals)
  /\ OptionAt(i) \in ScalarValue \union Flag => argv[i] \notin DOMAIN Split
  /\ argv[i] \in ScalarValue => i < Len(argv) /\ ~BadValue(argv[i], argv[i + 1])
  /\ argv[i] \in DOMAIN Split => ~BadChoice(OptionAt(i), ValueAt(i))

Alone(i, S) == OptionAt(i) \notin Flag => \A j \in S \ {i} : OptionAt(j) # OptionAt(i)

(* The options and the operands among the first n tokens.                  *)
Seen(n) == {i \in Options \ Words : i <= n}

Said(n) == {i \in Words : i <= n}

(* What has been made of the first n tokens.                               *)
Parsed(n) ==
  /\ n + 1 \notin IsValue
  /\ over => \E d \in Dashes : d <= n
  /\ ~over => \A j \in 1 .. n : argv[j] = "--" => j \in IsValue
  /\ DOMAIN given = {OptionAt(i) : i \in Seen(n)}
  /\ \A i \in Seen(n) : given[OptionAt(i)] = ValueAt(i) /\ Sound(i) /\ Alone(i, Seen(n))
  /\ Len(operands) = Cardinality(Said(n))

Refused == ~WellFormed \/ Conflict \/ BadOperands

GrammarInd ==
  /\ pc = "parse" => \E n \in 0 .. Len(argv) : rest = SubSeq(argv, n + 1, Len(argv)) /\ Parsed(n)
  /\ pc = "normalize" => Parsed(Len(argv))
  /\ pc = "exit" /\ exit = 2 /\ request = NoRequest => Refused

LEMMA WholeLineIsParsed == ASSUME argv \in Seq(STRING), Parsed(Len(argv)) PROVE
  /\ WellFormed
  /\ DOMAIN given = {OptionAt(i) : i \in Options \ Words}
  /\ \A i \in Options \ Words : given[OptionAt(i)] = ValueAt(i)
  /\ Len(operands) = Cardinality(Words)
<1>1. Seen(Len(argv)) = Options \ Words /\ Said(Len(argv)) = Words
  <2>1. Options \subseteq Place /\ Words \subseteq Place BY DEF Options, Words
  <2>2. \A i \in Place : i <= Len(argv) BY DEF Place
  <2>3. QED BY <2>1, <2>2 DEF Seen, Said
<1>2. \A i \in Options \ Words : Sound(i) /\ Alone(i, Options \ Words) BY <1>1 DEF Parsed
<1>3. WellFormed BY <1>2 DEF WellFormed, Sound, Alone
<1>4. QED BY <1>1, <1>3 DEF Parsed

LEMMA GrammarIsMeant == RequestInd /\ GrammarInd => ParseMeansGrammar
<1> SUFFICES ASSUME RequestInd, GrammarInd PROVE ParseMeansGrammar
  OBVIOUS
<1>1. argv \in Seq(STRING) BY TokenAssumption DEF RequestInd, TokensAreRead
<1>2. QED BY <1>1, WholeLineIsParsed DEF GrammarInd, Refused, ParseMeansGrammar

LEMMA GrammarInitInd == RequestInit => GrammarInd
<1> SUFFICES ASSUME NEW c \in Case, StartsFrom(c) PROVE GrammarInd
  BY DEF RequestInit
<1>1. argv \in Seq(STRING) BY TokenAssumption DEF StartsFrom
<1>2. rest = SubSeq(argv, 0 + 1, Len(argv)) /\ 0 \in 0 .. Len(argv) BY <1>1 DEF StartsFrom
<1>3. Seen(0) = {} /\ Said(0) = {}
  <2>1. Options \subseteq Place /\ Words \subseteq Place BY DEF Options, Words
  <2>2. \A i \in Place : ~(i <= 0) BY <1>1 DEF Place
  <2>3. QED BY <2>1, <2>2 DEF Seen, Said
<1>4. 0 + 1 \notin IsValue
  <2>1. ~Follows(1, IsValue) BY DEF Follows
  <2>2. QED BY <1>1, <2>1, ValuesExist
<1>5. Parsed(0)
  <2>1. DOMAIN given = {} /\ Len(operands) = 0 /\ ~over BY DEF StartsFrom
  <2>2. Cardinality(Said(0)) = 0 BY <1>3, FS_EmptySet
  <2>3. QED BY <1>3, <1>4, <2>1, <2>2 DEF Parsed
<1>6. QED BY <1>2, <1>5 DEF GrammarInd, StartsFrom

-----------------------------------------------------------------------------
(* The token that is read next.                                            *)

LEMMA WhatIsLeft ==
  ASSUME NEW S, NEW s \in Seq(S), NEW n \in 0 .. Len(s)
  PROVE  /\ SubSeq(s, n + 1, Len(s)) \in Seq(S) /\ Len(SubSeq(s, n + 1, Len(s))) = Len(s) - n
         /\ \A i \in 1 .. Len(s) - n : SubSeq(s, n + 1, Len(s))[i] = s[n + i]
<1> DEFINE m == Len(s)
           k == n + 1
<1>1. m \in Nat /\ \A i \in 1 .. m : s[i] \in S BY LenProperties, ElementOfSeq
<1>2. k \in Int /\ m \in Int /\ \A i \in k .. m : s[i] \in S BY <1>1
<1>3. /\ (m - k) + 1 = m - n /\ (IF k <= m THEN m - k + 1 ELSE 0) = m - n
      /\ \A i \in 1 .. m - n : k + i - 1 = n + i
  BY <1>1
<1> HIDE DEF k, m
<1>4. /\ SubSeq(s, k, m) \in Seq(S) /\ Len(SubSeq(s, k, m)) = (IF k <= m THEN m - k + 1 ELSE 0)
      /\ \A i \in 1 .. m - k + 1 : SubSeq(s, k, m)[i] = s[k + i - 1]
  BY <1>2, SubSeqProperties
<1>5. \A i \in 1 .. m - n : SubSeq(s, k, m)[i] = s[n + i] BY <1>3, <1>4
<1>6. QED BY <1>3, <1>4, <1>5 DEF k, m

LEMMA RestIs ==
  ASSUME argv \in Seq(STRING), NEW n \in 0 .. Len(argv), rest = SubSeq(argv, n + 1, Len(argv))
  PROVE  /\ Len(rest) = Len(argv) - n /\ (rest = << >> <=> n = Len(argv))
         /\ n < Len(argv) => Head(rest) = argv[n + 1]
         /\ n + 1 < Len(argv) => rest[2] = argv[n + 2]
         /\ \A k \in 1 .. 2 : k <= Len(rest) /\ Take(k) => rest' = SubSeq(argv, n + k + 1, Len(argv))
<1> DEFINE m == Len(argv)
<1>1. m \in Nat BY LenProperties
<1>2. rest \in Seq(STRING) /\ Len(rest) = m - n /\ \A i \in 1 .. m - n : rest[i] = argv[n + i]
  BY WhatIsLeft
<1> HIDE DEF m
<1>3. rest = << >> <=> n = m
  <2>1. rest = << >> <=> Len(rest) = 0 BY <1>2, EmptySeq
  <2>2. QED BY <1>1, <1>2, <2>1
<1>4. n < m => Head(rest) = argv[n + 1] BY <1>1, <1>2
<1>5. n + 1 < m => rest[2] = argv[n + 2] BY <1>1, <1>2
<1>6. ASSUME NEW k \in 1 .. 2, k <= Len(rest), Take(k) PROVE rest' = SubSeq(argv, n + k + 1, m)
  <2> DEFINE r == SubSeq(rest, k + 1, Len(rest))
             a == SubSeq(argv, (n + k) + 1, m)
  <2>1. rest' = r BY <1>6 DEF Take
  <2>2. k \in 0 .. Len(rest) /\ n + k \in 0 .. m /\ (m - n) - k = m - (n + k) BY <1>1, <1>2, <1>6
  <2>3. r \in Seq(STRING) /\ Len(r) = (m - n) - k /\ \A i \in 1 .. (m - n) - k : r[i] = rest[k + i]
    BY <1>2, <2>2, WhatIsLeft
  <2>4. a \in Seq(STRING) /\ Len(a) = m - (n + k) /\ \A i \in 1 .. m - (n + k) : a[i] = argv[(n + k) + i]
    BY <2>2, WhatIsLeft DEF m
  <2> HIDE DEF r, a
  <2>5. ASSUME NEW i \in 1 .. (m - n) - k PROVE r[i] = a[i]
    <3>1. k + i \in 1 .. m - n /\ n + (k + i) = (n + k) + i BY <1>1, <1>6
    <3>2. rest[k + i] = argv[(n + k) + i] BY <1>2, <3>1
    <3>3. QED BY <2>2, <2>3, <2>4, <3>2
  <2>6. r = a BY <2>2, <2>3, <2>4, <2>5, SeqEqual
  <2>7. QED BY <2>1, <2>6 DEF a
<1>7. QED BY <1>2, <1>3, <1>4, <1>5, <1>6 DEF m

LEMMA NextPlace ==
  ASSUME argv \in Seq(STRING), NEW n \in 0 .. Len(argv), n < Len(argv), Parsed(n)
  PROVE  /\ n + 1 \in Place
         /\ over => n + 1 \in Words /\ n + 1 \notin Options
         /\ ~over /\ argv[n + 1] = "--" => n + 1 \in Dashes /\ n + 1 \notin Options /\ n + 1 \notin Words
         /\ ~over /\ argv[n + 1] # "--" => n + 1 \in Options /\ (n + 1 \in Words <=> argv[n + 1] \in DOMAIN Path)
<1> DEFINE i == n + 1
<1>1. i \in Place /\ i \notin IsValue /\ i - 1 = n BY DEF Place, Parsed
<1>2. CASE over
  <2>1. PICK d \in Dashes : d <= n BY <1>2 DEF Parsed
  <2>2. d \in 1 .. i - 1 /\ d \notin IsValue /\ argv[d] = "--" BY <1>1, <2>1 DEF Dashes, Place
  <2>3. i \notin Dashes BY <1>1, <2>2 DEF Dashes
  <2>4. i \notin Options
    <3>1. ~(i < d) BY <1>1, <2>1, <2>2
    <3>2. QED BY <2>1, <3>1 DEF Options
  <2>5. QED BY <1>1, <1>2, <2>3, <2>4 DEF Words
<1>3. CASE ~over
  <2>1. \A j \in 1 .. i - 1 : argv[j] # "--" \/ j \in IsValue BY <1>1, <1>3 DEF Parsed
  <2>2. CASE argv[i] = "--"
    <3>1. i \in Dashes BY <1>1, <2>1, <2>2 DEF Dashes
    <3>2. i \notin Options BY <3>1 DEF Options
    <3>3. i \notin Words BY <3>1, <3>2 DEF Words
    <3>4. QED BY <1>1, <1>3, <2>2, <3>1, <3>2, <3>3
  <2>3. CASE argv[i] # "--"
    <3>1. i \notin Dashes BY <2>3 DEF Dashes
    <3>2. ASSUME NEW d \in Dashes PROVE i < d
      <4>1. d \in Place /\ d \notin IsValue /\ argv[d] = "--" BY DEF Dashes
      <4>2. d \notin 1 .. n BY <1>3, <4>1 DEF Parsed
      <4>3. d # i BY <2>3, <4>1
      <4>4. QED BY <4>1, <4>2, <4>3 DEF Place
    <3>3. i \in Options BY <1>1, <3>1, <3>2 DEF Options
    <3>4. i \in Words <=> argv[i] \in DOMAIN Path BY <3>3 DEF Words
    <3>5. QED BY <1>1, <1>3, <2>3, <3>3, <3>4
  <2>4. QED BY <2>2, <2>3
<1>4. QED BY <1>2, <1>3

(* The value of an option is the token after it, and of that alone.        *)
LEMMA ValuePlaces ==
  ASSUME argv \in Seq(STRING), NEW n \in 0 .. Len(argv), n < Len(argv), Parsed(n)
  PROVE  /\ over \/ argv[n + 1] \notin ScalarValue => n + 2 \notin IsValue
         /\ ~over /\ argv[n + 1] \in ScalarValue /\ n + 2 <= Len(argv)
              => n + 2 \in IsValue /\ n + 3 \notin IsValue
<1>1. \A i \in Place : i \in IsValue <=> Follows(i, IsValue) BY ValuesExist
<1>2. IsValue \subseteq Place BY ValuesExist
<1>3. n + 1 \in Place /\ n + 1 \notin IsValue BY DEF Place, Parsed
<1>4. n + 2 \in IsValue <=> n + 2 \in Place /\ Follows(n + 2, IsValue) BY <1>1, <1>2
<1>5. (n + 2) - 1 = n + 1 /\ (n + 3) - 1 = n + 2 OBVIOUS
<1>6. argv[n + 1] \notin ScalarValue => ~Follows(n + 2, IsValue) BY <1>5 DEF Follows
<1>7. over => ~Follows(n + 2, IsValue)
  <2> SUFFICES ASSUME over PROVE ~Follows(n + 2, IsValue)
    OBVIOUS
  <2>1. PICK d \in Dashes : d <= n BY DEF Parsed
  <2>2. d \in 1 .. (n + 2) - 1 /\ argv[d] = "--" /\ d \notin IsValue BY <2>1 DEF Dashes, Place
  <2>3. QED BY <2>2 DEF Follows
<1>8. ASSUME ~over, argv[n + 1] \in ScalarValue, n + 2 <= Len(argv)
      PROVE  n + 2 \in IsValue /\ n + 3 \notin IsValue
  <2>1. n + 2 \in Place BY <1>8 DEF Place
  <2>2. argv[n + 1] # "--" BY <1>8 DEF ScalarValue
  <2>3. ASSUME NEW j \in 1 .. (n + 2) - 1, argv[j] = "--" PROVE j \in IsValue
    <3>1. j \in 1 .. n BY <2>2, <2>3
    <3>2. QED BY <1>8, <2>3, <3>1 DEF Parsed
  <2>4. Follows(n + 2, IsValue) BY <1>3, <1>5, <1>8, <2>3 DEF Follows
  <2>5. n + 2 \in IsValue BY <1>1, <2>1, <2>4
  <2>6. ~Follows(n + 3, IsValue) BY <1>5, <2>5 DEF Follows
  <2>7. n + 3 \notin IsValue BY <1>1, <1>2, <2>6
  <2>8. QED BY <2>5, <2>7
<1>9. QED BY <1>4, <1>6, <1>7, <1>8

LEMMA OneMore ==
  ASSUME argv \in Seq(STRING), NEW n \in Nat
  PROVE  /\ Seen(n + 1) = IF n + 1 \in Options \ Words THEN Seen(n) \union {n + 1} ELSE Seen(n)
         /\ Said(n + 1) = IF n + 1 \in Words THEN Said(n) \union {n + 1} ELSE Said(n)
         /\ n + 1 \notin Said(n) /\ n + 1 \notin Seen(n) /\ IsFiniteSet(Said(n))
<1>1. Options \subseteq Nat /\ Words \subseteq Nat BY DEF Options, Words, Place
<1>2. \A i \in Nat : i <= n + 1 <=> i <= n \/ i = n + 1 OBVIOUS
<1>3. ~(n + 1 <= n) OBVIOUS
<1>4. IsFiniteSet(Said(n))
  <2>1. Said(n) \subseteq 1 .. Len(argv) BY DEF Said, Words, Options, Place
  <2>2. 1 \in Int /\ Len(argv) \in Int OBVIOUS
  <2>3. IsFiniteSet(1 .. Len(argv)) BY <2>2, FS_Interval
  <2>4. QED BY <2>1, <2>3, FS_Subset
<1>5. QED BY <1>1, <1>2, <1>3, <1>4 DEF Seen, Said

-----------------------------------------------------------------------------
(* Reading on.                                                             *)

LEMMA SeenStay ==
  ASSUME UNCHANGED argv
  PROVE  /\ \A m : Seen(m)' = Seen(m) /\ Said(m)' = Said(m)
         /\ \A i : Sound(i)' = Sound(i) /\ \A S : Alone(i, S)' = Alone(i, S)
<1>1. UNCHANGED <<Options, Words>> /\ \A i : OptionAt(i)' = OptionAt(i) /\ ValueAt(i)' = ValueAt(i) BY PlacesStay
<1>2. \A m : Seen(m)' = Seen(m) /\ Said(m)' = Said(m) BY <1>1 DEF Seen, Said
<1>3. \A i : Sound(i)' = Sound(i) BY <1>1 DEF Sound, IsEquals
<1>4. \A i, S : Alone(i, S)' = Alone(i, S) BY <1>1 DEF Alone
<1>5. QED BY <1>2, <1>3, <1>4

LEMMA Kinds ==
  /\ ScalarValue \intersect ScalarEquals = {} /\ ScalarValue \intersect OptionalValue = {}
  /\ ScalarValue \intersect Flag = {} /\ ScalarEquals \intersect OptionalValue = {}
  /\ ScalarEquals \intersect Flag = {} /\ OptionalValue \intersect Flag = {}
  /\ "--" \notin Known
<1> USE DEF ScalarValue, ScalarEquals, OptionalValue, Flag, Known
<1>1. ScalarValue \intersect ScalarEquals = {} /\ ScalarValue \intersect OptionalValue = {} OBVIOUS
<1>2. ScalarValue \intersect Flag = {} /\ ScalarEquals \intersect OptionalValue = {} OBVIOUS
<1>3. ScalarEquals \intersect Flag = {} /\ OptionalValue \intersect Flag = {} OBVIOUS
<1>4. "--" \notin Known OBVIOUS
<1>5. QED BY <1>1, <1>2, <1>3, <1>4

LEMMA OptionIsParsed ==
  ASSUME argv \in Seq(STRING), NEW n \in 0 .. Len(argv), Parsed(n), ~over, NEW k \in 1 .. 2, n + k <= Len(argv),
         NEW value, Give(OptionAt(n + 1), value), UNCHANGED <<argv, over, operands>>,
         n + 1 \in Options \ Words, argv[n + 1] # "--", value = ValueAt(n + 1), Sound(n + 1),
         OptionAt(n + 1) \notin DOMAIN given \/ OptionAt(n + 1) \in Flag,
         (n + k) + 1 \notin IsValue, k = 2 => n + 2 \in IsValue
  PROVE  Parsed(n + k)'
<1> DEFINE i == n + 1
           opt == OptionAt(i)
<1>0. n \in Nat /\ n + 1 \in Nat /\ (n + 1) + 1 = n + 2 BY LenProperties
<1>1. /\ DOMAIN given' = DOMAIN given \union {opt}
      /\ \A o \in DOMAIN given \ {opt} : given'[o] = given[o]
      /\ given'[opt] = value
  BY GivenAfter
<1>2. Seen(n + k) = Seen(n) \union {i} /\ Said(n + k) = Said(n)
  <2>1. Seen(i) = Seen(n) \union {i} /\ Said(i) = Said(n) BY <1>0, OneMore
  <2>2. CASE k = 1 BY <2>1, <2>2
  <2>3. CASE k = 2
    <3>1. n + 2 \notin Options /\ n + 2 \notin Words BY <2>3 DEF Options, Words
    <3>2. Seen(n + 2) = Seen(i) /\ Said(n + 2) = Said(i)
      <4>1. Seen((n + 1) + 1) = Seen(n + 1) /\ Said((n + 1) + 1) = Said(n + 1) BY <1>0, <3>1, OneMore
      <4>2. QED BY <1>0, <4>1
    <3>3. QED BY <2>1, <2>3, <3>2
  <2>4. QED BY <2>2, <2>3
<1>3. ASSUME NEW j \in Seen(n), OptionAt(j) = opt
      PROVE  opt \in Flag /\ ValueAt(j) = Bare /\ value = Bare
  <2>1. opt \in DOMAIN given BY <1>3 DEF Parsed
  <2>2. opt \in Flag BY <2>1
  <2>3. Sound(j) BY DEF Parsed
  <2>4. argv[j] \notin DOMAIN Split /\ argv[i] \notin DOMAIN Split BY <1>3, <2>2, <2>3 DEF Sound
  <2>5. argv[j] = opt /\ argv[i] = opt BY <1>3, <2>4 DEF OptionAt
  <2>6. opt \notin ScalarValue BY <2>2, Kinds
  <2>7. QED BY <2>2, <2>4, <2>5, <2>6 DEF ValueAt
<1>4. ASSUME NEW j \in Seen(n)
      PROVE  given'[OptionAt(j)] = ValueAt(j) /\ Sound(j) /\ Alone(j, Seen(n) \union {i})
  <2>1. given[OptionAt(j)] = ValueAt(j) /\ OptionAt(j) \in DOMAIN given /\ Sound(j) /\ Alone(j, Seen(n))
    BY DEF Parsed
  <2>2. given'[OptionAt(j)] = ValueAt(j)
    <3>1. CASE OptionAt(j) = opt BY <1>1, <1>3, <3>1
    <3>2. CASE OptionAt(j) # opt BY <1>1, <2>1, <3>2
    <3>3. QED BY <3>1, <3>2
  <2>3. OptionAt(j) \notin Flag => OptionAt(j) # OptionAt(i) BY <1>3
  <2>4. Alone(j, Seen(n) \union {i}) BY <2>1, <2>3 DEF Alone
  <2>5. QED BY <2>1, <2>2, <2>4
<1>5. Alone(i, Seen(n) \union {i}) BY <1>3 DEF Alone
<1>6. \A j \in 1 .. n + k : argv[j] = "--" => j \in IsValue
  <2> SUFFICES ASSUME NEW j \in 1 .. n + k, argv[j] = "--" PROVE j \in IsValue
    OBVIOUS
  <2>1. j \in 1 .. n \/ j = n + 1 \/ (k = 2 /\ j = n + 2) BY <1>0
  <2>2. QED BY <2>1 DEF Parsed
<1>7. DOMAIN given' = {OptionAt(j) : j \in Seen(n) \union {i}} BY <1>1 DEF Parsed
<1>8. Len(operands) = Cardinality(Said(n)) BY DEF Parsed
<1>9. /\ Seen(n + k)' = Seen(n) \union {i} /\ Said(n + k)' = Said(n)
      /\ \A j : Sound(j)' = Sound(j) /\ OptionAt(j)' = OptionAt(j) /\ ValueAt(j)' = ValueAt(j)
      /\ \A j, S : Alone(j, S)' = Alone(j, S)
      /\ UNCHANGED IsValue
  <2>1. Seen(n + k)' = Seen(n + k) /\ Said(n + k)' = Said(n + k) BY SeenStay
  <2>2. QED BY <1>2, <2>1, SeenStay, PlacesStay
<1>10. \A j \in Seen(n + k)' : (given[OptionAt(j)] = ValueAt(j))' /\ Sound(j)' /\ Alone(j, Seen(n + k))'
  <2> SUFFICES ASSUME NEW j \in Seen(n) \union {i}
               PROVE  given'[OptionAt(j)] = ValueAt(j) /\ Sound(j) /\ Alone(j, Seen(n) \union {i})
    BY <1>9
  <2>1. CASE j = i BY <1>1, <1>5, <2>1
  <2>2. CASE j \in Seen(n) BY <1>4, <2>2
  <2>3. QED BY <2>1, <2>2
<1> HIDE DEF i, opt
<1>11. QED BY <1>6, <1>7, <1>8, <1>9, <1>10 DEF Parsed

(* An option that does not stand well, or is given again.                  *)
LEMMA BadToken ==
  ASSUME NEW n \in 0 .. Len(argv), Parsed(n), n + 1 \in Options \ Words,
         ~Sound(n + 1) \/ (OptionAt(n + 1) \in DOMAIN given /\ OptionAt(n + 1) \notin Flag)
  PROVE  ~WellFormed
<1>1. CASE ~Sound(n + 1) BY <1>1 DEF WellFormed, Sound
<1>2. CASE OptionAt(n + 1) \in DOMAIN given /\ OptionAt(n + 1) \notin Flag
  <2>1. PICK j \in Seen(n) : OptionAt(j) = OptionAt(n + 1) BY <1>2 DEF Parsed
  <2>2. j \in Options \ Words /\ j # n + 1 BY DEF Seen
  <2>3. QED BY <1>2, <2>1, <2>2 DEF WellFormed
<1>3. QED BY <1>1, <1>2

(* An operand, or the dashes: one token, and no option.                    *)
LEMMA TokenIsParsed ==
  ASSUME argv \in Seq(STRING), NEW n \in 0 .. Len(argv), n < Len(argv), Parsed(n), UNCHANGED <<argv, given>>,
         \/ n + 1 \in Words /\ UNCHANGED over /\ (over \/ argv[n + 1] # "--")
            /\ Len(operands') = Len(operands) + 1
         \/ n + 1 \in Dashes /\ over' /\ n + 1 \notin Words /\ UNCHANGED operands,
         n + 1 \notin Options \ Words, (n + 1) + 1 \notin IsValue
  PROVE  Parsed(n + 1)'
<1>0. n \in Nat BY LenProperties
<1>1. Seen(n + 1) = Seen(n) BY <1>0, OneMore
<1>2. Len(operands') = Cardinality(Said(n + 1))
  <2>1. Len(operands) = Cardinality(Said(n)) BY DEF Parsed
  <2>2. CASE n + 1 \in Words
    <3>1. Said(n + 1) = Said(n) \union {n + 1} /\ n + 1 \notin Said(n) /\ IsFiniteSet(Said(n))
      BY <1>0, <2>2, OneMore
    <3>2. Cardinality(Said(n + 1)) = Cardinality(Said(n)) + 1 BY <3>1, FS_AddElement
    <3>3. QED BY <2>1, <2>2, <3>2
  <2>3. CASE n + 1 \notin Words
    <3>1. Said(n + 1) = Said(n) BY <1>0, <2>3, OneMore
    <3>2. QED BY <2>1, <2>3, <3>1
  <2>4. QED BY <2>2, <2>3
<1>3. over' => \E d \in Dashes : d <= n + 1
  <2>1. CASE n + 1 \in Dashes BY <1>0, <2>1
  <2>2. CASE UNCHANGED over
    <3>1. over => \E d \in Dashes : d <= n BY DEF Parsed
    <3>2. Dashes \subseteq Nat BY DEF Dashes, Place
    <3>3. QED BY <1>0, <2>2, <3>1, <3>2
  <2>3. QED BY <2>1, <2>2
<1>4. ~over' => \A j \in 1 .. n + 1 : argv[j] = "--" => j \in IsValue
  <2> SUFFICES ASSUME ~over', NEW j \in 1 .. n + 1, argv[j] = "--" PROVE j \in IsValue
    OBVIOUS
  <2>1. ~over /\ argv[n + 1] # "--" OBVIOUS
  <2>2. j \in 1 .. n BY <1>0, <2>1
  <2>3. QED BY <2>1, <2>2 DEF Parsed
<1>5. /\ Seen(n + 1)' = Seen(n) /\ Said(n + 1)' = Said(n + 1)
      /\ \A j : Sound(j)' = Sound(j) /\ OptionAt(j)' = OptionAt(j) /\ ValueAt(j)' = ValueAt(j)
      /\ \A j, S : Alone(j, S)' = Alone(j, S)
      /\ UNCHANGED <<IsValue, Dashes>>
  <2>1. Seen(n + 1)' = Seen(n + 1) BY SeenStay
  <2>2. QED BY <1>1, <2>1, SeenStay, PlacesStay
<1>6. \A j \in Seen(n + 1)' : (given[OptionAt(j)] = ValueAt(j))' /\ Sound(j)' /\ Alone(j, Seen(n + 1))'
  BY <1>5 DEF Parsed
<1>7. DOMAIN given' = {OptionAt(j) : j \in Seen(n)} BY DEF Parsed
<1>8. QED BY <1>2, <1>3, <1>4, <1>5, <1>6, <1>7 DEF Parsed

-----------------------------------------------------------------------------
LEMMA RefusedNow ==
  ASSUME UsageError, Refused
  PROVE  GrammarInd'
<1>1. UNCHANGED <<worldVars, parseVars>> BY DEF UsageError
<1>2. UNCHANGED <<argv, given>> BY <1>1 DEF worldVars, parseVars
<1>3. BadOperands' <=> BadOperands BY <1>1, CommandLineStays
<1>4. WellFormed' <=> WellFormed BY <1>2, PlacesStay
<1>5. Conflict' <=> Conflict BY <1>2 DEF Conflict, Value
<1>6. Refused' BY <1>3, <1>4, <1>5 DEF Refused
<1>7. pc' = "exit" BY DEF UsageError, Stop
<1>8. QED BY <1>6, <1>7 DEF GrammarInd

LEMMA ReadTokenInd ==
  ASSUME argv \in Seq(STRING), NEW n \in 0 .. Len(argv), rest = SubSeq(argv, n + 1, Len(argv)), Parsed(n),
         ~over, pc = "parse", ReadToken
  PROVE  GrammarInd'
<1> DEFINE i == n + 1
           t == argv[i]
<1>1. /\ Len(rest) = Len(argv) - n /\ n < Len(argv) /\ Head(rest) = t
      /\ n + 1 < Len(argv) => rest[2] = argv[n + 2]
      /\ \A k \in 1 .. 2 : k <= Len(rest) /\ Take(k) => rest' = SubSeq(argv, n + k + 1, Len(argv))
  <2>1. rest # << >> BY DEF ReadToken
  <2>2. QED BY <2>1, RestIs, LenProperties
<1>2. n \in Nat /\ Len(argv) \in Nat /\ i + 1 = n + 2 /\ (n + 1) + 1 = n + 2 /\ (n + 2) + 1 = n + 3 BY LenProperties
<1>g. ASSUME NEW k \in 1 .. 2, n + k <= Len(argv), Take(k), ReadsOn, Parsed(n + k)' PROVE GrammarInd'
  <2>1. UNCHANGED <<argv, pc>> BY <1>g DEF ReadsOn, worldVars
  <2>2. k <= Len(rest) /\ n + k \in 0 .. Len(argv) BY <1>1, <1>2, <1>g
  <2>3. rest' = SubSeq(argv, (n + k) + 1, Len(argv)) BY <1>1, <1>g, <2>2
  <2>4. \E m \in 0 .. Len(argv') : rest' = SubSeq(argv', m + 1, Len(argv')) /\ Parsed(m)'
    BY <1>g, <2>1, <2>2, <2>3
  <2>5. QED BY <2>1, <2>4 DEF GrammarInd
<1>b. ASSUME UsageError, i \in Options \ Words,
             ~Sound(i) \/ (OptionAt(i) \in DOMAIN given /\ OptionAt(i) \notin Flag)
      PROVE  GrammarInd'
  <2>1. ~WellFormed BY <1>b, BadToken
  <2>2. QED BY <1>b, <2>1, RefusedNow DEF Refused
<1>3. /\ t # "--" => i \in Options /\ (i \in Words <=> t \in DOMAIN Path)
      /\ t \notin ScalarValue => n + 2 \notin IsValue
      /\ t \in ScalarValue /\ n + 2 <= Len(argv) => n + 2 \in IsValue /\ n + 3 \notin IsValue
  BY <1>1, NextPlace, ValuePlaces
<1>4. /\ t \in DOMAIN Split => t \notin ScalarValue \union OptionalValue \union Flag \union {"--"}
      /\ t \in Known \union {"--"} => t \notin DOMAIN Path
      /\ t \in DOMAIN Split /\ Split[t][1] \in Known => t \notin DOMAIN Path
  BY TokenAssumption
<1>5. ASSUME NEW value, Give(OptionAt(i), value), ReadsOn, UNCHANGED <<over, operands>>, Take(1),
             i \in Options \ Words, t # "--", t \notin ScalarValue, value = ValueAt(i), Sound(i),
             OptionAt(i) \notin DOMAIN given \/ OptionAt(i) \in Flag
      PROVE  GrammarInd'
  <2>1. n + 1 <= Len(argv) /\ argv' = argv /\ (n + 1) + 1 \notin IsValue BY <1>1, <1>2, <1>3, <1>5 DEF ReadsOn, worldVars
  <2>2. Parsed(n + 1)' BY <1>5, <2>1, OptionIsParsed
  <2>3. QED BY <1>g, <1>5, <2>1, <2>2
<1>6. CASE t \in ScalarValue
  <2>1. ScalarOption(t) BY <1>1, <1>6 DEF ReadToken
  <2>2. t \in Known /\ t # "--" /\ t \notin DOMAIN Path /\ t \notin DOMAIN Split BY <1>4, <1>6, Kinds DEF Known
  <2>3. i \in Options \ Words /\ OptionAt(i) = t /\ OptionAt(i) \notin Flag BY <1>3, <1>6, <2>2, Kinds DEF OptionAt
  <2>4. Sound(i) <=> i < Len(argv) /\ ~BadValue(t, argv[i + 1])
    BY <1>6, <2>2, <2>3, Kinds DEF Sound, IsEquals
  <2>5. CASE t \in DOMAIN given \/ Len(rest) < 2 \/ BadValue(t, rest[2])
    <3>1. UsageError BY <2>1, <2>5 DEF ScalarOption
    <3>2. ~Sound(i) \/ OptionAt(i) \in DOMAIN given
      <4>1. Len(rest) < 2 <=> ~(i < Len(argv)) BY <1>1, <1>2
      <4>2. i < Len(argv) => rest[2] = argv[i + 1] BY <1>1, <1>2
      <4>3. QED BY <2>3, <2>4, <2>5, <4>1, <4>2
    <3>3. QED BY <1>b, <2>3, <3>1, <3>2
  <2>6. CASE ~(t \in DOMAIN given \/ Len(rest) < 2 \/ BadValue(t, rest[2]))
    <3>1. Give(t, rest[2]) /\ Take(2) /\ ReadsOn /\ UNCHANGED <<over, operands>> BY <2>1, <2>6 DEF ScalarOption
    <3>2. n + 2 <= Len(argv) /\ i < Len(argv) /\ rest[2] = argv[i + 1]
      <4>1. ~(Len(rest) < 2) BY <2>6
      <4>2. n + 1 < Len(argv) /\ n + 2 <= Len(argv) BY <1>1, <1>2, <4>1
      <4>3. QED BY <1>1, <1>2, <4>2
    <3>3. Sound(i) /\ ValueAt(i) = rest[2] BY <1>6, <2>2, <2>4, <2>6, <3>2 DEF ValueAt
    <3>4. n + 2 \in IsValue /\ (n + 2) + 1 \notin IsValue BY <1>2, <1>3, <1>6, <3>2
    <3>5. argv' = argv BY <3>1 DEF ReadsOn, worldVars
    <3>6. Parsed(n + 2)' BY <2>2, <2>3, <2>6, <3>1, <3>2, <3>3, <3>4, <3>5, OptionIsParsed
    <3>7. QED BY <1>g, <3>1, <3>2, <3>6
  <2>7. QED BY <2>5, <2>6
<1>7. CASE t \notin ScalarValue /\ IsEquals(t, ScalarEquals)
  <2>1. EqualsOption(t) BY <1>1, <1>7 DEF ReadToken
  <2> DEFINE opt == Split[t][1]
             value == Split[t][2]
  <2>2. t \in DOMAIN Split /\ opt \in ScalarEquals /\ opt \in Known BY <1>7 DEF IsEquals, Known
  <2>3. t # "--" /\ t \notin DOMAIN Path BY <1>4, <2>2
  <2>4. i \in Options \ Words /\ OptionAt(i) = opt /\ ValueAt(i) = value BY <1>3, <2>2, <2>3 DEF OptionAt, ValueAt
  <2>5. opt \notin Flag /\ opt \notin ScalarValue BY <2>2, Kinds
  <2>6. Sound(i) <=> ~BadChoice(opt, value) BY <1>7, <2>2, <2>4, <2>5 DEF Sound
  <2>7. CASE opt \in DOMAIN given \/ BadChoice(opt, value)
    <3>1. UsageError BY <2>1, <2>7 DEF EqualsOption
    <3>2. QED BY <1>b, <2>4, <2>5, <2>6, <2>7, <3>1
  <2>8. CASE ~(opt \in DOMAIN given \/ BadChoice(opt, value))
    <3>1. Give(opt, value) /\ Take(1) /\ ReadsOn /\ UNCHANGED <<over, operands>> BY <2>1, <2>8 DEF EqualsOption
    <3> HIDE DEF opt, value
    <3>2. QED BY <1>5, <1>7, <2>3, <2>4, <2>6, <2>8, <3>1
  <2>9. QED BY <2>7, <2>8
<1>8. CASE ~(t \in ScalarValue \/ IsEquals(t, ScalarEquals)) /\ (t \in OptionalValue \/ IsEquals(t, OptionalValue))
  <2>1. OptionalOption(t) BY <1>1, <1>8 DEF ReadToken
  <2> DEFINE opt == IF t \in DOMAIN Split THEN Split[t][1] ELSE t
             value == IF t \in DOMAIN Split THEN Split[t][2] ELSE Bare
  <2>2. opt \in OptionalValue /\ opt \in Known BY <1>4, <1>8 DEF IsEquals, Known
  <2>3. t # "--" /\ t \notin DOMAIN Path
    <3>1. CASE t \in DOMAIN Split BY <1>4, <2>2, <3>1
    <3>2. CASE t \notin DOMAIN Split BY <1>4, <2>2, <3>2, Kinds
    <3>3. QED BY <3>1, <3>2
  <2>4. i \in Options \ Words /\ OptionAt(i) = opt /\ ValueAt(i) = value
    BY <1>3, <1>8, <2>3 DEF OptionAt, ValueAt
  <2>5. opt \notin Flag /\ opt \notin ScalarValue /\ opt \notin ScalarEquals BY <2>2, Kinds
  <2>6. Sound(i) <=> value # ""
    <3>1. opt \notin DOMAIN Allowed BY <2>2 DEF Allowed, OptionalValue
    <3>2. BadChoice(opt, value) <=> value = "" BY <3>1 DEF BadChoice
    <3>3. t \notin DOMAIN Split => value # "" BY DEF Bare
    <3> HIDE DEF opt, value
    <3>4. QED BY <1>8, <2>2, <2>4, <2>5, <3>2, <3>3 DEF Sound
  <2>7. CASE opt \in DOMAIN given \/ value = ""
    <3>1. UsageError BY <2>1, <2>7 DEF OptionalOption
    <3>2. QED BY <1>b, <2>4, <2>5, <2>6, <2>7, <3>1
  <2>8. CASE ~(opt \in DOMAIN given \/ value = "")
    <3>1. Give(opt, value) /\ Take(1) /\ ReadsOn /\ UNCHANGED <<over, operands>> BY <2>1, <2>8 DEF OptionalOption
    <3> HIDE DEF opt, value
    <3>2. QED BY <1>5, <1>8, <2>3, <2>4, <2>6, <2>8, <3>1
  <2>9. QED BY <2>7, <2>8
<1>9. CASE ~(t \in ScalarValue \/ IsEquals(t, ScalarEquals) \/ t \in OptionalValue \/ IsEquals(t, OptionalValue))
  <2>1. CASE t \in Flag
    <3>1. FlagOption(t) BY <1>1, <1>9, <2>1 DEF ReadToken
    <3>2. t # "--" /\ t \in Known /\ t \notin DOMAIN Path /\ t \notin DOMAIN Split BY <1>4, <2>1, Kinds DEF Known
    <3>3. i \in Options \ Words /\ OptionAt(i) = t /\ ValueAt(i) = Bare
      BY <1>3, <1>9, <3>2 DEF OptionAt, ValueAt
    <3>4. Sound(i) BY <1>9, <2>1, <3>2, <3>3, Kinds DEF Sound, IsEquals
    <3>5. Give(t, Bare) /\ Take(1) /\ ReadsOn /\ UNCHANGED <<over, operands>> BY <3>1 DEF FlagOption
    <3> HIDE DEF t
    <3>6. QED BY <1>5, <1>9, <2>1, <3>2, <3>3, <3>4, <3>5
  <2>2. CASE t \notin Flag /\ t \in DOMAIN Path
    <3>1. Operand(t) BY <1>1, <1>9, <2>2 DEF ReadToken
    <3>2. operands' = Append(operands, t) /\ Take(1) /\ ReadsOn /\ UNCHANGED <<over, given>> BY <3>1 DEF Operand
    <3>3. t # "--" BY <1>4, <2>2
    <3>4. i \in Words /\ i \notin Options \ Words /\ (n + 1) + 1 \notin IsValue BY <1>2, <1>3, <1>9, <2>2, <3>3
    <3>5. argv' = argv /\ n + 1 <= Len(argv) BY <1>1, <1>2, <3>2 DEF ReadsOn, worldVars
    <3>6. Len(operands') = Len(operands) + 1 BY <3>2
    <3>7. Parsed(n + 1)' BY <1>1, <3>2, <3>3, <3>4, <3>5, <3>6, TokenIsParsed
    <3>8. QED BY <1>g, <3>2, <3>5, <3>7
  <2>3. CASE t \notin Flag /\ t \notin DOMAIN Path
    <3>1. t # "--" /\ UnknownOption(t) BY <1>1, <1>9, <2>3 DEF ReadToken
    <3>2. i \in Options \ Words BY <1>3, <2>3, <3>1
    <3>3. ~Sound(i) BY <1>9, <2>3 DEF Sound, OptionAt, IsEquals, Known
    <3>4. UsageError BY <3>1 DEF UnknownOption
    <3>5. QED BY <1>b, <3>2, <3>3, <3>4
  <2>4. QED BY <2>1, <2>2, <2>3
<1>10. QED BY <1>6, <1>7, <1>8, <1>9

LEMMA ParsedStays ==
  ASSUME NEW m, UNCHANGED <<argv, over, given, operands>>, Parsed(m)
  PROVE  /\ Parsed(m)'
         /\ Len(argv)' = m => Parsed(Len(argv))'
<1>1. /\ Seen(m)' = Seen(m) /\ Said(m)' = Said(m)
      /\ \A j : Sound(j)' = Sound(j) /\ OptionAt(j)' = OptionAt(j) /\ ValueAt(j)' = ValueAt(j)
      /\ \A j, S : Alone(j, S)' = Alone(j, S)
      /\ UNCHANGED <<IsValue, Dashes>>
  BY SeenStay, PlacesStay
<1>2. QED BY <1>1 DEF Parsed

LEMMA ParseGrammarInd == ASSUME RequestInd, GrammarInd, Parse PROVE GrammarInd'
<1>0. argv \in Seq(STRING) BY TokenAssumption DEF RequestInd, TokensAreRead
<1>1. pc = "parse" BY DEF Parse, EndOptions, Trailing, ReadToken, FinishParse, Reading, ScalarOption, EqualsOption,
                          OptionalOption, FlagOption, Operand, UnknownOption
<1>2. PICK n \in 0 .. Len(argv) : rest = SubSeq(argv, n + 1, Len(argv)) /\ Parsed(n) BY <1>1 DEF GrammarInd
<1>3. n \in Nat /\ Len(argv) \in Nat /\ (n + 1) + 1 = n + 2 BY LenProperties
<1>4. /\ Len(rest) = Len(argv) - n /\ (rest = << >> <=> n = Len(argv))
      /\ n < Len(argv) => Head(rest) = argv[n + 1] /\ 1 <= Len(rest)
      /\ 1 <= Len(rest) /\ Take(1) => rest' = SubSeq(argv, n + 1 + 1, Len(argv))
  <2>1. 1 \in 1 .. 2 OBVIOUS
  <2>2. QED BY <1>0, <1>2, <1>3, <2>1, RestIs
<1>g. ASSUME n < Len(argv), Take(1), ReadsOn, Parsed(n + 1)' PROVE GrammarInd'
  <2>1. UNCHANGED <<argv, pc>> BY <1>g DEF ReadsOn, worldVars
  <2>2. n + 1 \in 0 .. Len(argv) /\ rest' = SubSeq(argv, (n + 1) + 1, Len(argv)) BY <1>3, <1>4, <1>g
  <2>3. \E m \in 0 .. Len(argv') : rest' = SubSeq(argv', m + 1, Len(argv')) /\ Parsed(m)'
    BY <1>g, <2>1, <2>2
  <2>4. QED BY <1>1, <2>1, <2>3 DEF GrammarInd
<1>5. CASE EndOptions
  <2>1. ~over /\ rest # << >> /\ Head(rest) = "--" /\ Take(1) /\ over' = TRUE /\ ReadsOn /\ UNCHANGED <<given, operands>>
    BY <1>5 DEF EndOptions, Reading
  <2>2. n < Len(argv) /\ argv[n + 1] = "--" /\ argv' = argv BY <1>3, <1>4, <2>1 DEF ReadsOn, worldVars
  <2>3. n + 1 \in Dashes /\ n + 1 \notin Options /\ n + 1 \notin Words BY <1>0, <1>2, <2>1, <2>2, NextPlace
  <2>4. argv[n + 1] \notin ScalarValue BY <2>2, Kinds DEF Known
  <2>5. (n + 1) + 1 \notin IsValue BY <1>0, <1>2, <1>3, <2>2, <2>4, ValuePlaces
  <2>6. Parsed(n + 1)' BY <1>0, <1>2, <2>1, <2>2, <2>3, <2>5, TokenIsParsed
  <2>7. QED BY <1>g, <2>1, <2>2, <2>6
<1>6. CASE Trailing
  <2>1. /\ over /\ rest # << >> /\ operands' = Append(operands, Head(rest)) /\ Take(1) /\ ReadsOn
        /\ UNCHANGED <<over, given>>
    BY <1>6 DEF Trailing
  <2>2. n < Len(argv) /\ argv' = argv BY <1>3, <1>4, <2>1 DEF ReadsOn, worldVars
  <2>3. n + 1 \in Words /\ n + 1 \notin Options BY <1>0, <1>2, <2>1, <2>2, NextPlace
  <2>4. (n + 1) + 1 \notin IsValue BY <1>0, <1>2, <1>3, <2>1, <2>2, ValuePlaces
  <2>5. Len(operands') = Len(operands) + 1 BY <2>1 DEF RequestInd, TokensAreRead
  <2>6. Parsed(n + 1)' BY <1>0, <1>2, <2>1, <2>2, <2>3, <2>4, <2>5, TokenIsParsed
  <2>7. QED BY <1>g, <2>1, <2>2, <2>6
<1>7. CASE ~over /\ ReadToken BY <1>0, <1>1, <1>2, <1>7, ReadTokenInd
<1>8. CASE FinishParse
  <2>1. CASE Conflict \/ BadOperands
    <3>1. UsageError BY <1>8, <2>1 DEF FinishParse
    <3>2. QED BY <2>1, <3>1, RefusedNow DEF Refused
  <2>2. CASE ~(Conflict \/ BadOperands)
    <3>1. pc' = "normalize" /\ UNCHANGED <<argv, over, given, operands>> /\ n = Len(argv)
      BY <1>4, <1>8, <2>2 DEF FinishParse, worldVars, parseVars
    <3>2. Parsed(Len(argv)) BY <1>2, <3>1
    <3>3. Parsed(Len(argv))' BY <3>1, <3>2, ParsedStays
    <3>4. QED BY <3>1, <3>3 DEF GrammarInd
  <2>3. QED BY <2>1, <2>2
<1>9. QED BY <1>5, <1>6, <1>7, <1>8 DEF Parse

(* After the command line has been read it stands, and a request that is   *)
(* made is one.                                                            *)
LEMMA LaterGrammarInd ==
  ASSUME GrammarInd, UNCHANGED <<worldVars, parseVars>>, pc' \notin {"parse", "normalize"},
         pc' = "exit" /\ exit' = 2 /\ request' = NoRequest => pc = "exit" /\ exit = 2 /\ request = NoRequest
  PROVE  GrammarInd'
<1>1. UNCHANGED <<argv, given>> BY DEF worldVars, parseVars
<1>2. BadOperands' <=> BadOperands BY CommandLineStays
<1>3. WellFormed' <=> WellFormed BY <1>1, PlacesStay
<1>4. Conflict' <=> Conflict BY <1>1 DEF Conflict, Value
<1>5. Refused' <=> Refused BY <1>2, <1>3, <1>4 DEF Refused
<1>6. QED BY <1>5 DEF GrammarInd

LEMMA RequestIsNone == ASSUME RequestInd, pc \in Late PROVE request # NoRequest
<1>1. request = Normalized BY DEF RequestInd, RequestIsMade
<1>2. Normalized.kind \in {"project", "file"} BY DEF Normalized
<1>3. NoRequest.kind = "none" BY DEF NoRequest
<1>4. QED BY <1>1, <1>2, <1>3

LEMMA GrammarStepInd == RequestInd /\ GrammarInd /\ [RequestNext]_requestVars => GrammarInd'
<1> SUFFICES ASSUME RequestInd, GrammarInd, [RequestNext]_requestVars PROVE GrammarInd'
  OBVIOUS
<1>1. CASE Parse BY <1>1, ParseGrammarInd
<1>2. CASE Normalize
  <2>1. pc' \in {"exit", "coverage"} /\ (pc' = "exit" => exit' = 3) /\ UNCHANGED <<worldVars, parseVars>>
    BY <1>2 DEF Normalize, Stop
  <2>2. QED BY <2>1, LaterGrammarInd
<1>3. ASSUME pc \in Late, UNCHANGED <<worldVars, parseVars, request>>, pc' \notin {"parse", "normalize"}
      PROVE  GrammarInd'
  BY <1>3, RequestIsNone, LaterGrammarInd
<1>4. CASE ResolveCoverage
  <2>1. pc = "coverage" /\ pc' \in {"exit", "input"} /\ UNCHANGED <<worldVars, parseVars, request>>
    BY <1>4 DEF ResolveCoverage, Stop
  <2>2. QED BY <1>3, <2>1 DEF Late
<1>5. CASE ValidateInput \/ ValidateEntry \/ SettleOutput
  <2>1. /\ pc \in {"input", "entry", "output"} /\ pc' \in {"exit", "entry", "output", "compile", "runtime"}
        /\ UNCHANGED <<worldVars, parseVars, request>>
    BY <1>5 DEF ValidateInput, ValidateEntry, SettleOutput, Stop, GoOn, Settled
  <2>2. QED BY <1>3, <2>1 DEF Late
<1>6. CASE VerifyRuntime \/ SelectCc \/ Probe
  <2>1. /\ pc \in {"runtime", "cc", "probe"} /\ pc' \in {"exit", "cc", "probe", "compile"}
        /\ UNCHANGED <<worldVars, parseVars, request>>
    BY <1>6 DEF VerifyRuntime, SelectCc, Probe, Stop, GoOn, Settled
  <2>2. QED BY <1>3, <2>1 DEF Late
<1>7. CASE Compile \/ HostCommand \/ ReportBuild
  <2>1. /\ pc \in {"compile", "host", "report"} /\ pc' \in {"host", "report", "done"}
        /\ UNCHANGED <<worldVars, parseVars, request>>
    BY <1>7 DEF Compile, HostCommand, ReportBuild, GoOn
  <2>2. QED BY <1>3, <2>1 DEF Late
<1>8. CASE UNCHANGED requestVars
  <2>1. UNCHANGED <<worldVars, parseVars, request, pc, exit>> BY <1>8 DEF requestVars, resolveVars
  <2>2. UNCHANGED <<argv, rest, over, given, operands>> BY <2>1 DEF worldVars, parseVars
  <2>3. CASE pc = "parse"
    <3>1. PICK n \in 0 .. Len(argv) : rest = SubSeq(argv, n + 1, Len(argv)) /\ Parsed(n) BY <2>3 DEF GrammarInd
    <3>2. Parsed(n)' BY <2>2, <3>1, ParsedStays
    <3>3. \E m \in 0 .. Len(argv') : rest' = SubSeq(argv', m + 1, Len(argv')) /\ Parsed(m)'
      BY <2>2, <3>1, <3>2
    <3>4. QED BY <2>1, <2>3, <3>3 DEF GrammarInd
  <2>4. CASE pc = "normalize"
    <3>1. Parsed(Len(argv)) BY <2>4 DEF GrammarInd
    <3>2. Parsed(Len(argv))' BY <2>2, <3>1, ParsedStays
    <3>3. QED BY <2>1, <2>4, <3>2 DEF GrammarInd
  <2>5. CASE pc \notin {"parse", "normalize"} BY <2>1, <2>5, LaterGrammarInd
  <2>6. QED BY <2>3, <2>4, <2>5
<1>9. QED BY <1>1, <1>2, <1>4, <1>5, <1>6, <1>7, <1>8 DEF RequestNext

(* At every token, what has been made of the command line is what the      *)
(* places of the tokens before it mean.                                    *)
THEOREM GrammarInvariant == RequestSpec => [](RequestInd /\ GrammarInd)
<1>1. RequestSpec => []RequestInd BY RequestInvariant
<1>2. RequestInit => GrammarInd BY GrammarInitInd
<1>3. RequestInd /\ GrammarInd /\ [RequestNext]_requestVars => GrammarInd' BY GrammarStepInd
<1>4. QED BY <1>1, <1>2, <1>3, PTL DEF RequestSpec

(* Of whatever length a command line is and whatever options, values and   *)
(* dashes stand in it: parse_args takes exactly the well-formed ones, and  *)
(* gives every option the value that stands beside it.                     *)
THEOREM CommandLinesMean == RequestSpec => []ParseMeansGrammar
<1>1. RequestSpec => [](RequestInd /\ GrammarInd) BY GrammarInvariant
<1>2. RequestInd /\ GrammarInd => ParseMeansGrammar BY GrammarIsMeant
<1>3. QED BY <1>1, <1>2, PTL

-----------------------------------------------------------------------------
(* TaskCatalogue.                                                          *)

(* The checkout is one that may be; green guards hold; the answer to the   *)
(* question is the one that Find gives.                                    *)
CatalogueInd ==
  /\ checkout \in Catalogue
  /\ green \subseteq {g \in Guards : Holds(g)}
  /\ asked \subseteq Needle
  /\ \A needle \in asked : asked = {needle} /\ shown = Answer(Find(needle))

LEMMA CatalogueInitInd == CatalogueInit => CatalogueInd
BY DEF CatalogueInit, CatalogueStartsFrom, CatalogueInd

LEMMA CatalogueStepInd == CatalogueInd /\ [CatalogueNext]_catalogueVars => CatalogueInd'
<1> SUFFICES ASSUME CatalogueInd, [CatalogueNext]_catalogueVars PROVE CatalogueInd'
  OBVIOUS
<1>1. checkout' = checkout
  BY DEF CatalogueNext, RunGuards, Show, catalogueVars
<1>2. \A g : Holds(g)' <=> Holds(g)
  BY <1>1 DEF Holds, OrientationFits, TableFits, FrontMatterFits, TrackingFits,
              MilestoneIsSound, Repeats, Milestones, TableSection
<1>3. \A needle : Find(needle)' = Find(needle) BY <1>1 DEF Find, FirstOf
<1>4. CASE RunGuards BY <1>1, <1>2, <1>3, <1>4 DEF RunGuards, CatalogueInd
<1>5. CASE Show BY <1>1, <1>2, <1>3, <1>5 DEF Show, CatalogueInd
<1>6. CASE UNCHANGED catalogueVars BY <1>1, <1>2, <1>3, <1>6 DEF catalogueVars, CatalogueInd
<1>7. QED BY <1>4, <1>5, <1>6 DEF CatalogueNext

THEOREM CatalogueInvariant == CatalogueSpec => []CatalogueInd
BY CatalogueInitInd, CatalogueStepInd, PTL DEF CatalogueSpec

(* A question that means a milestone finds it: its place is the only one   *)
(* with its id as asked, or there is none and its place is the only one    *)
(* with its id as usually written.                                         *)
LEMMA MeantIsFound ==
  ASSUME checkout \in Catalogue, OrientationFits, NEW needle \in Needle, NEW m \in Milestones,
         Means(needle, m)
  PROVE  Find(needle) = {m}
<1> DEFINE ms    == checkout.milestones
           same  == {i \in DOMAIN ms : ms[i].id # NoId /\ LowerCase(ms[i].id) = LowerCase(needle)}
           usual == {i \in DOMAIN ms : ms[i].id = NormalId(needle)}
<1>1. PICK i \in DOMAIN ms : ms[i] = m BY DEF Milestones, ToSet
<1>2. /\ DOMAIN ms = 1 .. Len(ms) /\ needle \in MilestoneId
      /\ \A j \in DOMAIN ms : ms[j].id \in MilestoneId
  BY CatalogueAssumption
<1>3. \A j \in DOMAIN ms : ms[j].id # NoId /\ ~Repeats(j)
  BY DEF OrientationFits, MilestoneIsSound
<1>4. ASSUME NEW j \in DOMAIN ms, NEW k \in DOMAIN ms, LowerCase(ms[j].id) = LowerCase(ms[k].id)
      PROVE  j = k
  <2>1. Len(ms) \in Nat \/ DOMAIN ms = {} OBVIOUS
  <2>2. ~(j < k) /\ ~(k < j) BY <1>2, <1>3, <1>4 DEF Repeats
  <2>3. QED BY <1>2, <2>2
<1>5. ASSUME NEW places, places = {i} PROVE FirstOf(places) = {m}
  BY <1>1, <1>2, <1>5 DEF FirstOf
<1>6. CASE LowerCase(needle) = LowerCase(m.id)
  <2>1. same = {i} BY <1>1, <1>3, <1>4, <1>6
  <2>2. QED BY <1>5, <2>1 DEF Find
<1>7. CASE /\ needle.prefix = "" /\ m.id = [prefix |-> "M", number |-> needle.number, blanks |-> FALSE]
           /\ \A other \in Milestones : other.id.prefix # ""
  <2>1. same = {}
    <3>1. \A j \in DOMAIN ms : ms[j].id.prefix # "" BY <1>7 DEF Milestones, ToSet
    <3>2. \A w \in MilestoneId : LowerCase(w).prefix = LowerPrefix(w.prefix) BY DEF LowerCase, MilestoneId
    <3>3. \A p : LowerPrefix(p) = "" => p = "" BY DEF LowerPrefix
    <3>4. LowerPrefix("") = "" BY DEF LowerPrefix
    <3>5. QED BY <1>2, <1>7, <3>1, <3>2, <3>3, <3>4
  <2>2. NormalId(needle) = m.id BY <1>7 DEF NormalId
  <2>3. usual = {i} BY <1>1, <1>4, <2>2
  <2>4. QED BY <1>5, <2>1, <2>3 DEF Find
<1>8. QED BY <1>6, <1>7 DEF Means

(* What stands below the first title, as far as the next heading, is in    *)
(* the section of the table.                                               *)
LEMMA BelowTheTitle ==
  ASSUME checkout \in Catalogue, NEW i \in DOMAIN checkout.workspace, NEW h \in 1 .. i - 1,
         checkout.workspace[h].form \in {"title", "longer-title"},
         \A k \in 1 .. h - 1 : checkout.workspace[k].form \in {"heading", "names"},
         \A k \in h + 1 .. i : checkout.workspace[k].form \in {"title", "names"}
  PROVE  checkout.workspace[i].names \subseteq NamedIn(TableSection)
<1> DEFINE text   == checkout.workspace
           starts == {j \in DOMAIN text : text[j].form \in {"title", "longer-title"}}
           first  == CHOOSE j \in starts : \A k \in starts : j <= k
           ends   == {j \in first + 1 .. Len(text) : text[j].form \in {"heading", "longer-title"}}
           last   == IF ends = {} THEN Len(text) ELSE (CHOOSE j \in ends : \A k \in ends : j <= k) - 1
<1>1. text \in Seq([form : STRING, names : SUBSET STRING]) BY CatalogueAssumption
<1>2. /\ Len(text) \in Nat /\ DOMAIN text = 1 .. Len(text) /\ i \in 1 .. Len(text) /\ h \in DOMAIN text
  BY <1>1
<1>3. h \in starts /\ \A k \in starts : h <= k
  BY <1>2
<1>4. first = h
  <2>1. first \in starts /\ \A k \in starts : first <= k BY <1>3
  <2>2. first \in Nat /\ h \in Nat /\ first <= h /\ h <= first BY <1>2, <1>3, <2>1
  <2>3. QED BY <2>2
<1>5. ends = {j \in h + 1 .. Len(text) : text[j].form \in {"heading", "longer-title"}}
  BY <1>4
<1>6. TableSection = SubSeq(text, h + 1, last)
  BY <1>3, <1>4 DEF TableSection
<1> HIDE DEF ends, first
<1>7. i <= last /\ last <= Len(text) /\ last \in Int
  <2>1. CASE ends = {} BY <1>2, <2>1
  <2>2. CASE ends # {}
    <3> DEFINE e == CHOOSE j \in ends : \A k \in ends : j <= k
    <3>1. ends \in SUBSET Nat BY <1>2, <1>5
    <3>2. \E j \in ends : \A k \in ends : j <= k BY <2>2, <3>1, LeastElement
    <3>3. e \in ends BY <3>2
    <3>4. last = e - 1 BY <2>2
    <3> HIDE DEF e
    <3>5. e \in h + 1 .. Len(text) /\ text[e].form \in {"heading", "longer-title"} BY <1>5, <3>3
    <3>6. ~(e <= i) BY <1>2, <3>5
    <3>7. i \in Int /\ e \in Int /\ Len(text) \in Int /\ e <= Len(text) BY <1>2, <3>5
    <3> HIDE DEF text, last
    <3>8. QED BY <3>4, <3>6, <3>7
  <2>3. QED BY <2>1, <2>2
<1> HIDE DEF last
<1>9. /\ i - h \in DOMAIN TableSection /\ TableSection[i - h] = text[i]
  <2>1. h \in Nat /\ i \in Nat /\ h < i /\ h >= 1 BY <1>2
  <2> HIDE DEF text
  <2>2. Len(SubSeq(text, h + 1, last)) = last - h /\ i - h \in 1 .. last - h
    BY <1>1, <1>2, <1>7, <2>1
  <2>3. SubSeq(text, h + 1, last)[i - h] = text[i]
    BY <1>1, <1>2, <1>7, <2>1, <2>2
  <2>4. QED BY <1>1, <1>2, <1>6, <1>7, <2>1, <2>2, <2>3
<1>10. QED BY <1>9 DEF NamedIn, ToSet

(* milestone-orient in a checkout whose guards are green (test-guards, then *)
(* milestone_orient.py:show): a question that means a milestone shows it,  *)
(* the files it names are read from behind their front matter, and the     *)
(* table names nothing else.                                               *)
THEOREM GreenCataloguesAnswer == CatalogueSpec => []GreenCatalogueAnswers
<1>1. CatalogueInd => GreenCatalogueAnswers
  <2> SUFFICES ASSUME CatalogueInd, green = Guards PROVE GreenCatalogueAnswers
    BY DEF GreenCatalogueAnswers
  <2>1. checkout \in Catalogue /\ OrientationFits /\ TableFits /\ FrontMatterFits
    BY DEF CatalogueInd, Guards, Holds
  <2>2. ASSUME NEW needle \in asked, NEW m \in Milestones, Means(needle, m)
        PROVE  shown = [milestones |-> {m}, raises |-> m.fields = "other-hints"]
    <3>1. needle \in Needle /\ shown = Answer(Find(needle)) BY DEF CatalogueInd
    <3>2. Find(needle) = {m} BY <2>1, <2>2, <3>1, MeantIsFound
    <3>3. (\E n \in {m} : n.fields = "other-hints") <=> m.fields = "other-hints" OBVIOUS
    <3>4. QED BY <3>1, <3>2 DEF Answer
  <2>3. ASSUME NEW m \in Milestones, NEW f \in m.tasks,
               ParsedBody(checkout.tasks[f]) = "everything"
        PROVE  checkout.tasks[f].front = "none"
    <3>1. MilestoneIsSound(m) BY <2>1 DEF OrientationFits, Milestones, ToSet
    <3>2. f \in DOMAIN checkout.tasks BY <3>1 DEF MilestoneIsSound
    <3>3. QED BY <2>1, <2>3, <3>2 DEF FrontMatterFits, ParsedBody
  <2>4. ASSUME NEW i \in DOMAIN checkout.workspace, NEW f \in checkout.workspace[i].names,
               NEW h \in 1 .. i - 1,
               checkout.workspace[h].form \in {"title", "longer-title"},
               \A k \in 1 .. h - 1 : checkout.workspace[k].form \in {"heading", "names"},
               \A k \in h + 1 .. i : checkout.workspace[k].form \in {"title", "names"}
        PROVE  f \in checkout.allowlist \/ \E m \in Milestones : f \in m.tasks
    <3>1. f \in NamedIn(TableSection) BY <2>1, <2>4, BelowTheTitle
    <3>2. QED BY <2>1, <3>1 DEF TableFits
  <2>5. QED BY <2>2, <2>3, <2>4 DEF GreenCatalogueAnswers
<1>2. QED BY <1>1, CatalogueInvariant, PTL

-----------------------------------------------------------------------------
(* Release.                                                                *)

(* Only versions that there are have been measured.  From the moment the   *)
(* tree was found clean, which had been required, until the revision is    *)
(* read, what is in the tree is what is committed or was made since, and   *)
(* measured by nobody.                                                     *)
ReleaseInd ==
  /\ versions \in Seq(Content)
  /\ now \in DOMAIN versions /\ committed \in DOMAIN versions /\ measured \subseteq DOMAIN versions
  /\ {"revision", "required"} \subseteq DOMAIN result
  /\ step # "done" => result.revision = {}
  /\ step = "revision" /\ result.required => now = committed \/ now \notin measured
  /\ RevisionIsMeasured

LEMMA ReleaseInitInd == ReleaseInit => ReleaseInd
<1> SUFFICES ASSUME NEW c \in Content, ReleaseStartsFrom(c) PROVE ReleaseInd
  BY DEF ReleaseInit
<1> USE DEF ReleaseStartsFrom
<1>1. versions \in Seq(Content) /\ DOMAIN versions = {1} OBVIOUS
<1>2. {"revision", "required"} \subseteq DOMAIN result /\ result.revision = {} BY DEF NoResult
<1>3. QED BY <1>1, <1>2 DEF ReleaseInd, RevisionIsMeasured

(* Somebody works in the checkout.                                         *)
LEMMA WorkInd ==
  ASSUME ReleaseInd, EditCheckout \/ CommitCheckout \/ GoBack
  PROVE  ReleaseInd'
<1> USE DEF ReleaseInd, Working, RevisionIsMeasured
<1>1. CASE EditCheckout
  <2>1. PICK c \in Content : versions' = Append(versions, c) BY <1>1 DEF EditCheckout
  <2>2. /\ versions' \in Seq(Content) /\ DOMAIN versions' = DOMAIN versions \union {Len(versions) + 1}
        /\ Len(versions) + 1 \notin DOMAIN versions
    BY <2>1
  <2>3. QED BY <1>1, <2>2 DEF EditCheckout
<1>2. CASE CommitCheckout BY <1>2 DEF CommitCheckout
<1>3. CASE GoBack BY <1>3 DEF GoBack
<1>4. QED BY <1>1, <1>2, <1>3

(* A step that measures, or compares what was measured, may add the        *)
(* version in the tree and leaves the revision open.                       *)
LEMMA MeasuringInd ==
  ASSUME ReleaseInd, CheckoutIsLeft, step # "done",
         measured' \in {measured, measured \union {now}},
         {"revision", "required"} \subseteq DOMAIN result', result'.revision = {},
         step' = "revision" /\ result'.required => now = committed
  PROVE  ReleaseInd'
BY DEF ReleaseInd, CheckoutIsLeft, RevisionIsMeasured

LEMMA ReleaseStepInd == ReleaseInd /\ [ReleaseNext]_releaseVars => ReleaseInd'
<1> SUFFICES ASSUME ReleaseInd, [ReleaseNext]_releaseVars PROVE ReleaseInd'
  OBVIOUS
<1>0. {"revision", "required"} \subseteq DOMAIN result /\ (step # "done" => result.revision = {}) BY DEF ReleaseInd
<1>1. CASE EditCheckout \/ CommitCheckout \/ GoBack BY <1>1, WorkInd
<1>2. CASE RunBenchmark BY <1>0, <1>2, MeasuringInd DEF RunBenchmark
<1>3. CASE EndCapture
  <2>1. step # "done" /\ CheckoutIsLeft /\ UNCHANGED measured /\ step' # "revision"
    <3>1. step' \in {"done", "current", "budget"} BY <1>3 DEF EndCapture
    <3>2. QED BY <1>3, <3>1 DEF EndCapture
  <2>2. {"revision", "required"} \subseteq DOMAIN result' /\ result'.revision = result.revision
    BY <1>0, <1>3 DEF EndCapture
  <2>3. QED BY <1>0, <2>1, <2>2, MeasuringInd
<1>4. CASE JudgeBudget BY <1>0, <1>4, MeasuringInd DEF JudgeBudget
<1>5. CASE FirstBuild BY <1>0, <1>5, MeasuringInd DEF FirstBuild
<1>6. CASE SecondBuild BY <1>0, <1>6, MeasuringInd DEF SecondBuild
<1>7. CASE MeasureSpeedup BY <1>0, <1>7, MeasuringInd DEF MeasureSpeedup
<1>8. CASE ReportWarnings BY <1>0, <1>8, MeasuringInd DEF ReportWarnings
<1>9. CASE Assemble
  <2>1. PICK requireClean \in BOOLEAN :
          /\ result' = [result EXCEPT !.required = requireClean]
          /\ step' = "revision" => (requireClean => now = committed)
    BY <1>9 DEF Assemble, IsTreeClean
  <2>2. {"revision", "required"} \subseteq DOMAIN result' /\ result'.revision = {}
        /\ result'.required = requireClean
    BY <1>0, <1>9, <2>1 DEF Assemble
  <2>3. QED BY <1>9, <2>1, <2>2, MeasuringInd DEF Assemble
<1>10. CASE CurrentRevision
  BY <1>10 DEF ReleaseInd, CurrentRevision, CheckoutIsLeft, RevisionIsMeasured
<1>11. CASE UNCHANGED releaseVars
  BY <1>11 DEF ReleaseInd, releaseVars, RevisionIsMeasured
<1>12. QED BY <1>1, <1>2, <1>3, <1>4, <1>5, <1>6, <1>7, <1>8, <1>9, <1>10, <1>11 DEF ReleaseNext

(* native_exe_release_evidence.assemble_release_evidence, called with      *)
(* require_clean_tree, reads the revision after it has found the tree      *)
(* clean: if all that was measured is one version and that one is still in *)
(* the tree, it is the revision that is named, whatever was committed or   *)
(* undone meanwhile.  Called without, it names HEAD.                       *)
THEOREM RevisionsAreMeasured == ReleaseSpec => []RevisionIsMeasured
<1>1. ReleaseInd => RevisionIsMeasured BY DEF ReleaseInd
<1>2. QED BY <1>1, ReleaseInitInd, ReleaseStepInd, PTL DEF ReleaseSpec

-----------------------------------------------------------------------------
(* The programs of the corpus in the order of their sizes.                 *)

Below(S, p) == {q \in S : Size[q] < Size[p]}

LEMMA Smallest ==
  ASSUME NEW S \in SUBSET (DOMAIN Size), S # {}
  PROVE  \E p \in S : \A q \in S : Size[p] <= Size[q]
<1> DEFINE T == {Size[p] : p \in S}
<1>1. T \in SUBSET Nat /\ T # {} BY SizeAssumption
<1>2. PICK t \in T : \A u \in T : t <= u
  <2> HIDE DEF T
  <2>1. QED BY <1>1, LeastElement
<1>3. QED BY <1>2

LEMMA RankedIs ==
  ASSUME NEW S \in SUBSET (DOMAIN Size), NEW n \in Nat, n < Cardinality(S)
  PROVE  Ranked(S, n) \in S
<1> DEFINE c == Cardinality(S)
           K == {k \in 0 .. n : \E p \in S : Cardinality(Below(S, p)) = k}
<1>1. IsFiniteSet(S) /\ c \in Nat BY SizeAssumption, FS_Subset, FS_CardinalityType
<1>2. S # {} BY <1>1, FS_EmptySet
<1>3. 0 \in K
  <2>1. PICK p \in S : \A q \in S : Size[p] <= Size[q] BY <1>2, Smallest
  <2>2. \A q \in S : Size[q] \in Nat BY SizeAssumption
  <2>3. Below(S, p) = {} BY <2>1, <2>2 DEF Below
  <2>4. Cardinality(Below(S, p)) = 0 BY <2>3, FS_EmptySet
  <2>5. QED BY <2>4
<1>4. ASSUME NEW m \in 0 .. n, m \in K, m < n PROVE m + 1 \in K
  <2>1. PICK p \in S : Cardinality(Below(S, p)) = m BY <1>4
  <2> DEFINE low == Below(S, p) \union {p}
             T == {q \in S : Size[q] > Size[p]}
  <2>2. \A q \in S : Size[q] \in Nat BY SizeAssumption
  <2>3. IsFiniteSet(Below(S, p)) /\ p \notin Below(S, p)
    <3>1. Below(S, p) \subseteq S BY DEF Below
    <3>2. p \notin Below(S, p) BY <2>2 DEF Below
    <3>3. QED BY <1>1, <3>1, <3>2, FS_Subset
  <2>4. IsFiniteSet(low) /\ Cardinality(low) = m + 1 BY <2>1, <2>3, FS_AddElement
  <2>5. T # {}
    <3> SUFFICES ASSUME T = {} PROVE FALSE
      OBVIOUS
    <3>1. ASSUME NEW q \in S PROVE q \in low
      <4>1. ~(Size[q] > Size[p]) OBVIOUS
      <4>2. Size[q] < Size[p] \/ Size[q] = Size[p] BY <2>2, <4>1
      <4>3. Size[q] = Size[p] => q = p BY SizeAssumption
      <4>4. QED BY <4>2, <4>3 DEF Below
    <3>2. low = S BY <3>1 DEF Below
    <3>3. QED BY <1>4, <2>4, <3>2
  <2>6. PICK q \in T : \A r \in T : Size[q] <= Size[r] BY <2>5, Smallest
  <2>7. Below(S, q) = low
    <3>1. ASSUME NEW r \in S PROVE Size[r] < Size[q] <=> r \in low
      <4>1. Size[p] < Size[q] BY <2>2, <2>6
      <4>2. Size[r] = Size[p] => r = p BY SizeAssumption
      <4>3. Size[r] > Size[p] => Size[q] <= Size[r] BY <2>6
      <4>4. Size[r] \in Nat /\ Size[p] \in Nat /\ Size[q] \in Nat BY <2>2, <2>6
      <4>5. r \in low <=> Size[r] < Size[p] \/ r = p BY DEF Below
      <4> HIDE DEF low, T
      <4>6. QED BY <4>1, <4>2, <4>3, <4>4, <4>5
    <3>2. low \subseteq S BY DEF Below
    <3> HIDE DEF low, T
    <3>3. QED BY <3>1, <3>2 DEF Below
  <2>8. Cardinality(Below(S, q)) = m + 1 /\ q \in S BY <2>4, <2>7
  <2>9. m + 1 \in 0 .. n BY <1>4
  <2>10. QED BY <2>8, <2>9
<1>5. n \in K
  <2> HIDE DEF K
  <2>1. 0 .. n \subseteq K BY <1>3, <1>4, UpToInduction
  <2>2. QED BY <2>1
<1>6. PICK p \in S : Cardinality(Below(S, p)) = n BY <1>5
<1>7. QED BY <1>6 DEF Ranked, Below

Label == {"minimal", "project_modules", "median", "largest"}

LEMMA LabelsHaveCosts ==
  ASSUME versions \in Seq(Content), NEW v \in DOMAIN versions
  PROVE  /\ DOMAIN Labelled(v) \subseteq Label
         /\ \A l \in DOMAIN Labelled(v) : Cost(v, l) \in Nat /\ Cost(v, l) > 0
<1> DEFINE S == Sized(v)
           c == Cardinality(S)
           programs == DOMAIN Size \union {"minimal", "project_modules"}
<1>1. S \in SUBSET (DOMAIN Size) BY DEF Sized
<1>2. c \in Nat /\ (S # {} => c > 0)
  <2>1. IsFiniteSet(S) BY <1>1, SizeAssumption, FS_Subset
  <2>2. QED BY <2>1, FS_CardinalityType, FS_EmptySet
<1>3. S # {} => c \div 2 \in Nat /\ c \div 2 < c /\ c - 1 \in Nat /\ c - 1 < c BY <1>2
<1>4. S # {} => Ranked(S, c \div 2) \in S /\ Ranked(S, c - 1) \in S
  <2> HIDE DEF c
  <2>1. QED BY <1>1, <1>3, RankedIs DEF c
<1>5. versions[v].cost \in [programs -> Nat \ {0}]
  <2>1. versions[v] \in Content OBVIOUS
  <2>2. QED BY <2>1, ContentAssumption
<1>6. ASSUME NEW l \in DOMAIN Labelled(v)
      PROVE  l \in Label /\ Labelled(v)[l] \in programs
  <2>1. l \in {"minimal", "project_modules"} \/ (l \in {"median", "largest"} /\ S # {}) BY DEF Labelled
  <2>2. CASE l \in {"minimal", "project_modules"}
    <3>1. Labelled(v)[l] = l BY <2>2 DEF Labelled
    <3>2. QED BY <2>2, <3>1 DEF Label
  <2>3. CASE l = "median" /\ S # {}
    <3>1. Labelled(v)[l] = Ranked(S, c \div 2) BY <2>3 DEF Labelled
    <3>2. QED BY <1>1, <1>4, <2>3, <3>1 DEF Label
  <2>4. CASE l = "largest" /\ S # {}
    <3>1. Labelled(v)[l] = Ranked(S, c - 1) BY <2>4 DEF Labelled
    <3>2. QED BY <1>1, <1>4, <2>4, <3>1 DEF Label
  <2>5. QED BY <2>1, <2>2, <2>3, <2>4
<1> HIDE DEF programs
<1>7. ASSUME NEW l \in DOMAIN Labelled(v) PROVE Cost(v, l) \in Nat /\ Cost(v, l) > 0
  <2>1. versions[v].cost[Labelled(v)[l]] \in Nat \ {0} BY <1>5, <1>6
  <2>2. QED BY <2>1 DEF Cost
<1>8. QED BY <1>6, <1>7

LEMMA OneElementMore ==
  ASSUME NEW S, IsFiniteSet(S), NEW x, x \notin S
  PROVE  IsFiniteSet(S \union {x}) /\ Cardinality(S \union {x}) = Cardinality(S) + 1
BY FS_AddElement

LEMMA TwoElements ==
  ASSUME NEW a, NEW b, a # b
  PROVE  IsFiniteSet({a, b}) /\ Cardinality({a, b}) = 2
<1>1. IsFiniteSet({a}) /\ Cardinality({a}) = 1 BY FS_Singleton
<1>2. {a, b} = {a} \union {b} /\ b \notin {a} OBVIOUS
<1>3. QED BY <1>1, <1>2, OneElementMore

LEMMA ThreeElements ==
  ASSUME NEW a, NEW b, NEW c, a # b, a # c, b # c
  PROVE  IsFiniteSet({a, b, c}) /\ Cardinality({a, b, c}) = 3
<1>1. {a, b, c} = {a, b} \union {c} /\ c \notin {a, b} OBVIOUS
<1>2. IsFiniteSet({a, b}) /\ Cardinality({a, b}) = 2 BY TwoElements
<1>3. QED BY <1>1, <1>2, OneElementMore

(* Of three builds of a label two took the time it costs, and the third    *)
(* took it too, or twice that, or raised.                                  *)
LEMMA MedianOfThree ==
  ASSUME DOMAIN runs = 1 .. 3, NEW l, NEW cost \in Nat, cost > 0, NEW odd \in 1 .. 3,
         \A i \in 1 .. 3 : i # odd => runs[i].times[l] = {cost},
         runs[odd].times[l] \in {{}, {cost}, {2 * cost}}
  PROVE  Timed(l) # {} /\ TwiceMedian(l) = 2 * cost
<1> DEFINE others == (1 .. 3) \ {odd}
<1>1. PICK a \in 1 .. 3, b \in 1 .. 3 : a # b /\ others = {a, b} /\ a # odd /\ b # odd
  <2>1. 1 .. 3 = {1, 2, 3} OBVIOUS
  <2>2. QED BY <2>1
<1>2. Took(a, l) = cost /\ Took(b, l) = cost /\ a \in Timed(l) /\ b \in Timed(l) BY <1>1 DEF Took, Timed
<1>3. 1 .. 3 = {a, b, odd} BY <1>1
<1>4. Cardinality({a, b}) = 2 /\ IsFiniteSet({a, b}) /\ Cardinality({a, b, odd}) = 3 /\ IsFiniteSet({a, b, odd})
  <2>1. a # b /\ a # odd /\ b # odd BY <1>1
  <2> HIDE DEF others
  <2>2. IsFiniteSet({a, b}) /\ Cardinality({a, b}) = 2 BY <2>1, TwoElements
  <2>3. IsFiniteSet({a, b, odd}) /\ Cardinality({a, b, odd}) = 3 BY <2>1, ThreeElements
  <2>4. QED BY <2>2, <2>3
<1>5. Timed(l) \subseteq {a, b, odd} BY <1>3 DEF Timed
<1>6. ASSUME NEW n \in {1, 2}, n = 2 \/ odd \notin Timed(l)
      PROVE  NthTime(l, n) = cost
  <2> DEFINE times == {Took(i, l) : i \in Timed(l)}
             fits(t) == /\ Cardinality({i \in Timed(l) : Took(i, l) < t}) < n
                        /\ Cardinality({i \in Timed(l) : Took(i, l) <= t}) >= n
  <2>1. odd \in Timed(l) => Took(odd, l) \in {cost, 2 * cost} BY DEF Timed, Took
  <2>2. cost \in times BY <1>2
  <2>3. fits(cost)
    <3>1. \A i \in Timed(l) : Took(i, l) >= cost /\ ~(Took(i, l) < cost) BY <1>2, <1>5, <2>1
    <3>2. {i \in Timed(l) : Took(i, l) < cost} = {} BY <3>1
    <3>3. Cardinality({i \in Timed(l) : Took(i, l) < cost}) = 0 BY <3>2, FS_EmptySet
    <3> DEFINE T == {i \in Timed(l) : Took(i, l) <= cost}
    <3>4. {a, b} \subseteq T /\ T \subseteq {a, b, odd} BY <1>2, <1>5
    <3> HIDE DEF T
    <3>5. Cardinality(T) >= 2 /\ Cardinality(T) \in Nat
      <4>1. IsFiniteSet(T) BY <1>4, <3>4, FS_Subset
      <4>2. Cardinality({a, b}) <= Cardinality(T) BY <3>4, <4>1, FS_Subset
      <4>3. QED BY <1>4, <4>1, <4>2, FS_CardinalityType
    <3>6. QED BY <3>3, <3>5 DEF T
  <2>4. ASSUME NEW t \in times, fits(t) PROVE t = cost
    <3> SUFFICES ASSUME t # cost PROVE FALSE
      OBVIOUS
    <3>1. PICK i \in Timed(l) : t = Took(i, l) BY <2>4
    <3>2. i = odd BY <1>2, <1>5, <3>1
    <3>3. n = 2 /\ t = 2 * cost BY <1>6, <2>1, <3>1, <3>2
    <3> DEFINE T == {j \in Timed(l) : Took(j, l) < t}
    <3>4. {a, b} \subseteq T /\ T \subseteq {a, b, odd} BY <1>2, <1>5, <3>3
    <3>5. Cardinality(T) < n BY <2>4
    <3> HIDE DEF T
    <3>6. Cardinality({a, b}) <= Cardinality(T) /\ Cardinality(T) \in Nat
      <4>1. IsFiniteSet(T) BY <1>4, <3>4, FS_Subset
      <4>2. QED BY <3>4, <4>1, FS_Subset, FS_CardinalityType
    <3>7. QED BY <1>4, <3>3, <3>5, <3>6
  <2>5. (CHOOSE t \in times : fits(t)) = cost
    <3> HIDE DEF times, fits
    <3>1. QED BY <2>2, <2>3, <2>4
  <2>6. QED BY <2>5 DEF NthTime
<1>7. CASE odd \in Timed(l)
  <2>1. Timed(l) = {a, b, odd} BY <1>2, <1>5, <1>7
  <2>2. Cardinality(Timed(l)) = 3 BY <1>4, <2>1
  <2>3. (3 + 1) \div 2 = 2 /\ 3 \div 2 + 1 = 2 OBVIOUS
  <2>4. TwiceMedian(l) = NthTime(l, 2) + NthTime(l, 2) BY <2>2, <2>3 DEF TwiceMedian
  <2>5. QED BY <1>2, <1>6, <2>4
<1>8. CASE odd \notin Timed(l)
  <2>1. Timed(l) = {a, b} BY <1>2, <1>5, <1>8
  <2>2. Cardinality(Timed(l)) = 2 BY <1>4, <2>1
  <2>3. (2 + 1) \div 2 = 1 /\ 2 \div 2 + 1 = 2 OBVIOUS
  <2>4. TwiceMedian(l) = NthTime(l, 1) + NthTime(l, 2) BY <2>2, <2>3 DEF TwiceMedian
  <2>5. QED BY <1>2, <1>6, <1>8, <2>4
<1>9. QED BY <1>7, <1>8

-----------------------------------------------------------------------------
(* The budget.                                                             *)

Report == [times : UNION {[L -> SUBSET Nat] : L \in SUBSET Label}, failed : SUBSET Label, of : Nat]

(* What a report of the benchmark says of the version it was made from.    *)
RunTells(r) ==
  /\ r.of \in DOMAIN versions /\ DOMAIN r.times = DOMAIN Labelled(r.of)
  /\ \A l \in DOMAIN r.times :
       IF l \in r.failed THEN r.times[l] \in {{}, {Cost(r.of, l)}, {2 * Cost(r.of, l)}}
       ELSE r.times[l] = {Cost(r.of, l)}

Captured(report, v) ==
  /\ v \in DOMAIN versions /\ DOMAIN report = DOMAIN Labelled(v)
  /\ \A l \in DOMAIN report : report[l] = 2 * Cost(v, l)

BudgetInd ==
  /\ versions \in Seq(Content) /\ now \in DOMAIN versions /\ committed \in DOMAIN versions
  /\ runs \in Seq(Report) /\ \A i \in DOMAIN runs : RunTells(runs[i])
  /\ DOMAIN result = DOMAIN NoResult
  /\ step \in {"baseline", "current", "budget"} => result.budget = "none"
  /\ steady /\ (step \in {"current", "budget"} \/ result.budget # "none") => Captured(result.baseline, result.base)
  /\ steady /\ (step = "budget" \/ result.budget # "none") => Captured(result.current, result.later)
  /\ result.budget = "kept" => CheckRegression(result.waived) = {}
  /\ result.budget = "broken" => CheckRegression(result.waived) # {}
  /\ result.budget \in {"none", "kept", "broken"}

LEMMA BudgetIsJudged == BudgetInd => BudgetIsTrue
<1> SUFFICES ASSUME BudgetInd, steady, result.budget \in {"kept", "broken"}
             PROVE  /\ result.budget = "kept" => \A l \in Common \ result.waived : ~Slower(l)
                    /\ result.budget = "broken" => \E l \in Common \ result.waived : Slower(l)
  BY DEF BudgetIsTrue
<1>1. Captured(result.baseline, result.base) /\ Captured(result.current, result.later) BY DEF BudgetInd
<1>2. DOMAIN result.baseline \intersect DOMAIN result.current = Common BY <1>1 DEF Captured, Common
<1>3. ASSUME NEW l \in Common
      PROVE  Slower(l) <=> result.baseline[l] > 0 /\ 10 * (result.current[l] - result.baseline[l]) > 2 * result.baseline[l]
  <2> DEFINE c == Cost(result.base, l)
             d == Cost(result.later, l)
  <2>1. c \in Nat /\ c > 0 /\ d \in Nat /\ d > 0 BY <1>1, LabelsHaveCosts DEF BudgetInd, Captured, Common
  <2>2. result.baseline[l] = 2 * c /\ result.current[l] = 2 * d BY <1>1 DEF Captured, Common
  <2>3. Slower(l) <=> 10 * (d - c) > 2 * c BY DEF Slower
  <2> HIDE DEF c, d
  <2>4. QED BY <2>1, <2>2, <2>3
<1>4. CheckRegression(result.waived) = {l \in Common \ result.waived : Slower(l)}
  BY <1>2, <1>3 DEF CheckRegression
<1>5. QED BY <1>4 DEF BudgetInd

LEMMA BudgetInitInd == ReleaseInit => BudgetInd
<1> SUFFICES ASSUME NEW c \in Content, ReleaseStartsFrom(c) PROVE BudgetInd
  BY DEF ReleaseInit
<1>1. versions \in Seq(Content) /\ DOMAIN versions = {1} BY DEF ReleaseStartsFrom
<1>2. runs \in Seq(Report) /\ DOMAIN runs = {} BY DEF ReleaseStartsFrom
<1>3. result.budget = "none" /\ step = "baseline" BY DEF ReleaseStartsFrom, NoResult
<1>4. QED BY <1>1, <1>2, <1>3 DEF BudgetInd, ReleaseStartsFrom

(* A version stays what it is when another is made.                        *)
LEMMA VersionsStay ==
  ASSUME versions \in Seq(Content), NEW c \in Content, versions' = Append(versions, c), NEW v \in DOMAIN versions
  PROVE  v \in DOMAIN versions' /\ Labelled(v)' = Labelled(v) /\ \A l : Cost(v, l)' = Cost(v, l)
<1>1. v \in DOMAIN versions' /\ versions'[v] = versions[v] BY AppendProperties
<1>2. Labelled(v)' = Labelled(v) BY <1>1 DEF Labelled, Sized
<1>3. QED BY <1>1, <1>2 DEF Cost

LEMMA EditInd == ASSUME BudgetInd, EditCheckout PROVE BudgetInd'
<1>1. PICK c \in Content : versions' = Append(versions, c) BY DEF EditCheckout
<1>2. versions \in Seq(Content) /\ UNCHANGED <<step, runs, result, steady, committed>>
  BY DEF BudgetInd, EditCheckout, Working
<1>3. versions' \in Seq(Content) /\ DOMAIN versions \subseteq DOMAIN versions' /\ Len(versions) + 1 \in DOMAIN versions'
  BY <1>1, <1>2, AppendProperties
<1>4. \A v \in DOMAIN versions : Labelled(v)' = Labelled(v) /\ \A l : Cost(v, l)' = Cost(v, l)
  BY <1>1, <1>2, VersionsStay
<1>5. now' \in DOMAIN versions' /\ committed' \in DOMAIN versions' BY <1>2, <1>3 DEF EditCheckout, BudgetInd
<1>6. (\A i \in DOMAIN runs : RunTells(runs[i]))'
  <2> SUFFICES ASSUME NEW i \in DOMAIN runs PROVE RunTells(runs[i])'
    BY <1>2
  <2>1. RunTells(runs[i]) /\ runs'[i] = runs[i] BY <1>2 DEF BudgetInd
  <2>2. QED BY <1>3, <1>4, <2>1 DEF RunTells
<1>7. Captured(result.baseline, result.base) => Captured(result.baseline, result.base)'
  BY <1>2, <1>3, <1>4 DEF Captured
<1>8. Captured(result.current, result.later) => Captured(result.current, result.later)'
  BY <1>2, <1>3, <1>4 DEF Captured
<1>9. \A waived : CheckRegression(waived)' = CheckRegression(waived) BY <1>2 DEF CheckRegression
<1>10. QED BY <1>2, <1>3, <1>5, <1>6, <1>7, <1>8, <1>9 DEF BudgetInd

(* What is in no step of the captures.                                     *)
LEMMA OtherStepsInd ==
  ASSUME BudgetInd, UNCHANGED <<versions, runs, steady>>,
         now' \in DOMAIN versions, committed' \in DOMAIN versions,
         step' = step \/ step' \notin {"baseline", "current", "budget"},
         DOMAIN result' = DOMAIN result,
         \A f \in {"baseline", "base", "current", "later", "budget", "waived"} : result'[f] = result[f]
  PROVE  BudgetInd'
<1>1. /\ result'.baseline = result.baseline /\ result'.base = result.base /\ result'.current = result.current
      /\ result'.later = result.later /\ result'.budget = result.budget /\ result'.waived = result.waived
  OBVIOUS
<1>2. (\A i \in DOMAIN runs : RunTells(runs[i]))'
  <2> SUFFICES ASSUME NEW i \in DOMAIN runs PROVE RunTells(runs[i])'
    OBVIOUS
  <2>1. RunTells(runs[i]) BY DEF BudgetInd
  <2>2. QED BY <2>1 DEF RunTells, Labelled, Sized, Cost
<1>3. Captured(result.baseline, result.base)' <=> Captured(result.baseline, result.base)
  BY <1>1 DEF Captured, Labelled, Sized, Cost
<1>4. Captured(result.current, result.later)' <=> Captured(result.current, result.later)
  BY <1>1 DEF Captured, Labelled, Sized, Cost
<1>5. CheckRegression(result.waived)' = CheckRegression(result.waived) BY <1>1 DEF CheckRegression
<1>6. QED BY <1>1, <1>2, <1>3, <1>4, <1>5 DEF BudgetInd

LEMMA BenchmarkInd == ASSUME BudgetInd, RunBenchmark PROVE BudgetInd'
<1>1. PICK l \in DOMAIN Labelled(now), mishap \in {"none", "error", "slow"} :
        runs' = Append(runs,
          [times  |-> [m \in DOMAIN Labelled(now) |-> TimeOneBuild(m, IF m = l THEN mishap ELSE "none")],
           failed |-> IF mishap = "none" THEN {} ELSE {l}, of |-> now])
  BY DEF RunBenchmark
<1> DEFINE times == [m \in DOMAIN Labelled(now) |-> TimeOneBuild(m, IF m = l THEN mishap ELSE "none")]
           failed == IF mishap = "none" THEN {} ELSE {l}
           r == [times |-> times, failed |-> failed, of |-> now]
<1>2. now \in DOMAIN versions /\ versions \in Seq(Content) /\ now \in Nat BY DEF BudgetInd
<1>3. DOMAIN Labelled(now) \subseteq Label /\ \A m \in DOMAIN Labelled(now) : Cost(now, m) \in Nat
  BY <1>2, LabelsHaveCosts
<1>4. \A m \in DOMAIN Labelled(now) :
        times[m] = TimeOneBuild(m, IF m = l THEN mishap ELSE "none") /\ times[m] \in SUBSET Nat
  BY <1>3 DEF TimeOneBuild
<1>5. \A m \in DOMAIN Labelled(now) : IF m \in failed THEN times[m] \in {{}, {Cost(now, m)}, {2 * Cost(now, m)}}
                                     ELSE times[m] = {Cost(now, m)}
  BY <1>4 DEF TimeOneBuild
<1>6. DOMAIN times = DOMAIN Labelled(now) /\ times \in [DOMAIN Labelled(now) -> SUBSET Nat] BY <1>4
<1>7. failed \in SUBSET Label BY <1>3
<1> HIDE DEF times, failed
<1>8. r \in Report BY <1>2, <1>3, <1>6, <1>7 DEF Report
<1>9. RunTells(r) BY <1>2, <1>5, <1>6 DEF RunTells
<1>10. runs' = Append(runs, r) /\ runs \in Seq(Report) BY <1>1 DEF times, failed, BudgetInd
<1>11. UNCHANGED <<versions, now, committed, step, result, steady>> BY DEF RunBenchmark, CheckoutIsLeft
<1> HIDE DEF r
<1>12. /\ runs' \in Seq(Report) /\ DOMAIN runs' = DOMAIN runs \union {Len(runs) + 1}
       /\ runs'[Len(runs) + 1] = r /\ \A i \in DOMAIN runs : runs'[i] = runs[i]
  BY <1>8, <1>10, AppendProperties
<1>13. (\A i \in DOMAIN runs : RunTells(runs[i]))'
  <2> SUFFICES ASSUME NEW i \in DOMAIN runs' PROVE RunTells(runs[i])'
    OBVIOUS
  <2>1. CASE i \in DOMAIN runs
    <3>1. RunTells(runs[i]) /\ runs'[i] = runs[i] BY <1>12, <2>1 DEF BudgetInd
    <3>2. QED BY <1>11, <3>1 DEF RunTells, Labelled, Sized, Cost
  <2>2. CASE i = Len(runs) + 1 BY <1>9, <1>11, <1>12, <2>2 DEF RunTells, Labelled, Sized, Cost
  <2>3. QED BY <1>12, <2>1, <2>2
<1>14. Captured(result.baseline, result.base)' <=> Captured(result.baseline, result.base)
  BY <1>11 DEF Captured, Labelled, Sized, Cost
<1>15. Captured(result.current, result.later)' <=> Captured(result.current, result.later)
  BY <1>11 DEF Captured, Labelled, Sized, Cost
<1>16. CheckRegression(result.waived)' = CheckRegression(result.waived) BY <1>11 DEF CheckRegression
<1>17. QED BY <1>11, <1>12, <1>13, <1>14, <1>15, <1>16 DEF BudgetInd

LEMMA OneAtMost ==
  ASSUME NEW S \in SUBSET (1 .. 3), Cardinality(S) < 2
  PROVE  \E o \in 1 .. 3 : S \subseteq {o}
<1>1. CASE S = {} BY <1>1
<1>2. CASE S # {}
  <2>1. PICK o \in S : TRUE BY <1>2
  <2>2. ASSUME NEW a \in S, a # o PROVE FALSE
    <3> DEFINE two == {o} \union {a}
    <3>1. IsFiniteSet({o}) /\ Cardinality({o}) = 1 BY FS_Singleton
    <3>2. a \notin {o} BY <2>2
    <3>3. Cardinality(two) = 1 + 1 BY <3>1, <3>2, FS_AddElement
    <3>4. IsFiniteSet(1 .. 3)
      <4>1. 1 \in Int /\ 3 \in Int OBVIOUS
      <4>2. QED BY <4>1, FS_Interval
    <3>5. IsFiniteSet(S) BY <3>4, FS_Subset
    <3>6. two \subseteq S BY <2>1
    <3> HIDE DEF two
    <3>7. Cardinality(two) <= Cardinality(S) /\ Cardinality(S) \in Nat
      BY <3>5, <3>6, FS_Subset, FS_CardinalityType
    <3>8. QED BY <3>3, <3>7
  <2>3. QED BY <2>1, <2>2
<1>3. QED BY <1>1, <1>2

(* Three steady builds of one version capture what its labels cost.        *)
LEMMA SteadyCapture ==
  ASSUME BudgetInd, Len(runs) = 3, Steadily
  PROVE  Captured(CaptureBaseline, runs[1].of)
<1> DEFINE v == runs[1].of
           labels == DOMAIN runs[1].times
<1>1. DOMAIN runs = 1 .. 3 /\ versions \in Seq(Content) BY DEF BudgetInd
<1>2. \A i \in 1 .. 3 : RunTells(runs[i]) /\ runs[i].of = v
  <2>1. \A i \in 1 .. 3 : i = 1 \/ i \in 2 .. 3 OBVIOUS
  <2>2. QED BY <1>1, <2>1 DEF BudgetInd, Steadily
<1>3. v \in DOMAIN versions /\ labels = DOMAIN Labelled(v) BY <1>2 DEF RunTells
<1>4. ASSUME NEW l \in labels PROVE Timed(l) # {} /\ TwiceMedian(l) = 2 * Cost(v, l)
  <2> DEFINE odd == {i \in 1 .. 3 : l \in runs[i].failed}
  <2>1. Cardinality(odd) < 2 BY DEF Steadily
  <2>2. PICK o \in 1 .. 3 : odd \subseteq {o}
    <3>1. odd \in SUBSET (1 .. 3) OBVIOUS
    <3> HIDE DEF odd
    <3>2. QED BY <2>1, <3>1, OneAtMost
  <2>3. \A i \in 1 .. 3 : l \in DOMAIN runs[i].times BY <1>2, <1>3 DEF RunTells
  <2>4. Cost(v, l) \in Nat /\ Cost(v, l) > 0 BY <1>1, <1>3, LabelsHaveCosts
  <2>5. \A i \in 1 .. 3 : i # o => runs[i].times[l] = {Cost(v, l)} BY <1>2, <2>2, <2>3 DEF RunTells
  <2>6. runs[o].times[l] \in {{}, {Cost(v, l)}, {2 * Cost(v, l)}} BY <1>2, <2>3 DEF RunTells
  <2>7. QED BY <1>1, <2>4, <2>5, <2>6, MedianOfThree
<1>5. CaptureBaseline = [l \in labels |-> TwiceMedian(l)] BY <1>4 DEF CaptureBaseline
<1> HIDE DEF labels
<1>6. QED BY <1>3, <1>4, <1>5 DEF Captured

LEMMA CaptureInd == ASSUME BudgetInd, EndCapture PROVE BudgetInd'
<1>1. /\ step \in {"baseline", "current"} /\ Len(runs) = 3 /\ runs' = << >>
      /\ UNCHANGED <<versions, now, committed>>
  BY DEF EndCapture, CheckoutIsLeft
<1>2. runs' \in Seq(Report) /\ (\A i \in DOMAIN runs : RunTells(runs[i]))' BY <1>1
<1>3. \A report, v : Captured(report, v)' <=> Captured(report, v) BY <1>1 DEF Captured, Labelled, Sized, Cost
<1>4. result.budget = "none" /\ DOMAIN result = DOMAIN NoResult BY <1>1 DEF BudgetInd
<1>5. CASE ~Capturable
  <2>1. step' = "done" /\ UNCHANGED <<result, steady>> BY <1>5 DEF EndCapture
  <2>2. QED BY <1>1, <1>2, <1>4, <2>1 DEF BudgetInd
<1>6. CASE Capturable /\ step = "baseline"
  <2>1. /\ steady' = (steady /\ Steadily) /\ step' = "current"
        /\ result' = [result EXCEPT !.baseline = CaptureBaseline, !.base = runs[1].of]
    BY <1>6 DEF EndCapture
  <2>2. /\ DOMAIN result' = DOMAIN NoResult /\ result'.baseline = CaptureBaseline /\ result'.base = runs[1].of
        /\ result'.budget = "none"
    BY <1>4, <2>1 DEF NoResult
  <2>3. steady' => Captured(result.baseline, result.base)'
    <3> SUFFICES ASSUME steady' PROVE Captured(result.baseline, result.base)'
      OBVIOUS
    <3>1. Captured(CaptureBaseline, runs[1].of) BY <1>1, <2>1, SteadyCapture
    <3> DEFINE b == CaptureBaseline
               of == runs[1].of
    <3>2. result'.baseline = b /\ result'.base = of /\ Captured(b, of) BY <2>2, <3>1
    <3> HIDE DEF b, of
    <3>3. QED BY <1>1, <3>2 DEF Captured, Labelled, Sized, Cost
  <2>4. QED BY <1>1, <1>2, <2>1, <2>2, <2>3 DEF BudgetInd
<1>7. CASE Capturable /\ step = "current"
  <2>1. /\ steady' = (steady /\ Steadily) /\ step' = "budget"
        /\ result' = [result EXCEPT !.current = CaptureBaseline, !.later = runs[1].of]
    BY <1>7 DEF EndCapture
  <2>2. /\ DOMAIN result' = DOMAIN NoResult /\ result'.current = CaptureBaseline /\ result'.later = runs[1].of
        /\ result'.budget = "none" /\ result'.baseline = result.baseline /\ result'.base = result.base
    BY <1>4, <2>1 DEF NoResult
  <2>3. steady' => Captured(result.current, result.later)'
    <3> SUFFICES ASSUME steady' PROVE Captured(result.current, result.later)'
      OBVIOUS
    <3>1. Captured(CaptureBaseline, runs[1].of) BY <1>1, <2>1, SteadyCapture
    <3> DEFINE b == CaptureBaseline
               of == runs[1].of
    <3>2. result'.current = b /\ result'.later = of /\ Captured(b, of) BY <2>2, <3>1
    <3> HIDE DEF b, of
    <3>3. QED BY <1>1, <3>2 DEF Captured, Labelled, Sized, Cost
  <2>4. steady' => Captured(result.baseline, result.base)'
    <3>1. steady' => Captured(result.baseline, result.base) BY <1>7, <2>1 DEF BudgetInd
    <3>2. QED BY <1>1, <2>2, <3>1 DEF Captured, Labelled, Sized, Cost
  <2>5. QED BY <1>1, <1>2, <2>1, <2>2, <2>3, <2>4 DEF BudgetInd
<1>8. QED BY <1>1, <1>5, <1>6, <1>7

LEMMA JudgeInd == ASSUME BudgetInd, JudgeBudget PROVE BudgetInd'
<1>1. step = "budget" /\ step' = "first" /\ UNCHANGED <<versions, now, committed, runs, steady>>
  BY DEF JudgeBudget, CheckoutIsLeft
<1>2. PICK waived : result' = [result EXCEPT !.waived = waived,
                                            !.budget = IF CheckRegression(waived) = {} THEN "kept" ELSE "broken"]
  BY DEF JudgeBudget
<1>3. /\ DOMAIN result' = DOMAIN NoResult /\ result'.waived = waived
      /\ result'.budget = IF CheckRegression(waived) = {} THEN "kept" ELSE "broken"
      /\ result'.baseline = result.baseline /\ result'.base = result.base
      /\ result'.current = result.current /\ result'.later = result.later
  BY <1>2 DEF BudgetInd, NoResult
<1>4. CheckRegression(result.waived)' = CheckRegression(waived) BY <1>3 DEF CheckRegression
<1>5. (\A i \in DOMAIN runs : RunTells(runs[i]))'
  <2> SUFFICES ASSUME NEW i \in DOMAIN runs PROVE RunTells(runs[i])'
    BY <1>1
  <2>1. RunTells(runs[i]) BY DEF BudgetInd
  <2>2. QED BY <1>1, <2>1 DEF RunTells, Labelled, Sized, Cost
<1>6. steady => Captured(result.baseline, result.base)'
  <2>1. steady => Captured(result.baseline, result.base) BY <1>1 DEF BudgetInd
  <2>2. QED BY <1>1, <1>3, <2>1 DEF Captured, Labelled, Sized, Cost
<1>7. steady => Captured(result.current, result.later)'
  <2>1. steady => Captured(result.current, result.later) BY <1>1 DEF BudgetInd
  <2>2. QED BY <1>1, <1>3, <2>1 DEF Captured, Labelled, Sized, Cost
<1>8. QED BY <1>1, <1>3, <1>4, <1>5, <1>6, <1>7 DEF BudgetInd

LEMMA BudgetStepInd == BudgetInd /\ [ReleaseNext]_releaseVars => BudgetInd'
<1> SUFFICES ASSUME BudgetInd, [ReleaseNext]_releaseVars PROVE BudgetInd'
  OBVIOUS
<1>0. now \in DOMAIN versions /\ committed \in DOMAIN versions /\ DOMAIN result = DOMAIN NoResult BY DEF BudgetInd
<1>1. CASE EditCheckout BY <1>1, EditInd
<1>2. CASE CommitCheckout \/ GoBack BY <1>0, <1>2, OtherStepsInd DEF CommitCheckout, GoBack, Working
<1>3. CASE RunBenchmark BY <1>3, BenchmarkInd
<1>4. CASE EndCapture BY <1>4, CaptureInd
<1>5. CASE JudgeBudget BY <1>5, JudgeInd
<1>6. CASE FirstBuild BY <1>0, <1>6, OtherStepsInd DEF FirstBuild, CheckoutIsLeft, NoResult
<1>7. CASE SecondBuild BY <1>0, <1>7, OtherStepsInd DEF SecondBuild, CheckoutIsLeft, NoResult
<1>8. CASE MeasureSpeedup BY <1>0, <1>8, OtherStepsInd DEF MeasureSpeedup, CheckoutIsLeft
<1>9. CASE ReportWarnings BY <1>0, <1>9, OtherStepsInd DEF ReportWarnings, CheckoutIsLeft
<1>10. CASE Assemble
  <2>1. step = "assemble" /\ UNCHANGED <<versions, now, committed, runs, measured, steady>>
    BY <1>10 DEF Assemble, CheckoutIsLeft
  <2>2. PICK requireClean \in BOOLEAN :
          result' = [result EXCEPT !.required = requireClean] /\ step' \in {"revision", "done"}
    BY <1>10 DEF Assemble
  <2>3. /\ DOMAIN result' = DOMAIN result
        /\ \A f \in {"baseline", "base", "current", "later", "budget", "waived"} : result'[f] = result[f]
    BY <1>0, <2>2 DEF NoResult
  <2>4. QED BY <1>0, <2>1, <2>2, <2>3, OtherStepsInd
<1>11. CASE CurrentRevision BY <1>0, <1>11, OtherStepsInd DEF CurrentRevision, CheckoutIsLeft, NoResult
<1>12. CASE UNCHANGED releaseVars BY <1>0, <1>12, OtherStepsInd DEF releaseVars
<1>13. QED BY <1>1, <1>2, <1>3, <1>4, <1>5, <1>6, <1>7, <1>8, <1>9, <1>10, <1>11, <1>12 DEF ReleaseNext

(* Steady captures are of what the labels of their version cost.           *)
THEOREM BudgetInvariant == ReleaseSpec => []BudgetInd
<1>1. ReleaseInit => BudgetInd BY BudgetInitInd
<1>2. BudgetInd /\ [ReleaseNext]_releaseVars => BudgetInd' BY BudgetStepInd
<1>3. QED BY <1>1, <1>2, PTL DEF ReleaseSpec

(* Whatever the programs of the corpus, their sizes and their costs, and   *)
(* whoever edits, commits or goes back meanwhile: evidence for which a     *)
(* clean tree was required names the revision its measurements were made   *)
(* from, if they all were made from what is in the tree; and if no label   *)
(* met two mishaps, the budget is kept only if no fixture they share has   *)
(* become slower by more than a fifth without a waiver, and broken only if *)
(* one has.                                                                *)
THEOREM EvidenceIsTrue == ReleaseSpec => []EvidenceIsOfItsRevision
<1>1. ReleaseSpec => []RevisionIsMeasured BY RevisionsAreMeasured
<1>2. ReleaseSpec => []BudgetInd BY BudgetInvariant
<1>3. BudgetInd => BudgetIsTrue BY BudgetIsJudged
<1>4. RevisionIsMeasured /\ BudgetIsTrue => EvidenceIsOfItsRevision BY DEF EvidenceIsOfItsRevision
<1>5. QED BY <1>1, <1>2, <1>3, <1>4, PTL
=============================================================================
