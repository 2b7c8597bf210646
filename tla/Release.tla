------------------------------ MODULE Release ------------------------------
(***************************************************************************)
(* The measurements of a release and the evidence assembled from them,     *)
(* while somebody edits the checkout, commits, or goes back to what was    *)
(* committed: three timed builds of every fixture as a baseline, three     *)
(* more later, the two compared, one program built twice and compared byte *)
(* by byte, builds in threads, the warnings of the corpus, and at last     *)
(* assemble_release_evidence, which is handed results.  Nothing in the     *)
(* code orders these; here they come one after the other.                  *)
(*                                                                         *)
(* A version of the checkout is which programs are there and how long each *)
(* takes to build.                                                         *)
(***************************************************************************)
EXTENDS Integers, Sequences, FiniteSets

CONSTANTS
  Content,  \* what a version may be: [there, cost]
  Size,     \* program of the corpus -> its size; of two of one size the later in the
            \* manifest counts as the larger
  WarningPolicy,  \* warning policies: [suppressed, tracked, accepted]
  Frail,    \* the labels whose builds may fail or be disturbed
  MaxVersion   \* how often somebody edits

ASSUME VersionAssumption == MaxVersion \in Nat

ASSUME SizeAssumption ==
  /\ IsFiniteSet(DOMAIN Size) /\ Size \in [DOMAIN Size -> Nat]
  /\ \A p, q \in DOMAIN Size : Size[p] = Size[q] => p = q

(* Every build takes time.                                                 *)
ASSUME ContentAssumption ==
  \A c \in Content : c.cost \in [DOMAIN Size \union {"minimal", "project_modules"} -> Nat \ {0}]

VARIABLES
  versions,   \* the contents so far
  now, committed,  \* which one is in the working tree, which one is HEAD
  step,
  runs,       \* the reports of the capture under way
  result,     \* what has come out of the steps
  measured,   \* history: the versions that went into the results
  steady      \* history: no capture met two mishaps of one label or two versions

releaseVars == <<versions, now, committed, step, runs, result, measured, steady>>

NoReport == [l \in {} |-> 0]

NoResult ==
  [baseline |-> NoReport, base |-> 0, current |-> NoReport, later |-> 0, budget |-> "none", waived |-> {},
   first |-> 0, class |-> "none", required |-> FALSE, revision |-> {}]

ReleaseStartsFrom(c) ==
  /\ versions = <<c>> /\ now = 1 /\ committed = 1 /\ step = "baseline" /\ runs = << >>
  /\ result = NoResult /\ measured = {} /\ steady = TRUE

ReleaseInit == \E c \in Content : ReleaseStartsFrom(c)

-----------------------------------------------------------------------------
(* Somebody at work.                                                       *)

Working == step # "done" /\ UNCHANGED <<step, runs, result, measured, steady>>

EditCheckout ==
  /\ Working /\ Len(versions) <= MaxVersion
  /\ \E c \in Content : versions' = Append(versions, c)
  /\ now' = Len(versions) + 1 /\ UNCHANGED committed

CommitCheckout == Working /\ committed # now /\ committed' = now /\ UNCHANGED <<versions, now>>

GoBack == Working /\ now # committed /\ now' = committed /\ UNCHANGED <<versions, committed>>

CheckoutIsLeft == UNCHANGED <<versions, now, committed>>

-----------------------------------------------------------------------------
(* native_exe_benchmark: labels, and the programs they stand for.  The     *)
(* median is the one after the smaller half.                               *)

Ranked(programs, n) == CHOOSE p \in programs : Cardinality({q \in programs : Size[q] < Size[p]}) = n

Sized(v) == versions[v].there \intersect DOMAIN Size

Labelled(v) ==
  LET corpus == IF Sized(v) = {} THEN {} ELSE {"median", "largest"}
      alone  == {"minimal"} \union ({"project_modules"} \intersect versions[v].there)
  IN [l \in alone \union corpus |-> CASE l = "median"  -> Ranked(Sized(v), Cardinality(Sized(v)) \div 2)
                                      [] l = "largest" -> Ranked(Sized(v), Cardinality(Sized(v)) - 1)
                                      [] OTHER         -> l]

Cost(v, l) == versions[v].cost[Labelled(v)[l]]

(* A build that raises leaves an error; one may also take longer.          *)
TimeOneBuild(l, mishap) == CASE mishap = "none"  -> {Cost(now, l)}
                             [] mishap = "error" -> {}
                             [] OTHER            -> {2 * Cost(now, l)}

RunBenchmark ==
  /\ step \in {"baseline", "current"} /\ Len(runs) < 3
  /\ \E l \in DOMAIN Labelled(now), mishap \in {"none", "error", "slow"} :
       /\ mishap = "none" \/ l \in Frail
       /\ runs' = Append(runs,
            [times  |-> [m \in DOMAIN Labelled(now) |-> TimeOneBuild(m, IF m = l THEN mishap ELSE "none")],
             failed |-> IF mishap = "none" THEN {} ELSE {l}, of |-> now])
  /\ measured' = IF step = "current" THEN measured \union {now} ELSE measured
  /\ CheckoutIsLeft /\ UNCHANGED <<step, result, steady>>

-----------------------------------------------------------------------------
(* native_exe_perf_regression: medians, here doubled, of the builds that   *)
(* raised nothing.  A label all of whose builds raise is in no report.     *)

Timed(l) == {i \in DOMAIN runs : runs[i].times[l] # {}}

Took(i, l) == CHOOSE t \in runs[i].times[l] : TRUE

NthTime(l, n) ==
  CHOOSE t \in {Took(i, l) : i \in Timed(l)} :
    /\ Cardinality({i \in Timed(l) : Took(i, l) < t}) < n
    /\ Cardinality({i \in Timed(l) : Took(i, l) <= t}) >= n

TwiceMedian(l) ==
  LET number == Cardinality(Timed(l))
  IN NthTime(l, (number + 1) \div 2) + NthTime(l, number \div 2 + 1)

CaptureBaseline == [l \in {m \in DOMAIN runs[1].times : Timed(m) # {}} |-> TwiceMedian(l)]

(* The labels are those of the first report; one that a later report lacks *)
(* raises.                                                                 *)
Capturable == \A i \in 2 .. 3 : DOMAIN runs[1].times \subseteq DOMAIN runs[i].times

Steadily ==
  /\ \A l \in DOMAIN runs[1].times : Cardinality({i \in 1 .. 3 : l \in runs[i].failed}) < 2
  /\ \A i \in 2 .. 3 : runs[i].of = runs[1].of

EndCapture ==
  /\ step \in {"baseline", "current"} /\ Len(runs) = 3 /\ runs' = << >>
  /\ \/ ~Capturable /\ step' = "done" /\ UNCHANGED <<result, steady>>
     \/ /\ Capturable /\ steady' = (steady /\ Steadily)
        /\ \/ /\ step = "baseline" /\ step' = "current"
              /\ result' = [result EXCEPT !.baseline = CaptureBaseline, !.base = runs[1].of]
           \/ /\ step = "current" /\ step' = "budget"
              /\ result' = [result EXCEPT !.current = CaptureBaseline, !.later = runs[1].of]
  /\ CheckoutIsLeft /\ UNCHANGED measured

(* More than 20 per cent, without a waiver that says why.                  *)
CheckRegression(waived) ==
  {l \in DOMAIN result.baseline \intersect DOMAIN result.current :
     /\ result.baseline[l] > 0 /\ l \notin waived
     /\ 10 * (result.current[l] - result.baseline[l]) > 2 * result.baseline[l]}

JudgeBudget ==
  /\ step = "budget" /\ step' = "first"
  /\ \E waived \in {{}, {"largest"}} :
       result' = [result EXCEPT !.waived = waived,
                                !.budget = IF CheckRegression(waived) = {} THEN "kept" ELSE "broken"]
  /\ CheckoutIsLeft /\ UNCHANGED <<runs, measured, steady>>

-----------------------------------------------------------------------------
(* native_exe_repro_harness.  Two files differ in some regions: the UUID   *)
(* of a Mach-O file, the last 1024 bytes, anywhere else, or in length.     *)

FirstBuild ==
  /\ step = "first" /\ step' = "second"
  /\ result' = [result EXCEPT !.first = now] /\ measured' = measured \union {now}
  /\ CheckoutIsLeft /\ UNCHANGED <<runs, steady>>

ClassifyComparison(differences, uuidsKnown) ==
  CASE differences = {} -> "byte-identical"
    [] uuidsKnown /\ "uuid" \in differences /\ differences \subseteq {"uuid", "tail"} -> "semantic-only"
    [] OTHER -> "divergent"

(* Another version of the compiler differs elsewhere or in length.         *)
SecondBuild ==
  /\ step = "second" /\ step' = "threads"
  /\ \E differences \in {{}, {"uuid", "tail"}, {"elsewhere"}, {"uuid", "length"}}, known \in BOOLEAN :
       /\ now # result.first => differences \intersect {"elsewhere", "length"} # {}
       /\ result' = [result EXCEPT !.class = ClassifyComparison(differences, known)]
  /\ measured' = measured \union {now}
  /\ CheckoutIsLeft /\ UNCHANGED <<runs, steady>>

(* native_exe_concurrent_perf: a build that raises in a thread raises      *)
(* after all have ended, and there is no speedup to report.                *)
MeasureSpeedup ==
  /\ step = "threads"
  /\ \E raised \in SUBSET {1, 2} : step' = IF raised = {} THEN "warnings" ELSE "done"
  /\ CheckoutIsLeft /\ UNCHANGED <<runs, result, measured, steady>>

-----------------------------------------------------------------------------
(* native_exe_warning_policy and native_exe_warning_report.                *)

PolicyIsSound(p) ==
  /\ p.accepted \intersect p.suppressed = {} /\ p.accepted \intersect p.tracked = {}
  /\ p.suppressed \intersect p.tracked = {} /\ p.reasoned

(* The return code of the compiler is not looked at.  A warning without a  *)
(* name is unclassified, and with one of those the report fails.           *)
Classified(p, given) == given \subseteq p.suppressed \union p.tracked

ReportWarnings ==
  /\ step = "warnings"
  /\ \E p \in WarningPolicy, given \in {{"w1"}, {"w1", "w2"}, {"w1", "unnamed"}}, emitted \in BOOLEAN :
       step' = IF /\ PolicyIsSound(p) /\ emitted /\ Classified(p, given) /\ given \intersect p.suppressed # {}
                  /\ p.tracked # {} => given \intersect p.tracked # {}
               THEN "assemble" ELSE "done"
  /\ CheckoutIsLeft /\ UNCHANGED <<runs, result, measured, steady>>

-----------------------------------------------------------------------------
(* native_exe_release_evidence: the tree is clean, if the caller requires  *)
(* it, the compilers and the conflicts on record are in order; then the    *)
(* revision is read.                                                       *)

IsTreeClean_always == TRUE

IsTreeClean == now = committed

MatrixIsSound(families) == \A i, j \in DOMAIN families : families[i] # "" /\ (i # j => families[i] # families[j])

NothingBlocks(conflicts) == <<"blocking", "open">> \notin conflicts

Assemble ==
  /\ step = "assemble"
  /\ \E requireClean \in BOOLEAN,
        families \in {<<"gcc", "clang">>, <<"gcc", "gcc">>, <<"gcc", "">>},
        conflicts \in {{<<"blocking", "open">>}, {<<"blocking", "resolved">>, <<"mitigated", "open">>}} :
       /\ step' = IF (requireClean => IsTreeClean) /\ MatrixIsSound(families) /\ NothingBlocks(conflicts)
                  THEN "revision" ELSE "done"
       /\ result' = [result EXCEPT !.required = requireClean]
  /\ CheckoutIsLeft /\ UNCHANGED <<runs, measured, steady>>

CurrentRevision ==
  /\ step = "revision" /\ step' = "done"
  /\ result' = [result EXCEPT !.revision = {committed}]
  /\ CheckoutIsLeft /\ UNCHANGED <<runs, measured, steady>>

ReleaseNext ==
  \/ EditCheckout \/ CommitCheckout \/ GoBack \/ RunBenchmark \/ EndCapture \/ JudgeBudget \/ FirstBuild
  \/ SecondBuild \/ MeasureSpeedup \/ ReportWarnings \/ Assemble \/ CurrentRevision

ReleaseSpec == ReleaseInit /\ [][ReleaseNext]_releaseVars

-----------------------------------------------------------------------------
(* Properties.                                                             *)

(* Evidence for which a clean tree was required names the version that was *)
(* measured, when that is all that was measured and it is still in the     *)
(* working tree, whatever was committed meanwhile.  Without the            *)
(* requirement the revision is HEAD, whatever the tree holds.              *)
RevisionIsMeasured == result.required /\ measured = {now} => result.revision \subseteq measured

(* Slower by more than a fifth, in truth.                                  *)
Slower(l) == 10 * (Cost(result.later, l) - Cost(result.base, l)) > 2 * Cost(result.base, l)

Common == DOMAIN Labelled(result.base) \intersect DOMAIN Labelled(result.later)

BudgetIsTrue ==
  /\ steady /\ result.budget = "kept" => \A l \in Common \ result.waived : ~Slower(l)
  /\ steady /\ result.budget = "broken" => \E l \in Common \ result.waived : Slower(l)

(* Evidence for which a clean tree was required names the revision its     *)
(* measurements were made from, unless somebody went from one version to   *)
(* another meanwhile; and the verdict on the budget is true of what the    *)
(* fixtures cost, when of the three builds of a fixture no two failed or   *)
(* were disturbed.                                                         *)
EvidenceIsOfItsRevision == RevisionIsMeasured /\ BudgetIsTrue
=============================================================================
