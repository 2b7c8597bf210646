---------------------------- MODULE SourceGuards ----------------------------
(***************************************************************************)
(* The guards of sv0 test-guards and of the hooks that read a text line by *)
(* line, or symbol by symbol, and judge by patterns what only a parser     *)
(* could know: which requirements a checklist cites, where comments end,   *)
(* what a function calls, what the compiler left of a dead store, which    *)
(* declarations are documented, who signed a commit, where raise is used,  *)
(* and which files the lists of the parity harness name.                   *)
(*                                                                         *)
(* An exhibit is what the guards of a family read; there is one record of  *)
(* its own form for each.                                                  *)
(***************************************************************************)
EXTENDS SourceText

CONSTANTS
  Exhibit,  \* [family, ...]
  MaxSpan   \* the longest range of requirements that is taken for one

ASSUME SpanAssumption == MaxSpan \in Nat

VARIABLES
  exhibit,
  holds  \* the guards that exited 0; {"not yet"} before they ran

guardVars == <<exhibit, holds>>

GuardsStartOn(e) == exhibit = e /\ holds = {"not yet"}

SourceGuardsInit == \E e \in Exhibit : GuardsStartOn(e)

-----------------------------------------------------------------------------
(* verify_native_exe_traceability.  A line is the header of a section with *)
(* its ids, a row of a table, a rule of dashes, or prose.  A row has cells *)
(* and a cell pieces, more than one when there is a bar in it; a piece may *)
(* begin with "requirement", and mentions ids.                             *)

(* An id, or a range of them; a range that is not plausible counts not at  *)
(* all.                                                                    *)
IdsIn(mentions) ==
  UNION {{<<m.prefix, n>> : n \in m.from .. m.to} :
           m \in {x \in mentions : x.prefix \notin {"NEX", "AC", "OD"} /\ x.to <= x.from + MaxSpan}}

IsTableRow(l) == l.form \in {"row", "rule"}

SplitRow(l) == IF l.form = "row" THEN FlattenSeq(l.cells) ELSE << >>

RequirementColumn(l) ==
  LET titled == {c \in DOMAIN SplitRow(l) : SplitRow(l)[c].titled}
  IN IF titled = {} THEN 0 ELSE CHOOSE c \in titled : \A d \in titled : c <= d

CitedIn(l, c) == IF c \in DOMAIN SplitRow(l) THEN IdsIn(SplitRow(l)[c].ids) ELSE {}

NotInTable(cited_) == [cited |-> cited_, table |-> FALSE, column |-> 0, skip |-> FALSE]

(* A row with a rule below it is the head of a table.                      *)
HeadsTable(text, i) == IsTableRow(text[i]) /\ i < Len(text) /\ text[i + 1].form = "rule"

Headed(was, l) == [was EXCEPT !.table = TRUE, !.column = RequirementColumn(l), !.skip = TRUE]

ReadOn_inTable(was, text, i) ==
  LET l == text[i]
  IN IF was.skip THEN [was EXCEPT !.skip = FALSE]
     ELSE CASE l.form = "header"   -> NotInTable(was.cited \union IdsIn(l.ids))
            [] HeadsTable(text, i) -> Headed(was, l)
            [] was.table /\ IsTableRow(l) /\ ~HeadsTable(text, i) ->
                 [was EXCEPT !.cited = @ \union CitedIn(l, was.column)]
            [] OTHER               -> was

(* Whatever is no row ends the table; the line after the head of a table   *)
(* is skipped.                                                             *)
ReadOn(was, text, i) ==
  LET l == text[i]
  IN IF was.skip THEN [was EXCEPT !.skip = FALSE]
     ELSE CASE l.form = "header"   -> NotInTable(was.cited \union IdsIn(l.ids))
            [] HeadsTable(text, i) -> Headed(was, l)
            [] was.table /\ IsTableRow(l) /\ ~HeadsTable(text, i) ->
                 [was EXCEPT !.cited = @ \union CitedIn(l, was.column)]
            [] OTHER               -> NotInTable(was.cited)

ExtractCited(text) ==
  LET upTo[i \in 0 .. Len(text)] == IF i = 0 THEN NotInTable({}) ELSE ReadOn(upTo[i - 1], text, i)
  IN upTo[Len(text)].cited

(* The catalog gives each requirement the rank of its release.             *)
Active(e) == {r \in DOMAIN e.catalog : e.catalog[r] <= e.active}

RequirementsAreCited(e) == e.there /\ Active(e) \subseteq ExtractCited(e.text)

-----------------------------------------------------------------------------
(* check_sv0_block_comment_nesting                                         *)

LexerScan(text) == Scanned(text, {"quote", "tick"}, {})

NestedOpens(text) ==
  LET at == LexerScan(text)
  IN {i \in 1 .. Len(text) - 1 :
        at[i - 1].in = "block" /\ ~at[i - 1].half /\ text[i] = "/" /\ text[i + 1] = "*"}

Snares(text) == {i \in 1 .. Len(text) - 4 : SubSeq(text, i, i + 4) = <<"*", "*", "/", "*", "*">>}

CommentsAreFlat(e) == e.there /\ NestedOpens(e.text) = {} /\ Snares(e.text) = {}

-----------------------------------------------------------------------------
(* verify_m3_g6_pipeline_contract and verify_m3_g6_staging_driver_contract:*)
(* the driver is a text of symbols, of the other files there is what the   *)
(* guards look for.                                                        *)

Earliest(places) == CHOOSE i \in places : \A j \in places : i <= j

(* fn name ( ... ) -> ... { with nothing but that in front of the brace.   *)
Bodies(text, name_) ==
  {b \in DOMAIN text :
     text[b] = "lbrace" /\
     \E p \in Declared(text, {name_}) : \E c \in p + 1 .. b - 1 :
       /\ text[c] = ")" /\ \A k \in p + 1 .. c - 1 : text[k] # ")"
       /\ LET a == AfterBlank(text, c + 1)
          IN a = b \/ (a + 1 < b /\ text[a] = "->" /\ \A k \in a .. b - 1 : text[k] # "lbrace")}

Opens(text, b, i) == Cardinality({j \in b .. i : text[j] = "lbrace"})

Shuts(text, b, i) == Cardinality({j \in b .. i : text[j] = "rbrace"})

(* None when there is no such function or its braces do not match.         *)
BodyAfter(text, name_) ==
  IF Bodies(text, name_) = {} THEN {}
  ELSE LET b == Earliest(Bodies(text, name_))
           ends == {i \in b .. Len(text) : Opens(text, b, i) = Shuts(text, b, i)}
       IN IF ends = {} THEN {} ELSE {SubSeq(text, b + 1, Earliest(ends) - 1)}

Stages == <<"tokenize", "parse", "emit">>

CallsOf(body, name_) == {i \in 1 .. Len(body) - 1 : body[i] = name_ /\ body[i + 1] = "("}

DriverCallsInOrder(text) ==
  \E body \in BodyAfter(text, "compile") :
    /\ \A s \in 1 .. 3 : CallsOf(body, Stages[s]) # {}
    /\ \A s \in 1 .. 2 : Earliest(CallsOf(body, Stages[s])) < Earliest(CallsOf(body, Stages[s + 1]))

(* PHASE_COUNT returns 7 and the pipeline is two longer; a missing file    *)
(* has none of it.                                                         *)
PipelineHolds(e) == e.main.count = 7 /\ e.main.twoMore /\ e.main.names /\ DriverCallsInOrder(e.driver)

DeclaresSteps(text) ==
  \A name_ \in {"compile", "tokenize", "parse", "emit"} :
    \E i \in 1 .. Len(text) - 2 : SubSeq(text, i, i + 2) = <<"fn", "sp", name_>>

StagingHolds(e) == e.lists /\ e.main.sketches /\ ~e.main.parses /\ DeclaresSteps(e.driver)

-----------------------------------------------------------------------------
(* verify_fill_explicit_dce.  A line of assembly is the label of a         *)
(* function, which may be a clone of it, a label of the assembler, a store *)
(* or something else.                                                      *)

LabelsOf(asm, name_) == {i \in DOMAIN asm : asm[i] = <<"label", name_>>}

IsLabel(l) == l[1] = "label"

FunctionLines(asm, name_) ==
  LET first == Earliest(LabelsOf(asm, name_))
      later == {i \in first + 1 .. Len(asm) : IsLabel(asm[i])}
  IN first .. (IF later = {} THEN Len(asm) ELSE Earliest(later) - 1)

FillSurvives(e) ==
  /\ e.compiles /\ LabelsOf(e.asm, "naive") = {} /\ LabelsOf(e.asm, "explicit") # {}
  /\ \E i \in FunctionLines(e.asm, "explicit") : e.asm[i][1] = "store"

-----------------------------------------------------------------------------
(* verify_extern_c_caller_obligations: the line above, blank ones left     *)
(* out, is a doc line.                                                     *)

ExternsAreDocumented(e) ==
  \A i \in DOMAIN e.text : e.text[i] = "extern" =>
    \E j \in 1 .. i - 1 : e.text[j] = "doc" /\ \A k \in j + 1 .. i - 1 : e.text[k] = "blank"

-----------------------------------------------------------------------------
(* verify_commit_msg_no_ai_signoff.  A line is a trailer or a credit, of   *)
(* an agent or of a human, a signature of a machine, or a topic; it may    *)
(* begin with a hash.                                                      *)

MessageBody(message) == {l \in ToSet(message) : ~l.hash}

Attributes(l) == l.kind = "signature" \/ (l.kind \in {"trailer", "credit"} /\ l.agent)

NobodyElseSigned(e) == ~\E l \in MessageBody(e.message) : Attributes(l)

-----------------------------------------------------------------------------
(* verify_compiler_sv0_no_raise and verify_m3_g1_track_c.  A slice is some *)
(* files, M3-S-014 all that are there.                                     *)

SliceFiles(e, slice) == IF slice = "M3-S-014" THEN e.files ELSE e.slices[slice]

NoRaise(e) == e.there /\ e.files \intersect e.raising = {}

SlicesAreFree(e) ==
  \A s \in e.activeSlices :
    /\ e.there
    /\ s \in DOMAIN e.slices \union {"M3-S-014"}
    /\ SliceFiles(e, s) \subseteq e.files \ e.raising

-----------------------------------------------------------------------------
(* verify_vm_parity_manifest_bootstrap and verify_vm_parity_tier2_policy.  *)
(* A line of a list is blank, a comment or a file with white space around  *)
(* it, or none, and in it none, a space or a tab.  An entry is a file as a *)
(* reader spells it.                                                       *)

Entry(l, pad_, gap_) == [file |-> l.file, pad |-> pad_, gap |-> gap_]

FileLines(text) == {l \in ToSet(text) : l.form = "file"}

LoadPaths(text) == {Entry(l, FALSE, l.gap) : l \in FileLines(text)}

PolicyLines(text) == {Entry(l, FALSE, IF l.gap = "space" THEN "none" ELSE l.gap) : l \in FileLines(text)}

ManifestIsListed(e) ==
  e.manifest.there /\ e.sources.there /\ LoadPaths(e.manifest.text) \subseteq LoadPaths(e.sources.text)

(* The white space of an entry is in its stem, and no golden file has any. *)
TierIsGolden(e) ==
  /\ e.tier.there /\ e.manifest.there
  /\ PolicyLines(e.tier.text) # {}
  /\ \A x \in PolicyLines(e.tier.text) :
       x \in PolicyLines(e.manifest.text) /\ x.gap = "none" /\ x.file \in e.golden

(* What bootstrap-build gives the compiler: the lines of the list as they  *)
(* are, or whatever is in lib.                                             *)
BootstrapFills(e) ==
  LET listed == IF e.sources.there THEN {Entry(l, l.pad, l.gap) : l \in FileLines(e.sources.text)} ELSE {}
  IN IF listed = {} THEN {[file |-> f, pad |-> FALSE, gap |-> "none"] : f \in e.lib} ELSE listed

(* What the two legs of the harness compare: no white space at all.        *)
ParityCompares(list) ==
  IF list.there THEN {Entry(l, FALSE, "none") : l \in FileLines(list.text)} ELSE {}

-----------------------------------------------------------------------------

(* A text is a sequence of lines or of symbols; an entry has white space   *)
(* around it or it has none.                                               *)
ASSUME ExhibitAssumption ==
  \A e \in Exhibit :
    /\ e.family = "traceability" => e.text \in Seq(ToSet(e.text))
    /\ e.family = "nesting" => e.text \in Seq(STRING)
    /\ e.family = "pipeline" => e.driver \in Seq(STRING)
    /\ e.family = "dce" => e.asm \in Seq(ToSet(e.asm))
    /\ e.family = "commit-msg" => e.message \in Seq(ToSet(e.message))
    /\ e.family = "parity" => \A list \in {e.manifest, e.sources, e.tier} :
                               \A l \in FileLines(list.text) : l.pad \in BOOLEAN

GuardsOf(family) == CASE family = "pipeline" -> {"pipeline", "staging"}
                      [] family = "raise"    -> {"no raise", "slices"}
                      [] family = "parity"   -> {"manifest", "tier"}
                      [] OTHER               -> {family}

GuardHolds(guard, e) == CASE guard = "traceability" -> RequirementsAreCited(e)
                          [] guard = "nesting"      -> CommentsAreFlat(e)
                          [] guard = "pipeline"     -> PipelineHolds(e)
                          [] guard = "staging"      -> StagingHolds(e)
                          [] guard = "dce"          -> FillSurvives(e)
                          [] guard = "extern"       -> ExternsAreDocumented(e)
                          [] guard = "commit-msg"   -> NobodyElseSigned(e)
                          [] guard = "no raise"     -> NoRaise(e)
                          [] guard = "manifest"     -> ManifestIsListed(e)
                          [] guard = "tier"         -> TierIsGolden(e)
                          [] OTHER                  -> SlicesAreFree(e)

SourceGuardsNext ==
  /\ holds = {"not yet"} /\ UNCHANGED exhibit
  /\ holds' = {g \in GuardsOf(exhibit.family) : GuardHolds(g, exhibit)}

SourceGuardsSpec == SourceGuardsInit /\ [][SourceGuardsNext]_guardVars

-----------------------------------------------------------------------------
(* Properties.                                                             *)

(* A table as it is drawn: lines that are rows, as many as there are; the  *)
(* second is a rule and the first the head.                                *)
TableTop(text, i) ==
  CHOOSE s \in 1 .. i : (\A k \in s .. i : IsTableRow(text[k])) /\ (s > 1 => ~IsTableRow(text[s - 1]))

InBodyOfTable(text, i) ==
  /\ text[i].form = "row" /\ TableTop(text, i) + 2 <= i
  /\ text[TableTop(text, i) + 1].form = "rule"

DrawnWell(text) ==
  \A i \in DOMAIN text :
    /\ text[i].form = "rule" => i > 1 /\ text[i - 1].form = "row" /\ TableTop(text, i) = i - 1
    /\ text[i].form = "row" => \A c \in DOMAIN text[i].cells : Len(text[i].cells[c]) = 1

Cites(text, r) ==
  \E i \in DOMAIN text :
    \/ text[i].form = "header" /\ r \in IdsIn(text[i].ids)
    \/ InBodyOfTable(text, i) /\ r \in CitedIn(text[i], RequirementColumn(text[TableTop(text, i)]))

(* In a checklist with well drawn tables a requirement is cited when it    *)
(* stands in the head of a section or in the requirement column of the     *)
(* table its row belongs to, and nowhere else.                             *)
ChecklistIsRead ==
  exhibit.family = "traceability" /\ DrawnWell(exhibit.text) =>
    ("traceability" \in holds <=> exhibit.there /\ \A r \in Active(exhibit) : Cites(exhibit.text, r))

(* Every comment ends where it is first closed, so that whoever nests      *)
(* comments and whoever does not read the same code.                       *)
EndsAtFirstClose(text) ==
  LET at == LexerScan(text)
  IN \A i \in 1 .. Len(text) - 1 :
       at[i - 1].in = "code" /\ ~at[i - 1].half /\ at[i].in = "block" =>
         LET closes == {j \in i + 2 .. Len(text) - 1 : text[j] = "*" /\ text[j + 1] = "/"}
         IN closes # {} => at[Earliest(closes)].in = "code"

(* That is so in a file that passes; one that does not has a snare or a    *)
(* comment of which it is not so, be it closed or not.                     *)
CommentsAreRead ==
  exhibit.family = "nesting" /\ exhibit.there =>
    IF holds # {} THEN EndsAtFirstClose(exhibit.text)
    ELSE Snares(exhibit.text) # {} \/ ~EndsAtFirstClose(exhibit.text \o <<"*", "/">>)

(* No brace, call or declaration, and no piece of one, stands in a comment *)
(* or a string.                                                            *)
Plainspoken(text) ==
  \A i \in DOMAIN text : Masked(text)[i] # text[i] =>
    text[i] \notin {"lbrace", "rbrace", "(", ")", "->", "fn", "compile", "tokenize", "parse", "emit"}

(* A driver that passes both guards calls the three steps in this order,   *)
(* in code that stands in braces of the function, and has all three.       *)
DriverIsRead ==
  exhibit.family = "pipeline" /\ holds = {"pipeline", "staging"} /\ Plainspoken(exhibit.driver) =>
    LET code == Masked(exhibit.driver)
        within(i, b) == b < i /\ \A k \in b .. i : Opens(code, b, k) > Shuts(code, b, k)
    IN \E b \in Bodies(code, "compile"), t, p, e \in DOMAIN code :
         /\ code[t] = "tokenize" /\ code[p] = "parse" /\ code[e] = "emit"
         /\ t < p /\ p < e /\ within(t, b) /\ within(e, b)
         /\ \A i \in b .. p - 1 : code[i] = "emit" => code[i + 1] # "("
         /\ \A name_ \in ToSet(Stages) : \E i \in 2 .. Len(code) : code[i] = name_ /\ code[i - 1] = "sp"

(* What git commits of a message: what was given with -m as it is, else    *)
(* nothing below the scissors and no line with a hash.                     *)
IsCommitted(e, i) ==
  e.given \/ (~e.message[i].hash /\ \A j \in 1 .. i : e.message[j].kind # "scissors")

(* No attribution is committed past the hook, but for a line with a hash   *)
(* that was given with -m; and what is refused has one, in the message or  *)
(* in the text below the scissors.                                         *)
MessageIsRead ==
  exhibit.family = "commit-msg" /\ holds # {"not yet"} =>
    LET signed == {i \in DOMAIN exhibit.message : Attributes(exhibit.message[i])}
    IN /\ holds # {} => \A i \in signed : IsCommitted(exhibit, i) => exhibit.given /\ exhibit.message[i].hash
       /\ holds = {} => \E i \in signed : \/ IsCommitted(exhibit, i)
                                          \/ \E j \in 1 .. i : exhibit.message[j].kind = "scissors"

(* The first store under the label of the explicit fill is no store of     *)
(* another function.                                                       *)
StoreIsItsOwn ==
  exhibit.family = "dce" /\ holds = {"dce"} =>
    \E i, j \in DOMAIN exhibit.asm :
      /\ exhibit.asm[i] = <<"label", "explicit">> /\ exhibit.asm[j][1] = "store" /\ i < j
      /\ \A k \in i + 1 .. j : ~IsLabel(exhibit.asm[k])

(* No white space in a file name, and none around those of the list that   *)
(* bootstrap-build reads as it is.                                         *)
TypedPlainly(e) ==
  /\ \A list \in {e.manifest, e.sources, e.tier} : \A l \in FileLines(list.text) : l.gap = "none"
  /\ \A l \in FileLines(e.sources.text) : ~l.pad

(* Lists that are typed plainly are read alike by all their readers: what  *)
(* passes the guards is compiled by bootstrap-build before it is compared, *)
(* has a golden file to be compared with and is compared by both legs; and *)
(* of lists that are all there one that is refused names a file of which   *)
(* this is not so, or compares or compiles nothing of its own.             *)
ListsAreRead ==
  exhibit.family = "parity" /\ holds # {"not yet"} /\ TypedPlainly(exhibit) =>
    LET first == ParityCompares(exhibit.manifest)
        second == ParityCompares(exhibit.tier)
    IN /\ "manifest" \in holds => first \subseteq BootstrapFills(exhibit)
       /\ "tier" \in holds => second # {} /\ second \subseteq first /\ \A x \in second : x.file \in exhibit.golden
       /\ holds = {"manifest", "tier"} => second \subseteq BootstrapFills(exhibit)
       /\ (\A list \in {exhibit.manifest, exhibit.sources, exhibit.tier} : list.there) =>
            /\ "manifest" \notin holds => FileLines(exhibit.sources.text) = {} \/ ~(first \subseteq BootstrapFills(exhibit))
            /\ "tier" \notin holds => second = {} \/ \E x \in second : x \notin first \/ x.file \notin exhibit.golden

(* What the guards say of a text by patterns is what the text says.        *)
GuardsReadTheText ==
  holds # {"not yet"} =>
    /\ ChecklistIsRead /\ CommentsAreRead /\ DriverIsRead /\ MessageIsRead /\ StoreIsItsOwn /\ ListsAreRead
    /\ exhibit.family = "raise" /\ "slices" \in holds /\ "M3-S-014" \in exhibit.activeSlices => "no raise" \in holds
=============================================================================
