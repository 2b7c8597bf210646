------------------------------ MODULE MCChecks ------------------------------
(***************************************************************************)
(* Instances of the modules about the checks of the repository: manifests  *)
(* for the harnesses, texts of .gitmodules, milestone catalogues, texts    *)
(* for the guards to read, and versions to measure.                        *)
(***************************************************************************)
EXTENDS Corpora, Gitlinks, TaskCatalogue, SourceGuards, Release, TLC

-----------------------------------------------------------------------------
(* Manifests of up to two rows that depart from a sound row in any one     *)
(* way, of three for the pools, and the lists of the other harnesses.      *)

OnTheVm(does, exit) == [does |-> does, exit |-> exit]

SoundRow ==
  [form |-> "row", stem |-> "a", there |-> TRUE, project |-> FALSE, tag |-> "both", number |-> TRUE, want |-> 1,
   emit |-> "ok", says |-> FALSE, smlSays |-> FALSE, link |-> TRUE, exit |-> 1, prints |-> FALSE,
   noise |-> {}, known |-> FALSE, wrote |-> "this", fast |-> [exit |-> 1, wrote |-> "this"], vm |-> OnTheVm("ok", 1)]

BareLine == [form |-> "bare"]

Departures ==
  {SoundRow, BareLine, [SoundRow EXCEPT !.there = FALSE], [SoundRow EXCEPT !.there = FALSE, !.project = TRUE],
   [SoundRow EXCEPT !.there = FALSE, !.tag = "native"],
   [SoundRow EXCEPT !.number = FALSE], [SoundRow EXCEPT !.number = FALSE, !.tag = "native"],
   [SoundRow EXCEPT !.exit = 0], [SoundRow EXCEPT !.emit = "hang"], [SoundRow EXCEPT !.link = FALSE],
   [SoundRow EXCEPT !.prints = TRUE], [SoundRow EXCEPT !.fast.exit = 0], [SoundRow EXCEPT !.fast.wrote = "that"],
   [SoundRow EXCEPT !.fast = [exit |-> 0, wrote |-> "that"], !.known = TRUE],
   [SoundRow EXCEPT !.noise = {"panic"}], [SoundRow EXCEPT !.noise = {"overflow", "panic"}],
   [SoundRow EXCEPT !.noise = {"overflow", "panic"}, !.known = TRUE],
   [SoundRow EXCEPT !.noise = {"overflow", "finding"}, !.known = TRUE],
   [SoundRow EXCEPT !.noise = {"finding"}, !.known = TRUE],
   [SoundRow EXCEPT !.vm = OnTheVm("ok", 257)], [SoundRow EXCEPT !.vm = OnTheVm("ok", -255)],
   [SoundRow EXCEPT !.vm = OnTheVm("ok", 0)], [SoundRow EXCEPT !.vm = OnTheVm("no code", 0)],
   [SoundRow EXCEPT !.vm = OnTheVm("raises", 0)], [SoundRow EXCEPT !.stem = "b", !.want = 0, !.exit = 0, !.fast.exit = 0],
   [SoundRow EXCEPT !.stem = "b"]}

WellFormedRow == {d \in Departures \ {BareLine} : d.number}

Silent == [SoundRow EXCEPT !.vm = OnTheVm("silent", 0)]

RejectedRow == [SoundRow EXCEPT !.emit = "reject", !.says = TRUE, !.smlSays = TRUE]

Rejections ==
  {RejectedRow, BareLine, [RejectedRow EXCEPT !.there = FALSE], [RejectedRow EXCEPT !.says = FALSE, !.tag = "sml"],
   [RejectedRow EXCEPT !.smlSays = FALSE, !.tag = "native"], [RejectedRow EXCEPT !.emit = "ok"],
   [RejectedRow EXCEPT !.says = FALSE], [RejectedRow EXCEPT !.smlSays = FALSE]}

UpTo(n, set) == UNION {[1 .. m -> set] : m \in 0 .. n}

AllThere == [manifest |-> TRUE, compiler |-> TRUE, z3 |-> TRUE, vm |-> TRUE, probe |-> TRUE]

Lacking == {AllThere} \union {[AllThere EXCEPT ![x] = FALSE] : x \in DOMAIN AllThere}

On(h, manifests) == [harness : {h}, lines : manifests, tools : {AllThere}]
                    \union [harness : {h}, lines : {m \in manifests : Len(m) < 2}, tools : Lacking]

Few == {SoundRow, [SoundRow EXCEPT !.exit = 0], [SoundRow EXCEPT !.stem = "b"]}

Proven(line_, status_) == [line |-> line_, status |-> status_]

SomeVerified ==
  [form : {"file"}, exit : {0, 1}, annotated : {<< >>, <<"verified">>, <<"runtime", "verified">>, <<"none", "verified">>},
   contracts : UpTo(2, {Proven(1, "verified"), Proven(2, "verified"), Proven(1, "runtime")})]

SomeInjection ==
  [form : {"run"}, side : {"c", "vm"}, exit : {1, 42, 10, 0}, want : {1, 42}, panics : BOOLEAN]

SomeOutput == [form : {"output"}, exit : {0, 1}, output : {"x", "y"}]

SomeReport ==
  {[form |-> "report", exit |-> e, ensures |-> s, requires |-> q, summary |-> n] :
     e \in {0, 1}, s \in {<<"verified", "runtime", "verified">>, <<"verified", "verified", "verified">>, <<"verified">>},
     q \in {{"runtime"}, {"runtime", "verified"}}, n \in {<<2, 5>>, <<3, 4>>}}

SomeQuery == [form : {"query"}, exit : {0, 1}, output : UpTo(2, {"sat", "unsat"}), want : {<<"unsat">>, <<"unsat", "sat">>}]

SomeModes ==
  [form : {"modes"}, exit : {0, 1}, link : BOOLEAN, left : [runtime : {1, 2}, verified : 0 .. 2, requires : {1, 2}]]

SomeTomlRuns == {s \in [1 .. 2 -> [form : {"toml"}, flag : BOOLEAN, left : {-1, 1, 2}]] : ~s[1].flag /\ s[2].flag}

SomeFfi ==
  {s \in [1 .. 3 -> [form : {"check"}, check : {"c", "vm", "golden"}, built : BOOLEAN, clean : BOOLEAN]] :
     /\ s[1].check = "c" /\ s[2].check = "vm" /\ s[3].check = "golden"}

SomeSurvey ==
  UNION {On(h, UpTo(2, Departures)) : h \in ReadsFirst \ Batched}
  \union On("vm_behavioral_parity", UpTo(2, WellFormedRow))
  \union On("verify_behavior_corpus_vm", UpTo(2, Departures \union {Silent}))
  \union On("sv0_doctest", UpTo(2, {d \in WellFormedRow \union {Silent} : d.stem = "a" /\ d.there}))
  \union UNION {On(h, [1 .. 3 -> Few]) : h \in Pooled}
  \union UNION {On(h, UpTo(2, Rejections)) :
                  h \in {"verify_diagnostics_corpus_layout", "verify_diagnostics_corpus_behavior",
                         "verify_diagnostics_corpus_behavior_native"}}
  \union On("verify_vm_ffi_gate", UpTo(2, Rejections \ {BareLine}))
  \union On("verify_ffi_regression_corpus", SomeFfi)
  \union On("verify_string_alloc_failure", UpTo(2, SomeInjection))
  \union On("verify_corpus", UpTo(1, SomeVerified))
  \union On("verify_determinism", UpTo(2, SomeOutput))
  \union On("verify_sv0_verify_e2e", UpTo(2, SomeReport))
  \union On("verify_z3_driver", UpTo(2, SomeQuery))
  \union On("verify_contract_mode", UpTo(1, SomeModes))
  \union On("verify_contract_toml", SomeTomlRuns)

-----------------------------------------------------------------------------
(* Texts of .gitmodules: the sound one with a header, a setting or both    *)
(* before, in or after it, and those with two other settings.              *)

Inline(name_, key_, value_) == [form |-> "inline", name |-> name_, key |-> key_, value |-> value_]

Header == {Section(n) : n \in {"sv0cov", "Sv0cov", "sv0c"}} \union {[form |-> "other"], [form |-> "comment"]}

Setting ==
  {Key(k, v) : k \in {"path", "Path", "url"}, v \in {"ours", "alias", "else"}}
  \union {Key("branch", "else"), Key("path", "quoted"), Inline("sv0cov", "url", "else"), Inline("sv0c", "path", "ours")}

Inserted(l, cut) == SubSeq(GoodModules, 1, cut) \o l \o SubSeq(GoodModules, cut + 1, 3)

SomeModules ==
  {Inserted(<<l>>, cut) : l \in Header \union Setting, cut \in {0, 1, 3}}
  \union {Inserted(<<h, k>>, cut) : h \in Header, k \in Setting, cut \in {0, 3}}
  \union {<<Section("sv0cov"), k, Key("url", v)>> : k \in Setting, v \in {"ours", "alias", "else"}}

-----------------------------------------------------------------------------
(* Catalogues of up to two milestones beside a sound checkout, and one     *)
(* milestone beside every workspace file of up to four lines.              *)

Word(prefix_, number_) == [prefix |-> prefix_, number |-> number_, blanks |-> FALSE]

SomeId == {Word(p, 3) : p \in {"M", "m", "", "mcp-", "MCP-"}} \union {Word("M", 4)}

SomeNeedle == SomeId \union {[w EXCEPT !.blanks = TRUE] : w \in SomeId}

OneTask == [front |-> "closed", compact |-> FALSE, errors |-> FALSE]

SomeTasks ==
  {[f \in {"a", "b"} |-> OneTask], [f \in {"a"} |-> OneTask]}
  \union {[f \in {"a", "b"} |-> IF f = "a" THEN OneTask ELSE [front |-> x, compact |-> y, errors |-> z]] :
            x \in {"none", "open"}, y \in BOOLEAN, z \in BOOLEAN}

OneMilestone(id_, tasks_, fields_) == [id |-> id_, tasks |-> tasks_, fields |-> fields_]

SomeMilestone ==
  {OneMilestone(w, {"a"}, "well-formed") : w \in SomeId \union {NoId}}
  \union {OneMilestone(Word("M", 3), t, f) : t \in {{}, {"b"}}, f \in {"well-formed", "ill-formed", "other-hints"}}

WorkspaceLine ==
  {[form |-> h, names |-> {}] : h \in {"title", "longer-title", "heading"}}
  \union {[form |-> "names", names |-> n] : n \in {{"a"}, {"b"}}}

Titled == <<[form |-> "title", names |-> {}], [form |-> "names", names |-> {"a", "b"}]>>

SomeCatalogue ==
  [milestones : UNION {[1 .. n -> SomeMilestone] : n \in 0 .. 2}, allowlist : {{}, {"b"}},
   workspace : {Titled}, tasks : {[f \in {"a", "b"} |-> OneTask]}]
  \union [milestones : {<<OneMilestone(Word("M", 3), {"a"}, "well-formed")>>}, allowlist : {{}, {"b"}},
          workspace : UNION {[1 .. n -> WorkspaceLine] : n \in 0 .. 4}, tasks : {[f \in {"a"} |-> OneTask]}]
  \union [milestones : {<<OneMilestone(Word("M", 3), {"a", "b"}, "well-formed")>>}, allowlist : {{}},
          workspace : {Titled}, tasks : SomeTasks]

-----------------------------------------------------------------------------
(* Checklists of up to four lines, files of up to four chunks, drivers of  *)
(* up to five in their body, and the small texts of the other guards.      *)

Mention(prefix_, from_, to_) == [prefix |-> prefix_, from |-> from_, to |-> to_]

Cell(titled_, ids_) == <<[titled |-> titled_, ids |-> ids_]>>

TwoCells(c, d) == [form |-> "row", cells |-> <<c, d>>]

ChecklistLine ==
  {[form |-> "rule"], [form |-> "prose"], [form |-> "header", ids |-> {Mention("A", 1, 2), Mention("NEX", 3, 3)}],
   TwoCells(Cell(FALSE, {}), Cell(TRUE, {})), TwoCells(Cell(FALSE, {Mention("A", 1, 1)}), Cell(FALSE, {Mention("A", 3, 2)})),
   TwoCells(Cell(FALSE, {}), Cell(FALSE, {Mention("A", 1, 2)})),
   TwoCells(Cell(FALSE, {}) \o Cell(FALSE, {Mention("A", 2, 2)}), Cell(FALSE, {Mention("A", 1, 9)}))}

SomeChecklist ==
  [family : {"traceability"}, there : {TRUE}, active : {0, 1}, text : UpTo(4, ChecklistLine),
   catalog : {<<"A", 1>> :> 0 @@ <<"A", 2>> :> 1 @@ <<"A", 3>> :> 2}]
  \union [family : {"traceability"}, there : BOOLEAN, active : {0}, text : {<<>>}, catalog : {<<"A", 1>> :> 1}]

CommentChunk == {<<c>> : c \in {"/", "*", "nl", "quote", "tick", "bslash"}} \union {<<"/", "*">>, <<"*", "/">>, <<"*", "*">>}

SomeCommented ==
  [family : {"nesting"}, there : {TRUE}, text : {FlattenSeq(s) : s \in UpTo(4, CommentChunk)}]
  \union {[family |-> "nesting", there |-> FALSE, text |-> << >>]}

DriverChunk ==
  {<<s, "(", ")", ";">> : s \in {"tokenize", "parse", "emit"}}
  \union {<<"lbrace">>, <<"rbrace">>, <<"fn", "sp">>, <<"/", "/">>, <<"nl">>}

Plan == [count |-> 7, twoMore |-> TRUE, names |-> TRUE, sketches |-> TRUE, parses |-> FALSE]

Signature == {<<"(", ")", "lbrace">>, <<"(", "a", ")", "->", "i32", "lbrace">>, <<"(", ")", "->", "lbrace">>, <<"(", "lbrace", ")", "a", "lbrace">>}

Declarations == FlattenSeq([s \in 1 .. 3 |-> <<"fn", "sp", Stages[s], "(", ")", "lbrace", "rbrace", "nl">>])

DriverOf(begins, body) == Declarations \o <<"fn", "sp", "compile">> \o begins \o FlattenSeq(body) \o <<"rbrace">>

SomePlan ==
  {Plan, [Plan EXCEPT !.count = 8], [Plan EXCEPT !.twoMore = FALSE], [Plan EXCEPT !.names = FALSE],
   [Plan EXCEPT !.sketches = FALSE], [Plan EXCEPT !.parses = TRUE]}

SomeDriver ==
  [family : {"pipeline"}, main : {Plan}, lists : {TRUE},
   driver : {DriverOf(<<"(", ")", "lbrace">>, s) : s \in UpTo(4, DriverChunk)}]
  \union [family : {"pipeline"}, main : SomePlan, lists : BOOLEAN,
          driver : {DriverOf(begins, <<<<"tokenize", "(">>, <<"parse", "(">>, <<"emit", "(">>>>) : begins \in Signature}
                   \union {<< >>, Declarations}]

SomeAssembly ==
  [family : {"dce"}, compiles : {TRUE},
   asm : UpTo(4, {<<"label", "explicit">>, <<"label", "naive">>, <<"label", "other">>, <<"local">>, <<"store">>})]
  \union {[family |-> "dce", compiles |-> FALSE, asm |-> << >>]}

SomeExtern == [family : {"extern"}, text : UpTo(4, {"extern", "doc", "blank", "code"})]

MessageLine ==
  {[kind |-> k, agent |-> a, hash |-> FALSE] : k \in {"trailer", "credit"}, a \in BOOLEAN}
  \union {[kind |-> k, agent |-> TRUE, hash |-> h] : k \in {"signature", "topic"}, h \in BOOLEAN}
  \union {[kind |-> "credit", agent |-> TRUE, hash |-> TRUE], [kind |-> "scissors", agent |-> FALSE, hash |-> TRUE]}

SomeMessage == [family : {"commit-msg"}, given : BOOLEAN, message : UpTo(3, MessageLine)]

SomeSlices ==
  [family : {"raise"}, there : BOOLEAN, files : {{"f"}, {"f", "g"}}, raising : SUBSET {"f", "g"},
   slices : {"M3-S-004" :> {"f"} @@ "M3-S-013" :> {"f", "g"}},
   activeSlices : SUBSET {"M3-S-004", "M3-S-013", "M3-S-014", "M3-S-099"}]

FileLine(file_, pad_, gap_) == [form |-> "file", file |-> file_, pad |-> pad_, gap |-> gap_]

ListLine == {[form |-> "blank"], [form |-> "comment"]} \union {FileLine(f, FALSE, "none") : f \in {"a", "b"}}
            \union {FileLine("a", TRUE, "none"), FileLine("a", FALSE, "space"), FileLine("a", FALSE, "tab")}

SomeList == [there : {TRUE}, text : UpTo(2, ListLine)] \union {[there |-> FALSE, text |-> << >>]}

ShortList == {l \in SomeList : Len(l.text) < 2}

SomeLists ==
  [family : {"parity"}, manifest : SomeList, sources : SomeList, tier : ShortList, lib : {{"a"}}, golden : {{"a"}, {}}]
  \union [family : {"parity"}, manifest : ShortList, sources : ShortList, tier : SomeList, lib : {{}, {"b"}}, golden : {{"a", "b"}}]

SomeExhibit ==
  SomeChecklist \union SomeCommented \union SomeDriver \union SomeAssembly \union SomeExtern \union SomeMessage
  \union SomeSlices \union SomeLists

-----------------------------------------------------------------------------
(* Versions that build at the old cost, at the limit of the budget and     *)
(* beyond it, and that gain or lose a program of the corpus.               *)

SomeSize == "small" :> 1 @@ "big" :> 2 @@ "huge" :> 3

Priced(there_, cost_, bigCost_) ==
  [there |-> there_,
   cost  |-> [p \in {"minimal", "small", "big", "huge", "project_modules"} |-> IF p = "big" THEN bigCost_ ELSE cost_]]

SomeContent ==
  {Priced({"small", "big", "project_modules"}, 10, 10), Priced({"small", "big", "huge"}, 12, 13), Priced({}, 13, 13)}

SomeWarningPolicy ==
  {[accepted |-> {"all"}, suppressed |-> {"w1"}, tracked |-> t, reasoned |-> r] : t \in {{}, {"w1"}, {"w2"}}, r \in BOOLEAN}
=============================================================================
