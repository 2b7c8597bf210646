------------------------------ MODULE MCTools ------------------------------
(***************************************************************************)
(* The tools that share no state with each other, which one of a run is at *)
(* work is settled at the start, and the others stay as they are.          *)
(***************************************************************************)
EXTENDS
  MCRequest, MCChecks, TaskTracking, Formatter, Dashboard, Companions, Pinning, Installation

CONSTANT Tool  \* the tools of a run

VARIABLE tool  \* the one that is at work

toolVars ==
  <<tool, requestVars, trackVars, fmtVars, dashVars, companionVars, pinVars, corpusVars, gitVars, catalogueVars,
    guardVars, installVars, releaseVars>>

-----------------------------------------------------------------------------
(* Task files: all of up to three lines of every form, four of fewer,      *)
(* nests of regions, and tables.                                           *)

Anchored(form, id, ingest, fields) ==
  [form |-> form, id |-> id, ingest |-> ingest, fields |-> fields]

Box(inline, id, done) ==
  [form |-> "checkbox", done |-> done, inline |-> inline, id |-> id, fields |-> TRUE]

Plainly(form) == [form |-> form]

Brackets ==
  {Anchored("standalone", "p", "none", TRUE), Anchored("begin", "p", "gfm", TRUE),
   Anchored("begin", "q", "numbered", FALSE), Anchored("begin", "q", "both", TRUE),
   Anchored("end", "none", "none", TRUE), Anchored("end", "q", "none", TRUE),
   Box("none", "none", FALSE)}

Sober ==
  {Anchored("standalone", "p", "none", TRUE), Anchored("begin", "p", "gfm", TRUE),
   Anchored("begin", "q", "numbered", TRUE), Anchored("begin", "p", "table", TRUE),
   Anchored("end", "none", "none", TRUE), Anchored("end", "p", "none", TRUE),
   Box("none", "none", TRUE), Box("garbled", "none", FALSE), Box("object", "q", FALSE),
   [form |-> "row", cells |-> "data", done |-> TRUE], Plainly("garbled"), Plainly("blank")}

AnyLine ==
  Sober \union {Anchored("standalone", "bad", "none", TRUE), Anchored("end", "bad", "none", TRUE),
                Plainly("numbered"), Plainly("prose")}

TableLine ==
  {[form |-> "row", cells |-> c, done |-> c = "data"] : c \in {"blank", "rule", "single", "header", "data"}}
  \union {Box("none", "none", TRUE), Plainly("blank")}

SomeFile ==
  UNION {[1 .. n -> AnyLine] : n \in 0 .. 3} \union [1 .. 4 -> Sober] \union [1 .. 5 -> Brackets]
  \union {<<Anchored("begin", "p", "table", TRUE)>> \o t \o <<Anchored("end", "p", "none", TRUE)>> :
            t \in [1 .. 4 -> TableLine]}

-----------------------------------------------------------------------------
(* Sources to format: everything that up to three chunks of source make,   *)
(* and up to five of the plain ones.                                       *)

Attr == <<"#", "[", "x", "]">>

PlainChunk == {Attr, <<"/", "/", "c">>, <<"/", "*", "*", "/">>, <<"nl">>, <<"sp">>, <<"a">>}

Chunk ==
  {Attr, <<"#", "sp", "[", "quote", "]", "quote", "]">>, <<"/", "/", "c">>,
   <<"/", "*", "nl", "*", "/">>, <<"nl">>, <<"sp">>, <<"a">>,
   <<"quote", "#", "[", "sp", "nl", "quote">>, <<"tick", "quote", "tick">>}

Concatenated(s) == FoldLeft(LAMBDA t, chunk : t \o chunk, << >>, s)

SomeSource ==
  {Concatenated(s) : s \in UNION {[1 .. n -> Chunk] : n \in 0 .. 3}
                           \union UNION {[1 .. n -> PlainChunk] : n \in 4 .. 5}}
  \union {KeepLayout \o Concatenated(s) : s \in [1 .. 3 -> PlainChunk]}

SomeBatch ==
  [check : {FALSE}, old : {<<t>> : t \in SomeSource}]
  \union [check : BOOLEAN, old : {<<<<"a">>, <<"a">> \o Attr \o <<"b">>, <<"a", "nl", "sp">>>>}]

-----------------------------------------------------------------------------
(* Commits of sv0cov, the last of them not fetched, and policies that name *)
(* one with the version or the registry of another.                        *)

Fact(version_, registry_, mode_) == [version |-> version_, registry |-> registry_, mode |-> mode_]

SomeFacts ==
  ("r1" :> Fact("1", "g1", "100755")) @@ ("r2" :> Fact("1", "g2", "100755"))
  @@ ("r3" :> Fact("2", "g1", "100644")) @@ ("r4" :> Fact("2", "g2", "100755"))

SomePolicy ==
  {[revision |-> "r1", version |-> "1", registry |-> "g2"],
   [revision |-> "r2", version |-> "2", registry |-> "g2"],
   [revision |-> "r4", version |-> "2", registry |-> "g2"]}

SomeEarlier ==
  {<<"r2", [revision |-> "r2", version |-> "1", registry |-> "g2"]>>, <<"r1", [revision |-> "r2", version |-> "1", registry |-> "g2"]>>,
   <<"r1", BadPolicy>>}

-----------------------------------------------------------------------------

SoundCheckout ==
  [milestones |-> <<OneMilestone(Word("M", 3), {"a"}, "well-formed")>>, allowlist |-> {},
   workspace |-> << >>, tasks |-> [f \in {"a"} |-> OneTask]]

RequestRests == StartsFrom([argv |-> << >>, toml |-> ReadToml(<< >>), disk |-> Plain,
                            env |-> NoVariables, chain |-> SoundChain])
TrackRests == TrackStartsFrom(<< >>)
FormatRests == FormatStartsFrom([check |-> TRUE, old |-> << >>])
CompanionsRest == CompanionsInit /\ defaultMap = None /\ binding = None
PinBegins == PinInit /\ (link = "r1" \/ Len(commits) = 1)
PinRests == PinInit /\ link = "r1" /\ Len(commits) = 1
CorpusRests ==
  /\ bytecode = [s \in VmStem |-> Nothing]
  /\ CorpusStartsFrom([harness |-> "verify_determinism", lines |-> << >>, tools |-> AllThere])
GitRests == isRepo = FALSE /\ GitStartsFrom("s1")
CatalogueRests == CatalogueStartsFrom(SoundCheckout)
GuardsRest == GuardsStartOn([family |-> "extern", text |-> << >>])
ReleaseRests == ReleaseStartsFrom(Priced({}, 13, 13))

AtWork(t, initial, resting) == IF tool = t THEN initial ELSE resting

ToolInit ==
  /\ tool \in Tool
  /\ AtWork("native-exe", RequestInit, RequestRests) /\ AtWork("task_rmd_tracking", TrackInit, TrackRests)
  /\ AtWork("fmt_sv0", FormatInit, FormatRests) /\ DashInit
  /\ AtWork("companions", CompanionsInit, CompanionsRest) /\ AtWork("coverage", PinBegins, PinRests)
  /\ AtWork("harness", CorpusInit, CorpusRests) /\ AtWork("gitlinks", GitInit, GitRests)
  /\ AtWork("milestones", CatalogueInit, CatalogueRests) /\ AtWork("guards", SourceGuardsInit, GuardsRest)
  /\ InstallInit /\ AtWork("release", ReleaseInit, ReleaseRests)

OthersStay ==
  /\ UNCHANGED tool
  /\ tool # "native-exe" => UNCHANGED requestVars
  /\ tool # "task_rmd_tracking" => UNCHANGED trackVars
  /\ tool # "fmt_sv0" => UNCHANGED fmtVars
  /\ tool # "dashboard" => UNCHANGED dashVars
  /\ tool # "companions" => UNCHANGED companionVars
  /\ tool # "coverage" => UNCHANGED pinVars
  /\ tool # "harness" => UNCHANGED corpusVars
  /\ tool # "gitlinks" => UNCHANGED gitVars
  /\ tool # "milestones" => UNCHANGED catalogueVars
  /\ tool # "guards" => UNCHANGED guardVars
  /\ tool # "install" => UNCHANGED installVars
  /\ tool # "release" => UNCHANGED releaseVars

ToolNext ==
  \/ tool = "native-exe" /\ RequestNext /\ OthersStay
  \/ tool = "task_rmd_tracking" /\ TrackNext /\ OthersStay
  \/ tool = "fmt_sv0" /\ FormatNext /\ OthersStay
  \/ tool = "dashboard" /\ DashNext /\ OthersStay
  \/ tool = "companions" /\ CompanionsNext /\ OthersStay
  \/ tool = "coverage" /\ PinNext /\ OthersStay
  \/ tool = "harness" /\ CorpusNext /\ OthersStay
  \/ tool = "gitlinks" /\ GitNext /\ OthersStay
  \/ tool = "milestones" /\ CatalogueNext /\ OthersStay
  \/ tool = "guards" /\ SourceGuardsNext /\ OthersStay
  \/ tool = "install" /\ InstallNext /\ OthersStay
  \/ tool = "release" /\ ReleaseNext /\ OthersStay

ToolSpec == ToolInit /\ [][ToolNext]_toolVars
=============================================================================
