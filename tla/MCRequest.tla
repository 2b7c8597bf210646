----------------------------- MODULE MCRequest -----------------------------
(***************************************************************************)
(* The instance of Request for TLC, by the question: every command line of *)
(* up to three tokens, and of four when the last is the operand; the       *)
(* combinations of options that decide what is written where and in which  *)
(* mode, with each sv0.toml and disk; the compiler variables; the sources  *)
(* of a file and of a project; the state of the installation.              *)
(***************************************************************************)
EXTENDS Request

Shape == {"-o", "--project", "--cc", "--", "--verbose", "--quiet", "--keep-c",
          "--profile=fast", "--emit=c", "--coverage=map", "--target=vm", "a.sv0", "a", "-"}

Placed == <<"--contract-mode=disabled", "--contract-mode=verified", "--keep-c",
            "--build-record", "--coverage=instrument", "--coverage=map", "--emit=c">>

Pairs == {<<Placed[mn[1]], Placed[mn[2]]>> : mn \in {mn \in (1 .. 7) \X (1 .. 7) : mn[1] < mn[2]}}

Outputs2 == {<<"-o", "a.sv0covmap">>, <<"-o", "link">>, <<"-o", "b.sv0b">>, <<"-o", "x/a">>,
             <<"--coverage-map", "k.c">>, <<"--keep-c=k.c">>, <<"--build-record=k.c">>,
             <<"--coverage-tier=custom", "--coverage-max-counters", "number">>,
             <<"--coverage-tier=custom", "--coverage-max-counters", "huge", "--coverage-max-bytes", "number">>,
             <<"--coverage-tier=large">>, <<"--cc", "gcc">>, <<"--message-format=json">>, << >>}

Input == {<<"a.sv0">>, <<"--project", "a">>, <<"sub/a.sv0">>}

SomeSplit ==
  ("--profile=fast" :> <<"--profile", "fast">>) @@ ("--emit=c" :> <<"--emit", "c">>)
  @@ ("--coverage=map" :> <<"--coverage", "map">>)
  @@ ("--coverage=instrument" :> <<"--coverage", "instrument">>)
  @@ ("--coverage-tier=custom" :> <<"--coverage-tier", "custom">>)
  @@ ("--coverage-tier=large" :> <<"--coverage-tier", "large">>)
  @@ ("--contract-mode=disabled" :> <<"--contract-mode", "disabled">>)
  @@ ("--contract-mode=verified" :> <<"--contract-mode", "verified">>)
  @@ ("--message-format=json" :> <<"--message-format", "json">>)
  @@ ("--keep-c=k.c" :> <<"--keep-c", "k.c">>)
  @@ ("--build-record=k.c" :> <<"--build-record", "k.c">>)
  @@ ("--target=vm" :> <<"--target", "vm">>)

SomePath ==
  ("a.sv0" :> <<<<"a", "sv0">>>>) @@ ("a" :> <<<<"a">>>>) @@ ("-" :> <<<<"-">>>>)
  @@ ("sub/a.sv0" :> <<<<"sub">>, <<"a", "sv0">>>>) @@ ("x/a" :> <<<<"x">>, <<"a">>>>)
  @@ ("k.c" :> <<<<"k", "c">>>>) @@ ("link" :> <<<<"link">>>>) @@ ("gcc" :> <<<<"gcc">>>>)
  @@ ("b.sv0b" :> <<<<"b", "sv0b">>>>) @@ ("a.sv0covmap" :> <<<<"a", "sv0covmap">>>>)
  @@ ("number" :> <<<<"number">>>>) @@ ("huge" :> <<<<"huge">>>>)

TextKeys == {"contract-mode", "profile", "c-compiler", "output-dir"}

ReadToml(build) ==
  [ok |-> TRUE, build |-> build,
   kinds |-> [key \in DOMAIN build |-> IF key \in TextKeys THEN "text" ELSE "yes or no"]]

OddToml(key, kind) == [ok |-> TRUE, build |-> << >>, kinds |-> key :> kind]

SomeToml == {ReadToml("contract-mode" :> "disabled" @@ "output-dir" :> <<<<"out">>>>),
             ReadToml("keep-c" :> TRUE @@ "c-compiler" :> <<<<"gcc">>>> @@ "profile" :> "release")}

BadToml == {[ok |-> FALSE, build |-> << >>, kinds |-> << >>],
            OddToml("target", "text"), OddToml("profile", "yes or no"), OddToml("keep-c", "text")}

(* Pieces of source text, each whole by itself, with what is true of them. *)
SourcePiece(text, mains, sound) == [text |-> text, mains |-> mains, sound |-> sound]

Main == <<"fn", "sp", "main", "(", ")", "sp">>

SomePiece ==
  {SourcePiece(Main \o <<"lbrace", "rbrace">>, 1, TRUE),
   SourcePiece(<<"fn", "nl", "main", "sp", "(", "/", "*", "sp", "x", "*", "/", ")", "->", "(", ")", "lbrace", "rbrace">>, 1, TRUE),
   SourcePiece(Main \o <<"->", "sp", "i32", "sp", "lbrace", "quote", "lbrace", "quote", "rbrace">>, 1, TRUE),
   SourcePiece(Main \o <<"->", "bool", "lbrace", "rbrace">>, 1, FALSE),
   SourcePiece(<<"fn", "sp", "main", "(", "argc", ")", "lbrace", "rbrace">>, 1, FALSE),
   SourcePiece(<<"fn", "sp", "sv0_user_main", "(", ")", "lbrace", "rbrace">>, 0, FALSE),
   SourcePiece(<<"main", "(", ")", ";">>, 0, TRUE),
   SourcePiece(<<"/", "/", "quote">> \o Main \o <<"lbrace", "nl">>, 0, TRUE),
   SourcePiece(<<"/", "*", "/", "*", "quote", "*", "/">> \o Main \o <<"*", "/">>, 0, TRUE),
   SourcePiece(<<"quote", "bslash", "quote">> \o Main \o <<"quote", "sp">>, 0, TRUE),
   SourcePiece(<<"quote", "/", "*", "bslash", "bslash", "quote", ";">>, 0, TRUE)}

Joined(p, q) == SourcePiece(p.text \o q.text, p.mains + q.mains, p.sound /\ q.sound)

Good == SourcePiece(Main \o <<"lbrace", "rbrace">>, 1, TRUE)
Lib  == SourcePiece(<<"fn", "sp", "f", "(", ")", "lbrace", "rbrace">>, 0, TRUE)

SomeText == SomePiece \union {Joined(p, q) : p \in SomePiece, q \in SomePiece}
            \union {Joined(p, Joined(Good, q)) : p \in SomePiece, q \in SomePiece}

A   == <<<<"a", "sv0">>>>
Sub == <<<<"sub">>, <<"a", "sv0">>>>

Dirs == {<< >>, <<<<"a">>>>, <<<<"sub">>>>, <<<<"sub">>, <<"out">>>>}

Plain ==
  [dirs |-> Dirs, links |-> << >>, execs |-> {<<<<"gcc">>>>},
   files |-> (A :> Good) @@ (Sub :> Good) @@ (<<<<"a">>, <<"m", "sv0">>>> :> Good)
             @@ (<<<<"a">>, <<"l", "sv0">>>> :> Lib)]

Linked ==
  [dirs |-> Dirs, execs |-> {}, files |-> (A :> Good),
   links |-> (<<<<"k", "c">>>> :> <<<<"build">>, <<"native">>, <<"a", "sv0covmap.json">>>>)
             @@ (<<<<"link">>>> :> A)]

Holding(files) == [dirs |-> Dirs, links |-> << >>, execs |-> {}, files |-> files]

NoVariables == [SV0_CC |-> "unset", CC |-> "unset", path |-> TRUE]

SomeEnv == {[SV0_CC |-> s, CC |-> c, path |-> p] :
              s \in {"unset", "missing", "found"}, c \in {"unset", "missing", "found"}, p \in BOOLEAN}

SoundChain ==
  [bundle |-> TRUE, header |-> "h", source |-> "s", entryAbi |-> 1, coverageRuntime |-> TRUE,
   manifest |-> [readable |-> TRUE, schema |-> 1, abi |-> 1, header |-> "h", source |-> "s"],
   probe |-> {"version", "link", "run"}]

SomeChain ==
  {SoundChain, [SoundChain EXCEPT !.bundle = FALSE], [SoundChain EXCEPT !.entryAbi = 2],
   [SoundChain EXCEPT !.coverageRuntime = FALSE], [SoundChain EXCEPT !.source = "edited"],
   [SoundChain EXCEPT !.manifest.readable = FALSE], [SoundChain EXCEPT !.manifest.schema = 2],
   [SoundChain EXCEPT !.probe = {"version", "link"}]}

Starts(argv_, toml_, disk_, env_, chain_) ==
  [argv : argv_, toml : toml_, disk : disk_, env : env_, chain : chain_]

NoToml == {ReadToml(<< >>)}

SomeCase ==
  Starts(UNION {[1 .. n -> Shape] : n \in 0 .. 3}
           \union {s \o <<"a.sv0">> : s \in [1 .. 3 -> Shape \ {"a", "a.sv0", "-"}]},
         NoToml, {Plain}, {NoVariables}, {SoundChain})
  \union
  Starts({p \o o \o i : p \in Pairs, o \in Outputs2, i \in Input}
           \union {<<"--coverage=map">> \o o \o p \o i :
                     o \in Outputs2, p \in Outputs2, i \in Input},
         SomeToml \union NoToml, {Plain, Linked}, {NoVariables}, {SoundChain})
  \union
  Starts({o \o <<"a.sv0">> : o \in {<< >>, <<"--cc", "gcc">>, <<"--cc", "a">>, <<"--coverage=instrument">>}},
         SomeToml \union BadToml, {Plain, Linked}, SomeEnv, SomeChain)
  \union
  Starts({<<"a.sv0">>}, NoToml, {Holding(A :> t) : t \in SomeText}, {NoVariables}, {SoundChain})
  \union
  Starts({<<"--project", "a">>}, NoToml,
         {Holding((<<<<"a">>, <<"m", "sv0">>>> :> p) @@ (<<<<"a">>, <<"", "h">>, <<"m", "sv0">>>> :> q)
                  @@ (<<<<"a">>, <<"", "h", "sv0">>>> :> q) @@ (<<<<"a">>, <<"n">>, <<"l", "sv0">>>> :> r)
                  @@ (A :> q)) :
            p \in SomePiece, q \in {Good, Lib}, r \in SomePiece},
         {NoVariables}, {SoundChain})
=============================================================================
