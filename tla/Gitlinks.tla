------------------------------ MODULE Gitlinks ------------------------------
(***************************************************************************)
(* What the guards of test-guards say about submodules before a commit:    *)
(* verify_readme_sv0c_gitlink.py compares the commit README.md names with  *)
(* the gitlink of sv0c, verify_sv0cov_submodule.py reads .gitmodules and   *)
(* compares the checkout of sv0cov with its gitlink.  Both read the files  *)
(* of the working tree, and git commits those of the index.                *)
(*                                                                         *)
(* Git itself is external: how it reads .gitmodules (the last value of a   *)
(* key counts, whatever case the key is written in), and what it commits.  *)
(***************************************************************************)
EXTENDS Naturals, SequencesExt

CONSTANTS
  Sha,      \* commits of sv0c and of sv0cov
  Modules,  \* texts of .gitmodules somebody may write
  MaxWork   \* how often somebody changes something

ASSUME ShaAssumption == {"no sha", "no row", "file", "gone"} \intersect Sha = {}

(* Any word; those of the released text are named, because the prover      *)
(* takes no literal for a member of STRING.                                *)
ModuleWord == STRING \union {"sv0cov", "path", "url", "ours"}

ModuleLine ==
  [form : {"section"}, name : ModuleWord] \union [form : {"key"}, key : ModuleWord, value : ModuleWord]
  \union [form : {"inline"}, name : ModuleWord, key : ModuleWord, value : ModuleWord]
  \union [form : {"other", "comment"}]

ASSUME ModulesAssumption == Modules \subseteq Seq(ModuleLine)

VARIABLES
  tree, index, commit,  \* [readme, modules] of the working tree; with [sv0c, sv0cov] those of index and HEAD
  covHead,   \* the commit checked out in sv0cov; "none" when it is not initialised
  isRepo,    \* FALSE in an unpacked archive
  work,
  judgement,   \* of the guards, when they last ran
  whole      \* history: every commit was of what the guards read

gitVars == <<tree, index, commit, covHead, isRepo, work, judgement, whole>>

Staged(readme_, modules_, sv0c_, sv0cov_) ==
  [readme |-> readme_, modules |-> modules_, sv0c |-> sv0c_, sv0cov |-> sv0cov_]

Section(name_) == [form |-> "section", name |-> name_]
Key(key_, value_) == [form |-> "key", key |-> key_, value |-> value_]

GoodModules == <<Section("sv0cov"), Key("path", "ours"), Key("url", "ours")>>

GitStartsFrom(sha) ==
  /\ commit = Staged(sha, GoodModules, sha, sha) /\ index = commit
  /\ tree = [readme |-> sha, modules |-> GoodModules] /\ covHead = sha
  /\ work = 0 /\ judgement = "none" /\ whole = TRUE

GitInit == isRepo \in BOOLEAN /\ \E sha \in Sha : GitStartsFrom(sha)

-----------------------------------------------------------------------------
(* verify_readme_sv0c_gitlink                                              *)

IsSha(entry) == entry \in Sha

(* An index entry that is no gitlink counts for nothing, and HEAD decides. *)
EffectiveGitlink_head == commit.sv0c

EffectiveGitlink == IF IsSha(index.sv0c) THEN index.sv0c ELSE commit.sv0c

(* The first line that has "sv0c commit pinned" decides; "no sha" when it  *)
(* has no commit in backquotes, "no row" when there is no such line.       *)
ReadmeFits == IsSha(tree.readme) /\ (isRepo => IsSha(EffectiveGitlink) /\ EffectiveGitlink = tree.readme)

-----------------------------------------------------------------------------
(* verify_sv0cov_submodule: lines are headers of submodules, headers of    *)
(* other sections, keys, a header and a key on one line (which the guard   *)
(* takes for another section), and comments.  Values are "ours", an alias  *)
(* (of other case, with slashes, another place of sv0cov), "quoted": what  *)
(* only git reads as ours, or another.                                     *)

Opened(sections, name_) == Append(sections, [name |-> name_, keys |-> << >>])

WithKey(sections, l) ==
  LET s == IF sections = << >> THEN Opened(<< >>, "<preamble>") ELSE sections
  IN [s EXCEPT ![Len(s)].keys = Append(@, <<l.key, l.value>>)]

ReadModuleLine(sections, l) ==
  CASE l.form = "section"             -> Opened(sections, l.name)
    [] l.form \in {"other", "inline"} -> Opened(sections, "<other>")
    [] l.form = "key"                 -> WithKey(sections, l)
    [] OTHER                          -> sections

ParseGitmodules(text) ==
  LET parsed[n \in 0 .. Len(text)] == IF n = 0 THEN << >> ELSE ReadModuleLine(parsed[n - 1], text[n])
  IN parsed[Len(text)]

ExactKeys(keys) == Len(keys) = 2 /\ ToSet(keys) = {<<"path", "ours">>, <<"url", "ours">>}

Lower(word) == CASE word = "Path" -> "path" [] word = "Sv0cov" -> "sv0cov" [] OTHER -> word

Alias(section) ==
  \/ Lower(section.name) = "sv0cov"
  \/ \E k \in ToSet(section.keys) : Lower(k[1]) \in {"path", "url"} /\ k[2] \in {"ours", "alias"}

ModulesFit ==
  LET sections == ParseGitmodules(tree.modules)
      exact    == {m \in DOMAIN sections : sections[m].name = "sv0cov"}
  IN /\ \E m \in exact : exact = {m} /\ ExactKeys(sections[m].keys)
     /\ \A s \in ToSet(sections) : s.name # "sv0cov" => ~Alias(s)

(* The entry of sv0cov is a gitlink, and the commit it names is there.     *)
SubmoduleFits == isRepo => IsSha(index.sv0cov) /\ covHead = index.sv0cov

-----------------------------------------------------------------------------
(* Somebody at work.                                                       *)

Work ==
  /\ isRepo /\ work < MaxWork /\ work' = work + 1
  /\ UNCHANGED <<commit, isRepo, judgement, whole>>

EditReadme ==
  /\ Work /\ \E pin \in Sha \union {"no sha", "no row"} : tree' = [tree EXCEPT !.readme = pin]
  /\ UNCHANGED <<index, covHead>>

EditModules ==
  /\ Work /\ tree.modules = GoodModules
  /\ \E text \in Modules : tree' = [tree EXCEPT !.modules = text]
  /\ UNCHANGED <<index, covHead>>

AddFiles ==
  /\ Work /\ \E f \in {"readme", "modules"} : index' = [index EXCEPT ![f] = tree[f]]
  /\ UNCHANGED <<tree, covHead>>

AddSubmodule ==
  /\ Work /\ \E m \in {"sv0c", "sv0cov"}, entry \in Sha \union {"file", "gone"} : index' = [index EXCEPT ![m] = entry]
  /\ UNCHANGED <<tree, covHead>>

CheckoutCov ==
  /\ Work /\ covHead' \in Sha \union {"none"} /\ UNCHANGED <<tree, index>>

(* The plain forms, which git and the guard read alike.                    *)
PlainForms(text) == \A l \in ToSet(text) : l.form # "inline" /\ (l.form = "key" => l.value # "quoted")

(* The hook runs the guards; what it lets through becomes HEAD.            *)
Commit ==
  LET green == ReadmeFits /\ ModulesFit /\ SubmoduleFits
  IN /\ judgement' = IF green THEN "green" ELSE "red"
     /\ IF green /\ isRepo
        THEN /\ commit' = index
             /\ whole' = (/\ whole /\ IsSha(index.sv0c) /\ PlainForms(tree.modules)
                          /\ tree.readme = index.readme /\ tree.modules = index.modules)
        ELSE UNCHANGED <<commit, whole>>
     /\ UNCHANGED <<tree, index, covHead, isRepo, work>>

GitNext ==
  EditReadme \/ EditModules \/ AddFiles \/ AddSubmodule \/ CheckoutCov \/ Commit

GitSpec == GitInit /\ [][GitNext]_gitVars

-----------------------------------------------------------------------------
(* Properties.                                                             *)

(* How git reads a text: the section in which each line stands, and the    *)
(* last value a key has in the sections of a name.                         *)
Belongs(text, i) ==
  IF text[i].form = "inline" THEN text[i].name
  ELSE LET heads == {j \in 1 .. i - 1 : text[j].form \in {"section", "inline", "other"}}
       IN IF heads = {} THEN "nowhere"
          ELSE LET j == CHOOSE j \in heads : \A k \in heads : k <= j
               IN IF text[j].form = "other" THEN "nowhere" ELSE text[j].name

Says(text, n, k) ==
  LET places == {i \in DOMAIN text : text[i].form \in {"key", "inline"} /\ Lower(text[i].key) = k /\ Belongs(text, i) = n}
  IN IF places = {} THEN "nothing" ELSE text[CHOOSE i \in places : \A j \in places : j <= i].value

GitReadsOurs(text) ==
  /\ Says(text, "sv0cov", "path") = "ours" /\ Says(text, "sv0cov", "url") = "ours"
  /\ Says(text, "sv0cov", "branch") = "nothing"
  /\ \A n \in {"Sv0cov", "sv0c"} : Says(text, n, "path") # "ours" /\ Says(text, n, "url") \notin {"ours", "alias"}

(* Every commit the guards let through, while only what they read was      *)
(* committed, names in its README the compiler it pins, and has sv0cov at  *)
(* one place, from one repository and under no second name, as git reads   *)
(* it.                                                                     *)
CommitsNameTheirLinks ==
  judgement = "green" /\ whole => commit.readme = commit.sv0c /\ IsSha(commit.sv0cov) /\ GitReadsOurs(commit.modules)
=============================================================================
