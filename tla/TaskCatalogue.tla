--------------------------- MODULE TaskCatalogue ---------------------------
(***************************************************************************)
(* task/milestone-orientation.json, the task files it names and the        *)
(* workspace file that lists them; the four guards of test-guards that     *)
(* read them; and `sv0 milestone-orient`, which people and agents ask what *)
(* a milestone is about.                                                   *)
(*                                                                         *)
(* A milestone id is a word: a prefix, a number and the blanks around it.  *)
(* A line of the workspace file is a heading or names some tasks.          *)
(***************************************************************************)
EXTENDS Naturals, SequencesExt

CONSTANTS
  Catalogue,  \* what a checkout may hold: [milestones, allowlist, workspace, tasks]
  Needle      \* what milestone-orient may be asked for

MilestoneId == [prefix : STRING, number : Nat, blanks : BOOLEAN]

ASSUME CatalogueAssumption ==
  /\ Needle \subseteq MilestoneId
  /\ \A c \in Catalogue :
       /\ DOMAIN c.milestones = 1 .. Len(c.milestones)
       /\ \A i \in DOMAIN c.milestones : c.milestones[i].id \in MilestoneId
       /\ c.workspace \in Seq([form : STRING, names : SUBSET STRING])

VARIABLES
  checkout,
  green,   \* the guards that passed
  asked,   \* the id of the last question, {} before there was one
  shown    \* its answer: the milestones it is about, and whether it raises

catalogueVars == <<checkout, green, asked, shown>>

(* Hints that are no texts cannot be joined, and the command raises.       *)
Answer(found) == [milestones |-> found, raises |-> \E m \in found : m.fields = "other-hints"]

CatalogueStartsFrom(c) == checkout = c /\ green = {} /\ asked = {} /\ shown = Answer({})

CatalogueInit == \E c \in Catalogue : CatalogueStartsFrom(c)

-----------------------------------------------------------------------------
(* Words.                                                                  *)

(* An id that is missing or no text.                                       *)
NoId == [prefix |-> "none", number |-> 0, blanks |-> FALSE]

LowerPrefix(p) == CASE p = "M" -> "m" [] p = "MCP-" -> "mcp-" [] OTHER -> p

LowerCase(w) == [w EXCEPT !.prefix = LowerPrefix(@)]

(* m3, M3 and 3 become M3; anything else loses its blanks.                 *)
NormalId(w) ==
  [prefix |-> IF w.prefix \in {"m", "M", ""} THEN "M" ELSE w.prefix,
   number |-> w.number, blanks |-> FALSE]

-----------------------------------------------------------------------------
(* The guards.                                                             *)

Milestones == ToSet(checkout.milestones)

(* Every id but one that is no text counts for duplicates.                 *)
Repeats_asWritten(i) ==
  \E j \in 1 .. i - 1 : checkout.milestones[j].id = checkout.milestones[i].id

Repeats(i) ==
  LET m == checkout.milestones
  IN m[i].id # NoId /\ \E j \in 1 .. i - 1 : m[j].id # NoId /\ LowerCase(m[j].id) = LowerCase(m[i].id)

(* fields: "well-formed", "ill-formed", or with hints that are no texts,   *)
(* which only have to be a list.                                           *)
MilestoneIsSound(m) ==
  /\ m.id # NoId /\ m.fields # "ill-formed"
  /\ m.tasks # {} /\ m.tasks \subseteq DOMAIN checkout.tasks

OrientationFits ==
  /\ checkout.milestones # << >>
  /\ \A i \in DOMAIN checkout.milestones : MilestoneIsSound(checkout.milestones[i]) /\ ~Repeats(i)

(* The lines after the first heading that begins with the title, up to the *)
(* next one of its level that is not the title alone.                      *)
TableSection ==
  LET text   == checkout.workspace
      starts == {i \in DOMAIN text : text[i].form \in {"title", "longer-title"}}
      first  == CHOOSE i \in starts : \A j \in starts : i <= j
      ends   == {j \in first + 1 .. Len(text) : text[j].form \in {"heading", "longer-title"}}
      last   == IF ends = {} THEN Len(text) ELSE (CHOOSE j \in ends : \A k \in ends : j <= k) - 1
  IN IF starts = {} THEN << >> ELSE SubSeq(text, first + 1, last)

NamedIn(text) == UNION {l.names : l \in ToSet(text)}

TableFits ==
  LET known == UNION {m.tasks : m \in Milestones}
  IN /\ known \subseteq NamedIn(checkout.workspace)
     /\ TableSection # << >> /\ NamedIn(TableSection) \subseteq known \union checkout.allowlist

(* A file has no front matter, one that is closed or one that is not, and  *)
(* maybe a key whose value follows the colon at once.                      *)
FrontMatterFits ==
  \A f \in DOMAIN checkout.tasks :
    LET t == checkout.tasks[f] IN t.front = "none" \/ (t.front = "closed" /\ ~t.compact)

(* verify_all without --strict: the errors of each file's parse.           *)
TrackingFits == \A f \in DOMAIN checkout.tasks : ~checkout.tasks[f].errors

(* split_front_matter: what the parser takes for the body.                 *)
ParsedBody(t) == IF t.front = "closed" THEN "after-front-matter" ELSE "everything"

Guards == {"orientation", "table", "front-matter", "tracking"}

Holds(guard) == CASE guard = "orientation"  -> OrientationFits
                  [] guard = "table"        -> TableFits
                  [] guard = "front-matter" -> FrontMatterFits
                  [] OTHER                  -> TrackingFits

RunGuards == green = {} /\ green' = {g \in Guards : Holds(g)} /\ UNCHANGED <<checkout, asked, shown>>

-----------------------------------------------------------------------------
(* milestone-orient show.                                                  *)

FirstOf(places) ==
  IF places = {} THEN {} ELSE {checkout.milestones[CHOOSE i \in places : \A j \in places : i <= j]}

(* As it was asked but for case, or else as it is usually written.         *)
Find(needle) ==
  LET m     == checkout.milestones
      same  == {i \in DOMAIN m : m[i].id # NoId /\ LowerCase(m[i].id) = LowerCase(needle)}
      usual == {i \in DOMAIN m : m[i].id = NormalId(needle)}
  IN FirstOf(IF same # {} THEN same ELSE usual)

Show ==
  \E needle \in Needle :
    /\ asked = {} /\ green # {} /\ asked' = {needle}
    /\ shown' = Answer(Find(needle))
    /\ UNCHANGED <<checkout, green>>

CatalogueNext == RunGuards \/ Show

CatalogueSpec == CatalogueInit /\ [][CatalogueNext]_catalogueVars

-----------------------------------------------------------------------------
(* Properties.                                                             *)

(* A question means a milestone when it is its id in any case, or the      *)
(* number of an id that is written M and a number.                         *)
Means(needle, m) ==
  \/ ~needle.blanks /\ LowerCase(needle) = LowerCase(m.id)
  \/ /\ needle.prefix = "" /\ m.id = [prefix |-> "M", number |-> needle.number, blanks |-> FALSE]
     /\ \A other \in Milestones : other.id.prefix # ""

(* In a checkout whose guards are green every question that means a        *)
(* milestone shows that one and no other, which has files the parser reads *)
(* from behind their front matter; and nothing the table names is outside  *)
(* the milestones and the allowlist.  Only hints that are no texts get     *)
(* past the guards and stop the command.                                   *)
GreenCatalogueAnswers ==
  green = Guards =>
    /\ \A needle \in asked, m \in Milestones :
         Means(needle, m) => shown = [milestones |-> {m}, raises |-> m.fields = "other-hints"]
    /\ \A m \in Milestones : \A f \in m.tasks :
         ParsedBody(checkout.tasks[f]) = "everything" => checkout.tasks[f].front = "none"
    /\ \A i \in DOMAIN checkout.workspace : \A f \in checkout.workspace[i].names :
         (\E h \in 1 .. i - 1 :
            /\ checkout.workspace[h].form \in {"title", "longer-title"}
            /\ \A k \in 1 .. h - 1 : checkout.workspace[k].form \in {"heading", "names"}
            /\ \A k \in h + 1 .. i : checkout.workspace[k].form \in {"title", "names"})
         => f \in checkout.allowlist \/ \E m \in Milestones : f \in m.tasks
=============================================================================
