---------------------------- MODULE TaskTracking ----------------------------
(***************************************************************************)
(* parse_task_rmd_body (scripts/task_rmd_tracking.py): the sv0-track       *)
(* anchors and checklists of a task file, read line by line.               *)
(*                                                                         *)
(* A line is what the regular expressions and the JSON parser can tell of  *)
(* it.  The parser keeps a stack of open regions, each with the state of   *)
(* its table, and the standalone anchor the next item may belong to.       *)
(* Left out: the text of an item, and the keys of a payload that are only  *)
(* warned about.                                                           *)
(***************************************************************************)
EXTENDS Naturals, Sequences, FiniteSets, SequencesExt

CONSTANTS
  File  \* the files that are read: sequences of lines

(* The forms of line.  An id is "none" when it is missing and "bad" when   *)
(* it is not a valid one; fields is FALSE when "ingest", "done" or "refs"  *)
(* has a value it must not have.                                           *)
Anchor   == [form : {"standalone", "begin", "end"}, id : STRING, ingest : STRING,
             fields : BOOLEAN]
Garbled  == [form : {"garbled"}]   \* a track comment that cannot be read
Checkbox == [form : {"checkbox"}, done : BOOLEAN, inline : {"none", "garbled", "object"},
             id : STRING, fields : BOOLEAN]
Row      == [form : {"row"}, cells : {"blank", "rule", "single", "header", "data"},
             done : BOOLEAN]
Other    == [form : {"blank", "numbered", "prose"}]

Line == Anchor \union Garbled \union Checkbox \union Row \union Other

ASSUME FileAssumption == File \subseteq Seq(Line)

VARIABLES
  file,     \* the body of the file
  at,       \* the line that is read next
  regions,  \* region_stack: [id, ingest, table], table being _table_phase
  alone,    \* standalone_ids
  prev,     \* prev_nonempty_was_standalone_track: the anchor's id or "none"
  items,    \* checklist_items
  errors,   \* the lines with an error; 0 is the end of the file
  warnings, \* the lines with a warning
  ended     \* the end of the file has been reached

trackVars == <<file, at, regions, alone, prev, items, errors, warnings, ended>>

TrackStartsFrom(f) ==
  /\ file = f /\ at = 1 /\ regions = << >> /\ alone = {} /\ prev = "none"
  /\ items = << >> /\ errors = {} /\ warnings = {} /\ ended = FALSE

TrackInit == \E f \in File : TrackStartsFrom(f)

-----------------------------------------------------------------------------

Reads(form) == ~ended /\ at <= Len(file) /\ file[at].form \in form
               /\ at' = at + 1 /\ UNCHANGED <<file, ended>>

line == file[at]

Top == Last(regions)

ErrorIf(bad) == errors' = IF bad THEN errors \union {at} ELSE errors

WarnIf(odd) == warnings' = IF odd THEN warnings \union {at} ELSE warnings

IsId(id) == id \notin {"none", "bad"}

InTable == regions # << >> /\ Top.ingest = "table"

Item(id, done, source) == [line |-> at, id |-> id, done |-> done, source |-> source]

(* A standalone anchor; a second one of the same id binds nothing.         *)
ReadStandalone ==
  /\ Reads({"standalone"}) /\ IsId(line.id)
  /\ ErrorIf(line.id \in alone \/ ~line.fields)
  /\ alone' = alone \union {line.id}
  /\ prev' = IF line.id \in alone THEN "none" ELSE line.id
  /\ UNCHANGED <<regions, items, warnings>>

(* A region that is open already is not opened again, and its end closes   *)
(* the first one.                                                          *)
ReadBegin ==
  LET again == \E i \in DOMAIN regions : regions[i].id = line.id
  IN /\ Reads({"begin"}) /\ IsId(line.id)
     /\ ErrorIf(again \/ ~line.fields)
     /\ regions' = IF again THEN regions
                   ELSE Append(regions, [id |-> line.id, ingest |-> line.ingest,
                                         table |-> "pre_header"])
     /\ prev' = "none"
     /\ UNCHANGED <<alone, items, warnings>>

Closes_anyEnd == regions # << >>

(* An end without an id closes the innermost region; one with an id closes *)
(* it only under its own name.                                             *)
Closes == regions # << >> /\ line.id \in {"none", Top.id}

ReadEnd ==
  /\ Reads({"end"})
  /\ ErrorIf(~Closes \/ ~line.fields)
  /\ regions' = IF Closes THEN Front(regions) ELSE regions
  /\ prev' = "none"
  /\ UNCHANGED <<alone, items, warnings>>

(* A track comment that is none of these is an error, and then an ordinary *)
(* line.                                                                   *)
ReadGarbled ==
  /\ Reads({"garbled", "standalone", "begin"})
  /\ line.form # "garbled" => ~IsId(line.id)
  /\ ErrorIf(TRUE)
  /\ WarnIf(InTable)
  /\ prev' = "none"
  /\ UNCHANGED <<regions, alone, items>>

ReadBlank ==
  /\ Reads({"blank"})
  /\ UNCHANGED <<regions, alone, prev, items, errors, warnings>>

(* Inside a table only rows count.                                         *)
ReadNonRow ==
  /\ Reads({"checkbox", "numbered", "prose"}) /\ InTable
  /\ WarnIf(TRUE)
  /\ prev' = "none"
  /\ UNCHANGED <<regions, alone, items, errors>>

(* A rule begins the body whatever came before; a row that is no header    *)
(* begins it too and belongs to it.                                        *)
NextTable(cells) ==
  CASE cells = "blank" -> Top.table
    [] cells = "rule" -> "body"
    [] cells \notin {"blank", "rule"} /\ Top.table = "pre_header" ->
         IF cells = "header" THEN "after_header" ELSE "body"
    [] OTHER -> Top.table

TakesRow ==
  CASE line.cells \in {"blank", "rule", "single"} -> FALSE
    [] Top.table = "pre_header" -> line.cells = "data"
    [] OTHER -> Top.table = "body"

ReadRow ==
  /\ Reads({"row"}) /\ InTable
  /\ regions' = Append(Front(regions), [Top EXCEPT !.table = NextTable(line.cells)])
  /\ items' = IF TakesRow THEN Append(items, Item(Top.id, line.done, "table")) ELSE items
  /\ WarnIf(\/ Top.table = "after_header" /\ line.cells \notin {"blank", "rule"}
            \/ Top.table = "body" /\ line.cells = "single")
  /\ prev' = "none"
  /\ UNCHANGED <<alone, errors>>

(* A checkbox belongs to the id in its own comment, else to the innermost  *)
(* region, else to the anchor above it, else to nothing.  After a comment  *)
(* that cannot be read the anchor above still waits for its item.          *)
ReadCheckbox ==
  LET owner == CASE line.inline = "object" -> <<line.id, "inline">>
                 [] line.inline = "none" /\ regions # << >> -> <<Top.id, "region">>
                 [] OTHER -> <<prev, "prev_line">>
      taken == line.inline # "garbled" /\ IsId(owner[1])
  IN /\ Reads({"checkbox"}) /\ ~InTable
     /\ items' = IF taken THEN Append(items, Item(owner[1], line.done, owner[2])) ELSE items
     /\ ErrorIf(\/ line.inline = "garbled"
                \/ line.inline = "object" /\ (~IsId(line.id) \/ ~line.fields))
     /\ prev' = IF line.inline = "garbled" THEN prev ELSE "none"
     /\ UNCHANGED <<regions, alone, warnings>>

ReadNumbered ==
  /\ Reads({"numbered"}) /\ ~InTable
  /\ items' = IF regions # << >> /\ Top.ingest \in {"numbered", "both"}
              THEN Append(items, Item(Top.id, FALSE, "region")) ELSE items
  /\ prev' = "none"
  /\ UNCHANGED <<regions, alone, errors, warnings>>

ReadProse ==
  /\ Reads({"prose", "row"}) /\ ~InTable
  /\ prev' = "none"
  /\ UNCHANGED <<regions, alone, items, errors, warnings>>

EndFile ==
  /\ ~ended /\ at > Len(file) /\ ended' = TRUE
  /\ errors' = IF regions # << >> THEN errors \union {0} ELSE errors
  /\ UNCHANGED <<file, at, regions, alone, prev, items, warnings>>

ReadLine ==
  \/ ReadStandalone \/ ReadBegin \/ ReadEnd \/ ReadGarbled
  \/ ReadBlank \/ ReadNonRow \/ ReadRow \/ ReadCheckbox
  \/ ReadNumbered \/ ReadProse

TrackNext == ReadLine \/ EndFile

TrackSpec == TrackInit /\ [][TrackNext]_trackVars

-----------------------------------------------------------------------------
(* What a file says, by the places of its brackets rather than by a stack. *)

Places == 1 .. Len(file)

Count(form, i) == Cardinality({k \in 1 .. i : file[k].form = form})

(* The begins that are open before line i, innermost last.                 *)
Open(i) ==
  {j \in 1 .. i - 1 :
     file[j].form = "begin" /\
     \A k \in j .. i - 1 : Count("begin", k) - Count("begin", j - 1) > Count("end", k) - Count("end", j - 1)}

Innermost(i) == {j \in Open(i) : \A k \in Open(i) : k <= j}

Tabled(i) == \E j \in Innermost(i) : file[j].ingest = "table"

SoundLine(i) ==
  LET line_i == file[i]
  IN CASE line_i.form = "garbled" -> FALSE
       [] line_i.form = "standalone" ->
            /\ IsId(line_i.id) /\ line_i.fields
            /\ \A j \in 1 .. i - 1 : file[j].form = "standalone" => file[j].id # line_i.id
       [] line_i.form = "begin" ->
            IsId(line_i.id) /\ line_i.fields /\ \A j \in Open(i) : file[j].id # line_i.id
       [] line_i.form = "end" ->
            line_i.fields /\ \E j \in Innermost(i) : line_i.id \in {"none", file[j].id}
       [] line_i.form = "checkbox" /\ ~Tabled(i) ->
            line_i.inline # "garbled" /\ (line_i.inline = "object" => IsId(line_i.id) /\ line_i.fields)
       [] OTHER -> TRUE

Sound == (\A i \in Places : SoundLine(i)) /\ Open(Len(file) + 1) = {}

(* The anchor right above line i, blank lines apart.                       *)
Above(i) == {j \in 1 .. i - 1 : file[j].form = "standalone"
                               /\ \A k \in j + 1 .. i - 1 : file[k].form = "blank"}

(* The rows of the table that line i is in, before it.                     *)
RowsBefore(i) ==
  {k \in 1 .. i - 1 : file[k].form = "row" /\ Innermost(k) = Innermost(i)
                      /\ file[k].cells # "blank"}

InBody(i) ==
  \/ \E k \in RowsBefore(i) : file[k].cells = "rule"
  \/ \A k \in RowsBefore(i) \union {i} :
       (\A m \in RowsBefore(i) : k <= m) => file[k].cells # "header"

Owner(i) ==
  CASE file[i].form = "checkbox" /\ file[i].inline = "object" /\ ~Tabled(i) -> {file[i].id}
    [] file[i].form = "checkbox" /\ file[i].inline = "none" /\ ~Tabled(i) ->
         {file[j].id : j \in IF Innermost(i) = {} THEN Above(i) ELSE Innermost(i)}
    [] file[i].form = "numbered" ->
         {file[j].id : j \in {k \in Innermost(i) : file[k].ingest \in {"numbered", "both"}}}
    [] file[i].form = "row" /\ Tabled(i) /\ file[i].cells \in {"header", "data"} /\ InBody(i) ->
         {file[j].id : j \in Innermost(i)}
    [] OTHER -> {}

Done(i) == file[i].form # "numbered" /\ file[i].done

(* The guard accepts exactly the files whose brackets match and whose      *)
(* anchors are sound, and of such a file every checkbox, step and row is   *)
(* credited, once and in order, to the id it stands under.                 *)
DigestIsTheFile ==
  ended => /\ errors = {} <=> Sound
           /\ errors = {} =>
                /\ {<<x.line, x.id, x.done>> : x \in ToSet(items)}
                     = UNION {{<<i, id, Done(i)>> : id \in Owner(i)} : i \in Places}
                /\ \A m, n \in DOMAIN items : m < n => items[m].line < items[n].line
=============================================================================
