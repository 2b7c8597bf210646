----------------------------- MODULE Formatter -----------------------------
(***************************************************************************)
(* fmt_sv0.py: attributes go on lines of their own before what they are    *)
(* about, blanks at line ends and blank lines at the end go, and nothing   *)
(* else changes.  One run takes the files in order and writes each that    *)
(* changed over itself.                                                    *)
(*                                                                         *)
(* Texts are those of SourceText.  There is no comment inside an attribute *)
(* (the code does not look for one there).                                 *)
(***************************************************************************)
EXTENDS SourceText

CONSTANTS
  Batch  \* the runs: [check, old], old being the texts of the files in order

(* A symbol is any word.                                                   *)
Symbol == STRING \union Blank

ASSUME BatchAssumption ==
  \A b \in Batch : b.check \in BOOLEAN /\ b.old \in Seq(Seq(Symbol))

VARIABLES
  old,      \* the texts the run found
  texts,    \* their texts now
  check,    \* --check
  next,     \* the file that comes next
  new,      \* what it is to become, once it has been read: {}, a layout error, or {a text}
  changed, failed,
  ending    \* "none" while the run goes on, then how it ended

fmtVars == <<old, texts, check, next, new, changed, failed, ending>>

Unread == {<<"unread">>}

FormatStartsFrom(b) ==
  /\ old = b.old /\ texts = b.old /\ check = b.check
  /\ next = 1 /\ new = Unread /\ changed = FALSE /\ failed = FALSE /\ ending = "none"

FormatInit == \E b \in Batch : FormatStartsFrom(b)

-----------------------------------------------------------------------------
(* scan: a text as attributes, comments and code, blanks left out.         *)

Least(S) == CHOOSE i \in S : \A j \in S : i <= j

Piece(kind, start, end) == [kind |-> kind, start |-> start, end |-> end]

(* The piece that starts at p ends before end.                             *)
PieceAt(t, at, p) ==
  LET back  == {i \in p .. Len(t) : at[i].in = "code"}
      shut  == Least(back)
      open  == AfterBlank(t, p + 1)
      deep[i \in p .. Len(t)] ==
        LET was == IF i = p THEN 0 ELSE deep[i - 1]
        IN IF Hidden(at, i) THEN was
           ELSE IF t[i] = "[" THEN was + 1 ELSE IF t[i] = "]" THEN was - 1 ELSE was
      ends  == {i \in open + 1 .. Len(t) : deep[i] = 0}
  IN IF at[p].in # "code"
     THEN Piece(IF at[p].in \in {"line", "block"} THEN "comment" ELSE "code", p,
                IF back = {} THEN Len(t) + 1
                ELSE IF t[shut] = "nl" THEN shut ELSE IF at[shut].half THEN shut + 2 ELSE shut + 1)
     ELSE IF t[p] = "#" /\ open <= Len(t) /\ t[open] = "["
     THEN Piece("attr", p, IF ends = {} THEN Len(t) + 1 ELSE Least(ends) + 1)
     ELSE Piece("code", p, p + 1)

Pieces(t) ==
  LET at == Scanned(t, {"quote", "tick"}, {"tick"})
      from[p \in 1 .. Len(t) + 1] ==
        IF p > Len(t) THEN << >>
        ELSE IF t[p] \in Blank THEN from[p + 1]
        ELSE LET piece == PieceAt(t, at, p) IN <<piece>> \o from[piece.end]
  IN from[1]

Body(t, piece) == SubSeq(t, piece.start, piece.end - 1)

-----------------------------------------------------------------------------
(* layout_attributes.                                                      *)

KeepLayout == <<"/", "/", "keep">>

KeepsLayout(t, pieces) ==
  \E k \in DOMAIN pieces :
    /\ \A m \in 1 .. k : pieces[m].kind = "comment"
    /\ Trim(Body(t, pieces[k])) = KeepLayout

LineStart(t, p) == IF \E i \in 1 .. p - 1 : t[i] = "nl"
                   THEN 1 + CHOOSE i \in 1 .. p - 1 : t[i] = "nl" /\ \A k \in i + 1 .. p - 1 : t[k] # "nl"
                   ELSE 1

(* The runs of attributes and comments that begin with an attribute and    *)
(* have code after them: [first, construct], places in pieces.             *)
Runs(pieces) ==
  {r \in [first : DOMAIN pieces, construct : DOMAIN pieces] :
     /\ r.first < r.construct
     /\ pieces[r.first].kind = "attr" /\ pieces[r.construct].kind = "code"
     /\ \A k \in r.first .. r.construct - 1 : pieces[k].kind # "code"
     /\ \A k \in 1 .. r.first - 1 :
          pieces[k].kind = "attr" => \E m \in k .. r.first - 1 : pieces[m].kind = "code"}

CodeBefore(t, p) == Trim(SubSeq(t, LineStart(t, p), p - 1)) # << >>

SharesItsLine(t, pieces, run) ==
  LET first == pieces[run.first].start
  IN CodeBefore(t, first) /\ LineStart(t, pieces[run.construct].start) <= first

Indent(t, p) ==
  LET start == LineStart(t, p)
      lead  == {i \in start .. p : \A k \in start .. i - 1 : t[k] = "sp"}
  IN SubSeq(t, start, (CHOOSE i \in lead : \A k \in lead : k <= i) - 1)

(* A comment that trailed an attribute or a comment stays on its line.     *)
Joins(piece, sameLine) == piece.kind = "comment" /\ sameLine

(* The lines of the pieces first .. last of a run, and the indentation of   *)
(* what follows.                                                           *)
LaidOut(t, pieces, indent, first, last) ==
  LET sameLine(m) == \A i \in pieces[m].end .. pieces[m + 1].start - 1 : t[i] # "nl"
      from[k \in first .. last] ==
        Body(t, pieces[k])
        \o (IF k = last THEN <<"nl">> \o indent
            ELSE (IF Joins(pieces[k + 1], sameLine(k)) THEN <<"sp">> ELSE <<"nl">> \o indent) \o from[k + 1])
  IN from[first]

Solid(t, from, to) == CHOOSE i \in from .. to : t[i] # "sp" /\ \A k \in i + 1 .. to : t[k] = "sp"

Before_wholeLines(t, first) == SubSeq(t, 1, LineStart(t, first) - 1)

(* What stays in front of a run: code that shares its line is cut off.     *)
Before(t, first) ==
  IF CodeBefore(t, first) THEN SubSeq(t, 1, Solid(t, LineStart(t, first), first - 1)) \o <<"nl">>
  ELSE SubSeq(t, 1, LineStart(t, first) - 1)

(* u is the text with the edits of later runs in it, which change nothing  *)
(* before them.                                                            *)
Edited(t, u, pieces, run) ==
  LET place  == pieces[run.construct].start
      indent == Indent(t, place)
  IN Before(t, pieces[run.first].start)
     \o indent \o LaidOut(t, pieces, indent, run.first, run.construct - 1)
     \o SubSeq(u, place, Len(u))

(* From the last run to the first.                                         *)
AllEdited(t, pieces, runs) ==
  LET from[k \in 1 .. Len(pieces) + 1] ==
        IF k > Len(pieces) THEN t
        ELSE IF \E r \in runs : r.first = k
        THEN Edited(t, from[k + 1], pieces, CHOOSE r \in runs : r.first = k)
        ELSE from[k + 1]
  IN from[1]

(* The symbols of a text at some places.                                   *)
At(t, places) ==
  LET upTo[n \in 0 .. Len(t)] ==
        IF n = 0 THEN << >> ELSE IF n \in places THEN Append(upTo[n - 1], t[n]) ELSE upTo[n - 1]
  IN upTo[Len(t)]

(* format_whitespace.                                                      *)
Stripped(t) ==
  LET solid == {i \in DOMAIN t : t[i] \notin Blank}
      kept  == {i \in DOMAIN t : /\ \E k \in solid : i <= k
                                 /\ t[i] = "sp" => \E k \in solid : i < k /\ \A m \in i .. k - 1 : t[m] = "sp"}
  IN At(t, kept) \o <<"nl">>

(* format_sv0: no text when there is a layout error.                       *)
FormatSv0(t) ==
  LET pieces == Pieces(t)
      runs   == Runs(pieces)
  IN IF KeepsLayout(t, pieces) THEN {Stripped(t)}
     ELSE IF \E r \in runs : SharesItsLine(t, pieces, r) THEN {}
     ELSE {Stripped(AllEdited(t, pieces, runs))}

-----------------------------------------------------------------------------
(* main.                                                                   *)

ReadFile ==
  /\ ending = "none" /\ next <= Len(texts) /\ new = Unread
  /\ new' = FormatSv0(texts[next])
  /\ UNCHANGED <<old, texts, check, next, changed, failed, ending>>

(* read_text raises: the files after it are not looked at.                 *)
ReadFails ==
  /\ ending = "none" /\ next <= Len(texts) /\ new = Unread
  /\ ending' = "fail" /\ UNCHANGED <<old, texts, check, next, new, changed, failed>>

GoesOn == next' = next + 1 /\ new' = Unread /\ UNCHANGED <<old, check, ending>>

LayoutError ==
  /\ ending = "none" /\ new = {} /\ failed' = TRUE /\ GoesOn /\ UNCHANGED <<texts, changed>>

NothingToDo ==
  /\ ending = "none" /\ new # Unread /\ new = {texts[next]} /\ GoesOn /\ UNCHANGED <<texts, changed, failed>>

Differs == ending = "none" /\ new \notin {Unread, {}} /\ new # {texts[next]}

WouldReformat ==
  /\ Differs /\ check
  /\ changed' = TRUE /\ GoesOn /\ UNCHANGED <<texts, failed>>

Rewrite ==
  /\ Differs /\ ~check
  /\ \E formatted \in new : texts' = [texts EXCEPT ![next] = formatted]
  /\ changed' = TRUE /\ GoesOn /\ UNCHANGED failed

(* The file is opened for writing, and so emptied, before it is written.   *)
WriteFails ==
  /\ Differs /\ ~check
  /\ \E left \in {texts[next], << >>} : texts' = [texts EXCEPT ![next] = left]
  /\ ending' = "fail" /\ UNCHANGED <<old, check, next, new, changed, failed>>

FormatEnds ==
  /\ ending = "none" /\ next > Len(texts)
  /\ ending' = IF failed \/ (check /\ changed) THEN "fail" ELSE "ok"
  /\ UNCHANGED <<old, texts, check, next, new, changed, failed>>

FormatNext == \/ ReadFile \/ ReadFails \/ LayoutError \/ NothingToDo \/ WouldReformat
              \/ Rewrite \/ WriteFails \/ FormatEnds

FormatSpec == FormatInit /\ [][FormatNext]_fmtVars

-----------------------------------------------------------------------------
(* Properties.                                                             *)

(* The pieces without their place; inside them too blanks at the end of a  *)
(* line go.                                                                *)
Tokens(t) ==
  LET pieces == Pieces(t)
  IN [k \in DOMAIN pieces |-> <<pieces[k].kind, Stripped(Body(t, pieces[k]))>>]

(* Whatever the layout, a file that was rewritten has the tokens, comments *)
(* and attributes it had, in their order; a checked one is untouched.      *)
FormatKeepsTokens ==
  ending # "none" => \A f \in 1 .. next - 1 :
    Tokens(texts[f]) = Tokens(old[f]) /\ (check => texts[f] = old[f])

(* A run that ends well leaves nothing for a second run to do, and every   *)
(* attribute that has a construct stands first on its line, above it and   *)
(* with its indentation.                                                   *)
FormatIsStable ==
  ending = "ok" => \A f \in DOMAIN texts :
    LET pieces == Pieces(texts[f])
    IN /\ FormatSv0(texts[f]) = {texts[f]}
       /\ ~KeepsLayout(texts[f], pieces) =>
            \A r \in Runs(pieces) : \A k \in r.first .. r.construct :
              pieces[k].kind # "comment" =>
                /\ ~CodeBefore(texts[f], pieces[k].start)
                /\ Indent(texts[f], pieces[k].start) = Indent(texts[f], pieces[r.construct].start)

(* A text without its blanks.                                              *)
Solids(t) == At(t, {i \in DOMAIN t : t[i] \notin Blank})

(* However a run ends, of whatever texts, every file still has its symbols *)
(* in their order, but one that could not be written; a check writes       *)
(* nothing, and a run that ends well has formatted each file.              *)
OnlyBlanksMove ==
  /\ check => texts = old
  /\ \A f \in DOMAIN texts :
       \/ Solids(texts[f]) = Solids(old[f])
       \/ ending = "fail" /\ f = next /\ texts[f] = << >>
  /\ ending = "ok" => \A f \in DOMAIN texts : FormatSv0(old[f]) = {texts[f]}

(* Formatting loses nothing and is done once.                              *)
FormatIsSafe == FormatKeepsTokens /\ FormatIsStable /\ OnlyBlanksMove
=============================================================================
