----------------------------- MODULE SourceText -----------------------------
(***************************************************************************)
(* How the Python tools read sv0 source without a parser: a scan that      *)
(* tells code from comments, strings and characters.  Three tools have one *)
(* of their own; they differ in what a quote is and what ends it.          *)
(*                                                                         *)
(* A text is a sequence of symbols: words and arrows are one symbol each,  *)
(* everything else is a character.                                         *)
(***************************************************************************)
EXTENDS Naturals, Sequences, FiniteSets, SequencesExt

Blank == {"sp", "nl"}

Punctuation == {"(", ")", "lbrace", "rbrace", "[", "]", "#", "->", ";", "/", "*", "quote", "tick", "bslash"}

IsWord(symbol) == symbol \notin Blank \union Punctuation

Code == [in |-> "code", depth |-> 0, half |-> FALSE]

(* One symbol more.  quotes are the symbols that open and close a literal, *)
(* and those in broken end at the end of the line too; half: the next      *)
(* symbol is the second of a pair that has been read.                      *)
ScanOn(was, text, i, quotes, broken) ==
  LET c == text[i]
      next(symbol) == i < Len(text) /\ text[i + 1] = symbol
  IN IF was.half THEN [was EXCEPT !.half = FALSE]
     ELSE CASE was.in = "line" -> IF c = "nl" THEN Code ELSE was
            [] was.in = "block" /\ c = "/" /\ next("*") -> [was EXCEPT !.depth = @ + 1, !.half = TRUE]
            [] was.in = "block" /\ c = "*" /\ next("/") ->
                 [in |-> IF was.depth = 1 THEN "code" ELSE "block", depth |-> was.depth - 1, half |-> TRUE]
            [] was.in \in quotes /\ c = "bslash" /\ i < Len(text) -> [was EXCEPT !.half = TRUE]
            [] was.in \in quotes /\ (c = was.in \/ (c = "nl" /\ was.in \in broken)) -> Code
            [] was.in = "code" /\ c = "/" /\ next("/") -> [Code EXCEPT !.in = "line"]
            [] was.in = "code" /\ c = "/" /\ next("*") -> [in |-> "block", depth |-> 1, half |-> TRUE]
            [] was.in = "code" /\ c \in quotes -> [Code EXCEPT !.in = c]
            [] OTHER -> was

(* Where the scan is after i symbols.                                      *)
Scanned(text, quotes, broken) ==
  LET at[i \in 0 .. Len(text)] == IF i = 0 THEN Code ELSE ScanOn(at[i - 1], text, i, quotes, broken)
  IN at

Hidden(at, i) == at[i - 1].half \/ at[i - 1].in # "code" \/ at[i].in # "code"

(* mask_comments_and_strings: what is no code becomes blank, line ends     *)
(* stay.  It knows of no character literals.                               *)
Masked(text) ==
  LET at == Scanned(text, {"quote"}, {})
  IN [i \in DOMAIN text |-> IF Hidden(at, i) /\ text[i] # "nl" THEN "sp" ELSE text[i]]

-----------------------------------------------------------------------------

AfterBlank(text, i) ==
  CHOOSE j \in i .. Len(text) + 1 :
    /\ \A k \in i .. j - 1 : text[k] \in Blank
    /\ j <= Len(text) => text[j] \notin Blank

Trim(text) ==
  LET solid == {i \in DOMAIN text : text[i] \notin Blank}
  IN IF solid = {} THEN << >>
     ELSE SubSeq(text, CHOOSE i \in solid : \A j \in solid : i <= j,
                       CHOOSE i \in solid : \A j \in solid : j <= i)

(* \bfn\s+name\s*\( : where the list of parameters of a function of one of *)
(* the names begins.                                                       *)
Declared(text, names) ==
  {p \in DOMAIN text :
     text[p] = "(" /\
     \E f, n \in 1 .. p - 1 :
       /\ f + 1 < n /\ text[f] = "fn" /\ text[n] \in names
       /\ \A k \in (f + 1 .. n - 1) \union (n + 1 .. p - 1) : text[k] \in Blank
       /\ f > 1 => ~IsWord(text[f - 1])}

(* The list may never be closed; its last symbol is then dropped.          *)
Closing(text, open) ==
  LET deep[i \in open .. Len(text)] ==
        IF i = open THEN 1
        ELSE IF text[i] = "(" THEN deep[i - 1] + 1
        ELSE IF text[i] = ")" THEN deep[i - 1] - 1 ELSE deep[i - 1]
      closed == {i \in open .. Len(text) : deep[i] = 0}
  IN IF closed = {} THEN Len(text) ELSE CHOOSE i \in closed : \A j \in closed : i <= j

Params(text, open) == Trim(SubSeq(text, open + 1, Closing(text, open) - 1))

(* What stands between the arrow and the body.                             *)
Returns(text, open) ==
  LET arrow == AfterBlank(text, Closing(text, open) + 1)
      ends == {i \in arrow .. Len(text) : text[i] = "lbrace"}
      body == IF ends = {} THEN Len(text) + 1 ELSE CHOOSE i \in ends : \A j \in ends : i <= j
  IN IF arrow > Len(text) \/ text[arrow] # "->" THEN << >>
     ELSE Trim(SubSeq(text, arrow + 1, body - 1))

AcceptedReturns == {<< >>, <<"(", ")">>, <<"i32">>}

ReservedEntrySymbols == {"sv0_user_main", "sv0_runtime_init"}

MainsOf_unmasked(text) == Declared(text, {"main"})

MainsOf(text) == Declared(Masked(text), {"main"})

GoodSignature(text, open) ==
  Params(Masked(text), open) = << >> /\ Returns(Masked(text), open) \in AcceptedReturns

(* validate_entry_exists, validate_entry_signature and                     *)
(* validate_no_reserved_collisions over the texts of a build.              *)
EntryAccepted(texts) ==
  /\ \E f \in DOMAIN texts : Cardinality(MainsOf(texts[f])) = 1
                             /\ \A g \in DOMAIN texts \ {f} : MainsOf(texts[g]) = {}
  /\ \A f \in DOMAIN texts : \A p \in MainsOf(texts[f]) : GoodSignature(texts[f], p)
  /\ \A f \in DOMAIN texts : Declared(Masked(texts[f]), ReservedEntrySymbols) = {}
=============================================================================
