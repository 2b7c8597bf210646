---------------------------- MODULE CheckProofs -----------------------------
(***************************************************************************)
(* What the checks over the whole repository may be held to, whatever the  *)
(* files, corpora and texts they are run on.                               *)
(*                                                                         *)
(* TaskTracking, for any file of tasks: the digest says what the file says *)
(* (TrackInd).  The tool has read the lines so far into regions that open  *)
(* and close as the file's do, with the tables in the states that the      *)
(* lines since the head have brought them to (Follows), and has credited   *)
(* every task with exactly what stands in its region (Credits).            *)
(*                                                                         *)
(* Corpora, for any corpus and any order of the rows: a harness is green   *)
(* exactly when every row it is about keeps what it promises (CorpusInd).  *)
(* For each harness, what it demands of a row is compared with what the    *)
(* row promises; what it has counted so far is what the rows taken so far  *)
(* have shown.                                                             *)
(*                                                                         *)
(* Gitlinks, for any texts of .gitmodules: what the guards let through     *)
(* says to git what they read (GitInd).  The parser is a function of the   *)
(* lines, so what it has read up to a line is shown by induction over them *)
(* (ParsedText); that git reads the same of a text in plain forms is a     *)
(* fact about the text (FitReadsOurs).                                     *)
(*                                                                         *)
(* SourceGuards, for any texts: what a guard says of a text by patterns is *)
(* what the text says (GuardsInd).  The scan and the reading of a          *)
(* checklist are functions of the symbols, or lines, so far (ScanSteps,    *)
(* ChecklistSteps); what they have come to is again shown by induction     *)
(* over those (FlatSoFar, HasCited), the rest are facts about a text.      *)
(***************************************************************************)
EXTENDS TaskTracking, Corpora, Gitlinks, SourceGuards, FiniteSetTheorems, SequenceTheorems, NaturalsInduction,
        WellFoundedInduction, TLAPS

-----------------------------------------------------------------------------
(* TaskTracking.                                                           *)

(* How many more begins than ends there are from line j to line i.         *)
Excess(j, i) == (Count("begin", i) - Count("begin", j - 1)) - (Count("end", i) - Count("end", j - 1))

LEMMA CountType ==
  ASSUME NEW form, NEW i \in Nat
  PROVE  /\ Count(form, i) \in Nat
         /\ Count(form, i + 1) = IF file[i + 1].form = form THEN Count(form, i) + 1 ELSE Count(form, i)
<1> DEFINE S == {k \in 1 .. i : file[k].form = form}
           T == {k \in 1 .. i + 1 : file[k].form = form}
<1>1. IsFiniteSet(1 .. i) BY FS_Interval
<1>2. IsFiniteSet(S) BY <1>1, FS_Subset
<1>3. Cardinality(S) \in Nat BY <1>2, FS_CardinalityType
<1>4. CASE file[i + 1].form = form
  <2>1. T = S \union {i + 1} BY <1>4
  <2>2. i + 1 \notin S OBVIOUS
  <2>3. Cardinality(T) = Cardinality(S) + 1 
    <3> HIDE DEF S, T
    <3> QED BY <1>2, <2>1, <2>2, FS_AddElement
  <2>4. QED BY <1>3, <1>4, <2>3 DEF Count
<1>5. CASE file[i + 1].form # form
  <2>1. T = S BY <1>5
  <2>2. QED BY <1>3, <1>5, <2>1 DEF Count
<1>6. QED BY <1>4, <1>5

LEMMA CountZero == \A form : Count(form, 0) = 0
<1>1. \A form : {k \in 1 .. 0 : file[k].form = form} = {} OBVIOUS
<1>2. QED BY <1>1, FS_EmptySet DEF Count

LEMMA ExcessStep ==
  ASSUME NEW j \in Nat \ {0}, NEW i \in Nat, i + 1 \in DOMAIN file
  PROVE  /\ Excess(j, i) \in Int
         /\ file[i + 1].form = "begin" => Excess(j, i + 1) = Excess(j, i) + 1
         /\ file[i + 1].form = "end" => Excess(j, i + 1) = Excess(j, i) - 1
         /\ file[i + 1].form \notin {"begin", "end"} => Excess(j, i + 1) = Excess(j, i)
<1>1. j - 1 \in Nat OBVIOUS
<1>2. \A form : Count(form, i) \in Nat /\ Count(form, j - 1) \in Nat BY <1>1, CountType
<1>3. \A form : Count(form, i + 1) = IF file[i + 1].form = form THEN Count(form, i) + 1 ELSE Count(form, i)
  BY CountType
<1> DEFINE b1 == Count("begin", i)
           b2 == Count("begin", i + 1)
           e1 == Count("end", i)
           e2 == Count("end", i + 1)
           b0 == Count("begin", j - 1)
           e0 == Count("end", j - 1)
<1>4. b1 \in Nat /\ e1 \in Nat /\ b0 \in Nat /\ e0 \in Nat BY <1>2
<1>5. /\ b2 = IF file[i + 1].form = "begin" THEN b1 + 1 ELSE b1
      /\ e2 = IF file[i + 1].form = "end" THEN e1 + 1 ELSE e1
  BY <1>3
<1>6. Excess(j, i) = (b1 - b0) - (e1 - e0) /\ Excess(j, i + 1) = (b2 - b0) - (e2 - e0) BY DEF Excess
<1> HIDE DEF b1, b2, e1, e2, b0, e0
<1>7. QED BY <1>4, <1>5, <1>6

LEMMA ExcessStart ==
  ASSUME NEW i \in Nat \ {0}
  PROVE  Excess(i, i - 1) = 0
<1>1. i - 1 \in Nat OBVIOUS
<1>2. Count("begin", i - 1) \in Nat /\ Count("end", i - 1) \in Nat BY <1>1, CountType
<1>3. QED BY <1>2 DEF Excess

(* Open, line by line.                                                     *)
OpenAgain(i) == {j \in 1 .. i - 1 : file[j].form = "begin" /\ \A k \in j .. i - 1 : Excess(j, k) > 0}

LEMMA OpenIs ==
  ASSUME NEW i \in Nat
  PROVE  Open(i) = OpenAgain(i)
<1>1. \A j \in 1 .. i - 1 : \A k \in j .. i - 1 :
        (Count("begin", k) - Count("begin", j - 1) > Count("end", k) - Count("end", j - 1)) <=> Excess(j, k) > 0
  <2> SUFFICES ASSUME NEW j \in 1 .. i - 1, NEW k \in j .. i - 1
               PROVE (Count("begin", k) - Count("begin", j - 1) > Count("end", k) - Count("end", j - 1))
                       <=> Excess(j, k) > 0
    OBVIOUS
  <2>1. k \in Nat /\ j - 1 \in Nat OBVIOUS
  <2>2. \A form : Count(form, k) \in Nat /\ Count(form, j - 1) \in Nat BY <2>1, CountType
  <2>3. QED BY <2>2 DEF Excess
<1>2. QED BY <1>1 DEF Open, OpenAgain

LEMMA OpenStep ==
  ASSUME NEW i \in DOMAIN file, file \in Seq(Line)
  PROVE  /\ file[i].form = "begin" => Open(i + 1) = Open(i) \union {i}
         /\ file[i].form = "end" => Open(i + 1) = {j \in Open(i) : Excess(j, i - 1) > 1}
         /\ file[i].form \notin {"begin", "end"} => Open(i + 1) = Open(i)
         /\ \A j \in Open(i) : j \in 1 .. i - 1 /\ Excess(j, i - 1) > 0
<1>1. i \in Nat /\ i >= 1 /\ i - 1 \in Nat /\ i + 1 \in Nat OBVIOUS
<1>2. Open(i) = OpenAgain(i) /\ Open(i + 1) = OpenAgain(i + 1) BY <1>1, OpenIs
<1>3. \A j \in 1 .. i : /\ Excess(j, i - 1) \in Int
                        /\ file[i].form = "begin" => Excess(j, i) = Excess(j, i - 1) + 1
                        /\ file[i].form = "end" => Excess(j, i) = Excess(j, i - 1) - 1
                        /\ file[i].form \notin {"begin", "end"} => Excess(j, i) = Excess(j, i - 1)
  <2> SUFFICES ASSUME NEW j \in 1 .. i
               PROVE /\ Excess(j, i - 1) \in Int
                     /\ file[i].form = "begin" => Excess(j, i) = Excess(j, i - 1) + 1
                     /\ file[i].form = "end" => Excess(j, i) = Excess(j, i - 1) - 1
                     /\ file[i].form \notin {"begin", "end"} => Excess(j, i) = Excess(j, i - 1)
    OBVIOUS
  <2>1. j \in Nat \ {0} /\ (i - 1) + 1 = i OBVIOUS
  <2>2. QED BY <1>1, <2>1, ExcessStep
<1>4. \A j \in 1 .. i - 1 : j .. i = (j .. i - 1) \union {i} /\ i - 1 \in j .. i - 1 BY <1>1
<1>5. Excess(i, i - 1) = 0 BY <1>1, ExcessStart
<1>6. (i + 1) - 1 = i /\ 1 .. i = (1 .. i - 1) \union {i} /\ i .. i = {i} BY <1>1
<1>7. OpenAgain(i + 1) = {j \in 1 .. i : file[j].form = "begin" /\ \A k \in j .. i : Excess(j, k) > 0}
  BY <1>6 DEF OpenAgain
<1>8. \A j \in Open(i) : j \in 1 .. i - 1 /\ file[j].form = "begin" /\ Excess(j, i - 1) > 0
  BY <1>2, <1>4 DEF OpenAgain
<1>9. \A j \in 1 .. i - 1 :
        j \in OpenAgain(i + 1) <=> j \in OpenAgain(i) /\ Excess(j, i) > 0
  BY <1>4, <1>6, <1>7 DEF OpenAgain
<1>10. i \in OpenAgain(i + 1) <=> file[i].form = "begin" /\ Excess(i, i) > 0
  BY <1>6, <1>7
<1>11. OpenAgain(i) \subseteq 1 .. i - 1 /\ OpenAgain(i + 1) \subseteq 1 .. i BY <1>6 DEF OpenAgain
<1>12. \A j \in 1 .. i - 1 : j \in OpenAgain(i) => Excess(j, i - 1) \in Int /\ Excess(j, i - 1) > 0
  BY <1>2, <1>3, <1>8
<1> DEFINE old == OpenAgain(i)
           new == OpenAgain(i + 1)
<1> HIDE DEF old, new
<1>13. \A j \in 1 .. i : j \in new <=> \/ j \in old /\ Excess(j, i) > 0
                                       \/ j = i /\ Excess(i, i) > 0 /\ file[i].form = "begin"
  <2>1. \A j \in 1 .. i - 1 : j \in new <=> j \in old /\ Excess(j, i) > 0 BY <1>9 DEF old, new
  <2>2. i \in new <=> file[i].form = "begin" /\ Excess(i, i) > 0 BY <1>10 DEF new
  <2>3. i \notin old BY <1>1, <1>11 DEF old
  <2>4. QED BY <1>1, <1>6, <2>1, <2>2, <2>3
<1>14. old \subseteq 1 .. i - 1 /\ new \subseteq 1 .. i BY <1>11 DEF old, new
<1>15. \A j \in old : Excess(j, i - 1) \in Int /\ Excess(j, i - 1) > 0 BY <1>12, <1>14 DEF old
<1>16. ASSUME file[i].form = "begin" PROVE new = old \union {i}
  <2>1. \A j \in old : Excess(j, i) > 0 BY <1>3, <1>6, <1>14, <1>15, <1>16
  <2>2. Excess(i, i) = 1 BY <1>1, <1>3, <1>5, <1>16
  <2>3. 1 > 0 /\ i \in 1 .. i /\ \A j \in old : j \in 1 .. i BY <1>1, <1>6, <1>14
  <2>4. Excess(i, i) > 0 BY <2>2, <2>3
  <2>5. \A j \in 1 .. i : j \in new <=> j \in old \union {i} BY <1>13, <1>16, <2>1, <2>4
  <2>6. QED BY <1>14, <2>3, <2>5
<1>17. ASSUME file[i].form = "end" PROVE new = {j \in old : Excess(j, i - 1) > 1}
  <2>1. ASSUME NEW j \in old PROVE Excess(j, i) > 0 <=> Excess(j, i - 1) > 1
    <3>1. Excess(j, i) = Excess(j, i - 1) - 1 /\ Excess(j, i - 1) \in Int BY <1>3, <1>6, <1>14, <1>17, <2>1
    <3> DEFINE e == Excess(j, i - 1)
               d == Excess(j, i)
    <3>2. d = e - 1 /\ e \in Int BY <3>1
    <3> HIDE DEF d, e
    <3>3. d > 0 <=> e > 1 BY <3>2
    <3>4. QED BY <3>3 DEF d, e
  <2>2. \A j : j \in new <=> j \in old /\ Excess(j, i - 1) > 1 BY <1>1, <1>6, <1>13, <1>14, <1>17, <2>1
  <2>3. QED BY <2>2
<1>18. ASSUME file[i].form \notin {"begin", "end"} PROVE new = old
  <2>1. \A j \in old : Excess(j, i) > 0 BY <1>3, <1>6, <1>14, <1>15, <1>18
  <2>2. \A j : j \in new <=> j \in old BY <1>1, <1>6, <1>13, <1>14, <1>18, <2>1
  <2>3. QED BY <2>2
<1>19. QED BY <1>2, <1>8, <1>16, <1>17, <1>18 DEF old, new

-----------------------------------------------------------------------------
(* The stack of regions.                                                   *)

Phase  == {"pre_header", "after_header", "body"}
Region == [id : STRING, ingest : STRING, table : Phase]

(* The rows before line i of the table that began at line p.               *)
RowsOf(p, i) == {k \in 1 .. i - 1 : file[k].form = "row" /\ Innermost(k) = {p} /\ file[k].cells # "blank"}

BodyBegun(p, i) ==
  \/ \E k \in RowsOf(p, i) : file[k].cells = "rule"
  \/ \A k \in RowsOf(p, i) : (\A m \in RowsOf(p, i) : k <= m) => file[k].cells # "header"

TablePhase(p, i) ==
  IF RowsOf(p, i) = {} THEN "pre_header" ELSE IF BodyBegun(p, i) THEN "body" ELSE "after_header"

(* Region r began at line p and has n regions above it before line i.      *)
RegionIs(r, p, n, i) ==
  /\ file[p].form = "begin" /\ IsId(file[p].id)
  /\ r.id = file[p].id /\ r.ingest = file[p].ingest
  /\ Excess(p, i - 1) = n + 1
  /\ r.ingest = "table" => r.table = TablePhase(p, i)

StackIs(begun, rs, i) ==
  /\ \A q \in 1 .. Len(rs) : RegionIs(rs[q], begun[q], Len(rs) - q, i)
  /\ \A q, r \in 1 .. Len(rs) : q < r => begun[q] < begun[r]
  /\ Open(i) = {begun[q] : q \in 1 .. Len(rs)}

Begins(rs, i) == [1 .. Len(rs) -> 1 .. i - 1]

LEMMA StackTop ==
  ASSUME NEW rs \in Seq(Region), NEW i \in Nat, NEW begun \in Begins(rs, i), StackIs(begun, rs, i)
  PROVE  /\ rs = << >> => Innermost(i) = {}
         /\ rs # << >> => /\ Len(rs) \in 1 .. Len(rs) /\ Last(rs) = rs[Len(rs)] /\ rs[Len(rs)] \in Region
                          /\ Innermost(i) = {begun[Len(rs)]}
                          /\ begun[Len(rs)] \in 1 .. i - 1
                          /\ RegionIs(Last(rs), begun[Len(rs)], 0, i)
<1> DEFINE n == Len(rs)
<1>1. n \in Nat /\ (rs = << >> <=> n = 0) OBVIOUS
<1>2. \A q \in 1 .. n : begun[q] \in 1 .. i - 1 BY DEF Begins
<1>3. ASSUME rs = << >> PROVE Innermost(i) = {}
  <2>1. 1 .. n = {} BY <1>1, <1>3
  <2>2. Open(i) = {} BY <2>1 DEF StackIs
  <2>3. QED BY <2>2 DEF Innermost
<1>4. ASSUME rs # << >>
      PROVE /\ n \in 1 .. n /\ Last(rs) = rs[n] /\ rs[n] \in Region
            /\ Innermost(i) = {begun[n]}
            /\ begun[n] \in 1 .. i - 1
            /\ RegionIs(Last(rs), begun[n], 0, i)
  <2>1. n \in 1 .. n BY <1>1, <1>4
  <2>2. Last(rs) = rs[n] /\ rs[n] \in Region BY <2>1 DEF Last
  <2>3. \A q \in 1 .. n : begun[q] <= begun[n]
    BY <1>1, <1>2, <2>1 DEF StackIs
  <2>4. Open(i) = {begun[q] : q \in 1 .. n} BY DEF StackIs
  <2>5. begun[n] \in Open(i) /\ \A k \in Open(i) : k \in Nat /\ k <= begun[n] BY <1>2, <2>1, <2>3, <2>4
  <2>6. \A j \in Open(i) : (\A k \in Open(i) : k <= j) <=> j = begun[n]
    <3> DEFINE top == begun[n]
    <3> HIDE DEF top
    <3>1. top \in Open(i) /\ \A k \in Open(i) : k \in Nat /\ k <= top BY <2>5 DEF top
    <3>2. \A j \in Open(i) : (\A k \in Open(i) : k <= j) <=> j = top BY <3>1
    <3>3. QED BY <3>2 DEF top
  <2>7. Innermost(i) = {begun[n]} BY <2>5, <2>6 DEF Innermost
  <2>8. RegionIs(rs[n], begun[n], n - n, i) BY <2>1 DEF StackIs
  <2>9. n - n = 0 BY <1>1
  <2>10. QED BY <1>2, <2>1, <2>2, <2>7, <2>8, <2>9
<1>5. QED BY <1>3, <1>4

LEMMA InnermostIsBefore ==
  \A k \in Nat : \A p \in Innermost(k) : p \in 1 .. k - 1
BY DEF Innermost, Open

LEMMA RowsStep ==
  ASSUME NEW i \in DOMAIN file, file \in Seq(Line), NEW p
  PROVE  /\ RowsOf(p, i + 1) =
              IF file[i].form = "row" /\ Innermost(i) = {p} /\ file[i].cells # "blank"
              THEN RowsOf(p, i) \union {i} ELSE RowsOf(p, i)
         /\ RowsOf(p, i) \subseteq 1 .. i - 1
<1>1. i \in Nat /\ i >= 1 /\ 1 .. (i + 1) - 1 = (1 .. i - 1) \union {i} OBVIOUS
<1>2. QED BY <1>1 DEF RowsOf

LEMMA PhaseStays ==
  ASSUME NEW i \in DOMAIN file, file \in Seq(Line), NEW p,
         file[i].form = "row" => Innermost(i) # {p} \/ file[i].cells = "blank"
  PROVE  TablePhase(p, i + 1) = TablePhase(p, i)
<1>1. RowsOf(p, i + 1) = RowsOf(p, i) BY RowsStep
<1>2. QED BY <1>1 DEF TablePhase, BodyBegun

(* A row that is not blank, in the table that began at line p.             *)
LEMMA PhaseStep ==
  ASSUME NEW i \in DOMAIN file, file \in Seq(Line), NEW p,
         file[i].form = "row", Innermost(i) = {p}, file[i].cells # "blank"
  PROVE  TablePhase(p, i + 1) =
           IF file[i].cells = "rule" THEN "body"
           ELSE IF TablePhase(p, i) = "pre_header"
                THEN (IF file[i].cells = "header" THEN "after_header" ELSE "body")
                ELSE TablePhase(p, i)
<1> DEFINE R == RowsOf(p, i)
           S == RowsOf(p, i + 1)
<1>1. S = R \union {i} /\ R \subseteq 1 .. i - 1 BY RowsStep
<1>2. i \in Nat /\ i >= 1 OBVIOUS
<1>3. /\ BodyBegun(p, i) <=> (\/ \E h \in R : file[h].cells = "rule"
                              \/ \A k \in R : (\A m \in R : k <= m) => file[k].cells # "header")
      /\ BodyBegun(p, i + 1) <=> (\/ \E h \in S : file[h].cells = "rule"
                                  \/ \A k \in S : (\A m \in S : k <= m) => file[k].cells # "header")
  BY DEF BodyBegun
<1>4. /\ TablePhase(p, i) = IF R = {} THEN "pre_header" ELSE IF BodyBegun(p, i) THEN "body" ELSE "after_header"
      /\ TablePhase(p, i + 1) = IF S = {} THEN "pre_header" ELSE IF BodyBegun(p, i + 1) THEN "body" ELSE "after_header"
  BY DEF TablePhase
<1> HIDE DEF R, S
<1>5. CASE file[i].cells = "rule"
  <2>1. BodyBegun(p, i + 1) BY <1>1, <1>3, <1>5
  <2>2. QED BY <1>1, <1>4, <1>5, <2>1
<1>6. CASE file[i].cells # "rule" /\ R = {}
  <2>1. S = {i} BY <1>1, <1>6
  <2>2. BodyBegun(p, i + 1) <=> file[i].cells # "header" BY <1>2, <1>3, <1>6, <2>1
  <2>3. QED BY <1>4, <1>6, <2>1, <2>2
<1>7. CASE file[i].cells # "rule" /\ R # {}
  <2>1. \A k \in S : (\A m \in S : k <= m) <=> (k \in R /\ \A m \in R : k <= m)
    <3>1. PICK r \in R : TRUE BY <1>7
    <3>2. r \in S /\ ~(i <= r) BY <1>1, <1>2, <3>1
    <3>3. \A k \in R : k <= i BY <1>1, <1>2
    <3>4. QED BY <1>1, <3>2, <3>3
  <2>2. BodyBegun(p, i + 1) <=> BodyBegun(p, i) BY <1>1, <1>3, <1>7, <2>1
  <2>3. S # {} BY <1>1
  <2>4. QED BY <1>4, <1>7, <2>2, <2>3
<1>8. QED BY <1>5, <1>6, <1>7

(* A line that is no bracket and no row of the innermost table.            *)
LEMMA StackStays ==
  ASSUME NEW rs \in Seq(Region), NEW i \in DOMAIN file, file \in Seq(Line),
         NEW begun \in Begins(rs, i), StackIs(begun, rs, i),
         file[i].form \notin {"begin", "end"},
         file[i].form = "row" => rs = << >> \/ Last(rs).ingest # "table"
  PROVE  begun \in Begins(rs, i + 1) /\ StackIs(begun, rs, i + 1)
<1>1. i \in Nat /\ i >= 1 /\ (i + 1) - 1 = i /\ (i - 1) + 1 = i /\ i - 1 \in Nat OBVIOUS
<1>2. 1 .. i - 1 \subseteq 1 .. (i + 1) - 1 BY <1>1
<1>3. begun \in Begins(rs, i + 1) BY <1>2 DEF Begins
<1>4. Open(i + 1) = Open(i) BY OpenStep
<1>5. ASSUME NEW q \in 1 .. Len(rs) PROVE RegionIs(rs[q], begun[q], Len(rs) - q, i + 1)
  <2>1. RegionIs(rs[q], begun[q], Len(rs) - q, i) BY DEF StackIs
  <2>2. begun[q] \in 1 .. i - 1 BY DEF Begins
  <2>3. Excess(begun[q], i) = Excess(begun[q], i - 1)
    <3>1. begun[q] \in Nat \ {0} BY <2>2
    <3>2. QED BY <1>1, <3>1, ExcessStep
  <2>4. ASSUME rs[q].ingest = "table" PROVE TablePhase(begun[q], i + 1) = TablePhase(begun[q], i)
    <3>1. file[i].form = "row" => Innermost(i) # {begun[q]}
      <4> SUFFICES ASSUME file[i].form = "row" PROVE Innermost(i) # {begun[q]}
        OBVIOUS
      <4>1. rs # << >> OBVIOUS
      <4>2. q # Len(rs) BY <2>4, <4>1, <1>1, StackTop
      <4>3. begun[q] < begun[Len(rs)] BY <4>1, <4>2 DEF StackIs
      <4>4. Innermost(i) = {begun[Len(rs)]} /\ begun[Len(rs)] \in 1 .. i - 1 BY <1>1, <4>1, StackTop
      <4>5. QED BY <2>2, <4>3, <4>4
    <3>2. QED BY <3>1, PhaseStays
  <2>5. QED BY <1>1, <2>1, <2>3, <2>4 DEF RegionIs
<1>6. QED BY <1>3, <1>4, <1>5 DEF StackIs

LEMMA StackRow ==
  ASSUME NEW rs \in Seq(Region), NEW i \in DOMAIN file, file \in Seq(Line),
         NEW begun \in Begins(rs, i), StackIs(begun, rs, i),
         file[i].form = "row", rs # << >>, Last(rs).ingest = "table", NEW reached \in Phase,
         reached = TablePhase(begun[Len(rs)], i + 1),
         NEW new, new = Append(Front(rs), [Last(rs) EXCEPT !.table = reached])
  PROVE  /\ new \in Seq(Region) /\ Len(new) = Len(rs)
         /\ begun \in Begins(new, i + 1) /\ StackIs(begun, new, i + 1)
<1>1. i \in Nat /\ i >= 1 /\ (i + 1) - 1 = i /\ (i - 1) + 1 = i /\ i - 1 \in Nat OBVIOUS
<1>2. 1 .. i - 1 \subseteq 1 .. (i + 1) - 1 BY <1>1
<1> DEFINE n == Len(rs)
<1>3. n \in Nat /\ n >= 1 /\ Last(rs) = rs[n] /\ rs[n] \in Region
  <2>1. n \in 1 .. n BY <1>1, StackTop
  <2>2. QED BY <2>1, <1>1, StackTop
<1>4. Front(rs) \in Seq(Region) /\ Len(Front(rs)) = n - 1 /\ \A q \in 1 .. n - 1 : Front(rs)[q] = rs[q]
  <2>1. \A q \in 1 .. n - 1 : rs[q] \in Region BY <1>3
  <2>2. Front(rs) = SubSeq(rs, 1, n - 1) BY DEF Front
  <2>3. 1 \in Int /\ n - 1 \in Int BY <1>3
  <2> HIDE DEF n
  <2>4. QED BY <1>3, <2>1, <2>2, <2>3, SubSeqProperties
<1>5. [Last(rs) EXCEPT !.table = reached] \in Region BY <1>3 DEF Region
<1>6. /\ new \in Seq(Region) /\ Len(new) = n
      /\ \A q \in 1 .. n - 1 : new[q] = rs[q]
      /\ new[n] = [Last(rs) EXCEPT !.table = reached]
  <2> DEFINE f == Front(rs)
             e == [Last(rs) EXCEPT !.table = reached]
  <2>1. new = Append(f, e) /\ e \in Region /\ f \in Seq(Region) /\ Len(f) = n - 1 BY <1>4, <1>5
  <2> HIDE DEF f, e
  <2>2. /\ new \in Seq(Region) /\ Len(new) = Len(f) + 1 /\ new[Len(f) + 1] = e
        /\ \A q \in 1 .. Len(f) : new[q] = f[q]
    <3>1. /\ Append(f, e) \in Seq(Region) /\ Len(Append(f, e)) = Len(f) + 1 /\ Append(f, e)[Len(f) + 1] = e
          /\ \A q \in 1 .. Len(f) : Append(f, e)[q] = f[q]
      BY <2>1, AppendProperties
    <3>2. QED BY <2>1, <3>1
  <2>3. (n - 1) + 1 = n BY <1>3
  <2>4. QED BY <1>4, <2>1, <2>2, <2>3 DEF f, e
<1>7. begun \in Begins(new, i + 1) BY <1>2, <1>6 DEF Begins
<1>8. Open(i + 1) = Open(i) BY OpenStep
<1>9. new[n].id = rs[n].id /\ new[n].ingest = rs[n].ingest /\ new[n].table = reached
  BY <1>3, <1>6 DEF Region
<1>10. ASSUME NEW q \in 1 .. n PROVE RegionIs(new[q], begun[q], n - q, i + 1)
  <2>1. RegionIs(rs[q], begun[q], n - q, i) BY DEF StackIs
  <2>2. begun[q] \in 1 .. i - 1 BY DEF Begins
  <2>3. Excess(begun[q], i) = Excess(begun[q], i - 1)
    <3>1. begun[q] \in Nat \ {0} BY <2>2
    <3>2. QED BY <1>1, <3>1, ExcessStep
  <2>4. CASE q = n
    BY <1>1, <1>9, <2>1, <2>3, <2>4 DEF RegionIs
  <2>5. CASE q # n
    <3>1. begun[q] < begun[n] BY <1>3, <2>5 DEF StackIs
    <3>2. Innermost(i) = {begun[n]} /\ begun[n] \in 1 .. i - 1 BY <1>1, StackTop
    <3>3. begun[q] # begun[n] BY <2>2, <3>1, <3>2
    <3>4. Innermost(i) # {begun[q]} BY <3>2, <3>3
    <3>5. TablePhase(begun[q], i + 1) = TablePhase(begun[q], i) BY <3>4, PhaseStays
    <3>6. new[q] = rs[q] BY <1>3, <1>6, <2>5
    <3>7. QED BY <1>1, <2>1, <2>3, <3>5, <3>6 DEF RegionIs
  <2>6. QED BY <2>4, <2>5
<1>11. QED BY <1>6, <1>7, <1>8, <1>10 DEF StackIs

LEMMA StackBegin ==
  ASSUME NEW rs \in Seq(Region), NEW i \in DOMAIN file, file \in Seq(Line),
         NEW begun \in Begins(rs, i), StackIs(begun, rs, i),
         file[i].form = "begin", IsId(file[i].id),
         NEW new, new = Append(rs, [id |-> file[i].id, ingest |-> file[i].ingest, table |-> "pre_header"])
  PROVE  new \in Seq(Region) /\ \E b \in Begins(new, i + 1) : StackIs(b, new, i + 1)
<1>1. i \in Nat /\ i >= 1 /\ (i + 1) - 1 = i /\ (i - 1) + 1 = i /\ i - 1 \in Nat OBVIOUS
<1> DEFINE n == Len(rs)
           r == [id |-> file[i].id, ingest |-> file[i].ingest, table |-> "pre_header"]
           b == [q \in 1 .. n + 1 |-> IF q = n + 1 THEN i ELSE begun[q]]
<1>2. n \in Nat OBVIOUS
<1>3. r \in Region
  <2>1. file[i] \in Line OBVIOUS
  <2>2. file[i] \in Anchor BY <2>1 DEF Line, Anchor, Garbled, Checkbox, Row, Other
  <2>3. file[i].id \in STRING /\ file[i].ingest \in STRING BY <2>2 DEF Anchor
  <2>4. QED BY <2>3 DEF Region, Phase
<1>4. /\ new \in Seq(Region) /\ Len(new) = n + 1
      /\ \A q \in 1 .. n : new[q] = rs[q]
      /\ new[n + 1] = r
  <2> HIDE DEF r
  <2>1. new = Append(rs, r) BY DEF r
  <2>2. QED BY <1>3, <2>1
<1>5. \A q \in 1 .. n : begun[q] \in 1 .. i - 1 BY DEF Begins
<1>6. b \in Begins(new, i + 1) BY <1>1, <1>2, <1>4, <1>5 DEF Begins
<1>7. \A q \in 1 .. n : b[q] = begun[q] /\ b[n + 1] = i BY <1>2
<1>8. b[n + 1] = i BY <1>2
<1> HIDE DEF b
<1>9. Open(i + 1) = Open(i) \union {i} BY OpenStep
<1>10. Open(i + 1) = {b[q] : q \in 1 .. n + 1}
  <2>1. Open(i) = {begun[q] : q \in 1 .. n} BY DEF StackIs
  <2>2. 1 .. n + 1 = (1 .. n) \union {n + 1} BY <1>2
  <2>3. QED BY <1>7, <1>8, <1>9, <2>1, <2>2
<1>11. \A q, m \in 1 .. n + 1 : q < m => b[q] < b[m]
  <2>1. \A q, m \in 1 .. n : q < m => b[q] < b[m] BY <1>7 DEF StackIs
  <2>2. \A q \in 1 .. n : b[q] \in 1 .. i - 1 BY <1>5, <1>7
  <2>3. \A q, m \in 1 .. n + 1 : q < m => q \in 1 .. n BY <1>2
  <2>4. \A m \in 1 .. n + 1 : m \in 1 .. n \/ m = n + 1 BY <1>2
  <2>5. \A q \in 1 .. n : b[q] < b[n + 1] BY <1>1, <1>8, <2>2
  <2>6. QED BY <2>1, <2>3, <2>4, <2>5
<1>12. ASSUME NEW q \in 1 .. n + 1 PROVE RegionIs(new[q], b[q], (n + 1) - q, i + 1)
  <2>1. CASE q = n + 1
    <3>1. Excess(i, i) = 1
      <4>1. i \in Nat \ {0} BY <1>1
      <4>2. Excess(i, i - 1) = 0 BY <4>1, ExcessStart
      <4>3. QED BY <1>1, <4>1, <4>2, ExcessStep
    <3>2. RowsOf(i, i + 1) = {}
      <4>1. \A k \in 1 .. i : i \notin Innermost(k) BY <1>1, InnermostIsBefore
      <4>2. QED BY <1>1, <4>1 DEF RowsOf
    <3>3. TablePhase(i, i + 1) = "pre_header" BY <3>2 DEF TablePhase
    <3>4. (n + 1) - q = 0 BY <1>2, <2>1
    <3>5. QED BY <1>1, <1>4, <1>8, <2>1, <3>1, <3>3, <3>4 DEF RegionIs
  <2>2. CASE q # n + 1
    <3>1. q \in 1 .. n BY <1>2, <2>2
    <3>2. RegionIs(rs[q], begun[q], n - q, i) BY <3>1 DEF StackIs
    <3>3. Excess(begun[q], i) = Excess(begun[q], i - 1) + 1
      <4>1. begun[q] \in Nat \ {0} BY <1>5, <3>1
      <4>2. QED BY <1>1, <4>1, ExcessStep
    <3>4. TablePhase(begun[q], i + 1) = TablePhase(begun[q], i) BY PhaseStays
    <3>5. (n - q) + 1 = (n + 1) - q BY <1>2, <3>1
    <3>6. QED BY <1>1, <1>4, <1>7, <3>1, <3>2, <3>3, <3>4, <3>5 DEF RegionIs
  <2>3. QED BY <2>1, <2>2
<1>13. StackIs(b, new, i + 1) BY <1>4, <1>10, <1>11, <1>12 DEF StackIs
<1>14. QED BY <1>4, <1>6, <1>13

LEMMA StackEnd ==
  ASSUME NEW rs \in Seq(Region), NEW i \in DOMAIN file, file \in Seq(Line),
         NEW begun \in Begins(rs, i), StackIs(begun, rs, i),
         file[i].form = "end", rs # << >>,
         NEW new, new = Front(rs)
  PROVE  new \in Seq(Region) /\ \E b \in Begins(new, i + 1) : StackIs(b, new, i + 1)
<1>1. i \in Nat /\ i >= 1 /\ (i + 1) - 1 = i /\ (i - 1) + 1 = i /\ i - 1 \in Nat OBVIOUS
<1> DEFINE n == Len(rs)
           b == [q \in 1 .. n - 1 |-> begun[q]]
<1>2. n \in Nat /\ n >= 1 OBVIOUS
<1>3. new \in Seq(Region) /\ Len(new) = n - 1 /\ \A q \in 1 .. n - 1 : new[q] = rs[q]
  <2>1. \A q \in 1 .. n - 1 : rs[q] \in Region BY <1>2
  <2>2. new = SubSeq(rs, 1, n - 1) BY DEF Front
  <2>3. 1 \in Int /\ n - 1 \in Int BY <1>2
  <2> HIDE DEF n
  <2>4. QED BY <1>2, <2>1, <2>2, <2>3, SubSeqProperties
<1>4. \A q \in 1 .. n : begun[q] \in 1 .. i - 1 BY DEF Begins
<1>5. b \in Begins(new, i + 1) BY <1>1, <1>2, <1>3, <1>4 DEF Begins
<1>6. \A q \in 1 .. n - 1 : b[q] = begun[q] OBVIOUS
<1> HIDE DEF b
<1>7. Open(i + 1) = {j \in Open(i) : Excess(j, i - 1) > 1} BY OpenStep
<1>8. \A q \in 1 .. n : Excess(begun[q], i - 1) = (n - q) + 1 BY DEF StackIs, RegionIs
<1>9. Open(i + 1) = {b[q] : q \in 1 .. n - 1}
  <2>1. Open(i) = {begun[q] : q \in 1 .. n} BY DEF StackIs
  <2>2. \A q \in 1 .. n : Excess(begun[q], i - 1) > 1 <=> q \in 1 .. n - 1
    <3>1. \A q \in 1 .. n : (n - q) + 1 > 1 <=> q \in 1 .. n - 1 BY <1>2
    <3>2. QED BY <1>8, <3>1
  <2>3. 1 .. n - 1 \subseteq 1 .. n BY <1>2
  <2>4. QED BY <1>6, <1>7, <2>1, <2>2, <2>3
<1>10. \A q, m \in 1 .. n - 1 : q < m => b[q] < b[m]
  <2>1. 1 .. n - 1 \subseteq 1 .. n BY <1>2
  <2>2. QED BY <1>6, <2>1 DEF StackIs
<1>11. ASSUME NEW q \in 1 .. n - 1 PROVE RegionIs(new[q], b[q], (n - 1) - q, i + 1)
  <2>1. q \in 1 .. n /\ q \in Nat BY <1>2
  <2>2. RegionIs(rs[q], begun[q], n - q, i) BY <2>1 DEF StackIs
  <2>3. Excess(begun[q], i) = Excess(begun[q], i - 1) - 1
    <3>1. begun[q] \in Nat \ {0} BY <1>4, <2>1
    <3>2. QED BY <1>1, <3>1, ExcessStep
  <2>4. TablePhase(begun[q], i + 1) = TablePhase(begun[q], i) BY PhaseStays
  <2>5. ((n - q) + 1) - 1 = ((n - 1) - q) + 1 BY <1>2, <2>1
  <2>6. QED BY <1>1, <1>3, <1>6, <1>8, <2>1, <2>2, <2>3, <2>4, <2>5 DEF RegionIs
<1>12. StackIs(b, new, i + 1) BY <1>3, <1>9, <1>10, <1>11 DEF StackIs
<1>13. QED BY <1>3, <1>5, <1>12

-----------------------------------------------------------------------------
(* The inductive invariant.                                                *)

ItemRecord == [line : Nat, id : STRING, done : BOOLEAN, source : {"inline", "region", "prev_line", "table"}]

AnchorIs(p, i) ==
  \/ p = "none" /\ Above(i) = {}
  \/ \E j \in Above(i) : Above(i) = {j} /\ p = file[j].id /\ IsId(p)

AloneIs(a, i) == a = {file[j].id : j \in {k \in 1 .. i - 1 : file[k].form = "standalone"}}

Credits(i) == {<<i, id, Done(i)>> : id \in Owner(i)}

ItemsAre(its, i) ==
  /\ its \in Seq(ItemRecord)
  /\ {<<x.line, x.id, x.done>> : x \in ToSet(its)} = UNION {Credits(k) : k \in 1 .. i - 1}
  /\ \A m \in DOMAIN its : its[m].line \in 1 .. i - 1
  /\ \A m, n \in DOMAIN its : m < n => its[m].line < its[n].line

StackFollows(rs, i) == rs \in Seq(Region) /\ \E begun \in Begins(rs, i) : StackIs(begun, rs, i)

(* While nothing was wrong, the parser stands where the file says.         *)
Follows(i, rs, a, p, its) ==
  StackFollows(rs, i) /\ AloneIs(a, i) /\ AnchorIs(p, i) /\ ItemsAre(its, i)

TrackInd ==
  /\ file \in File /\ at \in 1 .. Len(file) + 1 /\ ended \in BOOLEAN
  /\ ended => at = Len(file) + 1
  /\ ended => (errors = {} <=> Sound)
  /\ ~ended => (errors = {} <=> \A k \in 1 .. at - 1 : SoundLine(k))
  /\ errors = {} => Follows(at, regions, alone, prev, items)

(* What a file says does not change while it is read.                      *)
LEMMA FileStays ==
  ASSUME file' = file
  PROVE  /\ \A i : SoundLine(i)' <=> SoundLine(i)
         /\ Sound' <=> Sound
         /\ \A i, rs, a, p, its : Follows(i, rs, a, p, its)' <=> Follows(i, rs, a, p, its)
<1>1. \A form, i : Count(form, i)' = Count(form, i) BY DEF Count
<1>2. \A i : Open(i)' = Open(i) BY <1>1 DEF Open
<1>3. \A i : Innermost(i)' = Innermost(i) BY <1>2 DEF Innermost
<1>4. \A i : Tabled(i)' <=> Tabled(i) BY <1>3 DEF Tabled
<1>5. \A i : SoundLine(i)' <=> SoundLine(i) BY <1>2, <1>3, <1>4 DEF SoundLine
<1>6. Places' = Places BY DEF Places
<1>7. Sound' <=> Sound BY <1>2, <1>5, <1>6 DEF Sound
<1>8. \A j, i : Excess(j, i)' = Excess(j, i) BY <1>1 DEF Excess
<1>9. \A p, i : RowsOf(p, i)' = RowsOf(p, i) BY <1>3 DEF RowsOf
<1>10. \A p, i : BodyBegun(p, i)' <=> BodyBegun(p, i) BY <1>9 DEF BodyBegun
<1>11. \A p, i : TablePhase(p, i)' = TablePhase(p, i) BY <1>9, <1>10 DEF TablePhase
<1>12. \A r, p, n, i : RegionIs(r, p, n, i)' <=> RegionIs(r, p, n, i) BY <1>8, <1>11 DEF RegionIs
<1>13. \A b, rs, i : StackIs(b, rs, i)' <=> StackIs(b, rs, i) BY <1>2, <1>12 DEF StackIs
<1>14. \A rs, i : StackFollows(rs, i)' <=> StackFollows(rs, i) BY <1>13 DEF StackFollows
<1>15. \A i : Above(i)' = Above(i) BY DEF Above
<1>16. \A p, i : AnchorIs(p, i)' <=> AnchorIs(p, i) BY <1>15 DEF AnchorIs
<1>17. \A a, i : AloneIs(a, i)' <=> AloneIs(a, i) BY DEF AloneIs
<1>18. \A i : RowsBefore(i)' = RowsBefore(i) BY <1>3 DEF RowsBefore
<1>19. \A i : InBody(i)' <=> InBody(i) BY <1>18 DEF InBody
<1>20. \A i : Owner(i)' = Owner(i) BY <1>3, <1>4, <1>15, <1>19 DEF Owner
<1>21. \A i : Credits(i)' = Credits(i) BY <1>20 DEF Credits, Done
<1>22. \A its, i : ItemsAre(its, i)' <=> ItemsAre(its, i) BY <1>21 DEF ItemsAre
<1>23. QED BY <1>5, <1>7, <1>14, <1>16, <1>17, <1>22 DEF Follows

(* What the parser knows of the next line, while nothing was wrong.        *)
LEMMA AtLine ==
  ASSUME TrackInd, errors = {}, at \in DOMAIN file
  PROVE  /\ file \in Seq(Line) /\ at \in Nat /\ at >= 1
         /\ file[at] \in Line
         /\ InTable <=> Tabled(at)
         /\ regions = << >> => Innermost(at) = {} /\ ~Tabled(at)
         /\ regions # << >> =>
              \E p \in 1 .. at - 1 : /\ Innermost(at) = {p} /\ RegionIs(Top, p, 0, at)
                                     /\ Top \in Region /\ regions # << >>
<1>1. file \in Seq(Line) BY FileAssumption DEF TrackInd
<1>2. at \in Nat /\ at >= 1 /\ file[at] \in Line BY <1>1
<1>3. PICK begun \in Begins(regions, at) : StackIs(begun, regions, at) BY DEF TrackInd, Follows, StackFollows
<1>4. regions \in Seq(Region) BY DEF TrackInd, Follows, StackFollows
<1>5. CASE regions = << >>
  <2>1. Innermost(at) = {} BY <1>2, <1>3, <1>4, <1>5, StackTop
  <2>2. ~Tabled(at) BY <2>1 DEF Tabled
  <2>3. ~InTable BY <1>5 DEF InTable
  <2>4. QED BY <1>1, <1>2, <1>5, <2>1, <2>2, <2>3
<1>6. CASE regions # << >>
  <2> DEFINE p == begun[Len(regions)]
  <2>1. /\ Innermost(at) = {p} /\ p \in 1 .. at - 1 /\ RegionIs(Last(regions), p, 0, at)
        /\ Last(regions) \in Region
    BY <1>2, <1>3, <1>4, <1>6, StackTop
  <2> HIDE DEF p
  <2>2. Tabled(at) <=> file[p].ingest = "table" BY <2>1 DEF Tabled
  <2>3. InTable <=> Last(regions).ingest = "table" BY <1>6 DEF InTable, Top
  <2>4. Last(regions).ingest = file[p].ingest BY <2>1 DEF RegionIs
  <2>5. QED BY <1>1, <1>2, <1>6, <2>1, <2>2, <2>3, <2>4 DEF Top
<1>7. QED BY <1>5, <1>6

(* A line is found wrong exactly when it is.                               *)
LEMMA LineIsJudged ==
  ASSUME TrackInd, errors = {}, ReadLine
  PROVE  errors' = {} <=> SoundLine(at)
<1>1. at \in DOMAIN file
  <2>1. at <= Len(file) BY DEF ReadLine, ReadStandalone, ReadBegin, ReadEnd, ReadGarbled, ReadBlank, ReadNonRow,
                             ReadRow, ReadCheckbox, ReadNumbered, ReadProse, Reads
  <2>2. file \in Seq(Line) BY FileAssumption DEF TrackInd
  <2>3. QED BY <2>1, <2>2 DEF TrackInd
<1>2. /\ file \in Seq(Line) /\ at \in Nat /\ at >= 1
      /\ InTable <=> Tabled(at)
      /\ regions = << >> => Innermost(at) = {} /\ ~Tabled(at)
      /\ regions # << >> => \E p \in 1 .. at - 1 : Innermost(at) = {p} /\ RegionIs(Top, p, 0, at)
  BY <1>1, AtLine
<1>3. \A bad : ErrorIf(bad) => (errors' = {} <=> ~bad) BY DEF ErrorIf
<1> DEFINE i == at
<1>4. CASE ReadStandalone
  <2>1. file[i].form = "standalone" /\ IsId(file[i].id) BY <1>4 DEF ReadStandalone, Reads, line
  <2>2. ErrorIf(file[i].id \in alone \/ ~file[i].fields) BY <1>4 DEF ReadStandalone, line
  <2>3. AloneIs(alone, i) BY DEF TrackInd, Follows
  <2>4. file[i].id \in alone <=> \E j \in 1 .. i - 1 : file[j].form = "standalone" /\ file[j].id = file[i].id
    BY <2>3 DEF AloneIs
  <2>5. errors' = {} <=> ~(file[i].id \in alone \/ ~file[i].fields) BY <1>3, <2>2
  <2>6. SoundLine(i) <=> /\ IsId(file[i].id) /\ file[i].fields
                         /\ \A j \in 1 .. i - 1 : file[j].form = "standalone" => file[j].id # file[i].id
    BY <2>1 DEF SoundLine
  <2>7. QED BY <2>1, <2>4, <2>5, <2>6
<1>5. CASE ReadBegin
  <2>1. file[i].form = "begin" /\ IsId(file[i].id) BY <1>5 DEF ReadBegin, Reads, line
  <2>2. ErrorIf((\E q \in DOMAIN regions : regions[q].id = file[i].id) \/ ~file[i].fields) BY <1>5 DEF ReadBegin, line
  <2>3. PICK begun \in Begins(regions, i) : StackIs(begun, regions, i) BY DEF TrackInd, Follows, StackFollows
  <2>4. DOMAIN regions = 1 .. Len(regions) BY DEF TrackInd, Follows, StackFollows
  <2>5. \A q \in DOMAIN regions : regions[q].id = file[begun[q]].id BY <2>3, <2>4 DEF StackIs, RegionIs
  <2>6. Open(i) = {begun[q] : q \in DOMAIN regions} BY <2>3, <2>4 DEF StackIs
  <2>7. (\E q \in DOMAIN regions : regions[q].id = file[i].id) <=> \E j \in Open(i) : file[j].id = file[i].id
    BY <2>5, <2>6
  <2>8. errors' = {} <=> ~((\E q \in DOMAIN regions : regions[q].id = file[i].id) \/ ~file[i].fields) BY <1>3, <2>2
  <2>9. SoundLine(i) <=> IsId(file[i].id) /\ file[i].fields /\ \A j \in Open(i) : file[j].id # file[i].id
    BY <2>1 DEF SoundLine
  <2>10. QED BY <2>1, <2>7, <2>8, <2>9
<1>6. CASE ReadEnd
  <2>1. file[i].form = "end" BY <1>6 DEF ReadEnd, Reads
  <2>2. errors' = {} <=> Closes /\ file[i].fields BY <1>3, <1>6 DEF ReadEnd, line
  <2>3. SoundLine(i) <=> file[i].fields /\ \E j \in Innermost(i) : file[i].id \in {"none", file[j].id}
    BY <2>1 DEF SoundLine
  <2>4. Closes <=> \E j \in Innermost(i) : file[i].id \in {"none", file[j].id}
    <3>1. CASE regions = << >> BY <1>2, <3>1 DEF Closes
    <3>2. CASE regions # << >> BY <1>2, <3>2 DEF Closes, RegionIs, line
    <3>3. QED BY <3>1, <3>2
  <2>5. QED BY <2>2, <2>3, <2>4
<1>7. CASE ReadGarbled
  <2>1. /\ file[i].form \in {"garbled", "standalone", "begin"}
        /\ file[i].form # "garbled" => ~IsId(file[i].id)
    BY <1>7 DEF ReadGarbled, Reads, line
  <2>2. errors' # {} BY <1>3, <1>7 DEF ReadGarbled
  <2>3. ~SoundLine(i) BY <2>1 DEF SoundLine
  <2>4. QED BY <2>2, <2>3
<1>8. CASE ReadBlank \/ ReadNonRow \/ ReadRow \/ ReadNumbered \/ ReadProse
  <2>1. /\ file[i].form \in {"blank", "checkbox", "numbered", "prose", "row"}
        /\ file[i].form = "checkbox" => InTable
    BY <1>8 DEF ReadBlank, ReadNonRow, ReadRow, ReadNumbered, ReadProse, Reads
  <2>2. errors' = errors BY <1>8 DEF ReadBlank, ReadNonRow, ReadRow, ReadNumbered, ReadProse
  <2>3. SoundLine(i) BY <1>2, <2>1 DEF SoundLine
  <2>4. QED BY <2>2, <2>3
<1>9. CASE ReadCheckbox
  <2>1. file[i].form = "checkbox" /\ ~InTable BY <1>9 DEF ReadCheckbox, Reads
  <2>2. errors' = {} <=> ~(file[i].inline = "garbled"
                           \/ (file[i].inline = "object" /\ (~IsId(file[i].id) \/ ~file[i].fields)))
    BY <1>3, <1>9 DEF ReadCheckbox, line
  <2>3. SoundLine(i) <=> /\ file[i].inline # "garbled"
                         /\ file[i].inline = "object" => IsId(file[i].id) /\ file[i].fields
    BY <1>2, <2>1 DEF SoundLine
  <2>4. QED BY <2>2, <2>3
<1>10. QED BY <1>4, <1>5, <1>6, <1>7, <1>8, <1>9 DEF ReadLine

(* What the items, the anchors and the line above come to, line by line.   *)
LEMMA LinesBefore ==
  ASSUME NEW i \in DOMAIN file, file \in Seq(Line)
  PROVE  /\ 1 .. (i + 1) - 1 = (1 .. i - 1) \union {i} /\ i \in Nat /\ i >= 1
         /\ file[i].form = "standalone" => Above(i + 1) = {i}
         /\ file[i].form = "blank" => Above(i + 1) = Above(i)
         /\ file[i].form \notin {"standalone", "blank"} => Above(i + 1) = {}
<1>1. i \in Nat /\ i >= 1 /\ 1 .. (i + 1) - 1 = (1 .. i - 1) \union {i} /\ (i + 1) - 1 = i OBVIOUS
<1>2. \A j \in 1 .. i - 1 : j + 1 .. i = (j + 1 .. i - 1) \union {i} BY <1>1
<1>3. i + 1 .. i = {} BY <1>1
<1> DEFINE new == Above(i + 1)
           old == Above(i)
<1>4. \A j : j \in old <=> /\ j \in 1 .. i - 1 /\ file[j].form = "standalone"
                           /\ \A k \in j + 1 .. i - 1 : file[k].form = "blank"
  BY DEF Above
<1>5. \A j : j \in new <=> /\ j \in (1 .. i - 1) \union {i} /\ file[j].form = "standalone"
                           /\ \A k \in j + 1 .. i : file[k].form = "blank"
  BY <1>1 DEF Above
<1> HIDE DEF new, old
<1>6. \A j \in 1 .. i - 1 : j \in new <=> j \in old /\ file[i].form = "blank" BY <1>2, <1>4, <1>5
<1>7. i \in new <=> file[i].form = "standalone" BY <1>3, <1>5
<1>8. i \notin old /\ i \notin 1 .. i - 1 BY <1>1, <1>4
<1>9. \A j \in new : j \in 1 .. i - 1 \/ j = i BY <1>5
<1>10. \A j \in old : j \in 1 .. i - 1 BY <1>4
<1>11. file[i].form = "standalone" => new = {i} BY <1>6, <1>7, <1>9
<1>12. file[i].form = "blank" => new = old BY <1>6, <1>7, <1>8, <1>9, <1>10
<1>13. file[i].form \notin {"standalone", "blank"} => new = {} BY <1>6, <1>7, <1>9
<1>14. QED BY <1>1, <1>11, <1>12, <1>13 DEF new, old

LEMMA ItemsStay ==
  ASSUME NEW i \in DOMAIN file, file \in Seq(Line), NEW its, ItemsAre(its, i), Owner(i) = {}
  PROVE  ItemsAre(its, i + 1)
<1>1. 1 .. (i + 1) - 1 = (1 .. i - 1) \union {i} BY LinesBefore
<1>2. Credits(i) = {} BY DEF Credits
<1>3. UNION {Credits(k) : k \in 1 .. (i + 1) - 1} = UNION {Credits(k) : k \in 1 .. i - 1} BY <1>1, <1>2
<1>4. QED BY <1>1, <1>3 DEF ItemsAre

LEMMA ItemsGrow ==
  ASSUME NEW i \in DOMAIN file, file \in Seq(Line), NEW its, ItemsAre(its, i),
         NEW x \in ItemRecord, x.line = i, x.done = Done(i), Owner(i) = {x.id}
  PROVE  ItemsAre(Append(its, x), i + 1)
<1>1. 1 .. (i + 1) - 1 = (1 .. i - 1) \union {i} /\ i \in Nat BY LinesBefore
<1>2. Credits(i) = {<<x.line, x.id, x.done>>} BY DEF Credits
<1> DEFINE C == {Credits(k) : k \in 1 .. i - 1}
           D == {Credits(k) : k \in 1 .. (i + 1) - 1}
           credit == <<x.line, x.id, x.done>>
           paid == {<<y.line, y.id, y.done>> : y \in ToSet(its)}
<1>3. D = C \union {Credits(i)} BY <1>1
<1> DEFINE new == Append(its, x)
<1>4. its \in Seq(ItemRecord) BY DEF ItemsAre
<1>5. /\ new \in Seq(ItemRecord) /\ Len(new) = Len(its) + 1 /\ Len(its) \in Nat
      /\ \A m \in 1 .. Len(its) : new[m] = its[m]
      /\ new[Len(its) + 1] = x
  BY <1>4, AppendProperties
<1>6. DOMAIN its = 1 .. Len(its) /\ DOMAIN new = 1 .. Len(its) + 1 BY <1>4, <1>5
<1> HIDE DEF new
<1>7. 1 .. Len(its) + 1 = (1 .. Len(its)) \union {Len(its) + 1} BY <1>5
<1>8. ToSet(new) = ToSet(its) \union {x} BY <1>5, <1>6, <1>7 DEF ToSet
<1>9. {<<y.line, y.id, y.done>> : y \in ToSet(new)} = paid \union {credit} BY <1>8
<1>10. {<<y.line, y.id, y.done>> : y \in ToSet(new)} = UNION D
  <2>1. paid = UNION C BY DEF ItemsAre
  <2>2. Credits(i) = {credit} BY <1>2
  <2> HIDE DEF C, D, credit, paid
  <2>3. UNION D = (UNION C) \union {credit} BY <1>3, <2>2
  <2>4. QED BY <1>9, <2>1, <2>3
<1>11. \A m \in 1 .. Len(its) : its[m].line \in 1 .. i - 1 BY <1>6 DEF ItemsAre
<1>12. \A m \in DOMAIN new : new[m].line \in 1 .. (i + 1) - 1 BY <1>1, <1>5, <1>6, <1>7, <1>11
<1>13. \A m, n \in DOMAIN new : m < n => new[m].line < new[n].line
  <2> SUFFICES ASSUME NEW m \in DOMAIN new, NEW n \in DOMAIN new, m < n PROVE new[m].line < new[n].line
    OBVIOUS
  <2>1. m \in 1 .. Len(its) /\ (n \in 1 .. Len(its) \/ n = Len(its) + 1) BY <1>5, <1>6
  <2>2. CASE n \in 1 .. Len(its) BY <1>5, <1>6, <2>1, <2>2 DEF ItemsAre
  <2>3. CASE n = Len(its) + 1
    <3>1. new[m].line \in 1 .. i - 1 /\ new[n].line = i BY <1>5, <1>11, <2>1, <2>3
    <3>2. QED BY <1>1, <3>1
  <2>4. QED BY <2>1, <2>2, <2>3
<1>14. QED BY <1>5, <1>10, <1>12, <1>13 DEF ItemsAre, new

(* A row in a table is taken exactly when it stands in the body.           *)
LEMMA RowsAreTaken ==
  ASSUME NEW i \in DOMAIN file, file \in Seq(Line), NEW p, Innermost(i) = {p},
         file[i].form = "row", file[i].cells \in {"header", "data"}
  PROVE  InBody(i) <=> \/ TablePhase(p, i) = "pre_header" /\ file[i].cells = "data"
                       \/ TablePhase(p, i) = "body"
<1> DEFINE R == RowsOf(p, i)
<1>1. RowsBefore(i) = R BY DEF RowsBefore, RowsOf
<1>2. i \in Nat /\ i >= 1 /\ R \subseteq 1 .. i - 1
  <2>1. i \in Nat /\ i >= 1 OBVIOUS
  <2>2. QED BY <2>1, RowsStep
<1>3. InBody(i) <=> (\/ \E h \in R : file[h].cells = "rule"
                     \/ \A k \in R \union {i} : (\A m \in R : k <= m) => file[k].cells # "header")
  BY <1>1 DEF InBody
<1>4. TablePhase(p, i) = IF R = {} THEN "pre_header" ELSE IF BodyBegun(p, i) THEN "body" ELSE "after_header"
  BY DEF TablePhase
<1>5. BodyBegun(p, i) <=> (\/ \E h \in R : file[h].cells = "rule"
                           \/ \A k \in R : (\A m \in R : k <= m) => file[k].cells # "header")
  BY DEF BodyBegun
<1> HIDE DEF R
<1>6. CASE R = {}
  <2>1. InBody(i) <=> file[i].cells # "header" BY <1>3, <1>6
  <2>2. QED BY <1>4, <1>6, <2>1
<1>7. CASE R # {}
  <2>1. PICK r \in R : TRUE BY <1>7
  <2>2. ~(i <= r) BY <1>2, <2>1
  <2>3. InBody(i) <=> BodyBegun(p, i) BY <1>3, <1>5, <2>1, <2>2
  <2>4. QED BY <1>4, <1>7, <2>3
<1>8. QED BY <1>6, <1>7

LEMMA FollowsStep ==
  ASSUME TrackInd, errors = {}, errors' = {}, ReadLine, at \in DOMAIN file
  PROVE  Follows(at + 1, regions', alone', prev', items')
<1> DEFINE i == at
<1>1. /\ file \in Seq(Line) /\ i \in Nat /\ i >= 1 /\ i \in DOMAIN file
      /\ file[i] \in Line
      /\ InTable <=> Tabled(i)
      /\ regions = << >> => Innermost(i) = {} /\ ~Tabled(i)
      /\ regions # << >> =>
           \E p \in 1 .. i - 1 : /\ Innermost(i) = {p} /\ RegionIs(Top, p, 0, i)
                                 /\ Top \in Region /\ regions # << >>
  BY AtLine
<1>2. Follows(i, regions, alone, prev, items) BY DEF TrackInd
<1>3. PICK begun \in Begins(regions, i) : StackIs(begun, regions, i) BY <1>2 DEF Follows, StackFollows
<1>4. regions \in Seq(Region) /\ ItemsAre(items, i) /\ AnchorIs(prev, i) /\ AloneIs(alone, i)
  BY <1>2 DEF Follows, StackFollows
<1>5. ASSUME file[i].form \notin {"begin", "end"}, file[i].form = "row" => ~InTable
      PROVE  StackFollows(regions, i + 1)
  <2>1. file[i].form = "row" => regions = << >> \/ Last(regions).ingest # "table" BY <1>5 DEF InTable, Top
  <2>2. QED BY <1>1, <1>3, <1>4, <1>5, <2>1, StackStays DEF StackFollows
<1>6. ASSUME file[i].form # "standalone" PROVE AloneIs(alone, i + 1)
  <2>1. {k \in 1 .. (i + 1) - 1 : file[k].form = "standalone"} = {k \in 1 .. i - 1 : file[k].form = "standalone"}
    BY <1>1, <1>6, LinesBefore
  <2>2. QED BY <1>4, <2>1 DEF AloneIs
<1>7. ASSUME file[i].form \notin {"standalone", "blank"} PROVE AnchorIs("none", i + 1)
  BY <1>1, <1>7, LinesBefore DEF AnchorIs
<1>8. ASSUME Owner(i) = {} PROVE ItemsAre(items, i + 1)
  BY <1>1, <1>4, <1>8, ItemsStay
<1>9. ASSUME file[i].form \in {"standalone", "begin", "end", "blank", "prose"} PROVE Owner(i) = {}
  BY <1>9 DEF Owner
<1>10. CASE ReadStandalone
  <2>1. /\ file[i].form = "standalone" /\ IsId(file[i].id) /\ file[i].id \notin alone
        /\ alone' = alone \union {file[i].id} /\ prev' = file[i].id /\ regions' = regions /\ items' = items
    BY <1>10 DEF ReadStandalone, Reads, line, ErrorIf
  <2>2. StackFollows(regions', i + 1) BY <1>5, <2>1
  <2>3. ItemsAre(items', i + 1) BY <1>8, <1>9, <2>1
  <2>4. AnchorIs(prev', i + 1) BY <1>1, <2>1, LinesBefore DEF AnchorIs
  <2>5. {k \in 1 .. (i + 1) - 1 : file[k].form = "standalone"}
          = {k \in 1 .. i - 1 : file[k].form = "standalone"} \union {i}
    BY <1>1, <2>1, LinesBefore
  <2>6. AloneIs(alone', i + 1) BY <1>4, <2>1, <2>5 DEF AloneIs
  <2>7. QED BY <2>2, <2>3, <2>4, <2>6 DEF Follows
<1>11. CASE ReadBegin
  <2>1. /\ file[i].form = "begin" /\ IsId(file[i].id)
        /\ regions' = Append(regions, [id |-> file[i].id, ingest |-> file[i].ingest, table |-> "pre_header"])
        /\ alone' = alone /\ prev' = "none" /\ items' = items
    BY <1>11 DEF ReadBegin, Reads, line, ErrorIf
  <2>2. StackFollows(regions', i + 1) BY <1>1, <1>3, <1>4, <2>1, StackBegin DEF StackFollows
  <2>3. QED BY <1>6, <1>7, <1>8, <1>9, <2>1, <2>2 DEF Follows
<1>12. CASE ReadEnd
  <2>1. /\ file[i].form = "end" /\ regions # << >> /\ regions' = Front(regions)
        /\ alone' = alone /\ prev' = "none" /\ items' = items
    BY <1>12 DEF ReadEnd, Reads, line, ErrorIf, Closes
  <2>2. StackFollows(regions', i + 1) BY <1>1, <1>3, <1>4, <2>1, StackEnd DEF StackFollows
  <2>3. QED BY <1>6, <1>7, <1>8, <1>9, <2>1, <2>2 DEF Follows
<1>13. CASE ReadGarbled
  BY <1>13 DEF ReadGarbled, ErrorIf
<1>14. CASE ReadBlank
  <2>1. /\ file[i].form = "blank" /\ regions' = regions /\ alone' = alone /\ prev' = prev /\ items' = items
    BY <1>14 DEF ReadBlank, Reads
  <2>2. AnchorIs(prev', i + 1) BY <1>1, <1>4, <2>1, LinesBefore DEF AnchorIs
  <2>3. QED BY <1>5, <1>6, <1>8, <1>9, <2>1, <2>2 DEF Follows
<1>15. CASE ReadNonRow
  <2>1. /\ file[i].form \in {"checkbox", "numbered", "prose"} /\ InTable
        /\ regions' = regions /\ alone' = alone /\ prev' = "none" /\ items' = items
    BY <1>15 DEF ReadNonRow, Reads
  <2>2. PICK p \in 1 .. i - 1 : Innermost(i) = {p} /\ RegionIs(Top, p, 0, i) BY <1>1, <2>1 DEF InTable
  <2>3. file[p].ingest = "table" BY <2>1, <2>2 DEF RegionIs, InTable
  <2>4. Owner(i) = {} BY <1>1, <2>1, <2>2, <2>3 DEF Owner
  <2>5. QED BY <1>5, <1>6, <1>7, <1>8, <2>1, <2>4 DEF Follows
<1>16. CASE ReadProse
  <2>1. /\ file[i].form \in {"prose", "row"} /\ ~InTable
        /\ regions' = regions /\ alone' = alone /\ prev' = "none" /\ items' = items
    BY <1>16 DEF ReadProse, Reads
  <2>2. Owner(i) = {} BY <1>1, <2>1 DEF Owner
  <2>3. QED BY <1>5, <1>6, <1>7, <1>8, <2>1, <2>2 DEF Follows
<1>17. CASE ReadNumbered
  <2>1. /\ file[i].form = "numbered" /\ ~InTable
        /\ regions' = regions /\ alone' = alone /\ prev' = "none"
        /\ items' = IF regions # << >> /\ Top.ingest \in {"numbered", "both"}
                    THEN Append(items, Item(Top.id, FALSE, "region")) ELSE items
    BY <1>17 DEF ReadNumbered, Reads
  <2>2. ItemsAre(items', i + 1)
    <3>1. CASE regions = << >>
      <4>1. Owner(i) = {} BY <1>1, <2>1, <3>1 DEF Owner
      <4>2. QED BY <1>8, <2>1, <3>1, <4>1
    <3>2. CASE regions # << >>
      <4>1. PICK p \in 1 .. i - 1 : Innermost(i) = {p} /\ RegionIs(Top, p, 0, i) /\ Top \in Region
        BY <1>1, <3>2
      <4>2. Top.id = file[p].id /\ Top.ingest = file[p].ingest BY <4>1 DEF RegionIs
      <4>3. Owner(i) = {file[j].id : j \in {k \in Innermost(i) : file[k].ingest \in {"numbered", "both"}}}
        BY <1>1, <2>1 DEF Owner
      <4>4. CASE Top.ingest \notin {"numbered", "both"}
        <5>1. Owner(i) = {} BY <4>1, <4>2, <4>3, <4>4
        <5>2. QED BY <1>8, <2>1, <4>4, <5>1
      <4>5. CASE Top.ingest \in {"numbered", "both"}
        <5> DEFINE x == Item(Top.id, FALSE, "region")
        <5>1. Owner(i) = {Top.id} BY <4>1, <4>2, <4>3, <4>5
        <5>2. Done(i) = FALSE BY <2>1 DEF Done
        <5>3. x \in ItemRecord /\ x.line = i /\ x.done = FALSE /\ x.id = Top.id
          BY <1>1, <4>1 DEF Item, ItemRecord, Region
        <5>4. items' = Append(items, x) BY <2>1, <3>2, <4>5
        <5> HIDE DEF x
        <5>5. QED BY <1>1, <1>4, <5>1, <5>2, <5>3, <5>4, ItemsGrow
      <4>6. QED BY <4>4, <4>5
    <3>3. QED BY <3>1, <3>2
  <2>3. QED BY <1>5, <1>6, <1>7, <2>1, <2>2 DEF Follows
<1>18. CASE ReadRow
  <2>1. /\ file[i].form = "row" /\ InTable /\ alone' = alone /\ prev' = "none"
        /\ regions' = Append(Front(regions), [Top EXCEPT !.table = NextTable(file[i].cells)])
        /\ items' = IF TakesRow THEN Append(items, Item(Top.id, file[i].done, "table")) ELSE items
    BY <1>18 DEF ReadRow, Reads, line
  <2>2. regions # << >> /\ Top.ingest = "table" BY <2>1 DEF InTable
  <2> DEFINE p == begun[Len(regions)]
  <2>3. Innermost(i) = {p} /\ RegionIs(Top, p, 0, i) /\ Top \in Region
    BY <1>1, <1>3, <1>4, <2>2, StackTop DEF Top
  <2>4. file[i].cells \in {"blank", "rule", "single", "header", "data"} /\ file[i].done \in BOOLEAN
    BY <1>1, <2>1 DEF Line, Anchor, Garbled, Checkbox, Row, Other
  <2>5. Top.table = TablePhase(p, i) /\ Top.id = file[p].id BY <2>2, <2>3 DEF RegionIs
  <2>6. Top.table \in Phase BY <2>3 DEF Region
  <2>7. NextTable(file[i].cells) = TablePhase(p, i + 1)
    <3> HIDE DEF p
    <3>1. CASE file[i].cells = "blank" BY <1>1, <2>1, <2>5, <3>1, PhaseStays DEF NextTable
    <3>2. CASE file[i].cells # "blank"
      <4>1. TablePhase(p, i + 1) =
              IF file[i].cells = "rule" THEN "body"
              ELSE IF TablePhase(p, i) = "pre_header"
                   THEN (IF file[i].cells = "header" THEN "after_header" ELSE "body")
                   ELSE TablePhase(p, i)
        BY <1>1, <2>1, <2>3, <3>2, PhaseStep
      <4>2. QED BY <2>5, <3>2, <4>1 DEF NextTable
    <3>3. QED BY <3>1, <3>2
  <2>8. NextTable(file[i].cells) \in Phase BY <2>4, <2>6 DEF NextTable, Phase
  <2>9. StackFollows(regions', i + 1)
    <3> DEFINE reached == NextTable(file[i].cells)
    <3>1. reached \in Phase /\ reached = TablePhase(begun[Len(regions)], i + 1) BY <2>7, <2>8
    <3>2. regions' = Append(Front(regions), [Last(regions) EXCEPT !.table = reached]) BY <2>1 DEF Top
    <3> HIDE DEF reached
    <3>3. Last(regions).ingest = "table" BY <2>2 DEF Top
    <3>4. QED BY <1>1, <1>3, <1>4, <2>1, <2>2, <3>1, <3>2, <3>3, StackRow DEF StackFollows
  <2>10. ItemsAre(items', i + 1)
    <3> HIDE DEF p
    <3>1. Owner(i) = IF file[i].cells \in {"header", "data"} /\ InBody(i) THEN {file[j].id : j \in Innermost(i)} ELSE {}
      BY <1>1, <2>1 DEF Owner
    <3>2. TakesRow <=> file[i].cells \in {"header", "data"} /\ InBody(i)
      <4>1. CASE file[i].cells \notin {"header", "data"} BY <2>4, <4>1 DEF TakesRow, line
      <4>2. CASE file[i].cells \in {"header", "data"}
        <5>1. InBody(i) <=> \/ Top.table = "pre_header" /\ file[i].cells = "data"
                            \/ Top.table = "body"
          BY <1>1, <2>1, <2>3, <2>5, <4>2, RowsAreTaken
        <5>2. QED BY <4>2, <5>1 DEF TakesRow, line
      <4>3. QED BY <4>1, <4>2
    <3>3. CASE ~TakesRow BY <1>8, <2>1, <3>1, <3>2, <3>3
    <3>4. CASE TakesRow
      <4> DEFINE x == Item(Top.id, file[i].done, "table")
      <4>1. Owner(i) = {Top.id} BY <2>3, <2>5, <3>1, <3>2, <3>4
      <4>2. Done(i) = file[i].done BY <2>1, <2>4 DEF Done
      <4>3. x \in ItemRecord /\ x.line = i /\ x.done = file[i].done /\ x.id = Top.id
        BY <1>1, <2>3, <2>4 DEF Item, ItemRecord, Region
      <4>4. items' = Append(items, x) BY <2>1, <3>4
      <4> HIDE DEF x
      <4>5. QED BY <1>1, <1>4, <4>1, <4>2, <4>3, <4>4, ItemsGrow
    <3>5. QED BY <3>3, <3>4
  <2>11. QED BY <1>6, <1>7, <2>1, <2>9, <2>10 DEF Follows
<1>19. CASE ReadCheckbox
  <2> DEFINE owner == CASE file[i].inline = "object" -> <<file[i].id, "inline">>
                        [] file[i].inline = "none" /\ regions # << >> -> <<Top.id, "region">>
                        [] OTHER -> <<prev, "prev_line">>
  <2>1. /\ file[i].form = "checkbox" /\ ~InTable /\ file[i].inline # "garbled"
        /\ file[i].inline = "object" => IsId(file[i].id)
        /\ items' = IF IsId(owner[1]) THEN Append(items, Item(owner[1], file[i].done, owner[2])) ELSE items
        /\ prev' = "none" /\ regions' = regions /\ alone' = alone
    BY <1>19 DEF ReadCheckbox, Reads, line, ErrorIf
  <2>2. file[i] \in Checkbox BY <1>1, <2>1 DEF Line, Anchor, Garbled, Checkbox, Row, Other
  <2>3. file[i].done \in BOOLEAN /\ file[i].id \in STRING /\ file[i].inline \in {"none", "object"}
    BY <2>1, <2>2 DEF Checkbox
  <2>4. Done(i) = file[i].done BY <2>1, <2>3 DEF Done
  <2>5. ASSUME NEW id \in STRING, NEW source \in {"inline", "region", "prev_line"}, Owner(i) = {id},
               items' = Append(items, Item(id, file[i].done, source))
        PROVE  ItemsAre(items', i + 1)
    <3> DEFINE x == Item(id, file[i].done, source)
    <3>1. x \in ItemRecord /\ x.line = i /\ x.done = file[i].done /\ x.id = id
      BY <1>1, <2>3 DEF Item, ItemRecord
    <3>2. items' = Append(items, x) BY <2>5
    <3> HIDE DEF x
    <3>3. QED BY <1>1, <1>4, <2>4, <2>5, <3>1, <3>2, ItemsGrow
  <2>6. CASE file[i].inline = "object"
    <3>1. owner[1] = file[i].id /\ owner[2] = "inline" BY <2>6
    <3>2. Owner(i) = {file[i].id} BY <1>1, <2>1, <2>6 DEF Owner
    <3> HIDE DEF owner
    <3>3. items' = Append(items, Item(file[i].id, file[i].done, "inline")) BY <2>1, <2>6, <3>1
    <3>4. ItemsAre(items', i + 1) BY <2>3, <2>5, <3>2, <3>3
    <3>5. QED BY <1>5, <1>6, <1>7, <2>1, <3>4 DEF Follows
  <2>7. CASE file[i].inline = "none" /\ regions # << >>
    <3>1. PICK p \in 1 .. i - 1 : Innermost(i) = {p} /\ RegionIs(Top, p, 0, i) /\ Top \in Region
      BY <1>1, <2>7
    <3>2. owner[1] = Top.id /\ owner[2] = "region" BY <2>7
    <3>3. Owner(i) = {Top.id} BY <1>1, <2>1, <2>7, <3>1 DEF Owner, RegionIs
    <3>4. IsId(Top.id) /\ Top.id \in STRING BY <3>1 DEF RegionIs, Region
    <3> HIDE DEF owner
    <3>5. items' = Append(items, Item(Top.id, file[i].done, "region")) BY <2>1, <3>2, <3>4
    <3>6. ItemsAre(items', i + 1) BY <2>5, <3>3, <3>4, <3>5
    <3>7. QED BY <1>5, <1>6, <1>7, <2>1, <3>6 DEF Follows
  <2>8. CASE file[i].inline = "none" /\ regions = << >>
    <3>1. owner[1] = prev /\ owner[2] = "prev_line" BY <2>8
    <3>2. Owner(i) = {file[j].id : j \in Above(i)} BY <1>1, <2>1, <2>8 DEF Owner
    <3> HIDE DEF owner
    <3>3. CASE prev = "none" /\ Above(i) = {}
      <4>1. items' = items BY <2>1, <3>1, <3>3 DEF IsId
      <4>2. Owner(i) = {} BY <3>2, <3>3
      <4>3. QED BY <1>5, <1>6, <1>7, <1>8, <2>1, <4>1, <4>2 DEF Follows
    <3>4. CASE \E j \in Above(i) : Above(i) = {j} /\ prev = file[j].id /\ IsId(prev)
      <4>1. PICK j \in Above(i) : Above(i) = {j} /\ prev = file[j].id /\ IsId(prev) BY <3>4
      <4>2. j \in DOMAIN file /\ file[j].form = "standalone" BY <1>1 DEF Above
      <4>3. prev \in STRING
        <5>1. file[j] \in Line BY <1>1, <4>2
        <5>2. file[j] \in Anchor BY <4>2, <5>1 DEF Line, Anchor, Garbled, Checkbox, Row, Other
        <5>3. QED BY <4>1, <5>2 DEF Anchor
      <4>4. Owner(i) = {prev} BY <3>2, <4>1
      <4>5. items' = Append(items, Item(prev, file[i].done, "prev_line")) BY <2>1, <3>1, <4>1
      <4>6. ItemsAre(items', i + 1) BY <2>5, <4>3, <4>4, <4>5
      <4>7. QED BY <1>5, <1>6, <1>7, <2>1, <4>6 DEF Follows
    <3>5. QED BY <1>4, <3>3, <3>4 DEF AnchorIs
  <2>9. QED BY <2>3, <2>6, <2>7, <2>8
<1>20. QED BY <1>10, <1>11, <1>12, <1>13, <1>14, <1>15, <1>16, <1>17, <1>18, <1>19 DEF ReadLine

LEMMA TrackInitInv ==
  ASSUME TrackInit
  PROVE  TrackInd
<1>1. PICK f \in File : TrackStartsFrom(f) BY DEF TrackInit
<1>2. /\ file \in File /\ file \in Seq(Line) /\ at = 1 /\ regions = << >> /\ alone = {} /\ prev = "none"
      /\ items = << >> /\ errors = {} /\ ended = FALSE
  BY <1>1, FileAssumption DEF TrackStartsFrom
<1>3. 1 .. at - 1 = {} /\ Len(file) \in Nat /\ at \in 1 .. Len(file) + 1 /\ at \in Nat BY <1>2
<1>4. Open(at) = {} BY <1>3 DEF Open
<1>5. StackFollows(regions, at)
  <2> DEFINE b == [q \in 1 .. Len(regions) |-> 1]
  <2>1. regions \in Seq(Region) /\ 1 .. Len(regions) = {} BY <1>2
  <2>2. b \in Begins(regions, at) BY <2>1 DEF Begins
  <2>3. StackIs(b, regions, at) BY <1>4, <2>1 DEF StackIs
  <2>4. QED BY <2>1, <2>2, <2>3 DEF StackFollows
<1>6. AloneIs(alone, at) BY <1>2, <1>3 DEF AloneIs
<1>7. Above(at) = {} BY <1>3 DEF Above
<1>8. AnchorIs(prev, at) BY <1>2, <1>7 DEF AnchorIs
<1>9. ItemsAre(items, at)
  <2>1. items \in Seq(ItemRecord) /\ DOMAIN items = {} BY <1>2
  <2>2. ToSet(items) = {} BY <2>1 DEF ToSet
  <2>3. UNION {Credits(k) : k \in 1 .. at - 1} = {} BY <1>3
  <2>4. QED BY <2>1, <2>2, <2>3 DEF ItemsAre
<1>10. Follows(at, regions, alone, prev, items) BY <1>5, <1>6, <1>8, <1>9 DEF Follows
<1>11. QED BY <1>2, <1>3, <1>10 DEF TrackInd

LEMMA ReadLineInv ==
  ASSUME TrackInd, ReadLine
  PROVE  TrackInd'
<1>1. ~ended /\ at <= Len(file) /\ at' = at + 1 /\ file' = file /\ ended' = ended
  BY DEF ReadLine, ReadStandalone, ReadBegin, ReadEnd, ReadGarbled, ReadBlank, ReadNonRow,
         ReadRow, ReadCheckbox, ReadNumbered, ReadProse, Reads
<1>2. errors \subseteq errors'
  BY DEF ReadLine, ReadStandalone, ReadBegin, ReadEnd, ReadGarbled, ReadBlank, ReadNonRow,
         ReadRow, ReadCheckbox, ReadNumbered, ReadProse, ErrorIf
<1>3. file \in Seq(Line) /\ file \in File /\ Len(file) \in Nat /\ at \in 1 .. Len(file) + 1
  BY FileAssumption DEF TrackInd
<1>4. at \in DOMAIN file /\ at \in Nat BY <1>1, <1>3
<1>5. errors = {} <=> \A k \in 1 .. at - 1 : SoundLine(k) BY <1>1 DEF TrackInd
<1>6. 1 .. (at + 1) - 1 = (1 .. at - 1) \union {at} BY <1>3
<1>7. errors' = {} <=> \A k \in 1 .. (at + 1) - 1 : SoundLine(k)
  <2>1. CASE errors # {}
    <3>1. errors' # {} BY <1>2, <2>1
    <3>2. QED BY <1>5, <1>6, <2>1, <3>1
  <2>2. CASE errors = {}
    <3>1. errors' = {} <=> SoundLine(at) BY <2>2, LineIsJudged
    <3>2. QED BY <1>5, <1>6, <2>2, <3>1
  <2>3. QED BY <2>1, <2>2
<1>8. (\A k \in 1 .. at - 1 : SoundLine(k))' <=> \A k \in 1 .. (at + 1) - 1 : SoundLine(k)
  BY <1>1, FileStays
<1>9. errors' = {} => Follows(at, regions, alone, prev, items)'
  <2> SUFFICES ASSUME errors' = {} PROVE Follows(at, regions, alone, prev, items)'
    OBVIOUS
  <2>1. errors = {} BY <1>2
  <2>2. Follows(at + 1, regions', alone', prev', items') BY <1>4, <2>1, FollowsStep
  <2>3. QED BY <1>1, <2>2, FileStays
<1>10. QED BY <1>1, <1>3, <1>4, <1>7, <1>8, <1>9 DEF TrackInd

LEMMA EndFileInv ==
  ASSUME TrackInd, EndFile
  PROVE  TrackInd'
<1>1. /\ ~ended /\ at > Len(file) /\ ended' = TRUE /\ file' = file /\ at' = at
      /\ regions' = regions /\ alone' = alone /\ prev' = prev /\ items' = items
      /\ errors' = IF regions # << >> THEN errors \union {0} ELSE errors
  BY DEF EndFile
<1>2. file \in Seq(Line) /\ file \in File /\ Len(file) \in Nat /\ at = Len(file) + 1
  BY <1>1, FileAssumption DEF TrackInd
<1>3. at - 1 = Len(file) /\ at \in Nat /\ DOMAIN file = 1 .. at - 1 BY <1>2
<1>4. errors = {} <=> \A k \in Places : SoundLine(k) BY <1>1, <1>3 DEF TrackInd, Places
<1>5. errors' = {} <=> Sound
  <2>1. CASE errors # {} BY <1>1, <1>4, <2>1 DEF Sound
  <2>2. CASE errors = {}
    <3>1. PICK begun \in Begins(regions, at) : StackIs(begun, regions, at)
      BY <2>2 DEF TrackInd, Follows, StackFollows
    <3>2. regions \in Seq(Region) BY <2>2 DEF TrackInd, Follows, StackFollows
    <3>3. Open(at) = {begun[q] : q \in 1 .. Len(regions)} BY <3>1 DEF StackIs
    <3>4. regions = << >> <=> Open(at) = {} 
      <4>1. CASE regions = << >> BY <3>3, <4>1
      <4>2. CASE regions # << >>
        <5>1. 1 \in 1 .. Len(regions) BY <3>2, <4>2
        <5>2. QED BY <3>3, <4>2, <5>1
      <4>3. QED BY <4>1, <4>2
    <3>5. Sound <=> Open(at) = {} BY <1>2, <1>4, <2>2 DEF Sound
    <3>6. QED BY <1>1, <2>2, <3>4, <3>5
  <2>3. QED BY <2>1, <2>2
<1>6. Sound' <=> Sound BY <1>1, FileStays
<1>7. errors' = {} => Follows(at, regions, alone, prev, items)'
  <2>1. errors' = {} => errors = {} BY <1>1
  <2>2. errors = {} => Follows(at, regions, alone, prev, items) BY DEF TrackInd
  <2>3. QED BY <1>1, <2>1, <2>2, FileStays
<1>8. QED BY <1>1, <1>2, <1>5, <1>6, <1>7 DEF TrackInd

LEMMA TrackStutters ==
  ASSUME TrackInd, UNCHANGED trackVars
  PROVE  TrackInd'
<1>1. /\ file' = file /\ at' = at /\ regions' = regions /\ alone' = alone /\ prev' = prev
      /\ items' = items /\ errors' = errors /\ ended' = ended
  BY DEF trackVars
<1>2. (\A k \in 1 .. at - 1 : SoundLine(k))' <=> \A k \in 1 .. at - 1 : SoundLine(k) BY <1>1, FileStays
<1>3. Sound' <=> Sound BY <1>1, FileStays
<1>4. Follows(at, regions, alone, prev, items)' <=> Follows(at, regions, alone, prev, items)
  BY <1>1, FileStays
<1>5. QED BY <1>1, <1>2, <1>3, <1>4 DEF TrackInd

LEMMA TrackIndDigest ==
  ASSUME TrackInd
  PROVE  DigestIsTheFile
<1> SUFFICES ASSUME ended
             PROVE /\ errors = {} <=> Sound
                   /\ errors = {} =>
                        /\ {<<x.line, x.id, x.done>> : x \in ToSet(items)}
                             = UNION {{<<i, id, Done(i)>> : id \in Owner(i)} : i \in Places}
                        /\ \A m, n \in DOMAIN items : m < n => items[m].line < items[n].line
  BY DEF DigestIsTheFile
<1>1. errors = {} <=> Sound BY DEF TrackInd
<1>2. file \in Seq(Line) /\ at = Len(file) + 1 BY FileAssumption DEF TrackInd
<1>3. 1 .. at - 1 = Places BY <1>2 DEF Places
<1>4. errors = {} => ItemsAre(items, at) BY DEF TrackInd, Follows
<1>5. UNION {Credits(i) : i \in Places} = UNION {{<<i, id, Done(i)>> : id \in Owner(i)} : i \in Places}
  BY DEF Credits
<1>6. QED BY <1>1, <1>3, <1>4, <1>5 DEF ItemsAre

(* Of every file, however its regions, tables and anchors stand in one     *)
(* another, the parser of task files accepts exactly the sound ones and    *)
(* credits each checkbox, step and row, once and in order, to the id it    *)
(* stands under: the stack of regions with its table states is the nesting *)
(* of the brackets before the line, and the anchor it remembers is the     *)
(* comment right above.                                                    *)
THEOREM DigestsAreTheFile == TrackSpec => []DigestIsTheFile
<1>1. TrackInit => TrackInd BY TrackInitInv
<1>2. TrackInd /\ [TrackNext]_trackVars => TrackInd'
  BY ReadLineInv, EndFileInv, TrackStutters DEF TrackNext
<1>3. TrackInd => DigestIsTheFile BY TrackIndDigest
<1>4. QED BY <1>1, <1>2, <1>3, PTL DEF TrackSpec

-----------------------------------------------------------------------------
(* Corpora.                                                                *)

(* The lines a harness is about.                                           *)
Mine == {i \in DOMAIN lines : Selects(harness, lines[i])}

(* What a row that passed shows, which for the determinism check is about  *)
(* the first run too.                                                      *)
Shown(l) == IF harness = "verify_determinism" THEN SameOutput(l) ELSE Keeps(l)

(* What a row that failed shows.                                           *)
Blamed(l) ==
  \/ ~tools.probe \/ ~Keeps(l)
  \/ harness = "verify_ffi_regression_corpus" /\ ~l.built

ReadsFine == harness \in ReadsFirst => \A i \in DOMAIN lines : ~Refuses(harness, lines[i])

(* The bytecode that a row runs is its own.                                *)
OwnLies(l) ==
  /\ harness \in Batched => Lies(l) = l.vm
  /\ harness = "sv0_doctest" => l.vm.does = "no code" \/ Lies(l) = l.vm

LEMMA SeqLine ==
  ASSUME NEW S, NEW s \in Seq(S), NEW i \in DOMAIN s
  PROVE  s[i] \in S
OBVIOUS

LEMMA LowByteIs ==
  ASSUME NEW m \in 0 .. 255, NEW n \in Int
  PROVE  LowByte(n) = m <=> (n - m) % 256 = 0
BY DEF LowByte

LEMMA ManifestRow ==
  ASSUME NEW i \in DOMAIN lines, lines \in LinesOf(harness), harness \in ReadsFirst, ~Refuses(harness, lines[i]),
         Selects(harness, lines[i])
  PROVE  lines[i] \in Program /\ IsRow(lines[i]) /\ lines[i].number /\ (harness \in Batched => lines[i].there)
<1>1. lines \in Seq(Program \union [form : {"bare"}]) BY DEF LinesOf, ReadsFirst, Diagnosers
<1>2. lines[i] \in Program \union [form : {"bare"}] BY <1>1, SeqLine
<1>3. IsRow(lines[i]) BY DEF Refuses
<1>4. lines[i] \in Program BY <1>2, <1>3 DEF IsRow
<1>5. QED BY <1>3, <1>4 DEF Refuses

LEMMA NativeRows ==
  ASSUME NEW i \in DOMAIN lines, lines \in LinesOf(harness), harness \in ReadsFirst, ~Refuses(harness, lines[i]),
         Selects(harness, lines[i]), harness \notin Batched
  PROVE  /\ Passes(i) => Keeps(lines[i])
         /\ ~Passes(i) => ~tools.probe \/ ~Keeps(lines[i])
<1> DEFINE l == lines[i]
<1>1. l \in Program /\ IsRow(l) /\ l.number BY ManifestRow
<1> HIDE DEF l
<1>2. CASE harness = "verify_behavior_corpus_native"
  BY <1>1, <1>2 DEF Passes, Keeps, RunsNative, ReadsFirst, Batched, l
<1>3. CASE harness = "native_exe_behavior_corpus"
  BY <1>1, <1>3 DEF Passes, Keeps, RunsNative, DriverRuns, ReadsFirst, Batched, l
<1>4. CASE harness = "native_exe_sanitizer_corpus"
  <2>1. l.noise \in SUBSET {"panic", "overflow", "finding"} BY <1>1 DEF Program
  <2>2. (l.noise \subseteq {"panic"}) <=> ({"overflow", "finding"} \intersect l.noise = {}) BY <2>1
  <2>3. QED BY <1>1, <1>4, <2>2 DEF Passes, Keeps, RunsNative, DriverRuns, Sanitized, ReadsFirst, Batched, l
<1>5. CASE harness = "native_exe_release_parity"
  <2>1. l.fast \in [exit : 0 .. 255, wrote : {"this", "that"}] BY <1>1 DEF Program
  <2>2. l.fast = [exit |-> l.exit, wrote |-> l.wrote] <=> l.fast.exit = l.exit /\ l.fast.wrote = l.wrote BY <2>1
  <2>3. QED BY <1>1, <1>5, <2>2 DEF Passes, Keeps, RunsNative, SameInRelease, ReadsFirst, Batched, l
<1>6. QED BY <1>2, <1>3, <1>4, <1>5 DEF ReadsFirst, Batched

LEMMA VmRows ==
  ASSUME NEW i \in DOMAIN lines, lines \in LinesOf(harness), OwnLies(lines[i]),
         harness = "verify_behavior_corpus_vm" => ~Refuses(harness, lines[i]) /\ Selects(harness, lines[i]),
         harness \in {"verify_behavior_corpus_vm", "sv0_doctest", "vm_behavioral_parity"}
  PROVE  Passes(i) <=> Keeps(lines[i])
<1> DEFINE l == lines[i]
<1>1. CASE harness = "verify_behavior_corpus_vm"
  <2>1. l \in Program /\ IsRow(l) /\ l.number /\ l.there BY <1>1, ManifestRow DEF ReadsFirst, Batched
  <2>2. Lies(l) = l.vm BY <1>1 DEF OwnLies, Batched
  <2> HIDE DEF l
  <2>3. Passes(i) <=> Lies(l).does = "ok" /\ LowByte(Lies(l).exit) = l.want BY <1>1 DEF Passes, RunsOnVm, l
  <2>4. Keeps(l) <=> l.vm.does = "ok" /\ l.want = LowByte(l.vm.exit) BY <1>1, <2>1 DEF Keeps, ReadsFirst, Batched
  <2>5. QED BY <2>2, <2>3, <2>4 DEF l
<1>2. CASE harness = "sv0_doctest"
  <2>1. lines \in Seq({p \in Program : p.there /\ p.number}) BY <1>2 DEF LinesOf, ReadsFirst, Diagnosers
  <2>2. l \in Program /\ l.there /\ l.number BY <2>1, SeqLine
  <2>3. l.vm.does = "no code" \/ Lies(l) = l.vm BY <1>2 DEF OwnLies
  <2>4. IsRow(l) BY <2>2 DEF IsRow, Program
  <2> HIDE DEF l
  <2>5. Passes(i) <=> l.vm.does # "no code" /\ Lies(l).does = "ok" /\ Lies(l).exit = l.want
    BY <1>2 DEF Passes, DoctestHolds, l
  <2>6. Keeps(l) <=> l.vm.does = "ok" /\ l.want = l.vm.exit BY <1>2, <2>2, <2>4 DEF Keeps, ReadsFirst, Batched
  <2>7. QED BY <2>3, <2>5, <2>6 DEF l
<1>3. CASE harness = "vm_behavioral_parity"
  <2>1. lines \in Seq(Program) BY <1>3 DEF LinesOf, ReadsFirst, Diagnosers
  <2>2. l \in Program BY <2>1, SeqLine
  <2>3. IsRow(l) BY <2>2 DEF IsRow, Program
  <2>4. l.exit \in 0 .. 255 /\ l.vm.exit \in Int BY <2>2 DEF Program, Bytecode
  <2>5. LowByte(l.vm.exit) = l.exit <=> (l.vm.exit - l.exit) % 256 = 0 BY <2>4, LowByteIs
  <2> HIDE DEF l
  <2>6. BackEndsAgree(l) <=> /\ l.there /\ l.emit = "ok" /\ l.link /\ ~l.prints /\ l.vm.does = "ok"
                             /\ LowByte(l.vm.exit) = l.exit
    <3> DEFINE byte == LowByte(l.vm.exit)
    <3> HIDE DEF byte
    <3>1. OnC(l) = IF l.there /\ l.emit = "ok" /\ l.link THEN <<l.exit>> ELSE << >> BY DEF OnC
    <3>2. OnVm(l) = IF l.there /\ l.vm.does = "ok" THEN <<byte>> ELSE << >> BY DEF OnVm, byte
    <3> DEFINE c == OnC(l)
               vm == OnVm(l)
    <3>3. c = vm /\ c # << >> <=> l.there /\ l.emit = "ok" /\ l.link /\ l.vm.does = "ok" /\ byte = l.exit
      BY <3>1, <3>2
    <3> HIDE DEF c, vm
    <3>4. QED BY <3>3 DEF BackEndsAgree, byte, c, vm
  <2>7. Keeps(l) <=> /\ l.there /\ l.emit = "ok" /\ l.link /\ ~l.prints /\ l.vm.does = "ok"
                     /\ (l.vm.exit - l.exit) % 256 = 0
    BY <1>3, <2>3 DEF Keeps, ReadsFirst, Batched
  <2>8. Passes(i) <=> BackEndsAgree(l) BY <1>3 DEF Passes, l
  <2>9. QED BY <2>5, <2>6, <2>7, <2>8 DEF l
<1>4. QED BY <1>1, <1>2, <1>3

LEMMA DiagnosticRows ==
  ASSUME NEW i \in DOMAIN lines, harness \in Diagnosers \union {"verify_vm_ffi_gate", "verify_ffi_regression_corpus"},
         lines \in LinesOf(harness)
  PROVE  /\ Passes(i) => Keeps(lines[i])
         /\ ~Passes(i) => Blamed(lines[i])
<1> DEFINE l == lines[i]
<1>1. CASE harness = "verify_vm_ffi_gate"
  <2>1. lines \in Seq(Program) BY <1>1 DEF LinesOf, ReadsFirst, Diagnosers
  <2>2. IsRow(l) 
    <3>1. l \in Program BY <2>1, SeqLine
    <3>2. QED BY <3>1 DEF IsRow, Program
  <2> HIDE DEF l
  <2>3. QED BY <1>1, <2>2 DEF Passes, Keeps, Blamed, GateFires, ReadsFirst, Batched, l
<1>2. CASE harness = "verify_ffi_regression_corpus"
  <2>1. lines \in Seq([form : {"check"}, check : {"c", "vm", "golden"}, built : BOOLEAN, clean : BOOLEAN])
    BY <1>2 DEF LinesOf, ReadsFirst, Diagnosers
  <2>2. IsRow(l) /\ l.built \in BOOLEAN /\ l.clean \in BOOLEAN
    <3>1. l \in [form : {"check"}, check : {"c", "vm", "golden"}, built : BOOLEAN, clean : BOOLEAN] BY <2>1, SeqLine
    <3>2. QED BY <3>1 DEF IsRow
  <2> HIDE DEF l
  <2>3. QED BY <1>2, <2>2 DEF Passes, Keeps, Blamed, FfiCheck, ReadsFirst, Batched, l
<1>3. CASE harness = "verify_diagnostics_corpus_layout"
  BY <1>3 DEF Passes, Keeps, Blamed, CaseIsThere, ReadsFirst, Batched
<1>4. CASE harness = "verify_diagnostics_corpus_behavior"
  BY <1>4 DEF Passes, Keeps, Blamed, SmlDiagnoses, ReadsFirst, Batched
<1>5. CASE harness = "verify_diagnostics_corpus_behavior_native"
  BY <1>5 DEF Passes, Keeps, Blamed, NativeDiagnoses, ReadsFirst, Batched
<1>6. QED BY <1>1, <1>2, <1>3, <1>4, <1>5 DEF Diagnosers

(* Two ways to say that a report agrees with the notes in the file.        *)
Told(c) == {<<x.line, x.status>> : x \in {c[i] : i \in DOMAIN c}}

Asked(a, S) == {<<n, a[n]>> : n \in S}

LEMMA VerifiedPairs ==
  ASSUME NEW a, NEW c, NEW S
  PROVE  (/\ \A i \in DOMAIN c : c[i].line \in S /\ a[c[i].line] = c[i].status
          /\ S \subseteq {c[i].line : i \in DOMAIN c})
         <=> Told(c) = Asked(a, S)
<1> DEFINE told == Told(c)
           asked == Asked(a, S)
<1>1. \A p : p \in told <=> \E i \in DOMAIN c : p = <<c[i].line, c[i].status>> BY DEF Told
<1>2. \A p : p \in asked <=> \E n \in S : p = <<n, a[n]>> BY DEF Asked
<1>3. ASSUME \A i \in DOMAIN c : c[i].line \in S /\ a[c[i].line] = c[i].status,
             S \subseteq {c[i].line : i \in DOMAIN c}
      PROVE  told = asked
  <2> HIDE DEF told, asked
  <2>1. \A p : p \in told => p \in asked BY <1>1, <1>2, <1>3
  <2>2. ASSUME NEW p \in asked PROVE p \in told
    <3>1. PICK n \in S : p = <<n, a[n]>> BY <1>2, <2>2
    <3>2. PICK i \in DOMAIN c : n = c[i].line BY <1>3
    <3>3. p = <<c[i].line, c[i].status>> BY <1>3, <3>1, <3>2
    <3>4. QED BY <1>1, <3>3
  <2>3. QED BY <2>1, <2>2
<1>4. ASSUME told = asked
      PROVE  /\ \A i \in DOMAIN c : c[i].line \in S /\ a[c[i].line] = c[i].status
             /\ S \subseteq {c[i].line : i \in DOMAIN c}
  <2> HIDE DEF told, asked
  <2>1. ASSUME NEW i \in DOMAIN c PROVE c[i].line \in S /\ a[c[i].line] = c[i].status
    <3>1. <<c[i].line, c[i].status>> \in asked BY <1>1, <1>4
    <3>2. PICK n \in S : <<c[i].line, c[i].status>> = <<n, a[n]>> BY <1>2, <3>1
    <3>3. QED BY <3>2
  <2>2. ASSUME NEW n \in S PROVE \E i \in DOMAIN c : n = c[i].line
    <3>1. <<n, a[n]>> \in told BY <1>2, <1>4
    <3>2. PICK i \in DOMAIN c : <<n, a[n]>> = <<c[i].line, c[i].status>> BY <1>1, <3>1
    <3>3. QED BY <3>2
  <2>3. QED BY <2>1, <2>2
<1>5. QED BY <1>3, <1>4

LEMMA ProverRows ==
  ASSUME NEW i \in DOMAIN lines, harness \in NeedsZ3, lines \in LinesOf(harness)
  PROVE  Passes(i) <=> Shown(lines[i])
<1> DEFINE l == lines[i]
<1>1. CASE harness = "verify_corpus"
  <2>1. lines \in Seq([form : {"file"}, exit : Int, annotated : Seq(Judgements \union {"none"}),
                       contracts : Seq([line : Nat, status : Judgements])])
    BY <1>1 DEF LinesOf, ReadsFirst, Diagnosers
  <2>2. IsRow(l) 
    <3>1. l \in [form : {"file"}, exit : Int, annotated : Seq(Judgements \union {"none"}),
                 contracts : Seq([line : Nat, status : Judgements])]
      BY <2>1, SeqLine
    <3>2. QED BY <3>1 DEF IsRow
  <2> HIDE DEF l
  <2> DEFINE c == l.contracts
             a == l.annotated
             S == Annotated(l)
             told == Told(c)
             asked == Asked(a, S)
  <2>3. FileVerifies(l) <=> l.exit = 0 /\ l.contracts # << >> /\ told = asked
    <3>1. FileVerifies(l) <=> /\ l.exit = 0 /\ c # << >>
                              /\ \A k \in DOMAIN c : c[k].line \in S /\ a[c[k].line] = c[k].status
                              /\ S \subseteq {c[k].line : k \in DOMAIN c}
      BY DEF FileVerifies
    <3>2. (/\ \A k \in DOMAIN c : c[k].line \in S /\ a[c[k].line] = c[k].status
           /\ S \subseteq {c[k].line : k \in DOMAIN c})
          <=> told = asked
      <4> HIDE DEF c, a, S
      <4>1. QED BY VerifiedPairs
    <3> HIDE DEF told, asked, c, a, S
    <3>3. QED BY <3>1, <3>2 DEF c
  <2>4. Keeps(l) <=> l.exit = 0 /\ l.contracts # << >> /\ told = asked
    BY <1>1, <2>2 DEF Keeps, Told, Asked, ReadsFirst, Batched
  <2> HIDE DEF told, asked
  <2>5. Passes(i) <=> FileVerifies(l) BY <1>1 DEF Passes, l
  <2>6. Shown(l) <=> Keeps(l) BY <1>1 DEF Shown
  <2>7. QED BY <2>3, <2>4, <2>5, <2>6 DEF l
<1>2. CASE harness = "verify_determinism"
  BY <1>2 DEF Passes, Shown
<1>3. CASE harness = "verify_sv0_verify_e2e"
  <2>1. lines \in Seq([form : {"report"}, exit : Int, ensures : Seq(Judgements), requires : SUBSET Judgements,
                       summary : [1 .. 2 -> Int]])
    BY <1>3 DEF LinesOf, ReadsFirst, Diagnosers
  <2>2. l \in [form : {"report"}, exit : Int, ensures : Seq(Judgements), requires : SUBSET Judgements,
                 summary : [1 .. 2 -> Int]]
    BY <2>1, SeqLine
  <2>3. /\ IsRow(l) /\ l.ensures \in Seq(Judgements) /\ l.requires \subseteq Judgements
        /\ l.summary \in [1 .. 2 -> Int]
    BY <2>2 DEF IsRow
  <2> DEFINE e == l.ensures
             n == l.summary
  <2> HIDE DEF l
  <2>4. l.requires \subseteq {"runtime"} <=> "verified" \notin l.requires BY <2>3 DEF Judgements
  <2>5. n = <<2, 5>> <=> n[1] = 2 /\ n[2] = 5
    <3>1. n \in [1 .. 2 -> Int] BY <2>3
    <3> HIDE DEF n
    <3>2. 1 .. 2 = {1, 2} OBVIOUS
    <3>3. QED BY <3>1, <3>2
  <2>6. e = <<"verified", "runtime", "verified">> <=> Len(e) = 3 /\ {k \in 1 .. 3 : e[k] = "verified"} = {1, 3}
    <3>1. e \in Seq(Judgements) BY <2>3
    <3> HIDE DEF e
    <3>2. 1 .. 3 = {1, 2, 3} OBVIOUS
    <3>3. Len(e) = 3 => e[2] \in {"verified", "runtime"}
      <4>1. Len(e) = 3 => 2 \in DOMAIN e BY <3>1
      <4>2. QED BY <3>1, <4>1, SeqLine DEF Judgements
    <3>4. ASSUME e = <<"verified", "runtime", "verified">>
          PROVE  Len(e) = 3 /\ {k \in 1 .. 3 : e[k] = "verified"} = {1, 3}
      <4>1. Len(e) = 3 /\ e[1] = "verified" /\ e[2] = "runtime" /\ e[3] = "verified" BY <3>4
      <4>2. QED BY <3>2, <4>1
    <3>5. ASSUME Len(e) = 3, {k \in 1 .. 3 : e[k] = "verified"} = {1, 3}
          PROVE  e = <<"verified", "runtime", "verified">>
      <4>1. e[1] = "verified" /\ e[3] = "verified" /\ e[2] # "verified" BY <3>2, <3>5
      <4>2. e[2] = "runtime" BY <3>3, <3>5, <4>1
      <4>3. QED BY <3>1, <3>5, <4>1, <4>2
    <3>6. QED BY <3>4, <3>5
  <2>7. Passes(i) <=> l.exit = 0 /\ e = <<"verified", "runtime", "verified">>
                      /\ l.requires \subseteq {"runtime"} /\ n = <<2, 5>>
    BY <1>3 DEF Passes, ReportFits, l
  <2>8. Keeps(l) <=> /\ l.exit = 0 /\ "verified" \notin l.requires /\ n[1] = 2 /\ n[2] = 5
                     /\ Len(e) = 3 /\ {k \in 1 .. 3 : e[k] = "verified"} = {1, 3}
    BY <1>3, <2>3 DEF Keeps, ReadsFirst, Batched
  <2> HIDE DEF e, n
  <2>9. Shown(l) <=> Keeps(l) BY <1>3 DEF Shown
  <2>10. QED BY <2>4, <2>5, <2>6, <2>7, <2>8, <2>9 DEF l
<1>4. CASE harness = "verify_z3_driver"
  <2>1. lines \in Seq([form : {"query"}, exit : Int, output : Seq(STRING), want : Seq(STRING)])
    BY <1>4 DEF LinesOf, ReadsFirst, Diagnosers
  <2>2. l \in [form : {"query"}, exit : Int, output : Seq(STRING), want : Seq(STRING)] BY <2>1, SeqLine
  <2>3. IsRow(l) /\ l.output \in Seq(STRING) /\ l.want \in Seq(STRING) BY <2>2 DEF IsRow
  <2> DEFINE o == l.output
             w == l.want
  <2> HIDE DEF l
  <2>4. o = w <=> Len(o) = Len(w) /\ \A k \in DOMAIN w : o[k] = w[k]
    <3>1. o \in Seq(STRING) /\ w \in Seq(STRING) BY <2>3
    <3> HIDE DEF o, w
    <3>2. ASSUME Len(o) = Len(w), \A k \in DOMAIN w : o[k] = w[k] PROVE o = w
      <4>1. \A k \in 1 .. Len(o) : o[k] = w[k] BY <3>1, <3>2
      <4>2. QED BY <3>1, <3>2, <4>1, SeqEqual
    <3>3. QED BY <3>2
  <2>5. Passes(i) <=> l.exit = 0 /\ o = w BY <1>4 DEF Passes, Answers, l
  <2>6. Keeps(l) <=> l.exit = 0 /\ Len(o) = Len(w) /\ \A k \in DOMAIN w : o[k] = w[k]
    BY <1>4, <2>3 DEF Keeps, ReadsFirst, Batched
  <2> HIDE DEF o, w
  <2>7. Shown(l) <=> Keeps(l) BY <1>4 DEF Shown
  <2>8. QED BY <2>4, <2>5, <2>6, <2>7 DEF l
<1>5. CASE harness = "verify_contract_mode"
  <2>1. lines \in Seq([form : {"modes"}, exit : Int, link : BOOLEAN,
                       left : [runtime : Int, verified : Int, requires : Int]])
    BY <1>5 DEF LinesOf, ReadsFirst, Diagnosers
  <2>2. l \in [form : {"modes"}, exit : Int, link : BOOLEAN,
               left : [runtime : Int, verified : Int, requires : Int]]
    BY <2>1, SeqLine
  <2>3. IsRow(l) /\ l.left \in [runtime : Int, verified : Int, requires : Int] BY <2>2 DEF IsRow
  <2> HIDE DEF l
  <2>4. l.left = [runtime |-> 2, verified |-> 1, requires |-> 2]
          <=> l.left.requires = 2 /\ l.left.runtime = 2 /\ l.left.verified = 1
    BY <2>3
  <2>5. Passes(i) <=> l.exit = 0 /\ l.left = [runtime |-> 2, verified |-> 1, requires |-> 2] /\ l.link
    BY <1>5 DEF Passes, Strips, l
  <2>6. Keeps(l) <=> l.exit = 0 /\ l.link /\ l.left.requires = 2 /\ l.left.runtime = 2 /\ l.left.verified = 1
    BY <1>5, <2>3 DEF Keeps, ReadsFirst, Batched
  <2>7. QED BY <1>5, <2>4, <2>5, <2>6 DEF Shown, l
<1>6. CASE harness = "verify_contract_toml"
  <2>1. lines \in Seq([form : {"toml"}, flag : BOOLEAN, left : Int]) BY <1>6 DEF LinesOf, ReadsFirst, Diagnosers
  <2>2. l \in [form : {"toml"}, flag : BOOLEAN, left : Int] BY <2>1, SeqLine
  <2>3. IsRow(l) BY <2>2 DEF IsRow
  <2> HIDE DEF l
  <2>4. QED BY <1>6, <2>3 DEF Passes, Keeps, Shown, ModeHolds, ReadsFirst, Batched, l
<1>7. QED BY <1>1, <1>2, <1>3, <1>4, <1>5, <1>6 DEF NeedsZ3

LEMMA InjectedRows ==
  ASSUME NEW i \in DOMAIN lines, harness = "verify_string_alloc_failure", lines \in LinesOf(harness)
  PROVE  Passes(i) <=> Keeps(lines[i])
<1> DEFINE l == lines[i]
<1>1. lines \in Seq([form : {"run"}, side : {"c", "vm"}, exit : Nat, want : Nat, panics : BOOLEAN])
  BY DEF LinesOf, ReadsFirst, Diagnosers
<1>2. l \in [form : {"run"}, side : {"c", "vm"}, exit : Nat, want : Nat, panics : BOOLEAN] BY <1>1, SeqLine
<1>3. IsRow(l) /\ l.exit \in Nat /\ l.want \in Nat /\ l.side \in {"c", "vm"} BY <1>2 DEF IsRow
<1> DEFINE e == l.exit
           w == l.want
<1> HIDE DEF l
<1>4. (\E power \in {1, 10, 100} : e \div power = w)
        <=> e = w \/ \E unit \in {10, 100} : e \in unit * w .. unit * w + unit - 1
  <2>1. e \in Nat /\ w \in Nat BY <1>3
  <2> HIDE DEF e, w
  <2>2. e \div 1 = w <=> e = w BY <2>1
  <2>3. e \div 10 = w <=> e \in 10 * w .. 10 * w + 10 - 1 BY <2>1
  <2>4. e \div 100 = w <=> e \in 100 * w .. 100 * w + 100 - 1 BY <2>1
  <2>5. QED BY <2>2, <2>3, <2>4
<1>5. Passes(i) <=> IF l.side = "c" THEN e = w /\ (w = 1 => l.panics)
                    ELSE (\E power \in {1, 10, 100} : e \div power = w) /\ (w = 1 => l.panics)
  BY DEF Passes, InjectionOnC, InjectionOnVm, l
<1>6. Keeps(l) <=> /\ e = w \/ (l.side = "vm" /\ \E unit \in {10, 100} : e \in unit * w .. unit * w + unit - 1)
                   /\ l.panics \/ w # 1
  BY <1>3 DEF Keeps, ReadsFirst, Batched
<1> HIDE DEF e, w
<1>7. QED BY <1>3, <1>4, <1>5, <1>6 DEF l

LEMMA LinesAreNumbered ==
  ASSUME harness \in Harnesses, lines \in LinesOf(harness)
  PROVE  DOMAIN lines \subseteq Nat \ {0} /\ IsFiniteSet(DOMAIN lines)
<1>1. \E S : lines \in Seq(S)
  BY DEF LinesOf, Harnesses, Patient, Pooled, ReadsFirst, Diagnosers
<1>2. PICK S : lines \in Seq(S) BY <1>1
<1>3. DOMAIN lines = 1 .. Len(lines) /\ Len(lines) \in Nat BY <1>2
<1> DEFINE n == Len(lines)
<1>4. n \in Nat /\ DOMAIN lines = 1 .. n BY <1>3
<1> HIDE DEF n
<1>5. 1 .. n \subseteq Nat \ {0} BY <1>4
<1>6. IsFiniteSet(1 .. n) BY <1>4, FS_Interval
<1>7. QED BY <1>4, <1>5, <1>6

(* What a finished row shows, for every harness.                           *)
LEMMA RowTells ==
  ASSUME harness \in Harnesses, lines \in LinesOf(harness), NEW i \in Mine, ReadsFine, OwnLies(lines[i])
  PROVE  /\ Passes(i) => Shown(lines[i])
         /\ ~Passes(i) => Blamed(lines[i])
<1> DEFINE l == lines[i]
<1>1. i \in DOMAIN lines /\ Selects(harness, l) BY DEF Mine
<1>2. CASE harness \in ReadsFirst /\ harness \notin Batched
  <2>1. ~Refuses(harness, l) BY <1>1, <1>2 DEF ReadsFine
  <2>2. (Passes(i) => Keeps(l)) /\ (~Passes(i) => ~tools.probe \/ ~Keeps(l)) BY <1>1, <1>2, <2>1, NativeRows
  <2>3. Shown(l) <=> Keeps(l) BY <1>2 DEF Shown, ReadsFirst
  <2>4. QED BY <2>2, <2>3 DEF Blamed
<1>3. CASE harness \in {"verify_behavior_corpus_vm", "sv0_doctest", "vm_behavioral_parity"}
  <2>1. harness = "verify_behavior_corpus_vm" => ~Refuses(harness, l) BY <1>1, <1>3 DEF ReadsFine, ReadsFirst
  <2>2. Passes(i) <=> Keeps(l) BY <1>1, <1>3, <2>1, VmRows
  <2>3. Shown(l) <=> Keeps(l) BY <1>3 DEF Shown
  <2>4. QED BY <2>2, <2>3 DEF Blamed
<1>4. CASE harness \in Diagnosers \union {"verify_vm_ffi_gate", "verify_ffi_regression_corpus"}
  <2>1. (Passes(i) => Keeps(l)) /\ (~Passes(i) => Blamed(l)) BY <1>1, <1>4, DiagnosticRows
  <2>2. Shown(l) <=> Keeps(l) BY <1>4 DEF Shown, Diagnosers
  <2>3. QED BY <2>1, <2>2
<1>5. CASE harness \in NeedsZ3
  <2>1. Passes(i) <=> Shown(l) BY <1>1, <1>5, ProverRows
  <2>2. ~Shown(l) => ~Keeps(l)
    <3>1. CASE harness = "verify_determinism"
      <4>1. lines \in Seq([form : {"output"}, exit : Int, output : STRING])
        BY <3>1 DEF LinesOf, ReadsFirst, Diagnosers
      <4>2. 1 \in DOMAIN lines BY <1>1, <4>1
      <4>3. Keeps(l) => \A k \in DOMAIN lines : lines[k].exit = 0 /\ lines[k].output = l.output
        BY <3>1 DEF Keeps, ReadsFirst, Batched
      <4>4. QED BY <1>1, <3>1, <4>2, <4>3 DEF Shown, SameOutput
    <3>2. CASE harness # "verify_determinism" BY <3>2 DEF Shown
    <3>3. QED BY <3>1, <3>2
  <2>3. QED BY <2>1, <2>2 DEF Blamed
<1>6. CASE harness = "verify_string_alloc_failure"
  <2>1. Passes(i) <=> Keeps(l) BY <1>1, <1>6, InjectedRows
  <2>2. Shown(l) <=> Keeps(l) BY <1>6 DEF Shown
  <2>3. QED BY <2>1, <2>2 DEF Blamed
<1>7. harness \in (ReadsFirst \ Batched) \union {"verify_behavior_corpus_vm", "sv0_doctest", "vm_behavioral_parity"}
                  \union Diagnosers \union {"verify_vm_ffi_gate", "verify_ffi_regression_corpus"} \union NeedsZ3
                  \union {"verify_string_alloc_failure"}
  BY DEF Harnesses, Patient, Pooled, ReadsFirst, Batched, Diagnosers, NeedsZ3
<1>8. QED BY <1>2, <1>3, <1>4, <1>5, <1>6, <1>7

(* Where every row shows what it should, every row keeps its promise.      *)
LEMMA AllShownAllKept ==
  ASSUME harness \in Harnesses, lines \in LinesOf(harness), \A i \in Mine : Shown(lines[i])
  PROVE  \A i \in Mine : Keeps(lines[i])
<1>1. CASE harness # "verify_determinism" BY <1>1 DEF Shown
<1>2. CASE harness = "verify_determinism"
  <2>1. Mine = DOMAIN lines BY <1>2 DEF Mine, Selects
  <2>2. \A i \in DOMAIN lines : lines[i].exit = 0 /\ lines[i].output = lines[1].output
    BY <1>2, <2>1 DEF Shown, SameOutput
  <2>3. \A i \in DOMAIN lines : IsRow(lines[i])
    <3>1. lines \in Seq([form : {"output"}, exit : Int, output : STRING])
      BY <1>2 DEF LinesOf, ReadsFirst, Diagnosers
    <3>2. ASSUME NEW i \in DOMAIN lines PROVE IsRow(lines[i])
      <4>1. lines[i] \in [form : {"output"}, exit : Int, output : STRING] BY <3>1, SeqLine
      <4>2. QED BY <4>1 DEF IsRow
    <3>3. QED BY <3>2
  <2>4. QED BY <1>2, <2>1, <2>2, <2>3 DEF Keeps, ReadsFirst, Batched
<1>3. QED BY <1>1, <1>2

-----------------------------------------------------------------------------
(* The inductive invariant.                                                *)

Compiling ==
  /\ harness \in Batched /\ busy = {}
  /\ \A i \in wrong : lines[i].vm.does = "no code"
  /\ OwnBytecode => \A i \in Mine : i <= taken => i \in wrong \/ Lies(lines[i]) = lines[i].vm

Running ==
  OwnBytecode =>
    /\ harness \in Batched => \A i \in Mine : Lies(lines[i]) = lines[i].vm
    /\ harness = "sv0_doctest" => \A i \in busy : OwnLies(lines[i])
    /\ \A i \in Mine : i <= taken => i \in busy \/ i \in wrong \/ Shown(lines[i])
    /\ \A i \in wrong : Blamed(lines[i])

CorpusInd ==
  /\ harness \in Harnesses /\ lines \in LinesOf(harness)
  /\ bytecode \in [VmStem -> Bytecode] /\ mixed \in BOOLEAN
  /\ phase \in {"tools", "manifest", "compile", "rows", "done"}
  /\ phase \in {"tools", "manifest"} => taken = 0 /\ busy = {} /\ wrong = {}
  /\ phase \in {"compile", "rows"} =>
       /\ rows = Mine /\ taken \in Nat /\ ReadsFine
       /\ busy \subseteq Mine /\ wrong \subseteq Mine
  /\ phase = "compile" => Compiling
  /\ phase = "rows" => Running
  /\ VerdictsAreEarned

(* The manifest and what is asked of it do not change meanwhile.           *)
LEMMA QuestionStays ==
  ASSUME CorpusStays
  PROVE  /\ harness' = harness /\ lines' = lines /\ tools' = tools
         /\ Mine' = Mine /\ (ReadsFine' <=> ReadsFine) /\ (Lacks' <=> Lacks)
         /\ \A l : (Keeps(l)' <=> Keeps(l)) /\ (Shown(l)' <=> Shown(l)) /\ (Blamed(l)' <=> Blamed(l))
         /\ rows' = rows /\ mixed' = mixed => (OwnBytecode' <=> OwnBytecode)
<1>1. harness' = harness /\ lines' = lines /\ tools' = tools BY DEF CorpusStays
<1>2. \A h, l : Selects(h, l)' <=> Selects(h, l) BY <1>1 DEF Selects, VmIsThere, Absent, IsRow
<1>3. Mine' = Mine BY <1>1, <1>2 DEF Mine
<1>4. \A h, l : Refuses(h, l)' <=> Refuses(h, l) BY <1>2 DEF Refuses, IsRow
<1>5. ReadsFine' <=> ReadsFine BY <1>1, <1>4 DEF ReadsFine
<1>6. Lacks' <=> Lacks BY <1>1 DEF Lacks
<1>7. \A l : Keeps(l)' <=> Keeps(l) BY <1>1 DEF Keeps, IsRow, LowByte, Annotated
<1>8. \A l : Shown(l)' <=> Shown(l) BY <1>1, <1>7 DEF Shown, SameOutput
<1>9. \A l : Blamed(l)' <=> Blamed(l) BY <1>1, <1>7 DEF Blamed
<1>10. rows' = rows /\ mixed' = mixed => (OwnBytecode' <=> OwnBytecode) BY <1>1 DEF OwnBytecode
<1>11. QED BY <1>1, <1>3, <1>5, <1>6, <1>7, <1>8, <1>9, <1>10

LEMMA CorpusInitInv ==
  ASSUME CorpusInit
  PROVE  CorpusInd
<1>1. PICK s \in Survey : CorpusStartsFrom(s) BY DEF CorpusInit
<1>2. harness \in Harnesses /\ lines \in LinesOf(harness) BY <1>1, SurveyAssumption DEF CorpusStartsFrom
<1>3. Nothing \in Bytecode /\ Stranger \in Bytecode BY DEF Nothing, Stranger, Bytecode
<1>4. bytecode \in [VmStem -> Bytecode] BY <1>1, <1>3 DEF CorpusStartsFrom
<1>5. QED BY <1>1, <1>2, <1>4 DEF CorpusStartsFrom, CorpusInd, VerdictsAreEarned

(* The rows are begun in order.                                            *)
LEMMA NextRow ==
  ASSUME CorpusInd, phase \in {"compile", "rows"}, NEW i \in rows, IsNext(i)
  PROVE  /\ i \in Mine /\ i \in DOMAIN lines /\ i \in Nat /\ taken \in Nat /\ i > taken
         /\ \A j \in Mine : j <= i => j <= taken \/ j = i
<1>1. rows = Mine /\ taken \in Nat BY DEF CorpusInd
<1>2. lines \in LinesOf(harness) /\ harness \in Harnesses BY DEF CorpusInd
<1>3. DOMAIN lines \subseteq Nat BY <1>2, LinesAreNumbered
<1>4. Mine \subseteq DOMAIN lines BY DEF Mine
<1>5. i > taken /\ \A j \in Mine : j > taken => i <= j BY <1>1 DEF IsNext, Left
<1>6. QED BY <1>1, <1>3, <1>4, <1>5

LEMMA StemOfRow ==
  ASSUME NEW i \in Mine, lines \in LinesOf(harness), ReadsFine,
         harness \in {"verify_behavior_corpus_vm", "sv0_doctest"}
  PROVE  lines[i].stem \in VmStem /\ lines[i].vm \in Bytecode /\ IsRow(lines[i])
<1>1. lines[i] \in Program
  <2>1. CASE harness = "verify_behavior_corpus_vm"
    BY <2>1, ManifestRow DEF Mine, ReadsFine, ReadsFirst
  <2>2. CASE harness = "sv0_doctest"
    <3>1. lines \in Seq({p \in Program : p.there /\ p.number}) BY <2>2 DEF LinesOf, ReadsFirst, Diagnosers
    <3>2. QED BY <3>1, SeqLine DEF Mine
  <2>3. QED BY <2>1, <2>2
<1>2. QED BY <1>1 DEF Program, IsRow

(* What lies under the stem after a compilation.                           *)
LEMMA CompiledIs ==
  ASSUME bytecode \in [VmStem -> Bytecode], NEW l, l.stem \in VmStem, l.vm \in Bytecode
  PROVE  /\ Compiled(l) \in [VmStem -> Bytecode]
         /\ l.vm.does \notin {"no code", "silent"} => Compiled(l)[l.stem] = l.vm
         /\ l.vm.does \in {"no code", "silent"} => Compiled(l) = bytecode
         /\ \A s \in VmStem : s # l.stem => Compiled(l)[s] = bytecode[s]
BY DEF Compiled

LEMMA FindToolsInv ==
  ASSUME CorpusInd, FindTools
  PROVE  CorpusInd'
<1>1. /\ harness' = harness /\ lines' = lines /\ (Lacks' <=> Lacks) BY QuestionStays DEF FindTools
<1>2. /\ phase = "tools" /\ phase' \in {"done", "manifest"}
      /\ taken' = taken /\ busy' = busy /\ wrong' = wrong /\ bytecode' = bytecode /\ mixed' = mixed
      /\ phase' = "done" => verdict' = "skipped" \/ (verdict' = "red" /\ Lacks')
  BY <1>1 DEF FindTools, Ends
<1>3. VerdictsAreEarned' BY <1>2 DEF VerdictsAreEarned
<1>4. QED BY <1>1, <1>2, <1>3 DEF CorpusInd

LEMMA ReadManifestInv ==
  ASSUME CorpusInd, ReadManifest
  PROVE  CorpusInd'
<1>1. /\ CorpusStays /\ phase = "manifest"
      /\ taken' = taken /\ busy' = busy /\ wrong' = wrong /\ bytecode' = bytecode /\ mixed' = mixed
  BY DEF ReadManifest
<1>2. /\ harness' = harness /\ lines' = lines /\ tools' = tools /\ Mine' = Mine
      /\ (ReadsFine' <=> ReadsFine) /\ \A l : Keeps(l)' <=> Keeps(l)
  BY <1>1, QuestionStays
<1>3. taken = 0 /\ busy = {} /\ wrong = {} BY <1>1 DEF CorpusInd
<1> DEFINE refused == \/ harness \in ReadsFirst /\ \E i \in DOMAIN lines : Refuses(harness, lines[i])
                      \/ harness = "verify_diagnostics_corpus_layout" /\ Mine = {}
<1>4. CASE refused
  <2>1. phase' = "done" /\ verdict' = "red" BY <1>4 DEF ReadManifest, Ends, Mine
  <2>2. \/ harness = "verify_diagnostics_corpus_layout" /\ Mine = {}
        \/ \E i \in Mine : ~Keeps(lines[i])
    <3>1. ASSUME harness \in ReadsFirst, NEW i \in DOMAIN lines, Refuses(harness, lines[i])
          PROVE  i \in Mine /\ ~Keeps(lines[i])
      <4>1. CASE ~IsRow(lines[i])
        <5>1. Selects(harness, lines[i]) BY <3>1, <4>1 DEF Selects, ReadsFirst
        <5>2. QED BY <3>1, <4>1, <5>1 DEF Mine, Keeps
      <4>2. CASE IsRow(lines[i])
        <5> DEFINE l == lines[i]
        <5>1. Selects(harness, l) /\ (~l.number \/ (harness \in Batched /\ ~l.there)) BY <3>1, <4>2 DEF Refuses
        <5>2. i \in Mine BY <3>1, <5>1 DEF Mine
        <5> HIDE DEF l
        <5>3. ~Keeps(l) BY <3>1, <5>1 DEF Keeps, ReadsFirst, Batched
        <5>4. QED BY <5>2, <5>3 DEF l
      <4>3. QED BY <4>1, <4>2
    <3>2. QED BY <1>4, <3>1
  <2>3. VerdictsAreEarned'
    <3>1. \/ harness' = "verify_diagnostics_corpus_layout" /\ Mine' = {}
          \/ \E i \in Mine' : ~Keeps(lines[i])'
      BY <1>2, <2>2
    <3>2. QED BY <1>2, <2>1, <3>1 DEF VerdictsAreEarned, Mine
  <2>4. QED BY <1>1, <1>2, <2>1, <2>3 DEF CorpusInd
<1>5. CASE ~refused
  <2>1. phase' = (IF harness \in Batched THEN "compile" ELSE "rows") /\ rows' = Mine
    BY <1>5 DEF ReadManifest, Mine
  <2>2. ReadsFine BY <1>5 DEF ReadsFine
  <2>3. Mine \subseteq Nat \ {0} BY LinesAreNumbered DEF Mine, CorpusInd
  <2>4. \A i \in Mine : ~(i <= 0) BY <2>3
  <2>5. phase' = "compile" => Compiling' BY <1>1, <1>2, <1>3, <2>1, <2>4 DEF Compiling
  <2>6. phase' = "rows" => Running' BY <1>1, <1>2, <1>3, <2>1, <2>4 DEF Running
  <2>7. VerdictsAreEarned' BY <2>1 DEF VerdictsAreEarned
  <2>8. phase' \in {"compile", "rows"} BY <2>1
  <2>9. QED BY <1>1, <1>2, <1>3, <2>1, <2>2, <2>5, <2>6, <2>7, <2>8 DEF CorpusInd
<1>6. QED BY <1>4, <1>5

LEMMA CompileRowInv ==
  ASSUME CorpusInd, NEW i \in rows, CompileRow(i)
  PROVE  CorpusInd'
<1>1. /\ CorpusStays /\ phase = "compile" /\ phase' = phase /\ IsNext(i)
      /\ taken' = i /\ busy' = busy /\ rows' = rows /\ mixed' = mixed /\ bytecode' = Compiled(lines[i])
      /\ wrong' = IF lines[i].vm.does = "no code" THEN wrong \union {i} ELSE wrong
  BY DEF CompileRow
<1>2. /\ harness' = harness /\ lines' = lines /\ tools' = tools /\ Mine' = Mine
      /\ (ReadsFine' <=> ReadsFine) /\ (OwnBytecode' <=> OwnBytecode)
  BY <1>1, QuestionStays
<1>3. /\ harness \in Harnesses /\ lines \in LinesOf(harness) /\ rows = Mine /\ ReadsFine
      /\ bytecode \in [VmStem -> Bytecode] /\ mixed \in BOOLEAN /\ wrong \subseteq Mine /\ busy = {}
      /\ harness = "verify_behavior_corpus_vm"
  BY <1>1 DEF CorpusInd, Compiling, Batched
<1>4. Compiling BY <1>1 DEF CorpusInd
<1>5. /\ i \in Mine /\ i \in Nat /\ i > taken
      /\ \A j \in Mine : j <= i => j <= taken \/ j = i
  BY <1>1, NextRow
<1>6. \A j \in Mine : lines[j].stem \in VmStem /\ lines[j].vm \in Bytecode BY <1>3, StemOfRow
<1>7. /\ bytecode' \in [VmStem -> Bytecode]
      /\ lines[i].vm.does \notin {"no code", "silent"} => bytecode'[lines[i].stem] = lines[i].vm
      /\ lines[i].vm.does \in {"no code", "silent"} => bytecode' = bytecode
      /\ \A s \in VmStem : s # lines[i].stem => bytecode'[s] = bytecode[s]
  BY <1>1, <1>3, <1>5, <1>6, CompiledIs
<1>8. ASSUME OwnBytecode, NEW j \in Mine, j <= i
      PROVE  j \in wrong' \/ bytecode'[lines[j].stem] = lines[j].vm
  <2>1. lines[j].vm.does # "silent" /\ (j # i => lines[j].stem # lines[i].stem)
    BY <1>3, <1>5, <1>8 DEF OwnBytecode, Batched
  <2>2. CASE j = i BY <1>1, <1>7, <2>1, <2>2
  <2>3. CASE j # i
    <3>1. j <= taken BY <1>5, <1>8, <2>3
    <3>2. j \in wrong \/ bytecode[lines[j].stem] = lines[j].vm BY <1>4, <1>8, <3>1 DEF Compiling, Lies
    <3>3. bytecode'[lines[j].stem] = bytecode[lines[j].stem] BY <1>6, <1>7, <2>1, <2>3
    <3>4. QED BY <1>1, <3>2, <3>3
  <2>4. QED BY <2>2, <2>3
<1>9. wrong' \subseteq Mine /\ \A j \in wrong' : lines[j].vm.does = "no code"
  BY <1>1, <1>3, <1>4, <1>5 DEF Compiling
<1>10. Compiling' BY <1>1, <1>2, <1>3, <1>8, <1>9 DEF Compiling, Lies, Batched
<1>11. VerdictsAreEarned' BY <1>1 DEF VerdictsAreEarned
<1>12. QED BY <1>1, <1>2, <1>3, <1>5, <1>7, <1>9, <1>10, <1>11 DEF CorpusInd

LEMMA CompiledAllInv ==
  ASSUME CorpusInd, CompiledAll
  PROVE  CorpusInd'
<1>1. /\ CorpusStays /\ phase = "compile" /\ Left = {} /\ taken' = 0
      /\ busy' = busy /\ rows' = rows /\ mixed' = mixed /\ bytecode' = bytecode /\ wrong' = wrong
  BY DEF CompiledAll
<1>2. /\ harness' = harness /\ lines' = lines /\ tools' = tools /\ Mine' = Mine
      /\ (ReadsFine' <=> ReadsFine) /\ (OwnBytecode' <=> OwnBytecode) /\ \A l : Keeps(l)' <=> Keeps(l)
  BY <1>1, QuestionStays
<1>3. /\ rows = Mine /\ taken \in Nat /\ wrong \subseteq Mine /\ busy = {} /\ ReadsFine
      /\ harness = "verify_behavior_corpus_vm" /\ harness \in Batched
  BY <1>1 DEF CorpusInd, Compiling, Batched
<1>4. Mine \subseteq Nat \ {0} BY LinesAreNumbered DEF Mine, CorpusInd
<1>5. CASE wrong # {}
  <2>1. phase' = "done" /\ verdict' = "red" BY <1>5 DEF CompiledAll, Ends
  <2>2. PICK i \in wrong : lines[i].vm.does = "no code" BY <1>1, <1>5 DEF CorpusInd, Compiling
  <2>3. ~Keeps(lines[i]) BY <1>3, <2>2 DEF Keeps, ReadsFirst, Batched
  <2>4. i \in Mine' /\ ~Keeps(lines[i])' BY <1>2, <1>3, <2>3
  <2>5. VerdictsAreEarned' BY <1>2, <2>1, <2>4 DEF VerdictsAreEarned, Mine
  <2>6. QED BY <1>1, <1>2, <2>1, <2>5 DEF CorpusInd
<1>6. CASE wrong = {}
  <2>1. phase' = "rows" BY <1>6 DEF CompiledAll
  <2>2. \A i \in Mine : i <= taken BY <1>1, <1>3, <1>4 DEF Left
  <2>3. OwnBytecode => \A i \in Mine : Lies(lines[i]) = lines[i].vm BY <1>1, <1>6, <2>2 DEF CorpusInd, Compiling
  <2>4. \A i \in Mine : ~(i <= 0) BY <1>4
  <2>5. Running' BY <1>1, <1>2, <1>3, <1>6, <2>3, <2>4 DEF Running, Lies
  <2>6. VerdictsAreEarned' BY <2>1 DEF VerdictsAreEarned
  <2>7. QED BY <1>1, <1>2, <1>3, <2>1, <2>5, <2>6 DEF CorpusInd
<1>7. QED BY <1>5, <1>6

LEMMA TakeRowInv ==
  ASSUME CorpusInd, NEW i \in rows, TakeRow(i)
  PROVE  CorpusInd'
<1>1. /\ CorpusStays /\ phase = "rows" /\ phase' = phase /\ IsNext(i)
      /\ taken' = i /\ busy' = busy \union {i} /\ rows' = rows /\ mixed' = mixed /\ wrong' = wrong
      /\ bytecode' = IF harness = "sv0_doctest" THEN Compiled(lines[i]) ELSE bytecode
      /\ harness = "sv0_doctest" => Cardinality(busy) < 1
  BY DEF TakeRow, Pooled
<1>2. /\ harness' = harness /\ lines' = lines /\ tools' = tools /\ Mine' = Mine
      /\ (ReadsFine' <=> ReadsFine) /\ (OwnBytecode' <=> OwnBytecode)
      /\ \A l : (Shown(l)' <=> Shown(l)) /\ (Blamed(l)' <=> Blamed(l))
  BY <1>1, QuestionStays
<1>3. /\ harness \in Harnesses /\ lines \in LinesOf(harness) /\ rows = Mine /\ ReadsFine
      /\ bytecode \in [VmStem -> Bytecode] /\ mixed \in BOOLEAN /\ wrong \subseteq Mine /\ busy \subseteq Mine
  BY <1>1 DEF CorpusInd
<1>4. /\ i \in Mine /\ i \in Nat /\ \A j \in Mine : j <= i => j <= taken \/ j = i
  BY <1>1, NextRow
<1>5. Running BY <1>1 DEF CorpusInd
<1>6. harness = "sv0_doctest" => busy = {}
  <2>1. busy \subseteq DOMAIN lines BY <1>3 DEF Mine
  <2>2. IsFiniteSet(DOMAIN lines) BY <1>3, LinesAreNumbered
  <2>3. IsFiniteSet(busy) BY <2>1, <2>2, FS_Subset
  <2>4. Cardinality(busy) \in Nat /\ (Cardinality(busy) = 0 <=> busy = {}) BY <2>3, FS_CardinalityType, FS_EmptySet
  <2>5. QED BY <1>1, <2>4
<1>7. harness = "sv0_doctest" => lines[i].stem \in VmStem /\ lines[i].vm \in Bytecode BY <1>3, <1>4, StemOfRow
<1>8. bytecode' \in [VmStem -> Bytecode] BY <1>1, <1>3, <1>7, CompiledIs
<1>9. ASSUME OwnBytecode PROVE Running'
  <2>1. harness \in Batched => bytecode' = bytecode BY <1>1 DEF Batched
  <2>2. harness \in Batched => \A j \in Mine : Lies(lines[j])' = lines[j].vm
    BY <1>2, <1>5, <1>9, <2>1 DEF Running, Lies
  <2>3. harness = "sv0_doctest" => \A j \in busy' : OwnLies(lines[j])'
    <3> SUFFICES ASSUME harness = "sv0_doctest" PROVE OwnLies(lines[i])'
      BY <1>1, <1>2, <1>6
    <3>1. lines[i].vm.does # "silent" BY <1>3, <1>4, <1>9 DEF OwnBytecode
    <3>2. lines[i].vm.does = "no code" \/ bytecode'[lines[i].stem] = lines[i].vm
      BY <1>1, <1>3, <1>7, <3>1, CompiledIs
    <3>3. QED BY <1>2, <3>2 DEF OwnLies, Lies, Batched
  <2>4. \A j \in Mine : j <= taken' => j \in busy' \/ j \in wrong' \/ Shown(lines[j])
    BY <1>1, <1>4, <1>5, <1>9 DEF Running
  <2>5. \A j \in wrong' : Blamed(lines[j]) BY <1>1, <1>5, <1>9 DEF Running
  <2>6. QED BY <1>2, <2>2, <2>3, <2>4, <2>5 DEF Running
<1>10. Running' BY <1>2, <1>9 DEF Running
<1>11. VerdictsAreEarned' BY <1>1 DEF VerdictsAreEarned
<1>12. busy' \subseteq Mine BY <1>1, <1>3, <1>4
<1>13. QED BY <1>1, <1>2, <1>3, <1>4, <1>8, <1>10, <1>11, <1>12 DEF CorpusInd

LEMMA FinishRowInv ==
  ASSUME CorpusInd, NEW i \in rows, FinishRow(i)
  PROVE  CorpusInd'
<1>1. /\ CorpusStays /\ phase = "rows" /\ phase' = phase /\ i \in busy
      /\ taken' = taken /\ busy' = busy \ {i} /\ rows' = rows /\ mixed' = mixed /\ bytecode' = bytecode
      /\ wrong' = IF Passes(i) THEN wrong ELSE wrong \union {i}
  BY DEF FinishRow, Noted
<1>2. /\ harness' = harness /\ lines' = lines /\ tools' = tools /\ Mine' = Mine
      /\ (ReadsFine' <=> ReadsFine) /\ (OwnBytecode' <=> OwnBytecode)
      /\ \A l : (Shown(l)' <=> Shown(l)) /\ (Blamed(l)' <=> Blamed(l))
  BY <1>1, QuestionStays
<1>3. /\ harness \in Harnesses /\ lines \in LinesOf(harness) /\ rows = Mine /\ ReadsFine /\ taken \in Nat
      /\ bytecode \in [VmStem -> Bytecode] /\ mixed \in BOOLEAN /\ wrong \subseteq Mine /\ busy \subseteq Mine
      /\ Running
  BY <1>1 DEF CorpusInd
<1>4. i \in Mine BY <1>3
<1>5. ASSUME OwnBytecode PROVE Running'
  <2>1. OwnLies(lines[i]) BY <1>1, <1>3, <1>4, <1>5 DEF Running, OwnLies, Batched
  <2>2. (Passes(i) => Shown(lines[i])) /\ (~Passes(i) => Blamed(lines[i])) BY <1>3, <1>4, <2>1, RowTells
  <2>3. \A j \in Mine : Lies(lines[j])' = Lies(lines[j]) /\ (OwnLies(lines[j])' <=> OwnLies(lines[j]))
    BY <1>1, <1>2 DEF Lies, OwnLies
  <2>4. harness \in Batched => \A j \in Mine : Lies(lines[j])' = lines[j].vm BY <1>3, <1>5, <2>3 DEF Running
  <2>5. harness = "sv0_doctest" => \A j \in busy' : OwnLies(lines[j])' BY <1>1, <1>3, <1>5, <2>3 DEF Running
  <2>6. \A j \in Mine : j <= taken' => j \in busy' \/ j \in wrong' \/ Shown(lines[j])
    BY <1>1, <1>3, <1>5, <2>2 DEF Running
  <2>7. \A j \in wrong' : Blamed(lines[j]) BY <1>1, <1>3, <1>5, <2>2 DEF Running
  <2>8. QED BY <1>2, <2>4, <2>5, <2>6, <2>7 DEF Running
<1>6. Running' BY <1>2, <1>5 DEF Running
<1>7. VerdictsAreEarned' BY <1>1 DEF VerdictsAreEarned
<1>8. busy' \subseteq Mine /\ wrong' \subseteq Mine BY <1>1, <1>3, <1>4
<1>9. QED BY <1>1, <1>2, <1>3, <1>6, <1>7, <1>8 DEF CorpusInd

LEMMA ReportInv ==
  ASSUME CorpusInd, Report
  PROVE  CorpusInd'
<1>1. /\ CorpusStays /\ phase = "rows" /\ phase' = "done" /\ busy = {} /\ rows' = rows /\ mixed' = mixed
      /\ Left = {} \/ wrong # {}
      /\ verdict' = IF wrong = {} THEN "green" ELSE "red"
      /\ bytecode' = bytecode
  BY DEF Report, Ends
<1>2. /\ harness' = harness /\ lines' = lines /\ tools' = tools /\ Mine' = Mine
      /\ (OwnBytecode' <=> OwnBytecode) /\ \A l : (Keeps(l)' <=> Keeps(l)) /\ (Blamed(l)' <=> Blamed(l))
  BY <1>1, QuestionStays
<1>3. /\ harness \in Harnesses /\ lines \in LinesOf(harness) /\ rows = Mine /\ taken \in Nat
      /\ wrong \subseteq Mine /\ Running
  BY <1>1 DEF CorpusInd
<1>4. Mine \subseteq Nat \ {0} BY <1>3, LinesAreNumbered DEF Mine
<1>5. ASSUME OwnBytecode, wrong = {} PROVE \A i \in Mine : Keeps(lines[i])
  <2>1. \A i \in Mine : i <= taken BY <1>1, <1>3, <1>4, <1>5 DEF Left
  <2>2. \A i \in Mine : Shown(lines[i]) BY <1>1, <1>3, <1>5, <2>1 DEF Running
  <2>3. QED BY <1>3, <2>2, AllShownAllKept
<1>6. ASSUME OwnBytecode, wrong # {} PROVE \E i \in Mine : Blamed(lines[i])
  BY <1>3, <1>6 DEF Running
<1>7. VerdictsAreEarned'
  <2> SUFFICES ASSUME OwnBytecode
               PROVE /\ verdict' = "green" => \A i \in Mine' : Keeps(lines[i])'
                     /\ verdict' = "red" =>
                          \/ ~tools'.probe \/ \E i \in Mine' : ~Keeps(lines[i])'
                          \/ harness' = "verify_ffi_regression_corpus" /\ \E i \in Mine' : ~lines'[i].built
    BY <1>2 DEF VerdictsAreEarned, Mine
  <2>1. CASE wrong = {} BY <1>1, <1>2, <1>5, <2>1
  <2>2. CASE wrong # {}
    <3>1. PICK i \in Mine : Blamed(lines[i]) BY <1>6, <2>2
    <3>2. \/ ~tools.probe \/ ~Keeps(lines[i])
          \/ harness = "verify_ffi_regression_corpus" /\ ~lines[i].built
      BY <3>1 DEF Blamed
    <3>3. verdict' = "red" BY <1>1, <2>2
    <3>4. QED BY <1>2, <3>2, <3>3
  <2>3. QED BY <2>1, <2>2
<1>8. QED BY <1>1, <1>2, <1>7 DEF CorpusInd

LEMMA SomebodyCompilesInv ==
  ASSUME CorpusInd, NEW s \in VmStem, SomebodyCompiles(s)
  PROVE  CorpusInd'
<1>1. /\ CorpusStays /\ phase \in {"compile", "rows"} /\ phase' = phase /\ mixed' = TRUE
      /\ taken' = taken /\ busy' = busy /\ rows' = rows /\ wrong' = wrong
      /\ bytecode' = [bytecode EXCEPT ![s] = Stranger]
  BY DEF SomebodyCompiles
<1>2. harness' = harness /\ lines' = lines /\ tools' = tools /\ Mine' = Mine /\ (ReadsFine' <=> ReadsFine)
  BY <1>1, QuestionStays
<1>3. ~OwnBytecode' BY <1>1 DEF OwnBytecode
<1>4. bytecode' \in [VmStem -> Bytecode]
  <2>1. Stranger \in Bytecode BY DEF Stranger, Bytecode
  <2>2. bytecode \in [VmStem -> Bytecode] BY DEF CorpusInd
  <2>3. QED BY <1>1, <2>1, <2>2
<1>5. phase' = "compile" => Compiling' BY <1>1, <1>2, <1>3 DEF CorpusInd, Compiling
<1>6. Running' BY <1>3 DEF Running
<1>7. VerdictsAreEarned' BY <1>1 DEF VerdictsAreEarned
<1>8. QED BY <1>1, <1>2, <1>4, <1>5, <1>6, <1>7 DEF CorpusInd

LEMMA CorpusStutters ==
  ASSUME CorpusInd, UNCHANGED corpusVars
  PROVE  CorpusInd'
<1>1. /\ CorpusStays /\ phase' = phase /\ mixed' = mixed /\ taken' = taken /\ busy' = busy /\ rows' = rows
      /\ wrong' = wrong /\ bytecode' = bytecode /\ verdict' = verdict
  BY DEF corpusVars, CorpusStays
<1>2. /\ harness' = harness /\ lines' = lines /\ tools' = tools /\ Mine' = Mine
      /\ (ReadsFine' <=> ReadsFine) /\ (Lacks' <=> Lacks)
      /\ \A l : (Keeps(l)' <=> Keeps(l)) /\ (Shown(l)' <=> Shown(l)) /\ (Blamed(l)' <=> Blamed(l))
      /\ (OwnBytecode' <=> OwnBytecode)
  BY <1>1, QuestionStays
<1>3. \A l : Lies(l)' = Lies(l) /\ (OwnLies(l)' <=> OwnLies(l)) BY <1>1, <1>2 DEF Lies, OwnLies
<1>4. Compiling' <=> Compiling BY <1>1, <1>2, <1>3 DEF Compiling
<1>5. Running' <=> Running BY <1>1, <1>2, <1>3 DEF Running
<1>6. VerdictsAreEarned' <=> VerdictsAreEarned
  <2>1. (\A i \in Mine' : Keeps(lines[i])') <=> \A i \in Mine : Keeps(lines[i]) BY <1>2
  <2>2. (\E i \in Mine' : ~Keeps(lines[i])') <=> \E i \in Mine : ~Keeps(lines[i]) BY <1>2
  <2>3. QED BY <1>1, <1>2, <2>1, <2>2 DEF VerdictsAreEarned, Mine
<1>7. QED BY <1>1, <1>2, <1>4, <1>5, <1>6 DEF CorpusInd

(* Each of the nineteen harnesses ends green only when every row it is     *)
(* about keeps what its manifest promises of it, and red only when one     *)
(* does not or something is missing: whatever the manifest, however many   *)
(* jobs run and in whatever order they end, and, for the two that run      *)
(* bytecode, as long as the shared directory held their own.  What the     *)
(* known fixture promises is what the harnesses look at: an instrumented   *)
(* build that has its known finding may have any other.                    *)
THEOREM VerdictsAreEarnedAlways == CorpusSpec => []VerdictsAreEarned
<1>1. CorpusInit => CorpusInd BY CorpusInitInv
<1>2. CorpusInd /\ [CorpusNext]_corpusVars => CorpusInd'
  BY FindToolsInv, ReadManifestInv, CompiledAllInv, ReportInv, CompileRowInv, TakeRowInv, FinishRowInv,
     SomebodyCompilesInv, CorpusStutters
  DEF CorpusNext
<1>3. CorpusInd => VerdictsAreEarned BY DEF CorpusInd
<1>4. QED BY <1>1, <1>2, <1>3, PTL DEF CorpusSpec

-----------------------------------------------------------------------------
(* Gitlinks.                                                               *)

LEMMA LeastElement ==
  ASSUME NEW S \in SUBSET Nat, S # {}
  PROVE  \E x \in S : \A y \in S : x <= y
<1>1. PICK x \in S : \A y \in S : ~(<<y, x>> \in OpToRel(<, Nat))
  BY NatLessThanWellFounded, WFMin
<1>2. ASSUME NEW y \in S, y < x PROVE <<y, x>> \in OpToRel(<, Nat)
  BY <1>2 DEF OpToRel
<1>3. \A y \in S : ~(y < x) BY <1>1, <1>2, Zenon
<1>4. \A y \in S : x <= y BY <1>3
<1>5. QED BY <1>4

LEMMA GreatestElement ==
  ASSUME NEW n \in Nat, NEW S \in SUBSET (0 .. n), S # {}
  PROVE  \E x \in S : \A y \in S : y <= x
<1> DEFINE T == {n - x : x \in S}
<1>1. T \in SUBSET Nat /\ T # {} OBVIOUS
<1>2. PICK t \in T : \A u \in T : t <= u 
  <2> HIDE DEF T
  <2>1. QED BY <1>1, LeastElement
<1>3. PICK x \in S : t = n - x BY <1>2
<1>4. \A y \in S : n - y \in T OBVIOUS
<1>5. \A y \in S : n - x <= n - y BY <1>2, <1>3, <1>4
<1>6. \A y \in S : y \in Int /\ x \in Int
  <2>1. \A y \in S : y \in 0 .. n OBVIOUS
  <2>2. QED BY <2>1
<1>7. \A y \in S : y <= x BY <1>5, <1>6
<1>8. QED BY <1>7

(* Induction from 0 to n, over a set rather than a predicate.              *)
LEMMA UpToInduction ==
  ASSUME NEW n \in Nat, NEW S, 0 \in S, \A m \in 0 .. n : m \in S /\ m < n => m + 1 \in S
  PROVE  0 .. n \subseteq S
<1> DEFINE B == (0 .. n) \ S
<1> SUFFICES ASSUME B # {} PROVE FALSE
  OBVIOUS
<1>1. B \in SUBSET Nat OBVIOUS
<1>2. PICK x \in B : \A y \in B : x <= y 
  <2> HIDE DEF B
  <2>1. QED BY <1>1, LeastElement
<1>3. x \in 0 .. n /\ x \notin S /\ x # 0 OBVIOUS
<1>4. x - 1 \in 0 .. n /\ x - 1 < n /\ (x - 1) + 1 = x /\ ~(x <= x - 1) BY <1>3
<1>5. x - 1 \in S BY <1>2, <1>4
<1>6. QED BY <1>3, <1>4, <1>5

-----------------------------------------------------------------------------
(* The parser of .gitmodules, line by line.                                *)

ReadsTo(text, f) == f = [n \in 0 .. Len(text) |-> IF n = 0 THEN << >> ELSE ReadModuleLine(f[n - 1], text[n])]

LEMMA ParseReads ==
  ASSUME NEW text, NEW g, ReadsTo(text, g)
  PROVE  \E f : ReadsTo(text, f) /\ ParseGitmodules(text) = f[Len(text)]
<1>1. ReadsTo(text, CHOOSE f : ReadsTo(text, f)) OBVIOUS
<1>2. ParseGitmodules(text) = (CHOOSE f : ReadsTo(text, f))[Len(text)] BY DEF ParseGitmodules, ReadsTo
<1>3. QED BY <1>1, <1>2

(* What the parser has read of the first m lines.                          *)
ReadsUpTo(text, m, f) == f = [n \in 0 .. m |-> IF n = 0 THEN << >> ELSE ReadModuleLine(f[n - 1], text[n])]

LEMMA ParserIsDefined ==
  ASSUME NEW text, Len(text) \in Nat
  PROVE  \E f : /\ f[0] = << >> /\ ParseGitmodules(text) = f[Len(text)]
                /\ \A n \in 1 .. Len(text) : f[n] = ReadModuleLine(f[n - 1], text[n])
<1> DEFINE l == Len(text)
           S == {m \in 0 .. l : \E f : ReadsUpTo(text, m, f)}
<1> HIDE DEF l
<1>0. l \in Nat BY DEF l
<1>1. 0 \in S
  <2>1. ReadsUpTo(text, 0, [n \in 0 .. 0 |-> << >>]) BY DEF ReadsUpTo
  <2>2. QED BY <1>0, <2>1
<1>2. ASSUME NEW m \in 0 .. l, m \in S, m < l PROVE m + 1 \in S
  <2>1. PICK f : ReadsUpTo(text, m, f) BY <1>2
  <2> DEFINE g == [n \in 0 .. m + 1 |-> IF n = m + 1 THEN ReadModuleLine(f[m], text[m + 1]) ELSE f[n]]
  <2>2. m \in Nat /\ m + 1 \in 0 .. l BY <1>0, <1>2
  <2>3. \A n \in 0 .. m : g[n] = f[n] BY <2>2
  <2>4. ASSUME NEW n \in 0 .. m + 1
        PROVE  g[n] = IF n = 0 THEN << >> ELSE ReadModuleLine(g[n - 1], text[n])
    <3>1. CASE n = m + 1
      <4>1. n # 0 /\ n - 1 = m /\ m \in 0 .. m BY <2>2, <3>1
      <4>2. g[n] = ReadModuleLine(f[m], text[m + 1]) BY <2>2, <3>1
      <4>3. g[n - 1] = f[m] BY <2>3, <4>1
      <4>4. QED BY <3>1, <4>1, <4>2, <4>3
    <3>2. CASE n # m + 1
      <4>1. n \in 0 .. m /\ (n # 0 => n - 1 \in 0 .. m) BY <2>2, <3>2
      <4>2. f[n] = IF n = 0 THEN << >> ELSE ReadModuleLine(f[n - 1], text[n]) BY <2>1, <4>1 DEF ReadsUpTo
      <4>3. g[n] = f[n] /\ (n # 0 => g[n - 1] = f[n - 1]) BY <2>3, <4>1
      <4>4. QED BY <4>2, <4>3
    <3>3. QED BY <3>1, <3>2
  <2>5. g = [n \in 0 .. m + 1 |-> g[n]] OBVIOUS
  <2> HIDE DEF g
  <2>6. ReadsUpTo(text, m + 1, g) BY <2>4, <2>5 DEF ReadsUpTo
  <2>7. QED BY <2>2, <2>6
<1>3. l \in S
  <2> HIDE DEF S
  <2>1. 0 .. l \subseteq S BY <1>0, <1>1, <1>2, UpToInduction
  <2>2. l \in 0 .. l BY <1>0
  <2>3. QED BY <2>1, <2>2
<1>4. PICK g : ReadsUpTo(text, l, g) BY <1>3
<1>5. ReadsTo(text, g) BY <1>4 DEF ReadsTo, ReadsUpTo, l
<1>6. PICK f : ReadsTo(text, f) /\ ParseGitmodules(text) = f[l] BY <1>5, ParseReads DEF l
<1>7. f = [n \in 0 .. l |-> IF n = 0 THEN << >> ELSE ReadModuleLine(f[n - 1], text[n])] BY <1>6 DEF ReadsTo, l
<1>8. f[0] = << >> BY <1>0, <1>7
<1>9. ASSUME NEW n \in 1 .. l PROVE f[n] = ReadModuleLine(f[n - 1], text[n])
  <2>1. n \in 0 .. l /\ n # 0 BY <1>0
  <2>2. QED BY <1>7, <2>1
<1>10. QED BY <1>6, <1>8, <1>9 DEF l

-----------------------------------------------------------------------------
(* What it has read.                                                       *)

KeyValue == ModuleWord \X ModuleWord
SectionName == ModuleWord \union {"<preamble>", "<other>"}
OneSection == [name : SectionName, keys : Seq(KeyValue)]

Heads(text, i) == {j \in 1 .. i - 1 : text[j].form \in {"section", "inline", "other"}}

HeadOf(text, i) == CHOOSE j \in Heads(text, i) : \A k \in Heads(text, i) : k <= j

(* The name of the section that a key on line i goes to.                   *)
Under(text, i) ==
  IF Heads(text, i) = {} THEN "<preamble>"
  ELSE IF text[HeadOf(text, i)].form = "section" THEN text[HeadOf(text, i)].name ELSE "<other>"

PairAt(text, i) == <<text[i].key, text[i].value>>

IsKeyLine(text, i) == text[i].form = "key"

(* The sections that have been read of the lines before line i.            *)
HasRead(text, i, sections) ==
  /\ sections \in Seq(OneSection)
  /\ \A k \in 1 .. i - 1 : IsKeyLine(text, k) =>
       \E m \in DOMAIN sections : sections[m].name = Under(text, k) /\ PairAt(text, k) \in ToSet(sections[m].keys)
  /\ \A m \in DOMAIN sections : \A pair \in ToSet(sections[m].keys) :
       \E k \in 1 .. i - 1 : IsKeyLine(text, k) /\ sections[m].name = Under(text, k) /\ pair = PairAt(text, k)
  /\ sections = << >> => Heads(text, i) = {}
  /\ sections # << >> => sections[Len(sections)].name = Under(text, i)

LEMMA HeadsStep ==
  ASSUME NEW text \in Seq(ModuleLine), NEW i \in DOMAIN text
  PROVE  /\ i \in Nat /\ i >= 1 /\ 1 .. (i + 1) - 1 = (1 .. i - 1) \union {i}
         /\ text[i].form \in {"section", "inline", "other"} =>
              Heads(text, i + 1) # {} /\ HeadOf(text, i + 1) = i
         /\ text[i].form \notin {"section", "inline", "other"} => Under(text, i + 1) = Under(text, i)
                                                                  /\ Heads(text, i + 1) = Heads(text, i)
<1>1. i \in Nat /\ i >= 1 /\ 1 .. (i + 1) - 1 = (1 .. i - 1) \union {i} OBVIOUS
<1>2. CASE text[i].form \in {"section", "inline", "other"}
  <2> DEFINE H == Heads(text, i + 1)
  <2>1. i \in H /\ H \subseteq (1 .. i - 1) \union {i} BY <1>1, <1>2 DEF Heads
  <2> HIDE DEF H
  <2>2. \A j \in H : j \in Nat /\ j <= i BY <1>1, <2>1
  <2>3. \A j \in H : (\A k \in H : k <= j) <=> j = i BY <1>1, <2>1, <2>2
  <2>4. (CHOOSE j \in H : \A k \in H : k <= j) = i BY <2>1, <2>3
  <2>5. QED BY <1>1, <1>2, <2>1, <2>4 DEF H, HeadOf
<1>3. CASE text[i].form \notin {"section", "inline", "other"}
  <2>1. Heads(text, i + 1) = Heads(text, i) BY <1>1, <1>3 DEF Heads
  <2>2. HeadOf(text, i + 1) = HeadOf(text, i) BY <2>1 DEF HeadOf
  <2>3. Under(text, i + 1) = Under(text, i) BY <2>1, <2>2 DEF Under
  <2>4. QED BY <1>1, <1>3, <2>1, <2>3
<1>4. QED BY <1>2, <1>3

LEMMA OpensSection ==
  ASSUME NEW text \in Seq(ModuleLine), NEW i \in DOMAIN text, NEW sections, HasRead(text, i, sections),
         NEW name \in SectionName, name = Under(text, i + 1), ~IsKeyLine(text, i)
  PROVE  HasRead(text, i + 1, Opened(sections, name))
<1> DEFINE s == [name |-> name, keys |-> << >>]
           new == Append(sections, s)
<1>1. Opened(sections, name) = new BY DEF Opened
<1>2. s \in OneSection
  <2>1. << >> \in Seq(KeyValue) OBVIOUS
  <2>2. QED BY <2>1 DEF OneSection
<1>3. s.name = name /\ s.keys = << >> OBVIOUS
<1> HIDE DEF s
<1>4. sections \in Seq(OneSection) BY DEF HasRead
<1>5. /\ new \in Seq(OneSection) /\ Len(new) = Len(sections) + 1 /\ Len(sections) \in Nat
      /\ \A m \in 1 .. Len(sections) : new[m] = sections[m]
      /\ new[Len(sections) + 1] = s
  BY <1>2, <1>4, AppendProperties
<1>6. DOMAIN sections = 1 .. Len(sections) /\ DOMAIN new = 1 .. Len(sections) + 1 BY <1>4, <1>5
<1> HIDE DEF new
<1>7. \A m \in DOMAIN new : m \in DOMAIN sections \/ m = Len(sections) + 1 BY <1>5, <1>6
<1>8. DOMAIN sections \subseteq DOMAIN new BY <1>5, <1>6
<1>9. 1 .. (i + 1) - 1 = (1 .. i - 1) \union {i} BY HeadsStep
<1>10. ToSet(s.keys) = {} BY <1>3 DEF ToSet
<1>11. \A k \in 1 .. (i + 1) - 1 : IsKeyLine(text, k) =>
         \E m \in DOMAIN new : new[m].name = Under(text, k) /\ PairAt(text, k) \in ToSet(new[m].keys)
  BY <1>5, <1>6, <1>8, <1>9 DEF HasRead
<1>12. ASSUME NEW m \in DOMAIN new, NEW pair \in ToSet(new[m].keys)
       PROVE  \E k \in 1 .. (i + 1) - 1 : IsKeyLine(text, k) /\ new[m].name = Under(text, k) /\ pair = PairAt(text, k)
  <2>1. m \in DOMAIN sections BY <1>5, <1>7, <1>10, <1>12
  <2>2. new[m] = sections[m] BY <1>5, <1>6, <2>1
  <2>3. PICK k \in 1 .. i - 1 : IsKeyLine(text, k) /\ sections[m].name = Under(text, k) /\ pair = PairAt(text, k)
    BY <1>12, <2>1, <2>2 DEF HasRead
  <2>4. QED BY <1>9, <2>2, <2>3
<1>13. new # << >> /\ new[Len(new)].name = Under(text, i + 1) BY <1>3, <1>5
<1>14. HasRead(text, i + 1, new) BY <1>5, <1>11, <1>12, <1>13 DEF HasRead
<1>15. QED BY <1>1, <1>14

LEMMA PreambleReads ==
  ASSUME NEW text \in Seq(ModuleLine), NEW i \in DOMAIN text, HasRead(text, i, << >>)
  PROVE  HasRead(text, i, Opened(<< >>, "<preamble>"))
<1> DEFINE s == [name |-> "<preamble>", keys |-> << >>]
           new == <<s>>
<1>1. Opened(<< >>, "<preamble>") = new BY DEF Opened
<1>2. s \in OneSection
  <2>1. << >> \in Seq(KeyValue) OBVIOUS
  <2>2. QED BY <2>1 DEF OneSection, SectionName
<1>3. s.name = "<preamble>" /\ ToSet(s.keys) = {} BY DEF ToSet
<1> HIDE DEF s
<1>4. new \in Seq(OneSection) /\ DOMAIN new = {1} /\ Len(new) = 1 /\ new[1] = s BY <1>2
<1> HIDE DEF new
<1>5. Heads(text, i) = {} /\ Under(text, i) = "<preamble>" BY DEF HasRead, Under
<1>6. \A k \in 1 .. i - 1 : ~IsKeyLine(text, k)
  <2>1. DOMAIN << >> = {} OBVIOUS
  <2>2. QED BY <2>1 DEF HasRead
<1>7. QED BY <1>1, <1>3, <1>4, <1>5, <1>6 DEF HasRead

LEMMA TakesKey ==
  ASSUME NEW text \in Seq(ModuleLine), NEW i \in DOMAIN text, NEW s, HasRead(text, i, s), s # << >>,
         IsKeyLine(text, i),
         NEW new, new = [s EXCEPT ![Len(s)].keys = Append(@, PairAt(text, i))]
  PROVE  HasRead(text, i + 1, new)
<1> DEFINE n == Len(s)
           pair == PairAt(text, i)
<1>1. s \in Seq(OneSection) BY DEF HasRead
<1>2. n \in Nat /\ n >= 1 /\ n \in DOMAIN s /\ DOMAIN s = 1 .. n /\ s[n] \in OneSection BY <1>1
<1>3. pair \in KeyValue
  <2>1. text[i] \in ModuleLine OBVIOUS
  <2>2. text[i].key \in ModuleWord /\ text[i].value \in ModuleWord BY <2>1 DEF ModuleLine, IsKeyLine
  <2>3. QED BY <2>2 DEF KeyValue, PairAt
<1> HIDE DEF pair
<1> DEFINE keys == Append(s[n].keys, pair)
<1>4. s[n].keys \in Seq(KeyValue) /\ s[n].name \in SectionName BY <1>2 DEF OneSection
<1>5. keys \in Seq(KeyValue) /\ ToSet(keys) = ToSet(s[n].keys) \union {pair}
  <2> DEFINE old == s[n].keys
  <2>1. old \in Seq(KeyValue) /\ keys = Append(old, pair) BY <1>4
  <2> HIDE DEF old, keys
  <2>2. /\ keys \in Seq(KeyValue) /\ Len(keys) = Len(old) + 1 /\ Len(old) \in Nat
        /\ \A m \in 1 .. Len(old) : keys[m] = old[m]
        /\ keys[Len(old) + 1] = pair
    BY <1>3, <2>1, AppendProperties
  <2>3. DOMAIN keys = (1 .. Len(old)) \union {Len(old) + 1} /\ DOMAIN old = 1 .. Len(old) BY <2>1, <2>2
  <2>4. ToSet(keys) = ToSet(old) \union {pair} BY <2>2, <2>3 DEF ToSet
  <2>5. QED BY <2>2, <2>4 DEF old
<1>6. new = [m \in DOMAIN s |-> IF m = n THEN [s[n] EXCEPT !.keys = keys] ELSE s[m]] BY <1>2 DEF pair
<1> HIDE DEF keys
<1>7. [s[n] EXCEPT !.keys = keys] \in OneSection BY <1>2, <1>5 DEF OneSection
<1>8. /\ new \in Seq(OneSection) /\ DOMAIN new = DOMAIN s /\ Len(new) = n
      /\ \A m \in DOMAIN s : m # n => new[m] = s[m]
      /\ new[n].name = s[n].name /\ new[n].keys = keys
  <2>1. \A m \in DOMAIN s : s[m] \in OneSection BY <1>1
  <2>2. new \in [1 .. n -> OneSection] BY <1>2, <1>6, <1>7, <2>1
  <2>3. new \in Seq(OneSection) /\ Len(new) = n BY <1>2, <2>2
  <2>4. new[n] = [s[n] EXCEPT !.keys = keys] BY <1>2, <1>6
  <2>5. QED BY <1>2, <1>6, <2>3, <2>4 DEF OneSection
<1> HIDE DEF n
<1>9. 1 .. (i + 1) - 1 = (1 .. i - 1) \union {i} BY HeadsStep
<1>10. Under(text, i + 1) = Under(text, i) /\ s[n].name = Under(text, i) BY HeadsStep DEF HasRead, IsKeyLine, n
<1>11. \A m \in DOMAIN s : new[m].name = s[m].name /\ ToSet(s[m].keys) \subseteq ToSet(new[m].keys)
  BY <1>5, <1>8
<1>12. ASSUME NEW k \in 1 .. (i + 1) - 1, IsKeyLine(text, k)
       PROVE  \E m \in DOMAIN new : new[m].name = Under(text, k) /\ PairAt(text, k) \in ToSet(new[m].keys)
  <2>1. CASE k = i
    <3>1. n \in DOMAIN new /\ new[n].name = Under(text, k) BY <1>2, <1>8, <1>10, <2>1
    <3>2. PairAt(text, k) \in ToSet(new[n].keys) BY <1>5, <1>8, <2>1 DEF pair
    <3>3. QED BY <3>1, <3>2
  <2>2. CASE k # i
    <3>1. k \in 1 .. i - 1 BY <1>9, <1>12, <2>2
    <3>2. PICK m \in DOMAIN s : s[m].name = Under(text, k) /\ PairAt(text, k) \in ToSet(s[m].keys)
      BY <1>12, <3>1 DEF HasRead
    <3>3. QED BY <1>8, <1>11, <3>2
  <2>3. QED BY <2>1, <2>2
<1>13. ASSUME NEW m \in DOMAIN new, NEW p \in ToSet(new[m].keys)
       PROVE  \E k \in 1 .. (i + 1) - 1 : IsKeyLine(text, k) /\ new[m].name = Under(text, k) /\ p = PairAt(text, k)
  <2>1. CASE p \in ToSet(s[m].keys)
    <3>1. m \in DOMAIN s BY <1>8
    <3>2. \E k \in 1 .. i - 1 : IsKeyLine(text, k) /\ s[m].name = Under(text, k) /\ p = PairAt(text, k)
      BY <2>1, <3>1 DEF HasRead
    <3>3. QED BY <1>9, <1>11, <3>1, <3>2
  <2>2. CASE p \notin ToSet(s[m].keys)
    <3>1. m = n /\ p = pair BY <1>5, <1>8, <1>13, <2>2
    <3>2. QED BY <1>8, <1>9, <1>10, <3>1 DEF pair
  <2>3. QED BY <2>1, <2>2
<1>14. new # << >> /\ new[Len(new)].name = Under(text, i + 1) BY <1>2, <1>8, <1>10
<1>15. QED BY <1>8, <1>12, <1>13, <1>14 DEF HasRead

LEMMA ReadsLine ==
  ASSUME NEW text \in Seq(ModuleLine), NEW i \in DOMAIN text, NEW sections, HasRead(text, i, sections)
  PROVE  HasRead(text, i + 1, ReadModuleLine(sections, text[i]))
<1>1. text[i] \in ModuleLine OBVIOUS
<1>2. text[i].form \in {"section", "key", "inline", "other", "comment"} BY <1>1 DEF ModuleLine
<1>3. CASE text[i].form = "section"
  <2>1. text[i].name \in ModuleWord BY <1>1, <1>3 DEF ModuleLine
  <2>2. text[i].name = Under(text, i + 1) BY <1>3, HeadsStep DEF Under
  <2>3. ReadModuleLine(sections, text[i]) = Opened(sections, text[i].name) BY <1>3 DEF ReadModuleLine
  <2>4. ~IsKeyLine(text, i) /\ text[i].name \in SectionName BY <1>3, <2>1 DEF IsKeyLine, SectionName
  <2>5. QED BY <2>2, <2>3, <2>4, OpensSection
<1>4. CASE text[i].form \in {"inline", "other"}
  <2>1. Under(text, i + 1) = "<other>" BY <1>4, HeadsStep DEF Under
  <2>2. ReadModuleLine(sections, text[i]) = Opened(sections, "<other>") BY <1>4 DEF ReadModuleLine
  <2>3. ~IsKeyLine(text, i) /\ "<other>" \in SectionName BY <1>4 DEF IsKeyLine, SectionName
  <2>4. QED BY <2>1, <2>2, <2>3, OpensSection
<1>5. CASE text[i].form = "key"
  <2> DEFINE s == IF sections = << >> THEN Opened(<< >>, "<preamble>") ELSE sections
  <2>1. HasRead(text, i, s) /\ s # << >>
    <3>1. CASE sections = << >>
      <4>1. s = Opened(<< >>, "<preamble>") /\ s # << >> BY <3>1 DEF Opened
      <4>2. QED BY <3>1, <4>1, PreambleReads
    <3>2. CASE sections # << >> BY <3>2
    <3>3. QED BY <3>1, <3>2
  <2>2. ReadModuleLine(sections, text[i]) = [s EXCEPT ![Len(s)].keys = Append(@, PairAt(text, i))]
    BY <1>5 DEF ReadModuleLine, WithKey, PairAt
  <2> HIDE DEF s
  <2>3. QED BY <1>5, <2>1, <2>2, TakesKey DEF IsKeyLine
<1>6. CASE text[i].form = "comment"
  <2>1. ReadModuleLine(sections, text[i]) = sections BY <1>6 DEF ReadModuleLine
  <2>2. Under(text, i + 1) = Under(text, i) /\ Heads(text, i + 1) = Heads(text, i) BY <1>6, HeadsStep
  <2>3. 1 .. (i + 1) - 1 = (1 .. i - 1) \union {i} /\ ~IsKeyLine(text, i) BY <1>6, HeadsStep DEF IsKeyLine
  <2>4. ASSUME NEW k \in 1 .. (i + 1) - 1, IsKeyLine(text, k) PROVE k \in 1 .. i - 1 BY <2>3, <2>4
  <2>5. \A k \in 1 .. i - 1 : k \in 1 .. (i + 1) - 1 BY <2>3
  <2>6. HasRead(text, i + 1, sections) BY <2>2, <2>4, <2>5 DEF HasRead
  <2>7. QED BY <2>1, <2>6
<1>7. QED BY <1>2, <1>3, <1>4, <1>5, <1>6

LEMMA ParsedText ==
  ASSUME NEW text \in Seq(ModuleLine)
  PROVE  HasRead(text, Len(text) + 1, ParseGitmodules(text))
<1> DEFINE l == Len(text)
<1>0. l \in Nat /\ DOMAIN text = 1 .. l OBVIOUS
<1>1. PICK f : /\ f[0] = << >> /\ ParseGitmodules(text) = f[l]
               /\ \A n \in 1 .. l : f[n] = ReadModuleLine(f[n - 1], text[n])
  BY ParserIsDefined
<1> HIDE DEF l
<1> DEFINE S == {n \in 0 .. l : HasRead(text, n + 1, f[n])}
<1>2. 0 \in S
  <2>1. << >> \in Seq(OneSection) /\ DOMAIN << >> = {} /\ 1 .. (0 + 1) - 1 = {} OBVIOUS
  <2>2. Heads(text, 0 + 1) = {} BY DEF Heads
  <2>3. HasRead(text, 0 + 1, << >>) BY <2>1, <2>2 DEF HasRead
  <2>4. QED BY <1>0, <1>1, <2>3
<1>3. ASSUME NEW m \in 0 .. l, m \in S, m < l PROVE m + 1 \in S
  <2>1. HasRead(text, m + 1, f[m]) /\ m + 1 \in DOMAIN text /\ m + 1 \in 0 .. l /\ m + 1 \in 1 .. l /\ (m + 1) - 1 = m
    BY <1>0, <1>3
  <2>2. f[m + 1] = ReadModuleLine(f[m], text[m + 1]) BY <1>1, <2>1
  <2>3. HasRead(text, (m + 1) + 1, f[m + 1]) BY <2>1, <2>2, ReadsLine
  <2>4. QED BY <2>1, <2>3
<1>4. l \in S
  <2> HIDE DEF S
  <2>1. 0 .. l \subseteq S BY <1>0, <1>2, <1>3, UpToInduction
  <2>2. QED BY <1>0, <2>1
<1>5. QED BY <1>1, <1>4 DEF l

-----------------------------------------------------------------------------
(* What git reads of a text in plain forms.                                *)

LEMMA PlainBelongs ==
  ASSUME NEW text \in Seq(ModuleLine), PlainForms(text), NEW i \in DOMAIN text
  PROVE  /\ text[i].form # "inline" /\ (text[i].form = "key" => text[i].value # "quoted")
         /\ Belongs(text, i) # "nowhere" => Belongs(text, i) = Under(text, i)
         /\ Under(text, i) = "sv0cov" => Belongs(text, i) = "sv0cov"
<1>1. \A k \in DOMAIN text : text[k].form # "inline" /\ (text[k].form = "key" => text[k].value # "quoted")
  BY DEF PlainForms, ToSet
<1> DEFINE H == Heads(text, i)
<1>2. CASE H = {}
  <2>1. Belongs(text, i) = "nowhere" BY <1>1, <1>2 DEF Belongs, Heads
  <2>2. Under(text, i) = "<preamble>" BY <1>2 DEF Under
  <2>3. QED BY <1>1, <2>1, <2>2
<1>3. CASE H # {}
  <2>1. i \in Nat /\ H \subseteq 0 .. i /\ H \subseteq DOMAIN text BY DEF Heads
  <2>2. \E j \in H : \A k \in H : k <= j
    <3> HIDE DEF H
    <3>1. QED BY <1>3, <2>1, GreatestElement
  <2>3. HeadOf(text, i) \in H BY <2>2 DEF HeadOf
  <2>4. text[HeadOf(text, i)].form \in {"section", "other"} BY <1>1, <2>1, <2>3 DEF Heads
  <2>5. Belongs(text, i) = IF text[HeadOf(text, i)].form = "other" THEN "nowhere" ELSE text[HeadOf(text, i)].name
    BY <1>1, <1>3 DEF Belongs, Heads, HeadOf
  <2>6. Under(text, i) = IF text[HeadOf(text, i)].form = "section" THEN text[HeadOf(text, i)].name ELSE "<other>"
    BY <1>3 DEF Under
  <2>7. QED BY <1>1, <2>4, <2>5, <2>6
<1>4. QED BY <1>2, <1>3

(* The lines that give a key of a section its value.                       *)
Assigned(text, n, k) ==
  {i \in DOMAIN text : text[i].form \in {"key", "inline"} /\ Lower(text[i].key) = k /\ Belongs(text, i) = n}

LEMMA SaysLast ==
  ASSUME NEW text \in Seq(ModuleLine), NEW n, NEW k
  PROVE  /\ Assigned(text, n, k) = {} => Says(text, n, k) = "nothing"
         /\ Assigned(text, n, k) # {} => \E i \in Assigned(text, n, k) : Says(text, n, k) = text[i].value
<1> DEFINE P == Assigned(text, n, k)
           last == CHOOSE i \in P : \A j \in P : j <= i
<1>1. Says(text, n, k) = IF P = {} THEN "nothing" ELSE text[last].value BY DEF Says, Assigned
<1>2. Len(text) \in Nat /\ P \subseteq 0 .. Len(text) BY DEF Assigned
<1> HIDE DEF P
<1>3. ASSUME P # {} PROVE last \in P
  <2>1. \E i \in P : \A j \in P : j <= i BY <1>2, <1>3, GreatestElement
  <2>2. QED BY <2>1
<1>4. QED BY <1>1, <1>3 DEF P

LEMMA FitReadsOurs ==
  ASSUME tree.modules \in Seq(ModuleLine), PlainForms(tree.modules), ModulesFit
  PROVE  GitReadsOurs(tree.modules)
<1> DEFINE text == tree.modules
           sections == ParseGitmodules(text)
           exact == {m \in DOMAIN sections : sections[m].name = "sv0cov"}
<1>1. PICK x \in exact : exact = {x} /\ ExactKeys(sections[x].keys) BY DEF ModulesFit
<1>2. \A s \in ToSet(sections) : s.name # "sv0cov" => ~Alias(s) BY DEF ModulesFit
<1>3. HasRead(text, Len(text) + 1, sections) BY ParsedText
<1>4. text \in Seq(ModuleLine) /\ PlainForms(text) OBVIOUS
<1>5. ToSet(sections[x].keys) = {<<"path", "ours">>, <<"url", "ours">>} BY <1>1 DEF ExactKeys
<1>6. DOMAIN text = 1 .. (Len(text) + 1) - 1 BY <1>4
<1> HIDE DEF text, sections
<1>7. ASSUME NEW n, NEW k, NEW i \in Assigned(text, n, k), n # "nowhere"
      PROVE  /\ Lower(text[i].key) = k
             /\ \E m \in DOMAIN sections :
                  sections[m].name = n /\ <<text[i].key, text[i].value>> \in ToSet(sections[m].keys)
  <2>1. i \in DOMAIN text /\ Lower(text[i].key) = k /\ Belongs(text, i) = n BY <1>7 DEF Assigned
  <2>2. text[i].form = "key" /\ Under(text, i) = n BY <1>4, <1>7, <2>1, PlainBelongs DEF Assigned
  <2>3. PICK m \in DOMAIN sections : sections[m].name = Under(text, i) /\ PairAt(text, i) \in ToSet(sections[m].keys)
    BY <1>3, <1>6, <2>1, <2>2 DEF HasRead, IsKeyLine
  <2>4. QED BY <2>1, <2>2, <2>3 DEF PairAt
<1>8. ASSUME NEW k, NEW i \in Assigned(text, "sv0cov", k)
      PROVE  Lower(text[i].key) = k /\ text[i].key \in {"path", "url"} /\ text[i].value = "ours"
  <2>1. PICK m \in DOMAIN sections :
              sections[m].name = "sv0cov" /\ <<text[i].key, text[i].value>> \in ToSet(sections[m].keys)
    BY <1>7
  <2>2. m = x BY <1>1, <2>1
  <2>3. QED BY <1>5, <1>7, <2>1, <2>2
<1>9. ASSUME NEW k \in {"path", "url"} PROVE Says(text, "sv0cov", k) = "ours"
  <2>1. <<k, "ours">> \in ToSet(sections[x].keys) BY <1>5
  <2>2. x \in DOMAIN sections /\ sections[x].name = "sv0cov" BY <1>1
  <2>3. PICK j \in 1 .. (Len(text) + 1) - 1 : /\ IsKeyLine(text, j) /\ sections[x].name = Under(text, j)
                                              /\ <<k, "ours">> = PairAt(text, j)
    BY <1>3, <2>1, <2>2 DEF HasRead
  <2>4. j \in DOMAIN text /\ text[j].form = "key" /\ Under(text, j) = "sv0cov" /\ text[j].key = k
    BY <1>6, <2>2, <2>3 DEF IsKeyLine, PairAt
  <2>5. Belongs(text, j) = "sv0cov" BY <1>4, <2>4, PlainBelongs
  <2>6. Lower(k) = k BY DEF Lower
  <2>7. j \in Assigned(text, "sv0cov", k) BY <2>4, <2>5, <2>6 DEF Assigned
  <2>8. PICK i \in Assigned(text, "sv0cov", k) : Says(text, "sv0cov", k) = text[i].value BY <1>4, <2>7, SaysLast
  <2>9. QED BY <1>8, <2>8
<1>10. Says(text, "sv0cov", "branch") = "nothing"
  <2>1. Lower("path") = "path" /\ Lower("url") = "url" BY DEF Lower
  <2>2. Assigned(text, "sv0cov", "branch") = {} BY <1>8, <2>1
  <2>3. QED BY <1>4, <2>2, SaysLast
<1>11. ASSUME NEW n \in {"Sv0cov", "sv0c"}, NEW k \in {"path", "url"}
       PROVE  Says(text, n, k) \notin {"ours", "alias"}
  <2>1. CASE Assigned(text, n, k) = {} BY <1>4, <2>1, SaysLast
  <2>2. CASE Assigned(text, n, k) # {}
    <3>1. PICK i \in Assigned(text, n, k) : Says(text, n, k) = text[i].value BY <1>4, <2>2, SaysLast
    <3>2. Lower(text[i].key) = k BY <1>7
    <3>3. PICK m \in DOMAIN sections :
                sections[m].name = n /\ <<text[i].key, text[i].value>> \in ToSet(sections[m].keys)
      BY <1>7
    <3>4. sections[m] \in ToSet(sections) BY DEF ToSet
    <3>5. ~Alias(sections[m]) BY <1>2, <3>3, <3>4
    <3>6. QED BY <3>1, <3>2, <3>3, <3>5 DEF Alias
  <2>3. QED BY <2>1, <2>2
<1>12. GitReadsOurs(text) BY <1>9, <1>10, <1>11 DEF GitReadsOurs
<1>13. QED BY <1>12 DEF text

-----------------------------------------------------------------------------
(* The inductive invariant of the guards of the submodules.                *)

GitTyped ==
  /\ tree.modules \in Seq(ModuleLine)
  /\ tree = [readme |-> tree.readme, modules |-> tree.modules]
  /\ index = Staged(index.readme, index.modules, index.sv0c, index.sv0cov)

(* Nobody works in an unpacked archive, so that its commit is the released *)
(* one.                                                                    *)
ArchiveIsReleased ==
  ~isRepo => /\ commit.readme = commit.sv0c /\ IsSha(commit.sv0cov)
             /\ commit.modules = tree.modules /\ PlainForms(tree.modules)

GitInd == GitTyped /\ ArchiveIsReleased /\ CommitsNameTheirLinks

LEMMA GitInitInd == GitInit => GitInd
<1> SUFFICES ASSUME GitInit PROVE GitInd
  OBVIOUS
<1>1. PICK sha \in Sha : GitStartsFrom(sha) BY DEF GitInit
<1>2. Section("sv0cov") \in ModuleLine /\ Key("path", "ours") \in ModuleLine /\ Key("url", "ours") \in ModuleLine
  BY DEF ModuleLine, ModuleWord, Section, Key
<1>3. GoodModules \in Seq(ModuleLine) BY <1>2 DEF GoodModules
<1>4. PlainForms(GoodModules)
  <2>1. \A l \in ToSet(GoodModules) : l \in {Section("sv0cov"), Key("path", "ours"), Key("url", "ours")}
    BY DEF GoodModules, ToSet
  <2>2. QED BY <2>1 DEF PlainForms, Section, Key
<1>5. GitTyped BY <1>1, <1>3 DEF GitStartsFrom, GitTyped, Staged
<1>6. ArchiveIsReleased BY <1>1, <1>4 DEF GitStartsFrom, ArchiveIsReleased, Staged, IsSha
<1>7. CommitsNameTheirLinks BY <1>1 DEF GitStartsFrom, CommitsNameTheirLinks
<1>8. QED BY <1>5, <1>6, <1>7 DEF GitInd

LEMMA WorkKeeps ==
  ASSUME GitInd, Work, GitTyped', isRepo' = isRepo
  PROVE  GitInd'
<1>1. isRepo /\ commit' = commit /\ judgement' = judgement /\ whole' = whole BY DEF Work
<1>2. ArchiveIsReleased' BY <1>1 DEF ArchiveIsReleased
<1>3. CommitsNameTheirLinks' BY <1>1 DEF GitInd, CommitsNameTheirLinks
<1>4. QED BY <1>2, <1>3 DEF GitInd

LEMMA CommitKeeps ==
  ASSUME GitInd, Commit
  PROVE  GitInd'
<1> DEFINE green == ReadmeFits /\ ModulesFit /\ SubmoduleFits
<1>1. UNCHANGED <<tree, index, covHead, isRepo, work>> /\ judgement' = IF green THEN "green" ELSE "red"
  BY DEF Commit
<1>2. GitTyped' BY <1>1 DEF GitInd, GitTyped
<1>3. CASE green /\ isRepo
  <2>1. commit' = index /\ (whole' = (/\ whole /\ IsSha(index.sv0c) /\ PlainForms(tree.modules)
                                      /\ tree.readme = index.readme /\ tree.modules = index.modules))
    BY <1>3 DEF Commit
  <2>2. ArchiveIsReleased' BY <1>1, <1>3 DEF ArchiveIsReleased
  <2>3. ASSUME whole' PROVE index.readme = index.sv0c /\ IsSha(index.sv0cov) /\ GitReadsOurs(index.modules)
    <3>1. IsSha(index.sv0c) /\ PlainForms(tree.modules) /\ tree.readme = index.readme /\ tree.modules = index.modules
      BY <2>1, <2>3
    <3>2. index.readme = index.sv0c BY <1>3, <3>1 DEF ReadmeFits, EffectiveGitlink
    <3>3. IsSha(index.sv0cov) BY <1>3 DEF SubmoduleFits
    <3>4. GitReadsOurs(tree.modules) BY <1>3, <3>1, FitReadsOurs DEF GitInd, GitTyped
    <3>5. QED BY <3>1, <3>2, <3>3, <3>4
  <2>4. CommitsNameTheirLinks' BY <2>1, <2>3 DEF CommitsNameTheirLinks
  <2>5. QED BY <1>2, <2>2, <2>4 DEF GitInd
<1>4. CASE ~(green /\ isRepo)
  <2>1. commit' = commit /\ whole' = whole BY <1>4 DEF Commit
  <2>2. ArchiveIsReleased' BY <1>1, <2>1 DEF GitInd, ArchiveIsReleased
  <2>3. ASSUME green, ~isRepo
        PROVE  commit.readme = commit.sv0c /\ IsSha(commit.sv0cov) /\ GitReadsOurs(commit.modules)
    <3>1. /\ commit.readme = commit.sv0c /\ IsSha(commit.sv0cov)
          /\ commit.modules = tree.modules /\ PlainForms(tree.modules)
      BY <2>3 DEF GitInd, ArchiveIsReleased
    <3>2. GitReadsOurs(tree.modules) BY <2>3, <3>1, FitReadsOurs DEF GitInd, GitTyped
    <3>3. QED BY <3>1, <3>2
  <2>4. CommitsNameTheirLinks' BY <1>1, <1>4, <2>1, <2>3 DEF CommitsNameTheirLinks
  <2>5. QED BY <1>2, <2>2, <2>4 DEF GitInd
<1>5. QED BY <1>3, <1>4

(* A commit that the guards let through names the compiler it pins and has *)
(* sv0cov where git, too, reads it (Commit, Work).                         *)
THEOREM LinksAreNamed == GitSpec => []CommitsNameTheirLinks
<1>1. GitInit => GitInd BY GitInitInd
<1>2. GitInd /\ [GitNext]_gitVars => GitInd'
  <2> SUFFICES ASSUME GitInd, [GitNext]_gitVars PROVE GitInd'
    OBVIOUS
  <2> USE DEF GitInd
  <2>1. CASE EditReadme
    <3>1. GitTyped' BY <2>1 DEF EditReadme, GitTyped
    <3>2. QED BY <2>1, <3>1, WorkKeeps DEF EditReadme, Work
  <2>2. CASE EditModules
    <3>1. GitTyped' BY <2>2, ModulesAssumption DEF EditModules, GitTyped
    <3>2. QED BY <2>2, <3>1, WorkKeeps DEF EditModules, Work
  <2>3. CASE AddFiles
    <3>1. GitTyped' BY <2>3 DEF AddFiles, GitTyped, Staged
    <3>2. QED BY <2>3, <3>1, WorkKeeps DEF AddFiles, Work
  <2>4. CASE AddSubmodule
    <3>1. GitTyped' BY <2>4 DEF AddSubmodule, GitTyped, Staged
    <3>2. QED BY <2>4, <3>1, WorkKeeps DEF AddSubmodule, Work
  <2>5. CASE CheckoutCov
    <3>1. GitTyped' BY <2>5 DEF CheckoutCov, GitTyped
    <3>2. QED BY <2>5, <3>1, WorkKeeps DEF CheckoutCov, Work
  <2>6. CASE Commit BY <2>6, CommitKeeps
  <2>7. CASE UNCHANGED gitVars
    <3>1. GitTyped' /\ ArchiveIsReleased' BY <2>7 DEF gitVars, GitTyped, ArchiveIsReleased
    <3>2. CommitsNameTheirLinks' BY <2>7 DEF gitVars, CommitsNameTheirLinks
    <3>3. QED BY <3>1, <3>2
  <2>8. QED BY <2>1, <2>2, <2>3, <2>4, <2>5, <2>6, <2>7 DEF GitNext
<1>3. GitInd => CommitsNameTheirLinks BY DEF GitInd
<1>4. QED BY <1>1, <1>2, <1>3, PTL DEF GitSpec

-----------------------------------------------------------------------------
(* SourceGuards: the scan, symbol by symbol.                               *)

LEMMA ScanSteps ==
  ASSUME NEW text, Len(text) \in Nat, NEW quotes, NEW broken
  PROVE  /\ Scanned(text, quotes, broken)[0] = Code
         /\ \A i \in 1 .. Len(text) :
              Scanned(text, quotes, broken)[i] =
                ScanOn(Scanned(text, quotes, broken)[i - 1], text, i, quotes, broken)
<1> DEFINE l == Len(text)
           Step(was, i) == ScanOn(was, text, i, quotes, broken)
           Upto(m, f) == f = [i \in 0 .. m |-> IF i = 0 THEN Code ELSE Step(f[i - 1], i)]
           S == {m \in 0 .. l : \E f : Upto(m, f)}
<1>1. Scanned(text, quotes, broken) = CHOOSE f : Upto(l, f) BY DEF Scanned
<1> HIDE DEF l, Step
<1>0. l \in Nat BY DEF l
<1>2. 0 \in S
  <2>1. Upto(0, [i \in 0 .. 0 |-> Code]) OBVIOUS
  <2>2. \E f : Upto(0, f) BY <2>1, Zenon
  <2>3. QED BY <1>0, <2>2
<1>3. ASSUME NEW m \in 0 .. l, m \in S, m < l PROVE m + 1 \in S
  <2>1. PICK f : Upto(m, f) BY <1>3
  <2> DEFINE g == [i \in 0 .. m + 1 |-> IF i = m + 1 THEN Step(f[m], m + 1) ELSE f[i]]
  <2>2. m \in Nat /\ m + 1 \in 0 .. l BY <1>0, <1>3
  <2>3. \A i \in 0 .. m : g[i] = f[i] BY <2>2
  <2>4. ASSUME NEW i \in 0 .. m + 1
        PROVE  g[i] = IF i = 0 THEN Code ELSE Step(g[i - 1], i)
    <3>1. CASE i = m + 1
      <4>1. i # 0 /\ i - 1 = m /\ m \in 0 .. m BY <2>2, <3>1
      <4>2. g[i] = Step(f[m], m + 1) BY <2>2, <3>1
      <4>3. g[i - 1] = f[m] BY <2>3, <4>1
      <4>4. QED BY <3>1, <4>1, <4>2, <4>3
    <3>2. CASE i # m + 1
      <4>1. i \in 0 .. m /\ (i # 0 => i - 1 \in 0 .. m) BY <2>2, <3>2
      <4>2. f[i] = IF i = 0 THEN Code ELSE Step(f[i - 1], i) BY <2>1, <4>1
      <4>3. g[i] = f[i] /\ (i # 0 => g[i - 1] = f[i - 1]) BY <2>3, <4>1
      <4>4. QED BY <4>2, <4>3
    <3>3. QED BY <3>1, <3>2
  <2>5. g = [i \in 0 .. m + 1 |-> g[i]] OBVIOUS
  <2> HIDE DEF g
  <2>6. Upto(m + 1, g) BY <2>4, <2>5
  <2>7. QED BY <2>2, <2>6
<1>4. \E f : Upto(l, f)
  <2>1. 0 .. l \subseteq S 
    <3> HIDE DEF S
    <3>1. QED BY <1>0, <1>2, <1>3, UpToInduction
  <2>2. l \in 0 .. l BY <1>0
  <2>3. QED BY <2>1, <2>2
<1> DEFINE scan == Scanned(text, quotes, broken)
<1> HIDE DEF scan
<1>5. Upto(l, scan) BY <1>1, <1>4 DEF scan
<1>6. scan[0] = Code BY <1>0, <1>5
<1>7. ASSUME NEW i \in 1 .. l PROVE scan[i] = Step(scan[i - 1], i)
  <2>1. i \in 0 .. l /\ i # 0 BY <1>0
  <2>2. QED BY <1>5, <2>1
<1>8. QED BY <1>6, <1>7 DEF scan, l, Step

-----------------------------------------------------------------------------
(* The signatures, the dead store, the lists and the slices.               *)

LEMMA EarliestIs ==
  ASSUME NEW S \in SUBSET Nat, S # {}
  PROVE  Earliest(S) \in S /\ \A j \in S : Earliest(S) <= j
<1>1. \E x \in S : \A y \in S : x <= y BY LeastElement
<1>2. QED BY <1>1 DEF Earliest

LEMMA SignedIsRead ==
  ASSUME NEW e, NEW S, e.message \in Seq(S)
  PROVE  LET signed == {i \in DOMAIN e.message : Attributes(e.message[i])}
         IN /\ NobodyElseSigned(e) => \A i \in signed : IsCommitted(e, i) => e.given /\ e.message[i].hash
            /\ ~NobodyElseSigned(e) => \E i \in signed : \/ IsCommitted(e, i)
                                                         \/ \E j \in 1 .. i : e.message[j].kind = "scissors"
<1>1. \A i \in DOMAIN e.message : ~e.message[i].hash => e.message[i] \in MessageBody(e.message)
  BY DEF MessageBody, ToSet
<1>2. \A l \in MessageBody(e.message) : \E i \in DOMAIN e.message : l = e.message[i] /\ ~l.hash
  BY DEF MessageBody, ToSet
<1>3. QED BY <1>1, <1>2 DEF NobodyElseSigned, IsCommitted

LEMMA StoreIsRead ==
  ASSUME NEW e, NEW S, e.asm \in Seq(S), FillSurvives(e)
  PROVE  \E i, j \in DOMAIN e.asm :
           /\ e.asm[i] = <<"label", "explicit">> /\ e.asm[j][1] = "store" /\ i < j
           /\ \A k \in i + 1 .. j : ~IsLabel(e.asm[k])
<1> DEFINE asm == e.asm
           labels == LabelsOf(asm, "explicit")
           first == Earliest(labels)
           later == {i \in first + 1 .. Len(asm) : IsLabel(asm[i])}
<1>1. Len(asm) \in Nat /\ DOMAIN asm = 1 .. Len(asm) OBVIOUS
<1>2. labels # {} /\ labels \in SUBSET Nat BY <1>1 DEF FillSurvives, LabelsOf
<1>3. first \in labels BY <1>2, EarliestIs
<1>4. first \in 1 .. Len(asm) /\ asm[first] = <<"label", "explicit">> BY <1>1, <1>3 DEF LabelsOf
<1>5. PICK j \in FunctionLines(asm, "explicit") : asm[j][1] = "store" BY DEF FillSurvives
<1>6. later \in SUBSET Nat BY <1>1, <1>4
<1>7. later # {} => /\ Earliest(later) \in later
                    /\ \A k \in later : Earliest(later) <= k
  <2> HIDE DEF later
  <2>1. QED BY <1>6, EarliestIs
<1>8. FunctionLines(asm, "explicit") = first .. (IF later = {} THEN Len(asm) ELSE Earliest(later) - 1)
  BY DEF FunctionLines
<1>9. asm[first][1] = "label" BY <1>4
<1>10. j # first BY <1>5, <1>9
<1> HIDE DEF first, asm
<1>11. j \in first + 1 .. Len(asm) /\ \A k \in first + 1 .. j : ~IsLabel(asm[k])
  <2>1. CASE later = {}
    <3>1. j \in first .. Len(asm) BY <1>5, <1>8, <2>1
    <3>2. j \in first + 1 .. Len(asm) BY <1>1, <1>4, <1>10, <3>1
    <3>3. \A k \in first + 1 .. j : k \in first + 1 .. Len(asm) BY <1>1, <1>4, <3>2
    <3>4. QED BY <2>1, <3>2, <3>3
  <2>2. CASE later # {}
    <3> DEFINE stop == Earliest(later)
    <3>1. stop \in first + 1 .. Len(asm) /\ \A k \in later : stop <= k BY <1>7, <2>2
    <3>2. j \in first .. stop - 1 BY <1>5, <1>8, <2>2
    <3> HIDE DEF stop
    <3>3. j \in first + 1 .. Len(asm) /\ j < stop BY <1>1, <1>4, <1>10, <3>1, <3>2
    <3>4. \A k \in first + 1 .. j : k \in first + 1 .. Len(asm) /\ ~(stop <= k) BY <1>1, <1>4, <3>1, <3>3
    <3>5. QED BY <3>1, <3>3, <3>4
  <2>3. QED BY <2>1, <2>2
<1>12. first \in DOMAIN asm /\ j \in DOMAIN asm /\ first < j BY <1>1, <1>4, <1>11
<1>13. QED BY <1>4, <1>5, <1>11, <1>12 DEF asm

LEMMA ListsAreAlike ==
  ASSUME NEW e, TypedPlainly(e),
         \A list \in {e.manifest, e.sources, e.tier} : \A l \in FileLines(list.text) : l.pad \in BOOLEAN
  PROVE  LET first == ParityCompares(e.manifest)
             second == ParityCompares(e.tier)
         IN /\ ManifestIsListed(e) => first \subseteq BootstrapFills(e)
            /\ TierIsGolden(e) => second # {} /\ second \subseteq first /\ \A x \in second : x.file \in e.golden
            /\ (\A list \in {e.manifest, e.sources, e.tier} : list.there) =>
                 /\ ~ManifestIsListed(e) => FileLines(e.sources.text) = {} \/ ~(first \subseteq BootstrapFills(e))
                 /\ ~TierIsGolden(e) => second = {} \/ \E x \in second : x \notin first \/ x.file \notin e.golden
<1> DEFINE Plain(list) == {Entry(l, FALSE, "none") : l \in FileLines(list.text)}
<1>1. \A list \in {e.manifest, e.sources, e.tier} :
        /\ LoadPaths(list.text) = Plain(list)
        /\ PolicyLines(list.text) = Plain(list)
        /\ list.there => ParityCompares(list) = Plain(list)
  <2> SUFFICES ASSUME NEW list \in {e.manifest, e.sources, e.tier}
               PROVE /\ LoadPaths(list.text) = Plain(list)
                     /\ PolicyLines(list.text) = Plain(list)
                     /\ list.there => ParityCompares(list) = Plain(list)
    OBVIOUS
  <2>1. \A l \in FileLines(list.text) : l.gap = "none" BY DEF TypedPlainly
  <2>2. \A l \in FileLines(list.text) : Entry(l, FALSE, l.gap) = Entry(l, FALSE, "none") BY <2>1
  <2>3. LoadPaths(list.text) = Plain(list) BY <2>2 DEF LoadPaths
  <2>4. \A l \in FileLines(list.text) :
          Entry(l, FALSE, IF l.gap = "space" THEN "none" ELSE l.gap) = Entry(l, FALSE, "none") BY <2>1
  <2>5. PolicyLines(list.text) = Plain(list) BY <2>4 DEF PolicyLines
  <2>6. QED BY <2>3, <2>5 DEF ParityCompares
<1>2. \A x \in Plain(e.tier) : x.gap = "none" BY DEF Entry
<1>3. e.sources.there => BootstrapFills(e) = IF Plain(e.sources) = {}
                                             THEN {[file |-> f, pad |-> FALSE, gap |-> "none"] : f \in e.lib}
                                             ELSE Plain(e.sources)
  <2>1. \A l \in FileLines(e.sources.text) : l.pad = FALSE /\ l.gap = "none" BY DEF TypedPlainly
  <2>2. \A l \in FileLines(e.sources.text) : Entry(l, l.pad, l.gap) = Entry(l, FALSE, "none") BY <2>1
  <2>3. {Entry(l, l.pad, l.gap) : l \in FileLines(e.sources.text)} = Plain(e.sources) BY <2>2
  <2>4. QED BY <2>3 DEF BootstrapFills
<1>4. Plain(e.sources) = {} <=> FileLines(e.sources.text) = {} OBVIOUS
<1>5. ManifestIsListed(e) <=> e.manifest.there /\ e.sources.there /\ Plain(e.manifest) \subseteq Plain(e.sources)
  BY <1>1 DEF ManifestIsListed
<1>6. TierIsGolden(e) <=> /\ e.tier.there /\ e.manifest.there
                          /\ Plain(e.tier) # {}
                          /\ \A x \in Plain(e.tier) : x \in Plain(e.manifest) /\ x.file \in e.golden
  BY <1>1, <1>2 DEF TierIsGolden
<1>7. /\ e.manifest.there => ParityCompares(e.manifest) = Plain(e.manifest)
      /\ e.tier.there => ParityCompares(e.tier) = Plain(e.tier)
  BY <1>1
<1> HIDE DEF Plain
<1>8. QED BY <1>3, <1>4, <1>5, <1>6, <1>7

LEMMA SlicesAreRead ==
  ASSUME NEW e, SlicesAreFree(e), "M3-S-014" \in e.activeSlices
  PROVE  NoRaise(e)
BY DEF SlicesAreFree, NoRaise, SliceFiles

-----------------------------------------------------------------------------
(* Where comments end.                                                     *)

LexOn(text, was, i) == ScanOn(was, text, i, {"quote", "tick"}, {})

LexState == [in : {"code", "line", "block", "quote", "tick"}, depth : Int, half : BOOLEAN]

OpensAt(text, i) == text[i] = "/" /\ i < Len(text) /\ text[i + 1] = "*"

ShutsAt(text, i) == text[i] = "*" /\ i < Len(text) /\ text[i + 1] = "/"

(* One symbol more, as far as comments go.                                 *)
Moves(text, i, was, now) ==
  /\ was \in LexState /\ now \in LexState
  /\ was.half => now.in = was.in /\ now.depth = was.depth /\ ~now.half
  /\ ~was.half /\ was.in = "block" =>
       /\ OpensAt(text, i) => now.in = "block" /\ now.half /\ now.depth = was.depth + 1
       /\ ~OpensAt(text, i) /\ ShutsAt(text, i) => now.in = IF was.depth = 1 THEN "code" ELSE "block"
       /\ ~OpensAt(text, i) /\ ~ShutsAt(text, i) => now = was
  /\ ~was.half /\ was.in # "block" /\ now.in = "block" =>
       was.in = "code" /\ OpensAt(text, i) /\ now.depth = 1 /\ now.half

LEMMA LexerStep ==
  ASSUME NEW text, NEW was \in LexState, NEW i
  PROVE  Moves(text, i, was, LexOn(text, was, i))
<1> DEFINE on == LexOn(text, was, i)
<1>1. ASSUME was.half PROVE on \in LexState /\ on.in = was.in /\ on.depth = was.depth /\ on.half = FALSE
  BY <1>1 DEF LexOn, ScanOn, LexState
<1>2. ASSUME ~was.half, was.in = "block", OpensAt(text, i)
      PROVE  on \in LexState /\ on.in = "block" /\ on.depth = was.depth + 1 /\ on.half = TRUE
  <2>1. on = [was EXCEPT !.depth = @ + 1, !.half = TRUE] BY <1>2 DEF LexOn, ScanOn, OpensAt
  <2> DEFINE deeper == [was EXCEPT !.depth = was.depth + 1]
  <2>2. deeper \in LexState /\ deeper.in = was.in /\ deeper.depth = was.depth + 1 BY DEF LexState
  <2>3. on = [deeper EXCEPT !.half = TRUE] BY <2>1
  <2> HIDE DEF deeper, on
  <2>4. on \in LexState /\ on.in = deeper.in /\ on.depth = deeper.depth /\ on.half = TRUE BY <2>2, <2>3 DEF LexState
  <2>5. QED BY <1>2, <2>2, <2>4
<1>3. ASSUME ~was.half, was.in = "block", ~OpensAt(text, i), ShutsAt(text, i)
      PROVE  on \in LexState /\ on.in = IF was.depth = 1 THEN "code" ELSE "block"
  <2>1. on = [in |-> IF was.depth = 1 THEN "code" ELSE "block", depth |-> was.depth - 1, half |-> TRUE]
    BY <1>3 DEF LexOn, ScanOn, OpensAt, ShutsAt
  <2>2. QED BY <1>3, <2>1 DEF LexState
<1>4. ASSUME ~was.half, was.in = "block", ~OpensAt(text, i), ~ShutsAt(text, i)
      PROVE  on = was
  BY <1>4 DEF LexOn, ScanOn, OpensAt, ShutsAt
<1>5. ASSUME ~was.half, was.in # "block"
      PROVE  /\ on \in LexState
             /\ on.in = "block" => was.in = "code" /\ OpensAt(text, i) /\ on.depth = 1 /\ on.half = TRUE
  <2>1. CASE was.in = "line"
    <3>1. on = IF text[i] = "nl" THEN Code ELSE was BY <1>5, <2>1 DEF LexOn, ScanOn
    <3>2. QED BY <2>1, <3>1 DEF Code, LexState
  <2>2. CASE was.in \in {"quote", "tick"}
    <3>1. on = [was EXCEPT !.half = TRUE] \/ on = Code \/ on = was BY <1>5, <2>2 DEF LexOn, ScanOn
    <3>2. [was EXCEPT !.half = TRUE] \in LexState /\ [was EXCEPT !.half = TRUE].in = was.in BY DEF LexState
    <3>3. Code \in LexState /\ Code.in = "code" BY DEF Code, LexState
    <3>4. QED BY <2>2, <3>1, <3>2, <3>3
  <2>3. CASE was.in = "code"
    <3>1. \/ OpensAt(text, i) /\ on = [in |-> "block", depth |-> 1, half |-> TRUE]
          \/ on = [Code EXCEPT !.in = "line"]
          \/ text[i] \in {"quote", "tick"} /\ on = [Code EXCEPT !.in = text[i]]
          \/ on = was
      BY <1>5, <2>3 DEF LexOn, ScanOn, OpensAt
    <3>2. ASSUME NEW c \in {"line", "quote", "tick"}
          PROVE  [Code EXCEPT !.in = c] \in LexState /\ [Code EXCEPT !.in = c].in # "block"
      <4>1. Code \in LexState BY DEF Code, LexState
      <4>2. [Code EXCEPT !.in = c].in = c BY <4>1 DEF LexState
      <4>3. QED BY <4>1, <4>2 DEF LexState
    <3>3. [in |-> "block", depth |-> 1, half |-> TRUE] \in LexState BY DEF LexState
    <3> HIDE DEF on
    <3>4. CASE OpensAt(text, i) /\ on = [in |-> "block", depth |-> 1, half |-> TRUE] BY <2>3, <3>3, <3>4
    <3>5. CASE on = [Code EXCEPT !.in = "line"] BY <3>2, <3>5
    <3>6. CASE text[i] \in {"quote", "tick"} /\ on = [Code EXCEPT !.in = text[i]] BY <3>2, <3>6
    <3>7. CASE on = was BY <2>3, <3>7
    <3>8. QED BY <3>1, <3>4, <3>5, <3>6, <3>7
  <2>4. QED BY <1>5, <2>1, <2>2, <2>3 DEF LexState
<1> HIDE DEF on
<1>6. QED BY <1>1, <1>2, <1>3, <1>4, <1>5 DEF on, Moves

LEMMA LexerMoves ==
  ASSUME NEW text, Len(text) \in Nat
  PROVE  /\ LexerScan(text)[0] = Code
         /\ \A i \in 0 .. Len(text) : LexerScan(text)[i] \in LexState
         /\ \A i \in 1 .. Len(text) : Moves(text, i, LexerScan(text)[i - 1], LexerScan(text)[i])
<1> DEFINE l == Len(text)
           scan == LexerScan(text)
           S == {k \in 0 .. l : scan[k] \in LexState}
<1>1. scan[0] = Code /\ \A i \in 1 .. l : scan[i] = LexOn(text, scan[i - 1], i)
  BY ScanSteps DEF LexerScan, LexOn
<1> HIDE DEF l, scan
<1>2. l \in Nat BY DEF l
<1>3. 0 \in S
  <2>1. Code \in LexState BY DEF Code, LexState
  <2>2. QED BY <1>1, <1>2, <2>1
<1>4. ASSUME NEW i \in 1 .. l, scan[i - 1] \in LexState PROVE Moves(text, i, scan[i - 1], scan[i])
  <2> DEFINE was == scan[i - 1]
  <2>1. was \in LexState /\ scan[i] = LexOn(text, was, i) BY <1>1, <1>4
  <2> HIDE DEF was
  <2>2. Moves(text, i, was, LexOn(text, was, i)) BY <2>1, LexerStep
  <2>3. QED BY <2>1, <2>2 DEF was
<1>5. ASSUME NEW k \in 0 .. l, k \in S, k < l PROVE k + 1 \in S
  <2>1. k + 1 \in 1 .. l /\ k + 1 \in 0 .. l /\ (k + 1) - 1 = k BY <1>2, <1>5
  <2>2. scan[k] \in LexState BY <1>5
  <2>3. Moves(text, k + 1, scan[k], scan[k + 1]) BY <1>4, <2>1, <2>2
  <2>4. QED BY <2>1, <2>3 DEF Moves
<1>6. 0 .. l \subseteq S
  <2> HIDE DEF S
  <2>1. QED BY <1>2, <1>3, <1>5, UpToInduction
<1>7. ASSUME NEW i \in 1 .. l PROVE i - 1 \in 0 .. l BY <1>2
<1>8. QED BY <1>1, <1>4, <1>6, <1>7 DEF l, scan

(* In a comment that nobody has opened again, the scan is where one of its *)
(* own beginning put it.                                                   *)
BegunAt(text, at_, i, k) ==
  /\ i \in 1 .. k /\ at_[i - 1].in = "code" /\ ~at_[i - 1].half /\ OpensAt(text, i)
  /\ at_[i].in = "block"
  /\ at_[k].in = "block" /\ at_[k].depth = 1 /\ (at_[k].half <=> k = i)
  /\ \A j \in i + 2 .. k : ~ShutsAt(text, j)

LEMMA FlatSoFar ==
  ASSUME NEW text, Len(text) \in Nat, NEW n \in 0 .. Len(text), n < Len(text),
         \A i \in 1 .. n : i \notin NestedOpens(text), LexerScan(text)[n].in = "block"
  PROVE  \E i : BegunAt(text, LexerScan(text), i, n)
<1> DEFINE l == Len(text)
           scan == LexerScan(text)
           S == {k \in 0 .. n : scan[k].in = "block" => \E i : BegunAt(text, scan, i, k)}
<1> HIDE DEF scan, l
<1>1. scan[0] = Code /\ \A i \in 1 .. l : Moves(text, i, scan[i - 1], scan[i])
  BY LexerMoves DEF l, scan
<1>2. l \in Nat /\ n \in Nat /\ n < l BY DEF l
<1>3. 0 \in S BY <1>1, <1>2 DEF Code
<1>4. ASSUME NEW k \in 0 .. n, k \in S, k < n PROVE k + 1 \in S
  <2> SUFFICES ASSUME scan[k + 1].in = "block" PROVE \E i : BegunAt(text, scan, i, k + 1)
    BY <1>2, <1>4
  <2>1. /\ k \in Nat /\ k + 1 \in 1 .. n /\ k + 1 \in 1 .. l - 1 /\ k + 1 \in 1 .. l /\ (k + 1) - 1 = k
        /\ k \in 0 .. l
    BY <1>2, <1>4
  <2>2. Moves(text, k + 1, scan[k], scan[k + 1]) BY <1>1, <2>1
  <2>3. CASE scan[k].in = "block"
    <3>1. PICK i : BegunAt(text, scan, i, k) BY <1>4, <2>3
    <3>2. i \in 1 .. k /\ scan[k].depth = 1 /\ (scan[k].half <=> k = i) BY <3>1 DEF BegunAt
    <3>3. CASE k = i
      <4>1. scan[k + 1].depth = 1 /\ ~scan[k + 1].half BY <2>2, <3>2, <3>3 DEF Moves
      <4>2. i \in 1 .. k + 1 /\ k + 1 # i /\ i + 2 .. k + 1 = {} BY <2>1, <3>2, <3>3
      <4>3. BegunAt(text, scan, i, k + 1) BY <3>1, <4>1, <4>2 DEF BegunAt
      <4>4. QED BY <4>3
    <3>4. CASE k # i
      <4>1. ~scan[k].half BY <3>2, <3>4
      <4>2. ~OpensAt(text, k + 1)
        <5>1. k + 1 \notin NestedOpens(text) BY <2>1
        <5>2. QED BY <2>1, <2>3, <4>1, <5>1 DEF NestedOpens, OpensAt, scan, l
      <4>3. ~ShutsAt(text, k + 1)
        <5> SUFFICES ASSUME ShutsAt(text, k + 1) PROVE FALSE
          OBVIOUS
        <5>1. scan[k + 1].in = "code" BY <2>2, <2>3, <3>2, <4>1, <4>2 DEF Moves
        <5>2. QED BY <5>1
      <4>4. scan[k + 1] = scan[k] BY <2>2, <2>3, <4>1, <4>2, <4>3 DEF Moves
      <4>5. i \in 1 .. k + 1 /\ k + 1 # i /\ \A j \in i + 2 .. k + 1 : j \in i + 2 .. k \/ j = k + 1
        BY <2>1, <3>2
      <4>6. BegunAt(text, scan, i, k + 1) BY <3>1, <3>4, <4>3, <4>4, <4>5 DEF BegunAt
      <4>7. QED BY <4>6
    <3>5. QED BY <3>3, <3>4
  <2>4. CASE scan[k].in # "block"
    <3>1. ~scan[k].half BY <2>2, <2>4 DEF Moves
    <3>2. scan[k].in = "code" /\ OpensAt(text, k + 1) /\ scan[k + 1].depth = 1 /\ scan[k + 1].half
      BY <2>2, <2>4, <3>1 DEF Moves
    <3>3. k + 1 \in 1 .. k + 1 /\ (k + 1) + 2 .. k + 1 = {} BY <2>1
    <3>4. BegunAt(text, scan, k + 1, k + 1) BY <2>1, <3>1, <3>2, <3>3 DEF BegunAt
    <3>5. QED BY <3>4
  <2>5. QED BY <2>3, <2>4
<1>5. n \in S
  <2> HIDE DEF S
  <2>1. 0 .. n \subseteq S BY <1>2, <1>3, <1>4, UpToInduction
  <2>2. n \in 0 .. n BY <1>2
  <2>3. QED BY <2>1, <2>2
<1>6. QED BY <1>5 DEF scan

(* What opens a comment in code.                                           *)
LEMMA CommentOpens ==
  ASSUME NEW text, Len(text) \in Nat, NEW i \in 1 .. Len(text),
         LexerScan(text)[i - 1].in = "code", ~LexerScan(text)[i - 1].half, LexerScan(text)[i].in = "block"
  PROVE  OpensAt(text, i) /\ LexerScan(text)[i].depth = 1 /\ LexerScan(text)[i].half
BY LexerMoves DEF Moves

LEMMA FlatComments ==
  ASSUME NEW text, Len(text) \in Nat, NestedOpens(text) = {}
  PROVE  EndsAtFirstClose(text)
<1> DEFINE l == Len(text)
           scan == LexerScan(text)
<1> HIDE DEF scan, l
<1>1. \A i \in 1 .. l : Moves(text, i, scan[i - 1], scan[i]) BY LexerMoves DEF l, scan
<1>2. l \in Nat BY DEF l
<1>3. SUFFICES ASSUME NEW i \in 1 .. l - 1, scan[i - 1].in = "code", ~scan[i - 1].half, scan[i].in = "block",
                      NEW closes, closes = {j \in i + 2 .. l - 1 : text[j] = "*" /\ text[j + 1] = "/"}, closes # {}
               PROVE  scan[Earliest(closes)].in = "code"
  BY DEF EndsAtFirstClose, scan, l
<1> DEFINE e == Earliest(closes)
<1> HIDE DEF e
<1>4. e \in closes /\ \A j \in closes : e <= j
  <2>1. closes \in SUBSET Nat BY <1>2, <1>3
  <2>2. QED BY <1>3, <2>1, EarliestIs DEF e
<1>5. i \in Nat /\ i \in 1 .. l /\ e \in i + 2 .. l - 1 /\ e - 1 \in Nat /\ e \in 1 .. l BY <1>2, <1>3, <1>4
<1>6. scan[i].depth = 1 /\ scan[i].half BY <1>3, <1>5, CommentOpens DEF scan, l
<1> DEFINE S == {d \in 0 .. e - 1 - i : scan[i + d].in = "block" /\ scan[i + d].depth = 1 /\ (scan[i + d].half <=> d = 0)}
<1>7. 0 \in S
  <2>1. i + 0 = i /\ 0 \in 0 .. e - 1 - i BY <1>5
  <2>2. QED BY <1>3, <1>6, <2>1
<1>8. ASSUME NEW d \in 0 .. e - 1 - i, d \in S, d < e - 1 - i PROVE d + 1 \in S
  <2> DEFINE k == i + (d + 1)
  <2>1. /\ k \in 1 .. l /\ k - 1 = i + d /\ d + 1 \in 0 .. e - 1 - i /\ d + 1 # 0 /\ k \in 1 .. l - 1 /\ ~(e <= k)
        /\ d # 0 => k \in i + 2 .. l - 1
        /\ d \in Nat
    <3>1. /\ d \in Int /\ 0 <= d /\ d < e - 1 - i /\ i \in Int /\ 1 <= i /\ e \in Int /\ e <= l - 1 /\ l \in Int
      BY <1>2, <1>5, <1>8
    <3>2. k = i + (d + 1) OBVIOUS
    <3> HIDE DEF k
    <3>3. k \in Int /\ k < e /\ k >= 1 /\ k - 1 = i + d /\ (d # 0 => k >= i + 2) BY <3>1, <3>2
    <3>4. QED BY <3>1, <3>3
  <2> HIDE DEF k
  <2>2. Moves(text, k, scan[k - 1], scan[k]) BY <1>1, <2>1
  <2>3. scan[k - 1].in = "block" /\ scan[k - 1].depth = 1 /\ (scan[k - 1].half <=> d = 0) BY <1>8, <2>1
  <2>4. scan[k].in = "block" /\ scan[k].depth = 1 /\ ~scan[k].half
    <3>1. CASE d = 0 BY <2>2, <2>3, <3>1 DEF Moves
    <3>2. CASE d # 0
      <4>1. ~OpensAt(text, k)
        <5>1. k \notin NestedOpens(text) BY DEF NestedOpens
        <5>2. QED BY <2>1, <2>3, <3>2, <5>1 DEF NestedOpens, OpensAt, scan, l
      <4>2. ~ShutsAt(text, k) BY <1>3, <1>4, <2>1, <3>2 DEF ShutsAt, l
      <4>3. QED BY <2>2, <2>3, <3>2, <4>1, <4>2 DEF Moves
    <3>3. QED BY <3>1, <3>2
  <2>5. QED BY <2>1, <2>4 DEF k
<1>9. e - 1 - i \in S
  <2> HIDE DEF S
  <2>1. e - 1 - i \in Nat /\ e - 1 - i \in 0 .. e - 1 - i BY <1>5
  <2>2. QED BY <1>7, <1>8, <2>1, UpToInduction
<1>10. scan[e - 1].in = "block" /\ scan[e - 1].depth = 1 /\ ~scan[e - 1].half
  <2>1. i + (e - 1 - i) = e - 1 /\ e - 1 - i # 0 BY <1>5
  <2>2. QED BY <1>9, <2>1
<1>11. ShutsAt(text, e) /\ ~OpensAt(text, e) BY <1>3, <1>4, <1>5 DEF ShutsAt, OpensAt, l
<1>12. Moves(text, e, scan[e - 1], scan[e]) BY <1>1, <1>5
<1>13. QED BY <1>10, <1>11, <1>12 DEF Moves, e

(* What follows a text does not change how it is read up to its last       *)
(* symbol.                                                                 *)
LEMMA ScanOfPrefix ==
  ASSUME NEW text, NEW longer, Len(text) \in Nat, Len(longer) \in Nat, Len(text) <= Len(longer),
         \A i \in 1 .. Len(text) : longer[i] = text[i]
  PROVE  \A i \in 0 .. Len(text) : i < Len(text) => LexerScan(longer)[i] = LexerScan(text)[i]
<1> DEFINE l == Len(text)
           scan == LexerScan(text)
           over == LexerScan(longer)
           S == {k \in 0 .. l : k < l => over[k] = scan[k]}
<1>1. /\ scan[0] = Code /\ \A i \in 1 .. Len(text) : scan[i] = LexOn(text, scan[i - 1], i)
      /\ over[0] = Code /\ \A i \in 1 .. Len(longer) : over[i] = LexOn(longer, over[i - 1], i)
  BY ScanSteps DEF LexerScan, LexOn
<1> HIDE DEF scan, over
<1>2. l \in Nat OBVIOUS
<1>3. 0 \in S BY <1>1, <1>2
<1>4. ASSUME NEW k \in 0 .. l, k \in S, k < l PROVE k + 1 \in S
  <2>1. SUFFICES ASSUME k + 1 < l PROVE over[k + 1] = scan[k + 1] BY <1>2, <1>4
  <2>2. /\ k + 1 \in 1 .. Len(text) /\ k + 1 \in 1 .. Len(longer) /\ (k + 1) - 1 = k
        /\ (k + 1) + 1 \in 1 .. Len(text) /\ k + 1 < Len(text) /\ k + 1 < Len(longer)
    BY <1>2, <1>4, <2>1
  <2>3. text[k + 1] = longer[k + 1] /\ text[(k + 1) + 1] = longer[(k + 1) + 1] BY <2>2
  <2>4. over[k] = scan[k] BY <1>4
  <2>5. over[k + 1] = LexOn(longer, over[k], k + 1) /\ scan[k + 1] = LexOn(text, scan[k], k + 1) BY <1>1, <2>2
  <2>6. LexOn(longer, scan[k], k + 1) = LexOn(text, scan[k], k + 1) BY <2>2, <2>3 DEF LexOn, ScanOn
  <2>7. QED BY <2>4, <2>5, <2>6
<1>5. 0 .. l \subseteq S
  <2> HIDE DEF S, l
  <2>1. QED BY <1>2, <1>3, <1>4, UpToInduction
<1>6. QED BY <1>5 DEF scan, over

(* A comment that is opened again does not end where it is first closed.   *)
LEMMA NestedComments ==
  ASSUME NEW text, NEW T, text \in Seq(T), NestedOpens(text) # {}
  PROVE  ~EndsAtFirstClose(text \o <<"*", "/">>)
<1> DEFINE l == Len(text)
           longer == text \o <<"*", "/">>
           n == Len(longer)
           scan == LexerScan(longer)
<1>1. l \in Nat /\ n = l + 2 /\ longer[l + 1] = "*" /\ longer[l + 2] = "/" /\ \A i \in 1 .. l : longer[i] = text[i]
  OBVIOUS
<1> HIDE DEF longer
<1>2. n \in Nat /\ l <= n BY <1>1
<1> HIDE DEF n
<1>3. \A i \in 0 .. l : i < l => scan[i] = LexerScan(text)[i] BY <1>1, <1>2, ScanOfPrefix DEF n
<1>4. \A i \in 1 .. n : Moves(longer, i, scan[i - 1], scan[i]) BY <1>2, LexerMoves DEF n
<1> DEFINE m == Earliest(NestedOpens(text))
<1>5. m \in NestedOpens(text) /\ \A i \in NestedOpens(text) : m <= i
  <2>1. NestedOpens(text) \in SUBSET Nat BY <1>1 DEF NestedOpens
  <2>2. QED BY <2>1, EarliestIs
<1> HIDE DEF m
<1>6. /\ m \in 1 .. l - 1 /\ LexerScan(text)[m - 1].in = "block" /\ ~LexerScan(text)[m - 1].half
      /\ text[m] = "/" /\ text[m + 1] = "*"
  BY <1>5 DEF NestedOpens
<1>7. /\ m \in Nat /\ 1 <= m /\ m <= l - 1 /\ m - 1 \in 0 .. l /\ m - 1 < l
      /\ \A i \in 1 .. m - 1 : i \in Nat /\ ~(m <= i)
  BY <1>1, <1>6
<1>8. PICK i : BegunAt(text, LexerScan(text), i, m - 1)
  <2>1. \A j \in 1 .. m - 1 : j \notin NestedOpens(text) BY <1>5, <1>7
  <2>2. QED BY <1>1, <1>6, <1>7, <2>1, FlatSoFar
<1>9. i \in 1 .. m - 1 /\ m - 1 # i BY <1>6, <1>8 DEF BegunAt
<1>10. /\ i \in Nat /\ 1 <= i /\ i + 2 <= m /\ i \in 1 .. n - 1
       /\ i \in 0 .. l /\ i < l /\ i - 1 \in 0 .. l /\ i - 1 < l
  BY <1>1, <1>7, <1>9
<1>11. /\ scan[i - 1].in = "code" /\ ~scan[i - 1].half /\ scan[i].in = "block"
       /\ scan[m - 1].in = "block" /\ scan[m - 1].depth = 1 /\ ~scan[m - 1].half
  BY <1>3, <1>7, <1>8, <1>9, <1>10 DEF BegunAt
<1> DEFINE closes == {j \in i + 2 .. n - 1 : longer[j] = "*" /\ longer[j + 1] = "/"}
           e == Earliest(closes)
<1>12. l + 1 \in closes BY <1>1, <1>7, <1>10
<1>13. e \in closes /\ \A j \in closes : e <= j
  <2>1. closes \in SUBSET Nat /\ closes # {} BY <1>1, <1>10, <1>12
  <2> HIDE DEF closes
  <2>2. QED BY <2>1, EarliestIs
<1>14. e \in Nat /\ i + 2 <= e /\ e <= l + 1 /\ longer[e] = "*" /\ longer[e + 1] = "/" BY <1>1, <1>10, <1>13
<1> HIDE DEF e
<1>15. m < e
  <2>1. e # m
    <3>1. longer[m] = "/" BY <1>1, <1>6, <1>7
    <3>2. QED BY <1>14, <3>1
  <2>2. ASSUME e < m PROVE FALSE
    <3>1. e \in i + 2 .. m - 1 /\ e \in 1 .. l /\ e + 1 \in 1 .. l /\ e < l BY <1>7, <1>10, <1>14, <2>2
    <3>2. ShutsAt(text, e) BY <1>1, <1>14, <3>1 DEF ShutsAt
    <3>3. QED BY <1>8, <3>1, <3>2 DEF BegunAt
  <2>3. QED BY <1>7, <1>14, <2>1, <2>2
<1> DEFINE S == {d \in 0 .. e - 1 - m : scan[m + d].in = "block" /\ scan[m + d].depth > 1}
<1>16. 0 \in S
  <2>1. m \in 1 .. n /\ m + 0 = m /\ 0 \in 0 .. e - 1 - m BY <1>1, <1>7, <1>14, <1>15
  <2>2. Moves(longer, m, scan[m - 1], scan[m]) BY <1>4, <2>1
  <2>3. OpensAt(longer, m)
    <3>1. m \in 1 .. l /\ m + 1 \in 1 .. l /\ m < n BY <1>1, <1>7
    <3>2. QED BY <1>1, <1>6, <3>1 DEF OpensAt, n
  <2>4. scan[m].in = "block" /\ scan[m].depth = 2 BY <1>11, <2>2, <2>3 DEF Moves
  <2>5. QED BY <2>1, <2>4
<1>17. ASSUME NEW d \in 0 .. e - 1 - m, d \in S, d < e - 1 - m PROVE d + 1 \in S
  <2> DEFINE k == m + (d + 1)
  <2>1. k = m + (d + 1) OBVIOUS
  <2> HIDE DEF k
  <2>2. d \in Int /\ 0 <= d /\ d < e - 1 - m BY <1>7, <1>14, <1>17
  <2>3. k \in Int /\ k - 1 = m + d /\ k < e /\ m < k /\ d + 1 \in 0 .. e - 1 - m BY <1>7, <1>14, <2>1, <2>2
  <2>4. k \in 1 .. n /\ k \in i + 2 .. n - 1 /\ ~(e <= k) BY <1>1, <1>7, <1>10, <1>14, <2>3
  <2>5. Moves(longer, k, scan[k - 1], scan[k]) BY <1>4, <2>4
  <2>6. scan[k - 1].in = "block" /\ scan[k - 1].depth > 1 BY <1>17, <2>3
  <2>7. ~ShutsAt(longer, k) BY <1>13, <2>4 DEF ShutsAt
  <2>8. scan[k].in = "block" /\ scan[k].depth > 1
    <3>1. scan[k - 1].depth \in Int BY <2>5 DEF Moves, LexState
    <3>2. CASE scan[k - 1].half BY <2>5, <2>6, <3>2 DEF Moves
    <3>3. CASE ~scan[k - 1].half /\ OpensAt(longer, k)
      <4>1. scan[k].in = "block" /\ scan[k].depth = scan[k - 1].depth + 1 BY <2>5, <2>6, <3>3 DEF Moves
      <4>2. QED BY <2>6, <3>1, <4>1
    <3>4. CASE ~scan[k - 1].half /\ ~OpensAt(longer, k) BY <2>5, <2>6, <2>7, <3>4 DEF Moves
    <3>5. QED BY <3>2, <3>3, <3>4
  <2>9. QED BY <2>1, <2>3, <2>8
<1>18. scan[e - 1].in = "block" /\ scan[e - 1].depth > 1
  <2>1. e - 1 - m \in Nat /\ e - 1 - m \in 0 .. e - 1 - m /\ m + (e - 1 - m) = e - 1 BY <1>7, <1>14, <1>15
  <2>2. e - 1 - m \in S
    <3> HIDE DEF S
    <3>1. QED BY <1>16, <1>17, <2>1, UpToInduction
  <2>3. QED BY <2>1, <2>2
<1>19. scan[e].in # "code"
  <2>1. e \in 1 .. n BY <1>1, <1>10, <1>14
  <2>2. Moves(longer, e, scan[e - 1], scan[e]) BY <1>4, <2>1
  <2>3. ~OpensAt(longer, e) BY <1>14 DEF OpensAt
  <2>4. ShutsAt(longer, e) BY <1>1, <1>14 DEF ShutsAt, n
  <2>5. scan[e - 1].depth # 1 BY <1>18, <2>2 DEF Moves, LexState
  <2>6. scan[e].in = "block" BY <1>18, <2>2, <2>3, <2>4, <2>5 DEF Moves
  <2>7. QED BY <2>6
<1>20. closes # {} BY <1>12
<1>21. ASSUME EndsAtFirstClose(longer) PROVE scan[Earliest(closes)].in = "code"
  BY <1>10, <1>11, <1>20, <1>21 DEF EndsAtFirstClose, n
<1>22. QED BY <1>19, <1>21 DEF e, longer

-----------------------------------------------------------------------------
(* The driver and its code.                                                *)

Plain == {"lbrace", "rbrace", "(", ")", "->", "fn", "compile", "tokenize", "parse", "emit"}

LEMMA CodeIs ==
  ASSUME NEW text, NEW T, text \in Seq(T), Plainspoken(text)
  PROVE  /\ DOMAIN Masked(text) = DOMAIN text /\ Len(Masked(text)) = Len(text)
         /\ \A i \in DOMAIN text : Masked(text)[i] = text[i] \/ Masked(text)[i] = "sp"
         /\ \A i \in DOMAIN text : \A x \in Plain : Masked(text)[i] = x <=> text[i] = x
         /\ \A i \in DOMAIN text : text[i] \in Blank => Masked(text)[i] \in Blank
         /\ \A i \in DOMAIN text : ~IsWord(text[i]) => ~IsWord(Masked(text)[i])
<1> DEFINE code == Masked(text)
<1>1. code = [i \in DOMAIN text |->
                IF Hidden(Scanned(text, {"quote"}, {}), i) /\ text[i] # "nl" THEN "sp" ELSE text[i]]
  BY DEF Masked
<1>2. DOMAIN code = DOMAIN text /\ \A i \in DOMAIN text : code[i] = text[i] \/ code[i] = "sp" BY <1>1
<1>3. Len(code) = Len(text)
  <2>1. code \in Seq(T \union {"sp"})
    <3>1. \A i \in DOMAIN text : text[i] \in T OBVIOUS
    <3>2. code \in [1 .. Len(text) -> T \union {"sp"}] BY <1>1, <3>1
    <3> HIDE DEF code
    <3>3. QED BY <3>2
  <2> HIDE DEF code
  <2>2. QED BY <1>2, <2>1
<1> HIDE DEF code
<1>4. \A i \in DOMAIN text : code[i] # text[i] => text[i] \notin Plain BY DEF Plainspoken, Plain, code
<1>5. "sp" \notin Plain /\ "sp" \in Blank /\ ~IsWord("sp") BY DEF Plain, Blank, IsWord
<1>6. \A i \in DOMAIN text : \A x \in Plain : code[i] = x <=> text[i] = x BY <1>2, <1>4, <1>5
<1>7. QED BY <1>2, <1>3, <1>5, <1>6 DEF code

StopsAt(text, i, j) ==
  /\ \A k \in i .. j - 1 : text[k] \in Blank
  /\ j <= Len(text) => text[j] \notin Blank

LEMMA AfterBlankIs ==
  ASSUME NEW text, Len(text) \in Nat, NEW i \in 1 .. Len(text) + 1
  PROVE  /\ AfterBlank(text, i) \in i .. Len(text) + 1
         /\ \A k \in i .. AfterBlank(text, i) - 1 : text[k] \in Blank
         /\ AfterBlank(text, i) <= Len(text) => text[AfterBlank(text, i)] \notin Blank
         /\ \A j \in i .. Len(text) :
              (\A k \in i .. j - 1 : text[k] \in Blank) /\ text[j] \notin Blank => AfterBlank(text, i) = j
<1> DEFINE l == Len(text)
           S == {j \in i .. l + 1 : j <= l => text[j] \notin Blank}
           a == AfterBlank(text, i)
<1>5. a = CHOOSE j \in i .. l + 1 : StopsAt(text, i, j) BY DEF AfterBlank, StopsAt
<1> HIDE DEF l, a
<1>1. l \in Nat /\ i \in Nat /\ i >= 1 /\ i <= l + 1 BY DEF l
<1>2. l + 1 \in S BY <1>1
<1>3. PICK x \in S : \A y \in S : x <= y
  <2>1. S # {} BY <1>2
  <2>2. S \in SUBSET Nat BY <1>1
  <2> HIDE DEF S
  <2>3. QED BY <2>1, <2>2, LeastElement
<1>4. x \in i .. l + 1 /\ StopsAt(text, i, x)
  <2>1. ASSUME NEW k \in i .. x - 1 PROVE text[k] \in Blank
    <3>1. k \in i .. l + 1 /\ k <= l /\ ~(x <= k) BY <1>1, <1>3
    <3>2. QED BY <1>3, <3>1
  <2>2. QED BY <1>3, <2>1 DEF StopsAt, l
<1>6. a \in i .. l + 1 /\ StopsAt(text, i, a)
  <2>1. \E j \in i .. l + 1 : StopsAt(text, i, j) BY <1>4
  <2>2. QED BY <1>5, <2>1
<1>7. a \in Int /\ i <= a /\ (\A k \in i .. a - 1 : text[k] \in Blank) /\ (a <= l => text[a] \notin Blank)
  BY <1>1, <1>6 DEF StopsAt, l
<1>8. ASSUME NEW j \in i .. l, \A k \in i .. j - 1 : text[k] \in Blank, text[j] \notin Blank
      PROVE  a = j
  <2>1. ~(a < j)
    <3>1. a < j => a \in i .. j - 1 /\ a <= l BY <1>1, <1>7
    <3>2. QED BY <1>7, <1>8, <3>1
  <2>2. ~(j < a)
    <3>1. j < a => j \in i .. a - 1 BY <1>1, <1>7
    <3>2. QED BY <1>7, <1>8, <3>1
  <2>3. QED BY <1>1, <1>7, <2>1, <2>2
<1>9. QED BY <1>6, <1>7, <1>8 DEF l, a

(* The function stands in the code where it stands in the text.            *)
LEMMA DeclaredInCode ==
  ASSUME NEW text, NEW T, text \in Seq(T), Plainspoken(text)
  PROVE  Declared(text, {"compile"}) \subseteq Declared(Masked(text), {"compile"})
<1> DEFINE code == Masked(text)
<1>1. /\ DOMAIN code = DOMAIN text
      /\ \A i \in DOMAIN text : \A x \in Plain : code[i] = x <=> text[i] = x
      /\ \A i \in DOMAIN text : text[i] \in Blank => code[i] \in Blank
      /\ \A i \in DOMAIN text : ~IsWord(text[i]) => ~IsWord(code[i])
  BY CodeIs
<1> HIDE DEF code
<1>2. SUFFICES ASSUME NEW p \in Declared(text, {"compile"}) PROVE p \in Declared(code, {"compile"})
  BY DEF code
<1>3. p \in DOMAIN text /\ text[p] = "(" BY DEF Declared
<1>4. PICK f, n \in 1 .. p - 1 :
        /\ f + 1 < n /\ text[f] = "fn" /\ text[n] \in {"compile"}
        /\ \A k \in (f + 1 .. n - 1) \union (n + 1 .. p - 1) : text[k] \in Blank
        /\ f > 1 => ~IsWord(text[f - 1])
  BY DEF Declared
<1>5. {"(", "fn", "compile"} \subseteq Plain BY DEF Plain
<1>6. /\ f \in DOMAIN text /\ n \in DOMAIN text /\ (f > 1 => f - 1 \in DOMAIN text)
      /\ \A k \in (f + 1 .. n - 1) \union (n + 1 .. p - 1) : k \in DOMAIN text
  BY <1>3
<1>7. code[p] = "(" /\ code[f] = "fn" /\ code[n] = "compile" BY <1>1, <1>3, <1>4, <1>5, <1>6
<1>8. \A k \in (f + 1 .. n - 1) \union (n + 1 .. p - 1) : code[k] \in Blank BY <1>1, <1>4, <1>6
<1>9. f > 1 => ~IsWord(code[f - 1]) BY <1>1, <1>4, <1>6
<1>10. p \in DOMAIN code BY <1>1, <1>3
<1>11. QED BY <1>4, <1>7, <1>8, <1>9, <1>10 DEF Declared

LEMMA BodiesInCode ==
  ASSUME NEW text, NEW T, text \in Seq(T), Plainspoken(text)
  PROVE  Bodies(text, "compile") \subseteq Bodies(Masked(text), "compile")
<1> DEFINE code == Masked(text)
<1>1. /\ DOMAIN code = DOMAIN text /\ Len(code) = Len(text)
      /\ \A i \in DOMAIN text : \A x \in Plain : code[i] = x <=> text[i] = x
      /\ \A i \in DOMAIN text : text[i] \in Blank => code[i] \in Blank
  BY CodeIs
<1>2. Declared(text, {"compile"}) \subseteq Declared(code, {"compile"}) BY DeclaredInCode
<1> HIDE DEF code
<1>3. SUFFICES ASSUME NEW b \in Bodies(text, "compile") PROVE b \in Bodies(code, "compile")
  BY DEF code
<1>4. b \in DOMAIN text /\ text[b] = "lbrace" BY DEF Bodies
<1>5. PICK p \in Declared(text, {"compile"}) : \E x \in p + 1 .. b - 1 :
        /\ text[x] = ")" /\ \A k \in p + 1 .. x - 1 : text[k] # ")"
        /\ LET a == AfterBlank(text, x + 1)
           IN a = b \/ (a + 1 < b /\ text[a] = "->" /\ \A k \in a .. b - 1 : text[k] # "lbrace")
  BY DEF Bodies
<1>6. PICK c \in p + 1 .. b - 1 :
        /\ text[c] = ")" /\ \A k \in p + 1 .. c - 1 : text[k] # ")"
        /\ LET a == AfterBlank(text, c + 1)
           IN a = b \/ (a + 1 < b /\ text[a] = "->" /\ \A k \in a .. b - 1 : text[k] # "lbrace")
  BY <1>5
<1> DEFINE a == AfterBlank(text, c + 1)
<1> HIDE DEF a
<1>7. a = b \/ (a + 1 < b /\ text[a] = "->" /\ \A k \in a .. b - 1 : text[k] # "lbrace") BY <1>6 DEF a
<1>8. {"lbrace", "rbrace", "(", ")", "->"} \subseteq Plain /\ "lbrace" \notin Blank /\ "->" \notin Blank BY DEF Plain, Blank
<1>9. p \in DOMAIN text BY <1>5 DEF Declared
<1>10. Len(text) \in Nat /\ DOMAIN text = 1 .. Len(text) OBVIOUS
<1>11. /\ p \in Nat /\ 1 <= p /\ b \in Nat /\ b <= Len(text) /\ c \in Nat /\ p + 1 <= c /\ c <= b - 1
       /\ c + 1 \in 1 .. Len(text) + 1
  <2>1. p \in 1 .. Len(text) /\ b \in 1 .. Len(text) BY <1>4, <1>9, <1>10, Zenon
  <2>2. c \in p + 1 .. b - 1 OBVIOUS
  <2>3. QED BY <1>10, <2>1, <2>2
<1>12. a \in c + 1 .. Len(text) + 1 /\ \A k \in c + 1 .. a - 1 : text[k] \in Blank
  BY <1>10, <1>11, AfterBlankIs DEF a
<1>13. a \in c + 1 .. Len(text) /\ a <= b
  <2>1. a \in Int /\ c + 1 <= a BY <1>10, <1>11, <1>12
  <2>2. a = b \/ a + 1 < b BY <1>7
  <2>3. QED BY <1>10, <1>11, <2>1, <2>2
<1>14. /\ \A k \in c + 1 .. a - 1 : k \in DOMAIN text
       /\ \A k \in a .. b - 1 : k \in DOMAIN text
       /\ \A k \in p + 1 .. c - 1 : k \in DOMAIN text
       /\ c \in DOMAIN text /\ a \in DOMAIN text
  BY <1>10, <1>11, <1>13
<1>15. code[b] = "lbrace" /\ code[c] = ")" /\ \A k \in p + 1 .. c - 1 : code[k] # ")"
  BY <1>1, <1>4, <1>6, <1>8, <1>14
<1>16. AfterBlank(code, c + 1) = a
  <2>1. \A k \in c + 1 .. a - 1 : code[k] \in Blank BY <1>1, <1>12, <1>14
  <2>2. code[a] \notin Blank
    <3>1. CASE a = b BY <1>8, <1>15, <3>1
    <3>2. CASE text[a] = "->"
      <4>1. code[a] = "->" BY <1>1, <1>8, <1>14, <3>2
      <4>2. QED BY <1>8, <4>1
    <3>3. QED BY <1>7, <3>1, <3>2
  <2>3. a \in c + 1 .. Len(code) /\ Len(code) \in Nat /\ c + 1 \in 1 .. Len(code) + 1 BY <1>1, <1>10, <1>11, <1>13
  <2>4. QED BY <2>1, <2>2, <2>3, AfterBlankIs
<1>17. a = b \/ (a + 1 < b /\ code[a] = "->" /\ \A k \in a .. b - 1 : code[k] # "lbrace")
  BY <1>1, <1>7, <1>8, <1>14
<1>18. b \in DOMAIN code /\ p \in Declared(code, {"compile"}) BY <1>1, <1>2, <1>4
<1>19. QED BY <1>6, <1>15, <1>16, <1>17, <1>18 DEF Bodies

(* The braces so far, one symbol on.                                       *)
LEMMA BraceStep ==
  ASSUME NEW text, NEW b \in Nat, NEW i \in Nat, b <= i
  PROVE  /\ Opens(text, b, i) \in Nat /\ Shuts(text, b, i) \in Nat
         /\ Opens(text, b, i + 1) = IF text[i + 1] = "lbrace" THEN Opens(text, b, i) + 1 ELSE Opens(text, b, i)
         /\ Shuts(text, b, i + 1) = IF text[i + 1] = "rbrace" THEN Shuts(text, b, i) + 1 ELSE Shuts(text, b, i)
<1> DEFINE Of(x, k) == {j \in b .. k : text[j] = x}
<1>1. ASSUME NEW x
      PROVE  /\ Cardinality(Of(x, i)) \in Nat
             /\ Cardinality(Of(x, i + 1)) =
                  IF text[i + 1] = x THEN Cardinality(Of(x, i)) + 1 ELSE Cardinality(Of(x, i))
  <2>1. IsFiniteSet(b .. i)
    <3>1. b \in Int /\ i \in Int OBVIOUS
    <3>2. QED BY <3>1, FS_Interval
  <2>2. IsFiniteSet(Of(x, i)) BY <2>1, FS_Subset
  <2>3. Cardinality(Of(x, i)) \in Nat BY <2>2, FS_CardinalityType
  <2>4. b .. i + 1 = (b .. i) \union {i + 1} /\ i + 1 \notin b .. i OBVIOUS
  <2>5. CASE text[i + 1] = x
    <3>1. Of(x, i + 1) = Of(x, i) \union {i + 1} /\ i + 1 \notin Of(x, i) BY <2>4, <2>5
    <3> HIDE DEF Of
    <3>2. Cardinality(Of(x, i) \union {i + 1}) = Cardinality(Of(x, i)) + 1 BY <2>2, <3>1, FS_AddElement
    <3>3. QED BY <2>3, <2>5, <3>1, <3>2
  <2>6. CASE text[i + 1] # x
    <3>1. Of(x, i + 1) = Of(x, i) BY <2>4, <2>6
    <3>2. QED BY <2>3, <2>6, <3>1
  <2>7. QED BY <2>5, <2>6
<1>2. /\ Opens(text, b, i) = Cardinality(Of("lbrace", i)) /\ Opens(text, b, i + 1) = Cardinality(Of("lbrace", i + 1))
      /\ Shuts(text, b, i) = Cardinality(Of("rbrace", i)) /\ Shuts(text, b, i + 1) = Cardinality(Of("rbrace", i + 1))
  BY DEF Opens, Shuts
<1> HIDE DEF Of
<1>3. QED BY <1>1, <1>2

LEMMA BraceStart ==
  ASSUME NEW text, NEW b \in Nat, text[b] = "lbrace"
  PROVE  Opens(text, b, b) = 1 /\ Shuts(text, b, b) = 0
<1>1. b .. b = {b} OBVIOUS
<1>2. {j \in b .. b : text[j] = "lbrace"} = {b} /\ {j \in b .. b : text[j] = "rbrace"} = {} BY <1>1
<1>3. Cardinality({b}) = 1 BY FS_Singleton
<1>4. QED BY <1>2, <1>3, FS_EmptySet DEF Opens, Shuts

(* Up to where they match there are more that open than that shut.         *)
LEMMA BracesStayOpen ==
  ASSUME NEW text, NEW b \in Nat, NEW e \in Nat, b <= e, text[b] = "lbrace",
         \A i \in b .. e : Opens(text, b, i) # Shuts(text, b, i)
  PROVE  \A i \in b .. e : Opens(text, b, i) > Shuts(text, b, i)
<1> DEFINE S == {d \in 0 .. e - b : Opens(text, b, b + d) > Shuts(text, b, b + d)}
<1>1. 0 \in S
  <2>1. b + 0 = b /\ 0 \in 0 .. e - b OBVIOUS
  <2>2. QED BY <2>1, BraceStart
<1>2. ASSUME NEW d \in 0 .. e - b, d \in S, d < e - b PROVE d + 1 \in S
  <2> DEFINE i == b + d
             o == Opens(text, b, i)
             s == Shuts(text, b, i)
             oo == Opens(text, b, i + 1)
             ss == Shuts(text, b, i + 1)
  <2>1. i \in Nat /\ b <= i /\ b + (d + 1) = i + 1 /\ i + 1 \in b .. e /\ d + 1 \in 0 .. e - b BY <1>2
  <2>2. o > s BY <1>2
  <2> HIDE DEF i
  <2>3. /\ o \in Nat /\ s \in Nat
        /\ oo = IF text[i + 1] = "lbrace" THEN o + 1 ELSE o
        /\ ss = IF text[i + 1] = "rbrace" THEN s + 1 ELSE s
    BY <2>1, BraceStep
  <2>4. oo # ss BY <2>1
  <2> HIDE DEF o, s, oo, ss
  <2>5. oo > ss BY <2>2, <2>3, <2>4
  <2>6. QED BY <2>1, <2>5 DEF oo, ss
<1>3. 0 .. e - b \subseteq S
  <2> HIDE DEF S
  <2>1. e - b \in Nat OBVIOUS
  <2>2. QED BY <1>1, <1>2, <2>1, UpToInduction
<1>4. SUFFICES ASSUME NEW i \in b .. e PROVE Opens(text, b, i) > Shuts(text, b, i)
  OBVIOUS
<1>5. i - b \in 0 .. e - b /\ b + (i - b) = i OBVIOUS
<1>6. i - b \in S BY <1>3, <1>5
<1>7. QED BY <1>5, <1>6

(* Both guards on a driver in which no comment and no string plays a part. *)
LEMMA DriverIsOrdered ==
  ASSUME NEW text, NEW T, text \in Seq(T), Plainspoken(text), DriverCallsInOrder(text), DeclaresSteps(text)
  PROVE  LET code == Masked(text)
             within(i, b) == b < i /\ \A k \in b .. i : Opens(code, b, k) > Shuts(code, b, k)
         IN \E b \in Bodies(code, "compile"), t, p, e \in DOMAIN code :
              /\ code[t] = "tokenize" /\ code[p] = "parse" /\ code[e] = "emit"
              /\ t < p /\ p < e /\ within(t, b) /\ within(e, b)
              /\ \A i \in b .. p - 1 : code[i] = "emit" => code[i + 1] # "("
              /\ \A name_ \in ToSet(Stages) : \E i \in 2 .. Len(code) : code[i] = name_ /\ code[i - 1] = "sp"
<1> DEFINE code == Masked(text)
           l == Len(text)
<1>1. /\ DOMAIN code = DOMAIN text /\ Len(code) = l
      /\ \A i \in DOMAIN text : code[i] = text[i] \/ code[i] = "sp"
      /\ \A i \in DOMAIN text : \A x \in Plain : code[i] = x <=> text[i] = x
  BY CodeIs
<1>2. Bodies(text, "compile") \subseteq Bodies(code, "compile") BY BodiesInCode
<1> HIDE DEF code
<1>3. l \in Nat /\ DOMAIN text = 1 .. l OBVIOUS
<1>4. {"lbrace", "rbrace", "(", "tokenize", "parse", "emit"} \subseteq Plain BY DEF Plain
<1> DEFINE b == Earliest(Bodies(text, "compile"))
           ends == {i \in b .. l : Opens(text, b, i) = Shuts(text, b, i)}
           stop == Earliest(ends)
<1>5. PICK body \in BodyAfter(text, "compile") :
        /\ \A s \in 1 .. 3 : CallsOf(body, Stages[s]) # {}
        /\ \A s \in 1 .. 2 : Earliest(CallsOf(body, Stages[s])) < Earliest(CallsOf(body, Stages[s + 1]))
  BY DEF DriverCallsInOrder
<1>6. Bodies(text, "compile") # {} /\ ends # {} /\ body = SubSeq(text, b + 1, stop - 1)
  BY DEF BodyAfter
<1>7. b \in Bodies(text, "compile")
  <2>1. Bodies(text, "compile") \in SUBSET Nat BY <1>3 DEF Bodies
  <2>2. QED BY <1>6, <2>1, EarliestIs
<1>8. b \in 1 .. l /\ text[b] = "lbrace" BY <1>3, <1>7 DEF Bodies
<1> HIDE DEF b
<1>9. stop \in ends /\ \A i \in ends : stop <= i
  <2>1. ends \in SUBSET Nat BY <1>3, <1>8
  <2> HIDE DEF ends
  <2>2. QED BY <1>6, <2>1, EarliestIs
<1> HIDE DEF stop
<1>10. b < stop /\ stop \in 1 .. l
  <2>1. stop \in b .. l /\ Opens(text, b, stop) = Shuts(text, b, stop) BY <1>9
  <2>2. stop # b BY <1>8, <2>1, BraceStart
  <2>3. QED BY <1>3, <1>8, <2>1, <2>2
<1>11. \A k \in b .. stop - 1 : Opens(text, b, k) > Shuts(text, b, k)
  <2>1. ASSUME NEW k \in b .. stop - 1 PROVE Opens(text, b, k) # Shuts(text, b, k)
    <3>1. k \in b .. l /\ ~(stop <= k) BY <1>3, <1>8, <1>10
    <3>2. QED BY <1>9, <3>1
  <2>2. b \in Nat /\ stop - 1 \in Nat /\ b <= stop - 1 BY <1>3, <1>8, <1>10
  <2>3. QED BY <1>8, <2>1, <2>2, BracesStayOpen
<1>12. \A k \in b .. stop - 1 : Opens(code, b, k) > Shuts(code, b, k)
  <2>1. ASSUME NEW k \in b .. stop - 1 PROVE Opens(code, b, k) = Opens(text, b, k) /\ Shuts(code, b, k) = Shuts(text, b, k)
    <3>1. \A j \in b .. k : j \in DOMAIN text BY <1>3, <1>8, <1>10
    <3>2. \A j \in b .. k : (code[j] = "lbrace" <=> text[j] = "lbrace") /\ (code[j] = "rbrace" <=> text[j] = "rbrace")
      BY <1>1, <1>4, <3>1
    <3>3. /\ {j \in b .. k : code[j] = "lbrace"} = {j \in b .. k : text[j] = "lbrace"}
          /\ {j \in b .. k : code[j] = "rbrace"} = {j \in b .. k : text[j] = "rbrace"}
      BY <3>2
    <3>4. QED BY <3>3 DEF Opens, Shuts
  <2>2. QED BY <1>11, <2>1
<1>13. Len(body) = stop - 1 - b /\ Len(body) \in Nat /\ \A i \in 1 .. Len(body) : body[i] = text[b + i]
  BY <1>3, <1>6, <1>8, <1>10
<1>14. Stages[1] = "tokenize" /\ Stages[2] = "parse" /\ Stages[3] = "emit" BY DEF Stages
<1> DEFINE first(x) == Earliest(CallsOf(body, x))
<1>15. ASSUME NEW x \in {"tokenize", "parse", "emit"}
       PROVE  /\ first(x) \in 1 .. Len(body) - 1 /\ body[first(x)] = x
              /\ \A i \in CallsOf(body, x) : first(x) <= i
  <2>1. CallsOf(body, x) # {}
    <3>1. 1 \in 1 .. 3 /\ 2 \in 1 .. 3 /\ 3 \in 1 .. 3 OBVIOUS
    <3>2. QED BY <1>5, <1>14, <3>1
  <2>2. CallsOf(body, x) \in SUBSET Nat BY <1>13 DEF CallsOf
  <2>3. first(x) \in CallsOf(body, x) /\ \A i \in CallsOf(body, x) : first(x) <= i BY <2>1, <2>2, EarliestIs
  <2>4. QED BY <2>3 DEF CallsOf
<1>16. first("tokenize") < first("parse") /\ first("parse") < first("emit")
  <2>1. 1 \in 1 .. 2 /\ 2 \in 1 .. 2 /\ 1 + 1 = 2 /\ 2 + 1 = 3 OBVIOUS
  <2>2. QED BY <1>5, <1>14, <2>1
<1> DEFINE t == b + first("tokenize")
           p == b + first("parse")
           e == b + first("emit")
<1> HIDE DEF first
<1>17. /\ first("tokenize") \in 1 .. Len(body) - 1 /\ first("parse") \in 1 .. Len(body) - 1
       /\ first("emit") \in 1 .. Len(body) - 1
       /\ body[first("tokenize")] = "tokenize" /\ body[first("parse")] = "parse" /\ body[first("emit")] = "emit"
  BY <1>15
<1>18. /\ t \in DOMAIN text /\ p \in DOMAIN text /\ e \in DOMAIN text
       /\ b < t /\ t < p /\ p < e /\ t <= stop - 1 /\ e <= stop - 1
  BY <1>3, <1>8, <1>10, <1>13, <1>16, <1>17
<1>19. text[t] = "tokenize" /\ text[p] = "parse" /\ text[e] = "emit"
  BY <1>13, <1>17
<1>20. code[t] = "tokenize" /\ code[p] = "parse" /\ code[e] = "emit" BY <1>1, <1>4, <1>18, <1>19
<1>21. /\ \A k \in b .. t : Opens(code, b, k) > Shuts(code, b, k)
       /\ \A k \in b .. e : Opens(code, b, k) > Shuts(code, b, k)
  <2>1. b .. t \subseteq b .. stop - 1 /\ b .. e \subseteq b .. stop - 1 BY <1>3, <1>8, <1>10, <1>18
  <2>2. QED BY <1>12, <2>1
<1>22. ASSUME NEW i \in b .. p - 1, code[i] = "emit" PROVE code[i + 1] # "("
  <2> SUFFICES ASSUME code[i + 1] = "(" PROVE FALSE
    OBVIOUS
  <2>1. i \in DOMAIN text /\ i + 1 \in DOMAIN text BY <1>3, <1>8, <1>18
  <2>2. text[i] = "emit" /\ text[i + 1] = "(" BY <1>1, <1>4, <1>22, <2>1
  <2>3. i # b BY <1>8, <2>2
  <2> DEFINE j == i - b
  <2>4. j \in 1 .. Len(body) - 1 /\ j + 1 \in 1 .. Len(body) /\ j \in 1 .. Len(body) /\ b + j = i /\ b + (j + 1) = i + 1
        /\ j < first("parse")
    BY <1>3, <1>8, <1>10, <1>13, <1>17, <2>3
  <2>5. body[j] = "emit" /\ body[j + 1] = "(" BY <1>13, <2>2, <2>4
  <2>6. j \in CallsOf(body, "emit") BY <2>4, <2>5 DEF CallsOf
  <2>7. first("emit") <= j BY <1>15, <2>6
  <2>8. QED BY <1>13, <1>16, <1>17, <2>4, <2>7
<1>23. ASSUME NEW name_ \in ToSet(Stages)
       PROVE  \E i \in 2 .. Len(code) : code[i] = name_ /\ code[i - 1] = "sp"
  <2>1. name_ \in {"tokenize", "parse", "emit"}
    <3>1. DOMAIN Stages = 1 .. 3 BY DEF Stages
    <3>2. PICK s \in 1 .. 3 : name_ = Stages[s] BY <3>1 DEF ToSet
    <3>3. s = 1 \/ s = 2 \/ s = 3 OBVIOUS
    <3>4. QED BY <1>14, <3>2, <3>3
  <2>2. PICK i \in 1 .. l - 2 : SubSeq(text, i, i + 2) = <<"fn", "sp", name_>> BY <2>1 DEF DeclaresSteps
  <2>3. i \in 1 .. l /\ i + 2 \in 1 .. l /\ i + 1 \in 1 .. l /\ i + 2 \in 2 .. l /\ (i + 2) - 1 = i + 1 BY <1>3
  <2>4. text[i + 1] = "sp" /\ text[i + 2] = name_
    <3> DEFINE sub == SubSeq(text, i, i + 2)
    <3>1. sub[2] = text[i + 2 - 1] /\ sub[3] = text[i + 3 - 1] BY <1>3, <2>3
    <3>2. sub[2] = "sp" /\ sub[3] = name_
      <4> DEFINE three == <<"fn", "sp", name_>>
      <4>1. three[2] = "sp" /\ three[3] = name_ OBVIOUS
      <4>2. sub = three BY <2>2
      <4> HIDE DEF sub, three
      <4>3. QED BY <4>1, <4>2
    <3>3. i + 2 - 1 = i + 1 /\ i + 3 - 1 = i + 2 OBVIOUS
    <3>4. QED BY <3>1, <3>2, <3>3
  <2>5. code[i + 1] = "sp" BY <1>1, <1>3, <2>3, <2>4
  <2>6. code[i + 2] = name_ BY <1>1, <1>3, <1>4, <2>1, <2>3, <2>4
  <2>7. QED BY <1>1, <2>3, <2>5, <2>6
<1>24. b \in Bodies(code, "compile") /\ t \in DOMAIN code /\ p \in DOMAIN code /\ e \in DOMAIN code
  BY <1>1, <1>2, <1>7, <1>18
<1> DEFINE Ordered(begins, x, y, z) ==
             /\ code[x] = "tokenize" /\ code[y] = "parse" /\ code[z] = "emit"
             /\ x < y /\ y < z
             /\ begins < x /\ \A k \in begins .. x : Opens(code, begins, k) > Shuts(code, begins, k)
             /\ begins < z /\ \A k \in begins .. z : Opens(code, begins, k) > Shuts(code, begins, k)
             /\ \A i \in begins .. y - 1 : code[i] = "emit" => code[i + 1] # "("
             /\ \A name_ \in ToSet(Stages) : \E i \in 2 .. Len(code) : code[i] = name_ /\ code[i - 1] = "sp"
<1> HIDE DEF t, p, e
<1>25. Ordered(b, t, p, e)
  <2>1. b \in Nat /\ t \in Nat /\ p \in Nat /\ e \in Nat /\ b < e BY <1>3, <1>8, <1>18
  <2>2. QED BY <1>18, <1>20, <1>21, <1>22, <1>23, <2>1
<1>26. \E begins \in Bodies(code, "compile"), x, y, z \in DOMAIN code : Ordered(begins, x, y, z)
  <2> HIDE DEF Ordered
  <2>1. QED BY <1>24, <1>25, Zenon
<1>27. QED BY <1>26, Zenon DEF code

-----------------------------------------------------------------------------
(* The checklist, line by line.                                            *)

LEMMA ChecklistSteps ==
  ASSUME NEW text, Len(text) \in Nat
  PROVE  \E f : /\ f[0] = NotInTable({}) /\ ExtractCited(text) = f[Len(text)].cited
                /\ \A i \in 1 .. Len(text) : f[i] = ReadOn(f[i - 1], text, i)
<1> DEFINE l == Len(text)
           Step(was, i) == ReadOn(was, text, i)
           Upto(m, f) == f = [i \in 0 .. m |-> IF i = 0 THEN NotInTable({}) ELSE Step(f[i - 1], i)]
           S == {m \in 0 .. l : \E f : Upto(m, f)}
<1>1. ExtractCited(text) = (CHOOSE f : Upto(l, f))[l].cited BY DEF ExtractCited
<1> HIDE DEF l, Step
<1>0. l \in Nat BY DEF l
<1>2. 0 \in S
  <2>1. Upto(0, [i \in 0 .. 0 |-> NotInTable({})]) OBVIOUS
  <2>2. \E f : Upto(0, f) BY <2>1, Zenon
  <2>3. QED BY <1>0, <2>2
<1>3. ASSUME NEW m \in 0 .. l, m \in S, m < l PROVE m + 1 \in S
  <2>1. PICK f : Upto(m, f) BY <1>3
  <2> DEFINE g == [i \in 0 .. m + 1 |-> IF i = m + 1 THEN Step(f[m], m + 1) ELSE f[i]]
  <2>2. m \in Nat /\ m + 1 \in 0 .. l BY <1>0, <1>3
  <2>3. \A i \in 0 .. m : g[i] = f[i] BY <2>2
  <2>4. ASSUME NEW i \in 0 .. m + 1
        PROVE  g[i] = IF i = 0 THEN NotInTable({}) ELSE Step(g[i - 1], i)
    <3>1. CASE i = m + 1
      <4>1. i # 0 /\ i - 1 = m /\ m \in 0 .. m BY <2>2, <3>1
      <4>2. g[i] = Step(f[m], m + 1) BY <2>2, <3>1
      <4>3. g[i - 1] = f[m] BY <2>3, <4>1
      <4>4. QED BY <3>1, <4>1, <4>2, <4>3
    <3>2. CASE i # m + 1
      <4>1. i \in 0 .. m /\ (i # 0 => i - 1 \in 0 .. m) BY <2>2, <3>2
      <4>2. f[i] = IF i = 0 THEN NotInTable({}) ELSE Step(f[i - 1], i) BY <2>1, <4>1
      <4>3. g[i] = f[i] /\ (i # 0 => g[i - 1] = f[i - 1]) BY <2>3, <4>1
      <4>4. QED BY <4>2, <4>3
    <3>3. QED BY <3>1, <3>2
  <2>5. g = [i \in 0 .. m + 1 |-> g[i]] OBVIOUS
  <2> HIDE DEF g
  <2>6. Upto(m + 1, g) BY <2>4, <2>5
  <2>7. QED BY <2>2, <2>6
<1>4. \E f : Upto(l, f)
  <2>1. 0 .. l \subseteq S 
    <3> HIDE DEF S
    <3>1. QED BY <1>0, <1>2, <1>3, UpToInduction
  <2>2. l \in 0 .. l BY <1>0
  <2>3. QED BY <2>1, <2>2
<1> DEFINE read == CHOOSE f : Upto(l, f)
<1>5. Upto(l, read) BY <1>4
<1>6. ExtractCited(text) = read[l].cited BY <1>1
<1> HIDE DEF read
<1>7. read[0] = NotInTable({}) BY <1>0, <1>5
<1>8. ASSUME NEW i \in 1 .. l PROVE read[i] = Step(read[i - 1], i)
  <2>1. i \in 0 .. l /\ i # 0 BY <1>0
  <2>2. QED BY <1>5, <2>1
<1>9. QED BY <1>6, <1>7, <1>8 DEF l, Step

TopOf(text, i, s) == (\A k \in s .. i : IsTableRow(text[k])) /\ (s > 1 => ~IsTableRow(text[s - 1]))

(* A row has one first row of its table.                                   *)
LEMMA TableTopIs ==
  ASSUME NEW text, NEW i \in Nat \ {0}, IsTableRow(text[i])
  PROVE  /\ TableTop(text, i) \in 1 .. i /\ TopOf(text, i, TableTop(text, i))
         /\ \A s \in 1 .. i : TopOf(text, i, s) => TableTop(text, i) = s
<1> DEFINE S == {s \in 1 .. i : \A k \in s .. i : IsTableRow(text[k])}
           top == TableTop(text, i)
<1>1. i \in S OBVIOUS
<1>2. PICK x \in S : \A y \in S : x <= y
  <2>1. S # {} BY <1>1
  <2>2. S \in SUBSET Nat OBVIOUS
  <2> HIDE DEF S
  <2>3. QED BY <2>1, <2>2, LeastElement
<1>3. TopOf(text, i, x)
  <2> SUFFICES ASSUME x > 1, IsTableRow(text[x - 1]) PROVE FALSE
    BY <1>2 DEF TopOf
  <2>1. x - 1 \in 1 .. i /\ ~(x <= x - 1) /\ \A k \in x - 1 .. i : k = x - 1 \/ k \in x .. i OBVIOUS
  <2>2. x - 1 \in S BY <2>1
  <2>3. QED BY <1>2, <2>1, <2>2
<1>4. top = CHOOSE s \in 1 .. i : TopOf(text, i, s) BY DEF TableTop, TopOf
<1>5. \E s \in 1 .. i : TopOf(text, i, s) BY <1>2, <1>3
<1> HIDE DEF top
<1>6. top \in 1 .. i /\ TopOf(text, i, top) BY <1>4, <1>5
<1>7. ASSUME NEW s \in 1 .. i, TopOf(text, i, s) PROVE top = s
  <2>1. ~(top < s)
    <3>1. top < s => s > 1 /\ s - 1 \in top .. i BY <1>6
    <3>2. QED BY <1>6, <1>7, <3>1 DEF TopOf
  <2>2. ~(s < top)
    <3>1. s < top => top > 1 /\ top - 1 \in s .. i BY <1>6
    <3>2. QED BY <1>6, <1>7, <3>1 DEF TopOf
  <2>3. QED BY <1>6, <2>1, <2>2
<1>8. QED BY <1>6, <1>7 DEF top

LEMMA TableTopStep ==
  ASSUME NEW text, NEW i \in Nat \ {0}, IsTableRow(text[i])
  PROVE  /\ i > 1 /\ IsTableRow(text[i - 1]) => TableTop(text, i) = TableTop(text, i - 1)
         /\ ~(i > 1 /\ IsTableRow(text[i - 1])) => TableTop(text, i) = i
<1>1. ASSUME i > 1, IsTableRow(text[i - 1]) PROVE TableTop(text, i) = TableTop(text, i - 1)
  <2> DEFINE s == TableTop(text, i - 1)
  <2>1. i - 1 \in Nat \ {0} BY <1>1
  <2>2. s \in 1 .. i - 1 /\ TopOf(text, i - 1, s) BY <1>1, <2>1, TableTopIs
  <2> HIDE DEF s
  <2>3. s \in 1 .. i /\ \A k \in s .. i : k \in s .. i - 1 \/ k = i BY <2>2
  <2>4. TopOf(text, i, s) BY <2>2, <2>3 DEF TopOf
  <2>5. TableTop(text, i) = s BY <2>3, <2>4, TableTopIs
  <2>6. QED BY <2>5 DEF s
<1>2. ASSUME ~(i > 1 /\ IsTableRow(text[i - 1])) PROVE TableTop(text, i) = i
  <2>1. i .. i = {i} /\ i \in 1 .. i OBVIOUS
  <2>2. TopOf(text, i, i) BY <1>2, <2>1 DEF TopOf
  <2>3. QED BY <2>1, <2>2, TableTopIs
<1>3. QED BY <1>1, <1>2

IsReading(s) == s \in [cited : {s.cited}, table : BOOLEAN, column : {s.column}, skip : BOOLEAN]

LEMMA ReadStep ==
  ASSUME NEW text, NEW i, NEW was, IsReading(was), NEW now, now = ReadOn(was, text, i)
  PROVE  /\ IsReading(now)
         /\ was.skip => now.cited = was.cited /\ now.table = was.table /\ now.column = was.column /\ ~now.skip
         /\ ~was.skip =>
              /\ text[i].form = "header" => now.cited = was.cited \union IdsIn(text[i].ids) /\ ~now.table /\ ~now.skip
              /\ HeadsTable(text, i) =>
                   now.cited = was.cited /\ now.table /\ now.column = RequirementColumn(text[i]) /\ now.skip
              /\ was.table /\ IsTableRow(text[i]) /\ ~HeadsTable(text, i) =>
                   /\ now.cited = was.cited \union CitedIn(text[i], was.column)
                   /\ now.table /\ now.column = was.column /\ ~now.skip
              /\ text[i].form # "header" /\ ~HeadsTable(text, i) /\ ~(was.table /\ IsTableRow(text[i])) =>
                   now.cited = was.cited /\ ~now.table /\ ~now.skip
<1>1. ASSUME was.skip
      PROVE  /\ IsReading(now)
             /\ now.cited = was.cited /\ now.table = was.table /\ now.column = was.column /\ ~now.skip
  <2>1. now = [was EXCEPT !.skip = FALSE] BY <1>1 DEF ReadOn
  <2>2. QED BY <2>1 DEF IsReading
<1>2. ASSUME NEW c
      PROVE  /\ IsReading(NotInTable(c)) /\ NotInTable(c).cited = c /\ ~NotInTable(c).table /\ ~NotInTable(c).skip
  BY DEF IsReading, NotInTable
<1>3. ASSUME ~was.skip, text[i].form = "header"
      PROVE  IsReading(now) /\ now.cited = was.cited \union IdsIn(text[i].ids) /\ ~now.table /\ ~now.skip
  <2>1. now = NotInTable(was.cited \union IdsIn(text[i].ids))
    BY <1>3 DEF ReadOn, HeadsTable, IsTableRow
  <2>2. QED BY <1>2, <2>1
<1>4. ASSUME ~was.skip, HeadsTable(text, i)
      PROVE  /\ IsReading(now)
             /\ now.cited = was.cited /\ now.table /\ now.column = RequirementColumn(text[i]) /\ now.skip
  <2>1. text[i].form # "header" BY <1>4 DEF HeadsTable, IsTableRow
  <2>2. now = Headed(was, text[i]) BY <1>4, <2>1 DEF ReadOn
  <2> DEFINE c == RequirementColumn(text[i])
             one == [was EXCEPT !.table = TRUE]
             two == [one EXCEPT !.column = c]
  <2>3. now = [two EXCEPT !.skip = TRUE] BY <2>2 DEF Headed
  <2> HIDE DEF c
  <2>4. IsReading(one) /\ one.cited = was.cited /\ one.table BY DEF IsReading
  <2> HIDE DEF one
  <2>5. IsReading(two) /\ two.cited = one.cited /\ two.table = one.table /\ two.column = c BY <2>4 DEF IsReading
  <2> HIDE DEF two
  <2>6. IsReading(now) /\ now.cited = two.cited /\ now.table = two.table /\ now.column = two.column /\ now.skip
    BY <2>3, <2>5 DEF IsReading
  <2>7. QED BY <2>4, <2>5, <2>6 DEF c
<1>5. ASSUME ~was.skip, was.table, IsTableRow(text[i]), ~HeadsTable(text, i)
      PROVE  /\ IsReading(now)
             /\ now.cited = was.cited \union CitedIn(text[i], was.column)
             /\ now.table /\ now.column = was.column /\ ~now.skip
  <2>1. text[i].form # "header" BY <1>5 DEF IsTableRow
  <2> DEFINE more == was.cited \union CitedIn(text[i], was.column)
  <2>2. now = [was EXCEPT !.cited = more] BY <1>5, <2>1 DEF ReadOn
  <2> HIDE DEF more
  <2>3. IsReading(now) /\ now.cited = more /\ now.table = was.table /\ now.column = was.column /\ now.skip = was.skip
    BY <2>2 DEF IsReading
  <2>4. QED BY <1>5, <2>3 DEF more
<1>6. ASSUME ~was.skip, text[i].form # "header", ~HeadsTable(text, i), ~(was.table /\ IsTableRow(text[i]))
      PROVE  IsReading(now) /\ now.cited = was.cited /\ ~now.table /\ ~now.skip
  <2>1. now = NotInTable(was.cited) BY <1>6 DEF ReadOn
  <2>2. QED BY <1>2, <2>1
<1>7. QED BY <1>1, <1>3, <1>4, <1>5, <1>6

StandsInTable(text, i) == IsTableRow(text[i]) /\ HeadsTable(text, TableTop(text, i))

(* Where the tables of a well drawn checklist are.                         *)
LEMMA TablesAre ==
  ASSUME NEW text, NEW T, text \in Seq(T), DrawnWell(text), NEW i \in DOMAIN text
  PROVE  /\ HeadsTable(text, i) => TableTop(text, i) = i /\ text[i].form = "row"
         /\ text[i].form = "rule" => i > 1 /\ HeadsTable(text, i - 1) /\ TableTop(text, i) = i - 1
         /\ IsTableRow(text[i]) /\ ~HeadsTable(text, i) =>
              /\ StandsInTable(text, i) <=> i > 1 /\ StandsInTable(text, i - 1)
              /\ StandsInTable(text, i) => TableTop(text, i) = TableTop(text, i - 1)
         /\ InBodyOfTable(text, i) <=> /\ StandsInTable(text, i) /\ text[i].form = "row" /\ ~HeadsTable(text, i)
                                       /\ i > 1 => ~HeadsTable(text, i - 1)
<1> DEFINE l == Len(text)
<1>1. l \in Nat /\ DOMAIN text = 1 .. l /\ i \in Nat \ {0} /\ i <= l OBVIOUS
<1>2. ASSUME HeadsTable(text, i) PROVE TableTop(text, i) = i /\ text[i].form = "row"
  <2>1. IsTableRow(text[i]) /\ i + 1 \in DOMAIN text /\ text[i + 1].form = "rule" BY <1>1, <1>2 DEF HeadsTable
  <2>2. text[(i + 1) - 1].form = "row" /\ TableTop(text, i + 1) = (i + 1) - 1 BY <2>1 DEF DrawnWell
  <2>3. (i + 1) - 1 = i /\ i + 1 \in Nat \ {0} BY <1>1
  <2>4. IsTableRow(text[i + 1]) BY <2>1 DEF IsTableRow
  <2>5. TableTop(text, i + 1) = TableTop(text, i)
    <3>1. i + 1 > 1 /\ IsTableRow(text[(i + 1) - 1]) BY <1>1, <2>1, <2>3
    <3>2. TableTop(text, i + 1) = TableTop(text, (i + 1) - 1) BY <2>3, <2>4, <3>1, TableTopStep
    <3>3. QED BY <2>3, <3>2
  <2>6. QED BY <2>2, <2>3, <2>5
<1>3. ASSUME text[i].form = "rule"
      PROVE  i > 1 /\ HeadsTable(text, i - 1) /\ TableTop(text, i) = i - 1
  <2>1. i > 1 /\ text[i - 1].form = "row" /\ TableTop(text, i) = i - 1 BY <1>3 DEF DrawnWell
  <2>2. i - 1 < l /\ (i - 1) + 1 = i BY <1>1
  <2>3. QED BY <1>3, <2>1, <2>2 DEF HeadsTable, IsTableRow
<1>4. ASSUME IsTableRow(text[i]), ~HeadsTable(text, i)
      PROVE  /\ StandsInTable(text, i) <=> i > 1 /\ StandsInTable(text, i - 1)
             /\ StandsInTable(text, i) => TableTop(text, i) = TableTop(text, i - 1)
  <2>1. CASE i > 1 /\ IsTableRow(text[i - 1])
    <3>1. TableTop(text, i) = TableTop(text, i - 1) BY <1>1, <1>4, <2>1, TableTopStep
    <3>2. QED BY <1>4, <2>1, <3>1 DEF StandsInTable
  <2>2. CASE ~(i > 1 /\ IsTableRow(text[i - 1]))
    <3>1. TableTop(text, i) = i BY <1>1, <1>4, <2>2, TableTopStep
    <3>2. QED BY <1>4, <2>2, <3>1 DEF StandsInTable
  <2>3. QED BY <2>1, <2>2
<1> DEFINE top == TableTop(text, i)
<1>5. IsTableRow(text[i]) => top \in 1 .. i /\ IsTableRow(text[top])
  <2> SUFFICES ASSUME IsTableRow(text[i]) PROVE top \in 1 .. i /\ IsTableRow(text[top])
    OBVIOUS
  <2>1. top \in 1 .. i /\ TopOf(text, i, top) BY <1>1, TableTopIs
  <2>2. top \in top .. i BY <2>1
  <2>3. QED BY <2>1, <2>2 DEF TopOf
<1>6. ASSUME InBodyOfTable(text, i)
      PROVE  /\ StandsInTable(text, i) /\ text[i].form = "row" /\ ~HeadsTable(text, i)
             /\ i > 1 => ~HeadsTable(text, i - 1)
  <2>1. text[i].form = "row" /\ top + 2 <= i /\ text[top + 1].form = "rule" BY <1>6 DEF InBodyOfTable
  <2>2. IsTableRow(text[i]) BY <2>1 DEF IsTableRow
  <2>3. top \in 1 .. i /\ IsTableRow(text[top]) BY <1>5, <2>2
  <2>4. top < l /\ top # i /\ top # i - 1 /\ i > 1 BY <1>1, <2>1, <2>3
  <2>5. HeadsTable(text, top) BY <2>1, <2>3, <2>4 DEF HeadsTable
  <2>6. ~HeadsTable(text, i) BY <1>2, <2>4
  <2>7. ASSUME HeadsTable(text, i - 1) PROVE FALSE
    <3>1. i = (i - 1) + 1 BY <1>1
    <3>2. text[(i - 1) + 1].form = "rule" BY <2>7 DEF HeadsTable
    <3>3. QED BY <2>1, <3>1, <3>2
  <2>8. QED BY <2>1, <2>2, <2>5, <2>6, <2>7 DEF StandsInTable
<1>7. ASSUME StandsInTable(text, i), text[i].form = "row", ~HeadsTable(text, i), i > 1 => ~HeadsTable(text, i - 1)
      PROVE  InBodyOfTable(text, i)
  <2>1. top \in 1 .. i /\ HeadsTable(text, top) BY <1>5, <1>7 DEF StandsInTable
  <2>2. top # i BY <1>7, <2>1
  <2>3. top # i - 1
    <3> SUFFICES ASSUME top = i - 1 PROVE FALSE
      OBVIOUS
    <3>1. i > 1 /\ HeadsTable(text, i - 1) BY <1>1, <2>1
    <3>2. QED BY <1>7, <3>1
  <2>4. top + 2 <= i BY <1>1, <2>1, <2>2, <2>3
  <2>5. text[top + 1].form = "rule" BY <2>1 DEF HeadsTable
  <2>6. QED BY <1>7, <2>4, <2>5 DEF InBodyOfTable
<1>8. QED BY <1>2, <1>3, <1>4, <1>6, <1>7

CitesAt(text, k, r) ==
  \/ text[k].form = "header" /\ r \in IdsIn(text[k].ids)
  \/ InBodyOfTable(text, k) /\ r \in CitedIn(text[k], RequirementColumn(text[TableTop(text, k)]))

(* What has been read of the first i lines.                                *)
HasCited(text, i, s) ==
  /\ IsReading(s)
  /\ \A r : r \in s.cited <=> \E k \in 1 .. i : CitesAt(text, k, r)
  /\ s.skip <=> i > 0 /\ HeadsTable(text, i)
  /\ s.table <=> i > 0 /\ StandsInTable(text, i)
  /\ s.table => s.column = RequirementColumn(text[TableTop(text, i)])

LEMMA HasCitedStep ==
  ASSUME NEW text, NEW T, text \in Seq(T), DrawnWell(text), NEW j \in Nat, j + 1 \in DOMAIN text,
         NEW was, HasCited(text, j, was)
  PROVE  HasCited(text, j + 1, ReadOn(was, text, j + 1))
<1> DEFINE i == j + 1
           now == ReadOn(was, text, i)
<1>1. i \in Nat /\ i > 0 /\ i - 1 = j /\ 1 .. i = (1 .. j) \union {i} /\ (i > 1 <=> j > 0) OBVIOUS
<1>2. IsReading(was) /\ (was.skip <=> j > 0 /\ HeadsTable(text, j)) /\ (was.table <=> j > 0 /\ StandsInTable(text, j))
  BY DEF HasCited
<1>3. was.table => was.column = RequirementColumn(text[TableTop(text, j)]) BY DEF HasCited
<1> HIDE DEF i, now
<1>4. /\ IsReading(now)
      /\ was.skip => now.cited = was.cited /\ now.table = was.table /\ now.column = was.column /\ ~now.skip
      /\ ~was.skip =>
           /\ text[i].form = "header" => now.cited = was.cited \union IdsIn(text[i].ids) /\ ~now.table /\ ~now.skip
           /\ HeadsTable(text, i) =>
                now.cited = was.cited /\ now.table /\ now.column = RequirementColumn(text[i]) /\ now.skip
           /\ was.table /\ IsTableRow(text[i]) /\ ~HeadsTable(text, i) =>
                /\ now.cited = was.cited \union CitedIn(text[i], was.column)
                /\ now.table /\ now.column = was.column /\ ~now.skip
           /\ text[i].form # "header" /\ ~HeadsTable(text, i) /\ ~(was.table /\ IsTableRow(text[i])) =>
                now.cited = was.cited /\ ~now.table /\ ~now.skip
  BY <1>2, ReadStep DEF now
<1>5. i \in DOMAIN text BY DEF i
<1>6. /\ HeadsTable(text, i) => TableTop(text, i) = i /\ text[i].form = "row"
      /\ text[i].form = "rule" => i > 1 /\ HeadsTable(text, j) /\ TableTop(text, i) = j
      /\ IsTableRow(text[i]) /\ ~HeadsTable(text, i) =>
           /\ StandsInTable(text, i) <=> j > 0 /\ StandsInTable(text, j)
           /\ StandsInTable(text, i) => TableTop(text, i) = TableTop(text, j)
      /\ InBodyOfTable(text, i) <=> /\ StandsInTable(text, i) /\ text[i].form = "row" /\ ~HeadsTable(text, i)
                                    /\ j > 0 => ~HeadsTable(text, j)
  <2>1. i - 1 = j BY <1>1
  <2>2. QED BY <1>1, <1>5, <2>1, TablesAre
<1>7. IsTableRow(text[i]) <=> text[i].form = "row" \/ text[i].form = "rule" BY DEF IsTableRow
<1>8. /\ HeadsTable(text, i) => IsTableRow(text[i])
      /\ j > 0 /\ HeadsTable(text, j) => text[i].form = "rule" /\ StandsInTable(text, j)
  <2>1. HeadsTable(text, i) => IsTableRow(text[i]) BY DEF HeadsTable
  <2>2. ASSUME j > 0, HeadsTable(text, j) PROVE text[i].form = "rule" /\ StandsInTable(text, j)
    <3>1. text[i].form = "rule" /\ IsTableRow(text[j]) BY <2>2 DEF HeadsTable, i
    <3>2. j \in DOMAIN text BY <1>1, <1>5, <2>2
    <3>3. TableTop(text, j) = j BY <2>2, <3>2, TablesAre
    <3>4. QED BY <2>2, <3>1, <3>3 DEF StandsInTable
  <2>3. QED BY <2>1, <2>2
<1>9. /\ now.skip <=> HeadsTable(text, i)
      /\ now.table <=> StandsInTable(text, i)
      /\ now.table => now.column = RequirementColumn(text[TableTop(text, i)])
  <2>1. CASE was.skip
    <3>1. text[i].form = "rule" /\ j > 0 /\ StandsInTable(text, j) /\ ~HeadsTable(text, i) BY <1>2, <1>6, <1>8, <2>1
    <3>2. StandsInTable(text, i) /\ TableTop(text, i) = TableTop(text, j) BY <1>6, <1>7, <3>1
    <3>3. QED BY <1>2, <1>3, <1>4, <2>1, <3>1, <3>2
  <2>2. CASE ~was.skip /\ text[i].form = "header"
    <3>1. ~IsTableRow(text[i]) /\ ~HeadsTable(text, i) BY <1>7, <1>8, <2>2
    <3>2. QED BY <1>4, <2>2, <3>1 DEF StandsInTable
  <2>3. CASE ~was.skip /\ HeadsTable(text, i)
    <3>1. StandsInTable(text, i) BY <1>6, <1>8, <2>3 DEF StandsInTable
    <3>2. QED BY <1>4, <1>6, <2>3, <3>1
  <2>4. CASE ~was.skip /\ was.table /\ IsTableRow(text[i]) /\ ~HeadsTable(text, i)
    <3>1. StandsInTable(text, i) /\ TableTop(text, i) = TableTop(text, j) BY <1>2, <1>6, <2>4
    <3>2. QED BY <1>3, <1>4, <2>4, <3>1
  <2>5. CASE ~was.skip /\ text[i].form # "header" /\ ~HeadsTable(text, i) /\ ~(was.table /\ IsTableRow(text[i]))
    <3>1. ~StandsInTable(text, i) BY <1>2, <1>6, <2>5 DEF StandsInTable
    <3>2. QED BY <1>4, <2>5, <3>1
  <2>6. QED BY <2>2, <2>1, <2>3, <2>4, <2>5
<1>10. ASSUME NEW r PROVE r \in now.cited <=> r \in was.cited \/ CitesAt(text, i, r)
  <2> DEFINE col == RequirementColumn(text[TableTop(text, i)])
  <2>0. CitesAt(text, i, r) <=> \/ text[i].form = "header" /\ r \in IdsIn(text[i].ids)
                                \/ InBodyOfTable(text, i) /\ r \in CitedIn(text[i], col)
    BY DEF CitesAt
  <2>1. CASE was.skip
    <3>1. text[i].form = "rule" BY <1>2, <1>8, <2>1
    <3>2. ~CitesAt(text, i, r) BY <1>6, <2>0, <3>1
    <3>3. QED BY <1>4, <2>1, <3>2
  <2>2. CASE ~was.skip /\ text[i].form = "header"
    <3>1. ~InBodyOfTable(text, i) BY <1>6, <2>2
    <3>2. QED BY <1>4, <2>0, <2>2, <3>1
  <2>3. CASE ~was.skip /\ HeadsTable(text, i)
    <3>1. ~InBodyOfTable(text, i) /\ text[i].form # "header" BY <1>6, <2>3
    <3>2. QED BY <1>4, <2>0, <2>3, <3>1
  <2>4. CASE ~was.skip /\ was.table /\ IsTableRow(text[i]) /\ ~HeadsTable(text, i)
    <3>1. text[i].form = "row" BY <1>2, <1>6, <1>7, <1>1, <2>4
    <3>2. InBodyOfTable(text, i) /\ was.column = col BY <1>2, <1>3, <1>6, <2>4, <3>1
    <3>3. now.cited = was.cited \union CitedIn(text[i], col) BY <1>4, <2>4, <3>2
    <3> HIDE DEF col
    <3>4. QED BY <2>0, <3>1, <3>2, <3>3
  <2>5. CASE ~was.skip /\ text[i].form # "header" /\ ~HeadsTable(text, i) /\ ~(was.table /\ IsTableRow(text[i]))
    <3>1. ~InBodyOfTable(text, i) BY <1>2, <1>6, <1>7, <2>5
    <3>2. QED BY <1>4, <2>0, <2>5, <3>1
  <2>6. QED BY <2>1, <2>2, <2>3, <2>4, <2>5
<1>11. \A r : r \in now.cited <=> \E k \in 1 .. i : CitesAt(text, k, r)
  <2>1. \A r : r \in was.cited <=> \E k \in 1 .. j : CitesAt(text, k, r) BY DEF HasCited
  <2>2. QED BY <1>1, <1>10, <2>1
<1>12. HasCited(text, i, now) BY <1>1, <1>4, <1>9, <1>11 DEF HasCited
<1>13. QED BY <1>12 DEF i, now

LEMMA ChecklistCites ==
  ASSUME NEW text, NEW T, text \in Seq(T), DrawnWell(text)
  PROVE  \A r : r \in ExtractCited(text) <=> Cites(text, r)
<1> DEFINE l == Len(text)
<1>1. PICK f : /\ f[0] = NotInTable({}) /\ ExtractCited(text) = f[l].cited
               /\ \A i \in 1 .. l : f[i] = ReadOn(f[i - 1], text, i)
  <2>1. Len(text) \in Nat OBVIOUS
  <2>2. QED BY <2>1, ChecklistSteps
<1>2. l \in Nat /\ DOMAIN text = 1 .. l OBVIOUS
<1> HIDE DEF l
<1> DEFINE S == {i \in 0 .. l : HasCited(text, i, f[i])}
<1>3. 0 \in S
  <2>1. IsReading(f[0]) /\ f[0].cited = {} /\ ~f[0].table /\ ~f[0].skip BY <1>1 DEF NotInTable, IsReading
  <2>2. 1 .. 0 = {} OBVIOUS
  <2>3. HasCited(text, 0, f[0]) BY <2>1, <2>2 DEF HasCited
  <2>4. QED BY <1>2, <2>3
<1>4. ASSUME NEW j \in 0 .. l, j \in S, j < l PROVE j + 1 \in S
  <2>1. j \in Nat /\ j + 1 \in 1 .. l /\ j + 1 \in 0 .. l /\ (j + 1) - 1 = j /\ j + 1 \in DOMAIN text BY <1>2, <1>4
  <2>2. f[j + 1] = ReadOn(f[j], text, j + 1) /\ HasCited(text, j, f[j]) BY <1>1, <1>4, <2>1
  <2>3. HasCited(text, j + 1, f[j + 1]) BY <2>1, <2>2, HasCitedStep
  <2>4. QED BY <2>1, <2>3
<1>5. l \in S
  <2> HIDE DEF S
  <2>1. 0 .. l \subseteq S BY <1>2, <1>3, <1>4, UpToInduction
  <2>2. l \in 0 .. l BY <1>2
  <2>3. QED BY <2>1, <2>2
<1>6. \A r : r \in f[l].cited <=> \E k \in 1 .. l : CitesAt(text, k, r) BY <1>5 DEF HasCited
<1>7. \A r : Cites(text, r) <=> \E k \in 1 .. l : CitesAt(text, k, r) BY <1>2 DEF Cites, CitesAt
<1>8. QED BY <1>1, <1>6, <1>7

-----------------------------------------------------------------------------
(* Before the guards run nothing is known, then what they say of the       *)
(* exhibit.                                                                *)
GuardsInd ==
  /\ exhibit \in Exhibit
  /\ holds = {"not yet"} \/ holds = {g \in GuardsOf(exhibit.family) : GuardHolds(g, exhibit)}

LEMMA GuardsAsked ==
  ASSUME NEW e
  PROVE  LET hold == {g \in GuardsOf(e.family) : GuardHolds(g, e)}
         IN /\ e.family = "traceability" => ("traceability" \in hold <=> RequirementsAreCited(e))
            /\ e.family = "nesting" => (hold # {} <=> CommentsAreFlat(e))
            /\ e.family = "pipeline" /\ hold = {"pipeline", "staging"} => PipelineHolds(e) /\ StagingHolds(e)
            /\ e.family = "commit-msg" => (hold # {} <=> NobodyElseSigned(e))
            /\ e.family = "dce" /\ hold = {"dce"} => FillSurvives(e)
            /\ e.family = "parity" => /\ "manifest" \in hold <=> ManifestIsListed(e)
                                      /\ "tier" \in hold <=> TierIsGolden(e)
            /\ e.family = "raise" => /\ "no raise" \in hold <=> NoRaise(e)
                                     /\ "slices" \in hold <=> SlicesAreFree(e)
<1> DEFINE hold == {g \in GuardsOf(e.family) : GuardHolds(g, e)}
<1>1. /\ GuardHolds("traceability", e) <=> RequirementsAreCited(e)
      /\ GuardHolds("nesting", e) <=> CommentsAreFlat(e)
      /\ GuardHolds("pipeline", e) <=> PipelineHolds(e)
      /\ GuardHolds("staging", e) <=> StagingHolds(e)
      /\ GuardHolds("dce", e) <=> FillSurvives(e)
      /\ GuardHolds("commit-msg", e) <=> NobodyElseSigned(e)
      /\ GuardHolds("no raise", e) <=> NoRaise(e)
      /\ GuardHolds("slices", e) <=> SlicesAreFree(e)
      /\ GuardHolds("manifest", e) <=> ManifestIsListed(e)
      /\ GuardHolds("tier", e) <=> TierIsGolden(e)
  BY DEF GuardHolds
<1>2. /\ e.family = "traceability" => GuardsOf(e.family) = {"traceability"}
      /\ e.family = "nesting" => GuardsOf(e.family) = {"nesting"}
      /\ e.family = "pipeline" => GuardsOf(e.family) = {"pipeline", "staging"}
      /\ e.family = "commit-msg" => GuardsOf(e.family) = {"commit-msg"}
      /\ e.family = "dce" => GuardsOf(e.family) = {"dce"}
      /\ e.family = "parity" => GuardsOf(e.family) = {"manifest", "tier"}
      /\ e.family = "raise" => GuardsOf(e.family) = {"no raise", "slices"}
  BY DEF GuardsOf
<1>3. \A g : g \in hold <=> g \in GuardsOf(e.family) /\ GuardHolds(g, e) OBVIOUS
<1> HIDE DEF hold
<1>4. e.family = "traceability" => ("traceability" \in hold <=> RequirementsAreCited(e)) BY <1>1, <1>2, <1>3
<1>5. e.family = "nesting" => (hold # {} <=> CommentsAreFlat(e)) BY <1>1, <1>2, <1>3
<1>6. e.family = "pipeline" /\ hold = {"pipeline", "staging"} => PipelineHolds(e) /\ StagingHolds(e)
  BY <1>1, <1>2, <1>3
<1>7. e.family = "commit-msg" => (hold # {} <=> NobodyElseSigned(e)) BY <1>1, <1>2, <1>3
<1>8. e.family = "dce" /\ hold = {"dce"} => FillSurvives(e) BY <1>1, <1>2, <1>3
<1>9. e.family = "parity" => /\ "manifest" \in hold <=> ManifestIsListed(e)
                             /\ "tier" \in hold <=> TierIsGolden(e)
  BY <1>1, <1>2, <1>3
<1>10. e.family = "raise" => /\ "no raise" \in hold <=> NoRaise(e)
                             /\ "slices" \in hold <=> SlicesAreFree(e)
  BY <1>1, <1>2, <1>3
<1>11. QED BY <1>4, <1>5, <1>6, <1>7, <1>8, <1>9, <1>10 DEF hold

LEMMA GuardsIndReads == GuardsInd => GuardsReadTheText
<1> SUFFICES ASSUME GuardsInd, holds # {"not yet"} PROVE GuardsReadTheText
  BY DEF GuardsReadTheText
<1> DEFINE hold == {g \in GuardsOf(exhibit.family) : GuardHolds(g, exhibit)}
<1>1. exhibit \in Exhibit /\ holds = hold BY DEF GuardsInd
<1>2. /\ exhibit.family = "traceability" => ("traceability" \in holds <=> RequirementsAreCited(exhibit))
      /\ exhibit.family = "nesting" => (holds # {} <=> CommentsAreFlat(exhibit))
      /\ exhibit.family = "pipeline" /\ holds = {"pipeline", "staging"} => PipelineHolds(exhibit) /\ StagingHolds(exhibit)
      /\ exhibit.family = "commit-msg" => (holds # {} <=> NobodyElseSigned(exhibit))
      /\ exhibit.family = "dce" /\ holds = {"dce"} => FillSurvives(exhibit)
      /\ exhibit.family = "parity" => /\ "manifest" \in holds <=> ManifestIsListed(exhibit)
                                      /\ "tier" \in holds <=> TierIsGolden(exhibit)
      /\ exhibit.family = "raise" => /\ "no raise" \in holds <=> NoRaise(exhibit)
                                     /\ "slices" \in holds <=> SlicesAreFree(exhibit)
  BY <1>1, GuardsAsked
<1> HIDE DEF hold
<1>3. /\ exhibit.family = "traceability" => exhibit.text \in Seq(ToSet(exhibit.text))
      /\ exhibit.family = "nesting" => exhibit.text \in Seq(STRING)
      /\ exhibit.family = "pipeline" => exhibit.driver \in Seq(STRING)
      /\ exhibit.family = "dce" => exhibit.asm \in Seq(ToSet(exhibit.asm))
      /\ exhibit.family = "commit-msg" => exhibit.message \in Seq(ToSet(exhibit.message))
      /\ exhibit.family = "parity" => \A list \in {exhibit.manifest, exhibit.sources, exhibit.tier} :
                                        \A l \in FileLines(list.text) : l.pad \in BOOLEAN
  BY <1>1, ExhibitAssumption
<1>4. ChecklistIsRead
  <2> SUFFICES ASSUME exhibit.family = "traceability", DrawnWell(exhibit.text)
               PROVE  "traceability" \in holds <=> exhibit.there /\ \A r \in Active(exhibit) : Cites(exhibit.text, r)
    BY DEF ChecklistIsRead
  <2>1. \A r : r \in ExtractCited(exhibit.text) <=> Cites(exhibit.text, r) BY <1>3, ChecklistCites
  <2>2. QED BY <1>2, <2>1 DEF RequirementsAreCited
<1>5. CommentsAreRead
  <2> SUFFICES ASSUME exhibit.family = "nesting", exhibit.there
               PROVE  IF holds # {} THEN EndsAtFirstClose(exhibit.text)
                      ELSE Snares(exhibit.text) # {} \/ ~EndsAtFirstClose(exhibit.text \o <<"*", "/">>)
    BY DEF CommentsAreRead
  <2>0. exhibit.text \in Seq(STRING) BY <1>3
  <2>1. Len(exhibit.text) \in Nat BY <2>0, LenProperties
  <2>2. NestedOpens(exhibit.text) = {} => EndsAtFirstClose(exhibit.text) BY <2>1, FlatComments
  <2>3. NestedOpens(exhibit.text) # {} => ~EndsAtFirstClose(exhibit.text \o <<"*", "/">>) BY <1>3, NestedComments
  <2>4. QED BY <1>2, <2>2, <2>3 DEF CommentsAreFlat
<1>6. DriverIsRead
  <2>1. ASSUME exhibit.family = "pipeline", holds = {"pipeline", "staging"}, Plainspoken(exhibit.driver)
        PROVE  DriverCallsInOrder(exhibit.driver) /\ DeclaresSteps(exhibit.driver) /\ exhibit.driver \in Seq(STRING)
    BY <1>2, <1>3, <2>1 DEF PipelineHolds, StagingHolds
  <2>2. QED BY <2>1, DriverIsOrdered DEF DriverIsRead
<1>7. MessageIsRead
  <2>1. ASSUME exhibit.family = "commit-msg"
        PROVE  exhibit.message \in Seq(ToSet(exhibit.message)) /\ (holds # {} <=> NobodyElseSigned(exhibit))
    BY <1>2, <1>3, <2>1
  <2>2. QED BY <2>1, SignedIsRead DEF MessageIsRead
<1>8. StoreIsItsOwn
  <2>1. ASSUME exhibit.family = "dce", holds = {"dce"}
        PROVE  exhibit.asm \in Seq(ToSet(exhibit.asm)) /\ FillSurvives(exhibit)
    BY <1>2, <1>3, <2>1
  <2>2. QED BY <2>1, StoreIsRead DEF StoreIsItsOwn
<1>9. ListsAreRead
  <2> SUFFICES ASSUME exhibit.family = "parity", TypedPlainly(exhibit)
               PROVE  LET first == ParityCompares(exhibit.manifest)
                          second == ParityCompares(exhibit.tier)
                      IN /\ "manifest" \in holds => first \subseteq BootstrapFills(exhibit)
                         /\ "tier" \in holds => /\ second # {} /\ second \subseteq first
                                                /\ \A x \in second : x.file \in exhibit.golden
                         /\ holds = {"manifest", "tier"} => second \subseteq BootstrapFills(exhibit)
                         /\ (\A list \in {exhibit.manifest, exhibit.sources, exhibit.tier} : list.there) =>
                              /\ "manifest" \notin holds =>
                                   FileLines(exhibit.sources.text) = {} \/ ~(first \subseteq BootstrapFills(exhibit))
                              /\ "tier" \notin holds =>
                                   second = {} \/ \E x \in second : x \notin first \/ x.file \notin exhibit.golden
    BY DEF ListsAreRead
  <2> DEFINE first == ParityCompares(exhibit.manifest)
             second == ParityCompares(exhibit.tier)
             fills == BootstrapFills(exhibit)
             all == \A list \in {exhibit.manifest, exhibit.sources, exhibit.tier} : list.there
  <2>1. /\ ManifestIsListed(exhibit) => first \subseteq fills
        /\ TierIsGolden(exhibit) => second # {} /\ second \subseteq first /\ \A x \in second : x.file \in exhibit.golden
        /\ all => /\ ~ManifestIsListed(exhibit) => FileLines(exhibit.sources.text) = {} \/ ~(first \subseteq fills)
                  /\ ~TierIsGolden(exhibit) => second = {} \/ \E x \in second : x \notin first \/ x.file \notin exhibit.golden
    BY <1>3, ListsAreAlike
  <2>2. ("manifest" \in holds <=> ManifestIsListed(exhibit)) /\ ("tier" \in holds <=> TierIsGolden(exhibit)) BY <1>2
  <2>3. holds = {"manifest", "tier"} => "manifest" \in holds /\ "tier" \in holds OBVIOUS
  <2> HIDE DEF first, second, fills, all
  <2>4. holds = {"manifest", "tier"} => second \subseteq fills BY <2>1, <2>2, <2>3
  <2>5. QED BY <2>1, <2>2, <2>4 DEF first, second, fills, all
<1>10. exhibit.family = "raise" /\ "slices" \in holds /\ "M3-S-014" \in exhibit.activeSlices => "no raise" \in holds
  BY <1>2, SlicesAreRead
<1>11. QED BY <1>4, <1>5, <1>6, <1>7, <1>8, <1>9, <1>10 DEF GuardsReadTheText

(* What the guards say of a text by patterns is what the text says, for    *)
(* any texts, as long as they stand up to the forms that the patterns      *)
(* were made for (verify_native_exe_traceability, check_sv0_block_comment_ *)
(* nesting, verify_m3_g6_pipeline_contract and the others): of tables that *)
(* are drawn well, comments of any form, drivers without tokens in         *)
(* comments, messages of any form, any assembly and lists typed plainly.   *)
THEOREM GuardsAreReadAlways == SourceGuardsSpec => []GuardsReadTheText
<1>1. SourceGuardsInit => GuardsInd BY DEF SourceGuardsInit, GuardsStartOn, GuardsInd
<1>2. GuardsInd /\ [SourceGuardsNext]_guardVars => GuardsInd'
  <2> SUFFICES ASSUME GuardsInd, [SourceGuardsNext]_guardVars PROVE GuardsInd'
    OBVIOUS
  <2>1. CASE SourceGuardsNext BY <2>1 DEF SourceGuardsNext, GuardsInd
  <2>2. CASE UNCHANGED guardVars BY <2>2 DEF guardVars, GuardsInd
  <2>3. QED BY <2>1, <2>2
<1>3. QED BY <1>1, <1>2, GuardsIndReads, PTL DEF SourceGuardsSpec
=============================================================================
