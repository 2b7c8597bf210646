---------------------------- MODULE HelperProofs ----------------------------
(***************************************************************************)
(* Proofs about the two helpers the pipeline is built on.                  *)
(*                                                                         *)
(* AtomicText, for every number of calls and processes: as long as no      *)
(* process runs two calls at the same time, readers of the output path see *)
(* whole texts only, and the calls implement TextRegister.  The inductive  *)
(* invariant says who may reach a file: the temporary names and the output *)
(* path stand for different files, a running call writes to the file its   *)
(* own temporary name stands for, and a call that has not begun has no     *)
(* file yet.                                                               *)
(*                                                                         *)
(* Cancellation, for a group of any size, of any nature, and any number of *)
(* interrupts: what run_argv_cancellable reports is true.                  *)
(***************************************************************************)
EXTENDS AtomicText, Cancellation, TLAPS

(* Atomic text writes. *)

OneCallAtATime ==
  \A v, w \in Writer :
    pc[v] \in Running /\ pc[w] \in Running /\ PidOf[v] = PidOf[w] => v = w

NamesApart ==
  /\ \A p \in Pid : tmp[p] # output
  /\ \A p, q \in Pid : tmp[p] = tmp[q] /\ tmp[p] # None => p = q

WritesToOwnName ==
  \A w \in Writer : pc[w] \in Running =>
    fd[w] = tmp[PidOf[w]] /\ fd[w] # None

IdleHasNoFile ==
  \A w \in Writer : pc[w] = "idle" =>
    w # output /\ \A p \in Pid : tmp[p] # w

WrittenSoFar ==
  \A w \in Writer :
    /\ pc[w] \in {"write_tail", "rename"} => head[fd[w]] = w
    /\ pc[w] = "rename" => tail[fd[w]] = w

TextInd ==
  /\ TextTypeOK
  /\ OneCallAtATime
  /\ NamesApart
  /\ WritesToOwnName
  /\ IdleHasNoFile
  /\ WrittenSoFar
  /\ OutputIsWhole

-----------------------------------------------------------------------------

LEMMA TextInitInd == TextInit => TextInd
<1> SUFFICES ASSUME TextInit PROVE TextInd
  OBVIOUS
<1> USE PriorFileAssumption, WriterPidAssumption DEF TextInit, File
<1>1. TextTypeOK
  BY DEF TextTypeOK, TextLocation
<1>2. OutputIsWhole
  BY DEF OutputIsWhole, Whole
<1>3. OneCallAtATime /\ NamesApart /\ WritesToOwnName /\ IdleHasNoFile /\ WrittenSoFar
  BY DEF OneCallAtATime, NamesApart, WritesToOwnName, IdleHasNoFile, WrittenSoFar, Running
<1> QED
  BY <1>1, <1>2, <1>3 DEF TextInd

(* Opening truncates a file no other running call writes to and no reader  *)
(* sees: the call's own new one, or what a killed call of its process id   *)
(* left under the temporary name.                                          *)
LEMMA OpenTmpKeepsInd ==
  ASSUME Threaded = {}, TextInd, NEW w \in Writer, OpenTmp(w)
  PROVE  TextInd'
<1> USE PriorFileAssumption, WriterPidAssumption DEF TextInd
<1> DEFINE p == PidOf[w]
           f == IF tmp[p] = None THEN w ELSE tmp[p]
<1>0. /\ p \in Pid /\ f \in File /\ f # None
      /\ pc[w] = "idle" /\ pc' = [pc EXCEPT ![w] = "write_head"]
      /\ tmp' = [tmp EXCEPT ![p] = f]
      /\ fd' = [fd EXCEPT ![w] = f]
      /\ head' = [head EXCEPT ![f] = None]
      /\ tail' = [tail EXCEPT ![f] = None]
      /\ output' = output
      /\ \A v \in Colleagues(w) : pc[v] \notin Running
  BY DEF OpenTmp, Move, TextTypeOK, File, TmpName
<1>1. f # output
  BY <1>0 DEF NamesApart, IdleHasNoFile
<1>2. \A q \in Pid : q # p => tmp[q] # f
  BY <1>0 DEF NamesApart, IdleHasNoFile
<1>3. \A v \in Writer : v # w => pc'[v] = pc[v] /\ fd'[v] = fd[v]
  BY <1>0 DEF TextTypeOK
<1>4. pc'[w] = "write_head" /\ fd'[w] = f /\ tmp'[p] = f
  BY <1>0 DEF TextTypeOK
<1>5. \A q \in Pid : q # p => tmp'[q] = tmp[q]
  BY <1>0 DEF TextTypeOK
<1>6. \A v \in Writer : v # w /\ pc[v] \in Running => PidOf[v] # p
  BY <1>0 DEF Colleagues
<1>7. \A v \in Writer : v # w /\ pc[v] \in Running =>
        fd[v] # f /\ head'[fd[v]] = head[fd[v]] /\ tail'[fd[v]] = tail[fd[v]]
  BY <1>0, <1>2, <1>6 DEF WritesToOwnName, TextTypeOK
<1>a. TextTypeOK'
  BY <1>0 DEF TextTypeOK, TextLocation, Running
<1>b. OneCallAtATime'
  BY <1>3, <1>4, <1>6 DEF OneCallAtATime
<1>c. NamesApart'
  BY <1>0, <1>1, <1>2, <1>4, <1>5 DEF NamesApart
<1>d. WritesToOwnName'
  BY <1>0, <1>3, <1>4, <1>5, <1>6 DEF WritesToOwnName
<1>e. IdleHasNoFile'
  <2> SUFFICES ASSUME NEW v \in Writer, pc'[v] = "idle"
               PROVE  v # output /\ \A q \in Pid : tmp'[q] # v
    BY <1>0 DEF IdleHasNoFile
  <2>1. v # w /\ pc[v] = "idle"
    BY <1>3, <1>4
  <2>2. v # f
    BY <2>1, <1>0 DEF IdleHasNoFile
  <2> QED
    BY <2>1, <2>2, <1>4, <1>5 DEF IdleHasNoFile
<1>f. WrittenSoFar'
  BY <1>3, <1>4, <1>7 DEF WrittenSoFar, Running
<1>g. OutputIsWhole'
  BY <1>0, <1>1 DEF OutputIsWhole, Whole, TextTypeOK
<1> QED
  BY <1>a, <1>b, <1>c, <1>d, <1>e, <1>f, <1>g

(* A running call writes to a file that is neither at the output path nor  *)
(* open in another running call.                                           *)
LEMMA FilesApart ==
  ASSUME TextInd, NEW w \in Writer, pc[w] \in Running
  PROVE  /\ fd[w] \in File /\ fd[w] # output
         /\ \A v \in Writer : v # w /\ pc[v] \in Running => fd[v] # fd[w]
<1> USE WriterPidAssumption DEF TextInd
<1>1. fd[w] = tmp[PidOf[w]] /\ fd[w] # None /\ PidOf[w] \in Pid
  BY DEF WritesToOwnName
<1>2. fd[w] \in File /\ fd[w] # output
  BY <1>1 DEF TextTypeOK, NamesApart
<1>3. ASSUME NEW v \in Writer, v # w, pc[v] \in Running
      PROVE  fd[v] # fd[w]
  <2>1. PidOf[v] # PidOf[w] /\ PidOf[v] \in Pid
    BY <1>3 DEF OneCallAtATime
  <2>2. fd[v] = tmp[PidOf[v]]
    BY <1>3 DEF WritesToOwnName
  <2> QED
    BY <1>1, <2>1, <2>2 DEF NamesApart
<1> QED
  BY <1>2, <1>3

LEMMA WriteKeepsInd ==
  ASSUME TextInd, NEW w \in Writer, WriteHead(w) \/ WriteTail(w)
  PROVE  TextInd'
<1> USE PriorFileAssumption, WriterPidAssumption DEF TextInd
<1>0. /\ pc[w] \in {"write_head", "write_tail"}
      /\ pc' = [pc EXCEPT ![w] = IF pc[w] = "write_head" THEN "write_tail" ELSE "rename"]
      /\ head' = (IF pc[w] = "write_head" THEN [head EXCEPT ![fd[w]] = w] ELSE head)
      /\ tail' = (IF pc[w] = "write_tail" THEN [tail EXCEPT ![fd[w]] = w] ELSE tail)
      /\ UNCHANGED <<tmp, fd, output>>
  BY DEF WriteHead, WriteTail, Move
<1>1. /\ fd[w] \in File /\ fd[w] # output
      /\ \A v \in Writer : v # w /\ pc[v] \in Running => fd[v] # fd[w]
  BY <1>0, FilesApart DEF Running
<1>2. \A v \in Writer : v # w => pc'[v] = pc[v]
  BY <1>0 DEF TextTypeOK
<1>3. pc'[w] = IF pc[w] = "write_head" THEN "write_tail" ELSE "rename"
  BY <1>0 DEF TextTypeOK
<1>4. \A v \in Writer : pc'[v] \in Running => pc[v] \in Running
  BY <1>0, <1>2 DEF Running
<1>5. \A v \in Writer : pc'[v] = "idle" => pc[v] = "idle"
  BY <1>2, <1>3
<1>a. TextTypeOK'
  BY <1>0, <1>1 DEF TextTypeOK, TextLocation, Running, File
<1>b. OneCallAtATime' /\ NamesApart' /\ WritesToOwnName' /\ IdleHasNoFile'
  BY <1>0, <1>4, <1>5 DEF OneCallAtATime, NamesApart, WritesToOwnName, IdleHasNoFile
<1>c. WrittenSoFar'
  <2>1. ASSUME NEW v \in Writer, v # w
        PROVE  /\ pc'[v] \in {"write_tail", "rename"} => head'[fd'[v]] = v
               /\ pc'[v] = "rename" => tail'[fd'[v]] = v
    <3>1. pc[v] \in Running => head'[fd[v]] = head[fd[v]] /\ tail'[fd[v]] = tail[fd[v]]
      BY <1>0, <1>1, <2>1 DEF TextTypeOK
    <3> QED
      BY <3>1, <1>0, <1>2, <2>1 DEF WrittenSoFar, Running
  <2>2. /\ pc'[w] \in {"write_tail", "rename"} => head'[fd'[w]] = w
        /\ pc'[w] = "rename" => tail'[fd'[w]] = w
    BY <1>0, <1>1, <1>3 DEF WrittenSoFar, TextTypeOK
  <2> QED
    BY <2>1, <2>2 DEF WrittenSoFar
<1>d. OutputIsWhole'
  BY <1>0, <1>1 DEF OutputIsWhole, Whole, TextTypeOK
<1> QED
  BY <1>a, <1>b, <1>c, <1>d

(* The file that is renamed is the call's own, and whole. *)
LEMMA RenamedIsOwn ==
  ASSUME TextInd, NEW w \in Writer, pc[w] = "rename"
  PROVE  /\ tmp[PidOf[w]] = fd[w] /\ fd[w] \in File /\ fd[w] # None
         /\ head[fd[w]] = w /\ tail[fd[w]] = w
BY FilesApart DEF TextInd, WritesToOwnName, WrittenSoFar, Running

LEMMA RenameKeepsInd ==
  ASSUME TextInd, NEW w \in Writer, Rename(w)
  PROVE  TextInd'
<1> USE PriorFileAssumption, WriterPidAssumption DEF TextInd
<1> DEFINE p == PidOf[w]
<1>0. /\ pc[w] = "rename" /\ pc' = [pc EXCEPT ![w] = "done"]
      /\ tmp[p] # None /\ output' = tmp[p]
      /\ tmp' = [tmp EXCEPT ![p] = None]
      /\ UNCHANGED <<fd, head, tail>>
      /\ p \in Pid
  BY DEF Rename, Move, TmpName
<1>1. /\ output' = fd[w] /\ fd[w] \in File
      /\ head[fd[w]] = w /\ tail[fd[w]] = w
  BY <1>0, RenamedIsOwn
<1>2. tmp'[p] = None /\ \A q \in Pid : q # p => tmp'[q] = tmp[q]
  BY <1>0 DEF TextTypeOK
<1>3. pc'[w] = "done" /\ \A v \in Writer : v # w => pc'[v] = pc[v]
  BY <1>0 DEF TextTypeOK
<1>a. TextTypeOK'
  BY <1>0, <1>1 DEF TextTypeOK, TextLocation, Running
<1>b. OneCallAtATime'
  BY <1>3 DEF OneCallAtATime, Running
<1>c. NamesApart'
  <2>1. ASSUME NEW q \in Pid
        PROVE  tmp'[q] # output'
    <3>1. CASE q = p
      BY <3>1, <1>0, <1>2
    <3>2. CASE q # p
      BY <3>2, <1>0, <1>2 DEF NamesApart
    <3> QED
      BY <3>1, <3>2
  <2>2. \A q, r \in Pid : tmp'[q] = tmp'[r] /\ tmp'[q] # None => q = r
    BY <1>2 DEF NamesApart
  <2> QED
    BY <2>1, <2>2 DEF NamesApart
<1>d. WritesToOwnName'
  <2> SUFFICES ASSUME NEW v \in Writer, pc'[v] \in Running
               PROVE  fd'[v] = tmp'[PidOf[v]] /\ fd'[v] # None
    BY DEF WritesToOwnName
  <2>1. v # w /\ pc[v] \in Running
    BY <1>3 DEF Running
  <2>2. PidOf[v] # p /\ PidOf[v] \in Pid
    BY <2>1, <1>0 DEF OneCallAtATime, Running
  <2> QED
    BY <2>1, <2>2, <1>0, <1>2 DEF WritesToOwnName
<1>e. IdleHasNoFile'
  <2> SUFFICES ASSUME NEW v \in Writer, pc'[v] = "idle"
               PROVE  v # output' /\ \A q \in Pid : tmp'[q] # v
    BY DEF IdleHasNoFile
  <2>1. pc[v] = "idle"
    BY <1>3
  <2> QED
    BY <2>1, <1>0, <1>2 DEF IdleHasNoFile
<1>f. WrittenSoFar'
  BY <1>0, <1>3 DEF WrittenSoFar
<1>g. OutputIsWhole'
  BY <1>0, <1>1, PriorFileAssumption DEF OutputIsWhole, Whole
<1> QED
  BY <1>a, <1>b, <1>c, <1>d, <1>e, <1>f, <1>g

(* A call that fails or is killed only stops. *)
LEMMA StopKeepsInd ==
  ASSUME TextInd,
         UNCHANGED <<tmp, fd, head, tail, output>>,
         pc' \in [Writer -> TextLocation],
         \A w \in Writer : pc'[w] = pc[w] \/ pc'[w] \in {"failed", "killed"}
  PROVE  TextInd'
<1> USE DEF TextInd
<1>1. \A w \in Writer : pc'[w] \in Running => pc'[w] = pc[w]
  BY DEF Running
<1>2. \A w \in Writer : pc'[w] = "idle" => pc[w] = "idle"
  OBVIOUS
<1>3. TextTypeOK' /\ OutputIsWhole'
  BY DEF TextTypeOK, OutputIsWhole, Whole
<1>4. OneCallAtATime'
  BY <1>1 DEF OneCallAtATime
<1>5. NamesApart' /\ IdleHasNoFile'
  BY <1>2 DEF NamesApart, IdleHasNoFile
<1>6. WritesToOwnName'
  BY <1>1 DEF WritesToOwnName
<1>7. WrittenSoFar'
  BY <1>1 DEF WrittenSoFar, Running
<1> QED
  BY <1>3, <1>4, <1>5, <1>6, <1>7

LEMMA TextNextInd ==
  ASSUME Threaded = {}, TextInd, [TextNext]_textVars
  PROVE  TextInd'
<1>1. ASSUME NEW w \in Writer, OpenTmp(w)
      PROVE  TextInd'
  BY <1>1, OpenTmpKeepsInd
<1>2. ASSUME NEW w \in Writer, WriteHead(w) \/ WriteTail(w)
      PROVE  TextInd'
  BY <1>2, WriteKeepsInd
<1>3. ASSUME NEW w \in Writer, Rename(w)
      PROVE  TextInd'
  BY <1>3, RenameKeepsInd
<1>4. ASSUME NEW w \in Writer, RenameFails(w) \/ WriteRaises(w)
      PROVE  TextInd'
  <2>1. pc' = [pc EXCEPT ![w] = "failed"] /\ UNCHANGED <<tmp, fd, head, tail, output>>
    BY <1>4 DEF RenameFails, WriteRaises, Move
  <2>2. pc' \in [Writer -> TextLocation]
    BY <2>1 DEF TextInd, TextTypeOK, TextLocation
  <2>3. \A v \in Writer : pc'[v] = pc[v] \/ pc'[v] = "failed"
    BY <2>1 DEF TextInd, TextTypeOK
  <2> QED
    BY <2>1, <2>2, <2>3, StopKeepsInd
<1>5. ASSUME NEW p \in Pid, Kill(p)
      PROVE  TextInd'
  <2>1. /\ pc' = [v \in Writer |->
                   IF PidOf[v] = p /\ pc[v] \in Running THEN "killed" ELSE pc[v]]
        /\ UNCHANGED <<tmp, fd, head, tail, output>>
    BY <1>5 DEF Kill
  <2>2. pc' \in [Writer -> TextLocation]
    BY <2>1 DEF TextInd, TextTypeOK, TextLocation
  <2> QED
    BY <2>1, <2>2, StopKeepsInd
<1>6. CASE UNCHANGED textVars
  BY <1>6, StopKeepsInd DEF textVars, TextInd, TextTypeOK
<1> QED
  BY <1>1, <1>2, <1>3, <1>4, <1>5, <1>6 DEF TextNext

(* As long as no process runs two calls at once, the invariant holds.      *)
THEOREM TextInvariant == Threaded = {} /\ TextSpec => []TextInd
<1> SUFFICES ASSUME Threaded = {} PROVE TextSpec => []TextInd
  OBVIOUS
<1>1. TextInit => TextInd
  BY TextInitInd
<1>2. TextInd /\ [TextNext]_textVars => TextInd'
  BY TextNextInd
<1> QED
  BY <1>1, <1>2, PTL DEF TextSpec

(* Every variable of write_text_atomically's model keeps its type.         *)
THEOREM TextTypeCorrect == Threaded = {} /\ TextSpec => []TextTypeOK
<1>1. TextInd => TextTypeOK
  BY DEF TextInd
<1> QED
  BY <1>1, TextInvariant, PTL

(* A reader of the output path never observes a partially-written file, as *)
(* long as no process runs two calls of write_text_atomically at once.     *)
THEOREM ReadersSeeWholeTexts == Threaded = {} /\ TextSpec => []OutputIsWhole
<1>1. TextInd => OutputIsWhole
  BY DEF TextInd
<1> QED
  BY <1>1, TextInvariant, PTL

-----------------------------------------------------------------------------
(* The refinement                                                          *)

LEMMA TextInitRefines == TextInit => Register!RegisterInit
<1> SUFFICES ASSUME TextInit PROVE Register!RegisterInit
  OBVIOUS
<1>1. output = Prior /\ head[output] = Prior /\ Whole(output)
  BY PriorFileAssumption DEF TextInit, File, Whole
<1>2. \A w \in Writer : TextVerdict(w) = "pending"
  BY DEF TextInit, TextVerdict
<1> QED
  BY <1>1, <1>2 DEF Register!RegisterInit

LEMMA TextStepRefines ==
  ASSUME Threaded = {}, TextInd, TextInd', [TextNext]_textVars
  PROVE  [Register!RegisterNext]_(Register!registerVars)
<1> DEFINE text == IF Whole(output) THEN head[output] ELSE None
           verdict == [w \in Writer |-> TextVerdict(w)]
<1>0. TextTypeOK /\ Whole(output) /\ Whole(output)'
  BY DEF TextInd, OutputIsWhole
<1>1. ASSUME NEW w \in Writer, OpenTmp(w)
      PROVE  text' = text /\ verdict' = verdict
  <2> DEFINE f == IF tmp[PidOf[w]] = None THEN w ELSE tmp[PidOf[w]]
  <2>1. /\ pc[w] = "idle" /\ pc' = [pc EXCEPT ![w] = "write_head"]
        /\ head' = [head EXCEPT ![f] = None] /\ output' = output
    BY <1>1 DEF OpenTmp, Move, TmpName
  <2>2. f # output
    BY <2>1, WriterPidAssumption DEF TextInd, NamesApart, IdleHasNoFile
  <2>3. head'[output] = head[output]
    BY <2>1, <2>2, <1>0 DEF TextTypeOK
  <2>4. \A v \in Writer : TextVerdict(v)' = TextVerdict(v)
    BY <2>1, <1>0 DEF TextVerdict, TextTypeOK
  <2> QED
    BY <2>1, <2>3, <2>4, <1>0
<1>2. ASSUME NEW w \in Writer, WriteHead(w) \/ WriteTail(w)
      PROVE  text' = text /\ verdict' = verdict
  <2>1. /\ pc[w] \in {"write_head", "write_tail"}
        /\ \E to \in {"write_tail", "rename"} : pc' = [pc EXCEPT ![w] = to]
        /\ head' = [head EXCEPT ![fd[w]] = w] \/ head' = head
        /\ output' = output
    BY <1>2 DEF WriteHead, WriteTail, Move
  <2>2. fd[w] # output
    BY <2>1, FilesApart DEF Running
  <2>3. head'[output] = head[output]
    BY <2>1, <2>2, <1>0 DEF TextTypeOK
  <2>4. \A v \in Writer : TextVerdict(v)' = TextVerdict(v)
    BY <2>1, <1>0 DEF TextVerdict, TextTypeOK
  <2> QED
    BY <2>1, <2>3, <2>4, <1>0
<1>3. ASSUME NEW w \in Writer, Rename(w)
      PROVE  Register!Write(w)
  <2>1. /\ pc[w] = "rename" /\ pc' = [pc EXCEPT ![w] = "done"]
        /\ output' = tmp[PidOf[w]] /\ head' = head
    BY <1>3 DEF Rename, Move, TmpName
  <2>2. text' = w
    BY <2>1, <1>0, RenamedIsOwn
  <2>3. TextVerdict(w) = "pending" /\ TextVerdict(w)' = "written"
    BY <2>1, <1>0 DEF TextVerdict, TextTypeOK
  <2>4. \A v \in Writer : v # w => TextVerdict(v)' = TextVerdict(v)
    BY <2>1, <1>0 DEF TextVerdict, TextTypeOK
  <2>5. verdict' = [verdict EXCEPT ![w] = "written"]
    BY <2>3, <2>4
  <2> QED
    BY <2>2, <2>3, <2>5 DEF Register!Write
<1>4. ASSUME UNCHANGED <<head, tail, output>>,
             NEW losers \in SUBSET Writer,
             \A v \in losers : pc[v] \in Running /\ pc'[v] \in {"failed", "killed"},
             \A v \in Writer \ losers : pc'[v] = pc[v]
      PROVE  Register!Lose(losers)
  <2>1. text' = text
    BY <1>4, <1>0
  <2>2. \A v \in losers : TextVerdict(v) = "pending" /\ TextVerdict(v)' = "lost"
    BY <1>4 DEF TextVerdict, Running
  <2>3. \A v \in Writer \ losers : TextVerdict(v)' = TextVerdict(v)
    BY <1>4 DEF TextVerdict
  <2>4. verdict' = [v \in Writer |-> IF v \in losers THEN "lost" ELSE verdict[v]]
    BY <2>2, <2>3
  <2> QED
    BY <2>1, <2>2, <2>4 DEF Register!Lose
<1>5. ASSUME NEW w \in Writer, RenameFails(w) \/ WriteRaises(w)
      PROVE  Register!Lose({w})
  <2>1. /\ pc[w] \in Running /\ pc' = [pc EXCEPT ![w] = "failed"]
        /\ UNCHANGED <<head, tail, output>>
    BY <1>5 DEF RenameFails, WriteRaises, Move, Running
  <2>2. \A v \in {w} : pc[v] \in Running /\ pc'[v] \in {"failed", "killed"}
    BY <2>1, <1>0 DEF TextTypeOK
  <2>3. \A v \in Writer \ {w} : pc'[v] = pc[v]
    BY <2>1, <1>0 DEF TextTypeOK
  <2>4. {w} \in SUBSET Writer
    OBVIOUS
  <2> QED
    BY <2>1, <2>2, <2>3, <2>4, <1>4
<1>6. ASSUME NEW p \in Pid, Kill(p)
      PROVE  \E losers \in SUBSET Writer : Register!Lose(losers)
  <2> DEFINE losers == {v \in Writer : PidOf[v] = p /\ pc[v] \in Running}
  <2>1. /\ losers \in SUBSET Writer
        /\ UNCHANGED <<head, tail, output>>
        /\ \A v \in losers : pc[v] \in Running /\ pc'[v] \in {"failed", "killed"}
        /\ \A v \in Writer \ losers : pc'[v] = pc[v]
    BY <1>6 DEF Kill
  <2>2. Register!Lose(losers)
    <3> HIDE DEF losers
    <3> QED
      BY <2>1, <1>4
  <2> QED
    BY <2>1, <2>2
<1>7. CASE UNCHANGED textVars
  <2>1. text' = text /\ verdict' = verdict
    BY <1>7, <1>0 DEF textVars, TextVerdict, Whole
  <2> QED
    BY <2>1 DEF Register!registerVars
<1>8. CASE TextNext
  <2>1. CASE \E w \in Writer : OpenTmp(w) \/ WriteHead(w) \/ WriteTail(w)
    BY <2>1, <1>1, <1>2 DEF Register!registerVars
  <2>2. CASE \E w \in Writer : Rename(w)
    BY <2>2, <1>3 DEF Register!RegisterNext
  <2>3. CASE \E w \in Writer : RenameFails(w) \/ WriteRaises(w)
    BY <2>3, <1>5 DEF Register!RegisterNext
  <2>4. CASE \E p \in Pid : Kill(p)
    BY <2>4, <1>6 DEF Register!RegisterNext
  <2> QED
    BY <1>8, <2>1, <2>2, <2>3, <2>4 DEF TextNext
<1> QED
  BY <1>7, <1>8

(* The calls implement a register: one whole text replaces another in one  *)
(* step, and a call that fails or is killed leaves the path alone.         *)
THEOREM TextImplementsRegister == Threaded = {} /\ TextSpec => ImplementsRegister
<1> SUFFICES ASSUME Threaded = {} PROVE TextSpec => ImplementsRegister
  OBVIOUS
<1>1. TextInit => Register!RegisterInit
  BY TextInitRefines
<1>2. TextInd /\ TextInd' /\ [TextNext]_textVars
        => [Register!RegisterNext]_(Register!registerVars)
  BY TextStepRefines
<1>3. TextSpec => []TextInd
  BY TextInvariant
<1> QED
  BY <1>1, <1>2, <1>3, PTL DEF TextSpec, ImplementsRegister, Register!RegisterSpec

-----------------------------------------------------------------------------
(* Cancellable subprocesses. *)

(* The group is signalled at once and as a whole: whoever is left is       *)
(* stubborn or was sent SIGTERM, and a child that ended by a signal was    *)
(* sent SIGTERM or has been killed with everybody else.                    *)
SignalledAsAGroup ==
  /\ doomed # {} => alive \subseteq stubborn \union doomed
  /\ exitedBy = "signal" => Leader \in doomed \/ alive = {}

(* Before the termination starts nobody has been signalled, and the call   *)
(* has no outcome before it is over.                                       *)
NothingYet ==
  /\ caller \in {"check", "wait"} => doomed = {} /\ exitedBy # "signal"
  /\ caller # "over" => outcome = "none"

(* Once the group was signalled everybody left in it was asked; a child    *)
(* that was reaped before the end was reaped after that, or by a wait that *)
(* was interrupted before anybody was signalled.                           *)
AskedOrReaped ==
  /\ caller \in {"grace", "kill"} => AllAsked
  /\ (reaped /\ caller # "over") \/ outcome = "cancelled" => AllAsked \/ NobodyAsked

CancelInd ==
  /\ CancelTypeOK
  /\ SignalledAsAGroup
  /\ NothingYet
  /\ Leader \notin alive <=> exitedBy # "running"
  /\ reaped => Leader \notin alive
  /\ outcome = "cancelled" => Leader \notin alive
  /\ AskedOrReaped
  /\ ResultIsNatural

USE MemberAssumption, InterruptAssumption

LEMMA CancelInitInd == CancelInit => CancelInd
<1> SUFFICES ASSUME CancelInit PROVE CancelInd
  OBVIOUS
<1>1. Leader \in alive /\ 0 \in 0 .. MaxInterrupts
  BY MemberAssumption, InterruptAssumption DEF CancelInit
<1>2. CancelTypeOK
  BY <1>1 DEF CancelInit, CancelTypeOK
<1>3. QED
  BY <1>1, <1>2
     DEF CancelInit, CancelInd, SignalledAsAGroup, NothingYet, AskedOrReaped, ResultIsNatural

LEMMA CancelStepInd ==
  ASSUME CancelInd, [CancelNext]_vars
  PROVE  CancelInd'
<1> USE DEF CancelInd, CancelTypeOK, SignalledAsAGroup, NothingYet, AskedOrReaped, AllAsked,
            NobodyAsked, ResultIsNatural, groupVars, nature
<1>1. CASE CheckEvent
  BY <1>1 DEF CheckEvent
<1>2. CASE WaitReturns
  BY <1>2 DEF WaitReturns
<1>3. CASE WaitTimesOut
  BY <1>3 DEF WaitTimesOut
<1>4. CASE Terminate
  <2>1. CASE reaped
    BY <1>4, <2>1 DEF Terminate
  <2>2. CASE ~reaped
    <3>1. doomed' = doomed \union (alive \ stubborn) /\ alive' = alive /\ caller' = "grace"
      BY <1>4, <2>2 DEF Terminate
    <3>2. QED
      BY <1>4, <2>2, <3>1 DEF Terminate
  <2>3. QED
    BY <2>1, <2>2
<1>5. CASE GraceEnds
  BY <1>5 DEF GraceEnds
<1>6. CASE GraceExpires
  BY <1>6 DEF GraceExpires
<1>7. CASE KillGroup
  BY <1>7 DEF KillGroup
<1>8. CASE Interrupt
  <2>1. reaped' \in BOOLEAN /\ (reaped' => reaped \/ Leader \notin alive)
    BY <1>8 DEF Interrupt
  <2>2. interrupts' \in 0 .. MaxInterrupts
    BY <1>8 DEF Interrupt
  <2>3. /\ UNCHANGED <<event, groupVars>> /\ handling' = TRUE
        /\ \/ caller' = "over" /\ outcome' = "interrupted" /\ caller # "over"
           \/ caller' = "terminate" /\ outcome' = outcome /\ caller # "over"
    BY <1>8 DEF Interrupt
  <2>4. CancelTypeOK'
    BY <2>1, <2>2, <2>3
  <2>5. /\ interrupts' > 0
        /\ reaped' => reaped \/ caller = "grace" \/ (caller = "wait" /\ Leader \notin alive)
    BY <1>8 DEF Interrupt
  <2>6. AskedOrReaped'
    <3>1. caller = "wait" /\ Leader \notin alive => NobodyAsked'
      BY <2>3, <2>5
    <3>2. reaped' /\ caller' # "over" => (AllAsked \/ NobodyAsked)'
      BY <2>3, <2>5, <3>1
    <3>3. QED
      BY <2>3, <3>2
  <2>7. QED
    BY <2>1, <2>3, <2>4, <2>6
<1>9. CASE SetEvent
  BY <1>9 DEF SetEvent
<1>10. ASSUME NEW m \in Member, MemberEnds(m) PROVE CancelInd'
  BY <1>10 DEF MemberEnds
<1>11. CASE UNCHANGED vars
  BY <1>11 DEF vars
<1>12. QED
  BY <1>1, <1>2, <1>3, <1>4, <1>5, <1>6, <1>7, <1>8, <1>9, <1>10, <1>11
     DEF CancelNext, CallerStep

LEMMA CancelInvariant == CancelSpec => []CancelInd
BY CancelInitInd, CancelStepInd, PTL DEF CancelSpec

(* The type invariant of a cancellable call.                               *)
THEOREM CancelTypeCorrect == CancelSpec => []CancelTypeOK
<1>1. CancelInd => CancelTypeOK
  BY DEF CancelInd
<1> QED
  BY <1>1, CancelInvariant, PTL

(* A call that returns a result signalled nobody and its child ended by    *)
(* itself, however the event and interrupts race with the poll; one that   *)
(* reports the cancellation leaves no child behind, and of the group only  *)
(* members it sent SIGTERM to; or it was interrupted in a wait that reaped *)
(* a child which had ended by itself, and then it signalled nobody.        *)
THEOREM CancelledOrNatural == CancelSpec => []OutcomeIsTrue
<1>1. CancelInd => ResultIsNatural
  BY DEF CancelInd
<1>2. CancelInd => SurvivorsWereAsked
  BY DEF CancelInd, CancelTypeOK, SignalledAsAGroup, AskedOrReaped, SurvivorsWereAsked
<1>3. CancelInd => OutcomeIsTrue
  BY <1>1, <1>2 DEF OutcomeIsTrue
<1> QED
  BY <1>3, CancelInvariant, PTL
=============================================================================
