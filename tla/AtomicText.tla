----------------------------- MODULE AtomicText -----------------------------
(***************************************************************************)
(* write_text_atomically (scripts/native_exe_staging.py): open a temporary *)
(* file beside the output path, write the text, rename it over the path.   *)
(*                                                                         *)
(* The temporary name is the output path and the process id, so it is      *)
(* shared by the threads of a process, and by a killed process and a later *)
(* one that is given the same id.  A file is what a name stands for, not   *)
(* the name: a rename moves the file with whatever is still being written  *)
(* to it.  A text is two chunks, the least that can be half-written.       *)
(***************************************************************************)
EXTENDS FiniteSets

CONSTANTS
  Writer,    \* calls of write_text_atomically for one output path
  Pid,       \* process ids
  PidOf,     \* the process id a call runs under
  Threaded,  \* process ids under which several calls may run at once
  Prior,     \* the file at the output path before the first call
  None       \* no file, no chunk

ASSUME WriterPidAssumption == PidOf \in [Writer -> Pid]
ASSUME ThreadedAssumption  == Threaded \subseteq Pid
ASSUME PriorFileAssumption == Prior \notin Writer /\ None \notin Writer \union {Prior}

File == Writer \union {Prior}   \* a new file is named after its creator

VARIABLES
  pc,      \* where each call is
  tmp,     \* the file each process id's temporary name stands for
  fd,      \* the file each call has open
  head,    \* the first chunk of each file: the call that wrote it
  tail,    \* the second chunk of each file
  output   \* the file the output path stands for

textVars == <<pc, tmp, fd, head, tail, output>>

Running == {"write_head", "write_tail", "rename"}
TextLocation == {"idle", "done", "failed", "killed"} \union Running

TextTypeOK ==
  /\ pc \in [Writer -> TextLocation]
  /\ tmp \in [Pid -> File \union {None}]
  /\ fd \in [Writer -> File \union {None}]
  /\ head \in [File -> File \union {None}]
  /\ tail \in [File -> File \union {None}]
  /\ output \in File

TextInit ==
  /\ pc = [w \in Writer |-> "idle"]
  /\ tmp = [p \in Pid |-> None]
  /\ fd = [w \in Writer |-> None]
  /\ head = [f \in File |-> IF f = Prior THEN Prior ELSE None]
  /\ tail = [f \in File |-> IF f = Prior THEN Prior ELSE None]
  /\ output = Prior

-----------------------------------------------------------------------------

Move(w, from, to) ==
  /\ pc[w] = from
  /\ pc' = [pc EXCEPT ![w] = to]

Colleagues(w) == {v \in Writer \ {w} : PidOf[v] = PidOf[w]}

(* f"{output_path}.tmp-{os.getpid()}" *)
TmpName(w) == PidOf[w]

(* open(tmp_path, "w"): the file of that name is truncated, or created. *)
OpenTmp(w) ==
  /\ \/ PidOf[w] \in Threaded
     \/ \A v \in Colleagues(w) : pc[v] \notin Running
  /\ Move(w, "idle", "write_head")
  /\ LET p == TmpName(w)
         f == IF tmp[p] = None THEN w ELSE tmp[p]
     IN  /\ tmp' = [tmp EXCEPT ![p] = f]
         /\ fd' = [fd EXCEPT ![w] = f]
         /\ head' = [head EXCEPT ![f] = None]
         /\ tail' = [tail EXCEPT ![f] = None]
  /\ UNCHANGED output

(* f.write and the flush on close, at this descriptor's own offsets. *)
WriteHead(w) ==
  /\ Move(w, "write_head", "write_tail")
  /\ head' = [head EXCEPT ![fd[w]] = w]
  /\ UNCHANGED <<tmp, fd, tail, output>>

WriteTail(w) ==
  /\ Move(w, "write_tail", "rename")
  /\ tail' = [tail EXCEPT ![fd[w]] = w]
  /\ UNCHANGED <<tmp, fd, head, output>>

(* os.replace: whatever file the temporary name stands for now. *)
Rename(w) ==
  /\ tmp[TmpName(w)] # None
  /\ Move(w, "rename", "done")
  /\ output' = tmp[TmpName(w)]
  /\ tmp' = [tmp EXCEPT ![TmpName(w)] = None]
  /\ UNCHANGED <<fd, head, tail>>

(* os.replace raises: a thread of this process has renamed the file away,  *)
(* or the path cannot be replaced.                                         *)
RenameFails(w) ==
  /\ Move(w, "rename", "failed")
  /\ UNCHANGED <<tmp, fd, head, tail, output>>

(* Mutant of WriteRaises: the file is renamed all the same. *)
WriteRaises_renames(w) ==
  /\ \E from \in {"write_head", "write_tail"} : Move(w, from, "rename")
  /\ UNCHANGED <<tmp, fd, head, tail, output>>

(* A write raises OSError and leaves the temporary file. *)
WriteRaises(w) ==
  /\ \E from \in {"write_head", "write_tail"} : Move(w, from, "failed")
  /\ UNCHANGED <<tmp, fd, head, tail, output>>

(* The process is killed; its temporary file stays. *)
Kill(p) ==
  /\ \E w \in Writer : PidOf[w] = p /\ pc[w] \in Running
  /\ pc' = [w \in Writer |->
              IF PidOf[w] = p /\ pc[w] \in Running THEN "killed" ELSE pc[w]]
  /\ UNCHANGED <<tmp, fd, head, tail, output>>

TextNext ==
  \/ \E w \in Writer : \/ OpenTmp(w) \/ WriteHead(w) \/ WriteTail(w)
                       \/ Rename(w) \/ RenameFails(w) \/ WriteRaises(w)
  \/ \E p \in Pid : Kill(p)

TextSpec == TextInit /\ [][TextNext]_textVars

-----------------------------------------------------------------------------
(* Properties                                                              *)

Whole(f) == head[f] = tail[f] /\ head[f] # None

(* "A reader of output_path never observes a partially-written file": both *)
(* chunks of the file at the output path come from one call.               *)
OutputIsWhole == Whole(output)

(* The calls write a register: the path changes from one whole text to     *)
(* another in one step, to the text of the call that takes the step, and a *)
(* call that fails or is killed leaves it alone.                           *)
TextVerdict(w) ==
  CASE pc[w] = "done" -> "written"
    [] pc[w] \in {"failed", "killed"} -> "lost"
    [] OTHER -> "pending"

Register == INSTANCE TextRegister WITH
  text    <- IF Whole(output) THEN head[output] ELSE None,
  verdict <- [w \in Writer |-> TextVerdict(w)]

ImplementsRegister == Register!RegisterSpec
=============================================================================
