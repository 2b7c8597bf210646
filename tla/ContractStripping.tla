------------------------- MODULE ContractStripping -------------------------
(***************************************************************************)
(* Static contract verification and stripping: sv0 verify, sv0             *)
(* emit-verified and sv0 compile (run_verify, run_emit_verified and        *)
(* run_compile of scripts/sv0), with the wrapper of the verify binary.     *)
(*                                                                         *)
(* Verified mode reads a source file twice: once to list its contract      *)
(* clauses and prove them, and once to compile it without the checks that  *)
(* were proven.  Between the passes a proof is only a line number.  The    *)
(* wrapper tells the verify binary what to read by one control file that   *)
(* all commands of the machine share.                                      *)
(***************************************************************************)
EXTENDS Naturals, Sequences

CONSTANTS
  Command,  \* commands that run at the same time
  File,     \* source files
  Text,     \* what a source file may hold: sets of clauses
  Edited,   \* the files somebody may be editing meanwhile
  Request,  \* what a command may be asked for
  Toml      \* the contract-mode lines of the sv0.toml beside each file

Clause == [line    : Nat,
           kind    : {"ensures", "requires", "loop_invariant"},
           payload : {"query", "RESIDUAL", "PRECOND"},
           holds   : BOOLEAN]   \* is the obligation valid?

Mode == {"runtime", "verified", "disabled"}

NoFile == "no file"

ASSUME FileAssumption    == NoFile \notin File
ASSUME TextAssumption    == Text \subseteq SUBSET Clause
ASSUME RequestAssumption ==
  Request \subseteq [op : {"verify", "compile"}, file : File, flag : STRING]

VARIABLES
  text,     \* the contents of each file
  solver,   \* is z3 on PATH?
  ctl,      \* what /tmp/.sv0_verify_path holds
  job,      \* what each command was asked for
  pc,       \* the step each command takes next
  read,     \* what the verify binary read for it: a file and its text
  proven,   \* the clauses z3 answered unsat for
  emitted,  \* the text that was compiled and the clauses left unchecked
  crossed   \* history: commands whose use of ctl overlapped another's

stripVars == <<text, solver, ctl, job, pc, read, proven, emitted, crossed>>

Nothing == [file |-> NoFile, text |-> {}]
NoC     == [text |-> {}, unchecked |-> {}]

(* The first contract-mode line of the [build] table; a file that is absent *)
(* or cannot be read has none.                                              *)
Configured(f) ==
  LET build == SelectSeq(Toml[f], LAMBDA entry : entry.section = "build")
  IN  IF build = << >> THEN "" ELSE build[1].mode

ModeOf(r) == IF r.flag # "" THEN r.flag
             ELSE IF Configured(r.file) # "" THEN Configured(r.file)
             ELSE "runtime"

-----------------------------------------------------------------------------

StripInit ==
  /\ text \in [File -> Text]
  /\ solver \in BOOLEAN
  /\ ctl = NoFile
  /\ job \in [Command -> Request]
  /\ pc = [c \in Command |-> "start"]
  /\ read = [c \in Command |-> Nothing]
  /\ proven = [c \in Command |-> {}]
  /\ emitted = [c \in Command |-> NoC]
  /\ crossed = {}

GoTo(c, step) == pc' = [pc EXCEPT ![c] = step]

(* verify lists the clauses even without a solver; a verified compilation  *)
(* without one strips nothing.                                             *)
Start(c) ==
  /\ pc[c] = "start"
  /\ GoTo(c, IF job[c].op = "verify" THEN "write"
             ELSE IF ModeOf(job[c]) \notin Mode THEN "failed"
             ELSE IF ModeOf(job[c]) = "verified" /\ solver THEN "write"
             ELSE "compile")
  /\ UNCHANGED <<text, solver, ctl, job, read, proven, emitted, crossed>>

(* The wrapper is between its write of ctl and its trap's.                 *)
Open(c) == pc[c] \in {"read", "clear"}
OthersOpen(c) == {d \in Command \ {c} : Open(d)}

Write(c) ==
  /\ pc[c] = "write"
  /\ ctl' = job[c].file
  /\ crossed' = IF OthersOpen(c) = {} THEN crossed
                ELSE crossed \union OthersOpen(c) \union {c}
  /\ GoTo(c, "read")
  /\ UNCHANGED <<text, solver, job, read, proven, emitted>>

(* The binary finds the path in ctl and reads the file.                    *)
Read(c) ==
  /\ pc[c] = "read"
  /\ read' = [read EXCEPT ![c] = IF ctl = NoFile THEN Nothing
                                 ELSE [file |-> ctl, text |-> text[ctl]]]
  /\ GoTo(c, "clear")
  /\ UNCHANGED <<text, solver, ctl, job, proven, emitted, crossed>>

(* The wrapper's EXIT trap.  When the binary failed, verify fails and a    *)
(* verified compilation goes on with no records.                           *)
Clear(c) ==
  /\ pc[c] = "clear"
  /\ ctl' = NoFile
  /\ GoTo(c, IF read[c] = Nothing /\ job[c].op = "verify" THEN "failed" ELSE "prove")
  /\ UNCHANGED <<text, solver, job, read, proven, emitted, crossed>>

Provable_anyAnswer(c) == {k \in read[c].text : k.payload = "query"
                                     /\ (job[c].op = "verify" \/ k.kind = "ensures")}

(* A clause with a query is proven when z3 answers unsat, which it does    *)
(* only for a valid obligation and not always in time.                     *)
Provable(c) == {k \in read[c].text : k.payload = "query" /\ k.holds
                                     /\ (job[c].op = "verify" \/ k.kind = "ensures")}

Prove(c) ==
  /\ pc[c] = "prove"
  /\ \E unsat \in SUBSET (IF solver THEN Provable(c) ELSE {}) :
       proven' = [proven EXCEPT ![c] = unsat]
  /\ GoTo(c, IF job[c].op = "verify" THEN "done" ELSE "compile")
  /\ UNCHANGED <<text, solver, ctl, job, read, emitted, crossed>>

(* What the compiler leaves out: every ensures on a line the proof file    *)
(* names, or every contract.                                               *)
ProofLines(c) == {k.line : k \in proven[c]}

Unchecked(c, t) ==
  CASE ModeOf(job[c]) = "disabled" -> t
    [] ModeOf(job[c]) = "verified" ->
         {k \in t : k.kind = "ensures" /\ k.line \in ProofLines(c)}
    [] OTHER -> {}

Compile(c) ==
  /\ pc[c] = "compile"
  /\ LET t == text[job[c].file]
     IN  emitted' = [emitted EXCEPT ![c] = [text |-> t, unchecked |-> Unchecked(c, t)]]
  /\ GoTo(c, "done")
  /\ UNCHANGED <<text, solver, ctl, job, read, proven, crossed>>

(* Somebody saves a file.                                                  *)
Edit ==
  /\ \E f \in Edited, t \in Text : t # text[f] /\ text' = [text EXCEPT ![f] = t]
  /\ UNCHANGED <<solver, ctl, job, pc, read, proven, emitted, crossed>>

StripNext ==
  \/ \E c \in Command : \/ Start(c) \/ Write(c) \/ Read(c) \/ Clear(c)
                        \/ Prove(c) \/ Compile(c)
  \/ Edit

StripSpec == StripInit /\ [][StripNext]_stripVars

-----------------------------------------------------------------------------

StripTypeOK ==
  /\ text \in [File -> Text]
  /\ solver \in BOOLEAN
  /\ ctl \in File \union {NoFile}
  /\ job \in [Command -> Request]
  /\ pc \in [Command -> {"start", "write", "read", "clear", "prove", "compile",
                         "done", "failed"}]
  /\ read \in [Command -> [file : File \union {NoFile}, text : Text \union {{}}]]
  /\ proven \in [Command -> SUBSET Clause]
  /\ emitted \in [Command -> [text : Text \union {{}}, unchecked : SUBSET Clause]]
  /\ crossed \subseteq Command

Verified(c) == pc[c] = "done" /\ job[c].op = "compile" /\ ModeOf(job[c]) = "verified"

(* Soundness: only a solid unsat removes a check (scripts/sv0, comment of  *)
(* run_emit_verified).  When the text compiled is the text whose clauses   *)
(* were proven, a check is missing only if its clause shares the line of a *)
(* valid ensures.  The texts differ after an edit between the passes, or   *)
(* when another command had the control file.                              *)
StrippedSharesAProvenLine ==
  \A c \in Command :
    Verified(c) /\ emitted[c].text = read[c].text =>
      \A k \in emitted[c].unchecked :
        k.kind = "ensures" /\ \E p \in emitted[c].text :
                                p.kind = "ensures" /\ p.line = k.line /\ p.holds

(* What emit-verified says of itself, without those conditions: no check   *)
(* whose obligation is not valid is removed.                               *)
OnlyProvenIsStripped ==
  \A c \in Command : Verified(c) => \A k \in emitted[c].unchecked : k.holds

(* A verification that listed nothing - it failed, or there is no solver - *)
(* never costs a check: emit-verified then compiles with all of them.      *)
NothingReadNothingStripped ==
  \A c \in Command :
    Verified(c) /\ (read[c] = Nothing \/ ~solver) => emitted[c].unchecked = {}

(* Both: only a proof takes a check out.                                   *)
UnprovenStaysChecked == StrippedSharesAProvenLine /\ NothingReadNothingStripped

(* A verdict of sv0 verify is about the file it names and was valid for    *)
(* it, unless another command used the control file at the same time.      *)
VerdictIsAboutTheFile ==
  \A c \in Command \ crossed :
    pc[c] = "done" /\ job[c].op = "verify" =>
      /\ read[c].file = job[c].file
      /\ \A k \in proven[c] : k \in read[c].text /\ k.holds

(* The control file is left empty: it names a file only while a command    *)
(* that wrote it has not come to its trap.                                 *)
ControlFileIsReleased == ctl # NoFile => \E c \in Command : Open(c) /\ job[c].file = ctl
=============================================================================
