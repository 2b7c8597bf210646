---------------------------- MODULE Cancellation ----------------------------
(***************************************************************************)
(* run_argv_cancellable and _terminate_process_group                       *)
(* (scripts/native_exe_subprocess.py): a child started as the leader of    *)
(* its own process group, polled until it exits, and terminated with its   *)
(* group when a cancel event is set or a KeyboardInterrupt arrives.        *)
(*                                                                         *)
(* The child and the processes it started run, exit and react to signals   *)
(* at their own pace; the event can be set, and an interrupt can arrive,   *)
(* between any two steps of the caller.                                    *)
(***************************************************************************)
EXTENDS Naturals, FiniteSets

CONSTANTS
  Member,          \* the processes of the group
  Leader,          \* the child itself
  MaxInterrupts    \* bound: KeyboardInterrupts that arrive in one call

ASSUME MemberAssumption == IsFiniteSet(Member) /\ Leader \in Member
ASSUME InterruptAssumption == MaxInterrupts \in Nat

VARIABLES
  caller,      \* the step the call takes next
  handling,    \* whether it is in the KeyboardInterrupt handler
  event,       \* the cancel event
  stubborn,    \* members that ignore SIGTERM
  detached,    \* members that do not hold the output pipes open
  alive,       \* members that run
  doomed,      \* members that SIGTERM was sent to and that heed it
  exitedBy,    \* how the leader ended
  reaped,      \* whether the leader has been waited for
  outcome,     \* how the call ended
  interrupts   \* KeyboardInterrupts so far

nature == <<stubborn, detached>>
groupVars == <<nature, alive, doomed, exitedBy>>
vars == <<caller, handling, event, groupVars, reaped, outcome, interrupts>>

CancelTypeOK ==
  /\ caller \in {"check", "wait", "terminate", "grace", "kill", "over"}
  /\ handling \in BOOLEAN /\ event \in BOOLEAN
  /\ alive \subseteq Member
  /\ stubborn \subseteq Member /\ detached \subseteq Member
  /\ doomed \subseteq Member \ stubborn
  /\ exitedBy \in {"running", "itself", "signal"}
  /\ reaped \in BOOLEAN
  /\ outcome \in {"none", "result", "cancelled", "interrupted"}
  /\ interrupts \in 0..MaxInterrupts

(* The child has been started and has started the rest of its group, any   *)
(* of which may ignore SIGTERM or have closed the pipes.                   *)
CancelInit ==
  /\ stubborn \in SUBSET Member /\ detached \in SUBSET Member
  /\ caller = "check" /\ handling = FALSE /\ event = FALSE
  /\ alive = Member /\ doomed = {} /\ exitedBy = "running"
  /\ reaped = FALSE /\ outcome = "none" /\ interrupts = 0

-----------------------------------------------------------------------------
(* The caller                                                              *)

(* Mutant of CheckEvent: the event is never looked at. *)
CheckEvent_never ==
  /\ caller = "check"
  /\ caller' = "wait"
  /\ UNCHANGED <<handling, event, groupVars, reaped, outcome, interrupts>>

(* The poll loop looks at the event first. *)
CheckEvent ==
  /\ caller = "check"
  /\ caller' = IF event THEN "terminate" ELSE "wait"
  /\ UNCHANGED <<handling, event, groupVars, reaped, outcome, interrupts>>

(* communicate: the pipes are at their end and the leader has exited. *)
WaitReturns ==
  /\ caller = "wait"
  /\ alive \subseteq detached \ {Leader}
  /\ caller' = "over"
  /\ reaped' = TRUE
  /\ outcome' = "result"
  /\ UNCHANGED <<handling, event, groupVars, interrupts>>

WaitTimesOut ==
  /\ caller = "wait"
  /\ caller' = "check"
  /\ UNCHANGED <<handling, event, groupVars, reaped, outcome, interrupts>>

(* getpgid and killpg(SIGTERM); a leader that has been waited for has no   *)
(* group to find any more, and nothing is signalled.                       *)
Terminate ==
  /\ caller = "terminate"
  /\ IF reaped
     THEN /\ caller' = "over" /\ outcome' = "cancelled"
          /\ UNCHANGED doomed
     ELSE /\ caller' = "grace" /\ doomed' = doomed \union (alive \ stubborn)
          /\ UNCHANGED outcome
  /\ UNCHANGED <<handling, event, nature, alive, exitedBy, reaped, interrupts>>

(* Mutant of GraceEnds: the wait's answer is taken for the call's. *)
GraceEnds_result ==
  /\ caller = "grace"
  /\ Leader \notin alive
  /\ caller' = "over"
  /\ reaped' = TRUE
  /\ outcome' = "result"
  /\ UNCHANGED <<handling, event, groupVars, interrupts>>

(* proc.wait(timeout) waits for the leader only. *)
GraceEnds ==
  /\ caller = "grace"
  /\ Leader \notin alive
  /\ caller' = "over"
  /\ reaped' = TRUE
  /\ outcome' = "cancelled"
  /\ UNCHANGED <<handling, event, groupVars, interrupts>>

GraceExpires ==
  /\ caller = "grace"
  /\ Leader \in alive
  /\ caller' = "kill"
  /\ UNCHANGED <<handling, event, groupVars, reaped, outcome, interrupts>>

(* killpg(SIGKILL) and the wait for the leader. *)
KillGroup ==
  /\ caller = "kill"
  /\ caller' = "over"
  /\ alive' = {}
  /\ exitedBy' = IF Leader \in alive THEN "signal" ELSE exitedBy
  /\ reaped' = TRUE
  /\ outcome' = "cancelled"
  /\ UNCHANGED <<handling, event, nature, doomed, interrupts>>

(* A KeyboardInterrupt: inside the try it starts the termination, and a    *)
(* wait it breaks off may have reaped the leader (subprocess gives it a    *)
(* quarter of a second); in the handler it leaves the call.                *)
Interrupt ==
  /\ caller # "over"
  /\ interrupts < MaxInterrupts
  /\ interrupts' = interrupts + 1
  /\ handling' = TRUE
  /\ IF handling
     THEN caller' = "over" /\ outcome' = "interrupted"
     ELSE caller' = "terminate" /\ UNCHANGED outcome
  /\ reaped' \in {reaped, reaped \/ (caller \in {"wait", "grace"} /\ Leader \notin alive)}
  /\ UNCHANGED <<event, groupVars>>

-----------------------------------------------------------------------------
(* The environment                                                         *)

SetEvent ==
  /\ ~event
  /\ caller # "over"
  /\ event' = TRUE
  /\ UNCHANGED <<caller, handling, groupVars, reaped, outcome, interrupts>>

MemberEnds(m) ==
  /\ m \in alive
  /\ alive' = alive \ {m}
  /\ exitedBy' = IF m # Leader THEN exitedBy ELSE IF m \in doomed THEN "signal" ELSE "itself"
  /\ UNCHANGED <<caller, handling, event, nature, doomed, reaped, outcome, interrupts>>

-----------------------------------------------------------------------------

CallerStep ==
  \/ CheckEvent
  \/ WaitReturns
  \/ WaitTimesOut
  \/ Terminate
  \/ GraceEnds
  \/ GraceExpires
  \/ KillGroup

CancelNext ==
  \/ CallerStep
  \/ Interrupt
  \/ SetEvent
  \/ \E m \in Member : MemberEnds(m)

CancelSpec == CancelInit /\ [][CancelNext]_vars

(* The caller runs, and a process that heeds SIGTERM ends once it is sent. *)
(* Nothing makes a member end by itself, the event be set or an interrupt  *)
(* arrive.                                                                 *)
CancelFairness ==
  /\ WF_vars(CallerStep)
  /\ \A m \in Member : WF_vars(m \in doomed /\ MemberEnds(m))

FairCancelSpec == CancelSpec /\ CancelFairness

-----------------------------------------------------------------------------
(* Properties                                                              *)

(* "A cancelled run can never be mistaken for a successful one": a call    *)
(* that returns a result never signalled its group, and its child ended by *)
(* itself, whatever events and interrupts raced with the last poll.        *)
ResultIsNatural == outcome = "result" => exitedBy = "itself" /\ doomed = {}

(* A call that reports the cancellation leaves no child behind, and of the *)
(* group only members that SIGTERM was sent to, which ignore it or are     *)
(* about to end. The one exception: an interrupt broke off a wait that had *)
(* reaped a child which ended by itself; then nobody was sent anything,    *)
(* and all that is left of the group goes on. When the child itself had to *)
(* be killed, the SIGKILL has spared no member of the group.               *)
AllAsked == alive \subseteq stubborn \union doomed

NobodyAsked == doomed = {} /\ exitedBy = "itself" /\ interrupts > 0

SurvivorsWereAsked ==
  outcome = "cancelled" =>
    /\ Leader \notin alive
    /\ AllAsked \/ NobodyAsked
    /\ exitedBy = "signal" /\ Leader \in stubborn => alive = {}

(* What a call reports is what became of its group.                        *)
OutcomeIsTrue == ResultIsNatural /\ SurvivorsWereAsked

(* A cancelled or interrupted call ends, also when the child ignores       *)
(* SIGTERM and would run for ever.                                         *)
CancelledCallEnds == event \/ handling ~> caller = "over"
=============================================================================
