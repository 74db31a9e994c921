---------------------------- MODULE SessionTurns ----------------------------
(***************************************************************************)
(* The durable turn kernel of the system service: session turns, their     *)
(* inputs, scheduler jobs, physical attempts, run controls, provider       *)
(* invocations and tool executions, as SQLite rows changed by store calls. *)
(*                                                                         *)
(* Every store call runs in one write transaction that commits or rolls    *)
(* back, so every call is one action, enabled when the call commits a      *)
(* change.  Callers are workers holding lease tokens, users and operators; *)
(* a worker's call may arrive at any later time, after its lease expired   *)
(* or was given to another worker, which is why the actions take the token *)
(* k as an argument instead of reading it from the row.                    *)
(***************************************************************************)
EXTENDS Integers, FiniteSets

CONSTANTS
  Session,              \* sessions
  Turn,                 \* turns, numbered in order of creation
  SessionOf,            \* the session of every turn
  Interrupt, Steer,     \* the run controls users may issue
  Tool,                 \* tool calls of a turn, numbered in call order
  Idempotent,           \* tools whose descriptor says idempotent
  Deferred,             \* tools that suspend the turn on a media generation
  Approval,             \* tools whose policy asks for approval
  Parallel,             \* tools of concurrency class parallel_safe
  MaxClaims,            \* bound: leases handed out per job
  MaxSteps,             \* the runner's bound on provider steps of a turn
  ProviderMaxAttempts,  \* frozen recovery bound of the execution binding
  ToolMaxAttempts       \* frozen recovery bound of the execution binding

Control == Interrupt \cup Steer
Claims == 1 .. MaxClaims

ASSUME TurnAssumption ==
  /\ Turn \subseteq Nat \ {0}
  /\ SessionOf \in [Turn -> Session]

ASSUME ControlAssumption == Interrupt \cap Steer = {}

\* validate_deferred_tool_owner_tx demands an idempotent tool; the registry runs
\* deferred and approval tools exclusively
ASSUME ToolAssumption ==
  /\ Tool \subseteq Nat
  /\ Idempotent \subseteq Tool
  /\ Deferred \subseteq Idempotent
  /\ Approval \subseteq Tool
  /\ Parallel \subseteq Tool \ (Deferred \cup Approval)

ASSUME BoundAssumption ==
  /\ MaxClaims \in Nat \ {0}
  /\ MaxSteps \in Nat \ {0}
  /\ ProviderMaxAttempts \in Nat \ {0}
  /\ ToolMaxAttempts \in Nat \ {0}

VARIABLES
  session,  \* session.status
  turn,     \* session_turn.state
  current,  \* session_turn.current_attempt_id, 0 when NULL
  input,    \* session_input.status of the turn's primary input
  job,      \* scheduler_job.state of the turn's session.turn job
  claims,   \* leases handed out for the job so far
  lease,    \* scheduler_job.lease_token, 0 when NULL
  lapsed,   \* the turns whose job's lease_expires_at the clock has passed
  attempt,  \* session_attempt.state of the attempt started under a lease
  control,          \* session_turn_control.status
  controlTurn,      \* session_turn_control.turn_id, 0 before it is issued
  controlAttempt,   \* session_turn_control.attempt_id
  controlInput,     \* session_input.status of a steer's input
  provider,         \* state of the turn's latest provider_invocation
  step, number,     \* its step and invocation_number
  sender,           \* its attempt_id
  tool,             \* tool_execution.state
  toolAttempt,      \* session attempt of the current tool_execution_attempt
  starts,           \* tool_execution.attempt_count
  recoveryRevision, \* tool_execution.recovery_revision
  media             \* the media_generation_operation linked to the tool call

jobVars == <<job, claims, lease, lapsed>>
turnVars == <<turn, current, input>>
controlVars == <<control, controlTurn, controlAttempt, controlInput>>
providerVars == <<provider, step, number, sender>>
toolVars == <<tool, toolAttempt, starts, recoveryRevision, media>>
vars == <<session, turnVars, jobVars, attempt, controlVars, providerVars, toolVars>>

ActiveTurn == {"running", "waiting", "cancel_requested"}
TerminalTurn ==
  {"succeeded", "failed", "cancelled", "interrupted", "recovery_required"}
TerminalJob == {"succeeded", "failed", "cancelled"}
OpenInvocation == {"dispatched", "output_observed"}
SettledTool == {"denied", "succeeded", "failed", "cancelled"}

TurnState == {"none", "queued"} \cup ActiveTurn \cup TerminalTurn
InputState == {"none", "admitted", "promoted", "completed", "cancelled", "failed"}
JobState == {"none", "pending", "ready", "running", "waiting"} \cup TerminalJob
AttemptState == {"none", "running", "suspended"} \cup TerminalTurn
ControlState == {"none", "pending", "applied", "cancelled"}
SteerInputState == {"none", "control_pending", "completed"}
InvocationState ==
  {"none", "output_ready", "retryable", "fatal", "succeeded", "ambiguous"}
    \cup OpenInvocation
ToolState ==
  {"none", "requested", "running", "approval_required", "approved", "waiting",
   "retry_ready", "recovery_required"} \cup SettledTool
MediaState == {"none", "live", "cancel_requested", "ended"}

\* the rows of the tables, by the table that owns them
TurnRowsOK ==
  /\ session \in [Session -> {"active", "archived"}]
  /\ turn \in [Turn -> TurnState]
  /\ current \in [Turn -> 0 .. MaxClaims]
  /\ input \in [Turn -> InputState]
  /\ attempt \in [Turn -> [Claims -> AttemptState]]

JobRowsOK ==
  /\ job \in [Turn -> JobState]
  /\ claims \in [Turn -> 0 .. MaxClaims]
  /\ lease \in [Turn -> 0 .. MaxClaims]
  /\ lapsed \in SUBSET Turn

ControlRowsOK ==
  /\ control \in [Control -> ControlState]
  /\ controlTurn \in [Control -> Turn \cup {0}]
  /\ controlAttempt \in [Control -> 0 .. MaxClaims]
  /\ controlInput \in [Control -> SteerInputState]

ProviderRowsOK ==
  /\ provider \in [Turn -> InvocationState]
  /\ step \in [Turn -> 0 .. MaxSteps]
  /\ number \in [Turn -> 0 .. ProviderMaxAttempts]
  /\ sender \in [Turn -> 0 .. MaxClaims]

ToolRowsOK ==
  /\ tool \in [Turn -> [Tool -> ToolState]]
  /\ toolAttempt \in [Turn -> [Tool -> 0 .. MaxClaims]]
  /\ starts \in [Turn -> [Tool -> Nat]]
  /\ recoveryRevision \in [Turn -> [Tool -> Nat]]
  /\ media \in [Turn -> [Tool -> MediaState]]

\* Every row keeps to the states its readers know: the outcome of a turn is
\* translated for the input and for the job before it is written to them
TypeOK ==
  /\ TurnRowsOK
  /\ JobRowsOK
  /\ ControlRowsOK
  /\ ProviderRowsOK
  /\ ToolRowsOK

Init ==
  /\ session = [s \in Session |-> "active"]
  /\ turn = [t \in Turn |-> "none"]
  /\ current = [t \in Turn |-> 0]
  /\ input = [t \in Turn |-> "none"]
  /\ job = [t \in Turn |-> "none"]
  /\ claims = [t \in Turn |-> 0]
  /\ lease = [t \in Turn |-> 0]
  /\ lapsed = {}
  /\ attempt = [t \in Turn |-> [k \in Claims |-> "none"]]
  /\ control = [c \in Control |-> "none"]
  /\ controlTurn = [c \in Control |-> 0]
  /\ controlAttempt = [c \in Control |-> 0]
  /\ controlInput = [c \in Control |-> "none"]
  /\ provider = [t \in Turn |-> "none"]
  /\ step = [t \in Turn |-> 0]
  /\ number = [t \in Turn |-> 0]
  /\ sender = [t \in Turn |-> 0]
  /\ tool = [t \in Turn |-> [x \in Tool |-> "none"]]
  /\ toolAttempt = [t \in Turn |-> [x \in Tool |-> 0]]
  /\ starts = [t \in Turn |-> [x \in Tool |-> 0]]
  /\ recoveryRevision = [t \in Turn |-> [x \in Tool |-> 0]]
  /\ media = [t \in Turn |-> [x \in Tool |-> "none"]]

-----------------------------------------------------------------------------
(* Row predicates and row updates shared by the store calls.               *)

\* wrong variant of Owns: trusts the newest token, whatever became of its lease
OwnsByToken(t, k) ==
  /\ turn[t] # "none"
  /\ claims[t] = k

\* validate_turn_attempt_lease_tx: the caller's attempt is the turn's current
\* running one and its unexpired lease is the job's
Owns(t, k) ==
  /\ turn[t] \in {"running", "cancel_requested"}
  /\ current[t] = k
  /\ attempt[t][k] = "running"
  /\ job[t] = "running"
  /\ lease[t] = k
  /\ t \notin lapsed

\* wrong variant of ClaimedBy: the token is not compared
ClaimedByAnyone(t, k) == job[t] = "running" /\ t \notin lapsed

\* validate_session_turn_job_lease: the caller holds the job's unexpired lease
ClaimedBy(t, k) ==
  /\ job[t] = "running"
  /\ lease[t] = k
  /\ t \notin lapsed

\* is_active_attempt_tx, which looks at no lease
ActiveAttempt(t, k) ==
  /\ turn[t] \in {"running", "cancel_requested"}
  /\ current[t] = k
  /\ attempt[t][k] = "running"

\* another turn of the session holds idx_session_turn_active_head
SessionBusy(t) ==
  \E u \in Turn \ {t} : SessionOf[u] = SessionOf[t] /\ turn[u] \in ActiveTurn

\* the job leaves the running state and its lease columns become NULL
ReleaseJob(t, state) ==
  /\ job' = [job EXCEPT ![t] = state]
  /\ lease' = [lease EXCEPT ![t] = 0]
  /\ lapsed' = lapsed \ {t}
  /\ UNCHANGED claims

PendingControl(t, k) ==
  {c \in Control : control[c] = "pending" /\ controlTurn[c] = t
                     /\ controlAttempt[c] = k}

CancelControls(C) ==
  /\ control' = [c \in Control |-> IF c \in C THEN "cancelled" ELSE control[c]]
  /\ UNCHANGED <<controlTurn, controlAttempt, controlInput>>

\* the turn's invocation is open and was dispatched by this attempt
OpenBy(t, k) == provider[t] \in OpenInvocation /\ sender[t] = k

\* ambiguate_open_provider_invocations_tx
AmbiguateOpen(t, k) ==
  /\ provider' = [provider EXCEPT ![t] = IF OpenBy(t, k) THEN "ambiguous" ELSE @]
  /\ UNCHANGED <<step, number, sender>>

Unsettled(t) == {x \in Tool : tool[t][x] \notin SettledTool \cup {"none"}}

-----------------------------------------------------------------------------
(* Recovery of a turn whose owner is lost.                                 *)

\* wrong variant of RecoveryRequired: every running tool may be retried
RecoveryRequiredByProvider(t) ==
  \/ turn[t] = "cancel_requested"
  \/ provider[t] \in OpenInvocation \cup {"ambiguous", "fatal"}

\* classify_recovery_tx answers Required
RecoveryRequired(t) ==
  \/ turn[t] = "cancel_requested"
  \/ provider[t] \in OpenInvocation \cup {"ambiguous", "fatal"}
  \/ provider[t] = "retryable" /\ number[t] >= ProviderMaxAttempts
  \/ \E x \in Tool :
       \/ tool[t][x] = "running"
            /\ (x \notin Idempotent \/ starts[t][x] >= ToolMaxAttempts)
       \/ tool[t][x] \in {"recovery_required", "approved", "waiting"}

\* what reconcile_expired_session_turn_job_tx checks before it classifies; a
\* job that fails it fails the claim of every worker
Reconcilable(t) ==
  /\ current[t] \in Claims
  /\ attempt[t][current[t]] = "running"
  /\ lease[t] = current[t]
  /\ turn[t] \in {"running", "cancel_requested"}

\* the tools of a turn that goes to recovery, and of one that is requeued
RecoveryTools(t) == [x \in Tool |->
  IF tool[t][x] = "running" THEN "recovery_required" ELSE tool[t][x]]

\* wrong variant of RequeuedTools: the dead attempt's calls are left alone
RequeuedToolsKept(t) == tool[t]

RequeuedTools(t) == [x \in Tool |->
  IF tool[t][x] = "running" THEN "retry_ready" ELSE tool[t][x]]

\* require_session_turn_recovery_tx for the turns of required and
\* requeue_session_turn_tx for the turns of safe; the job rows are the caller's
ReconcileRows(required, safe) ==
  /\ turn' = [t \in Turn |-> CASE t \in required -> "recovery_required"
                               [] t \in safe -> "queued"
                               [] OTHER -> turn[t]]
  /\ current' = [t \in Turn |-> IF t \in safe THEN 0 ELSE current[t]]
  /\ input' = [t \in Turn |-> IF t \in required THEN "failed" ELSE input[t]]
  /\ attempt' = [t \in Turn |-> [k \in Claims |->
       CASE t \in required /\ k = current[t] -> "recovery_required"
         [] t \in safe /\ k = current[t] -> "interrupted"
         [] OTHER -> attempt[t][k]]]
  /\ CancelControls({c \in Control :
       /\ control[c] = "pending"
       /\ \/ controlTurn[c] \in required
          \/ c \in Interrupt /\ controlTurn[c] \in safe
               /\ controlAttempt[c] = current[controlTurn[c]]})
  /\ provider' = [t \in Turn |->
       IF t \in required /\ provider[t] \in OpenInvocation /\ sender[t] = current[t]
         THEN "ambiguous" ELSE provider[t]]
  /\ tool' = [t \in Turn |-> CASE t \in required -> RecoveryTools(t)
                               [] t \in safe -> RequeuedTools(t)
                               [] OTHER -> tool[t]]
  /\ UNCHANGED <<step, number, sender, toolAttempt, starts, recoveryRevision,
                 media>>

-----------------------------------------------------------------------------
(* Sessions and admission.                                                 *)

\* submit_session_turn_tx: the turn, its input and its job in one transaction;
\* the job is pending while its not_before lies ahead
Submit(t, jobState) ==
  /\ turn[t] = "none"
  /\ \A u \in Turn : u < t /\ SessionOf[u] = SessionOf[t] => turn[u] # "none"
  /\ session[SessionOf[t]] = "active"
  /\ turn' = [turn EXCEPT ![t] = "queued"]
  /\ input' = [input EXCEPT ![t] = "admitted"]
  /\ job' = [job EXCEPT ![t] = jobState]
  /\ UNCHANGED <<session, current, claims, lease, lapsed, attempt, controlVars,
                 providerVars, toolVars>>

\* session_has_unfinished_work_tx
Unfinished(s) ==
  \/ \E t \in Turn :
       /\ SessionOf[t] = s
       /\ \/ input[t] \in {"admitted", "promoted"}
          \/ turn[t] \in {"queued", "running", "cancel_requested"}
  \/ \E c \in Control : /\ controlInput[c] = "control_pending"
                        /\ SessionOf[controlTurn[c]] = s

\* archive_session
Archive(s) ==
  /\ session[s] = "active"
  /\ ~Unfinished(s)
  /\ session' = [session EXCEPT ![s] = "archived"]
  /\ UNCHANGED <<turnVars, jobVars, attempt, controlVars, providerVars, toolVars>>

\* restore_session
Restore(s) ==
  /\ session[s] = "archived"
  /\ session' = [session EXCEPT ![s] = "active"]
  /\ UNCHANGED <<turnVars, jobVars, attempt, controlVars, providerVars, toolVars>>

-----------------------------------------------------------------------------
(* Scheduler: leases on session.turn jobs.                                 *)

\* the clock passes not_before: the pending job becomes a claim candidate
NotBeforePasses(t) ==
  /\ job[t] = "pending"
  /\ job' = [job EXCEPT ![t] = "ready"]
  /\ UNCHANGED <<session, turnVars, claims, lease, lapsed, attempt, controlVars,
                 providerVars, toolVars>>

\* the clock passes lease_expires_at
LeaseExpires(t) ==
  /\ job[t] = "running"
  /\ lapsed' = lapsed \cup {t}
  /\ UNCHANGED <<session, turnVars, job, claims, lease, attempt, controlVars,
                 providerVars, toolVars>>

\* heartbeat_job: extends a lease the caller still holds, expired or not
Heartbeat(t, k) ==
  /\ job[t] = "running"
  /\ lease[t] = k
  /\ lapsed' = lapsed \ {t}
  /\ UNCHANGED <<session, turnVars, job, claims, lease, attempt, controlVars,
                 providerVars, toolVars>>

Expired == {t \in lapsed : job[t] = "running"}

\* the expired jobs with a running session_attempt
Promoted == {t \in Expired : \E k \in Claims : attempt[t][k] = "running"}
Required == {t \in Promoted : RecoveryRequired(t)}

\* wrong variant of ResetJob: a job claimed and never started is forgotten
ResetJobOfAttempts == [t \in Turn |-> CASE t \in Required -> "failed"
                                        [] t \in Promoted \ Required -> "ready"
                                        [] OTHER -> job[t]]

\* scheduler_job rows after reset_expired_leases_tx
ResetJob == [t \in Turn |-> CASE t \in Required -> "failed"
                              [] t \in Expired \ Required -> "ready"
                              [] OTHER -> job[t]]

\* reset_expired_leases_tx, without the scheduler_job rows
ResetExpiredLeases ==
  /\ \A t \in Promoted : Reconcilable(t)
  /\ ReconcileRows(Required, Promoted \ Required)

\* wrong variant of Candidate: earlier turns of the session need not have ended
CandidateOutOfOrder(t, jobs) ==
  /\ jobs[t] = "ready"
  /\ \A u \in Turn \ {t} : SessionOf[u] = SessionOf[t] => jobs[u] # "running"

\* ready_candidates_tx: due, no other job of the session running, and every
\* earlier turn job of the session terminal
Candidate(t, jobs) ==
  /\ jobs[t] = "ready"
  /\ \A u \in Turn \ {t} : SessionOf[u] = SessionOf[t] =>
       /\ jobs[u] # "running"
       /\ u < t => jobs[u] \in TerminalJob

\* claim_job: resets every expired lease, then hands out a fresh lease token
Claim(t) ==
  /\ claims[t] < MaxClaims
  /\ ResetExpiredLeases
  /\ Candidate(t, ResetJob)
  /\ job' = [ResetJob EXCEPT ![t] = "running"]
  /\ claims' = [claims EXCEPT ![t] = @ + 1]
  /\ lease' = [u \in Turn |-> IF u = t THEN claims[t] + 1
                              ELSE IF u \in Expired THEN 0 ELSE lease[u]]
  /\ lapsed' = lapsed \ Expired
  /\ UNCHANGED session

\* claim_job that finds no candidate among the kinds and queues it asked for
ClaimNothing ==
  /\ Expired # {}
  /\ ResetExpiredLeases
  /\ job' = ResetJob
  /\ lease' = [u \in Turn |-> IF u \in Expired THEN 0 ELSE lease[u]]
  /\ lapsed' = lapsed \ Expired
  /\ UNCHANGED <<session, claims>>

-----------------------------------------------------------------------------
(* Turn attempts.                                                          *)

\* wrong variant of RebindSteers: steers stay with the attempt that is gone
KeepSteers(t, k) == UNCHANGED controlVars

\* the pending steers of a recovered turn move to its new attempt
RebindSteers(t, k) ==
  /\ controlAttempt' = [c \in Control |->
       IF /\ input[t] = "promoted"
          /\ c \in Steer
          /\ control[c] = "pending"
          /\ controlTurn[c] = t
         THEN k ELSE controlAttempt[c]]
  /\ UNCHANGED <<control, controlTurn, controlInput>>

\* start_session_turn_attempt_tx: a claimed queued turn, or one whose
\* cancellation was requested while it waited, gets a physical attempt
StartAttempt(t, k) ==
  /\ attempt[t][k] = "none"
  /\ turn[t] \in {"queued", "cancel_requested"}
  /\ current[t] = 0
  /\ ClaimedBy(t, k)
  /\ input[t] \in {"admitted", "promoted"}
  /\ ~SessionBusy(t)
  /\ turn' = [turn EXCEPT ![t] = IF @ = "queued" THEN "running" ELSE @]
  /\ current' = [current EXCEPT ![t] = k]
  /\ input' = [input EXCEPT ![t] = "promoted"]
  /\ attempt' = [attempt EXCEPT ![t][k] = "running"]
  /\ RebindSteers(t, k)
  /\ UNCHANGED <<session, jobVars, providerVars, toolVars>>

\* wrong variant of InputOutcome: the turn's outcome is written as it is
InputOutcomeVerbatim(outcome) == outcome

\* wrong variant of JobOutcome: an interrupted turn fails its job
JobOutcomeFailsInterrupted(outcome) ==
  IF outcome \in {"succeeded", "cancelled"} THEN outcome ELSE "failed"

\* input_state_for_outcome and the job state of settle_session_turn_tx
InputOutcome(outcome) ==
  CASE outcome = "succeeded" -> "completed"
    [] outcome \in {"cancelled", "interrupted"} -> "cancelled"
    [] OTHER -> "failed"

JobOutcome(outcome) ==
  CASE outcome = "succeeded" -> "succeeded"
    [] outcome \in {"cancelled", "interrupted"} -> "cancelled"
    [] OTHER -> "failed"

SettleRows(t, k, outcome) ==
  /\ turn' = [turn EXCEPT ![t] = outcome]
  /\ attempt' = [attempt EXCEPT ![t][k] = outcome]
  /\ input' = [input EXCEPT ![t] = InputOutcome(outcome)]
  /\ CancelControls(PendingControl(t, k))
  /\ ReleaseJob(t, JobOutcome(outcome))
  /\ UNCHANGED <<session, current, toolVars>>

\* settle_session_turn_tx, outcome succeeded: publishes the open final
\* invocation of this attempt, or the checkpoint an earlier attempt left
SettleSucceeded(t, k) ==
  /\ Owns(t, k)
  /\ turn[t] = "running"
  /\ PendingControl(t, k) = {}
  /\ \/ provider[t] = "output_ready"
     \/ OpenBy(t, k)
  /\ SettleRows(t, k, "succeeded")
  /\ provider' = [provider EXCEPT ![t] = "succeeded"]
  /\ UNCHANGED <<step, number, sender>>

\* settle_session_turn_tx, any other outcome: an invocation of this attempt
\* that is still open may only become ambiguous, with recovery_required
SettleUnsuccessful(t, k, outcome) ==
  /\ Owns(t, k)
  /\ outcome \in TerminalTurn \ {"succeeded"}
  /\ OpenBy(t, k) => outcome = "recovery_required"
  /\ AmbiguateOpen(t, k)
  /\ SettleRows(t, k, outcome)

\* request_session_turn_cancel_tx of a queued turn: cancelled at once, whether
\* or not its job is claimed; the input is cancelled only while admitted
CancelQueued(t) ==
  /\ turn[t] = "queued"
  /\ job[t] \in {"pending", "ready", "running"}
  /\ turn' = [turn EXCEPT ![t] = "cancelled"]
  /\ input' = [input EXCEPT ![t] = IF @ = "admitted" THEN "cancelled" ELSE @]
  /\ ReleaseJob(t, "cancelled")
  /\ UNCHANGED <<session, current, attempt, controlVars, providerVars, toolVars>>

\* request_session_turn_cancel_tx of a running turn: its owner settles it
CancelRunning(t) ==
  /\ turn[t] = "running"
  /\ turn' = [turn EXCEPT ![t] = "cancel_requested"]
  /\ UNCHANGED <<session, current, input, jobVars, attempt, controlVars,
                 providerVars, toolVars>>

\* the suspension owners request_session_turn_cancel_tx counts
AwaitedApproval(t) == {x \in Tool : tool[t][x] = "approval_required"}
LiveMedia(t) ==
  {x \in Tool : media[t][x] \in {"live", "cancel_requested"}}

\* request_pending_tool_approval_cancel_tx: the call is cancelled and the job
\* goes back to the workers, one of which will settle the turn
CancelAwaitingApproval(t, x) ==
  /\ turn[t] = "waiting"
  /\ AwaitedApproval(t) = {x}
  /\ LiveMedia(t) = {}
  /\ job[t] = "waiting"
  /\ turn' = [turn EXCEPT ![t] = "cancel_requested"]
  /\ tool' = [tool EXCEPT ![t][x] = "cancelled"]
  /\ UNCHANGED <<toolAttempt, starts, recoveryRevision, media>>
  /\ job' = [job EXCEPT ![t] = "ready"]
  /\ UNCHANGED <<session, current, input, claims, lease, lapsed, attempt,
                 controlVars, providerVars>>

\* request_linked_media_cancel_tx reads the turn's first media operation,
\* whatever its state, and fails when that one has ended
CancelAwaitingMedia(t, x) ==
  /\ turn[t] = "waiting"
  /\ AwaitedApproval(t) = {}
  /\ LiveMedia(t) # {}
  /\ media[t][x] \in {"live", "cancel_requested"}
  /\ \A y \in Tool : media[t][y] # "none" => x <= y
  /\ turn' = [turn EXCEPT ![t] = "cancel_requested"]
  /\ media' = [media EXCEPT ![t][x] = "cancel_requested"]
  /\ UNCHANGED <<tool, toolAttempt, starts, recoveryRevision>>
  /\ UNCHANGED <<session, current, input, jobVars, attempt, controlVars,
                 providerVars>>

\* fail_job_tx of a started turn: its effects are unknown, so recovery
FailStarted(t, k) ==
  /\ job[t] = "running"
  /\ lease[t] = k
  /\ ActiveAttempt(t, k)
  /\ ReconcileRows({t}, {})
  /\ ReleaseJob(t, "failed")
  /\ UNCHANGED session

\* fail_job_tx of a turn that never had an attempt
FailUnstarted(t, k) ==
  /\ ClaimedBy(t, k)
  /\ turn[t] = "queued"
  /\ input[t] = "admitted"
  /\ \A j \in Claims : attempt[t][j] = "none"
  /\ turn' = [turn EXCEPT ![t] = "failed"]
  /\ input' = [input EXCEPT ![t] = "failed"]
  /\ ReleaseJob(t, "failed")
  /\ UNCHANGED <<session, current, attempt, controlVars, providerVars, toolVars>>

-----------------------------------------------------------------------------
(* Run controls.                                                           *)

IssueControl(t, k, c, inputState) ==
  /\ control[c] = "none"
  /\ control' = [control EXCEPT ![c] = "pending"]
  /\ controlTurn' = [controlTurn EXCEPT ![c] = t]
  /\ controlAttempt' = [controlAttempt EXCEPT ![c] = k]
  /\ controlInput' = [controlInput EXCEPT ![c] = inputState]

\* interrupt_session_turn: at most one per attempt under the default key
InterruptTurn(t, k, c) ==
  /\ ActiveAttempt(t, k)
  /\ \A i \in Interrupt : ~(controlTurn[i] = t /\ controlAttempt[i] = k)
  /\ IssueControl(t, k, c, "none")
  /\ UNCHANGED <<session, turnVars, jobVars, attempt, providerVars, toolVars>>

\* steer_session_turn
SteerTurn(t, k, c) ==
  /\ ActiveAttempt(t, k)
  /\ IssueControl(t, k, c, "control_pending")
  /\ UNCHANGED <<session, turnVars, jobVars, attempt, providerVars, toolVars>>

\* apply_session_turn_control: the owner takes over an interrupt as a
\* cancellation request, a steer as a user message
ApplyControl(t, k, c) ==
  /\ Owns(t, k)
  /\ c \in PendingControl(t, k)
  /\ control' = [control EXCEPT ![c] = "applied"]
  /\ controlInput' = [controlInput EXCEPT ![c] =
                        IF c \in Steer THEN "completed" ELSE @]
  /\ turn' = IF c \in Interrupt THEN [turn EXCEPT ![t] = "cancel_requested"]
                                ELSE turn
  /\ UNCHANGED <<session, current, input, jobVars, attempt, controlTurn,
                 controlAttempt, providerVars, toolVars>>

-----------------------------------------------------------------------------
(* Provider invocations.  The store orders the attempts of one step; that  *)
(* a step follows a succeeded one whose tool calls all have results is the *)
(* order of the runner's loop.                                             *)

\* begin_provider_invocation_tx of the first attempt of the next step
BeginStep(t, k) ==
  /\ Owns(t, k)
  /\ provider[t] \in {"none", "succeeded"}
  /\ Unsettled(t) = {}
  /\ step[t] < MaxSteps
  /\ provider' = [provider EXCEPT ![t] = "dispatched"]
  /\ step' = [step EXCEPT ![t] = @ + 1]
  /\ number' = [number EXCEPT ![t] = 1]
  /\ sender' = [sender EXCEPT ![t] = k]
  /\ UNCHANGED <<session, turnVars, jobVars, attempt, controlVars, toolVars>>

\* wrong variant of MayRetry: an ambiguous invocation is sent again
MayRetryAmbiguous(t) ==
  /\ provider[t] \in {"retryable", "ambiguous"}
  /\ number[t] < ProviderMaxAttempts

\* the previous attempt of the step failed retryably and without output
MayRetry(t) ==
  /\ provider[t] = "retryable"
  /\ number[t] < ProviderMaxAttempts

\* begin_provider_invocation_tx of a further attempt of the step
RetryProvider(t, k) ==
  /\ Owns(t, k)
  /\ MayRetry(t)
  /\ provider' = [provider EXCEPT ![t] = "dispatched"]
  /\ number' = [number EXCEPT ![t] = @ + 1]
  /\ sender' = [sender EXCEPT ![t] = k]
  /\ UNCHANGED <<step, session, turnVars, jobVars, attempt, controlVars, toolVars>>

\* mark_provider_invocation_output
MarkOutput(t, k) ==
  /\ Owns(t, k)
  /\ provider[t] = "dispatched"
  /\ sender[t] = k
  /\ provider' = [provider EXCEPT ![t] = "output_observed"]
  /\ UNCHANGED <<step, number, sender, session, turnVars, jobVars, attempt,
                 controlVars, toolVars>>

\* checkpoint_provider_invocation
CheckpointProvider(t, k) ==
  /\ Owns(t, k)
  /\ provider[t] = "output_observed"
  /\ sender[t] = k
  /\ provider' = [provider EXCEPT ![t] = "output_ready"]
  /\ UNCHANGED <<step, number, sender, session, turnVars, jobVars, attempt,
                 controlVars, toolVars>>

\* finish_provider_invocation_tx, outcomes failed_before_output and ambiguous:
\* a failure is retryable when its error says so and no output was observed
FinishProviderFailed(t, k, outcome) ==
  /\ Owns(t, k)
  /\ OpenBy(t, k)
  /\ outcome = "retryable" => provider[t] = "dispatched"
  /\ provider' = [provider EXCEPT ![t] = outcome]
  /\ UNCHANGED <<step, number, sender, session, turnVars, jobVars, attempt,
                 controlVars, toolVars>>

\* the runs of fresh tool calls one assistant message may hold: a deferred
\* call beside others gets an error result and is never begun
ToolBatch(t) ==
  LET fresh == {x \in Tool : tool[t][x] = "none"}
  IN {S \in SUBSET fresh :
        /\ S # {}
        /\ \A x \in S, y \in fresh : y < x => y \in S
        /\ S \cap Deferred # {} => Cardinality(S) = 1}

\* finish_provider_invocation_tx, outcome succeeded, with tool calls
FinishProviderWithTools(t, k, batch) ==
  /\ Owns(t, k)
  /\ turn[t] = "running"
  /\ \/ provider[t] = "output_ready"
     \/ OpenBy(t, k)
  /\ provider' = [provider EXCEPT ![t] = "succeeded"]
  /\ UNCHANGED <<step, number, sender>>
  /\ tool' = [tool EXCEPT ![t] = [x \in Tool |->
       IF x \in batch THEN "requested" ELSE tool[t][x]]]
  /\ UNCHANGED <<toolAttempt, starts, recoveryRevision, media>>
  /\ UNCHANGED <<session, turnVars, jobVars, attempt, controlVars>>

\* finish_provider_invocation_tx, outcome succeeded, without tool calls: the
\* turn goes on because a steer is pending
FinishProviderForSteer(t, k) ==
  /\ Owns(t, k)
  /\ turn[t] = "running"
  /\ PendingControl(t, k) \cap Steer # {}
  /\ \/ provider[t] = "output_ready"
     \/ OpenBy(t, k)
  /\ provider' = [provider EXCEPT ![t] = "succeeded"]
  /\ UNCHANGED <<step, number, sender>>
  /\ UNCHANGED <<session, turnVars, jobVars, attempt, controlVars, toolVars>>

-----------------------------------------------------------------------------
(* Tool executions.                                                        *)

\* runToolBatch: calls run in order, except that a parallel_safe call may
\* join the parallel_safe calls before it
MayBegin(t, x) ==
  \A y \in Tool : y < x => \/ tool[t][y] \in SettledTool
                           \/ {x, y} \subseteq Parallel

\* create_tool_attempt_tx
CreateToolAttempt(t, k, x) ==
  /\ tool' = [tool EXCEPT ![t][x] = "running"]
  /\ toolAttempt' = [toolAttempt EXCEPT ![t][x] = k]
  /\ starts' = [starts EXCEPT ![t][x] = @ + 1]
  /\ UNCHANGED <<recoveryRevision, media>>

\* begin_tool_execution of a call the policy allows
BeginTool(t, k, x) ==
  /\ Owns(t, k)
  /\ tool[t][x] = "requested"
  /\ x \notin Approval
  /\ MayBegin(t, x)
  /\ CreateToolAttempt(t, k, x)
  /\ UNCHANGED <<session, turnVars, jobVars, attempt, controlVars, providerVars>>

\* begin_existing_execution_tx of a call made ready by recovery or approval
ResumeTool(t, k, x) ==
  /\ Owns(t, k)
  /\ tool[t][x] \in {"retry_ready", "approved"}
  /\ MayBegin(t, x)
  /\ CreateToolAttempt(t, k, x)
  /\ UNCHANGED <<session, turnVars, jobVars, attempt, controlVars, providerVars>>

\* begin_tool_execution of a call the policy denies
DenyTool(t, k, x) ==
  /\ Owns(t, k)
  /\ tool[t][x] = "requested"
  /\ MayBegin(t, x)
  /\ tool' = [tool EXCEPT ![t][x] = "denied"]
  /\ UNCHANGED <<toolAttempt, starts, recoveryRevision, media>>
  /\ UNCHANGED <<session, turnVars, jobVars, attempt, controlVars, providerVars>>

\* wrong variant of SuspendRows: the job stays with the scheduler
SuspendRowsReady(t, k) ==
  /\ turn' = [turn EXCEPT ![t] = "waiting"]
  /\ current' = [current EXCEPT ![t] = 0]
  /\ attempt' = [attempt EXCEPT ![t][k] = "suspended"]
  /\ CancelControls(PendingControl(t, k) \cap Interrupt)
  /\ ReleaseJob(t, "ready")
  /\ UNCHANGED <<session, input, providerVars>>

\* the turn gives up its attempt and its lease, and waits
SuspendRows(t, k) ==
  /\ turn' = [turn EXCEPT ![t] = "waiting"]
  /\ current' = [current EXCEPT ![t] = 0]
  /\ attempt' = [attempt EXCEPT ![t][k] = "suspended"]
  /\ CancelControls(PendingControl(t, k) \cap Interrupt)
  /\ ReleaseJob(t, "waiting")
  /\ UNCHANGED <<session, input, providerVars>>

\* begin_tool_execution and suspend_for_tool_approval_tx
SuspendForApproval(t, k, x) ==
  /\ Owns(t, k)
  /\ turn[t] = "running"
  /\ tool[t][x] = "requested"
  /\ x \in Approval
  /\ MayBegin(t, x)
  /\ tool' = [tool EXCEPT ![t][x] = "approval_required"]
  /\ UNCHANGED <<toolAttempt, starts, recoveryRevision, media>>
  /\ SuspendRows(t, k)

\* wake_approval_turn_tx
WakeApprovalTurn(t) ==
  /\ turn[t] = "waiting"
  /\ current[t] = 0
  /\ job[t] = "waiting"
  /\ turn' = [turn EXCEPT ![t] = "queued"]
  /\ job' = [job EXCEPT ![t] = "ready"]
  /\ UNCHANGED <<session, current, input, claims, lease, lapsed, attempt,
                 controlVars, providerVars>>

\* resolve_tool_execution_approval
ResolveApproval(t, x, decision) ==
  /\ tool[t][x] = "approval_required"
  /\ tool' = [tool EXCEPT ![t][x] = decision]
  /\ UNCHANGED <<toolAttempt, starts, recoveryRevision, media>>
  /\ WakeApprovalTurn(t)

\* finish_tool_execution
FinishTool(t, k, x, outcome) ==
  /\ Owns(t, k)
  /\ tool[t][x] = "running"
  /\ toolAttempt[t][x] = k
  /\ tool' = [tool EXCEPT ![t][x] = outcome]
  /\ UNCHANGED <<toolAttempt, starts, recoveryRevision, media>>
  /\ UNCHANGED <<session, turnVars, jobVars, attempt, controlVars, providerVars>>

\* require_tool_execution_recovery: the tool's outcome is unknown, and with
\* it that of every other running tool of the turn
RequireToolRecovery(t, k, x) ==
  /\ Owns(t, k)
  /\ tool[t][x] = "running"
  /\ toolAttempt[t][x] = k
  /\ turn' = [turn EXCEPT ![t] = "recovery_required"]
  /\ input' = [input EXCEPT ![t] = "failed"]
  /\ attempt' = [attempt EXCEPT ![t][k] = "recovery_required"]
  /\ CancelControls({c \in Control : control[c] = "pending"
                                       /\ controlTurn[c] = t})
  /\ AmbiguateOpen(t, k)
  /\ tool' = [tool EXCEPT ![t] = [y \in Tool |->
       IF tool[t][y] = "running" THEN "recovery_required" ELSE tool[t][y]]]
  /\ recoveryRevision' = [recoveryRevision EXCEPT ![t] = [y \in Tool |->
       recoveryRevision[t][y] + IF tool[t][y] = "running" THEN 1 ELSE 0]]
  /\ UNCHANGED <<toolAttempt, starts, media>>
  /\ ReleaseJob(t, "failed")
  /\ UNCHANGED <<session, current>>

\* resolve_tool_execution_recovery: the operator's decision names the revision
\* it saw, which validate_resolve_recovery wants positive
Recoverable(t, x, revision) ==
  /\ tool[t][x] = "recovery_required"
  /\ recoveryRevision[t][x] = revision
  /\ revision > 0
  /\ turn[t] = "recovery_required"

\* prepare_recovered_tool_retry_tx
MayRetryTool(t, x) ==
  /\ x \in Idempotent \ Deferred
  /\ starts[t][x] < ToolMaxAttempts

\* requeue_if_tool_recovery_complete_tx: x was the last call to be decided
RequeueIfComplete(t, x) ==
  IF \E y \in Tool \ {x} : tool[t][y] = "recovery_required"
    THEN UNCHANGED <<turnVars, jobVars>>
    ELSE /\ input[t] = "failed"
         /\ job[t] = "failed"
         /\ turn' = [turn EXCEPT ![t] = "queued"]
         /\ current' = [current EXCEPT ![t] = 0]
         /\ input' = [input EXCEPT ![t] = "promoted"]
         /\ ReleaseJob(t, "ready")

\* settle_recovered_tool_tx or prepare_recovered_tool_retry_tx
ResolveRecovery(t, x, revision, state) ==
  /\ Recoverable(t, x, revision)
  /\ state = "retry_ready" => MayRetryTool(t, x)
  /\ tool' = [tool EXCEPT ![t][x] = state]
  /\ recoveryRevision' = [recoveryRevision EXCEPT ![t][x] = @ + 1]
  /\ UNCHANGED <<toolAttempt, starts, media>>
  /\ RequeueIfComplete(t, x)
  /\ UNCHANGED <<session, attempt, controlVars, providerVars>>

\* abandon_recovered_turn_tx
AbandonTurn(t, x, revision) ==
  /\ Recoverable(t, x, revision)
  /\ current[t] \in Claims
  /\ attempt[t][current[t]] = "recovery_required"
  /\ turn' = [turn EXCEPT ![t] = "failed"]
  /\ attempt' = [attempt EXCEPT ![t][current[t]] = "failed"]
  /\ tool' = [tool EXCEPT ![t] = [y \in Tool |->
       IF tool[t][y] \in {"recovery_required", "retry_ready"} THEN "failed"
                                                             ELSE tool[t][y]]]
  /\ recoveryRevision' = [recoveryRevision EXCEPT ![t] = [y \in Tool |->
       recoveryRevision[t][y]
         + IF tool[t][y] \in {"recovery_required", "retry_ready"} THEN 1 ELSE 0]]
  /\ UNCHANGED <<toolAttempt, starts, media>>
  /\ UNCHANGED <<session, current, input, jobVars, controlVars, providerVars>>

-----------------------------------------------------------------------------
(* Deferred tools: the turn waits for a media generation.                  *)

\* validate_deferred_tool_owner_tx
Deferrable(t, k, x) ==
  /\ Owns(t, k)
  /\ turn[t] = "running"
  /\ x \in Deferred
  /\ tool[t][x] = "running"
  /\ toolAttempt[t][x] = k

\* defer_tool_execution_to_media_generation
DeferTool(t, k, x) ==
  /\ Deferrable(t, k, x)
  /\ tool' = [tool EXCEPT ![t][x] = "waiting"]
  /\ media' = [media EXCEPT ![t][x] = "live"]
  /\ UNCHANGED <<toolAttempt, starts, recoveryRevision>>
  /\ SuspendRows(t, k)

\* wrong variant of Woken: a cancelled wait resumes like any other
WokenAlways(state) == "queued"

\* wake_waiting_tool_parent_tx
Woken(state) == IF state = "waiting" THEN "queued" ELSE state

\* settle_linked_conversation_tx: the operation ends, the tool settles and the
\* turn wakes in one transaction
SettleMedia(t, x, outcome) ==
  /\ media[t][x] \in {"live", "cancel_requested"}
  /\ tool[t][x] = "waiting"
  /\ turn[t] \in {"waiting", "cancel_requested"}
  /\ current[t] = 0
  /\ job[t] = "waiting"
  /\ tool' = [tool EXCEPT ![t][x] = outcome]
  /\ media' = [media EXCEPT ![t][x] = "ended"]
  /\ UNCHANGED <<toolAttempt, starts, recoveryRevision>>
  /\ turn' = [turn EXCEPT ![t] = Woken(@)]
  /\ job' = [job EXCEPT ![t] = "ready"]
  /\ UNCHANGED <<session, current, input, claims, lease, lapsed, attempt,
                 controlVars, providerVars>>

\* require_linked_conversation_recovery_tx: the operation's outcome is unknown
RequireMediaRecovery(t, x) ==
  LET k == toolAttempt[t][x]
  IN
  /\ media[t][x] \in {"live", "cancel_requested"}
  /\ tool[t][x] = "waiting"
  /\ k \in Claims
  /\ attempt[t][k] = "suspended"
  /\ turn[t] \in {"waiting", "cancel_requested"}
  /\ current[t] = 0
  /\ input[t] = "promoted"
  /\ job[t] = "waiting"
  /\ tool' = [tool EXCEPT ![t][x] = "recovery_required"]
  /\ recoveryRevision' = [recoveryRevision EXCEPT ![t][x] = @ + 1]
  /\ media' = [media EXCEPT ![t][x] = "ended"]
  /\ UNCHANGED <<toolAttempt, starts>>
  /\ attempt' = [attempt EXCEPT ![t][k] = "recovery_required"]
  /\ turn' = [turn EXCEPT ![t] = "recovery_required"]
  /\ current' = [current EXCEPT ![t] = k]
  /\ input' = [input EXCEPT ![t] = "failed"]
  /\ job' = [job EXCEPT ![t] = "failed"]
  /\ CancelControls({c \in Control : control[c] = "pending"
                                       /\ controlTurn[c] = t})
  /\ UNCHANGED <<session, claims, lease, lapsed, providerVars>>

-----------------------------------------------------------------------------
(* The steps of a worker that owns a lease on turn t's job.                *)
WorkerStep(t, k) ==
  \/ Heartbeat(t, k)
  \/ StartAttempt(t, k)
  \/ SettleSucceeded(t, k)
  \/ \E outcome \in TerminalTurn \ {"succeeded"} : SettleUnsuccessful(t, k, outcome)
  \/ FailStarted(t, k)
  \/ FailUnstarted(t, k)
  \/ \E c \in Control : ApplyControl(t, k, c)

ProviderStep(t, k) ==
  \/ BeginStep(t, k)
  \/ RetryProvider(t, k)
  \/ MarkOutput(t, k)
  \/ CheckpointProvider(t, k)
  \/ \E outcome \in {"retryable", "fatal", "ambiguous"} :
       FinishProviderFailed(t, k, outcome)
  \/ \E batch \in ToolBatch(t) : FinishProviderWithTools(t, k, batch)
  \/ FinishProviderForSteer(t, k)

ToolStep(t, k, x) ==
  \/ BeginTool(t, k, x)
  \/ ResumeTool(t, k, x)
  \/ DenyTool(t, k, x)
  \/ SuspendForApproval(t, k, x)
  \/ \E outcome \in {"succeeded", "failed", "cancelled"} :
       FinishTool(t, k, x, outcome)
  \/ RequireToolRecovery(t, k, x)
  \/ DeferTool(t, k, x)

\* the steps of users and operators, and of the media worker
UserStep(t) ==
  \/ \E state \in {"pending", "ready"} : Submit(t, state)
  \/ CancelQueued(t)
  \/ CancelRunning(t)
  \/ \E k \in Claims : \/ \E c \in Interrupt : InterruptTurn(t, k, c)
                       \/ \E c \in Steer : SteerTurn(t, k, c)

OperatorStep(t, x) ==
  \/ CancelAwaitingApproval(t, x)
  \/ CancelAwaitingMedia(t, x)
  \/ \E decision \in {"approved", "denied"} : ResolveApproval(t, x, decision)
  \/ \E state \in {"succeeded", "failed", "retry_ready"} :
       ResolveRecovery(t, x, recoveryRevision[t][x], state)
  \/ AbandonTurn(t, x, recoveryRevision[t][x])

MediaStep(t, x) ==
  \/ \E outcome \in {"succeeded", "failed"} : SettleMedia(t, x, outcome)
  \/ RequireMediaRecovery(t, x)

SchedulerStep(t) ==
  \/ NotBeforePasses(t)
  \/ LeaseExpires(t)
  \/ Claim(t)

Next ==
  \/ ClaimNothing
  \/ \E s \in Session : Archive(s) \/ Restore(s)
  \/ \E t \in Turn :
       \/ UserStep(t)
       \/ SchedulerStep(t)
       \/ \E x \in Tool : OperatorStep(t, x) \/ MediaStep(t, x)
       \/ \E k \in Claims : \/ WorkerStep(t, k)
                            \/ ProviderStep(t, k)
                            \/ \E x \in Tool : ToolStep(t, k, x)

Spec == Init /\ [][Next]_vars

-----------------------------------------------------------------------------
(* Correctness.                                                            *)

\* "One Session admits at most one active Turn": a recovered turn goes back to
\* the queue while a later one may be waiting, and never joins it
OneActiveTurn ==
  \A t, u \in Turn : /\ SessionOf[t] = SessionOf[u]
                     /\ turn[t] \in ActiveTurn
                     /\ turn[u] \in ActiveTurn
                     => t = u

\* A running attempt is the turn's current one and its lease is the one on the
\* job: a worker whose lease was given away has no running attempt left
ExactOwner ==
  \A t \in Turn, k \in Claims : attempt[t][k] = "running" =>
    /\ turn[t] \in {"running", "cancel_requested"}
    /\ current[t] = k
    /\ job[t] = "running"
    /\ lease[t] = k

\* reset_expired_leases_tx runs inside every claim_job and fails the claim of
\* every worker when one expired job cannot be reconciled: none ever is such
ClaimNeverPoisoned == \A t \in Promoted : Reconcilable(t)

\* A turn, its job and its input end together and agree on how: nothing is
\* left claimable for an ended turn and no live turn has lost its job
SettledTogether ==
  \A t \in Turn :
    /\ turn[t] = "succeeded" <=> job[t] = "succeeded"
    /\ turn[t] = "succeeded" <=> input[t] = "completed"
    /\ turn[t] \in {"cancelled", "interrupted"} <=> job[t] = "cancelled"
    /\ turn[t] \in {"failed", "recovery_required"} <=> job[t] = "failed"
    /\ turn[t] \in {"failed", "recovery_required"} <=> input[t] = "failed"

\* However leases expire and workers fail, a tool that is not idempotent is
\* started at most once, and an idempotent one within its frozen bound
ToolStartsBounded ==
  \A t \in Turn, x \in Tool :
    starts[t][x] <= IF x \in Idempotent THEN ToolMaxAttempts ELSE 1

\* "waiting session turn must have exactly one durable suspension owner", and
\* an owner never outlives the suspension: nobody resumes the turn twice
SuspensionOwner ==
  \A t \in Turn :
    /\ turn[t] = "waiting" => \E x \in Tool :
         \/ AwaitedApproval(t) = {x} /\ LiveMedia(t) = {}
         \/ AwaitedApproval(t) = {} /\ LiveMedia(t) = {x}
    /\ AwaitedApproval(t) # {} => turn[t] = "waiting" /\ job[t] = "waiting"
    /\ LiveMedia(t) # {} => turn[t] \in {"waiting", "cancel_requested"}
                              /\ current[t] = 0 /\ job[t] = "waiting"

\* While a turn has not ended, a tool runs only under the attempt that owns it
RunningToolOwned ==
  \A t \in Turn, x \in Tool :
    tool[t][x] = "running" /\ turn[t] \notin TerminalTurn =>
      ActiveAttempt(t, toolAttempt[t][x])

\* A turn does not succeed past a control a user was told is accepted, even if
\* the attempt the control was addressed to has been replaced
NoControlSkipped ==
  \A c \in Control : control[c] = "pending" =>
    turn[controlTurn[c]] # "succeeded"

\* Late and repeated calls change nothing once a turn has ended; only an
\* operator's decision takes a turn out of recovery_required
EndedStays ==
  \A t \in Turn :
    /\ turn[t] \in TerminalTurn \ {"recovery_required"} =>
         /\ turn'[t] = turn[t] /\ job'[t] = job[t] /\ input'[t] = input[t]
         /\ provider'[t] = provider[t]
         /\ \A k \in Claims : attempt'[t][k] = attempt[t][k]
    /\ turn[t] = "recovery_required" =>
         turn'[t] \in {"recovery_required", "queued", "failed"}

EndedForGood == [][EndedStays]_vars

\* A requested cancellation is never dropped: the turn's next state is an
\* unsuccessful end
CancelStays ==
  \A t \in Turn : turn[t] = "cancel_requested" =>
    turn'[t] \in {"cancel_requested"} \cup (TerminalTurn \ {"succeeded"})

CancelSticks == [][CancelStays]_vars

\* A turn is first started only when every earlier turn of its session has
\* ended or had been started before it
StartsInOrder ==
  [][\A t, u \in Turn :
       /\ SessionOf[u] = SessionOf[t]
       /\ u < t
       /\ input[t] = "admitted"
       /\ input'[t] = "promoted"
       => turn[u] \in TerminalTurn \/ input[u] = "promoted"]_vars

\* A provider request whose output was seen, or may have been, is never sent
\* again, whichever attempt goes on with the turn
OutputStays ==
  \A t \in Turn :
    provider[t] \in {"output_observed", "output_ready", "ambiguous", "fatal"} =>
      provider'[t] # "dispatched" /\ number'[t] = number[t]

ProviderNotRepeated == [][OutputStays]_vars

-----------------------------------------------------------------------------
(* Claims the repository makes that the code does not keep.                *)

\* apps/tui/README.md: recovery "submits the exact visible revision after
\* explicit confirmation"; a decision is accepted only at a positive revision
DecisionsAvailable ==
  \A t \in Turn, x \in Tool :
    turn[t] = "recovery_required" /\ tool[t][x] = "recovery_required" =>
      Recoverable(t, x, recoveryRevision[t][x])
=============================================================================
