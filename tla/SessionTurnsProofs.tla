------------------------- MODULE SessionTurnsProofs -------------------------
(***************************************************************************)
(* Safety of the turn kernel for any number of sessions, turns, controls,  *)
(* tools and leases: who owns a turn, that a session runs one turn at a    *)
(* time, that the rows of a turn end together, that no tool is started     *)
(* more often than its contract allows, that no accepted control is        *)
(* skipped, that turns start in order, that a suspended turn has one owner *)
(* and that a running tool belongs to the turn's attempt.  A step of       *)
(* [Next]_vars is split by the party that takes it and then by action; the *)
(* last case of every split collects the actions that leave the rows of    *)
(* the invariant alone.                                                    *)
(***************************************************************************)
EXTENDS SessionTurnsTypes

-----------------------------------------------------------------------------
(* Ownership.                                                              *)

\* ExactOwner is inductive: a running attempt can only be left behind by a step
\* that takes its lease, and each of those steps ends the attempt in the same
\* transaction

LEMMA OwnerNext ==
  ASSUME TypeOK, ExactOwner, [Next]_vars
  PROVE  ExactOwner'
<1> USE DEF jobVars, turnVars, controlVars, providerVars, toolVars
<1>1. ASSUME NEW t \in Turn, UserStep(t)
      PROVE  ExactOwner'
  <2>1. ASSUME NEW state \in {"pending", "ready"}, Submit(t, state)
        PROVE  ExactOwner'
    BY <2>1, BoundAssumption DEF Submit, ExactOwner, TypeOK, TurnRowsOK,
           JobRowsOK, Claims
  <2>2. CASE CancelQueued(t)
    BY <2>2, BoundAssumption DEF CancelQueued, ReleaseJob, ExactOwner, TypeOK,
           TurnRowsOK, JobRowsOK, Claims
  <2>3. CASE CancelRunning(t)
    BY <2>3, BoundAssumption DEF CancelRunning, ExactOwner, TypeOK, TurnRowsOK,
           JobRowsOK, Claims
  <2>4. CASE \/ \E k \in Claims, c \in Interrupt : InterruptTurn(t, k, c)
             \/ \E k \in Claims, c \in Steer : SteerTurn(t, k, c)
    BY <2>4 DEF InterruptTurn, SteerTurn, ExactOwner, TypeOK, TurnRowsOK,
           JobRowsOK, Claims
  <2> QED
    BY <1>1, <2>1, <2>2, <2>3, <2>4, Zenon DEF UserStep
<1>2. ASSUME NEW t \in Turn, SchedulerStep(t)
      PROVE  ExactOwner'
  <2>1. CASE NotBeforePasses(t)
    BY <2>1, BoundAssumption DEF NotBeforePasses, ExactOwner, TypeOK,
           TurnRowsOK, JobRowsOK, Claims
  <2>2. CASE Claim(t)
    BY <2>2, BoundAssumption DEF Claim, ResetExpiredLeases, ReconcileRows,
           CancelControls, RecoveryTools, RequeuedTools, ResetJob, Expired,
           Promoted, Required, Candidate, Reconcilable, ExactOwner, TypeOK,
           TurnRowsOK, JobRowsOK, Claims
  <2>3. CASE LeaseExpires(t)
    BY <2>3, Zenon DEF LeaseExpires, ExactOwner, TypeOK, TurnRowsOK, JobRowsOK,
           Claims
  <2> QED
    BY <1>2, <2>1, <2>2, <2>3, Zenon DEF SchedulerStep
<1>3. ASSUME NEW t \in Turn, NEW k \in Claims, WorkerStep(t, k)
      PROVE  ExactOwner'
  <2>1. CASE StartAttempt(t, k)
    BY <2>1, BoundAssumption DEF StartAttempt, RebindSteers, ClaimedBy,
           ExactOwner, TypeOK, TurnRowsOK, JobRowsOK, Claims
  <2>2. CASE SettleSucceeded(t, k)
    BY <2>2, BoundAssumption DEF SettleSucceeded, SettleRows, CancelControls,
           ReleaseJob, InputOutcome, JobOutcome, Owns, TerminalTurn,
           ExactOwner, TypeOK, TurnRowsOK, JobRowsOK, Claims
  <2>3. ASSUME NEW outcome \in TerminalTurn \ {"succeeded"},
               SettleUnsuccessful(t, k, outcome)
        PROVE  ExactOwner'
    BY <2>3, BoundAssumption DEF SettleUnsuccessful, SettleRows, AmbiguateOpen,
           CancelControls, ReleaseJob, InputOutcome, JobOutcome, Owns,
           TerminalTurn, ExactOwner, TypeOK, TurnRowsOK, JobRowsOK, Claims
  <2>4. CASE FailStarted(t, k)
    BY <2>4, BoundAssumption DEF FailStarted, ReconcileRows, CancelControls,
           RecoveryTools, RequeuedTools, ReleaseJob, ActiveAttempt, ExactOwner,
           TypeOK, TurnRowsOK, JobRowsOK, Claims
  <2>5. CASE FailUnstarted(t, k)
    BY <2>5, BoundAssumption DEF FailUnstarted, ReleaseJob, ExactOwner, TypeOK,
           TurnRowsOK, JobRowsOK, Claims
  <2>6. ASSUME NEW c \in Control, ApplyControl(t, k, c)
        PROVE  ExactOwner'
    BY <2>6, BoundAssumption DEF ApplyControl, Owns, ExactOwner, TypeOK,
           TurnRowsOK, JobRowsOK, Claims
  <2>7. CASE Heartbeat(t, k)
    BY <2>7, Zenon DEF Heartbeat, ExactOwner, TypeOK, TurnRowsOK, JobRowsOK, Claims
  <2> QED
    BY <1>3, <2>1, <2>2, <2>3, <2>4, <2>5, <2>6, <2>7, Zenon DEF WorkerStep
<1>4. ASSUME NEW t \in Turn, NEW k \in Claims, ProviderStep(t, k)
      PROVE  ExactOwner'
  BY <1>4 DEF ProviderStep, BeginStep, RetryProvider, MarkOutput,
         CheckpointProvider, FinishProviderFailed, FinishProviderWithTools,
         FinishProviderForSteer, ExactOwner, TypeOK, TurnRowsOK, JobRowsOK,
         Claims
<1>5. ASSUME NEW t \in Turn, NEW k \in Claims, NEW x \in Tool, ToolStep(t, k, x)
      PROVE  ExactOwner'
  <2>1. CASE SuspendForApproval(t, k, x)
    BY <2>1, BoundAssumption DEF SuspendForApproval, SuspendRows,
           CancelControls, ReleaseJob, Owns, ExactOwner, TypeOK, TurnRowsOK,
           JobRowsOK, Claims
  <2>2. CASE RequireToolRecovery(t, k, x)
    BY <2>2, BoundAssumption DEF RequireToolRecovery, AmbiguateOpen,
           CancelControls, ReleaseJob, Owns, ExactOwner, TypeOK, TurnRowsOK,
           JobRowsOK, Claims
  <2>3. CASE DeferTool(t, k, x)
    BY <2>3, BoundAssumption DEF DeferTool, Deferrable, SuspendRows,
           CancelControls, ReleaseJob, Owns, ExactOwner, TypeOK, TurnRowsOK,
           JobRowsOK, Claims
  <2>4. CASE \/ BeginTool(t, k, x)
             \/ ResumeTool(t, k, x)
             \/ DenyTool(t, k, x)
             \/ \E outcome \in {"succeeded", "failed", "cancelled"} :
                  FinishTool(t, k, x, outcome)
    BY <2>4 DEF BeginTool, ResumeTool, DenyTool, FinishTool, ExactOwner,
           TypeOK, TurnRowsOK, JobRowsOK, Claims
  <2> QED
    BY <1>5, <2>1, <2>2, <2>3, <2>4, Zenon DEF ToolStep
<1>6. ASSUME NEW t \in Turn, NEW x \in Tool, OperatorStep(t, x)
      PROVE  ExactOwner'
  <2>1. CASE CancelAwaitingApproval(t, x)
    BY <2>1, BoundAssumption DEF CancelAwaitingApproval, ExactOwner, TypeOK,
           TurnRowsOK, JobRowsOK, Claims
  <2>2. CASE CancelAwaitingMedia(t, x)
    BY <2>2, BoundAssumption DEF CancelAwaitingMedia, ExactOwner, TypeOK,
           TurnRowsOK, JobRowsOK, Claims
  <2>3. ASSUME NEW decision \in {"approved", "denied"},
               ResolveApproval(t, x, decision)
        PROVE  ExactOwner'
    BY <2>3, BoundAssumption DEF ResolveApproval, WakeApprovalTurn, ExactOwner,
           TypeOK, TurnRowsOK, JobRowsOK, Claims
  <2>4. ASSUME NEW state \in {"succeeded", "failed", "retry_ready"},
               ResolveRecovery(t, x, recoveryRevision[t][x], state)
        PROVE  ExactOwner'
    BY <2>4, BoundAssumption DEF ResolveRecovery, RequeueIfComplete,
           MayRetryTool, ReleaseJob, Recoverable, ExactOwner, TypeOK,
           TurnRowsOK, JobRowsOK, Claims
  <2>5. CASE AbandonTurn(t, x, recoveryRevision[t][x])
    BY <2>5, BoundAssumption DEF AbandonTurn, Recoverable, ExactOwner, TypeOK,
           TurnRowsOK, JobRowsOK, Claims
  <2> QED
    BY <1>6, <2>1, <2>2, <2>3, <2>4, <2>5, Zenon DEF OperatorStep
<1>7. ASSUME NEW t \in Turn, NEW x \in Tool, MediaStep(t, x)
      PROVE  ExactOwner'
  <2>1. ASSUME NEW outcome \in {"succeeded", "failed"},
               SettleMedia(t, x, outcome)
        PROVE  ExactOwner'
    BY <2>1, BoundAssumption DEF SettleMedia, Woken, ExactOwner, TypeOK,
           TurnRowsOK, JobRowsOK, Claims
  <2>2. CASE RequireMediaRecovery(t, x)
    BY <2>2, BoundAssumption DEF RequireMediaRecovery, CancelControls,
           ExactOwner, TypeOK, TurnRowsOK, JobRowsOK, Claims
  <2> QED
    BY <1>7, <2>1, <2>2, Zenon DEF MediaStep
<1>8. CASE ClaimNothing
  BY <1>8, BoundAssumption DEF ClaimNothing, ResetExpiredLeases, ReconcileRows,
         ResetJob, Expired, Promoted, Required, Reconcilable, ExactOwner,
         TypeOK, TurnRowsOK, JobRowsOK, Claims
<1>9. CASE \E s \in Session : Archive(s) \/ Restore(s)
  BY <1>9 DEF Archive, Restore, ExactOwner, TypeOK, TurnRowsOK, JobRowsOK,
         Claims
<1>10. CASE UNCHANGED vars
  BY <1>10, Zenon DEF vars, ExactOwner, TypeOK, TurnRowsOK, JobRowsOK, Claims
<1> QED
  BY <1>1, <1>2, <1>3, <1>4, <1>5, <1>6, <1>7, <1>8, <1>9, <1>10, Zenon DEF Next

\* A running attempt is its turn's current one and holds the lease of the job,
\* however often leases expire, are extended late or are handed to others
THEOREM Ownership == Spec => []ExactOwner
<1>1. Init => ExactOwner
  BY DEF Init, ExactOwner
<1>2. TypeOK /\ ExactOwner /\ [Next]_vars => ExactOwner'
  BY OwnerNext, Zenon
<1> QED
  BY <1>1, <1>2, TypeCorrect, PTL DEF Spec

\* Every expired job with a running attempt can be reconciled, so that one
\* turn's rows never make claim_job fail for all workers
THEOREM ClaimsSurvive == Spec => []ClaimNeverPoisoned
<1>1. TypeOK /\ ExactOwner => ClaimNeverPoisoned
  BY DEF TypeOK, JobRowsOK, ExactOwner, ClaimNeverPoisoned, Promoted, Expired,
     Reconcilable
<1> QED
  BY <1>1, TypeCorrect, Ownership, PTL

-----------------------------------------------------------------------------
(* One active turn per session.                                            *)

\* reset_expired_leases_tx makes no turn active
LEMMA ActiveReset ==
  ASSUME TypeOK, OneActiveTurn, ResetExpiredLeases
  PROVE  OneActiveTurn'
<1>1. ASSUME NEW u \in Turn, turn'[u] \in ActiveTurn
      PROVE  turn[u] \in ActiveTurn
  BY <1>1, Zenon DEF ResetExpiredLeases, ReconcileRows, TypeOK, TurnRowsOK,
         ActiveTurn
<1> QED
  BY <1>1, Zenon DEF OneActiveTurn

\* only StartAttempt makes a turn active, and it looks for another one first

LEMMA ActiveNext ==
  ASSUME TypeOK, OneActiveTurn, [Next]_vars
  PROVE  OneActiveTurn'
<1> USE DEF jobVars, turnVars, controlVars, providerVars, toolVars
<1>1. ASSUME NEW t \in Turn, UserStep(t)
      PROVE  OneActiveTurn'
  <2>1. ASSUME NEW state \in {"pending", "ready"}, Submit(t, state)
        PROVE  OneActiveTurn'
    BY <2>1, Zenon DEF Submit, OneActiveTurn, ActiveTurn, TypeOK, TurnRowsOK
  <2>2. CASE CancelQueued(t)
    BY <2>2, Zenon DEF CancelQueued, ReleaseJob, OneActiveTurn, ActiveTurn, TypeOK,
           TurnRowsOK
  <2>3. CASE CancelRunning(t)
    BY <2>3, Zenon DEF CancelRunning, OneActiveTurn, ActiveTurn, TypeOK, TurnRowsOK
  <2>4. CASE \/ \E k \in Claims, c \in Interrupt : InterruptTurn(t, k, c)
             \/ \E k \in Claims, c \in Steer : SteerTurn(t, k, c)
    BY <2>4, Zenon DEF InterruptTurn, SteerTurn, OneActiveTurn, ActiveTurn, TypeOK,
           TurnRowsOK
  <2> QED
    BY <1>1, <2>1, <2>2, <2>3, <2>4, Zenon DEF UserStep
<1>2. ASSUME NEW t \in Turn, SchedulerStep(t)
      PROVE  OneActiveTurn'
  <2>1. CASE Claim(t)
    BY <2>1, ActiveReset, Zenon DEF Claim
  <2>2. CASE \/ NotBeforePasses(t)
             \/ LeaseExpires(t)
    BY <2>2, Zenon DEF NotBeforePasses, LeaseExpires, OneActiveTurn, ActiveTurn,
           TypeOK, TurnRowsOK
  <2> QED
    BY <1>2, <2>1, <2>2, Zenon DEF SchedulerStep
<1>3. ASSUME NEW t \in Turn, NEW k \in Claims, WorkerStep(t, k)
      PROVE  OneActiveTurn'
  <2>1. CASE StartAttempt(t, k)
    BY <2>1, Zenon DEF StartAttempt, RebindSteers, SessionBusy, OneActiveTurn,
           ActiveTurn, TypeOK, TurnRowsOK
  <2>2. CASE SettleSucceeded(t, k)
    BY <2>2, Zenon DEF SettleSucceeded, SettleRows, CancelControls, ReleaseJob,
           InputOutcome, JobOutcome, OneActiveTurn, ActiveTurn, TypeOK,
           TurnRowsOK
  <2>3. ASSUME NEW outcome \in TerminalTurn \ {"succeeded"},
               SettleUnsuccessful(t, k, outcome)
        PROVE  OneActiveTurn'
    BY <2>3, Zenon DEF SettleUnsuccessful, SettleRows, AmbiguateOpen,
           CancelControls, ReleaseJob, InputOutcome, JobOutcome, TerminalTurn,
           OneActiveTurn, ActiveTurn, TypeOK, TurnRowsOK
  <2>4. CASE FailStarted(t, k)
    BY <2>4, Zenon DEF FailStarted, ReconcileRows, CancelControls, RecoveryTools,
           RequeuedTools, ReleaseJob, ActiveAttempt, OneActiveTurn, ActiveTurn,
           TypeOK, TurnRowsOK
  <2>5. CASE FailUnstarted(t, k)
    BY <2>5, Zenon DEF FailUnstarted, ReleaseJob, OneActiveTurn, ActiveTurn, TypeOK,
           TurnRowsOK
  <2>6. ASSUME NEW c \in Control, ApplyControl(t, k, c)
        PROVE  OneActiveTurn'
    BY <2>6 DEF ApplyControl, Owns, OneActiveTurn, ActiveTurn, TypeOK,
           TurnRowsOK
  <2>7. CASE Heartbeat(t, k)
    BY <2>7, Zenon DEF Heartbeat, OneActiveTurn, ActiveTurn, TypeOK, TurnRowsOK
  <2> QED
    BY <1>3, <2>1, <2>2, <2>3, <2>4, <2>5, <2>6, <2>7, Zenon DEF WorkerStep
<1>4. ASSUME NEW t \in Turn, NEW k \in Claims, ProviderStep(t, k)
      PROVE  OneActiveTurn'
  BY <1>4, Zenon DEF ProviderStep, BeginStep, RetryProvider, MarkOutput,
         CheckpointProvider, FinishProviderFailed, FinishProviderWithTools,
         FinishProviderForSteer, OneActiveTurn, ActiveTurn, TypeOK, TurnRowsOK
<1>5. ASSUME NEW t \in Turn, NEW k \in Claims, NEW x \in Tool, ToolStep(t, k, x)
      PROVE  OneActiveTurn'
  <2>1. CASE SuspendForApproval(t, k, x)
    BY <2>1 DEF SuspendForApproval, SuspendRows, CancelControls, ReleaseJob,
           Owns, OneActiveTurn, ActiveTurn, TypeOK, TurnRowsOK
  <2>2. CASE RequireToolRecovery(t, k, x)
    BY <2>2, Zenon DEF RequireToolRecovery, AmbiguateOpen, CancelControls,
           ReleaseJob, Owns, OneActiveTurn, ActiveTurn, TypeOK, TurnRowsOK
  <2>3. CASE DeferTool(t, k, x)
    BY <2>3 DEF DeferTool, Deferrable, SuspendRows, CancelControls, ReleaseJob,
           Owns, OneActiveTurn, ActiveTurn, TypeOK, TurnRowsOK
  <2>4. CASE \/ BeginTool(t, k, x)
             \/ ResumeTool(t, k, x)
             \/ DenyTool(t, k, x)
             \/ \E outcome \in {"succeeded", "failed", "cancelled"} :
                  FinishTool(t, k, x, outcome)
    BY <2>4, Zenon DEF BeginTool, ResumeTool, DenyTool, FinishTool, OneActiveTurn,
           ActiveTurn, TypeOK, TurnRowsOK
  <2> QED
    BY <1>5, <2>1, <2>2, <2>3, <2>4, Zenon DEF ToolStep
<1>6. ASSUME NEW t \in Turn, NEW x \in Tool, OperatorStep(t, x)
      PROVE  OneActiveTurn'
  <2>1. CASE CancelAwaitingApproval(t, x)
    BY <2>1, Zenon DEF CancelAwaitingApproval, OneActiveTurn, ActiveTurn, TypeOK,
           TurnRowsOK
  <2>2. CASE CancelAwaitingMedia(t, x)
    BY <2>2 DEF CancelAwaitingMedia, OneActiveTurn, ActiveTurn, TypeOK,
           TurnRowsOK
  <2>3. ASSUME NEW decision \in {"approved", "denied"},
               ResolveApproval(t, x, decision)
        PROVE  OneActiveTurn'
    BY <2>3, Zenon DEF ResolveApproval, WakeApprovalTurn, OneActiveTurn, ActiveTurn,
           TypeOK, TurnRowsOK
  <2>4. ASSUME NEW state \in {"succeeded", "failed", "retry_ready"},
               ResolveRecovery(t, x, recoveryRevision[t][x], state)
        PROVE  OneActiveTurn'
    BY <2>4 DEF ResolveRecovery, RequeueIfComplete, MayRetryTool, ReleaseJob,
           OneActiveTurn, ActiveTurn, TypeOK, TurnRowsOK
  <2>5. CASE AbandonTurn(t, x, recoveryRevision[t][x])
    BY <2>5, Zenon DEF AbandonTurn, OneActiveTurn, ActiveTurn, TypeOK, TurnRowsOK
  <2> QED
    BY <1>6, <2>1, <2>2, <2>3, <2>4, <2>5, Zenon DEF OperatorStep
<1>7. ASSUME NEW t \in Turn, NEW x \in Tool, MediaStep(t, x)
      PROVE  OneActiveTurn'
  <2>1. ASSUME NEW outcome \in {"succeeded", "failed"},
               SettleMedia(t, x, outcome)
        PROVE  OneActiveTurn'
    BY <2>1, Zenon DEF SettleMedia, Woken, OneActiveTurn, ActiveTurn, TypeOK,
           TurnRowsOK
  <2>2. CASE RequireMediaRecovery(t, x)
    BY <2>2, Zenon DEF RequireMediaRecovery, CancelControls, OneActiveTurn,
           ActiveTurn, TypeOK, TurnRowsOK
  <2> QED
    BY <1>7, <2>1, <2>2, Zenon DEF MediaStep
<1>8. CASE ClaimNothing
  BY <1>8, ActiveReset, Zenon DEF ClaimNothing
<1>9. CASE \E s \in Session : Archive(s) \/ Restore(s)
  BY <1>9, Zenon DEF Archive, Restore, OneActiveTurn, ActiveTurn, TypeOK, TurnRowsOK
<1>10. CASE UNCHANGED vars
  BY <1>10, Zenon DEF vars, OneActiveTurn, ActiveTurn, TypeOK, TurnRowsOK
<1> QED
  BY <1>1, <1>2, <1>3, <1>4, <1>5, <1>6, <1>7, <1>8, <1>9, <1>10, Zenon DEF Next

\* A session never has two active turns, though a recovered turn is queued again
\* behind a later one that waits for an approval or a media generation
THEOREM SingleActiveTurn == Spec => []OneActiveTurn
<1>1. Init => OneActiveTurn
  BY Zenon DEF Init, OneActiveTurn, ActiveTurn
<1>2. TypeOK /\ OneActiveTurn /\ [Next]_vars => OneActiveTurn'
  BY ActiveNext, Zenon
<1> QED
  BY <1>1, <1>2, TypeCorrect, PTL DEF Spec

-----------------------------------------------------------------------------
(* A turn, its job and its input end together.                             *)

\* SettledTogether is inductive: every transaction that ends one of the three
\* rows, or reopens one, does the same to the others

LEMMA SettledNext ==
  ASSUME TypeOK, SettledTogether, [Next]_vars
  PROVE  SettledTogether'
<1> USE DEF jobVars, turnVars, controlVars, providerVars, toolVars
<1>1. ASSUME NEW t \in Turn, UserStep(t)
      PROVE  SettledTogether'
  <2>1. ASSUME NEW state \in {"pending", "ready"}, Submit(t, state)
        PROVE  SettledTogether'
    BY <2>1, BoundAssumption, Zenon DEF Submit, SettledTogether, TypeOK, TurnRowsOK,
           JobRowsOK
  <2>2. CASE CancelQueued(t)
    BY <2>2, BoundAssumption, Zenon DEF CancelQueued, ReleaseJob, SettledTogether,
           TypeOK, TurnRowsOK, JobRowsOK
  <2>3. CASE CancelRunning(t)
    BY <2>3, BoundAssumption, Zenon DEF CancelRunning, SettledTogether, TypeOK,
           TurnRowsOK, JobRowsOK
  <2>4. CASE \/ \E k \in Claims, c \in Interrupt : InterruptTurn(t, k, c)
             \/ \E k \in Claims, c \in Steer : SteerTurn(t, k, c)
    BY <2>4, Zenon DEF InterruptTurn, SteerTurn, SettledTogether, TypeOK,
           TurnRowsOK, JobRowsOK
  <2> QED
    BY <1>1, <2>1, <2>2, <2>3, <2>4, Zenon DEF UserStep
<1>2. ASSUME NEW t \in Turn, SchedulerStep(t)
      PROVE  SettledTogether'
  <2>1. CASE NotBeforePasses(t)
    BY <2>1, BoundAssumption, Zenon DEF NotBeforePasses, SettledTogether, TypeOK,
           TurnRowsOK, JobRowsOK
  <2>2. CASE Claim(t)
    BY <2>2, BoundAssumption DEF Claim, ResetExpiredLeases, ReconcileRows,
           CancelControls, RecoveryTools, RequeuedTools, ResetJob, Expired,
           Promoted, Required, Reconcilable, Candidate, TerminalJob,
           SettledTogether, TypeOK, TurnRowsOK, JobRowsOK
  <2>3. CASE LeaseExpires(t)
    BY <2>3, Zenon DEF LeaseExpires, SettledTogether, TypeOK, TurnRowsOK, JobRowsOK
  <2> QED
    BY <1>2, <2>1, <2>2, <2>3, Zenon DEF SchedulerStep
<1>3. ASSUME NEW t \in Turn, NEW k \in Claims, WorkerStep(t, k)
      PROVE  SettledTogether'
  <2>1. CASE StartAttempt(t, k)
    BY <2>1, BoundAssumption, Zenon DEF StartAttempt, RebindSteers, ClaimedBy,
           SettledTogether, TypeOK, TurnRowsOK, JobRowsOK
  <2>2. CASE SettleSucceeded(t, k)
    BY <2>2, BoundAssumption, Zenon DEF SettleSucceeded, SettleRows, CancelControls,
           ReleaseJob, InputOutcome, JobOutcome, Owns, TerminalTurn,
           SettledTogether, TypeOK, TurnRowsOK, JobRowsOK
  <2>3. ASSUME NEW outcome \in TerminalTurn \ {"succeeded"},
               SettleUnsuccessful(t, k, outcome)
        PROVE  SettledTogether'
    BY <2>3, BoundAssumption, Zenon DEF SettleUnsuccessful, SettleRows,
           AmbiguateOpen, CancelControls, ReleaseJob, InputOutcome, JobOutcome,
           Owns, TerminalTurn, SettledTogether, TypeOK, TurnRowsOK, JobRowsOK
  <2>4. CASE FailStarted(t, k)
    BY <2>4, BoundAssumption, Zenon DEF FailStarted, ReconcileRows, CancelControls,
           RecoveryTools, RequeuedTools, ReleaseJob, ActiveAttempt,
           SettledTogether, TypeOK, TurnRowsOK, JobRowsOK
  <2>5. CASE FailUnstarted(t, k)
    BY <2>5, BoundAssumption, Zenon DEF FailUnstarted, ReleaseJob, ClaimedBy,
           SettledTogether, TypeOK, TurnRowsOK, JobRowsOK
  <2>6. ASSUME NEW c \in Control, ApplyControl(t, k, c)
        PROVE  SettledTogether'
    BY <2>6, BoundAssumption, Zenon DEF ApplyControl, Owns, SettledTogether, TypeOK,
           TurnRowsOK, JobRowsOK
  <2>7. CASE Heartbeat(t, k)
    BY <2>7, Zenon DEF Heartbeat, SettledTogether, TypeOK, TurnRowsOK, JobRowsOK
  <2> QED
    BY <1>3, <2>1, <2>2, <2>3, <2>4, <2>5, <2>6, <2>7, Zenon DEF WorkerStep
<1>4. ASSUME NEW t \in Turn, NEW k \in Claims, ProviderStep(t, k)
      PROVE  SettledTogether'
  BY <1>4, Zenon DEF ProviderStep, BeginStep, RetryProvider, MarkOutput,
         CheckpointProvider, FinishProviderFailed, FinishProviderWithTools,
         FinishProviderForSteer, SettledTogether, TypeOK, TurnRowsOK, JobRowsOK
<1>5. ASSUME NEW t \in Turn, NEW k \in Claims, NEW x \in Tool, ToolStep(t, k, x)
      PROVE  SettledTogether'
  <2>1. CASE SuspendForApproval(t, k, x)
    BY <2>1, BoundAssumption, Zenon DEF SuspendForApproval, SuspendRows,
           CancelControls, ReleaseJob, Owns, SettledTogether, TypeOK,
           TurnRowsOK, JobRowsOK
  <2>2. CASE RequireToolRecovery(t, k, x)
    BY <2>2, BoundAssumption, Zenon DEF RequireToolRecovery, AmbiguateOpen,
           CancelControls, ReleaseJob, Owns, SettledTogether, TypeOK,
           TurnRowsOK, JobRowsOK
  <2>3. CASE DeferTool(t, k, x)
    BY <2>3, BoundAssumption, Zenon DEF DeferTool, Deferrable, SuspendRows,
           CancelControls, ReleaseJob, Owns, SettledTogether, TypeOK,
           TurnRowsOK, JobRowsOK
  <2>4. CASE \/ BeginTool(t, k, x)
             \/ ResumeTool(t, k, x)
             \/ DenyTool(t, k, x)
             \/ \E outcome \in {"succeeded", "failed", "cancelled"} :
                  FinishTool(t, k, x, outcome)
    BY <2>4 DEF BeginTool, ResumeTool, DenyTool, FinishTool, SettledTogether,
           TypeOK, TurnRowsOK, JobRowsOK
  <2> QED
    BY <1>5, <2>1, <2>2, <2>3, <2>4, Zenon DEF ToolStep
<1>6. ASSUME NEW t \in Turn, NEW x \in Tool, OperatorStep(t, x)
      PROVE  SettledTogether'
  <2>1. CASE CancelAwaitingApproval(t, x)
    BY <2>1, BoundAssumption, Zenon DEF CancelAwaitingApproval, SettledTogether,
           TypeOK, TurnRowsOK, JobRowsOK
  <2>2. CASE CancelAwaitingMedia(t, x)
    BY <2>2, BoundAssumption, Zenon DEF CancelAwaitingMedia, SettledTogether,
           TypeOK, TurnRowsOK, JobRowsOK
  <2>3. ASSUME NEW decision \in {"approved", "denied"},
               ResolveApproval(t, x, decision)
        PROVE  SettledTogether'
    BY <2>3, BoundAssumption, Zenon DEF ResolveApproval, WakeApprovalTurn,
           SettledTogether, TypeOK, TurnRowsOK, JobRowsOK
  <2>4. ASSUME NEW state \in {"succeeded", "failed", "retry_ready"},
               ResolveRecovery(t, x, recoveryRevision[t][x], state)
        PROVE  SettledTogether'
    BY <2>4, BoundAssumption DEF ResolveRecovery, RequeueIfComplete,
           MayRetryTool, ReleaseJob, Recoverable, SettledTogether, TypeOK,
           TurnRowsOK, JobRowsOK
  <2>5. CASE AbandonTurn(t, x, recoveryRevision[t][x])
    BY <2>5, BoundAssumption, Zenon DEF AbandonTurn, Recoverable, SettledTogether,
           TypeOK, TurnRowsOK, JobRowsOK
  <2> QED
    BY <1>6, <2>1, <2>2, <2>3, <2>4, <2>5, Zenon DEF OperatorStep
<1>7. ASSUME NEW t \in Turn, NEW x \in Tool, MediaStep(t, x)
      PROVE  SettledTogether'
  <2>1. ASSUME NEW outcome \in {"succeeded", "failed"},
               SettleMedia(t, x, outcome)
        PROVE  SettledTogether'
    BY <2>1, BoundAssumption, Zenon DEF SettleMedia, Woken, SettledTogether, TypeOK,
           TurnRowsOK, JobRowsOK
  <2>2. CASE RequireMediaRecovery(t, x)
    BY <2>2, BoundAssumption DEF RequireMediaRecovery, CancelControls,
           SettledTogether, TypeOK, TurnRowsOK, JobRowsOK
  <2> QED
    BY <1>7, <2>1, <2>2, Zenon DEF MediaStep
<1>8. CASE ClaimNothing
  BY <1>8, BoundAssumption, Zenon DEF ClaimNothing, ResetExpiredLeases,
         ReconcileRows, CancelControls, RecoveryTools, RequeuedTools, ResetJob,
         Expired, Promoted, Required, Reconcilable, Candidate, TerminalJob,
         SettledTogether, TypeOK, TurnRowsOK, JobRowsOK
<1>9. CASE \E s \in Session : Archive(s) \/ Restore(s)
  BY <1>9 DEF Archive, Restore, SettledTogether, TypeOK, TurnRowsOK, JobRowsOK
<1>10. CASE UNCHANGED vars
  BY <1>10, Zenon DEF vars, SettledTogether, TypeOK, TurnRowsOK, JobRowsOK
<1> QED
  BY <1>1, <1>2, <1>3, <1>4, <1>5, <1>6, <1>7, <1>8, <1>9, <1>10, Zenon DEF Next

\* No job is left claimable for an ended turn and no live turn loses its job
THEOREM EndsTogether == Spec => []SettledTogether
<1>1. Init => SettledTogether
  BY Zenon DEF Init, SettledTogether
<1>2. TypeOK /\ SettledTogether /\ [Next]_vars => SettledTogether'
  BY SettledNext, Zenon
<1> QED
  BY <1>1, <1>2, TypeCorrect, PTL DEF Spec

-----------------------------------------------------------------------------
(* Tool starts.                                                            *)

\* what makes ToolStartsBounded inductive: a call that was never begun has no
\* start on record, and recovery makes a call ready again only within its bound
StartRecord ==
  \A t \in Turn, x \in Tool :
    /\ tool[t][x] \in {"none", "requested", "approval_required", "approved"} =>
         starts[t][x] = 0
    /\ tool[t][x] = "retry_ready" =>
         x \in Idempotent /\ starts[t][x] < ToolMaxAttempts

StartsInv == StartRecord /\ ToolStartsBounded

\* reset_expired_leases_tx readies a running tool only when classify_recovery_tx
\* found it idempotent and below its bound
LEMMA StartsReset ==
  ASSUME TypeOK, StartsInv, ResetExpiredLeases
  PROVE  StartsInv'
<1>1. ASSUME NEW u \in Turn, NEW y \in Tool
      PROVE  /\ starts'[u][y] = starts[u][y]
             /\ \/ tool'[u][y] = tool[u][y]
                \/ tool'[u][y] = "recovery_required"
                \/ /\ tool'[u][y] = "retry_ready"
                   /\ tool[u][y] = "running"
                   /\ u \in Promoted \ Required
  BY <1>1, Zenon DEF ResetExpiredLeases, ReconcileRows, RecoveryTools,
         RequeuedTools, TypeOK, ToolRowsOK
<1>2. ASSUME NEW u \in Promoted \ Required, NEW y \in Tool,
             tool[u][y] = "running"
      PROVE  y \in Idempotent /\ starts[u][y] < ToolMaxAttempts
  <2>1. u \in Turn
    BY Zenon DEF Promoted, Expired, TypeOK, JobRowsOK
  <2>2. ~(starts[u][y] >= ToolMaxAttempts) /\ y \in Idempotent
    BY <1>2, <2>1, Zenon DEF Required, RecoveryRequired
  <2> QED
    BY <2>1, <2>2, BoundAssumption DEF TypeOK, ToolRowsOK
<1>3. ASSUME NEW u \in Turn, NEW y \in Tool
      PROVE  /\ tool'[u][y] \in {"none", "requested", "approval_required",
                                 "approved"} => starts'[u][y] = 0
             /\ tool'[u][y] = "retry_ready" =>
                  y \in Idempotent /\ starts'[u][y] < ToolMaxAttempts
  <2>1. CASE tool'[u][y] = tool[u][y]
    BY <1>1, <2>1 DEF StartsInv, StartRecord
  <2>2. CASE tool'[u][y] = "recovery_required"
    BY <2>2, Zenon
  <2>3. CASE /\ tool'[u][y] = "retry_ready"
             /\ tool[u][y] = "running"
             /\ u \in Promoted \ Required
    BY <1>1, <1>2, <2>3, Zenon
  <2> QED
    BY <1>1, <2>1, <2>2, <2>3, Zenon
<1>4. StartRecord'
  BY <1>3, ZenonT(60) DEF StartRecord
<1>5. ToolStartsBounded'
  BY <1>1, ZenonT(60) DEF StartsInv, ToolStartsBounded
<1> QED
  BY <1>4, <1>5, ZenonT(60) DEF StartsInv

\* a tool is begun from requested, approved or retry_ready, and StartRecord says
\* what each of them allows
LEMMA StartsNext ==
  ASSUME TypeOK, StartsInv, [Next]_vars
  PROVE  StartsInv'
<1> USE DEF jobVars, turnVars, controlVars, providerVars, toolVars
<1>1. ASSUME NEW t \in Turn, UserStep(t)
      PROVE  StartsInv'
  BY <1>1, Zenon DEF UserStep, Submit, CancelQueued, CancelRunning, InterruptTurn,
         SteerTurn, IssueControl, StartsInv, StartRecord, ToolStartsBounded,
         TypeOK, ToolRowsOK
<1>2. ASSUME NEW t \in Turn, SchedulerStep(t)
      PROVE  StartsInv'
  <2>1. CASE Claim(t)
    BY <2>1, StartsReset, Zenon DEF Claim
  <2>2. CASE \/ NotBeforePasses(t)
             \/ LeaseExpires(t)
    BY <2>2, Zenon DEF NotBeforePasses, LeaseExpires, StartsInv, StartRecord,
           ToolStartsBounded, TypeOK, ToolRowsOK
  <2> QED
    BY <1>2, <2>1, <2>2, Zenon DEF SchedulerStep
<1>3. ASSUME NEW t \in Turn, NEW k \in Claims, WorkerStep(t, k)
      PROVE  StartsInv'
  <2>1. CASE FailStarted(t, k)
    BY <2>1, BoundAssumption, ToolAssumption, Zenon DEF FailStarted, ReconcileRows,
           CancelControls, RecoveryTools, RequeuedTools, ReleaseJob, StartsInv,
           StartRecord, ToolStartsBounded, TypeOK, ToolRowsOK
  <2>2. CASE \/ Heartbeat(t, k)
             \/ StartAttempt(t, k)
             \/ SettleSucceeded(t, k)
             \/ \E outcome \in TerminalTurn \ {"succeeded"} :
                  SettleUnsuccessful(t, k, outcome)
             \/ FailUnstarted(t, k)
             \/ \E c \in Control : ApplyControl(t, k, c)
    BY <2>2, Zenon DEF Heartbeat, StartAttempt, SettleSucceeded, SettleUnsuccessful,
           FailUnstarted, ApplyControl, SettleRows, StartsInv, StartRecord,
           ToolStartsBounded, TypeOK, ToolRowsOK
  <2> QED
    BY <1>3, <2>1, <2>2, Zenon DEF WorkerStep
<1>4. ASSUME NEW t \in Turn, NEW k \in Claims, ProviderStep(t, k)
      PROVE  StartsInv'
  <2>1. ASSUME NEW batch \in ToolBatch(t),
               FinishProviderWithTools(t, k, batch)
        PROVE  StartsInv'
    BY <2>1, BoundAssumption, ToolAssumption DEF FinishProviderWithTools,
           ToolBatch, StartsInv, StartRecord, ToolStartsBounded, TypeOK,
           ToolRowsOK
  <2>2. CASE \/ BeginStep(t, k)
             \/ RetryProvider(t, k)
             \/ MarkOutput(t, k)
             \/ CheckpointProvider(t, k)
             \/ \E outcome \in {"retryable", "fatal", "ambiguous"} :
                  FinishProviderFailed(t, k, outcome)
             \/ FinishProviderForSteer(t, k)
    BY <2>2, Zenon DEF BeginStep, RetryProvider, MarkOutput, CheckpointProvider,
           FinishProviderFailed, FinishProviderForSteer, StartsInv,
           StartRecord, ToolStartsBounded, TypeOK, ToolRowsOK
  <2> QED
    BY <1>4, <2>1, <2>2, Zenon DEF ProviderStep
<1>5. ASSUME NEW t \in Turn, NEW k \in Claims, NEW x \in Tool, ToolStep(t, k, x)
      PROVE  StartsInv'
  <2>1. CASE BeginTool(t, k, x)
    BY <2>1, BoundAssumption, ToolAssumption DEF BeginTool, CreateToolAttempt,
           StartsInv, StartRecord, ToolStartsBounded, TypeOK, ToolRowsOK
  <2>2. CASE ResumeTool(t, k, x)
    BY <2>2, BoundAssumption, ToolAssumption DEF ResumeTool, CreateToolAttempt,
           StartsInv, StartRecord, ToolStartsBounded, TypeOK, ToolRowsOK
  <2>3. CASE DenyTool(t, k, x)
    BY <2>3, BoundAssumption, ToolAssumption, Zenon DEF DenyTool, StartsInv,
           StartRecord, ToolStartsBounded, TypeOK, ToolRowsOK
  <2>4. CASE SuspendForApproval(t, k, x)
    BY <2>4, BoundAssumption, ToolAssumption DEF SuspendForApproval,
           SuspendRows, CancelControls, ReleaseJob, StartsInv, StartRecord,
           ToolStartsBounded, TypeOK, ToolRowsOK
  <2>5. ASSUME NEW outcome \in {"succeeded", "failed", "cancelled"},
               FinishTool(t, k, x, outcome)
        PROVE  StartsInv'
    BY <2>5, BoundAssumption, ToolAssumption DEF FinishTool, StartsInv,
           StartRecord, ToolStartsBounded, TypeOK, ToolRowsOK
  <2>6. CASE RequireToolRecovery(t, k, x)
    BY <2>6, BoundAssumption, ToolAssumption, Zenon DEF RequireToolRecovery,
           AmbiguateOpen, CancelControls, ReleaseJob, StartsInv, StartRecord,
           ToolStartsBounded, TypeOK, ToolRowsOK
  <2>7. CASE DeferTool(t, k, x)
    BY <2>7, BoundAssumption, ToolAssumption, Zenon DEF DeferTool, Deferrable,
           SuspendRows, CancelControls, ReleaseJob, StartsInv, StartRecord,
           ToolStartsBounded, TypeOK, ToolRowsOK
  <2> QED
    BY <1>5, <2>1, <2>2, <2>3, <2>4, <2>5, <2>6, <2>7, Zenon DEF ToolStep
<1>6. ASSUME NEW t \in Turn, NEW x \in Tool, OperatorStep(t, x)
      PROVE  StartsInv'
  <2>1. CASE CancelAwaitingApproval(t, x)
    BY <2>1, BoundAssumption, ToolAssumption, Zenon DEF CancelAwaitingApproval,
           StartsInv, StartRecord, ToolStartsBounded, TypeOK, ToolRowsOK
  <2>2. ASSUME NEW decision \in {"approved", "denied"},
               ResolveApproval(t, x, decision)
        PROVE  StartsInv'
    BY <2>2, BoundAssumption, ToolAssumption DEF ResolveApproval,
           WakeApprovalTurn, StartsInv, StartRecord, ToolStartsBounded, TypeOK,
           ToolRowsOK
  <2>3. ASSUME NEW state \in {"succeeded", "failed", "retry_ready"},
               ResolveRecovery(t, x, recoveryRevision[t][x], state)
        PROVE  StartsInv'
    BY <2>3, BoundAssumption, ToolAssumption DEF ResolveRecovery,
           RequeueIfComplete, MayRetryTool, ReleaseJob, StartsInv, StartRecord,
           ToolStartsBounded, TypeOK, ToolRowsOK
  <2>4. CASE AbandonTurn(t, x, recoveryRevision[t][x])
    BY <2>4, BoundAssumption, ToolAssumption DEF AbandonTurn, StartsInv,
           StartRecord, ToolStartsBounded, TypeOK, ToolRowsOK
  <2>5. CASE CancelAwaitingMedia(t, x)
    BY <2>5, Zenon DEF CancelAwaitingMedia, StartsInv, StartRecord,
           ToolStartsBounded, TypeOK, ToolRowsOK
  <2> QED
    BY <1>6, <2>1, <2>2, <2>3, <2>4, <2>5, Zenon DEF OperatorStep
<1>7. ASSUME NEW t \in Turn, NEW x \in Tool, MediaStep(t, x)
      PROVE  StartsInv'
  <2>1. ASSUME NEW outcome \in {"succeeded", "failed"},
               SettleMedia(t, x, outcome)
        PROVE  StartsInv'
    BY <2>1, BoundAssumption, ToolAssumption DEF SettleMedia, Woken, StartsInv,
           StartRecord, ToolStartsBounded, TypeOK, ToolRowsOK
  <2>2. CASE RequireMediaRecovery(t, x)
    BY <2>2, BoundAssumption, ToolAssumption, Zenon DEF RequireMediaRecovery,
           CancelControls, StartsInv, StartRecord, ToolStartsBounded, TypeOK,
           ToolRowsOK
  <2> QED
    BY <1>7, <2>1, <2>2, Zenon DEF MediaStep
<1>8. CASE ClaimNothing
  BY <1>8, StartsReset, Zenon DEF ClaimNothing
<1>9. CASE \E s \in Session : Archive(s) \/ Restore(s)
  BY <1>9, Zenon DEF Archive, Restore, StartsInv, StartRecord, ToolStartsBounded,
         TypeOK, ToolRowsOK
<1>10. CASE UNCHANGED vars
  BY <1>10, Zenon DEF vars, StartsInv, StartRecord, ToolStartsBounded, TypeOK,
         ToolRowsOK
<1> QED
  BY <1>1, <1>2, <1>3, <1>4, <1>5, <1>6, <1>7, <1>8, <1>9, <1>10, Zenon DEF Next

\* A tool that is not idempotent is started at most once, an idempotent one
\* within its frozen bound, over every expiry, failure, approval and retry
THEOREM ToolStarts == Spec => []ToolStartsBounded
<1>1. Init => StartsInv
  BY BoundAssumption DEF Init, StartsInv, StartRecord, ToolStartsBounded
<1>2. TypeOK /\ StartsInv /\ [Next]_vars => StartsInv'
  BY StartsNext, Zenon
<1>3. StartsInv => ToolStartsBounded
  BY Zenon DEF StartsInv
<1> QED
  BY <1>1, <1>2, <1>3, TypeCorrect, PTL DEF Spec

-----------------------------------------------------------------------------
(* Controls.                                                               *)

\* what makes NoControlSkipped inductive: a pending control is addressed to the
\* attempt its live turn has now, or, if a steer, waits with it for the next one
ControlFollows ==
  /\ \A t \in Turn : turn[t] \in ActiveTurn => input[t] = "promoted"
  /\ \A c \in Control : control[c] = "pending" =>
       LET t == controlTurn[c]
       IN /\ t \in Turn
          /\ turn[t] \notin {"none", "succeeded", "recovery_required"}
          /\ turn[t] \in ActiveTurn \cup {"queued"} =>
               /\ input[t] = "promoted"
               /\ current[t] # 0 => controlAttempt[c] = current[t]
               /\ c \in Interrupt => current[t] # 0

\* a step that changes a turn's attempt rebinds its steers and cancels its
\* interrupts in the same transaction

LEMMA ControlNext ==
  ASSUME TypeOK, ControlFollows, [Next]_vars
  PROVE  ControlFollows'
<1> USE DEF jobVars, turnVars, controlVars, providerVars, toolVars
<1>1. ASSUME NEW t \in Turn, UserStep(t)
      PROVE  ControlFollows'
  <2>1. ASSUME NEW state \in {"pending", "ready"}, Submit(t, state)
        PROVE  ControlFollows'
    BY <2>1, BoundAssumption, Zenon DEF Submit, ControlFollows, ActiveTurn, TypeOK,
           TurnRowsOK, ControlRowsOK, Claims, Control
  <2>2. CASE CancelQueued(t)
    BY <2>2, BoundAssumption, Zenon DEF CancelQueued, ReleaseJob, ControlFollows,
           ActiveTurn, TypeOK, TurnRowsOK, ControlRowsOK, Claims, Control
  <2>3. CASE CancelRunning(t)
    BY <2>3, BoundAssumption, Zenon DEF CancelRunning, ControlFollows, ActiveTurn,
           TypeOK, TurnRowsOK, ControlRowsOK, Claims, Control
  <2>4. ASSUME NEW k \in Claims, NEW c \in Interrupt, InterruptTurn(t, k, c)
        PROVE  ControlFollows'
    BY <2>4, BoundAssumption DEF InterruptTurn, IssueControl, ActiveAttempt,
           ControlFollows, ActiveTurn, TypeOK, TurnRowsOK, ControlRowsOK,
           Claims, Control
  <2>5. ASSUME NEW k \in Claims, NEW c \in Steer, SteerTurn(t, k, c)
        PROVE  ControlFollows'
    BY <2>5, BoundAssumption DEF SteerTurn, IssueControl, ActiveAttempt,
           ControlFollows, ActiveTurn, TypeOK, TurnRowsOK, ControlRowsOK,
           Claims, Control
  <2> QED
    BY <1>1, <2>1, <2>2, <2>3, <2>4, <2>5, Zenon DEF UserStep
<1>2. ASSUME NEW t \in Turn, SchedulerStep(t)
      PROVE  ControlFollows'
  <2>1. CASE Claim(t)
    BY <2>1, BoundAssumption, ZenonT(60) DEF Claim, ResetExpiredLeases,
           ReconcileRows,
           CancelControls, RecoveryTools, RequeuedTools, ResetJob, Expired,
           Promoted, Required, Reconcilable, Candidate, ControlFollows,
           ActiveTurn, TypeOK, TurnRowsOK, ControlRowsOK, Claims, Control
  <2>2. CASE \/ NotBeforePasses(t)
             \/ LeaseExpires(t)
    BY <2>2, Zenon DEF NotBeforePasses, LeaseExpires, ControlFollows, ActiveTurn,
           TypeOK, TurnRowsOK, ControlRowsOK, Claims, Control
  <2> QED
    BY <1>2, <2>1, <2>2, Zenon DEF SchedulerStep
<1>3. ASSUME NEW t \in Turn, NEW k \in Claims, WorkerStep(t, k)
      PROVE  ControlFollows'
  <2>1. CASE StartAttempt(t, k)
    BY <2>1, BoundAssumption DEF StartAttempt, RebindSteers, ClaimedBy,
           ControlFollows, ActiveTurn, TypeOK, TurnRowsOK, ControlRowsOK,
           Claims, Control
  <2>2. CASE SettleSucceeded(t, k)
    BY <2>2, BoundAssumption DEF SettleSucceeded, SettleRows, CancelControls,
           ReleaseJob, InputOutcome, JobOutcome, Owns, TerminalTurn,
           PendingControl, ControlFollows, ActiveTurn, TypeOK, TurnRowsOK,
           ControlRowsOK, Claims, Control
  <2>3. ASSUME NEW outcome \in TerminalTurn \ {"succeeded"},
               SettleUnsuccessful(t, k, outcome)
        PROVE  ControlFollows'
    BY <2>3, BoundAssumption DEF SettleUnsuccessful, SettleRows, AmbiguateOpen,
           CancelControls, ReleaseJob, InputOutcome, JobOutcome, Owns,
           TerminalTurn, PendingControl, ControlFollows, ActiveTurn, TypeOK,
           TurnRowsOK, ControlRowsOK, Claims, Control
  <2>4. CASE FailStarted(t, k)
    BY <2>4, BoundAssumption, Zenon DEF FailStarted, ReconcileRows, CancelControls,
           RecoveryTools, RequeuedTools, ReleaseJob, ActiveAttempt,
           ControlFollows, ActiveTurn, TypeOK, TurnRowsOK, ControlRowsOK,
           Claims, Control
  <2>5. CASE FailUnstarted(t, k)
    BY <2>5, BoundAssumption, Zenon DEF FailUnstarted, ReleaseJob, ControlFollows,
           ActiveTurn, TypeOK, TurnRowsOK, ControlRowsOK, Claims, Control
  <2>6. ASSUME NEW c \in Control, ApplyControl(t, k, c)
        PROVE  ControlFollows'
    BY <2>6, BoundAssumption DEF ApplyControl, Owns, PendingControl,
           ControlFollows, ActiveTurn, TypeOK, TurnRowsOK, ControlRowsOK,
           Claims, Control
  <2>7. CASE Heartbeat(t, k)
    BY <2>7, Zenon DEF Heartbeat, ControlFollows, ActiveTurn, TypeOK, TurnRowsOK,
           ControlRowsOK, Claims, Control
  <2> QED
    BY <1>3, <2>1, <2>2, <2>3, <2>4, <2>5, <2>6, <2>7, Zenon DEF WorkerStep
<1>4. ASSUME NEW t \in Turn, NEW k \in Claims, ProviderStep(t, k)
      PROVE  ControlFollows'
  BY <1>4, ZenonT(60) DEF ProviderStep, BeginStep, RetryProvider, MarkOutput,
         CheckpointProvider, FinishProviderFailed, FinishProviderWithTools,
         FinishProviderForSteer, ControlFollows, ActiveTurn, TypeOK,
         TurnRowsOK, ControlRowsOK, Claims, Control
<1>5. ASSUME NEW t \in Turn, NEW k \in Claims, NEW x \in Tool, ToolStep(t, k, x)
      PROVE  ControlFollows'
  <2>1. CASE SuspendForApproval(t, k, x)
    BY <2>1, BoundAssumption DEF SuspendForApproval, SuspendRows,
           CancelControls, ReleaseJob, Owns, PendingControl, ControlFollows,
           ActiveTurn, TypeOK, TurnRowsOK, ControlRowsOK, Claims, Control
  <2>2. CASE RequireToolRecovery(t, k, x)
    BY <2>2, BoundAssumption, Zenon DEF RequireToolRecovery, AmbiguateOpen,
           CancelControls, ReleaseJob, Owns, ControlFollows, ActiveTurn,
           TypeOK, TurnRowsOK, ControlRowsOK, Claims, Control
  <2>3. CASE DeferTool(t, k, x)
    BY <2>3, BoundAssumption DEF DeferTool, Deferrable, SuspendRows,
           CancelControls, ReleaseJob, Owns, PendingControl, ControlFollows,
           ActiveTurn, TypeOK, TurnRowsOK, ControlRowsOK, Claims, Control
  <2>4. CASE \/ BeginTool(t, k, x)
             \/ ResumeTool(t, k, x)
             \/ DenyTool(t, k, x)
             \/ \E outcome \in {"succeeded", "failed", "cancelled"} :
                  FinishTool(t, k, x, outcome)
    BY <2>4, Zenon DEF BeginTool, ResumeTool, DenyTool, FinishTool, ControlFollows,
           ActiveTurn, TypeOK, TurnRowsOK, ControlRowsOK, Claims, Control
  <2> QED
    BY <1>5, <2>1, <2>2, <2>3, <2>4, Zenon DEF ToolStep
<1>6. ASSUME NEW t \in Turn, NEW x \in Tool, OperatorStep(t, x)
      PROVE  ControlFollows'
  <2>1. CASE CancelAwaitingApproval(t, x)
    BY <2>1, BoundAssumption, Zenon DEF CancelAwaitingApproval, ControlFollows,
           ActiveTurn, TypeOK, TurnRowsOK, ControlRowsOK, Claims, Control
  <2>2. CASE CancelAwaitingMedia(t, x)
    BY <2>2, BoundAssumption, Zenon DEF CancelAwaitingMedia, ControlFollows,
           ActiveTurn, TypeOK, TurnRowsOK, ControlRowsOK, Claims, Control
  <2>3. ASSUME NEW decision \in {"approved", "denied"},
               ResolveApproval(t, x, decision)
        PROVE  ControlFollows'
    BY <2>3, BoundAssumption, Zenon DEF ResolveApproval, WakeApprovalTurn,
           ControlFollows, ActiveTurn, TypeOK, TurnRowsOK, ControlRowsOK,
           Claims, Control
  <2>4. ASSUME NEW state \in {"succeeded", "failed", "retry_ready"},
               ResolveRecovery(t, x, recoveryRevision[t][x], state)
        PROVE  ControlFollows'
    <3>1. turn[t] = "recovery_required" /\ UNCHANGED controlVars
      BY <2>4, Zenon DEF ResolveRecovery, Recoverable
    <3>2. \A c \in Control : control[c] = "pending" => controlTurn[c] # t
      BY <3>1, Zenon DEF ControlFollows
    <3>3. \A u \in Turn \ {t} : /\ turn'[u] = turn[u]
                                /\ current'[u] = current[u]
                                /\ input'[u] = input[u]
      BY <2>4, Zenon DEF ResolveRecovery, RequeueIfComplete, TypeOK, TurnRowsOK
    <3>4. turn'[t] \notin ActiveTurn
      BY <2>4, <3>1, Zenon DEF ResolveRecovery, RequeueIfComplete, ActiveTurn,
             TypeOK, TurnRowsOK
    <3> QED
      BY <3>1, <3>2, <3>3, <3>4 DEF ControlFollows
  <2>5. CASE AbandonTurn(t, x, recoveryRevision[t][x])
    BY <2>5, BoundAssumption, Zenon DEF AbandonTurn, Recoverable, ControlFollows,
           ActiveTurn, TypeOK, TurnRowsOK, ControlRowsOK, Claims, Control
  <2> QED
    BY <1>6, <2>1, <2>2, <2>3, <2>4, <2>5, Zenon DEF OperatorStep
<1>7. ASSUME NEW t \in Turn, NEW x \in Tool, MediaStep(t, x)
      PROVE  ControlFollows'
  <2>1. ASSUME NEW outcome \in {"succeeded", "failed"},
               SettleMedia(t, x, outcome)
        PROVE  ControlFollows'
    BY <2>1, BoundAssumption, Zenon DEF SettleMedia, Woken, ControlFollows,
           ActiveTurn, TypeOK, TurnRowsOK, ControlRowsOK, Claims, Control
  <2>2. CASE RequireMediaRecovery(t, x)
    BY <2>2, BoundAssumption, Zenon DEF RequireMediaRecovery, CancelControls,
           ControlFollows, ActiveTurn, TypeOK, TurnRowsOK, ControlRowsOK,
           Claims, Control
  <2> QED
    BY <1>7, <2>1, <2>2, Zenon DEF MediaStep
<1>8. CASE ClaimNothing
  BY <1>8, BoundAssumption, ZenonT(60) DEF ClaimNothing, ResetExpiredLeases,
         ReconcileRows,
         CancelControls, RecoveryTools, RequeuedTools, ResetJob, Expired,
         Promoted, Required, Reconcilable, Candidate, ControlFollows,
         ActiveTurn, TypeOK, TurnRowsOK, ControlRowsOK, Claims, Control
<1>9. CASE \E s \in Session : Archive(s) \/ Restore(s)
  BY <1>9 DEF Archive, Restore, ControlFollows, ActiveTurn, TypeOK, TurnRowsOK,
         ControlRowsOK, Claims, Control
<1>10. CASE UNCHANGED vars
  BY <1>10, Zenon DEF vars, ControlFollows, ActiveTurn, TypeOK, TurnRowsOK,
         ControlRowsOK, Claims, Control
<1> QED
  BY <1>1, <1>2, <1>3, <1>4, <1>5, <1>6, <1>7, <1>8, <1>9, <1>10, Zenon DEF Next

\* No turn succeeds past a pending control, whichever attempt it was issued to
THEOREM ControlsHeard == Spec => []NoControlSkipped
<1>1. Init => ControlFollows
  BY Zenon DEF Init, ControlFollows, ActiveTurn
<1>2. TypeOK /\ ControlFollows /\ [Next]_vars => ControlFollows'
  BY ControlNext, Zenon
<1>3. ControlFollows => NoControlSkipped
  BY Zenon DEF ControlFollows, NoControlSkipped
<1> QED
  BY <1>1, <1>2, <1>3, TypeCorrect, PTL DEF Spec

-----------------------------------------------------------------------------
(* What no step may do.                                                    *)

\* no step writes to the rows of an ended turn: each is either guarded by a
\* live turn, or by a running attempt or a live job, which an ended turn lacks

LEMMA EndedNext ==
  ASSUME TypeOK, ExactOwner, SettledTogether, [Next]_vars
  PROVE  EndedStays
<1> USE DEF jobVars, turnVars, controlVars, providerVars, toolVars
<1>1. ASSUME NEW t \in Turn, UserStep(t)
      PROVE  EndedStays
  <2>1. ASSUME NEW state \in {"pending", "ready"}, Submit(t, state)
        PROVE  EndedStays
    BY <2>1, BoundAssumption, Zenon DEF Submit, EndedStays, TerminalTurn, TypeOK,
           TurnRowsOK, JobRowsOK, ProviderRowsOK
  <2>2. CASE CancelQueued(t)
    BY <2>2, BoundAssumption, Zenon DEF CancelQueued, ReleaseJob, EndedStays,
           TerminalTurn, TypeOK, TurnRowsOK, JobRowsOK, ProviderRowsOK
  <2>3. CASE CancelRunning(t)
    BY <2>3, BoundAssumption, Zenon DEF CancelRunning, EndedStays, TerminalTurn,
           TypeOK, TurnRowsOK, JobRowsOK, ProviderRowsOK
  <2>4. CASE \/ \E k \in Claims, c \in Interrupt : InterruptTurn(t, k, c)
             \/ \E k \in Claims, c \in Steer : SteerTurn(t, k, c)
    BY <2>4, Zenon DEF InterruptTurn, SteerTurn, EndedStays, TerminalTurn, TypeOK,
           TurnRowsOK, JobRowsOK, ProviderRowsOK
  <2> QED
    BY <1>1, <2>1, <2>2, <2>3, <2>4, Zenon DEF UserStep
<1>2. ASSUME NEW t \in Turn, SchedulerStep(t)
      PROVE  EndedStays
  <2>1. CASE NotBeforePasses(t)
    BY <2>1, BoundAssumption, Zenon DEF NotBeforePasses, SettledTogether,
           EndedStays, TerminalTurn, TypeOK, TurnRowsOK, JobRowsOK, ProviderRowsOK
  <2>2. CASE Claim(t)
    BY <2>2, BoundAssumption DEF Claim, ResetExpiredLeases, ReconcileRows,
           CancelControls, RecoveryTools, RequeuedTools, ResetJob, Expired,
           Promoted, Required, Reconcilable, Candidate, TerminalJob,
           SettledTogether, EndedStays, TerminalTurn, TypeOK, TurnRowsOK,
           JobRowsOK, ProviderRowsOK
  <2>3. CASE LeaseExpires(t)
    BY <2>3, Zenon DEF LeaseExpires, EndedStays, TerminalTurn, TypeOK, TurnRowsOK,
           JobRowsOK, ProviderRowsOK
  <2> QED
    BY <1>2, <2>1, <2>2, <2>3, Zenon DEF SchedulerStep
<1>3. ASSUME NEW t \in Turn, NEW k \in Claims, WorkerStep(t, k)
      PROVE  EndedStays
  <2>1. CASE StartAttempt(t, k)
    BY <2>1, BoundAssumption, Zenon DEF StartAttempt, RebindSteers, ClaimedBy,
           EndedStays, TerminalTurn, TypeOK, TurnRowsOK, JobRowsOK,
           ProviderRowsOK
  <2>2. CASE SettleSucceeded(t, k)
    BY <2>2, BoundAssumption, Zenon DEF SettleSucceeded, SettleRows, CancelControls,
           ReleaseJob, InputOutcome, JobOutcome, Owns, EndedStays,
           TerminalTurn, TypeOK, TurnRowsOK, JobRowsOK, ProviderRowsOK
  <2>3. ASSUME NEW outcome \in TerminalTurn \ {"succeeded"},
               SettleUnsuccessful(t, k, outcome)
        PROVE  EndedStays
    BY <2>3, BoundAssumption, Zenon DEF SettleUnsuccessful, SettleRows,
           AmbiguateOpen, CancelControls, ReleaseJob, InputOutcome, JobOutcome,
           Owns, EndedStays, TerminalTurn, TypeOK, TurnRowsOK, JobRowsOK,
           ProviderRowsOK
  <2>4. CASE FailStarted(t, k)
    BY <2>4, BoundAssumption, Zenon DEF FailStarted, ReconcileRows, CancelControls,
           RecoveryTools, RequeuedTools, ReleaseJob, ActiveAttempt, EndedStays,
           TerminalTurn, TypeOK, TurnRowsOK, JobRowsOK, ProviderRowsOK
  <2>5. CASE FailUnstarted(t, k)
    BY <2>5, BoundAssumption, Zenon DEF FailUnstarted, ReleaseJob, EndedStays,
           TerminalTurn, TypeOK, TurnRowsOK, JobRowsOK, ProviderRowsOK
  <2>6. ASSUME NEW c \in Control, ApplyControl(t, k, c)
        PROVE  EndedStays
    BY <2>6, BoundAssumption, Zenon DEF ApplyControl, Owns, EndedStays,
           TerminalTurn, TypeOK, TurnRowsOK, JobRowsOK, ProviderRowsOK
  <2>7. CASE Heartbeat(t, k)
    BY <2>7, Zenon DEF Heartbeat, EndedStays, TerminalTurn, TypeOK, TurnRowsOK,
           JobRowsOK, ProviderRowsOK
  <2> QED
    BY <1>3, <2>1, <2>2, <2>3, <2>4, <2>5, <2>6, <2>7, Zenon DEF WorkerStep
<1>4. ASSUME NEW t \in Turn, NEW k \in Claims, ProviderStep(t, k)
      PROVE  EndedStays
  <2>1. CASE BeginStep(t, k)
    BY <2>1, BoundAssumption, Zenon DEF BeginStep, Owns, EndedStays, TerminalTurn,
           TypeOK, TurnRowsOK, JobRowsOK, ProviderRowsOK
  <2>2. CASE RetryProvider(t, k)
    BY <2>2, BoundAssumption, Zenon DEF RetryProvider, MayRetry, Owns, EndedStays,
           TerminalTurn, TypeOK, TurnRowsOK, JobRowsOK, ProviderRowsOK
  <2>3. CASE MarkOutput(t, k)
    BY <2>3, BoundAssumption, Zenon DEF MarkOutput, Owns, EndedStays, TerminalTurn,
           TypeOK, TurnRowsOK, JobRowsOK, ProviderRowsOK
  <2>4. CASE CheckpointProvider(t, k)
    BY <2>4, BoundAssumption, Zenon DEF CheckpointProvider, Owns, EndedStays,
           TerminalTurn, TypeOK, TurnRowsOK, JobRowsOK, ProviderRowsOK
  <2>5. ASSUME NEW outcome \in {"retryable", "fatal", "ambiguous"},
               FinishProviderFailed(t, k, outcome)
        PROVE  EndedStays
    BY <2>5, BoundAssumption, Zenon DEF FinishProviderFailed, Owns, EndedStays,
           TerminalTurn, TypeOK, TurnRowsOK, JobRowsOK, ProviderRowsOK
  <2>6. ASSUME NEW batch \in ToolBatch(t),
               FinishProviderWithTools(t, k, batch)
        PROVE  EndedStays
    BY <2>6, BoundAssumption, Zenon DEF FinishProviderWithTools, Owns, EndedStays,
           TerminalTurn, TypeOK, TurnRowsOK, JobRowsOK, ProviderRowsOK
  <2>7. CASE FinishProviderForSteer(t, k)
    BY <2>7, BoundAssumption, Zenon DEF FinishProviderForSteer, Owns, EndedStays,
           TerminalTurn, TypeOK, TurnRowsOK, JobRowsOK, ProviderRowsOK
  <2> QED
    BY <1>4, <2>1, <2>2, <2>3, <2>4, <2>5, <2>6, <2>7, Zenon DEF ProviderStep
<1>5. ASSUME NEW t \in Turn, NEW k \in Claims, NEW x \in Tool, ToolStep(t, k, x)
      PROVE  EndedStays
  <2>1. CASE BeginTool(t, k, x)
    BY <2>1, BoundAssumption, Zenon DEF BeginTool, CreateToolAttempt, Owns,
           EndedStays, TerminalTurn, TypeOK, TurnRowsOK, JobRowsOK,
           ProviderRowsOK
  <2>2. CASE ResumeTool(t, k, x)
    BY <2>2, BoundAssumption, Zenon DEF ResumeTool, CreateToolAttempt, Owns,
           EndedStays, TerminalTurn, TypeOK, TurnRowsOK, JobRowsOK,
           ProviderRowsOK
  <2>3. CASE DenyTool(t, k, x)
    BY <2>3, BoundAssumption, Zenon DEF DenyTool, Owns, EndedStays, TerminalTurn,
           TypeOK, TurnRowsOK, JobRowsOK, ProviderRowsOK
  <2>4. CASE SuspendForApproval(t, k, x)
    BY <2>4, BoundAssumption, Zenon DEF SuspendForApproval, SuspendRows,
           CancelControls, ReleaseJob, Owns, EndedStays, TerminalTurn, TypeOK,
           TurnRowsOK, JobRowsOK, ProviderRowsOK
  <2>5. ASSUME NEW outcome \in {"succeeded", "failed", "cancelled"},
               FinishTool(t, k, x, outcome)
        PROVE  EndedStays
    BY <2>5, BoundAssumption, Zenon DEF FinishTool, Owns, EndedStays, TerminalTurn,
           TypeOK, TurnRowsOK, JobRowsOK, ProviderRowsOK
  <2>6. CASE RequireToolRecovery(t, k, x)
    BY <2>6, BoundAssumption, Zenon DEF RequireToolRecovery, AmbiguateOpen,
           CancelControls, ReleaseJob, Owns, EndedStays, TerminalTurn, TypeOK,
           TurnRowsOK, JobRowsOK, ProviderRowsOK
  <2>7. CASE DeferTool(t, k, x)
    BY <2>7, BoundAssumption, Zenon DEF DeferTool, Deferrable, SuspendRows,
           CancelControls, ReleaseJob, Owns, EndedStays, TerminalTurn, TypeOK,
           TurnRowsOK, JobRowsOK, ProviderRowsOK
  <2> QED
    BY <1>5, <2>1, <2>2, <2>3, <2>4, <2>5, <2>6, <2>7, Zenon DEF ToolStep
<1>6. ASSUME NEW t \in Turn, NEW x \in Tool, OperatorStep(t, x)
      PROVE  EndedStays
  <2>1. CASE CancelAwaitingApproval(t, x)
    BY <2>1, BoundAssumption, Zenon DEF CancelAwaitingApproval, EndedStays,
           TerminalTurn, TypeOK, TurnRowsOK, JobRowsOK, ProviderRowsOK
  <2>2. CASE CancelAwaitingMedia(t, x)
    BY <2>2, BoundAssumption, Zenon DEF CancelAwaitingMedia, EndedStays,
           TerminalTurn, TypeOK, TurnRowsOK, JobRowsOK, ProviderRowsOK
  <2>3. ASSUME NEW decision \in {"approved", "denied"},
               ResolveApproval(t, x, decision)
        PROVE  EndedStays
    BY <2>3, BoundAssumption, Zenon DEF ResolveApproval, WakeApprovalTurn,
           EndedStays, TerminalTurn, TypeOK, TurnRowsOK, JobRowsOK, ProviderRowsOK
  <2>4. ASSUME NEW state \in {"succeeded", "failed", "retry_ready"},
               ResolveRecovery(t, x, recoveryRevision[t][x], state)
        PROVE  EndedStays
    BY <2>4, BoundAssumption DEF ResolveRecovery, RequeueIfComplete,
           MayRetryTool, ReleaseJob, Recoverable, EndedStays, TerminalTurn,
           TypeOK, TurnRowsOK, JobRowsOK, ProviderRowsOK
  <2>5. CASE AbandonTurn(t, x, recoveryRevision[t][x])
    BY <2>5, BoundAssumption, Zenon DEF AbandonTurn, Recoverable, EndedStays,
           TerminalTurn, TypeOK, TurnRowsOK, JobRowsOK, ProviderRowsOK
  <2> QED
    BY <1>6, <2>1, <2>2, <2>3, <2>4, <2>5, Zenon DEF OperatorStep
<1>7. ASSUME NEW t \in Turn, NEW x \in Tool, MediaStep(t, x)
      PROVE  EndedStays
  <2>1. ASSUME NEW outcome \in {"succeeded", "failed"},
               SettleMedia(t, x, outcome)
        PROVE  EndedStays
    BY <2>1, BoundAssumption, Zenon DEF SettleMedia, Woken, EndedStays,
           TerminalTurn, TypeOK, TurnRowsOK, JobRowsOK, ProviderRowsOK
  <2>2. CASE RequireMediaRecovery(t, x)
    BY <2>2, BoundAssumption, Zenon DEF RequireMediaRecovery, CancelControls,
           EndedStays, TerminalTurn, TypeOK, TurnRowsOK, JobRowsOK,
           ProviderRowsOK
  <2> QED
    BY <1>7, <2>1, <2>2, Zenon DEF MediaStep
<1>8. CASE ClaimNothing
  BY <1>8, BoundAssumption, Zenon DEF ClaimNothing, ResetExpiredLeases,
         ReconcileRows, CancelControls, RecoveryTools, RequeuedTools, ResetJob,
         Expired, Promoted, Required, Reconcilable, Candidate, TerminalJob,
         SettledTogether, EndedStays, TerminalTurn, TypeOK, TurnRowsOK, JobRowsOK,
         ProviderRowsOK
<1>9. CASE \E s \in Session : Archive(s) \/ Restore(s)
  BY <1>9, Zenon DEF Archive, Restore, EndedStays, TerminalTurn, TypeOK, TurnRowsOK,
         JobRowsOK, ProviderRowsOK
<1>10. CASE UNCHANGED vars
  BY <1>10, Zenon DEF vars, EndedStays, TerminalTurn, TypeOK, TurnRowsOK, JobRowsOK,
         ProviderRowsOK
<1> QED
  BY <1>1, <1>2, <1>3, <1>4, <1>5, <1>6, <1>7, <1>8, <1>9, <1>10, Zenon DEF Next

\* Once a turn has ended, no late, repeated or concurrent call changes its rows
THEOREM EndIsFinal == Spec => EndedForGood
<1>1. TypeOK /\ ExactOwner /\ SettledTogether /\ [Next]_vars => [EndedStays]_vars
  BY EndedNext, Zenon
<1> QED
  BY <1>1, TypeCorrect, Ownership, EndsTogether, PTL DEF Spec, EndedForGood

\* a cancel_requested turn is only written by calls that end it unsuccessfully

LEMMA CancelNext ==
  ASSUME TypeOK, [Next]_vars
  PROVE  CancelStays
<1> USE DEF jobVars, turnVars, controlVars, providerVars, toolVars
<1>1. ASSUME NEW t \in Turn, UserStep(t)
      PROVE  CancelStays
  <2>1. ASSUME NEW state \in {"pending", "ready"}, Submit(t, state)
        PROVE  CancelStays
    BY <2>1, Zenon DEF Submit, CancelStays, TerminalTurn, TypeOK, TurnRowsOK
  <2>2. CASE CancelQueued(t)
    BY <2>2, Zenon DEF CancelQueued, ReleaseJob, CancelStays, TerminalTurn, TypeOK,
           TurnRowsOK
  <2>3. CASE CancelRunning(t)
    BY <2>3, Zenon DEF CancelRunning, CancelStays, TerminalTurn, TypeOK, TurnRowsOK
  <2>4. CASE \/ \E k \in Claims, c \in Interrupt : InterruptTurn(t, k, c)
             \/ \E k \in Claims, c \in Steer : SteerTurn(t, k, c)
    BY <2>4, Zenon DEF InterruptTurn, SteerTurn, CancelStays, TerminalTurn, TypeOK,
           TurnRowsOK
  <2> QED
    BY <1>1, <2>1, <2>2, <2>3, <2>4, Zenon DEF UserStep
<1>2. ASSUME NEW t \in Turn, SchedulerStep(t)
      PROVE  CancelStays
  <2>1. CASE Claim(t)
    BY <2>1, ZenonT(60) DEF Claim, ResetExpiredLeases, ReconcileRows,
           CancelControls,
           RecoveryTools, RequeuedTools, ResetJob, Required, RecoveryRequired,
           Promoted, Expired, JobRowsOK, CancelStays, TerminalTurn, TypeOK,
           TurnRowsOK
  <2>2. CASE \/ NotBeforePasses(t)
             \/ LeaseExpires(t)
    BY <2>2, Zenon DEF NotBeforePasses, LeaseExpires, CancelStays, TerminalTurn,
           TypeOK, TurnRowsOK
  <2> QED
    BY <1>2, <2>1, <2>2, Zenon DEF SchedulerStep
<1>3. ASSUME NEW t \in Turn, NEW k \in Claims, WorkerStep(t, k)
      PROVE  CancelStays
  <2>1. CASE StartAttempt(t, k)
    BY <2>1, Zenon DEF StartAttempt, RebindSteers, CancelStays, TerminalTurn,
           TypeOK, TurnRowsOK
  <2>2. CASE SettleSucceeded(t, k)
    BY <2>2, Zenon DEF SettleSucceeded, SettleRows, CancelControls, ReleaseJob,
           InputOutcome, JobOutcome, CancelStays, TerminalTurn, TypeOK,
           TurnRowsOK
  <2>3. ASSUME NEW outcome \in TerminalTurn \ {"succeeded"},
               SettleUnsuccessful(t, k, outcome)
        PROVE  CancelStays
    BY <2>3, Zenon DEF SettleUnsuccessful, SettleRows, AmbiguateOpen,
           CancelControls, ReleaseJob, InputOutcome, JobOutcome, CancelStays,
           TerminalTurn, TypeOK, TurnRowsOK
  <2>4. CASE FailStarted(t, k)
    BY <2>4, Zenon DEF FailStarted, ReconcileRows, CancelControls, RecoveryTools,
           RequeuedTools, ReleaseJob, CancelStays, TerminalTurn, TypeOK,
           TurnRowsOK
  <2>5. CASE FailUnstarted(t, k)
    BY <2>5, Zenon DEF FailUnstarted, ReleaseJob, CancelStays, TerminalTurn, TypeOK,
           TurnRowsOK
  <2>6. ASSUME NEW c \in Control, ApplyControl(t, k, c)
        PROVE  CancelStays
    BY <2>6, Zenon DEF ApplyControl, CancelStays, TerminalTurn, TypeOK, TurnRowsOK
  <2>7. CASE Heartbeat(t, k)
    BY <2>7, Zenon DEF Heartbeat, CancelStays, TerminalTurn, TypeOK, TurnRowsOK
  <2> QED
    BY <1>3, <2>1, <2>2, <2>3, <2>4, <2>5, <2>6, <2>7, Zenon DEF WorkerStep
<1>4. ASSUME NEW t \in Turn, NEW k \in Claims, ProviderStep(t, k)
      PROVE  CancelStays
  BY <1>4, ZenonT(60) DEF ProviderStep, BeginStep, RetryProvider, MarkOutput,
         CheckpointProvider, FinishProviderFailed, FinishProviderWithTools,
         FinishProviderForSteer, CancelStays, TerminalTurn, TypeOK, TurnRowsOK
<1>5. ASSUME NEW t \in Turn, NEW k \in Claims, NEW x \in Tool, ToolStep(t, k, x)
      PROVE  CancelStays
  <2>1. CASE SuspendForApproval(t, k, x)
    BY <2>1, Zenon DEF SuspendForApproval, SuspendRows, CancelControls, ReleaseJob,
           CancelStays, TerminalTurn, TypeOK, TurnRowsOK
  <2>2. CASE RequireToolRecovery(t, k, x)
    BY <2>2, Zenon DEF RequireToolRecovery, AmbiguateOpen, CancelControls,
           ReleaseJob, CancelStays, TerminalTurn, TypeOK, TurnRowsOK
  <2>3. CASE DeferTool(t, k, x)
    BY <2>3, Zenon DEF DeferTool, Deferrable, SuspendRows, CancelControls,
           ReleaseJob, CancelStays, TerminalTurn, TypeOK, TurnRowsOK
  <2>4. CASE \/ BeginTool(t, k, x)
             \/ ResumeTool(t, k, x)
             \/ DenyTool(t, k, x)
             \/ \E outcome \in {"succeeded", "failed", "cancelled"} :
                  FinishTool(t, k, x, outcome)
    BY <2>4, Zenon DEF BeginTool, ResumeTool, DenyTool, FinishTool, CancelStays,
           TerminalTurn, TypeOK, TurnRowsOK
  <2> QED
    BY <1>5, <2>1, <2>2, <2>3, <2>4, Zenon DEF ToolStep
<1>6. ASSUME NEW t \in Turn, NEW x \in Tool, OperatorStep(t, x)
      PROVE  CancelStays
  <2>1. CASE CancelAwaitingApproval(t, x)
    BY <2>1, Zenon DEF CancelAwaitingApproval, CancelStays, TerminalTurn, TypeOK,
           TurnRowsOK
  <2>2. CASE CancelAwaitingMedia(t, x)
    BY <2>2, Zenon DEF CancelAwaitingMedia, CancelStays, TerminalTurn, TypeOK,
           TurnRowsOK
  <2>3. ASSUME NEW decision \in {"approved", "denied"},
               ResolveApproval(t, x, decision)
        PROVE  CancelStays
    BY <2>3, Zenon DEF ResolveApproval, WakeApprovalTurn, CancelStays, TerminalTurn,
           TypeOK, TurnRowsOK
  <2>4. ASSUME NEW state \in {"succeeded", "failed", "retry_ready"},
               ResolveRecovery(t, x, recoveryRevision[t][x], state)
        PROVE  CancelStays
    BY <2>4, Zenon DEF ResolveRecovery, RequeueIfComplete, MayRetryTool, ReleaseJob,
           Recoverable, CancelStays, TerminalTurn, TypeOK, TurnRowsOK
  <2>5. CASE AbandonTurn(t, x, recoveryRevision[t][x])
    BY <2>5, Zenon DEF AbandonTurn, Recoverable, CancelStays, TerminalTurn, TypeOK,
           TurnRowsOK
  <2> QED
    BY <1>6, <2>1, <2>2, <2>3, <2>4, <2>5, Zenon DEF OperatorStep
<1>7. ASSUME NEW t \in Turn, NEW x \in Tool, MediaStep(t, x)
      PROVE  CancelStays
  <2>1. ASSUME NEW outcome \in {"succeeded", "failed"},
               SettleMedia(t, x, outcome)
        PROVE  CancelStays
    BY <2>1, Zenon DEF SettleMedia, Woken, CancelStays, TerminalTurn, TypeOK,
           TurnRowsOK
  <2>2. CASE RequireMediaRecovery(t, x)
    BY <2>2, Zenon DEF RequireMediaRecovery, CancelControls, CancelStays,
           TerminalTurn, TypeOK, TurnRowsOK
  <2> QED
    BY <1>7, <2>1, <2>2, Zenon DEF MediaStep
<1>8. CASE ClaimNothing
  BY <1>8, Zenon DEF ClaimNothing, ResetExpiredLeases, ReconcileRows,
         CancelControls, RecoveryTools, RequeuedTools, ResetJob, Required,
         RecoveryRequired, Promoted, Expired, JobRowsOK, CancelStays,
         TerminalTurn, TypeOK, TurnRowsOK
<1>9. CASE \E s \in Session : Archive(s) \/ Restore(s)
  BY <1>9, Zenon DEF Archive, Restore, CancelStays, TerminalTurn, TypeOK, TurnRowsOK
<1>10. CASE UNCHANGED vars
  BY <1>10, Zenon DEF vars, CancelStays, TerminalTurn, TypeOK, TurnRowsOK
<1> QED
  BY <1>1, <1>2, <1>3, <1>4, <1>5, <1>6, <1>7, <1>8, <1>9, <1>10, Zenon DEF Next

\* A requested cancellation survives until the turn ends unsuccessfully
THEOREM CancelIsKept == Spec => CancelSticks
<1>1. TypeOK /\ [Next]_vars => [CancelStays]_vars
  BY CancelNext, Zenon
<1> QED
  BY <1>1, TypeCorrect, PTL DEF Spec, CancelSticks

\* only BeginStep and RetryProvider dispatch, from states without output

LEMMA OutputNext ==
  ASSUME TypeOK, [Next]_vars
  PROVE  OutputStays
<1> USE DEF jobVars, turnVars, controlVars, providerVars, toolVars
<1>1. ASSUME NEW t \in Turn, UserStep(t)
      PROVE  OutputStays
  BY <1>1, ZenonT(60) DEF UserStep, Submit, CancelQueued, CancelRunning,
         InterruptTurn,
         SteerTurn, IssueControl, OutputStays, TypeOK, ProviderRowsOK
<1>2. ASSUME NEW t \in Turn, SchedulerStep(t)
      PROVE  OutputStays
  <2>1. CASE Claim(t)
    BY <2>1, Zenon DEF Claim, ResetExpiredLeases, ReconcileRows, CancelControls,
           RecoveryTools, RequeuedTools, ResetJob, OutputStays, TypeOK,
           ProviderRowsOK
  <2>2. CASE \/ NotBeforePasses(t)
             \/ LeaseExpires(t)
    BY <2>2, Zenon DEF NotBeforePasses, LeaseExpires, OutputStays, TypeOK,
           ProviderRowsOK
  <2> QED
    BY <1>2, <2>1, <2>2, Zenon DEF SchedulerStep
<1>3. ASSUME NEW t \in Turn, NEW k \in Claims, WorkerStep(t, k)
      PROVE  OutputStays
  <2>1. CASE SettleSucceeded(t, k)
    BY <2>1, Zenon DEF SettleSucceeded, SettleRows, CancelControls, ReleaseJob,
           InputOutcome, JobOutcome, OutputStays, TypeOK, ProviderRowsOK
  <2>2. ASSUME NEW outcome \in TerminalTurn \ {"succeeded"},
               SettleUnsuccessful(t, k, outcome)
        PROVE  OutputStays
    BY <2>2, Zenon DEF SettleUnsuccessful, SettleRows, AmbiguateOpen,
           CancelControls, ReleaseJob, InputOutcome, JobOutcome, OutputStays,
           TypeOK, ProviderRowsOK
  <2>3. CASE FailStarted(t, k)
    BY <2>3, Zenon DEF FailStarted, ReconcileRows, CancelControls, RecoveryTools,
           RequeuedTools, ReleaseJob, OutputStays, TypeOK, ProviderRowsOK
  <2>4. CASE \/ Heartbeat(t, k)
             \/ StartAttempt(t, k)
             \/ FailUnstarted(t, k)
             \/ \E c \in Control : ApplyControl(t, k, c)
    BY <2>4, Zenon DEF Heartbeat, StartAttempt, FailUnstarted, ApplyControl,
           OutputStays, TypeOK, ProviderRowsOK
  <2> QED
    BY <1>3, <2>1, <2>2, <2>3, <2>4, Zenon DEF WorkerStep
<1>4. ASSUME NEW t \in Turn, NEW k \in Claims, ProviderStep(t, k)
      PROVE  OutputStays
  <2>1. CASE BeginStep(t, k)
    BY <2>1, Zenon DEF BeginStep, OutputStays, TypeOK, ProviderRowsOK
  <2>2. CASE RetryProvider(t, k)
    BY <2>2, Zenon DEF RetryProvider, MayRetry, OutputStays, TypeOK, ProviderRowsOK
  <2>3. CASE MarkOutput(t, k)
    BY <2>3, Zenon DEF MarkOutput, OutputStays, TypeOK, ProviderRowsOK
  <2>4. CASE CheckpointProvider(t, k)
    BY <2>4, Zenon DEF CheckpointProvider, OutputStays, TypeOK, ProviderRowsOK
  <2>5. ASSUME NEW outcome \in {"retryable", "fatal", "ambiguous"},
               FinishProviderFailed(t, k, outcome)
        PROVE  OutputStays
    BY <2>5, Zenon DEF FinishProviderFailed, OutputStays, TypeOK, ProviderRowsOK
  <2>6. ASSUME NEW batch \in ToolBatch(t),
               FinishProviderWithTools(t, k, batch)
        PROVE  OutputStays
    BY <2>6, Zenon DEF FinishProviderWithTools, OutputStays, TypeOK, ProviderRowsOK
  <2>7. CASE FinishProviderForSteer(t, k)
    BY <2>7, Zenon DEF FinishProviderForSteer, OutputStays, TypeOK, ProviderRowsOK
  <2> QED
    BY <1>4, <2>1, <2>2, <2>3, <2>4, <2>5, <2>6, <2>7, Zenon DEF ProviderStep
<1>5. ASSUME NEW t \in Turn, NEW k \in Claims, NEW x \in Tool, ToolStep(t, k, x)
      PROVE  OutputStays
  <2>1. CASE RequireToolRecovery(t, k, x)
    BY <2>1, Zenon DEF RequireToolRecovery, AmbiguateOpen, CancelControls,
           ReleaseJob, OutputStays, TypeOK, ProviderRowsOK
  <2>2. CASE \/ BeginTool(t, k, x)
             \/ ResumeTool(t, k, x)
             \/ DenyTool(t, k, x)
             \/ SuspendForApproval(t, k, x)
             \/ \E outcome \in {"succeeded", "failed", "cancelled"} :
                  FinishTool(t, k, x, outcome)
             \/ DeferTool(t, k, x)
    BY <2>2, Zenon DEF BeginTool, ResumeTool, DenyTool, SuspendForApproval,
           FinishTool, DeferTool, SuspendRows, OutputStays, TypeOK,
           ProviderRowsOK
  <2> QED
    BY <1>5, <2>1, <2>2, Zenon DEF ToolStep
<1>6. ASSUME NEW t \in Turn, NEW x \in Tool, OperatorStep(t, x)
      PROVE  OutputStays
  BY <1>6, Zenon DEF OperatorStep, CancelAwaitingApproval, CancelAwaitingMedia,
         ResolveApproval, ResolveRecovery, AbandonTurn, WakeApprovalTurn,
         OutputStays, TypeOK, ProviderRowsOK
<1>7. ASSUME NEW t \in Turn, NEW x \in Tool, MediaStep(t, x)
      PROVE  OutputStays
  BY <1>7, Zenon DEF MediaStep, SettleMedia, RequireMediaRecovery, OutputStays,
         TypeOK, ProviderRowsOK
<1>8. CASE ClaimNothing
  BY <1>8, Zenon DEF ClaimNothing, ResetExpiredLeases, ReconcileRows,
         CancelControls, RecoveryTools, RequeuedTools, ResetJob, OutputStays,
         TypeOK, ProviderRowsOK
<1>9. CASE \E s \in Session : Archive(s) \/ Restore(s)
  BY <1>9, Zenon DEF Archive, Restore, OutputStays, TypeOK, ProviderRowsOK
<1>10. CASE UNCHANGED vars
  BY <1>10, Zenon DEF vars, OutputStays, TypeOK, ProviderRowsOK
<1> QED
  BY <1>1, <1>2, <1>3, <1>4, <1>5, <1>6, <1>7, <1>8, <1>9, <1>10, Zenon DEF Next

\* A provider request that may have produced output is never sent again
THEOREM ProviderOnce == Spec => ProviderNotRepeated
<1>1. TypeOK /\ [Next]_vars => [OutputStays]_vars
  BY OutputNext, Zenon
<1> QED
  BY <1>1, TypeCorrect, PTL DEF Spec, ProviderNotRepeated

-----------------------------------------------------------------------------
(* Turns start in the order of their session.                              *)

\* the turn has ended, or has been started before
Passed(t) == turn[t] \in TerminalTurn \/ input[t] = "promoted"

\* a claimed job has no earlier turn of its session that was never started
StartOrder ==
  /\ \A t \in Turn : turn[t] = "none" => input[t] = "none"
  /\ \A t, u \in Turn :
       SessionOf[u] = SessionOf[t] /\ u < t /\ job[t] = "running" => Passed(u)

\* how a step may change the rows of a turn: it stays passed, its input is
\* promoted, and its job runs, through a claim only
Forward(t) ==
  /\ turn'[t] = "none" => turn[t] = "none" /\ input'[t] = input[t]
  /\ \/ turn'[t] \in TerminalTurn \/ input'[t] = "promoted" \/ turn[t] = "none"
     \/ input'[t] = input[t] /\ (turn'[t] = turn[t] \/ turn[t] \notin TerminalTurn)
  /\ job'[t] = "running" => job[t] = "running" \/ Claim(t)
  /\ input[t] = "admitted" /\ input'[t] = "promoted" => job[t] = "running"

\* A step that leaves turns, inputs and jobs alone moves every turn forward
LEMMA ForwardQuietly ==
  ASSUME UNCHANGED <<turn, input, job>>
  PROVE  \A u \in Turn : Forward(u)
BY Zenon DEF Forward

\* The reset of expired leases moves every turn forward
LEMMA ForwardReset ==
  ASSUME ResetExpiredLeases, NEW u \in Turn,
         job'[u] = "running" => job[u] = "running" \/ Claim(u)
  PROVE  Forward(u)
<1>1. CASE u \in Required
  <2>1. turn'[u] = "recovery_required" /\ input'[u] = "failed"
    BY <1>1, Zenon DEF ResetExpiredLeases, ReconcileRows
  <2> QED
    BY <2>1, Zenon DEF Forward, TerminalTurn
<1>2. CASE u \in Promoted \ Required
  <2>1. turn'[u] = "queued" /\ input'[u] = input[u]
    BY <1>2, Zenon DEF ResetExpiredLeases, ReconcileRows
  <2>2. turn[u] \notin TerminalTurn
    BY <1>2, Zenon DEF ResetExpiredLeases, Reconcilable, TerminalTurn
  <2> QED
    BY <2>1, <2>2, Zenon DEF Forward
<1>3. CASE u \notin Promoted
  <2>1. u \notin Required
    BY <1>3, Zenon DEF Required
  <2>2. turn'[u] = turn[u] /\ input'[u] = input[u]
    BY <1>3, <2>1, Zenon DEF ResetExpiredLeases, ReconcileRows
  <2> QED
    BY <2>2, Zenon DEF Forward
<1> QED
  BY <1>1, <1>2, <1>3, Zenon

\* Every step moves every turn forward
LEMMA ForwardNext ==
  ASSUME TypeOK, [Next]_vars
  PROVE  \A u \in Turn : Forward(u)
<1> DEFINE Calm == \A u \in Turn : Forward(u)
<1> USE DEF jobVars, turnVars, controlVars, providerVars, toolVars
<1>1. ASSUME NEW t \in Turn, UserStep(t)
      PROVE  Calm
  <2>1. ASSUME NEW state \in {"pending", "ready"}, Submit(t, state)
        PROVE  Calm
    BY <2>1, Zenon DEF Submit, Forward, TypeOK, TurnRowsOK, JobRowsOK
  <2>2. CASE CancelQueued(t)
    BY <2>2, Zenon DEF CancelQueued, ReleaseJob, Forward, TerminalTurn, TypeOK,
           TurnRowsOK, JobRowsOK
  <2>3. CASE CancelRunning(t)
    BY <2>3, Zenon DEF CancelRunning, Forward, TerminalTurn, TypeOK, TurnRowsOK
  <2>4. CASE \/ \E k \in Claims, c \in Interrupt : InterruptTurn(t, k, c)
             \/ \E k \in Claims, c \in Steer : SteerTurn(t, k, c)
    BY <2>4, ForwardQuietly, Zenon DEF InterruptTurn, SteerTurn
  <2> QED
    BY <1>1, <2>1, <2>2, <2>3, <2>4, Zenon DEF UserStep
<1>2. ASSUME NEW t \in Turn, SchedulerStep(t)
      PROVE  Calm
  <2>1. CASE NotBeforePasses(t)
    BY <2>1, Zenon DEF NotBeforePasses, Forward, TypeOK, JobRowsOK
  <2>2. CASE Claim(t)
    <3>1. ASSUME NEW u \in Turn
          PROVE  job'[u] = "running" => job[u] = "running" \/ Claim(u)
      <4>1. CASE u = t
        BY <2>2, <4>1, Zenon
      <4>2. CASE u # t
        BY <2>2, <4>2, Zenon DEF Claim, ResetJob
      <4> QED
        BY <4>1, <4>2, Zenon
    <3> QED
      BY <2>2, <3>1, ForwardReset, Zenon DEF Claim
  <2>3. CASE LeaseExpires(t)
    BY <2>3, ForwardQuietly, Zenon DEF LeaseExpires
  <2> QED
    BY <1>2, <2>1, <2>2, <2>3, Zenon DEF SchedulerStep
<1>3. ASSUME NEW t \in Turn, NEW k \in Claims, WorkerStep(t, k)
      PROVE  Calm
  <2>1. CASE StartAttempt(t, k)
    BY <2>1, Zenon DEF StartAttempt, ClaimedBy, Forward, TypeOK, TurnRowsOK
  <2>2. ASSUME NEW outcome \in TerminalTurn, SettleRows(t, k, outcome), Owns(t, k)
        PROVE  Calm
    <3>1. JobOutcome(outcome) # "running" /\ InputOutcome(outcome) # "promoted"
      BY Zenon DEF JobOutcome, InputOutcome, TerminalTurn
    <3> QED
      BY <2>2, <3>1, Zenon DEF SettleRows, ReleaseJob, Forward, TerminalTurn,
             TypeOK, TurnRowsOK, JobRowsOK
  <2>3. CASE \/ SettleSucceeded(t, k)
             \/ \E outcome \in TerminalTurn \ {"succeeded"} :
                  SettleUnsuccessful(t, k, outcome)
    BY <2>2, <2>3, Zenon DEF SettleSucceeded, SettleUnsuccessful, TerminalTurn
  <2>4. CASE FailStarted(t, k)
    BY <2>4, Zenon DEF FailStarted, ReconcileRows, ReleaseJob, Forward,
           TerminalTurn, TypeOK, JobRowsOK
  <2>5. CASE FailUnstarted(t, k)
    BY <2>5, Zenon DEF FailUnstarted, ReleaseJob, Forward, TerminalTurn, TypeOK,
           TurnRowsOK, JobRowsOK
  <2>6. ASSUME NEW c \in Control, ApplyControl(t, k, c)
        PROVE  Calm
    BY <2>6, Zenon DEF ApplyControl, Owns, Forward, TerminalTurn, TypeOK, TurnRowsOK
  <2>7. CASE Heartbeat(t, k)
    BY <2>7, ForwardQuietly, Zenon DEF Heartbeat
  <2> QED
    BY <1>3, <2>1, <2>3, <2>4, <2>5, <2>6, <2>7, Zenon DEF WorkerStep
<1>4. ASSUME NEW t \in Turn, NEW k \in Claims, ProviderStep(t, k)
      PROVE  Calm
  BY <1>4, ForwardQuietly, Zenon DEF ProviderStep, BeginStep, RetryProvider,
         MarkOutput, CheckpointProvider, FinishProviderFailed,
         FinishProviderWithTools, FinishProviderForSteer
<1>5. ASSUME NEW t \in Turn, NEW k \in Claims, NEW x \in Tool, ToolStep(t, k, x)
      PROVE  Calm
  <2>1. CASE SuspendRows(t, k) /\ turn[t] = "running"
    BY <2>1, Zenon DEF SuspendRows, ReleaseJob, Forward, TerminalTurn, TypeOK,
           TurnRowsOK, JobRowsOK
  <2>2. CASE SuspendForApproval(t, k, x) \/ DeferTool(t, k, x)
    BY <2>1, <2>2, Zenon DEF SuspendForApproval, DeferTool, Deferrable
  <2>3. CASE RequireToolRecovery(t, k, x)
    BY <2>3, Zenon DEF RequireToolRecovery, ReleaseJob, Forward, TerminalTurn,
           TypeOK, TurnRowsOK, JobRowsOK
  <2>4. CASE \/ BeginTool(t, k, x) \/ ResumeTool(t, k, x) \/ DenyTool(t, k, x)
             \/ \E outcome \in {"succeeded", "failed", "cancelled"} :
                  FinishTool(t, k, x, outcome)
    BY <2>4, ForwardQuietly, Zenon DEF BeginTool, ResumeTool, DenyTool, FinishTool
  <2> QED
    BY <1>5, <2>2, <2>3, <2>4, Zenon DEF ToolStep
<1>6. ASSUME NEW t \in Turn, NEW x \in Tool, OperatorStep(t, x)
      PROVE  Calm
  <2>1. CASE CancelAwaitingApproval(t, x)
    BY <2>1, Zenon DEF CancelAwaitingApproval, Forward, TerminalTurn, TypeOK,
           TurnRowsOK, JobRowsOK
  <2>2. CASE CancelAwaitingMedia(t, x)
    BY <2>2, Zenon DEF CancelAwaitingMedia, Forward, TerminalTurn, TypeOK,
           TurnRowsOK
  <2>3. ASSUME NEW decision \in {"approved", "denied"},
               ResolveApproval(t, x, decision)
        PROVE  Calm
    BY <2>3, Zenon DEF ResolveApproval, WakeApprovalTurn, Forward, TerminalTurn,
           TypeOK, TurnRowsOK, JobRowsOK
  <2>4. ASSUME NEW state \in {"succeeded", "failed", "retry_ready"},
               ResolveRecovery(t, x, recoveryRevision[t][x], state)
        PROVE  Calm
    <3>1. CASE UNCHANGED <<turn, input, job>>
      BY <3>1, ForwardQuietly, Zenon
    <3>2. CASE ~UNCHANGED <<turn, input, job>>
      BY <2>4, <3>2 DEF ResolveRecovery, RequeueIfComplete, ReleaseJob, Forward,
             TypeOK, TurnRowsOK, JobRowsOK
    <3> QED
      BY <3>1, <3>2, Zenon
  <2>5. CASE AbandonTurn(t, x, recoveryRevision[t][x])
    BY <2>5, Zenon DEF AbandonTurn, Forward, TerminalTurn, TypeOK, TurnRowsOK
  <2> QED
    BY <1>6, <2>1, <2>2, <2>3, <2>4, <2>5, Zenon DEF OperatorStep
<1>7. ASSUME NEW t \in Turn, NEW x \in Tool, MediaStep(t, x)
      PROVE  Calm
  <2>1. ASSUME NEW outcome \in {"succeeded", "failed"}, SettleMedia(t, x, outcome)
        PROVE  Calm
    BY <2>1, Zenon DEF SettleMedia, Woken, Forward, TerminalTurn, TypeOK,
           TurnRowsOK, JobRowsOK
  <2>2. CASE RequireMediaRecovery(t, x)
    BY <2>2, Zenon DEF RequireMediaRecovery, Forward, TerminalTurn, TypeOK,
           TurnRowsOK, JobRowsOK
  <2> QED
    BY <1>7, <2>1, <2>2, Zenon DEF MediaStep
<1>8. ASSUME ClaimNothing
      PROVE  Calm
  <2>1. \A u \in Turn : job'[u] = "running" => job[u] = "running"
    BY <1>8, Zenon DEF ClaimNothing, ResetJob
  <2> QED
    BY <1>8, <2>1, ForwardReset, Zenon DEF ClaimNothing
<1>9. ASSUME NEW s \in Session, Archive(s) \/ Restore(s)
      PROVE  Calm
  BY <1>9, ForwardQuietly, Zenon DEF Archive, Restore
<1>10. ASSUME UNCHANGED vars
       PROVE  Calm
  BY <1>10, ForwardQuietly, Zenon DEF vars
<1> HIDE DEF Calm
<1>11. Calm
  BY <1>1, <1>2, <1>3, <1>4, <1>5, <1>6, <1>7, <1>8, <1>9, <1>10, Zenon DEF Next
<1> QED
  BY <1>11, Zenon DEF Calm

\* The claim of a job is what orders the turns: it wants every earlier job of
\* the session terminal, and with it the turn
LEMMA StartOrderNext ==
  ASSUME TypeOK, SettledTogether', StartOrder, [Next]_vars
  PROVE  StartOrder'
<1>1. \A u \in Turn : Forward(u)
  BY ForwardNext, Zenon
<1>2. \A u \in Turn : (turn[u] = "none" => input[u] = "none")'
  BY <1>1, Zenon DEF Forward, StartOrder
<1>3. ASSUME NEW u \in Turn, Passed(u)
      PROVE  Passed(u)'
  <2>1. turn[u] # "none"
    BY <1>3, Zenon DEF Passed, StartOrder, TerminalTurn
  <2> QED
    BY <1>1, <1>3, <2>1, Zenon DEF Forward, Passed
<1>4. ASSUME NEW t \in Turn, NEW u \in Turn, SessionOf[u] = SessionOf[t], u < t,
             Claim(t)
      PROVE  Passed(u)'
  <2>1. u # t
    BY <1>4, TurnAssumption
  <2>2. job'[u] = ResetJob[u]
    BY <1>4, <2>1, Zenon DEF Claim, ResetJob
  <2>3. ResetJob[u] \in TerminalJob
    BY <1>4, <2>1, Zenon DEF Claim, Candidate
  <2>4. turn'[u] \in TerminalTurn
    BY <2>2, <2>3, Zenon DEF SettledTogether, TerminalJob, TerminalTurn
  <2> QED
    BY <2>4, Zenon DEF Passed
<1>5. ASSUME NEW t \in Turn, NEW u \in Turn, SessionOf[u] = SessionOf[t], u < t,
             job'[t] = "running"
      PROVE  Passed(u)'
  <2>1. CASE job[t] = "running"
    BY <1>3, <1>5, <2>1, Zenon DEF StartOrder
  <2>2. CASE Claim(t)
    BY <1>4, <1>5, <2>2, Zenon
  <2> QED
    BY <1>1, <1>5, <2>1, <2>2, Zenon DEF Forward
<1> QED
  BY <1>2, <1>5, Zenon DEF StartOrder

\* A turn is first started only when every earlier turn of its session has
\* ended or had been started before it, however often jobs are claimed, expire
\* and are reopened (ready_candidates_tx and start_session_turn_attempt_tx)
THEOREM TurnsInOrder == Spec => StartsInOrder
<1> DEFINE InTurn ==
      \A t, u \in Turn :
        /\ SessionOf[u] = SessionOf[t]
        /\ u < t
        /\ input[t] = "admitted"
        /\ input'[t] = "promoted"
        => turn[u] \in TerminalTurn \/ input[u] = "promoted"
<1>1. Init => StartOrder
  BY Zenon DEF Init, StartOrder
<1>2. TypeOK /\ SettledTogether' /\ StartOrder /\ [Next]_vars => StartOrder'
  BY StartOrderNext, Zenon
<1>3. TypeOK /\ StartOrder /\ [Next]_vars => InTurn
  <2> SUFFICES ASSUME TypeOK, StartOrder, [Next]_vars
               PROVE  InTurn
    BY Zenon
  <2> QED
    BY ForwardNext, Zenon DEF Forward, StartOrder, Passed
<1> HIDE DEF InTurn
<1>4. TypeOK /\ StartOrder /\ [Next]_vars => [InTurn]_vars
  BY <1>3, Zenon
<1>5. Spec => [][InTurn]_vars
  BY <1>1, <1>2, <1>4, TypeCorrect, EndsTogether, PTL DEF Spec
<1> QED
  BY <1>5, Zenon DEF InTurn, StartsInOrder

-----------------------------------------------------------------------------
(* Suspensions.                                                            *)

\* the call is an owner of the turn's suspension
Suspends(t, x) ==
  tool[t][x] = "approval_required" \/ media[t][x] \in {"live", "cancel_requested"}

\* SuspensionOwner call by call, with the state of a call that waits for a media
\* generation
Suspension(t) ==
  /\ \A x \in Tool : tool[t][x] = "approval_required" =>
       turn[t] = "waiting" /\ job[t] = "waiting"
  /\ \A x \in Tool : media[t][x] \in {"live", "cancel_requested"} =>
       /\ turn[t] \in {"waiting", "cancel_requested"}
       /\ current[t] = 0 /\ job[t] = "waiting" /\ tool[t][x] = "waiting"
  /\ \A x, y \in Tool : Suspends(t, x) /\ Suspends(t, y) => x = y
  /\ turn[t] = "waiting" => \E x \in Tool : Suspends(t, x)

SuspensionInv == \A t \in Turn : Suspension(t)

\* a step that leaves the suspension rows of the turn alone, or that meets the
\* turn while nothing can suspend it and does not suspend it
Steady(t) ==
  \/ /\ turn'[t] = turn[t] /\ current'[t] = current[t] /\ job'[t] = job[t]
     /\ tool'[t] = tool[t] /\ media'[t] = media[t]
  \/ /\ job[t] # "waiting" \/ turn[t] \notin {"waiting", "cancel_requested"}
     /\ turn'[t] = turn[t] \/ turn'[t] # "waiting"
     /\ media'[t] = media[t]
     /\ \A x \in Tool : tool'[t][x] = "approval_required" =>
          tool[t][x] = "approval_required"

\* A steady step keeps the owners of a suspension
LEMMA SteadyKeeps ==
  ASSUME NEW t \in Turn, Suspension(t), Steady(t)
  PROVE  Suspension(t)'
BY Zenon DEF Suspension, Suspends, Steady

\* Every step is steady for the turns it is not about, and every step that does
\* not begin or end a wait for its own turn too
LEMMA SteadyNext ==
  ASSUME TypeOK, [Next]_vars
  PROVE  \/ \A u \in Turn : Steady(u)
         \/ \E t \in Turn, x \in Tool :
              /\ \/ \E k \in Claims : SuspendForApproval(t, k, x) \/ DeferTool(t, k, x)
                 \/ CancelAwaitingApproval(t, x)
                 \/ CancelAwaitingMedia(t, x)
                 \/ \E decision \in {"approved", "denied"} :
                      ResolveApproval(t, x, decision)
                 \/ MediaStep(t, x)
              /\ \A u \in Turn \ {t} : Steady(u)
<1> DEFINE Calm == \A u \in Turn : Steady(u)
           Rest(t) == \A u \in Turn \ {t} : Steady(u)
<1> USE DEF jobVars, turnVars, controlVars, providerVars, toolVars
<1>1. ASSUME NEW t \in Turn, UserStep(t)
      PROVE  Calm
  <2>1. ASSUME NEW state \in {"pending", "ready"}, Submit(t, state)
        PROVE  Calm
    BY <2>1, Zenon DEF Submit, Steady, TypeOK, TurnRowsOK, JobRowsOK
  <2>2. CASE CancelQueued(t)
    BY <2>2, Zenon DEF CancelQueued, ReleaseJob, Steady, TypeOK, TurnRowsOK,
           JobRowsOK
  <2>3. CASE CancelRunning(t)
    BY <2>3, Zenon DEF CancelRunning, Steady, TypeOK, TurnRowsOK
  <2>4. CASE \/ \E k \in Claims, c \in Interrupt : InterruptTurn(t, k, c)
             \/ \E k \in Claims, c \in Steer : SteerTurn(t, k, c)
    BY <2>4, Zenon DEF InterruptTurn, SteerTurn, Steady
  <2> QED
    BY <1>1, <2>1, <2>2, <2>3, <2>4, Zenon DEF UserStep
<1>2. ASSUME ResetExpiredLeases, NEW u \in Turn,
             job'[u] = job[u] \/ job[u] # "waiting"
      PROVE  Steady(u)
  <2>1. media' = media
    BY <1>2, Zenon DEF ResetExpiredLeases, ReconcileRows
  <2>2. CASE u \in Promoted
    <3>1. job[u] = "running" /\ turn'[u] # "waiting"
      BY <1>2, <2>2, Zenon DEF ResetExpiredLeases, ReconcileRows, Promoted, Expired
    <3>2. \A x \in Tool : tool'[u][x] = "approval_required" =>
            tool[u][x] = "approval_required"
      BY <1>2, <2>2, Zenon DEF ResetExpiredLeases, ReconcileRows, RecoveryTools,
             RequeuedTools
    <3> QED
      BY <2>1, <3>1, <3>2, Zenon DEF Steady
  <2>3. CASE u \notin Promoted
    <3>1. /\ turn'[u] = turn[u] /\ current'[u] = current[u]
          /\ tool'[u] = tool[u]
      BY <1>2, <2>3, Zenon DEF ResetExpiredLeases, ReconcileRows, Required
    <3> QED
      BY <1>2, <2>1, <3>1, Zenon DEF Steady
  <2> QED
    BY <2>2, <2>3, Zenon
<1>3. ASSUME NEW t \in Turn, SchedulerStep(t)
      PROVE  Calm
  <2>1. CASE NotBeforePasses(t)
    BY <2>1, Zenon DEF NotBeforePasses, Steady, TypeOK, JobRowsOK
  <2>2. CASE Claim(t)
    <3>1. \A u \in Turn : job'[u] = job[u] \/ job[u] # "waiting"
      BY <2>2, Zenon DEF Claim, Candidate, ResetJob, Required, Promoted, Expired,
             TypeOK, JobRowsOK
    <3> QED
      BY <1>2, <2>2, <3>1, Zenon DEF Claim
  <2>3. CASE LeaseExpires(t)
    BY <2>3, Zenon DEF LeaseExpires, Steady
  <2> QED
    BY <1>3, <2>1, <2>2, <2>3, Zenon DEF SchedulerStep
<1>4. ASSUME NEW t \in Turn, NEW k \in Claims, WorkerStep(t, k)
      PROVE  Calm
  <2>1. CASE StartAttempt(t, k)
    BY <2>1, Zenon DEF StartAttempt, ClaimedBy, Steady, TypeOK, TurnRowsOK,
           JobRowsOK
  <2>2. ASSUME NEW outcome \in TerminalTurn, SettleRows(t, k, outcome), Owns(t, k)
        PROVE  Calm
    BY <2>2, Zenon DEF SettleRows, ReleaseJob, Owns, TerminalTurn, Steady, TypeOK,
           TurnRowsOK, JobRowsOK
  <2>3. CASE \/ SettleSucceeded(t, k)
             \/ \E outcome \in TerminalTurn \ {"succeeded"} :
                  SettleUnsuccessful(t, k, outcome)
    BY <2>2, <2>3, Zenon DEF SettleSucceeded, SettleUnsuccessful, TerminalTurn
  <2>4. CASE FailStarted(t, k)
    <3>1. ASSUME NEW u \in Turn \ {t}
          PROVE  Steady(u)
      BY <2>4, <3>1, Zenon DEF FailStarted, ReconcileRows, ReleaseJob, Steady,
             TypeOK, JobRowsOK
    <3>2. Steady(t)
      BY <2>4, Zenon DEF FailStarted, ReconcileRows, ReleaseJob, RecoveryTools,
             Steady, TypeOK, JobRowsOK
    <3> QED
      BY <3>1, <3>2, Zenon
  <2>5. CASE FailUnstarted(t, k)
    BY <2>5, Zenon DEF FailUnstarted, ReleaseJob, ClaimedBy, Steady, TypeOK,
           TurnRowsOK, JobRowsOK
  <2>6. ASSUME NEW c \in Control, ApplyControl(t, k, c)
        PROVE  Calm
    BY <2>6, Zenon DEF ApplyControl, Owns, Steady, TypeOK, TurnRowsOK
  <2>7. CASE Heartbeat(t, k)
    BY <2>7, Zenon DEF Heartbeat, Steady
  <2> QED
    BY <1>4, <2>1, <2>3, <2>4, <2>5, <2>6, <2>7, Zenon DEF WorkerStep
<1>5. ASSUME NEW t \in Turn, NEW k \in Claims, ProviderStep(t, k)
      PROVE  Calm
  <2>1. ASSUME NEW batch, FinishProviderWithTools(t, k, batch)
        PROVE  Calm
    BY <2>1, Zenon DEF FinishProviderWithTools, Owns, Steady, TypeOK, ToolRowsOK
  <2>2. CASE \/ BeginStep(t, k) \/ RetryProvider(t, k) \/ MarkOutput(t, k)
             \/ CheckpointProvider(t, k) \/ FinishProviderForSteer(t, k)
             \/ \E outcome \in {"retryable", "fatal", "ambiguous"} :
                  FinishProviderFailed(t, k, outcome)
    BY <2>2, Zenon DEF BeginStep, RetryProvider, MarkOutput, CheckpointProvider,
           FinishProviderForSteer, FinishProviderFailed, Steady
  <2> QED
    BY <1>5, <2>1, <2>2, Zenon DEF ProviderStep
<1>6. ASSUME NEW t \in Turn, NEW k \in Claims, NEW x \in Tool, ToolStep(t, k, x)
      PROVE  Calm \/ ((SuspendForApproval(t, k, x) \/ DeferTool(t, k, x)) /\ Rest(t))
  <2>1. CASE BeginTool(t, k, x) \/ ResumeTool(t, k, x)
    BY <2>1 DEF BeginTool, ResumeTool, CreateToolAttempt, Owns, Steady, TypeOK,
           ToolRowsOK
  <2>2. CASE DenyTool(t, k, x)
    BY <2>2, Zenon DEF DenyTool, Owns, Steady, TypeOK, ToolRowsOK
  <2>3. ASSUME NEW outcome \in {"succeeded", "failed", "cancelled"},
               FinishTool(t, k, x, outcome)
        PROVE  Calm
    BY <2>3, Zenon DEF FinishTool, Owns, Steady, TypeOK, ToolRowsOK
  <2>4. CASE RequireToolRecovery(t, k, x)
    BY <2>4, Zenon DEF RequireToolRecovery, ReleaseJob, Owns, Steady, TypeOK,
           TurnRowsOK, JobRowsOK, ToolRowsOK
  <2>5. CASE SuspendForApproval(t, k, x)
    <3>1. Rest(t)
      BY <2>5, Zenon DEF SuspendForApproval, SuspendRows, ReleaseJob, Steady,
             TypeOK, TurnRowsOK, JobRowsOK, ToolRowsOK
    <3> QED
      BY <2>5, <3>1, Zenon
  <2>6. CASE DeferTool(t, k, x)
    <3>1. Rest(t)
      BY <2>6, Zenon DEF DeferTool, SuspendRows, ReleaseJob, Steady, TypeOK,
             TurnRowsOK, JobRowsOK, ToolRowsOK
    <3> QED
      BY <2>6, <3>1, Zenon
  <2> QED
    BY <1>6, <2>1, <2>2, <2>3, <2>4, <2>5, <2>6, Zenon DEF ToolStep
<1>7. ASSUME NEW t \in Turn, NEW x \in Tool, OperatorStep(t, x)
      PROVE  \/ Calm
             \/ /\ \/ CancelAwaitingApproval(t, x)
                   \/ CancelAwaitingMedia(t, x)
                   \/ \E decision \in {"approved", "denied"} :
                        ResolveApproval(t, x, decision)
                /\ Rest(t)
  <2>1. CASE CancelAwaitingApproval(t, x)
    <3>1. Rest(t)
      BY <2>1, Zenon DEF CancelAwaitingApproval, Steady, TypeOK, TurnRowsOK,
             JobRowsOK, ToolRowsOK
    <3> QED
      BY <2>1, <3>1, Zenon
  <2>2. CASE CancelAwaitingMedia(t, x)
    <3>1. Rest(t)
      BY <2>2, Zenon DEF CancelAwaitingMedia, Steady, TypeOK, TurnRowsOK, JobRowsOK,
             ToolRowsOK
    <3> QED
      BY <2>2, <3>1, Zenon
  <2>3. ASSUME NEW decision \in {"approved", "denied"},
               ResolveApproval(t, x, decision)
        PROVE  Rest(t)
    BY <2>3, Zenon DEF ResolveApproval, WakeApprovalTurn, Steady, TypeOK,
           TurnRowsOK, JobRowsOK, ToolRowsOK
  <2>4. ASSUME NEW state \in {"succeeded", "failed", "retry_ready"},
               ResolveRecovery(t, x, recoveryRevision[t][x], state)
        PROVE  Calm
    BY <2>4 DEF ResolveRecovery, Recoverable, RequeueIfComplete, ReleaseJob, Steady,
           TypeOK, TurnRowsOK, JobRowsOK, ToolRowsOK
  <2>5. CASE AbandonTurn(t, x, recoveryRevision[t][x])
    BY <2>5, Zenon DEF AbandonTurn, Recoverable, Steady, TypeOK, TurnRowsOK,
           ToolRowsOK
  <2> QED
    BY <1>7, <2>1, <2>2, <2>3, <2>4, <2>5, Zenon DEF OperatorStep
<1>8. ASSUME NEW t \in Turn, NEW x \in Tool, MediaStep(t, x)
      PROVE  Rest(t)
  <2>1. ASSUME NEW outcome \in {"succeeded", "failed"}, SettleMedia(t, x, outcome)
        PROVE  Rest(t)
    BY <2>1, Zenon DEF SettleMedia, Steady, TypeOK, TurnRowsOK, JobRowsOK,
           ToolRowsOK
  <2>2. CASE RequireMediaRecovery(t, x)
    BY <2>2, Zenon DEF RequireMediaRecovery, Steady, TypeOK, TurnRowsOK, JobRowsOK,
           ToolRowsOK
  <2> QED
    BY <1>8, <2>1, <2>2, Zenon DEF MediaStep
<1>9. ASSUME ClaimNothing
      PROVE  Calm
  <2>1. \A u \in Turn : job'[u] = job[u] \/ job[u] # "waiting"
    BY <1>9, Zenon DEF ClaimNothing, ResetJob, Required, Promoted, Expired
  <2> QED
    BY <1>2, <1>9, <2>1, Zenon DEF ClaimNothing
<1>10. ASSUME NEW s \in Session, Archive(s) \/ Restore(s)
       PROVE  Calm
  BY <1>10, Zenon DEF Archive, Restore, Steady
<1>11. ASSUME UNCHANGED vars
       PROVE  Calm
  BY <1>11, Zenon DEF vars, Steady
<1> DEFINE Owner(t, x) ==
             \/ \E k \in Claims : SuspendForApproval(t, k, x) \/ DeferTool(t, k, x)
             \/ CancelAwaitingApproval(t, x)
             \/ CancelAwaitingMedia(t, x)
             \/ \E decision \in {"approved", "denied"} :
                  ResolveApproval(t, x, decision)
             \/ MediaStep(t, x)
           Goal == Calm \/ \E t \in Turn, x \in Tool : Owner(t, x) /\ Rest(t)
<1> HIDE DEF Calm, Rest
<1>12. ASSUME NEW t \in Turn, NEW k \in Claims, NEW x \in Tool, ToolStep(t, k, x)
       PROVE  Goal
  BY <1>6, <1>12, Zenon
<1>13. ASSUME NEW t \in Turn, NEW x \in Tool, OperatorStep(t, x)
       PROVE  Goal
  BY <1>7, <1>13, Zenon
<1>14. ASSUME NEW t \in Turn, NEW x \in Tool, MediaStep(t, x)
       PROVE  Goal
  BY <1>8, <1>14, Zenon
<1>15. ASSUME Calm
       PROVE  Goal
  BY <1>15, Zenon
<1> HIDE DEF Goal
<1>16. Goal
  BY <1>1, <1>3, <1>4, <1>5, <1>9, <1>10, <1>11, <1>12, <1>13, <1>14, <1>15, Zenon
     DEF Next
<1> QED
  BY <1>16, Zenon DEF Goal, Calm, Rest

\* The steps that begin or end a wait find none, or end the only one
LEMMA SuspensionNext ==
  ASSUME TypeOK, SuspensionInv, [Next]_vars
  PROVE  SuspensionInv'
<1> USE DEF jobVars, turnVars, controlVars, providerVars, toolVars
<1>1. ASSUME NEW t \in Turn, \A u \in Turn \ {t} : Steady(u), Suspension(t)'
      PROVE  SuspensionInv'
  BY <1>1, SteadyKeeps, Zenon DEF SuspensionInv
<1>2. CASE \A u \in Turn : Steady(u)
  BY <1>2, SteadyKeeps, Zenon DEF SuspensionInv
<1>3. ASSUME NEW t \in Turn, NEW x \in Tool, NEW k \in Claims,
             SuspendForApproval(t, k, x)
      PROVE  Suspension(t)'
  BY <1>3 DEF SuspendForApproval, SuspendRows, ReleaseJob, Owns, SuspensionInv,
         Suspension, Suspends, TypeOK, TurnRowsOK, JobRowsOK, ToolRowsOK
<1>4. ASSUME NEW t \in Turn, NEW x \in Tool, NEW k \in Claims, DeferTool(t, k, x)
      PROVE  Suspension(t)'
  BY <1>4 DEF DeferTool, Deferrable, SuspendRows, ReleaseJob, Owns, SuspensionInv,
         Suspension, Suspends, TypeOK, TurnRowsOK, JobRowsOK, ToolRowsOK
<1>5. ASSUME NEW t \in Turn, NEW x \in Tool, CancelAwaitingApproval(t, x)
      PROVE  Suspension(t)'
  <2>1. tool[t][x] = "approval_required"
    BY <1>5, Zenon DEF CancelAwaitingApproval, AwaitedApproval
  <2> QED
    BY <1>5, <2>1 DEF CancelAwaitingApproval, SuspensionInv, Suspension, Suspends,
           TypeOK, TurnRowsOK, JobRowsOK, ToolRowsOK
<1>6. ASSUME NEW t \in Turn, NEW x \in Tool, CancelAwaitingMedia(t, x)
      PROVE  Suspension(t)'
  BY <1>6 DEF CancelAwaitingMedia, SuspensionInv, Suspension, Suspends, TypeOK,
         TurnRowsOK, JobRowsOK, ToolRowsOK
<1>7. ASSUME NEW t \in Turn, NEW x \in Tool, NEW decision \in {"approved", "denied"},
             ResolveApproval(t, x, decision)
      PROVE  Suspension(t)'
  BY <1>7 DEF ResolveApproval, WakeApprovalTurn, SuspensionInv, Suspension,
         Suspends, TypeOK, TurnRowsOK, JobRowsOK, ToolRowsOK
<1>8. ASSUME NEW t \in Turn, NEW x \in Tool, MediaStep(t, x)
      PROVE  Suspension(t)'
  <2>1. ASSUME NEW outcome \in {"succeeded", "failed"}, SettleMedia(t, x, outcome)
        PROVE  Suspension(t)'
    BY <2>1 DEF SettleMedia, Woken, SuspensionInv, Suspension, Suspends, TypeOK,
           TurnRowsOK, JobRowsOK, ToolRowsOK
  <2>2. CASE RequireMediaRecovery(t, x)
    BY <2>2 DEF RequireMediaRecovery, SuspensionInv, Suspension, Suspends, TypeOK,
           TurnRowsOK, JobRowsOK, ToolRowsOK
  <2> QED
    BY <1>8, <2>1, <2>2, Zenon DEF MediaStep
<1> QED
  BY SteadyNext, <1>1, <1>2, <1>3, <1>4, <1>5, <1>6, <1>7, <1>8, Zenon

\* A suspended turn has exactly one owner of its suspension, an approval or a
\* live media operation, that will wake it, and an owner is never left with a
\* turn or a job that cannot be woken
\* (AwaitedApproval and LiveMedia, request_session_turn_cancel_tx)
THEOREM SuspensionsOwned == Spec => []SuspensionOwner
<1>1. Init => SuspensionInv
  BY DEF Init, SuspensionInv, Suspension, Suspends
<1>2. TypeOK /\ SuspensionInv /\ [Next]_vars => SuspensionInv'
  BY SuspensionNext, Zenon
<1>3. SuspensionInv => SuspensionOwner
  <2> SUFFICES ASSUME SuspensionInv, NEW t \in Turn
               PROVE  /\ turn[t] = "waiting" => \E x \in Tool :
                           \/ AwaitedApproval(t) = {x} /\ LiveMedia(t) = {}
                           \/ AwaitedApproval(t) = {} /\ LiveMedia(t) = {x}
                      /\ AwaitedApproval(t) # {} =>
                           turn[t] = "waiting" /\ job[t] = "waiting"
                      /\ LiveMedia(t) # {} =>
                           turn[t] \in {"waiting", "cancel_requested"}
                             /\ current[t] = 0 /\ job[t] = "waiting"
    BY Zenon DEF SuspensionOwner
  <2>1. Suspension(t)
    BY Zenon DEF SuspensionInv
  <2>2. ASSUME NEW x \in Tool, Suspends(t, x)
        PROVE  \/ AwaitedApproval(t) = {x} /\ LiveMedia(t) = {}
               \/ AwaitedApproval(t) = {} /\ LiveMedia(t) = {x}
    BY <2>1, <2>2, Zenon DEF Suspension, Suspends, AwaitedApproval, LiveMedia
  <2> QED
    BY <2>1, <2>2, Zenon DEF Suspension, AwaitedApproval, LiveMedia
<1> QED
  BY <1>1, <1>2, <1>3, TypeCorrect, PTL DEF Spec

-----------------------------------------------------------------------------
(* Running tools.                                                          *)

\* the states of a call that was begun and has no result yet
Begun ==
  {"running", "approval_required", "approved", "waiting", "retry_ready",
   "recovery_required"}

\* calls begin in order, so an exclusive call has no running call beside it
ToolOrder(t) ==
  \A x, y \in Tool : x < y /\ tool[t][y] \in Begun =>
    tool[t][x] \in SettledTool \/ {x, y} \subseteq Parallel

\* RunningToolOwned for one turn
ToolOwned(t) ==
  \A x \in Tool : tool[t][x] = "running" /\ turn[t] \notin TerminalTurn =>
    toolAttempt[t][x] \in Claims /\ ActiveAttempt(t, toolAttempt[t][x])

\* the decision on the last undecided call requeues a turn without running calls
ToolUndecided(t) ==
  \A x \in Tool : tool[t][x] = "recovery_required" =>
    turn[t] = "recovery_required" /\ \A y \in Tool : tool[t][y] # "running"

ToolInv == \A t \in Turn : ToolOrder(t) /\ ToolOwned(t) /\ ToolUndecided(t)

\* results stay, and a call is begun only when its turn has come
InOrder(t) ==
  \A y \in Tool :
    /\ tool[t][y] \in SettledTool => tool'[t][y] \in SettledTool
    /\ tool'[t][y] \in Begun => tool[t][y] \in Begun \/ MayBegin(t, y)

\* no call of the turn is started, and none becomes undecided
NoStart(t) ==
  \A y \in Tool :
    tool'[t][y] = "running" =>
      tool[t][y] = "running" /\ toolAttempt'[t][y] = toolAttempt[t][y]

NoneUndecided(t) ==
  \A y \in Tool :
    tool'[t][y] = "recovery_required" => tool[t][y] = "recovery_required"

NoneRuns(t) == \A y \in Tool : tool'[t][y] # "running"

\* the turn stays with its attempt
SameAttempt(t) ==
  /\ \/ turn'[t] = turn[t]
     \/ {turn[t], turn'[t]} \subseteq {"running", "cancel_requested"}
  /\ current'[t] = current[t]
  /\ attempt'[t] = attempt[t]

\* the turn has no attempt that could run a tool
Unattended(t) ==
  /\ turn[t] \notin TerminalTurn
  /\ turn[t] \in {"none", "queued", "waiting"} \/ current[t] = 0

\* the ways in which a step that starts no tool treats the tools of a turn
Tended(t) ==
  /\ InOrder(t)
  /\ \/ /\ NoStart(t) /\ NoneUndecided(t)
        /\ \/ SameAttempt(t)
           \/ turn[t] # "recovery_required" /\ turn'[t] \in TerminalTurn
           \/ Unattended(t)
           \/ turn[t] # "recovery_required" /\ NoneRuns(t)
     \/ turn'[t] = "recovery_required" /\ NoneRuns(t)
     \/ turn'[t] = "recovery_required" /\ NoStart(t) /\ Unattended(t)
     \/ /\ NoStart(t)
        /\ \E x \in Tool : tool[t][x] = "recovery_required"
        /\ \A x \in Tool : tool'[t][x] # "recovery_required"

\* Calls go on being begun in order
LEMMA OrderKeeps ==
  ASSUME NEW t \in Turn, ToolOrder(t), InOrder(t)
  PROVE  ToolOrder(t)'
BY Zenon DEF ToolOrder, InOrder, MayBegin

\* A step that tends to the tools of a turn keeps their invariant
LEMMA TendedKeeps ==
  ASSUME NEW t \in Turn, ToolOrder(t), ToolOwned(t), ToolUndecided(t), Tended(t)
  PROVE  ToolOrder(t)' /\ ToolOwned(t)' /\ ToolUndecided(t)'
<1>1. ToolOrder(t)'
  BY OrderKeeps, Zenon DEF Tended
<1>2. ASSUME Unattended(t)
      PROVE  \A y \in Tool : tool[t][y] \notin {"running", "recovery_required"}
  BY <1>2, BoundAssumption DEF Unattended, ToolOwned, ToolUndecided, ActiveAttempt,
         TerminalTurn, Claims
<1>3. ASSUME turn[t] # "recovery_required"
      PROVE  \A y \in Tool : tool[t][y] # "recovery_required"
  BY <1>3, Zenon DEF ToolUndecided
<1>4. CASE NoStart(t) /\ NoneUndecided(t) /\ SameAttempt(t)
  <2>1. ToolOwned(t)'
    BY <1>4, Zenon DEF NoStart, SameAttempt, ToolOwned, ActiveAttempt, TerminalTurn
  <2>2. ToolUndecided(t)'
    BY <1>3, <1>4, Zenon DEF NoStart, NoneUndecided, SameAttempt, ToolUndecided
  <2> QED
    BY <1>1, <2>1, <2>2, Zenon
<1>5. CASE /\ NoneUndecided(t)
           /\ turn[t] # "recovery_required" /\ turn'[t] \in TerminalTurn
  BY <1>1, <1>3, <1>5, Zenon DEF NoneUndecided, ToolOwned, ToolUndecided
<1>6. CASE NoStart(t) /\ NoneUndecided(t) /\ Unattended(t)
  BY <1>1, <1>2, <1>6, Zenon DEF NoStart, NoneUndecided, ToolOwned, ToolUndecided
<1>7. CASE NoneUndecided(t) /\ turn[t] # "recovery_required" /\ NoneRuns(t)
  BY <1>1, <1>3, <1>7, Zenon DEF NoneUndecided, NoneRuns, ToolOwned, ToolUndecided
<1>8. CASE turn'[t] = "recovery_required" /\ NoneRuns(t)
  BY <1>1, <1>8, Zenon DEF NoneRuns, ToolOwned, ToolUndecided
<1>9. CASE turn'[t] = "recovery_required" /\ NoStart(t) /\ Unattended(t)
  BY <1>1, <1>2, <1>9, Zenon DEF NoStart, ToolOwned, ToolUndecided
<1>10. CASE /\ NoStart(t)
            /\ \E x \in Tool : tool[t][x] = "recovery_required"
            /\ \A x \in Tool : tool'[t][x] # "recovery_required"
  BY <1>1, <1>10, Zenon DEF NoStart, ToolOwned, ToolUndecided
<1> QED
  BY <1>4, <1>5, <1>6, <1>7, <1>8, <1>9, <1>10, Zenon DEF Tended

\* A step that leaves the rows of a turn's tools alone tends to them, and so
\* does one that leaves the tools alone and keeps or ends the attempt
LEMMA TendedQuietly ==
  ASSUME NEW t \in Turn, tool'[t] = tool[t], toolAttempt'[t] = toolAttempt[t],
         \/ SameAttempt(t)
         \/ turn[t] # "recovery_required" /\ turn'[t] \in TerminalTurn
         \/ Unattended(t)
  PROVE  Tended(t)
BY Zenon DEF Tended, InOrder, NoStart, NoneUndecided

\* A call that may not run beside others is alone when it runs or may begin
LEMMA ExclusiveAlone ==
  ASSUME NEW t \in Turn, ToolOrder(t), NEW x \in Tool, x \notin Parallel,
         tool[t][x] \notin SettledTool, tool[t][x] \in Begun \/ MayBegin(t, x)
  PROVE  \A y \in Tool \ {x} : tool[t][y] # "running"
<1> SUFFICES ASSUME NEW y \in Tool \ {x}, tool[t][y] = "running"
             PROVE  FALSE
  BY Zenon
<1>1. x < y \/ y < x
  BY ToolAssumption
<1>2. tool[t][y] \notin SettledTool /\ tool[t][y] \in Begun
  BY Zenon DEF SettledTool, Begun
<1>3. CASE x < y
  BY <1>2, <1>3, Zenon DEF ToolOrder
<1>4. CASE y < x
  BY <1>2, <1>4, Zenon DEF ToolOrder, MayBegin
<1> QED
  BY <1>1, <1>3, <1>4, Zenon

\* The reset of expired leases tends to the tools of every turn
LEMMA TendedReset ==
  ASSUME TypeOK, ResetExpiredLeases, NEW u \in Turn
  PROVE  Tended(u)
<1>1. toolAttempt' = toolAttempt
  BY Zenon DEF ResetExpiredLeases, ReconcileRows
<1>2. CASE u \in Required
  <2>1. turn'[u] = "recovery_required"
    BY <1>2, Zenon DEF ResetExpiredLeases, ReconcileRows
  <2>2. tool'[u] = RecoveryTools(u)
    BY <1>2, Zenon DEF ResetExpiredLeases, ReconcileRows
  <2>3. InOrder(u) /\ NoneRuns(u)
    BY <2>2, Zenon DEF RecoveryTools, InOrder, NoneRuns, SettledTool, Begun
  <2> QED
    BY <2>1, <2>3, Zenon DEF Tended
<1>3. CASE u \in Promoted \ Required
  <2>1. turn[u] # "recovery_required"
    BY <1>3, Zenon DEF ResetExpiredLeases, Reconcilable
  <2>2. tool'[u] = RequeuedTools(u)
    BY <1>3, Zenon DEF ResetExpiredLeases, ReconcileRows
  <2>3. InOrder(u) /\ NoneRuns(u) /\ NoStart(u) /\ NoneUndecided(u)
    BY <2>2, Zenon DEF RequeuedTools, InOrder, NoneRuns, NoStart, NoneUndecided,
           SettledTool, Begun
  <2> QED
    BY <2>1, <2>3, Zenon DEF Tended
<1>4. CASE u \notin Promoted
  <2>1. u \notin Required
    BY <1>4, Zenon DEF Required
  <2>2. turn'[u] = turn[u] /\ current'[u] = current[u] /\ tool'[u] = tool[u]
    BY <1>4, <2>1, Zenon DEF ResetExpiredLeases, ReconcileRows
  <2>3. attempt'[u] = attempt[u]
    BY <1>4, <2>1, Zenon DEF ResetExpiredLeases, ReconcileRows, TypeOK, TurnRowsOK
  <2> QED
    BY <1>1, <2>2, <2>3, TendedQuietly, Zenon DEF SameAttempt
<1> QED
  BY <1>2, <1>3, <1>4, Zenon

\* Every step starts a tool for its owner or tends to the tools of every turn
LEMMA TendedNext ==
  ASSUME TypeOK, ToolInv, [Next]_vars
  PROVE  \/ \A u \in Turn : Tended(u)
         \/ \E t \in Turn, k \in Claims, x \in Tool :
              /\ BeginTool(t, k, x) \/ ResumeTool(t, k, x)
              /\ \A u \in Turn \ {t} : Tended(u)
<1> DEFINE Calm == \A u \in Turn : Tended(u)
<1> USE DEF jobVars, turnVars, controlVars, providerVars, toolVars
<1>1. ASSUME tool' = tool, toolAttempt' = toolAttempt,
             NEW t \in Turn,
             \A u \in Turn \ {t} : SameAttempt(u),
             \/ SameAttempt(t)
             \/ turn[t] # "recovery_required" /\ turn'[t] \in TerminalTurn
             \/ Unattended(t)
      PROVE  Calm
  BY <1>1, TendedQuietly, Zenon
<1>2. ASSUME tool' = tool, toolAttempt' = toolAttempt, UNCHANGED <<turn, current, attempt>>
      PROVE  Calm
  BY <1>2, TendedQuietly, Zenon DEF SameAttempt
\* a step of one turn
<1>3. ASSUME NEW t \in Turn, Tended(t),
             \A u \in Turn \ {t} : /\ tool'[u] = tool[u]
                                   /\ toolAttempt'[u] = toolAttempt[u]
                                   /\ SameAttempt(u)
      PROVE  Calm
  BY <1>3, TendedQuietly, Zenon
<1>4. ASSUME NEW t \in Turn, UserStep(t)
      PROVE  Calm
  <2>1. ASSUME NEW state \in {"pending", "ready"}, Submit(t, state)
        PROVE  Calm
    <3>1. Unattended(t) /\ \A u \in Turn \ {t} : SameAttempt(u)
      BY <2>1, Zenon DEF Submit, Unattended, SameAttempt, TerminalTurn, TypeOK,
             TurnRowsOK
    <3> QED
      BY <1>1, <2>1, <3>1, Zenon DEF Submit
  <2>2. CASE CancelQueued(t)
    <3>1. Unattended(t) /\ \A u \in Turn \ {t} : SameAttempt(u)
      BY <2>2, Zenon DEF CancelQueued, Unattended, SameAttempt, TerminalTurn,
             TypeOK, TurnRowsOK
    <3> QED
      BY <1>1, <2>2, <3>1, Zenon DEF CancelQueued
  <2>3. CASE CancelRunning(t)
    <3>1. \A u \in Turn : SameAttempt(u)
      BY <2>3, Zenon DEF CancelRunning, SameAttempt, TypeOK, TurnRowsOK
    <3> QED
      BY <1>1, <2>3, <3>1, Zenon DEF CancelRunning
  <2>4. CASE \/ \E k \in Claims, c \in Interrupt : InterruptTurn(t, k, c)
             \/ \E k \in Claims, c \in Steer : SteerTurn(t, k, c)
    BY <1>2, <2>4, Zenon DEF InterruptTurn, SteerTurn
  <2> QED
    BY <1>4, <2>1, <2>2, <2>3, <2>4, Zenon DEF UserStep
<1>5. ASSUME NEW t \in Turn, SchedulerStep(t)
      PROVE  Calm
  BY <1>2, <1>5, TendedReset, Zenon DEF SchedulerStep, NotBeforePasses,
         LeaseExpires, Claim
<1>6. ASSUME NEW t \in Turn, NEW k \in Claims, WorkerStep(t, k)
      PROVE  Calm
  <2>1. CASE StartAttempt(t, k)
    <3>1. Unattended(t) /\ \A u \in Turn \ {t} : SameAttempt(u)
      BY <2>1, Zenon DEF StartAttempt, Unattended, SameAttempt, TerminalTurn,
             TypeOK, TurnRowsOK
    <3> QED
      BY <1>1, <2>1, <3>1, Zenon DEF StartAttempt
  <2>2. ASSUME NEW outcome \in TerminalTurn, SettleRows(t, k, outcome), Owns(t, k)
        PROVE  Calm
    <3>1. /\ turn[t] # "recovery_required" /\ turn'[t] \in TerminalTurn
          /\ \A u \in Turn \ {t} : SameAttempt(u)
      BY <2>2, Zenon DEF SettleRows, Owns, SameAttempt, TypeOK, TurnRowsOK
    <3> QED
      BY <1>1, <2>2, <3>1, Zenon DEF SettleRows
  <2>3. CASE \/ SettleSucceeded(t, k)
             \/ \E outcome \in TerminalTurn \ {"succeeded"} :
                  SettleUnsuccessful(t, k, outcome)
    BY <2>2, <2>3, Zenon DEF SettleSucceeded, SettleUnsuccessful, TerminalTurn
  <2>4. CASE FailStarted(t, k)
    <3>1. turn'[t] = "recovery_required"
      BY <2>4, Zenon DEF FailStarted, ReconcileRows
    <3>2. tool'[t] = RecoveryTools(t)
      BY <2>4, Zenon DEF FailStarted, ReconcileRows
    <3>3. InOrder(t) /\ NoneRuns(t)
      BY <3>2, Zenon DEF RecoveryTools, InOrder, NoneRuns, SettledTool, Begun
    <3>4. ASSUME NEW u \in Turn \ {t}
          PROVE  /\ tool'[u] = tool[u] /\ toolAttempt'[u] = toolAttempt[u]
                 /\ turn'[u] = turn[u] /\ current'[u] = current[u]
      BY <2>4, Zenon DEF FailStarted, ReconcileRows
    <3>5. ASSUME NEW u \in Turn \ {t}
          PROVE  attempt'[u] = attempt[u]
      BY <2>4, Zenon DEF FailStarted, ReconcileRows, TypeOK, TurnRowsOK
    <3> QED
      BY <1>3, <3>1, <3>3, <3>4, <3>5, Zenon DEF Tended, SameAttempt
  <2>5. CASE FailUnstarted(t, k)
    <3>1. Unattended(t) /\ \A u \in Turn \ {t} : SameAttempt(u)
      BY <2>5, Zenon DEF FailUnstarted, Unattended, SameAttempt, TerminalTurn,
             TypeOK, TurnRowsOK
    <3> QED
      BY <1>1, <2>5, <3>1, Zenon DEF FailUnstarted
  <2>6. ASSUME NEW c \in Control, ApplyControl(t, k, c)
        PROVE  Calm
    <3>1. \A u \in Turn : SameAttempt(u)
      BY <2>6, Zenon DEF ApplyControl, Owns, SameAttempt, TypeOK, TurnRowsOK
    <3> QED
      BY <1>1, <2>6, <3>1, Zenon DEF ApplyControl
  <2>7. CASE Heartbeat(t, k)
    BY <1>2, <2>7, Zenon DEF Heartbeat
  <2> QED
    BY <1>6, <2>1, <2>3, <2>4, <2>5, <2>6, <2>7, Zenon DEF WorkerStep
<1>7. ASSUME NEW t \in Turn, NEW k \in Claims, ProviderStep(t, k)
      PROVE  Calm
  <2>1. ASSUME NEW batch \in ToolBatch(t), FinishProviderWithTools(t, k, batch)
        PROVE  Calm
    <3>1. \A x \in batch : tool[t][x] = "none"
      BY Zenon DEF ToolBatch
    <3>2. InOrder(t) /\ NoStart(t) /\ NoneUndecided(t)
      BY <2>1, <3>1, Zenon DEF FinishProviderWithTools, InOrder, NoStart,
             NoneUndecided, SettledTool, Begun, TypeOK, ToolRowsOK
    <3>3. \A u \in Turn : SameAttempt(u)
      BY <2>1, Zenon DEF FinishProviderWithTools, SameAttempt
    <3>4. \A u \in Turn \ {t} : tool'[u] = tool[u] /\ toolAttempt'[u] = toolAttempt[u]
      BY <2>1, Zenon DEF FinishProviderWithTools, TypeOK, ToolRowsOK
    <3> QED
      BY <1>3, <3>2, <3>3, <3>4, Zenon DEF Tended
  <2>2. CASE \/ BeginStep(t, k) \/ RetryProvider(t, k) \/ MarkOutput(t, k)
             \/ CheckpointProvider(t, k) \/ FinishProviderForSteer(t, k)
             \/ \E outcome \in {"retryable", "fatal", "ambiguous"} :
                  FinishProviderFailed(t, k, outcome)
    BY <1>2, <2>2, Zenon DEF BeginStep, RetryProvider, MarkOutput,
           CheckpointProvider, FinishProviderForSteer, FinishProviderFailed
  <2> QED
    BY <1>7, <2>1, <2>2, Zenon DEF ProviderStep
<1>8. ASSUME NEW t \in Turn, NEW k \in Claims, NEW x \in Tool,
             BeginTool(t, k, x) \/ ResumeTool(t, k, x)
      PROVE  \A u \in Turn \ {t} : Tended(u)
  <2>1. \A u \in Turn \ {t} : /\ tool'[u] = tool[u]
                              /\ toolAttempt'[u] = toolAttempt[u]
                              /\ SameAttempt(u)
    BY <1>8, Zenon DEF BeginTool, ResumeTool, CreateToolAttempt, SameAttempt,
           TypeOK, ToolRowsOK
  <2> QED
    BY <2>1, TendedQuietly, Zenon
<1>9. ASSUME NEW t \in Turn, NEW k \in Claims, NEW x \in Tool, ToolStep(t, k, x),
             ~(BeginTool(t, k, x) \/ ResumeTool(t, k, x))
      PROVE  Calm
  <2>1. CASE DenyTool(t, k, x)
    <3>1. InOrder(t) /\ NoStart(t) /\ NoneUndecided(t)
      BY <2>1, Zenon DEF DenyTool, InOrder, NoStart, NoneUndecided, SettledTool,
             Begun, TypeOK, ToolRowsOK
    <3>2. \A u \in Turn : SameAttempt(u)
      BY <2>1, Zenon DEF DenyTool, SameAttempt
    <3>3. \A u \in Turn \ {t} : tool'[u] = tool[u] /\ toolAttempt'[u] = toolAttempt[u]
      BY <2>1, Zenon DEF DenyTool, TypeOK, ToolRowsOK
    <3> QED
      BY <1>3, <3>1, <3>2, <3>3, Zenon DEF Tended
  <2>2. ASSUME NEW outcome \in {"succeeded", "failed", "cancelled"},
               FinishTool(t, k, x, outcome)
        PROVE  Calm
    <3>1. InOrder(t) /\ NoStart(t) /\ NoneUndecided(t)
      BY <2>2, Zenon DEF FinishTool, InOrder, NoStart, NoneUndecided, SettledTool,
             Begun, TypeOK, ToolRowsOK
    <3>2. \A u \in Turn : SameAttempt(u)
      BY <2>2, Zenon DEF FinishTool, SameAttempt
    <3>3. \A u \in Turn \ {t} : tool'[u] = tool[u] /\ toolAttempt'[u] = toolAttempt[u]
      BY <2>2, Zenon DEF FinishTool, TypeOK, ToolRowsOK
    <3> QED
      BY <1>3, <3>1, <3>2, <3>3, Zenon DEF Tended
  <2>3. CASE RequireToolRecovery(t, k, x)
    <3>1. turn'[t] = "recovery_required"
      BY <2>3, Zenon DEF RequireToolRecovery, TypeOK, TurnRowsOK
    <3>2. InOrder(t) /\ NoneRuns(t)
      BY <2>3, Zenon DEF RequireToolRecovery, InOrder, NoneRuns, SettledTool,
             Begun, TypeOK, ToolRowsOK
    <3>3. \A u \in Turn \ {t} : /\ tool'[u] = tool[u]
                                /\ toolAttempt'[u] = toolAttempt[u]
                                /\ SameAttempt(u)
      BY <2>3, Zenon DEF RequireToolRecovery, SameAttempt, TypeOK, TurnRowsOK,
             ToolRowsOK
    <3> QED
      BY <1>3, <3>1, <3>2, <3>3, Zenon DEF Tended
  <2>4. CASE SuspendForApproval(t, k, x)
    <3>1. turn[t] = "running" /\ tool[t][x] = "requested" /\ x \notin Parallel
            /\ MayBegin(t, x)
      BY <2>4, ToolAssumption, Zenon DEF SuspendForApproval
    <3>2. \A y \in Tool \ {x} : tool[t][y] # "running"
      BY <3>1, ExclusiveAlone, Zenon DEF ToolInv, SettledTool
    <3>3. InOrder(t) /\ NoneRuns(t) /\ NoStart(t) /\ NoneUndecided(t)
      BY <2>4, <3>1, <3>2, Zenon DEF SuspendForApproval, InOrder, NoneRuns, NoStart,
             NoneUndecided, SettledTool, Begun, TypeOK, ToolRowsOK
    <3>4. \A u \in Turn \ {t} : /\ tool'[u] = tool[u]
                                /\ toolAttempt'[u] = toolAttempt[u]
                                /\ SameAttempt(u)
      BY <2>4, Zenon DEF SuspendForApproval, SuspendRows, SameAttempt, TypeOK,
             TurnRowsOK, ToolRowsOK
    <3> QED
      BY <1>3, <3>1, <3>3, <3>4, Zenon DEF Tended
  <2>5. CASE DeferTool(t, k, x)
    <3>1. turn[t] = "running" /\ tool[t][x] = "running" /\ x \notin Parallel
      BY <2>5, ToolAssumption, Zenon DEF DeferTool, Deferrable
    <3>2. \A y \in Tool \ {x} : tool[t][y] # "running"
      BY <3>1, ExclusiveAlone, Zenon DEF ToolInv, SettledTool, Begun
    <3>3. InOrder(t) /\ NoneRuns(t) /\ NoStart(t) /\ NoneUndecided(t)
      BY <2>5, <3>1, <3>2, Zenon DEF DeferTool, InOrder, NoneRuns, NoStart,
             NoneUndecided, SettledTool, Begun, TypeOK, ToolRowsOK
    <3>4. \A u \in Turn \ {t} : /\ tool'[u] = tool[u]
                                /\ toolAttempt'[u] = toolAttempt[u]
                                /\ SameAttempt(u)
      BY <2>5, Zenon DEF DeferTool, SuspendRows, SameAttempt, TypeOK, TurnRowsOK,
             ToolRowsOK
    <3> QED
      BY <1>3, <3>1, <3>3, <3>4, Zenon DEF Tended
  <2> QED
    BY <1>9, <2>1, <2>2, <2>3, <2>4, <2>5, Zenon DEF ToolStep
<1>10. ASSUME NEW t \in Turn, NEW x \in Tool, OperatorStep(t, x)
       PROVE  Calm
  <2>1. CASE CancelAwaitingApproval(t, x)
    <3>1. Unattended(t)
      BY <2>1, Zenon DEF CancelAwaitingApproval, Unattended, TerminalTurn
    <3>2. InOrder(t) /\ NoStart(t) /\ NoneUndecided(t)
      BY <2>1, Zenon DEF CancelAwaitingApproval, InOrder, NoStart, NoneUndecided,
             SettledTool, Begun, TypeOK, ToolRowsOK
    <3>3. \A u \in Turn \ {t} : /\ tool'[u] = tool[u]
                                /\ toolAttempt'[u] = toolAttempt[u]
                                /\ SameAttempt(u)
      BY <2>1, Zenon DEF CancelAwaitingApproval, SameAttempt, TypeOK, TurnRowsOK,
             ToolRowsOK
    <3> QED
      BY <1>3, <3>1, <3>2, <3>3, Zenon DEF Tended
  <2>2. CASE CancelAwaitingMedia(t, x)
    <3>1. Unattended(t) /\ \A u \in Turn \ {t} : SameAttempt(u)
      BY <2>2, Zenon DEF CancelAwaitingMedia, Unattended, SameAttempt,
             TerminalTurn, TypeOK, TurnRowsOK
    <3> QED
      BY <1>1, <2>2, <3>1, Zenon DEF CancelAwaitingMedia
  <2>3. ASSUME NEW decision \in {"approved", "denied"},
               ResolveApproval(t, x, decision)
        PROVE  Calm
    <3>1. Unattended(t)
      BY <2>3, Zenon DEF ResolveApproval, WakeApprovalTurn, Unattended, TerminalTurn
    <3>2. InOrder(t) /\ NoStart(t) /\ NoneUndecided(t)
      BY <2>3, Zenon DEF ResolveApproval, InOrder, NoStart, NoneUndecided,
             SettledTool, Begun, TypeOK, ToolRowsOK
    <3>3. \A u \in Turn \ {t} : /\ tool'[u] = tool[u]
                                /\ toolAttempt'[u] = toolAttempt[u]
                                /\ SameAttempt(u)
      BY <2>3, Zenon DEF ResolveApproval, WakeApprovalTurn, SameAttempt, TypeOK,
             TurnRowsOK, ToolRowsOK
    <3> QED
      BY <1>3, <3>1, <3>2, <3>3, Zenon DEF Tended
  <2>4. ASSUME NEW state \in {"succeeded", "failed", "retry_ready"},
               ResolveRecovery(t, x, recoveryRevision[t][x], state)
        PROVE  Calm
    <3>1. tool[t][x] = "recovery_required"
      BY <2>4, Zenon DEF ResolveRecovery, Recoverable
    <3>2. InOrder(t) /\ NoStart(t) /\ NoneUndecided(t)
      BY <2>4, <3>1, Zenon DEF ResolveRecovery, InOrder, NoStart, NoneUndecided,
             SettledTool, Begun, TypeOK, ToolRowsOK
    <3>3. \A u \in Turn \ {t} : /\ tool'[u] = tool[u]
                                /\ toolAttempt'[u] = toolAttempt[u]
      BY <2>4, Zenon DEF ResolveRecovery, TypeOK, ToolRowsOK
    <3>4. \A u \in Turn \ {t} : SameAttempt(u)
      BY <2>4, Zenon DEF ResolveRecovery, RequeueIfComplete, SameAttempt, TypeOK,
             TurnRowsOK
    <3>5. CASE \E y \in Tool \ {x} : tool[t][y] = "recovery_required"
      <4>1. SameAttempt(t)
        BY <2>4, <3>5, Zenon DEF ResolveRecovery, RequeueIfComplete, SameAttempt
      <4> QED
        BY <1>3, <3>2, <3>3, <3>4, <4>1, Zenon DEF Tended
    <3>6. CASE ~\E y \in Tool \ {x} : tool[t][y] = "recovery_required"
      <4>1. \A y \in Tool : tool'[t][y] # "recovery_required"
        BY <2>4, <3>6, Zenon DEF ResolveRecovery, TypeOK, ToolRowsOK
      <4> QED
        BY <1>3, <3>1, <3>2, <3>3, <3>4, <4>1, Zenon DEF Tended
    <3> QED
      BY <3>5, <3>6, Zenon
  <2>5. CASE AbandonTurn(t, x, recoveryRevision[t][x])
    <3>1. tool[t][x] = "recovery_required"
      BY <2>5, Zenon DEF AbandonTurn, Recoverable
    <3>2. InOrder(t) /\ NoStart(t) /\ \A y \in Tool : tool'[t][y] # "recovery_required"
      BY <2>5, Zenon DEF AbandonTurn, InOrder, NoStart, SettledTool, Begun,
             TypeOK, ToolRowsOK
    <3>3. \A u \in Turn \ {t} : /\ tool'[u] = tool[u]
                                /\ toolAttempt'[u] = toolAttempt[u]
                                /\ SameAttempt(u)
      BY <2>5, Zenon DEF AbandonTurn, SameAttempt, TypeOK, TurnRowsOK, ToolRowsOK
    <3> QED
      BY <1>3, <3>1, <3>2, <3>3, Zenon DEF Tended
  <2> QED
    BY <1>10, <2>1, <2>2, <2>3, <2>4, <2>5, Zenon DEF OperatorStep
<1>11. ASSUME NEW t \in Turn, NEW x \in Tool, MediaStep(t, x)
       PROVE  Calm
  <2>1. ASSUME NEW outcome \in {"succeeded", "failed"}, SettleMedia(t, x, outcome)
        PROVE  Calm
    <3>1. Unattended(t)
      BY <2>1, Zenon DEF SettleMedia, Unattended, TerminalTurn
    <3>2. InOrder(t) /\ NoStart(t) /\ NoneUndecided(t)
      BY <2>1, Zenon DEF SettleMedia, InOrder, NoStart, NoneUndecided,
             SettledTool, Begun, TypeOK, ToolRowsOK
    <3>3. \A u \in Turn \ {t} : /\ tool'[u] = tool[u]
                                /\ toolAttempt'[u] = toolAttempt[u]
                                /\ SameAttempt(u)
      BY <2>1, Zenon DEF SettleMedia, SameAttempt, TypeOK, TurnRowsOK, ToolRowsOK
    <3> QED
      BY <1>3, <3>1, <3>2, <3>3, Zenon DEF Tended
  <2>2. CASE RequireMediaRecovery(t, x)
    <3>1. Unattended(t)
      BY <2>2, Zenon DEF RequireMediaRecovery, Unattended, TerminalTurn
    <3>2. turn'[t] = "recovery_required"
      BY <2>2, Zenon DEF RequireMediaRecovery, TypeOK, TurnRowsOK
    <3>3. InOrder(t) /\ NoStart(t)
      BY <2>2, Zenon DEF RequireMediaRecovery, InOrder, NoStart, SettledTool,
             Begun, TypeOK, ToolRowsOK
    <3>4. \A u \in Turn \ {t} : /\ tool'[u] = tool[u]
                                /\ toolAttempt'[u] = toolAttempt[u]
                                /\ SameAttempt(u)
      BY <2>2, Zenon DEF RequireMediaRecovery, SameAttempt, TypeOK, TurnRowsOK,
             ToolRowsOK
    <3> QED
      BY <1>3, <3>1, <3>2, <3>3, <3>4, Zenon DEF Tended
  <2> QED
    BY <1>11, <2>1, <2>2, Zenon DEF MediaStep
<1>12. ASSUME ClaimNothing
       PROVE  Calm
  BY <1>12, TendedReset, Zenon DEF ClaimNothing
<1>13. ASSUME NEW s \in Session, Archive(s) \/ Restore(s)
       PROVE  Calm
  BY <1>2, <1>13, Zenon DEF Archive, Restore
<1>14. ASSUME UNCHANGED vars
       PROVE  Calm
  BY <1>2, <1>14, Zenon DEF vars
<1> HIDE DEF Calm
<1>15. \/ Calm
       \/ \E t \in Turn, k \in Claims, x \in Tool :
            BeginTool(t, k, x) \/ ResumeTool(t, k, x)
  BY <1>4, <1>5, <1>6, <1>7, <1>9, <1>10, <1>11, <1>12, <1>13, <1>14, Zenon DEF Next
<1> QED
  BY <1>8, <1>15, Zenon DEF Calm

\* A tool is started by the owner of the turn, which has no undecided call
LEMMA ToolInvNext ==
  ASSUME TypeOK, ToolInv, [Next]_vars
  PROVE  ToolInv'
<1> USE DEF turnVars
<1>1. CASE \A u \in Turn : Tended(u)
  BY <1>1, TendedKeeps, Zenon DEF ToolInv
<1>2. ASSUME NEW t \in Turn, NEW k \in Claims, NEW x \in Tool,
             BeginTool(t, k, x) \/ ResumeTool(t, k, x)
      PROVE  ToolOrder(t)' /\ ToolOwned(t)' /\ ToolUndecided(t)'
  <2>1. ToolOrder(t) /\ ToolOwned(t) /\ ToolUndecided(t)
    BY Zenon DEF ToolInv
  <2>2. /\ Owns(t, k) /\ MayBegin(t, x) /\ tool[t][x] \notin SettledTool
        /\ tool' = [tool EXCEPT ![t][x] = "running"]
        /\ toolAttempt' = [toolAttempt EXCEPT ![t][x] = k]
        /\ UNCHANGED <<turn, current, attempt>>
    BY <1>2, Zenon DEF BeginTool, ResumeTool, CreateToolAttempt, SettledTool
  <2>3. InOrder(t)
    BY <2>2, Zenon DEF InOrder, TypeOK, ToolRowsOK
  <2>4. ToolOwned(t)'
    BY <2>1, <2>2, Zenon DEF ToolOwned, ActiveAttempt, Owns, TypeOK, ToolRowsOK
  <2>5. ToolUndecided(t)'
    BY <2>1, <2>2, Zenon DEF ToolUndecided, Owns, TypeOK, ToolRowsOK
  <2> QED
    BY <2>1, <2>3, <2>4, <2>5, OrderKeeps, Zenon
<1>3. ASSUME NEW t \in Turn, NEW k \in Claims, NEW x \in Tool,
             BeginTool(t, k, x) \/ ResumeTool(t, k, x),
             \A u \in Turn \ {t} : Tended(u)
      PROVE  ToolInv'
  BY <1>2, <1>3, TendedKeeps, Zenon DEF ToolInv
<1> QED
  BY <1>1, <1>3, TendedNext, Zenon

\* While a turn has not ended, a tool runs only under the attempt that owns it:
\* every way to take the turn from its attempt, a requeue, a suspension or a
\* recovery, moves the running calls on in the same transaction
THEOREM RunningToolsOwned == Spec => []RunningToolOwned
<1>1. Init => ToolInv
  BY DEF Init, ToolInv, ToolOrder, ToolOwned, ToolUndecided, Begun
<1>2. TypeOK /\ ToolInv /\ [Next]_vars => ToolInv'
  BY ToolInvNext, Zenon
<1>3. ToolInv => RunningToolOwned
  BY Zenon DEF ToolInv, ToolOwned, RunningToolOwned
<1> QED
  BY <1>1, <1>2, <1>3, TypeCorrect, PTL DEF Spec
=============================================================================
