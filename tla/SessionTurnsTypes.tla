-------------------------- MODULE SessionTurnsTypes --------------------------
(***************************************************************************)
(* Type correctness of the turn kernel, table by table.  Every other proof *)
(* about SessionTurns rests on it.                                         *)
(***************************************************************************)
EXTENDS SessionTurns, TLAPS

\* the rows reset_expired_leases_tx writes besides the jobs keep their types
LEMMA TypeReset ==
  ASSUME TypeOK, ResetExpiredLeases, UNCHANGED session
  PROVE  TurnRowsOK' /\ ControlRowsOK' /\ ProviderRowsOK' /\ ToolRowsOK'
<1>1. TurnRowsOK'
  BY BoundAssumption DEF ResetExpiredLeases, ReconcileRows, TypeOK, TurnRowsOK,
     TurnState, InputState, AttemptState, ActiveTurn, TerminalTurn, Claims
<1>2. ControlRowsOK'
  BY DEF ResetExpiredLeases, ReconcileRows, CancelControls, TypeOK,
     ControlRowsOK, ControlState
<1>3. ProviderRowsOK'
  BY DEF ResetExpiredLeases, ReconcileRows, TypeOK, ProviderRowsOK,
     InvocationState
<1>4. ToolRowsOK'
  BY DEF ResetExpiredLeases, ReconcileRows, RecoveryTools, RequeuedTools,
         TypeOK,
     ToolRowsOK, ToolState
<1> QED
  BY <1>1, <1>2, <1>3, <1>4

\* every store call keeps every row within the states of its table
LEMMA TypeNext ==
  ASSUME TypeOK, [Next]_vars
  PROVE  TypeOK'
<1> USE DEF jobVars, turnVars, controlVars, providerVars, toolVars
<1>1. ASSUME NEW t \in Turn, UserStep(t)
      PROVE  TypeOK'
  <2>1. ASSUME NEW state \in {"pending", "ready"}, Submit(t, state)
        PROVE  TypeOK'
    BY <2>1, BoundAssumption DEF Submit, TypeOK, TurnRowsOK, JobRowsOK,
           ControlRowsOK, ProviderRowsOK, ToolRowsOK, TurnState, InputState,
           AttemptState, ActiveTurn, TerminalTurn, JobState, TerminalJob,
           Claims
  <2>2. CASE CancelQueued(t)
    <3>1. TurnRowsOK'
      BY <2>2, BoundAssumption DEF CancelQueued, ReleaseJob, TypeOK,
             TurnRowsOK, TurnState, InputState, AttemptState, ActiveTurn,
             TerminalTurn, Claims
    <3>2. JobRowsOK'
      BY <2>2, BoundAssumption DEF CancelQueued, ReleaseJob, TypeOK,
             JobRowsOK, JobState, TerminalJob, Claims
    <3> QED
      BY <3>1, <3>2, <2>2 DEF CancelQueued, ReleaseJob, TypeOK, ControlRowsOK,
             ProviderRowsOK, ToolRowsOK
  <2>3. CASE CancelRunning(t)
    BY <2>3, BoundAssumption DEF CancelRunning, TypeOK, TurnRowsOK, JobRowsOK,
           ControlRowsOK, ProviderRowsOK, ToolRowsOK, TurnState, InputState,
           AttemptState, ActiveTurn, TerminalTurn, Claims
  <2>4. ASSUME NEW k \in Claims, NEW c \in Interrupt, InterruptTurn(t, k, c)
        PROVE  TypeOK'
    <3>1. ControlRowsOK'
      BY <2>4, BoundAssumption DEF InterruptTurn, IssueControl, TypeOK,
             ControlRowsOK, ControlState, SteerInputState, Control, Claims
    <3> QED
      BY <3>1, <2>4 DEF InterruptTurn, IssueControl, TypeOK, TurnRowsOK,
             JobRowsOK, ProviderRowsOK, ToolRowsOK
  <2>5. ASSUME NEW k \in Claims, NEW c \in Steer, SteerTurn(t, k, c)
        PROVE  TypeOK'
    <3>1. ControlRowsOK'
      BY <2>5, BoundAssumption DEF SteerTurn, IssueControl, TypeOK,
             ControlRowsOK, ControlState, SteerInputState, Control, Claims
    <3> QED
      BY <3>1, <2>5 DEF SteerTurn, IssueControl, TypeOK, TurnRowsOK,
             JobRowsOK, ProviderRowsOK, ToolRowsOK
  <2> QED
    BY <1>1, <2>1, <2>2, <2>3, <2>4, <2>5 DEF UserStep
<1>2. ASSUME NEW t \in Turn, SchedulerStep(t)
      PROVE  TypeOK'
  <2>1. CASE NotBeforePasses(t)
    BY <2>1, BoundAssumption DEF NotBeforePasses, TypeOK, TurnRowsOK,
           JobRowsOK, ControlRowsOK, ProviderRowsOK, ToolRowsOK, JobState,
           TerminalJob, Claims
  <2>2. CASE LeaseExpires(t)
    BY <2>2, BoundAssumption DEF LeaseExpires, TypeOK, TurnRowsOK, JobRowsOK,
           ControlRowsOK, ProviderRowsOK, ToolRowsOK, JobState, TerminalJob,
           Claims
  <2>3. CASE Claim(t)
    <3>1. JobRowsOK'
      BY <2>3, BoundAssumption DEF Claim, ResetJob, TypeOK, JobRowsOK, JobState,
         TerminalJob
    <3> QED
      BY <2>3, <3>1, TypeReset DEF Claim, TypeOK
  <2> QED
    BY <1>2, <2>1, <2>2, <2>3 DEF SchedulerStep
<1>3. ASSUME NEW t \in Turn, NEW k \in Claims, WorkerStep(t, k)
      PROVE  TypeOK'
  <2>1. CASE Heartbeat(t, k)
    BY <2>1, BoundAssumption DEF Heartbeat, TypeOK, TurnRowsOK, JobRowsOK,
           ControlRowsOK, ProviderRowsOK, ToolRowsOK, JobState, TerminalJob,
           Claims
  <2>2. CASE StartAttempt(t, k)
    <3>1. TurnRowsOK'
      BY <2>2, BoundAssumption DEF StartAttempt, RebindSteers, TypeOK,
             TurnRowsOK, TurnState, InputState, AttemptState, ActiveTurn,
             TerminalTurn, Claims
    <3>2. ControlRowsOK'
      BY <2>2, BoundAssumption DEF StartAttempt, RebindSteers, TypeOK,
             ControlRowsOK, ControlState, SteerInputState, Control, Claims
    <3> QED
      BY <3>1, <3>2, <2>2 DEF StartAttempt, RebindSteers, TypeOK, JobRowsOK,
             ProviderRowsOK, ToolRowsOK
  <2>3. CASE SettleSucceeded(t, k)
    <3>1. TurnRowsOK'
      BY <2>3, BoundAssumption DEF SettleSucceeded, SettleRows,
             CancelControls, ReleaseJob, InputOutcome, JobOutcome, TypeOK,
             TurnRowsOK, TurnState, InputState, AttemptState, ActiveTurn,
             TerminalTurn, Claims
    <3>2. JobRowsOK'
      BY <2>3, BoundAssumption DEF SettleSucceeded, SettleRows,
             CancelControls, ReleaseJob, InputOutcome, JobOutcome, TypeOK,
             JobRowsOK, JobState, TerminalJob, Claims
    <3>3. ControlRowsOK'
      BY <2>3, BoundAssumption DEF SettleSucceeded, SettleRows,
             CancelControls, ReleaseJob, InputOutcome, JobOutcome, TypeOK,
             ControlRowsOK, ControlState, SteerInputState, Control, Claims
    <3>4. ProviderRowsOK'
      BY <2>3, BoundAssumption DEF SettleSucceeded, SettleRows,
             CancelControls, ReleaseJob, InputOutcome, JobOutcome, TypeOK,
             ProviderRowsOK, InvocationState, OpenInvocation, Claims
    <3> QED
      BY <3>1, <3>2, <3>3, <3>4, <2>3 DEF SettleSucceeded, SettleRows,
             CancelControls, ReleaseJob, InputOutcome, JobOutcome, TypeOK,
             ToolRowsOK
  <2>4. ASSUME NEW outcome \in TerminalTurn \ {"succeeded"},
               SettleUnsuccessful(t, k, outcome)
        PROVE  TypeOK'
    <3>1. TurnRowsOK'
      BY <2>4, BoundAssumption DEF SettleUnsuccessful, SettleRows,
             AmbiguateOpen, CancelControls, ReleaseJob, InputOutcome,
             JobOutcome, TypeOK, TurnRowsOK, TurnState, InputState,
             AttemptState, ActiveTurn, TerminalTurn, Claims
    <3>2. JobRowsOK'
      BY <2>4, BoundAssumption DEF SettleUnsuccessful, SettleRows,
             AmbiguateOpen, CancelControls, ReleaseJob, InputOutcome,
             JobOutcome, TypeOK, JobRowsOK, JobState, TerminalJob, Claims
    <3>3. ControlRowsOK'
      BY <2>4, BoundAssumption DEF SettleUnsuccessful, SettleRows,
             AmbiguateOpen, CancelControls, ReleaseJob, InputOutcome,
             JobOutcome, TypeOK, ControlRowsOK, ControlState, SteerInputState,
             Control, Claims
    <3>4. ProviderRowsOK'
      BY <2>4, BoundAssumption DEF SettleUnsuccessful, SettleRows,
             AmbiguateOpen, CancelControls, ReleaseJob, InputOutcome,
             JobOutcome, TypeOK, ProviderRowsOK, InvocationState,
             OpenInvocation, Claims
    <3> QED
      BY <3>1, <3>2, <3>3, <3>4, <2>4 DEF SettleUnsuccessful, SettleRows,
             AmbiguateOpen, CancelControls, ReleaseJob, InputOutcome,
             JobOutcome, TypeOK, ToolRowsOK
  <2>5. CASE FailStarted(t, k)
    <3>1. TurnRowsOK'
      BY <2>5, BoundAssumption DEF FailStarted, ReconcileRows, CancelControls,
             RecoveryTools, RequeuedTools, ReleaseJob, TypeOK, TurnRowsOK,
             TurnState, InputState, AttemptState, ActiveTurn, TerminalTurn,
             Claims
    <3>2. JobRowsOK'
      BY <2>5, BoundAssumption DEF FailStarted, ReconcileRows, CancelControls,
             RecoveryTools, RequeuedTools, ReleaseJob, TypeOK, JobRowsOK,
             JobState, TerminalJob, Claims
    <3>3. ControlRowsOK'
      BY <2>5, BoundAssumption DEF FailStarted, ReconcileRows, CancelControls,
             RecoveryTools, RequeuedTools, ReleaseJob, TypeOK, ControlRowsOK,
             ControlState, SteerInputState, Control, Claims
    <3>4. ProviderRowsOK'
      BY <2>5, BoundAssumption DEF FailStarted, ReconcileRows, CancelControls,
             RecoveryTools, RequeuedTools, ReleaseJob, TypeOK, ProviderRowsOK,
             InvocationState, OpenInvocation, Claims
    <3>5. ToolRowsOK'
      BY <2>5, BoundAssumption DEF FailStarted, ReconcileRows, CancelControls,
             RecoveryTools, RequeuedTools, ReleaseJob, TypeOK, ToolRowsOK,
             ToolState, SettledTool, MediaState, Claims
    <3> QED
      BY <3>1, <3>2, <3>3, <3>4, <3>5 DEF TypeOK
  <2>6. CASE FailUnstarted(t, k)
    <3>1. TurnRowsOK'
      BY <2>6, BoundAssumption DEF FailUnstarted, ReleaseJob, TypeOK,
             TurnRowsOK, TurnState, InputState, AttemptState, ActiveTurn,
             TerminalTurn, Claims
    <3>2. JobRowsOK'
      BY <2>6, BoundAssumption DEF FailUnstarted, ReleaseJob, TypeOK,
             JobRowsOK, JobState, TerminalJob, Claims
    <3> QED
      BY <3>1, <3>2, <2>6 DEF FailUnstarted, ReleaseJob, TypeOK,
             ControlRowsOK, ProviderRowsOK, ToolRowsOK
  <2>7. ASSUME NEW c \in Control, ApplyControl(t, k, c)
        PROVE  TypeOK'
    BY <2>7, BoundAssumption DEF ApplyControl, TypeOK, TurnRowsOK, JobRowsOK,
           ControlRowsOK, ProviderRowsOK, ToolRowsOK, TurnState, InputState,
           AttemptState, ActiveTurn, TerminalTurn, ControlState,
           SteerInputState, Control, Claims
  <2> QED
    BY <1>3, <2>1, <2>2, <2>3, <2>4, <2>5, <2>6, <2>7 DEF WorkerStep
<1>4. ASSUME NEW t \in Turn, NEW k \in Claims, ProviderStep(t, k)
      PROVE  TypeOK'
  <2>1. CASE BeginStep(t, k)
    <3>1. ProviderRowsOK'
      BY <2>1, BoundAssumption DEF BeginStep, TypeOK, ProviderRowsOK,
             InvocationState, OpenInvocation, Claims
    <3> QED
      BY <3>1, <2>1 DEF BeginStep, TypeOK, TurnRowsOK, JobRowsOK,
             ControlRowsOK, ToolRowsOK
  <2>2. CASE RetryProvider(t, k)
    <3>1. ProviderRowsOK'
      BY <2>2, BoundAssumption DEF RetryProvider, MayRetry, TypeOK,
             ProviderRowsOK, InvocationState, OpenInvocation, Claims
    <3> QED
      BY <3>1, <2>2 DEF RetryProvider, MayRetry, TypeOK, TurnRowsOK,
             JobRowsOK, ControlRowsOK, ToolRowsOK
  <2>3. CASE MarkOutput(t, k)
    BY <2>3, BoundAssumption DEF MarkOutput, TypeOK, TurnRowsOK, JobRowsOK,
           ControlRowsOK, ProviderRowsOK, ToolRowsOK, InvocationState,
           OpenInvocation, Claims
  <2>4. CASE CheckpointProvider(t, k)
    BY <2>4, BoundAssumption DEF CheckpointProvider, TypeOK, TurnRowsOK,
           JobRowsOK, ControlRowsOK, ProviderRowsOK, ToolRowsOK,
           InvocationState, OpenInvocation, Claims
  <2>5. ASSUME NEW outcome \in {"retryable", "fatal", "ambiguous"},
               FinishProviderFailed(t, k, outcome)
        PROVE  TypeOK'
    BY <2>5, BoundAssumption DEF FinishProviderFailed, TypeOK, TurnRowsOK,
           JobRowsOK, ControlRowsOK, ProviderRowsOK, ToolRowsOK,
           InvocationState, OpenInvocation, Claims
  <2>6. ASSUME NEW batch \in ToolBatch(t),
               FinishProviderWithTools(t, k, batch)
        PROVE  TypeOK'
    BY <2>6, BoundAssumption, SMTT(60) DEF FinishProviderWithTools, TypeOK,
           TurnRowsOK,
           JobRowsOK, ControlRowsOK, ProviderRowsOK, ToolRowsOK,
           InvocationState, OpenInvocation, ToolState, SettledTool, MediaState,
           Claims
  <2>7. CASE FinishProviderForSteer(t, k)
    BY <2>7, BoundAssumption DEF FinishProviderForSteer, TypeOK, TurnRowsOK,
           JobRowsOK, ControlRowsOK, ProviderRowsOK, ToolRowsOK,
           InvocationState, OpenInvocation, Claims
  <2> QED
    BY <1>4, <2>1, <2>2, <2>3, <2>4, <2>5, <2>6, <2>7 DEF ProviderStep
<1>5. ASSUME NEW t \in Turn, NEW k \in Claims, NEW x \in Tool, ToolStep(t, k, x)
      PROVE  TypeOK'
  <2>1. CASE BeginTool(t, k, x)
    <3>1. ToolRowsOK'
      BY <2>1, BoundAssumption DEF BeginTool, CreateToolAttempt, TypeOK,
             ToolRowsOK, ToolState, SettledTool, MediaState, Claims
    <3> QED
      BY <3>1, <2>1 DEF BeginTool, CreateToolAttempt, TypeOK, TurnRowsOK,
             JobRowsOK, ControlRowsOK, ProviderRowsOK
  <2>2. CASE ResumeTool(t, k, x)
    <3>1. ToolRowsOK'
      BY <2>2, BoundAssumption DEF ResumeTool, CreateToolAttempt, TypeOK,
             ToolRowsOK, ToolState, SettledTool, MediaState, Claims
    <3> QED
      BY <3>1, <2>2 DEF ResumeTool, CreateToolAttempt, TypeOK, TurnRowsOK,
             JobRowsOK, ControlRowsOK, ProviderRowsOK
  <2>3. CASE DenyTool(t, k, x)
    BY <2>3, BoundAssumption DEF DenyTool, TypeOK, TurnRowsOK, JobRowsOK,
           ControlRowsOK, ProviderRowsOK, ToolRowsOK, ToolState, SettledTool,
           MediaState, Claims
  <2>4. CASE SuspendForApproval(t, k, x)
    <3>1. TurnRowsOK'
      BY <2>4, BoundAssumption DEF SuspendForApproval, SuspendRows,
             CancelControls, ReleaseJob, TypeOK, TurnRowsOK, TurnState,
             InputState, AttemptState, ActiveTurn, TerminalTurn, Claims
    <3>2. JobRowsOK'
      BY <2>4, BoundAssumption DEF SuspendForApproval, SuspendRows,
             CancelControls, ReleaseJob, TypeOK, JobRowsOK, JobState,
             TerminalJob, Claims
    <3>3. ControlRowsOK'
      BY <2>4, BoundAssumption DEF SuspendForApproval, SuspendRows,
             CancelControls, ReleaseJob, TypeOK, ControlRowsOK, ControlState,
             SteerInputState, Control, Claims
    <3>4. ToolRowsOK'
      BY <2>4, BoundAssumption DEF SuspendForApproval, SuspendRows,
             CancelControls, ReleaseJob, TypeOK, ToolRowsOK, ToolState,
             SettledTool, MediaState, Claims
    <3> QED
      BY <3>1, <3>2, <3>3, <3>4, <2>4 DEF SuspendForApproval, SuspendRows,
             CancelControls, ReleaseJob, TypeOK, ProviderRowsOK
  <2>5. ASSUME NEW outcome \in {"succeeded", "failed", "cancelled"},
               FinishTool(t, k, x, outcome)
        PROVE  TypeOK'
    BY <2>5, BoundAssumption DEF FinishTool, TypeOK, TurnRowsOK, JobRowsOK,
           ControlRowsOK, ProviderRowsOK, ToolRowsOK, ToolState, SettledTool,
           MediaState, Claims
  <2>6. CASE RequireToolRecovery(t, k, x)
    <3>1. TurnRowsOK'
      BY <2>6, BoundAssumption DEF RequireToolRecovery, AmbiguateOpen,
             CancelControls, ReleaseJob, TypeOK, TurnRowsOK, TurnState,
             InputState, AttemptState, ActiveTurn, TerminalTurn, Claims
    <3>2. JobRowsOK'
      BY <2>6, BoundAssumption DEF RequireToolRecovery, AmbiguateOpen,
             CancelControls, ReleaseJob, TypeOK, JobRowsOK, JobState,
             TerminalJob, Claims
    <3>3. ControlRowsOK'
      BY <2>6, BoundAssumption DEF RequireToolRecovery, AmbiguateOpen,
             CancelControls, ReleaseJob, TypeOK, ControlRowsOK, ControlState,
             SteerInputState, Control, Claims
    <3>4. ProviderRowsOK'
      BY <2>6, BoundAssumption DEF RequireToolRecovery, AmbiguateOpen,
             CancelControls, ReleaseJob, TypeOK, ProviderRowsOK,
             InvocationState, OpenInvocation, Claims
    <3>5. ToolRowsOK'
      BY <2>6, BoundAssumption DEF RequireToolRecovery, AmbiguateOpen,
             CancelControls, ReleaseJob, TypeOK, ToolRowsOK, ToolState,
             SettledTool, MediaState, Claims
    <3> QED
      BY <3>1, <3>2, <3>3, <3>4, <3>5 DEF TypeOK
  <2>7. CASE DeferTool(t, k, x)
    <3>1. TurnRowsOK'
      BY <2>7, BoundAssumption DEF DeferTool, Deferrable, SuspendRows,
             CancelControls, ReleaseJob, TypeOK, TurnRowsOK, TurnState,
             InputState, AttemptState, ActiveTurn, TerminalTurn, Claims
    <3>2. JobRowsOK'
      BY <2>7, BoundAssumption DEF DeferTool, Deferrable, SuspendRows,
             CancelControls, ReleaseJob, TypeOK, JobRowsOK, JobState,
             TerminalJob, Claims
    <3>3. ControlRowsOK'
      BY <2>7, BoundAssumption DEF DeferTool, Deferrable, SuspendRows,
             CancelControls, ReleaseJob, TypeOK, ControlRowsOK, ControlState,
             SteerInputState, Control, Claims
    <3>4. ToolRowsOK'
      BY <2>7, BoundAssumption DEF DeferTool, Deferrable, SuspendRows,
             CancelControls, ReleaseJob, TypeOK, ToolRowsOK, ToolState,
             SettledTool, MediaState, Claims
    <3> QED
      BY <3>1, <3>2, <3>3, <3>4, <2>7 DEF DeferTool, Deferrable, SuspendRows,
             CancelControls, ReleaseJob, TypeOK, ProviderRowsOK
  <2> QED
    BY <1>5, <2>1, <2>2, <2>3, <2>4, <2>5, <2>6, <2>7 DEF ToolStep
<1>6. ASSUME NEW t \in Turn, NEW x \in Tool, OperatorStep(t, x)
      PROVE  TypeOK'
  <2>1. CASE CancelAwaitingApproval(t, x)
    BY <2>1, BoundAssumption DEF CancelAwaitingApproval, TypeOK, TurnRowsOK,
           JobRowsOK, ControlRowsOK, ProviderRowsOK, ToolRowsOK, TurnState,
           InputState, AttemptState, ActiveTurn, TerminalTurn, JobState,
           TerminalJob, ToolState, SettledTool, MediaState, Claims
  <2>2. CASE CancelAwaitingMedia(t, x)
    BY <2>2, BoundAssumption DEF CancelAwaitingMedia, TypeOK, TurnRowsOK,
           JobRowsOK, ControlRowsOK, ProviderRowsOK, ToolRowsOK, TurnState,
           InputState, AttemptState, ActiveTurn, TerminalTurn, ToolState,
           SettledTool, MediaState, Claims
  <2>3. ASSUME NEW decision \in {"approved", "denied"},
               ResolveApproval(t, x, decision)
        PROVE  TypeOK'
    BY <2>3, BoundAssumption DEF ResolveApproval, WakeApprovalTurn, TypeOK,
           TurnRowsOK, JobRowsOK, ControlRowsOK, ProviderRowsOK, ToolRowsOK,
           TurnState, InputState, AttemptState, ActiveTurn, TerminalTurn,
           JobState, TerminalJob, ToolState, SettledTool, MediaState, Claims
  <2>4. ASSUME NEW state \in {"succeeded", "failed", "retry_ready"},
               ResolveRecovery(t, x, recoveryRevision[t][x], state)
        PROVE  TypeOK'
    <3>1. TurnRowsOK'
      <4>1. CASE \E y \in Tool \ {x} : tool[t][y] = "recovery_required"
        BY <2>4, <4>1 DEF ResolveRecovery, RequeueIfComplete, TypeOK,
           TurnRowsOK
      <4>2. CASE ~ \E y \in Tool \ {x} : tool[t][y] = "recovery_required"
        <5>1. /\ turn' = [turn EXCEPT ![t] = "queued"]
              /\ current' = [current EXCEPT ![t] = 0]
              /\ input' = [input EXCEPT ![t] = "promoted"]
              /\ UNCHANGED <<session, attempt>>
          BY <2>4, <4>2 DEF ResolveRecovery, RequeueIfComplete
        <5> QED
          BY <5>1, BoundAssumption DEF TypeOK, TurnRowsOK, TurnState, InputState
      <4> QED
        BY <4>1, <4>2
    <3>2. JobRowsOK'
      BY <2>4, BoundAssumption DEF ResolveRecovery, RequeueIfComplete,
             MayRetryTool, ReleaseJob, TypeOK, JobRowsOK, JobState,
             TerminalJob, Claims
    <3>3. ToolRowsOK'
      BY <2>4, BoundAssumption DEF ResolveRecovery, RequeueIfComplete,
             MayRetryTool, ReleaseJob, TypeOK, ToolRowsOK, ToolState,
             SettledTool, MediaState, Claims
    <3> QED
      BY <3>1, <3>2, <3>3, <2>4 DEF ResolveRecovery, RequeueIfComplete,
             MayRetryTool, ReleaseJob, TypeOK, ControlRowsOK, ProviderRowsOK
  <2>5. CASE AbandonTurn(t, x, recoveryRevision[t][x])
    <3>1. TurnRowsOK'
      BY <2>5, BoundAssumption DEF AbandonTurn, TypeOK, TurnRowsOK, TurnState,
             InputState, AttemptState, ActiveTurn, TerminalTurn, Claims
    <3>2. ToolRowsOK'
      BY <2>5, BoundAssumption DEF AbandonTurn, TypeOK, ToolRowsOK, ToolState,
             SettledTool, MediaState, Claims
    <3> QED
      BY <3>1, <3>2, <2>5 DEF AbandonTurn, TypeOK, JobRowsOK, ControlRowsOK,
             ProviderRowsOK
  <2> QED
    BY <1>6, <2>1, <2>2, <2>3, <2>4, <2>5 DEF OperatorStep
<1>7. ASSUME NEW t \in Turn, NEW x \in Tool, MediaStep(t, x)
      PROVE  TypeOK'
  <2>1. ASSUME NEW outcome \in {"succeeded", "failed"},
               SettleMedia(t, x, outcome)
        PROVE  TypeOK'
    BY <2>1, BoundAssumption DEF SettleMedia, Woken, TypeOK, TurnRowsOK,
           JobRowsOK, ControlRowsOK, ProviderRowsOK, ToolRowsOK, TurnState,
           InputState, AttemptState, ActiveTurn, TerminalTurn, JobState,
           TerminalJob, ToolState, SettledTool, MediaState, Claims
  <2>2. CASE RequireMediaRecovery(t, x)
    <3>1. TurnRowsOK'
      BY <2>2, BoundAssumption DEF RequireMediaRecovery, CancelControls,
             TypeOK, TurnRowsOK, TurnState, InputState, AttemptState,
             ActiveTurn, TerminalTurn, Claims
    <3>2. JobRowsOK'
      BY <2>2, BoundAssumption DEF RequireMediaRecovery, CancelControls,
             TypeOK, JobRowsOK, JobState, TerminalJob, Claims
    <3>3. ControlRowsOK'
      BY <2>2, BoundAssumption DEF RequireMediaRecovery, CancelControls,
             TypeOK, ControlRowsOK, ControlState, SteerInputState, Control,
             Claims
    <3>4. ToolRowsOK'
      BY <2>2, BoundAssumption DEF RequireMediaRecovery, CancelControls,
             TypeOK, ToolRowsOK, ToolState, SettledTool, MediaState, Claims
    <3> QED
      BY <3>1, <3>2, <3>3, <3>4, <2>2 DEF RequireMediaRecovery,
             CancelControls, TypeOK, ProviderRowsOK
  <2> QED
    BY <1>7, <2>1, <2>2 DEF MediaStep
<1>8. CASE ClaimNothing
  <2>1. JobRowsOK'
    BY <1>8, BoundAssumption DEF ClaimNothing, ResetJob, TypeOK, JobRowsOK,
       JobState, TerminalJob
  <2> QED
    BY <1>8, <2>1, TypeReset DEF ClaimNothing, TypeOK
<1>9. CASE \E s \in Session : Archive(s) \/ Restore(s)
  BY <1>9 DEF Archive, Restore, TypeOK, TurnRowsOK, JobRowsOK, ControlRowsOK,
         ProviderRowsOK, ToolRowsOK
<1>10. CASE UNCHANGED vars
  BY <1>10 DEF vars, TypeOK, TurnRowsOK, JobRowsOK, ControlRowsOK,
         ProviderRowsOK, ToolRowsOK
<1> QED
  BY <1>1, <1>2, <1>3, <1>4, <1>5, <1>6, <1>7, <1>8, <1>9, <1>10 DEF Next

\* Every row of every table is always in a state its table knows
THEOREM TypeCorrect == Spec => []TypeOK
<1>1. Init => TypeOK
  BY BoundAssumption DEF Init, TypeOK, TurnRowsOK, JobRowsOK, ControlRowsOK,
     ProviderRowsOK, ToolRowsOK, TurnState, InputState, JobState, AttemptState,
     ControlState, SteerInputState, InvocationState, ToolState, MediaState
<1>2. TypeOK /\ [Next]_vars => TypeOK'
  BY TypeNext
<1> QED
  BY <1>1, <1>2, PTL DEF Spec
=============================================================================
