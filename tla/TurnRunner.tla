----------------------------- MODULE TurnRunner -----------------------------
(***************************************************************************)
(* The program that executes a claimed session turn, composed with the     *)
(* store it calls: the session.turn job handler, executeAgentTurn, the     *)
(* safe points that read run controls, the provider call, the tool batch,  *)
(* and the abort signal that cancellation, interruption, a lost lease, a   *)
(* timeout and a shutdown raise.                                           *)
(*                                                                         *)
(* run[t][k] is the program counter and the locals of the execution of     *)
(* turn t under lease k.  It does nothing while it awaits a store call, so *)
(* a call, its transaction and its answer are one step; users, operators,  *)
(* the clock and other workers act between any two of them.                *)
(***************************************************************************)
EXTENDS SessionTurns

CONSTANTS
  MaxRequests, \* bound: cancellations, interrupts and steers together
  MaxFaults    \* bound: store calls without an answer, preparations that fail,
               \* malformed responses, stalls past the end of the lease, job
               \* timeouts, shutdowns and crashes, together

ASSUME FaultAssumption == MaxFaults \in Nat /\ MaxRequests \in Nat

VARIABLES
  run,        \* the execution of a turn under a lease
  reply,      \* tool calls of the turn's last durable response, {} for a final one
  results,    \* the turns whose last response has its tool message
  promoted,   \* the turns with a steer message after their last response
  sent,       \* the steers in the request of the turn's last invocation
  asked,      \* the attempts the cancellation of their turn is signalled to
  faults      \* faults so far

messages == <<reply, results, promoted, sent>>
runnerVars == <<vars, run, messages, asked, faults>>

AbortKind == {"cancel", "interrupt", "lease_lost", "timeout", "host_shutdown"}

\* the handler is not running
Absent == [pc |-> "gone", at |-> 0, ready |-> FALSE, calls |-> {}, batch |-> "new",
           begun |-> {}, done |-> {}, abort |-> "none", after |-> "gone",
           steer |-> FALSE, list |-> {}, steered |-> FALSE, why |-> "error",
           level |-> "turn", told |-> FALSE, cut |-> FALSE]

RunnerInit ==
  /\ Init
  /\ run = [t \in Turn |-> [k \in Claims |-> Absent]]
  /\ reply = [t \in Turn |-> {}]
  /\ results = {}
  /\ promoted = {}
  /\ sent = [t \in Turn |-> {}]
  /\ asked = {}
  /\ faults = 0

-----------------------------------------------------------------------------
(* Control flow shared by the steps.                                       *)

Fault == faults < MaxFaults /\ faults' = faults + 1

Set(t, k, r) == run' = [run EXCEPT ![t][k] = r]

At(t, k, pc) == run[t][k].pc = pc

Goto(r, pc) == [r EXCEPT !.pc = pc]

\* the execution is over: only what it was told is of interest
Gone(r) == [Absent EXCEPT !.told = r.told]

\* the execution ended without telling the store
Cut(r) == [r EXCEPT !.cut = TRUE]

\* an error thrown inside executeAgentTurn goes to its catch block, one thrown
\* there to the job handler's, and one thrown there to the worker
Raise(r, why) ==
  LET outer == CASE r.level = "turn" -> "catch"
                 [] r.level = "catch" -> "handler"
                 [] r.level = "handler" -> "fail"
  IN [Absent EXCEPT !.pc = outer, !.level = outer, !.why = why,
                    !.abort = r.abort, !.told = r.told]

\* the registration of an execution aborts its signal once: the first reason stays
Aborted(r, kind) == [r EXCEPT !.abort = IF @ = "none" THEN kind ELSE @]

\* drainTurnControls, called at a safe point
Drain(r, steer, after) ==
  [r EXCEPT !.pc = "drain", !.steer = steer, !.after = after, !.steered = FALSE]

Continue(r) == [r EXCEPT !.pc = r.after, !.list = {}, !.after = "gone",
                         !.steer = FALSE, !.steered = @ /\ r.after = "steered"]

\* a store call changes rows and is answered, changes them and the answer is
\* lost, is lost itself, or is rejected; ok and err are what follows
Call(t, k, A, ok, err) ==
  \/ A /\ Set(t, k, ok) /\ UNCHANGED <<asked, faults>>
  \/ Fault /\ A /\ Set(t, k, err) /\ UNCHANGED asked
  \/ Fault /\ Set(t, k, err) /\ UNCHANGED <<vars, messages, asked>>
  \/ ~ENABLED A /\ Set(t, k, err) /\ UNCHANGED <<vars, messages, asked, faults>>

\* a call that writes no message
Rows(A) == A /\ UNCHANGED messages

\* a read of the store; what it returns may be stale at the next step
Read(t, k, ok, err) ==
  /\ \/ Set(t, k, ok) /\ UNCHANGED faults
     \/ Fault /\ Set(t, k, err)
  /\ UNCHANGED <<vars, messages, asked>>

\* a step that calls nobody
Local(t, k, r) ==
  Set(t, k, r) /\ UNCHANGED <<vars, messages, asked, faults>>

-----------------------------------------------------------------------------
(* The job handler: claim, start, prepare, and what follows an error.      *)

\* WanexJobWorker.runOnce: the claimed job is registered and handed over
Take(t) ==
  /\ Rows(Claim(t))
  /\ Set(t, claims[t] + 1, [Absent EXCEPT !.pc = "start"])
  /\ UNCHANGED <<asked, faults>>

\* startTurnAttempt, outside the handler's try
Start(t, k) ==
  /\ At(t, k, "start")
  /\ Call(t, k, Rows(StartAttempt(t, k)), Goto(run[t][k], "prepare"),
          Goto(run[t][k], "fail"))

\* inputs, context and provider are resolved, or one of them cannot be
Prepare(t, k) ==
  /\ At(t, k, "prepare")
  /\ Read(t, k, Goto(run[t][k], "checkpoint"),
          [Goto(run[t][k], "handler") EXCEPT !.level = "handler"])

\* the handler's catch: nothing is published for a lost lease or a shutdown
HandlerCatch(t, k) ==
  LET r == run[t][k]
  IN /\ At(t, k, "handler")
     /\ Local(t, k, IF r.abort \in {"lease_lost", "host_shutdown"}
                      THEN Goto(r, "fail")
                      ELSE [Goto(r, "settle") EXCEPT !.why = "failed"])

\* settle_session_turn_tx answers a repeated settlement without a change
Settlement(t, k, outcome) ==
  \/ Rows(SettleUnsuccessful(t, k, outcome))
  \/ attempt[t][k] = outcome /\ UNCHANGED <<vars, messages>>

\* settleTurn, called with the outcome in why
SettleTurn(t, k) ==
  LET r == run[t][k]
  IN /\ At(t, k, "settle")
     /\ Call(t, k, Settlement(t, k, r.why), Gone(r), Raise(r, "error"))

\* WanexJobWorker.fail: whatever it answers, the worker drops the job
FailJob(t, k) ==
  LET fail == Rows(FailStarted(t, k) \/ FailUnstarted(t, k))
      gone == Gone(run[t][k])
  IN /\ At(t, k, "fail")
     /\ \/ fail /\ Set(t, k, gone) /\ UNCHANGED <<asked, faults>>
        \/ Fault /\ Set(t, k, Cut(gone)) /\ UNCHANGED <<vars, messages, asked>>
        \/ ~ENABLED fail /\ Local(t, k, gone)

\* wrong variant of Catch: a lost lease or a shutdown is left to the lease
CatchSilently(t, k) ==
  LET r == run[t][k]
  IN /\ At(t, k, "catch")
     /\ CASE r.abort \in {"lease_lost", "host_shutdown"} -> Local(t, k, Gone(r))
          [] r.abort \in {"cancel", "interrupt"} ->
               Local(t, k, Drain(r, FALSE, "unmatched"))
          [] OTHER -> Local(t, k, [Goto(r, "settle") EXCEPT !.why = "recovery_required"])

\* wrong variant of Catch: every abort is published as a cancellation
CatchAsCancelled(t, k) ==
  LET r == run[t][k]
  IN /\ At(t, k, "catch")
     /\ Local(t, k, [Goto(r, "settle") EXCEPT
                       !.why = IF r.abort = "none" THEN "recovery_required"
                                                   ELSE "cancelled"])

\* the catch block of executeAgentTurn
Catch(t, k) ==
  LET r == run[t][k]
      open == /\ provider[t] \in OpenInvocation \cup {"output_ready"}
              /\ sender[t] = k
      unknown == r.why \in {"evidence", "ambiguous"} \/ open
  IN /\ At(t, k, "catch")
     /\ CASE r.abort \in {"lease_lost", "host_shutdown"} ->
               Local(t, k, Goto(r, "fail"))
          [] r.abort \in {"cancel", "interrupt"} ->
               Local(t, k, Drain(r, FALSE, "unmatched"))
          [] OTHER ->
               Read(t, k, [Goto(r, "settle") EXCEPT
                             !.why = IF unknown THEN "recovery_required" ELSE "failed"],
                    Raise(r, "error"))

\* the abort has no matching durable turn control
Unmatched(t, k) ==
  /\ At(t, k, "unmatched")
  /\ Local(t, k, [Goto(run[t][k], "settle") EXCEPT !.why = "recovery_required"])

-----------------------------------------------------------------------------
(* Safe points.                                                            *)

\* wrong variant of DrainCancel: the cancellation is published as an unknown end
DrainCancelUnknown(t, k) ==
  LET r == run[t][k]
  IN /\ At(t, k, "drain")
     /\ Read(t, k,
             IF turn[t] = "cancel_requested"
               THEN [Goto(r, "settle") EXCEPT !.why = "recovery_required", !.told = TRUE]
               ELSE Goto(r, "controls"),
             Raise(r, "error"))

\* drainTurnControls first looks for a cancellation
DrainCancel(t, k) ==
  LET r == run[t][k]
  IN /\ At(t, k, "drain")
     /\ Read(t, k,
             IF turn[t] = "cancel_requested"
               THEN [Goto(r, "settle") EXCEPT !.why = "cancelled", !.told = TRUE]
               ELSE Goto(r, "controls"),
             Raise(r, "error"))

\* then for an interrupt, and where steers are taken, for those
DrainControls(t, k) ==
  LET r == run[t][k]
      pending == PendingControl(t, k)
      taken == IF pending \cap Interrupt # {} THEN pending \cap Interrupt
               ELSE IF r.steer THEN pending ELSE {}
  IN /\ At(t, k, "controls")
     /\ Read(t, k, IF taken = {} THEN Continue(r)
                                 ELSE [Goto(r, "apply") EXCEPT !.list = taken],
             Raise(r, "error"))

\* applyTurnControl; a steer becomes a user message of the session
Apply(t, k, c) ==
  LET r == run[t][k]
      rest == [r EXCEPT !.list = @ \ {c}, !.steered = TRUE]
  IN /\ At(t, k, "apply")
     /\ c \in r.list
     /\ Call(t, k,
             /\ ApplyControl(t, k, c)
             /\ promoted' = IF c \in Steer THEN promoted \cup {t} ELSE promoted
             /\ UNCHANGED <<reply, results, sent>>,
             CASE c \in Interrupt ->
                    [Goto(r, "settle") EXCEPT !.why = "interrupted", !.told = TRUE]
               [] rest.list # {} -> rest
               [] OTHER -> Continue(rest),
             Raise(r, "error"))

\* request.heartbeat, and where the code checks the signal, the check
Beat(t, k, ok, checked) ==
  LET r == run[t][k]
      lost == Aborted(r, "lease_lost")
  IN Call(t, k, Rows(Heartbeat(t, k)),
          IF checked /\ r.abort # "none" THEN Raise(r, "error") ELSE ok,
          Raise(lost, "error"))

-----------------------------------------------------------------------------
(* The loop of executeAgentTurn, up to the provider's response.            *)

\* isPendingToolBatchSettled
BatchSettled(t) == \A x \in reply[t] : tool[t][x] \in {"succeeded", "failed"}

\* wrong variant of Checkpoint: the tool calls of the response are forgotten
CheckpointNextStep(t, k) ==
  LET r == run[t][k]
      ready == provider[t] = "output_ready"
      again == provider[t] \in {"retryable", "fatal", "output_ready"}
  IN [Goto(r, "beat") EXCEPT !.at = IF again THEN step[t] ELSE step[t] + 1,
                             !.ready = ready]

\* wrong variant of Checkpoint: a steer that is promoted does not count
CheckpointPendingOnly(t, k) ==
  LET r == run[t][k]
      resume(n, ready) == [Goto(r, "beat") EXCEPT !.at = n, !.ready = ready]
  IN CASE provider[t] = "none" -> resume(1, FALSE)
       [] provider[t] \in {"retryable", "fatal"} -> resume(step[t], FALSE)
       [] provider[t] = "output_ready" -> resume(step[t], TRUE)
       [] provider[t] = "succeeded" /\ PendingControl(t, k) \cap Steer # {} ->
            resume(step[t] + 1, FALSE)
       [] OTHER -> Raise(r, "evidence")

\* recoveryCheckpoint: where a fresh attempt takes over the turn
Checkpoint(t, k) ==
  LET r == run[t][k]
      resume(n, ready) == [Goto(r, "beat") EXCEPT !.at = n, !.ready = ready]
      batch == [r EXCEPT !.at = step[t], !.calls = reply[t]]
  IN CASE provider[t] = "none" -> resume(1, FALSE)
       [] provider[t] \in {"retryable", "fatal"} -> resume(step[t], FALSE)
       [] provider[t] = "output_ready" -> resume(step[t], TRUE)
       [] provider[t] = "succeeded" /\ reply[t] = {} /\
            (t \in promoted \/ PendingControl(t, k) \cap Steer # {}) ->
            resume(step[t] + 1, FALSE)
       [] provider[t] = "succeeded" /\ reply[t] # {} /\ t \in results ->
            resume(step[t] + 1, FALSE)
       [] provider[t] = "succeeded" /\ reply[t] # {} /\ t \notin results ->
            IF BatchSettled(t) THEN [Goto(batch, "resume") EXCEPT !.batch = "restored"]
                               ELSE Drain([batch EXCEPT !.batch = "resumed"],
                                          FALSE, "resume")
       [] OTHER -> Raise(r, "evidence")

ReadCheckpoint(t, k) ==
  /\ At(t, k, "checkpoint")
  /\ Read(t, k, Checkpoint(t, k), Raise(run[t][k], "error"))

\* resumeToolBatch, before it runs the batch
Resume(t, k) ==
  /\ At(t, k, "resume")
  /\ Beat(t, k, Goto(run[t][k], "tools"), TRUE)

\* the head of the loop; a steer must not come between a response and its use
LoopHead(t, k) ==
  LET r == run[t][k]
  IN /\ At(t, k, "beat")
     /\ IF r.at > MaxSteps
          THEN Local(t, k, Raise(r, "error"))
          ELSE Beat(t, k, Drain(r, ~r.ready, "provider"), TRUE)

AppliedSteers(t) ==
  {c \in Steer : control[c] = "applied" /\ controlTurn[c] = t}

\* runProviderCompletion, before it dispatches: a checkpointed response is used
\* as it is, and a retry must send the request that failed
ReadInvocations(t, k) ==
  LET r == run[t][k]
      same == step[t] = r.at
      failed == same /\ provider[t] \in {"retryable", "fatal"}
  IN /\ At(t, k, "provider")
     /\ Read(t, k,
             CASE same /\ provider[t] = "output_ready" ->
                    [Goto(r, "answered") EXCEPT !.calls = reply[t]]
               [] failed /\ (sent[t] # AppliedSteers(t)
                               \/ number[t] >= ProviderMaxAttempts) ->
                    Raise(r, "evidence")
               [] OTHER -> Goto(r, "begin"),
             Raise(r, "error"))

\* beginProviderInvocation
Begin(t, k) ==
  LET r == run[t][k]
      begin == /\ IF step[t] = r.at THEN RetryProvider(t, k) ELSE BeginStep(t, k)
               /\ sent' = [sent EXCEPT ![t] = AppliedSteers(t)]
               /\ UNCHANGED <<reply, results, promoted>>
  IN /\ At(t, k, "begin")
     /\ Call(t, k, begin, Goto(r, "call"), Raise(r, "error"))

\* the first output event is journaled before it is used; a stream whose
\* journaling failed has failed after output
Output(t, k) ==
  LET r == run[t][k]
  IN /\ At(t, k, "call")
     /\ r.why = "error"
     /\ Call(t, k, Rows(MarkOutput(t, k)), [r EXCEPT !.why = "observed"],
             [Goto(r, "failed") EXCEPT !.why = "ambiguous"])

\* the stream fails, or the signal aborts it; an error after output is never
\* retried, and an abort never is
StreamFails(t, k, why) ==
  LET r == run[t][k]
  IN /\ At(t, k, "call")
     /\ why = "ambiguous" <=> r.why = "observed"
     /\ why = "retryable" => r.abort = "none"
     /\ Local(t, k, [Goto(r, "failed") EXCEPT !.why = why])

\* finishProviderInvocation of a failure, and the retry loop around it
FinishFailed(t, k) ==
  LET r == run[t][k]
      again == r.why = "retryable" /\ number[t] < ProviderMaxAttempts
      class == IF r.why = "ambiguous" THEN "ambiguous" ELSE "error"
  IN /\ At(t, k, "failed")
     /\ Call(t, k, Rows(FinishProviderFailed(t, k, r.why)),
             IF again THEN [Goto(r, "begin") EXCEPT !.why = "error"]
                      ELSE Raise(r, class),
             Raise(r, "error"))

\* the stream ends with a response; images are stored with a checkpoint of it
Respond(t, k, calls, images) ==
  LET r == [run[t][k] EXCEPT !.calls = calls, !.why = "error"]
  IN /\ At(t, k, "call")
     /\ calls # {} \/ images => run[t][k].why = "observed"
     /\ IF images /\ r.abort # "none"
          THEN Local(t, k, Raise(r, "error"))
          ELSE Local(t, k, Goto(r, IF images THEN "images" ELSE "answered"))

\* checkpointProviderInvocation
CheckpointImages(t, k) ==
  LET r == run[t][k]
  IN /\ At(t, k, "images")
     /\ Call(t, k,
             /\ CheckpointProvider(t, k)
             /\ reply' = [reply EXCEPT ![t] = r.calls]
             /\ results' = results \ {t}
             /\ UNCHANGED <<promoted, sent>>,
             Goto(r, "answered"), Raise(r, "error"))

\* the safe point after the provider
Answered(t, k) ==
  /\ At(t, k, "answered")
  /\ Beat(t, k, Drain(run[t][k], FALSE, "response"), TRUE)

-----------------------------------------------------------------------------
(* The provider's response.                                                *)

\* a response whose finish reason and tool calls disagree is refused
Response(t, k) ==
  LET r == run[t][k]
  IN /\ At(t, k, "response")
     /\ \/ Local(t, k, Goto(r, IF r.calls = {} THEN "final" ELSE "publish"))
        \/ /\ Fault
           /\ Set(t, k, Raise(r, IF r.calls = {} THEN "error" ELSE "ambiguous"))
           /\ UNCHANGED <<vars, messages, asked>>

\* hasPendingSteer, before and after the settlement of a final response
HasSteer(t, k) ==
  LET r == run[t][k]
      steers == PendingControl(t, k) \cap Steer # {}
  IN /\ r.pc \in {"final", "refused"}
     /\ Read(t, k, CASE steers -> Goto(r, "steer")
                     [] ~steers /\ r.pc = "final" -> Goto(r, "succeed")
                     [] OTHER -> Raise(r, "error"),
             Raise(r, "error"))

\* wrong variant of Succeed: a refused settlement is tried again
SucceedAgain(t, k) ==
  LET r == run[t][k]
  IN /\ At(t, k, "succeed")
     /\ Call(t, k, Rows(SettleSucceeded(t, k)), Gone(r), Drain(r, FALSE, "final"))

\* settleTurn succeeded; the store refuses while a control is pending, so a
\* refusal goes to a safe point
Succeed(t, k) ==
  LET r == run[t][k]
  IN /\ At(t, k, "succeed")
     /\ Call(t, k, Rows(SettleSucceeded(t, k)), Gone(r),
             Drain(r, FALSE, "refused"))

\* the response becomes an assistant message
Published(t, calls) ==
  /\ reply' = [reply EXCEPT ![t] = calls]
  /\ results' = results \ {t}
  /\ promoted' = promoted \ {t}
  /\ UNCHANGED sent

\* checkpointFinalProviderForSteer
FinishForSteer(t, k) ==
  LET r == run[t][k]
  IN /\ At(t, k, "steer")
     /\ Call(t, k, FinishProviderForSteer(t, k) /\ Published(t, {}),
             Drain(r, TRUE, "steered"), Raise(r, "error"))

Steered(t, k) ==
  LET r == run[t][k]
  IN /\ At(t, k, "steered")
     /\ Local(t, k, IF r.steered
                      THEN [Goto(r, "beat") EXCEPT !.at = @ + 1, !.ready = FALSE,
                                                   !.steered = FALSE]
                      ELSE Raise(r, "evidence"))

\* finishProviderInvocation of a response with tool calls
Publish(t, k) ==
  LET r == run[t][k]
  IN /\ At(t, k, "publish")
     /\ Call(t, k, FinishProviderWithTools(t, k, r.calls) /\ Published(t, r.calls),
             Goto([r EXCEPT !.batch = "new"], "batch"), Raise(r, "error"))

\* the safe point before the tools
BeforeTools(t, k) ==
  /\ At(t, k, "batch")
  /\ Beat(t, k, Drain(run[t][k], FALSE, "tools"), FALSE)

-----------------------------------------------------------------------------
(* Tool batches.                                                           *)

\* the calls runToolBatch starts with x: x, and when it is parallel_safe the
\* run of parallel_safe calls around it
Group(calls, x) ==
  {x} \cup {y \in calls \cap Parallel :
              \A z \in calls : (x <= z /\ z <= y) \/ (y <= z /\ z <= x)
                                 => z \in Parallel}

\* the first call that has no outcome in this batch
First(r) == CHOOSE x \in r.calls \ r.done : \A y \in r.calls \ r.done : x <= y

\* begin_tool_execution of a call that is settled returns its result
ReuseTool(t, k, x) ==
  /\ Owns(t, k)
  /\ tool[t][x] \in {"succeeded", "failed", "denied"}
  /\ UNCHANGED vars

\* prepareExecution looks at the signal, unless the batch is only restored
Stopped(r, group) ==
  r.abort # "none" /\ r.batch # "restored" /\ group \cap r.begun = {}

\* wrong variant of BeginCall: an aborted call gets a result and no execution
BeginCallSkips(t, k, x) ==
  LET r == run[t][k]
      begun == [r EXCEPT !.begun = @ \cup {x}]
  IN /\ At(t, k, "tools")
     /\ r.why = "error"
     /\ x \in r.calls \ r.begun
     /\ IF r.abort # "none"
          THEN Local(t, k, [begun EXCEPT !.done = @ \cup {x}])
          ELSE Call(t, k, Rows(BeginTool(t, k, x) \/ ResumeTool(t, k, x)), begun,
                    Raise(r, "error"))

\* prepareCall and beginPreparedExecution: every call of a group is begun
\* before the first of them runs
BeginCall(t, k, x) ==
  LET r == run[t][k]
      begun == [r EXCEPT !.begun = @ \cup {x}]
      settled == [begun EXCEPT !.done = @ \cup {x}]
      begin(A, ok) == Call(t, k, Rows(A), ok, Raise(r, "error"))
      group == Group(r.calls, First(r))
  IN /\ At(t, k, "tools")
     /\ r.why = "error"
     /\ r.calls # r.done
     /\ x \in group \ r.begun
     /\ r.begun \ r.done \subseteq group
     /\ IF Stopped(r, group)
          THEN Local(t, k, Raise(r, "error"))
          ELSE CASE tool[t][x] = "requested" /\ x \in Approval ->
                      \/ begin(SuspendForApproval(t, k, x), Gone(r))
                      \/ begin(DenyTool(t, k, x), settled)
                 [] tool[t][x] = "requested" /\ x \notin Approval ->
                      \/ begin(BeginTool(t, k, x), begun)
                      \/ begin(DenyTool(t, k, x), settled)
                 [] tool[t][x] \in {"retry_ready", "approved"} ->
                      begin(ResumeTool(t, k, x), begun)
                 [] OTHER -> begin(ReuseTool(t, k, x), settled)

\* the call returned; the store is asked once more when its answer is lost,
\* and a rejection is an error that the batch reports when its group is done
Outcome(t, k, x, A, why) ==
  LET r == run[t][k]
      over(w) == [r EXCEPT !.done = @ \cup {x},
                           !.why = IF w = "stop" \/ @ = "error" THEN w ELSE @]
  IN /\ At(t, k, "tools")
     /\ x \in r.begun \ r.done
     /\ Group(r.calls, x) \subseteq r.begun
     /\ \/ Rows(A) /\ Set(t, k, over(why)) /\ UNCHANGED <<asked, faults>>
        \/ Fault /\ Rows(A) /\ UNCHANGED <<run, asked>>
        \/ Fault /\ UNCHANGED <<vars, messages, run, asked>>
        \/ /\ ~ENABLED A
           /\ Set(t, k, over("lost"))
           /\ UNCHANGED <<vars, messages, asked, faults>>

\* executePrepared: the result is recorded, an aborted or late one as cancelled
FinishCall(t, k, x, outcome) == Outcome(t, k, x, FinishTool(t, k, x, outcome), "error")

\* executePrepared: the tool cannot say what it did
AmbiguousCall(t, k, x) == Outcome(t, k, x, RequireToolRecovery(t, k, x), "stop")

\* executePrepared: the turn is to wait for the media generation; a refusal is
\* recorded as the failure of the call
DeferCall(t, k, x) ==
  /\ x \in Deferred
  /\ ENABLED DeferTool(t, k, x)
  /\ Outcome(t, k, x, DeferTool(t, k, x), "stop")

\* the end of a group: a suspension or a recovery was recorded durably, an
\* error is thrown, and after the last group the results are persisted
EndBatch(t, k) ==
  LET r == run[t][k]
  IN /\ At(t, k, "tools")
     /\ r.begun \subseteq r.done
     /\ r.why # "error" \/ r.done = r.calls
     /\ CASE r.why = "stop" -> Local(t, k, Gone(r))
          [] r.why = "lost" -> Local(t, k, Raise(r, "error"))
          [] OTHER -> Local(t, k, [Goto(r, IF r.batch = "new" THEN "results"
                                                             ELSE "append")
                                     EXCEPT !.begun = {}, !.done = {}])

AfterTools(t, k) ==
  /\ At(t, k, "results")
  /\ Beat(t, k, Goto(run[t][k], "append"), FALSE)

\* appendMessage of the results, and the safe point after the tools
Append(t, k) ==
  LET r == run[t][k]
      append == /\ Owns(t, k)
                /\ results' = results \cup {t}
                /\ UNCHANGED <<vars, reply, promoted, sent>>
  IN /\ At(t, k, "append")
     /\ Call(t, k, append,
             Drain([r EXCEPT !.at = @ + 1, !.ready = FALSE, !.calls = {},
                             !.batch = "new"], TRUE, "beat"),
             Raise(r, "error"))

-----------------------------------------------------------------------------
(* The abort signal, faults, and everyone else.                            *)

Live(t, k) == run[t][k].pc # "gone"

\* the host's registry, the event observer, the background heartbeat, the job
\* timeout and the host's stop each abort the signal in their own time
Abort(t, k, kind) ==
  /\ Live(t, k)
  /\ run[t][k].abort = "none"
  /\ CASE kind = "cancel" -> <<t, k>> \in asked
       [] kind = "interrupt" ->
            \E c \in Interrupt : controlTurn[c] = t /\ controlAttempt[c] = k
       [] kind = "lease_lost" -> job[t] # "running" \/ lease[t] # k
       [] OTHER -> faults < MaxFaults
  /\ Set(t, k, Aborted(run[t][k], kind))
  /\ faults' = IF kind \in {"timeout", "host_shutdown"} THEN faults + 1 ELSE faults
  /\ UNCHANGED <<vars, messages, asked>>

\* the worker process dies
Crash(t, k) ==
  /\ Live(t, k)
  /\ Fault
  /\ Set(t, k, Cut(Absent))
  /\ UNCHANGED <<vars, messages, asked>>

\* users have requests left
MayRequest ==
  Cardinality(asked) + Cardinality({c \in Control : control[c] # "none"})
    < MaxRequests

\* wrong variant of Cancel: the signal goes out before the durable request
CancelSignalsFirst(t) ==
  /\ turn[t] \in {"running", "cancel_requested"}
  /\ asked' = asked \cup {<<t, current[t]>>}
  /\ \/ CancelRunning(t)
     \/ UNCHANGED vars
  /\ UNCHANGED <<run, messages, faults>>

\* requestSessionTurnCancel: after the durable request the attempt that runs,
\* or the one that will settle the waiting turn, is signalled
Cancel(t) ==
  /\ MayRequest
  /\ \/ CancelQueued(t) /\ asked' = asked \cup {<<t, 0>>}
     \/ CancelRunning(t) /\ asked' = asked \cup {<<t, current[t]>>}
     \/ /\ \E x \in Tool : CancelAwaitingApproval(t, x) \/ CancelAwaitingMedia(t, x)
        /\ asked' = asked \cup {<<t, claims[t] + 1>>}
  /\ UNCHANGED <<run, messages, faults>>

\* an operator decides a recovery, long after the signals of a cancellation that
\* the turn did not survive were delivered
Recover(t) ==
  /\ \E x \in Tool, state \in {"succeeded", "failed", "retry_ready"} :
       ResolveRecovery(t, x, recoveryRevision[t][x], state)
  /\ asked' = {a \in asked : a[1] # t}
  /\ UNCHANGED <<run, messages, faults>>

\* the clock passes the end of a lease: its worker has stalled, or is gone
Expire(t) ==
  /\ LeaseExpires(t)
  /\ t \notin lapsed
  /\ IF \E k \in Claims : lease[t] = k /\ Live(t, k) THEN Fault ELSE UNCHANGED faults
  /\ UNCHANGED <<run, messages, asked>>

Request(t, k) ==
  /\ MayRequest
  /\ \/ \E c \in Interrupt : InterruptTurn(t, k, c)
     \/ \E c \in Steer : SteerTurn(t, k, c)
  /\ UNCHANGED <<run, messages, asked, faults>>

\* another worker polls: the reset of expired leases is all it does
Poll == ClaimNothing /\ UNCHANGED <<run, messages, asked, faults>>

\* users, operators and media jobs
Others(t) ==
  /\ \/ Submit(t, "ready")
     \/ \E x \in Tool :
          \/ \E decision \in {"approved", "denied"} : ResolveApproval(t, x, decision)
          \/ \E outcome \in {"succeeded", "failed", "cancelled"} :
               SettleMedia(t, x, outcome)
          \/ RequireMediaRecovery(t, x)
  /\ UNCHANGED <<run, messages, asked, faults>>

-----------------------------------------------------------------------------
HandlerStep(t, k) ==
  \/ Start(t, k) \/ Prepare(t, k) \/ HandlerCatch(t, k) \/ SettleTurn(t, k)
  \/ FailJob(t, k) \/ Catch(t, k) \/ Unmatched(t, k)

SafePointStep(t, k) ==
  \/ DrainCancel(t, k)
  \/ DrainControls(t, k)
  \/ \E c \in Control : Apply(t, k, c)

InvocationStep(t, k) ==
  \/ ReadCheckpoint(t, k) \/ Resume(t, k) \/ LoopHead(t, k)
  \/ ReadInvocations(t, k) \/ Begin(t, k) \/ Output(t, k)
  \/ \E why \in {"retryable", "fatal", "ambiguous"} : StreamFails(t, k, why)
  \/ FinishFailed(t, k)
  \/ \E calls \in ToolBatch(t) \cup {{}}, images \in BOOLEAN :
       Respond(t, k, calls, images)
  \/ CheckpointImages(t, k) \/ Answered(t, k)

ResponseStep(t, k) ==
  \/ Response(t, k) \/ HasSteer(t, k) \/ Succeed(t, k) \/ FinishForSteer(t, k)
  \/ Steered(t, k) \/ Publish(t, k) \/ BeforeTools(t, k)

BatchStep(t, k) ==
  \/ \E x \in Tool :
       \/ BeginCall(t, k, x)
       \/ \E outcome \in {"succeeded", "failed", "cancelled"} :
            FinishCall(t, k, x, outcome)
       \/ AmbiguousCall(t, k, x)
       \/ DeferCall(t, k, x)
  \/ EndBatch(t, k) \/ AfterTools(t, k) \/ Append(t, k)

RunnerStep(t, k) ==
  \/ HandlerStep(t, k)
  \/ SafePointStep(t, k)
  \/ InvocationStep(t, k)
  \/ ResponseStep(t, k)
  \/ BatchStep(t, k)

RunnerNext ==
  \/ Poll
  \/ \E t \in Turn :
       \/ Take(t)
       \/ Cancel(t)
       \/ Expire(t)
       \/ Recover(t)
       \/ Others(t)
       \/ \E k \in Claims :
            \/ Request(t, k)
            \/ RunnerStep(t, k)
            \/ \E kind \in AbortKind : Abort(t, k, kind)
            \/ Crash(t, k)

RunnerSpec == RunnerInit /\ [][RunnerNext]_runnerVars

\* A store call is answered or fails, and providers and tools return: the
\* execution of a turn does not stop between two awaits.  Workers poll for ever,
\* and nobody renews the lease of an execution that is gone
FairRunnerSpec ==
  /\ RunnerSpec
  /\ WF_runnerVars(Poll)
  /\ \A t \in Turn :
       /\ WF_runnerVars(Take(t))
       /\ WF_runnerVars(Expire(t) /\ UNCHANGED faults)
       /\ \A k \in Claims : WF_runnerVars(RunnerStep(t, k))

-----------------------------------------------------------------------------
(* Properties.                                                             *)

\* The locals of an execution stay in their ranges; its step counter passes
\* maxSteps by one at most
RunnerTypeOK ==
  /\ run \in [Turn -> [Claims ->
       [pc : STRING, at : 0 .. MaxSteps + 1, ready : BOOLEAN, calls : SUBSET Tool,
        batch : {"new", "resumed", "restored"}, begun : SUBSET Tool,
        done : SUBSET Tool, abort : AbortKind \cup {"none"}, after : STRING,
        steer : BOOLEAN, list : SUBSET Control, steered : BOOLEAN, why : STRING,
        level : {"turn", "catch", "handler", "fail"}, told : BOOLEAN,
        cut : BOOLEAN]]]
  /\ reply \in [Turn -> SUBSET Tool]
  /\ results \subseteq Turn /\ promoted \subseteq Turn
  /\ sent \in [Turn -> SUBSET Steer]
  /\ asked \subseteq Turn \X (0 .. MaxClaims + 1)
  /\ faults \in 0 .. MaxFaults

\* Whatever error, abort or rejected call ends executeAgentTurn and the job
\* handler, the turn is not left running with nobody executing it, unless the
\* worker died or the failJob call itself was lost
NotAbandoned ==
  \A t \in Turn, k \in Claims :
    ActiveAttempt(t, k) /\ ~Live(t, k) => run[t][k].cut

\* The catch block's "active abort has no matching durable turn control" is
\* never reached by the owner of the turn: the signal follows the durable
\* request, and nothing but the owner's settlement clears that
AbortHasControl ==
  \A t \in Turn, k \in Claims : At(t, k, "unmatched") => ~Owns(t, k)

\* An attempt the store lets take over a turn finds rows it can go on from:
\* recoveryCheckpoint and the checks of runProviderCompletion and of
\* checkpointFinalProviderForSteer throw no RecoveryEvidenceError, unless a
\* steer changed the request after it failed
SafeResume ==
  \A t \in Turn, k \in Claims :
    At(t, k, "catch") /\ run[t][k].why = "evidence" /\ Owns(t, k) =>
      provider[t] = "retryable" /\ sent[t] # AppliedSteers(t)

\* A request goes to the provider only when every tool call of the turn has a
\* result and the results are in the transcript, over every crash and resume;
\* SessionTurns takes this order of BeginStep from here
StepFollowsResults ==
  \A t \in Turn, k \in Claims :
    At(t, k, "begin") /\ Owns(t, k) =>
      \/ run[t][k].at = step[t] /\ MayRetry(t)
      \/ /\ run[t][k].at = step[t] + 1
         /\ provider[t] \in {"none", "succeeded"}
         /\ Unsettled(t) = {}
         /\ reply[t] = {} \/ t \in results

\* The tool message answers every call of the response, and only with outcomes
\* the store has recorded
ResultsComplete ==
  \A t \in results, x \in Tool :
    x \in reply[t] => tool[t][x] \in SettledTool

\* A turn ends cancelled or interrupted only when a user asked for it: no lost
\* lease, timeout, shutdown or error is published as a cancellation
EndsAsAsked ==
  \A t \in Turn :
    turn[t] \in {"cancelled", "interrupted"} =>
      \/ \E a \in asked : a[1] = t
      \/ \E c \in Interrupt : controlTurn[c] = t /\ control[c] = "applied"

\* Every execution ends: no retry, re-drain or resumed batch loops for ever
RunnerEnds == \A t \in Turn, k \in Claims : Live(t, k) ~> ~Live(t, k)

\* Every admitted turn ends, even when a worker dies, stalls past its lease or
\* loses an answer: somebody resets the job and its next execution ends it
TurnsEnd == \A t \in Turn : turn[t] = "queued" ~> turn[t] \in TerminalTurn

\* A cancellation or interruption read at a safe point is what the turn ends
\* with, "Safe-point reads remain authoritative."  It is not when the attempt
\* has an invocation open: the store refuses the settlement, and after the safe
\* point that follows the provider's answer the turn ends in recovery_required
SafePointHonours ==
  \A t \in Turn, k \in Claims :
    current[t] = k /\ run[t][k].told /\ turn[t] = "recovery_required" =>
      faults > 0 \/ (provider[t] = "ambiguous" /\ sender[t] = k)

=============================================================================
