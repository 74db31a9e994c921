---------------------------- MODULE RuntimeHost ----------------------------
(***************************************************************************)
(* The workers of one runtime host: the loops that poll for jobs, the run  *)
(* of a claimed job with its heartbeat, its timeout and its abort signal,  *)
(* and the start, stop and disposal of the host.                           *)
(*                                                                         *)
(* All of it runs on one JavaScript thread: a step lasts until the next    *)
(* await, and anything may happen during an await.  What the handler of a  *)
(* session turn does between its start and its end is TurnRunner, and what *)
(* the observer of its controls does is ControlObserver; here a handler    *)
(* runs, is observed, and may be aborted.                                  *)
(***************************************************************************)
EXTENDS Naturals, FiniteSets

CONSTANTS
  Worker,    \* the workers of the host
  Job,       \* jobs
  NoJob,     \* no job
  MaxLeases, \* bound: leases of a job
  MaxFaults, \* bound: failed calls, lapsed leases and timeouts together
  MaxStops   \* bound: stops of the host

ASSUME BoundAssumption == MaxLeases \in Nat \ {0} /\ {MaxFaults, MaxStops} \subseteq Nat
ASSUME JobAssumption == NoJob \notin Job

VARIABLES
  job,      \* ready, leased, parked (suspended for a tool) or done
  token,    \* the number of the job's last lease
  lapsed,   \* the leased jobs whose lease has expired
  loop,     \* the WorkerLoopController of a worker
  ex,       \* the runOnce of a worker
  phase,    \* off, started, or stopping: stopPromise is set
  disposal, \* no, asked (stop is awaited), or closed: the observer is closed
  faults,   \* faults so far
  stops     \* stops so far

storeVars == <<job, token, lapsed>>
hostVars == <<phase, disposal, stops>>
vars == <<storeVars, loop, ex, hostVars, faults>>

NoLoop == [timer |-> "none", active |-> FALSE, wake |-> FALSE, stopped |-> TRUE]
NoRun == [pc |-> "none", job |-> NoJob, token |-> 0, ok |-> TRUE, registered |-> FALSE,
          aborted |-> FALSE, beat |-> "off", expired |-> FALSE, observed |-> FALSE,
          refused |-> FALSE, late |-> FALSE]

\* the program counters of a run whose handler has not returned
Handling == {"start", "observe", "run", "unobserve"}

Loop == [timer : {"none", "now", "later"}, active : BOOLEAN, wake : BOOLEAN,
         stopped : BOOLEAN]
Run == [pc : Handling \cup {"none", "claim", "claimed", "unbeat", "fail", "result",
                            "ended"},
        job : Job \cup {NoJob}, token : Nat, ok : BOOLEAN, registered : BOOLEAN,
        aborted : BOOLEAN, beat : {"off", "idle", "sent"}, expired : BOOLEAN,
        observed : BOOLEAN, refused : BOOLEAN, late : BOOLEAN]

Init ==
  /\ job = [j \in Job |-> "ready"]
  /\ token = [j \in Job |-> 0]
  /\ lapsed = {}
  /\ loop = [w \in Worker |-> NoLoop]
  /\ ex = [w \in Worker |-> NoRun]
  /\ phase = "off"
  /\ disposal = "no"
  /\ faults = 0
  /\ stops = 0

Fault == faults < MaxFaults /\ faults' = faults + 1

\* the jobs claimJob hands out
Claimable == {j \in Job : job[j] = "ready" \/ j \in lapsed}

\* the caller holds the lease of the job, expired or not
Holds(x) == job[x.job] = "leased" /\ token[x.job] = x.token

\* the lease is good: what the writes of a turn require
Owns(x) == Holds(x) /\ x.job \notin lapsed

Registered(j) == {w \in Worker : ex[w].registered /\ ex[w].job = j}

\* an abort of the run's controller, which only a registered run has
Aborted(x) == [x EXCEPT !.aborted = @ \/ x.registered]

Set(w, x) == ex' = [ex EXCEPT ![w] = x]
At(w, pc) == ex[w].pc = pc

-----------------------------------------------------------------------------
(* worker-loop.ts                                                          *)

\* wrong variant of Scheduled: a stopped loop sets its timer
ScheduledAlways(l, delay) == [l EXCEPT !.timer = delay]

\* schedule: the timer of a stopped loop is not set again
Scheduled(l, delay) == IF l.stopped THEN l ELSE [l EXCEPT !.timer = delay]

\* a timer fires when no continuation is left to run: tick calls runOnce
Tick(w) ==
  /\ loop[w].timer # "none"
  /\ ~loop[w].active
  /\ loop' = [loop EXCEPT ![w].timer = "none", ![w].active = TRUE]
  /\ Set(w, [NoRun EXCEPT !.pc = "claim"])
  /\ UNCHANGED <<storeVars, hostVars, faults>>

\* wrong variant of Result: after an error there is no next tick
ResultOrDie(w) ==
  LET l == [loop[w] EXCEPT !.wake = FALSE]
  IN /\ At(w, "result")
     /\ loop' = [loop EXCEPT ![w] =
          IF ~ex[w].ok THEN l
          ELSE Scheduled(l, IF loop[w].wake \/ ex[w].job # NoJob THEN "now" ELSE "later")]
     /\ Set(w, [NoRun EXCEPT !.pc = "ended"])
     /\ UNCHANGED <<storeVars, hostVars, faults>>

\* the result of runOnce, or its error, decides when the next tick is
Result(w) ==
  LET soon == loop[w].wake \/ (ex[w].ok /\ ex[w].job # NoJob)
  IN /\ At(w, "result")
     /\ loop' = [loop EXCEPT ![w] =
          Scheduled([loop[w] EXCEPT !.wake = FALSE], IF soon THEN "now" ELSE "later")]
     /\ Set(w, [NoRun EXCEPT !.pc = "ended"])
     /\ UNCHANGED <<storeVars, hostVars, faults>>

\* the finally of run, some continuations later
Ended(w) ==
  /\ At(w, "ended")
  /\ loop' = [loop EXCEPT ![w].active = FALSE]
  /\ Set(w, NoRun)
  /\ UNCHANGED <<storeVars, hostVars, faults>>

\* RuntimeHost.wake, called after a submission and after a cancellation
Wake ==
  /\ phase = "started" /\ disposal = "no"
  /\ loop' = [w \in Worker |->
       IF loop[w].active THEN [loop[w] EXCEPT !.wake = TRUE]
       ELSE Scheduled([loop[w] EXCEPT !.wake = FALSE], "now")]
  /\ UNCHANGED <<storeVars, ex, hostVars, faults>>

-----------------------------------------------------------------------------
(* WanexWorker.runOnce                                                     *)

\* claimJob hands out a ready job, or one whose lease has expired
Claim(w, j) ==
  /\ At(w, "claim")
  /\ j \in Claimable
  /\ job' = [job EXCEPT ![j] = "leased"]
  /\ token' = [token EXCEPT ![j] = @ + 1]
  /\ lapsed' = lapsed \ {j}
  /\ Set(w, [ex[w] EXCEPT !.pc = "claimed", !.job = j, !.token = token[j] + 1])
  /\ UNCHANGED <<loop, hostVars, faults>>

\* claimJob finds nothing, or fails
ClaimNothing(w) ==
  /\ At(w, "claim")
  /\ \/ Claimable = {} /\ Set(w, [ex[w] EXCEPT !.pc = "result"]) /\ UNCHANGED faults
     \/ Fault /\ Set(w, [ex[w] EXCEPT !.pc = "result", !.ok = FALSE])
  /\ UNCHANGED <<storeVars, loop, hostVars>>

\* wrong variant of Register: an earlier run of the job is not looked for
RegisterAnyway(w) ==
  /\ At(w, "claimed")
  /\ Set(w, [ex[w] EXCEPT !.pc = "start", !.registered = TRUE, !.beat = "idle",
                          !.late = phase = "stopping"])
  /\ UNCHANGED <<storeVars, loop, hostVars, faults>>

\* the run is registered, its heartbeat started and its handler called; while an
\* earlier run of the job is registered runOnce throws, and nobody runs the job
Register(w) ==
  LET x == ex[w]
  IN /\ At(w, "claimed")
     /\ Set(w, IF Registered(x.job) # {}
                 THEN [x EXCEPT !.pc = "result", !.ok = FALSE]
                 ELSE [x EXCEPT !.pc = "start", !.registered = TRUE, !.beat = "idle",
                                !.late = phase = "stopping"])
     /\ UNCHANGED <<storeVars, loop, hostVars, faults>>

\* the heartbeat's timer fires
BeatStarts(w) ==
  /\ ex[w].beat = "idle"
  /\ Set(w, [ex[w] EXCEPT !.beat = "sent"])
  /\ UNCHANGED <<storeVars, loop, hostVars, faults>>

\* heartbeatJob extends the lease its caller holds, or fails; a lost lease and an
\* error both abort the run.  A beat that ends after stop is the last one
BeatEnds(w) ==
  LET x == ex[w]
      next == [x EXCEPT !.beat = IF x.pc = "unbeat" THEN "off" ELSE "idle"]
  IN /\ x.beat = "sent"
     /\ \/ /\ Set(w, IF Holds(x) THEN next ELSE Aborted(next))
           /\ lapsed' = IF Holds(x) THEN lapsed \ {x.job} ELSE lapsed
           /\ UNCHANGED faults
        \/ Fault /\ Set(w, Aborted(next)) /\ UNCHANGED lapsed
     /\ UNCHANGED <<job, token, loop, hostVars>>

\* withTimeout: the run is aborted, and its handler still waited for
Expires(w) ==
  /\ ex[w].pc \in Handling
  /\ ~ex[w].expired
  /\ Fault
  /\ Set(w, [Aborted(ex[w]) EXCEPT !.expired = TRUE])
  /\ UNCHANGED <<storeVars, loop, hostVars>>

\* the handler has returned or thrown, and its heartbeat is stopped
Returned(x, ok) ==
  [x EXCEPT !.pc = "unbeat", !.ok = ok /\ ~x.expired,
            !.beat = IF @ = "idle" THEN "off" ELSE @]

\* the handler calls startTurnAttempt
StartAttempt(w) ==
  LET x == ex[w]
  IN /\ At(w, "start")
     /\ \/ Owns(x) /\ Set(w, [x EXCEPT !.pc = "observe"]) /\ UNCHANGED faults
        \/ ~Owns(x) /\ Set(w, Returned(x, FALSE)) /\ UNCHANGED faults
        \/ Fault /\ Set(w, Returned(x, FALSE))
     /\ UNCHANGED <<storeVars, loop, hostVars>>

\* observe refuses a job that is observed, and everything once it is closed
Observe(w) ==
  LET x == ex[w]
      taken == \E v \in Worker : ex[v].observed /\ ex[v].job = x.job
  IN /\ At(w, "observe")
     /\ Set(w, IF disposal = "closed" \/ taken
                 THEN [Returned(x, FALSE) EXCEPT !.refused = TRUE]
                 ELSE [x EXCEPT !.pc = "run", !.observed = TRUE])
     /\ UNCHANGED <<storeVars, loop, hostVars, faults>>

\* the handler settles or suspends the turn, or throws; it leaves the observer
\* at once and then waits for the query the observer may have in flight
HandlerEnds(w) ==
  LET x == ex[w]
      over == [x EXCEPT !.pc = "unobserve", !.observed = FALSE]
  IN /\ At(w, "run")
     /\ \/ /\ Owns(x)
           /\ \/ job' = [job EXCEPT ![x.job] = "done"]
              \/ x.token < MaxLeases /\ job' = [job EXCEPT ![x.job] = "parked"]
           /\ Set(w, over)
        \/ Set(w, [over EXCEPT !.ok = FALSE]) /\ UNCHANGED job
     /\ UNCHANGED <<token, lapsed, loop, hostVars, faults>>

QueryOver(w) ==
  /\ At(w, "unobserve")
  /\ Set(w, Returned(ex[w], ex[w].ok))
  /\ UNCHANGED <<storeVars, loop, hostVars, faults>>

\* heartbeat.stop has waited for the beat in flight
BeatStopped(w) ==
  LET x == ex[w]
  IN /\ At(w, "unbeat")
     /\ x.beat = "off"
     /\ Set(w, IF x.ok THEN [x EXCEPT !.pc = "result", !.registered = FALSE]
                       ELSE [x EXCEPT !.pc = "fail"])
     /\ UNCHANGED <<storeVars, loop, hostVars, faults>>

\* failJob; whatever it answers, the run is unregistered
Fail(w) ==
  LET x == ex[w]
      over == [x EXCEPT !.pc = "result", !.registered = FALSE]
  IN /\ At(w, "fail")
     /\ \/ /\ job' = IF Holds(x) THEN [job EXCEPT ![x.job] = "done"] ELSE job
           /\ lapsed' = IF Holds(x) THEN lapsed \ {x.job} ELSE lapsed
           /\ Set(w, [over EXCEPT !.ok = TRUE])
           /\ UNCHANGED faults
        \/ Fault /\ Set(w, over) /\ UNCHANGED <<job, lapsed>>
     /\ UNCHANGED <<token, loop, hostVars>>

-----------------------------------------------------------------------------
(* RuntimeHost: start, stop, dispose, and the aborts it sends itself.      *)

Start ==
  /\ phase = "off" /\ disposal = "no"
  /\ phase' = "started"
  /\ loop' = [w \in Worker |-> [NoLoop EXCEPT !.stopped = FALSE, !.timer = "now"]]
  /\ UNCHANGED <<storeVars, ex, disposal, stops, faults>>

\* wrong variant of StopLoops: no execution is told
StopLoopsOnly ==
  /\ phase' = "stopping"
  /\ loop' = [w \in Worker |-> [loop[w] EXCEPT !.stopped = TRUE, !.timer = "none"]]
  /\ UNCHANGED ex

\* abortAll reaches the runs that are registered now; every loop is stopped
StopLoops ==
  /\ phase' = "stopping"
  /\ loop' = [w \in Worker |-> [loop[w] EXCEPT !.stopped = TRUE, !.timer = "none"]]
  /\ ex' = [w \in Worker |-> Aborted(ex[w])]

Stop ==
  /\ phase = "started" /\ disposal = "no"
  /\ stops < MaxStops
  /\ stops' = stops + 1
  /\ StopLoops
  /\ UNCHANGED <<storeVars, disposal, faults>>

\* waitForIdle of every loop
Stopped ==
  /\ phase = "stopping"
  /\ \A w \in Worker : ~loop[w].active
  /\ phase' = "off"
  /\ UNCHANGED <<storeVars, loop, ex, disposal, stops, faults>>

\* dispose: stop first, or wait for the stop that is under way
Dispose ==
  /\ disposal = "no"
  /\ disposal' = "asked"
  /\ IF phase = "started" THEN StopLoops ELSE UNCHANGED <<phase, ex, loop>>
  /\ UNCHANGED <<storeVars, stops, faults>>

\* close of the observer
Close ==
  /\ disposal = "asked"
  /\ phase = "off"
  /\ disposal' = "closed"
  /\ ex' = [w \in Worker |-> [ex[w] EXCEPT !.observed = FALSE]]
  /\ UNCHANGED <<storeVars, loop, phase, stops, faults>>

\* a control of this host or one the observer has read: abort and abortAttempt
Signal(w) ==
  /\ ex[w].registered /\ ~ex[w].aborted
  /\ Set(w, Aborted(ex[w]))
  /\ UNCHANGED <<storeVars, loop, hostVars, faults>>

-----------------------------------------------------------------------------
(* The store's clock, other users and other hosts.                         *)

\* a lease nobody extends expires, and with a fault one whose holder is slow
Lapse(j) ==
  /\ job[j] = "leased" /\ j \notin lapsed
  /\ token[j] < MaxLeases
  /\ IF \E w \in Worker : ex[w].job = j /\ ex[w].token = token[j] /\ ~At(w, "result")
       THEN Fault ELSE UNCHANGED faults
  /\ lapsed' = lapsed \cup {j}
  /\ UNCHANGED <<job, token, loop, ex, hostVars>>

\* a tool the turn waited for is decided or done
Resume(j) ==
  /\ job[j] = "parked"
  /\ job' = [job EXCEPT ![j] = "ready"]
  /\ UNCHANGED <<token, lapsed, loop, ex, hostVars, faults>>

\* a worker of another host takes the job over and ends it
Elsewhere(j) ==
  /\ j \in Claimable
  /\ job' = [job EXCEPT ![j] = "done"]
  /\ token' = [token EXCEPT ![j] = @ + 1]
  /\ lapsed' = lapsed \ {j}
  /\ UNCHANGED <<loop, ex, hostVars, faults>>

RunStep(w) ==
  \/ \E j \in Job : Claim(w, j)
  \/ ClaimNothing(w)
  \/ Register(w) \/ StartAttempt(w) \/ Observe(w) \/ QueryOver(w)
  \/ BeatStopped(w) \/ Fail(w) \/ Result(w) \/ Ended(w)

Next ==
  \/ \E w \in Worker :
       RunStep(w) \/ Tick(w) \/ BeatStarts(w) \/ BeatEnds(w) \/ Expires(w)
         \/ HandlerEnds(w) \/ Signal(w)
  \/ Start \/ Stop \/ Stopped \/ Dispose \/ Close \/ Wake
  \/ \E j \in Job : Lapse(j) \/ Resume(j) \/ Elsewhere(j)

Spec == Init /\ [][Next]_vars

\* calls are answered and timers fire; a handler ends once its run is aborted,
\* and otherwise perhaps never
FairSpec ==
  /\ Spec
  /\ WF_vars(Stopped)
  /\ \A w \in Worker :
       /\ WF_vars(RunStep(w)) /\ WF_vars(Tick(w)) /\ WF_vars(BeatEnds(w))
       /\ WF_vars(ex[w].aborted /\ HandlerEnds(w))

-----------------------------------------------------------------------------
(* Properties.                                                             *)

TypeOK ==
  /\ job \in [Job -> {"ready", "leased", "parked", "done"}]
  /\ token \in [Job -> Nat]
  /\ lapsed \subseteq Job
  /\ loop \in [Worker -> Loop]
  /\ ex \in [Worker -> Run]
  /\ phase \in {"off", "started", "stopping"}
  /\ disposal \in {"no", "asked", "closed"}
  /\ faults \in Nat
  /\ stops \in Nat

\* Once a stop has resolved nothing of the host is at work: no run, heartbeat or
\* loop timer, however claims, beats and wakes were interleaved with it
StoppedQuiet ==
  phase = "off" =>
    \A w \in Worker :
      ex[w].pc = "none" /\ ex[w].beat = "off" /\ loop[w].timer = "none" /\ ~loop[w].active

\* A handler is never refused its observation: of two runs of a job in one host
\* the first has left the observer before the second is registered, and the
\* observer is closed after the last run only
ObserveAccepted == \A w \in Worker : ~ex[w].refused

\* A heartbeat belongs to a registered run: none is in flight when the run is
\* unregistered, and none extends the lease of a job whose run is over
BeatsOwned == \A w \in Worker : ex[w].beat # "off" => ex[w].registered

\* A stop comes to its end: no wait of the loops, the heartbeats and the
\* handlers on each other is for ever.  The escape is a run registered during
\* the stop, its claim being in flight when abortAll ran: nothing aborts it
StopEnds ==
  phase = "stopping" ~> phase = "off" \/ \E w \in Worker : ex[w].late

\* A job that can be claimed is claimed while the host is started and a worker is
\* free: no error of a call, refused registration or wake that comes between a
\* result and its finally leaves a loop without its next tick
JobsServed ==
  \A j \in Job :
    j \in Claimable ~>
      j \notin Claimable \/ phase # "started" \/ \A w \in Worker : At(w, "run")
=============================================================================
