------------------------- MODULE RuntimeHostProofs -------------------------
(***************************************************************************)
(* Theorems about RuntimeHost, for every number of workers and of jobs.    *)
(***************************************************************************)
EXTENDS RuntimeHost, TLAPS

\* A run of runOnce and its loop go together: what a run is registered, observed
\* and beating for follows from where it is.
RunOK(x) ==
  /\ x.registered <=> x.pc \in Handling \cup {"unbeat", "fail"}
  /\ x.observed => x.pc = "run"
  /\ x.beat # "off" => x.registered /\ x.pc # "fail"
  /\ ~x.refused

LoopOK(l, x) ==
  /\ l.active <=> x.pc # "none"
  /\ l.timer # "none" => ~l.stopped

\* Two registered runs are of two jobs.
OneRun ==
  \A v, w \in Worker :
    v # w /\ ex[v].registered /\ ex[w].registered => ex[v].job # ex[w].job

\* Loops run while the host is started, and are idle once a stop has resolved.
PhaseOK ==
  /\ phase # "started" => \A w \in Worker : loop[w].stopped
  /\ phase = "off" => \A w \in Worker : ~loop[w].active
  /\ disposal # "no" => phase # "started"
  /\ disposal = "closed" => phase = "off"

IInv ==
  /\ TypeOK
  /\ \A w \in Worker : RunOK(ex[w]) /\ LoopOK(loop[w], ex[w])
  /\ OneRun
  /\ PhaseOK

\* What a step does to the rows of the store and to the counters is well typed.
StoreOK ==
  /\ job \in [Job -> {"ready", "leased", "parked", "done"}]
  /\ token \in [Job -> Nat]
  /\ lapsed \subseteq Job
  /\ faults \in Nat
  /\ stops \in Nat

\* An own run that is registered keeps its job, and one that registers finds no
\* other run of its job.
Alone(w, x) ==
  x.registered => (ex[w].registered /\ x.job = ex[w].job) \/ Registered(x.job) = {}

-----------------------------------------------------------------------------

\* A step of one worker keeps the invariant when its run and its loop come out
\* right, the loop not having been started or stopped by it.
LEMMA WorkerStep ==
  ASSUME IInv, StoreOK', NEW w \in Worker, NEW x \in Run, NEW l \in Loop,
         Set(w, x), loop' = [loop EXCEPT ![w] = l], UNCHANGED <<phase, disposal>>,
         RunOK(x), LoopOK(l, x), Alone(w, x),
         l.stopped = loop[w].stopped,
         l.active => loop[w].active \/ phase = "started"
  PROVE  IInv'
<1>1. ex' = [ex EXCEPT ![w] = x] /\ ex \in [Worker -> Run] /\ loop \in [Worker -> Loop]
  BY DEF Set, IInv, TypeOK
<1>2. TypeOK'
  BY <1>1 DEF IInv, TypeOK, StoreOK
<1>3. ASSUME NEW v \in Worker PROVE RunOK(ex'[v]) /\ LoopOK(loop'[v], ex'[v])
  <2>1. CASE v = w
    BY <1>1, <2>1
  <2>2. CASE v # w
    BY <1>1, <2>2 DEF IInv
  <2> QED
    BY <2>1, <2>2
<1>4. OneRun'
  <2> SUFFICES ASSUME NEW u \in Worker, NEW v \in Worker, u # v, ex'[u].registered,
                      ex'[v].registered
               PROVE  ex'[u].job # ex'[v].job
    BY DEF OneRun
  <2>1. ASSUME NEW z \in Worker, z # w, ex[z].registered, x.registered
        PROVE  ex[z].job # x.job
    BY <2>1 DEF Alone, IInv, OneRun, Registered
  <2>2. CASE u = w
    BY <1>1, <2>1, <2>2
  <2>3. CASE v = w
    BY <1>1, <2>1, <2>3
  <2>4. CASE u # w /\ v # w
    BY <1>1, <2>4 DEF IInv, OneRun
  <2> QED
    BY <2>2, <2>3, <2>4
<1>5. PhaseOK'
  <2>1. ASSUME NEW v \in Worker
        PROVE  /\ loop'[v].stopped = loop[v].stopped
               /\ loop'[v].active => loop[v].active \/ phase = "started"
    BY <1>1
  <2> QED
    BY <2>1 DEF IInv, PhaseOK
<1> QED
  BY <1>2, <1>3, <1>4, <1>5 DEF IInv

\* The same for a step that leaves the loop alone.
LEMMA RunStepOK ==
  ASSUME IInv, StoreOK', NEW w \in Worker, NEW x \in Run, Set(w, x),
         UNCHANGED <<loop, phase, disposal>>, RunOK(x), Alone(w, x),
         x.pc # "none" <=> ex[w].pc # "none"
  PROVE  IInv'
<1>1. loop[w] \in Loop /\ loop' = [loop EXCEPT ![w] = loop[w]]
  BY DEF IInv, TypeOK
<1>2. LoopOK(loop[w], x)
  BY DEF IInv, LoopOK
<1> QED
  BY <1>1, <1>2, WorkerStep

\* The store's rows stay well typed.
LEMMA StoreStep == IInv /\ [Next]_vars => StoreOK'
<1> SUFFICES ASSUME IInv, [Next]_vars PROVE StoreOK'
  OBVIOUS
<1> USE DEF IInv, TypeOK, StoreOK
<1>1. CASE UNCHANGED <<storeVars, stops>> /\ (Fault \/ UNCHANGED faults)
  BY <1>1 DEF storeVars, Fault
<1>2. ASSUME NEW w \in Worker, NEW j \in Job, Claim(w, j) PROVE StoreOK'
  BY <1>2 DEF Claim, hostVars
<1>3. ASSUME NEW w \in Worker, BeatEnds(w) PROVE StoreOK'
  BY <1>3 DEF BeatEnds, Fault, hostVars
<1>4. ASSUME NEW w \in Worker, HandlerEnds(w) PROVE StoreOK'
  BY <1>4 DEF HandlerEnds, hostVars
<1>5. ASSUME NEW w \in Worker, Fail(w) PROVE StoreOK'
  BY <1>5 DEF Fail, Fault, hostVars
<1>6. CASE Stop
  BY <1>6 DEF Stop, storeVars
<1>7. ASSUME NEW j \in Job, Lapse(j) \/ Resume(j) \/ Elsewhere(j) PROVE StoreOK'
  BY <1>7 DEF Lapse, Resume, Elsewhere, Fault, hostVars
<1>8. ASSUME NEW w \in Worker,
             \/ ClaimNothing(w) \/ Register(w) \/ StartAttempt(w) \/ Observe(w)
             \/ QueryOver(w) \/ BeatStopped(w) \/ Result(w) \/ Ended(w)
             \/ Tick(w) \/ BeatStarts(w) \/ Expires(w) \/ Signal(w)
      PROVE  StoreOK'
  BY <1>1, <1>8
  DEF ClaimNothing, Register, StartAttempt, Observe, QueryOver, BeatStopped, Result, Ended,
      Tick, BeatStarts, Expires, Signal, hostVars
<1>9. CASE Start \/ Stopped \/ Dispose \/ Close \/ Wake
  BY <1>1, <1>9 DEF Start, Stopped, Dispose, Close, Wake, hostVars
<1>10. CASE UNCHANGED vars
  BY <1>1, <1>10 DEF vars, hostVars
<1> QED
  BY <1>2, <1>3, <1>4, <1>5, <1>6, <1>7, <1>8, <1>9, <1>10 DEF Next, RunStep

\* The steps of a run.
LEMMA RunSteps ==
  ASSUME IInv, StoreOK', NEW w \in Worker,
         \/ \E j \in Job : Claim(w, j)
         \/ ClaimNothing(w) \/ Register(w) \/ BeatStarts(w) \/ BeatEnds(w) \/ Expires(w)
         \/ StartAttempt(w) \/ Observe(w) \/ HandlerEnds(w) \/ QueryOver(w)
         \/ BeatStopped(w) \/ Fail(w) \/ Signal(w)
  PROVE  IInv'
<1> DEFINE x == ex[w]
<1>0. x \in Run /\ RunOK(x) /\ job \in [Job -> {"ready", "leased", "parked", "done"}]
        /\ token \in [Job -> Nat]
  BY DEF IInv, TypeOK
<1>1. ASSUME NEW y \in Run, Set(w, y), RunOK(y), UNCHANGED <<loop, hostVars>>,
             x.pc # "none", y.pc # "none",
             y.registered => x.registered /\ y.job = x.job
      PROVE  IInv'
  BY <1>1, RunStepOK DEF Alone, hostVars
<1>2. ASSUME NEW j \in Job, Claim(w, j) PROVE IInv'
  <2> DEFINE y == [x EXCEPT !.pc = "claimed", !.job = j, !.token = token[j] + 1]
  <2>1. token[j] \in Nat
    BY <1>0
  <2>2. token[j] + 1 \in Nat
    BY <2>1
  <2>3. x.pc = "claim"
    BY <1>2 DEF Claim, At
  <2>4. y \in Run /\ RunOK(y) /\ y.pc # "none" /\ ~y.registered
    <3> DEFINE n == token[j] + 1
    <3> HIDE DEF n
    <3>1. n \in Nat /\ y = [x EXCEPT !.pc = "claimed", !.job = j, !.token = n]
      BY <2>2 DEF n
    <3> QED
      BY <1>0, <2>3, <3>1 DEF Run, RunOK, Handling
  <2> QED
    BY <1>1, <1>2, <2>4 DEF Claim, At
<1>3. CASE ClaimNothing(w)
  <2>1. ASSUME NEW ok \in BOOLEAN
        PROVE  LET y == [x EXCEPT !.pc = "result", !.ok = ok]
               IN  y \in Run /\ RunOK(y) /\ y.pc # "none" /\ ~y.registered
    BY <1>0, <1>3 DEF Run, RunOK, ClaimNothing, At, Handling
  <2>2. [x EXCEPT !.pc = "result"] = [x EXCEPT !.pc = "result", !.ok = x.ok]
        /\ x.ok \in BOOLEAN
    BY <1>0 DEF Run
  <2> QED
    BY <1>1, <1>3, <2>1, <2>2, Zenon DEF ClaimNothing, At
<1>4. CASE Register(w)
  <2> DEFINE no == [x EXCEPT !.pc = "result", !.ok = FALSE]
             yes == [x EXCEPT !.pc = "start", !.registered = TRUE, !.beat = "idle",
                              !.late = phase = "stopping"]
  <2>1. no \in Run /\ RunOK(no) /\ no.pc # "none" /\ ~no.registered
    BY <1>0, <1>4 DEF Run, RunOK, Register, At, Handling
  <2>2. (phase = "stopping") \in BOOLEAN
    OBVIOUS
  <2>3. yes \in Run /\ RunOK(yes) /\ yes.pc # "none" /\ yes.job = x.job
    BY <1>0, <1>4, <2>2 DEF Run, RunOK, Register, At, Handling
  <2> HIDE DEF no, yes
  <2>4. CASE Registered(x.job) # {}
    BY <1>1, <1>4, <2>1, <2>4 DEF Register, At, no
  <2>5. CASE Registered(x.job) = {}
    <3>1. Set(w, yes) /\ UNCHANGED <<loop, phase, disposal>> /\ x.pc # "none"
      BY <1>4, <2>5 DEF Register, At, yes, hostVars
    <3>2. Alone(w, yes)
      BY <2>3, <2>5 DEF Alone
    <3> QED
      BY <2>3, <3>1, <3>2, RunStepOK
  <2> QED
    BY <2>4, <2>5
<1>5. CASE BeatStarts(w)
  <2> DEFINE y == [x EXCEPT !.beat = "sent"]
  <2>1. y \in Run /\ RunOK(y) /\ x.pc # "none" /\ y.pc = x.pc /\ y.job = x.job
          /\ y.registered = x.registered
    BY <1>0, <1>5 DEF Run, RunOK, BeatStarts, Handling
  <2> QED
    BY <1>1, <1>5, <2>1 DEF BeatStarts
<1>6. CASE BeatEnds(w)
  <2> DEFINE next == [x EXCEPT !.beat = IF x.pc = "unbeat" THEN "off" ELSE "idle"]
  <2>1. next \in Run /\ RunOK(next) /\ x.pc # "none" /\ next.pc = x.pc
          /\ next.job = x.job /\ next.registered = x.registered
    BY <1>0, <1>6 DEF Run, RunOK, BeatEnds, Handling
  <2> HIDE DEF next
  <2>2. Aborted(next) \in Run /\ RunOK(Aborted(next)) /\ Aborted(next).pc = x.pc
          /\ Aborted(next).job = x.job /\ Aborted(next).registered = x.registered
    BY <2>1 DEF Run, RunOK, Aborted
  <2>3. Set(w, next) \/ Set(w, Aborted(next))
    BY <1>6 DEF BeatEnds, Set, next
  <2> QED
    BY <1>1, <1>6, <2>1, <2>2, <2>3 DEF BeatEnds
<1>7. CASE Expires(w) \/ Signal(w)
  <2>1. ASSUME NEW expired \in BOOLEAN
        PROVE  LET y == [Aborted(x) EXCEPT !.expired = expired]
               IN  y \in Run /\ RunOK(y) /\ y.pc = x.pc /\ y.job = x.job
                     /\ y.registered = x.registered
    BY <1>0 DEF Run, RunOK, Aborted
  <2>2. Aborted(x) = [Aborted(x) EXCEPT !.expired = x.expired] /\ x.expired \in BOOLEAN
    BY <1>0 DEF Run, Aborted
  <2>3. x.pc # "none"
    BY <1>0, <1>7 DEF Expires, Signal, RunOK, Handling
  <2> QED
    BY <1>1, <1>7, <2>1, <2>2, <2>3 DEF Expires, Signal
<1>8. ASSUME NEW ok \in BOOLEAN, x.pc \in {"start", "observe", "unobserve"}
      PROVE  LET y == Returned(x, ok)
             IN  y \in Run /\ RunOK(y) /\ y.pc # "none" /\ y.job = x.job
  BY <1>0, <1>8 DEF Run, RunOK, Returned, Handling
<1>9. CASE StartAttempt(w)
  <2> DEFINE y == [x EXCEPT !.pc = "observe"]
  <2>1. y \in Run /\ RunOK(y) /\ y.pc # "none" /\ y.job = x.job /\ x.registered
    BY <1>0, <1>9 DEF Run, RunOK, StartAttempt, At, Handling
  <2>2. Set(w, y) \/ Set(w, Returned(x, FALSE))
    BY <1>9 DEF StartAttempt
  <2> QED
    BY <1>1, <1>8, <1>9, <2>1, <2>2 DEF StartAttempt, At
<1>10. CASE QueryOver(w)
  <2>1. x.ok \in BOOLEAN /\ x.registered
    BY <1>0, <1>10 DEF Run, RunOK, QueryOver, At, Handling
  <2> QED
    BY <1>1, <1>8, <1>10, <2>1 DEF QueryOver, At
<1>11. CASE Observe(w)
  <2>1. disposal # "closed"
    BY <1>11 DEF IInv, PhaseOK, LoopOK, Observe, At
  <2>2. ~\E v \in Worker : ex[v].observed /\ ex[v].job = x.job
    <3> SUFFICES ASSUME NEW v \in Worker, ex[v].observed, ex[v].job = x.job
                 PROVE  FALSE
      OBVIOUS
    <3>1. v # w /\ ex[v].registered /\ x.registered
      BY <1>0, <1>11 DEF IInv, RunOK, Observe, At, Handling
    <3> QED
      BY <3>1 DEF IInv, OneRun
  <2> DEFINE y == [x EXCEPT !.pc = "run", !.observed = TRUE]
  <2>3. y \in Run /\ RunOK(y) /\ y.pc # "none" /\ y.job = x.job /\ x.registered
    BY <1>0, <1>11 DEF Run, RunOK, Observe, At, Handling
  <2>4. Set(w, y)
    BY <1>11, <2>1, <2>2 DEF Observe
  <2> QED
    BY <1>1, <1>11, <2>3, <2>4 DEF Observe, At
<1>12. CASE HandlerEnds(w)
  <2> DEFINE over == [x EXCEPT !.pc = "unobserve", !.observed = FALSE]
  <2>1. over \in Run /\ RunOK(over) /\ over.pc # "none" /\ over.job = x.job
          /\ x.registered
    BY <1>0, <1>12 DEF Run, RunOK, HandlerEnds, At, Handling
  <2>2. LET y == [over EXCEPT !.ok = FALSE]
        IN  y \in Run /\ RunOK(y) /\ y.pc # "none" /\ y.job = x.job
    BY <1>0, <1>12 DEF Run, RunOK, HandlerEnds, At, Handling
  <2>3. Set(w, over) \/ Set(w, [over EXCEPT !.ok = FALSE])
    BY <1>12 DEF HandlerEnds
  <2> HIDE DEF over
  <2> QED
    BY <1>1, <1>12, <2>1, <2>2, <2>3 DEF HandlerEnds, At
<1>13. CASE BeatStopped(w)
  <2> DEFINE good == [x EXCEPT !.pc = "result", !.registered = FALSE]
             bad == [x EXCEPT !.pc = "fail"]
  <2>1. good \in Run /\ RunOK(good) /\ good.pc # "none" /\ ~good.registered
    BY <1>0, <1>13 DEF Run, RunOK, BeatStopped, At, Handling
  <2>2. bad \in Run /\ RunOK(bad) /\ bad.pc # "none" /\ bad.job = x.job /\ x.registered
    BY <1>0, <1>13 DEF Run, RunOK, BeatStopped, At, Handling
  <2>3. Set(w, good) \/ Set(w, bad)
    BY <1>13 DEF BeatStopped
  <2> HIDE DEF good, bad
  <2> QED
    BY <1>1, <1>13, <2>1, <2>2, <2>3 DEF BeatStopped, At
<1>14. CASE Fail(w)
  <2> DEFINE over == [x EXCEPT !.pc = "result", !.registered = FALSE]
  <2>1. over \in Run /\ RunOK(over) /\ over.pc # "none" /\ ~over.registered
    BY <1>0, <1>14 DEF Run, RunOK, Fail, At, Handling
  <2>2. LET y == [over EXCEPT !.ok = TRUE]
        IN  y \in Run /\ RunOK(y) /\ y.pc # "none" /\ ~y.registered
    BY <1>0, <1>14 DEF Run, RunOK, Fail, At, Handling
  <2>3. Set(w, over) \/ Set(w, [over EXCEPT !.ok = TRUE])
    BY <1>14 DEF Fail
  <2> HIDE DEF over
  <2> QED
    BY <1>1, <1>14, <2>1, <2>2, <2>3 DEF Fail, At
<1> QED
  BY <1>2, <1>3, <1>4, <1>5, <1>6, <1>7, <1>9, <1>10, <1>11, <1>12, <1>13, <1>14

\* The steps of a loop.
LEMMA LoopSteps ==
  ASSUME IInv, StoreOK', NEW w \in Worker, Tick(w) \/ Result(w) \/ Ended(w)
  PROVE  IInv'
<1> DEFINE x == ex[w]
           l == loop[w]
<1>0. x \in Run /\ RunOK(x) /\ l \in Loop /\ LoopOK(l, x) /\ loop \in [Worker -> Loop]
  BY DEF IInv, TypeOK
<1>1. ASSUME NEW pc \in {"none", "claim", "ended"}
      PROVE  LET y == [NoRun EXCEPT !.pc = pc]
             IN  y \in Run /\ RunOK(y) /\ y.pc = pc /\ Alone(w, y)
  BY DEF NoRun, Run, RunOK, Alone, Handling
<1>2. CASE Tick(w)
  <2> DEFINE m == [l EXCEPT !.timer = "none", !.active = TRUE]
  <2>1. m \in Loop /\ m.stopped = l.stopped /\ m.timer = "none" /\ m.active
    BY <1>0 DEF Loop
  <2>2. loop' = [loop EXCEPT ![w] = m]
    BY <1>0, <1>2 DEF Tick, Loop
  <2>3. phase = "started"
    BY <1>0, <1>2 DEF Tick, LoopOK, IInv, PhaseOK
  <2>4. LoopOK(m, [NoRun EXCEPT !.pc = "claim"])
    BY <1>1, <2>1 DEF LoopOK
  <2>5. Set(w, [NoRun EXCEPT !.pc = "claim"]) /\ UNCHANGED <<phase, disposal>>
    BY <1>2 DEF Tick, hostVars
  <2> HIDE DEF m
  <2> QED
    BY <1>1, <2>1, <2>2, <2>3, <2>4, <2>5, WorkerStep
<1>3. CASE Result(w)
  <2>1. PICK delay \in {"now", "later"} :
          loop' = [loop EXCEPT ![w] = Scheduled([l EXCEPT !.wake = FALSE], delay)]
    BY <1>3 DEF Result
  <2> DEFINE m == Scheduled([l EXCEPT !.wake = FALSE], delay)
  <2>2. m \in Loop /\ m.stopped = l.stopped /\ m.active = l.active
          /\ (m.timer # "none" => ~m.stopped)
    BY <1>0 DEF Loop, Scheduled, LoopOK
  <2>3. l.active
    BY <1>0, <1>3 DEF LoopOK, Result, At
  <2>4. LoopOK(m, [NoRun EXCEPT !.pc = "ended"])
    BY <1>1, <2>2, <2>3 DEF LoopOK
  <2>5. Set(w, [NoRun EXCEPT !.pc = "ended"]) /\ UNCHANGED <<phase, disposal>>
    BY <1>3 DEF Result, hostVars
  <2> HIDE DEF m
  <2>6. loop' = [loop EXCEPT ![w] = m]
    BY <2>1 DEF m
  <2> QED
    BY <1>1, <2>2, <2>3, <2>4, <2>5, <2>6, WorkerStep
<1>4. CASE Ended(w)
  <2> DEFINE m == [l EXCEPT !.active = FALSE]
  <2>1. m \in Loop /\ m.stopped = l.stopped /\ ~m.active /\ m.timer = l.timer
    BY <1>0 DEF Loop
  <2>2. loop' = [loop EXCEPT ![w] = m]
    BY <1>0, <1>4 DEF Ended, Loop
  <2>3. NoRun \in Run /\ RunOK(NoRun) /\ NoRun.pc = "none" /\ Alone(w, NoRun)
    BY DEF NoRun, Run, RunOK, Alone, Handling
  <2>4. LoopOK(m, NoRun)
    BY <1>0, <2>1, <2>3 DEF LoopOK
  <2>5. Set(w, NoRun) /\ UNCHANGED <<phase, disposal>>
    BY <1>4 DEF Ended, hostVars
  <2> HIDE DEF m
  <2> QED
    BY <2>1, <2>2, <2>3, <2>4, <2>5, WorkerStep
<1> QED
  BY <1>2, <1>3, <1>4

\* A stop aborts runs and stops loops, and changes nothing else of them.
LEMMA StopLoopsOK ==
  ASSUME IInv, StopLoops
  PROVE  /\ ex' \in [Worker -> Run] /\ loop' \in [Worker -> Loop]
         /\ OneRun'
         /\ \A w \in Worker : /\ RunOK(ex'[w]) /\ LoopOK(loop'[w], ex'[w])
                              /\ loop'[w].stopped
<1>1. ASSUME NEW w \in Worker
      PROVE  /\ ex'[w] \in Run /\ RunOK(ex'[w]) /\ ex'[w].pc = ex[w].pc
             /\ ex'[w].job = ex[w].job /\ ex'[w].registered = ex[w].registered
  <2>1. ex[w] \in Run /\ RunOK(ex[w]) /\ ex'[w] = Aborted(ex[w])
    BY DEF IInv, TypeOK, StopLoops
  <2> QED
    BY <2>1 DEF Aborted, Run, RunOK
<1>2. ASSUME NEW w \in Worker
      PROVE  /\ loop'[w] \in Loop /\ loop'[w].stopped /\ loop'[w].timer = "none"
             /\ loop'[w].active = loop[w].active
  BY DEF IInv, TypeOK, StopLoops, Loop
<1>3. ASSUME NEW w \in Worker PROVE LoopOK(loop'[w], ex'[w])
  BY <1>1, <1>2 DEF IInv, LoopOK
<1>4. OneRun'
  BY <1>1 DEF IInv, OneRun
<1>5. ex' \in [Worker -> Run] /\ loop' \in [Worker -> Loop]
  BY <1>1, <1>2 DEF StopLoops
<1> QED
  BY <1>1, <1>2, <1>3, <1>4, <1>5

\* The steps of the host.
LEMMA HostSteps ==
  ASSUME IInv, StoreOK', Start \/ Stop \/ Stopped \/ Dispose \/ Close \/ Wake
  PROVE  IInv'
<1>1. CASE Start
  <2>1. ASSUME NEW w \in Worker
        PROVE  /\ loop'[w] \in Loop /\ ~loop'[w].stopped /\ ~loop'[w].active
               /\ ex[w].pc = "none"
    <3>1. loop'[w] = [NoLoop EXCEPT !.stopped = FALSE, !.timer = "now"]
      BY <1>1 DEF Start
    <3>2. ex[w].pc = "none"
      BY <1>1 DEF Start, IInv, PhaseOK, LoopOK
    <3> QED
      BY <3>1, <3>2 DEF NoLoop, Loop
  <2>2. ex' = ex /\ disposal' = disposal /\ phase' = "started" /\ disposal = "no"
    BY <1>1 DEF Start
  <2>3. loop' \in [Worker -> Loop]
    BY <1>1, <2>1 DEF Start
  <2>4. TypeOK' /\ OneRun' /\ PhaseOK'
    BY <2>2, <2>3 DEF IInv, TypeOK, StoreOK, OneRun, PhaseOK
  <2>5. \A w \in Worker : RunOK(ex'[w]) /\ LoopOK(loop'[w], ex'[w])
    BY <2>1, <2>2 DEF IInv, LoopOK
  <2> QED
    BY <2>4, <2>5 DEF IInv
<1>2. CASE Stop \/ (Dispose /\ phase = "started")
  <2>1. StopLoops /\ phase' = "stopping" /\ disposal' \in {"no", "asked"}
    BY <1>2 DEF Stop, Dispose, StopLoops
  <2>2. TypeOK' /\ PhaseOK'
    BY <2>1, StopLoopsOK DEF TypeOK, PhaseOK, StoreOK
  <2> QED
    BY <2>1, <2>2, StopLoopsOK DEF IInv
<1>3. CASE Stopped \/ (Dispose /\ phase # "started")
  <2>1. /\ UNCHANGED <<ex, loop>>
        /\ phase' = phase \/ (phase' = "off" /\ \A w \in Worker : ~loop[w].active)
        /\ disposal' = disposal \/ (disposal = "no" /\ disposal' = "asked")
        /\ phase # "started" /\ phase' \in {"off", "stopping"}
    BY <1>3 DEF Stopped, Dispose, IInv, TypeOK
  <2>2. TypeOK' /\ PhaseOK' /\ OneRun'
    BY <2>1 DEF IInv, TypeOK, StoreOK, PhaseOK, OneRun
  <2> QED
    BY <2>1, <2>2 DEF IInv
<1>4. CASE Close
  <2>1. ASSUME NEW w \in Worker PROVE ex'[w] = ex[w]
    <3>1. ~ex[w].observed /\ ex[w].observed \in BOOLEAN /\ ex[w] \in Run
      BY <1>4 DEF Close, IInv, PhaseOK, LoopOK, RunOK, TypeOK, Run
    <3>2. ex'[w] = [ex[w] EXCEPT !.observed = FALSE]
      BY <1>4 DEF Close
    <3> QED
      BY <3>1, <3>2 DEF Run
  <2>2. ex' \in [Worker -> Run]
    BY <1>4, <2>1 DEF Close, IInv, TypeOK
  <2>3. UNCHANGED <<loop, phase>> /\ phase = "off" /\ disposal' = "closed"
    BY <1>4 DEF Close
  <2>4. TypeOK'
    BY <2>2, <2>3 DEF IInv, TypeOK, StoreOK
  <2>5. PhaseOK'
    BY <2>3 DEF IInv, PhaseOK
  <2>6. OneRun'
    BY <2>1 DEF IInv, OneRun
  <2> QED
    BY <2>1, <2>3, <2>4, <2>5, <2>6 DEF IInv
<1>5. CASE Wake
  <2>1. ASSUME NEW w \in Worker
        PROVE  /\ loop'[w] \in Loop /\ loop'[w].active = loop[w].active
               /\ loop'[w].stopped = loop[w].stopped
               /\ loop'[w].timer # "none" => ~loop'[w].stopped
    <3>1. loop[w] \in Loop /\ LoopOK(loop[w], ex[w])
      BY DEF IInv, TypeOK
    <3>2. loop'[w] = IF loop[w].active THEN [loop[w] EXCEPT !.wake = TRUE]
                     ELSE Scheduled([loop[w] EXCEPT !.wake = FALSE], "now")
      BY <1>5 DEF Wake
    <3> QED
      BY <3>1, <3>2 DEF Loop, LoopOK, Scheduled
  <2>2. loop' \in [Worker -> Loop]
    BY <1>5, <2>1 DEF Wake
  <2>3. ex' = ex /\ UNCHANGED <<phase, disposal>>
    BY <1>5 DEF Wake, hostVars
  <2>4. TypeOK' /\ OneRun' /\ PhaseOK'
    BY <2>1, <2>2, <2>3 DEF IInv, TypeOK, StoreOK, OneRun, PhaseOK
  <2>5. \A w \in Worker : RunOK(ex'[w]) /\ LoopOK(loop'[w], ex'[w])
    BY <2>1, <2>3 DEF IInv, LoopOK
  <2> QED
    BY <2>4, <2>5 DEF IInv
<1> QED
  BY <1>1, <1>2, <1>3, <1>4, <1>5

-----------------------------------------------------------------------------

\* The invariant of the host holds at the start and after every step.
THEOREM Inductive == Spec => []IInv
<1>1. Init => IInv
  <2> SUFFICES ASSUME Init PROVE IInv
    OBVIOUS
  <2>1. NoRun \in Run /\ RunOK(NoRun) /\ NoRun.pc = "none" /\ ~NoRun.registered
    BY DEF NoRun, Run, RunOK, Handling
  <2>2. NoLoop \in Loop /\ NoLoop.stopped /\ ~NoLoop.active /\ LoopOK(NoLoop, NoRun)
    BY <2>1 DEF NoLoop, Loop, LoopOK
  <2> QED
    BY <2>1, <2>2 DEF Init, IInv, TypeOK, OneRun, PhaseOK
<1>2. IInv /\ [Next]_vars => IInv'
  <2> SUFFICES ASSUME IInv, [Next]_vars PROVE IInv'
    OBVIOUS
  <2>0. StoreOK'
    BY StoreStep
  <2>1. CASE UNCHANGED <<loop, ex, phase, disposal>>
    BY <2>0, <2>1 DEF IInv, TypeOK, StoreOK, OneRun, PhaseOK
  <2>2. ASSUME NEW j \in Job, Lapse(j) \/ Resume(j) \/ Elsewhere(j) PROVE IInv'
    BY <2>1, <2>2 DEF Lapse, Resume, Elsewhere, hostVars
  <2> QED
    BY <2>0, <2>1, <2>2, RunSteps, LoopSteps, HostSteps DEF Next, RunStep, vars, hostVars
<1> QED
  BY <1>1, <1>2, PTL DEF Spec

\* Once a stop has resolved no run, heartbeat or timer of any worker is left.
THEOREM StopIsQuiet == Spec => []StoppedQuiet
<1>1. IInv => StoppedQuiet
  <2> SUFFICES ASSUME IInv, phase = "off", NEW w \in Worker
               PROVE  ex[w].pc = "none" /\ ex[w].beat = "off" /\ loop[w].timer = "none"
                        /\ ~loop[w].active
    BY DEF StoppedQuiet
  <2>1. ~loop[w].active /\ loop[w].stopped
    BY DEF IInv, PhaseOK
  <2> QED
    BY <2>1 DEF IInv, LoopOK, RunOK, Handling
<1> QED
  BY <1>1, Inductive, PTL

\* However many workers a host has, no handler is refused its observation.
THEOREM ObservationAccepted == Spec => []ObserveAccepted
<1>1. IInv => ObserveAccepted
  BY DEF IInv, RunOK, ObserveAccepted
<1> QED
  BY <1>1, Inductive, PTL

\* A heartbeat never outlives the registration of its run.
THEOREM HeartbeatsOwned == Spec => []BeatsOwned
<1>1. IInv => BeatsOwned
  BY DEF IInv, RunOK, BeatsOwned
<1> QED
  BY <1>1, Inductive, PTL
=============================================================================
