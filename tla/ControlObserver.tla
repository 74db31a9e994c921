-------------------------- MODULE ControlObserver --------------------------
(***************************************************************************)
(* The TurnControlEventObserver of a runtime host: one poll of the event   *)
(* log, with one cursor, that serves every attempt the host runs.  It      *)
(* aborts the run of an attempt when the log shows a cancellation of its   *)
(* job or an interruption of the attempt, recorded by any host.            *)
(*                                                                         *)
(* Observations come and go while a query is in flight.  An event's place  *)
(* in the log is its key (occurredAt, id); it is dated before the store's  *)
(* lock is taken, so that it may come to stand before others that were     *)
(* recorded earlier.                                                       *)
(***************************************************************************)
EXTENDS Naturals, FiniteSets

CONSTANTS
  Attempt,   \* the attempts this host starts
  Job,       \* their jobs
  JobOf,     \* the job of an attempt
  Limit,     \* CONTROL_EVENT_LIMIT
  MaxKey,    \* bound: keys of events
  MaxFaults  \* bound: queries that fail

ASSUME JobAssumption == JobOf \in [Attempt -> Job]
ASSUME BoundAssumption == Limit \in Nat \ {0} /\ {MaxKey, MaxFaults} \subseteq Nat

VARIABLES
  event,   \* the control events of the log
  st,      \* an attempt is new, started, observed, stopping (its stop awaits the
           \* query in flight) or stopped
  floor,   \* the key before the attempt's start
  aborted, \* the attempts whose run the observer has aborted
  poll,    \* the query: its cursor, whether it was answered, with which events up
           \* to which key, and whether cursorRevision has changed since it began
  cursor,  \* the observer's cursor
  timer,   \* the observer's timer is set
  closed,  \* the observer is closed
  faults   \* failed queries so far

vars == <<event, st, floor, aborted, poll, cursor, timer, closed, faults>>

Keys == 0 .. MaxKey
State == {"new", "started", "observed", "stopping", "stopped"}
Control == [kind : {"cancel"}, of : Job] \cup [kind : {"interrupt"}, of : Attempt]
Event == [key : Keys, control : Control, late : BOOLEAN]
Poll == [on : BOOLEAN, after : Keys, read : BOOLEAN, got : SUBSET Event, last : Keys,
         moved : BOOLEAN]

Query(on, after) ==
  [on |-> on, after |-> after, read |-> FALSE, got |-> {}, last |-> 0, moved |-> FALSE]
NoPoll == Query(FALSE, 0)
NewPoll(after) == Query(TRUE, after)

Init ==
  /\ event = {}
  /\ st = [a \in Attempt |-> "new"]
  /\ floor = [a \in Attempt |-> 0]
  /\ aborted = {}
  /\ poll = NoPoll
  /\ cursor = 0
  /\ timer = FALSE
  /\ closed = FALSE
  /\ faults = 0

\* byAttempt
Observed == {a \in Attempt : st[a] = "observed"}

-----------------------------------------------------------------------------
(* The store.                                                              *)

\* a control is recorded while the attempt runs, here or anywhere
Record(c, key) ==
  /\ \A e \in event : e.key # key
  /\ event' = event \cup {[key |-> key, control |-> c,
                           late |-> \E e \in event : e.key > key]}
  /\ UNCHANGED <<st, floor, aborted, poll, cursor, timer, closed, faults>>

\* startTurnAttempt
Start(a, before) ==
  /\ st[a] = "new"
  /\ st' = [st EXCEPT ![a] = "started"]
  /\ floor' = [floor EXCEPT ![a] = before]
  /\ UNCHANGED <<event, aborted, poll, cursor, timer, closed, faults>>

-----------------------------------------------------------------------------
(* turn-control-observer.ts                                                *)

\* the cursor goes back for the first attempt and for one that began before it
Rewinds(a) == Observed = {} \/ floor[a] < cursor

\* startPoll: one query at a time, and none while the timer is set
StartPoll(rewound) ==
  poll' = CASE poll.on -> [poll EXCEPT !.moved = @ \/ rewound]
            [] ~poll.on /\ timer -> poll
            [] OTHER -> NewPoll(cursor')

\* observe: the host has no other run of the job (RuntimeHost), and runs are over
\* when the observer is closed
Observe(a) ==
  /\ st[a] = "started"
  /\ ~closed
  /\ \A b \in Observed : JobOf[b] # JobOf[a]
  /\ st' = [st EXCEPT ![a] = "observed"]
  /\ cursor' = IF Rewinds(a) THEN floor[a] ELSE cursor
  /\ StartPoll(Rewinds(a))
  /\ UNCHANGED <<event, floor, aborted, timer, closed, faults>>

\* queryEvents answers with the first events after the cursor, up to the limit
PollReads ==
  /\ poll.on /\ ~poll.read
  /\ \E n \in {poll.after} \cup {e.key : e \in event} :
       LET after == {e \in event : e.key > poll.after}
           page == {e \in after : e.key <= n}
       IN /\ n >= poll.after
          /\ Cardinality(page) <= Limit
          /\ page = after \/ Cardinality(page) = Limit
          /\ poll' = [poll EXCEPT !.read = TRUE, !.got = page, !.last = n]
  /\ UNCHANGED <<event, st, floor, aborted, cursor, timer, closed, faults>>

\* matchesEvent, and the map a kind of event is looked up in
Matches(a, e) == e.control = [kind |-> "cancel", of |-> JobOf[a]]
                   \/ e.control = [kind |-> "interrupt", of |-> a]

\* the finally of startPoll: the next poll is scheduled while anybody is observed
PollOver ==
  /\ poll' = NoPoll
  /\ timer' = (Observed # {} /\ ~closed)

\* wrong variant of PollApplies: the cursor moves although it was rewound
PollAppliesAnyway ==
  /\ poll.on /\ poll.read
  /\ cursor' = poll.last
  /\ aborted' = aborted \cup {a \in Observed : \E e \in poll.got : Matches(a, e)}
  /\ PollOver
  /\ UNCHANGED <<event, st, floor, closed, faults>>

\* the rest of poll: the cursor moves unless it was rewound meanwhile, and the
\* events are applied to what is observed now
PollApplies ==
  /\ poll.on /\ poll.read
  /\ cursor' = IF poll.moved THEN cursor ELSE poll.last
  /\ aborted' = aborted \cup {a \in Observed : \E e \in poll.got : Matches(a, e)}
  /\ PollOver
  /\ UNCHANGED <<event, st, floor, closed, faults>>

\* wrong variant of PollFails: the poll that failed is the last one
PollFailsForGood ==
  /\ poll.on
  /\ faults < MaxFaults
  /\ faults' = faults + 1
  /\ poll' = NoPoll
  /\ UNCHANGED <<event, st, floor, aborted, cursor, timer, closed>>

\* a query that fails is forgotten
PollFails ==
  /\ poll.on
  /\ faults < MaxFaults
  /\ faults' = faults + 1
  /\ PollOver
  /\ UNCHANGED <<event, st, floor, aborted, cursor, closed>>

Timer ==
  /\ timer
  /\ timer' = FALSE
  /\ poll' = IF closed \/ Observed = {} THEN poll ELSE NewPoll(cursor)
  /\ UNCHANGED <<event, st, floor, aborted, cursor, closed, faults>>

\* wrong variant of Stop: the query in flight is not waited for
StopAtOnce(a) ==
  /\ st[a] = "observed"
  /\ st' = [st EXCEPT ![a] = "stopped"]
  /\ timer' = (timer /\ Observed # {a})
  /\ UNCHANGED <<event, floor, aborted, poll, cursor, closed, faults>>

\* the observation's stop, in the finally of the handler: the last one clears the
\* timer and awaits the query in flight
Stop(a) ==
  /\ st[a] = "observed"
  /\ st' = [st EXCEPT ![a] = IF Observed = {a} /\ poll.on THEN "stopping" ELSE "stopped"]
  /\ timer' = (timer /\ Observed # {a})
  /\ UNCHANGED <<event, floor, aborted, poll, cursor, closed, faults>>

\* the awaited query is over
Stopped(a) ==
  /\ st[a] = "stopping"
  /\ ~poll.on
  /\ st' = [st EXCEPT ![a] = "stopped"]
  /\ UNCHANGED <<event, floor, aborted, poll, cursor, timer, closed, faults>>

\* close, once the host's loops are idle
Close ==
  /\ ~closed
  /\ \A a \in Attempt : st[a] \in {"new", "stopped"}
  /\ closed' = TRUE
  /\ timer' = FALSE
  /\ UNCHANGED <<event, st, floor, aborted, poll, cursor, faults>>

Next ==
  \/ \E c \in Control, key \in 1 .. MaxKey : Record(c, key)
  \/ \E a \in Attempt :
       \/ \E before \in Keys : Start(a, before)
       \/ Observe(a) \/ Stop(a) \/ Stopped(a)
  \/ PollReads \/ PollApplies \/ PollFails \/ Timer \/ Close

Spec == Init /\ [][Next]_vars

\* queries are answered and timers fire
FairSpec == Spec /\ WF_vars(PollReads) /\ WF_vars(PollApplies) /\ WF_vars(Timer)

-----------------------------------------------------------------------------
(* Properties.                                                             *)

TypeOK ==
  /\ event \subseteq Event
  /\ st \in [Attempt -> State]
  /\ floor \in [Attempt -> Keys]
  /\ aborted \subseteq Attempt
  /\ poll \in Poll
  /\ cursor \in Keys
  /\ timer \in BOOLEAN
  /\ closed \in BOOLEAN
  /\ faults \in 0 .. MaxFaults

\* The cursor does not pass over a control of a running attempt: an event behind
\* it has aborted the attempt it is for, over queries in flight, attempts that
\* join with an earlier start, and the limit of a query.  An event that was
\* recorded behind a later one is not promised to be seen
ControlsHeard ==
  \A a \in Observed, e \in event :
    Matches(a, e) /\ ~e.late /\ floor[a] < e.key /\ e.key <= cursor => a \in aborted

\* A control recorded for an observed attempt reaches it: polls go on as long as
\* anybody is observed, whatever fails and whoever joins or leaves
ControlReaches ==
  \A a \in Attempt, n \in Keys :
    (a \in Observed
       /\ \E e \in event : e.key = n /\ Matches(a, e) /\ ~e.late /\ floor[a] < n)
      ~> (a \in aborted \/ a \notin Observed)

\* When the last observation's stop has returned the observer is at rest: it has
\* no timer and no query whose events could be applied to a later attempt
QuietWhenIdle ==
  (\A a \in Attempt : st[a] \notin {"observed", "stopping"}) => ~poll.on /\ ~timer
=============================================================================
