----------------------- MODULE ControlObserverProofs -----------------------
(***************************************************************************)
(* Theorems about ControlObserver, for every set of attempts and jobs and  *)
(* every limit of a query.                                                 *)
(***************************************************************************)
EXTENDS ControlObserver, TLAPS

\* The observer's timer and its query are never there together, and both are
\* somebody's: a timer an observed attempt's, a query one whose stop awaits it.
AtRest ==
  /\ ~(poll.on /\ timer)
  /\ timer => Observed # {}
  /\ poll.on => \E a \in Attempt : st[a] \in {"observed", "stopping"}

\* A query whose cursor was not rewound began at the cursor.
QueryAtCursor == poll.on /\ ~poll.moved => poll.after = cursor

\* The answer of a query is a gapless part of the log, up to an event of it.
PageWhole ==
  poll.on /\ poll.read =>
    /\ poll.last = poll.after \/ \E e \in event : e.key = poll.last
    /\ \A e \in event :
         ~e.late /\ poll.after < e.key /\ e.key <= poll.last => e \in poll.got

\* The cursor is not ahead of the log but for an attempt that begins there.
CursorBack ==
  \A a \in Observed : cursor <= floor[a] \/ \E e \in event : cursor <= e.key

IInv == TypeOK /\ AtRest /\ QueryAtCursor /\ PageWhole /\ CursorBack /\ ControlsHeard

-----------------------------------------------------------------------------

\* An event that is not late stands after all the others
LEMMA OnTime ==
  ASSUME TypeOK, NEW c \in Control, NEW key \in 1 .. MaxKey, Record(c, key)
  PROVE  /\ event \subseteq event'
         /\ \A e \in event' \ event : e.key = key /\ e \in Event
         /\ \A e \in event' \ event : ~e.late => \A d \in event : d.key < e.key
<1> DEFINE new == [key |-> key, control |-> c, late |-> \E e \in event : e.key > key]
<1>1. event' = event \cup {new}
  BY DEF Record
<1>2. new.key = key /\ (new.late <=> \E e \in event : e.key > key)
  OBVIOUS
<1>3. (\E e \in event : e.key > key) \in BOOLEAN
  OBVIOUS
<1>4. new \in Event
  BY <1>3, BoundAssumption DEF Event, Keys
<1>5. \A d \in event : d.key # key /\ d.key \in Nat
  BY BoundAssumption DEF Record, TypeOK, Event, Keys
<1> HIDE DEF new
<1>6. ~new.late => \A d \in event : d.key < key
  BY <1>2, <1>5
<1> QED
  BY <1>1, <1>2, <1>4, <1>6

\* A query that begins has its type and its cursor.
LEMMA PollTypes ==
  /\ NoPoll \in Poll /\ ~NoPoll.on
  /\ \A k \in Keys :
       /\ NewPoll(k) \in Poll
       /\ NewPoll(k).after = k /\ ~NewPoll(k).read /\ NewPoll(k).on
<1>1. 0 \in Keys
  BY BoundAssumption DEF Keys
<1> QED
  BY <1>1 DEF NoPoll, NewPoll, Query, Poll

\* Types are kept by every step.
LEMMA TypeStep == TypeOK /\ [Next]_vars => TypeOK'
<1> SUFFICES ASSUME TypeOK, [Next]_vars PROVE TypeOK'
  OBVIOUS
<1> USE BoundAssumption
<1>1. ASSUME NEW c \in Control, NEW key \in 1 .. MaxKey, Record(c, key) PROVE TypeOK'
  <2>1. event' \subseteq Event
    BY <1>1, OnTime DEF TypeOK
  <2> QED
    BY <1>1, <2>1 DEF Record, TypeOK
<1>2. ASSUME NEW a \in Attempt, NEW before \in Keys, Start(a, before) PROVE TypeOK'
  BY <1>2 DEF Start, TypeOK, State
<1>3. ASSUME NEW a \in Attempt, Observe(a) PROVE TypeOK'
  <2>1. cursor' \in Keys
    BY <1>3 DEF Observe, TypeOK
  <2>2. poll' \in Poll
    <3>1. CASE poll.on
      <4>1. (poll.moved \/ Rewinds(a)) \in BOOLEAN
        OBVIOUS
      <4>2. poll' = [poll EXCEPT !.moved = poll.moved \/ Rewinds(a)]
        BY <1>3, <3>1 DEF Observe, StartPoll
      <4> HIDE DEF Rewinds
      <4> QED
        BY <4>1, <4>2 DEF TypeOK, Poll
    <3>2. CASE ~poll.on /\ timer
      BY <1>3, <3>2 DEF Observe, StartPoll, TypeOK
    <3>3. CASE ~poll.on /\ ~timer
      <4>1. poll' = NewPoll(cursor')
        BY <1>3, <3>3 DEF Observe, StartPoll
      <4> QED
        BY <2>1, <4>1, PollTypes
    <3> QED
      BY <3>1, <3>2, <3>3
  <2> QED
    BY <1>3, <2>1, <2>2 DEF Observe, TypeOK, State
<1>4. CASE PollReads
  <2>1. PICK n \in {poll.after} \cup {e.key : e \in event} :
          poll' = [poll EXCEPT !.read = TRUE, !.last = n,
                     !.got = {e \in {d \in event : d.key > poll.after} : e.key <= n}]
    BY <1>4 DEF PollReads
  <2>2. n \in Keys
    BY <2>1 DEF TypeOK, Event, Poll
  <2> QED
    BY <1>4, <2>1, <2>2 DEF PollReads, TypeOK, Poll
<1>5. CASE PollApplies
  <2>1. cursor' \in Keys
    BY <1>5 DEF PollApplies, TypeOK, Poll
  <2> QED
    BY <1>5, <2>1, PollTypes DEF PollApplies, PollOver, Observed, TypeOK
<1>6. CASE PollFails
  BY <1>6, PollTypes DEF PollFails, PollOver, TypeOK
<1>7. CASE Timer
  BY <1>7, PollTypes DEF Timer, TypeOK
<1>8. ASSUME NEW a \in Attempt, Stop(a) PROVE TypeOK'
  BY <1>8 DEF Stop, TypeOK, State
<1>9. ASSUME NEW a \in Attempt, Stopped(a) PROVE TypeOK'
  BY <1>9 DEF Stopped, TypeOK, State
<1>10. CASE Close
  BY <1>10 DEF Close, TypeOK
<1>11. CASE UNCHANGED vars
  BY <1>11 DEF vars, TypeOK
<1> QED
  BY <1>1, <1>2, <1>3, <1>4, <1>5, <1>6, <1>7, <1>8, <1>9, <1>10, <1>11 DEF Next

\* The query and the timer of the observer are kept at rest by every step.
LEMMA AtRestStep == TypeOK /\ AtRest /\ [Next]_vars => AtRest'
<1> SUFFICES ASSUME TypeOK, AtRest, [Next]_vars PROVE AtRest'
  OBVIOUS
<1>1. ASSUME NEW c \in Control, NEW key \in 1 .. MaxKey, Record(c, key) PROVE AtRest'
  BY <1>1 DEF Record, AtRest, Observed
<1>2. ASSUME NEW a \in Attempt, NEW before \in Keys, Start(a, before) PROVE AtRest'
  BY <1>2 DEF Start, AtRest, Observed, TypeOK
<1>3. ASSUME NEW a \in Attempt, Observe(a) PROVE AtRest'
  <2>1. st' = [st EXCEPT ![a] = "observed"] /\ timer' = timer /\ st'[a] = "observed"
    BY <1>3 DEF Observe, TypeOK
  <2>2. poll'.on => ~timer
    <3>1. CASE poll.on
      BY <3>1 DEF AtRest
    <3>2. CASE ~poll.on /\ timer
      BY <1>3, <3>2 DEF Observe, StartPoll
    <3> QED
      BY <3>1, <3>2
  <2> QED
    BY <2>1, <2>2 DEF AtRest, Observed
<1>4. CASE PollReads
  <2>1. poll'.on = poll.on
    BY <1>4 DEF PollReads, TypeOK, Poll
  <2> QED
    BY <1>4, <2>1 DEF PollReads, AtRest, Observed
<1>5. CASE PollApplies
  BY <1>5, PollTypes DEF PollApplies, PollOver, AtRest, Observed
<1>6. CASE PollFails
  BY <1>6, PollTypes DEF PollFails, PollOver, AtRest, Observed
<1>7. CASE Timer
  BY <1>7 DEF Timer, AtRest, Observed
<1>8. ASSUME NEW a \in Attempt, Stop(a) PROVE AtRest'
  <2>1. a \in Observed /\ \A b \in Attempt \ {a} : st'[b] = st[b]
    BY <1>8 DEF Stop, TypeOK, Observed
  <2>2. timer' => \E b \in Attempt \ {a} : st[b] = "observed"
    BY <1>8, <2>1 DEF Stop, Observed
  <2>3. poll.on => \E b \in Attempt : st'[b] \in {"observed", "stopping"}
    <3>1. CASE Observed = {a}
      BY <1>8, <3>1 DEF Stop, TypeOK
    <3>2. CASE Observed # {a}
      BY <2>1, <3>2 DEF Observed
    <3> QED
      BY <3>1, <3>2
  <2> QED
    BY <1>8, <2>1, <2>2, <2>3 DEF Stop, AtRest, Observed
<1>9. ASSUME NEW a \in Attempt, Stopped(a) PROVE AtRest'
  BY <1>9 DEF Stopped, AtRest, Observed, TypeOK
<1>10. CASE Close
  BY <1>10 DEF Close, AtRest
<1>11. CASE UNCHANGED vars
  BY <1>11 DEF vars, AtRest, Observed
<1> QED
  BY <1>1, <1>2, <1>3, <1>4, <1>5, <1>6, <1>7, <1>8, <1>9, <1>10, <1>11 DEF Next

\* A query that is not rewound stays at the cursor.
LEMMA QueryStep == TypeOK /\ QueryAtCursor /\ [Next]_vars => QueryAtCursor'
<1> SUFFICES ASSUME TypeOK, QueryAtCursor, [Next]_vars, poll'.on, ~poll'.moved
             PROVE  poll'.after = cursor'
  BY DEF QueryAtCursor
<1>1. CASE UNCHANGED <<poll, cursor>>
  BY <1>1 DEF QueryAtCursor
<1>2. ASSUME NEW a \in Attempt, Observe(a) PROVE poll'.after = cursor'
  <2>0. cursor' \in Keys
    BY <1>2 DEF Observe, TypeOK
  <2>1. CASE poll.on
    <3>1. poll' = [poll EXCEPT !.moved = poll.moved \/ Rewinds(a)]
      BY <1>2, <2>1 DEF Observe, StartPoll
    <3>2. ~poll.moved /\ ~Rewinds(a) /\ poll'.after = poll.after
      BY <3>1 DEF TypeOK, Poll
    <3> QED
      BY <1>2, <2>1, <3>2 DEF Observe, QueryAtCursor
  <2>2. CASE ~poll.on
    BY <1>2, <2>0, <2>2, PollTypes DEF Observe, StartPoll
  <2> QED
    BY <2>1, <2>2
<1>3. CASE PollReads
  BY <1>3 DEF PollReads, QueryAtCursor, TypeOK, Poll
<1>4. CASE PollApplies \/ PollFails
  BY <1>4, PollTypes DEF PollApplies, PollFails, PollOver
<1>5. CASE Timer
  BY <1>5, PollTypes DEF Timer, TypeOK, QueryAtCursor
<1> QED
  BY <1>1, <1>2, <1>3, <1>4, <1>5
  DEF Next, vars, Record, Start, Stop, Stopped, Close

\* What a query has answered stays a gapless part of the log.
LEMMA PageStep == TypeOK /\ PageWhole /\ [Next]_vars => PageWhole'
<1> SUFFICES ASSUME TypeOK, PageWhole, [Next]_vars, poll'.on, poll'.read
             PROVE  /\ poll'.last = poll'.after \/ \E e \in event' : e.key = poll'.last
                    /\ \A e \in event' : ~e.late /\ poll'.after < e.key
                         /\ e.key <= poll'.last => e \in poll'.got
  BY DEF PageWhole
<1> DEFINE Goal == /\ poll'.last = poll'.after \/ \E e \in event' : e.key = poll'.last
                   /\ \A e \in event' : ~e.late /\ poll'.after < e.key
                         /\ e.key <= poll'.last => e \in poll'.got
<1>1. CASE UNCHANGED <<poll, event>>
  BY <1>1 DEF PageWhole
<1>2. ASSUME NEW c \in Control, NEW key \in 1 .. MaxKey, Record(c, key) PROVE Goal
  <2>1. poll' = poll
    BY <1>2 DEF Record
  <2>2. ASSUME NEW e \in event' \ event, ~e.late, poll.after < e.key, e.key <= poll.last
        PROVE  FALSE
    <3>1. \A d \in event : d.key < e.key
      BY <1>2, <2>2, OnTime
    <3>2. poll.last # poll.after /\ \A d \in event : d.key # poll.last
      BY <2>2, <3>1, BoundAssumption, OnTime, <1>2 DEF TypeOK, Poll, Event, Keys
    <3> QED
      BY <2>1, <3>2 DEF PageWhole
  <2>3. event \subseteq event'
    BY <1>2, OnTime
  <2> QED
    BY <2>1, <2>2, <2>3 DEF PageWhole
<1>3. ASSUME NEW a \in Attempt, Observe(a) PROVE Goal
  <2>0. cursor' \in Keys /\ event' = event
    BY <1>3 DEF Observe, TypeOK
  <2>1. CASE poll.on
    <3>1. poll' = [poll EXCEPT !.moved = poll.moved \/ Rewinds(a)]
      BY <1>3, <2>1 DEF Observe, StartPoll
    <3>2. /\ poll'.after = poll.after /\ poll'.last = poll.last
          /\ poll'.got = poll.got /\ poll'.read = poll.read
      BY <3>1 DEF TypeOK, Poll
    <3> QED
      BY <2>0, <2>1, <3>2 DEF PageWhole
  <2>2. CASE ~poll.on
    BY <1>3, <2>0, <2>2, PollTypes DEF Observe, StartPoll
  <2> QED
    BY <2>1, <2>2
<1>4. CASE PollReads
  <2>1. PICK n \in {poll.after} \cup {e.key : e \in event} :
          poll' = [poll EXCEPT !.read = TRUE, !.last = n,
                     !.got = {e \in {d \in event : d.key > poll.after} : e.key <= n}]
    BY <1>4 DEF PollReads
  <2>2. /\ poll'.after = poll.after /\ poll'.last = n /\ event' = event
        /\ poll'.got = {e \in {d \in event : d.key > poll.after} : e.key <= n}
    BY <1>4, <2>1 DEF PollReads, TypeOK, Poll
  <2>3. \A e \in event : e.key \in Nat
    BY BoundAssumption DEF TypeOK, Event, Keys
  <2>4. poll.after \in Nat /\ n \in Nat
    BY <2>3, BoundAssumption DEF TypeOK, Poll, Keys
  <2> QED
    BY <2>2, <2>3, <2>4
<1>5. CASE PollApplies \/ PollFails
  BY <1>5, PollTypes DEF PollApplies, PollFails, PollOver
<1>6. CASE Timer
  BY <1>6, PollTypes DEF Timer, TypeOK, PageWhole
<1> QED
  BY <1>1, <1>2, <1>3, <1>4, <1>5, <1>6 DEF Next, vars, Start, Stop, Stopped, Close

\* The cursor stays behind the log or at the start of an attempt.
LEMMA CursorStep ==
  TypeOK /\ QueryAtCursor /\ PageWhole /\ CursorBack /\ [Next]_vars => CursorBack'
<1> SUFFICES ASSUME TypeOK, QueryAtCursor, PageWhole, CursorBack, [Next]_vars
             PROVE  CursorBack'
  OBVIOUS
<1>0. /\ \A e \in event : e.key \in Nat
      /\ \A a \in Attempt : floor[a] \in Nat
      /\ cursor \in Nat
  BY BoundAssumption DEF TypeOK, Event, Keys
<1>1. CASE UNCHANGED <<event, st, floor, cursor>>
  BY <1>1 DEF CursorBack, Observed
<1>2. ASSUME NEW c \in Control, NEW key \in 1 .. MaxKey, Record(c, key)
      PROVE  CursorBack'
  <2>1. event \subseteq event' /\ UNCHANGED <<st, floor, cursor>>
    BY <1>2, OnTime DEF Record
  <2> QED
    BY <2>1 DEF CursorBack, Observed
<1>3. ASSUME NEW a \in Attempt, NEW before \in Keys, Start(a, before)
      PROVE  CursorBack'
  <2>1. Observed' = Observed /\ a \notin Observed
    BY <1>3 DEF Start, TypeOK, Observed
  <2>2. \A b \in Observed : floor'[b] = floor[b]
    BY <1>3, <2>1 DEF Start, TypeOK, Observed
  <2> QED
    BY <1>3, <2>1, <2>2 DEF Start, CursorBack
<1>4. ASSUME NEW a \in Attempt, Observe(a) PROVE CursorBack'
  <2>1. /\ Observed' = Observed \cup {a} /\ UNCHANGED <<event, floor>>
        /\ cursor' = IF Rewinds(a) THEN floor[a] ELSE cursor
    BY <1>4 DEF Observe, TypeOK, Observed
  <2>2. cursor' <= floor[a]
    BY <1>0, <2>1 DEF Rewinds
  <2>3. ASSUME NEW b \in Observed
        PROVE  cursor' <= floor[b] \/ \E e \in event : cursor' <= e.key
    <3>1. cursor' <= cursor /\ cursor' \in Nat
      BY <1>0, <2>1, <2>3 DEF Rewinds
    <3>2. b \in Attempt
      BY DEF Observed
    <3> QED
      BY <1>0, <3>1, <3>2 DEF CursorBack
  <2> QED
    BY <2>1, <2>2, <2>3 DEF CursorBack
<1>5. CASE PollApplies
  <2>1. UNCHANGED <<event, st, floor>> /\ poll.on /\ poll.read
    BY <1>5 DEF PollApplies
  <2>2. cursor' = cursor \/ \E e \in event : e.key = cursor'
    BY <1>5, <2>1 DEF PollApplies, QueryAtCursor, PageWhole
  <2> QED
    BY <1>0, <2>1, <2>2 DEF CursorBack, Observed
<1>6. ASSUME NEW a \in Attempt, Stop(a) \/ Stopped(a) PROVE CursorBack'
  <2>1. Observed' \subseteq Observed /\ UNCHANGED <<event, floor, cursor>>
    BY <1>6 DEF Stop, Stopped, TypeOK, Observed
  <2> QED
    BY <2>1 DEF CursorBack
<1> QED
  BY <1>1, <1>2, <1>3, <1>4, <1>5, <1>6 DEF Next, vars, PollReads, PollFails, Timer, Close

\* No step passes the cursor over a control.
LEMMA HeardStep == IInv /\ [Next]_vars => ControlsHeard'
<1> SUFFICES ASSUME IInv, [Next]_vars,
                    NEW a \in Observed', NEW e \in event', Matches(a, e), ~e.late,
                    floor'[a] < e.key, e.key <= cursor'
             PROVE  a \in aborted'
  BY DEF ControlsHeard, Matches
<1>0. /\ \A d \in event : d.key \in Nat
      /\ \A b \in Attempt : floor[b] \in Nat
      /\ cursor \in Nat
      /\ a \in Attempt
  BY BoundAssumption DEF IInv, TypeOK, Event, Keys, Observed
<1>1. aborted \subseteq aborted'
  BY DEF Next, vars, Record, Start, Observe, PollReads, PollApplies, PollFails, Timer,
         Stop, Stopped, Close
<1>2. CASE /\ a \in Observed /\ e \in event /\ floor'[a] = floor[a]
           /\ e.key <= cursor
  BY <1>1, <1>2 DEF IInv, ControlsHeard
<1>3. CASE UNCHANGED <<event, st, floor, cursor>>
  BY <1>2, <1>3 DEF Observed
<1>4. ASSUME NEW c \in Control, NEW key \in 1 .. MaxKey, Record(c, key)
      PROVE  a \in aborted'
  <2>1. UNCHANGED <<st, floor, cursor>>
    BY <1>4 DEF Record
  <2>2. CASE e \in event
    BY <1>2, <2>1, <2>2 DEF Observed
  <2>3. CASE e \notin event
    <3>1. /\ \A d \in event : d.key < e.key
          /\ e.key \in Nat
      BY <1>4, <2>3, OnTime DEF IInv
    <3>2. a \in Observed /\ floor[a] < e.key /\ e.key <= cursor
      BY <2>1 DEF Observed
    <3>3. ~(cursor <= floor[a]) /\ \A d \in event : ~(cursor <= d.key)
      BY <1>0, <3>1, <3>2
    <3> QED
      BY <3>2, <3>3 DEF IInv, CursorBack
  <2> QED
    BY <2>2, <2>3
<1>5. ASSUME NEW b \in Attempt, NEW before \in Keys, Start(b, before)
      PROVE  a \in aborted'
  <2>1. a \in Observed /\ a # b
    BY <1>5 DEF Start, IInv, TypeOK, Observed
  <2> QED
    BY <1>2, <1>5, <2>1 DEF Start, IInv, TypeOK
<1>6. ASSUME NEW b \in Attempt, Observe(b) PROVE a \in aborted'
  <2>1. /\ Observed' = Observed \cup {b} /\ UNCHANGED <<event, floor>>
        /\ cursor' = IF Rewinds(b) THEN floor[b] ELSE cursor
    BY <1>6 DEF Observe, IInv, TypeOK, Observed
  <2>2. a # b
    <3>1. cursor' <= floor[b]
      BY <1>0, <2>1 DEF Rewinds
    <3>2. e.key \in Nat /\ cursor' \in Nat
      BY <1>0, <2>1
    <3> QED
      BY <1>0, <2>1, <3>1, <3>2
  <2>3. a \in Observed /\ cursor' <= cursor /\ cursor' \in Nat /\ e.key \in Nat
    BY <1>0, <2>1, <2>2 DEF Rewinds
  <2>4. e.key <= cursor
    BY <1>0, <2>3
  <2> QED
    BY <1>2, <2>1, <2>3, <2>4
<1>7. CASE PollApplies
  <2>1. UNCHANGED <<event, st, floor>> /\ poll.on /\ poll.read
    BY <1>7 DEF PollApplies
  <2>2. a \in Observed /\ e \in event
    BY <2>1 DEF Observed
  <2>3. CASE e.key <= cursor
    BY <1>2, <2>1, <2>2, <2>3
  <2>4. CASE ~(e.key <= cursor)
    <3>1. cursor' = poll.last /\ poll.after = cursor
      BY <1>7, <2>1, <2>4 DEF PollApplies, IInv, QueryAtCursor
    <3>2. e \in poll.got
      BY <1>0, <2>1, <2>2, <2>4, <3>1 DEF IInv, PageWhole
    <3> QED
      BY <1>7, <2>2, <3>2 DEF PollApplies
  <2> QED
    BY <2>3, <2>4
<1>8. ASSUME NEW b \in Attempt, Stop(b) \/ Stopped(b) PROVE a \in aborted'
  <2>1. Observed' \subseteq Observed /\ UNCHANGED <<event, floor, cursor>>
    BY <1>8 DEF Stop, Stopped, IInv, TypeOK, Observed
  <2> QED
    BY <1>2, <2>1
<1> QED
  BY <1>3, <1>4, <1>5, <1>6, <1>7, <1>8 DEF Next, vars, PollReads, PollFails, Timer, Close

-----------------------------------------------------------------------------

\* What the observer relies on holds at the start and after every step.
THEOREM Inductive == Spec => []IInv
<1>1. Init => IInv
  <2> SUFFICES ASSUME Init PROVE IInv
    OBVIOUS
  <2>1. TypeOK
    <3>1. 0 \in Keys /\ 0 \in 0 .. MaxFaults
      BY BoundAssumption DEF Keys
    <3> QED
      BY <3>1, PollTypes DEF Init, TypeOK, State
  <2>2. Observed = {} /\ ~poll.on /\ ~timer
    BY PollTypes DEF Init, Observed
  <2> QED
    BY <2>1, <2>2
    DEF IInv, AtRest, QueryAtCursor, PageWhole, CursorBack, ControlsHeard
<1>2. IInv /\ [Next]_vars => IInv'
  BY TypeStep, AtRestStep, QueryStep, PageStep, CursorStep, HeardStep DEF IInv
<1> QED
  BY <1>1, <1>2, PTL DEF Spec

\* The cursor of the observer never passes over a control that was recorded on
\* time for an attempt the host is running, for any number of attempts that join
\* and leave while queries are in flight and for any limit of a query.
THEOREM NoControlPassedOver == Spec => []ControlsHeard
<1>1. IInv => ControlsHeard
  BY DEF IInv
<1> QED
  BY <1>1, Inductive, PTL

\* When the last stop has returned the observer has neither timer nor query.
THEOREM RestAfterLastStop == Spec => []QuietWhenIdle
<1>1. IInv => QuietWhenIdle
  BY DEF IInv, AtRest, QuietWhenIdle, Observed
<1> QED
  BY <1>1, Inductive, PTL
=============================================================================
