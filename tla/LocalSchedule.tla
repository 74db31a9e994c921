--------------------------- MODULE LocalSchedule ---------------------------
(***************************************************************************)
(* Schedules of an assistant host: definitions, occurrences and the        *)
(* controller that turns a due occurrence into one job.                    *)
(*                                                                         *)
(* Definitions, occurrences and the pending marker of a schedule are       *)
(* entries of the configuration store, each with a revision; a mutation    *)
(* names the revisions it expects and applies as a whole or not at all.    *)
(* The controller of a host sleeps on one timer.  When it wakes it reads   *)
(* the pending occurrences, delivers them, reads the definitions, claims   *)
(* what is due and delivers that.  Every call it awaits is a step of its   *)
(* own: definitions change, clocks tick, jobs end and hosts crash between  *)
(* any two of them, and a call may fail before or after its effect.        *)
(***************************************************************************)
EXTENDS Integers, FiniteSets, FiniteSetsExt

CONSTANTS
  Schedule,      \* schedule ids, numbers: lists are read in their order
  Host,          \* processes that run a controller on the store
  Specs,         \* definitions users write: trigger, enabled and misfire policy
  Grace,         \* misfireGraceMs
  Retain,        \* MAX_RETAINED_SETTLED_OCCURRENCES
  MaxTimerDelay, \* maxTimerDelayMs
  MaxRetryDelay, \* MAX_RETRY_DELAY_MS and MAX_CONTROL_RETRY_MS
  MaxClock,      \* bound: the last instant
  MaxRevision,   \* bound: revisions of a definition
  MaxEdits,      \* bound: changes to definitions
  MaxFaults,     \* bound: failed calls
  MaxStops,      \* bound: crashes and orderly shutdowns
  MaxJumps       \* bound: steps of the wall clock

None == -1
Time == 0 .. MaxClock
Key == Schedule \X (1 .. MaxRevision) \X Time

ASSUME ScheduleAssumption == Schedule \subseteq Nat

ASSUME BoundAssumption ==
  /\ {Grace, Retain, MaxClock, MaxEdits, MaxFaults, MaxStops, MaxJumps} \subseteq Nat
  /\ {MaxTimerDelay, MaxRetryDelay, MaxRevision} \subseteq Nat \ {0}

Skipped == {"misfire", "overlap", "superseded"}
Settled == Skipped \cup {"submitted"}

VARIABLES
  clock,    \* the wall clock
  def,      \* the definition entries; revision 0 stands for no entry
  occ,      \* the occurrence entries; state "none" stands for no entry
  pend,     \* the pending markers: the key of an occurrence, or NoKey
  job,      \* the jobs of the occurrences
  phase,    \* off, running (started) or stopping (disposed, refresh in flight)
  dirty,    \* #dirty
  timer,    \* #timer: what is left of its delay, and the deadline it is for
  failures, \* #controlFailures
  edited,   \* the hosts with a definition mutation not yet published
  r,        \* the refresh in flight: the awaited call and its locals
  plan,     \* history: what was planned for an occurrence when it was claimed
  dropped,  \* history: settled occurrences removed by retention
  used      \* what has been spent of the bounds

storeVars == <<def, occ, pend, job>>
hostVars == <<phase, dirty, timer, failures, edited, r>>
vars == <<clock, storeVars, hostVars, plan, dropped, used>>

NoOccurrence == [state |-> "none", revision |-> 0, attempts |-> 0, next |-> 0]
NoDefinition == [revision |-> 0]
NoTimer == [left |-> None, deadline |-> None]
NoKey == <<0, 0, 0>>
NoCopy == [key |-> NoKey, revision |-> 0, attempts |-> 0, next |-> 0]
NoDue == [key |-> NoKey, kind |-> "none", nextAt |-> None]

\* the locals of a refresh: pc is the call it awaits
Idle ==
  [pc |-> "rest", now |-> 0, stage |-> "pending", keys |-> {}, todo |-> {},
   blocked |-> {}, due |-> {}, item |-> NoDue, deadlines |-> {}, cur |-> NoCopy,
   claimedAt |-> 0, prev |-> NoKey, want |-> NoOccurrence, expired |-> {}]
Refresh(now) == [Idle EXCEPT !.pc = "list", !.now = now]

Entry(spec, revision, at) ==
  [revision |-> revision, updatedAt |-> at, trigger |-> spec.trigger,
   enabled |-> spec.enabled, policy |-> spec.policy]
Definitions ==
  {NoDefinition} \cup {Entry(d, n, at) : d \in Specs, n \in 1 .. MaxRevision, at \in Time}
Rows == [state : {"none", "pending"} \cup Settled, revision : Nat,
         attempts : Nat, next : Nat]
Pcs == {"rest", "list", "fetch", "job", "definition", "history", "previous",
        "submit", "marker", "settle", "reread", "prune", "delete",
        "definitions", "current", "claim", "evidence"}

TypeOK ==
  /\ clock \in Time
  /\ def \in [Schedule -> Definitions]
  /\ occ \in [Key -> Rows]
  /\ pend \in [Schedule -> Key \cup {NoKey}]
  /\ job \in [Key -> {"none", "active", "ended"}]
  /\ phase \in [Host -> {"off", "running", "stopping"}]
  /\ dirty \in [Host -> BOOLEAN]
  /\ timer \in [Host -> {NoTimer} \cup [left : 0 .. MaxTimerDelay, deadline : Nat]]
  /\ failures \in [Host -> 0 .. MaxFaults]
  /\ edited \subseteq Host
  /\ \A h \in Host :
       /\ r[h].pc \in Pcs
       /\ r[h].cur.key \in Key \cup {NoKey}
       /\ r[h].item.key \in Key \cup {NoKey}
       /\ r[h].want \in Rows
       /\ r[h].todo \subseteq [key : Key, revision : Nat, attempts : Nat, next : Nat]
       /\ r[h].deadlines \subseteq Nat
  /\ plan \in [Key -> {"none", "dispatch", "skip"}]
  /\ dropped \subseteq Key

Init ==
  /\ clock = 0
  /\ def = [s \in Schedule |-> NoDefinition]
  /\ occ = [k \in Key |-> NoOccurrence]
  /\ pend = [s \in Schedule |-> NoKey]
  /\ job = [k \in Key |-> "none"]
  /\ phase = [h \in Host |-> "off"]
  /\ dirty = [h \in Host |-> FALSE]
  /\ timer = [h \in Host |-> NoTimer]
  /\ failures = [h \in Host |-> 0]
  /\ edited = {}
  /\ r = [h \in Host |-> Idle]
  /\ plan = [k \in Key |-> "none"]
  /\ dropped = {}
  /\ used = [edits |-> 0, faults |-> 0, stops |-> 0, jumps |-> 0]

Spend(what, max) == used[what] < max /\ used' = [used EXCEPT ![what] = @ + 1]

-----------------------------------------------------------------------------
(* recurrence.ts                                                           *)

\* latestOccurrenceAtOrBefore; a cron trigger is the set of its instants
Latest(t, at) ==
  CASE t.kind = "once" -> IF t.at <= at THEN t.at ELSE None
    [] t.kind = "interval" ->
         IF at < t.anchor THEN None ELSE at - ((at - t.anchor) % t.every)
    [] OTHER -> LET past == {x \in t.times : x <= at}
                IN  IF past = {} THEN None ELSE Max(past)

\* nextOccurrenceAfter
NextAfter(t, at) ==
  CASE t.kind = "once" -> IF t.at > at THEN t.at ELSE None
    [] t.kind = "interval" ->
         IF at < t.anchor THEN t.anchor ELSE at + t.every - ((at - t.anchor) % t.every)
    [] OTHER -> LET future == {x \in t.times : x > at}
                IN  IF future = {} THEN None ELSE Min(future)

\* occurrenceIsActive
IsActive(d, at) == d.trigger.kind = "once" \/ at >= d.updatedAt

\* planLocalScheduleRecurrence and dueOccurrence, for a definition of s
Plan(s, d, now) ==
  LET at == Latest(d.trigger, now)
      nextAt == NextAfter(d.trigger, now)
  IN  IF at = None \/ ~IsActive(d, at)
      THEN [NoDue EXCEPT !.nextAt = nextAt]
      ELSE [key |-> <<s, d.revision, at>>, nextAt |-> nextAt,
            kind |-> IF now - at > Grace /\ d.policy = "skip" THEN "skip" ELSE "dispatch"]

\* controlRetryDelay and retryDelayMs
RetryDelay(n) == Min({2 ^ (n - 1), MaxRetryDelay})

-----------------------------------------------------------------------------
(* The control flow of a refresh between two awaited calls.                *)

\* #armTimer
Arm(deadline) ==
  [left |-> Min({Max({deadline - clock, 0}), MaxTimerDelay}), deadline |-> deadline]

\* wrong variant of Ended: a change noticed during the refresh is forgotten
EndedOnce(h, d, deadline) ==
  /\ r' = [r EXCEPT ![h] = Idle]
  /\ dirty' = [dirty EXCEPT ![h] = FALSE]
  /\ timer' = [timer EXCEPT ![h] =
                 IF phase[h] = "running" /\ deadline # None THEN Arm(deadline) ELSE @]

\* the end of a refresh in #drain: again if something changed meanwhile
Ended(h, d, deadline) ==
  IF d /\ phase[h] = "running"
  THEN /\ r' = [r EXCEPT ![h] = Refresh(clock)]
       /\ dirty' = [dirty EXCEPT ![h] = FALSE]
       /\ UNCHANGED timer
  ELSE /\ r' = [r EXCEPT ![h] = Idle]
       /\ dirty' = [dirty EXCEPT ![h] = d]
       /\ timer' = [timer EXCEPT ![h] =
                      IF phase[h] = "running" /\ deadline # None THEN Arm(deadline) ELSE @]

\* the loops of #refreshFromDurableTruth go on from x; d is #dirty
Continue(h, x, d) ==
  LET stopped == phase[h] # "running"
      first(S) == CHOOSE c \in S : \A e \in S : c.key[1] <= e.key[1]
      go(y) == /\ r' = [r EXCEPT ![h] = y]
               /\ dirty' = [dirty EXCEPT ![h] = d]
               /\ UNCHANGED <<timer, failures>>
  IN  CASE stopped \/ (x.stage = "due" /\ x.due = {}) ->
             /\ failures' = [failures EXCEPT ![h] = 0]
             /\ Ended(h, d, IF stopped \/ x.deadlines = {} THEN None ELSE Min(x.deadlines))
        [] x.stage = "pending" /\ x.todo = {} -> go([x EXCEPT !.pc = "definitions"])
        [] x.stage = "pending" /\ x.todo # {} ->
             go([x EXCEPT !.pc = "job", !.cur = first(x.todo), !.todo = @ \ {first(x.todo)}])
        [] OTHER ->
             go([x EXCEPT !.pc = "current", !.item = first(x.due), !.due = @ \ {first(x.due)}])

\* an occurrence has been dealt with: it stays pending until the instant
\* waits, or is settled (None)
Return(h, x, waits) ==
  Continue(h,
    IF waits # None
    THEN [x EXCEPT !.deadlines = @ \cup {waits}, !.blocked = @ \cup {x.cur.key[1]}]
    ELSE IF x.stage = "due" /\ x.item.nextAt # None
    THEN [x EXCEPT !.deadlines = @ \cup {x.item.nextAt}]
    ELSE x,
    dirty[h])

\* the catch clauses of #processPending and #processDue
Retry(h) == Return(h, r[h], r[h].now + 1)

\* the catch clause of #drain
Failed(h) ==
  /\ failures' = [failures EXCEPT ![h] = @ + 1]
  /\ Ended(h, dirty[h], clock + RetryDelay(failures[h] + 1))

\* settle is called with the delivery to write
Settle(x, want) == [x EXCEPT !.pc = "marker", !.want = want]

Await(h, pc) == phase[h] # "off" /\ r[h].pc = pc

Goto(h, x) == r' = [r EXCEPT ![h] = x] /\ UNCHANGED <<dirty, timer, failures>>

-----------------------------------------------------------------------------
(* The controller: start, wake, timers and shutdown.                       *)

Start(h) ==
  /\ phase[h] = "off"
  /\ phase' = [phase EXCEPT ![h] = "running"]
  /\ r' = [r EXCEPT ![h] = Refresh(clock)]
  /\ UNCHANGED <<clock, storeVars, dirty, timer, failures, edited, plan, dropped, used>>

\* wake: a refresh in flight is told to run again
Wake(h) ==
  /\ timer' = [timer EXCEPT ![h] = NoTimer]
  /\ IF r[h].pc = "rest"
     THEN r' = [r EXCEPT ![h] = Refresh(clock)] /\ UNCHANGED dirty
     ELSE dirty' = [dirty EXCEPT ![h] = TRUE] /\ UNCHANGED r

TimerFires(h) ==
  /\ phase[h] = "running"
  /\ timer[h].left = 0
  /\ Wake(h)
  /\ UNCHANGED <<clock, storeVars, phase, failures, edited, plan, dropped, used>>

\* dispose: stop, and wait for the refresh in flight
Dispose(h) ==
  /\ phase[h] = "running"
  /\ Spend("stops", MaxStops)
  /\ phase' = [phase EXCEPT ![h] = IF r[h].pc = "rest" THEN "off" ELSE "stopping"]
  /\ dirty' = [dirty EXCEPT ![h] = FALSE]
  /\ timer' = [timer EXCEPT ![h] = NoTimer]
  /\ edited' = edited \ {h}
  /\ UNCHANGED <<clock, storeVars, failures, r, plan, dropped>>

Disposed(h) ==
  /\ phase[h] = "stopping"
  /\ r[h].pc = "rest"
  /\ phase' = [phase EXCEPT ![h] = "off"]
  /\ failures' = [failures EXCEPT ![h] = 0]
  /\ UNCHANGED <<clock, storeVars, dirty, timer, edited, r, plan, dropped, used>>

Crash(h) ==
  /\ phase[h] # "off"
  /\ Spend("stops", MaxStops)
  /\ phase' = [phase EXCEPT ![h] = "off"]
  /\ dirty' = [dirty EXCEPT ![h] = FALSE]
  /\ timer' = [timer EXCEPT ![h] = NoTimer]
  /\ failures' = [failures EXCEPT ![h] = 0]
  /\ edited' = edited \ {h}
  /\ r' = [r EXCEPT ![h] = Idle]
  /\ UNCHANGED <<clock, storeVars, plan, dropped>>

-----------------------------------------------------------------------------
(* definition-store.ts: a mutation commits, then wakes its own host.       *)

Put(h, s, d) ==
  /\ phase[h] = "running"
  /\ h \notin edited
  /\ Spend("edits", MaxEdits)
  /\ def' = [def EXCEPT ![s] = d]
  /\ edited' = edited \cup {h}
  /\ UNCHANGED <<clock, occ, pend, job, phase, dirty, timer, failures, r, plan, dropped>>

\* createDefinition; an entry that was removed starts again at revision 1
CreateDefinition(h, s, spec) ==
  def[s] = NoDefinition /\ Put(h, s, Entry(spec, 1, clock))

\* replaceDefinition and setEnabled: mutateDefinition
ReplaceDefinition(h, s, spec) ==
  /\ def[s].revision \in 1 .. MaxRevision - 1
  /\ Put(h, s, Entry(spec, def[s].revision + 1, clock))

RemoveDefinition(h, s) == def[s] # NoDefinition /\ Put(h, s, NoDefinition)

\* the mutation's call has returned: events.publish
Publish(h) ==
  /\ h \in edited
  /\ edited' = edited \ {h}
  /\ Wake(h)
  /\ UNCHANGED <<clock, storeVars, phase, failures, plan, dropped, used>>

-----------------------------------------------------------------------------
(* #refreshFromDurableTruth: the pending occurrences.                      *)

Copy(k) ==
  [key |-> k, revision |-> occ[k].revision, attempts |-> occ[k].attempts,
   next |-> occ[k].next]

\* a step that only reads, or that only changes this host
Local == UNCHANGED <<clock, storeVars, phase, edited, plan, dropped, used>>

\* listPendingOccurrences: the markers
ListPending(h) ==
  /\ Await(h, "list")
  /\ LET keys == {pend[s] : s \in {x \in Schedule : pend[x] # NoKey}}
     IN  IF keys = {} THEN Continue(h, r[h], dirty[h])
         ELSE Goto(h, [r[h] EXCEPT !.pc = "fetch", !.keys = keys])
  /\ Local

\* listPendingOccurrences: the occurrence of one marker
FetchPending(h) ==
  /\ Await(h, "fetch")
  /\ LET k == CHOOSE k \in r[h].keys : \A j \in r[h].keys : k[1] <= j[1]
         x == [r[h] EXCEPT !.keys = @ \ {k}, !.todo = @ \cup {Copy(k)}]
     IN  CASE occ[k].state # "pending" -> Failed(h)
           [] occ[k].state = "pending" /\ x.keys # {} -> Goto(h, x)
           [] OTHER -> Continue(h, x, dirty[h])
  /\ Local

-----------------------------------------------------------------------------
(* deliverLocalScheduleOccurrence                                          *)

\* wrong variant of GetJob: the job of an earlier life is not looked for
GetJobNever(h) ==
  /\ Await(h, "job")
  /\ Goto(h, [r[h] EXCEPT !.pc = "definition"])
  /\ Local

\* getJob: the occurrence was submitted in an earlier life
GetJob(h) ==
  /\ Await(h, "job")
  /\ Goto(h, IF job[r[h].cur.key] # "none"
             THEN Settle(r[h], [NoOccurrence EXCEPT !.state = "submitted"])
             ELSE [r[h] EXCEPT !.pc = "definition"])
  /\ Local

\* wrong variant of ReadDefinition: an outdated occurrence is looked at later
ReadDefinitionWaits(h) ==
  /\ Await(h, "definition")
  /\ LET c == r[h].cur
         d == def[c.key[1]]
     IN  CASE d = NoDefinition \/ d.revision # c.key[2] \/ ~d.enabled
                \/ c.next > r[h].now -> Return(h, r[h], c.next)
           [] OTHER -> Goto(h, [r[h] EXCEPT !.pc = "history"])
  /\ Local

\* readDefinition
ReadDefinition(h) ==
  /\ Await(h, "definition")
  /\ LET c == r[h].cur
         d == def[c.key[1]]
     IN  CASE d = NoDefinition \/ d.revision # c.key[2] \/ ~d.enabled ->
                Goto(h, Settle(r[h], [NoOccurrence EXCEPT !.state = "superseded"]))
           [] d.revision = c.key[2] /\ d.enabled /\ c.next > r[h].now ->
                Return(h, r[h], c.next)
           [] OTHER -> Goto(h, [r[h] EXCEPT !.pc = "history"])
  /\ Local

\* findPreviousSubmittedJobId
ReadHistory(h) ==
  /\ Await(h, "history")
  /\ LET c == r[h].cur
         old == {k \in Key : k[1] = c.key[1] /\ k[3] < c.key[3] /\ occ[k].state = "submitted"}
         last == {k \in old : \A j \in old : j[3] <= k[3]}
     IN  Goto(h, [r[h] EXCEPT !.pc = "previous",
                    !.prev = IF old = {} THEN NoKey
                             ELSE CHOOSE k \in last : \A j \in last : k[2] <= j[2]])
  /\ Local

\* resolvePreviousActiveJob: the job named, or else any job of a session that
\* has an input of another tick of the schedule
PreviousActive(c, prev) ==
  IF prev # NoKey THEN job[prev] = "active"
  ELSE LET mine == {k \in Key : k[1] = c.key[1]}
       IN  /\ \E k \in mine : job[k] = "active"
           /\ \E k \in mine \ {c.key} : job[k] # "none"

CheckPrevious(h) ==
  /\ Await(h, "previous")
  /\ Goto(h, IF PreviousActive(r[h].cur, r[h].prev)
             THEN Settle(r[h], [NoOccurrence EXCEPT !.state = "overlap"])
             ELSE [r[h] EXCEPT !.pc = "submit"])
  /\ Local

\* the delivery written after a submission that threw
Later(x) ==
  [NoOccurrence EXCEPT !.state = "pending", !.attempts = x.cur.attempts + 1,
                       !.next = x.now + RetryDelay(x.cur.attempts + 1)]

\* conversationOperations.submit, idempotent; its answer may be lost
Submit(h, heard) ==
  /\ Await(h, "submit")
  /\ job' = [job EXCEPT ![r[h].cur.key] = IF @ = "none" THEN "active" ELSE @]
  /\ IF heard
     THEN /\ Goto(h, Settle(r[h], [NoOccurrence EXCEPT !.state = "submitted"]))
          /\ UNCHANGED used
     ELSE /\ Goto(h, Settle(r[h], Later(r[h])))
          /\ Spend("faults", MaxFaults)
  /\ UNCHANGED <<clock, def, occ, pend, phase, edited, plan, dropped>>

-----------------------------------------------------------------------------
(* settle: updateOccurrenceDelivery and pruneSettledOccurrences            *)

ReadMarker(h) ==
  /\ Await(h, "marker")
  /\ Goto(h, [r[h] EXCEPT !.pc =
               IF pend[r[h].cur.key[1]] = r[h].cur.key THEN "settle" ELSE "reread"])
  /\ Local

\* the row that replaces a copy
Written(c, want) == [want EXCEPT !.revision = c.revision + 1]

\* the conditions of the mutation: a marker's revision is always 1
Matches(c) == occ[c.key].revision = c.revision /\ pend[c.key[1]] # NoKey

\* wrong variant of WriteDelivery: the copy is written without the conditions
WriteDeliveryBlindly(h, heard) ==
  /\ Await(h, "settle")
  /\ heard
  /\ LET c == r[h].cur
         w == r[h].want
     IN  /\ occ' = [occ EXCEPT ![c.key] = Written(c, w)]
         /\ pend' = [pend EXCEPT ![c.key[1]] = IF @ = c.key THEN NoKey ELSE @]
  /\ Goto(h, [r[h] EXCEPT !.pc = "prune"])
  /\ UNCHANGED <<clock, def, job, phase, edited, plan, dropped, used>>

WriteDelivery(h, heard) ==
  /\ Await(h, "settle")
  /\ LET c == r[h].cur
         w == r[h].want
     IN  IF Matches(c)
         THEN /\ occ' = [occ EXCEPT ![c.key] = Written(c, w)]
              /\ pend' = [pend EXCEPT ![c.key[1]] = IF w.state = "pending" THEN @ ELSE NoKey]
              /\ CASE ~heard -> Retry(h)
                   [] heard /\ w.state = "pending" -> Return(h, r[h], w.next)
                   [] OTHER -> Goto(h, [r[h] EXCEPT !.pc = "prune"])
         ELSE /\ heard
              /\ Goto(h, [r[h] EXCEPT !.pc = "reread"])
              /\ UNCHANGED <<occ, pend>>
  /\ IF heard THEN UNCHANGED used ELSE Spend("faults", MaxFaults)
  /\ UNCHANGED <<clock, def, job, phase, edited, plan, dropped>>

\* somebody else has settled or replaced the occurrence
Reread(h) ==
  /\ Await(h, "reread")
  /\ LET o == occ[r[h].cur.key]
     IN  Return(h, r[h], CASE o.state = "none" -> r[h].cur.next
                           [] o.state = "pending" -> o.next
                           [] OTHER -> None)
  /\ Local

\* the settled occurrences of s beyond the newest ones
Expired(s) ==
  LET settled == {k \in Key : k[1] = s /\ occ[k].state \in Settled}
      newer(k) == {j \in settled : j[3] > k[3] \/ (j[3] = k[3] /\ j[2] > k[2])}
  IN  {k \in settled : Cardinality(newer(k)) >= Retain}

ListSettled(h) ==
  /\ Await(h, "prune")
  /\ LET keys == Expired(r[h].cur.key[1])
     IN  IF keys = {} THEN Return(h, r[h], None)
         ELSE Goto(h, [r[h] EXCEPT !.pc = "delete",
                         !.expired = {<<k, occ[k].revision>> : k \in keys}])
  /\ Local

DeleteExpired(h) ==
  /\ Await(h, "delete")
  /\ IF \A e \in r[h].expired : occ[e[1]].revision = e[2]
     THEN LET keys == {e[1] : e \in r[h].expired}
          IN  /\ occ' = [k \in Key |-> IF k \in keys THEN NoOccurrence ELSE occ[k]]
              /\ dropped' = dropped \cup keys
     ELSE UNCHANGED <<occ, dropped>>
  /\ Return(h, [r[h] EXCEPT !.expired = {}], None)
  /\ UNCHANGED <<clock, def, pend, job, phase, edited, plan, used>>

-----------------------------------------------------------------------------
(* #refreshFromDurableTruth: the definitions, and #processDue              *)

\* the definitions with nothing due only contribute a deadline
ReadDefinitions(h) ==
  /\ Await(h, "definitions")
  /\ LET seen == {s \in Schedule : def[s] # NoDefinition /\ s \notin r[h].blocked}
         plans == {Plan(s, def[s], r[h].now) : s \in {x \in seen : def[x].enabled}}
         due == {x \in plans : x.kind # "none"}
         later == {x.nextAt : x \in plans \ due} \ {None}
     IN  Continue(h, [r[h] EXCEPT !.stage = "due", !.due = due,
                                  !.deadlines = @ \cup later], dirty[h])
  /\ Local

\* claimOccurrence: the definition as it is now
ReadCurrent(h) ==
  /\ Await(h, "current")
  /\ LET k == r[h].item.key
         d == def[k[1]]
     IN  IF d = NoDefinition \/ d.revision # k[2] \/ ~d.enabled
         THEN Continue(h, r[h], TRUE)
         ELSE Goto(h, [r[h] EXCEPT !.pc = "claim", !.claimedAt = clock])
  /\ Local

\* wrong variant of Dispatch: the misfire policy is not asked
DispatchAlways(x, c) == [x EXCEPT !.cur = c, !.pc = "job"]

\* a claimed occurrence is skipped or delivered
Dispatch(x, c) ==
  IF x.item.kind = "skip"
  THEN Settle([x EXCEPT !.cur = c], [NoOccurrence EXCEPT !.state = "misfire"])
  ELSE [x EXCEPT !.cur = c, !.pc = "job"]

\* wrong variant of Free: a second occurrence of the schedule may be pending
FreeOccurrence(k) == def[k[1]].revision = k[2] /\ occ[k].state = "none"

\* the conditions of the claim
Free(k) == /\ def[k[1]].revision = k[2]
           /\ occ[k].state = "none"
           /\ pend[k[1]] = NoKey

\* claimOccurrence: the mutation, or the evidence of its conflict
Claim(h, heard) ==
  /\ Await(h, "claim")
  /\ LET x == r[h]
         k == x.item.key
         row == [state |-> "pending", revision |-> 1, attempts |-> 0, next |-> x.claimedAt]
     IN  IF Free(k)
         THEN /\ occ' = [occ EXCEPT ![k] = row]
              /\ pend' = [pend EXCEPT ![k[1]] = k]
              /\ plan' = [plan EXCEPT ![k] = x.item.kind]
              /\ IF heard
                 THEN Goto(h, Dispatch(x, [key |-> k, revision |-> 1, attempts |-> 0,
                                           next |-> x.claimedAt]))
                 ELSE Retry(h)
         ELSE /\ heard
              /\ CASE def[k[1]].revision # k[2] -> Continue(h, x, TRUE)
                   [] def[k[1]].revision = k[2] /\ occ[k].state \in Settled ->
                        Return(h, x, None)
                   [] def[k[1]].revision = k[2] /\ occ[k].state = "pending" ->
                        Goto(h, Dispatch(x, Copy(k)))
                   [] OTHER ->
                        Goto(h, [x EXCEPT !.pc = "evidence", !.cur.key = pend[k[1]]])
              /\ UNCHANGED <<occ, pend, plan>>
  /\ IF heard THEN UNCHANGED used ELSE Spend("faults", MaxFaults)
  /\ UNCHANGED <<clock, def, job, phase, edited, dropped>>

\* the pending occurrence that was in the way is delivered first
ReadEvidence(h) ==
  /\ Await(h, "evidence")
  /\ LET k == r[h].cur.key
     IN  IF occ[k].state = "pending"
         THEN Goto(h, [r[h] EXCEPT !.pc = "job", !.cur = Copy(k)])
         ELSE Retry(h)
  /\ Local

\* a call fails without an effect
Fault(h) ==
  /\ phase[h] # "off"
  /\ Spend("faults", MaxFaults)
  /\ CASE r[h].pc \in {"list", "fetch", "definitions"} -> Failed(h)
       [] r[h].pc \in {"previous", "submit"} -> Goto(h, Settle(r[h], Later(r[h])))
       [] r[h].pc \in {"prune", "delete"} -> Return(h, [r[h] EXCEPT !.expired = {}], None)
       [] r[h].pc \in {"job", "definition", "history", "marker", "settle", "reread",
                       "current", "claim", "evidence"} -> Retry(h)
       [] OTHER -> FALSE
  /\ UNCHANGED <<clock, storeVars, phase, edited, plan, dropped>>

-----------------------------------------------------------------------------
(* The environment.                                                        *)

\* a job reaches a terminal state
JobEnds(k) ==
  /\ job[k] = "active"
  /\ job' = [job EXCEPT ![k] = "ended"]
  /\ UNCHANGED <<clock, def, occ, pend, hostVars, plan, dropped, used>>

Tick ==
  /\ clock < MaxClock
  /\ clock' = clock + 1
  /\ timer' = [h \in Host |-> [timer[h] EXCEPT !.left = IF @ > 0 THEN @ - 1 ELSE @]]
  /\ UNCHANGED <<storeVars, phase, dirty, failures, edited, r, plan, dropped, used>>

\* the wall clock is set: timers do not follow it
ClockSet ==
  /\ Spend("jumps", MaxJumps)
  /\ clock' \in Time \ {clock}
  /\ UNCHANGED <<storeVars, hostVars, plan, dropped>>

\* what the controller of h does by itself
Work(h) ==
  \/ ListPending(h) \/ FetchPending(h) \/ GetJob(h) \/ ReadDefinition(h)
  \/ ReadHistory(h) \/ CheckPrevious(h) \/ ReadMarker(h) \/ Reread(h)
  \/ ListSettled(h) \/ DeleteExpired(h) \/ ReadDefinitions(h) \/ ReadCurrent(h)
  \/ ReadEvidence(h)
  \/ \E heard \in BOOLEAN : Submit(h, heard) \/ WriteDelivery(h, heard) \/ Claim(h, heard)
  \/ Disposed(h) \/ Publish(h) \/ TimerFires(h)

Next ==
  \/ \E h \in Host : Work(h) \/ Start(h) \/ Dispose(h) \/ Crash(h) \/ Fault(h)
  \/ \E h \in Host, s \in Schedule :
       \/ \E spec \in Specs : CreateDefinition(h, s, spec) \/ ReplaceDefinition(h, s, spec)
       \/ RemoveDefinition(h, s)
  \/ \E k \in Key : JobEnds(k)
  \/ Tick
  \/ ClockSet

Spec == Init /\ [][Next]_vars

\* awaited calls answer, timers fire, hosts are started again, time passes
FairSpec ==
  /\ Spec
  /\ \A h \in Host : WF_vars(Work(h)) /\ WF_vars(Start(h))
  /\ WF_vars(Tick)

-----------------------------------------------------------------------------
(* Properties.                                                             *)

\* The pending marker of a schedule and its pending occurrence exist together:
\* the two errors "Schedule pending record points to a missing occurrence" and
\* "... to a settled occurrence" report no state the store can be in, and no
\* occurrence is left pending without the marker that recovery finds it by.
PendingExact ==
  /\ \A s \in Schedule : pend[s] # NoKey => pend[s][1] = s /\ occ[pend[s]].state = "pending"
  /\ \A k \in Key : occ[k].state = "pending" => pend[k[1]] = k

\* An occurrence is settled once: afterwards its entry is only ever removed,
\* by retention, whatever stale copies of it deliveries still hold.
SettledOnce ==
  [][\A k \in Key : occ[k].state \in Settled =>
       occ'[k] = occ[k] \/ (occ'[k] = NoOccurrence /\ k \in dropped')]_vars

\* What is recorded is what happened: a submitted occurrence has its job, and
\* for a single host a skipped one has none, although the submission and the
\* record are two calls and the host may crash between them.  (An occurrence
\* that retention dropped may be claimed, and settled, again.)
OutcomeTrue ==
  \A k \in Key :
    /\ occ[k].state = "submitted" => job[k] # "none"
    /\ occ[k].state \in Skipped /\ k \notin dropped => job[k] = "none"

\* A controller at rest overlooks nothing: what is pending and what comes next
\* is covered by the timer, and the latest occurrence of an enabled definition
\* is settled, was settled and dropped, or has the timer set for it.  After a
\* failed call the timer is set for the retry: in a tick, or after the delay
\* for failed refreshes.
NothingOverlooked ==
  \A h \in Host, s \in Schedule :
    phase[h] = "running" /\ r[h].pc = "rest" /\ edited = {} =>
      LET d == def[s]
          armed(at) == /\ timer[h] # NoTimer
                       /\ timer[h].deadline <= Max({at, clock + 1}) \/ failures[h] > 0
      IN  IF pend[s] # NoKey THEN armed(occ[pend[s]].next)
          ELSE d # NoDefinition /\ d.enabled =>
            LET p == Plan(s, d, clock)
            IN  /\ p.nextAt # None => armed(p.nextAt)
                /\ p.kind # "none" => \/ occ[p.key].state \in Settled
                                      \/ p.key \in dropped
                                      \/ armed(p.key[3])

\* Pending deliveries end: a pending occurrence is eventually settled, through
\* failed calls, changed definitions, crashes and restarts.  The escape is a
\* retry that is due after the last instant of the model's clock.
PendingSettles ==
  \A s \in Schedule : pend[s] # NoKey ~>
    \/ pend[s] = NoKey
    \/ clock = MaxClock /\ \E h \in Host : timer[h].deadline > MaxClock

\* "Skip missed run": an occurrence that was already missed when it was
\* claimed, under the policy skip, is not submitted.  The claim records nothing
\* of it: after a crash, a stop or a failed call between the claim and its
\* settlement the occurrence is pending like any other, and is submitted.
MissedSkipped ==
  \A k \in Key : plan[k] = "skip" /\ job[k] # "none" => used.stops + used.faults > 0
=============================================================================
