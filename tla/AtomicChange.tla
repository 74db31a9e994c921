---------------------------- MODULE AtomicChange ----------------------------
(***************************************************************************)
(* What a workspace change transaction promises: a change of a set of files *)
(* that, once it has an outcome, has been made to every file of the set or  *)
(* to none, and to which nothing is added afterwards.                       *)
(***************************************************************************)
CONSTANTS Tx,  \* transactions
          File \* files of the workspace

VARIABLES outcome, \* of a transaction: open, applied or undone
          targets, \* the files it is to replace
          done     \* the files it has replaced

vars == <<outcome, targets, done>>

Init ==
  /\ outcome = [x \in Tx |-> "open"]
  /\ targets = [x \in Tx |-> {}]
  /\ done = [x \in Tx |-> {}]

\* the plan is recorded once, before anything is replaced
Plan(x, files) ==
  /\ outcome[x] = "open"
  /\ targets[x] = {}
  /\ targets' = [targets EXCEPT ![x] = files]
  /\ UNCHANGED <<outcome, done>>

Replace(x, f) ==
  /\ outcome[x] = "open"
  /\ f \in targets[x]
  /\ done' = [done EXCEPT ![x] = @ \cup {f}]
  /\ UNCHANGED <<outcome, targets>>

Apply(x) ==
  /\ outcome[x] = "open"
  /\ done[x] = targets[x]
  /\ outcome' = [outcome EXCEPT ![x] = "applied"]
  /\ UNCHANGED <<targets, done>>

Undo(x) ==
  /\ outcome[x] = "open"
  /\ done[x] = {}
  /\ outcome' = [outcome EXCEPT ![x] = "undone"]
  /\ UNCHANGED <<targets, done>>

Next ==
  \E x \in Tx :
    \/ \E files \in SUBSET File : Plan(x, files)
    \/ \E f \in File : Replace(x, f)
    \/ Apply(x)
    \/ Undo(x)

Spec == Init /\ [][Next]_vars
=============================================================================
