------------------- MODULE WorkspaceTransactionInvariant --------------------
(***************************************************************************)
(* The inductive invariant of WorkspaceTransaction, what a step of one     *)
(* host keeps of it when it fits what is known, and type correctness.      *)
(***************************************************************************)
EXTENDS WorkspaceTransaction, TLAPS

\* where only an execution can be, and only a recovery
ExecutionPc == {"checking", "plan", "conflicted", "noop", "record", "mark", "begin",
                "throw", "throwCommit"}
RecoveryPc == {"inspect", "reconcile", "undo"}

\* an execution there has no plan in the store
EarlyPc == {"idle", "checking", "spawn", "plan", "conflicted", "noop", "record"}

\* a host there has one
LatePc == {"prepare", "mark", "begin", "commit", "deaf", "finalize", "cleanup"}
            \cup RecoveryPc

\* an execution there has not asked its helper to commit
PreCommitPc == {"spawn", "plan", "conflicted", "noop", "record", "prepare", "mark",
                "begin", "throw"}

\* a host there may still have its helper commit without a look at the lease
CommitPc == {"prepare", "mark", "begin", "commit"}

HasPlan(x) == \E f \in File : row[x][f] # "none"

\* the helper of the attempt replaces files, or may come to do so
Engaged(x, a) ==
  \/ helper[x][a] = "committing"
  \/ helper[x][a] = "ready" /\ pc[x][a] \in CommitPc

\* The transaction has not replaced the file; when others edit files it may have,
\* but its content is gone.
Untouched(x, f) == content[f] # x /\ (External \/ <<x, f>> \notin wrote)

\* Attempts are claimed one after the other, and only the last can be active.
AttemptsOK(x) ==
  /\ \A a, b \in Attempt :
       /\ attempt[x][a] = "active" /\ attempt[x][b] # "none" => b <= a
       /\ attempt[x][b] # "none" /\ a < b => attempt[x][a] # "none"
  /\ state[x] = "none" => \A a \in Attempt : attempt[x][a] = "none"

\* What the place of a host says about its attempt, its plan and its helper.
HostOK(x, a) ==
  /\ attempt[x][a] = "none" =>
       helper[x][a] = "none" /\ pc[x][a] \in {"idle", "checking", "stopped"}
  /\ pc[x][a] \in ExecutionPc => a = 1
  /\ pc[x][a] \in RecoveryPc => a # 1
  /\ pc[x][a] \in LatePc \/ (a # 1 /\ pc[x][a] = "spawn") => HasPlan(x)
  /\ pc[x][a] = "record" => \E f \in File : before[x][f] # Unplanned
  /\ pc[x][a] = "cleanup" => state[x] = "applied"
  /\ helper[x][a] = "committing" =>
       HasPlan(x) /\ pc[x][a] \in {"commit", "deaf", "stopped"}

\* The plan is recorded once, before anything is replaced.
PlanOK(x) ==
  HasPlan(x) =>
    /\ \A f \in File : row[x][f] # "none" <=> before[x][f] # Unplanned
    /\ pc[x][1] \notin EarlyPc

\* A helper commits in the order of the plan.
FramesOK(x, a) ==
  /\ \A f \in File : frame[x][a][f] # "none" => HasPlan(x) /\ <<x, f>> \in wrote
  /\ \A f, g \in File :
       /\ before[x][f] # Unplanned
       /\ before[x][g] # Unplanned
       /\ f < g
       /\ frame[x][a][f] = "none"
       => frame[x][a][g] = "none"
  /\ helper[x][a] = "committing" =>
       \E f \in File : before[x][f] # Unplanned /\ frame[x][a][f] = "none"

\* While the helper of a replaced attempt may still commit, the attempt that took
\* its place waits for the lock; once the transaction is terminal none does.
FencedOff(x) ==
  \A a \in Attempt : Engaged(x, a) =>
    /\ state[x] \notin Terminal
    /\ \A b \in Attempt : attempt[x][b] = "active" /\ b # a =>
         helper[x][b] = "none" /\ pc[x][b] \in {"spawn", "stopped"}

\* What is recorded or was observed as replaced has been replaced, by its plan.
WrittenOK(x) ==
  \A f \in File :
    /\ content[f] = x \/ row[x][f] = "committed" => <<x, f>> \in wrote
    /\ \A a \in Attempt : obs[x][a][f] = "after" => <<x, f>> \in wrote
    /\ <<x, f>> \in wrote => row[x][f] # "none"
    /\ state[x] = "applied" /\ row[x][f] # "none" => <<x, f>> \in wrote

\* A content that was replaced does not come back unless others edit files.
NoReturn(x) ==
  \A f \in File :
    /\ before[x][f] # x
    /\ \A y \in Tx : before[x][f] = y => <<y, f>> \in wrote
    /\ External \/ <<x, f>> \notin wrote \/ content[f] # before[x][f]

\* An execution that has not asked for the commit has replaced nothing.
NotAsked(x) ==
  helper[x][1] = "ready" /\ pc[x][1] \in PreCommitPc =>
    \A f \in File : <<x, f>> \notin wrote

\* What a recovery has observed under the lock is still so while it has the lock.
LookedOK(x, a) ==
  \A f \in File :
    /\ pc[x][a] = "reconcile" /\ row[x][f] # "none" => obs[x][a][f] # "none"
    /\ pc[x][a] = "undo" /\ row[x][f] # "none" => obs[x][a][f] = "before"
    /\ pc[x][a] \in {"reconcile", "undo"} /\ helper[x][a] = "ready"
         /\ obs[x][a][f] = "before" => Untouched(x, f)

\* A host that is going to roll back knows that nothing is replaced.
RollbackOK(x) ==
  /\ \A a \in Attempt :
       pc[x][a] = "rollback" /\ attempt[x][a] = "active" =>
         /\ \A f \in File : Untouched(x, f)
         /\ \A b \in Attempt : ~Engaged(x, b)
  /\ state[x] = "rolled_back" => \A f \in File : Untouched(x, f)

\* BackupKept, of one transaction
BackupOK(x) ==
  External \/ \A f \in Deletes :
    <<x, f>> \in wrote /\ state[x] # "applied" => artifact[x][f] = "backup"

\* Everything that is said of one transaction.
TxInv(x) ==
  /\ AttemptsOK(x)
  /\ \A a \in Attempt : HostOK(x, a) /\ FramesOK(x, a) /\ LookedOK(x, a)
  /\ PlanOK(x) /\ FencedOff(x)
  /\ WrittenOK(x) /\ NoReturn(x)
  /\ NotAsked(x) /\ RollbackOK(x)
  /\ BackupOK(x)

\* The lock: one helper is alive at a time.
OneHelper ==
  \A x, y \in Tx, a, b \in Attempt :
    helper[x][a] \in Alive /\ helper[y][b] \in Alive => x = y /\ a = b

IInv == TypeOK /\ OneHelper /\ \A x \in Tx : TxInv(x)

-----------------------------------------------------------------------------
(* The constants and the operators.                                        *)

\* What the assumptions on the constants give.
LEMMA ConstantFacts ==
  /\ 1 \in Attempt
  /\ Attempt \subseteq Nat
  /\ Recovery \subseteq Attempt
  /\ Deletes \subseteq File
  /\ File \subseteq Nat
  /\ \A x \in Tx : x # 0 /\ x # Foreign /\ x # Unplanned
<1>1. 1 \in Attempt /\ Attempt \subseteq Nat /\ Recovery \subseteq Attempt
  BY AttemptAssumption DEF Attempt, Recovery
<1>2. \A x \in Tx : x # 0 /\ x # Foreign /\ x # Unplanned
  BY TxAssumption, Zenon
<1> QED
  BY <1>1, <1>2, FileAssumption, Zenon

\* The three results of classify.
LEMMA ClassCases ==
  ASSUME NEW x, NEW f
  PROVE  /\ Class(x, f) \in {"before", "after", "other"}
         /\ Class(x, f) = "before" => content[f] = before[x][f]
         /\ Class(x, f) = "after" => content[f] = x
         /\ before[x][f] # x /\ content[f] = before[x][f] => Class(x, f) = "before"
BY Zenon DEF Class

\* Where a failure leads, by attempt and place.
LEMMA OnErrorCases ==
  ASSUME NEW x, NEW a
  PROVE  \/ /\ OnError(x, a) = "stopped"
            /\ a # 1 \/ pc[x][a] \in {"cleanup", "rollback", "giveup"}
         \/ /\ OnError(x, a) = "throwCommit"
            /\ a = 1 /\ pc[x][a] \in {"commit", "deaf", "finalize"}
         \/ /\ OnError(x, a) = "throw"
            /\ a = 1 /\ pc[x][a] \notin {"cleanup", "rollback", "giveup", "commit",
                                         "deaf", "finalize"}
BY Zenon DEF OnError

\* What the decision of a recovery says about the observations.
LEMMA DecisionCases ==
  ASSUME NEW x, NEW a
  PROVE  \/ /\ Decision(x, a) = "attention"
         \/ /\ Decision(x, a) = "finalize"
            /\ \A f \in Recorded(x) : obs[x][a][f] = "after"
         \/ /\ Decision(x, a) = "finish_forward"
         \/ /\ Decision(x, a) = "rollback_noop"
            /\ \A f \in Recorded(x) : obs[x][a][f] # "other"
            /\ ~\A f \in Recorded(x) : obs[x][a][f] = "after"
            /\ \/ \A f \in Recorded(x) : obs[x][a][f] # "before"
               \/ \A f \in Recorded(x) : obs[x][a][f] # "after"
BY Zenon DEF Decision

\* The branch of recoverOne for each decision.
LEMMA BranchCases ==
  /\ Branch("attention") = "giveup"
  /\ Branch("finalize") = "finalize"
  /\ Branch("finish_forward") = "prepare"
  /\ Branch("rollback_noop") = "undo"
BY Zenon DEF Branch

\* The two things commit_files does with one file.
LEMMA CommitChanges ==
  ASSUME NEW x, NEW a, NEW f, CommitFile(x, a, f)
  PROVE  \/ Class(x, f) = "after" /\ UNCHANGED <<content, artifact, wrote>>
         \/ /\ Class(x, f) = "before"
            /\ content' = [content EXCEPT ![f] = x]
            /\ artifact' = [artifact EXCEPT ![x][f] =
                              IF f \in Deletes THEN "backup" ELSE "none"]
            /\ wrote' = wrote \cup {<<x, f>>}
BY Zenon DEF CommitFile, diskVars

-----------------------------------------------------------------------------
(* Steps of a host that leave attempts, plan and contents alone.           *)

\* What must be true of where the host and the helper of an attempt come to be.
PlaceOK(x, a, p, h) ==
  /\ attempt[x][a] = "none" => h = "none" /\ p \in {"idle", "checking", "stopped"}
  /\ p \in ExecutionPc => a = 1
  /\ p \in RecoveryPc => a # 1
  /\ p \in LatePc \/ (a # 1 /\ p = "spawn") => HasPlan(x)
  /\ p = "record" => \E f \in File : before[x][f] # Unplanned
  /\ p = "cleanup" => state[x] = "applied"
  /\ h = "committing" =>
       /\ HasPlan(x) /\ p \in {"commit", "deaf", "stopped"}
       /\ \E f \in File : before[x][f] # Unplanned /\ frame[x][a][f] = "none"
  /\ a = 1 /\ p \in EarlyPc => ~HasPlan(x)
  /\ h \in Alive => helper[x][a] \in Alive \/ LockFree
  /\ h = "committing" \/ (h = "ready" /\ p \in CommitPc) =>
       Engaged(x, a) \/ (state[x] \notin Terminal /\ attempt[x][a] = "active")
  /\ \A b \in Attempt : attempt[x][a] = "active" /\ b # a /\ Engaged(x, b) =>
       h = "none" /\ p \in {"spawn", "stopped"}
  /\ a = 1 /\ h = "ready" /\ p \in PreCommitPc => \A f \in File : <<x, f>> \notin wrote
  /\ p = "rollback" /\ attempt[x][a] = "active" =>
       /\ \A f \in File : Untouched(x, f)
       /\ \A b \in Attempt : b # a => ~Engaged(x, b)

\* the same, when nothing is observed
MoveOK(x, a, p, h) ==
  /\ PlaceOK(x, a, p, h)
  /\ \A f \in File :
       /\ p = "reconcile" /\ row[x][f] # "none" => obs[x][a][f] # "none"
       /\ p = "undo" /\ row[x][f] # "none" => obs[x][a][f] = "before"
       /\ p \in {"reconcile", "undo"} /\ h = "ready" /\ obs[x][a][f] = "before" =>
            Untouched(x, f)

\* One attempt of one transaction moves; the store may record how far it has come.
Moved(x, a) ==
  /\ \A y \in Tx, b \in Attempt : y # x \/ b # a =>
       pc'[y][b] = pc[y][b] /\ helper'[y][b] = helper[y][b] /\ obs'[y][b] = obs[y][b]
  /\ \A y \in Tx : y # x =>
       state'[y] = state[y] /\ row'[y] = row[y] /\ frame'[y] = frame[y]
  /\ state'[x] = state[x] \/ (state[x] \in Recoverable /\ state'[x] \in Recoverable)
  /\ \A f \in File :
       /\ row'[x][f] = "none" <=> row[x][f] = "none"
       /\ row'[x][f] = "committed" \/ obs'[x][a][f] = "after" => <<x, f>> \in wrote
       /\ \A b \in Attempt : frame'[x][b][f] = "none" <=> frame[x][b][f] = "none"
  /\ UNCHANGED <<attempt, content, wrote, before>>

\* What such a step leaves as it was.
LEMMA MovedFacts ==
  ASSUME IInv, NEW x \in Tx, NEW a \in Attempt, Moved(x, a)
  PROVE  /\ HasPlan(x)' = HasPlan(x)
         /\ \A b \in Attempt : b # a => Engaged(x, b)' = Engaged(x, b)
         /\ Engaged(x, a)' = (helper'[x][a] = "committing"
                               \/ (helper'[x][a] = "ready" /\ pc'[x][a] \in CommitPc))
         /\ state'[x] \in Terminal <=> state[x] \in Terminal
         /\ \A s \in {"none", "applied", "rolled_back"} : state'[x] = s <=> state[x] = s
         /\ \A b, c \in Attempt :
              attempt[x][b] = "active" /\ attempt[x][c] = "active" => b = c
         /\ TxInv(x)
<1>1. TxInv(x)
  BY Zenon DEF IInv
<1>2. HasPlan(x)' = HasPlan(x)
  BY Zenon DEF HasPlan, Moved
<1>3. /\ \A b \in Attempt : b # a => Engaged(x, b)' = Engaged(x, b)
      /\ Engaged(x, a)' = (helper'[x][a] = "committing"
                            \/ (helper'[x][a] = "ready" /\ pc'[x][a] \in CommitPc))
  BY Zenon DEF Engaged, Moved
<1>4. /\ state'[x] \in Terminal <=> state[x] \in Terminal
      /\ \A s \in {"none", "applied", "rolled_back"} : state'[x] = s <=> state[x] = s
  BY Zenon DEF Moved, Recoverable, Terminal
<1>5. \A b, c \in Attempt : attempt[x][b] = "active" /\ attempt[x][c] = "active" => b = c
  BY <1>1, ConstantFacts DEF TxInv, AttemptsOK
<1> QED
  BY <1>1, <1>2, <1>3, <1>4, <1>5, Zenon

\* The other transactions keep their invariant.
LEMMA MoveOthers ==
  ASSUME IInv, NEW x \in Tx, NEW a \in Attempt, Moved(x, a), NEW y \in Tx, y # x,
         BackupOK(y)'
  PROVE  TxInv(y)'
<1>1. TxInv(y)
  BY Zenon DEF IInv
<1>2. /\ \A b \in Attempt : /\ pc'[y][b] = pc[y][b] /\ helper'[y][b] = helper[y][b]
                            /\ obs'[y][b] = obs[y][b]
      /\ state'[y] = state[y] /\ row'[y] = row[y] /\ frame'[y] = frame[y]
      /\ UNCHANGED <<attempt, content, wrote, before>>
  BY Zenon DEF Moved
<1>3. HasPlan(y)' = HasPlan(y) /\ \A b \in Attempt : Engaged(y, b)' = Engaged(y, b)
  BY <1>2, Zenon DEF HasPlan, Engaged
<1>4. /\ AttemptsOK(y) /\ PlanOK(y) /\ WrittenOK(y) /\ NoReturn(y) /\ NotAsked(y)
      /\ FencedOff(y) /\ RollbackOK(y)
      /\ \A b \in Attempt : HostOK(y, b) /\ FramesOK(y, b) /\ LookedOK(y, b)
  BY <1>1, Zenon DEF TxInv
<1>5. AttemptsOK(y)' /\ NoReturn(y)'
  BY <1>2, <1>4, Zenon DEF AttemptsOK, NoReturn
<1>6. PlanOK(y)' /\ NotAsked(y)'
  BY <1>2, <1>3, <1>4, ConstantFacts, Zenon DEF PlanOK, NotAsked
<1>7. WrittenOK(y)'
  BY <1>2, <1>4, Zenon DEF WrittenOK
<1>8. \A b \in Attempt : HostOK(y, b)'
  BY <1>2, <1>3, <1>4 DEF HostOK
<1>9. \A b \in Attempt : FramesOK(y, b)'
  BY <1>2, <1>3, <1>4 DEF FramesOK
<1>10. \A b \in Attempt : LookedOK(y, b)'
  BY <1>2, <1>4 DEF LookedOK, Untouched
<1>11. FencedOff(y)'
  BY <1>2, <1>3, <1>4, Zenon DEF FencedOff
<1>12. RollbackOK(y)'
  BY <1>2, <1>3, <1>4, Zenon DEF RollbackOK, Untouched
<1> QED
  BY <1>5, <1>6, <1>7, <1>8, <1>9, <1>10, <1>11, <1>12, Zenon DEF TxInv

\* Attempts, rows and plan.
LEMMA MoveRecords ==
  ASSUME IInv, NEW x \in Tx, NEW a \in Attempt, Moved(x, a),
         PlaceOK(x, a, pc'[x][a], helper'[x][a])
  PROVE  AttemptsOK(x)' /\ NoReturn(x)' /\ WrittenOK(x)' /\ PlanOK(x)' /\ NotAsked(x)'
<1>0. UNCHANGED <<attempt, content, wrote, before>>
  BY Zenon DEF Moved
<1>1. /\ TxInv(x) /\ HasPlan(x)' = HasPlan(x) /\ UNCHANGED <<attempt, content, wrote, before>>
      /\ state'[x] \in Terminal <=> state[x] \in Terminal
      /\ \A s \in {"none", "applied", "rolled_back"} : state'[x] = s <=> state[x] = s
  BY <1>0, MovedFacts, Zenon
<1>2. AttemptsOK(x) /\ NoReturn(x) /\ WrittenOK(x) /\ PlanOK(x) /\ NotAsked(x)
  BY <1>1, Zenon DEF TxInv
<1>3. AttemptsOK(x)' /\ NoReturn(x)'
  BY <1>1, <1>2, Zenon DEF AttemptsOK, NoReturn
<1>4. WrittenOK(x)'
  <2> SUFFICES ASSUME NEW f \in File
               PROVE  /\ content[f] = x \/ row'[x][f] = "committed" => <<x, f>> \in wrote
                      /\ \A b \in Attempt : obs'[x][b][f] = "after" => <<x, f>> \in wrote
                      /\ <<x, f>> \in wrote => row'[x][f] # "none"
                      /\ state'[x] = "applied" /\ row'[x][f] # "none" => <<x, f>> \in wrote
    BY <1>1, Zenon DEF WrittenOK
  <2> QED
    BY <1>1, <1>2 DEF WrittenOK, Moved
<1>5. PlanOK(x)' /\ NotAsked(x)'
  <2>1. PlanOK(x) /\ NotAsked(x)
    BY <1>1, Zenon DEF TxInv
  <2>2. \A f \in File : row'[x][f] = "none" <=> row[x][f] = "none"
    BY Zenon DEF Moved
  <2>3. HasPlan(x) => pc'[x][1] \notin EarlyPc
    BY <2>1, ConstantFacts, Zenon DEF PlanOK, PlaceOK, Moved
  <2>4. NotAsked(x)'
    BY <1>1, <2>1, ConstantFacts, Zenon DEF NotAsked, PlaceOK, Moved
  <2> QED
    BY <1>1, <2>1, <2>2, <2>3, <2>4, Zenon DEF PlanOK
<1> QED
  BY <1>3, <1>4, <1>5, Zenon

\* What is known of each host, its helper and its frames.
LEMMA MoveHosts ==
  ASSUME IInv, NEW x \in Tx, NEW a \in Attempt, Moved(x, a),
         PlaceOK(x, a, pc'[x][a], helper'[x][a]),
         LookedOK(x, a)', NEW b \in Attempt
  PROVE  HostOK(x, b)' /\ FramesOK(x, b)' /\ LookedOK(x, b)'
<1>0. UNCHANGED <<attempt, content, wrote, before>>
  BY Zenon DEF Moved
<1>1. /\ TxInv(x) /\ HasPlan(x)' = HasPlan(x) /\ UNCHANGED <<attempt, content, wrote, before>>
      /\ state'[x] \in Terminal <=> state[x] \in Terminal
      /\ \A s \in {"none", "applied", "rolled_back"} : state'[x] = s <=> state[x] = s
  BY <1>0, MovedFacts, Zenon
<1>2. FramesOK(x, b) /\ HostOK(x, b) /\ LookedOK(x, b)
  BY <1>1, Zenon DEF TxInv
<1>3. FramesOK(x, b)'
  <2>1. \A f \in File : frame'[x][b][f] = "none" <=> frame[x][b][f] = "none"
    BY Zenon DEF Moved
  <2>2. helper'[x][b] = "committing" =>
          \E f \in File : before[x][f] # Unplanned /\ frame[x][b][f] = "none"
    BY <1>2 DEF PlaceOK, Moved, FramesOK
  <2> QED
    BY <1>1, <1>2, <2>1, <2>2, Zenon DEF FramesOK
<1>4. CASE b # a
  <2>1. pc'[x][b] = pc[x][b] /\ helper'[x][b] = helper[x][b] /\ obs'[x][b] = obs[x][b]
    BY <1>4, Zenon DEF Moved
  <2>2. HostOK(x, b)'
    BY <1>1, <1>2, <2>1, Zenon DEF HostOK
  <2>3. LookedOK(x, b)'
    <3>1. \A f \in File : row'[x][f] = "none" <=> row[x][f] = "none"
      BY Zenon DEF Moved
    <3> QED
      BY <1>1, <1>2, <2>1, <3>1, Zenon DEF LookedOK, Untouched
  <2> QED
    BY <1>3, <2>2, <2>3, Zenon
<1>5. CASE b = a
  <2>1. HostOK(x, a)'
    BY <1>1, Zenon DEF HostOK, PlaceOK
  <2> QED
    BY <1>3, <1>5, <2>1, Zenon
<1> QED
  BY <1>4, <1>5, Zenon

\* A helper that commits keeps its rivals away.
LEMMA MoveFence ==
  ASSUME IInv, NEW x \in Tx, NEW a \in Attempt, Moved(x, a),
         PlaceOK(x, a, pc'[x][a], helper'[x][a])
  PROVE  FencedOff(x)'
<1>0. UNCHANGED <<attempt, content, wrote, before>>
  BY Zenon DEF Moved
<1>1. /\ TxInv(x) /\ HasPlan(x)' = HasPlan(x) /\ UNCHANGED <<attempt, content, wrote, before>>
      /\ state'[x] \in Terminal <=> state[x] \in Terminal
      /\ \A s \in {"none", "applied", "rolled_back"} : state'[x] = s <=> state[x] = s
  BY <1>0, MovedFacts, Zenon
<1>2. /\ \A b \in Attempt : b # a => Engaged(x, b)' = Engaged(x, b)
      /\ Engaged(x, a)' = (helper'[x][a] = "committing"
                            \/ (helper'[x][a] = "ready" /\ pc'[x][a] \in CommitPc))
      /\ \A b, c \in Attempt :
           attempt[x][b] = "active" /\ attempt[x][c] = "active" => b = c
  BY MovedFacts, Zenon
<1> SUFFICES ASSUME NEW c \in Attempt, Engaged(x, c)'
             PROVE  /\ state[x] \notin Terminal
                    /\ \A b \in Attempt : attempt[x][b] = "active" /\ b # c =>
                         helper'[x][b] = "none" /\ pc'[x][b] \in {"spawn", "stopped"}
  BY <1>1, Zenon DEF FencedOff
<1>3. /\ FencedOff(x)
      /\ \A b \in Attempt : b # a => pc'[x][b] = pc[x][b] /\ helper'[x][b] = helper[x][b]
  BY <1>1, Zenon DEF TxInv, Moved
<1>4. CASE c = a
  <2>1. Engaged(x, a) \/ (state[x] \notin Terminal /\ attempt[x][a] = "active")
    BY <1>2, <1>4, Zenon DEF PlaceOK
  <2>2. CASE Engaged(x, a)
    BY <1>1, <1>3, <1>4, <2>2, Zenon DEF FencedOff
  <2>3. CASE state[x] \notin Terminal /\ attempt[x][a] = "active"
    BY <1>2, <1>4, <2>3, Zenon
  <2> QED
    BY <2>1, <2>2, <2>3, Zenon
<1>5. CASE c # a
  <2>1. /\ state[x] \notin Terminal
        /\ \A b \in Attempt : attempt[x][b] = "active" /\ b # c =>
             helper[x][b] = "none" /\ pc[x][b] \in {"spawn", "stopped"}
    BY <1>1, <1>2, <1>3, <1>5, Zenon DEF FencedOff
  <2>2. attempt[x][a] = "active" =>
          helper'[x][a] = "none" /\ pc'[x][a] \in {"spawn", "stopped"}
    BY <1>2, <1>5, Zenon DEF PlaceOK
  <2> QED
    BY <1>3, <2>1, <2>2, Zenon
<1> QED
  BY <1>4, <1>5, Zenon

\* Nothing is replaced where an attempt is about to roll back.
LEMMA MoveRollback ==
  ASSUME IInv, NEW x \in Tx, NEW a \in Attempt, Moved(x, a),
         PlaceOK(x, a, pc'[x][a], helper'[x][a])
  PROVE  RollbackOK(x)'
<1>0. UNCHANGED <<attempt, content, wrote, before>>
  BY Zenon DEF Moved
<1>1. /\ TxInv(x) /\ HasPlan(x)' = HasPlan(x) /\ UNCHANGED <<attempt, content, wrote, before>>
      /\ state'[x] \in Terminal <=> state[x] \in Terminal
      /\ \A s \in {"none", "applied", "rolled_back"} : state'[x] = s <=> state[x] = s
  BY <1>0, MovedFacts, Zenon
<1>2. /\ \A b \in Attempt : b # a => Engaged(x, b)' = Engaged(x, b)
      /\ Engaged(x, a)' = (helper'[x][a] = "committing"
                            \/ (helper'[x][a] = "ready" /\ pc'[x][a] \in CommitPc))
      /\ \A b, c \in Attempt :
           attempt[x][b] = "active" /\ attempt[x][c] = "active" => b = c
  BY MovedFacts, Zenon
<1>3. \A f \in File : Untouched(x, f)' = Untouched(x, f)
  BY <1>1, Zenon DEF Untouched
<1>4. ASSUME NEW c \in Attempt, pc'[x][c] = "rollback", attempt[x][c] = "active"
      PROVE  (\A f \in File : Untouched(x, f)) /\ \A b \in Attempt : ~Engaged(x, b)'
  <2>1. CASE c = a
    BY <1>2, <1>4, <2>1, Zenon DEF PlaceOK, CommitPc
  <2>2. CASE c # a
    <3>1. (\A f \in File : Untouched(x, f)) /\ \A b \in Attempt : ~Engaged(x, b)
      BY <1>1, <1>4, <2>2, Zenon DEF TxInv, RollbackOK, Moved
    <3>2. attempt[x][a] # "active"
      BY <1>2, <1>4, <2>2, Zenon
    <3>3. ~Engaged(x, a)'
      BY <1>2, <3>1, <3>2, Zenon DEF PlaceOK
    <3> QED
      BY <1>2, <3>1, <3>3, Zenon
  <2> QED
    BY <2>1, <2>2, Zenon
<1> QED
  BY <1>1, <1>3, <1>4, Zenon DEF TxInv, RollbackOK

\* A step that moves one host, changes rows and state at most, and replaces no file
\* keeps the invariant when the new place fits what is known.
LEMMA StoreMoves ==
  ASSUME IInv, TypeOK', NEW x \in Tx, NEW a \in Attempt, Moved(x, a),
         PlaceOK(x, a, pc'[x][a], helper'[x][a]),
         LookedOK(x, a)',
         \A y \in Tx : BackupOK(y)'
  PROVE  IInv'
<1>1. OneHelper'
  <2>1. \A y \in Tx, b \in Attempt : y # x \/ b # a => helper'[y][b] = helper[y][b]
    BY Zenon DEF Moved
  <2>2. helper'[x][a] \in Alive => helper[x][a] \in Alive \/ LockFree
    BY Zenon DEF PlaceOK
  <2> QED
    BY <2>1, <2>2 DEF IInv, OneHelper, LockFree
<1>2. \A y \in Tx : y # x => TxInv(y)'
  BY MoveOthers, Zenon
<1>3. TxInv(x)'
  BY MoveRecords, MoveHosts, MoveFence, MoveRollback, Zenon DEF TxInv
<1> QED
  BY <1>1, <1>2, <1>3, Zenon DEF IInv

\* The same for a step that leaves the store and the observations alone.
LEMMA HostMoves ==
  ASSUME IInv, TypeOK', NEW x \in Tx, NEW a \in Attempt,
         \A y \in Tx, b \in Attempt : y # x \/ b # a =>
           pc'[y][b] = pc[y][b] /\ helper'[y][b] = helper[y][b],
         UNCHANGED <<state, row, attempt, content, wrote, frame, before, obs>>,
         MoveOK(x, a, pc'[x][a], helper'[x][a]),
         \A y \in Tx : BackupOK(y)'
  PROVE  IInv'
<1>1. WrittenOK(x)
  BY Zenon DEF IInv, TxInv
<1>2. Moved(x, a)
  BY <1>1, Zenon DEF Moved, WrittenOK
<1>3. LookedOK(x, a)'
  BY Zenon DEF LookedOK, MoveOK, Untouched
<1>4. PlaceOK(x, a, pc'[x][a], helper'[x][a])
  BY Zenon DEF MoveOK
<1> QED
  BY <1>2, <1>3, <1>4, StoreMoves, Zenon

\* Without a plan in the store a transaction has done nothing and does nothing.
LEMMA NoPlan ==
  ASSUME NEW x \in Tx, TxInv(x), ~HasPlan(x)
  PROVE  /\ \A f \in File : <<x, f>> \notin wrote /\ content[f] # x
         /\ \A b \in Attempt : ~Engaged(x, b)
<1>1. \A f \in File : <<x, f>> \notin wrote /\ content[f] # x
  BY Zenon DEF TxInv, WrittenOK, HasPlan
<1>2. ASSUME NEW b \in Attempt PROVE ~Engaged(x, b)
  BY Zenon DEF TxInv, HostOK, Engaged, CommitPc, LatePc
<1> QED
  BY <1>1, <1>2, Zenon

\* An alive helper is the only one that may commit.
LEMMA AloneAlive ==
  ASSUME IInv, NEW x \in Tx, NEW a \in Attempt, helper[x][a] \in Alive
  PROVE  \A b \in Attempt : b # a => ~Engaged(x, b)
BY Zenon DEF IInv, OneHelper, Engaged, Alive

\* An active execution has no successor whose helper could.
LEMMA FirstAlone ==
  ASSUME NEW x \in Tx, TxInv(x), attempt[x][1] = "active"
  PROVE  \A b \in Attempt : b # 1 => ~Engaged(x, b)
<1> SUFFICES ASSUME NEW b \in Attempt, b # 1, Engaged(x, b) PROVE FALSE
  BY Zenon
<1>1. helper[x][b] # "none"
  BY Zenon DEF Engaged
<1>2. attempt[x][b] # "none"
  BY <1>1, Zenon DEF TxInv, HostOK
<1>3. b <= 1 /\ b \in 1 .. MaxAttempts
  BY <1>2, ConstantFacts, Zenon DEF TxInv, AttemptsOK, Attempt
<1> QED
  BY <1>3, AttemptAssumption

\* Nothing that backups depend on changes.
LEMMA BackupSame ==
  ASSUME IInv, UNCHANGED <<state, artifact, wrote>>
  PROVE  \A y \in Tx : BackupOK(y)'
BY Zenon DEF IInv, TxInv, BackupOK

\* The helper of an attempt goes, or nothing happens to it.
LEMMA GoneCases ==
  ASSUME TypeOK, NEW x \in Tx, NEW a \in Attempt, Gone(x, a) \/ UNCHANGED helper
  PROVE  /\ \A y \in Tx, b \in Attempt : y # x \/ b # a => helper'[y][b] = helper[y][b]
         /\ \/ helper'[x][a] = helper[x][a]
            \/ helper'[x][a] = "gone" /\ helper[x][a] \in Alive
<1>1. CASE Gone(x, a)
  BY <1>1, Zenon DEF Gone, TypeOK
<1>2. CASE UNCHANGED helper
  BY <1>2, Zenon
<1> QED
  BY <1>1, <1>2, Zenon

\* The host stays where it is or stops, and the helper stays or goes.
LEMMA StopMove ==
  ASSUME NEW x \in Tx, NEW a \in Attempt, TxInv(x), NEW p, NEW h,
         p = pc[x][a] \/ p = "stopped",
         h = helper[x][a] \/ (h = "gone" /\ helper[x][a] \in Alive)
  PROVE  MoveOK(x, a, p, h)
<1>1. HostOK(x, a) /\ FramesOK(x, a) /\ LookedOK(x, a)
  BY Zenon DEF TxInv
<1>2. /\ attempt[x][a] = "none" => h = "none" /\ p \in {"idle", "checking", "stopped"}
      /\ p \in ExecutionPc => a = 1
      /\ p \in RecoveryPc => a # 1
      /\ p \in LatePc \/ (a # 1 /\ p = "spawn") => HasPlan(x)
      /\ p = "record" => \E f \in File : before[x][f] # Unplanned
      /\ p = "cleanup" => state[x] = "applied"
  BY <1>1, Zenon DEF HostOK, ExecutionPc, RecoveryPc, LatePc, Alive
<1>3. h = "committing" =>
        /\ HasPlan(x) /\ p \in {"commit", "deaf", "stopped"}
        /\ \E f \in File : before[x][f] # Unplanned /\ frame[x][a][f] = "none"
  BY <1>1, Zenon DEF HostOK, FramesOK
<1>4. a = 1 /\ p \in EarlyPc => ~HasPlan(x)
  BY Zenon DEF TxInv, PlanOK, EarlyPc
<1>5. /\ h \in Alive => helper[x][a] \in Alive
      /\ h = "committing" \/ (h = "ready" /\ p \in CommitPc) => Engaged(x, a)
  BY Zenon DEF Alive, Engaged, CommitPc
<1>6. \A b \in Attempt : attempt[x][a] = "active" /\ b # a /\ Engaged(x, b) =>
        h = "none" /\ p \in {"spawn", "stopped"}
  BY Zenon DEF TxInv, FencedOff, Alive
<1>7. a = 1 /\ h = "ready" /\ p \in PreCommitPc => \A f \in File : <<x, f>> \notin wrote
  BY Zenon DEF TxInv, NotAsked, PreCommitPc
<1>8. \A f \in File :
        /\ p = "reconcile" /\ row[x][f] # "none" => obs[x][a][f] # "none"
        /\ p = "undo" /\ row[x][f] # "none" => obs[x][a][f] = "before"
        /\ p \in {"reconcile", "undo"} /\ h = "ready" /\ obs[x][a][f] = "before" =>
             Untouched(x, f)
  BY <1>1, Zenon DEF LookedOK
<1>9. p = "rollback" /\ attempt[x][a] = "active" =>
        /\ \A f \in File : Untouched(x, f)
        /\ \A b \in Attempt : b # a => ~Engaged(x, b)
  BY Zenon DEF TxInv, RollbackOK
<1> QED
  BY <1>2, <1>3, <1>4, <1>5, <1>6, <1>7, <1>8, <1>9, Zenon DEF MoveOK, PlaceOK

\* What may follow when the clean-up begins: the transaction is applied, or has left
\* nothing.
LEMMA RemovalSafe ==
  ASSUME IInv, NEW x \in Tx, NEW f \in File, RemoveUpTo(x, f), UNCHANGED state,
         state[x] = "applied" \/ \A g \in File : Untouched(x, g)
  PROVE  \A y \in Tx : BackupOK(y)'
<1> SUFFICES ASSUME NEW y \in Tx, ~External, NEW g \in Deletes, <<y, g>> \in wrote,
                    state[y] # "applied"
             PROVE  artifact'[y][g] = "backup"
  BY Zenon DEF BackupOK, RemoveUpTo
<1>1. artifact[y][g] = "backup"
  BY Zenon DEF IInv, TxInv, BackupOK
<1>2. y # x
  BY ConstantFacts, Zenon DEF Untouched
<1> QED
  BY <1>1, <1>2, ConstantFacts, Zenon DEF RemoveUpTo, IInv, TypeOK

\* A host that goes on to roll back, with its helper alive, has replaced nothing.
LEMMA UntouchedBefore ==
  ASSUME NEW x \in Tx, NEW a \in Attempt, TxInv(x), helper[x][a] = "ready",
         pc[x][a] = "undo" \/ (a = 1 /\ pc[x][a] \in PreCommitPc)
  PROVE  \A f \in File : Untouched(x, f)
<1>1. CASE pc[x][a] = "undo"
  <2>1. LookedOK(x, a) /\ WrittenOK(x)
    BY Zenon DEF TxInv
  <2> QED
    BY <1>1, <2>1, Zenon DEF LookedOK, WrittenOK, Untouched
<1>2. CASE a = 1 /\ pc[x][a] \in PreCommitPc
  BY <1>2, Zenon DEF TxInv, NotAsked, WrittenOK, Untouched
<1> QED
  BY <1>1, <1>2, Zenon

-----------------------------------------------------------------------------
(* Type correctness.                                                       *)

\* The initial state has the types.
LEMMA TypeInit == Init => TypeOK
BY DEF Init, TypeOK, Recoverable, Terminal, Content, Foreign, Unplanned, Pc

\* Every step keeps them.
LEMMA TypeStep == TypeOK /\ [Next]_vars => TypeOK'
<1> SUFFICES ASSUME TypeOK, [Next]_vars PROVE TypeOK'
  BY Zenon
<1> USE ConstantFacts DEF TypeOK, storeVars, diskVars, hostVars, helperVars
<1>1. ASSUME NEW x \in Tx, NEW a \in Attempt,
             \/ HostStep(x, a) \/ HostDies(x, a) \/ HelperFails(x, a)
             \/ \E f \in File : CommitFile(x, a, f)
      PROVE  TypeOK'
  <2>1. CASE ListPending(x)
    BY <2>1, Zenon DEF ListPending, Pc
  <2>2. CASE \E y \in Tx : PassOver(x, y)
    BY <2>2 DEF PassOver
  <2>3. CASE Begin(x)
    BY <2>3 DEF Begin, Goes, Pc, Recoverable
  <2>4. CASE \E files \in (SUBSET File) \ {{}} : ReadPlan(x, files)
    BY <2>4 DEF ReadPlan, Pc
  <2>5. CASE \E next \in {"conflicted", "noop"} : PlanEnds(x, next)
    BY <2>5 DEF PlanEnds, Gone, Pc
  <2>6. CASE FinalizeConflicted(x)
    BY <2>6 DEF FinalizeConflicted, Finalize, Goes, Pc, Terminal
  <2>7. CASE FinalizeNoop(x)
    BY <2>7 DEF FinalizeNoop, Finalize, Goes, Pc, Terminal
  <2>8. CASE RecordPlan(x)
    BY <2>8 DEF RecordPlan, Goes, Pc
  <2>9. CASE MarkPrepared(x)
    BY <2>9 DEF MarkPrepared, Goes, Pc, Recoverable
  <2>10. CASE Aborted(x)
    BY <2>10 DEF Aborted, RemoveArtifacts, RemoveUpTo, Gone, Pc
  <2>11. CASE BeginCommit(x)
    BY <2>11 DEF BeginCommit, Goes, Pc, Recoverable
  <2>12. CASE CatchUnplanned(x)
    BY <2>12 DEF CatchUnplanned, Gone, Pc
  <2>13. CASE CatchCleanly(x)
    BY <2>13 DEF CatchCleanly, RemoveArtifacts, RemoveUpTo, Gone, Pc
  <2>14. CASE CatchBroken(x)
    BY <2>14 DEF CatchBroken, Gone, Pc
  <2>15. CASE Inspect(x, a)
    BY <2>15, ClassCases DEF Inspect, Pc
  <2>16. CASE Reconcile(x, a)
    <3>1. /\ Decision(x, a) \in {"attention", "finalize", "finish_forward",
                                "rollback_noop"}
          /\ Branch(Decision(x, a)) \in Pc
      BY DecisionCases, BranchCases, Zenon DEF Pc
    <3>2. pc' \in [Tx -> [Attempt -> Pc]]
      BY <2>16, <3>1 DEF Reconcile, Goes, Pc
    <3>3. helper' \in [Tx -> [Attempt -> {"none", "gone"} \cup Alive]]
      <4>1. Gone(x, a) \/ helper' = helper
        BY <2>16, Zenon DEF Reconcile
      <4>2. CASE Gone(x, a)
        BY <4>2 DEF Gone
      <4> QED
        BY <4>1, <4>2, Zenon
    <3>4. row' \in [Tx -> [File -> {"none", "pending", "prepared", "committed"}]]
      BY <2>16, Zenon DEF Reconcile
    <3>5. state' \in [Tx -> {"none"} \cup Recoverable \cup Terminal]
      BY <2>16, Zenon DEF Reconcile, Recoverable
    <3> QED
      BY <2>16, <3>1, <3>2, <3>3, <3>4, <3>5, Zenon DEF Reconcile
  <2>17. CASE Undo(x, a)
    BY <2>17 DEF Undo, RemoveArtifacts, RemoveUpTo, Gone, Pc
  <2>18. CASE Acquire(x, a)
    BY <2>18, Zenon DEF Acquire, Alive, Pc
  <2>19. CASE Prepare(x, a)
    BY <2>19, Zenon DEF Prepare, Pc
  <2>20. CASE SendCommit(x, a)
    BY <2>20, Zenon DEF SendCommit, Alive
  <2>21. CASE \E f \in File : RecordCommitted(x, a, f)
    BY <2>21 DEF RecordCommitted, Goes, Pc
  <2>22. CASE \E f \in File : RecordFails(x, a, f)
    BY <2>22 DEF RecordFails, Pc
  <2>23. CASE CommitDone(x, a)
    BY <2>23, Zenon DEF CommitDone, Pc
  <2>24. CASE FinalizeApplied(x, a)
    <3>1. OnError(x, a) \in Pc
      BY OnErrorCases, Zenon DEF Pc
    <3> QED
      BY <2>24, <3>1 DEF FinalizeApplied, Finalize, Goes, Pc, Terminal
  <2>25. CASE CleanUp(x, a)
    BY <2>25 DEF CleanUp, RemoveArtifacts, RemoveUpTo, Gone, Pc
  <2>26. CASE Throws(x, a)
    <3>1. OnError(x, a) \in Pc
      BY OnErrorCases, Zenon DEF Pc
    <3>2. pc' \in [Tx -> [Attempt -> Pc]]
      BY <2>26, <3>1, Zenon DEF Throws
    <3>3. helper' \in [Tx -> [Attempt -> {"none", "gone"} \cup Alive]]
      <4>1. Gone(x, a) \/ helper' = helper
        BY <2>26, Zenon DEF Throws
      <4>2. CASE Gone(x, a)
        BY <4>2, Zenon DEF Gone
      <4> QED
        BY <4>1, <4>2, Zenon
    <3> QED
      BY <2>26, <3>2, <3>3, Zenon DEF Throws
  <2>27. CASE FinalizeRolledBack(x, a)
    BY <2>27, Zenon DEF FinalizeRolledBack, Finalize, Pc, Terminal
  <2>28. CASE FinalizeRecoveryRequired(x, a)
    BY <2>28, Zenon DEF FinalizeRecoveryRequired, Finalize, Pc, Recoverable
  <2>29. CASE HostDies(x, a)
    BY <2>29, Zenon DEF HostDies, Pc
  <2>30. CASE \E f \in File : CommitFile(x, a, f)
    <3> PICK f \in File : CommitFile(x, a, f)
      BY <2>30, Zenon
    <3>1. /\ content' \in [File -> Content]
          /\ wrote' \in SUBSET (Tx \X File)
          /\ artifact' \in [Tx -> [File -> {"none", "temp", "torn", "backup"}]]
      <4>1. CASE UNCHANGED <<content, artifact, wrote>>
        BY <4>1, Zenon
      <4>2. CASE /\ content' = [content EXCEPT ![f] = x]
                 /\ artifact' = [artifact EXCEPT ![x][f] =
                                   IF f \in Deletes THEN "backup" ELSE "none"]
                 /\ wrote' = wrote \cup {<<x, f>>}
        BY <4>2 DEF Content
      <4> QED
        BY <4>1, <4>2, CommitChanges, Zenon
    <3>2. frame' \in [Tx -> [Attempt -> [File -> {"none", "sent", "heard"}]]]
      BY DEF CommitFile
    <3>3. helper' \in [Tx -> [Attempt -> {"none", "gone"} \cup Alive]]
      BY Zenon DEF CommitFile, Alive
    <3> QED
      BY <3>1, <3>2, <3>3, Zenon DEF CommitFile
  <2>31. CASE \E f \in File, torn \in BOOLEAN : PrepareStops(x, a, f, torn)
    BY <2>31 DEF PrepareStops, Gone
  <2>32. CASE \E f \in File : CleanupStops(x, a, f)
    BY <2>32 DEF CleanupStops, RemoveUpTo, Gone
  <2>33. CASE HelperDies(x, a)
    BY <2>33, Zenon DEF HelperDies, Gone
  <2> QED
    BY Zenon, <1>1, <2>1, <2>2, <2>3, <2>4, <2>5, <2>6, <2>7, <2>8, <2>9, <2>10,
           <2>11, <2>12,
       <2>13, <2>14, <2>15, <2>16, <2>17, <2>18, <2>19, <2>20, <2>21, <2>22, <2>23,
       <2>24, <2>25, <2>26, <2>27, <2>28, <2>29, <2>30, <2>31, <2>32, <2>33
       DEF HostStep, ExecutionStep, RecoveryStep, HelperFails
<1>2. CASE \E x \in Tx, a \in Recovery : ClaimRecovery(x, a)
  BY <1>2 DEF ClaimRecovery, Goes, Pc
<1>3. CASE \E x \in Tx, f \in File : CleanTerminal(x, f)
  BY <1>3 DEF CleanTerminal, RemoveUpTo
<1>4. CASE \E x \in Tx : LeaseLapses(x)
  BY <1>4, Zenon DEF LeaseLapses
<1>5. CASE \E f \in File : ExternalEdit(f)
  BY <1>5, Zenon DEF ExternalEdit, Content
<1>6. CASE UNCHANGED vars
  BY <1>6, Zenon DEF vars
<1> QED
  BY <1>1, <1>2, <1>3, <1>4, <1>5, <1>6, Zenon DEF Next

-----------------------------------------------------------------------------
(* The invariant is kept by the steps of hosts and helpers that claim no   *)
(* attempt, record no plan and replace no file.                            *)


\* The places of the hosts and the lives of the helpers.
LEMMA HostTypes ==
  ASSUME TypeOK
  PROVE  /\ pc \in [Tx -> [Attempt -> Pc]]
         /\ helper \in [Tx -> [Attempt -> {"none", "gone"} \cup Alive]]
BY Zenon DEF TypeOK

\* A host moves to q.
HostTo(x, a, q) == pc' = [pc EXCEPT ![x][a] = q]

LEMMA HostMoved ==
  ASSUME TypeOK, NEW x \in Tx, NEW a \in Attempt, NEW q, HostTo(x, a, q)
  PROVE  /\ pc'[x][a] = q
         /\ \A y \in Tx, b \in Attempt : y # x \/ b # a => pc'[y][b] = pc[y][b]
BY HostTypes, Zenon DEF HostTo

\* A helper comes to h.
HelperTo(x, a, h) == helper' = [helper EXCEPT ![x][a] = h]

LEMMA HelperMoved ==
  ASSUME TypeOK, NEW x \in Tx, NEW a \in Attempt, NEW h, HelperTo(x, a, h)
  PROVE  /\ helper'[x][a] = h
         /\ \A y \in Tx, b \in Attempt : y # x \/ b # a => helper'[y][b] = helper[y][b]
BY HostTypes, Zenon DEF HelperTo

\* The helper of a host that lets go of it is not alive.
LEMMA LetGo ==
  ASSUME TypeOK, NEW x \in Tx, NEW a \in Attempt, Gone(x, a)
  PROVE  helper'[x][a] \notin Alive /\ (helper[x][a] \in Alive => helper'[x][a] = "gone")
BY HostTypes, Zenon DEF Gone, Alive

\* What the invariant says of an attempt; an active one with the lock, or on its way
\* past it, has no rival.
LEMMA Around ==
  ASSUME IInv, NEW x \in Tx, NEW a \in Attempt
  PROVE  /\ TxInv(x) /\ HostOK(x, a) /\ FramesOK(x, a) /\ LookedOK(x, a) /\ WrittenOK(x)
         /\ TypeOK
         /\ attempt[x][a] = "active" /\ pc[x][a] \notin {"spawn", "stopped"} =>
              \A b \in Attempt : b # a => ~Engaged(x, b)
<1>1. TxInv(x) /\ TypeOK
  BY Zenon DEF IInv
<1>2. HostOK(x, a) /\ FramesOK(x, a) /\ LookedOK(x, a) /\ WrittenOK(x)
  BY <1>1, Zenon DEF TxInv
<1> QED
  BY <1>1, <1>2, Zenon DEF TxInv, FencedOff

-----------------------------------------------------------------------------
(* The steps that record how far an attempt has come.                      *)

\* The backups stay when no transaction comes to be applied or stops being so.
LEMMA BackupStays ==
  ASSUME IInv, UNCHANGED <<artifact, wrote>>,
         \A y \in Tx : state'[y] = "applied" <=> state[y] = "applied"
  PROVE  \A y \in Tx : BackupOK(y)'
BY Zenon DEF IInv, TxInv, BackupOK

\* mark_..._prepared and begin_..._commit.
LEMMA ProgressStep ==
  ASSUME IInv, TypeOK', NEW x \in Tx, NEW a \in Attempt, a = 1,
         MarkPrepared(x) \/ BeginCommit(x)
  PROVE  IInv'
<1> USE DEF storeVars, diskVars, hostVars, helperVars
<1>1. /\ TxInv(x) /\ HostOK(x, a) /\ FramesOK(x, a) /\ LookedOK(x, a) /\ WrittenOK(x)
      /\ TypeOK
  BY Around, Zenon
<1>2. attempt[x][a] = "active" /\ pc[x][a] \notin {"spawn", "stopped"} =>
        \A b \in Attempt : b # a => ~Engaged(x, b)
  BY Around, Zenon
<1>3. PICK q \in {"begin", "commit", "throw"} :
        /\ pc' = [pc EXCEPT ![x][1] = q]
        /\ q = "begin" => pc[x][1] = "mark"
        /\ q = "commit" => pc[x][1] = "begin"
  BY Zenon DEF MarkPrepared, BeginCommit, Goes
<1>4. PICK s \in {"prepared", "committing"} : state' = [state EXCEPT ![x] = s]
  BY Zenon DEF MarkPrepared, BeginCommit
<1>5. /\ pc[x][1] \in {"mark", "begin"} /\ attempt[x][1] = "active"
      /\ state[x] \in {"planning", "prepared"}
      /\ UNCHANGED <<attempt, artifact, content, wrote, helper, frame, before, obs>>
  BY Zenon DEF MarkPrepared, BeginCommit, Live
<1>6. /\ \A y \in Tx : y # x => row'[y] = row[y]
      /\ \A f \in File : /\ row'[x][f] = "none" <=> row[x][f] = "none"
                         /\ row'[x][f] = "committed" => row[x][f] = "committed"
  <2>1. CASE UNCHANGED row
    BY <2>1, Zenon
  <2>2. CASE row' = [row EXCEPT ![x] = [f \in File |->
                       IF row[x][f] = "pending" THEN "prepared" ELSE row[x][f]]]
    BY <1>1, <2>2, Zenon DEF TypeOK
  <2> QED
    BY <2>1, <2>2, Zenon DEF MarkPrepared, BeginCommit
<1>7. Moved(x, 1)
  <2>1. \A y \in Tx, b \in Attempt : y # x \/ b # 1 => pc'[y][b] = pc[y][b]
    BY <1>1, <1>3, Zenon DEF TypeOK
  <2>2. /\ \A y \in Tx : y # x => state'[y] = state[y]
        /\ state[x] \in Recoverable /\ state'[x] \in Recoverable
    BY <1>1, <1>4, <1>5, Zenon DEF TypeOK, Recoverable
  <2>3. \A f \in File :
          row[x][f] = "committed" \/ obs[x][1][f] = "after" => <<x, f>> \in wrote
    BY <1>1, ConstantFacts, Zenon DEF WrittenOK
  <2>4. \A f \in File :
          /\ row'[x][f] = "none" <=> row[x][f] = "none"
          /\ row'[x][f] = "committed" \/ obs'[x][1][f] = "after" => <<x, f>> \in wrote
    BY <1>5, <1>6, <2>3, Zenon
  <2> QED
    BY <1>5, <1>6, <2>1, <2>2, <2>4, Zenon DEF Moved
<1>8. pc'[x][1] = q /\ helper'[x][1] = helper[x][1]
  BY <1>1, <1>3, <1>5, ConstantFacts, Zenon DEF TypeOK
<1>9. PlaceOK(x, 1, q, helper[x][1])
  <2>1. /\ HasPlan(x) /\ helper[x][1] # "committing"
        /\ helper[x][1] = "ready" => \A f \in File : <<x, f>> \notin wrote
    BY <1>1, <1>5, Zenon DEF HostOK, LatePc, TxInv, NotAsked, PreCommitPc
  <2> QED
    BY <1>2, <1>5, <2>1, Zenon DEF PlaceOK, ExecutionPc, RecoveryPc, LatePc,
           EarlyPc, CommitPc, Terminal
<1>10. LookedOK(x, 1)'
  BY <1>8, Zenon DEF LookedOK
<1>11. \A y \in Tx : BackupOK(y)'
  BY <1>1, BackupStays, <1>4, <1>5, Zenon DEF TypeOK
<1> QED
  BY <1>7, <1>8, <1>9, <1>10, <1>11, StoreMoves, ConstantFacts, Zenon

\* A frame is recorded.
LEMMA RecordCommittedStep ==
  ASSUME IInv, TypeOK', NEW x \in Tx, NEW a \in Attempt,
         NEW f \in File, RecordCommitted(x, a, f)
  PROVE  IInv'
<1> USE DEF storeVars, diskVars, hostVars, helperVars
<1>1. /\ TxInv(x) /\ HostOK(x, a) /\ FramesOK(x, a) /\ LookedOK(x, a) /\ WrittenOK(x)
      /\ TypeOK
  BY Around, Zenon
<1>2. attempt[x][a] = "active" /\ pc[x][a] \notin {"spawn", "stopped"} =>
        \A b \in Attempt : b # a => ~Engaged(x, b)
  BY Around, Zenon
<1>3. PICK q \in {"commit", "deaf"} : pc' = [pc EXCEPT ![x][a] = q]
  BY Zenon DEF RecordCommitted, Goes
<1>4. /\ pc[x][a] = "commit" /\ attempt[x][a] = "active" /\ frame[x][a][f] = "sent"
      /\ row[x][f] # "none"
      /\ row' = [row EXCEPT ![x][f] = "committed"]
      /\ frame' = [frame EXCEPT ![x][a][f] = "heard"]
      /\ UNCHANGED <<state, attempt, artifact, content, wrote, helper, before, obs>>
  BY Zenon DEF RecordCommitted, Live, NextFrame
<1>5. pc'[x][a] = q /\ helper'[x][a] = helper[x][a]
  BY <1>1, <1>3, <1>4 DEF TypeOK
<1>6. <<x, f>> \in wrote
  BY <1>1, <1>4, Zenon DEF FramesOK
<1>7. Moved(x, a)
  <2>1. /\ \A y \in Tx : y # x => row'[y] = row[y] /\ frame'[y] = frame[y]
        /\ \A g \in File : /\ row'[x][g] = "none" <=> row[x][g] = "none"
                           /\ row'[x][g] = "committed" => row[x][g] = "committed" \/ g = f
    BY <1>1, <1>4 DEF TypeOK
  <2>2. \A b \in Attempt, g \in File :
          frame'[x][b][g] = "none" <=> frame[x][b][g] = "none"
    BY <1>1, <1>4 DEF TypeOK
  <2> QED
    <3>1. \A y \in Tx, b \in Attempt : y # x \/ b # a => pc'[y][b] = pc[y][b]
      BY <1>1, <1>3, Zenon DEF TypeOK
    <3>2. \A g \in File :
            row[x][g] = "committed" \/ obs[x][a][g] = "after" => <<x, g>> \in wrote
      BY <1>1, Zenon DEF WrittenOK
    <3> QED
      BY <1>4, <1>6, <2>1, <2>2, <3>1, <3>2, Zenon DEF Moved
<1>8. PlaceOK(x, a, q, helper[x][a])
  BY <1>1, <1>2, <1>4, Zenon DEF PlaceOK, HostOK, FramesOK, Engaged, Alive,
         ExecutionPc, RecoveryPc, LatePc, EarlyPc, CommitPc, PreCommitPc
<1>9. LookedOK(x, a)'
  BY <1>5, Zenon DEF LookedOK
<1>10. \A y \in Tx : BackupOK(y)'
  BY BackupStays, <1>4, Zenon
<1> QED
  BY <1>5, <1>7, <1>8, <1>9, <1>10, StoreMoves, Zenon

\* inspect_files, under the lock.
LEMMA InspectStep ==
  ASSUME IInv, TypeOK', NEW x \in Tx, NEW a \in Attempt, a # 1,
         Inspect(x, a)
  PROVE  IInv'
<1> USE DEF storeVars, diskVars, hostVars, helperVars
<1>1. /\ TxInv(x) /\ HostOK(x, a) /\ FramesOK(x, a) /\ LookedOK(x, a) /\ WrittenOK(x)
      /\ TypeOK
  BY Around, Zenon
<1>2. attempt[x][a] = "active" /\ pc[x][a] \notin {"spawn", "stopped"} =>
        \A b \in Attempt : b # a => ~Engaged(x, b)
  BY Around, Zenon
<1>3. /\ pc[x][a] = "inspect" /\ helper[x][a] = "ready"
      /\ pc' = [pc EXCEPT ![x][a] = "reconcile"]
      /\ obs' = [obs EXCEPT ![x][a] = [f \in File |->
                   IF f \in Recorded(x) THEN Class(x, f) ELSE "none"]]
      /\ UNCHANGED <<state, row, attempt, artifact, content, wrote, helper, frame, before>>
  BY Zenon DEF Inspect
<1>4. /\ pc'[x][a] = "reconcile" /\ helper'[x][a] = "ready"
      /\ \A y \in Tx, b \in Attempt : y # x \/ b # a => obs'[y][b] = obs[y][b]
  BY <1>1, <1>3 DEF TypeOK
<1>5. \A f \in File : /\ row[x][f] # "none" => obs'[x][a][f] = Class(x, f)
                      /\ row[x][f] = "none" => obs'[x][a][f] = "none"
  BY <1>1, <1>3 DEF TypeOK, Recorded
<1>6. Moved(x, a)
  BY <1>1, <1>3, <1>4, <1>5, ClassCases DEF Moved, TypeOK, WrittenOK
<1>7. PlaceOK(x, a, "reconcile", "ready")
  BY <1>1, <1>2, <1>3, Zenon DEF PlaceOK, HostOK, Alive, ExecutionPc, RecoveryPc,
         LatePc, EarlyPc, CommitPc, PreCommitPc
<1>8. LookedOK(x, a)'
  <2> SUFFICES ASSUME NEW f \in File
               PROVE  /\ row[x][f] # "none" => obs'[x][a][f] # "none"
                      /\ obs'[x][a][f] = "before" => Untouched(x, f)
    BY <1>3, <1>4, Zenon DEF LookedOK, Untouched
  <2> DEFINE c == Class(x, f)
  <2>0. c \in {"before", "after", "other"} /\ (c = "before" => content[f] = before[x][f])
    BY ClassCases, Zenon
  <2> HIDE DEF c
  <2>3. /\ row[x][f] # "none" => obs'[x][a][f] = c
        /\ row[x][f] = "none" => obs'[x][a][f] = "none"
    BY <1>5, Zenon DEF c
  <2>1. row[x][f] # "none" => obs'[x][a][f] # "none"
    BY <2>0, <2>3, Zenon
  <2>2. ASSUME obs'[x][a][f] = "before" PROVE Untouched(x, f)
    <3>1. content[f] = before[x][f]
      BY <2>0, <2>2, <2>3, Zenon
    <3> QED
      BY <1>1, <3>1, Zenon DEF TxInv, NoReturn, Untouched
  <2> QED
    BY <2>1, <2>2, Zenon
<1>9. \A y \in Tx : BackupOK(y)'
  BY BackupStays, <1>3, Zenon
<1> QED
  BY <1>4, <1>6, <1>7, <1>8, <1>9, StoreMoves, Zenon

\* The decision of a recovery.
LEMMA ReconcileStep ==
  ASSUME IInv, TypeOK', NEW x \in Tx, NEW a \in Attempt, a # 1,
         Reconcile(x, a)
  PROVE  IInv'
<1> USE DEF storeVars, diskVars, hostVars, helperVars
<1>1. /\ TxInv(x) /\ HostOK(x, a) /\ FramesOK(x, a) /\ LookedOK(x, a) /\ WrittenOK(x)
      /\ TypeOK
  BY Around, Zenon
<1>2. attempt[x][a] = "active" /\ pc[x][a] \notin {"spawn", "stopped"} =>
        \A b \in Attempt : b # a => ~Engaged(x, b)
  BY Around, Zenon
<1> DEFINE d == Decision(x, a)
<1>3. /\ pc[x][a] = "reconcile" /\ attempt[x][a] = "active" /\ state[x] \in Recoverable
      /\ row' = [row EXCEPT ![x] = [f \in File |->
                   IF row[x][f] = "none" THEN "none"
                   ELSE IF obs[x][a][f] = "after" THEN "committed" ELSE "prepared"]]
      /\ state' = [state EXCEPT ![x] = IF d = "attention" THEN "recovery_required" ELSE @]
      /\ Gone(x, a) \/ UNCHANGED helper
      /\ UNCHANGED <<attempt, artifact, content, wrote, frame, before, obs>>
  BY Zenon DEF Reconcile, Live
<1>4. PICK q \in {Branch(d), "stopped"} : pc' = [pc EXCEPT ![x][a] = q]
  BY Zenon DEF Reconcile, Goes
<1>5. pc'[x][a] = q
  BY <1>1, <1>4, Zenon DEF TypeOK
<1>6. /\ \A y \in Tx, b \in Attempt : y # x \/ b # a => helper'[y][b] = helper[y][b]
      /\ helper'[x][a] = helper[x][a] \/ (helper'[x][a] = "gone" /\ helper[x][a] \in Alive)
  BY <1>1, <1>3, GoneCases, Zenon
<1>7. Moved(x, a)
  <2>1. /\ \A y \in Tx : y # x => row'[y] = row[y] /\ state'[y] = state[y]
        /\ \A g \in File : /\ row'[x][g] = "none" <=> row[x][g] = "none"
                           /\ row'[x][g] = "committed" => obs[x][a][g] = "after"
        /\ state'[x] = state[x] \/ state'[x] \in Recoverable
    BY <1>1, <1>3, Zenon DEF TypeOK, Recoverable
  <2> QED
    BY <1>1, <1>3, <1>4, <1>6, <2>1 DEF Moved, TypeOK, WrittenOK
<1>8. q \in {"giveup", "finalize", "prepare", "stopped", "undo"}
  BY DecisionCases, BranchCases, Zenon
<1>9. PlaceOK(x, a, q, helper'[x][a])
  <2>1. HasPlan(x) /\ helper'[x][a] # "committing" /\ state[x] \notin Terminal
    BY <1>1, <1>3, <1>6, Zenon DEF HostOK, LatePc, RecoveryPc, Recoverable, Terminal
  <2> QED
    BY <1>2, <1>3, <1>6, <1>8, <2>1, Zenon DEF PlaceOK, Alive, ExecutionPc,
           RecoveryPc, LatePc, EarlyPc, CommitPc, PreCommitPc
<1>10. LookedOK(x, a)'
  <2>1. q = "undo" => \A f \in File : row[x][f] # "none" => obs[x][a][f] = "before"
    <3> SUFFICES ASSUME q = "undo" PROVE \A f \in Recorded(x) : obs[x][a][f] = "before"
      BY Zenon DEF Recorded
    <3>1. /\ \A f \in Recorded(x) : obs[x][a][f] # "other"
          /\ ~\A f \in Recorded(x) : obs[x][a][f] = "after"
          /\ \/ \A f \in Recorded(x) : obs[x][a][f] # "before"
             \/ \A f \in Recorded(x) : obs[x][a][f] # "after"
      BY DecisionCases, BranchCases, Zenon
    <3>2. \A f \in Recorded(x) : obs[x][a][f] \in {"before", "after", "other"}
      BY <1>1, <1>3 DEF LookedOK, Recorded, TypeOK
    <3> QED
      BY <3>1, <3>2, Zenon
  <2>2. \A f \in File : row'[x][f] # "none" => row[x][f] # "none"
    BY <1>7, Zenon DEF Moved
  <2> QED
    BY <1>1, <1>3, <1>5, <1>6, <1>8, <2>1, <2>2, Zenon DEF LookedOK, Untouched
<1>11. \A y \in Tx : BackupOK(y)'
  BY <1>1, BackupStays, <1>3, Zenon DEF TypeOK, Recoverable
<1> QED
  BY <1>5, <1>7, <1>9, <1>10, <1>11, StoreMoves, Zenon

-----------------------------------------------------------------------------
(* The steps that move a host or a helper and change nothing else.         *)

\* A step that changes the place of a host and the life of its helper, nothing else.
LEMMA QuietMove ==
  ASSUME IInv, TypeOK', NEW x \in Tx, NEW a \in Attempt,
         UNCHANGED <<state, row, attempt, artifact, content, wrote, frame, before, obs>>,
         \A y \in Tx, b \in Attempt : y # x \/ b # a =>
           pc'[y][b] = pc[y][b] /\ helper'[y][b] = helper[y][b],
         MoveOK(x, a, pc'[x][a], helper'[x][a])
  PROVE  IInv'
BY BackupSame, HostMoves, Zenon

\* The same, when the host moves to q and its helper stays or goes.
LEMMA QuietTo ==
  ASSUME IInv, TypeOK', NEW x \in Tx, NEW a \in Attempt, NEW q,
         UNCHANGED <<state, row, attempt, artifact, content, wrote, frame, before, obs>>,
         HostTo(x, a, q),
         Gone(x, a) \/ UNCHANGED helper,
         MoveOK(x, a, q, helper'[x][a])
  PROVE  IInv'
<1>1. TypeOK
  BY Zenon DEF IInv
<1>2. \A y \in Tx, b \in Attempt : y # x \/ b # a => helper'[y][b] = helper[y][b]
  BY <1>1, GoneCases, Zenon
<1>3. /\ pc'[x][a] = q
      /\ \A y \in Tx, b \in Attempt : y # x \/ b # a => pc'[y][b] = pc[y][b]
  BY <1>1, HostMoved, Zenon
<1> QED
  BY <1>2, <1>3, QuietMove, Zenon

\* An execution asks what is pending.
LEMMA ListPendingStep ==
  ASSUME IInv, TypeOK', NEW x \in Tx, NEW a \in Attempt, a = 1,
         ListPending(x)
  PROVE  IInv'
<1>1. /\ TxInv(x) /\ HostOK(x, a) /\ FramesOK(x, a) /\ LookedOK(x, a) /\ WrittenOK(x)
      /\ TypeOK
  BY Around, Zenon
<1>2. attempt[x][a] = "active" /\ pc[x][a] \notin {"spawn", "stopped"} =>
        \A b \in Attempt : b # a => ~Engaged(x, b)
  BY Around, Zenon
<1>3. /\ UNCHANGED <<state, row, attempt, artifact, content, wrote, frame, before, obs>>
      /\ UNCHANGED helper /\ HostTo(x, 1, "checking")
  BY Zenon DEF ListPending, HostTo, HelperTo,
     storeVars, diskVars, hostVars, helperVars
<1>4. pc[x][1] = "idle"
  BY Zenon DEF ListPending
<1>5. helper[x][a] # "committing" /\ ~HasPlan(x)
  BY <1>1, <1>4, Zenon DEF HostOK, TxInv, PlanOK, EarlyPc
<1>6. MoveOK(x, a, "checking", helper'[x][a])
  BY <1>1, <1>2, <1>3, <1>4, <1>5, Zenon DEF MoveOK, PlaceOK, HostOK, ExecutionPc,
     RecoveryPc, LatePc, CommitPc, PreCommitPc
<1> QED
  BY QuietTo, <1>3, <1>6, Zenon

\* A plan without changes.
LEMMA PlanEndsStep ==
  ASSUME IInv, TypeOK', NEW x \in Tx, NEW a \in Attempt, a = 1,
         NEW next \in {"conflicted", "noop"}, PlanEnds(x, next)
  PROVE  IInv'
<1>1. /\ TxInv(x) /\ HostOK(x, a) /\ FramesOK(x, a) /\ LookedOK(x, a) /\ WrittenOK(x)
      /\ TypeOK
  BY Around, Zenon
<1>2. attempt[x][a] = "active" /\ pc[x][a] \notin {"spawn", "stopped"} =>
        \A b \in Attempt : b # a => ~Engaged(x, b)
  BY Around, Zenon
<1>3. /\ UNCHANGED <<state, row, attempt, artifact, content, wrote, frame, before, obs>>
      /\ Gone(x, 1) /\ HostTo(x, 1, next)
  BY Zenon DEF PlanEnds, HostTo, HelperTo,
     storeVars, diskVars, hostVars, helperVars
<1>4. pc[x][1] = "plan"
  BY Zenon DEF PlanEnds
<1>5. helper'[x][a] \notin Alive /\ ~HasPlan(x) /\ attempt[x][a] # "none"
  BY <1>1, <1>3, <1>4, LetGo, Zenon DEF HostOK, TxInv, PlanOK, EarlyPc
<1>6. MoveOK(x, a, next, helper'[x][a])
  BY <1>2, <1>4, <1>5, Zenon DEF MoveOK, PlaceOK, ExecutionPc, RecoveryPc,
     LatePc, CommitPc, PreCommitPc, Alive
<1> QED
  BY QuietTo, <1>3, <1>6, Zenon

\* A failure before there is a plan.
LEMMA CatchUnplannedStep ==
  ASSUME IInv, TypeOK', NEW x \in Tx, NEW a \in Attempt, a = 1,
         CatchUnplanned(x)
  PROVE  IInv'
<1>1. /\ TxInv(x) /\ HostOK(x, a) /\ FramesOK(x, a) /\ LookedOK(x, a) /\ WrittenOK(x)
      /\ TypeOK
  BY Around, Zenon
<1>2. attempt[x][a] = "active" /\ pc[x][a] \notin {"spawn", "stopped"} =>
        \A b \in Attempt : b # a => ~Engaged(x, b)
  BY Around, Zenon
<1>3. /\ UNCHANGED <<state, row, attempt, artifact, content, wrote, frame, before, obs>>
      /\ Gone(x, 1) /\ HostTo(x, 1, "rollback")
  BY Zenon DEF CatchUnplanned, HostTo, HelperTo,
     storeVars, diskVars, hostVars, helperVars
<1>4. pc[x][1] = "throw" /\ Planned(x) = {}
  BY Zenon DEF CatchUnplanned
<1>5. helper'[x][a] \notin Alive /\ attempt[x][a] # "none"
  BY <1>1, <1>3, <1>4, LetGo, Zenon DEF HostOK
<1>6. ~HasPlan(x)
  BY <1>1, <1>4, Zenon DEF TxInv, PlanOK, HasPlan, Planned
<1>7. \A f \in File : Untouched(x, f)
  BY <1>1, <1>6, NoPlan, Zenon DEF Untouched
<1>8. MoveOK(x, a, "rollback", helper'[x][a])
  BY <1>2, <1>4, <1>5, <1>6, <1>7, Zenon
  DEF MoveOK, PlaceOK, ExecutionPc, RecoveryPc, LatePc, EarlyPc, CommitPc,
      PreCommitPc, Alive
<1> QED
  BY QuietTo, <1>3, <1>8, Zenon

\* A failure that is left to a recovery.
LEMMA CatchBrokenStep ==
  ASSUME IInv, TypeOK', NEW x \in Tx, NEW a \in Attempt, a = 1,
         CatchBroken(x)
  PROVE  IInv'
<1>1. /\ TxInv(x) /\ HostOK(x, a) /\ FramesOK(x, a) /\ LookedOK(x, a) /\ WrittenOK(x)
      /\ TypeOK
  BY Around, Zenon
<1>2. attempt[x][a] = "active" /\ pc[x][a] \notin {"spawn", "stopped"} =>
        \A b \in Attempt : b # a => ~Engaged(x, b)
  BY Around, Zenon
<1>3. /\ UNCHANGED <<state, row, attempt, artifact, content, wrote, frame, before, obs>>
      /\ Gone(x, 1) /\ HostTo(x, 1, "giveup")
  BY Zenon DEF CatchBroken, HostTo, HelperTo,
     storeVars, diskVars, hostVars, helperVars
<1>4. pc[x][1] \in {"throw", "throwCommit"}
  BY Zenon DEF CatchBroken
<1>5. helper'[x][a] \notin Alive /\ attempt[x][a] # "none"
  BY <1>1, <1>3, <1>4, LetGo, Zenon DEF HostOK
<1>6. MoveOK(x, a, "giveup", helper'[x][a])
  BY <1>2, <1>4, <1>5, Zenon DEF MoveOK, PlaceOK, ExecutionPc, RecoveryPc,
     LatePc, EarlyPc, CommitPc, PreCommitPc, Alive
<1> QED
  BY QuietTo, <1>3, <1>6, Zenon

\* A helper gets the lock: no other is alive.
LEMMA AcquireStep ==
  ASSUME IInv, TypeOK', NEW x \in Tx, NEW a \in Attempt,
         Acquire(x, a)
  PROVE  IInv'
<1>1. /\ TxInv(x) /\ HostOK(x, a) /\ FramesOK(x, a) /\ LookedOK(x, a) /\ WrittenOK(x)
      /\ TypeOK
  BY Around, Zenon
<1>2. /\ UNCHANGED <<state, row, attempt, artifact, content, wrote, frame, before, obs>>
      /\ HostTo(x, a, IF a = 1 THEN "plan" ELSE "inspect") /\ HelperTo(x, a, "ready")
  BY Zenon DEF Acquire, HostTo, HelperTo,
     storeVars, diskVars, hostVars, helperVars
<1>3. pc[x][a] = "spawn" /\ LockFree
  BY Zenon DEF Acquire
<1>4. /\ attempt[x][a] # "none"
      /\ a # 1 => HasPlan(x)
      /\ a = 1 => ~HasPlan(x)
  BY <1>1, <1>3, Zenon DEF HostOK, TxInv, PlanOK, EarlyPc
<1>5. \A b \in Attempt : ~Engaged(x, b)
  BY <1>3, Zenon DEF LockFree, Engaged, Alive
<1>6. /\ pc'[x][a] = IF a = 1 THEN "plan" ELSE "inspect"
      /\ \A y \in Tx, b \in Attempt : y # x \/ b # a => pc'[y][b] = pc[y][b]
  BY <1>1, <1>2, HostMoved
<1>7. /\ helper'[x][a] = "ready"
      /\ \A y \in Tx, b \in Attempt : y # x \/ b # a => helper'[y][b] = helper[y][b]
  BY <1>1, <1>2, HelperMoved, Zenon
<1>8. MoveOK(x, a, pc'[x][a], helper'[x][a])
  <2>1. CASE a = 1
    BY <1>1, <1>3, <1>4, <1>5, <1>6, <1>7, <2>1, NoPlan, Zenon DEF MoveOK,
           PlaceOK, ExecutionPc, RecoveryPc, LatePc, EarlyPc, CommitPc,
           PreCommitPc
  <2>2. CASE a # 1
    BY <1>3, <1>4, <1>5, <1>6, <1>7, <2>2, Zenon DEF MoveOK, PlaceOK, ExecutionPc,
           RecoveryPc, LatePc, EarlyPc, CommitPc, PreCommitPc
  <2> QED
    BY <2>1, <2>2, Zenon
<1> QED
  BY QuietMove, <1>2, <1>6, <1>7, <1>8, Zenon

\* The commit command.
LEMMA SendCommitStep ==
  ASSUME IInv, TypeOK', NEW x \in Tx, NEW a \in Attempt,
         SendCommit(x, a)
  PROVE  IInv'
<1>1. /\ TxInv(x) /\ HostOK(x, a) /\ FramesOK(x, a) /\ LookedOK(x, a) /\ WrittenOK(x)
      /\ TypeOK
  BY Around, Zenon
<1>2. attempt[x][a] = "active" /\ pc[x][a] \notin {"spawn", "stopped"} =>
        \A b \in Attempt : b # a => ~Engaged(x, b)
  BY Around, Zenon
<1>3. /\ UNCHANGED <<state, row, attempt, artifact, content, wrote, frame, before, obs>>
      /\ UNCHANGED pc /\ HelperTo(x, a, "committing")
  BY Zenon DEF SendCommit, HostTo, HelperTo,
     storeVars, diskVars, hostVars, helperVars
<1>4. pc[x][a] = "commit" /\ helper[x][a] = "ready" /\ \A f \in File : frame[x][a][f] = "none"
  BY Zenon DEF SendCommit
<1>5. HasPlan(x) /\ attempt[x][a] # "none"
  BY <1>1, <1>4, Zenon DEF HostOK, LatePc
<1>6. \E f \in File : before[x][f] # Unplanned /\ frame[x][a][f] = "none"
  BY <1>1, <1>4, <1>5, Zenon DEF TxInv, PlanOK, HasPlan
<1>7. Engaged(x, a) /\ helper[x][a] \in Alive
  BY <1>4, Zenon DEF Engaged, CommitPc, Alive
<1>8. /\ helper'[x][a] = "committing"
      /\ \A y \in Tx, b \in Attempt : y # x \/ b # a => helper'[y][b] = helper[y][b]
  BY <1>1, <1>3, HelperMoved, Zenon
<1>9. MoveOK(x, a, "commit", "committing")
  BY <1>2, <1>4, <1>5, <1>6, <1>7, Zenon DEF MoveOK, PlaceOK, ExecutionPc,
         RecoveryPc, LatePc, EarlyPc, PreCommitPc
<1> QED
  BY QuietMove, <1>3, <1>4, <1>8, <1>9, Zenon

\* A frame that cannot be recorded.
LEMMA RecordFailsStep ==
  ASSUME IInv, TypeOK', NEW x \in Tx, NEW a \in Attempt,
         NEW f \in File, RecordFails(x, a, f)
  PROVE  IInv'
<1>1. /\ TxInv(x) /\ HostOK(x, a) /\ FramesOK(x, a) /\ LookedOK(x, a) /\ WrittenOK(x)
      /\ TypeOK
  BY Around, Zenon
<1>2. attempt[x][a] = "active" /\ pc[x][a] \notin {"spawn", "stopped"} =>
        \A b \in Attempt : b # a => ~Engaged(x, b)
  BY Around, Zenon
<1>3. /\ UNCHANGED <<state, row, attempt, artifact, content, wrote, frame, before, obs>>
      /\ UNCHANGED helper /\ HostTo(x, a, "deaf")
  BY Zenon DEF RecordFails, HostTo, HelperTo,
     storeVars, diskVars, hostVars, helperVars
<1>4. pc[x][a] = "commit"
  BY Zenon DEF RecordFails
<1>5. MoveOK(x, a, "deaf", helper'[x][a])
  BY <1>1, <1>2, <1>3, <1>4, Zenon DEF MoveOK, PlaceOK, HostOK, FramesOK, Engaged,
         Alive, ExecutionPc, RecoveryPc, LatePc, EarlyPc, CommitPc, PreCommitPc
<1> QED
  BY QuietTo, <1>3, <1>5, Zenon

\* The end of a commit.
LEMMA CommitDoneStep ==
  ASSUME IInv, TypeOK', NEW x \in Tx, NEW a \in Attempt,
         CommitDone(x, a)
  PROVE  IInv'
<1>1. /\ TxInv(x) /\ HostOK(x, a) /\ FramesOK(x, a) /\ LookedOK(x, a) /\ WrittenOK(x)
      /\ TypeOK
  BY Around, Zenon
<1>2. attempt[x][a] = "active" /\ pc[x][a] \notin {"spawn", "stopped"} =>
        \A b \in Attempt : b # a => ~Engaged(x, b)
  BY Around, Zenon
<1>3. /\ UNCHANGED <<state, row, attempt, artifact, content, wrote, frame, before, obs>>
      /\ UNCHANGED helper /\ HostTo(x, a, "finalize")
  BY Zenon DEF CommitDone, HostTo, HelperTo,
     storeVars, diskVars, hostVars, helperVars
<1>4. /\ pc[x][a] = "commit"
      /\ \A f \in Planned(x) : frame[x][a][f] = "heard"
  BY Zenon DEF CommitDone
<1>5. helper[x][a] # "committing"
  BY <1>1, <1>4, Zenon DEF FramesOK, Planned
<1>6. MoveOK(x, a, "finalize", helper'[x][a])
  BY <1>1, <1>2, <1>3, <1>4, <1>5, Zenon DEF MoveOK, PlaceOK, HostOK, ExecutionPc,
         RecoveryPc, LatePc, EarlyPc, CommitPc, PreCommitPc
<1> QED
  BY QuietTo, <1>3, <1>6, Zenon

\* A failure of the host.
LEMMA ThrowsStep ==
  ASSUME IInv, TypeOK', NEW x \in Tx, NEW a \in Attempt,
         Throws(x, a)
  PROVE  IInv'
<1>1. /\ TxInv(x) /\ HostOK(x, a) /\ FramesOK(x, a) /\ LookedOK(x, a) /\ WrittenOK(x)
      /\ TypeOK
  BY Around, Zenon
<1>2. /\ UNCHANGED <<state, row, attempt, artifact, content, wrote, frame, before, obs>>
      /\ HostTo(x, a, OnError(x, a)) /\ (Gone(x, a) \/ UNCHANGED helper)
  BY Zenon DEF Throws, HostTo, HelperTo,
     storeVars, diskVars, hostVars, helperVars
<1>3. /\ pc[x][a] \notin {"idle", "checking", "stopped", "throw", "throwCommit"}
      /\ helper[x][a] # "committing"
  BY Zenon DEF Throws
<1>4. \/ helper'[x][a] = helper[x][a]
      \/ helper'[x][a] = "gone" /\ helper[x][a] \in Alive
  BY <1>1, <1>2, GoneCases, Zenon
<1>5. pc[x][a] \in Pc
  BY <1>1, HostTypes, Zenon
<1>6. MoveOK(x, a, OnError(x, a), helper'[x][a])
  <2>1. CASE OnError(x, a) = "stopped"
    BY <1>1, <1>4, <2>1, StopMove, Zenon
  <2>2. CASE OnError(x, a) # "stopped"
    <3>1. /\ a = 1
          /\ \/ OnError(x, a) = "throwCommit"
             \/ OnError(x, a) = "throw" /\ pc[x][a] \in Pc \ {"commit", "deaf", "finalize",
                  "cleanup", "rollback", "giveup"}
      BY <1>5, <2>2, OnErrorCases
    <3>2. attempt[x][1] # "none" /\ (attempt[x][1] = "active" =>
            \A b \in Attempt : b # 1 => ~Engaged(x, b))
      BY <1>1, <1>3, <3>1, FirstAlone, Zenon DEF HostOK
    <3>3. OnError(x, a) = "throw" => pc[x][1] \in PreCommitPc
      BY <1>1, <1>3, <3>1, Zenon DEF HostOK, PreCommitPc, RecoveryPc, Pc
    <3>4. OnError(x, a) = "throw" /\ helper'[x][a] = "ready" =>
            \A f \in File : <<x, f>> \notin wrote
      BY <1>1, <1>4, <3>1, <3>3, Zenon DEF TxInv, NotAsked
    <3> QED
      BY <1>3, <1>4, <3>1, <3>2, <3>4, Zenon DEF MoveOK, PlaceOK, ExecutionPc,
             RecoveryPc, LatePc, EarlyPc, CommitPc, PreCommitPc, Alive
  <2> QED
    BY <2>1, <2>2, Zenon
<1> QED
  BY QuietTo, <1>2, <1>6, Zenon

\* The death of a host.
LEMMA HostDiesStep ==
  ASSUME IInv, TypeOK', NEW x \in Tx, NEW a \in Attempt,
         HostDies(x, a)
  PROVE  IInv'
<1>1. /\ TxInv(x) /\ HostOK(x, a) /\ FramesOK(x, a) /\ LookedOK(x, a) /\ WrittenOK(x)
      /\ TypeOK
  BY Around, Zenon
<1>2. /\ UNCHANGED <<state, row, attempt, artifact, content, wrote, frame, before, obs>>
      /\ UNCHANGED helper /\ HostTo(x, a, "stopped")
  BY Zenon DEF HostDies, HostTo, HelperTo,
     storeVars, diskVars, hostVars, helperVars
<1>3. MoveOK(x, a, "stopped", helper'[x][a])
  BY <1>1, <1>2, StopMove, Zenon
<1> QED
  BY QuietTo, <1>2, <1>3, Zenon

\* The death of a helper.
LEMMA HelperDiesStep ==
  ASSUME IInv, TypeOK', NEW x \in Tx, NEW a \in Attempt,
         HelperDies(x, a)
  PROVE  IInv'
<1>1. /\ TxInv(x) /\ HostOK(x, a) /\ FramesOK(x, a) /\ LookedOK(x, a) /\ WrittenOK(x)
      /\ TypeOK
  BY Around, Zenon
<1>2. /\ UNCHANGED <<state, row, attempt, artifact, content, wrote, frame, before, obs>>
      /\ UNCHANGED pc /\ Gone(x, a)
  BY Zenon DEF HelperDies, HostTo, HelperTo,
     storeVars, diskVars, hostVars, helperVars
<1>3. /\ \A y \in Tx, b \in Attempt : y # x \/ b # a => helper'[y][b] = helper[y][b]
      /\ \/ helper'[x][a] = helper[x][a]
         \/ helper'[x][a] = "gone" /\ helper[x][a] \in Alive
  BY <1>1, <1>2, GoneCases, Zenon
<1>4. MoveOK(x, a, pc'[x][a], helper'[x][a])
  BY <1>1, <1>2, <1>3, StopMove, Zenon
<1> QED
  BY QuietMove, <1>2, <1>3, <1>4, Zenon

\* A step of a host and its helper that may touch files beside the targets.
LEMMA HelperMoves ==
  ASSUME IInv, TypeOK', NEW x \in Tx, NEW a \in Attempt, NEW q,
         UNCHANGED <<state, row, attempt, content, wrote, frame, before, obs>>,
         Gone(x, a) \/ UNCHANGED helper,
         HostTo(x, a, q) \/ (UNCHANGED pc /\ q = pc[x][a]),
         MoveOK(x, a, q, helper'[x][a]),
         \A y \in Tx : BackupOK(y)'
  PROVE  IInv'
<1>1. TypeOK
  BY Zenon DEF IInv
<1>2. /\ pc'[x][a] = q
      /\ \A y \in Tx, b \in Attempt : y # x \/ b # a => pc'[y][b] = pc[y][b]
  BY <1>1, HostMoved, Zenon
<1>3. \A y \in Tx, b \in Attempt : y # x \/ b # a => helper'[y][b] = helper[y][b]
  BY <1>1, GoneCases, Zenon
<1> QED
  BY <1>2, <1>3, HostMoves, Zenon

\* What the clean-up removes is no longer, or not yet, needed.
LEMMA CleanUpSafe ==
  ASSUME IInv, NEW x \in Tx, NEW a \in Attempt,
         NEW f \in File, RemoveUpTo(x, f), UNCHANGED state, helper[x][a] = "ready",
         pc[x][a] = "cleanup" \/ pc[x][a] = "undo" \/ (a = 1 /\ pc[x][a] \in PreCommitPc)
  PROVE  \A y \in Tx : BackupOK(y)'
<1> USE DEF storeVars, diskVars, hostVars, helperVars
<1>1. /\ TxInv(x) /\ HostOK(x, a) /\ FramesOK(x, a) /\ LookedOK(x, a) /\ WrittenOK(x)
      /\ TypeOK
  BY Around, Zenon
<1>2. state[x] = "applied" \/ \A g \in File : Untouched(x, g)
  BY <1>1, UntouchedBefore, Zenon DEF HostOK
<1> QED
  BY <1>2, RemovalSafe, Zenon

\* The temporary files are removed and the helper exits.
LEMMA UndoMove ==
  ASSUME IInv, TypeOK', NEW x \in Tx, NEW a \in Attempt,
         helper[x][a] = "ready", Gone(x, a), HostTo(x, a, "rollback"),
         pc[x][a] = "undo" \/ (a = 1 /\ pc[x][a] \in {"begin", "throw"}),
         RemoveArtifacts(x),
         UNCHANGED <<state, row, attempt, frame, before, obs>>
  PROVE  IInv'
<1> USE DEF storeVars, diskVars, hostVars, helperVars
<1>1. /\ TxInv(x) /\ HostOK(x, a) /\ FramesOK(x, a) /\ LookedOK(x, a) /\ WrittenOK(x)
      /\ TypeOK
  BY Around, Zenon
<1>2. helper'[x][a] = "gone"
  BY <1>1, LetGo, Zenon DEF Alive
<1>3. /\ attempt[x][a] # "none"
      /\ \A f \in File : Untouched(x, f)
      /\ \A b \in Attempt : b # a => ~Engaged(x, b)
  BY <1>1, UntouchedBefore, AloneAlive, Zenon DEF HostOK, PreCommitPc, Alive
<1>4. MoveOK(x, a, "rollback", "gone")
  BY <1>3, Zenon DEF MoveOK, PlaceOK, ExecutionPc, RecoveryPc, LatePc, EarlyPc,
         CommitPc, PreCommitPc, Alive
<1>5. PICK f \in File : RemoveUpTo(x, f)
  BY Zenon DEF RemoveArtifacts
<1>6. UNCHANGED <<content, wrote>>
  BY <1>5, Zenon DEF RemoveUpTo
<1>7. \A y \in Tx : BackupOK(y)'
  BY CleanUpSafe, <1>5, Zenon DEF PreCommitPc
<1> QED
  BY HelperMoves, <1>2, <1>4, <1>6, <1>7, Zenon

\* Temporary files take no backup's place.
LEMMA TempSafe ==
  ASSUME IInv, NEW x \in Tx,
         UNCHANGED <<state, wrote>>,
         \A y \in Tx, g \in File : y # x \/ ~NeedsTemp(x, g) =>
         artifact'[y][g] = artifact[y][g]
  PROVE  \A y \in Tx : BackupOK(y)'
<1> USE DEF storeVars, diskVars, hostVars, helperVars
<1>1. \A y \in Tx, g \in Deletes : artifact'[y][g] = artifact[y][g]
  BY ConstantFacts, Zenon DEF NeedsTemp
<1>2. \A y \in Tx : BackupOK(y)
  BY Zenon DEF IInv, TxInv
<1> QED
  BY <1>1, <1>2 DEF BackupOK

\* An execution that is given up before its commit.
LEMMA CatchStep ==
  ASSUME IInv, TypeOK', NEW x \in Tx, NEW a \in Attempt, a = 1,
         Aborted(x) \/ CatchCleanly(x)
  PROVE  IInv'
BY UndoMove, Zenon DEF Aborted, CatchCleanly, HostTo, storeVars

\* A recovery that found nothing replaced.
LEMMA UndoStep ==
  ASSUME IInv, TypeOK', NEW x \in Tx, NEW a \in Attempt,
         Undo(x, a)
  PROVE  IInv'
BY UndoMove, Zenon DEF Undo, HostTo, storeVars

\* The clean-up after the end.
LEMMA CleanUpStep ==
  ASSUME IInv, TypeOK', NEW x \in Tx, NEW a \in Attempt,
         CleanUp(x, a)
  PROVE  IInv'
<1> USE DEF storeVars, diskVars, hostVars, helperVars
<1>1. /\ TxInv(x) /\ HostOK(x, a) /\ FramesOK(x, a) /\ LookedOK(x, a) /\ WrittenOK(x)
      /\ TypeOK
  BY Around, Zenon
<1>2. /\ pc[x][a] = "cleanup" /\ helper[x][a] = "ready" /\ Gone(x, a)
      /\ HostTo(x, a, "stopped") /\ RemoveArtifacts(x)
      /\ UNCHANGED <<state, row, attempt, frame, before, obs>>
  BY Zenon DEF CleanUp, HostTo
<1>4. MoveOK(x, a, "stopped", helper'[x][a])
  BY <1>1, <1>2, StopMove, GoneCases, Zenon
<1>5. PICK f \in File : RemoveUpTo(x, f)
  BY <1>2, Zenon DEF RemoveArtifacts
<1>6. UNCHANGED <<content, wrote>>
  BY <1>5, Zenon DEF RemoveUpTo
<1>7. \A y \in Tx : BackupOK(y)'
  BY CleanUpSafe, <1>2, <1>5, Zenon
<1> QED
  BY HelperMoves, <1>2, <1>4, <1>6, <1>7, Zenon

\* prepare_files.
LEMMA PrepareStep ==
  ASSUME IInv, TypeOK', NEW x \in Tx, NEW a \in Attempt,
         Prepare(x, a)
  PROVE  IInv'
<1> USE DEF storeVars, diskVars, hostVars, helperVars
<1>1. /\ TxInv(x) /\ HostOK(x, a) /\ FramesOK(x, a) /\ LookedOK(x, a) /\ WrittenOK(x)
      /\ TypeOK
  BY Around, Zenon
<1> DEFINE q == IF a = 1 THEN "mark" ELSE "commit"
<1>2. /\ pc[x][a] = "prepare" /\ helper[x][a] = "ready" /\ UNCHANGED helper
      /\ HostTo(x, a, q)
      /\ UNCHANGED <<state, row, attempt, content, wrote, frame, before, obs>>
  BY Zenon DEF Prepare, HostTo
<1>4. /\ attempt[x][a] # "none" /\ HasPlan(x) /\ Engaged(x, a)
      /\ \A b \in Attempt : b # a => ~Engaged(x, b)
      /\ a = 1 => \A f \in File : <<x, f>> \notin wrote
  BY <1>1, <1>2, AloneAlive, Zenon DEF HostOK, LatePc, Engaged, CommitPc, Alive,
         TxInv, NotAsked, PreCommitPc
<1>5. MoveOK(x, a, q, "ready")
  <2>1. CASE a = 1
    BY <1>2, <1>4, <2>1, Zenon DEF MoveOK, PlaceOK, ExecutionPc, RecoveryPc, LatePc,
        EarlyPc, CommitPc,
       PreCommitPc, Alive
  <2>2. CASE a # 1
    BY <1>2, <1>4, <2>2, Zenon DEF MoveOK, PlaceOK, ExecutionPc, RecoveryPc, LatePc,
        EarlyPc, CommitPc,
       PreCommitPc, Alive
  <2> QED
    BY <2>1, <2>2, Zenon
<1>6. \A y \in Tx, g \in File : y # x \/ ~NeedsTemp(x, g) =>
        artifact'[y][g] = artifact[y][g]
  BY <1>1, Zenon DEF Prepare, TypeOK
<1>8. \A y \in Tx : BackupOK(y)'
  BY TempSafe, <1>2, <1>6, Zenon
<1> QED
  BY HelperMoves, <1>2, <1>5, <1>8, Zenon

\* A helper ends within prepare_files.
LEMMA PrepareStopsStep ==
  ASSUME IInv, TypeOK', NEW x \in Tx, NEW a \in Attempt,
         NEW f \in File, NEW torn \in BOOLEAN, PrepareStops(x, a, f, torn)
  PROVE  IInv'
<1> USE DEF storeVars, diskVars, hostVars, helperVars
<1>1. /\ TxInv(x) /\ HostOK(x, a) /\ FramesOK(x, a) /\ LookedOK(x, a) /\ WrittenOK(x)
      /\ TypeOK
  BY Around, Zenon
<1>2. /\ Gone(x, a)
      /\ UNCHANGED <<state, row, attempt, content, wrote, frame, before, obs, pc>>
  BY Zenon DEF PrepareStops
<1>3. MoveOK(x, a, pc'[x][a], helper'[x][a])
  BY <1>1, <1>2, StopMove, GoneCases, Zenon
<1>4. \A y \in Tx, g \in File : y # x \/ ~NeedsTemp(x, g) =>
        artifact'[y][g] = artifact[y][g]
  BY <1>1, Zenon DEF PrepareStops, TypeOK
<1> QED
  BY HelperMoves, TempSafe, <1>2, <1>3, <1>4, Zenon

\* A helper ends within cleanup_files.
LEMMA CleanupStopsStep ==
  ASSUME IInv, TypeOK', NEW x \in Tx, NEW a \in Attempt,
         NEW f \in File, CleanupStops(x, a, f)
  PROVE  IInv'
<1> USE DEF storeVars, diskVars, hostVars, helperVars
<1>1. /\ TxInv(x) /\ HostOK(x, a) /\ FramesOK(x, a) /\ LookedOK(x, a) /\ WrittenOK(x)
      /\ TypeOK
  BY Around, Zenon
<1>2. /\ Gone(x, a) /\ RemoveUpTo(x, f) /\ helper[x][a] = "ready"
      /\ pc[x][a] \in {"begin", "cleanup", "undo", "throw"}
      /\ UNCHANGED <<state, row, attempt, frame, before, obs, pc>>
  BY Zenon DEF CleanupStops
<1>3. MoveOK(x, a, pc'[x][a], helper'[x][a])
  BY <1>1, <1>2, StopMove, GoneCases, Zenon
<1>4. UNCHANGED <<content, wrote>>
  BY <1>2, Zenon DEF RemoveUpTo
<1>5. \A y \in Tx : BackupOK(y)'
  BY <1>1, CleanUpSafe, <1>2, Zenon DEF HostOK, ExecutionPc, PreCommitPc
<1> QED
  BY HelperMoves, <1>2, <1>3, <1>4, <1>5, Zenon

\* The steps that leave hosts and helpers alone.
LEMMA IdleSteps ==
  ASSUME IInv, TypeOK', NEW x \in Tx,
         \/ \E y \in Tx : PassOver(x, y)
         \/ LeaseLapses(x)
         \/ \E f \in File : CleanTerminal(x, f)
  PROVE  IInv'
<1> USE DEF storeVars, diskVars, hostVars, helperVars
<1>1. UNCHANGED <<state, row, attempt, content, wrote, frame, before, obs, pc, helper>>
  BY Zenon DEF PassOver, LeaseLapses, CleanTerminal, RemoveUpTo
<1>2. \A y \in Tx : BackupOK(y)'
  <2>1. CASE UNCHANGED artifact
    BY <1>1, <2>1, BackupSame, Zenon
  <2>2. CASE \E f \in File : CleanTerminal(x, f)
    <3> PICK f \in File : CleanTerminal(x, f)
      BY <2>2, Zenon
    <3>1. state[x] = "applied" \/ \A g \in File : Untouched(x, g)
      BY Zenon DEF CleanTerminal, Terminal, IInv, TxInv, RollbackOK
    <3> QED
      BY <1>1, <3>1, RemovalSafe, Zenon DEF CleanTerminal
  <2> QED
    BY <2>1, <2>2, Zenon DEF PassOver, LeaseLapses
<1>3. 1 \in Attempt /\ TxInv(x)
  BY ConstantFacts, Zenon DEF IInv
<1>4. MoveOK(x, 1, pc'[x][1], helper'[x][1])
  BY <1>1, <1>3, StopMove, Zenon
<1> QED
  BY <1>1, <1>2, <1>3, <1>4, HostMoves, Zenon
=============================================================================
