------------------------ MODULE WorkspaceTransaction ------------------------
(***************************************************************************)
(* Journalled changes to the files of one workspace.                       *)
(*                                                                         *)
(* A host executes a transaction: it begins it in the store, spawns a      *)
(* helper process that holds the workspace's mutation lock, plans against  *)
(* the files, records the plan, has the helper prepare temporary files and *)
(* rename them over the targets one by one, and finalizes.  Whoever finds  *)
(* a transaction whose lease has expired recovers it.  Attempt 1 of a      *)
(* transaction is its execution, the later ones are recoveries.            *)
(*                                                                         *)
(* Store calls are atomic and check the caller's attempt and lease.  The   *)
(* helper checks neither: only the lock keeps the helpers of a replaced    *)
(* attempt and of its successor apart.  Hosts and helpers die separately,  *)
(* at any moment, and any call may take effect without its answer being    *)
(* heard.                                                                  *)
(***************************************************************************)
EXTENDS Integers

CONSTANTS
  Tx,          \* transactions
  File,        \* files, numbered in the order of the plan
  Deletes,     \* the files that a transaction which plans them removes
  MaxAttempts, \* bound: attempts per transaction
  External     \* TRUE when somebody else may edit files

Attempt == 1 .. MaxAttempts
Recovery == Attempt \ {1}

ASSUME FileAssumption == File \subseteq Nat /\ Deletes \subseteq File

ASSUME AttemptAssumption == MaxAttempts \in Nat \ {0}

ASSUME ExternalAssumption == External \in BOOLEAN

\* contents: 0 is the original one, x the one transaction x writes, -1 that of
\* somebody else; no two of them are equal.  -2 stands for no content at all
Foreign == -1
Unplanned == -2
Content == {0, Foreign} \cup Tx

ASSUME TxAssumption == Tx \cap {0, Foreign, Unplanned} = {}

VARIABLES
  state,      \* workspace_change_transaction.state
  decision,   \* workspace_change_transaction.recovery_decision
  row,        \* workspace_change_transaction_file.state, "none" without a row
  attempt,    \* workspace_change_transaction_attempt.state
  lapsed,     \* the transactions whose active attempt's lease has expired
  content,    \* what the files hold
  artifact,   \* the temporary or backup file beside a file
  helper,     \* the helper process of an attempt
  frame,      \* the helper's progress frames of one commit command
  before,     \* the content a plan found, -2 for a file that is not in it
  pc,         \* where the host is
  unchecked,  \* the transactions recoverPendingTransactions has yet to look at
  obs,        \* what the helper's inspection of an attempt found
  wrote       \* history: the files a transaction has replaced

storeVars == <<state, decision, row, attempt, lapsed>>
diskVars == <<content, artifact, wrote>>
hostVars == <<before, pc, unchecked, obs>>
helperVars == <<helper, frame>>
vars == <<storeVars, diskVars, hostVars, helperVars>>

Terminal == {"applied", "rolled_back"}
Recoverable == {"planning", "prepared", "committing", "recovery_required"}
Alive == {"ready", "committing"}
Pc == {"idle", "checking", "spawn", "plan", "conflicted", "noop", "record", "prepare",
       "mark", "begin", "commit", "deaf", "finalize", "cleanup", "inspect",
       "reconcile", "undo", "rollback", "throw", "throwCommit", "giveup", "stopped"}

TypeOK ==
  /\ state \in [Tx -> {"none"} \cup Recoverable \cup Terminal]
  /\ decision \in [Tx -> {"none", "attention", "finalize", "finish_forward",
                          "rollback_noop"}]
  /\ row \in [Tx -> [File -> {"none", "pending", "prepared", "committed"}]]
  /\ attempt \in [Tx -> [Attempt -> {"none", "active", "completed", "failed"}]]
  /\ lapsed \in SUBSET Tx
  /\ content \in [File -> Content]
  /\ artifact \in [Tx -> [File -> {"none", "temp", "torn", "backup"}]]
  /\ wrote \in SUBSET (Tx \X File)
  /\ helper \in [Tx -> [Attempt -> {"none", "gone"} \cup Alive]]
  /\ frame \in [Tx -> [Attempt -> [File -> {"none", "sent", "heard"}]]]
  /\ before \in [Tx -> [File -> Content \cup {Unplanned}]]
  /\ pc \in [Tx -> [Attempt -> Pc]]
  /\ unchecked \in [Tx -> SUBSET Tx]
  /\ obs \in [Tx -> [Attempt -> [File -> {"none", "before", "after", "other"}]]]

Init ==
  /\ state = [x \in Tx |-> "none"]
  /\ decision = [x \in Tx |-> "none"]
  /\ row = [x \in Tx |-> [f \in File |-> "none"]]
  /\ attempt = [x \in Tx |-> [a \in Attempt |-> "none"]]
  /\ lapsed = {}
  /\ content = [f \in File |-> 0]
  /\ artifact = [x \in Tx |-> [f \in File |-> "none"]]
  /\ wrote = {}
  /\ helper = [x \in Tx |-> [a \in Attempt |-> "none"]]
  /\ frame = [x \in Tx |-> [a \in Attempt |-> [f \in File |-> "none"]]]
  /\ before = [x \in Tx |-> [f \in File |-> Unplanned]]
  /\ pc = [x \in Tx |-> [a \in Attempt |-> "idle"]]
  /\ unchecked = [x \in Tx |-> {}]
  /\ obs = [x \in Tx |-> [a \in Attempt |-> [f \in File |-> "none"]]]

-----------------------------------------------------------------------------
(* Predicates shared by the actions.                                       *)

\* require_live_attempt_tx
Live(x, a) == attempt[x][a] = "active" /\ x \notin lapsed

\* the host goes on, or never hears the answer and takes its error path
Goes(x, a, next, error) ==
  \E p \in {next, error} : pc' = [pc EXCEPT ![x][a] = p]

Planned(x) == {f \in File : before[x][f] # Unplanned}
Recorded(x) == {f \in File : row[x][f] # "none"}

\* classify
Class(x, f) ==
  CASE content[f] = before[x][f] -> "before"
    [] content[f] = x -> "after"
    [] OTHER -> "other"

\* wrong variant of LockFree: helpers do not wait for each other
LockFreeAlways == TRUE

\* the mutation lock is taken by at most one helper
LockFree == \A y \in Tx, b \in Attempt : helper[y][b] \notin Alive

\* the helper of the attempt exits or is killed
Gone(x, a) == helper' = [helper EXCEPT ![x][a] = IF @ \in Alive THEN "gone" ELSE @]

\* wrong variant of OnError: the catch clause does not ask for the commit
OnErrorUncommitted(x, a) ==
  IF a # 1 \/ pc[x][a] \in {"cleanup", "rollback", "giveup"} THEN "stopped" ELSE "throw"

\* where the host of an attempt goes when something fails: a recovery has no
\* catch clause, an execution has one that asks whether the commit has started
OnError(x, a) ==
  CASE a # 1 \/ pc[x][a] \in {"cleanup", "rollback", "giveup"} -> "stopped"
    [] a = 1 /\ pc[x][a] \in {"commit", "deaf", "finalize"} -> "throwCommit"
    [] OTHER -> "throw"

\* cleanup_files: removes the temporary and backup files of the plan in order,
\* and fails at one whose content is not the expected one
Removable(x) == \A f \in File : artifact[x][f] # "torn"

RemoveUpTo(x, f) ==
  /\ \A g \in File : g <= f => artifact[x][g] # "torn"
  /\ artifact' = [artifact EXCEPT ![x] = [g \in File |->
                    IF g <= f THEN "none" ELSE artifact[x][g]]]
  /\ UNCHANGED <<content, wrote>>

RemoveArtifacts(x) == \E f \in File : (\A g \in File : g <= f) /\ RemoveUpTo(x, f)

-----------------------------------------------------------------------------
(* Execution: the host's way to a plan.                                    *)

\* recoverPendingTransactions lists what is not terminal
ListPending(x) ==
  /\ pc[x][1] = "idle"
  /\ pc' = [pc EXCEPT ![x][1] = "checking"]
  /\ unchecked' = [unchecked EXCEPT ![x] =
                     {y \in Tx \ {x} : state[y] \in Recoverable}]
  /\ UNCHANGED <<storeVars, diskVars, helperVars, before, obs>>

\* recoverOne returns: the other transaction is terminal, perhaps because this
\* host has just recovered it, or busy; any other way out of it throws
PassOver(x, y) ==
  /\ pc[x][1] = "checking"
  /\ y \in unchecked[x]
  /\ state[y] \in Terminal \/ \E a \in Attempt : Live(y, a)
  /\ unchecked' = [unchecked EXCEPT ![x] = @ \ {y}]
  /\ UNCHANGED <<storeVars, diskVars, helperVars, before, pc, obs>>

\* begin_workspace_change_transaction
Begin(x) ==
  /\ pc[x][1] = "checking"
  /\ unchecked[x] = {}
  /\ state[x] = "none"
  /\ state' = [state EXCEPT ![x] = "planning"]
  /\ attempt' = [attempt EXCEPT ![x][1] = "active"]
  /\ Goes(x, 1, "spawn", "stopped")
  /\ UNCHANGED <<decision, row, lapsed, diskVars, helperVars, before, unchecked, obs>>

\* spawnWorkspaceTransaction: the helper has the lock and says so; a helper that
\* still waits for it does nothing
Acquire(x, a) ==
  /\ pc[x][a] = "spawn"
  /\ helper[x][a] = "none"
  /\ LockFree
  /\ helper' = [helper EXCEPT ![x][a] = "ready"]
  /\ pc' = [pc EXCEPT ![x][a] = IF a = 1 THEN "plan" ELSE "inspect"]
  /\ UNCHANGED <<storeVars, diskVars, frame, before, unchecked, obs>>

\* request.plan finds something to change
ReadPlan(x, files) ==
  /\ pc[x][1] = "plan"
  /\ before' = [before EXCEPT ![x] = [f \in File |->
                  IF f \in files THEN content[f] ELSE Unplanned]]
  /\ pc' = [pc EXCEPT ![x][1] = "record"]
  /\ UNCHANGED <<storeVars, diskVars, helperVars, unchecked, obs>>

\* request.plan finds a conflict or nothing to change: the helper is dismissed
PlanEnds(x, next) ==
  /\ pc[x][1] = "plan"
  /\ Gone(x, 1)
  /\ pc' = [pc EXCEPT ![x][1] = next]
  /\ UNCHANGED <<storeVars, diskVars, frame, before, unchecked, obs>>

Finalize(x, a, outcome, ended) ==
  /\ state' = [state EXCEPT ![x] = outcome]
  /\ attempt' = [attempt EXCEPT ![x][a] = ended]
  /\ UNCHANGED <<decision, row, lapsed, diskVars, helperVars, before, unchecked, obs>>

\* finalize_workspace_change_transaction, outcome conflicted
FinalizeConflicted(x) ==
  /\ pc[x][1] = "conflicted"
  /\ Live(x, 1)
  /\ state[x] = "planning"
  /\ \A f \in File : row[x][f] # "committed"
  /\ Finalize(x, 1, "rolled_back", "completed")
  /\ Goes(x, 1, "stopped", "throw")

\* outcome applied with a receipt that proves a no-op
FinalizeNoop(x) ==
  /\ pc[x][1] = "noop"
  /\ Live(x, 1)
  /\ state[x] = "planning"
  /\ Recorded(x) = {}
  /\ Finalize(x, 1, "applied", "completed")
  /\ Goes(x, 1, "stopped", "throw")

\* record_workspace_change_transaction_plan
RecordPlan(x) ==
  /\ pc[x][1] = "record"
  /\ Live(x, 1)
  /\ state[x] = "planning"
  /\ row' = [row EXCEPT ![x] = [f \in File |->
               IF f \in Planned(x) THEN "pending" ELSE "none"]]
  /\ Goes(x, 1, "prepare", "throw")
  /\ UNCHANGED <<state, decision, attempt, lapsed, diskVars, helperVars, before,
                 unchecked, obs>>

-----------------------------------------------------------------------------
(* Preparation and commit, by executions and by recoveries.                *)

\* a file that prepare_files writes a temporary file for
NeedsTemp(x, f) == f \in Planned(x) \ Deletes /\ Class(x, f) = "before"

\* prepare_files
Prepare(x, a) ==
  /\ pc[x][a] = "prepare"
  /\ helper[x][a] = "ready"
  /\ \A f \in Planned(x) : Class(x, f) # "other"
  /\ \A f \in File : NeedsTemp(x, f) => artifact[x][f] # "torn"
  /\ artifact' = [artifact EXCEPT ![x] = [f \in File |->
                    IF NeedsTemp(x, f) THEN "temp" ELSE artifact[x][f]]]
  /\ pc' = [pc EXCEPT ![x][a] = IF a = 1 THEN "mark" ELSE "commit"]
  /\ UNCHANGED <<storeVars, content, wrote, helperVars, before, unchecked, obs>>

\* the helper ends within prepare_files: the files before f are done, and
\* prepare_exact_temp may have created the temporary file of f and not filled it
PrepareStops(x, a, f, torn) ==
  /\ pc[x][a] = "prepare"
  /\ helper[x][a] = "ready"
  /\ \A g \in Planned(x) : g < f => Class(x, g) # "other"
  /\ \A g \in File : g < f /\ NeedsTemp(x, g) => artifact[x][g] # "torn"
  /\ torn => NeedsTemp(x, f) /\ artifact[x][f] = "none"
  /\ artifact' = [artifact EXCEPT ![x] = [g \in File |->
                    IF g < f /\ NeedsTemp(x, g) THEN "temp"
                    ELSE IF g = f /\ torn THEN "torn" ELSE artifact[x][g]]]
  /\ Gone(x, a)
  /\ UNCHANGED <<storeVars, content, wrote, frame, hostVars>>

\* mark_workspace_change_transaction_prepared
MarkPrepared(x) ==
  /\ pc[x][1] = "mark"
  /\ Live(x, 1)
  /\ state[x] = "planning"
  /\ state' = [state EXCEPT ![x] = "prepared"]
  /\ row' = [row EXCEPT ![x] = [f \in File |->
               IF row[x][f] = "pending" THEN "prepared" ELSE row[x][f]]]
  /\ Goes(x, 1, "begin", "throw")
  /\ UNCHANGED <<decision, attempt, lapsed, diskVars, helperVars, before,
                 unchecked, obs>>

\* the caller's signal is aborted: the prepared files are removed
Aborted(x) ==
  /\ pc[x][1] = "begin"
  /\ helper[x][1] = "ready"
  /\ RemoveArtifacts(x)
  /\ Gone(x, 1)
  /\ pc' = [pc EXCEPT ![x][1] = "rollback"]
  /\ UNCHANGED <<storeVars, frame, before, unchecked, obs>>

\* begin_workspace_change_transaction_commit
BeginCommit(x) ==
  /\ pc[x][1] = "begin"
  /\ Live(x, 1)
  /\ state[x] = "prepared"
  /\ state' = [state EXCEPT ![x] = "committing"]
  /\ Goes(x, 1, "commit", "throw")
  /\ UNCHANGED <<decision, row, attempt, lapsed, diskVars, helperVars, before,
                 unchecked, obs>>

\* the commit command reaches the helper
SendCommit(x, a) ==
  /\ pc[x][a] = "commit"
  /\ helper[x][a] = "ready"
  /\ \A f \in File : frame[x][a][f] = "none"
  /\ helper' = [helper EXCEPT ![x][a] = "committing"]
  /\ UNCHANGED <<storeVars, diskVars, frame, hostVars>>

\* wrong variant of CommitFile: a file that is not the expected one is skipped
CommitFileSkips(x, a, f) ==
  /\ helper[x][a] = "committing"
  /\ f \in Planned(x)
  /\ frame[x][a][f] = "none"
  /\ frame' = [frame EXCEPT ![x][a][f] = "sent"]
  /\ UNCHANGED <<helper, storeVars, diskVars, hostVars>>

\* commit_files, one file: renames the temporary file over it, or moves it to
\* its backup, and reports it; the helper asks neither host nor store
CommitFile(x, a, f) ==
  /\ helper[x][a] = "committing"
  /\ f \in Planned(x)
  /\ frame[x][a][f] = "none"
  /\ \A g \in Planned(x) : g < f => frame[x][a][g] # "none"
  /\ \/ /\ Class(x, f) = "after"
        /\ UNCHANGED diskVars
     \/ /\ Class(x, f) = "before"
        /\ artifact[x][f] = IF f \in Deletes THEN "none" ELSE "temp"
        /\ content' = [content EXCEPT ![f] = x]
        /\ artifact' = [artifact EXCEPT ![x][f] =
                          IF f \in Deletes THEN "backup" ELSE "none"]
        /\ wrote' = wrote \cup {<<x, f>>}
  /\ frame' = [frame EXCEPT ![x][a][f] = "sent"]
  /\ helper' = [helper EXCEPT ![x][a] =
                  IF \E g \in Planned(x) : g > f THEN @ ELSE "ready"]
  /\ UNCHANGED <<storeVars, hostVars>>

\* the next frame the host reads
NextFrame(x, a, f) ==
  /\ frame[x][a][f] = "sent"
  /\ \A g \in File : g < f => frame[x][a][g] # "sent"

\* record_workspace_change_transaction_file_committed
RecordCommitted(x, a, f) ==
  /\ pc[x][a] = "commit"
  /\ NextFrame(x, a, f)
  /\ state[x] = "committing"
  /\ Live(x, a)
  /\ row[x][f] \in {"prepared", "committed"}
  /\ row' = [row EXCEPT ![x][f] = "committed"]
  /\ frame' = [frame EXCEPT ![x][a][f] = "heard"]
  /\ Goes(x, a, "commit", "deaf")
  /\ UNCHANGED <<state, decision, attempt, lapsed, diskVars, helper, before,
                 unchecked, obs>>

\* the call fails: runCommand remembers it and reads on until the helper is done
RecordFails(x, a, f) ==
  /\ pc[x][a] = "commit"
  /\ NextFrame(x, a, f)
  /\ pc' = [pc EXCEPT ![x][a] = "deaf"]
  /\ UNCHANGED <<storeVars, diskVars, helperVars, before, unchecked, obs>>

\* the done frame
CommitDone(x, a) ==
  /\ pc[x][a] = "commit"
  /\ \A f \in Planned(x) : frame[x][a][f] = "heard"
  /\ pc' = [pc EXCEPT ![x][a] = "finalize"]
  /\ UNCHANGED <<storeVars, diskVars, helperVars, before, unchecked, obs>>

\* validate_outcome_evidence, outcome applied
Committed(x) ==
  /\ Recorded(x) # {}
  /\ \A f \in Recorded(x) : row[x][f] = "committed"
  /\ \/ state[x] = "committing"
     \/ state[x] = "recovery_required" /\ decision[x] = "finalize"

\* finalize_workspace_change_transaction, outcome applied
FinalizeApplied(x, a) ==
  /\ pc[x][a] = "finalize"
  /\ Live(x, a)
  /\ Committed(x)
  /\ Finalize(x, a, "applied", "completed")
  /\ Goes(x, a, "cleanup", OnError(x, a))

\* cleanupCommittedArtifacts
CleanUp(x, a) ==
  /\ pc[x][a] = "cleanup"
  /\ helper[x][a] = "ready"
  /\ RemoveArtifacts(x)
  /\ Gone(x, a)
  /\ pc' = [pc EXCEPT ![x][a] = "stopped"]
  /\ UNCHANGED <<storeVars, frame, before, unchecked, obs>>

\* the retry of cleanupCommittedArtifacts, and cleanupTerminalArtifacts of a
\* repeated execute: a fresh helper removes what is left of a terminal one
CleanTerminal(x, f) ==
  /\ state[x] \in Terminal
  /\ LockFree
  /\ \E g \in Recorded(x) : g <= f /\ artifact[x][g] # "none"
  /\ RemoveUpTo(x, f)
  /\ UNCHANGED <<storeVars, helperVars, hostVars>>

\* the helper ends within cleanup_files
CleanupStops(x, a, f) ==
  /\ pc[x][a] \in {"begin", "cleanup", "undo", "throw"}
  /\ helper[x][a] = "ready"
  /\ RemoveUpTo(x, f)
  /\ Gone(x, a)
  /\ UNCHANGED <<storeVars, frame, hostVars>>

-----------------------------------------------------------------------------
(* Failure of an execution, and recovery.                                  *)

\* something the host does fails; while the helper runs a command, the host
\* waits for it
Throws(x, a) ==
  /\ pc[x][a] \in {"spawn", "plan", "conflicted", "noop", "record", "prepare",
                   "mark", "begin", "commit", "deaf", "finalize", "cleanup",
                   "inspect", "reconcile", "undo", "rollback", "giveup"}
  /\ pc[x][a] \in {"prepare", "commit", "inspect", "undo"} => helper[x][a] = "gone"
  /\ helper[x][a] # "committing"
  /\ pc' = [pc EXCEPT ![x][a] = OnError(x, a)]
  /\ IF OnError(x, a) = "stopped" THEN Gone(x, a) ELSE UNCHANGED helper
  /\ UNCHANGED <<storeVars, diskVars, frame, before, unchecked, obs>>

\* the catch clause of execute before the commit: nothing was planned
CatchUnplanned(x) ==
  /\ pc[x][1] = "throw"
  /\ Planned(x) = {}
  /\ Gone(x, 1)
  /\ pc' = [pc EXCEPT ![x][1] = "rollback"]
  /\ UNCHANGED <<storeVars, diskVars, frame, before, unchecked, obs>>

\* the plan's temporary files are removed
CatchCleanly(x) ==
  /\ pc[x][1] = "throw"
  /\ Planned(x) # {}
  /\ helper[x][1] = "ready"
  /\ RemoveArtifacts(x)
  /\ Gone(x, 1)
  /\ pc' = [pc EXCEPT ![x][1] = "rollback"]
  /\ UNCHANGED <<storeVars, frame, before, unchecked, obs>>

\* they cannot be removed, or the commit has started
CatchBroken(x) ==
  /\ \/ pc[x][1] = "throw" /\ Planned(x) # {}
     \/ pc[x][1] = "throwCommit"
  /\ Gone(x, 1)
  /\ pc' = [pc EXCEPT ![x][1] = "giveup"]
  /\ UNCHANGED <<storeVars, diskVars, frame, before, unchecked, obs>>

\* validate_outcome_evidence, outcome rolled_back
NoopEvidence(x, a) ==
  \/ /\ a = 1
     /\ state[x] \in {"planning", "prepared"}
     /\ \A f \in File : row[x][f] # "committed"
  \/ /\ a # 1
     /\ \/ decision[x] = "rollback_noop"
        \/ Recorded(x) = {} /\ state[x] \in {"planning", "recovery_required"}

\* finalize_workspace_change_transaction, outcome rolled_back
FinalizeRolledBack(x, a) ==
  /\ pc[x][a] = "rollback"
  /\ Live(x, a)
  /\ state[x] \in Recoverable
  /\ NoopEvidence(x, a)
  /\ Finalize(x, a, "rolled_back", "completed")
  /\ pc' = [pc EXCEPT ![x][a] = "stopped"]

\* finalize_workspace_change_transaction, outcome recovery_required
FinalizeRecoveryRequired(x, a) ==
  /\ pc[x][a] = "giveup"
  /\ Live(x, a)
  /\ state[x] \in Recoverable
  /\ Finalize(x, a, "recovery_required", "failed")
  /\ pc' = [pc EXCEPT ![x][a] = "stopped"]

\* wrong variant of ClaimRecovery: an active attempt is never replaced
ClaimRecoveryUnlessActive(x, a) ==
  /\ attempt[x][a] = "none"
  /\ attempt[x][a - 1] # "none"
  /\ state[x] \in Recoverable
  /\ \A b \in Attempt : attempt[x][b] # "active"
  /\ attempt' = [attempt EXCEPT ![x][a] = "active"]
  /\ lapsed' = lapsed \ {x}
  /\ Goes(x, a, IF Recorded(x) = {} THEN "rollback" ELSE "spawn", "stopped")
  /\ UNCHANGED <<state, decision, row, diskVars, helperVars, before, unchecked, obs>>

\* claim_workspace_change_transaction_recovery: fails the attempt whose lease
\* has expired and takes its place
ClaimRecovery(x, a) ==
  /\ attempt[x][a] = "none"
  /\ attempt[x][a - 1] # "none"
  /\ state[x] \in Recoverable
  /\ \A b \in Attempt : ~Live(x, b)
  /\ attempt' = [attempt EXCEPT ![x] = [b \in Attempt |->
       IF b = a THEN "active"
       ELSE IF attempt[x][b] = "active" THEN "failed" ELSE attempt[x][b]]]
  /\ lapsed' = lapsed \ {x}
  /\ Goes(x, a, IF Recorded(x) = {} THEN "rollback" ELSE "spawn", "stopped")
  /\ UNCHANGED <<state, decision, row, diskVars, helperVars, before, unchecked, obs>>

\* inspect_files
Inspect(x, a) ==
  /\ pc[x][a] = "inspect"
  /\ helper[x][a] = "ready"
  /\ obs' = [obs EXCEPT ![x][a] = [f \in File |->
               IF f \in Recorded(x) THEN Class(x, f) ELSE "none"]]
  /\ pc' = [pc EXCEPT ![x][a] = "reconcile"]
  /\ UNCHANGED <<storeVars, diskVars, helperVars, before, unchecked>>

\* wrong variant of Decision: it trusts the rows rather than the files
DecisionByRows(x, a) ==
  CASE \A f \in Recorded(x) : row[x][f] = "committed" -> "finalize"
    [] /\ \E f \in Recorded(x) : row[x][f] # "committed"
       /\ \/ state[x] = "committing"
          \/ \E f \in Recorded(x) : row[x][f] = "committed" -> "finish_forward"
    [] OTHER -> "rollback_noop"

\* the decision of reconcile_workspace_change_transaction_files
Decision(x, a) ==
  CASE \E f \in Recorded(x) : obs[x][a][f] = "other" -> "attention"
    [] \A f \in Recorded(x) : obs[x][a][f] = "after" -> "finalize"
    [] /\ \A f \in Recorded(x) : obs[x][a][f] # "other"
       /\ \E f \in Recorded(x) : obs[x][a][f] = "before"
       /\ \/ state[x] = "committing"
          \/ \E f \in Recorded(x) : obs[x][a][f] = "after" -> "finish_forward"
    [] OTHER -> "rollback_noop"

\* the branch of recoverOne
Branch(d) ==
  CASE d = "attention" -> "giveup"
    [] d = "finalize" -> "finalize"
    [] d = "finish_forward" -> "prepare"
    [] OTHER -> "undo"

\* reconcile_workspace_change_transaction_files
Reconcile(x, a) ==
  /\ pc[x][a] = "reconcile"
  /\ Live(x, a)
  /\ state[x] \in Recoverable
  /\ row' = [row EXCEPT ![x] = [f \in File |->
       IF row[x][f] = "none" THEN "none"
       ELSE IF obs[x][a][f] = "after" THEN "committed" ELSE "prepared"]]
  /\ decision' = [decision EXCEPT ![x] = Decision(x, a)]
  /\ state' = [state EXCEPT ![x] =
                 IF Decision(x, a) = "attention" THEN "recovery_required" ELSE @]
  /\ Goes(x, a, Branch(Decision(x, a)), "stopped")
  /\ IF Decision(x, a) = "attention" THEN Gone(x, a) ELSE UNCHANGED helper
  /\ UNCHANGED <<attempt, lapsed, diskVars, frame, before, unchecked, obs>>

\* decision rollback_noop: the temporary files are removed, the helper exits and
\* with it the lock is released, then the transaction is finalized
Undo(x, a) ==
  /\ pc[x][a] = "undo"
  /\ helper[x][a] = "ready"
  /\ RemoveArtifacts(x)
  /\ Gone(x, a)
  /\ pc' = [pc EXCEPT ![x][a] = "rollback"]
  /\ UNCHANGED <<storeVars, frame, before, unchecked, obs>>

-----------------------------------------------------------------------------
(* Processes die, leases expire, others edit files.                        *)

\* the helper of a dead host goes on with its command and exits at the end of
\* its input
HostDies(x, a) ==
  /\ pc[x][a] \notin {"idle", "stopped"}
  /\ pc' = [pc EXCEPT ![x][a] = "stopped"]
  /\ UNCHANGED <<storeVars, diskVars, helperVars, before, unchecked, obs>>

\* the helper is killed, fails, or reaches the end of its input
HelperDies(x, a) ==
  /\ helper[x][a] \in Alive
  /\ Gone(x, a)
  /\ UNCHANGED <<storeVars, diskVars, frame, hostVars>>

\* the clock passes lease_expires_at before renew_workspace_change_transaction
\* comes, which does not renew an expired lease
LeaseLapses(x) ==
  /\ \E a \in Attempt : Live(x, a)
  /\ lapsed' = lapsed \cup {x}
  /\ UNCHANGED <<state, decision, row, attempt, diskVars, helperVars, hostVars>>

ExternalEdit(f) ==
  /\ External
  /\ content[f] # Foreign
  /\ content' = [content EXCEPT ![f] = Foreign]
  /\ UNCHANGED <<storeVars, artifact, wrote, helperVars, hostVars>>

-----------------------------------------------------------------------------
\* what the host of an execution does, and of any attempt
ExecutionStep(x) ==
  \/ ListPending(x)
  \/ \E y \in Tx : PassOver(x, y)
  \/ Begin(x)
  \/ \E files \in (SUBSET File) \ {{}} : ReadPlan(x, files)
  \/ \E next \in {"conflicted", "noop"} : PlanEnds(x, next)
  \/ FinalizeConflicted(x)
  \/ FinalizeNoop(x)
  \/ RecordPlan(x)
  \/ MarkPrepared(x)
  \/ Aborted(x)
  \/ BeginCommit(x)
  \/ CatchUnplanned(x)
  \/ CatchCleanly(x)
  \/ CatchBroken(x)

RecoveryStep(x, a) ==
  \/ Inspect(x, a)
  \/ Reconcile(x, a)
  \/ Undo(x, a)

HostStep(x, a) ==
  \/ a = 1 /\ ExecutionStep(x)
  \/ a # 1 /\ RecoveryStep(x, a)
  \/ Acquire(x, a)
  \/ Prepare(x, a)
  \/ SendCommit(x, a)
  \/ \E f \in File : RecordCommitted(x, a, f) \/ RecordFails(x, a, f)
  \/ CommitDone(x, a)
  \/ FinalizeApplied(x, a)
  \/ CleanUp(x, a)
  \/ Throws(x, a)
  \/ FinalizeRolledBack(x, a)
  \/ FinalizeRecoveryRequired(x, a)

HelperFails(x, a) ==
  \/ \E f \in File, torn \in BOOLEAN : PrepareStops(x, a, f, torn)
  \/ \E f \in File : CleanupStops(x, a, f)
  \/ HelperDies(x, a)

Next ==
  \/ \E x \in Tx, a \in Attempt :
       \/ HostStep(x, a)
       \/ HostDies(x, a)
       \/ \E f \in File : CommitFile(x, a, f)
       \/ HelperFails(x, a)
  \/ \E x \in Tx, a \in Recovery : ClaimRecovery(x, a)
  \/ \E x \in Tx, f \in File : CleanTerminal(x, f)
  \/ \E x \in Tx : LeaseLapses(x)
  \/ \E f \in File : ExternalEdit(f)

Spec == Init /\ [][Next]_vars

\* A running host goes on; a helper finishes its command, and exits when its host
\* is gone; the lease of a stopped host expires; somebody opens the workspace again
Fairness ==
  \A x \in Tx :
    /\ \A a \in Attempt :
         /\ WF_vars(HostStep(x, a))
         /\ WF_vars(\/ \E f \in File : CommitFile(x, a, f)
                    \/ /\ helper[x][a] = "committing" \/ pc[x][a] = "stopped"
                       /\ HelperDies(x, a))
         /\ WF_vars(pc[x][a] = "stopped" /\ Live(x, a) /\ LeaseLapses(x))
    /\ \A a \in Recovery : WF_vars(ClaimRecovery(x, a))

FairSpec == Spec /\ Fairness

-----------------------------------------------------------------------------
(* Correctness.                                                            *)

Outcome(x) ==
  CASE state[x] = "applied" -> "applied"
    [] state[x] = "rolled_back" -> "undone"
    [] OTHER -> "open"

Change == INSTANCE AtomicChange WITH
  outcome <- [x \in Tx |-> Outcome(x)],
  targets <- [x \in Tx |-> Recorded(x)],
  done <- [x \in Tx |-> {f \in File : <<x, f>> \in wrote}]

\* As long as nobody else edits the files, each transaction is one atomic change of
\* all the files of its plan or of none, through crashes of host and helper, lost
\* replies, expired leases and recoveries
Implements == Change!Spec

\* The backup of a removed file, its only copy, outlives every clean-up until the
\* transaction is applied
BackupKept ==
  \A x \in Tx, f \in Deletes :
    <<x, f>> \in wrote /\ state[x] # "applied" => artifact[x][f] = "backup"

\* A transaction that is reported as rolled back has left its content in no file,
\* also when others edit the files between its steps
RolledBackLeavesNothing ==
  \A x \in Tx, f \in File : state[x] = "rolled_back" => content[f] # x

\* A transaction that is reported as applied has replaced every file of its plan
AppliedWhole ==
  \A x \in Tx, f \in File :
    state[x] = "applied" /\ row[x][f] # "none" => <<x, f>> \in wrote

\* Once a transaction is terminal none of its helpers replaces a file any more, not
\* even the one of an attempt that lost its lease during the commit
NoLateWrite ==
  [][\A x \in Tx, f \in File :
       state[x] \in Terminal /\ content'[f] = x => content[f] = x]_vars

\* A transaction that was begun ends, unless every attempt the bound allows fails or
\* a dead helper left a half-written temporary file
Ends ==
  \A x \in Tx :
    state[x] # "none" ~> \/ state[x] \in Terminal
                         \/ attempt[x][MaxAttempts] # "none"
                         \/ ~Removable(x)

-----------------------------------------------------------------------------
(* Claims the repository makes that the code does not keep.                *)

\* recovery.test.ts: recovery "rolls back a prepared transaction when every
\* target is still before"; for that, cleanup_files must be able to succeed
RollbackPossible ==
  \A x \in Tx : decision[x] = "rollback_noop" => Removable(x)
=============================================================================
