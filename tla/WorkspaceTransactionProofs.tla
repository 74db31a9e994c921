--------------------- MODULE WorkspaceTransactionProofs ---------------------
(***************************************************************************)
(* Theorems about WorkspaceTransaction, for every number of transactions,  *)
(* files and attempts.                                                     *)
(***************************************************************************)
EXTENDS WorkspaceTransactionInvariant

(* The steps that change attempts, plans or contents.                      *)

\* What is said of a transaction stays true when others write files.
LEMMA OthersKept ==
  ASSUME NEW y \in Tx, TxInv(y),
         state'[y] = state[y], row'[y] = row[y], attempt'[y] = attempt[y],
         artifact'[y] = artifact[y], helper'[y] = helper[y], frame'[y] = frame[y],
         before'[y] = before[y], pc'[y] = pc[y], obs'[y] = obs[y],
         wrote \subseteq wrote',
         \A f \in File :
           /\ content'[f] = y => content[f] = y
           /\ <<y, f>> \in wrote' => <<y, f>> \in wrote
           /\ External \/ <<y, f>> \notin wrote \/ content'[f] # before[y][f]
  PROVE  TxInv(y)'
<1>1. HasPlan(y)' = HasPlan(y) /\ \A b \in Attempt : Engaged(y, b)' = Engaged(y, b)
  BY Zenon DEF HasPlan, Engaged
<1>2. \A f \in File : Untouched(y, f) => Untouched(y, f)'
  BY Zenon DEF Untouched
<1>3. AttemptsOK(y)' /\ PlanOK(y)' /\ FencedOff(y)' /\ NotAsked(y)'
  BY <1>1, Zenon DEF TxInv, AttemptsOK, PlanOK, FencedOff, NotAsked
<1>4. \A b \in Attempt : HostOK(y, b)' /\ FramesOK(y, b)'
  BY <1>1 DEF TxInv, HostOK, FramesOK
<1>5. \A b \in Attempt : LookedOK(y, b)'
  BY <1>2 DEF TxInv, LookedOK
<1>6. WrittenOK(y)'
  BY Zenon DEF TxInv, WrittenOK
<1>7. NoReturn(y)'
  BY Zenon DEF TxInv, NoReturn
<1>8. RollbackOK(y)'
  BY <1>1, <1>2, Zenon DEF TxInv, RollbackOK
<1>9. BackupOK(y)'
  BY ConstantFacts, Zenon DEF TxInv, BackupOK
<1> QED
  BY <1>3, <1>4, <1>5, <1>6, <1>7, <1>8, <1>9, Zenon DEF TxInv

\* A step of one transaction that writes no file.
LEMMA OneTransaction ==
  ASSUME IInv, TypeOK', NEW x \in Tx, TxInv(x)', OneHelper',
         \A y \in Tx : y # x =>
           /\ state'[y] = state[y] /\ row'[y] = row[y] /\ attempt'[y] = attempt[y]
           /\ before'[y] = before[y] /\ pc'[y] = pc[y],
         UNCHANGED <<artifact, helper, frame, obs, content, wrote>>
  PROVE  IInv'
<1>1. ASSUME NEW y \in Tx, y # x PROVE TxInv(y)'
  <2>1. TxInv(y)
    BY Zenon DEF IInv
  <2>2. \A f \in File : External \/ <<y, f>> \notin wrote \/ content[f] # before[y][f]
    BY <2>1, Zenon DEF TxInv, NoReturn
  <2> QED
    BY <1>1, <2>1, <2>2, OthersKept, Zenon
<1> QED
  BY <1>1, Zenon DEF IInv

\* The contents a plan finds are not the ones of its own transaction.
LEMMA ReadPlanStep ==
  ASSUME IInv, TypeOK', NEW x \in Tx, NEW files \in SUBSET File, files # {},
         ReadPlan(x, files)
  PROVE  IInv'
<1> USE DEF storeVars, diskVars, hostVars, helperVars
<1>1. TxInv(x) /\ TypeOK /\ 1 \in Attempt
  BY ConstantFacts, Zenon DEF IInv
<1>2. /\ UNCHANGED <<state, row, attempt, artifact, content, wrote, helper, frame, obs>>
      /\ pc' = [pc EXCEPT ![x][1] = "record"]
      /\ before' = [before EXCEPT ![x] = [f \in File |->
                      IF f \in files THEN content[f] ELSE Unplanned]]
      /\ pc[x][1] = "plan"
  BY Zenon DEF ReadPlan
<1>3. /\ pc'[x][1] = "record"
      /\ \A b \in Attempt : b # 1 => pc'[x][b] = pc[x][b]
      /\ \A y \in Tx : y # x => pc'[y] = pc[y] /\ before'[y] = before[y]
      /\ \A f \in File : before'[x][f] = IF f \in files THEN content[f] ELSE Unplanned
  BY <1>1, <1>2 DEF TypeOK
<1>4. ~HasPlan(x) /\ ~HasPlan(x)'
  BY <1>1, <1>2, Zenon DEF TxInv, PlanOK, EarlyPc, HasPlan
<1>5. \A f \in File : <<x, f>> \notin wrote /\ content[f] # x
  BY <1>1, <1>4, NoPlan, Zenon
<1>6. \E f \in File : before'[x][f] # Unplanned
  <2>1. PICK f \in File : f \in files
    BY Zenon
  <2>2. content[f] \in Content /\ Unplanned \notin Content
    BY <1>1, <2>1, ConstantFacts DEF TypeOK, Content, Unplanned, Foreign
  <2> QED
    BY <1>3, <2>1, <2>2, Zenon
<1>7. \A b \in Attempt : HostOK(x, b) /\ helper[x][b] # "committing" /\ pc[x][b] \notin LatePc
  BY <1>1, <1>4, Zenon DEF TxInv, HostOK
<1>8. AttemptsOK(x)'
  BY <1>1, <1>2, Zenon DEF TxInv, AttemptsOK
<1>9. ASSUME NEW b \in Attempt PROVE HostOK(x, b)' /\ FramesOK(x, b)' /\ LookedOK(x, b)'
  <2>1. CASE b = 1
    <3>1. HostOK(x, b)'
      BY <1>2, <1>3, <1>4, <1>6, <1>7, <2>1, Zenon DEF HostOK, ExecutionPc,
             RecoveryPc, LatePc
    <3>2. LookedOK(x, b)'
      BY <1>3, <2>1, Zenon DEF LookedOK
    <3>3. FramesOK(x, b)'
      BY <1>1, <1>2, <1>4, <1>7, Zenon DEF TxInv, FramesOK
    <3> QED
      BY <3>1, <3>2, <3>3, Zenon
  <2>2. CASE b # 1
    <3>1. HostOK(x, b)'
      BY <1>2, <1>3, <1>4, <1>7, <2>2 DEF HostOK, ExecutionPc
    <3>2. LookedOK(x, b)'
      BY <1>3, <1>7, <2>2, Zenon DEF LookedOK, LatePc, RecoveryPc
    <3>3. FramesOK(x, b)'
      BY <1>1, <1>2, <1>4, <1>7, Zenon DEF TxInv, FramesOK
    <3> QED
      BY <3>1, <3>2, <3>3, Zenon
  <2> QED
    BY <2>1, <2>2, Zenon
<1>10. PlanOK(x)'
  BY <1>4, Zenon DEF PlanOK
<1>11. FencedOff(x)'
  BY <1>2, <1>3, <1>7 DEF FencedOff, Engaged, CommitPc, LatePc
<1>12. WrittenOK(x)' /\ NotAsked(x)' /\ BackupOK(x)'
  BY <1>1, <1>2, <1>5, ConstantFacts, Zenon DEF TxInv, WrittenOK, NotAsked, BackupOK
<1>13. NoReturn(x)'
  <2>1. \A y \in Tx, f \in File : content[f] = y => <<y, f>> \in wrote
    BY Zenon DEF IInv, TxInv, WrittenOK
  <2> QED
    BY <1>2, <1>3, <1>5, <2>1, ConstantFacts DEF NoReturn
<1>14. RollbackOK(x)'
  BY <1>1, <1>2, <1>3, <1>7, Zenon DEF TxInv, RollbackOK, Engaged, Untouched,
         CommitPc, LatePc
<1>15. TxInv(x)'
  BY <1>8, <1>9, <1>10, <1>11, <1>12, <1>13, <1>14, Zenon DEF TxInv
<1>16. OneHelper'
  BY <1>2, Zenon DEF IInv, OneHelper
<1> QED
  BY <1>2, <1>3, <1>15, <1>16, OneTransaction, Zenon

\* The plan is recorded before any helper can commit it.
LEMMA RecordPlanStep ==
  ASSUME IInv, TypeOK', NEW x \in Tx, RecordPlan(x)
  PROVE  IInv'
<1> USE DEF storeVars, diskVars, hostVars, helperVars
<1>1. TxInv(x) /\ TypeOK /\ 1 \in Attempt
  BY ConstantFacts, Zenon DEF IInv
<1>2. /\ UNCHANGED <<state, attempt, artifact, content, wrote, helper, frame, before, obs>>
      /\ row' = [row EXCEPT ![x] = [f \in File |->
                   IF f \in Planned(x) THEN "pending" ELSE "none"]]
      /\ pc[x][1] = "record" /\ attempt[x][1] = "active" /\ state[x] = "planning"
  BY Zenon DEF RecordPlan, Live
<1>3. PICK q \in {"prepare", "throw"} : pc' = [pc EXCEPT ![x][1] = q]
  BY Zenon DEF RecordPlan, Goes
<1>4. /\ pc'[x][1] = q
      /\ \A b \in Attempt : b # 1 => pc'[x][b] = pc[x][b]
      /\ \A y \in Tx : y # x => pc'[y] = pc[y] /\ row'[y] = row[y]
      /\ \A f \in File : row'[x][f] = IF before[x][f] # Unplanned THEN "pending" ELSE "none"
  BY <1>1, <1>2, <1>3 DEF TypeOK, Planned
<1>5. ~HasPlan(x)
  BY <1>1, <1>2, Zenon DEF TxInv, PlanOK, EarlyPc
<1>6. HasPlan(x)'
  BY <1>1, <1>2, <1>4 DEF TxInv, HostOK, HasPlan
<1>7. \A f \in File : <<x, f>> \notin wrote /\ content[f] # x
  BY <1>1, <1>5, NoPlan, Zenon
<1>8. \A b \in Attempt : HostOK(x, b) /\ helper[x][b] # "committing" /\ pc[x][b] \notin LatePc
  BY <1>1, <1>5, Zenon DEF TxInv, HostOK
<1>9. \A b \in Attempt : attempt[x][b] = "active" => b = 1
  BY <1>1, <1>2, AttemptAssumption DEF TxInv, AttemptsOK, Attempt
<1>10. AttemptsOK(x)'
  BY <1>1, <1>2, Zenon DEF TxInv, AttemptsOK
<1>11. ASSUME NEW b \in Attempt PROVE HostOK(x, b)' /\ FramesOK(x, b)' /\ LookedOK(x, b)'
  <2>1. HostOK(x, b)'
    <3>1. CASE b = 1
      BY <1>2, <1>4, <1>6, <1>8, <3>1, Zenon DEF HostOK, RecoveryPc
    <3>2. CASE b # 1
      BY <1>2, <1>4, <1>6, <1>8, <3>2, Zenon DEF HostOK
    <3> QED
      BY <3>1, <3>2, Zenon
  <2>2. LookedOK(x, b)'
    BY <1>4, <1>8, Zenon DEF LookedOK, LatePc, RecoveryPc
  <2>3. FramesOK(x, b)'
    BY <1>1, <1>2, <1>6, <1>8, Zenon DEF TxInv, FramesOK
  <2> QED
    BY <2>1, <2>2, <2>3, Zenon
<1>12. PlanOK(x)'
  BY <1>2, <1>4 DEF PlanOK, EarlyPc
<1>13. FencedOff(x)'
  <2>1. \A b \in Attempt : Engaged(x, b)' => b = 1
    BY <1>2, <1>4, <1>8, Zenon DEF Engaged, CommitPc, LatePc
  <2> QED
    BY <1>2, <1>9, <2>1, Zenon DEF FencedOff, Terminal
<1>14. WrittenOK(x)'
  BY <1>1, <1>2, <1>4, <1>7 DEF TxInv, WrittenOK
<1>15. NotAsked(x)' /\ BackupOK(x)' /\ NoReturn(x)'
  BY <1>1, <1>2, <1>7, ConstantFacts, Zenon DEF TxInv, NoReturn, NotAsked, BackupOK
<1>16. RollbackOK(x)'
  BY <1>2, <1>4, <1>9, Zenon DEF RollbackOK
<1>17. TxInv(x)'
  BY <1>10, <1>11, <1>12, <1>13, <1>14, <1>15, <1>16, Zenon DEF TxInv
<1>18. OneHelper'
  BY <1>2 DEF IInv, OneHelper
<1> QED
  BY <1>2, <1>4, <1>17, <1>18, OneTransaction, Zenon

\* A recovery starts behind the lock, or has nothing to roll back.
LEMMA ClaimStep ==
  ASSUME IInv, TypeOK', NEW x \in Tx, NEW a \in Recovery, ClaimRecovery(x, a)
  PROVE  IInv'
<1> USE DEF storeVars, diskVars, hostVars, helperVars
<1>1. TxInv(x) /\ TypeOK /\ a \in Attempt /\ a # 1 /\ a - 1 \in Attempt
  BY AttemptAssumption DEF IInv, Recovery, Attempt
<1>2. /\ UNCHANGED <<state, row, artifact, content, wrote, helper, frame, before, obs>>
      /\ attempt' = [attempt EXCEPT ![x] = [b \in Attempt |->
           IF b = a THEN "active"
           ELSE IF attempt[x][b] = "active" THEN "failed" ELSE attempt[x][b]]]
      /\ attempt[x][a] = "none" /\ attempt[x][a - 1] # "none" /\ state[x] \in Recoverable
  BY Zenon DEF ClaimRecovery
<1>3. PICK q \in {"rollback", "spawn", "stopped"} :
        /\ pc' = [pc EXCEPT ![x][a] = q]
        /\ q = "rollback" => ~HasPlan(x)
        /\ q = "spawn" => HasPlan(x)
  BY Zenon DEF ClaimRecovery, Goes, Recorded, HasPlan
<1>4. /\ pc'[x][a] = q
      /\ \A b \in Attempt : b # a => pc'[x][b] = pc[x][b]
      /\ \A y \in Tx : y # x => pc'[y] = pc[y] /\ attempt'[y] = attempt[y]
      /\ attempt'[x][a] = "active"
      /\ \A b \in Attempt : b # a =>
           /\ attempt'[x][b] # "active"
           /\ attempt'[x][b] # "none" <=> attempt[x][b] # "none"
  BY <1>1, <1>2, <1>3 DEF TypeOK
<1>5. HasPlan(x)' = HasPlan(x)
  BY <1>2, Zenon DEF HasPlan
<1>6. HostOK(x, a) /\ helper[x][a] = "none"
  BY <1>1, <1>2, Zenon DEF TxInv, HostOK
<1>7. AttemptsOK(x)'
  <2>1. \A b \in Attempt : attempt[x][b] # "none" => b < a
    BY <1>1, <1>2, ConstantFacts DEF TxInv, AttemptsOK, Attempt
  <2>2. \A b \in Attempt : b < a => attempt[x][b] # "none"
    <3> SUFFICES ASSUME NEW b \in Attempt, b < a PROVE attempt[x][b] # "none"
      BY Zenon
    <3>1. b = a - 1 \/ b < a - 1
      BY <1>1, ConstantFacts DEF Attempt
    <3> QED
      BY <1>1, <1>2, <3>1, Zenon DEF TxInv, AttemptsOK
  <2>3. \A b \in Attempt : attempt'[x][b] # "none" <=> b <= a
    BY <1>1, <1>4, <2>1, <2>2, ConstantFacts DEF Attempt
  <2>4. \A b \in Attempt : attempt'[x][b] = "active" => b = a
    BY <1>4, Zenon
  <2>5. state'[x] # "none"
    BY <1>2, Zenon DEF Recoverable
  <2> QED
    BY <1>1, <2>3, <2>4, <2>5, ConstantFacts DEF AttemptsOK, Attempt
<1>8. ASSUME NEW b \in Attempt PROVE HostOK(x, b)' /\ FramesOK(x, b)' /\ LookedOK(x, b)'
  <2>1. HostOK(x, b) /\ FramesOK(x, b) /\ LookedOK(x, b)
    BY <1>1, Zenon DEF TxInv
  <2>2. HostOK(x, b)'
    <3>1. CASE b = a
      BY <1>1, <1>2, <1>3, <1>4, <1>5, <1>6, <3>1, Zenon
      DEF HostOK, ExecutionPc, RecoveryPc, LatePc
    <3>2. CASE b # a
      BY <1>2, <1>4, <1>5, <2>1, <3>2, Zenon DEF HostOK
    <3> QED
      BY <3>1, <3>2, Zenon
  <2>3. FramesOK(x, b)'
    BY <1>2, <1>5, <2>1, Zenon DEF FramesOK
  <2>4. LookedOK(x, b)'
    <3>1. CASE b = a
      BY <1>4, <3>1, Zenon DEF LookedOK
    <3>2. CASE b # a
      BY <1>2, <1>4, <2>1, <3>2, Zenon DEF LookedOK, Untouched
    <3> QED
      BY <3>1, <3>2, Zenon
  <2> QED
    BY <2>2, <2>3, <2>4, Zenon
<1>9. PlanOK(x)'
  BY <1>1, <1>2, <1>4, <1>5, ConstantFacts, Zenon DEF TxInv, PlanOK
<1>10. \A b \in Attempt : Engaged(x, b)' => Engaged(x, b) /\ b # a
  BY <1>2, <1>4, <1>6, Zenon DEF Engaged
<1>11. q = "rollback" => /\ \A b \in Attempt : ~Engaged(x, b)
                        /\ \A f \in File : Untouched(x, f)
  BY <1>1, <1>3, NoPlan, Zenon DEF Untouched
<1>12. FencedOff(x)'
  <2> SUFFICES ASSUME NEW b \in Attempt, Engaged(x, b)'
               PROVE  /\ state'[x] \notin Terminal
                      /\ \A c \in Attempt : attempt'[x][c] = "active" /\ c # b =>
                           helper'[x][c] = "none" /\ pc'[x][c] \in {"spawn", "stopped"}
    BY Zenon DEF FencedOff
  <2>1. q \in {"spawn", "stopped"}
    BY <1>10, <1>11, Zenon
  <2> QED
    BY <1>2, <1>4, <1>6, <2>1, Zenon DEF Recoverable, Terminal
<1>13. WrittenOK(x)' /\ NoReturn(x)' /\ BackupOK(x)'
  BY <1>1, <1>2, Zenon DEF TxInv, WrittenOK, NoReturn, BackupOK
<1>14. NotAsked(x)'
  BY <1>1, <1>2, <1>4, ConstantFacts, Zenon DEF TxInv, NotAsked
<1>15. RollbackOK(x)'
  <2>1. state'[x] # "rolled_back"
    BY <1>2, Zenon DEF Recoverable
  <2> QED
    BY <1>2, <1>4, <1>10, <1>11, <2>1, Zenon DEF RollbackOK, Untouched
<1>16. TxInv(x)'
  BY <1>7, <1>8, <1>9, <1>12, <1>13, <1>14, <1>15, Zenon DEF TxInv
<1>17. OneHelper'
  BY <1>2, Zenon DEF IInv, OneHelper
<1> QED
  BY <1>2, <1>4, <1>16, <1>17, OneTransaction, Zenon

\* A helper replaces a file only while no other helper is alive and the outcome is open.
LEMMA CommitStep ==
  ASSUME IInv, TypeOK', NEW x \in Tx, NEW a \in Attempt, NEW f \in File, CommitFile(x, a, f)
  PROVE  IInv'
<1> USE DEF storeVars, diskVars, hostVars, helperVars
<1>1. TxInv(x) /\ TypeOK /\ HostOK(x, a) /\ FramesOK(x, a) /\ File \subseteq Nat
  BY ConstantFacts, Zenon DEF IInv, TxInv
<1>2. /\ UNCHANGED <<state, row, attempt, before, pc, obs>>
      /\ helper[x][a] = "committing" /\ before[x][f] # Unplanned /\ frame[x][a][f] = "none"
      /\ \A g \in File : before[x][g] # Unplanned /\ g < f => frame[x][a][g] # "none"
      /\ frame' = [frame EXCEPT ![x][a][f] = "sent"]
  BY Zenon DEF CommitFile, Planned
<1>3. /\ HasPlan(x) /\ attempt[x][a] # "none" /\ pc[x][a] \in {"commit", "deaf", "stopped"}
      /\ row[x][f] # "none"
  BY <1>1, <1>2, Zenon DEF HostOK, TxInv, PlanOK
<1>4. /\ Engaged(x, a)
      /\ state[x] \notin Terminal
      /\ \A b \in Attempt : b # a => helper[x][b] \notin Alive
  BY <1>1, <1>2 DEF IInv, TxInv, OneHelper, FencedOff, Engaged, Alive
<1>5. /\ \A y \in Tx, b \in Attempt : y # x \/ b # a =>
           helper'[y][b] = helper[y][b] /\ frame'[y][b] = frame[y][b]
      /\ \A y \in Tx : y # x => helper'[y] = helper[y] /\ frame'[y] = frame[y]
      /\ \A g \in File : frame'[x][a][g] = IF g = f THEN "sent" ELSE frame[x][a][g]
      /\ helper'[x][a] \in Alive
      /\ helper'[x][a] = "committing" => \E g \in File : before[x][g] # Unplanned /\ g > f
  BY <1>1, <1>2 DEF CommitFile, TypeOK, Planned, Alive
<1>6. /\ <<x, f>> \in wrote'
      /\ wrote \subseteq wrote'
      /\ \A y \in Tx, g \in File :
           <<y, g>> \in wrote' => <<y, g>> \in wrote \/ (y = x /\ g = f)
      /\ \A g \in File : g # f => content'[g] = content[g]
      /\ content'[f] = x
      /\ content[f] = x \/ content[f] = before[x][f]
  <2>1. CASE Class(x, f) = "after" /\ UNCHANGED <<content, artifact, wrote>>
    <3>1. content[f] = x
      BY <2>1, ClassCases, Zenon
    <3>2. <<x, f>> \in wrote
      BY <1>1, <3>1, Zenon DEF TxInv, WrittenOK
    <3> QED
      BY <2>1, <3>1, <3>2, Zenon
  <2>2. CASE /\ Class(x, f) = "before"
             /\ content' = [content EXCEPT ![f] = x]
             /\ wrote' = wrote \cup {<<x, f>>}
    <3>1. content[f] = before[x][f]
      BY <2>2, ClassCases, Zenon
    <3> QED
      BY <1>1, <2>2, <3>1, Zenon DEF TypeOK
  <2> QED
    BY <2>1, <2>2, CommitChanges
<1>7. /\ \A y \in Tx : y # x => artifact'[y] = artifact[y]
      /\ \A g \in File : g # f => artifact'[x][g] = artifact[x][g]
      /\ External \/ (f \in Deletes => artifact'[x][f] = "backup")
  <2>1. CASE Class(x, f) = "after" /\ UNCHANGED <<content, artifact, wrote>>
    <3>1. content[f] = x
      BY <2>1, ClassCases, Zenon
    <3>2. <<x, f>> \in wrote
      BY <1>1, <3>1, Zenon DEF TxInv, WrittenOK
    <3>3. state[x] # "applied"
      BY <1>4, Zenon DEF Terminal
    <3> QED
      BY <1>1, <2>1, <3>2, <3>3, Zenon DEF TxInv, BackupOK
  <2>2. CASE artifact' = [artifact EXCEPT ![x][f] =
                            IF f \in Deletes THEN "backup" ELSE "none"]
    BY <1>1, <2>2 DEF TypeOK
  <2> QED
    BY <2>1, <2>2, CommitChanges, Zenon
<1>8. HasPlan(x)'
  BY <1>2, <1>3, Zenon DEF HasPlan
<1>9. AttemptsOK(x)' /\ PlanOK(x)'
  BY <1>1, <1>2, <1>3, Zenon DEF TxInv, AttemptsOK, PlanOK
<1>10. ASSUME NEW b \in Attempt PROVE HostOK(x, b)'
  <2>1. CASE b = a
    BY <1>1, <1>2, <1>3, <1>8, <2>1, Zenon DEF HostOK
  <2>2. CASE b # a
    BY <1>1, <1>2, <1>5, <1>8, <2>2 DEF TxInv, HostOK
  <2> QED
    BY <2>1, <2>2, Zenon
<1>11. ASSUME NEW b \in Attempt PROVE FramesOK(x, b)'
  <2>1. CASE b = a
    <3>1. \A g \in File : frame'[x][a][g] # "none" => HasPlan(x)' /\ <<x, g>> \in wrote'
      BY <1>1, <1>5, <1>6, <1>8, Zenon DEF FramesOK
    <3>2. ASSUME NEW g \in File, NEW h \in File, before[x][g] # Unplanned,
                 before[x][h] # Unplanned, g < h, frame'[x][a][g] = "none"
          PROVE  frame'[x][a][h] = "none"
      <4>1. g # f /\ frame[x][a][g] = "none"
        BY <1>5, <3>2, Zenon
      <4>2. h # f
        BY <1>2, <3>2, <4>1, Zenon
      <4> QED
        BY <1>1, <1>5, <3>2, <4>1, <4>2, Zenon DEF FramesOK
    <3>3. ASSUME helper'[x][a] = "committing"
          PROVE  \E g \in File : before[x][g] # Unplanned /\ frame'[x][a][g] = "none"
      <4>1. PICK g \in File : before[x][g] # Unplanned /\ g > f
        BY <1>5, <3>3, Zenon
      <4>2. f < g /\ g # f
        BY <1>1, <4>1
      <4>3. frame[x][a][g] = "none"
        BY <1>1, <1>2, <4>1, <4>2, Zenon DEF FramesOK
      <4> QED
        BY <1>5, <4>1, <4>2, <4>3, Zenon
    <3> QED
      BY <1>2, <2>1, <3>1, <3>2, <3>3, Zenon DEF FramesOK
  <2>2. CASE b # a
    BY <1>1, <1>2, <1>5, <1>6, <1>8, <2>2 DEF TxInv, FramesOK
  <2> QED
    BY <2>1, <2>2, Zenon
<1>12. ASSUME NEW b \in Attempt PROVE LookedOK(x, b)'
  <2>1. LookedOK(x, b)
    BY <1>1, Zenon DEF TxInv
  <2>2. CASE b = a
    BY <1>2, <1>3, <2>2, Zenon DEF LookedOK
  <2>3. CASE b # a
    BY <1>2, <1>4, <1>5, <2>1, <2>3, Zenon DEF LookedOK, Alive
  <2> QED
    BY <2>2, <2>3, Zenon
<1>13. FencedOff(x)'
  <2>1. \A b \in Attempt : Engaged(x, b)' => b = a
    BY <1>4, <1>5 DEF Engaged, Alive
  <2>2. \A b \in Attempt : attempt[x][b] = "active" /\ b # a =>
          helper[x][b] = "none" /\ pc[x][b] \in {"spawn", "stopped"}
    BY <1>1, <1>4, Zenon DEF TxInv, FencedOff
  <2> QED
    BY <1>2, <1>4, <1>5, <2>1, <2>2 DEF FencedOff
<1>14. WrittenOK(x)'
  BY <1>1, <1>2, <1>3, <1>4, <1>6, Zenon DEF TxInv, WrittenOK, Terminal
<1>15. NoReturn(x)'
  BY <1>1, <1>2, <1>6, Zenon DEF TxInv, NoReturn
<1>16. NotAsked(x)'
  <2>1. CASE a = 1
    BY <1>2, <1>3, <2>1, Zenon DEF NotAsked, PreCommitPc
  <2>2. CASE a # 1
    BY <1>4, <1>5, <2>2, ConstantFacts, Zenon DEF NotAsked, Alive
  <2> QED
    BY <2>1, <2>2, Zenon
<1>17. RollbackOK(x)'
  BY <1>1, <1>2, <1>4, Zenon DEF TxInv, RollbackOK, Terminal
<1>18. BackupOK(x)'
  BY <1>1, <1>2, <1>6, <1>7, ConstantFacts, Zenon DEF TxInv, BackupOK
<1>19. TxInv(x)'
  BY <1>9, <1>10, <1>11, <1>12, <1>13, <1>14, <1>15, <1>16, <1>17, <1>18, Zenon
         DEF TxInv
<1>20. ASSUME NEW y \in Tx, y # x PROVE TxInv(y)'
  <2>1. TxInv(y)
    BY Zenon DEF IInv
  <2>2. ASSUME NEW g \in File
        PROVE  External \/ <<y, g>> \notin wrote \/ content'[g] # before[y][g]
    <3>1. CASE g # f
      BY <1>6, <2>1, <3>1, Zenon DEF TxInv, NoReturn
    <3>2. CASE g = f /\ content[f] = x
      BY <1>6, <2>1, <3>2, Zenon DEF TxInv, NoReturn
    <3>3. CASE g = f /\ content[f] = before[x][f]
      <4>1. External \/ <<x, f>> \notin wrote
        BY <1>1, <3>3, Zenon DEF TxInv, NoReturn
      <4>2. before[y][f] = x => <<x, f>> \in wrote
        BY <2>1, Zenon DEF TxInv, NoReturn
      <4> QED
        BY <1>6, <3>3, <4>1, <4>2, Zenon
    <3> QED
      BY <1>6, <3>1, <3>2, <3>3, Zenon
  <2>3. \A g \in File : /\ content'[g] = y => content[g] = y
                        /\ <<y, g>> \in wrote' => <<y, g>> \in wrote
    BY <1>6, <1>20, Zenon
  <2> QED
    BY <1>2, <1>5, <1>6, <1>7, <1>20, <2>1, <2>2, <2>3, OthersKept, Zenon
<1>21. OneHelper'
  <2>1. \A y \in Tx, b \in Attempt : helper'[y][b] \in Alive => helper[y][b] \in Alive
    BY <1>2, <1>5, Zenon DEF Alive
  <2> QED
    BY <2>1, Zenon DEF IInv, OneHelper
<1> QED
  BY <1>19, <1>20, <1>21, Zenon DEF IInv

\* A transaction that is begun has neither plan nor helper.
LEMMA BeginStep ==
  ASSUME IInv, TypeOK', NEW x \in Tx, Begin(x)
  PROVE  IInv'
<1> USE DEF storeVars, diskVars, hostVars, helperVars
<1>1. TxInv(x) /\ TypeOK /\ 1 \in Attempt
  BY ConstantFacts, Zenon DEF IInv
<1>2. /\ UNCHANGED <<row, artifact, content, wrote, helper, frame, before, obs>>
      /\ state' = [state EXCEPT ![x] = "planning"]
      /\ attempt' = [attempt EXCEPT ![x][1] = "active"]
      /\ state[x] = "none" /\ pc[x][1] = "checking"
  BY Zenon DEF Begin
<1>3. PICK q \in {"spawn", "stopped"} : pc' = [pc EXCEPT ![x][1] = q]
  BY Zenon DEF Begin, Goes
<1>4. /\ state'[x] = "planning" /\ attempt'[x][1] = "active" /\ pc'[x][1] = q
      /\ \A b \in Attempt : b # 1 => attempt'[x][b] = attempt[x][b] /\ pc'[x][b] = pc[x][b]
      /\ \A y \in Tx : y # x =>
           state'[y] = state[y] /\ attempt'[y] = attempt[y] /\ pc'[y] = pc[y]
  BY <1>1, <1>2, <1>3 DEF TypeOK
<1>5. ~HasPlan(x)
  BY <1>1, <1>2, Zenon DEF TxInv, PlanOK, EarlyPc
<1>6. \A b \in Attempt : attempt[x][b] = "none"
  BY <1>1, <1>2, Zenon DEF TxInv, AttemptsOK
<1>7. \A b \in Attempt : helper[x][b] = "none" /\ pc[x][b] \in {"idle", "checking", "stopped"}
  BY <1>1, <1>6, Zenon DEF TxInv, HostOK
<1>8. AttemptsOK(x)'
  <2>1. \A b \in Attempt : attempt'[x][b] # "none" => b = 1
    BY <1>4, <1>6, Zenon
  <2> QED
    BY <1>4, <2>1, AttemptAssumption DEF AttemptsOK, Attempt
<1>9. ASSUME NEW b \in Attempt PROVE HostOK(x, b)' /\ FramesOK(x, b)' /\ LookedOK(x, b)'
  <2>1. /\ pc'[x][b] \in {"idle", "checking", "stopped", "spawn"}
        /\ pc'[x][b] \in {"checking", "spawn"} => b = 1
    BY <1>1, <1>4, <1>7 DEF TxInv, HostOK, ExecutionPc
  <2>2. attempt'[x][b] = "none" => pc'[x][b] # "spawn"
    BY <1>4, <1>7, Zenon
  <2>3. HostOK(x, b)'
    BY <1>2, <1>7, <2>1, <2>2, Zenon DEF HostOK, ExecutionPc, RecoveryPc, LatePc
  <2>4. FramesOK(x, b)'
    BY <1>1, <1>2, Zenon DEF TxInv, FramesOK, HasPlan
  <2>5. LookedOK(x, b)'
    BY <2>1, Zenon DEF LookedOK
  <2> QED
    BY <2>3, <2>4, <2>5, Zenon
<1>10. PlanOK(x)'
  BY <1>2, <1>5, Zenon DEF PlanOK, HasPlan
<1>11. FencedOff(x)' /\ NotAsked(x)'
  BY <1>1, <1>2, <1>7, Zenon DEF FencedOff, Engaged, NotAsked
<1>12. WrittenOK(x)' /\ NoReturn(x)'
  BY <1>1, <1>2, <1>4, Zenon DEF TxInv, WrittenOK, NoReturn
<1>13. RollbackOK(x)'
  BY <1>4, <1>7, Zenon DEF RollbackOK
<1>14. BackupOK(x)'
  BY <1>1, <1>2, <1>4, Zenon DEF TxInv, BackupOK
<1>15. TxInv(x)'
  BY <1>8, <1>9, <1>10, <1>11, <1>12, <1>13, <1>14, Zenon DEF TxInv
<1>16. OneHelper'
  BY <1>2, Zenon DEF IInv, OneHelper
<1> QED
  BY <1>2, <1>4, <1>15, <1>16, OneTransaction, Zenon

\* An edit by somebody else leaves no content of a transaction.
LEMMA EditStep ==
  ASSUME IInv, TypeOK', NEW f \in File, ExternalEdit(f)
  PROVE  IInv'
<1> USE DEF storeVars, diskVars, hostVars, helperVars
<1>1. /\ UNCHANGED <<state, row, attempt, artifact, wrote, helper, frame, before, pc, obs>>
      /\ content' = [content EXCEPT ![f] = Foreign] /\ External
  BY Zenon DEF ExternalEdit
<1>2. \A y \in Tx, g \in File : content'[g] = y => content[g] = y
  BY <1>1, ConstantFacts, Zenon DEF IInv, TypeOK
<1>3. ASSUME NEW y \in Tx PROVE TxInv(y)'
  BY <1>1, <1>2, OthersKept, Zenon DEF IInv
<1>4. OneHelper'
  BY <1>1, Zenon DEF IInv, OneHelper
<1> QED
  BY <1>3, <1>4, Zenon DEF IInv

\* The end of an attempt that no helper can outlive with a commit.
LEMMA FinalizeKeeps ==
  ASSUME IInv, TypeOK', NEW x \in Tx, NEW a \in Attempt,
         NEW outcome \in {"applied", "rolled_back", "recovery_required"},
         NEW ended \in {"completed", "failed"},
         NEW q \in {"stopped", "throw", "throwCommit", "cleanup"},
         Finalize(x, a, outcome, ended), pc' = [pc EXCEPT ![x][a] = q],
         attempt[x][a] = "active", state[x] \in Recoverable,
         pc[x][a] \in {"conflicted", "noop", "finalize", "rollback", "giveup"},
         q \in {"throw", "throwCommit"} => a = 1,
         q = "cleanup" => HasPlan(x) /\ outcome = "applied",
         q = "throw" /\ helper[x][a] = "ready" => \A f \in File : <<x, f>> \notin wrote,
         outcome = "applied" => \A f \in File : row[x][f] # "none" => <<x, f>> \in wrote,
         outcome = "rolled_back" => \A f \in File : Untouched(x, f)
  PROVE  IInv'
<1> USE DEF storeVars, diskVars, hostVars, helperVars
<1>1. /\ TxInv(x) /\ HostOK(x, a) /\ TypeOK
  BY Zenon DEF IInv, TxInv
<1>2. /\ state' = [state EXCEPT ![x] = outcome]
      /\ attempt' = [attempt EXCEPT ![x][a] = ended]
      /\ UNCHANGED <<row, artifact, content, wrote, helper, frame, before, obs>>
  BY Zenon DEF Finalize
<1>3. /\ state'[x] = outcome /\ attempt'[x][a] = ended /\ pc'[x][a] = q
      /\ \A b \in Attempt : b # a => attempt'[x][b] = attempt[x][b] /\ pc'[x][b] = pc[x][b]
      /\ \A y \in Tx : y # x =>
           state'[y] = state[y] /\ attempt'[y] = attempt[y] /\ pc'[y] = pc[y]
  <2>1. state'[x] = outcome /\ \A y \in Tx : y # x => state'[y] = state[y]
    BY <1>1, <1>2, Zenon DEF TypeOK
  <2>2. /\ attempt'[x][a] = ended /\ \A b \in Attempt : b # a => attempt'[x][b] = attempt[x][b]
        /\ \A y \in Tx : y # x => attempt'[y] = attempt[y]
    BY <1>1, <1>2 DEF TypeOK
  <2>3. /\ pc'[x][a] = q /\ \A b \in Attempt : b # a => pc'[x][b] = pc[x][b]
        /\ \A y \in Tx : y # x => pc'[y] = pc[y]
    BY <1>1 DEF TypeOK
  <2> QED
    BY <2>1, <2>2, <2>3, Zenon
<1>4. \A b \in Attempt : ~Engaged(x, b)
  <2>1. ~Engaged(x, a)
    BY <1>1, Zenon DEF HostOK, Engaged, CommitPc
  <2>2. \A b \in Attempt : b # a => ~Engaged(x, b)
    BY <1>1, Zenon DEF TxInv, FencedOff
  <2> QED
    BY <2>1, <2>2, Zenon
<1>5. \A b \in Attempt : ~Engaged(x, b)'
  BY <1>2, <1>3, <1>4, Zenon DEF Engaged, CommitPc
<1>6. \A b \in Attempt : attempt'[x][b] # "active"
  BY <1>1, <1>3, ConstantFacts DEF TxInv, AttemptsOK
<1>7. HasPlan(x)' = HasPlan(x)
  BY <1>2, Zenon DEF HasPlan
<1>8. AttemptsOK(x)'
  <2>1. \A b \in Attempt : attempt'[x][b] # "none" <=> attempt[x][b] # "none"
    BY <1>3, Zenon
  <2> QED
    BY <1>1, <1>3, <1>6, <2>1, Zenon DEF TxInv, AttemptsOK
<1>9. ASSUME NEW b \in Attempt PROVE HostOK(x, b)' /\ FramesOK(x, b)' /\ LookedOK(x, b)'
  <2>1. HostOK(x, b) /\ FramesOK(x, b) /\ LookedOK(x, b)
    BY <1>1, Zenon DEF TxInv
  <2>2. HostOK(x, b)'
    <3>1. CASE b = a
      BY <1>1, <1>2, <1>3, <1>7, <3>1, Zenon DEF HostOK, ExecutionPc, RecoveryPc,
             LatePc
    <3>2. CASE b # a
      <4>1. pc[x][b] = "cleanup" => FALSE
        BY <2>1, Zenon DEF HostOK, Recoverable
      <4> QED
        BY <1>2, <1>3, <1>7, <2>1, <3>2, <4>1, Zenon DEF HostOK
    <3> QED
      BY <3>1, <3>2, Zenon
  <2>3. FramesOK(x, b)'
    BY <1>2, <1>7, <2>1, Zenon DEF FramesOK
  <2>4. LookedOK(x, b)'
    <3>1. CASE b = a
      BY <1>3, <3>1, Zenon DEF LookedOK
    <3>2. CASE b # a
      BY <1>2, <1>3, <2>1, <3>2 DEF LookedOK, Untouched
    <3> QED
      BY <3>1, <3>2, Zenon
  <2> QED
    BY <2>2, <2>3, <2>4, Zenon
<1>10. PlanOK(x)'
  BY <1>1, <1>2, <1>3, <1>7, ConstantFacts, Zenon DEF TxInv, PlanOK, EarlyPc
<1>11. FencedOff(x)'
  BY <1>5, Zenon DEF FencedOff
<1>12. WrittenOK(x)' /\ NoReturn(x)'
  BY <1>1, <1>2, <1>3, Zenon DEF TxInv, WrittenOK, NoReturn
<1>13. NotAsked(x)'
  BY <1>1, <1>2, <1>3, ConstantFacts, Zenon DEF TxInv, NotAsked, PreCommitPc
<1>14. RollbackOK(x)'
  BY <1>2, <1>3, <1>6, Zenon DEF RollbackOK, Untouched
<1>15. BackupOK(x)'
  BY <1>1, <1>2, <1>3, ConstantFacts, Zenon DEF TxInv, BackupOK, Untouched,
         Recoverable
<1>16. TxInv(x)'
  BY <1>8, <1>9, <1>10, <1>11, <1>12, <1>13, <1>14, <1>15, Zenon DEF TxInv
<1>17. OneHelper'
  BY <1>2 DEF IInv, OneHelper
<1> QED
  BY <1>2, <1>3, <1>16, <1>17, OneTransaction, Zenon

\* The five ways to finalize keep the invariant.
LEMMA FinalizeSteps ==
  ASSUME IInv, TypeOK', NEW x \in Tx, NEW a \in Attempt,
         \/ a = 1 /\ (FinalizeConflicted(x) \/ FinalizeNoop(x))
         \/ FinalizeApplied(x, a)
         \/ FinalizeRolledBack(x, a)
         \/ FinalizeRecoveryRequired(x, a)
  PROVE  IInv'
<1>1. TxInv(x) /\ HostOK(x, a)
  BY Zenon DEF IInv, TxInv
<1>2. CASE a = 1 /\ (FinalizeConflicted(x) \/ FinalizeNoop(x))
  <2>1. PICK q \in {"stopped", "throw"} : pc' = [pc EXCEPT ![x][1] = q]
    BY <1>2, Zenon DEF FinalizeConflicted, FinalizeNoop, Goes
  <2>2. PICK outcome \in {"applied", "rolled_back"} : Finalize(x, 1, outcome, "completed")
    BY <1>2, Zenon DEF FinalizeConflicted, FinalizeNoop
  <2>3. /\ attempt[x][1] = "active" /\ state[x] \in Recoverable
        /\ pc[x][1] \in {"conflicted", "noop"}
    BY <1>2, Zenon DEF FinalizeConflicted, FinalizeNoop, Live, Recoverable
  <2>4. ~HasPlan(x)
    BY <1>1, <2>3, Zenon DEF TxInv, PlanOK, EarlyPc
  <2>5. /\ \A f \in File : Untouched(x, f) /\ <<x, f>> \notin wrote
        /\ \A f \in File : row[x][f] = "none"
    BY <1>1, <2>4, NoPlan, Zenon DEF Untouched, HasPlan
  <2> QED
    BY <1>2, <2>1, <2>2, <2>3, <2>5, FinalizeKeeps, Zenon
<1>3. CASE FinalizeApplied(x, a)
  <2>1. PICK q \in {"cleanup", OnError(x, a)} : pc' = [pc EXCEPT ![x][a] = q]
    BY <1>3, Zenon DEF FinalizeApplied, Goes
  <2>2. /\ Finalize(x, a, "applied", "completed") /\ attempt[x][a] = "active"
        /\ pc[x][a] = "finalize" /\ Committed(x)
    BY <1>3, Zenon DEF FinalizeApplied, Live
  <2>3. /\ state[x] \in Recoverable
        /\ \A f \in File : row[x][f] # "none" => row[x][f] = "committed"
    BY <2>2, Zenon DEF Committed, Recorded, Recoverable
  <2>4. \A f \in File : row[x][f] # "none" => <<x, f>> \in wrote
    BY <1>1, <2>3, Zenon DEF TxInv, WrittenOK
  <2>5. HasPlan(x)
    BY <1>1, <2>2, Zenon DEF HostOK, LatePc
  <2>6. q = "cleanup" \/ q = "stopped" \/ (q = "throwCommit" /\ a = 1)
    BY <2>2, OnErrorCases, Zenon
  <2> QED
    BY <2>1, <2>2, <2>3, <2>4, <2>5, <2>6, FinalizeKeeps, Zenon
<1>4. CASE FinalizeRolledBack(x, a)
  <2>1. /\ pc' = [pc EXCEPT ![x][a] = "stopped"] /\ pc[x][a] = "rollback"
        /\ Finalize(x, a, "rolled_back", "completed") /\ attempt[x][a] = "active"
        /\ state[x] \in Recoverable
    BY <1>4, Zenon DEF FinalizeRolledBack, Live
  <2>2. \A f \in File : Untouched(x, f)
    BY <1>1, <2>1, Zenon DEF TxInv, RollbackOK
  <2> QED
    BY <2>1, <2>2, FinalizeKeeps, Zenon
<1>5. CASE FinalizeRecoveryRequired(x, a)
  BY <1>5, FinalizeKeeps, Zenon DEF FinalizeRecoveryRequired, Live
<1> QED
  BY <1>2, <1>3, <1>4, <1>5, Zenon

-----------------------------------------------------------------------------
(* The invariant.                                                          *)

\* The invariant holds initially.
LEMMA InitInv == Init => IInv
<1> SUFFICES ASSUME Init PROVE IInv
  BY Zenon
<1>1. TypeOK
  BY TypeInit, Zenon
<1>2. OneHelper
  BY Zenon DEF Init, OneHelper, Alive
<1>3. ASSUME NEW x \in Tx PROVE TxInv(x)
  <2>1. ~HasPlan(x) /\ \A a \in Attempt : ~Engaged(x, a)
    BY Zenon DEF Init, HasPlan, Engaged
  <2>2. AttemptsOK(x) /\ PlanOK(x) /\ FencedOff(x) /\ NotAsked(x) /\ BackupOK(x)
    BY <2>1, Zenon DEF Init, AttemptsOK, PlanOK, FencedOff, NotAsked, BackupOK
  <2>3. WrittenOK(x) /\ NoReturn(x) /\ RollbackOK(x)
    BY ConstantFacts, Zenon DEF Init, WrittenOK, NoReturn, RollbackOK
  <2>4. ASSUME NEW a \in Attempt PROVE HostOK(x, a) /\ FramesOK(x, a) /\ LookedOK(x, a)
    BY Zenon DEF Init, HostOK, FramesOK, LookedOK, ExecutionPc, RecoveryPc, LatePc
  <2> QED
    BY <2>2, <2>3, <2>4, Zenon DEF TxInv
<1> QED
  BY <1>1, <1>2, <1>3, Zenon DEF IInv

\* A step that changes nothing keeps what is said of every transaction.
LEMMA StutterStep ==
  ASSUME IInv, TypeOK', UNCHANGED vars
  PROVE  IInv'
<1> USE DEF vars, storeVars, diskVars, hostVars, helperVars
<1>1. ASSUME NEW y \in Tx PROVE TxInv(y)'
  <2>1. TxInv(y) /\ NoReturn(y)
    BY Zenon DEF IInv, TxInv
  <2> QED
    BY <2>1, OthersKept, Zenon DEF NoReturn
<1>2. OneHelper'
  BY Zenon DEF IInv, OneHelper
<1> QED
  BY <1>1, <1>2, Zenon DEF IInv

\* The steps of an execution.
LEMMA ExecutionInv ==
  ASSUME IInv, TypeOK', NEW x \in Tx, ExecutionStep(x)
  PROVE  IInv'
<1>1. 1 \in Attempt
  BY ConstantFacts, Zenon
<1>2. CASE ListPending(x) \/ CatchUnplanned(x) \/ CatchBroken(x)
  BY <1>1, <1>2, ListPendingStep, CatchUnplannedStep, CatchBrokenStep, Zenon
<1>3. CASE \E next \in {"conflicted", "noop"} : PlanEnds(x, next)
  BY <1>1, <1>3, PlanEndsStep, Zenon
<1>4. CASE \E y \in Tx : PassOver(x, y)
  BY <1>4, IdleSteps, Zenon
<1>5. CASE Begin(x)
  BY <1>5, BeginStep, Zenon
<1>6. CASE \E files \in (SUBSET File) \ {{}} : ReadPlan(x, files)
  BY <1>6, ReadPlanStep, Zenon
<1>7. CASE FinalizeConflicted(x) \/ FinalizeNoop(x)
  BY <1>1, <1>7, FinalizeSteps, Zenon
<1>8. CASE RecordPlan(x)
  BY <1>8, RecordPlanStep, Zenon
<1>9. CASE MarkPrepared(x) \/ BeginCommit(x)
  BY <1>1, <1>9, ProgressStep, Zenon
<1>10. CASE Aborted(x) \/ CatchCleanly(x)
  BY <1>1, <1>10, CatchStep, Zenon
<1> QED
  BY <1>2, <1>3, <1>4, <1>5, <1>6, <1>7, <1>8, <1>9, <1>10, Zenon DEF ExecutionStep

\* The steps of a host, an execution's or a recovery's.
LEMMA HostInv ==
  ASSUME IInv, TypeOK', NEW x \in Tx, NEW a \in Attempt, HostStep(x, a)
  PROVE  IInv'
<1>1. CASE a = 1 /\ ExecutionStep(x)
  BY <1>1, ExecutionInv, Zenon
<1>2. CASE a # 1 /\ RecoveryStep(x, a)
  BY <1>2, InspectStep, ReconcileStep, UndoStep, Zenon DEF RecoveryStep
<1>3. CASE Acquire(x, a) \/ SendCommit(x, a) \/ CommitDone(x, a) \/ Throws(x, a)
  BY <1>3, AcquireStep, SendCommitStep, CommitDoneStep, ThrowsStep, Zenon
<1>4. CASE Prepare(x, a) \/ CleanUp(x, a)
  BY <1>4, PrepareStep, CleanUpStep, Zenon
<1>5. CASE \E f \in File : RecordCommitted(x, a, f) \/ RecordFails(x, a, f)
  BY <1>5, RecordCommittedStep, RecordFailsStep, Zenon
<1>6. CASE FinalizeApplied(x, a) \/ FinalizeRolledBack(x, a)
           \/ FinalizeRecoveryRequired(x, a)
  BY <1>6, FinalizeSteps, Zenon
<1> QED
  BY <1>1, <1>2, <1>3, <1>4, <1>5, <1>6, Zenon DEF HostStep

\* The steps of a helper, and the death of a host.
LEMMA HelperInv ==
  ASSUME IInv, TypeOK', NEW x \in Tx, NEW a \in Attempt,
         HostDies(x, a) \/ HelperFails(x, a) \/ \E f \in File : CommitFile(x, a, f)
  PROVE  IInv'
<1>1. CASE HostDies(x, a) \/ HelperDies(x, a)
  BY <1>1, HostDiesStep, HelperDiesStep, Zenon
<1>2. CASE \E f \in File, torn \in BOOLEAN : PrepareStops(x, a, f, torn)
  BY <1>2, PrepareStopsStep, Zenon
<1>3. CASE \E f \in File : CleanupStops(x, a, f)
  BY <1>3, CleanupStopsStep, Zenon
<1>4. CASE \E f \in File : CommitFile(x, a, f)
  BY <1>4, CommitStep, Zenon
<1> QED
  BY <1>1, <1>2, <1>3, <1>4, Zenon DEF HelperFails

\* Every step preserves the inductive invariant.
LEMMA InvStep == IInv /\ [Next]_vars => IInv'
<1> SUFFICES ASSUME IInv, [Next]_vars PROVE IInv'
  BY Zenon
<1>1. TypeOK'
  BY TypeStep, Zenon DEF IInv
<1>2. ASSUME NEW x \in Tx, NEW a \in Attempt, HostStep(x, a) PROVE IInv'
  BY <1>1, <1>2, HostInv, Zenon
<1>3. ASSUME NEW x \in Tx, NEW a \in Attempt,
             HostDies(x, a) \/ HelperFails(x, a) \/ \E f \in File : CommitFile(x, a, f)
      PROVE  IInv'
  BY <1>1, <1>3, HelperInv, Zenon
<1>4. ASSUME NEW x \in Tx,
             \/ \E a \in Recovery : ClaimRecovery(x, a)
             \/ \E f \in File : CleanTerminal(x, f)
             \/ LeaseLapses(x)
      PROVE  IInv'
  BY <1>1, <1>4, ClaimStep, IdleSteps, Zenon
<1>5. CASE \E f \in File : ExternalEdit(f)
  BY <1>1, <1>5, EditStep, Zenon
<1>6. CASE UNCHANGED vars
  BY <1>1, <1>6, StutterStep, Zenon
<1> QED
  BY <1>2, <1>3, <1>4, <1>5, <1>6, Zenon DEF Next

-----------------------------------------------------------------------------
(* Every step is one of the abstract change, or stutters.                  *)

\* The outcome that stands for a state, before and after a step.
LEMMA OutcomeCases ==
  ASSUME NEW x
  PROVE  /\ state[x] = "applied" => Outcome(x) = "applied"
         /\ state[x] = "rolled_back" => Outcome(x) = "undone"
         /\ state[x] \notin {"applied", "rolled_back"} => Outcome(x) = "open"
         /\ state'[x] = "applied" => Outcome(x)' = "applied"
         /\ state'[x] = "rolled_back" => Outcome(x)' = "undone"
         /\ state'[x] \notin {"applied", "rolled_back"} => Outcome(x)' = "open"
BY Zenon DEF Outcome

\* nothing an outside observer sees of a transaction changes
Quiet(y) ==
  /\ state'[y] = "applied" <=> state[y] = "applied"
  /\ state'[y] = "rolled_back" <=> state[y] = "rolled_back"
  /\ \A f \in File : row'[y][f] = "none" <=> row[y][f] = "none"

\* Such a step stutters.
LEMMA QuietStutters ==
  ASSUME \A y \in Tx : Quiet(y), UNCHANGED wrote
  PROVE  UNCHANGED Change!vars
<1>1. \A y \in Tx : Outcome(y)' = Outcome(y)
  BY OutcomeCases DEF Quiet
<1>2. \A y \in Tx : Recorded(y)' = Recorded(y)
  BY Zenon DEF Quiet, Recorded
<1> QED
  BY <1>1, <1>2, Zenon DEF Change!vars

\* All but six actions are quiet.
LEMMA QuietSteps ==
  ASSUME TypeOK, [Next]_vars
  PROVE  \/ (\A y \in Tx : Quiet(y)) /\ UNCHANGED wrote
         \/ \E x \in Tx : RecordPlan(x) \/ FinalizeConflicted(x) \/ FinalizeNoop(x)
         \/ \E x \in Tx, a \in Attempt :
              \/ FinalizeApplied(x, a)
              \/ FinalizeRolledBack(x, a)
              \/ \E f \in File : CommitFile(x, a, f)
<1> USE DEF storeVars, diskVars, hostVars, helperVars
<1>1. ASSUME UNCHANGED <<state, row, wrote>>
      PROVE  (\A y \in Tx : Quiet(y)) /\ UNCHANGED wrote
  BY <1>1, Zenon DEF Quiet
<1>2. ASSUME NEW x \in Tx, NEW s, s \notin Terminal, state[x] \notin Terminal,
             state' = [state EXCEPT ![x] = s], UNCHANGED wrote,
             \A y \in Tx, f \in File : row'[y][f] = "none" <=> row[y][f] = "none"
      PROVE  (\A y \in Tx : Quiet(y)) /\ UNCHANGED wrote
  BY <1>2, Zenon DEF Quiet, TypeOK, Terminal
<1>3. ASSUME NEW x \in Tx, ExecutionStep(x), ~RecordPlan(x), ~FinalizeConflicted(x),
             ~FinalizeNoop(x)
      PROVE  (\A y \in Tx : Quiet(y)) /\ UNCHANGED wrote
  <2>1. CASE Begin(x)
    BY <1>2, <2>1, Zenon DEF Begin, Terminal
  <2>2. CASE MarkPrepared(x)
    <3>1. \A y \in Tx, f \in File : row'[y][f] = "none" <=> row[y][f] = "none"
      BY <2>2, Zenon DEF MarkPrepared, TypeOK
    <3> QED
      BY <1>2, <2>2, <3>1, Zenon DEF MarkPrepared, Terminal
  <2>3. CASE BeginCommit(x)
    BY <1>2, <2>3, Zenon DEF BeginCommit, Terminal
  <2>4. CASE UNCHANGED <<state, row, wrote>>
    BY <1>1, <2>4, Zenon
  <2> QED
    BY <1>3, <2>1, <2>2, <2>3, <2>4, Zenon DEF ExecutionStep, ListPending,
           PassOver, ReadPlan, PlanEnds, Aborted, CatchUnplanned, CatchCleanly,
           CatchBroken, RemoveArtifacts, RemoveUpTo
<1>4. ASSUME NEW x \in Tx, NEW a \in Attempt, Reconcile(x, a)
      PROVE  (\A y \in Tx : Quiet(y)) /\ UNCHANGED wrote
  <2>1. PICK s : s \notin Terminal /\ state' = [state EXCEPT ![x] = s]
    <3>1. CASE Decision(x, a) = "attention"
      BY <1>4, <3>1, Zenon DEF Reconcile, Terminal
    <3>2. CASE Decision(x, a) # "attention"
      <4>1. state' = [state EXCEPT ![x] = state[x]] /\ state[x] \notin Terminal
        BY <1>4, <3>2, Zenon DEF Reconcile, Terminal, Recoverable
      <4> QED
        BY <4>1, Zenon
    <3> QED
      BY <3>1, <3>2, Zenon
  <2>2. \A y \in Tx, f \in File : row'[y][f] = "none" <=> row[y][f] = "none"
    BY <1>4, Zenon DEF Reconcile, TypeOK
  <2>3. state[x] \notin Terminal /\ UNCHANGED wrote
    BY <1>4, Zenon DEF Reconcile, Recoverable, Terminal
  <2> QED
    BY <1>2, <2>1, <2>2, <2>3, Zenon
<1>5. ASSUME NEW x \in Tx, NEW a \in Attempt, NEW f \in File, RecordCommitted(x, a, f)
      PROVE  (\A y \in Tx : Quiet(y)) /\ UNCHANGED wrote
  <2>1. row' = [row EXCEPT ![x][f] = "committed"] /\ row[x][f] # "none"
        /\ UNCHANGED <<state, wrote>>
    BY <1>5, Zenon DEF RecordCommitted
  <2> QED
    BY <2>1, Zenon DEF Quiet, TypeOK
<1>6. ASSUME NEW x \in Tx, NEW a \in Attempt, HostStep(x, a),
             ~RecordPlan(x), ~FinalizeConflicted(x), ~FinalizeNoop(x),
             ~FinalizeApplied(x, a), ~FinalizeRolledBack(x, a)
      PROVE  (\A y \in Tx : Quiet(y)) /\ UNCHANGED wrote
  <2>1. CASE ExecutionStep(x)
    BY <1>3, <1>6, <2>1, Zenon
  <2>2. CASE Reconcile(x, a) \/ \E f \in File : RecordCommitted(x, a, f)
    BY <1>4, <1>5, <1>6, <2>2, Zenon
  <2>3. CASE FinalizeRecoveryRequired(x, a)
    BY <1>2, <2>3, Zenon DEF FinalizeRecoveryRequired, Finalize, Recoverable,
           Terminal
  <2>4. CASE UNCHANGED <<state, row, wrote>>
    BY <1>1, <2>4, Zenon
  <2>5. CASE \/ Inspect(x, a) \/ Undo(x, a) \/ Acquire(x, a) \/ Prepare(x, a)
             \/ SendCommit(x, a) \/ (\E f \in File : RecordFails(x, a, f))
             \/ CommitDone(x, a) \/ CleanUp(x, a) \/ Throws(x, a)
    <3>1. UNCHANGED <<state, row, wrote>>
      BY <2>5, Zenon DEF Inspect, Undo, Acquire, Prepare, SendCommit, RecordFails,
             CommitDone, CleanUp, Throws, RemoveArtifacts, RemoveUpTo
    <3> QED
      BY <1>1, <3>1, Zenon
  <2> QED
    BY <1>6, <2>1, <2>2, <2>3, <2>5, Zenon DEF HostStep, RecoveryStep
<1>7. ASSUME NEW x \in Tx, NEW a \in Attempt, HostDies(x, a) \/ HelperFails(x, a)
      PROVE  UNCHANGED <<state, row, wrote>>
  BY <1>7, Zenon DEF HostDies, HelperFails, PrepareStops, CleanupStops,
         HelperDies, RemoveUpTo
<1>8. ASSUME NEW x \in Tx,
             \/ \E a \in Recovery : ClaimRecovery(x, a)
             \/ \E f \in File : CleanTerminal(x, f)
             \/ LeaseLapses(x)
             \/ \E f \in File : ExternalEdit(f)
      PROVE  UNCHANGED <<state, row, wrote>>
  BY <1>8, Zenon DEF ClaimRecovery, CleanTerminal, LeaseLapses, ExternalEdit,
         RemoveUpTo
<1>9. CASE \E f \in File : ExternalEdit(f)
  BY <1>1, <1>9, Zenon DEF ExternalEdit
<1>10. CASE UNCHANGED vars
  BY <1>1, <1>10, Zenon DEF vars
<1> QED
  BY <1>1, <1>6, <1>7, <1>8, <1>9, <1>10, Zenon DEF Next

\* record_workspace_change_transaction_plan is Plan.
LEMMA PlanRefines ==
  ASSUME IInv, NEW x \in Tx, RecordPlan(x)
  PROVE  Change!Next
<1> USE DEF storeVars, diskVars, hostVars, helperVars
<1>1. /\ UNCHANGED <<state, wrote>> /\ state[x] = "planning"
      /\ row' = [row EXCEPT ![x] = [f \in File |->
                   IF f \in Planned(x) THEN "pending" ELSE "none"]]
  BY Zenon DEF RecordPlan
<1>2. Recorded(x) = {}
  BY Zenon DEF IInv, TxInv, PlanOK, RecordPlan, EarlyPc, HasPlan, Recorded
<1>3. Recorded(x)' = Planned(x) /\ Planned(x) \in SUBSET File
  BY <1>1, Zenon DEF IInv, TypeOK, Recorded, Planned
<1>4. \A y \in Tx : y # x => Recorded(y)' = Recorded(y)
  BY <1>1, Zenon DEF IInv, TypeOK, Recorded
<1>5. Outcome(x) = "open" /\ \A y \in Tx : Outcome(y)' = Outcome(y)
  BY <1>1, OutcomeCases, Zenon DEF Outcome
<1>6. Change!Plan(x, Planned(x))
  BY <1>1, <1>2, <1>3, <1>4, <1>5, Zenon DEF Change!Plan
<1> QED
  BY <1>3, <1>6, Zenon DEF Change!Next

\* commit_files is Replace, file by file.
LEMMA ReplaceRefines ==
  ASSUME IInv, NEW x \in Tx, NEW a \in Attempt, NEW f \in File, CommitFile(x, a, f)
  PROVE  Change!Next
<1> USE DEF storeVars, diskVars, hostVars, helperVars
<1>1. TxInv(x) /\ helper[x][a] = "committing" /\ f \in Planned(x) /\ UNCHANGED <<state, row>>
  BY Zenon DEF IInv, CommitFile
<1>2. state[x] \notin Terminal /\ f \in Recorded(x)
  BY <1>1, Zenon DEF TxInv, FencedOff, Engaged, HostOK, PlanOK, Planned, Recorded
<1>3. wrote' = wrote \cup {<<x, f>>}
  <2>1. CASE Class(x, f) = "after" /\ UNCHANGED wrote
    BY <1>1, <2>1, ClassCases, Zenon DEF TxInv, WrittenOK
  <2> QED
    BY <2>1, CommitChanges, Zenon
<1>4. /\ Outcome(x) = "open"
      /\ \A y \in Tx : Outcome(y)' = Outcome(y) /\ Recorded(y)' = Recorded(y)
  <2>1. Outcome(x) = "open"
    BY <1>2, OutcomeCases, Zenon DEF Terminal
  <2>2. \A y \in Tx : Outcome(y)' = Outcome(y)
    BY <1>1, OutcomeCases, Zenon
  <2> QED
    BY <1>1, <2>1, <2>2, Zenon DEF Recorded
<1>5. Change!Replace(x, f)
  BY <1>2, <1>3, <1>4, Zenon DEF Change!Replace
<1> QED
  BY <1>5, Zenon DEF Change!Next

\* A finalization as applied is Apply, one as rolled back Undo.
LEMMA EndRefines ==
  ASSUME IInv, IInv', ~External, NEW x \in Tx, NEW o \in Terminal,
         state[x] \notin Terminal, state' = [state EXCEPT ![x] = o], UNCHANGED <<row, wrote>>
  PROVE  Change!Next
<1>1. /\ state'[x] = o /\ \A y \in Tx : y # x => state'[y] = state[y]
      /\ TxInv(x) /\ TxInv(x)'
  BY Zenon DEF IInv, TypeOK
<1>2. \A y \in Tx : Recorded(y)' = Recorded(y)
  BY Zenon DEF Recorded
<1>3. Outcome(x) = "open" /\ \A y \in Tx : y # x => Outcome(y)' = Outcome(y)
  BY <1>1, OutcomeCases, Zenon DEF Terminal
<1>4. CASE o = "applied"
  <2>1. {f \in File : <<x, f>> \in wrote} = Recorded(x)
    BY <1>1, <1>4, Zenon DEF TxInv, WrittenOK, Recorded
  <2>2. Outcome(x)' = "applied"
    BY <1>1, <1>4, OutcomeCases, Zenon
  <2>3. Change!Apply(x)
    BY <1>2, <1>3, <2>1, <2>2, Zenon DEF Change!Apply
  <2> QED
    BY <2>3, Zenon DEF Change!Next
<1>5. CASE o = "rolled_back"
  <2>1. {f \in File : <<x, f>> \in wrote} = {}
    BY <1>1, <1>5, Zenon DEF TxInv, RollbackOK, Untouched
  <2>2. Outcome(x)' = "undone"
    BY <1>1, <1>5, OutcomeCases, Zenon
  <2>3. Change!Undo(x)
    BY <1>2, <1>3, <2>1, <2>2, Zenon DEF Change!Undo
  <2> QED
    BY <2>3, Zenon DEF Change!Next
<1> QED
  BY <1>4, <1>5, Zenon DEF Terminal

\* Every step is a step of the abstract change or a stutter.
LEMMA StepRefines ==
  ASSUME IInv, IInv', ~External, [Next]_vars
  PROVE  [Change!Next]_(Change!vars)
<1>1. CASE (\A y \in Tx : Quiet(y)) /\ UNCHANGED wrote
  BY <1>1, QuietStutters, Zenon
<1>2. CASE \E x \in Tx : RecordPlan(x)
  BY <1>2, PlanRefines, Zenon
<1>3. CASE \E x \in Tx, a \in Attempt, f \in File : CommitFile(x, a, f)
  BY <1>3, ReplaceRefines, Zenon
<1>4. ASSUME NEW x \in Tx, NEW a \in Attempt,
             \/ FinalizeConflicted(x) \/ FinalizeNoop(x)
             \/ FinalizeApplied(x, a) \/ FinalizeRolledBack(x, a)
      PROVE  Change!Next
  <2>1. PICK o \in Terminal : state' = [state EXCEPT ![x] = o]
    BY <1>4, Zenon DEF FinalizeConflicted, FinalizeNoop, FinalizeApplied,
           FinalizeRolledBack, Finalize, Terminal
  <2>2. state[x] \notin Terminal /\ UNCHANGED <<row, wrote>>
    BY <1>4, Zenon DEF FinalizeConflicted, FinalizeNoop, FinalizeApplied,
           FinalizeRolledBack, Finalize, Committed, Terminal, Recoverable,
           diskVars
  <2> QED
    BY <2>1, <2>2, EndRefines, Zenon
<1> QED
  BY <1>1, <1>2, <1>3, <1>4, QuietSteps, ConstantFacts, Zenon DEF IInv

\* The initial states correspond.
LEMMA InitRefines == Init => Change!Init
<1> SUFFICES ASSUME Init PROVE Change!Init
  BY Zenon
<1>1. \A x \in Tx : Outcome(x) = "open"
  BY OutcomeCases, Zenon DEF Init
<1>2. \A x \in Tx : Recorded(x) = {}
  BY Zenon DEF Init, Recorded
<1> QED
  BY <1>1, <1>2, Zenon DEF Init, Change!Init

-----------------------------------------------------------------------------
(* The theorems.                                                           *)

\* Every reachable state of hosts, helpers, store and files satisfies the inductive
\* invariant: one helper at a time, the plan fixed before anything is replaced, and
\* nothing replaced once somebody has decided on the outcome
THEOREM ChangeInvariant == Spec => []IInv
<1>1. Init => IInv
  BY InitInv, Zenon
<1>2. IInv /\ [Next]_vars => IInv'
  BY InvStep, Zenon
<1> QED
  BY <1>1, <1>2, PTL DEF Spec

\* AppliedWhole for any number of transactions, files and attempts: a transaction the
\* store reports as applied has replaced every file of its recorded plan
THEOREM AppliedIsWhole == Spec => []AppliedWhole
<1>1. IInv => AppliedWhole
  BY Zenon DEF IInv, TxInv, WrittenOK, AppliedWhole
<1> QED
  BY <1>1, ChangeInvariant, PTL

\* RolledBackLeavesNothing likewise: after a finalization as rolled back no file holds
\* the content of the transaction, whether or not others edit files
THEOREM RollbackIsClean == Spec => []RolledBackLeavesNothing
<1>1. IInv => RolledBackLeavesNothing
  BY Zenon DEF IInv, TxInv, RollbackOK, Untouched, RolledBackLeavesNothing
<1> QED
  BY <1>1, ChangeInvariant, PTL

\* BackupKept likewise, when nobody else edits files: cleanup_files never removes the
\* backup of a removed file before the transaction is applied
THEOREM BackupsSurvive ==
  ASSUME ~External
  PROVE  Spec => []BackupKept
<1>1. IInv => BackupKept
  BY Zenon DEF IInv, TxInv, BackupOK, BackupKept
<1> QED
  BY <1>1, ChangeInvariant, PTL

\* NoLateWrite likewise: no helper, not even one whose attempt has been replaced,
\* writes a file for a transaction that is terminal
THEOREM NoWriteAfterEnd == Spec => NoLateWrite
<1>1. ASSUME IInv, Next
      PROVE  \A x \in Tx, f \in File :
               state[x] \in Terminal /\ content'[f] = x => content[f] = x
  <2> SUFFICES ASSUME NEW x \in Tx, NEW f \in File, state[x] \in Terminal, content'[f] = x
               PROVE  content[f] = x
    BY Zenon
  <2>1. CASE UNCHANGED content
    BY <2>1, Zenon
  <2>2. ASSUME NEW y \in Tx, NEW a \in Attempt, NEW g \in File, CommitFile(y, a, g)
        PROVE  content[f] = x
    <3>1. state[y] \notin Terminal
      BY <1>1, <2>2, Zenon DEF IInv, TxInv, FencedOff, Engaged, CommitFile
    <3>2. x # y
      BY <3>1, Zenon
    <3>3. UNCHANGED content \/ content' = [content EXCEPT ![g] = y]
      BY <2>2, CommitChanges, Zenon
    <3> QED
      BY <1>1, <3>2, <3>3, Zenon DEF IInv, TypeOK
  <2>3. ASSUME NEW g \in File, ExternalEdit(g)
        PROVE  content[f] = x
    BY <1>1, <2>3, ConstantFacts, Zenon DEF IInv, TypeOK, ExternalEdit
  <2>4. \/ UNCHANGED content
        \/ \E y \in Tx, a \in Attempt, g \in File : CommitFile(y, a, g)
        \/ \E g \in File : ExternalEdit(g)
    <3> USE DEF storeVars, diskVars, hostVars, helperVars
    <3>1. ASSUME NEW y \in Tx, NEW a \in Attempt, HostStep(y, a)
          PROVE  UNCHANGED content
      BY <3>1, Zenon DEF HostStep, ExecutionStep, RecoveryStep, ListPending,
             PassOver, Begin, ReadPlan, PlanEnds, FinalizeConflicted,
             FinalizeNoop, Finalize, RecordPlan, MarkPrepared, Aborted,
             BeginCommit, CatchUnplanned, CatchCleanly, CatchBroken, Inspect,
             Reconcile, Undo, Acquire, Prepare, SendCommit, RecordCommitted,
             RecordFails, CommitDone, FinalizeApplied, CleanUp, Throws,
             FinalizeRolledBack, FinalizeRecoveryRequired, RemoveArtifacts,
             RemoveUpTo
    <3>2. ASSUME NEW y \in Tx, NEW a \in Attempt, HostDies(y, a) \/ HelperFails(y, a)
          PROVE  UNCHANGED content
      BY <3>2, Zenon DEF HostDies, HelperFails, PrepareStops, CleanupStops,
             HelperDies, RemoveUpTo
    <3>3. ASSUME NEW y \in Tx,
                 \/ \E a \in Recovery : ClaimRecovery(y, a)
                 \/ \E g \in File : CleanTerminal(y, g)
                 \/ LeaseLapses(y)
          PROVE  UNCHANGED content
      BY <3>3, Zenon DEF ClaimRecovery, CleanTerminal, LeaseLapses, RemoveUpTo
    <3> QED
      BY <1>1, <3>1, <3>2, <3>3, Zenon DEF Next
  <2> QED
    BY <2>1, <2>2, <2>3, <2>4, Zenon
<1> QED
  BY <1>1, ChangeInvariant, PTL DEF Spec, NoLateWrite

\* Implements for any number of transactions, files and attempts, when nobody else
\* edits files: hosts, helpers, recoveries and their crashes together make of each
\* transaction one atomic change of all the files of its plan or of none
THEOREM AtomicChanges ==
  ASSUME ~External
  PROVE  Spec => Implements
<1>1. Init => Change!Init
  BY InitRefines, Zenon
<1>2. IInv /\ IInv' /\ [Next]_vars => [Change!Next]_(Change!vars)
  BY StepRefines, Zenon
<1> QED
  BY <1>1, <1>2, ChangeInvariant, PTL DEF Spec, Implements, Change!Spec
=============================================================================
