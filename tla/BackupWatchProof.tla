-------------------------- MODULE BackupWatchProof --------------------------
(***************************************************************************)
(* Proofs about the backup watch, for any names, policies and numbers of   *)
(* backups and changes.                                                    *)
(***************************************************************************)
EXTENDS BackupWatch, TLAPS

BackupOf(n) == [uid : 1..created[n], phase : Phases] \cup {Nil}
BrOf(n)     == [owner : 1..created[n], policy : Policies, phase : {"New", "Replicated"}]
                 \cup {Nil}

\* The variables are functions of the names, which TypeOK leaves unsaid.
FunctionsOK ==
  /\ DOMAIN backup = Backups /\ backup = [n \in Backups |-> backup[n]]
  /\ DOMAIN seenBackup = Backups /\ seenBackup = [n \in Backups |-> seenBackup[n]]
  /\ DOMAIN br = Backups /\ br = [n \in Backups |-> br[n]]
  /\ DOMAIN seenBr = Backups /\ seenBr = [n \in Backups |-> seenBr[n]]
  /\ DOMAIN everCompleted = Backups /\ everCompleted = [n \in Backups |-> everCompleted[n]]
  /\ DOMAIN policy = Policies /\ policy = [p \in Policies |-> policy[p]]
  /\ DOMAIN seenPolicy = Policies /\ seenPolicy = [p \in Policies |-> seenPolicy[p]]

\* A backup that is Completed, or that its copy says to be, has been so, and
\* a BackupReplication is owned by one that has been.
CompletedOK ==
  \A n \in Backups :
    /\ backup[n] # Nil /\ backup[n].phase = "Completed" => backup[n].uid \in everCompleted[n]
    /\ seenBackup[n] # Nil /\ seenBackup[n].phase = "Completed" =>
          seenBackup[n].uid \in everCompleted[n]
    /\ br[n] # Nil => br[n].owner \in everCompleted[n]

Inv == TypeOK /\ FunctionsOK /\ CompletedOK

LEMMA InvInit == Init => Inv
<1> SUFFICES ASSUME Init PROVE Inv
  OBVIOUS
<1>1. TypeOK
  BY BoundsAssumption DEF Init, TypeOK
<1>2. FunctionsOK /\ CompletedOK
  BY DEF Init, FunctionsOK, CompletedOK
<1>3. QED BY <1>1, <1>2 DEF Inv

LEMMA PhaseAfterType == ASSUME NEW ph PROVE PhaseAfter(ph) \subseteq Phases
  BY DEF PhaseAfter, Phases

\* What TypeOK says name by name.
LEMMA TypeFacts ==
  TypeOK <=>
    /\ created \in [Backups -> 0..MaxCreated]
    /\ \A n \in Backups : /\ backup[n] \in BackupOf(n) /\ seenBackup[n] \in BackupOf(n)
                          /\ br[n] \in BrOf(n) /\ seenBr[n] \in BrOf(n)
                          /\ everCompleted[n] \subseteq 1..created[n]
    /\ \A p \in Policies : policy[p] \in Specs[p] /\ seenPolicy[p] \in Specs[p]
    /\ synced \subseteq Backups /\ queue \subseteq Backups /\ changes \in 0..MaxChanges
  BY DEF TypeOK, BackupOf, BrOf

LEMMA InvStep == Inv /\ [Next]_vars => Inv'
<1> SUFFICES ASSUME Inv, [Next]_vars PROVE Inv'
  OBVIOUS
<1> USE DEF veleroVars, cacheVars
<1>t. /\ created \in [Backups -> 0..MaxCreated]
      /\ \A n \in Backups : /\ backup[n] \in BackupOf(n) /\ seenBackup[n] \in BackupOf(n)
                            /\ br[n] \in BrOf(n) /\ seenBr[n] \in BrOf(n)
                            /\ everCompleted[n] \subseteq 1..created[n]
      /\ \A p \in Policies : policy[p] \in Specs[p] /\ seenPolicy[p] \in Specs[p]
      /\ synced \subseteq Backups /\ queue \subseteq Backups /\ changes \in 0..MaxChanges
  BY TypeFacts DEF Inv
<1>f. FunctionsOK /\ CompletedOK
  BY DEF Inv
<1>1. ASSUME NEW n \in Backups, CreateBackup(n) PROVE Inv'
  <2> DEFINE o == [uid |-> created'[n], phase |-> "New"]
  <2>1. /\ created' \in [Backups -> 0..MaxCreated] /\ created'[n] = created[n] + 1
        /\ created'[n] \in 1 .. created'[n]
        /\ \A m \in Backups : 1 .. created[m] \subseteq 1 .. created'[m]
    BY <1>t, <1>1, BoundsAssumption DEF CreateBackup
  <2>2. \A m \in Backups : BackupOf(m) \subseteq BackupOf(m)' /\ BrOf(m) \subseteq BrOf(m)'
    BY <2>1 DEF BackupOf, BrOf
  <2>3. o \in BackupOf(n)'
    BY <2>1 DEF BackupOf, Phases
  <2>4. /\ backup' = [backup EXCEPT ![n] = o] /\ o.phase # "Completed"
        /\ UNCHANGED <<everCompleted, cacheVars, policy, br, synced, queue, changes>>
    BY <1>1 DEF CreateBackup
  <2> HIDE DEF o
  <2>5. \A m \in Backups : backup'[m] = IF m = n THEN o ELSE backup[m]
    BY <1>f, <2>4 DEF FunctionsOK
  <2>6. TypeOK'
    <3>1. \A m \in Backups : /\ backup'[m] \in BackupOf(m)' /\ seenBackup'[m] \in BackupOf(m)'
                             /\ br'[m] \in BrOf(m)' /\ seenBr'[m] \in BrOf(m)'
                             /\ everCompleted'[m] \subseteq 1..created'[m]
      BY <1>t, <2>1, <2>2, <2>3, <2>4, <2>5
    <3>2. QED BY <1>t, <2>1, <2>4, <3>1 DEF TypeOK, BackupOf, BrOf
  <2>7. FunctionsOK'
    BY <1>f, <2>4 DEF FunctionsOK
  <2>8. CompletedOK'
    BY <1>f, <2>4, <2>5 DEF CompletedOK
  <2>9. QED BY <2>6, <2>7, <2>8 DEF Inv
\* In every other step no backup is created.
<1> DEFINE Rest == /\ \A n \in Backups :
                        /\ backup'[n] \in BackupOf(n) /\ seenBackup'[n] \in BackupOf(n)
                        /\ br'[n] \in BrOf(n) /\ seenBr'[n] \in BrOf(n)
                        /\ everCompleted'[n] \subseteq 1..created[n]
                   /\ \A p \in Policies : policy'[p] \in Specs[p] /\ seenPolicy'[p] \in Specs[p]
                   /\ synced' \subseteq Backups /\ queue' \subseteq Backups
                   /\ changes' \in 0..MaxChanges
<1>r. ASSUME created' = created, Rest PROVE TypeOK'
  BY <1>t, <1>r DEF TypeOK, BackupOf, BrOf
<1>2. ASSUME NEW n \in Backups, AdvanceBackup(n) PROVE Inv'
  <2>1. PICK ph \in PhaseAfter(backup[n].phase) :
          /\ backup' = [backup EXCEPT ![n].phase = ph]
          /\ everCompleted' = IF ph = "Completed"
                                THEN [everCompleted EXCEPT ![n] = @ \cup {backup[n].uid}]
                                ELSE everCompleted
    BY <1>2 DEF AdvanceBackup
  <2> DEFINE o == [backup[n] EXCEPT !.phase = ph]
  <2>2. /\ backup[n] # Nil /\ backup[n] \in [uid : 1..created[n], phase : Phases]
        /\ ph \in Phases
    BY <1>t, <1>2, PhaseAfterType DEF AdvanceBackup, BackupOf
  <2>3. /\ o \in BackupOf(n) /\ o.phase = ph /\ o.uid = backup[n].uid
        /\ backup[n].uid \in 1 .. created[n]
    BY <2>2 DEF BackupOf
  <2>4. /\ UNCHANGED <<created, cacheVars, policy, br, synced, queue, changes>>
        /\ backup' = [backup EXCEPT ![n] = o]
    BY <1>2, <2>1 DEF AdvanceBackup
  <2> HIDE DEF o
  <2>5. /\ \A m \in Backups : backup'[m] = IF m = n THEN o ELSE backup[m]
        /\ \A m \in Backups : everCompleted[m] \subseteq everCompleted'[m]
        /\ \A m \in Backups : everCompleted'[m] \subseteq 1 .. created[m]
        /\ ph = "Completed" => backup[n].uid \in everCompleted'[n]
    BY <1>t, <1>f, <2>1, <2>3, <2>4 DEF FunctionsOK
  <2>6. Rest
    BY <1>t, <2>3, <2>4, <2>5
  <2>7. FunctionsOK'
    BY <1>f, <2>1, <2>4 DEF FunctionsOK
  <2>8. CompletedOK'
    BY <1>f, <2>3, <2>4, <2>5 DEF CompletedOK
  <2>9. QED BY <1>r, <2>4, <2>6, <2>7, <2>8 DEF Inv
<1>3. ASSUME NEW n \in Backups, DeleteBackup(n) PROVE Inv'
  <2>1. \A m \in Backups : backup'[m] \in {Nil, backup[m]}
    BY <1>f, <1>3 DEF DeleteBackup, FunctionsOK
  <2>2. Rest
    BY <1>t, <1>3, <2>1 DEF DeleteBackup, BackupOf
  <2>3. FunctionsOK' /\ CompletedOK'
    BY <1>f, <1>3, <2>1 DEF DeleteBackup, FunctionsOK, CompletedOK
  <2>4. QED BY <1>r, <1>3, <2>2, <2>3 DEF DeleteBackup, Inv
<1>4. ASSUME NEW n \in Backups, CollectGarbage(n) PROVE Inv'
  <2>1. \A m \in Backups : br'[m] \in {Nil, br[m]}
    BY <1>f, <1>4 DEF CollectGarbage, FunctionsOK
  <2>2. Rest
    BY <1>t, <1>4, <2>1 DEF CollectGarbage, BrOf
  <2>3. FunctionsOK' /\ CompletedOK'
    BY <1>f, <1>4, <2>1 DEF CollectGarbage, FunctionsOK, CompletedOK
  <2>4. QED BY <1>r, <1>4, <2>2, <2>3 DEF CollectGarbage, Inv
<1>4a. ASSUME NEW n \in Backups, FinishReplication(n) PROVE Inv'
  <2> DEFINE o == [br[n] EXCEPT !.phase = "Replicated"]
  <2>1. br[n] \in [owner : 1..created[n], policy : Policies, phase : {"New", "Replicated"}]
    BY <1>t, <1>4a DEF FinishReplication, BrOf
  <2>2. o \in BrOf(n) /\ o.owner = br[n].owner /\ br[n] # Nil
    BY <1>4a, <2>1 DEF FinishReplication, BrOf
  <2>3. /\ br' = [br EXCEPT ![n] = o] /\ synced' \subseteq Backups
        /\ UNCHANGED <<veleroVars, cacheVars, policy, queue, changes>>
    BY <1>t, <1>4a DEF FinishReplication
  <2> HIDE DEF o
  <2>4. \A m \in Backups : br'[m] = IF m = n THEN o ELSE br[m]
    BY <1>f, <2>3 DEF FunctionsOK
  <2>5. Rest
    BY <1>t, <2>2, <2>3, <2>4
  <2>6. FunctionsOK' /\ CompletedOK'
    BY <1>f, <2>2, <2>3, <2>4 DEF FunctionsOK, CompletedOK
  <2>7. QED BY <1>r, <2>3, <2>5, <2>6 DEF Inv
<1>5. ASSUME NEW n \in Backups, SyncBackup(n) PROVE Inv'
  <2>1. \A m \in Backups : seenBackup'[m] \in {backup[m], seenBackup[m]}
    BY <1>f, <1>5 DEF SyncBackup, FunctionsOK
  <2>2. Rest
    BY <1>t, <1>5, <2>1 DEF SyncBackup
  <2>3. FunctionsOK' /\ CompletedOK'
    BY <1>f, <1>5, <2>1 DEF SyncBackup, FunctionsOK, CompletedOK
  <2>4. QED BY <1>r, <1>5, <2>2, <2>3 DEF SyncBackup, Inv
<1>6. ASSUME NEW n \in Backups, SyncBr(n) PROVE Inv'
  <2>1. \A m \in Backups : seenBr'[m] \in {br[m], seenBr[m]}
    BY <1>f, <1>6 DEF SyncBr, FunctionsOK
  <2>2. Rest
    BY <1>t, <1>6, <2>1 DEF SyncBr
  <2>3. FunctionsOK' /\ CompletedOK'
    BY <1>f, <1>6, <2>1 DEF SyncBr, FunctionsOK, CompletedOK
  <2>4. QED BY <1>r, <1>6, <2>2, <2>3 DEF SyncBr, Inv
<1>7. ASSUME NEW n \in Backups, Resync(n) PROVE Inv'
  <2>1. Rest /\ FunctionsOK' /\ CompletedOK'
    BY <1>t, <1>f, <1>7 DEF Resync, FunctionsOK, CompletedOK
  <2>2. QED BY <1>r, <1>7, <2>1 DEF Resync, Inv
\* The only write of Reconcile names the backup it has seen Completed.
<1>8. ASSUME NEW n \in Backups, Reconcile(n) PROVE Inv'
  <2> DEFINE Want(o) ==
               IF seenBr[n] = Nil THEN o
               ELSE [seenBr[n] EXCEPT !.owner = o.owner, !.policy = o.policy]
  <2>a. ASSUME NEW o, CreateOrUpdate(n, o)
        PROVE  /\ queue' \in {queue, queue \ {n}} /\ (changes' = changes \/ Change)
               /\ (UNCHANGED <<br, synced>> \/ Applied(n, Want(o)))
    BY <2>a DEF CreateOrUpdate, Done, Retry
  <2>b. UNCHANGED <<veleroVars, cacheVars, policy>>
    BY <1>8 DEF Reconcile
  <2>c. queue' \in {queue, queue \ {n}} /\ (changes' = changes \/ Change)
    BY <1>8, <2>a DEF Reconcile, Done, Retry
  <2>1. /\ UNCHANGED <<veleroVars, cacheVars, policy>> /\ queue' \subseteq Backups
        /\ changes' \in 0 .. MaxChanges
    BY <1>t, <2>b, <2>c, BoundsAssumption DEF Change
  <2> DEFINE Own(p) == [owner |-> seenBackup[n].uid, policy |-> p, phase |-> "New"]
  <2>2. \/ UNCHANGED <<br, synced>>
        \/ /\ seenBackup[n] # Nil /\ seenBackup[n].phase = "Completed"
           /\ \E p \in Policies : Applied(n, Want(Own(p)))
    <3> HIDE DEF Want
    <3>1. QED BY <1>8, <2>a DEF Reconcile, Eligible, Matches, Considered
  <2>3. CASE UNCHANGED <<br, synced>>
    <3>1. Rest /\ FunctionsOK' /\ CompletedOK'
      BY <1>t, <1>f, <2>1, <2>3 DEF FunctionsOK, CompletedOK
    <3>2. QED BY <1>r, <2>1, <3>1 DEF Inv
  <2>4. ASSUME NEW p \in Policies, seenBackup[n] # Nil, seenBackup[n].phase = "Completed",
               Applied(n, Want(Own(p)))
        PROVE  Inv'
    <3> DEFINE o == Want(Own(p))
    <3>1. /\ seenBackup[n].uid \in 1 .. created[n]
          /\ seenBackup[n].uid \in everCompleted[n]
      BY <1>t, <1>f, <2>4 DEF BackupOf, CompletedOK
    <3>2. o \in BrOf(n) /\ o.owner \in everCompleted[n]
      BY <1>t, <3>1 DEF BrOf
    <3>3. br' = [br EXCEPT ![n] = o] /\ synced' \subseteq Backups
      BY <1>t, <2>4 DEF Applied
    <3> HIDE DEF o
    <3>4. \A m \in Backups : br'[m] = IF m = n THEN o ELSE br[m]
      BY <1>f, <3>3 DEF FunctionsOK
    <3>5. Rest
      BY <1>t, <2>1, <3>2, <3>3, <3>4
    <3>6. FunctionsOK' /\ CompletedOK'
      BY <1>f, <2>1, <3>2, <3>3, <3>4 DEF FunctionsOK, CompletedOK
    <3>7. QED BY <1>r, <2>1, <3>5, <3>6 DEF Inv
  <2>5. QED BY <2>2, <2>3, <2>4
<1>9. ASSUME NEW p \in Policies, ChangePolicy(p) \/ SyncPolicy(p) PROVE Inv'
  <2>1. /\ \A q \in Policies : policy'[q] \in Specs[q] /\ seenPolicy'[q] \in Specs[q]
        /\ changes' \in 0 .. MaxChanges /\ UNCHANGED <<veleroVars, seenBackup, seenBr, br, synced, queue>>
    BY <1>t, <1>f, <1>9, BoundsAssumption DEF ChangePolicy, SyncPolicy, Change, FunctionsOK
  <2>2. Rest
    BY <1>t, <2>1
  <2>3. FunctionsOK'
    BY <1>f, <1>9 DEF ChangePolicy, SyncPolicy, FunctionsOK
  <2>4. CompletedOK'
    BY <1>f, <2>1 DEF CompletedOK
  <2>5. QED BY <1>r, <2>1, <2>2, <2>3, <2>4 DEF Inv
<1>10. CASE Restart
  <2>1. Rest
    BY <1>t, <1>10, BoundsAssumption DEF Restart, Change
  <2>2. FunctionsOK' /\ CompletedOK'
    BY <1>f, <1>10 DEF Restart, FunctionsOK, CompletedOK
  <2>3. QED BY <1>r, <1>10, <2>1, <2>2 DEF Restart, Inv
<1>11. CASE UNCHANGED vars
  <2>1. Rest /\ FunctionsOK' /\ CompletedOK' /\ created' = created
    BY <1>t, <1>f, <1>11 DEF vars, FunctionsOK, CompletedOK
  <2>2. QED BY <1>r, <2>1 DEF Inv
<1>12. QED
  BY <1>1, <1>2, <1>3, <1>4, <1>4a, <1>5, <1>6, <1>7, <1>8, <1>9, <1>10, <1>11 DEF Next

\* Every object and every copy of one refers to a backup that has existed and
\* to a policy, for any names, policies and number of backups of a name.
THEOREM TypeCorrect == Spec => []TypeOK
<1>1. Inv => TypeOK
  BY DEF Inv
<1>2. QED BY <1>1, InvInit, InvStep, PTL DEF Spec

\* A BackupReplication belongs to a backup that has been Completed, although
\* Reconcile decides on three caches that lag independently and the names of
\* backups are used again (backup_controller.go:43-47, 68-69).
THEOREM OwnedByCompletedCorrect == Spec => []OwnedByCompleted
<1>1. Inv => OwnedByCompleted
  BY DEF Inv, CompletedOK, OwnedByCompleted
<1>2. QED BY <1>1, InvInit, InvStep, PTL DEF Spec
=============================================================================
