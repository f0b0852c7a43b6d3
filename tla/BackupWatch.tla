---------------------------- MODULE BackupWatch -----------------------------
(***************************************************************************)
(* BackupReconciler: watch Velero's backups and ensure one                 *)
(* BackupReplication, owned by the backup, for each completed backup that  *)
(* a ReplicationPolicy selects.                                            *)
(*                                                                         *)
(* Reconcile reads three informer caches (backups, policies,               *)
(* BackupReplications), each of which lags on its own, and makes at most   *)
(* one write. Whatever happens between its reads and its write is a longer *)
(* lag of some cache, so one Reconcile is one step. Only backups are       *)
(* watched: nothing wakes it when a policy or a BackupReplication changes, *)
(* except the periodic resync of the informer.                             *)
(***************************************************************************)
EXTENDS Integers

CONSTANTS
  Backups,          \* names of backups
  StorageLocation,  \* StorageLocation[n]: the location of the backups named n
  Labels,           \* Labels[n]: their labels
  Policies,         \* names of policies
  Specs,            \* Specs[p]: the specs that p goes through, Nil for absent
  MaxCreated,       \* bound on the backups created under one name
  MaxChanges,       \* bound on policy changes, failed calls and restarts
  Invalid,          \* a selector that LabelSelectorAsSelector refuses
  Nil

Phases == {"New", "InProgress", "Finalizing", "Completed", "PartiallyFailed",
           "Failed", "FailedValidation", "Deleting"}

\* How Velero moves a backup on.
PhaseAfter(ph) ==
  CASE ph = "New"        -> {"InProgress", "FailedValidation"}
    [] ph = "InProgress" -> {"Finalizing", "Failed"}
    [] ph = "Finalizing" -> {"Completed", "PartiallyFailed"}
    [] OTHER             -> {"Deleting"}

ASSUME BoundsAssumption == MaxCreated \in Nat /\ MaxChanges \in Nat

VARIABLES
  backup,        \* backup[n]: [uid, phase] in the API server, or Nil
  created,       \* created[n]: how many backups have had the name (the uid)
  seenBackup,    \* the informer's copy of the backups
  policy,        \* policy[p]: its spec, or Nil
  seenPolicy,    \* the informer's copy of the policies
  br,            \* br[n]: [owner, policy, phase] in the API server, or Nil
  seenBr,        \* the informer's copy of the BackupReplications
  synced,        \* the names whose copy in seenBr has the current version
  queue,         \* the reconciler's work queue
  changes,
  everCompleted  \* everCompleted[n]: uids that have been Completed (history)

veleroVars == <<backup, created, everCompleted>>
cacheVars  == <<seenBackup, seenPolicy, seenBr>>
vars == <<veleroVars, cacheVars, policy, br, synced, queue, changes>>

Init ==
  /\ backup = [n \in Backups |-> Nil]
  /\ created = [n \in Backups |-> 0]
  /\ seenBackup = backup
  /\ policy \in [Policies -> UNION {Specs[p] : p \in Policies}]
  /\ \A p \in Policies : policy[p] \in Specs[p]
  /\ seenPolicy = policy
  /\ br = [n \in Backups |-> Nil]
  /\ seenBr = br
  /\ synced = Backups
  /\ queue = {}
  /\ changes = 0
  /\ everCompleted = [n \in Backups |-> {}]

-----------------------------------------------------------------------------
(* Velero, users, the API server and the informers.                        *)

Change == changes < MaxChanges /\ changes' = changes + 1

CreateBackup(n) ==
  /\ backup[n] = Nil /\ created[n] < MaxCreated
  /\ created' = [created EXCEPT ![n] = @ + 1]
  /\ backup' = [backup EXCEPT ![n] = [uid |-> created'[n], phase |-> "New"]]
  /\ UNCHANGED <<everCompleted, cacheVars, policy, br, synced, queue, changes>>

AdvanceBackup(n) ==
  /\ backup[n] # Nil
  /\ \E ph \in PhaseAfter(backup[n].phase) \ {backup[n].phase} :
        /\ backup' = [backup EXCEPT ![n].phase = ph]
        /\ everCompleted' = IF ph = "Completed"
                              THEN [everCompleted EXCEPT ![n] = @ \cup {backup[n].uid}]
                              ELSE everCompleted
  /\ UNCHANGED <<created, cacheVars, policy, br, synced, queue, changes>>

\* A backup expires or is deleted; there may be another of its name later.
DeleteBackup(n) ==
  /\ backup[n] # Nil
  /\ backup' = [backup EXCEPT ![n] = Nil]
  /\ UNCHANGED <<created, everCompleted, cacheVars, policy, br, synced, queue, changes>>

\* A policy is created, edited, paused, resumed or deleted.
ChangePolicy(p) ==
  /\ Change
  /\ \E s \in Specs[p] \ {policy[p]} : policy' = [policy EXCEPT ![p] = s]
  /\ UNCHANGED <<veleroVars, cacheVars, br, synced, queue>>

\* The garbage collector of the cluster: the owner is gone, also when another
\* backup has its name.
Live(n, uid) == backup[n] # Nil /\ backup[n].uid = uid

CollectGarbage(n) ==
  /\ br[n] # Nil /\ br[n].owner # Nil /\ ~Live(n, br[n].owner)
  /\ br' = [br EXCEPT ![n] = Nil] /\ synced' = synced \ {n}
  /\ UNCHANGED <<veleroVars, cacheVars, policy, queue, changes>>

\* The source role finishes with the object, which is a write to its status.
FinishReplication(n) ==
  /\ br[n] # Nil /\ br[n].phase # "Replicated"
  /\ br' = [br EXCEPT ![n].phase = "Replicated"] /\ synced' = synced \ {n}
  /\ UNCHANGED <<veleroVars, cacheVars, policy, queue, changes>>

\* The informers. A backup that has changed is enqueued.
SyncBackup(n) ==
  /\ seenBackup[n] # backup[n]
  /\ seenBackup' = [seenBackup EXCEPT ![n] = backup[n]]
  /\ queue' = queue \cup {n}
  /\ UNCHANGED <<veleroVars, seenPolicy, seenBr, policy, br, synced, changes>>

SyncPolicy(p) ==
  /\ seenPolicy[p] # policy[p]
  /\ seenPolicy' = [seenPolicy EXCEPT ![p] = policy[p]]
  /\ UNCHANGED <<veleroVars, seenBackup, seenBr, policy, br, synced, queue, changes>>

SyncBr(n) ==
  /\ n \notin synced
  /\ seenBr' = [seenBr EXCEPT ![n] = br[n]] /\ synced' = synced \cup {n}
  /\ UNCHANGED <<veleroVars, seenBackup, seenPolicy, policy, br, queue, changes>>

Resync(n) ==
  /\ seenBackup[n] # Nil /\ n \notin queue
  /\ queue' = queue \cup {n}
  /\ UNCHANGED <<veleroVars, cacheVars, policy, br, synced, changes>>

Restart ==
  /\ Change
  /\ seenBackup' = backup /\ seenPolicy' = policy /\ seenBr' = br /\ synced' = Backups
  /\ queue' = {n \in Backups : backup[n] # Nil}
  /\ UNCHANGED <<veleroVars, policy, br>>

-----------------------------------------------------------------------------
(* Reconcile.                                                              *)

matchesBSL(s, bsl) ==
  s.BackupStorageLocations = {} \/ bsl \in s.BackupStorageLocations

SelectorError(s) == s.BackupSelector = Invalid

matchesBackup(s, n) ==
  /\ ~SelectorError(s)
  /\ s.BackupSelector = Nil \/ s.BackupSelector \subseteq Labels[n]

\* The policies that the loop of matchPolicy looks at closely.
\* Mutant: the loop ends at a paused policy.
ConsideredUntilPaused(n) ==
  {p \in Policies : /\ \A q \in Policies : seenPolicy[q] = Nil \/ ~seenPolicy[q].Paused
                    /\ seenPolicy[p] # Nil
                    /\ matchesBSL(seenPolicy[p], StorageLocation[n])}

Considered(n) ==
  {p \in Policies : /\ seenPolicy[p] # Nil /\ ~seenPolicy[p].Paused
                    /\ matchesBSL(seenPolicy[p], StorageLocation[n])}

\* matchPolicy: the first match in the order of the list, or an error if a
\* selector before it is refused. The cache lists in no particular order.
Matches(n) == {p \in Considered(n) : matchesBackup(seenPolicy[p], n)}
Refused(n) == {p \in Considered(n) : SelectorError(seenPolicy[p])}

\* The request ends, or comes back after an error.
Done(n)  == queue' = queue \ {n}
Retry(n) == UNCHANGED queue

Applied(n, o) == br' = [br EXCEPT ![n] = o] /\ synced' = synced \ {n}

\* CreateOrUpdate: a create when the cache has no object, nothing when it has
\* the object as wanted, else an update that carries its resourceVersion.
\* SetControllerReference replaces an owner of the same kind and name; the
\* status of an object that is there, also of one taken over from an earlier
\* backup of the name, stays as it is.
\* Mutants: no owner is set, and a cached object is left as it is.
CreateOrUpdateUnowned(n, o) ==
  IF seenBr[n] # Nil THEN Done(n) /\ UNCHANGED <<br, synced, changes>>
  ELSE IF br[n] = Nil THEN Applied(n, [o EXCEPT !.owner = Nil]) /\ Done(n) /\ UNCHANGED changes
  ELSE Retry(n) /\ UNCHANGED <<br, synced, changes>>

CreateOrUpdate(n, o) ==
  LET wanted == IF seenBr[n] = Nil THEN o
                ELSE [seenBr[n] EXCEPT !.owner = o.owner, !.policy = o.policy]
      unchanged == seenBr[n] = wanted
      accepted == IF seenBr[n] = Nil THEN br[n] = Nil ELSE n \in synced
  IN  \/ unchanged /\ Done(n) /\ UNCHANGED <<br, synced, changes>>
      \/ ~unchanged /\ accepted /\ Applied(n, wanted) /\ Done(n) /\ UNCHANGED changes
      \/ ~unchanged /\ ~accepted /\ Retry(n) /\ UNCHANGED <<br, synced, changes>>
      \/ /\ ~unchanged /\ Change /\ Retry(n)     \* the call fails, applied or not
         /\ UNCHANGED <<br, synced>> \/ (accepted /\ Applied(n, wanted))

\* Mutant: the phase of the backup is not looked at.
EligiblePhaseless(n) == seenBackup[n] # Nil

Eligible(n) == seenBackup[n] # Nil /\ seenBackup[n].phase = "Completed"

Reconcile(n) ==
  /\ n \in queue
  /\ \/ ~Eligible(n) /\ Done(n) /\ UNCHANGED <<br, synced, changes>>
     \/ /\ Eligible(n) /\ Matches(n) = {} /\ Refused(n) = {}
        /\ Done(n) /\ UNCHANGED <<br, synced, changes>>
     \/ Eligible(n) /\ Refused(n) # {} /\ Retry(n) /\ UNCHANGED <<br, synced, changes>>
     \/ /\ Eligible(n)
        /\ \E p \in Matches(n) :
              CreateOrUpdate(n, [owner |-> seenBackup[n].uid, policy |-> p, phase |-> "New"])
  /\ UNCHANGED <<veleroVars, cacheVars, policy>>

-----------------------------------------------------------------------------
Next ==
  \/ \E n \in Backups :
        \/ CreateBackup(n) \/ AdvanceBackup(n) \/ DeleteBackup(n) \/ CollectGarbage(n)
        \/ FinishReplication(n)
        \/ SyncBackup(n) \/ SyncBr(n) \/ Resync(n) \/ Reconcile(n)
  \/ \E p \in Policies : ChangePolicy(p) \/ SyncPolicy(p)
  \/ Restart

\* The informers, their resync, the reconciler and the garbage collector run;
\* nobody has to create, finish or delete a backup, to replicate it, or to
\* change a policy.
Fairness ==
  /\ \A n \in Backups : /\ WF_vars(CollectGarbage(n)) /\ WF_vars(SyncBackup(n))
                        /\ WF_vars(SyncBr(n)) /\ WF_vars(Resync(n)) /\ WF_vars(Reconcile(n))
  /\ \A p \in Policies : WF_vars(SyncPolicy(p))

Spec == Init /\ [][Next]_vars /\ Fairness

-----------------------------------------------------------------------------
\* Types. An object and every copy of one refer to a backup that has existed
\* and to a policy (backup_controller.go:35-78).
TypeOK ==
  LET BackupOf(n) == [uid : 1..created[n], phase : Phases] \cup {Nil}
      BrOf(n) == [owner : 1..created[n], policy : Policies, phase : {"New", "Replicated"}]
                   \cup {Nil}
  IN  /\ created \in [Backups -> 0..MaxCreated]
      /\ \A n \in Backups : /\ {backup[n], seenBackup[n]} \subseteq BackupOf(n)
                            /\ {br[n], seenBr[n]} \subseteq BrOf(n)
                            /\ everCompleted[n] \subseteq 1..created[n]
      /\ \A p \in Policies : {policy[p], seenPolicy[p]} \subseteq Specs[p]
      /\ synced \subseteq Backups /\ queue \subseteq Backups /\ changes \in 0..MaxChanges

\* A BackupReplication, and the right of the garbage collector over it,
\* belongs to a backup that has been Completed, although Reconcile decides on
\* copies of the backup, the policies and the object that lag independently
\* (backup_controller.go:43-47, 68-69).
OwnedByCompleted ==
  \A n \in Backups : br[n] # Nil => br[n].owner \in everCompleted[n]

Selected(n, p) ==
  /\ policy[p] # Nil /\ ~policy[p].Paused
  /\ matchesBSL(policy[p], StorageLocation[n]) /\ matchesBackup(policy[p], n)

Broken(p) == policy[p] # Nil /\ SelectorError(policy[p])

\* "Reconcile ensures a BackupReplication exists for each completed, eligible
\* backup" (backup_controller.go:34): if the backup stays Completed and some
\* policy goes on selecting it, a BackupReplication of its own is there in
\* the end and stays, whatever the order in which the caches learn of the
\* backup, the policies and the BackupReplication of an earlier backup of the
\* name. That object may have been taken over with its terminal phase, so the
\* property promises the object, not that it is still to be replicated. A
\* policy whose selector is invalid may hide the others and has to be
\* repaired first.
EveryBackupEnsured ==
  \A n \in Backups :
     <>[](/\ backup[n] # Nil /\ backup[n].phase = "Completed"
          /\ \E p \in Policies : Selected(n, p)
          /\ \A p \in Policies : ~Broken(p))
       => <>[](br[n] # Nil /\ Live(n, br[n].owner))

\* "GC the BackupReplication when the Backup is deleted"
\* (backup_controller.go:68): when a backup is gone for good nothing of it
\* stays, although a stale cache may let Reconcile create the
\* BackupReplication again after it was collected.
NothingStays ==
  \A n \in Backups : <>[](backup[n] = Nil) => <>[](br[n] = Nil)

\* A backup has one destination: its BackupReplication stays with its policy
\* as long as that policy selects it. "matchPolicy returns the first
\* non-paused ReplicationPolicy matching the backup, or nil. v1 supports a
\* single destination per backup" (backup_controller.go:80-81).
SingleDestination ==
  [][\A n \in Backups :
       (br[n] # Nil /\ br'[n] # Nil /\ Selected(n, br[n].policy))
          => br'[n].policy = br[n].policy]_vars
=============================================================================
