---------------------------- MODULE Replication -----------------------------
(***************************************************************************)
(* The source role of Snapback: BackupReplicationReconciler takes the      *)
(* BackupReplication of a completed Velero backup through replicate():     *)
(* enumerate the objects to ship, stage them in the peat outbox, pack them *)
(* into bundles, send each bundle and wait for it, publish the manifest,   *)
(* commit the per-location ledger, and say Replicated.                     *)
(*                                                                         *)
(* One action is one call to a neighbour. Between two of them the bucket   *)
(* changes, peat makes progress or restarts, the API object or its cached  *)
(* copy moves, and the operator itself may restart and begin again.        *)
(***************************************************************************)
EXTENDS Batching

CONSTANTS
  Backups,      \* Velero backups, each with one BackupReplication of its name
  Locations,    \* BackupStorageLocations
  Location,     \* Location[b]: the location of backup b
  MetaKeys,     \* MetaKeys[b]: keys under backups/<b>/, in listing order
  RepoKeys,     \* keys under kopia/, then restic/, in listing order
  NewObjects,   \* NewObjects[b]: the repository keys that backup b writes
  Removable,    \* the keys that maintenance, or Velero, may remove
  SizeOf,       \* SizeOf[k]: bytes of an object
  FileLimit, ByteLimit,  \* policy.spec.bundleFileLimit, bundleByteLimit
  Outcomes,     \* terminal statuses a distribution may reach
  Resend,       \* what peat does with a known bundle id and other files
  MaxBundles,   \* bound on the bundles of one pass
  MaxFaults,    \* bound on failed calls, restarts, deletions, policy changes
  MaxRemovals,  \* bound on the objects removed behind our back
  Nil

SeqSet(s) == {s[i] : i \in 1 .. Len(s)}

\* The elements of s that are in T, in the order of s.
Filtered(s, T) ==
  LET kept[i \in 0 .. Len(s)] ==
        IF i = 0 THEN <<>>
        ELSE IF s[i] \in T THEN Append(kept[i - 1], s[i])
        ELSE kept[i - 1]
  IN  kept[Len(s)]

Keys    == SeqSet(RepoKeys) \cup UNION {SeqSet(MetaKeys[b]) : b \in Backups}
Gens    == 0 .. MaxFaults
Bundles == [br : Backups, index : 0 .. (MaxBundles - 1), gen : Gens]

Phases   == {"Absent", "None", "Staging", "Transmitting", "Replicated", "Failed", "Skipped"}
Terminal == {"Replicated", "Failed", "Skipped"}
Statuses == {"InProgress", "Completed", "Failed", "Cancelled"}

ASSUME BackupsAssumption == \A b \in Backups : Location[b] \in Locations

\* A listing names no key twice, and backups/ and kopia/ are disjoint.
IsListing(s) == /\ s \in Seq(SeqSet(s))
                /\ \A i, j \in 1 .. Len(s) : s[i] = s[j] => i = j

ASSUME KeysAssumption ==
  /\ IsListing(RepoKeys)
  /\ \A b \in Backups : /\ IsListing(MetaKeys[b])
                         /\ SeqSet(MetaKeys[b]) \cap SeqSet(RepoKeys) = {}
ASSUME SizeAssumption == \A k \in Keys : SizeOf[k] \in 0 .. (Word - 1)
ASSUME ResendAssumption == Resend \in {"reject", "existing"}
ASSUME OutcomesAssumption == Outcomes \subseteq Statuses \ {"InProgress"}
ASSUME BoundsAssumption == /\ MaxBundles \in Nat /\ MaxFaults \in Nat /\ MaxRemovals \in Nat
ASSUME NilAssumption == Nil \notin Backups /\ Nil \notin Bundles

VARIABLES
  bucket,    \* bucket[l][k]: version (content and ETag) of the object, 0 if
             \* there never was one, -v if version v was removed
  ledger,    \* ledger[l][k]: -1 if unseen, else the ETag recorded, 0 for ""
  need,      \* need[b]: what the bucket held when b completed (history)
  outbox,    \* outbox[k]: [loc, Ver] staged at the path of k, Nil if none
  sends,     \* sends[g]: the files of bundle g as peat took them, with status
  gen,       \* the incarnation of the peat process
  docs,      \* docs[b]: the entries of b's manifest, {} before there is one
  policy,    \* the ReplicationPolicy: "active", "paused" or "missing"
  br,        \* phase of each BackupReplication in the API server, or "Absent"
  cache,     \* the informer's copy of them
  synced,    \* the names whose cached copy has the current resourceVersion
  queue,     \* the reconciler's work queue, delayed requests included
  pc, cur,   \* the worker: next call, and the name it reconciles
  my, fresh, \* phase of its copy of the object, and whether that copy is current
  keys,      \* the keys of this pass
  specs,     \* the FileSpecs staged so far
  index,     \* the bundle at hand
  sent,      \* the bundle whose handles the client remembers
  entries,   \* the manifest entries so far
  allDone,
  faults, removals

storeVars  == <<bucket, ledger, need, outbox>>
peatVars   == <<sends, gen, docs>>
apiVars    == <<br, cache, synced>>
passVars   == <<keys, specs, index, sent, entries, allDone>>
workerVars == <<pc, cur, my, fresh, passVars>>
vars == <<storeVars, peatVars, policy, apiVars, queue, workerVars, faults, removals>>

NoPass  == /\ keys = <<>> /\ specs = <<>> /\ index = 0 /\ sent = Nil
           /\ entries = {} /\ allDone = TRUE

Init ==
  /\ bucket = [l \in Locations |-> [k \in Keys |-> 0]]
  /\ ledger = [l \in Locations |-> [k \in Keys |-> -1]]
  /\ need = [b \in Backups |-> {}]
  /\ outbox = [k \in Keys |-> Nil]
  /\ sends = [g \in Bundles |-> <<>>]
  /\ gen = 0
  /\ docs = [b \in Backups |-> {}]
  /\ policy = "active"
  /\ br = [b \in Backups |-> "Absent"]
  /\ cache = br
  /\ synced = Backups
  /\ queue = {}
  /\ pc = "idle" /\ cur = Nil /\ my = "Absent" /\ fresh = FALSE
  /\ NoPass
  /\ faults = 0 /\ removals = 0

-----------------------------------------------------------------------------
(* The environment: Velero, the bucket, peat, the API server.              *)

Fault == faults < MaxFaults /\ faults' = faults + 1

NewVersion(v) == IF v < 0 THEN 1 - v ELSE v + 1

\* A backup completes: its metadata and its repository objects are in the
\* bucket. What it may be restored from is its metadata and the repository.
CompleteBackup(b) ==
  LET l == Location[b]
      written == SeqSet(MetaKeys[b]) \cup NewObjects[b]
  IN  /\ need[b] = {}
      /\ bucket' = [bucket EXCEPT ![l] =
                      [k \in Keys |-> IF k \in written THEN NewVersion(@[k]) ELSE @[k]]]
      /\ need' = [need EXCEPT ![b] =
                    {[Key |-> k, Ver |-> bucket'[l][k]] :
                       k \in {k \in SeqSet(MetaKeys[b]) \cup SeqSet(RepoKeys) :
                                bucket'[l][k] > 0}}]
      /\ UNCHANGED <<ledger, outbox, peatVars, policy, apiVars, queue, workerVars, faults, removals>>

\* Kopia maintenance or Velero removes an object. (One that is rewritten is
\* written by a backup: NewObjects may name keys that are there already.)
RemoveObject(l, k) ==
  /\ removals < MaxRemovals /\ k \in Removable /\ bucket[l][k] > 0
  /\ bucket' = [bucket EXCEPT ![l][k] = -@]
  /\ removals' = removals + 1
  /\ UNCHANGED <<ledger, need, outbox, peatVars, policy, apiVars, queue, workerVars, faults>>

\* A distribution ends: the destination has pulled the file, or not.
PeatProgress(g, j, s) ==
  /\ g.gen = gen
  /\ sends[g][j].status = "InProgress"
  /\ sends' = [sends EXCEPT ![g][j].status = s]
  /\ UNCHANGED <<storeVars, gen, docs, policy, apiVars, queue, workerVars, faults, removals>>

\* The peat process restarts and knows no bundle of its past.
PeatRestart ==
  /\ Fault
  /\ gen' = gen + 1
  /\ UNCHANGED <<storeVars, sends, docs, policy, apiVars, queue, workerVars, removals>>

\* Someone pauses, deletes or restores the policy.
PolicyBreaks ==
  /\ policy = "active" /\ Fault
  /\ policy' \in {"paused", "missing"}
  /\ UNCHANGED <<storeVars, peatVars, apiVars, queue, workerVars, removals>>

PolicyRestored ==
  /\ policy # "active"
  /\ policy' = "active"
  /\ UNCHANGED <<storeVars, peatVars, apiVars, queue, workerVars, faults, removals>>

\* A write that changes the object moves its resourceVersion, and the cache
\* is behind. One that leaves the phase alone may or may not change the retry
\* count, the bundles or a condition.
Write(b, o) ==
  /\ br' = [br EXCEPT ![b] = o]
  /\ synced' = synced \ {b} \/ (o = br[b] /\ synced' = synced)

\* BackupReconciler ensures the BackupReplication of a completed backup.
EnsureReplication(b) ==
  /\ need[b] # {} /\ br[b] = "Absent" /\ policy = "active"
  /\ Write(b, "None")
  /\ UNCHANGED <<storeVars, peatVars, policy, cache, queue, workerVars, faults, removals>>

DeleteReplication(b) ==
  /\ br[b] # "Absent" /\ Fault
  /\ Write(b, "Absent")
  /\ fresh' = (fresh /\ cur # b)
  /\ UNCHANGED <<storeVars, peatVars, policy, cache, queue, pc, cur, my, passVars, removals>>

\* The informer sees the latest version of an object and enqueues it.
CacheSync(b) ==
  /\ b \notin synced
  /\ cache' = [cache EXCEPT ![b] = br[b]]
  /\ synced' = synced \cup {b}
  /\ queue' = queue \cup {b}
  /\ UNCHANGED <<storeVars, peatVars, policy, br, workerVars, faults, removals>>

ClearPass ==
  /\ keys' = <<>> /\ specs' = <<>> /\ index' = 0 /\ sent' = Nil
  /\ entries' = {} /\ allDone' = TRUE

GoIdle == pc' = "idle" /\ cur' = Nil /\ my' = "Absent" /\ fresh' = FALSE /\ ClearPass

\* The operator restarts in the middle of whatever it was doing.
Restart ==
  /\ Fault
  /\ cache' = br /\ synced' = Backups
  /\ queue' = {b \in Backups : br[b] # "Absent"}
  /\ GoIdle
  /\ UNCHANGED <<storeVars, peatVars, policy, br, removals>>

-----------------------------------------------------------------------------
(* Reconcile and replicate.                                                *)

\* Leave the pass to write the copy of the object with phase p: "wait" puts
\* the request back afterwards, "final" drops it.
GoWrite(p, how) ==
  /\ my' = p
  /\ pc' = how
  /\ ClearPass
  /\ UNCHANGED <<cur, fresh>>

\* transientErr and degrade: the phase is the one the pass has set so far.
PassFails == Fault /\ GoWrite(my, "wait")

\* Mutant: the request of an object that is gone is not dropped.
StartReplicationGone(b) ==
  /\ pc = "idle" /\ b \in queue /\ policy = "active"
  /\ IF cache[b] \notin Terminal
       THEN /\ pc' = "wait" /\ my' = cache[b]
            /\ cur' = b /\ fresh' = (b \in synced)
       ELSE UNCHANGED <<pc, my, cur, fresh>>
  /\ queue' = queue \ {b}
  /\ UNCHANGED <<storeVars, peatVars, policy, apiVars, passVars, faults, removals>>

StartReplication(b) ==
  /\ pc = "idle" /\ b \in queue
  /\ IF cache[b] \notin Terminal \cup {"Absent"}
       THEN \/ /\ policy = "active"
               /\ pc' = "enumerate" /\ my' = "Staging"
               /\ cur' = b /\ fresh' = (b \in synced) /\ queue' = queue \ {b}
            \/ /\ policy = "missing"
               /\ pc' = "wait" /\ my' = cache[b]
               /\ cur' = b /\ fresh' = (b \in synced) /\ queue' = queue \ {b}
            \/ /\ policy = "paused"
               /\ UNCHANGED <<pc, my, cur, fresh, queue>>
       ELSE queue' = queue \ {b} /\ UNCHANGED <<pc, my, cur, fresh>>
  /\ UNCHANGED <<storeVars, peatVars, policy, apiVars, passVars, faults, removals>>

Listed(l) == {k \in Keys : bucket[l][k] > 0}

\* The metadata objects always, a repository object unless the ledger holds
\* the ETag it has now.
\* Mutant: a key in the ledger is taken for shipped whatever its ETag.
enumerateByKey(b) ==
  LET l == Location[b]
      unseen == {k \in Listed(l) : ledger[l][k] = -1}
  IN  Filtered(MetaKeys[b], Listed(l)) \o Filtered(RepoKeys, unseen)

enumerateDelta(b) ==
  LET l == Location[b]
      unseen == {k \in Listed(l) : ledger[l][k] # bucket[l][k]}
  IN  Filtered(MetaKeys[b], Listed(l)) \o Filtered(RepoKeys, unseen)

\* resolveStore, the ledger read and the listings, and the way out when there
\* is nothing to ship.
Enumerate ==
  /\ pc = "enumerate"
  /\ \/ /\ enumerateDelta(cur) = <<>>
        /\ GoWrite("Skipped", "final") /\ UNCHANGED faults
     \/ /\ enumerateDelta(cur) # <<>>
        /\ keys' = enumerateDelta(cur) /\ pc' = "stage"
        /\ UNCHANGED <<cur, my, fresh, specs, index, sent, entries, allDone, faults>>
     \/ PassFails
  /\ UNCHANGED <<storeVars, peatVars, policy, apiVars, queue, removals>>

\* StageObject for the next key: what the bucket holds now goes to the outbox
\* path of the key, by a rename; an object that is gone fails the pass.
StageObject ==
  /\ pc = "stage" /\ Len(specs) < Len(keys)
  /\ LET k == keys[Len(specs) + 1]
         l == Location[cur]
         v == bucket[l][k]
     IN  \/ /\ v > 0
            /\ outbox' = [outbox EXCEPT ![k] = [loc |-> l, Ver |-> v]]
            /\ specs' = Append(specs, [Key |-> k, Ver |-> v, Size |-> SizeOf[k]])
            /\ UNCHANGED <<pc, cur, my, fresh, keys, index, sent, entries, allDone, faults>>
         \/ v <= 0 /\ GoWrite(my, "wait") /\ UNCHANGED <<outbox, faults>>
         \/ PassFails /\ UNCHANGED outbox
  /\ UNCHANGED <<bucket, ledger, need, peatVars, policy, apiVars, queue, removals>>

\* The batches are packed and the object says Transmitting, or the pass ends
\* here because its copy is out of date.
BeginTransmit ==
  /\ pc = "stage" /\ Len(specs) = Len(keys)
  /\ \/ /\ fresh
        /\ my' = "Transmitting"
        /\ Write(cur, "Transmitting")
        /\ pc' = "send"
        /\ UNCHANGED <<cur, fresh, passVars, queue, faults>>
     \/ ~fresh /\ GoIdle /\ queue' = queue \cup {cur} /\ UNCHANGED <<br, synced, faults>>
     \/ /\ Fault /\ GoIdle /\ queue' = queue \cup {cur}
        /\ UNCHANGED <<br, synced>> \/ (fresh /\ Write(cur, "Transmitting"))
  /\ UNCHANGED <<storeVars, peatVars, policy, cache, removals>>

Batches == Pack(specs, FileLimit, ToUint(ByteLimit))

\* SendAttachments at peat: a new bundle is taken with what the outbox holds
\* at the paths it names, a known one is left alone.
Taken(fs) ==
  [j \in 1 .. Len(fs) |->
     [Key |-> fs[j].Key, Ver |-> outbox[fs[j].Key].Ver, status |-> "InProgress"]]

SameFiles(g, fs) ==
  /\ Len(sends[g]) = Len(fs)
  /\ \A j \in 1 .. Len(fs) : /\ sends[g][j].Key = fs[j].Key
                              /\ sends[g][j].Ver = outbox[fs[j].Key].Ver

TakeBundle(g, fs) ==
  sends' = IF sends[g] = <<>> THEN [sends EXCEPT ![g] = Taken(fs)] ELSE sends

Accepts(g, fs) == sends[g] = <<>> \/ SameFiles(g, fs) \/ Resend = "existing"

\* One entry per handle, the handle's index read against this pass's files.
\* Mutant: every handle is attributed to the first bundle of the pass.
HandleEntriesFirst(g, fs) ==
  {[Key |-> fs[j].Key, Ver |-> fs[j].Ver, Bundle |-> [g EXCEPT !.index = 0], File |-> j] :
      j \in 1 .. Len(fs)}

HandleEntries(g, fs) ==
  LET handles == IF sends[g] = <<>> THEN Len(fs) ELSE Len(sends[g])
  IN  {[Key |-> fs[j].Key, Ver |-> fs[j].Ver, Bundle |-> g, File |-> j] :
          j \in {j \in 1 .. handles : j <= Len(fs)}}

\* Dial, EnsurePeer and SendAttachments of the bundle at hand; an answer may
\* be lost after peat took the bundle.
SendBundle ==
  /\ pc = "send" /\ index < Len(Batches) /\ index < MaxBundles
  /\ LET g == [br |-> cur, index |-> index, gen |-> gen]
         fs == Batches[index + 1].Files
     IN  \/ /\ Accepts(g, fs)
            /\ TakeBundle(g, fs)
            /\ entries' = entries \cup HandleEntries(g, fs)
            /\ sent' = g /\ pc' = "waitbundle"
            /\ UNCHANGED <<cur, my, fresh, keys, specs, index, allDone, faults>>
         \/ ~Accepts(g, fs) /\ GoWrite(my, "wait") /\ UNCHANGED <<sends, faults>>
         \/ PassFails /\ UNCHANGED sends
         \/ Accepts(g, fs) /\ PassFails /\ TakeBundle(g, fs)
  /\ UNCHANGED <<storeVars, gen, docs, policy, apiVars, queue, removals>>

\* Mutant: terminal is taken for completed.
summarizeTerminal(fs) ==
  IF fs # <<>> /\ \A j \in 1 .. Len(fs) : fs[j].status # "InProgress" THEN "Completed"
  ELSE "InProgress"

summarize(fs) ==
  IF \E j \in 1 .. Len(fs) : fs[j].status \in {"Failed", "Cancelled"} THEN "Failed"
  ELSE IF fs # <<>> /\ \A j \in 1 .. Len(fs) : fs[j].status = "Completed" THEN "Completed"
  ELSE "InProgress"

\* WaitBundle: blocks until every distribution is terminal, and fails when
\* peat has restarted and no longer knows them.
\* Mutant: a distribution that peat does not know counts as pending.
WaitBundleDeaf ==
  /\ pc = "waitbundle"
  /\ sent.gen = gen
  /\ \A j \in 1 .. Len(sends[sent]) : sends[sent][j].status # "InProgress"
  /\ allDone' = (allDone /\ summarize(sends[sent]) = "Completed")
  /\ index' = index + 1 /\ sent' = Nil /\ pc' = "send"
  /\ UNCHANGED <<storeVars, peatVars, policy, apiVars, queue, faults, removals,
                 cur, my, fresh, keys, specs, entries>>

WaitBundle ==
  /\ pc = "waitbundle"
  /\ \/ /\ sent.gen = gen
        /\ \A j \in 1 .. Len(sends[sent]) : sends[sent][j].status # "InProgress"
        /\ allDone' = (allDone /\ summarize(sends[sent]) = "Completed")
        /\ index' = index + 1 /\ sent' = Nil /\ pc' = "send"
        /\ UNCHANGED <<cur, my, fresh, keys, specs, entries, faults>>
     \/ sent.gen # gen /\ GoWrite(my, "wait") /\ UNCHANGED faults
     \/ PassFails
  /\ UNCHANGED <<storeVars, peatVars, policy, apiVars, queue, removals>>

\* After the last bundle: not all Completed means another pass later.
\* Mutant: the ledger is committed without waiting for the manifest.
BundlesDoneLedgerFirst ==
  /\ pc = "send" /\ index = Len(Batches)
  /\ IF allDone
       THEN pc' = "commit" /\ UNCHANGED <<cur, my, fresh, passVars>>
       ELSE GoWrite(my, "wait")
  /\ UNCHANGED <<storeVars, peatVars, policy, apiVars, queue, faults, removals>>

BundlesDone ==
  /\ pc = "send" /\ index = Len(Batches)
  /\ IF allDone
       THEN pc' = "emit" /\ UNCHANGED <<cur, my, fresh, passVars>>
       ELSE GoWrite(my, "wait")
  /\ UNCHANGED <<storeVars, peatVars, policy, apiVars, queue, faults, removals>>

emitManifest ==
  /\ pc = "emit"
  /\ \/ /\ docs' = [docs EXCEPT ![cur] = entries]
        /\ pc' = "commit"
        /\ UNCHANGED <<cur, my, fresh, passVars, faults>>
     \/ PassFails /\ docs' \in {docs, [docs EXCEPT ![cur] = entries]}
  /\ UNCHANGED <<storeVars, sends, gen, policy, apiVars, queue, removals>>

\* The ledger with the shipped keys added: their ETags are left empty.
\* Mutant: the ETags are recorded, so that later backups skip the keys.
CommittedWithETags(l) ==
  [ledger EXCEPT ![l] = [k \in Keys |-> IF k \in SeqSet(keys) THEN bucket[l][k] ELSE @[k]]]

Committed(l) ==
  [ledger EXCEPT ![l] = [k \in Keys |-> IF k \in SeqSet(keys) THEN 0 ELSE @[k]]]

commitLedger ==
  /\ pc = "commit"
  /\ \/ /\ ledger' = Committed(Location[cur])
        /\ GoWrite("Replicated", "final")
        /\ UNCHANGED faults
     \/ PassFails /\ ledger' \in {ledger, Committed(Location[cur])}
  /\ UNCHANGED <<bucket, need, outbox, peatVars, policy, apiVars, queue, removals>>

\* Status().Update at the end of Reconcile; refused when the copy is out of
\* date, and lost before or after it was applied when the call fails.
\* Mutant: the update does not carry the resourceVersion of the copy.
WriteStatusForced ==
  /\ pc \in {"wait", "final"}
  /\ IF br[cur] # "Absent" THEN Write(cur, my) ELSE UNCHANGED <<br, synced>>
  /\ queue' = IF pc = "wait" THEN queue \cup {cur} ELSE queue
  /\ GoIdle
  /\ UNCHANGED <<storeVars, peatVars, policy, cache, faults, removals>>

WriteStatus ==
  /\ pc \in {"wait", "final"}
  /\ \/ /\ fresh /\ Write(cur, my)
        /\ queue' = IF pc = "wait" THEN queue \cup {cur} ELSE queue
        /\ UNCHANGED faults
     \/ ~fresh /\ queue' = queue \cup {cur} /\ UNCHANGED <<br, synced, faults>>
     \/ /\ Fault /\ queue' = queue \cup {cur}
        /\ UNCHANGED <<br, synced>> \/ (fresh /\ Write(cur, my))
  /\ GoIdle
  /\ UNCHANGED <<storeVars, peatVars, policy, cache, removals>>

-----------------------------------------------------------------------------
WorkerStep ==
  \/ Enumerate \/ StageObject \/ BeginTransmit \/ SendBundle \/ WaitBundle
  \/ BundlesDone \/ emitManifest \/ commitLedger \/ WriteStatus

Progress == \E g \in Bundles : \E j \in 1 .. Len(sends[g]) : \E s \in Outcomes :
              PeatProgress(g, j, s)

Next ==
  \/ \E b \in Backups : \/ CompleteBackup(b) \/ EnsureReplication(b)
                         \/ DeleteReplication(b) \/ CacheSync(b) \/ StartReplication(b)
  \/ \E l \in Locations, k \in Keys : RemoveObject(l, k)
  \/ Progress
  \/ PeatRestart \/ PolicyBreaks \/ PolicyRestored \/ Restart
  \/ WorkerStep

\* Velero finishes its backups, a broken policy is repaired, peat ends every
\* distribution it keeps, and the informer, the queue and the worker run.
Fairness ==
  /\ \A b \in Backups : /\ WF_vars(CompleteBackup(b)) /\ WF_vars(EnsureReplication(b))
                        /\ WF_vars(CacheSync(b)) /\ SF_vars(StartReplication(b))
  /\ WF_vars(PolicyRestored) /\ WF_vars(Progress) /\ WF_vars(WorkerStep)

Spec == Init /\ [][Next]_vars /\ Fairness

-----------------------------------------------------------------------------
Version  == [Key : Keys, Ver : Nat \ {0}]
FileSpec == [Key : Keys, Ver : Nat \ {0}, Size : 0 .. (Word - 1)]
SentFile == [Key : Keys, Ver : Nat \ {0}, status : Statuses]
Entry    == [Key : Keys, Ver : Nat \ {0}, Bundle : Bundles, File : Nat \ {0}]

\* Every variable has its type, and the worker's copy is an object that
\* exists while it works.
TypeOK ==
  /\ bucket \in [Locations -> [Keys -> Int]]
  /\ ledger \in [Locations -> [Keys -> Int]]
  /\ need \in [Backups -> SUBSET Version]
  /\ outbox \in [Keys -> [loc : Locations, Ver : Nat \ {0}] \cup {Nil}]
  /\ sends \in [Bundles -> Seq(SentFile)] /\ gen \in Gens /\ gen <= faults
  /\ docs \in [Backups -> SUBSET Entry]
  /\ policy \in {"active", "paused", "missing"}
  /\ br \in [Backups -> Phases] /\ cache \in [Backups -> Phases]
  /\ synced \subseteq Backups /\ queue \subseteq Backups
  /\ pc \in {"idle", "enumerate", "stage", "send", "waitbundle", "emit", "commit",
             "wait", "final"}
  /\ cur \in Backups \cup {Nil} /\ (pc # "idle" => cur # Nil)
  /\ my \in Phases /\ fresh \in BOOLEAN /\ (pc # "idle" => my # "Absent")
  /\ keys \in Seq(Keys) /\ specs \in Seq(FileSpec)
  /\ index \in Nat
  /\ sent \in Bundles \cup {Nil} /\ (pc = "waitbundle" => sent # Nil)
  /\ entries \in SUBSET Entry
  /\ allDone \in BOOLEAN
  /\ faults \in 0 .. MaxFaults /\ removals \in 0 .. MaxRemovals

\* A Replicated backup can be restored at the destination: every object that
\* was in the bucket when it completed, and has not been rewritten since, is
\* in a published manifest with the content it has
\* (backupreplication_controller.go:224-227, 335-372).
ReplicatedCovers ==
  \A b \in Backups :
     br[b] = "Replicated" =>
        \A o \in need[b] :
           bucket[Location[b]][o.Key] = o.Ver =>
              \E c \in {c \in Backups : Location[c] = Location[b]} :
                 \E e \in docs[c] : e.Key = o.Key /\ e.Ver = o.Ver

SentOf(e) == sends[e.Bundle][e.File]

\* Each entry of a published manifest names a distribution of exactly the
\* content that the entry states, so the destination will find under that
\* distribution what its hash check expects, however often the pass was
\* aborted and run again (backupreplication_controller.go:170-172, 188-204).
ManifestHonest ==
  \A b \in Backups : \A e \in docs[b] :
     /\ e.File \in 1 .. Len(sends[e.Bundle])
     /\ SentOf(e).Key = e.Key /\ SentOf(e).Ver = e.Ver

\* A manifest is published only when the destination has pulled every file it
\* names, also when peat restarted between two bundles
\* (backupreplication_controller.go:212-227).
TransmittedOnly ==
  \A b \in Backups : \A e \in docs[b] :
     e.File \in 1 .. Len(sends[e.Bundle]) => SentOf(e).status = "Completed"

\* A key enters the ledger only when the manifest that ships it is already
\* published, so a crash between the two can cause work to be repeated but
\* never to be skipped (backupreplication_controller.go:224-235).
LedgerAfterManifest ==
  [][\A l \in Locations : \A k \in Keys :
       ledger'[l][k] # ledger[l][k] =>
          \E b \in Backups : Location[b] = l /\ \E e \in docs[b] : e.Key = k]_vars

\* A step never takes an existing BackupReplication out of Replicated, Failed
\* or Skipped, not even that of a worker that started from a cached copy of
\* an earlier phase (backupreplication_controller.go:67-72).
TerminalIsFinal ==
  [][\A b \in Backups :
       br[b] \in {"Replicated", "Failed", "Skipped"} =>
          br'[b] = br[b] \/ br'[b] = "Absent"]_vars

\* peat, in its present incarnation, holds a distribution of b that it has
\* given up (client.go:30-31).
GivenUp(b) ==
  \E g \in Bundles :
     /\ g.br = b /\ g.gen = gen
     /\ \E j \in 1 .. Len(sends[g]) : sends[g][j].status \in {"Failed", "Cancelled"}

\* Every completed backup is in the end replicated, or found to have nothing
\* to ship, and stays so, whatever calls fail, whoever restarts and whatever
\* is deleted a bounded number of times on the way: a pass that fails is run
\* again (backupreplication_controller.go:90-92). What no later pass repairs
\* is a distribution that peat has given up: each pass sends the same bundle
\* id, finds that distribution again and waits (lines 162, 216-223). So the
\* backup is only promised when peat ends up with none, because none failed
\* or because it has forgotten the last that did, as by a restart.
EveryBackupReplicated ==
  \A b \in Backups :
     <>[]~GivenUp(b) => <>[](br[b] \in {"Replicated", "Skipped"})
=============================================================================
