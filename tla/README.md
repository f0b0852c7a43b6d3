# Snapback in TLA+

Snapback moves Velero backups across an air gap. An operator in the *source*
cluster watches for completed backups, copies their objects from the bucket of
the backup storage location into the outbox of a peat sidecar, has peat
distribute them, and publishes a manifest. The same operator in the
*destination* role sees the manifest, waits for the bytes to land on peat's
inbox, verifies them and writes them into the destination bucket, where Velero
discovers the backup. Links are slow and break, processes restart, and every
step is retried; correctness is a matter of order and of what survives a
failure. These modules model that protocol from the Go code, check it with TLC,
and prove with TLAPS, for every value of the constants, each safety property
and each refinement that the passing runs check.

Paths below are relative to the repository.

## 1. The system

| Component | Source | State | Operations | Interacts with |
|---|---|---|---|---|
| Backup watch | `src/internal/controller/backup_controller.go` | none of its own | Reconcile, matchPolicy: a completed backup that an active policy selects gets a BackupReplication, owned by it | Velero, API server |
| BackupReplicationReconciler | `src/internal/controller/backupreplication_controller.go` | the BackupReplication (phase, retry count), the pass in memory | Reconcile, replicate: enumerate, stage, pack, send, wait, manifest, ledger, status | bucket, outbox, peat client, API server |
| Ledger | same file, `src/internal/objstore/minio.go` | one JSON object per location | read by enumerateDelta, written by commitLedger | bucket |
| Outbox stager | `src/internal/staging/outbox.go` | files on a volume shared with peat | StageObject, Release (never called) | bucket, peat |
| Bundle packing | `src/internal/batching/batching.go` | none | Pack | the reconciler |
| Manifest plane | `src/internal/manifest/manifest.go` | a document per (location, backup) | Marshal, Parse, DocID | both roles, through peat |
| peat client | `src/internal/peat/{client,connect}.go` | handles by bundle id, in memory | SendAttachments, WaitBundle, EnsurePeer, documents | peat (external) |
| ManifestBridge | `src/internal/controller/backupimport_controller.go` | none of its own | poll: reverse peering, list, ensureBackupImport | peat, API server |
| BackupImportReconciler | same file | the BackupImport (phase, counts) | Reconcile: fetch, parse, one import pass, status | peat, importer, API server |
| Importer | `src/internal/importer/importer.go` | index of the inbox, per pass | Import, importOne, locate, verify | inbox, bucket |
| Object store | `src/internal/objstore/*.go` | a bucket | New, List, Open, Stat, Put, conditional ledger calls | everyone above |
| Store configuration | `resolveStore` of the source, `src/cmd/main.go`, `src/internal/objstore/creds.go` | none that lasts | resolveStore, buildImportOptions, ParseAWSCredentials, pickProfile | API server, files |
| Work queues | controller-runtime (external) | queued and delayed requests | events, requeues, retries | all reconcilers |
| Charts, CRDs | `charts/` | | | |

What is hard in it:

* Reconcile works on an informer's copy that may be older than the object, and
  only the resourceVersion of a status update protects the object from it.
* A pass is a long series of calls to neighbours. It is cut off anywhere, by an
  error or a restart, and runs again from the start against a bucket, an outbox
  and a peat that have moved.
* A call that failed may have been applied.
* The bucket changes between the listing and the staging of an object.
* Bytes arrive in pieces and in any order relative to the manifest; a manifest
  can be superseded, or be unreadable, while it is imported.
* One worker serves all objects and blocks in WaitBundle.
* A backup rests on repository objects that other backups wrote; their
  manifests and bytes travel on their own.
* The backup watch decides on three caches that lag independently, and only
  backups are watched.
* A worker's status write comes back to it as an event.
* Two operators may be at work (leader election is off by default).

What makes each part correct: packing respects the caps and neither loses nor
reorders a file; the source says Replicated only when published manifests cover
the backup and describe what was really sent; the destination never lets Velero
see half a backup and says Imported only of verified files; terminal phases
are final; and if the mesh delivers, both ends finish. Together: what Velero
discovers at the destination can be restored there.

`PROJECT.json` lists the hazards line by line with the properties that cover
them.

## 2. Modules

| Module | Models | Used by |
|---|---|---|
| `Batching` | Pack and its parts, as pure operators | `BatchingLoop`, `Replication` |
| `BatchingLoop` | Pack's loop as a state machine, for the invariants | `MCBatching`, `BatchingProof` |
| `PackingProof` | what Pack returns, for every list | `BatchingProof`, `ReplicationProof` |
| `BatchingProof` | theorems about the loop | |
| `BackupImport` | the destination role: bridge, reconciler, importer, with peat, API server, cache and bucket around them | `BackupImportRefinement`, `MCImportCollision`, `BackupImportProof` |
| `BackupImportProof` | theorems about the destination role | `BackupImportRefinementProof` |
| `AtomicImport` | abstract: what the destination role promises | `BackupImportRefinement`, `Snapback` |
| `BackupImportRefinement` | the mapping from `BackupImport` to `AtomicImport` | `MCImport` |
| `BackupImportRefinementProof` | the refinement, proved | |
| `Replication` | the source role: reconciler, stager, ledger, peat client, and the creation of BackupReplications | `MCReplication`, `Snapback`, `ReplicationProof` |
| `ReplicationProof` | theorems about the source role | `SnapbackProof` |
| `Snapback` | both roles: `Replication` and the `AtomicImport` of the destination, joined by peat | `MCSnapback` |
| `ReplicationService` | abstract: what Snapback promises to whoever restores | `Snapback` |
| `SnapbackProof` | the end-to-end theorem and the second refinement, proved | |
| `BackupWatch` | the backup watch with its policies, caches and the garbage collector | `MCBackupWatch`, `BackupWatchProof` |
| `BackupWatchProof` | theorems about the backup watch | |
| `RetryQueue` | work queue, status, watch events and time of one object | its own cfg |
| `StoreConfig` | resolveStore, buildImportOptions, the credentials file, New | `ObjectStore` |
| `ObjectStore` | keys, listings and the ledger in a shared bucket | `MCStore`, `ObjectStoreProof` |
| `ObjectStoreProof` | theorems about keys, the ledger and the credentials | |
| `MC*` | instances for TLC | |

### Batching, BatchingLoop

`Pack` is the recursive function `Packings` (`PackFile` over the list), then
`flush`; `ToUint` is the conversion of a negative limit to uint64. Sums are taken modulo `Word`, which
stands for 2^64. `BatchingLoop` takes one input file per step, `Finish` is the
final flush, and `PackComplete` ties the loop's result back to the operator
`Pack`, which `Replication` uses.

### BackupImport

Two goroutines interleave. The bridge: `BridgePoll` (reverse peering and
listing) and `BridgeVisit(d)` per listed document (Parse and CreateOrUpdate).
The reconciler's worker: `StartImport`, `FetchManifest`, then a pass of
`StatDest`, `Locate`, `Verify`, `Put` per entry, `PassReturns`, and
`WriteStatus`. Around them peat (`DocSync`, `Land`, `PeatRestart`), the
informer (`CacheSync`), users (`DeleteImport`, `PeerOutOfBand`) and the
operator's own `Restart`. A poll restores peat's peering with the source only
if it is told of one (`SourceEndpointID`, a constant; `Reversed`); without it,
which is the default, someone has to peer by hand. Every call can fail, up to
`MaxFaults` failures in a behaviour; a write that fails may have been applied.

How the state is abstracted:

* An API object is its document and its phase. The informer's copy is either
  current (`synced`) or some earlier state; the copy the worker took is current
  while `fresh`. A write that leaves the phase alone may or may not move the
  resourceVersion, since counts and conditions are not in the model.
* The work queue is a set: a request that comes back after a delay is in it at
  once.
* A file of the inbox goes through `Arrivals[p]`, a list of contents, so a file
  can be partial or corrupt before it is right. A content is a hash and a size.
* The entries of a manifest are visited in any order within each of the two
  loops of Import, which includes the order of the code.
* Put with another length than the entry states is refused by the object store
  (external behaviour: the client sends the length).
* The poll's read of a document's body is the document's state when the bridge
  visits it.

### Replication

The worker: `StartReplication`, `Enumerate`, `StageObject` per key,
`BeginTransmit`, then `SendBundle` and `WaitBundle` per bundle, `BundlesDone`,
`emitManifest`, `commitLedger`, `WriteStatus`. The environment: `CompleteBackup`
(Velero, which may rewrite an object), `RemoveObject`, `PeatProgress`,
`PeatRestart`, the policy, `EnsureReplication` (the backup watch),
`DeleteReplication`, `CacheSync`, `Restart`.

* An object's version stands for content, hash and ETag together. The history
  variable `need[b]` remembers what the bucket held when `b` completed.
* The ledger keeps, per key, the ETag recorded there, and 0 for the empty one.
* `Enumerate` is one step: the ledger read and the listings are adjacent and
  read different objects. The read-modify-write of the ledger is one step
  because only one worker of one replica writes it.
* `sends[g]` is what peat took under a bundle id, in incarnation `g.gen` of the
  peat process; peat reads the outbox when it takes the bundle. What it does
  with *other* files under a known id is not determined by this repository
  (`client.go:124` speaks of an identical bundle only): the constant `Resend`
  has both answers, refusal and the existing handles.
* A pass sends at most `MaxBundles` bundles, a bound of the model: `SendBundle`
  is not enabled past it, and the configurations choose it so that a pass never
  needs more.
* `EnsureReplication` stands for an event or a resync of the backup watch, with
  one policy that is active, paused or missing; `BackupWatch` has the detail.

### AtomicImport, BackupImportRefinement

`AtomicImport` has three variables: the manifests that have arrived, the
destination bucket, and which work items say Imported. Its steps: a file of an
arrived manifest is copied (`CopyData`), the discovery object is copied on top
of the complete data of one manifest (`Publish`), a work item says Imported
when every file of a manifest is there (`Finish`). The mapping forgets the
goroutines, the cache, the queue, the inbox and the failures of `BackupImport`:
the bucket maps to itself, `arrived[d]` is the committed ones among the
versions of the document that the sync has reached (one it jumped over counts
as arrived), `imported` is read off the phases. `ImplementsAtomicImport` checks
that every step of the detailed module is one step or a stutter of the abstract
one.

### Snapback, ReplicationService

`Snapback` runs `Replication` unchanged and, interleaved with it, a destination
made of the actions of `AtomicImport`, narrowed by what peat has delivered:
`SyncDocument` hands over a manifest as it is now, and `ImportFile` copies only
a file whose bytes have been distributed (`LandedFile`) and that is not taken
for present. The destination may work with an old manifest when a new one has
arrived, and may stop at any point, as it does when Imported is terminal. By
the refinement above the result carries over to `BackupImport`. It is assumed
that no object is rewritten (`NoRewriteAssumption`), since the importer would
take an old version of the same size for the new one.

`ReplicationService` knows backups only: `completed[b]`, `lost[b]` (what the
source has lost since) and `image[b]`, what a restore at the destination finds.
An image appears in one step with everything that is not lost and never shrinks
or changes. `ImplementsService` maps `need` to `completed` and the destination
bucket to the images.

### BackupWatch

`Reconcile(n)` is one step, because it makes at most one write and everything
between its reads and its write is a longer lag of a cache. There are three
caches: backups (`SyncBackup`, which enqueues), policies (`SyncPolicy`) and
BackupReplications (`SyncBr`). `CreateOrUpdate` creates when its cache has
nothing, does nothing when the copy is as wanted, and else updates under the
copy's resourceVersion (`synced`); SetControllerReference compares kind and
name of an owner, not its uid, so the object of an earlier backup of the name
is taken over, with the phase it has (`FinishReplication` is the source role's
status write). The cluster's garbage collector removes an object whose owner's
uid is gone. `Matches` is every policy that matchPolicy may return: the cache
lists in no particular order; `Refused` are those whose selector is invalid, on
which it may stop with an error.

### RetryQueue

One object, its status, the informer's copy, whether it is queued, and the
times of its delayed requests. An unsuccessful pass writes the status and asks
for `requeueAfterTransient`; the write is an event only if it changes the
status, which `transientErr` always does (RetryCount) and `degrade` with the
same message does not. A pass takes no time.

### StoreConfig, ObjectStore

A pass resolves its store from an `input` (location, overrides, what reading
either secret gives), scans a credentials file line by line, picks a section
and opens the store. A value in the file is the number of its line, so
provenance is visible, and the map iteration of pickProfile is a set of
results. `ObjectStore` goes on from there: the store just opened, another
location in the same bucket, and two operators that commit the location's
ledger by GetLedger and PutLedger. Keys are sequences of name parts and
slashes. The bucket waits until the pass has opened its store, which loses
nothing: before that the two share no state.

## 3. Runs

All runs have CHECK_DEADLOCK FALSE: when everything is imported or replicated
and the failures are used up, the system rests.

| Run | Bounds | What it shows |
|---|---|---|
| `batching` | lists of up to 4 files of sizes 0, 1, 3, 7; word 16; file limits -1, 0, 1, 3; byte limits -1, 0, 1, 4, 7 | Caps, order, exact sums, greedy closing, completeness. |
| `import` | two backups that share an object; two manifest versions of one, three of the other, of which one is uncommitted and one garbled; a file that lands in three steps; no source endpoint; one failure | TypeOK, NoHalfBackup, ImportedVerified, VerifiedOnly, TerminalIsFinal, ImplementsAtomicImport. |
| `import_live` | two backups: the object of one lands in pieces and under another distribution than its entry names, the other's primary path ends up with other content of the same size; a source endpoint; one failure | EveryManifestImported, EverythingLands. |
| `import_collision` | no failure | *Violation*: two documents share one BackupImport. |
| `replication` | two backups of one location rewriting one object, two bundles per pass, one failure or one removed object; peat refuses other files under a known id | TypeOK, ReplicatedCovers, ManifestHonest, TransmittedOnly, LedgerAfterManifest, TerminalIsFinal. |
| `replication_live` | two backups of a location each, one of them in two bundles; distributions complete or fail; one failure; peat answers a known id with its handles | EveryBackupReplicated. |
| `snapback` | two backups, the second of which rests on the object of the first; two files per bundle; one failure, one object removed at the source; peat refuses | VisibleIsRestorable, ImplementsService. |
| `snapback_resend` | two backups with an object each, one failure; peat answers a known id with its handles | *Violation*: a backup is visible without one of its objects. |
| `watch` | one name, two backups of it in turn; one policy that is active, paused, moved or absent and one whose selector is valid or not; the source role finishing at any time; two changes, failures or restarts | TypeOK, OwnedByCompleted, EveryBackupEnsured, NothingStays. |
| `watch_destination` | two policies that select one backup; no failure | *Violation*: the BackupReplication changes its policy. |
| `retry` | one object, a delay of three ticks, three transient errors | *Violation*: three errors within one delay. |
| `store` | twelve inputs; files of up to five lines over three headers, four keys, an empty value and a comment; the location of the pass, one that begins alike and one with the ledger's directory as its prefix; three keys, two operators | CredentialsOfOneProfile, ListIsExact, NoLostUpdate. |

Why the bounds are enough to be interesting: in `import` both imports can be
under way in turn while the other's manifest is superseded; the shared object
is found under the other backup's distribution by the index; the one failure
is any failed call, a lost answer, a restart of peat or of the operator, or a
deletion, at every point of a pass. In `import_live` the first backup is
imported only if a later pass builds its index anew, and only if the second,
which may never be imported, does not hold the worker. In `replication_live`
the one failure can be the restart of peat that clears a failed distribution;
without the premise on failed distributions the run ends in a counterexample.
In `replication` one failure is enough for
a pass to be repeated while another backup completes. Two bundles are the
smallest number for which peat can restart between them. In `snapback` the
manifest of the second backup can be imported before that of the first, and
again after the shared object is gone at the source. In `watch` the second
backup of a name can complete while every cache still shows the first. In
`store` five lines hold two sections of which one is usable. In `batching` the
word is small enough for the sums to pass half of it.

Each property has a mutant, an operator named after the definition it breaks
and placed before it, under a comment that says what is wrong with it.

### Fairness

* WF for the bridge (`BridgeStep`), the worker (`WorkerStep`) and the informer:
  each is a goroutine that runs.
* SF for `StartImport` and `StartReplication`: the work queue is first in first
  out and the one worker returns to it, so a request in the queue is taken even
  though the worker is busy again and again in between.
* WF for `Mesh` (`DocSync`, and `Land` while peered) and for `Progress`: the mesh
  delivers, or gives a distribution up. This is the promise the code rests on
  and cannot give. Nobody promises `PeerOutOfBand`: EverythingLands is claimed
  only with a SourceEndpointID.
* EveryManifestImported has as its premise that the bytes stay where `locate`
  finds them, EveryBackupReplicated that peat does not go on holding a failed
  distribution of the backup: no amount of retrying overcomes these two.
* In `BackupWatch`, WF for the informers, their resync, Reconcile and the garbage
  collector, which the cluster runs; none for Velero or for whoever edits
  policies. EveryBackupEnsured has as its premise that the backup stays
  Completed, some policy goes on selecting it and no selector is invalid.
* WF for `EnsureReplication` in `Replication`: the informer's periodic resync, since the watch
  does not follow policies. WF for `PolicyRestored`: someone repairs a broken
  policy; while it is paused nothing should happen.

Failures are bounded by `MaxFaults`, not made fair: liveness says that the
system recovers from any failures that stop.

## 4. Proofs

Every invariant, action property and refinement of a passing run is the
statement of a theorem. TLC checked each inductive invariant below on the run of its
component before it was proved.

### Packing

`PackingProof` is about Pack as an operator. Pack is a recursive function of
the position in the list, and the provers have no induction; the least-element
theorem for well-founded relations (WFMin) is about sets, so a property written
as a set of numbers can be proved by induction with it (`LeastNumber`,
`Induction`). `PackKeepsFiles` says that the batches hold exactly the files of
the input and none is empty.

`BatchingProof`, for every list of files of sizes below half a word, all limits
and every word size:

* `CapsCorrect`, `OrderCorrect`. The invariant is the state of the
  loop between two files: the closed bundles are non-empty and within the caps,
  the open one too, and together they are the consumed prefix of the input,
  position by position.
* `ClosedOnlyWhenFullCorrect`: `FullBatches` says it of two bundles that follow
  one another, the open one included, through the first file of the later one.
* `BytesExactCorrect`: `HalfWord` says that under a byte limit below half a word
  the count of the open bundle is exact and below half a word, so that adding a
  file below half a word cannot wrap. The true sum is a recursive function,
  and what it gives for one more file is proved by induction as above.
* `PackCompleteCorrect`: the loop's state after n files is `Packings[n]`
  (`LoopIsPack`), and the batches are laid over the input in order
  (`LaidInOrder`).

### Source role

`ReplicationProof`, for any backups, locations, listings, limits and number of
failures and removals. The steps are first reduced to what they do to each
part of the state (`Moves`), so that each part of the invariant is proved
against few cases.

* `PassInv` needs nothing of peat: synced copies are the object (`SyncedOK`), a
  fresh copy or a sending worker works on an object that is not terminal
  (`OpenOK`), what was staged is a prefix of the keys and still in the outbox
  (`StagedOK`), and each entry is a handle of a distribution, which is
  completed when the worker believes so (`HandlesOK`). It gives `TypeCorrect`,
  `TransmittedOnlyCorrect` and `TerminalIsFinalCorrect`.
* `ManifestInv` adds what a manifest means: entries tell the truth
  (`HonestOK`), the bucket never returns to an old version (`NeedOK`), the
  ledger has no ETag and so hides nothing (`LedgerOK`), the pass ships what the
  backup needs (`ShipsOK`), the bundles sent so far have their entries
  (`EntriesOK`), by `PackKeepsFiles`, and Replicated means covered
  (`CoversOK`). It gives `ManifestHonestCorrect`, `ReplicatedCoversCorrect` and
  `LedgerAfterManifestCorrect`, under the hypothesis `Resend = "reject"`: with
  the other peat they are false (section 5, 1).

Assumed of the constants: a listing has no key twice and metadata is not in
the repository (`KeysAssumption`), and sizes fit the word (`SizeAssumption`).

### Destination role

`BackupImportProof`, for all documents, manifests, landing histories and any
number of failures:

* `TypeCorrect`. TypeOK is not inductive by itself: a status write of a stale
  copy could bring a deleted object back without its document. `TypeInv` adds
  `FreshOK` (a copy that is fresh is the object) and `SyncedOK` (a synced cache
  entry is the object).
* `VerifiedOnlyCorrect`: between verify and Put the path found for the entry
  still has the entry's content (`AcceptedOK`), since by `LandedIsFinal` it
  cannot land further.
* `NoHalfBackupCorrect`: entries the pass is done with are in the bucket with
  the right content or the pass is pending (`DoneOK`); a discovery entry is at
  hand only after every data entry is done and nothing is pending
  (`DeferredOK`); the manifest of the pass is a committed version of some
  document that has synced (`CommittedOK`). That the bucket keeps them needs
  `VerifiedOnly` and `Immutable`, which also turns a match in size into a match
  in content.
* `ImportedVerifiedCorrect`: in addition the worker's copy names the document of
  the manifest of the pass, and a copy about to be written as Imported stands
  for a complete one (`MyOK`); the object keeps its document (`NamesOK`), which
  needs `DistinctNames`.
* `TerminalIsFinalCorrect`: a worker's copy was not terminal when it was taken
  (`OpenOK`), and a fresh copy is the object.
* `ImplementsAtomicImportCorrect` (`BackupImportRefinementProof`): with these
  invariants Put is CopyData or, for a discovery entry, Publish; DocSync is
  Deliver; the write of Imported is Finish; every other step is a stutter.

The hypotheses are about the environment and are stated in `BackupImport`:

* `Immutable`: no key has two contents in the manifests. True of Kopia's
  content-addressed packs, not of all of a repository's files; without it an
  old object of the same size is taken for the new one (section 5).
* `DistinctNames`: no two documents share a BackupImport name; without it
  `import_collision` is the result.
* `LandedIsFinal`: peat leaves a file alone once it is what some entry expects.

`MCImport` assumes all three, so TLC evaluates them on the instance whose
properties the theorems state.

### End to end

`SnapbackProof`: `VisibleIsRestorableCorrect` and `ImplementsServiceCorrect`,
for a peat that refuses. `SnapbackInv` is the invariant of the source, with
three facts that hold where no object is rewritten (every version is 1, a pass
ships the metadata of its backup and the repository, a manifest that was ever
published covers its backup), and two of the destination: every manifest that
has arrived covers its backup (`ArrivedOK`), and a visible backup has
everything that the source still has (`StoreOK`). The second is inductive only
because each manifest names the whole repository (section 5, on ETags).
`NoRewriteAssumption` says that no two backups write the same object;
`ImageAssumption` that the value for "no image" is not an image.

### Backup watch

`BackupWatchProof`: `TypeCorrect` and `OwnedByCompletedCorrect`. OwnedByCompleted
is not inductive, because Reconcile decides on copies: `CompletedOK` adds that
a backup, and a cached copy of one, that says Completed has been so.

### Object store and credentials

`ObjectStoreProof`:

* `NoLostUpdateCorrect` for any number of operators and any layout: a write
  starts from the ledger that is there, and no object is put where a ledger is.
* `ListIsExactCorrect` for keys and prefixes of any length. `BucketInv`: what
  was put is in the bucket under its full key (`PutOK`), and beside it there is only the ledger (`HoldsOK`). The rest is
  about sequences: relKey undoes fullKey, and an object of another location
  found by a listing would begin in two ways that exclude each other. The
  layout has to grant that no location is inside another one and that the ledger
  is neither an object's key nor in a directory that is listed (`Separated`;
  it may lie within a location's prefix), and that keys are sequences
  (`KeysOK`); `MCStore` assumes both, so TLC evaluates them. Two locations of
  which one is inside the other do see each other's objects.
* `CredentialsOfOneProfileCorrect` for files of any length and any section
  names: the maps that the scanner has built are what the lines say (`ScanOK`),
  line by line, and pickProfile then picks what the definition read off the
  file calls for.

### Only model-checked

The liveness properties (EveryManifestImported, EverythingLands,
EveryBackupReplicated, EveryBackupEnsured, NothingStays), since these provers
do not do fairness and ENABLED; and the runs that end in a violation, which a
proof could not show. RECURSIVE operators are avoided throughout; recursive
functions are proved about with WFMin as above.

## 5. Where code and comments differ

With a run that TLC ends with a counterexample; `PROJECT.json` quotes the lines.

1. Bundle ids are stable, the files behind them are not (`snapback_resend`).
   The id is the object's name and the batch index, but each pass enumerates
   anew. If peat recognises a bundle by its id, the second pass gets the
   handles of the first, attributes them by position, and publishes a committed
   manifest that ends early; the destination imports it, and Imported is
   terminal. If peat refuses, the backup is stuck until peat forgets.
   ManifestHonest and VisibleIsRestorable are checked with a peat that refuses,
   EveryBackupReplicated with one that answers; neither peat gives both.
2. `importName` is not injective (`import_collision`).
3. With two policies that select a backup, its BackupReplication moves between
   them at every resync (`watch_destination`).
4. Transient errors are retried at once (`retry`): the status write that counts
   the retry wakes the worker. The delay only bounds how long it may sleep.

Read off the source:

* `commitLedger` records keys without ETags (a TODO says so) and
  `enumerateDelta` compares ETags, so every backup ships the whole repository
  again. That is why a backup never becomes visible before the objects it rests
  on: each manifest names them all. The mutant `CommittedWithETags` records the
  ETags, as planned there, and breaks VisibleIsRestorable: the manifest of the
  second backup no longer names the object of the first, and may arrive before
  it. The fix of the ledger needs a remedy for this.
* No code sets the phase Failed of a BackupReplication, which
  `backupreplication_types.go:23` reserves for exhausted retries.
* An object of the right size is taken for imported without a look at its
  content (`importer.go:118`), although `importer.go:111` says verified.
* `locate` does not fall back when the primary path exists with the wrong
  content (`importer.go:155`), although `importer.go:150-152` says it
  disambiguates by content.
* A distribution that peat has given up (FAILED) is found again by every pass,
  since the same bundle id is sent (`backupreplication_controller.go:176-223`):
  the backup waits until peat forgets the bundle, at a restart or when its
  handle retention ends (`charts/snapback/values.yaml:68-70`, seven days). In
  the model only a restart makes peat forget.
* Without a SourceEndpointID, which is the default (`main.go:87`,
  `charts/snapback/values.yaml:121-124`), a restart of the destination's peat
  ends the transfer until someone peers by hand.
* When a backup is deleted and created again under its name before the garbage
  collector has been there, its BackupReplication is taken over with its phase
  (`backup_controller.go:64-70`); if that was Replicated, the new backup is
  never replicated.
* A snapshot-only backup is Replicated, not Skipped, because its metadata is
  always listed (`backupreplication_controller.go:119`,
  `backupreplication_types.go:25`).
* The outbox path of a key is shared by all locations and replaced while an
  earlier distribution may still serve it (`outbox.go:94`); `Release` is never
  called.
* `caBundleSecretRef` of a policy and `caCert` of a location are never read by
  resolveStore. A credentials secret with an empty value means no credentials
  on the source and an error on the destination.
* The fallback of `pickProfile` also applies when the requested section is there
  but empty; `creds.go:22` says "absent", line 82 "non-empty".
* The ledger lies in Velero's view of a location without a prefix, and of one
  whose prefix is `snapback`, contrary to `objstore.go:19-23` ("outside every
  prefixed BSL's view"); and the ledger's key has the location's name only,
  which two clusters with one bucket may share (`backupreplication_controller.go:333`).

## 6. Not modelled

* Regions, TLS options and path style of a store; trimming and case folding of
  credentials files; JSON of manifests, ledger and the connect protocol;
  conditions, counts and bundle statuses in the API objects.
* `cmd/main.go` beyond buildImportOptions, charts, CRDs, packages, generated
  deep copies: wiring and data.
* What peat does with an outbox file that is replaced while it serves it, and a
  capacity of the outbox.
* `safeRelPath`: the keys that Velero and Kopia write are relative and clean;
  a refused key is a failure of `StageObject`.
* Time, outside `RetryQueue`: elsewhere a request after a delay and one after an
  event are the same.

## 7. Plan

Done: all modules above, the two refinements, and the proof of every safety
property and refinement that a passing run checks.

Left:

1. Facts about `RetryQueue` that hold (the delay bounds how long a failed pass
   may sleep), which no run checks yet.
2. Weaker hypotheses: what remains of ManifestHonest for a peat that answers a
   known id, and of ImportedVerified when keys are rewritten.
