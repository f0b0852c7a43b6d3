---------------------------- MODULE BackupImport ----------------------------
(***************************************************************************)
(* The destination role of Snapback: ManifestBridge polls the manifests    *)
(* that peat has synced and creates one BackupImport per committed         *)
(* manifest; BackupImportReconciler drives each one to Imported by running *)
(* Importer.Import passes, which copy the files peat has landed on the     *)
(* inbox into the destination bucket, the Velero discovery object last.    *)
(*                                                                         *)
(* The two goroutines, the informer cache between them and the API server, *)
(* peat (documents and inbox) and process restarts interleave freely. One  *)
(* action is one call to a neighbour: an API request, an object-store      *)
(* request, or one look at the inbox.                                      *)
(***************************************************************************)
EXTENDS Integers, Sequences

CONSTANTS
  Docs,             \* manifest documents: [bsl, backup], sequences of symbols
  Emitted,          \* Emitted[d]: the manifests the source puts for d, in order
  Arrivals,         \* Arrivals[p]: the contents path p goes through while landing
  DiscoveryObject,  \* the basename "velero-backup.json"
  MaxName,          \* 253: importName truncates to it
  SourceEndpointID, \* the peat peer to dial back to, "" if peered by hand
  MaxFaults,        \* bound on failed calls, restarts and deletions together
  Nil

\* manifest.DocID joins with a "/", which no name contains: a document is its
\* pair. importName joins with a "-", which both names may contain.
importName(d) ==
  LET n == d.bsl \o <<"-">> \o d.backup
  IN  IF Len(n) > MaxName THEN SubSeq(n, 1, MaxName) ELSE n

Names == {importName(d) : d \in Docs}

\* A path of the inbox is [dist, base]: inbox/<distributionID>/<basename>.
Paths == DOMAIN Arrivals

Manifests == UNION {{Emitted[d][v] : v \in 1 .. Len(Emitted[d])} : d \in Docs}
Entries   == UNION {m.Files : m \in Manifests}
Keys      == {e.Key : e \in Entries}

Basename(e)    == e.Key[Len(e.Key)]
IsDiscovery(e) == Basename(e) = DiscoveryObject
ContentOf(e)   == [SHA256 |-> e.SHA256, Size |-> e.Size]
Contents       == UNION {{Arrivals[p][i] : i \in 1 .. Len(Arrivals[p])} : p \in Paths}

Phases    == {"None", "Pending", "Importing", "Imported", "Failed"}
Terminal  == {"Imported", "Failed"}
Absent    == [doc |-> Nil, phase |-> "Absent"]
Exists(o) == o.phase # "Absent"

ASSUME DocsAssumption == \A d \in Docs : Len(Emitted[d]) \in Nat
ASSUME ArrivalsAssumption == \A p \in Paths : Len(Arrivals[p]) \in Nat
ASSUME BoundAssumption == MaxFaults \in Nat
ASSUME NilAssumption == /\ Nil \notin Entries /\ Nil \notin Paths
                        /\ Nil \notin Contents /\ Nil \notin Docs
                        /\ Nil \notin Names /\ Nil \notin Manifests

VARIABLES
  docs,     \* docs[d]: the version of d that peat has synced, 0 if none
  inbox,    \* inbox[p]: how far p has landed, 0 if the file does not exist
  peered,   \* the reverse ConnectPeer is in force: peat can pull
  dest,     \* the destination bucket: content by key, Nil if absent
  bi,       \* BackupImport objects in the API server
  cache,    \* the informer's copy of them
  synced,   \* the names whose cached copy has the current resourceVersion
  queue,    \* the reconciler's work queue, delayed requests included
  bridge,   \* documents the current poll has listed and not yet visited
  pc, cur,  \* the worker: next call, and the name it reconciles
  my,       \* the worker's copy of that BackupImport
  fresh,    \* that copy still has the current resourceVersion
  man,      \* the manifest of this pass
  todo,     \* its entries that the pass has not finished with
  pending,  \* Result.Pending > 0
  ent, src, \* the entry at hand, and the inbox path found for it
  idx,      \* the lazily built inboxIndex: the paths it has seen, or Nil
  faults

envVars    == <<docs, inbox, peered>>
apiVars    == <<bi, cache, synced>>
workerVars == <<pc, cur, my, fresh, man, todo, pending, ent, src, idx>>
vars == <<envVars, dest, apiVars, queue, bridge, workerVars, faults>>

FileExists(p)   == p \in Paths /\ inbox[p] > 0
InboxContent(p) == Arrivals[p][inbox[p]]
Matches(p, e)   == FileExists(p) /\ InboxContent(p) = ContentOf(e)

\* The worker between two requests.
Idle ==
  /\ pc = "idle" /\ cur = Nil /\ my = Absent /\ fresh = FALSE /\ man = Nil
  /\ todo = {} /\ pending = FALSE /\ ent = Nil /\ src = Nil /\ idx = Nil

GoIdle ==
  /\ pc' = "idle" /\ cur' = Nil /\ my' = Absent /\ fresh' = FALSE /\ man' = Nil
  /\ todo' = {} /\ pending' = FALSE /\ ent' = Nil /\ src' = Nil /\ idx' = Nil

Init ==
  /\ docs = [d \in Docs |-> 0]
  /\ inbox = [p \in Paths |-> 0]
  /\ peered = FALSE
  /\ dest = [k \in Keys |-> Nil]
  /\ bi = [n \in Names |-> Absent]
  /\ cache = bi
  /\ synced = Names
  /\ queue = {}
  /\ bridge = {}
  /\ Idle
  /\ faults = 0

-----------------------------------------------------------------------------
(* The environment.                                                        *)

Fault == faults < MaxFaults /\ faults' = faults + 1

\* peat's document sync delivers a later version, perhaps not the next one.
DocSync(d) ==
  /\ \E v \in (docs[d] + 1) .. Len(Emitted[d]) : docs' = [docs EXCEPT ![d] = v]
  /\ UNCHANGED <<inbox, peered, dest, apiVars, queue, bridge, workerVars, faults>>

\* peat pulls more bytes of a file: only while it can dial the source.
Land(p) ==
  /\ peered
  /\ inbox[p] < Len(Arrivals[p])
  /\ inbox' = [inbox EXCEPT ![p] = @ + 1]
  /\ UNCHANGED <<docs, peered, dest, apiVars, queue, bridge, workerVars, faults>>

\* The peat sidecar restarts and forgets its peers.
PeatRestart ==
  /\ peered /\ Fault
  /\ peered' = FALSE
  /\ UNCHANGED <<docs, inbox, dest, apiVars, queue, bridge, workerVars>>

\* Without a SourceEndpointID someone peers the sidecars by hand, and again
\* after a restart, if ever.
PeerOutOfBand ==
  /\ SourceEndpointID = "" /\ ~peered
  /\ peered' = TRUE
  /\ UNCHANGED <<docs, inbox, dest, apiVars, queue, bridge, workerVars, faults>>

\* The informer sees the latest version of an object and enqueues it.
CacheSync(n) ==
  /\ n \notin synced
  /\ cache' = [cache EXCEPT ![n] = bi[n]]
  /\ synced' = synced \cup {n}
  /\ queue' = queue \cup {n}
  /\ UNCHANGED <<envVars, dest, bi, bridge, workerVars, faults>>

\* A write that changes object n moves its resourceVersion, and the cache is
\* behind. One that leaves the phase alone may or may not change the retry
\* count, the file counts or a condition.
Write(n, o) ==
  /\ bi' = [bi EXCEPT ![n] = o]
  /\ synced' = synced \ {n} \/ (o = bi[n] /\ synced' = synced)

\* Someone deletes a BackupImport.
DeleteImport(n) ==
  /\ Exists(bi[n]) /\ Fault
  /\ Write(n, Absent)
  /\ fresh' = (fresh /\ cur # n)
  /\ UNCHANGED <<envVars, dest, cache, queue, bridge,
                 pc, cur, my, man, todo, pending, ent, src, idx>>

\* The operator restarts: everything in memory is lost, and the new informer
\* lists and enqueues every object.
Restart ==
  /\ Fault
  /\ cache' = bi /\ synced' = Names
  /\ queue' = {n \in Names : Exists(bi[n])}
  /\ bridge' = {}
  /\ GoIdle
  /\ UNCHANGED <<envVars, dest, bi>>

-----------------------------------------------------------------------------
(* ManifestBridge.                                                         *)

\* ensureReversePeer, which does nothing without a SourceEndpointID.
Reversed == peered \/ SourceEndpointID # ""

\* poll, up to the list of documents: the reverse peering and the listing may
\* each fail, and the poll goes on without the one or ends without the other.
\* Mutant: the reverse peering is issued only while there is no work item.
BridgePollPeersOnce ==
  /\ bridge = {}
  /\ peered' = IF \A n \in Names : ~Exists(bi[n]) THEN Reversed ELSE peered
  /\ bridge' = {d \in Docs : docs[d] > 0}
  /\ UNCHANGED <<docs, inbox, dest, apiVars, queue, workerVars, faults>>

BridgePoll ==
  /\ bridge = {}
  /\ \/ peered' = Reversed /\ bridge' = {d \in Docs : docs[d] > 0} /\ UNCHANGED faults
     \/ Fault /\ UNCHANGED peered /\ bridge' = {d \in Docs : docs[d] > 0}
     \/ Fault /\ peered' = Reversed /\ UNCHANGED bridge
  /\ UNCHANGED <<docs, inbox, dest, apiVars, queue, workerVars>>

Committed(m) == m.Parses /\ m.Complete

\* CreateOrUpdate: the object is read from the cache. A create fails when the
\* object exists after all, an update when the cached copy is out of date.
ensureBackupImport(d) ==
  LET n == importName(d)
      old == cache[n]
      new == IF Exists(old) THEN [old EXCEPT !.doc = d]
                           ELSE [doc |-> d, phase |-> "None"]
      wins == IF Exists(old) THEN n \in synced ELSE ~Exists(bi[n])
  IN  IF new # old /\ wins
        THEN Write(n, new) /\ fresh' = (fresh /\ cur # n)
        ELSE UNCHANGED <<bi, synced, fresh>>

\* poll, one document of the list. A failed read or write is left to the
\* next poll.
BridgeVisit(d) ==
  /\ d \in bridge
  /\ bridge' = bridge \ {d}
  /\ \/ /\ Committed(Emitted[d][docs[d]])
        /\ ensureBackupImport(d)
        /\ UNCHANGED faults
     \/ /\ ~Committed(Emitted[d][docs[d]])
        /\ UNCHANGED <<bi, synced, fresh, faults>>
     \/ Fault /\ UNCHANGED <<bi, synced, fresh>>
  /\ UNCHANGED <<envVars, dest, cache, queue,
                 pc, cur, my, man, todo, pending, ent, src, idx>>

-----------------------------------------------------------------------------
(* BackupImportReconciler.                                                 *)

\* The worker goes on to write its copy, with phase p, and then either drops
\* the request ("final") or puts it back ("wait").
GoWrite(p, how) ==
  /\ my' = [my EXCEPT !.phase = p]
  /\ pc' = how
  /\ man' = Nil /\ todo' = {} /\ pending' = FALSE
  /\ ent' = Nil /\ src' = Nil /\ idx' = Nil
  /\ UNCHANGED <<cur, fresh>>

\* Reconcile, the read of the object: nothing to do when it is gone or
\* terminal, otherwise the manifest is fetched next.
\* Mutant: the request of an object that is gone is not dropped.
StartImportGone(n) ==
  /\ pc = "idle" /\ n \in queue
  /\ queue' = queue \ {n}
  /\ IF cache[n].phase \notin Terminal
       THEN /\ pc' = "fetch" /\ cur' = n /\ my' = cache[n]
            /\ fresh' = (n \in synced)
            /\ UNCHANGED <<man, todo, pending, ent, src, idx>>
       ELSE UNCHANGED workerVars
  /\ UNCHANGED <<envVars, dest, apiVars, bridge, faults>>

StartImport(n) ==
  /\ pc = "idle" /\ n \in queue
  /\ queue' = queue \ {n}
  /\ IF Exists(cache[n]) /\ cache[n].phase \notin Terminal
       THEN /\ pc' = "fetch" /\ cur' = n /\ my' = cache[n]
            /\ fresh' = (n \in synced)
            /\ UNCHANGED <<man, todo, pending, ent, src, idx>>
       ELSE UNCHANGED workerVars
  /\ UNCHANGED <<envVars, dest, apiVars, bridge, faults>>

\* GetDocument and Parse, with every way out of Reconcile before the pass.
FetchManifest ==
  /\ pc = "fetch"
  /\ LET v == docs[my.doc]
         m == Emitted[my.doc][v]
     IN  \/ v = 0 /\ GoWrite("Pending", "wait") /\ UNCHANGED faults
         \/ v > 0 /\ ~m.Parses /\ GoWrite("Failed", "final") /\ UNCHANGED faults
         \/ /\ v > 0 /\ m.Parses /\ ~m.Complete
            /\ GoWrite("Pending", "wait") /\ UNCHANGED faults
         \/ /\ v > 0 /\ Committed(m)
            /\ my' = [my EXCEPT !.phase = "Importing"]
            /\ pc' = "next" /\ man' = m /\ todo' = m.Files
            /\ UNCHANGED <<cur, fresh, pending, ent, src, idx, faults>>
         \/ Fault /\ GoWrite(my.phase, "wait")   \* dial or fetch fails
  /\ UNCHANGED <<envVars, dest, apiVars, queue, bridge>>

\* Status().Update, then the end of Reconcile: the request comes back after
\* a delay, after an error, or not at all. The update is refused when the
\* copy is out of date; it may also fail before or after it was applied.
\* Mutant: the update does not carry the resourceVersion of the copy.
WriteStatusForced ==
  /\ pc \in {"wait", "final"}
  /\ IF Exists(bi[cur]) THEN Write(cur, [bi[cur] EXCEPT !.phase = my.phase])
                       ELSE UNCHANGED <<bi, synced>>
  /\ queue' = IF pc = "wait" THEN queue \cup {cur} ELSE queue
  /\ GoIdle
  /\ UNCHANGED <<envVars, dest, cache, bridge, faults>>

WriteStatus ==
  /\ pc \in {"wait", "final"}
  /\ \/ /\ fresh
        /\ Write(cur, [bi[cur] EXCEPT !.phase = my.phase])
        /\ queue' = IF pc = "wait" THEN queue \cup {cur} ELSE queue
        /\ UNCHANGED faults
     \/ /\ ~fresh
        /\ queue' = queue \cup {cur}
        /\ UNCHANGED <<bi, synced, faults>>
     \/ /\ Fault
        /\ queue' = queue \cup {cur}
        /\ \/ UNCHANGED <<bi, synced>>
           \/ fresh /\ Write(cur, [bi[cur] EXCEPT !.phase = my.phase])
  /\ GoIdle
  /\ UNCHANGED <<envVars, dest, cache, bridge>>

-----------------------------------------------------------------------------
(* Importer.Import, in the order of its two loops: every data entry once,  *)
(* then, with nothing pending, the discovery entries. The order within a   *)
(* loop is the manifest's, here any order.                                 *)

Passing == {"next", "locate", "verify", "put"}

DataLeft == {e \in todo : ~IsDiscovery(e)}

\* Mutant: the discovery entries are not deferred.
NextEntriesUndeferred == todo

NextEntries ==
  IF DataLeft # {} THEN DataLeft ELSE IF pending THEN {} ELSE todo

\* A pass that fails is a transient error: the phase stays Importing.
PassFails == Fault /\ GoWrite(my.phase, "wait")

\* importOne, the idempotent skip: done when the bucket holds e.Size bytes.
SkipPresent(e) == dest[e.Key] # Nil /\ dest[e.Key].Size = e.Size

StatDest ==
  /\ pc = "next"
  /\ \E e \in NextEntries :
        \/ /\ SkipPresent(e)
           /\ todo' = todo \ {e}
           /\ UNCHANGED <<pc, cur, my, fresh, man, pending, ent, src, idx, faults>>
        \/ /\ ~SkipPresent(e)
           /\ ent' = e /\ pc' = "locate"
           /\ UNCHANGED <<cur, my, fresh, man, todo, pending, src, idx, faults>>
        \/ PassFails
  /\ UNCHANGED <<envVars, dest, apiVars, queue, bridge>>

\* importOne returns done=false: a data entry is counted and the loop goes
\* on, a discovery entry ends the pass.
NotLanded(index) ==
  /\ pending' = TRUE
  /\ todo' = todo \ {ent}
  /\ idx' = index
  /\ pc' = "next" /\ ent' = Nil /\ src' = Nil
  /\ UNCHANGED <<cur, my, fresh, man, faults>>

\* locate: the primary path if it exists, else a path of the index, built at
\* the first miss of the pass, with the right name and content.
Primary(e) == [dist |-> e.DistributionID, base |-> Basename(e)]

Candidates(index, e) == {p \in index : p.base = Basename(e) /\ Matches(p, e)}

Locate ==
  /\ pc = "locate"
  /\ LET index == IF idx = Nil THEN {p \in Paths : FileExists(p)} ELSE idx
         Found(p, i) == /\ src' = p /\ idx' = i /\ pc' = "verify"
                        /\ UNCHANGED <<cur, my, fresh, man, todo, pending, ent, faults>>
     IN  \/ FileExists(Primary(ent)) /\ Found(Primary(ent), idx)
         \/ /\ ~FileExists(Primary(ent))
            /\ \/ \E p \in Candidates(index, ent) : Found(p, index)
               \/ Candidates(index, ent) = {} /\ NotLanded(index)
         \/ PassFails
  /\ UNCHANGED <<envVars, dest, apiVars, queue, bridge>>

\* verify: a wrong size means the file is still arriving, a wrong hash of the
\* right size is an error (and no fault of the model's budget).
\* Mutant: the size is all that is checked.
VerifySize ==
  /\ pc = "verify"
  /\ \/ InboxContent(src).Size # ent.Size /\ NotLanded(idx)
     \/ /\ InboxContent(src).Size = ent.Size
        /\ pc' = "put"
        /\ UNCHANGED <<cur, my, fresh, man, todo, pending, ent, src, idx, faults>>
  /\ UNCHANGED <<envVars, dest, apiVars, queue, bridge>>

Verify ==
  /\ pc = "verify"
  /\ LET c == InboxContent(src)
     IN  \/ c.Size # ent.Size /\ NotLanded(idx)
         \/ /\ c.Size = ent.Size /\ c.SHA256 # ent.SHA256
            /\ GoWrite(my.phase, "wait") /\ UNCHANGED faults
         \/ /\ c = ContentOf(ent)
            /\ pc' = "put"
            /\ UNCHANGED <<cur, my, fresh, man, todo, pending, ent, src, idx, faults>>
         \/ PassFails
  /\ UNCHANGED <<envVars, dest, apiVars, queue, bridge>>

\* Put streams what the path holds now, which is read again after verify; it
\* may fail before or after the object was written. A reader of another
\* length than e.Size is refused.
Put ==
  /\ pc = "put"
  /\ LET c == InboxContent(src)
     IN  \/ /\ c.Size = ent.Size
            /\ dest' = [dest EXCEPT ![ent.Key] = c]
            /\ todo' = todo \ {ent}
            /\ pc' = "next" /\ ent' = Nil /\ src' = Nil
            /\ UNCHANGED <<cur, my, fresh, man, pending, idx, faults>>
         \/ c.Size # ent.Size /\ GoWrite(my.phase, "wait") /\ UNCHANGED <<dest, faults>>
         \/ PassFails /\ UNCHANGED dest
         \/ c.Size = ent.Size /\ PassFails /\ dest' = [dest EXCEPT ![ent.Key] = c]
  /\ UNCHANGED <<envVars, apiVars, queue, bridge>>

\* The pass returns: Committed only when nothing is left and nothing pending.
\* Mutants: the pending files are not counted, and the request is dropped
\* when some are pending.
PassReturnsEarly ==
  /\ pc = "next" /\ NextEntries = {}
  /\ GoWrite("Imported", "final")
  /\ UNCHANGED <<envVars, dest, apiVars, queue, bridge, faults>>
PassReturnsOnce ==
  /\ pc = "next" /\ NextEntries = {}
  /\ GoWrite(IF pending THEN "Importing" ELSE "Imported", "final")
  /\ UNCHANGED <<envVars, dest, apiVars, queue, bridge, faults>>

PassReturns ==
  /\ pc = "next" /\ NextEntries = {}
  /\ IF pending THEN GoWrite("Importing", "wait") ELSE GoWrite("Imported", "final")
  /\ UNCHANGED <<envVars, dest, apiVars, queue, bridge, faults>>

-----------------------------------------------------------------------------
Mesh == (\E d \in Docs : DocSync(d)) \/ (\E p \in Paths : Land(p))

BridgeStep == BridgePoll \/ \E d \in Docs : BridgeVisit(d)

WorkerStep == \/ FetchManifest \/ StatDest \/ Locate \/ Verify \/ Put
              \/ PassReturns \/ WriteStatus

Next ==
  \/ Mesh \/ BridgeStep \/ WorkerStep
  \/ \E n \in Names : CacheSync(n) \/ DeleteImport(n) \/ StartImport(n)
  \/ PeatRestart \/ PeerOutOfBand \/ Restart

\* The mesh delivers while it is peered, which nobody promises to do by hand;
\* the informer and both goroutines run, and the work queue is a FIFO: a
\* request that is in it is eventually taken although the only worker serves
\* others in between.
Fairness ==
  /\ WF_vars(Mesh) /\ WF_vars(BridgeStep) /\ WF_vars(WorkerStep)
  /\ \A n \in Names : WF_vars(CacheSync(n)) /\ SF_vars(StartImport(n))

Spec == Init /\ [][Next]_vars /\ Fairness

-----------------------------------------------------------------------------
(* What the environment has to grant for the properties to hold.           *)

\* No key is ever rewritten in the source bucket with another content.
Immutable ==
  \A e, f \in Entries : e.Key = f.Key => ContentOf(e) = ContentOf(f)

\* peat does not touch a file again once it is what some entry expects.
LandedIsFinal ==
  \A p \in Paths : \A i \in 1 .. Len(Arrivals[p]) :
     (\E e \in Entries : p.base = Basename(e) /\ Arrivals[p][i] = ContentOf(e))
       => i = Len(Arrivals[p])

\* No two documents of the model share a BackupImport.
DistinctNames ==
  \A c, d \in Docs : importName(c) = importName(d) => c = d

-----------------------------------------------------------------------------
Objects == {Absent} \cup [doc : Docs, phase : Phases]

\* Every variable has its type; the worker's copy is an object that exists
\* while it works, and the pass works on an entry of its own manifest.
TypeOK ==
  /\ docs \in [Docs -> Nat] /\ \A d \in Docs : docs[d] <= Len(Emitted[d])
  /\ inbox \in [Paths -> Nat] /\ \A p \in Paths : inbox[p] <= Len(Arrivals[p])
  /\ peered \in BOOLEAN
  /\ dest \in [Keys -> Contents \cup {Nil}]
  /\ bi \in [Names -> Objects] /\ cache \in [Names -> Objects]
  /\ synced \subseteq Names /\ queue \subseteq Names
  /\ bridge \subseteq Docs /\ \A d \in bridge : docs[d] > 0
  /\ pc \in {"idle", "fetch", "next", "locate", "verify", "put", "wait", "final"}
  /\ pc = "idle" <=> cur = Nil
  /\ cur \in Names \cup {Nil}
  /\ my \in Objects /\ (pc # "idle" => Exists(my))
  /\ fresh \in BOOLEAN /\ pending \in BOOLEAN
  /\ man \in Manifests \cup {Nil} /\ (pc \in Passing => man # Nil)
  /\ todo \subseteq (IF man = Nil THEN {} ELSE man.Files)
  /\ ent \in todo \cup {Nil} /\ (pc \in {"locate", "verify", "put"} <=> ent # Nil)
  /\ src \in Paths \cup {Nil} /\ (pc \in {"verify", "put"} => src # Nil /\ inbox[src] > 0)
  /\ idx = Nil \/ idx \subseteq Paths
  /\ faults \in 0 .. MaxFaults

HasAll(m)  == \A e \in m.Files : dest[e.Key] = ContentOf(e)
HasData(m) == \A e \in m.Files : IsDiscovery(e) \/ dest[e.Key] = ContentOf(e)

CommittedManifests(d) ==
  {m \in {Emitted[d][v] : v \in 1 .. docs[d]} : Committed(m)}

\* A discovery object is in the destination bucket only with the verified
\* data of a committed manifest that names it: Velero never discovers half a
\* backup, whatever fails or restarts in the middle of a pass
\* (importer.go:63-67, 90-94).
NoHalfBackup ==
  \A f \in Entries :
     IsDiscovery(f) /\ dest[f.Key] # Nil =>
        \E d \in Docs : \E m \in CommittedManifests(d) :
           HasData(m) /\ \E e \in m.Files : e.Key = f.Key

\* A BackupImport that says Imported has every file of a committed manifest
\* of its own document in the bucket, with the right hash and size, even
\* when the manifest, the cache or the object changed during the pass
\* (backupimport_controller.go:253-259, importer.go:51-52).
ImportedVerified ==
  \A n \in Names :
     bi[n].phase = "Imported" => \E m \in CommittedManifests(bi[n].doc) : HasAll(m)

\* What is in the bucket under a key is what some manifest says of that key:
\* bytes that are partial, corrupt or another file's are never published
\* (importer.go:130-143). That the file is opened again after it was verified
\* does no harm only because of LandedIsFinal.
VerifiedOnly ==
  \A k \in Keys :
     dest[k] # Nil => \E e \in Entries : e.Key = k /\ dest[k] = ContentOf(e)

\* A step never takes an existing BackupImport out of Imported or Failed, not
\* even one of a worker that started from a cached copy of an earlier phase
\* (backupimport_controller.go:186-189).
TerminalIsFinal ==
  [][\A n \in Names :
       bi[n].phase \in {"Imported", "Failed"} =>
          bi'[n].phase = bi[n].phase \/ ~Exists(bi'[n])]_vars

\* What locate needs: the entry's bytes at the primary path, or no file there
\* and the bytes under the same name elsewhere.
Landed(e) ==
  \/ Matches(Primary(e), e)
  \/ ~FileExists(Primary(e)) /\ \E p \in Paths : p.base = Basename(e) /\ Matches(p, e)

Importable(d) ==
  /\ docs[d] = Len(Emitted[d]) /\ docs[d] > 0
  /\ \A v \in 1 .. docs[d] : Emitted[d][v].Parses
  /\ Emitted[d][docs[d]].Complete
  /\ \A e \in Emitted[d][docs[d]].Files : Landed(e)

ImportOf(d) == bi[importName(d)]

\* Once the committed manifest of a backup has synced and every entry has its
\* bytes where locate finds them, both for good, the backup is eventually
\* imported and stays so (backupimport_controller.go:50-53,
\* importer.go:149-172); an entry that lands in pieces, or under another
\* distribution than the manifest names, is no obstacle. Two things are: a
\* primary path that keeps other content, since locate never falls back from
\* one that exists (importer.go:155), and an earlier version that could not be
\* read, since Failed is terminal (backupimport_controller.go:212-213).
EveryManifestImported ==
  \A d \in Docs :
     <>[]Importable(d) => <>[](ImportOf(d).doc = d /\ ImportOf(d).phase = "Imported")

\* With a source to dial back to, its bytes can always be pulled again: peat's
\* reverse peering is restored after every restart of the sidecar, so every
\* file lands in full (backupimport_controller.go:93-95). Without one, which
\* is the default, nothing in the operator restores it (:129-131).
EverythingLands ==
  SourceEndpointID # "" => <>(\A p \in Paths : inbox[p] = Len(Arrivals[p]))
=============================================================================
