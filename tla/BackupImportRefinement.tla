----------------------- MODULE BackupImportRefinement -----------------------
(***************************************************************************)
(* BackupImport implements AtomicImport: forget the goroutines, the cache, *)
(* the queue, the inbox and the failures, and what is left are the         *)
(* manifests that have synced, the bucket and what the work items say.     *)
(***************************************************************************)
EXTENDS BackupImport

FileOf(e) == [Key |-> e.Key, Content |-> ContentOf(e)]

DiscoveryKeys == {e.Key : e \in {e \in Entries : IsDiscovery(e)}}

\* The committed manifests among the first v versions of d. A version that
\* the sync has jumped over counts as arrived, which Deliver allows.
ManifestsUpTo ==
  [d \in Docs |-> [v \in 0 .. Len(Emitted[d]) |->
     {{FileOf(e) : e \in m.Files} :
        m \in {m \in {Emitted[d][i] : i \in 1 .. v} : Committed(m)}}]]

NameOf == [d \in Docs |-> importName(d)]

Atomic == INSTANCE AtomicImport WITH
  arrived <- [d \in Docs |-> ManifestsUpTo[d][docs[d]]],
  store <- dest,
  imported <- {d \in Docs : bi[NameOf[d]].phase = "Imported"}

\* Each step of the destination role, seen from outside, copies one file of
\* a manifest that has arrived, puts the discovery object on top of complete
\* data, or reports what is true: "velero-backup.json written last so the
\* backup commits atomically" (backupimport_controller.go:161-164), with the
\* bridge, the worker, peat, restarts and deletions interleaved.
ImplementsAtomicImport == Atomic!Spec
=============================================================================
