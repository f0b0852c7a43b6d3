---------------------------- MODULE AtomicImport ----------------------------
(***************************************************************************)
(* What the destination role promises to the rest of the system, without   *)
(* its goroutines, caches, inbox and retries: files of manifests that have *)
(* arrived are copied one at a time, and the discovery object of a backup, *)
(* which makes Velero see it, is copied only on top of the complete data   *)
(* of one manifest, "so the backup commits atomically"                     *)
(* (backupimport_controller.go:161-164).                                   *)
(*                                                                         *)
(* BackupImport is shown to implement this module (BackupImportRefinement),*)
(* and Snapback composes it with the source role.                          *)
(***************************************************************************)
CONSTANTS
  Docs,           \* the documents, one per replicated backup
  Keys,           \* the keys of the destination bucket
  DiscoveryKeys,  \* those that Velero discovers a backup by
  Nil

VARIABLES
  arrived,   \* arrived[d]: the committed manifests of d that have synced so
             \* far, each a set of files with a Key and a Content
  store,     \* the destination bucket: content by key, Nil if absent
  imported   \* the documents whose work item says Imported

vars == <<arrived, store, imported>>

Init ==
  /\ arrived = [d \in Docs |-> {}]
  /\ store = [k \in Keys |-> Nil]
  /\ imported = {}

\* Manifests arrive; none that was once at hand is taken from a pass.
Deliver(d) ==
  /\ arrived[d] \subseteq arrived'[d]
  /\ arrived' = [arrived EXCEPT ![d] = arrived'[d]]
  /\ UNCHANGED <<store, imported>>

HasFile(f) == store[f.Key] = f.Content
HasData(m) == \A f \in m : f.Key \in DiscoveryKeys \/ HasFile(f)

\* A file of manifest m is copied that does not make the backup visible.
CopyData(d, m, f) ==
  /\ m \in arrived[d] /\ f \in m /\ f.Key \notin DiscoveryKeys
  /\ store' = [store EXCEPT ![f.Key] = f.Content]
  /\ UNCHANGED <<arrived, imported>>

\* The discovery object is copied when the data is there.
Publish(d, m, f) ==
  /\ m \in arrived[d] /\ f \in m /\ f.Key \in DiscoveryKeys
  /\ HasData(m)
  /\ store' = [store EXCEPT ![f.Key] = f.Content]
  /\ UNCHANGED <<arrived, imported>>

\* The work item says Imported when every file of a manifest is there.
Finish(d) ==
  /\ \E m \in arrived[d] : \A f \in m : HasFile(f)
  /\ imported' = imported \cup {d}
  /\ UNCHANGED <<arrived, store>>

\* The work item is deleted.
Forget(d) ==
  /\ imported' = imported \ {d}
  /\ UNCHANGED <<arrived, store>>

Next ==
  \E d \in Docs :
     \/ Deliver(d) \/ Finish(d) \/ Forget(d)
     \/ \E m \in arrived[d] : \E f \in m : CopyData(d, m, f) \/ Publish(d, m, f)

Spec == Init /\ [][Next]_vars
=============================================================================
