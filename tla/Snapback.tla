------------------------------ MODULE Snapback ------------------------------
(***************************************************************************)
(* The two roles together: the source of Replication, and a destination    *)
(* that AtomicImport stands for, which BackupImport implements. They share *)
(* what peat carries: the manifest documents and the distributed files.    *)
(*                                                                         *)
(* Documents and bytes travel on their own: the manifest of one backup may *)
(* be imported long before that of an earlier one, an older version of a   *)
(* manifest may still be at work when a newer one has arrived, and the     *)
(* destination may stop at any point, for instance because Imported is     *)
(* terminal.                                                               *)
(***************************************************************************)
EXTENDS Replication

CONSTANTS DiscoveryKey  \* DiscoveryKey[b]: backups/<b>/velero-backup.json

ASSUME DiscoveryAssumption == \A b \in Backups : DiscoveryKey[b] \in SeqSet(MetaKeys[b])

\* No object is rewritten: the metadata of a backup is under its own name, and
\* no two backups write one repository object. (The importer would take an old
\* version of the same size for the new one, which the destination that is
\* instanced here does not.)
ASSUME NoRewriteAssumption ==
  /\ \A b \in Backups : NewObjects[b] \subseteq SeqSet(RepoKeys)
  /\ \A b, c \in Backups :
        b # c => /\ NewObjects[b] \cap NewObjects[c] = {}
                 /\ SeqSet(MetaKeys[b]) \cap SeqSet(MetaKeys[c]) = {}

\* Nil is no set of objects, which all have version 1: a visible backup is told
\* from an invisible one.
ASSUME ImageAssumption == \A objects \in SUBSET [Key : Keys, Ver : {1}] : objects # Nil

VARIABLES
  arrived,  \* the manifests that have synced, as in AtomicImport
  store     \* the destination bucket

destVars == <<arrived, store>>
allVars  == <<vars, destVars>>

\* What the work items say does not matter to the bucket.
Destination == INSTANCE AtomicImport WITH
  Docs <- Backups,
  DiscoveryKeys <- {DiscoveryKey[b] : b \in Backups},
  imported <- {}

SnapbackInit == Init /\ Destination!Init

ManifestFile(e) == [Key |-> e.Key, Content |-> e.Ver]

\* peat syncs the document of b as it is now.
SyncDocument(b) ==
  /\ docs[b] # {}
  /\ arrived' = [arrived EXCEPT ![b] = @ \cup {{ManifestFile(e) : e \in docs[b]}}]
  /\ UNCHANGED <<vars, store>>

\* The bytes have landed on the inbox, under whatever distribution.
LandedFile(f) ==
  \E g \in Bundles : \E j \in 1 .. Len(sends[g]) :
     sends[g][j] = [Key |-> f.Key, Ver |-> f.Content, status |-> "Completed"]

\* An object of the right size is taken for the file itself.
Present(f) == store[f.Key] # Nil

\* Mutant: a file is copied as soon as it lands, the discovery object too.
ImportFileAtOnce(b) ==
  /\ \E m \in arrived[b] : \E f \in m :
        /\ ~Present(f) /\ LandedFile(f)
        /\ store' = [store EXCEPT ![f.Key] = f.Content]
  /\ UNCHANGED <<vars, arrived>>

ImportFile(b) ==
  /\ \E m \in arrived[b] : \E f \in m :
        /\ ~Present(f) /\ LandedFile(f)
        /\ Destination!CopyData(b, m, f) \/ Destination!Publish(b, m, f)
  /\ UNCHANGED vars

SourceStep == Next /\ UNCHANGED destVars
DestinationStep == \E b \in Backups : SyncDocument(b) \/ ImportFile(b)

SnapbackNext == SourceStep \/ DestinationStep

SnapbackSpec == SnapbackInit /\ [][SnapbackNext]_allVars

-----------------------------------------------------------------------------
Visible(b) == store[DiscoveryKey[b]] # Nil

Lost(b) == {o \in need[b] : bucket[Location[b]][o.Key] # o.Ver}

Restorable(b) == {o \in need[b] : store[o.Key] = o.Ver}

\* A backup that Velero discovers at the destination can be restored there:
\* every object it consisted of when it completed, and that the source still
\* has, is in the destination bucket, also the repository objects that other
\* backups wrote, whose manifests may not have arrived
\* (backupreplication_controller.go:335-372, importer.go:63-67).
VisibleIsRestorable ==
  \A b \in Backups : Visible(b) => need[b] \ Lost(b) \subseteq Restorable(b)

Service == INSTANCE ReplicationService WITH
  completed <- need,
  lost <- [b \in Backups |-> Lost(b)],
  image <- [b \in Backups |-> IF Visible(b) THEN Restorable(b) ELSE Nil]

\* Source and destination together implement the service: a backup appears
\* at the destination in one step, complete, and what can be restored from it
\* never changes or shrinks afterwards, whatever is shipped for the other
\* backups of the repository (backupimport_controller.go:161-164).
ImplementsService == Service!Spec
=============================================================================
