--------------------- MODULE BackupImportRefinementProof ---------------------
(***************************************************************************)
(* BackupImport implements AtomicImport, for any documents, manifests,     *)
(* inbox histories and number of failures.                                 *)
(***************************************************************************)
EXTENDS BackupImportRefinement, BackupImportProof

\* A manifest, as AtomicImport has it.
FilesOf(m) == {FileOf(e) : e \in m.Files}

\* The state that AtomicImport sees.
arrivedNow  == [d \in Docs |-> ManifestsUpTo[d][docs[d]]]
importedNow == {d \in Docs : bi[NameOf[d]].phase = "Imported"}

LEMMA UpTo ==
  ASSUME NEW d \in Docs, NEW v \in 0 .. Len(Emitted[d])
  PROVE  ManifestsUpTo[d][v] =
           {FilesOf(m) : m \in {m \in {Emitted[d][i] : i \in 1 .. v} : Committed(m)}}
BY DEF ManifestsUpTo, FilesOf

\* What has arrived of a document are the files of its committed manifests.
LEMMA ArrivedIs ==
  ASSUME TypeOK, NEW d \in Docs
  PROVE  arrivedNow[d] = {FilesOf(m) : m \in CommittedManifests(d)}
<1>1. docs[d] \in 0 .. Len(Emitted[d])
  BY TypeSplit, ManifestFacts DEF EnvOK
<1>2. QED BY <1>1, UpTo DEF arrivedNow, CommittedManifests

\* The key of an entry tells whether it is a discovery object.
LEMMA DiscoveryByKey ==
  ASSUME NEW e \in Entries
  PROVE  e.Key \in DiscoveryKeys <=> IsDiscovery(e)
BY DEF DiscoveryKeys, IsDiscovery, Basename

\* A step moves one of the documents, the bucket and the work items.
LEMMA OneMoves ==
  ASSUME TypeOK, AcceptedOK, [Next]_vars
  PROVE  \/ \E d \in Docs : DocSync(d) /\ UNCHANGED <<dest, bi>>
         \/ /\ pc = "put" /\ dest' = [dest EXCEPT ![ent.Key] = ContentOf(ent)]
            /\ UNCHANGED <<docs, bi>>
         \/ UNCHANGED <<docs, dest>>
<1>1. CASE \E d \in Docs : DocSync(d)
  BY <1>1 DEF DocSync, apiVars
<1>2. CASE UNCHANGED docs
  <2>1. CASE Put
    BY <1>2, <2>1, DestStep DEF Put, apiVars
  <2>2. CASE ~Put
    BY <1>2, <2>2, DestStep
  <2>3. QED BY <2>1, <2>2
<1>3. CASE \E p \in Paths : Land(p)
  BY <1>3 DEF Land
<1>4. QED BY <1>1, <1>2, <1>3, EnvStep

LEMMA RefinesInit == Init => Atomic!Init
<1> SUFFICES ASSUME Init PROVE Atomic!Init
  OBVIOUS
<1>1. \A d \in Docs : ManifestsUpTo[d][docs[d]] = {}
  <2> SUFFICES ASSUME NEW d \in Docs PROVE ManifestsUpTo[d][docs[d]] = {}
    OBVIOUS
  <2>1. docs[d] = 0 /\ 0 \in 0 .. Len(Emitted[d])
    BY ManifestFacts DEF Init
  <2>2. QED BY <2>1, UpTo
<1>2. \A d \in Docs : bi[NameOf[d]].phase # "Imported"
  BY NameFacts DEF Init, NameOf, Absent
<1>3. dest = [k \in Keys |-> Nil]
  BY DEF Init
<1>4. QED BY <1>1, <1>2, <1>3 DEF Atomic!Init

\* The synced manifests of a document only grow.
LEMMA RefinesDeliver ==
  ASSUME TypeOK, NEW d \in Docs, DocSync(d), UNCHANGED <<dest, bi>>
  PROVE  Atomic!Deliver(d)
<1>1. docs[d] \in 0 .. Len(Emitted[d]) /\ docs \in [Docs -> Nat]
  BY TypeSplit, ManifestFacts DEF EnvOK
<1>2. PICK v \in (docs[d] + 1) .. Len(Emitted[d]) : docs' = [docs EXCEPT ![d] = v]
  BY DEF DocSync
<1>3. v \in 0 .. Len(Emitted[d]) /\ docs'[d] = v
  BY <1>1, <1>2, ManifestFacts
<1>4. ManifestsUpTo[d][docs[d]] \subseteq ManifestsUpTo[d][v]
  <2>1. {Emitted[d][i] : i \in 1 .. docs[d]} \subseteq {Emitted[d][i] : i \in 1 .. v}
    BY <1>1, <1>2, <1>3
  <2>2. QED BY <1>1, <1>3, <2>1, UpTo
<1>5. arrivedNow[d] \subseteq arrivedNow'[d]
  BY <1>3, <1>4 DEF arrivedNow
<1>6. arrivedNow' = [arrivedNow EXCEPT ![d] = arrivedNow'[d]]
  BY <1>1, <1>2 DEF arrivedNow
<1>7. UNCHANGED <<dest, importedNow>>
  BY DEF importedNow
<1>8. QED BY <1>5, <1>6, <1>7 DEF Atomic!Deliver, arrivedNow, importedNow

\* A put copies a file of a manifest that has arrived, the discovery object
\* on top of all its data.
LEMMA RefinesCopy ==
  ASSUME TypeOK, DoneOK, DeferredOK, CommittedOK, pc = "put",
         dest' = [dest EXCEPT ![ent.Key] = ContentOf(ent)], UNCHANGED <<docs, bi>>
  PROVE  Atomic!Next
<1> DEFINE d == my.doc
           m == FilesOf(man)
           f == FileOf(ent)
<1>1. d \in Docs /\ man \in CommittedManifests(d)
  BY TypeSplit, ObjectFacts DEF WorkerOK, CommittedOK, Passing
<1>2. ent \in man.Files /\ ent \in Entries /\ man.Files \subseteq Entries
  BY HandFacts, ManifestFacts
<1>3. m \in arrivedNow[d] /\ f \in m
  BY <1>1, <1>2, ArrivedIs DEF FilesOf
<1>4. f.Key = ent.Key /\ f.Content = ContentOf(ent)
  BY DEF FileOf
<1>5. UNCHANGED <<arrivedNow, importedNow>>
  BY DEF arrivedNow, importedNow
<1>6. CASE ~IsDiscovery(ent)
  <2>1. f.Key \notin DiscoveryKeys
    BY <1>2, <1>4, <1>6, DiscoveryByKey
  <2>2. Atomic!CopyData(d, m, f)
    BY <1>3, <1>4, <1>5, <2>1 DEF Atomic!CopyData, arrivedNow, importedNow
  <2>3. QED BY <1>1, <1>3, <2>2 DEF Atomic!Next, arrivedNow
<1>7. CASE IsDiscovery(ent)
  <2>1. f.Key \in DiscoveryKeys
    BY <1>2, <1>4, <1>7, DiscoveryByKey
  <2>2. ~pending /\ \A e \in todo : IsDiscovery(e)
    BY <1>7 DEF DeferredOK
  <2>3. \A e \in man.Files : IsDiscovery(e) \/ dest[e.Key] = ContentOf(e)
    BY <2>2 DEF DoneOK, Passing
  <2>4. Atomic!HasData(m)
    <3> SUFFICES ASSUME NEW g \in m
                 PROVE  g.Key \in DiscoveryKeys \/ dest[g.Key] = g.Content
      BY DEF Atomic!HasData, Atomic!HasFile
    <3>1. PICK e \in man.Files : g = FileOf(e)
      BY DEF FilesOf
    <3>2. g.Key = e.Key /\ g.Content = ContentOf(e)
      BY <3>1 DEF FileOf
    <3>3. QED BY <1>2, <2>3, <3>2, DiscoveryByKey
  <2>5. Atomic!Publish(d, m, f)
    BY <1>3, <1>4, <1>5, <2>1, <2>4 DEF Atomic!Publish, arrivedNow, importedNow
  <2>6. QED BY <1>1, <1>3, <2>5 DEF Atomic!Next, arrivedNow
<1>8. QED BY <1>6, <1>7

\* A write of one work item changes the report of its own document only.
LEMMA OneReport ==
  ASSUME DistinctNames, ApiOK, NEW d \in Docs, NEW o \in Objects, Write(importName(d), o)
  PROVE  importedNow' = IF o.phase = "Imported" THEN importedNow \cup {d} ELSE importedNow \ {d}
<1>1. \A c \in Docs : NameOf[c] = importName(c) /\ importName(c) \in Names
  BY NameFacts DEF NameOf
<1>2. \A c \in Docs : c # d => bi'[NameOf[c]] = bi[NameOf[c]]
  BY <1>1, WriteOK DEF DistinctNames
<1>3. bi'[NameOf[d]] = o
  BY <1>1, WriteOK
<1>4. QED BY <1>2, <1>3 DEF importedNow

\* A write to a work item is the report that is due, the loss of one, or none.
LEMMA RefinesReport ==
  ASSUME DistinctNames, TypeInv, NamesOK, MyOK, [Next]_vars, UNCHANGED <<docs, dest>>
  PROVE  [Atomic!Next]_(Atomic!vars)
<1>0. TypeOK /\ ApiOK
  BY TypeSplit DEF TypeInv
<1>1. UNCHANGED <<arrivedNow, dest>>
  BY DEF arrivedNow
<1>2. CASE UNCHANGED importedNow
  BY <1>1, <1>2 DEF Atomic!vars, arrivedNow, importedNow
<1>3. ASSUME NEW d \in Docs, importedNow' = importedNow \ {d} PROVE Atomic!Next
  BY <1>1, <1>3 DEF Atomic!Next, Atomic!Forget, arrivedNow, importedNow
<1>f. ASSUME NEW d \in Docs, importedNow' = importedNow \cup {d},
             NEW m \in arrivedNow[d], \A f \in m : Atomic!HasFile(f)
      PROVE  Atomic!Next
  BY <1>1, <1>f DEF Atomic!Next, Atomic!Finish, arrivedNow, importedNow
<1>4. ASSUME NEW n \in Names, NEW o \in Objects, Write(n, o), o.phase # "Imported"
      PROVE  Atomic!Next
  <2>1. PICK d \in Docs : n = importName(d)
    BY DEF Names
  <2>2. QED BY <1>0, <1>3, <1>4, <2>1, OneReport
<1>5. ASSUME NEW n \in Names, NEW d \in Docs, Write(n, [doc |-> d, phase |-> "None"])
      PROVE  Atomic!Next
  BY <1>4, <1>5, ObjectFacts
<1>6. ASSUME NEW n \in Names, Write(n, Absent) PROVE Atomic!Next
  BY <1>4, <1>6, ObjectFacts DEF Absent
<1>7. CASE /\ cur \in Names /\ Exists(bi[cur]) /\ bi[cur].doc = my.doc /\ my.phase \in Phases
           /\ Write(cur, [bi[cur] EXCEPT !.phase = my.phase])
  <2> DEFINE o == [bi[cur] EXCEPT !.phase = my.phase]
             d == my.doc
  <2>1. bi[cur] \in Objects
    BY <1>0, <1>7 DEF ApiOK
  <2>2. o \in Objects /\ o.phase = my.phase /\ d \in Docs /\ importName(d) = cur
    BY <1>7, <2>1, ObjectFacts DEF NamesOK
  <2>3. CASE my.phase = "Imported"
    <3>1. importedNow' = importedNow \cup {d}
      BY <1>0, <1>7, <2>2, <2>3, OneReport
    <3>2. PICK m \in CommittedManifests(d) : HasAll(m)
      BY <2>3 DEF MyOK
    <3>3. FilesOf(m) \in arrivedNow[d]
      BY <1>0, <2>2, ArrivedIs
    <3>4. \A f \in FilesOf(m) : Atomic!HasFile(f)
      BY <3>2 DEF FilesOf, FileOf, HasAll, Atomic!HasFile
    <3>5. QED BY <1>f, <2>2, <3>1, <3>3, <3>4
  <2>4. CASE my.phase # "Imported"
    BY <1>4, <1>7, <2>2, <2>4
  <2>5. QED BY <2>3, <2>4
<1>8. CASE UNCHANGED bi
  BY <1>2, <1>8 DEF importedNow
<1>9. QED BY <1>5, <1>6, <1>7, <1>8, ApiCases

\* The destination role does what AtomicImport promises: seen from outside,
\* with the bridge, the worker, peat, restarts and deletions interleaved,
\* files of arrived manifests are copied one at a time, the discovery object
\* on top of complete data, and Imported is reported when it is true. It
\* needs that no key changes its content, that peat leaves landed files alone
\* and that no two documents share a name
\* (backupimport_controller.go:161-164).
THEOREM ImplementsAtomicImportCorrect ==
  ASSUME Immutable, LandedIsFinal, DistinctNames
  PROVE  Spec => ImplementsAtomicImport
<1>1. Init => NamesOK
  BY DEF Init, NamesOK, Absent, Exists
<1>2. BucketInv /\ NamesOK /\ [Next]_vars => NamesOK'
  BY NamesInductive DEF BucketInv
<1>3. BucketInv /\ NamesOK /\ [Next]_vars => [Atomic!Next]_(Atomic!vars)
  <2> SUFFICES ASSUME BucketInv, NamesOK, [Next]_vars PROVE [Atomic!Next]_(Atomic!vars)
    OBVIOUS
  <2>0. /\ TypeOK /\ TypeInv /\ AcceptedOK /\ DoneOK /\ DeferredOK /\ CommittedOK /\ MyOK
    BY DEF BucketInv, TypeInv
  <2>1. CASE \E d \in Docs : DocSync(d) /\ UNCHANGED <<dest, bi>>
    BY <2>0, <2>1, RefinesDeliver DEF Atomic!Next
  <2>2. CASE /\ pc = "put" /\ dest' = [dest EXCEPT ![ent.Key] = ContentOf(ent)]
             /\ UNCHANGED <<docs, bi>>
    BY <2>0, <2>2, RefinesCopy
  <2>3. CASE UNCHANGED <<docs, dest>>
    BY <2>0, <2>3, RefinesReport
  <2>4. QED BY <2>0, <2>1, <2>2, <2>3, OneMoves
<1>4. QED BY <1>1, <1>2, <1>3, RefinesInit, BucketInvHolds, PTL
          DEF Spec, ImplementsAtomicImport, Atomic!Spec
=============================================================================
