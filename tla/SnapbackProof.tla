--------------------------- MODULE SnapbackProof ----------------------------
(***************************************************************************)
(* Proofs about both roles together, for any backups, keys, failures and   *)
(* removals, where peat refuses a known bundle id with other files.        *)
(***************************************************************************)
EXTENDS Snapback, ReplicationProof

\* What a backup writes, and what its manifest may name.
Written(b) == SeqSet(MetaKeys[b]) \cup NewObjects[b]
KeysOf(b)  == SeqSet(MetaKeys[b]) \cup SeqSet(RepoKeys)

\* Objects are written once, when their backup completes.
VersionsOK ==
  /\ \A l \in Locations : \A k \in Keys : bucket[l][k] \in {-1, 0, 1}
  /\ \A b \in Backups :
        need[b] = {} => \A l \in Locations : \A k \in Written(b) : bucket[l][k] = 0
  /\ \A b \in Backups : \A o \in need[b] : o.Ver = 1

\* A pass ships the backup's metadata and the repository, nothing else.
ShippingOK ==
  /\ pc \in Passing => \A k \in SeqSet(keys) : k \in KeysOf(cur)
  /\ \A j \in 1 .. Len(specs) : specs[j].Ver = 1
  /\ \A e \in entries : e.Ver = 1 /\ e.Key \in KeysOf(cur)

\* A manifest that was ever published covers what its backup needs, and so
\* does every version of it that has arrived.
DocsOK ==
  \A b \in Backups :
     /\ \A e \in docs[b] : e.Ver = 1 /\ e.Key \in KeysOf(b)
     /\ docs[b] # {} => need[b] # {} /\ Covered(b)

File == [Key : Keys, Content : {1}]

ArrivedOK ==
  /\ arrived \in [Backups -> SUBSET SUBSET File]
  /\ \A b \in Backups : \A m \in arrived[b] :
        /\ need[b] # {} /\ \A f \in m : f.Key \in KeysOf(b)
        /\ \A o \in need[b] : Current(b, o) => \E f \in m : f.Key = o.Key

\* A backup is visible at the destination when it has completed at the source
\* and what it needs, and the source still has, is there.
StoreOK ==
  /\ store \in [Keys -> {Nil, 1}]
  /\ \A b \in Backups : Visible(b) =>
        need[b] # {} /\ \A o \in need[b] : Current(b, o) => store[o.Key] = 1

SourceInv == PassInv /\ ManifestInv /\ VersionsOK /\ ShippingOK /\ DocsOK
SnapbackInv == SourceInv /\ ArrivedOK /\ StoreOK

-----------------------------------------------------------------------------
(* The source.                                                             *)

LEMMA WrittenFacts ==
  /\ \A b \in Backups : Written(b) \subseteq KeysOf(b) /\ KeysOf(b) \subseteq Keys
  /\ \A b, c \in Backups : b # c => Written(b) \cap Written(c) = {}
  /\ \A b \in Backups : DiscoveryKey[b] \in Written(b) /\ DiscoveryKey[b] \in Keys
  /\ \A b, c \in Backups : DiscoveryKey[b] \in KeysOf(c) => b = c
<1>1. \A b \in Backups : Written(b) \subseteq KeysOf(b) /\ KeysOf(b) \subseteq Keys
  BY KeysFacts, NoRewriteAssumption DEF Written, KeysOf
<1>2. ASSUME NEW b \in Backups, NEW c \in Backups, b # c PROVE Written(b) \cap Written(c) = {}
  <2>1. /\ NewObjects[b] \subseteq SeqSet(RepoKeys) /\ NewObjects[c] \subseteq SeqSet(RepoKeys)
        /\ NewObjects[b] \cap NewObjects[c] = {}
        /\ SeqSet(MetaKeys[b]) \cap SeqSet(MetaKeys[c]) = {}
    BY <1>2, NoRewriteAssumption
  <2>2. /\ SeqSet(MetaKeys[b]) \cap SeqSet(RepoKeys) = {}
        /\ SeqSet(MetaKeys[c]) \cap SeqSet(RepoKeys) = {}
    BY KeysFacts
  <2>3. QED BY <2>1, <2>2 DEF Written
<1>3. \A b \in Backups : DiscoveryKey[b] \in Written(b) /\ DiscoveryKey[b] \in Keys
  BY <1>1, DiscoveryAssumption DEF Written
<1>4. ASSUME NEW b \in Backups, NEW c \in Backups, DiscoveryKey[b] \in KeysOf(c), b # c
      PROVE  FALSE
  <2>1. DiscoveryKey[b] \in SeqSet(MetaKeys[b])
    BY DiscoveryAssumption
  <2>2. SeqSet(MetaKeys[b]) \cap SeqSet(MetaKeys[c]) = {}
    BY <1>4, NoRewriteAssumption
  <2>3. SeqSet(MetaKeys[b]) \cap SeqSet(RepoKeys) = {}
    BY KeysFacts
  <2>4. QED BY <1>4, <2>1, <2>2, <2>3 DEF KeysOf
<1>5. QED BY <1>1, <1>2, <1>3, <1>4

\* What the completion of a backup does, object by object.
LEMMA CompleteFacts ==
  ASSUME TypeOK, VersionsOK, NEW b \in Backups, CompleteBackup(b)
  PROVE  /\ \A l \in Locations : \A k \in Keys :
              bucket'[l][k] = IF l = Location[b] /\ k \in Written(b) THEN 1 ELSE bucket[l][k]
         /\ \A c \in Backups : c # b => need'[c] = need[c]
         /\ need[b] = {} /\ need'[b] # {}
         /\ \A o \in need'[b] : o.Ver = bucket'[Location[b]][o.Key] /\ o.Ver = 1
<1> DEFINE l == Location[b]
<1>1. /\ bucket \in [Locations -> [Keys -> Int]] /\ need \in [Backups -> SUBSET Version]
      /\ l \in Locations
  BY BackupsAssumption DEF TypeOK
<1>2. need[b] = {} /\ \A k \in Written(b) : k \in Keys /\ bucket[l][k] = 0
  <2>1. need[b] = {}
    BY DEF CompleteBackup
  <2>2. QED BY <1>1, <2>1, WrittenFacts DEF VersionsOK
<1>3. /\ \A m \in Locations : m # l => bucket'[m] = bucket[m]
      /\ \A k \in Keys : bucket'[l][k] = IF k \in Written(b) THEN NewVersion(bucket[l][k])
                                                            ELSE bucket[l][k]
  BY <1>1 DEF CompleteBackup, Written
<1>4. NewVersion(0) = 1
  BY DEF NewVersion
<1>5. \A m \in Locations : \A k \in Keys :
        bucket'[m][k] = IF m = l /\ k \in Written(b) THEN 1 ELSE bucket[m][k]
  BY <1>2, <1>3, <1>4
<1>6. \A c \in Backups : c # b => need'[c] = need[c]
  BY <1>1 DEF CompleteBackup
<1>7. need'[b] = {[Key |-> k, Ver |-> bucket'[l][k]] :
                    k \in {k \in KeysOf(b) : bucket'[l][k] > 0}}
  BY <1>1 DEF CompleteBackup, KeysOf
<1>8. need'[b] # {}
  <2>1. DiscoveryKey[b] \in KeysOf(b) /\ bucket'[l][DiscoveryKey[b]] = 1
    BY <1>1, <1>5, WrittenFacts
  <2>2. [Key |-> DiscoveryKey[b], Ver |-> bucket'[l][DiscoveryKey[b]]] \in need'[b]
    BY <1>7, <2>1
  <2>3. QED BY <2>2
<1>9. ASSUME NEW o \in need'[b] PROVE o.Ver = bucket'[l][o.Key] /\ o.Ver = 1
  <2>1. PICK k \in KeysOf(b) : bucket'[l][k] > 0 /\ o = [Key |-> k, Ver |-> bucket'[l][k]]
    BY <1>7
  <2>2. k \in Keys /\ o.Key = k /\ o.Ver = bucket'[l][k]
    BY <2>1, WrittenFacts
  <2>3. bucket[l][k] \in {-1, 0, 1}
    BY <1>1, <2>2 DEF VersionsOK
  <2>4. bucket'[l][k] \in {-1, 0, 1}
    BY <1>1, <1>5, <2>2, <2>3
  <2>5. QED BY <2>1, <2>2, <2>4
<1>10. QED BY <1>2, <1>5, <1>6, <1>8, <1>9

LEMMA RemoveFacts ==
  ASSUME TypeOK, NEW m \in Locations, NEW j \in Keys, RemoveObject(m, j)
  PROVE  /\ need' = need
         /\ \A l \in Locations : \A k \in Keys :
              bucket'[l][k] = IF l = m /\ k = j THEN - bucket[l][k] ELSE bucket[l][k]
         /\ bucket[m][j] > 0
  BY DEF TypeOK, RemoveObject

LEMMA VersionsStep == ASSUME TypeOK, VersionsOK, Moves PROVE VersionsOK'
<1>1. CASE UNCHANGED <<bucket, need>>
  BY <1>1 DEF VersionsOK
<1>2. ASSUME NEW b \in Backups, CompleteBackup(b) PROVE VersionsOK'
  <2>1. \A l \in Locations : \A k \in Keys : bucket'[l][k] \in {-1, 0, 1}
    BY <1>2, CompleteFacts DEF VersionsOK
  <2>2. ASSUME NEW c \in Backups, need'[c] = {}, NEW l \in Locations, NEW k \in Written(c)
        PROVE  bucket'[l][k] = 0
    <3>1. c # b /\ need[c] = {} /\ k \in Keys /\ k \notin Written(b)
      BY <1>2, <2>2, CompleteFacts, WrittenFacts
    <3>2. QED BY <1>2, <2>2, <3>1, CompleteFacts DEF VersionsOK
  <2>3. \A c \in Backups : \A o \in need'[c] : o.Ver = 1
    BY <1>2, CompleteFacts DEF VersionsOK
  <2>4. QED BY <2>1, <2>2, <2>3 DEF VersionsOK
<1>3. ASSUME NEW m \in Locations, NEW j \in Keys, RemoveObject(m, j) PROVE VersionsOK'
  <2>1. \A l \in Locations : \A k \in Keys : bucket[l][k] \in {-1, 0, 1}
    BY DEF VersionsOK
  <2>2. \A l \in Locations : \A k \in Keys :
          bucket'[l][k] \in {-1, 0, 1} /\ (bucket[l][k] = 0 => bucket'[l][k] = 0)
    BY <1>3, <2>1, RemoveFacts
  <2>3. QED BY <1>3, <2>2, RemoveFacts, WrittenFacts DEF VersionsOK
<1>4. QED BY <1>1, <1>2, <1>3 DEF Moves, BucketMoves

\* The keys of a pass are the backup's own and the repository's.
LEMMA EnumerateBounds ==
  ASSUME NEW b \in Backups
  PROVE  SeqSet(enumerateDelta(b)) \subseteq KeysOf(b)
<1> DEFINE l == Location[b]
           unseen == {k \in Listed(l) : ledger[l][k] # bucket[l][k]}
           p == Filtered(MetaKeys[b], Listed(l))
           q == Filtered(RepoKeys, unseen)
<1>1. /\ p \in Seq(Keys) /\ SeqSet(p) \subseteq SeqSet(MetaKeys[b])
      /\ q \in Seq(Keys) /\ SeqSet(q) \subseteq SeqSet(RepoKeys)
  BY FilteredKeeps, KeysFacts
<1>2. enumerateDelta(b) = p \o q
  BY DEF enumerateDelta
<1> HIDE DEF p, q
<1>3. SeqSet(p \o q) \subseteq SeqSet(p) \cup SeqSet(q)
  <2>1. /\ Len(p) \in Nat /\ Len(q) \in Nat /\ Len(p \o q) = Len(p) + Len(q)
        /\ \A i \in 1 .. Len(p) + Len(q) :
             (p \o q)[i] = IF i <= Len(p) THEN p[i] ELSE q[i - Len(p)]
    BY <1>1
  <2>2. QED BY <2>1 DEF SeqSet
<1>4. QED BY <1>1, <1>2, <1>3 DEF KeysOf

\* The files at hand are files that were staged.
LEMMA AtHandStaged ==
  ASSUME TypeOK, pc = "send", index < Len(Batches),
         NEW i \in 1 .. Len(FilesAtHand)
  PROVE  \E j \in 1 .. Len(specs) : FilesAtHand[i] = specs[j]
<1>1. specs \in Seq(FileSpec) /\ index \in Nat
  BY DEF TypeOK
<1>2. FilesOf(Batches) = Elements(specs) /\ Len(Batches) \in Nat
  BY <1>1, BatchesFacts
<1>3. index + 1 \in 1 .. Len(Batches)
  BY <1>1, <1>2
<1>4. FilesAtHand[i] \in Elements(Batches[index + 1].Files)
  BY DEF FilesAtHand, Elements
<1>5. FilesAtHand[i] \in Elements(specs)
  BY <1>2, <1>3, <1>4 DEF FilesOf
<1>6. QED BY <1>5 DEF Elements

LEMMA ShippingStep ==
  ASSUME PassInv, VersionsOK, ShippingOK, Moves PROVE ShippingOK'
<1> USE DEF passVars
<1>i. TypeOK /\ StagedOK /\ PassOK
  BY DEF PassInv
<1>t. /\ specs \in Seq(FileSpec) /\ keys \in Seq(Keys) /\ (pc # "idle" => cur \in Backups)
  BY <1>i DEF TypeOK
<1>1. ASSUME pc' \notin Passing, specs' = <<>>, entries' = {} PROVE ShippingOK'
  BY <1>1 DEF ShippingOK
<1>2. ASSUME pc' \in Passing => pc \in Passing, UNCHANGED <<cur, keys, specs, entries>>
      PROVE  ShippingOK'
  BY <1>2 DEF ShippingOK
<1>3. CASE EnumerateGo
  <2>1. /\ cur \in Backups /\ cur' = cur /\ keys' = enumerateDelta(cur)
        /\ specs' = <<>> /\ entries' = {}
    BY <1>i, <1>t, <1>3 DEF EnumerateGo, PassOK, Passing, Sending
  <2>2. QED BY <2>1, EnumerateBounds DEF ShippingOK
<1>4. CASE StageGo
  <2> DEFINE k == keys[Len(specs) + 1]
             v == bucket[Location[cur]][k]
  <2>1. /\ pc \in Passing /\ cur \in Backups /\ Location[cur] \in Locations
        /\ k \in Keys /\ v > 0
    BY <1>t, <1>4, BackupsAssumption DEF StageGo, Passing
  <2>2. v = 1
    BY <2>1 DEF VersionsOK
  <2>3. /\ UNCHANGED <<pc, cur, keys, entries>>
        /\ specs' = Append(specs, [Key |-> k, Ver |-> v, Size |-> SizeOf[k]])
    BY <1>4 DEF StageGo
  <2> HIDE DEF k, v
  <2>4. \A j \in 1 .. Len(specs') : specs'[j].Ver = 1
    BY <1>t, <2>2, <2>3 DEF ShippingOK
  <2>5. QED BY <2>1, <2>3, <2>4 DEF ShippingOK
<1>5. CASE SendGo
  <2>1. /\ pc \in Passing /\ cur' = cur /\ keys' = keys /\ specs' = specs
        /\ entries' = entries \cup HandleEntries(BundleAtHand, FilesAtHand)
        /\ pc = "send" /\ index < Len(Batches) /\ Takes
    BY <1>5 DEF SendGo, Takes, Passing, Sending
  <2>2. ASSUME NEW e \in HandleEntries(BundleAtHand, FilesAtHand)
        PROVE  e.Ver = 1 /\ e.Key \in KeysOf(cur)
    <3>1. /\ e.File \in 1 .. Len(FilesAtHand)
          /\ e.Key = FilesAtHand[e.File].Key /\ e.Ver = FilesAtHand[e.File].Ver
      BY <1>i, <2>1, HandlesStep
    <3>2. PICK j \in 1 .. Len(specs) : FilesAtHand[e.File] = specs[j]
      BY <1>i, <2>1, <3>1, AtHandStaged
    <3>3. specs[j].Key = keys[j] /\ j \in 1 .. Len(keys)
      BY <1>i, <1>t, <2>1, <3>2 DEF StagedOK
    <3>4. specs[j].Ver = 1 /\ keys[j] \in KeysOf(cur)
      BY <2>1, <3>2, <3>3 DEF ShippingOK, SeqSet
    <3>5. QED BY <3>1, <3>2, <3>3, <3>4
  <2>3. QED BY <2>1, <2>2 DEF ShippingOK
<1>6. CASE Stays
  BY <1>2, <1>6 DEF Stays
<1>7. CASE GoIdle \/ Leaves
  BY <1>1, <1>7 DEF GoIdle, Leaves, GoWrite, ClearPass, Passing, Sending
<1>8. CASE StartGo
  <2>1. pc' \notin Passing /\ specs' = <<>> /\ entries' = {}
    BY <1>i, <1>8 DEF StartGo, PassOK, Passing, Sending
  <2>2. QED BY <1>1, <2>1
<1>9. CASE TransmitGo \/ WaitGo \/ DoneGo \/ EmitGo
  BY <1>2, <1>9 DEF TransmitGo, WaitGo, DoneGo, EmitGo, Passing, Sending
<1>10. QED
  BY <1>3, <1>4, <1>5, <1>6, <1>7, <1>8, <1>9 DEF Moves, WorkerMoves

\* What a backup needs is settled when it completes.
LEMMA NeedStays ==
  ASSUME TypeOK, Moves, NEW b \in Backups, need[b] # {} PROVE need'[b] = need[b]
  BY DEF TypeOK, Moves, BucketMoves, CompleteBackup, RemoveObject

LEMMA DocsStep ==
  ASSUME PassInv, ManifestInv, ShippingOK, DocsOK, Moves PROVE DocsOK'
<1>i. TypeOK /\ NeedOK /\ ExistsOK /\ ShipsOK /\ EntriesOK
  BY DEF PassInv, ManifestInv
<1>t. docs \in [Backups -> SUBSET Entry] /\ (pc # "idle" => cur \in Backups)
  BY <1>i DEF TypeOK
\* A set of entries that covered goes on covering.
<1>1. ASSUME NEW b \in Backups, need[b] # {}, NEW E,
             \A o \in need[b] : Current(b, o) => HasEntry(E, o.Key, o.Ver), docs'[b] = E
      PROVE  need'[b] # {} /\ Covered(b)'
  <2>1. need'[b] = need[b] /\ \A o \in need[b] : Current(b, o)' => Current(b, o)
    BY <1>i, <1>1, NeedStays, NeedStep
  <2>2. QED BY <1>1, <2>1 DEF Covered
<1>2. ASSUME NEW b \in Backups, docs'[b] = docs[b]
      PROVE  /\ \A e \in docs'[b] : e.Ver = 1 /\ e.Key \in KeysOf(b)
             /\ docs'[b] # {} => need'[b] # {} /\ Covered(b)'
  <2>1. CASE docs[b] = {}
    BY <1>2, <2>1
  <2>2. CASE docs[b] # {}
    <3>1. need[b] # {} /\ \A o \in need[b] : Current(b, o) => HasEntry(docs[b], o.Key, o.Ver)
      BY <2>2 DEF DocsOK, Covered
    <3>2. QED BY <1>1, <1>2, <3>1 DEF DocsOK
  <2>3. QED BY <2>1, <2>2
<1>3. ASSUME NEW b \in Backups, pc = "emit", b = cur, docs' = [docs EXCEPT ![cur] = entries]
      PROVE  /\ \A e \in docs'[b] : e.Ver = 1 /\ e.Key \in KeysOf(b)
             /\ docs'[b] # {} => need'[b] # {} /\ Covered(b)'
  <2>1. docs'[b] = entries
    BY <1>t, <1>3
  <2>2. need[b] # {} /\ \A o \in need[b] : Current(b, o) => HasEntry(entries, o.Key, o.Ver)
    BY <1>i, <1>3, ShippedAll DEF ExistsOK
  <2>3. QED BY <1>1, <1>3, <2>1, <2>2 DEF ShippingOK
<1>4. ASSUME NEW b \in Backups, docs'[b] # docs[b]
      PROVE  pc = "emit" /\ b = cur /\ docs' = [docs EXCEPT ![cur] = entries]
  BY <1>t, <1>4 DEF Moves, DocsMoves
<1>5. QED BY <1>2, <1>3, <1>4 DEF DocsOK

LEMMA SourceInvStep ==
  ASSUME Resend = "reject", SourceInv, [Next]_vars PROVE SourceInv' /\ Moves
<1>1. Moves /\ TypeOK
  BY NextMoves DEF SourceInv, PassInv
<1>2. PassInv' /\ ManifestInv'
  BY PassInvStep, ManifestInvStep DEF SourceInv
<1>3. VersionsOK' /\ ShippingOK' /\ DocsOK'
  BY <1>1, VersionsStep, ShippingStep, DocsStep DEF SourceInv
<1>4. QED BY <1>1, <1>2, <1>3 DEF SourceInv

-----------------------------------------------------------------------------
(* The destination.                                                        *)

\* What the source does leaves the destination consistent.
LEMMA SourceKeeps ==
  ASSUME SourceInv, ArrivedOK, StoreOK, Moves, UNCHANGED destVars
  PROVE  ArrivedOK' /\ StoreOK'
<1>i. TypeOK /\ NeedOK
  BY DEF SourceInv, PassInv, ManifestInv
<1>1. UNCHANGED <<arrived, store>>
  BY DEF destVars
<1>2. ASSUME NEW b \in Backups, need[b] # {}
      PROVE  need'[b] = need[b] /\ \A o \in need[b] : Current(b, o)' => Current(b, o)
  BY <1>i, <1>2, NeedStays, NeedStep
<1>3. ASSUME NEW b \in Backups, NEW m \in arrived'[b]
      PROVE  /\ need'[b] # {} /\ \A f \in m : f.Key \in KeysOf(b)
             /\ \A o \in need'[b] : Current(b, o)' => \E f \in m : f.Key = o.Key
  <2>1. m \in arrived[b] /\ need[b] # {}
    BY <1>1, <1>3 DEF ArrivedOK
  <2>2. QED BY <1>2, <2>1 DEF ArrivedOK
<1>4. ASSUME NEW b \in Backups, Visible(b)'
      PROVE  need'[b] # {} /\ \A o \in need'[b] : Current(b, o)' => store'[o.Key] = 1
  <2>1. Visible(b) /\ need[b] # {}
    BY <1>1, <1>4 DEF StoreOK, Visible
  <2>2. QED BY <1>1, <1>2, <2>1 DEF StoreOK
<1>5. ArrivedOK'
  BY <1>1, <1>3 DEF ArrivedOK
<1>6. StoreOK'
  BY <1>1, <1>4 DEF StoreOK
<1>7. QED BY <1>5, <1>6

\* A manifest that syncs covers what its backup needs.
LEMMA SyncKeeps ==
  ASSUME SourceInv, ArrivedOK, StoreOK, NEW b \in Backups, SyncDocument(b)
  PROVE  ArrivedOK' /\ StoreOK'
<1> DEFINE m == {ManifestFile(e) : e \in docs[b]}
<1>0. docs \in [Backups -> SUBSET Entry] /\ \A e \in Entry : e.Key \in Keys
  BY DEF SourceInv, PassInv, TypeOK, Entry
<1>1. /\ docs[b] # {} /\ arrived' = [arrived EXCEPT ![b] = @ \cup {m}]
      /\ UNCHANGED <<vars, store>>
  BY DEF SyncDocument
<1>2. UNCHANGED <<bucket, need>>
  BY <1>1 DEF vars, storeVars
<1>3. /\ \A e \in docs[b] : e.Ver = 1 /\ e.Key \in KeysOf(b) /\ e.Key \in Keys
      /\ need[b] # {} /\ Covered(b)
  BY <1>0, <1>1 DEF SourceInv, DocsOK
<1>4. m \subseteq File /\ \A f \in m : f.Key \in KeysOf(b)
  BY <1>3 DEF ManifestFile, File
<1>5. ASSUME NEW o \in need[b], Current(b, o) PROVE \E f \in m : f.Key = o.Key
  <2>1. PICK e \in docs[b] : e.Key = o.Key
    BY <1>3, <1>5 DEF Covered, HasEntry
  <2>2. ManifestFile(e) \in m /\ ManifestFile(e).Key = o.Key
    BY <2>1 DEF ManifestFile
  <2>3. QED BY <2>2
<1> HIDE DEF m
<1>6. /\ arrived' \in [Backups -> SUBSET SUBSET File]
      /\ \A c \in Backups : \A x \in arrived'[c] : x \in arrived[c] \/ (c = b /\ x = m)
  BY <1>1, <1>4 DEF ArrivedOK
<1>7. ArrivedOK'
  BY <1>2, <1>3, <1>4, <1>5, <1>6 DEF ArrivedOK, Current
<1>8. StoreOK'
  BY <1>1, <1>2 DEF StoreOK, Visible, Current
<1>9. QED BY <1>7, <1>8

\* What an import step does: one absent file of a manifest that has arrived
\* is stored, and the file that makes a backup visible is the last one that
\* the backup needs.
LEMMA ImportFacts ==
  ASSUME SourceInv, ArrivedOK, StoreOK, NEW b \in Backups, ImportFile(b)
  PROVE  /\ UNCHANGED <<vars, arrived>>
         /\ \E k \in Keys :
              /\ store[k] = Nil /\ store' = [store EXCEPT ![k] = 1]
              /\ \A c \in Backups : k = DiscoveryKey[c] =>
                   need[c] # {} /\ \A o \in need[c] : Current(c, o) => store'[o.Key] = 1
<1>0. PICK m \in arrived[b] : \E f \in m :
        /\ ~Present(f)
        /\ Destination!CopyData(b, m, f) \/ Destination!Publish(b, m, f)
  BY DEF ImportFile
<1>1. PICK f \in m :
        /\ ~Present(f)
        /\ Destination!CopyData(b, m, f) \/ Destination!Publish(b, m, f)
  BY <1>0
<1>2. UNCHANGED <<vars, arrived>>
  BY <1>1 DEF ImportFile, Destination!CopyData, Destination!Publish
<1>3. /\ f \in File /\ f.Content = 1 /\ f.Key \in Keys /\ m \subseteq File
      /\ need[b] # {} /\ \A g \in m : g.Key \in KeysOf(b)
      /\ \A o \in need[b] : Current(b, o) => \E g \in m : g.Key = o.Key
  BY <1>1 DEF ArrivedOK, File
<1>4. store[f.Key] = Nil /\ store' = [store EXCEPT ![f.Key] = 1] /\ store \in [Keys -> {Nil, 1}]
  BY <1>1, <1>3 DEF Present, Destination!CopyData, Destination!Publish, StoreOK
<1>5. ASSUME NEW c \in Backups, f.Key = DiscoveryKey[c]
      PROVE  need[c] # {} /\ \A o \in need[c] : Current(c, o) => store'[o.Key] = 1
  <2>1. c = b
    BY <1>3, <1>5, WrittenFacts
  <2>2. Destination!HasData(m)
    BY <1>1, <1>5 DEF Destination!CopyData, Destination!Publish
  <2>3. ASSUME NEW g \in m PROVE store'[g.Key] = 1
    <3>1. g.Content = 1 /\ g.Key \in Keys /\ g.Key \in KeysOf(b)
      BY <1>3 DEF File
    <3>2. CASE g.Key = f.Key
      BY <1>3, <1>4, <3>2
    <3>3. CASE g.Key # f.Key
      <4>1. g.Key \notin {DiscoveryKey[d] : d \in Backups}
        BY <1>5, <2>1, <3>1, <3>3, WrittenFacts
      <4>2. store[g.Key] = 1
        BY <2>2, <3>1, <4>1 DEF Destination!HasData, Destination!HasFile
      <4>3. QED BY <1>3, <1>4, <3>1, <3>3, <4>2
    <3>4. QED BY <3>2, <3>3
  <2>4. QED BY <1>3, <2>1, <2>3
<1>6. QED BY <1>2, <1>3, <1>4, <1>5

LEMMA ImportKeeps ==
  ASSUME SourceInv, ArrivedOK, StoreOK, NEW b \in Backups, ImportFile(b)
  PROVE  ArrivedOK' /\ StoreOK'
<1>1. UNCHANGED <<bucket, need, arrived>>
  BY ImportFacts DEF vars, storeVars
<1>2. PICK k \in Keys :
        /\ store[k] = Nil /\ store' = [store EXCEPT ![k] = 1]
        /\ \A c \in Backups : k = DiscoveryKey[c] =>
             need[c] # {} /\ \A o \in need[c] : Current(c, o) => store'[o.Key] = 1
  BY ImportFacts
<1>3. /\ store' \in [Keys -> {Nil, 1}]
      /\ \A j \in Keys : j # k => store'[j] = store[j]
      /\ \A j \in Keys : store[j] = 1 => store'[j] = 1
  BY <1>2 DEF StoreOK
<1>4. ASSUME NEW c \in Backups, store'[DiscoveryKey[c]] # Nil
      PROVE  need[c] # {} /\ \A o \in need[c] : Current(c, o) => store'[o.Key] = 1
  <2>1. CASE k = DiscoveryKey[c]
    BY <1>2, <2>1
  <2>2. CASE k # DiscoveryKey[c]
    <3>1. Visible(c)
      BY <1>3, <1>4, <2>2, WrittenFacts DEF Visible
    <3>2. \A o \in need[c] : o.Key \in Keys
      BY DEF SourceInv, PassInv, TypeOK, Version
    <3>3. QED BY <1>3, <3>1, <3>2 DEF StoreOK
  <2>3. QED BY <2>1, <2>2
<1>5. ArrivedOK'
  BY <1>1 DEF ArrivedOK, Current
<1>6. StoreOK'
  BY <1>1, <1>3, <1>4 DEF StoreOK, Visible, Current
<1>7. QED BY <1>5, <1>6

LEMMA SnapbackInvInit == SnapbackInit => SnapbackInv
<1> SUFFICES ASSUME SnapbackInit PROVE SnapbackInv
  OBVIOUS
<1>1. Init /\ arrived = [b \in Backups |-> {}] /\ store = [k \in Keys |-> Nil]
  BY DEF SnapbackInit, Destination!Init
<1>2. PassInv /\ ManifestInv
  BY <1>1, PassInvInit, ManifestInvInit
<1>3. VersionsOK
  BY <1>1, WrittenFacts DEF Init, VersionsOK
<1>4. ShippingOK /\ DocsOK
  BY <1>1 DEF Init, NoPass, ShippingOK, DocsOK, Passing, Sending
<1>5. ArrivedOK /\ StoreOK
  BY <1>1, WrittenFacts DEF ArrivedOK, StoreOK, Visible
<1>6. QED BY <1>2, <1>3, <1>4, <1>5 DEF SnapbackInv, SourceInv

LEMMA SnapbackInvStep ==
  ASSUME Resend = "reject", SnapbackInv, [SnapbackNext]_allVars PROVE SnapbackInv'
<1>1. [Next]_vars
  BY DEF SnapbackNext, SourceStep, DestinationStep, SyncDocument, ImportFile, allVars
<1>2. SourceInv' /\ Moves
  BY <1>1, SourceInvStep DEF SnapbackInv
<1>3. CASE UNCHANGED destVars
  BY <1>2, <1>3, SourceKeeps DEF SnapbackInv
<1>4. CASE \E b \in Backups : SyncDocument(b)
  BY <1>2, <1>4, SyncKeeps DEF SnapbackInv
<1>5. CASE \E b \in Backups : ImportFile(b)
  BY <1>2, <1>5, ImportKeeps DEF SnapbackInv
<1>6. QED BY <1>3, <1>4, <1>5 DEF SnapbackNext, SourceStep, DestinationStep, allVars

LEMMA SnapbackInvAlways == Resend = "reject" => (SnapbackSpec => []SnapbackInv)
<1> SUFFICES ASSUME Resend = "reject" PROVE SnapbackSpec => []SnapbackInv
  OBVIOUS
<1>1. SnapbackInv /\ [SnapbackNext]_allVars => SnapbackInv'
  BY SnapbackInvStep
<1>2. QED BY <1>1, SnapbackInvInit, PTL DEF SnapbackSpec

\* A backup that Velero discovers at the destination can be restored there:
\* all that it consisted of, and the source still has, is in the destination
\* bucket, for any backups over one repository, any failures and any order in
\* which manifests and bytes travel, where peat refuses a known bundle id with
\* other files (backupreplication_controller.go:335-372, importer.go:63-67).
THEOREM VisibleIsRestorableCorrect == Resend = "reject" => (SnapbackSpec => []VisibleIsRestorable)
<1>1. SnapbackInv => VisibleIsRestorable
  BY DEF SnapbackInv, SourceInv, VersionsOK, StoreOK, VisibleIsRestorable, Lost, Restorable, Current
<1>2. QED BY <1>1, SnapbackInvAlways, PTL

-----------------------------------------------------------------------------
(* The two roles implement the service.                                    *)

lostNow  == [b \in Backups |-> Lost(b)]
imageNow == [b \in Backups |-> IF Visible(b) THEN Restorable(b) ELSE Nil]

LEMMA ServiceInit == SnapbackInit => Service!Init
<1> SUFFICES ASSUME SnapbackInit PROVE Service!Init
  OBVIOUS
<1>1. need = [b \in Backups |-> {}] /\ store = [k \in Keys |-> Nil]
  BY DEF SnapbackInit, Init, Destination!Init
<1>2. lostNow = [b \in Backups |-> {}]
  BY <1>1 DEF lostNow, Lost
<1>3. imageNow = [b \in Backups |-> Nil]
  BY <1>1, WrittenFacts DEF imageNow, Visible
<1>4. QED BY <1>1, <1>2, <1>3 DEF Service!Init, lostNow, imageNow

\* A backup completes: nothing of it is lost yet, it is not visible, and
\* nothing changes for the others.
LEMMA ServiceComplete ==
  ASSUME SnapbackInv, NEW b \in Backups, CompleteBackup(b), UNCHANGED store
  PROVE  Service!Complete(b)
<1>i. TypeOK /\ VersionsOK /\ NeedOK /\ StoreOK
  BY DEF SnapbackInv, SourceInv, PassInv, ManifestInv
<1>1. /\ need[b] = {} /\ need'[b] # {} /\ \A c \in Backups : c # b => need'[c] = need[c]
      /\ \A o \in need'[b] : o.Ver = bucket'[Location[b]][o.Key]
  BY <1>i, CompleteFacts
<1>2. need' = [need EXCEPT ![b] = need'[b]]
  BY <1>i DEF CompleteBackup, TypeOK
<1>3. ASSUME NEW c \in Backups PROVE Lost(c)' = Lost(c)
  <2>1. CASE c = b
    BY <1>1, <2>1 DEF Lost
  <2>2. CASE c # b
    <3>1. ASSUME NEW o \in need[c]
          PROVE  bucket'[Location[c]][o.Key] = bucket[Location[c]][o.Key]
      <4>1. o.Key \in Keys /\ o.Ver = 1 /\ Location[c] \in Locations
        BY <1>i, BackupsAssumption DEF TypeOK, Version, VersionsOK
      <4>2. bucket[Location[c]][o.Key] # 0
        BY <1>i, <4>1 DEF NeedOK
      <4>3. o.Key \notin Written(b)
        BY <1>i, <1>1, <4>1, <4>2 DEF VersionsOK
      <4>4. QED BY <1>i, <4>1, <4>3, CompleteFacts
    <3>2. QED BY <1>1, <2>2, <3>1 DEF Lost
  <2>3. QED BY <2>1, <2>2
<1>4. ASSUME NEW c \in Backups
      PROVE  (IF Visible(c) THEN Restorable(c) ELSE Nil)' = IF Visible(c) THEN Restorable(c) ELSE Nil
  <2>1. Visible(c)' <=> Visible(c)
    BY DEF Visible
  <2>2. Visible(c) => c # b
    BY <1>i, <1>1 DEF StoreOK
  <2>3. c # b => Restorable(c)' = Restorable(c)
    BY <1>1 DEF Restorable
  <2>4. QED BY <2>1, <2>2, <2>3
<1>5. lostNow' = lostNow /\ imageNow' = imageNow
  BY <1>3, <1>4 DEF lostNow, imageNow
<1>6. QED BY <1>1, <1>2, <1>5 DEF Service!Complete, lostNow, imageNow

\* The source loses an object.
LEMMA ServiceLose ==
  ASSUME SnapbackInv, Moves, UNCHANGED <<need, store>>
  PROVE  Service!Lose
<1>i. TypeOK /\ NeedOK
  BY DEF SnapbackInv, SourceInv, PassInv, ManifestInv
<1>1. \A b \in Backups : Lost(b) \subseteq Lost(b)' /\ Lost(b)' \subseteq need[b]
  <2> SUFFICES ASSUME NEW b \in Backups
               PROVE  Lost(b) \subseteq Lost(b)' /\ Lost(b)' \subseteq need[b]
    OBVIOUS
  <2>1. \A o \in need[b] : Current(b, o)' => Current(b, o)
    BY <1>i, NeedStep
  <2>2. QED BY <2>1 DEF Lost, Current
<1>2. imageNow' = imageNow
  BY DEF imageNow, Visible, Restorable
<1>3. QED BY <1>1, <1>2 DEF Service!Lose, imageNow

\* A file arrives at the destination.
LEMMA ServiceDeliver ==
  ASSUME SnapbackInv, NEW b \in Backups, ImportFile(b)
  PROVE  Service!Deliver
<1>i. SourceInv /\ ArrivedOK /\ StoreOK /\ VersionsOK /\ need \in [Backups -> SUBSET Version]
  BY DEF SnapbackInv, SourceInv, PassInv, TypeOK
<1>1. UNCHANGED <<bucket, need>>
  BY <1>i, ImportFacts DEF vars, storeVars
<1>2. PICK k \in Keys :
        /\ store[k] = Nil /\ store' = [store EXCEPT ![k] = 1]
        /\ \A c \in Backups : k = DiscoveryKey[c] =>
             need[c] # {} /\ \A o \in need[c] : Current(c, o) => store'[o.Key] = 1
  BY <1>i, ImportFacts
<1>3. ASSUME NEW c \in Backups
      PROVE  /\ \A o \in need[c] : o.Key \in Keys /\ o.Ver = 1
             /\ Restorable(c) \in SUBSET need[c] /\ Restorable(c)' \in SUBSET need[c]
             /\ Restorable(c) # Nil /\ Restorable(c)' # Nil
  <2>1. \A o \in need[c] : o.Key \in Keys /\ o.Ver = 1 /\ o \in [Key : Keys, Ver : {1}]
    BY <1>i DEF VersionsOK, Version
  <2>2. Restorable(c) \subseteq need[c] /\ Restorable(c)' \subseteq need[c]
    BY <1>1 DEF Restorable
  <2>3. QED BY <2>1, <2>2, ImageAssumption
<1>4. ASSUME NEW c \in Backups PROVE Service!MayBecome(c, imageNow'[c])
  <2>1. CASE ~Visible(c) /\ ~Visible(c)'
    BY <2>1 DEF Service!MayBecome, imageNow
  <2>2. CASE Visible(c) /\ ~Visible(c)'
    BY <1>i, <1>2, <2>2, WrittenFacts DEF Visible, StoreOK
  <2>3. CASE ~Visible(c) /\ Visible(c)'
    <3>1. k = DiscoveryKey[c]
      BY <1>i, <1>2, <2>3, WrittenFacts DEF Visible, StoreOK
    <3>2. need[c] # {} /\ need[c] \ Lost(c) \subseteq Restorable(c)'
      BY <1>1, <1>2, <1>3, <3>1 DEF Lost, Restorable, Current
    <3>3. imageNow[c] = Nil /\ imageNow'[c] = Restorable(c)'
      BY <2>3 DEF imageNow
    <3>4. QED BY <1>3, <3>2, <3>3 DEF Service!MayBecome, imageNow
  <2>4. CASE Visible(c) /\ Visible(c)'
    <3>1. Restorable(c) \subseteq Restorable(c)'
      BY <1>i, <1>1, <1>2, <1>3 DEF Restorable, StoreOK
    <3>2. imageNow[c] = Restorable(c) /\ imageNow'[c] = Restorable(c)'
      BY <2>4 DEF imageNow
    <3>3. QED BY <1>3, <3>1, <3>2 DEF Service!MayBecome, imageNow
  <2>5. QED BY <2>1, <2>2, <2>3, <2>4
<1>5. need' = need /\ lostNow' = lostNow
  BY <1>1 DEF lostNow, Lost
<1>6. QED BY <1>4, <1>5 DEF Service!Deliver, lostNow, imageNow

LEMMA ServiceStep ==
  ASSUME Resend = "reject", SnapbackInv, [SnapbackNext]_allVars
  PROVE  [Service!Next]_(Service!vars)
<1>0. [Next]_vars
  BY DEF SnapbackNext, SourceStep, DestinationStep, SyncDocument, ImportFile, allVars
<1>1. SourceInv' /\ Moves
  BY <1>0, SourceInvStep DEF SnapbackInv
<1>2. CASE \E b \in Backups : ImportFile(b)
  BY <1>2, ServiceDeliver DEF Service!Next
<1>3. CASE UNCHANGED store
  <2>1. CASE \E b \in Backups : CompleteBackup(b)
    BY <1>3, <2>1, ServiceComplete DEF Service!Next
  <2>2. CASE UNCHANGED need
    BY <1>1, <1>3, <2>2, ServiceLose DEF Service!Next
  <2>3. QED BY <1>1, <2>1, <2>2 DEF Moves, BucketMoves, RemoveObject
<1>4. UNCHANGED store \/ \E b \in Backups : ImportFile(b)
  BY DEF SnapbackNext, SourceStep, DestinationStep, SyncDocument, allVars, destVars
<1>5. QED BY <1>2, <1>3, <1>4

\* Source and destination together are the replication service: a backup
\* appears at the destination in one step, complete but for what the source
\* had lost, and what can be restored from it never changes or shrinks, where
\* peat refuses a known bundle id with other files
\* (backupimport_controller.go:161-164).
THEOREM ImplementsServiceCorrect == Resend = "reject" => (SnapbackSpec => ImplementsService)
<1> SUFFICES ASSUME Resend = "reject" PROVE SnapbackSpec => ImplementsService
  OBVIOUS
<1>1. SnapbackInv /\ [SnapbackNext]_allVars => [Service!Next]_(Service!vars)
  BY ServiceStep
<1>2. QED BY <1>1, ServiceInit, SnapbackInvAlways, PTL
          DEF SnapbackSpec, ImplementsService, Service!Spec
=============================================================================
