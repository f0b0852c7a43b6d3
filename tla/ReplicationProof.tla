-------------------------- MODULE ReplicationProof --------------------------
(***************************************************************************)
(* Proofs about the source role, for any backups, locations, listings,     *)
(* limits and numbers of failures and removals.                            *)
(***************************************************************************)
EXTENDS Replication, PackingProof

\* The equation of Filtered up to position n.
IsKept(r, s, T, n) ==
  r = [i \in 0 .. n |-> IF i = 0 THEN <<>>
                        ELSE IF s[i] \in T THEN Append(r[i - 1], s[i])
                        ELSE r[i - 1]]

LEMMA KeptExists ==
  ASSUME NEW s, NEW T
  PROVE  \A n \in Nat : \E r : IsKept(r, s, T, n)
<1> DEFINE Step(t, i) == IF s[i] \in T THEN Append(t, s[i]) ELSE t
           E(r, n) == r = [i \in 0 .. n |-> IF i = 0 THEN <<>> ELSE Step(r[i - 1], i)]
           S == {n \in Nat : \E r : E(r, n)}
<1> HIDE DEF Step
<1>1. 0 \in S
  <2> DEFINE r == [i \in 0 .. 0 |-> <<>>]
  <2>1. E(r, 0)
    OBVIOUS
  <2>2. QED BY <2>1
<1>2. ASSUME NEW n \in Nat, n \in S PROVE n + 1 \in S
  <2>1. PICK r : E(r, n)
    BY <1>2
  <2> DEFINE q == [i \in 0 .. (n + 1) |-> IF i = n + 1 THEN Step(r[n], n + 1) ELSE r[i]]
  <2>2. \A i \in 0 .. n : q[i] = r[i]
    OBVIOUS
  <2>3. ASSUME NEW i \in 0 .. (n + 1)
        PROVE  q[i] = IF i = 0 THEN <<>> ELSE Step(q[i - 1], i)
    <3>1. CASE i = n + 1
      BY <3>1, <2>2
    <3>2. CASE i # n + 1 /\ i = 0
      BY <3>2, <2>1
    <3>3. CASE i # n + 1 /\ i # 0
      <4>1. i \in 0 .. n /\ i - 1 \in 0 .. n
        BY <3>3
      <4>2. r[i] = Step(r[i - 1], i)
        BY <2>1, <3>3, <4>1
      <4>3. QED BY <2>2, <3>3, <4>1, <4>2
    <3>4. QED BY <3>1, <3>2, <3>3
  <2>4. E(q, n + 1)
    BY <2>3
  <2> HIDE DEF q, E
  <2>5. QED BY <2>4
<1>3. Nat \subseteq S
  <2> HIDE DEF S
  <2>1. QED BY <1>1, <1>2, Induction
<1>4. QED BY <1>3 DEF IsKept, Step

Distinct(s) == \A i, j \in 1 .. Len(s) : s[i] = s[j] => i = j

\* Filtered keeps the elements of T, all of them, and repeats none.
LEMMA FilteredKeeps ==
  ASSUME NEW K, NEW s \in Seq(K), NEW T
  PROVE  /\ Filtered(s, T) \in Seq(K)
         /\ SeqSet(Filtered(s, T)) = SeqSet(s) \cap T
         /\ Distinct(s) => Distinct(Filtered(s, T))
<1> DEFINE n == Len(s)
           R == CHOOSE r : IsKept(r, s, T, n)
           First(k) == {s[j] : j \in 1 .. k}
           G(k) == /\ R[k] \in Seq(K)
                   /\ Elements(R[k]) = First(k) \cap T
                   /\ Distinct(s) => Distinct(R[k])
           S == {k \in Nat : k <= n => G(k)}
<1>1. Filtered(s, T) = R[n]
  BY DEF Filtered, IsKept
<1>2. n \in Nat
  OBVIOUS
<1>3. IsKept(R, s, T, n)
  BY <1>2, KeptExists
<1> HIDE DEF R
<1>4. /\ R[0] = <<>>
      /\ \A i \in 1 .. n : R[i] = IF s[i] \in T THEN Append(R[i - 1], s[i]) ELSE R[i - 1]
  <2> HIDE DEF n
  <2>1. \A i \in 0 .. n : R[i] = IF i = 0 THEN <<>>
                               ELSE IF s[i] \in T THEN Append(R[i - 1], s[i])
                               ELSE R[i - 1]
    BY <1>3 DEF IsKept
  <2>2. 0 \in 0 .. n /\ \A i \in 1 .. n : i \in 0 .. n /\ i # 0
    BY <1>2
  <2>3. QED BY <2>1, <2>2
<1>5. 0 \in S
  <2>1. First(0) = {} /\ Elements(R[0]) = {} /\ Distinct(R[0]) /\ R[0] \in Seq(K)
    BY <1>4 DEF Elements, Distinct
  <2>2. QED BY <2>1
<1>6. ASSUME NEW k \in Nat, k \in S PROVE k + 1 \in S
  <2> SUFFICES ASSUME k + 1 <= n PROVE G(k + 1)
    OBVIOUS
  <2>1. G(k) /\ s[k + 1] \in K
    BY <1>2, <1>6
  <2>2. R[k + 1] = IF s[k + 1] \in T THEN Append(R[k], s[k + 1]) ELSE R[k]
    BY <1>2, <1>4
  <2>3. First(k + 1) = First(k) \cup {s[k + 1]}
    <3>1. 1 .. (k + 1) = (1 .. k) \cup {k + 1}
      OBVIOUS
    <3>2. QED BY <3>1
  <2>4. CASE s[k + 1] \notin T
    BY <2>1, <2>2, <2>3, <2>4
  <2>5. CASE s[k + 1] \in T
    <3>1. R[k + 1] = Append(R[k], s[k + 1])
      BY <2>2, <2>5
    <3>2. R[k + 1] \in Seq(K) /\ Elements(R[k + 1]) = First(k + 1) \cap T
      BY <2>1, <2>3, <2>5, <3>1, ElementsAppend
    <3>3. ASSUME Distinct(s) PROVE Distinct(R[k + 1])
      <4>1. s[k + 1] \notin First(k)
        BY <1>2, <3>3 DEF Distinct
      <4>2. \A i \in 1 .. Len(R[k]) : R[k][i] # s[k + 1]
        BY <2>1, <4>1 DEF Elements
      <4>3. Distinct(R[k])
        BY <2>1, <3>3
      <4> HIDE DEF First
      <4>4. /\ Len(R[k + 1]) = Len(R[k]) + 1 /\ Len(R[k]) \in Nat
            /\ R[k + 1][Len(R[k]) + 1] = s[k + 1]
            /\ \A i \in 1 .. Len(R[k]) : R[k + 1][i] = R[k][i]
        BY <2>1, <3>1
      <4>5. SUFFICES ASSUME NEW i \in 1 .. (Len(R[k]) + 1), NEW j \in 1 .. (Len(R[k]) + 1),
                            R[k + 1][i] = R[k + 1][j]
                     PROVE  i = j
        BY <4>4 DEF Distinct
      <4>6. CASE i <= Len(R[k]) /\ j <= Len(R[k])
        <5>1. i \in 1 .. Len(R[k]) /\ j \in 1 .. Len(R[k])
          BY <4>4, <4>6
        <5>2. R[k][i] = R[k][j]
          BY <4>4, <4>5, <5>1
        <5>3. QED BY <4>3, <5>1, <5>2 DEF Distinct
      <4>7. CASE i <= Len(R[k]) /\ j = Len(R[k]) + 1
        BY <4>2, <4>4, <4>5, <4>7
      <4>8. CASE j <= Len(R[k]) /\ i = Len(R[k]) + 1
        BY <4>2, <4>4, <4>5, <4>8
      <4>9. QED BY <4>4, <4>6, <4>7, <4>8
    <3>4. QED BY <3>2, <3>3
  <2>6. QED BY <2>4, <2>5
<1>7. Nat \subseteq S
  <2> HIDE DEF S
  <2>1. QED BY <1>5, <1>6, Induction
<1>8. G(n)
  <2> HIDE DEF n, G
  <2>1. n \in S
    BY <1>2, <1>7
  <2>2. QED BY <1>2, <2>1
<1>9. QED BY <1>1, <1>8 DEF SeqSet, Elements

-----------------------------------------------------------------------------
\* What the assumptions say of the listings.
LEMMA KeysFacts ==
  /\ RepoKeys \in Seq(Keys) /\ Distinct(RepoKeys) /\ SeqSet(RepoKeys) \subseteq Keys
  /\ \A b \in Backups : /\ MetaKeys[b] \in Seq(Keys) /\ Distinct(MetaKeys[b])
                        /\ SeqSet(MetaKeys[b]) \subseteq Keys
                        /\ SeqSet(MetaKeys[b]) \cap SeqSet(RepoKeys) = {}
<1>1. /\ SeqSet(RepoKeys) \subseteq Keys
      /\ \A b \in Backups : SeqSet(MetaKeys[b]) \subseteq Keys
  BY DEF Keys
<1>2. ASSUME NEW A, NEW B, A \subseteq B PROVE Seq(A) \subseteq Seq(B)
  BY <1>2
<1>3. RepoKeys \in Seq(SeqSet(RepoKeys)) /\ Distinct(RepoKeys)
  BY KeysAssumption DEF IsListing, Distinct
<1>4. \A b \in Backups : /\ MetaKeys[b] \in Seq(SeqSet(MetaKeys[b])) /\ Distinct(MetaKeys[b])
                         /\ SeqSet(MetaKeys[b]) \cap SeqSet(RepoKeys) = {}
  BY KeysAssumption DEF IsListing, Distinct
<1>5. QED BY <1>1, <1>2, <1>3, <1>4

\* The enumeration names existing objects, none twice; all the metadata, and
\* the repository objects that the ledger does not hold with their ETag
\* (backupreplication_controller.go:335-372).
LEMMA EnumerateFacts ==
  ASSUME NEW b \in Backups
  PROVE  LET l == Location[b]
             s == enumerateDelta(b)
         IN  /\ s \in Seq(Keys) /\ Distinct(s)
             /\ \A k \in SeqSet(MetaKeys[b]) : bucket[l][k] > 0 => k \in SeqSet(s)
             /\ \A k \in SeqSet(RepoKeys) :
                   bucket[l][k] > 0 /\ ledger[l][k] # bucket[l][k] => k \in SeqSet(s)
<1> DEFINE l == Location[b]
           U == {k \in Listed(l) : ledger[l][k] # bucket[l][k]}
           m == Filtered(MetaKeys[b], Listed(l))
           r == Filtered(RepoKeys, U)
           s == enumerateDelta(b)
<1>1. s = m \o r
  BY DEF enumerateDelta
<1>2. /\ m \in Seq(Keys) /\ SeqSet(m) = SeqSet(MetaKeys[b]) \cap Listed(l) /\ Distinct(m)
  BY KeysFacts, FilteredKeeps
<1>3. /\ r \in Seq(Keys) /\ SeqSet(r) = SeqSet(RepoKeys) \cap U /\ Distinct(r)
  BY KeysFacts, FilteredKeeps
<1>4. SeqSet(m) \cap SeqSet(r) = {}
  BY <1>2, <1>3, KeysFacts
<1>5. /\ \A k \in SeqSet(MetaKeys[b]) : bucket[l][k] > 0 => k \in SeqSet(m)
      /\ \A k \in SeqSet(RepoKeys) :
            bucket[l][k] > 0 /\ ledger[l][k] # bucket[l][k] => k \in SeqSet(r)
  BY <1>2, <1>3, KeysFacts DEF Listed
<1> HIDE DEF m, r, s, U
<1>6. /\ s \in Seq(Keys) /\ Len(s) = Len(m) + Len(r) /\ Len(m) \in Nat /\ Len(r) \in Nat
      /\ \A i \in 1 .. Len(m) : s[i] = m[i]
      /\ \A i \in (Len(m) + 1) .. (Len(m) + Len(r)) : s[i] = r[i - Len(m)]
  BY <1>1, <1>2, <1>3
<1>7. /\ \A i \in 1 .. Len(m) : m[i] \in SeqSet(m)
      /\ \A i \in 1 .. Len(r) : r[i] \in SeqSet(r)
  BY DEF SeqSet
<1>8. Distinct(s)
  <2> SUFFICES ASSUME NEW i \in 1 .. Len(s), NEW j \in 1 .. Len(s), s[i] = s[j] PROVE i = j
    BY DEF Distinct
  <2>1. CASE i <= Len(m) /\ j <= Len(m)
    BY <1>2, <1>6, <2>1 DEF Distinct
  <2>2. CASE i > Len(m) /\ j > Len(m)
    <3>1. i - Len(m) \in 1 .. Len(r) /\ j - Len(m) \in 1 .. Len(r)
      BY <1>6, <2>2
    <3>2. r[i - Len(m)] = r[j - Len(m)]
      BY <1>6, <2>2
    <3>3. i - Len(m) = j - Len(m)
      BY <1>3, <3>1, <3>2 DEF Distinct
    <3>4. QED BY <1>6, <3>3
  <2>3. CASE i <= Len(m) /\ j > Len(m)
    BY <1>4, <1>6, <1>7, <2>3
  <2>4. CASE i > Len(m) /\ j <= Len(m)
    BY <1>4, <1>6, <1>7, <2>4
  <2>5. QED BY <1>6, <2>1, <2>2, <2>3, <2>4
<1>9. SeqSet(m) \subseteq SeqSet(s) /\ SeqSet(r) \subseteq SeqSet(s)
  <2>1. SeqSet(m) \subseteq SeqSet(s)
    BY <1>6 DEF SeqSet
  <2>2. ASSUME NEW i \in 1 .. Len(r) PROVE r[i] \in SeqSet(s)
    <3>1. i + Len(m) \in 1 .. Len(s) /\ s[i + Len(m)] = r[i]
      BY <1>6
    <3>2. QED BY <3>1 DEF SeqSet
  <2>3. QED BY <2>1, <2>2 DEF SeqSet
<1>10. QED BY <1>5, <1>6, <1>8, <1>9 DEF s

\* The bundles of the pass hold what was staged, all of it and nothing else
\* (backupreplication_controller.go:150-160).
LEMMA BatchesFacts ==
  ASSUME specs \in Seq(FileSpec)
  PROVE  /\ Batches \in Seq(BatchOf(FileSpec)) /\ Len(Batches) \in Nat
         /\ \A i \in 1 .. Len(Batches) : Batches[i].Files \in Seq(FileSpec)
         /\ FilesOf(Batches) = Elements(specs)
<1>1. \A f \in FileSpec : f.Size \in Nat
  BY WordAssumption DEF FileSpec
<1>2. Batches \in Seq(BatchOf(FileSpec)) /\ FilesOf(Batches) = Elements(specs)
  BY <1>1, PackKeepsFiles DEF Batches
<1>3. \A x \in BatchOf(FileSpec) : x.Files \in Seq(FileSpec)
  BY DEF BatchOf
<1>4. QED BY <1>2, <1>3

-----------------------------------------------------------------------------
(* The inductive invariant.                                                *)

Sending == {"send", "waitbundle", "emit", "commit"}
Passing == {"stage"} \cup Sending

\* A cached copy with the current resourceVersion is the object.
SyncedOK == \A b \in synced : cache[b] = br[b]

\* A worker whose copy is current works on an object that is not terminal,
\* and while it sends nobody but a deletion touches the object.
OpenOK ==
  /\ fresh => cur \in Backups /\ br[cur] \notin Terminal
  /\ pc \in Sending => br[cur] \notin Terminal

\* What was staged is the keys of the pass so far, and is still in the outbox.
StagedOK ==
  pc \in Passing =>
    /\ Distinct(keys) /\ Len(specs) <= Len(keys)
    /\ pc \in Sending => Len(specs) = Len(keys)
    /\ \A j \in 1 .. Len(specs) :
         /\ specs[j].Key = keys[j]
         /\ outbox[keys[j]] \in [loc : Locations, Ver : {specs[j].Ver}]

\* Outside the sending part of a pass there is nothing sent, and outside the
\* pass there is nothing staged.
PassOK ==
  /\ pc \notin Sending => index = 0 /\ entries = {} /\ allDone
  /\ pc \notin Passing => specs = <<>>
  /\ pc # "waitbundle" => sent = Nil
  /\ pc = "waitbundle" => /\ sent.br = cur /\ sent.index = index
                          /\ index < Len(Batches)
  /\ pc = "send" => index <= Len(Batches)
  /\ pc \in {"emit", "commit"} => index = Len(Batches) /\ allDone

\* Every entry, published or not, is the handle of a distribution; peat has
\* completed it when the worker believes so.
HandlesOK ==
  /\ \A e \in entries : e.File \in 1 .. Len(sends[e.Bundle])
  /\ allDone => \A e \in entries :
       e.Bundle # sent => SentOf(e).status = "Completed"
  /\ \A b \in Backups : \A e \in docs[b] :
       e.File \in 1 .. Len(sends[e.Bundle]) /\ SentOf(e).status = "Completed"

PassInv == TypeOK /\ SyncedOK /\ OpenOK /\ StagedOK /\ PassOK /\ HandlesOK

\* Entries tell the truth.
HonestOK ==
  \A e \in entries \cup UNION {docs[b] : b \in Backups} :
    SentOf(e).Key = e.Key /\ SentOf(e).Ver = e.Ver

\* There is a BackupReplication only for a completed backup.
ExistsOK ==
  /\ \A b \in Backups : br[b] # "Absent" \/ cache[b] # "Absent" => need[b] # {}
  /\ pc # "idle" => need[cur] # {}

\* What a backup needs is its own metadata or in the repository, and the
\* bucket never goes back to a version that it had.
NeedOK ==
  \A b \in Backups : \A o \in need[b] :
    /\ o.Key \in SeqSet(MetaKeys[b]) \cup SeqSet(RepoKeys)
    /\ o.Ver <= bucket[Location[b]][o.Key] \/ o.Ver <= - bucket[Location[b]][o.Key]

\* The ledger records no ETag, so it never hides an object.
LedgerOK == \A l \in Locations : \A k \in Keys : ledger[l][k] <= 0

Current(b, o) == bucket[Location[b]][o.Key] = o.Ver

\* The pass ships what the backup needs, with the content it has.
ShipsOK ==
  pc \in Passing =>
    \A o \in need[cur] : Current(cur, o) =>
      /\ o.Key \in SeqSet(keys)
      /\ \A j \in 1 .. Len(specs) : specs[j].Key = o.Key => specs[j].Ver = o.Ver

HasEntry(E, k, v) == \E e \in E : e.Key = k /\ e.Ver = v

\* The files of the bundles sent so far have their entries, and the manifest
\* at the commit is this pass's.
EntriesOK ==
  /\ \A i \in 1 .. Len(Batches) :
       i <= index \/ (pc = "waitbundle" /\ i = index + 1) =>
         \A j \in 1 .. Len(Batches[i].Files) :
           HasEntry(entries, Batches[i].Files[j].Key, Batches[i].Files[j].Ver)
  /\ pc = "commit" => docs[cur] = entries

Covered(b) == \A o \in need[b] : Current(b, o) => HasEntry(docs[b], o.Key, o.Ver)

CoversOK ==
  /\ \A b \in Backups : br[b] = "Replicated" => Covered(b)
  /\ my = "Replicated" => pc = "final" /\ Covered(cur)

ManifestInv == HonestOK /\ ExistsOK /\ NeedOK /\ LedgerOK /\ ShipsOK /\ EntriesOK /\ CoversOK

-----------------------------------------------------------------------------
(* What a step can do to each part of the state.                           *)

Stays == UNCHANGED <<pc, cur, my, passVars>> /\ (fresh' = fresh \/ fresh' = FALSE)

\* The pass ends with a write of the status still to come.
Leaves ==
  \/ pc \notin {"idle", "wait", "final"} /\ GoWrite(my, "wait")
  \/ pc = "enumerate" /\ GoWrite("Skipped", "final")
  \/ pc = "commit" /\ GoWrite("Replicated", "final") /\ UNCHANGED docs

StartGo ==
  /\ pc = "idle" /\ cur' \in Backups /\ fresh' = (cur' \in synced)
  /\ cache[cur'] \notin Terminal \cup {"Absent"}
  /\ \/ pc' = "enumerate" /\ my' = "Staging"
     \/ pc' = "wait" /\ my' = cache[cur']
  /\ UNCHANGED <<passVars, br, cache, synced>>

EnumerateGo ==
  /\ pc = "enumerate" /\ keys' = enumerateDelta(cur) /\ pc' = "stage"
  /\ UNCHANGED <<cur, my, fresh, specs, index, sent, entries, allDone>>

StageGo ==
  LET k == keys[Len(specs) + 1]
      v == bucket[Location[cur]][k]
  IN  /\ pc = "stage" /\ Len(specs) < Len(keys) /\ v > 0
      /\ outbox' = [outbox EXCEPT ![k] = [loc |-> Location[cur], Ver |-> v]]
      /\ specs' = Append(specs, [Key |-> k, Ver |-> v, Size |-> SizeOf[k]])
      /\ UNCHANGED <<pc, cur, my, fresh, keys, index, sent, entries, allDone>>

TransmitGo ==
  /\ pc = "stage" /\ Len(specs) = Len(keys) /\ fresh
  /\ my' = "Transmitting" /\ pc' = "send" /\ Write(cur, "Transmitting")
  /\ UNCHANGED <<cur, fresh, passVars>>

BundleAtHand == [br |-> cur, index |-> index, gen |-> gen]
FilesAtHand  == Batches[index + 1].Files

Takes ==
  /\ pc = "send" /\ index < Len(Batches) /\ index < MaxBundles
  /\ Accepts(BundleAtHand, FilesAtHand) /\ TakeBundle(BundleAtHand, FilesAtHand)

SendGo ==
  /\ Takes
  /\ entries' = entries \cup HandleEntries(BundleAtHand, FilesAtHand)
  /\ sent' = BundleAtHand /\ pc' = "waitbundle"
  /\ UNCHANGED <<cur, my, fresh, keys, specs, index, allDone, docs>>

WaitGo ==
  /\ pc = "waitbundle"
  /\ allDone' = (allDone /\ summarize(sends[sent]) = "Completed")
  /\ index' = index + 1 /\ sent' = Nil /\ pc' = "send"
  /\ UNCHANGED <<cur, my, fresh, keys, specs, entries, sends, docs>>

DoneGo ==
  /\ pc = "send" /\ index = Len(Batches) /\ allDone /\ pc' = "emit"
  /\ UNCHANGED <<cur, my, fresh, passVars, sends, docs>>

EmitGo ==
  /\ pc = "emit" /\ pc' = "commit" /\ docs' = [docs EXCEPT ![cur] = entries]
  /\ UNCHANGED <<cur, my, fresh, passVars, sends>>

WorkerMoves ==
  \/ Stays
  \/ /\ UNCHANGED <<bucket, need>>
     /\ \/ GoIdle \/ Leaves \/ StartGo \/ EnumerateGo \/ StageGo \/ TransmitGo
        \/ SendGo \/ WaitGo \/ DoneGo \/ EmitGo

BucketMoves ==
  \/ UNCHANGED <<bucket, need>>
  \/ \E b \in Backups : CompleteBackup(b)
  \/ \E l \in Locations, k \in Keys : RemoveObject(l, k)

LedgerMoves == ledger' = ledger \/ (pc = "commit" /\ ledger' = Committed(Location[cur]))

OutboxMoves == outbox' = outbox \/ StageGo

SendsMoves ==
  \/ sends' = sends
  \/ \E g \in Bundles : \E j \in 1 .. Len(sends[g]) : \E s \in Outcomes :
        /\ sends[g][j].status = "InProgress"
        /\ sends' = [sends EXCEPT ![g][j].status = s]
  \/ Takes

DocsMoves == docs' = docs \/ (pc = "emit" /\ docs' = [docs EXCEPT ![cur] = entries])

ApiMoves ==
  \/ UNCHANGED <<br, cache, synced>>
  \/ \E b \in Backups : /\ need[b] # {} /\ br[b] = "Absent" /\ Write(b, "None")
                        /\ UNCHANGED cache /\ Stays
  \/ \E b \in Backups : /\ Write(b, "Absent") /\ fresh' = (fresh /\ cur # b)
                        /\ UNCHANGED cache /\ Stays
  \/ \E b \in Backups : /\ cache' = [cache EXCEPT ![b] = br[b]]
                        /\ synced' = synced \cup {b}
                        /\ UNCHANGED br /\ Stays
  \/ cache' = br /\ synced' = Backups /\ br' = br /\ GoIdle
  \/ /\ pc = "stage" /\ fresh /\ Write(cur, "Transmitting") /\ UNCHANGED cache
     /\ GoIdle \/ TransmitGo
  \/ /\ pc \in {"wait", "final"} /\ fresh /\ Write(cur, my) /\ UNCHANGED cache
     /\ GoIdle

CountMoves ==
  /\ UNCHANGED <<faults, gen>> \/ (Fault /\ gen' \in {gen, gen + 1})
  /\ removals' = removals \/ (removals < MaxRemovals /\ removals' = removals + 1)
  /\ policy' \in {"active", "paused", "missing"}
  /\ queue' \subseteq Backups

Moves == /\ WorkerMoves /\ BucketMoves /\ LedgerMoves /\ OutboxMoves
         /\ SendsMoves /\ DocsMoves /\ ApiMoves /\ CountMoves

LEMMA NextMoves == ASSUME TypeOK, [Next]_vars PROVE Moves
<1> USE DEF storeVars, peatVars, apiVars, workerVars, passVars
<1> USE DEF Moves, WorkerMoves, BucketMoves, LedgerMoves, OutboxMoves, SendsMoves,
            DocsMoves, ApiMoves, CountMoves, Stays
<1>t. /\ policy \in {"active", "paused", "missing"} /\ queue \subseteq Backups
      /\ fresh \in BOOLEAN /\ cur \in Backups \cup {Nil} /\ (pc # "idle" => cur # Nil)
  BY DEF TypeOK
<1>u. CASE UNCHANGED vars
  BY <1>t, <1>u DEF vars
<1>1. ASSUME NEW b \in Backups, CompleteBackup(b) PROVE Moves
  BY <1>t, <1>1, Zenon DEF CompleteBackup
<1>2. ASSUME NEW b \in Backups, EnsureReplication(b) PROVE Moves
  BY <1>t, <1>2 DEF EnsureReplication
<1>3. ASSUME NEW b \in Backups, DeleteReplication(b) PROVE Moves
  BY <1>t, <1>3 DEF DeleteReplication, Fault
<1>4. ASSUME NEW b \in Backups, CacheSync(b) PROVE Moves
  BY <1>t, <1>4 DEF CacheSync
<1>5. ASSUME NEW b \in Backups, StartReplication(b) PROVE Moves
  BY <1>t, <1>5 DEF StartReplication, StartGo
<1>6. ASSUME NEW l \in Locations, NEW k \in Keys, RemoveObject(l, k) PROVE Moves
  BY <1>t, <1>6 DEF RemoveObject
<1>7. CASE Progress
  <2>1. PICK g \in Bundles : \E j \in 1 .. Len(sends[g]) : \E s \in Outcomes :
                PeatProgress(g, j, s)
    BY <1>7 DEF Progress
  <2>2. PICK j \in 1 .. Len(sends[g]) : \E s \in Outcomes : PeatProgress(g, j, s)
    BY <2>1
  <2>3. PICK s \in Outcomes : PeatProgress(g, j, s)
    BY <2>2
  <2>4. SendsMoves
    BY <2>3, Zenon DEF PeatProgress
  <2>5. QED BY <1>t, <2>3, <2>4 DEF PeatProgress
<1>8. CASE PeatRestart
  BY <1>t, <1>8 DEF PeatRestart, Fault
<1>9. CASE PolicyBreaks \/ PolicyRestored
  BY <1>t, <1>9 DEF PolicyBreaks, PolicyRestored, Fault
<1>10. CASE Restart
  BY <1>t, <1>10 DEF Restart, Fault
<1>11. CASE Enumerate
  BY <1>t, <1>11 DEF Enumerate, PassFails, Fault, Leaves, EnumerateGo
<1>12. CASE StageObject
  BY <1>t, <1>12 DEF StageObject, PassFails, Fault, Leaves, StageGo
<1>13. CASE BeginTransmit
  BY <1>t, <1>13 DEF BeginTransmit, Fault, TransmitGo
<1>14. CASE SendBundle
  BY <1>t, <1>14 DEF SendBundle, PassFails, Fault, Leaves, SendGo, Takes, BundleAtHand,
                     FilesAtHand
<1>15. CASE WaitBundle
  BY <1>t, <1>15 DEF WaitBundle, PassFails, Fault, Leaves, WaitGo
<1>16. CASE BundlesDone
  BY <1>t, <1>16 DEF BundlesDone, Leaves, DoneGo
<1>17. CASE emitManifest
  BY <1>t, <1>17 DEF emitManifest, PassFails, Fault, Leaves, EmitGo
<1>18. CASE commitLedger
  BY <1>t, <1>18 DEF commitLedger, PassFails, Fault, Leaves
<1>19. CASE WriteStatus
  BY <1>t, <1>19 DEF WriteStatus, Fault
<1>20. QED
  BY <1>u, <1>1, <1>2, <1>3, <1>4, <1>5, <1>6, <1>7, <1>8, <1>9, <1>10, <1>11, <1>12,
     <1>13, <1>14, <1>15, <1>16, <1>17, <1>18, <1>19 DEF Next, WorkerStep

\* The bundle at hand names files that are in the outbox as they were staged.
LEMMA AtHand ==
  ASSUME TypeOK, StagedOK, pc = "send", index < Len(Batches), index < MaxBundles
  PROVE  /\ BundleAtHand \in Bundles /\ FilesAtHand \in Seq(FileSpec)
         /\ \A j \in 1 .. Len(FilesAtHand) :
              /\ FilesAtHand[j] \in FileSpec
              /\ outbox[FilesAtHand[j].Key].Ver = FilesAtHand[j].Ver
<1>1. BundleAtHand \in Bundles
  BY BoundsAssumption DEF TypeOK, BundleAtHand, Bundles
<1>2. /\ specs \in Seq(FileSpec) /\ index + 1 \in 1 .. Len(Batches)
      /\ FilesAtHand \in Seq(FileSpec) /\ FilesOf(Batches) = Elements(specs)
  <2>1. specs \in Seq(FileSpec) /\ index \in Nat
    BY DEF TypeOK
  <2>2. QED BY <2>1, BatchesFacts DEF FilesAtHand
<1>3. ASSUME NEW j \in 1 .. Len(FilesAtHand)
      PROVE  /\ FilesAtHand[j] \in FileSpec
             /\ outbox[FilesAtHand[j].Key].Ver = FilesAtHand[j].Ver
  <2>1. FilesAtHand[j] \in Elements(specs)
    <3>1. FilesAtHand[j] \in Elements(Batches[index + 1].Files)
      BY DEF Elements, FilesAtHand
    <3>2. QED BY <1>2, <3>1 DEF FilesOf
  <2>2. PICK i \in 1 .. Len(specs) : FilesAtHand[j] = specs[i]
    BY <2>1 DEF Elements
  <2>3. outbox[specs[i].Key] \in [loc : Locations, Ver : {specs[i].Ver}]
    <3>1. pc \in Passing
      BY DEF Passing, Sending
    <3>2. QED BY <3>1 DEF StagedOK
  <2>4. QED BY <1>2, <2>2, <2>3
<1>4. QED BY <1>1, <1>2, <1>3

\* A bundle that peat has keeps its files, and a completed one stays so.
LEMMA SendsStep ==
  ASSUME TypeOK, StagedOK, SendsMoves
  PROVE  /\ sends' \in [Bundles -> Seq(SentFile)]
         /\ \A g \in Bundles : \A j \in 1 .. Len(sends[g]) :
              /\ Len(sends'[g]) = Len(sends[g])
              /\ sends'[g][j].Key = sends[g][j].Key /\ sends'[g][j].Ver = sends[g][j].Ver
              /\ sends[g][j].status = "Completed" => sends'[g][j].status = "Completed"
<1>t. sends \in [Bundles -> Seq(SentFile)]
  BY DEF TypeOK
<1>1. CASE sends' = sends
  BY <1>t, <1>1
<1>2. ASSUME NEW h \in Bundles, NEW i \in 1 .. Len(sends[h]), NEW s \in Outcomes,
             sends[h][i].status = "InProgress",
             sends' = [sends EXCEPT ![h][i].status = s]
      PROVE  /\ sends' \in [Bundles -> Seq(SentFile)]
             /\ \A g \in Bundles : \A j \in 1 .. Len(sends[g]) :
                  /\ Len(sends'[g]) = Len(sends[g])
                  /\ sends'[g][j].Key = sends[g][j].Key /\ sends'[g][j].Ver = sends[g][j].Ver
                  /\ sends[g][j].status = "Completed" => sends'[g][j].status = "Completed"
  <2> DEFINE f == [sends[h][i] EXCEPT !.status = s]
  <2>1. sends[h] \in Seq(SentFile) /\ sends[h][i] \in SentFile /\ s \in Statuses
    BY <1>t, OutcomesAssumption
  <2>2. /\ f \in SentFile /\ f.Key = sends[h][i].Key /\ f.Ver = sends[h][i].Ver
    BY <2>1 DEF SentFile
  <2> HIDE DEF f
  <2>3. sends' = [sends EXCEPT ![h] = [sends[h] EXCEPT ![i] = f]]
    BY <1>2 DEF f
  <2> DEFINE q == [sends[h] EXCEPT ![i] = f]
  <2>4. /\ q \in Seq(SentFile) /\ Len(q) = Len(sends[h]) /\ q[i] = f
        /\ \A j \in 1 .. Len(sends[h]) : j # i => q[j] = sends[h][j]
    BY <2>1, <2>2
  <2> HIDE DEF q
  <2>5. sends' = [sends EXCEPT ![h] = q]
    BY <2>3 DEF q
  <2>6. \A g \in Bundles : sends'[g] = IF g = h THEN q ELSE sends[g]
    BY <1>t, <2>5
  <2>7. QED BY <1>t, <1>2, <2>2, <2>4, <2>5, <2>6
<1>3. CASE Takes
  <2> DEFINE g == BundleAtHand
             fs == FilesAtHand
  <2>1. /\ g \in Bundles /\ fs \in Seq(FileSpec)
        /\ \A j \in 1 .. Len(fs) : fs[j] \in FileSpec /\ outbox[fs[j].Key].Ver = fs[j].Ver
    BY <1>3, AtHand DEF Takes
  <2> HIDE DEF g, fs
  <2>2. Taken(fs) \in Seq(SentFile)
    <3>1. \A j \in 1 .. Len(fs) :
            [Key |-> fs[j].Key, Ver |-> outbox[fs[j].Key].Ver, status |-> "InProgress"]
              \in SentFile
      BY <2>1 DEF FileSpec, SentFile, Statuses
    <3>2. Len(fs) \in Nat
      BY <2>1
    <3>3. QED BY <3>1, <3>2 DEF Taken
  <2>3. sends' = sends \/ (sends[g] = <<>> /\ sends' = [sends EXCEPT ![g] = Taken(fs)])
    BY <1>3 DEF Takes, TakeBundle, g, fs
  <2>4. CASE sends[g] = <<>> /\ sends' = [sends EXCEPT ![g] = Taken(fs)]
    <3>1. \A h \in Bundles : h # g => sends'[h] = sends[h]
      BY <1>t, <2>1, <2>4
    <3>2. \A h \in Bundles : \A j \in 1 .. Len(sends[h]) : h # g
      BY <2>4
    <3>3. sends' \in [Bundles -> Seq(SentFile)]
      BY <1>t, <2>1, <2>2, <2>4
    <3>4. QED BY <3>1, <3>2, <3>3
  <2>5. QED BY <1>1, <2>3, <2>4
<1>4. QED BY <1>1, <1>2, <1>3 DEF SendsMoves

-----------------------------------------------------------------------------
(* Every step preserves the invariant.                                     *)

LEMMA StoreTypeStep ==
  ASSUME TypeOK, Moves
  PROVE  /\ bucket' \in [Locations -> [Keys -> Int]]
         /\ ledger' \in [Locations -> [Keys -> Int]]
         /\ need' \in [Backups -> SUBSET Version]
         /\ outbox' \in [Keys -> [loc : Locations, Ver : Nat \ {0}] \cup {Nil}]
<1>t. /\ bucket \in [Locations -> [Keys -> Int]] /\ ledger \in [Locations -> [Keys -> Int]]
      /\ need \in [Backups -> SUBSET Version]
      /\ outbox \in [Keys -> [loc : Locations, Ver : Nat \ {0}] \cup {Nil}]
      /\ cur \in Backups \cup {Nil} /\ (pc # "idle" => cur \in Backups)
      /\ keys \in Seq(Keys) /\ specs \in Seq(FileSpec)
  BY DEF TypeOK
<1>1. bucket' \in [Locations -> [Keys -> Int]] /\ need' \in [Backups -> SUBSET Version]
  <2>1. CASE UNCHANGED <<bucket, need>>
    BY <1>t, <2>1
  <2>2. ASSUME NEW b \in Backups, CompleteBackup(b)
        PROVE  /\ bucket' \in [Locations -> [Keys -> Int]]
               /\ need' \in [Backups -> SUBSET Version]
    <3>1. /\ Location[b] \in Locations
          /\ SeqSet(MetaKeys[b]) \cup SeqSet(RepoKeys) \subseteq Keys
      BY BackupsAssumption, KeysFacts
    <3>2. bucket' \in [Locations -> [Keys -> Int]]
      <4>1. \A v \in Int : NewVersion(v) \in Int
        BY DEF NewVersion
      <4>2. QED BY <1>t, <2>2, <3>1, <4>1 DEF CompleteBackup
    <3>3. \A k \in Keys : bucket'[Location[b]][k] > 0 =>
             [Key |-> k, Ver |-> bucket'[Location[b]][k]] \in Version
      BY <3>1, <3>2 DEF Version
    <3> DEFINE K == {k \in SeqSet(MetaKeys[b]) \cup SeqSet(RepoKeys) : bucket'[Location[b]][k] > 0}
               N == {[Key |-> k, Ver |-> bucket'[Location[b]][k]] : k \in K}
    <3>4. N \subseteq Version
      BY <3>1, <3>3
    <3>5. need' = [need EXCEPT ![b] = N]
      BY <2>2 DEF CompleteBackup
    <3> HIDE DEF N
    <3>6. QED BY <1>t, <3>2, <3>4, <3>5
  <2>3. ASSUME NEW l \in Locations, NEW k \in Keys, RemoveObject(l, k)
        PROVE  /\ bucket' \in [Locations -> [Keys -> Int]]
               /\ need' \in [Backups -> SUBSET Version]
    <3>1. bucket' = [bucket EXCEPT ![l] = [bucket[l] EXCEPT ![k] = - bucket[l][k]]]
      BY <2>3 DEF RemoveObject
    <3>2. QED BY <1>t, <2>3, <3>1 DEF RemoveObject
  <2>4. QED BY <2>1, <2>2, <2>3 DEF Moves, BucketMoves
<1>2. ledger' \in [Locations -> [Keys -> Int]]
  <2>1. CASE pc = "commit" /\ ledger' = Committed(Location[cur])
    BY <1>t, <2>1, BackupsAssumption DEF Committed
  <2>2. QED BY <1>t, <2>1 DEF Moves, LedgerMoves
<1>3. outbox' \in [Keys -> [loc : Locations, Ver : Nat \ {0}] \cup {Nil}]
  <2>1. CASE StageGo
    <3> DEFINE k == keys[Len(specs) + 1]
    <3>1. k \in Keys /\ Location[cur] \in Locations
      BY <1>t, <2>1, BackupsAssumption DEF StageGo
    <3>2. bucket[Location[cur]][k] \in Nat \ {0}
      BY <1>t, <2>1, <3>1 DEF StageGo
    <3>3. QED BY <1>t, <2>1, <3>1, <3>2 DEF StageGo
  <2>2. QED BY <1>t, <2>1 DEF Moves, OutboxMoves
<1>4. QED BY <1>1, <1>2, <1>3

LEMMA ApiTypeStep ==
  ASSUME TypeOK, Moves
  PROVE  /\ br' \in [Backups -> Phases] /\ cache' \in [Backups -> Phases]
         /\ synced' \subseteq Backups
         /\ gen' \in Gens /\ gen' <= faults' /\ faults' \in 0 .. MaxFaults
         /\ removals' \in 0 .. MaxRemovals
         /\ policy' \in {"active", "paused", "missing"} /\ queue' \subseteq Backups
<1>1. /\ br \in [Backups -> Phases] /\ cache \in [Backups -> Phases] /\ synced \subseteq Backups
      /\ cur \in Backups \cup {Nil} /\ (pc # "idle" => cur \in Backups) /\ my \in Phases
  BY DEF TypeOK
<1>2. /\ br' \in [Backups -> Phases] /\ cache' \in [Backups -> Phases]
      /\ synced' \subseteq Backups
  BY <1>1 DEF Moves, ApiMoves, Write, Phases
<1>3. /\ gen' \in Gens /\ gen' <= faults' /\ faults' \in 0 .. MaxFaults
      /\ removals' \in 0 .. MaxRemovals
  BY BoundsAssumption DEF TypeOK, Moves, CountMoves, Fault, Gens
<1>4. QED BY <1>2, <1>3 DEF Moves, CountMoves

\* The entries of the handles of the bundle at hand are in range.
LEMMA HandlesStep ==
  ASSUME TypeOK, StagedOK, Takes
  PROVE  \A e \in HandleEntries(BundleAtHand, FilesAtHand) :
           /\ e \in Entry /\ e.Bundle = BundleAtHand
           /\ e.File \in 1 .. Len(sends'[BundleAtHand])
           /\ e.File \in 1 .. Len(FilesAtHand)
           /\ e.Key = FilesAtHand[e.File].Key /\ e.Ver = FilesAtHand[e.File].Ver
<1> DEFINE g == BundleAtHand
           fs == FilesAtHand
<1>1. /\ g \in Bundles /\ fs \in Seq(FileSpec) /\ \A j \in 1 .. Len(fs) : fs[j] \in FileSpec
  BY AtHand DEF Takes
<1>2. sends' = IF sends[g] = <<>> THEN [sends EXCEPT ![g] = Taken(fs)] ELSE sends
  BY DEF Takes, TakeBundle
<1>3. sends \in [Bundles -> Seq(SentFile)]
  BY DEF TypeOK
<1> HIDE DEF g, fs
<1>4. Len(sends'[g]) = IF sends[g] = <<>> THEN Len(fs) ELSE Len(sends[g])
  <2>1. Len(Taken(fs)) = Len(fs)
    <3>1. Len(fs) \in Nat
      BY <1>1
    <3>2. QED BY <3>1 DEF Taken
  <2>2. QED BY <1>1, <1>2, <1>3, <2>1
<1>5. Len(fs) \in Nat /\ Len(sends'[g]) \in Nat
  BY <1>1, <1>3, <1>4
<1>6. \A e \in HandleEntries(g, fs) : \E j \in 1 .. Len(sends'[g]) :
         /\ j <= Len(fs)
         /\ e = [Key |-> fs[j].Key, Ver |-> fs[j].Ver, Bundle |-> g, File |-> j]
  BY <1>4 DEF HandleEntries
<1>7. ASSUME NEW j \in 1 .. Len(sends'[g]), j <= Len(fs)
      PROVE  LET e == [Key |-> fs[j].Key, Ver |-> fs[j].Ver, Bundle |-> g, File |-> j]
             IN  e \in Entry
  <2>1. j \in 1 .. Len(fs) /\ j \in Nat \ {0}
    BY <1>5, <1>7
  <2>2. fs[j].Key \in Keys /\ fs[j].Ver \in Nat \ {0}
    BY <1>1, <2>1 DEF FileSpec
  <2>3. QED BY <1>1, <2>1, <2>2 DEF Entry
<1>8. QED BY <1>5, <1>6, <1>7 DEF g, fs

LEMMA WorkerTypeStep ==
  ASSUME TypeOK, StagedOK, PassOK, Moves
  PROVE  /\ pc' \in {"idle", "enumerate", "stage", "send", "waitbundle", "emit", "commit",
                     "wait", "final"}
         /\ cur' \in Backups \cup {Nil} /\ (pc' # "idle" => cur' # Nil)
         /\ my' \in Phases /\ fresh' \in BOOLEAN /\ (pc' # "idle" => my' # "Absent")
         /\ keys' \in Seq(Keys) /\ specs' \in Seq(FileSpec) /\ index' \in Nat
         /\ sent' \in Bundles \cup {Nil} /\ (pc' = "waitbundle" => sent' # Nil)
         /\ entries' \in SUBSET Entry /\ allDone' \in BOOLEAN
<1> USE DEF passVars
<1>t. /\ pc \in {"idle", "enumerate", "stage", "send", "waitbundle", "emit", "commit",
                 "wait", "final"}
      /\ cur \in Backups \cup {Nil} /\ (pc # "idle" => cur # Nil)
      /\ my \in Phases /\ fresh \in BOOLEAN /\ (pc # "idle" => my # "Absent")
      /\ keys \in Seq(Keys) /\ specs \in Seq(FileSpec) /\ index \in Nat
      /\ sent \in Bundles \cup {Nil} /\ (pc = "waitbundle" => sent # Nil)
      /\ entries \in SUBSET Entry /\ allDone \in BOOLEAN
      /\ Nil \notin Backups /\ Nil \notin Bundles
      /\ cache \in [Backups -> Phases]
  BY NilAssumption DEF TypeOK
<1>1. CASE Stays
  BY <1>t, <1>1 DEF Stays
<1>c. ASSUME ClearPass
      PROVE  /\ keys' \in Seq(Keys) /\ specs' \in Seq(FileSpec) /\ index' \in Nat
             /\ sent' = Nil /\ entries' \in SUBSET Entry /\ allDone' \in BOOLEAN
  <2>1. keys' \in Seq(Keys)
    BY <1>c DEF ClearPass
  <2>2. specs' \in Seq(FileSpec)
    BY <1>c DEF ClearPass
  <2>3. QED BY <1>c, <2>1, <2>2 DEF ClearPass
<1>2. CASE GoIdle
  BY <1>c, <1>2 DEF GoIdle, Phases
<1>3. CASE Leaves
  BY <1>t, <1>c, <1>3 DEF Leaves, GoWrite, Phases
<1>4. CASE StartGo
  BY <1>t, <1>4 DEF StartGo, Phases
<1>5. CASE EnumerateGo
  <2>1. enumerateDelta(cur) \in Seq(Keys)
    BY <1>t, <1>5, EnumerateFacts DEF EnumerateGo
  <2>2. QED BY <1>t, <1>5, <2>1 DEF EnumerateGo
<1>6. CASE StageGo
  <2> DEFINE k == keys[Len(specs) + 1]
             v == bucket[Location[cur]][k]
  <2>1. k \in Keys /\ Location[cur] \in Locations
    BY <1>t, <1>6, BackupsAssumption DEF StageGo
  <2>2. v \in Nat \ {0}
    BY <1>6, <2>1 DEF StageGo, TypeOK
  <2>3. [Key |-> k, Ver |-> v, Size |-> SizeOf[k]] \in FileSpec
    BY <2>1, <2>2, SizeAssumption DEF FileSpec
  <2>4. specs' \in Seq(FileSpec)
    BY <1>t, <1>6, <2>3 DEF StageGo
  <2>5. QED BY <1>t, <1>6, <2>4 DEF StageGo
<1>7. CASE TransmitGo
  BY <1>t, <1>7 DEF TransmitGo, Phases
<1>8. CASE SendGo
  <2>1. entries' \subseteq Entry
    BY <1>t, <1>8, HandlesStep DEF SendGo
  <2>2. sent' \in Bundles /\ sent' # Nil
    BY <1>t, <1>8, AtHand DEF SendGo, Takes
  <2>3. QED BY <1>t, <1>8, <2>1, <2>2 DEF SendGo, Takes
<1>9. CASE WaitGo
  BY <1>t, <1>9 DEF WaitGo
<1>10. CASE DoneGo \/ EmitGo
  BY <1>t, <1>10 DEF DoneGo, EmitGo
<1>11. QED
  BY <1>1, <1>2, <1>3, <1>4, <1>5, <1>6, <1>7, <1>8, <1>9, <1>10 DEF Moves, WorkerMoves

LEMMA TypeStep == ASSUME TypeOK, StagedOK, PassOK, Moves PROVE TypeOK'
<1>1. docs' \in [Backups -> SUBSET Entry]
  BY DEF TypeOK, Moves, DocsMoves
<1>2. sends' \in [Bundles -> Seq(SentFile)]
  BY SendsStep DEF Moves
<1> USE StoreTypeStep, ApiTypeStep, WorkerTypeStep
<1>3. QED BY <1>1, <1>2 DEF TypeOK

LEMMA SyncedStep == ASSUME TypeOK, SyncedOK, Moves PROVE SyncedOK'
<1>1. /\ br \in [Backups -> Phases] /\ cache \in [Backups -> Phases] /\ synced \subseteq Backups
      /\ cur \in Backups \cup {Nil} /\ (pc # "idle" => cur \in Backups)
  BY DEF TypeOK
<1>2. ASSUME NEW b \in Backups, NEW o, Write(b, o), UNCHANGED cache PROVE SyncedOK'
  BY <1>1, <1>2 DEF Write, SyncedOK
<1>3. QED BY <1>1, <1>2 DEF Moves, ApiMoves, SyncedOK

\* A phase in the API server changes by the worker's update of a current copy,
\* by a creation or by a deletion.
LEMMA PhaseStep ==
  ASSUME TypeOK, Moves
  PROVE  \A b \in Backups :
           \/ br'[b] = br[b]
           \/ br[b] = "Absent" /\ br'[b] = "None" /\ need[b] # {} /\ Stays
           \/ br'[b] = "Absent" /\ Stays
           \/ b = cur /\ fresh /\ pc = "stage" /\ br'[b] = "Transmitting" /\ (GoIdle \/ TransmitGo)
           \/ b = cur /\ fresh /\ pc \in {"wait", "final"} /\ br'[b] = my /\ GoIdle
<1>1. br \in [Backups -> Phases]
  BY DEF TypeOK
<1>2. \A b \in Backups : \A c, o : Write(c, o) => br'[b] = IF b = c THEN o ELSE br[b]
  BY <1>1 DEF Write
<1>3. QED BY <1>2 DEF Moves, ApiMoves

LEMMA OpenStep == ASSUME TypeOK, SyncedOK, OpenOK, Moves PROVE OpenOK'
<1>t. /\ fresh \in BOOLEAN /\ (pc # "idle" => cur \in Backups)
  BY DEF TypeOK
<1>1. CASE Stays
  <2>1. fresh' => fresh
    BY <1>t, <1>1 DEF Stays
  <2>2. UNCHANGED <<pc, cur>>
    BY <1>1 DEF Stays
  <2>3. \A b \in Backups : br'[b] \in {br[b], "None", "Absent"} \/ GoIdle \/ TransmitGo
    BY PhaseStep
  <2>4. CASE GoIdle
    BY <2>4 DEF OpenOK, GoIdle, Sending
  <2>5. CASE TransmitGo
    BY <1>1, <2>5 DEF TransmitGo, Stays
  <2>6. QED BY <1>t, <2>1, <2>2, <2>3, <2>4, <2>5 DEF OpenOK, Terminal, Sending
<1>2. CASE GoIdle
  BY <1>2 DEF OpenOK, GoIdle, Sending
<1>3. CASE StartGo
  BY <1>3 DEF OpenOK, SyncedOK, StartGo, Sending
<1>4. CASE TransmitGo
  <2>1. br'[cur] = "Transmitting" /\ cur \in Backups
    BY <1>t, <1>4 DEF TransmitGo, Write, TypeOK
  <2>2. QED BY <1>4, <2>1 DEF OpenOK, TransmitGo, Terminal
<1>5. CASE Leaves \/ EnumerateGo \/ StageGo \/ SendGo \/ WaitGo \/ DoneGo \/ EmitGo
  <2>1. /\ UNCHANGED <<cur, fresh>> /\ (pc' \in Sending => pc \in Sending) /\ pc' # "idle"
        /\ pc \notin {"wait", "final", "idle"} /\ ~ TransmitGo
    BY <1>5 DEF Leaves, EnumerateGo, StageGo, SendGo, Takes, WaitGo, DoneGo, EmitGo,
                TransmitGo, GoWrite, Sending
  <2>2. cur \in Backups /\ br'[cur] \in {br[cur], "None", "Absent"}
    BY <1>t, <2>1, PhaseStep DEF GoIdle
  <2>3. QED BY <2>1, <2>2 DEF OpenOK, Terminal
<1>6. QED
  BY <1>1, <1>2, <1>3, <1>4, <1>5 DEF Moves, WorkerMoves

LEMMA StagedStep == ASSUME TypeOK, StagedOK, PassOK, Moves PROVE StagedOK'
<1> USE DEF passVars
<1>t. /\ keys \in Seq(Keys) /\ specs \in Seq(FileSpec) /\ Len(keys) \in Nat /\ Len(specs) \in Nat
      /\ outbox \in [Keys -> [loc : Locations, Ver : Nat \ {0}] \cup {Nil}]
      /\ (pc # "idle" => cur \in Backups)
  BY DEF TypeOK
<1>1. CASE StageGo
  <2> DEFINE n == Len(specs) + 1
             k == keys[n]
             v == bucket[Location[cur]][k]
  <2>1. /\ n \in 1 .. Len(keys) /\ k \in Keys /\ Location[cur] \in Locations
        /\ pc = "stage" /\ pc' = "stage" /\ keys' = keys /\ pc \in Passing
    BY <1>t, <1>1, BackupsAssumption DEF StageGo, Passing
  <2>2. /\ Len(specs') = n /\ specs'[n].Key = k /\ specs'[n].Ver = v
        /\ \A j \in 1 .. Len(specs) : specs'[j] = specs[j]
    BY <1>t, <1>1 DEF StageGo
  <2>3. /\ outbox'[k] = [loc |-> Location[cur], Ver |-> v]
        /\ \A m \in Keys : m # k => outbox'[m] = outbox[m]
    BY <1>t, <1>1, <2>1 DEF StageGo
  <2> HIDE DEF k, v
  <2>4. \A j \in 1 .. Len(specs) : keys[j] \in Keys /\ keys[j] # k
    BY <1>t, <2>1 DEF StagedOK, Distinct, k
  <2>5. \A j \in 1 .. Len(specs) :
          /\ specs'[j].Key = keys[j]
          /\ outbox'[keys[j]] \in [loc : Locations, Ver : {specs'[j].Ver}]
    BY <2>1, <2>2, <2>3, <2>4 DEF StagedOK
  <2>6. /\ specs'[n].Key = keys[n]
        /\ outbox'[keys[n]] \in [loc : Locations, Ver : {specs'[n].Ver}]
    BY <2>1, <2>2, <2>3 DEF k
  <2>7. \A j \in 1 .. n : j \in 1 .. Len(specs) \/ j = n
    BY <1>t
  <2>8. \A j \in 1 .. n :
          /\ specs'[j].Key = keys[j]
          /\ outbox'[keys[j]] \in [loc : Locations, Ver : {specs'[j].Ver}]
    BY <2>5, <2>6, <2>7
  <2>9. Distinct(keys)
    BY <2>1 DEF StagedOK
  <2> HIDE DEF n
  <2>10. QED BY <1>t, <2>1, <2>2, <2>8, <2>9 DEF StagedOK, Passing, Sending
<1>2. CASE ~ StageGo
  <2>0. outbox' = outbox
    BY <1>2 DEF Moves, OutboxMoves
  <2>1. CASE Stays
    BY <2>0, <2>1 DEF StagedOK, Stays
  <2>2. CASE GoIdle
    BY <2>2 DEF StagedOK, GoIdle, Passing, Sending
  <2>3. CASE Leaves
    BY <2>3 DEF StagedOK, Leaves, GoWrite, Passing, Sending
  <2>4. CASE StartGo
    BY <2>4 DEF StagedOK, StartGo, Passing, Sending
  <2>5. CASE EnumerateGo
    <3>1. Distinct(enumerateDelta(cur)) /\ enumerateDelta(cur) \in Seq(Keys)
      BY <1>t, <2>5, EnumerateFacts DEF EnumerateGo
    <3>2. specs' = <<>>
      BY <2>5 DEF EnumerateGo, PassOK, Passing, Sending
    <3>3. pc' = "stage" /\ Distinct(keys') /\ Len(specs') = 0 /\ Len(keys') \in Nat
      BY <2>5, <3>1, <3>2 DEF EnumerateGo
    <3>4. QED BY <3>3 DEF StagedOK, Sending
  <2>6. CASE TransmitGo
    BY <1>t, <2>0, <2>6 DEF StagedOK, TransmitGo, Passing
  <2>7. CASE SendGo \/ WaitGo \/ DoneGo \/ EmitGo
    <3>1. pc \in Sending /\ UNCHANGED <<keys, specs>>
      BY <2>7 DEF SendGo, Takes, WaitGo, DoneGo, EmitGo, Sending
    <3>2. QED BY <2>0, <3>1 DEF StagedOK, Passing
  <2>8. QED
    BY <1>2, <2>1, <2>2, <2>3, <2>4, <2>5, <2>6, <2>7 DEF Moves, WorkerMoves
<1>3. QED BY <1>1, <1>2

LEMMA PassStep == ASSUME TypeOK, StagedOK, PassOK, Moves PROVE PassOK'
<1> USE DEF passVars
<1>t. /\ specs \in Seq(FileSpec) /\ index \in Nat /\ allDone \in BOOLEAN
      /\ sent \in Bundles \cup {Nil}
      /\ Len(Batches) \in Nat /\ Nil \notin Bundles
  BY BatchesFacts, NilAssumption DEF TypeOK
<1>b. specs' = specs => Batches' = Batches
  BY DEF Batches
<1>1. CASE Stays
  BY <1>b, <1>1 DEF Stays, PassOK
<1>2. CASE GoIdle
  BY <1>2 DEF GoIdle, ClearPass, PassOK, Sending, Passing
<1>3. CASE Leaves
  BY <1>3 DEF Leaves, GoWrite, ClearPass, PassOK, Sending, Passing
<1>4. CASE StartGo \/ EnumerateGo
  BY <1>4 DEF StartGo, EnumerateGo, PassOK, Sending, Passing
<1>5. CASE StageGo
  BY <1>5 DEF StageGo, PassOK, Sending, Passing
<1>6. CASE TransmitGo
  BY <1>t, <1>b, <1>6 DEF TransmitGo, PassOK, Sending, Passing
<1>7. CASE SendGo
  BY <1>b, <1>7 DEF SendGo, Takes, BundleAtHand, PassOK, Sending, Passing
<1>8. CASE WaitGo
  BY <1>t, <1>b, <1>8 DEF WaitGo, PassOK, Sending, Passing
<1>9. CASE DoneGo \/ EmitGo
  BY <1>b, <1>9 DEF DoneGo, EmitGo, PassOK, Sending, Passing
<1>10. QED
  BY <1>1, <1>2, <1>3, <1>4, <1>5, <1>6, <1>7, <1>8, <1>9 DEF Moves, WorkerMoves

LEMMA HandlesOKStep ==
  ASSUME TypeOK, StagedOK, PassOK, HandlesOK, Moves PROVE HandlesOK'
<1> USE DEF passVars
<1>t. /\ sends \in [Bundles -> Seq(SentFile)] /\ entries \subseteq Entry
      /\ docs \in [Backups -> SUBSET Entry] /\ sent \in Bundles \cup {Nil}
      /\ allDone \in BOOLEAN /\ Nil \notin Bundles
      /\ \A e \in Entry : e.Bundle \in Bundles
  BY NilAssumption DEF TypeOK, Entry
\* An entry in range stays in range, and its distribution completed.
<1>1. \A e \in Entry :
        /\ e.File \in 1 .. Len(sends[e.Bundle]) => e.File \in 1 .. Len(sends'[e.Bundle])
        /\ e.File \in 1 .. Len(sends[e.Bundle]) /\ SentOf(e).status = "Completed" =>
              SentOf(e)'.status = "Completed"
  BY <1>t, SendsStep DEF Moves, SentOf
<1>2. /\ \A e \in entries : e.File \in 1 .. Len(sends'[e.Bundle])
      /\ allDone => \A e \in entries : e.Bundle # sent => SentOf(e)'.status = "Completed"
  BY <1>t, <1>1 DEF HandlesOK
<1>3. \A b \in Backups : \A e \in docs'[b] :
         e.File \in 1 .. Len(sends'[e.Bundle]) /\ SentOf(e)'.status = "Completed"
  <2>1. CASE docs' = docs
    BY <1>t, <1>1, <2>1 DEF HandlesOK
  <2>2. CASE pc = "emit" /\ docs' = [docs EXCEPT ![cur] = entries]
    <3>1. allDone /\ sent = Nil
      BY <2>2 DEF PassOK
    <3>2. \A e \in entries : SentOf(e)'.status = "Completed"
      BY <1>t, <1>2, <3>1
    <3>3. \A b \in Backups : docs'[b] = docs[b] \/ docs'[b] = entries
      BY <1>t, <2>2
    <3>4. QED BY <1>t, <1>1, <1>2, <3>2, <3>3 DEF HandlesOK
  <2>3. QED BY <2>1, <2>2 DEF Moves, DocsMoves
<1>4. /\ \A e \in entries' : e.File \in 1 .. Len(sends'[e.Bundle])
      /\ allDone' => \A e \in entries' : e.Bundle # sent' => SentOf(e)'.status = "Completed"
  <2>1. CASE UNCHANGED <<entries, allDone, sent>>
    BY <1>2, <2>1
  <2>2. CASE ClearPass
    BY <2>2 DEF ClearPass
  <2>3. CASE SendGo
    <3>1. \A e \in HandleEntries(BundleAtHand, FilesAtHand) :
             e.Bundle = BundleAtHand /\ e.File \in 1 .. Len(sends'[e.Bundle])
      BY <2>3, HandlesStep DEF SendGo
    <3>2. sent = Nil
      BY <2>3 DEF SendGo, Takes, PassOK
    <3>3. \A e \in entries : e.Bundle # sent
      BY <1>t, <3>2
    <3>4. QED BY <1>2, <2>3, <3>1, <3>3 DEF SendGo
  <2>4. CASE WaitGo
    <3>1. sent \in Bundles
      BY <1>t, <2>4 DEF WaitGo, TypeOK
    <3>2. ASSUME allDone' PROVE \A j \in 1 .. Len(sends[sent]) : sends[sent][j].status = "Completed"
      <4>1. summarize(sends[sent]) = "Completed"
        BY <2>4, <3>2 DEF WaitGo
      <4>2. QED BY <4>1 DEF summarize
    <3>3. ASSUME allDone', NEW e \in entries PROVE SentOf(e)'.status = "Completed"
      <4>1. allDone
        BY <1>t, <2>4, <3>3 DEF WaitGo
      <4>2. CASE e.Bundle # sent
        BY <1>2, <4>1, <4>2
      <4>3. CASE e.Bundle = sent
        <5>1. e.File \in 1 .. Len(sends[sent])
          BY <4>3 DEF HandlesOK
        <5>2. SentOf(e).status = "Completed"
          BY <3>2, <3>3, <4>3, <5>1 DEF SentOf
        <5>3. QED BY <1>t, <1>1, <4>3, <5>1, <5>2
      <4>4. QED BY <4>2, <4>3
    <3>4. QED BY <1>2, <2>4, <3>3 DEF WaitGo
  <2>5. QED
    BY <2>1, <2>2, <2>3, <2>4 DEF Moves, WorkerMoves, Stays, GoIdle, Leaves, GoWrite,
       StartGo, EnumerateGo, StageGo, TransmitGo, DoneGo, EmitGo
<1>5. QED BY <1>3, <1>4 DEF HandlesOK

LEMMA PassInvInit == Init => PassInv
<1> SUFFICES ASSUME Init PROVE PassInv
  OBVIOUS
<1> USE DEF Init, NoPass
<1>1. TypeOK
  <2>1. /\ bucket \in [Locations -> [Keys -> Int]] /\ ledger \in [Locations -> [Keys -> Int]]
        /\ need \in [Backups -> SUBSET Version]
        /\ outbox \in [Keys -> [loc : Locations, Ver : Nat \ {0}] \cup {Nil}]
    OBVIOUS
  <2>2. sends \in [Bundles -> Seq(SentFile)]
    OBVIOUS
  <2>3. docs \in [Backups -> SUBSET Entry]
    OBVIOUS
  <2>4. br \in [Backups -> Phases] /\ cache \in [Backups -> Phases]
    BY DEF Phases
  <2>5. keys \in Seq(Keys)
    OBVIOUS
  <2>6. specs \in Seq(FileSpec)
    OBVIOUS
  <2>7. /\ gen \in Gens /\ gen <= faults /\ my \in Phases /\ entries \in SUBSET Entry
        /\ faults \in 0 .. MaxFaults /\ removals \in 0 .. MaxRemovals
    BY BoundsAssumption DEF Gens, Phases
  <2>8. QED BY <2>1, <2>2, <2>3, <2>4, <2>5, <2>6, <2>7 DEF TypeOK
<1>2. SyncedOK /\ OpenOK /\ StagedOK /\ PassOK /\ HandlesOK
  BY DEF SyncedOK, OpenOK, StagedOK, PassOK, HandlesOK, Sending, Passing
<1>3. QED BY <1>1, <1>2 DEF PassInv

LEMMA PassInvStep == PassInv /\ [Next]_vars => PassInv'
  BY NextMoves, TypeStep, SyncedStep, OpenStep, StagedStep, PassStep, HandlesOKStep DEF PassInv

LEMMA PassInvAlways == Spec => []PassInv
  BY PassInvInit, PassInvStep, PTL DEF Spec

\* The variables keep their types and the worker's copy is an object that
\* exists, for any number of backups, locations, failures and removals.
THEOREM TypeCorrect == Spec => []TypeOK
<1>1. PassInv => TypeOK
  BY DEF PassInv
<1>2. QED BY <1>1, PassInvAlways, PTL

\* No manifest is published before peat reports every file it names as
\* completed, whatever peat does with a bundle id it has seen
\* (backupreplication_controller.go:212-227).
THEOREM TransmittedOnlyCorrect == Spec => []TransmittedOnly
<1>1. PassInv => TransmittedOnly
  BY DEF PassInv, HandlesOK, TransmittedOnly
<1>2. QED BY <1>1, PassInvAlways, PTL

\* No step takes an existing BackupReplication out of a terminal phase
\* (backupreplication_controller.go:67-72): the worker writes with the
\* resourceVersion of a copy that was not terminal.
THEOREM TerminalIsFinalCorrect == Spec => TerminalIsFinal
<1> DEFINE A == \A b \in Backups :
                  br[b] \in {"Replicated", "Failed", "Skipped"} =>
                    br'[b] = br[b] \/ br'[b] = "Absent"
<1>1. ASSUME PassInv, [Next]_vars PROVE A
  <2>1. TypeOK /\ OpenOK /\ Moves
    BY <1>1, NextMoves DEF PassInv
  <2>2. QED BY <2>1, PhaseStep DEF OpenOK, Terminal
<1>2. PassInv /\ [Next]_vars => [A]_vars
  BY <1>1
<1>3. QED BY <1>2, PassInvAlways, PTL DEF Spec, TerminalIsFinal

-----------------------------------------------------------------------------
(* What a manifest is worth, when peat refuses a known bundle id with other *)
(* files.                                                                   *)

LEMMA HonestStep ==
  ASSUME Resend = "reject", PassInv, HonestOK, Moves PROVE HonestOK'
<1> USE DEF passVars
<1>i. TypeOK /\ StagedOK /\ PassOK /\ HandlesOK
  BY DEF PassInv
<1>t. /\ sends \in [Bundles -> Seq(SentFile)] /\ entries \subseteq Entry
      /\ docs \in [Backups -> SUBSET Entry]
      /\ \A e \in Entry : e.Bundle \in Bundles
  BY <1>i DEF TypeOK, Entry
<1> DEFINE Published == UNION {docs[b] : b \in Backups}
           H(e) == SentOf(e)'.Key = e.Key /\ SentOf(e)'.Ver = e.Ver
<1>1. \A e \in entries \cup Published : H(e)
  <2>1. ASSUME NEW e \in entries \cup Published PROVE H(e)
    <3>1. e \in Entry /\ e.File \in 1 .. Len(sends[e.Bundle])
      BY <1>i, <1>t DEF HandlesOK
    <3>2. SentOf(e).Key = e.Key /\ SentOf(e).Ver = e.Ver
      BY DEF HonestOK
    <3>3. QED BY <1>i, <1>t, <3>1, <3>2, SendsStep DEF Moves, SentOf
  <2>2. QED BY <2>1
<1>2. Published' \subseteq entries \cup Published
  BY <1>t DEF Moves, DocsMoves
<1>3. \A e \in entries' : H(e)
  <2>1. CASE entries' = entries \/ entries' = {}
    BY <1>1, <2>1
  <2>2. CASE SendGo
    <3> DEFINE g == BundleAtHand
               fs == FilesAtHand
    <3>1. /\ g \in Bundles /\ fs \in Seq(FileSpec)
          /\ \A j \in 1 .. Len(fs) : outbox[fs[j].Key].Ver = fs[j].Ver
      BY <1>i, <2>2, AtHand DEF SendGo, Takes
    <3>2. \A e \in HandleEntries(g, fs) :
             /\ e.Bundle = g /\ e.File \in 1 .. Len(fs)
             /\ e.Key = fs[e.File].Key /\ e.Ver = fs[e.File].Ver
      BY <1>i, <2>2, HandlesStep DEF SendGo
    <3>3. sends[g] = <<>> \/ SameFiles(g, fs)
      BY <2>2 DEF SendGo, Takes, Accepts
    <3>4. sends' = IF sends[g] = <<>> THEN [sends EXCEPT ![g] = Taken(fs)] ELSE sends
      BY <2>2 DEF SendGo, Takes, TakeBundle
    <3> HIDE DEF g, fs
    <3>5. \A j \in 1 .. Len(fs) : sends'[g][j].Key = fs[j].Key /\ sends'[g][j].Ver = fs[j].Ver
      <4>1. CASE sends[g] = <<>>
        <5>1. sends'[g] = Taken(fs)
          BY <1>t, <3>1, <3>4, <4>1
        <5>2. QED BY <3>1, <5>1 DEF Taken
      <4>2. CASE sends[g] # <<>>
        BY <3>1, <3>3, <3>4, <4>2 DEF SameFiles
      <4>3. QED BY <4>1, <4>2
    <3>6. \A e \in HandleEntries(g, fs) : H(e)
      BY <3>2, <3>5 DEF SentOf
    <3>7. entries' = entries \cup HandleEntries(g, fs)
      BY <2>2 DEF SendGo, g, fs
    <3>8. QED BY <1>1, <3>6, <3>7
  <2>3. QED
    BY <2>1, <2>2 DEF Moves, WorkerMoves, Stays, GoIdle, Leaves, GoWrite, ClearPass,
       StartGo, EnumerateGo, StageGo, TransmitGo, WaitGo, DoneGo, EmitGo
<1>4. QED BY <1>1, <1>2, <1>3 DEF HonestOK

LEMMA ExistsStep == ASSUME PassInv, ExistsOK, Moves PROVE ExistsOK'
<1> USE DEF passVars
<1>i. TypeOK
  BY DEF PassInv
<1>t. /\ br \in [Backups -> Phases] /\ cache \in [Backups -> Phases]
      /\ cur \in Backups \cup {Nil} /\ (pc # "idle" => cur \in Backups)
  BY <1>i DEF TypeOK
\* What a backup needs is settled when it completes.
<1>1. \A b \in Backups : need[b] # {} => need'[b] = need[b]
  BY <1>i DEF Moves, BucketMoves, CompleteBackup, RemoveObject, TypeOK
<1>2. \A b \in Backups : br'[b] # "Absent" => need'[b] # {}
  <2>1. \A b \in Backups : br'[b] # "Absent" => need[b] # {}
    BY <1>i, <1>t, PhaseStep DEF ExistsOK
  <2>2. QED BY <1>1, <2>1
<1>3. \A b \in Backups : cache'[b] # "Absent" => need'[b] # {}
  <2>1. \A b \in Backups : cache'[b] \in {cache[b], br[b]}
    BY <1>t DEF Moves, ApiMoves
  <2>2. QED BY <1>1, <2>1 DEF ExistsOK
<1>4. pc' # "idle" => need'[cur'] # {}
  <2>1. CASE StartGo
    BY <1>1, <2>1 DEF StartGo, ExistsOK
  <2>2. CASE pc' = "idle"
    BY <2>2
  <2>3. CASE pc # "idle" /\ cur' = cur
    BY <1>t, <1>1, <2>3 DEF ExistsOK
  <2>4. QED
    BY <2>1, <2>2, <2>3 DEF Moves, WorkerMoves, Stays, GoIdle, Leaves, GoWrite,
       EnumerateGo, StageGo, TransmitGo, SendGo, Takes, WaitGo, DoneGo, EmitGo
<1>5. QED BY <1>2, <1>3, <1>4 DEF ExistsOK

\* The objects of the bucket only move on to new versions.
LEMMA BucketStep ==
  ASSUME TypeOK, Moves, NEW l \in Locations, NEW k \in Keys
  PROVE  /\ bucket[l][k] \in Int /\ bucket'[l][k] \in Int
         /\ \/ bucket'[l][k] = bucket[l][k]
            \/ bucket'[l][k] = NewVersion(bucket[l][k])
            \/ bucket[l][k] > 0 /\ bucket'[l][k] = - bucket[l][k]
<1>t. bucket \in [Locations -> [Keys -> Int]] /\ bucket' \in [Locations -> [Keys -> Int]]
  BY StoreTypeStep DEF TypeOK
<1>1. ASSUME NEW b \in Backups, CompleteBackup(b)
      PROVE  bucket'[l][k] \in {bucket[l][k], NewVersion(bucket[l][k])}
  BY <1>t, <1>1 DEF CompleteBackup
<1>2. ASSUME NEW m \in Locations, NEW n \in Keys, RemoveObject(m, n)
      PROVE  bucket'[l][k] = bucket[l][k] \/ (bucket[l][k] > 0 /\ bucket'[l][k] = - bucket[l][k])
  <2>1. bucket' = [bucket EXCEPT ![m] = [bucket[m] EXCEPT ![n] = - bucket[m][n]]]
    BY <1>2 DEF RemoveObject
  <2>2. QED BY <1>t, <1>2, <2>1 DEF RemoveObject
<1>3. QED BY <1>t, <1>1, <1>2 DEF Moves, BucketMoves

LEMMA NeedStep ==
  ASSUME TypeOK, NeedOK, Moves
  PROVE  /\ NeedOK'
         /\ \A b \in Backups : \A o \in need[b] : Current(b, o)' => Current(b, o)
<1>t. /\ need \in [Backups -> SUBSET Version]
      /\ \A b \in Backups : Location[b] \in Locations
      /\ \A o \in Version : o.Key \in Keys /\ o.Ver \in Nat \ {0}
  BY BackupsAssumption DEF TypeOK, Version
\* An object that was needed stays as new as it was, and never comes back.
<1>1. ASSUME NEW b \in Backups, NEW o \in need[b]
      PROVE  /\ \/ o.Ver <= bucket'[Location[b]][o.Key]
                \/ o.Ver <= - bucket'[Location[b]][o.Key]
             /\ Current(b, o)' => Current(b, o)
  <2> DEFINE x == bucket[Location[b]][o.Key]
             y == bucket'[Location[b]][o.Key]
  <2>1. o.Ver \in Nat \ {0} /\ o.Key \in Keys /\ Location[b] \in Locations
    BY <1>t
  <2>2. x \in Int /\ y \in Int /\ (y = x \/ y = NewVersion(x) \/ (x > 0 /\ y = - x))
    BY <2>1, BucketStep
  <2>3. o.Ver <= x \/ o.Ver <= - x
    BY DEF NeedOK
  <2> HIDE DEF x, y
  <2>4. (o.Ver <= y \/ o.Ver <= - y) /\ (y = o.Ver => x = o.Ver)
    BY <2>1, <2>2, <2>3 DEF NewVersion
  <2>5. QED BY <2>4 DEF Current, x, y
<1>2. ASSUME NEW b \in Backups, NEW o \in need'[b]
      PROVE  /\ o.Key \in SeqSet(MetaKeys[b]) \cup SeqSet(RepoKeys)
             /\ \/ o.Ver <= bucket'[Location[b]][o.Key]
                \/ o.Ver <= - bucket'[Location[b]][o.Key]
  <2>1. CASE o \in need[b]
    BY <1>1, <2>1 DEF NeedOK
  <2>2. CASE o \notin need[b]
    <3>1. CompleteBackup(b)
      <4>1. \A c \in Backups : CompleteBackup(c) => c = b
        BY <1>t, <2>2 DEF CompleteBackup
      <4>2. need' # need
        BY <2>2
      <4>3. QED BY <4>1, <4>2 DEF Moves, BucketMoves, RemoveObject
    <3>2. o \in {[Key |-> k, Ver |-> bucket'[Location[b]][k]] :
                   k \in {k \in SeqSet(MetaKeys[b]) \cup SeqSet(RepoKeys) :
                            bucket'[Location[b]][k] > 0}}
      BY <1>t, <3>1 DEF CompleteBackup
    <3>3. PICK k \in SeqSet(MetaKeys[b]) \cup SeqSet(RepoKeys) :
             o = [Key |-> k, Ver |-> bucket'[Location[b]][k]]
      BY <3>2
    <3>4. bucket'[Location[b]][k] \in Int
      BY <1>t, <3>3, KeysFacts, BucketStep
    <3>5. QED BY <3>3, <3>4
  <2>3. QED BY <2>1, <2>2
<1>3. QED BY <1>1, <1>2 DEF NeedOK

LEMMA LedgerStep == ASSUME TypeOK, LedgerOK, Moves PROVE LedgerOK'
<1>1. ledger \in [Locations -> [Keys -> Int]] /\ (pc # "idle" => cur \in Backups)
  BY DEF TypeOK
<1>2. CASE pc = "commit" /\ ledger' = Committed(Location[cur])
  <2>1. \A l \in Locations : \A k \in Keys : ledger'[l][k] \in {ledger[l][k], 0}
    BY <1>1, <1>2, BackupsAssumption DEF Committed
  <2>2. QED BY <1>1, <2>1 DEF LedgerOK
<1>3. QED BY <1>2 DEF Moves, LedgerMoves, LedgerOK

LEMMA ShipsStep ==
  ASSUME PassInv, ExistsOK, NeedOK, LedgerOK, ShipsOK, Moves PROVE ShipsOK'
<1> USE DEF passVars
<1>i. TypeOK /\ StagedOK /\ PassOK
  BY DEF PassInv
<1>t. /\ need \in [Backups -> SUBSET Version] /\ (pc # "idle" => cur \in Backups)
      /\ specs \in Seq(FileSpec) /\ keys \in Seq(Keys)
      /\ \A o \in Version : o.Key \in Keys /\ o.Ver \in Nat \ {0}
  BY <1>i DEF TypeOK, Version
<1>n. \A b \in Backups : need[b] # {} => need'[b] = need[b]
  BY <1>t DEF Moves, BucketMoves, CompleteBackup, RemoveObject
<1>c. ASSUME NEW b \in Backups, NEW o \in need[b], Current(b, o)' PROVE Current(b, o)
  BY <1>i, <1>c, NeedStep
<1>1. ASSUME pc \in Passing, UNCHANGED <<cur, keys, specs>> PROVE ShipsOK'
  <2>1. cur \in Backups /\ need'[cur] = need[cur]
    BY <1>t, <1>n, <1>1 DEF ExistsOK, Passing, Sending
  <2>2. QED BY <1>c, <1>1, <2>1 DEF ShipsOK
<1>2. ASSUME pc' \notin Passing PROVE ShipsOK'
  BY <1>2 DEF ShipsOK
<1>3. CASE EnumerateGo
  <2>1. cur \in Backups /\ need'[cur] = need[cur] /\ cur' = cur
    BY <1>t, <1>n, <1>3 DEF EnumerateGo, ExistsOK
  <2>2. specs' = <<>>
    BY <1>i, <1>3 DEF EnumerateGo, PassOK, Passing, Sending
  <2>3. ASSUME NEW o \in need[cur], Current(cur, o) PROVE o.Key \in SeqSet(keys')
    <3> DEFINE l == Location[cur]
    <3>1. /\ o.Key \in Keys /\ bucket[l][o.Key] > 0 /\ l \in Locations
          /\ o.Key \in SeqSet(MetaKeys[cur]) \cup SeqSet(RepoKeys)
      BY <1>t, <2>1, <2>3, BackupsAssumption DEF Current, NeedOK
    <3>2. ledger[l][o.Key] # bucket[l][o.Key]
      BY <1>i, <3>1 DEF LedgerOK, TypeOK
    <3>3. o.Key \in SeqSet(enumerateDelta(cur))
      BY <2>1, <3>1, <3>2, EnumerateFacts
    <3>4. QED BY <1>3, <3>3 DEF EnumerateGo
  <2>4. QED BY <1>c, <2>1, <2>2, <2>3 DEF ShipsOK
<1>4. CASE StageGo
  <2>1. cur \in Backups /\ need'[cur] = need[cur] /\ cur' = cur /\ keys' = keys /\ pc \in Passing
    BY <1>t, <1>n, <1>4 DEF StageGo, ExistsOK, Passing
  <2>2. /\ Len(specs') = Len(specs) + 1 /\ Len(specs) \in Nat
        /\ specs'[Len(specs) + 1].Ver = bucket[Location[cur]][specs'[Len(specs) + 1].Key]
        /\ \A j \in 1 .. Len(specs) : specs'[j] = specs[j]
    BY <1>t, <1>4 DEF StageGo
  <2>3. ASSUME NEW o \in need[cur], Current(cur, o), NEW j \in 1 .. Len(specs'),
               specs'[j].Key = o.Key
        PROVE  specs'[j].Ver = o.Ver
    <3>1. CASE j = Len(specs) + 1
      BY <2>2, <2>3, <3>1 DEF Current
    <3>2. CASE j \in 1 .. Len(specs)
      BY <2>1, <2>2, <2>3, <3>2 DEF ShipsOK
    <3>3. QED BY <2>2, <3>1, <3>2
  <2>4. QED BY <1>c, <2>1, <2>3 DEF ShipsOK
<1>5. CASE Stays
  BY <1>1, <1>2, <1>5 DEF Stays
<1>6. CASE GoIdle \/ Leaves \/ StartGo
  BY <1>2, <1>6 DEF GoIdle, Leaves, GoWrite, StartGo, Passing, Sending
<1>7. CASE TransmitGo \/ SendGo \/ WaitGo \/ DoneGo \/ EmitGo
  BY <1>1, <1>7 DEF TransmitGo, SendGo, Takes, WaitGo, DoneGo, EmitGo, Passing, Sending
<1>8. QED
  BY <1>3, <1>4, <1>5, <1>6, <1>7 DEF Moves, WorkerMoves

LEMMA EntriesStep ==
  ASSUME Resend = "reject", PassInv, EntriesOK, Moves PROVE EntriesOK'
<1> USE DEF passVars
<1>i. TypeOK /\ StagedOK /\ PassOK
  BY DEF PassInv
<1>t. /\ specs \in Seq(FileSpec) /\ index \in Nat /\ Len(Batches) \in Nat
      /\ docs \in [Backups -> SUBSET Entry] /\ (pc # "idle" => cur \in Backups)
  BY <1>i, BatchesFacts DEF TypeOK
<1> DEFINE Has(E, i) == \A j \in 1 .. Len(Batches[i].Files) :
                          HasEntry(E, Batches[i].Files[j].Key, Batches[i].Files[j].Ver)
           Shipped(i) == i <= index \/ (pc = "waitbundle" /\ i = index + 1)
\* Outside the sending part nothing has been shipped.
<1>0. ASSUME index' = 0, pc' \notin {"waitbundle", "commit"} PROVE EntriesOK'
  BY <1>0 DEF EntriesOK
<1>b. specs' = specs => Batches' = Batches
  BY DEF Batches
<1>1. \A i \in 1 .. Len(Batches) : Shipped(i) => Has(entries, i)
  BY DEF EntriesOK
<1>2. CASE Stays
  <2>1. pc = "commit" => docs' = docs
    BY DEF Moves, DocsMoves
  <2>2. QED BY <1>b, <1>2, <2>1 DEF Stays, EntriesOK
<1>3. CASE GoIdle \/ Leaves
  BY <1>0, <1>3 DEF GoIdle, Leaves, GoWrite, ClearPass
<1>4. CASE StartGo \/ EnumerateGo \/ StageGo \/ TransmitGo
  <2>1. index' = 0 /\ pc' \notin {"waitbundle", "commit"}
    BY <1>i, <1>4 DEF StartGo, EnumerateGo, StageGo, TransmitGo, PassOK, Sending
  <2>2. QED BY <1>0, <2>1
<1>5. CASE SendGo
  <2> DEFINE g == BundleAtHand
             fs == FilesAtHand
  <2>1. g \in Bundles /\ fs \in Seq(FileSpec)
    BY <1>i, <1>5, AtHand DEF SendGo, Takes
  <2>2. \A j \in 1 .. Len(fs) : HasEntry(HandleEntries(g, fs), fs[j].Key, fs[j].Ver)
    <3>1. sends[g] = <<>> \/ SameFiles(g, fs)
      BY <1>5 DEF SendGo, Takes, Accepts
    <3> HIDE DEF g, fs
    <3>2. sends[g] = <<>> \/ Len(sends[g]) = Len(fs)
      BY <3>1 DEF SameFiles
    <3>3. Len(fs) \in Nat
      BY <2>1
    <3>4. HandleEntries(g, fs) =
            {[Key |-> fs[j].Key, Ver |-> fs[j].Ver, Bundle |-> g, File |-> j] :
               j \in {j \in 1 .. Len(fs) : j <= Len(fs)}}
      BY <3>2 DEF HandleEntries
    <3>5. \A j \in 1 .. Len(fs) :
            [Key |-> fs[j].Key, Ver |-> fs[j].Ver, Bundle |-> g, File |-> j]
              \in HandleEntries(g, fs)
      BY <3>3, <3>4
    <3>6. QED BY <3>5 DEF HasEntry
  <2>3. /\ specs' = specs /\ index' = index /\ pc = "send" /\ pc' = "waitbundle"
        /\ entries' = entries \cup HandleEntries(g, fs) /\ index < Len(Batches)
    BY <1>5 DEF SendGo, Takes
  <2>4. \A i \in 1 .. Len(Batches) : i <= index => Has(entries', i)
    BY <1>1, <2>3 DEF HasEntry
  <2>5. Has(entries', index + 1)
    BY <2>2, <2>3 DEF HasEntry, FilesAtHand
  <2>6. QED BY <1>b, <2>3, <2>4, <2>5 DEF EntriesOK
<1>6. CASE WaitGo
  <2>1. /\ specs' = specs /\ entries' = entries /\ index' = index + 1 /\ pc' = "send"
        /\ pc = "waitbundle"
    BY <1>6 DEF WaitGo
  <2>2. \A i \in 1 .. Len(Batches) : i <= index' => Shipped(i)
    BY <1>t, <2>1
  <2> HIDE DEF Shipped, Has
  <2>3. \A i \in 1 .. Len(Batches) : i <= index' => Has(entries, i)
    BY <1>1, <2>2
  <2>4. QED BY <1>b, <2>1, <2>3 DEF EntriesOK, Has
<1>7. CASE DoneGo
  BY <1>b, <1>7 DEF DoneGo, EntriesOK
<1>8. CASE EmitGo
  <2>1. docs'[cur] = entries
    BY <1>t, <1>8 DEF EmitGo
  <2>2. QED BY <1>b, <1>8, <2>1 DEF EmitGo, EntriesOK
<1>9. QED
  BY <1>2, <1>3, <1>4, <1>5, <1>6, <1>7, <1>8 DEF Moves, WorkerMoves

\* When all bundles are sent, every key of the pass has its entry, and every
\* object needed that is still what it was is in an entry with its content.
LEMMA ShippedAll ==
  ASSUME PassInv, ShipsOK, EntriesOK, pc \in {"emit", "commit"}
  PROVE  /\ \A k \in SeqSet(keys) : \E e \in entries : e.Key = k
         /\ \A o \in need[cur] : Current(cur, o) => HasEntry(entries, o.Key, o.Ver)
<1>1. /\ specs \in Seq(FileSpec) /\ index = Len(Batches) /\ pc \in Passing /\ pc \in Sending
  BY DEF PassInv, TypeOK, PassOK, Passing, Sending
<1>2. /\ FilesOf(Batches) = Elements(specs) /\ Len(Batches) \in Nat
  BY <1>1, BatchesFacts
<1>3. ASSUME NEW j \in 1 .. Len(specs) PROVE HasEntry(entries, specs[j].Key, specs[j].Ver)
  <2>1. specs[j] \in FilesOf(Batches)
    BY <1>2 DEF Elements
  <2>2. PICK i \in 1 .. Len(Batches) : specs[j] \in Elements(Batches[i].Files)
    BY <2>1 DEF FilesOf
  <2>3. PICK m \in 1 .. Len(Batches[i].Files) : specs[j] = Batches[i].Files[m]
    BY <2>2 DEF Elements
  <2>4. i <= index
    BY <1>1, <1>2
  <2>5. QED BY <2>3, <2>4 DEF EntriesOK
<1>4. ASSUME NEW k \in SeqSet(keys) PROVE \E j \in 1 .. Len(specs) : specs[j].Key = k
  <2>1. Len(specs) = Len(keys) /\ \A j \in 1 .. Len(specs) : specs[j].Key = keys[j]
    BY <1>1 DEF PassInv, StagedOK
  <2>2. QED BY <2>1 DEF SeqSet
<1>5. \A k \in SeqSet(keys) : \E e \in entries : e.Key = k
  BY <1>3, <1>4 DEF HasEntry
<1>6. ASSUME NEW o \in need[cur], Current(cur, o) PROVE HasEntry(entries, o.Key, o.Ver)
  <2>1. o.Key \in SeqSet(keys) /\ \A j \in 1 .. Len(specs) : specs[j].Key = o.Key => specs[j].Ver = o.Ver
    BY <1>1, <1>6 DEF ShipsOK
  <2>2. PICK j \in 1 .. Len(specs) : specs[j].Key = o.Key
    BY <1>4, <2>1
  <2>3. QED BY <1>3, <2>1, <2>2
<1>7. QED BY <1>5, <1>6

LEMMA CoversStep ==
  ASSUME PassInv, ExistsOK, NeedOK, ShipsOK, EntriesOK, CoversOK, Moves PROVE CoversOK'
<1> USE DEF passVars
<1>i. TypeOK /\ OpenOK /\ PassOK
  BY DEF PassInv
<1>t. /\ need \in [Backups -> SUBSET Version] /\ (pc # "idle" => cur \in Backups)
      /\ docs \in [Backups -> SUBSET Entry] /\ br \in [Backups -> Phases]
  BY <1>i DEF TypeOK
<1>n. \A b \in Backups : need[b] # {} => need'[b] = need[b]
  BY <1>t DEF Moves, BucketMoves, CompleteBackup, RemoveObject
\* Covered lasts while the manifest is the same.
<1>1. ASSUME NEW b \in Backups, Covered(b), need[b] # {}, docs'[b] = docs[b] PROVE Covered(b)'
  <2>1. \A o \in need[b] : Current(b, o)' => Current(b, o)
    BY <1>i, NeedStep
  <2>2. QED BY <1>n, <1>1, <2>1 DEF Covered
<1>2. ASSUME NEW b \in Backups, br'[b] = "Replicated" PROVE Covered(b)'
  <2>1. CASE br[b] = "Replicated"
    <3>1. docs'[b] = docs[b]
      BY <1>i, <1>t, <2>1 DEF Moves, DocsMoves, OpenOK, Sending, Terminal
    <3>2. Covered(b) /\ need[b] # {}
      BY <2>1 DEF CoversOK, ExistsOK
    <3>3. QED BY <1>1, <3>1, <3>2
  <2>2. CASE br[b] # "Replicated"
    <3>1. b = cur /\ my = "Replicated" /\ pc \in {"wait", "final"}
      BY <1>i, <1>2, <2>2, PhaseStep
    <3>2. Covered(b) /\ need[b] # {}
      BY <3>1 DEF CoversOK, ExistsOK
    <3>3. docs'[b] = docs[b]
      BY <3>1 DEF Moves, DocsMoves
    <3>4. QED BY <1>1, <3>2, <3>3
  <2>3. QED BY <2>1, <2>2
<1>3. ASSUME my' = "Replicated" PROVE pc' = "final" /\ Covered(cur)'
  <2>1. CASE Stays
    <3>1. my = "Replicated" /\ pc = "final" /\ pc' = "final" /\ cur' = cur /\ Covered(cur)
      BY <1>3, <2>1 DEF Stays, CoversOK
    <3>2. cur \in Backups /\ need[cur] # {} /\ docs' = docs
      BY <1>t, <3>1 DEF ExistsOK, Moves, DocsMoves
    <3>3. Covered(cur)' <=> \A o \in need'[cur] : bucket'[Location[cur]][o.Key] = o.Ver =>
                              HasEntry(docs'[cur], o.Key, o.Ver)
      BY <3>1 DEF Covered, Current
    <3>4. \A o \in need[cur] : bucket'[Location[cur]][o.Key] = o.Ver => Current(cur, o)
      BY <1>i, <3>1, <3>2, NeedStep DEF Current
    <3>5. QED BY <1>n, <3>1, <3>2, <3>3, <3>4 DEF Covered
  <2>2. CASE pc = "commit" /\ GoWrite("Replicated", "final") /\ UNCHANGED <<docs, bucket, need>>
    <3>1. docs[cur] = entries /\ pc' = "final" /\ cur' = cur
      BY <2>2 DEF EntriesOK, GoWrite
    <3>2. \A o \in need[cur] : Current(cur, o) => HasEntry(docs[cur], o.Key, o.Ver)
      BY <2>2, <3>1, ShippedAll
    <3>3. QED BY <2>2, <3>1, <3>2 DEF Covered, Current
  <2>3. CASE my = "Replicated" /\ pc # "final"
    BY <2>3 DEF CoversOK
  <2>4. CASE StartGo
    BY <1>3, <2>4 DEF StartGo, Terminal
  <2>5. QED
    BY <1>3, <2>1, <2>2, <2>3, <2>4 DEF Moves, WorkerMoves, GoIdle, Leaves, GoWrite,
       EnumerateGo, StageGo, TransmitGo, SendGo, Takes, WaitGo, DoneGo, EmitGo
<1>4. QED BY <1>2, <1>3 DEF CoversOK

LEMMA ManifestInvInit == Init => ManifestInv
<1> SUFFICES ASSUME Init PROVE ManifestInv
  OBVIOUS
<1> USE DEF Init, NoPass
<1>1. HonestOK /\ ExistsOK /\ NeedOK /\ LedgerOK
  BY DEF HonestOK, ExistsOK, NeedOK, LedgerOK
<1>2. ShipsOK /\ EntriesOK /\ CoversOK
  BY DEF ShipsOK, EntriesOK, CoversOK, Passing, Sending
<1>3. QED BY <1>1, <1>2 DEF ManifestInv

LEMMA ManifestInvStep == Resend = "reject" /\ PassInv /\ ManifestInv /\ [Next]_vars => ManifestInv'
<1> SUFFICES ASSUME Resend = "reject", PassInv, ManifestInv, [Next]_vars PROVE ManifestInv'
  OBVIOUS
<1>1. Moves /\ TypeOK
  BY NextMoves DEF PassInv
<1>2. QED
  BY <1>1, HonestStep, ExistsStep, NeedStep, LedgerStep, ShipsStep, EntriesStep, CoversStep
     DEF ManifestInv

LEMMA ManifestInvAlways == Resend = "reject" => (Spec => [](PassInv /\ ManifestInv))
<1> SUFFICES ASSUME Resend = "reject" PROVE Spec => [](PassInv /\ ManifestInv)
  OBVIOUS
<1>1. PassInv /\ ManifestInv /\ [Next]_vars => (PassInv /\ ManifestInv)'
  BY PassInvStep, ManifestInvStep
<1>2. QED BY PassInvInit, ManifestInvInit, <1>1, PTL DEF Spec

\* Where peat refuses a known bundle id with other files, each entry of a
\* published manifest names a distribution of exactly the content it states
\* (backupreplication_controller.go:170-172, 188-204).
THEOREM ManifestHonestCorrect == Resend = "reject" => (Spec => []ManifestHonest)
<1>1. PassInv /\ ManifestInv => ManifestHonest
  BY DEF PassInv, ManifestInv, HandlesOK, HonestOK, ManifestHonest
<1>2. QED BY <1>1, ManifestInvAlways, PTL

\* Where peat refuses a known bundle id with other files, a Replicated backup
\* can be restored: what was in the bucket when it completed, and is still
\* what it was, is in its manifest with the content it has
\* (backupreplication_controller.go:224-227, 335-372).
THEOREM ReplicatedCoversCorrect == Resend = "reject" => (Spec => []ReplicatedCovers)
<1>1. PassInv /\ ManifestInv => ReplicatedCovers
  BY DEF ManifestInv, CoversOK, Covered, Current, HasEntry, ReplicatedCovers
<1>2. QED BY <1>1, ManifestInvAlways, PTL

\* Where peat refuses a known bundle id with other files, a key enters the
\* ledger only when a published manifest of its location ships it
\* (backupreplication_controller.go:224-235).
THEOREM LedgerAfterManifestCorrect == Resend = "reject" => (Spec => LedgerAfterManifest)
<1> DEFINE A == \A l \in Locations : \A k \in Keys :
                  ledger'[l][k] # ledger[l][k] =>
                    \E b \in Backups : Location[b] = l /\ \E e \in docs[b] : e.Key = k
<1>1. ASSUME PassInv, ManifestInv, [Next]_vars PROVE A
  <2>1. TypeOK /\ Moves
    BY <1>1, NextMoves DEF PassInv
  <2>2. /\ ledger \in [Locations -> [Keys -> Int]] /\ (pc # "idle" => cur \in Backups)
    BY <2>1 DEF TypeOK
  <2>3. CASE ledger' = ledger
    BY <2>3
  <2>4. CASE pc = "commit" /\ ledger' = Committed(Location[cur])
    <3>1. ASSUME NEW l \in Locations, NEW k \in Keys, ledger'[l][k] # ledger[l][k]
          PROVE  l = Location[cur] /\ k \in SeqSet(keys)
      BY <2>2, <2>4, <3>1, BackupsAssumption DEF Committed
    <3>2. \A k \in SeqSet(keys) : \E e \in docs[cur] : e.Key = k
      BY <1>1, <2>4, ShippedAll DEF ManifestInv, EntriesOK
    <3>3. QED BY <2>2, <2>4, <3>1, <3>2
  <2>5. QED BY <2>1, <2>3, <2>4 DEF Moves, LedgerMoves
<1>2. PassInv /\ ManifestInv /\ [Next]_vars => [A]_vars
  BY <1>1
<1>3. QED BY <1>2, ManifestInvAlways, PTL DEF Spec, LedgerAfterManifest
=============================================================================
