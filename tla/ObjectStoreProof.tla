-------------------------- MODULE ObjectStoreProof --------------------------
(***************************************************************************)
(* Keys, lists and the ledger of one bucket, for any number of locations,  *)
(* keys, prefixes and workers. The keys are sequences of strings of any    *)
(* length, so the first part is about sequences: when one is the beginning *)
(* of another, and what trimming slashes leaves.                           *)
(***************************************************************************)
EXTENDS ObjectStore, TLAPS, SequenceTheorems, WellFoundedInduction, FiniteSetTheorems

\* Sequences of strings. The provers do not know the slash for a string.
Keys == Seq(STRING \cup {"/"})

LEMMA SeqMonotone ==
  ASSUME NEW S, NEW T, S \subseteq T, NEW s \in Seq(S)
  PROVE  s \in Seq(T)
OBVIOUS

LEMMA StringsAreKeys == Seq(STRING) \subseteq Keys
BY SeqMonotone DEF Keys

\* A beginning, element by element.
LEMMA PrefixPointwise ==
  ASSUME NEW s \in Keys, NEW t \in Keys
  PROVE  IsPrefix(s, t) <=> Len(s) <= Len(t) /\ \A i \in 1 .. Len(s) : s[i] = t[i]
<1> USE DEF Keys
<1>1. CASE Len(s) <= Len(t)
  <2>1. /\ SubSeq(s, 1, Len(s)) \in Keys /\ Len(SubSeq(s, 1, Len(s))) = Len(s)
        /\ \A i \in 1 .. Len(s) : SubSeq(s, 1, Len(s))[i] = s[i]
    OBVIOUS
  <2>2. /\ SubSeq(t, 1, Len(s)) \in Keys /\ Len(SubSeq(t, 1, Len(s))) = Len(s)
        /\ \A i \in 1 .. Len(s) : SubSeq(t, 1, Len(s))[i] = t[i]
    BY <1>1
  <2>3. SubSeq(s, 1, Len(s)) = SubSeq(t, 1, Len(s)) <=> \A i \in 1 .. Len(s) : s[i] = t[i]
    BY <2>1, <2>2, SeqEqual
  <2>4. QED BY <1>1, <2>3 DEF IsPrefix
<1>2. QED BY <1>1 DEF IsPrefix

\* A key appended to another one: both can be read off it again.
LEMMA Appended ==
  ASSUME NEW a \in Keys, NEW k \in Keys
  PROVE  /\ a \o k \in Keys /\ Len(a \o k) = Len(a) + Len(k)
         /\ \A i \in 1 .. Len(a) : (a \o k)[i] = a[i]
         /\ \A i \in 1 .. Len(k) : (a \o k)[Len(a) + i] = k[i]
         /\ IsPrefix(a, a \o k)
         /\ SubSeq(a \o k, Len(a) + 1, Len(a \o k)) = k
<1> USE DEF Keys
<1>1. /\ a \o k \in Keys /\ Len(a \o k) = Len(a) + Len(k)
      /\ \A i \in 1 .. Len(a) : (a \o k)[i] = a[i]
      /\ \A i \in 1 .. Len(k) : (a \o k)[Len(a) + i] = k[i]
  <2>1. Len(a) \in Nat /\ Len(k) \in Nat
    OBVIOUS
  <2>2. a \o k \in Keys /\ Len(a \o k) = Len(a) + Len(k)
    OBVIOUS
  <2>3. \A i \in 1 .. Len(a) : (a \o k)[i] = a[i]
    OBVIOUS
  <2>4. ASSUME NEW i \in 1 .. Len(k) PROVE (a \o k)[Len(a) + i] = k[i]
    <3>1. Len(a) + i \in 1 .. Len(a) + Len(k) /\ Len(a) + i > Len(a) /\ Len(a) + i - Len(a) = i
      BY <2>1, <2>4
    <3>2. QED BY <3>1
  <2>5. QED BY <2>2, <2>3, <2>4
<1>2. IsPrefix(a, a \o k)
  <2>1. Len(a) <= Len(a \o k)
    BY <1>1
  <2> HIDE DEF Keys
  <2>2. QED BY <1>1, <2>1, PrefixPointwise
<1>3. SubSeq(a \o k, Len(a) + 1, Len(a \o k)) = k
  <2> DEFINE s == SubSeq(a \o k, Len(a) + 1, Len(a \o k))
  <2>1. s \in Keys /\ Len(s) = Len(k)
    BY <1>1
  <2>2. \A i \in 1 .. Len(k) : s[i] = k[i]
    BY <1>1
  <2>3. QED BY <2>1, <2>2, SeqEqual
<1>4. QED BY <1>1, <1>2, <1>3

\* What is common at the beginning does not matter.
LEMMA PrefixCancels ==
  ASSUME NEW a \in Keys, NEW l \in Keys, NEW k \in Keys
  PROVE  IsPrefix(a \o l, a \o k) <=> IsPrefix(l, k)
<1>0. Len(a) \in Nat /\ Len(l) \in Nat /\ Len(k) \in Nat
  BY DEF Keys
<1>1. IsPrefix(l, k) => IsPrefix(a \o l, a \o k)
  <2> SUFFICES ASSUME IsPrefix(l, k) PROVE IsPrefix(a \o l, a \o k)
    OBVIOUS
  <2>1. Len(l) <= Len(k) /\ \A i \in 1 .. Len(l) : l[i] = k[i]
    BY PrefixPointwise
  <2>2. Len(a \o l) <= Len(a \o k)
    BY <1>0, <2>1, Appended
  <2>3. ASSUME NEW i \in 1 .. Len(a \o l) PROVE (a \o l)[i] = (a \o k)[i]
    <3>1. CASE i \in 1 .. Len(a)
      BY <3>1, Appended
    <3>2. CASE ~(i \in 1 .. Len(a))
      <4>1. i - Len(a) \in 1 .. Len(l) /\ i = Len(a) + (i - Len(a))
        BY <1>0, <2>3, <3>2, Appended
      <4>2. i - Len(a) \in 1 .. Len(k)
        BY <1>0, <2>1, <4>1
      <4>3. (a \o l)[Len(a) + (i - Len(a))] = l[i - Len(a)] /\ (a \o k)[Len(a) + (i - Len(a))] = k[i - Len(a)]
        BY <4>1, <4>2, Appended
      <4>4. QED BY <2>1, <4>1, <4>3
    <3>3. QED BY <3>1, <3>2
  <2>4. QED BY <2>2, <2>3, Appended, PrefixPointwise
<1>2. IsPrefix(a \o l, a \o k) => IsPrefix(l, k)
  <2> SUFFICES ASSUME IsPrefix(a \o l, a \o k) PROVE IsPrefix(l, k)
    OBVIOUS
  <2>1. Len(a \o l) <= Len(a \o k) /\ \A i \in 1 .. Len(a \o l) : (a \o l)[i] = (a \o k)[i]
    BY Appended, PrefixPointwise
  <2>2. Len(l) <= Len(k)
    BY <1>0, <2>1, Appended
  <2>3. ASSUME NEW i \in 1 .. Len(l) PROVE l[i] = k[i]
    <3>1. Len(a) + i \in 1 .. Len(a \o l) /\ i \in 1 .. Len(k)
      BY <1>0, <2>2, <2>3, Appended
    <3>2. (a \o l)[Len(a) + i] = l[i] /\ (a \o k)[Len(a) + i] = k[i]
      BY <3>1, Appended
    <3>3. QED BY <2>1, <3>1, <3>2
  <2>4. QED BY <2>2, <2>3, PrefixPointwise
<1>3. QED BY <1>1, <1>2

LEMMA PrefixTransitive ==
  ASSUME NEW s \in Keys, NEW t \in Keys, NEW u \in Keys, IsPrefix(s, t), IsPrefix(t, u)
  PROVE  IsPrefix(s, u)
<1>1. /\ Len(s) <= Len(t) /\ \A i \in 1 .. Len(s) : s[i] = t[i]
      /\ Len(t) <= Len(u) /\ \A i \in 1 .. Len(t) : t[i] = u[i]
  BY PrefixPointwise
<1>2. Len(s) \in Nat /\ Len(t) \in Nat /\ Len(u) \in Nat
  BY DEF Keys
<1>3. Len(s) <= Len(u) /\ \A i \in 1 .. Len(s) : i \in 1 .. Len(t) /\ s[i] = u[i]
  BY <1>1, <1>2
<1>4. QED BY <1>3, PrefixPointwise

\* Of two beginnings of one key, one is a beginning of the other.
LEMMA PrefixesComparable ==
  ASSUME NEW s \in Keys, NEW t \in Keys, NEW u \in Keys, IsPrefix(s, u), IsPrefix(t, u)
  PROVE  IsPrefix(s, t) \/ IsPrefix(t, s)
<1>1. /\ \A i \in 1 .. Len(s) : s[i] = u[i]
      /\ \A i \in 1 .. Len(t) : t[i] = u[i]
  BY PrefixPointwise
<1>2. Len(s) \in Nat /\ Len(t) \in Nat
  BY DEF Keys
<1>3. CASE Len(s) <= Len(t)
  <2>1. \A i \in 1 .. Len(s) : i \in 1 .. Len(t) /\ s[i] = t[i]
    BY <1>1, <1>2, <1>3
  <2>2. QED BY <1>3, <2>1, PrefixPointwise
<1>4. CASE Len(t) <= Len(s)
  <2>1. \A i \in 1 .. Len(t) : i \in 1 .. Len(s) /\ t[i] = s[i]
    BY <1>1, <1>2, <1>4
  <2>2. QED BY <1>4, <2>1, PrefixPointwise
<1>5. QED BY <1>2, <1>3, <1>4

-----------------------------------------------------------------------------
\* A set of numbers that is not empty has a minimum.
LEMMA MinOfNumbers ==
  ASSUME NEW T, T \subseteq Nat, T # {}
  PROVE  Min(T) \in T /\ \A y \in T : Min(T) <= y
<1> DEFINE R == OpToRel(<, Nat)
<1>1. IsWellFoundedOn(R, Nat)
  BY NatLessThanWellFounded
<1>2. \A x, y \in Nat : y < x => <<y, x>> \in R
  BY DEF OpToRel
<1> HIDE DEF R
<1>3. PICK x \in T : \A y \in T : ~(<<y, x>> \in R)
  BY <1>1, WFMin
<1>4. \A y \in T : ~(y < x)
  BY <1>2, <1>3
<1>5. \A y \in T : x <= y
  BY <1>4
<1>6. QED BY <1>5 DEF Min

\* Trimming gives a key, and trimming it again changes nothing.
LEMMA TrimmedOnce ==
  ASSUME NEW k \in Keys
  PROVE  TrimLeft(k) \in Keys /\ TrimLeft(TrimLeft(k)) = TrimLeft(k)
<1> DEFINE Solid(p) == {i \in DOMAIN p : p[i] # "/"}
<1>0. DOMAIN k = 1 .. Len(k) /\ Len(k) \in Nat
  BY DEF Keys
<1>1. CASE Solid(k) = {}
  <2>1. TrimLeft(k) = <<>>
    BY <1>1 DEF TrimLeft
  <2>2. Solid(<<>>) = {} /\ TrimLeft(<<>>) = <<>>
    BY DEF TrimLeft
  <2>3. QED BY <2>1, <2>2 DEF Keys
<1>2. CASE Solid(k) # {}
  <2> DEFINE m == Min(Solid(k))
             s == SubSeq(k, m, Len(k))
  <2>1. m \in Solid(k)
    <3>1. Solid(k) \subseteq Nat
      BY <1>0
    <3>2. QED BY <1>2, <3>1, MinOfNumbers
  <2>2. TrimLeft(k) = s
    BY <1>2 DEF TrimLeft
  <2>3. m \in 1 .. Len(k) /\ k[m] # "/"
    BY <1>0, <2>1
  <2> HIDE DEF m
  <2>4. s \in Keys /\ Len(s) = Len(k) - m + 1 /\ s[1] = k[m]
    BY <1>0, <2>3 DEF Keys
  <2> HIDE DEF s
  <2>5. Len(s) \in Nat /\ 1 <= Len(s) /\ DOMAIN s = 1 .. Len(s)
    BY <1>0, <2>3, <2>4 DEF Keys
  <2>6. 1 \in Solid(s) /\ Solid(s) \subseteq Nat
    BY <2>3, <2>4, <2>5
  <2>7. Min(Solid(s)) = 1
    <3>1. Min(Solid(s)) \in Solid(s) /\ Min(Solid(s)) <= 1
      BY <2>6, MinOfNumbers
    <3>2. QED BY <2>5, <3>1
  <2>8. SubSeq(s, 1, Len(s)) = s
    <3>1. SubSeq(s, 1, Len(s)) \in Keys /\ Len(SubSeq(s, 1, Len(s))) = Len(s)
      BY <2>4, <2>5 DEF Keys
    <3>2. \A i \in 1 .. Len(s) : SubSeq(s, 1, Len(s))[i] = s[i]
      BY <2>4, <2>5 DEF Keys
    <3>3. QED BY <2>4, <3>1, <3>2, SeqEqual DEF Keys
  <2>9. TrimLeft(s) = s
    BY <2>6, <2>7, <2>8 DEF TrimLeft
  <2>10. QED BY <2>2, <2>4, <2>9
<1>3. QED BY <1>1, <1>2

-----------------------------------------------------------------------------
(* The ledger.                                                             *)

\* Nothing is read or written before the pass has opened its store, which
\* happens once.
LedgerInv ==
  /\ NoLostUpdate
  /\ home = Nil => bucket = <<>> /\ acked = {}
  /\ home # Nil => input = Nil
  /\ \A w \in Workers : read[w] # Nil => home # Nil

\* What a step of the pass leaves alone.
LEMMA ConfigStepLeaves ==
  ASSUME ConfigStep
  PROVE  UNCHANGED input
BY DEF ConfigStep, Resolve, GetCredentials, Scan, ScanError, EndOfFile, New

\* An entry that a worker knows to be in the ledger is in it: the precondition of
\* the conditional PUT makes a write start from the ledger that is there, not
\* from the one that was there when the worker read it, and no object is put
\* where a ledger is. For any number of workers and any layout of the bucket.
THEOREM NoLostUpdateCorrect == Spec => []NoLostUpdate
<1>1. Init => LedgerInv
  BY DEF Init, Resolving, LedgerInv, NoLostUpdate
<1>2. LedgerInv /\ [Next]_vars => LedgerInv'
  <2> SUFFICES ASSUME LedgerInv, [Next]_vars PROVE LedgerInv'
    OBVIOUS
  <2> USE DEF LedgerInv
  <2>1. CASE ConfigStep /\ UNCHANGED storeVars
    BY <2>1, ConfigStepLeaves DEF storeVars, NoLostUpdate, Ledger
  <2>2. CASE Opened
    <3>1. home = Nil /\ acked = {} /\ UNCHANGED <<bucket, read, acked>> /\ input' = Nil
      BY <2>2 DEF Opened
    <3>2. QED BY <3>1 DEF NoLostUpdate
  <2>3. ASSUME NEW p \in Stores, NEW k \in RelKeys, Put(p, k) PROVE LedgerInv'
    <3>1. home # Nil /\ UNCHANGED <<input, home, read, acked>>
      BY <2>3 DEF Stores, Put, configVars
    <3>2. ~(fullKey(p, k) \in DOMAIN bucket) /\ bucket' = With(bucket, fullKey(p, k), <<p, TrimLeft(k)>>)
      BY <2>3 DEF Put, Stat, Stored
    <3>3. CASE ledgerKey \in DOMAIN bucket
      <4>1. ledgerKey \in DOMAIN bucket' /\ bucket'[ledgerKey] = bucket[ledgerKey]
        BY <3>2, <3>3 DEF With
      <4>2. QED BY <3>1, <3>3, <4>1 DEF NoLostUpdate, Ledger
    <3>4. CASE ~(ledgerKey \in DOMAIN bucket)
      <4>1. acked = {}
        BY <3>4 DEF NoLostUpdate, Ledger
      <4>2. QED BY <3>1, <4>1 DEF NoLostUpdate
    <3>5. QED BY <3>3, <3>4
  <2>4. ASSUME NEW w \in Workers, GetLedger(w) PROVE LedgerInv'
    BY <2>4 DEF GetLedger, configVars, NoLostUpdate, Ledger
  <2>5. ASSUME NEW w \in Workers, PutLedger(w) PROVE LedgerInv'
    <3>1. home # Nil /\ UNCHANGED <<input, home>>
      BY <2>5 DEF PutLedger, configVars
    <3>2. CASE UNCHANGED <<bucket, acked>>
      BY <3>1, <3>2 DEF NoLostUpdate, Ledger
    <3>3. CASE /\ Precondition(read[w]) /\ Stored(ledgerKey, read[w] \cup {w})
               /\ acked' \subseteq acked \cup {w}
      <4>1. bucket' = With(bucket, ledgerKey, read[w] \cup {w})
        BY <3>3 DEF Stored
      <4>2. Ledger' = Ledger \cup {w}
        BY <3>1, <3>3, <4>1 DEF Precondition, With, Ledger
      <4>3. QED BY <3>1, <3>3, <4>2 DEF NoLostUpdate
    <3>4. QED BY <2>5, <3>2, <3>3 DEF PutLedger
  <2>6. CASE UNCHANGED vars
    BY <2>6 DEF vars, configVars, storeVars, NoLostUpdate, Ledger
  <2>7. QED BY <2>1, <2>2, <2>3, <2>4, <2>5, <2>6 DEF Next
<1>3. QED BY <1>1, <1>2, PTL DEF Spec, LedgerInv

-----------------------------------------------------------------------------
(* The layout of the bucket.                                               *)

\* The prefix that a pass opens its store with is that of a location.
ConfigOK ==
  input # Nil =>
    /\ input \in Inputs
    /\ pc \in {"credentials", "scan", "new", "open"} =>
         /\ DOMAIN cfg = {"Endpoint", "Bucket", "Prefix", "creds", "from"}
         /\ Trimmed(cfg.Prefix) \in LocationPrefixes

HomeOK ==
  home # Nil => home \in LocationPrefixes /\ input = Nil /\ DOMAIN put = Stores

\* What was put is there, under its full key ...
PutOK ==
  \A p \in Stores : \A k \in DOMAIN put[p] :
     /\ k \in {TrimLeft(r) : r \in RelKeys}
     /\ fullKey(p, k) \in DOMAIN bucket /\ bucket[fullKey(p, k)] = put[p][k]

\* ... and beside it there is only the ledger.
HoldsOK ==
  \A f \in DOMAIN bucket :
     f = ledgerKey \/ \E p \in Stores : \E k \in DOMAIN put[p] : f = fullKey(p, k)

BucketInv ==
  /\ ConfigOK /\ HomeOK /\ PutOK /\ HoldsOK
  /\ home = Nil => bucket = <<>>
  /\ \A w \in Workers : read[w] # Nil => home # Nil

\* Where KeysOK holds, every key and prefix is a sequence, and a full key is
\* the trimmed key with the prefix before it.
LEMMA FullKeys ==
  ASSUME KeysOK, NEW p \in LocationPrefixes, NEW k \in Keys
  PROVE  /\ p \in Keys /\ Under(p) \in Keys /\ TrimLeft(k) \in Keys
         /\ fullKey(p, k) = IF p = <<>> THEN TrimLeft(k) ELSE Under(p) \o TrimLeft(k)
         /\ fullKey(p, k) \in Keys
         /\ fullKey(p, TrimLeft(k)) = fullKey(p, k)
         /\ p # <<>> => IsPrefix(Under(p), fullKey(p, k))
<1>1. p \in Keys
  BY StringsAreKeys DEF KeysOK
<1>2. Under(p) \in Keys
  <2>1. <<"/">> \in Keys
    BY DEF Keys
  <2>2. QED BY <1>1, <2>1, Appended DEF Under
<1>3. TrimLeft(k) \in Keys /\ TrimLeft(TrimLeft(k)) = TrimLeft(k)
  BY TrimmedOnce
<1>4. fullKey(p, k) = IF p = <<>> THEN TrimLeft(k) ELSE Under(p) \o TrimLeft(k)
  BY DEF fullKey, Under
<1>5. fullKey(p, TrimLeft(k)) = fullKey(p, k)
  BY <1>3 DEF fullKey
<1>6. Under(p) \o TrimLeft(k) \in Keys /\ IsPrefix(Under(p), Under(p) \o TrimLeft(k))
  BY <1>2, <1>3, Appended
<1>7. QED BY <1>1, <1>2, <1>3, <1>4, <1>5, <1>6

\* The open stores are stores of locations.
LEMMA StoresOfLocations ==
  ASSUME HomeOK
  PROVE  Stores \subseteq LocationPrefixes
<1>1. ASSUME NEW q \in OtherPrefixes PROVE Trimmed(q) \in LocationPrefixes
  BY DEF LocationPrefixes
<1>2. QED BY <1>1 DEF HomeOK, Stores

\* The stages before the bucket: the configuration carries a location's prefix.
LEMMA ConfigKept ==
  ASSUME ConfigOK, ConfigStep
  PROVE  ConfigOK'
<1> SUFFICES ASSUME input' # Nil PROVE ConfigOK'
  BY DEF ConfigOK
<1>1. UNCHANGED input /\ input \in Inputs
  BY ConfigStepLeaves DEF ConfigOK
<1>2. CASE Resolve
  <2>1. CASE Unusable
    BY <1>1, <1>2, <2>1 DEF ConfigOK, Resolve, Fail
  <2>2. CASE ~Unusable
    <3>1. input.location # Nil /\ input.location.ObjectStorage # Nil
      BY <1>1, <2>2, InputAssumption DEF Unusable, LocationMissing, InputOK
    <3>2. Trimmed(input.location.ObjectStorage.Prefix) \in LocationPrefixes
      BY <1>1, <3>1 DEF LocationPrefixes
    <3>3. /\ DOMAIN cfg' = {"Endpoint", "Bucket", "Prefix", "creds", "from"}
          /\ cfg'.Prefix = input.location.ObjectStorage.Prefix
      BY <1>2, <2>2 DEF Resolve
    <3>4. QED BY <1>1, <3>2, <3>3 DEF ConfigOK
  <2>3. QED BY <2>1, <2>2
<1>3. CASE /\ pc \in {"credentials", "scan", "new"}
           /\ cfg' = cfg \/ (\E v : cfg' = [cfg EXCEPT !.from = v])
                         \/ (\E v : cfg' = [cfg EXCEPT !.creds = v])
  <2>1. /\ DOMAIN cfg = {"Endpoint", "Bucket", "Prefix", "creds", "from"}
        /\ Trimmed(cfg.Prefix) \in LocationPrefixes
    BY <1>1, <1>3 DEF ConfigOK
  <2>2. DOMAIN cfg' = DOMAIN cfg /\ cfg'.Prefix = cfg.Prefix
    BY <1>3, <2>1
  <2>3. QED BY <1>1, <2>1, <2>2 DEF ConfigOK
<1>4. CASE GetCredentials
  BY <1>3, <1>4 DEF GetCredentials
<1>5. CASE (\E l \in Lines : Scan(l)) \/ ScanError \/ New
  BY <1>3, <1>5 DEF Scan, ScanError, New
<1>6. CASE EndOfFile
  BY <1>3, <1>6 DEF EndOfFile
<1>7. QED BY <1>2, <1>4, <1>5, <1>6 DEF ConfigStep

LEMMA BucketStep ==
  ASSUME KeysOK, Separated, BucketInv, [Next]_vars
  PROVE  BucketInv'
<1> USE DEF BucketInv
<1>0. Stores \subseteq LocationPrefixes /\ RelKeys \subseteq Keys
  BY StringsAreKeys, StoresOfLocations DEF KeysOK
<1>1. CASE ConfigStep /\ UNCHANGED storeVars
  <2>1. ConfigOK' /\ UNCHANGED <<input, home, bucket, put, read, acked>>
    BY <1>1, ConfigKept, ConfigStepLeaves DEF storeVars
  <2>2. QED BY <2>1 DEF HomeOK, PutOK, HoldsOK, Stores
<1>2. CASE Opened
  <2>1. /\ home = Nil /\ bucket = <<>> /\ input' = Nil /\ UNCHANGED <<bucket, read>>
        /\ put' = [p \in Stores' |-> <<>>]
    BY <1>2 DEF Opened, HomeOK
  <2>2. home' \in LocationPrefixes
    BY <1>2 DEF Opened, ConfigOK
  <2>3. home' # Nil
    BY <2>2 DEF KeysOK
  <2>4. PutOK'
    BY <2>1 DEF PutOK
  <2>5. HoldsOK'
    BY <2>1 DEF HoldsOK
  <2>6. ConfigOK' /\ HomeOK'
    BY <2>1, <2>2 DEF ConfigOK, HomeOK
  <2>7. QED BY <2>1, <2>3, <2>4, <2>5, <2>6
<1>3. ASSUME NEW p \in Stores, NEW k \in RelKeys, Put(p, k) PROVE BucketInv'
  <2> DEFINE f == fullKey(p, k)
             t == TrimLeft(k)
             v == <<p, t>>
  <2>1. home # Nil /\ UNCHANGED <<input, pc, cfg, home, read>> /\ Stores' = Stores
    BY <1>3 DEF Stores, Put, configVars
  <2>2. ~(f \in DOMAIN bucket) /\ bucket' = With(bucket, f, v)
    BY <1>3 DEF Put, Stat, Stored
  <2>3. DOMAIN put = Stores /\ put' = [put EXCEPT ![p] = With(@, t, v)]
    BY <1>3, <2>1 DEF Put, HomeOK
  <2>4. f = fullKey(p, t)
    BY <1>0, FullKeys
  <2> HIDE DEF f, t, v
  <2>5. /\ DOMAIN bucket' = DOMAIN bucket \cup {f} /\ bucket'[f] = v
        /\ \A x \in DOMAIN bucket : x # f /\ bucket'[x] = bucket[x]
    BY <2>2 DEF With
  <2>6. /\ DOMAIN put' = Stores /\ \A q \in Stores \ {p} : put'[q] = put[q]
        /\ put'[p] = With(put[p], t, v)
    BY <2>3
  <2>7. /\ DOMAIN put'[p] = DOMAIN put[p] \cup {t} /\ put'[p][t] = v
        /\ \A x \in DOMAIN put[p] : x # t => put'[p][x] = put[p][x]
    BY <2>6 DEF With
  <2>8. PutOK'
    <3> SUFFICES ASSUME NEW q \in Stores, NEW x \in DOMAIN put'[q]
                 PROVE  /\ x \in {TrimLeft(r) : r \in RelKeys}
                        /\ fullKey(q, x) \in DOMAIN bucket' /\ bucket'[fullKey(q, x)] = put'[q][x]
      BY <2>1 DEF PutOK
    <3>1. CASE q = p /\ x = t
      BY <2>4, <2>5, <2>7, <3>1 DEF t
    <3>2. CASE ~(q = p /\ x = t)
      <4>1. x \in DOMAIN put[q] /\ put'[q][x] = put[q][x]
        BY <2>6, <2>7, <3>2
      <4>2. QED BY <2>5, <4>1 DEF PutOK
    <3>3. QED BY <3>1, <3>2
  <2>9. HoldsOK'
    <3> SUFFICES ASSUME NEW x \in DOMAIN bucket'
                 PROVE  x = ledgerKey \/ \E q \in Stores : \E y \in DOMAIN put'[q] : x = fullKey(q, y)
      BY <2>1 DEF HoldsOK
    <3>1. CASE x = f
      BY <2>4, <2>7, <3>1
    <3>2. CASE x \in DOMAIN bucket /\ x # ledgerKey
      <4>0. PICK q \in Stores : \E y \in DOMAIN put[q] : x = fullKey(q, y)
        BY <3>2 DEF HoldsOK
      <4>1. PICK y \in DOMAIN put[q] : x = fullKey(q, y)
        BY <4>0
      <4>2. y \in DOMAIN put'[q]
        BY <2>6, <2>7
      <4>3. QED BY <4>1, <4>2
    <3>3. QED BY <2>5, <3>1, <3>2
  <2>10. ConfigOK' /\ HomeOK'
    BY <2>1, <2>6 DEF ConfigOK, HomeOK
  <2>11. QED BY <2>1, <2>8, <2>9, <2>10
<1>4. ASSUME NEW w \in Workers, GetLedger(w) PROVE BucketInv'
  BY <1>4 DEF GetLedger, configVars, ConfigOK, HomeOK, PutOK, HoldsOK, Stores
<1>5. ASSUME NEW w \in Workers, PutLedger(w) PROVE BucketInv'
  <2>1. home # Nil /\ UNCHANGED <<input, pc, cfg, home, put>> /\ Stores' = Stores
    BY <1>5 DEF PutLedger, configVars, Stores
  <2>2. ConfigOK' /\ HomeOK'
    BY <2>1 DEF ConfigOK, HomeOK
  <2>3. CASE UNCHANGED bucket
    BY <2>1, <2>2, <2>3 DEF PutOK, HoldsOK
  <2>4. CASE Stored(ledgerKey, read[w] \cup {w})
    <3>1. /\ DOMAIN bucket' = DOMAIN bucket \cup {ledgerKey}
          /\ \A x \in DOMAIN bucket : x # ledgerKey => bucket'[x] = bucket[x]
      BY <2>4 DEF Stored, With
    <3>2. \A q \in Stores : \A k \in DOMAIN put[q] : fullKey(q, k) # ledgerKey
      <4> TAKE q \in Stores
      <4> TAKE k \in DOMAIN put[q]
      <4>3. PICK r \in RelKeys : k = TrimLeft(r)
        BY DEF PutOK
      <4>4. fullKey(q, k) = fullKey(q, r)
        BY <1>0, <4>3, FullKeys
      <4>5. QED BY <1>0, <4>4 DEF Separated
    <3>3. PutOK'
      BY <2>1, <3>1, <3>2 DEF PutOK
    <3>4. HoldsOK'
      BY <2>1, <3>1 DEF HoldsOK
    <3>5. QED BY <2>1, <2>2, <3>3, <3>4
  <2>5. QED BY <1>5, <2>3, <2>4 DEF PutLedger
<1>6. CASE UNCHANGED vars
  BY <1>6 DEF vars, configVars, storeVars, ConfigOK, HomeOK, PutOK, HoldsOK, Stores
<1>7. QED BY <1>1, <1>2, <1>3, <1>4, <1>5, <1>6 DEF Next

LEMMA BucketInvariant ==
  ASSUME KeysOK, Separated
  PROVE  Spec => []BucketInv
<1>1. Init => BucketInv
  <2> SUFFICES ASSUME Init PROVE BucketInv
    OBVIOUS
  <2>1. /\ input \in Inputs /\ pc = "resolve" /\ home = Nil /\ bucket = <<>>
        /\ \A w \in Workers : read[w] = Nil
    BY DEF Init, Resolving
  <2>2. Stores = {} /\ DOMAIN bucket = {}
    BY <2>1 DEF Stores
  <2>3. QED BY <2>1, <2>2 DEF BucketInv, ConfigOK, HomeOK, PutOK, HoldsOK
<1>2. BucketInv /\ [Next]_vars => BucketInv'
  BY BucketStep
<1>3. QED BY <1>1, <1>2, PTL DEF Spec

\* A key that was put can be taken apart again: relKey undoes fullKey.
LEMMA RoundTrip ==
  ASSUME KeysOK, NEW p \in LocationPrefixes, NEW k \in Keys, TrimLeft(k) = k
  PROVE  relKey(p, fullKey(p, k)) = k
<1>1. CASE p = <<>>
  BY <1>1, FullKeys DEF relKey
<1>2. CASE p # <<>>
  <2>1. Under(p) \in Keys /\ fullKey(p, k) = Under(p) \o k
    BY <1>2, FullKeys
  <2>2. /\ IsPrefix(Under(p), Under(p) \o k)
        /\ SubSeq(Under(p) \o k, Len(Under(p)) + 1, Len(Under(p) \o k)) = k
    BY <2>1, Appended
  <2>3. QED BY <1>2, <2>1, <2>2 DEF relKey, Under
<1>3. QED BY <1>1, <1>2

\* What is found under a listed prefix was put there through a store of the
\* location: an object of another location would have to begin both ways.
LEMMA FoundIsOwn ==
  ASSUME KeysOK, Separated, NEW p \in LocationPrefixes, NEW q \in LocationPrefixes,
         NEW l \in ListPrefixes, NEW r \in RelKeys, IsPrefix(fullKey(p, l), fullKey(q, r))
  PROVE  p = q
<1> SUFFICES ASSUME p # q PROVE FALSE
  OBVIOUS
<1>0. l \in Keys /\ TrimLeft(l) = l /\ r \in Keys
  BY StringsAreKeys DEF KeysOK
<1> DEFINE f == fullKey(q, r)
<1>1. f \in Keys /\ fullKey(p, l) \in Keys /\ Under(p) \in Keys /\ Under(q) \in Keys
  BY <1>0, FullKeys
<1>2. q # <<>> => IsPrefix(Under(q), f)
  BY <1>0, FullKeys
<1>3. CASE p = <<>>
  <2>1. fullKey(p, l) = l
    BY <1>0, <1>3, FullKeys
  <2>2. IsPrefix(l, Under(q)) \/ IsPrefix(Under(q), l)
    BY <1>0, <1>1, <1>2, <1>3, <2>1, PrefixesComparable
  <2>3. QED BY <1>3, <2>1, <2>2 DEF Separated
<1>4. CASE p # <<>>
  <2>1. IsPrefix(Under(p), f)
    <3>1. IsPrefix(Under(p), fullKey(p, l))
      BY <1>0, <1>4, FullKeys
    <3>2. QED BY <1>1, <3>1, PrefixTransitive
  <2>2. CASE q = <<>>
    <3>1. f = TrimLeft(r)
      BY <2>2 DEF fullKey
    <3>2. QED BY <1>4, <2>1, <2>2, <3>1 DEF Separated
  <2>3. CASE q # <<>>
    <3>1. IsPrefix(Under(p), Under(q)) \/ IsPrefix(Under(q), Under(p))
      BY <1>1, <1>2, <2>1, <2>3, PrefixesComparable
    <3>2. QED BY <1>4, <2>3, <3>1 DEF Separated
  <2>4. QED BY <2>2, <2>3
<1>5. QED BY <1>3, <1>4

\* Listing gives what was put and begins that way.
LEMMA ListOfPut ==
  ASSUME KeysOK, Separated, BucketInv, NEW p \in Stores, NEW l \in ListPrefixes
  PROVE  List(p, l) = {k \in DOMAIN put[p] : IsPrefix(l, k)}
<1>0. p \in LocationPrefixes /\ Stores \subseteq LocationPrefixes
  BY StoresOfLocations DEF BucketInv
<1>1. l \in Keys /\ TrimLeft(l) = l
  BY StringsAreKeys DEF KeysOK
<1>2. \A q \in Stores : \A k \in DOMAIN put[q] :
         /\ k \in Keys /\ TrimLeft(k) = k /\ \E r \in RelKeys : fullKey(q, k) = fullKey(q, r)
  <2> TAKE q \in Stores
  <2> TAKE k \in DOMAIN put[q]
  <2>1. PICK r \in RelKeys : k = TrimLeft(r)
    BY DEF BucketInv, PutOK
  <2>2. r \in Keys
    BY StringsAreKeys DEF KeysOK
  <2>3. QED BY <1>0, <2>1, <2>2, TrimmedOnce, FullKeys
<1>3. \A k \in DOMAIN put[p] : IsPrefix(fullKey(p, l), fullKey(p, k)) <=> IsPrefix(l, k)
  <2> TAKE k \in DOMAIN put[p]
  <2>1. k \in Keys /\ TrimLeft(k) = k
    BY <1>2
  <2>2. CASE p = <<>>
    BY <1>0, <1>1, <2>1, <2>2, FullKeys
  <2>3. CASE p # <<>>
    <3>1. fullKey(p, l) = Under(p) \o l /\ fullKey(p, k) = Under(p) \o k /\ Under(p) \in Keys
      BY <1>0, <1>1, <2>1, <2>3, FullKeys
    <3>2. QED BY <1>1, <2>1, <3>1, PrefixCancels
  <2>4. QED BY <2>2, <2>3
<1>4. ASSUME NEW x \in List(p, l) PROVE x \in DOMAIN put[p] /\ IsPrefix(l, x)
  <2>1. PICK f \in DOMAIN bucket : IsPrefix(fullKey(p, l), f) /\ x = relKey(p, f)
    BY <1>4 DEF List
  <2>2. f # ledgerKey
    BY <1>0, <2>1 DEF Separated
  <2>3. PICK q \in Stores : \E k \in DOMAIN put[q] : f = fullKey(q, k)
    BY <2>2 DEF BucketInv, HoldsOK
  <2>4. PICK k \in DOMAIN put[q] : f = fullKey(q, k)
    BY <2>3
  <2>5. q = p
    BY <1>0, <1>2, <2>1, <2>4, FoundIsOwn
  <2>6. x = k
    BY <1>0, <1>2, <2>1, <2>4, <2>5, RoundTrip
  <2>7. QED BY <1>3, <2>1, <2>4, <2>5, <2>6
<1>5. ASSUME NEW k \in DOMAIN put[p], IsPrefix(l, k) PROVE k \in List(p, l)
  <2>1. fullKey(p, k) \in DOMAIN bucket
    BY DEF BucketInv, PutOK
  <2>2. IsPrefix(fullKey(p, l), fullKey(p, k)) /\ relKey(p, fullKey(p, k)) = k
    BY <1>0, <1>2, <1>3, <1>5, RoundTrip
  <2>3. QED BY <2>1, <2>2 DEF List
<1>6. QED BY <1>4, <1>5

\* Through every store, listing what enumerateDelta lists gives exactly the keys
\* that were put through stores with that prefix and begin that way, and each
\* of them opens what was put under it, for any layout of the bucket in which
\* no location is inside another one, with the ledger under a location's prefix
\* or not.
THEOREM ListIsExactCorrect ==
  ASSUME KeysOK, Separated
  PROVE  Spec => []ListIsExact
<1>1. BucketInv => ListIsExact
  <2> SUFFICES ASSUME BucketInv, NEW p \in Stores, NEW l \in ListPrefixes
               PROVE  /\ List(p, l) = {k \in DOMAIN put[p] : IsPrefix(l, k)}
                      /\ \A k \in List(p, l) : Open(p, k) = put[p][k]
    BY DEF ListIsExact
  <2>1. List(p, l) = {k \in DOMAIN put[p] : IsPrefix(l, k)}
    BY ListOfPut
  <2>2. \A k \in DOMAIN put[p] : Open(p, k) = put[p][k]
    BY DEF BucketInv, PutOK, Open, Stat
  <2>3. QED BY <2>1, <2>2
<1>2. QED BY <1>1, BucketInvariant, PTL

-----------------------------------------------------------------------------
(* The credentials.                                                        *)

\* SectionAt, In and LastOf, of any file.
SectionOf(f, i) ==
  LET headers == {j \in 1 .. i : f[j].kind = "header"}
  IN  IF headers = {} THEN "" ELSE f[Max(headers)].name

Sets(l) == l.kind \in {"assign", "unset"}
InOf(f, s) == {i \in DOMAIN f : Sets(f[i]) /\ SectionOf(f, i) = s}

LastIn(f, s, k) ==
  LET at == {i \in InOf(f, s) : f[i].name = k}
  IN  IF at = {} THEN 0 ELSE ValueAt(f, Max(at))

\* What the scanner has built is what the lines say.
ScanOK ==
  /\ file \in Seq(Lines)
  /\ current = SectionOf(file, Len(file)) /\ current \in SectionNames
  /\ DOMAIN sections = SectionNames
  /\ \A s \in SectionNames :
       /\ InOf(file, s) = {} => sections[s] = <<>>
       /\ DOMAIN sections[s] = {file[i].name : i \in InOf(file, s)}
       /\ \A k \in DOMAIN sections[s] : sections[s][k] = LastIn(file, s, k)

CredentialsInv ==
  /\ ScanOK
  /\ pc \in {"credentials", "scan", "new"} =>
       DOMAIN cfg = {"Endpoint", "Bucket", "Prefix", "creds", "from"}
  /\ pc \in {"credentials", "scan"} => cfg.creds = Nil
  /\ pc \in {"scan", "new"} => cfg.from = CredRef
  /\ CredentialsOfOneProfile

\* A set of positions that is not empty has a maximum.
LEMMA MaxOfPositions ==
  ASSUME NEW n \in Nat, NEW T, T \subseteq 1 .. n, T # {}
  PROVE  Max(T) \in T /\ \A y \in T : y <= Max(T)
<1> DEFINE U == {n - i : i \in T}
<1>1. U \subseteq Nat /\ U # {}
  <2>1. \A i \in T : n - i \in Nat
    OBVIOUS
  <2>2. QED BY <2>1
<1>2. Min(U) \in U /\ \A y \in U : Min(U) <= y
  BY <1>1, MinOfNumbers
<1>3. PICK x \in T : Min(U) = n - x
  BY <1>2
<1>4. \A y \in T : n - x <= n - y
  BY <1>2, <1>3
<1>5. \A y \in T : y <= x
  BY <1>4
<1>6. QED BY <1>5 DEF Max

\* One more line: the sections of the earlier lines stay, and the line belongs to
\* the section of the last header.
LEMMA OneMoreLine ==
  ASSUME NEW f \in Seq(Lines), NEW l \in Lines
  PROVE  LET g == Append(f, l)
             n == Len(f)
         IN  /\ \A i \in 0 .. n : SectionOf(g, i) = SectionOf(f, i)
             /\ SectionOf(g, n + 1) = IF l.kind = "header" THEN l.name ELSE SectionOf(f, n)
<1> DEFINE g == Append(f, l)
           n == Len(f)
           H(h, i) == {j \in 1 .. i : h[j].kind = "header"}
<1>1. n \in Nat /\ g[n + 1] = l /\ \A i \in 1 .. n : g[i] = f[i]
  BY AppendProperties
<1> HIDE DEF g, n
<1>2. ASSUME NEW i \in 0 .. n PROVE SectionOf(g, i) = SectionOf(f, i)
  <2>1. H(g, i) = H(f, i)
    BY <1>1, <1>2
  <2>2. CASE H(f, i) = {}
    BY <2>1, <2>2 DEF SectionOf
  <2>3. CASE H(f, i) # {}
    <3>0. i \in Nat /\ H(f, i) \subseteq 1 .. i
      BY <1>1, <1>2
    <3>1. Max(H(f, i)) \in 1 .. i
      BY <2>3, <3>0, MaxOfPositions
    <3>2. g[Max(H(f, i))] = f[Max(H(f, i))]
      BY <1>1, <1>2, <3>1
    <3>3. QED BY <2>1, <2>3, <3>2 DEF SectionOf
  <2>4. QED BY <2>2, <2>3
<1>3. CASE l.kind = "header"
  <2>1. n + 1 \in H(g, n + 1) /\ n + 1 \in Nat
    BY <1>1, <1>3
  <2>2. Max(H(g, n + 1)) \in H(g, n + 1) /\ n + 1 <= Max(H(g, n + 1))
    BY <2>1, MaxOfPositions
  <2>3. Max(H(g, n + 1)) = n + 1
    BY <1>1, <2>2
  <2>4. SectionOf(g, n + 1) = l.name
    BY <1>1, <2>1, <2>3 DEF SectionOf
  <2>5. QED BY <1>2, <1>3, <2>4 DEF g, n
<1>4. CASE l.kind # "header"
  <2>1. H(g, n + 1) = H(g, n)
    BY <1>1, <1>4
  <2>2. SectionOf(g, n + 1) = SectionOf(g, n)
    BY <2>1 DEF SectionOf
  <2>3. n \in 0 .. n
    BY <1>1
  <2>4. SectionOf(g, n) = SectionOf(f, n)
    BY <1>2, <2>3
  <2>5. QED BY <1>2, <1>4, <2>2, <2>4 DEF g, n
<1>5. QED BY <1>3, <1>4

\* An assignment is the last one of its key in the current section, and the last
\* ones of the others stay.
LEMMA OneMoreAssignment ==
  ASSUME NEW f \in Seq(Lines), NEW l \in Lines, NEW s
  PROVE  LET g == Append(f, l)
             n == Len(f)
             hit == Sets(l) /\ s = SectionOf(f, n)
         IN  /\ InOf(g, s) = InOf(f, s) \cup (IF hit THEN {n + 1} ELSE {})
             /\ \A k : LastIn(g, s, k) = IF hit /\ l.name = k THEN ValueAt(g, n + 1)
                                         ELSE LastIn(f, s, k)
<1> DEFINE g == Append(f, l)
           n == Len(f)
           hit == Sets(l) /\ s = SectionOf(f, n)
           At(h, k) == {i \in InOf(h, s) : h[i].name = k}
<1>1. /\ n \in Nat /\ g[n + 1] = l /\ \A i \in 1 .. n : g[i] = f[i]
      /\ DOMAIN g = 1 .. (n + 1) /\ DOMAIN f = 1 .. n
  OBVIOUS
<1>2. /\ \A i \in 0 .. n : SectionOf(g, i) = SectionOf(f, i)
      /\ Sets(l) => SectionOf(g, n + 1) = SectionOf(f, n)
  BY OneMoreLine DEF Sets
<1> HIDE DEF g, n
<1>3. ASSUME NEW i PROVE i \in InOf(g, s) <=> i \in InOf(f, s) \/ (hit /\ i = n + 1)
  <2>1. CASE i \in 1 .. n
    <3>1. i \in 0 .. n /\ i # n + 1 /\ i \in 1 .. (n + 1)
      BY <1>1, <2>1
    <3>2. QED BY <1>1, <1>2, <2>1, <3>1 DEF InOf
  <2>2. CASE i = n + 1
    <3>1. ~(i \in 1 .. n) /\ i \in 1 .. (n + 1)
      BY <1>1, <2>2
    <3>2. QED BY <1>1, <1>2, <2>2, <3>1 DEF InOf
  <2>3. CASE ~(i \in 1 .. n) /\ i # n + 1
    <3>1. ~(i \in 1 .. (n + 1))
      BY <1>1, <2>3
    <3>2. QED BY <1>1, <2>3, <3>1 DEF InOf
  <2>4. QED BY <2>1, <2>2, <2>3
<1>4. InOf(g, s) = InOf(f, s) \cup (IF hit THEN {n + 1} ELSE {})
  BY <1>3
<1>5. InOf(f, s) \subseteq 1 .. n /\ InOf(g, s) \subseteq 1 .. (n + 1)
  BY <1>1 DEF InOf
<1>6. ASSUME NEW k
      PROVE  LastIn(g, s, k) = IF hit /\ l.name = k THEN ValueAt(g, n + 1) ELSE LastIn(f, s, k)
  <2>1. CASE hit /\ l.name = k
    <3>1. n + 1 \in At(g, k) /\ At(g, k) \subseteq 1 .. (n + 1) /\ n + 1 \in Nat
      BY <1>1, <1>4, <1>5, <2>1
    <3>2. Max(At(g, k)) \in At(g, k) /\ n + 1 <= Max(At(g, k))
      BY <3>1, MaxOfPositions
    <3>3. Max(At(g, k)) = n + 1
      BY <1>1, <3>1, <3>2
    <3>4. QED BY <2>1, <3>1, <3>3 DEF LastIn
  <2>2. CASE ~(hit /\ l.name = k)
    <3>1. At(g, k) = At(f, k)
      BY <1>1, <1>4, <1>5, <2>2
    <3>2. CASE At(f, k) = {}
      BY <2>2, <3>1, <3>2 DEF LastIn
    <3>3. CASE At(f, k) # {}
      <4>1. Max(At(f, k)) \in 1 .. n
        BY <1>1, <1>5, <3>3, MaxOfPositions
      <4>2. ValueAt(g, Max(At(f, k))) = ValueAt(f, Max(At(f, k)))
        BY <1>1, <4>1 DEF ValueAt
      <4>3. LastIn(f, s, k) = ValueAt(f, Max(At(f, k)))
        BY <3>3 DEF LastIn
      <4>4. LastIn(g, s, k) = ValueAt(g, Max(At(f, k)))
        BY <3>1, <3>3 DEF LastIn
      <4>5. QED BY <2>2, <4>2, <4>3, <4>4
    <3>4. QED BY <3>2, <3>3
  <2>3. QED BY <2>1, <2>2
<1>7. QED BY <1>4, <1>6 DEF g, n

\* The parser's loop keeps ScanOK.
LEMMA ScanKept ==
  ASSUME ScanOK, NEW l \in Lines, Scan(l)
  PROVE  ScanOK'
<1> DEFINE n == Len(file)
<1>1. /\ file' = Append(file, l) /\ file \in Seq(Lines)
      /\ current = SectionOf(file, n) /\ current \in SectionNames
  BY DEF Scan, ScanOK
<1>2. file' \in Seq(Lines) /\ Len(file') = n + 1 /\ n \in Nat /\ file'[n + 1] = l
      /\ \A i \in 1 .. n : file'[i] = file[i]
  BY <1>1, AppendProperties
<1>3. SectionOf(file', n + 1) = IF l.kind = "header" THEN l.name ELSE current
  BY <1>1, OneMoreLine
<1>4. ASSUME NEW s
      PROVE  LET hit == Sets(l) /\ s = current
             IN  /\ InOf(file', s) = InOf(file, s) \cup (IF hit THEN {n + 1} ELSE {})
                 /\ \A k : LastIn(file', s, k) = IF hit /\ l.name = k THEN ValueAt(file', n + 1)
                                                 ELSE LastIn(file, s, k)
  BY <1>1, OneMoreAssignment
<1>5. current' = SectionOf(file', Len(file')) /\ current' \in SectionNames
  <2>1. current' = IF l.kind = "header" THEN l.name ELSE current
    BY DEF Scan
  <2>2. l.kind = "header" => l.name \in SectionNames
    BY DEF SectionNames
  <2>3. QED BY <1>1, <1>2, <1>3, <2>1, <2>2
<1>6. sections' = IF Sets(l) THEN [sections EXCEPT ![current] = With(@, l.name, ValueAt(file', n + 1))]
                  ELSE sections
  BY <1>2 DEF Scan, Sets
<1>7. DOMAIN sections = SectionNames /\ DOMAIN sections' = SectionNames
  BY <1>6 DEF ScanOK
<1> HIDE DEF n
<1>8. ASSUME NEW s \in SectionNames
      PROVE  /\ InOf(file', s) = {} => sections'[s] = <<>>
             /\ DOMAIN sections'[s] = {file'[i].name : i \in InOf(file', s)}
             /\ \A k \in DOMAIN sections'[s] : sections'[s][k] = LastIn(file', s, k)
  <2>1. /\ InOf(file, s) = {} => sections[s] = <<>>
        /\ DOMAIN sections[s] = {file[i].name : i \in InOf(file, s)}
        /\ \A k \in DOMAIN sections[s] : sections[s][k] = LastIn(file, s, k)
    BY DEF ScanOK
  <2>2. \A i \in InOf(file, s) : i \in 1 .. n /\ file'[i] = file[i]
    BY <1>1, <1>2 DEF InOf, n
  <2>3. CASE Sets(l) /\ s = current
    <3> DEFINE v == ValueAt(file', n + 1)
    <3>1. InOf(file', s) = InOf(file, s) \cup {n + 1}
      BY <1>4, <2>3
    <3>2. \A k : LastIn(file', s, k) = IF l.name = k THEN v ELSE LastIn(file, s, k)
      BY <1>4, <2>3
    <3> HIDE DEF v
    <3>3. sections'[s] = With(sections[s], l.name, v)
      BY <1>6, <1>7, <2>3 DEF v
    <3>4. /\ DOMAIN sections'[s] = DOMAIN sections[s] \cup {l.name}
          /\ \A k \in DOMAIN sections'[s] : sections'[s][k] = IF k = l.name THEN v ELSE sections[s][k]
      BY <3>3 DEF With
    <3>5. {file'[i].name : i \in InOf(file', s)} = {file[i].name : i \in InOf(file, s)} \cup {l.name}
      BY <1>2, <2>2, <3>1
    <3>6. QED BY <2>1, <3>1, <3>2, <3>4, <3>5
  <2>4. CASE ~(Sets(l) /\ s = current)
    <3>1. InOf(file', s) = InOf(file, s) /\ \A k : LastIn(file', s, k) = LastIn(file, s, k)
      BY <1>4, <2>4
    <3>2. sections'[s] = sections[s]
      BY <1>6, <1>7, <2>4
    <3>3. {file'[i].name : i \in InOf(file', s)} = {file[i].name : i \in InOf(file, s)}
      BY <2>2, <3>1
    <3>4. QED BY <2>1, <3>1, <3>2, <3>3
  <2>5. QED BY <2>3, <2>4
<1>9. QED BY <1>2, <1>5, <1>7, <1>8 DEF ScanOK

\* A file has finitely many sections.
LEMMA FiniteSections ==
  ASSUME ScanOK
  PROVE  IsFiniteSet({s \in SectionNames : In(s) # {}})
<1> DEFINE N == {s \in SectionNames : In(s) # {}}
           I == 1 .. Len(file)
           T == {SectionAt(i) : i \in I}
           f == [i \in I |-> SectionAt(i)]
<1>1. Len(file) \in Nat /\ DOMAIN file = I
  BY DEF ScanOK
<1>2. IsFiniteSet(I)
  BY <1>1, FS_Interval
<1>3. f \in Surjection(I, T)
  BY DEF Surjection
<1>4. IsFiniteSet(T)
  BY <1>2, <1>3, FS_Surjection
<1>5. N \subseteq T
  BY <1>1 DEF In
<1>6. QED BY <1>4, <1>5, FS_Subset

\* pickProfile picks the section that the lines call for, or none.
LEMMA PickedIsParsed ==
  ASSUME ScanOK
  PROVE  LET picked == pickProfile(sections, Profile)
         IN  /\ picked = {} => Parsed = Nil
             /\ \A kv \in picked : Parsed = [k \in CredKeys \ {"other"} |-> Value(kv, k)]
<1> DEFINE N == {s \in SectionNames : In(s) # {}}
           Of(s) == [k \in CredKeys \ {"other"} |-> LastOf(s, k)]
           C == CredKeys \ {"other"}
<1>1. \A s : In(s) = InOf(file, s) /\ \A k : LastOf(s, k) = LastIn(file, s, k)
  BY DEF In, InOf, Sets, SectionAt, SectionOf, LastOf, LastIn
<1>2. Full(sections) = N
  <2>1. \A s \in SectionNames : In(s) # {} => sections[s] # <<>>
    <3> TAKE s \in SectionNames
    <3> HAVE In(s) # {}
    <3>0. PICK i : i \in InOf(file, s)
      BY <1>1
    <3>1. file[i].name \in DOMAIN sections[s]
      BY <3>0 DEF ScanOK
    <3>2. QED BY <3>1
  <2>2. \A s \in SectionNames : In(s) = {} => sections[s] = <<>>
    BY <1>1 DEF ScanOK
  <2>3. QED BY <2>1, <2>2 DEF Full, ScanOK
<1>3. ASSUME NEW s \in SectionNames, NEW k PROVE Value(sections[s], k) = LastOf(s, k)
  <2>1. CASE k \in DOMAIN sections[s]
    BY <1>1, <2>1 DEF Value, ScanOK
  <2>2. CASE ~(k \in DOMAIN sections[s])
    <3>1. {i \in InOf(file, s) : file[i].name = k} = {}
      BY <2>2 DEF ScanOK
    <3>2. LastIn(file, s, k) = 0
      BY <3>1 DEF LastIn
    <3>3. QED BY <1>1, <2>2, <3>2 DEF Value
  <2>3. QED BY <2>1, <2>2
<1>4. ASSUME NEW s \in SectionNames, Candidates = {s}
      PROVE  Parsed = [k \in C |-> Value(sections[s], k)]
  <2>0. Cardinality({s}) = 1
    BY FS_Singleton
  <2> DEFINE c == CHOOSE x \in Candidates : TRUE
  <2>1. Cardinality(Candidates) = 1 /\ c = s
    BY <1>4, <2>0
  <2>2. Parsed = Of(c)
    BY <2>1, Zenon DEF Parsed
  <2> HIDE DEF c
  <2>3. Parsed = Of(s)
    BY <2>1, <2>2
  <2>4. QED BY <1>3, <1>4, <2>3
<1>5. ASSUME NEW s \in N, Candidates = {s}, pickProfile(sections, Profile) = {sections[s]}
      PROVE  LET picked == pickProfile(sections, Profile)
             IN  /\ picked = {} => Parsed = Nil
                 /\ \A kv \in picked : Parsed = [k \in C |-> Value(kv, k)]
  BY <1>4, <1>5
<1> HIDE DEF N
<1>6. Candidates = IF Profile \in N THEN {Profile} ELSE IF "" \in N THEN {""} ELSE N
  BY DEF Candidates, N
<1>7. CASE Profile \in N
  BY <1>2, <1>5, <1>6, <1>7 DEF pickProfile
<1>8. CASE ~(Profile \in N) /\ "" \in N
  BY <1>2, <1>5, <1>6, <1>8 DEF pickProfile
<1>9. CASE ~(Profile \in N) /\ ~("" \in N)
  <2>1. Candidates = N
    BY <1>6, <1>9
  <2>2. CASE Cardinality(N) = 1
    <3>0. IsFiniteSet(N)
      BY FiniteSections DEF N
    <3>1. PICK s : N = {s}
      BY <2>2, <3>0, FS_Singleton
    <3>2. pickProfile(sections, Profile) = {sections[s]}
      <4>1. pickProfile(sections, Profile) = {sections[x] : x \in N}
        BY <1>2, <1>9, <2>2, Zenon DEF pickProfile
      <4>2. QED BY <3>1, <4>1
    <3>3. QED BY <1>5, <2>1, <3>1, <3>2
  <2>3. CASE Cardinality(N) # 1
    <3>1. pickProfile(sections, Profile) = {}
      BY <1>2, <1>9, <2>3 DEF pickProfile
    <3>2. Parsed = Nil
      BY <2>1, <2>3 DEF Parsed
    <3>3. QED BY <3>1, <3>2
  <2>4. QED BY <2>2, <2>3
<1>10. QED BY <1>7, <1>8, <1>9

\* What a pass does with its configuration keeps the credentials those of the
\* lines.
LEMMA CredentialsStep ==
  ASSUME CredentialsInv, ConfigStep
  PROVE  CredentialsInv'
<1> DEFINE shape == {"Endpoint", "Bucket", "Prefix", "creds", "from"}
<1>1. UNCHANGED input
  BY ConfigStepLeaves
<1>2. ASSUME UNCHANGED <<file, sections, current>> PROVE ScanOK'
  BY <1>2 DEF CredentialsInv, ScanOK
<1>3. CASE Resolve
  <2>1. ScanOK' /\ pc' \in {"credentials", "failed"} /\ (pc' = "failed" => err' = "location")
    BY <1>2, <1>3 DEF Resolve, Fail, Go
  <2>2. pc' = "credentials" => DOMAIN cfg' = shape /\ cfg'.creds = Nil
    BY <1>3 DEF Resolve, Fail, Go
  <2>3. QED BY <2>1, <2>2 DEF CredentialsInv, CredentialsOfOneProfile
<1>4. CASE GetCredentials
  <2>1. DOMAIN cfg = shape /\ cfg.creds = Nil /\ cfg' = [cfg EXCEPT !.from = CredRef]
    BY <1>4 DEF GetCredentials, CredentialsInv
  <2>2. DOMAIN cfg' = shape /\ cfg'.creds = Nil /\ cfg'.from = CredRef /\ CredRef' = CredRef
    BY <1>1, <2>1 DEF CredRef
  <2>3. ScanOK' /\ pc' \in {"new", "scan", "failed"} /\ (pc' = "failed" => err' = "secret")
    BY <1>2, <1>4 DEF GetCredentials, Fail, Go
  <2>4. QED BY <2>2, <2>3 DEF CredentialsInv, CredentialsOfOneProfile
<1>5. ASSUME NEW l \in Lines, Scan(l) PROVE CredentialsInv'
  <2>1. ScanOK' /\ pc = "scan" /\ UNCHANGED <<input, pc, err, cfg>>
    BY <1>5, ScanKept DEF CredentialsInv, Scan
  <2>2. CredRef' = CredRef
    BY <2>1 DEF CredRef
  <2>3. QED BY <2>1, <2>2 DEF CredentialsInv, CredentialsOfOneProfile
<1>6. CASE ScanError
  <2>1. ScanOK' /\ pc' = "failed" /\ err' = "scan"
    BY <1>2, <1>6 DEF ScanError, Fail
  <2>2. QED BY <2>1 DEF CredentialsInv, CredentialsOfOneProfile
<1>7. CASE EndOfFile
  <2> DEFINE picked == pickProfile(sections, Profile)
             C == CredKeys \ {"other"}
             usable(kv) == /\ Value(kv, "aws_access_key_id") # 0
                           /\ Value(kv, "aws_secret_access_key") # 0
             pair == /\ Parsed # Nil
                     /\ Parsed["aws_access_key_id"] # 0 /\ Parsed["aws_secret_access_key"] # 0
  <2>1. pc = "scan" /\ UNCHANGED <<input, file, sections, current>> /\ ScanOK
    BY <1>7 DEF EndOfFile, CredentialsInv
  <2>2. ScanOK' /\ Parsed' = Parsed /\ CredRef' = CredRef
    BY <1>2, <2>1 DEF Parsed, Candidates, LastOf, In, SectionAt, Profile, CredRef
  <2>3. /\ picked = {} => Parsed = Nil
        /\ \A kv \in picked : Parsed = [k \in C |-> Value(kv, k)]
    BY <2>1, PickedIsParsed
  <2>4. \A kv \in picked : pair => usable(kv)
    BY <2>3 DEF CredKeys
  <2>5. CASE pc' = "failed" /\ ~pair
    BY <2>2, <2>5 DEF CredentialsInv, CredentialsOfOneProfile
  <2>6. ASSUME NEW kv \in picked, usable(kv), Go("new"),
               cfg' = [cfg EXCEPT !.creds = [k \in C |-> Value(kv, k)]]
        PROVE  CredentialsInv'
    <3>1. DOMAIN cfg = shape /\ cfg.from = CredRef
      BY <2>1 DEF CredentialsInv
    <3>2. DOMAIN cfg' = shape /\ cfg'.creds = Parsed /\ cfg'.from = CredRef
      BY <2>3, <2>6, <3>1
    <3>3. Parsed["aws_access_key_id"] # 0 /\ Parsed["aws_secret_access_key"] # 0
      BY <2>3, <2>6 DEF CredKeys
    <3>4. input.policyRef # Nil => CredRef = "policy"
      BY DEF CredRef
    <3>5. pc' = "new"
      BY <2>6 DEF Go
    <3>6. CredentialsOfOneProfile'
      BY <2>1, <2>2, <3>2, <3>3, <3>4, <3>5 DEF CredentialsOfOneProfile
    <3>7. QED BY <2>2, <3>2, <3>5, <3>6 DEF CredentialsInv
  <2>7. \/ picked = {} /\ Fail("profile")
        \/ \E kv \in picked : ~usable(kv) /\ Fail("keys")
        \/ \E kv \in picked : /\ usable(kv) /\ Go("new")
                              /\ cfg' = [cfg EXCEPT !.creds = [k \in C |-> Value(kv, k)]]
    BY <1>7, Zenon DEF EndOfFile
  <2>8. CASE picked = {} /\ Fail("profile")
    BY <2>3, <2>5, <2>8 DEF Fail
  <2>9. CASE \E kv \in picked : ~usable(kv) /\ Fail("keys")
    BY <2>4, <2>5, <2>9 DEF Fail
  <2>10. QED BY <2>6, <2>7, <2>8, <2>9
<1>8. CASE New
  <2>1. ScanOK' /\ pc' \in {"open", "failed"}
        /\ (pc' = "failed" => err' \in {"endpoint", "bucket", "client"})
    BY <1>2, <1>8 DEF New, Fail, Go
  <2>2. QED BY <2>1 DEF CredentialsInv, CredentialsOfOneProfile
<1>9. QED BY <1>3, <1>4, <1>5, <1>6, <1>7, <1>8 DEF ConfigStep

\* Before the first line.
LEMMA NothingScanned ==
  /\ <<>> \in Seq(Lines) /\ Len(<<>>) = 0 /\ SectionOf(<<>>, 0) = "" /\ "" \in SectionNames
  /\ DOMAIN NoSections = SectionNames
  /\ \A s \in SectionNames :
       InOf(<<>>, s) = {} /\ NoSections[s] = <<>> /\ DOMAIN NoSections[s] = {}
<1>1. <<>> \in Seq(Lines) /\ Len(<<>>) = 0 /\ DOMAIN <<>> = {} /\ 1 .. 0 = {}
  OBVIOUS
<1>2. SectionOf(<<>>, 0) = ""
  BY <1>1 DEF SectionOf
<1>3. \A s : InOf(<<>>, s) = {}
  BY <1>1 DEF InOf
<1>4. DOMAIN NoSections = SectionNames /\ \A s \in SectionNames : NoSections[s] = <<>>
  BY DEF NoSections
<1>5. "" \in SectionNames
  BY DEF SectionNames
<1>6. QED BY <1>1, <1>2, <1>3, <1>4, <1>5

\* The credentials that a store is opened with are those of one section of the
\* file, and a file is refused only when it has none: for any file of any
\* lines, where TLC has five of nine kinds.
THEOREM CredentialsOfOneProfileCorrect == Spec => []CredentialsOfOneProfile
<1>1. Init => CredentialsInv
  <2> SUFFICES ASSUME Init PROVE CredentialsInv
    OBVIOUS
  <2>1. ScanOK /\ pc = "resolve"
    BY NothingScanned DEF Init, Resolving, ScanOK
  <2>2. QED BY <2>1 DEF CredentialsInv, CredentialsOfOneProfile
<1>2. CredentialsInv /\ [Next]_vars => CredentialsInv'
  <2> SUFFICES ASSUME CredentialsInv, [Next]_vars PROVE CredentialsInv'
    OBVIOUS
  <2>1. CASE ConfigStep /\ UNCHANGED storeVars
    BY <2>1, CredentialsStep
  <2>2. CASE Opened
    <3>1. /\ file' = <<>> /\ sections' = NoSections /\ current' = "" /\ pc' = "open"
      BY <2>2 DEF Opened
    <3>2. ScanOK'
      BY <3>1, NothingScanned DEF ScanOK
    <3>3. QED BY <3>1, <3>2 DEF CredentialsInv, CredentialsOfOneProfile
  <2>3. CASE UNCHANGED configVars
    <3>1. ScanOK' /\ Parsed' = Parsed /\ CredRef' = CredRef
      BY <2>3 DEF configVars, CredentialsInv, ScanOK,
                  Parsed, Candidates, LastOf, In, SectionAt, Profile, CredRef
    <3>2. QED BY <2>3, <3>1 DEF configVars, CredentialsInv, CredentialsOfOneProfile
  <2>4. QED BY <2>1, <2>2, <2>3 DEF Next, Put, GetLedger, PutLedger, vars
<1>3. QED BY <1>1, <1>2, PTL DEF Spec, CredentialsInv
=============================================================================
