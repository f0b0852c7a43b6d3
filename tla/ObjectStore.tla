---------------------------- MODULE ObjectStore -----------------------------
(***************************************************************************)
(* objstore.Store over one bucket that several users share: the store that *)
(* a pass has just opened (StoreConfig), the stores of the other locations *)
(* in the bucket, and the workers that commit a location's ledger. Leader  *)
(* election is off by default, so two operators may commit one ledger.     *)
(*                                                                         *)
(* A key is a sequence of name parts and slashes, so that one name may be  *)
(* the beginning of another ("b1" and "b1-2"). Until the pass has opened   *)
(* its store it does not touch the bucket and nothing that happens there   *)
(* touches it, so the bucket waits for it.                                 *)
(***************************************************************************)
EXTENDS StoreConfig, SequencesExt

CONSTANTS
  OtherPrefixes,  \* Config.Prefix of the other locations in the bucket
  RelKeys,        \* the keys that callers of Put use
  ListPrefixes,   \* the prefixes that enumerateDelta lists
  Workers,        \* the operators that commit the ledger of the location
  ledgerKey       \* where it is: at the root of the bucket, under no prefix

VARIABLES
  home,      \* the trimmed prefix of the store of the pass, Nil before New
  bucket,    \* the objects: bucket[key] is a body
  put,       \* put[p]: what was put through the stores with prefix p (history)
  read,      \* read[w]: the ledger that GetLedger gave to w, or Nil
  acked      \* the entries that a worker knows to be in the ledger (history)

storeVars == <<home, bucket, put, read, acked>>
vars == <<configVars, storeVars>>

Trimmed(p) ==
  LET solid == {i \in DOMAIN p : p[i] # "/"}
  IN  IF solid = {} THEN <<>> ELSE SubSeq(p, Min(solid), Max(solid))

TrimLeft(p) ==
  LET solid == {i \in DOMAIN p : p[i] # "/"}
  IN  IF solid = {} THEN <<>> ELSE SubSeq(p, Min(solid), Len(p))

\* Mutant: path.Join, which also drops a slash at the end.
fullKeyJoined(prefix, rel) ==
  IF prefix = <<>> THEN Trimmed(rel) ELSE prefix \o <<"/">> \o Trimmed(rel)

fullKey(prefix, rel) ==
  IF prefix = <<>> THEN TrimLeft(rel) ELSE prefix \o <<"/">> \o TrimLeft(rel)

relKey(prefix, full) ==
  LET p == prefix \o <<"/">>
  IN  IF prefix # <<>> /\ IsPrefix(p, full) THEN SubSeq(full, Len(p) + 1, Len(full)) ELSE full

\* The prefixes of the open stores.
Stores == IF home = Nil THEN {} ELSE {home} \cup {Trimmed(p) : p \in OtherPrefixes}

\* What List, Open and Stat read, as functions of the bucket.
List(prefix, rel) ==
  {relKey(prefix, k) : k \in {f \in DOMAIN bucket : IsPrefix(fullKey(prefix, rel), f)}}

Stat(prefix, rel) == fullKey(prefix, rel) \in DOMAIN bucket
Open(prefix, rel) == IF Stat(prefix, rel) THEN bucket[fullKey(prefix, rel)] ELSE Nil

Stored(k, body) == bucket' = With(bucket, k, body)

Init ==
  /\ Resolving
  /\ home = Nil /\ bucket = <<>> /\ put = <<>>
  /\ read = [w \in Workers |-> Nil] /\ acked = {}

\* The pass has its store; what it knew only for that is gone.
Opened ==
  /\ pc = "open" /\ input # Nil
  /\ home' = Trimmed(cfg.Prefix) /\ put' = [p \in Stores' |-> <<>>]
  /\ input' = Nil /\ cfg' = Nil /\ file' = <<>> /\ sections' = NoSections /\ current' = ""
  /\ UNCHANGED <<pc, err, bucket, read, acked>>

\* Put. Putting an object again, or an error after the call was applied, changes
\* nothing here.
Put(p, k) ==
  /\ p \in Stores /\ ~Stat(p, k)
  /\ Stored(fullKey(p, k), <<p, TrimLeft(k)>>)
  /\ put' = [put EXCEPT ![p] = With(@, TrimLeft(k), <<p, TrimLeft(k)>>)]
  /\ UNCHANGED <<configVars, home, read, acked>>

\* The ledger's entries, a set that is never empty once there is a ledger. Its
\* ETag is a hash of them, so they stand for it, and {} for the ETag "".
Ledger == IF home # Nil /\ ledgerKey \in DOMAIN bucket THEN bucket[ledgerKey] ELSE {}

\* commitLedger reads.
GetLedger(w) ==
  /\ home # Nil /\ read[w] = Nil
  /\ read' = [read EXCEPT ![w] = Ledger]
  /\ UNCHANGED <<configVars, home, bucket, put, acked>>

\* If-None-Match: * for an absent ledger, If-Match for a present one.
\* Mutant: a ledger that was absent is written unconditionally.
PreconditionUnlessNew(etag) == etag = {} \/ etag = Ledger

Precondition(etag) == etag = Ledger

\* commitLedger writes its entry: done, a conflict, or a call that fails and
\* is applied or not; in the last cases the whole pass runs again.
PutLedger(w) ==
  /\ read[w] # Nil
  /\ LET ok == Precondition(read[w])
         Written == Stored(ledgerKey, read[w] \cup {w})
     IN  \/ ok /\ Written /\ acked' = acked \cup {w}
         \/ UNCHANGED <<bucket, acked>>
         \/ ok /\ Written /\ UNCHANGED acked
  /\ read' = [read EXCEPT ![w] = Nil]
  /\ UNCHANGED <<configVars, home, put>>

Next ==
  \/ ConfigStep /\ UNCHANGED storeVars
  \/ Opened
  \/ \E p \in Stores, k \in RelKeys : Put(p, k)
  \/ \E w \in Workers : GetLedger(w) \/ PutLedger(w)

Spec == Init /\ [][Next]_vars

-----------------------------------------------------------------------------
(* What the layout of the bucket has to grant for the properties to hold.  *)

LocationPrefixes ==
  {Trimmed(p) : p \in OtherPrefixes \cup
     {i.location.ObjectStorage.Prefix :
        i \in {i \in Inputs : i.location # Nil /\ i.location.ObjectStorage # Nil}}}

Under(p) == p \o <<"/">>

\* No location is inside another one, and beside what is listed where there is
\* no prefix. The ledger is no listed object; it may well be under the prefix
\* of a location.
Separated ==
  /\ \A p \in LocationPrefixes \ {<<>>} :
        /\ \A q \in LocationPrefixes \ {<<>>, p} : ~IsPrefix(Under(p), Under(q))
        /\ <<>> \in LocationPrefixes =>
             /\ \A k \in RelKeys : ~IsPrefix(Under(p), TrimLeft(k))
             /\ \A l \in ListPrefixes : ~IsPrefix(l, Under(p)) /\ ~IsPrefix(Under(p), l)
  /\ \A p \in LocationPrefixes :
        /\ \A k \in RelKeys : fullKey(p, k) # ledgerKey
        /\ \A l \in ListPrefixes : ~IsPrefix(fullKey(p, l), ledgerKey)

\* Keys are sequences, and what is listed does not begin with a slash.
KeysOK ==
  /\ RelKeys \subseteq Seq(STRING) /\ ledgerKey \in Seq(STRING)
  /\ \A p \in LocationPrefixes : p \in Seq(STRING) /\ p # Nil
  /\ \A l \in ListPrefixes : l \in Seq(STRING) /\ TrimLeft(l) = l

-----------------------------------------------------------------------------
\* "keys round-trip cleanly between List -> Open" (objstore.go:11-17): listing
\* what enumerateDelta lists through a store gives the keys that were put
\* through stores with its prefix and begin that way, and no others, although
\* the bucket also holds other locations, backups whose names begin alike and
\* the ledgers; each listed key opens the object that was put under it.
ListIsExact ==
  \A p \in Stores, l \in ListPrefixes :
     /\ List(p, l) = {k \in DOMAIN put[p] : IsPrefix(l, k)}
     /\ \A k \in List(p, l) : Open(p, k) = put[p][k]

\* An entry that a worker knows to be committed stays in the ledger, although
\* two operators read, change and write it concurrently and a write may be
\* applied and reported as failed (minio.go:22-26, 199-219).
NoLostUpdate == acked \subseteq Ledger
=============================================================================
