------------------------- MODULE BackupImportProof --------------------------
(***************************************************************************)
(* Proofs about the destination role, for any documents, manifests, inbox  *)
(* histories, file sets and number of failures.                            *)
(***************************************************************************)
EXTENDS BackupImport, TLAPS

\* What the definitions of the constant sets give, for the provers.
LEMMA ManifestFacts ==
  /\ \A d \in Docs : Len(Emitted[d]) \in Nat
  /\ \A d \in Docs : \A v \in 1 .. Len(Emitted[d]) : Emitted[d][v] \in Manifests
  /\ \A m \in Manifests : m.Files \subseteq Entries /\ m # Nil
  /\ \A e \in Entries : e.Key \in Keys /\ e # Nil
<1>1. \A d \in Docs : Len(Emitted[d]) \in Nat
  BY DocsAssumption
<1>2. \A d \in Docs : \A v \in 1 .. Len(Emitted[d]) : Emitted[d][v] \in Manifests
  BY DEF Manifests
<1>3. \A m \in Manifests : m.Files \subseteq Entries /\ m # Nil
  BY NilAssumption DEF Entries
<1>4. \A e \in Entries : e.Key \in Keys /\ e # Nil
  BY NilAssumption DEF Keys
<1>5. QED BY <1>1, <1>2, <1>3, <1>4

LEMMA NameFacts ==
  /\ \A d \in Docs : importName(d) \in Names /\ d # Nil
  /\ \A n \in Names : n # Nil
  /\ \A p \in Paths : p # Nil
  /\ \A c \in Contents : c # Nil
BY NilAssumption DEF Names

LEMMA ContentFacts ==
  /\ \A p \in Paths : Len(Arrivals[p]) \in Nat
  /\ \A p \in Paths : \A i \in 1 .. Len(Arrivals[p]) : Arrivals[p][i] \in Contents
BY ArrivalsAssumption DEF Contents

\* A BackupImport that exists names a document, and stays an object when its
\* document or its phase is written.
LEMMA ObjectFacts ==
  /\ Absent \in Objects /\ ~Exists(Absent)
  /\ \A o \in Objects : Exists(o) => o.doc \in Docs /\ o.phase \in Phases
  /\ \A o \in Objects : ~Exists(o) => o = Absent
  /\ \A o \in Objects, p \in Phases :
        Exists(o) => /\ [o EXCEPT !.phase = p] \in Objects
                     /\ Exists([o EXCEPT !.phase = p])
                     /\ [o EXCEPT !.phase = p].doc = o.doc
                     /\ [o EXCEPT !.phase = p].phase = p
  /\ \A o \in Objects, d \in Docs :
        Exists(o) => /\ [o EXCEPT !.doc = d] \in Objects
                     /\ Exists([o EXCEPT !.doc = d])
                     /\ [o EXCEPT !.doc = d].doc = d
                     /\ [o EXCEPT !.doc = d].phase = o.phase
  /\ \A d \in Docs : /\ [doc |-> d, phase |-> "None"] \in Objects
                     /\ Exists([doc |-> d, phase |-> "None"])
<1>1. Absent \in Objects /\ ~Exists(Absent)
  BY DEF Objects, Absent, Exists
<1>2. \A o \in Objects : Exists(o) => o \in [doc : Docs, phase : Phases]
  BY <1>1 DEF Objects
<1>3. \A o \in [doc : Docs, phase : Phases] : o \in Objects /\ o.doc \in Docs /\ o.phase \in Phases
  BY DEF Objects
<1>4. \A p \in Phases : p # "Absent"
  BY DEF Phases
<1>5. \A o \in Objects : ~Exists(o) => o = Absent
  BY <1>3, <1>4 DEF Objects, Exists
<1>6. \A o \in [doc : Docs, phase : Phases], p \in Phases :
        /\ [o EXCEPT !.phase = p] \in [doc : Docs, phase : Phases]
        /\ [o EXCEPT !.phase = p].doc = o.doc
        /\ [o EXCEPT !.phase = p].phase = p
  OBVIOUS
<1>7. \A o \in [doc : Docs, phase : Phases], d \in Docs :
        /\ [o EXCEPT !.doc = d] \in [doc : Docs, phase : Phases]
        /\ [o EXCEPT !.doc = d].doc = d
        /\ [o EXCEPT !.doc = d].phase = o.phase
  OBVIOUS
<1>8. \A d \in Docs : [doc |-> d, phase |-> "None"] \in [doc : Docs, phase : Phases]
  BY DEF Phases
<1>9. \A o \in [doc : Docs, phase : Phases] : Exists(o)
  BY <1>4 DEF Exists
<1>10. QED BY <1>1, <1>2, <1>3, <1>5, <1>6, <1>7, <1>8, <1>9

-----------------------------------------------------------------------------
(* Type correctness, in parts: what the environment, the API objects, the  *)
(* worker and its pass keep.                                               *)

EnvOK ==
  /\ docs \in [Docs -> Nat] /\ \A d \in Docs : docs[d] <= Len(Emitted[d])
  /\ inbox \in [Paths -> Nat] /\ \A p \in Paths : inbox[p] <= Len(Arrivals[p])
  /\ faults \in 0 .. MaxFaults

FlagsOK == peered \in BOOLEAN /\ fresh \in BOOLEAN /\ pending \in BOOLEAN

ApiOK ==
  /\ bi \in [Names -> Objects] /\ cache \in [Names -> Objects]
  /\ synced \subseteq Names /\ queue \subseteq Names

BridgeOK == bridge \subseteq Docs /\ \A d \in bridge : docs[d] > 0

WorkerOK ==
  /\ pc \in {"idle", "fetch", "next", "locate", "verify", "put", "wait", "final"}
  /\ pc = "idle" <=> cur = Nil
  /\ cur \in Names \cup {Nil}
  /\ my \in Objects /\ (pc # "idle" => Exists(my))

PassOK ==
  /\ man \in Manifests \cup {Nil} /\ (pc \in Passing => man # Nil)
  /\ todo \subseteq (IF man = Nil THEN {} ELSE man.Files)
  /\ ent \in todo \cup {Nil} /\ (pc \in {"locate", "verify", "put"} <=> ent # Nil)

InboxOK ==
  /\ src \in Paths \cup {Nil} /\ (pc \in {"verify", "put"} => src # Nil /\ inbox[src] > 0)
  /\ idx = Nil \/ idx \subseteq Paths

DestOK == dest \in [Keys -> Contents \cup {Nil}]

LEMMA TypeSplit ==
  TypeOK <=> /\ EnvOK /\ FlagsOK /\ ApiOK /\ BridgeOK
             /\ WorkerOK /\ PassOK /\ InboxOK /\ DestOK
BY DEF TypeOK, EnvOK, FlagsOK, ApiOK, BridgeOK, WorkerOK, PassOK, InboxOK, DestOK

LEMMA TypeInit == Init => TypeOK
<1> SUFFICES ASSUME Init PROVE TypeOK
  OBVIOUS
<1>1. EnvOK /\ BridgeOK
  BY ManifestFacts, ContentFacts, BoundAssumption DEF Init, EnvOK, BridgeOK
<1>2. FlagsOK
  BY DEF Init, Idle, FlagsOK
<1>3. ApiOK
  BY ObjectFacts DEF Init, ApiOK
<1>4. WorkerOK /\ PassOK /\ InboxOK
  BY ObjectFacts DEF Init, Idle, WorkerOK, PassOK, InboxOK, Passing
<1>5. DestOK
  BY DEF Init, DestOK
<1>6. QED BY <1>1, <1>2, <1>3, <1>4, <1>5, TypeSplit

\* What a step does to the documents, the inbox and the count of faults.
LEMMA EnvStep ==
  ASSUME [Next]_vars
  PROVE  \/ \E d \in Docs : DocSync(d)
         \/ \E p \in Paths : Land(p)
         \/ UNCHANGED <<docs, inbox>> /\ (UNCHANGED faults \/ Fault)
<1>1. CASE \E d \in Docs : BridgeVisit(d)
  BY <1>1 DEF BridgeVisit, envVars
<1>2. CASE \E n \in Names : CacheSync(n) \/ DeleteImport(n) \/ StartImport(n)
  BY <1>2 DEF CacheSync, DeleteImport, StartImport, envVars
<1>3. CASE PeatRestart \/ PeerOutOfBand \/ Restart \/ BridgePoll
  BY <1>3 DEF PeatRestart, PeerOutOfBand, Restart, BridgePoll, envVars
<1>4. CASE FetchManifest \/ StatDest
  BY <1>4 DEF FetchManifest, StatDest, envVars, PassFails
<1>5. CASE Locate
  BY <1>5 DEF Locate, envVars, PassFails, NotLanded
<1>6. CASE Verify
  BY <1>6 DEF Verify, envVars, PassFails, NotLanded
<1>7. CASE Put
  <2>1. UNCHANGED envVars
    BY <1>7 DEF Put
  <2>2. UNCHANGED faults \/ Fault
    BY <1>7 DEF Put, PassFails
  <2>3. QED BY <2>1, <2>2 DEF envVars
<1>8. CASE PassReturns \/ WriteStatus
  BY <1>8 DEF PassReturns, WriteStatus, envVars
<1>9. CASE UNCHANGED vars
  BY <1>9 DEF vars, envVars
<1>10. QED BY <1>1, <1>2, <1>3, <1>4, <1>5, <1>6, <1>7, <1>8, <1>9 DEF Next, Mesh, BridgeStep, WorkerStep

LEMMA EnvInductive ==
  ASSUME TypeOK, [Next]_vars
  PROVE  EnvOK'
<1>0. EnvOK
  BY TypeSplit
<1>1. CASE \E d \in Docs : DocSync(d)
  BY <1>0, <1>1, ManifestFacts DEF EnvOK, DocSync
<1>2. CASE \E p \in Paths : Land(p)
  BY <1>0, <1>2, ContentFacts DEF EnvOK, Land
<1>3. CASE UNCHANGED <<docs, inbox>> /\ (UNCHANGED faults \/ Fault)
  BY <1>0, <1>3, BoundAssumption DEF EnvOK, Fault
<1>4. QED BY <1>1, <1>2, <1>3, EnvStep

\* The copy of the object that the worker may write back: it is the object
\* in the API server but for its phase, so a write never brings back an
\* object that was deleted. The cached copy is the object when the informer
\* is up to date.
FreshOK  == fresh => cur \in Names /\ Exists(bi[cur]) /\ bi[cur].doc = my.doc
SyncedOK == \A n \in synced : cache[n] = bi[n]

\* The type invariant is inductive only together with these two.
TypeInv == TypeOK /\ FreshOK /\ SyncedOK

LEMMA FlagsInductive ==
  ASSUME TypeOK, [Next]_vars
  PROVE  FlagsOK'
<1>0. FlagsOK
  BY TypeSplit
<1>1. CASE \E d \in Docs : DocSync(d) \/ BridgeVisit(d)
  BY <1>0, <1>1 DEF FlagsOK, DocSync, BridgeVisit, ensureBackupImport, workerVars, envVars
<1>2. CASE \E p \in Paths : Land(p)
  BY <1>0, <1>2 DEF FlagsOK, Land, workerVars
<1>3. CASE \E n \in Names : CacheSync(n) \/ DeleteImport(n) \/ StartImport(n)
  <2>1. CASE \E n \in Names : CacheSync(n)
    BY <1>0, <2>1 DEF FlagsOK, CacheSync, workerVars, envVars
  <2>2. CASE \E n \in Names : DeleteImport(n)
    BY <1>0, <2>2 DEF FlagsOK, DeleteImport, envVars
  <2>3. ASSUME NEW n \in Names, StartImport(n) PROVE FlagsOK'
    <3>1. UNCHANGED <<peered, pending>> /\ (fresh' = (n \in synced) \/ UNCHANGED fresh)
      BY <2>3 DEF StartImport, workerVars, envVars
    <3>2. (n \in synced) \in BOOLEAN
      OBVIOUS
    <3>3. peered' \in BOOLEAN /\ pending' \in BOOLEAN
      BY <1>0, <3>1 DEF FlagsOK
    <3>4. fresh' \in BOOLEAN
      BY <1>0, <3>1, <3>2, Zenon DEF FlagsOK
    <3>5. QED BY <3>3, <3>4 DEF FlagsOK
  <2>4. QED BY <1>3, <2>1, <2>2, <2>3
<1>4. CASE PeatRestart \/ PeerOutOfBand \/ Restart \/ BridgePoll
  BY <1>0, <1>4 DEF FlagsOK, PeatRestart, PeerOutOfBand, Restart, BridgePoll, Reversed, GoIdle, workerVars, envVars
<1>5. CASE FetchManifest
  BY <1>0, <1>5 DEF FlagsOK, FetchManifest, GoWrite, envVars
<1>6. CASE StatDest
  BY <1>0, <1>6 DEF FlagsOK, StatDest, PassFails, GoWrite, envVars
<1>7. CASE Locate
  BY <1>0, <1>7 DEF FlagsOK, Locate, PassFails, GoWrite, NotLanded, envVars
<1>8. CASE Verify
  BY <1>0, <1>8 DEF FlagsOK, Verify, PassFails, GoWrite, NotLanded, envVars
<1>9. CASE Put
  BY <1>0, <1>9 DEF FlagsOK, Put, PassFails, GoWrite, envVars
<1>10. CASE PassReturns \/ WriteStatus
  BY <1>0, <1>10 DEF FlagsOK, PassReturns, WriteStatus, GoWrite, GoIdle, envVars
<1>11. CASE UNCHANGED vars
  BY <1>0, <1>11 DEF FlagsOK, vars, workerVars, envVars
<1>12. QED BY <1>1, <1>2, <1>3, <1>4, <1>5, <1>6, <1>7, <1>8, <1>9, <1>10, <1>11
           DEF Next, Mesh, BridgeStep, WorkerStep

LEMMA BridgeInductive ==
  ASSUME TypeOK, [Next]_vars
  PROVE  BridgeOK'
<1>0. BridgeOK /\ docs \in [Docs -> Nat]
  BY TypeSplit DEF EnvOK
<1>1. CASE \E d \in Docs : DocSync(d)
  BY <1>0, <1>1 DEF BridgeOK, DocSync
<1>2. CASE \E d \in Docs : BridgeVisit(d)
  BY <1>0, <1>2 DEF BridgeOK, BridgeVisit, envVars
<1>3. CASE BridgePoll \/ Restart
  BY <1>0, <1>3 DEF BridgeOK, BridgePoll, Restart, envVars
<1>4. CASE UNCHANGED <<docs, bridge>>
  BY <1>0, <1>4 DEF BridgeOK
<1>5. CASE \E n \in Names : CacheSync(n) \/ DeleteImport(n) \/ StartImport(n)
  BY <1>4, <1>5 DEF CacheSync, DeleteImport, StartImport, envVars
<1>6. CASE PeatRestart \/ PeerOutOfBand \/ WorkerStep \/ (\E p \in Paths : Land(p)) \/ UNCHANGED vars
  BY <1>4, <1>6 DEF PeatRestart, PeerOutOfBand, Land, WorkerStep, FetchManifest, StatDest, Locate, Verify, Put,
                    PassReturns, WriteStatus, vars, envVars
<1>7. QED BY <1>1, <1>2, <1>3, <1>5, <1>6 DEF Next, Mesh, BridgeStep

\* A write keeps the objects typed.
LEMMA WriteOK ==
  ASSUME ApiOK, NEW n \in Names, NEW o \in Objects, Write(n, o)
  PROVE  /\ bi' \in [Names -> Objects] /\ synced' \subseteq Names
         /\ bi'[n] = o /\ \A x \in Names : x # n => bi'[x] = bi[x]
BY DEF ApiOK, Write

LEMMA ApiInductive ==
  ASSUME TypeInv, [Next]_vars
  PROVE  ApiOK'
<1>0. ApiOK /\ WorkerOK /\ FreshOK
  BY TypeSplit DEF TypeInv
<1>1. ASSUME NEW d \in Docs, BridgeVisit(d) PROVE ApiOK'
  <2>1. UNCHANGED <<cache, queue>>
    BY <1>1 DEF BridgeVisit
  <2>2. CASE UNCHANGED <<bi, synced>>
    BY <1>0, <2>1, <2>2 DEF ApiOK
  <2>3. CASE ensureBackupImport(d) /\ ~UNCHANGED <<bi, synced>>
    <3>1. PICK o : Write(importName(d), o) /\ o \in Objects
      <4> DEFINE old == cache[importName(d)]
      <4>1. importName(d) \in Names /\ old \in Objects
        BY <1>0, NameFacts DEF ApiOK
      <4>2. (IF Exists(old) THEN [old EXCEPT !.doc = d] ELSE [doc |-> d, phase |-> "None"])
              \in Objects
        BY <4>1, ObjectFacts
      <4>3. QED BY <2>3, <4>2 DEF ensureBackupImport
    <3>2. QED BY <1>0, <2>1, <3>1, WriteOK, NameFacts DEF ApiOK
  <2>4. QED BY <1>1, <2>2, <2>3 DEF BridgeVisit
<1>2. ASSUME NEW n \in Names, CacheSync(n) PROVE ApiOK'
  BY <1>0, <1>2 DEF ApiOK, CacheSync
<1>3. ASSUME NEW n \in Names, DeleteImport(n) PROVE ApiOK'
  BY <1>0, <1>3, WriteOK, ObjectFacts DEF ApiOK, DeleteImport
<1>4. ASSUME NEW n \in Names, StartImport(n) PROVE ApiOK'
  BY <1>0, <1>4 DEF ApiOK, StartImport, apiVars
<1>5. CASE Restart
  BY <1>0, <1>5 DEF ApiOK, Restart
<1>6. CASE WriteStatus
  <2>1. cur \in Names /\ queue' \subseteq Names /\ UNCHANGED cache
    BY <1>0, <1>6 DEF WorkerOK, ApiOK, WriteStatus
  <2>2. CASE UNCHANGED <<bi, synced>>
    BY <1>0, <2>1, <2>2 DEF ApiOK
  <2>3. CASE fresh /\ Write(cur, [bi[cur] EXCEPT !.phase = my.phase])
    <3>1. my.phase \in Phases /\ Exists(bi[cur]) /\ bi[cur] \in Objects
      BY <1>0, <1>6, <2>1, <2>3, ObjectFacts DEF ApiOK, FreshOK, WorkerOK, WriteStatus
    <3>2. QED BY <1>0, <2>1, <2>3, <3>1, WriteOK, ObjectFacts DEF ApiOK
  <2>4. QED BY <1>6, <2>2, <2>3 DEF WriteStatus
<1>7. CASE UNCHANGED <<apiVars, queue>>
  BY <1>0, <1>7 DEF ApiOK, apiVars
<1>8. CASE \/ PeatRestart \/ PeerOutOfBand \/ BridgePoll \/ (\E p \in Paths : Land(p)) \/ UNCHANGED vars
           \/ \E d \in Docs : DocSync(d)
  BY <1>7, <1>8 DEF PeatRestart, PeerOutOfBand, BridgePoll, Land, DocSync, vars
<1>9. CASE FetchManifest \/ StatDest \/ Locate \/ Verify \/ Put \/ PassReturns
  BY <1>7, <1>9 DEF FetchManifest, StatDest, Locate, Verify, Put, PassReturns
<1>10. QED BY <1>1, <1>2, <1>3, <1>4, <1>5, <1>6, <1>8, <1>9 DEF Next, Mesh, BridgeStep, WorkerStep

\* The three ways in which a pass step moves the worker.
LEMMA GoIdleOK ==
  ASSUME GoIdle
  PROVE  WorkerOK' /\ PassOK' /\ InboxOK' /\ fresh' = FALSE
BY ObjectFacts DEF GoIdle, WorkerOK, PassOK, InboxOK, Passing

LEMMA GoWriteOK ==
  ASSUME TypeOK, pc # "idle", NEW p \in Phases, NEW how \in {"wait", "final"}, GoWrite(p, how)
  PROVE  /\ WorkerOK' /\ PassOK' /\ InboxOK'
         /\ UNCHANGED <<cur, fresh>> /\ my'.doc = my.doc /\ my'.phase = p
<1>1. my \in Objects /\ Exists(my) /\ cur \in Names
  BY TypeSplit, NameFacts DEF WorkerOK
<1>2. my' \in Objects /\ Exists(my') /\ my'.doc = my.doc /\ my'.phase = p
  BY <1>1, ObjectFacts DEF GoWrite
<1>3. WorkerOK'
  BY <1>1, <1>2, NameFacts DEF GoWrite, WorkerOK
<1>4. PassOK' /\ InboxOK'
  BY DEF GoWrite, PassOK, InboxOK, Passing
<1>5. QED BY <1>2, <1>3, <1>4 DEF GoWrite

LEMMA PassFailsOK ==
  ASSUME TypeOK, pc # "idle", PassFails
  PROVE  /\ WorkerOK' /\ PassOK' /\ InboxOK'
         /\ UNCHANGED <<cur, fresh>> /\ my'.doc = my.doc /\ my'.phase = my.phase
<1>1. my.phase \in Phases
  BY TypeSplit, ObjectFacts DEF WorkerOK
<1>2. QED BY <1>1, GoWriteOK DEF PassFails

LEMMA NotLandedOK ==
  ASSUME TypeOK, pc \in Passing, NEW i, i = Nil \/ i \subseteq Paths, NotLanded(i)
  PROVE  /\ WorkerOK' /\ PassOK' /\ InboxOK'
         /\ UNCHANGED <<cur, fresh>> /\ my' = my
<1>1. WorkerOK /\ PassOK
  BY TypeSplit
<1>2. WorkerOK'
  BY <1>1 DEF NotLanded, WorkerOK, Passing
<1>3. PassOK'
  BY <1>1 DEF NotLanded, PassOK, Passing
<1>4. InboxOK'
  BY DEF NotLanded, InboxOK
<1>5. QED BY <1>2, <1>3, <1>4 DEF NotLanded

\* What every step of the worker on a request keeps.
WorkerKeeps ==
  /\ WorkerOK' /\ PassOK' /\ InboxOK'
  /\ UNCHANGED <<cur, fresh>> /\ my'.doc = my.doc

LEMMA FetchOK ==
  ASSUME TypeOK, FetchManifest
  PROVE  WorkerKeeps
<1>0. EnvOK /\ WorkerOK /\ PassOK /\ InboxOK /\ pc = "fetch"
  BY TypeSplit DEF FetchManifest
<1>1. my \in Objects /\ Exists(my) /\ cur \in Names /\ my.phase \in Phases /\ my.doc \in Docs
  BY <1>0, ObjectFacts, NameFacts DEF WorkerOK
<1> DEFINE v == docs[my.doc]
           m == Emitted[my.doc][v]
<1>2. ASSUME NEW p \in Phases, NEW how \in {"wait", "final"}, GoWrite(p, how)
      PROVE  WorkerKeeps
  BY <1>0, <1>2, GoWriteOK DEF WorkerKeeps
<1>3. ASSUME v > 0, my' = [my EXCEPT !.phase = "Importing"], pc' = "next", man' = m,
             todo' = m.Files, UNCHANGED <<cur, fresh, pending, ent, src, idx>>
      PROVE  WorkerKeeps
  <2>1. my' \in Objects /\ Exists(my') /\ my'.doc = my.doc
    BY <1>1, <1>3, ObjectFacts DEF Phases
  <2>2. m \in Manifests /\ m # Nil
    BY <1>0, <1>1, <1>3, ManifestFacts DEF EnvOK
  <2>3. ent' = Nil /\ src' \in Paths \cup {Nil} /\ (idx' = Nil \/ idx' \subseteq Paths)
    BY <1>0, <1>3 DEF PassOK, InboxOK
  <2>4. WorkerOK'
    BY <1>1, <1>3, <2>1, NameFacts DEF WorkerOK
  <2>5. PassOK'
    BY <1>3, <2>2, <2>3 DEF PassOK
  <2>6. InboxOK'
    BY <1>3, <2>3 DEF InboxOK
  <2>7. QED BY <1>3, <2>1, <2>4, <2>5, <2>6 DEF WorkerKeeps
<1>4. "Pending" \in Phases /\ "Failed" \in Phases /\ "wait" \in {"wait", "final"}
      /\ "final" \in {"wait", "final"}
  BY DEF Phases
<1>5. QED BY <1>1, <1>2, <1>3, <1>4 DEF FetchManifest

LEMMA StatOK ==
  ASSUME TypeOK, StatDest
  PROVE  WorkerKeeps
<1>0. WorkerOK /\ PassOK /\ InboxOK /\ pc = "next" /\ UNCHANGED inbox
  BY TypeSplit DEF StatDest, envVars
<1>1. PICK e \in NextEntries :
        \/ /\ todo' = todo \ {e}
           /\ UNCHANGED <<pc, cur, my, fresh, man, pending, ent, src, idx>>
        \/ /\ ent' = e /\ pc' = "locate"
           /\ UNCHANGED <<cur, my, fresh, man, todo, pending, src, idx>>
        \/ PassFails
  BY DEF StatDest
<1>2. e \in todo /\ e # Nil
  <2>1. e \in todo
    BY DEF NextEntries, DataLeft
  <2>2. QED BY <1>0, <2>1, ManifestFacts DEF PassOK
<1>3. CASE PassFails
  BY <1>0, <1>3, PassFailsOK DEF WorkerKeeps
<1>4. CASE /\ todo' = todo \ {e}
           /\ UNCHANGED <<pc, cur, my, fresh, man, pending, ent, src, idx>>
  BY <1>0, <1>4 DEF WorkerKeeps, WorkerOK, PassOK, InboxOK, Passing
<1>5. CASE /\ ent' = e /\ pc' = "locate"
           /\ UNCHANGED <<cur, my, fresh, man, todo, pending, src, idx>>
  BY <1>0, <1>2, <1>5 DEF WorkerKeeps, WorkerOK, PassOK, InboxOK, Passing
<1>6. QED BY <1>1, <1>3, <1>4, <1>5

LEMMA LocateOK ==
  ASSUME TypeOK, Locate
  PROVE  WorkerKeeps
<1>0. WorkerOK /\ PassOK /\ InboxOK /\ pc = "locate" /\ UNCHANGED inbox
  BY TypeSplit DEF Locate, envVars
<1> DEFINE index == IF idx = Nil THEN {p \in Paths : FileExists(p)} ELSE idx
<1>1. index \subseteq Paths
  BY <1>0 DEF InboxOK
<1>2. ASSUME NEW p, FileExists(p), NEW i, i = Nil \/ i \subseteq Paths,
             src' = p, idx' = i, pc' = "verify",
             UNCHANGED <<cur, my, fresh, man, todo, pending, ent>>
      PROVE  WorkerKeeps
  <2>1. p \in Paths /\ inbox[p] > 0 /\ p # Nil
    BY <1>2, NameFacts DEF FileExists
  <2>2. WorkerOK' /\ PassOK'
    BY <1>0, <1>2 DEF WorkerOK, PassOK, Passing
  <2>3. InboxOK'
    BY <1>0, <1>2, <2>1 DEF InboxOK
  <2>4. QED BY <1>2, <2>2, <2>3 DEF WorkerKeeps
<1>3. ASSUME FileExists(Primary(ent)), src' = Primary(ent), idx' = idx, pc' = "verify",
             UNCHANGED <<cur, my, fresh, man, todo, pending, ent>>
      PROVE  WorkerKeeps
  BY <1>0, <1>2, <1>3 DEF InboxOK
<1>4. ASSUME NEW p \in Candidates(index, ent), src' = p, idx' = index, pc' = "verify",
             UNCHANGED <<cur, my, fresh, man, todo, pending, ent>>
      PROVE  WorkerKeeps
  <2>1. FileExists(p)
    BY <1>4 DEF Candidates, Matches
  <2>2. QED BY <1>1, <1>2, <1>4, <2>1
<1>5. ASSUME NotLanded(index) PROVE WorkerKeeps
  BY <1>0, <1>1, <1>5, NotLandedOK DEF WorkerKeeps, Passing
<1>6. ASSUME PassFails PROVE WorkerKeeps
  BY <1>0, <1>6, PassFailsOK DEF WorkerKeeps
<1>7. QED BY <1>3, <1>4, <1>5, <1>6 DEF Locate

LEMMA VerifyOK ==
  ASSUME TypeOK, Verify
  PROVE  WorkerKeeps
<1>0. WorkerOK /\ PassOK /\ InboxOK /\ pc = "verify" /\ UNCHANGED inbox /\ my.phase \in Phases
  BY TypeSplit, ObjectFacts DEF Verify, envVars, WorkerOK
<1>1. CASE NotLanded(idx)
  BY <1>0, <1>1, NotLandedOK DEF WorkerKeeps, Passing, InboxOK
<1>2. CASE GoWrite(my.phase, "wait")
  BY <1>0, <1>2, GoWriteOK DEF WorkerKeeps
<1>3. CASE PassFails
  BY <1>0, <1>3, PassFailsOK DEF WorkerKeeps
<1>4. CASE pc' = "put" /\ UNCHANGED <<cur, my, fresh, man, todo, pending, ent, src, idx>>
  BY <1>0, <1>4 DEF WorkerKeeps, WorkerOK, PassOK, InboxOK, Passing
<1>5. QED BY <1>1, <1>2, <1>3, <1>4 DEF Verify

LEMMA PutOK ==
  ASSUME TypeOK, Put
  PROVE  WorkerKeeps
<1>0. WorkerOK /\ PassOK /\ InboxOK /\ pc = "put" /\ my.phase \in Phases
  BY TypeSplit, ObjectFacts DEF Put, WorkerOK
<1>1. CASE GoWrite(my.phase, "wait")
  BY <1>0, <1>1, GoWriteOK DEF WorkerKeeps
<1>2. CASE PassFails
  BY <1>0, <1>2, PassFailsOK DEF WorkerKeeps
<1>3. CASE /\ todo' = todo \ {ent}
           /\ pc' = "next" /\ ent' = Nil /\ src' = Nil
           /\ UNCHANGED <<cur, my, fresh, man, pending, idx>>
  BY <1>0, <1>3 DEF WorkerKeeps, WorkerOK, PassOK, InboxOK, Passing
<1>4. QED BY <1>1, <1>2, <1>3 DEF Put

LEMMA ReturnsOK ==
  ASSUME TypeOK, PassReturns
  PROVE  WorkerKeeps
<1>1. pc = "next" /\ "Importing" \in Phases /\ "Imported" \in Phases
  BY DEF PassReturns, Phases
<1>2. QED BY <1>1, GoWriteOK DEF PassReturns, WorkerKeeps

\* A step of the request at hand before its status is written.
PassStep == FetchManifest \/ StatDest \/ Locate \/ Verify \/ Put \/ PassReturns

LEMMA PassStepKeeps ==
  ASSUME TypeOK, PassStep
  PROVE  WorkerKeeps /\ UNCHANGED <<apiVars, queue, bridge>>
<1>1. WorkerKeeps
  BY FetchOK, StatOK, LocateOK, VerifyOK, PutOK, ReturnsOK DEF PassStep
<1>2. UNCHANGED <<apiVars, queue, bridge>>
  BY DEF PassStep, FetchManifest, StatDest, Locate, Verify, Put, PassReturns
<1>3. QED BY <1>1, <1>2

LEMMA WorkerInductive ==
  ASSUME TypeOK, [Next]_vars
  PROVE  WorkerOK' /\ PassOK' /\ InboxOK'
<1>0. EnvOK /\ ApiOK /\ WorkerOK /\ PassOK /\ InboxOK
  BY TypeSplit
<1>1. CASE UNCHANGED <<inbox, pc, cur, my, man, todo, ent, src, idx>>
  BY <1>0, <1>1 DEF WorkerOK, PassOK, InboxOK
<1>2. CASE \E d \in Docs : DocSync(d) \/ BridgeVisit(d)
  BY <1>1, <1>2 DEF DocSync, BridgeVisit, workerVars, envVars
<1>3. CASE \E n \in Names : CacheSync(n) \/ DeleteImport(n)
  BY <1>1, <1>3 DEF CacheSync, DeleteImport, workerVars, envVars
<1>4. CASE PeatRestart \/ PeerOutOfBand \/ BridgePoll \/ UNCHANGED vars
  BY <1>1, <1>4 DEF PeatRestart, PeerOutOfBand, BridgePoll, vars, workerVars, envVars
<1>5. ASSUME NEW p \in Paths, Land(p) PROVE WorkerOK' /\ PassOK' /\ InboxOK'
  <2>1. UNCHANGED <<pc, cur, my, man, todo, ent, src, idx>>
    BY <1>5 DEF Land, workerVars
  <2>2. \A q \in Paths : inbox[q] > 0 => inbox'[q] > 0
    BY <1>0, <1>5 DEF Land, EnvOK
  <2>3. WorkerOK' /\ PassOK'
    BY <1>0, <2>1 DEF WorkerOK, PassOK
  <2>4. InboxOK'
    BY <1>0, <2>1, <2>2 DEF InboxOK
  <2>5. QED BY <2>3, <2>4
<1>6. CASE Restart \/ WriteStatus
  BY <1>6, GoIdleOK DEF Restart, WriteStatus
<1>7. ASSUME NEW n \in Names, StartImport(n) PROVE WorkerOK' /\ PassOK' /\ InboxOK'
  <2>1. UNCHANGED <<inbox, man, todo, ent, src, idx>> /\ pc = "idle"
    BY <1>7 DEF StartImport, workerVars, envVars
  <2>2. CASE Exists(cache[n]) /\ pc' = "fetch" /\ cur' = n /\ my' = cache[n]
    BY <1>0, <2>1, <2>2, NameFacts DEF WorkerOK, PassOK, InboxOK, ApiOK, Passing
  <2>3. CASE UNCHANGED workerVars
    BY <1>1, <2>1, <2>3 DEF workerVars
  <2>4. QED BY <1>7, <2>2, <2>3 DEF StartImport
<1>8. CASE PassStep
  BY <1>8, PassStepKeeps DEF WorkerKeeps
<1>9. QED BY <1>2, <1>3, <1>4, <1>5, <1>6, <1>7, <1>8 DEF Next, Mesh, BridgeStep, WorkerStep, PassStep

LEMMA SyncedInductive ==
  ASSUME TypeInv, [Next]_vars
  PROVE  SyncedOK'
<1>0. ApiOK /\ SyncedOK
  BY TypeSplit DEF TypeInv
<1>1. CASE UNCHANGED apiVars
  BY <1>0, <1>1 DEF SyncedOK, apiVars
<1>2. ASSUME NEW n, NEW o, Write(n, o), UNCHANGED cache PROVE SyncedOK'
  <2>1. synced' \subseteq synced /\ (n \in synced' => o = bi[n])
    BY <1>2 DEF Write
  <2>2. \A x \in synced' : bi'[x] = bi[x]
    BY <1>0, <1>2, <2>1 DEF Write, ApiOK
  <2>3. QED BY <1>0, <1>2, <2>1, <2>2 DEF SyncedOK
<1>3. CASE \E d \in Docs : BridgeVisit(d)
  BY <1>0, <1>2, <1>3 DEF BridgeVisit, ensureBackupImport, SyncedOK
<1>4. ASSUME NEW n \in Names, CacheSync(n) PROVE SyncedOK'
  BY <1>0, <1>4 DEF CacheSync, SyncedOK, ApiOK
<1>5. CASE \E n \in Names : DeleteImport(n)
  BY <1>2, <1>5 DEF DeleteImport
<1>6. CASE Restart
  BY <1>6 DEF Restart, SyncedOK
<1>7. CASE WriteStatus
  BY <1>0, <1>2, <1>7 DEF WriteStatus, SyncedOK
<1>8. CASE PassStep
  BY <1>1, <1>8, PassStepKeeps DEF TypeInv
<1>9. CASE \/ PeatRestart \/ PeerOutOfBand \/ BridgePoll \/ UNCHANGED vars \/ (\E p \in Paths : Land(p))
           \/ (\E d \in Docs : DocSync(d)) \/ (\E n \in Names : StartImport(n))
  BY <1>1, <1>9 DEF PeatRestart, PeerOutOfBand, BridgePoll, vars, Land, DocSync, StartImport
<1>10. QED BY <1>3, <1>4, <1>5, <1>6, <1>7, <1>8, <1>9 DEF Next, Mesh, BridgeStep, WorkerStep, PassStep

LEMMA FreshInductive ==
  ASSUME TypeInv, [Next]_vars
  PROVE  FreshOK'
<1>0. ApiOK /\ WorkerOK /\ FlagsOK /\ FreshOK /\ SyncedOK /\ TypeOK
  BY TypeSplit DEF TypeInv
<1>1. CASE UNCHANGED <<bi, cur, fresh>> /\ my'.doc = my.doc
  BY <1>0, <1>1 DEF FreshOK
<1>2. CASE fresh' = FALSE
  BY <1>2 DEF FreshOK
<1>3. ASSUME NEW n \in Names, NEW o, Write(n, o), fresh' = (fresh /\ cur # n), UNCHANGED <<cur, my>>
      PROVE  FreshOK'
  <2>1. SUFFICES ASSUME fresh' PROVE cur \in Names /\ Exists(bi'[cur]) /\ bi'[cur].doc = my.doc
    BY <1>3, Zenon DEF FreshOK
  <2>2. fresh /\ cur # n
    BY <1>3, <2>1, Zenon
  <2>3. cur \in Names /\ bi'[cur] = bi[cur]
    BY <1>0, <1>3, <2>2 DEF FreshOK, Write, ApiOK
  <2>4. QED BY <1>0, <2>2, <2>3 DEF FreshOK
<1>4. ASSUME NEW d \in Docs, BridgeVisit(d) PROVE FreshOK'
  <2>1. UNCHANGED <<cur, my>>
    BY <1>4 DEF BridgeVisit
  <2>2. CASE UNCHANGED <<bi, fresh>>
    BY <1>1, <2>1, <2>2
  <2>3. CASE ensureBackupImport(d) /\ ~UNCHANGED <<bi, fresh>>
    <3>1. PICK o : Write(importName(d), o) /\ fresh' = (fresh /\ cur # importName(d))
      BY <2>3, Zenon DEF ensureBackupImport
    <3>2. QED BY <1>3, <2>1, <3>1, NameFacts
  <2>4. QED BY <1>4, <2>2, <2>3 DEF BridgeVisit
<1>5. CASE \E n \in Names : DeleteImport(n)
  BY <1>3, <1>5 DEF DeleteImport
<1>6. ASSUME NEW n \in Names, StartImport(n) PROVE FreshOK'
  <2>1. UNCHANGED bi
    BY <1>6 DEF StartImport, apiVars
  <2>2. CASE UNCHANGED workerVars
    BY <1>1, <2>1, <2>2 DEF workerVars
  <2>3. CASE Exists(cache[n]) /\ cur' = n /\ my' = cache[n] /\ fresh' = (n \in synced)
    <3>1. n \in synced => Exists(bi[n]) /\ bi[n].doc = my'.doc
      BY <1>0, <2>3 DEF SyncedOK
    <3>2. QED BY <2>1, <2>3, <3>1 DEF FreshOK
  <2>4. QED BY <1>6, <2>2, <2>3 DEF StartImport
<1>7. CASE Restart \/ WriteStatus
  BY <1>2, <1>7, GoIdleOK DEF Restart, WriteStatus
<1>8. CASE PassStep
  BY <1>0, <1>1, <1>8, PassStepKeeps DEF WorkerKeeps, apiVars
<1>9. CASE \/ PeatRestart \/ PeerOutOfBand \/ BridgePoll \/ UNCHANGED vars \/ (\E p \in Paths : Land(p))
           \/ (\E d \in Docs : DocSync(d)) \/ (\E n \in Names : CacheSync(n))
  BY <1>1, <1>9 DEF PeatRestart, PeerOutOfBand, BridgePoll, vars, Land, DocSync, CacheSync, apiVars, workerVars
<1>10. QED BY <1>4, <1>5, <1>6, <1>7, <1>8, <1>9 DEF Next, Mesh, BridgeStep, WorkerStep, PassStep

LEMMA DestInductive ==
  ASSUME TypeOK, [Next]_vars
  PROVE  DestOK'
<1>0. DestOK
  BY TypeSplit
<1>1. CASE Put
  <2>1. EnvOK /\ PassOK /\ InboxOK /\ pc = "put"
    BY <1>1, TypeSplit DEF Put
  <2>2. InboxContent(src) \in Contents
    BY <2>1, ContentFacts DEF InboxContent, EnvOK, InboxOK
  <2>3. ent.Key \in Keys
    BY <2>1, ManifestFacts DEF PassOK
  <2>4. UNCHANGED dest \/ dest' = [dest EXCEPT ![ent.Key] = InboxContent(src)]
    BY <1>1 DEF Put
  <2>5. QED BY <1>0, <2>2, <2>3, <2>4 DEF DestOK
<1>2. CASE UNCHANGED dest
  BY <1>0, <1>2 DEF DestOK
<1>3. CASE \/ PeatRestart \/ PeerOutOfBand \/ BridgePoll \/ Restart \/ UNCHANGED vars
           \/ (\E p \in Paths : Land(p)) \/ (\E d \in Docs : DocSync(d) \/ BridgeVisit(d))
           \/ (\E n \in Names : CacheSync(n) \/ DeleteImport(n) \/ StartImport(n))
  BY <1>2, <1>3 DEF PeatRestart, PeerOutOfBand, BridgePoll, Restart, vars, Land, DocSync, BridgeVisit,
                    CacheSync, DeleteImport, StartImport
<1>4. CASE FetchManifest \/ StatDest \/ Locate \/ Verify \/ PassReturns \/ WriteStatus
  BY <1>2, <1>4 DEF FetchManifest, StatDest, Locate, Verify, PassReturns, WriteStatus
<1>5. QED BY <1>1, <1>3, <1>4 DEF Next, Mesh, BridgeStep, WorkerStep

LEMMA TypeInductive ==
  ASSUME TypeInv, [Next]_vars
  PROVE  TypeInv'
<1>0. TypeOK
  BY DEF TypeInv
<1>1. EnvOK' /\ FlagsOK' /\ BridgeOK' /\ DestOK' /\ WorkerOK' /\ PassOK' /\ InboxOK'
  BY <1>0, EnvInductive, FlagsInductive, BridgeInductive, DestInductive, WorkerInductive
<1>2. ApiOK' /\ FreshOK' /\ SyncedOK'
  BY ApiInductive, FreshInductive, SyncedInductive
<1>3. TypeOK'
  BY <1>1, <1>2
     DEF TypeOK, EnvOK, FlagsOK, ApiOK, BridgeOK, WorkerOK, PassOK, InboxOK, DestOK
<1>4. QED BY <1>2, <1>3 DEF TypeInv

LEMMA TypeInvHolds == Spec => []TypeInv
<1>1. Init => TypeInv
  BY TypeInit DEF TypeInv, Init, Idle, FreshOK, SyncedOK
<1>2. TypeInv /\ [Next]_vars => TypeInv'
  BY TypeInductive
<1>3. QED BY <1>1, <1>2, PTL DEF Spec

\* Every state of the destination role is well typed: a worker never works on
\* a BackupImport that does not exist, its entry is one of its manifest, and
\* no write brings a deleted BackupImport back.
THEOREM TypeCorrect == Spec => []TypeOK
<1>1. TypeInv => TypeOK
  BY DEF TypeInv
<1>2. QED BY <1>1, TypeInvHolds, PTL

-----------------------------------------------------------------------------
(* Only verified bytes are published. A file that verify has accepted is   *)
(* still that file when Put opens it, because it has the name and the      *)
(* content that an entry expects and peat leaves such a file alone.        *)

AcceptedOK ==
  /\ pc \in {"verify", "put"} => src.base = Basename(ent)
  /\ pc = "put" => InboxContent(src) = ContentOf(ent)

\* What the pass holds while it has an entry at hand.
LEMMA HandFacts ==
  ASSUME TypeOK, pc \in {"locate", "verify", "put"}
  PROVE  /\ man \in Manifests /\ man # Nil /\ todo \subseteq man.Files /\ todo \subseteq Entries
         /\ ent \in todo /\ ent \in Entries /\ ent.Key \in Keys
<1>1. PassOK
  BY TypeSplit
<1>2. man \in Manifests /\ man # Nil /\ todo \subseteq man.Files /\ ent \in todo
  BY <1>1 DEF PassOK, Passing
<1>3. QED BY <1>2, ManifestFacts

\* Only Land touches the inbox, and not the accepted file.
LEMMA AcceptedStays ==
  ASSUME LandedIsFinal, TypeOK, AcceptedOK, pc = "put", [Next]_vars
  PROVE  inbox'[src] = inbox[src]
<1>1. EnvOK /\ InboxOK /\ src \in Paths /\ inbox[src] > 0
  BY TypeSplit DEF InboxOK
<1>2. inbox[src] \in 1 .. Len(Arrivals[src]) /\ inbox[src] = Len(Arrivals[src])
  <2>1. inbox[src] \in 1 .. Len(Arrivals[src])
    BY <1>1, ContentFacts DEF EnvOK
  <2>2. ent \in Entries /\ src.base = Basename(ent) /\ Arrivals[src][inbox[src]] = ContentOf(ent)
    BY HandFacts DEF AcceptedOK, InboxContent
  <2>3. QED BY <1>1, <2>1, <2>2 DEF LandedIsFinal
<1>3. ASSUME NEW p \in Paths, Land(p) PROVE inbox'[src] = inbox[src]
  <2>1. p # src
    BY <1>1, <1>2, <1>3, ContentFacts DEF Land
  <2>2. QED BY <1>1, <1>3, <2>1 DEF Land, EnvOK
<1>4. CASE \E d \in Docs : DocSync(d)
  BY <1>4 DEF DocSync
<1>5. QED BY <1>3, <1>4, EnvStep

LEMMA AcceptedInductive ==
  ASSUME LandedIsFinal, TypeOK, AcceptedOK, [Next]_vars
  PROVE  AcceptedOK'
<1>1. CASE UNCHANGED <<pc, ent, src>>
  <2>1. pc = "put" => inbox'[src] = inbox[src]
    BY AcceptedStays
  <2>2. QED BY <1>1, <2>1 DEF AcceptedOK, InboxContent, ContentOf
<1>2. CASE pc' \notin {"verify", "put"}
  BY <1>2 DEF AcceptedOK
<1>3. CASE \/ PeatRestart \/ PeerOutOfBand \/ BridgePoll \/ UNCHANGED vars
           \/ (\E p \in Paths : Land(p)) \/ (\E d \in Docs : DocSync(d) \/ BridgeVisit(d))
           \/ (\E n \in Names : CacheSync(n) \/ DeleteImport(n))
  BY <1>1, <1>3 DEF PeatRestart, PeerOutOfBand, BridgePoll, vars, Land, DocSync, BridgeVisit,
                    CacheSync, DeleteImport, workerVars
<1>4. CASE \E n \in Names : StartImport(n)
  BY <1>2, <1>4 DEF StartImport, workerVars
<1>5. CASE Restart \/ WriteStatus
  BY <1>2, <1>5 DEF Restart, WriteStatus, GoIdle
<1>6. CASE FetchManifest
  BY <1>2, <1>6 DEF FetchManifest, GoWrite
<1>7. CASE StatDest
  BY <1>2, <1>7 DEF StatDest, PassFails, GoWrite
<1>8. CASE Locate
  <2>1. CASE pc' # "verify"
    BY <1>2, <1>8, <2>1 DEF Locate, PassFails, GoWrite, NotLanded
  <2>2. CASE pc' = "verify"
    <3>1. src'.base = Basename(ent) /\ ent' = ent
      BY <1>8, <2>2 DEF Locate, PassFails, GoWrite, NotLanded, Primary, Candidates
    <3>2. QED BY <2>2, <3>1 DEF AcceptedOK
  <2>3. QED BY <2>1, <2>2
<1>9. CASE Verify
  <2>1. CASE pc' # "put"
    BY <1>2, <1>9, <2>1 DEF Verify, PassFails, GoWrite, NotLanded
  <2>2. CASE pc' = "put"
    <3>1. /\ InboxContent(src) = ContentOf(ent) /\ UNCHANGED <<ent, src, inbox>>
          /\ pc = "verify"
      BY <1>9, <2>2 DEF Verify, PassFails, GoWrite, NotLanded, envVars
    <3>2. src.base = Basename(ent)
      BY <3>1 DEF AcceptedOK
    <3>3. QED BY <2>2, <3>1, <3>2 DEF AcceptedOK, InboxContent, ContentOf
  <2>3. QED BY <2>1, <2>2
<1>10. CASE Put
  BY <1>2, <1>10 DEF Put, PassFails, GoWrite
<1>11. CASE PassReturns
  BY <1>2, <1>11 DEF PassReturns, GoWrite
<1>12. QED BY <1>3, <1>4, <1>5, <1>6, <1>7, <1>8, <1>9, <1>10, <1>11 DEF Next, Mesh, BridgeStep, WorkerStep

\* The bucket changes by a Put of the entry at hand only, to its content.
LEMMA DestStep ==
  ASSUME TypeOK, AcceptedOK, [Next]_vars
  PROVE  \/ UNCHANGED dest
         \/ pc = "put" /\ Put /\ dest' = [dest EXCEPT ![ent.Key] = ContentOf(ent)]
<1>1. CASE Put
  BY <1>1 DEF Put, AcceptedOK
<1>2. CASE \/ PeatRestart \/ PeerOutOfBand \/ BridgePoll \/ Restart \/ UNCHANGED vars
           \/ (\E p \in Paths : Land(p)) \/ (\E d \in Docs : DocSync(d) \/ BridgeVisit(d))
           \/ (\E n \in Names : CacheSync(n) \/ DeleteImport(n) \/ StartImport(n))
  BY <1>2 DEF PeatRestart, PeerOutOfBand, BridgePoll, Restart, vars, Land, DocSync, BridgeVisit,
              CacheSync, DeleteImport, StartImport
<1>3. CASE FetchManifest \/ StatDest \/ Locate \/ Verify \/ PassReturns \/ WriteStatus
  BY <1>3 DEF FetchManifest, StatDest, Locate, Verify, PassReturns, WriteStatus
<1>4. QED BY <1>1, <1>2, <1>3 DEF Next, Mesh, BridgeStep, WorkerStep

LEMMA VerifiedInductive ==
  ASSUME TypeOK, AcceptedOK, VerifiedOnly, [Next]_vars
  PROVE  VerifiedOnly'
<1>1. CASE UNCHANGED dest
  BY <1>1 DEF VerifiedOnly
<1>2. CASE pc = "put" /\ dest' = [dest EXCEPT ![ent.Key] = ContentOf(ent)]
  <2>1. ent \in Entries /\ ent.Key \in Keys /\ dest \in [Keys -> Contents \cup {Nil}]
    BY <1>2, HandFacts, TypeSplit DEF DestOK
  <2>2. ASSUME NEW k \in Keys, dest'[k] # Nil
        PROVE  \E e \in Entries : e.Key = k /\ dest'[k] = ContentOf(e)
    <3>1. CASE k = ent.Key
      BY <1>2, <2>1, <3>1
    <3>2. CASE k # ent.Key
      BY <1>2, <2>1, <2>2, <3>2 DEF VerifiedOnly
    <3>3. QED BY <3>1, <3>2
  <2>3. QED BY <2>2 DEF VerifiedOnly, ContentOf
<1>3. QED BY <1>1, <1>2, DestStep

\* Whatever arrives partially or corrupted on the inbox, and wherever a pass
\* is cut off, the destination bucket holds under each key the bytes that a
\* manifest states for it, if peat leaves a file alone once it is what an
\* entry expects (importer.go:130-143).
THEOREM VerifiedOnlyCorrect ==
  ASSUME LandedIsFinal
  PROVE  Spec => []VerifiedOnly
<1> DEFINE Inv == TypeOK /\ AcceptedOK /\ VerifiedOnly
<1>1. Init => Inv
  BY TypeInit DEF Init, Idle, AcceptedOK, VerifiedOnly
<1>2. Inv /\ TypeOK' /\ [Next]_vars => Inv'
  BY AcceptedInductive, VerifiedInductive
<1>3. Spec => []Inv
  BY <1>1, <1>2, TypeCorrect, PTL DEF Spec
<1>4. QED BY <1>3, PTL

-----------------------------------------------------------------------------
(* Commit last, and Imported only when complete.                           *)

\* An entry of the pass that is finished, while nothing is pending, is in the
\* bucket; a discovery entry is at hand only when all the data is.
DoneOK ==
  pc \in Passing /\ ~pending => \A e \in man.Files \ todo : dest[e.Key] = ContentOf(e)

DeferredOK ==
  pc \in {"locate", "verify", "put"} /\ IsDiscovery(ent) =>
     ~pending /\ \A e \in todo : IsDiscovery(e)

\* The manifest of the pass is a committed one of the object's document.
CommittedOK == pc \in Passing => man \in CommittedManifests(my.doc)

\* The worker's copy says Imported only when the bucket has everything.
MyOK == my.phase = "Imported" => \E m \in CommittedManifests(my.doc) : HasAll(m)

NamesOK == \A n \in Names : Exists(bi[n]) => importName(bi[n].doc) = n

\* What is in the bucket under the key of an entry is the entry's content, and
\* it stays.
LEMMA DestIsEntry ==
  ASSUME Immutable, TypeOK, VerifiedOnly, NEW e \in Entries, dest[e.Key] # Nil
  PROVE  dest[e.Key] = ContentOf(e)
<1>1. PICK f \in Entries : f.Key = e.Key /\ dest[e.Key] = ContentOf(f)
  BY ManifestFacts DEF VerifiedOnly
<1>2. QED BY <1>1 DEF Immutable

LEMMA DestStays ==
  ASSUME Immutable, TypeOK, AcceptedOK, [Next]_vars,
         NEW e \in Entries, dest[e.Key] = ContentOf(e)
  PROVE  dest'[e.Key] = ContentOf(e)
<1>1. CASE UNCHANGED dest
  BY <1>1
<1>2. CASE pc = "put" /\ dest' = [dest EXCEPT ![ent.Key] = ContentOf(ent)]
  <2>1. ent \in Entries /\ e.Key \in Keys /\ dest \in [Keys -> Contents \cup {Nil}]
    BY <1>2, HandFacts, ManifestFacts, TypeSplit DEF DestOK
  <2>2. CASE e.Key = ent.Key
    BY <1>2, <2>1, <2>2 DEF Immutable
  <2>3. CASE e.Key # ent.Key
    BY <1>2, <2>1, <2>3
  <2>4. QED BY <2>2, <2>3
<1>3. QED BY <1>1, <1>2, DestStep

\* A committed manifest stays one, and what it has in the bucket stays there.
LEMMA CommittedStays ==
  ASSUME TypeOK, [Next]_vars, NEW d \in Docs
  PROVE  CommittedManifests(d) \subseteq CommittedManifests(d)'
<1>1. docs[d] \in Nat /\ docs'[d] \in Nat /\ docs[d] <= docs'[d]
  <2>1. EnvOK /\ EnvOK'
    BY TypeSplit, EnvInductive
  <2>2. CASE \E c \in Docs : DocSync(c)
    BY <2>1, <2>2 DEF DocSync, EnvOK
  <2>3. CASE UNCHANGED docs
    BY <2>1, <2>3 DEF EnvOK
  <2>4. QED BY <2>2, <2>3, EnvStep DEF Land
<1>2. 1 .. docs[d] \subseteq 1 .. docs'[d]
  BY <1>1
<1>3. QED BY <1>2 DEF CommittedManifests, Committed

LEMMA CommittedFacts ==
  ASSUME TypeOK, NEW d \in Docs, NEW m \in CommittedManifests(d)
  PROVE  m \in Manifests /\ m.Files \subseteq Entries
<1>1. EnvOK
  BY TypeSplit
<1>2. PICK v \in 1 .. docs[d] : m = Emitted[d][v]
  BY DEF CommittedManifests
<1>3. v \in 1 .. Len(Emitted[d])
  BY <1>1, ManifestFacts DEF EnvOK
<1>4. QED BY <1>2, <1>3, ManifestFacts

LEMMA HasAllStays ==
  ASSUME Immutable, TypeOK, AcceptedOK, [Next]_vars,
         NEW d \in Docs, NEW m \in CommittedManifests(d)
  PROVE  /\ m \in CommittedManifests(d)'
         /\ HasAll(m) => HasAll(m)'
         /\ HasData(m) => HasData(m)'
<1>1. m.Files \subseteq Entries
  BY CommittedFacts
<1>2. \A e \in m.Files : dest[e.Key] = ContentOf(e) => dest'[e.Key] = ContentOf(e)
  BY <1>1, DestStays
<1>3. m \in CommittedManifests(d)'
  BY CommittedStays
<1>4. QED BY <1>2, <1>3 DEF HasAll, HasData, ContentOf, IsDiscovery, Basename

\* A step leaves the worker's request alone, ends it, begins one, or is a step
\* of its pass.
LEMMA WorkerCases ==
  ASSUME [Next]_vars
  PROVE  \/ UNCHANGED <<pc, cur, my, man, todo, pending, ent, src>>
         \/ GoIdle
         \/ \E n \in Names : StartImport(n)
         \/ PassStep
<1>1. CASE \/ PeatRestart \/ PeerOutOfBand \/ BridgePoll \/ UNCHANGED vars
           \/ (\E p \in Paths : Land(p)) \/ (\E d \in Docs : DocSync(d) \/ BridgeVisit(d))
           \/ (\E n \in Names : CacheSync(n) \/ DeleteImport(n))
  BY <1>1 DEF PeatRestart, PeerOutOfBand, BridgePoll, vars, Land, DocSync, BridgeVisit,
              CacheSync, DeleteImport, workerVars
<1>2. CASE Restart \/ WriteStatus
  BY <1>2 DEF Restart, WriteStatus
<1>3. QED BY <1>1, <1>2 DEF Next, Mesh, BridgeStep, WorkerStep, PassStep

\* The next entry is a discovery entry only after all the data.
LEMMA NextDiscovery ==
  ASSUME NEW e \in NextEntries, IsDiscovery(e)
  PROVE  ~pending /\ \A f \in todo : IsDiscovery(f)
<1>1. DataLeft = {}
  BY DEF NextEntries, DataLeft
<1>2. ~pending
  BY <1>1 DEF NextEntries
<1>3. \A f \in todo : IsDiscovery(f)
  BY <1>1 DEF DataLeft
<1>4. QED BY <1>2, <1>3

LEMMA DeferredInductive ==
  ASSUME DeferredOK, [Next]_vars
  PROVE  DeferredOK'
<1>1. CASE UNCHANGED <<pc, todo, pending, ent>>
  BY <1>1 DEF DeferredOK, IsDiscovery, Basename
<1>2. CASE pc' \notin {"locate", "verify", "put"}
  BY <1>2 DEF DeferredOK
<1>3. CASE GoIdle \/ \E n \in Names : StartImport(n)
  <2>1. CASE GoIdle
    BY <1>2, <2>1 DEF GoIdle
  <2>2. CASE \E n \in Names : StartImport(n)
    BY <1>2, <2>2 DEF StartImport, workerVars
  <2>3. QED BY <1>3, <2>1, <2>2
<1>4. CASE FetchManifest
  BY <1>2, <1>4 DEF FetchManifest, GoWrite
<1>5. CASE StatDest
  <2>1. PICK e \in NextEntries : pc' \notin {"locate", "verify", "put"}
                               \/ (ent' = e /\ UNCHANGED <<todo, pending>>)
    BY <1>5 DEF StatDest, PassFails, GoWrite
  <2>2. CASE ent' = e /\ UNCHANGED <<todo, pending>>
    BY <2>2, NextDiscovery DEF DeferredOK, IsDiscovery, Basename
  <2>3. QED BY <1>2, <2>1, <2>2
<1>6. CASE Locate
  <2>1. pc = "locate" /\ (pc' \in {"next", "wait"} \/ UNCHANGED <<todo, pending, ent>>)
    BY <1>6 DEF Locate, PassFails, GoWrite, NotLanded
  <2>2. QED BY <1>2, <2>1 DEF DeferredOK, IsDiscovery, Basename
<1>7. CASE Verify
  <2>1. pc = "verify" /\ (pc' \in {"next", "wait"} \/ UNCHANGED <<todo, pending, ent>>)
    BY <1>7 DEF Verify, PassFails, GoWrite, NotLanded
  <2>2. QED BY <1>2, <2>1 DEF DeferredOK, IsDiscovery, Basename
<1>8. CASE Put \/ PassReturns
  BY <1>2, <1>8 DEF Put, PassReturns, PassFails, GoWrite
<1>9. QED BY <1>1, <1>3, <1>4, <1>5, <1>6, <1>7, <1>8, WorkerCases DEF PassStep

LEMMA CommittedInductive ==
  ASSUME TypeOK, CommittedOK, [Next]_vars
  PROVE  CommittedOK'
<1>0. EnvOK /\ WorkerOK /\ (pc # "idle" => my.doc \in Docs)
  BY TypeSplit, ObjectFacts DEF WorkerOK
<1>1. ASSUME pc \in Passing, man' = man, my'.doc = my.doc PROVE CommittedOK'
  <2>1. my.doc \in Docs /\ man \in CommittedManifests(my.doc)
    BY <1>0, <1>1 DEF CommittedOK, Passing
  <2>2. PICK d \in Docs : d = my.doc
    BY <2>1
  <2>3. man' \in CommittedManifests(d)'
    BY <1>1, <2>1, <2>2, CommittedStays
  <2>4. QED BY <1>1, <2>2, <2>3 DEF CommittedOK, CommittedManifests
<1>2. CASE pc' \notin Passing
  BY <1>2 DEF CommittedOK
<1>3. CASE UNCHANGED <<pc, my, man>>
  BY <1>1, <1>2, <1>3
<1>4. CASE GoIdle
  BY <1>2, <1>4 DEF GoIdle, Passing
<1>5. CASE \E n \in Names : StartImport(n)
  BY <1>2, <1>5 DEF StartImport, workerVars, Passing
<1>6. CASE FetchManifest
  <2>1. CASE pc' \in {"wait", "final"}
    BY <1>2, <2>1 DEF Passing
  <2>2. CASE pc' \notin {"wait", "final"}
    <3> DEFINE v == docs[my.doc]
    <3>1. /\ pc = "fetch" /\ v > 0 /\ Committed(Emitted[my.doc][v])
          /\ man' = Emitted[my.doc][v] /\ UNCHANGED docs
      BY <1>6, <2>2 DEF FetchManifest, GoWrite, envVars
    <3>2. v \in 1 .. docs'[my.doc] /\ my'.doc = my.doc
      BY <1>0, <1>6, <3>1, FetchOK DEF EnvOK, WorkerKeeps
    <3>3. man' \in CommittedManifests(my.doc)'
      BY <3>1, <3>2 DEF CommittedManifests, Committed
    <3>4. QED BY <3>2, <3>3 DEF CommittedOK, CommittedManifests
  <2>3. QED BY <2>1, <2>2
<1>7. CASE StatDest \/ Locate \/ Verify \/ Put \/ PassReturns
  <2>1. pc \in Passing /\ my'.doc = my.doc
    BY <1>7, PassStepKeeps DEF PassStep, WorkerKeeps, Passing, StatDest, Locate, Verify, Put,
                               PassReturns
  <2>2. CASE StatDest \/ Put \/ PassReturns
    <3>1. man' = man \/ pc' \notin Passing
      BY <2>2 DEF StatDest, Put, PassReturns, PassFails, GoWrite, Passing
    <3>2. QED BY <1>1, <1>2, <2>1, <3>1
  <2>3. CASE Locate \/ Verify
    <3>1. man' = man \/ pc' \notin Passing
      BY <2>3 DEF Locate, Verify, PassFails, GoWrite, NotLanded, Passing
    <3>2. QED BY <1>1, <1>2, <2>1, <3>1
  <2>4. QED BY <1>7, <2>2, <2>3
<1>8. QED BY <1>3, <1>4, <1>5, <1>6, <1>7, WorkerCases DEF PassStep

LEMMA DoneInductive ==
  ASSUME Immutable, TypeOK, AcceptedOK, VerifiedOnly, DoneOK, [Next]_vars
  PROVE  DoneOK'
<1>0. PassOK
  BY TypeSplit
<1>1. ASSUME pc \in Passing, UNCHANGED <<man, pending>>,
             NEW S \in SUBSET todo, todo' = todo \ S,
             \A e \in S : dest'[e.Key] = ContentOf(e)
      PROVE  DoneOK'
  <2>1. SUFFICES ASSUME ~pending, NEW e \in man.Files \ todo'
                 PROVE  dest'[e.Key] = ContentOf(e)
    BY <1>1 DEF DoneOK, ContentOf
  <2>2. e \in Entries
    BY <1>0, <1>1, ManifestFacts DEF PassOK
  <2>3. CASE e \in S
    BY <1>1, <2>3
  <2>4. CASE e \notin S
    <3>1. dest[e.Key] = ContentOf(e)
      BY <1>1, <2>1, <2>4 DEF DoneOK
    <3>2. QED BY <2>2, <3>1, DestStays
  <2>5. QED BY <2>3, <2>4
<1>2. CASE pc' \notin Passing \/ pending'
  BY <1>2 DEF DoneOK
<1>3. ASSUME pc \in Passing, UNCHANGED <<man, pending, todo>> PROVE DoneOK'
  <2>1. {} \in SUBSET todo /\ todo' = todo \ {}
    BY <1>3
  <2>2. QED BY <1>1, <1>3, <2>1
<1>4. CASE UNCHANGED <<pc, man, pending, todo>>
  BY <1>2, <1>3, <1>4
<1>5. CASE GoIdle
  BY <1>2, <1>5 DEF GoIdle, Passing
<1>6. CASE \E n \in Names : StartImport(n)
  BY <1>2, <1>6 DEF StartImport, workerVars, Passing
<1>7. CASE FetchManifest
  <2>1. pc' \notin Passing \/ todo' = man'.Files
    BY <1>7 DEF FetchManifest, GoWrite, Passing
  <2>2. QED BY <1>2, <2>1 DEF DoneOK
<1>8. CASE StatDest
  <2>1. PICK e \in NextEntries :
           \/ pc' \notin Passing
           \/ UNCHANGED <<man, pending, todo>>
           \/ SkipPresent(e) /\ todo' = todo \ {e} /\ UNCHANGED <<man, pending, dest>>
    BY <1>8 DEF StatDest, PassFails, GoWrite, Passing
  <2>2. pc \in Passing /\ e \in todo
    BY <1>8 DEF StatDest, Passing, NextEntries, DataLeft
  <2>3. CASE SkipPresent(e) /\ todo' = todo \ {e} /\ UNCHANGED <<man, pending, dest>>
    <3>1. e \in Entries
      BY <1>0, <2>2, ManifestFacts DEF PassOK
    <3>2. dest'[e.Key] = ContentOf(e)
      BY <2>3, <3>1, DestIsEntry DEF SkipPresent
    <3>3. {e} \in SUBSET todo
      BY <2>2
    <3>4. QED BY <1>1, <2>2, <2>3, <3>2, <3>3
  <2>4. QED BY <1>2, <1>3, <2>1, <2>2, <2>3
<1>9. CASE Locate
  BY <1>2, <1>3, <1>9 DEF Locate, PassFails, GoWrite, NotLanded, Passing
<1>10. CASE Verify
  BY <1>2, <1>3, <1>10 DEF Verify, PassFails, GoWrite, NotLanded, Passing
<1>11. CASE Put
  <2>1. \/ pc' \notin Passing
        \/ /\ todo' = todo \ {ent} /\ UNCHANGED <<man, pending>>
           /\ dest' = [dest EXCEPT ![ent.Key] = InboxContent(src)]
    BY <1>11 DEF Put, PassFails, GoWrite, Passing
  <2>2. /\ pc = "put" /\ ent \in todo /\ ent.Key \in Keys
        /\ InboxContent(src) = ContentOf(ent) /\ dest \in [Keys -> Contents \cup {Nil}]
    BY <1>11, HandFacts, TypeSplit DEF Put, AcceptedOK, DestOK
  <2>3. CASE /\ todo' = todo \ {ent} /\ UNCHANGED <<man, pending>>
             /\ dest' = [dest EXCEPT ![ent.Key] = InboxContent(src)]
    <3>1. \A e \in {ent} : dest'[e.Key] = ContentOf(e)
      BY <2>2, <2>3
    <3>2. {ent} \in SUBSET todo /\ pc \in Passing
      BY <2>2 DEF Passing
    <3>3. QED BY <1>1, <2>3, <3>1, <3>2
  <2>4. QED BY <1>2, <2>1, <2>3
<1>12. CASE PassReturns
  BY <1>2, <1>12 DEF PassReturns, GoWrite, Passing
<1>13. QED BY <1>4, <1>5, <1>6, <1>7, <1>8, <1>9, <1>10, <1>11, <1>12, WorkerCases DEF PassStep

\* A step that makes the worker's copy Imported is the return of a complete
\* pass.
LEMMA ImportedReturn ==
  ASSUME TypeOK, PassStep, my'.phase = "Imported", my.phase # "Imported"
  PROVE  PassReturns /\ pc = "next" /\ ~pending /\ NextEntries = {}
<1>0. pc # "idle" /\ my \in Objects /\ Exists(my) /\ my.phase \in Phases
  BY TypeSplit, ObjectFacts
     DEF WorkerOK, PassStep, FetchManifest, StatDest, Locate, Verify, Put, PassReturns
<1>1. ASSUME NEW p \in Phases, NEW how \in {"wait", "final"}, GoWrite(p, how)
      PROVE  my'.phase = p
  BY <1>0, <1>1, GoWriteOK
<1>2. ~PassFails /\ ~GoWrite(my.phase, "wait")
  BY <1>0, <1>1 DEF PassFails
<1>3. ASSUME FetchManifest PROVE FALSE
  <2>1. my' # [my EXCEPT !.phase = "Importing"]
    BY <1>0, ObjectFacts DEF Phases
  <2>2. ~GoWrite("Pending", "wait") /\ ~GoWrite("Failed", "final")
    BY <1>1 DEF Phases
  <2>3. QED BY <1>2, <1>3, <2>1, <2>2 DEF FetchManifest
<1>4. ASSUME StatDest \/ Put PROVE FALSE
  BY <1>2, <1>4 DEF StatDest, Put
<1>5. ASSUME Locate \/ Verify PROVE FALSE
  BY <1>2, <1>5 DEF Locate, Verify, NotLanded
<1>6. PassReturns
  BY <1>3, <1>4, <1>5 DEF PassStep
<1>7. ~GoWrite("Importing", "wait")
  BY <1>1 DEF Phases
<1>8. QED BY <1>6, <1>7 DEF PassReturns

LEMMA MyInductive ==
  ASSUME Immutable, TypeOK, AcceptedOK, DoneOK, CommittedOK, MyOK, [Next]_vars
  PROVE  MyOK'
<1>1. ASSUME my'.doc = my.doc, NEW m \in CommittedManifests(my.doc), HasAll(m), my.doc \in Docs
      PROVE  MyOK'
  <2>1. PICK d \in Docs : d = my.doc
    BY <1>1
  <2>2. m \in CommittedManifests(d)' /\ HasAll(m)'
    BY <1>1, <2>1, HasAllStays
  <2>3. QED BY <1>1, <2>1, <2>2 DEF MyOK, CommittedManifests, HasAll
<1>2. my \in Objects /\ (my.phase = "Imported" => my.doc \in Docs)
  BY TypeSplit, ObjectFacts DEF WorkerOK, Exists
<1>3. ASSUME my'.doc = my.doc, my.phase = "Imported" PROVE MyOK'
  BY <1>1, <1>2, <1>3 DEF MyOK
<1>4. CASE my'.phase # "Imported"
  BY <1>4 DEF MyOK
<1>5. CASE UNCHANGED my
  BY <1>3, <1>4, <1>5
<1>6. CASE GoIdle
  BY <1>4, <1>6 DEF GoIdle, Absent
<1>7. CASE \E n \in Names : StartImport(n)
  BY <1>4, <1>5, <1>7 DEF StartImport, workerVars, Terminal
<1>8. CASE PassStep
  <2>1. my'.doc = my.doc
    BY <1>8, PassStepKeeps DEF WorkerKeeps
  <2>2. CASE my'.phase = "Imported" /\ my.phase # "Imported"
    <3>1. pc = "next" /\ ~pending /\ NextEntries = {}
      BY <1>8, <2>2, ImportedReturn
    <3>2. todo = {}
      BY <3>1 DEF NextEntries
    <3>3. man \in CommittedManifests(my.doc) /\ HasAll(man)
      BY <3>1, <3>2 DEF CommittedOK, DoneOK, HasAll, Passing
    <3>4. my.doc \in Docs
      BY <3>1, TypeSplit, ObjectFacts DEF WorkerOK
    <3>5. QED BY <1>1, <2>1, <3>3, <3>4
  <2>3. QED BY <1>3, <1>4, <2>1, <2>2
<1>9. QED BY <1>5, <1>6, <1>7, <1>8, WorkerCases

\* How the API objects change: a new object of a document, a deletion, or the
\* write-back of the worker's phase to an object that is otherwise its copy.
LEMMA ApiCases ==
  ASSUME DistinctNames, TypeInv, NamesOK, [Next]_vars
  PROVE  \/ UNCHANGED bi
         \/ \E n \in Names, d \in Docs : /\ Write(n, [doc |-> d, phase |-> "None"])
                                         /\ importName(d) = n /\ ~Exists(bi[n])
         \/ \E n \in Names : Write(n, Absent)
         \/ /\ cur \in Names /\ Exists(bi[cur]) /\ bi[cur].doc = my.doc /\ my.phase \in Phases
            /\ Write(cur, [bi[cur] EXCEPT !.phase = my.phase])
<1>0. TypeOK /\ ApiOK /\ WorkerOK /\ FreshOK /\ SyncedOK
  BY TypeSplit DEF TypeInv
<1>1. ASSUME NEW d \in Docs, BridgeVisit(d), ~UNCHANGED bi
      PROVE  \E n \in Names : /\ Write(n, [doc |-> d, phase |-> "None"])
                              /\ importName(d) = n /\ ~Exists(bi[n])
  <2> DEFINE n == importName(d)
             old == cache[n]
  <2>1. n \in Names /\ ensureBackupImport(d)
    BY <1>1, NameFacts DEF BridgeVisit
  <2>2. ~Exists(old)
    <3>1. SUFFICES ASSUME Exists(old) PROVE FALSE
      OBVIOUS
    <3>2. n \in synced /\ [old EXCEPT !.doc = d] # old
      BY <1>1, <2>1, <3>1 DEF ensureBackupImport
    <3>3. old = bi[n] /\ old \in Objects /\ importName(old.doc) = n /\ old.doc \in Docs
      BY <1>0, <2>1, <3>1, <3>2, ObjectFacts DEF SyncedOK, NamesOK, ApiOK
    <3>4. old.doc = d
      BY <3>3 DEF DistinctNames
    <3>5. old \in [doc : Docs, phase : Phases]
      BY <3>1, <3>3, ObjectFacts DEF Objects
    <3>6. QED BY <3>2, <3>4, <3>5
  <2>3. Write(n, [doc |-> d, phase |-> "None"]) /\ ~Exists(bi[n])
    BY <1>1, <2>1, <2>2 DEF ensureBackupImport
  <2>4. QED BY <2>1, <2>3
<1>2. CASE \E n \in Names : DeleteImport(n)
  BY <1>2 DEF DeleteImport
<1>3. CASE WriteStatus
  <2>1. cur \in Names /\ my.phase \in Phases
    BY <1>0, <1>3, ObjectFacts DEF WorkerOK, WriteStatus
  <2>2. CASE fresh /\ Write(cur, [bi[cur] EXCEPT !.phase = my.phase])
    BY <1>0, <2>1, <2>2 DEF FreshOK
  <2>3. QED BY <1>3, <2>2 DEF WriteStatus
<1>4. CASE \/ PeatRestart \/ PeerOutOfBand \/ BridgePoll \/ Restart \/ UNCHANGED vars
           \/ (\E p \in Paths : Land(p)) \/ (\E d \in Docs : DocSync(d))
           \/ (\E n \in Names : CacheSync(n) \/ StartImport(n))
  BY <1>4 DEF PeatRestart, PeerOutOfBand, BridgePoll, Restart, vars, Land, DocSync, CacheSync, StartImport, apiVars
<1>5. CASE PassStep
  BY <1>0, <1>5, PassStepKeeps DEF apiVars
<1>6. QED BY <1>1, <1>2, <1>3, <1>4, <1>5 DEF Next, Mesh, BridgeStep, WorkerStep, PassStep

LEMMA NamesInductive ==
  ASSUME DistinctNames, TypeInv, NamesOK, [Next]_vars
  PROVE  NamesOK'
<1>0. ApiOK
  BY TypeSplit DEF TypeInv
<1>1. ASSUME NEW n \in Names, NEW o \in Objects, Write(n, o), Exists(o) => importName(o.doc) = n
      PROVE  NamesOK'
  BY <1>0, <1>1, WriteOK DEF NamesOK
<1>2. CASE UNCHANGED bi
  BY <1>2 DEF NamesOK
<1>3. ASSUME NEW n \in Names, NEW d \in Docs,
             Write(n, [doc |-> d, phase |-> "None"]), importName(d) = n
      PROVE  NamesOK'
  BY <1>1, <1>3, ObjectFacts
<1>4. ASSUME NEW n \in Names, Write(n, Absent) PROVE NamesOK'
  BY <1>1, <1>4, ObjectFacts
<1>5. CASE /\ cur \in Names /\ Exists(bi[cur]) /\ my.phase \in Phases
           /\ Write(cur, [bi[cur] EXCEPT !.phase = my.phase])
  <2>1. bi[cur] \in Objects /\ importName(bi[cur].doc) = cur
    BY <1>0, <1>5 DEF ApiOK, NamesOK
  <2>2. QED BY <1>1, <1>5, <2>1, ObjectFacts
<1>6. QED BY <1>2, <1>3, <1>4, <1>5, ApiCases

LEMMA ImportedInductive ==
  ASSUME Immutable, DistinctNames, TypeInv, AcceptedOK, NamesOK, MyOK, ImportedVerified, [Next]_vars
  PROVE  ImportedVerified'
<1>0. TypeOK /\ ApiOK
  BY TypeSplit DEF TypeInv
<1>1. ASSUME NEW d \in Docs, \E m \in CommittedManifests(d) : HasAll(m)
      PROVE  \E m \in CommittedManifests(d)' : HasAll(m)'
  BY <1>0, <1>1, HasAllStays
<1>2. ASSUME NEW n \in Names, bi'[n].phase = "Imported",
             \/ bi'[n] = bi[n]
             \/ bi'[n].doc = my.doc /\ my.phase = "Imported" /\ my.doc \in Docs
      PROVE  \E m \in CommittedManifests(bi[n].doc)' : HasAll(m)'
  <2>1. PICK d \in Docs : d = bi'[n].doc /\ \E m \in CommittedManifests(d) : HasAll(m)
    <3>1. CASE bi'[n] = bi[n]
      <4>1. bi[n].doc \in Docs
        BY <1>0, <1>2, <3>1, ObjectFacts DEF ApiOK, Exists
      <4>2. QED BY <1>2, <3>1, <4>1 DEF ImportedVerified
    <3>2. CASE bi'[n].doc = my.doc /\ my.phase = "Imported" /\ my.doc \in Docs
      BY <3>2 DEF MyOK
    <3>3. QED BY <1>2, <3>1, <3>2
  <2>2. QED BY <1>1, <2>1 DEF CommittedManifests
<1>3. ASSUME NEW n \in Names, bi'[n].phase = "Imported"
      PROVE  \/ bi'[n] = bi[n]
             \/ bi'[n].doc = my.doc /\ my.phase = "Imported" /\ my.doc \in Docs
  <2>1. ASSUME NEW x \in Names, NEW o \in Objects, Write(x, o), o.phase # "Imported"
        PROVE  bi'[n] = bi[n]
    BY <1>0, <1>3, <2>1, WriteOK
  <2>2. ASSUME NEW x \in Names, NEW d \in Docs, Write(x, [doc |-> d, phase |-> "None"])
        PROVE  bi'[n] = bi[n]
    BY <2>1, <2>2, ObjectFacts
  <2>3. ASSUME NEW x \in Names, Write(x, Absent) PROVE bi'[n] = bi[n]
    BY <2>1, <2>3, ObjectFacts DEF Absent
  <2>4. CASE /\ cur \in Names /\ Exists(bi[cur]) /\ bi[cur].doc = my.doc /\ my.phase \in Phases
             /\ Write(cur, [bi[cur] EXCEPT !.phase = my.phase])
    <3>1. bi[cur] \in Objects /\ my.doc \in Docs
      BY <1>0, <2>4, ObjectFacts DEF ApiOK
    <3>2. /\ [bi[cur] EXCEPT !.phase = my.phase] \in Objects
          /\ [bi[cur] EXCEPT !.phase = my.phase].doc = my.doc
          /\ [bi[cur] EXCEPT !.phase = my.phase].phase = my.phase
      BY <2>4, <3>1, ObjectFacts
    <3>3. CASE n = cur
      BY <1>0, <1>3, <2>4, <3>1, <3>2, <3>3, WriteOK
    <3>4. CASE n # cur
      BY <1>0, <2>4, <3>2, <3>4, WriteOK
    <3>5. QED BY <3>3, <3>4
  <2>5. QED BY <2>2, <2>3, <2>4, ApiCases
<1>4. QED BY <1>2, <1>3 DEF ImportedVerified

LEMMA NoHalfInductive ==
  ASSUME Immutable, TypeOK, AcceptedOK, DoneOK, DeferredOK, CommittedOK, NoHalfBackup, [Next]_vars
  PROVE  NoHalfBackup'
<1>1. ASSUME NEW d \in Docs, NEW m \in CommittedManifests(d), HasData(m),
             NEW f \in Entries, \E e \in m.Files : e.Key = f.Key
      PROVE  \E c \in Docs : \E x \in CommittedManifests(c)' :
                HasData(x)' /\ \E e \in x.Files : e.Key = f.Key
  BY <1>1, HasAllStays
<1>2. ASSUME NEW f \in Entries, IsDiscovery(f), dest'[f.Key] # Nil
      PROVE  \E c \in Docs : \E x \in CommittedManifests(c)' :
                HasData(x)' /\ \E e \in x.Files : e.Key = f.Key
  <2>1. CASE dest[f.Key] # Nil
    BY <1>1, <1>2, <2>1 DEF NoHalfBackup
  <2>2. CASE dest[f.Key] = Nil
    <3>1. pc = "put" /\ dest' = [dest EXCEPT ![ent.Key] = ContentOf(ent)]
      BY <1>2, <2>2, DestStep
    <3>2. f.Key \in Keys /\ dest \in [Keys -> Contents \cup {Nil}]
      BY ManifestFacts, TypeSplit DEF DestOK
    <3>3. ent.Key = f.Key
      BY <1>2, <2>2, <3>1, <3>2
    <3>4. ent \in man.Files /\ IsDiscovery(ent)
      BY <1>2, <3>1, <3>3, HandFacts DEF IsDiscovery, Basename
    <3>5. ~pending /\ \A e \in todo : IsDiscovery(e)
      BY <3>1, <3>4 DEF DeferredOK
    <3>6. HasData(man) /\ man \in CommittedManifests(my.doc)
      BY <3>1, <3>5 DEF DoneOK, HasData, CommittedOK, Passing
    <3>7. my.doc \in Docs
      BY <3>1, TypeSplit, ObjectFacts DEF WorkerOK
    <3>8. QED BY <1>1, <3>3, <3>4, <3>6, <3>7
  <2>3. QED BY <2>1, <2>2
<1>3. QED BY <1>2 DEF NoHalfBackup, IsDiscovery, Basename

\* The inductive invariant of the bucket.
BucketInv ==
  /\ TypeInv /\ AcceptedOK /\ VerifiedOnly
  /\ DoneOK /\ DeferredOK /\ CommittedOK /\ MyOK
  /\ NoHalfBackup

LEMMA BucketInvHolds ==
  ASSUME Immutable, LandedIsFinal
  PROVE  Spec => []BucketInv
<1>1. Init => BucketInv
  <2> SUFFICES ASSUME Init PROVE BucketInv
    OBVIOUS
  <2>1. TypeInv
    BY TypeInit DEF TypeInv, Init, Idle, FreshOK, SyncedOK
  <2>2. AcceptedOK /\ DoneOK /\ DeferredOK /\ CommittedOK /\ MyOK
    BY DEF Init, Idle, AcceptedOK, DoneOK, DeferredOK, CommittedOK, MyOK, Passing, Absent
  <2>3. VerifiedOnly /\ NoHalfBackup
    BY ManifestFacts DEF Init, VerifiedOnly, NoHalfBackup
  <2>4. QED BY <2>1, <2>2, <2>3 DEF BucketInv
<1>2. BucketInv /\ [Next]_vars => BucketInv'
  <2> SUFFICES ASSUME BucketInv, [Next]_vars PROVE BucketInv'
    OBVIOUS
  <2>1. TypeOK
    BY DEF BucketInv, TypeInv
  <2>2. TypeInv' /\ AcceptedOK' /\ VerifiedOnly'
    BY <2>1, TypeInductive, AcceptedInductive, VerifiedInductive DEF BucketInv
  <2>3. DoneOK' /\ DeferredOK' /\ CommittedOK' /\ MyOK'
    BY <2>1, DoneInductive, DeferredInductive, CommittedInductive, MyInductive DEF BucketInv
  <2>4. NoHalfBackup'
    BY <2>1, NoHalfInductive DEF BucketInv
  <2>5. QED BY <2>2, <2>3, <2>4 DEF BucketInv
<1>3. QED BY <1>1, <1>2, PTL DEF Spec

\* Velero never discovers half a backup: the discovery object is in the
\* bucket only with all the data of a committed manifest that names it, if no
\* key changes its content and peat leaves landed files alone
\* (importer.go:63-67, 90-94).
THEOREM NoHalfBackupCorrect ==
  ASSUME Immutable, LandedIsFinal
  PROVE  Spec => []NoHalfBackup
<1>1. BucketInv => NoHalfBackup
  BY DEF BucketInv
<1>2. QED BY <1>1, BucketInvHolds, PTL

\* Imported means imported: every file of a committed manifest of the
\* document is in the bucket with the right hash, if no key changes its
\* content, peat leaves landed files alone and no two documents share a name
\* (backupimport_controller.go:253-259).
THEOREM ImportedVerifiedCorrect ==
  ASSUME Immutable, LandedIsFinal, DistinctNames
  PROVE  Spec => []ImportedVerified
<1>1. Init => NamesOK /\ ImportedVerified
  BY DEF Init, NamesOK, ImportedVerified, Absent, Exists
<1>2. BucketInv /\ NamesOK /\ ImportedVerified /\ [Next]_vars => NamesOK' /\ ImportedVerified'
  BY NamesInductive, ImportedInductive DEF BucketInv
<1>3. QED BY <1>1, <1>2, BucketInvHolds, PTL DEF Spec

-----------------------------------------------------------------------------
(* A terminal phase is final. The worker may hold a copy of an earlier     *)
(* phase, but then it is not a current one.                                *)

OpenOK == fresh => bi[cur].phase \notin Terminal

LEMMA OpenInductive ==
  ASSUME TypeInv, OpenOK, [Next]_vars
  PROVE  OpenOK'
<1>0. TypeOK /\ ApiOK /\ FreshOK /\ SyncedOK
  BY TypeSplit DEF TypeInv
<1>1. CASE UNCHANGED <<bi, cur, fresh>>
  BY <1>1 DEF OpenOK
<1>2. CASE fresh' = FALSE
  BY <1>2 DEF OpenOK
<1>3. ASSUME NEW n \in Names, NEW o, Write(n, o), fresh' = (fresh /\ cur # n), UNCHANGED cur
      PROVE  OpenOK'
  <2>1. SUFFICES ASSUME fresh' PROVE bi'[cur].phase \notin Terminal
    BY <1>3, Zenon DEF OpenOK
  <2>2. fresh /\ cur # n
    BY <1>3, <2>1, Zenon
  <2>3. bi'[cur] = bi[cur]
    BY <1>0, <1>3, <2>2 DEF FreshOK, Write, ApiOK
  <2>4. QED BY <2>2, <2>3 DEF OpenOK
<1>4. ASSUME NEW d \in Docs, BridgeVisit(d) PROVE OpenOK'
  <2>1. UNCHANGED cur
    BY <1>4 DEF BridgeVisit
  <2>2. CASE UNCHANGED <<bi, fresh>>
    BY <1>1, <2>1, <2>2
  <2>3. CASE ensureBackupImport(d) /\ ~UNCHANGED <<bi, fresh>>
    <3>1. PICK o : Write(importName(d), o) /\ fresh' = (fresh /\ cur # importName(d))
      BY <2>3, Zenon DEF ensureBackupImport
    <3>2. QED BY <1>3, <2>1, <3>1, NameFacts
  <2>4. QED BY <1>4, <2>2, <2>3 DEF BridgeVisit
<1>5. CASE \E n \in Names : DeleteImport(n)
  BY <1>3, <1>5 DEF DeleteImport
<1>6. ASSUME NEW n \in Names, StartImport(n) PROVE OpenOK'
  <2>1. UNCHANGED bi
    BY <1>6 DEF StartImport, apiVars
  <2>2. CASE UNCHANGED workerVars
    BY <1>1, <2>1, <2>2 DEF workerVars
  <2>3. CASE cache[n].phase \notin Terminal /\ cur' = n /\ fresh' = (n \in synced)
    <3>1. n \in synced => bi[n].phase \notin Terminal
      BY <1>0, <2>3 DEF SyncedOK
    <3>2. QED BY <2>1, <2>3, <3>1 DEF OpenOK
  <2>4. QED BY <1>6, <2>2, <2>3 DEF StartImport
<1>7. CASE Restart \/ WriteStatus
  BY <1>2, <1>7, GoIdleOK DEF Restart, WriteStatus
<1>8. CASE PassStep
  BY <1>0, <1>1, <1>8, PassStepKeeps DEF WorkerKeeps, apiVars
<1>9. CASE \/ PeatRestart \/ PeerOutOfBand \/ BridgePoll \/ UNCHANGED vars \/ (\E p \in Paths : Land(p))
           \/ (\E d \in Docs : DocSync(d)) \/ (\E n \in Names : CacheSync(n))
  BY <1>1, <1>9 DEF PeatRestart, PeerOutOfBand, BridgePoll, vars, Land, DocSync, CacheSync, apiVars, workerVars
<1>10. QED BY <1>4, <1>5, <1>6, <1>7, <1>8, <1>9 DEF Next, Mesh, BridgeStep, WorkerStep, PassStep

\* What TerminalIsFinal says of one step.
KeepsTerminal ==
  \A n \in Names :
     bi[n].phase \in {"Imported", "Failed"} =>
        bi'[n].phase = bi[n].phase \/ ~Exists(bi'[n])

LEMMA TerminalStep ==
  ASSUME TypeInv, OpenOK, [Next]_vars
  PROVE  KeepsTerminal
<1>0. TypeOK /\ ApiOK /\ WorkerOK /\ FreshOK /\ SyncedOK
  BY TypeSplit DEF TypeInv
<1>1. CASE UNCHANGED bi
  BY <1>1 DEF KeepsTerminal
<1>2. ASSUME NEW n \in Names, NEW o, Write(n, o),
             bi[n].phase \in Terminal => o.phase = bi[n].phase \/ ~Exists(o)
      PROVE  KeepsTerminal
  BY <1>0, <1>2 DEF KeepsTerminal, Write, ApiOK, Terminal
<1>3. ASSUME NEW d \in Docs, BridgeVisit(d), ~UNCHANGED bi PROVE KeepsTerminal
  <2> DEFINE n == importName(d)
             old == cache[n]
  <2>1. n \in Names /\ old \in Objects /\ ensureBackupImport(d)
    BY <1>0, <1>3, NameFacts DEF BridgeVisit, ApiOK
  <2>2. CASE Exists(old)
    <3>1. Write(n, [old EXCEPT !.doc = d]) /\ n \in synced
      BY <1>3, <2>1, <2>2 DEF ensureBackupImport
    <3>2. [old EXCEPT !.doc = d].phase = bi[n].phase
      BY <1>0, <2>1, <2>2, <3>1, ObjectFacts DEF SyncedOK
    <3>3. QED BY <1>2, <2>1, <3>1, <3>2
  <2>3. CASE ~Exists(old)
    <3>1. Write(n, [doc |-> d, phase |-> "None"]) /\ ~Exists(bi[n])
      BY <1>3, <2>1, <2>3 DEF ensureBackupImport
    <3>2. bi[n].phase \notin Terminal
      BY <3>1 DEF Exists, Terminal
    <3>3. QED BY <1>2, <2>1, <3>1, <3>2
  <2>4. QED BY <2>2, <2>3
<1>4. CASE \E n \in Names : DeleteImport(n)
  BY <1>2, <1>4, ObjectFacts DEF DeleteImport
<1>5. CASE WriteStatus
  <2>1. cur \in Names
    BY <1>0, <1>5 DEF WorkerOK, WriteStatus
  <2>2. CASE fresh /\ Write(cur, [bi[cur] EXCEPT !.phase = my.phase])
    BY <1>2, <2>1, <2>2 DEF OpenOK
  <2>3. QED BY <1>1, <1>5, <2>2 DEF WriteStatus
<1>6. CASE \/ PeatRestart \/ PeerOutOfBand \/ BridgePoll \/ Restart \/ UNCHANGED vars
           \/ (\E p \in Paths : Land(p)) \/ (\E d \in Docs : DocSync(d))
           \/ (\E n \in Names : CacheSync(n) \/ StartImport(n))
  BY <1>1, <1>6 DEF PeatRestart, PeerOutOfBand, BridgePoll, Restart, vars, Land, DocSync, CacheSync,
                    StartImport, apiVars
<1>7. CASE PassStep
  BY <1>0, <1>1, <1>7, PassStepKeeps DEF apiVars
<1>8. QED BY <1>1, <1>3, <1>4, <1>5, <1>6, <1>7 DEF Next, Mesh, BridgeStep, WorkerStep, PassStep

\* No step takes an existing BackupImport out of Imported or Failed, although
\* the worker decides on a cached copy that may be old: the API server's
\* check of the resourceVersion is what keeps it
\* (backupimport_controller.go:186-189).
THEOREM TerminalIsFinalCorrect == Spec => TerminalIsFinal
<1>1. Init => OpenOK
  BY DEF Init, Idle, OpenOK
<1>2. TypeInv /\ OpenOK /\ [Next]_vars => OpenOK' /\ [KeepsTerminal]_vars
  BY OpenInductive, TerminalStep
<1>3. Spec => [][KeepsTerminal]_vars
  BY <1>1, <1>2, TypeInvHolds, PTL DEF Spec
<1>4. QED BY <1>3 DEF TerminalIsFinal, KeepsTerminal
=============================================================================
