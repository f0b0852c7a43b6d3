------------------------------ MODULE MCImport ------------------------------
(***************************************************************************)
(* Two backups of one storage location that share an object of the Kopia   *)
(* repository. The first backup's manifest is emitted twice, the second    *)
(* time with an object more; the second backup's is not committed at first *)
(* and unreadable at last. The shared object lands through a partial and a *)
(* corrupt content, and under the first backup's distribution only, so the *)
(* second backup finds it by the index.                                    *)
(***************************************************************************)
EXTENDS BackupImportRefinement, TLC

B1 == [bsl |-> <<"s">>, backup |-> <<"b", "1">>]
B2 == [bsl |-> <<"s">>, backup |-> <<"b", "2">>]

MCDocs == {B1, B2}

Entry(key, sum, size, dist) ==
  [Key |-> key, SHA256 |-> sum, Size |-> size, DistributionID |-> dist]

Meta1 == Entry(<<"backups", "1", "velero-backup.json">>, "m1", 1, "d1")
Meta2 == Entry(<<"backups", "2", "velero-backup.json">>, "m2", 1, "d2")
Pack1 == Entry(<<"kopia", "p">>, "p", 2, "d1")
Pack2 == Entry(<<"kopia", "p">>, "p", 2, "d2")

Manifest(complete, fs) == [Parses |-> TRUE, Complete |-> complete, Files |-> fs]
Garbled == [Parses |-> FALSE, Complete |-> FALSE, Files |-> {}]

MCEmitted == (B1 :> <<Manifest(TRUE, {Meta1}), Manifest(TRUE, {Meta1, Pack1})>>)
          @@ (B2 :> <<Manifest(FALSE, {Meta2}), Manifest(TRUE, {Meta2, Pack2}), Garbled>>)

At(dist, base) == [dist |-> dist, base |-> base]
Bytes(sum, size) == [SHA256 |-> sum, Size |-> size]

MCArrivals == (At("d1", "velero-backup.json") :> <<Bytes("m1", 1)>>)
           @@ (At("d2", "velero-backup.json") :> <<Bytes("m2", 1)>>)
           @@ (At("d1", "p") :> <<Bytes("half", 1), Bytes("bad", 2), Bytes("p", 2)>>)

\* The instance of the liveness run. The first backup's object lands in pieces
\* and under another distribution than its entry names, so only the index of a
\* later pass finds it. The second one's has a primary path that ends up with
\* other content of the same size, and the right bytes elsewhere: it is
\* imported before that or never, and must not keep the worker from the first.
Meta1Adrift == [Meta1 EXCEPT !.DistributionID = "d3"]

LiveEmitted == (B1 :> <<Manifest(TRUE, {Meta1Adrift})>>)
            @@ (B2 :> <<Manifest(TRUE, {Meta2})>>)

LiveArrivals == (At("d1", "velero-backup.json") :> <<Bytes("half", 0), Bytes("m1", 1)>>)
             @@ (At("d2", "velero-backup.json") :> <<Bytes("bad", 1)>>)
             @@ (At("d4", "velero-backup.json") :> <<Bytes("m2", 1)>>)

ASSUME Immutable /\ LandedIsFinal /\ DistinctNames
=============================================================================
