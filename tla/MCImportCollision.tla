------------------------- MODULE MCImportCollision --------------------------
(***************************************************************************)
(* Two documents that share a BackupImport name: backup c of location a-b, *)
(* and backup b-c of location a.                                           *)
(***************************************************************************)
EXTENDS BackupImport, TLC

Meta(backup, sum, dist) ==
  [Key |-> <<"backups", backup, "velero-backup.json">>, SHA256 |-> sum, Size |-> 1,
   DistributionID |-> dist]
Manifest(fs) == [Parses |-> TRUE, Complete |-> TRUE, Files |-> fs]
At(dist) == [dist |-> dist, base |-> "velero-backup.json"]

C1 == [bsl |-> <<"a", "-", "b">>, backup |-> <<"c">>]
C2 == [bsl |-> <<"a">>, backup |-> <<"b", "-", "c">>]

MCDocs == {C1, C2}
MCEmitted == (C1 :> <<Manifest({Meta("c", "m1", "d1")})>>)
          @@ (C2 :> <<Manifest({Meta("b-c", "m2", "d2")})>>)
MCArrivals == (At("d1") :> <<[SHA256 |-> "m1", Size |-> 1]>>)
           @@ (At("d2") :> <<[SHA256 |-> "m2", Size |-> 1]>>)
=============================================================================
