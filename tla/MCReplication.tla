--------------------------- MODULE MCReplication ----------------------------
(***************************************************************************)
(* Two backups, b1 and b2, of one location or of one each, and the         *)
(* repository objects each of them writes: SamePath has the second one     *)
(* rewrite the object of the first, SecondWrites has only the second write *)
(* one.                                                                    *)
(***************************************************************************)
EXTENDS Replication, TLC

CONSTANTS b1, b2, l1, l2

OneLocation == b1 :> l1 @@ b2 :> l1
TwoLocations == b1 :> l1 @@ b2 :> l2

MCMetaKeys == b1 :> <<"m1">> @@ b2 :> <<"m2">>
MCSizeOf == "m1" :> 1 @@ "m2" :> 1 @@ "p" :> 2

OneRepoKey == <<"p">>

SamePath == b1 :> {"p"} @@ b2 :> {"p"}
SecondWrites == b1 :> {} @@ b2 :> {"p"}

\* One failure or one removal; MCSnapback has both in one behaviour.
OneMishap == faults + removals <= 1
=============================================================================
