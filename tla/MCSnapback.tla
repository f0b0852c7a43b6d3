----------------------------- MODULE MCSnapback -----------------------------
(***************************************************************************)
(* Two backups of one location. The first one writes an object into the    *)
(* repository, and the second one, for which nothing has changed, rests on *)
(* the same object.                                                        *)
(***************************************************************************)
EXTENDS Snapback, TLC

CONSTANTS b1, b2, l1

OneLocation == b1 :> l1 @@ b2 :> l1

MCMetaKeys == b1 :> <<"m1">> @@ b2 :> <<"m2">>
MCDiscoveryKey == b1 :> "m1" @@ b2 :> "m2"
OneRepoKey == <<"p">>
Shared == b1 :> {"p"} @@ b2 :> {}

\* Each backup writes an object of its own.
TwoRepoKeys == <<"p", "q">>
OwnObjects == b1 :> {"p"} @@ b2 :> {"q"}

MCSizeOf == "m1" :> 1 @@ "m2" :> 1 @@ "p" :> 2 @@ "q" :> 2
=============================================================================
