--------------------------- MODULE MCBackupWatch ----------------------------
(***************************************************************************)
(* One name, under which two backups are created, and two policies: one    *)
(* for the backup's location, which is paused and resumed, and one for     *)
(* everything, whose selector is edited from an invalid to a valid one.    *)
(***************************************************************************)
EXTENDS BackupWatch, TLC

CONSTANTS n1, p1, p2, l1, l2, gold

MCStorageLocation == n1 :> l1
MCLabels == n1 :> {gold}

PolicySpec(paused, bsls, selector) ==
  [Paused |-> paused, BackupStorageLocations |-> bsls, BackupSelector |-> selector]

MCSpecs == p1 :> {PolicySpec(FALSE, {l1}, Nil), PolicySpec(TRUE, {l1}, Nil),
                  PolicySpec(FALSE, {l2}, Nil), Nil}
        @@ p2 :> {PolicySpec(FALSE, {}, {gold}), PolicySpec(FALSE, {}, Invalid)}

\* Two policies that select the backup from the start.
OverlappingSpecs == p1 :> {PolicySpec(FALSE, {l1}, Nil)}
                 @@ p2 :> {PolicySpec(FALSE, {}, {gold})}
=============================================================================
