------------------------- MODULE ReplicationService -------------------------
(***************************************************************************)
(* What Snapback promises to whoever restores at the destination. A backup *)
(* is invisible there, or it is there with everything that it consisted of *)
(* when it completed at the source; only what the source itself lost       *)
(* before it could be shipped may be missing. It becomes visible in one    *)
(* step, and what a restore finds never changes or shrinks afterwards,     *)
(* whatever other backups of the same repository are shipped.              *)
(***************************************************************************)
CONSTANTS Backups, Nil

VARIABLES
  completed,  \* completed[b]: the objects b consists of, {} before it completes
  lost,       \* lost[b]: those that the source no longer has
  image       \* image[b]: those a restore at the destination finds, Nil while
              \* the backup is invisible there

vars == <<completed, lost, image>>

Init ==
  /\ completed = [b \in Backups |-> {}]
  /\ lost = completed
  /\ image = [b \in Backups |-> Nil]

\* A backup completes at the source; its objects are in place.
Complete(b) ==
  /\ completed[b] = {} /\ completed'[b] # {}
  /\ completed' = [completed EXCEPT ![b] = completed'[b]]
  /\ UNCHANGED <<lost, image>>

\* The source loses objects, of any number of backups.
Lose ==
  /\ \A b \in Backups : lost[b] \subseteq lost'[b] /\ lost'[b] \subseteq completed[b]
  /\ UNCHANGED <<completed, image>>

\* What one more object at the destination may do to the image of b: let it
\* appear, complete but for what was lost, or add what had been missing.
MayBecome(b, i) ==
  \/ i = image[b]
  \/ /\ image[b] = Nil
     /\ completed[b] # {}
     /\ completed[b] \ lost[b] \subseteq i /\ i \subseteq completed[b]
  \/ /\ image[b] # Nil /\ i # Nil
     /\ image[b] \subseteq i /\ i \subseteq completed[b]

Deliver ==
  /\ \A b \in Backups : MayBecome(b, image'[b])
  /\ UNCHANGED <<completed, lost>>

Next == Deliver \/ Lose \/ \E b \in Backups : Complete(b)

Spec == Init /\ [][Next]_vars
=============================================================================
