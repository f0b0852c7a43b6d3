----------------------------- MODULE RetryQueue -----------------------------
(***************************************************************************)
(* How a reconciler of this operator comes to run again: one object, the   *)
(* work queue of its controller, and time. BackupReplicationReconciler and *)
(* BackupImportReconciler end an unsuccessful pass in the same ways: they  *)
(* write what happened into the status and ask to be run again after       *)
(* requeueAfterTransient. Their own status write reaches them as a watch   *)
(* event, and an event puts the object into the queue at once.             *)
(*                                                                         *)
(* A pass takes no time here, which is how an unreachable backend that     *)
(* refuses its connections answers. Of a pass that gets further only the   *)
(* last status write is here: the earlier ones only add events.            *)
(***************************************************************************)
EXTENDS Integers, Sequences

CONSTANTS
  requeueAfterTransient,  \* in ticks
  MaxTime,                \* bound on the clock
  MaxRetries              \* bound on the transient errors

VARIABLES
  now,
  status,    \* [Phase, RetryCount, reason] in the API server
  seen,      \* the informer's copy
  queued,    \* the object is in the work queue
  delayed,   \* the times at which AddAfter puts it there
  failures   \* the times of the transient errors so far (history)

vars == <<now, status, seen, queued, delayed, failures>>

Init ==
  /\ now = 0
  /\ status = [Phase |-> "Pending", RetryCount |-> 0, reason |-> "None"]
  /\ seen = status
  /\ queued = TRUE
  /\ delayed = {}
  /\ failures = <<>>

Tick == now < MaxTime /\ now' = now + 1 /\ UNCHANGED <<status, seen, queued, delayed, failures>>

\* The informer: an update that changes nothing makes no event.
WatchEvent ==
  /\ seen # status /\ seen' = status /\ queued' = TRUE
  /\ UNCHANGED <<now, status, delayed, failures>>

Requeued(t) ==
  /\ t \in delayed /\ t <= now
  /\ delayed' = delayed \ {t} /\ queued' = TRUE
  /\ UNCHANGED <<now, status, seen, failures>>

\* The end of an unsuccessful pass that leaves status s: Status().Update, which
\* is refused when the pass worked on an old copy, then RequeueAfter.
EndPass(s) ==
  \/ /\ seen = status /\ status' = s /\ queued' = FALSE
     /\ delayed' = delayed \cup {now + requeueAfterTransient}
  \/ seen # status /\ UNCHANGED <<status, queued, delayed>>

\* degrade and importWait: the same message again is the same status again.
degrade(phase, reason) ==
  /\ EndPass([seen EXCEPT !.Phase = phase, !.reason = reason])
  /\ UNCHANGED failures

\* transientErr and importTransient.
transientErr(phase, reason) ==
  /\ Len(failures) < MaxRetries /\ failures' = Append(failures, now)
  /\ EndPass([seen EXCEPT !.Phase = phase, !.RetryCount = @ + 1, !.reason = reason])

Terminal(s) == s.Phase = "Replicated"

Reconcile ==
  /\ queued
  /\ \/ Terminal(seen) /\ queued' = FALSE /\ UNCHANGED <<status, delayed, failures>>
     \/ /\ ~Terminal(seen) /\ queued' = FALSE     \* the policy is paused
        /\ delayed' = delayed \cup {now + requeueAfterTransient} /\ UNCHANGED <<status, failures>>
     \/ /\ ~Terminal(seen)
        /\ \/ degrade(seen.Phase, "PolicyNotFound") \/ degrade("Staging", "ResolveStoreFailed")
           \/ transientErr("Staging", "EnumerateFailed")
     \/ /\ ~Terminal(seen) /\ seen = status /\ queued' = FALSE
        /\ status' = [seen EXCEPT !.Phase = "Replicated"] /\ UNCHANGED <<delayed, failures>>
  /\ UNCHANGED <<now, seen>>

Next == Tick \/ WatchEvent \/ (\E t \in delayed : Requeued(t)) \/ Reconcile

Spec == Init /\ [][Next]_vars

-----------------------------------------------------------------------------
\* "requeueAfterTransient is how long to wait before retrying transient errors
\* so a stub/unavailable backend does not hot-loop"
\* (backupreplication_controller.go:33-34): whatever wakes the reconciler, it
\* does not meet a transient error three times within one such wait.
NoHotLoop ==
  \A i \in 1..Len(failures) - 2 : failures[i + 2] - failures[i] >= requeueAfterTransient
=============================================================================
