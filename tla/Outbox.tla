------------------------------- MODULE Outbox -------------------------------
(***************************************************************************)
(* The notification outbox (notify/notifier.go): instances insert events,  *)
(* and the drainer of one of them, under a session-level advisory lock     *)
(* (store/postgres/advisory_lock.go), posts what is due to the endpoint    *)
(* and then deletes the row or schedules its retry.  One endpoint; an      *)
(* instance may be running a configuration that does not name it.  The     *)
(* wait before a retry is a step of its own, whatever its length.          *)
(***************************************************************************)
EXTENDS Naturals, Sequences, FiniteSets, SequencesExt

CONSTANTS Instances,
          Knows,         \* the instances whose configuration names the endpoint
          Events,
          Warnings,      \* the capacity warnings among them, all of one backend
          MaxRetries, PendingBatchSize,
          LostSessions,  \* the session that holds the lock may break
          MaxFaults,     \* bound: failed inserts and marks, lost answers, crashes, sessions
          None

VARIABLES
  fate,       \* of each event: new, queued, suppressed, lost, delivered, exhausted, unmatched
  outbox,     \* the rows, in the order of created_at
  attempts,   \* of each row
  waiting,    \* the rows whose next_retry has not come
  lock,       \* the instance whose session holds the advisory lock
  todo,       \* of each instance: the rows it fetched and has not finished
  result,     \* of each instance: how the post of its first row ended
  dampened,   \* the instances that published a warning within the hour
  refused, accepted,  \* of each event: posts that failed, posts the endpoint took
  faults

rows == <<outbox, attempts, waiting>>
posts == <<refused, accepted>>
vars == <<fate, rows, lock, todo, result, dampened, posts, faults>>

Init ==
  /\ fate = [e \in Events |-> "new"]
  /\ outbox = <<>>
  /\ attempts = [e \in Events |-> 0]
  /\ waiting = {}
  /\ lock = None
  /\ todo = [i \in Instances |-> <<>>]
  /\ result = [i \in Instances |-> None]
  /\ dampened = {}
  /\ refused = [e \in Events |-> 0]
  /\ accepted = [e \in Events |-> 0]
  /\ faults = 0

\* Posts are counted up to one more than the properties allow.
Count(n) == IF n <= MaxRetries + MaxFaults THEN n + 1 ELSE n

Fault == faults < MaxFaults /\ faults' = faults + 1

-----------------------------------------------------------------------------
(* Publishing *)

\* emit: a repeated warning is suppressed, any other event is inserted; a
\* failed insert drops it.
emit(i, e) ==
  /\ i \in Knows /\ fate[e] = "new"
  /\ dampened' = IF e \in Warnings THEN dampened \cup {i} ELSE dampened
  /\ \/ /\ e \in Warnings /\ i \in dampened
        /\ fate' = [fate EXCEPT ![e] = "suppressed"]
        /\ UNCHANGED <<outbox, faults>>
     \/ /\ ~(e \in Warnings /\ i \in dampened)
        /\ fate' = [fate EXCEPT ![e] = "queued"]
        /\ outbox' = Append(outbox, e)
        /\ UNCHANGED faults
     \/ /\ ~(e \in Warnings /\ i \in dampened)
        /\ fate' = [fate EXCEPT ![e] = "lost"]
        /\ Fault
        /\ UNCHANGED outbox
  /\ UNCHANGED <<attempts, waiting, lock, todo, result, posts>>

DampenExpires(i) ==
  /\ i \in dampened
  /\ dampened' = dampened \ {i}
  /\ UNCHANGED <<fate, rows, lock, todo, result, posts, faults>>

-----------------------------------------------------------------------------
(* Draining *)

Due == SelectSeq(outbox, LAMBDA e : e \notin waiting)

\* GetPendingNotifications: the oldest rows that are due, with their attempts.
GetPendingNotifications ==
  LET n == IF Len(Due) < PendingBatchSize THEN Len(Due) ELSE PendingBatchSize
  IN  [k \in 1..n |-> [event |-> Due[k], attempts |-> attempts[Due[k]]]]

\* Tick: the drainer takes the lock or skips; an empty batch changes nothing.
Tick(i) ==
  /\ lock = None /\ todo[i] = <<>> /\ Due # <<>>
  /\ lock' = i
  /\ todo' = [todo EXCEPT ![i] = GetPendingNotifications]
  /\ UNCHANGED <<fate, rows, result, dampened, posts, faults>>

\* deliver: the endpoint takes the event, or the post fails, or the endpoint
\* takes it and its answer is lost.  With no such endpoint nothing is sent.
deliver(i) ==
  /\ todo[i] # <<>> /\ result[i] = None
  /\ LET e == Head(todo[i]).event IN
     \/ /\ i \notin Knows
        /\ result' = [result EXCEPT ![i] = "unmatched"]
        /\ UNCHANGED <<posts, faults>>
     \/ /\ i \in Knows
        /\ result' = [result EXCEPT ![i] = "delivered"]
        /\ accepted' = [accepted EXCEPT ![e] = Count(@)]
        /\ UNCHANGED <<refused, faults>>
     \/ /\ i \in Knows
        /\ result' = [result EXCEPT ![i] = "failed"]
        /\ refused' = [refused EXCEPT ![e] = Count(@)]
        /\ UNCHANGED <<accepted, faults>>
     \/ /\ i \in Knows /\ Fault
        /\ result' = [result EXCEPT ![i] = "failed"]
        /\ refused' = [refused EXCEPT ![e] = Count(@)]
        /\ accepted' = [accepted EXCEPT ![e] = Count(@)]
  /\ UNCHANGED <<fate, rows, lock, todo, dampened>>

\* The row's last attempt, counted from what was fetched.
Exhausted(row) == row.attempts + 1 >= MaxRetries

\* CompleteNotification: a DELETE, of a row another drainer may have deleted.
CompleteNotification(e, why) ==
  /\ fate' = IF e \in Range(outbox) THEN [fate EXCEPT ![e] = why] ELSE fate
  /\ outbox' = SelectSeq(outbox, LAMBDA r : r # e)
  /\ waiting' = waiting \ {e}
  /\ UNCHANGED attempts

\* RetryNotification: an UPDATE of the row, if it is still there.
RetryNotification(e) ==
  /\ IF e \in Range(outbox)
     THEN /\ attempts' = [attempts EXCEPT ![e] = @ + 1]
          /\ waiting' = waiting \cup {e}
     ELSE UNCHANGED <<attempts, waiting>>
  /\ UNCHANGED <<outbox, fate>>


\* The drainer goes on to its next row, and unlocks after its last.
NextRow(i) ==
  /\ todo' = [todo EXCEPT ![i] = Tail(@)]
  /\ result' = [result EXCEPT ![i] = None]
  /\ lock' = IF Len(todo[i]) = 1 /\ lock = i THEN None ELSE lock

\* processPendingRow after the post: completeOrLog or handleDeliveryFailure; a
\* store error leaves the row as it was.
processPendingRow(i) ==
  /\ result[i] # None
  /\ LET row == Head(todo[i])
         why == IF result[i] = "failed" THEN "exhausted" ELSE result[i]
     IN  \/ /\ IF result[i] = "failed" /\ ~Exhausted(row)
               THEN RetryNotification(row.event)
               ELSE CompleteNotification(row.event, why)
            /\ UNCHANGED faults
         \/ Fault /\ UNCHANGED <<rows, fate>>
  /\ NextRow(i)
  /\ UNCHANGED <<dampened, posts>>

\* next_retry comes.
RetryDue(e) ==
  /\ e \in waiting
  /\ waiting' = waiting \ {e}
  /\ UNCHANGED <<fate, outbox, attempts, lock, todo, result, dampened, posts, faults>>

-----------------------------------------------------------------------------

\* An instance stops; its session, and with it the lock, ends.
Crash(i) ==
  /\ todo[i] # <<>> /\ Fault
  /\ todo' = [todo EXCEPT ![i] = <<>>]
  /\ result' = [result EXCEPT ![i] = None]
  /\ dampened' = dampened \ {i}
  /\ lock' = IF lock = i THEN None ELSE lock
  /\ UNCHANGED <<fate, rows, posts>>

\* The lock's session breaks while the drainer, which uses other connections,
\* goes on.
SessionLost ==
  /\ LostSessions /\ lock # None /\ Fault
  /\ lock' = None
  /\ UNCHANGED <<fate, rows, todo, result, dampened, posts>>

Drain(i) == deliver(i) \/ processPendingRow(i)

\* Every event published and settled.
Done == fate \in [Events -> {"suppressed", "lost", "delivered", "exhausted", "unmatched"}]
        /\ \A i \in Instances : todo[i] = <<>>

Next ==
  \/ \E i \in Instances :
       \/ \E e \in Events : emit(i, e)
       \/ DampenExpires(i) \/ Tick(i) \/ Drain(i) \/ Crash(i)
  \/ \E e \in Events : RetryDue(e)
  \/ SessionLost
  \/ Done /\ UNCHANGED vars

Spec == Init /\ [][Next]_vars

-----------------------------------------------------------------------------
(* Properties *)

\* The variables have their types, and the rows are the queued events.
TypeOK ==
  /\ fate \in [Events -> {"new", "queued", "suppressed", "lost", "delivered",
                          "exhausted", "unmatched"}]
  /\ outbox \in Seq(Events) /\ Range(outbox) = {e \in Events : fate[e] = "queued"}
  /\ attempts \in [Events -> 0..MaxRetries + MaxFaults]
  /\ waiting \subseteq Range(outbox)
  /\ lock \in Instances \cup {None}
  /\ todo \in [Instances -> Seq([event : Events, attempts : Nat])]
  /\ result \in [Instances -> {None, "unmatched", "delivered", "failed"}]
  /\ dampened \subseteq Instances
  /\ refused \in [Events -> Nat] /\ accepted \in [Events -> Nat]
  /\ faults \in 0..MaxFaults

\* "A queued event survives a restart and is retried until it is delivered or
\* its endpoint's retries run out" (docs/notifications.md): a row leaves the
\* outbox only when the endpoint took the event or max_retries posts failed,
\* with attempts counted from what a drainer read before it posted.
RetriedUntilSpent ==
  \A e \in Events : fate[e] \in {"delivered", "exhausted", "unmatched"} =>
    accepted[e] > 0 \/ refused[e] >= MaxRetries

\* An event is posted more than max_retries times, or taken more than once,
\* only as often as a mark failed, an answer was lost or a drainer crashed.
RepeatsAreFaults ==
  \A e \in Events : /\ accepted[e] <= 1 + faults
                    /\ refused[e] <= MaxRetries + faults

\* Every queued event is settled.
EventuallySettled == \A e \in Events : (fate[e] = "queued") ~> (fate[e] # "queued")
=============================================================================
