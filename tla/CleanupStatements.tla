------------------------- MODULE CleanupStatements -------------------------
(***************************************************************************)
(* The statements behind the cleanup queue, on both database engines: the  *)
(* writable CTEs of the PostgreSQL store and the transactions of the       *)
(* SQLite store.  CleanupQueue models the settling protocol with abstract  *)
(* claims; here a claim is what the tables really hold, a timestamp and an *)
(* instance name, and the clocks that write and compare timestamps differ: *)
(* PostgreSQL stamps with the database's NOW() and compares against a      *)
(* cutoff computed on an instance's own clock, SQLite uses the one         *)
(* process' clock for both.                                                *)
(*                                                                         *)
(* A task is one caller of the statements: a request that queued the bytes *)
(* it displaced, or a pass of an instance's cleanup worker.                *)
(***************************************************************************)
EXTENDS Integers, FiniteSets, Sequences, SequencesExt

CONSTANTS
    Tasks,          \* the callers
    InstanceOf,     \* the instance each runs in
    Skew,           \* each instance's clock minus the database's
    Copies,         \* [backend, path]: bytes a transaction can displace
    MaxCleanupAttempts,
    Grace,          \* the claim's grace period, in clock ticks
    BackoffTicks,   \* the wait before a retry
    Limit,          \* rows a worker claims at once
    MaxRows,        \* bound: rows the queue ever holds (ids handed out)
    MaxNow          \* bound: the database clock's last tick

\* A clock runs less than the grace period ahead of the database's.
SkewAssumption == \A t \in Tasks : Skew[t] \in -Grace..Grace

VARIABLES
    engine,   \* the engine of this deployment
    now,      \* the database's clock
    queue,    \* cleanup_queue rows
    dlq,      \* cleanup_dlq rows
    nextId,   \* the id the next queued row gets
    held,     \* per task: the cleanup items it has read and not settled
    owed      \* queued rows less those reported retired or swept

vars == <<engine, now, queue, dlq, nextId, held, owed>>

Engines == {"postgres", "sqlite"}
NoTime == -1
NoOne == "none"
Backends == {c.backend : c \in Copies}

Init ==
    /\ engine \in Engines
    /\ now = 0
    /\ queue = {}
    /\ dlq = {}
    /\ nextId = 1
    /\ held = [t \in Tasks |-> {}]
    /\ owed = 0

\* The clock an instance computes its grace cutoff with.
AppNow(t) == IF engine = "sqlite" THEN now ELSE now + Skew[t]

(***************************************************************************)
(* Queueing.                                                               *)
(***************************************************************************)

\* A row as the columns' defaults fill it.
NewRow(c, id) ==
    [id |-> id, copy |-> c, attempts |-> 0, next |-> now, created |-> now,
     claim |-> NoTime, by |-> NoOne]

\* The item a statement returns for a row.
ItemOf(r, reclaimed) ==
    [id |-> r.id, copy |-> r.copy, attempts |-> r.attempts,
     claim |-> r.claim, by |-> r.by, reclaimed |-> reclaimed]

\* unnest zips the request's arrays into one claimed row each.
PgInsertCleanup(cs, who) ==
    {[NewRow(cs[i], nextId + i - 1) EXCEPT !.claim = now, !.by = who] : i \in DOMAIN cs}

\* One statement per request, all with the stamp taken once.
LiteInsertCleanup(cs, who) ==
    LET stamp == now IN
    {[NewRow(cs[i], nextId + i - 1) EXCEPT !.claim = stamp, !.by = who] : i \in DOMAIN cs}

InsertCleanup(t, cs) ==
    LET rows == IF engine = "postgres" THEN PgInsertCleanup(cs, InstanceOf[t])
                ELSE LiteInsertCleanup(cs, InstanceOf[t])
    IN /\ held[t] = {}
       /\ nextId + Len(cs) <= MaxRows + 1
       /\ queue' = queue \cup rows
       /\ nextId' = nextId + Len(cs)
       /\ held' = [held EXCEPT ![t] = {ItemOf(r, FALSE) : r \in rows}]
       /\ owed' = owed + Len(cs)
       /\ UNCHANGED <<engine, now, dlq>>

(***************************************************************************)
(* Claiming.                                                               *)
(***************************************************************************)

\* ORDER BY next_retry, created_at; rows that tie come in id order.
Sooner(a, b) ==
    \/ a.next < b.next
    \/ a.next = b.next /\ a.created < b.created
    \/ a.next = b.next /\ a.created = b.created /\ a.id < b.id

\* The first n rows of the order.
FirstRows(rows, n) == {r \in rows : Cardinality({o \in rows : Sooner(o, r)}) < n}

\* Due rows still under the attempt ceiling.
Pending == {r \in queue : r.next <= now /\ r.attempts < MaxCleanupAttempts}

PgCandidates(cutoff) == {r \in Pending : r.claim = NoTime \/ r.claim < cutoff}

\* claimed_at is text; the fixed-width form compares as the time does.
LiteClaimable(cutoff) == {r \in Pending : r.claim = NoTime \/ r.claim < cutoff}

\* The rows selected, stamped; SKIP LOCKED leaves rows another claim is on.
PgClaimPendingCleanups(n, who, cutoff) ==
    {[r EXCEPT !.claim = now, !.by = who] : r \in FirstRows(PgCandidates(cutoff), n)}

StampClaims(rows, who) == {[r EXCEPT !.claim = now, !.by = who] : r \in rows}

LiteClaimPendingCleanups(n, who, cutoff) ==
    StampClaims(FirstRows(LiteClaimable(cutoff), n), who)

Claimed(t, n) ==
    LET cutoff == AppNow(t) - Grace
    IN IF engine = "postgres" THEN PgClaimPendingCleanups(n, InstanceOf[t], cutoff)
       ELSE LiteClaimPendingCleanups(n, InstanceOf[t], cutoff)

Row(id) == CHOOSE r \in queue : r.id = id

ClaimPendingCleanups(t) ==
    LET rows == Claimed(t, Limit)
    IN /\ held[t] = {}
       /\ rows # {}
       /\ queue' = {r \in queue : \A c \in rows : c.id # r.id} \cup rows
       /\ held' = [held EXCEPT ![t] =
                     {ItemOf(c, Row(c.id).claim # NoTime) : c \in rows}]
       /\ UNCHANGED <<engine, now, dlq, nextId, owed>>

(***************************************************************************)
(* Settling.                                                               *)
(***************************************************************************)

\* The claim condition every settle write ends with.
Holds(r, item) == r.id = item.id /\ r.claim = item.claim /\ r.by = item.by

\* One DELETE over the zipped ids and claims.
PgCompleteCleanupItems(items) == {r \in queue : \E i \in items : Holds(r, i)}

\* One DELETE per item, in one transaction.
LiteCompleteCleanupItems(items) == UNION {{r \in queue : Holds(r, i)} : i \in items}

CompleteCleanupItems(t, items) ==
    LET retired == IF engine = "postgres" THEN PgCompleteCleanupItems(items)
                   ELSE LiteCompleteCleanupItems(items)
    IN /\ items # {}
       /\ queue' = queue \ retired
       /\ held' = [held EXCEPT ![t] = @ \ items]
       /\ owed' = owed - Cardinality(retired)
       /\ UNCHANGED <<engine, now, dlq, nextId>>

\* The settler moves an item to the dead letters on its last attempt.
Exhausted(item) == item.attempts + 1 >= MaxCleanupAttempts

Rescheduled(r) ==
    [r EXCEPT !.attempts = @ + 1, !.next = now + BackoffTicks, !.claim = NoTime, !.by = NoOne]

RetryCleanupItem(t, item) ==
    LET rows == {r \in queue : Holds(r, item)}
    IN /\ ~Exhausted(item)
       /\ queue' = (queue \ rows) \cup {Rescheduled(r) : r \in rows}
       /\ held' = [held EXCEPT ![t] = @ \ {item}]
       /\ UNCHANGED <<engine, now, dlq, nextId, owed>>

DeadLetter(r) == [id |-> r.id, copy |-> r.copy, attempts |-> r.attempts,
                  first |-> r.created, moved |-> now]

\* DELETE ... RETURNING feeds the INSERT.
PgMoveCleanupToDLQ(item) ==
    LET moved == {r \in queue : Holds(r, item)}
    IN [queue |-> queue \ moved, dlq |-> dlq \cup {DeadLetter(r) : r \in moved}]

\* moveRows: copy, then delete the rows the copy read; nothing copied deletes
\* nothing.
LiteMoveCleanupToDLQ(item) ==
    LET copied == {r \in queue : Holds(r, item)}
    IN [queue |-> IF copied = {} THEN queue ELSE queue \ {r \in queue : Holds(r, item)},
        dlq |-> dlq \cup {DeadLetter(r) : r \in copied}]

MoveCleanupToDLQ(t, item) ==
    LET after == IF engine = "postgres" THEN PgMoveCleanupToDLQ(item)
                 ELSE LiteMoveCleanupToDLQ(item)
    IN /\ Exhausted(item)
       /\ queue' = after.queue
       /\ dlq' = after.dlq
       /\ held' = [held EXCEPT ![t] = @ \ {item}]
       /\ UNCHANGED <<engine, now, nextId, owed>>

\* A caller that dies, or whose settle fails, leaves its claims behind.
Abandon(t) ==
    /\ held[t] # {}
    /\ held' = [held EXCEPT ![t] = {}]
    /\ UNCHANGED <<engine, now, queue, dlq, nextId, owed>>

(***************************************************************************)
(* Sweeps, dead letters and depths.                                        *)
(***************************************************************************)

\* Reconcile found the bytes at the path gone.
SweepStaleCleanupQueueRows(c) ==
    LET swept == {r \in queue : r.copy = c}
    IN /\ swept # {}
       /\ queue' = queue \ swept
       /\ owed' = owed - Cardinality(swept)
       /\ UNCHANGED <<engine, now, dlq, nextId, held>>

\* The dead letters in scope come back as fresh rows; ids follow the order
\* they are read in.
Requeued(letters) ==
    LET seq == SetToSeq(letters)
    IN {NewRow(seq[i].copy, nextId + i - 1) : i \in DOMAIN seq}

\* An empty backend ("") is every backend.
InScope(b) == {d \in dlq : b = "" \/ d.copy.backend = b}

RequeueCleanupDLQ(b) ==
    LET letters == InScope(b)
    IN /\ letters # {}
       /\ nextId + Cardinality(letters) <= MaxRows + 1
       /\ queue' = queue \cup Requeued(letters)
       /\ dlq' = dlq \ letters
       /\ nextId' = nextId + Cardinality(letters)
       /\ UNCHANGED <<engine, now, held, owed>>

CleanupQueueDepth == Cardinality({r \in queue : r.attempts < MaxCleanupAttempts})
CleanupDLQDepth == Cardinality(dlq)

Tick ==
    /\ now < MaxNow
    /\ now' = now + 1
    /\ UNCHANGED <<engine, queue, dlq, nextId, held, owed>>

Next ==
    \/ \E t \in Tasks :
          \/ \E cs \in {s \in SeqOf(Copies, 2) : s # <<>>} : InsertCleanup(t, cs)
          \/ ClaimPendingCleanups(t)
          \/ \E items \in SUBSET held[t] : CompleteCleanupItems(t, items)
          \/ \E item \in held[t] : RetryCleanupItem(t, item) \/ MoveCleanupToDLQ(t, item)
          \/ Abandon(t)
    \/ \E c \in Copies : SweepStaleCleanupQueueRows(c)
    \/ \E b \in Backends \cup {""} : RequeueCleanupDLQ(b)
    \/ Tick

Spec == Init /\ [][Next]_vars

(***************************************************************************)
(* Properties.                                                             *)
(***************************************************************************)

TypeOK ==
    /\ engine \in Engines
    /\ now \in 0..MaxNow
    /\ \A r \in queue :
          /\ r.id \in 1..MaxRows /\ r.copy \in Copies
          /\ r.attempts \in 0..MaxCleanupAttempts
          /\ r.claim \in {NoTime} \cup 0..now
          /\ r.claim = NoTime <=> r.by = NoOne
    /\ \A d \in dlq : d.copy \in Copies /\ d.first <= d.moved
    /\ nextId \in 1..MaxRows + 1
    /\ owed \in 0..MaxRows

\* The two depths the dashboard and the gauges show are exactly the rows queued
\* less the rows the statements reported retired or swept: a settle, a move to
\* the dead letters or a requeue neither drops bytes nor counts them twice, and
\* no row is past the ceiling where a claim or the depth would overlook it.
DepthsAddUp == CleanupQueueDepth + CleanupDLQDepth = owed

\* However the clocks disagree, a row has at most one task whose settle writes
\* it would still accept: the one holding the claim the row carries.
OneHolder ==
    \A r \in queue : \A t, u \in Tasks :
        ((\E i \in held[t] : Holds(r, i)) /\ (\E i \in held[u] : Holds(r, i))) => t = u

\* Whatever the rows and whichever task asks, both engines claim the same rows.
EnginesAgree ==
    \A t \in Tasks : \A n \in 1..MaxRows :
        PgClaimPendingCleanups(n, InstanceOf[t], AppNow(t) - Grace)
            = LiteClaimPendingCleanups(n, InstanceOf[t], AppNow(t) - Grace)

\* The claim a row carries is cleared, or an attempt counted against it, only
\* by the task holding that claim, by a task that found it older than its
\* grace cutoff, or by the sweep of its path; a task whose claim was taken
\* over changes nothing.
ClaimRespected ==
  \A r \in queue : r.claim # NoTime /\ r \notin queue' =>
          \/ \E t \in Tasks : held'[t] # held[t] /\ \E i \in held[t] \ held'[t] : Holds(r, i)
          \/ \E t \in Tasks : r.claim < AppNow(t) - Grace
                              /\ \E i \in held'[t] : i.id = r.id /\ i.reclaimed
          \/ held' = held /\ \A q \in queue' : q.copy # r.copy
=============================================================================
