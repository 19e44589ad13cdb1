--------------------------- MODULE QuotaStatements ---------------------------
(***************************************************************************)
(* The byte accounting of the store at statement granularity: claims,      *)
(* commits, batch deletes and the usage reconcile as transactions that     *)
(* take a connection, take locks one at a time, read at their own          *)
(* statement's snapshot and publish at commit.                             *)
(*                                                                         *)
(* Postgres runs transactions side by side under READ COMMITTED: advisory  *)
(* locks on hashed keys and on backends with a ceiling, row locks on the   *)
(* striped byte counters.  SQLite has one connection, so its locks are     *)
(* no-ops and a transaction runs alone.                                    *)
(***************************************************************************)
EXTENDS Integers, Sequences, FiniteSets, FiniteSetsExt, SequencesExt

CONSTANTS
    Backends,      \* backend names, as integers in byte order
    Keys,          \* object keys, as integers in byte order
    Writers,       \* tasks that put objects
    Deleters,      \* tasks that delete batches of keys
    Reconcilers,   \* tasks that correct the counters' drift
    Engines,       \* the engines the instance may run on
    KeyHash,       \* the hash of a key that its advisory lock is taken on
    StripeFor,     \* the stripe a key's bytes are charged to
    SizeOf,        \* the bytes each writer's object takes
    CopiesWanted,  \* copies a write claims
    MaxConns,      \* the pool's connections on Postgres
    Ceilings,      \* each backend's configured ceiling, 0 for none
    Synced,        \* the ceiling a reload configures, or Ceilings
    Drift,         \* what each backend's counters are off by at the start
    Batches,       \* the key batches a deleter may take
    MaxOrphans,    \* bound: bytes awaiting deletion before writes pause
    MaxFaults      \* bound: transactions that fail

StripesAssumption == \A k \in Keys : StripeFor[k] \in Nat

VARIABLES engine, limits, stripes, copies, pending,
          orphans,    \* bytes queued for deletion on each backend
          requeued,   \* bytes an overtaken write queued a second time
          locks, slots, conns, tx, faults

queued == <<orphans, requeued>>
store == <<limits, stripes, copies, pending, queued>>
vars == <<engine, store, locks, slots, conns, tx, faults>>

Tasks == Writers \cup Deleters \cup Reconcilers
Stripes == {0} \cup Range(StripeFor)

\* A task between transactions.
Idle == [pc |-> "idle", keys |-> {}, ranked |-> <<>>, want |-> <<>>,
         own |-> {}, gone |-> {}, charges |-> [r \in {} |-> 0]]

Init ==
    /\ engine \in Engines
    /\ limits = Ceilings
    /\ stripes = [r \in Backends \X Stripes |-> IF r[2] = 0 THEN Drift[r[1]] ELSE 0]
    /\ copies = {} /\ pending = {}
    /\ orphans = [b \in Backends |-> 0] /\ requeued = orphans
    /\ locks = [l \in {} |-> 0]
    /\ slots = {} /\ conns = {}
    /\ tx = [t \in Tasks |-> Idle]
    /\ faults = 0

Move(t, f) == tx' = [tx EXCEPT ![t] = f]

-----------------------------------------------------------------------------
(* What the tables add up to. *)

SumOf(rows) == MapThenSumSet(LAMBDA r : r.size, rows)
StripedIn(s, b) == MapThenSumSet(LAMBDA i : s[<<b, i>>], Stripes)
Striped(b) == StripedIn(stripes, b)
LedgerBytes(b) == SumOf({c \in copies : c.backend = b})

\* backend_capacity: the clamp is on the sum, since a stripe may be negative.
Available(b, intents) ==
    limits[b] - Max({0, Striped(b)}) - orphans[b] - requeued[b]
              - SumOf({p \in intents : p.backend = b})

-----------------------------------------------------------------------------
(* Connections, slots and locks. *)

PoolSize == IF engine = "sqlite" THEN 1 ELSE MaxConns

\* NewTxOps is given half the pool on Postgres and one slot on SQLite.
ClaimSlots == IF engine = "sqlite" THEN 1 ELSE Max({1, MaxConns \div 2})

Ascending(S) == SetToSortSeq(S, <)

NoBackendLocks(S) == <<>>

\* LockBackendsForClaim: only the backends that have a ceiling, in byte order.
AcquireBackendLock(S) ==
    IF engine = "sqlite" THEN <<>>
    ELSE LET capped == Ascending({b \in S : limits[b] > 0})
         IN  [i \in DOMAIN capped |-> <<"backend", capped[i]>>]

\* LockObjectKeysForWrite: the keys in byte order, each locked by its hash.
\* A hash the transaction already holds is taken again at once.
AcquireKeyLock(S) ==
    IF engine = "sqlite" THEN <<>>
    ELSE LET ks == Ascending(S)
         IN  [i \in DOMAIN ks |-> <<"key", KeyHash[ks[i]]>>]

Held(t) == {l \in DOMAIN locks : locks[l] = t}
Free(l, t) == l \in DOMAIN locks => locks[l] = t
Unlocked(t) == [l \in DOMAIN locks \ Held(t) |-> locks[l]]

\* The transaction ends: its locks and its connection go back.
EndTx(t) ==
    /\ locks' = Unlocked(t)
    /\ conns' = conns \ {t}
    /\ slots' = slots \ {t}

\* A transaction waiting in a lock statement gets the next lock.
Lock(t) ==
    /\ tx[t].want # <<>>
    /\ Free(Head(tx[t].want), t)
    /\ locks' = [l \in DOMAIN locks \cup {Head(tx[t].want)} |->
                    IF l = Head(tx[t].want) THEN t ELSE locks[l]]
    /\ Move(t, [tx[t] EXCEPT !.want = Tail(@)])
    /\ UNCHANGED <<engine, store, slots, conns, faults>>

-----------------------------------------------------------------------------
(* Claims. *)

\* A put begins, once the reaper is through with what the task's last one left.
BeginClaim(t, k, r) ==
    /\ tx[t].pc = "idle"
    /\ \A p \in pending : p.by # t
    /\ MapThenSumSet(LAMBDA b : orphans[b] + requeued[b], Backends) < MaxOrphans
    /\ Move(t, [Idle EXCEPT !.pc = "slot", !.keys = {k}, !.ranked = r])
    /\ UNCHANGED <<engine, store, locks, slots, conns, faults>>

\* claimTx waits for a slot before it takes a connection.
AcquireSlot(t) ==
    /\ tx[t].pc = "slot"
    /\ Cardinality(slots) < ClaimSlots
    /\ slots' = slots \cup {t}
    /\ Move(t, [tx[t] EXCEPT !.pc = "claimconn"])
    /\ UNCHANGED <<engine, store, locks, conns, faults>>

ClaimTx(t) ==
    /\ tx[t].pc = "claimconn"
    /\ Cardinality(conns) < PoolSize
    /\ conns' = conns \cup {t}
    /\ Move(t, [tx[t] EXCEPT !.pc = "claim", !.want = AcquireBackendLock(Range(tx[t].ranked))])
    /\ UNCHANGED <<engine, store, locks, slots, faults>>

\* The conditional insert's test, at the snapshot its statement starts with.
Fits(t, b) ==
    limits[b] = 0 \/ Available(b, pending \cup tx[t].own) >= SizeOf[t]

\* ClaimInRankOrder: the next candidate takes the next copy or declines it.
InsertPendingIfFits(t) ==
    /\ tx[t].pc = "claim" /\ tx[t].want = <<>>
    /\ tx[t].ranked # <<>>
    /\ Cardinality(tx[t].own) < CopiesWanted
    /\ LET b == Head(tx[t].ranked)
           i == [by |-> t, key |-> CHOOSE k \in tx[t].keys : TRUE,
                 backend |-> b, size |-> SizeOf[t]]
       IN  Move(t, [tx[t] EXCEPT !.ranked = Tail(@),
                                 !.own = IF Fits(t, b) THEN @ \cup {i} ELSE @])
    /\ UNCHANGED <<engine, store, locks, slots, conns, faults>>

\* The claim commits; a write that got no backend is refused.
CommitClaim(t) ==
    /\ tx[t].pc = "claim" /\ tx[t].want = <<>>
    /\ tx[t].ranked = <<>> \/ Cardinality(tx[t].own) = CopiesWanted
    /\ pending' = pending \cup tx[t].own
    /\ Move(t, IF tx[t].own = {} THEN Idle
               ELSE [Idle EXCEPT !.pc = "uploaded", !.keys = tx[t].keys, !.own = tx[t].own])
    /\ EndTx(t)
    /\ UNCHANGED <<engine, limits, stripes, copies, queued, faults>>

-----------------------------------------------------------------------------
(* Commits and deletes: the rows change and their stripes are charged. *)

\* What dropping some rows and adding others charges, zero deltas left out.
StripeDeltas(gone, added) ==
    LET Row(c) == <<c.backend, StripeFor[c.key]>>
        Delta(r) == SumOf({c \in added : Row(c) = r}) - SumOf({c \in gone : Row(c) = r})
        rows == {Row(c) : c \in gone \cup added}
    IN  [r \in {x \in rows : Delta(x) # 0} |-> Delta(r)]

\* The order stripeDeltas.charge writes rows in.
Before(x, y) == x[1] < y[1] \/ (x[1] = y[1] /\ x[2] < y[2])

\* AdjustQuotaStripes writes one row after another, locking each.
AdjustQuotaStripes(deltas) ==
    IF engine = "sqlite" THEN <<>>
    ELSE LET rows == SetToSortSeq(DOMAIN deltas, Before)
         IN  [i \in DOMAIN rows |-> <<"stripe", rows[i][1], rows[i][2]>>]

Charged(deltas) ==
    [r \in DOMAIN stripes |-> stripes[r] + (IF r \in DOMAIN deltas THEN deltas[r] ELSE 0)]

\* A transaction over the task's keys takes a connection and locks the keys.
BeginTx(t) ==
    /\ tx[t].pc \in {"uploaded", "delete"}
    /\ Cardinality(conns) < PoolSize
    /\ conns' = conns \cup {t}
    /\ Move(t, [tx[t] EXCEPT !.pc = IF @ = "delete" THEN "remove" ELSE "record",
                             !.want = AcquireKeyLock(tx[t].keys)])
    /\ UNCHANGED <<engine, store, locks, slots, faults>>

BeginDelete(t, ks) ==
    /\ tx[t].pc = "idle"
    /\ \E c \in copies : c.key \in ks
    /\ Move(t, [Idle EXCEPT !.pc = "delete", !.keys = ks])
    /\ UNCHANGED <<engine, store, locks, slots, conns, faults>>

CopiesOf(t) == {[key |-> i.key, backend |-> i.backend, size |-> i.size] : i \in tx[t].own}

\* Under the key locks the write's intents are claimed and the rows to drop are
\* read, and the charge statement begins.  A write whose intent a later write cleared
\* records nothing.
ReadRows(t) ==
    /\ tx[t].pc \in {"record", "remove"} /\ tx[t].want = <<>>
    /\ LET overtaken == ~(tx[t].own \subseteq pending)
           gone == IF overtaken THEN {} ELSE {c \in copies : c.key \in tx[t].keys}
           deltas == StripeDeltas(gone, IF overtaken THEN {} ELSE CopiesOf(t))
       IN  Move(t, [tx[t] EXCEPT
                !.pc = IF overtaken THEN "discard" ELSE "charge",
                !.gone = gone,
                !.charges = deltas,
                !.want = AdjustQuotaStripes(deltas)])
    /\ UNCHANGED <<engine, store, locks, slots, conns, faults>>

\* The keys' intents other than the ones being committed, whose bytes are stale;
\* an overtaken write drops what is left of its own.
ClearPendingForKey(t) ==
    IF tx[t].pc = "discard" THEN tx[t].own \cap pending
    ELSE {p \in pending : p.key \in tx[t].keys} \ tx[t].own

\* The commit: rows replaced, stripes charged, intents cleared, and the bytes
\* no row records any more queued for deletion.  An overtaken write queues all
\* of its bytes, the ones whoever cleared its intent already queued included,
\* since the upload may have landed after that delete ran.
CommitRows(t) ==
    LET cleared == ClearPendingForKey(t)
        again == IF tx[t].pc = "discard" THEN tx[t].own \ cleared ELSE {}
    IN
    /\ tx[t].pc \in {"charge", "discard"} /\ tx[t].want = <<>>
    /\ copies' = (copies \ tx[t].gone) \cup (IF tx[t].pc = "charge" THEN CopiesOf(t) ELSE {})
    /\ stripes' = Charged(tx[t].charges)
    /\ pending' = pending \ (tx[t].own \cup cleared)
    /\ orphans' = [b \in Backends |-> orphans[b]
                     + SumOf({c \in tx[t].gone : c.backend = b})
                     + SumOf({p \in cleared : p.backend = b})]
    /\ requeued' = [b \in Backends |-> requeued[b] + SumOf({p \in again : p.backend = b})]
    /\ Move(t, Idle)
    /\ EndTx(t)
    /\ UNCHANGED <<engine, limits, faults>>

-----------------------------------------------------------------------------
(* The usage reconcile, the reload and the deletions behind them. *)

DriftOf(b) == LedgerBytes(b) - Striped(b)

\* The drift is read at the statement's snapshot and added to stripe zero.
BeginReconcile(t) ==
    /\ tx[t].pc = "idle"
    /\ Cardinality(conns) < PoolSize
    /\ \E b \in Backends : DriftOf(b) # 0
    /\ conns' = conns \cup {t}
    /\ LET off == Ascending({b \in Backends : DriftOf(b) # 0})
       IN  Move(t, [Idle EXCEPT !.pc = "drift",
                !.charges = [r \in Range(off) \X {0} |-> DriftOf(r[1])],
                !.want = IF engine = "sqlite" THEN <<>>
                         ELSE [i \in DOMAIN off |-> <<"stripe", off[i], 0>>]])
    /\ UNCHANGED <<engine, store, locks, slots, faults>>

ReconcileUsage(t) ==
    /\ tx[t].pc = "drift" /\ tx[t].want = <<>>
    /\ stripes' = Charged(tx[t].charges)
    /\ Move(t, Idle)
    /\ EndTx(t)
    /\ UNCHANGED <<engine, limits, copies, pending, queued, faults>>

SyncQuotaLimits ==
    /\ limits # Synced
    /\ limits' = Synced
    /\ UNCHANGED <<engine, stripes, copies, pending, queued, locks, slots, conns, tx, faults>>

\* The cleanup settles every byte queued on a backend.
Settle(b) ==
    /\ orphans[b] + requeued[b] > 0
    /\ orphans' = [orphans EXCEPT ![b] = 0]
    /\ requeued' = [requeued EXCEPT ![b] = 0]
    /\ UNCHANGED <<engine, limits, stripes, copies, pending, locks, slots, conns, tx, faults>>

\* A statement fails: the transaction rolls back.  An uploaded write whose
\* commit failed leaves its intents to the reaper.
Rollback(t) ==
    /\ t \in conns
    /\ faults < MaxFaults
    /\ faults' = faults + 1
    /\ Move(t, Idle)
    /\ EndTx(t)
    /\ UNCHANGED <<engine, store>>

\* The reaper drops an intent whose write is over and whose bytes it did not find.
DeletePending(p) ==
    /\ p \in pending
    /\ p \notin tx[p.by].own
    /\ pending' = pending \ {p}
    /\ UNCHANGED <<engine, limits, stripes, copies, queued, locks, slots, conns, tx, faults>>

Ranked == {r \in [1..Cardinality(Backends) -> Backends] : IsInjective(r)}

Step(t) ==
    \/ AcquireSlot(t) \/ ClaimTx(t) \/ InsertPendingIfFits(t) \/ CommitClaim(t)
    \/ BeginTx(t) \/ ReadRows(t) \/ CommitRows(t) \/ ReconcileUsage(t)

Next ==
    \/ \E t \in Writers, k \in Keys, r \in Ranked : BeginClaim(t, k, r)
    \/ \E t \in Deleters, ks \in Batches : BeginDelete(t, ks)
    \/ \E t \in Reconcilers : BeginReconcile(t)
    \/ \E t \in Tasks : Step(t) \/ Lock(t) \/ Rollback(t)
    \/ \E b \in Backends : Settle(b)
    \/ \E p \in pending : DeletePending(p)
    \/ SyncQuotaLimits

Spec == Init /\ [][Next]_vars

-----------------------------------------------------------------------------
(* Properties. *)

TypeOK ==
    /\ engine \in Engines
    /\ limits \in [Backends -> Nat]
    /\ stripes \in [Backends \X Stripes -> Int]
    /\ copies \subseteq [key : Keys, backend : Backends, size : Range(SizeOf)]
    /\ pending \subseteq [by : Writers, key : Keys, backend : Backends, size : Range(SizeOf)]
    /\ orphans \in [Backends -> Nat] /\ requeued \in [Backends -> Nat]
    /\ \A l \in DOMAIN locks : locks[l] \in conns
    /\ slots \subseteq Writers /\ conns \subseteq Tasks
    /\ faults \in 0..MaxFaults

\* The counters follow the ledger: whatever commits side by side, a backend's
\* striped total moves with the rows recorded on it, so its drift changes only
\* when the usage reconcile brings it to zero (stripeDeltas.charge in the
\* transaction that changes the rows, ReconcileUsage adding the difference).
DriftOnlyCorrected ==
  \A b \in Backends : DriftOf(b)' # DriftOf(b) => DriftOf(b)' = 0

\* A ceiling holds whatever claims race: the bytes recorded, awaiting deletion
\* and claimed on a backend never pass the ceiling it was given (the claim lock
\* of AcquireBackendLock in front of the test of InsertPendingIfFits).
WithinCeiling ==
    \A b \in Backends : limits[b] > 0 =>
        Striped(b) + orphans[b] + SumOf({p \in pending : p.backend = b}) <= limits[b]

\* Transactions never wait for each other in a circle: every multi-row lock is
\* taken in byte order (LockObjectKeysForWrite, LockBackendsForClaim and the
\* sort in stripeDeltas.charge and ReconcileUsage).
WaitsFor(t) == IF tx[t].want # <<>> /\ ~Free(Head(tx[t].want), t)
               THEN {locks[Head(tx[t].want)]} ELSE {}
NoWaitCycle ==
    \A S \in SUBSET Tasks : S # {} => \E t \in S : WaitsFor(t) \cap S = {}

\* Claims that queue on a backend's lock leave connections for everything else:
\* they never hold more than half of a pool of two or more (NewTxOps).
PoolLeftForOthers ==
    PoolSize > 1 => 2 * Cardinality({t \in conns : tx[t].pc = "claim"}) <= PoolSize
=============================================================================
