----------------------------- MODULE MCAccounts -----------------------------
(***************************************************************************)
(* What the instances count and keep in shared tables: the flush of usage   *)
(* counters, which is the module's own part, and beside it the same flush   *)
(* where no answer is lost and over days, the quota statements, the         *)
(* cleanup queue's statements, the notification outbox and the circuit      *)
(* breakers. A behaviour is one part's; the others are idle.                *)
(***************************************************************************)
EXTENDS UsageFlush, Integers, Sequences

CONSTANTS Parts, \* the instances a run explores
          Off    \* the value of a component that is not running

VARIABLES part, otherCharge, otherBy, otherLive, otherContent, otherPresent, otherStagedDay,
          otherRecorded, otherRecordedDay, otherDb, otherLocal, otherSwapped, otherBatch,
          otherTodo, otherPc, otherSettling, otherBase, otherDay, otherFaults, otherGone,
          engine, limits, stripes, copies, pending, orphans, requeued, locks, slots, conns,
          tx, quotaFaults, queueEngine, now, queue, dlq, nextId, held, owed, fate, outbox,
          attempts, waiting, lock, outboxTodo, result, dampened, refused, accepted,
          outboxFaults, state, failures, reported, down, changes, st, call, res, hook,
          breakerHeld, nextDue, failed

otherVars == <<otherCharge, otherBy, otherLive, otherContent, otherPresent, otherStagedDay,
               otherRecorded, otherRecordedDay, otherDb, otherLocal, otherSwapped,
               otherBatch, otherTodo, otherPc, otherSettling, otherBase, otherDay,
               otherFaults, otherGone>>
quotaVars == <<engine, limits, stripes, copies, pending, orphans, requeued, locks, slots,
               conns, tx, quotaFaults>>
queueVars == <<queueEngine, now, queue, dlq, nextId, held, owed>>
outboxVars == <<fate, outbox, attempts, waiting, lock, outboxTodo, result, dampened,
                refused, accepted, outboxFaults>>
breakerVars == <<state, failures, reported, down, changes, st, call, res, hook, breakerHeld,
                 nextDue, failed>>
allVars == <<part, vars, otherVars, quotaVars, queueVars, outboxVars, breakerVars>>

(* A request and a worker of one instance, a worker of another whose clock   *)
(* runs ahead of the database's.                                             *)
CleanupTasks == {"request1", "worker1", "worker2"}

-----------------------------------------------------------------------------
Exact == INSTANCE UsageFlush WITH
    charge <- otherCharge, by <- otherBy,
    live <- otherLive, content <- otherContent, present <- otherPresent,
    stagedDay <- otherStagedDay, recorded <- otherRecorded, recordedDay <- otherRecordedDay,
    db <- otherDb, local <- otherLocal, swapped <- otherSwapped, batch <- otherBatch,
    todo <- otherTodo, pc <- otherPc, settling <- otherSettling, base <- otherBase,
    day <- otherDay, faults <- otherFaults, gone <- otherGone, Charges <- {"c1", "c2"},
    Instances <- {"i1", "i2"}, FlushIDs <- {"f1"}, KeyTTL <- 1, UsageFlushRetention <- 2,
    MaxDay <- 0, MaxFaults <- 1, LostAnswers <- FALSE, LostCommits <- FALSE,
    SlowCharges <- FALSE
Aging == INSTANCE UsageFlush WITH
    charge <- otherCharge, by <- otherBy,
    live <- otherLive, content <- otherContent, present <- otherPresent,
    stagedDay <- otherStagedDay, recorded <- otherRecorded, recordedDay <- otherRecordedDay,
    db <- otherDb, local <- otherLocal, swapped <- otherSwapped, batch <- otherBatch,
    todo <- otherTodo, pc <- otherPc, settling <- otherSettling, base <- otherBase,
    day <- otherDay, faults <- otherFaults, gone <- otherGone, Charges <- {"c1", "c2"},
    Instances <- {"i1"}, FlushIDs <- {"f1", "f2"}, KeyTTL <- 1, UsageFlushRetention <- 2,
    MaxDay <- 2, MaxFaults <- 1, LostAnswers <- FALSE, LostCommits <- TRUE,
    SlowCharges <- FALSE
Ceiling == INSTANCE QuotaStatements WITH
    faults <- quotaFaults, Backends <- {1, 2},
    Keys <- {1, 2}, Writers <- {"w1", "w2"}, Deleters <- {}, Reconcilers <- {},
    Engines <- {"postgres", "sqlite"}, KeyHash <- <<1, 2>>, StripeFor <- <<0, 0>>,
    SizeOf <- [w1 |-> 1, w2 |-> 2], CopiesWanted <- 1, MaxConns <- 4, Ceilings <- <<2, 2>>,
    Synced <- <<2, 2>>, Drift <- <<0, 0>>, Batches <- {{1}, {2}}, MaxOrphans <- 2,
    MaxFaults <- 0
Drifting == INSTANCE QuotaStatements WITH
    faults <- quotaFaults, Backends <- {1, 2},
    Keys <- {1, 2}, Writers <- {"w1"}, Deleters <- {"d"}, Reconcilers <- {"r"},
    Engines <- {"postgres", "sqlite"}, KeyHash <- <<1, 2>>, StripeFor <- <<0, 0>>,
    SizeOf <- [w1 |-> 1], CopiesWanted <- 1, MaxConns <- 2, Ceilings <- <<0, 0>>,
    Synced <- <<2, 2>>, Drift <- <<1, -1>>, Batches <- {{1}, {2}}, MaxOrphans <- 1,
    MaxFaults <- 0
Contended == INSTANCE QuotaStatements WITH
    faults <- quotaFaults, Backends <- {1, 2},
    Keys <- {1, 2}, Writers <- {"w1", "w2"}, Deleters <- {}, Reconcilers <- {"r"},
    Engines <- {"postgres"}, KeyHash <- <<1, 2>>, StripeFor <- <<0, 0>>,
    SizeOf <- [w1 |-> 1, w2 |-> 1], CopiesWanted <- 1, MaxConns <- 2, Ceilings <- <<0, 0>>,
    Synced <- <<2, 2>>, Drift <- <<1, -1>>, Batches <- {{1}, {2}}, MaxOrphans <- 1,
    MaxFaults <- 0
Queue == INSTANCE CleanupStatements WITH
    engine <- queueEngine, Tasks <- CleanupTasks,
    InstanceOf <- [t \in CleanupTasks |-> IF t = "worker2" THEN "i2" ELSE "i1"],
    Skew <- [t \in CleanupTasks |-> IF t = "worker2" THEN 1 ELSE 0],
    Copies <- {[backend |-> "b1", path |-> "p1"], [backend |-> "b2", path |-> "p2"]},
    MaxCleanupAttempts <- 2, Grace <- 1, BackoffTicks <- 1, Limit <- 1, MaxRows <- 2,
    MaxNow <- 2
Outboxes == INSTANCE Outbox WITH
    todo <- outboxTodo, faults <- outboxFaults,
    Instances <- {"i1", "i2"}, Knows <- {"i1", "i2"}, Events <- {"e1", "e2", "e3"},
    Warnings <- {"e3"}, MaxRetries <- 2, PendingBatchSize <- 2, LostSessions <- FALSE,
    MaxFaults <- 1, None <- "none"
Settled == INSTANCE Outbox WITH
    todo <- outboxTodo, faults <- outboxFaults,
    Instances <- {"i1", "i2"}, Knows <- {"i1"}, Events <- {"e1", "e2"}, Warnings <- {},
    MaxRetries <- 2, PendingBatchSize <- 2, LostSessions <- TRUE, MaxFaults <- 2,
    None <- "none"
Breaking == INSTANCE Breakers WITH
    held <- breakerHeld, Threads <- {"t1", "t2"},
    Calls <- {"get"}, Backend <- "backend", DB <- "db", Threshold <- 2, Base <- 1,
    MaxBackoff <- 2, Notifies <- TRUE, Fallible <- {"get", "db"}, MaxChanges <- 2
Separate == INSTANCE Breakers WITH
    held <- breakerHeld, Threads <- {"t1"},
    Calls <- {"get", "put"}, Backend <- "backend", DB <- "db", Threshold <- 2, Base <- 1,
    MaxBackoff <- 2, Notifies <- TRUE, Fallible <- {"get", "put"}, MaxChanges <- 3

ASSUME Ceiling!StripesAssumption /\ Drifting!StripesAssumption
ASSUME Queue!SkewAssumption

otherOff == otherCharge = Off /\ otherBy = Off /\ otherLive = Off /\ otherContent = Off /\
            otherPresent = Off /\ otherStagedDay = Off /\ otherRecorded = Off /\
            otherRecordedDay = Off /\ otherDb = Off /\ otherLocal = Off /\
            otherSwapped = Off /\ otherBatch = Off /\ otherTodo = Off /\ otherPc = Off /\
            otherSettling = Off /\ otherBase = Off /\ otherDay = Off /\ otherFaults = Off /\
            otherGone = Off
quotaOff == engine = Off /\ limits = Off /\ stripes = Off /\ copies = Off /\
            pending = Off /\ orphans = Off /\ requeued = Off /\ locks = Off /\
            slots = Off /\ conns = Off /\ tx = Off /\ quotaFaults = Off
queueOff == queueEngine = Off /\ now = Off /\ queue = Off /\ dlq = Off /\ nextId = Off /\
            held = Off /\ owed = Off
outboxOff == Settled!Init
breakerOff == state = Off /\ failures = Off /\ reported = Off /\ down = Off /\
              changes = Off /\ st = Off /\ call = Off /\ res = Off /\ hook = Off /\
              breakerHeld = Off /\ nextDue = Off /\ failed = Off

InitPart ==
    /\ part \in Parts
    /\ Init
    /\ CASE part = "exact" -> Exact!Init
         [] part = "days" -> Aging!Init
         [] OTHER -> otherOff
    /\ CASE part = "ceilings" -> Ceiling!Init
         [] part = "drift" -> Drifting!Init
         [] part = "waits" -> Contended!Init
         [] OTHER -> quotaOff
    /\ IF part = "queue" THEN Queue!Init ELSE queueOff
    /\ CASE part = "outbox" -> Outboxes!Init
         [] part = "settled" -> Settled!Init
         [] OTHER -> outboxOff
    /\ CASE part = "breakers" -> Breaking!Init
         [] part = "calls" -> Separate!Init
         [] OTHER -> breakerOff

NextPart ==
    \/ part = "flush" /\ Next
       /\ UNCHANGED <<part, otherVars, quotaVars, queueVars, outboxVars, breakerVars>>
    \/ /\ \/ part = "exact" /\ Exact!Next
          \/ part = "days" /\ Aging!Next
       /\ UNCHANGED <<part, vars, quotaVars, queueVars, outboxVars, breakerVars>>
    \/ /\ \/ part = "ceilings" /\ Ceiling!Next
          \/ part = "drift" /\ Drifting!Next
          \/ part = "waits" /\ Contended!Next
       /\ UNCHANGED <<part, vars, otherVars, queueVars, outboxVars, breakerVars>>
    \/ part = "queue" /\ Queue!Next
       /\ UNCHANGED <<part, vars, otherVars, quotaVars, outboxVars, breakerVars>>
    \/ /\ \/ part = "outbox" /\ Outboxes!Next
          \/ part = "settled" /\ Settled!Next
       /\ UNCHANGED <<part, vars, otherVars, quotaVars, queueVars, breakerVars>>
    \/ /\ \/ part = "breakers" /\ Breaking!Next
          \/ part = "calls" /\ Separate!Next
       /\ UNCHANGED <<part, vars, otherVars, quotaVars, queueVars, outboxVars>>

SpecParts == InitPart /\ [][NextPart]_allVars
(* The drainer ticks, posts and statements end, retries come due.            *)
Fairness ==
    /\ WF_outboxVars(part = "settled" /\ \E i \in {"i1", "i2"} : Settled!Tick(i))
    /\ \A i \in {"i1", "i2"} : WF_outboxVars(part = "settled" /\ Settled!Drain(i))
    /\ \A e \in {"e1", "e2"} : WF_outboxVars(part = "settled" /\ Settled!RetryDue(e))
FairParts == SpecParts /\ Fairness

-----------------------------------------------------------------------------
(* What an instance hands on arrives, and once unless a fault explains the  *)
(* repeat: where no answer of Redis or the store is lost no charge is       *)
(* counted twice by any path (flushLocal, FlushWindow), none of a staged    *)
(* batch is over the days on which batches and flush ids expire             *)
(* (pruneFlushIDs), and a row leaves the outbox only when the endpoint      *)
(* took the event or its retries are spent (drain).                         *)
ArrivesOnce ==
    /\ part = "flush" => FlushInv
    /\ part = "exact" => Exact!FlushInv /\ Exact!CountedOnce
    /\ part = "days" => Aging!FlushInv
    /\ part = "outbox" => Outboxes!TypeOK /\ Outboxes!RetriedUntilSpent /\
                           Outboxes!RepeatsAreFaults

(* The bytes recorded, awaiting deletion and claimed on a backend never     *)
(* pass its ceiling whatever claims race, transactions never wait in a      *)
(* circle, and queued claims leave half of the connections                  *)
(* (AcquireBackendLock, InsertPendingIfFits, LockBackendsForClaim); a       *)
(* cleanup row has at most one task whose settle is accepted however        *)
(* clocks disagree, and its depth gauges add up (ClaimPendingCleanups,      *)
(* CleanupQueueDepth).                                                      *)
StatementsHold ==
    /\ part = "ceilings" => Ceiling!TypeOK /\ Ceiling!WithinCeiling
    /\ part = "drift" => Drifting!TypeOK /\ Drifting!NoWaitCycle
    /\ part = "waits" => Contended!TypeOK /\ Contended!NoWaitCycle /\
                          Contended!PoolLeftForOthers
    /\ part = "queue" => Queue!TypeOK /\ Queue!DepthsAddUp /\ Queue!OneHolder /\
                          Queue!EnginesAgree


(* A backend is reported open exactly while it does not serve every call,   *)
(* however the transitions of its breakers interleave (apply).              *)
ReportedHealth ==
    /\ part = "breakers" => Breaking!TypeOK /\ Breaking!ReportedHealth
    /\ part = "calls" => Separate!TypeOK /\ Separate!ReportedHealth
=============================================================================
