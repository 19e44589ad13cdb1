----------------------------- MODULE UsageFlush -----------------------------
(***************************************************************************)
(* Usage accounting: every call to a backend is charged, the charge waits  *)
(* in the shared Redis hash or, when Redis does not answer, in the memory  *)
(* of the instance, and each instance's usage tick moves what waits into   *)
(* the store (internal/counter, FlushUsage, ApplyUsageBatch).              *)
(*                                                                         *)
(* One backend, one bucket and one workload: a batch is applied per        *)
(* backend and the rest of its layout plays no part here.  A charge is a   *)
(* model value, so that counting it twice and losing it can be told apart; *)
(* the places it waits in are sets, the store's row counts.                *)
(*                                                                         *)
(*   LostAnswers    a Redis transaction may be applied and its answer lost *)
(*   LostCommits    a store commit may succeed and its answer be lost      *)
(*   SlowCharges    a local charge may be overtaken by a flush between     *)
(*                  Registry.Get and the atomic add                        *)
(***************************************************************************)
EXTENDS Naturals, FiniteSets

CONSTANTS Charges, Instances, FlushIDs,
          KeyTTL, UsageFlushRetention,     \* in days
          MaxDay, MaxFaults,
          LostAnswers, LostCommits, SlowCharges,
          None

\* The id of an applied batch outlives the staged hash it names
\* (UsageFlushRetention is 40 days, keyTTL is 35).
ASSUME RetentionPastTTL ==
  /\ KeyTTL \in Nat /\ UsageFlushRetention \in Nat
  /\ KeyTTL <= UsageFlushRetention

\* A batch of local counters has no flush id.
ASSUME NoneIsNoID == None \notin FlushIDs

ASSUME FlushBounds == MaxDay \in Nat /\ MaxFaults \in Nat

VARIABLES
  charge,     \* of each charge: how far Charge has got, and where it was kept
  by,         \* the instance that made the charge
  live,       \* the charges in the live hash, and the day of the last one
  content,    \* what was renamed to the staged key of each flush id
  present,    \* the staged keys that exist in Redis
  stagedDay,  \* the day of the last charge of a staged hash, which its TTL runs from
  recorded,   \* usage_flushes: the ids of applied batches
  recordedDay,
  db,         \* backend_usage: how often each charge has been added
  local,      \* the counters in the memory of each instance
  swapped,    \* the map SwapAll handed out, not yet read
  batch,      \* the batch of local counters in hand
  todo,       \* the staged batches in hand
  pc,
  settling,   \* the batch Settle is called for, and with what
  base,       \* the baseline admission is judged against
  day,
  faults,     \* crashes and lost commits so far
  gone        \* charges lost with the memory of an instance, or expired in Redis

shared == <<live, content, present, stagedDay>>
stored == <<recorded, recordedDay, db>>
memory == <<local, swapped, batch, todo, pc, settling, base>>
vars == <<charge, by, shared, stored, memory, day, faults, gone>>

Init ==
  /\ charge = [c \in Charges |-> "new"]
  /\ by = [c \in Charges |-> None]
  /\ live = [held |-> {}, day |-> 0]
  /\ content = [f \in FlushIDs |-> {}]
  /\ present = {}
  /\ stagedDay = [f \in FlushIDs |-> 0]
  /\ recorded = {}
  /\ recordedDay = [f \in FlushIDs |-> 0]
  /\ db = [c \in Charges |-> 0]
  /\ local = [i \in Instances |-> {}]
  /\ swapped = [i \in Instances |-> {}]
  /\ batch = [i \in Instances |-> {}]
  /\ todo = [i \in Instances |-> {}]
  /\ pc = [i \in Instances |-> "idle"]
  /\ settling = [i \in Instances |-> None]
  /\ base = [i \in Instances |-> {}]
  /\ day = 0
  /\ faults = 0
  /\ gone = {}

-----------------------------------------------------------------------------
(* Charging *)

\* HINCRBY and EXPIRE in one transaction.
IntoLive(c) == live' = [held |-> live.held \cup {c}, day |-> day]

\* The charge is in the shared hash and Redis said so.
ChargeShared(i, c) ==
  /\ charge[c] = "new"
  /\ IntoLive(c)
  /\ charge' = [charge EXCEPT ![c] = "shared"]
  /\ by' = [by EXCEPT ![c] = i]
  /\ UNCHANGED <<content, present, stagedDay, stored, memory, day, faults, gone>>

\* The call failed, or the breaker is open and it was not sent: the charge is
\* kept locally.  Whether Redis applied the transaction is not known.
ChargeLocal(i, c) ==
  /\ charge[c] = "new"
  /\ \/ live' = live
     \/ LostAnswers /\ IntoLive(c)
  /\ by' = [by EXCEPT ![c] = i]
  /\ \/ /\ local' = [local EXCEPT ![i] = @ \cup {c}]
        /\ charge' = [charge EXCEPT ![c] = "local"]
     \/ /\ SlowCharges
        /\ charge' = [charge EXCEPT ![c] = "resolved"]
        /\ UNCHANGED local
  /\ UNCHANGED <<content, present, stagedDay, stored, swapped, batch, todo, pc,
                 settling, base, day, faults, gone>>

\* The add to the accumulator Registry.Get returned, in whichever map it is.
AddLocal(i, c) ==
  /\ by[c] = i
  /\ charge[c] \in {"resolved", "overtaken", "unread"}
  /\ charge' = [charge EXCEPT ![c] = "local"]
  /\ local' = [local EXCEPT ![i] = IF charge[c] = "resolved" THEN @ \cup {c} ELSE @]
  /\ swapped' = [swapped EXCEPT ![i] = IF charge[c] = "overtaken" THEN @ \cup {c} ELSE @]
  /\ UNCHANGED <<by, shared, stored, batch, todo, pc, settling, base, day, faults, gone>>

-----------------------------------------------------------------------------
(* FlushUsage *)

\* The charges of i whose add is still to come, after the map they resolved
\* to has moved on.
Overtakes(i, from, to) ==
  charge' = [c \in Charges |-> IF by[c] = i /\ charge[c] = from THEN to ELSE charge[c]]

\* The counters read and not reset.
SwapNothing(i) ==
  /\ pc[i] = "idle"
  /\ swapped' = [swapped EXCEPT ![i] = local[i]]
  /\ pc' = [pc EXCEPT ![i] = "swapped"]
  /\ UNCHANGED <<charge, by, shared, stored, local, batch, todo, settling, base, day, faults, gone>>

\* Take: the map is swapped out ...
SwapAll(i) ==
  /\ pc[i] = "idle"
  /\ swapped' = [swapped EXCEPT ![i] = local[i]]
  /\ local' = [local EXCEPT ![i] = {}]
  /\ Overtakes(i, "resolved", "overtaken")
  /\ pc' = [pc EXCEPT ![i] = "swapped"]
  /\ UNCHANGED <<by, shared, stored, batch, todo, settling, base, day, faults, gone>>

\* ... and its accumulators are read.
Take(i) ==
  /\ pc[i] = "swapped"
  /\ batch' = [batch EXCEPT ![i] = swapped[i]]
  /\ swapped' = [swapped EXCEPT ![i] = {}]
  /\ Overtakes(i, "overtaken", "unread")
  /\ pc' = [pc EXCEPT ![i] = "taken"]
  /\ UNCHANGED <<by, shared, stored, local, todo, settling, base, day, faults, gone>>

\* stage: the live hash is renamed to a fresh staged key; there may be none.
Rename ==
  IF live.held = {} THEN UNCHANGED shared
  ELSE \E f \in FlushIDs :
         /\ content[f] = {}
         /\ content' = [content EXCEPT ![f] = live.held]
         /\ present' = present \cup {f}
         /\ stagedDay' = [stagedDay EXCEPT ![f] = live.day]
         /\ live' = [held |-> {}, day |-> 0]

\* An error ends the staging and not the flush, so it leaves the same state
\* whether or not Redis renamed the hash.
stage(i, ok) ==
  /\ pc[i] = "taken"
  /\ IF ok THEN Rename ELSE UNCHANGED shared
  /\ pc' = [pc EXCEPT ![i] = "staged"]
  /\ UNCHANGED <<charge, by, stored, local, swapped, batch, todo, settling, base, day, faults, gone>>

\* readStaged: every staged hash of any instance, or those read before a call
\* failed.
readStaged(i, ids) ==
  /\ pc[i] = "staged"
  /\ ids \subseteq present
  /\ todo' = [todo EXCEPT ![i] = ids]
  /\ pc' = [pc EXCEPT ![i] = "apply"]
  /\ UNCHANGED <<charge, by, shared, stored, local, swapped, batch, settling, base, day, faults, gone>>

\* The ids recordUsageFlush prunes with the one it records.
Pruned == {f \in recorded : recordedDay[f] + UsageFlushRetention < day}

Added(cs) == [c \in Charges |-> IF c \in cs THEN db[c] + 1 ELSE db[c]]

\* A batch applied whether or not its id is on record.
ApplyRegardless(id, cs) ==
  /\ db' = Added(cs)
  /\ recorded' = IF id = None THEN recorded ELSE (recorded \ Pruned) \cup {id}
  /\ recordedDay' = IF id = None THEN recordedDay ELSE [recordedDay EXCEPT ![id] = day]

\* ApplyUsageBatch's transaction.  A batch with an id records it first, and
\* one already recorded is left alone; a local batch is always new.
ApplyUsageBatch(id, cs) ==
  CASE id = None -> db' = Added(cs) /\ UNCHANGED <<recorded, recordedDay>>
    [] id \in recorded -> UNCHANGED stored
    [] OTHER -> /\ db' = Added(cs)
                /\ recorded' = (recorded \ Pruned) \cup {id}
                /\ recordedDay' = [recordedDay EXCEPT ![id] = day]

\* The batch in hand that is next: the local one, then the staged ones.
NextBatch(i, id) ==
  /\ pc[i] = "apply"
  /\ IF batch[i] # {} THEN id = None ELSE id \in todo[i]

BatchOf(i, id) == IF id = None THEN batch[i] ELSE content[id]

\* One batch is handed to the store: applied, refused, or applied with the
\* answer lost.
Apply(i, id, done, answer) ==
  /\ NextBatch(i, id)
  /\ answer => done
  /\ IF done /\ ~answer THEN LostCommits /\ faults < MaxFaults /\ faults' = faults + 1
     ELSE UNCHANGED faults
  /\ IF done THEN ApplyUsageBatch(id, BatchOf(i, id)) ELSE UNCHANGED stored
  /\ settling' = [settling EXCEPT ![i] = [id |-> id, applied |-> answer]]
  /\ pc' = [pc EXCEPT ![i] = "settle"]
  /\ UNCHANGED <<charge, by, shared, local, swapped, batch, todo, base, day, gone>>

\* A local batch the store did not apply goes back to the counters.
PutBack(i, applied) == IF applied THEN local[i] ELSE local[i] \cup batch[i]

\* A staged hash the store applied is deleted, if Redis answers.
UnstagedAlways(s, deleted) == IF deleted THEN present \ {s.id} ELSE present
Unstaged(s, deleted) == IF s.applied /\ deleted THEN present \ {s.id} ELSE present

Settle(i, deleted) ==
  /\ pc[i] = "settle"
  /\ LET s == settling[i] IN
       IF s.id = None
       THEN /\ local' = [local EXCEPT ![i] = PutBack(i, s.applied)]
            /\ batch' = [batch EXCEPT ![i] = {}]
            /\ UNCHANGED <<todo, present>>
       ELSE /\ todo' = [todo EXCEPT ![i] = @ \ {s.id}]
            /\ present' = Unstaged(s, deleted)
            /\ UNCHANGED <<local, batch>>
  /\ settling' = [settling EXCEPT ![i] = None]
  /\ pc' = [pc EXCEPT ![i] = "apply"]
  /\ UNCHANGED <<charge, by, live, content, stagedDay, stored, swapped, base, day, faults, gone>>

\* The tick ends with RefreshUsage, which the store may fail.
RefreshUsage(i, ok) ==
  /\ pc[i] = "apply" /\ batch[i] = {} /\ todo[i] = {}
  /\ base' = [base EXCEPT ![i] = IF ok THEN {c \in Charges : db[c] > 0} ELSE @]
  /\ pc' = [pc EXCEPT ![i] = "idle"]
  /\ UNCHANGED <<charge, by, shared, stored, local, swapped, batch, todo, settling, day, faults, gone>>

-----------------------------------------------------------------------------
(* The surroundings *)

\* The process dies with its counters, and restarts.
Crash(i) ==
  /\ faults < MaxFaults
  /\ faults' = faults + 1
  /\ gone' = gone \cup local[i] \cup swapped[i] \cup batch[i]
                  \cup {c \in Charges : by[c] = i /\ charge[c] \in {"resolved", "overtaken", "unread"}}
  /\ charge' = [c \in Charges |->
                  IF by[c] = i /\ charge[c] \in {"resolved", "overtaken", "unread"} THEN "local" ELSE charge[c]]
  /\ local' = [local EXCEPT ![i] = {}]
  /\ swapped' = [swapped EXCEPT ![i] = {}]
  /\ batch' = [batch EXCEPT ![i] = {}]
  /\ todo' = [todo EXCEPT ![i] = {}]
  /\ settling' = [settling EXCEPT ![i] = None]
  /\ base' = [base EXCEPT ![i] = {}]
  /\ pc' = [pc EXCEPT ![i] = "idle"]
  /\ UNCHANGED <<by, shared, stored, day>>

\* The keys whose TTL has run out on a day.
Expired(d) == {f \in present : stagedDay[f] + KeyTTL < d}
LiveExpired(d) == live.held # {} /\ live.day + KeyTTL < d

\* A day passes between two ticks, and Redis drops the keys whose TTL ran out.
DayPasses ==
  /\ day < MaxDay
  /\ \A i \in Instances : pc[i] = "idle"
  /\ day' = day + 1
  /\ present' = present \ Expired(day + 1)
  /\ live' = IF LiveExpired(day + 1) THEN [held |-> {}, day |-> 0] ELSE live
  /\ gone' = gone \cup (IF LiveExpired(day + 1) THEN live.held ELSE {})
                  \cup UNION {content[f] : f \in Expired(day + 1)}
  /\ UNCHANGED <<charge, by, content, stagedDay, stored, memory, faults>>

ChargeStep(i, c) == ChargeShared(i, c) \/ ChargeLocal(i, c) \/ AddLocal(i, c)

FlushStep(i) ==
  \/ SwapAll(i) \/ Take(i)
  \/ \E ok \in BOOLEAN : stage(i, ok)
  \/ \E ids \in SUBSET FlushIDs : readStaged(i, ids)
  \/ \E id \in FlushIDs \cup {None}, done, answer \in BOOLEAN : Apply(i, id, done, answer)
  \/ \E deleted \in BOOLEAN : Settle(i, deleted)
  \/ \E ok \in BOOLEAN : RefreshUsage(i, ok)

Next ==
  \/ \E i \in Instances, c \in Charges : ChargeStep(i, c)
  \/ \E i \in Instances : FlushStep(i) \/ Crash(i)
  \/ DayPasses

Spec == Init /\ [][Next]_vars

-----------------------------------------------------------------------------
(* Properties *)

\* Where Charge is: kept in the shared hash only, or locally.
Kept(c) == charge[c] \in {"shared", "local"}

ChargeTypes ==
  /\ charge \in [Charges -> {"new", "shared", "local", "resolved", "overtaken", "unread"}]
  /\ by \in [Charges -> Instances \cup {None}]
  /\ gone \subseteq Charges
SharedTypes ==
  /\ live \in [held : SUBSET Charges, day : 0..MaxDay]
  /\ content \in [FlushIDs -> SUBSET Charges]
  /\ present \subseteq FlushIDs
  /\ stagedDay \in [FlushIDs -> 0..MaxDay]
StoredTypes ==
  /\ recorded \subseteq FlushIDs
  /\ recordedDay \in [FlushIDs -> 0..MaxDay]
  /\ db \in [Charges -> Nat]
MemoryTypes ==
  /\ local \in [Instances -> SUBSET Charges] /\ swapped \in [Instances -> SUBSET Charges]
  /\ batch \in [Instances -> SUBSET Charges] /\ base \in [Instances -> SUBSET Charges]
  /\ todo \in [Instances -> SUBSET FlushIDs]
PassTypes ==
  /\ pc \in [Instances -> {"idle", "swapped", "taken", "staged", "apply", "settle"}]
  /\ settling \in [Instances -> {None} \cup [id : FlushIDs \cup {None}, applied : BOOLEAN]]
  /\ \A i \in Instances :
       IF pc[i] = "settle" THEN settling[i] \in [id : FlushIDs \cup {None}, applied : BOOLEAN]
       ELSE settling[i] = None

\* The variables have their types, and an instance between two ticks holds no
\* batch: FlushUsage hands every batch it took to the store and settles it.
TypeOK ==
  /\ ChargeTypes /\ SharedTypes /\ StoredTypes /\ MemoryTypes /\ PassTypes
  /\ day \in 0..MaxDay /\ faults \in 0..MaxFaults
  /\ \A i \in Instances : pc[i] = "idle" => swapped[i] = {} /\ batch[i] = {} /\ todo[i] = {}

\* "The store applies a staged batch at most once" (counter.go, SharedBackend):
\* a charge the shared hash took, and no instance kept, is never added to the
\* store a second time, however many instances hold its staged batch, whatever
\* answers are lost, and after its flush id has been pruned.
SharedCountedOnce == \A c \in Charges : charge[c] = "shared" => db[c] <= 1

\* A charge is added to the store at most once: what Charge kept locally was
\* not applied by Redis, and what Settle puts back was not applied by the
\* store.
CountedOnce == \A c \in Charges : db[c] <= 1

\* Where a charge can still be counted from.
Waiting(c) ==
  \/ c \in live.held
  \/ \E f \in present : c \in content[f]
  \/ \E i \in Instances : c \in local[i] \cup swapped[i] \cup batch[i]

\* No charge is dropped between the places a flush moves it through: once
\* Charge has returned it is in the store or waits where a later flush finds
\* it, unless the memory it was in died or Redis expired it unflushed.
NothingLost == \A c \in Charges : Kept(c) /\ c \notin gone => db[c] > 0 \/ Waiting(c)

-----------------------------------------------------------------------------
(* What keeps them so at every step *)

InHand(i) == local[i] \cup swapped[i] \cup batch[i]

\* What an instance holds belongs to its place in the flush.
InOrder ==
  /\ \A i \in Instances :
       /\ pc[i] # "swapped" => swapped[i] = {}
       /\ pc[i] \in {"idle", "swapped"} => batch[i] = {}
       /\ pc[i] \notin {"apply", "settle"} => todo[i] = {}
       /\ pc[i] = "settle" => settling[i].id \in todo[i] \cup {None}
       /\ \A c \in InHand(i) : by[c] = i /\ charge[c] = "local"
  /\ \A c \in Charges : charge[c] = "overtaken" => by[c] \in Instances /\ pc[by[c]] = "swapped"

\* A charge is added to one hash, once, and a hash is renamed once.
OneHash ==
  /\ \A c \in Charges : charge[c] = "new" =>
       /\ c \notin live.held /\ db[c] = 0
       /\ \A f \in FlushIDs : c \notin content[f]
  /\ \A c \in live.held, f \in FlushIDs : c \notin content[f]
  /\ \A f, g \in FlushIDs : f # g => content[f] \cap content[g] = {}

\* A staged hash that can still be applied has not outlived its TTL, and its
\* id is on record if it was applied: an id is pruned after its hash is gone.
WithinTTL ==
  /\ live.day <= day /\ (live.held # {} => day <= live.day + KeyTTL)
  /\ \A f \in FlushIDs :
       /\ stagedDay[f] <= day
       /\ f \in present \/ (\E i \in Instances : f \in todo[i]) =>
            content[f] # {} /\ day <= stagedDay[f] + KeyTTL
       /\ f \in recorded => content[f] # {} /\ stagedDay[f] <= recordedDay[f]

\* A hash that will not be applied again.
Spent(f) == f \in recorded \/ stagedDay[f] + KeyTTL < day

\* A shared charge was counted only with its hash, which is spent.
SharedSpent ==
  \A c \in Charges : charge[c] = "shared" /\ db[c] > 0 =>
    db[c] = 1 /\ \E f \in FlushIDs : c \in content[f] /\ Spent(f)

\* What the store said it applied is in its counts.
AppliedCounted ==
  /\ \A f \in recorded : \A c \in content[f] : db[c] > 0
  /\ \A i \in Instances : pc[i] = "settle" /\ settling[i].applied =>
       \A c \in BatchOf(i, settling[i].id) : db[c] > 0

\* A charge kept locally is in no hash, and was counted only with the batch
\* it left the counters in: so it is where no answer is lost.
CountedWithBatch(c) ==
  /\ c \notin live.held /\ \A f \in FlushIDs : c \notin content[f]
  /\ db[c] <= 1 /\ (charge[c] # "local" => db[c] = 0)
  /\ \A i \in Instances :
       /\ c \in local[i] => c \notin swapped[i] /\ c \notin batch[i]
       /\ db[c] > 0 => /\ c \notin local[i] /\ c \notin swapped[i]
                       /\ c \in batch[i] => /\ pc[i] = "settle"
                                            /\ settling[i] = [id |-> None, applied |-> TRUE]
LocalOnce == \A c \in Charges : charge[c] \notin {"new", "shared"} => CountedWithBatch(c)

\* The invariant the proofs rest on.
FlushInv ==
  /\ TypeOK /\ InOrder /\ OneHash /\ WithinTTL
  /\ SharedSpent /\ AppliedCounted
  /\ ~LostAnswers /\ ~LostCommits => LocalOnce
  /\ ~SlowCharges => NothingLost /\ \A c \in Charges : charge[c] \in {"new", "shared", "local"}
=============================================================================
