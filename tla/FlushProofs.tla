---------------------------- MODULE FlushProofs ----------------------------
(***************************************************************************)
(* For any charges, instances, flush ids, days and faults: a charge of the *)
(* shared hash is counted at most once, and no charge is lost between the  *)
(* places a flush moves it through.                                        *)
(***************************************************************************)
EXTENDS UsageFlush, TLAPS

USE DEF shared, stored, memory

(* No charge is between the two halves of a local add.                     *)
Ended == \A c \in Charges : charge[c] \in {"new", "shared", "local"}

(* What a step leaves alone stays of its kind.                             *)
LEMMA Frames ==
    /\ ChargeTypes /\ UNCHANGED <<charge, by, gone>> => ChargeTypes'
    /\ SharedTypes /\ UNCHANGED shared => SharedTypes'
    /\ StoredTypes /\ UNCHANGED stored => StoredTypes'
    /\ MemoryTypes /\ UNCHANGED <<local, swapped, batch, base, todo>> => MemoryTypes'
    /\ PassTypes /\ UNCHANGED <<pc, settling>> => PassTypes'
<1>1. ChargeTypes /\ UNCHANGED <<charge, by, gone>> => ChargeTypes'
  BY Zenon DEF ChargeTypes
<1>2. SharedTypes /\ UNCHANGED shared => SharedTypes'
  BY Zenon DEF SharedTypes
<1>3. StoredTypes /\ UNCHANGED stored => StoredTypes'
  BY Zenon DEF StoredTypes
<1>4. MemoryTypes /\ UNCHANGED <<local, swapped, batch, base, todo>> => MemoryTypes'
  BY Zenon DEF MemoryTypes
<1>5. PassTypes /\ UNCHANGED <<pc, settling>> => PassTypes'
  BY Zenon DEF PassTypes
<1> QED BY Zenon, <1>1, <1>2, <1>3, <1>4, <1>5

Kinds ==
    /\ ChargeTypes /\ SharedTypes /\ StoredTypes /\ MemoryTypes /\ PassTypes
    /\ day \in 0..MaxDay /\ faults \in 0..MaxFaults

(* An instance between two ticks holds no batch, when what an instance     *)
(* holds belongs to its place in the flush.                                *)
LEMMA Typed == (Kinds /\ InOrder => TypeOK) /\ (TypeOK => Kinds)
BY Zenon DEF Kinds, InOrder, TypeOK

(* A batch holds charges, and is the instance's own or a staged hash's.    *)
LEMMA BatchKinds ==
    ASSUME Kinds
    PROVE  /\ recorded \subseteq FlushIDs /\ \A f \in FlushIDs : content[f] \subseteq Charges
           /\ \A i \in Instances : pc[i] = "settle" => settling[i].id \in FlushIDs \cup {None}
           /\ \A i \in Instances, id \in FlushIDs \cup {None} : BatchOf(i, id) \subseteq Charges
BY Zenon DEF Kinds, SharedTypes, StoredTypes, MemoryTypes, PassTypes, BatchOf

(* An instance settles a batch of its own or one it read as staged.        *)
LEMMA SettlesItsOwn ==
    ASSUME InOrder
    PROVE  \A i \in Instances : pc[i] = "settle" => settling[i].id \in todo[i] \cup {None}
BY Zenon DEF InOrder

(* The invariant holds from the start.                                     *)
LEMMA InitInv == Init => FlushInv
<1> SUFFICES ASSUME Init PROVE FlushInv
  OBVIOUS
<1>1. TypeOK
  BY FlushBounds DEF Init, TypeOK, ChargeTypes, SharedTypes, StoredTypes, MemoryTypes, PassTypes
<1>2. InOrder /\ OneHash
  BY Zenon DEF Init, InOrder, InHand, OneHash
<1>3. WithinTTL
  BY RetentionPastTTL DEF Init, WithinTTL
<1>4. SharedSpent /\ AppliedCounted /\ LocalOnce
  BY Zenon DEF Init, SharedSpent, AppliedCounted, LocalOnce
<1>5. NothingLost /\ Ended
  BY Zenon DEF Init, NothingLost, Kept, Ended
<1> QED BY Zenon, <1>1, <1>2, <1>3, <1>4, <1>5 DEF FlushInv, Ended

(* A step that changes nothing keeps it.                                   *)
LEMMA Stutter ==
    ASSUME FlushInv, UNCHANGED vars
    PROVE  FlushInv'
<1> USE DEF vars
<1>1. TypeOK'
  BY Zenon DEF FlushInv, TypeOK, ChargeTypes, SharedTypes, StoredTypes, MemoryTypes, PassTypes
<1>2. InOrder' /\ OneHash' /\ WithinTTL'
  BY DEF FlushInv, InOrder, InHand, OneHash, WithinTTL
<1>3. SharedSpent' /\ AppliedCounted'
  BY Zenon DEF FlushInv, SharedSpent, Spent, AppliedCounted, BatchOf
<1>4. (NothingLost => NothingLost') /\ UNCHANGED charge
  BY Zenon DEF NothingLost, Kept, Waiting
<1>5. LocalOnce => LocalOnce'
  BY Zenon DEF LocalOnce, CountedWithBatch
<1> QED BY Zenon, <1>1, <1>2, <1>3, <1>4, <1>5 DEF FlushInv

(* Every charge is in one hash at most, and counted only once it is known. *)
LEMMA HashFrame == ASSUME OneHash, UNCHANGED <<charge, live, db, content>> PROVE OneHash'
BY Zenon DEF OneHash

(* The store adds what it is handed, once.                                 *)
LEMMA Adds ==
    ASSUME StoredTypes, NEW cs, NEW c \in Charges
    PROVE  /\ Added(cs)[c] \in Nat /\ db[c] \in Nat /\ Added(cs)[c] >= db[c]
           /\ c \in cs => Added(cs)[c] = db[c] + 1
           /\ c \notin cs => Added(cs)[c] = db[c]
BY DEF Added, StoredTypes

(* What a hand-over to the store leaves of the counts and of the ids.      *)
LEMMA Applied ==
    ASSUME Kinds, NEW i \in Instances, NEW id \in FlushIDs \cup {None}, NEW done \in BOOLEAN, NEW answer \in BOOLEAN,
           Apply(i, id, done, answer)
    PROVE  \/ UNCHANGED stored /\ (done => id \in recorded)
           \/ /\ done /\ db' = Added(BatchOf(i, id))
              /\ IF id = None THEN UNCHANGED <<recorded, recordedDay>>
                 ELSE /\ id \notin recorded /\ recorded' = (recorded \ Pruned) \cup {id}
                      /\ recordedDay' = [recordedDay EXCEPT ![id] = day]
BY Zenon DEF Apply, ApplyUsageBatch

(* A hash is applied within its TTL, and a pruned id's hash has outlived   *)
(* it, so that no hash that was applied is applied again.                  *)
LEMMA TTLFrame ==
    ASSUME WithinTTL, UNCHANGED <<live, content, stagedDay, day, recorded, recordedDay>>, present' \subseteq present,
           NEW i \in Instances, todo \in [Instances -> SUBSET FlushIDs],
           \A j \in Instances : todo'[j] \subseteq todo[j] \cup present
    PROVE  WithinTTL'
BY Zenon DEF WithinTTL

(* A hash that is spent stays so: its id is pruned after its TTL.          *)
LEMMA SpentStays ==
    ASSUME Kinds, WithinTTL, NEW f \in FlushIDs, Spent(f), UNCHANGED stagedDay, day' \in 0..MaxDay, day <= day',
           recorded \ Pruned \subseteq recorded'
    PROVE  Spent(f)'
<1>1. f \in Pruned => stagedDay[f] + KeyTTL < day
  BY RetentionPastTTL, FlushBounds DEF Pruned, WithinTTL, Kinds, SharedTypes, StoredTypes
<1>2. stagedDay[f] + KeyTTL < day => stagedDay[f] + KeyTTL < day'
  BY RetentionPastTTL, FlushBounds DEF Kinds, SharedTypes
<1> QED BY Zenon, <1>1, <1>2 DEF Spent

(* Shared charges are counted with their hash alone.                       *)
LEMMA SpentFrame ==
    ASSUME SharedSpent, UNCHANGED <<content, stagedDay, day, recorded, db>>,
           \A c \in Charges : charge'[c] = "shared" => charge[c] = "shared" \/ db[c] = 0
    PROVE  SharedSpent'
BY DEF SharedSpent, Spent

(* What waits or is counted goes on so.                                    *)
LEMMA LostFrame ==
    ASSUME NothingLost, Ended, UNCHANGED charge, gone \subseteq gone',
           \A c \in Charges : db[c] > 0 \/ Waiting(c) => db'[c] > 0 \/ Waiting(c)' \/ c \in gone'
    PROVE  NothingLost' /\ Ended'
BY Zenon DEF NothingLost, Ended, Kept

-----------------------------------------------------------------------------
(* The pass of one instance goes on to a place outside settle.             *)
LEMMA Goes ==
    ASSUME PassTypes, NEW i \in Instances, NEW to \in {"idle", "swapped", "taken", "staged", "apply"},
           pc' = [pc EXCEPT ![i] = to], settling' = [settling EXCEPT ![i] = None]
    PROVE  PassTypes'
BY Zenon DEF PassTypes

(* So it does from a place outside settle.                                 *)
LEMMA GoesOn ==
    ASSUME PassTypes, NEW i \in Instances, NEW to \in {"idle", "swapped", "taken", "staged", "apply"},
           pc[i] # "settle", pc' = [pc EXCEPT ![i] = to], UNCHANGED settling
    PROVE  PassTypes'
BY Zenon DEF PassTypes

(* A charge keeps the kinds.                                               *)
LEMMA ChargeKinds ==
    ASSUME Kinds, NEW i \in Instances, NEW c \in Charges, ChargeStep(i, c)
    PROVE  Kinds'
<1> USE DEF Kinds
<1>1. CASE ChargeShared(i, c)
  <2>1. ChargeTypes' /\ SharedTypes'
    BY Zenon, <1>1 DEF ChargeShared, IntoLive, ChargeTypes, SharedTypes
  <2> QED BY Zenon, <1>1, <2>1, Frames DEF ChargeShared
<1>2. CASE ChargeLocal(i, c)
  <2>1. ChargeTypes' /\ SharedTypes'
    BY <1>2 DEF ChargeLocal, IntoLive, ChargeTypes, SharedTypes
  <2>2. MemoryTypes'
    BY <1>2 DEF ChargeLocal, MemoryTypes
  <2> QED BY Zenon, <1>2, <2>1, <2>2, Frames DEF ChargeLocal
<1>3. CASE AddLocal(i, c)
  <2>1. ChargeTypes' /\ MemoryTypes'
    BY <1>3 DEF AddLocal, ChargeTypes, MemoryTypes
  <2> QED BY Zenon, <1>3, <2>1, Frames DEF AddLocal
<1> QED BY Zenon, <1>1, <1>2, <1>3 DEF ChargeStep

(* A step of a flush keeps the kinds.                                      *)
LEMMA FlushKinds == ASSUME Kinds, NEW i \in Instances, FlushStep(i) PROVE Kinds'
<1> USE DEF Kinds
<1>1. CASE SwapAll(i) \/ Take(i)
  <2>1. ChargeTypes'
    BY Zenon, <1>1 DEF SwapAll, Take, Overtakes, ChargeTypes
  <2>2. MemoryTypes'
    BY Zenon, <1>1 DEF SwapAll, Take, MemoryTypes
  <2>3. PassTypes'
    BY Zenon, <1>1, GoesOn DEF SwapAll, Take
  <2> QED BY Zenon, <1>1, <2>1, <2>2, <2>3, Frames DEF SwapAll, Take
<1>2. ASSUME NEW ok \in BOOLEAN, stage(i, ok) PROVE Kinds'
  <2>1. SharedTypes'
    <3>1. CASE UNCHANGED shared
      BY Zenon, <3>1, Frames
    <3>2. ASSUME NEW f \in FlushIDs, content' = [content EXCEPT ![f] = live.held], present' = present \cup {f},
                 stagedDay' = [stagedDay EXCEPT ![f] = live.day], live' = [held |-> {}, day |-> 0]
          PROVE  SharedTypes'
      BY <3>2, FlushBounds DEF SharedTypes
    <3> QED BY Zenon, <1>2, <3>1, <3>2 DEF stage, Rename
  <2>2. PassTypes'
    BY Zenon, <1>2, GoesOn DEF stage
  <2> QED BY Zenon, <1>2, <2>1, <2>2, Frames DEF stage
<1>3. ASSUME NEW ids \in SUBSET FlushIDs, readStaged(i, ids) PROVE Kinds'
  <2>1. MemoryTypes'
    BY Zenon, <1>3 DEF readStaged, MemoryTypes
  <2>2. PassTypes'
    BY Zenon, <1>3, GoesOn DEF readStaged
  <2> QED BY Zenon, <1>3, <2>1, <2>2, Frames DEF readStaged
<1>4. ASSUME NEW id \in FlushIDs \cup {None}, NEW done \in BOOLEAN, NEW answer \in BOOLEAN, Apply(i, id, done, answer)
      PROVE  Kinds'
  <2>1. StoredTypes'
    <3>1. ASSUME NEW cs PROVE Added(cs) \in [Charges -> Nat]
      BY DEF Added, StoredTypes
    <3> QED BY Zenon, <1>4, <3>1 DEF Apply, ApplyUsageBatch, StoredTypes
  <2>2. faults' \in 0..MaxFaults
    BY <1>4, FlushBounds DEF Apply
  <2>3. PassTypes'
    BY Zenon, <1>4 DEF Apply, PassTypes
  <2> QED BY Zenon, <1>4, <2>1, <2>2, <2>3, Frames DEF Apply
<1>5. ASSUME NEW deleted \in BOOLEAN, Settle(i, deleted) PROVE Kinds'
  <2>1. MemoryTypes'
    BY <1>5 DEF Settle, PutBack, MemoryTypes
  <2>2. SharedTypes'
    BY Zenon, <1>5 DEF Settle, Unstaged, SharedTypes
  <2>3. PassTypes'
    BY Zenon, <1>5, Goes DEF Settle
  <2> QED BY Zenon, <1>5, <2>1, <2>2, <2>3, Frames DEF Settle
<1>6. ASSUME NEW ok \in BOOLEAN, RefreshUsage(i, ok) PROVE Kinds'
  <2>1. MemoryTypes'
    BY Zenon, <1>6 DEF RefreshUsage, MemoryTypes
  <2>2. PassTypes'
    BY Zenon, <1>6, GoesOn DEF RefreshUsage
  <2> QED BY Zenon, <1>6, <2>1, <2>2, Frames DEF RefreshUsage
<1> QED BY Zenon, <1>1, <1>2, <1>3, <1>4, <1>5, <1>6 DEF FlushStep

(* Every step keeps the kinds.                                             *)
LEMMA StepKinds == ASSUME Kinds, Next PROVE Kinds'
<1> USE DEF Kinds
<1>1. ASSUME NEW i \in Instances, Crash(i) PROVE Kinds'
  <2>1. ChargeTypes' /\ MemoryTypes'
    BY Zenon, <1>1 DEF Crash, ChargeTypes, MemoryTypes
  <2>2. PassTypes'
    BY Zenon, <1>1, Goes DEF Crash
  <2>3. faults' \in 0..MaxFaults
    BY <1>1, FlushBounds DEF Crash
  <2> QED BY Zenon, <1>1, <2>1, <2>2, <2>3, Frames DEF Crash
<1>2. CASE DayPasses
  <2>1. ChargeTypes' /\ SharedTypes'
    <3>1. live' \in [held : SUBSET Charges, day : 0..MaxDay]
      BY <1>2, FlushBounds DEF DayPasses, SharedTypes
    <3>2. gone' \subseteq Charges
      BY <1>2 DEF DayPasses, Expired, ChargeTypes, SharedTypes
    <3> QED BY Zenon, <1>2, <3>1, <3>2 DEF DayPasses, ChargeTypes, SharedTypes
  <2>2. day' \in 0..MaxDay
    BY <1>2, FlushBounds DEF DayPasses
  <2> QED BY Zenon, <1>2, <2>1, <2>2, Frames DEF DayPasses
<1> QED BY Zenon, <1>1, <1>2, ChargeKinds, FlushKinds DEF Next

(* What an instance holds belongs to its place in the flush.               *)
LEMMA StepInOrder == ASSUME Kinds, InOrder, Next PROVE InOrder'
<1> USE DEF Kinds, ChargeTypes, MemoryTypes, PassTypes
<1>1. ASSUME NEW i \in Instances, NEW c \in Charges, ChargeShared(i, c) PROVE InOrder'
  BY <1>1 DEF ChargeShared, InOrder, InHand
<1>2. ASSUME NEW i \in Instances, NEW c \in Charges, ChargeLocal(i, c) PROVE InOrder'
  BY <1>2 DEF ChargeLocal, InOrder, InHand
<1>3. ASSUME NEW i \in Instances, NEW c \in Charges, AddLocal(i, c) PROVE InOrder'
  BY <1>3 DEF AddLocal, InOrder, InHand
<1>4. ASSUME NEW i \in Instances, SwapAll(i) PROVE InOrder'
  BY <1>4 DEF SwapAll, Overtakes, InOrder, InHand
<1>5. ASSUME NEW i \in Instances, Take(i) PROVE InOrder'
  BY <1>5 DEF Take, Overtakes, InOrder, InHand
<1>6. ASSUME NEW i \in Instances, NEW ok \in BOOLEAN, stage(i, ok) \/ RefreshUsage(i, ok) PROVE InOrder'
  BY <1>6 DEF stage, RefreshUsage, InOrder, InHand
<1>7. ASSUME NEW i \in Instances, NEW ids \in SUBSET FlushIDs, readStaged(i, ids) PROVE InOrder'
  BY <1>7 DEF readStaged, InOrder, InHand
<1>8. ASSUME NEW i \in Instances, NEW id \in FlushIDs \cup {None}, NEW done \in BOOLEAN, NEW answer \in BOOLEAN,
             Apply(i, id, done, answer)
      PROVE  InOrder'
  BY <1>8 DEF Apply, NextBatch, InOrder, InHand
<1>9. ASSUME NEW i \in Instances, NEW deleted \in BOOLEAN, Settle(i, deleted) PROVE InOrder'
  BY <1>9 DEF Settle, PutBack, InOrder, InHand
<1>10. ASSUME NEW i \in Instances, Crash(i) PROVE InOrder'
  BY <1>10 DEF Crash, InOrder, InHand
<1>11. CASE DayPasses
  BY <1>11 DEF DayPasses, InOrder, InHand
<1>12. ASSUME NEW i \in Instances, FlushStep(i) PROVE InOrder'
  BY Zenon, <1>4, <1>5, <1>6, <1>7, <1>8, <1>9, <1>12 DEF FlushStep
<1> HIDE DEF Kinds, ChargeTypes, MemoryTypes, PassTypes
<1> QED BY Zenon, <1>1, <1>2, <1>3, <1>10, <1>11, <1>12 DEF Next, ChargeStep

-----------------------------------------------------------------------------
(* With no answer lost, a charge kept locally is counted only with the     *)
(* batch it left the counters in.                                          *)
LEMMA ChargeLocalOnce ==
    ASSUME Kinds, InOrder, OneHash, LocalOnce, ~LostAnswers, NEW i \in Instances, NEW c \in Charges, ChargeStep(i, c)
    PROVE  LocalOnce'
<1> USE DEF Kinds, ChargeTypes, SharedTypes, MemoryTypes
<1>1. UNCHANGED <<content, db, batch, pc, settling>> /\ \A d \in Charges : d # c => charge'[d] = charge[d]
  BY Zenon DEF ChargeStep, ChargeShared, ChargeLocal, AddLocal
<1>2. \A d \in Charges : d # c => (d \in live'.held <=> d \in live.held)
  BY DEF ChargeStep, ChargeShared, ChargeLocal, AddLocal, IntoLive
<1>3. \A d \in Charges, j \in Instances : d # c =>
         (d \in local'[j] <=> d \in local[j]) /\ (d \in swapped'[j] <=> d \in swapped[j])
  BY DEF ChargeStep, ChargeShared, ChargeLocal, AddLocal
<1>4. CASE charge'[c] = "shared"
  BY ZenonT(30), <1>1, <1>2, <1>3, <1>4 DEF LocalOnce, CountedWithBatch
<1>5. CASE charge'[c] # "shared"
  <2>1. charge[c] # "local" /\ \A j \in Instances : c \notin InHand(j)
    BY Zenon DEF ChargeStep, ChargeShared, ChargeLocal, AddLocal, InOrder
  <2>2. db[c] = 0 /\ c \notin live.held /\ \A f \in FlushIDs : c \notin content[f]
    BY Zenon, <1>5, <2>1 DEF ChargeStep, ChargeShared, ChargeLocal, AddLocal, OneHash, LocalOnce, CountedWithBatch
  <2>3. live' = live
    BY Zenon, <1>5 DEF ChargeStep, ChargeShared, ChargeLocal, AddLocal
  <2>4. \A j \in Instances : c \in local'[j] => c \notin swapped'[j]
    BY <2>1 DEF ChargeStep, ChargeShared, ChargeLocal, AddLocal, InHand
  <2>5. \A j \in Instances : c \notin batch'[j]
    BY Zenon, <1>1, <2>1 DEF InHand
  <2>6. ASSUME NEW d \in Charges, charge'[d] \notin {"new", "shared"}, d # c
        PROVE  CountedWithBatch(d)'
    BY Zenon, <1>1, <1>2, <1>3, <2>6 DEF LocalOnce, CountedWithBatch
  <2>7. CountedWithBatch(c)'
    BY <1>1, <2>2, <2>3, <2>4, <2>5 DEF CountedWithBatch
  <2> QED BY Zenon, <2>6, <2>7 DEF LocalOnce
<1> QED BY Zenon, <1>4, <1>5

(* Taking the counters, and losing them, counts nothing.                   *)
LEMMA TakeLocalOnce ==
    ASSUME Kinds, InOrder, LocalOnce, NEW i \in Instances, SwapAll(i) \/ Take(i) \/ Crash(i)
    PROVE  LocalOnce'
<1> USE DEF Kinds, ChargeTypes, MemoryTypes, PassTypes
<1>1. UNCHANGED <<live, content, db>>
  BY Zenon DEF SwapAll, Take, Crash
<1>2. \A c \in Charges : /\ charge'[c] \in {"new", "shared"} <=> charge[c] \in {"new", "shared"}
                         /\ charge'[c] # "local" => charge[c] # "local"
                         /\ charge[c] = "local" => charge'[c] = "local"
  BY DEF SwapAll, Take, Crash, Overtakes
<1>3. \A j \in Instances : j # i =>
        /\ local'[j] = local[j] /\ swapped'[j] = swapped[j] /\ batch'[j] = batch[j]
        /\ pc'[j] = pc[j] /\ settling'[j] = settling[j]
  BY DEF SwapAll, Take, Crash
<1>4. /\ local'[i] \subseteq local[i]
      /\ local'[i] # {} => swapped'[i] = {} /\ batch'[i] \subseteq swapped[i]
      /\ swapped'[i] \subseteq local[i]
      /\ batch'[i] \subseteq swapped[i]
  BY DEF SwapAll, Take, Crash, InOrder
<1>5. ASSUME NEW c \in Charges, charge'[c] \notin {"new", "shared"}
      PROVE  CountedWithBatch(c)'
  <2>1. charge[c] \notin {"new", "shared"}
    BY Zenon, <1>2, <1>5
  <2>2. c \notin live'.held /\ (\A f \in FlushIDs : c \notin content'[f]) /\ db'[c] <= 1
        /\ (charge'[c] # "local" => db'[c] = 0)
    BY Zenon, <1>1, <1>2, <2>1 DEF LocalOnce, CountedWithBatch
  <2>3. \A j \in Instances : j # i /\ c \in local'[j] => c \notin swapped'[j] /\ c \notin batch'[j]
    BY Zenon, <1>3, <2>1 DEF LocalOnce, CountedWithBatch
  <2>4. \A j \in Instances : j # i /\ db'[c] > 0 =>
           /\ c \notin local'[j] /\ c \notin swapped'[j]
           /\ c \in batch'[j] => pc'[j] = "settle" /\ settling'[j] = [id |-> None, applied |-> TRUE]
    BY Zenon, <1>1, <1>3, <2>1 DEF LocalOnce, CountedWithBatch
  <2>5. c \in local'[i] => c \notin swapped'[i] /\ c \notin batch'[i]
    BY Zenon, <1>4, <2>1 DEF LocalOnce, CountedWithBatch
  <2>6. db'[c] > 0 => c \notin local'[i] /\ c \notin swapped'[i] /\ c \notin batch'[i]
    BY Zenon, <1>1, <1>4, <2>1 DEF LocalOnce, CountedWithBatch
  <2> QED BY Zenon, <2>2, <2>3, <2>4, <2>5, <2>6 DEF CountedWithBatch
<1> QED BY Zenon, <1>5 DEF LocalOnce

(* An applied local batch is settled as applied.                           *)
LEMMA ApplyLocalOnce ==
    ASSUME Kinds, InOrder, LocalOnce, ~LostCommits, NEW i \in Instances, NEW id \in FlushIDs \cup {None},
           NEW done \in BOOLEAN, NEW answer \in BOOLEAN, Apply(i, id, done, answer)
    PROVE  LocalOnce'
<1> USE DEF Kinds
<1>1. /\ UNCHANGED <<charge, live, content, local, swapped, batch>> /\ pc[i] = "apply" /\ done = answer
      /\ settling' = [settling EXCEPT ![i] = [id |-> id, applied |-> answer]] /\ pc' = [pc EXCEPT ![i] = "settle"]
  BY Zenon DEF Apply, NextBatch
<1>2. \A j \in Instances : j # i => pc'[j] = pc[j] /\ settling'[j] = settling[j]
  BY Zenon, <1>1 DEF PassTypes
<1>3. \A c \in Charges : c \in batch[i] => \A j \in Instances : j # i => c \notin InHand(j)
  BY DEF InOrder, InHand
<1>4. swapped[i] = {}
  BY Zenon, <1>1 DEF InOrder
<1>5. ASSUME NEW c \in Charges, charge[c] \notin {"new", "shared"}, db'[c] = db[c]
      PROVE  \A j \in Instances : db[c] > 0 =>
               /\ c \notin local[j] /\ c \notin swapped[j]
               /\ c \in batch[j] => pc'[j] = "settle" /\ settling'[j] = [id |-> None, applied |-> TRUE]
  BY Zenon, <1>1, <1>2, <1>5 DEF LocalOnce, CountedWithBatch
<1>6. CASE \A c \in Charges : charge[c] \notin {"new", "shared"} => db'[c] = db[c]
  BY Zenon, <1>1, <1>5, <1>6 DEF LocalOnce, CountedWithBatch
<1>7. CASE done /\ id = None /\ db' = Added(batch[i])
  <2>1. pc'[i] = "settle" /\ settling'[i] = [id |-> None, applied |-> TRUE]
    BY Zenon, <1>1, <1>7 DEF PassTypes
  <2>2. ASSUME NEW c \in Charges, charge[c] \notin {"new", "shared"}, c \in batch[i]
        PROVE  /\ db'[c] <= 1 /\ charge[c] = "local"
               /\ \A j \in Instances : c \notin local[j] /\ c \notin swapped[j] /\ (c \in batch[j] => j = i)
    <3>1. db[c] = 0
      BY <1>1, <2>2 DEF LocalOnce, CountedWithBatch, StoredTypes
    <3>2. db'[c] = 1
      BY <1>7, <2>2, <3>1, Adds
    <3>3. charge[c] = "local" /\ c \notin local[i]
      BY Zenon, <2>2 DEF InOrder, InHand, LocalOnce, CountedWithBatch
    <3> QED BY <1>3, <1>4, <2>2, <3>2, <3>3 DEF InHand
  <2>3. \A c \in Charges : c \notin batch[i] => db'[c] = db[c]
    BY Zenon, <1>7, Adds
  <2>4. ASSUME NEW c \in Charges, charge'[c] \notin {"new", "shared"}
        PROVE  /\ db'[c] <= 1 /\ (charge'[c] # "local" => db'[c] = 0)
               /\ \A j \in Instances : db'[c] > 0 =>
                    /\ c \notin local'[j] /\ c \notin swapped'[j]
                    /\ c \in batch'[j] => pc'[j] = "settle" /\ settling'[j] = [id |-> None, applied |-> TRUE]
    <3>1. CASE c \in batch[i]
      BY Zenon, <1>1, <2>1, <2>2, <2>4, <3>1
    <3>2. CASE c \notin batch[i]
      BY Zenon, <1>1, <1>5, <2>3, <2>4, <3>2 DEF LocalOnce, CountedWithBatch
    <3> QED BY Zenon, <3>1, <3>2
  <2> QED BY Zenon, <1>1, <2>4 DEF LocalOnce, CountedWithBatch
<1>8. CASE done /\ id # None /\ db' = Added(content[id])
  <2>1. \A c \in Charges : charge[c] \notin {"new", "shared"} => c \notin content[id]
    BY Zenon, <1>8 DEF LocalOnce, CountedWithBatch
  <2> QED BY Zenon, <1>6, <1>8, <2>1, Adds
<1> QED BY <1>6, <1>7, <1>8, Applied DEF BatchOf

(* What goes back to the counters was not counted.                         *)
LEMMA SettleLocalOnce ==
    ASSUME Kinds, InOrder, LocalOnce, NEW i \in Instances, NEW deleted \in BOOLEAN, Settle(i, deleted)
    PROVE  LocalOnce'
<1> USE DEF Kinds, MemoryTypes, PassTypes
<1>1. UNCHANGED <<charge, live, content, db, swapped>> /\ pc[i] = "settle"
  BY Zenon DEF Settle
<1>2. \A j \in Instances : j # i =>
        local'[j] = local[j] /\ batch'[j] = batch[j] /\ pc'[j] = pc[j] /\ settling'[j] = settling[j]
  BY Zenon DEF Settle
<1>3. swapped[i] = {}
  BY Zenon, <1>1 DEF InOrder
<1>4. \/ local'[i] = local[i] /\ batch'[i] = {}
      \/ ~settling[i].applied /\ local'[i] = local[i] \cup batch[i] /\ batch'[i] = {}
      \/ settling[i].id # None /\ local'[i] = local[i] /\ batch'[i] = batch[i]
  BY Zenon DEF Settle, PutBack
<1>5. ASSUME NEW c \in Charges, charge'[c] \notin {"new", "shared"} PROVE CountedWithBatch(c)'
  <2>1. CountedWithBatch(c)
    BY Zenon, <1>1, <1>5 DEF LocalOnce
  <2>2. c \in local'[i] => c \notin swapped'[i] /\ c \notin batch'[i]
    BY Zenon, <1>1, <1>3, <1>4, <2>1 DEF CountedWithBatch
  <2>3. db[c] > 0 => c \notin local'[i] /\ c \notin swapped'[i] /\ c \notin batch'[i]
    BY <1>1, <1>3, <1>4, <2>1 DEF CountedWithBatch
  <2> QED BY Zenon, <1>1, <1>2, <2>1, <2>2, <2>3 DEF CountedWithBatch
<1> QED BY Zenon, <1>5 DEF LocalOnce

(* So it is at every step.                                                 *)
LEMMA StepLocalOnce ==
    ASSUME Kinds, InOrder, OneHash, LocalOnce, ~LostAnswers, ~LostCommits, Next PROVE LocalOnce'
<1>1. ASSUME NEW i \in Instances, NEW ok \in BOOLEAN, stage(i, ok) PROVE LocalOnce'
  <2>1. \A c \in Charges : c \notin live.held => c \notin live'.held
    BY <1>1 DEF stage, Rename, Kinds, SharedTypes
  <2>2. \A c \in Charges, f \in FlushIDs : c \notin live.held /\ c \notin content[f] => c \notin content'[f]
    BY Zenon, <1>1 DEF stage, Rename, Kinds, SharedTypes
  <2>3. UNCHANGED <<charge, db, local, swapped, batch, settling>>
        /\ \A j \in Instances : pc[j] = "settle" => pc'[j] = "settle"
    BY Zenon, <1>1 DEF stage, Kinds, PassTypes
  <2> QED BY Zenon, <2>1, <2>2, <2>3 DEF LocalOnce, CountedWithBatch
<1>2. ASSUME NEW i \in Instances, (\E ids \in SUBSET FlushIDs : readStaged(i, ids)) \/ (\E ok \in BOOLEAN : RefreshUsage(i, ok))
      PROVE  LocalOnce'
  <2>1. UNCHANGED <<live, content, charge, db, local, swapped, batch, settling>>
        /\ \A j \in Instances : pc[j] = "settle" => pc'[j] = "settle"
    BY Zenon, <1>2 DEF readStaged, RefreshUsage, Kinds, PassTypes
  <2> QED BY Zenon, <2>1 DEF LocalOnce, CountedWithBatch
<1>3. CASE DayPasses
  <2>1. UNCHANGED <<charge, content, db, local, swapped, batch, pc, settling>> /\ live'.held \subseteq live.held
    BY Zenon, <1>3 DEF DayPasses
  <2> QED BY Zenon, <2>1 DEF LocalOnce, CountedWithBatch
<1>4. ASSUME NEW i \in Instances, FlushStep(i) PROVE LocalOnce'
  BY Zenon, <1>1, <1>2, <1>4, TakeLocalOnce, ApplyLocalOnce, SettleLocalOnce DEF FlushStep
<1> QED BY Zenon, <1>3, <1>4, ChargeLocalOnce, TakeLocalOnce DEF Next

-----------------------------------------------------------------------------
(* A charge waits where it was put.                                        *)
LEMMA ChargeNotLost ==
    ASSUME Kinds, NothingLost, Ended, ~SlowCharges, NEW i \in Instances, NEW c \in Charges, ChargeStep(i, c)
    PROVE  NothingLost' /\ Ended'
<1> USE DEF Kinds, ChargeTypes, SharedTypes, MemoryTypes
<1>1. ~AddLocal(i, c)
  BY Zenon DEF AddLocal, Ended
<1>2. UNCHANGED <<content, present, db, swapped, batch, gone>> /\ \A d \in Charges : d # c => charge'[d] = charge[d]
  BY Zenon, <1>1 DEF ChargeStep, ChargeShared, ChargeLocal
<1>3. live.held \subseteq live'.held /\ \A j \in Instances : local[j] \subseteq local'[j]
  BY <1>1 DEF ChargeStep, ChargeShared, ChargeLocal, IntoLive
<1>4. charge'[c] \in {"shared", "local"} /\ (c \in live'.held \/ c \in local'[i])
  BY <1>1 DEF ChargeStep, ChargeShared, ChargeLocal, IntoLive
<1>5. \A d \in Charges : Waiting(d) => Waiting(d)'
  BY Zenon, <1>2, <1>3 DEF Waiting
<1>6. Waiting(c)'
  BY Zenon, <1>4 DEF Waiting
<1> QED BY Zenon, <1>2, <1>4, <1>5, <1>6 DEF NothingLost, Ended, Kept

(* A flush moves what waits, and drops what is counted.                    *)
LEMMA FlushNotLost ==
    ASSUME Kinds, InOrder, OneHash, WithinTTL, AppliedCounted, NothingLost, Ended, NEW i \in Instances, FlushStep(i)
    PROVE  NothingLost' /\ Ended'
<1> USE DEF Kinds
<1>1. CASE SwapAll(i) \/ Take(i)
  <2>1. UNCHANGED <<charge, live, content, present, db, gone>>
    BY Zenon, <1>1 DEF SwapAll, Take, Overtakes, Ended, ChargeTypes
  <2>2. \A j \in Instances : local[j] \cup swapped[j] \cup batch[j] \subseteq local'[j] \cup swapped'[j] \cup batch'[j]
    <3>1. CASE SwapAll(i)
      BY <3>1 DEF SwapAll, InOrder, MemoryTypes
    <3>2. CASE Take(i)
      BY <3>2 DEF Take, InOrder, MemoryTypes
    <3> QED BY Zenon, <1>1, <3>1, <3>2
  <2> QED BY Zenon, <2>1, <2>2, LostFrame DEF Waiting
<1>2. ASSUME NEW ok \in BOOLEAN, stage(i, ok) PROVE NothingLost' /\ Ended'
  <2>1. UNCHANGED <<charge, db, local, swapped, batch, gone>>
    BY Zenon, <1>2 DEF stage
  <2>2. CASE UNCHANGED shared
    BY Zenon, <2>1, <2>2, LostFrame DEF Waiting
  <2>3. ASSUME NEW f \in FlushIDs, content[f] = {}, content' = [content EXCEPT ![f] = live.held],
               present' = present \cup {f}
        PROVE  NothingLost' /\ Ended'
    <3>1. content'[f] = live.held /\ f \in present'
      BY Zenon, <2>3 DEF SharedTypes
    <3>2. \A g \in present : content[g] \subseteq content'[g] /\ g \in present'
      BY Zenon, <2>3 DEF SharedTypes
    <3>3. \A c \in Charges : Waiting(c) => Waiting(c)'
      BY Zenon, <2>1, <3>1, <3>2 DEF Waiting
    <3> QED BY Zenon, <2>1, <3>3, LostFrame
  <2> QED BY Zenon, <1>2, <2>2, <2>3 DEF stage, Rename
<1>3. ASSUME NEW id \in FlushIDs \cup {None}, NEW done \in BOOLEAN, NEW answer \in BOOLEAN, Apply(i, id, done, answer)
      PROVE  NothingLost' /\ Ended'
  <2>1. UNCHANGED <<charge, live, content, present, local, swapped, batch, gone>>
    BY Zenon, <1>3 DEF Apply
  <2>2. \A c \in Charges : db[c] > 0 => db'[c] > 0
    BY <1>3, Applied, Adds
  <2> QED BY Zenon, <2>1, <2>2, LostFrame DEF Waiting
<1>4. ASSUME NEW deleted \in BOOLEAN, Settle(i, deleted) PROVE NothingLost' /\ Ended'
  <2>1. UNCHANGED <<charge, live, content, db, swapped, gone>> /\ pc[i] = "settle"
        /\ settling[i] \in [id : FlushIDs \cup {None}, applied : BOOLEAN]
    BY Zenon, <1>4 DEF Settle, PassTypes
  <2>2. CASE settling[i].id = None
    <3>1. UNCHANGED present /\ \A j \in Instances : j # i => local'[j] = local[j] /\ batch'[j] = batch[j]
      BY Zenon, <1>4, <2>2 DEF Settle, MemoryTypes
    <3>2. local[i] \subseteq local'[i] /\ (settling[i].applied \/ batch[i] \subseteq local'[i])
      BY Zenon, <1>4, <2>2 DEF Settle, PutBack, MemoryTypes
    <3>3. settling[i].applied => \A c \in batch[i] : db[c] > 0
      BY Zenon, <2>1, <2>2 DEF AppliedCounted, BatchOf
    <3>4. \A c \in Charges : Waiting(c) => Waiting(c)' \/ db[c] > 0
      BY Zenon, <2>1, <3>1, <3>2, <3>3 DEF Waiting
    <3> QED BY Zenon, <2>1, <3>4, LostFrame
  <2>3. CASE settling[i].id # None
    <3>1. UNCHANGED <<local, batch>> /\ present' = Unstaged(settling[i], deleted)
      BY Zenon, <1>4, <2>3 DEF Settle
    <3>2. settling[i].applied => \A c \in content[settling[i].id] : db[c] > 0
      BY Zenon, <2>1, <2>3 DEF AppliedCounted, BatchOf
    <3>3. \A f \in present : f \in present' \/ \A c \in content[f] : db[c] > 0
      BY Zenon, <3>1, <3>2 DEF Unstaged
    <3>4. \A c \in Charges : Waiting(c) => Waiting(c)' \/ db[c] > 0
      BY Zenon, <2>1, <3>1, <3>3 DEF Waiting
    <3> QED BY Zenon, <2>1, <3>4, LostFrame
  <2> QED BY Zenon, <2>2, <2>3
<1>5. ASSUME (\E ids \in SUBSET FlushIDs : readStaged(i, ids)) \/ (\E ok \in BOOLEAN : RefreshUsage(i, ok))
      PROVE  NothingLost' /\ Ended'
  BY Zenon, <1>5, LostFrame DEF readStaged, RefreshUsage, Waiting
<1> QED BY Zenon, <1>1, <1>2, <1>3, <1>4, <1>5 DEF FlushStep

(* So it is at every step, deaths and expiries aside.                      *)
LEMMA StepNotLost ==
    ASSUME Kinds, InOrder, OneHash, WithinTTL, AppliedCounted, NothingLost, Ended, ~SlowCharges, Next
    PROVE  NothingLost' /\ Ended'
<1>1. ASSUME NEW i \in Instances, Crash(i) PROVE NothingLost' /\ Ended'
  <2>1. UNCHANGED <<charge, live, content, present, db>>
    BY Zenon, <1>1 DEF Crash, Ended, Kinds, ChargeTypes
  <2>2. gone \subseteq gone' /\ \A j \in Instances : local[j] \cup swapped[j] \cup batch[j]
                                   \subseteq local'[j] \cup swapped'[j] \cup batch'[j] \cup gone'
    BY Zenon, <1>1 DEF Crash, Kinds, MemoryTypes
  <2>3. \A c \in Charges : Waiting(c) => Waiting(c)' \/ c \in gone'
    BY Zenon, <2>1, <2>2 DEF Waiting
  <2> QED BY Zenon, <2>1, <2>2, <2>3, LostFrame
<1>2. CASE DayPasses
  <2>1. UNCHANGED <<charge, content, db, local, swapped, batch>> /\ gone \subseteq gone'
    BY Zenon, <1>2 DEF DayPasses
  <2>2. \A c \in live.held : c \in live'.held \/ c \in gone'
    BY Zenon, <1>2 DEF DayPasses
  <2>3. \A f \in present : f \in present' \/ content[f] \subseteq gone'
    BY Zenon, <1>2 DEF DayPasses
  <2>4. \A c \in Charges : Waiting(c) => Waiting(c)' \/ c \in gone'
    BY Zenon, <2>1, <2>2, <2>3 DEF Waiting
  <2> QED BY Zenon, <2>1, <2>4, LostFrame
<1> QED BY Zenon, <1>1, <1>2, ChargeNotLost, FlushNotLost DEF Next

-----------------------------------------------------------------------------
(* The batch handed over holds no charge that Charge has not begun.        *)
LEMMA StepOneHash == ASSUME Kinds, InOrder, OneHash, Next PROVE OneHash'
<1> USE DEF Kinds
<1>1. ASSUME NEW i \in Instances, NEW c \in Charges, ChargeShared(i, c) \/ ChargeLocal(i, c) PROVE OneHash'
  <2>1. /\ charge[c] = "new" /\ charge'[c] # "new" /\ \A d \in Charges : d # c => charge'[d] = charge[d]
        /\ live'.held \subseteq live.held \cup {c} /\ UNCHANGED <<content, db>>
    BY <1>1 DEF ChargeShared, ChargeLocal, IntoLive, ChargeTypes, SharedTypes
  <2> QED BY Zenon, <2>1 DEF OneHash
<1>2. ASSUME NEW i \in Instances, NEW c \in Charges, AddLocal(i, c) PROVE OneHash'
  <2>1. charge[c] # "new" /\ charge'[c] # "new" /\ \A d \in Charges : d # c => charge'[d] = charge[d]
    BY Zenon, <1>2 DEF AddLocal, ChargeTypes
  <2> QED BY Zenon, <1>2, <2>1 DEF AddLocal, OneHash
<1>3. ASSUME NEW i \in Instances, SwapAll(i) \/ Take(i) \/ Crash(i) PROVE OneHash'
  <2>1. \A c \in Charges : charge'[c] = "new" <=> charge[c] = "new"
    BY Zenon, <1>3 DEF SwapAll, Take, Crash, Overtakes
  <2> QED BY Zenon, <1>3, <2>1 DEF SwapAll, Take, Crash, OneHash
<1>4. ASSUME NEW i \in Instances, NEW ok \in BOOLEAN, stage(i, ok) PROVE OneHash'
  <2>1. CASE UNCHANGED shared
    BY Zenon, <1>4, <2>1, HashFrame DEF stage
  <2>2. ASSUME NEW f \in FlushIDs, content[f] = {}, content' = [content EXCEPT ![f] = live.held],
               live' = [held |-> {}, day |-> 0]
        PROVE  OneHash'
    BY Zenon, <1>4, <2>2 DEF stage, OneHash, SharedTypes
  <2> QED BY Zenon, <1>4, <2>1, <2>2 DEF stage, Rename
<1>5. ASSUME NEW i \in Instances, NEW id \in FlushIDs \cup {None}, NEW done \in BOOLEAN, NEW answer \in BOOLEAN,
             Apply(i, id, done, answer)
      PROVE  OneHash'
  <2>1. \A c \in Charges : charge[c] = "new" => c \notin BatchOf(i, id)
    BY Zenon DEF OneHash, InOrder, InHand, BatchOf
  <2>2. \A c \in Charges : charge[c] = "new" => db'[c] = 0
    BY <1>5, <2>1, Applied, Adds DEF OneHash
  <2> QED BY Zenon, <1>5, <2>2 DEF Apply, OneHash
<1>6. CASE DayPasses
  <2>1. live'.held \subseteq live.held /\ UNCHANGED <<charge, db, content>>
    BY Zenon, <1>6 DEF DayPasses
  <2> QED BY Zenon, <2>1 DEF OneHash
<1>7. ASSUME NEW i \in Instances, FlushStep(i) PROVE OneHash'
  BY Zenon, <1>3, <1>4, <1>5, <1>7, HashFrame DEF FlushStep, readStaged, Settle, RefreshUsage
<1> QED BY Zenon, <1>1, <1>2, <1>3, <1>6, <1>7 DEF Next, ChargeStep

(* Every step keeps the days in order.                                     *)
LEMMA StepWithinTTL == ASSUME Kinds, InOrder, WithinTTL, Next PROVE WithinTTL'
<1> USE DEF Kinds
<1>1. ASSUME NEW i \in Instances, NEW c \in Charges, ChargeShared(i, c) \/ ChargeLocal(i, c) PROVE WithinTTL'
  <2>1. live' = live \/ live' = [held |-> live.held \cup {c}, day |-> day]
    BY Zenon, <1>1 DEF ChargeShared, ChargeLocal, IntoLive
  <2>2. live'.day <= day' /\ (live'.held # {} => day' <= live'.day + KeyTTL)
    BY <1>1, <2>1, RetentionPastTTL, FlushBounds DEF ChargeShared, ChargeLocal, WithinTTL
  <2>3. UNCHANGED <<content, present, stagedDay, day, recorded, recordedDay, todo>>
    BY Zenon, <1>1 DEF ChargeShared, ChargeLocal
  <2> QED BY Zenon, <2>2, <2>3 DEF WithinTTL
<1>2. ASSUME NEW i \in Instances, NEW ok \in BOOLEAN, stage(i, ok) PROVE WithinTTL'
  <2>1. CASE UNCHANGED shared
    BY Zenon, <1>2, <2>1, TTLFrame DEF stage, MemoryTypes
  <2>2. ASSUME NEW f \in FlushIDs, live.held # {}, content[f] = {}, content' = [content EXCEPT ![f] = live.held],
               present' = present \cup {f}, stagedDay' = [stagedDay EXCEPT ![f] = live.day],
               live' = [held |-> {}, day |-> 0]
        PROVE  WithinTTL'
    <3>1. UNCHANGED <<day, recorded, recordedDay, todo>>
      BY Zenon, <1>2 DEF stage
    <3>2. f \notin recorded /\ content'[f] = live.held /\ stagedDay'[f] = live.day
      BY Zenon, <2>2 DEF WithinTTL, SharedTypes
    <3>3. \A g \in FlushIDs : g # f => content'[g] = content[g] /\ stagedDay'[g] = stagedDay[g]
      BY Zenon, <2>2 DEF SharedTypes
    <3>4. 0 <= day
      BY FlushBounds
    <3> QED BY Zenon, <2>2, <3>1, <3>2, <3>3, <3>4 DEF WithinTTL
  <2> QED BY Zenon, <1>2, <2>1, <2>2 DEF stage, Rename
<1>3. ASSUME NEW i \in Instances, NEW ids \in SUBSET FlushIDs, readStaged(i, ids) PROVE WithinTTL'
  <2>1. \A j \in Instances : todo'[j] \subseteq todo[j] \cup present
    BY Zenon, <1>3 DEF readStaged, MemoryTypes
  <2> QED BY Zenon, <1>3, <2>1, TTLFrame DEF readStaged, MemoryTypes
<1>4. ASSUME NEW i \in Instances, NEW id \in FlushIDs \cup {None}, NEW done \in BOOLEAN, NEW answer \in BOOLEAN,
             Apply(i, id, done, answer)
      PROVE  WithinTTL'
  <2>1. UNCHANGED <<live, content, present, stagedDay, day, todo>>
    BY Zenon, <1>4 DEF Apply
  <2>2. CASE UNCHANGED <<recorded, recordedDay>>
    BY Zenon, <2>1, <2>2 DEF WithinTTL
  <2>3. CASE id # None /\ recorded' = (recorded \ Pruned) \cup {id} /\ recordedDay' = [recordedDay EXCEPT ![id] = day]
    <3>1. id \in FlushIDs /\ id \in todo[i]
      BY Zenon, <1>4, <2>3, NoneIsNoID DEF Apply, NextBatch
    <3>2. recordedDay'[id] = day /\ \A f \in FlushIDs : f # id => recordedDay'[f] = recordedDay[f]
      BY Zenon, <2>3, <3>1 DEF StoredTypes
    <3>3. \A f \in FlushIDs : f # id /\ f \in recorded' => f \in recorded
      BY Zenon, <2>3
    <3> QED BY Zenon, <2>1, <3>1, <3>2, <3>3 DEF WithinTTL
  <2> QED BY Zenon, <1>4, <2>2, <2>3, Applied
<1>5. ASSUME NEW i \in Instances, NEW deleted \in BOOLEAN, Settle(i, deleted) PROVE WithinTTL'
  <2>1. \A j \in Instances : todo'[j] \subseteq todo[j]
    BY Zenon, <1>5 DEF Settle, MemoryTypes
  <2>2. present' \subseteq present
    BY Zenon, <1>5 DEF Settle, Unstaged
  <2> QED BY Zenon, <1>5, <2>1, <2>2, TTLFrame DEF Settle, MemoryTypes
<1>6. ASSUME NEW i \in Instances, Crash(i) PROVE WithinTTL'
  <2>1. \A j \in Instances : todo'[j] \subseteq todo[j]
    BY Zenon, <1>6 DEF Crash, MemoryTypes
  <2> QED BY Zenon, <1>6, <2>1, TTLFrame DEF Crash, MemoryTypes
<1>7. CASE DayPasses
  <2>1. \A i \in Instances : todo'[i] = {}
    BY Zenon, <1>7 DEF DayPasses, InOrder
  <2>2. live'.day <= day' /\ (live'.held # {} => day' <= live'.day + KeyTTL)
    BY <1>7, RetentionPastTTL, FlushBounds DEF DayPasses, LiveExpired, WithinTTL, SharedTypes
  <2>3. \A f \in FlushIDs : f \in present' => f \in present /\ day' <= stagedDay[f] + KeyTTL
    BY <1>7, RetentionPastTTL, FlushBounds DEF DayPasses, Expired, SharedTypes
  <2>4. \A f \in FlushIDs : stagedDay[f] <= day'
    BY <1>7, FlushBounds DEF DayPasses, WithinTTL, SharedTypes
  <2>5. UNCHANGED <<content, stagedDay, recorded, recordedDay>>
    BY Zenon, <1>7 DEF DayPasses
  <2> QED BY Zenon, <2>1, <2>2, <2>3, <2>4, <2>5 DEF WithinTTL
<1>8. ASSUME NEW i \in Instances, SwapAll(i) \/ Take(i) \/ (\E ok \in BOOLEAN : RefreshUsage(i, ok)) PROVE WithinTTL'
  BY Zenon, <1>8, TTLFrame DEF SwapAll, Take, RefreshUsage, MemoryTypes
<1>9. ASSUME NEW i \in Instances, NEW c \in Charges, AddLocal(i, c) PROVE WithinTTL'
  BY Zenon, <1>9, TTLFrame DEF AddLocal, MemoryTypes
<1>10. ASSUME NEW i \in Instances, FlushStep(i) PROVE WithinTTL'
  BY Zenon, <1>2, <1>3, <1>4, <1>5, <1>8, <1>10 DEF FlushStep
<1> QED BY Zenon, <1>1, <1>6, <1>7, <1>9, <1>10 DEF Next, ChargeStep

(* Applying a hash spends it; a local batch holds no shared charge.        *)
LEMMA ApplySpent ==
    ASSUME Kinds, InOrder, OneHash, WithinTTL, SharedSpent, NEW i \in Instances, NEW id \in FlushIDs \cup {None},
           NEW done \in BOOLEAN, NEW answer \in BOOLEAN, Apply(i, id, done, answer)
    PROVE  SharedSpent'
<1>1. UNCHANGED <<charge, content, stagedDay, day>>
  BY Zenon DEF Apply
<1>2. CASE UNCHANGED stored
  BY Zenon, <1>1, <1>2, SpentFrame
<1>3. CASE db' = Added(batch[i]) /\ UNCHANGED recorded
  <2>1. \A c \in Charges : charge[c] = "shared" => c \notin batch[i]
    BY Zenon DEF InOrder, InHand
  <2>2. \A c \in Charges : charge[c] = "shared" => db'[c] = db[c]
    BY Zenon, <1>3, <2>1, Adds DEF Kinds
  <2> QED BY Zenon, <1>1, <1>3, <2>2 DEF SharedSpent, Spent
<1>4. CASE /\ id # None /\ db' = Added(content[id])
           /\ id \notin recorded /\ recorded' = (recorded \ Pruned) \cup {id}
  <2>1. id \in FlushIDs /\ id \in todo[i]
    BY Zenon, <1>4, NoneIsNoID DEF Apply, NextBatch
  <2>2. ~Spent(id)
    BY <1>4, <2>1, RetentionPastTTL, FlushBounds DEF Spent, WithinTTL, Kinds, SharedTypes
  <2>3. ASSUME NEW c \in Charges, charge[c] = "shared", db'[c] > 0
        PROVE  db'[c] = 1 /\ \E f \in FlushIDs : c \in content[f] /\ Spent(f)'
    <3>1. CASE c \in content[id]
      <4>1. ~(db[c] > 0)
        <5>1. ASSUME NEW f \in FlushIDs, c \in content[f] PROVE f = id
          BY Zenon, <2>1, <3>1, <5>1 DEF OneHash
        <5> QED BY Zenon, <2>2, <2>3, <5>1 DEF SharedSpent
      <4>2. db'[c] = 1
        BY <1>4, <3>1, <4>1, Adds DEF Kinds
      <4> QED BY Zenon, <1>4, <2>1, <3>1, <4>2 DEF Spent
    <3>2. CASE c \notin content[id]
      <4>1. db'[c] = db[c]
        BY Zenon, <1>4, <3>2, Adds DEF Kinds
      <4>2. PICK f \in FlushIDs : db[c] = 1 /\ c \in content[f] /\ Spent(f)
        BY Zenon, <2>3, <4>1 DEF SharedSpent
      <4>3. day' \in 0..MaxDay /\ day <= day'
        BY <1>1, FlushBounds DEF Kinds
      <4>4. Spent(f)'
        BY Zenon, <1>1, <1>4, <4>2, <4>3, SpentStays
      <4> QED BY Zenon, <4>1, <4>2, <4>4
    <3> QED BY Zenon, <3>1, <3>2
  <2> QED BY Zenon, <1>1, <2>3 DEF SharedSpent
<1> QED BY Zenon, <1>2, <1>3, <1>4, Applied DEF BatchOf

(* Every step counts a shared charge with its hash.                        *)
LEMMA StepSharedSpent ==
    ASSUME Kinds, InOrder, OneHash, WithinTTL, SharedSpent, Next PROVE SharedSpent'
<1>1. ASSUME NEW i \in Instances, NEW c \in Charges, ChargeStep(i, c) PROVE SharedSpent'
  <2>1. \A d \in Charges : charge'[d] = "shared" => charge[d] = "shared" \/ db[d] = 0
    BY Zenon, <1>1 DEF ChargeStep, ChargeShared, ChargeLocal, AddLocal, OneHash, Kinds, ChargeTypes
  <2>2. UNCHANGED <<content, stagedDay, day, recorded, db>>
    BY Zenon, <1>1 DEF ChargeStep, ChargeShared, ChargeLocal, AddLocal
  <2> QED BY Zenon, <2>1, <2>2, SpentFrame
<1>2. ASSUME NEW i \in Instances, SwapAll(i) \/ Take(i) \/ Crash(i) PROVE SharedSpent'
  <2>1. \A d \in Charges : charge'[d] = "shared" => charge[d] = "shared"
    BY Zenon, <1>2 DEF SwapAll, Take, Crash, Overtakes
  <2>2. UNCHANGED <<content, stagedDay, day, recorded, db>>
    BY Zenon, <1>2 DEF SwapAll, Take, Crash
  <2> QED BY Zenon, <2>1, <2>2, SpentFrame
<1>3. ASSUME NEW i \in Instances, NEW ok \in BOOLEAN, stage(i, ok) PROVE SharedSpent'
  <2>1. CASE UNCHANGED shared
    BY Zenon, <1>3, <2>1, SpentFrame DEF stage
  <2>2. ASSUME NEW f \in FlushIDs, content[f] = {}, content' = [content EXCEPT ![f] = live.held],
               stagedDay' = [stagedDay EXCEPT ![f] = live.day]
        PROVE  SharedSpent'
    <3>1. \A g \in FlushIDs : g # f => content'[g] = content[g] /\ stagedDay'[g] = stagedDay[g]
      BY Zenon, <2>2 DEF Kinds, SharedTypes
    <3>2. UNCHANGED <<charge, db, recorded, day>>
      BY Zenon, <1>3 DEF stage
    <3> QED BY Zenon, <2>2, <3>1, <3>2 DEF SharedSpent, Spent
  <2> QED BY Zenon, <1>3, <2>1, <2>2 DEF stage, Rename
<1>4. CASE DayPasses
  <2>1. UNCHANGED <<charge, content, stagedDay, recorded, db>> /\ day' \in 0..MaxDay /\ day <= day'
    BY <1>4, FlushBounds DEF DayPasses, Kinds
  <2> QED BY Zenon, <2>1, SpentStays DEF SharedSpent
<1>5. ASSUME NEW i \in Instances, FlushStep(i) PROVE SharedSpent'
  BY Zenon, <1>2, <1>3, <1>5, ApplySpent, SpentFrame DEF FlushStep, readStaged, Settle, RefreshUsage
<1> QED BY Zenon, <1>1, <1>2, <1>4, <1>5 DEF Next

(* What the store said it applied is in its counts.                        *)
LEMMA StepAppliedCounted ==
    ASSUME Kinds, InOrder, OneHash, WithinTTL, AppliedCounted, Next PROVE AppliedCounted'
<1>1. ASSUME UNCHANGED <<content, recorded, db>>,
             \A j \in Instances : pc'[j] = "settle" =>
                pc[j] = "settle" /\ settling'[j] = settling[j] /\ batch'[j] = batch[j]
      PROVE  AppliedCounted'
  BY Zenon, <1>1 DEF AppliedCounted, BatchOf
<1>2. ASSUME NEW i \in Instances, NEW c \in Charges, ChargeStep(i, c) PROVE AppliedCounted'
  BY Zenon, <1>1, <1>2 DEF ChargeStep, ChargeShared, ChargeLocal, AddLocal
<1>3. ASSUME NEW i \in Instances,
             SwapAll(i) \/ Take(i) \/ Crash(i) \/ (\E ids \in SUBSET FlushIDs : readStaged(i, ids))
             \/ (\E ok \in BOOLEAN : RefreshUsage(i, ok))
      PROVE  AppliedCounted'
  <2>1. /\ pc'[i] # "settle" /\ \A j \in Instances : j # i => pc'[j] = pc[j] /\ settling'[j] = settling[j]
                                                               /\ batch'[j] = batch[j]
        /\ UNCHANGED <<content, recorded, db>>
    BY Zenon, <1>3 DEF SwapAll, Take, Crash, readStaged, RefreshUsage, Kinds, MemoryTypes, PassTypes
  <2> QED BY Zenon, <1>1, <2>1
<1>4. ASSUME NEW i \in Instances, NEW deleted \in BOOLEAN, Settle(i, deleted) PROVE AppliedCounted'
  <2>1. /\ pc'[i] # "settle" /\ \A j \in Instances : j # i => pc'[j] = pc[j] /\ settling'[j] = settling[j]
                                                               /\ batch'[j] = batch[j]
        /\ UNCHANGED <<content, recorded, db>>
    BY Zenon, <1>4 DEF Settle, Kinds, MemoryTypes, PassTypes
  <2> QED BY Zenon, <1>1, <2>1
<1>5. ASSUME NEW i \in Instances, NEW ok \in BOOLEAN, stage(i, ok) PROVE AppliedCounted'
  <2>1. UNCHANGED <<recorded, db, batch, settling>> /\ \A j \in Instances : pc'[j] = "settle" => pc[j] = "settle"
    BY Zenon, <1>5 DEF stage, Kinds, PassTypes
  <2>2. CASE UNCHANGED shared
    BY Zenon, <2>1, <2>2 DEF AppliedCounted, BatchOf
  <2>3. ASSUME NEW f \in FlushIDs, content[f] = {}, content' = [content EXCEPT ![f] = live.held]
        PROVE  AppliedCounted'
    <3>1. f \notin recorded /\ \A j \in Instances : f \notin todo[j]
      BY Zenon, <2>3 DEF WithinTTL
    <3>2. \A j \in Instances : pc[j] = "settle" => settling[j].id # f
      BY Zenon, <3>1, NoneIsNoID, SettlesItsOwn
    <3>3. \A g \in FlushIDs : g # f => content'[g] = content[g]
      BY Zenon, <2>3 DEF Kinds, SharedTypes
    <3>4. \A g \in recorded : content'[g] = content[g]
      BY Zenon, <3>1, <3>3, BatchKinds
    <3>5. \A j \in Instances : pc[j] = "settle" => BatchOf(j, settling[j].id)' = BatchOf(j, settling[j].id)
      BY Zenon, <2>1, <3>2, <3>3, BatchKinds DEF BatchOf
    <3> QED BY Zenon, <2>1, <3>4, <3>5 DEF AppliedCounted, BatchOf
  <2> QED BY Zenon, <1>5, <2>2, <2>3 DEF stage, Rename
<1>6. ASSUME NEW i \in Instances, NEW id \in FlushIDs \cup {None}, NEW done \in BOOLEAN, NEW answer \in BOOLEAN,
             Apply(i, id, done, answer)
      PROVE  AppliedCounted'
  <2>1. UNCHANGED <<content, batch>> /\ (answer => done)
        /\ settling' = [settling EXCEPT ![i] = [id |-> id, applied |-> answer]] /\ pc' = [pc EXCEPT ![i] = "settle"]
    BY Zenon, <1>6 DEF Apply
  <2>2. \A c \in Charges : db[c] > 0 => db'[c] > 0
    BY <1>6, Applied, Adds DEF Kinds
  <2>3. BatchOf(i, id) \subseteq Charges /\ \A f \in FlushIDs : content[f] \subseteq Charges
    BY Zenon, BatchKinds
  <2>4. ASSUME done PROVE \A c \in BatchOf(i, id) : db'[c] > 0
    <3>1. CASE UNCHANGED stored /\ id \in recorded
      BY Zenon, <2>2, <2>3, <3>1, NoneIsNoID, BatchKinds DEF AppliedCounted, BatchOf
    <3>2. CASE db' = Added(BatchOf(i, id))
      BY <2>3, <3>2, Adds DEF Kinds
    <3>3. (UNCHANGED stored /\ (done => id \in recorded)) \/ db' = Added(BatchOf(i, id))
      BY Zenon, <1>6, Applied
    <3> QED BY Zenon, <2>4, <3>1, <3>2, <3>3
  <2>5. \A f \in recorded' : f \in recorded \/ (f = id /\ id # None /\ done)
    BY <1>6, Applied
  <2>6. \A f \in recorded' : \A c \in content'[f] : db'[c] > 0
    BY Zenon, <2>1, <2>2, <2>3, <2>4, <2>5, BatchKinds DEF AppliedCounted, BatchOf
  <2>7. ASSUME NEW j \in Instances, pc'[j] = "settle", settling'[j].applied, NEW c \in BatchOf(j, settling[j].id)'
        PROVE  db'[c] > 0
    <3>1. CASE j = i
      BY Zenon, <2>1, <2>4, <2>7, <3>1 DEF BatchOf, Kinds, PassTypes
    <3>2. CASE j # i
      <4>1. pc[j] = "settle" /\ settling'[j] = settling[j]
        BY Zenon, <2>1, <2>7, <3>2 DEF Kinds, PassTypes
      <4>2. c \in BatchOf(j, settling[j].id) /\ c \in Charges
        BY Zenon, <2>1, <2>3, <2>7, <4>1, BatchKinds DEF BatchOf
      <4> QED BY Zenon, <2>2, <2>7, <4>1, <4>2 DEF AppliedCounted
    <3> QED BY Zenon, <3>1, <3>2
  <2> QED BY Zenon, <2>6, <2>7 DEF AppliedCounted, BatchOf
<1>7. CASE DayPasses
  BY Zenon, <1>1, <1>7 DEF DayPasses
<1>8. ASSUME NEW i \in Instances, FlushStep(i) PROVE AppliedCounted'
  BY Zenon, <1>3, <1>4, <1>5, <1>6, <1>8 DEF FlushStep
<1> QED BY Zenon, <1>2, <1>3, <1>7, <1>8 DEF Next

-----------------------------------------------------------------------------
(* Every step keeps the invariant.                                         *)
LEMMA StepInv == FlushInv /\ [Next]_vars => FlushInv'
<1> SUFFICES ASSUME FlushInv, [Next]_vars PROVE FlushInv'
  OBVIOUS
<1>1. Kinds
  BY Zenon, Typed DEF FlushInv
<1>2. CASE Next
  <2>1. Kinds' /\ InOrder'
    BY Zenon, <1>1, <1>2, StepKinds, StepInOrder DEF FlushInv
  <2>2. TypeOK'
    BY Zenon, <2>1, Typed DEF Kinds, InOrder, TypeOK
  <2>3. OneHash' /\ WithinTTL' /\ SharedSpent' /\ AppliedCounted'
    BY Zenon, <1>1, <1>2, StepOneHash, StepWithinTTL, StepSharedSpent, StepAppliedCounted DEF FlushInv
  <2>4. ~LostAnswers /\ ~LostCommits => LocalOnce'
    BY Zenon, <1>1, <1>2, StepLocalOnce DEF FlushInv
  <2>5. ~SlowCharges => NothingLost' /\ Ended'
    BY Zenon, <1>1, <1>2, StepNotLost DEF FlushInv, Ended
  <2> QED BY Zenon, <2>1, <2>2, <2>3, <2>4, <2>5 DEF FlushInv, Ended
<1>3. CASE UNCHANGED vars
  BY Zenon, <1>3, Stutter
<1> QED BY Zenon, <1>2, <1>3

(* Every state of the usage flush satisfies the invariant.                 *)
THEOREM FlushInvariance == Spec => []FlushInv
BY InitInv, StepInv, PTL DEF Spec

(* A charge the shared hash took is counted at most once, whatever answers *)
(* are lost and whichever instances apply its hash: Flusher.applyStaged    *)
(* and ApplyUsageBatch with the pruning of recorded ids.                   *)
THEOREM SharedChargesOnce == Spec => []SharedCountedOnce
<1>1. FlushInv => SharedCountedOnce
  BY DEF FlushInv, TypeOK, StoredTypes, SharedSpent, SharedCountedOnce
<1> QED BY <1>1, FlushInvariance, PTL

(* Where no answer of Redis or of the store is lost, every charge is       *)
(* counted at most once, put back and retried as Flusher does.             *)
THEOREM ChargesOnce ==
    ASSUME ~LostAnswers, ~LostCommits
    PROVE  Spec => []CountedOnce
<1>1. FlushInv => CountedOnce
  BY DEF FlushInv, TypeOK, StoredTypes, SharedSpent, CountedOnce, OneHash, LocalOnce, CountedWithBatch
<1> QED BY <1>1, FlushInvariance, PTL

(* Where no charge is between the two halves of a local add, no charge is  *)
(* dropped between the places the flush moves it through.                  *)
THEOREM NoChargeLost ==
    ASSUME ~SlowCharges
    PROVE  Spec => []NothingLost
<1>1. FlushInv => NothingLost
  BY Zenon DEF FlushInv
<1> QED BY <1>1, FlushInvariance, PTL
=============================================================================
