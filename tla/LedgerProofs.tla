---------------------------- MODULE LedgerProofs ----------------------------
(***************************************************************************)
(* LedgerInv is an inductive invariant of the ledger, for any number of    *)
(* keys, backends, operations and claims, and what follows from it.        *)
(***************************************************************************)
EXTENDS LedgerRegister, FiniteSetTheorems

(* Nothing is claimed at the start.                                        *)
LEMMA InitLedgerInv ==
    ASSUME Init
    PROVE  LedgerInv
<1> USE DEF Init
<1>1. Used = {} /\ \A p \in Used : FALSE
  BY DEF Used
<1>2. TypeOK
  BY <1>1, BoundsAssumption DEF TypeOK, NoClaim
<1>3. Bookkeeping /\ ReaperWaits /\ FanoutTogether
  BY Zenon, <1>1 DEF Bookkeeping, ReaperWaits, FanoutTogether, Ops
<1>4. Separation /\ BytesInPlace /\ CopiesAgree /\ FanoutOwnsKey
  BY Zenon DEF Separation, QueuedBytesAreDead, Queued, BytesInPlace, RecordedBytesStored,
         CopiesAgree, FanoutOwnsKey
<1> QED BY Zenon, <1>2, <1>3, <1>4 DEF LedgerInv

(* The invariant reads nothing but vars.                                   *)
LEMMA StutterLedgerInv ==
    ASSUME LedgerInv, UNCHANGED vars
    PROVE  LedgerInv'
<1> USE DEF vars, uploads, ledger
<1>1. TypeOK' /\ Bookkeeping'
  BY Zenon DEF LedgerInv, TypeOK, Bookkeeping, Used, Content, Key
<1>2. Separation' /\ BytesInPlace' /\ CopiesAgree'
  BY Zenon DEF LedgerInv, Separation, BytesInPlace, CopiesAgree, QueuedBytesAreDead, Queued,
         RecordedBytesStored, Arrived, Live, Key, Content
<1>3. ReaperWaits' /\ FanoutTogether'
  BY DEF LedgerInv, ReaperWaits, Elders, Done, Live, PathsOf, Used, FanoutTogether
<1>4. FanoutOwnsKey'
  BY DEF LedgerInv, FanoutOwnsKey, RowsOf, IntentsOf, Key, Content, Live
<1> QED BY SMTT(30), <1>1, <1>2, <1>3, <1>4 DEF LedgerInv

(* Every step keeps the invariant.                                         *)
LEMMA NextLedgerInv ==
    ASSUME LedgerInv, ~ReaperRaces, Next
    PROVE  LedgerInv'
<1>1. CASE \E o \in Puts, b \in Backends : ClaimWriteTarget(o, b)
  BY Zenon, <1>1, ClaimWriteTargetStep
<1>2. CASE \E o \in Fanouts, bs \in Targets : ClaimWriteCopies(o, bs)
  BY Zenon, <1>2, ClaimWriteCopiesStep
<1>3. CASE \E o \in Copiers, p \in Paths : Scan(o, p)
  BY Zenon, <1>3, ScanStep
<1>4. CASE \E o \in Copiers, b \in Backends : ClaimCopyTarget(o, b)
  BY Zenon, <1>4, ClaimCopyTargetStep
<1>5. ASSUME NEW p \in Used, Transfer(p)
      PROVE  LedgerInv'
  BY SMTT(30), <1>5, ReadSourceStep, SourceMissingStep, CopyFailsStep, PlaceCopyStep, UploadOkStep,
     UploadRefusedStep, UploadFailsStep, RecordObjectStep, CommitCompanionCopyStep,
     leaveForReaperStep DEF Transfer
<1>6. ASSUME NEW p \in Used, Network(p) \/ Reaper(p) \/ DeleteObjectLocation(p)
      PROVE  LedgerInv'
  BY Zenon, <1>6, LandStep, LostStep, probeBackendStep, PromotePendingStep, dropIntentStep,
     DeleteObjectLocationStep DEF Network, Reaper
<1>7. CASE \E o \in Ops : GiveUp(o) \/ Crash(o)
  BY Zenon, <1>7, GiveUpStep, CrashStep
<1>8. CASE \E ks \in SUBSET Keys : DeleteObjectsBatch(ks)
  BY Zenon, <1>8, DeleteObjectsBatchStep
<1>9. CASE \E c \in cleanup : Settle(c)
  BY Zenon, <1>9, SettleStep
<1> QED BY SMTT(30), <1>1, <1>2, <1>3, <1>4, <1>5, <1>6, <1>7, <1>8, <1>9 DEF Next

(* When min_age outlasts every write, LedgerInv holds in every reachable   *)
(* state: of the tables, the backends' bytes and the running uploads.      *)
THEOREM LedgerInvariance ==
    ASSUME ~ReaperRaces
    PROVE  Spec => []LedgerInv
<1>1. Init => LedgerInv
  BY Zenon, InitLedgerInv
<1>2. LedgerInv /\ [Next]_vars => LedgerInv'
  BY Zenon, NextLedgerInv, StutterLedgerInv
<1> QED BY <1>1, <1>2, PTL DEF Spec

(* The tables keep their shape: no row, intent, stamp or cleanup names a   *)
(* path that was never claimed, and no stamp outlives its row or intent.   *)
THEOREM LedgerTypes ==
    ASSUME ~ReaperRaces
    PROVE  Spec => []TypeOK
<1>1. LedgerInv => TypeOK
  BY Zenon DEF LedgerInv
<1> QED BY <1>1, LedgerInvariance, PTL

(* Whatever the interleaving of writes, fan-outs, replicas, moves,         *)
(* deletes, crashes, the reaper and the cleanup worker, every row's bytes  *)
(* are on its backend: the ledger never loses a copy it records.           *)
THEOREM NoRecordedByteLost ==
    ASSUME ~ReaperRaces
    PROVE  Spec => []RecordedBytesStored
<1>1. LedgerInv => RecordedBytesStored
  BY Zenon DEF LedgerInv, BytesInPlace
<1> QED BY <1>1, LedgerInvariance, PTL

(* The cleanup queue never names bytes that a row records or that an       *)
(* intent may still turn into a row, so blind deletion is safe.            *)
THEOREM CleanupIsSafe ==
    ASSUME ~ReaperRaces
    PROVE  Spec => []QueuedBytesAreDead
<1>1. LedgerInv => QueuedBytesAreDead
  BY Zenon DEF LedgerInv, Separation
<1> QED BY <1>1, LedgerInvariance, PTL

(* Any two copies that a key's rows record are copies of one write.        *)
THEOREM CopiesOfOneWrite ==
    ASSUME ~ReaperRaces
    PROVE  Spec => []CopiesAgree
<1>1. LedgerInv => CopiesAgree
  BY Zenon DEF LedgerInv
<1> QED BY <1>1, LedgerInvariance, PTL

-----------------------------------------------------------------------------
(* Only a client's delete takes the last copy of a key.                    *)

(* Every row that goes leaves another one of its key.                      *)
Succeeded ==
    /\ \A p \in rows : claim'[p] = claim[p]
    /\ \A p \in rows \ rows' : \E q \in rows' : Key(q)' = Key(p)

(* Such a step empties no key.                                             *)
LEMMA SucceededKeeps ==
    ASSUME Succeeded, NEW k \in Keys, RowsOf(k) # {}
    PROVE  RowsOf(k)' # {}
<1>1. PICK p \in rows : Key(p) = k
  BY Zenon DEF RowsOf
<1>2. CASE p \in rows'
  BY Zenon, <1>1, <1>2 DEF Succeeded, RowsOf, Key
<1>3. CASE p \notin rows'
  BY Zenon, <1>1, <1>3 DEF Succeeded, RowsOf
<1> QED BY Zenon, <1>2, <1>3

(* A step that leaves the rows and the claims of recorded paths alone.     *)
LEMMA SameRows ==
    ASSUME rows' = rows, \A p \in rows : claim'[p] = claim[p]
    PROVE  Succeeded
BY Zenon DEF Succeeded

(* A transaction that replaces rows by a row of the same key.              *)
LEMMA Replaced ==
    ASSUME NEW p, NEW S, claim' = claim, rows' = (rows \ S) \cup {p},
           \A q \in S : Key(q) = Key(p)
    PROVE  Succeeded
BY Zenon DEF Succeeded, Key

(* A claim gives new paths their claims.                                   *)
LEMMA ClaimSucceeded ==
    ASSUME LedgerInv, NEW o, NEW bs, NEW content, NEW first, InsertPending(o, bs, content, first)
    PROVE  Succeeded
<1>1. \A p \in rows : p \in Paths /\ p \in 1..claimed /\ claimed \in Nat
  BY UsedInPaths DEF LedgerInv, TypeOK, Used, Paths
<1>2. \A p \in rows : ~(p \in claimed + 1 .. claimed + Len(bs))
  BY <1>1
<1>3. \A p \in rows : claim'[p] = claim[p]
  BY Zenon, <1>1, <1>2 DEF InsertPending
<1> QED BY Zenon, <1>3, SameRows DEF InsertPending

(* A write, a companion, a replica, a move and a recovered intent replace  *)
(* rows by a row of the same key, or leave them.                           *)
LEMMA TransferSucceeded ==
    ASSUME LedgerInv, NEW p \in Used, Transfer(p) \/ PromotePending(p)
    PROVE  Succeeded
<1>1. CASE RecordObject(p)
  <2>1. rows' = rows \/ rows' = (rows \ RowsOf(Key(p))) \cup {p}
    BY Zenon, <1>1 DEF RecordObject, recordObjectTx, Commit, ledger
  <2>2. claim' = claim /\ \A q \in RowsOf(Key(p)) : Key(q) = Key(p)
    BY Zenon, <1>1 DEF RecordObject, RowsOf
  <2> QED BY Zenon, <2>1, <2>2, SameRows, Replaced
<1>2. CASE CommitCompanionCopy(p)
  <2>1. rows' = rows \/ rows' = (rows \ {}) \cup {p}
    BY Zenon, <1>2 DEF CommitCompanionCopy, Commit, ledger
  <2> QED BY <1>2, <2>1, SameRows, Replaced DEF CommitCompanionCopy
<1>3. CASE PlaceCopy(p)
  <2> DEFINE src == source[claim[p].op]
  <2>1. Key(src) = Key(p)
    BY SMTT(30), <1>3 DEF PlaceCopy, LedgerInv, Bookkeeping, Key
  <2>2. \/ rows' = rows
        \/ rows' = (rows \ {src}) \cup {p}
        \/ rows' = (rows \ {}) \cup {p}
    BY Zenon, <1>3 DEF PlaceCopy, placeCopyTx, Commit, ledger
  <2>3. claim' = claim
    BY SMTT(30), <1>3 DEF PlaceCopy
  <2>4. CASE rows' = (rows \ {src}) \cup {p}
    BY Zenon, <2>1, <2>3, <2>4 DEF Succeeded, Key
  <2>5. CASE rows' = (rows \ {}) \cup {p}
    BY Zenon, <2>3, <2>5 DEF Succeeded
  <2> QED BY SMTT(30), <2>2, <2>3, <2>4, <2>5, SameRows
<1>4. CASE SourceMissing(p)
  <2>1. source[claim[p].op] \notin rows
    BY Zenon, <1>4 DEF SourceMissing, LedgerInv, BytesInPlace, RecordedBytesStored
  <2>2. rows' = rows /\ claim' = claim
    BY ZenonT(30), <1>4, <2>1 DEF SourceMissing, Commit
  <2> QED BY Zenon, <2>2, SameRows
<1>5. CASE CopyFails(p) \/ UploadRefused(p)
  BY Zenon, <1>5, SameRows DEF CopyFails, UploadRefused, DiscardPending, Commit, ledger
<1>6. CASE ReadSource(p) \/ UploadOk(p) \/ UploadFails(p) \/ leaveForReaper(p)
  BY SMTT(30), <1>6, SameRows DEF ReadSource, UploadOk, UploadFails, leaveForReaper, ledger
<1>7. CASE PromotePending(p)
  <2>1. rows' = rows \/ rows' = (rows \ RowsOf(Key(p))) \cup {p}
    BY Zenon, <1>7 DEF PromotePending, promotePendingTx, Commit, ledger
  <2>2. claim' = claim /\ \A q \in RowsOf(Key(p)) : Key(q) = Key(p)
    BY Zenon, <1>7 DEF PromotePending, RowsOf, uploads
  <2> QED BY Zenon, <2>1, <2>2, SameRows, Replaced
<1> QED BY Zenon, <1>1, <1>2, <1>3, <1>4, <1>5, <1>6, <1>7 DEF Transfer

(* DropCopy's floor: more than one copy means another one stays.           *)
LEMMA FloorLeavesOne ==
    ASSUME NEW p \in Used, DeleteObjectLocation(p)
    PROVE  RowsOf(Key(p)) # {p}
<1>1. Cardinality({p}) = 1
  BY Zenon, FS_Singleton
<1> QED BY <1>1 DEF DeleteObjectLocation

(* So a dropped copy has a successor.                                      *)
LEMMA DropSucceeded ==
    ASSUME LedgerInv, NEW p \in Used, DeleteObjectLocation(p)
    PROVE  Succeeded
<1>1. RowsOf(Key(p)) # {p}
  BY Zenon, FloorLeavesOne
<1>2. p \in RowsOf(Key(p))
  BY Zenon DEF DeleteObjectLocation, RowsOf
<1>3. PICK q \in RowsOf(Key(p)) : q # p
  BY Zenon, <1>1, <1>2
<1>4. rows' = rows \ {p} /\ claim' = claim
  BY Zenon DEF DeleteObjectLocation, Commit, uploads
<1> QED BY Zenon, <1>3, <1>4 DEF Succeeded, RowsOf, Key

(* Every step but a client's delete.                                       *)
LEMMA NextSucceeded ==
    ASSUME LedgerInv, Next, \A ks \in SUBSET Keys : ~DeleteObjectsBatch(ks)
    PROVE  Succeeded
<1>1. ASSUME NEW o, NEW b, ClaimWriteTarget(o, b) \/ ClaimCopyTarget(o, b) \/ ClaimWriteCopies(o, b)
      PROVE  Succeeded
  BY Zenon, <1>1, ClaimSucceeded DEF ClaimWriteTarget, ClaimCopyTarget, ClaimWriteCopies
<1>2. ASSUME NEW o, NEW p, Scan(o, p) PROVE Succeeded
  BY Zenon, <1>2, SameRows DEF Scan, uploads, ledger
<1>3. ASSUME NEW p \in Used, Transfer(p) \/ Reaper(p) \/ Network(p) \/ DeleteObjectLocation(p)
      PROVE  Succeeded
  <2>1. CASE Transfer(p) \/ PromotePending(p)
    BY Zenon, <2>1, TransferSucceeded
  <2>2. CASE Network(p) \/ probeBackend(p) \/ dropIntent(p)
    BY Zenon, <2>2, SameRows DEF Network, Land, Lost, probeBackend, dropIntent, Commit, uploads, ledger
  <2> QED BY Zenon, <1>3, <2>1, <2>2, DropSucceeded DEF Reaper
<1>4. ASSUME NEW o, GiveUp(o) \/ Crash(o) PROVE Succeeded
  BY Zenon, <1>4, SameRows DEF GiveUp, Crash, uploads, ledger
<1>5. ASSUME NEW c, Settle(c) PROVE Succeeded
  BY Zenon, <1>5, SameRows DEF Settle, uploads
<1> QED BY Zenon, <1>1, <1>2, <1>3, <1>4, <1>5 DEF Next

(* Whatever moves, overwrites, replicas, dropped copies and recoveries     *)
(* interleave, a key that has a copy keeps one until a client's delete     *)
(* (DeleteObjectLocation's floor, placeCopyTx, recordObjectTx).            *)
THEOREM LastCopyKept ==
    ASSUME ~ReaperRaces
    PROVE  Spec => KeptUntilDeleted
<1> DEFINE Kept == \A k \in Keys : RowsOf(k) # {} /\ RowsOf(k)' = {} =>
                       \E ks \in SUBSET Keys : k \in ks /\ DeleteObjectsBatch(ks)
<1>1. ASSUME LedgerInv, [Next]_vars PROVE [Kept]_vars
  <2> SUFFICES ASSUME Next, NEW k \in Keys, RowsOf(k) # {}, RowsOf(k)' = {}
               PROVE  \E ks \in SUBSET Keys : k \in ks /\ DeleteObjectsBatch(ks)
    BY Zenon, <1>1
  <2>1. PICK ks \in SUBSET Keys : DeleteObjectsBatch(ks)
    BY Zenon, <1>1, NextSucceeded, SucceededKeeps
  <2>2. k \in ks
    <3>1. PICK p \in rows : Key(p) = k
      BY Zenon DEF RowsOf
    <3>2. claim' = claim /\ rows' = rows \ UNION {RowsOf(l) : l \in ks}
      BY Zenon, <2>1 DEF DeleteObjectsBatch, Commit, uploads
    <3>3. p \notin rows'
      BY Zenon, <3>1, <3>2 DEF RowsOf, Key
    <3> QED BY Zenon, <3>1, <3>2, <3>3 DEF RowsOf
  <2> QED BY Zenon, <2>1, <2>2
<1> QED BY <1>1, LedgerInvariance, PTL DEF Spec, KeptUntilDeleted

-----------------------------------------------------------------------------
(* The limit of a backend.                                                 *)

(* What the ledger owes a backend, path by path.                           *)
QueuedFrom(b) == {p \in Used : claim[p].backend = b /\ <<p, "removed">> \in cleanup}
Owed(b) == On(rows, b) \cup On(intents, b) \cup QueuedFrom(b)

(* The three tables name different paths, so the paths can be counted.     *)
LEMMA OwedCounted ==
    ASSUME LedgerInv, NEW b \in Backends
    PROVE  /\ IsFiniteSet(Owed(b))
           /\ Cardinality(Owed(b))
                = Cardinality(On(rows, b)) + Cardinality(On(intents, b))
                  + Cardinality({c \in cleanup : claim[c[1]].backend = b /\ c[2] = "removed"})
           /\ Cardinality(Owed(b)) <= Occupied(b) /\ Occupied(b) \in Nat
<1> DEFINE R == On(rows, b)
           I == On(intents, b)
           Q == QueuedFrom(b)
           C == {c \in cleanup : claim[c[1]].backend = b /\ c[2] = "removed"}
           D == {c \in cleanup : claim[c[1]].backend = b}
<1>1. IsFiniteSet(Used)
  <2>1. 1 \in Int /\ claimed \in Int
    BY BoundsAssumption DEF LedgerInv, TypeOK
  <2> QED BY Zenon, <2>1, FS_Interval DEF Used
<1>2. R \subseteq Used /\ I \subseteq Used /\ Q \subseteq Used
  BY Zenon DEF LedgerInv, TypeOK, On, QueuedFrom
<1>3. IsFiniteSet(R) /\ IsFiniteSet(I) /\ IsFiniteSet(Q)
  BY Zenon, <1>1, <1>2, FS_Subset
<1>4. R \cap I = {} /\ (R \cup I) \cap Q = {}
  BY DEF LedgerInv, Separation, QueuedBytesAreDead, Queued, On, QueuedFrom
<1>5. IsFiniteSet(R \cup I) /\ Cardinality(R \cup I) = Cardinality(R) + Cardinality(I)
  <2>1. Cardinality(R \cap I) = 0
    BY Zenon, <1>4, FS_EmptySet
  <2>2. Cardinality(R) \in Nat /\ Cardinality(I) \in Nat
    BY Zenon, <1>3, FS_CardinalityType
  <2>3. IsFiniteSet(R \cup I) /\ Cardinality(R \cup I) = Cardinality(R) + Cardinality(I) - Cardinality(R \cap I)
    BY Zenon, <1>3, FS_Union
  <2> QED BY <2>1, <2>2, <2>3
<1>6. IsFiniteSet(R \cup I \cup Q) /\ Cardinality(R \cup I \cup Q) = Cardinality(R \cup I) + Cardinality(Q)
  <2>1. Cardinality((R \cup I) \cap Q) = 0
    BY Zenon, <1>4, FS_EmptySet
  <2>2. Cardinality(R \cup I) \in Nat /\ Cardinality(Q) \in Nat
    BY Zenon, <1>3, <1>5, FS_CardinalityType
  <2>3. IsFiniteSet(R \cup I \cup Q)
        /\ Cardinality(R \cup I \cup Q) = Cardinality(R \cup I) + Cardinality(Q) - Cardinality((R \cup I) \cap Q)
    BY Zenon, <1>3, <1>5, FS_Union
  <2> QED BY <2>1, <2>2, <2>3
<1>7. C = Q \X {"removed"}
  BY DEF LedgerInv, TypeOK, QueuedFrom
<1>8. Cardinality(C) = Cardinality(Q)
  <2>1. IsFiniteSet({"removed"}) /\ Cardinality({"removed"}) = 1
    BY Zenon, FS_Singleton
  <2>2. Cardinality(Q \X {"removed"}) = Cardinality(Q) * Cardinality({"removed"})
    BY Zenon, <1>3, <2>1, FS_Product
  <2>3. Cardinality(Q) \in Nat
    BY Zenon, <1>3, FS_CardinalityType
  <2>4. Cardinality(Q) * 1 = Cardinality(Q)
    BY <2>3
  <2> HIDE DEF Q, C
  <2> QED BY Zenon, <1>7, <2>1, <2>2, <2>4
<1>9. Cardinality(C) <= Cardinality(D) /\ Cardinality(C) \in Nat /\ Cardinality(D) \in Nat
  <2>1. IsFiniteSet({"removed", "overtaken"})
    <3>1. IsFiniteSet({"removed"}) /\ IsFiniteSet({"overtaken"})
      BY Zenon, FS_Singleton
    <3>2. IsFiniteSet({"removed"} \cup {"overtaken"})
      BY Zenon, <3>1, FS_Union
    <3> QED BY Zenon, <3>2, {"removed", "overtaken"} = {"removed"} \cup {"overtaken"}
  <2>2. IsFiniteSet(Used \X {"removed", "overtaken"})
    BY Zenon, <1>1, <2>1, FS_Product
  <2>3. IsFiniteSet(D)
    BY Zenon, <2>2, FS_Subset DEF LedgerInv, TypeOK
  <2> QED BY Zenon, <2>3, FS_Subset, FS_CardinalityType
<1>10. Cardinality(R) \in Nat /\ Cardinality(I) \in Nat
  BY Zenon, <1>3, FS_CardinalityType
<1> HIDE DEF R, I, Q, C, D
<1>11. Cardinality(R \cup I \cup Q) = Cardinality(R) + Cardinality(I) + Cardinality(C)
  BY Zenon, <1>5, <1>6, <1>8
<1>12. /\ Cardinality(R \cup I \cup Q) <= Cardinality(R) + Cardinality(I) + Cardinality(D)
       /\ Cardinality(R) + Cardinality(I) + Cardinality(D) \in Nat
  BY <1>9, <1>10, <1>11
<1>13. Owed(b) = R \cup I \cup Q /\ Occupied(b) = Cardinality(R) + Cardinality(I) + Cardinality(D)
  BY Zenon DEF Owed, Occupied, R, I, Q, D
<1> QED BY Zenon, <1>6, <1>11, <1>12, <1>13 DEF R, I, C

(* A step that owes no backend more keeps the limit.                       *)
LEMMA OwedNoMore ==
    ASSUME LedgerInv, LedgerInv', WithinLimit, NEW b \in Backends, Owed(b)' \subseteq Owed(b)
    PROVE  (Cardinality(On(rows, b)) + Cardinality(On(intents, b))
            + Cardinality({c \in cleanup : claim[c[1]].backend = b /\ c[2] = "removed"}) <= Capacity[b])'
<1>1. Cardinality(Owed(b)) <= Capacity[b] /\ IsFiniteSet(Owed(b))
  BY Zenon, OwedCounted DEF WithinLimit
<1>2. Cardinality(Owed(b)') <= Cardinality(Owed(b)) /\ Cardinality(Owed(b)') \in Nat /\ Cardinality(Owed(b)) \in Nat
  BY Zenon, <1>1, FS_Subset, FS_CardinalityType
<1>3. Cardinality(Owed(b)') <= Capacity[b]
  BY <1>1, <1>2, BoundsAssumption
<1>4. (LedgerInv => Cardinality(Owed(b)) = Cardinality(On(rows, b)) + Cardinality(On(intents, b))
            + Cardinality({c \in cleanup : claim[c[1]].backend = b /\ c[2] = "removed"}))'
  BY OwedCounted, PTL
<1> QED BY Zenon, <1>3, <1>4

(* A step that only records what was claimed, and queues for deletion only *)
(* what was recorded or claimed, owes no backend more.                     *)
OwesNoMore ==
    /\ claimed' = claimed /\ claim' = claim
    /\ rows' \cup intents' \subseteq rows \cup intents
    /\ \A p : <<p, "removed">> \in cleanup' \ cleanup => p \in rows \cup intents

(* Such a step keeps the limit.                                            *)
LEMMA NoMoreKeeps ==
    ASSUME LedgerInv, LedgerInv', WithinLimit, OwesNoMore
    PROVE  WithinLimit'
<1>1. ASSUME NEW b \in Backends PROVE Owed(b)' \subseteq Owed(b)
  BY Zenon DEF Owed, On, QueuedFrom, Used, OwesNoMore
<1> QED BY Zenon, <1>1, OwedNoMore DEF WithinLimit

(* A transaction of that kind.                                             *)
LEMMA CommitNoMore ==
    ASSUME NEW R, NEW I, NEW S, NEW Q, Commit(R, I, S, Q), claimed' = claimed, claim' = claim,
           R \cup I \subseteq rows \cup intents,
           \A p : <<p, "removed">> \in Q => p \in rows \cup intents
    PROVE  OwesNoMore
BY Zenon DEF Commit, OwesNoMore

(* The end of an upload owes no backend more.                              *)
LEMMA TransferNoMore ==
    ASSUME LedgerInv, NEW p \in Used, Transfer(p)
    PROVE  OwesNoMore
<1>1. CASE RecordObject(p)
  <2>1. claimed' = claimed /\ claim' = claim
    BY Zenon, <1>1 DEF RecordObject
  <2>2. ASSUME NEW placing, recordObjectTx(p, placing) PROVE OwesNoMore
    <3>1. CASE p \in intents
      BY <2>1, <2>2, <3>1, CommitNoMore DEF recordObjectTx, RowsOf, IntentsOf, Removed
    <3>2. CASE p \notin intents
      BY Zenon, <2>1, <2>2, <3>2, CommitNoMore DEF recordObjectTx, Overtaken
    <3> QED BY Zenon, <3>1, <3>2
  <2>3. CASE UNCHANGED ledger
    BY Zenon, <2>1, <2>3 DEF OwesNoMore, ledger
  <2> QED BY Zenon, <1>1, <2>2, <2>3 DEF RecordObject
<1>2. CASE CommitCompanionCopy(p)
  <2>1. claimed' = claimed /\ claim' = claim
    BY Zenon, <1>2 DEF CommitCompanionCopy
  <2>2. CASE p \in intents /\ Commit(rows \cup {p}, intents \ {p}, Stamp(p), {})
    BY Zenon, <2>1, <2>2, CommitNoMore
  <2>3. CASE Commit(rows, intents, {}, Overtaken(p))
    BY Zenon, <2>1, <2>3, CommitNoMore DEF Overtaken
  <2>4. CASE UNCHANGED ledger
    BY Zenon, <2>1, <2>4 DEF OwesNoMore, ledger
  <2> QED BY Zenon, <1>2, <2>2, <2>3, <2>4 DEF CommitCompanionCopy
<1>3. CASE PlaceCopy(p)
  <2>1. claimed' = claimed /\ claim' = claim
    BY Zenon, <1>3 DEF PlaceCopy
  <2>2. ASSUME NEW src, NEW move, placeCopyTx(p, src, move) PROVE OwesNoMore
    <3>1. CASE p \notin intents
      BY Zenon, <2>1, <2>2, <3>1, CommitNoMore DEF placeCopyTx, Overtaken
    <3>2. CASE p \in intents /\ refusal(p, src, move)
      BY <2>1, <2>2, <3>2, CommitNoMore DEF placeCopyTx, Removed
    <3>3. CASE p \in intents /\ ~refusal(p, src, move)
      <4>1. src \in rows
        BY Zenon, <3>3 DEF refusal
      <4> QED BY <2>1, <2>2, <3>3, <4>1, CommitNoMore DEF placeCopyTx, Removed
    <3> QED BY Zenon, <3>1, <3>2, <3>3
  <2>3. CASE UNCHANGED ledger
    BY Zenon, <2>1, <2>3 DEF OwesNoMore, ledger
  <2> QED BY Zenon, <1>3, <2>2, <2>3 DEF PlaceCopy
<1>4. CASE SourceMissing(p)
  BY <1>4, CommitNoMore DEF SourceMissing, Removed
<1>5. CASE CopyFails(p) \/ UploadRefused(p)
  <2>1. claimed' = claimed /\ claim' = claim /\ DiscardPending(p)
    BY Zenon, <1>5 DEF CopyFails, UploadRefused
  <2>2. CASE Commit(rows, intents \ {p}, {}, Removed({p} \cap intents))
    BY <2>1, <2>2, CommitNoMore DEF Removed
  <2>3. CASE UNCHANGED ledger
    BY Zenon, <2>1, <2>3 DEF OwesNoMore, ledger
  <2> QED BY Zenon, <2>1, <2>2, <2>3 DEF DiscardPending
<1>6. CASE ReadSource(p) \/ UploadOk(p) \/ UploadFails(p) \/ leaveForReaper(p)
  BY Zenon, <1>6 DEF OwesNoMore, ReadSource, UploadOk, UploadFails, leaveForReaper, ledger
<1> QED BY Zenon, <1>1, <1>2, <1>3, <1>4, <1>5, <1>6 DEF Transfer

(* Nor does any other step that claims nothing.                            *)
LEMMA OtherNoMore ==
    ASSUME LedgerInv, Next,
           \A o \in Ops, b \in Backends : ~ClaimWriteTarget(o, b) /\ ~ClaimCopyTarget(o, b),
           \A o \in Ops, bs \in Targets : ~ClaimWriteCopies(o, bs)
    PROVE  OwesNoMore
<1>1. ASSUME NEW p, Network(p) \/ probeBackend(p) PROVE OwesNoMore
  BY Zenon, <1>1 DEF OwesNoMore, Network, Land, Lost, probeBackend, uploads, ledger
<1>2. ASSUME NEW p, PromotePending(p) PROVE OwesNoMore
  <2>1. claimed' = claimed /\ claim' = claim
    BY Zenon, <1>2 DEF PromotePending, uploads
  <2>2. CASE UNCHANGED ledger
    BY Zenon, <2>1, <2>2 DEF OwesNoMore, ledger
  <2>3. CASE p \in intents /\ \E S : Commit(rows, intents \ {p}, {}, Removed({p} \ S))
    BY <2>1, <2>3, CommitNoMore DEF Removed
  <2>4. CASE p \in intents /\ Commit((rows \ RowsOf(Key(p))) \cup {p}, intents \ {p}, Stamp(p), Removed(RowsOf(Key(p))))
    BY <2>1, <2>4, CommitNoMore DEF Removed, RowsOf
  <2>5. {p} = {p} \ {}
    OBVIOUS
  <2> QED BY Zenon, <1>2, <2>2, <2>3, <2>4, <2>5 DEF PromotePending, promotePendingTx
<1>3. ASSUME NEW p, dropIntent(p) \/ DeleteObjectLocation(p) PROVE OwesNoMore
  BY <1>3, CommitNoMore DEF dropIntent, DeleteObjectLocation, Removed, uploads
<1>4. ASSUME NEW ks, DeleteObjectsBatch(ks) PROVE OwesNoMore
  BY <1>4, CommitNoMore DEF DeleteObjectsBatch, Removed, RowsOf, IntentsOf, uploads
<1>5. ASSUME NEW c, Settle(c) PROVE OwesNoMore
  BY Zenon, <1>5 DEF Settle, OwesNoMore, uploads
<1>6. ASSUME NEW o, NEW p, GiveUp(o) \/ Crash(o) \/ Scan(o, p) PROVE OwesNoMore
  BY Zenon, <1>6 DEF GiveUp, Crash, Scan, OwesNoMore, uploads, ledger
<1> QED BY Zenon, <1>1, <1>2, <1>3, <1>4, <1>5, <1>6, TransferNoMore DEF Next, Reaper, Ops, Writes

(* One new path on a backend that had room.                                *)
LEMMA OwedOneMore ==
    ASSUME LedgerInv, LedgerInv', NEW b \in Backends, NEW p,
           Owed(b)' \subseteq Owed(b) \cup {p}, Occupied(b) < Capacity[b], Occupied(b) \in Nat
    PROVE  (Cardinality(On(rows, b)) + Cardinality(On(intents, b))
            + Cardinality({c \in cleanup : claim[c[1]].backend = b /\ c[2] = "removed"}) <= Capacity[b])'
<1>1. Cardinality(Owed(b)) <= Occupied(b) /\ IsFiniteSet(Owed(b)) /\ Cardinality(Owed(b)) \in Nat
  BY Zenon, OwedCounted, FS_CardinalityType
<1>2. /\ IsFiniteSet(Owed(b) \cup {p}) /\ Cardinality(Owed(b) \cup {p}) \in Nat
      /\ Cardinality(Owed(b) \cup {p}) <= Cardinality(Owed(b)) + 1
  BY <1>1, FS_AddElement, FS_CardinalityType
<1>3. Cardinality(Owed(b)') <= Cardinality(Owed(b) \cup {p}) /\ Cardinality(Owed(b)') \in Nat
  BY Zenon, <1>2, FS_Subset, FS_CardinalityType
<1>4. Cardinality(Owed(b)') <= Capacity[b]
  <2> DEFINE m == Cardinality(Owed(b)')
             n == Cardinality(Owed(b) \cup {p})
             l == Cardinality(Owed(b))
  <2>1. Capacity[b] \in Nat
    BY Zenon, BoundsAssumption
  <2> HIDE DEF m, n, l
  <2> QED BY <1>1, <1>2, <1>3, <2>1 DEF m, n, l
<1>5. (LedgerInv => Cardinality(Owed(b)) = Cardinality(On(rows, b)) + Cardinality(On(intents, b))
            + Cardinality({c \in cleanup : claim[c[1]].backend = b /\ c[2] = "removed"}))'
  BY OwedCounted, PTL
<1> QED BY Zenon, <1>4, <1>5

(* A claim adds at most one path on each backend, and only where the bytes *)
(* recorded, in flight and awaiting deletion leave room.                   *)
LEMMA InsertPendingKeeps ==
    ASSUME LedgerInv, LedgerInv', WithinLimit, NEW o, NEW n \in Nat, NEW bs \in [1..n -> Backends],
           \A i, j \in 1..n : bs[i] = bs[j] => i = j, NEW content, NEW first,
           InsertPending(o, bs, content, first)
    PROVE  WithinLimit'
<1>1. Len(bs) = n /\ DOMAIN bs = 1..n /\ claimed \in Nat /\ MaxPaths \in Nat
  BY BoundsAssumption DEF LedgerInv, TypeOK
<1> DEFINE new == claimed + 1 .. claimed + n
<1>2. /\ claimed' = claimed + n /\ rows' = rows /\ cleanup' = cleanup /\ intents' = intents \cup new
      /\ \A p \in new : p - claimed \in 1..n
  BY <1>1 DEF InsertPending
<1>3. /\ \A p \in Used : claim'[p] = claim[p]
      /\ \A p \in new : claim'[p].backend = bs[p - claimed]
  <2>1. Used \subseteq Paths
    BY Zenon, UsedInPaths DEF LedgerInv
  <2>2. new \subseteq Paths /\ \A p \in Used : p \notin new
    BY <1>1 DEF InsertPending, Paths, Used
  <2> QED BY Zenon, <1>1, <2>1, <2>2 DEF InsertPending
<1>4. /\ rows \subseteq Used /\ intents \subseteq Used
      /\ \A p \in Used' : p \in Used \/ p \in new
      /\ \A c \in cleanup : c[1] \in Used
  BY <1>1, <1>2 DEF LedgerInv, TypeOK, Used
<1>5. ASSUME NEW b \in Backends
      PROVE  /\ \A p \in Owed(b)' : p \in Owed(b) \/ (p \in new /\ bs[p - claimed] = b)
             /\ Occupied(b) \in Nat
  <2>1. \A p \in Owed(b)' : p \in Used => p \in Owed(b)
    <3> SUFFICES ASSUME NEW p \in Owed(b)', p \in Used PROVE p \in Owed(b)
      OBVIOUS
    <3>1. p \notin new
      BY <1>1 DEF Used
    <3> QED BY Zenon, <1>2, <1>3, <3>1 DEF Owed, On, QueuedFrom
  <2>2. \A p \in Owed(b)' : p \in Used \/ p \in new
    BY Zenon, <1>2, <1>4 DEF Owed, On, QueuedFrom
  <2>3. \A p \in Owed(b)' : claim'[p].backend = b
    BY Zenon DEF Owed, On, QueuedFrom
  <2>4. Occupied(b) \in Nat
    BY Zenon, OwedCounted
  <2> QED BY Zenon, <1>3, <2>1, <2>2, <2>3, <2>4
<1>6. ASSUME NEW b \in Backends, NEW q \in new, bs[q - claimed] = b
      PROVE  Owed(b)' \subseteq Owed(b) \cup {q} /\ Occupied(b) < Capacity[b]
  <2>1. \A p \in new : bs[p - claimed] = b => p = q
    <3> SUFFICES ASSUME NEW p \in new, bs[p - claimed] = b PROVE p = q
      OBVIOUS
    <3>1. p - claimed = q - claimed
      BY Zenon, <1>2, <1>6
    <3> QED BY <1>1, <3>1
  <2>2. q - claimed \in DOMAIN bs
    BY Zenon, <1>1, <1>2
  <2>3. Occupied(bs[q - claimed]) < Capacity[bs[q - claimed]]
    BY Zenon, <2>2 DEF InsertPending
  <2> QED BY Zenon, <1>5, <1>6, <2>1, <2>3
<1>7. ASSUME NEW b \in Backends, \A q \in new : bs[q - claimed] # b
      PROVE  Owed(b)' \subseteq Owed(b)
  BY Zenon, <1>5, <1>7
<1> HIDE DEF new
<1> QED BY Zenon, <1>5, <1>6, <1>7, OwedOneMore, OwedNoMore DEF WithinLimit

(* Every step keeps the limit.                                             *)
LEMMA NextWithinLimit ==
    ASSUME LedgerInv, LedgerInv', WithinLimit, Next
    PROVE  WithinLimit'
<1>1. ASSUME NEW o, NEW b \in Backends, NEW content, NEW first, InsertPending(o, <<b>>, content, first)
      PROVE  WithinLimit'
  <2>1. <<b>> \in [1..1 -> Backends] /\ 1 \in Nat /\ \A i, j \in 1..1 : <<b>>[i] = <<b>>[j] => i = j
    OBVIOUS
  <2> QED BY Zenon, <1>1, <2>1, InsertPendingKeeps
<1>2. ASSUME NEW o, NEW bs \in Targets, NEW content, NEW first, InsertPending(o, bs, content, first)
      PROVE  WithinLimit'
  <2>1. PICK n \in Nat : bs \in [1..n -> Backends]
    BY BoundsAssumption DEF Targets
  <2>2. \A i, j \in 1..n : bs[i] = bs[j] => i = j
    BY Zenon, <2>1 DEF Targets
  <2> QED BY Zenon, <1>2, <2>1, <2>2, InsertPendingKeeps
<1>3. ASSUME NEW o, NEW b \in Backends, ClaimWriteTarget(o, b) \/ ClaimCopyTarget(o, b)
      PROVE  WithinLimit'
  BY Zenon, <1>1, <1>3 DEF ClaimWriteTarget, ClaimCopyTarget
<1>4. ASSUME NEW o, NEW bs \in Targets, ClaimWriteCopies(o, bs)
      PROVE  WithinLimit'
  BY Zenon, <1>2, <1>4 DEF ClaimWriteCopies
<1>5. CASE /\ \A o \in Ops, b \in Backends : ~ClaimWriteTarget(o, b) /\ ~ClaimCopyTarget(o, b)
           /\ \A o \in Ops, bs \in Targets : ~ClaimWriteCopies(o, bs)
  BY Zenon, <1>5, OtherNoMore, NoMoreKeeps
<1> QED BY Zenon, <1>3, <1>4, <1>5

(* At no moment does what the ledger owes a backend exceed its limit,      *)
(* whatever claims race and whoever else is writing: the conditional       *)
(* insert counts what is recorded, in flight and awaiting deletion, and    *)
(* every later transaction only passes on what was claimed.                *)
THEOREM LimitKept ==
    ASSUME ~ReaperRaces
    PROVE  Spec => []WithinLimit
<1>1. Init => WithinLimit
  <2> SUFFICES ASSUME Init, NEW b \in Backends
               PROVE  Cardinality({}) + Cardinality({}) + Cardinality({}) <= Capacity[b]
    BY Zenon DEF Init, WithinLimit, On
  <2> QED BY FS_EmptySet, BoundsAssumption
<1>2. LedgerInv /\ LedgerInv' /\ WithinLimit /\ [Next]_vars => WithinLimit'
  <2>1. ASSUME UNCHANGED vars, WithinLimit PROVE WithinLimit'
    BY Zenon, <2>1 DEF vars, uploads, ledger, WithinLimit, On
  <2> QED BY Zenon, <2>1, NextWithinLimit
<1> QED BY <1>1, <1>2, LedgerInvariance, PTL DEF Spec

-----------------------------------------------------------------------------
(* Every step of the ledger is a step of the register or none, and keeps   *)
(* what ties the two together.                                             *)
LEMMA RegisterStep ==
    ASSUME ~ReaperRaces, RegisterInv, HNext
    PROVE  RegisterInv' /\ Mapped
<1>1. LedgerInv /\ LedgerInv' /\ Next /\ Remember /\ ContentsWritten
  BY Zenon, NextLedgerInv DEF HNext, Remember, RegisterInv
<1>2. CASE Reshape
  BY Zenon, <1>1, <1>2, ReshapeKeeps, ReshapeMapped
<1>3. ASSUME NEW o \in Ops, Begins(o) PROVE RegisterInv' /\ Mapped
  BY Zenon, <1>1, <1>3, BeginsKeeps, BeginsMapped
<1>4. ASSUME NEW p \in Used, Takes(p) PROVE RegisterInv' /\ Mapped
  BY Zenon, <1>1, <1>4, TakesKeeps, TakesMapped
<1>5. CASE \/ \E o \in Puts, b \in Backends : ClaimWriteTarget(o, b)
           \/ \E o \in Fanouts, bs \in Targets : ClaimWriteCopies(o, bs)
           \/ \E o \in Copiers, b \in Backends : ClaimCopyTarget(o, b)
  <2>1. \A o \in Puts \cup Fanouts \cup Copiers : o \in Ops
    BY Zenon DEF Ops, Writes
  <2>2. \E o \in Ops : Begins(o)
    BY Zenon, <1>5, <2>1, ClaimBegins
  <2> QED BY Zenon, <1>3, <2>2
<1>6. ASSUME NEW p \in Used, RecordObject(p) PROVE RegisterInv' /\ Mapped
  <2>1. status'[claim[p].op] \in {"ok", "error"}
    BY <1>1, <1>6 DEF RecordObject, LedgerInv, TypeOK, Ops
  <2>2. CASE p \in intents /\ ~UNCHANGED ledger
    BY Zenon, <1>4, <1>6, <2>2, RecordTakes
  <2>3. CASE p \notin intents /\ status'[claim[p].op] = "ok"
    BY Zenon, <1>1, <1>6, <2>3, OvertakenAnswer
  <2>4. CASE p \notin intents /\ status'[claim[p].op] = "error"
    BY Zenon, <1>1, <1>2, <1>6, <2>4, RefusedReshape
  <2>5. CASE p \in intents /\ UNCHANGED ledger
    <3>1. rows' # rows \/ status'[claim[p].op] = "error"
      <4>1. p \notin rows
        BY Zenon, <1>1, <2>5 DEF LedgerInv, Separation
      <4> QED BY Zenon, <1>1, <1>6, <2>5, <4>1 DEF RecordObject, recordObjectTx, Commit, LedgerInv, TypeOK, Ops
    <3> QED BY Zenon, <1>1, <1>2, <1>6, <2>5, <3>1, RefusedReshape DEF ledger
  <2> QED BY Zenon, <2>1, <2>2, <2>3, <2>4, <2>5
<1>7. ASSUME NEW p \in Used, Reaper(p) PROVE RegisterInv' /\ Mapped
  BY Zenon, <1>1, <1>2, <1>4, <1>7, PromoteTakes, ReaperReshape, AroundReshape DEF Reaper
<1>8. ASSUME NEW p \in Used, Transfer(p) PROVE RegisterInv' /\ Mapped
  BY Zenon, <1>1, <1>2, <1>6, <1>8, UploadReshape, CompanionReshape, PlaceReshape DEF Transfer
<1>9. CASE \E ks \in SUBSET Keys : DeleteObjectsBatch(ks)
  BY Zenon, <1>1, <1>9, DeleteSeen
<1>10. CASE \/ \E p \in Used : Network(p) \/ DeleteObjectLocation(p)
            \/ \E o \in Copiers, p \in Paths : Scan(o, p)
            \/ \E o \in Ops : GiveUp(o) \/ Crash(o)
            \/ \E c \in cleanup : Settle(c)
  BY Zenon, <1>1, <1>2, <1>10, AroundReshape, DropReshape, FloorLeavesOne
<1> QED BY Zenon, <1>1, <1>5, <1>7, <1>8, <1>9, <1>10 DEF Next

(* The tables at the start.                                                *)
LEMMA InitRegister ==
    ASSUME HInit
    PROVE  RegisterInv /\ Register!Init
<1>1. LedgerInv
  BY Zenon, InitLedgerInv DEF HInit
<1>2. Used = {} /\ intents = {} /\ taken = {} /\ overrun = {} /\ rows = {} /\ status = [o \in Ops |-> "idle"]
  BY DEF HInit, Init, Used
<1>3. RegisterInv
  BY Zenon, <1>1, <1>2 DEF RegisterInv, ContentsWritten, TakenOnce, OvertakenOverrun, AnsweredTaken, Ops
<1>4. \A k : RowsOf(k) = {}
  BY Zenon, <1>2 DEF RowsOf
<1>5. \A k : Held(k) = None
  BY Zenon, <1>4, HeldNone
<1> QED BY Zenon, <1>2, <1>3, <1>5 DEF Register!Init, Ops

(* The invariant and the mapping read nothing but the variables.           *)
LEMMA StutterRegister ==
    ASSUME RegisterInv, UNCHANGED <<vars, taken, overrun>>
    PROVE  RegisterInv' /\ Mapped
<1>1. LedgerInv'
  BY Zenon, StutterLedgerInv DEF RegisterInv
<1> USE DEF vars, uploads, ledger
<1>2. Used' = Used /\ \A p : Key(p)' = Key(p) /\ Content(p)' = Content(p) /\ Live(p)' = Live(p)
  BY Zenon DEF Used, Key, Content, Live
<1>3. \A k : RowsOf(k)' = RowsOf(k)
  BY Zenon, <1>2 DEF RowsOf
<1>4. TakenOnce'
  <2>1. \A p : RowsOf(Key(p))' = RowsOf(Key(p))
    BY Zenon, <1>2 DEF RowsOf
  <2> QED BY Zenon, <2>1 DEF RegisterInv, TakenOnce
<1>5. ContentsWritten' /\ OvertakenOverrun' /\ AnsweredTaken'
  BY Zenon, <1>2 DEF RegisterInv, ContentsWritten, OvertakenOverrun, AnsweredTaken
<1>6. \A k \in Keys : Held(k)' = Held(k)
  BY DEF Held, RowsOf, Key, Content
<1> QED BY Zenon, <1>1, <1>4, <1>5, <1>6 DEF RegisterInv, Mapped

(* Behind the tables, the history of which writes took effect.             *)
THEOREM RegisterInvariance ==
    ASSUME ~ReaperRaces
    PROVE  HSpec => []RegisterInv
<1>1. HInit => RegisterInv
  BY Zenon, InitRegister
<1>2. RegisterInv /\ [HNext]_<<vars, taken, overrun>> => RegisterInv'
  BY Zenon, RegisterStep, StutterRegister
<1> QED BY <1>1, <1>2, PTL DEF HSpec

(* For any number of keys, backends, writes, replicas and moves, the       *)
(* ledger implements the atomic register: whatever its processes           *)
(* interleave, lose and retry, its clients see writes and deletes that     *)
(* take effect one at a time, each between its call and its answer.        *)
THEOREM LedgerIsRegister ==
    ASSUME ~ReaperRaces
    PROVE  HSpec => AtomicRegister
<1>1. HInit => Register!Init
  BY Zenon, InitRegister
<1>2. RegisterInv /\ [HNext]_<<vars, taken, overrun>>
        => [Register!Next]_<<[k \in Keys |-> Held(k)], taken, overrun, [o \in Writes |-> status[o]]>>
  BY Zenon, RegisterStep, StutterRegister DEF Mapped
<1> QED BY <1>1, <1>2, RegisterInvariance, PTL DEF HSpec, AtomicRegister, Register!Spec, Register!rvars
=============================================================================
