--------------------------- MODULE CleanupProofs ---------------------------
(***************************************************************************)
(* For any number of rows, instances, takeovers and crashes: bytes stay    *)
(* named until they are gone, and no row is dead-lettered early.           *)
(***************************************************************************)
EXTENDS CleanupQueue, TLAPS

USE DEF Claims, Tries, Results

(* At the start no row is queued and no settle runs.                       *)
LEMMA InitCleanupInv == Init => CleanupInv
BY CleanupAssumption DEF Init, CleanupInv, TypeOK, ClaimsApart, Counted, Holds, BytesStayNamed, BudgetSpent

(* A claim is taken with a number no settle and no row uses.               *)
LEMMA TakeKeeps ==
    ASSUME NEW r \in Rows, NEW c \in Fresh, CleanupInv, Take(r, c, attempts[r]),
           table' = table \/ (table[r] = "none" /\ table' = [table EXCEPT ![r] = "queue"]),
           table'[r] = "queue", faults' \in 0..MaxFaults,
           UNCHANGED <<attempts, due, bytes, failures>>
    PROVE  CleanupInv'
<1> DEFINE new == [row |-> r, claim |-> c, attempts |-> attempts[r], result |-> "todo"]
<1>1. /\ c \in Claims /\ c # NoClaim
      /\ \A s \in settles : s.claim # c
      /\ \A q \in Rows : claimed[q] # c
  BY CleanupAssumption DEF Fresh, InUse
<1>2. /\ settles' = settles \cup {new}
      /\ claimed' = [claimed EXCEPT ![r] = c]
  BY Zenon DEF Take
<1>3. /\ new.row = r /\ new.claim = c /\ new.attempts = attempts[r] /\ new.result = "todo"
      /\ new \in [row : Rows, claim : Claims, attempts : Tries, result : Results]
  BY Zenon, <1>1 DEF CleanupInv, TypeOK
<1>4. TypeOK'
  BY <1>1, <1>2, <1>3 DEF CleanupInv, TypeOK
<1>5. ClaimsApart'
  BY <1>1, <1>2, <1>3 DEF CleanupInv, TypeOK, ClaimsApart
<1>6. Counted'
  <2> SUFFICES ASSUME NEW s \in settles', Holds(s)'
               PROVE  /\ s.attempts = attempts[s.row]
                      /\ s.result = "failed" => failures[s.row] >= attempts[s.row] + 1
    BY Zenon DEF Counted
  <2>1. CASE s = new
    BY Zenon, <2>1, <1>3
  <2>2. CASE s \in settles
    <3>1. s.row # r /\ s.row \in Rows
      BY Zenon, <2>2, <1>1, <1>2 DEF CleanupInv, TypeOK, Holds
    <3>2. Holds(s)
      BY Zenon, <3>1, <2>2, <1>2 DEF CleanupInv, TypeOK, Holds
    <3> QED BY Zenon, <3>2, <2>2 DEF CleanupInv, Counted
  <2> QED BY Zenon, <2>1, <2>2, <1>2
<1>7. BytesStayNamed' /\ BudgetSpent'
  BY Zenon DEF CleanupInv, TypeOK, BytesStayNamed, BudgetSpent
<1> QED BY Zenon, <1>4, <1>5, <1>6, <1>7 DEF CleanupInv

(* A row starts without attempts, and a takeover reads those it records.   *)
LEMMA ClaimKeeps ==
    ASSUME NEW r \in Rows, NEW c \in Fresh, CleanupInv,
           InsertCleanup(r, c) \/ ClaimPendingCleanups(r, c)
    PROVE  CleanupInv'
<1>1. CASE InsertCleanup(r, c)
  BY ZenonT(30), <1>1, TakeKeeps DEF InsertCleanup, CleanupInv, TypeOK, ClaimsApart
<1>2. CASE ClaimPendingCleanups(r, c)
  <2>1. faults' \in 0..MaxFaults
    BY <1>2, CleanupAssumption DEF ClaimPendingCleanups, Fault, CleanupInv, TypeOK
  <2> QED BY Zenon, <1>2, <2>1, TakeKeeps DEF ClaimPendingCleanups
<1> QED BY Zenon, <1>1, <1>2

(* The delete: the settle keeps its claim and learns how it went.          *)
LEMMA DeleteManyKeeps ==
    ASSUME NEW s \in settles, CleanupInv, DeleteMany(s)
    PROVE  CleanupInv'
<1>1. PICK result \in {"gone", "failed"} :
        /\ Became(s, result)
        /\ bytes' \in {bytes, bytes \ {s.row}}
        /\ result = "gone" => s.row \notin bytes' \ Leaving /\ failures' = failures
        /\ result = "failed" => failures' = [failures EXCEPT ![s.row] = @ + 1]
        /\ UNCHANGED <<table, attempts, due, claimed, faults>>
  BY Zenon DEF DeleteMany
<1> DEFINE new == [s EXCEPT !.result = result]
<1>2. s \in [row : Rows, claim : Claims, attempts : Tries, result : Results]
  BY Zenon DEF CleanupInv, TypeOK
<1>3. /\ new \in [row : Rows, claim : Claims, attempts : Tries, result : Results]
      /\ new.row = s.row /\ new.claim = s.claim /\ new.attempts = s.attempts
      /\ new.result = result
  BY Zenon, <1>2
<1>4. settles' = (settles \ {s}) \cup {new}
  BY Zenon, <1>1 DEF Became
<1>5. /\ failures' \in [Rows -> Nat]
      /\ \A r \in Rows : failures'[r] >= failures[r]
      /\ result = "failed" => failures'[s.row] = failures[s.row] + 1
  BY <1>1, <1>2 DEF CleanupInv, TypeOK
<1>6. TypeOK'
  BY Zenon, <1>1, <1>3, <1>4, <1>5 DEF CleanupInv, TypeOK
<1>7. ClaimsApart'
  BY <1>1, <1>2, <1>3, <1>4 DEF CleanupInv, ClaimsApart
<1>8. Counted'
  <2> SUFFICES ASSUME NEW t \in settles', Holds(t)'
               PROVE  /\ t.attempts = attempts[t.row]
                      /\ t.result = "failed" => failures'[t.row] >= attempts[t.row] + 1
    BY Zenon, <1>1 DEF Counted
  <2>1. \A r \in Rows : attempts[r] \in Nat /\ failures[r] \in Nat /\ attempts[r] <= failures[r]
    BY CleanupAssumption DEF CleanupInv, TypeOK, BudgetSpent
  <2>2. CASE t = new
    <3>1. Holds(s)
      BY Zenon, <1>1, <1>3, <2>2 DEF Holds
    <3> QED BY <3>1, <2>1, <2>2, <1>2, <1>3, <1>5 DEF CleanupInv, Counted
  <2>3. CASE t \in settles
    <3>1. Holds(t) /\ t.row \in Rows
      BY Zenon, <1>1, <2>3 DEF Holds, CleanupInv, TypeOK
    <3> QED BY <3>1, <2>1, <2>3, <1>5 DEF CleanupInv, Counted
  <2> QED BY Zenon, <2>2, <2>3, <1>4
<1>9. BytesStayNamed'
  BY Zenon, <1>1 DEF CleanupInv, BytesStayNamed
<1>10. BudgetSpent'
  <2> SUFFICES ASSUME NEW r \in Rows
               PROVE  /\ table[r] = "dlq" => failures'[r] >= MaxAttempts
                      /\ attempts[r] <= failures'[r]
    BY Zenon, <1>1 DEF BudgetSpent
  <2> QED BY <1>5, CleanupAssumption DEF CleanupInv, TypeOK, BudgetSpent
<1> QED BY Zenon, <1>6, <1>7, <1>8, <1>9, <1>10 DEF CleanupInv

(* The three writes that end a settle touch only a row it still holds.     *)
LEMMA ResolveKeeps ==
    ASSUME NEW s \in settles, CleanupInv, Resolve(s)
    PROVE  CleanupInv'
<1>1. s \in [row : Rows, claim : Claims, attempts : Tries, result : Results]
  BY Zenon DEF CleanupInv, TypeOK
<1>2. settles' = settles \ {s} /\ UNCHANGED <<bytes, failures, faults>>
  BY Zenon DEF Resolve, CompleteCleanupItems, RetryCleanupItem, MoveCleanupToDLQ, Over
<1>3. CASE ~Holds(s)
  <2>1. UNCHANGED <<table, attempts, due, claimed>>
    BY Zenon, <1>3 DEF Resolve, CompleteCleanupItems, RetryCleanupItem, MoveCleanupToDLQ
  <2> QED BY Zenon, <1>2, <2>1 DEF CleanupInv, TypeOK, ClaimsApart, Counted, Holds, BytesStayNamed, BudgetSpent
<1>4. CASE Holds(s)
  <2>1. claimed' = [claimed EXCEPT ![s.row] = NoClaim]
    BY Zenon, <1>4 DEF Resolve, CompleteCleanupItems, RetryCleanupItem, MoveCleanupToDLQ
  <2>2. /\ attempts[s.row] \in Nat /\ s.attempts = attempts[s.row] /\ failures[s.row] \in Nat
        /\ s.result = "failed" => failures[s.row] >= attempts[s.row] + 1
    BY <1>1, <1>4, CleanupAssumption DEF CleanupInv, TypeOK, Counted
  <2>3. TypeOK' /\ ClaimsApart' /\ BytesStayNamed' /\ BudgetSpent'
    <3>1. CASE CompleteCleanupItems(s)
      <4>1. /\ table' = [table EXCEPT ![s.row] = "gone"] /\ s.row \notin bytes \ Leaving
            /\ UNCHANGED <<attempts, due>>
        BY Zenon, <3>1, <1>4 DEF CompleteCleanupItems, CleanupInv, ClaimsApart
      <4> QED BY Zenon, <1>1, <1>2, <2>1, <4>1 DEF CleanupInv, TypeOK, ClaimsApart, BytesStayNamed, BudgetSpent
    <3>2. CASE RetryCleanupItem(s)
      <4>1. /\ attempts' = [attempts EXCEPT ![s.row] = @ + 1]
            /\ due' = [due EXCEPT ![s.row] = FALSE]
            /\ s.result = "failed" /\ table' = table
        BY Zenon, <3>2, <1>4 DEF RetryCleanupItem
      <4>2. attempts[s.row] + 1 \in Tries
        BY <3>2, <2>2, CleanupAssumption DEF RetryCleanupItem, exhausted
      <4>3. table[s.row] = "queue"
        BY Zenon, <1>4 DEF Holds
      <4> QED BY <1>1, <1>2, <2>1, <2>2, <4>1, <4>2, <4>3
              DEF CleanupInv, TypeOK, ClaimsApart, BytesStayNamed, BudgetSpent
    <3>3. CASE MoveCleanupToDLQ(s)
      <4>1. /\ table' = [table EXCEPT ![s.row] = "dlq"] /\ s.result = "failed"
            /\ UNCHANGED <<attempts, due>>
        BY Zenon, <3>3, <1>4 DEF MoveCleanupToDLQ
      <4>2. failures[s.row] >= MaxAttempts
        BY <3>3, <2>2, CleanupAssumption DEF MoveCleanupToDLQ, exhausted
      <4> QED BY Zenon, <1>1, <1>2, <2>1, <4>1, <4>2 DEF CleanupInv, TypeOK, ClaimsApart, BytesStayNamed, BudgetSpent
    <3> QED BY Zenon, <3>1, <3>2, <3>3 DEF Resolve
  <2>4. Counted'
    <3> SUFFICES ASSUME NEW t \in settles', Holds(t)'
                 PROVE  /\ t.attempts = attempts'[t.row]
                        /\ t.result = "failed" => failures[t.row] >= attempts'[t.row] + 1
      BY Zenon, <1>2 DEF Counted
    <3>1. t \in settles /\ t.row \in Rows /\ t.claim \in Claims /\ t.claim # NoClaim
      BY <1>2, CleanupAssumption DEF CleanupInv, TypeOK
    <3>2. t.row # s.row
      BY Zenon, <3>1, <2>1, <1>1 DEF Holds, CleanupInv, TypeOK
    <3>3. table'[t.row] = table[t.row] /\ claimed'[t.row] = claimed[t.row] /\ attempts'[t.row] = attempts[t.row]
      BY Zenon, <3>1, <3>2, <2>1, <1>4
         DEF Resolve, CompleteCleanupItems, RetryCleanupItem, MoveCleanupToDLQ, CleanupInv, TypeOK
    <3> QED BY ZenonT(30), <3>1, <3>3 DEF CleanupInv, Counted, Holds
  <2> QED BY Zenon, <2>3, <2>4 DEF CleanupInv
<1> QED BY Zenon, <1>3, <1>4

(* Rows that leave the queue without a settle, and rows that come back.    *)
LEMMA OthersKeep ==
    ASSUME CleanupInv,
           \/ \E s \in settles : Abandon(s)
           \/ \E r \in Rows : Backoff(r) \/ SweepStaleCleanupQueueRows(r)
           \/ \E R \in SUBSET Rows : RequeueCleanupDLQ(R)
           \/ \E R \in SUBSET Leaving : DeleteBackendData(R)
    PROVE  CleanupInv'
<1>1. ASSUME NEW s \in settles, Abandon(s) PROVE CleanupInv'
  BY <1>1, CleanupAssumption
     DEF Abandon, Fault, Over, CleanupInv, TypeOK, ClaimsApart, Counted, Holds, BytesStayNamed, BudgetSpent
<1>2. ASSUME NEW r \in Rows, Backoff(r) PROVE CleanupInv'
  BY Zenon, <1>2 DEF Backoff, CleanupInv, TypeOK, ClaimsApart, Counted, Holds, BytesStayNamed, BudgetSpent
<1>3. ASSUME NEW r \in Rows, SweepStaleCleanupQueueRows(r) PROVE CleanupInv'
  BY Zenon, <1>3, CleanupAssumption
     DEF SweepStaleCleanupQueueRows, CleanupInv, TypeOK, ClaimsApart, Counted, Holds, BytesStayNamed, BudgetSpent
<1>4. ASSUME NEW R \in SUBSET Rows, RequeueCleanupDLQ(R) PROVE CleanupInv'
  <2>1. \A r \in Rows : table[r] = "dlq" => claimed[r] = NoClaim
    BY Zenon DEF CleanupInv, ClaimsApart
  <2>2. TypeOK' /\ ClaimsApart' /\ BytesStayNamed' /\ BudgetSpent'
    BY <1>4, CleanupAssumption
       DEF RequeueCleanupDLQ, CleanupInv, TypeOK, ClaimsApart, BytesStayNamed, BudgetSpent
  <2>3. Counted'
    <3> SUFFICES ASSUME NEW t \in settles, Holds(t)'
                 PROVE  /\ t.attempts = attempts'[t.row]
                        /\ t.result = "failed" => failures'[t.row] >= attempts'[t.row] + 1
      BY Zenon, <1>4 DEF Counted, RequeueCleanupDLQ
    <3>1. t.row \in Rows /\ t.claim # NoClaim /\ claimed[t.row] = t.claim
      BY <1>4, CleanupAssumption DEF RequeueCleanupDLQ, Holds, CleanupInv, TypeOK
    <3>2. table[t.row] # "dlq"
      BY Zenon, <3>1, <2>1
    <3> QED BY Zenon, <1>4, <3>1, <3>2 DEF RequeueCleanupDLQ, CleanupInv, Counted, Holds
  <2> QED BY Zenon, <2>2, <2>3 DEF CleanupInv
<1>5. ASSUME NEW R \in SUBSET Leaving, DeleteBackendData(R) PROVE CleanupInv'
  BY Zenon, <1>5, CleanupAssumption
     DEF DeleteBackendData, CleanupInv, TypeOK, ClaimsApart, Counted, Holds, BytesStayNamed, BudgetSpent
<1> QED BY Zenon, <1>1, <1>2, <1>3, <1>4, <1>5

(* One step, whoever takes it.                                             *)
LEMMA NextCleanupInv == CleanupInv /\ [Next]_vars => CleanupInv'
<1> SUFFICES ASSUME CleanupInv, [Next]_vars PROVE CleanupInv'
  OBVIOUS
<1>1. ASSUME NEW r \in Rows, NEW c \in Fresh, InsertCleanup(r, c) \/ ClaimPendingCleanups(r, c)
      PROVE  CleanupInv'
  BY Zenon, <1>1, ClaimKeeps
<1>2. ASSUME NEW s \in settles, DeleteMany(s) \/ Resolve(s) PROVE CleanupInv'
  BY Zenon, <1>2, DeleteManyKeeps, ResolveKeeps
<1>3. CASE UNCHANGED vars
  BY Zenon, <1>3 DEF vars, CleanupInv, TypeOK, ClaimsApart, Counted, Holds, BytesStayNamed, BudgetSpent
<1> QED BY Zenon, <1>1, <1>2, <1>3, OthersKeep DEF Next, Worker, Advance

(* In every reachable state a claim names one settle, and a settle that    *)
(* holds its row knows the attempts it records (Settler.fail writes them). *)
THEOREM CleanupInvariance == Spec => []CleanupInv
BY InitCleanupInv, NextCleanupInv, PTL DEF Spec

(* A row's attempts stay below the ceiling, so the worker can always claim *)
(* a row that is queued (ClaimPendingCleanups' condition on attempts).     *)
THEOREM CleanupTypes == Spec => []TypeOK
<1>1. CleanupInv => TypeOK
  BY Zenon DEF CleanupInv
<1>2. QED
  BY <1>1, CleanupInvariance, PTL

(* Bytes on a backend that stays are named by a queue or dead-letter row   *)
(* until they are gone: no takeover, late settle, sweep or requeue leaks   *)
(* them (Settler.Settle).                                                  *)
THEOREM NoOrphanForgotten == Spec => []BytesStayNamed
<1>1. CleanupInv => BytesStayNamed
  BY Zenon DEF CleanupInv
<1> QED BY <1>1, CleanupInvariance, PTL

(* A row is dead-lettered only after MaxCleanupAttempts failed deletes,    *)
(* whoever made them (Settler.fail).                                       *)
THEOREM NoEarlyDeadLetter == Spec => []BudgetSpent
<1>1. CleanupInv => BudgetSpent
  BY Zenon DEF CleanupInv
<1> QED BY <1>1, CleanupInvariance, PTL

(* A settle that lost its claim leaves the row to its holder: the writes   *)
(* that end a settle match the claim it read.                              *)
THEOREM ClaimsExclude == Spec => OnlyHolderSettles
<1> DEFINE Undisturbed ==
        \A s \in settles \cap settles' :
            Holds(s) => \/ Holds(s)' \/ Worker(s.row)
                        \/ SweepStaleCleanupQueueRows(s.row)
                        \/ \E R \in SUBSET Leaving : DeleteBackendData(R)
<1>1. ASSUME CleanupInv, [Next]_vars PROVE [Undisturbed]_vars
  <2> SUFFICES ASSUME Next, NEW s \in settles \cap settles', Holds(s),
                      ~Worker(s.row), ~SweepStaleCleanupQueueRows(s.row),
                      ~\E R \in SUBSET Leaving : DeleteBackendData(R)
               PROVE  Holds(s)'
    BY Zenon, <1>1
  <2>1. s.row \in Rows
    BY Zenon, <1>1 DEF CleanupInv, TypeOK
  <2>2. ASSUME NEW r \in Rows, NEW c \in Fresh, InsertCleanup(r, c) PROVE Holds(s)'
    BY Zenon, <1>1, <2>1, <2>2 DEF InsertCleanup, Take, Holds, CleanupInv, TypeOK
  <2>3. ASSUME NEW r \in Rows, Worker(r) PROVE Holds(s)'
    BY ZenonT(30), <1>1, <2>1, <2>3 DEF Worker, ClaimPendingCleanups, Take, Holds, CleanupInv, TypeOK
  <2>4. ASSUME NEW t \in settles, Resolve(t) PROVE Holds(s)'
    <3>1. t # s
      BY Zenon, <2>4 DEF Resolve, CompleteCleanupItems, RetryCleanupItem, MoveCleanupToDLQ, Over
    <3>2. Holds(t) => t.row # s.row
      BY Zenon, <1>1, <3>1 DEF Holds, CleanupInv, ClaimsApart
    <3> QED BY Zenon, <1>1, <2>1, <2>4, <3>2
            DEF Resolve, CompleteCleanupItems, RetryCleanupItem, MoveCleanupToDLQ, Holds, CleanupInv, TypeOK
  <2>5. ASSUME NEW t \in settles, DeleteMany(t) \/ Abandon(t) PROVE Holds(s)'
    BY Zenon, <2>5 DEF DeleteMany, Abandon, Holds
  <2>6. ASSUME NEW r \in Rows, Backoff(r) \/ SweepStaleCleanupQueueRows(r) PROVE Holds(s)'
    BY Zenon, <1>1, <2>1, <2>6 DEF Backoff, SweepStaleCleanupQueueRows, Holds, CleanupInv, TypeOK
  <2>7. ASSUME NEW R \in SUBSET Rows, RequeueCleanupDLQ(R) PROVE Holds(s)'
    BY Zenon, <1>1, <2>1, <2>7 DEF RequeueCleanupDLQ, Holds, CleanupInv, TypeOK
  <2> QED BY Zenon, <2>2, <2>3, <2>4, <2>5, <2>6, <2>7 DEF Next, Advance
<1> QED BY <1>1, CleanupInvariance, PTL DEF Spec, OnlyHolderSettles
=============================================================================
