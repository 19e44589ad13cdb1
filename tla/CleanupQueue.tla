---------------------------- MODULE CleanupQueue ----------------------------
(***************************************************************************)
(* The life of a cleanup row, which ObjectLedger takes as one Settle step. *)
(* The transaction that stops recording bytes inserts the row, claimed by  *)
(* its own instance, which settles it: it deletes the bytes, then retires  *)
(* the row, schedules a retry, or moves the row to the dead-letter queue.  *)
(* Every one of those writes matches the claim the settle holds.  A claim  *)
(* that outlives the grace period is taken over by the cleanup worker of   *)
(* any instance, whether or not its holder still runs.                     *)
(*                                                                         *)
(* A claim is a number, fresh among those in use: (claimed_at, claimed_by) *)
(* names one claim of the row.                                             *)
(***************************************************************************)
EXTENDS Integers, FiniteSets

CONSTANTS
    Rows,         \* bytes a transaction stopped recording, and their row
    Leaving,      \* rows whose backend leaves the fleet
    MaxAttempts,  \* MaxCleanupAttempts
    MaxClaims,    \* bound: claims in use at one time
    MaxFaults,    \* bound: crashes, store errors, declined and overtaken settles
    NoClaim

ASSUME CleanupAssumption ==
    /\ Leaving \subseteq Rows
    /\ MaxAttempts \in Nat \ {0} /\ MaxClaims \in Nat /\ MaxFaults \in Nat
    /\ NoClaim \notin Nat

VARIABLES
    table,     \* row -> none, queue, dlq or gone
    attempts,  \* row -> failed attempts it records
    due,       \* row -> next_retry has passed
    claimed,   \* row -> the claim on it, or NoClaim
    bytes,     \* rows whose bytes are on the backend
    settles,   \* settles under way: row, claim and attempts as read, result
    failures,  \* row -> failed deletes since it was queued (history)
    faults     \* how many faults happened

vars == <<table, attempts, due, claimed, bytes, settles, failures, faults>>

Claims == 1..MaxClaims
Tries == 0..MaxAttempts - 1
Results == {"todo", "gone", "failed"}

Init ==
    /\ table = [r \in Rows |-> "none"]
    /\ attempts = [r \in Rows |-> 0]
    /\ due = [r \in Rows |-> TRUE]
    /\ claimed = [r \in Rows |-> NoClaim]
    /\ bytes \in SUBSET Rows
    /\ settles = {}
    /\ failures = [r \in Rows |-> 0]
    /\ faults = 0

InUse == {s.claim : s \in settles} \cup {claimed[r] : r \in Rows}
Fresh == Claims \ InUse

(* The rest of the row is as the claim found it.                           *)
Take(r, c, seen) ==
    /\ claimed' = [claimed EXCEPT ![r] = c]
    /\ settles' = settles \cup {[row |-> r, claim |-> c, attempts |-> seen, result |-> "todo"]}

Fault == faults < MaxFaults /\ faults' = faults + 1

-----------------------------------------------------------------------------
InsertCleanup(r, c) ==
    /\ table[r] = "none"
    /\ table' = [table EXCEPT ![r] = "queue"]
    /\ Take(r, c, 0)
    /\ UNCHANGED <<attempts, due, bytes, failures, faults>>

Running(r) == \E s \in settles : s.row = r /\ s.claim = claimed[r]

(* Mutant: a claim is never taken over, whatever became of its settle.     *)
ClaimPendingCleanupsUnclaimed(r, c) ==
    /\ table[r] = "queue" /\ claimed[r] = NoClaim
    /\ due[r]
    /\ attempts[r] < MaxAttempts
    /\ Take(r, c, attempts[r])
    /\ UNCHANGED <<table, attempts, due, bytes, failures, faults>>

(* A free row, or one whose claim aged past the grace period: its settle   *)
(* is no more, or is overtaken while it still runs.                        *)
ClaimPendingCleanups(r, c) ==
    /\ table[r] = "queue"
    /\ due[r]
    /\ attempts[r] < MaxAttempts
    /\ IF Running(r) THEN Fault ELSE UNCHANGED faults
    /\ Take(r, c, attempts[r])
    /\ UNCHANGED <<table, attempts, due, bytes, failures>>

Became(s, result) == settles' = (settles \ {s}) \cup {[s EXCEPT !.result = result]}

(* deleteAll: the delete lands or finds nothing, or fails with the bytes   *)
(* deleted or not; a backend no longer configured has nothing to delete.   *)
DeleteMany(s) ==
    /\ s.result = "todo"
    /\ \/ /\ bytes' = bytes \ {s.row}
          /\ Became(s, "gone")
          /\ UNCHANGED failures
       \/ /\ bytes' \in {bytes, bytes \ {s.row}}
          /\ Became(s, "failed")
          /\ failures' = [failures EXCEPT ![s.row] = @ + 1]
       \/ /\ s.row \in Leaving
          /\ Became(s, "gone")
          /\ UNCHANGED <<bytes, failures>>
    /\ UNCHANGED <<table, attempts, due, claimed, faults>>

(* Mutant: the write matches the row but not the claim.                    *)
HoldsAnyClaim(s) == table[s.row] = "queue"

(* The claim every settle write matches.                                   *)
Holds(s) == table[s.row] = "queue" /\ claimed[s.row] = s.claim

Over(s) == settles' = settles \ {s}

(* retire: a row whose claim was taken over is left to its new holder.     *)
CompleteCleanupItems(s) ==
    /\ s.result = "gone"
    /\ IF Holds(s)
       THEN /\ table' = [table EXCEPT ![s.row] = "gone"]
            /\ claimed' = [claimed EXCEPT ![s.row] = NoClaim]
       ELSE UNCHANGED <<table, claimed>>
    /\ Over(s)
    /\ UNCHANGED <<attempts, due, bytes, failures, faults>>

exhausted(s) == s.attempts + 1 >= MaxAttempts

(* fail: retried while its budget lasts, else dead-lettered.               *)
RetryCleanupItem(s) ==
    /\ s.result = "failed"
    /\ ~exhausted(s)
    /\ IF Holds(s)
       THEN /\ attempts' = [attempts EXCEPT ![s.row] = @ + 1]
            /\ claimed' = [claimed EXCEPT ![s.row] = NoClaim]
            /\ due' = [due EXCEPT ![s.row] = FALSE]
       ELSE UNCHANGED <<attempts, claimed, due>>
    /\ Over(s)
    /\ UNCHANGED <<table, bytes, failures, faults>>

MoveCleanupToDLQ(s) ==
    /\ s.result = "failed"
    /\ exhausted(s)
    /\ IF Holds(s)
       THEN /\ table' = [table EXCEPT ![s.row] = "dlq"]
            /\ claimed' = [claimed EXCEPT ![s.row] = NoClaim]
       ELSE UNCHANGED <<table, claimed>>
    /\ Over(s)
    /\ UNCHANGED <<attempts, due, bytes, failures, faults>>

(* Admission declines the delete, a store write fails, or the process      *)
(* dies: the row stays claimed.                                            *)
Abandon(s) ==
    /\ Fault
    /\ Over(s)
    /\ UNCHANGED <<table, attempts, due, claimed, bytes, failures>>

Backoff(r) ==
    /\ ~due[r]
    /\ due' = [due EXCEPT ![r] = TRUE]
    /\ UNCHANGED <<table, attempts, claimed, bytes, settles, failures, faults>>

(* An operator sends dead-lettered rows back, with fresh attempts: those   *)
(* of one backend or all of them.                                          *)
RequeueCleanupDLQ(R) ==
    LET dead == {r \in R : table[r] = "dlq"}
    IN  /\ dead # {}
        /\ table' = [r \in Rows |-> IF r \in dead THEN "queue" ELSE table[r]]
        /\ attempts' = [r \in Rows |-> IF r \in dead THEN 0 ELSE attempts[r]]
        /\ due' = [r \in Rows |-> due[r] \/ r \in dead]
        /\ failures' = [r \in Rows |-> IF r \in dead THEN 0 ELSE failures[r]]
        /\ UNCHANGED <<claimed, bytes, settles, faults>>

(* Mutant: the sweep does not look at the backend.                         *)
SweepBlindly(r) ==
    /\ table[r] = "queue"
    /\ table' = [table EXCEPT ![r] = "gone"]
    /\ claimed' = [claimed EXCEPT ![r] = NoClaim]
    /\ UNCHANGED <<attempts, due, bytes, settles, failures, faults>>

(* Reconcile found the path missing from the backend and drops its row,    *)
(* whoever holds it.                                                       *)
SweepStaleCleanupQueueRows(r) ==
    /\ table[r] = "queue"
    /\ r \notin bytes
    /\ table' = [table EXCEPT ![r] = "gone"]
    /\ claimed' = [claimed EXCEPT ![r] = NoClaim]
    /\ UNCHANGED <<attempts, due, bytes, settles, failures, faults>>

(* Removing a backend from the fleet drops every row that names it.        *)
DeleteBackendData(R) ==
    LET named == {r \in R : table[r] \in {"queue", "dlq"}}
    IN  /\ named # {}
        /\ table' = [r \in Rows |-> IF r \in named THEN "gone" ELSE table[r]]
        /\ claimed' = [r \in Rows |-> IF r \in named THEN NoClaim ELSE claimed[r]]
        /\ UNCHANGED <<attempts, due, bytes, settles, failures, faults>>

-----------------------------------------------------------------------------
Resolve(s) == CompleteCleanupItems(s) \/ RetryCleanupItem(s) \/ MoveCleanupToDLQ(s)
Worker(r) == \E c \in Fresh : ClaimPendingCleanups(r, c)
Advance(r) == \E s \in settles : s.row = r /\ (DeleteMany(s) \/ Resolve(s))

Next ==
    \/ \E r \in Rows, c \in Fresh : InsertCleanup(r, c)
    \/ \E r \in Rows : Worker(r) \/ Advance(r) \/ Backoff(r) \/ SweepStaleCleanupQueueRows(r)
    \/ \E s \in settles : Abandon(s)
    \/ \E R \in SUBSET Rows : RequeueCleanupDLQ(R)
    \/ \E R \in SUBSET Leaving : DeleteBackendData(R)

Spec == Init /\ [][Next]_vars

(* The worker ticks on every instance, a settle has a deadline for each    *)
(* call, and a retry comes due.                                            *)
Fairness ==
    \A r \in Rows : WF_vars(~Running(r) /\ Worker(r)) /\ WF_vars(Advance(r)) /\ WF_vars(Backoff(r))
FairSpec == Spec /\ Fairness

-----------------------------------------------------------------------------
(* The shape of the state.  A row's recorded attempts stay below the       *)
(* ceiling, or ClaimPendingCleanups would never pick it up again (fail).   *)
TypeOK ==
    /\ table \in [Rows -> {"none", "queue", "dlq", "gone"}]
    /\ attempts \in [Rows -> Tries]
    /\ due \in [Rows -> BOOLEAN]
    /\ claimed \in [Rows -> Claims \cup {NoClaim}]
    /\ bytes \subseteq Rows
    /\ settles \subseteq [row : Rows, claim : Claims, attempts : Tries, result : Results]
    /\ failures \in [Rows -> Nat]
    /\ faults \in 0..MaxFaults

(* Bytes on a backend that stays are named by a queue or dead-letter row   *)
(* until they are gone, however settles, takeovers, sweeps and requeues    *)
(* interleave (Settler.Settle, retire).                                    *)
BytesStayNamed ==
    \A r \in bytes \ Leaving : table[r] \in {"none", "queue", "dlq"}

(* A row is dead-lettered only after as many failed deletes as its budget  *)
(* allows, though several instances may have settled it (fail, exhaust).   *)
BudgetSpent ==
    \A r \in Rows : /\ table[r] = "dlq" => failures[r] >= MaxAttempts
                    /\ attempts[r] <= failures[r]

(* No two settles share a claim; only a queued row is claimed; a row that  *)
(* is not there yet has no attempts; and a settle that found its bytes     *)
(* gone was right, for bytes never come back.                              *)
ClaimsApart ==
    /\ \A s, t \in settles : s.claim = t.claim => s = t
    /\ \A r \in Rows : /\ table[r] # "queue" => claimed[r] = NoClaim
                       /\ table[r] = "none" => attempts[r] = 0
    /\ \A s \in settles : s.result = "gone" => s.row \notin bytes \ Leaving

(* A settle that holds its row read the attempts the row still records,    *)
(* and a failure it has not written yet is one more than those.            *)
Counted ==
    \A s \in settles : Holds(s) =>
        /\ s.attempts = attempts[s.row]
        /\ s.result = "failed" => failures[s.row] >= attempts[s.row] + 1

(* The inductive invariant: what the queue promises (bytes stay named,     *)
(* budgets are spent), with what each settle knows of its row (Settler).   *)
CleanupInv == TypeOK /\ ClaimsApart /\ Counted /\ BytesStayNamed /\ BudgetSpent

(* While the settle that holds a row's claim runs, only it, a takeover, a  *)
(* sweep or the removal of the backend changes the row: a settle that lost *)
(* its claim leaves it alone (UpdateCleanupRetry, MoveCleanupToDLQ,        *)
(* CompleteCleanupItems).                                                  *)
OnlyHolderSettles ==
    [][\A s \in settles \cap settles' :
            Holds(s) => \/ Holds(s)' \/ Worker(s.row)
                        \/ SweepStaleCleanupQueueRows(s.row)
                        \/ \E R \in SUBSET Leaving : DeleteBackendData(R)]_vars

(* Every queued row is retired or dead-lettered at last, whatever settles  *)
(* died holding it (ClaimPendingCleanups' grace period, fail).             *)
QueueDrains == \A r \in Rows : table[r] = "queue" ~> table[r] \in {"gone", "dlq"}
=============================================================================
