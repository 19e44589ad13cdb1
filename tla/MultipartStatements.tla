------------------------- MODULE MultipartStatements -------------------------
(***************************************************************************)
(* The multipart tables of one upload at the level of SQL statements.      *)
(* Several calls run at once: part records, removals (aborts and the stale *)
(* sweep) and completions, each on a process with a clock of its own.  On  *)
(* Postgres a call is a READ COMMITTED transaction that takes an advisory  *)
(* lock on the part's path and a row lock on the upload; its writes are    *)
(* seen by others when it commits.  On SQLite one connection runs whole    *)
(* transactions in turn.  Times are kept as ages: `age` is how long ago    *)
(* the database wrote the completion mark, behind[p] how long before the   *)
(* database's present the staleBefore of call p lies.                      *)
(***************************************************************************)
EXTENDS Integers, FiniteSets, TLC

CONSTANTS
    Engine,       \* "postgres" or "sqlite"
    Records,      \* the part records, one per uploaded part; also their paths
    Numbers,      \* the part numbers
    NumberOf,     \* the part number of each record
    Deletes,      \* the aborts and sweeps
    Completions,  \* the completions
    Grace,        \* completionGrace
    RenewEvery,   \* the longest a live completion goes without renewing
    MaxSkew,      \* how far a process's clock is from the database's
    CallTicks,    \* how long a call may wait on locks
    None

MarkOutlives ==
    /\ Engine \in {"postgres", "sqlite"}
    /\ NumberOf \in [Records -> Numbers]
    /\ {Grace, RenewEvery, MaxSkew, CallTicks} \subseteq Nat
    /\ RenewEvery + MaxSkew < Grace
    /\ Engine = "sqlite" => MaxSkew = 0

VARIABLES
    skew,     \* how far each call's process clock is ahead of the database's
    upload,   \* whether the upload's row is there
    age,      \* the age of completion_heartbeat_at, None when it is NULL
    parts,    \* the recorded part of each number
    intents,  \* the pending rows
    queue,    \* the paths in cleanup_queue
    rowLock,  \* the call that holds the upload's row lock
    keyLock,  \* the call that holds each part path's advisory lock
    pc,       \* where each call is
    behind,   \* how long before the database's present its staleBefore lies
    buffer,   \* the path of the row a record is about to replace
    read      \* the parts a completion listed

tables == <<upload, parts, intents, queue>>
locks == <<rowLock, keyLock>>
vars == <<skew, upload, age, parts, intents, queue, rowLock, keyLock, pc,
          behind, buffer, read>>

Calls == Records \cup Deletes \cup Completions
Cap == Grace + MaxSkew + CallTicks + 1
NoParts == [n \in Numbers |-> None]
Stored(ps) == {ps[n] : n \in Numbers} \ {None}
Working == {"list", "work", "remove", "removing", "whole", "rollback"}

----------------------------------------------------------------------------
(* The statements                                                          *)

(* How long before the database's present time.Now() - completionGrace is.  *)
completionStaleBefore(p) == Grace - skew[p]

(* The test of heartbeat.After(staleBefore) on the row as it was read.      *)
lockUploadIdle(p) == age # None /\ age < behind[p]

(* SELECT ... FOR UPDATE: a row someone holds is waited for; a row that is  *)
(* gone is not locked.                                                      *)
LockMultipartUpload(p) ==
    /\ rowLock = None
    /\ rowLock' = IF upload THEN p ELSE None

(* What a transaction leaves when it ends.                                  *)
Release(p) ==
    /\ rowLock' = IF rowLock = p THEN None ELSE rowLock
    /\ keyLock' = [n \in Numbers |-> IF keyLock[n] = p THEN None ELSE keyLock[n]]

(* INSERT ... ON CONFLICT DO UPDATE, DeletePending, and the row for the     *)
(* bytes of the part that was replaced.                                     *)
upsertPart(r, replaced) ==
    /\ parts' = [parts EXCEPT ![NumberOf[r]] = r]
    /\ intents' = intents \ {r}
    /\ queue' = queue \cup ({replaced} \ {None})
    /\ UNCHANGED upload

(* A record whose intent is gone queues its own bytes.                      *)
refusePart(r) ==
    /\ queue' = queue \cup {r}
    /\ UNCHANGED <<upload, parts, intents>>

deleteForgetting ==
    /\ upload' = FALSE
    /\ parts' = NoParts
    /\ UNCHANGED <<intents, queue>>

(* DELETE ... RETURNING, the upload's own row, and a cleanup row per part.  *)
deleteMultipartUpload ==
    /\ upload' = FALSE
    /\ parts' = NoParts
    /\ queue' = queue \cup Stored(parts)
    /\ UNCHANGED intents

(* UPDATE ... WHERE the mark is NULL or older than stale_before.            *)
beginMultipartCompletion(c) == upload /\ (age = None \/ age > behind[c])

(* UPDATE ... WHERE the mark IS NOT NULL.                                   *)
renewMultipartCompletion == upload /\ age # None

----------------------------------------------------------------------------
Init ==
    /\ skew \in [Calls -> (-MaxSkew)..MaxSkew]
    /\ upload = TRUE
    /\ age = None
    /\ parts = NoParts
    /\ intents = Records
    /\ queue = {}
    /\ rowLock = None
    /\ keyLock = [n \in Numbers |-> None]
    /\ pc = [p \in Calls |-> "idle"]
    /\ behind = [p \in Calls |-> 0]
    /\ buffer = [r \in Records |-> None]
    /\ read = [c \in Completions |-> NoParts]

To(p, where) == pc' = [pc EXCEPT ![p] = where]

(* A call fixes its staleBefore before its transaction starts.              *)
Call(p, where) ==
    /\ To(p, where)
    /\ behind' = [behind EXCEPT ![p] = completionStaleBefore(p)]
    /\ UNCHANGED <<skew, tables, age, locks, buffer, read>>

(* A call that returned holds nothing a later step reads.                   *)
Return(p, where) ==
    /\ To(p, where)
    /\ behind' = [behind EXCEPT ![p] = 0]
    /\ buffer' = IF p \in Records THEN [buffer EXCEPT ![p] = None] ELSE buffer
    /\ read' = IF p \in Completions THEN [read EXCEPT ![p] = NoParts] ELSE read
    /\ UNCHANGED skew

AfterRemoval(p) == IF p \in Completions THEN "end" ELSE "idle"

----------------------------------------------------------------------------
(* Postgres: the calls as statements                                       *)

RecordPart(r) ==
    /\ pc[r] = "idle"
    /\ Call(r, IF Engine = "postgres" THEN "key" ELSE "whole")

AcquireKeyLock(r) ==
    /\ pc[r] = "key"
    /\ keyLock[NumberOf[r]] = None
    /\ keyLock' = [keyLock EXCEPT ![NumberOf[r]] = r]
    /\ To(r, "row")
    /\ UNCHANGED <<skew, tables, age, rowLock, behind, buffer, read>>

(* recordPartTx after the key lock: an upload that is gone or being         *)
(* completed ends the transaction, and the uploader's discard is left to    *)
(* the reaper.                                                              *)
LockForRecord(r) ==
    /\ pc[r] = "row"
    /\ LockMultipartUpload(r)
    /\ UNCHANGED <<keyLock, skew, tables, age, behind, buffer, read>>
    /\ To(r, IF ~upload \/ lockUploadIdle(r) THEN "rollback" ELSE "claim")

ClaimPending(r) ==
    /\ pc[r] = "claim"
    /\ To(r, IF r \in intents THEN "get" ELSE "lost")
    /\ UNCHANGED <<skew, tables, age, locks, behind, buffer, read>>

GetPartForUpdate(r) ==
    /\ pc[r] = "get"
    /\ buffer' = [buffer EXCEPT ![r] = parts[NumberOf[r]]]
    /\ To(r, "upsert")
    /\ UNCHANGED <<skew, tables, age, locks, behind, read>>

UpsertPart(r) ==
    /\ pc[r] = "upsert"
    /\ upsertPart(r, buffer[r])
    /\ Release(r)
    /\ Return(r, "done")
    /\ UNCHANGED age

CommitRefusal(r) ==
    /\ pc[r] = "lost"
    /\ refusePart(r)
    /\ Release(r)
    /\ Return(r, "done")
    /\ UNCHANGED age

(* A transaction that ends without its writes: refused, or cut off.         *)
Rollback(p) ==
    /\ pc[p] \in {"key", "row", "claim", "get", "upsert", "lost", "rollback",
                  "remove", "removing"}
    /\ Release(p)
    /\ Return(p, IF p \in Records THEN "done" ELSE AfterRemoval(p))
    /\ UNCHANGED <<tables, age>>

DeleteMultipartUpload(d) ==
    /\ pc[d] = "idle"
    /\ upload
    /\ Call(d, IF Engine = "postgres" THEN "remove" ELSE "whole")

LockForRemoval(p) ==
    /\ pc[p] = "remove"
    /\ LockMultipartUpload(p)
    /\ UNCHANGED <<keyLock, skew, tables, age, behind, buffer, read>>
    /\ To(p, IF ~upload \/ lockUploadIdle(p) THEN "rollback" ELSE "removing")

(* As DeleteMultipartParts, the intents of parts in flight going with it.   *)
DeleteMultipartPartsAndIntents(p) ==
    /\ pc[p] = "removing"
    /\ upload' = FALSE
    /\ parts' = NoParts
    /\ queue' = queue \cup Stored(parts) \cup intents
    /\ intents' = {}
    /\ Release(p)
    /\ Return(p, AfterRemoval(p))
    /\ age' = None

(* DeleteMultipartParts, DeleteMultipartUpload and queueCleanup.            *)
DeleteMultipartParts(p) ==
    /\ pc[p] = "removing"
    /\ deleteMultipartUpload
    /\ Release(p)
    /\ Return(p, AfterRemoval(p))
    /\ age' = None

----------------------------------------------------------------------------
(* SQLite: the same calls as whole transactions                            *)

sqliteRecordPart(r) ==
    /\ pc[r] = "whole"
    /\ IF ~upload \/ lockUploadIdle(r) THEN UNCHANGED tables
       ELSE IF r \in intents THEN upsertPart(r, parts[NumberOf[r]])
       ELSE refusePart(r)
    /\ Return(r, "done")
    /\ UNCHANGED <<locks, age>>

sqliteDeleteMultipartUpload(p) ==
    /\ pc[p] = "whole"
    /\ IF ~upload \/ lockUploadIdle(p) THEN UNCHANGED <<tables, age>>
       ELSE deleteMultipartUpload /\ age' = None
    /\ Return(p, AfterRemoval(p))
    /\ UNCHANGED locks

----------------------------------------------------------------------------
(* Completions                                                             *)

CompleteMultipartUpload(c) ==
    /\ pc[c] = "idle"
    /\ upload
    /\ Call(c, "begin")

(* The UPDATE waits for the row's lock and tests its WHERE on the row as it *)
(* then is.                                                                 *)
BeginMultipartCompletion(c) ==
    /\ pc[c] = "begin"
    /\ rowLock = None
    /\ IF beginMultipartCompletion(c)
       THEN age' = 0 /\ To(c, "list") /\ UNCHANGED <<skew, behind, buffer, read>>
       ELSE Return(c, "idle") /\ UNCHANGED age
    /\ UNCHANGED <<tables, locks>>

ListParts(c) ==
    /\ pc[c] = "list"
    /\ read' = [read EXCEPT ![c] = parts]
    /\ To(c, "work")
    /\ UNCHANGED <<skew, tables, age, locks, behind, buffer>>

RenewMultipartCompletion(c) ==
    /\ pc[c] \in Working
    /\ age # 0
    /\ rowLock = None
    /\ IF renewMultipartCompletion
       THEN age' = 0 /\ UNCHANGED <<skew, pc, behind, buffer, read>>
       ELSE pc[c] \in {"list", "work"} /\ Return(c, "end") /\ UNCHANGED age
    /\ UNCHANGED <<tables, locks>>

(* The object is recorded and the upload is removed against time.Now().     *)
cleanupCompletedUpload(c) ==
    /\ pc[c] = "work"
    /\ To(c, IF Engine = "postgres" THEN "remove" ELSE "whole")
    /\ behind' = [behind EXCEPT ![c] = -skew[c]]
    /\ UNCHANGED <<skew, tables, age, locks, buffer, read>>

(* A completion that failed keeps the parts for a retry.                    *)
FailAssembly(c) ==
    /\ pc[c] = "work"
    /\ Return(c, "end")
    /\ UNCHANGED <<tables, age, locks>>

EndMultipartCompletion(c) ==
    /\ pc[c] = "end"
    /\ rowLock = None
    /\ age' = None
    /\ Return(c, "done")
    /\ UNCHANGED <<tables, locks>>

(* A completion's process dies, or its mark could not be cleared: the       *)
(* server drops its transaction and the mark stays.                         *)
Crash(c) ==
    /\ pc[c] \in Working \cup {"end"}
    /\ Release(c)
    /\ Return(c, "done")
    /\ UNCHANGED <<tables, age>>

----------------------------------------------------------------------------
(* The pending reaper resolves a part's intent under the path's lock.       *)
ResolveIntent(r) ==
    /\ r \in intents
    /\ keyLock[NumberOf[r]] = None
    /\ intents' = intents \ {r}
    /\ queue' = queue \cup {r}
    /\ UNCHANGED <<skew, upload, age, parts, locks, pc, behind, buffer, read>>

Open(p) == pc[p] \notin {"idle", "done", "list", "work", "end"}
Since(p) == IF pc[p] \in {"remove", "removing", "whole"} /\ p \in Completions
            THEN -skew[p] ELSE completionStaleBefore(p)

(* Time passes: a live completion has renewed, and no call waits longer     *)
(* than a transaction may.                                                  *)
Tick ==
    /\ \A c \in Completions :
          pc[c] \in Working \cup {"end"} /\ age # None => age < RenewEvery
    /\ \A p \in Calls : Open(p) => behind[p] < Since(p) + CallTicks
    /\ age # None \/ \E p \in Calls : Open(p)
    /\ age' = IF age \in {None, Cap} THEN age ELSE age + 1
    /\ behind' = [p \in Calls |-> IF Open(p) THEN behind[p] + 1 ELSE behind[p]]
    /\ <<age, behind>>' # <<age, behind>>
    /\ UNCHANGED <<skew, tables, locks, pc, buffer, read>>

RecordStep(r) ==
    \/ AcquireKeyLock(r) \/ LockForRecord(r) \/ ClaimPending(r) \/ GetPartForUpdate(r)
    \/ UpsertPart(r) \/ CommitRefusal(r) \/ sqliteRecordPart(r)

RemovalStep(p) ==
    \/ LockForRemoval(p) \/ DeleteMultipartParts(p) \/ sqliteDeleteMultipartUpload(p)

CompletionStep(c) ==
    \/ BeginMultipartCompletion(c) \/ ListParts(c) \/ RenewMultipartCompletion(c)
    \/ cleanupCompletedUpload(c) \/ EndMultipartCompletion(c)

Next ==
    \/ \E r \in Records : RecordPart(r) \/ RecordStep(r) \/ ResolveIntent(r)
    \/ \E d \in Deletes : DeleteMultipartUpload(d)
    \/ \E p \in Deletes \cup Completions : RemovalStep(p)
    \/ \E c \in Completions :
          CompleteMultipartUpload(c) \/ CompletionStep(c) \/ FailAssembly(c) \/ Crash(c)
    \/ \E p \in Calls : Rollback(p)
    \/ Tick

Spec == Init /\ [][Next]_vars

----------------------------------------------------------------------------
(* The state is well formed; only an upload that is there has parts or a    *)
(* mark.                                                                    *)
TypeOK ==
    /\ skew \in [Calls -> (-MaxSkew)..MaxSkew]
    /\ upload \in BOOLEAN
    /\ age \in (0..Cap) \cup {None}
    /\ parts \in [Numbers -> Records \cup {None}]
    /\ \A n \in Numbers : parts[n] # None => NumberOf[parts[n]] = n
    /\ ~upload => age = None /\ parts = NoParts
    /\ intents \subseteq Records /\ queue \subseteq Records
    /\ rowLock \in Calls \cup {None}
    /\ keyLock \in [Numbers -> Records \cup {None}]
    /\ behind \in [Calls -> (-MaxSkew)..Cap]
    /\ buffer \in [Records -> Records \cup {None}]
    /\ read \in [Completions -> [Numbers -> Records \cup {None}]]

(* Every uploaded path is named by its intent, by its part's row or by the  *)
(* cleanup queue, and the path of a recorded part is named by its row only, *)
(* through every interleaving of recordPartTx, DeleteMultipartUpload and    *)
(* the reaper.                                                              *)
PathsNamed ==
    /\ intents \cup Stored(parts) \cup queue = Records
    /\ Stored(parts) \cap (intents \cup queue) = {}

(* beginMultipartCompletion: "the parts read after it are the final set".   *)
(* While a completion that renews in time works, no record, abort, sweep or *)
(* second completion changes the upload's parts.                            *)
FinalSet ==
    \A c \in Completions : pc[c] = "work" => upload /\ parts = read[c]

(* What each transaction does to the tables is what it would do run alone   *)
(* on the tables as they are when it commits, which is how SQLite runs it.  *)
AsIfAlone ==
    \/ \E r \in Records :
          \/ r \in intents /\ upload /\ upsertPart(r, parts[NumberOf[r]])
          \/ r \notin intents /\ refusePart(r)
          \/ r \in intents /\ queue' = queue \cup {r} /\ intents' = intents \ {r}
               /\ UNCHANGED <<upload, parts>>
    \/ upload /\ deleteMultipartUpload
    \/ UNCHANGED tables
=============================================================================
