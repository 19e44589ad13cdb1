---------------------------- MODULE ObjectLedger ----------------------------
(***************************************************************************)
(* The object ledger: the metadata rows that say which bytes, on which     *)
(* backend, at which storage path, are a copy of which object, and every   *)
(* operation that changes them.                                            *)
(*                                                                         *)
(* A write claims a backend by inserting an intent (pending_objects), puts *)
(* the bytes at a path of its own that the intent names, and then turns    *)
(* the intent into a row (object_locations) in one transaction.  Bytes     *)
(* that stop being recorded are queued for deletion (cleanup_queue) by the *)
(* transaction that stops recording them.  A reaper resolves the intents   *)
(* of writes that died.  Replicas and moves claim in the same way and      *)
(* place a copy of bytes already recorded.                                 *)
(*                                                                         *)
(* Every store operation takes the key's lock and runs in one transaction, *)
(* so each is one action; uploads, answers of a backend, HEAD probes and   *)
(* deletes of bytes are steps of their own.  An intent and its storage     *)
(* path are one number, in claim order: the id is fresh, the path derives  *)
(* from it, and no other write uses it.  Every object has size 1.          *)
(***************************************************************************)
EXTENDS Integers, Sequences, FiniteSets

CONSTANTS
    Keys,           \* object keys
    Backends,       \* storage backends
    Puts,           \* client writes that place one copy at a time
    Fanouts,        \* client writes that place several copies at once
    Replicas,       \* replication attempts
    Moves,          \* drain and rebalance moves, and in-place rewrites
    KeyOf,          \* the key each operation is about
    MaxPaths,       \* bound: how many intents are ever inserted
    Capacity,       \* bytes_limit of each backend, in objects
    CopiesPerWrite, \* most copies one fan-out places
    ReaperRaces,    \* TRUE: min_age does not outlast the slowest upload
    None            \* no operation, no backend, no path

Writes == Puts \cup Fanouts
Copiers == Replicas \cup Moves
Ops == Writes \cup Copiers
Paths == 1..MaxPaths

ASSUME OpsAssumption ==
    /\ None \notin Ops /\ None \notin Backends
    /\ Writes \cap Copiers = {} /\ Puts \cap Fanouts = {} /\ Replicas \cap Moves = {}
    /\ KeyOf \in [Ops -> Keys]
ASSUME BoundsAssumption ==
    /\ MaxPaths \in Nat /\ CopiesPerWrite \in Nat
    /\ Capacity \in [Backends -> Nat]
    /\ ReaperRaces \in BOOLEAN

VARIABLES
    claimed,  \* how many intents were ever inserted
    claim,    \* path -> the operation, backend, role and content of its intent
    phase,    \* path -> how far its upload is, as its process sees it
    wire,     \* paths whose PUT may still take effect on the backend
    stored,   \* paths that hold bytes on their backend
    intents,  \* pending_objects
    rows,     \* object_locations
    newer,    \* <<row, intent>>: the row's created_at is after the intent's
    cleanup,  \* cleanup_queue and cleanup_dlq: <<path, who queued it>>
    probe,    \* path -> what the reaper's HEAD said and it has not acted on
    status,   \* operation -> its progress, and what its client was told
    source    \* copier -> the row its scan read

uploads == <<claimed, claim, phase, wire>>
ledger == <<intents, rows, newer, cleanup>>
vars == <<uploads, stored, ledger, probe, status, source>>

NoClaim == [op |-> None, backend |-> None, role |-> None, content |-> None]

Init ==
    /\ claimed = 0
    /\ claim = [p \in Paths |-> NoClaim]
    /\ phase = [p \in Paths |-> "free"]
    /\ wire = {} /\ stored = {}
    /\ intents = {} /\ rows = {} /\ newer = {} /\ cleanup = {}
    /\ probe = [p \in Paths |-> "none"]
    /\ status = [o \in Ops |-> "idle"]
    /\ source = [o \in Copiers |-> None]

-----------------------------------------------------------------------------
(* What the tables say. *)

Used == 1..claimed
Key(p) == KeyOf[claim[p].op]
Content(p) == claim[p].content
RowsOf(k) == {p \in rows : Key(p) = k}
IntentsOf(k) == {p \in intents : Key(p) = k}
PathsOf(o) == {p \in Used : claim[p].op = o}
On(S, b) == {p \in S : claim[p].backend = b}
Live(p) == phase[p] \in {"reading", "sending", "sent"}

(* A path is queued by the transaction that stops recording it, and again  *)
(* by its own writer when that finds its intent gone.                      *)
Removed(S) == S \X {"removed"}
Overtaken(p) == {<<p, "overtaken">>}
Queued == {c[1] : c \in cleanup}

(* Mutant: bytes awaiting deletion are not counted.                        *)
OccupiedWithoutOrphans(b) == Cardinality(On(rows, b)) + Cardinality(On(intents, b))

(* backend_capacity: recorded bytes, bytes in flight and bytes awaiting    *)
(* deletion all count against bytes_limit.                                 *)
Occupied(b) == Cardinality(On(rows, b)) + Cardinality(On(intents, b))
               + Cardinality({c \in cleanup : claim[c[1]].backend = b})

(* One transaction: the rows and intents it leaves, the stamps of the rows *)
(* it inserts, and the deletions it queues.                                *)
Commit(newRows, newIntents, stamps, queue) ==
    /\ rows' = newRows
    /\ intents' = newIntents
    /\ newer' = {n \in newer \cup stamps : n[1] \in newRows /\ n[2] \in newIntents}
    /\ cleanup' = cleanup \cup queue

-----------------------------------------------------------------------------
(* Claims.                                                                 *)

(* The conditional insert, once for each backend of bs, in one transaction *)
(* that holds the backends' claim locks.                                   *)
InsertPending(o, bs, content, firstPhase) ==
    LET new == claimed + 1 .. claimed + Len(bs)
        role(p) == IF o \in Writes /\ p = claimed + 1 THEN "primary" ELSE "companion"
    IN  /\ claimed + Len(bs) <= MaxPaths
        /\ \A i \in DOMAIN bs : Occupied(bs[i]) < Capacity[bs[i]]
        /\ claimed' = claimed + Len(bs)
        /\ claim' = [p \in Paths |-> IF p \in new
                        THEN [op |-> o, backend |-> bs[p - claimed],
                              role |-> role(p), content |-> content]
                        ELSE claim[p]]
        /\ phase' = [p \in Paths |-> IF p \in new THEN firstPhase ELSE phase[p]]
        /\ intents' = intents \cup new
        /\ UNCHANGED <<rows, newer, cleanup, stored, probe, source>>

(* PutObject's loop: one copy, on a backend the write has not tried yet;   *)
(* after a failed attempt the next one claims elsewhere.                   *)
ClaimWriteTarget(o, b) ==
    /\ o \in Puts
    /\ status[o] \in {"idle", "open"}
    /\ \A p \in PathsOf(o) : ~Live(p) /\ claim[p].backend # b
    /\ InsertPending(o, <<b>>, o, "sending")
    /\ wire' = wire \cup {claimed'}
    /\ status' = [status EXCEPT ![o] = "open"]

(* putCopiesInParallel: distinct backends, fewer than asked if some        *)
(* decline; the first is the primary, the others companions.               *)
ClaimWriteCopies(o, bs) ==
    /\ o \in Fanouts
    /\ status[o] = "idle"
    /\ InsertPending(o, bs, o, "sending")
    /\ wire' = wire \cup (claimed + 1 .. claimed')
    /\ status' = [status EXCEPT ![o] = "open"]

(* The scan of the replicator, the drainer, the rebalancer or a rewrite    *)
(* pass: the copy it will read, possibly stale by the time it claims.      *)
Scan(o, src) ==
    /\ o \in Copiers
    /\ status[o] = "idle"
    /\ src \in RowsOf(KeyOf[o])
    /\ source' = [source EXCEPT ![o] = src]
    /\ status' = [status EXCEPT ![o] = "scanned"]
    /\ UNCHANGED <<uploads, stored, ledger, probe>>

(* A replica goes to another backend; a move may rewrite in place.         *)
ClaimCopyTarget(o, b) ==
    /\ o \in Copiers
    /\ status[o] = "scanned"
    /\ o \in Replicas => b # claim[source[o]].backend
    /\ InsertPending(o, <<b>>, Content(source[o]), "reading")
    /\ status' = [status EXCEPT ![o] = "open"]
    /\ UNCHANGED wire

-----------------------------------------------------------------------------
(* Uploads.                                                                *)

(* DiscardPending: an intent already gone was resolved by whoever removed  *)
(* it.  The discard may fail, and then the intent stays for the reaper.    *)
DiscardPending(p) ==
    \/ Commit(rows, intents \ {p}, {}, Removed({p} \cap intents))
    \/ p \in intents /\ UNCHANGED ledger

Ends(p) == phase' = [phase EXCEPT ![p] = "over"]
Finish(o) == status' = [status EXCEPT ![o] = IF o \in Copiers THEN "ended" ELSE @]

(* The copier reads its source and starts sending it.                      *)
ReadSource(p) ==
    /\ phase[p] = "reading"
    /\ source[claim[p].op] \in stored
    /\ phase' = [phase EXCEPT ![p] = "sending"]
    /\ wire' = wire \cup {p}
    /\ UNCHANGED <<claimed, claim, stored, ledger, probe, status, source>>

(* The source's bytes are gone.  The replicator prunes the source's row,   *)
(* if it is still there, and queues nothing for it.                        *)
SourceMissing(p) ==
    LET src == source[claim[p].op]
        pruned == IF claim[p].op \in Replicas THEN {src} \cap rows ELSE {}
    IN  /\ phase[p] = "reading"
        /\ src \notin stored
        /\ \/ Commit(rows \ pruned, intents \ {p}, {}, Removed({p} \cap intents))
           \/ Commit(rows \ pruned, intents, {}, {})
        /\ Ends(p)
        /\ Finish(claim[p].op)
        /\ UNCHANGED <<claimed, claim, wire, stored, probe, source>>

(* The backend applies a PUT, perhaps after its client stopped waiting.    *)
Land(p) ==
    /\ p \in wire
    /\ wire' = wire \ {p}
    /\ stored' = stored \cup {p}
    /\ UNCHANGED <<claimed, claim, phase, ledger, probe, status, source>>

(* A PUT nobody waits for never takes effect.                              *)
Lost(p) ==
    /\ p \in wire
    /\ ~Live(p)
    /\ wire' = wire \ {p}
    /\ UNCHANGED <<claimed, claim, phase, stored, ledger, probe, status, source>>

(* The PUT answers success.                                                *)
UploadOk(p) ==
    /\ phase[p] = "sending"
    /\ p \notin wire
    /\ phase' = [phase EXCEPT ![p] = "sent"]
    /\ UNCHANGED <<claimed, claim, wire, stored, ledger, probe, status, source>>

(* The PUT answers success, but the backend's cached flags now refuse      *)
(* writes (any backend may be cordoned or drained at any moment).          *)
UploadRefused(p) ==
    /\ phase[p] = "sending"
    /\ p \notin wire
    /\ claim[p].op \in Writes
    /\ DiscardPending(p)
    /\ Ends(p)
    /\ UNCHANGED <<claimed, claim, wire, stored, probe, status, source>>

(* The PUT answers an error or times out, which proves nothing about the   *)
(* bytes: a write leaves its intent to the reaper.                         *)
UploadFails(p) ==
    /\ phase[p] = "sending"
    /\ claim[p].op \in Writes
    /\ Ends(p)
    /\ UNCHANGED <<claimed, claim, wire, stored, ledger, probe, status, source>>

(* A copy that fails, or that does not verify, is discarded.               *)
CopyFails(p) ==
    /\ Live(p)
    /\ claim[p].op \in Copiers
    /\ DiscardPending(p)
    /\ Ends(p)
    /\ Finish(claim[p].op)
    /\ UNCHANGED <<claimed, claim, wire, stored, probe, source>>

-----------------------------------------------------------------------------
(* Commits.                                                                *)

(* Mutant: the intents of the write's running uploads are kept, but their  *)
(* bytes are queued.                                                       *)
recordObjectTxQueueingSiblings(p, placing) ==
    LET displaced == RowsOf(Key(p))
        superseded == IntentsOf(Key(p)) \ {p}
    IN  IF p \in intents
        THEN Commit((rows \ displaced) \cup {p}, intents \ ((superseded \ placing) \cup {p}),
                    {p} \X placing, Removed(displaced \cup superseded))
        ELSE Commit(rows, intents, {}, Overtaken(p))

(* Replace every copy of the key, clear its intents but those in placing,  *)
(* and queue what was displaced and superseded.  A write whose own intent  *)
(* is gone was overtaken: it records nothing and queues its own bytes.     *)
recordObjectTx(p, placing) ==
    LET displaced == RowsOf(Key(p))
        superseded == IntentsOf(Key(p)) \ (placing \cup {p})
    IN  IF p \in intents
        THEN Commit((rows \ displaced) \cup {p}, intents \ (superseded \cup {p}),
                    {p} \X placing, Removed(displaced \cup superseded))
        ELSE Commit(rows, intents, {}, Overtaken(p))

(* The first upload of a write to land records the object and answers the  *)
(* client; uploads still running keep their intents.  An error answers the *)
(* client too, and does not prove that the transaction did not commit.     *)
RecordObject(p) ==
    LET o == claim[p].op
        placing == {q \in PathsOf(o) \ {p} : Live(q)}
    IN  /\ phase[p] = "sent"
        /\ o \in Writes
        /\ status[o] = "open"
        /\ \/ /\ recordObjectTx(p, placing)
              /\ status' \in {[status EXCEPT ![o] = a] : a \in {"ok", "error"}}
           \/ /\ status' = [status EXCEPT ![o] = "error"]
              /\ UNCHANGED ledger
        /\ Ends(p)
        /\ UNCHANGED <<claimed, claim, wire, stored, probe, source>>

(* The stamp of a row inserted now: newer than every intent of its key.    *)
(* (created_at is the start of the transaction.  An intent inserted after  *)
(* that start and before the commit might as well come after the commit:   *)
(* no transaction that uses Stamp reads or clears another one's intent.)   *)
Stamp(p) == {p} \X IntentsOf(Key(p))

(* Mutant: the late copy is added though a newer write or a delete cleared *)
(* its intent.                                                             *)
CommitCompanionCopyUnchecked(p) ==
    /\ phase[p] = "sent"
    /\ claim[p].op \in Fanouts
    /\ status[claim[p].op] = "ok"
    /\ On(RowsOf(Key(p)), claim[p].backend) = {}
    /\ Commit(rows \cup {p}, intents \ {p}, Stamp(p), {})
    /\ Ends(p)
    /\ UNCHANGED <<claimed, claim, wire, stored, probe, status, source>>

(* A later upload of a fan-out adds its copy; one whose intent is gone     *)
(* queues its bytes.  The insert fails on a backend that has a copy.       *)
CommitCompanionCopy(p) ==
    /\ phase[p] = "sent"
    /\ claim[p].op \in Fanouts
    /\ status[claim[p].op] = "ok"
    /\ \/ /\ p \in intents
          /\ On(RowsOf(Key(p)), claim[p].backend) = {}
          /\ Commit(rows \cup {p}, intents \ {p}, Stamp(p), {})
       \/ p \notin intents /\ Commit(rows, intents, {}, Overtaken(p))
       \/ UNCHANGED ledger
    /\ Ends(p)
    /\ UNCHANGED <<claimed, claim, wire, stored, probe, status, source>>

(* An upload that landed after the write's commit failed.                  *)
leaveForReaper(p) ==
    /\ phase[p] = "sent"
    /\ claim[p].op \in Fanouts
    /\ status[claim[p].op] = "error"
    /\ Ends(p)
    /\ UNCHANGED <<claimed, claim, wire, stored, ledger, probe, status, source>>

(* Every attempt failed, or no further backend took the write.             *)
GiveUp(o) ==
    /\ o \in Writes
    /\ status[o] = "open"
    /\ \A p \in PathsOf(o) : ~Live(p)
    /\ status' = [status EXCEPT ![o] = "error"]
    /\ UNCHANGED <<uploads, stored, ledger, probe, source>>

(* Mutant: any copy of the key stands for the source.                      *)
refusalAnySource(p, src, move) ==
    \/ RowsOf(Key(p)) = {}
    \/ IF claim[p].backend = claim[src].backend THEN ~move
       ELSE On(RowsOf(Key(p)), claim[p].backend) # {}

(* A placement is refused when its source is gone or replaced, or its      *)
(* target already holds a copy; only a move may target its own backend.    *)
refusal(p, src, move) ==
    \/ src \notin rows
    \/ IF claim[p].backend = claim[src].backend THEN ~move
       ELSE On(RowsOf(Key(p)), claim[p].backend) # {}

placeCopyTx(p, src, move) ==
    LET gone == IF move THEN {src} ELSE {}
        stamps == {<<p, q>> : q \in {r \in intents : <<src, r>> \in newer}}
    IN  IF p \notin intents THEN Commit(rows, intents, {}, Overtaken(p))
        ELSE IF refusal(p, src, move) THEN Commit(rows, intents \ {p}, {}, Removed({p}))
        ELSE Commit((rows \ gone) \cup {p}, intents \ {p}, stamps, Removed(gone))

(* The copy inherits its source's created_at.                              *)
PlaceCopy(p) ==
    LET o == claim[p].op
    IN  /\ phase[p] = "sent"
        /\ o \in Copiers
        /\ placeCopyTx(p, source[o], o \in Moves) \/ UNCHANGED ledger
        /\ Ends(p)
        /\ Finish(o)
        /\ UNCHANGED <<claimed, claim, wire, stored, probe, source>>

(* The process running o dies, or its client's connection breaks.          *)
Crash(o) ==
    /\ status[o] = "open" \/ \E p \in PathsOf(o) : Live(p)
    /\ phase' = [p \in Paths |-> IF p \in PathsOf(o) THEN "over" ELSE phase[p]]
    /\ status' = [status EXCEPT ![o] = IF @ # "open" THEN @
                     ELSE IF o \in Writes THEN "error" ELSE "ended"]
    /\ UNCHANGED <<claimed, claim, wire, stored, ledger, probe, source>>

-----------------------------------------------------------------------------
(* Removals.                                                               *)

(* Mutant: the delete leaves the intents of the keys it empties.           *)
DeleteObjectsBatchKeepingIntents(ks) ==
    LET removed == UNION {RowsOf(k) : k \in ks}
    IN  /\ removed # {}
        /\ Commit(rows \ removed, intents, {}, Removed(removed))
        /\ UNCHANGED <<uploads, stored, probe, status, source>>

(* DeleteObjectsBatch.  A batch with no rows returns early, and a key with *)
(* no row keeps its intents.                                               *)
DeleteObjectsBatch(ks) ==
    LET removed == UNION {RowsOf(k) : k \in ks}
        held == {Key(p) : p \in removed}
        superseded == UNION {IntentsOf(k) : k \in held}
    IN  /\ removed # {}
        /\ Commit(rows \ removed, intents \ superseded, {},
                  Removed(removed \cup superseded))
        /\ UNCHANGED <<uploads, stored, probe, status, source>>

(* Mutant: the floor is compared with >=.                                  *)
DeleteObjectLocationBelowFloor(p) ==
    /\ p \in rows
    /\ Cardinality(RowsOf(Key(p))) >= 1
    /\ Commit(rows \ {p}, intents, {}, Removed({p}))
    /\ UNCHANGED <<uploads, stored, probe, status, source>>

(* DropCopy of the over-replication cleaner and the drainer, which keep at *)
(* least one copy.                                                         *)
DeleteObjectLocation(p) ==
    /\ p \in rows
    /\ Cardinality(RowsOf(Key(p))) > 1
    /\ Commit(rows \ {p}, intents, {}, Removed({p}))
    /\ UNCHANGED <<uploads, stored, probe, status, source>>

(* A cleanup row's bytes are deleted (absent bytes count) and it retires,  *)
(* or stays to be settled again: the delete failed after it took effect,   *)
(* or the retirement did.  A delete that had no effect changes nothing.    *)
Settle(c) ==
    /\ c \in cleanup
    /\ cleanup' \in {cleanup, cleanup \ {c}}
    /\ stored' = stored \ {c[1]}
    /\ UNCHANGED <<uploads, intents, rows, newer, probe, status, source>>

-----------------------------------------------------------------------------
(* The pending reaper.                                                     *)

(* An intent is old enough when it has outlived min_age.  A min_age that   *)
(* outlasts any write means that every operation that claimed no later     *)
(* than it has ended, failover and late copies included.                   *)
Elders(q) == {claim[p].op : p \in 1..q}
Done(o) == status[o] # "open" /\ \A p \in PathsOf(o) : p \notin wire /\ ~Live(p)
Stale(q) == ReaperRaces \/ \A o \in Elders(q) : Done(o)

(* Mutant: a HEAD that finds nothing counts as one that found the bytes.   *)
probeBackendTrusting(q) ==
    /\ q \in intents
    /\ probe[q] = "none"
    /\ Stale(q)
    /\ probe' = [probe EXCEPT ![q] = "found"]
    /\ UNCHANGED <<uploads, stored, ledger, status, source>>

(* The reaper's HEAD of the intent's own path.                             *)
probeBackend(q) ==
    /\ q \in intents
    /\ probe[q] = "none"
    /\ Stale(q)
    /\ probe' = [probe EXCEPT ![q] = IF q \in stored THEN "found" ELSE "missing"]
    /\ UNCHANGED <<uploads, stored, ledger, status, source>>

intentSuperseded(q) == \E r \in RowsOf(Key(q)) : <<r, q>> \in newer

(* A companion is never promoted, a superseded intent is dropped, any      *)
(* other becomes the object.                                               *)
promotePendingTx(q) ==
    IF q \notin intents THEN UNCHANGED ledger
    ELSE IF claim[q].role = "companion"
         THEN Commit(rows, intents \ {q}, {}, Removed({q} \ rows))
    ELSE IF intentSuperseded(q) THEN Commit(rows, intents \ {q}, {}, Removed({q}))
    ELSE Commit((rows \ RowsOf(Key(q))) \cup {q}, intents \ {q}, Stamp(q),
                Removed(RowsOf(Key(q))))

PromotePending(q) ==
    /\ probe[q] = "found"
    /\ promotePendingTx(q)
    /\ probe' = [probe EXCEPT ![q] = "none"]
    /\ UNCHANGED <<uploads, stored, status, source>>

(* Mutant: HEAD found nothing, and the intent stays.                       *)
dropIntentKeepingIt(q) ==
    /\ probe[q] = "missing"
    /\ probe' = [probe EXCEPT ![q] = "none"]
    /\ UNCHANGED <<uploads, stored, ledger, status, source>>

(* HEAD found nothing: the intent goes and nothing is queued.              *)
dropIntent(q) ==
    /\ probe[q] = "missing"
    /\ Commit(rows, intents \ {q}, {}, {})
    /\ probe' = [probe EXCEPT ![q] = "none"]
    /\ UNCHANGED <<uploads, stored, status, source>>

-----------------------------------------------------------------------------
Targets ==
    LET lists == UNION {[1..n -> Backends] : n \in 1..CopiesPerWrite}
    IN  {bs \in lists : \A i, j \in DOMAIN bs : bs[i] = bs[j] => i = j}

Transfer(p) ==
    \/ ReadSource(p) \/ SourceMissing(p) \/ CopyFails(p) \/ PlaceCopy(p)
    \/ UploadOk(p) \/ UploadRefused(p) \/ UploadFails(p)
    \/ RecordObject(p) \/ CommitCompanionCopy(p) \/ leaveForReaper(p)
Network(p) == Land(p) \/ Lost(p)
Reaper(p) == probeBackend(p) \/ PromotePending(p) \/ dropIntent(p)

Next ==
    \/ \E o \in Puts, b \in Backends : ClaimWriteTarget(o, b)
    \/ \E o \in Fanouts, bs \in Targets : ClaimWriteCopies(o, bs)
    \/ \E o \in Copiers, p \in Paths : Scan(o, p)
    \/ \E o \in Copiers, b \in Backends : ClaimCopyTarget(o, b)
    \/ \E p \in Used : Transfer(p) \/ Network(p) \/ Reaper(p) \/ DeleteObjectLocation(p)
    \/ \E o \in Ops : GiveUp(o) \/ Crash(o)
    \/ \E ks \in SUBSET Keys : DeleteObjectsBatch(ks)
    \/ \E c \in cleanup : Settle(c)

Spec == Init /\ [][Next]_vars

-----------------------------------------------------------------------------
(* Properties.                                                             *)

(* The shape of the state.  A row, an intent and a cleanup row name a path *)
(* that was claimed, and a stamp compares a row with an intent that both   *)
(* still exist (intentSuperseded reads only those).                        *)
TypeOK ==
    /\ claimed \in 0..MaxPaths
    /\ claim \in [Paths -> [op : Ops \cup {None}, backend : Backends \cup {None},
                            role : {"primary", "companion", None},
                            content : Writes \cup {None}]]
    /\ phase \in [Paths -> {"free", "reading", "sending", "sent", "over"}]
    /\ wire \subseteq Used /\ stored \subseteq Used
    /\ intents \subseteq Used /\ rows \subseteq Used
    /\ newer \subseteq rows \X intents
    /\ cleanup \subseteq Used \X {"removed", "overtaken"}
    /\ probe \in [Paths -> {"none", "found", "missing"}]
    /\ status \in [Ops -> {"idle", "scanned", "open", "ok", "error", "ended"}]
    /\ source \in [Copiers -> Used \cup {None}]

(* No cleanup row names bytes that a row records, or that an intent may    *)
(* still turn into a row: whoever settles the queue deletes no live copy.  *)
(* (Every core transaction that queues bytes; settler.go deletes blindly.) *)
QueuedBytesAreDead == (rows \cup intents) \cap Queued = {}

(* Every row's bytes are on its backend: no interleaving of uploads,       *)
(* overwrites, deletes, probes and settles leaves a row without bytes.     *)
RecordedBytesStored == rows \subseteq stored

(* All the copies of a key are copies of one write, whichever of its       *)
(* uploads, replicas and moves finished late (commitCompanionTx,           *)
(* placeCopyTx).                                                           *)
CopiesAgree == \A p, q \in rows : Key(p) = Key(q) => Content(p) = Content(q)

(* A key that has a copy keeps one until a client deletes it: no move,     *)
(* dropped excess copy, overwrite or recovery leaves it without any.       *)
KeptUntilDeleted ==
    [][\A k \in Keys : RowsOf(k) # {} /\ RowsOf(k)' = {} =>
            \E ks \in SUBSET Keys : k \in ks /\ DeleteObjectsBatch(ks)]_vars

(* What the ledger still owes a backend never exceeds its limit: recorded  *)
(* copies, claims, and copies it stopped recording but has not deleted.    *)
WithinLimit ==
    \A b \in Backends :
        Cardinality(On(rows, b)) + Cardinality(On(intents, b))
        + Cardinality({c \in cleanup : claim[c[1]].backend = b /\ c[2] = "removed"})
            <= Capacity[b]

-----------------------------------------------------------------------------
(* The inductive invariant behind the safety properties, for a min_age     *)
(* that outlasts every write.                                              *)

(* What a claim and a scan leave behind.                                   *)
Bookkeeping ==
    /\ \A p \in Used :
        /\ claim[p].op \in Ops /\ claim[p].backend \in Backends
        /\ phase[p] # "free"
        /\ status[claim[p].op] \notin {"idle", "scanned"}
        /\ claim[p].op \in Writes => Content(p) = claim[p].op
        /\ claim[p].op \in Copiers => Content(p) = Content(source[claim[p].op])
    /\ \A p \in Paths \ Used : phase[p] = "free" /\ probe[p] = "none"
    /\ \A o \in Copiers : status[o] # "idle" =>
            source[o] \in Used /\ Key(source[o]) = KeyOf[o]

(* A path is recorded, claimed, or queued for deletion, never two of them; *)
(* its uploader is done with it once it is recorded.                       *)
Separation ==
    /\ rows \cap intents = {}
    /\ QueuedBytesAreDead
    /\ \A p \in rows : ~Live(p)

(* Whoever is about to turn an intent into a row knows its bytes are there. *)
Arrived(p) ==
    \/ phase[p] = "sent"
    \/ phase[p] = "sending" /\ p \notin wire
    \/ probe[p] = "found"
BytesInPlace ==
    /\ RecordedBytesStored
    /\ \A p \in intents : Arrived(p) => p \in stored

(* The reaper acts on an intent after its elders have ended.               *)
ReaperWaits == \A q \in Used : probe[q] # "none" => \A o \in Elders(q) : Done(o)

(* A fan-out whose object is recorded and that still uploads a copy owns   *)
(* the key: all rows are its own content, and no older claim is left.      *)
FanoutOwnsKey ==
    \A p \in intents :
        claim[p].op \in Fanouts /\ status[claim[p].op] = "ok" /\ Live(p) =>
            /\ \A r \in RowsOf(Key(p)) : Content(r) = claim[p].op
            /\ \A q \in IntentsOf(Key(p)) : q < p => claim[q].op = claim[p].op

(* Until it is answered, a fan-out's running uploads all have their        *)
(* intents or have all lost them.                                          *)
FanoutTogether ==
    \A p, q \in Used :
        claim[p].op = claim[q].op /\ claim[p].op \in Fanouts
        /\ status[claim[p].op] = "open" /\ Live(p) /\ Live(q)
            => (p \in intents <=> q \in intents)

(* The facts above hold together in every reachable state: what the code   *)
(* relies on whenever it turns an intent into a row or queues a path       *)
(* (recordObjectTx, commitCompanionTx, placeCopyTx, promotePendingTx).     *)
LedgerInv ==
    /\ TypeOK
    /\ Bookkeeping /\ Separation /\ BytesInPlace /\ ReaperWaits
    /\ CopiesAgree /\ FanoutOwnsKey /\ FanoutTogether
=============================================================================
