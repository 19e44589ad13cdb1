------------------------------ MODULE ReadPath ------------------------------
(***************************************************************************)
(* GET of one object: the location lookup, the object data cache, failover *)
(* over the copies, the degraded broadcast while the database is down,     *)
(* verification of a complete body and the filling of the cache            *)
(* (proxy/object/get.go, proxy/readpath, cache/memory.go), against writes, *)
(* deletes, cleanups and bit rot on the backends.                          *)
(*                                                                         *)
(* A copy is the bytes one write stored on one backend, and its storage    *)
(* path is its own: no write reuses a path.  Copies of a key are tried in  *)
(* any order.  A later write is newer on every backend.                    *)
(***************************************************************************)
EXTENDS Naturals, FiniteSets, Sequences, SequencesExt

CONSTANTS Backends, Readers,
          Size,             \* the size of the object the n-th write stores
          MaxSize,          \* cache.max_size
          MaxObjectSize,    \* cache.max_object_size
          VerifyOnRead,     \* integrity.verify_on_read
          DegradedReads,    \* circuit_breaker.degraded_reads_enabled
          MaxOutages, MaxFaults, MaxRot,
          None

\* The cache is built with both limits positive and the second within the first.
CacheConfig ==
  /\ MaxSize \in Nat /\ MaxObjectSize \in 1..MaxSize
  /\ Size \in Seq(Nat)

VARIABLES
  db,        \* whether the database answers
  rows,      \* object_locations of the key
  pending,   \* the copies an unrecorded upload has stored
  stored,    \* the copies the backends hold
  queue,     \* cleanup_queue
  rot,       \* copies whose bytes have changed on their backend
  writes,    \* writes begun
  cache,     \* the LRU list, most recently used first
  sizeBytes, \* what the cache accounts for
  hint,      \* the location cache's entry for the key
  rd,        \* of each reader: where its GET is and what it holds
  dropped,   \* copies a verified read has removed
  outages, faults

disk == <<pending, stored, queue, writes>>
data == <<cache, sizeBytes>>
vars == <<db, rows, disk, rot, data, hint, rd, dropped, outages, faults>>

Writes == 1..Len(Size)

Copies == [write : Writes, be : Backends]

\* Entries are kept under the path of the copy that served them.
StoragePath(c) == c

Idle == [pc |-> "idle", ranged |-> FALSE, degraded |-> FALSE, locs |-> {}, left |-> {},
         from |-> None, intact |-> TRUE, seen |-> {}, held |-> {}, failed |-> {}]

\* The write a lookup answers with, 0 when the key has no copies.
Current(rs) == IF rs = {} THEN 0 ELSE (CHOOSE c \in rs : TRUE).write

Holds(b) == {c \in stored : c.be = b}

Init ==
  /\ db = "up" /\ rows = {} /\ pending = {} /\ stored = {} /\ queue = {} /\ rot = {}
  /\ writes = 0 /\ cache = <<>> /\ sizeBytes = 0 /\ hint = None
  /\ rd = [r \in Readers |-> Idle]
  /\ dropped = {} /\ outages = 0 /\ faults = 0

\* What a reader that has not been served yet has been able to see, brought up
\* to date with a step that replaces the rows or the stored bytes.
Watched(f, newRows, newStored) ==
  CASE f.pc \in {"cache", "probe"} -> [f EXCEPT !.seen = @ \cup {Current(newRows)}]
    [] f.pc \in {"hint", "broadcast"} -> [f EXCEPT !.held = {b \in @ : \E c \in newStored : c.be = b}]
    [] OTHER -> f

Watch(newRows, newStored) == rd' = [r \in Readers |-> Watched(rd[r], newRows, newStored)]

-----------------------------------------------------------------------------
(* The object data cache.                                                  *)

Entry(c, intact) == [path |-> StoragePath(c), size |-> Size[c.write], of |-> c, intact |-> intact]

Admit(size) == size > 0 /\ size <= MaxObjectSize

Without(list, path) == SelectSeq(list, LAMBDA e : e.path # path)

TotalSize(list) == FoldSeq(LAMBDA e, n : e.size + n, 0, list)

\* Least recently used entries go until the new one fits.
EvictFor(list, size) ==
  LET fits == {n \in 0..Len(list) : TotalSize(SubSeq(list, 1, n)) + size <= MaxSize}
  IN SubSeq(list, 1, IF fits = {} THEN 0 ELSE Max(fits))

PutBytes(e) ==
  LET room == EvictFor(Without(cache, e.path), e.size)
      fits == TotalSize(room) + e.size <= MaxSize
  IN /\ cache' = IF fits THEN <<e>> \o room ELSE room
     /\ sizeBytes' = TotalSize(room) + (IF fits THEN e.size ELSE 0)

\* The TTL of an entry passes and a Get removes it.
Expire ==
  \E i \in DOMAIN cache :
    /\ cache' = RemoveAt(cache, i)
    /\ sizeBytes' = sizeBytes - cache[i].size
    /\ UNCHANGED <<db, rows, disk, rot, hint, rd, dropped, outages, faults>>

\* An operator's flush.
Clear ==
  /\ cache # <<>>
  /\ cache' = <<>> /\ sizeBytes' = 0
  /\ UNCHANGED <<db, rows, disk, rot, hint, rd, dropped, outages, faults>>

-----------------------------------------------------------------------------
(* Writes, deletes and cleanups, as far as a read can tell.                *)

\* A write stores its bytes under paths of its own.
Upload(bs) ==
  /\ db = "up" /\ pending = {} /\ writes < Len(Size) /\ bs # {}
  /\ writes' = writes + 1
  /\ pending' = {[write |-> writes + 1, be |-> b] : b \in bs}
  /\ stored' = stored \cup pending'
  /\ UNCHANGED <<db, rows, queue, rot, data, hint, rd, dropped, outages, faults>>

\* The commit replaces the rows and queues the displaced bytes; the location
\* hint is dropped after it.
Commit ==
  /\ db = "up" /\ pending # {}
  /\ rows' = pending /\ queue' = queue \cup rows /\ pending' = {}
  /\ hint' = None
  /\ Watch(pending, stored)
  /\ UNCHANGED <<db, stored, writes, rot, data, dropped, outages, faults>>

\* An upload that will not be recorded, discarded by its writer or the reaper.
Discard ==
  /\ db = "up" /\ pending # {}
  /\ queue' = queue \cup pending /\ pending' = {}
  /\ UNCHANGED <<db, rows, stored, writes, rot, data, hint, rd, dropped, outages, faults>>

DeleteObject ==
  /\ db = "up" /\ rows # {}
  /\ rows' = {} /\ queue' = queue \cup rows
  /\ hint' = None
  /\ Watch({}, stored)
  /\ UNCHANGED <<db, pending, stored, writes, rot, data, dropped, outages, faults>>

\* A queued copy's bytes are removed: at once, or by the cleanup worker.
Clean ==
  \E c \in queue :
    /\ queue' = queue \ {c} /\ stored' = stored \ {c}
    /\ Watch(rows, stored \ {c})
    /\ UNCHANGED <<db, rows, pending, writes, rot, data, hint, dropped, outages, faults>>

\* A copy's bytes change on its backend.
Rot ==
  \E c \in stored \ rot :
    /\ Cardinality(rot) < MaxRot
    /\ rot' = rot \cup {c}
    /\ UNCHANGED <<db, rows, disk, data, hint, rd, dropped, outages, faults>>

\* The database breaker opens, and closes once the database answers again.
Outage ==
  /\ db = "up" => outages < MaxOutages
  /\ db' = IF db = "up" THEN "down" ELSE "up"
  /\ outages' = IF db = "up" THEN outages + 1 ELSE outages
  /\ UNCHANGED <<rows, disk, rot, data, hint, rd, dropped, faults>>

-----------------------------------------------------------------------------
(* A GET.                                                                  *)

Sets(r, f) == rd' = [rd EXCEPT ![r] = f]

Others == <<db, rows, disk, rot, dropped, outages>>

\* GetAllObjectLocations, before anything else is consulted.  A key without
\* copies is answered as not found, and an outage with degraded reads off as
\* unavailable: neither changes anything.
Lookup(r, ranged) ==
  /\ rd[r].pc = "idle"
  /\ \/ /\ db = "up" /\ rows # {}
        /\ Sets(r, [Idle EXCEPT !.pc = "cache", !.ranged = ranged, !.seen = {Current(rows)},
                                !.locs = rows, !.left = rows])
     \/ /\ db = "down" /\ DegradedReads
        /\ Sets(r, [Idle EXCEPT !.pc = "hint", !.degraded = TRUE, !.left = Backends,
                                !.held = {b \in Backends : Holds(b) # {}}])
     \/ /\ IF db = "up" THEN rows = {} ELSE ~DegradedReads
        /\ UNCHANGED rd
  /\ UNCHANGED <<Others, data, hint, faults>>

\* The entries under the path of one of the copies the read was told of.
Hits(r) == {i \in DOMAIN cache : \E c \in rd[r].locs : cache[i].path = StoragePath(c)}

\* Each copy's path is looked up; a hit moves its entry to the front and is
\* served as it is.
tryGetObjectCache(r) ==
  /\ rd[r].pc = "cache"
  /\ \/ /\ rd[r].ranged \/ Hits(r) = {}
        /\ Sets(r, [rd[r] EXCEPT !.pc = "probe"])
        /\ UNCHANGED data
     \/ /\ ~rd[r].ranged
        /\ \E i \in Hits(r) :
             /\ cache' = <<cache[i]>> \o RemoveAt(cache, i)
             /\ Sets(r, [rd[r] EXCEPT !.pc = "hit", !.left = {}, !.from = cache[i].of,
                                      !.intact = cache[i].intact])
        /\ UNCHANGED sizeBytes
  /\ UNCHANGED <<Others, hint, faults>>

\* A copy that cannot be read, or whose backend is over its limits.
Skip(r, x) ==
  /\ faults < MaxFaults
  /\ faults' = faults + 1
  /\ Sets(r, [rd[r] EXCEPT !.left = @ \ {x}, !.failed = @ \cup {x}])

Missing(r, x) ==
  /\ Sets(r, [rd[r] EXCEPT !.left = @ \ {x}])
  /\ UNCHANGED faults

Streams(r, c) ==
  /\ Sets(r, [rd[r] EXCEPT !.pc = "stream", !.from = c, !.intact = c \notin rot,
                           !.locs = {}, !.left = {}, !.held = {}, !.failed = {}])
  /\ UNCHANGED faults

\* One location of the failover walk.
Attempt(r) ==
  /\ rd[r].pc = "probe"
  /\ \E c \in rd[r].left :
       \/ Skip(r, c)
       \/ c \notin stored /\ Missing(r, c)
       \/ c \in stored /\ Streams(r, c)
  /\ UNCHANGED <<Others, data, hint>>

Exhausted(r) == rd[r].left = {}

tryEachLocation(r) ==
  \/ Attempt(r)
  \/ /\ rd[r].pc = "probe" /\ Exhausted(r)
     /\ Sets(r, [rd[r] EXCEPT !.pc = "failed"])
     /\ UNCHANGED <<Others, data, hint, faults>>

\* The newest copy a backend lists is the one a degraded read serves.
newestCopy(b) == CHOOSE c \in Holds(b) : \A d \in Holds(b) : d.write <= c.write

\* The backend the location cache names is asked first; whatever it answers but
\* a success, the broadcast follows.
broadcastRead(r) ==
  /\ rd[r].pc = "hint"
  /\ \/ /\ hint # None /\ Holds(hint) # {}
        /\ Streams(r, newestCopy(hint))
     \/ /\ hint = None \/ Holds(hint) = {}
        /\ Sets(r, [rd[r] EXCEPT !.pc = "broadcast"])
        /\ UNCHANGED faults
     \/ /\ hint # None /\ faults < MaxFaults
        /\ faults' = faults + 1
        /\ Sets(r, [rd[r] EXCEPT !.pc = "broadcast"])
  /\ UNCHANGED <<Others, data, hint>>

\* The broadcast: the winner is remembered for the next degraded read.
tryAllBackends(r) ==
  /\ rd[r].pc = "broadcast"
  /\ \/ \E b \in rd[r].left :
          \/ Skip(r, b) /\ UNCHANGED hint
          \/ Holds(b) = {} /\ Missing(r, b) /\ UNCHANGED hint
          \/ Holds(b) # {} /\ Streams(r, newestCopy(b)) /\ hint' = b
     \/ /\ rd[r].left = {}
        /\ Sets(r, [rd[r] EXCEPT !.pc = "failed"])
        /\ UNCHANGED <<hint, faults>>
  /\ UNCHANGED <<Others, data>>


\* The client disconnects, the backend times out, or a short body ends the read:
\* neither tee runs.
Abandon(r) ==
  /\ rd[r].pc = "stream"
  /\ Sets(r, Idle)
  /\ UNCHANGED <<Others, data, hint, faults>>

\* The last byte: the body is hashed when the read was whole and a row says what
\* the hash should be.
Complete(r) ==
  /\ rd[r].pc = "stream"
  /\ Sets(r, IF rd[r].ranged \/ rd[r].degraded THEN Idle
             ELSE [Idle EXCEPT !.pc = IF VerifyOnRead /\ ~rd[r].intact THEN "mismatch" ELSE "fill",
                               !.from = rd[r].from, !.intact = rd[r].intact])
  /\ UNCHANGED <<Others, data, hint, faults>>

\* DropCopy: the row of the copy that was read, if it is still there, and its
\* bytes queued with it; a store that does not answer leaves both.
dropCorruptedLocation(r) ==
  LET c == rd[r].from
      drops == db = "up" /\ c \in rows
      left == IF drops THEN rows \ {c} ELSE rows
  IN /\ rd[r].pc = "mismatch"
     /\ rows' = left
     /\ queue' = IF drops THEN queue \cup {c} ELSE queue
     /\ hint' = IF drops THEN None ELSE hint
     /\ dropped' = IF drops THEN dropped \cup {c} ELSE dropped
     /\ rd' = [q \in Readers |-> IF q = r THEN [rd[r] EXCEPT !.pc = "fill"]
                                 ELSE Watched(rd[q], left, stored)]
     /\ UNCHANGED <<db, pending, stored, writes, rot, data, outages, faults>>

\* The cache's tee wraps the verifying one, so it completes after it.
populateObjectCache(r) ==
  /\ rd[r].pc = "fill"
  /\ IF Admit(Size[rd[r].from.write])
     THEN PutBytes(Entry(rd[r].from, rd[r].intact))
     ELSE UNCHANGED data
  /\ Sets(r, Idle)
  /\ UNCHANGED <<Others, hint, faults>>

\* The response has been sent, from the cache or as an error.
Return(r) ==
  /\ rd[r].pc \in {"failed", "hit"}
  /\ Sets(r, Idle)
  /\ UNCHANGED <<Others, data, hint, faults>>

ReadStep(r) ==
  \/ \E ranged \in BOOLEAN : Lookup(r, ranged)
  \/ tryGetObjectCache(r)
  \/ tryEachLocation(r)
  \/ broadcastRead(r)
  \/ tryAllBackends(r)
  \/ Abandon(r)
  \/ Complete(r)
  \/ dropCorruptedLocation(r)
  \/ populateObjectCache(r)
  \/ Return(r)

Next ==
  \/ \E r \in Readers : ReadStep(r)
  \/ \E bs \in SUBSET Backends : Upload(bs)
  \/ Commit \/ Discard \/ DeleteObject \/ Clean
  \/ Rot \/ Outage
  \/ Expire \/ Clear

Spec == Init /\ [][Next]_vars

-----------------------------------------------------------------------------
(* What is checked.                                                        *)

TypeOK ==
  /\ db \in {"up", "down"}
  /\ rows \subseteq Copies /\ pending \subseteq Copies /\ stored \subseteq Copies
  /\ queue \subseteq Copies /\ rot \subseteq Copies /\ dropped \subseteq Copies
  /\ writes \in 0..Len(Size)
  /\ sizeBytes \in Nat
  /\ hint \in Backends \cup {None}
  /\ outages \in 0..MaxOutages /\ faults \in 0..MaxFaults

\* A read the database answered serves the bytes of a write that was the
\* object's current version at some moment of the read, whether a backend or the
\* data cache served it (tryGetObjectCache: "a hit is always the current version
\* without any invalidation").
ServesCurrent ==
  \A r \in Readers :
    rd[r].pc \in {"hit", "stream"} /\ ~rd[r].degraded => rd[r].from.write \in rd[r].seen

\* A read fails only when every copy it looked up had failed it or was gone:
\* one bad copy costs a retry, not the request (tryEachLocation).
FailsOnlyWithoutCopies ==
  \A r \in Readers :
    rd[r].pc = "failed" /\ ~rd[r].degraded => rd[r].locs \cap stored \subseteq rd[r].failed

\* A degraded read fails only when no backend both answered it and held a copy
\* from its start to its end, whatever the location cache remembered
\* (broadcastRead falls through from the remembered backend to the others).
BroadcastFinds ==
  \A r \in Readers :
    rd[r].pc = "failed" /\ rd[r].degraded => rd[r].held \subseteq rd[r].failed

\* A verified read removes only copies whose bytes really changed: a download
\* cut short, or a copy replaced in the meantime, drops nothing
\* (maybeWrapIntegrityReader, dropCorruptedLocation).
DropsOnlyCorrupt == dropped \subseteq rot

\* The cache holds one entry for a path, accounts for exactly the bytes of its
\* entries and stays within max_size, however the fills of concurrent reads of
\* one path interleave (PutBytes).
CacheAccounted ==
  /\ sizeBytes = TotalSize(cache) /\ sizeBytes <= MaxSize
  /\ \A i, j \in DOMAIN cache : cache[i].path = cache[j].path => i = j

\* With verification on, no entry a lookup can reach holds corrupt bytes ("an
\* entry stays correct for as long as it is cached").
CachedIsIntact ==
  VerifyOnRead =>
    \A i \in DOMAIN cache : cache[i].intact \/ \A c \in rows : StoragePath(c) # cache[i].path

=============================================================================
