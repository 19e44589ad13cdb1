----------------------------- MODULE CopyUpkeep -----------------------------
(***************************************************************************)
(* The workers that look after the copies of an object (worker/): the      *)
(* scrubber, which reads copies back, stamps them, records the hashes they *)
(* lack and discards the ones that fail; the replicator, which adds copies *)
(* where there are too few; and the over-replication cleaner, which removes*)
(* them where there are too many.  They run while clients write, delete    *)
(* and tag, while imports add copies and while backends lose or damage     *)
(* bytes.                                                                  *)
(*                                                                         *)
(* A write stands for its content: its digest and its ETag are its number, *)
(* and those of its damaged bytes are the negated number.  0 is NULL.      *)
(* last_scrubbed_at and created_at are kept only as an order, `queue', and *)
(* as how much of it has passed the re-verification floor, `due'.          *)
(***************************************************************************)
EXTENDS Integers, Sequences, FiniteSets, SequencesExt

CONSTANTS Keys, Backends,
          Factor,        \* replication.factor
          BatchSize,     \* copies of one scrub
          MaxWrites,     \* write numbers per key
          Endless,       \* clients never stop: write numbers are used again
          Initial,       \* the sets of rows the ledger may start with
          Workers,       \* the passes that run
          Events,        \* what clients and backends do
          MaxFaults      \* damaged and lost copies

Stray == MaxWrites + 1   \* the write an import finds on a backend
Copies == Keys \X Backends

\* object_locations: the write whose path the copy is at, how it is stored,
\* content_hash and etag.  A keyless envelope is imported as unmanaged.
Row(c, w, form, digest, etag) ==
  [at |-> c, write |-> w, form |-> form, digest |-> digest, etag |-> etag]

VARIABLES
  rows,      \* the ledger's copies
  bytes,     \* what a recorded copy's path holds: "good", "rotten" or "gone"
  queue,     \* the copies, least recently written or scrubbed first
  due,       \* how many of them are older than the re-verification floor
  intents,   \* the copies a replica is being made for
  last,      \* the newest write of each key
  tags,      \* the write whose tags the key carries, 0 for none
  down,      \* backends that have refused reads past unhealthy_threshold
  cordoned,  \* backends that take no new copies
  spent,     \* backends without headroom for a scrub
  scrub, repl, clean,  \* the passes under way
  faults

ledger == <<rows, queue, due, intents, tags>>
passes == <<scrub, repl, clean>>
backends == <<down, cordoned, spent>>
vars == <<rows, bytes, queue, due, intents, last, tags, backends, passes, faults>>

NoScrub == [kind |-> "none", todo |-> <<>>, step |-> "next", read |-> "none"]
NoRepl == [step |-> "idle", key |-> 0, copies |-> {}, needed |-> 0, made |-> 0,
           tried |-> {}, attempts |-> 0, target |-> 0, left |-> {}, source |-> {}, got |-> "gone"]
NoClean == [key |-> 0, victims |-> <<>>]

Managed(r) == r.form # "keyless"
RowsOf(k) == {r \in rows : r.at[1] = k}
RowAt(c) == {r \in rows : r.at = c}
ReadsOn(r) == r.at[2] \notin down

Init ==
  /\ rows \in Initial
  /\ queue \in {q \in [1..Cardinality(rows) -> {r.at : r \in rows}] :
                  {q[i] : i \in DOMAIN q} = {r.at : r \in rows}}
  /\ due \in {0, Len(queue)}
  /\ bytes = [c \in Copies |-> IF RowAt(c) = {} THEN "gone" ELSE "good"]
  /\ intents = {}
  /\ last = [k \in Keys |-> IF RowsOf(k) = {} THEN 0 ELSE 1]
  /\ tags = [k \in Keys |-> 0]
  /\ down = {} /\ cordoned = {} /\ spent = {}
  /\ scrub = NoScrub /\ repl = NoRepl /\ clean = NoClean
  /\ faults = 0

-----------------------------------------------------------------------------
(* Rows, tags and the order the scrubber reads them in *)

Without(q, cs) == SelectSeq(q, LAMBDA c : c \notin cs)
DueWithout(cs) == Cardinality({i \in 1..due : queue[i] \notin cs})

\* Removes rows; the last copy of a key takes its tags with it.
RemoveRows(rs) ==
  LET cs == {r.at : r \in rs} IN
  /\ rows' = rows \ rs
  /\ queue' = Without(queue, cs) /\ due' = DueWithout(cs)
  /\ bytes' = [c \in Copies |-> IF c \in cs THEN "gone" ELSE bytes[c]]
  /\ tags' = [k \in Keys |-> IF rows' \cap RowsOf(k) = {} THEN 0 ELSE tags[k]]

\* A row touched now goes to the back of the order, below the floor.
Touch(c) ==
  /\ queue' = Append(Without(queue, {c}), c)
  /\ due' = DueWithout({c})

HasRoomForWrite(k) == Endless \/ last[k] < MaxWrites
NextWrite(k) == IF last[k] < MaxWrites THEN last[k] + 1 ELSE 1

-----------------------------------------------------------------------------
(* Clients, imports and backends *)

\* A committed write replaces every copy, intent and tag of its key.
RecordObject(k, on, tagged) ==
  /\ "write" \in Events /\ HasRoomForWrite(k)
  /\ LET w == NextWrite(k)
         new == {Row(<<k, b>>, w, "keyed", w, w) : b \in on}
         old == {<<k, b>> : b \in Backends}
     IN /\ rows' = (rows \ RowsOf(k)) \cup new
        /\ queue' = Without(queue, old) \o SetToSeq({r.at : r \in new})
        /\ due' = DueWithout(old)
        /\ bytes' = [c \in Copies |-> IF c[1] # k THEN bytes[c]
                                      ELSE IF c[2] \in on THEN "good" ELSE "gone"]
        /\ last' = [last EXCEPT ![k] = w]
        /\ tags' = [tags EXCEPT ![k] = IF tagged THEN w ELSE 0]
  /\ intents' = {i \in intents : i[1] # k}
  /\ UNCHANGED <<backends, passes, faults>>

DeleteObject(k) ==
  /\ "delete" \in Events /\ RowsOf(k) # {}
  /\ RemoveRows(RowsOf(k))
  /\ intents' = {i \in intents : i[1] # k}
  /\ UNCHANGED <<last, backends, passes, faults>>

\* ReplaceObjectTags: refused for a key with no copy.
ReplaceObjectTags(k, tagged) ==
  /\ "tag" \in Events /\ RowsOf(k) # {}
  /\ tags' = [tags EXCEPT ![k] = IF tagged THEN last[k] ELSE 0]
  /\ UNCHANGED <<rows, bytes, queue, due, intents, last, backends, passes, faults>>

\* ImportObject: bytes found at the key's own path, as plain or as an envelope
\* no key opens, with no identity and the backend's old modification time.
ImportObject(c, form) ==
  /\ "import" \in Events /\ RowAt(c) = {} /\ c \notin intents
  /\ rows' = rows \cup {Row(c, Stray, form, 0, 0)}
  /\ queue' = <<c>> \o queue
  /\ \E n \in {0, 1} : due' = IF n = 0 /\ due = 0 THEN 0 ELSE due + 1
  /\ bytes' = [bytes EXCEPT ![c] = "good"]
  /\ UNCHANGED <<intents, last, tags, backends, passes, faults>>

Damage(c, how) ==
  /\ how \in Events /\ faults < MaxFaults
  /\ RowAt(c) # {} /\ bytes[c] = "good"
  /\ bytes' = [bytes EXCEPT ![c] = how]
  /\ faults' = faults + 1
  /\ UNCHANGED <<ledger, last, backends, passes>>

RefuseReads(b) ==
  /\ "down" \in Events /\ down = {}
  /\ down' = {b}
  /\ UNCHANGED <<ledger, bytes, last, cordoned, spent, passes, faults>>

Cordon(b) ==
  /\ "cordon" \in Events /\ cordoned = {}
  /\ cordoned' = {b}
  /\ UNCHANGED <<ledger, bytes, last, down, spent, passes, faults>>

SpendEgress(b) ==
  /\ "spend" \in Events
  /\ spent' = (spent \ {b}) \cup ({b} \ spent)
  /\ UNCHANGED <<ledger, bytes, last, down, cordoned, passes, faults>>

\* Time passes: one more copy is older than the re-verification floor.
Age ==
  /\ due < Len(queue)
  /\ due' = due + 1
  /\ UNCHANGED <<rows, bytes, queue, intents, last, tags, backends, passes, faults>>

-----------------------------------------------------------------------------
(* Reading a copy back *)

DigestOf(r, held) == IF held = "good" THEN r.write ELSE -r.write

\* What the path of a row read earlier holds now: its copy's bytes, or, once
\* the row is replaced or gone, whatever the cleanup has left of them.
Held(r) == IF \E s \in rows : s.at = r.at /\ s.write = r.write
           THEN {bytes[r.at]} ELSE {"good", "gone"}

\* storedHasher.verify: a row with no hash is not checked, a backend past its
\* limit is not read, and a keyless or missing copy cannot be.
Outcome(r, held) ==
  IF r.digest = 0 THEN "not_hashed"
  ELSE IF r.at[2] \in spent THEN "declined"
  ELSE IF held = "gone" \/ ~Managed(r) \/ ~ReadsOn(r) THEN "unreadable"
  ELSE IF DigestOf(r, held) = r.digest THEN "verified" ELSE "mismatch"

\* UpdateCopyMetadata matches the row's storage_key as well.
StillThere(r) == \E s \in rows : s.at = r.at /\ s.write = r.write

RowNow(r) == CHOOSE s \in rows : s.at = r.at

\* removableCopy: only the copy that was read, only while more than
\* keepAtLeast are left, and never the one copy that holds the key.
LastDecryptable(k, r) ==
  LET keyed == {s \in RowsOf(k) : s.form = "keyed"}
  IN Cardinality(keyed) = 1 /\ RowNow(r) \in keyed /\ keyed # RowsOf(k)


removableCopy(r, keep) ==
  /\ StillThere(r)
  /\ keep > 0 => /\ Cardinality(RowsOf(r.at[1])) > keep
                 /\ ~LastDecryptable(r.at[1], r)

DeleteObjectLocation(r, keep) ==
  IF removableCopy(r, keep) THEN RemoveRows({RowNow(r)})
  ELSE UNCHANGED <<rows, queue, due, bytes, tags>>

-----------------------------------------------------------------------------
(* The scrubber *)

Page(sel, n) == SubSeq(sel, 1, IF Len(sel) < n THEN Len(sel) ELSE n)
RowsAlong(cs) == [i \in DOMAIN cs |-> CHOOSE r \in rows : r.at = cs[i]]

\* GetLeastRecentlyScrubbedObjects on the backends that can be afforded.
ScrubQueue ==
  SelectSeq(SubSeq(queue, 1, due),
            LAMBDA c : /\ c[2] \notin spent
                       /\ \E r \in RowAt(c) : r.digest # 0 /\ Managed(r))

Start(kind, cs) ==
  /\ scrub = NoScrub /\ kind \in Workers /\ cs # <<>>
  /\ scrub' = [NoScrub EXCEPT !.kind = kind, !.todo = RowsAlong(cs)]
  /\ UNCHANGED <<ledger, bytes, last, backends, repl, clean, faults>>

Scrub == Start("scrub", Page(ScrubQueue, BatchSize))

\* ScrubKey takes every copy of one key, whatever its age.
ScrubKey(k) == Start("key", SelectSeq(queue, LAMBDA c : c[1] = k))

\* ListCopiesByForm for the backfill and for the purge; one page each.
Unhashed == {r \in rows : r.digest = 0 /\ Managed(r)}
Unreadable == {r \in rows : r.form = "keyless"}
Backfill == Start("backfill", SetToSeq({r.at : r \in Unhashed}))
PurgeUnreadable == Start("purge", SetToSeq({r.at : r \in Unreadable}))

Item == Head(scrub.todo)
Finished == IF Len(scrub.todo) = 1 THEN NoScrub
            ELSE [scrub EXCEPT !.todo = Tail(@), !.step = "next", !.read = "none"]
ScrubAt(step, kinds) == scrub.kind \in kinds /\ scrub.step = step

\* The read of one copy.  One not hashed or declined is not stamped.
VerifyItem ==
  /\ ScrubAt("next", {"scrub", "key"})
  /\ \E held \in Held(Item) :
       LET out == Outcome(Item, held) IN
       scrub' = IF out \in {"not_hashed", "declined"} THEN Finished
                ELSE [scrub EXCEPT !.step = "stamp", !.read = out]
  /\ UNCHANGED <<ledger, bytes, last, backends, repl, clean, faults>>

AfterStamp == IF scrub.read = "mismatch" THEN [scrub EXCEPT !.step = "discard"] ELSE Finished

\* Stamped whatever the read found.
Stamp ==
  /\ ScrubAt("stamp", {"scrub", "key"})
  /\ IF StillThere(Item) THEN Touch(Item.at) ELSE UNCHANGED <<queue, due>>
  /\ scrub' = AfterStamp
  /\ UNCHANGED <<rows, bytes, intents, last, tags, backends, repl, clean, faults>>

\* discardCopy, after a mismatch or for an unreadable copy: keepAtLeast is 0.
DiscardCopy ==
  /\ \/ ScrubAt("discard", {"scrub", "key"})
     \/ ScrubAt("next", {"purge"})
  /\ DeleteObjectLocation(Item, 0)
  /\ scrub' = Finished
  /\ UNCHANGED <<intents, last, backends, repl, clean, faults>>

\* hashOne: the digest of what was read, or nothing where it cannot be.
HashItem ==
  /\ ScrubAt("next", {"backfill"})
  /\ \E held \in Held(Item) :
       scrub' = IF held = "gone" \/ ~ReadsOn(Item) THEN Finished
                ELSE [scrub EXCEPT !.step = "store", !.read = held]
  /\ UNCHANGED <<ledger, bytes, last, backends, repl, clean, faults>>

\* UpdateCopyMetadata with the hash and the stamp in one write.
StoreHash ==
  /\ ScrubAt("store", {"backfill"})
  /\ IF StillThere(Item)
     THEN /\ rows' = (rows \ RowAt(Item.at))
                     \cup {[RowNow(Item) EXCEPT !.digest = DigestOf(Item, scrub.read)]}
          /\ Touch(Item.at)
          /\ scrub' = [scrub EXCEPT !.step = "etag"]
     ELSE scrub' = Finished /\ UNCHANGED <<rows, queue, due>>
  /\ UNCHANGED <<bytes, intents, last, tags, backends, repl, clean, faults>>

\* RecordObjectIdentity: fills the NULL ETag of every copy of the key, while
\* the copy that was read is still recorded.
RecordETag ==
  /\ ScrubAt("etag", {"backfill"})
  /\ rows' = IF StillThere(Item)
             THEN {IF r.at[1] = Item.at[1] /\ r.etag = 0
                   THEN [r EXCEPT !.etag = DigestOf(Item, scrub.read)] ELSE r : r \in rows}
             ELSE rows
  /\ scrub' = Finished
  /\ UNCHANGED <<queue, due, bytes, intents, last, tags, backends, repl, clean, faults>>

-----------------------------------------------------------------------------
(* The replicator *)

\* GetUnderReplicatedObjects: the copies on backends that count, and every
\* intent, are fewer than the factor.
Counted(k) == {r \in RowsOf(k) : Managed(r) /\ ReadsOn(r)}
UnderReplicated(k) ==
  /\ Counted(k) # {}
  /\ Cardinality(Counted(k)) + Cardinality({i \in intents : i[1] = k}) < Factor

\* planCopySets takes the number missing from all the key's rows.
ShortBy(k) == Factor - Cardinality(RowsOf(k))

Replicate(k) ==
  /\ "replicate" \in Workers /\ repl = NoRepl
  /\ UnderReplicated(k) /\ ShortBy(k) > 0
  /\ repl' = [NoRepl EXCEPT !.step = "claim", !.key = k, !.copies = RowsOf(k),
                            !.needed = ShortBy(k), !.tried = {r.at[2] : r \in RowsOf(k)}]
  /\ UNCHANGED <<ledger, bytes, last, backends, scrub, clean, faults>>

Sources == LET serving == {r \in repl.copies : ReadsOn(r)}
           IN IF serving = {} THEN repl.copies ELSE serving

Continue(next) == IF next.made < next.needed /\ next.attempts < next.needed + Cardinality(Backends)
                  THEN [next EXCEPT !.step = "claim", !.target = 0, !.left = {}, !.source = {}, !.got = "gone"]
                  ELSE NoRepl

\* RankReplicaTargets leaves out backends that serve no reads or take no
\* copies.  Every attempt rules its target out of the next.
ClaimReplicaTarget ==
  /\ repl.step = "claim"
  /\ LET targets == Backends \ (repl.tried \cup down \cup cordoned) IN
     \/ /\ targets = {}
        /\ repl' = NoRepl /\ UNCHANGED intents
     \/ \E b \in targets :
          /\ intents' = intents \cup {<<repl.key, b>>}
          /\ repl' = [repl EXCEPT !.step = "copy", !.target = b, !.attempts = @ + 1,
                                  !.tried = @ \cup {b}, !.left = Sources]
  /\ UNCHANGED <<rows, queue, due, tags, bytes, last, backends, scrub, clean, faults>>

\* CopyFromAny tries one source after another; one whose bytes are missing
\* loses its row.
CopyToReplica ==
  /\ repl.step = "copy" /\ repl.left # {}
  /\ \E src \in repl.left, held \in {"good", "rotten", "gone"} :
       /\ held \in Held(src)
       /\ IF held = "gone" \/ ~ReadsOn(src)
          THEN /\ repl' = [repl EXCEPT !.left = @ \ {src}]
               /\ IF ReadsOn(src) THEN DeleteObjectLocation(src, 0)
                  ELSE UNCHANGED <<rows, queue, due, bytes, tags>>
          ELSE /\ repl' = [repl EXCEPT !.step = "verify", !.source = {src}, !.got = held, !.left = {}]
               /\ UNCHANGED <<rows, queue, due, bytes, tags>>
  /\ UNCHANGED <<intents, last, backends, scrub, clean, faults>>

\* No source answered: the intent is discarded.
CopyFailed ==
  /\ repl.step = "copy" /\ repl.left = {}
  /\ intents' = intents \ {<<repl.key, repl.target>>}
  /\ repl' = Continue(repl)
  /\ UNCHANGED <<rows, queue, due, tags, bytes, last, backends, scrub, clean, faults>>

Source == CHOOSE r \in repl.source : TRUE

\* Only a disagreeing digest rejects the copy: its intent is discarded.
AdmitVerifiedReplica ==
  /\ repl.step = "verify"
  /\ IF Source.digest # 0 /\ DigestOf(Source, repl.got) # Source.digest /\ repl.target \notin spent
     THEN intents' = intents \ {<<repl.key, repl.target>>} /\ repl' = Continue(repl)
     ELSE repl' = [repl EXCEPT !.step = "place"] /\ UNCHANGED intents
  /\ UNCHANGED <<rows, queue, due, tags, bytes, last, backends, scrub, clean, faults>>

\* PlaceCopy: the intent and the source must still stand and the target hold
\* no copy.  The new row repeats its source's times, so it sorts no later.
PlaceCopy ==
  /\ repl.step = "place"
  /\ LET c == <<repl.key, repl.target>> IN
     /\ intents' = intents \ {c}
     /\ IF c \in intents /\ StillThere(Source) /\ RowAt(c) = {}
        THEN /\ rows' = rows \cup {[RowNow(Source) EXCEPT !.at = c]}
             /\ bytes' = [bytes EXCEPT ![c] = repl.got]
             /\ LET i == CHOOSE j \in DOMAIN queue : queue[j] = Source.at IN
                /\ queue' = SubSeq(queue, 1, i) \o <<c>> \o SubSeq(queue, i + 1, Len(queue))
                /\ due' = IF i <= due THEN due + 1 ELSE due
             /\ repl' = Continue([repl EXCEPT !.made = @ + 1])
        ELSE UNCHANGED <<rows, bytes, queue, due>> /\ repl' = Continue(repl)
  /\ UNCHANGED <<last, tags, backends, scrub, clean, faults>>

-----------------------------------------------------------------------------
(* The over-replication cleaner *)

Score(r) == IF r.at[2] \in cordoned THEN 0 ELSE IF ~ReadsOn(r) THEN 1 ELSE 2

OverReplicated(k) == Cardinality({r \in RowsOf(k) : Managed(r)}) > Factor
OverBy(k) == Cardinality(RowsOf(k)) - Factor

\* Utilization, which ranks the healthy copies, is left open.
Clean(k) ==
  /\ "clean" \in Workers /\ clean = NoClean
  /\ OverReplicated(k)
  /\ \E ranked \in [1..Cardinality(RowsOf(k)) -> RowsOf(k)] :
       /\ {ranked[i] : i \in DOMAIN ranked} = RowsOf(k)
       /\ \A i, j \in DOMAIN ranked : i < j => Score(ranked[i]) <= Score(ranked[j])
       /\ clean' = [key |-> k, victims |-> SubSeq(ranked, 1, OverBy(k))]
  /\ UNCHANGED <<ledger, bytes, last, backends, scrub, repl, faults>>

CleanObject ==
  /\ clean # NoClean
  /\ DeleteObjectLocation(Head(clean.victims), Factor)
  /\ clean' = IF Len(clean.victims) = 1 THEN NoClean ELSE [clean EXCEPT !.victims = Tail(@)]
  /\ UNCHANGED <<intents, last, backends, scrub, repl, faults>>

-----------------------------------------------------------------------------
ClientStep ==
  \/ \E k \in Keys, on \in SUBSET Backends \ {{}}, tagged \in BOOLEAN :
       /\ Cardinality(on) <= Factor /\ (tagged => "tag" \in Events)
       /\ RecordObject(k, on, tagged)
  \/ \E k \in Keys : DeleteObject(k)
  \/ \E k \in Keys, tagged \in BOOLEAN : ReplaceObjectTags(k, tagged)

BackendStep ==
  \/ \E c \in Copies, form \in {"plain", "keyless"} : ImportObject(c, form)
  \/ \E c \in Copies, how \in {"rotten", "gone"} : Damage(c, how)
  \/ \E b \in Backends : RefuseReads(b) \/ Cordon(b) \/ SpendEgress(b)

ScrubStart == Scrub \/ (\E k \in Keys : ScrubKey(k)) \/ Backfill \/ PurgeUnreadable
ScrubStep == VerifyItem \/ Stamp \/ DiscardCopy \/ HashItem \/ StoreHash \/ RecordETag
ReplStep == ClaimReplicaTarget \/ CopyToReplica \/ CopyFailed \/ AdmitVerifiedReplica \/ PlaceCopy

Next ==
  \/ ClientStep \/ BackendStep \/ Age
  \/ ScrubStart \/ ScrubStep
  \/ (\E k \in Keys : Replicate(k)) \/ ReplStep
  \/ (\E k \in Keys : Clean(k)) \/ CleanObject

Spec == Init /\ [][Next]_vars

-----------------------------------------------------------------------------
Numbers == -Stray..Stray

\* One row per key and backend, and the order names exactly the rows.
TypeOK ==
  /\ \A r \in rows : /\ r.at \in Copies /\ r.write \in 1..Stray
                     /\ r.form \in {"plain", "keyed", "keyless"}
                     /\ r.digest \in Numbers /\ r.etag \in Numbers
                     /\ RowAt(r.at) = {r}
  /\ {queue[i] : i \in DOMAIN queue} = {r.at : r \in rows}
  /\ Len(queue) = Cardinality(rows) /\ due \in 0..Len(queue)
  /\ intents \subseteq Copies
  /\ repl.step # "idle" => repl.key \in Keys

\* A hash recorded for a copy was computed over the bytes at that copy's own
\* path: a backfill that finishes late never describes a newer write
\* (UpdateCopyMetadata).
HashOfOwnWrite == \A r \in rows : r.digest \in {0, r.write, -r.write}

\* Tags belong to the newest write of a key that still has a copy: no discard,
\* prune, clean-up or overwrite leaves a tag for the next object to inherit
\* (clearTagsForKey).
TagsOfObject == \A k \in Keys : tags[k] # 0 => tags[k] = last[k] /\ RowsOf(k) # {}

\* The scrubber and its purge remove only copies that failed: the bytes did
\* not match the recorded hash, or nothing can open them (discardCopy).
DiscardsOnlyBad ==
  DiscardCopy => \A r \in rows \ rows' :
        r.form = "keyless" \/ r.digest # DigestOf(r, bytes[r.at])

\* The cleaner leaves the factor's number of copies, among them one that can
\* decrypt the object if there was one, whatever else removed copies since it
\* planned (removableCopy).
CleanKeeps ==
  CleanObject /\ rows' # rows =>
       LET k == clean.key
           keyed(R) == {r \in R : r.at[1] = k /\ r.form = "keyed"}
       IN /\ Cardinality({r \in rows' : r.at[1] = k}) >= Factor
          /\ keyed(rows) # {} => keyed(rows') # {}

\* A copy the scrubber can read and that is past the floor is stamped, whatever
\* keeps failing ahead of it and however fast clients write (checkCopy).
ScrubDue == {c \in {queue[i] : i \in 1..due} :
               /\ c[2] \notin spent
               /\ \E r \in RowAt(c) : r.digest # 0 /\ Managed(r)}
Swept == \A c \in Copies : c \in ScrubDue ~> c \notin ScrubDue

\* Damaged and missing copies are found and rebuilt: in the end every object
\* that survives has the factor's number of good copies on backends serving
\* reads (scrubber, replicator and cleaner together).
Good(k) == {r \in RowsOf(k) : bytes[r.at] = "good" /\ ReadsOn(r)}
Heals == \A k \in Keys : <>[](RowsOf(k) = {} \/ Cardinality(Good(k)) >= Factor)
=============================================================================
