---------------------------- MODULE BulkRewrite ----------------------------
(***************************************************************************)
(* The fleet-wide passes over stored copies: encrypt-, decrypt-, compress- *)
(* and decompress-existing (internal/ops/bulkrewrite.go over               *)
(* internal/storedform) and key rotation (internal/ops/encryption.go),     *)
(* while clients overwrite objects and the rebalancer moves copies.        *)
(*                                                                         *)
(* A copy is a row and the bytes at the path the row names.  Bytes never   *)
(* change once written, so a row carries its bytes: whose write they hold, *)
(* whether all of it is there, and the layers really around them.  The     *)
(* row's form is what the row says of those layers.  Paths and data keys   *)
(* are identifiers minted fresh.                                           *)
(***************************************************************************)
EXTENDS Integers, Sequences, SequencesExt, FiniteSets, FiniteSetsExt

CONSTANTS
    Keys, Backends,   \* numbers, ordered as the listing orders them
    Ids,              \* path and data key identifiers
    Incompressible,   \* keys whose encodings miss the ratio
    FirstRows,        \* the copies a behaviour may start from
    NewWrite,         \* layers a client's write is stored with: [comp, enc]
    Ops, Caps,        \* passes run, and their max_rewrites
    Repeats,          \* is a finished pass run again
    BatchSize,        \* rows per page
    Rotates,          \* is key rotation run
    Torn,             \* may a source's body be cut short
    MaxWrites, MaxMoves, MaxFails

BulkAssumption == Keys \subseteq Nat /\ Backends \subseteq Nat /\ 0 \notin Ids

VARIABLES
    rows,    \* rows[k, b]: the copy of k on b, or None
    latest,  \* the number of the last write of each key
    pass,    \* the rewrite pass
    rot,     \* the rotation pass
    mover,   \* a verbatim move or replication under way
    left     \* faults and interferences still allowed

vars == <<rows, latest, pass, rot, mover, left>>

Places == Keys \X Backends
None == [path |-> 0]
Plain == [comp |-> FALSE, dek |-> 0, kid |-> "none"]

\* A row that was written with its bytes and describes them.
RowOf(path, form, w) ==
    [path |-> path, form |-> form, probe |-> 0,
     bytes |-> [w |-> w, whole |-> TRUE, comp |-> form.comp, dek |-> form.dek]]

Present == { at \in Places : rows[at] # None }

----------------------------------------------------------------------------
(* Identifiers in use anywhere, so that a fresh one is nobody's.           *)

IdsOf(r) == IF r = None THEN {} ELSE {r.path, r.form.dek, r.bytes.dek}

InUse ==
    UNION { IdsOf(rows[at]) : at \in Places }
      \cup UNION { IdsOf(pass.page[i].row) : i \in DOMAIN pass.page }
      \cup UNION { IdsOf(rot.page[i].row) : i \in DOMAIN rot.page }
      \cup IdsOf(pass.out) \cup IdsOf(mover.row)
      \cup pass.start \cup pass.tried \cup rot.start \cup rot.failed

\* NewPendingIntent: an intent's id names the path its copy is written at.
Fresh == Min(Ids \ InUse)

\* GenerateAndWrapDEK: a new data key, wrapped under the primary.
FreshDek == Min(Ids \ (InUse \cup {Fresh}))

----------------------------------------------------------------------------
(* ListCopiesByForm and the pages of a pass.                               *)

After(a, b) == a[1] > b[1] \/ (a[1] = b[1] /\ a[2] > b[2])

Page(Matches(_), cursor, limit) ==
    LET all == SetToSortSeq({ at \in Present : Matches(rows[at]) /\ After(at, cursor) },
                            LAMBDA a, b : After(b, a))
        cut == SubSeq(all, 1, Min({limit, Len(all)}))
    IN  [i \in DOMAIN cut |-> [at |-> cut[i], row |-> rows[cut[i]]]]

\* A candidate listing that ignores the recorded declines.
OnWrongSideUnprobed(op, r) ==
    CASE op = "encrypt" -> r.form.dek = 0
      [] op = "decrypt" -> r.form.dek # 0
      [] op = "compress" -> ~r.form.comp
      [] op = "decompress" -> r.form.comp

\* The copies on the wrong side of the pass's layer; compress-existing leaves
\* out those measured as not worth encoding.
OnWrongSide(op, r) ==
    CASE op = "encrypt" -> r.form.dek = 0
      [] op = "decrypt" -> r.form.dek # 0
      [] op = "compress" -> ~r.form.comp /\ r.probe = 0
      [] op = "decompress" -> r.form.comp

Idle == [pc |-> "idle", op |-> "none", cap |-> 0, cursor |-> <<0, 0>>, page |-> <<>>,
         asked |-> 0, got |-> 0, res |-> [done |-> 0, failed |-> 0, skipped |-> 0, changed |-> 0, total |-> 0],
         start |-> {}, tried |-> {}, out |-> None]

\* A full page, or only what a capped run still has room for.
bulkRewritePageSize(p) == IF p.cap = 0 THEN BatchSize ELSE Min({p.cap - p.res.done, BatchSize})

----------------------------------------------------------------------------
(* storedform: Reform.                                                     *)

\* Whether the reformed bytes are recorded as an encoding.
recode(form, op) ==
    CASE op = "compress" -> TRUE
      [] op = "decompress" -> FALSE
      [] OTHER -> form.comp

\* Whether the reformed bytes are sealed.
Wants(form, op) ==
    CASE op = "encrypt" -> TRUE
      [] op = "decrypt" -> FALSE
      [] OTHER -> form.dek # 0

\* Reform of a row's bytes as far as they were read, at a fresh path. Whatever
\* is sealed is sealed anew, under the primary key.
Reform(r, op, whole) ==
    LET dek == IF Wants(r.form, op) THEN FreshDek ELSE 0
        comp == CASE op = "compress" -> TRUE
                  [] op = "decompress" -> FALSE
                  [] OTHER -> r.bytes.comp
    IN  [path |-> Fresh,
         form |-> [comp |-> recode(r.form, op), dek |-> dek,
                   kid |-> IF dek # 0 THEN "new" ELSE "none"],
         probe |-> 0,
         bytes |-> [w |-> r.bytes.w, whole |-> whole, comp |-> comp, dek |-> dek]]

\* An encoding judged by WorthStoring.
Declines(at, op) == op = "compress" /\ at[1] \in Incompressible

\* A writer that takes whatever length arrives.
CutNeverNoticed(r, op) == TRUE

\* A cut body survives as an object only through the encoder, which buffers
\* what it got: every other reform streams into a PUT of a declared length, and
\* an envelope that ends early does not decrypt.
CutUnnoticed(r, op) == op = "compress" /\ r.form.dek = 0

----------------------------------------------------------------------------
(* The rewrite pass.                                                       *)

\* One outcome on the counts.
Tally(p, field) == [p.res EXCEPT ![field] = @ + 1, !.total = @ + 1]

\* The outcome of one copy: it leaves the page and is counted.
Counted(p, field) ==
    [p EXCEPT !.pc = "item", !.page = Tail(@), !.out = None, !.res = Tally(p, field),
              !.tried = @ \cup {Head(p.page).row.path}]

Start(op) ==
    /\ op \in Ops
    /\ pass.pc = "idle" \/ (Repeats /\ pass.pc = "done")
    /\ \E cap \in Caps :
         pass' = [Idle EXCEPT !.pc = "list", !.op = op, !.cap = cap,
                              !.start = { rows[at].path : at \in Present }]
    /\ UNCHANGED <<rows, latest, rot, mover, left>>

EncryptExisting == Start("encrypt")
DecryptExisting == Start("decrypt")
CompressExisting == Start("compress")
DecompressExisting == Start("decompress")

\* op.list under the pager: an empty page ends the walk.
List ==
    /\ pass.pc = "list"
    /\ LET Matches(r) == OnWrongSide(pass.op, r)
           size == bulkRewritePageSize(pass)
           page == Page(Matches, pass.cursor, size)
       IN  pass' = IF page = <<>>
                     THEN [pass EXCEPT !.pc = "done"]
                     ELSE [pass EXCEPT !.pc = "item", !.page = page, !.asked = size, !.got = Len(page),
                                       !.cursor = page[Len(page)].at]
    /\ UNCHANGED <<rows, latest, rot, mover, left>>

\* The cap, or a page shorter than asked for, ends the walk after the page.
Ended(p) == (p.cap > 0 /\ p.res.done >= p.cap) \/ p.got < p.asked

\* MoveObject up to the placement: read, reform, claim, write. The source's
\* bytes may be gone once its row was replaced.
Copy ==
    /\ pass.pc = "item" /\ pass.page # <<>>
    /\ LET it == Head(pass.page) IN
       \/ /\ ~Declines(it.at, pass.op)
          /\ pass' = [pass EXCEPT !.pc = "place", !.out = Reform(it.row, pass.op, TRUE)]
          /\ UNCHANGED left
       \/ /\ Declines(it.at, pass.op)
          /\ pass' = [pass EXCEPT !.pc = "decline"]
          /\ UNCHANGED left
       \/ /\ Torn /\ left.fails > 0
          /\ left' = [left EXCEPT !.fails = @ - 1]
          /\ pass' = IF CutUnnoticed(it.row, pass.op)
                       THEN [pass EXCEPT !.pc = "place", !.out = Reform(it.row, pass.op, FALSE)]
                       ELSE Counted(pass, "failed")
       \/ /\ rows[it.at] # None => rows[it.at].path # it.row.path
          /\ pass' = Counted(pass, "failed")
          /\ UNCHANGED left
       \/ \E field \in {"failed", "skipped"} :
            /\ left.fails > 0
            /\ left' = [left EXCEPT !.fails = @ - 1]
            /\ pass' = Counted(pass, field)
    /\ UNCHANGED <<rows, latest, rot, mover>>

\* UpdateCopyMetadata matches the copy the caller read, by its path.
PatchMatches(at, r) == rows[at] # None /\ rows[at].path = r.path

\* recordDecline.
RecordDecline ==
    /\ pass.pc = "decline"
    /\ LET it == Head(pass.page) IN
       /\ rows' = IF PatchMatches(it.at, it.row)
                    THEN [rows EXCEPT ![it.at].probe = it.row.bytes.w]
                    ELSE rows
       /\ pass' = Counted(pass, "skipped")
    /\ UNCHANGED <<latest, rot, mover, left>>

\* Placement.refusal: the source is gone or replaced, or the target taken.
refusal(at, r, target) ==
    \/ rows[at] = None
    \/ rows[at].path # r.path
    \/ target # at /\ rows[target] # None

\* PlaceCopy over the copy's own backend, in the intent's form.
Place ==
    /\ pass.pc = "place"
    /\ LET it == Head(pass.page) IN
       IF refusal(it.at, it.row, it.at)
         THEN pass' = Counted(pass, "changed") /\ UNCHANGED rows
         ELSE /\ rows' = [rows EXCEPT ![it.at] = pass.out]
              /\ pass' = Counted(pass, "done")
    /\ UNCHANGED <<latest, rot, mover, left>>

\* runPage's end.
EndPage ==
    /\ pass.pc = "item" /\ pass.page = <<>>
    /\ pass' = [pass EXCEPT !.pc = IF Ended(pass) THEN "done" ELSE "list"]
    /\ UNCHANGED <<rows, latest, rot, mover, left>>

----------------------------------------------------------------------------
(* RotateKey.                                                              *)

RotIdle == [pc |-> "idle", cursor |-> <<0, 0>>, page |-> <<>>, asked |-> 0, start |-> {}, failed |-> {}]

\* Sealed under another key than the primary.
Stale(r) == r.form.dek # 0 /\ r.form.kid # "new"

RotateKey ==
    /\ Rotates /\ rot.pc = "idle"
    /\ rot' = [RotIdle EXCEPT !.pc = "list", !.start = { rows[at].path : at \in Present }]
    /\ UNCHANGED <<rows, latest, pass, mover, left>>

RotateList ==
    /\ rot.pc = "list"
    /\ LET page == Page(Stale, rot.cursor, BatchSize) IN
       rot' = IF page = <<>>
                THEN [rot EXCEPT !.pc = "done"]
                ELSE [rot EXCEPT !.pc = "item", !.page = page, !.asked = Len(page),
                                 !.cursor = page[Len(page)].at]
    /\ UNCHANGED <<rows, latest, pass, mover, left>>

\* The same data key wrapped again, under the primary.
Rewrapped(form) == [form EXCEPT !.kid = "new"]

\* rotateOneLocation: unwrap, wrap, patch; a copy replaced meanwhile is skipped.
rotateOneLocation ==
    /\ rot.pc = "item" /\ rot.page # <<>>
    /\ LET it == Head(rot.page) IN
       \/ /\ rows' = IF PatchMatches(it.at, it.row)
                       THEN [rows EXCEPT ![it.at].form.dek = it.row.form.dek,
                                         ![it.at].form.kid = Rewrapped(it.row.form).kid]
                       ELSE rows
          /\ rot' = [rot EXCEPT !.page = Tail(@)]
          /\ UNCHANGED left
       \/ /\ left.fails > 0
          /\ left' = [left EXCEPT !.fails = @ - 1]
          /\ rot' = [rot EXCEPT !.page = Tail(@), !.failed = @ \cup {it.row.path}]
          /\ UNCHANGED rows
    /\ UNCHANGED <<latest, pass, mover>>

\* A page shorter than asked for is the last.
RotateEndPage ==
    /\ rot.pc = "item" /\ rot.page = <<>>
    /\ rot' = [rot EXCEPT !.pc = IF rot.asked < BatchSize THEN "done" ELSE "list"]
    /\ UNCHANGED <<rows, latest, pass, mover, left>>

----------------------------------------------------------------------------
(* Clients and the rebalancer.                                             *)

\* A client's write replaces every copy of its key.
Overwrite ==
    /\ left.writes > 0
    /\ \E k \in Keys, b \in Backends :
         LET comp == NewWrite.comp /\ k \notin Incompressible
             form == [comp |-> comp, dek |-> IF NewWrite.enc THEN FreshDek ELSE 0,
                      kid |-> IF NewWrite.enc THEN "new" ELSE "none"]
         IN  /\ rows' = [at \in Places |->
                           IF at = <<k, b>> THEN RowOf(Fresh, form, latest[k] + 1)
                           ELSE IF at[1] = k THEN None ELSE rows[at]]
             /\ latest' = [latest EXCEPT ![k] = @ + 1]
    /\ left' = [left EXCEPT !.writes = @ - 1]
    /\ UNCHANGED <<pass, rot, mover>>

MoverIdle == [pc |-> "idle", at |-> <<0, 0>>, to |-> 0, keep |-> FALSE, row |-> None]

\* A drain, rebalance or replication copies the bytes as they are.
MoveStart ==
    /\ left.moves > 0 /\ mover.pc = "idle"
    /\ \E at \in Present, b \in Backends, keep \in BOOLEAN :
         /\ rows[<<at[1], b>>] = None
         /\ mover' = [pc |-> "placing", at |-> at, to |-> b, keep |-> keep, row |-> rows[at]]
    /\ left' = [left EXCEPT !.moves = @ - 1]
    /\ UNCHANGED <<rows, latest, pass, rot>>

\* placedCopy of verbatim bytes: the locked row, at the intent's path.
placedCopy(locked, read) == [locked EXCEPT !.path = Fresh]

MovePlace ==
    LET target == <<mover.at[1], mover.to>> IN
    /\ mover.pc = "placing"
    /\ rows' = IF refusal(mover.at, mover.row, target)
                 THEN rows
                 ELSE [rows EXCEPT ![target] = placedCopy(rows[mover.at], mover.row),
                                   ![mover.at] = IF mover.keep THEN @ ELSE None]
    /\ mover' = MoverIdle
    /\ UNCHANGED <<latest, pass, rot, left>>

Init ==
    /\ rows \in FirstRows
    /\ latest = [k \in Keys |-> 1]
    /\ pass = Idle
    /\ rot = RotIdle
    /\ mover = MoverIdle
    /\ left = [writes |-> MaxWrites, moves |-> MaxMoves, fails |-> MaxFails]

Begin == EncryptExisting \/ DecryptExisting \/ CompressExisting \/ DecompressExisting
PassStep == List \/ Copy \/ RecordDecline \/ Place \/ EndPage
RotateStep == RotateList \/ rotateOneLocation \/ RotateEndPage

Next ==
    \/ Begin \/ PassStep
    \/ RotateKey \/ RotateStep
    \/ Overwrite \/ MoveStart \/ MovePlace

Spec == Init /\ [][Next]_vars

----------------------------------------------------------------------------
(* Properties.                                                             *)

\* What every record holds; an empty slot is None.
TypeOK ==
    /\ \A at \in Present :
         /\ rows[at].path \in Ids
         /\ rows[at].form.dek \in Ids \cup {0}
         /\ rows[at].form.kid = "none" <=> rows[at].form.dek = 0
    /\ pass.pc \in {"idle", "list", "item", "place", "decline", "done"}
    /\ pass.res.total = pass.res.done + pass.res.failed + pass.res.skipped + pass.res.changed

\* Every row opens to the object: undoing the layers the row records, with the
\* key it carries, gives the client's last write, complete (Reform, PlaceCopy,
\* UpdateCopyMetadata; "never bytes the row does not describe").
RowsOpen ==
    \A at \in Present :
      LET r == rows[at] IN
      /\ r.bytes.w = latest[at[1]]
      /\ r.bytes.whole
      /\ r.bytes.dek = r.form.dek
      /\ r.bytes.comp = r.form.comp

\* A recorded decline was measured on the bytes its row names (recordDecline,
\* placedCopy), so no copy is excluded from compression for another's entropy.
ProbeOwn ==
    \A at \in Present : rows[at].probe # 0 => rows[at].probe = rows[at].bytes.w /\ ~rows[at].form.comp

\* A capped pass rewrites no more copies than asked for (bulkRewritePageSize).
CapKept == pass.cap > 0 => pass.res.done <= pass.cap

\* A pass that ends below its cap has tried every copy that was there all along
\* and is still on the wrong side of the layer (Pager.Walk over the cursor).
PassReaches ==
    pass.pc = "done" /\ (pass.cap > 0 => pass.res.done < pass.cap) =>
      \A at \in Present :
        rows[at].path \in pass.start /\ OnWrongSide(pass.op, rows[at]) => rows[at].path \in pass.tried

\* A finished rotation leaves no copy it could have rewrapped under an old key,
\* of those that stayed where they were (RotateKey).
RotationReaches ==
    rot.pc = "done" =>
      \A at \in Present :
        rows[at].path \in rot.start /\ Stale(rows[at]) => rows[at].path \in rot.failed

\* Once every copy of a key is sealed under the primary key, no move, replica or
\* rewrite brings an older wrapping back (placedCopy takes the locked row).
StaysRotated ==
    \A k \in Keys :
      (\A b \in Backends : rows[<<k, b>>] # None => ~Stale(rows[<<k, b>>]))
        => (\A b \in Backends : rows'[<<k, b>>] # None => ~Stale(rows'[<<k, b>>]))

\* Repeating a capped pass ends with passes that find nothing: rewritten and
\* declined copies both leave the listing (CompressExisting).
RunsDry == <>[](pass.res.total = 0)
=============================================================================
