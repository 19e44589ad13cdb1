---------------------------- MODULE ServerCopy ----------------------------
(***************************************************************************)
(* CopyObject and UploadPartCopy: a request reads an existing object in    *)
(* several steps (its tags, its rows, one copy's HEAD, some copy's bytes)  *)
(* while clients overwrite, delete and retag it and a rewrite pass changes *)
(* the stored form of its copies one at a time.                            *)
(*                                                                         *)
(* A copy's stored form is 0 for verbatim bytes and otherwise the data key *)
(* its envelope was sealed with.  Bytes are named by the version and form  *)
(* they hold; a path is never reused, so bytes a row names never change.   *)
(***************************************************************************)
EXTENDS Integers, FiniteSets

CONSTANTS Backends,
          SizeOf,       \* SizeOf[v]: the length of version v's body
          Overwrites,   \* may clients replace or delete the source
          Rewrites,     \* may a rewrite pass change the form of its copies
          Directives,   \* the tagging directives copies are asked with: TRUE is REPLACE
          Ranges,       \* the ranges a part copy asks for: <<first, last>> or WholeObject
          MaxForms

VARIABLES ver,    \* the source's current version, 0 when there is none
          tags,   \* its tag set, changed by PutObjectTagging and by writes
          rows,   \* rows[b]: the form of the copy on b, or NoCopy
          forms,  \* data keys minted so far
          copy,   \* the CopyObject request
          dst,    \* the destination: bytes at the claimed path, intent, row
          part    \* the UploadPartCopy request

vars == <<ver, tags, rows, forms, copy, dst, part>>

MaxVersion == Cardinality(DOMAIN SizeOf)
TagSets == {0, 1}
GivenTags == 2                     \* the tag set a REPLACE request carries
NoCopy == -1
Nothing == [ver |-> 0, form |-> NoCopy]
NoRow == [ver |-> 0, form |-> NoCopy, tags |-> 0]
WholeObject == <<0, -1>>

IdleCopy == [step |-> "idle", replace |-> FALSE, tags |-> 0, ver |-> 0,
             locs |-> [b \in Backends |-> NoCopy], form |-> NoCopy, on |-> 0,
             held |-> {}, late |-> FALSE, ok |-> FALSE]
NoDst == [bytes |-> Nothing, intent |-> FALSE, row |-> NoRow]
IdlePart == [step |-> "idle", range |-> WholeObject, head |-> 0, size |-> 0,
             ver |-> 0, len |-> 0, ok |-> FALSE]

Init == /\ ver = 1 /\ tags = 0 /\ rows = [b \in Backends |-> 0] /\ forms = 0
        /\ copy = IdleCopy /\ dst = NoDst /\ part = IdlePart

Busy == copy.step \notin {"idle", "done"}

(* What the source was at some moment of the running copy. *)
Seen(v, t) == IF Busy THEN [copy EXCEPT !.held = @ \cup {<<v, t>>}] ELSE copy

-----------------------------------------------------------------------------
(* The source's other clients and passes. *)

(* A client's write, stored verbatim or sealed under a data key its copies *)
(* share.                                                                  *)
Overwrite(t, sealed) ==
  /\ Overwrites /\ ver < MaxVersion /\ ver # 0 /\ (sealed => forms < MaxForms)
  /\ ver' = ver + 1 /\ tags' = t
  /\ forms' = IF sealed THEN forms + 1 ELSE forms
  /\ rows' = [b \in Backends |-> IF sealed THEN forms + 1 ELSE 0]
  /\ copy' = Seen(ver + 1, t)
  /\ UNCHANGED <<dst, part>>

Delete ==
  /\ Overwrites /\ ver = MaxVersion
  /\ ver' = 0 /\ tags' = 0 /\ rows' = [b \in Backends |-> NoCopy]
  /\ copy' = Seen(0, 0)
  /\ UNCHANGED <<forms, dst, part>>

PutObjectTags(t) ==
  /\ ver # 0 /\ t # tags /\ tags' = t /\ copy' = Seen(ver, t)
  /\ UNCHANGED <<ver, rows, forms, dst, part>>

(* encrypt-existing takes the copies one row at a time, each under a data  *)
(* key of its own.                                                         *)
EncryptCopy(b) ==
  /\ Rewrites /\ rows[b] = 0 /\ forms < MaxForms
  /\ forms' = forms + 1 /\ rows' = [rows EXCEPT ![b] = forms + 1]
  /\ UNCHANGED <<ver, tags, copy, dst, part>>

-----------------------------------------------------------------------------
(* CopyObject. *)

handleCopyObject(replace) ==
  /\ copy.step = "idle"
  /\ copy' = [IdleCopy EXCEPT !.step = "tags", !.replace = replace, !.held = {<<ver, tags>>}]
  /\ UNCHANGED <<ver, tags, rows, forms, dst, part>>

resolveCopyTags ==
  /\ copy.step = "tags"
  /\ copy' = [copy EXCEPT !.step = "rows", !.tags = IF copy.replace THEN GivenTags ELSE tags]
  /\ UNCHANGED <<ver, tags, rows, forms, dst, part>>

Failed == [copy EXCEPT !.step = "done"]

GetAllObjectLocations ==
  /\ copy.step = "rows"
  /\ copy' = IF ver = 0 THEN Failed
             ELSE [copy EXCEPT !.step = "head", !.ver = ver, !.locs = rows]
  /\ UNCHANGED <<ver, tags, rows, forms, dst, part>>

(* The first copy whose HEAD answers gives the size and the stored form. *)
headSourceForCopy ==
  /\ copy.step = "head"
  /\ \/ copy' = Failed
     \/ \E b \in {x \in Backends : copy.locs[x] # NoCopy} :
          copy' = [copy EXCEPT !.step = "claim", !.form = copy.locs[b]]
  /\ UNCHANGED <<ver, tags, rows, forms, dst, part>>

SelectWriteTarget ==
  /\ copy.step = "claim"
  /\ \/ copy' = Failed /\ UNCHANGED dst
     \/ \E d \in Backends :
          /\ copy' = [copy EXCEPT !.on = d,
                       !.step = IF copy.locs[d] # NoCopy THEN "native" ELSE "stream"]
          /\ dst' = [dst EXCEPT !.intent = TRUE]
  /\ UNCHANGED <<ver, tags, rows, forms, part>>

NativeBytes == [ver |-> copy.ver, form |-> copy.locs[copy.on]]

(* A server-side copy succeeds, is not supported, or fails with the bytes  *)
(* landed, not landed, or still on their way.                              *)
tryNativeCopy ==
  /\ copy.step = "native"
  /\ \/ copy' = [copy EXCEPT !.step = "stream"] /\ UNCHANGED dst
     \/ copy' = [copy EXCEPT !.step = "commit"] /\ dst' = [dst EXCEPT !.bytes = NativeBytes]
     \/ copy' = [copy EXCEPT !.step = "probe"] /\ dst' \in {dst, [dst EXCEPT !.bytes = NativeBytes]}
     \/ copy' = [copy EXCEPT !.step = "probe", !.late = TRUE] /\ UNCHANGED dst
  /\ UNCHANGED <<ver, tags, rows, forms, part>>

(* A copy whose response was lost lands after the request stopped waiting. *)
LateNativeCopy ==
  /\ copy.late
  /\ dst' = [dst EXCEPT !.bytes = NativeBytes] /\ copy' = [copy EXCEPT !.late = FALSE]
  /\ UNCHANGED <<ver, tags, rows, forms, part>>

StoredSize(form) == IF form = 0 THEN 0 ELSE 1     \* an envelope adds its header

(* The HEAD finds the destination with the size the intent claims. *)
Probed(bytes) == bytes # Nothing /\ StoredSize(bytes.form) = StoredSize(copy.form)

probeDestAfterAmbiguousCopy ==
  /\ copy.step = "probe"
  /\ \/ Probed(dst.bytes) /\ copy' = [copy EXCEPT !.step = "commit"]
     \/ copy' = [copy EXCEPT !.step = "stream"]     \* absent, another size, or HEAD failed
  /\ UNCHANGED <<ver, tags, rows, forms, dst, part>>

StreamSource == [ver |-> copy.ver, locs |-> copy.locs]

CopyFromAny ==
  /\ copy.step = "stream"
  /\ \/ copy' = Failed /\ UNCHANGED dst             \* nothing readable
     \/ LET from == StreamSource IN
        \E b \in {x \in Backends : from.locs[x] # NoCopy} :
          /\ dst' = [dst EXCEPT !.bytes = [ver |-> from.ver, form |-> from.locs[b]]]
          /\ copy' \in {[copy EXCEPT !.step = "commit"], Failed}   \* the PUT's answer may be lost
  /\ UNCHANGED <<ver, tags, rows, forms, part>>

(* RecordObjectAndPromoteIntent turns the intent into the row; a failure   *)
(* leaves the intent for the reaper.                                       *)
AfterRecordFailure == dst

finalizeCopy ==
  /\ copy.step = "commit"
  /\ \/ /\ dst' = [dst EXCEPT !.intent = FALSE,
                     !.row = [ver |-> copy.ver, form |-> copy.form, tags |-> copy.tags]]
        /\ copy' = [copy EXCEPT !.step = "done", !.ok = TRUE]
     \/ dst' = AfterRecordFailure /\ copy' = Failed
  /\ UNCHANGED <<ver, tags, rows, forms, part>>

(* The next copy goes to another key. *)
NextCopy ==
  /\ copy.step = "done" /\ ~copy.late
  /\ copy' = IdleCopy /\ dst' = NoDst
  /\ UNCHANGED <<ver, tags, rows, forms, part>>

-----------------------------------------------------------------------------
(* UploadPartCopy. *)

(* The number of bytes a range selects of a source of this size; -1 when   *)
(* the source cannot satisfy it.                                           *)
parseCopySourceRange(range, size) ==
  IF range = WholeObject THEN size
  ELSE IF range[2] >= size THEN -1 ELSE range[2] - range[1] + 1

HeadSource(range) ==
  /\ part.step = "idle"
  /\ LET n == IF ver = 0 THEN -1 ELSE parseCopySourceRange(range, SizeOf[ver]) IN
     part' = IF n = -1 THEN [part EXCEPT !.step = "done", !.range = range, !.head = ver]
             ELSE [part EXCEPT !.step = "get", !.range = range, !.head = ver, !.size = n]
  /\ UNCHANGED <<ver, tags, rows, forms, copy, dst>>

(* What a GET of the range serves of an object of this size: a range past  *)
(* the end is cut at the end, one that starts there is refused.            *)
Served(range, size) ==
  IF range = WholeObject THEN size
  ELSE IF range[1] >= size THEN -1
  ELSE (IF range[2] < size THEN range[2] ELSE size - 1) - range[1] + 1

(* The part is stored with the length the read reports; a body shorter     *)
(* than the length it is sent with is refused by the backend.              *)
PartSize(served) == IF served > 0 THEN served ELSE part.size

handleUploadPartCopy ==
  /\ part.step = "get"
  /\ LET n == IF ver = 0 THEN -1 ELSE Served(part.range, SizeOf[ver]) IN
     part' = IF n = -1 \/ PartSize(n) # n THEN [part EXCEPT !.step = "done"]
             ELSE [part EXCEPT !.step = "done", !.ok = TRUE, !.ver = ver, !.len = n]
  /\ UNCHANGED <<ver, tags, rows, forms, copy, dst>>

NextPart ==
  /\ part.step = "done" /\ part' = IdlePart
  /\ UNCHANGED <<ver, tags, rows, forms, copy, dst>>

Next ==
  \/ \E t \in TagSets : PutObjectTags(t) \/ \E sealed \in BOOLEAN : Overwrite(t, sealed)
  \/ Delete \/ \E b \in Backends : EncryptCopy(b)
  \/ \E replace \in Directives : handleCopyObject(replace)
  \/ resolveCopyTags \/ GetAllObjectLocations \/ headSourceForCopy \/ SelectWriteTarget
  \/ tryNativeCopy \/ LateNativeCopy \/ probeDestAfterAmbiguousCopy \/ CopyFromAny
  \/ finalizeCopy \/ NextCopy
  \/ \E range \in Ranges : HeadSource(range)
  \/ handleUploadPartCopy \/ NextPart

Spec == Init /\ [][Next]_vars

-----------------------------------------------------------------------------
TypeOK ==
  /\ ver \in 0..MaxVersion /\ tags \in TagSets /\ forms \in 0..MaxForms
  /\ rows \in [Backends -> {NoCopy} \cup 0..MaxForms]
  /\ copy.step \in {"idle", "tags", "rows", "head", "claim", "native", "probe", "stream",
                    "commit", "done"}
  /\ part.step \in {"idle", "get", "done"} /\ part.size >= 0
  /\ dst.intent => copy.on \in Backends


(* Bytes at the claimed path are covered by the intent or by the row, at   *)
(* every point a copy may fail.                                            *)
BytesClaimed == dst.bytes # Nothing => dst.intent \/ dst.row # NoRow

(* COPY gives the destination the tag set the source had as the version    *)
(* that was copied.                                                        *)
TagsOfCopied ==
  dst.row # NoRow /\ ~copy.replace => <<dst.row.ver, dst.row.tags>> \in copy.held

(* A part holds bytes of one version only and never more than the range    *)
(* that was asked for, which lay within the version the HEAD saw, whatever *)
(* was written between the HEAD and the GET.                               *)
PartWithinRange ==
  part.ok /\ part.range # WholeObject =>
    /\ part.len <= part.size
    /\ part.range[1] + part.len <= SizeOf[part.ver]
    /\ part.range[2] < SizeOf[part.head]

=============================================================================
