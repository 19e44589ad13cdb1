---------------------------- MODULE Conditionals ----------------------------
(***************************************************************************)
(* The S3 object handlers for one key: GET and HEAD with their             *)
(* preconditions and If-Range, and PUT with If-None-Match: *, against      *)
(* writers that replace, remove and import the object between their steps. *)
(*                                                                         *)
(* An entity tag is <<0, c>> for the digest of content c, or <<v, b>> for  *)
(* what backend b reports of the stored form of version v when that form   *)
(* is not the client's bytes.  Times count half seconds: rows keep them    *)
(* whole, the Last-Modified header only to the second.                     *)
(***************************************************************************)
EXTENDS Integers, Sequences, FiniteSets

CONSTANTS Contents,   \* the bodies a version may have
          Backends,   \* the backends a copy of the object may sit on
          Shapes,     \* the combinations of headers a read may carry
          Stars,      \* whether the writes handled here carry If-None-Match: *
          MaxVersions, MaxNow

VARIABLES vers,    \* every version written so far: [content, mod, plain]
          cur,     \* the version the rows name, 0 when there is none
          ident,   \* the ETag column of its rows, NoTag while NULL
          now,
          req,     \* the read being handled
          put      \* the write being handled

vars == <<vers, cur, ident, now, req, put>>

NoTag == <<>>
Star  == <<0, 0>>
Weak  == <<0, -1>>
NoDate == -1

(* http.TimeFormat carries no fraction of a second. *)
HeaderDate(t) == t - (t % 2)

(* What backend b reports of the bytes it holds of version v. *)
BackendETag(v, b) == IF vers[v].plain THEN <<0, vers[v].content>> ELSE <<v, b>>

(* The ETags an answer about version v may carry. *)
ETagsOf(v) == {<<0, vers[v].content>>} \cup {BackendETag(v, b) : b \in Backends}

NoHeaders == [im |-> NoTag, inm |-> NoTag, ims |-> NoDate, ius |-> NoDate,
              ir |-> NoTag, ird |-> NoDate, range |-> FALSE]

(* The headers of a client that was handed tag and date by an earlier answer. *)
HeadersFor(shape, tag, date) ==
  CASE shape = "none"      -> NoHeaders
    [] shape = "match"     -> [NoHeaders EXCEPT !.im = tag]
    [] shape = "any"       -> [NoHeaders EXCEPT !.im = Star, !.range = TRUE]
    [] shape = "nonematch" -> [NoHeaders EXCEPT !.inm = tag, !.ims = date]
    [] shape = "absent"    -> [NoHeaders EXCEPT !.inm = Star]
    [] shape = "since"     -> [NoHeaders EXCEPT !.ims = date]
    [] shape = "unsince"   -> [NoHeaders EXCEPT !.ius = date]
    [] shape = "range"     -> [NoHeaders EXCEPT !.range = TRUE, !.im = tag, !.ius = date]
    [] shape = "ifrange"   -> [NoHeaders EXCEPT !.range = TRUE, !.ir = tag]
    [] shape = "weak"      -> [NoHeaders EXCEPT !.range = TRUE, !.ir = Weak]
    [] shape = "ifdate"    -> [NoHeaders EXCEPT !.range = TRUE, !.ird = date]
    [] shape = "both"      -> [NoHeaders EXCEPT !.range = TRUE, !.im = tag, !.ir = Weak]

NoAnswer == [status |-> 0, ver |-> 0, etag |-> NoTag, date |-> NoDate]

IdleReq == [step |-> "idle", head |-> FALSE, h |-> NoHeaders, sent |-> 0,
            seen |-> {}, held |-> 0, tag |-> NoTag, ans |-> NoAnswer]
IdlePut == [step |-> "idle", star |-> FALSE, existed |-> FALSE, status |-> 0]

Init == /\ vers = <<>> /\ cur = 0 /\ ident = NoTag /\ now = 0
        /\ req = IdleReq /\ put = IdlePut

-----------------------------------------------------------------------------
(* Preconditions, in the order checkConditionals takes them. *)

checkIfMatch(h, etag) == h.im # NoTag /\ h.im # etag /\ h.im # Star

checkIfUnmodifiedSince(h, mod) == h.ius # NoDate /\ h.im = NoTag /\ mod > h.ius

checkIfNoneMatch(h, etag) == h.inm # NoTag /\ h.inm \in {etag, Star}

checkIfModifiedSince(h, mod) == h.ims # NoDate /\ h.inm = NoTag /\ mod <= h.ims

(* The status a failed precondition answers, 0 when every one passes. *)
checkConditionals(h, etag, mod) ==
  CASE checkIfMatch(h, etag) \/ checkIfUnmodifiedSince(h, mod) -> 412
    [] checkIfNoneMatch(h, etag) \/ checkIfModifiedSince(h, mod) -> 304
    [] OTHER -> 0

hasConditionals(h) == h.im # NoTag \/ h.inm # NoTag \/ h.ims # NoDate \/ h.ius # NoDate

ifRangeMatches(h, etag, mod) ==
  /\ h.ird # NoDate => mod = h.ird
  /\ h.ir # NoTag => h.ir # Weak /\ h.ir = etag

-----------------------------------------------------------------------------
(* The object manager's view of the key. *)

(* The tags a read of the current rows may answer with: the identity the   *)
(* rows carry, or what the copy that answered reports.                     *)
resolvedETags == IF ident # NoTag THEN {ident} ELSE {BackendETag(cur, b) : b \in Backends}

(* Whether a HEAD answered by a backend records that backend's ETag.       *)
storedBytesAreClientBytes(v) == vers[v].plain

RecordsETag(v) == ident = NoTag /\ storedBytesAreClientBytes(v)

(* setValidatorHeaders: a response about version v under tag etag. *)
Answer(status, v, etag) ==
  [status |-> status, ver |-> v, etag |-> etag, date |-> HeaderDate(vers[v].mod)]

Refusal(status) == [NoAnswer EXCEPT !.status = status]

(* Every version the key held since a read began is one it may answer from. *)
Noticed(r, v) == IF r.step \in {"idle", "done"} THEN r ELSE [r EXCEPT !.seen = @ \cup {v}]

-----------------------------------------------------------------------------
(* Reads. *)

Send(shape, head, w, tag) ==
  /\ req.step = "idle"
  /\ req' = [IdleReq EXCEPT !.step = IF head THEN "head" ELSE "get", !.head = head,
                            !.h = HeadersFor(shape, tag, HeaderDate(vers[w].mod)),
                            !.sent = w, !.seen = {cur}]
  /\ UNCHANGED <<vers, cur, ident, now, put>>

(* answerConditionalFromHead: a conditional GET first asks HEAD, and goes  *)
(* on to the GET unless a precondition fails there.                        *)
answerConditionalFromHead ==
  /\ req.step = "get" /\ hasConditionals(req.h)
  /\ \/ req' = [req EXCEPT !.step = "open"]        \* HEAD erred
     \/ /\ cur # 0
        /\ \E tag \in resolvedETags :
             LET status == checkConditionals(req.h, tag, vers[cur].mod) IN
             req' = IF status = 0 THEN [req EXCEPT !.step = "open"]
                    ELSE [req EXCEPT !.step = "done", !.ans = Answer(status, cur, tag)]
  /\ UNCHANGED <<vers, cur, ident, now, put>>

AfterOpenTrusting(v, tag) ==
  IF req.h.range /\ ~ifRangeMatches(req.h, tag, vers[v].mod)
  THEN [req EXCEPT !.step = "full"]
  ELSE [req EXCEPT !.step = "done",
                   !.ans = Answer(IF req.h.range THEN 206 ELSE 200, v, tag)]
(* handleGet's own read: its check is the authority over the HEAD's. *)
AfterOpen(v, tag) ==
  LET mod == vers[v].mod
      status == checkConditionals(req.h, tag, mod)
  IN IF status # 0 THEN [req EXCEPT !.step = "done", !.ans = Answer(status, v, tag)]
     ELSE IF req.h.range /\ ~ifRangeMatches(req.h, tag, mod)
          THEN [req EXCEPT !.step = "full"]
          ELSE [req EXCEPT !.step = "done",
                           !.ans = Answer(IF req.h.range THEN 206 ELSE 200, v, tag)]

handleGet ==
  /\ req.step = "open" \/ (req.step = "get" /\ ~hasConditionals(req.h))
  /\ \/ req' = [req EXCEPT !.step = "done", !.ans = Refusal(500)]
     \/ cur = 0 /\ req' = [req EXCEPT !.step = "done", !.ans = Refusal(404)]
     \/ cur # 0 /\ \E tag \in resolvedETags : req' = AfterOpen(cur, tag)
  /\ UNCHANGED <<vers, cur, ident, now, put>>

(* The range no longer describes the object: fetch it again, whole. *)
FullAnswer(v, tag) == Answer(200, v, tag)

handleGetFull ==
  /\ req.step = "full"
  /\ \/ req' = [req EXCEPT !.step = "done", !.ans = Refusal(500)]
     \/ cur = 0 /\ req' = [req EXCEPT !.step = "done", !.ans = Refusal(404)]
     \/ cur # 0 /\ \E tag \in resolvedETags :
                     req' = [req EXCEPT !.step = "done", !.ans = FullAnswer(cur, tag)]
  /\ UNCHANGED <<vers, cur, ident, now, put>>

(* Rows with an identity answer a HEAD by themselves. *)
headFromMetadata == ident # NoTag

handleHead ==
  /\ req.step = "head" /\ (cur # 0 => headFromMetadata)
  /\ req' = [req EXCEPT !.step = "done",
       !.ans = IF cur = 0 THEN Refusal(404)
               ELSE LET status == checkConditionals(req.h, ident, vers[cur].mod)
                    IN Answer(IF status = 0 THEN 200 ELSE status, cur, ident)]
  /\ UNCHANGED <<vers, cur, ident, now, put>>

(* Without one, the backend's HEAD does, and is then recorded. *)
HeadBackend ==
  /\ req.step = "head" /\ cur # 0 /\ ~headFromMetadata
  /\ \/ req' = [req EXCEPT !.step = "done", !.ans = Refusal(500)]
     \/ \E b \in Backends : req' = [req EXCEPT !.step = "record", !.held = cur,
                                               !.tag = BackendETag(cur, b)]
  /\ UNCHANGED <<vers, cur, ident, now, put>>

(* recordHeadIdentity fills the column only while the copy that answered   *)
(* is still recorded; the store call may fail, which only costs a later    *)
(* round trip.                                                             *)
RecordedETag(v, tag) == IF RecordsETag(v) /\ cur = v THEN tag ELSE ident

recordHeadIdentity ==
  /\ req.step = "record"
  /\ ident' \in {ident, RecordedETag(req.held, req.tag)}
  /\ req' = LET status == checkConditionals(req.h, req.tag, vers[req.held].mod) IN
            [req EXCEPT !.step = "done", !.held = 0, !.tag = NoTag,
              !.ans = Answer(IF status = 0 THEN 200 ELSE status, req.held, req.tag)]
  /\ UNCHANGED <<vers, cur, now, put>>

-----------------------------------------------------------------------------
(* Writes. *)

(* The commit of a version: its rows replace every row of the key. *)
Commit(c, plain, tag) ==
  /\ Len(vers) < MaxVersions
  /\ vers' = Append(vers, [content |-> c, mod |-> now, plain |-> plain])
  /\ cur' = Len(vers) + 1
  /\ ident' = tag

SendPut(star) ==
  /\ put.step = "idle" /\ Len(vers) < MaxVersions
  /\ put' = [IdlePut EXCEPT !.step = "check", !.star = star, !.existed = (cur # 0)]
  /\ UNCHANGED <<vers, cur, ident, now, req>>

(* checkIfNoneMatchStar, then the capacity and tag checks, all before the  *)
(* body is read.                                                           *)
checkIfNoneMatchStar == put.star /\ cur # 0

handlePutCheck ==
  /\ put.step = "check"
  /\ \/ checkIfNoneMatchStar /\ put' = [put EXCEPT !.step = "done", !.status = 412]
     \/ ~checkIfNoneMatchStar /\ put' = [put EXCEPT !.step = "body"]
     \/ ~checkIfNoneMatchStar /\ \E s \in {400, 507} :
          put' = [put EXCEPT !.step = "done", !.status = s]
  /\ UNCHANGED <<vers, cur, ident, now, req>>

(* The write itself; the body may be stored encrypted or compressed. *)
handlePut(c, plain) ==
  /\ put.step = "body" /\ Commit(c, plain, <<0, c>>)
  /\ put' = [put EXCEPT !.step = "done", !.status = 200]
  /\ req' = Noticed(req, Len(vers) + 1)
  /\ UNCHANGED now

(* Another instance writes, an import adopts bytes a backend held (its     *)
(* rows carry no ETag), and a delete removes every row.                    *)
Import(c, plain) ==
  /\ cur = 0 /\ Commit(c, plain, NoTag)
  /\ req' = Noticed(req, Len(vers) + 1)
  /\ put' = IF put.step = "check" THEN [put EXCEPT !.existed = TRUE] ELSE put
  /\ UNCHANGED now

OtherPut(c) ==
  /\ Commit(c, FALSE, <<0, c>>)
  /\ req' = Noticed(req, Len(vers) + 1)
  /\ put' = IF put.step = "check" THEN [put EXCEPT !.existed = TRUE] ELSE put
  /\ UNCHANGED now

handleDelete ==
  /\ cur # 0 /\ cur' = 0 /\ ident' = NoTag
  /\ req' = Noticed(req, 0)
  /\ UNCHANGED <<vers, now, put>>

Tick == now < MaxNow /\ now' = now + 1 /\ UNCHANGED <<vers, cur, ident, req, put>>

Finish ==
  \/ req.step = "done" /\ req' = IdleReq /\ UNCHANGED <<vers, cur, ident, now, put>>
  \/ put.step = "done" /\ put' = IdlePut /\ UNCHANGED <<vers, cur, ident, now, req>>

Next ==
  \/ \E shape \in Shapes, head \in BOOLEAN, w \in 1..Len(vers) :
       \E tag \in ETagsOf(w) : Send(shape, head, w, tag)
  \/ answerConditionalFromHead \/ handleGet \/ handleGetFull
  \/ handleHead \/ HeadBackend \/ recordHeadIdentity
  \/ \E star \in Stars : SendPut(star)
  \/ handlePutCheck
  \/ \E c \in Contents, plain \in BOOLEAN : handlePut(c, plain) \/ Import(c, plain)
  \/ \E c \in Contents : OtherPut(c)
  \/ handleDelete \/ Tick \/ Finish

Spec == Init /\ [][Next]_vars

-----------------------------------------------------------------------------
TypeOK ==
  /\ cur \in 0..Len(vers) /\ Len(vers) <= MaxVersions /\ now \in 0..MaxNow
  /\ (cur = 0) => (ident = NoTag)
  /\ req.step \in {"idle", "head", "get", "open", "full", "record", "done"}
  /\ req.seen \subseteq 0..Len(vers)
  /\ req.ans.status \in {0, 200, 206, 304, 404, 412, 500}
  /\ put.step \in {"idle", "check", "body", "done"}
  /\ put.status \in {0, 200, 400, 412, 507}

(* What a request with headers h must be answered about a version with     *)
(* this tag, by the definitions of the headers and not by the handler: a   *)
(* false precondition wins over the body, and a range is served only of    *)
(* the version the client holds a part of.                                 *)
Due(h, tag) ==
  LET wanted == h.im \notin {NoTag, Star, tag}
      fresh  == h.inm \in {tag, Star}
  IN IF wanted THEN 412
     ELSE IF fresh THEN 304
     ELSE IF h.range /\ h.ir \in {NoTag, tag} THEN 206 ELSE 200

(* handleGet and handleHead answer as if the whole request had run in one  *)
(* instant: the status is the one the headers call for on a version the    *)
(* key held during the request, and the validators and the body are that   *)
(* version's.  The HEAD in front of the GET, the GET and the second GET    *)
(* of an If-Range mismatch may each see another version.  A whole body in  *)
(* place of a range is due to a version that did not match If-Range.       *)
(* (HEAD ignores Range; dates are left to the runs about dates.)           *)
AnsweredFromOneVersion ==
  req.step = "done" /\ req.ans.status \notin {404, 500} =>
    LET due == Due(req.h, req.ans.etag) IN
    /\ req.ans.ver \in req.seen
    /\ req.ans.etag \in ETagsOf(req.ans.ver)
    /\ req.ans.date = HeaderDate(vers[req.ans.ver].mod)
    /\ CASE req.ans.status # 200 -> due = req.ans.status
         [] req.head \/ due = 200 -> due \in {200, 206}
         [] OTHER -> /\ due = 206
                     /\ \E v \in req.seen \ {0} : \E tag \in ETagsOf(v) : Due(req.h, tag) = 200

(* The ETag column of the rows is the digest of the version they name:     *)
(* recordHeadIdentity never writes what one version's backend reported     *)
(* onto the rows of the next, nor the digest of a stored form.             *)
IdentityOfVersion == cur # 0 /\ ident # NoTag => ident = <<0, vers[cur].content>>

(* The date headers never hide a change: a version written after the       *)
(* date's own second is not answered 304, and not accepted by              *)
(* If-Unmodified-Since, under any interleaving with writers.               *)
DatesNeverHideChange ==
  req.step = "done" /\ req.ans.ver # 0 =>
    LET mod == vers[req.ans.ver].mod IN
    /\ req.h.ims # NoDate /\ req.h.inm = NoTag /\ req.ans.status = 304 => mod <= req.h.ims
    /\ req.h.ius # NoDate /\ req.h.im = NoTag /\ req.ans.status \in {200, 206}
         => mod <= req.h.ius
    /\ req.h.ird # NoDate /\ req.ans.status = 206 => HeaderDate(mod) = req.h.ird

=============================================================================
