----------------------------- MODULE MultipartApi -----------------------------
(***************************************************************************)
(* The S3 surface of multipart uploads in one bucket: clients that open    *)
(* uploads under the bucket's ceiling, resume an upload by paging through  *)
(* its parts while parts are uploaded again, complete uploads under the    *)
(* object size ceiling, and page through the open uploads.  Each handler   *)
(* is split at its reads of the store.  What a completion does with the    *)
(* parts it read is Multipart's; here it is one step.                      *)
(***************************************************************************)
EXTENDS Integers, Sequences, FiniteSets, FiniteSetsExt, SequencesExt, TLC

CONSTANTS
    Ids,            \* upload ids, numbered in (object_key, created_at) order
    Keys,           \* object keys
    KeyOf,          \* the key each upload is opened for
    Numbers,        \* part numbers
    Bodies,         \* the bodies a part may be uploaded with, 1, 2, ...
    SizeOf,         \* the size of each body as the client sent it
    Envelope,       \* what encryption adds to a stored part, 0 when it is off
    MaxUploads,     \* max_multipart_uploads of the bucket
    MaxObjectSize,  \* the object size ceiling
    PageSize,       \* max-parts and max-uploads of the clients
    Creators, Walkers, Completers, Listers,  \* the clients at work
    OmitETags       \* whether a completion may leave out ETags

SizesKnown ==
    /\ Ids \subseteq Nat /\ KeyOf \in [Ids -> Keys]
    /\ Numbers \subseteq 1..10000 /\ Bodies \subseteq Nat \ {0}
    /\ SizeOf \in [Bodies -> Nat] /\ PageSize \in Nat \ {0}

VARIABLES
    open,      \* the multipart_uploads rows
    parts,     \* the multipart_parts rows: the body of each number, 0 for none
    creating,  \* whether each creator has counted and not yet inserted
    walk,      \* the resuming clients
    request,   \* the completion requests past their size check
    object,    \* the size of the last assembled object, and whether the
               \* manifest named every ETag
    listing    \* the clients that page through the open uploads

vars == <<open, parts, creating, walk, request, object, listing>>

NoParts == [n \in Numbers |-> 0]
NoWalk == [at |-> "idle", id |-> 0, key |-> "", marker |-> 0, seen |-> <<>>, steady |-> {}]
NoRequest == [id |-> 0, etags |-> <<>>]
NoList == [at |-> "idle", marker |-> 0, page |-> <<>>]

Init ==
    /\ open = {}
    /\ parts = [u \in Ids |-> NoParts]
    /\ creating = [c \in Creators |-> FALSE]
    /\ walk = [w \in Walkers |-> NoWalk]
    /\ request = [c \in Completers |-> NoRequest]
    /\ object = [size |-> 0, named |-> TRUE]
    /\ listing = [l \in Listers |-> NoList]

----------------------------------------------------------------------------
(* Helpers of the handlers                                                 *)


TrimPage(rows, limit) ==
    IF Len(rows) > limit THEN <<SubSeq(rows, 1, limit), TRUE>> ELSE <<rows, FALSE>>

(* The rows of the page statements: up to limit of them above a marker.     *)
ListParts(u, after, limit) ==
    LET all == SetToSortSeq({n \in Numbers : parts[u][n] # 0 /\ n > after}, <)
    IN SubSeq(all, 1, Min({limit, Len(all)}))

ListMultipartUploads(limit) ==
    LET all == SetToSortSeq(open, <)
    IN SubSeq(all, 1, Min({limit, Len(all)}))

physicalPartSize(b) == SizeOf[b] + Envelope

(* A listed part: its number, its ETag and the size the client sent.        *)
presentToClient(n, b) ==
    [n |-> n, etag |-> b, size |-> physicalPartSize(b) - Envelope]

(* fetchScopedUpload: the upload is there and belongs to the request's key. *)
validateMultipartScope(u, key) == u \in open /\ KeyOf[u] = key

----------------------------------------------------------------------------
(* Opening, filling and dropping uploads                                   *)

(* The refusal of a bucket already at its ceiling.                          *)
checkUploadLimit == Cardinality(open) >= MaxUploads

CountUploads(c) ==
    /\ ~creating[c]
    /\ ~checkUploadLimit
    /\ creating' = [creating EXCEPT ![c] = TRUE]
    /\ UNCHANGED <<open, parts, walk, request, object, listing>>

CreateMultipartUpload(c) ==
    /\ creating[c]
    /\ creating' = [creating EXCEPT ![c] = FALSE]
    /\ \E u \in Ids \ open : parts[u] = NoParts /\ open' = open \cup {u}
    /\ UNCHANGED <<parts, walk, request, object, listing>>

(* A part of any size up to the ceiling; one already there is replaced.     *)
UploadPart(u, n, b) ==
    /\ u \in open
    /\ SizeOf[b] <= MaxObjectSize
    /\ parts[u][n] # b
    /\ parts' = [parts EXCEPT ![u][n] = b]
    /\ walk' = [w \in Walkers |->
                  IF walk[w].id = u THEN [walk[w] EXCEPT !.steady = @ \ {n}] ELSE walk[w]]
    /\ UNCHANGED <<open, creating, request, object, listing>>

(* The rows of an upload that ends; the clients in the middle of it are     *)
(* answered NoSuchUpload by their next request.                             *)
Drop(u) ==
    /\ open' = open \ {u}
    /\ parts' = [parts EXCEPT ![u] = NoParts]
    /\ walk' = [w \in Walkers |->
                  IF walk[w].id = u THEN [walk[w] EXCEPT !.steady = {}] ELSE walk[w]]

AbortMultipartUpload(u) ==
    /\ u \in open
    /\ Drop(u)
    /\ UNCHANGED <<creating, request, object, listing>>

----------------------------------------------------------------------------
(* Resuming: paging through the parts of an upload                         *)

BeginResume(w) ==
    /\ walk[w].at \in {"idle", "done"}
    /\ \E u \in open, key \in Keys :
          walk' = [walk EXCEPT ![w] =
              [at |-> "page", id |-> u, key |-> key, marker |-> 0, seen |-> <<>>,
               steady |-> {n \in Numbers : parts[u][n] # 0}]]
    /\ UNCHANGED <<open, parts, creating, request, object, listing>>

(* One ListParts answer: the page, whether more follow, and the marker the  *)
(* client passes on.                                                        *)
PageAfter(w) == ListParts(walk[w].id, walk[w].marker, PageSize + 1)

handleListParts(w) ==
    LET v == walk[w]
        page == TrimPage(PageAfter(w), PageSize)
        shown == [i \in DOMAIN page[1] |-> presentToClient(page[1][i], parts[v.id][page[1][i]])]
    IN /\ v.at = "page"
       /\ walk' = [walk EXCEPT ![w] =
             IF ~validateMultipartScope(v.id, v.key) THEN NoWalk
             ELSE [v EXCEPT !.at = IF page[2] THEN "page" ELSE "done",
                            !.marker = IF shown = <<>> THEN 0 ELSE Last(shown).n,
                            !.seen = @ \o shown]]
       /\ UNCHANGED <<open, parts, creating, request, object, listing>>

----------------------------------------------------------------------------
(* Completing                                                              *)

(* A manifest: the parts it names, each with the ETag the client was        *)
(* answered or 0 where it leaves the ETag out.                              *)
Manifests(u) ==
    {[n \in S |-> IF n \in T THEN 0 ELSE parts[u][n]] :
        S \in SUBSET {n \in Numbers : parts[u][n] # 0} \ {{}},
        T \in IF OmitETags THEN SUBSET Numbers ELSE {{}}}

(* The combined size of the parts a manifest names.                         *)
sumPlaintextSize(u, S) ==
    MapThenSumSet(LAMBDA n : IF parts[u][n] = 0 THEN 0
                             ELSE physicalPartSize(parts[u][n]) - Envelope, S)

checkAssemblySize(u, S) == sumPlaintextSize(u, S) <= MaxObjectSize

CheckSize(c) ==
    /\ request[c] = NoRequest
    /\ \E u \in open : \E m \in Manifests(u) :
          /\ checkAssemblySize(u, DOMAIN m)
          /\ request' = [request EXCEPT ![c] = [id |-> u, etags |-> m]]
    /\ UNCHANGED <<open, parts, creating, walk, object, listing>>

(* An ETag the client left out is not compared.                             *)
validateManifestAgainstStored(p, etag) == etag = 0 \/ etag = p

CompleteMultipartUpload(c) ==
    LET q == request[c]
        S == DOMAIN q.etags
    IN /\ q # NoRequest
       /\ request' = [request EXCEPT ![c] = NoRequest]
       /\ IF /\ q.id \in open
             /\ \A n \in S : /\ parts[q.id][n] # 0
                             /\ validateManifestAgainstStored(parts[q.id][n], q.etags[n])
          THEN /\ object' = [size |-> sumPlaintextSize(q.id, S),
                             named |-> \A n \in S : q.etags[n] # 0]
               /\ Drop(q.id)
          ELSE UNCHANGED <<object, open, parts, walk>>
       /\ UNCHANGED <<creating, listing>>

----------------------------------------------------------------------------
(* Paging through the open uploads                                         *)

(* The first request, and each later one with key-marker and                *)
(* upload-id-marker set to the last upload of the page before: the handler  *)
(* reads max-uploads and nothing else.                                      *)
ListUploads(l) ==
    LET v == listing[l]
        page == TrimPage(ListMultipartUploads(PageSize + 1), PageSize)
    IN /\ listing' = [listing EXCEPT ![l] =
             [at |-> IF page[2] THEN "page" ELSE "idle",
              marker |-> IF v.at = "page" /\ v.page # <<>> THEN Last(v.page) ELSE 0,
              page |-> page[1]]]
       /\ UNCHANGED <<open, parts, creating, walk, request, object>>

Next ==
    \/ \E c \in Creators : CountUploads(c) \/ CreateMultipartUpload(c)
    \/ \E u \in Ids : AbortMultipartUpload(u)
    \/ \E u \in Ids, n \in Numbers, b \in Bodies : UploadPart(u, n, b)
    \/ \E w \in Walkers : BeginResume(w) \/ handleListParts(w)
    \/ \E c \in Completers : CheckSize(c) \/ CompleteMultipartUpload(c)
    \/ \E l \in Listers : ListUploads(l)

Spec == Init /\ [][Next]_vars

----------------------------------------------------------------------------
Entries == [n : Numbers, etag : Bodies, size : Nat]

(* The state is well formed; an upload without a row has no part rows.      *)
TypeOK ==
    /\ open \subseteq Ids
    /\ parts \in [Ids -> [Numbers -> Bodies \cup {0}]]
    /\ \A u \in Ids \ open : parts[u] = NoParts
    /\ creating \in [Creators -> BOOLEAN]
    /\ \A w \in Walkers : /\ walk[w].at \in {"idle", "page", "done"}
                          /\ \A i \in DOMAIN walk[w].seen : walk[w].seen[i] \in Entries
                          /\ walk[w].steady \subseteq Numbers
    /\ object.size \in Nat


(* checkUploadLimit counts before the insert, so the ceiling is passed by   *)
(* at most one upload per other request in flight.                          *)
OvershootBounded ==
    Cardinality(open) <= MaxUploads + Max({0, Cardinality(Creators) - 1})

(* checkAssemblySize: an assembled object whose manifest named every ETag   *)
(* is within the object ceiling, whatever was uploaded after the check.     *)
NamedWithinCeiling == object.named => object.size <= MaxObjectSize

(* checkAssemblySize "refuses a completion whose named parts add up past    *)
(* the object ceiling".                                                     *)
WithinCeiling == object.size <= MaxObjectSize

=============================================================================
