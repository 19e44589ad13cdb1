----------------------------- MODULE S3Routing -----------------------------
(***************************************************************************)
(* What an S3 request is taken to ask for, whether its caller may, and how *)
(* it is answered (s3api/action.go, s3api/server.go, s3api/helpers.go,     *)
(* auth/authorize.go, auth/user.go).                                       *)
(*                                                                         *)
(* A request is its method, how much of a path it names, the query keys it *)
(* carries (list-type with the value 2), its uploadId and whether it names *)
(* a copy source.  It is authenticated, classified, authorized against the *)
(* caller's grants and dispatched; a handler either answers or leaves an   *)
(* error for serve.                                                        *)
(***************************************************************************)
EXTENDS Naturals, FiniteSets

CONSTANTS Methods,   \* HTTP methods a client sends
          QueryKeys, \* query keys a client sends, besides uploadId
          MaxKeys,   \* of them in one request
          GrantSets  \* what a caller's named grant or wildcard may carry

None == "none"
Permissions == {"list-buckets", "list", "read", "write", "delete", "tags"}

RoutingConfig == MaxKeys \in Nat /\ GrantSets \subseteq SUBSET Permissions

Requests ==
  [method : Methods, path : {"root", "bucket", "object"},
   query : {q \in SUBSET QueryKeys : Cardinality(q) <= MaxKeys},
   uploadId : {"absent", "empty", "set"}, copySource : BOOLEAN]

\* What the caller's grant on the bucket carries, if it is named in one, and what
\* its bucket wildcard carries.
Users == {u \in [named : BOOLEAN, grant : GrantSets, allBuckets : GrantSets] : u.named \/ u.grant = {}}

VARIABLES req, user, pc, act, status, written

vars == <<req, user, pc, act, status, written>>

Init ==
  /\ req \in Requests /\ user \in Users
  /\ pc = "new" /\ act = None /\ status = 0 /\ written = 0

---------------------------------------------------------------------------
(* Classification.                                                         *)

supportedObjectQueryKeys ==
  {"uploads", "partNumber", "max-parts", "part-number-marker", "tagging", "x-id"}
    \cup {"X-Amz-Date", "response-content-type"}

supportedBucketQueryKeys ==
  {"delete", "location", "uploads", "versioning", "list-type", "prefix", "x-id"}
    \cup {"X-Amz-Date"}

\* uploadId is a query key like the others: objects take it, buckets do not.
unsupportedQuery(r, allowed, uploads) ==
  \/ ~(r.query \subseteq allowed)
  \/ ~uploads /\ r.uploadId # "absent"

classifyBucket(r) ==
  CASE unsupportedQuery(r, supportedBucketQueryKeys, FALSE) -> "UnsupportedSubresource"
    [] r.method = "HEAD" -> "HeadBucket"
    [] r.method = "GET" /\ "versioning" \in r.query -> "GetBucketVersioning"
    [] r.method = "GET" /\ "uploads" \in r.query -> "ListMultipartUploads"
    [] r.method = "GET" /\ "location" \in r.query -> "GetBucketLocation"
    [] r.method = "GET" /\ "list-type" \in r.query -> "ListObjectsV2"
    [] r.method = "GET" -> "ListObjectsV1"
    [] r.method = "POST" /\ "delete" \in r.query -> "DeleteObjects"
    [] OTHER -> "Unknown"

classifyTagging(r) ==
  CASE r.method = "GET" -> "GetObjectTagging"
    [] r.method = "PUT" -> "PutObjectTagging"
    [] r.method = "DELETE" -> "DeleteObjectTagging"
    [] OTHER -> "Unknown"

classifyMultipart(r) ==
  CASE r.method = "PUT" -> IF r.copySource THEN "UploadPartCopy" ELSE "UploadPart"
    [] r.method = "POST" -> "CompleteMultipartUpload"
    [] r.method = "DELETE" -> "AbortMultipartUpload"
    [] r.method = "GET" -> "ListParts"
    [] OTHER -> "Unknown"

classifyPlainObject(r) ==
  CASE r.method = "PUT" -> IF r.copySource THEN "CopyObject" ELSE "PutObject"
    [] r.method = "GET" -> "GetObject"
    [] r.method = "HEAD" -> "HeadObject"
    [] r.method = "DELETE" -> "DeleteObject"
    [] OTHER -> "Unknown"

classifyObject(r) ==
  CASE unsupportedQuery(r, supportedObjectQueryKeys, TRUE) -> "UnsupportedSubresource"
    [] "tagging" \in r.query -> classifyTagging(r)
    [] "uploads" \in r.query /\ r.method = "POST" -> "CreateMultipartUpload"
    [] r.uploadId = "set" -> classifyMultipart(r)
    [] OTHER -> classifyPlainObject(r)

classifyAction(r) == IF r.path = "bucket" THEN classifyBucket(r) ELSE classifyObject(r)

---------------------------------------------------------------------------
(* Authorization.                                                          *)

\* As RequiredPermissions, a copy taken for a write alone.
RequiredWriteOnly(a) ==
  CASE a \in {"HeadBucket", "GetBucketLocation", "GetBucketVersioning"} -> {"list-buckets"}
    [] a \in {"ListObjectsV1", "ListObjectsV2", "ListMultipartUploads", "ListParts"} -> {"list"}
    [] a \in {"GetObject", "HeadObject", "GetObjectTagging"} -> {"read"}
    [] a \in {"PutObject", "CreateMultipartUpload", "UploadPart", "CompleteMultipartUpload",
              "AbortMultipartUpload", "CopyObject", "UploadPartCopy"} -> {"write"}
    [] a \in {"DeleteObject", "DeleteObjects"} -> {"delete"}
    [] a \in {"PutObjectTagging", "DeleteObjectTagging"} -> {"tags"}
    [] OTHER -> {}

RequiredPermissions(a) ==
  CASE a \in {"HeadBucket", "GetBucketLocation", "GetBucketVersioning"} -> {"list-buckets"}
    [] a \in {"ListObjectsV1", "ListObjectsV2", "ListMultipartUploads", "ListParts"} -> {"list"}
    [] a \in {"GetObject", "HeadObject", "GetObjectTagging"} -> {"read"}
    [] a \in {"PutObject", "CreateMultipartUpload", "UploadPart", "CompleteMultipartUpload",
              "AbortMultipartUpload"} -> {"write"}
    [] a \in {"CopyObject", "UploadPartCopy"} -> {"write", "read"}
    [] a \in {"DeleteObject", "DeleteObjects"} -> {"delete"}
    [] a \in {"PutObjectTagging", "DeleteObjectTagging"} -> {"tags"}
    [] OTHER -> {}

\* User.Permissions: a named grant answers alone, and an empty wildcard is none.
Held(u) == IF u.named THEN u.grant ELSE u.allBuckets
Reached(u) == u.named \/ u.allBuckets # {}

AuthorizeBucket(u, want) == Reached(u) /\ want \subseteq Held(u)

---------------------------------------------------------------------------
(* One request.                                                            *)

Answer(code) == pc' = "done" /\ status' = code /\ written' = written + 1

\* BucketRegistry.Authenticate, which the signature decides.
Authenticate ==
  /\ pc = "new"
  /\ \/ Answer(403) /\ UNCHANGED act
     \/ pc' = "known" /\ UNCHANGED <<act, status, written>>
  /\ UNCHANGED <<req, user>>

newTarget ==
  /\ pc = "known"
  /\ CASE req.path = "root" /\ req.method = "GET" ->
            act' = "ListBuckets" /\ pc' = "authorized" /\ UNCHANGED <<status, written>>
       [] req.path = "root" /\ req.method # "GET" -> Answer(400) /\ UNCHANGED act
       [] OTHER -> act' = classifyAction(req) /\ pc' = "named" /\ UNCHANGED <<status, written>>
  /\ UNCHANGED <<req, user>>

authorize ==
  /\ pc = "named"
  /\ IF AuthorizeBucket(user, RequiredPermissions(act))
       THEN pc' = "authorized" /\ UNCHANGED <<status, written>>
       ELSE Answer(403)
  /\ UNCHANGED <<req, user, act>>

\* The handler for the action: it writes an answer, fails before writing one, or
\* writes one and fails while sending it.
dispatch ==
  /\ pc = "authorized"
  /\ CASE act = "Unknown" -> Answer(405)
       [] act = "UnsupportedSubresource" -> pc' = "failed" /\ UNCHANGED <<status, written>>
       [] OTHER -> \/ pc' = "handled" /\ status' = 200 /\ written' = written + 1
                   \/ pc' = "failed" /\ status' = 200 /\ written' = written + 1
                   \/ pc' = "failed" /\ UNCHANGED <<status, written>>
  /\ UNCHANGED <<req, user, act>>

\* The status of a failure, 502 standing for the S3 error it classifies as.
fail == IF act = "UnsupportedSubresource" THEN 501 ELSE 502

\* serve writes the failure a handler left unwritten.
serve ==
  /\ \/ pc = "handled" /\ UNCHANGED <<status, written>>
     \/ pc = "failed" /\ status # 0 /\ UNCHANGED <<status, written>>
     \/ pc = "failed" /\ status = 0
        /\ status' = fail /\ written' = written + 1
  /\ pc' = "done" /\ UNCHANGED <<req, user, act>>

Next == Authenticate \/ newTarget \/ authorize \/ dispatch \/ serve

Spec == Init /\ [][Next]_vars

---------------------------------------------------------------------------
(* What the handler of each action does to the bucket's data (dispatch).   *)

Handled == act # None /\ pc \in {"authorized", "handled", "failed"}

Reading == {"GetObject", "HeadObject", "CopyObject", "UploadPartCopy", "GetObjectTagging"}
Writing == {"PutObject", "CopyObject", "CreateMultipartUpload", "UploadPart", "UploadPartCopy",
            "CompleteMultipartUpload", "AbortMultipartUpload"}
Deleting == {"DeleteObject", "DeleteObjects"}
Tagging == {"PutObjectTagging", "DeleteObjectTagging"}
Mutating == Writing \cup Deleting \cup Tagging

Effects ==
  {p \in Permissions :
     \/ p = "read" /\ act \in Reading
     \/ p = "write" /\ act \in Writing
     \/ p = "delete" /\ act \in Deleting
     \/ p = "tags" /\ act \in Tagging}

Actions == Reading \cup Mutating \cup {"ListBuckets", "HeadBucket", "GetBucketVersioning",
  "GetBucketLocation", "ListMultipartUploads", "ListObjectsV1", "ListObjectsV2", "ListParts",
  "UnsupportedSubresource", "Unknown", None}

TypeOK ==
  /\ pc \in {"new", "known", "named", "authorized", "handled", "failed", "done"}
  /\ act \in Actions /\ status \in {0, 200, 400, 403, 405, 501, 502} /\ written \in 0..2

\* A handler reads, writes, deletes or tags only where the caller's grant on the
\* bucket says so, a named grant narrowing a wildcard (authorize, dispatch).
EffectsGranted == Handled => Effects \subseteq Held(user)

\* A request the read pool admits never changes data, so writes and the pool
\* that bounds them cannot be gone around (isWriteMethod, classifyAction).
ReadPoolOnlyReads ==
  Handled /\ act \in Mutating => req.method \in {"PUT", "POST", "DELETE"}

\* Every request is answered exactly once, whatever fails on the way (serve,
\* reject, fail).
AnsweredOnce == (pc = "done" => written = 1 /\ status # 0) /\ written <= 1

=============================================================================
