------------------------------- MODULE SigV4 -------------------------------
(***************************************************************************)
(* Which identity a signed request authenticates as (transport/auth).      *)
(*                                                                         *)
(* A client signs the wire form of a path, a query and a time with one of  *)
(* its keypairs; the server rebuilds what was signed from the parsed       *)
(* request, checks that it is fresh and looks the keypair up in the        *)
(* registry in force, which a reload rebuilds from config and the store.   *)
(* A signature is what it was computed over; paths are sequences of        *)
(* characters, with "z" for one no encoding touches, "2", "5", "0" and "B" *)
(* for hex digits, and "%", "+" and "_" (a space) for ones it does.        *)
(***************************************************************************)
EXTENDS Integers, Sequences, FiniteSets, SequencesExt

CONSTANTS Paths,        \* decoded paths clients address
          Values,       \* values of a signed header, "t" being a tab
          Day,          \* ticks in a day
          Queries,      \* sets of query parameters, each a name and a value
          AccessKeys, Secrets, UserIDs,
          MaxSkew,      \* sigV4MaxSkew
          MaxExpiry,    \* presignedMaxExpiry
          Expiries,     \* values of X-Amz-Expires
          MaxNow, MaxReloads

None == "none"
Hex == {"2", "5", "0", "B"}
Unreserved == {"z"} \cup Hex

VARIABLES
  view,     \* the credentials declared: config's and the store's
  registry, \* byAccessKey of the registry in force
  req,      \* the signed request in flight
  outcome,  \* of its authentication
  now, reloads

vars == <<view, registry, req, outcome, now, reloads>>

---------------------------------------------------------------------------
(* URL encoding, as the client and net/url do it (external).               *)

Triplet == [c \in {"%", "+", "_"} |->
  CASE c = "%" -> <<"%", "2", "5">> [] c = "+" -> <<"%", "2", "B">> [] OTHER -> <<"%", "2", "0">>]

\* What a client sends for a path: every reserved character but "/" as a triplet.
Wire(p) == FlattenSeq([i \in DOMAIN p |-> IF p[i] \in DOMAIN Triplet THEN Triplet[p[i]] ELSE <<p[i]>>])

\* url.URL.EscapedPath's default encoding, which leaves "+" as it is.
DefaultEscape(p) ==
  FlattenSeq([i \in DOMAIN p |-> IF p[i] \in {"%", "_"} THEN Triplet[p[i]] ELSE <<p[i]>>])

\* RawPath is kept only when the default encoding would not give the wire form back.
RawPath(p) == IF Wire(p) = DefaultEscape(p) THEN << >> ELSE Wire(p)

---------------------------------------------------------------------------
(* The canonical request.                                                  *)

canonicalPath(p) == IF RawPath(p) # << >> THEN RawPath(p) ELSE p

\* A triplet passes through, a raw reserved character is encoded.
encodePath(w) ==
  LET EncodedAt(i) == w[i] = "%" /\ i + 2 <= Len(w) /\ w[i + 1] \in Hex /\ w[i + 2] \in Hex
      enc[i \in 1..(Len(w) + 1)] ==
        IF i > Len(w) THEN << >>
        ELSE IF EncodedAt(i) THEN <<"%", w[i + 1], w[i + 2]>> \o enc[i + 3]
        ELSE IF w[i] \in Unreserved \cup {"/"} THEN <<w[i]>> \o enc[i + 1]
        ELSE Triplet[w[i]] \o enc[i + 1]
  IN  IF w = << >> THEN <<"/">> ELSE enc[1]

\* Byte order of the characters that parameter names and their separator use.
Rank == [c \in {"-", "=", "x", "y"} |-> CASE c = "-" -> 1 [] c = "=" -> 2 [] c = "x" -> 3 [] OTHER -> 4]

\* Whether s sorts before t as Go compares strings.
Before(s, t) ==
  \/ IsStrictPrefix(s, t)
  \/ \E i \in DOMAIN s \cap DOMAIN t :
       /\ \A j \in 1..(i - 1) : s[j] = t[j]
       /\ Rank[s[i]] < Rank[t[i]]

Pair(q) == q[1] \o <<"=">> \o q[2]

\* slices.Sort of the encoded name=value pairs.
buildCanonicalQueryString(query) == SetToSortSeq({Pair(q) : q \in query}, Before)

\* As the SigV4 rules have it: by name, then by value.
SignedQuery(query) ==
  LET ByName(q, r) == Before(q[1], r[1]) \/ (q[1] = r[1] /\ Before(q[2], r[2]))
      s == SetToSortSeq(query, ByName)
  IN  [i \in DOMAIN s |-> Pair(s[i])]

Blank == {"_", "t"}

\* strings.TrimSpace (external).
TrimSpace(v) ==
  LET words == {i \in DOMAIN v : v[i] \notin Blank} IN
    IF words = {} THEN << >> ELSE SubSeq(v, Min(words), Max(words))

\* Every run of blanks becomes one space.
collapseWhitespace(v) ==
  FoldLeft(LAMBDA b, c : IF c \notin Blank THEN Append(b, c)
                         ELSE IF b = << >> \/ Last(b) # "_" THEN Append(b, "_") ELSE b, << >>, v)

writeCanonicalHeadersAndSigned(r) ==
  [host |-> r.host, value |-> collapseWhitespace(TrimSpace(r.value))]

\* What the SigV4 rules sign of a header value: its words with one space between.
SignedHeaders(r) ==
  LET v == r.value
      keep == {i \in DOMAIN v : \/ v[i] \notin Blank
                                \/ /\ i > 1 /\ v[i - 1] \notin Blank
                                   /\ \E j \in (i + 1)..Len(v) : v[j] \notin Blank}
      at == SetToSortSeq(keep, <)
  IN  [host |-> r.host, value |-> [i \in DOMAIN at |-> IF v[at[i]] \in Blank THEN "_" ELSE v[at[i]]]]

\* The signing key is bound to the secret and to the day of the scope.
deriveSigningKey(secret, day) == <<secret, day>>

\* What the client signs, and what the server takes it to have signed.
Signed(r) ==
  [path |-> Wire(r.path), query |-> SignedQuery(r.query), headers |-> SignedHeaders(r)]

buildCanonicalRequest(r) ==
  [path |-> encodePath(canonicalPath(r.path)), query |-> buildCanonicalQueryString(r.query),
   headers |-> writeCanonicalHeadersAndSigned(r)]

\* The signature over a canonical request, its time and the scope.
Signature(canonical, r, secret) == <<deriveSigningKey(secret, r.day), r.time, canonical>>

---------------------------------------------------------------------------
(* The registry.                                                           *)

NoEntry == [secret |-> None, user |-> None]
NoReq == [key |-> None]

\* Config's keypairs first, then the store's where config declares none.
register(v) ==
  [k \in AccessKeys |-> IF v.config[k] # NoEntry THEN v.config[k] ELSE v.store[k]]

Entries == {NoEntry} \cup [secret : Secrets, user : UserIDs]
Views == [config : [AccessKeys -> Entries], store : [AccessKeys -> Entries]]

---------------------------------------------------------------------------
\* The server's clock runs one tick ahead of the least a client's may show.
Clock == now + 1

Init ==
  /\ view \in Views /\ registry = register(view)
  /\ req = NoReq /\ outcome = None /\ now = 0 /\ reloads = 0

\* A client signs a request, with a clock up to one tick off the server's. Some
\* clients leave the host out, or name a scope of another day.
Sign ==
  /\ req = NoReq
  /\ \E p \in Paths, q \in Queries, v \in Values, k \in AccessKeys, s \in Secrets,
        t \in {now, now + 1, now + 2}, e \in Expiries \cup {0}, h \in BOOLEAN, d \in 0..1 :
       LET r == [path |-> p, query |-> q, value |-> v, key |-> k, time |-> t, presigned |-> e # 0,
                 expires |-> e, host |-> h, day |-> d]
       IN  req' = r @@ [secret |-> s, sentAt |-> now, signature |-> Signature(Signed(r), r, s)]
  /\ UNCHANGED <<view, registry, outcome, now, reloads>>

parseSigV4Credential(r) == r.host

parseSigV4Time(r) == r.day = (r.time \div Day)

validatePresignedExpiry(r) == r.expires > 0 /\ r.expires <= MaxExpiry /\ Clock <= r.time + r.expires

fresh(r) ==
  IF r.presigned THEN validatePresignedExpiry(r)
  ELSE Clock - r.time <= MaxSkew /\ r.time - Clock <= MaxSkew

verifySigV4Signature(r, secret) == Signature(buildCanonicalRequest(r), r, secret) = r.signature

\* BucketRegistry.verify with the check of sigV4Claim.verify.
verify(r) ==
  /\ registry[r.key] # NoEntry
  /\ parseSigV4Credential(r) /\ parseSigV4Time(r) /\ fresh(r)
  /\ verifySigV4Signature(r, registry[r.key].secret)

Authenticate ==
  /\ req # NoReq /\ outcome = None
  /\ outcome' = IF verify(req) THEN registry[req.key].user ELSE "refused"
  /\ UNCHANGED <<view, registry, req, now, reloads>>

\* As Reload, a keypair no longer declared staying in the registry.
ReloadKeepingRevoked ==
  /\ reloads < MaxReloads /\ outcome = None
  /\ \E k \in AccessKeys, e \in Entries, src \in {"config", "store"} :
       view' = [view EXCEPT ![src][k] = e]
  /\ registry' = [k \in AccessKeys |-> IF register(view')[k] = NoEntry THEN registry[k] ELSE register(view')[k]]
  /\ reloads' = reloads + 1 /\ UNCHANGED <<req, outcome, now>>

\* A reload, or a provisioning change, builds a registry and swaps it in.
Reload ==
  /\ reloads < MaxReloads /\ outcome = None
  /\ \E k \in AccessKeys, e \in Entries, src \in {"config", "store"} :
       view' = [view EXCEPT ![src][k] = e]
  /\ registry' = register(view')
  /\ reloads' = reloads + 1 /\ UNCHANGED <<req, outcome, now>>

Tick ==
  /\ now < MaxNow /\ outcome = None
  /\ now' = now + 1 /\ UNCHANGED <<view, registry, req, outcome, reloads>>

Next == Sign \/ Authenticate \/ Reload \/ Tick

Spec == Init /\ [][Next]_vars

---------------------------------------------------------------------------
TypeOK ==
  /\ view \in Views /\ registry \in [AccessKeys -> Entries]
  /\ outcome \in {None, "refused"} \cup UserIDs /\ now \in 0..MaxNow

\* The keypair as the sources declare it when the request is verified.
Declared(k) == IF view.config[k] # NoEntry THEN view.config[k] ELSE view.store[k]

\* An accepted request was signed with the secret its access key has when it is
\* verified, and is taken for that keypair's user, config's before the store's
\* (NewBucketRegistry, verify).
AcceptedIsOwner ==
  outcome \in UserIDs => Declared(req.key) = [secret |-> req.secret, user |-> outcome]

\* No request is accepted outside the window its signature declares: the clock
\* skew either way, or a presigned URL's expiry of at most seven days; nor under a
\* scope of another day, or with the host unsigned (fresh, parseSigV4Time).
AcceptedInWindow ==
  outcome \in UserIDs =>
    /\ req.host /\ req.day = req.time \div Day
    /\ IF req.presigned
         THEN req.expires \in 1..MaxExpiry /\ Clock - req.time <= req.expires
         ELSE Clock - req.time \in -MaxSkew..MaxSkew

\* A literal percent sign that two hex digits follow.
PercentHex(p) == \E i \in 1..(Len(p) - 2) : p[i] = "%" /\ p[i + 1] \in Hex /\ p[i + 2] \in Hex

\* A request signed with a live keypair and verified in time.
Honest ==
  /\ Declared(req.key).secret = req.secret
  /\ req.host /\ req.day = req.time \div Day
  /\ IF req.presigned THEN req.expires <= MaxExpiry /\ now - req.sentAt <= req.expires - 1
                      ELSE now - req.sentAt <= MaxSkew - 1

\* A request a client signs over the path it sends is accepted while its keypair
\* stands and it is in time, unless its path holds a percent sign before two hex
\* digits or parameters whose names extend one another (buildCanonicalRequest).
HonestAccepted ==
  outcome = "refused" /\ Honest =>
    PercentHex(req.path) \/ \E q, r \in req.query : IsStrictPrefix(q[1], r[1])

=============================================================================
