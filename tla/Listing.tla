------------------------------ MODULE Listing ------------------------------
(***************************************************************************)
(* Listing objects by page: core.ListPage over the two engines' flat and   *)
(* delimited readers, the ListObjects V1 and V2 handlers that hand a       *)
(* client its pages, and the dashboard's directory listing.                *)
(*                                                                         *)
(* A key is a sequence of character codes, so that the seeks just past a   *)
(* key and just past a group are computed as the code computes them.  The  *)
(* ledger changes between two pages.                                       *)
(***************************************************************************)
EXTENDS Integers, Sequences, FiniteSets, SequencesExt

CONSTANTS Slash, MaxRune,   \* the codes of '/' and of the highest code point
          Bucket,           \* the bucket listed, a sequence of codes
          Keys,             \* the internal keys that may hold an object
          Asked, Delims,    \* what a client asks for, in its own key space
          PageSizes,        \* max-keys values
          Backends,
          Tables,           \* the ledgers a behaviour may start from
          MaxChanges        \* bound: ledger changes in one behaviour

VARIABLES engine,    \* the store in use
          rows,      \* object_locations
          clock,     \* the database clock and the next rowid
          changes,   \* ledger changes so far
          req        \* the client's walk through the pages

vars == <<engine, rows, clock, changes, req>>

None == <<>>
Engines == {"postgres", "sqlite"}
Row == [key : Keys, backend : Backends, managed : BOOLEAN, at : Nat, id : Nat]

----------------------------------------------------------------------------
(* Keys and key ranges                                                     *)

\* Byte order: COLLATE "C" in Postgres, BINARY in SQLite.
Less(s, t) ==
  \E i \in 1..Len(t) :
    /\ i <= Len(s) + 1
    /\ \A j \in 1..(i - 1) : s[j] = t[j]
    /\ i > Len(s) \/ s[i] < t[i]

AtLeast(s, t) == ~Less(s, t)

Lowest(S) == CHOOSE k \in S : \A j \in S : AtLeast(j, k)

\* The lowest character a stored key can hold.
KeyStep == 1

KeysFromPast(prefix, after) ==
  IF after = None THEN prefix ELSE after \o <<KeyStep + 1>>

KeysFrom(prefix, after) ==
  IF after = None THEN prefix
  ELSE IF Less(prefix, after \o <<KeyStep>>) THEN after \o <<KeyStep>> ELSE prefix

PrefixEnd(prefix) ==
  LET low == {i \in 1..Len(prefix) : prefix[i] # MaxRune} IN
  IF low = {} THEN <<MaxRune>>
  ELSE LET i == CHOOSE i \in low : \A j \in low : j <= i
       IN SubSeq(prefix, 1, i - 1) \o <<prefix[i] + 1>>

\* position(), instr(): where d first occurs in s, 0 when it does not.
Position(d, s) ==
  LET at == {i \in 1..(Len(s) - Len(d) + 1) : SubSeq(s, i, i + Len(d) - 1) = d}
  IN IF d = <<>> \/ at = {} THEN 0 ELSE CHOOSE i \in at : \A j \in at : i <= j

Rest(prefix, key) == SubSeq(key, Len(prefix) + 1, Len(key))

\* The group a key folds into, None when it does not fold.
CommonPrefix(prefix, delim, key) ==
  LET p == Position(delim, Rest(prefix, key))
  IN IF ~IsPrefix(prefix, key) \/ p = 0 THEN None
     ELSE SubSeq(key, 1, Len(prefix) + p + Len(delim) - 1)

----------------------------------------------------------------------------
(* The engines' readers                                                    *)

InRange(from, end) == {r \in rows : AtLeast(r.key, from) /\ Less(r.key, end)}

Managed(from, end) == {r \in InRange(from, end) : r.managed}

KeysOf(R) == {r.key : r \in R}

FirstKeys(S, n) ==
  LET s == SetToSortSeq(S, Less) IN SubSeq(s, 1, IF n < Len(s) THEN n ELSE Len(s))

\* DISTINCT ON (object_key) ... ORDER BY object_key, created_at
PgCopy(k) ==
  LET R == {r \in rows : r.key = k /\ r.managed}
  IN CHOOSE r \in R : \A q \in R : r.at < q.at \/ (r.at = q.at /\ r.id <= q.id)

\* MIN(rowid)
LiteCopy(k) ==
  LET R == {r \in rows : r.key = k /\ r.managed}
  IN CHOOSE r \in R : \A q \in R : r.id <= q.id

PgFlat(from, end, limit) ==
  LET Copies(page) == [i \in DOMAIN page |-> PgCopy(page[i])]
  IN Copies(FirstKeys(KeysOf(Managed(from, end)), limit))

LiteFlat(from, end, limit) ==
  LET Copies(page) == [i \in DOMAIN page |-> LiteCopy(page[i])]
  IN Copies(FirstKeys({k \in Keys : \E r \in Managed(from, end) : r.key = k}, limit))

\* Where the walk goes on: past the whole group of a key that folds, just past
\* a leaf.
Seek(prefix, delim, k) ==
  LET p == Position(delim, Rest(prefix, k))
      e == Len(prefix) + p + Len(delim) - 1
  IN IF p > 0 THEN SubSeq(k, 1, e - 1) \o <<k[e] + 1>>
     ELSE k \o <<KeyStep>>

\* The recursive query: one key per group or leaf.
Walk(prefix, delim, from, end, limit) ==
  LET first(lo) == LET S == KeysOf(Managed(lo, end))
                   IN IF S = {} THEN None ELSE Lowest(S)
      step[n \in 1..limit] ==
        IF n = 1 THEN first(from)
        ELSE IF step[n - 1] = None THEN None
        ELSE first(Seek(prefix, delim, step[n - 1]))
  IN SelectSeq([n \in 1..limit |-> step[n]], LAMBDA k : k # None)

\* A group's row takes placeholder columns, which buildPage discards.
IsLeaf(prefix, delim, k) == Position(delim, Rest(prefix, k)) = 0

PgDelimited(prefix, delim, from, end, limit) ==
  LET Copies(w) == [i \in DOMAIN w |-> IF IsLeaf(prefix, delim, w[i]) THEN PgCopy(w[i])
                                       ELSE [key |-> w[i], at |-> 0]]
  IN Copies(Walk(prefix, delim, from, end, limit))

LiteDelimited(prefix, delim, from, end, limit) ==
  LET Copies(w) == [i \in DOMAIN w |-> IF IsLeaf(prefix, delim, w[i]) THEN LiteCopy(w[i])
                                       ELSE [key |-> w[i], at |-> 0]]
  IN Copies(Walk(prefix, delim, from, end, limit))

\* The reader a page comes from.
Read(prefix, delim, from, end, limit) ==
  IF engine = "postgres"
  THEN IF delim = <<>> THEN PgFlat(from, end, limit) ELSE PgDelimited(prefix, delim, from, end, limit)
  ELSE IF delim = <<>> THEN LiteFlat(from, end, limit) ELSE LiteDelimited(prefix, delim, from, end, limit)

----------------------------------------------------------------------------
(* Pages                                                                   *)

EmptyPage == [entries |-> <<>>, truncated |-> FALSE, token |-> None]

TrimPage(s, limit) == SubSeq(s, 1, IF Len(s) > limit THEN limit ELSE Len(s))

\* An entry is a leaf with the time it reports, or a common prefix.
Entry(group, r) ==
  IF group # None THEN [name |-> group, group |-> TRUE, at |-> 0]
  ELSE [name |-> r.key, group |-> FALSE, at |-> r.at]

Entries(page, prefix, delim) ==
  [i \in DOMAIN page |-> Entry(CommonPrefix(prefix, delim, page[i].key), page[i])]

PageOf(entries, more) ==
  [entries |-> entries, truncated |-> more,
   token |-> IF more THEN Last(entries).name ELSE None]

BuildPage(read, prefix, delim, max) ==
  PageOf(Entries(TrimPage(read, max), prefix, delim), Len(read) > max)

\* Where a page's keys start: past the group the last page ended with, or just
\* past its last key.
ResumeKey(prefix, delim, after) ==
  IF after # None /\ CommonPrefix(prefix, delim, after) = after
  THEN PrefixEnd(after) ELSE KeysFrom(prefix, after)

ListPage(prefix, delim, after, max) ==
  IF max <= 0 THEN EmptyPage
  ELSE BuildPage(Read(prefix, delim, ResumeKey(prefix, delim, after), PrefixEnd(prefix), max + 1),
                 prefix, delim, max)

BucketPrefix == Bucket \o <<Slash>>

\* Keys and common prefixes with the bucket cut off.
BuildListContents(entries) ==
  [i \in DOMAIN entries |->
     [entries[i] EXCEPT !.name = Rest(BucketPrefix, entries[i].name)]]

InBucket(page) ==
  [entries |-> BuildListContents(page.entries), truncated |-> page.truncated,
   token |-> IF page.token = None THEN None ELSE Rest(BucketPrefix, page.token)]

ListBucket(prefix, delim, startAfter, max) ==
  InBucket(ListPage(BucketPrefix \o prefix, delim,
                    IF startAfter = None THEN None ELSE BucketPrefix \o startAfter, max))

\* Where a client goes on.  V1 names NextMarker only under a delimiter;
\* otherwise the client resumes from the last key it was given.
ResumeV1(page, delim) ==
  IF delim # <<>> THEN page.token ELSE page.entries[Len(page.entries)].name

ResumeV2(page, delim) == page.token

----------------------------------------------------------------------------
(* The dashboard's directory listing, in the internal key space            *)

DirName(prefix, key) ==
  LET p == Position(<<Slash>>, Rest(prefix, key))
  IN IF p > 0 THEN SubSeq(Rest(prefix, key), 1, p) ELSE Rest(prefix, key)

Children(prefix) == {r \in InRange(prefix, PrefixEnd(prefix)) : Len(r.key) > Len(prefix)}

IsDir(prefix, r) == Position(<<Slash>>, Rest(prefix, r.key)) > 0

Under(prefix, C, name) == {r \in C : DirName(prefix, r.key) = name}

StatsOf(prefix, C) ==
  {[name |-> DirName(prefix, r.key), dir |-> IsDir(prefix, r),
    files |-> Cardinality(KeysOf(Under(prefix, C, DirName(prefix, r.key)))),
    copies |-> Cardinality(Under(prefix, C, DirName(prefix, r.key)))] : r \in C}

DirStats(prefix) == StatsOf(prefix, Children(prefix))

DirFiles(prefix, after, limit) ==
  FirstKeys(KeysOf({r \in InRange(KeysFrom(prefix, after), PrefixEnd(prefix)) :
                      Len(r.key) > Len(prefix) /\ ~IsDir(prefix, r)}), limit)

\* Every directory, and the files of this page.
BuildDirectoryListing(prefix, stats, files, max) ==
  LET page == TrimPage(files, max)
      shown == {s \in stats : s.dir \/ \E i \in DOMAIN page : Rest(prefix, page[i]) = s.name}
  IN [entries |-> SetToSeq({[name |-> prefix \o s.name, group |-> s.dir, at |-> 0] : s \in shown}),
      truncated |-> Len(files) > max,
      token |-> IF Len(files) > max THEN page[max] ELSE None]

ListDirectoryChildren(prefix, after, max) ==
  BuildDirectoryListing(prefix, DirStats(prefix), DirFiles(prefix, after, max + 1), max)

----------------------------------------------------------------------------
(* The ledger changes under the client                                     *)

Idle == [kind |-> "idle"]

Kinds == {"v1", "v2", "dir"}

\* What a listing of this kind may name.
Visible(kind) == IF kind = "dir" THEN KeysOf(rows) ELSE KeysOf({r \in rows : r.managed})

Matching(kind, prefix) ==
  {k \in Visible(kind) : IF kind = "dir" THEN IsPrefix(prefix, k) /\ Len(k) > Len(prefix)
                         ELSE IsPrefix(BucketPrefix \o prefix, k)}

Init ==
  /\ engine \in Engines
  /\ rows \in Tables
  /\ clock = Cardinality(Keys) + 1
  /\ changes = 0
  /\ req = Idle

Change(newRows) ==
  /\ changes < MaxChanges
  /\ changes' = changes + 1
  /\ clock' = clock + 1
  /\ rows' = newRows
  /\ req' = IF req = Idle THEN req
            ELSE [req EXCEPT !.steady = @ \cap
                    {r.key : r \in {q \in newRows : req.kind = "dir" \/ q.managed}}]
  /\ UNCHANGED engine

Of(k) == {r \in rows : r.key = k}

\* A write replaces every copy of its key.
RecordObject(k, b) ==
  Change((rows \ Of(k)) \cup
         {[key |-> k, backend |-> b, managed |-> TRUE, at |-> clock, id |-> clock]})

\* A later copy of the same write is stamped when it commits.
CommitCompanionCopy(k, b) ==
  /\ \E r \in Of(k) : r.managed
  /\ ~\E r \in Of(k) : r.backend = b
  /\ Change(rows \cup {[key |-> k, backend |-> b, managed |-> TRUE, at |-> clock, id |-> clock]})

\* A move keeps the copy's time and takes a new row.
PlaceCopy(r, b) ==
  /\ r.managed
  /\ ~\E q \in Of(r.key) : q.backend = b
  /\ Change((rows \ {r}) \cup {[r EXCEPT !.backend = b, !.id = clock]})

ImportObject(k, b) ==
  /\ Of(k) = {}
  /\ Change(rows \cup {[key |-> k, backend |-> b, managed |-> FALSE, at |-> clock, id |-> clock]})

DeleteObject(k) == Of(k) # {} /\ Change(rows \ Of(k))

----------------------------------------------------------------------------
(* A client's walk through the pages                                       *)

StartListing(kind, prefix, delim, max) ==
  /\ req = Idle
  /\ kind = "dir" => delim = <<Slash>> /\ (prefix # <<>> => Last(prefix) = Slash)
  /\ req' = [kind |-> kind, prefix |-> prefix, delim |-> delim, max |-> max,
             cursor |-> None, seen |-> <<>>, done |-> FALSE,
             steady |-> Matching(kind, prefix)]
  /\ UNCHANGED <<engine, rows, clock, changes>>

Page ==
  IF req.kind = "dir" THEN ListDirectoryChildren(req.prefix, req.cursor, req.max)
  ELSE ListBucket(req.prefix, req.delim, req.cursor, req.max)

Resume(page) ==
  IF ~page.truncated THEN None
  ELSE IF req.kind = "v1" THEN ResumeV1(page, req.delim) ELSE ResumeV2(page, req.delim)

Shown(page) ==
  [req EXCEPT !.seen = @ \o page.entries, !.done = ~page.truncated, !.cursor = Resume(page)]

NextPage ==
  /\ req # Idle /\ ~req.done
  /\ req' = Shown(Page)
  /\ UNCHANGED <<engine, rows, clock, changes>>

EndListing ==
  /\ req # Idle /\ req.done
  /\ req' = Idle
  /\ UNCHANGED <<engine, rows, clock, changes>>

Next ==
  \/ \E k \in Keys, b \in Backends :
       RecordObject(k, b) \/ CommitCompanionCopy(k, b) \/ ImportObject(k, b)
  \/ \E r \in rows, b \in Backends : PlaceCopy(r, b)
  \/ \E k \in Keys : DeleteObject(k)
  \/ \E kind \in Kinds, p \in Asked, d \in Delims, m \in PageSizes :
       StartListing(kind, p, d, m)
  \/ NextPage
  \/ EndListing

Spec == Init /\ [][Next]_vars

----------------------------------------------------------------------------
(* Properties                                                              *)

\* The ledger holds one row per key and backend, and a walk's cursor is None
\* exactly at its start and end (object_locations' primary key, NextPage).
TypeOK ==
  /\ engine \in Engines
  /\ \A r \in rows : r \in Row /\ r.at < clock /\ r.id < clock
  /\ \A r, q \in rows : r.key = q.key /\ r.backend = q.backend => r = q
  /\ changes \in 0..MaxChanges
  /\ req # Idle => /\ req.kind \in Kinds
                   /\ req.done => req.cursor = None
                   /\ req.steady \subseteq Keys

Full(name) == IF req.kind = "dir" THEN name ELSE BucketPrefix \o name

GroupOf(k) ==
  IF req.kind = "dir" THEN CommonPrefix(req.prefix, <<Slash>>, k)
  ELSE CommonPrefix(BucketPrefix \o req.prefix, req.delim, k)

\* A client that follows the pages to the end was shown every object that was
\* there all along, itself or inside a common prefix, whatever was written,
\* moved or deleted between two pages (ListPage, buildPage, the two handlers
\* and BuildDirectoryListing).
NoneSkipped ==
  req # Idle /\ req.done =>
    \A k \in req.steady : \E i \in DOMAIN req.seen :
      Full(req.seen[i].name) = (IF req.seen[i].group THEN GroupOf(k) ELSE k)

\* What S3 answers: the names after the cursor, a key that holds the delimiter
\* standing for its group, the first max of them, and whether any is left.
S3Names(prefix, delim, after) ==
  {IF CommonPrefix(prefix, delim, k) # None THEN CommonPrefix(prefix, delim, k) ELSE k :
     k \in {j \in KeysOf({r \in rows : r.managed}) :
             /\ IsPrefix(prefix, j)
             /\ after # None => Less(after, j) /\ CommonPrefix(prefix, delim, j) \notin {after} \ {None}}}

S3Page(prefix, delim, after, max) ==
  [names |-> FirstKeys(S3Names(prefix, delim, after), max),
   truncated |-> max > 0 /\ Cardinality(S3Names(prefix, delim, after)) > max]

\* Every page the store builds is the page S3 would answer, for every prefix,
\* delimiter, cursor and page size, on either engine (ListPage over listFlat
\* and listDelimited): the loose index scan skips whole groups and nothing else.
PageIsS3Page ==
  req = Idle =>
    \A p \in Asked, d \in Delims, m \in PageSizes \cup {0} :
      \A after \in {None} \cup Keys \cup {CommonPrefix(BucketPrefix \o p, d, k) : k \in Keys} :
        LET page == ListPage(BucketPrefix \o p, d, after, m)
            want == S3Page(BucketPrefix \o p, d, after, m)
        IN /\ [i \in DOMAIN page.entries |-> page.entries[i].name] = want.names
           /\ page.truncated = want.truncated

\* The directory roll-ups count every key under the prefix once, whatever the
\* number of its copies, and every copy once (GetDirectoryStats,
\* queryDirectoryStats).
RECURSIVE Total(_)
Total(S) == IF S = {} THEN 0 ELSE LET s == CHOOSE s \in S : TRUE IN s.files + Total(S \ {s})

DirectoryAddsUp ==
  req = Idle =>
    \A p \in Asked : p = <<>> \/ Last(p) = Slash =>
      Total(DirStats(p)) = Cardinality(KeysOf(Children(p)))

=============================================================================
