----------------------------- MODULE Reconcile ------------------------------
(***************************************************************************)
(* Reconciling one backend with the ledger (proxy/reconcile): the          *)
(* scheduled sync, which imports what it lists and the ledger does not     *)
(* know, and the on-demand merge, which also removes rows whose path the   *)
(* listing lacks.  Both list the backend a page at a time while writes,    *)
(* placed copies, deletes and the cleanup worker go on.                    *)
(*                                                                         *)
(* A path stands for one write's bytes and is used once, as storage paths  *)
(* are; paths are numbered in byte order.  created_at is kept only as      *)
(* whether it is after the pass's cutoff, listedAt less the clock grace.   *)
(***************************************************************************)
EXTENDS Naturals, Sequences, FiniteSets, SequencesExt

CONSTANTS NPaths, PageSize,
          BudgetPages,   \* listing pages a pass may spend
          Copied,        \* copies are placed on this backend by moves and replication
          Foreign,       \* paths that others write to the backend
          Kinds          \* the passes that run, among "sync" and "merge"

Paths == 1..NPaths

VARIABLES
  bytes, intents, rows, queue,  \* the backend's paths, and those the ledger names
  fresh,     \* paths not used yet
  recent,    \* rows whose created_at is after the cutoff of the pass
  pass,      \* the pass under way: "none", "sync" or "merge"
  pc,        \* "walk", "page" (listed, not looked up), "import" (classified)
  buf, listed, ending,  \* entries listed and not used, the last listed, how the listing ended
  page, read, done,     \* the same of the ledger cursor
  pages

ledger == <<intents, rows, queue>>
local == <<pass, pc, buf, listed, ending, page, read, done, pages>>
vars == <<bytes, ledger, fresh, recent, local>>

Fresh == Paths \ Foreign

Init ==
  /\ bytes = {} /\ intents = {} /\ rows = {} /\ queue = {}
  /\ fresh = Paths
  /\ recent = {}
  /\ pass = "none" /\ pc = "walk"
  /\ buf = <<>> /\ listed = 0 /\ ending = "no"
  /\ page = <<>> /\ read = 0 /\ done = FALSE
  /\ pages = 0

-----------------------------------------------------------------------------
(* Writes, deletes and the cleanup worker *)

\* A write's intent is recorded before its bytes are sent.
Claim(p) ==
  /\ p \in fresh \cap Fresh
  /\ fresh' = fresh \ {p} /\ intents' = intents \cup {p}
  /\ UNCHANGED <<bytes, rows, queue, recent, local>>

Upload(p) ==
  /\ p \in intents \ bytes
  /\ bytes' = bytes \cup {p}
  /\ UNCHANGED <<ledger, fresh, recent, local>>

\* RecordObject: the row takes the time of its transaction.
RecordObject(p) ==
  /\ p \in intents \cap bytes
  /\ intents' = intents \ {p} /\ rows' = rows \cup {p}
  /\ recent' = recent \cup {p}
  /\ UNCHANGED <<bytes, queue, fresh, local>>

\* PlaceCopy: the row repeats its source's, created_at included.
PlaceCopy(p) ==
  /\ Copied /\ p \in intents \cap bytes
  /\ intents' = intents \ {p} /\ rows' = rows \cup {p}
  /\ UNCHANGED <<bytes, queue, fresh, recent, local>>

\* A delete, an overwrite or a move away queues the bytes.
DeleteObject(p) ==
  /\ p \in rows
  /\ rows' = rows \ {p} /\ queue' = queue \cup {p}
  /\ UNCHANGED <<bytes, intents, fresh, recent, local>>

CleanupBytes(p) ==
  /\ p \in queue \cap bytes
  /\ bytes' = bytes \ {p}
  /\ UNCHANGED <<ledger, fresh, recent, local>>

CleanupRow(p) ==
  /\ p \in queue \ bytes
  /\ queue' = queue \ {p}
  /\ UNCHANGED <<bytes, intents, rows, fresh, recent, local>>

\* Somebody else writes an object to the bucket, or the backend loses one.
ForeignPut(p) ==
  /\ p \in fresh \cap Foreign
  /\ fresh' = fresh \ {p} /\ bytes' = bytes \cup {p}
  /\ UNCHANGED <<ledger, recent, local>>

Lose(p) ==
  /\ p \in bytes \cap rows
  /\ bytes' = bytes \ {p}
  /\ UNCHANGED <<ledger, fresh, recent, local>>

-----------------------------------------------------------------------------
(* Both passes *)

\* The pass returns, and what it kept is gone.
Ends ==
  /\ pass' = "none" /\ pc' = "walk"
  /\ buf' = <<>> /\ listed' = 0 /\ ending' = "no"
  /\ page' = <<>> /\ read' = 0 /\ done' = FALSE
  /\ pages' = 0

\* listedAt is taken; what was written before may be out of the grace or not.
Start(kind) ==
  /\ pass = "none"
  /\ pass' = kind
  /\ recent' \in {recent, {}}
  /\ UNCHANGED <<bytes, ledger, fresh, pc, buf, listed, ending, page, read, done, pages>>

\* The first PageSize members of S after a, in order.
PageAfter(S, a) ==
  LET rest == SetToSortSeq({p \in S : p > a}, <)
  IN  SubSeq(rest, 1, IF Len(rest) < PageSize THEN Len(rest) ELSE PageSize)

\* A listing that asks for one page only.
OnePage(next) == TRUE

\* Whether nothing follows a page: the listing says so with the page.
LastPage(next) == \A p \in bytes : p <= IF next = <<>> THEN listed ELSE Last(next)

\* One ListObjects page.  It is charged whatever comes of it, and the walk ends
\* in an error once the budget allows no more.
ListPage ==
  LET next == PageAfter(bytes, listed) IN
  /\ pass # "none" /\ pc = "walk" /\ ending = "no"
  /\ pass = "sync" => buf = <<>>
  /\ pass = "merge" => Len(buf) < PageSize
  /\ buf' = buf \o next
  /\ listed' = IF next = <<>> THEN listed ELSE Last(next)
  /\ pages' = IF next = <<>> THEN pages ELSE pages + 1
  /\ ending' = IF next # <<>> /\ pages' >= BudgetPages THEN "budget"
               ELSE IF LastPage(next) THEN "end" ELSE "no"
  /\ pc' = IF pass = "sync" THEN "page" ELSE "walk"
  /\ UNCHANGED <<bytes, ledger, fresh, recent, pass, page, read, done>>

Tracked == intents \cup rows \cup queue

\* Import: one ListedPathStates for the whole page.
Import ==
  /\ pc = "page"
  /\ buf' = SelectSeq(buf, LAMBDA p : p \notin Tracked)
  /\ pc' = "walk"
  /\ UNCHANGED <<bytes, ledger, fresh, recent, pass, listed, ending, page, read, done, pages>>

\* The next step of the merge, when both cursors hold an entry or have ended.
Ready == pc = "walk" /\ (buf # <<>> \/ ending # "no") /\ (pass = "merge" => page # <<>> \/ done)
Importing ==
  /\ Ready /\ buf # <<>>
  /\ IF page = <<>> THEN TRUE ELSE Head(buf) < Head(page)

\* ClassifyImport reads the stored bytes; a failed read ends a sync and is
\* logged by a merge.
ClassifyImport ==
  /\ pass # "none" /\ Importing
  /\ IF Head(buf) \in bytes
     THEN pc' = "import" /\ UNCHANGED <<pass, buf, listed, ending, page, read, done, pages>>
     ELSE IF pass = "sync" THEN Ends
     ELSE buf' = Tail(buf) /\ UNCHANGED <<pass, pc, listed, ending, page, read, done, pages>>
  /\ UNCHANGED <<bytes, ledger, fresh, recent>>

\* ImportObject looks the path up again in its transaction; the row takes the
\* listed modification time.
ImportObject ==
  /\ pc = "import"
  /\ rows' = IF Head(buf) \in Tracked THEN rows ELSE rows \cup {Head(buf)}
  /\ buf' = Tail(buf) /\ pc' = "walk"
  /\ UNCHANGED <<bytes, intents, queue, fresh, recent, pass, listed, ending, page, read, done, pages>>

-----------------------------------------------------------------------------
(* The merge *)

\* A page of the ledger cursor, fetched when the last is used up.
LedgerPage ==
  LET next == PageAfter(rows, read) IN
  /\ pass = "merge" /\ pc = "walk" /\ page = <<>> /\ ~done
  /\ page' = next
  /\ read' = IF next = <<>> THEN read ELSE Last(next)
  /\ done' = (Len(next) < PageSize)
  /\ UNCHANGED <<bytes, ledger, fresh, recent, pass, pc, buf, listed, ending, pages>>

\* Neither a key the listing still has to reach nor a listing that stopped
\* short says that a path is absent.
Absent == IF buf = <<>> THEN ending = "end" ELSE Head(page) < Head(buf)

AfterCutoff(p) == p \in recent

\* DeleteHandler: a row written after the cutoff is kept; any other is removed
\* while it still names the path, and the path's queued cleanups with it.
DeleteStep ==
  /\ pass = "merge" /\ Ready /\ page # <<>> /\ Absent
  /\ IF AfterCutoff(Head(page)) \/ Head(page) \notin rows
     THEN UNCHANGED <<rows, queue>>
     ELSE rows' = rows \ {Head(page)} /\ queue' = queue \ {Head(page)}
  /\ page' = Tail(page)
  /\ UNCHANGED <<bytes, intents, fresh, recent, pass, pc, buf, listed, ending, read, done, pages>>

MatchStep ==
  /\ pass = "merge" /\ Ready /\ page # <<>> /\ buf # <<>> /\ Head(page) = Head(buf)
  /\ page' = Tail(page) /\ buf' = Tail(buf)
  /\ UNCHANGED <<bytes, ledger, fresh, recent, pass, pc, listed, ending, read, done, pages>>

\* Both streams are used up, or the listing ended in an error.
EndPass ==
  /\ pass # "none" /\ pc = "walk" /\ buf = <<>> /\ ending # "no"
  /\ pass = "merge" /\ ending = "end" => page = <<>> /\ done
  /\ Ends
  /\ UNCHANGED <<bytes, ledger, fresh, recent>>

-----------------------------------------------------------------------------

PassStep == ListPage \/ Import \/ ClassifyImport \/ ImportObject \/ LedgerPage
              \/ DeleteStep \/ MatchStep \/ EndPass

Next ==
  \/ \E p \in Paths : Claim(p) \/ Upload(p) \/ RecordObject(p) \/ PlaceCopy(p) \/ DeleteObject(p)
                        \/ CleanupBytes(p) \/ CleanupRow(p) \/ ForeignPut(p) \/ Lose(p)
  \/ \E kind \in Kinds : Start(kind)
  \/ PassStep

Spec == Init /\ [][Next]_vars

-----------------------------------------------------------------------------
(* Properties *)

\* The variables have their types, and a stream is ascending and behind the
\* key it was read up to.
TypeOK ==
  /\ bytes \subseteq Paths /\ intents \subseteq Paths /\ rows \subseteq Paths /\ queue \subseteq Paths
  /\ fresh \subseteq Paths /\ recent \subseteq Paths
  /\ pass \in Kinds \cup {"none"} /\ pc \in {"walk", "page", "import"}
  /\ buf \in Seq(Paths) /\ page \in Seq(Paths)
  /\ listed \in 0..NPaths /\ read \in 0..NPaths /\ done \in BOOLEAN
  /\ ending \in {"no", "end", "budget"}
  /\ pages \in 0..NPaths + 1
  /\ \A s \in {buf, page} : \A i, j \in 1..Len(s) : i < j => s[i] < s[j]
  /\ \A i \in 1..Len(buf) : buf[i] <= listed
  /\ \A i \in 1..Len(page) : page[i] <= read

\* A path is named by one of an intent, a row and a queued delete, whatever a
\* pass imports from a listing and a lookup taken earlier (ImportObject).
OneOwner == intents \cap rows = {} /\ intents \cap queue = {} /\ rows \cap queue = {}

\* A merge removes no row whose bytes are on the backend, however old its
\* listing is ("Rows written after the listing started ... are left alone,
\* since their bytes may have landed behind the listing",
\* web/content/diagrams/background-services.md).
KeptWhileStored ==
  DeleteStep => \A p \in rows \ rows' : p \notin bytes

\* What a pass imports is on the backend ("a cleanup finishing concurrently
\* cannot slip between the check and the insert",
\* web/content/diagrams/background-services.md).
ImportedIsStored ==
  ImportObject => rows' \ rows \subseteq bytes
=============================================================================
