---------------------------- MODULE LedgerSteps -----------------------------
(***************************************************************************)
(* What each step of the ledger does: each keeps LedgerInv.  First what    *)
(* the steps have in common, and those that record nothing.  Then the      *)
(* transactions that turn an intent into a row, or that take several       *)
(* intents and rows at once.                                               *)
(***************************************************************************)
EXTENDS ObjectLedger, TLAPS

(* What every step but a claim and a scan has in common: an intent only    *)
(* goes away, a row only comes from an intent whose bytes are stored and   *)
(* whose uploader is done, only what is neither recorded nor claimed is    *)
(* queued, only queued bytes are deleted, only a live upload moves, and    *)
(* the reaper starts only on a stale intent.                               *)
Advance ==
    /\ claimed' = claimed /\ claim' = claim /\ source' = source
    /\ intents' \subseteq intents
    /\ \A x \in rows' \ rows : x \in intents \ intents' /\ x \in stored' /\ ~Live(x)'
    /\ newer' \subseteq rows' \X intents'
    /\ \A c \in cleanup' \ cleanup :
            c \in Used \X {"removed", "overtaken"} /\ c[1] \notin rows' \cup intents'
    /\ stored' \subseteq Used /\ stored \ stored' \subseteq Queued
    /\ wire' \subseteq Used /\ \A x \in wire' \ wire : Live(x)
    /\ phase' \in [Paths -> {"free", "reading", "sending", "sent", "over"}]
    /\ \A x \in Paths : phase'[x] = phase[x] \/ (Live(x) /\ phase'[x] # "free")
    /\ status' \in [Ops -> {"idle", "scanned", "open", "ok", "error", "ended"}]
    /\ \A o \in Ops : status'[o] = status[o]
                      \/ (status[o] \notin {"idle", "scanned"} /\ status'[o] \in {"ok", "error", "ended"})
    /\ probe' \in [Paths -> {"none", "found", "missing"}]
    /\ \A x \in Paths : probe'[x] # "none" => probe[x] # "none" \/ (x \in Used /\ Stale(x))
    /\ \A x \in intents' : Arrived(x)' => Arrived(x) \/ x \in stored'

(* Only bounded paths are ever claimed.                                    *)
LEMMA UsedInPaths ==
    ASSUME TypeOK
    PROVE  Used \subseteq Paths
BY BoundsAssumption DEF TypeOK, Used, Paths

(* Advance keeps the shape of the tables.                                  *)
LEMMA AdvanceTypeOK ==
    ASSUME LedgerInv, Advance
    PROVE  TypeOK'
BY ZenonT(30) DEF LedgerInv, TypeOK, Advance, Used

(* Advance keeps what claims and scans left behind.                        *)
LEMMA AdvanceBookkeeping ==
    ASSUME LedgerInv, Advance
    PROVE  Bookkeeping'
<1> USE DEF LedgerInv, Bookkeeping, Advance
<1>0. Used' = Used /\ Used \subseteq Paths
  BY Zenon, UsedInPaths DEF Used
<1>1. ASSUME NEW p \in Used
      PROVE  /\ claim'[p].op \in Ops /\ claim'[p].backend \in Backends
             /\ phase'[p] # "free"
             /\ status'[claim'[p].op] \notin {"idle", "scanned"}
  BY <1>0
<1>2. ASSUME NEW p \in Paths \ Used
      PROVE  phase'[p] = "free" /\ probe'[p] = "none"
  BY Zenon DEF Live
<1>3. ASSUME NEW o \in Copiers, status'[o] # "idle"
      PROVE  source'[o] \in Used /\ Key(source[o])' = KeyOf[o]
  BY Zenon, <1>3 DEF Key, Ops
<1>4. ASSUME NEW p \in Used
      PROVE  /\ claim'[p].op \in Writes => Content(p)' = claim'[p].op
             /\ claim'[p].op \in Copiers => Content(p)' = Content(source[claim[p].op])'
  BY Zenon DEF Content
<1> QED BY Zenon, <1>0, <1>1, <1>2, <1>3, <1>4

(* Advance queues nothing that is recorded or claimed.                     *)
LEMMA AdvanceSeparation ==
    ASSUME LedgerInv, Advance
    PROVE  Separation'
<1> USE DEF LedgerInv, Separation, Advance
<1>1. (rows \cap intents = {})'
  OBVIOUS
<1>2. QueuedBytesAreDead'
  BY DEF QueuedBytesAreDead, Queued
<1>3. (\A p \in rows : ~Live(p))'
  BY Zenon, UsedInPaths DEF TypeOK, Live
<1> QED BY Zenon, <1>1, <1>2, <1>3

(* Advance records only paths whose bytes have arrived.                    *)
LEMMA AdvanceBytesInPlace ==
    ASSUME LedgerInv, Advance
    PROVE  BytesInPlace'
<1> USE DEF LedgerInv, BytesInPlace, Separation, QueuedBytesAreDead, Advance
<1>1. RecordedBytesStored'
  BY Zenon DEF RecordedBytesStored
<1>2. (\A p \in intents : Arrived(p) => p \in stored)'
  OBVIOUS
<1> QED BY Zenon, <1>1, <1>2

(* An operation that is done stays done.                                   *)
LEMMA AdvanceReaperWaits ==
    ASSUME LedgerInv, Advance, ~ReaperRaces
    PROVE  ReaperWaits'
<1> SUFFICES ASSUME NEW q \in Used, probe'[q] # "none", NEW o \in Elders(q)
             PROVE  Done(o)'
  BY Zenon DEF ReaperWaits, Advance, Used, Elders
<1>1. q \in Paths /\ o \in Ops
  BY UsedInPaths DEF LedgerInv, TypeOK, Bookkeeping, Elders, Used
<1>2. Done(o)
  BY Zenon, <1>1 DEF LedgerInv, ReaperWaits, Advance, Stale
<1>3. status'[o] # "open"
  BY Zenon, <1>1, <1>2 DEF Advance, Done
<1>4. ASSUME NEW p \in PathsOf(o)'
      PROVE  p \notin wire' /\ ~Live(p)'
  BY Zenon, <1>2, UsedInPaths DEF Advance, Done, PathsOf, Used, Live, LedgerInv
<1> QED BY Zenon, <1>3, <1>4 DEF Done

(* So three conjuncts are left to prove for each step.                     *)
LEMMA AdvanceKeeps ==
    ASSUME LedgerInv, Advance, ~ReaperRaces, CopiesAgree', FanoutOwnsKey', FanoutTogether'
    PROVE  LedgerInv'
BY Zenon, AdvanceTypeOK, AdvanceBookkeeping, AdvanceSeparation, AdvanceBytesInPlace,
   AdvanceReaperWaits DEF LedgerInv

(* The three conjuncts that a step can really disturb, when it does not.   *)
LEMMA AgreeFrame ==
    ASSUME LedgerInv, Advance, rows' \subseteq rows
    PROVE  CopiesAgree'
BY Zenon DEF LedgerInv, CopiesAgree, Advance, Key, Content

(* No row appears under a fan-out that still uploads.                      *)
LEMMA OwnsFrame ==
    ASSUME LedgerInv, Advance,
           \A o \in Fanouts : status'[o] = "ok" => status[o] = "ok",
           \A p \in intents', r \in rows' \ rows :
                claim[p].op \in Fanouts /\ status[claim[p].op] = "ok" /\ Live(p)
                /\ Key(r) = Key(p) => Content(r) = claim[p].op
    PROVE  FanoutOwnsKey'
<1> SUFFICES ASSUME NEW p \in intents', claim[p].op \in Fanouts,
                    status'[claim[p].op] = "ok", Live(p)'
             PROVE  /\ \A r \in RowsOf(Key(p))' : Content(r)' = claim[p].op
                    /\ \A q \in IntentsOf(Key(p))' : q < p => claim[q].op = claim[p].op
  BY Zenon DEF FanoutOwnsKey, Advance
<1>1. p \in intents /\ p \in Paths /\ status[claim[p].op] = "ok"
  BY Zenon, UsedInPaths DEF Advance, LedgerInv, TypeOK
<1>2. Live(p)
  BY Zenon, <1>1 DEF Advance, Live
<1>3. ASSUME NEW r \in RowsOf(Key(p))'
      PROVE  Content(r)' = claim[p].op
  BY <1>1, <1>2 DEF LedgerInv, FanoutOwnsKey, RowsOf, Key, Content, Advance
<1>4. ASSUME NEW q \in IntentsOf(Key(p))', q < p
      PROVE  claim[q].op = claim[p].op
  BY <1>1, <1>2, <1>4 DEF LedgerInv, FanoutOwnsKey, IntentsOf, Key, Advance
<1> QED BY Zenon, <1>3, <1>4

(* No running upload of an open fan-out loses its intent alone.            *)
LEMMA TogetherFrame ==
    ASSUME LedgerInv, Advance, \A x \in intents \ intents' : ~Live(x)'
    PROVE  FanoutTogether'
<1> SUFFICES ASSUME NEW p \in Used, NEW q \in Used, claim[p].op = claim[q].op,
                    claim[p].op \in Fanouts, status'[claim[p].op] = "open",
                    Live(p)', Live(q)', p \in intents'
             PROVE  q \in intents'
  BY DEF FanoutTogether, Advance, Used
<1>1. claim[p].op \in Ops /\ p \in Paths /\ q \in Paths
  BY Zenon, UsedInPaths DEF Ops, Writes, LedgerInv
<1>2. status[claim[p].op] = "open" /\ Live(p) /\ Live(q)
  BY Zenon, <1>1 DEF Advance, Live
<1> QED BY Zenon, <1>2 DEF LedgerInv, FanoutTogether, Advance

(* The steps that leave the rows alone and take at most a dead intent.     *)
LEMMA QuietStep ==
    ASSUME LedgerInv, Advance, ~ReaperRaces, rows' \subseteq rows,
           \A x \in intents \ intents' : ~Live(x)',
           \A o \in Fanouts : status'[o] = "ok" => status[o] = "ok"
    PROVE  LedgerInv'
BY Zenon, AdvanceKeeps, AgreeFrame, OwnsFrame, TogetherFrame

(* What a transaction has to check about the tables to be an Advance.      *)
LedgerAdvance ==
    /\ intents' \subseteq intents
    /\ \A x \in rows' \ rows : x \in intents \ intents'
    /\ newer' \subseteq rows' \X intents'
    /\ \A c \in cleanup' \ cleanup :
            c \in Used \X {"removed", "overtaken"} /\ c[1] \notin rows' \cup intents'

(* A transaction that records and clears only intents is an Advance.       *)
LEMMA CommitAdvance ==
    ASSUME NEW R, NEW I, NEW S, NEW Q, Commit(R, I, S, Q), LedgerInv,
           I \subseteq intents, R \ rows \subseteq intents \ I, S \subseteq R \X Used,
           \A c \in Q : c \in Used \X {"removed", "overtaken"} /\ c[1] \notin R \cup I
    PROVE  LedgerAdvance /\ rows' = R /\ intents' = I
<1>1. newer \cup S \subseteq (rows \cup R) \X Used
  BY Zenon DEF LedgerInv, TypeOK
<1>2. newer' \subseteq rows' \X intents'
  BY Zenon, <1>1 DEF Commit
<1> QED BY Zenon, <1>2 DEF Commit, LedgerAdvance

(* DiscardPending is such a transaction.                                   *)
LEMMA DiscardAdvance ==
    ASSUME LedgerInv, NEW p \in Used, DiscardPending(p)
    PROVE  LedgerAdvance /\ rows' = rows /\ intents \ {p} \subseteq intents'
<1>1. CASE Commit(rows, intents \ {p}, {}, Removed({p} \cap intents))
  BY <1>1, CommitAdvance, {} \subseteq rows \X Used DEF Removed, LedgerInv, Separation
<1>2. CASE UNCHANGED ledger
  BY Zenon, <1>2 DEF ledger, LedgerAdvance, LedgerInv, TypeOK
<1> QED BY Zenon, <1>1, <1>2 DEF DiscardPending

(* The reaper acts only on intents whose uploader is gone.                 *)
LEMMA ReapedIsDead ==
    ASSUME LedgerInv, NEW q \in Used, probe[q] # "none"
    PROVE  ~Live(q)
<1>1. claim[q].op \in Elders(q) /\ q \in PathsOf(claim[q].op)
  BY DEF Elders, PathsOf, Used, LedgerInv, TypeOK
<1> QED BY Zenon, <1>1 DEF LedgerInv, ReaperWaits, Done

(* ReadSource: only an upload starts.                                      *)
LEMMA ReadSourceStep ==
    ASSUME LedgerInv, ~ReaperRaces, NEW p \in Used, ReadSource(p)
    PROVE  LedgerInv'
<1>1. Advance
  BY Zenon, UsedInPaths DEF Advance, ReadSource, LedgerInv, TypeOK, Live, Used, uploads, ledger, Arrived
<1>2. QED
  BY Zenon, <1>1, QuietStep DEF ReadSource, LedgerInv, Live, ledger

(* Land: bytes arrive and nothing is recorded.                             *)
LEMMA LandStep ==
    ASSUME LedgerInv, ~ReaperRaces, NEW p \in Used, Land(p)
    PROVE  LedgerInv'
<1>1. Advance
  BY Zenon, UsedInPaths DEF Advance, Land, LedgerInv, TypeOK, Live, Used, uploads, ledger, Arrived
<1>2. QED
  BY Zenon, <1>1, QuietStep DEF Land, LedgerInv, Live, ledger

(* Lost: the upload has no one waiting for it.                             *)
LEMMA LostStep ==
    ASSUME LedgerInv, ~ReaperRaces, NEW p \in Used, Lost(p)
    PROVE  LedgerInv'
<1>1. Advance
  BY Zenon, UsedInPaths DEF Advance, Lost, LedgerInv, TypeOK, Live, Used, uploads, ledger, Arrived
<1>2. QED
  BY Zenon, <1>1, QuietStep DEF Lost, LedgerInv, Live, ledger

(* UploadOk: an answered upload is off the wire.                           *)
LEMMA UploadOkStep ==
    ASSUME LedgerInv, ~ReaperRaces, NEW p \in Used, UploadOk(p)
    PROVE  LedgerInv'
<1>1. Advance
  BY Zenon, UsedInPaths DEF Advance, UploadOk, LedgerInv, TypeOK, Live, Used, uploads, ledger, Arrived
<1>2. QED
  BY Zenon, <1>1, QuietStep DEF UploadOk, LedgerInv, Live, ledger

(* UploadFails: the intent stays.                                          *)
LEMMA UploadFailsStep ==
    ASSUME LedgerInv, ~ReaperRaces, NEW p \in Used, UploadFails(p)
    PROVE  LedgerInv'
<1>1. Advance
  BY Zenon, UsedInPaths DEF Advance, UploadFails, LedgerInv, TypeOK, Live, Used, uploads, ledger, Arrived, Ends
<1>2. QED
  BY Zenon, <1>1, QuietStep DEF UploadFails, LedgerInv, Live, ledger, Ends

(* leaveForReaper: the intent stays.                                       *)
LEMMA leaveForReaperStep ==
    ASSUME LedgerInv, ~ReaperRaces, NEW p \in Used, leaveForReaper(p)
    PROVE  LedgerInv'
<1>1. Advance
  BY Zenon, UsedInPaths DEF Advance, leaveForReaper, LedgerInv, TypeOK, Live, Used, uploads, ledger, Arrived, Ends
<1>2. QED
  BY Zenon, <1>1, QuietStep DEF leaveForReaper, LedgerInv, Live, ledger, Ends

(* UploadRefused: the intent goes with the upload.                         *)
LEMMA UploadRefusedStep ==
    ASSUME LedgerInv, ~ReaperRaces, NEW p \in Used, UploadRefused(p)
    PROVE  LedgerInv'
<1>1. LedgerAdvance /\ rows' = rows /\ intents \ {p} \subseteq intents'
  BY Zenon, DiscardAdvance DEF UploadRefused
<1>2. Advance
  BY <1>1, UsedInPaths DEF LedgerAdvance, Advance, UploadRefused, LedgerInv, TypeOK, Live, Used, Arrived, Ends
<1>3. ~Live(p)'
  BY Zenon, UsedInPaths DEF UploadRefused, Ends, Live, LedgerInv, TypeOK
<1>4. \A o \in Fanouts : status'[o] = "ok" => status[o] = "ok"
  BY Zenon DEF UploadRefused, LedgerInv, TypeOK, Ops, Writes
<1> QED BY Zenon, <1>1, <1>2, <1>3, <1>4, QuietStep

(* CopyFails: the intent goes with the upload.                             *)
LEMMA CopyFailsStep ==
    ASSUME LedgerInv, ~ReaperRaces, NEW p \in Used, CopyFails(p)
    PROVE  LedgerInv'
<1>1. LedgerAdvance /\ rows' = rows /\ intents \ {p} \subseteq intents'
  BY Zenon, DiscardAdvance DEF CopyFails
<1>2. Advance
  BY <1>1, UsedInPaths
     DEF LedgerAdvance, Advance, CopyFails, LedgerInv, Bookkeeping, TypeOK, Live, Used, Arrived, Ends, Finish
<1>3. ~Live(p)'
  BY Zenon, UsedInPaths DEF CopyFails, Ends, Live, LedgerInv, TypeOK
<1>4. \A o \in Fanouts : status'[o] = "ok" => status[o] = "ok"
  BY Zenon DEF CopyFails, LedgerInv, TypeOK, Finish, Ops, Writes
<1> QED BY Zenon, <1>1, <1>2, <1>3, <1>4, QuietStep

(* SourceMissing: a row without bytes may go.                              *)
LEMMA SourceMissingStep ==
    ASSUME LedgerInv, ~ReaperRaces, NEW p \in Used, SourceMissing(p)
    PROVE  LedgerInv'
<1> DEFINE src == source[claim[p].op]
           pruned == IF claim[p].op \in Replicas THEN {src} \cap rows ELSE {}
<1>1. LedgerAdvance /\ rows' \subseteq rows /\ intents \ {p} \subseteq intents'
  <2>1. CASE Commit(rows \ pruned, intents \ {p}, {}, Removed({p} \cap intents))
    <3>1. (rows \ pruned) \cap intents = {}
      BY Zenon DEF LedgerInv, Separation
    <3> HIDE DEF pruned
    <3> QED BY <2>1, <3>1, CommitAdvance, {} \subseteq (rows \ pruned) \X Used DEF Removed
  <2>2. CASE Commit(rows \ pruned, intents, {}, {})
    <3> HIDE DEF pruned
    <3> QED BY <2>2, CommitAdvance, {} \subseteq (rows \ pruned) \X Used
  <2> QED BY Zenon, <2>1, <2>2 DEF SourceMissing
<1>2. Advance
  BY <1>1, UsedInPaths
     DEF LedgerAdvance, Advance, SourceMissing, LedgerInv, Bookkeeping, TypeOK, Live, Used, Arrived, Ends,
         Finish
<1>3. ~Live(p)'
  BY SMTT(30), UsedInPaths DEF SourceMissing, Ends, Live, LedgerInv, TypeOK
<1>4. \A o \in Fanouts : status'[o] = "ok" => status[o] = "ok"
  BY Zenon DEF SourceMissing, LedgerInv, TypeOK, Finish, Ops, Writes
<1> QED BY Zenon, <1>1, <1>2, <1>3, <1>4, QuietStep

(* DeleteObjectLocation: a row becomes a cleanup row.                      *)
LEMMA DeleteObjectLocationStep ==
    ASSUME LedgerInv, ~ReaperRaces, NEW p \in Used, DeleteObjectLocation(p)
    PROVE  LedgerInv'
<1>1. Advance
  BY Zenon, UsedInPaths
     DEF Advance, DeleteObjectLocation, LedgerInv, TypeOK, Live, Used, uploads, ledger, Arrived, Commit,
         Removed, Separation, QueuedBytesAreDead, Queued
<1>2. QED
  BY ZenonT(30), <1>1, QuietStep DEF DeleteObjectLocation, LedgerInv, Live, ledger, Commit, Ends, TypeOK

(* probeBackend: a found path is stored.                                   *)
LEMMA probeBackendStep ==
    ASSUME LedgerInv, ~ReaperRaces, NEW p \in Used, probeBackend(p)
    PROVE  LedgerInv'
<1>1. Advance
  BY Zenon, UsedInPaths DEF Advance, probeBackend, LedgerInv, TypeOK, Live, Used, uploads, ledger, Arrived
<1>2. QED
  BY Zenon, <1>1, QuietStep DEF probeBackend, LedgerInv, Live, ledger

(* dropIntent: the intent has no uploader.                                 *)
LEMMA dropIntentStep ==
    ASSUME LedgerInv, ~ReaperRaces, NEW p \in Used, dropIntent(p)
    PROVE  LedgerInv'
<1>1. Advance
  BY Zenon, UsedInPaths DEF Advance, dropIntent, LedgerInv, TypeOK, Live, Used, uploads, Arrived, Commit
<1>2. ~Live(p)'
  BY Zenon, ReapedIsDead DEF dropIntent, uploads, Live
<1> QED BY Zenon, <1>1, <1>2, QuietStep DEF dropIntent, Commit

(* GiveUp: the write has no upload left.                                   *)
LEMMA GiveUpStep ==
    ASSUME LedgerInv, ~ReaperRaces, NEW o \in Ops, GiveUp(o)
    PROVE  LedgerInv'
<1>1. Advance
  BY Zenon, UsedInPaths DEF Advance, GiveUp, LedgerInv, TypeOK, Live, Used, uploads, ledger, Arrived
<1>2. QED
  BY <1>1, QuietStep DEF GiveUp, LedgerInv, Live, ledger

(* Crash: uploads end, tables stay.                                        *)
LEMMA CrashStep ==
    ASSUME LedgerInv, ~ReaperRaces, NEW o \in Ops, Crash(o)
    PROVE  LedgerInv'
<1>1. \A x \in Paths : phase'[x] = phase[x] \/ (x \in Used /\ phase'[x] = "over")
  BY Zenon DEF Crash, PathsOf
<1>2. Advance
  BY <1>1, UsedInPaths DEF Advance, Crash, LedgerInv, Bookkeeping, TypeOK, Live, ledger, Arrived
<1> QED BY <1>2, QuietStep DEF Crash, ledger, LedgerInv, TypeOK

(* Settle: only queued, hence dead, bytes are deleted.                     *)
LEMMA SettleStep ==
    ASSUME LedgerInv, ~ReaperRaces, NEW c \in cleanup, Settle(c)
    PROVE  LedgerInv'
<1>1. c[1] \in Queued
  BY Zenon DEF Queued
<1>2. Advance
  BY Zenon, <1>1 DEF Advance, Settle, LedgerInv, TypeOK, Live, uploads, Arrived
<1> QED BY Zenon, <1>2, QuietStep DEF Settle, uploads

-----------------------------------------------------------------------------

(* A claim: fresh paths, all of one operation that is not yet answered,    *)
(* whose uploads have only begun.                                          *)
Claims(o, content, firstPhase) ==
    /\ claimed' \in claimed..MaxPaths
    /\ claim' \in [Paths -> [op : Ops \cup {None}, backend : Backends \cup {None},
                             role : {"primary", "companion", None},
                             content : Writes \cup {None}]]
    /\ \A p \in Used : claim'[p] = claim[p]
    /\ \A p \in Used' \ Used : /\ claim'[p].op = o /\ claim'[p].backend \in Backends
                               /\ claim'[p].content = content
    /\ phase' = [p \in Paths |-> IF p \in Used' \ Used THEN firstPhase ELSE phase[p]]
    /\ intents' = intents \cup (Used' \ Used)
    /\ wire \subseteq wire' /\ wire' \subseteq wire \cup (Used' \ Used)
    /\ firstPhase = "sending" => Used' \ Used \subseteq wire'
    /\ status[o] \in {"idle", "scanned", "open"} /\ status' = [status EXCEPT ![o] = "open"]
    /\ UNCHANGED <<rows, newer, cleanup, stored, probe, source>>

(* A step that only claims fresh paths keeps the invariant.                *)
LEMMA ClaimsKeeps ==
    ASSUME LedgerInv, NEW o \in Ops, NEW content \in Writes \cup {None},
           NEW firstPhase \in {"reading", "sending"}, Claims(o, content, firstPhase),
           o \in Writes => content = o,
           o \in Copiers => content = Content(source[o]) /\ source[o] \in Used,
           o \in Fanouts \cup Copiers => status[o] # "open",
           o \in Copiers => status[o] = "scanned"
    PROVE  LedgerInv'
<1> USE DEF Claims
<1>0. /\ Used \subseteq Used' /\ Used' \subseteq Paths /\ Used \subseteq Paths
      /\ \A p \in Used' \ Used, q \in Used : q < p
      /\ \A p \in Used : 1..p \subseteq Used
  BY BoundsAssumption DEF LedgerInv, TypeOK, Used, Paths
<1>1. \A p \in Used : phase'[p] = phase[p] /\ (Live(p)' <=> Live(p))
  BY Zenon, <1>0 DEF Live
<1>2. \A p \in Used : status[o] # "open" => claim[p].op # o
  BY DEF LedgerInv, Bookkeeping
<1>3. TypeOK'
  <2>1. claimed' \in 0..MaxPaths
    BY BoundsAssumption DEF LedgerInv, TypeOK
  <2>2. phase' \in [Paths -> {"free", "reading", "sending", "sent", "over"}]
    BY Zenon DEF LedgerInv, TypeOK
  <2>3. source' \in [Copiers -> Used' \cup {None}]
    BY Zenon, <1>0 DEF LedgerInv, TypeOK
  <2>4. cleanup' \subseteq Used' \X {"removed", "overtaken"}
    BY <1>0 DEF LedgerInv, TypeOK
  <2>5. /\ wire' \subseteq Used' /\ stored' \subseteq Used' /\ intents' \subseteq Used'
        /\ rows' \subseteq Used' /\ newer' \subseteq rows' \X intents'
    BY <1>0 DEF LedgerInv, TypeOK
  <2>6. /\ probe' \in [Paths -> {"none", "found", "missing"}]
        /\ status' \in [Ops -> {"idle", "scanned", "open", "ok", "error", "ended"}]
    BY Zenon DEF LedgerInv, TypeOK
  <2> QED BY Zenon, <2>1, <2>2, <2>3, <2>4, <2>5, <2>6 DEF TypeOK
<1>4. Bookkeeping'
  <2>1. ASSUME NEW p \in Used'
        PROVE  /\ claim'[p].op \in Ops /\ claim'[p].backend \in Backends
               /\ phase'[p] # "free"
               /\ status'[claim'[p].op] \notin {"idle", "scanned"}
    BY <1>0 DEF LedgerInv, TypeOK, Bookkeeping
  <2>2. ASSUME NEW p \in Used', claim'[p].op \in Writes
        PROVE  Content(p)' = claim'[p].op
    BY <1>0, <2>2 DEF LedgerInv, Bookkeeping, Content
  <2>3. ASSUME NEW p \in Used', claim'[p].op \in Copiers
        PROVE  claim'[p].content = claim'[source[claim'[p].op]].content
    <3>1. CASE p \in Used' \ Used
      BY Zenon, <2>3, <3>1 DEF Content
    <3>2. CASE p \in Used
      <4>1. claim'[p] = claim[p] /\ source[claim[p].op] \in Used
        BY Zenon, <2>3, <3>2 DEF LedgerInv, Bookkeeping
      <4> QED BY <2>3, <3>2, <4>1 DEF LedgerInv, Bookkeeping, Content
    <3> QED BY Zenon, <3>1, <3>2
  <2>4. \A p \in Paths \ Used' : phase'[p] = "free" /\ probe'[p] = "none"
    BY Zenon, <1>0 DEF LedgerInv, Bookkeeping
  <2>5. ASSUME NEW c \in Copiers, status'[c] # "idle"
        PROVE  source'[c] \in Used' /\ Key(source[c])' = KeyOf[c]
    BY <1>0, <2>5 DEF LedgerInv, TypeOK, Bookkeeping, Key, Ops
  <2> QED BY SMTT(30), <2>1, <2>2, <2>3, <2>4, <2>5 DEF Bookkeeping, Content, Key
<1>5. Separation'
  <2>1. (rows \cap intents = {})' /\ (\A p \in rows : ~Live(p))'
    BY ZenonT(30), <1>1 DEF LedgerInv, TypeOK, Separation
  <2>2. Queued' = Queued /\ Queued \subseteq Used
    BY DEF LedgerInv, TypeOK, Queued
  <2> QED BY Zenon, <2>1, <2>2 DEF LedgerInv, Separation, QueuedBytesAreDead
<1>6. BytesInPlace'
  <2>1. RecordedBytesStored'
    BY Zenon DEF LedgerInv, BytesInPlace, RecordedBytesStored
  <2>2. ASSUME NEW p \in intents', Arrived(p)'
        PROVE  p \in stored
    <3>1. CASE p \in Used' \ Used
      BY Zenon, <1>0, <2>2, <3>1 DEF Arrived, LedgerInv, Bookkeeping
    <3>2. CASE p \in Used
      <4>1. p \in intents /\ (p \in wire <=> p \in wire')
        BY Zenon, <3>2
      <4> QED BY Zenon, <1>1, <2>2, <3>2, <4>1 DEF Arrived, LedgerInv, BytesInPlace
    <3> QED BY Zenon, <3>1, <3>2 DEF LedgerInv, TypeOK
  <2> QED BY Zenon, <2>1, <2>2 DEF BytesInPlace
<1>7. ReaperWaits'
  <2> SUFFICES ASSUME NEW q \in Used', probe'[q] # "none", NEW e \in Elders(q)'
               PROVE  Done(e)'
    BY Zenon DEF ReaperWaits
  <2>1. q \in Used
    BY Zenon, <1>0 DEF LedgerInv, Bookkeeping
  <2>2. e \in Elders(q) /\ Done(e)
    BY <1>0, <2>1 DEF Elders, LedgerInv, ReaperWaits
  <2>3. PICK y \in 1..q : e = claim[y].op
    BY Zenon, <2>2 DEF Elders
  <2>4. y \in Used /\ e \in Ops
    BY Zenon, <1>0, <2>1, <2>3 DEF LedgerInv, Bookkeeping
  <2>5. e # o
    BY Zenon, <1>2, <2>2, <2>3, <2>4 DEF Done
  <2>6. ASSUME NEW p \in PathsOf(e)'
        PROVE  p \in PathsOf(e) /\ p \notin wire' /\ ~Live(p)'
    BY ZenonT(30), <1>0, <1>1, <2>2, <2>5 DEF PathsOf, Done
  <2> QED BY Zenon, <2>2, <2>4, <2>5, <2>6 DEF Done, LedgerInv, TypeOK
<1>8. CopiesAgree'
  BY DEF LedgerInv, TypeOK, CopiesAgree, Key, Content
<1>9. FanoutOwnsKey'
  <2> SUFFICES ASSUME NEW p \in intents', claim'[p].op \in Fanouts,
                      status'[claim'[p].op] = "ok", Live(p)'
               PROVE  /\ \A r \in RowsOf(Key(p))' : Content(r)' = claim'[p].op
                      /\ \A q \in IntentsOf(Key(p))' : q < p => claim'[q].op = claim'[p].op
    BY Zenon DEF FanoutOwnsKey
  <2>1. claim'[p].op # o
    BY DEF LedgerInv, TypeOK
  <2>2. p \in Used /\ p \in intents /\ claim'[p] = claim[p] /\ Live(p)
    BY ZenonT(30), <1>1, <2>1 DEF LedgerInv, TypeOK
  <2>3. status[claim[p].op] = "ok"
    BY Zenon, <2>1, <2>2 DEF LedgerInv, TypeOK, Ops, Writes
  <2>4. ASSUME NEW r \in RowsOf(Key(p))'
        PROVE  Content(r)' = claim[p].op
    <3>1. r \in RowsOf(Key(p)) /\ claim'[r] = claim[r]
      BY Zenon, <2>2 DEF RowsOf, Key, LedgerInv, TypeOK
    <3> QED BY <2>2, <2>3, <3>1 DEF LedgerInv, FanoutOwnsKey, Content
  <2>5. ASSUME NEW q \in IntentsOf(Key(p))', q < p
        PROVE  claim'[q].op = claim[p].op
    <3>1. q \in Used
      <4> SUFFICES ASSUME q \in Used' \ Used PROVE FALSE
        BY Zenon DEF IntentsOf, LedgerInv, TypeOK
      <4>1. p < q /\ p \in Int /\ q \in Int
        BY <1>0, <2>2 DEF Paths
      <4> QED BY <4>1, <2>5
    <3>2. q \in IntentsOf(Key(p)) /\ claim'[q] = claim[q]
      BY Zenon, <2>2, <3>1 DEF IntentsOf, Key
    <3> QED BY <2>2, <2>3, <2>5, <3>2 DEF LedgerInv, FanoutOwnsKey
  <2> QED BY Zenon, <2>2, <2>4, <2>5
<1>10. FanoutTogether'
  <2> SUFFICES ASSUME NEW p \in Used', NEW q \in Used', claim'[p].op = claim'[q].op,
                      claim'[p].op \in Fanouts, status'[claim'[p].op] = "open",
                      Live(p)', Live(q)', p \in intents'
               PROVE  q \in intents'
    BY Zenon DEF FanoutTogether
  <2>1. CASE claim'[p].op = o
    BY ZenonT(30), <1>2, <2>1
  <2>2. CASE claim'[p].op # o
    <3>1. /\ p \in Used /\ q \in Used /\ claim'[p] = claim[p] /\ claim'[q] = claim[q]
          /\ Live(p) /\ Live(q) /\ p \in intents
      BY ZenonT(30), <1>1, <2>2
    <3>2. status[claim[p].op] = "open"
      BY Zenon, <2>2, <3>1 DEF LedgerInv, TypeOK, Ops, Writes
    <3> QED BY Zenon, <3>1, <3>2 DEF LedgerInv, FanoutTogether
  <2> QED BY Zenon, <2>1, <2>2
<1> QED BY Zenon, <1>3, <1>4, <1>5, <1>6, <1>7, <1>8, <1>9, <1>10 DEF LedgerInv

(* InsertPending claims fresh paths, one for each backend.                 *)
LEMMA InsertPendingClaims ==
    ASSUME LedgerInv, NEW o \in Ops, NEW n \in Nat, NEW bs \in [1..n -> Backends],
           NEW content \in Writes \cup {None}, NEW firstPhase,
           InsertPending(o, bs, content, firstPhase),
           wire' = wire \cup (claimed + 1 .. claimed') \/ (wire' = wire /\ firstPhase # "sending"),
           status[o] \in {"idle", "scanned", "open"}, status' = [status EXCEPT ![o] = "open"]
    PROVE  Claims(o, content, firstPhase)
<1>1. Len(bs) = n /\ claimed \in Nat /\ MaxPaths \in Nat
  BY BoundsAssumption DEF LedgerInv, TypeOK
<1>2. claimed' = claimed + n /\ claimed' <= MaxPaths
  BY Zenon, <1>1 DEF InsertPending
<1>3. Used' \ Used = claimed + 1 .. claimed + n
  BY <1>1, <1>2 DEF Used
<1>4. \A p \in Used' \ Used : p \in Paths /\ p \notin Used /\ p - claimed \in 1..n
  BY <1>1, <1>2, <1>3 DEF Paths
<1>5. Used \subseteq Paths
  BY Zenon, UsedInPaths DEF LedgerInv
<1> DEFINE role(p) == IF o \in Writes /\ p = claimed + 1 THEN "primary" ELSE "companion"
<1>6. claim' = [p \in Paths |-> IF p \in Used' \ Used
                   THEN [op |-> o, backend |-> bs[p - claimed],
                         role |-> role(p), content |-> content]
                   ELSE claim[p]]
  BY Zenon, <1>1, <1>3 DEF InsertPending
<1>7. /\ \A p \in Used : claim'[p] = claim[p]
      /\ \A p \in Used' \ Used : /\ claim'[p].op = o /\ claim'[p].backend \in Backends
                                 /\ claim'[p].content = content
  BY Zenon, <1>4, <1>5, <1>6
<1>8. claim' \in [Paths -> [op : Ops \cup {None}, backend : Backends \cup {None},
                             role : {"primary", "companion", None},
                             content : Writes \cup {None}]]
  <2>1. \A p \in Used' \ Used : bs[p - claimed] \in Backends
    BY Zenon, <1>4
  <2> QED BY Zenon, <1>6, <2>1 DEF LedgerInv, TypeOK
<1>9. phase' = [p \in Paths |-> IF p \in Used' \ Used THEN firstPhase ELSE phase[p]]
  BY Zenon, <1>1, <1>3 DEF InsertPending
<1>10. intents' = intents \cup (Used' \ Used) /\ claimed + 1 .. claimed' = Used' \ Used
  BY Zenon, <1>1, <1>2, <1>3 DEF InsertPending
<1>11. claimed' \in claimed..MaxPaths
  BY <1>1, <1>2
<1> QED BY ZenonT(30), <1>7, <1>8, <1>9, <1>10, <1>11 DEF Claims, InsertPending

(* ClaimWriteTarget claims for its write.                                  *)
LEMMA ClaimWriteTargetStep ==
    ASSUME LedgerInv, NEW o \in Puts, NEW b \in Backends, ClaimWriteTarget(o, b)
    PROVE  LedgerInv'
<1>1. o \in Ops /\ o \in Writes /\ o \notin Fanouts \cup Copiers
  BY Zenon, OpsAssumption DEF Ops, Writes
<1>2. <<b>> \in [1..1 -> Backends] /\ claimed' = claimed + 1 /\ claimed \in Nat
  BY BoundsAssumption DEF ClaimWriteTarget, InsertPending, LedgerInv, TypeOK
<1>3. wire' = wire \cup (claimed + 1 .. claimed')
  BY <1>2 DEF ClaimWriteTarget
<1>4. Claims(o, o, "sending")
  BY ZenonT(30), <1>1, <1>2, <1>3, InsertPendingClaims DEF ClaimWriteTarget
<1> QED BY Zenon, <1>1, <1>4, ClaimsKeeps

(* ClaimWriteCopies claims for its write.                                  *)
LEMMA ClaimWriteCopiesStep ==
    ASSUME LedgerInv, NEW o \in Fanouts, NEW bs \in Targets, ClaimWriteCopies(o, bs)
    PROVE  LedgerInv'
<1>1. o \in Ops /\ o \in Writes /\ o \notin Copiers
  BY Zenon, OpsAssumption DEF Ops, Writes
<1>2. PICK n \in Nat : bs \in [1..n -> Backends]
  BY BoundsAssumption DEF Targets
<1>3. Claims(o, o, "sending")
  BY ZenonT(30), <1>1, <1>2, InsertPendingClaims DEF ClaimWriteCopies
<1> QED BY Zenon, <1>1, <1>3, ClaimsKeeps DEF ClaimWriteCopies

(* ClaimCopyTarget claims for the content of its source.                   *)
LEMMA ClaimCopyTargetStep ==
    ASSUME LedgerInv, NEW o \in Copiers, NEW b \in Backends, ClaimCopyTarget(o, b)
    PROVE  LedgerInv'
<1> DEFINE content == Content(source[o])
<1>1. o \in Ops /\ o \notin Writes
  BY Zenon, OpsAssumption DEF Ops
<1>2. <<b>> \in [1..1 -> Backends] /\ status[o] = "scanned" /\ source[o] \in Used
  BY DEF ClaimCopyTarget, LedgerInv, Bookkeeping
<1>3. content \in Writes \cup {None}
  BY Zenon, <1>2, UsedInPaths DEF LedgerInv, TypeOK, Content
<1>4. Claims(o, content, "reading")
  BY ZenonT(30), <1>1, <1>2, <1>3, InsertPendingClaims DEF ClaimCopyTarget
<1> QED BY Zenon, <1>1, <1>2, <1>3, <1>4, ClaimsKeeps

(* Scan remembers a row of its key.                                        *)
LEMMA ScanStep ==
    ASSUME LedgerInv, NEW o \in Copiers, NEW src \in Paths, Scan(o, src)
    PROVE  LedgerInv'
<1>0. status[o] = "idle"
  BY Zenon DEF Scan
<1>2. \A p \in Used : claim[p].op # o
  BY <1>0 DEF LedgerInv, Bookkeeping
<1> USE DEF Scan, uploads, ledger
<1>1. o \in Ops /\ o \notin Fanouts /\ src \in Used /\ Key(src) = KeyOf[o]
  BY SMTT(30), OpsAssumption DEF Ops, Writes, RowsOf, LedgerInv, TypeOK
<1>3. TypeOK'
  BY SMTT(30), <1>1 DEF LedgerInv, TypeOK, Used
<1>4. Bookkeeping'
  BY SMTT(30), <1>1, <1>2 DEF LedgerInv, TypeOK, Bookkeeping, Used, Content, Key
<1>5. Separation' /\ BytesInPlace' /\ CopiesAgree'
  BY Zenon DEF LedgerInv, Separation, BytesInPlace, CopiesAgree, QueuedBytesAreDead, Queued,
         RecordedBytesStored, Arrived, Live, Key, Content
<1>6. ReaperWaits'
  <2> SUFFICES ASSUME NEW q \in Used, probe[q] # "none", NEW e \in Elders(q)
               PROVE  Done(e)'
    BY Zenon DEF ReaperWaits, Elders, Used
  <2>1. Done(e)
    BY Zenon DEF LedgerInv, ReaperWaits
  <2>2. PICK x \in 1..q : e = claim[x].op
    BY Zenon DEF Elders
  <2>3. x \in Used
    BY <2>2 DEF Used, LedgerInv, TypeOK
  <2>4. status'[e] = status[e]
    BY <1>2, <2>2, <2>3 DEF LedgerInv, TypeOK
  <2> QED BY Zenon, <2>1, <2>4 DEF Done, PathsOf, Used, Live
<1>7. \A f \in Fanouts : status'[f] = status[f]
  BY <1>1 DEF LedgerInv, TypeOK
<1>8. FanoutOwnsKey'
  BY <1>7 DEF LedgerInv, FanoutOwnsKey, RowsOf, IntentsOf, Key, Content, Live
<1>9. FanoutTogether'
  BY <1>7 DEF LedgerInv, FanoutTogether, Live, Used
<1> QED BY Zenon, <1>3, <1>4, <1>5, <1>6, <1>8, <1>9 DEF LedgerInv

-----------------------------------------------------------------------------
(* The steps that turn an intent into a row, or take several intents.      *)
LEMMA CommitCompanionCopyStep ==
    ASSUME LedgerInv, ~ReaperRaces, NEW p \in Used, CommitCompanionCopy(p)
    PROVE  LedgerInv'
<1> DEFINE o == claim[p].op
<1>1. p \in Paths /\ Live(p) /\ p \notin rows /\ o \in Fanouts /\ status[o] = "ok"
  BY Zenon, UsedInPaths DEF CommitCompanionCopy, Live, LedgerInv, Separation
<1>2. ~Live(p)'
  BY Zenon, <1>1 DEF CommitCompanionCopy, Ends, Live, LedgerInv, TypeOK
<1>3. ASSUME LedgerAdvance, rows' \ rows \subseteq {p}
      PROVE  Advance
  BY Zenon, <1>1, <1>2, <1>3, UsedInPaths
     DEF LedgerAdvance, Advance, CommitCompanionCopy, LedgerInv, BytesInPlace, TypeOK,
         Live, Arrived, Ends
<1>4. CASE rows' = rows /\ intents' = intents /\ LedgerAdvance
  BY Zenon, <1>3, <1>4, QuietStep DEF CommitCompanionCopy
<1>5. CASE p \in intents /\ Commit(rows \cup {p}, intents \ {p}, Stamp(p), {})
  <2>1. LedgerAdvance /\ rows' = rows \cup {p} /\ intents' = intents \ {p}
    <3>1. Stamp(p) \subseteq (rows \cup {p}) \X Used
      BY Zenon DEF Stamp, IntentsOf, LedgerInv, TypeOK
    <3> QED BY <1>5, <3>1, CommitAdvance
  <2>2. Advance
    BY Zenon, <1>3, <2>1
  <2>3. Content(p) = o /\ \A r \in RowsOf(Key(p)) : Content(r) = o
    BY Zenon, <1>1, <1>5 DEF LedgerInv, FanoutOwnsKey, Bookkeeping, Writes
  <2>4. CopiesAgree'
    BY <2>1, <2>3 DEF LedgerInv, CopiesAgree, RowsOf, Key, Content, CommitCompanionCopy
  <2>5. ASSUME NEW x \in intents', claim[x].op \in Fanouts, status[claim[x].op] = "ok",
               Live(x), Key(x) = Key(p)
        PROVE  claim[x].op = o
    <3>1. x \in Int /\ p \in Int /\ x # p /\ x \in intents
      BY <2>1, UsedInPaths DEF LedgerInv, TypeOK, Paths
    <3>2. CASE x < p
      BY Zenon, <3>1, <3>2, <1>1, <1>5, <2>5 DEF LedgerInv, FanoutOwnsKey, IntentsOf
    <3>3. CASE p < x
      BY Zenon, <3>1, <3>3, <1>1, <1>5, <2>5 DEF LedgerInv, FanoutOwnsKey, IntentsOf
    <3> QED BY <3>1, <3>2, <3>3
  <2>6. FanoutOwnsKey'
    BY Zenon, <2>1, <2>2, <2>3, <2>5, OwnsFrame DEF CommitCompanionCopy
  <2>7. FanoutTogether'
    BY Zenon, <1>2, <2>1, <2>2, TogetherFrame
  <2> QED BY Zenon, <2>2, <2>4, <2>6, <2>7, AdvanceKeeps
<1>6. CASE p \notin intents /\ Commit(rows, intents, {}, Overtaken(p))
  BY <1>1, <1>4, <1>6, CommitAdvance, {} \subseteq rows \X Used DEF Overtaken
<1>7. CASE UNCHANGED ledger
  BY Zenon, <1>4, <1>7 DEF ledger, LedgerAdvance, LedgerInv, TypeOK
<1> QED BY Zenon, <1>5, <1>6, <1>7 DEF CommitCompanionCopy

(* PlaceCopy: the source is still a row, so its content is current.        *)
LEMMA PlaceCopyStep ==
    ASSUME LedgerInv, ~ReaperRaces, NEW p \in Used, PlaceCopy(p)
    PROVE  LedgerInv'
<1> DEFINE o == claim[p].op
           src == source[o]
           move == o \in Moves
           gone == IF move THEN {src} ELSE {}
           stamps == {<<p, q>> : q \in {r \in intents : <<src, r>> \in newer}}
<1>1. p \in Paths /\ Live(p) /\ p \notin rows /\ o \in Copiers
  BY Zenon, UsedInPaths DEF PlaceCopy, Live, LedgerInv, Separation
<1>2. ~Live(p)'
  BY Zenon, <1>1 DEF PlaceCopy, Ends, Live, LedgerInv, TypeOK
<1>3. ASSUME LedgerAdvance, rows' \ rows \subseteq {p}
      PROVE  Advance
  BY SMTT(30), <1>1, <1>2, <1>3, UsedInPaths
     DEF LedgerAdvance, Advance, PlaceCopy, LedgerInv, BytesInPlace, Bookkeeping, TypeOK,
         Live, Arrived, Ends, Finish
<1>4. \A f \in Fanouts : status'[f] = "ok" => status[f] = "ok"
  BY Zenon DEF PlaceCopy, LedgerInv, TypeOK, Finish, Ops, Writes
<1>5. CASE rows' = rows /\ intents \ {p} \subseteq intents' /\ LedgerAdvance
  BY Zenon, <1>2, <1>3, <1>4, <1>5, QuietStep
<1>6. CASE p \notin intents /\ Commit(rows, intents, {}, Overtaken(p))
  BY <1>1, <1>5, <1>6, CommitAdvance, {} \subseteq rows \X Used DEF Overtaken
<1>7. CASE UNCHANGED ledger
  BY Zenon, <1>5, <1>7 DEF ledger, LedgerAdvance, LedgerInv, TypeOK
<1>8. CASE p \in intents /\ Commit(rows, intents \ {p}, {}, Removed({p}))
  BY <1>1, <1>5, <1>8, CommitAdvance, {} \subseteq rows \X Used DEF Removed
<1>9. CASE /\ p \in intents /\ ~refusal(p, src, move)
           /\ Commit((rows \ gone) \cup {p}, intents \ {p}, stamps, Removed(gone))
  <2>1. src \in rows /\ src # p /\ src \notin intents
    BY Zenon, <1>1, <1>9 DEF refusal, LedgerInv, Separation
  <2>2. LedgerAdvance /\ rows' = (rows \ gone) \cup {p} /\ intents' = intents \ {p}
    <3>1. stamps \subseteq ((rows \ gone) \cup {p}) \X Used
      <4> \A q \in intents : <<p, q>> \in ((rows \ gone) \cup {p}) \X Used
        BY Zenon DEF LedgerInv, TypeOK
      <4> HIDE DEF gone, src
      <4> QED BY Zenon
    <3>2. gone \subseteq {src}
      OBVIOUS
    <3>3. \A c \in Removed(gone) : c \in Used \X {"removed", "overtaken"} /\ c[1] = src /\ gone = {src}
      BY Zenon, <2>1 DEF Removed, LedgerInv, TypeOK
    <3> HIDE DEF gone, stamps, src
    <3> QED BY <1>9, <2>1, <3>1, <3>3, CommitAdvance
  <2>3. Advance
    BY Zenon, <1>3, <2>2
  <2>4. Content(p) = Content(src) /\ Key(p) = Key(src)
    BY Zenon, <1>1 DEF LedgerInv, Bookkeeping, Key, Ops
  <2>5. CopiesAgree'
    <3>1. claim' = claim
      BY Zenon DEF PlaceCopy
    <3>2. \A x \in rows' : x \in rows \/ x = p
      BY Zenon, <2>2
    <3>3. \A x, y \in rows : Key(x) = Key(y) => Content(x) = Content(y)
      BY Zenon DEF LedgerInv, CopiesAgree
    <3>4. \A x \in rows : Key(x) = Key(p) => Content(x) = Content(p)
      BY Zenon, <2>1, <2>4, <3>3
    <3>5. \A x, y \in rows' : Key(x) = Key(y) => Content(x) = Content(y)
      BY Zenon, <3>2, <3>3, <3>4
    <3> QED BY Zenon, <3>1, <3>5 DEF CopiesAgree, Key, Content
  <2>6. FanoutOwnsKey'
    <3>1. ASSUME NEW x \in intents', claim[x].op \in Fanouts, status[claim[x].op] = "ok",
                 Live(x), Key(p) = Key(x)
          PROVE  Content(p) = claim[x].op
      BY ZenonT(30), <3>1, <2>1, <2>2, <2>4 DEF LedgerInv, FanoutOwnsKey, RowsOf
    <3> QED BY Zenon, <1>4, <2>2, <2>3, <3>1, OwnsFrame
  <2>7. FanoutTogether'
    BY Zenon, <1>2, <2>2, <2>3, TogetherFrame
  <2> QED BY Zenon, <2>3, <2>5, <2>6, <2>7, AdvanceKeeps
<1> QED BY Zenon, <1>6, <1>7, <1>8, <1>9 DEF PlaceCopy, placeCopyTx

(* RecordObject: its own row is left, and its own running uploads.         *)
LEMMA RecordObjectStep ==
    ASSUME LedgerInv, ~ReaperRaces, NEW p \in Used, RecordObject(p)
    PROVE  LedgerInv'
<1> DEFINE o == claim[p].op
           placing == {q \in PathsOf(o) \ {p} : Live(q)}
           displaced == RowsOf(Key(p))
           superseded == IntentsOf(Key(p)) \ (placing \cup {p})
<1>1. p \in Paths /\ Live(p) /\ p \notin rows /\ o \in Writes /\ status[o] = "open" /\ o \in Ops
  BY Zenon, UsedInPaths DEF RecordObject, Live, LedgerInv, Separation, Ops
<1>2. ~Live(p)'
  BY Zenon, <1>1 DEF RecordObject, Ends, Live, LedgerInv, TypeOK
<1>3. /\ status' \in [Ops -> {"idle", "scanned", "open", "ok", "error", "ended"}]
      /\ status'[o] \in {"ok", "error"}
      /\ \A x \in Ops \ {o} : status'[x] = status[x]
  BY <1>1 DEF RecordObject, LedgerInv, TypeOK
<1>4. ASSUME LedgerAdvance, rows' \ rows \subseteq {p}
      PROVE  Advance
  BY SMTT(30), <1>1, <1>2, <1>3, <1>4, UsedInPaths
     DEF LedgerAdvance, Advance, RecordObject, LedgerInv, BytesInPlace, TypeOK,
         Live, Arrived, Ends
<1>5. CASE UNCHANGED ledger /\ status' = [status EXCEPT ![o] = "error"]
  <2>1. Advance
    BY Zenon, <1>4, <1>5 DEF ledger, LedgerAdvance, LedgerInv, TypeOK
  <2> QED BY Zenon, <1>5, <2>1, QuietStep DEF ledger, LedgerInv, TypeOK, Ops, Writes
<1>6. CASE p \notin intents /\ Commit(rows, intents, {}, Overtaken(p))
  <2>1. LedgerAdvance /\ rows' = rows /\ intents' = intents
    BY <1>1, <1>6, CommitAdvance, {} \subseteq rows \X Used DEF Overtaken
  <2>2. Advance
    BY Zenon, <1>4, <2>1
  <2>3. CopiesAgree' /\ FanoutTogether'
    BY Zenon, <2>1, <2>2, AgreeFrame, TogetherFrame
  <2>4. FanoutOwnsKey'
    <3> SUFFICES ASSUME NEW x \in intents, claim[x].op \in Fanouts,
                        status'[claim[x].op] = "ok", Live(x)'
                 PROVE  /\ \A r \in RowsOf(Key(x)) : Content(r) = claim[x].op
                        /\ \A q \in IntentsOf(Key(x)) : q < x => claim[q].op = claim[x].op
      BY <2>1 DEF FanoutOwnsKey, RecordObject, RowsOf, IntentsOf, Key, Content
    <3>1. x \in Used /\ x \in Paths /\ Live(x)
      BY Zenon, <2>2, UsedInPaths DEF LedgerInv, TypeOK, Advance, Live
    <3>2. claim[x].op # o
      BY Zenon, <1>1, <1>6, <3>1 DEF LedgerInv, FanoutTogether
    <3>3. status[claim[x].op] = "ok"
      BY Zenon, <1>3, <3>2 DEF Ops, Writes
    <3> QED BY Zenon, <3>1, <3>3 DEF LedgerInv, FanoutOwnsKey
  <2> QED BY Zenon, <2>2, <2>3, <2>4, AdvanceKeeps
<1>7. CASE /\ p \in intents
           /\ Commit((rows \ displaced) \cup {p}, intents \ (superseded \cup {p}),
                     {p} \X placing, Removed(displaced \cup superseded))
  <2>1. /\ LedgerAdvance
        /\ rows' = (rows \ displaced) \cup {p}
        /\ intents' = intents \ (superseded \cup {p})
    <3>1. /\ displaced \subseteq rows /\ displaced \cap intents = {} /\ rows \subseteq Used
          /\ superseded \subseteq intents \ {p} /\ intents \subseteq Used
          /\ superseded \cap rows = {} /\ p \notin displaced /\ placing \cap displaced = {}
      BY <1>1 DEF RowsOf, IntentsOf, LedgerInv, Separation, TypeOK
    <3>2. \A c \in Removed(displaced \cup superseded) :
            c \in Used \X {"removed", "overtaken"} /\ c[1] \in displaced \cup superseded
      BY Zenon, <3>1 DEF Removed
    <3>3. {p} \X placing \subseteq ((rows \ displaced) \cup {p}) \X Used
      BY Zenon DEF PathsOf
    <3> HIDE DEF displaced, superseded, placing
    <3>4. /\ ((rows \ displaced) \cup {p}) \ rows \subseteq intents \ (intents \ (superseded \cup {p}))
          /\ \A c \in Removed(displaced \cup superseded) :
                c[1] \notin ((rows \ displaced) \cup {p}) \cup (intents \ (superseded \cup {p}))
      BY ZenonT(30), <1>7, <3>1, <3>2
    <3> QED BY ZenonT(30), <1>7, <3>2, <3>3, <3>4, CommitAdvance
  <2>2. Advance
    BY Zenon, <1>4, <2>1
  <2>3. CopiesAgree'
    BY <2>1 DEF LedgerInv, CopiesAgree, RowsOf, Key, Content, RecordObject
  <2>4. ASSUME NEW x \in intents', Key(x) = Key(p)
        PROVE  claim[x].op = o
    BY Zenon, <2>1, <2>4 DEF IntentsOf, PathsOf
  <2>5. Content(p) = o
    BY Zenon, <1>1 DEF LedgerInv, Bookkeeping
  <2>6. FanoutOwnsKey'
    <3> SUFFICES ASSUME NEW x \in intents', claim[x].op \in Fanouts,
                        status'[claim[x].op] = "ok", Live(x)'
                 PROVE  /\ \A r \in rows' : Key(r) = Key(x) => Content(r) = claim[x].op
                        /\ \A q \in intents' : Key(q) = Key(x) /\ q < x => claim[q].op = claim[x].op
      BY Zenon DEF FanoutOwnsKey, RecordObject, RowsOf, IntentsOf, Key, Content
    <3>1. CASE Key(x) = Key(p)
      BY Zenon, <3>1, <2>1, <2>4, <2>5 DEF RowsOf
    <3>2. CASE Key(x) # Key(p)
      <4>1. x \in Paths /\ Live(x) /\ x \in intents
        BY Zenon, <2>1, <2>2, UsedInPaths DEF LedgerInv, TypeOK, Advance, Live
      <4>2. status[claim[x].op] = "ok"
        BY Zenon, <1>3, <3>2 DEF Ops, Writes, Key
      <4> QED BY SMTT(30), <2>1, <3>2, <4>1, <4>2 DEF LedgerInv, FanoutOwnsKey, RowsOf, IntentsOf
    <3> QED BY Zenon, <3>1, <3>2
  <2>7. FanoutTogether'
    <3> SUFFICES ASSUME NEW x \in Used, NEW y \in Used, claim[x].op = claim[y].op,
                        claim[x].op \in Fanouts, status'[claim[x].op] = "open",
                        Live(x)', Live(y)', x \in intents'
                 PROVE  y \in intents'
      BY Zenon DEF FanoutTogether, RecordObject, Used
    <3>1. claim[x].op # o /\ status[claim[x].op] = "open" /\ x \in Paths /\ y \in Paths
      BY Zenon, <1>3, UsedInPaths DEF Ops, Writes, LedgerInv
    <3>2. Live(x) /\ Live(y)
      BY Zenon, <2>2, <3>1 DEF Advance, Live
    <3>3. Key(x) # Key(p) /\ Key(y) = Key(x)
      BY Zenon, <2>4, <3>1 DEF Key
    <3>4. x \in intents /\ y \in intents
      BY Zenon, <2>1, <3>1, <3>2 DEF LedgerInv, FanoutTogether
    <3> QED BY Zenon, <2>1, <3>3, <3>4 DEF IntentsOf
  <2> QED BY Zenon, <2>2, <2>3, <2>6, <2>7, AdvanceKeeps
<1> QED BY Zenon, <1>5, <1>6, <1>7 DEF RecordObject, recordObjectTx

(* PromotePending: the fan-outs older than the intent have ended.          *)
LEMMA PromotePendingStep ==
    ASSUME LedgerInv, ~ReaperRaces, NEW p \in Used, PromotePending(p)
    PROVE  LedgerInv'
<1> DEFINE displaced == RowsOf(Key(p))
<1>1. p \in Paths /\ ~Live(p) /\ ~Live(p)' /\ (p \in intents => p \in stored)
  BY Zenon, ReapedIsDead, UsedInPaths
     DEF PromotePending, uploads, Live, LedgerInv, BytesInPlace, Arrived
<1>2. ASSUME LedgerAdvance, rows' \ rows \subseteq {p}
      PROVE  Advance
  BY Zenon, <1>1, <1>2, UsedInPaths
     DEF LedgerAdvance, Advance, PromotePending, LedgerInv, TypeOK, Live, Arrived, uploads
<1>3. CASE rows' = rows /\ intents \ {p} \subseteq intents' /\ LedgerAdvance
  BY Zenon, <1>1, <1>2, <1>3, QuietStep DEF PromotePending
<1>4. CASE UNCHANGED ledger
  BY Zenon, <1>3, <1>4 DEF ledger, LedgerAdvance, LedgerInv, TypeOK
<1>5. CASE p \in intents /\ Commit(rows, intents \ {p}, {}, Removed({p}))
  <2>1. p \notin rows
    BY Zenon, <1>5 DEF LedgerInv, Separation
  <2> QED BY <1>3, <1>5, <2>1, CommitAdvance, {} \subseteq rows \X Used DEF Removed
<1>6. p \in intents => {p} \ rows = {p}
  BY Zenon DEF LedgerInv, Separation
<1>7. CASE /\ p \in intents
           /\ Commit((rows \ displaced) \cup {p}, intents \ {p}, Stamp(p), Removed(displaced))
  <2>1. LedgerAdvance /\ rows' = (rows \ displaced) \cup {p} /\ intents' = intents \ {p}
    <3>1. Stamp(p) \subseteq ((rows \ displaced) \cup {p}) \X Used
      BY Zenon DEF Stamp, IntentsOf, LedgerInv, TypeOK
    <3>2. displaced \subseteq rows /\ p \notin displaced /\ displaced \cap intents = {} /\ rows \subseteq Used
      BY Zenon, <1>7 DEF RowsOf, LedgerInv, Separation, TypeOK
    <3>3. \A c \in Removed(displaced) : c \in Used \X {"removed", "overtaken"} /\ c[1] \in displaced
      BY Zenon, <3>2 DEF Removed
    <3> HIDE DEF displaced
    <3> QED BY <1>7, <3>1, <3>2, <3>3, CommitAdvance
  <2>2. Advance
    BY Zenon, <1>2, <2>1
  <2>3. CopiesAgree'
    BY <2>1 DEF LedgerInv, CopiesAgree, RowsOf, Key, Content, PromotePending, uploads
  <2>4. ASSUME NEW x \in intents', claim[x].op \in Fanouts, status[claim[x].op] = "ok",
               Live(x), Key(p) = Key(x)
        PROVE  FALSE
    <3>1. x \in Int /\ p \in Int /\ x # p /\ x \in intents /\ x \in Used
      BY <2>1, UsedInPaths DEF LedgerInv, TypeOK, Paths
    <3>2. \A e \in Elders(p) : \A y \in PathsOf(e) : ~Live(y)
      BY Zenon DEF LedgerInv, ReaperWaits, PromotePending, Done
    <3>3. CASE x < p
      BY <3>1, <3>2, <3>3, <2>4 DEF Elders, PathsOf, Used
    <3>4. CASE p < x
      <4>1. claim[p].op = claim[x].op
        BY Zenon, <3>1, <3>4, <1>7, <2>4 DEF LedgerInv, FanoutOwnsKey, IntentsOf
      <4> QED BY <3>1, <3>2, <2>4, <4>1 DEF Elders, PathsOf, Used
    <3> QED BY <3>1, <3>3, <3>4
  <2>5. FanoutOwnsKey'
    BY Zenon, <2>1, <2>2, <2>4, OwnsFrame DEF PromotePending
  <2>6. FanoutTogether'
    BY Zenon, <1>1, <2>1, <2>2, TogetherFrame
  <2> QED BY Zenon, <2>2, <2>3, <2>5, <2>6, AdvanceKeeps
<1> QED BY Zenon, <1>4, <1>5, <1>6, <1>7 DEF PromotePending, promotePendingTx

(* DeleteObjectsBatch: a key loses its rows and intents together.          *)
LEMMA DeleteObjectsBatchStep ==
    ASSUME LedgerInv, ~ReaperRaces, NEW ks \in SUBSET Keys, DeleteObjectsBatch(ks)
    PROVE  LedgerInv'
<1> DEFINE removed == UNION {RowsOf(k) : k \in ks}
           held == {Key(p) : p \in removed}
           superseded == UNION {IntentsOf(k) : k \in held}
<1>1. removed \subseteq rows /\ superseded = {p \in intents : Key(p) \in held}
  BY DEF RowsOf, IntentsOf
<1>2. LedgerAdvance /\ rows' = rows \ removed /\ intents' = intents \ superseded
  <2>1. \A c \in Removed(removed \cup superseded) :
            c \in Used \X {"removed", "overtaken"} /\ c[1] \in removed \cup superseded
    BY Zenon, <1>1 DEF Removed, LedgerInv, TypeOK
  <2>2. Commit(rows \ removed, intents \ superseded, {}, Removed(removed \cup superseded))
    BY Zenon DEF DeleteObjectsBatch
  <2>3. rows \cap intents = {}
    BY Zenon DEF LedgerInv, Separation
  <2> HIDE DEF removed, superseded
  <2> QED BY <1>1, <2>1, <2>2, <2>3, CommitAdvance, {} \subseteq (rows \ removed) \X Used
<1> HIDE DEF removed, superseded, held
<1>3. Advance
  BY Zenon, <1>2 DEF LedgerAdvance, Advance, DeleteObjectsBatch, uploads, LedgerInv, TypeOK, Live, Arrived
<1>4. CopiesAgree'
  BY SMTT(30), <1>2, <1>3, AgreeFrame
<1>5. FanoutOwnsKey'
  BY SMTT(30), <1>2, <1>3, OwnsFrame DEF DeleteObjectsBatch
<1>6. FanoutTogether'
  <2> SUFFICES ASSUME NEW x \in Used, NEW y \in Used, claim[x].op = claim[y].op,
                      claim[x].op \in Fanouts, status[claim[x].op] = "open",
                      Live(x), Live(y), x \in intents'
               PROVE  y \in intents'
    BY DEF FanoutTogether, DeleteObjectsBatch, Used, uploads, Live
  <2> QED BY Zenon, <1>1, <1>2 DEF LedgerInv, FanoutTogether, Key
<1> QED BY Zenon, <1>3, <1>4, <1>5, <1>6, AdvanceKeeps
=============================================================================
