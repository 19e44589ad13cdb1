--------------------------- MODULE LedgerRegister ---------------------------
(***************************************************************************)
(* The ledger implements the atomic register.  Two history variables, that *)
(* the code does not have, remember which writes were recorded, and which  *)
(* were open when another write was recorded or a delete emptied the key.  *)
(*                                                                         *)
(* The second part has the lemmas about the steps seen by a client: each   *)
(* is a step of the register or none, and keeps RegisterInv.  It is one of *)
(* four kinds: it claims (Begins), it records a write (Takes), it deletes, *)
(* or it changes copies and leaves every key's object as it was (Reshape). *)
(***************************************************************************)
EXTENDS LedgerSteps

VARIABLES taken, overrun

Recorded == ({claim[p].op : p \in rows' \ rows} \cap Writes) \ taken
Emptied == {k \in Keys : RowsOf(k) # {} /\ RowsOf(k)' = {}}
Changed == Emptied \cup {KeyOf[o] : o \in Recorded}

HInit == Init /\ taken = {} /\ overrun = {}
HNext ==
    /\ Next
    /\ taken' = taken \cup Recorded
    /\ overrun' = overrun \cup {o \in Writes \ Recorded :
                                    status[o] = "open" /\ KeyOf[o] \in Changed}
HSpec == HInit /\ [][HNext]_<<vars, taken, overrun>>

Held(k) == IF RowsOf(k) = {} THEN None ELSE Content(CHOOSE p \in RowsOf(k) : TRUE)

Register == INSTANCE ObjectRegister
    WITH value <- [k \in Keys |-> Held(k)], reply <- [o \in Writes |-> status[o]]

(* Seen by its clients, the ledger is an atomic register per key: a write  *)
(* answered ok took effect once, between its call and its answer, even     *)
(* when a concurrent write cleared its intent and its bytes were dropped   *)
(* (recordObjectTx, discardOvertakenWrite); a write answered with an error *)
(* takes effect at most once (promotePendingTx); nothing else changes what *)
(* a key holds, whatever copies come and go.                               *)
AtomicRegister == Register!Spec

-----------------------------------------------------------------------------
(* What ties the register to the tables.                                   *)

(* Every copy is of some write; a copier's intent is never promoted; and a *)
(* client is told one of two things.                                       *)
ContentsWritten ==
    /\ \A p \in Used : Content(p) \in Writes /\ (claim[p].op \in Copiers => claim[p].role = "companion")
    /\ \A o \in Writes : status[o] \in {"idle", "open", "ok", "error"}

(* A write that took effect is over for its client.  What is left of its   *)
(* intents is older than every row of the key, of which there is one: so   *)
(* the reaper drops them (intentSuperseded).                               *)
TakenOnce ==
    /\ \A o \in taken : o \in Writes /\ status[o] \in {"ok", "error"}
    /\ \A p \in intents : claim[p].op \in taken =>
            RowsOf(Key(p)) # {} /\ \A r \in RowsOf(Key(p)) : <<r, p>> \in newer

(* A running upload of an open write lost its intent to a write or to a    *)
(* delete that took effect meanwhile, and that left the write no intent.   *)
OvertakenOverrun ==
    \A p \in Used \ intents :
        claim[p].op \in Writes /\ status[claim[p].op] = "open" /\ Live(p) =>
            claim[p].op \in overrun /\ \A q \in intents : claim[q].op # claim[p].op

(* A write answered ok that still has an intent took effect itself.        *)
AnsweredTaken ==
    \A p \in intents :
        claim[p].op \in Writes /\ status[claim[p].op] = "ok" => claim[p].op \in taken

RegisterInv == LedgerInv /\ ContentsWritten /\ TakenOnce /\ OvertakenOverrun /\ AnsweredTaken

-----------------------------------------------------------------------------
(* What the history variables remember of a step.                          *)
Remember ==
    /\ taken' = taken \cup Recorded
    /\ overrun' = overrun \cup {o \in Writes \ Recorded :
                                    status[o] = "open" /\ KeyOf[o] \in Changed}

(* A step of the register, or none.                                        *)
Mapped == [Register!Next]_<<[k \in Keys |-> Held(k)], taken, overrun, [o \in Writes |-> status[o]]>>

(* The copies of a key agree, so any of them says what it holds.           *)
LEMMA HeldIs ==
    ASSUME LedgerInv, NEW k, NEW p \in RowsOf(k)
    PROVE  Held(k) = Content(p)
<1>1. (CHOOSE q \in RowsOf(k) : TRUE) \in RowsOf(k)
  OBVIOUS
<1>2. \A q \in RowsOf(k) : Content(q) = Content(p)
  BY Zenon DEF LedgerInv, CopiesAgree, RowsOf
<1> QED BY Zenon, <1>1, <1>2 DEF Held

(* The same after the step.                                                *)
LEMMA HeldNext ==
    ASSUME LedgerInv', NEW k, NEW p, p \in RowsOf(k)'
    PROVE  Held(k)' = Content(p)'
<1>1. (CHOOSE q \in RowsOf(k)' : TRUE) \in RowsOf(k)'
  OBVIOUS
<1>2. \A q \in RowsOf(k)' : Content(q)' = Content(p)'
  BY Zenon DEF LedgerInv, CopiesAgree, RowsOf
<1> QED BY Zenon, <1>1, <1>2 DEF Held

(* A key without copies holds nothing.                                     *)
LEMMA HeldNone ==
    ASSUME NEW k, RowsOf(k) = {}
    PROVE  Held(k) = None
BY Zenon DEF Held

-----------------------------------------------------------------------------
(* Steps that change what is recorded and leave every key's object as it   *)
(* was: rows take the place of rows of the same content.                   *)

Stands(p, r) ==
    /\ Key(r) = Key(p) /\ Content(r) = Content(p)
    /\ \A q \in intents' : Key(q) = Key(p) /\ <<r, q>> \in newer => <<p, q>> \in newer'

Reshape ==
    /\ claimed' = claimed /\ claim' = claim
    /\ intents' \subseteq intents
    /\ \A p \in Used : Live(p)' => Live(p)
    /\ \A p \in intents \ intents' : ~Live(p)' \/ claim[p].op \notin Writes
    /\ \A p \in rows' \ rows : claim[p].op \in Copiers \cup taken
    /\ \A p \in rows' : \E r \in rows : Stands(p, r)
    /\ \A r \in rows : \E p \in rows' : Key(p) = Key(r)
    /\ \/ \A o \in Writes : status'[o] = status[o]
       \/ \E o \in Writes : /\ status[o] = "open" /\ status'[o] = "error"
                            /\ \A w \in Writes \ {o} : status'[w] = status[w]

(* Such a step changes nothing that a client could see of the objects.     *)
LEMMA ReshapeUnseen ==
    ASSUME RegisterInv, LedgerInv', Remember, Reshape
    PROVE  /\ taken' = taken /\ overrun' = overrun
           /\ \A k \in Keys : Held(k)' = Held(k)
<1>1. Recorded = {}
  BY Zenon, OpsAssumption DEF Recorded, Reshape
<1>2. ASSUME NEW k \in Keys PROVE RowsOf(k) = {} <=> RowsOf(k)' = {}
  BY DEF RowsOf, Key, Reshape, Stands
<1>3. Changed = {}
  BY Zenon, <1>1, <1>2 DEF Changed, Emptied
<1>4. ASSUME NEW k \in Keys PROVE Held(k)' = Held(k)
  <2>1. CASE RowsOf(k) = {}
    <3>1. RowsOf(k)' = {}
      BY Zenon, <1>2, <2>1
    <3>2. Held(k)' = None
      BY Zenon, <3>1 DEF Held
    <3> QED BY Zenon, <2>1, <3>2, HeldNone
  <2>2. CASE RowsOf(k) # {}
    <3>1. PICK p : p \in RowsOf(k)'
      BY Zenon, <1>2, <2>2
    <3>2. p \in rows' /\ Key(p) = k
      BY Zenon, <3>1 DEF RowsOf, Key, Reshape
    <3>3. PICK r \in rows : Stands(p, r)
      BY Zenon, <3>2 DEF Reshape
    <3>4. r \in RowsOf(k) /\ Content(r) = Content(p)'
      BY Zenon, <3>2, <3>3 DEF RowsOf, Stands, Content, Reshape
    <3> QED BY Zenon, <3>1, <3>4, HeldIs, HeldNext DEF RegisterInv
  <2> QED BY Zenon, <2>1, <2>2
<1> QED BY Zenon, <1>1, <1>3, <1>4 DEF Remember

(* It is no step of the register, or the answer of a write that failed.    *)
LEMMA ReshapeMapped ==
    ASSUME RegisterInv, LedgerInv', Remember, Reshape
    PROVE  Mapped
<1>1. /\ taken' = taken /\ overrun' = overrun
      /\ [k \in Keys |-> Held(k)]' = [k \in Keys |-> Held(k)]
  BY Zenon, ReshapeUnseen
<1>2. CASE \A o \in Writes : status'[o] = status[o]
  BY Zenon, <1>1, <1>2 DEF Mapped
<1>3. ASSUME NEW o \in Writes, status[o] = "open", status'[o] = "error",
             \A w \in Writes \ {o} : status'[w] = status[w]
      PROVE  Mapped
  <2>1. Register!Answer(o)
    BY Zenon, <1>3 DEF Register!Answer
  <2> QED BY Zenon, <1>1, <2>1 DEF Mapped, Register!Next
<1> QED BY Zenon, <1>2, <1>3 DEF Reshape

(* It keeps what ties the register to the tables.                          *)
LEMMA ReshapeKeeps ==
    ASSUME RegisterInv, LedgerInv', Remember, Reshape
    PROVE  RegisterInv'
<1>1. taken' = taken /\ overrun' = overrun
  BY Zenon, ReshapeUnseen
<1>2. Used' = Used /\ intents \subseteq Used
  BY Zenon DEF Used, Reshape, RegisterInv, LedgerInv, TypeOK
<1>3. ContentsWritten'
  BY Zenon, <1>2 DEF RegisterInv, ContentsWritten, Reshape, Content
<1>4. \A o \in Writes : status[o] # "open" => status'[o] = status[o]
  BY Zenon DEF Reshape
<1>5. \A o \in Writes : status'[o] \in {"open", "ok"} => status'[o] = status[o]
  BY Zenon DEF Reshape
<1>6. TakenOnce'
  <2>1. \A o \in taken : o \in Writes /\ status'[o] \in {"ok", "error"}
    BY Zenon, <1>4 DEF RegisterInv, TakenOnce
  <2>2. ASSUME NEW q \in intents', claim[q].op \in taken
        PROVE  RowsOf(Key(q))' # {} /\ \A p \in RowsOf(Key(q))' : <<p, q>> \in newer'
    <3>1. PICK r0 \in rows : Key(r0) = Key(q)
      BY <2>2 DEF RegisterInv, TakenOnce, Reshape, RowsOf
    <3>2. \A r \in rows : Key(r) = Key(q) => <<r, q>> \in newer
      BY Zenon, <2>2 DEF RegisterInv, TakenOnce, Reshape, RowsOf
    <3>3. \A p \in rows' : Key(p) = Key(q) => <<p, q>> \in newer'
      BY Zenon, <3>2 DEF Reshape, Stands
    <3>4. \E p \in rows' : Key(p) = Key(q)
      BY Zenon, <3>1 DEF Reshape
    <3> QED BY Zenon, <3>3, <3>4 DEF RowsOf, Key, Reshape
  <2> QED BY Zenon, <1>1, <2>1, <2>2 DEF TakenOnce, Reshape
<1>7. OvertakenOverrun'
  <2> SUFFICES ASSUME NEW p \in Used, p \notin intents', claim[p].op \in Writes,
                      status'[claim[p].op] = "open", Live(p)'
               PROVE  claim[p].op \in overrun /\ \A q \in intents' : claim[q].op # claim[p].op
    BY Zenon, <1>1, <1>2 DEF OvertakenOverrun, Reshape
  <2>1. Live(p) /\ p \notin intents
    BY Zenon DEF Reshape
  <2> QED BY Zenon, <1>5, <2>1 DEF RegisterInv, OvertakenOverrun, Reshape
<1>8. AnsweredTaken'
  BY Zenon, <1>1, <1>5 DEF RegisterInv, AnsweredTaken, Reshape
<1> QED BY Zenon, <1>3, <1>6, <1>7, <1>8 DEF RegisterInv

(* Nobody's client hears anything.                                         *)
Silent == \A o \in Writes : status'[o] = status[o]

(* One open write fails.                                                   *)
Fails(o) ==
    /\ o \in Writes /\ status[o] = "open" /\ status'[o] = "error"
    /\ \A w \in Writes \ {o} : status'[w] = status[w]

(* A step that leaves the rows alone and drops at most intents nobody uses. *)
LEMMA KeptRows ==
    ASSUME claimed' = claimed, claim' = claim, rows' = rows, intents' \subseteq intents,
           \A p \in rows, q \in intents' : <<p, q>> \in newer => <<p, q>> \in newer',
           \A p \in Used : Live(p)' => Live(p),
           \A p \in intents \ intents' : ~Live(p)',
           Silent \/ \E o : Fails(o)
    PROVE  Reshape
BY Zenon DEF Reshape, Stands, Silent, Fails

(* The same, when only the progress of uploads changes.                    *)
LEMMA KeptLedger ==
    ASSUME LedgerInv, UNCHANGED <<claimed, claim, ledger>>,
           \A p \in Used : Live(p)' => Live(p), Silent \/ \E o : Fails(o)
    PROVE  Reshape
BY Zenon, KeptRows DEF ledger

(* The same, when a transaction drops one intent whose upload is over.     *)
LEMMA KeptBut ==
    ASSUME LedgerInv, NEW p, claimed' = claimed, claim' = claim, NEW Q,
           Commit(rows, intents \ {p}, {}, Q), ~Live(p)',
           \A q \in Used : Live(q)' => Live(q), Silent \/ \E o : Fails(o)
    PROVE  Reshape
<1>1. rows' = rows /\ intents' = intents \ {p}
  BY Zenon DEF Commit
<1>2. \A r \in rows, q \in intents' : <<r, q>> \in newer => <<r, q>> \in newer'
  BY Zenon DEF Commit
<1> QED BY Zenon, <1>1, <1>2, KeptRows

(* Only bounded paths are ever claimed.                                    *)
LEMMA ClaimedPaths ==
    ASSUME TypeOK
    PROVE  Used \subseteq Paths
BY BoundsAssumption DEF TypeOK, Used, Paths

(* Only the upload that ends changes what is running.                      *)
LEMMA EndsLive ==
    ASSUME LedgerInv, NEW p \in Used, Ends(p)
    PROVE  ~Live(p)' /\ \A q \in Used : Live(q)' => Live(q)
BY Zenon, ClaimedPaths DEF LedgerInv, TypeOK, Ends, Live

(* The end of a copier is no answer to a client.                           *)
LEMMA FinishSilent ==
    ASSUME LedgerInv, NEW o, Finish(o)
    PROVE  Silent
BY Zenon, OpsAssumption DEF LedgerInv, TypeOK, Finish, Silent, Ops

(* An upload that moves on, fails or is discarded changes no object.       *)
LEMMA UploadReshape ==
    ASSUME LedgerInv, NEW p \in Used,
           \/ ReadSource(p) \/ SourceMissing(p) \/ CopyFails(p) \/ UploadOk(p)
           \/ UploadRefused(p) \/ UploadFails(p) \/ leaveForReaper(p)
    PROVE  Reshape
<1>1. CASE ReadSource(p) \/ UploadOk(p)
  <2>1. \A q \in Used : Live(q)' => Live(q)
    BY Zenon, <1>1, ClaimedPaths DEF LedgerInv, TypeOK, ReadSource, UploadOk, Live
  <2> QED BY Zenon, <1>1, <2>1, KeptLedger DEF ReadSource, UploadOk, Silent
<1>2. CASE UploadFails(p) \/ leaveForReaper(p)
  BY Zenon, <1>2, EndsLive, KeptLedger DEF UploadFails, leaveForReaper, Silent
<1>3. CASE CopyFails(p) \/ UploadRefused(p)
  <2>1. Silent /\ claimed' = claimed /\ claim' = claim /\ Ends(p) /\ DiscardPending(p)
    BY Zenon, <1>3, FinishSilent DEF CopyFails, UploadRefused, Silent
  <2> QED BY Zenon, <2>1, EndsLive, KeptLedger, KeptBut DEF DiscardPending
<1>4. CASE SourceMissing(p)
  <2>1. source[claim[p].op] \notin rows
    BY Zenon, <1>4 DEF SourceMissing, LedgerInv, BytesInPlace, RecordedBytesStored
  <2>2. Silent /\ claimed' = claimed /\ claim' = claim /\ Ends(p)
    BY Zenon, <1>4, FinishSilent DEF SourceMissing
  <2>3. \/ Commit(rows, intents \ {p}, {}, Removed({p} \cap intents))
        \/ Commit(rows, intents, {}, {})
    <3>1. \A S : S = {source[claim[p].op]} \cap rows \/ S = {} => rows \ S = rows
      BY Zenon, <2>1
    <3> QED BY Zenon, <1>4, <3>1 DEF SourceMissing
  <2>4. CASE Commit(rows, intents, {}, {})
    BY Zenon, <2>2, <2>4, EndsLive, KeptRows DEF Commit
  <2> QED BY Zenon, <2>2, <2>3, <2>4, EndsLive, KeptBut
<1> QED BY Zenon, <1>1, <1>2, <1>3, <1>4

(* Nor does the network, a scan, a cleanup, a write that gives up or a     *)
(* process that dies.                                                      *)
LEMMA AroundReshape ==
    ASSUME LedgerInv, ContentsWritten
    PROVE  /\ \A p : Network(p) \/ probeBackend(p) => Reshape
           /\ \A o, p : Scan(o, p) => Reshape
           /\ \A c : Settle(c) => Reshape
           /\ \A o : GiveUp(o) => Reshape
           /\ \A o \in Ops : Crash(o) => Reshape
<1>1. ASSUME NEW p, Network(p) \/ probeBackend(p) PROVE Reshape
  BY Zenon, <1>1, KeptLedger DEF Network, Land, Lost, probeBackend, uploads, Silent, Live
<1>2. ASSUME NEW o, NEW p, Scan(o, p) PROVE Reshape
  <2>1. Silent
    BY Zenon, <1>2, OpsAssumption DEF Scan, Silent, LedgerInv, TypeOK, Ops
  <2> QED BY Zenon, <1>2, <2>1, KeptLedger DEF Scan, uploads, Live
<1>3. ASSUME NEW c, Settle(c) PROVE Reshape
  BY Zenon, <1>3, KeptRows DEF Settle, uploads, Silent, Live
<1>4. ASSUME NEW o, GiveUp(o) PROVE Reshape
  <2>1. Fails(o)
    BY Zenon, <1>4 DEF GiveUp, Fails, LedgerInv, TypeOK, Ops
  <2> QED BY Zenon, <1>4, <2>1, KeptLedger DEF GiveUp, uploads, Live
<1>5. ASSUME NEW o \in Ops, Crash(o) PROVE Reshape
  <2>1. Silent \/ Fails(o)
    BY Zenon, <1>5, OpsAssumption DEF Crash, Fails, Silent, LedgerInv, TypeOK, Ops
  <2>2. \A q \in Used : Live(q)' => Live(q)
    BY Zenon, <1>5, ClaimedPaths DEF Crash, Live, LedgerInv
  <2> QED BY Zenon, <1>5, <2>1, <2>2, KeptLedger DEF Crash
<1> QED BY Zenon, <1>1, <1>2, <1>3, <1>4, <1>5

(* A row added beside or in place of a row it is a copy of.                *)
LEMMA AddedRow ==
    ASSUME LedgerInv, NEW p \in Used, NEW src \in rows, NEW gone, NEW stamps, NEW Q,
           claimed' = claimed, claim' = claim, Ends(p), Silent,
           Key(src) = Key(p), Content(src) = Content(p), gone \subseteq {src},
           claim[p].op \in Copiers \cup taken,
           \A q \in IntentsOf(Key(p)) : <<src, q>> \in newer => <<p, q>> \in stamps,
           Commit((rows \ gone) \cup {p}, intents \ {p}, stamps, Q)
    PROVE  Reshape
<1>1. ~Live(p)' /\ \A q \in Used : Live(q)' => Live(q)
  BY Zenon, EndsLive
<1>2. rows' = (rows \ gone) \cup {p} /\ intents' = intents \ {p}
  BY Zenon DEF Commit
<1>3. Stands(p, src)
  BY Zenon, <1>2 DEF Stands, Commit, IntentsOf
<1>4. \A r \in rows \ gone : Stands(r, r)
  BY Zenon, <1>2 DEF Stands, Commit
<1>5. \A r \in rows : \E q \in rows' : Key(q) = Key(r)
  BY Zenon, <1>2
<1> QED BY Zenon, <1>1, <1>2, <1>3, <1>4, <1>5 DEF Reshape, Silent

(* A late copy of a fan-out is a copy of what the key holds.               *)
LEMMA CompanionReshape ==
    ASSUME RegisterInv, NEW p \in Used, CommitCompanionCopy(p)
    PROVE  Reshape
<1>1. claimed' = claimed /\ claim' = claim /\ Ends(p) /\ Silent
  BY Zenon DEF CommitCompanionCopy, Silent
<1>2. CASE p \in intents /\ Commit(rows \cup {p}, intents \ {p}, Stamp(p), {})
  <2>1. claim[p].op \in Fanouts /\ status[claim[p].op] = "ok" /\ Live(p) /\ claim[p].op \in Writes
    BY Zenon DEF CommitCompanionCopy, Live, Writes
  <2>2. claim[p].op \in taken
    BY Zenon, <1>2, <2>1 DEF RegisterInv, AnsweredTaken
  <2>3. PICK src \in RowsOf(Key(p)) : TRUE
    BY Zenon, <1>2, <2>2 DEF RegisterInv, TakenOnce
  <2>4. Content(src) = claim[p].op /\ Content(p) = claim[p].op
    BY Zenon, <1>2, <2>1, <2>3 DEF RegisterInv, LedgerInv, FanoutOwnsKey, Bookkeeping
  <2>5. src \in rows /\ Key(src) = Key(p)
    BY Zenon, <2>3 DEF RowsOf
  <2> DEFINE gone == {}
  <2>6. rows \cup {p} = (rows \ gone) \cup {p} /\ \A q \in IntentsOf(Key(p)) : <<p, q>> \in Stamp(p)
    BY Zenon DEF Stamp
  <2>7. Commit((rows \ gone) \cup {p}, intents \ {p}, Stamp(p), {})
    BY Zenon, <1>2, <2>6
  <2>8. /\ LedgerInv /\ claim[p].op \in Copiers \cup taken /\ gone \subseteq {src}
        /\ \A q \in IntentsOf(Key(p)) : <<src, q>> \in newer => <<p, q>> \in Stamp(p)
        /\ Content(src) = Content(p)
    BY Zenon, <2>2, <2>4, <2>6 DEF RegisterInv
  <2> HIDE DEF gone
  <2> QED BY Zenon, <1>1, <2>5, <2>7, <2>8, AddedRow
<1>3. CASE Commit(rows, intents, {}, Overtaken(p))
  BY Zenon, <1>1, <1>3, EndsLive, KeptRows DEF Commit, RegisterInv
<1>4. CASE UNCHANGED ledger
  BY Zenon, <1>1, <1>4, EndsLive, KeptLedger DEF RegisterInv
<1> QED BY Zenon, <1>2, <1>3, <1>4 DEF CommitCompanionCopy

(* A replica or a move places a copy of its source, which is still there.  *)
LEMMA PlaceReshape ==
    ASSUME LedgerInv, NEW p \in Used, PlaceCopy(p)
    PROVE  Reshape
<1> DEFINE o == claim[p].op
           src == source[o]
           move == o \in Moves
           gone == IF move THEN {src} ELSE {}
           stamps == {<<p, q>> : q \in {r \in intents : <<src, r>> \in newer}}
<1>1. claimed' = claimed /\ claim' = claim /\ Ends(p) /\ Silent /\ o \in Copiers
  BY Zenon, FinishSilent DEF PlaceCopy
<1>2. Key(src) = Key(p) /\ Content(src) = Content(p)
  BY Zenon, <1>1 DEF LedgerInv, Bookkeeping, Key
<1>3. ~Live(p)' /\ \A q \in Used : Live(q)' => Live(q)
  BY Zenon, <1>1, EndsLive
<1>4. CASE Commit(rows, intents, {}, Overtaken(p))
  BY Zenon, <1>1, <1>3, <1>4, KeptRows DEF Commit
<1>5. CASE Commit(rows, intents \ {p}, {}, Removed({p}))
  BY Zenon, <1>1, <1>3, <1>5, KeptBut
<1>6. CASE src \in rows /\ Commit((rows \ gone) \cup {p}, intents \ {p}, stamps, Removed(gone))
  <2>1. gone \subseteq {src} /\ \A q \in IntentsOf(Key(p)) : <<src, q>> \in newer => <<p, q>> \in stamps
    BY Zenon DEF IntentsOf
  <2>2. claim[p].op \in Copiers \cup taken
    BY Zenon, <1>1
  <2> HIDE DEF src, gone, stamps
  <2> QED BY Zenon, <1>1, <1>2, <1>6, <2>1, <2>2, AddedRow
<1>7. CASE UNCHANGED ledger
  BY Zenon, <1>1, <1>3, <1>7, KeptLedger
<1> QED BY Zenon, <1>4, <1>5, <1>6, <1>7 DEF PlaceCopy, placeCopyTx, refusal

(* An excess copy that goes leaves another one.                            *)
LEMMA DropReshape ==
    ASSUME LedgerInv, NEW p \in Used, DeleteObjectLocation(p), RowsOf(Key(p)) # {p}
    PROVE  Reshape
<1>1. /\ claimed' = claimed /\ claim' = claim /\ Silent /\ rows' = rows \ {p} /\ intents' = intents
      /\ \A r \in rows', q \in intents' : <<r, q>> \in newer => <<r, q>> \in newer'
  BY Zenon DEF DeleteObjectLocation, Commit, uploads, Silent
<1>2. \A r \in rows : \E q \in rows' : Key(q) = Key(r)
  <2>1. p \in RowsOf(Key(p))
    BY Zenon DEF DeleteObjectLocation, RowsOf
  <2>2. PICK q \in RowsOf(Key(p)) : q # p
    BY Zenon, <2>1
  <2> QED BY Zenon, <1>1, <2>2 DEF RowsOf
<1>3. \A r \in rows' : r \in rows /\ Stands(r, r)
  BY Zenon, <1>1 DEF Stands
<1>4. \A q \in Used : Live(q)' => Live(q)
  BY Zenon DEF DeleteObjectLocation, uploads, Live
<1> QED BY Zenon, <1>1, <1>2, <1>3, <1>4 DEF Reshape, Silent

(* A write whose commit fails, or that was overtaken and told so.          *)
LEMMA RefusedReshape ==
    ASSUME LedgerInv, NEW p \in Used, RecordObject(p), status'[claim[p].op] = "error",
           UNCHANGED ledger \/ p \notin intents
    PROVE  Reshape
<1>1. claimed' = claimed /\ claim' = claim /\ Ends(p)
  BY Zenon DEF RecordObject
<1>2. Fails(claim[p].op)
  BY DEF RecordObject, Fails, LedgerInv, TypeOK, Ops
<1>3. CASE Commit(rows, intents, {}, Overtaken(p))
  BY Zenon, <1>1, <1>2, <1>3, EndsLive, KeptRows DEF Commit
<1>4. CASE UNCHANGED ledger
  BY Zenon, <1>1, <1>2, <1>4, EndsLive, KeptLedger
<1> QED BY Zenon, <1>3, <1>4 DEF RecordObject, recordObjectTx

(* The reaper acts only on intents whose operation has ended.              *)
LEMMA ReapedOver ==
    ASSUME LedgerInv, NEW q \in Used, probe[q] # "none"
    PROVE  ~Live(q) /\ status[claim[q].op] # "open"
<1>1. claim[q].op \in Elders(q) /\ q \in PathsOf(claim[q].op)
  BY DEF Elders, PathsOf, Used, LedgerInv, TypeOK
<1> QED BY Zenon, <1>1 DEF LedgerInv, ReaperWaits, Done

(* The reaper drops what it does not promote.                              *)
LEMMA ReaperReshape ==
    ASSUME LedgerInv, NEW p \in Used,
           \/ dropIntent(p)
           \/ PromotePending(p) /\ (p \in intents => claim[p].role = "companion" \/ intentSuperseded(p))
    PROVE  Reshape
<1>1. claimed' = claimed /\ claim' = claim /\ Silent /\ \A q : Live(q)' = Live(q)
  BY Zenon DEF dropIntent, PromotePending, uploads, Silent, Live
<1>2. ~Live(p)
  BY Zenon, ReapedOver DEF dropIntent, PromotePending
<1>3. CASE UNCHANGED ledger
  BY Zenon, <1>1, <1>3, KeptLedger
<1>4. ASSUME NEW Q, Commit(rows, intents \ {p}, {}, Q) PROVE Reshape
  BY Zenon, <1>1, <1>2, <1>4, KeptBut
<1> QED BY Zenon, <1>3, <1>4 DEF dropIntent, PromotePending, promotePendingTx

-----------------------------------------------------------------------------
(* Claims: the first one of a write is its call.                           *)

Begins(o) ==
    /\ \A p \in Used : p \in Used' /\ claim'[p] = claim[p] /\ (Live(p)' => Live(p))
    /\ \A p \in Used' \ Used :
            /\ claim'[p].op = o /\ claim'[p].content \in Writes
            /\ o \in Copiers => claim'[p].role = "companion"
    /\ intents' = intents \cup (Used' \ Used) /\ rows' = rows /\ newer' = newer
    /\ status[o] \in {"idle", "scanned", "open"} /\ status' = [status EXCEPT ![o] = "open"]
    /\ o \in Writes => status[o] \in {"idle", "open"} /\ \A p \in PathsOf(o) : ~Live(p)

(* A claim changes no row.                                                 *)
LEMMA BeginsUnseen ==
    ASSUME RegisterInv, LedgerInv', Remember, NEW o \in Ops, Begins(o)
    PROVE  /\ taken' = taken /\ overrun' = overrun
           /\ \A k \in Keys : RowsOf(k)' = RowsOf(k) /\ Held(k)' = Held(k)
<1>1. rows' = rows /\ rows \subseteq Used /\ \A p \in Used : claim'[p] = claim[p]
  BY Zenon DEF Begins, RegisterInv, LedgerInv, TypeOK
<1>2. ASSUME NEW k \in Keys PROVE RowsOf(k)' = RowsOf(k)
  BY Zenon, <1>1 DEF RowsOf, Key
<1>3. Recorded = {} /\ Changed = {}
  BY Zenon, <1>1, <1>2 DEF Recorded, Changed, Emptied
<1>4. ASSUME NEW k \in Keys PROVE Held(k)' = Held(k)
  <2>1. CASE RowsOf(k) = {}
    BY Zenon, <1>2, <2>1 DEF Held
  <2>2. CASE RowsOf(k) # {}
    <3>1. PICK p : p \in RowsOf(k)
      BY Zenon, <2>2
    <3>2. p \in RowsOf(k)' /\ Content(p)' = Content(p)
      BY Zenon, <1>1, <1>2, <3>1 DEF RowsOf, Content
    <3> QED BY Zenon, <3>1, <3>2, HeldIs, HeldNext DEF RegisterInv
  <2> QED BY Zenon, <2>1, <2>2
<1> QED BY Zenon, <1>2, <1>3, <1>4 DEF Remember

(* It is the call of a write, or no step of the register.                  *)
LEMMA BeginsMapped ==
    ASSUME RegisterInv, LedgerInv', Remember, NEW o \in Ops, Begins(o)
    PROVE  Mapped
<1>1. /\ taken' = taken /\ overrun' = overrun
      /\ [k \in Keys |-> Held(k)]' = [k \in Keys |-> Held(k)]
  BY Zenon, BeginsUnseen
<1>2. status' = [status EXCEPT ![o] = "open"] /\ status \in [Ops -> {"idle", "scanned", "open", "ok", "error", "ended"}]
  BY Zenon DEF Begins, RegisterInv, LedgerInv, TypeOK
<1>3. CASE o \in Writes /\ status[o] = "idle"
  <2>1. Register!Call(o)
    BY Zenon, <1>1, <1>2, <1>3 DEF Register!Call, Ops
  <2> QED BY Zenon, <1>3, <2>1 DEF Mapped, Register!Next
<1>4. CASE o \in Writes => status[o] = "open"
  <2>1. \A w \in Writes : status'[w] = status[w]
    BY Zenon, <1>2, <1>4 DEF Ops
  <2> QED BY Zenon, <1>1, <2>1 DEF Mapped
<1> QED BY Zenon, <1>3, <1>4 DEF Begins

(* It keeps what ties the register to the tables.                          *)
LEMMA BeginsKeeps ==
    ASSUME RegisterInv, LedgerInv', Remember, NEW o \in Ops, Begins(o)
    PROVE  RegisterInv'
<1> DEFINE new == Used' \ Used
<1>1. taken' = taken /\ overrun' = overrun /\ \A k \in Keys : RowsOf(k)' = RowsOf(k)
  BY Zenon, BeginsUnseen
<1>2. /\ \A p \in Used : claim'[p] = claim[p]
      /\ \A p \in new : claim'[p].op = o
      /\ intents' = intents \cup new /\ newer' = newer /\ intents \subseteq Used
      /\ status[o] \in {"idle", "scanned", "open"} /\ status' = [status EXCEPT ![o] = "open"]
      /\ status \in [Ops -> {"idle", "scanned", "open", "ok", "error", "ended"}]
  BY Zenon DEF Begins, RegisterInv, LedgerInv, TypeOK
<1>3. \A p \in Used : Live(p)' => Live(p)
  BY Zenon DEF Begins
<1>4. o \notin taken
  BY Zenon, <1>2 DEF RegisterInv, TakenOnce
<1>5. \A w \in Ops \ {o} : status'[w] = status[w]
  BY Zenon, <1>2
<1>6. status'[o] = "open"
  BY Zenon, <1>2
<1>7. ContentsWritten'
  <2>1. \A p \in Used : Content(p)' \in Writes /\ (claim'[p].op \in Copiers => claim'[p].role = "companion")
    BY Zenon, <1>2 DEF RegisterInv, ContentsWritten, Content
  <2>2. \A p \in new : Content(p)' \in Writes /\ (claim'[p].op \in Copiers => claim'[p].role = "companion")
    BY Zenon, <1>2 DEF Begins, Content
  <2>3. \A w \in Writes : status'[w] \in {"idle", "open", "ok", "error"}
    BY Zenon, <1>5, <1>6 DEF RegisterInv, ContentsWritten, Ops
  <2> QED BY Zenon, <2>1, <2>2, <2>3 DEF ContentsWritten
<1>8. TakenOnce'
  <2>1. \A w \in taken : w \in Writes /\ status'[w] \in {"ok", "error"}
    BY Zenon, <1>4, <1>5 DEF RegisterInv, TakenOnce, Ops
  <2>2. ASSUME NEW p \in intents', claim'[p].op \in taken
        PROVE  RowsOf(Key(p))' # {} /\ \A r \in RowsOf(Key(p))' : <<r, p>> \in newer'
    <3>1. p \in intents /\ claim'[p] = claim[p]
      BY Zenon, <1>2, <1>4, <2>2
    <3>2. Key(p)' = Key(p) /\ Key(p) \in Keys
      BY Zenon, <2>2, <3>1, OpsAssumption DEF Key, RegisterInv, TakenOnce, Ops
    <3>3. RowsOf(Key(p))' = RowsOf(Key(p))
      <4>1. RowsOf(Key(p))' = {r \in rows' : Key(r)' = Key(p)'}
        BY Zenon DEF RowsOf
      <4>3. {r \in rows' : Key(r)' = Key(p)'} = {r \in rows' : Key(r)' = Key(p)}
        BY Zenon, <3>2
      <4>4. rows' = rows /\ \A r \in rows : Key(r)' = Key(r)
        BY Zenon, <1>2 DEF Begins, Key, RegisterInv, LedgerInv, TypeOK
      <4> QED BY Zenon, <4>1, <4>3, <4>4 DEF RowsOf
    <3> QED BY Zenon, <1>2, <2>2, <3>1, <3>3 DEF RegisterInv, TakenOnce
  <2> QED BY Zenon, <1>1, <2>1, <2>2 DEF TakenOnce
<1>9. OvertakenOverrun'
  <2> SUFFICES ASSUME NEW p \in Used', p \notin intents', claim'[p].op \in Writes,
                      status'[claim'[p].op] = "open", Live(p)'
               PROVE  claim'[p].op \in overrun /\ \A q \in intents' : claim'[q].op # claim'[p].op
    BY Zenon, <1>1 DEF OvertakenOverrun
  <2>1. p \in Used /\ p \notin intents /\ claim'[p] = claim[p] /\ Live(p)
    BY Zenon, <1>2, <1>3
  <2>2. claim[p].op # o
    BY Zenon, <2>1 DEF Begins, PathsOf
  <2>3. status[claim[p].op] = "open"
    BY Zenon, <1>5, <2>1, <2>2 DEF Ops
  <2>4. claim[p].op \in overrun /\ \A q \in intents : claim[q].op # claim[p].op
    BY Zenon, <2>1, <2>3 DEF RegisterInv, OvertakenOverrun
  <2> QED BY Zenon, <1>2, <2>1, <2>2, <2>4
<1>10. AnsweredTaken'
  <2> SUFFICES ASSUME NEW p \in intents', claim'[p].op \in Writes, status'[claim'[p].op] = "ok"
               PROVE  claim'[p].op \in taken
    BY Zenon, <1>1 DEF AnsweredTaken
  <2>1. claim'[p].op # o
    BY Zenon, <1>6
  <2>2. p \in intents /\ claim'[p] = claim[p]
    BY Zenon, <1>2, <2>1
  <2> QED BY Zenon, <1>5, <2>1, <2>2 DEF RegisterInv, AnsweredTaken, Ops
<1> QED BY Zenon, <1>7, <1>8, <1>9, <1>10 DEF RegisterInv

(* InsertPending begins fresh paths, one for each backend.                 *)
LEMMA InsertPendingBegins ==
    ASSUME RegisterInv, NEW o \in Ops, NEW n \in Nat, NEW bs \in [1..n -> Backends],
           NEW content \in Writes, NEW first, InsertPending(o, bs, content, first),
           status[o] \in {"idle", "scanned", "open"}, status' = [status EXCEPT ![o] = "open"],
           o \in Writes => status[o] \in {"idle", "open"} /\ \A p \in PathsOf(o) : ~Live(p)
    PROVE  Begins(o)
<1>1. Len(bs) = n /\ claimed \in Nat /\ MaxPaths \in Nat /\ Used \subseteq Paths
  BY BoundsAssumption, ClaimedPaths DEF RegisterInv, LedgerInv, TypeOK
<1>2. claimed' = claimed + n /\ claimed' <= MaxPaths
  BY Zenon, <1>1 DEF InsertPending
<1>3. Used' \ Used = claimed + 1 .. claimed + n /\ Used \subseteq Used'
  BY <1>1, <1>2 DEF Used
<1>4. \A p \in Used' \ Used : p \in Paths /\ p - claimed \in 1..n
  BY <1>1, <1>2, <1>3 DEF Paths
<1>5. /\ \A p \in Used : claim'[p] = claim[p] /\ phase'[p] = phase[p]
      /\ \A p \in Used' \ Used : /\ claim'[p].op = o /\ claim'[p].content = content
                                 /\ o \notin Writes => claim'[p].role = "companion"
      /\ intents' = intents \cup (Used' \ Used) /\ rows' = rows /\ newer' = newer
  BY Zenon, <1>1, <1>3, <1>4 DEF InsertPending
<1>6. o \in Copiers => o \notin Writes
  BY Zenon, OpsAssumption
<1> QED BY Zenon, <1>3, <1>5, <1>6 DEF Begins, Live

(* The three claims.                                                       *)
LEMMA ClaimBegins ==
    ASSUME RegisterInv
    PROVE  /\ \A o \in Puts, b \in Backends : ClaimWriteTarget(o, b) => Begins(o)
           /\ \A o \in Fanouts, bs \in Targets : ClaimWriteCopies(o, bs) => Begins(o)
           /\ \A o \in Copiers, b \in Backends : ClaimCopyTarget(o, b) => Begins(o)
<1>1. ASSUME NEW b \in Backends PROVE <<b>> \in [1..1 -> Backends] /\ 1 \in Nat
  OBVIOUS
<1>2. ASSUME NEW o \in Puts, NEW b \in Backends, ClaimWriteTarget(o, b) PROVE Begins(o)
  <2>1. o \in Ops /\ o \in Writes
    BY Zenon DEF Ops, Writes
  <2> QED BY Zenon, <1>1, <1>2, <2>1, InsertPendingBegins DEF ClaimWriteTarget
<1>3. ASSUME NEW o \in Fanouts, NEW bs \in Targets, ClaimWriteCopies(o, bs) PROVE Begins(o)
  <2>1. o \in Ops /\ o \in Writes
    BY Zenon DEF Ops, Writes
  <2>2. PICK n \in Nat : bs \in [1..n -> Backends]
    BY BoundsAssumption DEF Targets
  <2>3. status[o] = "idle"
    BY Zenon, <1>3 DEF ClaimWriteCopies
  <2>4. PathsOf(o) = {}
    BY <2>3 DEF RegisterInv, LedgerInv, Bookkeeping, PathsOf
  <2> QED BY Zenon, <1>3, <2>1, <2>2, <2>3, <2>4, InsertPendingBegins DEF ClaimWriteCopies
<1>4. ASSUME NEW o \in Copiers, NEW b \in Backends, ClaimCopyTarget(o, b) PROVE Begins(o)
  <2>1. o \in Ops /\ o \notin Writes
    BY Zenon, OpsAssumption DEF Ops
  <2>2. status[o] = "scanned"
    BY Zenon, <1>4 DEF ClaimCopyTarget
  <2>3. source[o] \in Used
    BY Zenon, <2>2 DEF RegisterInv, LedgerInv, Bookkeeping
  <2>4. Content(source[o]) \in Writes
    BY Zenon, <2>3 DEF RegisterInv, ContentsWritten
  <2> QED BY Zenon, <1>1, <1>4, <2>1, <2>2, <2>4, InsertPendingBegins DEF ClaimCopyTarget
<1> QED BY Zenon, <1>2, <1>3, <1>4

-----------------------------------------------------------------------------
(* The moment a write takes effect: its row replaces the key's rows, and   *)
(* its own intents that are left are older than that row.                  *)

Takes(p) ==
    LET o == claim[p].op
    IN  /\ claimed' = claimed /\ claim' = claim
        /\ o \in Writes \ taken /\ p \in intents
        /\ rows' = (rows \ RowsOf(Key(p))) \cup {p}
        /\ intents' \subseteq intents \ {p}
        /\ \A q \in intents' : Key(q) = Key(p) => <<p, q>> \in newer'
        /\ \A r \in rows, q \in intents' : Key(r) # Key(p) /\ <<r, q>> \in newer => <<r, q>> \in newer'
        /\ \A q \in Used : Live(q)' => Live(q)
        /\ \A q \in intents \ intents' : Live(q)' =>
                Key(q) = Key(p) /\ \A r \in intents' : claim[r].op # claim[q].op
        /\ \A w \in Writes \ {o} : status'[w] = status[w]
        /\ \/ status[o] = "open" /\ status'[o] \in {"ok", "error"}
           \/ status[o] = "error" /\ status'[o] = "error"

(* The key holds the write, and the writes that were open are overrun.     *)
LEMMA TakesSeen ==
    ASSUME RegisterInv, LedgerInv', Remember, NEW p \in Used, Takes(p)
    PROVE  /\ Key(p) = KeyOf[claim[p].op] /\ Key(p) \in Keys
           /\ taken' = taken \cup {claim[p].op}
           /\ overrun' = overrun \cup {w \in Writes \ {claim[p].op} : status[w] = "open" /\ KeyOf[w] = Key(p)}
           /\ \A k \in Keys : Held(k)' = IF k = Key(p) THEN claim[p].op ELSE Held(k)
           /\ RowsOf(Key(p))' = {p}
           /\ \A k \in Keys \ {Key(p)} : RowsOf(k)' = RowsOf(k)
<1> DEFINE o == claim[p].op
<1>1. o \in Writes /\ o \notin taken /\ p \in intents /\ p \notin rows /\ claim' = claim
      /\ rows' = (rows \ RowsOf(Key(p))) \cup {p} /\ Key(p) = KeyOf[o] /\ Key(p) \in Keys
  BY Zenon, OpsAssumption DEF Takes, RegisterInv, LedgerInv, Separation, Key, Ops
<1>2. RowsOf(Key(p))' = {p}
  BY Zenon, <1>1 DEF RowsOf, Key
<1>3. ASSUME NEW k \in Keys, k # Key(p) PROVE RowsOf(k)' = RowsOf(k)
  BY Zenon, <1>1, <1>3 DEF RowsOf, Key
<1>4. Recorded = {o}
  BY Zenon, <1>1 DEF Recorded
<1>5. Emptied = {}
  <2>1. \A k : k = Key(p) => p \in RowsOf(k)'
    BY Zenon, <1>1 DEF RowsOf, Key
  <2> QED BY Zenon, <1>3, <2>1 DEF Emptied
<1>6. Changed = {Key(p)}
  BY Zenon, <1>1, <1>4, <1>5 DEF Changed
<1>7. ASSUME NEW k \in Keys, k # Key(p) PROVE Held(k)' = Held(k)
  <2>1. CASE RowsOf(k) = {}
    BY Zenon, <1>3, <1>7, <2>1 DEF Held
  <2>2. CASE RowsOf(k) # {}
    <3>1. PICK r : r \in RowsOf(k)
      BY Zenon, <2>2
    <3>2. r \in RowsOf(k)' /\ Content(r)' = Content(r)
      BY Zenon, <1>1, <1>3, <1>7, <3>1 DEF Content
    <3> QED BY Zenon, <3>1, <3>2, HeldIs, HeldNext DEF RegisterInv
  <2> QED BY Zenon, <2>1, <2>2
<1>8. ASSUME NEW k \in Keys PROVE Held(k)' = IF k = Key(p) THEN o ELSE Held(k)
  <2>1. CASE k = Key(p)
    <3>1. p \in RowsOf(k)'
      BY Zenon, <1>1, <2>1 DEF RowsOf, Key
    <3>2. Content(p)' = o
      BY Zenon, <1>1 DEF RegisterInv, LedgerInv, Bookkeeping, Content
    <3> QED BY Zenon, <2>1, <3>1, <3>2, HeldNext
  <2> QED BY Zenon, <1>7, <2>1
<1> QED BY Zenon, <1>1, <1>2, <1>3, <1>4, <1>6, <1>8 DEF Remember

(* It is a write of the register, with its answer or long after it.        *)
LEMMA TakesMapped ==
    ASSUME RegisterInv, LedgerInv', Remember, NEW p \in Used, Takes(p)
    PROVE  Mapped
<1>1. PICK o \in Writes : o = claim[p].op /\ o \notin taken
  BY Zenon DEF Takes
<1>2. /\ taken' = taken \cup {o}
      /\ overrun' = overrun \cup {w \in Writes \ {o} : status[w] = "open" /\ KeyOf[w] = KeyOf[o]}
      /\ \A k \in Keys : Held(k)' = IF k = KeyOf[o] THEN o ELSE Held(k)
  BY <1>1, TakesSeen
<1>3. [k \in Keys |-> Held(k)]' = [[k \in Keys |-> Held(k)] EXCEPT ![KeyOf[o]] = o]
  BY Zenon, <1>2
<1>4. status[o] \in {"open", "error"}
  BY Zenon, <1>1 DEF Takes
<1>5. Register!Write(o)
  BY Zenon, <1>1, <1>2, <1>3, <1>4 DEF Register!Write, Register!Open
<1>6. CASE status[o] = "open" /\ status'[o] \in {"ok", "error"}
  <2>1. [w \in Writes |-> status[w]]' = [[w \in Writes |-> status[w]] EXCEPT ![o] = status'[o]]
    BY Zenon, <1>1 DEF Takes
  <2>2. Register!Answer(o)
    BY Zenon, <1>1, <1>2, <1>6, <2>1 DEF Register!Answer
  <2> QED BY Zenon, <1>1, <1>5, <2>2 DEF Mapped, Register!Next
<1>7. CASE status[o] = "error" /\ status'[o] = "error"
  <2>1. [w \in Writes |-> status[w]]' = [w \in Writes |-> status[w]]
    BY Zenon, <1>1, <1>7 DEF Takes
  <2> QED BY Zenon, <1>1, <1>5, <2>1 DEF Mapped, Register!Next
<1> QED BY Zenon, <1>1, <1>6, <1>7 DEF Takes

(* It keeps what ties the register to the tables.                          *)
LEMMA TakesKeeps ==
    ASSUME RegisterInv, LedgerInv', Remember, NEW p \in Used, Takes(p)
    PROVE  RegisterInv'
<1> DEFINE o == claim[p].op
<1>1. /\ Key(p) = KeyOf[o] /\ Key(p) \in Keys /\ taken' = taken \cup {o}
      /\ overrun' = overrun \cup {w \in Writes \ {o} : status[w] = "open" /\ KeyOf[w] = Key(p)}
  BY Zenon, TakesSeen
<1>2. /\ Used' = Used /\ claim' = claim /\ intents' \subseteq intents /\ intents \subseteq Used
      /\ o \in Writes /\ o \notin taken /\ status'[o] \in {"ok", "error"}
      /\ \A w \in Writes \ {o} : status'[w] = status[w]
  BY Zenon DEF Takes, Used, RegisterInv, LedgerInv, TypeOK
<1>3. ContentsWritten'
  BY Zenon, <1>2 DEF RegisterInv, ContentsWritten, Content
<1>4. TakenOnce'
  <2>1. \A w \in taken' : w \in Writes /\ status'[w] \in {"ok", "error"}
    BY Zenon, <1>1, <1>2 DEF RegisterInv, TakenOnce
  <2>2. ASSUME NEW q \in intents', claim[q].op \in taken', Key(q) = Key(p)
        PROVE  RowsOf(Key(q))' # {} /\ \A r \in RowsOf(Key(q))' : <<r, q>> \in newer'
    <3>1. <<p, q>> \in newer'
      BY Zenon, <2>2 DEF Takes
    <3>2. \A r \in rows' : Key(r)' = Key(q)' => r = p
      BY Zenon, <1>2, <2>2 DEF Takes, RowsOf, Key
    <3>3. p \in rows' /\ Key(p)' = Key(q)'
      BY Zenon, <1>2, <2>2 DEF Takes, Key
    <3> QED BY Zenon, <3>1, <3>2, <3>3 DEF RowsOf
  <2>3. ASSUME NEW q \in intents', claim[q].op \in taken', Key(q) # Key(p)
        PROVE  RowsOf(Key(q))' # {} /\ \A r \in RowsOf(Key(q))' : <<r, q>> \in newer'
    <3>1. claim[q].op \in taken /\ q \in intents
      BY Zenon, <1>1, <1>2, <2>3 DEF Key
    <3>2. RowsOf(Key(q))' = RowsOf(Key(q))
      BY <1>2, <2>3 DEF Takes, RowsOf, Key
    <3>3. \A r \in RowsOf(Key(q)) : r \in rows /\ Key(r) # Key(p)
      BY Zenon, <2>3 DEF RowsOf
    <3> QED BY Zenon, <2>3, <3>1, <3>2, <3>3 DEF Takes, RegisterInv, TakenOnce
  <2> QED BY Zenon, <1>2, <2>1, <2>2, <2>3 DEF TakenOnce
<1>5. OvertakenOverrun'
  <2> SUFFICES ASSUME NEW q \in Used, q \notin intents', claim[q].op \in Writes,
                      status'[claim[q].op] = "open", Live(q)'
               PROVE  claim[q].op \in overrun' /\ \A r \in intents' : claim[r].op # claim[q].op
    BY Zenon, <1>2 DEF OvertakenOverrun
  <2>1. claim[q].op # o /\ status[claim[q].op] = "open" /\ Live(q)
    BY Zenon, <1>2 DEF Takes
  <2>2. CASE q \notin intents
    BY Zenon, <1>1, <1>2, <2>1, <2>2 DEF RegisterInv, OvertakenOverrun
  <2>3. CASE q \in intents
    <3>1. Key(q) = Key(p) /\ \A r \in intents' : claim[r].op # claim[q].op
      BY Zenon, <2>3 DEF Takes
    <3> QED BY Zenon, <1>1, <2>1, <3>1 DEF Key
  <2> QED BY Zenon, <2>2, <2>3
<1>6. AnsweredTaken'
  BY Zenon, <1>1, <1>2 DEF RegisterInv, AnsweredTaken
<1> QED BY Zenon, <1>3, <1>4, <1>5, <1>6 DEF RegisterInv

-----------------------------------------------------------------------------
(* The first upload of a write that lands with its intent in place.        *)
LEMMA RecordTakes ==
    ASSUME RegisterInv, NEW p \in Used, RecordObject(p), p \in intents, ~UNCHANGED ledger
    PROVE  Takes(p)
<1> DEFINE o == claim[p].op
           placing == {q \in PathsOf(o) \ {p} : Live(q)}
           superseded == IntentsOf(Key(p)) \ (placing \cup {p})
<1>1. /\ o \in Writes /\ status[o] = "open" /\ claimed' = claimed /\ claim' = claim /\ Ends(p)
      /\ status' \in {[status EXCEPT ![o] = a] : a \in {"ok", "error"}}
      /\ Commit((rows \ RowsOf(Key(p))) \cup {p}, intents \ (superseded \cup {p}),
                {p} \X placing, Removed(RowsOf(Key(p)) \cup superseded))
  BY Zenon DEF RecordObject, recordObjectTx
<1>2. ~Live(p)' /\ \A q \in Used : Live(q)' => Live(q)
  BY Zenon, <1>1, EndsLive DEF RegisterInv
<1>3. intents \subseteq Used
  BY Zenon DEF RegisterInv, LedgerInv, TypeOK
<1>4. rows' = (rows \ RowsOf(Key(p))) \cup {p} /\ intents' = intents \ (superseded \cup {p})
  BY Zenon, <1>1 DEF Commit
<1>5. o \notin taken
  BY Zenon, <1>1 DEF RegisterInv, TakenOnce
<1>6. \A q \in intents' : Key(q) = Key(p) => q \in placing
  BY Zenon, <1>4 DEF IntentsOf
<1>7. \A q \in intents' : Key(q) = Key(p) => <<p, q>> \in newer'
  BY Zenon, <1>1, <1>4, <1>6 DEF Commit
<1>8. \A r \in rows, q \in intents' : Key(r) # Key(p) /\ <<r, q>> \in newer => <<r, q>> \in newer'
  <2>1. \A r \in rows : Key(r) # Key(p) => r \in rows'
    BY Zenon, <1>4 DEF RowsOf
  <2> QED BY Zenon, <1>1, <1>4, <2>1 DEF Commit
<1>9. ASSUME NEW q \in intents \ intents', Live(q)'
      PROVE  Key(q) = Key(p) /\ \A r \in intents' : claim[r].op # claim[q].op
  <2>1. q # p /\ Live(q) /\ q \in Used
    BY Zenon, <1>2, <1>3, <1>9
  <2>2. q \in superseded
    BY Zenon, <1>4, <2>1
  <2>3. claim[q].op # o
    BY Zenon, <2>1, <2>2 DEF PathsOf
  <2>4. Key(q) = Key(p)
    BY Zenon, <2>2 DEF IntentsOf
  <2>5. ASSUME NEW r \in intents', claim[r].op = claim[q].op PROVE FALSE
    <3>1. Key(r) = Key(p)
      BY Zenon, <2>4, <2>5 DEF Key
    <3>2. claim[r].op = o
      BY Zenon, <1>6, <3>1 DEF PathsOf
    <3> QED BY Zenon, <2>3, <2>5, <3>2
  <2> QED BY Zenon, <2>4, <2>5
<1>10. /\ status'[o] \in {"ok", "error"} /\ status[o] = "open"
       /\ \A w \in Writes \ {o} : status'[w] = status[w]
  BY <1>1 DEF RegisterInv, LedgerInv, TypeOK, Ops
<1>11. intents' \subseteq intents \ {p}
  BY Zenon, <1>4
<1> HIDE DEF placing, superseded
<1> QED BY Zenon, <1>1, <1>2, <1>4, <1>5, <1>7, <1>8, <1>9, <1>10, <1>11 DEF Takes

(* The reaper recovers the write of a client that was told an error.       *)
LEMMA PromoteTakes ==
    ASSUME RegisterInv, NEW p \in Used, PromotePending(p), p \in intents,
           claim[p].role # "companion", ~intentSuperseded(p)
    PROVE  Takes(p)
<1> DEFINE o == claim[p].op
<1>1. /\ claimed' = claimed /\ claim' = claim /\ status' = status /\ phase' = phase
      /\ Commit((rows \ RowsOf(Key(p))) \cup {p}, intents \ {p}, Stamp(p), Removed(RowsOf(Key(p))))
  BY Zenon DEF PromotePending, promotePendingTx, uploads
<1>2. o \in Writes
  BY Zenon DEF RegisterInv, ContentsWritten, LedgerInv, Bookkeeping, Ops
<1>3. o \notin taken
  <2>1. o \in taken => RowsOf(Key(p)) # {} /\ \A r \in RowsOf(Key(p)) : <<r, p>> \in newer
    BY Zenon DEF RegisterInv, TakenOnce
  <2> QED BY Zenon, <2>1 DEF intentSuperseded
<1>4. ~Live(p) /\ status[o] # "open"
  <2>1. probe[p] # "none"
    BY Zenon DEF PromotePending
  <2> QED BY Zenon, <2>1, ReapedOver DEF RegisterInv
<1>5. status[o] = "error"
  <2>1. status[o] \in {"idle", "open", "ok", "error"} /\ status[o] # "idle"
    BY Zenon, <1>2 DEF RegisterInv, ContentsWritten, LedgerInv, Bookkeeping
  <2>2. status[o] # "ok"
    BY Zenon, <1>2, <1>3 DEF RegisterInv, AnsweredTaken
  <2> QED BY Zenon, <1>4, <2>1, <2>2
<1>6. rows' = (rows \ RowsOf(Key(p))) \cup {p} /\ intents' = intents \ {p}
  BY Zenon, <1>1 DEF Commit
<1>7. \A q \in intents' : Key(q) = Key(p) => <<p, q>> \in newer'
  BY Zenon, <1>1, <1>6 DEF Commit, Stamp, IntentsOf
<1>8. \A r \in rows, q \in intents' : Key(r) # Key(p) /\ <<r, q>> \in newer => <<r, q>> \in newer'
  <2>1. \A r \in rows : Key(r) # Key(p) => r \in rows'
    BY Zenon, <1>6 DEF RowsOf
  <2> QED BY Zenon, <1>1, <1>6, <2>1 DEF Commit
<1>9. \A q : Live(q)' = Live(q)
  BY Zenon, <1>1 DEF Live
<1> QED BY Zenon, <1>1, <1>2, <1>3, <1>4, <1>5, <1>6, <1>7, <1>8, <1>9 DEF Takes

-----------------------------------------------------------------------------
(* A write answered ok though it was overtaken: it took effect, unseen,    *)
(* just before what cleared its intent.                                    *)
LEMMA OvertakenAnswer ==
    ASSUME RegisterInv, LedgerInv', Remember, NEW p \in Used, RecordObject(p),
           p \notin intents, status'[claim[p].op] = "ok"
    PROVE  RegisterInv' /\ Mapped
<1>1. PICK o \in Writes : o = claim[p].op
  BY Zenon DEF RecordObject
<1>0. status \in [Ops -> {"idle", "scanned", "open", "ok", "error", "ended"}] /\ o \in Ops
  BY Zenon DEF RegisterInv, LedgerInv, TypeOK, Ops
<1>2. /\ status[o] = "open" /\ claimed' = claimed /\ claim' = claim /\ Ends(p) /\ phase[p] = "sent"
      /\ status' = [status EXCEPT ![o] = "ok"] /\ Commit(rows, intents, {}, Overtaken(p))
  BY Zenon, <1>0, <1>1 DEF RecordObject, recordObjectTx
<1>3. rows' = rows /\ intents' = intents /\ newer' = newer
  BY <1>2 DEF Commit, RegisterInv, LedgerInv, TypeOK
<1>4. \A q \in Used : Live(q)' => Live(q)
  BY Zenon, <1>2, EndsLive DEF RegisterInv
<1>5. Live(p)
  BY Zenon, <1>2 DEF Live
<1>6. o \in overrun /\ \A q \in intents : claim[q].op # o
  BY Zenon, <1>1, <1>2, <1>5 DEF RegisterInv, OvertakenOverrun
<1>7. \A k : RowsOf(k)' = RowsOf(k)
  BY Zenon, <1>2, <1>3 DEF RowsOf, Key
<1>8. Recorded = {} /\ Changed = {}
  BY Zenon, <1>3, <1>7 DEF Recorded, Changed, Emptied
<1>9. taken' = taken /\ overrun' = overrun
  BY Zenon, <1>8 DEF Remember
<1>10. ASSUME NEW k \in Keys PROVE Held(k)' = Held(k)
  <2>1. CASE RowsOf(k) = {}
    BY Zenon, <1>7, <2>1 DEF Held
  <2>2. CASE RowsOf(k) # {}
    <3>1. PICK r : r \in RowsOf(k)
      BY Zenon, <2>2
    <3>2. r \in RowsOf(k)' /\ Content(r)' = Content(r)
      BY Zenon, <1>2, <1>7, <3>1 DEF Content
    <3> QED BY Zenon, <3>1, <3>2, HeldIs, HeldNext DEF RegisterInv
  <2> QED BY Zenon, <2>1, <2>2
<1>11. status'[o] = "ok" /\ \A w \in Writes \ {o} : status'[w] = status[w]
  BY Zenon, <1>0, <1>2 DEF Ops
<1>12. Mapped
  <2>1. [w \in Writes |-> status[w]]' = [[w \in Writes |-> status[w]] EXCEPT ![o] = "ok"]
    BY Zenon, <1>11
  <2>2. Register!Answer(o)
    BY Zenon, <1>2, <1>6, <1>9, <2>1 DEF Register!Answer
  <2> QED BY Zenon, <1>9, <1>10, <2>2 DEF Mapped, Register!Next
<1>13. Used' = Used /\ o \notin taken
  BY Zenon, <1>2 DEF Used, RegisterInv, TakenOnce
<1>14. ContentsWritten'
  BY Zenon, <1>2, <1>11, <1>13 DEF RegisterInv, ContentsWritten, Content
<1>15. TakenOnce'
  <2>1. \A w \in taken : w \in Writes /\ status'[w] \in {"ok", "error"}
    BY Zenon, <1>11, <1>13 DEF RegisterInv, TakenOnce
  <2>2. \A q : Key(q)' = Key(q) /\ RowsOf(Key(q))' = RowsOf(Key(q))
    BY Zenon, <1>2, <1>3 DEF Key, RowsOf
  <2> QED BY Zenon, <1>2, <1>3, <1>9, <2>1, <2>2 DEF RegisterInv, TakenOnce
<1>16. OvertakenOverrun'
  <2> SUFFICES ASSUME NEW q \in Used, q \notin intents, claim[q].op \in Writes,
                      status'[claim[q].op] = "open", Live(q)'
               PROVE  claim[q].op \in overrun /\ \A r \in intents : claim[r].op # claim[q].op
    BY <1>2, <1>3, <1>9, <1>13 DEF OvertakenOverrun
  <2>1. status[claim[q].op] = "open" /\ Live(q)
    BY Zenon, <1>4, <1>11
  <2> QED BY Zenon, <2>1 DEF RegisterInv, OvertakenOverrun
<1>17. AnsweredTaken'
  BY Zenon, <1>2, <1>3, <1>6, <1>9, <1>11 DEF RegisterInv, AnsweredTaken
<1> QED BY Zenon, <1>12, <1>14, <1>15, <1>16, <1>17 DEF RegisterInv

-----------------------------------------------------------------------------
(* A client's delete empties the keys of its batch that held an object.    *)
LEMMA DeleteSeen ==
    ASSUME RegisterInv, LedgerInv', Remember, NEW ks \in SUBSET Keys, DeleteObjectsBatch(ks)
    PROVE  RegisterInv' /\ Mapped
<1>1. PICK held \in SUBSET Keys : held = {k \in ks : RowsOf(k) # {}}
  BY Zenon
<1>2. /\ claimed' = claimed /\ claim' = claim /\ status' = status /\ phase' = phase
      /\ rows' = rows \ UNION {RowsOf(k) : k \in ks}
  BY Zenon DEF DeleteObjectsBatch, Commit, uploads
<1>3. \A p : Key(p)' = Key(p) /\ Content(p)' = Content(p) /\ Live(p)' = Live(p)
  BY Zenon, <1>2 DEF Key, Content, Live
<1>4. {Key(p) : p \in UNION {RowsOf(k) : k \in ks}} = held
  BY <1>1 DEF RowsOf
<1>5. intents' = intents \ UNION {IntentsOf(k) : k \in held}
  BY Zenon, <1>4 DEF DeleteObjectsBatch, Commit
<1>6. \A p \in intents' : p \in intents /\ Key(p) \notin held
  BY <1>5 DEF IntentsOf
<1>7. \A p \in intents : Key(p) \notin held => p \in intents'
  BY Zenon, <1>5 DEF IntentsOf
<1>8. \A p \in rows : p \in rows' <=> Key(p) \notin held
  BY <1>1, <1>2 DEF RowsOf
<1>9. \A k \in Keys : RowsOf(k)' = IF k \in held THEN {} ELSE RowsOf(k)
  <2> SUFFICES ASSUME NEW k \in Keys PROVE RowsOf(k)' = IF k \in held THEN {} ELSE RowsOf(k)
    OBVIOUS
  <2>1. rows' \subseteq rows
    BY Zenon, <1>2
  <2> QED BY Zenon, <1>3, <1>8, <2>1 DEF RowsOf
<1>10. \A r \in rows', p \in intents' : <<r, p>> \in newer => <<r, p>> \in newer'
  BY Zenon DEF DeleteObjectsBatch, Commit
<1>11. Recorded = {} /\ Emptied = held
  <2>1. rows' \ rows = {}
    BY Zenon, <1>2
  <2> QED BY Zenon, <1>1, <1>9, <2>1 DEF Recorded, Emptied
<1>12. /\ taken' = taken
       /\ overrun' = overrun \cup {o \in Writes : status[o] = "open" /\ KeyOf[o] \in held}
  BY Zenon, <1>11 DEF Remember, Changed
<1>13. ASSUME NEW k \in Keys PROVE Held(k)' = IF k \in held THEN None ELSE Held(k)
  <2>1. CASE RowsOf(k)' = {}
    BY Zenon, <1>9, <2>1 DEF Held
  <2>2. CASE RowsOf(k)' # {}
    <3>1. PICK r : r \in RowsOf(k)' /\ r \in RowsOf(k) /\ k \notin held
      BY Zenon, <1>9, <2>2
    <3> QED BY Zenon, <1>3, <3>1, HeldIs, HeldNext DEF RegisterInv
  <2> QED BY Zenon, <2>1, <2>2
<1>14. Mapped
  <2>1. ASSUME NEW k \in held PROVE Held(k) # None
    <3>1. PICK r : r \in RowsOf(k)
      BY Zenon, <1>1
    <3>2. Held(k) = Content(r) /\ r \in Used
      BY Zenon, <3>1, HeldIs DEF RegisterInv, LedgerInv, TypeOK, RowsOf
    <3> QED BY Zenon, <3>2, OpsAssumption DEF RegisterInv, ContentsWritten, Ops
  <2>2. [k \in Keys |-> Held(k)]' = [k \in Keys |-> IF k \in held THEN None ELSE [l \in Keys |-> Held(l)][k]]
    BY Zenon, <1>13
  <2>3. \A k \in held : [l \in Keys |-> Held(l)][k] # None
    BY Zenon, <2>1
  <2>4. {o \in Writes : status[o] = "open" /\ KeyOf[o] \in held} = UNION {Register!Open(k) : k \in held}
    <3>1. \A k : \A o : o \in Register!Open(k) <=> o \in Writes /\ status[o] = "open" /\ KeyOf[o] = k
      BY Zenon DEF Register!Open
    <3> HIDE DEF Register!Open
    <3> QED BY <3>1
  <2>5. Register!Delete(held)
    BY Zenon, <1>12, <2>2, <2>3, <2>4 DEF Register!Delete
  <2> QED BY Zenon, <1>2, <2>5 DEF Mapped, Register!Next
<1>15. Used' = Used
  BY Zenon, <1>2 DEF Used
<1>16. ContentsWritten'
  BY Zenon, <1>2, <1>3, <1>15 DEF RegisterInv, ContentsWritten
<1>17. TakenOnce'
  <2>1. ASSUME NEW p \in intents', claim[p].op \in taken
        PROVE  RowsOf(Key(p))' # {} /\ \A r \in RowsOf(Key(p))' : <<r, p>> \in newer'
    <3>1. RowsOf(Key(p)) # {} /\ \A r \in RowsOf(Key(p)) : <<r, p>> \in newer
      BY Zenon, <1>6, <2>1 DEF RegisterInv, TakenOnce
    <3>2. RowsOf(Key(p))' = RowsOf(Key(p))
      BY Zenon, <1>2, <1>3, <1>6, <1>8 DEF RowsOf
    <3>3. \A r \in RowsOf(Key(p))' : r \in rows'
      BY Zenon DEF RowsOf
    <3> QED BY Zenon, <1>10, <3>1, <3>2, <3>3
  <2> QED BY Zenon, <1>2, <1>12, <2>1 DEF RegisterInv, TakenOnce
<1>18. OvertakenOverrun'
  <2> SUFFICES ASSUME NEW p \in Used, p \notin intents', claim[p].op \in Writes,
                      status[claim[p].op] = "open", Live(p)
               PROVE  claim[p].op \in overrun' /\ \A q \in intents' : claim[q].op # claim[p].op
    BY Zenon, <1>2, <1>3, <1>15 DEF OvertakenOverrun
  <2>1. CASE p \notin intents
    BY Zenon, <1>6, <1>12, <2>1 DEF RegisterInv, OvertakenOverrun
  <2>2. CASE p \in intents
    <3>1. Key(p) \in held /\ Key(p) = KeyOf[claim[p].op]
      BY Zenon, <1>7, <2>2 DEF Key
    <3>2. \A q \in intents' : claim[q].op # claim[p].op
      BY Zenon, <1>6, <3>1 DEF Key
    <3> QED BY Zenon, <1>12, <3>1, <3>2
  <2> QED BY Zenon, <2>1, <2>2
<1>19. AnsweredTaken'
  BY Zenon, <1>2, <1>6, <1>12 DEF RegisterInv, AnsweredTaken
<1> QED BY Zenon, <1>14, <1>16, <1>17, <1>18, <1>19 DEF RegisterInv
=============================================================================
