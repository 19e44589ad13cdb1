---------------------------- MODULE BackendState ----------------------------
(***************************************************************************)
(* The operator's state flags of the backends and what they guard: the     *)
(* admission of writes and multipart uploads, the drain worker that moves  *)
(* objects off a backend, its completion, the removal of a backend, and a  *)
(* reconcile pass that imports what it finds.                              *)
(*                                                                         *)
(* The flags are a row of the store.  Every instance caches them to rank   *)
(* backends; admission reads the row inside the conditional insert.  The   *)
(* claim transaction commits later than its insert read the flags, when    *)
(* OpenTransactions holds; a store with a single writer (SQLite) has no    *)
(* such gap.  Sizes, quotas and health are left out: any backend the flags *)
(* accept may be chosen.  A copy is known by the write that stored it.     *)
(***************************************************************************)
EXTENDS Naturals, FiniteSets

CONSTANTS
    Backends, Keys,
    Writes,            \* client writes, each claims once
    Uploads,           \* multipart uploads
    Instances,
    Cordonable,        \* backends operators cordon
    Drainable,         \* backends operators drain
    Removable,         \* backends operators remove
    Untracked,         \* <<key, backend>>: bytes no ledger row names
    OpenTransactions,  \* TRUE: a claim commits after its statement ran
    Reconciles,        \* TRUE: reconcile is enabled
    Drained1st,        \* TRUE: a backend is removed only once it is drained
    QuietRemoval,      \* TRUE: no drain is started or cleared meanwhile
    ListFails,         \* TRUE: a listing of a draining backend may fail
    None, Old, Moved, Imported

ASSUME BackendStateAssumption ==
    /\ Untracked \subseteq Keys \X Backends
    /\ Cordonable \subseteq Backends /\ Drainable \subseteq Backends
    /\ Removable \subseteq Backends
    /\ {OpenTransactions, Reconciles, Drained1st, QuietRemoval, ListFails} \subseteq BOOLEAN
    /\ None \notin Writes \cup {Old, Moved, Imported} \cup Backends
    /\ None \notin [key : Keys, copy : Writes \cup {Old, Moved, Imported}, to : Backends]
    /\ Moved \notin Writes

VARIABLES
    flags,     \* backend_states.flags, {} without a row
    cached,    \* instance -> the flags it ranks with
    quota,     \* backends with a backend_quotas row
    rows,      \* key -> backend -> the managed copy recorded there, or None
    fresh,     \* writes yet to claim
    claims,    \* intents inserted by a transaction still open
    intents,   \* pending_objects
    uploads,   \* upload -> the backend of its multipart_uploads row, or None
    pass,      \* the drain worker: where it is in its pass
    todo,      \* the draining backends its pass still has to visit
    on,        \* the backend it is visiting
    page,      \* <<key, copy>> it listed there
    others,    \* keys its lookup found on another backend
    moving,    \* the move it is copying: key, source copy and destination
    removal,   \* the removal under way: its step
    removing,  \* the backend it removes
    scan,      \* the backend a reconcile pass is scanning, or None
    stray,     \* Untracked bytes not imported yet
    recorded   \* keys that have been recorded

stateVars == <<flags, cached, quota>>
writeVars == <<fresh, claims, intents, uploads>>
walkVars == <<todo, on, page, others>>
drainVars == <<pass, walkVars, moving>>
removeVars == <<removal, removing>>
scanVars == <<scan, stray>>
vars == <<stateVars, writeVars, drainVars, removeVars, scanVars, rows, recorded>>

DrainFlags == {"draining", "drained", "failed"}
DrainBusy == {"draining", "drained"}
Flag == DrainFlags \cup {"cordoned"}
AcceptForWrite == {}
AcceptForReconcile == {"cordoned"}
AcceptedBy(f, accept) == f \subseteq accept

WriteTargets(i) == {b \in Backends : AcceptedBy(cached[i][b], AcceptForWrite)}

(* Mutant: a row of any backend counts.                                    *)
LeftAnywhere(b) ==
    \/ \E k \in Keys, c \in Backends : rows[k][c] # None
    \/ \E p \in intents : p.at = b
    \/ \E u \in Uploads : uploads[u] = b

(* What CompleteDrain counts, and what a backend still holds.              *)
Left(b) ==
    \/ \E k \in Keys : rows[k][b] # None
    \/ \E p \in intents : p.at = b
    \/ \E u \in Uploads : uploads[u] = b

Init ==
    /\ flags = [b \in Backends |-> {}]
    /\ cached = [i \in Instances |-> flags]
    /\ quota = Backends
    /\ rows \in [Keys -> [Backends -> {None, Old}]]
    /\ \A e \in Untracked : rows[e[1]][e[2]] = None
    /\ recorded = {k \in Keys : \E b \in Backends : rows[k][b] # None}
    /\ fresh = Writes /\ claims = {} /\ intents = {}
    /\ uploads = [u \in Uploads |-> None]
    /\ pass = "idle" /\ todo = {} /\ on = None /\ page = {} /\ others = {} /\ moving = None
    /\ removal = "idle" /\ removing = None
    /\ scan = None /\ stray = Untracked

-----------------------------------------------------------------------------
(* Operators' changes.  A refused one changes nothing.                     *)

refreshAfterChange(i) == cached' \in {cached, [cached EXCEPT ![i] = flags']}

SetFlags(b, f) == flags' = [flags EXCEPT ![b] = f]

Changed == UNCHANGED <<quota, writeVars, drainVars, removeVars, scanVars, rows, recorded>>

Refresh(i) ==
    /\ cached' = [cached EXCEPT ![i] = flags]
    /\ UNCHANGED flags /\ Changed

Cordon(i, b) ==
    /\ b \in Cordonable /\ "cordoned" \notin flags[b]
    /\ SetFlags(b, flags[b] \cup {"cordoned"})
    /\ refreshAfterChange(i) /\ Changed

Uncordon(i, b) ==
    /\ "cordoned" \in flags[b]
    /\ SetFlags(b, flags[b] \ {"cordoned"})
    /\ refreshAfterChange(i) /\ Changed

Undisturbed(b) == QuietRemoval => removing # b

StartDrain(i, b) ==
    /\ b \in Drainable /\ Undisturbed(b)
    /\ flags[b] \cap DrainBusy = {}
    /\ SetFlags(b, (flags[b] \ DrainFlags) \cup {"draining"})
    /\ refreshAfterChange(i) /\ Changed

CancelDrain(i, b) ==
    /\ flags[b] \cap DrainFlags # {} /\ Undisturbed(b)
    /\ SetFlags(b, flags[b] \ DrainFlags)
    /\ refreshAfterChange(i) /\ Changed

-----------------------------------------------------------------------------
(* Client writes and multipart uploads.                                    *)

Admitted(i, b) ==
    b \in WriteTargets(i) /\ b \in quota /\ AcceptedBy(flags[b], AcceptForWrite)

InsertPendingIfFits(i, w, k, b) ==
    /\ w \in fresh /\ Admitted(i, b)
    /\ fresh' = fresh \ {w}
    /\ LET p == [id |-> w, key |-> k, at |-> b] IN
        IF OpenTransactions
        THEN claims' = claims \cup {p} /\ UNCHANGED intents
        ELSE intents' = intents \cup {p} /\ UNCHANGED claims
    /\ UNCHANGED <<stateVars, uploads, drainVars, removeVars, scanVars, rows, recorded>>

CommitClaim(p) ==
    /\ p \in claims
    /\ claims' = claims \ {p}
    /\ intents' = intents \cup {p}
    /\ UNCHANGED <<stateVars, fresh, uploads, drainVars, removeVars, scanVars, rows, recorded>>

(* The upload landed: its row replaces every copy of the key, and every    *)
(* other intent of the key goes.                                           *)
RecordObject(p) ==
    /\ p \in intents /\ p.id \in Writes
    /\ rows' = [rows EXCEPT ![p.key] = [b \in Backends |-> IF b = p.at THEN p.id ELSE None]]
    /\ intents' = {q \in intents : q.key # p.key}
    /\ recorded' = recorded \cup {p.key}
    /\ UNCHANGED <<stateVars, fresh, claims, uploads, drainVars, removeVars, scanVars>>

(* The upload failed, and the writer or the reaper dropped the intent.     *)
DiscardPending(p) ==
    /\ p \in intents /\ p.id \in Writes
    /\ intents' = intents \ {p}
    /\ UNCHANGED <<stateVars, fresh, claims, uploads, drainVars, removeVars, scanVars, rows, recorded>>

CreateMultipartUpload(i, u, b) ==
    /\ uploads[u] = None /\ Admitted(i, b)
    /\ uploads' = [uploads EXCEPT ![u] = b]
    /\ UNCHANGED <<stateVars, fresh, claims, intents, drainVars, removeVars, scanVars, rows, recorded>>

(* Completed or aborted by its client.                                     *)
EndUpload(u) ==
    /\ uploads[u] # None
    /\ uploads' = [uploads EXCEPT ![u] = None]
    /\ UNCHANGED <<stateVars, fresh, claims, intents, drainVars, removeVars, scanVars, rows, recorded>>

-----------------------------------------------------------------------------
(* The drain worker.                                                       *)

NextBackend ==
    /\ pass' = "next" /\ on' = None /\ page' = {} /\ others' = {}
    /\ UNCHANGED <<todo, moving>>

Drain(i) ==
    /\ pass = "idle"
    /\ cached' = [cached EXCEPT ![i] = flags]
    /\ todo' = {b \in Backends : "draining" \in flags[b]}
    /\ todo' # {}
    /\ pass' = "next"
    /\ UNCHANGED <<flags, quota, writeVars, on, page, others, moving, removeVars, scanVars, rows, recorded>>

(* The pass moves to its next backend and aborts the uploads there; one    *)
(* being completed stays, and a failed abort is left to the next pass.     *)
AbortUploads(b) ==
    /\ pass = "next" /\ b \in todo
    /\ todo' = todo \ {b} /\ on' = b /\ pass' = "list"
    /\ \E S \in SUBSET {u \in Uploads : uploads[u] = b} :
        uploads' = [u \in Uploads |-> IF u \in S THEN None ELSE uploads[u]]
    /\ UNCHANGED <<stateVars, fresh, claims, intents, page, others, moving, removeVars, scanVars, rows, recorded>>

PassEnds ==
    /\ pass = "next" /\ todo = {}
    /\ pass' = "idle"
    /\ UNCHANGED <<stateVars, writeVars, walkVars, moving, removeVars, scanVars, rows, recorded>>

StillDraining == "draining" \in flags[on]

(* One page holds every managed copy of the backend.                       *)
ListObjectsByBackend ==
    /\ pass = "list" /\ StillDraining
    /\ page' = {<<k, rows[k][on]>> : k \in {k \in Keys : rows[k][on] # None}}
    /\ pass' = "look"
    /\ UNCHANGED <<stateVars, writeVars, todo, on, others, moving, removeVars, scanVars, rows, recorded>>

DrainStopped ==
    /\ pass = "list" /\ ~StillDraining
    /\ NextBackend
    /\ UNCHANGED <<stateVars, writeVars, removeVars, scanVars, rows, recorded>>

(* The listing failed: the drain is marked failed if it is still running.  *)
MarkDrainFailed ==
    /\ ListFails /\ pass = "list" /\ StillDraining
    /\ SetFlags(on, (flags[on] \ DrainFlags) \cup {"failed"})
    /\ NextBackend
    /\ UNCHANGED <<cached, quota, writeVars, removeVars, scanVars, rows, recorded>>

(* A store failure ends the pass; the next tick starts over.               *)
PassFails ==
    /\ ListFails /\ pass \in {"list", "look"}
    /\ pass' = "idle" /\ todo' = {} /\ on' = None /\ page' = {} /\ others' = {}
    /\ UNCHANGED <<stateVars, writeVars, moving, removeVars, scanVars, rows, recorded>>

LookUpCopies ==
    /\ pass = "look"
    /\ others' = {k \in Keys : \E b \in Backends : b # on /\ rows[k][b] # None}
    /\ pass' = "move"
    /\ UNCHANGED <<stateVars, writeVars, todo, on, page, moving, removeVars, scanVars, rows, recorded>>

Without(e) == page' = page \ {e} /\ UNCHANGED <<todo, on, others>>

SourceHeld(e) == rows[e[1]][on] = e[2]

(* Mutant: the look-up is trusted.                                         *)
DropFoundElsewhere(e) ==
    /\ pass = "move" /\ e \in page /\ e[1] \in others
    /\ rows' = [rows EXCEPT ![e[1]][on] = None]
    /\ Without(e)
    /\ UNCHANGED <<stateVars, writeVars, pass, moving, removeVars, scanVars, recorded>>

(* DropCopy removes the copy only while another remains; one that is the   *)
(* last after all is moved off instead.                                    *)
DropDrainedCopy(e) ==
    /\ pass = "move" /\ e \in page /\ e[1] \in others
    /\ \/ /\ SourceHeld(e) /\ \A b \in Backends \ {on} : rows[e[1]][b] = None
          /\ others' = others \ {e[1]}
          /\ UNCHANGED <<todo, on, page, rows>>
       \/ /\ SourceHeld(e) /\ \E b \in Backends \ {on} : rows[e[1]][b] # None
          /\ rows' = [rows EXCEPT ![e[1]][on] = None]
          /\ Without(e)
       \/ ~SourceHeld(e) /\ Without(e) /\ UNCHANGED rows
    /\ UNCHANGED <<stateVars, writeVars, pass, moving, removeVars, scanVars, recorded>>

MoveIntent(m) == [id |-> Moved, key |-> m.key, at |-> m.to]

(* The destination is ranked by the cache and claimed against the row.     *)
(* This claim's transaction is closed before the worker asks for another   *)
(* completion, so its insert and commit are one step.                      *)
ClaimCopyTarget(i, e, d) ==
    /\ pass = "move" /\ e \in page /\ e[1] \notin others
    /\ d # on /\ Admitted(i, d)
    /\ moving' = [key |-> e[1], copy |-> e[2], to |-> d]
    /\ intents' = intents \cup {MoveIntent(moving')}
    /\ pass' = "copy" /\ Without(e)
    /\ UNCHANGED <<stateVars, fresh, claims, uploads, removeVars, scanVars, rows, recorded>>

(* No destination, or the row refused the one that was picked: the object  *)
(* is passed over until the next pass.                                     *)
NoDestination(i, e) ==
    /\ pass = "move" /\ e \in page /\ e[1] \notin others
    /\ LET picked == WriteTargets(i) \ {on} IN
        picked = {} \/ \E d \in picked : ~Admitted(i, d)
    /\ Without(e)
    /\ UNCHANGED <<stateVars, writeVars, pass, moving, removeVars, scanVars, rows, recorded>>

Placed(m) == rows' = [rows EXCEPT ![m.key][on] = None, ![m.key][m.to] = Moved]

PlaceCopy ==
    /\ pass = "copy"
    /\ IF /\ MoveIntent(moving) \in intents
          /\ rows[moving.key][on] = moving.copy
          /\ rows[moving.key][moving.to] = None
       THEN Placed(moving)
       ELSE UNCHANGED rows
    /\ intents' = intents \ {MoveIntent(moving)}
    /\ pass' = "move" /\ moving' = None
    /\ UNCHANGED <<stateVars, fresh, claims, uploads, walkVars, removeVars, scanVars, recorded>>

CopyFails ==
    /\ pass = "copy"
    /\ intents' = intents \ {MoveIntent(moving)}
    /\ pass' = "move" /\ moving' = None
    /\ UNCHANGED <<stateVars, fresh, claims, uploads, walkVars, removeVars, scanVars, rows, recorded>>

CompleteOnRows ==
    /\ pass = "move" /\ page = {}
    /\ IF "draining" \in flags[on] /\ \A k \in Keys : rows[k][on] = None
       THEN SetFlags(on, (flags[on] \ DrainFlags) \cup {"drained"})
       ELSE UNCHANGED flags
    /\ NextBackend
    /\ UNCHANGED <<cached, quota, writeVars, removeVars, scanVars, rows, recorded>>

(* One statement: drained when nothing is left, otherwise the next pass    *)
(* asks again.                                                             *)
CompleteDrain ==
    /\ pass = "move" /\ page = {}
    /\ IF "draining" \in flags[on] /\ ~Left(on)
       THEN SetFlags(on, (flags[on] \ DrainFlags) \cup {"drained"})
       ELSE UNCHANGED flags
    /\ NextBackend
    /\ UNCHANGED <<cached, quota, writeVars, removeVars, scanVars, rows, recorded>>

-----------------------------------------------------------------------------
(* Removing a backend: a check of the record, an optional purge, one       *)
(* transaction over its rows, and the record itself.                       *)

RemoveBackend(b) ==
    /\ removal = "idle" /\ b \in Removable
    /\ "draining" \notin flags[b]
    /\ Drained1st => "drained" \in flags[b]
    /\ removing' = b /\ removal' \in {"purge", "delete"}
    /\ UNCHANGED <<stateVars, writeVars, drainVars, scanVars, rows, recorded>>

PurgeOneObject(k) ==
    /\ removal = "purge" /\ rows[k][removing] # None
    /\ rows' = [rows EXCEPT ![k][removing] = None]
    /\ UNCHANGED <<stateVars, writeVars, drainVars, removeVars, scanVars, recorded>>

PurgeEnds ==
    /\ removal = "purge"
    /\ removal' = "delete"
    /\ UNCHANGED <<stateVars, writeVars, drainVars, removing, scanVars, rows, recorded>>

(* A claim still open holds a key share of the quota row, which fails the  *)
(* transaction's last delete.                                              *)
DeleteBackendData ==
    /\ removal = "delete"
    /\ \A p \in claims : p.at # removing
    /\ rows' = [k \in Keys |-> [rows[k] EXCEPT ![removing] = None]]
    /\ intents' = {p \in intents : p.at # removing}
    /\ uploads' = [u \in Uploads |-> IF uploads[u] = removing THEN None ELSE uploads[u]]
    /\ quota' = quota \ {removing}
    /\ removal' = "clear"
    /\ UNCHANGED <<flags, cached, fresh, claims, drainVars, removing, scanVars, recorded>>

DeleteBackendDataFails ==
    /\ removal = "delete"
    /\ removal' = "idle" /\ removing' = None
    /\ UNCHANGED <<stateVars, writeVars, drainVars, scanVars, rows, recorded>>

ClearBackendState(i) ==
    /\ removal = "clear"
    /\ SetFlags(removing, {})
    /\ refreshAfterChange(i)
    /\ removal' = "idle" /\ removing' = None
    /\ UNCHANGED <<quota, writeVars, drainVars, scanVars, rows, recorded>>

-----------------------------------------------------------------------------
(* A reconcile pass asks the cache once, then imports key by key.          *)

Scannable(i) == {b \in Backends : AcceptedBy(cached[i][b], AcceptForReconcile)}

ReconcileBackend(i, b) ==
    /\ Reconciles /\ scan = None /\ b \in Scannable(i)
    /\ scan' = b
    /\ UNCHANGED <<stateVars, writeVars, drainVars, removeVars, stray, rows, recorded>>

ImportObject(k) ==
    /\ scan # None /\ <<k, scan>> \in stray /\ scan \in quota
    /\ rows[k][scan] = None
    /\ rows' = [rows EXCEPT ![k][scan] = Imported]
    /\ stray' = stray \ {<<k, scan>>}
    /\ recorded' = recorded \cup {k}
    /\ UNCHANGED <<stateVars, writeVars, drainVars, removeVars, scan>>

ReconcileEnds ==
    /\ scan # None
    /\ scan' = None
    /\ UNCHANGED <<stateVars, writeVars, drainVars, removeVars, stray, rows, recorded>>

-----------------------------------------------------------------------------
Operator ==
    \E i \in Instances :
        \/ Refresh(i)
        \/ \E b \in Backends :
            Cordon(i, b) \/ Uncordon(i, b) \/ StartDrain(i, b) \/ CancelDrain(i, b)

Client ==
    \/ \E i \in Instances, b \in Backends :
        \/ \E w \in Writes, k \in Keys : InsertPendingIfFits(i, w, k, b)
        \/ \E u \in Uploads : CreateMultipartUpload(i, u, b)
    \/ \E p \in claims : CommitClaim(p)
    \/ \E p \in intents : RecordObject(p) \/ DiscardPending(p)
    \/ \E u \in Uploads : EndUpload(u)

DrainStep ==
    \/ \E i \in Instances : Drain(i)
    \/ \E b \in Backends : AbortUploads(b)
    \/ PassEnds \/ ListObjectsByBackend \/ DrainStopped \/ MarkDrainFailed \/ PassFails
    \/ LookUpCopies
    \/ \E e \in page : DropDrainedCopy(e)
    \/ \E i \in Instances, e \in page :
        NoDestination(i, e) \/ \E d \in Backends : ClaimCopyTarget(i, e, d)
    \/ PlaceCopy \/ CopyFails \/ CompleteDrain

Remove ==
    \/ \E b \in Backends : RemoveBackend(b)
    \/ \E k \in Keys : PurgeOneObject(k)
    \/ PurgeEnds \/ DeleteBackendData \/ DeleteBackendDataFails
    \/ \E i \in Instances : ClearBackendState(i)

Reconcile ==
    \/ \E i \in Instances, b \in Backends : ReconcileBackend(i, b)
    \/ \E k \in Keys : ImportObject(k)
    \/ ReconcileEnds

Next == Operator \/ Client \/ DrainStep \/ Remove \/ Reconcile

Spec == Init /\ [][Next]_vars

-----------------------------------------------------------------------------
Copy == Writes \cup {Old, Moved, Imported}
Intent == [id : Writes \cup {Moved}, key : Keys, at : Backends]

FlagTypes ==
    /\ flags \in [Backends -> SUBSET Flag]
    /\ cached \in [Instances -> [Backends -> SUBSET Flag]]
    /\ quota \subseteq Backends

RowTypes == rows \in [Keys -> [Backends -> Copy \cup {None}]] /\ recorded \subseteq Keys

WriteTypes ==
    /\ fresh \subseteq Writes /\ claims \subseteq Intent /\ intents \subseteq Intent
    /\ uploads \in [Uploads -> Backends \cup {None}]

PassTypes ==
    /\ pass \in {"idle", "next", "list", "look", "move", "copy"}
    /\ todo \subseteq Backends /\ on \in Backends \cup {None}
    /\ on = None <=> pass \in {"idle", "next"}
    /\ page \subseteq Keys \X Copy /\ others \subseteq Keys

MoveTypes ==
    /\ moving \in [key : Keys, copy : Copy, to : Backends] \cup {None}
    /\ moving = None <=> pass # "copy"

RemovalTypes ==
    /\ removal \in {"idle", "purge", "delete", "clear"}
    /\ removing \in Backends \cup {None} /\ (removing = None <=> removal = "idle")

ScanTypes == scan \in Backends \cup {None} /\ stray \subseteq Untracked

(* Every variable holds a value of its kind; the drain worker carries      *)
(* nothing between backends, and a move is under way exactly while it      *)
(* copies.                                                                 *)
TypeOK ==
    FlagTypes /\ RowTypes /\ WriteTypes /\ PassTypes /\ MoveTypes /\ RemovalTypes /\ ScanTypes

(* A drain reported as finished stays finished: no managed copy, intent or *)
(* multipart upload is on a drained backend, whatever was admitted before  *)
(* the drain and however stale the caches are (CompleteDrain, admission).  *)
DrainedIsEmpty == \A b \in Backends : "drained" \in flags[b] => ~Left(b)

(* At most one of the drain's three flags is set at a time (StartDrain     *)
(* over a failed drain, MarkDrainFailed and CompleteDrain racing a cancel).*)
OneDrainFlag == \A b \in Backends : \A f, g \in flags[b] \cap DrainFlags : f = g

(* A recorded object keeps a copy through drains, moves whose page went    *)
(* stale, overwrites, and the removal of a drained backend                 *)
(* (dropDrainedCopy, PlaceCopy, RemoveBackend).                            *)
ObjectsSurvive == \A k \in recorded : \E b \in Backends : rows[k][b] # None

(* A claim is committed where it is admitted, and nothing is imported.     *)
Direct == ~OpenTransactions /\ ~Reconciles

(* Operators remove no backend, or drained ones and leave them drained.    *)
SafeRemoval == Removable = {} \/ (Direct /\ Drained1st /\ QuietRemoval)

(* A removal under way is of a backend that is still drained.              *)
RemovesDrained == removing # None => Removable # {} /\ "drained" \in flags[removing]

(* Why drains and removals are safe, as an invariant every step keeps: the *)
(* worker only finishes a drain that is running, which no drained backend  *)
(* is in, so the flag a removal relies on stays.                           *)
DrainInv ==
    /\ TypeOK /\ OneDrainFlag
    /\ Direct => claims = {} /\ scan = None /\ DrainedIsEmpty
    /\ SafeRemoval => RemovesDrained /\ ObjectsSurvive

(* A drain in progress ends, through writes and uploads admitted before    *)
(* it, overwrites of what it is moving and copies that fail                *)
(* (drainBackend, CompleteDrain).                                          *)
DrainEnds == \A b \in Backends : "draining" \in flags[b] ~> "draining" \notin flags[b]
=============================================================================
