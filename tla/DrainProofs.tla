---------------------------- MODULE DrainProofs ----------------------------
(***************************************************************************)
(* For any backends, keys, writes, uploads and instances: a drained        *)
(* backend stays empty, and no object is lost to a drain or to the removal *)
(* of a drained backend.                                                   *)
(***************************************************************************)
EXTENDS BackendState, TLAPS

USE DEF stateVars, writeVars, walkVars, drainVars, removeVars, scanVars, Flag, DrainFlags, DrainBusy

(* What a step leaves alone stays of its kind.                             *)
LEMMA Frames ==
    /\ FlagTypes /\ UNCHANGED stateVars => FlagTypes'
    /\ RowTypes /\ UNCHANGED <<rows, recorded>> => RowTypes'
    /\ WriteTypes /\ UNCHANGED writeVars => WriteTypes'
    /\ PassTypes /\ UNCHANGED <<pass, walkVars>> => PassTypes'
    /\ MoveTypes /\ UNCHANGED <<pass, moving>> => MoveTypes'
    /\ RemovalTypes /\ UNCHANGED removeVars => RemovalTypes'
    /\ ScanTypes /\ UNCHANGED scanVars => ScanTypes'
<1>1. FlagTypes /\ UNCHANGED stateVars => FlagTypes'
  BY Zenon DEF FlagTypes
<1>2. RowTypes /\ UNCHANGED <<rows, recorded>> => RowTypes'
  BY Zenon DEF RowTypes
<1>3. WriteTypes /\ UNCHANGED writeVars => WriteTypes'
  BY Zenon DEF WriteTypes
<1>4. PassTypes /\ UNCHANGED <<pass, walkVars>> => PassTypes'
  BY Zenon DEF PassTypes
<1>5. MoveTypes /\ UNCHANGED <<pass, moving>> => MoveTypes'
  BY Zenon DEF MoveTypes
<1>6. RemovalTypes /\ UNCHANGED removeVars => RemovalTypes'
  BY Zenon DEF RemovalTypes
<1>7. ScanTypes /\ UNCHANGED scanVars => ScanTypes'
  BY Zenon DEF ScanTypes
<1> QED BY Zenon, <1>1, <1>2, <1>3, <1>4, <1>5, <1>6, <1>7

(* A change of flags, remembered by an instance or not.                    *)
LEMMA SetFlagsTypes ==
    ASSUME FlagTypes, NEW i \in Instances, NEW b \in Backends, NEW f \in SUBSET Flag,
           SetFlags(b, f), refreshAfterChange(i) \/ UNCHANGED cached, UNCHANGED quota
    PROVE  FlagTypes'
<1>1. flags' \in [Backends -> SUBSET Flag]
  BY Zenon DEF SetFlags, FlagTypes
<1>2. cached' \in [Instances -> [Backends -> SUBSET Flag]]
  BY Zenon, <1>1 DEF refreshAfterChange, FlagTypes
<1> QED BY Zenon, <1>1, <1>2 DEF FlagTypes

(* The operators' changes leave everything of its kind.                    *)
LEMMA OperatorTypes == ASSUME TypeOK, Operator PROVE TypeOK'
<1> PICK i \in Instances :
        \/ Refresh(i)
        \/ \E b \in Backends : Cordon(i, b) \/ Uncordon(i, b) \/ StartDrain(i, b) \/ CancelDrain(i, b)
  BY Zenon DEF Operator
<1>1. Changed
  BY Zenon DEF Refresh, Cordon, Uncordon, StartDrain, CancelDrain
<1>2. FlagTypes'
  <2>1. CASE Refresh(i)
    BY Zenon, <2>1 DEF Refresh, Changed, TypeOK, FlagTypes
  <2>2. ASSUME NEW b \in Backends, Cordon(i, b) \/ Uncordon(i, b) \/ StartDrain(i, b) \/ CancelDrain(i, b)
        PROVE  FlagTypes'
    <3>1. flags[b] \in SUBSET Flag
      BY Zenon DEF TypeOK, FlagTypes
    <3> QED BY Zenon, <1>1, <2>2, <3>1, SetFlagsTypes DEF Cordon, Uncordon, StartDrain, CancelDrain, Changed, TypeOK
  <2> QED BY Zenon, <2>1, <2>2
<1> QED BY Zenon, <1>1, <1>2, Frames DEF Changed, TypeOK

(* So do client writes and uploads: a claim names a write, a key and a     *)
(* backend.                                                                *)
LEMMA ClientTypes == ASSUME TypeOK, Client PROVE TypeOK'
<1>1. ASSUME NEW i \in Instances, NEW b \in Backends, NEW w \in Writes, NEW k \in Keys,
             InsertPendingIfFits(i, w, k, b)
      PROVE  WriteTypes' /\ UNCHANGED <<rows, recorded>>
  BY <1>1 DEF InsertPendingIfFits, TypeOK, WriteTypes, Intent
<1>2. ASSUME NEW i \in Instances, NEW b \in Backends, NEW u \in Uploads, CreateMultipartUpload(i, u, b)
      PROVE  WriteTypes' /\ UNCHANGED <<rows, recorded>>
  BY Zenon, <1>2 DEF CreateMultipartUpload, TypeOK, WriteTypes
<1>3. ASSUME NEW p \in claims, CommitClaim(p) PROVE WriteTypes' /\ UNCHANGED <<rows, recorded>>
  BY Zenon, <1>3 DEF CommitClaim, TypeOK, WriteTypes
<1>4. ASSUME NEW p \in intents, RecordObject(p) PROVE WriteTypes' /\ RowTypes'
  <2>1. p.key \in Keys /\ p.at \in Backends /\ p.id \in Writes
    BY Zenon, <1>4 DEF RecordObject, TypeOK, WriteTypes, Intent
  <2>2. RowTypes'
    BY Zenon, <1>4, <2>1 DEF RecordObject, TypeOK, RowTypes, Copy
  <2> QED BY Zenon, <1>4, <2>2 DEF RecordObject, TypeOK, WriteTypes
<1>5. ASSUME NEW p \in intents, DiscardPending(p) PROVE WriteTypes' /\ UNCHANGED <<rows, recorded>>
  BY Zenon, <1>5 DEF DiscardPending, TypeOK, WriteTypes
<1>6. ASSUME NEW u \in Uploads, EndUpload(u) PROVE WriteTypes' /\ UNCHANGED <<rows, recorded>>
  BY Zenon, <1>6 DEF EndUpload, TypeOK, WriteTypes
<1>7. WriteTypes' /\ RowTypes'
  BY Zenon, <1>1, <1>2, <1>3, <1>4, <1>5, <1>6, Frames DEF Client, TypeOK
<1>8. UNCHANGED <<stateVars, drainVars, removeVars, scanVars>>
  BY Zenon DEF Client, InsertPendingIfFits, CreateMultipartUpload, CommitClaim, RecordObject, DiscardPending, EndUpload
<1> QED BY Zenon, <1>7, <1>8, Frames DEF TypeOK

(* The drain worker carries a backend and a page only inside its pass, and *)
(* a move only while it copies.                                            *)
LEMMA DrainTypes == ASSUME TypeOK, DrainStep PROVE TypeOK'
<1> USE BackendStateAssumption
<1>0. UNCHANGED <<recorded, removeVars, scanVars>>
  BY Zenon DEF DrainStep, Drain, AbortUploads, PassEnds, ListObjectsByBackend, DrainStopped, MarkDrainFailed, PassFails,
     LookUpCopies, DropDrainedCopy, NoDestination, ClaimCopyTarget, PlaceCopy, CopyFails, CompleteDrain
<1>1. ASSUME NEW i \in Instances, Drain(i) PROVE TypeOK'
  <2>1. FlagTypes' /\ PassTypes' /\ MoveTypes'
    BY Zenon, <1>1 DEF Drain, TypeOK, FlagTypes, PassTypes, MoveTypes
  <2> QED BY Zenon, <1>0, <1>1, <2>1, Frames DEF Drain, TypeOK
<1>2. ASSUME NEW b \in Backends, AbortUploads(b) PROVE TypeOK'
  <2>1. WriteTypes'
    BY Zenon, <1>2 DEF AbortUploads, TypeOK, WriteTypes
  <2>2. PassTypes' /\ MoveTypes'
    BY Zenon, <1>2 DEF AbortUploads, TypeOK, PassTypes, MoveTypes
  <2> QED BY Zenon, <1>0, <1>2, <2>1, <2>2, Frames DEF AbortUploads, TypeOK
<1>3. CASE PassEnds \/ ListObjectsByBackend \/ DrainStopped \/ PassFails \/ LookUpCopies
  <2>1. CASE ListObjectsByBackend
    <3>1. page' \subseteq Keys \X Copy
      BY <2>1 DEF ListObjectsByBackend, TypeOK, PassTypes, RowTypes
    <3>2. PassTypes' /\ MoveTypes'
      BY Zenon, <2>1, <3>1 DEF ListObjectsByBackend, TypeOK, PassTypes, MoveTypes
    <3> QED BY Zenon, <1>0, <2>1, <3>2, Frames DEF ListObjectsByBackend, TypeOK
  <2>2. CASE PassEnds \/ DrainStopped \/ PassFails \/ LookUpCopies
    <3>1. PassTypes' /\ MoveTypes'
      BY Zenon, <2>2 DEF PassEnds, DrainStopped, PassFails, LookUpCopies, NextBackend, TypeOK, PassTypes, MoveTypes
    <3> QED BY Zenon, <1>0, <2>2, <3>1, Frames DEF PassEnds, DrainStopped, PassFails, LookUpCopies, TypeOK
  <2> QED BY Zenon, <1>3, <2>1, <2>2
<1>4. CASE MarkDrainFailed \/ CompleteDrain
  <2>1. on \in Backends /\ flags[on] \in SUBSET Flag /\ pass # "copy"
    BY Zenon, <1>4 DEF MarkDrainFailed, CompleteDrain, TypeOK, FlagTypes, PassTypes
  <2>2. /\ \E f \in SUBSET Flag : SetFlags(on, f) \/ UNCHANGED flags
        /\ UNCHANGED <<cached, quota, writeVars, rows>> /\ NextBackend
    BY Zenon, <1>4, <2>1 DEF MarkDrainFailed, CompleteDrain
  <2>3. FlagTypes'
    BY <2>1, <2>2 DEF SetFlags, TypeOK, FlagTypes
  <2>4. PassTypes' /\ MoveTypes'
    BY Zenon, <2>1, <2>2 DEF NextBackend, TypeOK, PassTypes, MoveTypes
  <2> QED BY Zenon, <1>0, <2>2, <2>3, <2>4, Frames DEF TypeOK
<1>5. ASSUME NEW e \in page, DropDrainedCopy(e) PROVE TypeOK'
  <2>1. RowTypes'
    <3>1. rows' = [rows EXCEPT ![e[1]][on] = None] \/ rows' = rows
      BY Zenon, <1>5 DEF DropDrainedCopy
    <3> QED BY <1>0, <3>1 DEF TypeOK, RowTypes
  <2>2. PassTypes'
    BY Zenon, <1>5 DEF DropDrainedCopy, Without, TypeOK, PassTypes
  <2> QED BY Zenon, <1>0, <1>5, <2>1, <2>2, Frames DEF DropDrainedCopy, TypeOK
<1>6. ASSUME NEW i \in Instances, NEW e \in page, NoDestination(i, e) PROVE TypeOK'
  <2>1. PassTypes'
    BY Zenon, <1>6 DEF NoDestination, Without, TypeOK, PassTypes
  <2> QED BY Zenon, <1>0, <1>6, <2>1, Frames DEF NoDestination, TypeOK
<1>7. ASSUME NEW i \in Instances, NEW e \in page, NEW d \in Backends, ClaimCopyTarget(i, e, d) PROVE TypeOK'
  <2>1. moving' \in [key : Keys, copy : Copy, to : Backends] /\ moving' # None
    BY <1>7 DEF ClaimCopyTarget, TypeOK, PassTypes, Copy
  <2>2. MoveIntent(moving') \in Intent
    BY Zenon, <2>1 DEF MoveIntent, Intent
  <2>3. WriteTypes'
    BY Zenon, <1>7, <2>2 DEF ClaimCopyTarget, TypeOK, WriteTypes
  <2>4. PassTypes' /\ MoveTypes'
    BY Zenon, <1>7, <2>1 DEF ClaimCopyTarget, Without, TypeOK, PassTypes, MoveTypes
  <2> QED BY Zenon, <1>0, <1>7, <2>3, <2>4, Frames DEF ClaimCopyTarget, TypeOK
<1>8. CASE PlaceCopy \/ CopyFails
  <2>1. moving \in [key : Keys, copy : Copy, to : Backends] /\ on \in Backends
    BY Zenon, <1>8 DEF PlaceCopy, CopyFails, TypeOK, MoveTypes, PassTypes
  <2>2. /\ Placed(moving) \/ UNCHANGED rows
        /\ intents' = intents \ {MoveIntent(moving)} /\ pass' = "move" /\ moving' = None
        /\ UNCHANGED <<stateVars, fresh, claims, uploads, walkVars>>
    BY Zenon, <1>8 DEF PlaceCopy, CopyFails
  <2>3. RowTypes'
    <3>1. CASE Placed(moving)
      BY Zenon, <1>0, <2>1, <3>1 DEF Placed, TypeOK, RowTypes, Copy
    <3> QED BY Zenon, <1>0, <2>2, <3>1, Frames DEF TypeOK
  <2>4. WriteTypes'
    BY Zenon, <2>2 DEF TypeOK, WriteTypes
  <2>5. PassTypes' /\ MoveTypes'
    BY Zenon, <2>1, <2>2 DEF TypeOK, PassTypes, MoveTypes
  <2> QED BY Zenon, <1>0, <2>2, <2>3, <2>4, <2>5, Frames DEF TypeOK
<1> QED BY Zenon, <1>1, <1>2, <1>3, <1>4, <1>5, <1>6, <1>7, <1>8 DEF DrainStep

(* A removal names a backend while it runs, and reconcile one it scans.    *)
LEMMA RemoveTypes == ASSUME TypeOK, Remove \/ Reconcile PROVE TypeOK'
<1> USE BackendStateAssumption
<1>1. FlagTypes'
  <2>1. ASSUME NEW i \in Instances, ClearBackendState(i) PROVE FlagTypes'
    BY Zenon, <2>1, SetFlagsTypes DEF ClearBackendState, TypeOK, RemovalTypes
  <2>2. CASE DeleteBackendData
    BY Zenon, <2>2 DEF DeleteBackendData, TypeOK, FlagTypes
  <2> QED BY Zenon, <2>1, <2>2, Frames
             DEF Remove, Reconcile, RemoveBackend, PurgeOneObject, PurgeEnds, DeleteBackendDataFails,
     ReconcileBackend, ImportObject, ReconcileEnds, TypeOK
<1>2. RowTypes'
  <2>1. CASE DeleteBackendData
    BY Zenon, <2>1 DEF DeleteBackendData, TypeOK, RowTypes
  <2>2. ASSUME NEW k \in Keys, PurgeOneObject(k) \/ ImportObject(k) PROVE RowTypes'
    BY <2>2 DEF PurgeOneObject, ImportObject, TypeOK, RowTypes, Copy
  <2> QED BY Zenon, <2>1, <2>2, Frames DEF Remove, Reconcile, RemoveBackend, PurgeEnds, DeleteBackendDataFails,
     ClearBackendState, ReconcileBackend, ReconcileEnds, TypeOK
<1>3. WriteTypes'
  <2>1. CASE DeleteBackendData
    BY Zenon, <2>1 DEF DeleteBackendData, TypeOK, WriteTypes
  <2> QED BY Zenon, <2>1, Frames
             DEF Remove, Reconcile, RemoveBackend, PurgeOneObject, PurgeEnds, DeleteBackendDataFails,
     ClearBackendState, ReconcileBackend, ImportObject, ReconcileEnds, TypeOK
<1>4. PassTypes' /\ MoveTypes'
  BY Zenon, Frames
     DEF Remove, Reconcile, RemoveBackend, PurgeOneObject, PurgeEnds, DeleteBackendData,
         DeleteBackendDataFails,
     ClearBackendState, ReconcileBackend, ImportObject, ReconcileEnds, TypeOK
<1>5. RemovalTypes'
  BY Zenon DEF Remove, Reconcile, RemoveBackend, PurgeOneObject, PurgeEnds, DeleteBackendData, DeleteBackendDataFails,
     ClearBackendState, ReconcileBackend, ImportObject, ReconcileEnds, TypeOK, RemovalTypes
<1>6. ScanTypes'
  BY Zenon DEF Remove, Reconcile, RemoveBackend, PurgeOneObject, PurgeEnds, DeleteBackendData, DeleteBackendDataFails,
     ClearBackendState, ReconcileBackend, ImportObject, ReconcileEnds, TypeOK, ScanTypes
<1> QED BY Zenon, <1>1, <1>2, <1>3, <1>4, <1>5, <1>6 DEF TypeOK

-----------------------------------------------------------------------------
(* What is left on a backend depends on its rows, intents and uploads.     *)
LEMMA LeftSame ==
    ASSUME UNCHANGED <<rows, intents, uploads>>, NEW b \in Backends
    PROVE  Left(b)' = Left(b)
BY Zenon DEF Left

(* A change of one backend's flags is safe when it neither declares a      *)
(* backend drained nor takes the flag from one under removal.              *)
LEMMA FlagsKeep ==
    ASSUME DrainInv, NEW b \in Backends, NEW f \in SUBSET Flag, SetFlags(b, f),
           \A g, h \in f \cap DrainFlags : g = h,
           "drained" \in f => "drained" \in flags[b],
           SafeRemoval => removing # b \/ "drained" \in f,
           UNCHANGED <<claims, scan, rows, intents, uploads, removing, recorded>>,
           TypeOK'
    PROVE  DrainInv'
<1>1. \A c \in Backends : flags'[c] = IF c = b THEN f ELSE flags[c]
  BY Zenon DEF SetFlags, DrainInv, TypeOK, FlagTypes
<1>2. OneDrainFlag'
  BY Zenon, <1>1 DEF DrainInv, OneDrainFlag
<1>3. ASSUME DrainedIsEmpty PROVE DrainedIsEmpty'
  BY Zenon, <1>1, <1>3, LeftSame DEF DrainedIsEmpty
<1>4. ASSUME SafeRemoval, RemovesDrained PROVE RemovesDrained'
  BY Zenon, <1>1, <1>4 DEF RemovesDrained, DrainInv, TypeOK, FlagTypes, RemovalTypes
<1>5. ASSUME ObjectsSurvive PROVE ObjectsSurvive'
  BY Zenon, <1>5 DEF ObjectsSurvive
<1> QED BY Zenon, <1>2, <1>3, <1>4, <1>5 DEF DrainInv, Direct, SafeRemoval

(* Cordons leave the drain's flags, a drain starts and is cancelled on     *)
(* backends nobody removes.                                                *)
LEMMA OperatorKeeps == ASSUME DrainInv, Operator PROVE DrainInv'
<1> PICK i \in Instances :
        \/ Refresh(i)
        \/ \E b \in Backends : Cordon(i, b) \/ Uncordon(i, b) \/ StartDrain(i, b) \/ CancelDrain(i, b)
  BY Zenon DEF Operator
<1>1. TypeOK'
  BY Zenon, OperatorTypes DEF DrainInv
<1>2. CASE Refresh(i)
  BY Zenon, <1>1, <1>2, LeftSame
     DEF Refresh, Changed, DrainInv, OneDrainFlag, DrainedIsEmpty, ObjectsSurvive, RemovesDrained,
     Direct, SafeRemoval
<1>3. ASSUME NEW b \in Backends, Cordon(i, b) \/ Uncordon(i, b) \/ StartDrain(i, b) \/ CancelDrain(i, b)
      PROVE  DrainInv'
  <2> DEFINE Of == flags[b]
  <2>1. /\ Of \in SUBSET Flag
        /\ \A g, h \in Of \cap DrainFlags : g = h
        /\ SafeRemoval /\ removing = b => "drained" \in Of
    BY Zenon, BackendStateAssumption DEF DrainInv, TypeOK, FlagTypes, OneDrainFlag, RemovesDrained
  <2>2. UNCHANGED <<claims, scan, rows, intents, uploads, removing, recorded>>
    BY Zenon, <1>3 DEF Cordon, Uncordon, StartDrain, CancelDrain, Changed
  <2>3. SafeRemoval /\ Undisturbed(b) => removing # b
    BY Zenon, BackendStateAssumption DEF SafeRemoval, Undisturbed, DrainInv, RemovesDrained
  <2> DEFINE Harmless(f) == /\ \A g, h \in f \cap DrainFlags : g = h
                            /\ "drained" \in f => "drained" \in Of
                            /\ SafeRemoval => removing # b \/ "drained" \in f
  <2>4. CASE Cordon(i, b)
    <3>1. Harmless(Of \cup {"cordoned"})
      BY Zenon, <2>1
    <3> QED BY Zenon, <1>1, <2>1, <2>2, <2>4, <3>1, FlagsKeep DEF Cordon
  <2>5. CASE Uncordon(i, b)
    <3>1. Harmless(Of \ {"cordoned"})
      BY Zenon, <2>1
    <3> QED BY Zenon, <1>1, <2>1, <2>2, <2>5, <3>1, FlagsKeep DEF Uncordon
  <2>6. CASE StartDrain(i, b)
    <3>1. Harmless((Of \ DrainFlags) \cup {"draining"})
      BY Zenon, <2>1, <2>3, <2>6 DEF StartDrain
    <3> QED BY Zenon, <1>1, <2>1, <2>2, <2>6, <3>1, FlagsKeep DEF StartDrain
  <2>7. CASE CancelDrain(i, b)
    <3>1. Harmless(Of \ DrainFlags)
      BY Zenon, <2>1, <2>3, <2>7 DEF CancelDrain
    <3> QED BY Zenon, <1>1, <2>1, <2>2, <2>7, <3>1, FlagsKeep DEF CancelDrain
  <2> QED BY Zenon, <1>3, <2>4, <2>5, <2>6, <2>7
<1> QED BY Zenon, <1>2, <1>3

(* A change of what the backends hold is safe when it adds nothing to a    *)
(* drained backend and leaves every object a copy.                         *)
LEMMA ContentKeeps ==
    ASSUME DrainInv, TypeOK', UNCHANGED <<flags, removing>>,
           Direct => claims' = {} /\ scan' = None,
           Direct => \A b \in Backends : "drained" \in flags[b] => ~Left(b)',
           SafeRemoval => ObjectsSurvive'
    PROVE  DrainInv'
<1>1. OneDrainFlag' /\ (SafeRemoval => RemovesDrained')
  BY Zenon DEF DrainInv, OneDrainFlag, RemovesDrained
<1>2. Direct => DrainedIsEmpty'
  BY Zenon DEF DrainedIsEmpty
<1> QED BY Zenon, <1>1, <1>2 DEF DrainInv, Direct, SafeRemoval

(* A backend that admits a write has no flag, so it is not drained.        *)
LEMMA AdmittedNotDrained ==
    ASSUME NEW i \in Instances, NEW b \in Backends, Admitted(i, b)
    PROVE  "drained" \notin flags[b]
BY Zenon DEF Admitted, AcceptedBy, AcceptForWrite

(* Writes and uploads are admitted where no drain has finished, and a      *)
(* record replaces the copies of its key by one of its own.                *)
LEMMA ClientKeeps == ASSUME DrainInv, Client PROVE DrainInv'
<1> USE BackendStateAssumption
<1>1. TypeOK'
  BY Zenon, ClientTypes DEF DrainInv
<1>2. Direct => claims = {} /\ scan = None /\ \A b \in Backends : "drained" \in flags[b] => ~Left(b)
  BY Zenon DEF DrainInv, DrainedIsEmpty
<1>3. SafeRemoval => ObjectsSurvive
  BY Zenon DEF DrainInv
<1>4. ASSUME NEW i \in Instances, NEW b \in Backends, NEW w \in Writes, NEW k \in Keys,
             InsertPendingIfFits(i, w, k, b)
      PROVE  DrainInv'
  <2>1. Direct => claims' = {} /\ \A c \in Backends : "drained" \in flags[c] => ~Left(c)'
    BY <1>2, <1>4, AdmittedNotDrained DEF InsertPendingIfFits, Direct, Left
  <2> QED BY Zenon, <1>1, <1>2, <1>3, <1>4, <2>1, ContentKeeps DEF InsertPendingIfFits, ObjectsSurvive
<1>5. ASSUME NEW i \in Instances, NEW b \in Backends, NEW u \in Uploads, CreateMultipartUpload(i, u, b)
      PROVE  DrainInv'
  <2>1. Direct => \A c \in Backends : "drained" \in flags[c] => ~Left(c)'
    BY Zenon, <1>2, <1>5, AdmittedNotDrained DEF CreateMultipartUpload, Left, DrainInv, TypeOK, WriteTypes
  <2> QED BY Zenon, <1>1, <1>2, <1>3, <1>5, <2>1, ContentKeeps DEF CreateMultipartUpload, ObjectsSurvive
<1>6. ASSUME NEW p \in claims, CommitClaim(p) PROVE DrainInv'
  <2>1. ~Direct
    BY Zenon, <1>2
  <2> QED BY Zenon, <1>1, <1>3, <1>6, <2>1, ContentKeeps DEF CommitClaim, ObjectsSurvive
<1>7. ASSUME NEW p \in intents, RecordObject(p) PROVE DrainInv'
  <2>1. p.key \in Keys /\ p.at \in Backends /\ p.id \in Writes /\ p.id # None
    BY Zenon, <1>7 DEF RecordObject, DrainInv, TypeOK, WriteTypes, Intent
  <2>2. \A k \in Keys, b \in Backends :
            rows'[k][b] = IF k # p.key THEN rows[k][b] ELSE IF b = p.at THEN p.id ELSE None
    BY Zenon, <1>7, <2>1 DEF RecordObject, DrainInv, TypeOK, RowTypes
  <2>3. Left(p.at)
    BY Zenon DEF Left
  <2>4. Direct => \A c \in Backends : "drained" \in flags[c] => ~Left(c)'
    BY <1>2, <1>7, <2>1, <2>2, <2>3 DEF RecordObject, Left
  <2>5. ObjectsSurvive => ObjectsSurvive'
    BY <1>7, <2>1, <2>2 DEF RecordObject, ObjectsSurvive, DrainInv, TypeOK, RowTypes
  <2> QED BY Zenon, <1>1, <1>2, <1>3, <1>7, <2>4, <2>5, ContentKeeps DEF RecordObject
<1>8. ASSUME NEW p \in intents, DiscardPending(p) PROVE DrainInv'
  <2>1. Direct => \A c \in Backends : "drained" \in flags[c] => ~Left(c)'
    BY Zenon, <1>2, <1>8 DEF DiscardPending, Left
  <2> QED BY Zenon, <1>1, <1>2, <1>3, <1>8, <2>1, ContentKeeps DEF DiscardPending, ObjectsSurvive
<1>9. ASSUME NEW u \in Uploads, EndUpload(u) PROVE DrainInv'
  <2>1. Direct => \A c \in Backends : "drained" \in flags[c] => ~Left(c)'
    BY Zenon, <1>2, <1>9 DEF EndUpload, Left, DrainInv, TypeOK, WriteTypes
  <2> QED BY Zenon, <1>1, <1>2, <1>3, <1>9, <2>1, ContentKeeps DEF EndUpload, ObjectsSurvive
<1> QED BY Zenon, <1>4, <1>5, <1>6, <1>7, <1>8, <1>9 DEF Client

(* The worker's moves are admitted like writes and leave a copy; it        *)
(* declares a backend drained in the statement that finds it empty.        *)
LEMMA DrainKeeps == ASSUME DrainInv, DrainStep PROVE DrainInv'
<1> USE BackendStateAssumption
<1>1. TypeOK'
  BY Zenon, DrainTypes DEF DrainInv
<1>2. Direct => claims = {} /\ scan = None /\ \A b \in Backends : "drained" \in flags[b] => ~Left(b)
  BY Zenon DEF DrainInv, DrainedIsEmpty
<1>3. SafeRemoval => ObjectsSurvive
  BY Zenon DEF DrainInv
<1>4. ASSUME UNCHANGED <<flags, removing, claims, scan, rows, intents, uploads, recorded>>
      PROVE  DrainInv'
  <2>1. Direct => \A c \in Backends : "drained" \in flags[c] => ~Left(c)'
    BY Zenon, <1>2, <1>4, LeftSame
  <2> QED BY Zenon, <1>1, <1>2, <1>3, <1>4, <2>1, ContentKeeps DEF ObjectsSurvive
<1>5. ASSUME NEW i \in Instances, Drain(i) \/ \E e \in page : NoDestination(i, e) PROVE DrainInv'
  BY Zenon, <1>4, <1>5 DEF Drain, NoDestination
<1>6. CASE PassEnds \/ ListObjectsByBackend \/ DrainStopped \/ PassFails \/ LookUpCopies
  BY Zenon, <1>4, <1>6 DEF PassEnds, ListObjectsByBackend, DrainStopped, PassFails, LookUpCopies
<1>7. ASSUME NEW b \in Backends, AbortUploads(b) PROVE DrainInv'
  <2>1. Direct => \A c \in Backends : "drained" \in flags[c] => ~Left(c)'
    BY <1>2, <1>7 DEF AbortUploads, Left
  <2> QED BY Zenon, <1>1, <1>2, <1>3, <1>7, <2>1, ContentKeeps DEF AbortUploads, ObjectsSurvive
<1>8. CASE MarkDrainFailed
  <2>1. /\ on \in Backends /\ flags[on] \in SUBSET Flag
        /\ "draining" \in flags[on] /\ "drained" \notin flags[on]
    BY Zenon, <1>8 DEF MarkDrainFailed, StillDraining, DrainInv, TypeOK, FlagTypes, PassTypes, OneDrainFlag
  <2>2. SafeRemoval => removing # on
    BY Zenon, <2>1 DEF DrainInv, RemovesDrained
  <2> QED BY Zenon, <1>1, <1>8, <2>1, <2>2, FlagsKeep DEF MarkDrainFailed
<1>9. CASE CompleteDrain /\ UNCHANGED flags
  BY Zenon, <1>4, <1>9 DEF CompleteDrain
<1>10. CASE CompleteDrain /\ ~UNCHANGED flags
  <2>1. /\ on \in Backends /\ ~Left(on) /\ flags[on] \in SUBSET Flag
        /\ SetFlags(on, (flags[on] \ DrainFlags) \cup {"drained"})
        /\ UNCHANGED <<claims, scan, rows, intents, uploads, removing, recorded>>
    BY Zenon, <1>10 DEF CompleteDrain, DrainInv, TypeOK, FlagTypes, PassTypes
  <2>2. \A c \in Backends :
            flags'[c] = IF c = on THEN (flags[on] \ DrainFlags) \cup {"drained"} ELSE flags[c]
    BY Zenon, <2>1 DEF SetFlags, DrainInv, TypeOK, FlagTypes
  <2>3. OneDrainFlag'
    BY <2>2 DEF DrainInv, OneDrainFlag
  <2>4. Direct => DrainedIsEmpty'
    BY Zenon, <1>2, <2>1, <2>2, LeftSame DEF DrainedIsEmpty
  <2>5. SafeRemoval => RemovesDrained'
    BY Zenon, <2>1, <2>2 DEF DrainInv, TypeOK, FlagTypes, RemovalTypes, RemovesDrained
  <2>6. SafeRemoval => ObjectsSurvive'
    BY Zenon, <1>3, <2>1 DEF ObjectsSurvive
  <2> QED BY Zenon, <1>1, <1>2, <2>1, <2>3, <2>4, <2>5, <2>6 DEF DrainInv, Direct, SafeRemoval
<1>11. ASSUME NEW e \in page, DropDrainedCopy(e) PROVE DrainInv'
  <2>1. e[1] \in Keys /\ on \in Backends
    BY Zenon, <1>11 DEF DropDrainedCopy, DrainInv, TypeOK, PassTypes
  <2>2. CASE rows' = rows
    BY Zenon, <1>4, <1>11, <2>2 DEF DropDrainedCopy
  <2>3. CASE rows' # rows
    <3>1. /\ rows' = [rows EXCEPT ![e[1]][on] = None]
          /\ \E b \in Backends \ {on} : rows[e[1]][b] # None
      BY Zenon, <1>11, <2>3 DEF DropDrainedCopy
    <3>2. \A k \in Keys, b \in Backends :
              rows'[k][b] = IF k = e[1] /\ b = on THEN None ELSE rows[k][b]
      BY Zenon, <2>1, <3>1 DEF DrainInv, TypeOK, RowTypes
    <3>3. Direct => \A c \in Backends : "drained" \in flags[c] => ~Left(c)'
      BY <1>2, <1>11, <3>2 DEF DropDrainedCopy, Left
    <3>4. SafeRemoval => ObjectsSurvive'
      BY <1>3, <1>11, <3>1, <3>2 DEF DropDrainedCopy, ObjectsSurvive, DrainInv, TypeOK, RowTypes
    <3> QED BY Zenon, <1>1, <1>2, <1>11, <3>3, <3>4, ContentKeeps DEF DropDrainedCopy
  <2> QED BY Zenon, <2>2, <2>3
<1>12. ASSUME NEW i \in Instances, NEW e \in page, NEW d \in Backends, ClaimCopyTarget(i, e, d)
       PROVE  DrainInv'
  <2>1. MoveIntent(moving').at = d
    BY Zenon, <1>12 DEF ClaimCopyTarget, MoveIntent
  <2>2. "drained" \notin flags[d]
    BY Zenon, <1>12, AdmittedNotDrained DEF ClaimCopyTarget
  <2>3. Direct => \A c \in Backends : "drained" \in flags[c] => ~Left(c)'
    BY Zenon, <1>2, <1>12, <2>1, <2>2 DEF ClaimCopyTarget, Left
  <2> QED BY Zenon, <1>1, <1>2, <1>3, <1>12, <2>3, ContentKeeps DEF ClaimCopyTarget, ObjectsSurvive
<1>13. CASE CopyFails
  <2>1. Direct => \A c \in Backends : "drained" \in flags[c] => ~Left(c)'
    BY Zenon, <1>2, <1>13 DEF CopyFails, Left
  <2> QED BY Zenon, <1>1, <1>2, <1>3, <1>13, <2>1, ContentKeeps DEF CopyFails, ObjectsSurvive
<1>14. CASE PlaceCopy
  <2>1. moving \in [key : Keys, copy : Copy, to : Backends] /\ on \in Backends /\ Moved # None
    BY Zenon, <1>14 DEF PlaceCopy, DrainInv, TypeOK, MoveTypes, PassTypes
  <2>2. CASE rows' = rows
    <3>1. Direct => \A c \in Backends : "drained" \in flags[c] => ~Left(c)'
      BY Zenon, <1>2, <1>14, <2>2 DEF PlaceCopy, Left
    <3> QED BY Zenon, <1>1, <1>2, <1>3, <1>14, <2>2, <3>1, ContentKeeps DEF PlaceCopy, ObjectsSurvive
  <2>3. CASE rows' # rows
    <3>1. Placed(moving) /\ MoveIntent(moving) \in intents
      BY Zenon, <1>14, <2>3 DEF PlaceCopy
    <3>2. \A k \in Keys, b \in Backends :
              rows'[k][b] = IF k # moving.key THEN rows[k][b]
                            ELSE IF b = moving.to THEN Moved ELSE IF b = on THEN None ELSE rows[k][b]
      BY Zenon, <2>1, <3>1 DEF Placed, DrainInv, TypeOK, RowTypes
    <3>3. Left(moving.to)
      BY Zenon, <3>1 DEF Left, MoveIntent
    <3>4. Direct => \A c \in Backends : "drained" \in flags[c] => ~Left(c)'
      BY <1>2, <1>14, <2>1, <3>2, <3>3 DEF PlaceCopy, Left
    <3>5. SafeRemoval => ObjectsSurvive'
      BY <1>3, <1>14, <2>1, <3>2 DEF PlaceCopy, ObjectsSurvive, DrainInv, TypeOK, RowTypes
    <3> QED BY Zenon, <1>1, <1>2, <1>14, <3>4, <3>5, ContentKeeps DEF PlaceCopy
  <2> QED BY Zenon, <2>2, <2>3
<1> QED BY Zenon, <1>5, <1>6, <1>7, <1>8, <1>9, <1>10, <1>11, <1>12, <1>13, <1>14 DEF DrainStep

(* A removal that waits for the drain finds nothing to purge or delete.    *)
LEMMA RemoveKeeps == ASSUME DrainInv, Remove PROVE DrainInv'
<1> USE BackendStateAssumption
<1>1. TypeOK'
  BY Zenon, RemoveTypes DEF DrainInv
<1>2. Direct => claims = {} /\ scan = None /\ \A b \in Backends : "drained" \in flags[b] => ~Left(b)
  BY Zenon DEF DrainInv, DrainedIsEmpty
<1>3. SafeRemoval => ObjectsSurvive /\ RemovesDrained
  BY Zenon DEF DrainInv
<1>4. ASSUME SafeRemoval, removing # None PROVE \A k \in Keys : rows[k][removing] = None
  BY Zenon, <1>2, <1>3, <1>4 DEF RemovesDrained, SafeRemoval, Left, DrainInv, TypeOK, RemovalTypes
<1>5. ASSUME NEW b \in Backends, RemoveBackend(b) PROVE DrainInv'
  <2>1. SafeRemoval => RemovesDrained'
    BY Zenon, <1>5 DEF RemoveBackend, RemovesDrained, SafeRemoval
  <2>2. /\ OneDrainFlag' /\ claims' = claims /\ scan' = scan
        /\ DrainedIsEmpty => DrainedIsEmpty'
        /\ ObjectsSurvive => ObjectsSurvive'
    BY Zenon, <1>5, LeftSame DEF RemoveBackend, DrainInv, OneDrainFlag, DrainedIsEmpty, ObjectsSurvive
  <2> QED BY Zenon, <1>1, <2>1, <2>2 DEF DrainInv, Direct, SafeRemoval
<1>6. ASSUME NEW k \in Keys, PurgeOneObject(k) PROVE DrainInv'
  <2>1. removing \in Backends /\ ~SafeRemoval
    BY Zenon, <1>4, <1>6 DEF PurgeOneObject, DrainInv, TypeOK, RemovalTypes
  <2>2. \A j \in Keys, b \in Backends :
            rows'[j][b] = IF j = k /\ b = removing THEN None ELSE rows[j][b]
    BY Zenon, <1>6, <2>1 DEF PurgeOneObject, DrainInv, TypeOK, RowTypes
  <2>3. Direct => \A c \in Backends : "drained" \in flags[c] => ~Left(c)'
    BY <1>2, <1>6, <2>2 DEF PurgeOneObject, Left
  <2> QED BY Zenon, <1>1, <1>2, <1>6, <2>1, <2>3, ContentKeeps DEF PurgeOneObject
<1>7. CASE PurgeEnds \/ DeleteBackendDataFails
  <2>1. /\ OneDrainFlag' /\ claims' = claims /\ scan' = scan
        /\ DrainedIsEmpty => DrainedIsEmpty'
        /\ ObjectsSurvive => ObjectsSurvive'
        /\ RemovesDrained => RemovesDrained'
    BY Zenon, <1>7, LeftSame DEF PurgeEnds, DeleteBackendDataFails, DrainInv, OneDrainFlag, DrainedIsEmpty,
       ObjectsSurvive, RemovesDrained
  <2> QED BY Zenon, <1>1, <2>1 DEF DrainInv, Direct, SafeRemoval
<1>8. CASE DeleteBackendData
  <2>1. removing \in Backends
    BY Zenon, <1>8 DEF DeleteBackendData, DrainInv, TypeOK, RemovalTypes
  <2>2. \A j \in Keys, b \in Backends : rows'[j][b] = IF b = removing THEN None ELSE rows[j][b]
    BY Zenon, <1>8, <2>1 DEF DeleteBackendData, DrainInv, TypeOK, RowTypes
  <2>3. Direct => \A c \in Backends : "drained" \in flags[c] => ~Left(c)'
    BY <1>2, <1>8, <2>1, <2>2 DEF DeleteBackendData, Left, DrainInv, TypeOK, WriteTypes
  <2>4. SafeRemoval => \A j \in Keys, b \in Backends : rows'[j][b] = rows[j][b]
    BY Zenon, <1>4, <2>1, <2>2
  <2>5. SafeRemoval => ObjectsSurvive'
    BY Zenon, <1>3, <1>8, <2>4 DEF DeleteBackendData, ObjectsSurvive, DrainInv, TypeOK, RowTypes
  <2> QED BY Zenon, <1>1, <1>2, <1>8, <2>3, <2>5, ContentKeeps DEF DeleteBackendData
<1>9. ASSUME NEW i \in Instances, ClearBackendState(i) PROVE DrainInv'
  <2>1. removing \in Backends /\ removing' = None
    BY Zenon, <1>9 DEF ClearBackendState, DrainInv, TypeOK, RemovalTypes
  <2>2. \A c \in Backends : flags'[c] = IF c = removing THEN {} ELSE flags[c]
    BY Zenon, <1>9, <2>1 DEF ClearBackendState, SetFlags, DrainInv, TypeOK, FlagTypes
  <2>3. OneDrainFlag'
    BY Zenon, <2>2 DEF DrainInv, OneDrainFlag
  <2>4. DrainedIsEmpty => DrainedIsEmpty'
    BY Zenon, <1>9, <2>2, LeftSame DEF ClearBackendState, DrainedIsEmpty
  <2>5. RemovesDrained' /\ (ObjectsSurvive => ObjectsSurvive')
    BY Zenon, <1>9, <2>1 DEF ClearBackendState, RemovesDrained, ObjectsSurvive
  <2> QED BY Zenon, <1>1, <1>9, <2>3, <2>4, <2>5 DEF ClearBackendState, DrainInv, Direct, SafeRemoval
<1> QED BY Zenon, <1>5, <1>6, <1>7, <1>8, <1>9 DEF Remove

(* An import adds a copy; where reconcile is off there is none.            *)
LEMMA ReconcileKeeps == ASSUME DrainInv, Reconcile PROVE DrainInv'
<1> USE BackendStateAssumption
<1>1. TypeOK'
  BY Zenon, RemoveTypes DEF DrainInv
<1>2. ~Direct
  BY Zenon DEF Reconcile, ReconcileBackend, ImportObject, ReconcileEnds, DrainInv, Direct
<1>3. SafeRemoval => ObjectsSurvive
  BY Zenon DEF DrainInv
<1>4. SafeRemoval => ObjectsSurvive'
  <2>1. CASE rows' = rows /\ recorded' = recorded
    BY Zenon, <1>3, <2>1 DEF ObjectsSurvive
  <2>2. ASSUME NEW k \in Keys, ImportObject(k) PROVE SafeRemoval => ObjectsSurvive'
    <3>1. scan \in Backends /\ Imported # None
      BY Zenon, <2>2 DEF ImportObject, DrainInv, TypeOK, ScanTypes
    <3>2. \A j \in Keys, b \in Backends :
              rows'[j][b] = IF j = k /\ b = scan THEN Imported ELSE rows[j][b]
      BY Zenon, <2>2, <3>1 DEF ImportObject, DrainInv, TypeOK, RowTypes
    <3>3. recorded' = recorded \cup {k} /\ recorded \subseteq Keys
      BY Zenon, <2>2 DEF ImportObject, DrainInv, TypeOK, RowTypes
    <3>4. rows'[k][scan] # None
      BY Zenon, <3>1, <3>2
    <3>5. ASSUME SafeRemoval, NEW j \in recorded PROVE \E b \in Backends : rows'[j][b] # None
      <4>1. PICK b \in Backends : rows[j][b] # None
        BY Zenon, <1>3, <3>5 DEF ObjectsSurvive
      <4> QED BY Zenon, <3>1, <3>2, <3>3, <4>1
    <3> QED BY Zenon, <3>1, <3>3, <3>4, <3>5 DEF ObjectsSurvive
  <2> QED BY Zenon, <2>1, <2>2 DEF Reconcile, ReconcileBackend, ReconcileEnds
<1>5. UNCHANGED <<flags, removing>>
  BY Zenon DEF Reconcile, ReconcileBackend, ImportObject, ReconcileEnds
<1> QED BY Zenon, <1>1, <1>2, <1>4, <1>5, ContentKeeps

(* The invariant holds from the start: nothing is drained, nobody removes  *)
(* anything, and an object is recorded when it has a copy.                 *)
LEMMA InitDrainInv == Init => DrainInv
<1> SUFFICES ASSUME Init PROVE DrainInv
  OBVIOUS
<1>1. TypeOK
  BY BackendStateAssumption
     DEF Init, TypeOK, FlagTypes, RowTypes, WriteTypes, PassTypes, MoveTypes, RemovalTypes, ScanTypes, Copy
<1>2. OneDrainFlag /\ DrainedIsEmpty
  BY Zenon DEF Init, OneDrainFlag, DrainedIsEmpty
<1>3. RemovesDrained /\ ObjectsSurvive
  BY Zenon DEF Init, RemovesDrained, ObjectsSurvive
<1> QED BY Zenon, <1>1, <1>2, <1>3 DEF Init, DrainInv

(* Drains and removals keep the invariant at every step of every process.  *)
THEOREM DrainInvariance == Spec => []DrainInv
<1>1. ASSUME DrainInv, [Next]_vars PROVE DrainInv'
  <2>1. CASE UNCHANGED vars
    <3>1. TypeOK'
      BY Zenon, <1>1, <2>1, Frames DEF vars, DrainInv, TypeOK
    <3>2. Direct => claims' = {} /\ scan' = None /\ \A b \in Backends : "drained" \in flags[b] => ~Left(b)'
      BY Zenon, <1>1, <2>1, LeftSame DEF vars, DrainInv, DrainedIsEmpty
    <3>3. SafeRemoval => ObjectsSurvive'
      BY Zenon, <1>1, <2>1 DEF vars, DrainInv, ObjectsSurvive
    <3> QED BY Zenon, <1>1, <2>1, <3>1, <3>2, <3>3, ContentKeeps DEF vars
  <2> QED BY Zenon, <1>1, <2>1, OperatorKeeps, ClientKeeps, DrainKeeps, RemoveKeeps, ReconcileKeeps DEF Next
<1> QED BY <1>1, InitDrainInv, PTL DEF Spec

(* A backend reported as drained holds no managed copy, intent or upload,  *)
(* however stale the caches of the instances are, when claims commit with  *)
(* their insert (SQLite) and reconcile is off.                             *)
THEOREM DrainedStaysEmpty == ASSUME ~OpenTransactions, ~Reconciles PROVE Spec => []DrainedIsEmpty
<1>1. DrainInv => DrainedIsEmpty
  BY Zenon DEF DrainInv, Direct
<1> QED BY <1>1, DrainInvariance, PTL

(* Through drains, stale pages, overwrites, failed copies and imports, a   *)
(* recorded object keeps a copy, when no backend is removed or backends    *)
(* are removed once drained and left alone meanwhile.                      *)
THEOREM NoObjectLost == ASSUME SafeRemoval PROVE Spec => []ObjectsSurvive
<1>1. DrainInv => ObjectsSurvive
  BY Zenon DEF DrainInv
<1> QED BY <1>1, DrainInvariance, PTL

=============================================================================
