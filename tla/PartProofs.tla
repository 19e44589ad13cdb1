---------------------------- MODULE PartProofs ----------------------------
(***************************************************************************)
(* For any part numbers, part uploads and completions: the object a        *)
(* completion records is its manifest's parts, and parts are kept until    *)
(* they are assembled.                                                     *)
(***************************************************************************)
EXTENDS Multipart, TLAPS

USE DEF uploadVars, partVars, local, completionVars, StorageKey, PartSet, NoParts

(* What a step leaves alone stays of its kind.                             *)
LEMMA Frames ==
    /\ UploadTypes /\ UNCHANGED uploadVars => UploadTypes'
    /\ PartTypes /\ UNCHANGED partVars => PartTypes'
    /\ CompletionTypes /\ UNCHANGED <<stage, local>> => CompletionTypes'
    /\ AssemblyTypes /\ UNCHANGED <<assembled, object>> => AssemblyTypes'
<1>1. UploadTypes /\ UNCHANGED uploadVars => UploadTypes'
  BY Zenon DEF UploadTypes
<1>2. PartTypes /\ UNCHANGED partVars => PartTypes'
  BY Zenon DEF PartTypes
<1>3. CompletionTypes /\ UNCHANGED <<stage, local>> => CompletionTypes'
  BY Zenon DEF CompletionTypes
<1>4. AssemblyTypes /\ UNCHANGED <<assembled, object>> => AssemblyTypes'
  BY Zenon DEF AssemblyTypes
<1> QED BY Zenon, <1>1, <1>2, <1>3, <1>4

(* The steps of a part upload, of the reaper and of the cleanup worker.    *)
UploadSteps(u) == UploadPart(u) \/ UploadStep(u) \/ CrashUpload(u) \/ Reap(u) \/ Settle(u)

(* The steps of a part upload keep the types.                              *)
LEMMA UploadStepTypes ==
    ASSUME TypeOK, NEW u \in PartUploads, UploadSteps(u)
    PROVE  TypeOK'
<1> USE MultipartAssumption
<1>1. UNCHANGED <<stage, local, assembled, object, row, mark>>
  BY Zenon DEF UploadSteps, UploadPart, UploadStep, PutPart, RecordPart, Discard, CrashUpload, Reap,
     ProbeIntent, ResolveIntent, Settle
<1>2. PartTypes'
  <2>1. CASE UploadPart(u) \/ PutPart(u) \/ CrashUpload(u)
    BY <2>1 DEF UploadPart, PutPart, CrashUpload, UpTo, TypeOK, PartTypes
  <2>2. CASE RecordPart(u)
    <3>1. up' \in [PartUploads -> {"idle", "sending", "sent", "discarding", "acked", "failed"}]
      BY Zenon, <2>2 DEF RecordPart, UpTo, TypeOK, PartTypes
    <3>2. parts[NumberOf[u]] \in PartSet
      BY Zenon DEF TypeOK, UploadTypes
    <3>3. intents' \subseteq intents /\ queued' \subseteq queued \cup PartUploads
      BY Zenon, <2>2, <3>2 DEF RecordPart, recordPartTx
    <3> QED BY Zenon, <2>2, <3>1, <3>3 DEF RecordPart, TypeOK, PartTypes
  <2>3. CASE Discard(u)
    BY Zenon, <2>3 DEF Discard, dropIntent, UpTo, TypeOK, PartTypes
  <2>4. CASE Reap(u) \/ Settle(u)
    BY <2>4 DEF Reap, ProbeIntent, ResolveIntent, dropIntent, Settle, TypeOK, PartTypes
  <2> QED BY Zenon, <2>1, <2>2, <2>3, <2>4 DEF UploadSteps, UploadStep
<1>3. UploadTypes'
  <2>1. CASE RecordPart(u)
    <3>1. parts' = parts \/ (row = "open" /\ parts' = [parts EXCEPT ![NumberOf[u]] = u])
      BY Zenon, <2>1 DEF RecordPart, recordPartTx
    <3>2. NumberOf[u] \in Numbers
      OBVIOUS
    <3> QED BY <1>1, <3>1, <3>2 DEF TypeOK, UploadTypes
  <2>2. CASE UNCHANGED parts
    BY Zenon, <1>1, <2>2, Frames DEF TypeOK
  <2> QED BY Zenon, <2>1, <2>2 DEF UploadSteps, UploadPart, UploadStep, PutPart, Discard, CrashUpload, Reap,
     ProbeIntent, ResolveIntent, Settle
<1> QED BY Zenon, <1>1, <1>2, <1>3, Frames DEF TypeOK

(* Creating, removing and aging of the upload row.                         *)
RowSteps == CreateMultipartUpload \/ AbortMultipartUpload \/ MarkAges

(* Only part uploads are recorded.                                         *)
LEMMA RecordedPathsTypes == ASSUME UploadTypes PROVE RecordedPaths \subseteq PartUploads
BY Zenon DEF UploadTypes, RecordedPaths

(* The steps on the upload row keep the types.                             *)
LEMMA RowStepTypes == ASSUME TypeOK, RowSteps PROVE TypeOK'
<1>1. UNCHANGED completionVars
  BY Zenon DEF RowSteps, CreateMultipartUpload, AbortMultipartUpload, MarkAges
<1>2. UploadTypes'
  BY Zenon
     DEF RowSteps, CreateMultipartUpload, AbortMultipartUpload, DeleteMultipartUpload, MarkAges, TypeOK,
         UploadTypes
<1>3. PartTypes'
  BY Zenon, RecordedPathsTypes DEF RowSteps, CreateMultipartUpload, AbortMultipartUpload, DeleteMultipartUpload,
     MarkAges, TypeOK, PartTypes
<1> QED BY Zenon, <1>1, <1>2, <1>3, Frames DEF TypeOK

(* The steps of a completion.                                              *)
CompletionSteps(c) ==
    \/ \E m \in Manifests : BeginMultipartCompletion(c, m)
    \/ CompletionStep(c) \/ RenewMultipartCompletion(c) \/ CrashCompletion(c)

(* A completion that returns stays typed.                                  *)
LEMMA ReturnsTypes ==
    ASSUME CompletionTypes, NEW c \in Completions, NEW to \in Stages, Returns(c, to)
    PROVE  CompletionTypes'
BY Zenon DEF Returns, StageTo, CompletionTypes

(* The steps of a completion keep the types.                               *)
LEMMA CompletionStepTypes ==
    ASSUME TypeOK, Collected, NEW c \in Completions, CompletionSteps(c)
    PROVE  TypeOK'
<1> USE MultipartAssumption
<1>0. {"idle", "done", "succeeded", "begun", "reading", "put", "removing", "ending", "succeeding"} \subseteq Stages
  BY Zenon DEF Stages, Renewing, Ending
<1>1. ASSUME NEW m \in Manifests, BeginMultipartCompletion(c, m) PROVE TypeOK'
  <2>1. m \in [Numbers -> PartSet \cup {AnyETag}]
    BY Zenon, <1>1 DEF Manifests
  <2>2. CompletionTypes'
    BY Zenon, <1>0, <1>1, <2>1 DEF BeginMultipartCompletion, StageTo, TypeOK, CompletionTypes
  <2>3. UploadTypes'
    BY Zenon, <1>1 DEF BeginMultipartCompletion, TypeOK, UploadTypes
  <2> QED BY Zenon, <1>1, <2>2, <2>3, Frames DEF BeginMultipartCompletion, TypeOK
<1>2. CASE Fails(c) \/ CrashCompletion(c)
  <2>1. \E to \in Stages : Returns(c, to)
    BY Zenon, <1>0, <1>2 DEF Fails, CrashCompletion
  <2> QED BY Zenon, <1>2, <2>1, ReturnsTypes, Frames DEF Fails, CrashCompletion, TypeOK
<1>3. CASE CollectParts(c)
  <2>1. [n \in Numbers |-> IF n \in Named(c) THEN parts[n] ELSE None] \in [Numbers -> PartSet]
    BY Zenon DEF TypeOK, UploadTypes
  <2>2. CompletionTypes'
    BY Zenon, <1>0, <1>3, <2>1 DEF CollectParts, StageTo, TypeOK, CompletionTypes
  <2> QED BY Zenon, <1>3, <2>2, Frames DEF CollectParts, TypeOK
<1>4. ASSUME NEW n \in Numbers, ReadPart(c, n) PROVE TypeOK'
  <2>1. want[c][n] \in PartUploads /\ bytes[want[c][n]] \in PartSet
    <3>1. want[c][n] \in PartSet
      BY DEF TypeOK, CompletionTypes
    <3>2. want[c][n] # None
      BY Zenon, <1>4 DEF ReadPart, Unread, Named, Collected, Fits
    <3> QED BY Zenon, <3>1, <3>2 DEF TypeOK, PartTypes
  <2>2. CompletionTypes'
    BY Zenon, <1>4, <2>1 DEF ReadPart, TypeOK, CompletionTypes
  <2> QED BY Zenon, <1>4, <2>2, Frames DEF ReadPart, TypeOK
<1>5. CASE PutAssembled(c) \/ RecordObject(c)
  <2>1. CompletionTypes'
    <3>1. CASE \E to \in Stages : Returns(c, to)
      BY Zenon, <3>1, ReturnsTypes DEF TypeOK
    <3>2. CASE \E to \in Stages : StageTo(c, to) /\ UNCHANGED local
      BY <3>2 DEF StageTo, TypeOK, CompletionTypes
    <3> QED BY Zenon, <1>0, <1>5, <3>1, <3>2 DEF PutAssembled, RecordObject
  <2>2. /\ manifest[c] \in [Numbers -> PartSet \cup {AnyETag}]
        /\ got[c] \in [Numbers -> PartSet]
    BY Zenon DEF TypeOK, CompletionTypes
  <2>3. AssemblyTypes'
    BY <1>5, <2>2 DEF PutAssembled, RecordObject, Assembly, TypeOK, AssemblyTypes
  <2> QED BY Zenon, <1>5, <2>1, <2>3, Frames DEF PutAssembled, RecordObject, TypeOK
<1>6. CASE cleanupCompletedUpload(c)
  <2>1. CompletionTypes'
    BY Zenon, <1>0, <1>6, ReturnsTypes DEF cleanupCompletedUpload, TypeOK
  <2>2. UploadTypes'
    BY Zenon, <1>6 DEF cleanupCompletedUpload, DeleteMultipartUpload, TypeOK, UploadTypes
  <2>3. PartTypes'
    BY Zenon, <1>6, RecordedPathsTypes DEF cleanupCompletedUpload, DeleteMultipartUpload, TypeOK, PartTypes
  <2> QED BY Zenon, <1>6, <2>1, <2>2, <2>3, Frames DEF cleanupCompletedUpload, TypeOK
<1>7. CASE RenewMultipartCompletion(c)
  <2>1. CompletionTypes' /\ UploadTypes'
    BY Zenon, <1>7 DEF RenewMultipartCompletion, TypeOK, CompletionTypes, UploadTypes
  <2> QED BY Zenon, <1>7, <2>1, Frames DEF RenewMultipartCompletion, TypeOK
<1>8. CASE EndMultipartCompletion(c)
  <2>1. CompletionTypes'
    BY Zenon, <1>0, <1>8 DEF EndMultipartCompletion, StageTo, TypeOK, CompletionTypes
  <2>2. UploadTypes'
    BY Zenon, <1>8 DEF EndMultipartCompletion, TypeOK, UploadTypes
  <2> QED BY Zenon, <1>8, <2>1, <2>2, Frames DEF EndMultipartCompletion, TypeOK
<1> QED BY Zenon, <1>1, <1>2, <1>3, <1>4, <1>5, <1>6, <1>7, <1>8 DEF CompletionSteps, CompletionStep

(* Resolving an assembled object's intent keeps the types.                 *)
LEMMA AssemblyStepTypes == ASSUME TypeOK, NEW a \in assembled, ResolveAssembly(a) PROVE TypeOK'
<1>1. /\ a[2] \in [Numbers -> PartSet \cup {AnyETag}]
      /\ a[3] \in [Numbers -> PartSet]
  BY Zenon DEF TypeOK, AssemblyTypes
<1>2. AssemblyTypes'
  BY <1>1 DEF ResolveAssembly, TypeOK, AssemblyTypes
<1> QED BY Zenon, <1>2, Frames DEF ResolveAssembly, TypeOK

(* Every step of the upload is one of these.                               *)
LEMMA Steps ==
    ASSUME Next
    PROVE  \/ RowSteps
           \/ \E u \in PartUploads : UploadSteps(u)
           \/ \E c \in Completions : CompletionSteps(c)
           \/ \E a \in assembled : ResolveAssembly(a)
BY Zenon DEF Next, RowSteps, UploadSteps, CompletionSteps

(* Every step keeps the types.                                             *)
LEMMA Types == ASSUME TypeOK, Collected, Next PROVE TypeOK'
BY Zenon, Steps, RowStepTypes, UploadStepTypes, CompletionStepTypes, AssemblyStepTypes

-----------------------------------------------------------------------------
(* An intent, a path and a recorded part under the steps of one upload.    *)

PartsSafe == IntentsOpen /\ PathsOwned /\ RecordedPartsStored

(* A recorded part is the part of one number only, and has no intent.      *)
LEMMA RecordedOnce ==
    ASSUME UploadTypes, IntentsOpen, NEW n \in Numbers, parts[n] # None
    PROVE  parts[n] \in PartUploads /\ NumberOf[parts[n]] = n /\ parts[n] \notin intents
BY Zenon DEF UploadTypes, IntentsOpen

(* The rows of a removed upload leave their bytes to the queue.            *)
LEMMA RemovalSafe ==
    ASSUME TypeOK, PartsSafe, DeleteMultipartUpload, UNCHANGED <<intents, bytes, up>>
    PROVE  PartsSafe'
<1> USE DEF PartsSafe, TypeOK
<1>1. ASSUME NEW u \in RecordedPaths PROVE u \in PartUploads /\ u \notin intents /\ up[u] # "idle"
  BY <1>1, RecordedOnce DEF RecordedPaths, PathsOwned
<1>2. \A n \in Numbers : parts'[n] = None
  BY Zenon DEF DeleteMultipartUpload
<1>3. IntentsOpen'
  <2> SUFFICES ASSUME NEW u \in intents
               PROVE  (u \notin queued /\ parts[NumberOf[u]] # u /\ up[u] # "idle" /\ (up[u] = "sent" => bytes[u] = u))'
    BY Zenon DEF IntentsOpen
  <2>1. u \in PartUploads /\ NumberOf[u] \in Numbers /\ u # None
    BY Zenon, MultipartAssumption DEF PartTypes
  <2> QED BY Zenon, <1>1, <1>2, <2>1 DEF IntentsOpen, DeleteMultipartUpload
<1>4. PathsOwned' /\ RecordedPartsStored'
  BY Zenon, <1>1, <1>2 DEF PathsOwned, RecordedPartsStored, DeleteMultipartUpload
<1> QED BY Zenon, <1>3, <1>4

(* A step away from the parts keeps them safe.                             *)
LEMMA SafeFrame ==
    ASSUME PartsSafe, UNCHANGED <<parts, intents, queued, bytes, up>>
    PROVE  PartsSafe'
BY Zenon DEF PartsSafe, IntentsOpen, PathsOwned, RecordedPartsStored

(* A part whose intent is dropped, its bytes queued or not, is nowhere     *)
(* recorded.                                                               *)
LEMMA DropSafe ==
    ASSUME TypeOK, PartsSafe, NEW u \in intents, UNCHANGED <<parts, bytes>>,
           intents' = intents \ {u}, queued' \in {queued, queued \cup {u}},
           up' \in {up, [up EXCEPT ![u] = "failed"]}
    PROVE  PartsSafe'
<1> USE MultipartAssumption DEF PartsSafe, TypeOK
<1>1. u \in PartUploads /\ up[u] # "idle" /\ \A n \in Numbers : parts[n] # u
  BY DEF IntentsOpen, PartTypes, UploadTypes
<1>2. IntentsOpen'
  BY Zenon, <1>1 DEF IntentsOpen, PartTypes
<1>3. PathsOwned'
  BY Zenon, <1>1 DEF PathsOwned, PartTypes, UploadTypes
<1>4. RecordedPartsStored'
  BY Zenon, <1>1 DEF RecordedPartsStored
<1> QED BY Zenon, <1>2, <1>3, <1>4

(* The transaction of a part: it takes the place of the part replaced,     *)
(* whose bytes are queued.                                                 *)
LEMMA RecordSafe ==
    ASSUME TypeOK, PartsSafe, NEW u \in intents, up[u] = "sent", recordPartTx(u), UNCHANGED bytes,
           up' \in {[up EXCEPT ![u] = "acked"], [up EXCEPT ![u] = "discarding"]}
    PROVE  PartsSafe'
<1> USE MultipartAssumption DEF PartsSafe, TypeOK
<1> DEFINE r == parts[NumberOf[u]]
<1>1. /\ u \in PartUploads /\ NumberOf[u] \in Numbers /\ u # None
      /\ r # u /\ u \notin queued /\ bytes[u] = u
  BY Zenon DEF IntentsOpen, PartTypes
<1>2. r # None => r \in PartUploads /\ NumberOf[r] = NumberOf[u] /\ r \notin intents /\ up[r] # "idle"
  BY Zenon, <1>1, RecordedOnce DEF PathsOwned
<1>3. /\ parts' = [parts EXCEPT ![NumberOf[u]] = u] /\ intents' = intents \ {u}
      /\ queued' = queued \cup (IF r = None THEN {} ELSE {r})
  BY Zenon DEF recordPartTx
<1> HIDE DEF r
<1>4. IntentsOpen'
  BY <1>1, <1>2, <1>3 DEF IntentsOpen, PartTypes, UploadTypes
<1>5. PathsOwned'
  BY <1>1, <1>2, <1>3 DEF PathsOwned, PartTypes, UploadTypes
<1>6. RecordedPartsStored'
  BY Zenon, <1>1, <1>2, <1>3 DEF RecordedPartsStored, UploadTypes
<1> QED BY Zenon, <1>4, <1>5, <1>6

(* The steps of a part upload keep recorded parts stored.                  *)
LEMMA UploadStepSafe ==
    ASSUME TypeOK, PartsSafe, NEW u \in PartUploads, UploadSteps(u)
    PROVE  PartsSafe'
<1> USE MultipartAssumption DEF PartsSafe, TypeOK
<1>1. CASE UploadPart(u)
  <2>1. u \notin queued /\ parts[NumberOf[u]] # u
    BY Zenon, <1>1 DEF UploadPart, PathsOwned
  <2>2. IntentsOpen'
    BY <1>1, <2>1 DEF UploadPart, UpTo, IntentsOpen, PartTypes
  <2>3. PathsOwned' /\ RecordedPartsStored'
    BY <1>1 DEF UploadPart, UpTo, PathsOwned, RecordedPartsStored, PartTypes, UploadTypes
  <2> QED BY Zenon, <2>2, <2>3
<1>2. CASE PutPart(u) \/ CrashUpload(u)
  <2>1. IntentsOpen'
    BY <1>2 DEF PutPart, CrashUpload, UpTo, IntentsOpen, PartTypes
  <2>2. PathsOwned'
    BY <1>2 DEF PutPart, CrashUpload, UpTo, PathsOwned, PartTypes, UploadTypes
  <2>3. RecordedPartsStored'
    BY <1>2 DEF PutPart, CrashUpload, RecordedPartsStored, PartTypes, UploadTypes
  <2> QED BY Zenon, <2>1, <2>2, <2>3
<1>3. CASE RecordPart(u)
  <2>1. CASE u \in intents /\ recordPartTx(u)
    <3>1. up' \in {[up EXCEPT ![u] = "acked"], [up EXCEPT ![u] = "discarding"]} /\ up[u] = "sent" /\ UNCHANGED bytes
      BY Zenon, <1>3 DEF RecordPart, UpTo
    <3> QED BY Zenon, <2>1, <3>1, RecordSafe
  <2>2. CASE /\ queued' \in {queued, queued \cup {u}} /\ (u \in intents => queued' = queued)
             /\ up' = [up EXCEPT ![u] = "discarding"] /\ UNCHANGED <<parts, intents>>
    <3>1. up[u] = "sent" /\ UNCHANGED bytes /\ \A n \in Numbers : parts[n] # u
      BY Zenon, <1>3 DEF RecordPart, PathsOwned
    <3>2. IntentsOpen'
      BY Zenon, <2>2, <3>1 DEF IntentsOpen, PartTypes
    <3>3. PathsOwned' /\ RecordedPartsStored'
      BY <2>2, <3>1 DEF PathsOwned, RecordedPartsStored, PartTypes, UploadTypes
    <3> QED BY Zenon, <3>2, <3>3
  <2> QED BY Zenon, <1>3, <2>1, <2>2 DEF RecordPart, UpTo
<1>4. CASE Discard(u)
  <2>1. CASE u \in intents /\ dropIntent(u)
    BY Zenon, <1>4, <2>1, DropSafe DEF Discard, dropIntent, UpTo
  <2>2. CASE UNCHANGED <<intents, queued>>
    BY <1>4, <2>2 DEF Discard, UpTo, IntentsOpen, PathsOwned, RecordedPartsStored, PartTypes, UploadTypes
  <2> QED BY Zenon, <1>4, <2>1, <2>2 DEF Discard
<1>5. CASE ProbeIntent(u)
  BY Zenon, <1>5, SafeFrame DEF ProbeIntent
<1>6. CASE ResolveIntent(u)
  <2>1. CASE u \in intents
    BY Zenon, <1>6, <2>1, DropSafe DEF ResolveIntent, dropIntent
  <2>2. CASE u \notin intents
    BY Zenon, <1>6, <2>2, SafeFrame DEF ResolveIntent
  <2> QED BY Zenon, <2>1, <2>2
<1>7. CASE Settle(u)
  BY <1>7 DEF Settle, IntentsOpen, PathsOwned, RecordedPartsStored, PartTypes, UploadTypes
<1> QED BY Zenon, <1>1, <1>2, <1>3, <1>4, <1>5, <1>6, <1>7 DEF UploadSteps, UploadStep, Reap

(* A completion changes the parts only by deleting the upload.             *)
LEMMA CompletionFrame ==
    ASSUME NEW c \in Completions, CompletionSteps(c)
    PROVE  UNCHANGED <<intents, bytes, up, probe>> /\ (UNCHANGED <<parts, queued>> \/ DeleteMultipartUpload)
BY Zenon DEF CompletionSteps, CompletionStep, BeginMultipartCompletion, Fails, CrashCompletion, CollectParts, ReadPart,
   PutAssembled, RecordObject, cleanupCompletedUpload, RenewMultipartCompletion, EndMultipartCompletion

(* Recorded parts keep their bytes at every step.                          *)
LEMMA StepSafe == ASSUME TypeOK, PartsSafe, Next PROVE PartsSafe'
<1>1. CASE RowSteps
  BY Zenon, <1>1, SafeFrame, RemovalSafe DEF RowSteps, CreateMultipartUpload, AbortMultipartUpload, MarkAges
<1>2. ASSUME NEW u \in PartUploads, UploadSteps(u) PROVE PartsSafe'
  BY Zenon, <1>2, UploadStepSafe
<1>3. ASSUME NEW c \in Completions, CompletionSteps(c) PROVE PartsSafe'
  BY Zenon, <1>3, CompletionFrame, SafeFrame, RemovalSafe
<1>4. ASSUME NEW a \in assembled, ResolveAssembly(a) PROVE PartsSafe'
  BY Zenon, <1>4, SafeFrame DEF ResolveAssembly
<1> QED BY Zenon, <1>1, <1>2, <1>3, <1>4, Steps

-----------------------------------------------------------------------------
(* What completions hold, put and record.                                  *)

(* A step of no completion keeps what each holds.                          *)
LEMMA CollectedFrame ==
    ASSUME Collected, UNCHANGED <<stage, manifest, want, got>>
    PROVE  Collected'
BY Zenon DEF Collected, Honours, Fits

(* What one completion holds.                                              *)
Holds(c) ==
    /\ stage[c] \notin {"reading", "put", "removing"} => got[c] = NoParts
    /\ stage[c] \in {"reading", "put", "removing"} =>
          \A n \in Numbers : Fits(manifest[c][n], want[c][n], n) /\ got[c][n] \in {None, want[c][n]}
    /\ stage[c] \in {"put", "removing"} => Honours(manifest[c], got[c])

(* A step of one completion is checked on that one.                        *)
LEMMA HoldsStep ==
    ASSUME TypeOK, Collected, NEW c \in Completions, Holds(c)',
           \A d \in Completions \ {c} : /\ stage'[d] = stage[d] /\ manifest'[d] = manifest[d]
                                        /\ want'[d] = want[d] /\ got'[d] = got[d]
    PROVE  Collected'
BY DEF Collected, Holds, Honours, Fits

(* A completion that returns holds nothing.                                *)
LEMMA ReturnsHolds ==
    ASSUME TypeOK, Collected, NEW c \in Completions, NEW to \in {"ending", "succeeding", "done"}, Returns(c, to)
    PROVE  Collected'
<1>1. stage'[c] = to /\ got'[c] = NoParts
  BY Zenon DEF Returns, StageTo, TypeOK, CompletionTypes
<1>2. Holds(c)'
  BY Zenon, <1>1 DEF Holds
<1> QED BY Zenon, <1>2, HoldsStep DEF Returns, StageTo, TypeOK, CompletionTypes

(* Everything the manifest names was read.                                 *)
LEMMA AllRead ==
    ASSUME Collected, NEW c \in Completions, stage[c] = "reading", Unread(c) = {}
    PROVE  Honours(manifest[c], got[c])
BY DEF Collected, Unread, Named, Honours, Fits

(* A completion holds only parts that fit its manifest.                    *)
LEMMA CompletionHolds ==
    ASSUME TypeOK, PathsOwned, Collected, NEW c \in Completions, CompletionSteps(c)
    PROVE  Collected'
<1> USE MultipartAssumption
<1>1. ASSUME NEW m \in Manifests, BeginMultipartCompletion(c, m) PROVE Collected'
  <2>1. stage'[c] = "begun" /\ got'[c] = NoParts
    BY Zenon, <1>1 DEF BeginMultipartCompletion, StageTo, TypeOK, CompletionTypes, Collected
  <2>2. Holds(c)'
    BY Zenon, <2>1 DEF Holds
  <2> QED BY Zenon, <1>1, <2>2, HoldsStep DEF BeginMultipartCompletion, StageTo, TypeOK, CompletionTypes
<1>2. CASE Fails(c) \/ CrashCompletion(c) \/ cleanupCompletedUpload(c)
  BY Zenon, <1>2, ReturnsHolds DEF Fails, CrashCompletion, cleanupCompletedUpload
<1>3. CASE CollectParts(c)
  <2>1. /\ stage'[c] = "reading" /\ got'[c] = NoParts /\ manifest' = manifest
        /\ want'[c] = [n \in Numbers |-> IF n \in Named(c) THEN parts[n] ELSE None]
    BY Zenon, <1>3 DEF CollectParts, StageTo, TypeOK, CompletionTypes, Collected
  <2>2. ASSUME NEW n \in Numbers PROVE Fits(manifest[c][n], want'[c][n], n) /\ got'[c][n] = None
    <3>1. CASE manifest[c][n] = None
      BY Zenon, <2>1, <3>1 DEF Named, Fits
    <3>2. CASE manifest[c][n] # None
      <4>1. n \in Named(c) /\ want'[c][n] = parts[n] /\ got'[c][n] = None
        BY Zenon, <2>1, <3>2 DEF Named
      <4>2. parts[n] # None /\ manifest[c][n] \in {AnyETag, parts[n]}
        BY Zenon, <1>3, <4>1 DEF CollectParts, matches
      <4>3. NumberOf[parts[n]] = n
        BY Zenon, <4>2 DEF TypeOK, UploadTypes
      <4> QED BY Zenon, <3>2, <4>1, <4>2, <4>3 DEF Fits
    <3> QED BY Zenon, <3>1, <3>2
  <2>3. Holds(c)'
    BY Zenon, <2>1, <2>2 DEF Holds, Fits
  <2> QED BY Zenon, <1>3, <2>3, HoldsStep DEF CollectParts, StageTo, TypeOK, CompletionTypes
<1>4. ASSUME NEW n \in Numbers, ReadPart(c, n) PROVE Collected'
  <2>1. stage[c] = "reading" /\ want[c][n] # None
    BY Zenon, <1>4 DEF ReadPart, Unread, Named, Collected, Fits
  <2>2. want[c][n] \in PartUploads
    BY <2>1 DEF TypeOK, CompletionTypes
  <2>3. bytes[want[c][n]] = want[c][n]
    BY Zenon, <1>4, <2>2 DEF ReadPart, PathsOwned
  <2>4. got' = [got EXCEPT ![c][n] = want[c][n]] /\ UNCHANGED <<stage, manifest, want>>
    BY Zenon, <1>4, <2>3 DEF ReadPart
  <2>5. ASSUME NEW k \in Numbers PROVE got'[c][k] \in {None, want[c][k]}
    BY Zenon, <2>1, <2>4 DEF Collected, TypeOK, CompletionTypes
  <2>6. \A k \in Numbers : Fits(manifest[c][k], want[c][k], k)
    BY Zenon, <2>1 DEF Collected
  <2>7. Holds(c)'
    BY Zenon, <2>1, <2>4, <2>5, <2>6 DEF Holds, Fits
  <2> QED BY Zenon, <2>4, <2>7, HoldsStep DEF TypeOK, CompletionTypes
<1>5. CASE PutAssembled(c)
  <2>1. CASE Returns(c, "ending")
    BY Zenon, <2>1, ReturnsHolds
  <2>2. CASE StageTo(c, "put") /\ UNCHANGED local
    <3>0. stage[c] = "reading" /\ stage'[c] = "put" /\ UNCHANGED <<manifest, want, got>>
      BY Zenon, <1>5, <2>2 DEF PutAssembled, StageTo, TypeOK, CompletionTypes
    <3>1. Holds(c)'
      <4>1. Honours(manifest[c], got[c])
        BY Zenon, <1>5, AllRead DEF PutAssembled
      <4>2. \A n \in Numbers : Fits(manifest[c][n], want[c][n], n) /\ got[c][n] \in {None, want[c][n]}
        BY Zenon, <3>0 DEF Collected
      <4> QED BY Zenon, <3>0, <4>1, <4>2 DEF Holds, Honours, Fits
    <3> QED BY Zenon, <2>2, <3>1, HoldsStep DEF StageTo, TypeOK, CompletionTypes
  <2> QED BY Zenon, <1>5, <2>1, <2>2 DEF PutAssembled
<1>6. CASE RecordObject(c)
  <2>1. CASE Returns(c, "ending")
    BY Zenon, <2>1, ReturnsHolds
  <2>2. CASE StageTo(c, "removing") /\ UNCHANGED local
    <3>0. stage[c] = "put" /\ stage'[c] = "removing" /\ UNCHANGED <<manifest, want, got>>
      BY Zenon, <1>6, <2>2 DEF RecordObject, StageTo, TypeOK, CompletionTypes
    <3>1. Holds(c)'
      BY <3>0 DEF Holds, Collected, Honours, Fits
    <3> QED BY Zenon, <2>2, <3>1, HoldsStep DEF StageTo, TypeOK, CompletionTypes
  <2> QED BY Zenon, <1>6, <2>1, <2>2 DEF RecordObject
<1>7. CASE RenewMultipartCompletion(c)
  BY Zenon, <1>7, CollectedFrame DEF RenewMultipartCompletion
<1>8. CASE EndMultipartCompletion(c)
  <2>1. /\ stage[c] \in {"ending", "succeeding"} /\ stage'[c] \in {"done", "succeeded"}
        /\ UNCHANGED <<manifest, want, got>>
    BY Zenon, <1>8 DEF EndMultipartCompletion, Ending, StageTo, TypeOK, CompletionTypes
  <2>2. Holds(c)'
    BY Zenon, <2>1 DEF Holds, Collected
  <2> QED BY Zenon, <1>8, <2>2, HoldsStep DEF EndMultipartCompletion, StageTo, TypeOK, CompletionTypes
<1> QED BY Zenon, <1>1, <1>2, <1>3, <1>4, <1>5, <1>6, <1>7, <1>8 DEF CompletionSteps, CompletionStep

(* So it is at every step.                                                 *)
LEMMA StepHolds == ASSUME TypeOK, PathsOwned, Collected, Next PROVE Collected'
<1>1. CASE RowSteps
  BY Zenon, <1>1, CollectedFrame DEF RowSteps, CreateMultipartUpload, AbortMultipartUpload, MarkAges
<1>2. ASSUME NEW u \in PartUploads, UploadSteps(u) PROVE Collected'
  BY Zenon, <1>2, CollectedFrame
     DEF UploadSteps, UploadPart, UploadStep, PutPart, RecordPart, Discard, CrashUpload, Reap,
     ProbeIntent, ResolveIntent, Settle
<1>3. ASSUME NEW c \in Completions, CompletionSteps(c) PROVE Collected'
  BY Zenon, <1>3, CompletionHolds
<1>4. ASSUME NEW a \in assembled, ResolveAssembly(a) PROVE Collected'
  BY Zenon, <1>4, CollectedFrame DEF ResolveAssembly
<1> QED BY Zenon, <1>1, <1>2, <1>3, <1>4, Steps

(* What is put and what is recorded is what a completion holds.            *)
LEMMA StepHonours ==
    ASSUME TypeOK, Collected, AssembliesHonour, ObjectIsManifest, Next
    PROVE  AssembliesHonour' /\ ObjectIsManifest'
<1>1. CASE UNCHANGED <<assembled, object>>
  BY Zenon, <1>1 DEF AssembliesHonour, ObjectIsManifest, Honours, Fits
<1>2. ASSUME NEW c \in Completions, PutAssembled(c) PROVE AssembliesHonour' /\ ObjectIsManifest'
  <2>1. Honours(manifest[c], got[c])
    BY Zenon, <1>2, AllRead DEF PutAssembled
  <2>2. Assembly(c)[2] = manifest[c] /\ Assembly(c)[3] = got[c]
    BY Zenon DEF Assembly
  <2>3. assembled' = assembled \cup {Assembly(c)} /\ object' = object
    BY Zenon, <1>2 DEF PutAssembled
  <2> QED BY <2>1, <2>2, <2>3 DEF AssembliesHonour, ObjectIsManifest, Honours, Fits
<1>3. ASSUME NEW c \in Completions, RecordObject(c) PROVE AssembliesHonour' /\ ObjectIsManifest'
  <2>1. Honours(manifest[c], got[c])
    BY Zenon, <1>3 DEF RecordObject, Collected
  <2>2. assembled' \subseteq assembled /\ object' \in {object, <<manifest[c], got[c]>>}
    BY Zenon, <1>3 DEF RecordObject
  <2> QED BY <2>1, <2>2 DEF AssembliesHonour, ObjectIsManifest, Honours, Fits
<1>4. ASSUME NEW a \in assembled, ResolveAssembly(a) PROVE AssembliesHonour' /\ ObjectIsManifest'
  <2>1. assembled' \subseteq assembled /\ object' \in {object, <<a[2], a[3]>>}
    BY Zenon, <1>4 DEF ResolveAssembly
  <2> QED BY <2>1 DEF AssembliesHonour, ObjectIsManifest, Honours, Fits
<1>5. \/ UNCHANGED <<assembled, object>>
      \/ \E c \in Completions : PutAssembled(c) \/ RecordObject(c)
      \/ \E a \in assembled : ResolveAssembly(a)
  BY ZenonT(30)
     DEF Next, UploadPart, UploadStep, PutPart, RecordPart, Discard, CrashUpload, Reap, ProbeIntent,
         ResolveIntent,
     Settle, CreateMultipartUpload, AbortMultipartUpload, MarkAges, CompletionStep, BeginMultipartCompletion, Fails,
     CrashCompletion, CollectParts, ReadPart, cleanupCompletedUpload, RenewMultipartCompletion, EndMultipartCompletion
<1> QED BY Zenon, <1>1, <1>2, <1>3, <1>4, <1>5

-----------------------------------------------------------------------------
(* No part bytes are left to nobody while the reaper waits for uploads.    *)

Recorded(u) == \E n \in Numbers : parts[n] = u

(* Deleting the upload queues the bytes its parts name.                    *)
LEMMA RowNames ==
    ASSUME TypeOK, PartBytesNamed, DeleteMultipartUpload, UNCHANGED <<intents, bytes>>
    PROVE  PartBytesNamed'
<1>1. ASSUME NEW u \in PartUploads, Recorded(u) PROVE u \in RecordedPaths
  BY Zenon, <1>1, MultipartAssumption DEF Recorded, RecordedPaths
<1> QED BY Zenon, <1>1 DEF PartBytesNamed, DeleteMultipartUpload, Recorded

(* A step away from the parts leaves their bytes named.                    *)
LEMMA NamesFrame ==
    ASSUME ReaperWaits, PartBytesNamed, UNCHANGED <<parts, partVars>>
    PROVE  ReaperWaits' /\ PartBytesNamed'
BY Zenon DEF ReaperWaits, PartBytesNamed

(* A step away from the intents leaves the reaper waiting.                 *)
LEMMA WaitsFrame == ASSUME ReaperWaits, UNCHANGED <<intents, bytes, up, probe>> PROVE ReaperWaits'
BY Zenon DEF ReaperWaits

(* Where the reaper waits, an upload's bytes stay named.                   *)
LEMMA UploadNames ==
    ASSUME ~ReaperRaces, TypeOK, PartsSafe, ReaperWaits, PartBytesNamed, NEW u \in PartUploads, UploadSteps(u)
    PROVE  ReaperWaits' /\ PartBytesNamed'
<1> USE MultipartAssumption DEF TypeOK, PartTypes
<1>1. CASE UploadPart(u) \/ PutPart(u) \/ CrashUpload(u)
  <2>1. ReaperWaits'
    BY <1>1 DEF UploadPart, PutPart, CrashUpload, Sending, UpTo, ReaperWaits
  <2>2. PartBytesNamed'
    BY <1>1 DEF UploadPart, PutPart, CrashUpload, ReaperWaits, PartBytesNamed
  <2> QED BY Zenon, <2>1, <2>2
<1>2. CASE RecordPart(u)
  <2>0. up[u] = "sent" /\ u \in intents /\ UNCHANGED <<bytes, probe>>
    BY Zenon, <1>2 DEF RecordPart, ReaperWaits
  <2>1. ReaperWaits'
    BY <1>2, <2>0 DEF RecordPart, recordPartTx, UpTo, ReaperWaits
  <2>2. CASE recordPartTx(u)
    <3>1. /\ intents' = intents \ {u} /\ queued \subseteq queued' /\ parts'[NumberOf[u]] = u
          /\ \A n \in Numbers : parts[n] = parts'[n] \/ parts[n] = None \/ parts[n] \in queued'
      BY Zenon, <2>2 DEF recordPartTx, UploadTypes
    <3> QED BY <2>0, <2>1, <3>1 DEF PartBytesNamed
  <2>3. CASE UNCHANGED <<parts, intents>> /\ queued \subseteq queued'
    BY Zenon, <2>0, <2>1, <2>3 DEF PartBytesNamed
  <2> QED BY Zenon, <1>2, <2>0, <2>2, <2>3 DEF RecordPart
<1>3. CASE Discard(u)
  <2>1. ReaperWaits'
    BY Zenon, <1>3 DEF Discard, dropIntent, UpTo, ReaperWaits
  <2>2. PartBytesNamed'
    BY Zenon, <1>3 DEF Discard, dropIntent, PartBytesNamed
  <2> QED BY Zenon, <2>1, <2>2
<1>4. CASE ProbeIntent(u)
  <2>1. up[u] \in {"acked", "failed"}
    BY Zenon, <1>4 DEF ProbeIntent, Sending, PartsSafe, IntentsOpen
  <2>2. ReaperWaits'
    BY Zenon, <1>4, <2>1 DEF ProbeIntent, ReaperWaits
  <2> QED BY Zenon, <1>4, <2>2 DEF ProbeIntent, PartBytesNamed
<1>5. CASE ResolveIntent(u)
  <2>1. ReaperWaits'
    BY Zenon, <1>5 DEF ResolveIntent, dropIntent, ReaperWaits
  <2>2. PartBytesNamed'
    BY <1>5 DEF ResolveIntent, dropIntent, ReaperWaits, PartBytesNamed
  <2> QED BY Zenon, <2>1, <2>2
<1>6. CASE Settle(u)
  <2>1. u \notin intents /\ up[u] \notin {"sending", "sent"}
    BY Zenon, <1>6 DEF Settle, PartsSafe, IntentsOpen, ReaperWaits
  <2>2. ReaperWaits'
    BY Zenon, <1>6 DEF Settle, ReaperWaits
  <2>3. PartBytesNamed'
    BY Zenon, <1>6 DEF Settle, PartBytesNamed
  <2> QED BY Zenon, <2>2, <2>3
<1> QED BY Zenon, <1>1, <1>2, <1>3, <1>4, <1>5, <1>6 DEF UploadSteps, UploadStep, Reap

(* So it is at every step.                                                 *)
LEMMA StepNames ==
    ASSUME ~ReaperRaces, TypeOK, PartsSafe, ReaperWaits, PartBytesNamed, Next
    PROVE  ReaperWaits' /\ PartBytesNamed'
<1>1. CASE RowSteps
  BY Zenon, <1>1, NamesFrame, WaitsFrame, RowNames DEF RowSteps, CreateMultipartUpload, AbortMultipartUpload, MarkAges
<1>2. ASSUME NEW u \in PartUploads, UploadSteps(u) PROVE ReaperWaits' /\ PartBytesNamed'
  BY Zenon, <1>2, UploadNames
<1>3. ASSUME NEW c \in Completions, CompletionSteps(c) PROVE ReaperWaits' /\ PartBytesNamed'
  BY Zenon, <1>3, CompletionFrame, NamesFrame, WaitsFrame, RowNames
<1>4. ASSUME NEW a \in assembled, ResolveAssembly(a) PROVE ReaperWaits' /\ PartBytesNamed'
  BY Zenon, <1>4, NamesFrame DEF ResolveAssembly
<1> QED BY Zenon, <1>1, <1>2, <1>3, <1>4, Steps

-----------------------------------------------------------------------------
(* One completion at a time, where completions renew in time.              *)

Held == OneHolder /\ PartsHeldWhileRead

(* A step away from the mark and the completions keeps the hold.           *)
LEMMA HeldFrame ==
    ASSUME Held, UNCHANGED <<row, mark, parts, stage, manifest, want, got>>
    PROVE  Held'
BY Zenon DEF Held, OneHolder, PartsHeldWhileRead, Running, Unread, Named

(* Without a fresh mark on an open upload nothing runs.                    *)
LEMMA IdleUpload ==
    ASSUME OneHolder, row = "open", mark # "fresh", NEW c \in Completions
    PROVE  ~Running(c)
BY Zenon DEF OneHolder

(* Nothing that reads sees a change that needs the upload idle.            *)
LEMMA IdleHeld ==
    ASSUME TypeOK, Held, row = "open", mark # "fresh", UNCHANGED stage, row' \in {"open", "gone"}
    PROVE  Held'
<1>1. \A c \in Completions : ~Running(c)
  BY Zenon, IdleUpload DEF Held
<1> QED BY Zenon, <1>1 DEF Held, OneHolder, PartsHeldWhileRead, Running, Renewing, Ending

(* Create, abort and the ageing mark keep the hold.                        *)
LEMMA RowHeld == ASSUME ~SlowHolders, TypeOK, Held, RowSteps PROVE Held'
<1>1. CASE CreateMultipartUpload
  <2>1. \A c \in Completions : stage[c] = "idle"
    BY Zenon, <1>1 DEF CreateMultipartUpload, Held, OneHolder
  <2> QED BY Zenon, <1>1, <2>1 DEF CreateMultipartUpload, Held, OneHolder, PartsHeldWhileRead, Running, Renewing, Ending
<1>2. CASE AbortMultipartUpload
  BY Zenon, <1>2, IdleHeld DEF AbortMultipartUpload, DeleteMultipartUpload, lockUploadIdle
<1>3. CASE MarkAges
  <2>1. \A c \in Completions : ~Running(c)
    BY Zenon, <1>3 DEF MarkAges
  <2> QED BY Zenon, <1>3, <2>1 DEF MarkAges, Held, OneHolder, PartsHeldWhileRead, Running, Renewing, Ending
<1> QED BY Zenon, <1>1, <1>2, <1>3 DEF RowSteps

(* Recording a part leaves the hold of a completion.                       *)
LEMMA UploadHeld == ASSUME TypeOK, Held, NEW u \in PartUploads, UploadSteps(u) PROVE Held'
<1>1. CASE RecordPart(u)
  <2>1. UNCHANGED parts \/ (row = "open" /\ mark # "fresh")
    BY Zenon, <1>1 DEF RecordPart, lockUploadIdle
  <2> QED BY Zenon, <1>1, <2>1, HeldFrame, IdleHeld DEF RecordPart
<1>2. CASE UNCHANGED parts
  BY Zenon, <1>2, HeldFrame DEF UploadSteps, UploadPart, UploadStep, PutPart, RecordPart, Discard, CrashUpload, Reap,
     ProbeIntent, ResolveIntent, Settle
<1> QED BY Zenon, <1>1, <1>2 DEF UploadSteps, UploadPart, UploadStep, PutPart, Discard, CrashUpload, Reap,
     ProbeIntent, ResolveIntent, Settle

(* A completion that runs, and its new stage runs on or is over: the mark  *)
(* it holds is fresh, or it was the only one.                              *)
LEMMA RunningHeld ==
    ASSUME TypeOK, OneHolder, NEW c \in Completions, Running(c), NEW to \in Stages, StageTo(c, to),
           row' = row \/ (stage[c] \in Renewing /\ row' = "gone" /\ to \notin Renewing),
           to \in Renewing => row' = "open",
           to \in Renewing \cup Ending /\ row' = "open" => mark' = "fresh"
    PROVE  OneHolder'
<1>1. \A d \in Completions : d # c => ~Running(d) /\ stage'[d] = stage[d]
  BY Zenon DEF OneHolder, StageTo, TypeOK, CompletionTypes
<1>2. stage'[c] = to
  BY Zenon DEF StageTo, TypeOK, CompletionTypes
<1>3. row # "none" /\ row' # "none"
  BY Zenon DEF OneHolder, Running, Renewing, Ending
<1>4. \A d \in Completions : Running(d)' => d = c
  BY Zenon, <1>1 DEF Running
<1> QED BY Zenon, <1>2, <1>3, <1>4 DEF OneHolder, Running

(* A reading completion sees the same parts while they are left alone.     *)
LEMMA OthersRead ==
    ASSUME TypeOK, Held, NEW c \in Completions, Running(c),
           \A d \in Completions \ {c} : stage'[d] = stage[d],
           stage'[c] = "reading" => \A n \in Unread(c)' : parts'[n] = want'[c][n]
    PROVE  PartsHeldWhileRead'
<1>1. \A d \in Completions : d # c => stage'[d] # "reading"
  BY Zenon DEF Held, OneHolder, Running, Renewing
<1> QED BY Zenon, <1>1 DEF PartsHeldWhileRead

(* A completion reads under its own mark.                                  *)
LEMMA CompletionHeld ==
    ASSUME ~SlowHolders, TypeOK, Collected, Held, NEW c \in Completions, CompletionSteps(c)
    PROVE  Held'
<1> USE MultipartAssumption
<1>0. {"done", "succeeded", "begun", "reading", "put", "removing", "ending", "succeeding"} \subseteq Stages
  BY Zenon DEF Stages, Renewing, Ending
<1>1. ASSUME NEW m \in Manifests, BeginMultipartCompletion(c, m) PROVE Held'
  <2>1. \A d \in Completions : ~Running(d)
    BY Zenon, <1>1, IdleUpload DEF BeginMultipartCompletion, Held
  <2>2. \A d \in Completions : stage'[d] = IF d = c THEN "begun" ELSE stage[d]
    BY Zenon, <1>1 DEF BeginMultipartCompletion, StageTo, TypeOK, CompletionTypes
  <2>3. row' = "open" /\ mark' = "fresh"
    BY Zenon, <1>1 DEF BeginMultipartCompletion
  <2>4. OneHolder'
    BY Zenon, <2>1, <2>2, <2>3 DEF OneHolder, Running, Renewing, Ending
  <2>5. \A d \in Completions : stage'[d] # "reading"
    BY Zenon, <2>1, <2>2 DEF Running, Renewing
  <2> QED BY Zenon, <2>4, <2>5 DEF Held, PartsHeldWhileRead
<1>2. ASSUME NEW to \in {"ending", "succeeding", "done", "put", "removing", "succeeded", "reading"},
             StageTo(c, to), Running(c), UNCHANGED row, UNCHANGED mark \/ to \in {"done", "succeeded"},
             to \in {"put", "removing", "reading"} => stage[c] \in Renewing,
             to = "reading" => \A n \in Unread(c)' : parts'[n] = want'[c][n]
      PROVE  Held'
  <2>1. OneHolder'
    BY Zenon, <1>0, <1>2, RunningHeld DEF Held, OneHolder, Renewing, Ending
  <2>2. PartsHeldWhileRead'
    BY Zenon, <1>2, OthersRead DEF StageTo, TypeOK, CompletionTypes
  <2> QED BY Zenon, <2>1, <2>2 DEF Held
<1>3. CASE Fails(c)
  BY Zenon, <1>2, <1>3 DEF Fails, Returns, Running
<1>4. CASE CrashCompletion(c)
  BY Zenon, <1>2, <1>4 DEF CrashCompletion, Returns
<1>5. CASE CollectParts(c)
  <2>1. \A n \in Unread(c)' : parts'[n] = want'[c][n]
    BY Zenon, <1>5 DEF CollectParts, Unread, Named, TypeOK, CompletionTypes
  <2> QED BY Zenon, <1>2, <1>5, <2>1 DEF CollectParts, Running, Renewing
<1>6. ASSUME NEW n \in Numbers, ReadPart(c, n) PROVE Held'
  <2>1. OneHolder'
    BY Zenon, <1>6 DEF ReadPart, Held, OneHolder, Running
  <2>2. Unread(c)' \subseteq Unread(c)
    <3>1. bytes[want[c][n]] # None /\ \A k \in Numbers : k # n => got'[c][k] = got[c][k]
      BY Zenon, <1>6 DEF ReadPart, TypeOK, CompletionTypes
    <3>2. got'[c][n] # None
      BY Zenon, <1>6 DEF ReadPart, TypeOK, CompletionTypes
    <3> QED BY Zenon, <1>6, <3>1, <3>2 DEF ReadPart, Unread, Named
  <2>3. \A k \in Unread(c)' : parts'[k] = want'[c][k]
    BY Zenon, <1>6, <2>2 DEF ReadPart, Held, PartsHeldWhileRead
  <2>4. PartsHeldWhileRead'
    BY Zenon, <1>6, <2>3, OthersRead DEF ReadPart, Running, Renewing
  <2> QED BY Zenon, <2>1, <2>4 DEF Held
<1>7. CASE PutAssembled(c)
  BY Zenon, <1>2, <1>7 DEF PutAssembled, Returns, Running, Renewing
<1>8. CASE RecordObject(c)
  BY Zenon, <1>2, <1>8 DEF RecordObject, Returns, Running, Renewing
<1>9. CASE cleanupCompletedUpload(c)
  <2>1. stage[c] = "removing" /\ Running(c) /\ StageTo(c, "succeeding") /\ stage' = [stage EXCEPT ![c] = "succeeding"]
    BY Zenon, <1>9 DEF cleanupCompletedUpload, Returns, Running, Renewing, StageTo
  <2>2. UNCHANGED <<row, mark>> \/ row' = "gone"
    BY Zenon, <1>9 DEF cleanupCompletedUpload, DeleteMultipartUpload
  <2>3. row = "open" => mark = "fresh"
    BY Zenon, <2>1 DEF Held, OneHolder
  <2>4. OneHolder'
    BY Zenon, <1>0, <2>1, <2>2, <2>3, RunningHeld DEF Held, Renewing
  <2>5. PartsHeldWhileRead'
    BY Zenon, <2>1, OthersRead DEF TypeOK, CompletionTypes
  <2> QED BY Zenon, <2>4, <2>5 DEF Held
<1>10. CASE RenewMultipartCompletion(c)
  BY Zenon, <1>10 DEF RenewMultipartCompletion, Held, OneHolder, PartsHeldWhileRead, Running, Unread, Named
<1>11. CASE EndMultipartCompletion(c)
  BY Zenon, <1>2, <1>11 DEF EndMultipartCompletion, Running
<1> QED BY Zenon, <1>1, <1>3, <1>4, <1>5, <1>6, <1>7, <1>8, <1>9, <1>10, <1>11 DEF CompletionSteps, CompletionStep

(* So it is at every step.                                                 *)
LEMMA StepHeld == ASSUME ~SlowHolders, TypeOK, Collected, Held, Next PROVE Held'
<1>1. ASSUME NEW a \in assembled, ResolveAssembly(a) PROVE Held'
  BY Zenon, <1>1, HeldFrame DEF ResolveAssembly
<1> QED BY Zenon, <1>1, Steps, RowHeld, UploadHeld, CompletionHeld

-----------------------------------------------------------------------------
(* PartInv holds at the start and every step keeps it.                     *)
LEMMA InitInv == Init => PartInv
<1> SUFFICES ASSUME Init PROVE PartInv
  OBVIOUS
<1>1. TypeOK
  BY Zenon, MultipartAssumption DEF Init, TypeOK, UploadTypes, PartTypes, CompletionTypes, AssemblyTypes, Stages
<1>2. IntentsOpen /\ PathsOwned /\ RecordedPartsStored /\ ReaperWaits /\ PartBytesNamed
  BY Zenon, MultipartAssumption DEF Init, IntentsOpen, PathsOwned, RecordedPartsStored, ReaperWaits, PartBytesNamed
<1>3. Collected /\ AssembliesHonour /\ ObjectIsManifest
  BY Zenon DEF Init, Collected, AssembliesHonour, ObjectIsManifest
<1>4. OneHolder /\ PartsHeldWhileRead
  BY Zenon DEF Init, OneHolder, PartsHeldWhileRead, Running, Renewing, Ending
<1> QED BY Zenon, <1>1, <1>2, <1>3, <1>4 DEF PartInv

(* Every step keeps the invariant.                                         *)
LEMMA StepInv == PartInv /\ [Next]_vars => PartInv'
<1> SUFFICES ASSUME PartInv, [Next]_vars PROVE PartInv'
  OBVIOUS
<1>1. CASE Next
  <2>1. TypeOK'
    BY Zenon, <1>1, Types DEF PartInv
  <2>2. IntentsOpen' /\ PathsOwned' /\ RecordedPartsStored'
    BY Zenon, <1>1, StepSafe DEF PartInv, PartsSafe
  <2>3. Collected' /\ AssembliesHonour' /\ ObjectIsManifest'
    BY Zenon, <1>1, StepHolds, StepHonours DEF PartInv
  <2>4. ~ReaperRaces => ReaperWaits' /\ PartBytesNamed'
    BY Zenon, <1>1, StepNames DEF PartInv, PartsSafe
  <2>5. ~SlowHolders => OneHolder' /\ PartsHeldWhileRead'
    BY Zenon, <1>1, StepHeld DEF PartInv, Held
  <2> QED BY Zenon, <2>1, <2>2, <2>3, <2>4, <2>5 DEF PartInv
<1>2. CASE UNCHANGED vars
  <2>1. TypeOK'
    BY Zenon, <1>2, Frames DEF vars, PartInv, TypeOK
  <2>2. IntentsOpen' /\ PathsOwned' /\ RecordedPartsStored'
    BY Zenon, <1>2, SafeFrame DEF vars, PartInv, PartsSafe
  <2>3. Collected'
    BY Zenon, <1>2, CollectedFrame DEF vars, PartInv
  <2>4. AssembliesHonour' /\ ObjectIsManifest'
    BY Zenon, <1>2 DEF vars, PartInv, AssembliesHonour, ObjectIsManifest, Honours, Fits
  <2>5. ~ReaperRaces => ReaperWaits' /\ PartBytesNamed'
    BY Zenon, <1>2, NamesFrame DEF vars, PartInv
  <2>6. ~SlowHolders => OneHolder' /\ PartsHeldWhileRead'
    BY Zenon, <1>2, HeldFrame DEF vars, PartInv, Held
  <2> QED BY Zenon, <2>1, <2>2, <2>3, <2>4, <2>5, <2>6 DEF PartInv
<1> QED BY Zenon, <1>1, <1>2

(* The inductive invariant of an upload: what an intent, a path, a mark    *)
(* and a completion in flight stand for (recordPartTx, lockUploadIdle,     *)
(* BeginMultipartCompletion, resolveCompanion).                            *)
THEOREM PartInvariance == Spec => []PartInv
BY InitInv, StepInv, PTL DEF Spec

(* The object recorded under the key is the parts of its manifest, with    *)
(* slow completions, races of the reaper and lost answers alike            *)
(* (completeMultipartUploadLocked).                                        *)
THEOREM ManifestHonoured == Spec => []ObjectIsManifest
<1>1. PartInv => ObjectIsManifest
  BY Zenon DEF PartInv
<1> QED BY <1>1, PartInvariance, PTL

(* A recorded part has its bytes, which no cleanup row names, however slow *)
(* completions are and whatever the reaper races with (recordPartTx,       *)
(* DiscardPending).                                                        *)
THEOREM RecordedPartsKept == Spec => []RecordedPartsStored
<1>1. PartInv => RecordedPartsStored
  BY Zenon DEF PartInv
<1> QED BY <1>1, PartInvariance, PTL

(* Where completions renew their marks in time and the reaper's minimum    *)
(* age outlasts an upload, parts stay recorded until they are read and no  *)
(* part bytes are left to nobody (lockUploadIdle, completionGrace).        *)
THEOREM PartsAreKept ==
    ASSUME ~SlowHolders, ~ReaperRaces
    PROVE  Spec => []PartsKept
<1>1. PartInv => PartsKept
  BY Zenon DEF PartInv, PartsKept
<1> QED BY <1>1, PartInvariance, PTL
=============================================================================
