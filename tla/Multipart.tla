----------------------------- MODULE Multipart -----------------------------
(***************************************************************************)
(* The life of one multipart upload: parts uploaded and re-uploaded by     *)
(* number, completions that assemble them under a completion mark, aborts  *)
(* and the stale sweep, with the pending reaper and the cleanup of part    *)
(* bytes.  Several instances act on the upload at once; a store operation  *)
(* is one transaction and one action, every backend call is a step of its  *)
(* own.                                                                    *)
(*                                                                         *)
(* A part upload writes bytes at a path of its own and they are known by   *)
(* the upload's name.  The completion mark is a heartbeat time on the      *)
(* upload row; the code only asks whether it is there, whether it is older *)
(* than the grace, and whether it was renewed since a completion began to  *)
(* remove its parts, so the mark is none, fresh or stale.                  *)
(***************************************************************************)
EXTENDS Integers, FiniteSets

CONSTANTS
    Numbers,      \* part numbers
    PartUploads,  \* UploadPart calls
    NumberOf,     \* the part number each is for
    Completions,  \* CompleteMultipartUpload calls
    SlowHolders,  \* TRUE: a live completion may let its mark go stale
    ReaperRaces,  \* TRUE: the reaper may act on an upload still running
    None,
    AnyETag       \* a manifest entry whose ETag the client omitted

ASSUME MultipartAssumption ==
    /\ Numbers \subseteq Nat
    /\ NumberOf \in [PartUploads -> Numbers]
    /\ None \notin PartUploads /\ AnyETag \notin PartUploads /\ None # AnyETag
    /\ SlowHolders \in BOOLEAN /\ ReaperRaces \in BOOLEAN

VARIABLES
    row,       \* the multipart_uploads row: none, open or gone
    mark,      \* its completion_heartbeat_at: none, fresh or stale
    parts,     \* multipart_parts: number -> the upload recorded, or None
    intents,   \* pending_objects of part uploads
    queued,    \* cleanup_queue rows of part bytes, by path
    bytes,     \* path -> the upload whose bytes it holds, or None
    up,        \* part upload -> its progress
    probe,     \* part intent -> what the reaper's HEAD said
    stage,     \* completion -> its progress
    manifest,  \* completion -> number -> ETag named, AnyETag or None
    want,      \* completion -> number -> the part row it collected
    got,       \* completion -> number -> the bytes it has read
    beaten,    \* completions whose mark was renewed since they took the time
    assembled, \* <<completion, manifest, bytes>>: stored, under an intent
    object     \* <<manifest, bytes>> recorded under the key, or None

uploadVars == <<row, mark, parts>>
partVars == <<intents, queued, bytes, up, probe>>
local == <<manifest, want, got, beaten>>
completionVars == <<stage, local, assembled, object>>
vars == <<uploadVars, partVars, completionVars>>

NoParts == [n \in Numbers |-> None]

Init ==
    /\ row = "none" /\ mark = "none" /\ parts = NoParts
    /\ intents = {} /\ queued = {}
    /\ bytes = [u \in PartUploads |-> None]
    /\ up = [u \in PartUploads |-> "idle"]
    /\ probe = [u \in PartUploads |-> "none"]
    /\ stage = [c \in Completions |-> "idle"]
    /\ manifest = [c \in Completions |-> NoParts]
    /\ want = [c \in Completions |-> NoParts]
    /\ got = [c \in Completions |-> NoParts]
    /\ beaten = {} /\ assembled = {} /\ object = None

CreateMultipartUpload ==
    /\ row = "none"
    /\ row' = "open"
    /\ UNCHANGED <<mark, parts, partVars, completionVars>>

-----------------------------------------------------------------------------
(* Uploading a part.                                                       *)

Sending(u) == up[u] \in {"sending", "sent", "discarding"}
UpTo(u, to) == up' = [up EXCEPT ![u] = to]

(* The storage key an intent mints: a path no other upload uses.           *)
StorageKey(u) == u

RecordedPaths == {StorageKey(parts[n]) : n \in {m \in Numbers : parts[m] # None}}

(* Up to the claim of the upload's backend.                                *)
UploadPart(u) ==
    /\ up[u] = "idle"
    /\ row = "open"
    /\ intents' = intents \cup {u}
    /\ UpTo(u, "sending")
    /\ UNCHANGED <<uploadVars, queued, bytes, probe, completionVars>>

(* The PUT lands, or answers an error whether or not it landed.            *)
PutPart(u) ==
    /\ up[u] = "sending"
    /\ \/ bytes' = [bytes EXCEPT ![StorageKey(u)] = u] /\ UpTo(u, "sent")
       \/ bytes' = [bytes EXCEPT ![StorageKey(u)] = u] /\ UpTo(u, "discarding")
       \/ UNCHANGED bytes /\ UpTo(u, "discarding")
    /\ UNCHANGED <<uploadVars, intents, queued, probe, completionVars>>

(* Mutant: a mark whose completion died is never ignored.                  *)
uploadUnmarked == mark = "none"

(* Under the row lock: no completion renewed its mark within the grace.    *)
lockUploadIdle == mark # "fresh"

(* The transaction of a part that is taken.                                *)
recordPartTx(u) ==
    LET replaced == parts[NumberOf[u]]
    IN  /\ parts' = [parts EXCEPT ![NumberOf[u]] = u]
        /\ intents' = intents \ {u}
        /\ queued' = queued \cup (IF replaced = None THEN {} ELSE {StorageKey(replaced)})

(* Refused while a completion holds the mark or once the upload is gone;   *)
(* an intent the reaper took means the bytes are queued; an error of the   *)
(* store leaves nothing, or a commit whose answer is lost.                 *)
RecordPart(u) ==
    /\ up[u] = "sent"
    /\ \/ /\ row = "open" /\ lockUploadIdle /\ u \in intents
          /\ recordPartTx(u)
          /\ up' \in {[up EXCEPT ![u] = "acked"], [up EXCEPT ![u] = "discarding"]}
       \/ /\ row = "open" /\ lockUploadIdle /\ u \notin intents
          /\ queued' = queued \cup {StorageKey(u)}
          /\ UpTo(u, "discarding")
          /\ UNCHANGED <<parts, intents>>
       \/ /\ UpTo(u, "discarding")
          /\ UNCHANGED <<parts, intents, queued>>
    /\ UNCHANGED <<row, mark, bytes, probe, completionVars>>

(* An intent drops with its bytes queued, in one transaction.              *)
dropIntent(u) ==
    /\ intents' = intents \ {u}
    /\ queued' = queued \cup {StorageKey(u)}

(* Mutant: the bytes are queued whoever resolved the intent.               *)
DiscardBlindly(u) ==
    /\ up[u] = "discarding"
    /\ dropIntent(u)
    /\ UpTo(u, "failed")
    /\ UNCHANGED <<uploadVars, bytes, probe, completionVars>>

(* An intent already gone was resolved by whoever removed it; a discard    *)
(* that fails leaves it to the reaper.                                     *)
Discard(u) ==
    /\ up[u] = "discarding"
    /\ \/ u \in intents /\ dropIntent(u)
       \/ UNCHANGED <<intents, queued>>
    /\ UpTo(u, "failed")
    /\ UNCHANGED <<uploadVars, bytes, probe, completionVars>>

CrashUpload(u) ==
    /\ Sending(u)
    /\ UpTo(u, "failed")
    /\ UNCHANGED <<uploadVars, intents, queued, bytes, probe, completionVars>>

(* The reaper: HEAD, then drop; a part intent is a companion, which is     *)
(* never promoted.                                                         *)
ProbeIntent(u) ==
    /\ u \in intents /\ probe[u] = "none"
    /\ ReaperRaces \/ ~Sending(u)
    /\ probe' = [probe EXCEPT ![u] = IF bytes[StorageKey(u)] = None THEN "missing" ELSE "found"]
    /\ UNCHANGED <<uploadVars, intents, queued, bytes, up, completionVars>>

(* A dropped 404 intent queues nothing; a companion that was recorded or   *)
(* resolved in the meantime is left alone.                                 *)
ResolveIntent(u) ==
    /\ probe[u] # "none"
    /\ IF u \in intents
       THEN IF probe[u] = "found" THEN dropIntent(u)
                                  ELSE intents' = intents \ {u} /\ UNCHANGED queued
       ELSE UNCHANGED <<intents, queued>>
    /\ probe' = [probe EXCEPT ![u] = "none"]
    /\ UNCHANGED <<uploadVars, bytes, up, completionVars>>

(* CleanupQueue has the steps of a settle.                                 *)
Settle(p) ==
    /\ p \in queued
    /\ queued' = queued \ {p}
    /\ bytes' = [bytes EXCEPT ![p] = None]
    /\ UNCHANGED <<uploadVars, intents, up, probe, completionVars>>

-----------------------------------------------------------------------------
(* Removing the upload.                                                    *)

(* The rows go and every part's bytes are queued, in one transaction.      *)
DeleteMultipartUpload ==
    /\ row' = "gone" /\ mark' = "none"
    /\ parts' = NoParts
    /\ queued' = queued \cup RecordedPaths

(* A client's abort, the stale sweep, or the drain of its backend.         *)
AbortMultipartUpload ==
    /\ row = "open"
    /\ lockUploadIdle
    /\ DeleteMultipartUpload
    /\ UNCHANGED <<intents, bytes, up, probe, completionVars>>

-----------------------------------------------------------------------------
(* Completing it.                                                          *)

Renewing == {"begun", "reading", "put", "removing"}
Ending == {"ending", "succeeding"}
Running(c) == stage[c] \in Renewing \cup Ending
StageTo(c, to) == stage' = [stage EXCEPT ![c] = to]

(* A manifest names parts the client uploaded, each with the ETag it was   *)
(* given or without.                                                       *)
Manifests ==
    {m \in [Numbers -> {u \in PartUploads : up[u] # "idle"} \cup {None, AnyETag}] :
        /\ m # NoParts
        /\ \A n \in Numbers : m[n] \in PartUploads => NumberOf[m[n]] = n}

BeginMultipartCompletion(c, m) ==
    /\ stage[c] = "idle"
    /\ row = "open"
    /\ mark # "fresh"
    /\ mark' = "fresh"
    /\ StageTo(c, "begun")
    /\ manifest' = [manifest EXCEPT ![c] = m]
    /\ UNCHANGED <<row, parts, partVars, want, got, beaten, assembled, object>>

(* complete returns, and what it held in memory goes.                      *)
Returns(c, to) ==
    /\ StageTo(c, to)
    /\ manifest' = [manifest EXCEPT ![c] = NoParts]
    /\ want' = [want EXCEPT ![c] = NoParts]
    /\ got' = [got EXCEPT ![c] = NoParts]
    /\ beaten' = beaten \ {c}

(* After an error of a call, a cancelled context or a lost mark; once the  *)
(* object is recorded the client is told of success all the same.          *)
Fails(c) ==
    /\ stage[c] \in Renewing
    /\ Returns(c, IF stage[c] = "removing" THEN "succeeding" ELSE "ending")
    /\ UNCHANGED <<uploadVars, partVars, assembled, object>>

(* collectRequestedParts and validateManifestAgainstStored, for one entry. *)
matches(entry, part) == part # None /\ entry \in {AnyETag, part}

Named(c) == {n \in Numbers : manifest[c][n] # None}

CollectParts(c) ==
    /\ stage[c] = "begun"
    /\ row = "open"
    /\ \A n \in Named(c) : matches(manifest[c][n], parts[n])
    /\ want' = [want EXCEPT ![c] = [n \in Numbers |-> IF n \in Named(c) THEN parts[n] ELSE None]]
    /\ StageTo(c, "reading")
    /\ UNCHANGED <<uploadVars, partVars, manifest, got, beaten, assembled, object>>

Unread(c) == {n \in Named(c) : got[c][n] = None}

(* Parts are streamed in order; one whose bytes are gone fails the PUT.    *)
ReadPart(c, n) ==
    /\ stage[c] = "reading"
    /\ n \in Unread(c) /\ \A k \in Unread(c) : n <= k
    /\ bytes[StorageKey(want[c][n])] # None
    /\ got' = [got EXCEPT ![c][n] = bytes[StorageKey(want[c][n])]]
    /\ UNCHANGED <<uploadVars, partVars, stage, manifest, want, beaten, assembled, object>>

Assembly(c) == <<c, manifest[c], got[c]>>

(* The PUT ends when every part was read; one that answers an error may    *)
(* have landed, and leaves its intent to the reaper.                       *)
PutAssembled(c) ==
    /\ stage[c] = "reading"
    /\ Unread(c) = {}
    /\ assembled' = assembled \cup {Assembly(c)}
    /\ \/ StageTo(c, "put") /\ UNCHANGED local
       \/ Returns(c, "ending")
    /\ UNCHANGED <<uploadVars, partVars, object>>

(* Mutant: any assembled object of the key is taken for the completion's.  *)
RecordObjectOfKey(c) ==
    /\ stage[c] = "put"
    /\ StageTo(c, "removing") /\ UNCHANGED local
    /\ \E a \in assembled : assembled' = assembled \ {a} /\ object' = <<manifest[c], a[3]>>
    /\ UNCHANGED <<uploadVars, partVars>>

(* One transaction; an overtaken write records nothing and succeeds, and a *)
(* commit may be reported as an error.  The time the removal passes to     *)
(* the store is taken as the commit returns.                               *)
RecordObject(c) ==
    /\ stage[c] = "put"
    /\ \/ StageTo(c, "removing") /\ UNCHANGED local
       \/ Returns(c, "ending")
    /\ IF Assembly(c) \in assembled
       THEN /\ assembled' = assembled \ {Assembly(c)}
            /\ object' = <<manifest[c], got[c]>>
       ELSE UNCHANGED <<assembled, object>>
    /\ UNCHANGED <<uploadVars, partVars>>

(* The reaper promotes the assembled object of a completion that gave up,  *)
(* or another write of the key supersedes it at any moment.                *)
ResolveAssembly(a) ==
    /\ assembled' = assembled \ {a}
    /\ \/ UNCHANGED object
       \/ (ReaperRaces \/ ~Running(a[1])) /\ object' = <<a[2], a[3]>>
    /\ UNCHANGED <<uploadVars, partVars, stage, local>>

(* Refused when the mark was renewed after that time, by its own           *)
(* completion as well; the upload is then left to the stale sweep.         *)
cleanupCompletedUpload(c) ==
    /\ stage[c] = "removing"
    /\ IF row = "open" /\ (mark = "none" \/ c \notin beaten)
       THEN DeleteMultipartUpload
       ELSE UNCHANGED <<uploadVars, queued>>
    /\ Returns(c, "succeeding")
    /\ UNCHANGED <<intents, bytes, up, probe, assembled, object>>

(* The renewal goroutine: the statement names the upload only, so it       *)
(* renews whichever mark is there; a mark gone cancels the completion.     *)
RenewMultipartCompletion(c) ==
    /\ stage[c] \in Renewing
    /\ row = "open" /\ mark # "none"
    /\ mark' = "fresh"
    /\ beaten' = beaten \cup {d \in Completions : stage[d] = "removing"}
    /\ UNCHANGED <<row, parts, partVars, stage, manifest, want, got, assembled, object>>

(* Clears whichever mark is there, or fails and leaves it to go stale;     *)
(* then the client is answered.                                            *)
EndMultipartCompletion(c) ==
    /\ stage[c] \in Ending
    /\ mark' \in {mark, "none"}
    /\ StageTo(c, IF stage[c] = "succeeding" THEN "succeeded" ELSE "done")
    /\ UNCHANGED <<row, parts, partVars, local, assembled, object>>

CrashCompletion(c) ==
    /\ Running(c)
    /\ Returns(c, "done")
    /\ UNCHANGED <<uploadVars, partVars, assembled, object>>

(* completionGrace passes without a renewal: every completion that could   *)
(* renew the mark died, or is too slow to.                                 *)
MarkAges ==
    /\ mark = "fresh"
    /\ SlowHolders \/ \A c \in Completions : ~Running(c)
    /\ mark' = "stale"
    /\ UNCHANGED <<row, parts, partVars, completionVars>>

-----------------------------------------------------------------------------
UploadStep(u) == PutPart(u) \/ RecordPart(u) \/ Discard(u)
Reap(u) == ProbeIntent(u) \/ ResolveIntent(u)
CompletionStep(c) ==
    \/ Fails(c) \/ CollectParts(c) \/ \E n \in Numbers : ReadPart(c, n)
    \/ PutAssembled(c) \/ RecordObject(c)
    \/ cleanupCompletedUpload(c) \/ EndMultipartCompletion(c)

Next ==
    \/ CreateMultipartUpload
    \/ \E u \in PartUploads : UploadPart(u) \/ UploadStep(u) \/ CrashUpload(u) \/ Reap(u) \/ Settle(u)
    \/ AbortMultipartUpload \/ MarkAges
    \/ \E c \in Completions :
          \/ \E m \in Manifests : BeginMultipartCompletion(c, m)
          \/ CompletionStep(c) \/ RenewMultipartCompletion(c)
          \/ CrashCompletion(c)
    \/ \E a \in assembled : ResolveAssembly(a)

Spec == Init /\ [][Next]_vars

-----------------------------------------------------------------------------
Stages == {"idle", "done", "succeeded"} \cup Renewing \cup Ending
PartSet == PartUploads \cup {None}

UploadTypes ==
    /\ row \in {"none", "open", "gone"} /\ mark \in {"none", "fresh", "stale"}
    /\ parts \in [Numbers -> PartSet]
    /\ \A n \in Numbers : parts[n] # None => NumberOf[parts[n]] = n
    /\ row # "open" => parts = NoParts /\ mark = "none"
PartTypes ==
    /\ intents \subseteq PartUploads /\ queued \subseteq PartUploads
    /\ bytes \in [PartUploads -> PartSet]
    /\ up \in [PartUploads -> {"idle", "sending", "sent", "discarding", "acked", "failed"}]
    /\ probe \in [PartUploads -> {"none", "found", "missing"}]
CompletionTypes ==
    /\ stage \in [Completions -> Stages]
    /\ manifest \in [Completions -> [Numbers -> PartSet \cup {AnyETag}]]
    /\ want \in [Completions -> [Numbers -> PartSet]]
    /\ got \in [Completions -> [Numbers -> PartSet]]
    /\ beaten \subseteq Completions
AssemblyTypes ==
    /\ assembled \subseteq Completions \X [Numbers -> PartSet \cup {AnyETag}] \X [Numbers -> PartSet]
    /\ object \in {None} \cup ([Numbers -> PartSet \cup {AnyETag}] \X [Numbers -> PartSet])

(* The shape of the state; a removed upload has no parts and no mark       *)
(* (DeleteMultipartUpload), and a part is recorded under its own number.   *)
TypeOK == UploadTypes /\ PartTypes /\ CompletionTypes /\ AssemblyTypes

(* A part of number n for a manifest's entry: of that number and with the  *)
(* ETag named, and none where the manifest names none.                     *)
Fits(entry, part, n) ==
    IF entry = None THEN part = None
    ELSE part # None /\ NumberOf[part] = n /\ entry \in {AnyETag, part}
Honours(m, g) == \A n \in Numbers : Fits(m[n], g[n], n)

(* The object a completion records is the parts its manifest named, each   *)
(* with the bytes of the ETag the client gave, whatever was re-uploaded,   *)
(* aborted, swept or completed by others while it read them                *)
(* (completeMultipartUploadLocked, recordPartTx).                          *)
ObjectIsManifest == object # None => Honours(object[1], object[2])

(* A recorded part has its own bytes and no cleanup row names them: what   *)
(* ListParts shows a client is there to be completed (recordPartTx,        *)
(* DiscardPending, resolveCompanion).                                      *)
RecordedPartsStored ==
    \A n \in Numbers : parts[n] # None =>
        /\ bytes[StorageKey(parts[n])] = parts[n]
        /\ StorageKey(parts[n]) \notin queued

(* Part bytes on the backend are named by a part row, an intent or a       *)
(* cleanup row, through crashes, lost answers, replaced parts, aborts and  *)
(* completions (recordPartTx, DeleteMultipartUpload, Discard).             *)
PartBytesNamed ==
    \A u \in PartUploads : bytes[StorageKey(u)] = u =>
        u \in intents \/ StorageKey(u) \in queued \/ \E n \in Numbers : parts[n] = u

(* While a completion reads, every part it has yet to read stays recorded: *)
(* a part upload, an abort or another completion is refused instead of     *)
(* removing it (lockUploadIdle, BeginMultipartCompletion).                 *)
PartsHeldWhileRead ==
    \A c \in Completions : stage[c] = "reading" =>
        \A n \in Unread(c) : parts[n] = want[c][n]

(* Parts are kept for the client until they are assembled, and their bytes *)
(* are never left to nobody.                                               *)
PartsKept == RecordedPartsStored /\ PartBytesNamed /\ PartsHeldWhileRead

-----------------------------------------------------------------------------
(* What keeps them so at every step.                                       *)

(* An intent stands for bytes that nothing else names yet.                 *)
IntentsOpen ==
    \A u \in intents :
        /\ u \notin queued /\ parts[NumberOf[u]] # u
        /\ up[u] # "idle"
        /\ up[u] = "sent" => bytes[u] = u

(* A path holds its own upload's bytes; a cleanup row's upload has begun,  *)
(* and a recorded part's PUT is over.                                      *)
PathsOwned ==
    /\ \A u \in PartUploads : bytes[u] \in {None, u}
    /\ \A u \in queued : up[u] # "idle"
    /\ \A n \in Numbers : parts[n] # None => up[parts[n]] \in {"acked", "discarding", "failed"}

(* Where the reaper waits for an upload to end, the upload has its intent  *)
(* until it is recorded, and a HEAD that found nothing stays true.         *)
ReaperWaits ==
    \A u \in PartUploads :
        /\ up[u] \in {"sending", "sent"} => u \in intents
        /\ probe[u] # "none" => up[u] \in {"acked", "failed"}
        /\ probe[u] = "missing" => bytes[u] = None

(* What a completion holds of the parts it collected: nothing before,      *)
(* theirs while it reads, all of them when it has put the object.          *)
Collected ==
    \A c \in Completions :
        /\ stage[c] \notin {"reading", "put", "removing"} => got[c] = NoParts
        /\ stage[c] \in {"reading", "put", "removing"} =>
              \A n \in Numbers : Fits(manifest[c][n], want[c][n], n) /\ got[c][n] \in {None, want[c][n]}
        /\ stage[c] \in {"put", "removing"} => Honours(manifest[c], got[c])
AssembliesHonour == \A a \in assembled : Honours(a[2], a[3])

(* Where completions renew in time, one runs at most and holds the mark of *)
(* an upload that is there.                                                *)
OneHolder ==
    /\ row = "none" => \A c \in Completions : stage[c] = "idle"
    /\ \A c, d \in Completions : Running(c) /\ Running(d) => c = d
    /\ \A c \in Completions : Running(c) /\ row = "open" => mark = "fresh"
    /\ \A c \in Completions : stage[c] \in Renewing => row = "open"

(* The invariant the proofs rest on.                                       *)
PartInv ==
    /\ TypeOK
    /\ IntentsOpen /\ PathsOwned /\ RecordedPartsStored
    /\ Collected /\ AssembliesHonour /\ ObjectIsManifest
    /\ ~ReaperRaces => ReaperWaits /\ PartBytesNamed
    /\ ~SlowHolders => OneHolder /\ PartsHeldWhileRead

(* An upload ends and leaves no part bytes behind, whoever died or failed  *)
(* on the way (CleanupStaleMultipartUploads, the completion grace).        *)
UploadEnds ==
    row = "open" ~> row = "gone" /\ intents = {} /\ \A u \in PartUploads : bytes[u] = None
=============================================================================
