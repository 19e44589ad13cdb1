----------------------------- MODULE MCUploads ------------------------------
(***************************************************************************)
(* Multipart uploads: the life of one upload with two completions, which    *)
(* is the module's own part, and beside it the same upload with slow        *)
(* completions and a racing reaper, with parts of two numbers, the          *)
(* statements of its tables, and the S3 surface. A behaviour is one         *)
(* part's; the others are idle.                                             *)
(***************************************************************************)
EXTENDS Multipart, Sequences

CONSTANTS Parts, \* the instances a run explores
          Off    \* the value of a component that is not running

VARIABLES part, raceRow, raceMark, raceParts, raceIntents, raceQueued, raceBytes, raceUp,
          raceProbe, raceStage, raceManifest, raceWant, raceGot, raceBeaten, raceAssembled,
          raceObject, skew, upload, age, sqlParts, sqlIntents, queue, rowLock, keyLock, pc,
          behind, buffer, read, open, apiParts, creating, walk, request, apiObject, listing

raceVars == <<raceRow, raceMark, raceParts, raceIntents, raceQueued, raceBytes, raceUp,
              raceProbe, raceStage, raceManifest, raceWant, raceGot, raceBeaten,
              raceAssembled, raceObject>>
sqlVars == <<skew, upload, age, sqlParts, sqlIntents, queue, rowLock, keyLock, pc, behind,
             buffer, read>>
apiVars == <<open, apiParts, creating, walk, request, apiObject, listing>>
allVars == <<part, vars, raceVars, sqlVars, apiVars>>

(* Three uploads of parts, the first two of the same number.                 *)
OneNumber == [u \in PartUploads |-> 1]
TwoNumbers == [u \in {"a1", "a2", "b1"} |-> IF u = "b1" THEN 2 ELSE 1]
FirstKeys(ids) == [u \in ids |-> IF u < 3 THEN "k1" ELSE "k2"]

-----------------------------------------------------------------------------
Racing == INSTANCE Multipart WITH
    row <- raceRow, mark <- raceMark, parts <- raceParts,
    intents <- raceIntents, queued <- raceQueued, bytes <- raceBytes, up <- raceUp,
    probe <- raceProbe, stage <- raceStage, manifest <- raceManifest, want <- raceWant,
    got <- raceGot, beaten <- raceBeaten, assembled <- raceAssembled, object <- raceObject,
    Numbers <- {1}, PartUploads <- {"a1", "a2"}, NumberOf <- [u \in {"a1", "a2"} |-> 1],
    Completions <- {"c1"}, SlowHolders <- TRUE, ReaperRaces <- TRUE
Numbered == INSTANCE Multipart WITH
    row <- raceRow, mark <- raceMark,
    parts <- raceParts, intents <- raceIntents, queued <- raceQueued, bytes <- raceBytes,
    up <- raceUp, probe <- raceProbe, stage <- raceStage, manifest <- raceManifest,
    want <- raceWant, got <- raceGot, beaten <- raceBeaten, assembled <- raceAssembled,
    object <- raceObject, Numbers <- {1, 2}, PartUploads <- {"a1", "a2", "b1"},
    NumberOf <- TwoNumbers, Completions <- {"c1"}, SlowHolders <- FALSE,
    ReaperRaces <- FALSE
Rows == INSTANCE MultipartStatements WITH
    parts <- sqlParts, intents <- sqlIntents,
    Engine <- "postgres", Records <- {"r1", "r2"}, Numbers <- {1},
    NumberOf <- [r \in {"r1", "r2"} |-> 1], Deletes <- {"d"}, Completions <- {"c"},
    Grace <- 3, RenewEvery <- 1, MaxSkew <- 0, CallTicks <- 1
Alone == INSTANCE MultipartStatements WITH
    parts <- sqlParts, intents <- sqlIntents,
    Engine <- "postgres", Records <- {"r1", "r3"}, Numbers <- {1, 2},
    NumberOf <- [r \in {"r1", "r3"} |-> IF r = "r3" THEN 2 ELSE 1], Deletes <- {"d"},
    Completions <- {"c"}, Grace <- 3, RenewEvery <- 1, MaxSkew <- 0, CallTicks <- 1
Skewed == INSTANCE MultipartStatements WITH
    parts <- sqlParts, intents <- sqlIntents,
    Engine <- "postgres", Records <- {"r1"}, Numbers <- {1},
    NumberOf <- [r \in {"r1"} |-> 1], Deletes <- {"d"}, Completions <- {"c"}, Grace <- 3,
    RenewEvery <- 1, MaxSkew <- 1, CallTicks <- 1
Marks == INSTANCE MultipartStatements WITH
    parts <- sqlParts, intents <- sqlIntents,
    Engine <- "postgres", Records <- {"r1"}, Numbers <- {1},
    NumberOf <- [r \in {"r1"} |-> 1], Deletes <- {}, Completions <- {"c1", "c2"},
    Grace <- 3, RenewEvery <- 1, MaxSkew <- 0, CallTicks <- 1
Sqlite == INSTANCE MultipartStatements WITH
    parts <- sqlParts, intents <- sqlIntents,
    Engine <- "sqlite", Records <- {"r1", "r2", "r3"}, Numbers <- {1, 2},
    NumberOf <- [r \in {"r1", "r2", "r3"} |-> IF r = "r3" THEN 2 ELSE 1], Deletes <- {"d"},
    Completions <- {"c"}, Grace <- 3, RenewEvery <- 1, MaxSkew <- 0, CallTicks <- 1
Resuming == INSTANCE MultipartApi WITH
    parts <- apiParts, object <- apiObject,
    Ids <- {1}, Keys <- {"k1", "k2"}, KeyOf <- FirstKeys({1}), Numbers <- {1, 2, 3},
    Bodies <- {1, 2}, SizeOf <- <<1, 2>>, Envelope <- 1, MaxUploads <- 2,
    MaxObjectSize <- 3, PageSize <- 2, Creators <- {"a"}, Walkers <- {"w"},
    Completers <- {}, Listers <- {}, OmitETags <- FALSE
Opening == INSTANCE MultipartApi WITH
    parts <- apiParts, object <- apiObject,
    Ids <- 1..4, Keys <- {"k1", "k2"}, KeyOf <- FirstKeys(1..4), Numbers <- {1},
    Bodies <- {1}, SizeOf <- <<1>>, Envelope <- 1, MaxUploads <- 2, MaxObjectSize <- 3,
    PageSize <- 1, Creators <- {"a", "b"}, Walkers <- {}, Completers <- {},
    Listers <- {"l"}, OmitETags <- FALSE
Assembling == INSTANCE MultipartApi WITH
    parts <- apiParts, object <- apiObject,
    Ids <- {1}, Keys <- {"k1", "k2"}, KeyOf <- FirstKeys({1}), Numbers <- {1, 2},
    Bodies <- {1, 2, 3}, SizeOf <- <<1, 2, 3>>, Envelope <- 1, MaxUploads <- 2,
    MaxObjectSize <- 3, PageSize <- 1, Creators <- {"a"}, Walkers <- {},
    Completers <- {"c", "d"}, Listers <- {}, OmitETags <- FALSE

ASSUME Racing!MultipartAssumption /\ Numbered!MultipartAssumption
ASSUME Rows!MarkOutlives /\ Alone!MarkOutlives /\ Skewed!MarkOutlives /\ Marks!MarkOutlives /\ Sqlite!MarkOutlives
ASSUME Resuming!SizesKnown /\ Opening!SizesKnown /\ Assembling!SizesKnown

raceOff == raceRow = Off /\ raceMark = Off /\ raceParts = Off /\ raceIntents = Off /\
           raceQueued = Off /\ raceBytes = Off /\ raceUp = Off /\ raceProbe = Off /\
           raceStage = Off /\ raceManifest = Off /\ raceWant = Off /\ raceGot = Off /\
           raceBeaten = Off /\ raceAssembled = Off /\ raceObject = Off
sqlOff == skew = Off /\ upload = Off /\ age = Off /\ sqlParts = Off /\ sqlIntents = Off /\
          queue = Off /\ rowLock = Off /\ keyLock = Off /\ pc = Off /\ behind = Off /\
          buffer = Off /\ read = Off
apiOff == open = Off /\ apiParts = Off /\ creating = Off /\ walk = Off /\ request = Off /\
          apiObject = Off /\ listing = Off

InitPart ==
    /\ part \in Parts
    /\ Init
    /\ CASE part = "races" -> Racing!Init
         [] part = "numbers" -> Numbered!Init
         [] OTHER -> raceOff
    /\ CASE part = "rows" -> Rows!Init
         [] part = "alone" -> Alone!Init
         [] part = "skewed" -> Skewed!Init
         [] part = "marks" -> Marks!Init
         [] part = "sqlite" -> Sqlite!Init
         [] OTHER -> sqlOff
    /\ CASE part = "resumes" -> Resuming!Init
         [] part = "opening" -> Opening!Init
         [] part = "assembly" -> Assembling!Init
         [] OTHER -> apiOff

NextPart ==
    \/ part = "upload" /\ Next
       /\ UNCHANGED <<part, raceVars, sqlVars, apiVars>>
    \/ /\ \/ part = "races" /\ Racing!Next
          \/ part = "numbers" /\ Numbered!Next
       /\ UNCHANGED <<part, vars, sqlVars, apiVars>>
    \/ /\ \/ part = "rows" /\ Rows!Next
          \/ part = "alone" /\ Alone!Next
          \/ part = "skewed" /\ Skewed!Next
          \/ part = "marks" /\ Marks!Next
          \/ part = "sqlite" /\ Sqlite!Next
       /\ UNCHANGED <<part, vars, raceVars, apiVars>>
    \/ /\ \/ part = "resumes" /\ Resuming!Next
          \/ part = "opening" /\ Opening!Next
          \/ part = "assembly" /\ Assembling!Next
       /\ UNCHANGED <<part, vars, raceVars, sqlVars>>

SpecParts == InitPart /\ [][NextPart]_allVars
(* Deadlines bound every step of an upload and of a completion; the sweep,   *)
(* the reaper and the cleanup worker tick; a mark nobody renews ages.        *)
Fairness ==
    /\ WF_vars(part = "upload" /\ AbortMultipartUpload) /\ WF_vars(part = "upload" /\ MarkAges)
    /\ \A u \in PartUploads : /\ WF_vars(part = "upload" /\ UploadStep(u))
                              /\ WF_vars(part = "upload" /\ Reap(u))
                              /\ WF_vars(part = "upload" /\ Settle(u))
    /\ \A c \in Completions : WF_vars(part = "upload" /\ CompletionStep(c))
FairParts == SpecParts /\ Fairness

-----------------------------------------------------------------------------
(* What a Postgres transaction does to the tables is what it would do run   *)
(* alone when it commits (lockUploadForRemoval, advisory locks).            *)
AsIfAlone == [][part = "alone" => Alone!AsIfAlone]_allVars

(* Through every interleaving of the statements on both engines, an         *)
(* uploaded path is named by its intent, its part row or the cleanup        *)
(* queue, and while a completion that renews in time works no call changes  *)
(* its parts (BeginMultipartCompletion: "the parts read after it are the    *)
(* final set"); recorded parts keep their bytes although completions are    *)
(* slow to renew and the reaper acts on uploads still running.              *)
StatementsHold ==
    /\ part = "upload" => PartInv
    /\ part = "rows" => Rows!TypeOK /\ Rows!PathsNamed /\ Rows!FinalSet
    /\ part = "alone" => Alone!TypeOK /\ Alone!PathsNamed
    /\ part = "skewed" => Skewed!FinalSet
    /\ part = "marks" => Marks!FinalSet
    /\ part = "sqlite" => Sqlite!TypeOK /\ Sqlite!PathsNamed /\ Sqlite!FinalSet
    /\ part = "races" => Racing!TypeOK /\ Racing!RecordedPartsStored
    /\ part = "numbers" => Numbered!TypeOK /\ Numbered!PartBytesNamed

(* An upload ends and leaves no part bytes behind, whoever died or failed   *)
(* on the way (CleanupStaleMultipartUploads).                               *)
UploadClears == part = "upload" => UploadEnds

=============================================================================
