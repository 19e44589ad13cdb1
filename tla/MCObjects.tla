----------------------------- MODULE MCObjects ------------------------------
(***************************************************************************)
(* Reading, copying, rewriting and listing stored objects, each part on     *)
(* small instances of its own. A behaviour is one part's; the others are    *)
(* idle.                                                                    *)
(***************************************************************************)
EXTENDS Integers, FiniteSets, Sequences

CONSTANTS Parts, \* the instances a run explores
          Off    \* the value of a component that is not running

VARIABLES part, db, rows, pending, stored, queue, rot, writes, cache, sizeBytes, hint, rd,
          dropped, outages, faults, obj, hdr, bad, pc, tail, todo, sent, asked, err, ver,
          tags, copyRows, forms, copy, dst, copyPart, bulkRows, latest, pass, bulkRot,
          mover, left, engine, listRows, clock, changes, req

readVars == <<db, rows, pending, stored, queue, rot, writes, cache, sizeBytes, hint, rd,
              dropped, outages, faults>>
rangeVars == <<obj, hdr, bad, pc, tail, todo, sent, asked, err>>
copyVars == <<ver, tags, copyRows, forms, copy, dst, copyPart>>
bulkVars == <<bulkRows, latest, pass, bulkRot, mover, left>>
listVars == <<engine, listRows, clock, changes, req>>
allVars == <<part, readVars, rangeVars, copyVars, bulkVars, listVars>>

(* Copies of up to five bytes in every form, frames of two bytes that        *)
(* compress to one or grow to three, envelopes in chunks of one, two, four.  *)
Forms(n) ==
    [n : {n}, comp : {FALSE}, lens : {<<>>}, enc : BOOLEAN, chunk : {1, 2, 4}]
      \cup [n : {n}, comp : {TRUE}, lens : [1 .. (n + 1) \div 2 -> {1, 3}], enc : BOOLEAN, chunk : {1, 4}]
Small == Forms(1) \cup Forms(2) \cup Forms(3)
Large == Forms(5) \cup {o \in Forms(0) : ~o.comp}
RangeHeaders ==
    [kind : {"none"}, from : {0}, to : {0}]
      \cup [kind : {"suffix"}, from : {0}, to : {0, 1, 3, 9}]
      \cup [kind : {"open"}, from : {0, 1, 3, 5}, to : {0}]
      \cup [kind : {"closed"}, from : {0, 1, 2, 4}, to : {0, 1, 2, 4, 9}]

(* Rows of two objects on two backends: plain copies everywhere, a mix of    *)
(* forms, and copies sealed under the old key.                               *)
Unstored == [path |-> 0]
Plain == [comp |-> FALSE, dek |-> 0, kid |-> "none"]
Old(i) == [comp |-> FALSE, dek |-> i, kid |-> "old"]
RowOf(path, form) ==
    [path |-> path, form |-> form, probe |-> 0,
     bytes |-> [w |-> 1, whole |-> TRUE, comp |-> form.comp, dek |-> form.dek]]
Places == {1, 2} \X {1, 2}
PlainRows == {[at \in Places |-> RowOf(2 * at[1] + at[2], Plain)]}
MixedRows ==
    {[at \in Places |-> IF at = <<1, 1>> THEN RowOf(1, f) ELSE IF at = <<2, 2>> THEN RowOf(2, g) ELSE Unstored] :
        f \in {Plain, [Plain EXCEPT !.comp = TRUE], Old(3), [Old(3) EXCEPT !.comp = TRUE]},
        g \in {Plain, Old(4)}}
OldRows ==
    {[at \in Places |-> IF at = <<1, 2>> THEN RowOf(1, Old(3))
                        ELSE IF at = <<2, 1>> THEN RowOf(2, Old(4)) ELSE Unstored]}

(* Keys of one bucket in codes: 1 the lowest character, 2 the slash, 3 and 4 *)
(* letters, 9 the highest: a leaf, a group of two and its neighbours on both *)
(* sides, a key below another by one lowest character, and a key of a bucket *)
(* whose name starts the same.                                               *)
Listed == {<<3, 2, 3>>, <<3, 2, 3, 1>>, <<3, 2, 3, 2, 3>>, <<3, 2, 3, 2, 4>>, <<3, 2, 9>>, <<3, 3, 2, 3>>}
Few == {<<3, 2, 3>>, <<3, 2, 3, 2, 3>>, <<3, 2, 3, 2, 4>>}
Before(s, t) == \E i \in 1..Len(t) : /\ i <= Len(s) + 1 /\ \A j \in 1..(i - 1) : s[j] = t[j]
                                     /\ i > Len(s) \/ s[i] < t[i]
Copied(S) ==
    {[key |-> k, backend |-> "b1", managed |-> TRUE, at |-> 1,
      id |-> Cardinality({j \in S : Before(j, k)}) + 1] : k \in S}

-----------------------------------------------------------------------------
Rotting == INSTANCE ReadPath WITH
    Backends <- {"b1", "b2"}, Readers <- {"r1"},
    Size <- <<1, 1>>, MaxSize <- 2, MaxObjectSize <- 2, VerifyOnRead <- TRUE,
    DegradedReads <- TRUE, MaxOutages <- 0, MaxFaults <- 0, MaxRot <- 1, None <- Off
Failing == INSTANCE ReadPath WITH
    Backends <- {"b1", "b2"}, Readers <- {"r1"},
    Size <- <<1, 1>>, MaxSize <- 2, MaxObjectSize <- 2, VerifyOnRead <- TRUE,
    DegradedReads <- TRUE, MaxOutages <- 1, MaxFaults <- 1, MaxRot <- 0, None <- Off
Caching == INSTANCE ReadPath WITH
    Backends <- {"b1"}, Readers <- {"r1", "r2"},
    Size <- <<1, 2>>, MaxSize <- 2, MaxObjectSize <- 2, VerifyOnRead <- FALSE,
    DegradedReads <- TRUE, MaxOutages <- 0, MaxFaults <- 0, MaxRot <- 0, None <- Off
Framed == INSTANCE StoredRead WITH
    Objects <- Small, Headers <- RangeHeaders,
    HeaderSize <- 2, ChunkOverhead <- 3, FrameSize <- 2, TableSize <- 1, TailPrefetch <- 4,
    StreamMin <- 9, Faults <- TRUE
Streamed == INSTANCE StoredRead WITH
    Objects <- Large, Headers <- RangeHeaders,
    HeaderSize <- 2, ChunkOverhead <- 3, FrameSize <- 2, TableSize <- 1, TailPrefetch <- 2,
    StreamMin <- 4, Faults <- TRUE
Copying == INSTANCE ServerCopy WITH
    rows <- copyRows, part <- copyPart,
    Backends <- {1, 2}, SizeOf <- <<3, 2, 4>>, Overwrites <- TRUE, Rewrites <- FALSE,
    Directives <- {TRUE, FALSE}, Ranges <- {}, MaxForms <- 2
Retagged == INSTANCE ServerCopy WITH
    rows <- copyRows, part <- copyPart,
    Backends <- {1, 2}, SizeOf <- <<3>>, Overwrites <- FALSE, Rewrites <- TRUE,
    Directives <- {TRUE, FALSE}, Ranges <- {}, MaxForms <- 2
PartCopy == INSTANCE ServerCopy WITH
    rows <- copyRows, part <- copyPart,
    Backends <- {1, 2}, SizeOf <- <<3, 2, 4>>, Overwrites <- TRUE, Rewrites <- FALSE,
    Directives <- {}, Ranges <- {<<0, -1>>, <<0, 1>>, <<1, 2>>, <<2, 3>>}, MaxForms <- 2
Passes == INSTANCE BulkRewrite WITH
    rows <- bulkRows, rot <- bulkRot, Keys <- {1, 2},
    Backends <- {1, 2}, Ids <- 1..18, Incompressible <- {2}, FirstRows <- MixedRows,
    NewWrite <- [comp |-> FALSE, enc |-> FALSE],
    Ops <- {"encrypt", "decrypt", "compress", "decompress"}, Caps <- {0, 1}, BatchSize <- 2,
    Repeats <- FALSE, Rotates <- FALSE, Torn <- FALSE, MaxWrites <- 1, MaxMoves <- 1,
    MaxFails <- 0
Capped == INSTANCE BulkRewrite WITH
    rows <- bulkRows, rot <- bulkRot, Keys <- {1, 2},
    Backends <- {1, 2}, Ids <- 1..18, Incompressible <- {}, FirstRows <- PlainRows,
    NewWrite <- [comp |-> FALSE, enc |-> FALSE], Ops <- {"compress"}, Caps <- {2, 3},
    BatchSize <- 2, Repeats <- FALSE, Rotates <- FALSE, Torn <- FALSE, MaxWrites <- 1,
    MaxMoves <- 0, MaxFails <- 1
TornBody == INSTANCE BulkRewrite WITH
    rows <- bulkRows, rot <- bulkRot, Keys <- {1, 2},
    Backends <- {1, 2}, Ids <- 1..18, Incompressible <- {2}, FirstRows <- MixedRows,
    NewWrite <- [comp |-> FALSE, enc |-> FALSE],
    Ops <- {"encrypt", "decrypt", "decompress"}, Caps <- {0}, BatchSize <- 2,
    Repeats <- FALSE, Rotates <- FALSE, Torn <- TRUE, MaxWrites <- 1, MaxMoves <- 0,
    MaxFails <- 2
Encoding == INSTANCE BulkRewrite WITH
    rows <- bulkRows, rot <- bulkRot, Keys <- {1, 2},
    Backends <- {1, 2}, Ids <- 1..18, Incompressible <- {2}, FirstRows <- MixedRows,
    NewWrite <- [comp |-> FALSE, enc |-> FALSE], Ops <- {"compress"}, Caps <- {0},
    BatchSize <- 2, Repeats <- FALSE, Rotates <- FALSE, Torn <- TRUE, MaxWrites <- 1,
    MaxMoves <- 1, MaxFails <- 1
Rotating == INSTANCE BulkRewrite WITH
    rows <- bulkRows, rot <- bulkRot, Keys <- {1, 2},
    Backends <- {1, 2}, Ids <- 1..18, Incompressible <- {2}, FirstRows <- OldRows,
    NewWrite <- [comp |-> TRUE, enc |-> TRUE], Ops <- {"compress"}, Caps <- {0},
    BatchSize <- 1, Repeats <- FALSE, Rotates <- TRUE, Torn <- FALSE, MaxWrites <- 1,
    MaxMoves <- 1, MaxFails <- 0
Repeated == INSTANCE BulkRewrite WITH
    rows <- bulkRows, rot <- bulkRot, Keys <- {1, 2},
    Backends <- {1, 2}, Ids <- 1..18, Incompressible <- {2}, FirstRows <- MixedRows,
    NewWrite <- [comp |-> FALSE, enc |-> FALSE], Ops <- {"compress"}, Caps <- {1},
    BatchSize <- 2, Repeats <- TRUE, Rotates <- FALSE, Torn <- FALSE, MaxWrites <- 1,
    MaxMoves <- 0, MaxFails <- 0
Pages == INSTANCE Listing WITH
    rows <- listRows, Slash <- 2, MaxRune <- 9,
    Bucket <- <<3>>, Keys <- Listed, Asked <- {<<>>, <<9>>, <<3, 2>>},
    Delims <- {<<>>, <<2>>, <<2, 3>>}, PageSizes <- {1, 2}, Backends <- {"b1"},
    Tables <- {Copied(S) : S \in SUBSET Listed}, MaxChanges <- 0
Moving == INSTANCE Listing WITH
    rows <- listRows, Slash <- 2, MaxRune <- 9,
    Bucket <- <<3>>, Keys <- Few, Asked <- {<<>>, <<9>>, <<3, 2>>},
    Delims <- {<<>>, <<2>>, <<2, 3>>}, PageSizes <- {1}, Backends <- {"b1", "b2"},
    Tables <- {Copied(Few), Copied({<<3, 2, 3>>})}, MaxChanges <- 2

ASSUME Rotting!CacheConfig /\ Failing!CacheConfig /\ Caching!CacheConfig
ASSUME Passes!BulkAssumption /\ Rotating!BulkAssumption /\ Repeated!BulkAssumption

readOff == db = Off /\ rows = Off /\ pending = Off /\ stored = Off /\ queue = Off /\
           rot = Off /\ writes = Off /\ cache = Off /\ sizeBytes = Off /\ hint = Off /\
           rd = Off /\ dropped = Off /\ outages = Off /\ faults = Off
rangeOff == obj = Off /\ hdr = Off /\ bad = Off /\ pc = Off /\ tail = Off /\ todo = Off /\
            sent = Off /\ asked = Off /\ err = Off
copyOff == ver = Off /\ tags = Off /\ copyRows = Off /\ forms = Off /\ copy = Off /\
           dst = Off /\ copyPart = Off
bulkOff == Capped!Init
listOff == engine = Off /\ listRows = Off /\ clock = Off /\ changes = Off /\ req = Off

InitPart ==
    /\ part \in Parts
    /\ CASE part = "rot" -> Rotting!Init
         [] part = "failover" -> Failing!Init
         [] part = "cache" -> Caching!Init
         [] OTHER -> readOff
    /\ CASE part = "ranges" -> Framed!Init
         [] part = "streams" -> Streamed!Init
         [] OTHER -> rangeOff
    /\ CASE part = "copies" -> Copying!Init
         [] part = "retagged" -> Retagged!Init
         [] part = "parts" -> PartCopy!Init
         [] OTHER -> copyOff
    /\ CASE part = "passes" -> Passes!Init
         [] part = "capped" -> Capped!Init
         [] part = "torn" -> TornBody!Init
         [] part = "encoded" -> Encoding!Init
         [] part = "rotation" -> Rotating!Init
         [] part = "repeated" -> Repeated!Init
         [] OTHER -> bulkOff
    /\ CASE part = "pages" -> Pages!Init
         [] part = "moving" -> Moving!Init
         [] OTHER -> listOff

NextPart ==
    \/ /\ \/ part = "rot" /\ Rotting!Next
          \/ part = "failover" /\ Failing!Next
          \/ part = "cache" /\ Caching!Next
       /\ UNCHANGED <<part, rangeVars, copyVars, bulkVars, listVars>>
    \/ /\ \/ part = "ranges" /\ Framed!Next
          \/ part = "streams" /\ Streamed!Next
       /\ UNCHANGED <<part, readVars, copyVars, bulkVars, listVars>>
    \/ /\ \/ part = "copies" /\ Copying!Next
          \/ part = "retagged" /\ Retagged!Next
          \/ part = "parts" /\ PartCopy!Next
       /\ UNCHANGED <<part, readVars, rangeVars, bulkVars, listVars>>
    \/ /\ \/ part = "passes" /\ Passes!Next
          \/ part = "capped" /\ Capped!Next
          \/ part = "torn" /\ TornBody!Next
          \/ part = "encoded" /\ Encoding!Next
          \/ part = "rotation" /\ Rotating!Next
          \/ part = "repeated" /\ Repeated!Next
       /\ UNCHANGED <<part, readVars, rangeVars, copyVars, listVars>>
    \/ /\ \/ part = "pages" /\ Pages!Next
          \/ part = "moving" /\ Moving!Next
       /\ UNCHANGED <<part, readVars, rangeVars, copyVars, bulkVars>>

SpecParts == InitPart /\ [][NextPart]_allVars
(* A pass runs to its end once it begins, and operators repeat it.           *)
FairParts ==
    /\ SpecParts
    /\ WF_bulkVars(part = "repeated" /\ Repeated!PassStep)
    /\ WF_bulkVars(part = "repeated" /\ Repeated!Begin)

-----------------------------------------------------------------------------


(* Every row opens to the last write of its object: undoing the layers it   *)
(* records, with its key, gives the bytes complete (Reform, PlaceCopy); a   *)
(* pass keeps to its cap, and one that ends below it has reached every      *)
(* copy that was there all along (Pager.Walk, RotateKey).                   *)
RowsOpen ==
    /\ part = "passes" => Passes!TypeOK /\ Passes!RowsOpen /\ Passes!ProbeOwn /\
                           Passes!CapKept /\ Passes!PassReaches
    /\ part = "capped" => Capped!RowsOpen /\ Capped!CapKept /\ Capped!PassReaches
    /\ part = "torn" => TornBody!RowsOpen
    /\ part = "encoded" => Encoding!RowsOpen
    /\ part = "rotation" => Rotating!TypeOK /\ Rotating!RowsOpen /\
                             Rotating!RotationReaches

(* Every page of every ledger, on both engines, is the page S3 defines,     *)
(* and a walk over pages misses no object that was there all along while    *)
(* copies are added and moved; the counts of a directory add up to the      *)
(* objects below it (ListObjects, ListDirectory).                           *)
PageIsS3Page ==
    /\ part = "pages" => Pages!TypeOK /\ Pages!PageIsS3Page /\ Pages!NoneSkipped
    /\ part = "moving" => Moving!TypeOK /\ Moving!NoneSkipped /\ Moving!DirectoryAddsUp

(* Once the copies of a key are all sealed under the primary key, no move   *)
(* or rewrite brings an older wrapping back (placedCopy), and repeating a   *)
(* capped pass ends with passes that find nothing (CompressExisting).       *)
RewritesLast == [][part = "rotation" => Rotating!StaysRotated]_allVars /\ (part = "repeated" => Repeated!RunsDry)
=============================================================================
