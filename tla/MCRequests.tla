----------------------------- MODULE MCRequests -----------------------------
(***************************************************************************)
(* The front of the server, each part on small instances of its own: what   *)
(* a request is taken to ask for, who signed it, how its body is checked,   *)
(* when its preconditions hold, and the slots it runs under. A behaviour    *)
(* is one part's; the others are Off.                                       *)
(***************************************************************************)
EXTENDS Naturals, FiniteSets, Sequences, SequencesExt

CONSTANTS Parts, \* the instances a run explores
          Off    \* the value of a component that is not running

VARIABLES part, req, user, pc, act, status, written, view, registry, sigReq, outcome, now,
          reloads, bodyReq, wire, faults, rd, dg, got, bodyOutcome, vers, cur, ident,
          condNow, condReq, put, held, queue, rq, refusedAt, wk, turn, next, open,
          cancelled, result

routingVars == <<req, user, pc, act, status, written>>
sigVars == <<view, registry, sigReq, outcome, now, reloads>>
bodyVars == <<bodyReq, wire, faults, rd, dg, got, bodyOutcome>>
condVars == <<vers, cur, ident, condNow, condReq, put>>
slotsVars == <<held, queue, rq, refusedAt, wk, turn, next, open, cancelled, result>>
allVars == <<part, routingVars, sigVars, bodyVars, condVars, slotsVars>>

Permissions == {"list-buckets", "list", "read", "write", "delete", "tags"}
AllButOne == {Permissions \ {p} : p \in Permissions}


(* Paths of up to three characters after the slash, long enough for a      *)
(* percent sign and two hex digits; header values with blanks; parameter   *)
(* names one of which starts another.                                      *)
Chars == {"z", "2", "%", "+", "_", "/"}
SignedPaths == {<<"/">> \o p : p \in UNION {[1..n -> Chars] : n \in 0..3}}
SignedValues == UNION {[1..n -> {"z", "_", "t"}] : n \in 0..4}
X == <<"x">>
XDash == <<"x", "-">>
XY == <<"x", "y">>
SignedQueries == {q \in SUBSET {<<X, X>>, <<X, XY>>, <<XDash, X>>, <<XY, X>>} : Cardinality(q) \in {0, 2}}

(* Bodies of up to three chunks, equal ones among them; trailers of one or *)
(* two names, name 3 unsupported; chunks of three units are too large.     *)
Chunked == { <<>>, << <<1>> >>, << <<1>>, <<2>> >>, << <<1, 2>> >>,
             << <<1>>, <<1>>, <<2>> >>, << <<1, 2, 1>> >> }
Total(chunks) == Len(FlattenSeq(chunks))
Trailers(v) == IF v \in {"signed_trailer", "unsigned_trailer"}
               THEN { <<1>>, <<2, 1>>, <<3>>, <<1, 2, 2>> } ELSE { <<>> }
Uploads ==
    { r \in UNION { [variant : {v}, chunks : {c}, declared : {Total(c) - 1, Total(c), Total(c) + 1} \cap Nat,
                     names : Trailers(v), digest : {"none", "right", "malformed"}, consumer : {"eof", "known"}] :
                    v \in {"none", "signed", "signed_trailer", "unsigned_trailer"}, c \in Chunked } :
      r.digest = "none" \/ Len(r.names) < 2 }
TwiceDamaged ==
    { r \in Uploads :
        /\ r.declared = Total(r.chunks) /\ Len(r.chunks) >= 2
        /\ r.names \in { <<>>, <<1>>, <<2, 1>> } /\ r.digest # "malformed"
        /\ r.chunks = << <<1>>, <<2>> >> \/ r.names = <<>> }

SlotsOf == [read |-> 1, write |-> 2]
HalfFull == [read |-> 0, write |-> 1]
TightSlots == [read |-> 1, write |-> 1]

-----------------------------------------------------------------------------
Routes == INSTANCE S3Routing WITH
    Methods <- {"GET", "HEAD", "PUT", "POST", "DELETE", "OPTIONS"},
    QueryKeys <- {"uploads", "tagging", "partNumber", "delete", "location", "versioning", "list-type", "acl"},
    MaxKeys <- 2, GrantSets <- {Permissions, {}}
Grants == INSTANCE S3Routing WITH
    Methods <- {"GET", "HEAD", "PUT", "POST", "DELETE", "OPTIONS"},
    QueryKeys <- {"uploads", "tagging", "delete"}, MaxKeys <- 1,
    GrantSets <- {Permissions, {}} \cup AllButOne
Keypairs == INSTANCE SigV4 WITH
    req <- sigReq, Paths <- {<<"/", "z">>},
    Values <- {<<"z">>}, Day <- 3, Queries <- {{}}, AccessKeys <- {"k1"},
    Secrets <- {"s1", "s2"}, UserIDs <- {"u1", "u2"}, MaxSkew <- 2, MaxExpiry <- 3,
    Expiries <- {1, 3, 4}, MaxNow <- 4, MaxReloads <- 2
Signed == INSTANCE SigV4 WITH
    req <- sigReq, Paths <- SignedPaths, Values <- {<<"z">>},
    Day <- 3, Queries <- SignedQueries, AccessKeys <- {"k1"}, Secrets <- {"s1"},
    UserIDs <- {"u1"}, MaxSkew <- 2, MaxExpiry <- 3, Expiries <- {}, MaxNow <- 0,
    MaxReloads <- 0
Headers == INSTANCE SigV4 WITH
    req <- sigReq, Paths <- {<<"/", "z">>},
    Values <- SignedValues, Day <- 3, Queries <- {{}}, AccessKeys <- {"k1"},
    Secrets <- {"s1"}, UserIDs <- {"u1"}, MaxSkew <- 2, MaxExpiry <- 3, Expiries <- {},
    MaxNow <- 0, MaxReloads <- 0
Bodies == INSTANCE AwsChunked WITH
    req <- bodyReq, outcome <- bodyOutcome,
    MaxChunk <- 2, MaxTrailers <- 2, Supported <- {1, 2}, Requests <- Uploads,
    MaxFaults <- 1
Damaged == INSTANCE AwsChunked WITH
    req <- bodyReq, outcome <- bodyOutcome,
    MaxChunk <- 2, MaxTrailers <- 2, Supported <- {1, 2}, Requests <- TwiceDamaged,
    MaxFaults <- 2
Tags == INSTANCE Conditionals WITH
    now <- condNow, req <- condReq, Contents <- {1, 2},
    Backends <- {1}, Shapes <- {"none", "match", "any", "absent", "ifrange", "weak"},
    Stars <- {}, MaxVersions <- 3, MaxNow <- 0
Mixed == INSTANCE Conditionals WITH
    now <- condNow, req <- condReq, Contents <- {1},
    Backends <- {1}, Shapes <- {"nonematch", "range"}, Stars <- {TRUE, FALSE},
    MaxVersions <- 2, MaxNow <- 1
Dates == INSTANCE Conditionals WITH
    now <- condNow, req <- condReq, Contents <- {1},
    Backends <- {1}, Shapes <- {"since", "unsince", "ifdate"}, Stars <- {},
    MaxVersions <- 2, MaxNow <- 3
Patient == INSTANCE Admission WITH
    Reads <- {"r1"}, Writers <- {"p1"},
    Workers <- {"w1", "w2"}, Cap <- TightSlots, ShedAt <- HalfFull, Items <- 2,
    Split <- TRUE, Shedding <- FALSE, Waiting <- TRUE
Trying == INSTANCE Admission WITH
    Reads <- {}, Writers <- {"p1"},
    Workers <- {"w1", "w2"}, Cap <- TightSlots, ShedAt <- HalfFull, Items <- 2,
    Split <- TRUE, Shedding <- FALSE, Waiting <- FALSE
Shed == INSTANCE Admission WITH
    Reads <- {"r1"}, Writers <- {"p1"},
    Workers <- {"w1", "w2"}, Cap <- SlotsOf, ShedAt <- HalfFull, Items <- 2, Split <- FALSE,
    Shedding <- TRUE, Waiting <- FALSE

ASSUME Routes!RoutingConfig /\ Grants!RoutingConfig
ASSUME Patient!AdmissionConfig /\ Trying!AdmissionConfig /\ Shed!AdmissionConfig

routingOff == req = Off /\ user = Off /\ pc = Off /\ act = Off /\ status = Off /\
              written = Off
sigOff == view = Off /\ registry = Off /\ sigReq = Off /\ outcome = Off /\ now = Off /\
          reloads = Off
bodyOff == bodyReq = Off /\ wire = Off /\ faults = Off /\ rd = Off /\ dg = Off /\
           got = Off /\ bodyOutcome = Off
condOff == vers = Off /\ cur = Off /\ ident = Off /\ condNow = Off /\ condReq = Off /\
           put = Off
slotsOff == Trying!Init

InitPart ==
    /\ part \in Parts
    /\ CASE part = "queries" -> Routes!Init
         [] part = "grants" -> Grants!Init
         [] OTHER -> routingOff
    /\ CASE part = "keypairs" -> Keypairs!Init
         [] part = "signed" -> Signed!Init
         [] part = "headers" -> Headers!Init
         [] OTHER -> sigOff
    /\ CASE part = "bodies" -> Bodies!Init
         [] part = "damaged" -> Damaged!Init
         [] OTHER -> bodyOff
    /\ CASE part = "tags" -> Tags!Init
         [] part = "mixed" -> Mixed!Init
         [] part = "dates" -> Dates!Init
         [] OTHER -> condOff
    /\ CASE part = "waiting" -> Patient!Init
         [] part = "turns" -> Trying!Init
         [] part = "shedding" -> Shed!Init
         [] OTHER -> slotsOff

NextPart ==
    \/ /\ \/ part = "queries" /\ Routes!Next
          \/ part = "grants" /\ Grants!Next
       /\ UNCHANGED <<part, sigVars, bodyVars, condVars, slotsVars>>
    \/ /\ \/ part = "keypairs" /\ Keypairs!Next
          \/ part = "signed" /\ Signed!Next
          \/ part = "headers" /\ Headers!Next
       /\ UNCHANGED <<part, routingVars, bodyVars, condVars, slotsVars>>
    \/ /\ \/ part = "bodies" /\ Bodies!Next
          \/ part = "damaged" /\ Damaged!Next
       /\ UNCHANGED <<part, routingVars, sigVars, condVars, slotsVars>>
    \/ /\ \/ part = "tags" /\ Tags!Next
          \/ part = "mixed" /\ Mixed!Next
          \/ part = "dates" /\ Dates!Next
       /\ UNCHANGED <<part, routingVars, sigVars, bodyVars, slotsVars>>
    \/ /\ \/ part = "waiting" /\ Patient!Next
          \/ part = "turns" /\ Trying!Next
          \/ part = "shedding" /\ Shed!Next
       /\ UNCHANGED <<part, routingVars, sigVars, bodyVars, condVars>>

SpecParts == InitPart /\ [][NextPart]_allVars
(* Handlers return, timers fire and goroutines run; clients and the batch's  *)
(* context owe nothing.                                                      *)
Fairness ==
    /\ \A r \in Trying!Requests : WF_slotsVars(part = "turns" /\ Trying!Serve(r))
    /\ \A w \in {"w1", "w2"} : WF_slotsVars(part = "turns" /\ Trying!Working(w))
    /\ WF_slotsVars(part = "turns" /\ (Trying!CloseJobs \/ Trying!Return))
FairParts == SpecParts /\ Fairness

-----------------------------------------------------------------------------
(* A request is taken for one operation and answered once, whatever fails   *)
(* on the way: a handler reads, writes, deletes or tags only where the      *)
(* grant of its caller says so, and no request the read pool admits         *)
(* changes data (classifyAction, authorize, dispatch, isWriteMethod); the   *)
(* slots taken of a pool are exactly those its running requests and items   *)
(* hold, and a batch returns with every item tallied once (acquire,         *)
(* release, workerTurn, batch.Run).                                         *)
ServedOnce ==
    /\ part = "queries" => Routes!TypeOK /\ Routes!ReadPoolOnlyReads /\ Routes!AnsweredOnce
    /\ part = "grants" => Grants!TypeOK /\ Grants!EffectsGranted
    /\ part = "waiting" => Patient!TypeOK /\ Patient!SlotsAccounted /\ Patient!OneOnTurn /\
                            Patient!ReturnedWhole
    /\ part = "shedding" => Shed!TypeOK /\ Shed!SlotsAccounted /\ Shed!ReturnedWhole

(* What is accepted is what its signer sent, and what an honest client      *)
(* sends is accepted: the user is the one whose secret signed, inside the   *)
(* window of the signature and across reloads of the registry               *)
(* (Authenticate), both sides build one canonical request, and the body is  *)
(* the payload that was signed or digested although the wire loses,         *)
(* repeats or spoils chunks (chunkReader, digestReader).                    *)
Authentic ==
    /\ part = "keypairs" => Keypairs!TypeOK /\ Keypairs!AcceptedIsOwner /\
                             Keypairs!AcceptedInWindow /\ Keypairs!HonestAccepted
    /\ part = "signed" => Signed!HonestAccepted
    /\ part = "headers" => Headers!HonestAccepted
    /\ part = "bodies" => Bodies!TypeOK /\ Bodies!SignedPrefix /\
                           Bodies!AcceptedIsPayload /\ Bodies!UndamagedAccepted
    /\ part = "damaged" => Damaged!SignedPrefix /\ Damaged!AcceptedIsPayload

(* A conditional read is answered from one version: what its preconditions  *)
(* were judged on is what it serves, the entity tag on record is that of    *)
(* the version the rows name, and a date never hides a version its client   *)
(* has not seen (checkPreconditions, identity backfill).                    *)
AnsweredFromOneVersion ==
    /\ part = "tags" => Tags!TypeOK /\ Tags!AnsweredFromOneVersion /\
                         Tags!IdentityOfVersion
    /\ part = "mixed" => Mixed!AnsweredFromOneVersion
    /\ part = "dates" => Dates!TypeOK /\ Dates!DatesNeverHideChange

(* However busy the clients are, the goroutine that holds the turn gets     *)
(* its slot (acquireOnTurn).                                                *)
TurnGetsSlot == part = "turns" => Trying!TurnGetsSlot
=============================================================================
