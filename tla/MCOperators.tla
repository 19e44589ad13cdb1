---------------------------- MODULE MCOperators -----------------------------
(***************************************************************************)
(* What operators work with: the provisioning operations and the            *)
(* registries built from them, the Terraform provider, the panes of the     *)
(* terminal console, the admin API with its command line and dashboard,     *)
(* and an instance they start, signal and stop. A behaviour is one part's;  *)
(* the others are idle.                                                     *)
(***************************************************************************)
EXTENDS Integers, Sequences, FiniteSets, TLC

CONSTANTS Parts, \* the instances a run explores
          Null   \* an attribute or a resource that is not set

VARIABLES part, db, objects, live, declared, registry, proc, inbox, linked, asked, reloads,
          losses, faults, tfDb, file, want, state, run, changes, edits, tfLosses, files,
          section, inFlight, wait, loading, have, level, following, watch, scope, paneRun,
          confirm, wire, draining, prefix, rows, filesLoading, next, more, filter, mode,
          insp, prompt, filesConfirm, transfer, work, filesWire, pc, ready, main, metrics,
          term, service, restarts, failures, cancelled, daemonWork, charged, flushed, late,
          now, tailsAt, store, final, daemonFile, daemonAsked, watching, hup, pass,
          daemonLive, generation, installed, last, panics, daemonFaults, clock, apiRestarts,
          apiProc, key, apiEdits, calls, apiAsked, tokens, previews, scrubLock, tracker,
          jobs, runs, cookie, attempts, logins, reports, missed, beaten

provVars == <<db, objects, live, declared, registry, proc, inbox, linked, asked, reloads,
              losses, faults>>
tfVars == <<tfDb, file, want, state, run, changes, edits, tfLosses, files>>
paneVars == <<section, inFlight, wait, loading, have, level, following, watch, scope,
              paneRun, confirm, wire, draining>>
filesVars == <<prefix, rows, filesLoading, next, more, filter, mode, insp, prompt,
               filesConfirm, transfer, work, filesWire>>
daemonVars == <<pc, ready, main, metrics, term, service, restarts, failures, cancelled,
                daemonWork, charged, flushed, late, now, tailsAt, store, final, daemonFile,
                daemonAsked, watching, hup, pass, daemonLive, generation, installed, last,
                panics, daemonFaults>>
apiVars == <<clock, apiRestarts, apiProc, key, apiEdits, calls, apiAsked, tokens, previews,
             scrubLock, tracker, jobs, runs, cookie, attempts, logins, reports, missed,
             beaten>>
allVars == <<part, provVars, tfVars, paneVars, filesVars, daemonVars, apiVars>>

(* The store's tables with one user, their key and a bucket; and what they   *)
(* were granted, with permissions or before there were any.                  *)
U1 == <<"store", "u1">>
U2 == <<"store", "u2">>
B(name) == <<"bucket", name>>
Admin == <<"orchestrator", "">>
Seeded == [users |-> U1 :> "n1", buckets |-> "b" :> 0, grants |-> <<>>,
           credentials |-> "k1" :> [user |-> U1, disabled |-> FALSE]]
Administrator == [Seeded EXCEPT !.grants = <<U1, Admin>> :> {"admin-all"}]
Legacy == [Seeded EXCEPT !.grants = <<U1, B("b")>> :> {}]

(* A file, and one that takes over a bucket and a key the store holds.       *)
Base == [buckets |-> {"c"}, creds |-> ("kc" :> "c"), root |-> {"root"}]
Taken == [buckets |-> {"c", "b"}, creds |-> ("kc" :> "c") @@ ("k1" :> "b"), root |-> {}]

AllOps ==
    {[kind |-> "CreateBucket", name |-> "b", limit |-> 0], [kind |-> "DeleteBucket", name |-> "b"]}
    \cup {[kind |-> "UpdateBucket", name |-> n, limit |-> 1] : n \in {"b", "c"}}
    \cup {[kind |-> "CreateUser", user |-> U2, name |-> n] : n \in {"n1", "n2"}}
    \cup {[kind |-> "RenameUser", user |-> u, name |-> "n2"] : u \in {U1, <<"config", "kc">>}}
    \cup {[kind |-> "DeleteUser", user |-> U1]}
    \cup {[kind |-> "CreateCredential", user |-> u, key |-> k] : u \in {U1, U2}, k \in {"k1", "k2"}}
    \cup {[kind |-> "DeleteCredential", key |-> k] : k \in {"k1", "kc"}}
    \cup {[kind |-> "CreateGrant", user |-> U1, res |-> r, perms |-> {}] :
              r \in {B("b"), B("*"), B("x"), Admin}}
    \cup {[kind |-> "SetGrant", user |-> U1, res |-> r, perms |-> {"read"}] : r \in {B("b"), B("c"), Admin}}
    \cup {[kind |-> "SetGrant", user |-> U1, res |-> B("b"), perms |-> {}],
          [kind |-> "DeleteGrant", user |-> U1, res |-> B("b")]}
RevokeOps == {[kind |-> "DeleteCredential", key |-> "k1"],
              [kind |-> "CreateCredential", user |-> U1, key |-> "k1"]}
KeyOps == {[kind |-> "DeleteCredential", key |-> "k1"],
           [kind |-> "CreateCredential", user |-> U1, key |-> "k2"]}

(* Declarations: everything, fewer permissions, another bucket and name, a   *)
(* supplied keypair, a bucket only looked up, nothing.                       *)
Want(b, u, c, g, d) == [bucket |-> b, user |-> u, credential |-> c, grant |-> g, data |-> d]
BucketOf(n, l, r) == [name |-> n, limit |-> l, rules |-> r]
Rule(h, a) == <<[headers |-> h, age |-> a]>>
GrantOn(b, p) == [holder |-> "managed", bucket |-> b, perms |-> p]
Minted == [key |-> Null, secret |-> Null]
Full == Want(BucketOf("b", 0, Rule(Null, Null)), [name |-> "one"], Minted, GrantOn("b", {"all"}), Null)
Narrower == Want(BucketOf("b", 0, <<>>), [name |-> "one"], Minted, GrantOn("b", {"read"}), Null)
Renamed == Want(BucketOf("c", 1, Rule(<<"h">>, 1)), [name |-> "two"], Minted, GrantOn("c", {"all"}), Null)
Keyed == [Narrower EXCEPT !.credential = [key |-> "k", secret |-> "s"]]
Looked == Want(Null, [name |-> "one"], Null, GrantOn("b", {"write"}), "b")
Nothing == Want(Null, Null, Null, Null, Null)
NoRow == [x \in {} |-> Null]
Bare(w, f) ==
    [want |-> w, file |-> f, state |-> [r \in {"bucket", "user", "credential", "grant"} |-> Null],
     db |-> [buckets |-> NoRow, users |-> NoRow, credentials |-> NoRow, grants |-> NoRow]]

(* Every target due at each tick, or at every second one.                    *)
Polled(n) == [t \in {"status", "workers", "logs", "progress"} |-> n]

(* A root with one directory of two pages, and an object beside it.          *)
Row(n, d) == [name |-> n, dir |-> d]
TwoPages == [p \in {"", "a/"} |-> IF p = "" THEN <<{Row("a/", TRUE), Row("o", FALSE)}>>
                                 ELSE <<{Row("x", FALSE)}, {Row("y", FALSE)}>>]
OnePage == [p \in {""} |-> <<{Row("o", FALSE)}>>]

(* An instance that serves and works, with a metrics listener it can do      *)
(* without.                                                                  *)
AllModes == [worker |-> TRUE, redis |-> FALSE, cache |-> FALSE, recorder |-> FALSE, scrub |-> FALSE,
             reconcile |-> FALSE, notify |-> FALSE, metrics |-> TRUE, requireMetrics |-> FALSE]

(* What the operator may hold: everything, what the passes need, or one      *)
(* backend's maintenance.                                                    *)
Everything ==
    (<<"backend", "*">> :> {"admin-read", "admin-maintain", "admin-drain", "admin-cordon", "admin-convert",
                            "admin-decommission"})
    @@ (<<"bucket", "*">> :> {"read", "list", "write", "tags", "delete"})
    @@ (<<"orchestrator", "">> :> {"admin-read", "admin-logs", "admin-maintain", "admin-config", "admin-cache",
                                   "admin-provision", "admin-keys"})
Maintainer == (<<"backend", "*">> :> {"admin-maintain", "admin-convert", "admin-decommission"})
              @@ (<<"orchestrator", "">> :> {"admin-read", "admin-maintain"})
OneBackend == (<<"backend", "b1">> :> {"admin-maintain"}) @@ (<<"orchestrator", "">> :> {"admin-read"})

-----------------------------------------------------------------------------
Operations == INSTANCE Provisioning WITH
    Instances <- {"i1"},
    Operators <- {<<"op", 1>>}, UserIds <- {U1, U2}, Configs <- {Base, Taken},
    FirstConfig <- Base, Requests <- AllOps, FirstDb <- Administrator, Redis <- TRUE,
    Overlap <- FALSE, Clients <- FALSE, MaxRequests <- 2, MaxReloads <- 0, MaxLosses <- 0,
    MaxFaults <- 1
Reloading == INSTANCE Provisioning WITH
    Instances <- {"i1"}, Operators <- {<<"op", 1>>},
    UserIds <- {U1, U2}, Configs <- {Base, Taken}, FirstConfig <- Base, Requests <- AllOps,
    FirstDb <- Legacy, Redis <- FALSE, Overlap <- FALSE, Clients <- TRUE, MaxRequests <- 2,
    MaxReloads <- 1, MaxLosses <- 0, MaxFaults <- 1
Fleet == INSTANCE Provisioning WITH
    Instances <- {"i1", "i2"},
    Operators <- {<<"op", 1>>}, UserIds <- {U1, U2}, Configs <- {Base, Taken},
    FirstConfig <- Base, Requests <- RevokeOps, FirstDb <- Seeded, Redis <- TRUE,
    Overlap <- TRUE, Clients <- FALSE, MaxRequests <- 1, MaxReloads <- 0, MaxLosses <- 1,
    MaxFaults <- 0
Overlapping == INSTANCE Provisioning WITH
    Instances <- {"i1"},
    Operators <- {<<"op", 1>>, <<"op", 2>>}, UserIds <- {U1, U2}, Configs <- {Base, Taken},
    FirstConfig <- Base, Requests <- KeyOps, FirstDb <- Seeded, Redis <- TRUE,
    Overlap <- TRUE, Clients <- FALSE, MaxRequests <- 2, MaxReloads <- 0, MaxLosses <- 0,
    MaxFaults <- 0
Declaring == INSTANCE TerraformProvider WITH
    db <- tfDb, losses <- tfLosses,
    UserIds <- {"u1", "u2", "u3"}, MintKeys <- {"m1", "m2", "m3"},
    Declarations <- {Full, Narrower, Renamed, Nothing}, First <- Bare(Full, {}),
    ConfigUsers <- NoRow,
    Edits <- {"limit", "rules", "rename", "revoke", "narrow", "withdraw", "remove"},
    Imports <- {}, Files <- {{}}, MaxChanges <- 1, MaxEdits <- 1, MaxLosses <- 1,
    MaxFiles <- 0
LookedUp == INSTANCE TerraformProvider WITH
    db <- tfDb, losses <- tfLosses,
    UserIds <- {"u1", "u2"}, MintKeys <- {"m1", "m2"}, Declarations <- {Looked, Keyed},
    First <- Bare(Looked, {"b"}), ConfigUsers <- NoRow, Edits <- {}, Imports <- {"bucket"},
    Files <- {{}, {"b"}}, MaxChanges <- 1, MaxEdits <- 0, MaxLosses <- 1, MaxFiles <- 2
Repeated == INSTANCE TerraformProvider WITH
    db <- tfDb, losses <- tfLosses,
    UserIds <- {"u1", "u2", "u3"}, MintKeys <- {"m1", "m2"},
    Declarations <- {Keyed, Narrower}, First <- Bare(Keyed, {}), ConfigUsers <- NoRow,
    Edits <- {"narrow", "revoke"}, Imports <- {"bucket", "credential"},
    Files <- {{}, {"b"}}, MaxChanges <- 1, MaxEdits <- 1, MaxLosses <- 1, MaxFiles <- 1
Console == INSTANCE AdminConsole WITH
    run <- paneRun, Sections <- {"backends", "logs"},
    Backends <- {"b1"}, Offered <- {"drain", "cancel"}, Levels <- 2, Every <- Polled(0),
    MaxActions <- 2, MaxLogs <- 2, NoBackend <- "none"
Actions == INSTANCE AdminConsole WITH
    run <- paneRun,
    Sections <- {"backends", "workers", "ops"}, Backends <- {"b1"},
    Offered <- {"cordon", "run"}, Levels <- 2, Every <- Polled(0), MaxActions <- 2,
    MaxLogs <- 2, NoBackend <- "none"
Draining == INSTANCE AdminConsole WITH
    run <- paneRun, Sections <- {"backends"},
    Backends <- {"b1", "b2"}, Offered <- {"drain", "cancel"}, Levels <- 2,
    Every <- Polled(0), MaxActions <- 1, MaxLogs <- 2, NoBackend <- "none"
Polling == INSTANCE AdminConsole WITH
    run <- paneRun, Sections <- {"backends", "logs"},
    Backends <- {"b1"}, Offered <- {"cordon"}, Levels <- 2, Every <- Polled(1),
    MaxActions <- 1, MaxLogs <- 1, NoBackend <- "none"
Browser == INSTANCE FilesPane WITH
    loading <- filesLoading, confirm <- filesConfirm,
    wire <- filesWire, Pages <- TwoPages, Uploads <- FALSE, Tags <- TRUE, Failures <- TRUE,
    MaxWire <- 2
Moving == INSTANCE FilesPane WITH
    loading <- filesLoading, confirm <- filesConfirm,
    wire <- filesWire, Pages <- OnePage, Uploads <- TRUE, Tags <- FALSE, Failures <- FALSE,
    MaxWire <- 2
Stopping == INSTANCE Daemon WITH
    work <- daemonWork, file <- daemonFile,
    asked <- daemonAsked, live <- daemonLive, faults <- daemonFaults, Wired <- AllModes,
    Followed <- {"usage_flush"}, Works <- {1, 2}, SlotLimit <- 1, Delays <- {0},
    Unloadable <- {}, Refused <- {}, Hooks <- {}, Disabled <- {}, DrainTimeout <- 2,
    DetachedDrainTimeout <- 2, MaxTime <- 3, MaxEdits <- 0, MaxPanics <- 1, MaxFaults <- 1
Signalled == INSTANCE Daemon WITH
    work <- daemonWork, file <- daemonFile,
    asked <- daemonAsked, live <- daemonLive, faults <- daemonFaults, Wired <- AllModes,
    Followed <- {}, Works <- {}, SlotLimit <- 1, Delays <- {1}, Unloadable <- {2},
    Refused <- {3}, Hooks <- {"provisioning", "rate_limit", "usage_limits"},
    Disabled <- {"rate_limit"}, DrainTimeout <- 2, DetachedDrainTimeout <- 2, MaxTime <- 3,
    MaxEdits <- 3, MaxPanics <- 1, MaxFaults <- 2
Serving == INSTANCE Daemon WITH
    work <- daemonWork, file <- daemonFile,
    asked <- daemonAsked, live <- daemonLive, faults <- daemonFaults, Wired <- AllModes,
    Followed <- {"replication"}, Works <- {1}, SlotLimit <- 1, Delays <- {0},
    Unloadable <- {}, Refused <- {}, Hooks <- {}, Disabled <- {}, DrainTimeout <- 1,
    DetachedDrainTimeout <- 1, MaxTime <- 2, MaxEdits <- 0, MaxPanics <- 1, MaxFaults <- 1
Roster == INSTANCE AdminApi WITH
    restarts <- apiRestarts, proc <- apiProc,
    edits <- apiEdits, asked <- apiAsked, None <- Null, Instances <- {"i1", "i2"},
    Callers <- {}, Requests <- {}, Backends <- {"b1", "b2"}, Buttons <- {},
    Holdings <- {Maintainer}, Enabled <- {}, ConfirmTTL <- 0, SessionTTL <- 0,
    MaxFailures <- 1, Lockout <- 1, BeatTTL <- 3, MaxTime <- 6, MaxCalls <- 0,
    MaxSteps <- 0, MaxRestarts <- 1, MaxEdits <- 0, MaxLogins <- 0, MaxMisses <- 2
Commands == INSTANCE AdminApi WITH
    restarts <- apiRestarts, proc <- apiProc,
    edits <- apiEdits, asked <- apiAsked, None <- Null, Instances <- {"i1"},
    Callers <- {"c1"},
    Requests <- Roster!AdminCommands("b1", "k", TRUE) \cup Roster!AdminCommands("", "k", FALSE),
    Backends <- {"b1", "b2"}, Buttons <- {}, Holdings <- {Everything, OneBackend},
    Enabled <- {"integrity", "replication"}, ConfirmTTL <- 0, SessionTTL <- 0,
    MaxFailures <- 1, Lockout <- 1, BeatTTL <- 0, MaxTime <- 0, MaxCalls <- 1,
    MaxSteps <- 2, MaxRestarts <- 1, MaxEdits <- 0, MaxLogins <- 0, MaxMisses <- 0
Calling == INSTANCE AdminApi WITH
    restarts <- apiRestarts, proc <- apiProc,
    edits <- apiEdits, asked <- apiAsked, None <- Null, Instances <- {"i1"},
    Callers <- {"c1", "c2"},
    Requests <- {Roster!Ask("scrub", "", TRUE, FALSE, FALSE), Roster!Ask("scrub", "b1", TRUE, TRUE, FALSE)},
    Backends <- {"b1", "b2"}, Buttons <- {}, Holdings <- {Maintainer, OneBackend},
    Enabled <- {"integrity", "replication"}, ConfirmTTL <- 0, SessionTTL <- 0,
    MaxFailures <- 1, Lockout <- 1, BeatTTL <- 0, MaxTime <- 0, MaxCalls <- 2,
    MaxSteps <- 1, MaxRestarts <- 1, MaxEdits <- 0, MaxLogins <- 0, MaxMisses <- 0
Purging == INSTANCE AdminApi WITH
    restarts <- apiRestarts, proc <- apiProc,
    edits <- apiEdits, asked <- apiAsked, None <- Null, Instances <- {"i1", "i2"},
    Callers <- {"c1"},
    Requests <- {Roster!Ask("purge-backend", "b1", TRUE, FALSE, x) : x \in BOOLEAN} \cup {Roster!Ask("purge-backend", "b2", TRUE, FALSE, TRUE)},
    Backends <- {"b1", "b2"}, Buttons <- {}, Holdings <- {Maintainer}, Enabled <- {},
    ConfirmTTL <- 2, SessionTTL <- 0, MaxFailures <- 1, Lockout <- 1, BeatTTL <- 0,
    MaxTime <- 2, MaxCalls <- 3, MaxSteps <- 0, MaxRestarts <- 1, MaxEdits <- 0,
    MaxLogins <- 0, MaxMisses <- 0
Board == INSTANCE AdminApi WITH
    restarts <- apiRestarts, proc <- apiProc,
    edits <- apiEdits, asked <- apiAsked, None <- Null, Instances <- {"i1", "i2"},
    Callers <- {}, Requests <- {}, Backends <- {"b1", "b2"}, Buttons <- {"scrub"},
    Holdings <- {Maintainer, OneBackend}, Enabled <- {"integrity", "replication"},
    ConfirmTTL <- 0, SessionTTL <- 1, MaxFailures <- 1, Lockout <- 1, BeatTTL <- 0,
    MaxTime <- 1, MaxCalls <- 0, MaxSteps <- 2, MaxRestarts <- 1, MaxEdits <- 1,
    MaxLogins <- 1, MaxMisses <- 0
Answered == INSTANCE AdminApi WITH
    restarts <- apiRestarts, proc <- apiProc,
    edits <- apiEdits, asked <- apiAsked, None <- Null, Instances <- {"i1"},
    Callers <- {"c1"}, Requests <- {Roster!Ask("replicate", "", TRUE, FALSE, FALSE)},
    Backends <- {"b1"}, Buttons <- {"replicate"}, Holdings <- {Maintainer},
    Enabled <- {"replication"}, ConfirmTTL <- 0, SessionTTL <- 1, MaxFailures <- 1,
    Lockout <- 1, BeatTTL <- 0, MaxTime <- 0, MaxCalls <- 1, MaxSteps <- 1,
    MaxRestarts <- 1, MaxEdits <- 0, MaxLogins <- 1, MaxMisses <- 0

provOff == Fleet!Init
tfOff == Repeated!Init
paneOff == Draining!Init
filesOff == Moving!Init
daemonOff == Serving!Init
apiOff == Answered!Init

InitPart ==
    /\ part \in Parts
    /\ CASE part = "operations" -> Operations!Init
         [] part = "reloads" -> Reloading!Init
         [] part = "fleet" -> Fleet!Init
         [] part = "overlap" -> Overlapping!Init
         [] OTHER -> provOff
    /\ CASE part = "declared" -> Declaring!Init
         [] part = "looked" -> LookedUp!Init
         [] part = "repeated" -> Repeated!Init
         [] OTHER -> tfOff
    /\ CASE part = "console" -> Console!Init
         [] part = "actions" -> Actions!Init
         [] part = "drains" -> Draining!Init
         [] part = "polls" -> Polling!Init
         [] OTHER -> paneOff
    /\ CASE part = "files" -> Browser!Init
         [] part = "transfers" -> Moving!Init
         [] OTHER -> filesOff
    /\ CASE part = "stops" -> Stopping!Init
         [] part = "signals" -> Signalled!Init
         [] part = "serves" -> Serving!Init
         [] OTHER -> daemonOff
    /\ CASE part = "roster" -> Roster!Init
         [] part = "commands" -> Commands!Init
         [] part = "calls" -> Calling!Init
         [] part = "purges" -> Purging!Init
         [] part = "board" -> Board!Init
         [] part = "answers" -> Answered!Init
         [] OTHER -> apiOff

NextPart ==
    \/ /\ \/ part = "operations" /\ Operations!Next
          \/ part = "reloads" /\ Reloading!Next
          \/ part = "fleet" /\ Fleet!Next
          \/ part = "overlap" /\ Overlapping!Next
       /\ UNCHANGED <<part, tfVars, paneVars, filesVars, daemonVars, apiVars>>
    \/ /\ \/ part = "declared" /\ Declaring!Next
          \/ part = "looked" /\ LookedUp!Next
          \/ part = "repeated" /\ Repeated!Next
       /\ UNCHANGED <<part, provVars, paneVars, filesVars, daemonVars, apiVars>>
    \/ /\ \/ part = "console" /\ Console!Next
          \/ part = "actions" /\ Actions!Next
          \/ part = "drains" /\ Draining!Next
          \/ part = "polls" /\ Polling!Next
       /\ UNCHANGED <<part, provVars, tfVars, filesVars, daemonVars, apiVars>>
    \/ /\ \/ part = "files" /\ Browser!Next
          \/ part = "transfers" /\ Moving!Next
       /\ UNCHANGED <<part, provVars, tfVars, paneVars, daemonVars, apiVars>>
    \/ /\ \/ part = "stops" /\ Stopping!Next
          \/ part = "signals" /\ Signalled!Next
          \/ part = "serves" /\ Serving!Next
       /\ UNCHANGED <<part, provVars, tfVars, paneVars, filesVars, apiVars>>
    \/ /\ \/ part = "roster" /\ Roster!Next
          \/ part = "commands" /\ Commands!Next
          \/ part = "calls" /\ Calling!Next
          \/ part = "purges" /\ Purging!Next
          \/ part = "board" /\ Board!Next
          \/ part = "answers" /\ Answered!Next
       /\ UNCHANGED <<part, provVars, tfVars, paneVars, filesVars, daemonVars>>

SpecParts == InitPart /\ [][NextPart]_allVars
(* Goroutines that are runnable run, a queued message is handled and a lost  *)
(* subscription is retried.                                                  *)
FleetRuns ==
    /\ \A p \in Fleet!Procs : WF_provVars(part = "fleet" /\ Fleet!Step(p))
    /\ \A i \in {"i1", "i2"} : /\ WF_provVars(part = "fleet" /\ Fleet!WatchMessage(i))
                               /\ WF_provVars(part = "fleet" /\ Fleet!Resubscribe(i))
OverlapRuns ==
    /\ \A p \in Overlapping!Procs : WF_provVars(part = "overlap" /\ Overlapping!Step(p))
    /\ WF_provVars(part = "overlap" /\ Overlapping!WatchMessage("i1"))
    /\ WF_provVars(part = "overlap" /\ Overlapping!Resubscribe("i1"))
(* Applies are repeated, and a row that is already there is adopted.         *)
Applies ==
    /\ WF_tfVars(part = "repeated" /\ Repeated!RunStep)
    /\ SF_tfVars(part = "repeated" /\ Repeated!ImportState)
(* The tick re-arms itself, requests are answered or fail, drains end, and a *)
(* progress reading does not fail for ever.                                  *)
DrainRuns ==
    /\ WF_paneVars(part = "drains" /\ Draining!PollTick)
    /\ \A k \in {"status", "drain", "progress", "cancel"} :
          WF_paneVars(part = "drains" /\ \E m \in Draining!Asked(k) : \E ok \in BOOLEAN : Draining!Answer(m, ok))
    /\ SF_paneVars(part = "drains" /\ \E m \in Draining!Asked("progress") : Draining!Answer(m, TRUE))
    /\ \A b \in {"b1", "b2"} : WF_paneVars(part = "drains" /\ Draining!DrainEnds(b))
PollRuns ==
    /\ WF_paneVars(part = "polls" /\ Polling!PollTick)
    /\ WF_paneVars(part = "polls" /\ \E m \in Polling!Asked("status") : \E ok \in BOOLEAN : Polling!Answer(m, ok))
(* Ticks come, transfers end, and the loop handles every message.            *)
TransferRuns ==
    /\ \A k \in {"tick", "transferDone"} :
          WF_filesVars(part = "transfers" /\ \E m \in filesWire : m.kind = k /\ Moving!Message(m))
    /\ WF_filesVars(part = "transfers" /\ \E w \in work : Moving!Finish(w))
(* Goroutines run, work under a context ends, and timers fire; requests may  *)
(* hang.  A context that is done is seen, though a timer may win each race.   *)
DaemonRuns ==
    /\ WF_daemonVars(part = "serves" /\ Serving!RunStep)
    /\ WF_daemonVars(part = "serves" /\ Serving!Pass)
    /\ \A s \in {"replication"} :
          /\ WF_daemonVars(part = "serves" /\ Serving!Wake(s))
          /\ WF_daemonVars(part = "serves" /\ (Serving!Skip(s) \/ Serving!BeginWork(s)))
          /\ WF_daemonVars(part = "serves" /\ Serving!EndWork(s))
          /\ WF_daemonVars(part = "serves" /\ Serving!Restart(s))
          /\ SF_daemonVars(part = "serves" /\ Serving!End(s))
(* Handlers and goroutines run, and the passes they run end.                 *)
ApiRuns ==
    /\ WF_apiVars(part = "answers" /\ Answered!CallStep("c1"))
    /\ WF_apiVars(part = "answers" /\ \E j \in jobs : Answered!JobStep(j))
FairParts == SpecParts /\ DaemonRuns /\ ApiRuns /\ FleetRuns /\ OverlapRuns /\ Applies /\ DrainRuns /\ PollRuns /\ TransferRuns

-----------------------------------------------------------------------------


=============================================================================
