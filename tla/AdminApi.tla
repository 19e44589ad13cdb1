------------------------------ MODULE AdminApi ------------------------------
(***************************************************************************)
(* The HTTP surfaces operators use: the admin API with its maintenance     *)
(* passes, the command line client that reads their output, the dashboard  *)
(* that runs the same passes in the background, and the roster the         *)
(* instances publish.  Requests reach any instance; an instance may be     *)
(* restarted at any time, and a caller may go away.                        *)
(*                                                                         *)
(* What the operations behind a route do to the ledger, the backends and   *)
(* the provisioning tables is the subject of the other modules: here a     *)
(* route that is not a pass only answers.  There is one registry, as       *)
(* Provisioning publishes it, with one operator's key in it.               *)
(***************************************************************************)
EXTENDS Naturals, Sequences, FiniteSets, TLC

CONSTANTS
    Instances,    \* the processes behind one address
    Callers,      \* the commands and clients of the admin API
    Requests,     \* what they ask for, see Ask
    Backends,     \* the backends the configuration lists
    Buttons,      \* the dashboard's actions in use
    Holdings,     \* what the operator may hold: permissions per resource
    Enabled,      \* the subsystems that are configured
    ConfirmTTL,   \* how long a purge confirmation is valid
    SessionTTL,   \* how long a session is
    MaxFailures, Lockout, \* wrong passwords before a client is locked out, for how long
    BeatTTL,      \* beats a report outlives the last one that refreshed it
    MaxTime, MaxCalls, MaxSteps, MaxRestarts, MaxEdits, MaxLogins, MaxMisses, \* bounds
    None

VARIABLES
    clock, restarts,
    proc,         \* per instance: which process it is, the key it signs with included
    key,          \* the registry: whose the key is, and what they hold
    edits,        \* changes made to it
    calls,        \* per caller: the request it has out, or how it ended
    asked,        \* requests sent
    tokens,       \* per caller: the purge confirmation it was given
    previews,     \* the purge previews answered, ever
    scrubLock,    \* who holds the scrubber's advisory lock
    tracker,      \* per instance and action: running, and the last report
    jobs,         \* the dashboard's goroutines
    runs,         \* per instance and action: runs begun by its process
    cookie,       \* the browser's session
    attempts,     \* per instance: failed logins of the browser's address
    logins,       \* logins tried
    reports,      \* shared state: per instance, the report last published
    missed,       \* per instance: beats missed in a row
    beaten        \* the instances whose beat of this tick is done

callVars == <<calls, asked, tokens, previews>>
boardVars == <<tracker, jobs, runs, cookie, attempts, logins>>
rosterVars == <<reports, missed, beaten>>
timeVars == <<clock, restarts, proc>>
regVars == <<key, edits>>
vars == <<timeVars, regVars, callVars, scrubLock, boardVars, rosterVars>>

(***************************************************************************)
(* Routes: the resource kind and the permission each one declares, and     *)
(* what its handler does.                                                  *)
(***************************************************************************)

Declare(routes, kind, perm, does) == [r \in routes |-> [kind |-> kind, perm |-> perm, does |-> does]]

StatusRoutes ==
    Declare({"status", "reload-status", "config", "workers", "instances", "cleanup-queue", "cleanup-dlq",
             "replication", "over-replication", "log-level", "unreadable", "cache"},
            "orchestrator", "admin-read", "read")
    @@ Declare({"logs", "trace"}, "orchestrator", "admin-logs", "read")

ObjectRoutes ==
    Declare({"locations", "get", "get-tags", "scrub-key"}, "bucket", "read", "object")
    @@ Declare({"list"}, "bucket", "list", "object")
    @@ Declare({"put"}, "bucket", "write", "object")
    @@ Declare({"put-tags", "delete-tags"}, "bucket", "tags", "object")
    @@ Declare({"delete"}, "bucket", "delete", "object")
    @@ Declare({"delete-prefix"}, "bucket", "delete", "walk")

FleetRoutes ==
    Declare({"replicate", "rebalance", "lifecycle", "clean-excess", "purge-unreadable"},
            "orchestrator", "admin-maintain", "pass")
    @@ Declare({"usage-flush", "usage-reconcile"}, "orchestrator", "admin-maintain", "change")
    @@ Declare({"dlq-requeue"}, "backend", "admin-maintain", "change")
    @@ Declare({"set-log-level"}, "orchestrator", "admin-config", "change")

BackendRoutes ==
    Declare({"drain", "cancel-drain"}, "backend", "admin-drain", "change")
    @@ Declare({"drain-progress"}, "backend", "admin-read", "read")
    @@ Declare({"cordon", "uncordon"}, "backend", "admin-cordon", "change")
    @@ Declare({"remove-backend"}, "backend", "admin-decommission", "change")
    @@ Declare({"purge-backend"}, "backend", "admin-decommission", "purge")

IntegrityRoutes == Declare({"scrub", "backfill-checksums", "reconcile"}, "backend", "admin-maintain", "pass")

Rewrites == {"encrypt-existing", "decrypt-existing", "compress-existing", "decompress-existing"}
RewriteRoutes == Declare(Rewrites, "backend", "admin-convert", "pass")

CacheRoutes == Declare({"cache-flush", "cache-key", "cache-prefix"}, "orchestrator", "admin-cache", "change")

ProvisioningRoutes ==
    Declare({"provisioning", "create-bucket", "update-bucket", "delete-bucket", "create-user", "rename-user",
             "delete-user", "create-credential", "delete-credential", "create-grant", "set-grant",
             "delete-grant"}, "orchestrator", "admin-provision", "change")
    @@ Declare({"rotate-key"}, "orchestrator", "admin-keys", "change")

Routes ==
    StatusRoutes @@ ObjectRoutes @@ FleetRoutes @@ BackendRoutes @@ IntegrityRoutes @@ RewriteRoutes
    @@ CacheRoutes @@ ProvisioningRoutes

\* The dashboard's actions, each authorized as the admin route of its operation.
ActionRoutes ==
    {"rebalance", "clean-excess", "lifecycle", "replicate", "scrub", "backfill-checksums",
     "encrypt-existing", "compress-existing", "decompress-existing"}

\* A request: its route, the backend, bucket or key it names ("" for none),
\* whether it asks for a stream, whether the client prints JSON, and whether it
\* carries a purge confirmation.
Ask(route, name, stream, json, confirm) ==
    [route |-> route, name |-> name, stream |-> stream, json |-> json, confirm |-> confirm]

(***************************************************************************)
(* The commands of the admin client, j when they print JSON.  A command    *)
(* that can run long asks for a stream; the bulk rewrites do not.          *)
(***************************************************************************)

Plainly(routes, name, j) == {Ask(r, name, FALSE, j, FALSE) : r \in routes}
Streaming(routes, name, j) == {Ask(r, name, TRUE, j, FALSE) : r \in routes}

StatusCommands(j) == Plainly({"status", "cleanup-queue"}, "", j)
ObserveCommands(j) == Plainly({"workers", "instances", "reload-status", "config", "trace"}, "", j)
CacheCommands(j) == Plainly({"cache", "cache-flush", "cache-key", "cache-prefix"}, "", j)
TagCommands(k, j) == Plainly({"get-tags", "put-tags", "delete-tags", "locations"}, k, j)
DlqCommands(b, j) == Plainly({"dlq-requeue"}, b, j) \cup Plainly({"cleanup-dlq"}, "", j)
DrainCommands(b, j) == Plainly({"drain", "drain-progress", "cancel-drain", "cordon", "uncordon"}, b, j)
\* Without -confirm the preview is all; with it the preview's confirmation is
\* sent back at once.
RemoveCommands(b, j) ==
    Plainly({"remove-backend", "purge-backend"}, b, j) \cup {Ask("purge-backend", b, TRUE, j, TRUE)}
RewriteCommands(routes, b, j) == Plainly(routes, b, j)
KeyCommands(b, j) ==
    RewriteCommands({"encrypt-existing", "decrypt-existing"}, b, j) \cup Plainly({"rotate-key"}, "", j)
CodecCommands(b, j) == RewriteCommands({"compress-existing", "decompress-existing"}, b, j)
ScrubCommands(b, k, j) == Streaming({"scrub"}, b, j) \cup Plainly({"scrub-key"}, k, j)
BackfillCommands(b, j) == Streaming({"backfill-checksums"}, b, j)
ReconcileCommands(b, j) == Streaming({"reconcile"}, b, j)
ReplicaCommands(j) == Streaming({"replicate", "clean-excess"}, "", j) \cup Plainly({"over-replication"}, "", j)
UnreadableCommands(j) == Streaming({"purge-unreadable"}, "", j) \cup Plainly({"unreadable"}, "", j)
FleetCommands(j) ==
    Streaming({"rebalance", "lifecycle"}, "", j)
    \cup Plainly({"usage-flush", "usage-reconcile", "log-level", "set-log-level"}, "", j)
BucketCommands(j) ==
    Plainly({"provisioning", "create-bucket", "delete-bucket", "create-user", "rename-user", "delete-user"}, "", j)
GrantCommands(j) ==
    Plainly({"create-credential", "delete-credential", "create-grant", "set-grant", "delete-grant"}, "", j)

AdminCommands(b, k, j) ==
    UNION {StatusCommands(j), ObserveCommands(j), CacheCommands(j), TagCommands(k, j), DlqCommands(b, j),
           DrainCommands(b, j), RemoveCommands(b, j), KeyCommands(b, j), CodecCommands(b, j),
           ScrubCommands(b, k, j), BackfillCommands(b, j), ReconcileCommands(b, j), ReplicaCommands(j),
           UnreadableCommands(j), FleetCommands(j), BucketCommands(j), GrantCommands(j)}

(***************************************************************************)
(* Who may do what.                                                        *)
(***************************************************************************)

Held(holds, kind, name) == IF <<kind, name>> \in DOMAIN holds THEN holds[<<kind, name>>] ELSE {}

\* The named grant and the wildcard of its kind.
CanAdmin(holds, kind, name, perm) ==
    perm \in Held(holds, kind, name) \cup (IF kind # "orchestrator" THEN Held(holds, kind, "*") ELSE {})

\* A bucket's own grant answers alone, so that it can narrow the wildcard; a key
\* that names no bucket needs the wildcard.
AuthorizeKey(holds, bucket, perm) ==
    perm \in IF bucket # "" /\ <<"bucket", bucket>> \in DOMAIN holds
             THEN holds[<<"bucket", bucket>>] ELSE Held(holds, "bucket", "*")

\* A backend route that names no backend runs over all of them.
AuthorizeAdmin(holds, rt, name) ==
    CanAdmin(holds, rt.kind, IF rt.kind = "orchestrator" THEN "" ELSE IF name = "" THEN "*" ELSE name, rt.perm)

Authorized(holds, req) ==
    LET rt == Routes[req.route]
    IN IF rt.kind = "bucket" THEN AuthorizeKey(holds, req.name, rt.perm)
       ELSE AuthorizeAdmin(holds, rt, req.name)

CanUseDashboard(holds) == CanAdmin(holds, "orchestrator", "", "admin-read")

(***************************************************************************)
(* A call.  stage: "idle", then "sent", "running" while a pass or a walk   *)
(* goes on, "answered" once the handler returned, "closed" once the client *)
(* exited.  end is how the operation ended, held what the caller held when *)
(* it was authorized, touched the backends the pass worked on.             *)
(***************************************************************************)

NoCall == [stage |-> "idle", req |-> None, at |-> None, events |-> <<>>, status |-> 0, end |-> "none",
           failed |-> FALSE, cut |-> FALSE, exit |-> 0, held |-> None, touched |-> {}, steps |-> 0]

Set(c, r) == calls' = [calls EXCEPT ![c] = r]

\* emit: one event, unless an earlier write failed.
Emit(r, events) == IF r.req.stream /\ ~r.cut THEN [r EXCEPT !.events = @ \o events] ELSE r

Answer(r, status) == [r EXCEPT !.stage = "answered", !.status = status]

\* SkipReason and skipIsError: a rewrite that cannot run fails, other passes are skipped.
Skipped(route) == IF route \in Rewrites THEN "failed" ELSE "skipped"

\* Report: how a pass that ended as end is answered, as one response or as the
\* last event of its stream.
Report(r, end, status) ==
    IF r.req.stream THEN Answer(Emit([r EXCEPT !.end = end], <<"result-" \o end>>), 200)
    ELSE Answer([r EXCEPT !.end = end], status)

\* The backends a pass works on.
Scope(req) == IF Routes[req.route].kind = "backend" /\ req.name # "" THEN {req.name} ELSE Backends

\* A pass declines when its subsystem is not configured, and a scrub while
\* another holds the lock.
ReplicationOff(route) == route \in {"replicate", "clean-excess"} /\ "replication" \notin Enabled
RebalanceOff(route) == route = "rebalance" /\ "rebalance" \notin Enabled
LifecycleOff(route) == route = "lifecycle" /\ "lifecycle" \notin Enabled
IntegrityOff(route) == route \in {"scrub", "backfill-checksums"} /\ "integrity" \notin Enabled
EncryptionOff(route) == route \in {"encrypt-existing", "decrypt-existing"} /\ "encryption" \notin Enabled
CompressionOff(route) == route \in {"compress-existing", "decompress-existing"} /\ "compression" \notin Enabled
ScrubInProgress(route) == route = "scrub" /\ scrubLock # None
Declines(route) ==
    \/ ReplicationOff(route) \/ RebalanceOff(route) \/ LifecycleOff(route) \/ IntegrityOff(route)
    \/ EncryptionOff(route) \/ CompressionOff(route) \/ ScrubInProgress(route)

\* How a pass may end once it began: a lifecycle sweep counts what it could not
\* delete and ends well, a rebalance that plans no move is skipped.
Endings(route, steps) ==
    {"ok"} \cup (IF route = "lifecycle" THEN {} ELSE {"failed"})
    \cup (IF route = "rebalance" /\ steps = 0 THEN {"skipped"} ELSE {})

Begin(c, r, who) ==
    LET route == r.req.route
        begun == Emit(r, <<"start">>)
    IN IF Declines(route)
       THEN /\ Set(c, Report(begun, Skipped(route), IF route \in Rewrites THEN 400 ELSE 200))
            /\ UNCHANGED scrubLock
       ELSE /\ Set(c, [begun EXCEPT !.stage = "running"])
            /\ scrubLock' = IF route = "scrub" THEN who ELSE scrubLock

(***************************************************************************)
(* Handlers.                                                               *)
(***************************************************************************)

Send(c, req, i) ==
    /\ calls[c].stage \in {"idle", "closed"} /\ asked < MaxCalls
    /\ req.confirm => tokens[c] # None
    /\ Set(c, [NoCall EXCEPT !.stage = "sent", !.req = req, !.at = i])
    /\ asked' = asked + 1
    /\ UNCHANGED <<timeVars, regVars, tokens, previews, scrubLock, boardVars, rosterVars>>

(***************************************************************************)
(* What a handler that runs no pass may answer.                            *)
(***************************************************************************)

Answering(routes, codes) == [r \in routes |-> codes]
Rejected == {400, 403, 404, 409}   \* what rejectionStatus maps a refusal to

StatusAnswers ==
    Answering({"reload-status"}, {200}) @@ Answering({"config"}, {200, 500, 503}) @@ Answering({"status"}, {200, 500})
LedgerAnswers ==
    Answering({"locations"}, {200, 500} \cup Rejected)
    @@ Answering({"log-level"}, {200}) @@ Answering({"set-log-level"}, {200, 400})
    @@ Answering({"cleanup-queue", "usage-flush", "usage-reconcile"}, {200, 500})
InstanceAnswers == Answering({"instances"}, {200}) @@ Answering({"workers"}, {200, 503})
LogAnswers == Answering({"logs"}, {200, 400, 503})
TraceAnswers == Answering({"trace"}, {200, 500, 503})
ReplicationAnswers == Answering({"over-replication"}, {200, 500}) @@ Answering({"replication"}, {200, 503})
ObjectAnswers ==
    Answering({"list", "get", "delete"}, {200, 500} \cup Rejected)
    @@ Answering({"put"}, {200, 411, 413, 500} \cup Rejected)
TagAnswers == Answering({"get-tags", "put-tags", "delete-tags"}, {200, 500} \cup Rejected)
DlqAnswers == Answering({"cleanup-dlq", "dlq-requeue"}, {200, 400, 500})
BackendAnswers ==
    Answering({"drain"}, {202, 400})
    @@ Answering({"cancel-drain", "cordon", "uncordon", "remove-backend"}, {200, 400})
    @@ Answering({"drain-progress"}, {200, 500})
IntegrityAnswers ==
    Answering({"scrub-key"}, {200, 500} \cup Rejected) @@ Answering({"unreadable"}, {200, 400, 500})
CacheAnswers ==
    Answering({"cache", "cache-flush"}, {200, 503}) @@ Answering({"cache-key", "cache-prefix"}, {200, 400, 503})
BucketAnswers ==
    Answering({"provisioning"}, {200, 500})
    @@ Answering({"update-bucket", "delete-bucket", "rename-user", "delete-user"}, {200, 500} \cup Rejected)
    @@ Answering({"create-bucket", "create-user"}, {201, 500} \cup Rejected)
GrantAnswers ==
    Answering({"create-credential", "create-grant"}, {201, 500} \cup Rejected)
    @@ Answering({"set-grant", "delete-credential", "delete-grant"}, {200, 500} \cup Rejected)
KeyAnswers == Answering({"rotate-key"}, {200, 500} \cup Rejected)

Answers ==
    StatusAnswers @@ LedgerAnswers @@ InstanceAnswers @@ LogAnswers @@ TraceAnswers @@ ReplicationAnswers
    @@ ObjectAnswers @@ TagAnswers @@ DlqAnswers @@ BackendAnswers @@ IntegrityAnswers @@ CacheAnswers
    @@ BucketAnswers @@ GrantAnswers @@ KeyAnswers

\* The key that signs them is drawn when a process starts.
SigningKey(i) == <<i, proc[i]>>
SignToken(i, name) == [signer |-> SigningKey(i), name |-> name, expiry |-> clock + ConfirmTTL]
VerifyToken(i, name, t) == t.signer = SigningKey(i) /\ clock < t.expiry /\ t.name = name

\* Purge: a preview and its confirmation, or with a valid one the pass.
HandleRemoveBackend(c, r) ==
    IF r.req.confirm
    THEN /\ IF VerifyToken(r.at, r.req.name, tokens[c])
            THEN Begin(c, r, c)
            ELSE Set(c, Answer(r, 403)) /\ UNCHANGED scrubLock
         /\ UNCHANGED <<tokens, previews>>
    ELSE /\ UNCHANGED scrubLock
         /\ \/ /\ Set(c, Answer(r, 200))
               /\ tokens' = [tokens EXCEPT ![c] = SignToken(r.at, r.req.name)]
               /\ previews' = previews \cup
                     {[at |-> r.at, proc |-> proc[r.at], name |-> r.req.name, when |-> clock]}
            \/ Set(c, Answer(r, 400)) /\ UNCHANGED <<tokens, previews>>

\* A pass limited to a backend the configuration does not list is refused, and
\* so is a reconcile with no reconciler.
HandlePass(c, r) ==
    IF Routes[r.req.route].kind = "backend" /\ r.req.name \notin Backends \cup {""}
    THEN Set(c, Answer(r, 400)) /\ UNCHANGED scrubLock
    ELSE IF r.req.route = "reconcile" /\ "reconcile" \notin Enabled
    THEN Set(c, Answer(r, 503)) /\ UNCHANGED scrubLock
    ELSE Begin(c, r, c)

\* guard, and the handler up to its answer or to the start of its pass.
Serve(c) ==
    LET r == [calls[c] EXCEPT !.held = key.holds]
        does == Routes[r.req.route].does
    IN /\ calls[c].stage = "sent"
       /\ IF key.user = None \/ ~Authorized(key.holds, r.req)
          THEN /\ Set(c, Answer(calls[c], IF key.user = None THEN 401 ELSE 403))
               /\ UNCHANGED <<tokens, previews, scrubLock>>
          ELSE CASE does = "pass"  -> HandlePass(c, r) /\ UNCHANGED <<tokens, previews>>
                 [] does = "purge" -> HandleRemoveBackend(c, r)
                 [] does = "walk"  -> /\ IF r.req.name = "" THEN Set(c, Answer(r, 400))
                                         ELSE Set(c, [r EXCEPT !.stage = "running"])
                                      /\ UNCHANGED <<tokens, previews, scrubLock>>
                 [] OTHER          -> /\ \E s \in Answers[r.req.route] : Set(c, Answer(r, s))
                                      /\ UNCHANGED <<tokens, previews, scrubLock>>
       /\ UNCHANGED <<timeVars, regVars, asked, boardVars, rosterVars>>

Sequential == Rewrites \cup {"lifecycle", "scrub", "backfill-checksums", "purge-backend",
                             "purge-unreadable", "reconcile"}

\* One item: a pass that works on one at a time announces it first.
Step(c, b, ok) ==
    LET r == calls[c]
        ends == IF ok THEN "step-ok" ELSE "step-failed"
    IN /\ r.stage = "running" /\ r.steps < MaxSteps
       /\ b \in Scope(r.req)
       /\ Set(c, Emit([r EXCEPT !.steps = @ + 1, !.touched = @ \cup {b}, !.failed = @ \/ ~ok],
                      IF r.req.route \in Sequential THEN <<"step-start", ends>> ELSE <<ends>>))
       /\ UNCHANGED <<timeVars, regVars, asked, tokens, previews, scrubLock, boardVars, rosterVars>>

\* A walk over a prefix reports what it could not delete.
DeletePrefix(r, end) == Answer([r EXCEPT !.end = end], IF end = "ok" /\ ~r.failed THEN 200 ELSE 500)

\* The pass or the walk returns.
Finish(c, end) ==
    LET r == calls[c]
    IN /\ r.stage = "running"
       /\ end \in Endings(r.req.route, r.steps)
       /\ Set(c, IF Routes[r.req.route].does = "walk" THEN DeletePrefix(r, end)
                 ELSE Report(r, end, IF end = "failed" THEN 500 ELSE 200))
       /\ scrubLock' = IF scrubLock = c THEN None ELSE scrubLock
       /\ UNCHANGED <<timeVars, regVars, asked, tokens, previews, boardVars, rosterVars>>

\* The client's exit code.  Printing JSON, any failed event of a stream fails;
\* printing text, the result alone.
StreamFailed(r) ==
    LET e == {r.events[n] : n \in DOMAIN r.events}
    IN "result-failed" \in e \/ (r.req.json /\ "step-failed" \in e)
Exit(r) == IF r.status >= 400 \/ StreamFailed(r) THEN 1 ELSE 0

Receive(c) ==
    /\ calls[c].stage = "answered"
    /\ Set(c, IF calls[c].cut THEN [calls[c] EXCEPT !.stage = "closed"]
              ELSE [calls[c] EXCEPT !.stage = "closed", !.exit = Exit(calls[c])])
    /\ UNCHANGED <<timeVars, regVars, asked, tokens, previews, scrubLock, boardVars, rosterVars>>

\* The caller is interrupted, or a request that is not streamed times out.  The
\* operation goes on until it sees its context, and the client has failed.
Cut(c) ==
    /\ calls[c].stage \in {"sent", "running"} /\ ~calls[c].cut
    /\ Set(c, [calls[c] EXCEPT !.cut = TRUE, !.exit = 1])
    /\ UNCHANGED <<timeVars, regVars, asked, tokens, previews, scrubLock, boardVars, rosterVars>>

(***************************************************************************)
(* The dashboard.                                                          *)
(***************************************************************************)

Idle == [running |-> FALSE, report |-> None]

IsLockedOut(i) == clock < attempts[i].until
RecordFailure(i) ==
    LET n == attempts[i].failures + 1
    IN attempts' = [attempts EXCEPT ![i] = [failures |-> n,
                        until |-> IF n >= MaxFailures THEN clock + Lockout ELSE attempts[i].until]]
NoFailure == [failures |-> 0, until |-> 0]
RecordSuccess(i) == attempts' = [attempts EXCEPT ![i] = NoFailure]

\* The table's sweep drops an entry that locks nobody out.
SweepAttempts(i) ==
    /\ attempts[i] # NoFailure /\ clock > attempts[i].until
    /\ attempts' = [attempts EXCEPT ![i] = NoFailure]
    /\ UNCHANGED <<timeVars, regVars, callVars, scrubLock, tracker, jobs, runs, cookie, logins, rosterVars>>

\* processLoginAttempt: a locked out client's password is not looked at.
Login(i, right) ==
    /\ logins < MaxLogins /\ logins' = logins + 1
    /\ IF IsLockedOut(i) THEN UNCHANGED <<attempts, cookie>>
       ELSE IF ~right \/ key.user = None THEN RecordFailure(i) /\ UNCHANGED cookie
       ELSE /\ RecordSuccess(i)
            /\ cookie' = IF CanUseDashboard(key.holds)
                         THEN [user |-> key.user, expiry |-> clock + SessionTTL] ELSE cookie
    /\ UNCHANGED <<timeVars, regVars, callVars, scrubLock, tracker, jobs, runs, rosterVars>>

Logout ==
    /\ cookie # None
    /\ cookie' = None
    /\ UNCHANGED <<timeVars, regVars, callVars, scrubLock, tracker, jobs, runs, attempts, logins, rosterVars>>

\* sessionUser, requireAuth: the session names a user, and the key must still be
\* theirs.
SessionUser == cookie # None /\ clock < cookie.expiry /\ key.user = cookie.user
SignedIn == SessionUser /\ CanUseDashboard(key.holds)

\* The dashboard's operations work on the whole fleet.
AuthorizeRoute(a) == AuthorizeAdmin(key.holds, Routes[a], "")

\* TryStart, and the goroutine; a second click is refused while one runs.
TryStart(i, a) ==
    /\ ~tracker[i][a].running
    /\ tracker' = [tracker EXCEPT ![i][a] = [running |-> TRUE, report |-> None]]

StartAction(i, a) ==
    /\ a \in ActionRoutes /\ SignedIn /\ AuthorizeRoute(a)
    /\ runs[i][a] < MaxSteps
    /\ TryStart(i, a)
    /\ runs' = [runs EXCEPT ![i][a] = @ + 1]
    /\ jobs' = jobs \cup {[at |-> i, action |-> a, run |-> runs[i][a] + 1, stage |-> "begun", end |-> None]}
    /\ UNCHANGED <<timeVars, regVars, callVars, scrubLock, cookie, attempts, logins, rosterVars>>

Job(j, k) == jobs' = (jobs \ {j}) \cup {k}

\* The goroutine runs the pass under a context no request can cancel.
RunAction(j) ==
    /\ j \in jobs /\ j.stage = "begun"
    /\ IF Declines(j.action)
       THEN Job(j, [j EXCEPT !.stage = "ended", !.end = Skipped(j.action)]) /\ UNCHANGED scrubLock
       ELSE /\ Job(j, [j EXCEPT !.stage = "running"])
            /\ scrubLock' = IF j.action = "scrub" THEN j.at ELSE scrubLock
    /\ UNCHANGED <<timeVars, regVars, callVars, tracker, runs, cookie, attempts, logins, rosterVars>>

EndAction(j, end) ==
    /\ j \in jobs /\ j.stage = "running"
    /\ end \in Endings(j.action, 0)
    /\ Job(j, [j EXCEPT !.stage = "ended", !.end = end])
    /\ scrubLock' = IF j.action = "scrub" THEN None ELSE scrubLock
    /\ UNCHANGED <<timeVars, regVars, callVars, tracker, runs, cookie, attempts, logins, rosterVars>>

Complete(j) ==
    /\ j \in jobs /\ j.stage = "ended"
    /\ tracker' = [tracker EXCEPT ![j.at][j.action] =
                      [running |-> FALSE, report |-> [run |-> j.run, end |-> j.end]]]
    /\ jobs' = jobs \ {j}
    /\ UNCHANGED <<timeVars, regVars, callVars, scrubLock, runs, cookie, attempts, logins, rosterVars>>

\* What a status poll answered by an instance says.
ActionStatus(i, a) ==
    LET t == tracker[i][a]
    IN IF t.running THEN "running" ELSE IF t.report = None THEN "idle" ELSE t.report.end

(***************************************************************************)
(* The roster.  Every running instance publishes its report once per beat. *)
(***************************************************************************)

\* A report that could not be published is retried on the next beat.
Beat(i, ok) ==
    /\ BeatTTL > 0 /\ i \notin beaten
    /\ beaten' = beaten \cup {i}
    /\ IF ok THEN /\ reports' = [reports EXCEPT ![i] = [proc |-> proc[i], at |-> clock]]
                  /\ missed' = [missed EXCEPT ![i] = 0]
       ELSE /\ missed[i] < MaxMisses /\ missed' = [missed EXCEPT ![i] = @ + 1]
            /\ UNCHANGED reports
    /\ UNCHANGED <<timeVars, regVars, callVars, scrubLock, boardVars>>

\* List: this instance's own report, and the others' that have not expired.
Listed(i) == {i} \cup {j \in Instances : reports[j] # None /\ clock < reports[j].at + BeatTTL}

(***************************************************************************)
(* The surroundings.                                                       *)
(***************************************************************************)

\* The scheduled sweep takes and releases the scrubber's lock.
SweepTick ==
    /\ "integrity" \in Enabled
    /\ \/ scrubLock = None /\ scrubLock' = "tick"
       \/ scrubLock = "tick" /\ scrubLock' = None
    /\ UNCHANGED <<timeVars, regVars, callVars, boardVars, rosterVars>>

\* The key is revoked, issued again to someone else, or its user's grants change.
EditRegistry(user, holds) ==
    /\ edits < MaxEdits /\ edits' = edits + 1
    /\ key' = [user |-> user, holds |-> holds] /\ key' # key
    /\ UNCHANGED <<timeVars, callVars, scrubLock, boardVars, rosterVars>>

\* A process dies with its requests, its goroutines, its trackers and the key it
\* signed confirmations with; its connections break and its locks are released.
Restart(i) ==
    /\ restarts < MaxRestarts /\ restarts' = restarts + 1
    /\ proc' = [proc EXCEPT ![i] = restarts + 1]
    /\ calls' = [c \in Callers |->
                    IF calls[c].at = i /\ calls[c].stage \in {"sent", "running", "answered"}
                    THEN [calls[c] EXCEPT !.stage = "closed", !.cut = TRUE, !.exit = 1] ELSE calls[c]]
    /\ scrubLock' = IF scrubLock = i \/ (scrubLock \in Callers /\ calls[scrubLock].at = i)
                    THEN None ELSE scrubLock
    /\ jobs' = {j \in jobs : j.at # i}
    /\ tracker' = [tracker EXCEPT ![i] = [a \in Buttons |-> Idle]]
    /\ runs' = [runs EXCEPT ![i] = [a \in Buttons |-> 0]]
    /\ attempts' = [attempts EXCEPT ![i] = NoFailure]
    /\ UNCHANGED <<clock, regVars, asked, tokens, previews, cookie, logins, rosterVars>>

Tick ==
    /\ clock < MaxTime /\ clock' = clock + 1
    /\ BeatTTL > 0 => beaten = Instances
    /\ beaten' = {}
    /\ UNCHANGED <<restarts, proc, regVars, callVars, scrubLock, boardVars, reports, missed>>

Init ==
    /\ clock = 0 /\ restarts = 0 /\ proc = [i \in Instances |-> 0]
    /\ key \in {[user |-> "operator", holds |-> h] : h \in Holdings} /\ edits = 0
    /\ calls = [c \in Callers |-> NoCall] /\ asked = 0
    /\ tokens = [c \in Callers |-> None] /\ previews = {}
    /\ scrubLock = None
    /\ tracker = [i \in Instances |-> [a \in Buttons |-> Idle]] /\ jobs = {}
    /\ runs = [i \in Instances |-> [a \in Buttons |-> 0]]
    /\ cookie = None /\ logins = 0
    /\ attempts = [i \in Instances |-> NoFailure]
    /\ reports = [i \in Instances |-> None] /\ missed = [i \in Instances |-> 0] /\ beaten = {}

CallStep(c) ==
    \/ Serve(c) \/ Receive(c)
    \/ \E end \in {"ok", "failed", "skipped"} : Finish(c, end)
    \/ \E b \in Backends, ok \in BOOLEAN : Step(c, b, ok)
JobStep(j) == RunAction(j) \/ Complete(j) \/ \E end \in {"ok", "failed", "skipped"} : EndAction(j, end)

Next ==
    \/ \E c \in Callers : CallStep(c) \/ Cut(c) \/ \E req \in Requests, i \in Instances : Send(c, req, i)
    \/ \E j \in jobs : JobStep(j)
    \/ \E i \in Instances : \/ Restart(i) \/ SweepAttempts(i)
                            \/ \E a \in Buttons : StartAction(i, a)
                            \/ \E b \in BOOLEAN : Login(i, b) \/ Beat(i, b)
    \/ Logout \/ SweepTick \/ Tick
    \/ \E u \in {"operator", "other", None}, h \in Holdings : EditRegistry(u, h)

Spec == Init /\ [][Next]_vars

(***************************************************************************)
(* Properties.                                                             *)
(***************************************************************************)

TypeOK ==
    /\ \A c \in Callers : calls[c].stage \in {"idle", "sent", "running", "answered", "closed"}
    /\ \A i \in Instances : proc[i] \in 0..restarts
    /\ key.holds \in Holdings /\ clock \in 0..MaxTime
    /\ \A j \in jobs : j.stage \in {"begun", "running", "ended"}

\* A command that exits 0 did what it was asked: its pass ended, and not in
\* failure, a rewrite was not merely declined, and nothing under a deleted prefix
\* was left (consumeStream, renderStreamEvent, do, DeletePrefix).  An interrupted
\* one, or one whose server died in the middle of a stream, never exits 0.
ExitMeansDone ==
    \A c \in Callers : LET r == calls[c] IN
        r.stage = "closed" /\ r.exit = 0 =>
            /\ ~r.cut /\ r.status < 400
            /\ r.steps > 0 \/ r.events # <<>> => r.end \in {"ok", "skipped"}
            /\ r.req.route \in Rewrites => r.end = "ok"
            /\ r.failed => Routes[r.req.route].does # "walk" /\ ~(r.req.json /\ r.req.stream)

\* A stream the client reads to its end has one start, first, and one result,
\* last, the outcome that a single response would have reported (streamPass).
StreamIsWhole ==
    \A c \in Callers : LET r == calls[c]  n == Len(r.events) IN
        r.req # None /\ n > 0 =>
            /\ \A k \in 1..n : r.events[k] = "start" <=> k = 1
            /\ \A k \in 1..n : r.events[k] \in {"result-ok", "result-skipped", "result-failed"} => k = n
            /\ r.stage = "closed" /\ ~r.cut => r.events[n] = "result-" \o r.end

\* A pass works only on backends its caller was granted the permission on: one
\* that names none was started by a caller who holds it on all (authorizeAdmin).
WithinGrant ==
    \A c \in Callers : LET r == calls[c]  rt == Routes[r.req.route] IN
        r.touched # {} /\ rt.kind = "backend" =>
            \A b \in r.touched : CanAdmin(r.held, "backend", b, rt.perm)

\* One scrub at a time, whoever asked for it: a caller, the dashboard of an
\* instance or the schedule; and the lock is nobody's once it is over (Scrub).
OneScrub ==
    LET calling == {c \in Callers : calls[c].stage = "running" /\ calls[c].req.route = "scrub"}
        acting == {j.at : j \in {k \in jobs : k.stage = "running" /\ k.action = "scrub"}}
    IN (IF scrubLock \in {None, "tick"} THEN {} ELSE {scrubLock}) = calling \cup acting

\* An instance runs an action once at a time, says so exactly while it does, and
\* then reports how its latest run ended (TryStart, Complete, Status).
OneAction ==
    \A i \in Instances, a \in Buttons :
        LET mine == {j \in jobs : j.at = i /\ j.action = a} IN
        /\ Cardinality(mine) = IF tracker[i][a].running THEN 1 ELSE 0
        /\ \A j \in mine : j.run = runs[i][a]
        /\ ActionStatus(i, a) \in {"ok", "failed", "skipped"} => tracker[i][a].report.run = runs[i][a]
        /\ ActionStatus(i, a) = "idle" => runs[i][a] = 0

\* An instance that has published and did not miss two beats in a row is on
\* every other instance's list (Roster.Run, rosterTTLBeats, Roster.List).
LiveIsListed ==
    \A i, j \in Instances : reports[j] # None /\ missed[j] <= 1 => j \in Listed(i)

\* A purge begins only on the process that previewed that backend, and before
\* the preview is too old (handleRemoveBackend, generateRemoveToken).
ConfirmedPurge ==
    \A c \in Callers : LET r == calls'[c] IN
        r.stage = "running" /\ calls[c].stage # "running" /\ r.req.route = "purge-backend" =>
            \E p \in previews : /\ p.at = r.at /\ p.proc = proc[r.at] /\ p.name = r.req.name
                               /\ clock < p.when + ConfirmTTL

\* The dashboard starts an action only for the user who signed in, while the key
\* is still theirs and carries the action's permission on all it works on: a key
\* that was revoked, or issued to another, ends the session (sessionUser).
ForSignedIn ==
    \A j \in jobs' \ jobs : j.stage = "begun" =>
        /\ key.user = cookie.user /\ clock < cookie.expiry
        /\ \A b \in Backends : Routes[j.action].kind = "backend" =>
                CanAdmin(key.holds, "backend", b, Routes[j.action].perm)

\* Once nobody asks any more, every request is over for its caller and no action
\* runs, whatever was interrupted, revoked or restarted (servePass, startAction).
Ends ==
    <>[](/\ \A i \in Instances, a \in Buttons : ~tracker[i][a].running
         /\ \A c \in Callers : calls[c].stage \in {"idle", "closed"})
=============================================================================
