---------------------------- MODULE AdminConsole ----------------------------
(***************************************************************************)
(* The administration panes of the terminal console: the poller that keeps *)
(* every pane fresh, the logs pane with its level floor, the drain a pane  *)
(* follows, and the one action that streams its output.  All of them share *)
(* one loop: keys and messages are handled one at a time, while requests   *)
(* run outside it and answer, or fail, in any order.                       *)
(*                                                                         *)
(* Targets: "status" is polled everywhere, "workers" while its pane shows, *)
(* "logs" while its pane shows and follows, "progress" while a drain is    *)
(* followed; the remaining targets are of the first two kinds.  The row    *)
(* highlighted may be any backend, so a key press picks one.               *)
(***************************************************************************)
EXTENDS Naturals, FiniteSets, Bags

CONSTANTS
    Sections,   \* the panes the operator visits
    Backends,   \* the backends listed
    Offered,    \* the actions the operator uses
    Levels,     \* how many level floors the logs pane cycles through
    Every,      \* per target: ticks between two requests
    MaxActions, \* bound: accepted actions not yet answered
    MaxLogs,    \* bound: pages of logs asked for at once
    NoBackend

VARIABLES
    section,    \* the pane showing
    inFlight,   \* the targets the poller believes are being fetched
    wait,       \* per target: ticks until it is due
    loading,    \* the panes showing a loading state
    have,       \* the panes holding a first result
    level,      \* the logs pane's level floor
    following,  \* the logs pane follows
    watch,      \* the drain being followed
    scope,      \* the backend the ops menu names, if any
    run,        \* the one streamed action
    confirm,    \* the action armed behind a y/N question
    wire,       \* the requests not yet answered, a bag
    draining    \* the service: backends being drained

vars == <<section, inFlight, wait, loading, have, level, following, watch, scope,
          run, confirm, wire, draining>>

Targets == DOMAIN Every
None == [kind |-> "none", arg |-> NoBackend]
Unwatched == [backend |-> NoBackend, following |-> FALSE]
Idle == [owner |-> "none", shown |-> FALSE, running |-> FALSE, stream |-> FALSE]

\* A request is its kind, the backend it is about and the level it was asked at.
Req(kind, arg, lvl) == [kind |-> kind, arg |-> arg, level |-> lvl]

Asked(kind) == {m \in BagToSet(wire) : m.kind = kind}
CountAsked(kind) == BagCardinality([m \in Asked(kind) |-> wire[m]])

logsVars == <<level, following>>

(***************************************************************************)
(* The poller.  A step below sends requests with Fetch, which is silent    *)
(* about a target already in flight.                                       *)
(***************************************************************************)

\* The command that fetches a target, or none: no drain, no request.
Load(t) ==
    CASE t = "progress" -> IF watch.backend = NoBackend THEN {} ELSE {Req(t, watch.backend, 0)}
      [] t = "logs"     -> {Req(t, NoBackend, level)}
      [] OTHER          -> {Req(t, NoBackend, 0)}

PollWanted(t) ==
    \/ t = "status"
    \/ t = "workers" /\ section = "workers"
    \/ t = "logs" /\ section = "logs" /\ following
    \/ t = "progress" /\ watch.following

\* One tick: every wanted target that is due and not in flight is fetched.
PollTick ==
    LET due == {t \in Targets : PollWanted(t) /\ t \notin inFlight /\ wait[t] = 0 /\ Load(t) # {}}
    IN /\ inFlight' = inFlight \cup due
       /\ wait' = [t \in Targets |-> IF t \in due THEN Every[t]
                                     ELSE IF wait[t] > 0 THEN wait[t] - 1 ELSE 0]
       /\ wire' = wire (+) SetToBag(UNION {Load(t) : t \in due})
       /\ UNCHANGED <<section, loading, have, logsVars, watch, scope, run, confirm, draining>>

\* fetchAt: ask, whatever is in flight.  rest is the wire without the answer
\* being handled, and now the targets in flight once it has landed.
FetchAt(t, req, rest, now) ==
    /\ wire' = rest (+) SetToBag(req)
    /\ inFlight' = IF req = {} THEN now ELSE now \cup {t}
    /\ wait' = IF req = {} THEN wait ELSE [wait EXCEPT ![t] = Every[t]]

\* fetch: ask unless a request is in flight.
FetchFrom(t, req, rest, now) ==
    IF t \in now
    THEN wire' = rest /\ inFlight' = now /\ UNCHANGED wait
    ELSE FetchAt(t, req, rest, now)

Fetch(t) == FetchFrom(t, Load(t), wire, inFlight)
Quiet == UNCHANGED <<wire, inFlight, wait>>

(***************************************************************************)
(* Panes and navigation.                                                   *)
(***************************************************************************)

TargetOf(s) == IF s = "backends" THEN "status" ELSE s

\* A polled pane shows its loading state only before its first result.
Reload(s) ==
    /\ loading' = IF s \in have THEN loading \ {s} ELSE loading \cup {s}
    /\ Fetch(TargetOf(s))

Free == confirm = None

\* The logs pane starts afresh, and the ops menu fleet-wide.
SelectSection(s) ==
    /\ Free
    /\ section' = s
    /\ CASE s = "logs" -> /\ loading' = loading \cup {"logs"}
                          /\ level' = 0 /\ following' = FALSE
                          /\ FetchFrom("logs", {Req("logs", NoBackend, 0)}, wire, inFlight)
                          /\ UNCHANGED scope
         [] s = "ops"  -> scope' = NoBackend /\ Quiet /\ UNCHANGED <<loading, logsVars>>
         [] OTHER      -> Reload(s) /\ UNCHANGED <<logsVars, scope>>
    /\ UNCHANGED <<have, watch, run, confirm, draining>>

ShowingRun == run.shown /\ run.owner = section
InPane(s) == Free /\ section = s /\ ~ShowingRun

ReloadKey ==
    /\ InPane(section) /\ section \in {"backends", "workers"}
    /\ Reload(section)
    /\ UNCHANGED <<section, have, logsVars, watch, scope, run, confirm, draining>>

LogsReload ==
    /\ InPane("logs")
    /\ Fetch("logs")
    /\ UNCHANGED <<section, loading, have, logsVars, watch, scope, run, confirm, draining>>

LogsFollow ==
    /\ InPane("logs")
    /\ following' = ~following
    /\ Quiet
    /\ UNCHANGED <<section, loading, have, level, watch, scope, run, confirm, draining>>

\* "L": the next floor, fetched even past a request in flight.
LogsLevel ==
    /\ InPane("logs") /\ CountAsked("logs") < MaxLogs
    /\ level' = (level + 1) % Levels
    /\ loading' = loading \cup {"logs"}
    /\ FetchAt("logs", {Req("logs", NoBackend, (level + 1) % Levels)}, wire, inFlight)
    /\ UNCHANGED <<section, have, following, watch, scope, run, confirm, draining>>

OpenBackendActions(b) ==
    /\ InPane("backends") /\ "ops" \in Sections
    /\ section' = "ops"
    /\ scope' = b
    /\ Quiet
    /\ UNCHANGED <<loading, have, logsVars, watch, run, confirm, draining>>

(***************************************************************************)
(* Actions behind a question.                                              *)
(***************************************************************************)

Arm(kind, b) ==
    /\ kind \in Offered
    /\ confirm' = [kind |-> kind, arg |-> b]
    /\ Quiet
    /\ UNCHANGED <<section, loading, have, logsVars, watch, scope, run, draining>>

\* "x" only where the highlighted backend's drain is being followed.
ArmBackendAction(b) ==
    /\ InPane("backends")
    /\ \/ Arm("drain", b)
       \/ watch.backend = b /\ Arm("cancel", b)
       \/ Arm("cordon", b)

\* The panes that can start a streamed action, and the backend each one names.
RunTargets ==
    CASE section = "backends" -> Backends
      [] section = "ops"      -> {scope}
      [] section = "workers"  -> {NoBackend}
      [] OTHER                -> {}

\* runBusy: a second action is refused while one is running.
StartRun(b) ==
    /\ InPane(section) /\ b \in RunTargets
    /\ ~run.running
    /\ Arm("run", b)

ConfirmRefused ==
    /\ confirm # None
    /\ confirm' = None
    /\ Quiet
    /\ UNCHANGED <<section, loading, have, logsVars, watch, scope, run, draining>>

Actions == {"drain", "cancel", "cordon", "run"}
Outstanding == BagCardinality([m \in {n \in BagToSet(wire) : n.kind \in Actions} |-> wire[m]])

\* The pane reports that the action started, then the request goes out.
ConfirmAccepted ==
    /\ confirm # None /\ Outstanding < MaxActions
    /\ confirm' = None
    /\ wire' = wire (+) SetToBag({Req(confirm.kind, confirm.arg, 0)})
    /\ watch' = IF confirm.kind = "drain"
                THEN [backend |-> confirm.arg, following |-> FALSE] ELSE watch
    /\ run' = IF confirm.kind = "run"
              THEN [owner |-> section, shown |-> TRUE, running |-> TRUE, stream |-> FALSE] ELSE run
    /\ UNCHANGED <<section, inFlight, wait, loading, have, logsVars, scope, draining>>

\* esc or enter closes the output of an action that has finished.
CloseRun ==
    /\ Free /\ ShowingRun /\ ~run.running
    /\ run' = [run EXCEPT !.shown = FALSE]
    /\ Quiet
    /\ UNCHANGED <<section, loading, have, logsVars, watch, scope, confirm, draining>>

(***************************************************************************)
(* Messages.                                                               *)
(***************************************************************************)

Arrives(m, kind) == BagIn(m, wire) /\ m.kind = kind
Without(m) == wire (-) SetToBag({m})


\* landed: the poller may ask again, whether or not the fetch succeeded.
Landed(t, ok) == inFlight \ {t}

PaneOf(t) == IF t = "status" THEN "backends" ELSE t

\* A snapshot, or a failed load, of a pane that keeps what it has.
LoadDone(m, ok) ==
    /\ Arrives(m, "status") \/ Arrives(m, "workers")
    /\ inFlight' = Landed(m.kind, ok) /\ wire' = Without(m)
    /\ loading' = loading \ {PaneOf(m.kind)}
    /\ have' = IF ok THEN have \cup {PaneOf(m.kind)} ELSE have
    /\ UNCHANGED <<section, wait, logsVars, watch, scope, run, confirm, draining>>

\* A page of a floor the operator has moved off is dropped.
ApplyLogs(m, ok) ==
    /\ Arrives(m, "logs")
    /\ inFlight' = Landed("logs", ok) /\ wire' = Without(m)
    /\ loading' = IF ok /\ m.level # level THEN loading ELSE loading \ {"logs"}
    /\ UNCHANGED <<section, wait, have, logsVars, watch, scope, run, confirm, draining>>

\* The drain was accepted, or failed to start.
ApplyDrainStarted(m, ok) ==
    /\ Arrives(m, "drain")
    /\ IF ok
       THEN /\ watch' = [watch EXCEPT !.following = TRUE]
            /\ draining' = draining \cup {m.arg}
            /\ FetchFrom("progress", Load("progress"), Without(m), inFlight)
       ELSE /\ watch' = Unwatched
            /\ wire' = Without(m) /\ UNCHANGED <<inFlight, wait, draining>>
    /\ UNCHANGED <<section, loading, have, logsVars, scope, run, confirm>>

\* A reading of another backend is stale; a drain no longer active ends the
\* watch and refreshes the status.
ApplyDrainProgress(m, ok) ==
    /\ Arrives(m, "progress")
    /\ IF ok /\ m.arg = watch.backend /\ m.arg \notin draining
       THEN /\ watch' = Unwatched
            /\ FetchFrom("status", Load("status"), Without(m), Landed("progress", ok))
       ELSE /\ inFlight' = Landed("progress", ok) /\ wire' = Without(m)
            /\ UNCHANGED <<watch, wait>>
    /\ UNCHANGED <<section, loading, have, logsVars, scope, run, confirm, draining>>

\* A cancelled drain ends the watch; a failed cancel only reports.
CancelDone(m, ok) ==
    /\ Arrives(m, "cancel")
    /\ IF ok
       THEN /\ watch' = Unwatched
            /\ draining' = draining \ {m.arg}
            /\ FetchFrom("status", Load("status"), Without(m), inFlight)
       ELSE wire' = Without(m) /\ UNCHANGED <<watch, inFlight, wait, draining>>
    /\ UNCHANGED <<section, loading, have, logsVars, scope, run, confirm>>

\* The cordon of a backend, changed or not.
CordonDone(m, ok) ==
    /\ Arrives(m, "cordon")
    /\ IF ok
       THEN FetchFrom("status", Load("status"), Without(m), inFlight)
       ELSE wire' = Without(m) /\ UNCHANGED <<inFlight, wait>>
    /\ UNCHANGED <<section, loading, have, logsVars, watch, scope, run, confirm, draining>>

\* The stream is open and its first event asked for, or the action never began.
ApplyRunStream(m, ok) ==
    /\ Arrives(m, "run")
    /\ run' = [run EXCEPT !.running = ok, !.stream = ok]
    /\ wire' = IF ok THEN Without(m) (+) SetToBag({Req("event", NoBackend, 0)}) ELSE Without(m)
    /\ UNCHANGED <<section, inFlight, wait, loading, have, logsVars, watch, scope, confirm, draining>>

\* One event is shown and the next asked for: the wire stays as it is.
\* At the end of the stream, or when reading it fails, the pane that started
\* the action is reloaded.
ApplyRunDone(m) ==
    /\ Arrives(m, "event")
    /\ run' = [run EXCEPT !.running = FALSE, !.stream = FALSE]
    /\ IF run.owner \in {"backends", "workers"}
       THEN /\ loading' = IF run.owner \in have THEN loading \ {run.owner} ELSE loading \cup {run.owner}
            /\ FetchFrom(TargetOf(run.owner), Load(TargetOf(run.owner)), Without(m), inFlight)
       ELSE wire' = Without(m) /\ UNCHANGED <<inFlight, wait, loading>>
    /\ UNCHANGED <<section, have, logsVars, watch, scope, confirm, draining>>

\* The service finishes a drain.
DrainEnds(b) ==
    /\ b \in draining
    /\ draining' = draining \ {b}
    /\ Quiet
    /\ UNCHANGED <<section, loading, have, logsVars, watch, scope, run, confirm>>

Init ==
    /\ section = "backends" /\ scope = NoBackend
    /\ wire = SetToBag({Req("status", NoBackend, 0)}) /\ inFlight = {"status"}
    /\ wait = [t \in Targets |-> Every[t]]
    /\ loading = {} /\ have = {}
    /\ level = 0 /\ following = FALSE
    /\ watch = Unwatched /\ run = Idle /\ confirm = None
    /\ draining = {}

Keys ==
    \/ \E s \in Sections : SelectSection(s)
    \/ ReloadKey \/ LogsReload \/ LogsFollow \/ LogsLevel
    \/ ConfirmRefused \/ ConfirmAccepted \/ CloseRun
    \/ \E b \in Backends : OpenBackendActions(b) \/ ArmBackendAction(b)
    \/ \E b \in Backends \cup {NoBackend} : StartRun(b)

Answer(m, ok) ==
    \/ LoadDone(m, ok) \/ ApplyLogs(m, ok)
    \/ ApplyDrainStarted(m, ok) \/ ApplyDrainProgress(m, ok)
    \/ CancelDone(m, ok) \/ CordonDone(m, ok)
    \/ ApplyRunStream(m, ok)

Messages == \E m \in BagToSet(wire) : ApplyRunDone(m) \/ \E ok \in BOOLEAN : Answer(m, ok)

Next == Keys \/ PollTick \/ Messages \/ \E b \in Backends : DrainEnds(b)

Spec == Init /\ [][Next]_vars

(***************************************************************************)
(* Properties.                                                             *)
(***************************************************************************)

TypeOK ==
    /\ section \in {"backends", "workers", "logs", "ops"}
    /\ inFlight \subseteq Targets
    /\ wait \in [Targets -> 0..10] /\ \A t \in Targets : wait[t] <= Every[t]
    /\ loading \subseteq {"backends", "workers", "logs"} /\ have \subseteq {"backends", "workers"}
    /\ level \in 0..Levels - 1 /\ following \in BOOLEAN
    /\ watch.backend \in Backends \cup {NoBackend} /\ watch.following \in BOOLEAN
    /\ scope \in Backends \cup {NoBackend}
    /\ confirm.kind \in {"none", "drain", "cancel", "cordon", "run"}
    /\ draining \subseteq Backends

\* poller.go: a target marked in flight really is, or it would never be polled
\* again; and but for the logs, whose level key asks past a request in flight,
\* a refresh by hand never doubles the poller's own.
OneRequest ==
    /\ \A t \in inFlight : CountAsked(t) >= 1
    /\ \A t \in Targets \ {"logs"} : CountAsked(t) <= 1

\* run.go: only one action runs at a time: it is being opened or read, not
\* both, while it is shown as running, and the event asked for has a stream.
OneRun ==
    /\ CountAsked("run") + CountAsked("event") = IF run.running THEN 1 ELSE 0
    /\ run.stream <=> CountAsked("event") = 1

\* load.go: a polled pane showing its loading state has a fetch in flight.
PanesBacked == \A s \in loading \ {"logs"} : TargetOf(s) \in inFlight

\* poller.go: the fleet-wide status is asked for again and again on every pane,
\* however many of its fetches fail.
StatusPolled == []<>("status" \in inFlight) /\ []<>("status" \notin inFlight)

\* backends.go: a drain being followed is followed to its end: the watch ends,
\* or moves to another drain, although readings fail and panes change.
WatchEnds ==
    \A b \in Backends : (watch.backend = b /\ watch.following)
                         ~> ~(watch.backend = b /\ watch.following)
=============================================================================
