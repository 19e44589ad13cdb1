------------------------------- MODULE Daemon -------------------------------
(***************************************************************************)
(* One orchestrator process from startup to exit (runtime/runtime.go): the *)
(* background services and their supervisors (lifecycle), the listeners    *)
(* (httpserver), the SIGHUP reload (reload), requests and the copies they  *)
(* leave running (writepath/detached.go), and the ordered shutdown that    *)
(* waits for each of them before the final usage flush.                    *)
(*                                                                         *)
(* A configuration is the number of the file's version.  Time is counted   *)
(* from the start of the HTTP drain; the code gives its two deadlines,     *)
(* DrainTimeout and DetachedDrainTimeout, the same length.                 *)
(***************************************************************************)
EXTENDS Integers, FiniteSets, Sequences, SequencesExt

CONSTANTS
    Wired,        \* record of BOOLEAN: the mode and the optional parts configured
    Followed,     \* the services whose goroutines are modelled
    Works,        \* requests, each making one charged backend call
    SlotLimit,    \* the ceiling of the detached uploads
    Delays,       \* file versions that set server.shutdown_delay
    Unloadable,   \* file versions that do not load or validate
    Refused,      \* file versions a hook's Check refuses
    Hooks,        \* the reload hooks followed
    Disabled,     \* those of them with nothing to apply to
    DrainTimeout, DetachedDrainTimeout, MaxTime,
    MaxEdits, MaxPanics, MaxFaults

VARIABLES
    pc,           \* where Run is
    ready,        \* /health/ready answers 200
    main, metrics,\* the listeners
    term,         \* SIGTERM arrived
    service,      \* service -> what its goroutine does
    restarts,     \* service -> the supervisor's count
    failures,     \* service -> ConsecutiveFailures
    cancelled,    \* the background context is done
    work,         \* request -> how far it is
    charged, flushed, \* calls counted in memory, and in the store
    late,         \* what a drain gave up waiting for
    now, tailsAt, \* the clock, and when the wait for the tails began
    store,        \* the metadata store is open
    final,        \* how the final flush ended
    file, asked,  \* the file's version, and the one last signalled
    watching,     \* SIGHUP is delivered
    hup,          \* a SIGHUP is buffered
    pass,         \* the reload goroutine: its step, version, next hook, failed hooks
    live, generation,
    installed,    \* hook -> the version it applied
    last,         \* LastResult, with the version it is about
    panics, faults

runVars == <<pc, ready, main, metrics, term>>
svcVars == <<service, restarts, failures, cancelled>>
workVars == <<work, charged, flushed, late>>
timeVars == <<now, tailsAt>>
storeVars == <<store, final>>
passVars == <<pass, live, generation, installed, last>>
cfgVars == <<file, asked, watching, hup, passVars>>
envVars == <<panics, faults>>
vars == <<runVars, svcVars, workVars, timeVars, storeVars, cfgVars, envVars>>

-----------------------------------------------------------------------------
(* What is registered with the lifecycle manager (di/lifecycle.go).        *)

BaseServices == {"usage_flush", "fleet_snapshot", "breaker_watchdog"}

\* registerSharedStateWatchers
Watchers == {"provisioning_watch"} \cup (IF Wired.cache THEN {"cache_watch"} ELSE {})

\* registerWorkerServices
WorkerServices ==
    {"multipart_cleanup", "cleanup", "pending_reaper", "rebalance", "replication",
     "over_replication", "drain", "lifecycle"}
        \cup (IF Wired.scrub THEN {"scrub"} ELSE {})

\* ProvideLifecycleManager
Registered ==
    BaseServices
        \cup (IF Wired.recorder THEN {"flight_recorder"} ELSE {})
        \cup (IF Wired.redis THEN Watchers \cup {"instance_report"} ELSE {})
        \cup (IF Wired.worker THEN WorkerServices ELSE {})
        \cup (IF Wired.worker /\ Wired.reconcile THEN {"reconcile"} ELSE {})
        \cup (IF Wired.worker /\ Wired.notify THEN {"notifier"} ELSE {})

Services == Registered \cap Followed

\* The services of worker/services.go and di/services.go that tick under an
\* advisory lock, that tick as they start, and that ask before a tick.
Locked == {"fleet_snapshot", "reconcile"} \cup WorkerServices
AtStartup == {"replication"}
Asking == {"replication", "over_replication", "rebalance", "scrub", "lifecycle"}

\* defaultHooks, in the order they run.
defaultHooks == <<"tls_certificate", "provisioning", "rate_limit", "quota_sync",
                  "usage_limits", "log_level", "quota_metrics">>
Applied == SelectSeq(defaultHooks, LAMBDA h : h \in Hooks)
Checkers == {"provisioning", "usage_limits"}

-----------------------------------------------------------------------------
Open == {w \in Works : work[w] \in {"open", "held"}}
Tails == {w \in Works : work[w] = "tail"}
Slots == {w \in Works : work[w] \in {"held", "tail"}}
Exited == pc \in {"stopped", "failed"}
Expired == now >= DrainTimeout
Idle == [step |-> "idle", version |-> 0, hook |-> 0, failed |-> {}]

Init ==
    /\ pc = "prime" /\ ready = FALSE /\ term = FALSE
    /\ main = "none" /\ metrics = "none"
    /\ service = [s \in Services |-> "off"]
    /\ restarts = [s \in Services |-> 0]
    /\ failures = [s \in Services |-> 0]
    /\ cancelled = FALSE
    /\ work = [w \in Works |-> "new"]
    /\ charged = {} /\ flushed = {} /\ late = {}
    /\ now = 0 /\ tailsAt = 0
    /\ store = "open" /\ final = "none"
    /\ file = 0 /\ asked = 0 /\ watching = FALSE /\ hup = FALSE
    /\ pass = Idle
    /\ live = 0 /\ generation = 0
    /\ installed = [h \in Hooks |-> 0]
    /\ last = [status |-> "none", generation |-> 0, version |-> 0]
    /\ panics = 0 /\ faults = 0

-----------------------------------------------------------------------------
(* Startup: Runtime.Run up to its select.                                  *)

\* A call that fails, by itself or because SIGTERM ended its context.
Failing ==
    \/ term /\ UNCHANGED faults
    \/ faults < MaxFaults /\ faults' = faults + 1

\* RefreshQuotaBaselines before anything can be written.
Prime ==
    /\ pc = "prime"
    /\ \/ pc' = "start" /\ UNCHANGED faults
       \/ Failing /\ pc' = "failed"
    /\ UNCHANGED <<ready, main, metrics, term, svcVars, workVars, timeVars, storeVars, cfgVars, panics>>

\* Service.Run: a service that ticks at startup does so before any wait.
Launched(s) == IF s \in AtStartup /\ ~cancelled THEN "due" ELSE "asleep"

\* startBackgroundServices and Watch.
Start ==
    /\ pc = "start"
    /\ pc' = "bind"
    /\ service' = [s \in Services |-> Launched(s)]
    /\ watching' = TRUE
    /\ UNCHANGED <<ready, main, metrics, term, restarts, failures, cancelled, workVars, timeVars,
                   storeVars, file, asked, hup, passVars, envVars>>

\* Server.Listen, then the readiness flag, then http.Run serves.  A listener
\* that does not bind ends the process there.
Listen ==
    /\ pc = "bind"
    /\ \/ \E m \in IF Wired.metrics THEN {"serving"} ELSE {"none"} :
             metrics' = m /\ main' = "serving" /\ ready' = TRUE /\ pc' = "serving" /\ UNCHANGED faults
       \/ /\ Failing
          /\ \/ main' = "none" /\ UNCHANGED <<metrics, ready>> /\ pc' = "failed"
             \/ Wired.metrics /\ ~Wired.requireMetrics
                /\ main' = "serving" /\ metrics' = "none" /\ ready' = TRUE /\ pc' = "serving"
    /\ UNCHANGED <<term, svcVars, workVars, timeVars, storeVars, cfgVars, panics>>

-----------------------------------------------------------------------------
(* Background services: Manager.supervise around Service.Run and Tick.     *)

\* Schedule.Run: the wait is over.  A wait that ends as the context does may
\* be taken either way.
Wake(s) ==
    /\ service[s] = "asleep" /\ ~Exited
    /\ service' = [service EXCEPT ![s] = "due"]
    /\ UNCHANGED <<runVars, restarts, failures, cancelled, workVars, timeVars, storeVars, cfgVars, envVars>>

\* Service.Tick up to the work: ShouldRun declines, another instance holds the
\* lock, or the database is down (all skipped), or the lock fails.
Skip(s) ==
    /\ service[s] = "due" /\ ~Exited
    /\ s \in Locked \cup Asking
    /\ service' = [service EXCEPT ![s] = "asleep"]
    /\ UNCHANGED <<runVars, restarts, failures, cancelled, workVars, timeVars, storeVars, cfgVars, envVars>>

LockFails(s) ==
    /\ service[s] = "due" /\ ~Exited
    /\ s \in Locked
    /\ faults < MaxFaults /\ faults' = faults + 1
    /\ service' = [service EXCEPT ![s] = "asleep"]
    /\ failures' = [failures EXCEPT ![s] = @ + 1]
    /\ UNCHANGED <<runVars, restarts, cancelled, workVars, timeVars, storeVars, cfgVars, panics>>

BeginWork(s) ==
    /\ service[s] = "due" /\ ~Exited
    /\ service' = [service EXCEPT ![s] = "working"]
    /\ UNCHANGED <<runVars, restarts, failures, cancelled, workVars, timeVars, storeVars, cfgVars, envVars>>

\* The work returns and record accounts for it.  The flush tick writes the
\* counters; a context that is done fails what it has left to do; a tick the
\* database was down for leaves the count of failures as it was.
EndWork(s) ==
    /\ service[s] = "working" /\ ~Exited
    /\ service' = [service EXCEPT ![s] = "asleep"]
    /\ \/ /\ ~cancelled
          /\ failures' = [failures EXCEPT ![s] = 0]
          /\ flushed' = IF s = "usage_flush" THEN flushed \cup charged ELSE flushed
          /\ charged' = IF s = "usage_flush" THEN {} ELSE charged
          /\ UNCHANGED faults
       \/ /\ cancelled \/ faults < MaxFaults
          /\ faults' = IF cancelled THEN faults ELSE faults + 1
          /\ \/ failures' = [failures EXCEPT ![s] = IF @ > MaxFaults THEN @ ELSE @ + 1]
             \/ UNCHANGED failures
          /\ UNCHANGED <<charged, flushed>>
    /\ UNCHANGED <<runVars, restarts, cancelled, work, late, timeVars, storeVars, cfgVars, panics>>

\* A panic in the work reaches the supervisor, which waits on restartBackoff.
\* A service that ran for healthyRun starts again from the first step.
Panic(s) ==
    /\ service[s] = "working" /\ ~Exited
    /\ panics < MaxPanics /\ panics' = panics + 1
    /\ service' = [service EXCEPT ![s] = IF cancelled THEN "ended" ELSE "backoff"]
    /\ \E healthy \in BOOLEAN : restarts' = [restarts EXCEPT ![s] = IF healthy THEN 0 ELSE @]
    /\ UNCHANGED <<runVars, failures, cancelled, workVars, timeVars, storeVars, cfgVars, faults>>

Restart(s) ==
    /\ service[s] = "backoff" /\ ~Exited
    /\ service' = [service EXCEPT ![s] = Launched(s)]
    /\ restarts' = [restarts EXCEPT ![s] = @ + 1]
    /\ UNCHANGED <<runVars, failures, cancelled, workVars, timeVars, storeVars, cfgVars, envVars>>

\* Sleep sees the context done: Run or the supervisor returns.
End(s) ==
    /\ service[s] \in {"asleep", "backoff"} /\ cancelled /\ ~Exited
    /\ service' = [service EXCEPT ![s] = "ended"]
    /\ UNCHANGED <<runVars, restarts, failures, cancelled, workVars, timeVars, storeVars, cfgVars, envVars>>

ServiceStep(s) ==
    Wake(s) \/ Skip(s) \/ LockFails(s) \/ BeginWork(s) \/ EndWork(s) \/ Panic(s) \/ Restart(s) \/ End(s)

-----------------------------------------------------------------------------
(* Requests, and what they leave running (DetachedUploads).                *)

\* Begin: a write that gets no slot places one copy before it answers.
Arrive(w) ==
    /\ work[w] = "new" /\ main = "serving" /\ ~Exited
    /\ work' = [work EXCEPT ![w] = IF Cardinality(Slots) < SlotLimit THEN "held" ELSE "open"]
    /\ UNCHANGED <<runVars, svcVars, charged, flushed, late, timeVars, storeVars, cfgVars, envVars>>

\* The client is answered while copies are still uploading.
AnswerEarly(w) ==
    /\ work[w] = "held" /\ ~Exited
    /\ work' = [work EXCEPT ![w] = "tail"]
    /\ UNCHANGED <<runVars, svcVars, charged, flushed, late, timeVars, storeVars, cfgVars, envVars>>

\* The last call of the request or of its tail is counted and the slot released.
Finish(w) ==
    /\ work[w] \in {"open", "held", "tail"} /\ ~Exited
    /\ work' = [work EXCEPT ![w] = "done"]
    /\ charged' = charged \cup {w}
    /\ UNCHANGED <<runVars, svcVars, flushed, late, timeVars, storeVars, cfgVars, envVars>>

WorkStep(w) == Arrive(w) \/ AnswerEarly(w) \/ Finish(w)

-----------------------------------------------------------------------------
(* The reload goroutine (reload/reload.go).                                *)

Edit ==
    /\ file < MaxEdits /\ file' = file + 1
    /\ UNCHANGED <<runVars, svcVars, workVars, timeVars, storeVars, asked, watching, hup, passVars, envVars>>

\* SIGHUP: the channel Watch listens on buffers one signal.
Hup ==
    /\ watching /\ ~Exited /\ asked < file
    /\ hup' = TRUE /\ asked' = file
    /\ UNCHANGED <<runVars, svcVars, workVars, timeVars, storeVars, file, watching, passVars, envVars>>

\* finalize
Finalize(status, gen, v) ==
    /\ last' = [status |-> status, generation |-> gen, version |-> v]
    /\ pass' = Idle

\* Reload begins: LoadConfig reads and validates the file.
Load ==
    /\ hup /\ pass.step = "idle" /\ ~Exited
    /\ hup' = FALSE
    /\ IF file \in Unloadable
       THEN Finalize("load_failed", generation, file)
       ELSE pass' = [Idle EXCEPT !.step = "check", !.version = file] /\ UNCHANGED last
    /\ UNCHANGED <<runVars, svcVars, workVars, timeVars, storeVars, file, asked, watching, live,
                   generation, installed, envVars>>

\* The Check loop: an error stores nothing and ends the pass; otherwise the
\* configuration is swapped in.  Provisioning's Check also reads the store.
Check ==
    /\ pass.step = "check" /\ ~Exited
    /\ \/ /\ \/ pass.version \in Refused /\ Checkers \cap Hooks # {} /\ UNCHANGED faults
             \/ "provisioning" \in Hooks /\ faults < MaxFaults /\ faults' = faults + 1
          /\ Finalize("validation_failed", generation, pass.version)
          /\ UNCHANGED <<live, generation>>
       \/ /\ pass.version \notin Refused \/ Checkers \cap Hooks = {}
          /\ live' = pass.version /\ generation' = generation + 1
          /\ pass' = [pass EXCEPT !.step = "apply", !.hook = 1]
          /\ UNCHANGED <<last, faults>>
    /\ UNCHANGED <<runVars, svcVars, workVars, timeVars, storeVars, file, asked, watching, hup,
                   installed, panics>>

\* The Apply loop: a hook that fails is noted and the rest still run.
Apply ==
    /\ pass.step = "apply" /\ pass.hook <= Len(Applied) /\ ~Exited
    /\ LET h == Applied[pass.hook] IN
       \/ /\ installed' = IF h \in Disabled THEN installed ELSE [installed EXCEPT ![h] = pass.version]
          /\ pass' = [pass EXCEPT !.hook = @ + 1]
          /\ UNCHANGED faults
       \/ /\ faults < MaxFaults /\ faults' = faults + 1 /\ h \notin Disabled
          /\ pass' = [pass EXCEPT !.hook = @ + 1, !.failed = @ \cup {h}]
          /\ UNCHANGED installed
    /\ UNCHANGED <<runVars, svcVars, workVars, timeVars, storeVars, file, asked, watching, hup, live,
                   generation, last, panics>>

EndReload ==
    /\ pass.step = "apply" /\ pass.hook > Len(Applied) /\ ~Exited
    /\ Finalize(IF pass.failed = {} THEN "full_success" ELSE "partial_applied", generation, pass.version)
    /\ UNCHANGED <<runVars, svcVars, workVars, timeVars, storeVars, file, asked, watching, hup, live,
                   generation, installed, envVars>>

ReloadStep == Load \/ Check \/ Apply \/ EndReload

-----------------------------------------------------------------------------
(* The end of Run, and shutdown.                                           *)

Term ==
    /\ ~term /\ ~Exited
    /\ term' = TRUE
    /\ UNCHANGED <<pc, ready, main, metrics, svcVars, workVars, timeVars, storeVars, cfgVars, envVars>>

\* Server.Run: a listener that stops takes the other one with it.
ListenerFails ==
    /\ pc = "serving" /\ faults < MaxFaults /\ faults' = faults + 1
    /\ \/ main = "serving" /\ main' = "failed" /\ metrics' = IF metrics = "none" THEN "none" ELSE "closed"
       \/ metrics = "serving" /\ metrics' = "failed" /\ main' = "closed"
    /\ UNCHANGED <<pc, ready, term, svcVars, workVars, timeVars, storeVars, cfgVars, panics>>

\* The select ends, and the delay for the load balancer begins if one is set.
BeginShutdown ==
    /\ pc = "serving"
    /\ term \/ "failed" \in {main, metrics}
    /\ pc' = IF live \in Delays THEN "delay" ELSE "unready"
    /\ UNCHANGED <<ready, main, metrics, term, svcVars, workVars, timeVars, storeVars, cfgVars, envVars>>

\* ready.Store(false), and Coordinator.Shutdown stops the signals.
Unready ==
    /\ pc \in {"delay", "unready"}
    /\ pc' = "reload" /\ ready' = FALSE /\ watching' = FALSE
    /\ UNCHANGED <<main, metrics, term, svcVars, workVars, timeVars, storeVars, file, asked, hup,
                   passVars, envVars>>

\* It waits for the goroutine, which still takes a buffered signal; then
\* Server.Shutdown stops accepting.
StopReload ==
    /\ pc = "reload" /\ ~hup /\ pass.step = "idle"
    /\ pc' = "drain"
    /\ pass' = [Idle EXCEPT !.step = "stopped"]
    /\ main' = "closed"
    /\ UNCHANGED <<ready, metrics, term, svcVars, workVars, timeVars, storeVars, file, asked,
                   watching, hup, live, generation, installed, last, envVars>>

\* Server.Shutdown returns once every request has, or at the deadline.
EndDrain ==
    /\ pc = "drain" /\ (Open = {} \/ Expired)
    /\ pc' = "tails" /\ tailsAt' = now
    /\ metrics' = IF metrics = "none" THEN "none" ELSE "closed"
    /\ late' = late \cup Open
    /\ UNCHANGED <<ready, main, term, svcVars, work, charged, flushed, now, storeVars, cfgVars, envVars>>

\* drainDetachedUploads
EndTails ==
    /\ pc = "tails" /\ (Slots = {} \/ now - tailsAt >= DetachedDrainTimeout)
    /\ pc' = "cancel"
    /\ late' = late \cup Slots
    /\ UNCHANGED <<ready, main, metrics, term, svcVars, work, charged, flushed, timeVars, storeVars,
                   cfgVars, envVars>>

Cancel ==
    /\ pc = "cancel"
    /\ pc' = "await" /\ cancelled' = TRUE
    /\ UNCHANGED <<ready, main, metrics, term, service, restarts, failures, workVars, timeVars,
                   storeVars, cfgVars, envVars>>

\* Manager.Run returns when every supervisor has.
Await ==
    /\ pc = "await" /\ \A s \in Services : service[s] = "ended"
    /\ pc' = "flush"
    /\ UNCHANGED <<ready, main, metrics, term, svcVars, workVars, timeVars, storeVars, cfgVars, envVars>>

\* FlushUsage runs on the context the HTTP drain started.
FinalFlush ==
    /\ pc = "flush"
    /\ pc' = "close"
    /\ \/ /\ ~Expired /\ final' = "ok"
          /\ flushed' = flushed \cup charged /\ charged' = {}
          /\ UNCHANGED faults
       \/ /\ \/ Expired /\ UNCHANGED faults
             \/ faults < MaxFaults /\ faults' = faults + 1
          /\ final' = "failed"
          /\ UNCHANGED <<charged, flushed>>
    /\ UNCHANGED <<ready, main, metrics, term, svcVars, work, late, timeVars, store, cfgVars, panics>>

CloseStore ==
    /\ pc = "close"
    /\ pc' = "stopped" /\ store' = "closed"
    /\ UNCHANGED <<ready, main, metrics, term, svcVars, workVars, timeVars, final, cfgVars, envVars>>

\* A timer that is due wakes its waiter before time goes on.
Pass ==
    /\ \/ pc = "drain" /\ ~Expired
       \/ pc = "tails" /\ now - tailsAt < DetachedDrainTimeout
       \/ pc \in {"await", "flush"}
    /\ now < MaxTime
    /\ now' = now + 1
    /\ UNCHANGED <<runVars, svcVars, workVars, tailsAt, storeVars, cfgVars, envVars>>

RunStep ==
    \/ Prime \/ Start \/ Listen \/ BeginShutdown \/ Unready \/ StopReload \/ EndDrain \/ EndTails
    \/ Cancel \/ Await \/ FinalFlush \/ CloseStore

Next ==
    \/ RunStep \/ ReloadStep \/ Pass
    \/ Edit \/ Hup \/ Term \/ ListenerFails
    \/ \E s \in Services : ServiceStep(s)
    \/ \E w \in Works : WorkStep(w)

Spec == Init /\ [][Next]_vars

-----------------------------------------------------------------------------
TypeOK ==
    /\ pc \in {"prime", "start", "bind", "serving", "delay", "unready", "reload", "drain", "tails",
               "cancel", "await", "flush", "close", "stopped", "failed"}
    /\ {ready, term, cancelled, watching, hup} \subseteq BOOLEAN
    /\ {main, metrics} \subseteq {"none", "serving", "failed", "closed"}
    /\ service \in [Services -> {"off", "asleep", "due", "working", "backoff", "ended"}]
    /\ work \in [Works -> {"new", "open", "held", "tail", "done"}]
    /\ charged \cup flushed \cup late \subseteq Works
    /\ installed \in [Hooks -> 0..MaxEdits] /\ {file, asked, live} \subseteq 0..MaxEdits

\* What shutdown waited for is accounted for when the process ends: every call
\* of a request or a detached copy that no deadline gave up on is in the store,
\* unless the flush itself failed, which takes a fault or the drains having
\* used up the time they share with it (Runtime.shutdown, drainDetachedUploads).
StopsAccounted ==
    pc = "stopped" =>
        /\ late = {} => final = "failed" \/ charged = {}
        /\ final = "failed" => Expired \/ faults > 0

\* Nothing that shutdown waits for outlives the store: when it closes, every
\* service and the reload have ended, and only work a deadline gave up on is
\* still running (Runtime.shutdown).
StoreOutlives ==
    store = "closed" =>
        /\ \A s \in Services : service[s] = "ended"
        /\ pass.step = "stopped" /\ ~hup
        /\ Open \cup Tails \subseteq late

\* At most SlotLimit writes hold a slot, through the end of their tails
\* (DetachedUploads.Begin and done).
SlotsBounded == Cardinality(Slots) <= SlotLimit

\* What is running passed every check: no component ever holds a version that
\* does not load or that a hook refuses, and after a full success each hook
\* that is on has the running version (Coordinator.Reload).
RunningIsChecked ==
    /\ Checkers \cap Hooks # {} => ({live} \cup {installed[h] : h \in Hooks}) \cap Refused = {}
    /\ ({live} \cup {installed[h] : h \in Hooks}) \cap Unloadable = {}
    /\ pass.step # "apply" /\ last.status = "full_success" =>
          last.generation = generation /\ \A h \in Hooks \ Disabled : installed[h] = live

\* A SIGHUP is never lost: while one is not buffered and no pass is running,
\* the last pass read the file as it was at the last signal, or later (Watch).
SignalHeard == ~hup /\ pass.step \in {"idle", "stopped"} => last.version >= asked

\* Shutdown ends, whatever hangs and whichever listener failed (Runtime.Run).
StopEnds == (term \/ "failed" \in {main, metrics}) ~> Exited

\* A service ticks for as long as the process serves, through panics and
\* failures (Manager.supervise).
KeepsTicking == \A s \in Services : []<>(service[s] = "due" \/ pc # "serving")
=============================================================================
