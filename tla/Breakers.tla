------------------------------ MODULE Breakers ------------------------------
(***************************************************************************)
(* The circuit breakers of one instance: a backend's breaker and the       *)
(* breaker of each of its guarded calls (backend/circuitbreaker.go), the   *)
(* database's (store/circuitbreaker.go), the watchdog that recovers them   *)
(* (breaker/recovery.go), and the events their transitions publish, which  *)
(* the notifier inserts into the outbox through the database's own         *)
(* breaker (observe/telemetry/cb_hook.go, notify/notifier.go).             *)
(*                                                                         *)
(* A breaker's mutex is held from the moment its state changes until its   *)
(* callback returns; every other use of it is one atomic step.  The        *)
(* failure count stops at the threshold it is compared with, and waits are *)
(* counted in watchdog ticks.                                              *)
(***************************************************************************)
EXTENDS Naturals, FiniteSets

CONSTANTS Threads,       \* goroutines that call the backend and the store
          Calls,         \* the guarded calls of the backend
          Backend, DB,   \* the backend's breaker and the database's
          Threshold, Base, MaxBackoff,
          Notifies,      \* an endpoint subscribes to circuit events
          Fallible,      \* what can fail, among Calls \cup {Backend, DB}
          MaxChanges     \* how often something fails or comes back

Breakers == Calls \cup {Backend, DB}
Procs == Threads \cup Breakers      \* a breaker stands for its recovery prober

VARIABLES
  state, failures,  \* of each breaker
  reported,         \* the last backend-level transition reported
  down,             \* what is failing
  changes,
  st, call, res,    \* of each process: its step, the guarded call it makes, the result
  hook, held,       \* of each process: the step of the callback it runs, the locks it holds
  nextDue, failed   \* of each prober: ticks until its next check, failed checks

env == <<down, changes>>
probing == <<nextDue, failed>>
vars == <<state, failures, reported, env, st, call, res, hook, held, probing>>

NoDue == MaxBackoff + 1
Unset == "none"

Init ==
  /\ state = [b \in Breakers |-> "closed"]
  /\ failures = [b \in Breakers |-> 0]
  /\ reported = "closed"
  /\ down = {} /\ changes = 0
  /\ st = [p \in Procs |-> "idle"]
  /\ call = [p \in Procs |-> Unset]
  /\ res = [p \in Procs |-> Unset]
  /\ hook = [p \in Procs |-> Unset]
  /\ held = [p \in Procs |-> {}]
  /\ nextDue = [b \in Breakers |-> NoDue]
  /\ failed = [b \in Breakers |-> 0]

Locked(b) == \E p \in Procs : b \in held[p]

-----------------------------------------------------------------------------
(* The breaker *)

\* Which results count against a breaker: an unreachable backend against the
\* backend's, a refused call against the call's (classifyFailure), a broken
\* connection against the database's.
IsError(b, r) ==
  CASE b = Backend -> r = "unreachable"
    [] b = DB -> r = "broken"
    [] OTHER -> r = "refused"

Healthy(s) == \A b \in Calls \cup {Backend} : s[b] = "closed"

\* A report of each breaker's own transitions.
applyEach(b, to) == reported' = IF b = DB THEN reported ELSE to

\* The backend-level state is reported when whether every call is served
\* changes, not with each breaker's own transitions.
apply(b, to) ==
  LET after == [state EXCEPT ![b] = to] IN
  reported' = IF b # DB /\ Healthy(state) # Healthy(after)
              THEN IF Healthy(after) THEN "closed" ELSE "open"
              ELSE reported

\* transition: with the lock held, the state changes and the callback runs;
\* when an endpoint matches, it goes on to insert a row into the outbox.
transition(p, b, to) ==
  /\ state' = [state EXCEPT ![b] = to]
  /\ apply(b, to)
  /\ IF Notifies
     THEN /\ held' = [held EXCEPT ![p] = @ \cup {b}]
          /\ hook' = [hook EXCEPT ![p] = "pre"]
     ELSE /\ held' = [held EXCEPT ![p] = {}]
          /\ hook' = [hook EXCEPT ![p] = Unset]

\* Nothing to report: the callbacks in progress, if any, return, and the
\* locks they were called under are released.
Returns(p) ==
  /\ held' = [held EXCEPT ![p] = {}]
  /\ hook' = [hook EXCEPT ![p] = Unset]
  /\ UNCHANGED <<state, reported>>

\* PostCheck: onFailure or onSuccess.
PostCheck(p, b, r) ==
  /\ ~Locked(b)
  /\ IF IsError(b, r)
     THEN /\ failures' = [failures EXCEPT ![b] = IF @ < Threshold THEN @ + 1 ELSE @]
          /\ IF state[b] = "closed" /\ failures[b] + 1 >= Threshold
             THEN transition(p, b, "open") ELSE Returns(p)
     ELSE /\ failures' = [failures EXCEPT ![b] = 0]
          /\ Returns(p)

-----------------------------------------------------------------------------
(* Calls *)

To(p, s) == st' = [st EXCEPT ![p] = s]

\* What the backend answers to a guarded call now.
Answer(c) ==
  CASE Backend \in down -> "unreachable"
    [] c \in down -> "refused"
    [] OTHER -> "ok"

\* guard: the backend breaker's PreCheck, then the call's.
guard(p, c) ==
  /\ st[p] = "idle" /\ ~Locked(Backend) /\ state[Backend] = "closed"
  /\ call' = [call EXCEPT ![p] = c]
  /\ To(p, "inner")
  /\ UNCHANGED <<state, failures, reported, env, res, hook, held, probing>>

\* The call's breaker lets it through, or refuses it without touching the
\* backend.
PreCheckCall(p) ==
  /\ st[p] = "inner" /\ ~Locked(call[p])
  /\ IF state[call[p]] = "closed"
     THEN To(p, "call") /\ UNCHANGED res
     ELSE To(p, "outer") /\ res' = [res EXCEPT ![p] = "unavailable"]
  /\ UNCHANGED <<state, failures, reported, env, call, hook, held, probing>>

RealCall(p) ==
  /\ st[p] = "call"
  /\ res' = [res EXCEPT ![p] = Answer(call[p])]
  /\ To(p, "post")
  /\ UNCHANGED <<state, failures, reported, env, call, hook, held, probing>>

PostCheckCall(p) ==
  /\ st[p] = "post" /\ hook[p] = Unset
  /\ PostCheck(p, call[p], res[p])
  /\ To(p, "outer")
  /\ UNCHANGED <<env, call, res, probing>>

PostCheckBackend(p) ==
  /\ st[p] = "outer" /\ hook[p] = Unset
  /\ PostCheck(p, Backend, res[p])
  /\ To(p, "idle")
  /\ call' = [call EXCEPT ![p] = Unset]
  /\ res' = [res EXCEPT ![p] = Unset]
  /\ UNCHANGED <<env, probing>>

\* A store call: cbDBTX's PreCheck, then the statement, then PostCheck.
StoreCall(p) ==
  /\ st[p] = "idle" /\ hook[p] = Unset /\ ~Locked(DB) /\ state[DB] = "closed"
  /\ To(p, "store")
  /\ UNCHANGED <<state, failures, reported, env, call, res, hook, held, probing>>

Statement(p) ==
  /\ st[p] = "store" /\ hook[p] = Unset
  /\ res' = [res EXCEPT ![p] = IF DB \in down THEN "broken" ELSE "ok"]
  /\ To(p, "stored")
  /\ UNCHANGED <<state, failures, reported, env, call, hook, held, probing>>

PostCheckStore(p) ==
  /\ st[p] = "stored" /\ hook[p] = Unset
  /\ PostCheck(p, DB, res[p])
  /\ To(p, "idle")
  /\ res' = [res EXCEPT ![p] = Unset]
  /\ UNCHANGED <<env, call, probing>>

-----------------------------------------------------------------------------
(* The callback: emit inserts a notification, under the breaker's lock *)

InsertPreCheck(p) ==
  /\ hook[p] = "pre" /\ ~Locked(DB)
  /\ IF state[DB] = "closed"
     THEN hook' = [hook EXCEPT ![p] = "insert"] /\ UNCHANGED <<held, state, reported>>
     ELSE Returns(p)
  /\ UNCHANGED <<failures, env, st, call, res, probing>>

Insert(p) ==
  /\ hook[p] = "insert"
  /\ hook' = [hook EXCEPT ![p] = IF DB \in down THEN "broken" ELSE "ok"]
  /\ UNCHANGED <<state, failures, reported, env, st, call, res, held, probing>>

InsertPostCheck(p) ==
  /\ hook[p] \in {"broken", "ok"}
  /\ PostCheck(p, DB, hook[p])
  /\ UNCHANGED <<env, st, call, res, probing>>

-----------------------------------------------------------------------------
(* The watchdog *)

\* backoff.For: Base doubled per failed check, capped.
Wait(n) == LET d == Base * 2^n IN IF d < MaxBackoff THEN d ELSE MaxBackoff

\* ProbeAll starts every prober, once the last tick's have all returned.
Tick ==
  /\ \A b \in Breakers : st[b] = "idle" /\ hook[b] = Unset
  /\ st' = [p \in Procs |-> IF p \in Breakers THEN "probe" ELSE st[p]]
  /\ nextDue' = [b \in Breakers |-> IF nextDue[b] \in 1..MaxBackoff THEN nextDue[b] - 1 ELSE nextDue[b]]
  /\ UNCHANGED <<state, failures, reported, env, call, res, hook, held, failed>>

\* Probe up to its check: nothing to do, not due yet, or refused by the usage
\* budget.
ProbeReturns(b) ==
  /\ st[b] = "probe" /\ ~Locked(b)
  /\ IF state[b] = "closed"
     THEN nextDue' = [nextDue EXCEPT ![b] = NoDue] /\ failed' = [failed EXCEPT ![b] = 0]
     ELSE /\ nextDue' = [nextDue EXCEPT ![b] = IF @ = NoDue THEN Wait(failed[b]) ELSE @]
          /\ nextDue[b] = 0 => b # DB
          /\ UNCHANGED failed
  /\ To(b, "idle")
  /\ UNCHANGED <<state, failures, reported, env, call, res, hook, held>>

ProbeAdmitted(b) ==
  /\ st[b] = "probe" /\ ~Locked(b)
  /\ state[b] = "open" /\ nextDue[b] = 0
  /\ To(b, "check")
  /\ UNCHANGED <<state, failures, reported, env, call, res, hook, held, probing>>

\* The check goes to the dependency directly: HeadBucket, the guarded call, or
\* Ping.
Answers(b) == b \notin down /\ (b \in Calls => Backend \notin down)

Check(b) ==
  /\ st[b] = "check"
  /\ IF Answers(b)
     THEN To(b, "recover") /\ UNCHANGED probing
     ELSE /\ To(b, "idle")
          /\ failed' = [failed EXCEPT ![b] = IF Wait(@) < MaxBackoff THEN @ + 1 ELSE @]
          /\ nextDue' = [nextDue EXCEPT ![b] = Wait(failed'[b])]
  /\ UNCHANGED <<state, failures, reported, env, call, res, hook, held>>

\* The check passed: the count starts over and the breaker closes.
Recover(b) ==
  /\ st[b] = "recover" /\ ~Locked(b)
  /\ failures' = [failures EXCEPT ![b] = 0]
  /\ transition(b, b, "closed")
  /\ To(b, "idle")
  /\ nextDue' = [nextDue EXCEPT ![b] = NoDue] /\ failed' = [failed EXCEPT ![b] = 0]
  /\ UNCHANGED <<env, call, res>>

-----------------------------------------------------------------------------

\* A dependency fails or comes back.
Change(d) ==
  /\ d \in Fallible /\ changes < MaxChanges
  /\ changes' = changes + 1
  /\ down' = IF d \in down THEN down \ {d} ELSE down \cup {d}
  /\ UNCHANGED <<state, failures, reported, st, call, res, hook, held, probing>>

Answering(p) == PreCheckCall(p) \/ RealCall(p) \/ PostCheckCall(p) \/ PostCheckBackend(p)
                  \/ Statement(p) \/ PostCheckStore(p)
Notifying(p) == InsertPreCheck(p) \/ Insert(p) \/ InsertPostCheck(p)
Probing(b) == ProbeReturns(b) \/ ProbeAdmitted(b) \/ Check(b) \/ Recover(b)

Next ==
  \/ \E p \in Threads : StoreCall(p) \/ Answering(p) \/ \E c \in Calls : hook[p] = Unset /\ guard(p, c)
  \/ \E p \in Procs : Notifying(p)
  \/ Tick
  \/ \E b \in Breakers : Probing(b)
  \/ \E d \in Breakers : Change(d)

Spec == Init /\ [][Next]_vars

-----------------------------------------------------------------------------
(* Properties *)

\* The variables have their types, and a lock is held only by a process that
\* runs its breaker's callback, by one process at a time.
TypeOK ==
  /\ state \in [Breakers -> {"closed", "open"}]
  /\ failures \in [Breakers -> 0..Threshold]
  /\ reported \in {"closed", "open"}
  /\ down \subseteq Fallible /\ changes \in 0..MaxChanges
  /\ st \in [Procs -> {"idle", "inner", "call", "post", "outer", "store", "stored",
                       "probe", "check", "recover"}]
  /\ call \in [Procs -> Calls \cup {Unset}]
  /\ res \in [Procs -> {Unset, "ok", "refused", "unreachable", "unavailable", "broken"}]
  /\ hook \in [Procs -> {Unset, "pre", "insert", "broken", "ok"}]
  /\ held \in [Procs -> SUBSET Breakers]
  /\ nextDue \in [Breakers -> 0..NoDue] /\ failed \in [Breakers -> Nat]
  /\ \A p \in Procs : held[p] # {} <=> hook[p] # Unset
  /\ \A p, q \in Procs : p # q => held[p] \cap held[q] = {}

\* The backend is reported open exactly while it does not serve every call,
\* however the transitions of its breakers interleave (apply).
ReportedHealth == (reported = "closed") <=> Healthy(state)

=============================================================================
