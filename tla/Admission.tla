----------------------------- MODULE Admission -----------------------------
(***************************************************************************)
(* The slots client requests and background items run under                *)
(* (s3api/admission.go, infra/admission.go, util/batch, util/workerpool).  *)
(*                                                                         *)
(* A pool is a buffered channel: a send takes a slot, a receive gives it   *)
(* back, and a receive from a full channel hands the slot to the sender    *)
(* that has been blocked longest.  Requests look at the pool's load, try   *)
(* once and then wait a while; a batch's goroutines take a slot at once    *)
(* below half full and otherwise take turns to block on the write pool.    *)
(***************************************************************************)
EXTENDS Naturals, FiniteSets, Sequences, SequencesExt

CONSTANTS Reads, Writers,      \* client requests by the method they carry
          Workers,             \* goroutines of a batch
          Items,               \* items of a batch, numbered from 1
          Cap,                 \* capacity of each pool
          Split,               \* whether reads have a pool of their own
          ShedAt,              \* int(shedThreshold * capacity) of each pool
          Shedding, Waiting    \* whether a threshold and a wait are configured

Pools == {"read", "write"}
None == "none"

AdmissionConfig ==
  /\ Cap \in [Pools -> Nat \ {0}] /\ ShedAt \in [Pools -> Nat]
  /\ Items \in Nat /\ Split \in BOOLEAN /\ Shedding \in BOOLEAN /\ Waiting \in BOOLEAN
  /\ Reads \cap Writers = {} /\ (Reads \cup Writers) \cap Workers = {}

Requests == Reads \cup Writers
Half == Cap["write"] \div 2

VARIABLES
  held,      \* slots taken of each pool
  queue,     \* senders blocked on each pool, oldest first
  rq,        \* of each request: where it is
  refusedAt, \* of each request refused: whether it waited and how full its pool was on arrival
  wk,        \* of each goroutine: where it is and the item it works on
  turn,      \* who holds workerTurn
  next,      \* the first item not handed to a goroutine
  open,      \* the batch: "running", "closed" (jobs closed), "returned"
  cancelled, \* the batch's context
  result     \* of each item: what the tally counts it as

pool == <<held, queue>>
req == <<rq, refusedAt>>
batch == <<wk, turn, next, open, cancelled, result>>
vars == <<pool, req, batch>>

Idle == [pc |-> "idle", item |-> 0, fast |-> FALSE]
NewResult == [i \in 1..Items |-> None]
NotRefused == [waited |-> FALSE, full |-> FALSE]

Init ==
  /\ held = [p \in Pools |-> 0] /\ queue = [p \in Pools |-> << >>]
  /\ rq = [r \in Requests |-> "new"] /\ refusedAt = [r \in Requests |-> NotRefused]
  /\ wk = [w \in Workers |-> Idle] /\ turn = None
  /\ next = 1 /\ open = "running" /\ cancelled = FALSE /\ result = NewResult

semFor(r) == IF Split /\ r \in Reads THEN "read" ELSE "write"

---------------------------------------------------------------------------
(* The channel.                                                            *)

Free(p) == held[p] < Cap[p]

Take(p) == held' = [held EXCEPT ![p] = @ + 1] /\ UNCHANGED queue

Block(p, a) == queue' = [queue EXCEPT ![p] = Append(@, a)] /\ UNCHANGED held

Unblock(p, a) == queue' = [queue EXCEPT ![p] = Remove(@, a)] /\ UNCHANGED held

Release(p) ==
  IF queue[p] = << >>
    THEN held' = [held EXCEPT ![p] = @ - 1] /\ UNCHANGED queue
    ELSE queue' = [queue EXCEPT ![p] = Tail(@)] /\ UNCHANGED held

\* The sender a release of p hands its slot to, if any.
Served(p) == IF queue[p] = << >> THEN {} ELSE {Head(queue[p])}

AdmitRequests(f, s) == [r \in Requests |-> IF r \in s THEN "inside" ELSE f[r]]
AdmitWorkers(f, s) == [w \in Workers |-> IF w \in s THEN [f[w] EXCEPT !.pc = "running"] ELSE f[w]]

---------------------------------------------------------------------------
(* Client requests.                                                        *)

\* Whether a request that finds n slots of p taken may be shed, and must be.
MayShed(p, n) == Shedding /\ n > ShedAt[p]
MustShed(p, n) == Shedding /\ n >= ShedAt[p] /\ n >= Cap[p]

Refuse(r, waited) ==
  /\ rq' = [rq EXCEPT ![r] = "refused"]
  /\ refusedAt' = [refusedAt EXCEPT ![r].waited = waited]

\* Middleware's first step: the load it finds, and whether it sheds the request.
shouldShed(r) ==
  /\ rq[r] = "new"
  /\ LET n == held[semFor(r)] IN
       /\ refusedAt' = [refusedAt EXCEPT ![r] = [waited |-> FALSE, full |-> n = Cap[semFor(r)]]]
       /\ \/ MayShed(semFor(r), n) /\ rq' = [rq EXCEPT ![r] = "refused"]
          \/ ~MustShed(semFor(r), n) /\ rq' = [rq EXCEPT ![r] = "trying"]
  /\ UNCHANGED <<pool, batch>>

\* The non-blocking send, and what follows when the pool is full.
TryAcquire(r) ==
  /\ rq[r] = "trying"
  /\ \/ /\ Free(semFor(r)) /\ Take(semFor(r))
        /\ rq' = [rq EXCEPT ![r] = "inside"] /\ UNCHANGED refusedAt
     \/ /\ ~Free(semFor(r)) /\ Waiting
        /\ Block(semFor(r), r)
        /\ rq' = [rq EXCEPT ![r] = "waiting"] /\ UNCHANGED refusedAt
     \/ /\ ~Free(semFor(r)) /\ ~Waiting
        /\ Refuse(r, FALSE) /\ UNCHANGED pool
  /\ UNCHANGED batch

\* The wait's timer fires.
WaitElapsed(r) ==
  /\ rq[r] = "waiting"
  /\ Unblock(semFor(r), r) /\ Refuse(r, TRUE) /\ UNCHANGED batch

\* The client's context ends first: nothing is written to it.
ClientGone(r) ==
  /\ rq[r] = "waiting"
  /\ Unblock(semFor(r), r)
  /\ rq' = [rq EXCEPT ![r] = "gone"] /\ UNCHANGED <<refusedAt, batch>>

\* The handler returns, or panics: the deferred receive runs either way, before
\* PanicRecover answers.
Serve(r) ==
  /\ rq[r] = "inside"
  /\ Release(semFor(r))
  /\ rq' = AdmitRequests([rq EXCEPT ![r] = "answered"], Served(semFor(r)))
  /\ wk' = AdmitWorkers(wk, Served(semFor(r)))
  /\ UNCHANGED <<refusedAt, turn, next, open, cancelled, result>>

\* The client sends another request.
Again(r) ==
  /\ rq[r] \in {"answered", "refused", "gone"}
  /\ rq' = [rq EXCEPT ![r] = "new"]
  /\ refusedAt' = [refusedAt EXCEPT ![r] = NotRefused]
  /\ UNCHANGED <<pool, batch>>

---------------------------------------------------------------------------
(* A batch: workerpool.Run feeding Runner.runItem.                         *)

Goto(w, pc) == wk' = [wk EXCEPT ![w].pc = pc]

\* The dispatcher hands the next item to a goroutine that asks for one.
Dispatch(w) ==
  /\ open = "running" /\ next <= Items /\ wk[w].pc = "idle"
  /\ wk' = [wk EXCEPT ![w] = [pc |-> "looking", item |-> next, fast |-> FALSE]]
  /\ next' = next + 1
  /\ UNCHANGED <<pool, req, turn, open, cancelled, result>>

\* The dispatcher stops: every item is handed out, or it saw the context end.
CloseJobs ==
  /\ open = "running" /\ (next > Items \/ cancelled)
  /\ open' = "closed"
  /\ UNCHANGED <<pool, req, wk, turn, next, cancelled, result>>

CancelBatch ==
  /\ ~cancelled /\ open # "returned"
  /\ cancelled' = TRUE
  /\ UNCHANGED <<pool, req, wk, turn, next, open, result>>

\* wg.Wait returns, and the results are tallied.
Return ==
  /\ open = "closed" /\ \A w \in Workers : wk[w].pc = "idle"
  /\ open' = "returned"
  /\ UNCHANGED <<pool, req, wk, turn, next, cancelled, result>>

\* The next tick's batch.
NextBatch ==
  /\ open = "returned"
  /\ open' = "running" /\ next' = 1 /\ cancelled' = FALSE /\ result' = NewResult
  /\ UNCHANGED <<pool, req, wk, turn>>

\* AcquireAdmission reads the pool's length.
CheckHalf(w) ==
  /\ wk[w].pc = "looking"
  /\ Goto(w, IF held["write"] < Half THEN "taking" ELSE "asking")
  /\ UNCHANGED <<pool, req, turn, next, open, cancelled, result>>

\* The non-blocking send that follows a pool read as under half full.
TakeBelowHalf(w) ==
  /\ wk[w].pc = "taking"
  /\ IF Free("write")
       THEN Take("write") /\ wk' = [wk EXCEPT ![w].pc = "running", ![w].fast = TRUE]
       ELSE Goto(w, "asking") /\ UNCHANGED pool
  /\ UNCHANGED <<req, turn, next, open, cancelled, result>>

TakeTurn(w) ==
  /\ wk[w].pc = "asking" /\ turn = None
  /\ turn' = w /\ Goto(w, "turn")
  /\ UNCHANGED <<pool, req, next, open, cancelled, result>>

\* time.After(admissionRetry) while another goroutine holds the turn.
Retry(w) ==
  /\ wk[w].pc = "asking" /\ turn # None
  /\ Goto(w, "looking")
  /\ UNCHANGED <<pool, req, turn, next, open, cancelled, result>>

\* As acquireOnTurn, trying for a slot instead of blocking for one.
acquireTrying(w) ==
  /\ wk[w].pc = "turn" /\ Free("write")
  /\ Take("write") /\ Goto(w, "running")
  /\ UNCHANGED <<req, turn, next, open, cancelled, result>>

\* acquireOnTurn's blocking send.
acquireOnTurn(w) ==
  /\ wk[w].pc = "turn"
  /\ IF Free("write")
       THEN Take("write") /\ Goto(w, "running")
       ELSE Block("write", w) /\ Goto(w, "blocked")
  /\ UNCHANGED <<req, turn, next, open, cancelled, result>>

\* A refused item counts as skipped.
Skip(w) ==
  /\ wk' = [wk EXCEPT ![w] = Idle]
  /\ result' = [result EXCEPT ![wk[w].item] = "skipped"]

\* The context ends while the goroutine waits for the turn or for a slot.
RefuseWorker(w) ==
  /\ cancelled
  /\ \/ wk[w].pc = "asking" /\ UNCHANGED <<pool, turn>>
     \/ wk[w].pc = "turn" /\ turn' = None /\ UNCHANGED pool
     \/ wk[w].pc = "blocked" /\ Unblock("write", w) /\ turn' = None
  /\ Skip(w)
  /\ UNCHANGED <<req, next, open, cancelled>>

\* The item is done: the slot goes back, and with it the turn a goroutine that
\* blocked still holds.
FinishItem(w) ==
  /\ wk[w].pc = "running"
  /\ Release("write")
  /\ wk' = AdmitWorkers([wk EXCEPT ![w] =
              IF turn = w THEN [@ EXCEPT !.pc = "returning"] ELSE Idle], Served("write"))
  /\ rq' = AdmitRequests(rq, Served("write"))
  /\ result' = [result EXCEPT ![wk[w].item] = "attempted"]
  /\ UNCHANGED <<refusedAt, turn, next, open, cancelled>>

ReturnTurn(w) ==
  /\ wk[w].pc = "returning"
  /\ turn' = None /\ wk' = [wk EXCEPT ![w] = Idle]
  /\ UNCHANGED <<pool, req, next, open, cancelled, result>>

---------------------------------------------------------------------------
RequestStep(r) ==
  \/ shouldShed(r) \/ TryAcquire(r) \/ WaitElapsed(r) \/ ClientGone(r) \/ Serve(r) \/ Again(r)

Working(w) ==
  \/ Dispatch(w) \/ CheckHalf(w) \/ TakeBelowHalf(w) \/ TakeTurn(w) \/ Retry(w)
  \/ acquireOnTurn(w) \/ FinishItem(w) \/ ReturnTurn(w)

WorkerStep(w) == Working(w) \/ RefuseWorker(w)

Next ==
  \/ \E r \in Requests : RequestStep(r)
  \/ \E w \in Workers : WorkerStep(w)
  \/ CloseJobs \/ CancelBatch \/ Return \/ NextBatch

Spec == Init /\ [][Next]_vars


---------------------------------------------------------------------------
Holders(p) ==
  {r \in Requests : rq[r] = "inside" /\ semFor(r) = p}
    \cup (IF p = "write" THEN {w \in Workers : wk[w].pc = "running"} ELSE {})

TypeOK ==
  /\ held \in [Pools -> 0..100] /\ \A p \in Pools : held[p] <= Cap[p]
  /\ \A p \in Pools : ToSet(queue[p]) \subseteq Requests \cup Workers
  /\ rq \in [Requests -> {"new", "trying", "waiting", "inside", "answered", "refused", "gone"}]
  /\ turn \in Workers \cup {None} /\ next \in 1..(Items + 1)
  /\ result \in [1..Items -> {None, "skipped", "attempted"}]

\* Every slot taken of a pool is held by a request or item still running, a
\* blocked sender means the pool is full, and only those still waiting are
\* queued: neither a panic, a timeout, a client that left nor a cancelled batch
\* leaks or doubles a slot (Middleware, AcquireAdmission).
SlotsAccounted ==
  \A p \in Pools :
    /\ held[p] = Cardinality(Holders(p))
    /\ queue[p] # << >> => held[p] = Cap[p]
    /\ ToSet(queue[p]) =
         {r \in Requests : rq[r] = "waiting" /\ semFor(r) = p}
           \cup (IF p = "write" THEN {w \in Workers : wk[w].pc = "blocked"} ELSE {})

\* At most one background item blocks on the pool or runs on a slot it blocked
\* for, and that one holds the turn until both are given back (acquireOnTurn).
OneOnTurn ==
  {w \in Workers : wk[w].pc \in {"turn", "blocked", "returning"} \/ (wk[w].pc = "running" /\ ~wk[w].fast)}
    = {turn} \ {None}

\* When a batch returns, nothing of it holds a slot or the turn, every item it
\* handed out has one result, and what the tally leaves out is what a cancelled
\* dispatcher never handed out (Runner.Run, workerpool.Run).
ReturnedWhole ==
  open = "returned" =>
    /\ turn = None /\ \A w \in Workers : wk[w] = Idle
    /\ \A i \in 1..Items : (i < next) <=> (result[i] # None)
    /\ next <= Items => cancelled

\* However busy the clients are, the goroutine holding the turn gets its slot
\* (acquireOnTurn).
TurnGetsSlot ==
  \A w \in Workers : wk[w].pc = "turn" ~> wk[w].pc \in {"running", "idle"}
=============================================================================
