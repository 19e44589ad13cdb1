----------------------------- MODULE Rebalance ------------------------------
(***************************************************************************)
(* The rebalancer (worker/rebalancer.go, worker/placement.go): a pass      *)
(* reads the quota stats, plans moves against a simulation of the fleet    *)
(* while clients go on writing, and runs the plan a few moves at a time.   *)
(* A source's bytes stay on its backend until the cleanup deletes them.    *)
(***************************************************************************)
EXTENDS Integers, FiniteSetsExt, SequencesExt

CONSTANTS
  Backends,      \* numbered in configuration order
  Limit,         \* bytes_limit of each; 0 has no ceiling
  Keys,
  Size,          \* bytes of each key's objects
  Unmanaged,     \* keys outside every bucket
  Strategy,      \* "pack" or "spread"
  BatchSize,
  Concurrency,
  Threshold,     \* min utilization spread, in percent
  EgressLimit,   \* transfer each backend allows; 0 is no limit
  IngressLimit,
  Leftover,      \* bytes queued for cleanup at the start
  Initial,       \* ledgers a run starts from
  MaxEvents      \* writes, deletes, cordons and transfer of others, together

BoundsAssumption ==
  /\ Backends \subseteq Nat /\ IsFiniteSet(Backends) /\ IsFiniteSet(Keys)
  /\ Limit \in [Backends -> Nat] /\ Size \in [Keys -> Nat \ {0}]
  /\ BatchSize \in Nat \ {0} /\ Concurrency \in Nat \ {0}

VARIABLES
  rows,      \* object_locations: <<key, backend, write>>
  used,      \* backend_quotas.bytes_used
  orphans,   \* bytes queued for cleanup, per backend
  closed,    \* backends cordoned or draining
  spent,     \* transfer charged in this usage period
  pass,      \* the pass in progress
  moving,    \* moves between their claim and their commit
  events
vars == <<rows, used, orphans, closed, spent, pass, moving, events>>

Idle == [step |-> "idle"]

BytesOn(rs, b) == MapThenSumSet(LAMBDA r : Size[r[1]], {r \in rs : r[2] = b})
Zero == [b \in Backends |-> 0]
On(b) == {r \in rows : r[2] = b}
CopiesOf(k) == {r \in rows : r[1] = k}
Inflight(b) == MapThenSumSet(LAMBDA m : Size[m.row[1]], {m \in moving : m.to = b})
Unrecorded == [b \in Backends |-> orphans[b] + Inflight(b)]
\* The conditional insert every claim goes through.
HasRoom(b, size) == Limit[b] = 0 \/ used[b] + Unrecorded[b] + size <= Limit[b]

Init ==
  /\ rows \in Initial /\ used = [b \in Backends |-> BytesOn(rows, b)]
  /\ orphans \in Leftover /\ closed = {} /\ moving = {} /\ events = 0
  /\ spent = [egress |-> Zero, ingress |-> Zero]
  /\ pass = Idle

-----------------------------------------------------------------------------
(* Everyone else. *)

Ledger(gone, new) ==
  /\ rows' = (rows \ gone) \cup new
  /\ used' = [b \in Backends |-> used[b] - BytesOn(gone, b) + BytesOn(new, b)]
Queue(rs) == [b \in Backends |-> orphans[b] + BytesOn(rs, b)]
Other == events < MaxEvents /\ events' = events + 1

\* A client overwrites or deletes a key; the displaced bytes are queued.
Write(k, b) ==
  /\ Other /\ b \notin closed /\ HasRoom(b, Size[k])
  /\ LET w == 1 + Max({r[3] : r \in CopiesOf(k)} \cup {0}) IN
     Ledger(CopiesOf(k), {<<k, b, w>>})
  /\ orphans' = Queue(CopiesOf(k))
  /\ UNCHANGED <<closed, spent, pass, moving>>

Delete(k) ==
  /\ Other /\ CopiesOf(k) # {}
  /\ Ledger(CopiesOf(k), {}) /\ orphans' = Queue(CopiesOf(k))
  /\ UNCHANGED <<closed, spent, pass, moving>>

Cordon(b) ==
  /\ Other /\ b \notin closed
  /\ closed' = closed \cup {b}
  /\ UNCHANGED <<rows, used, orphans, spent, pass, moving>>

\* Admitted transfer of others, between passes: what it takes during one is
\* theirs, and the plan cannot have counted it.
Within(limit, amount) == limit = 0 \/ amount <= limit
Transfer(b, way) ==
  LET limit == IF way = "egress" THEN EgressLimit[b] ELSE IngressLimit[b] IN
  /\ Other /\ pass = Idle /\ limit # 0 /\ spent[way][b] < limit
  /\ spent' = [spent EXCEPT ![way][b] = @ + 1]
  /\ UNCHANGED <<rows, used, orphans, closed, pass, moving>>

Cleanup(b) ==
  /\ orphans[b] > 0
  /\ orphans' = [orphans EXCEPT ![b] = 0]
  /\ UNCHANGED <<rows, used, closed, spent, pass, moving, events>>

-----------------------------------------------------------------------------
(* The plan. *)

LessFull(a, b, u) == u[a] * Limit[b] < u[b] * Limit[a]
Limited == {b \in Backends : Limit[b] # 0}

\* The widest difference of two utilization ratios.
ExceedsThreshold ==
  /\ Cardinality(Backends) >= 2
  /\ \/ Limited = {} /\ Threshold <= 0
     \/ \E a, b \in Limited : 100 * (used[a] * Limit[b] - used[b] * Limit[a]) >= Threshold * Limit[a] * Limit[b]

Room(p, b) == Limit[b] - p.unrecorded[b] - p.sim[b]
Takes(p, b) == b \in p.targets

Movable(p, o, dest) == <<o[1], o[2]>> \notin p.leaving /\ <<o[1], dest>> \notin p.holders

Allows(p, o, dest) ==
  /\ Within(EgressLimit[o[2]], spent.egress[o[2]] + p.egress[o[2]] + Size[o[1]])
  /\ Within(IngressLimit[dest], spent.ingress[dest] + p.ingress[dest] + Size[o[1]])

Commit(p, src, dest, size) == [p EXCEPT !.egress[src] = @ + size, !.ingress[dest] = @ + size]

PlanForgettingSource(p, o, dest) ==
  IF Movable(p, o, dest) /\ Allows(p, o, dest)
    THEN [Commit(p, o[2], dest, Size[o[1]]) EXCEPT
            !.sim[dest] = @ + Size[o[1]], !.sim[o[2]] = @ - Size[o[1]],
            !.holders = @ \cup {<<o[1], dest>>},
            !.left = @ - 1, !.moves = Append(@, [row |-> o, to |-> dest])]
    ELSE p

\* planState.plan: the one way the simulation changes. A move declined
\* leaves it as it was.
Plan(p, o, dest) ==
  IF Movable(p, o, dest) /\ Allows(p, o, dest)
    THEN [Commit(p, o[2], dest, Size[o[1]]) EXCEPT
            !.sim[dest] = @ + Size[o[1]], !.sim[o[2]] = @ - Size[o[1]],
            !.holders = @ \cup {<<o[1], dest>>}, !.leaving = @ \cup {<<o[1], o[2]>>},
            !.left = @ - 1, !.moves = Append(@, [row |-> o, to |-> dest])]
    ELSE p

\* packMovesFromSource, one object.
PackMoves(p, o, dest) ==
  IF p.left > 0 /\ Size[o[1]] <= Room(p, dest) /\ LessFull(o[2], dest, p.sim) THEN Plan(p, o, dest) ELSE p

\* The whole target of a backend: its limit's share of all that is used.
Total(f) == MapThenSumSet(LAMBDA b : f[b], Backends)
TargetBytes(b) == (Total(used) * Limit[b]) \div Total(Limit)

Excess == [b \in Backends |-> used[b] - TargetBytes(b)]

FindSpreadDestination(p, o) == SelectInSeq(p.dests, LAMBDA d :
  Movable(p, o, d) /\ p.target[d] - p.sim[d] >= Size[o[1]] /\ Size[o[1]] <= Room(p, d))

\* spreadMovesFromSource, one object.
SpreadMoves(p, o) ==
  LET d == FindSpreadDestination(p, o) IN
  IF p.left > 0 /\ p.sim[o[2]] - p.target[o[2]] >= Size[o[1]] /\ d # 0
    THEN Plan(p, o, p.dests[d]) ELSE p

\* A backend order sorted on a key, equal keys in any order.
Sorted(bs, Before(_, _)) ==
  {s \in SetToSeqs(bs) : \A i, j \in DOMAIN s : i < j => ~Before(s[j], s[i])}

\* The (destination, source) pairs in the order the two loops visit them.
PackPairs(s) ==
  FlattenSeq([d \in 1..Len(s) |-> [i \in 1..(Len(s) - d) |-> <<s[d], s[Len(s) + 1 - i]>>]])

NewPlanState == [step |-> "pair", sim |-> used, unrecorded |-> Unrecorded,
  targets |-> Backends \ closed, egress |-> Zero, ingress |-> Zero, holders |-> {}, leaving |-> {},
  left |-> BatchSize, moves |-> <<>>, todo |-> <<>>, dests |-> <<>>, target |-> Zero,
  listed |-> [b \in Backends |-> <<>>], cached |-> {}, rest |-> <<>>]

\* planPackTight: destinations fullest first, sources emptiest first.
PlanPackTight ==
  \E s \in Sorted(Limited, LAMBDA a, b : LessFull(b, a, used)) :
    pass' = [NewPlanState EXCEPT !.todo = PackPairs(s)]

\* planSpreadEven, from computeSpreadBalances.
PlanSpreadEven ==
  /\ Total(Limit) # 0
  /\ LET excess == Excess IN
     \E sources \in Sorted({b \in Backends : excess[b] > 0}, LAMBDA a, b : excess[a] > excess[b]),
        dests \in Sorted({b \in Backends : excess[b] < 0}, LAMBDA a, b : excess[a] < excess[b]) :
       pass' = [NewPlanState EXCEPT !.todo = [i \in DOMAIN sources |-> <<0, sources[i]>>],
                  !.dests = SelectSeq(dests, LAMBDA d : d \notin closed),
                  !.target = [b \in Backends |-> TargetBytes(b)]]

\* Rebalance, up to the plan; a fleet within the threshold is left alone.
Begin ==
  /\ pass = Idle /\ ExceedsThreshold
  /\ IF Strategy = "pack" THEN PlanPackTight ELSE PlanSpreadEven
  /\ UNCHANGED <<rows, used, orphans, closed, spent, moving, events>>

Planning(step) == pass.step = step
NextDest == Head(pass.todo)[1]
NextSource == Head(pass.todo)[2]
PairSkipped ==
  /\ Strategy = "pack"
  /\ \/ Room(pass, NextDest) <= 0 \/ ~Takes(pass, NextDest)
     \/ ~LessFull(NextSource, NextDest, pass.sim)
HasPair == Planning("pair") /\ pass.todo # <<>> /\ pass.left > 0

\* candidateCache.forBackend reads the listing, then where its keys live.
ListObjectsByBackend ==
  /\ HasPair /\ ~PairSkipped /\ NextSource \notin pass.cached
  /\ LET all == SetToSortSeq({r \in On(NextSource) : r[1] \notin Unmanaged},
                  LAMBDA r, s : Size[r[1]] < Size[s[1]] \/ (Size[r[1]] = Size[s[1]] /\ r[1] < s[1]))
     IN pass' = [pass EXCEPT !.step = "copies",
                   !.listed[NextSource] = SubSeq(all, 1, IF Len(all) < BatchSize THEN Len(all) ELSE BatchSize)]
  /\ UNCHANGED <<rows, used, orphans, closed, spent, moving, events>>

GetObjectBackendsForKeys ==
  /\ Planning("copies")
  /\ LET keys == {r[1] : r \in ToSet(pass.listed[NextSource])} IN
     pass' = [pass EXCEPT !.step = "pair", !.cached = @ \cup {NextSource},
                !.holders = @ \cup {<<r[1], r[2]>> : r \in {q \in rows : q[1] \in keys}}]
  /\ UNCHANGED <<rows, used, orphans, closed, spent, moving, events>>

NextPair == [pass EXCEPT !.step = "pair", !.todo = Tail(@), !.rest = <<>>]

SkipPair ==
  /\ HasPair /\ PairSkipped
  /\ pass' = NextPair
  /\ UNCHANGED <<rows, used, orphans, closed, spent, moving, events>>

\* One source against one destination (pack) or against all (spread).
StartPair ==
  /\ HasPair /\ ~PairSkipped /\ NextSource \in pass.cached
  /\ pass' = IF pass.listed[NextSource] = <<>> THEN NextPair
             ELSE [pass EXCEPT !.step = "objects", !.rest = pass.listed[NextSource]]
  /\ UNCHANGED <<rows, used, orphans, closed, spent, moving, events>>

PlanObject ==
  /\ Planning("objects")
  /\ LET o == Head(pass.rest)
         p == IF Len(pass.rest) = 1 THEN NextPair ELSE [pass EXCEPT !.rest = Tail(@)]
     IN pass' = IF Strategy = "pack" THEN PackMoves(p, o, NextDest) ELSE SpreadMoves(p, o)
  /\ UNCHANGED <<rows, used, orphans, closed, spent, moving, events>>

EndPlan ==
  /\ Planning("pair") /\ (pass.todo = <<>> \/ pass.left = 0)
  /\ pass' = IF pass.moves = <<>> THEN Idle ELSE [step |-> "moves", plan |-> pass.moves]
  /\ UNCHANGED <<rows, used, orphans, closed, spent, moving, events>>

-----------------------------------------------------------------------------
(* executeMoves: MoveObject for each, Concurrency at a time. *)

AfterMoves(plan, ms) == IF plan = <<>> /\ ms = {} THEN Idle ELSE [step |-> "moves", plan |-> plan]
Held(k, b) == \E r \in rows : r[1] = k /\ r[2] = b

\* The claim of the destination: a conditional insert.
Claimed(m) == m.to \notin closed /\ ~Held(m.row[1], m.to) /\ HasRoom(m.to, Size[m.row[1]])

ClaimCopyTarget ==
  /\ Planning("moves") /\ pass.plan # <<>> /\ Cardinality(moving) < Concurrency
  /\ LET m == Head(pass.plan)
         ms == moving \cup (IF Claimed(m) THEN {m} ELSE {})
     IN moving' = ms /\ pass' = AfterMoves(Tail(pass.plan), ms)
  /\ UNCHANGED <<rows, used, orphans, closed, spent, events>>

\* The copy lands where the row it was read from still stands.
Place(m) ==
  IF m.row \in rows /\ ~Held(m.row[1], m.to)
    THEN /\ Ledger({m.row}, {<<m.row[1], m.to, m.row[3]>>})
         /\ orphans' = [orphans EXCEPT ![m.row[2]] = @ + Size[m.row[1]]]
    ELSE UNCHANGED <<rows, used>> /\ orphans' = [orphans EXCEPT ![m.to] = @ + Size[m.row[1]]]

\* What no limit is tested against is not counted.
Charged(amount, limit, size) == IF limit = 0 THEN amount ELSE amount + size

MoveObject(m) ==
  /\ m \in moving
  /\ moving' = moving \ {m} /\ pass' = AfterMoves(pass.plan, moving')
  /\ spent' = [spent EXCEPT !.egress[m.row[2]] = Charged(@, EgressLimit[m.row[2]], Size[m.row[1]]),
                           !.ingress[m.to] = Charged(@, IngressLimit[m.to], Size[m.row[1]])]
  /\ Place(m)
  /\ UNCHANGED <<closed, events>>

\* The copy fails on the way, and what reached the destination is discarded.
StreamCopyFails(m) ==
  /\ m \in moving /\ Other
  /\ moving' = moving \ {m} /\ pass' = AfterMoves(pass.plan, moving')
  /\ orphans' = [orphans EXCEPT ![m.to] = @ + Size[m.row[1]]]
  /\ UNCHANGED <<rows, used, closed, spent>>

Worker == Begin \/ ListObjectsByBackend \/ GetObjectBackendsForKeys \/ SkipPair \/ StartPair \/ PlanObject
          \/ EndPlan \/ ClaimCopyTarget
Others ==
  \/ \E k \in Keys, b \in Backends : Write(k, b)
  \/ \E k \in Keys : Delete(k)
  \/ \E b \in Backends : Cordon(b)
  \/ \E b \in Backends, way \in {"egress", "ingress"} : Transfer(b, way)
  \/ \E m \in moving : StreamCopyFails(m)
Next ==
  \/ Worker \/ Others
  \/ \E m \in moving : MoveObject(m)
  \/ \E b \in Backends : Cleanup(b)

Spec == Init /\ [][Next]_vars

-----------------------------------------------------------------------------
TypeOK ==
  /\ rows \subseteq Keys \X Backends \X (0..MaxEvents + 1)
  /\ \A r, s \in rows : r[1] = s[1] => (r[3] = s[3] /\ (r[2] = s[2] => r = s))
  /\ orphans \in [Backends -> Nat] /\ closed \subseteq Backends
  /\ pass.step \in {"idle", "pair", "copies", "objects", "moves"}
  /\ moving \subseteq [row : Keys \X Backends \X (0..MaxEvents + 1), to : Backends]

Planned == IF Planning("idle") THEN <<>> ELSE IF Planning("moves") THEN pass.plan ELSE pass.moves

\* No copy is planned away twice and no key is brought twice to a backend
\* or onto one that was seen to hold it, whatever pairs a source's cached
\* listing met (planState.movable, leaving, holders).
PlanDistinct ==
  \A i, j \in DOMAIN Planned : i # j =>
    /\ Planned[i].row # Planned[j].row
    /\ Planned[i].row[1] = Planned[j].row[1] => Planned[i].to # Planned[j].to

\* The moves of one pass together stay inside the transfer the backends
\* allow, though each is checked before any of them is charged
\* (usageBudget).
BudgetKept ==
  LET owed == {Planned[i] : i \in DOMAIN Planned} \cup moving
      Out(b) == MapThenSumSet(LAMBDA m : Size[m.row[1]], {m \in owed : m.row[2] = b})
      In(b) == MapThenSumSet(LAMBDA m : Size[m.row[1]], {m \in owed : m.to = b})
  IN \A b \in Backends :
       /\ Within(EgressLimit[b], spent.egress[b] + Out(b))
       /\ Within(IngressLimit[b], spent.ingress[b] + In(b))

\* A move changes where a copy is and never how many copies its key has,
\* nor brings back a write a client replaced (MoveObject through PlaceCopy).
MovesKeepCopies ==
  (events' = events) =>
       \A k \in Keys : /\ Cardinality(CopiesOf(k)') = Cardinality(CopiesOf(k))
                       /\ {r[3] : r \in CopiesOf(k)'} = {r[3] : r \in CopiesOf(k)}

\* With the fleet to itself, no move of a plan finds its destination
\* refusing it: the room a plan counts on is there when the moves run, in
\* whatever order they end (planState.room leaves out unrecorded bytes).
NoWastedMove ==
  (Planning("moves") /\ moving \subseteq moving' /\ pass' # pass) => moving' # moving

\* Passes over a fleet nobody changes come to an end: no pass undoes what
\* another did.
Settles == <>[](pass.step # "moves")

\* A move that would bring two backends nearer the fleet's ratio.
CouldImprove ==
  LET excess == Excess IN
  \E r \in rows, d \in Limited \ closed :
    /\ r[1] \notin Unmanaged /\ ~Held(r[1], d) /\ HasRoom(d, Size[r[1]])
    /\ excess[r[2]] >= Size[r[1]] /\ excess[d] <= -Size[r[1]]

\* Spreading goes on until the ratios are within the threshold or no move
\* brings them nearer.
Evened == (ExceedsThreshold => ~CouldImprove) \in {TRUE}
Equalizes == []<>Evened
=============================================================================
