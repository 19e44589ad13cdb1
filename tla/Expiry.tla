------------------------------- MODULE Expiry -------------------------------
(***************************************************************************)
(* Lifecycle expiration: one sweep walks the expired objects of each rule  *)
(* by key, a page at a time, and deletes each page in groups, one          *)
(* transaction per group, while clients write, tag and delete.             *)
(***************************************************************************)
EXTENDS Integers, Sequences, FiniteSets, SequencesExt

CONSTANTS Keys,        \* object keys, in key order
          TagKeys, TagValues,
          Rules,       \* a sequence of [keys, tags]: what a rule's prefix and tags select
          Days,        \* ticks after which an object expires
          BatchSize,   \* objects per page
          GroupSize,   \* deleteGroupSize, keys per delete transaction
          MaxClock     \* bound: ticks

VARIABLES obj,      \* key -> when it was written and its tags, or Gone
          clock,
          sweep,    \* the pass in progress
          total     \* its tally

vars == <<obj, clock, sweep, total>>

NoTag == "none"
Gone == [at |-> -1, tags |-> [t \in TagKeys |-> NoTag]]
Objects == [at : 0..MaxClock, tags : [TagKeys -> TagValues \cup {NoTag}]]

Idle == [pc |-> "idle", rule |-> 0, cutoff |-> 0, after |-> 0,
         page |-> <<>>, left |-> <<>>, tried |-> {}]

Nothing == [attempted |-> 0, succeeded |-> 0, failed |-> 0]

Init ==
  /\ obj \in [Keys -> {Gone, [at |-> 0, tags |-> Gone.tags]}]
  /\ clock = 0
  /\ sweep = Idle /\ total = Nothing

----------------------------------------------------------------------------
(* The store's listing                                                     *)

\* The pairs of the filter: tag keys the rule names, each with its value.
Filter(rule) == {t \in TagKeys : rule.tags[t] # NoTag}

\* Postgres counts the matching pairs and compares with the filter's size.
PgMatches(k, rule) ==
  \/ Filter(rule) = {}
  \/ Cardinality({t \in Filter(rule) : obj[k].tags[t] = rule.tags[t]})
       = Cardinality(Filter(rule))

\* SQLite adds one EXISTS per pair.
LiteMatches(k, rule) == \A t \in Filter(rule) : obj[k].tags[t] = rule.tags[t]

Before(k, cutoff) == obj[k].at < cutoff

Expired(k, rule, cutoff) ==
  /\ obj[k] # Gone
  /\ k \in rule.keys
  /\ Before(k, cutoff)
  /\ PgMatches(k, rule)

ListExpiredObjects(rule, cutoff, after) ==
  LET s == SetToSortSeq({k \in Keys : k > after /\ Expired(k, rule, cutoff)}, <)
  IN SubSeq(s, 1, IF Len(s) < BatchSize THEN Len(s) ELSE BatchSize)

----------------------------------------------------------------------------
(* ProcessRules                                                            *)

BeginRule(i) ==
  [Idle EXCEPT !.pc = "list", !.rule = i, !.cutoff = clock - Days]

StartSweep ==
  /\ sweep.pc = "idle"
  /\ sweep' = BeginRule(1)
  /\ total' = Nothing
  /\ UNCHANGED <<obj, clock>>

EndRule == IF sweep.rule = Len(Rules) THEN Idle ELSE BeginRule(sweep.rule + 1)

List ==
  LET page == ListExpiredObjects(Rules[sweep.rule], sweep.cutoff, sweep.after) IN
  /\ sweep.pc = "list"
  /\ sweep' = IF page = <<>> THEN EndRule
              ELSE [sweep EXCEPT !.pc = "delete", !.page = page, !.left = page,
                                 !.after = page[Len(page)],
                                 !.tried = @ \cup ToSet(page)]
  /\ total' = [total EXCEPT !.attempted = @ + Len(page)]
  /\ UNCHANGED <<obj, clock>>

\* A listing failure counts as one failure and ends the rule.
ListingFails ==
  /\ sweep.pc = "list"
  /\ total' = [total EXCEPT !.attempted = @ + 1, !.failed = @ + 1]
  /\ sweep' = EndRule
  /\ UNCHANGED <<obj, clock>>

Group == SubSeq(sweep.left, 1, IF Len(sweep.left) < GroupSize THEN Len(sweep.left) ELSE GroupSize)

After(n) == SubSeq(sweep.left, n + 1, Len(sweep.left))

\* The page is done: a short one was the last.
PageEnd ==
  IF Len(sweep.page) < BatchSize THEN EndRule
  ELSE [sweep EXCEPT !.pc = "list", !.page = <<>>, !.left = <<>>]

AfterGroup ==
  IF After(Len(Group)) = <<>> THEN PageEnd
  ELSE [sweep EXCEPT !.left = After(Len(Group))]

\* DeleteObjectsBatch removes the group's keys; a key already gone counts as
\* deleted.
DeleteGroup ==
  /\ sweep.pc = "delete"
  /\ obj' = [k \in Keys |-> IF k \in ToSet(Group) THEN Gone ELSE obj[k]]
  /\ total' = [total EXCEPT !.succeeded = @ + Len(Group)]
  /\ sweep' = AfterGroup
  /\ UNCHANGED clock

\* A group that fails reports its own keys and the next one is tried.
GroupFails ==
  /\ sweep.pc = "delete"
  /\ total' = [total EXCEPT !.failed = @ + Len(Group)]
  /\ sweep' = AfterGroup
  /\ UNCHANGED <<obj, clock>>

----------------------------------------------------------------------------
(* Clients                                                                 *)

Write(k, tags) ==
  /\ obj' = [obj EXCEPT ![k] = [at |-> clock, tags |-> tags]]
  /\ obj' # obj
  /\ UNCHANGED <<clock, sweep, total>>

PutTags(k, tags) ==
  /\ obj[k] # Gone /\ obj[k].tags # tags
  /\ obj' = [obj EXCEPT ![k].tags = tags]
  /\ UNCHANGED <<clock, sweep, total>>

Delete(k) ==
  /\ obj[k] # Gone
  /\ obj' = [obj EXCEPT ![k] = Gone]
  /\ UNCHANGED <<clock, sweep, total>>

Tick ==
  /\ clock < MaxClock
  /\ clock' = clock + 1
  /\ UNCHANGED <<obj, sweep, total>>

Sweeping == StartSweep \/ List \/ ListingFails \/ DeleteGroup \/ GroupFails

Tags == [TagKeys -> TagValues \cup {NoTag}]

Next ==
  \/ Sweeping
  \/ \E k \in Keys, tags \in Tags : Write(k, tags) \/ PutTags(k, tags)
  \/ \E k \in Keys : Delete(k)
  \/ Tick

Spec == Init /\ [][Next]_vars

----------------------------------------------------------------------------
(* Properties                                                              *)

\* The cursor follows the pages and what is left of a page is its tail.
TypeOK ==
  /\ obj \in [Keys -> Objects \cup {Gone}]
  /\ clock \in 0..MaxClock
  /\ sweep.pc \in {"idle", "list", "delete"}
  /\ sweep.pc # "idle" => sweep.rule \in 1..Len(Rules)
  /\ sweep.pc = "delete" => sweep.left # <<>> /\ IsSuffix(sweep.left, sweep.page)
                             /\ sweep.after = sweep.page[Len(sweep.page)]

\* Every key a sweep takes up is counted once, as deleted or as failed, and a
\* failed listing as one failure: at the end of a sweep the counts add up
\* (applyRule, expirePage, DeleteObjects).
CountsAdd == sweep.pc = "idle" => total.attempted = total.succeeded + total.failed

\* One rule attempts an object at most once per sweep: a key whose delete
\* failed is passed over until the next sweep (the cursor of applyRule).
TriedOnce ==
  sweep.pc = "list" /\ sweep'.pc = "delete" => ToSet(sweep'.page) \cap sweep.tried = {}

\* Both engines select the same objects for a rule with several tags
\* (ListExpiredObjects).
EnginesAgree ==
  \A k \in Keys, i \in DOMAIN Rules : PgMatches(k, Rules[i]) = LiteMatches(k, Rules[i])
=============================================================================
