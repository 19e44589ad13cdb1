----------------------------- MODULE MCWorkers ------------------------------
(***************************************************************************)
(* The background workers: drains and removals of backends, which are the   *)
(* module's own part, and beside them the scrubber, replicator and          *)
(* cleaner, the rebalancer, the reconciler and the expiry sweep. A          *)
(* behaviour is one part's; the others are idle.                            *)
(***************************************************************************)
EXTENDS BackendState, Integers, Sequences, FiniteSetsExt

CONSTANTS Parts, \* the instances a run explores
          Off    \* the value of a component that is not running

VARIABLES part, keepRows, bytes, queue, due, keepIntents, last, tags, down, cordoned, spent,
          scrub, repl, clean, faults, evenRows, used, orphans, closed, evenSpent, evenPass,
          evenMoving, events, mergeBytes, mergeIntents, mergeRows, mergeQueue, mergeFresh,
          recent, mergePass, pc, buf, listed, ending, mergePage, read, done, pages, obj,
          clock, sweep, total

keepVars == <<keepRows, bytes, queue, due, keepIntents, last, tags, down, cordoned, spent,
              scrub, repl, clean, faults>>
evenVars == <<evenRows, used, orphans, closed, evenSpent, evenPass, evenMoving, events>>
mergeVars == <<mergeBytes, mergeIntents, mergeRows, mergeQueue, mergeFresh, recent,
               mergePass, pc, buf, listed, ending, mergePage, read, done, pages>>
ageVars == <<obj, clock, sweep, total>>
allVars == <<part, vars, keepVars, evenVars, mergeVars, ageVars>>

NoUntracked == {}
OneUntracked == {<<"k1", "b">>}

(* Copies of an object's first write on some backends, with the keys that    *)
(* open them or plain, and those written before hashes were recorded.        *)
Copies(k, bs, form, known) ==
    {[at |-> <<k, b>>, write |-> 1, form |-> form, digest |-> known, etag |-> known] : b \in bs}
Surplus == {Copies(1, {1, 2, 3}, "keyed", 1),
            Copies(1, {1, 2}, "keyed", 1) \cup Copies(1, {3}, "plain", 0)}

(* Each key on one backend or on two, where they fit.                        *)
Sizes == <<1, 2, 2>>
Spread(f) == UNION {{<<k, b, 1>> : b \in f[k]} : k \in DOMAIN f}
SizeOn(rs, b) == MapThenSumSet(LAMBDA r : Sizes[r[1]], {r \in rs : r[2] = b})
Placements(keys) == {rs \in {Spread(f) : f \in [keys -> {{1}, {1, 2}, {2}, {3}}]} :
                       SizeOn(rs, 1) <= 4 /\ SizeOn(rs, 2) <= 6 /\ SizeOn(rs, 3) <= 4}
Unlimited == <<0, 0, 0>>

(* A rule on a prefix of the keys, and one on two tags.                      *)
ExpiryRules == <<[keys |-> {1, 2}, tags |-> [t \in {"t", "u"} |-> "none"]],
                 [keys |-> {1, 2, 3}, tags |-> [t \in {"t", "u"} |-> "x"]]>>

-----------------------------------------------------------------------------
Checks == INSTANCE CopyUpkeep WITH
    rows <- keepRows, intents <- keepIntents,
    Keys <- {1}, Backends <- {1, 2}, Factor <- 1, BatchSize <- 1, MaxWrites <- 2,
    Endless <- FALSE, Initial <- {Copies(1, {1, 2}, "keyed", 1)},
    Workers <- {"scrub", "key", "clean"},
    Events <- {"write", "delete", "tag", "rotten", "gone", "spend"}, MaxFaults <- 1
Backfill == INSTANCE CopyUpkeep WITH
    rows <- keepRows, intents <- keepIntents,
    Keys <- {1}, Backends <- {1, 2}, Factor <- 2, BatchSize <- 1, MaxWrites <- 2,
    Endless <- FALSE, Initial <- {Copies(1, {1, 2}, "plain", 0)},
    Workers <- {"backfill", "purge", "key"}, Events <- {"write", "import", "rotten"},
    MaxFaults <- 1
Cleaning == INSTANCE CopyUpkeep WITH
    rows <- keepRows, intents <- keepIntents,
    Keys <- {1}, Backends <- {1, 2, 3}, Factor <- 2, BatchSize <- 1, MaxWrites <- 2,
    Endless <- FALSE, Initial <- Surplus, Workers <- {"clean", "replicate", "key"},
    Events <- {"down", "cordon", "rotten", "gone"}, MaxFaults <- 1
Sweeps == INSTANCE CopyUpkeep WITH
    rows <- keepRows, intents <- keepIntents,
    Keys <- {1, 2}, Backends <- {1, 2}, Factor <- 1, BatchSize <- 1, MaxWrites <- 2,
    Endless <- TRUE,
    Initial <- {Copies(1, {1}, "plain", 1) \cup Copies(2, {1}, "plain", 1)},
    Workers <- {"scrub"}, Events <- {"write", "gone"}, MaxFaults <- 1
Healing == INSTANCE CopyUpkeep WITH
    rows <- keepRows, intents <- keepIntents,
    Keys <- {1}, Backends <- {1, 2, 3}, Factor <- 2, BatchSize <- 1, MaxWrites <- 2,
    Endless <- FALSE,
    Initial <- {Copies(1, bs, "keyed", 1) : bs \in {{1}, {1, 2}, {1, 2, 3}}},
    Workers <- {"scrub", "replicate", "clean"}, Events <- {"rotten"}, MaxFaults <- 2
Packing == INSTANCE Rebalance WITH
    rows <- evenRows, spent <- evenSpent,
    pass <- evenPass, moving <- evenMoving, Backends <- {1, 2, 3}, Limit <- <<4, 6, 4>>,
    Keys <- {1, 2, 3}, Size <- Sizes, Unmanaged <- {}, Strategy <- "pack", BatchSize <- 3,
    Concurrency <- 2, Threshold <- 10, EgressLimit <- Unlimited, IngressLimit <- Unlimited,
    Leftover <- {Unlimited}, Initial <- Placements({1, 2, 3}), MaxEvents <- 1
Spreading == INSTANCE Rebalance WITH
    rows <- evenRows, spent <- evenSpent,
    pass <- evenPass, moving <- evenMoving, Backends <- {1, 2, 3}, Limit <- <<6, 6, 6>>,
    Keys <- {1, 2, 3}, Size <- <<1, 1, 1>>, Unmanaged <- {}, Strategy <- "spread",
    BatchSize <- 2, Concurrency <- 2, Threshold <- 10, EgressLimit <- <<1, 1, 1>>,
    IngressLimit <- <<1, 1, 1>>, Leftover <- {Unlimited}, Initial <- Placements({1, 2, 3}),
    MaxEvents <- 1
Lonely == INSTANCE Rebalance WITH
    rows <- evenRows, spent <- evenSpent,
    pass <- evenPass, moving <- evenMoving, Backends <- {1, 2, 3}, Limit <- <<4, 6, 4>>,
    Keys <- {1, 2, 3}, Size <- Sizes, Unmanaged <- {}, Strategy <- "spread", BatchSize <- 2,
    Concurrency <- 2, Threshold <- 10, EgressLimit <- Unlimited, IngressLimit <- Unlimited,
    Leftover <- {<<0, 0, 0>>, <<0, 3, 0>>, <<3, 0, 3>>}, Initial <- Placements({1, 2, 3}),
    MaxEvents <- 0
Evening == INSTANCE Rebalance WITH
    rows <- evenRows, spent <- evenSpent,
    pass <- evenPass, moving <- evenMoving, Backends <- {1, 2, 3}, Limit <- <<4, 6, 4>>,
    Keys <- {1, 2, 3}, Size <- Sizes, Unmanaged <- {3}, Strategy <- "spread",
    BatchSize <- 3, Concurrency <- 2, Threshold <- 10, EgressLimit <- Unlimited,
    IngressLimit <- Unlimited, Leftover <- {Unlimited}, Initial <- Placements({1, 2, 3}),
    MaxEvents <- 0
Merging == INSTANCE Reconcile WITH
    bytes <- mergeBytes, intents <- mergeIntents,
    rows <- mergeRows, queue <- mergeQueue, fresh <- mergeFresh, pass <- mergePass,
    page <- mergePage, NPaths <- 3, PageSize <- 2, BudgetPages <- 9, Copied <- FALSE,
    Foreign <- {2}, Kinds <- {"merge", "sync"}
Syncing == INSTANCE Reconcile WITH
    bytes <- mergeBytes, intents <- mergeIntents,
    rows <- mergeRows, queue <- mergeQueue, fresh <- mergeFresh, pass <- mergePass,
    page <- mergePage, NPaths <- 3, PageSize <- 2, BudgetPages <- 9, Copied <- FALSE,
    Foreign <- {2}, Kinds <- {"sync"}
Expiring == INSTANCE Expiry WITH
    Keys <- {1, 2, 3}, TagKeys <- {"t", "u"},
    TagValues <- {"x"}, Rules <- ExpiryRules, Days <- 1, BatchSize <- 2, GroupSize <- 1,
    MaxClock <- 2

ASSUME Packing!BoundsAssumption /\ Spreading!BoundsAssumption /\ Lonely!BoundsAssumption /\ Evening!BoundsAssumption

keepOff == Checks!Init /\ queue = <<<<1, 1>>, <<1, 2>>>> /\ due = 0
evenOff == Packing!Init /\ evenRows = Spread(<<{1}, {1}, {2}>>)
mergeOff == mergeBytes = Off /\ mergeIntents = Off /\ mergeRows = Off /\ mergeQueue = Off /\
            mergeFresh = Off /\ recent = Off /\ mergePass = Off /\ pc = Off /\ buf = Off /\
            listed = Off /\ ending = Off /\ mergePage = Off /\ read = Off /\ done = Off /\
            pages = Off
ageOff == obj = Off /\ clock = Off /\ sweep = Off /\ total = Off

InitPart ==
    /\ part \in Parts
    /\ Init
    /\ part # "drain" => recorded = {}
    /\ CASE part = "checks" -> Checks!Init
         [] part = "backfill" -> Backfill!Init
         [] part = "clean" -> Cleaning!Init
         [] part = "sweeps" -> Sweeps!Init
         [] part = "heals" -> Healing!Init
         [] OTHER -> keepOff
    /\ CASE part = "pack" -> Packing!Init
         [] part = "spread" -> Spreading!Init
         [] part = "alone" -> Lonely!Init
         [] part = "evens" -> Evening!Init
         [] OTHER -> evenOff
    /\ CASE part = "merges" -> Merging!Init
         [] part = "syncs" -> Syncing!Init
         [] OTHER -> mergeOff
    /\ IF part = "expiry" THEN Expiring!Init ELSE ageOff

NextPart ==
    \/ part = "drain" /\ Next
       /\ UNCHANGED <<part, keepVars, evenVars, mergeVars, ageVars>>
    \/ /\ \/ part = "checks" /\ Checks!Next
          \/ part = "backfill" /\ Backfill!Next
          \/ part = "clean" /\ Cleaning!Next
          \/ part = "sweeps" /\ Sweeps!Next
          \/ part = "heals" /\ Healing!Next
       /\ UNCHANGED <<part, vars, evenVars, mergeVars, ageVars>>
    \/ /\ \/ part = "pack" /\ Packing!Next
          \/ part = "spread" /\ Spreading!Next
          \/ part = "alone" /\ Lonely!Next
          \/ part = "evens" /\ Evening!Next
       /\ UNCHANGED <<part, vars, keepVars, mergeVars, ageVars>>
    \/ /\ \/ part = "merges" /\ Merging!Next
          \/ part = "syncs" /\ Syncing!Next
       /\ UNCHANGED <<part, vars, keepVars, evenVars, ageVars>>
    \/ part = "expiry" /\ Expiring!Next
       /\ UNCHANGED <<part, vars, keepVars, evenVars, mergeVars>>

SpecParts == InitPart /\ [][NextPart]_allVars
(* The drain worker ticks and refreshes its cache, every write and upload    *)
(* ends (the reaper and the stale sweep end those whose process died), and a *)
(* copy tried on every pass succeeds in the end.  The other workers run on   *)
(* their ticks and go through what they took; time passes.                   *)
Fairness ==
    /\ WF_vars(part = "drain" /\ DrainStep)
    /\ SF_vars(part = "drain" /\ PlaceCopy)
    /\ WF_vars(part = "drain" /\ \E p \in claims : CommitClaim(p))
    /\ \A w \in Writes :
         WF_vars(part = "drain" /\ \E p \in intents : p.id = w /\ (RecordObject(p) \/ DiscardPending(p)))
    /\ \A u \in Uploads : WF_vars(part = "drain" /\ EndUpload(u))
    /\ WF_keepVars(part = "sweeps" /\ Sweeps!Age) /\ WF_keepVars(part = "sweeps" /\ Sweeps!Scrub)
    /\ WF_keepVars(part = "sweeps" /\ Sweeps!ScrubStep)
    /\ WF_keepVars(part = "heals" /\ Healing!Age) /\ WF_keepVars(part = "heals" /\ Healing!Scrub)
    /\ WF_keepVars(part = "heals" /\ Healing!ScrubStep)
    /\ WF_keepVars(part = "heals" /\ Healing!Replicate(1)) /\ WF_keepVars(part = "heals" /\ Healing!Clean(1))
    /\ WF_keepVars(part = "heals" /\ Healing!ReplStep) /\ WF_keepVars(part = "heals" /\ Healing!CleanObject)
    /\ WF_evenVars(part = "alone" /\ Lonely!Worker)
    /\ WF_evenVars(part = "alone" /\ \E m \in evenMoving : Lonely!MoveObject(m))
    /\ \A b \in 1..3 : WF_evenVars(part = "alone" /\ Lonely!Cleanup(b))
    /\ WF_evenVars(part = "evens" /\ Evening!Worker)
    /\ WF_evenVars(part = "evens" /\ \E m \in evenMoving : Evening!MoveObject(m))
    /\ \A b \in 1..3 : WF_evenVars(part = "evens" /\ Evening!Cleanup(b))
FairParts == SpecParts /\ Fairness

-----------------------------------------------------------------------------
(* What the workers write beside the copies stays true of them: a backend   *)
(* has one drain flag at most (StartDrain, MarkDrainFailed), tags belong    *)
(* to the newest write of a key that has a copy (clearTagsForKey), a hash   *)
(* was computed over the bytes of its own write (UpdateCopyMetadata), a     *)
(* plan moves no copy twice and keeps its transfer budget (planState), a    *)
(* path has one owner whatever is imported (ImportObject), and a sweep      *)
(* counts every attempted key once (applyRule).                             *)
RowsTended ==
    /\ part = "drain" => DrainInv
    /\ part = "checks" => Checks!TypeOK /\ Checks!TagsOfObject
    /\ part = "backfill" => Backfill!TypeOK /\ Backfill!HashOfOwnWrite
    /\ part = "pack" => Packing!TypeOK /\ Packing!PlanDistinct
    /\ part = "spread" => Spreading!TypeOK /\ Spreading!PlanDistinct /\
                           Spreading!BudgetKept
    /\ part = "merges" => Merging!TypeOK /\ Merging!OneOwner
    /\ part = "syncs" => Syncing!TypeOK /\ Syncing!OneOwner
    /\ part = "expiry" => Expiring!TypeOK /\ Expiring!CountsAdd /\ Expiring!EnginesAgree


=============================================================================
