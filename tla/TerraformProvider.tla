------------------------- MODULE TerraformProvider -------------------------
(***************************************************************************)
(* The Terraform provider: a bucket, a user, a credential and a grant kept *)
(* as declared through the admin API.  A run refreshes what the state      *)
(* holds (Read), plans, and applies (Create, Update, Delete) in dependency *)
(* order, one call at a time; a call's request or its answer may be lost,  *)
(* and other operators change the same rows meanwhile.  Terraform itself   *)
(* (when a run starts, the plan's order, what a failed step holds back) is *)
(* external; what the provider's schemas make of a difference is not.      *)
(***************************************************************************)
EXTENDS Integers, Sequences, FiniteSets, Functions, TLC

CONSTANTS
    Null,           \* an attribute or a resource that is not set
    UserIds,        \* ids CreateUser can generate
    MintKeys,       \* access keys CreateCredential can mint
    Declarations,   \* what the configuration may declare
    First,          \* [want, db, file, state] at the start
    ConfigUsers,    \* id -> bucket: users the file's credentials stand for
    Edits,          \* what other operators may do: a set of names
    Imports,        \* resources an operator may import
    Files,          \* bucket sets the configuration file may declare
    MaxChanges, MaxEdits, MaxLosses, MaxFiles

VARIABLES
    db,         \* the store's rows: table -> key -> row
    file,       \* buckets the configuration file declares
    want,       \* the declaration
    state,      \* resource -> what Terraform recorded, or Null
    run,        \* the run in progress
    changes, edits, losses, files

vars == <<db, file, want, state, run, changes, edits, losses, files>>

Resources == {"bucket", "user", "credential", "grant"}

Parents(r) == CASE r = "grant" -> {"user", "bucket"}
                [] r = "credential" -> {"user"}
                [] OTHER -> {}

\* permExpansions, over a bucket's permissions only.
permExpansions == [p \in {"all"} |-> {"read", "write"}]

\* ParsePermissions on the way in: the store holds the expansion.
Expanded(perms) ==
    UNION { IF p \in DOMAIN permExpansions THEN permExpansions[p] ELSE {p} : p \in perms }

Without(f, k) == Restrict(f, DOMAIN f \ {k})

Idle == [pc |-> "idle", seen |-> state, left |-> {}, ops |-> {}, bad |-> {},
         clean |-> FALSE]

-----------------------------------------------------------------------------
(* What a schema makes of a difference.                                    *)

\* corsRulesToAPI: an omitted list is no elements, an omitted max_age zero.
ToAPI(rules) == [i \in DOMAIN rules |->
    [headers |-> IF rules[i].headers = Null THEN <<>> ELSE rules[i].headers,
     age |-> IF rules[i].age = Null THEN 0 ELSE rules[i].age]]

\* corsRulesFromAPI: an empty optional list is written back as null.
FromAPI(rules) == [i \in DOMAIN rules |->
    [headers |-> IF rules[i].headers = <<>> THEN Null ELSE rules[i].headers,
     age |-> rules[i].age]]

\* An omitted computed attribute proposes what the state holds.
SameRules(declared, held) ==
    /\ Len(declared) = Len(held)
    /\ \A i \in DOMAIN declared :
        /\ declared[i].headers = held[i].headers
        /\ declared[i].age \in {Null, held[i].age}

\* The user id a managed grant or credential will carry; Null until known.
HolderId(st) == IF st["user"] = Null THEN Null ELSE st["user"].id

GrantHolder(st) ==
    IF want.grant.holder = "managed" THEN HolderId(st) ELSE want.grant.holder

\* Each schema: whether the difference replaces the resource (an attribute
\* with RequiresReplace) or updates it in place.
BucketSchema(st) == LET s == st["bucket"] IN
    [replace |-> s.name # want.bucket.name,
     update |-> s.limit # want.bucket.limit \/ ~SameRules(want.bucket.rules, s.rules)]

UserSchema(st) ==
    [replace |-> FALSE, update |-> st["user"].name # want.user.name]

CredentialSchema(st) == LET s == st["credential"] IN
    [replace |-> \/ s.user # HolderId(st)
                 \/ want.credential.key \notin {Null, s.key}
                 \/ want.credential.secret \notin {Null, s.secret},
     update |-> FALSE]


GrantSchema(st) == LET s == st["grant"] IN
    [replace |-> s.user # GrantHolder(st) \/ s.bucket # want.grant.bucket,
     update |-> s.perms # want.grant.perms]

Difference(st, r) ==
    CASE r = "bucket" -> BucketSchema(st)
      [] r = "user" -> UserSchema(st)
      [] r = "credential" -> CredentialSchema(st)
      [] r = "grant" -> GrantSchema(st)

\* The operations one run applies, from the refreshed state.
Plan(st) == UNION { LET w == want[r] IN
    CASE st[r] = Null -> IF w = Null THEN {} ELSE {<<"create", r>>}
      [] w = Null -> {<<"delete", r>>}
      [] Difference(st, r).replace -> {<<"delete", r>>, <<"create", r>>}
      [] Difference(st, r).update -> {<<"update", r>>}
      [] OTHER -> {} : r \in Resources }

\* A deletion waits for its dependents', anything else for what it names.
Before(o) ==
    IF o[1] = "delete" THEN { <<"delete", r>> : r \in { c \in Resources : o[2] \in Parents(c) } }
    ELSE {<<"delete", o[2]>>} \cup ({"create", "update"} \X Parents(o[2]))

-----------------------------------------------------------------------------
(* Read: the merged listing, the config file in front of the store.        *)

Source(r, s) ==
    IF \/ r = "bucket" /\ s.name \in file
       \/ r = "user" /\ s.id \in DOMAIN ConfigUsers
    THEN "config" ELSE "store"

\* client.Grant: nested under its user, of either source.
GrantOf(s) ==
    CASE s.user \in DOMAIN ConfigUsers ->
            IF ConfigUsers[s.user] = s.bucket THEN permExpansions["all"] ELSE Null
      [] <<s.user, s.bucket>> \in DOMAIN db.grants -> db.grants[<<s.user, s.bucket>>]
      [] OTHER -> Null

\* A single shorthand still stands for what is stored.
standsFor(held, stored) == \E p \in DOMAIN permExpansions :
    held = {p} /\ permExpansions[p] = stored

ReadBucket(s) ==
    IF s.name \notin DOMAIN db.buckets THEN Null
    ELSE [s EXCEPT !.limit = db.buckets[s.name].limit,
                   !.rules = FromAPI(db.buckets[s.name].rules)]

ReadUser(s) ==
    IF s.id \notin DOMAIN db.users THEN Null ELSE [s EXCEPT !.name = db.users[s.id]]

\* The secret is never part of the answer.
ReadCredential(s) ==
    IF s.key \notin DOMAIN db.credentials THEN Null
    ELSE [s EXCEPT !.user = db.credentials[s.key].user]

ReadGrant(s) ==
    LET stored == GrantOf(s) IN
    IF stored = Null THEN Null
    ELSE IF standsFor(s.perms, stored) THEN s ELSE [s EXCEPT !.perms = stored]

Read(r, s) ==
    CASE r = "bucket" -> ReadBucket(s)
      [] r = "user" -> ReadUser(s)
      [] r = "credential" -> ReadCredential(s)
      [] r = "grant" -> ReadGrant(s)

Start ==
    /\ run.pc = "idle"
    /\ run' = [Idle EXCEPT !.pc = "refresh", !.clean = TRUE,
                 !.left = { r \in Resources : state[r] # Null } \cup
                          (IF want.data = Null THEN {} ELSE {"data"})]
    /\ UNCHANGED <<db, file, want, state, changes, edits, losses, files>>

\* Read: an entry that is gone leaves the state; a failed call, or one the
\* file declares, ends the run and leaves the state as it was.
Refresh ==
    /\ run.pc = "refresh"
    /\ \E r \in run.left \ {"data"}, lost \in {FALSE, TRUE} :
        LET s == run.seen[r] IN
        /\ lost => losses < MaxLosses
        /\ losses' = IF lost THEN losses + 1 ELSE losses
        /\ run' = IF lost \/ Source(r, s) = "config" THEN Idle
                  ELSE [run EXCEPT !.left = @ \ {r}, !.seen[r] = Read(r, s)]
    /\ UNCHANGED <<db, file, want, state, changes, edits, files>>

\* bucketDataSource.Read: an absent bucket stops the run.
LookUp ==
    /\ run.pc = "refresh" /\ "data" \in run.left
    /\ run' = IF want.data \in file \cup DOMAIN db.buckets
              THEN [run EXCEPT !.left = @ \ {"data"}] ELSE Idle
    /\ UNCHANGED <<db, file, want, state, changes, edits, losses, files>>

PlanRun ==
    /\ run.pc = "refresh" /\ run.left = {}
    /\ state' = run.seen
    /\ run' = [run EXCEPT !.pc = "apply", !.ops = Plan(run.seen)]
    /\ UNCHANGED <<db, file, want, changes, edits, losses, files>>

-----------------------------------------------------------------------------
(* Apply.  Each operator below is the set of what one accepted call can     *)
(* leave: the rows, and what the resource records once it is answered.  The *)
(* server refuses the call where the set is empty.                          *)

\* bucketResource.write: the rules sent are written back over the plan.
Written(w) == [name |-> w.name, limit |-> w.limit, rules |-> FromAPI(ToAPI(w.rules))]

Carried(w) == [limit |-> w.limit, rules |-> ToAPI(w.rules)]

\* CreateBucket refuses a second row, not a name the file declares.
CreateBucket ==
    LET w == want.bucket IN
    { [rows |-> [db EXCEPT !.buckets = b :> Carried(w) @@ @], rec |-> Written(w)]
        : b \in {w.name} \ DOMAIN db.buckets }

\* UpdateBucket replaces what the bucket carries, empty rules included.
UpdateBucket ==
    LET w == want.bucket IN
    { [rows |-> [db EXCEPT !.buckets[b] = Carried(w)], rec |-> Written(w)]
        : b \in {w.name} \cap DOMAIN db.buckets }

\* DeleteBucket: a row some grant names stays, unless the file shadows it.
DeleteBucket ==
    LET named == { g[2] : g \in DOMAIN db.grants } \ file IN
    { [rows |-> [db EXCEPT !.buckets = Without(@, b)], rec |-> Null]
        : b \in {state["bucket"].name} \cap (DOMAIN db.buckets \ named) }

CreateUser ==
    { [rows |-> [db EXCEPT !.users = id :> want.user.name @@ @],
       rec |-> [id |-> id, name |-> want.user.name]] : id \in UserIds \ DOMAIN db.users }

\* Update renames in place and keeps the id.
RenameUser ==
    { [rows |-> [db EXCEPT !.users[id] = want.user.name],
       rec |-> [id |-> id, name |-> want.user.name]]
        : id \in {state["user"].id} \cap DOMAIN db.users }

\* DeleteUser is refused while the user holds a credential or a grant.
DeleteUser ==
    LET held == { db.credentials[k].user : k \in DOMAIN db.credentials }
                \cup { g[1] : g \in DOMAIN db.grants }
    IN  { [rows |-> [db EXCEPT !.users = Without(@, id)], rec |-> Null]
            : id \in {state["user"].id} \cap (DOMAIN db.users \ held) }

\* CreateCredential mints the keypair the configuration left out; a minted
\* secret is told apart by its key.
CreateCredential ==
    LET w == want.credential IN
    { LET row == [user |-> c[1], secret |-> IF w.secret = Null THEN c[2] ELSE w.secret] IN
      [rows |-> [db EXCEPT !.credentials = c[2] :> row @@ @],
       rec |-> [key |-> c[2], user |-> row.user, secret |-> row.secret]]
        : c \in ({HolderId(state)} \cap DOMAIN db.users) \X
                ((IF w.key = Null THEN MintKeys ELSE {w.key}) \ DOMAIN db.credentials) }

DeleteCredential ==
    { [rows |-> [db EXCEPT !.credentials = Without(@, k)], rec |-> Null]
        : k \in {state["credential"].key} \cap DOMAIN db.credentials }

\* grantResource.write: one upsert for Create and Update.
SetGrant ==
    LET w == want.grant IN
    { [rows |-> [db EXCEPT !.grants = g :> Expanded(w.perms) @@ @],
       rec |-> [user |-> g[1], bucket |-> g[2], perms |-> w.perms]]
        : g \in ({GrantHolder(state)} \cap DOMAIN db.users) \X
                ({w.bucket} \cap (file \cup DOMAIN db.buckets)) }

\* DeleteGrant: of a stored user, whether or not the row is there.
DeleteGrant ==
    LET s == state["grant"] IN
    { [rows |-> [db EXCEPT !.grants = Without(@, <<id, s.bucket>>)], rec |-> Null]
        : id \in {s.user} \cap DOMAIN db.users }

Call(o) ==
    CASE o = <<"create", "bucket">> -> CreateBucket
      [] o = <<"update", "bucket">> -> UpdateBucket
      [] o = <<"delete", "bucket">> -> DeleteBucket
      [] o = <<"create", "user">> -> CreateUser
      [] o = <<"update", "user">> -> RenameUser
      [] o = <<"delete", "user">> -> DeleteUser
      [] o = <<"create", "credential">> -> CreateCredential
      [] o = <<"delete", "credential">> -> DeleteCredential
      [] o \in {<<"create", "grant">>, <<"update", "grant">>} -> SetGrant
      [] o = <<"delete", "grant">> -> DeleteGrant

\* Operations whose predecessors in this plan are done.
Ready == { o \in run.ops \ run.bad : Before(o) \cap run.ops = {} }

Answered ==
    /\ run.pc = "apply"
    /\ \E o \in Ready : \E out \in Call(o) :
        /\ db' = out.rows
        /\ state' = [state EXCEPT ![o[2]] = out.rec]
        /\ run' = [run EXCEPT !.ops = @ \ {o}]
    /\ UNCHANGED <<file, want, changes, edits, losses, files>>

\* Client.Do: a refusal, or no answer; the request may have been carried out.
Unanswered ==
    /\ run.pc = "apply"
    /\ \E o \in Ready :
        /\ run' = [run EXCEPT !.bad = @ \cup {o}]
        /\ \/ Call(o) = {} /\ UNCHANGED <<db, losses>>
           \/ /\ losses < MaxLosses
              /\ losses' = losses + 1
              /\ db' \in {db} \cup { out.rows : out \in Call(o) }
    /\ UNCHANGED <<file, want, state, changes, edits, files>>

\* The run ends; clean: it reported no error and ran alone.
Finish ==
    /\ run.pc = "apply" /\ Ready = {}
    /\ run' = [Idle EXCEPT !.clean = run.clean /\ run.bad = {}]
    /\ UNCHANGED <<db, file, want, state, changes, edits, losses, files>>

-----------------------------------------------------------------------------
(* ImportState, the declaration's changes, and other operators.            *)

\* What ImportState can set before Read fills in the rest.
Importable(r) ==
    CASE r = "bucket" -> { [name |-> want.bucket.name, limit |-> 0, rules |-> <<>>] }
      [] r = "user" -> { [id |-> id, name |-> Null] : id \in DOMAIN db.users }
      [] r = "credential" ->
            { [key |-> k, user |-> Null, secret |-> Null] : k \in DOMAIN db.credentials }
      [] r = "grant" ->
            { [user |-> id, bucket |-> want.grant.bucket, perms |-> {}]
                : id \in DOMAIN db.users \cup DOMAIN ConfigUsers }

\* An operator adopts the row the declaration is about.
Meant(r, s) ==
    CASE r = "bucket" -> TRUE
      [] r = "user" -> db.users[s.id] = want.user.name
      [] r = "credential" -> want.credential.key \in {Null, s.key}
      [] r = "grant" -> s.user = GrantHolder(state)

ImportState ==
    /\ run.pc = "idle"
    /\ \E r \in Imports :
        /\ state[r] = Null /\ want[r] # Null
        /\ \E s \in Importable(r) :
            /\ Meant(r, s)
            /\ Source(r, s) = "store"
            /\ Read(r, s) # Null
            /\ state' = [state EXCEPT ![r] = Read(r, s)]
    /\ run' = [run EXCEPT !.seen = state', !.clean = FALSE]
    /\ UNCHANGED <<db, file, want, changes, edits, losses, files>>

Declare ==
    /\ run.pc = "idle" /\ changes < MaxChanges
    /\ want' \in Declarations \ {want}
    /\ changes' = changes + 1
    /\ run' = [run EXCEPT !.clean = FALSE]
    /\ UNCHANGED <<db, file, state, edits, losses, files>>

\* The same rows changed outside Terraform.
Edited ==
    LET on(e) == e \in Edits IN
    { [db EXCEPT !.buckets[b].limit = 7] : b \in { b \in DOMAIN db.buckets : on("limit") } }
    \cup { [db EXCEPT !.buckets[b].rules = <<>>] : b \in { b \in DOMAIN db.buckets : on("rules") } }
    \cup { [db EXCEPT !.users[u] = "other"] : u \in { u \in DOMAIN db.users : on("rename") } }
    \cup { [db EXCEPT !.credentials = Without(@, k)]
             : k \in { k \in DOMAIN db.credentials : on("revoke") } }
    \cup { [db EXCEPT !.grants[g] = {"read"}] : g \in { g \in DOMAIN db.grants : on("narrow") } }
    \cup { [db EXCEPT !.grants = Without(@, g)]
             : g \in { g \in DOMAIN db.grants : on("withdraw") } }
    \cup { [db EXCEPT !.users = Without(@, u),
                      !.credentials = Restrict(@, { k \in DOMAIN @ : @[k].user # u }),
                      !.grants = Restrict(@, { g \in DOMAIN @ : g[1] # u })]
             : u \in { u \in DOMAIN db.users : on("remove") } }

Edit ==
    /\ edits < MaxEdits
    /\ db' \in Edited \ {db}
    /\ edits' = edits + 1
    /\ run' = [run EXCEPT !.clean = FALSE]
    /\ UNCHANGED <<file, want, state, changes, losses, files>>

\* The configuration file is edited and reloaded.
Reload ==
    /\ files < MaxFiles
    /\ file' \in Files \ {file}
    /\ files' = files + 1
    /\ run' = [run EXCEPT !.clean = FALSE]
    /\ UNCHANGED <<db, want, state, changes, edits, losses>>

Init ==
    /\ db = First.db /\ file = First.file /\ want = First.want /\ state = First.state
    /\ run = Idle
    /\ changes = 0 /\ edits = 0 /\ losses = 0 /\ files = 0

RunStep == Start \/ Refresh \/ LookUp \/ PlanRun \/ Answered \/ Unanswered \/ Finish

Next == RunStep \/ ImportState \/ Declare \/ Edit \/ Reload

Spec == Init /\ [][Next]_vars

-----------------------------------------------------------------------------
(* Properties.                                                             *)

TypeOK ==
    /\ run.pc \in {"idle", "refresh", "apply"}
    /\ run.left \subseteq Resources \cup {"data"}
    /\ run.ops \subseteq {"create", "update", "delete"} \X Resources
    /\ run.bad \subseteq run.ops
    /\ \A r \in Resources : run.pc = "idle" => run.seen = state
    /\ \A g \in DOMAIN db.grants :
        g[1] \in DOMAIN db.users /\ db.grants[g] \subseteq permExpansions["all"]
    /\ \A k \in DOMAIN db.credentials : db.credentials[k].user \in DOMAIN db.users

\* The store holds what is declared, and nothing the state forgot to remove.
Declared ==
    /\ want.bucket # Null =>
        /\ want.bucket.name \in DOMAIN db.buckets
        /\ db.buckets[want.bucket.name].limit = want.bucket.limit
        /\ SameRules(want.bucket.rules, FromAPI(db.buckets[want.bucket.name].rules))
    /\ want.user # Null =>
        /\ HolderId(state) \in DOMAIN db.users
        /\ db.users[HolderId(state)] = want.user.name
    /\ want.credential # Null =>
        /\ state["credential"] # Null
        /\ LET k == state["credential"].key IN
            /\ k \in DOMAIN db.credentials
            /\ db.credentials[k].user = HolderId(state)
            /\ want.credential.key \in {Null, k}
    /\ want.grant # Null =>
        /\ <<GrantHolder(state), want.grant.bucket>> \in DOMAIN db.grants
        /\ db.grants[<<GrantHolder(state), want.grant.bucket>>] = Expanded(want.grant.perms)
    /\ \A r \in Resources : want[r] = Null <=> state[r] = Null

\* An apply that reported no error and ran alone leaves the store as declared:
\* every Create, Update and Delete it made did what its plan said.
SuccessMeansDeclared == run.pc = "idle" /\ run.clean => Declared

\* ... and the next plan is empty: what Read brings back compares equal to
\* the declaration (corsRulesFromAPI, standsFor, computed attributes).
NextPlanEmpty ==
    run.pc = "idle" /\ run.clean =>
        Plan([r \in Resources |-> IF state[r] = Null THEN Null ELSE Read(r, state[r])]) = {}

\* A change of permissions is an upsert: no step of a run takes away the row
\* of the grant that is declared (grantResource.Update, SetGrant).
GrantNeverLapses ==
  run.pc = "apply" /\ want.grant # Null =>
        LET g == <<GrantHolder(state), want.grant.bucket>> IN
        g \in DOMAIN db.grants /\ edits' = edits => g \in DOMAIN db'.grants

\* A run revokes a keypair only where the declaration asks for another one: a
\* rename, a failed read or a lost answer never costs a client its key, and
\* adopting a keypair does not recreate it.
RevokesOnlyReplaced ==
  run.pc = "apply" /\ edits' = edits =>
        \A k \in DOMAIN db.credentials \ DOMAIN db'.credentials :
            \/ want.credential = Null
            \/ want.credential.key \notin {Null, k}
            \/ want.credential.secret \notin {Null, db.credentials[k].secret}

\* Once changes stop and the file stands aside, repeated applies end with
\* everything declared and stay there.
Settles == <>[](want.bucket = Null \/ want.bucket.name \notin file) => <>[]Declared
=============================================================================
