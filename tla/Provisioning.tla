---------------------------- MODULE Provisioning ----------------------------
(***************************************************************************)
(* Buckets, users, credentials and grants: the four tables of the store,   *)
(* the operations that change them (ops/provisioning.go), the view merged  *)
(* from the store and the configuration file, and the registry every       *)
(* instance authenticates against.  Each operation reads the view, checks, *)
(* writes one row and rebuilds the registry; other instances rebuild when  *)
(* they hear the announcement, a reload when its file changed.             *)
(***************************************************************************)
EXTENDS Integers, Sequences, FiniteSets, Functions, TLC

CONSTANTS
    Instances,      \* orchestrator processes
    Operators,      \* concurrent provisioning requests
    UserIds,        \* ids CreateUser can mint
    Configs,        \* files: [buckets, creds: key -> bucket, root: set of keys]
    FirstConfig,    \* the file every instance starts on
    Requests,       \* operations operators may ask for
    FirstDb,        \* what the tables hold at the start
    Redis,          \* instances announce changes through Redis
    Overlap,        \* requests and reloads run at the same time
    Clients,        \* clients write objects
    MaxRequests, MaxReloads, MaxLosses, MaxFaults

VARIABLES
    db,         \* table -> rows
    objects,    \* buckets that hold an object
    live,       \* instance -> configuration in force
    declared,   \* instance -> the declared bucket set
    registry,   \* instance -> the credential registry
    proc,       \* request, reload and watcher goroutines
    inbox,      \* instance -> announcements not yet handled
    linked,     \* instance -> its subscription is up
    asked, reloads, losses, faults

vars == <<db, objects, live, declared, registry, proc, inbox, linked,
          asked, reloads, losses, faults>>

Tables == <<"buckets", "users", "credentials", "grants">>

ResourceWildcard == "*"

Bucket(b) == <<"bucket", b>>

Orchestrator == <<"orchestrator", "">>

PermAll == {"read", "write"}

PermAdminAll == {"admin"}

ValidOn(kind) == IF kind = "bucket" THEN PermAll ELSE PermAdminAll

\* PermissionSet.String: the shorthand of a full set, or the list of names.
Encoded(perms) ==
    CASE perms = PermAll -> {"all"}
      [] perms = PermAdminAll -> {"admin-all"}
      [] OTHER -> perms

\* GrantFromColumns: a row that records nothing predates permissions.
Decoded(kind, stored) ==
    LET perms == UNION { CASE p = "all" -> PermAll
                           [] p = "admin-all" -> PermAdminAll
                           [] OTHER -> {p} : p \in stored }
    IN  IF perms = {} /\ kind = "bucket" THEN PermAll ELSE perms

\* ConfigUserID and RootUserID, told apart from the ids the store mints.
ConfigUser(k) == <<"config", k>>

RootUser == <<"config", "root">>

-----------------------------------------------------------------------------
(* The merged view (provisioning/view.go).                                 *)

\* mergeBuckets: what either source declares; config wins a name.
DeclaredBy(cfg, snap) == cfg.buckets \cup DOMAIN snap.buckets

Shadowed(cfg, snap) == cfg.buckets \cap DOMAIN snap.buckets

MultipartLimits(cfg, snap) ==
    [b \in DOMAIN snap.buckets \ cfg.buckets |-> snap.buckets[b]]

GrantsOf(snap, u) == {g \in DOMAIN snap.grants : g[1] = u}

PermsOf(snap, g) == Decoded(g[2][1], snap.grants[g])

\* expandWildcardGrants
Wildcard(snap, u) ==
    UNION {PermsOf(snap, g) : g \in {h \in GrantsOf(snap, u) : h[2] = Bucket(ResourceWildcard)}}

\* applyNamedGrants: a named grant displaces the wildcard on its bucket; one
\* on a bucket nothing declares is skipped.
ReachOf(cfg, snap, u) ==
    LET known == DeclaredBy(cfg, snap)
        named == {b \in known : <<u, Bucket(b)>> \in DOMAIN snap.grants}
        spread == IF <<u, Bucket(ResourceWildcard)>> \in DOMAIN snap.grants THEN known ELSE {}
    IN  [b \in named \cup spread |->
            IF b \in named THEN PermsOf(snap, <<u, Bucket(b)>>) ELSE Wildcard(snap, u)]

\* adminGrantsByUser
AdminOf(snap, u) ==
    LET held == {g \in GrantsOf(snap, u) : g[2][1] # "bucket"}
    IN  [r \in {g[2] : g \in held} |-> PermsOf(snap, <<u, r>>)]

\* mergeStoredUsers, for the users.
StoredUsers(cfg, snap) ==
    [u \in DOMAIN snap.users |-> [reach |-> ReachOf(cfg, snap, u),
                                  all |-> Wildcard(snap, u),
                                  admin |-> AdminOf(snap, u)]]

\* mergeConfigUsers
ConfigUsers(cfg) ==
    [u \in {ConfigUser(k) : k \in DOMAIN cfg.creds} |->
        [reach |-> cfg.creds[u[2]] :> PermAll, all |-> {}, admin |-> <<>>]]

\* mergeRootUser
RootUsers(cfg, snap) ==
    [u \in {RootUser : k \in cfg.root} |->
        [reach |-> [b \in DeclaredBy(cfg, snap) |-> PermAll], all |-> PermAll,
         admin |-> Orchestrator :> PermAdminAll]]

ConfigCreds(cfg) ==
    [k \in DOMAIN cfg.creds |-> ConfigUser(k)] @@ [k \in cfg.root |-> RootUser]

\* mergeStoredUsers, for the credentials: the enabled ones of a known user.
StoredCreds(snap) ==
    LET proving == {k \in DOMAIN snap.credentials :
                        /\ ~snap.credentials[k].disabled
                        /\ snap.credentials[k].user \in DOMAIN snap.users}
    IN  [k \in proving |-> snap.credentials[k].user]

\* Credentials of the view, config's before the store's.
MergedCreds(cfg, snap) == ConfigCreds(cfg) @@ StoredCreds(snap)

\* NewBucketRegistry, addKeypair: config claims its keys first.
NewBucketRegistry(cfg, snap) ==
    [keys |-> ConfigCreds(cfg) @@ StoredCreds(snap),
     users |-> RootUsers(cfg, snap) @@ ConfigUsers(cfg) @@ StoredUsers(cfg, snap),
     limits |-> MultipartLimits(cfg, snap)]

\* User.Permissions, and AuthorizeBucket over it.
Held(reg, k, b) ==
    IF k \notin DOMAIN reg.keys THEN {}
    ELSE LET u == reg.users[reg.keys[k]]
         IN  IF b \in DOMAIN u.reach THEN u.reach[b] ELSE u.all

-----------------------------------------------------------------------------
(* The store's statements: a primary key, unique names, and the foreign    *)
(* keys from credentials and grants to users.                              *)

Without(f, k) == Restrict(f, DOMAIN f \ {k})

\* The writes and the table each is made on.
TableOf(op) ==
    CASE op.kind \in {"CreateBucket", "UpdateBucket", "DeleteBucket"} -> "buckets"
      [] op.kind \in {"CreateUser", "RenameUser", "DeleteUser"} -> "users"
      [] op.kind \in {"CreateCredential", "DeleteCredential"} -> "credentials"
      [] OTHER -> "grants"

KeyOf(op) ==
    CASE TableOf(op) = "buckets" -> op.name
      [] TableOf(op) = "users" -> op.user
      [] TableOf(op) = "credentials" -> op.key
      [] OTHER -> <<op.user, op.res>>

RowOf(op) ==
    CASE TableOf(op) = "buckets" -> op.limit
      [] TableOf(op) = "users" -> op.name
      [] TableOf(op) = "credentials" -> [user |-> op.user, disabled |-> FALSE]
      [] OTHER -> Encoded(op.perms)

\* Rows that reference a user.
References(d, u) ==
    \/ \E k \in DOMAIN d.credentials : d.credentials[k].user = u
    \/ GrantsOf(d, u) # {}

\* The constraint a write breaks, which the engine reports as an error.
Refused(d, op) ==
    LET rows == d[TableOf(op)]
        key == KeyOf(op)
        creates == op.kind \in {"CreateBucket", "CreateUser", "CreateCredential", "CreateGrant"}
    IN  \/ creates /\ key \in DOMAIN rows
        \/ /\ op.kind \in {"CreateUser", "RenameUser"}
           /\ \E u \in DOMAIN rows : u # key /\ rows[u] = op.name
        \/ /\ op.kind \in {"CreateCredential", "CreateGrant", "SetGrant"}
           /\ op.user \notin DOMAIN d.users
        \/ op.kind = "DeleteUser" /\ References(d, key)

\* The tables after a write the constraints allow.  An update or a delete of
\* a row that is not there changes nothing and is no error.
Written(d, op) ==
    LET t == TableOf(op)
        key == KeyOf(op)
        rows == d[t]
    IN  [d EXCEPT ![t] =
            CASE op.kind \in {"DeleteBucket", "DeleteUser", "DeleteCredential", "DeleteGrant"} ->
                    Without(rows, key)
              [] op.kind \in {"UpdateBucket", "RenameUser"} ->
                    [k \in DOMAIN rows |-> IF k = key THEN RowOf(op) ELSE rows[k]]
              [] OTHER -> (key :> RowOf(op)) @@ rows]

-----------------------------------------------------------------------------
(* The checks each operation makes against its view.                       *)

\* hasStoredBucket
HasStoredBucket(snap, b) == b \in DOMAIN snap.buckets

\* requireStoredBucket
RequireStoredBucket(cfg, snap, b) ==
    CASE HasStoredBucket(snap, b) -> "ok"
      [] b \in cfg.buckets -> "config_declared"
      [] OTHER -> "not_found"

\* storedUser
StoredUser(cfg, snap, u) ==
    CASE u \in DOMAIN snap.users -> "ok"
      [] u \in DOMAIN ConfigUsers(cfg) \cup DOMAIN RootUsers(cfg, snap) -> "config_declared"
      [] OTHER -> "not_found"

\* checkResource, and the permission rules of checkGrant after it.
CheckGrant(cfg, snap, op) ==
    CASE StoredUser(cfg, snap, op.user) # "ok" -> StoredUser(cfg, snap, op.user)
      [] /\ op.res[1] = "bucket"
         /\ op.res[2] \notin DeclaredBy(cfg, snap) \cup {ResourceWildcard} -> "not_found"
      [] op.perms = {} -> "no_permissions"
      [] ~(op.perms \subseteq ValidOn(op.res[1])) -> "invalid"
      [] OTHER -> "ok"

\* DeleteUser counts merged bucket reach and merged credentials.
CheckDeleteUser(cfg, snap, u) ==
    CASE StoredUser(cfg, snap, u) # "ok" -> StoredUser(cfg, snap, u)
      [] DOMAIN ReachOf(cfg, snap, u) # {} -> "in_use"
      [] \E k \in DOMAIN StoredCreds(snap) : StoredCreds(snap)[k] = u -> "in_use"
      [] OTHER -> "ok"

\* DeleteCredential finds config's entry before a stored one it shadows.
CheckDeleteCredential(cfg, snap, k) ==
    CASE k \notin DOMAIN MergedCreds(cfg, snap) -> "not_found"
      [] k \in DOMAIN ConfigCreds(cfg) -> "config_declared"
      [] OTHER -> "ok"

CheckCreateCredential(cfg, snap, op) ==
    CASE StoredUser(cfg, snap, op.user) # "ok" -> StoredUser(cfg, snap, op.user)
      [] op.key \in DOMAIN MergedCreds(cfg, snap) -> "exists"
      [] OTHER -> "ok"

Check(cfg, snap, op) ==
    CASE op.kind = "CreateBucket" -> IF HasStoredBucket(snap, op.name) THEN "exists" ELSE "ok"
      [] op.kind \in {"UpdateBucket", "DeleteBucket"} -> RequireStoredBucket(cfg, snap, op.name)
      [] op.kind \in {"RenameUser", "DeleteGrant"} -> StoredUser(cfg, snap, op.user)
      [] op.kind = "DeleteUser" -> CheckDeleteUser(cfg, snap, op.user)
      [] op.kind = "CreateCredential" -> CheckCreateCredential(cfg, snap, op)
      [] op.kind = "DeleteCredential" -> CheckDeleteCredential(cfg, snap, op.key)
      [] op.kind \in {"CreateGrant", "SetGrant"} -> CheckGrant(cfg, snap, op)
      [] OTHER -> "ok"
-----------------------------------------------------------------------------
(* Requests, reloads and the watchers of announcements.                    *)

Watcher(i) == <<"watch", i>>

Reloader(i) == <<"reload", i>>

Procs == Operators \cup {Watcher(i) : i \in Instances} \cup {Reloader(i) : i \in Instances}

NoOp == [kind |-> "none"]

At(p) == IF p \in Operators THEN proc[p].at ELSE p[2]

Busy == {p \in Procs : proc[p].pc # "idle"}

\* Requests and reloads overlap, or each waits for the one before.
MayStart == Overlap \/ Busy \subseteq {Watcher(i) : i \in Instances}

Full(snap) == DOMAIN snap = Range(Tables)

Init ==
    /\ db = FirstDb
    /\ objects = {}
    /\ live = [i \in Instances |-> FirstConfig]
    /\ declared = [i \in Instances |-> DeclaredBy(FirstConfig, FirstDb)]
    /\ registry = [i \in Instances |-> NewBucketRegistry(FirstConfig, FirstDb)]
    /\ proc = [p \in Procs |-> [pc |-> "idle", op |-> NoOp, out |-> "none", cfg |-> FirstConfig,
                                snap |-> <<>>, at |-> CHOOSE i \in Instances : TRUE]]
    /\ inbox = [i \in Instances |-> 0]
    /\ linked = [i \in Instances |-> Redis]
    /\ asked = 0 /\ reloads = 0 /\ losses = 0 /\ faults = 0

\* The answer to a request, or the end of a rebuild.
Return(p, out) ==
    proc' = [proc EXCEPT ![p].pc = "idle", ![p].out = out, ![p].cfg = FirstConfig, ![p].snap = <<>>]

\* A load starts from the configuration in force.
BeginLoad(p, pc) ==
    proc' = [proc EXCEPT ![p].pc = pc, ![p].cfg = live[At(p)], ![p].snap = <<>>]

\* CreateGrant: no permissions means every one valid on the kind.
Defaulted(op) ==
    IF op.kind = "CreateGrant" /\ op.perms = {} THEN [op EXCEPT !.perms = ValidOn(op.res[1])] ELSE op

\* A request arrives; CreateUser reads no view.
StartRequest(p, i, op) ==
    /\ proc[p].pc = "idle" /\ MayStart /\ asked < MaxRequests
    /\ op.kind = "CreateUser" => op.user \notin DOMAIN db.users
    /\ asked' = asked + 1
    /\ proc' = [proc EXCEPT ![p] = [pc |-> IF op.kind = "CreateUser" THEN "write" ELSE "view",
                                   op |-> Defaulted(op), out |-> "none", cfg |-> live[i],
                                   snap |-> <<>>, at |-> i]]
    /\ UNCHANGED <<db, objects, live, declared, registry, inbox, linked, reloads, losses, faults>>

\* Load: one listing after another.
ReadTable(p) ==
    /\ proc[p].pc \in {"view", "build", "check"} /\ ~Full(proc[p].snap)
    /\ LET t == Tables[Cardinality(DOMAIN proc[p].snap) + 1]
       IN  proc' = [proc EXCEPT ![p].snap = @ @@ (t :> db[t])]
    /\ UNCHANGED <<db, objects, live, declared, registry, inbox, linked, asked, reloads, losses, faults>>

\* A listing fails: the view's error is the answer, a rebuild's is reported
\* beside a row already written, a watcher's only logged.
LoadFails(p) ==
    /\ proc[p].pc \in {"view", "build", "check"} /\ ~Full(proc[p].snap) /\ faults < MaxFaults
    /\ faults' = faults + 1
    /\ Return(p, IF proc[p].pc = "build" THEN "not_rebuilt" ELSE "error")
    /\ UNCHANGED <<db, objects, live, declared, registry, inbox, linked, asked, reloads, losses>>

\* The checks against the view; DeleteBucket of a bucket that is not shadowed
\* goes on to look for what uses it.
CheckView(p) ==
    /\ proc[p].pc = "view" /\ Full(proc[p].snap)
    /\ LET op == proc[p].op
           answer == Check(proc[p].cfg, proc[p].snap, op)
           looks == op.kind = "DeleteBucket" /\ op.name \notin Shadowed(proc[p].cfg, proc[p].snap)
       IN  IF answer = "ok" THEN proc' = [proc EXCEPT ![p].pc = IF looks THEN "count" ELSE "write"]
           ELSE Return(p, answer)
    /\ UNCHANGED <<db, objects, live, declared, registry, inbox, linked, asked, reloads, losses, faults>>

\* refuseIfBucketInUse: the objects, then the grant rows.
CountObjects(p) ==
    /\ proc[p].pc = "count"
    /\ IF proc[p].op.name \in objects THEN Return(p, "not_empty")
       ELSE proc' = [proc EXCEPT ![p].pc = "grants"]
    /\ UNCHANGED <<db, objects, live, declared, registry, inbox, linked, asked, reloads, losses, faults>>


FindGrant(p) ==
    /\ proc[p].pc = "grants"
    /\ IF \E g \in DOMAIN db.grants : g[2] = Bucket(proc[p].op.name) THEN Return(p, "granted")
       ELSE proc' = [proc EXCEPT ![p].pc = "write"]
    /\ UNCHANGED <<db, objects, live, declared, registry, inbox, linked, asked, reloads, losses, faults>>

\* The one statement, then the rebuild.
Write(p) ==
    /\ proc[p].pc = "write"
    /\ IF Refused(db, proc[p].op) THEN Return(p, "constraint") /\ UNCHANGED db
       ELSE db' = Written(db, proc[p].op) /\ BeginLoad(p, "build")
    /\ UNCHANGED <<objects, live, declared, registry, inbox, linked, asked, reloads, losses, faults>>

\* Install: the declared set first, the registry last.
InstallDeclared(p) ==
    /\ proc[p].pc = "build" /\ Full(proc[p].snap)
    /\ declared' = [declared EXCEPT ![At(p)] = DeclaredBy(proc[p].cfg, proc[p].snap)]
    /\ proc' = [proc EXCEPT ![p].pc = "publish"]
    /\ UNCHANGED <<db, objects, live, registry, inbox, linked, asked, reloads, losses, faults>>

InstallRegistry(p) ==
    /\ proc[p].pc = "publish"
    /\ registry' = [registry EXCEPT ![At(p)] = NewBucketRegistry(proc[p].cfg, proc[p].snap)]
    /\ IF p \in Operators /\ Redis THEN proc' = [proc EXCEPT ![p].pc = "announce"]
       ELSE Return(p, "ok")
    /\ UNCHANGED <<db, objects, live, declared, inbox, linked, asked, reloads, losses, faults>>

\* Every subscribed instance hears it, the announcing one included.
Announce(p) ==
    /\ proc[p].pc = "announce"
    /\ inbox' = [i \in Instances |-> IF linked[i] THEN inbox[i] + 1 ELSE inbox[i]]
    /\ Return(p, "ok")
    /\ UNCHANGED <<db, objects, live, declared, registry, linked, asked, reloads, losses, faults>>

\* A failed announcement is only logged.
AnnounceFails(p) ==
    /\ proc[p].pc = "announce" /\ faults < MaxFaults
    /\ faults' = faults + 1
    /\ Return(p, "ok")
    /\ UNCHANGED <<db, objects, live, declared, registry, inbox, linked, asked, reloads, losses>>

\* The watcher handles its messages one at a time.
WatchMessage(i) ==
    /\ linked[i] /\ inbox[i] > 0 /\ proc[Watcher(i)].pc = "idle"
    /\ inbox' = [inbox EXCEPT ![i] = @ - 1]
    /\ BeginLoad(Watcher(i), "build")
    /\ UNCHANGED <<db, objects, live, declared, registry, linked, asked, reloads, losses, faults>>

\* A lost subscription loses what was published meanwhile.
LoseSubscription(i) ==
    /\ linked[i] /\ losses < MaxLosses
    /\ losses' = losses + 1
    /\ linked' = [linked EXCEPT ![i] = FALSE]
    /\ inbox' = [inbox EXCEPT ![i] = 0]
    /\ UNCHANGED <<db, objects, live, declared, registry, proc, asked, reloads, faults>>

\* WatchShared reports every new subscription, and the watcher rebuilds.
Resubscribe(i) ==
    /\ Redis /\ ~linked[i] /\ proc[Watcher(i)].pc = "idle"
    /\ linked' = [linked EXCEPT ![i] = TRUE]
    /\ BeginLoad(Watcher(i), "build")
    /\ UNCHANGED <<db, objects, live, declared, registry, inbox, asked, reloads, losses, faults>>

\* Reload: the provisioning hook's Check loads the replacement.
StartReload(i, cfg) ==
    /\ proc[Reloader(i)].pc = "idle" /\ MayStart /\ reloads < MaxReloads /\ cfg # live[i]
    /\ reloads' = reloads + 1
    /\ proc' = [proc EXCEPT ![Reloader(i)].pc = "check", ![Reloader(i)].cfg = cfg]
    /\ UNCHANGED <<db, objects, live, declared, registry, inbox, linked, asked, losses, faults>>

\* Every Check passed: the configuration is stored, then the hook applied.
SwapConfig(i) ==
    /\ proc[Reloader(i)].pc = "check" /\ Full(proc[Reloader(i)].snap)
    /\ live' = [live EXCEPT ![i] = proc[Reloader(i)].cfg]
    /\ proc' = [proc EXCEPT ![Reloader(i)].pc = "build", ![Reloader(i)].snap = <<>>]
    /\ UNCHANGED <<db, objects, declared, registry, inbox, linked, asked, reloads, losses, faults>>

\* A client stores an object in a bucket its grant lets it write.
PutObject(i, k, b) ==
    /\ Clients /\ b \in declared[i] /\ "write" \in Held(registry[i], k, b)
    /\ objects' = objects \cup {b}
    /\ UNCHANGED <<db, live, declared, registry, proc, inbox, linked, asked, reloads, losses, faults>>

Step(p) ==
    \/ ReadTable(p)
    \/ CheckView(p)
    \/ CountObjects(p)
    \/ FindGrant(p)
    \/ Write(p)
    \/ InstallDeclared(p)
    \/ InstallRegistry(p)
    \/ Announce(p)

Next ==
    \/ \E p \in Operators, i \in Instances, op \in Requests : StartRequest(p, i, op)
    \/ \E p \in Procs : Step(p) \/ LoadFails(p) \/ AnnounceFails(p)
    \/ \E i \in Instances : WatchMessage(i) \/ LoseSubscription(i) \/ Resubscribe(i) \/ SwapConfig(i)
    \/ \E i \in Instances, cfg \in Configs : StartReload(i, cfg)
    \/ \E i \in Instances : \E k \in DOMAIN registry[i].keys, b \in declared[i] : PutObject(i, k, b)

Spec == Init /\ [][Next]_vars

-----------------------------------------------------------------------------
(* Properties.                                                             *)

\* The tables keep their keys, the registry resolves every key to one of its
\* users, and no request is beyond the bounds.
TypeOK ==
    /\ DOMAIN db = Range(Tables)
    /\ DOMAIN db.users \subseteq UserIds
    /\ \A k \in DOMAIN db.credentials : db.credentials[k].user \in DOMAIN db.users
    /\ \A g \in DOMAIN db.grants : g[1] \in DOMAIN db.users
    /\ \A i \in Instances : /\ live[i] \in Configs
                             /\ Range(registry[i].keys) \subseteq DOMAIN registry[i].users
    /\ \A p \in Procs : DOMAIN proc[p].snap \subseteq Range(Tables)

\* What a key is entitled to on a bucket, read straight off the rows and the
\* configuration: config decides for its own keys; a stored key's named grant
\* on a declared bucket answers alone, else its wildcard.
Entitled(cfg, d, k, b) ==
    IF k \in cfg.root THEN PermAll
    ELSE IF k \in DOMAIN cfg.creds THEN IF cfg.creds[k] = b THEN PermAll ELSE {}
    ELSE IF k \notin DOMAIN d.credentials \/ d.credentials[k].disabled THEN {}
    ELSE LET u == d.credentials[k].user
             named == <<u, Bucket(b)>>
             wild == <<u, Bucket(ResourceWildcard)>>
         IN  IF named \in DOMAIN d.grants /\ b \in DeclaredBy(cfg, d) THEN Decoded("bucket", d.grants[named])
             ELSE IF wild \in DOMAIN d.grants THEN Decoded("bucket", d.grants[wild]) ELSE {}

Fresh(i) ==
    /\ declared[i] = DeclaredBy(live[i], db)
    /\ registry[i] = NewBucketRegistry(live[i], db)

AllKeys == DOMAIN db.credentials \cup UNION {DOMAIN c.creds \cup c.root : c \in Configs}
           \cup UNION {DOMAIN registry[i].keys : i \in Instances}

AllBuckets == DOMAIN db.buckets \cup UNION {c.buckets : c \in Configs}
              \cup UNION {declared[i] : i \in Instances}

\* What instance i allows is what the rows and the configuration entitle to.
InForce(i) ==
    /\ declared[i] = DeclaredBy(live[i], db)
    /\ \A k \in AllKeys, b \in AllBuckets : Held(registry[i], k, b) = Entitled(live[i], db, k, b)

\* A request or reload answered "ok" is in force on its instance: every key is
\* allowed there exactly what the rows and the configuration entitle it to
\* (republish: "a caller told the write succeeded would go on to use a
\* credential that authenticates nothing").  Requests here take turns.
OkMeansLive ==
  \A p \in Procs : (proc[p].pc # "idle" /\ proc'[p].pc = "idle" /\ proc'[p].out = "ok") =>
          InForce(At(p))'

\* A named bucket grant always names a bucket that is declared, which is why
\* DeleteBucket refuses a bucket that grants name.
GrantsNameDeclared ==
    \A g \in DOMAIN db.grants :
        (g[2][1] = "bucket" /\ g[2][2] # ResourceWildcard) =>
            \E i \in Instances : g[2][2] \in DeclaredBy(live[i], db)

=============================================================================
