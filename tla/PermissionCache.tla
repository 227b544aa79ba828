--------------------------- MODULE PermissionCache ---------------------------
(***************************************************************************)
(* What a role may do: its rows of role_permissions, the set of permission *)
(* names that rbac.middleware finds in Redis, and the requests that change  *)
(* the one and have to clear the other.  One role; a bulk assignment is a   *)
(* sequence of single ones.                                                 *)
(***************************************************************************)
EXTENDS Naturals, FiniteSets

CONSTANTS
  Permissions,
  Requests,   \* requests in flight at a time
  Kinds,      \* the kinds of request that clients send
  MaxFaults   \* bound: requests cut off by an error of Redis, PostgreSQL or Node

AllKinds == {"read", "assign", "revoke", "sync", "delete_role", "delete_permission"}

ASSUME CacheAssumption ==
  /\ Kinds \subseteq AllKinds
  /\ MaxFaults \in Nat

VARIABLES
  row,    \* role_permissions: the row of the role for each permission
  perm,   \* permissions: those without deleted_at
  role,   \* roles: whether the role has no deleted_at
  cache,  \* role_permissions:<role> in Redis
  req,    \* what each request does next, and what it has read
  faults, \* counts what MaxFaults bounds
  late    \* history: the cached set was out of date when it was stored

vars == <<row, perm, role, cache, req, faults, late>>

-----------------------------------------------------------------------------
Request ==
  [pc: {"idle", "read", "fill", "find", "insert", "restore", "revoke",
        "sync", "update", "upsert", "del"},
   set: SUBSET Permissions,   \* named by the client, or read by the engine
   mine: SUBSET Permissions]  \* rows the transaction of a sync has to delete

\* The value of the Redis key.
Cache == [hit: BOOLEAN, set: SUBSET Permissions]
Miss == [hit |-> FALSE, set |-> {}]

NoRequest == [pc |-> "idle", set |-> {}, mine |-> {}]

LiveRows == {p \in Permissions : row[p] = "live"}

\* roleRepository.getPermissionNames; whether the role is deleted is not asked.
Granted == LiveRows \cap perm

\* Another transaction has updated this row and not committed.
Locked(r, p) == \E q \in Requests \ {r} : req[q].pc = "upsert" /\ p \in req[q].mine

Init ==
  /\ row \in [Permissions -> {"none", "live", "deleted"}]
  /\ perm = Permissions
  /\ role = TRUE
  /\ cache = Miss
  /\ req = [r \in Requests |-> NoRequest]
  /\ faults = 0
  /\ late = FALSE

Become(r, pc, set, mine) ==
  req' = [req EXCEPT ![r] = [pc |-> pc, set |-> set, mine |-> mine]]

Begin(r, kind, pc, set) ==
  /\ kind \in Kinds
  /\ req[r].pc = "idle"
  /\ Become(r, pc, set, {})

End(r) == req' = [req EXCEPT ![r] = NoRequest]

\* What was changed, the cache has to forget.
Clear(r) == Become(r, "del", {}, {})

-----------------------------------------------------------------------------
(* permissionEngine.resolvePermissions, called for every guarded route      *)

\* A hit changes nothing.
ReadMiss(r) ==
  /\ ~ cache.hit
  /\ Begin(r, "read", "read", {})
  /\ UNCHANGED <<row, perm, role, cache, faults, late>>

ReadRows(r) ==
  /\ req[r].pc = "read"
  /\ Become(r, "fill", Granted, {})
  /\ UNCHANGED <<row, perm, role, cache, faults, late>>

Fill(r) ==
  /\ req[r].pc = "fill"
  /\ cache' = [hit |-> TRUE, set |-> req[r].set]
  /\ late' = (req[r].set # Granted)
  /\ End(r)
  /\ UNCHANGED <<row, perm, role, faults>>

\* Mutated Expire: the key is set without a TTL.
ExpireNever ==
  /\ FALSE
  /\ UNCHANGED vars

\* The TTL of an hour is over.
Expire ==
  /\ cache.hit
  /\ cache' = Miss
  /\ late' = FALSE
  /\ UNCHANGED <<row, perm, role, req, faults>>

-----------------------------------------------------------------------------
(* rolePermissionService.assign and revoke                                  *)

\* Role and permission exist, and no live row.
AssignCheck(r, p) ==
  /\ role
  /\ p \in perm
  /\ row[p] # "live"
  /\ Begin(r, "assign", "find", {p})
  /\ UNCHANGED <<row, perm, role, cache, faults, late>>

\* findAny: a row, deleted or not, will be restored.
AssignFind(r) ==
  /\ req[r].pc = "find"
  /\ Become(r, IF \E p \in req[r].set : row[p] = "none" THEN "insert" ELSE "restore",
            req[r].set, {})
  /\ UNCHANGED <<row, perm, role, cache, faults, late>>

\* The INSERT; UNIQUE (role_id, permission_id) refuses a second row, and the
\* request ends without clearing the cache.
AssignInsert(r) ==
  \E p \in req[r].set :
    /\ req[r].pc = "insert"
    /\ ~ Locked(r, p)
    /\ IF row[p] = "none"
       THEN row' = [row EXCEPT ![p] = "live"] /\ Clear(r)
       ELSE UNCHANGED row /\ End(r)
    /\ UNCHANGED <<perm, role, cache, faults, late>>

AssignRestore(r) ==
  \E p \in req[r].set :
    /\ req[r].pc = "restore"
    /\ ~ Locked(r, p)
    /\ row' = [row EXCEPT ![p] = "live"]
    /\ Clear(r)
    /\ UNCHANGED <<perm, role, cache, faults, late>>

RevokeCheck(r, p) ==
  /\ role
  /\ Begin(r, "revoke", "revoke", {p})
  /\ UNCHANGED <<row, perm, role, cache, faults, late>>

\* Mutated Revoke: deletes the row for good.
RevokeHard(r) ==
  \E p \in req[r].set :
    /\ req[r].pc = "revoke"
    /\ ~ Locked(r, p)
    /\ IF row[p] = "live"
       THEN row' = [row EXCEPT ![p] = "none"] /\ Clear(r)
       ELSE UNCHANGED row /\ End(r)
    /\ UNCHANGED <<perm, role, cache, faults, late>>

\* Mutated Revoke: the cache is not cleared.
RevokeUncleared(r) ==
  \E p \in req[r].set :
    /\ req[r].pc = "revoke"
    /\ ~ Locked(r, p)
    /\ row' = IF row[p] = "live" THEN [row EXCEPT ![p] = "deleted"] ELSE row
    /\ End(r)
    /\ UNCHANGED <<perm, role, cache, faults, late>>

\* softDelete of a live row; 404 when there is none.
Revoke(r) ==
  \E p \in req[r].set :
    /\ req[r].pc = "revoke"
    /\ ~ Locked(r, p)
    /\ IF row[p] = "live"
       THEN row' = [row EXCEPT ![p] = "deleted"] /\ Clear(r)
       ELSE UNCHANGED row /\ End(r)
    /\ UNCHANGED <<perm, role, cache, faults, late>>

-----------------------------------------------------------------------------
(* roleService.syncPermissions: a transaction of two statements             *)

SyncCheck(r, set) ==
  /\ role
  /\ set \subseteq perm
  /\ Begin(r, "sync", "sync", set)
  /\ UNCHANGED <<row, perm, role, cache, faults, late>>

\* The UPDATE starts: its snapshot has the live rows.
SyncSnapshot(r) ==
  /\ req[r].pc = "sync"
  /\ Become(r, "update", req[r].set, LiveRows)
  /\ UNCHANGED <<row, perm, role, cache, faults, late>>

\* Mutated SyncUpdate: rows that changed while it waited are deleted unseen.
SyncUpdateUnlocked(r) ==
  /\ req[r].pc = "update"
  /\ Become(r, "upsert", req[r].set, req[r].mine)
  /\ UNCHANGED <<row, perm, role, cache, faults, late>>

\* It has waited for the rows others were writing, looks at them again (READ
\* COMMITTED) and locks those it deletes.
SyncUpdate(r) ==
  /\ req[r].pc = "update"
  /\ \A p \in req[r].mine : ~ Locked(r, p)
  /\ Become(r, "upsert", req[r].set, req[r].mine \cap LiveRows)
  /\ UNCHANGED <<row, perm, role, cache, faults, late>>

\* The upsert of the given permissions and COMMIT.
SyncCommit(r) ==
  /\ req[r].pc = "upsert"
  /\ \A p \in req[r].set : ~ Locked(r, p)
  /\ row' = [p \in Permissions |->
               CASE p \in req[r].set -> "live"
                 [] p \in req[r].mine \ req[r].set -> "deleted"
                 [] OTHER -> row[p]]
  /\ Clear(r)
  /\ UNCHANGED <<perm, role, cache, faults, late>>

\* permissionEngine.invalidate, the last step of every change.
Invalidate(r) ==
  /\ req[r].pc = "del"
  /\ cache' = Miss
  /\ late' = FALSE
  /\ End(r)
  /\ UNCHANGED <<row, perm, role, faults>>

-----------------------------------------------------------------------------
\* roleService.delete
DeleteRole(r) ==
  /\ role
  /\ Begin(r, "delete_role", "del", {})
  /\ role' = FALSE
  /\ UNCHANGED <<row, perm, cache, faults, late>>

\* permissionService.delete: rows and cache stay.
DeletePermission(p) ==
  /\ "delete_permission" \in Kinds
  /\ p \in perm
  /\ perm' = perm \ {p}
  /\ UNCHANGED <<row, role, cache, req, faults, late>>

\* A statement fails, or the process dies: a transaction leaves nothing behind,
\* and a request that still had to clear the cache does not.
Fault(r) ==
  /\ req[r].pc # "idle"
  /\ faults < MaxFaults
  /\ faults' = faults + 1
  /\ End(r)
  /\ UNCHANGED <<row, perm, role, cache, late>>

-----------------------------------------------------------------------------
Handle(r) ==
  \/ ReadRows(r) \/ Fill(r)
  \/ AssignFind(r) \/ AssignInsert(r) \/ AssignRestore(r)
  \/ Revoke(r)
  \/ SyncSnapshot(r) \/ SyncUpdate(r) \/ SyncCommit(r)
  \/ Invalidate(r)

Call(r) ==
  \/ ReadMiss(r)
  \/ \E p \in Permissions : AssignCheck(r, p) \/ RevokeCheck(r, p)
  \/ \E set \in SUBSET Permissions : SyncCheck(r, set)
  \/ DeleteRole(r)

Next ==
  \/ \E r \in Requests : Call(r) \/ Handle(r) \/ Fault(r)
  \/ \E p \in Permissions : DeletePermission(p)
  \/ Expire

Spec == Init /\ [][Next]_vars

\* Redis expires keys, and Node runs a handler to its end.
FairSpec == Spec /\ WF_vars(Expire) /\ \A r \in Requests : WF_vars(Handle(r))

-----------------------------------------------------------------------------
(* Properties                                                              *)

\* Type invariant; and the row that a request is about to restore has not
\* vanished since it was found (role-permission.service.ts:54).
TypeOK ==
  /\ row \in [Permissions -> {"none", "live", "deleted"}]
  /\ perm \in SUBSET Permissions
  /\ role \in BOOLEAN
  /\ cache \in Cache
  /\ req \in [Requests -> Request]
  /\ faults \in Nat
  /\ late \in BOOLEAN
  /\ \A r \in Requests :
       req[r].pc = "restore" => \A p \in req[r].set : row[p] # "none"

\* A cached set that was right when it was stored, and no longer is, is about to
\* be cleared: every way to change the rows of the role has its invalidation
\* still to come, also when two requests change them at once and one of them
\* fails on the UNIQUE constraint.  Deleted permissions aside, a set is
\* out of date for longer only when it was so from the start, stored by a request
\* that had read the rows before the change, or after a fault
\* (role.service.ts:57, role-permission.service.ts:52).
StaleIsCleared ==
  cache.hit /\ ~late /\ faults = 0 =>
    cache.set \cap perm = Granted \/ \E r \in Requests : req[r].pc = "del"

\* Two transactions never delete the same row, and a row one of them is deleting
\* is live until it commits, whatever else is assigned, revoked and synced.
SyncsKeepApart ==
  \A r \in Requests : req[r].pc = "upsert" =>
    /\ \A p \in req[r].mine : ~ Locked(r, p)
    /\ req[r].mine \subseteq LiveRows

\* A permission the role has lost stops being granted in the end, even when its
\* invalidation was cut off or a late reader stored the old set again: no key is
\* stored without a TTL (permission.engine.ts:17).
RevokedInTheEnd ==
  \A p \in Permissions :
    (cache.hit /\ p \in cache.set /\ p \notin Granted)
      ~> (~cache.hit \/ p \notin cache.set \/ p \in Granted)

-----------------------------------------------------------------------------
(* What the documentation of the code says and the code does not keep       *)

\* role.routes.ts:161: "Fully sync a role's permissions (replace)": when no
\* assignment interferes, a role has the permissions of a sync that commits.
SyncReplaces ==
  [][\A r \in Requests :
       req[r].pc = "upsert" /\ req'[r].pc = "del" => LiveRows' = req[r].set]_vars

\* Once every request is done the cache has what the rows say.
FreshWhenQuiet ==
  cache.hit /\ \A r \in Requests : req[r].pc = "idle" => cache.set = Granted
=============================================================================
