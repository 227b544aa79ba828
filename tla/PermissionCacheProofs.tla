------------------------ MODULE PermissionCacheProofs ------------------------
(* Proofs about PermissionCache, for any permissions, requests and faults.  *)
EXTENDS PermissionCache, TLAPS

\* A row that is not locked by the transaction of a sync is one it does not
\* have to delete, and what it has to delete is live until it commits.
CacheInv == TypeOK /\ StaleIsCleared /\ SyncsKeepApart

-----------------------------------------------------------------------------
\* A request that did not have to clear the cache is not the one that had to.
LEMMA ClearsKept ==
  ASSUME TypeOK, NEW r \in Requests, req[r].pc # "del",
         NEW new, req' = [req EXCEPT ![r] = new],
         \E q \in Requests : req[q].pc = "del"
  PROVE  \E q \in Requests : req'[q].pc = "del"
BY DEF TypeOK

LEMMA InitInv == ASSUME Init PROVE CacheInv
BY DEF Init, CacheInv, TypeOK, StaleIsCleared, SyncsKeepApart, Request, NoRequest,
       Cache, Miss

\* The type invariant is inductive by itself.
LEMMA TypeStep == ASSUME TypeOK, [Next]_vars PROVE TypeOK'
<1> USE DEF TypeOK, Request, NoRequest, Cache, Miss, LiveRows, Granted
<1>1. ASSUME NEW r \in Requests, Call(r) PROVE TypeOK'
  <2>1. CASE ReadMiss(r)   BY <2>1 DEF ReadMiss, Begin, Become
  <2>2. ASSUME NEW p \in Permissions, AssignCheck(r, p) PROVE TypeOK'
    BY <2>2 DEF AssignCheck, Begin, Become
  <2>3. ASSUME NEW p \in Permissions, RevokeCheck(r, p) PROVE TypeOK'
    BY <2>3 DEF RevokeCheck, Begin, Become
  <2>4. ASSUME NEW set \in SUBSET Permissions, SyncCheck(r, set) PROVE TypeOK'
    BY <2>4 DEF SyncCheck, Begin, Become
  <2>5. CASE DeleteRole(r) BY <2>5 DEF DeleteRole, Begin, Become
  <2> QED BY <1>1, <2>1, <2>2, <2>3, <2>4, <2>5 DEF Call
<1>2. ASSUME NEW r \in Requests, Handle(r) PROVE TypeOK'
  <2>1. CASE ReadRows(r)      BY <2>1 DEF ReadRows, Become
  <2>2. CASE Fill(r)          BY <2>2 DEF Fill, End
  <2>3. CASE AssignFind(r)    BY <2>3 DEF AssignFind, Become
  <2>4. CASE AssignInsert(r)  BY <2>4 DEF AssignInsert, Clear, Become, End
  <2>5. CASE AssignRestore(r) BY <2>5 DEF AssignRestore, Clear, Become
  <2>6. CASE Revoke(r)        BY <2>6 DEF Revoke, Clear, Become, End
  <2>7. CASE SyncSnapshot(r)  BY <2>7 DEF SyncSnapshot, Become
  <2>8. CASE SyncUpdate(r)    BY <2>8 DEF SyncUpdate, Become
  <2>9. CASE SyncCommit(r)    BY <2>9 DEF SyncCommit, Clear, Become
  <2>10. CASE Invalidate(r)   BY <2>10 DEF Invalidate, End
  <2> QED BY <1>2, <2>1, <2>2, <2>3, <2>4, <2>5, <2>6, <2>7, <2>8, <2>9, <2>10 DEF Handle
<1>3. ASSUME NEW r \in Requests, Fault(r) PROVE TypeOK'
  BY <1>3 DEF Fault, End
<1>4. ASSUME NEW p \in Permissions, DeletePermission(p) PROVE TypeOK'
  BY <1>4 DEF DeletePermission
<1>5. CASE Expire BY <1>5 DEF Expire
<1>6. CASE UNCHANGED vars BY <1>6 DEF vars
<1> QED BY <1>1, <1>2, <1>3, <1>4, <1>5, <1>6 DEF Next

\* A step of r that neither takes nor gives up locks leaves them all as they are.
LEMMA SameLocks ==
  ASSUME TypeOK, SyncsKeepApart, NEW r \in Requests,
         NEW new \in Request, new.pc # "upsert", req' = [req EXCEPT ![r] = new],
         \A q \in Requests : req[q].pc = "upsert" /\ q # r =>
           req[q].mine \subseteq LiveRows'
  PROVE  SyncsKeepApart'
BY DEF TypeOK, SyncsKeepApart, Locked

\* Rows that nobody has locked can change without harm to any transaction.
LEMMA RowsChange ==
  ASSUME TypeOK, SyncsKeepApart, NEW r \in Requests,
         \A p \in Permissions : row'[p] = row[p] \/ row'[p] = "live" \/ ~ Locked(r, p)
  PROVE  \A q \in Requests : req[q].pc = "upsert" /\ q # r =>
           req[q].mine \subseteq LiveRows'
BY DEF TypeOK, SyncsKeepApart, Locked, LiveRows, Request

LEMMA ApartStep == ASSUME CacheInv, [Next]_vars PROVE SyncsKeepApart'
<1> USE DEF CacheInv
<1> DEFINE Others(r) == \A q \in Requests : req[q].pc = "upsert" /\ q # r =>
                          req[q].mine \subseteq LiveRows'
<1>1. ASSUME NEW r \in Requests, UNCHANGED row PROVE Others(r)
  BY <1>1, RowsChange
<1>2. ASSUME NEW r \in Requests, Call(r) PROVE SyncsKeepApart'
  <2>1. PICK new \in Request : new.pc # "upsert" /\ req' = [req EXCEPT ![r] = new]
    BY <1>2 DEF Call, ReadMiss, AssignCheck, RevokeCheck, SyncCheck, DeleteRole, Begin,
                Become, Request, TypeOK
  <2>2. UNCHANGED row
    BY <1>2 DEF Call, ReadMiss, AssignCheck, RevokeCheck, SyncCheck, DeleteRole
  <2> QED BY <2>1, <2>2, <1>1, SameLocks
<1>3. ASSUME NEW r \in Requests, Handle(r) PROVE SyncsKeepApart'
  <2> DEFINE Step == \E new \in Request : new.pc # "upsert" /\ req' = [req EXCEPT ![r] = new]
  <2> NoRequest \in Request /\ NoRequest.pc # "upsert"
    BY DEF NoRequest, Request
  <2>1. CASE ReadRows(r)
    BY <2>1, <1>1, SameLocks DEF ReadRows, Become, Request, Granted, LiveRows
  <2>2. CASE Fill(r)
    BY <2>2, <1>1, SameLocks DEF Fill, End
  <2>3. CASE AssignFind(r)
    BY <2>3, <1>1, SameLocks DEF AssignFind, Become, Request, TypeOK
  <2>4. CASE AssignInsert(r)
    <3>1. Step BY <2>4 DEF AssignInsert, Clear, End, Become, Request
    <3>2. Others(r) BY <2>4, RowsChange DEF AssignInsert, TypeOK, Request
    <3> QED BY <3>1, <3>2, SameLocks
  <2>5. CASE AssignRestore(r)
    <3>1. Step BY <2>5 DEF AssignRestore, Clear, Become, Request
    <3>2. Others(r) BY <2>5, RowsChange DEF AssignRestore, TypeOK, Request
    <3> QED BY <3>1, <3>2, SameLocks
  <2>6. CASE Revoke(r)
    <3>1. Step BY <2>6 DEF Revoke, Clear, End, Become, Request
    <3>2. Others(r) BY <2>6, RowsChange DEF Revoke, TypeOK, Request
    <3> QED BY <3>1, <3>2, SameLocks
  <2>7. CASE SyncSnapshot(r)
    BY <2>7, <1>1, SameLocks DEF SyncSnapshot, Become, Request, LiveRows, TypeOK
  <2>8. CASE SyncUpdate(r)
    <3>1. req' = [req EXCEPT ![r] = [pc |-> "upsert", set |-> req[r].set,
                                     mine |-> req[r].mine \cap LiveRows]]
      BY <2>8 DEF SyncUpdate, Become
    <3>2. UNCHANGED <<row, LiveRows>>
      BY <2>8 DEF SyncUpdate, LiveRows
    <3>3. \A p \in req[r].mine, q \in Requests \ {r} :
            ~ (req[q].pc = "upsert" /\ p \in req[q].mine)
      BY <2>8 DEF SyncUpdate, Locked
    <3>4. \A q \in Requests \ {r} : req'[q] = req[q]
      BY <3>1 DEF TypeOK
    <3>5. req'[r].mine = req[r].mine \cap LiveRows
      BY <3>1 DEF TypeOK
    <3> QED BY <3>2, <3>3, <3>4, <3>5 DEF SyncsKeepApart, Locked
  <2>9. CASE SyncCommit(r)
    <3>1. Step BY <2>9 DEF SyncCommit, Clear, Become, Request
    <3>2. req[r].pc = "upsert"
      BY <2>9 DEF SyncCommit
    <3>3. \A p \in Permissions : row'[p] = row[p] \/ row'[p] = "live" \/ p \in req[r].mine
      BY <2>9 DEF SyncCommit
    <3>4. \A p \in Permissions : row'[p] = row[p] \/ row'[p] = "live" \/ ~ Locked(r, p)
      BY <3>2, <3>3 DEF SyncsKeepApart
    <3>5. Others(r) BY <3>4, RowsChange
    <3> QED BY <3>1, <3>5, SameLocks
  <2>10. CASE Invalidate(r)
    BY <2>10, <1>1, SameLocks DEF Invalidate, End
  <2> QED BY <1>3, <2>1, <2>2, <2>3, <2>4, <2>5, <2>6, <2>7, <2>8, <2>9, <2>10 DEF Handle
<1>4. ASSUME NEW r \in Requests, Fault(r) PROVE SyncsKeepApart'
  <2>1. NoRequest \in Request /\ NoRequest.pc # "upsert"
    BY DEF NoRequest, Request
  <2> QED BY <1>4, <1>1, <2>1, SameLocks DEF Fault, End
<1>5. CASE UNCHANGED <<row, req>>
  BY <1>5 DEF SyncsKeepApart, Locked, LiveRows
<1> QED BY <1>2, <1>3, <1>4, <1>5 DEF Next, DeletePermission, Expire, vars

\* The cache and who has to clear it.
LEMMA StaleStep == ASSUME CacheInv, [Next]_vars PROVE StaleIsCleared'
<1> USE DEF CacheInv
<1>1. ASSUME NEW r \in Requests, req[r].pc # "del", NEW new, req' = [req EXCEPT ![r] = new],
             UNCHANGED <<row, perm, cache, faults, late>>
      PROVE  StaleIsCleared'
  BY <1>1, ClearsKept DEF StaleIsCleared, Granted, LiveRows
<1>2. ASSUME NEW r \in Requests, req' = [req EXCEPT ![r] = [pc |-> "del", set |-> {}, mine |-> {}]]
      PROVE  StaleIsCleared'
  BY <1>2 DEF StaleIsCleared, TypeOK
<1>3. ASSUME NEW r \in Requests, Call(r) PROVE StaleIsCleared'
  <2>1. CASE DeleteRole(r) BY <2>1, <1>2 DEF DeleteRole, Begin, Become
  <2>2. CASE ~ DeleteRole(r)
    BY <1>3, <2>2, <1>1 DEF Call, ReadMiss, AssignCheck, RevokeCheck, SyncCheck, Begin, Become
  <2> QED BY <2>1, <2>2
<1>4. ASSUME NEW r \in Requests, Handle(r) PROVE StaleIsCleared'
  <2>1. CASE ReadRows(r)      BY <2>1, <1>1 DEF ReadRows, Become
  <2>2. CASE Fill(r)
    BY <2>2 DEF Fill, StaleIsCleared, Granted, LiveRows
  <2>3. CASE AssignFind(r)    BY <2>3, <1>1 DEF AssignFind, Become
  <2>4. CASE AssignInsert(r)  BY <2>4, <1>1, <1>2 DEF AssignInsert, Clear, Become, End
  <2>5. CASE AssignRestore(r) BY <2>5, <1>2 DEF AssignRestore, Clear, Become
  <2>6. CASE Revoke(r)        BY <2>6, <1>1, <1>2 DEF Revoke, Clear, Become, End
  <2>7. CASE SyncSnapshot(r)  BY <2>7, <1>1 DEF SyncSnapshot, Become
  <2>8. CASE SyncUpdate(r)    BY <2>8, <1>1 DEF SyncUpdate, Become
  <2>9. CASE SyncCommit(r)    BY <2>9, <1>2 DEF SyncCommit, Clear, Become
  <2>10. CASE Invalidate(r)   BY <2>10 DEF Invalidate, StaleIsCleared, Miss
  <2> QED BY <1>4, <2>1, <2>2, <2>3, <2>4, <2>5, <2>6, <2>7, <2>8, <2>9, <2>10 DEF Handle
<1>5. ASSUME NEW r \in Requests, Fault(r) PROVE StaleIsCleared'
  BY <1>5 DEF Fault, StaleIsCleared, TypeOK
<1>6. ASSUME NEW p \in Permissions, DeletePermission(p) PROVE StaleIsCleared'
  BY <1>6 DEF DeletePermission, StaleIsCleared, Granted, LiveRows
<1>7. CASE Expire BY <1>7 DEF Expire, StaleIsCleared, Miss
<1>8. CASE UNCHANGED vars BY <1>8 DEF vars, StaleIsCleared, Granted, LiveRows
<1> QED BY <1>3, <1>4, <1>5, <1>6, <1>7, <1>8 DEF Next

-----------------------------------------------------------------------------
\* Types, the locks of syncs and the pending invalidations together: the
\* invariant that the handlers of roles and role permissions keep.
THEOREM CacheInvariant == Spec => []CacheInv
<1>1. CacheInv /\ [Next]_vars => CacheInv'
  BY TypeStep, ApartStep, StaleStep DEF CacheInv
<1> QED BY InitInv, <1>1, PTL DEF Spec

\* Every change to the rows of a role has its invalidation still to come, until
\* the cache is cleared: nothing but a late reader or a fault makes it stale.
THEOREM StaleAlwaysCleared == Spec => []StaleIsCleared
BY CacheInvariant, PTL DEF CacheInv

\* Concurrent syncs never delete the same row, and what they delete stays live
\* until they commit.
THEOREM SyncsAlwaysApart == Spec => []SyncsKeepApart
BY CacheInvariant, PTL DEF CacheInv

\* Every request keeps what its kind needs: a transaction has locked rows of the
\* role's permissions only, and a late set is one that was read.
THEOREM TypeAlwaysCorrect == Spec => []TypeOK
BY CacheInvariant, PTL DEF CacheInv
=============================================================================
