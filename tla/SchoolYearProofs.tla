---------------------------- MODULE SchoolYearProofs ----------------------------
(***************************************************************************)
(* What overlapping activations leave active among the academic sessions,   *)
(* and marks and the publication of their exam, for any number of requests, *)
(* sessions, pairs of student and subject, and any marks.                   *)
(***************************************************************************)
EXTENDS AcademicSessions, ExamResults, FiniteSetTheorems, TLAPS

-----------------------------------------------------------------------------
(* Academic sessions                                                       *)

\* OneActivePerRequest alone is not inductive: the last UPDATE of an activation
\* deactivates only the rows that the first one has locked.  Those contain every
\* session that the request has activated earlier and that is still active,
\* because no other request can make it that in between.
LocksOwn ==
  \A r \in Requests :
    adm[r].pc \in {"lock", "set"} => \A s \in ActiveTerms : by[s] = r => s \in adm[r].rows

PerRequestInv == SessionTypeOK /\ LocksOwn /\ OneActivePerRequest

-----------------------------------------------------------------------------
LEMMA ActiveTermsDef ==
  ASSUME NEW s \in Sessions
  PROVE  s \in ActiveTerms <=> term[s].there /\ ~ term[s].deleted /\ term[s].active
  BY DEF ActiveTerms, LiveTerms

LEMMA IdleAdminType ==
  /\ IdleAdmin \in Admin
  /\ IdleAdmin.pc = "idle"
  <1>1. (CHOOSE s \in Sessions : TRUE) \in Sessions
    BY SessionAssumption
  <1>2. QED
    BY <1>1 DEF IdleAdmin, Admin

LEMMA SessionTypeInit == SessionInit => SessionTypeOK
  <1> SUFFICES ASSUME SessionInit PROVE SessionTypeOK
    OBVIOUS
  <1>1. term \in [Sessions -> Term]
    BY DEF SessionInit, NoTerm, Term
  <1>2. by \in [Sessions -> Requests]
    BY DEF SessionInit
  <1>3. adm \in [Requests -> Admin]
    BY IdleAdminType DEF SessionInit
  <1>4. QED
    BY <1>1, <1>2, <1>3 DEF SessionInit, SessionTypeOK

\* A request moves from one of its steps to the next.
LEMMA AdminStepType ==
  ASSUME SessionTypeOK, NEW r \in Requests, NEW s \in Sessions,
         NEW to \in {"idle", "begin", "lock", "set", "off", "delete", "toggle"},
         NEW rows \in SUBSET Sessions,
         adm' = [adm EXCEPT ![r] = [pc |-> to, id |-> s, rows |-> rows]]
  PROVE  adm' \in [Requests -> Admin]
  <1>1. [pc |-> to, id |-> s, rows |-> rows] \in Admin
    BY DEF Admin
  <1>2. QED
    BY <1>1 DEF SessionTypeOK

LEMMA AdminEndType ==
  ASSUME SessionTypeOK, NEW r \in Requests, adm' = [adm EXCEPT ![r] = IdleAdmin]
  PROVE  adm' \in [Requests -> Admin]
  BY IdleAdminType DEF SessionTypeOK

LEMMA AdminFields ==
  ASSUME SessionTypeOK, NEW r \in Requests
  PROVE  adm[r].id \in Sessions /\ adm[r].rows \in SUBSET Sessions
  BY DEF SessionTypeOK, Admin

LEMMA OverlapType ==
  ASSUME SessionTypeOK, NEW r, admOverlap' = (admOverlap \/ Meets(adm, r))
  PROVE  admOverlap' \in BOOLEAN
  BY DEF SessionTypeOK, Meets

LEMMA SetTermType ==
  ASSUME SessionTypeOK, NEW s \in Sessions, NEW row \in Term, SetTerm(s, row)
  PROVE  term' \in [Sessions -> Term]
  BY DEF SessionTypeOK, SetTerm

\* An UPDATE of one column of one row.
LEMMA ColumnType ==
  ASSUME SessionTypeOK, NEW s \in Sessions, NEW b \in BOOLEAN
  PROVE  /\ [term[s] EXCEPT !.active = b] \in Term
         /\ [term[s] EXCEPT !.deleted = b] \in Term
         /\ [term[s] EXCEPT !.admission = b] \in Term
  BY DEF SessionTypeOK, Term

\* Handlers that only look: they change what the request does next.
LEMMA CallType ==
  ASSUME SessionTypeOK, NEW r \in Requests, NEW s \in Sessions,
         NEW to \in {"begin", "off", "delete", "toggle"},
         AdminCall(r, s, to), UNCHANGED <<term, by>>
  PROVE  SessionTypeOK'
  <1>1. adm' \in [Requests -> Admin]
    <2>1. adm' = [adm EXCEPT ![r] = [pc |-> to, id |-> s, rows |-> {}]]
      BY DEF AdminCall, AdminStep
    <2>2. to \in {"idle", "begin", "lock", "set", "off", "delete", "toggle"}
      OBVIOUS
    <2>3. {} \in SUBSET Sessions
      OBVIOUS
    <2>4. QED
      BY <2>1, <2>2, <2>3, AdminStepType
  <1>2. admOverlap' \in BOOLEAN
    BY OverlapType DEF AdminCall
  <1>3. QED
    BY <1>1, <1>2 DEF SessionTypeOK

\* The second UPDATE of an activation deactivates the locked rows.
LEMMA SetActiveType ==
  ASSUME SessionTypeOK, NEW r \in Requests, SetActive(r)
  PROVE  SessionTypeOK'
  <1> DEFINE s == adm[r].id
  <1>1. s \in Sessions
    BY AdminFields
  <1>2. adm' \in [Requests -> Admin]
    BY AdminEndType DEF SetActive, AdminEnd
  <1>3. term' \in [Sessions -> Term]
    <2>1. ASSUME NEW t \in Sessions
          PROVE  [term[t] EXCEPT !.active = (t = s \/ (@ /\ t \notin adm[r].rows))] \in Term
      BY DEF SessionTypeOK, Term
    <2>2. QED
      BY <2>1 DEF SetActive, SessionTypeOK
  <1>4. by' \in [Sessions -> Requests]
    BY <1>1 DEF SetActive, SessionTypeOK
  <1>5. QED
    BY <1>2, <1>3, <1>4 DEF SetActive, SessionTypeOK

LEMMA SessionTypeStep == SessionTypeOK /\ [SessionNext]_sessionVars => SessionTypeOK'
  <1> SUFFICES ASSUME SessionTypeOK, [SessionNext]_sessionVars
               PROVE  SessionTypeOK'
    OBVIOUS
  <1>1. CASE UNCHANGED sessionVars
    BY <1>1 DEF sessionVars, SessionTypeOK
  <1>2. ASSUME NEW r \in Requests, NEW s \in Sessions,
               \/ Activate(r, s) \/ Deactivate(r, s)
               \/ DeleteSession(r, s) \/ ToggleCheck(r, s)
        PROVE  SessionTypeOK'
    BY <1>2, CallType DEF Activate, Deactivate, DeleteSession, ToggleCheck
  <1>3. ASSUME NEW r \in Requests, NEW s \in Sessions, NEW admission \in BOOLEAN,
               CreateSession(r, s, admission)
        PROVE  SessionTypeOK'
    <2>1. [NoTerm EXCEPT !.there = TRUE, !.admission = admission] \in Term
      BY DEF NoTerm, Term
    <2>2. term' \in [Sessions -> Term]
      BY <1>3, <2>1, SetTermType DEF CreateSession
    <2>3. admOverlap' \in BOOLEAN
      BY <1>3, OverlapType DEF CreateSession
    <2>4. QED
      BY <1>3, <2>2, <2>3 DEF CreateSession, SessionTypeOK
  <1>4. ASSUME NEW r \in Requests, DeactivateSnapshot(r)
        PROVE  SessionTypeOK'
    <2>1. adm[r].id \in Sessions /\ ActiveTerms \in SUBSET Sessions
      BY AdminFields DEF ActiveTerms, LiveTerms
    <2>2. adm' \in [Requests -> Admin]
      BY <1>4, <2>1, AdminStepType DEF DeactivateSnapshot, AdminStep
    <2>3. QED
      BY <1>4, <2>2 DEF DeactivateSnapshot, SessionTypeOK
  <1>5. ASSUME NEW r \in Requests, DeactivateLock(r)
        PROVE  SessionTypeOK'
    <2>1. adm[r].id \in Sessions /\ adm[r].rows \cap ActiveTerms \in SUBSET Sessions
      BY AdminFields
    <2>2. adm' \in [Requests -> Admin]
      BY <1>5, <2>1, AdminStepType DEF DeactivateLock, AdminStep
    <2>3. QED
      BY <1>5, <2>2 DEF DeactivateLock, SessionTypeOK
  <1>6. ASSUME NEW r \in Requests, SetActive(r)
        PROVE  SessionTypeOK'
    BY <1>6, SetActiveType
  <1>7. ASSUME NEW r \in Requests, ActivateAborts(r)
        PROVE  SessionTypeOK'
    BY <1>7, AdminEndType DEF ActivateAborts, AdminEnd, SessionTypeOK
  <1>8. ASSUME NEW r \in Requests, NEW column \in Term, AdminEnd(r, adm[r].pc),
               SetTerm(adm[r].id, column) \/ UNCHANGED term, UNCHANGED <<by, admOverlap>>
        PROVE  SessionTypeOK'
    <2>1. adm' \in [Requests -> Admin]
      BY <1>8, AdminEndType DEF AdminEnd
    <2>2. term' \in [Sessions -> Term]
      BY <1>8, AdminFields, SetTermType DEF SessionTypeOK
    <2>3. QED
      BY <1>8, <2>1, <2>2 DEF SessionTypeOK
  <1>9. ASSUME NEW r \in Requests, SetInactive(r)
        PROVE  SessionTypeOK'
    <2>1. [term[adm[r].id] EXCEPT !.active = FALSE] \in Term
      BY AdminFields, ColumnType
    <2>2. QED
      BY <1>8, <1>9, <2>1 DEF SetInactive, AdminEnd
  <1>10. ASSUME NEW r \in Requests, SoftDeleteSession(r)
         PROVE  SessionTypeOK'
    <2>1. [term[adm[r].id] EXCEPT !.deleted = TRUE] \in Term
      BY AdminFields, ColumnType
    <2>2. QED
      BY <1>8, <1>10, <2>1 DEF SoftDeleteSession, AdminEnd
  <1>11. ASSUME NEW r \in Requests, NEW on \in BOOLEAN, ToggleAdmissionTest(r, on)
         PROVE  SessionTypeOK'
    <2>1. [term[adm[r].id] EXCEPT !.admission = on] \in Term
      BY AdminFields, ColumnType
    <2>2. QED
      BY <1>8, <1>11, <2>1 DEF ToggleAdmissionTest, AdminEnd
  <1>12. QED
    BY <1>1, <1>2, <1>3, <1>4, <1>5, <1>6, <1>7, <1>9, <1>10, <1>11 DEF SessionNext

\* Type correctness: every row has all its columns, and every request in flight
\* names a session and holds rows of the table.
THEOREM SessionTypeCorrect == SessionSpec => []SessionTypeOK
  BY SessionTypeInit, SessionTypeStep, PTL DEF SessionSpec

-----------------------------------------------------------------------------
(* Overlapping activations                                                 *)

\* No step but the last of an activation makes a session active.
ActiveShrinks ==
  /\ ActiveTerms' \subseteq ActiveTerms
  /\ by' = by

\* It has neither begun nor moved on with the UPDATEs of an activation.
KeepsLocks ==
  \A r \in Requests : adm'[r].pc \in {"lock", "set"} => adm'[r] = adm[r]

LEMMA ShrinkKeeps ==
  ASSUME PerRequestInv, SessionTypeOK', ActiveShrinks, KeepsLocks
  PROVE  PerRequestInv'
  <1>1. OneActivePerRequest'
    BY DEF PerRequestInv, OneActivePerRequest, ActiveShrinks
  <1>2. LocksOwn'
    BY DEF PerRequestInv, LocksOwn, ActiveShrinks, KeepsLocks
  <1>3. QED
    BY <1>1, <1>2 DEF PerRequestInv

\* The rows that the UPDATEs of the other handlers leave.
LEMMA RowShrinks ==
  ASSUME SessionTypeOK, NEW s \in Sessions, NEW row, SetTerm(s, row),
         row.active => s \in ActiveTerms
  PROVE  ActiveTerms' \subseteq ActiveTerms
  <1> SUFFICES ASSUME NEW t \in ActiveTerms' PROVE t \in ActiveTerms
    OBVIOUS
  <1>1. t \in Sessions /\ term'[t].there /\ ~ term'[t].deleted /\ term'[t].active
    BY DEF ActiveTerms, LiveTerms
  <1>2. term' = [term EXCEPT ![s] = row] /\ term \in [Sessions -> Term]
    BY DEF SetTerm, SessionTypeOK
  <1>3. CASE t = s
    BY <1>1, <1>2, <1>3
  <1>4. CASE t # s
    <2>1. term'[t] = term[t]
      BY <1>1, <1>2, <1>4
    <2>2. QED
      BY <1>1, <2>1, ActiveTermsDef
  <1>5. QED
    BY <1>3, <1>4

LEMMA SameTermsSameActive ==
  ASSUME term' = term
  PROVE  ActiveTerms' = ActiveTerms
  BY DEF ActiveTerms, LiveTerms

LEMMA EndKeepsLocks ==
  ASSUME SessionTypeOK, NEW r \in Requests, adm' = [adm EXCEPT ![r] = IdleAdmin]
  PROVE  KeepsLocks
  BY IdleAdminType DEF KeepsLocks, SessionTypeOK

LEMMA CallKeepsLocks ==
  ASSUME SessionTypeOK, NEW r \in Requests, NEW s, NEW to,
         to \notin {"lock", "set"}, AdminCall(r, s, to)
  PROVE  KeepsLocks
  <1>1. adm' = [adm EXCEPT ![r] = [pc |-> to, id |-> s, rows |-> {}]]
    BY DEF AdminCall, AdminStep
  <1>2. adm'[r].pc = to
    BY <1>1 DEF SessionTypeOK
  <1>3. \A q \in Requests \ {r} : adm'[q] = adm[q]
    BY <1>1 DEF SessionTypeOK
  <1>4. QED
    BY <1>2, <1>3 DEF KeepsLocks

LEMMA AfterSetActive ==
  ASSUME SessionTypeOK, NEW r \in Requests, SetActive(r)
  PROVE  \/ ActiveTerms' = ActiveTerms /\ by' = by /\ term' = term
         \/ /\ adm[r].id \in LiveTerms
            /\ ActiveTerms' = (ActiveTerms \ adm[r].rows) \cup {adm[r].id}
            /\ by' = [by EXCEPT ![adm[r].id] = r]
            /\ \A t \in Sessions :
                 /\ term'[t].deleted = term[t].deleted
                 /\ term'[t].active <=>
                      t = adm[r].id \/ (term[t].active /\ t \notin adm[r].rows)
  <1> DEFINE s == adm[r].id
  <1>0. s \in Sessions
    BY AdminFields
  <1>1. CASE s \notin LiveTerms
    <2>1. term' = term /\ by' = by
      BY <1>1 DEF SetActive
    <2>2. QED
      BY <2>1, SameTermsSameActive
  <1>2. CASE s \in LiveTerms
    <2>1. /\ term' = [t \in Sessions |->
                       [term[t] EXCEPT !.active = (t = s \/ (@ /\ t \notin adm[r].rows))]]
          /\ by' = [by EXCEPT ![s] = r]
      BY <1>2 DEF SetActive
    <2>2. ASSUME NEW t \in Sessions
          PROVE  /\ term'[t].there = term[t].there
                 /\ term'[t].deleted = term[t].deleted
                 /\ term'[t].active <=> t = s \/ (term[t].active /\ t \notin adm[r].rows)
      <3>1. term[t] \in Term
        BY DEF SessionTypeOK
      <3>2. term'[t] = [term[t] EXCEPT !.active = (t = s \/ (@ /\ t \notin adm[r].rows))]
        BY <2>1
      <3>3. QED
        BY <3>1, <3>2 DEF Term
    <2>3. s \in Sessions /\ term[s].there /\ ~ term[s].deleted
      BY <1>2 DEF LiveTerms
    <2>4. ActiveTerms' = {t \in Sessions :
                           term'[t].there /\ ~ term'[t].deleted /\ term'[t].active}
      BY DEF ActiveTerms, LiveTerms
    <2>5. ActiveTerms = {t \in Sessions : term[t].there /\ ~ term[t].deleted /\ term[t].active}
      BY DEF ActiveTerms, LiveTerms
    <2>6. ActiveTerms' = (ActiveTerms \ adm[r].rows) \cup {s}
      BY <2>2, <2>3, <2>4, <2>5
    <2>7. QED
      BY <1>2, <2>1, <2>2, <2>6
  <1>3. QED
    BY <1>1, <1>2

\* The first UPDATE: its snapshot has all the active rows, and of those that it
\* locks it drops only the inactive ones.
LEMMA FirstUpdateKeeps ==
  ASSUME PerRequestInv, SessionTypeOK', NEW r \in Requests,
         DeactivateSnapshot(r) \/ DeactivateLock(r)
  PROVE  PerRequestInv'
  <1>1. term' = term /\ by' = by /\ ActiveTerms' = ActiveTerms
    BY SameTermsSameActive DEF DeactivateSnapshot, DeactivateLock
  <1>2. \A q \in Requests \ {r} : adm'[q] = adm[q]
    BY DEF DeactivateSnapshot, DeactivateLock, AdminStep, PerRequestInv, SessionTypeOK
  <1>3. \A s \in ActiveTerms : by[s] = r => s \in adm'[r].rows
    <2>1. CASE DeactivateSnapshot(r)
      <3>1. adm'[r].rows = ActiveTerms
        BY <2>1 DEF DeactivateSnapshot, AdminStep, PerRequestInv, SessionTypeOK
      <3>2. QED
        BY <3>1
    <2>2. CASE DeactivateLock(r)
      <3>1. adm[r].pc = "lock" /\ adm'[r].rows = adm[r].rows \cap ActiveTerms
        BY <2>2 DEF DeactivateLock, AdminStep, PerRequestInv, SessionTypeOK
      <3>2. QED
        BY <3>1 DEF PerRequestInv, LocksOwn
    <2>3. QED
      BY <2>1, <2>2
  <1>4. LocksOwn'
    BY <1>1, <1>2, <1>3 DEF LocksOwn, PerRequestInv
  <1>5. OneActivePerRequest'
    BY <1>1 DEF OneActivePerRequest, PerRequestInv
  <1>6. QED
    BY <1>4, <1>5 DEF PerRequestInv

\* The second UPDATE: what the request has activated before is deactivated.
LEMMA SecondUpdateKeeps ==
  ASSUME PerRequestInv, SessionTypeOK', NEW r \in Requests, SetActive(r)
  PROVE  PerRequestInv'
  <1>1. adm[r].pc = "set" /\ adm' = [adm EXCEPT ![r] = IdleAdmin] /\ SessionTypeOK
    BY DEF SetActive, AdminEnd, PerRequestInv
  <1>2. CASE ActiveTerms' = ActiveTerms /\ by' = by
    BY <1>1, <1>2, EndKeepsLocks, ShrinkKeeps DEF ActiveShrinks
  <1>3. CASE /\ ActiveTerms' = (ActiveTerms \ adm[r].rows) \cup {adm[r].id}
             /\ by' = [by EXCEPT ![adm[r].id] = r]
    <2> DEFINE s == adm[r].id
    <2>1. s \in Sessions /\ by'[s] = r /\ \A t \in Sessions \ {s} : by'[t] = by[t]
      BY <1>1, <1>3, AdminFields DEF SessionTypeOK
    <2>2. \A t \in ActiveTerms : t \in Sessions
      BY DEF ActiveTerms, LiveTerms
    <2>3. ASSUME NEW t \in ActiveTerms', t # s
          PROVE  /\ t \in ActiveTerms /\ by'[t] = by[t] /\ by[t] # r
      BY <1>1, <1>3, <2>1, <2>2, <2>3 DEF PerRequestInv, LocksOwn
    <2>4. OneActivePerRequest'
      <3> SUFFICES ASSUME NEW t \in ActiveTerms', NEW u \in ActiveTerms', by'[t] = by'[u]
                   PROVE  t = u
        BY DEF OneActivePerRequest
      <3>1. CASE t = s \/ u = s
        BY <2>1, <2>3, <3>1
      <3>2. CASE t # s /\ u # s
        BY <2>3, <3>2 DEF PerRequestInv, OneActivePerRequest
      <3>3. QED
        BY <3>1, <3>2
    <2>5. LocksOwn'
      <3> SUFFICES ASSUME NEW q \in Requests, adm'[q].pc \in {"lock", "set"},
                          NEW t \in ActiveTerms', by'[t] = q
                   PROVE  t \in adm'[q].rows
        BY DEF LocksOwn
      <3>1. q # r /\ adm'[q] = adm[q]
        BY <1>1, IdleAdminType DEF SessionTypeOK
      <3>2. t # s
        BY <2>1, <3>1
      <3>3. t \in ActiveTerms /\ by[t] = q
        BY <2>3, <3>2
      <3>4. QED
        BY <3>1, <3>3 DEF PerRequestInv, LocksOwn
    <2>6. QED
      BY <2>4, <2>5 DEF PerRequestInv
  <1>4. QED
    BY <1>1, <1>2, <1>3, AfterSetActive

\* The handlers that do not activate.
LEMMA OthersShrink ==
  ASSUME SessionTypeOK, NEW r \in Requests,
         \/ \E s \in Sessions :
              \/ Activate(r, s) \/ Deactivate(r, s) \/ DeleteSession(r, s) \/ ToggleCheck(r, s)
              \/ \E admission \in BOOLEAN : CreateSession(r, s, admission)
         \/ ActivateAborts(r) \/ SetInactive(r) \/ SoftDeleteSession(r)
         \/ \E on \in BOOLEAN : ToggleAdmissionTest(r, on)
  PROVE  ActiveShrinks /\ KeepsLocks
  <1>1. ASSUME NEW s \in Sessions,
               \/ Activate(r, s) \/ Deactivate(r, s)
               \/ DeleteSession(r, s) \/ ToggleCheck(r, s)
        PROVE  ActiveShrinks /\ KeepsLocks
    <2>1. term' = term /\ by' = by
      BY <1>1 DEF Activate, Deactivate, DeleteSession, ToggleCheck
    <2>2. KeepsLocks
      BY <1>1, CallKeepsLocks DEF Activate, Deactivate, DeleteSession, ToggleCheck
    <2>3. QED
      BY <2>1, <2>2, SameTermsSameActive DEF ActiveShrinks
  <1>2. ASSUME NEW s \in Sessions, NEW admission \in BOOLEAN, CreateSession(r, s, admission)
        PROVE  ActiveShrinks /\ KeepsLocks
    <2>1. [NoTerm EXCEPT !.there = TRUE, !.admission = admission].active = FALSE
      BY DEF NoTerm
    <2>2. ActiveTerms' \subseteq ActiveTerms
      BY <1>2, <2>1, RowShrinks DEF CreateSession
    <2>3. by' = by /\ adm' = adm
      BY <1>2 DEF CreateSession
    <2>4. QED
      BY <2>2, <2>3 DEF ActiveShrinks, KeepsLocks
  <1>3. ASSUME NEW row, SetTerm(adm[r].id, row) \/ UNCHANGED term,
               row.active => term[adm[r].id].active /\ adm[r].id \in LiveTerms,
               UNCHANGED by, adm' = [adm EXCEPT ![r] = IdleAdmin]
        PROVE  ActiveShrinks /\ KeepsLocks
    <2>1. row.active => adm[r].id \in ActiveTerms
      BY <1>3 DEF ActiveTerms
    <2>2. ActiveTerms' \subseteq ActiveTerms
      BY <1>3, <2>1, AdminFields, RowShrinks, SameTermsSameActive
    <2>3. QED
      BY <1>3, <2>2, EndKeepsLocks DEF ActiveShrinks
  <1>4. ASSUME ActivateAborts(r)
        PROVE  ActiveShrinks /\ KeepsLocks
    BY <1>4, EndKeepsLocks, SameTermsSameActive DEF ActivateAborts, AdminEnd, ActiveShrinks
  <1>5. ASSUME SetInactive(r)
        PROVE  ActiveShrinks /\ KeepsLocks
    <2>1. [term[adm[r].id] EXCEPT !.active = FALSE].active = FALSE
      BY AdminFields DEF SessionTypeOK, Term
    <2>2. QED
      BY <1>3, <1>5, <2>1 DEF SetInactive, AdminEnd
  <1>6. ASSUME SoftDeleteSession(r)
        PROVE  ActiveShrinks /\ KeepsLocks
    <2> DEFINE s == adm[r].id
    <2>1. /\ term' = [term EXCEPT ![s] = [term[s] EXCEPT !.deleted = TRUE]]
          /\ s \in Sessions /\ term[s] \in Term /\ term \in [Sessions -> Term]
      BY <1>6, AdminFields DEF SoftDeleteSession, SetTerm, SessionTypeOK
    <2>2. /\ term'[s].deleted
          /\ \A t \in Sessions \ {s} : term'[t] = term[t]
      BY <2>1 DEF Term
    <2>3. ActiveTerms' \subseteq ActiveTerms
      BY <2>2 DEF ActiveTerms, LiveTerms
    <2>4. QED
      BY <1>6, <2>3, EndKeepsLocks DEF SoftDeleteSession, AdminEnd, ActiveShrinks
  <1>7. ASSUME NEW on \in BOOLEAN, ToggleAdmissionTest(r, on)
        PROVE  ActiveShrinks /\ KeepsLocks
    <2>1. CASE adm[r].id \in LiveTerms
      <3>1. [term[adm[r].id] EXCEPT !.admission = on].active = term[adm[r].id].active
        BY AdminFields DEF SessionTypeOK, Term
      <3>2. QED
        BY <1>3, <1>7, <2>1, <3>1 DEF ToggleAdmissionTest, AdminEnd
    <2>2. CASE adm[r].id \notin LiveTerms
      BY <1>7, <2>2, EndKeepsLocks, SameTermsSameActive
      DEF ToggleAdmissionTest, AdminEnd, ActiveShrinks
    <2>3. QED
      BY <2>1, <2>2
  <1>8. QED
    BY <1>1, <1>2, <1>4, <1>5, <1>6, <1>7

LEMMA PerRequestInit == SessionInit => PerRequestInv
  <1> SUFFICES ASSUME SessionInit PROVE PerRequestInv
    OBVIOUS
  <1>1. ActiveTerms = {}
    BY DEF SessionInit, ActiveTerms, LiveTerms, NoTerm
  <1>2. QED
    BY <1>1, SessionTypeInit DEF PerRequestInv, LocksOwn, OneActivePerRequest

LEMMA PerRequestStep == PerRequestInv /\ [SessionNext]_sessionVars => PerRequestInv'
  <1> SUFFICES ASSUME PerRequestInv, [SessionNext]_sessionVars
               PROVE  PerRequestInv'
    OBVIOUS
  <1>1. SessionTypeOK /\ SessionTypeOK'
    BY SessionTypeStep DEF PerRequestInv
  <1>2. CASE UNCHANGED sessionVars
    <2>1. ActiveShrinks /\ KeepsLocks
      BY <1>2, SameTermsSameActive DEF sessionVars, ActiveShrinks, KeepsLocks
    <2>2. QED
      BY <1>1, <2>1, ShrinkKeeps
  <1>3. ASSUME NEW r \in Requests, DeactivateSnapshot(r) \/ DeactivateLock(r)
        PROVE  PerRequestInv'
    BY <1>1, <1>3, FirstUpdateKeeps
  <1>4. ASSUME NEW r \in Requests, SetActive(r)
        PROVE  PerRequestInv'
    BY <1>1, <1>4, SecondUpdateKeeps
  <1>5. CASE SessionNext
    <2>1. PICK r \in Requests :
            \/ \E s \in Sessions :
                 \/ Activate(r, s) \/ Deactivate(r, s) \/ DeleteSession(r, s)
                 \/ ToggleCheck(r, s)
                 \/ \E admission \in BOOLEAN : CreateSession(r, s, admission)
            \/ DeactivateSnapshot(r) \/ DeactivateLock(r) \/ SetActive(r)
            \/ ActivateAborts(r) \/ SetInactive(r) \/ SoftDeleteSession(r)
            \/ \E on \in BOOLEAN : ToggleAdmissionTest(r, on)
      BY <1>5 DEF SessionNext
    <2>2. CASE DeactivateSnapshot(r) \/ DeactivateLock(r) \/ SetActive(r)
      BY <1>3, <1>4, <2>2
    <2>3. CASE ~ (DeactivateSnapshot(r) \/ DeactivateLock(r) \/ SetActive(r))
      <3>1. ActiveShrinks /\ KeepsLocks
        BY <1>1, <2>1, <2>3, OthersShrink
      <3>2. QED
        BY <1>1, <3>1, ShrinkKeeps
    <2>4. QED
      BY <2>2, <2>3
  <1>6. QED
    BY <1>2, <1>5

\* However activations, deactivations and deletions overlap or fail, no request
\* leaves two sessions active.
THEOREM OneActivePerRequestHolds == SessionSpec => []OneActivePerRequest
  <1>1. PerRequestInv => OneActivePerRequest
    BY DEF PerRequestInv
  <1>2. QED
    BY <1>1, PerRequestInit, PerRequestStep, PTL DEF SessionSpec

-----------------------------------------------------------------------------
(* Requests one at a time                                                  *)

\* OneActiveAlone needs to know what the request in flight has looked at: an
\* activation has locked every active row, and a deletion has seen its session
\* inactive.  Nobody else can have changed that.
AloneInv ==
  ~ admOverlap =>
    /\ \A r, q \in Requests : adm[r].pc # "idle" /\ adm[q].pc # "idle" => r = q
    /\ \A s, t \in ActiveTerms : s = t
    /\ \A s \in Sessions : term[s].deleted => ~ term[s].active
    /\ \A r \in Requests :
         /\ adm[r].pc \in {"lock", "set"} => ActiveTerms \subseteq adm[r].rows
         /\ adm[r].pc = "delete" => ~ term[adm[r].id].active

\* A handler that starts alone is the only one, and it has looked already.
LEMMA AloneCall ==
  ASSUME SessionTypeOK, AloneInv, NEW r \in Requests, NEW s \in Sessions,
         NEW to \in {"begin", "off", "delete", "toggle"}, AdminCall(r, s, to),
         to = "delete" => ~ term[s].active, term' = term
  PROVE  AloneInv'
  <1>1. adm' = [adm EXCEPT ![r] = [pc |-> to, id |-> s, rows |-> {}]]
    BY DEF AdminCall, AdminStep
  <1>2. adm'[r].pc = to /\ adm'[r].id = s /\ \A q \in Requests \ {r} : adm'[q] = adm[q]
    BY <1>1 DEF SessionTypeOK
  <1>3. SUFFICES ASSUME ~ admOverlap' PROVE AloneInv'
    BY DEF AloneInv
  <1>4. ~ admOverlap /\ \A q \in Requests \ {r} : adm[q].pc = "idle"
    BY <1>3 DEF AdminCall, Meets
  <1>5. ActiveTerms' = ActiveTerms
    BY SameTermsSameActive
  <1>6. \A q, p \in Requests : adm'[q].pc # "idle" /\ adm'[p].pc # "idle" => q = p
    BY <1>2, <1>4
  <1>7. \A q \in Requests :
          /\ adm'[q].pc \in {"lock", "set"} => ActiveTerms' \subseteq adm'[q].rows
          /\ adm'[q].pc = "delete" => ~ term'[adm'[q].id].active
    BY <1>2, <1>4
  <1>8. QED
    BY <1>4, <1>5, <1>6, <1>7 DEF AloneInv

\* The request in flight ends, and leaves at most one session active, no deleted
\* one among them.
LEMMA AloneEnd ==
  ASSUME SessionTypeOK, AloneInv, NEW r \in Requests, adm[r].pc # "idle",
         adm' = [adm EXCEPT ![r] = IdleAdmin], admOverlap' = admOverlap,
         ~ admOverlap =>
           /\ \A s, t \in ActiveTerms' : s = t
           /\ \A s \in Sessions : term'[s].deleted => ~ term'[s].active
  PROVE  AloneInv'
  <1>1. SUFFICES ASSUME ~ admOverlap PROVE AloneInv'
    BY DEF AloneInv
  <1>2. \A q \in Requests : adm'[q].pc = "idle"
    <2>1. adm'[r].pc = "idle" /\ \A q \in Requests \ {r} : adm'[q] = adm[q]
      BY IdleAdminType DEF SessionTypeOK
    <2>2. QED
      BY <1>1, <2>1 DEF AloneInv
  <1>3. QED
    BY <1>1, <1>2 DEF AloneInv

\* Columns and rows that an UPDATE leaves behind, when nothing becomes active.
LEMMA AloneUpdate ==
  ASSUME SessionTypeOK, AloneInv, NEW r \in Requests, adm[r].pc # "idle",
         adm' = [adm EXCEPT ![r] = IdleAdmin], admOverlap' = admOverlap,
         NEW row \in Term, SetTerm(adm[r].id, row),
         row.active => adm[r].id \in ActiveTerms,
         row.active => ~ row.deleted
  PROVE  AloneInv'
  <1> DEFINE s == adm[r].id
  <1>1. s \in Sessions /\ ActiveTerms' \subseteq ActiveTerms
    BY AdminFields, RowShrinks
  <1>2. term'[s] = row /\ \A t \in Sessions \ {s} : term'[t] = term[t]
    BY <1>1 DEF SetTerm, SessionTypeOK
  <1>3. ~ admOverlap =>
          /\ \A t, u \in ActiveTerms' : t = u
          /\ \A t \in Sessions : term'[t].deleted => ~ term'[t].active
    BY <1>1, <1>2 DEF AloneInv
  <1>4. QED
    BY <1>3, AloneEnd

LEMMA AloneFirstUpdate ==
  ASSUME SessionTypeOK, AloneInv, NEW r \in Requests,
         DeactivateSnapshot(r) \/ DeactivateLock(r)
  PROVE  AloneInv'
  <1>1. term' = term /\ admOverlap' = admOverlap /\ ActiveTerms' = ActiveTerms
    BY SameTermsSameActive DEF DeactivateSnapshot, DeactivateLock
  <1>2. /\ adm[r].pc \in {"begin", "lock"} /\ adm'[r].pc \in {"lock", "set"}
        /\ adm'[r].rows = ActiveTerms \/ (adm[r].pc = "lock"
                                           /\ adm'[r].rows = adm[r].rows \cap ActiveTerms)
        /\ \A q \in Requests \ {r} : adm'[q] = adm[q]
    BY DEF DeactivateSnapshot, DeactivateLock, AdminStep, SessionTypeOK
  <1>3. SUFFICES ASSUME ~ admOverlap PROVE AloneInv'
    BY <1>1 DEF AloneInv
  <1>4. \A q, p \in Requests : adm'[q].pc # "idle" /\ adm'[p].pc # "idle" => q = p
    BY <1>2, <1>3 DEF AloneInv
  <1>5. \A q \in Requests :
          /\ adm'[q].pc \in {"lock", "set"} => ActiveTerms' \subseteq adm'[q].rows
          /\ adm'[q].pc = "delete" => ~ term'[adm'[q].id].active
    BY <1>1, <1>2, <1>3 DEF AloneInv
  <1>6. QED
    BY <1>1, <1>3, <1>4, <1>5 DEF AloneInv

LEMMA AloneSecondUpdate ==
  ASSUME SessionTypeOK, AloneInv, NEW r \in Requests, SetActive(r)
  PROVE  AloneInv'
  <1>1. /\ adm[r].pc = "set" /\ adm' = [adm EXCEPT ![r] = IdleAdmin]
        /\ admOverlap' = admOverlap
    BY DEF SetActive, AdminEnd
  <1>2. CASE ActiveTerms' = ActiveTerms /\ term' = term
    BY <1>1, <1>2, AloneEnd DEF AloneInv
  <1>3. CASE /\ adm[r].id \in LiveTerms
             /\ ActiveTerms' = (ActiveTerms \ adm[r].rows) \cup {adm[r].id}
             /\ \A t \in Sessions :
                  /\ term'[t].deleted = term[t].deleted
                  /\ term'[t].active <=>
                       t = adm[r].id \/ (term[t].active /\ t \notin adm[r].rows)
    <2>1. ~ term[adm[r].id].deleted
      BY <1>3 DEF LiveTerms
    <2>2. ~ admOverlap => ActiveTerms' = {adm[r].id}
      BY <1>1, <1>3 DEF AloneInv
    <2>3. ~ admOverlap =>
            /\ \A t, u \in ActiveTerms' : t = u
            /\ \A t \in Sessions : term'[t].deleted => ~ term'[t].active
      BY <1>3, <2>1, <2>2 DEF AloneInv
    <2>4. QED
      BY <1>1, <2>3, AloneEnd
  <1>4. QED
    BY <1>2, <1>3, AfterSetActive

LEMMA AloneInit == SessionInit => AloneInv
  <1> SUFFICES ASSUME SessionInit PROVE AloneInv
    OBVIOUS
  <1>1. ActiveTerms = {}
    BY DEF SessionInit, ActiveTerms, LiveTerms, NoTerm
  <1>2. \A r \in Requests : adm[r].pc = "idle"
    BY IdleAdminType DEF SessionInit
  <1>3. \A s \in Sessions : ~ term[s].deleted
    BY DEF SessionInit, NoTerm
  <1>4. QED
    BY <1>1, <1>2, <1>3 DEF AloneInv

LEMMA AloneStep == SessionTypeOK /\ AloneInv /\ [SessionNext]_sessionVars => AloneInv'
  <1> SUFFICES ASSUME SessionTypeOK, AloneInv, [SessionNext]_sessionVars
               PROVE  AloneInv'
    OBVIOUS
  <1>1. CASE UNCHANGED sessionVars
    BY <1>1, SameTermsSameActive DEF sessionVars, AloneInv
  <1>2. ASSUME NEW r \in Requests, NEW s \in Sessions,
               \/ Activate(r, s) \/ Deactivate(r, s)
               \/ DeleteSession(r, s) \/ ToggleCheck(r, s)
        PROVE  AloneInv'
    BY <1>2, AloneCall DEF Activate, Deactivate, DeleteSession, ToggleCheck
  <1>3. ASSUME NEW r \in Requests, NEW s \in Sessions, NEW admission \in BOOLEAN,
               CreateSession(r, s, admission)
        PROVE  AloneInv'
    <2>1. SUFFICES ASSUME ~ admOverlap' PROVE AloneInv'
      BY DEF AloneInv
    <2>2. ~ admOverlap /\ adm' = adm /\ \A q \in Requests : adm[q].pc = "idle"
      BY <1>3, <2>1 DEF CreateSession, Meets
    <2>3. LET row == [NoTerm EXCEPT !.there = TRUE, !.admission = admission] IN
          /\ SetTerm(s, row)
          /\ row.active = FALSE /\ row.deleted = FALSE
      BY <1>3 DEF CreateSession, NoTerm
    <2>4. ActiveTerms' \subseteq ActiveTerms
      BY <2>3, RowShrinks
    <2>5. \A t \in Sessions : term'[t].deleted => ~ term'[t].active
      BY <2>2, <2>3 DEF SetTerm, SessionTypeOK, AloneInv
    <2>6. QED
      BY <2>2, <2>4, <2>5 DEF AloneInv
  <1>4. ASSUME NEW r \in Requests, DeactivateSnapshot(r) \/ DeactivateLock(r)
        PROVE  AloneInv'
    BY <1>4, AloneFirstUpdate
  <1>5. ASSUME NEW r \in Requests, SetActive(r)
        PROVE  AloneInv'
    BY <1>5, AloneSecondUpdate
  <1>6. ASSUME NEW r \in Requests, adm[r].pc # "idle", term' = term,
               adm' = [adm EXCEPT ![r] = IdleAdmin], admOverlap' = admOverlap
        PROVE  AloneInv'
    BY <1>6, AloneEnd, SameTermsSameActive DEF AloneInv
  <1>7. ASSUME NEW r \in Requests, ActivateAborts(r)
        PROVE  AloneInv'
    BY <1>6, <1>7 DEF ActivateAborts, AdminEnd
  <1>8. ASSUME NEW r \in Requests, SetInactive(r)
        PROVE  AloneInv'
    <2> DEFINE row == [term[adm[r].id] EXCEPT !.active = FALSE]
    <2>1. row \in Term /\ row.active = FALSE
      <3>1. adm[r].id \in Sessions /\ term[adm[r].id] \in Term
        BY AdminFields DEF SessionTypeOK
      <3>2. row \in Term
        BY <3>1, ColumnType
      <3>3. row.active = FALSE
        BY <3>1 DEF Term
      <3>4. QED
        BY <3>1, <3>2, <3>3
    <2>2. /\ adm[r].pc # "idle" /\ adm' = [adm EXCEPT ![r] = IdleAdmin]
          /\ admOverlap' = admOverlap
          /\ term' = term \/ SetTerm(adm[r].id, row)
      BY <1>8 DEF SetInactive, AdminEnd
    <2> HIDE DEF row
    <2>3. QED
      BY <1>6, <2>1, <2>2, AloneUpdate
  <1>9. ASSUME NEW r \in Requests, SoftDeleteSession(r)
        PROVE  AloneInv'
    <2> DEFINE s == adm[r].id
               row == [term[s] EXCEPT !.deleted = TRUE]
    <2>1. row \in Term /\ row.active = term[s].active /\ s \in Sessions
      <3>1. s \in Sessions /\ term[s] \in Term
        BY AdminFields DEF SessionTypeOK
      <3>2. row \in Term
        BY <3>1, ColumnType
      <3>3. row.active = term[s].active
        BY <3>1 DEF Term
      <3>4. QED
        BY <3>1, <3>2, <3>3
    <2>2. /\ adm[r].pc = "delete" /\ adm' = [adm EXCEPT ![r] = IdleAdmin]
          /\ admOverlap' = admOverlap /\ SetTerm(s, row)
      BY <1>9 DEF SoftDeleteSession, AdminEnd
    <2> HIDE DEF row
    <2>3. SUFFICES ASSUME ~ admOverlap PROVE AloneInv'
      BY <2>2 DEF AloneInv
    <2>4. ~ row.active
      BY <2>1, <2>2, <2>3 DEF AloneInv
    <2>5. QED
      BY <2>1, <2>2, <2>4, AloneUpdate
  <1>10. ASSUME NEW r \in Requests, NEW on \in BOOLEAN, ToggleAdmissionTest(r, on)
         PROVE  AloneInv'
    <2> DEFINE s == adm[r].id
               row == [term[s] EXCEPT !.admission = on]
    <2>1. /\ row \in Term /\ row.active = term[s].active
          /\ row.deleted = term[s].deleted /\ s \in Sessions
      <3>1. s \in Sessions /\ term[s] \in Term
        BY AdminFields DEF SessionTypeOK
      <3>2. row \in Term
        BY <3>1, ColumnType
      <3>3. row.active = term[s].active /\ row.deleted = term[s].deleted
        BY <3>1 DEF Term
      <3>4. QED
        BY <3>1, <3>2, <3>3
    <2>2. /\ adm[r].pc # "idle" /\ adm' = [adm EXCEPT ![r] = IdleAdmin]
          /\ admOverlap' = admOverlap
          /\ term' = term \/ (SetTerm(s, row) /\ s \in LiveTerms)
      BY <1>10 DEF ToggleAdmissionTest, AdminEnd
    <2> HIDE DEF row
    <2>3. s \in LiveTerms => ~ row.deleted /\ (row.active => s \in ActiveTerms)
      BY <2>1 DEF LiveTerms, ActiveTerms
    <2>4. QED
      BY <1>6, <2>1, <2>2, <2>3, AloneUpdate
  <1>11. QED
    BY <1>1, <1>2, <1>3, <1>4, <1>5, <1>7, <1>8, <1>9, <1>10 DEF SessionNext

\* Requests that come one at a time, failing or not, leave at most one session
\* active, and never a deleted one.
THEOREM OneActiveAloneHolds == SessionSpec => []OneActiveAlone
  <1>1. AloneInv => OneActiveAlone
    <2> SUFFICES ASSUME AloneInv, ~ admOverlap
                 PROVE  /\ Cardinality(ActiveTerms) <= 1
                        /\ \A s \in Sessions : term[s].deleted => ~ term[s].active
      BY DEF OneActiveAlone
    <2>1. CASE ActiveTerms = {}
      BY <2>1, FS_EmptySet DEF AloneInv
    <2>2. CASE ActiveTerms # {}
      <3>1. PICK s \in ActiveTerms : TRUE
        BY <2>2
      <3>2. ActiveTerms = {s}
        BY <3>1 DEF AloneInv
      <3>3. Cardinality(ActiveTerms) = 1
        BY <3>2, FS_Singleton
      <3>4. QED
        BY <3>3 DEF AloneInv
    <2>3. QED
      BY <2>1, <2>2
  <1>2. QED
    BY <1>1, SessionTypeInit, SessionTypeStep, AloneInit, AloneStep, PTL DEF SessionSpec

-----------------------------------------------------------------------------
(* Exams and their results                                                 *)

\* The handlers that write marks, and where they have looked at the exam.
Writers == {"create", "bulk", "update", "remove"}

HasLooked(r) == entry[r].pc \in {"existing", "write"} /\ entry[r].op \in Writers

\* PublishedFrozen is about a step; what it rests on is about a state: a request
\* that has found the exam open, and may still write, is one of those that the
\* publication has met.
WritersAreEarly == Published => \A r \in Requests : HasLooked(r) => r \in early

-----------------------------------------------------------------------------
LEMMA GradeType ==
  ASSUME NEW m
  PROVE  CalculateGrade(m) \in {"A+", "A", "A-", "B", "C", "D", "F"}
  BY DEF CalculateGrade

LEMMA MarkedType ==
  ASSUME NEW m \in MarkSet \cup {0}
  PROVE  Marked(m) \in ResultRow /\ Marked(m).row = "live"
  BY GradeType DEF Marked, ResultRow

LEMMA NoEntryType == NoEntry \in Entry /\ NoEntry.pc = "idle"
  BY DEF NoEntry, Entry

LEMMA ExamTypeInit == ExamInit => ExamTypeOK
  <1> SUFFICES ASSUME ExamInit PROVE ExamTypeOK
    OBVIOUS
  <1>1. exam \in ExamRow
    BY DEF ExamInit, ExamRow, ExamStatuses
  <1>2. NoResult \in ResultRow
    BY DEF NoResult, ResultRow
  <1>3. results \in [Pairs -> ResultRow]
    BY <1>2 DEF ExamInit
  <1>4. entry \in [Requests -> Entry]
    BY NoEntryType DEF ExamInit
  <1>5. QED
    BY <1>1, <1>3, <1>4 DEF ExamInit, ExamTypeOK

LEMMA EntryType ==
  ASSUME ExamTypeOK, NEW r \in Requests
  PROVE  entry[r].on \in SUBSET Pairs /\ entry[r].marks \in MarkSet \cup {0}
  BY DEF ExamTypeOK, Entry

\* The shapes of a step: a handler begins, goes on, and is over.
LEMMA BeginStep ==
  ASSUME ExamTypeOK, NEW r \in Requests, NEW pc, NEW op, NEW on, NEW m,
         [pc |-> pc, op |-> op, on |-> on, marks |-> m] \in Entry, pc # "idle",
         BeginEntry(r, pc, op, on, m)
  PROVE  /\ ExamTypeOK'
         /\ entry[r].pc = "idle" /\ entry'[r].pc = pc /\ entry'[r].op = op
         /\ \A q \in Requests \ {r} : entry'[q] = entry[q]
  <1>1. /\ entry' = [entry EXCEPT ![r] = [pc |-> pc, op |-> op, on |-> on, marks |-> m]]
        /\ entry \in [Requests -> Entry] /\ entry[r].pc = "idle"
    BY DEF BeginEntry, ExamTypeOK
  <1>2. entry' \in [Requests -> Entry]
    BY <1>1
  <1>3. /\ entry'[r].pc = pc /\ entry'[r].op = op
        /\ \A q \in Requests \ {r} : entry'[q] = entry[q]
    BY <1>1
  <1>4. early' \subseteq {q \in Requests : entry'[q].pc # "idle"}
    BY <1>1, <1>3 DEF BeginEntry, ExamTypeOK
  <1>5. examOverlap' \in BOOLEAN
    BY DEF BeginEntry, ExamTypeOK, Meets
  <1>6. exam' \in ExamRow /\ results' \in [Pairs -> ResultRow]
    BY DEF BeginEntry, ExamTypeOK
  <1>7. ExamTypeOK'
    BY <1>2, <1>4, <1>5, <1>6 DEF ExamTypeOK
  <1>8. QED
    BY <1>1, <1>3, <1>7

LEMMA GoStep ==
  ASSUME ExamTypeOK, NEW r \in Requests, NEW pc \in {"existing", "results", "write"},
         EntryGoes(r, pc), UNCHANGED <<exam, results, examOverlap, early>>
  PROVE  /\ ExamTypeOK'
         /\ entry'[r].pc = pc /\ entry'[r].op = entry[r].op
         /\ \A q \in Requests \ {r} : entry'[q] = entry[q]
  <1>1. entry' = [entry EXCEPT ![r] = [entry[r] EXCEPT !.pc = pc]]
        /\ entry \in [Requests -> Entry]
    BY DEF EntryGoes, ExamTypeOK
  <1>2. [entry[r] EXCEPT !.pc = pc] \in Entry
    BY <1>1 DEF Entry
  <1>3. entry' \in [Requests -> Entry]
    BY <1>1, <1>2
  <1>4. /\ entry'[r].pc = pc /\ entry'[r].op = entry[r].op
        /\ \A q \in Requests \ {r} : entry'[q] = entry[q]
    BY <1>1 DEF Entry
  <1>5. early' \subseteq {q \in Requests : entry'[q].pc # "idle"}
    BY <1>4 DEF ExamTypeOK
  <1>6. ExamTypeOK'
    BY <1>3, <1>5 DEF ExamTypeOK
  <1>7. QED
    BY <1>4, <1>6

LEMMA OverStep ==
  ASSUME ExamTypeOK, NEW r \in Requests, EntryOver(r),
         exam' \in ExamRow, results' \in [Pairs -> ResultRow],
         early' \subseteq {q \in Requests \ {r} : entry[q].pc # "idle"}
  PROVE  /\ ExamTypeOK'
         /\ entry'[r].pc = "idle"
         /\ \A q \in Requests \ {r} : entry'[q] = entry[q]
  <1>1. entry' = [entry EXCEPT ![r] = NoEntry] /\ entry \in [Requests -> Entry]
    BY DEF EntryOver, ExamTypeOK
  <1>2. entry' \in [Requests -> Entry]
    BY <1>1, NoEntryType
  <1>3. entry'[r].pc = "idle" /\ \A q \in Requests \ {r} : entry'[q] = entry[q]
    BY <1>1, NoEntryType
  <1>4. early' \subseteq {q \in Requests : entry'[q].pc # "idle"}
    BY <1>3
  <1>5. ExamTypeOK'
    BY <1>2, <1>4 DEF ExamTypeOK, EntryOver
  <1>6. QED
    BY <1>3, <1>5

LEMMA EndStep ==
  ASSUME ExamTypeOK, NEW r \in Requests, EntryEnds(r),
         exam' \in ExamRow, results' \in [Pairs -> ResultRow]
  PROVE  /\ ExamTypeOK' /\ EntryOver(r) /\ early' = early \ {r}
         /\ entry'[r].pc = "idle"
         /\ \A q \in Requests \ {r} : entry'[q] = entry[q]
  <1>1. EntryOver(r) /\ early' = early \ {r}
    BY DEF EntryEnds
  <1>2. early' \subseteq {q \in Requests \ {r} : entry[q].pc # "idle"}
    BY <1>1 DEF ExamTypeOK
  <1>3. QED
    BY <1>1, <1>2, OverStep

-----------------------------------------------------------------------------
(* The steps of ExamNext in three kinds                                    *)

\* Handlers begin by looking; those that write marks look at the exam, or at a
\* live row of the pair.
EntryBegins(r) ==
  \/ \E p \in Pairs, m \in MarkSet : CreateResult(r, p, m) \/ UpdateResult(r, p, m)
  \/ \E on \in (SUBSET Pairs) \ {{}}, m \in MarkSet : BulkCreateResults(r, on, m)
  \/ \E p \in Pairs : RemoveResult(r, p)
  \/ UpdateExam(r) \/ PublishExam(r) \/ UnpublishExam(r) \/ DeleteExam(r)

\* What holds when the handler begins.
Opening(r) ==
  LET pc == entry'[r].pc
      op == entry'[r].op IN
  \/ /\ op \in {"create", "bulk"} /\ pc \in {"existing", "write"} /\ Draft
  \/ /\ op \in {"update", "remove"} /\ pc = "exam" /\ HasResults
  \/ /\ op \in {"patch", "unpublish"} /\ pc = "write"
  \/ /\ op \in {"publish", "delete"} /\ pc = "results"

LEMMA BeginsStep ==
  ASSUME ExamTypeOK, NEW r \in Requests, EntryBegins(r)
  PROVE  /\ ExamTypeOK' /\ Opening(r)
         /\ UNCHANGED <<exam, results, early>>
         /\ examOverlap' = (examOverlap \/ Meets(entry, r))
         /\ entry[r].pc = "idle"
         /\ \A q \in Requests \ {r} : entry'[q] = entry[q]
  <1>1. ASSUME NEW pc \in {"exam", "existing", "results", "write"},
               NEW op \in {"create", "update", "remove", "bulk", "patch",
                           "publish", "unpublish", "delete"},
               NEW on \in SUBSET Pairs, NEW m \in MarkSet \cup {0},
               BeginEntry(r, pc, op, on, m),
               \/ op \in {"create", "bulk"} /\ pc \in {"existing", "write"} /\ Draft
               \/ op \in {"update", "remove"} /\ pc = "exam" /\ HasResults
               \/ op \in {"patch", "unpublish"} /\ pc = "write"
               \/ op \in {"publish", "delete"} /\ pc = "results"
        PROVE  /\ ExamTypeOK' /\ Opening(r)
               /\ UNCHANGED <<exam, results, early>>
               /\ examOverlap' = (examOverlap \/ Meets(entry, r))
               /\ entry[r].pc = "idle"
               /\ \A q \in Requests \ {r} : entry'[q] = entry[q]
    <2>1. /\ ExamTypeOK'
          /\ entry[r].pc = "idle" /\ entry'[r].pc = pc /\ entry'[r].op = op
          /\ \A q \in Requests \ {r} : entry'[q] = entry[q]
      <3>1. [pc |-> pc, op |-> op, on |-> on, marks |-> m] \in Entry /\ pc # "idle"
        BY DEF Entry
      <3>2. BeginEntry(r, pc, op, on, m)
        BY <1>1
      <3>3. QED
        BY <3>1, <3>2, BeginStep
    <2>2. Opening(r)
      BY <1>1, <2>1 DEF Opening
    <2>3. UNCHANGED <<exam, results, early>>
          /\ examOverlap' = (examOverlap \/ Meets(entry, r))
      BY <1>1 DEF BeginEntry
    <2>4. QED
      BY <2>1, <2>2, <2>3
  <1>2. CASE \E p \in Pairs, m \in MarkSet : CreateResult(r, p, m)
    BY <1>1, <1>2 DEF CreateResult
  <1>3. CASE \E p \in Pairs, m \in MarkSet : UpdateResult(r, p, m)
    BY <1>1, <1>3 DEF UpdateResult, HasResults
  <1>4. CASE \E on \in (SUBSET Pairs) \ {{}}, m \in MarkSet : BulkCreateResults(r, on, m)
    BY <1>1, <1>4 DEF BulkCreateResults
  <1>5. CASE \E p \in Pairs : RemoveResult(r, p)
    BY <1>1, <1>5 DEF RemoveResult, HasResults
  <1>6. CASE UpdateExam(r) \/ UnpublishExam(r)
    BY <1>1, <1>6 DEF UpdateExam, UnpublishExam
  <1>7. CASE PublishExam(r) \/ DeleteExam(r)
    BY <1>1, <1>7 DEF PublishExam, DeleteExam
  <1>8. QED
    BY <1>2, <1>3, <1>4, <1>5, <1>6, <1>7 DEF EntryBegins

\* Handlers that look once more before they write.
LEMMA LooksStep ==
  ASSUME ExamTypeOK, NEW r \in Requests,
         FindExisting(r) \/ FindResultExam(r) \/ CountResults(r)
  PROVE  /\ ExamTypeOK' /\ UNCHANGED <<exam, results, examOverlap, early>>
         /\ entry'[r].pc = "write" /\ entry'[r].op = entry[r].op
         /\ \/ entry[r].pc = "existing" /\ entry[r].op = "create"
            \/ entry[r].pc = "exam" /\ ~ Published
            \/ entry[r].pc = "results" /\ (HasResults <=> entry[r].op = "publish")
         /\ \A q \in Requests \ {r} : entry'[q] = entry[q]
  <1>1. EntryGoes(r, "write") /\ UNCHANGED <<exam, results, examOverlap, early>>
    BY DEF FindExisting, FindResultExam, CountResults
  <1>2. \/ entry[r].pc = "existing" /\ entry[r].op = "create"
        \/ entry[r].pc = "exam" /\ ~ Published
        \/ entry[r].pc = "results" /\ (HasResults <=> entry[r].op = "publish")
    BY DEF FindExisting, FindResultExam, CountResults, EntryAt
  <1>3. QED
    BY <1>1, <1>2, GoStep

\* Handlers that write marks.
WritesMarks(r) ==
  InsertResult(r) \/ UpsertResults(r) \/ WriteMarks(r) \/ SoftDeleteResult(r)

LEMMA WritesStep ==
  ASSUME ExamTypeOK, NEW r \in Requests, WritesMarks(r)
  PROVE  /\ ExamTypeOK' /\ HasLooked(r) /\ entry[r].pc = "write" /\ exam' = exam
         /\ examOverlap' = examOverlap /\ early' = early \ {r}
         /\ entry'[r].pc = "idle" /\ \A q \in Requests \ {r} : entry'[q] = entry[q]
  <1>1. EntryEnds(r) /\ exam' = exam /\ entry[r].pc = "write" /\ entry[r].op \in Writers
    BY DEF WritesMarks, InsertResult, UpsertResults, WriteMarks, SoftDeleteResult,
           EntryAt, Writers
  <1>2. Marked(entry[r].marks) \in ResultRow
    BY EntryType, MarkedType
  <1>3. \A p \in Pairs :
          results[p] \in ResultRow /\ [results[p] EXCEPT !.row = "deleted"] \in ResultRow
    BY DEF ExamTypeOK, ResultRow
  <1>4. results' \in [Pairs -> ResultRow]
    BY <1>2, <1>3
    DEF WritesMarks, InsertResult, UpsertResults, WriteMarks, SoftDeleteResult
  <1>5. exam' \in ExamRow
    BY <1>1 DEF ExamTypeOK
  <1>6. QED
    BY <1>1, <1>4, <1>5, EndStep DEF HasLooked, EntryOver

\* Handlers that change the exam, and those that give up.
LEMMA StatusStep ==
  ASSUME ExamTypeOK, NEW r \in Requests, SetExamStatus(r)
  PROVE  /\ ExamTypeOK' /\ results' = results /\ examOverlap' = examOverlap
         /\ entry[r].pc = "write" /\ entry[r].op \in {"publish", "unpublish"}
         /\ exam'.deleted = exam.deleted
         /\ entry[r].op = "unpublish" => ~ Published'
         /\ early' = {q \in Requests \ {r} :
                        entry[q].pc # "idle" /\ (entry[r].op = "publish" \/ q \in early)}
         /\ entry'[r].pc = "idle" /\ \A q \in Requests \ {r} : entry'[q] = entry[q]
  <1>1. /\ EntryOver(r) /\ results' = results
        /\ entry[r].pc = "write" /\ entry[r].op \in {"publish", "unpublish"}
        /\ early' = {q \in Requests \ {r} :
                       entry[q].pc # "idle" /\ (entry[r].op = "publish" \/ q \in early)}
    BY DEF SetExamStatus
  <1> DEFINE status == IF entry[r].op = "publish" THEN "PUBLISHED" ELSE "DRAFT"
  <1>2. exam' = IF exam.deleted THEN exam ELSE [exam EXCEPT !.status = status]
    BY DEF SetExamStatus
  <1>3. status \in {"PUBLISHED", "DRAFT"} /\ (entry[r].op = "unpublish" => status = "DRAFT")
    OBVIOUS
  <1> HIDE DEF status
  <1>4. /\ exam' \in ExamRow /\ exam'.deleted = exam.deleted
        /\ exam.deleted \/ exam'.status = status
    BY <1>2, <1>3 DEF ExamTypeOK, ExamRow, ExamStatuses
  <1>5. results' \in [Pairs -> ResultRow]
    BY <1>1 DEF ExamTypeOK
  <1>6. /\ ExamTypeOK'
        /\ entry'[r].pc = "idle" /\ \A q \in Requests \ {r} : entry'[q] = entry[q]
    BY <1>1, <1>4, <1>5, OverStep
  <1>7. entry[r].op = "unpublish" => ~ Published'
    BY <1>3, <1>4 DEF Published
  <1>8. QED
    BY <1>1, <1>4, <1>6, <1>7 DEF EntryOver

LEMMA OtherEnds ==
  ASSUME ExamTypeOK, NEW r \in Requests,
         PatchExam(r) \/ SoftDeleteExam(r) \/ EntryAborts(r)
  PROVE  /\ ExamTypeOK' /\ results' = results /\ examOverlap' = examOverlap
         /\ early' = early \ {r}
         /\ exam'.status = exam.status
         /\ \/ exam'.deleted = exam.deleted
            \/ exam'.deleted /\ entry[r].pc = "write" /\ entry[r].op = "delete"
         /\ entry[r].pc # "idle"
         /\ entry'[r].pc = "idle" /\ \A q \in Requests \ {r} : entry'[q] = entry[q]
  <1>1. EntryEnds(r) /\ results' = results /\ entry[r].pc # "idle"
    BY DEF PatchExam, SoftDeleteExam, EntryAborts, EntryAt
  <1>2. /\ exam' \in ExamRow /\ exam'.status = exam.status
        /\ \/ exam'.deleted = exam.deleted
           \/ exam'.deleted /\ entry[r].pc = "write" /\ entry[r].op = "delete"
    <2>1. CASE PatchExam(r)
      BY <2>1 DEF PatchExam, ExamTypeOK, ExamRow
    <2>2. CASE SoftDeleteExam(r)
      BY <2>2 DEF SoftDeleteExam, EntryAt, ExamTypeOK, ExamRow
    <2>3. CASE EntryAborts(r)
      BY <2>3 DEF EntryAborts, ExamTypeOK
    <2>4. QED
      BY <2>1, <2>2, <2>3
  <1>3. results' \in [Pairs -> ResultRow]
    BY <1>1 DEF ExamTypeOK
  <1>4. QED
    BY <1>1, <1>2, <1>3, EndStep DEF EntryOver

LEMMA StepKinds ==
  ASSUME ExamNext
  PROVE  \E r \in Requests :
           \/ EntryBegins(r)
           \/ FindExisting(r) \/ FindResultExam(r) \/ CountResults(r)
           \/ WritesMarks(r)
           \/ SetExamStatus(r)
           \/ PatchExam(r) \/ SoftDeleteExam(r) \/ EntryAborts(r)
  BY DEF ExamNext, EntryBegins, WritesMarks

LEMMA ExamTypeStep == ExamTypeOK /\ [ExamNext]_examVars => ExamTypeOK'
  <1> SUFFICES ASSUME ExamTypeOK, [ExamNext]_examVars PROVE ExamTypeOK'
    OBVIOUS
  <1>1. CASE UNCHANGED examVars
    BY <1>1 DEF examVars, ExamTypeOK
  <1>2. CASE ExamNext
    BY <1>2, StepKinds, BeginsStep, LooksStep, WritesStep, StatusStep, OtherEnds
  <1>3. QED
    BY <1>1, <1>2

\* Type correctness; nobody counts as early who is not in flight any more.
THEOREM ExamTypeCorrect == ExamSpec => []ExamTypeOK
  BY ExamTypeInit, ExamTypeStep, PTL DEF ExamSpec

-----------------------------------------------------------------------------
(* Marks after a publication                                               *)

\* Which handlers have which statement before them.
EntrySteps ==
  \A r \in Requests :
    /\ entry[r].pc = "exam" => entry[r].op \in {"update", "remove"}
    /\ entry[r].pc = "results" => entry[r].op \in {"publish", "delete"}

LEMMA EntryStepsInit == ExamInit => EntrySteps
  BY NoEntryType DEF ExamInit, EntrySteps

LEMMA EntryStepsStep == ExamTypeOK /\ EntrySteps /\ [ExamNext]_examVars => EntrySteps'
  <1> SUFFICES ASSUME ExamTypeOK, EntrySteps, [ExamNext]_examVars PROVE EntrySteps'
    OBVIOUS
  <1>1. CASE UNCHANGED examVars
    BY <1>1 DEF examVars, EntrySteps
  <1>2. ASSUME NEW r \in Requests, EntryBegins(r)
        PROVE  EntrySteps'
    BY <1>2, BeginsStep DEF EntrySteps, Opening
  <1>3. ASSUME NEW r \in Requests, entry'[r].pc \in {"write", "idle"},
               \A q \in Requests \ {r} : entry'[q] = entry[q]
        PROVE  EntrySteps'
    BY <1>3 DEF EntrySteps
  <1>4. QED
    BY <1>1, <1>2, <1>3, StepKinds, LooksStep, WritesStep, StatusStep, OtherEnds

LEMMA EarlyInit == ExamInit => WritersAreEarly
  BY DEF ExamInit, WritersAreEarly, Published

\* Once a handler has ended, what it had looked at no longer matters.
LEMMA IdleHasNotLooked ==
  ASSUME NEW r, entry'[r].pc = "idle"
  PROVE  ~ HasLooked(r)'
  BY DEF HasLooked

LEMMA EarlyStep ==
  ExamTypeOK /\ EntrySteps /\ WritersAreEarly /\ [ExamNext]_examVars => WritersAreEarly'
  <1> SUFFICES ASSUME ExamTypeOK, EntrySteps, WritersAreEarly, [ExamNext]_examVars
               PROVE  WritersAreEarly'
    OBVIOUS
  <1>1. CASE UNCHANGED examVars
    BY <1>1 DEF examVars, WritersAreEarly, Published, HasLooked
  <1>2. ASSUME NEW r \in Requests, EntryBegins(r)
        PROVE  WritersAreEarly'
    <2>1. /\ Opening(r) /\ exam' = exam /\ early' = early
          /\ \A q \in Requests \ {r} : entry'[q] = entry[q]
      BY <1>2, BeginsStep
    <2>2. Published => ~ HasLooked(r)'
      BY <2>1 DEF Opening, Draft, Published, HasLooked, Writers
    <2>3. QED
      BY <2>1, <2>2 DEF WritersAreEarly, Published, HasLooked
  <1>3. ASSUME NEW r \in Requests, FindExisting(r) \/ FindResultExam(r) \/ CountResults(r)
        PROVE  WritersAreEarly'
    <2>1. /\ exam' = exam /\ early' = early
          /\ entry'[r].op = entry[r].op
          /\ \/ entry[r].pc = "existing" /\ entry[r].op = "create"
             \/ entry[r].pc = "exam" /\ ~ Published
             \/ entry[r].pc = "results"
          /\ \A q \in Requests \ {r} : entry'[q] = entry[q]
      BY <1>3, LooksStep
    <2>2. CASE entry[r].pc = "results"
      <3>1. entry[r].op \in {"publish", "delete"}
        BY <2>2 DEF EntrySteps
      <3>2. QED
        BY <2>1, <3>1 DEF WritersAreEarly, Published, HasLooked, Writers
    <2>3. CASE entry[r].pc # "results"
      BY <2>1, <2>3 DEF WritersAreEarly, Published, HasLooked, Writers
    <2>4. QED
      BY <2>2, <2>3
  <1>4. ASSUME NEW r \in Requests, WritesMarks(r)
        PROVE  WritersAreEarly'
    <2>1. /\ exam' = exam /\ early' = early \ {r} /\ entry'[r].pc = "idle"
          /\ \A q \in Requests \ {r} : entry'[q] = entry[q]
      BY <1>4, WritesStep
    <2>2. QED
      BY <2>1, IdleHasNotLooked DEF WritersAreEarly, Published, HasLooked
  <1>5. ASSUME NEW r \in Requests, SetExamStatus(r)
        PROVE  WritersAreEarly'
    <2>1. /\ entry[r].op \in {"publish", "unpublish"}
          /\ entry[r].op = "unpublish" => ~ Published'
          /\ early' = {q \in Requests \ {r} :
                         entry[q].pc # "idle" /\ (entry[r].op = "publish" \/ q \in early)}
          /\ entry'[r].pc = "idle" /\ \A q \in Requests \ {r} : entry'[q] = entry[q]
      BY <1>5, StatusStep
    <2>2. QED
      BY <2>1 DEF WritersAreEarly, HasLooked
  <1>6. ASSUME NEW r \in Requests, PatchExam(r) \/ SoftDeleteExam(r) \/ EntryAborts(r)
        PROVE  WritersAreEarly'
    <2>1. /\ exam'.status = exam.status /\ (exam'.deleted = exam.deleted \/ exam'.deleted)
          /\ early' = early \ {r} /\ entry'[r].pc = "idle"
          /\ \A q \in Requests \ {r} : entry'[q] = entry[q]
      BY <1>6, OtherEnds
    <2>2. QED
      BY <2>1, IdleHasNotLooked DEF WritersAreEarly, Published, HasLooked
  <1>7. QED
    BY <1>1, <1>2, <1>3, <1>4, <1>5, <1>6, StepKinds

\* The marks of a published exam move only while a request that the publication
\* has met is still in flight.
THEOREM PublishedFrozenHolds == ExamSpec => PublishedFrozen
  <1> DEFINE Inv == ExamTypeOK /\ EntrySteps /\ WritersAreEarly
  <1>1. ExamInit => Inv
    BY ExamTypeInit, EntryStepsInit, EarlyInit
  <1>2. Inv /\ [ExamNext]_examVars => Inv'
    BY ExamTypeStep, EntryStepsStep, EarlyStep
  <1>3. Inv /\ [ExamNext]_examVars =>
          [Published /\ results' # results => early # {}]_examVars
    <2> SUFFICES ASSUME ExamTypeOK, WritersAreEarly, [ExamNext]_examVars,
                        Published, results' # results
                 PROVE  early # {}
      OBVIOUS
    <2>1. ExamNext
      BY DEF examVars
    <2>2. PICK r \in Requests : WritesMarks(r)
      BY <2>1, StepKinds, BeginsStep, LooksStep, StatusStep, OtherEnds
    <2>3. HasLooked(r)
      BY <2>2, WritesStep
    <2>4. QED
      BY <2>3 DEF WritersAreEarly
  <1> HIDE DEF Inv
  <1>4. QED
    BY <1>1, <1>2, <1>3, PTL DEF ExamSpec, PublishedFrozen

-----------------------------------------------------------------------------
(* Requests one at a time                                                  *)

\* What the request in flight has seen is still so: the exam open for those that
\* write marks, marks for one that publishes, none for one that deletes.
SeenStill ==
  \A r \in Requests :
    /\ entry[r].op \in {"create", "bulk"} /\ entry[r].pc # "idle" => Draft
    /\ entry[r].op \in {"update", "remove"} /\ entry[r].pc # "idle" => HasResults
    /\ entry[r].op = "remove" /\ entry[r].pc = "write" => ~ Published
    /\ entry[r].op = "publish" /\ entry[r].pc = "write" => HasResults
    /\ entry[r].op = "delete" /\ entry[r].pc = "write" => ~ HasResults

ExamFollows == (Published => HasResults) /\ (exam.deleted => ~ HasResults)

OneEntry == \A r, q \in Requests : entry[r].pc # "idle" /\ entry[q].pc # "idle" => r = q

FollowInv == ~ examOverlap => OneEntry /\ SeenStill /\ ExamFollows

LEMMA FollowInit == ExamInit => FollowInv
  <1> SUFFICES ASSUME ExamInit PROVE FollowInv
    OBVIOUS
  <1>1. \A r \in Requests : entry[r].pc = "idle"
    BY NoEntryType DEF ExamInit
  <1>2. ExamFollows
    BY DEF ExamInit, ExamFollows, Published
  <1>3. QED
    BY <1>1, <1>2 DEF FollowInv, OneEntry, SeenStill

\* When the only request in flight has ended, nothing it has seen matters.
LEMMA AllIdle ==
  ASSUME OneEntry, NEW r \in Requests, entry[r].pc # "idle", entry'[r].pc = "idle",
         \A q \in Requests \ {r} : entry'[q] = entry[q], ExamFollows'
  PROVE  OneEntry' /\ SeenStill' /\ ExamFollows'
  <1>1. \A q \in Requests : entry'[q].pc = "idle"
    BY DEF OneEntry
  <1>2. QED
    BY <1>1 DEF OneEntry, SeenStill

LEMMA SameExam ==
  ASSUME exam' = exam, results' = results
  PROVE  /\ Published' = Published /\ Draft' = Draft /\ HasResults' = HasResults
         /\ ExamFollows' = ExamFollows
  BY DEF Published, Draft, HasResults, ExamFollows

\* Marks that are written: only a removal takes one away.
LEMMA MarksWritten ==
  ASSUME ExamTypeOK, OneEntry, SeenStill, ExamFollows, NEW r \in Requests, WritesMarks(r)
  PROVE  ExamFollows'
  <1>1. /\ HasLooked(r) /\ entry[r].pc = "write" /\ exam' = exam
    BY WritesStep
  <1>2. ~ exam.deleted
    BY <1>1 DEF HasLooked, Writers, SeenStill, Draft, ExamFollows
  <1>3. CASE entry[r].op = "remove"
    BY <1>1, <1>2, <1>3 DEF SeenStill, ExamFollows, Published
  <1>4. CASE entry[r].op # "remove"
    <2>1. InsertResult(r) \/ UpsertResults(r) \/ WriteMarks(r)
      BY <1>4 DEF WritesMarks, SoftDeleteResult, EntryAt
    <2>2. entry[r].marks \in MarkSet \cup {0}
      BY EntryType
    <2>3. Marked(entry[r].marks).row = "live"
      BY <2>2, MarkedType
    <2>4. \A p \in Pairs : results[p].row = "live" => results'[p].row = "live"
      BY <2>1, <2>3 DEF InsertResult, UpsertResults, WriteMarks
    <2>5. HasResults => HasResults'
      BY <2>4 DEF HasResults
    <2>6. QED
      BY <1>1, <1>2, <2>5 DEF ExamFollows, Published
  <1>5. QED
    BY <1>3, <1>4

LEMMA FollowStep ==
  ExamTypeOK /\ EntrySteps /\ FollowInv /\ [ExamNext]_examVars => FollowInv'
  <1> SUFFICES ASSUME ExamTypeOK, EntrySteps, FollowInv, [ExamNext]_examVars
               PROVE  FollowInv'
    OBVIOUS
  <1>1. CASE UNCHANGED examVars
    BY <1>1, SameExam DEF examVars, FollowInv, OneEntry, SeenStill
  <1>2. ASSUME NEW r \in Requests, EntryBegins(r)
        PROVE  FollowInv'
    <2>1. /\ Opening(r) /\ exam' = exam /\ results' = results
          /\ examOverlap' = (examOverlap \/ Meets(entry, r))
          /\ entry[r].pc = "idle"
          /\ \A q \in Requests \ {r} : entry'[q] = entry[q]
      BY <1>2, BeginsStep
    <2>2. SUFFICES ASSUME ~ examOverlap, ~ Meets(entry, r) PROVE FollowInv'
      BY <2>1 DEF FollowInv
    <2>3. \A q \in Requests \ {r} : entry'[q].pc = "idle"
      BY <2>1, <2>2 DEF Meets
    <2>4. OneEntry'
      BY <2>3 DEF OneEntry
    <2>5. SeenStill'
      BY <2>1, <2>3, SameExam DEF SeenStill, Opening
    <2>6. QED
      BY <2>1, <2>2, <2>4, <2>5, SameExam DEF FollowInv
  <1>3. ASSUME NEW r \in Requests, FindExisting(r) \/ FindResultExam(r) \/ CountResults(r)
        PROVE  FollowInv'
    <2>1. /\ exam' = exam /\ results' = results /\ examOverlap' = examOverlap
          /\ entry'[r].op = entry[r].op /\ entry'[r].pc = "write"
          /\ \/ entry[r].pc = "existing" /\ entry[r].op = "create"
             \/ entry[r].pc = "exam" /\ ~ Published
             \/ entry[r].pc = "results" /\ (HasResults <=> entry[r].op = "publish")
          /\ \A q \in Requests \ {r} : entry'[q] = entry[q]
      BY <1>3, LooksStep
    <2>2. SUFFICES ASSUME ~ examOverlap PROVE FollowInv'
      BY <2>1 DEF FollowInv
    <2>3. OneEntry /\ SeenStill /\ ExamFollows
      BY <2>2 DEF FollowInv
    <2>4. OneEntry'
      BY <2>1, <2>3 DEF OneEntry
    <2>5. SeenStill'
      BY <2>1, <2>3, SameExam DEF SeenStill, EntrySteps
    <2>6. QED
      BY <2>1, <2>2, <2>3, <2>4, <2>5, SameExam DEF FollowInv
  <1>4. ASSUME NEW r \in Requests, WritesMarks(r)
        PROVE  FollowInv'
    <2>1. /\ entry[r].pc = "write" /\ entry'[r].pc = "idle" /\ examOverlap' = examOverlap
          /\ \A q \in Requests \ {r} : entry'[q] = entry[q]
      BY <1>4, WritesStep
    <2>2. SUFFICES ASSUME ~ examOverlap PROVE FollowInv'
      BY <2>1 DEF FollowInv
    <2>3. OneEntry /\ SeenStill /\ ExamFollows
      BY <2>2 DEF FollowInv
    <2>4. ExamFollows'
      BY <1>4, <2>3, MarksWritten
    <2>5. QED
      BY <2>1, <2>3, <2>4, AllIdle DEF FollowInv
  <1>5. ASSUME NEW r \in Requests, SetExamStatus(r)
        PROVE  FollowInv'
    <2>1. /\ results' = results /\ examOverlap' = examOverlap
          /\ entry[r].pc = "write" /\ entry[r].op \in {"publish", "unpublish"}
          /\ exam'.deleted = exam.deleted
          /\ entry[r].op = "unpublish" => ~ Published'
          /\ entry'[r].pc = "idle" /\ \A q \in Requests \ {r} : entry'[q] = entry[q]
      BY <1>5, StatusStep
    <2>2. SUFFICES ASSUME ~ examOverlap PROVE FollowInv'
      BY <2>1 DEF FollowInv
    <2>3. OneEntry /\ SeenStill /\ ExamFollows
      BY <2>2 DEF FollowInv
    <2>4. HasResults' = HasResults /\ (entry[r].op = "publish" => HasResults)
      BY <2>1, <2>3 DEF HasResults, SeenStill
    <2>5. ExamFollows'
      BY <2>1, <2>3, <2>4 DEF ExamFollows
    <2>6. QED
      BY <2>1, <2>3, <2>5, AllIdle DEF FollowInv
  <1>6. ASSUME NEW r \in Requests, PatchExam(r) \/ SoftDeleteExam(r) \/ EntryAborts(r)
        PROVE  FollowInv'
    <2>1. /\ results' = results /\ examOverlap' = examOverlap
          /\ exam'.status = exam.status
          /\ \/ exam'.deleted = exam.deleted
             \/ exam'.deleted /\ entry[r].pc = "write" /\ entry[r].op = "delete"
          /\ entry[r].pc # "idle"
          /\ entry'[r].pc = "idle" /\ \A q \in Requests \ {r} : entry'[q] = entry[q]
      BY <1>6, OtherEnds
    <2>2. SUFFICES ASSUME ~ examOverlap PROVE FollowInv'
      BY <2>1 DEF FollowInv
    <2>3. OneEntry /\ SeenStill /\ ExamFollows
      BY <2>2 DEF FollowInv
    <2>4. HasResults' = HasResults
      BY <2>1 DEF HasResults
    <2>5. ExamFollows'
      BY <2>1, <2>3, <2>4 DEF ExamFollows, Published, SeenStill
    <2>6. QED
      BY <2>1, <2>3, <2>5, AllIdle DEF FollowInv
  <1>7. QED
    BY <1>1, <1>2, <1>3, <1>4, <1>5, <1>6, StepKinds

\* Requests that come one at a time, failing or not, leave no published exam
\* without marks and no deleted exam with some.
THEOREM ResultsFollowExamHolds == ExamSpec => []ResultsFollowExam
  <1>1. FollowInv => ResultsFollowExam
    BY DEF FollowInv, ExamFollows, ResultsFollowExam
  <1>2. QED
    BY <1>1, ExamTypeInit, ExamTypeStep, EntryStepsInit, EntryStepsStep,
       FollowInit, FollowStep, PTL DEF ExamSpec
=============================================================================
