--------------------------- MODULE AcademicSessions ---------------------------
(***************************************************************************)
(* The rows of academic_sessions and the requests that activate, deactivate *)
(* and delete them.  The transaction of `activate` runs under READ           *)
(* COMMITTED: its first UPDATE takes the active rows of its snapshot, waits  *)
(* for those another transaction has locked, looks at them again and locks   *)
(* them; its second UPDATE and COMMIT are one step.                          *)
(***************************************************************************)
EXTENDS Handlers

CONSTANT Sessions

ASSUME SessionAssumption == Sessions # {}

VARIABLES
  term,       \* the committed row of each session
  by,         \* history: the request that made the session active
  adm,        \* what each request does next, and what its transaction holds
  admOverlap  \* history: two requests have been in flight together

sessionVars == <<term, by, adm, admOverlap>>

-----------------------------------------------------------------------------
Term == [there: BOOLEAN, active: BOOLEAN, deleted: BOOLEAN, admission: BOOLEAN]

Admin ==
  [pc: {"idle", "begin", "lock", "set", "off", "delete", "toggle"},
   id: Sessions,
   rows: SUBSET Sessions]  \* snapshot of the first UPDATE, then the rows it locked

\* Rows without deleted_at.
LiveTerms == {s \in Sessions : term[s].there /\ ~ term[s].deleted}

\* deactivateAll: WHERE is_active = true AND deleted_at IS NULL
ActiveTerms == {s \in LiveTerms : term[s].active}

\* A request in flight names a session, an idle one any.
IdleAdmin == [pc |-> "idle", id |-> CHOOSE s \in Sessions : TRUE, rows |-> {}]

NoTerm == [there |-> FALSE, active |-> FALSE, deleted |-> FALSE, admission |-> FALSE]

SessionInit ==
  /\ term = [s \in Sessions |-> NoTerm]
  /\ \E r \in Requests : by = [s \in Sessions |-> r]
  /\ adm = [r \in Requests |-> IdleAdmin]
  /\ admOverlap = FALSE

AdminStep(r, from, to, s, rows) ==
  /\ adm[r].pc = from
  /\ adm' = [adm EXCEPT ![r] = [pc |-> to, id |-> s, rows |-> rows]]

\* getById has found the row.
AdminCall(r, s, to) ==
  /\ s \in LiveTerms
  /\ AdminStep(r, "idle", to, s, {})
  /\ admOverlap' = (admOverlap \/ Meets(adm, r))

AdminEnd(r, from) ==
  /\ adm[r].pc = from
  /\ adm' = [adm EXCEPT ![r] = IdleAdmin]

\* The row is locked by the transaction of another request.
TermLocked(r, s) == \E q \in Requests \ {r} : adm[q].pc = "set" /\ s \in adm[q].rows

SetTerm(s, row) == term' = [term EXCEPT ![s] = row]

-----------------------------------------------------------------------------
\* create: the name is free, and the session starts inactive.
CreateSession(r, s, admission) ==
  /\ adm[r].pc = "idle"
  /\ ~ term[s].there
  /\ SetTerm(s, [NoTerm EXCEPT !.there = TRUE, !.admission = admission])
  /\ admOverlap' = (admOverlap \/ Meets(adm, r))
  /\ UNCHANGED <<by, adm>>

Activate(r, s) == AdminCall(r, s, "begin") /\ UNCHANGED <<term, by>>

\* deactivateAll starts.
DeactivateSnapshot(r) ==
  /\ AdminStep(r, "begin", "lock", adm[r].id, ActiveTerms)
  /\ UNCHANGED <<term, by, admOverlap>>

\* Mutated DeactivateLock: nothing is deactivated.
DeactivateNone(r) ==
  /\ \A s \in adm[r].rows : ~ TermLocked(r, s)
  /\ AdminStep(r, "lock", "set", adm[r].id, {})
  /\ UNCHANGED <<term, by, admOverlap>>

\* It has the locks, and keeps the rows that are still active.
DeactivateLock(r) ==
  /\ \A s \in adm[r].rows : ~ TermLocked(r, s)
  /\ AdminStep(r, "lock", "set", adm[r].id, adm[r].rows \cap ActiveTerms)
  /\ UNCHANGED <<term, by, admOverlap>>

\* setActive and COMMIT; a session deleted meanwhile rolls everything back.
SetActive(r) ==
  LET s == adm[r].id IN
  /\ ~ TermLocked(r, s)
  /\ AdminEnd(r, "set")
  /\ IF s \in LiveTerms
     THEN /\ term' = [t \in Sessions |->
                        [term[t] EXCEPT !.active = (t = s \/ (@ /\ t \notin adm[r].rows))]]
          /\ by' = [by EXCEPT ![s] = r]
     ELSE UNCHANGED <<term, by>>
  /\ UNCHANGED admOverlap

\* The transaction fails, among others when PostgreSQL ends a cycle of locks.
ActivateAborts(r) ==
  /\ adm[r].pc \in {"lock", "set"}
  /\ AdminEnd(r, adm[r].pc)
  /\ UNCHANGED <<term, by, admOverlap>>

\* deactivate: an inactive session is returned as it is.
Deactivate(r, s) ==
  /\ term[s].active
  /\ AdminCall(r, s, "off")
  /\ UNCHANGED <<term, by>>

SetInactive(r) ==
  LET s == adm[r].id IN
  /\ ~ TermLocked(r, s)
  /\ AdminEnd(r, "off")
  /\ IF s \in LiveTerms THEN SetTerm(s, [term[s] EXCEPT !.active = FALSE])
                        ELSE UNCHANGED term
  /\ UNCHANGED <<by, admOverlap>>

\* Mutated DeleteSession: the session may be active.
DeleteAnySession(r, s) ==
  /\ AdminCall(r, s, "delete")
  /\ UNCHANGED <<term, by>>

\* delete: refused for an active session.
DeleteSession(r, s) ==
  /\ ~ term[s].active
  /\ AdminCall(r, s, "delete")
  /\ UNCHANGED <<term, by>>

\* softDelete does not look at is_active again.
SoftDeleteSession(r) ==
  LET s == adm[r].id IN
  /\ ~ TermLocked(r, s)
  /\ AdminEnd(r, "delete")
  /\ SetTerm(s, [term[s] EXCEPT !.deleted = TRUE])
  /\ UNCHANGED <<by, admOverlap>>

\* toggleAdmissionTest.
ToggleCheck(r, s) == AdminCall(r, s, "toggle") /\ UNCHANGED <<term, by>>

ToggleAdmissionTest(r, on) ==
  LET s == adm[r].id IN
  /\ ~ TermLocked(r, s)
  /\ AdminEnd(r, "toggle")
  /\ IF s \in LiveTerms THEN SetTerm(s, [term[s] EXCEPT !.admission = on])
                        ELSE UNCHANGED term
  /\ UNCHANGED <<by, admOverlap>>

-----------------------------------------------------------------------------
SessionNext ==
  \E r \in Requests :
    \/ \E s \in Sessions :
         \/ Activate(r, s) \/ Deactivate(r, s) \/ DeleteSession(r, s) \/ ToggleCheck(r, s)
         \/ \E admission \in BOOLEAN : CreateSession(r, s, admission)
    \/ DeactivateSnapshot(r) \/ DeactivateLock(r) \/ SetActive(r) \/ ActivateAborts(r)
    \/ SetInactive(r) \/ SoftDeleteSession(r)
    \/ \E on \in BOOLEAN : ToggleAdmissionTest(r, on)

SessionSpec == SessionInit /\ [][SessionNext]_sessionVars

-----------------------------------------------------------------------------
(* Properties                                                              *)

\* Type invariant.
SessionTypeOK ==
  /\ term \in [Sessions -> Term]
  /\ by \in [Sessions -> Requests]
  /\ adm \in [Requests -> Admin]
  /\ admOverlap \in BOOLEAN

\* However activations overlap, each request in flight leaves at most one session
\* active, hence never more of them than requests: an activation deactivates
\* what it activated earlier, even when that was after the start of the
\* transactions it runs against (academic-session.service.ts:100).
OneActivePerRequest ==
  \A s, t \in ActiveTerms : by[s] = by[t] => s = t

\* As long as requests come one at a time, at most one session is active, and a
\* deleted one is not (academic-session.service.ts:95).
OneActiveAlone ==
  ~ admOverlap =>
    /\ Cardinality(ActiveTerms) <= 1
    /\ \A s \in Sessions : term[s].deleted => ~ term[s].active

-----------------------------------------------------------------------------
(* What the documentation of the code says and the code does not keep       *)

\* academic-session.repository.ts:115, "only one active session may exist at a
\* time": an activation does not see the session another one is activating.
OneActive == Cardinality(ActiveTerms) <= 1
=============================================================================
