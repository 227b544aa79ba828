-------------------------------- MODULE HttpApi --------------------------------
(***************************************************************************)
(* The routes of /api/v1 and what a request meets on its way: the access     *)
(* token, the first route that matches, the permission it asks for, the      *)
(* handler, and the error handler.  Requests do not touch each other here,   *)
(* so there is one.                                                          *)
(***************************************************************************)
EXTENDS Naturals, Sequences, Functions

VARIABLES
  call,   \* the request, and where it is
  answer, \* its HTTP status
  logged  \* whether error_logs has got a row for it

httpVars == <<call, answer, logged>>

-----------------------------------------------------------------------------
(* The routers, each in the order of registration.  "*" is a parameter.      *)

Route(method, path, guard) == [method |-> method, path |-> path, guard |-> guard]

Get(path, guard)    == Route("GET", path, guard)
Post(path, guard)   == Route("POST", path, guard)
Put(path, guard)    == Route("PUT", path, guard)
Patch(path, guard)  == Route("PATCH", path, guard)
Delete(path, guard) == Route("DELETE", path, guard)

Public == "public"     \* neither middleware
SignedIn == "signed in" \* authMiddleware only

authRoutes ==
  << Post(<<"login">>, Public),
     Post(<<"refresh">>, Public),
     Post(<<"logout">>, SignedIn),
     Get(<<"me">>, SignedIn) >>

roleRoutes ==
  << Get(<<>>, "ROLE_READ"),
     Get(<<"*">>, "ROLE_READ"),
     Post(<<>>, "ROLE_CREATE"),
     Patch(<<"*">>, "ROLE_UPDATE"),
     Delete(<<"*">>, "ROLE_DELETE"),
     Put(<<"*", "permissions">>, "ROLE_UPDATE") >>

permissionRoutes ==
  << Get(<<>>, "PERMISSION_READ"),
     Get(<<"*">>, "PERMISSION_READ"),
     Post(<<>>, "PERMISSION_CREATE"),
     Patch(<<"*">>, "PERMISSION_UPDATE"),
     Delete(<<"*">>, "PERMISSION_DELETE") >>

rolePermissionRoutes ==
  << Get(<<"role", "*">>, "ROLE_READ"),
     Get(<<"permission", "*">>, "ROLE_READ"),
     Post(<<>>, "ROLE_UPDATE"),
     Post(<<"bulk">>, "ROLE_UPDATE"),
     Delete(<<>>, "ROLE_UPDATE") >>

userRoutes ==
  << Patch(<<"me", "password">>, SignedIn),
     Get(<<>>, "USER_READ"),
     Get(<<"*">>, "USER_READ"),
     Post(<<>>, "USER_CREATE"),
     Patch(<<"*">>, "USER_UPDATE"),
     Delete(<<"*">>, "USER_DELETE"),
     Patch(<<"*", "reset-password">>, "USER_UPDATE"),
     Patch(<<"*", "toggle-active">>, "USER_UPDATE") >>

studentRoutes ==
  << Get(<<>>, "STUDENT_READ"),
     Get(<<"*">>, "STUDENT_READ"),
     Get(<<"*", "enrollment">>, "STUDENT_READ"),
     Post(<<>>, "STUDENT_CREATE"),
     Patch(<<"*">>, "STUDENT_UPDATE"),
     Delete(<<"*">>, "STUDENT_DELETE") >>

teacherRoutes ==
  << Get(<<>>, "TEACHER_READ"),
     Get(<<"*">>, "TEACHER_READ"),
     Get(<<"*", "assignments">>, "TEACHER_READ"),
     Post(<<>>, "TEACHER_CREATE"),
     Patch(<<"*">>, "TEACHER_UPDATE"),
     Delete(<<"*">>, "TEACHER_DELETE") >>

\* Mutated academicSessionRoutes: "/:id" comes first.
academicSessionRoutesById ==
  << Get(<<>>, "SESSION_READ"),
     Get(<<"*">>, "SESSION_READ"),
     Get(<<"active">>, "SESSION_READ"),
     Post(<<>>, "SESSION_CREATE"),
     Patch(<<"*">>, "SESSION_UPDATE"),
     Delete(<<"*">>, "SESSION_DELETE") >>

academicSessionRoutes ==
  << Get(<<"active">>, "SESSION_READ"),
     Get(<<>>, "SESSION_READ"),
     Get(<<"*">>, "SESSION_READ"),
     Post(<<>>, "SESSION_CREATE"),
     Patch(<<"*">>, "SESSION_UPDATE"),
     Delete(<<"*">>, "SESSION_DELETE"),
     Patch(<<"*", "activate">>, "SESSION_UPDATE"),
     Patch(<<"*", "deactivate">>, "SESSION_UPDATE"),
     Patch(<<"*", "admission-test">>, "SESSION_UPDATE") >>

classRoutes ==
  << Get(<<>>, "CLASS_READ"),
     Get(<<"*">>, "CLASS_READ"),
     Get(<<"*", "sections">>, "CLASS_READ"),
     Post(<<>>, "CLASS_CREATE"),
     Patch(<<"*">>, "CLASS_UPDATE"),
     Delete(<<"*">>, "CLASS_DELETE") >>

subjectRoutes ==
  << Get(<<>>, "SUBJECT_READ"),
     Get(<<"*">>, "SUBJECT_READ"),
     Post(<<>>, "SUBJECT_CREATE"),
     Patch(<<"*">>, "SUBJECT_UPDATE"),
     Delete(<<"*">>, "SUBJECT_DELETE") >>

sectionRoutes ==
  << Get(<<>>, "SECTION_READ"),
     Get(<<"*">>, "SECTION_READ"),
     Get(<<"*", "occupancy">>, "SECTION_READ"),
     Post(<<>>, "SECTION_CREATE"),
     Patch(<<"*">>, "SECTION_UPDATE"),
     Delete(<<"*">>, "SECTION_DELETE") >>

subjectAssignmentRoutes ==
  << Get(<<>>, "SUBJECT_ASSIGNMENT_READ"),
     Get(<<"*">>, "SUBJECT_ASSIGNMENT_READ"),
     Get(<<"teacher", "*">>, "SUBJECT_ASSIGNMENT_READ"),
     Post(<<>>, "SUBJECT_ASSIGNMENT_CREATE"),
     Patch(<<"*">>, "SUBJECT_ASSIGNMENT_UPDATE"),
     Delete(<<"*">>, "SUBJECT_ASSIGNMENT_DELETE") >>

studentEnrollmentRoutes ==
  << Get(<<>>, "ENROLLMENT_READ"),
     Get(<<"*">>, "ENROLLMENT_READ"),
     Post(<<>>, "ENROLLMENT_CREATE"),
     Patch(<<"*">>, "ENROLLMENT_UPDATE"),
     Delete(<<"*">>, "ENROLLMENT_UPDATE") >>

examRoutes ==
  << Get(<<>>, "EXAM_READ"),
     Get(<<"*">>, "EXAM_READ"),
     Post(<<>>, "EXAM_CREATE"),
     Patch(<<"*">>, "EXAM_UPDATE"),
     Delete(<<"*">>, "EXAM_DELETE"),
     Patch(<<"*", "publish">>, "EXAM_UPDATE"),
     Patch(<<"*", "unpublish">>, "EXAM_UPDATE") >>

examResultRoutes ==
  << Get(<<>>, "EXAM_RESULT_READ"),
     Get(<<"*">>, "EXAM_RESULT_READ"),
     Get(<<"exam", "*">>, "EXAM_RESULT_READ"),
     Get(<<"exam", "*", "student", "*", "marksheet">>, "EXAM_RESULT_READ"),
     Post(<<>>, "EXAM_RESULT_CREATE"),
     Post(<<"bulk">>, "EXAM_RESULT_CREATE"),
     Patch(<<"*">>, "EXAM_RESULT_UPDATE"),
     Delete(<<"*">>, "EXAM_RESULT_UPDATE") >>

rankingRoutes ==
  << Get(<<"*", "*">>, "RANKING_READ"),
     Get(<<"*", "*", "history">>, "RANKING_READ"),
     Get(<<"*", "*", "audit">>, "RANKING_READ"),
     Post(<<"generate-roll">>, "RANKING_GENERATE"),
     Post(<<"recalculate">>, "RANKING_RECALCULATE"),
     Post(<<"unlock">>, "RANKING_UNLOCK") >>

attendanceRoutes ==
  << Post(<<"students">>, "ATTENDANCE_MARK"),
     Get(<<"students">>, "ATTENDANCE_READ"),
     Get(<<"students", "*", "monthly">>, "ATTENDANCE_READ"),
     Get(<<"class", "*", "*", "daily">>, "ATTENDANCE_READ"),
     Post(<<"staff", "check-in">>, "ATTENDANCE_MARK"),
     Post(<<"staff", "check-out">>, "ATTENDANCE_MARK"),
     Get(<<"staff", "*", "monthly">>, "ATTENDANCE_READ") >>

errorLogRoutes ==
  << Get(<<>>, "ERROR_LOG_READ"),
     Get(<<"*">>, "ERROR_LOG_READ"),
     Delete(<<>>, "ERROR_LOG_DELETE"),
     Delete(<<"*">>, "ERROR_LOG_DELETE") >>

uploadRoutes ==
  << Post(<<"generate-url">>, "UPLOAD_CREATE"),
     Post(<<"confirm">>, "UPLOAD_CREATE"),
     Post(<<"bulk-delete">>, "UPLOAD_DELETE"),
     Get(<<>>, "UPLOAD_READ"),
     Get(<<"*">>, "UPLOAD_READ"),
     Get(<<"*", "download">>, "UPLOAD_READ"),
     Delete(<<"*">>, "UPLOAD_DELETE"),
     Patch(<<"*", "restore">>, "UPLOAD_RESTORE") >>

v1Router ==
  [auth |-> authRoutes, roles |-> roleRoutes, permissions |-> permissionRoutes,
   users |-> userRoutes, students |-> studentRoutes,
   academic_sessions |-> academicSessionRoutes, teachers |-> teacherRoutes,
   classes |-> classRoutes, subjects |-> subjectRoutes, sections |-> sectionRoutes,
   assignments |-> subjectAssignmentRoutes, enrollments |-> studentEnrollmentRoutes,
   exams |-> examRoutes, results |-> examResultRoutes,
   role_permissions |-> rolePermissionRoutes, ranking |-> rankingRoutes,
   attendance |-> attendanceRoutes, error_logs |-> errorLogRoutes,
   uploads |-> uploadRoutes]

Mounts == DOMAIN v1Router

Guards ==
  (UNION {{route.guard : route \in Range(v1Router[m])} : m \in Mounts}) \ {Public, SignedIn}

-----------------------------------------------------------------------------
\* Every router but auth begins with router.use(authMiddleware).
UsesAuth(m) == m # "auth"

\* A parameter matches any one segment.
PathMatches(pattern, path) ==
  /\ Len(pattern) = Len(path)
  /\ \A i \in DOMAIN path : pattern[i] \in {"*", path[i]}

Matching(m, method, path) ==
  {i \in DOMAIN v1Router[m] :
     v1Router[m][i].method = method /\ PathMatches(v1Router[m][i].path, path)}

AccessTokens == {"none", "expired", "valid"}

\* What a handler, or rbacMiddleware, may throw: an AppError with its status, an
\* error of PostgreSQL with its SQLSTATE, or anything else.
Thrown ==
  [operational: {TRUE}, status: {400, 401, 403, 404, 409, 500}]
    \cup [operational: {FALSE}, code: {"23505", "23503", "23502", "other"}]

ErrorStatus(err) ==
  CASE err.operational -> err.status
    [] ~ err.operational /\ err.code = "23505" -> 409
    [] ~ err.operational /\ err.code \in {"23503", "23502"} -> 400
    [] OTHER -> 500

NoCall == [pc |-> "idle"]

HttpInit ==
  /\ call = NoCall
  /\ answer = 0
  /\ logged = FALSE

-----------------------------------------------------------------------------
At(pc) == call.pc = pc

Advance(pc, i) ==
  /\ call' = [call EXCEPT !.pc = pc, !.route = i]
  /\ UNCHANGED <<answer, logged>>

Respond(status) ==
  /\ call' = [call EXCEPT !.pc = "done"]
  /\ answer' = status
  /\ UNCHANGED logged

\* A client that means route i of m, with an id for each parameter.  Its role may
\* do exactly what the route asks for, or everything else (`only`).
Send(m, i, token, only) ==
  /\ At("idle")
  /\ LET meant == v1Router[m][i] IN
     call' = [pc |-> "auth", mount |-> m, meant |-> i, route |-> 0,
              method |-> meant.method,
              path |-> [s \in DOMAIN meant.path |->
                          IF meant.path[s] = "*" THEN "id" ELSE meant.path[s]],
              token |-> token,
              granted |-> IF only THEN {meant.guard} ELSE Guards \ {meant.guard}]
  /\ UNCHANGED <<answer, logged>>

\* A path that no router has.
SendStray(m, token) ==
  /\ At("idle")
  /\ call' = [pc |-> "auth", mount |-> m, meant |-> 0, route |-> 0, method |-> "GET",
              path |-> <<"no", "such", "path", "in", "any", "router">>, token |-> token, granted |-> Guards]
  /\ UNCHANGED <<answer, logged>>

\* authMiddleware of the router.
Authenticate ==
  /\ At("auth")
  /\ IF UsesAuth(call.mount) /\ call.token # "valid" THEN Respond(401) ELSE Advance("match", 0)

\* The first route in the order of registration, or the 404 handler.
Dispatch ==
  LET matching == Matching(call.mount, call.method, call.path) IN
  /\ At("match")
  /\ \/ matching = {} /\ Respond(404)
     \/ \E i \in matching :
          (\A j \in matching : i <= j) /\ Advance("guard", i)

\* authMiddleware of a route of auth, rbacMiddleware of the others.
Authorize ==
  LET guard == v1Router[call.mount][call.route].guard IN
  /\ At("guard")
  /\ CASE guard = Public -> Advance("handle", call.route)
       [] guard = SignedIn ->
            IF call.token = "valid" THEN Advance("handle", call.route) ELSE Respond(401)
       [] OTHER ->
            IF guard \in call.granted THEN Advance("handle", call.route) ELSE Respond(403)

\* successResponse: 200 or 201.
Succeed == At("handle") /\ Respond(200)

\* errorMiddleware, after a handler or rbacMiddleware has thrown; the INSERT into
\* error_logs is not waited for, and may fail unseen.
ErrorMiddleware(err, stored) ==
  /\ \/ At("handle")
     \/ /\ At("guard") /\ ~ err.operational
        /\ v1Router[call.mount][call.route].guard \in Guards
  /\ call' = [call EXCEPT !.pc = "done"]
  /\ answer' = ErrorStatus(err)
  /\ logged' = (stored /\ ~ err.operational /\ err.code = "other")

HttpNext ==
  \/ \E m \in Mounts, token \in AccessTokens :
       \/ SendStray(m, token)
       \/ \E i \in DOMAIN v1Router[m], only \in BOOLEAN : Send(m, i, token, only)
  \/ Authenticate \/ Dispatch \/ Authorize \/ Succeed
  \/ \E err \in Thrown, stored \in BOOLEAN : ErrorMiddleware(err, stored)

HttpSpec == HttpInit /\ [][HttpNext]_httpVars

-----------------------------------------------------------------------------
(* Properties                                                              *)

\* Type invariant.
HttpTypeOK ==
  /\ call.pc \in {"idle", "auth", "match", "guard", "handle", "done"}
  /\ answer \in {0, 200, 400, 401, 403, 404, 409, 500}
  /\ logged \in BOOLEAN
  /\ ~ At("idle") => call.mount \in Mounts /\ call.token \in AccessTokens
  /\ call.pc \in {"guard", "handle"} => call.route \in DOMAIN v1Router[call.mount]

\* A request gets to the handler of the route its client means and to no other,
\* whichever routes share its path, and only with what that route asks for
\* (academic-session.routes.ts:9: "/active" must come before "/:id").
HandlerIsMeant ==
  At("handle") =>
    LET guard == v1Router[call.mount][call.meant].guard IN
    /\ call.route = call.meant
    /\ guard # Public => call.token = "valid"
    /\ guard \notin {Public, SignedIn} => guard \in call.granted
=============================================================================
