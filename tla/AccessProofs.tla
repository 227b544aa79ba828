----------------------------- MODULE AccessProofs ------------------------------
(***************************************************************************)
(* Who gets in, and where: the student codes of a year and the refresh token  *)
(* of a user, for any number of requests, addresses, users and seconds; the    *)
(* route that a request reaches; the grants that the scripts leave behind.      *)
(***************************************************************************)
EXTENDS Accounts, RefreshTokens, HttpApi, Bootstrap, FiniteSetTheorems, SequenceTheorems, TLAPS

\* A code that a transaction has counted is at most the next one: rows are never
\* taken away, so what it counted can only fall behind.  With the UNIQUE
\* constraint, which refuses one that has fallen behind, this makes CodesAreSerial
\* inductive.
CountedCodes ==
  \A r \in Requests :
    account[r].pc = "profile" /\ account[r].kind = "student" =>
      account[r].code \in 1 .. (Cardinality(StudentRows) + 1)

CodesInv == AccountTypeOK /\ CodesAreSerial /\ CountedCodes

-----------------------------------------------------------------------------
LEMMA NoRequestType ==
  NoRequest \in Request /\ NoRequest.pc = "idle"
  <1>1. (CHOOSE e \in Emails : TRUE) \in Emails
    BY AccountAssumption
  <1>2. QED
    BY <1>1 DEF NoRequest, Request, Kinds

LEMMA AccountTypeInit == AccountInit => AccountTypeOK
  <1> SUFFICES ASSUME AccountInit PROVE AccountTypeOK
    OBVIOUS
  <1>1. account \in [Requests -> Request] /\ \A r \in Requests : account[r].pc = "idle"
    BY NoRequestType DEF AccountInit
  <1>2. users \in Seq(User)
    BY DEF AccountInit
  <1>3. QED
    BY <1>1, <1>2 DEF AccountInit, AccountTypeOK

\* Rows are added and changed, never taken away.
RowsStay == DOMAIN users \subseteq DOMAIN users'

\* One request moves, the others stand still.
MovesTo(r, request) ==
  /\ account' = [account EXCEPT ![r] = request]
  /\ request \in Request
  /\ request.pc = "rename" => request.row \in DOMAIN users

LEMMA MoveType ==
  ASSUME AccountTypeOK, NEW r \in Requests, NEW request, MovesTo(r, request), RowsStay,
         users' \in Seq(User), accountOverlap' \in BOOLEAN
  PROVE  AccountTypeOK'
  <1>1. account' = [account EXCEPT ![r] = request] /\ account \in [Requests -> Request]
    BY DEF MovesTo, AccountTypeOK
  <1>2. account' \in [Requests -> Request]
    BY <1>1 DEF MovesTo
  <1>3. account'[r] = request /\ \A q \in Requests \ {r} : account'[q] = account[q]
    BY <1>1
  <1>4. \A q \in Requests : account'[q].pc = "rename" => account'[q].row \in DOMAIN users'
    BY <1>3 DEF MovesTo, RowsStay, AccountTypeOK
  <1>5. QED
    BY <1>2, <1>4 DEF AccountTypeOK

LEMMA EndMoves ==
  ASSUME NEW r \in Requests, AccountEnd(r)
  PROVE  MovesTo(r, NoRequest)
  BY NoRequestType DEF AccountEnd, MovesTo

LEMMA AppendType ==
  ASSUME AccountTypeOK, NEW u \in User, users' = Append(users, u)
  PROVE  /\ users' \in Seq(User) /\ RowsStay
         /\ Len(users) \in Nat /\ DOMAIN users = 1 .. Len(users)
         /\ Len(users') = Len(users) + 1 /\ DOMAIN users' = 1 .. (Len(users) + 1)
         /\ users'[Len(users) + 1] = u
         /\ \A i \in DOMAIN users : users'[i] = users[i]
  <1>1. users \in Seq(User)
    BY DEF AccountTypeOK
  <1>2. /\ users' \in Seq(User) /\ Len(users) \in Nat /\ DOMAIN users = 1 .. Len(users)
        /\ Len(users') = Len(users) + 1 /\ DOMAIN users' = 1 .. (Len(users) + 1)
        /\ users'[Len(users) + 1] = u
        /\ \A i \in 1 .. Len(users) : users'[i] = users[i]
    BY <1>1
  <1>3. QED
    BY <1>2 DEF RowsStay

LEMMA RowUpdateType ==
  ASSUME AccountTypeOK, NEW i \in DOMAIN users, NEW u \in User,
         users' = [users EXCEPT ![i] = u]
  PROVE  /\ users' \in Seq(User) /\ RowsStay /\ DOMAIN users' = DOMAIN users
         /\ users'[i] = u
         /\ \A j \in DOMAIN users \ {i} : users'[j] = users[j]
  <1>1. users \in Seq(User)
    BY DEF AccountTypeOK
  <1>2. DOMAIN users' = DOMAIN users /\ users' \in Seq(User)
    BY <1>1
  <1>3. users'[i] = u /\ \A j \in DOMAIN users \ {i} : users'[j] = users[j]
    BY <1>1
  <1>4. QED
    BY <1>2, <1>3 DEF RowsStay

LEMMA NewUserType ==
  ASSUME AccountTypeOK, NEW r \in Requests, NEW profile \in {"none", "live"}, NEW code \in Nat
  PROVE  /\ NewUser(r, profile, code) \in User
         /\ NewUser(r, profile, code).kind = account[r].kind
         /\ NewUser(r, profile, code).code = code
  BY DEF AccountTypeOK, Request, NewUser, User

LEMMA RowType ==
  ASSUME AccountTypeOK, NEW i \in DOMAIN users
  PROVE  users[i] \in User
  BY DEF AccountTypeOK

\* What the handlers write into a row.
LEMMA ColumnsType ==
  ASSUME AccountTypeOK, NEW i \in DOMAIN users, NEW e \in Emails
  PROVE  /\ [users[i] EXCEPT !.email = e] \in User
         /\ [users[i] EXCEPT !.deleted = TRUE] \in User
         /\ [users[i] EXCEPT !.profile = "deleted"] \in User
  BY RowType DEF User

LEMMA SameRowsStay ==
  ASSUME users' = users
  PROVE  RowsStay
  BY DEF RowsStay

LEMMA AccountCallType ==
  ASSUME AccountTypeOK, NEW r \in Requests, NEW request \in Request,
         request.pc = "rename" => request.row \in DOMAIN users,
         AccountCall(r, request)
  PROVE  AccountTypeOK'
  <1>1. MovesTo(r, request) /\ users' = users
    BY DEF AccountCall, MovesTo
  <1>2. accountOverlap' \in BOOLEAN
    BY DEF AccountCall, AccountTypeOK, Meets
  <1>3. users' \in Seq(User)
    BY <1>1 DEF AccountTypeOK
  <1>4. QED
    BY <1>1, <1>2, <1>3, SameRowsStay, MoveType

LEMMA StudentRowsFinite ==
  ASSUME AccountTypeOK
  PROVE  IsFiniteSet(StudentRows) /\ Cardinality(StudentRows) \in Nat
  <1>1. StudentRows \subseteq 1 .. Len(users) /\ Len(users) \in Nat
    BY DEF StudentRows, AccountTypeOK
  <1>2. IsFiniteSet(1 .. Len(users))
    BY <1>1, FS_Interval
  <1>3. QED
    BY <1>1, <1>2, FS_Subset, FS_CardinalityType

LEMMA AccountTypeStep == AccountTypeOK /\ [AccountNext]_accountVars => AccountTypeOK'
  <1> SUFFICES ASSUME AccountTypeOK, [AccountNext]_accountVars
               PROVE  AccountTypeOK'
    OBVIOUS
  <1>0. users \in Seq(User) /\ account \in [Requests -> Request] /\ accountOverlap \in BOOLEAN
    BY DEF AccountTypeOK
  <1>1. CASE UNCHANGED accountVars
    BY <1>1 DEF accountVars, AccountTypeOK
  <1>2. ASSUME NEW r \in Requests, NEW kind \in Kinds, NEW e \in Emails,
               CreateAccount(r, kind, e)
        PROVE  AccountTypeOK'
    <2>1. [NoRequest EXCEPT !.pc = "insert", !.kind = kind, !.email = e] \in Request
      BY NoRequestType DEF Request
    <2>2. [NoRequest EXCEPT !.pc = "insert", !.kind = kind, !.email = e].pc = "insert"
      BY NoRequestType DEF Request
    <2>3. QED
      BY <1>2, <2>1, <2>2, AccountCallType DEF CreateAccount
  <1>3. ASSUME NEW r \in Requests, NEW i \in DOMAIN users, NEW e \in Emails,
               ChangeEmail(r, i, e)
        PROVE  AccountTypeOK'
    <2>1. i \in Nat
      BY <1>0
    <2>2. [NoRequest EXCEPT !.pc = "rename", !.email = e, !.row = i] \in Request
      BY <2>1, NoRequestType DEF Request
    <2>3. [NoRequest EXCEPT !.pc = "rename", !.email = e, !.row = i].row = i
      BY NoRequestType DEF Request
    <2>4. QED
      BY <1>3, <2>2, <2>3, AccountCallType DEF ChangeEmail
  <1>4. ASSUME NEW r \in Requests, InsertUser(r)
        PROVE  AccountTypeOK'
    <2>1. MovesTo(r, NoRequest) /\ accountOverlap' = accountOverlap
      BY <1>4, EndMoves DEF InsertUser
    <2>2. users' = users \/ users' = Append(users, NewUser(r, "none", 0))
      BY <1>4 DEF InsertUser
    <2>3. users' \in Seq(User) /\ RowsStay
      BY <1>0, <2>2, NewUserType, AppendType, SameRowsStay
    <2>4. QED
      BY <1>0, <2>1, <2>3, MoveType
  <1>5. ASSUME NEW r \in Requests, CreateUser(r)
        PROVE  AccountTypeOK'
    <2>1. users' = users /\ accountOverlap' = accountOverlap
      BY <1>5 DEF CreateUser
    <2>2. CASE EmailTaken(account[r].email)
      BY <1>0, <1>5, <2>1, <2>2, EndMoves, SameRowsStay, MoveType DEF CreateUser
    <2>3. CASE ~ EmailTaken(account[r].email)
      <3> DEFINE to == IF account[r].kind = "student" THEN "count" ELSE "profile"
                 request == [account[r] EXCEPT !.pc = to]
      <3>1. request \in Request /\ request.pc # "rename"
        BY <1>0 DEF Request
      <3>2. MovesTo(r, request)
        BY <1>5, <2>3, <3>1 DEF CreateUser, MovesTo
      <3> HIDE DEF request
      <3>3. QED
        BY <1>0, <2>1, <3>2, SameRowsStay, MoveType
    <2>4. QED
      BY <2>2, <2>3
  <1>6. ASSUME NEW r \in Requests, GenerateStudentCode(r)
        PROVE  AccountTypeOK'
    <2> DEFINE n == Cardinality(StudentRows)
               request == [account[r] EXCEPT !.pc = "profile", !.code = n + 1]
    <2>1. n \in Nat
      BY StudentRowsFinite
    <2> HIDE DEF n
    <2>2. request \in Request /\ request.pc # "rename"
      <3>1. account[r] \in Request /\ n + 1 \in Nat
        BY <1>0, <2>1
      <3>2. QED
        BY <3>1 DEF Request
    <2>3. MovesTo(r, request) /\ users' = users /\ accountOverlap' = accountOverlap
      BY <1>6, <2>2 DEF GenerateStudentCode, MovesTo, n
    <2> HIDE DEF request
    <2>4. QED
      BY <1>0, <2>3, SameRowsStay, MoveType
  <1>7. ASSUME NEW r \in Requests, CreateStudentProfile(r)
        PROVE  AccountTypeOK'
    <2>1. MovesTo(r, NoRequest) /\ accountOverlap' = accountOverlap
      BY <1>7, EndMoves DEF CreateStudentProfile
    <2>2. users' = users \/ users' = Append(users, NewUser(r, "live", account[r].code))
      BY <1>7 DEF CreateStudentProfile
    <2>3. account[r].code \in Nat
      BY <1>0 DEF Request
    <2>4. users' \in Seq(User) /\ RowsStay
      BY <1>0, <2>2, <2>3, NewUserType, AppendType, SameRowsStay
    <2>5. QED
      BY <1>0, <2>1, <2>4, MoveType
  <1>8. ASSUME NEW r \in Requests, CreateTeacherProfile(r)
        PROVE  AccountTypeOK'
    <2>1. MovesTo(r, NoRequest) /\ accountOverlap' = accountOverlap
      BY <1>8, EndMoves DEF CreateTeacherProfile
    <2>2. users' \in Seq(User) /\ RowsStay
      BY <1>8, NewUserType, AppendType DEF CreateTeacherProfile
    <2>3. QED
      BY <1>0, <2>1, <2>2, MoveType
  <1>9. ASSUME NEW r \in Requests, UpdateUser(r)
        PROVE  AccountTypeOK'
    <2> DEFINE i == account[r].row
               e == account[r].email
    <2>1. i \in DOMAIN users /\ e \in Emails
      BY <1>0, <1>9 DEF UpdateUser, AccountTypeOK, Request
    <2>2. MovesTo(r, NoRequest) /\ accountOverlap' = accountOverlap
      BY <1>9, EndMoves DEF UpdateUser
    <2>3. users' = users \/ users' = [users EXCEPT ![i] = [users[i] EXCEPT !.email = e]]
      BY <1>9 DEF UpdateUser
    <2>4. users' \in Seq(User) /\ RowsStay
      BY <1>0, <2>1, <2>3, ColumnsType, RowUpdateType, SameRowsStay
    <2>5. QED
      BY <1>0, <2>2, <2>4, MoveType
  <1>10. ASSUME NEW i \in DOMAIN users, DeleteUser(i) \/ DeleteProfile(i)
         PROVE  AccountTypeOK'
    <2>1. PICK u \in User : users' = [users EXCEPT ![i] = u]
      <3>1. /\ [users[i] EXCEPT !.deleted = TRUE] \in User
            /\ [users[i] EXCEPT !.profile = "deleted"] \in User
        BY AccountAssumption, ColumnsType
      <3>2. QED
        BY <1>10, <3>1 DEF DeleteUser, DeleteProfile
    <2>2. users' \in Seq(User) /\ DOMAIN users' = DOMAIN users
      BY <2>1, RowUpdateType
    <2>3. account' = account /\ accountOverlap' = accountOverlap
      BY <1>10 DEF DeleteUser, DeleteProfile
    <2>4. QED
      BY <2>2, <2>3 DEF AccountTypeOK
  <1>11. ASSUME NEW r \in Requests, AccountAborts(r)
         PROVE  AccountTypeOK'
    BY <1>0, <1>11, EndMoves, SameRowsStay, MoveType DEF AccountAborts
  <1>12. QED
    BY <1>1, <1>2, <1>3, <1>4, <1>5, <1>6, <1>7, <1>8, <1>9, <1>10, <1>11 DEF AccountNext

\* Type correctness; an UPDATE is for a row that is there.
THEOREM AccountTypeCorrect == AccountSpec => []AccountTypeOK
  BY AccountTypeInit, AccountTypeStep, PTL DEF AccountSpec

-----------------------------------------------------------------------------
(* Codes                                                                   *)

\* Addresses, deletions and rows without a code do not count.
LEMMA SameCodes ==
  ASSUME AccountTypeOK, DOMAIN users' = DOMAIN users,
         \A i \in DOMAIN users :
           users'[i].kind = users[i].kind /\ users'[i].code = users[i].code
  PROVE  StudentRows' = StudentRows /\ Codes' = Codes
  <1>1. StudentRows' = StudentRows
    BY DEF StudentRows
  <1>2. \A i \in StudentRows : users'[i].code = users[i].code
    BY DEF StudentRows
  <1>3. QED
    BY <1>1, <1>2 DEF Codes

LEMMA NoNewStudent ==
  ASSUME AccountTypeOK, NEW u \in User, u.kind # "student", users' = Append(users, u)
  PROVE  StudentRows' = StudentRows /\ Codes' = Codes
  <1> DEFINE n == Len(users)
  <1>1. /\ n \in Nat /\ DOMAIN users = 1 .. n /\ DOMAIN users' = 1 .. (n + 1)
        /\ users'[n + 1] = u /\ \A i \in DOMAIN users : users'[i] = users[i]
    BY AppendType
  <1> HIDE DEF n
  <1>2. DOMAIN users' = DOMAIN users \cup {n + 1}
    BY <1>1
  <1>3. StudentRows' = StudentRows
    BY <1>1, <1>2 DEF StudentRows
  <1>4. \A i \in StudentRows : users'[i] = users[i]
    BY <1>1 DEF StudentRows
  <1>5. QED
    BY <1>3, <1>4 DEF Codes

\* The UNIQUE constraint lets only the next code in.
LEMMA NextCode ==
  ASSUME AccountTypeOK, CodesAreSerial, NEW u \in User, u.kind = "student",
         u.code \in 1 .. (Cardinality(StudentRows) + 1), u.code \notin Codes,
         users' = Append(users, u)
  PROVE  /\ CodesAreSerial'
         /\ Cardinality(StudentRows)' = Cardinality(StudentRows) + 1
  <1> DEFINE n == Len(users)
             k == Cardinality(StudentRows)
  <1>1. /\ n \in Nat /\ DOMAIN users = 1 .. n /\ DOMAIN users' = 1 .. (n + 1)
        /\ users'[n + 1] = u /\ \A i \in DOMAIN users : users'[i] = users[i]
    BY AppendType
  <1>2. IsFiniteSet(StudentRows) /\ k \in Nat
    BY StudentRowsFinite
  <1>3. Codes = 1 .. k /\ u.code \in 1 .. (k + 1) /\ u.code \notin Codes
    BY DEF CodesAreSerial
  <1> HIDE DEF n
  <1>4. DOMAIN users' = DOMAIN users \cup {n + 1} /\ n + 1 \notin DOMAIN users
    BY <1>1
  <1>5. StudentRows' = StudentRows \cup {n + 1} /\ n + 1 \notin StudentRows
    BY <1>1, <1>4 DEF StudentRows
  <1>6. Cardinality(StudentRows') = k + 1
    BY <1>2, <1>5, FS_AddElement
  <1>7. \A i \in StudentRows : users'[i] = users[i]
    BY <1>1 DEF StudentRows
  <1>8. Codes' = Codes \cup {u.code}
    BY <1>1, <1>5, <1>7 DEF Codes
  <1> HIDE DEF k
  <1>9. u.code = k + 1
    BY <1>2, <1>3
  <1>10. Codes' = 1 .. (k + 1)
    BY <1>2, <1>3, <1>8, <1>9
  <1>11. QED
    BY <1>6, <1>10 DEF CodesAreSerial, k

\* A step that leaves the codes alone, and takes no student's transaction to its
\* second INSERT.
LEMMA QuietStep ==
  ASSUME CodesAreSerial, CountedCodes, StudentRows' = StudentRows, Codes' = Codes,
         \A r \in Requests :
           account'[r].pc = "profile" /\ account'[r].kind = "student" => account'[r] = account[r]
  PROVE  CodesAreSerial' /\ CountedCodes'
  BY DEF CodesAreSerial, CountedCodes

LEMMA EndIsQuiet ==
  ASSUME AccountTypeOK, NEW r \in Requests, AccountEnd(r)
  PROVE  \A q \in Requests :
           account'[q].pc = "profile" /\ account'[q].kind = "student" => account'[q] = account[q]
  BY NoRequestType DEF AccountEnd, AccountTypeOK

LEMMA SameUsersSameCodes ==
  ASSUME users' = users
  PROVE  StudentRows' = StudentRows /\ Codes' = Codes
  BY DEF StudentRows, Codes

LEMMA CallIsQuiet ==
  ASSUME AccountTypeOK, NEW r \in Requests, NEW request, request.pc # "profile",
         account' = [account EXCEPT ![r] = request]
  PROVE  \A q \in Requests :
           account'[q].pc = "profile" /\ account'[q].kind = "student" => account'[q] = account[q]
  <1>1. account'[r] = request /\ \A q \in Requests \ {r} : account'[q] = account[q]
    BY DEF AccountTypeOK
  <1>2. QED
    BY <1>1

LEMMA RowUpdateCodes ==
  ASSUME AccountTypeOK, NEW i \in DOMAIN users, NEW u \in User,
         u.kind = users[i].kind, u.code = users[i].code, users' = [users EXCEPT ![i] = u]
  PROVE  StudentRows' = StudentRows /\ Codes' = Codes
  <1>1. /\ DOMAIN users' = DOMAIN users /\ users'[i] = u
        /\ \A j \in DOMAIN users \ {i} : users'[j] = users[j]
    BY RowUpdateType
  <1>2. QED
    BY <1>1, SameCodes

LEMMA CodesInit == AccountInit => CodesAreSerial /\ CountedCodes
  <1> SUFFICES ASSUME AccountInit PROVE CodesAreSerial /\ CountedCodes
    OBVIOUS
  <1>1. StudentRows = {}
    BY DEF AccountInit, StudentRows
  <1>2. Codes = {} /\ Cardinality(StudentRows) = 0
    BY <1>1, FS_EmptySet DEF Codes
  <1>3. CodesAreSerial
    BY <1>2 DEF CodesAreSerial
  <1>4. CountedCodes
    BY NoRequestType DEF AccountInit, CountedCodes
  <1>5. QED
    BY <1>3, <1>4

LEMMA CodesStep ==
  AccountTypeOK /\ CodesAreSerial /\ CountedCodes /\ [AccountNext]_accountVars
    => CodesAreSerial' /\ CountedCodes'
  <1> SUFFICES ASSUME AccountTypeOK, CodesAreSerial, CountedCodes,
                      [AccountNext]_accountVars
               PROVE  CodesAreSerial' /\ CountedCodes'
    OBVIOUS
  <1>0. account \in [Requests -> Request]
    BY DEF AccountTypeOK
  <1>1. CASE UNCHANGED accountVars
    BY <1>1, SameUsersSameCodes, QuietStep DEF accountVars
  <1>2. ASSUME NEW r \in Requests, NEW kind \in Kinds, NEW e \in Emails,
               CreateAccount(r, kind, e)
        PROVE  CodesAreSerial' /\ CountedCodes'
    <2> DEFINE request == [NoRequest EXCEPT !.pc = "insert", !.kind = kind, !.email = e]
    <2>1. request.pc = "insert"
      BY DEF NoRequest
    <2>2. account' = [account EXCEPT ![r] = request] /\ users' = users
      BY <1>2 DEF CreateAccount, AccountCall
    <2> HIDE DEF request
    <2>3. QED
      BY <2>1, <2>2, CallIsQuiet, SameUsersSameCodes, QuietStep
  <1>3. ASSUME NEW r \in Requests, NEW i \in DOMAIN users, NEW e \in Emails,
               ChangeEmail(r, i, e)
        PROVE  CodesAreSerial' /\ CountedCodes'
    <2> DEFINE request == [NoRequest EXCEPT !.pc = "rename", !.email = e, !.row = i]
    <2>1. request.pc = "rename"
      BY DEF NoRequest
    <2>2. account' = [account EXCEPT ![r] = request] /\ users' = users
      BY <1>3 DEF ChangeEmail, AccountCall
    <2> HIDE DEF request
    <2>3. QED
      BY <2>1, <2>2, CallIsQuiet, SameUsersSameCodes, QuietStep
  <1>4. ASSUME NEW r \in Requests, InsertUser(r)
        PROVE  CodesAreSerial' /\ CountedCodes'
    <2>1. users' = users \/ users' = Append(users, NewUser(r, "none", 0))
      BY <1>4 DEF InsertUser
    <2>2. NewUser(r, "none", 0) \in User /\ NewUser(r, "none", 0).kind # "student"
      BY <1>4, NewUserType DEF InsertUser
    <2>3. StudentRows' = StudentRows /\ Codes' = Codes
      BY <2>1, <2>2, NoNewStudent, SameUsersSameCodes
    <2>4. QED
      BY <1>4, <2>3, EndIsQuiet, QuietStep DEF InsertUser
  <1>5. ASSUME NEW r \in Requests, CreateUser(r)
        PROVE  CodesAreSerial' /\ CountedCodes'
    <2>1. users' = users
      BY <1>5 DEF CreateUser
    <2>2. CASE EmailTaken(account[r].email)
      BY <1>5, <2>1, <2>2, EndIsQuiet, SameUsersSameCodes, QuietStep DEF CreateUser
    <2>3. CASE ~ EmailTaken(account[r].email)
      <3> DEFINE to == IF account[r].kind = "student" THEN "count" ELSE "profile"
                 request == [account[r] EXCEPT !.pc = to]
      <3>1. account' = [account EXCEPT ![r] = request]
        BY <1>5, <2>3 DEF CreateUser
      <3>2. ~ (request.pc = "profile" /\ request.kind = "student")
        BY <1>0 DEF Request
      <3> HIDE DEF request
      <3>3. account'[r] = request /\ \A q \in Requests \ {r} : account'[q] = account[q]
        BY <1>0, <3>1
      <3>4. QED
        BY <2>1, <3>2, <3>3, SameUsersSameCodes, QuietStep
    <2>4. QED
      BY <2>2, <2>3
  <1>6. ASSUME NEW r \in Requests, GenerateStudentCode(r)
        PROVE  CodesAreSerial' /\ CountedCodes'
    <2> DEFINE n == Cardinality(StudentRows)
    <2>1. n \in Nat
      BY StudentRowsFinite
    <2>2. users' = users
          /\ account' = [account EXCEPT ![r] =
                           [account[r] EXCEPT !.pc = "profile", !.code = n + 1]]
      BY <1>6 DEF GenerateStudentCode
    <2>3. StudentRows' = StudentRows /\ Codes' = Codes
      BY <2>2, SameUsersSameCodes
    <2>4. account'[r].code = n + 1 /\ \A q \in Requests \ {r} : account'[q] = account[q]
      BY <1>0, <2>2 DEF Request
    <2>5. n + 1 \in 1 .. (n + 1)
      BY <2>1
    <2>6. CountedCodes'
      BY <2>3, <2>4, <2>5 DEF CountedCodes
    <2>7. QED
      BY <2>3, <2>6 DEF CodesAreSerial
  <1>7. ASSUME NEW r \in Requests, CreateStudentProfile(r)
        PROVE  CodesAreSerial' /\ CountedCodes'
    <2> DEFINE c == account[r].code
    <2>1. /\ account[r].pc = "profile" /\ account[r].kind = "student" /\ c \in Nat
          /\ AccountEnd(r)
          /\ c \in 1 .. (Cardinality(StudentRows) + 1)
      BY <1>0, <1>7 DEF CreateStudentProfile, CountedCodes, Request
    <2>2. CASE c \in Codes
      BY <1>7, <2>1, <2>2, EndIsQuiet, SameUsersSameCodes, QuietStep DEF CreateStudentProfile
    <2>3. CASE c \notin Codes
      <3>1. users' = Append(users, NewUser(r, "live", c))
        BY <1>7, <2>3 DEF CreateStudentProfile
      <3>2. /\ NewUser(r, "live", c) \in User /\ NewUser(r, "live", c).kind = "student"
            /\ NewUser(r, "live", c).code = c
        BY <2>1, NewUserType
      <3>3. CodesAreSerial' /\ Cardinality(StudentRows)' = Cardinality(StudentRows) + 1
        BY <2>1, <2>3, <3>1, <3>2, NextCode
      <3>4. Cardinality(StudentRows) \in Nat
        BY StudentRowsFinite
      <3>5. 1 .. (Cardinality(StudentRows) + 1) \subseteq 1 .. (Cardinality(StudentRows)' + 1)
        BY <3>3, <3>4
      <3>6. CountedCodes'
        BY <2>1, <3>5, EndIsQuiet DEF CountedCodes
      <3>7. QED
        BY <3>3, <3>6
    <2>4. QED
      BY <2>2, <2>3
  <1>8. ASSUME NEW r \in Requests, CreateTeacherProfile(r)
        PROVE  CodesAreSerial' /\ CountedCodes'
    <2>1. NewUser(r, "live", 0) \in User /\ NewUser(r, "live", 0).kind # "student"
      BY <1>8, NewUserType DEF CreateTeacherProfile
    <2>2. StudentRows' = StudentRows /\ Codes' = Codes
      BY <1>8, <2>1, NoNewStudent DEF CreateTeacherProfile
    <2>3. QED
      BY <1>8, <2>2, EndIsQuiet, QuietStep DEF CreateTeacherProfile
  <1>9. ASSUME NEW r \in Requests, UpdateUser(r)
        PROVE  CodesAreSerial' /\ CountedCodes'
    <2> DEFINE i == account[r].row
               e == account[r].email
               u == [users[i] EXCEPT !.email = e]
    <2>1. i \in DOMAIN users /\ e \in Emails
      BY <1>0, <1>9 DEF UpdateUser, AccountTypeOK, Request
    <2>2. u \in User /\ u.kind = users[i].kind /\ u.code = users[i].code
      BY <2>1, ColumnsType, RowType DEF User
    <2>3. users' = users \/ users' = [users EXCEPT ![i] = u]
      BY <1>9 DEF UpdateUser
    <2> HIDE DEF u
    <2>4. StudentRows' = StudentRows /\ Codes' = Codes
      BY <2>1, <2>2, <2>3, RowUpdateCodes, SameUsersSameCodes
    <2>5. QED
      BY <1>9, <2>4, EndIsQuiet, QuietStep DEF UpdateUser
  <1>10. ASSUME NEW i \in DOMAIN users, DeleteUser(i) \/ DeleteProfile(i)
         PROVE  CodesAreSerial' /\ CountedCodes'
    <2>1. PICK u \in User :
            /\ users' = [users EXCEPT ![i] = u]
            /\ u.kind = users[i].kind /\ u.code = users[i].code
      <3>1. /\ [users[i] EXCEPT !.deleted = TRUE] \in User
            /\ [users[i] EXCEPT !.profile = "deleted"] \in User
        BY AccountAssumption, ColumnsType
      <3>2. QED
        BY <1>10, <3>1, RowType DEF DeleteUser, DeleteProfile, User
    <2>2. StudentRows' = StudentRows /\ Codes' = Codes
      BY <2>1, RowUpdateCodes
    <2>3. account' = account
      BY <1>10 DEF DeleteUser, DeleteProfile
    <2>4. QED
      BY <2>2, <2>3, QuietStep
  <1>11. ASSUME NEW r \in Requests, AccountAborts(r)
         PROVE  CodesAreSerial' /\ CountedCodes'
    BY <1>11, EndIsQuiet, SameUsersSameCodes, QuietStep DEF AccountAborts
  <1>12. QED
    BY <1>1, <1>2, <1>3, <1>4, <1>5, <1>6, <1>7, <1>8, <1>9, <1>10, <1>11 DEF AccountNext

\* However creations of students overlap, fail or are followed by deletions, the
\* codes of a year have no gap and none is given twice.
THEOREM CodesAreSerialHolds == AccountSpec => []CodesAreSerial
  <1>1. AccountInit => CodesInv
    BY AccountTypeInit, CodesInit DEF CodesInv
  <1>2. CodesInv /\ [AccountNext]_accountVars => CodesInv'
    BY AccountTypeStep, CodesStep DEF CodesInv
  <1>3. CodesInv => CodesAreSerial
    BY DEF CodesInv
  <1>4. QED
    BY <1>1, <1>2, <1>3, PTL DEF AccountSpec

-----------------------------------------------------------------------------
(* Refresh tokens                                                          *)

\* One login or refresh moves, the others stand still.
AuthMoves(r, a) == a \in Auth /\ auth' = [auth EXCEPT ![r] = a]

LEMMA AuthMove ==
  ASSUME AuthTypeOK, NEW r \in Requests, NEW a, AuthMoves(r, a),
         a.pc = "store" => a.token > 0
  PROVE  /\ auth' \in [Requests -> Auth]
         /\ auth'[r] = a /\ \A q \in Requests \ {r} : auth'[q] = auth[q]
         /\ \A q \in Requests : auth'[q].pc = "store" => auth'[q].token > 0
  <1>1. auth \in [Requests -> Auth]
    BY DEF AuthTypeOK
  <1>2. /\ auth' \in [Requests -> Auth]
        /\ auth'[r] = a /\ \A q \in Requests \ {r} : auth'[q] = auth[q]
    BY <1>1 DEF AuthMoves
  <1>3. QED
    BY <1>2 DEF AuthTypeOK

LEMMA AuthRecord ==
  ASSUME NEW a \in Auth, NEW pc, NEW token
  PROVE  [a EXCEPT !.pc = pc, !.token = token] =
           [pc |-> pc, given |-> a.given, token |-> token]
  <1>1. [a EXCEPT !.pc = pc, !.token = token] = [[a EXCEPT !.pc = pc] EXCEPT !.token = token]
    OBVIOUS
  <1>2. [a EXCEPT !.pc = pc] = [pc |-> pc, given |-> a.given, token |-> a.token]
    BY DEF Auth
  <1>3. [[pc |-> pc, given |-> a.given, token |-> a.token] EXCEPT !.token = token] =
          [pc |-> pc, given |-> a.given, token |-> token]
    OBVIOUS
  <1>4. QED
    BY <1>1, <1>2, <1>3

\* What each step of a login or a refresh makes of its record.
LEMMA AuthForms ==
  ASSUME AuthTypeOK, NEW r \in Requests
  PROVE  /\ \A w : Login(r, w) =>
              AuthMoves(r, [pc |-> "sign", given |-> 0, token |-> 0])
         /\ \A t \in issued : RefreshGet(r, t) =>
              AuthMoves(r, [pc |-> IF t = stored THEN "user" ELSE "drop",
                            given |-> t, token |-> 0])
         /\ RefreshFindUser(r) => \E pc \in {"idle", "sign"} :
              AuthMoves(r, [pc |-> pc, token |-> IF pc = "idle" THEN 0 ELSE auth[r].token,
                            given |-> IF pc = "idle" THEN 0 ELSE auth[r].given])
         /\ SignToken(r) =>
              AuthMoves(r, [pc |-> "store", given |-> auth[r].given, token |-> second])
         /\ DropSession(r) \/ AuthAborts(r) \/ (\E b : StoreToken(r, b)) =>
              AuthMoves(r, NoAuth)
  <1>1. /\ auth[r] \in Auth /\ auth \in [Requests -> Auth] /\ second \in Tokens
        /\ issued \subseteq Tokens
    BY DEF AuthTypeOK
  <1>2. 0 \in Tokens /\ NoAuth \in Auth
    BY TokenAssumption DEF Tokens, NoAuth, Auth
  <1>3. ASSUME NEW w, Login(r, w)
        PROVE  AuthMoves(r, [pc |-> "sign", given |-> 0, token |-> 0])
    <2>1. [NoAuth EXCEPT !.pc = "sign"] = [pc |-> "sign", given |-> 0, token |-> 0]
      BY DEF NoAuth
    <2>2. auth' = [auth EXCEPT ![r] = [NoAuth EXCEPT !.pc = "sign"]]
      BY <1>3 DEF Login, AuthCall
    <2>3. [pc |-> "sign", given |-> 0, token |-> 0] \in Auth
      BY <1>2 DEF Auth
    <2>4. QED
      BY <2>1, <2>2, <2>3 DEF AuthMoves
  <1>4. ASSUME NEW t \in issued, RefreshGet(r, t)
        PROVE  AuthMoves(r, [pc |-> IF t = stored THEN "user" ELSE "drop",
                             given |-> t, token |-> 0])
    <2> DEFINE pc == IF t = stored THEN "user" ELSE "drop"
    <2>1. auth' = [auth EXCEPT ![r] = [NoAuth EXCEPT !.pc = pc, !.given = t]]
      BY <1>4 DEF RefreshGet, AuthCall
    <2>2. [pc |-> pc, given |-> t, token |-> 0] \in Auth
      BY <1>1, <1>2 DEF Auth
    <2> HIDE DEF pc
    <2>3. [NoAuth EXCEPT !.pc = pc, !.given = t] = [pc |-> pc, given |-> t, token |-> 0]
      <3>1. [NoAuth EXCEPT !.pc = pc, !.given = t] =
              [[NoAuth EXCEPT !.pc = pc] EXCEPT !.given = t]
        BY <1>2
      <3>2. [NoAuth EXCEPT !.pc = pc] = [pc |-> pc, given |-> 0, token |-> 0]
        BY DEF NoAuth
      <3>3. [[pc |-> pc, given |-> 0, token |-> 0] EXCEPT !.given = t] =
              [pc |-> pc, given |-> t, token |-> 0]
        OBVIOUS
      <3>4. QED
        BY <3>1, <3>2, <3>3
    <2>4. AuthMoves(r, [pc |-> pc, given |-> t, token |-> 0])
      BY <2>1, <2>2, <2>3 DEF AuthMoves
    <2>5. QED
      BY <2>4 DEF pc
  <1>5. ASSUME RefreshFindUser(r)
        PROVE  \E pc \in {"idle", "sign"} :
                 AuthMoves(r, [pc |-> pc, token |-> IF pc = "idle" THEN 0 ELSE auth[r].token,
                               given |-> IF pc = "idle" THEN 0 ELSE auth[r].given])
    <2>1. CASE AuthEnd(r, "user")
      <3>1. AuthMoves(r, [pc |-> "idle", token |-> 0, given |-> 0])
        BY <1>2, <2>1 DEF AuthEnd, NoAuth, AuthMoves
      <3>2. QED
        BY <3>1
    <2>2. CASE AuthStep(r, "user", "sign")
      <3>1. [auth[r] EXCEPT !.pc = "sign"] =
              [pc |-> "sign", token |-> auth[r].token, given |-> auth[r].given]
        BY <1>1 DEF Auth
      <3>2. AuthMoves(r, [pc |-> "sign", token |-> auth[r].token, given |-> auth[r].given])
        BY <1>1, <2>2, <3>1 DEF AuthStep, AuthMoves, Auth
      <3>3. QED
        BY <3>2
    <2>3. QED
      BY <1>5, <2>1, <2>2 DEF RefreshFindUser
  <1>6. ASSUME SignToken(r)
        PROVE  AuthMoves(r, [pc |-> "store", given |-> auth[r].given, token |-> second])
    <2>1. [auth[r] EXCEPT !.pc = "store", !.token = second] =
            [pc |-> "store", given |-> auth[r].given, token |-> second]
      BY <1>1, AuthRecord
    <2>2. QED
      BY <1>1, <1>6, <2>1 DEF SignToken, AuthMoves, Auth
  <1>7. ASSUME DropSession(r) \/ AuthAborts(r) \/ \E b : StoreToken(r, b)
        PROVE  AuthMoves(r, NoAuth)
    BY <1>2, <1>7 DEF DropSession, AuthAborts, StoreToken, AuthEnd, AuthMoves
  <1>8. QED
    BY <1>3, <1>4, <1>5, <1>6, <1>7

\* Tokens are signed in the present or in the past, a login or a refresh that has
\* one signed it after the token it was given, and a spent token is older than
\* any signed from now on.  Then requests one at a time leave neither a spent token
\* stored nor one about to be.
TokensInTime ==
  /\ second > 0
  /\ \A t \in issued : 0 < t /\ t <= second
  /\ \A t \in spent : t < second
  /\ \A r \in Requests :
       /\ auth[r].given \in issued \cup {0}
       /\ auth[r].pc = "store" =>
            auth[r].given <= auth[r].token /\ auth[r].token <= second

NoneSpent ==
  ~ authOverlap =>
    /\ \A q, r \in Requests : auth[q].pc # "idle" /\ auth[r].pc # "idle" => q = r
    /\ stored \notin spent
    /\ \A r \in Requests : auth[r].pc = "store" => auth[r].token \notin spent
    /\ SpentIsRefused

TokenInv == AuthTypeOK /\ TokensInTime /\ NoneSpent /\ LastTokenIsStored

LEMMA TokenInit == AuthInit => TokenInv
  <1> SUFFICES ASSUME AuthInit PROVE TokenInv
    OBVIOUS
  <1>1. AnyPassword \in Passwords
    BY TokenAssumption DEF AnyPassword
  <1>2. 0 \in Tokens /\ 1 \in Tokens
    BY TokenAssumption DEF Tokens
  <1>3. NoAuth \in Auth /\ NoChange \in Change
    BY <1>1, <1>2 DEF NoAuth, Auth, NoChange, Change
  <1>4. \A r \in Requests : auth[r].pc = "idle" /\ auth[r].given = 0
    BY DEF AuthInit, NoAuth
  <1>5. AuthTypeOK
    BY <1>1, <1>2, <1>3, <1>4 DEF AuthInit, AuthTypeOK, Person
  <1>6. TokensInTime /\ NoneSpent /\ LastTokenIsStored
    BY <1>4 DEF AuthInit, TokensInTime, NoneSpent, SpentIsRefused, LastTokenIsStored
  <1>7. QED
    BY <1>5, <1>6 DEF TokenInv

\* The steps that touch neither Redis nor a login or refresh.
LEMMA OtherSteps ==
  ASSUME TokenInv,
         \/ \E on \in BOOLEAN : ToggleActive(on)
         \/ SoftDeleteUser
         \/ PasswordNext
  PROVE  TokenInv'
  <1>1. UNCHANGED tokenVars
    BY DEF ToggleActive, SoftDeleteUser, PasswordNext, ChangePassword, ResetPassword,
           ChangeCall, UpdatePassword
  <1>2. person \in Person /\ change \in [Requests -> Change] /\ changeOverlap \in BOOLEAN
    BY DEF TokenInv, AuthTypeOK
  <1>3. AnyPassword \in Passwords
    BY TokenAssumption DEF AnyPassword
  <1>4. /\ person' \in Person /\ change' \in [Requests -> Change]
        /\ changeOverlap' \in BOOLEAN
    <2>1. ASSUME NEW on \in BOOLEAN, ToggleActive(on)
          PROVE  person' \in Person /\ UNCHANGED passwordVars
      BY <1>2, <2>1 DEF ToggleActive, Person
    <2>2. CASE SoftDeleteUser
      BY <1>2, <2>2 DEF SoftDeleteUser, Person, passwordVars
    <2>3. ASSUME NEW r \in Requests, NEW given \in Passwords, NEW new \in Passwords,
                 NEW reset \in BOOLEAN, ChangeCall(r, given, new, reset)
          PROVE  /\ person' = person /\ change' \in [Requests -> Change]
                 /\ changeOverlap' \in BOOLEAN
      BY <1>2, <2>3 DEF ChangeCall, Change, Meets
    <2>4. ASSUME NEW r \in Requests, UpdatePassword(r)
          PROVE  /\ person' \in Person /\ change' \in [Requests -> Change]
                 /\ changeOverlap' = changeOverlap
      <3>1. change[r].new \in Passwords /\ NoChange \in Change
        BY <1>2, <1>3 DEF Change, NoChange
      <3>2. QED
        BY <1>2, <2>4, <3>1 DEF UpdatePassword, Person
    <2>5. QED
      BY <1>2, <1>3, <2>1, <2>2, <2>3, <2>4
         DEF PasswordNext, ChangePassword, ResetPassword, passwordVars
  <1>5. AuthTypeOK'
    BY <1>1, <1>4 DEF TokenInv, AuthTypeOK, tokenVars
  <1>6. TokensInTime' /\ NoneSpent' /\ LastTokenIsStored'
    BY <1>1 DEF TokenInv, TokensInTime, NoneSpent, SpentIsRefused, LastTokenIsStored,
                tokenVars
  <1>7. QED
    BY <1>5, <1>6 DEF TokenInv

\* A step of one login or refresh that leaves Redis and the clock alone.
LEMMA QuietAuth ==
  ASSUME TokenInv, NEW r \in Requests, NEW a, AuthMoves(r, a),
         UNCHANGED <<stored, held, issued, spent, lost, second, person, change,
                     changeOverlap>>,
         /\ a.given \in issued \cup {0}
         /\ a.pc = "store" => a.token > 0 /\ a.given <= a.token /\ a.token <= second,
         \/ authOverlap' = (authOverlap \/ Meets(auth, r))
         \/ authOverlap' = authOverlap /\ auth[r].pc # "idle",
         ~ authOverlap /\ a.pc \in {"user", "sign", "store"} => a.given \notin spent,
         ~ authOverlap /\ a.pc = "store" => a.token \notin spent
  PROVE  TokenInv'
  <1>1. /\ auth' \in [Requests -> Auth]
        /\ auth'[r] = a /\ \A q \in Requests \ {r} : auth'[q] = auth[q]
        /\ \A q \in Requests : auth'[q].pc = "store" => auth'[q].token > 0
    BY AuthMove DEF TokenInv
  <1>2. authOverlap \in BOOLEAN /\ authOverlap' \in BOOLEAN
    BY DEF TokenInv, AuthTypeOK, Meets
  <1>3. AuthTypeOK'
    BY <1>1, <1>2 DEF TokenInv, AuthTypeOK
  <1>4. TokensInTime'
    <2>1. ASSUME NEW q \in Requests
          PROVE  /\ auth'[q].given \in issued \cup {0}
                 /\ auth'[q].pc = "store" =>
                      auth'[q].given <= auth'[q].token /\ auth'[q].token <= second
      BY <1>1 DEF TokenInv, TokensInTime
    <2>2. QED
      BY <2>1 DEF TokenInv, TokensInTime
  <1>5. ASSUME ~ authOverlap'
        PROVE  /\ ~ authOverlap
               /\ \A q \in Requests \ {r} : auth[q].pc = "idle"
    <2>1. ~ authOverlap
      BY <1>5
    <2>2. CASE ~ Meets(auth, r)
      BY <2>1, <2>2 DEF Meets
    <2>3. CASE auth[r].pc # "idle"
      BY <2>1, <2>3 DEF TokenInv, NoneSpent
    <2>4. QED
      BY <1>5, <2>1, <2>2, <2>3
  <1>6. NoneSpent'
    <2> SUFFICES ASSUME ~ authOverlap'
                 PROVE  /\ \A q, s \in Requests :
                             auth'[q].pc # "idle" /\ auth'[s].pc # "idle" => q = s
                        /\ stored' \notin spent'
                        /\ \A q \in Requests :
                             auth'[q].pc = "store" => auth'[q].token \notin spent'
                        /\ SpentIsRefused'
      BY DEF NoneSpent
    <2>1. ~ authOverlap /\ \A q \in Requests \ {r} : auth'[q].pc = "idle"
      BY <1>1, <1>5
    <2>2. stored \notin spent
      BY <2>1 DEF TokenInv, NoneSpent
    <2>3. QED
      BY <1>1, <2>1, <2>2 DEF SpentIsRefused
  <1>7. LastTokenIsStored'
    BY <1>2 DEF TokenInv, LastTokenIsStored
  <1>8. QED
    BY <1>3, <1>4, <1>6, <1>7 DEF TokenInv

LEMMA LoginStep ==
  ASSUME TokenInv, NEW r \in Requests, NEW w, Login(r, w)
  PROVE  TokenInv'
  <1>1. AuthMoves(r, [pc |-> "sign", given |-> 0, token |-> 0])
    BY AuthForms DEF TokenInv
  <1>2. 0 \notin spent
    BY DEF TokenInv, AuthTypeOK, TokensInTime
  <1>3. /\ UNCHANGED <<stored, held, issued, spent, lost, second, person, change,
                       changeOverlap>>
        /\ authOverlap' = (authOverlap \/ Meets(auth, r))
    BY DEF Login, AuthCall, passwordVars
  <1>4. QED
    BY <1>1, <1>2, <1>3, QuietAuth

LEMMA RefreshGetStep ==
  ASSUME TokenInv, NEW r \in Requests, NEW t \in issued, RefreshGet(r, t)
  PROVE  TokenInv'
  <1> DEFINE pc == IF t = stored THEN "user" ELSE "drop"
  <1>1. AuthMoves(r, [pc |-> pc, given |-> t, token |-> 0])
    BY AuthForms DEF TokenInv
  <1>2. /\ UNCHANGED <<stored, held, issued, spent, lost, second, person, change,
                       changeOverlap>>
        /\ authOverlap' = (authOverlap \/ Meets(auth, r))
    BY DEF RefreshGet, AuthCall, passwordVars
  <1>3. /\ ~ authOverlap => stored \notin spent
        /\ pc # "store" /\ (pc \in {"user", "sign", "store"} => t = stored)
    BY DEF TokenInv, NoneSpent
  <1> HIDE DEF pc
  <1>4. QED
    BY <1>1, <1>2, <1>3, QuietAuth

LEMMA FindUserStep ==
  ASSUME TokenInv, NEW r \in Requests, RefreshFindUser(r)
  PROVE  TokenInv'
  <1>1. /\ UNCHANGED <<stored, held, issued, spent, lost, second, person, change,
                       changeOverlap>>
        /\ authOverlap' = authOverlap /\ auth[r].pc = "user"
    BY DEF RefreshFindUser, AuthEnd, AuthStep, passwordVars
  <1>2. /\ ~ authOverlap => auth[r].given \notin spent
        /\ auth[r].given \in issued \cup {0}
    BY <1>1 DEF TokenInv, NoneSpent, SpentIsRefused, TokensInTime
  <1>3. PICK pc \in {"idle", "sign"} :
          AuthMoves(r, [pc |-> pc, token |-> IF pc = "idle" THEN 0 ELSE auth[r].token,
                        given |-> IF pc = "idle" THEN 0 ELSE auth[r].given])
    BY AuthForms DEF TokenInv
  <1>4. CASE pc = "idle"
    <2>1. AuthMoves(r, [pc |-> "idle", token |-> 0, given |-> 0])
      BY <1>3, <1>4
    <2>2. QED
      BY <1>1, <2>1, QuietAuth
  <1>5. CASE pc = "sign"
    <2>1. AuthMoves(r, [pc |-> "sign", token |-> auth[r].token, given |-> auth[r].given])
      BY <1>3, <1>5
    <2>2. QED
      BY <1>1, <1>2, <2>1, QuietAuth
  <1>6. QED
    BY <1>4, <1>5

LEMMA SignStep ==
  ASSUME TokenInv, NEW r \in Requests, SignToken(r)
  PROVE  TokenInv'
  <1>1. /\ UNCHANGED <<stored, held, issued, spent, lost, second, person, change,
                       changeOverlap>>
        /\ authOverlap' = authOverlap /\ auth[r].pc = "sign"
    BY DEF SignToken, passwordVars
  <1>2. AuthMoves(r, [pc |-> "store", given |-> auth[r].given, token |-> second])
    BY AuthForms, <1>1 DEF TokenInv
  <1>3. second \in Nat /\ second > 0
    BY TokenAssumption DEF TokenInv, AuthTypeOK, TokensInTime, Tokens
  <1>4. /\ ~ authOverlap => auth[r].given \notin spent
        /\ auth[r].given \in issued \cup {0} /\ auth[r].given <= second
        /\ second \notin spent
    BY <1>1, <1>3 DEF TokenInv, NoneSpent, SpentIsRefused, TokensInTime
  <1>5. QED
    BY <1>1, <1>2, <1>3, <1>4, QuietAuth

LEMMA AuthAbortStep ==
  ASSUME TokenInv, NEW r \in Requests, AuthAborts(r)
  PROVE  TokenInv'
  <1>1. /\ UNCHANGED <<stored, held, issued, spent, lost, second, person, change,
                       changeOverlap>>
        /\ authOverlap' = authOverlap /\ auth[r].pc # "idle"
    BY DEF AuthAborts, passwordVars
  <1>2. AuthMoves(r, NoAuth)
    BY AuthForms DEF TokenInv
  <1>3. NoAuth.pc = "idle" /\ NoAuth.given = 0
    BY DEF NoAuth
  <1>4. QED
    BY <1>1, <1>2, <1>3, QuietAuth

\* No token is stored, and no client has one.
LEMMA NothingStored ==
  ASSUME TokenInv, stored' = 0, held' = 0,
         UNCHANGED <<issued, spent, lost, second, person, change, changeOverlap>>,
         \/ \E r \in Requests : /\ AuthMoves(r, NoAuth) /\ auth[r].pc # "idle"
                              /\ authOverlap' = authOverlap
         \/ auth' = auth /\ authOverlap' = (authOverlap \/ \E r \in Requests : auth[r].pc # "idle")
  PROVE  TokenInv'
  <1>1. 0 \in Tokens /\ 0 \notin spent
    BY TokenAssumption DEF TokenInv, AuthTypeOK, TokensInTime, Tokens
  <1>2. NoAuth.pc = "idle" /\ NoAuth.given = 0
    BY DEF NoAuth
  <1>3. /\ auth' \in [Requests -> Auth] /\ authOverlap' \in BOOLEAN
        /\ \A q \in Requests : auth'[q] = auth[q] \/ auth'[q] = NoAuth
    <2>1. ASSUME NEW r \in Requests, AuthMoves(r, NoAuth)
          PROVE  /\ auth' \in [Requests -> Auth]
                 /\ \A q \in Requests : auth'[q] = auth[q] \/ auth'[q] = NoAuth
      BY <1>2, <2>1, AuthMove DEF TokenInv
    <2>2. authOverlap' \in BOOLEAN
      BY DEF TokenInv, AuthTypeOK
    <2>3. CASE auth' = auth
      BY <2>2, <2>3 DEF TokenInv, AuthTypeOK
    <2>4. QED
      BY <2>1, <2>2, <2>3
  <1>4. AuthTypeOK'
    <2>1. \A q \in Requests : auth'[q].pc = "store" => auth'[q].token > 0
      BY <1>2, <1>3 DEF TokenInv, AuthTypeOK
    <2>2. QED
      BY <1>1, <1>3, <2>1 DEF TokenInv, AuthTypeOK
  <1>5. TokensInTime'
    BY <1>2, <1>3 DEF TokenInv, TokensInTime
  <1>6. NoneSpent'
    <2>1. ASSUME ~ authOverlap' PROVE ~ authOverlap
      BY <2>1
    <2>2. ASSUME ~ authOverlap'
          PROVE  /\ \A q, s \in Requests :
                      auth'[q].pc # "idle" /\ auth'[s].pc # "idle" => q = s
                 /\ \A q \in Requests :
                      auth'[q].pc = "store" => auth'[q].token \notin spent'
                 /\ SpentIsRefused'
      BY <1>2, <1>3, <2>1, <2>2 DEF TokenInv, NoneSpent, SpentIsRefused
    <2>3. QED
      BY <1>1, <2>2 DEF NoneSpent
  <1>7. LastTokenIsStored'
    BY DEF LastTokenIsStored
  <1>8. QED
    BY <1>4, <1>5, <1>6, <1>7 DEF TokenInv

LEMMA StoreStep ==
  ASSUME TokenInv, NEW r \in Requests, NEW arrives \in BOOLEAN, StoreToken(r, arrives)
  PROVE  TokenInv'
  <1> DEFINE given == auth[r].given
             token == auth[r].token
  <1>1. AuthMoves(r, NoAuth) /\ NoAuth.pc = "idle" /\ NoAuth.given = 0
    BY AuthForms DEF TokenInv, NoAuth
  <1>2. /\ auth' \in [Requests -> Auth] /\ auth'[r] = NoAuth
        /\ \A q \in Requests \ {r} : auth'[q] = auth[q]
        /\ \A q \in Requests : auth'[q].pc = "store" => auth'[q].token > 0
    BY <1>1, AuthMove DEF TokenInv
  <1>3. /\ auth[r].pc = "store" /\ stored' = token /\ issued' = issued \cup {token}
        /\ held' = IF arrives THEN token ELSE held
        /\ lost' = (lost \/ ~ arrives)
        /\ spent' = IF given = 0 THEN spent ELSE (spent \cup {given}) \ {token}
        /\ UNCHANGED <<second, person, authOverlap, change, changeOverlap>>
    BY DEF StoreToken, AuthEnd, passwordVars
  <1>4. /\ token \in Tokens /\ given \in Tokens
        /\ given \in issued \cup {0} /\ given <= token /\ token <= second /\ token > 0
        /\ second \in Nat /\ issued \subseteq Tokens /\ spent \subseteq issued
        /\ stored \in Tokens /\ held \in Tokens /\ lost \in BOOLEAN
    BY <1>3, TokenAssumption DEF TokenInv, AuthTypeOK, TokensInTime, Auth, Tokens
  <1>5. Tokens \subseteq Nat
    BY TokenAssumption DEF Tokens
  <1> HIDE DEF given, token
  <1>6. AuthTypeOK'
    <2>1. spent' \subseteq issued' /\ issued' \subseteq Tokens
      BY <1>3, <1>4
    <2>2. stored' \in Tokens /\ held' \in Tokens /\ lost' \in BOOLEAN
      BY <1>3, <1>4
    <2>3. QED
      BY <1>2, <1>3, <2>1, <2>2 DEF TokenInv, AuthTypeOK
  <1>7. TokensInTime'
    <2>1. second' > 0 /\ \A t \in issued' : 0 < t /\ t <= second'
      BY <1>3, <1>4 DEF TokenInv, TokensInTime
    <2>2. ASSUME NEW t \in spent' PROVE t < second'
      <3>1. CASE t \in spent
        BY <1>3, <3>1 DEF TokenInv, TokensInTime
      <3>2. CASE t = given /\ t # token
        BY <1>3, <1>4, <1>5, <3>2
      <3>3. QED
        BY <1>3, <2>2, <3>1, <3>2
    <2>3. ASSUME NEW q \in Requests
          PROVE  /\ auth'[q].given \in issued' \cup {0}
                 /\ auth'[q].pc = "store" =>
                      auth'[q].given <= auth'[q].token /\ auth'[q].token <= second'
      BY <1>1, <1>2, <1>3 DEF TokenInv, TokensInTime
    <2>4. QED
      BY <2>1, <2>2, <2>3 DEF TokensInTime
  <1>8. NoneSpent'
    <2> SUFFICES ASSUME ~ authOverlap'
                 PROVE  /\ \A q, s \in Requests :
                             auth'[q].pc # "idle" /\ auth'[s].pc # "idle" => q = s
                        /\ stored' \notin spent'
                        /\ \A q \in Requests :
                             auth'[q].pc = "store" => auth'[q].token \notin spent'
                        /\ SpentIsRefused'
      BY DEF NoneSpent
    <2>1. \A q \in Requests : auth'[q].pc = "idle"
      BY <1>1, <1>2, <1>3 DEF TokenInv, NoneSpent
    <2>2. token \notin spent
      BY <1>3 DEF TokenInv, NoneSpent, token
    <2>3. QED
      BY <1>3, <2>1, <2>2 DEF SpentIsRefused
  <1>9. LastTokenIsStored'
    BY <1>3, <1>4 DEF TokenInv, LastTokenIsStored
  <1>10. QED
    BY <1>6, <1>7, <1>8, <1>9 DEF TokenInv

LEMMA TokenInvStep == TokenInv /\ [TokenNext \/ PasswordNext]_authVars => TokenInv'
  <1> SUFFICES ASSUME TokenInv, [TokenNext \/ PasswordNext]_authVars PROVE TokenInv'
    OBVIOUS
  <1>1. ASSUME NEW r \in Requests, DropSession(r) PROVE TokenInv'
    <2>1. AuthMoves(r, NoAuth) /\ auth[r].pc # "idle"
      BY <1>1, AuthForms DEF TokenInv, DropSession, AuthEnd
    <2>2. QED
      BY <1>1, <2>1, NothingStored DEF DropSession, passwordVars
  <1>2. CASE Logout
    BY <1>2, NothingStored DEF Logout, passwordVars
  <1>3. CASE NextSecond
    <2>1. /\ second' = second + 1 /\ second \in Tokens /\ second' \in Tokens
          /\ UNCHANGED <<stored, held, issued, spent, lost, auth, authOverlap, person,
                         change, changeOverlap>>
      BY <1>3, TokenAssumption DEF NextSecond, TokenInv, AuthTypeOK, Tokens, passwordVars
    <2>2. AuthTypeOK'
      BY <2>1 DEF TokenInv, AuthTypeOK
    <2>3. TokensInTime'
      <3>1. /\ second \in Nat /\ issued \subseteq Nat /\ spent \subseteq Nat
            /\ \A r \in Requests : auth[r].token \in Nat
        BY <2>1, TokenAssumption DEF TokenInv, AuthTypeOK, Tokens, Auth
      <3>2. QED
        BY <2>1, <3>1 DEF TokenInv, TokensInTime
    <2>4. NoneSpent' /\ LastTokenIsStored'
      BY <2>1 DEF TokenInv, NoneSpent, SpentIsRefused, LastTokenIsStored
    <2>5. QED
      BY <2>2, <2>3, <2>4 DEF TokenInv
  <1>4. CASE UNCHANGED authVars
    BY <1>4 DEF authVars, TokenInv, AuthTypeOK, TokensInTime, NoneSpent, SpentIsRefused,
                LastTokenIsStored
  <1>5. QED
    BY <1>1, <1>2, <1>3, <1>4, LoginStep, RefreshGetStep, FindUserStep, SignStep,
       StoreStep, AuthAbortStep, OtherSteps DEF TokenNext

LEMMA TokenInvariant == AuthSpec => []TokenInv
  BY TokenInit, TokenInvStep, PTL DEF AuthSpec

\* Type correctness of the key, the tokens, the row and the requests; a token about
\* to be stored is one.
THEOREM AuthTypeCorrect == AuthSpec => []AuthTypeOK
  <1>1. TokenInv => AuthTypeOK
    BY DEF TokenInv
  <1>2. QED
    BY <1>1, TokenInvariant, PTL

\* Requests one at a time whose answers arrive leave the client with the token that
\* Redis has (auth.service.ts:101).
THEOREM LastTokenIsStoredHolds == AuthSpec => []LastTokenIsStored
  <1>1. TokenInv => LastTokenIsStored
    BY DEF TokenInv
  <1>2. QED
    BY <1>1, TokenInvariant, PTL

\* Requests one at a time never accept a token again that was exchanged for another,
\* though tokens signed in one second are the same (auth.service.ts:82).
THEOREM SpentIsRefusedHolds == AuthSpec => []SpentIsRefused
  <1>1. NoneSpent => SpentIsRefused
    BY DEF NoneSpent, SpentIsRefused
  <1>2. TokenInv => NoneSpent
    BY DEF TokenInv
  <1>3. QED
    BY <1>1, <1>2, TokenInvariant, PTL

-----------------------------------------------------------------------------
(* One step for the two commands of an exchange                             *)

\* A refresh that was let in still has the stored token in its hands.  Only this is
\* missing in TokenInv for the refinement: NoneSpent says which tokens are not stored,
\* not which one is.
GivenIsStored ==
  ~ authOverlap =>
    \A r \in Requests :
      auth[r].pc \in {"user", "sign", "store"} /\ auth[r].given # 0 => stored = auth[r].given

LEMMA GivenInit == AuthInit => GivenIsStored
  BY DEF AuthInit, GivenIsStored, NoAuth

\* Requests that leave the key alone.
LEMMA GivenQuiet ==
  ASSUME TokenInv, GivenIsStored, NEW r \in Requests, NEW a, AuthMoves(r, a),
         stored' = stored, ~ authOverlap' => ~ authOverlap,
         ~ authOverlap /\ a.pc \in {"user", "sign", "store"} /\ a.given # 0 => stored = a.given
  PROVE  GivenIsStored'
  <1>1. auth'[r] = a /\ \A q \in Requests \ {r} : auth'[q] = auth[q]
    BY DEF AuthMoves, TokenInv, AuthTypeOK
  <1>2. QED
    BY <1>1 DEF GivenIsStored

\* Requests that end with what they do to the key.
LEMMA GivenEnds ==
  ASSUME TokenInv, NEW r \in Requests, AuthMoves(r, NoAuth), auth[r].pc # "idle",
         authOverlap' = authOverlap
  PROVE  GivenIsStored'
  <1>1. auth'[r] = NoAuth /\ \A q \in Requests \ {r} : auth'[q] = auth[q]
    BY DEF AuthMoves, TokenInv, AuthTypeOK
  <1>2. ~ authOverlap => \A q \in Requests : auth'[q].pc = "idle"
    BY <1>1 DEF TokenInv, NoneSpent, NoAuth
  <1>3. QED
    BY <1>2 DEF GivenIsStored

LEMMA GivenStep ==
  TokenInv /\ GivenIsStored /\ [TokenNext \/ PasswordNext]_authVars => GivenIsStored'
  <1> SUFFICES ASSUME TokenInv, GivenIsStored, [TokenNext \/ PasswordNext]_authVars
               PROVE  GivenIsStored'
    OBVIOUS
  <1>0. AuthTypeOK
    BY DEF TokenInv
  <1>1. ASSUME NEW r \in Requests, NEW w, Login(r, w) PROVE GivenIsStored'
    <2>1. AuthMoves(r, [pc |-> "sign", given |-> 0, token |-> 0])
      BY <1>0, <1>1, AuthForms
    <2>2. QED
      BY <1>1, <2>1, GivenQuiet DEF Login, AuthCall
  <1>2. ASSUME NEW r \in Requests, NEW t \in issued, RefreshGet(r, t) PROVE GivenIsStored'
    <2> DEFINE pc == IF t = stored THEN "user" ELSE "drop"
    <2>1. AuthMoves(r, [pc |-> pc, given |-> t, token |-> 0])
      BY <1>0, <1>2, AuthForms
    <2>2. pc \in {"user", "sign", "store"} => t = stored
      OBVIOUS
    <2> HIDE DEF pc
    <2>3. QED
      BY <1>2, <2>1, <2>2, GivenQuiet DEF RefreshGet, AuthCall
  <1>3. ASSUME NEW r \in Requests, RefreshFindUser(r) PROVE GivenIsStored'
    <2>1. stored' = stored /\ authOverlap' = authOverlap /\ auth[r].pc = "user"
      BY <1>3 DEF RefreshFindUser, AuthEnd, AuthStep
    <2>2. PICK pc \in {"idle", "sign"} :
            AuthMoves(r, [pc |-> pc, token |-> IF pc = "idle" THEN 0 ELSE auth[r].token,
                          given |-> IF pc = "idle" THEN 0 ELSE auth[r].given])
      BY <1>0, <1>3, AuthForms
    <2>3. ~ authOverlap /\ auth[r].given # 0 => stored = auth[r].given
      BY <2>1 DEF GivenIsStored
    <2>4. QED
      BY <2>1, <2>2, <2>3, GivenQuiet
  <1>4. ASSUME NEW r \in Requests, SignToken(r) PROVE GivenIsStored'
    <2>1. AuthMoves(r, [pc |-> "store", given |-> auth[r].given, token |-> second])
      BY <1>0, <1>4, AuthForms
    <2>2. ~ authOverlap /\ auth[r].given # 0 => stored = auth[r].given
      BY <1>4 DEF SignToken, GivenIsStored
    <2>3. QED
      BY <1>4, <2>1, <2>2, GivenQuiet DEF SignToken
  <1>5. ASSUME NEW r \in Requests,
               DropSession(r) \/ AuthAborts(r) \/ \E b \in BOOLEAN : StoreToken(r, b)
        PROVE  GivenIsStored'
    <2>1. AuthMoves(r, NoAuth)
      BY <1>0, <1>5, AuthForms
    <2>2. auth[r].pc # "idle" /\ authOverlap' = authOverlap
      BY <1>5 DEF DropSession, AuthAborts, StoreToken, AuthEnd
    <2>3. QED
      BY <2>1, <2>2, GivenEnds
  <1>6. CASE Logout
    BY <1>6 DEF Logout, GivenIsStored
  <1>7. CASE \/ NextSecond \/ SoftDeleteUser \/ PasswordNext \/ UNCHANGED authVars
             \/ \E on \in BOOLEAN : ToggleActive(on)
    <2>1. UNCHANGED <<stored, auth, authOverlap>>
      BY <1>7 DEF NextSecond, ToggleActive, SoftDeleteUser, PasswordNext, ChangePassword,
                  ResetPassword, ChangeCall, UpdatePassword, tokenVars, authVars
    <2>2. QED
      BY <2>1 DEF GivenIsStored
  <1>8. QED
    BY <1>1, <1>2, <1>3, <1>4, <1>5, <1>6, <1>7 DEF TokenNext

\* Storing a token is the exchange, or the login.
LEMMA StoreIsExchange ==
  ASSUME TokenInv, GivenIsStored, NEW r \in Requests, NEW arrives \in BOOLEAN,
         StoreToken(r, arrives)
  PROVE  SingleUse!Next
  <1> DEFINE given == auth[r].given
             t == auth[r].token
  <1>1. /\ auth[r].pc = "store" /\ stored' = t /\ authOverlap' = authOverlap
        /\ spent' = IF given = 0 THEN spent ELSE (spent \cup {given}) \ {t}
    BY DEF StoreToken, AuthEnd
  <1>2. t \in Tokens \ {0} /\ given \in Tokens
    BY <1>1, TokenAssumption DEF TokenInv, AuthTypeOK, Auth, Tokens
  <1>3. CASE ~ authOverlap
    <2>1. t \notin spent /\ (given # 0 => stored = given)
      BY <1>1, <1>3 DEF TokenInv, NoneSpent, GivenIsStored
    <2>2. CASE given = 0
      <3>1. SingleUse!Open(t)
        BY <1>1, <2>1, <2>2 DEF SingleUse!Open
      <3>2. QED
        BY <1>2, <3>1 DEF SingleUse!Next
    <2>3. CASE given # 0
      <3>1. spent' = spent \cup ({stored} \ {t})
        BY <1>1, <2>1, <2>3
      <3>2. SingleUse!Exchange(t)
        BY <1>1, <2>1, <2>3, <3>1 DEF SingleUse!Exchange
      <3>3. QED
        BY <1>2, <3>2 DEF SingleUse!Next
    <2>4. QED
      BY <2>2, <2>3
  <1>4. CASE authOverlap
    <2>1. PICK g \in Tokens \ {0} : spent' \in {spent, (spent \cup {g}) \ {t}}
      <3>1. CASE given = 0
        BY <1>1, <1>2, <3>1
      <3>2. CASE given # 0
        BY <1>1, <1>2, <3>2
      <3>3. QED
        BY <3>1, <3>2
    <2>2. SingleUse!Overwrite(g, t)
      BY <1>1, <1>4, <2>1 DEF SingleUse!Overwrite
    <2>3. QED
      BY <1>2, <2>1, <2>2 DEF SingleUse!Next
  <1>5. QED
    BY <1>3, <1>4

LEMMA TokensRefine ==
  TokenInv /\ GivenIsStored /\ [TokenNext \/ PasswordNext]_authVars
    => [SingleUse!Next]_(SingleUse!vars)
  <1> SUFFICES ASSUME TokenInv, GivenIsStored, [TokenNext \/ PasswordNext]_authVars
               PROVE  [SingleUse!Next]_(SingleUse!vars)
    OBVIOUS
  <1>0. authOverlap \in BOOLEAN
    BY DEF TokenInv, AuthTypeOK
  <1>1. ASSUME NEW r \in Requests,
               \/ \E w \in Passwords : Login(r, w)
               \/ \E t \in issued : RefreshGet(r, t)
        PROVE  [SingleUse!Next]_(SingleUse!vars)
    <2>1. /\ UNCHANGED <<stored, spent>>
          /\ authOverlap' = authOverlap \/ authOverlap' = TRUE
      BY <1>0, <1>1 DEF Login, RefreshGet, AuthCall, Meets
    <2>2. CASE authOverlap' = TRUE
      BY <2>1, <2>2 DEF SingleUse!Meet, SingleUse!Next
    <2>3. CASE authOverlap' = authOverlap
      BY <2>1, <2>3 DEF SingleUse!vars
    <2>4. QED
      BY <2>1, <2>2, <2>3
  <1>2. ASSUME NEW r \in Requests, DropSession(r)
        PROVE  SingleUse!Next
    BY <1>2 DEF DropSession, AuthEnd, SingleUse!End, SingleUse!Next
  <1>3. CASE Logout
    <2>1. CASE \E r \in Requests : auth[r].pc # "idle"
      BY <1>3, <2>1 DEF Logout, SingleUse!Meet, SingleUse!Next
    <2>2. CASE ~ \E r \in Requests : auth[r].pc # "idle"
      <3>1. authOverlap' = authOverlap
        BY <1>0, <1>3, <2>2 DEF Logout
      <3>2. QED
        BY <1>3, <3>1 DEF Logout, SingleUse!End, SingleUse!Next
    <2>3. QED
      BY <2>1, <2>2
  <1>4. CASE \/ NextSecond \/ SoftDeleteUser \/ PasswordNext \/ UNCHANGED authVars
             \/ \E on \in BOOLEAN : ToggleActive(on)
             \/ \E r \in Requests : RefreshFindUser(r) \/ SignToken(r) \/ AuthAborts(r)
    <2>1. UNCHANGED <<stored, spent, authOverlap>>
      BY <1>4 DEF NextSecond, ToggleActive, SoftDeleteUser, PasswordNext, ChangePassword,
                  ResetPassword, ChangeCall, UpdatePassword, RefreshFindUser, AuthStep,
                  AuthEnd, SignToken, AuthAborts, tokenVars, authVars
    <2>2. QED
      BY <2>1 DEF SingleUse!vars
  <1>5. QED
    BY <1>1, <1>2, <1>3, <1>4, StoreIsExchange DEF TokenNext

\* GET, a query, signing and SETEX are one exchange of the stored token for a new
\* one, for any number of requests one at a time, whatever else happens to the user
\* and wherever a request is cut off (auth.service.ts:78).
THEOREM ExchangesAreAtomicHolds == AuthSpec => ExchangesAreAtomic
  <1>1. AuthInit => SingleUse!Init
    BY DEF AuthInit, SingleUse!Init
  <1>2. AuthSpec => []GivenIsStored
    BY TokenInvariant, GivenInit, GivenStep, PTL DEF AuthSpec
  <1>3. QED
    BY <1>1, <1>2, TokenInvariant, TokensRefine, PTL
       DEF AuthSpec, ExchangesAreAtomic, SingleUse!Spec

-----------------------------------------------------------------------------
(* Routes                                                                  *)

\* The path of a client that has an id for each parameter of a route.
Concrete(path) == [s \in DOMAIN path |-> IF path[s] = "*" THEN "id" ELSE path[s]]

\* The pattern p does not take what a client sends for q.
Clash(p, q) == p # "*" /\ p # q /\ (q = "*" => p # "id")

ClashAt(a, b, s) == Len(a.path) >= s /\ Clash(a.path[s], b.path[s])

Unlike(a, b) == a.method # b.method \/ Len(a.path) # Len(b.path)

\* The route a takes no request for the route b; three segments tell all of them apart.
Apart(a, b) ==
  \/ Unlike(a, b)
  \/ ClashAt(a, b, 1) \/ ClashAt(a, b, 2) \/ ClashAt(a, b, 3)

PathOK(route) == Len(route.path) \in 0 .. 5 /\ DOMAIN route.path = 1 .. Len(route.path)

\* No route comes behind one that takes its requests.
NoneHidden(router) ==
  /\ DOMAIN router \subseteq Nat
  /\ \A i \in DOMAIN router : PathOK(router[i])
  /\ \A i, j \in DOMAIN router : j < i => Apart(router[j], router[i])

\* One router after the other, the long ones in parts.
LEMMA EachRouter ==
  /\ NoneHidden(authRoutes) /\ NoneHidden(roleRoutes) /\ NoneHidden(permissionRoutes)
  /\ NoneHidden(rolePermissionRoutes) /\ NoneHidden(userRoutes)
  /\ NoneHidden(studentRoutes) /\ NoneHidden(teacherRoutes)
  /\ NoneHidden(academicSessionRoutes) /\ NoneHidden(classRoutes)
  /\ NoneHidden(subjectRoutes) /\ NoneHidden(sectionRoutes)
  /\ NoneHidden(subjectAssignmentRoutes) /\ NoneHidden(studentEnrollmentRoutes)
  /\ NoneHidden(examRoutes) /\ NoneHidden(examResultRoutes) /\ NoneHidden(rankingRoutes)
  /\ NoneHidden(attendanceRoutes) /\ NoneHidden(errorLogRoutes) /\ NoneHidden(uploadRoutes)
  <1> USE DEF Route, Get, Post, Put, Patch, Delete
  <1>1. NoneHidden(authRoutes)
    BY SMTT(60) DEF NoneHidden, PathOK, Apart, Unlike, ClashAt, Clash,
                     authRoutes
  <1>2. NoneHidden(roleRoutes)
    BY SMTT(60) DEF NoneHidden, PathOK, Apart, Unlike, ClashAt, Clash,
                     roleRoutes
  <1>3. NoneHidden(permissionRoutes)
    BY SMTT(60) DEF NoneHidden, PathOK, Apart, Unlike, ClashAt, Clash,
                     permissionRoutes
  <1>4. NoneHidden(rolePermissionRoutes)
    <2> DEFINE Before(j, i) == Unlike(rolePermissionRoutes[j], rolePermissionRoutes[i])
    <2>1. DOMAIN rolePermissionRoutes = 1 .. 5 /\ \A i \in 1 .. 5 : PathOK(rolePermissionRoutes[i])
      BY SMTT(60) DEF PathOK, rolePermissionRoutes
    <2>2. Apart(rolePermissionRoutes[1], rolePermissionRoutes[2])
      BY SMTT(60) DEF Apart, Unlike, ClashAt, Clash, rolePermissionRoutes
    <2>3. /\ Before(1, 3) /\ Before(1, 4) /\ Before(1, 5) /\ Before(2, 3) /\ Before(2, 4)
          /\ Before(2, 5) /\ Before(3, 4) /\ Before(3, 5) /\ Before(4, 5)
      BY SMTT(60) DEF Unlike, rolePermissionRoutes
    <2> HIDE DEF Before
    <2>4. \A i, j \in 1 .. 5 : j < i => Before(j, i) \/ (j = 1 /\ i = 2)
      BY <2>3
    <2>5. QED
      BY <2>1, <2>2, <2>4 DEF NoneHidden, Apart, Before
  <1>5. NoneHidden(userRoutes)
    BY SMTT(60) DEF NoneHidden, PathOK, Apart, Unlike, ClashAt, Clash,
                     userRoutes
  <1>6. NoneHidden(studentRoutes)
    BY SMTT(60) DEF NoneHidden, PathOK, Apart, Unlike, ClashAt, Clash,
                     studentRoutes
  <1>7. NoneHidden(teacherRoutes)
    BY SMTT(60) DEF NoneHidden, PathOK, Apart, Unlike, ClashAt, Clash,
                     teacherRoutes
  <1>8. NoneHidden(academicSessionRoutes)
    BY SMTT(60) DEF NoneHidden, PathOK, Apart, Unlike, ClashAt, Clash,
                     academicSessionRoutes
  <1>9. NoneHidden(classRoutes)
    BY SMTT(60) DEF NoneHidden, PathOK, Apart, Unlike, ClashAt, Clash,
                     classRoutes
  <1>10. NoneHidden(subjectRoutes)
    BY SMTT(60) DEF NoneHidden, PathOK, Apart, Unlike, ClashAt, Clash,
                     subjectRoutes
  <1>11. NoneHidden(sectionRoutes)
    BY SMTT(60) DEF NoneHidden, PathOK, Apart, Unlike, ClashAt, Clash,
                     sectionRoutes
  <1>12. NoneHidden(subjectAssignmentRoutes)
    <2> DEFINE method(i) == subjectAssignmentRoutes[i].method
               length(i) == Len(subjectAssignmentRoutes[i].path)
    <2>1. DOMAIN subjectAssignmentRoutes = 1 .. 6 /\ \A i \in 1 .. 6 : PathOK(subjectAssignmentRoutes[i])
      BY SMTT(60) DEF PathOK, subjectAssignmentRoutes
    <2>2. length(1) = 0 /\ length(2) = 1 /\ length(3) = 2
      BY SMTT(60) DEF subjectAssignmentRoutes
    <2>3. /\ \A i \in 1 .. 3 : method(i) = "GET"
          /\ method(4) = "POST" /\ method(5) = "PATCH" /\ method(6) = "DELETE"
      BY SMTT(60) DEF subjectAssignmentRoutes
    <2> HIDE DEF method, length
    <2>4. \A i, j \in 1 .. 6 :
            j < i => method(j) # method(i) \/ length(j) # length(i)
      BY <2>2, <2>3
    <2>5. QED
      BY <2>1, <2>4 DEF NoneHidden, Apart, Unlike, method, length
  <1>13. NoneHidden(studentEnrollmentRoutes)
    BY SMTT(60) DEF NoneHidden, PathOK, Apart, Unlike, ClashAt, Clash,
                     studentEnrollmentRoutes
  <1>14. NoneHidden(examRoutes)
    BY SMTT(60) DEF NoneHidden, PathOK, Apart, Unlike, ClashAt, Clash,
                     examRoutes
  <1>15. NoneHidden(examResultRoutes)
    <2> DEFINE method(i) == examResultRoutes[i].method
               length(i) == Len(examResultRoutes[i].path)
    <2>1. DOMAIN examResultRoutes = 1 .. 8 /\ \A i \in 1 .. 8 : PathOK(examResultRoutes[i])
      BY SMTT(60) DEF PathOK, examResultRoutes
    <2>2. length(1) = 0 /\ length(2) = 1 /\ length(3) = 2 /\ length(4) = 5
      BY SMTT(60) DEF examResultRoutes
    <2>3. length(5) = 0 /\ length(6) = 1
      BY SMTT(60) DEF examResultRoutes
    <2>4. /\ \A i \in 1 .. 4 : method(i) = "GET"
          /\ method(5) = "POST" /\ method(6) = "POST"
          /\ method(7) = "PATCH" /\ method(8) = "DELETE"
      BY SMTT(60) DEF examResultRoutes
    <2> HIDE DEF method, length
    <2>5. \A i, j \in 1 .. 8 : j < i => method(j) # method(i) \/ length(j) # length(i)
      BY <2>2, <2>3, <2>4
    <2>6. QED
      BY <2>1, <2>5 DEF NoneHidden, Apart, Unlike, method, length
  <1>16. NoneHidden(rankingRoutes)
    <2> DEFINE method(i) == rankingRoutes[i].method
               length(i) == Len(rankingRoutes[i].path)
    <2>1. DOMAIN rankingRoutes = 1 .. 6 /\ \A i \in 1 .. 6 : PathOK(rankingRoutes[i])
      BY SMTT(60) DEF PathOK, rankingRoutes
    <2>2. length(1) = 2 /\ length(2) = 3 /\ length(3) = 3
      BY SMTT(60) DEF rankingRoutes
    <2>3. /\ \A i \in 1 .. 3 : method(i) = "GET"
          /\ \A i \in 4 .. 6 : method(i) = "POST"
      BY SMTT(60) DEF rankingRoutes
    <2>4. /\ Apart(rankingRoutes[2], rankingRoutes[3])
          /\ Apart(rankingRoutes[4], rankingRoutes[5])
          /\ Apart(rankingRoutes[4], rankingRoutes[6])
          /\ Apart(rankingRoutes[5], rankingRoutes[6])
      BY SMTT(60) DEF Apart, Unlike, ClashAt, Clash, rankingRoutes
    <2> HIDE DEF method, length
    <2>5. \A i, j \in 1 .. 6 :
            j < i => method(j) # method(i) \/ length(j) # length(i) \/ (j = 2 /\ i = 3) \/ (j = 4 /\ i = 5) \/ (j = 4 /\ i = 6) \/ (j = 5 /\ i = 6)
      BY <2>2, <2>3
    <2>6. QED
      BY <2>1, <2>4, <2>5 DEF NoneHidden, Apart, Unlike, method, length
  <1>17. NoneHidden(attendanceRoutes)
    BY SMTT(60) DEF NoneHidden, PathOK, Apart, Unlike, ClashAt, Clash,
                     attendanceRoutes
  <1>18. NoneHidden(errorLogRoutes)
    BY SMTT(60) DEF NoneHidden, PathOK, Apart, Unlike, ClashAt, Clash,
                     errorLogRoutes
  <1>19. NoneHidden(uploadRoutes)
    <2> DEFINE method(i) == uploadRoutes[i].method
               length(i) == Len(uploadRoutes[i].path)
    <2>1. DOMAIN uploadRoutes = 1 .. 8 /\ \A i \in 1 .. 8 : PathOK(uploadRoutes[i])
      BY SMTT(60) DEF PathOK, uploadRoutes
    <2>2. length(4) = 0 /\ length(5) = 1 /\ length(6) = 2
      BY SMTT(60) DEF uploadRoutes
    <2>3. /\ \A i \in 1 .. 3 : method(i) = "POST"
          /\ \A i \in 4 .. 6 : method(i) = "GET"
          /\ method(7) = "DELETE" /\ method(8) = "PATCH"
      BY SMTT(60) DEF uploadRoutes
    <2>4. /\ Apart(uploadRoutes[1], uploadRoutes[2])
          /\ Apart(uploadRoutes[1], uploadRoutes[3])
          /\ Apart(uploadRoutes[2], uploadRoutes[3])
      BY SMTT(60) DEF Apart, Unlike, ClashAt, Clash, uploadRoutes
    <2> HIDE DEF method, length
    <2>5. \A i, j \in 1 .. 8 :
            j < i => method(j) # method(i) \/ length(j) # length(i) \/ (j = 1 /\ i = 2) \/ (j = 1 /\ i = 3) \/ (j = 2 /\ i = 3)
      BY <2>2, <2>3
    <2>6. QED
      BY <2>1, <2>4, <2>5 DEF NoneHidden, Apart, Unlike, method, length
  <1>20. QED
    BY <1>1, <1>2, <1>3, <1>4, <1>5, <1>6, <1>7, <1>8, <1>9, <1>10, <1>11, <1>12, <1>13,
       <1>14, <1>15, <1>16, <1>17, <1>18, <1>19

LEMMA RoutersOK ==
  /\ \A m \in Mounts : NoneHidden(v1Router[m])
  /\ \A i \in DOMAIN v1Router["auth"] : v1Router["auth"][i].guard \in {Public, SignedIn}
  <1>1. \A m \in Mounts : NoneHidden(v1Router[m])
    BY EachRouter DEF Mounts, v1Router
  <1>2. v1Router["auth"] = authRoutes
    BY DEF v1Router
  <1>3. \A i \in DOMAIN authRoutes : authRoutes[i].guard \in {Public, SignedIn}
    BY DEF authRoutes, Get, Post, Route
  <1>4. QED
    BY <1>1, <1>2, <1>3

LEMMA LenConcrete ==
  ASSUME NEW p, NEW n \in Nat, DOMAIN p = 1 .. n
  PROVE  Len(Concrete(p)) = n /\ DOMAIN Concrete(p) = 1 .. n
  <1> DEFINE S == {p[s] : s \in 1 .. n} \cup {"id"}
  <1>1. Concrete(p) \in [1 .. n -> S]
    BY DEF Concrete
  <1>2. Concrete(p) \in Seq(S)
    BY <1>1
  <1>3. QED
    BY <1>1, <1>2

\* The request for a route meets that route first, and one with a path longer than
\* all of them meets none.
LEMMA FirstIsMeant ==
  ASSUME NEW m \in Mounts, NEW i \in DOMAIN v1Router[m]
  PROVE  LET matching == Matching(m, v1Router[m][i].method, Concrete(v1Router[m][i].path))
         IN  /\ i \in matching /\ \A j \in matching : j \in Nat /\ i <= j
  <1> DEFINE path == Concrete(v1Router[m][i].path)
             matching == Matching(m, v1Router[m][i].method, path)
  <1>1. NoneHidden(v1Router[m])
    BY RoutersOK
  <1>2. \A j \in DOMAIN v1Router[m] :
          /\ j \in Nat /\ Len(v1Router[m][j].path) \in Nat
          /\ DOMAIN v1Router[m][j].path = 1 .. Len(v1Router[m][j].path)
    BY <1>1 DEF NoneHidden, PathOK
  <1>3. Len(path) = Len(v1Router[m][i].path) /\ DOMAIN path = 1 .. Len(path)
    BY <1>2, LenConcrete
  <1>4. \A s \in DOMAIN path :
          path[s] = IF v1Router[m][i].path[s] = "*" THEN "id" ELSE v1Router[m][i].path[s]
    BY <1>2, <1>3 DEF Concrete
  <1>5. i \in matching
    BY <1>3, <1>4 DEF Matching, PathMatches
  <1>6. ASSUME NEW j \in matching, j < i
        PROVE  FALSE
    <2>1. /\ j \in DOMAIN v1Router[m] /\ v1Router[m][j].method = v1Router[m][i].method
          /\ Len(v1Router[m][j].path) = Len(path)
          /\ \A s \in DOMAIN path : v1Router[m][j].path[s] \in {"*", path[s]}
      BY DEF Matching, PathMatches
    <2>2. PICK s \in 1 .. 3 : ClashAt(v1Router[m][j], v1Router[m][i], s)
      BY <1>1, <1>3, <1>6, <2>1 DEF NoneHidden, Apart, Unlike
    <2>3. s \in DOMAIN path
      BY <1>2, <1>3, <2>1, <2>2 DEF ClashAt
    <2>4. QED
      BY <1>4, <2>1, <2>2, <2>3 DEF ClashAt, Clash
  <1>7. \A j \in matching : j \in DOMAIN v1Router[m]
    BY DEF Matching
  <1>8. \A j \in matching : j \in Nat /\ i <= j
    BY <1>2, <1>6, <1>7
  <1>9. QED
    BY <1>5, <1>8

LEMMA StrayMeetsNone ==
  ASSUME NEW m \in Mounts, NEW method, NEW path, Len(path) = 6
  PROVE  Matching(m, method, path) = {}
  <1>1. \A i \in DOMAIN v1Router[m] : Len(v1Router[m][i].path) \in 0 .. 5
    BY RoutersOK DEF NoneHidden, PathOK
  <1>2. \A n \in 0 .. 5 : n # 6
    OBVIOUS
  <1>3. QED
    BY <1>1, <1>2 DEF Matching, PathMatches

Fields == {"pc", "mount", "meant", "route", "method", "path", "token", "granted"}

\* The request is for the route it means, and not for a path nobody has.
MeansRoute ==
  /\ call.meant \in DOMAIN v1Router[call.mount]
  /\ call.method = v1Router[call.mount][call.meant].method
  /\ call.path = Concrete(v1Router[call.mount][call.meant].path)

Allowed ==
  LET guard == v1Router[call.mount][call.meant].guard IN
  /\ guard # Public => call.token = "valid"
  /\ guard \notin {Public, SignedIn} => guard \in call.granted

\* What is known of a request at each point of its way.
WayInv ==
  ~ At("idle") =>
    /\ DOMAIN call = Fields
    /\ call.mount \in Mounts /\ call.token \in AccessTokens
    /\ MeansRoute \/ Len(call.path) = 6
    /\ ~ At("auth") /\ ~ At("done") /\ UsesAuth(call.mount) => call.token = "valid"
    /\ At("guard") \/ At("handle") => MeansRoute /\ call.route = call.meant
    /\ At("handle") => Allowed

HttpInv == HttpTypeOK /\ WayInv

\* A step that only moves the request on.
LEMMA OnTheWay ==
  ASSUME DOMAIN call = Fields, NEW pc, NEW i,
         call' = [call EXCEPT !.pc = pc, !.route = i]
  PROVE  /\ call'.pc = pc /\ call'.route = i /\ DOMAIN call' = Fields
         /\ call'.mount = call.mount /\ call'.meant = call.meant
         /\ call'.method = call.method /\ call'.path = call.path
         /\ call'.token = call.token /\ call'.granted = call.granted
  BY DEF Fields

LEMMA HttpInitial == HttpInit => HttpInv
  <1> SUFFICES ASSUME HttpInit PROVE HttpInv
    OBVIOUS
  <1>1. call.pc = "idle" /\ answer = 0 /\ logged = FALSE
    BY DEF HttpInit, NoCall
  <1>2. HttpTypeOK
    BY <1>1 DEF HttpTypeOK, At
  <1>3. QED
    BY <1>1, <1>2 DEF HttpInv, WayInv, At

LEMMA SendStep ==
  ASSUME HttpInv, NEW m \in Mounts, NEW i \in DOMAIN v1Router[m], NEW token \in AccessTokens,
         NEW only \in BOOLEAN, Send(m, i, token, only)
  PROVE  HttpInv'
  <1>1. /\ call'.pc = "auth" /\ call'.mount = m /\ call'.meant = i /\ call'.token = token
        /\ call'.method = v1Router[m][i].method
        /\ call'.path = Concrete(v1Router[m][i].path)
        /\ DOMAIN call' = Fields
        /\ UNCHANGED <<answer, logged>>
    BY DEF Send, Concrete, Fields
  <1>2. MeansRoute'
    BY <1>1 DEF MeansRoute
  <1>3. QED
    BY <1>1, <1>2 DEF HttpInv, HttpTypeOK, WayInv, At

LEMMA SendStrayStep ==
  ASSUME HttpInv, NEW m \in Mounts, NEW token \in AccessTokens, SendStray(m, token)
  PROVE  HttpInv'
  <1>1. /\ call'.pc = "auth" /\ call'.mount = m /\ call'.token = token
        /\ Len(call'.path) = 6 /\ DOMAIN call' = Fields
        /\ UNCHANGED <<answer, logged>>
    BY DEF SendStray, Fields
  <1>2. QED
    BY <1>1 DEF HttpInv, HttpTypeOK, WayInv, At

\* A response is the end of the way.
LEMMA ResponseStep ==
  ASSUME HttpInv, ~ At("idle"), call' = [call EXCEPT !.pc = "done"],
         answer' \in {0, 200, 400, 401, 403, 404, 409, 500}, logged' \in BOOLEAN
  PROVE  HttpInv'
  <1>1. DOMAIN call = Fields /\ call.mount \in Mounts /\ call.token \in AccessTokens
    BY DEF HttpInv, WayInv
  <1>2. /\ call'.pc = "done" /\ call'.mount = call.mount /\ call'.meant = call.meant
        /\ call'.method = call.method /\ call'.path = call.path
        /\ call'.token = call.token /\ DOMAIN call' = Fields
    BY <1>1 DEF Fields
  <1>3. MeansRoute' \/ Len(call'.path) = 6
    BY <1>2 DEF HttpInv, WayInv, MeansRoute
  <1>4. QED
    BY <1>1, <1>2, <1>3 DEF HttpInv, HttpTypeOK, WayInv, At

LEMMA ErrorStatusType ==
  ASSUME NEW err \in Thrown
  PROVE  ErrorStatus(err) \in {400, 401, 403, 404, 409, 500}
  <1> DEFINE Known == [operational: {TRUE}, status: {400, 401, 403, 404, 409, 500}]
             Other == [operational: {FALSE}, code: {"23505", "23503", "23502", "other"}]
  <1>0. err \in Known \/ err \in Other
    BY DEF Thrown
  <1>1. CASE err \in Known
    <2>1. err.operational = TRUE /\ err.status \in {400, 401, 403, 404, 409, 500}
      BY <1>1
    <2>2. ErrorStatus(err) = err.status
      BY <2>1 DEF ErrorStatus
    <2>3. QED
      BY <2>1, <2>2
  <1>2. CASE err \in Other
    <2>1. err.operational = FALSE
      BY <1>2
    <2>2. ErrorStatus(err) \in {409, 400, 500}
      BY <2>1 DEF ErrorStatus
    <2>3. QED
      BY <2>1, <2>2
  <1> HIDE DEF Known, Other
  <1>3. QED
    BY <1>0, <1>1, <1>2

LEMMA HttpStep == HttpInv /\ [HttpNext]_httpVars => HttpInv'
  <1> SUFFICES ASSUME HttpInv, [HttpNext]_httpVars PROVE HttpInv'
    OBVIOUS
  <1>0. /\ answer \in {0, 200, 400, 401, 403, 404, 409, 500} /\ logged \in BOOLEAN
        /\ ~ At("idle") => /\ DOMAIN call = Fields
                           /\ call.mount \in Mounts /\ call.token \in AccessTokens
    BY DEF HttpInv, HttpTypeOK, WayInv
  <1>1. CASE Authenticate
    <2>1. At("auth") /\ ~ At("idle")
      BY <1>1 DEF Authenticate, At
    <2>2. CASE Respond(401)
      BY <1>0, <2>1, <2>2, ResponseStep DEF Respond
    <2>3. CASE Advance("match", 0) /\ (UsesAuth(call.mount) => call.token = "valid")
      <3>1. /\ call'.pc = "match" /\ DOMAIN call' = Fields
            /\ call'.mount = call.mount /\ call'.meant = call.meant
            /\ call'.method = call.method /\ call'.path = call.path
            /\ call'.token = call.token /\ UNCHANGED <<answer, logged>>
        <4>1. DOMAIN call = Fields /\ UNCHANGED <<answer, logged>>
          BY <1>0, <2>1, <2>3 DEF Advance
        <4>2. call' = [call EXCEPT !.pc = "match", !.route = 0]
          BY <2>3 DEF Advance
        <4>3. QED
          BY <4>1, <4>2, OnTheWay
      <3>2. MeansRoute' \/ Len(call'.path) = 6
        BY <2>1, <3>1 DEF HttpInv, WayInv, MeansRoute
      <3>3. QED
        BY <1>0, <2>1, <2>3, <3>1, <3>2 DEF HttpInv, HttpTypeOK, WayInv, At, UsesAuth
    <2>4. QED
      BY <1>1, <2>2, <2>3 DEF Authenticate
  <1>2. CASE Dispatch
    <2> DEFINE matching == Matching(call.mount, call.method, call.path)
    <2>1. At("match") /\ ~ At("idle")
      BY <1>2 DEF Dispatch, At
    <2>2. CASE Respond(404)
      BY <1>0, <2>1, <2>2, ResponseStep DEF Respond
    <2>3. ASSUME NEW i \in matching, \A j \in matching : i <= j, Advance("guard", i)
          PROVE  HttpInv'
      <3>1. MeansRoute
        BY <1>0, <2>1, <2>3, StrayMeetsNone DEF HttpInv, WayInv
      <3>2. call.meant \in matching /\ \A j \in matching : j \in Nat /\ call.meant <= j
        BY <1>0, <2>1, <3>1, FirstIsMeant DEF MeansRoute
      <3>3. i = call.meant
        BY <2>3, <3>2
      <3>4. /\ call'.pc = "guard" /\ call'.route = i /\ DOMAIN call' = Fields
            /\ call'.mount = call.mount /\ call'.meant = call.meant
            /\ call'.method = call.method /\ call'.path = call.path
            /\ call'.token = call.token /\ UNCHANGED <<answer, logged>>
        <4>1. DOMAIN call = Fields /\ UNCHANGED <<answer, logged>>
          BY <1>0, <2>1, <2>3 DEF Advance
        <4>2. call' = [call EXCEPT !.pc = "guard", !.route = i]
          BY <2>3 DEF Advance
        <4>3. QED
          BY <4>1, <4>2, OnTheWay
      <3>5. MeansRoute' /\ call'.route \in DOMAIN v1Router[call'.mount]
        BY <3>1, <3>3, <3>4 DEF MeansRoute
      <3>6. UsesAuth(call'.mount) => call'.token = "valid"
        BY <2>1, <3>4 DEF HttpInv, WayInv, At, UsesAuth
      <3>7. QED
        BY <1>0, <2>1, <3>3, <3>4, <3>5, <3>6 DEF HttpInv, HttpTypeOK, WayInv, At
    <2>4. QED
      BY <1>2, <2>2, <2>3 DEF Dispatch
  <1>3. CASE Authorize
    <2> DEFINE guard == v1Router[call.mount][call.route].guard
    <2>1. At("guard") /\ ~ At("idle")
      BY <1>3 DEF Authorize, At
    <2>2. CASE Respond(401) \/ Respond(403)
      BY <1>0, <2>1, <2>2, ResponseStep DEF Respond
    <2>3. CASE /\ Advance("handle", call.route)
               /\ \/ guard = Public
                  \/ guard = SignedIn /\ call.token = "valid"
                  \/ guard \notin {Public, SignedIn} /\ guard \in call.granted
      <3>1. MeansRoute /\ call.route = call.meant
        BY <2>1 DEF HttpInv, WayInv
      <3>2. Allowed
        <4>1. CASE UsesAuth(call.mount)
          <5>1. call.token = "valid"
            BY <2>1, <4>1 DEF HttpInv, WayInv, At
          <5>2. QED
            BY <2>3, <3>1, <5>1 DEF Allowed
        <4>2. CASE ~ UsesAuth(call.mount)
          <5>1. guard \in {Public, SignedIn}
            BY <3>1, <4>2, RoutersOK DEF UsesAuth, MeansRoute
          <5>2. QED
            BY <2>3, <3>1, <5>1 DEF Allowed
        <4>3. QED
          BY <4>1, <4>2
      <3>3. /\ call'.pc = "handle" /\ call'.route = call.route /\ DOMAIN call' = Fields
            /\ call'.mount = call.mount /\ call'.meant = call.meant
            /\ call'.method = call.method /\ call'.path = call.path
            /\ call'.token = call.token /\ call'.granted = call.granted
            /\ UNCHANGED <<answer, logged>>
        <4>1. DOMAIN call = Fields /\ UNCHANGED <<answer, logged>>
          BY <1>0, <2>1, <2>3 DEF Advance
        <4>2. call' = [call EXCEPT !.pc = "handle", !.route = call.route]
          BY <2>3 DEF Advance
        <4>3. QED
          BY <4>1, <4>2, OnTheWay
      <3>4. MeansRoute' /\ call'.route \in DOMAIN v1Router[call'.mount]
        BY <3>1, <3>3 DEF MeansRoute
      <3>5. Allowed'
        BY <3>2, <3>3 DEF Allowed
      <3>6. UsesAuth(call'.mount) => call'.token = "valid"
        BY <2>1, <3>3 DEF HttpInv, WayInv, At, UsesAuth
      <3>7. QED
        BY <1>0, <2>1, <3>1, <3>3, <3>4, <3>5, <3>6 DEF HttpInv, HttpTypeOK, WayInv, At
    <2>4. QED
      BY <1>3, <2>2, <2>3 DEF Authorize, Public, SignedIn
  <1>4. CASE Succeed
    BY <1>0, <1>4, ResponseStep DEF Succeed, Respond, At
  <1>5. ASSUME NEW err \in Thrown, NEW kept \in BOOLEAN, ErrorMiddleware(err, kept)
        PROVE  HttpInv'
    <2>1. ~ At("idle")
      BY <1>5 DEF ErrorMiddleware, At
    <2>2. answer' \in {0, 200, 400, 401, 403, 404, 409, 500} /\ logged' \in BOOLEAN
      BY <1>5, ErrorStatusType DEF ErrorMiddleware
    <2>3. QED
      BY <1>5, <2>1, <2>2, ResponseStep DEF ErrorMiddleware
  <1>6. CASE UNCHANGED httpVars
    BY <1>6 DEF httpVars, HttpInv, HttpTypeOK, WayInv, At, MeansRoute, Allowed, UsesAuth
  <1>7. QED
    BY <1>1, <1>2, <1>3, <1>4, <1>5, <1>6, SendStep, SendStrayStep DEF HttpNext

LEMMA HttpInvariant == HttpSpec => []HttpInv
  BY HttpInitial, HttpStep, PTL DEF HttpSpec

\* Type correctness of requests and answers; a request that was dispatched has a route.
THEOREM HttpTypeCorrect == HttpSpec => []HttpTypeOK
  <1>1. HttpInv => HttpTypeOK
    BY DEF HttpInv
  <1>2. QED
    BY <1>1, HttpInvariant, PTL

\* In all nineteen routers a request gets to the handler of the route it means, with
\* what that route asks for (academic-session.routes.ts:9).
THEOREM HandlerIsMeantHolds == HttpSpec => []HandlerIsMeant
  <1>1. HttpInv => HandlerIsMeant
    BY DEF HttpInv, WayInv, Allowed, HandlerIsMeant, At
  <1>2. QED
    BY <1>1, HttpInvariant, PTL

-----------------------------------------------------------------------------
(* Scripts                                                                 *)

Steps ==
  {"schema", "migrated_tables", "upload_permissions", "upload_grants", "begin", "seed_names",
   "seed_rows", "truncate"}

\* In a script the seed comes whole: its steps follow each other, and nothing else does.
Leads(a, b) ==
  /\ b = "seed_names" <=> a = "begin"
  /\ b = "seed_rows" <=> a = "seed_names"

Linked(s, n) ==
  /\ n > 0 => s[n] \notin {"begin", "seed_names"}
  /\ \A i \in 2 .. n : Leads(s[i - 1], s[i])

\* What is left of a script, and a whole one.
Orderly(s) == s \in Seq(Steps) /\ Linked(s, Len(s))

Starts(s) == Orderly(s) /\ s # <<>> /\ s[1] \notin {"seed_names", "seed_rows"}

LEMMA CatLinked ==
  ASSUME NEW m \in Nat, NEW n \in Nat, m > 0, n > 0, NEW s, NEW t, NEW u,
         \A i \in 1 .. m + n : u[i] = IF i <= m THEN s[i] ELSE t[i - m],
         Linked(s, m), Linked(t, n), t[1] \notin {"seed_names", "seed_rows"}
  PROVE  Linked(u, m + n)
  <1>1. ASSUME NEW k \in 2 .. m + n
        PROVE  Leads(u[k - 1], u[k])
    <2>1. CASE k <= m
      <3>1. u[k] = s[k] /\ u[k - 1] = s[k - 1] /\ k \in 2 .. m
        BY <2>1
      <3>2. QED
        BY <3>1 DEF Linked
    <2>2. CASE k = m + 1
      <3>1. u[k] = t[1] /\ u[k - 1] = s[m]
        BY <2>2
      <3>2. QED
        BY <3>1 DEF Linked, Leads
    <2>3. CASE k > m + 1
      <3>1. u[k] = t[k - m] /\ u[k - 1] = t[(k - m) - 1] /\ k - m \in 2 .. n
        BY <2>3
      <3>2. QED
        BY <3>1 DEF Linked
    <2>4. QED
      BY <2>1, <2>2, <2>3
  <1>2. u[m + n] = t[n]
    OBVIOUS
  <1>3. QED
    BY <1>1, <1>2 DEF Linked

LEMMA TailLinked ==
  ASSUME NEW m \in Nat, m > 0, NEW s, NEW t, Linked(s, m),
         \A i \in 1 .. m - 1 : t[i] = s[i + 1]
  PROVE  /\ Linked(t, m - 1)
         /\ m = 1 => s[1] \notin {"begin", "seed_names"}
         /\ m > 1 => Leads(s[1], t[1])
  <1>1. ASSUME NEW k \in 2 .. m - 1
        PROVE  Leads(t[k - 1], t[k])
    <2>1. t[k] = s[k + 1] /\ t[k - 1] = s[(k + 1) - 1] /\ k + 1 \in 2 .. m
      OBVIOUS
    <2>2. QED
      BY <2>1 DEF Linked
  <1>2. m - 1 > 0 => t[m - 1] = s[m]
    OBVIOUS
  <1>3. Linked(t, m - 1)
    BY <1>1, <1>2 DEF Linked
  <1>4. ASSUME m > 1
        PROVE  Leads(s[1], t[1])
    <2>1. t[1] = s[2] /\ 2 \in 2 .. m /\ 2 - 1 = 1
      BY <1>4
    <2>2. QED
      BY <2>1 DEF Linked
  <1>5. m = 1 => s[1] \notin {"begin", "seed_names"}
    BY DEF Linked
  <1>6. QED
    BY <1>3, <1>4, <1>5

LEMMA SeqFacts ==
  ASSUME NEW S, NEW s \in Seq(S)
  PROVE  /\ Len(s) \in Nat /\ (s # <<>> <=> Len(s) > 0)
         /\ s # <<>> => Head(s) = s[1]
  OBVIOUS

LEMMA StartsThen ==
  ASSUME NEW s, NEW t, Starts(s), Starts(t)
  PROVE  Starts(s \o t)
  <1> DEFINE u == s \o t
             m == Len(s)
             n == Len(t)
  <1>1. /\ s \in Seq(Steps) /\ t \in Seq(Steps) /\ Linked(s, m) /\ Linked(t, n)
        /\ s[1] \notin {"seed_names", "seed_rows"} /\ t[1] \notin {"seed_names", "seed_rows"}
    BY DEF Starts, Orderly
  <1>2. m \in Nat /\ n \in Nat /\ m > 0 /\ n > 0
    BY <1>1, SeqFacts DEF Starts
  <1>3. u \in Seq(Steps) /\ Len(u) = m + n
    BY <1>1, ConcatProperties
  <1>4. \A i \in 1 .. m + n : u[i] = IF i <= m THEN s[i] ELSE t[i - m]
    BY <1>1, ConcatProperties
  <1>5. Len(u) \in Nat /\ (u # <<>> <=> Len(u) > 0)
    BY <1>3, SeqFacts
  <1> HIDE DEF u, m, n
  <1>6. Linked(u, m + n)
    BY <1>1, <1>2, <1>4, CatLinked
  <1>7. u[1] = s[1] /\ u # <<>>
    BY <1>2, <1>3, <1>4, <1>5
  <1>8. QED
    BY <1>1, <1>3, <1>6, <1>7 DEF Starts, Orderly, u

LEMMA OneStep ==
  ASSUME NEW step \in Steps, step \notin {"begin", "seed_names", "seed_rows"}
  PROVE  Starts(<<step>>)
  <1>1. <<step>> \in Seq(Steps) /\ Len(<<step>>) = 1 /\ <<step>>[1] = step /\ <<step>> # <<>>
    OBVIOUS
  <1>2. Linked(<<step>>, 1)
    BY <1>1 DEF Linked
  <1>3. QED
    BY <1>1, <1>2 DEF Starts, Orderly

LEMMA ThreeSteps ==
  ASSUME NEW a \in Steps, NEW b \in Steps, NEW c \in Steps,
         a \notin {"seed_names", "seed_rows"}, c \notin {"begin", "seed_names"},
         Leads(a, b), Leads(b, c)
  PROVE  Starts(<<a, b, c>>)
  <1> DEFINE s == <<a, b, c>>
  <1>1. s \in Seq(Steps) /\ Len(s) = 3 /\ s[1] = a /\ s[2] = b /\ s[3] = c /\ s # <<>>
    OBVIOUS
  <1> HIDE DEF s
  <1>2. Linked(s, 3)
    <2>1. ASSUME NEW i \in 2 .. 3
          PROVE  Leads(s[i - 1], s[i])
      <3>1. (i = 2 /\ i - 1 = 1) \/ (i = 3 /\ i - 1 = 2)
        OBVIOUS
      <3>2. QED
        BY <1>1, <3>1
    <2>2. QED
      BY <1>1, <2>1 DEF Linked
  <1>3. QED
    BY <1>1, <1>2 DEF Starts, Orderly, s

LEMMA ScriptsStart == \A name \in DOMAIN Scripts : Starts(Scripts[name])
  <1>1. Starts(Schema)
    BY OneStep DEF Schema, Steps
  <1>2. Starts(Migrations)
    BY ThreeSteps DEF Migrations, Steps, Leads
  <1>3. Starts(Seed)
    BY ThreeSteps DEF Seed, Steps, Leads
  <1>4. Starts(Truncate)
    BY OneStep DEF Truncate, Steps
  <1>5. Starts(Truncate \o Seed)
    BY <1>3, <1>4, StartsThen
  <1>6. Starts(Schema \o Migrations)
    BY <1>1, <1>2, StartsThen
  <1>7. Starts((Schema \o Migrations) \o Seed)
    BY <1>3, <1>6, StartsThen
  <1>8. DOMAIN Scripts =
          {"db_schema", "db_migrate", "db_seed", "db_init", "db_truncate", "db_fresh"}
    BY DEF Scripts
  <1>9. /\ Scripts["db_schema"] = Schema /\ Scripts["db_migrate"] = Migrations
        /\ Scripts["db_seed"] = Seed /\ Scripts["db_truncate"] = Truncate
        /\ Scripts["db_init"] = (Schema \o Migrations) \o Seed
        /\ Scripts["db_fresh"] = Truncate \o Seed
    BY DEF Scripts
  <1>10. QED
    BY <1>1, <1>2, <1>3, <1>4, <1>5, <1>7, <1>8, <1>9

LEMMA TailOrderly ==
  ASSUME NEW s, Orderly(s), s # <<>>
  PROVE  /\ Orderly(Tail(s))
         /\ Tail(s) = <<>> => Head(s) \notin {"begin", "seed_names"}
         /\ Tail(s) # <<>> => Leads(Head(s), Head(Tail(s)))
  <1> DEFINE t == Tail(s)
             m == Len(s)
  <1>1. s \in Seq(Steps) /\ Linked(s, m)
    BY DEF Orderly
  <1>2. m \in Nat /\ m > 0 /\ Head(s) = s[1]
    BY <1>1, SeqFacts
  <1>3. t \in Seq(Steps) /\ Len(t) = m - 1
    BY <1>1, HeadTailProperties
  <1>4. \A i \in 1 .. m - 1 : t[i] = s[i + 1]
    <2>1. \A i \in 1 .. Len(t) : t[i] = s[i + 1]
      BY <1>1, HeadTailProperties
    <2>2. QED
      BY <1>3, <2>1
  <1>5. (t # <<>> <=> Len(t) > 0) /\ (t # <<>> => Head(t) = t[1])
    BY <1>3, SeqFacts
  <1> HIDE DEF t, m
  <1>6. /\ Linked(t, m - 1)
        /\ m = 1 => s[1] \notin {"begin", "seed_names"}
        /\ m > 1 => Leads(s[1], t[1])
    BY <1>1, <1>2, <1>4, TailLinked
  <1>7. Orderly(t)
    BY <1>3, <1>6 DEF Orderly
  <1>8. t # <<>> => m > 1
    BY <1>2, <1>3, <1>5
  <1>9. t = <<>> => m = 1
    BY <1>2, <1>3, <1>5
  <1>10. QED
    BY <1>2, <1>5, <1>6, <1>7, <1>8, <1>9 DEF t

\* What the routes of a router may ask for.
AsksFor(router, names) == \A i \in DOMAIN router : router[i].guard \in names

\* Names that no script inserts.
Unseeded == {"ATTENDANCE_MARK", "ATTENDANCE_READ"}

Known == SeedPermissions \cup UploadPermissions \cup Unseeded \cup {Public, SignedIn}

LEMMA EachAsksFor ==
  /\ AsksFor(authRoutes, Known)
  /\ AsksFor(roleRoutes, Known)
  /\ AsksFor(permissionRoutes, Known)
  /\ AsksFor(userRoutes, Known)
  /\ AsksFor(studentRoutes, Known)
  /\ AsksFor(academicSessionRoutes, Known)
  /\ AsksFor(teacherRoutes, Known)
  /\ AsksFor(classRoutes, Known)
  /\ AsksFor(subjectRoutes, Known)
  /\ AsksFor(sectionRoutes, Known)
  /\ AsksFor(subjectAssignmentRoutes, Known)
  /\ AsksFor(studentEnrollmentRoutes, Known)
  /\ AsksFor(examRoutes, Known)
  /\ AsksFor(examResultRoutes, Known)
  /\ AsksFor(rolePermissionRoutes, Known)
  /\ AsksFor(rankingRoutes, Known)
  /\ AsksFor(attendanceRoutes, Known)
  /\ AsksFor(errorLogRoutes, Known)
  /\ AsksFor(uploadRoutes, Known)
  <1> USE DEF AsksFor, Known, SeedPermissions, UploadPermissions, Unseeded,
              Route, Get, Post, Put, Patch, Delete
  <1>1. AsksFor(authRoutes, Known)
    BY DEF authRoutes
  <1>2. AsksFor(roleRoutes, Known)
    BY DEF roleRoutes
  <1>3. AsksFor(permissionRoutes, Known)
    BY DEF permissionRoutes
  <1>4. AsksFor(userRoutes, Known)
    BY DEF userRoutes
  <1>5. AsksFor(studentRoutes, Known)
    BY DEF studentRoutes
  <1>6. AsksFor(academicSessionRoutes, Known)
    BY DEF academicSessionRoutes
  <1>7. AsksFor(teacherRoutes, Known)
    BY DEF teacherRoutes
  <1>8. AsksFor(classRoutes, Known)
    BY DEF classRoutes
  <1>9. AsksFor(subjectRoutes, Known)
    BY DEF subjectRoutes
  <1>10. AsksFor(sectionRoutes, Known)
    BY DEF sectionRoutes
  <1>11. AsksFor(subjectAssignmentRoutes, Known)
    BY DEF subjectAssignmentRoutes
  <1>12. AsksFor(studentEnrollmentRoutes, Known)
    BY DEF studentEnrollmentRoutes
  <1>13. AsksFor(examRoutes, Known)
    BY DEF examRoutes
  <1>14. AsksFor(examResultRoutes, Known)
    BY DEF examResultRoutes
  <1>15. AsksFor(rolePermissionRoutes, Known)
    BY DEF rolePermissionRoutes
  <1>16. AsksFor(rankingRoutes, Known)
    BY DEF rankingRoutes
  <1>17. AsksFor(attendanceRoutes, Known)
    BY DEF attendanceRoutes
  <1>18. AsksFor(errorLogRoutes, Known)
    BY DEF errorLogRoutes
  <1>19. AsksFor(uploadRoutes, Known)
    BY DEF uploadRoutes
  <1>20. QED
    BY <1>1, <1>2, <1>3, <1>4, <1>5, <1>6, <1>7, <1>8, <1>9, <1>10, <1>11, <1>12, <1>13, <1>14, <1>15, <1>16, <1>17, <1>18, <1>19

LEMMA GuardsKnown ==
  /\ Guards \subseteq SeedPermissions \cup UploadPermissions \cup Unseeded
  /\ Unseeded \subseteq Guards
  <1>1. \A m \in Mounts : AsksFor(v1Router[m], Known)
    BY EachAsksFor DEF Mounts, v1Router
  <1>2. \A m \in Mounts : \A route \in Range(v1Router[m]) : route.guard \in Known
    BY <1>1 DEF AsksFor, Range
  <1> DEFINE of(m) == {route.guard : route \in Range(v1Router[m])}
             all == UNION {of(m) : m \in Mounts}
  <1>3. Guards = all \ {Public, SignedIn}
    BY DEF Guards
  <1>4. \A m \in Mounts : \A g \in of(m) : g \in Known
    BY <1>2
  <1>5. \A m \in Mounts : \A route \in Range(v1Router[m]) : route.guard \in of(m)
    OBVIOUS
  <1> HIDE DEF of
  <1>6. all \subseteq Known /\ \A m \in Mounts : of(m) \subseteq all
    BY <1>4
  <1> HIDE DEF all
  <1>7. v1Router["attendance"] = attendanceRoutes /\ "attendance" \in Mounts
    BY DEF v1Router, Mounts
  <1>8. /\ 1 \in DOMAIN attendanceRoutes /\ attendanceRoutes[1].guard = "ATTENDANCE_MARK"
        /\ 2 \in DOMAIN attendanceRoutes /\ attendanceRoutes[2].guard = "ATTENDANCE_READ"
    BY DEF attendanceRoutes, Get, Post, Route
  <1>9. /\ attendanceRoutes[1] \in Range(v1Router["attendance"])
        /\ attendanceRoutes[2] \in Range(v1Router["attendance"])
    BY <1>7, <1>8 DEF Range
  <1>10. Unseeded \cap {Public, SignedIn} = {}
    BY DEF Unseeded, Public, SignedIn
  <1>11. Unseeded \subseteq Guards
    <2>1. Unseeded \subseteq all
      BY <1>7, <1>8, <1>9, <1>5, <1>6 DEF Unseeded
    <2>2. QED
      BY <1>3, <1>10, <2>1
  <1>12. QED
    BY <1>3, <1>11, <1>6 DEF Known

LEMMA NobodyInsertsUnseeded == Unseeded \cap (SeedPermissions \cup UploadPermissions) = {}
  BY DEF Unseeded, SeedPermissions, UploadPermissions

\* Every name that a route asks for is in an INSERT of seed.sql or of 004_uploads.sql, but
\* for the two of attendance (seed.sql:42, attendance.routes.ts:46).
THEOREM GuardsSeeded == Guards \ (SeedPermissions \cup UploadPermissions) = Unseeded
  BY GuardsKnown, NobodyInsertsUnseeded

\* The rows are what the migrations leave: no roles, and of the permissions only the
\* names of the uploads.  What the seed has written so far is in a transaction that is
\* open as long as its steps are under way, and only then do the connection and the
\* table differ.
BootInv ==
  /\ BootTypeOK
  /\ Orderly(script)
  /\ open <=> script # <<>> /\ Head(script) \in {"seed_names", "seed_rows"}
  /\ ~ open => seen = db
  /\ NothingOfTheSeedStays

LEMMA EmptyOrderly == <<>> \in Seq(Steps) /\ Orderly(<<>>)
  <1>1. <<>> \in Seq(Steps) /\ Len(<<>>) = 0
    BY EmptySeq
  <1>2. Linked(<<>>, 0)
    BY DEF Linked
  <1>3. QED
    BY <1>1, <1>2 DEF Orderly

LEMMA BootInitInv == BootInit => BootInv
  <1> SUFFICES ASSUME BootInit PROVE BootInv
    OBVIOUS
  <1>1. script = <<>> /\ script \in Seq(Steps) /\ Orderly(script)
    BY EmptyOrderly DEF BootInit
  <1>2. command \in DOMAIN Scripts
    BY DEF BootInit, Scripts
  <1>3. BootRows(Nothing)
    BY DEF BootRows, Nothing
  <1>4. BootTypeOK
    BY <1>1, <1>2, <1>3 DEF BootInit, BootTypeOK, Steps
  <1>5. NothingOfTheSeedStays
    BY DEF BootInit, NothingOfTheSeedStays, Nothing
  <1>6. QED
    BY <1>1, <1>4, <1>5 DEF BootInit, BootInv

\* A step of a script leaves the rest of it, in order.
LEMMA StepDoneInv ==
  ASSUME BootInv, script # <<>>, StepDone
  PROVE  /\ Orderly(script') /\ script' \in Seq(Steps)
         /\ command' \in DOMAIN Scripts
         /\ ended' \in {"ok", "running", "failed", "cut_off"}
         /\ script' # <<>> /\ Head(script') \in {"seed_names", "seed_rows"}
              <=> Head(script) \in {"begin", "seed_names"}
  <1>1. script' = Tail(script)
    BY DEF StepDone
  <1>2. /\ Orderly(script')
        /\ script' = <<>> => Head(script) \notin {"begin", "seed_names"}
        /\ script' # <<>> => Leads(Head(script), Head(script'))
    BY <1>1, TailOrderly DEF BootInv
  <1>3. ended' \in {"ok", "running", "failed", "cut_off"}
    BY DEF StepDone
  <1>4. command' \in DOMAIN Scripts
    BY DEF StepDone, BootInv, BootTypeOK
  <1>5. QED
    BY <1>2, <1>3, <1>4 DEF Orderly, Leads

\* A script that stops leaves the rows as they are, and its transaction is gone.
LEMMA StopInv ==
  ASSUME BootInv, NEW how \in {"failed", "cut_off"}, Stop(how)
  PROVE  BootInv'
  <1>1. /\ script' = <<>> /\ ended' = how /\ seen' = db /\ open' = FALSE
        /\ UNCHANGED <<tables, migrated, db, command>>
    BY DEF Stop
  <1>2. script' \in Seq(Steps) /\ Orderly(script')
    BY <1>1, EmptyOrderly
  <1>3. BootRows(db)' /\ BootRows(seen)'
    BY <1>1 DEF BootInv, BootTypeOK, BootRows
  <1>4. BootTypeOK'
    BY <1>1, <1>2, <1>3 DEF BootInv, BootTypeOK, Steps
  <1>5. NothingOfTheSeedStays'
    BY <1>1 DEF BootInv, NothingOfTheSeedStays
  <1>6. QED
    BY <1>1, <1>2, <1>4, <1>5 DEF BootInv

\* A step that leaves the transaction and the rows as it should keeps the invariant.
LEMMA StepKeeps ==
  ASSUME BootInv, script # <<>>, StepDone,
         tables' \in BOOLEAN, migrated' \in BOOLEAN, open' \in BOOLEAN,
         BootRows(db)', BootRows(seen)', NothingOfTheSeedStays',
         open' <=> Head(script) \in {"begin", "seed_names"},
         ~ open' => seen' = db'
  PROVE  BootInv'
  <1>1. /\ Orderly(script') /\ script' \in Seq(Steps)
        /\ command' \in DOMAIN Scripts
        /\ ended' \in {"ok", "running", "failed", "cut_off"}
        /\ script' # <<>> /\ Head(script') \in {"seed_names", "seed_rows"}
             <=> Head(script) \in {"begin", "seed_names"}
    BY StepDoneInv
  <1>2. BootTypeOK'
    BY <1>1 DEF BootTypeOK, Steps
  <1>3. QED
    BY <1>1, <1>2 DEF BootInv

\* The rows of the tables as they are.
LEMMA SameRows ==
  ASSUME BootInv, UNCHANGED <<db, seen>>
  PROVE  BootRows(db)' /\ BootRows(seen)' /\ NothingOfTheSeedStays'
  BY DEF BootInv, BootTypeOK, BootRows, NothingOfTheSeedStays

\* A class has two fee structures in the seed.
LEMMA FeesClash == ~ FeesAreUnique
  <1>1. /\ 1 \in DOMAIN FeeStructures /\ 2 \in DOMAIN FeeStructures
        /\ FeeStructures[1] = FeeStructures[2] /\ 1 # 2
    BY DEF FeeStructures
  <1>2. QED
    BY <1>1 DEF FeesAreUnique

LEMMA BootNextInv == ASSUME BootInv, BootNext PROVE BootInv'
  <1> USE DEF NextStep
  <1>0. /\ tables \in BOOLEAN /\ migrated \in BOOLEAN /\ open \in BOOLEAN
        /\ BootRows(db) /\ BootRows(seen)
        /\ open <=> script # <<>> /\ Head(script) \in {"seed_names", "seed_rows"}
        /\ ~ open => seen = db
        /\ ~ db.roles /\ db.grant = {} /\ db.permission \subseteq UploadPermissions
    BY DEF BootInv, BootTypeOK, NothingOfTheSeedStays
  <1>1. ASSUME NEW name \in DOMAIN Scripts, Start(name) PROVE BootInv'
    <2>1. Starts(Scripts[name])
      BY ScriptsStart
    <2>2. /\ script = <<>> /\ script' = Scripts[name] /\ command' = name /\ ended' = "running"
          /\ UNCHANGED <<tables, migrated, db, seen, open>>
      BY <1>1 DEF Start
    <2>3. /\ Orderly(script') /\ script' \in Seq(Steps) /\ script' # <<>>
          /\ script'[1] \notin {"seed_names", "seed_rows"}
      BY <2>1, <2>2 DEF Starts, Orderly
    <2>4. Head(script') \notin {"seed_names", "seed_rows"}
      BY <2>3, SeqFacts
    <2>5. BootRows(db)' /\ BootRows(seen)' /\ NothingOfTheSeedStays'
      BY <2>2, SameRows
    <2>6. BootTypeOK'
      BY <1>0, <1>1, <2>2, <2>3, <2>5 DEF BootTypeOK, Steps
    <2>7. QED
      BY <1>0, <2>2, <2>3, <2>4, <2>5, <2>6 DEF BootInv
  <1>2. CASE RunSchema
    <2>1. BootRows(db)' /\ BootRows(seen)' /\ NothingOfTheSeedStays'
      BY <1>2, SameRows DEF RunSchema
    <2>2. QED
      BY <1>0, <1>2, <2>1, StepKeeps DEF RunSchema
  <1>3. CASE RunMigratedTables
    <2>1. BootRows(db)' /\ BootRows(seen)' /\ NothingOfTheSeedStays'
      BY <1>3, SameRows DEF RunMigratedTables
    <2>2. QED
      BY <1>0, <1>3, <2>1, StepKeeps DEF RunMigratedTables
  <1>4. CASE RunUploadPermissions
    <2> DEFINE rows == [seen EXCEPT !.permission = @ \cup UploadPermissions]
    <2>1. ~ open /\ script # <<>> /\ StepDone /\ Head(script) \notin {"begin", "seed_names"}
      BY <1>0, <1>4 DEF RunUploadPermissions
    <2>2. seen' = rows /\ db' = rows /\ UNCHANGED <<tables, migrated, open>>
      BY <1>4, <2>1 DEF RunUploadPermissions, Execute
    <2>3. /\ DOMAIN rows = {"roles", "permission", "grant"}
          /\ rows.roles = seen.roles /\ rows.grant = seen.grant
          /\ rows.permission = seen.permission \cup UploadPermissions
      BY <1>0 DEF BootRows
    <2> HIDE DEF rows
    <2>4. BootRows(rows)
      BY <1>0, <2>3 DEF BootRows
    <2>5. NothingOfTheSeedStays'
      BY <1>0, <2>1, <2>2, <2>3 DEF NothingOfTheSeedStays
    <2>6. BootRows(db)' /\ BootRows(seen)'
      BY <2>2, <2>4 DEF BootRows
    <2>7. QED
      BY <1>0, <2>1, <2>2, <2>5, <2>6, StepKeeps
  <1>5. CASE RunUploadGrants
    <2>1. ~ seen.roles
      BY <1>0, <1>5 DEF RunUploadGrants
    <2>2. QED
      BY <1>5, <2>1, StopInv DEF RunUploadGrants
  <1>6. CASE RunBegin
    <2>1. BootRows(db)' /\ BootRows(seen)' /\ NothingOfTheSeedStays'
      BY <1>6, SameRows DEF RunBegin
    <2>2. QED
      BY <1>0, <1>6, <2>1, StepKeeps DEF RunBegin
  <1>7. CASE RunSeedNames
    <2> DEFINE names == seen.permission \cup SeedPermissions
               given == {g \in Roles \X names :
                           g[1] = "SUPER_ADMIN" \/ g[2] \in SeedGrants[g[1]]}
               rows == [roles |-> TRUE, permission |-> names, grant |-> seen.grant \cup given]
    <2>1. CASE seen.roles
      BY <1>7, <2>1, StopInv DEF RunSeedNames
    <2>2. CASE ~ seen.roles
      <3>1. open /\ script # <<>> /\ StepDone /\ Head(script) = "seed_names" /\ Execute(rows)
        BY <1>0, <1>7, <2>2 DEF RunSeedNames
      <3>2. given \subseteq Roles \X names
        OBVIOUS
      <3> HIDE DEF given
      <3>3. BootRows(rows)
        BY <1>0, <3>2 DEF BootRows
      <3> HIDE DEF rows
      <3>4. seen' = rows /\ UNCHANGED <<db, tables, migrated, open>>
        BY <3>1 DEF Execute
      <3>5. BootRows(db)' /\ BootRows(seen)'
        BY <1>0, <3>3, <3>4 DEF BootRows
      <3>6. NothingOfTheSeedStays'
        BY <1>0, <3>4 DEF NothingOfTheSeedStays
      <3>7. QED
        BY <1>0, <3>1, <3>4, <3>5, <3>6, StepKeeps
    <2>3. QED
      BY <2>1, <2>2
  <1>8. CASE RunSeedRows
    BY <1>8, FeesClash, StopInv DEF RunSeedRows
  <1>9. CASE RunTruncate
    <2>1. ~ open /\ script # <<>> /\ StepDone /\ Head(script) \notin {"begin", "seed_names"}
      BY <1>0, <1>9 DEF RunTruncate
    <2>2. seen' = Nothing /\ db' = Nothing /\ UNCHANGED <<tables, migrated, open>>
      BY <1>9, <2>1 DEF RunTruncate, Execute
    <2>3. BootRows(db)' /\ BootRows(seen)'
      BY <2>2 DEF BootRows, Nothing
    <2>4. NothingOfTheSeedStays'
      BY <2>2 DEF NothingOfTheSeedStays, Nothing
    <2>5. QED
      BY <1>0, <2>1, <2>2, <2>3, <2>4, StepKeeps
  <1>10. CASE StepFails
    BY <1>10, StopInv DEF StepFails
  <1>11. CASE CutOff
    BY <1>11, StopInv DEF CutOff
  <1>12. QED
    BY <1>1, <1>2, <1>3, <1>4, <1>5, <1>6, <1>7, <1>8, <1>9, <1>10, <1>11 DEF BootNext

LEMMA BootStep == BootInv /\ [BootNext]_bootVars => BootInv'
  <1>1. ASSUME BootInv, BootNext PROVE BootInv'
    BY <1>1, BootNextInv
  <1>2. ASSUME BootInv, UNCHANGED bootVars PROVE BootInv'
    BY <1>2 DEF BootInv, BootTypeOK, BootRows, NothingOfTheSeedStays, bootVars
  <1>3. QED
    BY <1>1, <1>2

LEMMA BootInvariant == BootSpec => []BootInv
  BY BootInitInv, BootStep, PTL DEF BootSpec

\* The rows that the scripts leave and the rows they see have their types, and every
\* grant is of a permission that is there (db-init.ts, seed.sql, 004_uploads.sql).
THEOREM BootTypeCorrect == BootSpec => []BootTypeOK
  <1>1. BootInv => BootTypeOK
    BY DEF BootInv
  <1>2. QED
    BY <1>1, BootInvariant, PTL

\* In whatever order the scripts run, fail and are cut off, the seed leaves nothing and
\* the migrations grant nothing: the only rows that stay are the names of the uploads
\* (seed.sql:451, schema.sql:299, 004_uploads.sql).
THEOREM NothingOfTheSeedStaysHolds == BootSpec => []NothingOfTheSeedStays
  <1>1. BootInv => NothingOfTheSeedStays
    BY DEF BootInv
  <1>2. QED
    BY <1>1, BootInvariant, PTL
=============================================================================
