-------------------------------- MODULE Accounts --------------------------------
(***************************************************************************)
(* The users and the profiles of students and teachers.  A student or a       *)
(* teacher is created in one transaction, user first; users.email and         *)
(* students.student_code are UNIQUE and count deleted rows, so an INSERT       *)
(* waits for the transaction that has inserted the same value and then fails, *)
(* which rolls the transaction back.  Codes are those of one year.            *)
(***************************************************************************)
EXTENDS Handlers, Sequences

CONSTANTS
  Emails,    \* in lower case, as every lookup and INSERT has them
  MaxUsers   \* bound: no account is asked for beyond this number

ASSUME AccountAssumption == MaxUsers \in Nat /\ Emails # {}

VARIABLES
  users,          \* the committed rows, each with its profile
  account,        \* what each request does next
  accountOverlap  \* history: two requests have been in flight together

accountVars == <<users, account, accountOverlap>>

-----------------------------------------------------------------------------
Kinds == {"plain", "student", "teacher"}

\* `code` is the number in STU-<year>-<number>, 0 without one.
User ==
  [email: Emails, kind: Kinds, deleted: BOOLEAN, code: Nat,
   profile: {"none", "live", "deleted"}]

\* `row` is the user that an UPDATE is for.
Request ==
  [pc: {"idle", "insert", "count", "profile", "rename"},
   kind: Kinds, email: Emails, code: Nat, row: Nat]

NoRequest ==
  [pc |-> "idle", kind |-> "plain", email |-> CHOOSE e \in Emails : TRUE,
   code |-> 0, row |-> 0]

AccountInit ==
  /\ users = <<>>
  /\ account = [r \in Requests |-> NoRequest]
  /\ accountOverlap = FALSE

StudentRows == {i \in DOMAIN users : users[i].kind = "student"}

Codes == {users[i].code : i \in StudentRows}

\* findByEmail: deleted_at IS NULL
EmailInUse(e) == \E i \in DOMAIN users : users[i].email = e /\ ~ users[i].deleted

\* users_email_key
EmailTaken(e) == \E i \in DOMAIN users : users[i].email = e

\* The transaction of another request has inserted the e-mail address.
EmailPending(r, e) ==
  \E q \in Requests \ {r} : account[q].pc \in {"count", "profile"} /\ account[q].email = e

NewUser(r, profile, code) ==
  [email |-> account[r].email, kind |-> account[r].kind, deleted |-> FALSE,
   code |-> code, profile |-> profile]

AccountCall(r, request) ==
  /\ account[r].pc = "idle"
  /\ account' = [account EXCEPT ![r] = request]
  /\ accountOverlap' = (accountOverlap \/ Meets(account, r))
  /\ UNCHANGED users

AccountEnd(r) == account' = [account EXCEPT ![r] = NoRequest]

-----------------------------------------------------------------------------
\* create of a user, a student or a teacher: the address is free, the role is
\* there, and the password is being hashed.
CreateAccount(r, kind, e) ==
  /\ Len(users) < MaxUsers
  /\ ~ EmailInUse(e)
  /\ AccountCall(r, [NoRequest EXCEPT !.pc = "insert", !.kind = kind, !.email = e])

\* userRepository.create
InsertUser(r) ==
  /\ account[r].pc = "insert" /\ account[r].kind = "plain"
  /\ ~ EmailPending(r, account[r].email)
  /\ users' = IF EmailTaken(account[r].email) THEN users
                                              ELSE Append(users, NewUser(r, "none", 0))
  /\ AccountEnd(r)
  /\ UNCHANGED accountOverlap

\* createUser, the first INSERT of the transaction of a student or a teacher.
CreateUser(r) ==
  /\ account[r].pc = "insert" /\ account[r].kind # "plain"
  /\ ~ EmailPending(r, account[r].email)
  /\ IF EmailTaken(account[r].email)
     THEN AccountEnd(r)
     ELSE account' = [account EXCEPT ![r] =
            [@ EXCEPT !.pc = IF account[r].kind = "student" THEN "count" ELSE "profile"]]
  /\ UNCHANGED <<users, accountOverlap>>

\* generateStudentCode: COUNT(*) takes deleted students as well.
GenerateStudentCode(r) ==
  /\ account[r].pc = "count"
  /\ account' = [account EXCEPT ![r] =
                   [@ EXCEPT !.pc = "profile", !.code = Cardinality(StudentRows) + 1]]
  /\ UNCHANGED <<users, accountOverlap>>

\* Mutated CreateStudentProfile: student_code is not UNIQUE.
CreateAnyProfile(r) ==
  /\ account[r].pc = "profile" /\ account[r].kind = "student"
  /\ users' = Append(users, NewUser(r, "live", account[r].code))
  /\ AccountEnd(r)
  /\ UNCHANGED accountOverlap

\* createStudentProfile and COMMIT.
CreateStudentProfile(r) ==
  /\ account[r].pc = "profile" /\ account[r].kind = "student"
  /\ users' = IF account[r].code \in Codes
              THEN users
              ELSE Append(users, NewUser(r, "live", account[r].code))
  /\ AccountEnd(r)
  /\ UNCHANGED accountOverlap

\* createTeacherProfile and COMMIT.
CreateTeacherProfile(r) ==
  /\ account[r].pc = "profile" /\ account[r].kind = "teacher"
  /\ users' = Append(users, NewUser(r, "live", 0))
  /\ AccountEnd(r)
  /\ UNCHANGED accountOverlap

\* update of a user with an address that no other user has.
ChangeEmail(r, i, e) ==
  /\ ~ users[i].deleted
  /\ \A j \in DOMAIN users : users[j].email = e /\ ~ users[j].deleted => j = i
  /\ AccountCall(r, [NoRequest EXCEPT !.pc = "rename", !.email = e, !.row = i])

\* userRepository.update
UpdateUser(r) ==
  LET i == account[r].row
      e == account[r].email IN
  /\ account[r].pc = "rename"
  /\ users[i].deleted \/ ~ EmailPending(r, e)
  /\ users' = IF users[i].deleted \/ \E j \in DOMAIN users \ {i} : users[j].email = e
              THEN users
              ELSE [users EXCEPT ![i] = [@ EXCEPT !.email = e]]
  /\ AccountEnd(r)
  /\ UNCHANGED accountOverlap

\* userService.delete: the profile stays.
DeleteUser(i) ==
  /\ ~ users[i].deleted
  /\ users' = [users EXCEPT ![i] = [@ EXCEPT !.deleted = TRUE]]
  /\ UNCHANGED <<account, accountOverlap>>

\* delete of a student without enrollments or a teacher without assignments: the
\* user stays.
DeleteProfile(i) ==
  /\ users[i].profile = "live"
  /\ users' = [users EXCEPT ![i] = [@ EXCEPT !.profile = "deleted"]]
  /\ UNCHANGED <<account, accountOverlap>>

\* An error or a dying process; a transaction is rolled back.
AccountAborts(r) ==
  /\ account[r].pc # "idle"
  /\ AccountEnd(r)
  /\ UNCHANGED <<users, accountOverlap>>

-----------------------------------------------------------------------------
AccountNext ==
  \/ \E r \in Requests :
       \/ \E kind \in Kinds, e \in Emails : CreateAccount(r, kind, e)
       \/ \E i \in DOMAIN users, e \in Emails : ChangeEmail(r, i, e)
       \/ InsertUser(r) \/ CreateUser(r) \/ GenerateStudentCode(r)
       \/ CreateStudentProfile(r) \/ CreateTeacherProfile(r)
       \/ UpdateUser(r) \/ AccountAborts(r)
  \/ \E i \in DOMAIN users : DeleteUser(i) \/ DeleteProfile(i)

AccountSpec == AccountInit /\ [][AccountNext]_accountVars

-----------------------------------------------------------------------------
(* Properties                                                              *)

\* Type invariant.
AccountTypeOK ==
  /\ users \in Seq(User)
  /\ account \in [Requests -> Request]
  /\ accountOverlap \in BOOLEAN
  /\ \A r \in Requests : account[r].pc = "rename" => account[r].row \in DOMAIN users

\* Whatever creations and deletions overlap or fail, the codes given out in a year
\* are 1, 2, 3 ... without a gap, and none is given twice (student.service.ts:53).
CodesAreSerial == Codes = 1 .. Cardinality(StudentRows)
=============================================================================
