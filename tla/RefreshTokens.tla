------------------------------ MODULE RefreshTokens ------------------------------
(***************************************************************************)
(* One user who logs in, exchanges refresh tokens, changes the password and   *)
(* logs out, and an administrator who deactivates, deletes or gives a new     *)
(* password.  The server keeps one refresh token per user, in Redis.  A JWT   *)
(* carries the second it was signed in: two tokens of a user signed in the     *)
(* same second are the same string, so a token is that second, 0 none.        *)
(***************************************************************************)
EXTENDS Handlers

CONSTANTS
  Passwords,
  MaxSecond   \* bound: seconds the model looks at

ASSUME TokenAssumption == MaxSecond \in Nat \ {0} /\ Passwords # {}

VARIABLES
  stored,       \* refresh_token:<user> in Redis
  held,         \* the token the client was given last
  issued,       \* history: tokens that have been stored
  spent,        \* history: tokens exchanged for another one
  lost,         \* history: the answer to a login or a refresh did not arrive
  second,       \* the clock that signs
  person,       \* the row of the user
  auth,         \* what each login or refresh does next
  authOverlap,  \* history: two of them have been in flight together
  change,       \* what each change of the password does next
  changeOverlap

tokenVars == <<stored, held, issued, spent, lost, second, auth, authOverlap>>
passwordVars == <<change, changeOverlap>>
authVars ==
  <<stored, held, issued, spent, lost, second, auth, authOverlap, person, change, changeOverlap>>

-----------------------------------------------------------------------------
Tokens == 0 .. MaxSecond

Auth == [pc: {"idle", "drop", "user", "sign", "store"}, given: Tokens, token: Tokens]

Change == [pc: {"idle", "update"}, given: Passwords, new: Passwords, reset: BOOLEAN]

Person == [active: BOOLEAN, deleted: BOOLEAN, password: Passwords]

NoAuth == [pc |-> "idle", given |-> 0, token |-> 0]

AnyPassword == CHOOSE w \in Passwords : TRUE

NoChange == [pc |-> "idle", given |-> AnyPassword, new |-> AnyPassword, reset |-> FALSE]

AuthInit ==
  /\ stored = 0 /\ held = 0 /\ issued = {} /\ spent = {} /\ lost = FALSE
  /\ second = 1
  /\ person = [active |-> TRUE, deleted |-> FALSE, password |-> AnyPassword]
  /\ auth = [r \in Requests |-> NoAuth]
  /\ authOverlap = FALSE
  /\ change = [r \in Requests |-> NoChange]
  /\ changeOverlap = FALSE

MayEnter == person.active /\ ~ person.deleted

AuthCall(r, request) ==
  /\ auth[r].pc = "idle"
  /\ auth' = [auth EXCEPT ![r] = request]
  /\ authOverlap' = (authOverlap \/ Meets(auth, r))

AuthStep(r, from, to) ==
  /\ auth[r].pc = from
  /\ auth' = [auth EXCEPT ![r] = [@ EXCEPT !.pc = to]]

AuthEnd(r, from) ==
  /\ auth[r].pc = from
  /\ auth' = [auth EXCEPT ![r] = NoAuth]

-----------------------------------------------------------------------------
(* Tokens                                                                  *)

\* login: the row that was found is active, and bcrypt agrees with its password.
Login(r, password) ==
  /\ MayEnter
  /\ password = person.password
  /\ AuthCall(r, [NoAuth EXCEPT !.pc = "sign"])
  /\ UNCHANGED <<stored, held, issued, spent, lost, second, person, passwordVars>>

\* Mutated RefreshGet: some token is stored.
RefreshGetAny(r, t) ==
  /\ AuthCall(r, [NoAuth EXCEPT !.pc = IF stored # 0 THEN "user" ELSE "drop",
                                !.given = t])
  /\ UNCHANGED <<stored, held, issued, spent, lost, second, person, passwordVars>>

\* refresh: a valid signature, and the GET of the stored token.
RefreshGet(r, t) ==
  /\ AuthCall(r, [NoAuth EXCEPT !.pc = IF t = stored THEN "user" ELSE "drop",
                                !.given = t])
  /\ UNCHANGED <<stored, held, issued, spent, lost, second, person, passwordVars>>

\* A token that is not the stored one ends the session.
DropSession(r) ==
  /\ AuthEnd(r, "drop")
  /\ stored' = 0
  /\ held' = 0
  /\ UNCHANGED <<issued, spent, lost, second, person, authOverlap, passwordVars>>

\* findById; whoever is gone or deactivated gets a 401.
RefreshFindUser(r) ==
  /\ IF MayEnter THEN AuthStep(r, "user", "sign") ELSE AuthEnd(r, "user")
  /\ UNCHANGED <<stored, held, issued, spent, lost, second, person, authOverlap, passwordVars>>

\* signRefresh
SignToken(r) ==
  /\ auth[r].pc = "sign"
  /\ auth' = [auth EXCEPT ![r] = [@ EXCEPT !.pc = "store", !.token = second]]
  /\ UNCHANGED <<stored, held, issued, spent, lost, second, person, authOverlap, passwordVars>>

\* Mutated StoreToken: the client gets a token that is not stored.
HandOutToken(r, arrives) ==
  /\ AuthEnd(r, "store")
  /\ held' = auth[r].token
  /\ UNCHANGED <<stored, issued, spent, lost, second, person, authOverlap, passwordVars>>

\* setEx, and the response, which may be lost.
StoreToken(r, arrives) ==
  /\ AuthEnd(r, "store")
  /\ stored' = auth[r].token
  /\ issued' = issued \cup {auth[r].token}
  /\ held' = IF arrives THEN auth[r].token ELSE held
  /\ lost' = (lost \/ ~ arrives)
  /\ spent' = IF auth[r].given = 0 THEN spent
                                   ELSE (spent \cup {auth[r].given}) \ {auth[r].token}
  /\ UNCHANGED <<second, person, authOverlap, passwordVars>>

\* logout: the DEL.
Logout ==
  /\ stored' = 0
  /\ held' = 0
  /\ authOverlap' = (authOverlap \/ \E r \in Requests : auth[r].pc # "idle")
  /\ UNCHANGED <<issued, spent, lost, second, auth, person, passwordVars>>

\* An error or a dying process.
AuthAborts(r) ==
  /\ auth[r].pc # "idle"
  /\ AuthEnd(r, auth[r].pc)
  /\ UNCHANGED <<stored, held, issued, spent, lost, second, person, authOverlap, passwordVars>>

NextSecond ==
  /\ second < MaxSecond
  /\ second' = second + 1
  /\ UNCHANGED <<stored, held, issued, spent, lost, auth, authOverlap, person, passwordVars>>

\* toggleActive
ToggleActive(on) ==
  /\ ~ person.deleted
  /\ person' = [person EXCEPT !.active = on]
  /\ UNCHANGED <<tokenVars, passwordVars>>

\* userRepository.softDelete
SoftDeleteUser ==
  /\ ~ person.deleted
  /\ person' = [person EXCEPT !.deleted = TRUE]
  /\ UNCHANGED <<tokenVars, passwordVars>>

-----------------------------------------------------------------------------
(* Passwords                                                               *)

ChangeCall(r, given, new, reset) ==
  /\ ~ person.deleted
  /\ change[r].pc = "idle"
  /\ change' = [change EXCEPT ![r] =
                  [pc |-> "update", given |-> given, new |-> new, reset |-> reset]]
  /\ changeOverlap' = (changeOverlap \/ Meets(change, r))
  /\ UNCHANGED <<tokenVars, person>>

\* changePassword: bcrypt agrees with the password that was read.
ChangePassword(r, given, new) ==
  given = person.password /\ ChangeCall(r, given, new, FALSE)

\* resetPassword
ResetPassword(r, new) == ChangeCall(r, AnyPassword, new, TRUE)

\* updatePassword, after the hashing; deleted users have it as well.
UpdatePassword(r) ==
  /\ change[r].pc = "update"
  /\ person' = [person EXCEPT !.password = change[r].new]
  /\ change' = [change EXCEPT ![r] = NoChange]
  /\ UNCHANGED <<tokenVars, changeOverlap>>

-----------------------------------------------------------------------------
TokenNext ==
  \/ \E r \in Requests :
       \/ \E w \in Passwords : Login(r, w)
       \/ \E t \in issued : RefreshGet(r, t)
       \/ DropSession(r) \/ RefreshFindUser(r) \/ SignToken(r)
       \/ \E arrives \in BOOLEAN : StoreToken(r, arrives)
       \/ AuthAborts(r)
  \/ Logout
  \/ NextSecond
  \/ \E on \in BOOLEAN : ToggleActive(on)
  \/ SoftDeleteUser

PasswordNext ==
  \E r \in Requests :
    \/ \E given, new \in Passwords : ChangePassword(r, given, new)
    \/ \E new \in Passwords : ResetPassword(r, new)
    \/ UpdatePassword(r)

AuthSpec == AuthInit /\ [][TokenNext \/ PasswordNext]_authVars

-----------------------------------------------------------------------------
(* Properties                                                              *)

\* Type invariant.
AuthTypeOK ==
  /\ stored \in Tokens /\ held \in Tokens
  /\ issued \subseteq Tokens /\ spent \subseteq issued
  /\ lost \in BOOLEAN
  /\ second \in Tokens
  /\ person \in Person
  /\ auth \in [Requests -> Auth]
  /\ change \in [Requests -> Change]
  /\ authOverlap \in BOOLEAN /\ changeOverlap \in BOOLEAN
  /\ \A r \in Requests : auth[r].pc = "store" => auth[r].token > 0

\* A client whose requests do not overlap, and which gets the answers to them, can
\* go on with the token it was given last (auth.service.ts:101).
LastTokenIsStored == ~ authOverlap /\ ~ lost /\ held # 0 => stored = held

\* As long as requests do not overlap, no token that was exchanged for another is
\* accepted again (auth.service.ts:82).
SpentIsRefused ==
  ~ authOverlap =>
    \A r \in Requests : auth[r].pc \in {"user", "sign", "store"} => auth[r].given \notin spent

-----------------------------------------------------------------------------
(* What this implements                                                    *)

SingleUse == INSTANCE SingleUseTokens WITH
  Fresh <- Tokens \ {0},
  token <- stored,
  used  <- spent,
  met   <- authOverlap

\* refresh reads the stored token in one command and replaces it in another, with a
\* query between them: it still is one exchange of the stored token for a token that
\* was never exchanged, as long as requests do not overlap, whoever is deactivated
\* meanwhile and wherever a request is cut off (auth.service.ts:78).
ExchangesAreAtomic == SingleUse!Spec

=============================================================================
