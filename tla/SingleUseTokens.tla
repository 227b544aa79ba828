---------------------------- MODULE SingleUseTokens ----------------------------
(***************************************************************************)
(* What the refresh tokens of one user promise, with no requests in sight:  *)
(* exchanging a token looks at the stored one and replaces it in one step, a  *)
(* token that was exchanged is no good for anything, and all that ends when    *)
(* two requests of the user have met.                                         *)
(***************************************************************************)
EXTENDS Naturals

CONSTANT Fresh   \* what a token can be; 0 is none

VARIABLES
  token,  \* the one token that is accepted
  used,   \* the tokens that have been exchanged for another one
  met     \* two requests have met

vars == <<token, used, met>>

Init == token = 0 /\ used = {} /\ met = FALSE

\* A login replaces whatever there is.
Open(t) ==
  /\ t \notin used
  /\ token' = t
  /\ UNCHANGED <<used, met>>

\* Tokens of one second are the same: t may be the token itself.
Exchange(t) ==
  /\ token # 0
  /\ t \notin used
  /\ token' = t
  /\ used' = used \cup ({token} \ {t})
  /\ UNCHANGED met

End ==
  /\ token' = 0
  /\ UNCHANGED <<used, met>>

Meet ==
  /\ met' = TRUE
  /\ token' \in {token, 0}
  /\ UNCHANGED used

\* Whoever comes last wins: a login, or the exchange of any token.
Overwrite(g, t) ==
  /\ met
  /\ token' = t
  /\ used' \in {used, (used \cup {g}) \ {t}}
  /\ UNCHANGED met

Next ==
  \/ \E t \in Fresh : Open(t) \/ Exchange(t)
  \/ End \/ Meet
  \/ \E g, t \in Fresh : Overwrite(g, t)

Spec == Init /\ [][Next]_vars
=============================================================================
