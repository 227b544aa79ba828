------------------------------- MODULE Handlers -------------------------------
(***************************************************************************)
(* What the modules of records share: a bounded number of HTTP requests in  *)
(* flight.  A handler that awaits a statement is a record with a program     *)
(* counter; every statement runs alone, on its own connection of the pool,   *)
(* unless the handler is in withTransaction.                                *)
(***************************************************************************)
EXTENDS Naturals, FiniteSets

CONSTANT Requests   \* requests in flight at a time

ASSUME HandlersAssumption == IsFiniteSet(Requests)

\* Another request is between two statements when r starts.
Meets(h, r) == \E q \in Requests \ {r} : h[q].pc # "idle"
=============================================================================
