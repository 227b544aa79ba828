--------------------------- MODULE MCSectionSeats ---------------------------
(* Instances of SectionSeats for TLC.                                       *)
EXTENDS SectionSeats, TLC

OneClass     == [x \in Sections |-> "c1"]
\* Section 2 belongs to another class.
TwoClasses   == [x \in Sections |-> IF x = 2 THEN "c2" ELSE "c1"]
AnyStudent   == Permutations(Students)
=============================================================================
