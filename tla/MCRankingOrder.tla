--------------------------- MODULE MCRankingOrder ---------------------------
(* Instances of RankingOrder for TLC.                                       *)
EXTENDS RankingOrder

TwoStudents   == 1 .. 2
ThreeStudents == 1 .. 3
=============================================================================
