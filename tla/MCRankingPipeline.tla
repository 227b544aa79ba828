------------------------- MODULE MCRankingPipeline --------------------------
(* Instances of RankingPipeline for TLC.                                    *)
EXTENDS RankingPipeline, TLC

CONSTANTS r1, r2, rank1, rank2, roll1, roll2

OneRequest  == {r1}
TwoRequests == {r1, r2}
OneRanker   == {rank1}
TwoRankers  == {rank1, rank2}
OneRoller   == {roll1}
TwoRollers  == {roll1, roll2}

\* Requests and workers are interchangeable; safety runs only.
Symmetry ==
  Permutations(Requests) \cup Permutations(RankWorkers) \cup Permutations(RollWorkers)
=============================================================================
