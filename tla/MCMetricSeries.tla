--------------------------- MODULE MCMetricSeries ---------------------------
(* Two sessions of one stream each, with a budget that three series exceed, *)
(* and two deleters.                                                        *)
EXTENDS MetricSeries, TLC

Symmetry == Permutations(Sessions) \cup Permutations(Keys) \cup Permutations(Deleters)
=============================================================================
