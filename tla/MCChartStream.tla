--------------------------- MODULE MCChartStream ---------------------------
(* Small instances of ChartStream for TLC. *)
EXTENDS ChartStream, TLC

CONSTANTS c1, c2, h1, h2

Symmetric == Permutations(Handlers) \cup Permutations(Residents)
=============================================================================
