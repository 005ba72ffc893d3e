--------------------------- MODULE MCProfilingRuns ---------------------------
(***************************************************************************)
(* Small instances of ProfilingRuns: runs of two tables, of which one has  *)
(* a start date, and a batch of both.                                      *)
(***************************************************************************)
EXTENDS ProfilingRuns, TLC

CONSTANTS t1, t2

\* The first table has a column of timestamps, written as its rows are committed; the
\* second a date, rounded down, of which the last row has none.
Stamps == (t1 :> [i \in 1..MaxClock |-> i]) @@ (t2 :> [i \in 1..MaxClock |-> <<1, 1, 3, 0>>[i]])

FirstHasStart == (t1 :> 1) @@ (t2 :> 0)

Symmetry == Permutations(Runs)

=============================================================================
