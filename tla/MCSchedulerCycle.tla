-------------------------- MODULE MCSchedulerCycle --------------------------
(***************************************************************************)
(* A small instance of SchedulerCycle: the API process p1, in which        *)
(* requests run cycles by hand in the threads c1 and c2, and the dq-worker *)
(* p2, with its loop c3.  A process's pool has two connections, so that a  *)
(* cycle may find its lock on the connection it did not get back.          *)
(***************************************************************************)
EXTENDS SchedulerCycle, TLC

CONSTANTS p1, p2, c1, c2, c3, x1, x2, x3, x4

TwoAndOne == (c1 :> p1) @@ (c2 :> p1) @@ (c3 :> p2)

Pools == (p1 :> {x1, x2}) @@ (p2 :> {x3, x4})

\* Sound for safety only: the connections of a pool are interchangeable.
Symmetry == Permutations({x1, x2}) \cup Permutations({x3, x4})

=============================================================================
