----------------------------- MODULE MCJobQueue -----------------------------
(***************************************************************************)
(* Small instances of JobQueue.  One key per source is enough to exercise  *)
(* the source filter; two keys of one source, to exercise the claim order. *)
(***************************************************************************)
EXTENDS JobQueue, TLC

CONSTANTS k1, k2, w1, w2, r1, r2

\* Two replicas of the scan worker.
BothServe == (w1 :> {k1, k2}) @@ (w2 :> {k1, k2})

\* The requests of each key come one after the other.
OwnKeys == (r1 :> {k1}) @@ (r2 :> {k2})

\* Two requests for the same key may overlap.
SharedKey == (r1 :> {k1}) @@ (r2 :> {k1})

\* One worker, one requester.
OneServes   == w1 :> {k1, k2}
OneRequests == r1 :> {k1, k2}

\* One key.
OnlyK1      == w1 :> {k1}
BothServeK1 == (w1 :> {k1}) @@ (w2 :> {k1})
OnlyR1      == r1 :> {k1}

Symmetry == Permutations(Rows)

=============================================================================
