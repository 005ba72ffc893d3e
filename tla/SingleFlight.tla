---------------------------- MODULE SingleFlight ----------------------------
(***************************************************************************)
(* What the job queue promises about a job key: at any time the key has at *)
(* most one execution in flight, which waits, runs and ends, in that       *)
(* order.  A second request for a key in flight is refused (409), unless   *)
(* it replaces a running execution that is given up for dead.              *)
(***************************************************************************)
CONSTANTS Keys, Executions

VARIABLE flight   \* flight[k]: the execution of k in flight, and its status

Nothing == [e \in {} |-> "queued"]

One(e, status) == [x \in {e} |-> status]

Init == flight = [k \in Keys |-> Nothing]

Submit(k, e) ==
  /\ flight[k] = Nothing
  /\ flight' = [flight EXCEPT ![k] = One(e, "queued")]

Replace(k, d, e) ==
  /\ flight[k] = One(d, "running")
  /\ flight' = [flight EXCEPT ![k] = One(e, "queued")]

Start(k, e) ==
  /\ flight[k] = One(e, "queued")
  /\ flight' = [flight EXCEPT ![k] = One(e, "running")]

\* One worker ends its execution, or a reclaim ends several at once.
End(K) ==
  /\ \A k \in K : \E e \in Executions : flight[k] = One(e, "running")
  /\ flight' = [k \in Keys |-> IF k \in K THEN Nothing ELSE flight[k]]

Next ==
  \/ \E k \in Keys, e \in Executions : Submit(k, e) \/ Start(k, e)
  \/ \E k \in Keys, d, e \in Executions : Replace(k, d, e)
  \/ \E K \in SUBSET Keys : End(K)

Spec == Init /\ [][Next]_flight

=============================================================================
