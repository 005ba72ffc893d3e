----------------------------- MODULE LifeCycle -----------------------------
(***************************************************************************)
(* What the two kinds of requests promise about their status, where nobody *)
(* overlaps a call: each call moves one request, at once, along a life     *)
(* cycle that ends with one decision.  A change is drafted, reviewed,      *)
(* approved and applied, or rejected on the way; an ask is pending until   *)
(* it is applied or rejected, and meanwhile no ask of its type is.         *)
(***************************************************************************)
CONSTANTS
  Changes, Asks,  \* ids of requests of either kind
  Alike           \* the pairs of asks that are of one type

VARIABLE status

Stages == {"draft", "review", "approved", "pending"}

Follows ==
  {<<"draft", "review">>, <<"review", "approved">>, <<"approved", "applied">>,
   <<"pending", "applied">>}
  \cup Stages \X {"rejected"}

Init == status = [q \in Changes \cup Asks |-> "free"]

Open(q) ==
  /\ status[q] = "free"
  /\ status' = [status EXCEPT ![q] = "draft"]

Ask(q) ==
  /\ status[q] = "free"
  /\ \A r \in Asks : <<q, r>> \in Alike => status[r] # "pending"
  /\ status' = [status EXCEPT ![q] = "pending"]

Move(q, t) ==
  /\ <<status[q], t>> \in Follows
  /\ status' = [status EXCEPT ![q] = t]

Next ==
  \/ \E q \in Changes : Open(q)
  \/ \E q \in Asks : Ask(q)
  \/ \E q \in Changes \cup Asks, t \in Stages \cup {"applied", "rejected"} : Move(q, t)

Spec == Init /\ [][Next]_status

=============================================================================
