------------------------------ MODULE ScanLife ------------------------------
(***************************************************************************)
(* What a scan run promises to whoever looks at it: it is asked for, begun *)
(* and ended, one after the other and each once, and it is deleted only    *)
(* before it has begun or when all is over.  How many schedules, requests, *)
(* jobs and workers took part does not show.                               *)
(***************************************************************************)
CONSTANT Runs

VARIABLE stage   \* [Runs -> {"free", "queued", "scanning", "ended"}]

Turn(r, S, to) == stage[r] \in S /\ stage' = [stage EXCEPT ![r] = to]

Init == stage = [r \in Runs |-> "free"]

\* The id of a run that is over can be used again.
Ask(r) == Turn(r, {"free", "ended"}, "queued")

\* The run of a refused request is deleted.
Withdraw(r) == Turn(r, {"queued"}, "free")

Begin(r) == Turn(r, {"queued"}, "scanning")

End(r) == Turn(r, {"scanning"}, "ended")

Forget(r) == Turn(r, {"ended"}, "free")

Next == \E r \in Runs : Ask(r) \/ Withdraw(r) \/ Begin(r) \/ End(r) \/ Forget(r)

Spec == Init /\ [][Next]_stage

=============================================================================
