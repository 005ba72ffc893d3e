----------------------------- MODULE Watermark -----------------------------
(***************************************************************************)
(* What incremental profiling promises about a table: a row that has been  *)
(* profiled stays so, and the watermark is put at an instant only once     *)
(* every row stamped since the start date up to there has been, but for    *)
(* those that came after the watermark had passed their stamps; it is not  *)
(* taken back.  Which runs did it, and in what order they read, wrote and  *)
(* failed, does not matter.                                                *)
(***************************************************************************)
EXTENDS Naturals

CONSTANTS
  Tables,
  Floor,  \* [Tables -> Nat]: the start date, 0 for none
  Stamp   \* [Tables -> [rows -> Nat]]: the watermark column; row i is there from instant i

VARIABLES
  done,   \* [Tables -> SUBSET Nat]: the rows that have been profiled
  marks   \* [Tables -> SUBSET Nat]: where the watermark has been put

Nowhere == [t \in Tables |-> {}]

Init == done = Nowhere /\ marks = Nowhere

\* A profile is kept beside the others.
Profile(t) ==
  /\ done' = [done EXCEPT ![t] = @ \cup done'[t]]
  /\ UNCHANGED marks

\* Row i came when the watermark had passed its stamp.
Late(t, i) == \E d \in marks[t] : Stamp[t][i] <= d /\ d < i

Complete(t, n) ==
  \A i \in 1..n : Floor[t] < Stamp[t][i] /\ Stamp[t][i] <= n => i \in done[t] \/ Late(t, i)

Advance(t, n) ==
  /\ Complete(t, n)
  /\ marks' = [marks EXCEPT ![t] = @ \cup {n}]
  /\ UNCHANGED done

Next == \E t \in Tables : Profile(t) \/ \E n \in marks'[t] : Advance(t, n)

Spec == Init /\ [][Next]_<<done, marks>>

=============================================================================
