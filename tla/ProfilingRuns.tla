--------------------------- MODULE ProfilingRuns ---------------------------
(***************************************************************************)
(* Incremental profiling of tables: what each run reads, and what it tells *)
(* of it (features/data_quality/spark_profiling_worker.py,                 *)
(* profiling_watermarks.py), and the batch that runs many tables           *)
(* (spark_schema.py).                                                      *)
(*                                                                         *)
(* A run has three rows, written in transactions of their own: its dq_run, *)
(* its job, and its record of the window that it reads.  A thread serves   *)
(* it, which dies with its process, and nothing resumes it.  The next run  *)
(* of a table reads from where the last successful record ends.            *)
(***************************************************************************)
EXTENDS Naturals, FiniteSets

CONSTANTS
  Runs,        \* ids of runs
  Tables,
  Targets,     \* the tables of the batch
  Floor,       \* [Tables -> Nat]: the configured start date, 0 for none
  Stamp,       \* [Tables -> [1..MaxClock -> Nat]]: the watermark column of each row, 0 for NULL
  Concurrency, \* how many tables the batch profiles at once
  MaxClock,    \* bound on the clock
  NoTable, NoRun

ASSUME TablesAssumption == /\ Targets \subseteq Tables
                           /\ NoTable \notin Tables /\ NoRun \notin Runs
ASSUME NumbersAssumption == /\ Floor \in [Tables -> Nat] /\ Concurrency \in Nat \ {0}
                            /\ MaxClock \in Nat \ {0}
                            /\ Stamp \in [Tables -> [1..MaxClock -> Nat]]

VARIABLES
  clock,     \* at each instant i a row i of each table can be read for the first time
  run,       \* the rows of each run, and its thread
  batch      \* the parent run and its thread

vars == <<clock, run, batch>>

-----------------------------------------------------------------------------
Terminal == {"success", "failed", "timeout"}

Statuses == {"none", "queued", "running"} \cup Terminal

Stages == {"free", "created", "launched", "started", "resolved", "open", "read", "saved",
           "finished", "failing", "failed mark", "failed run", "over", "dead"}

Run == [stage : Stages, table : Tables \cup {NoTable},
        dq : Statuses, job : Statuses, mark : {"none", "running", "success", "failed"},
        start : Nat, end : Nat, \* start 0: the whole table is read
        rows : SUBSET Nat, saved : BOOLEAN, out : {"failed", "timeout"}]

Batch == [status : {"queued", "running", "success", "failed"}, live : BOOLEAN,
          pending : SUBSET Targets, creating : Runs \cup {NoRun},
          active : SUBSET Runs, children : SUBSET Runs, failures : BOOLEAN]

TypeOK ==
  /\ clock \in 1..MaxClock
  /\ run \in [Runs -> Run]
  /\ batch \in Batch

Free == [stage |-> "free", table |-> NoTable, dq |-> "none", job |-> "none",
         mark |-> "none", start |-> 0, end |-> 0, rows |-> {}, saved |-> FALSE,
         out |-> "failed"]

OnItsWay(r) == run[r].stage \notin {"free", "over", "dead"}

-----------------------------------------------------------------------------
(* Launching.                                                              *)

Create(r, t) ==
  /\ run[r] = Free
  /\ run' = [run EXCEPT ![r] = [Free EXCEPT !.stage = "created", !.table = t,
                                            !.dq = "queued"]]

\* A user, or the schedule of one table.  The batch is left the ids that it needs.
Launch(r, t) ==
  /\ Cardinality(batch.pending) < Cardinality({q \in Runs : run[q] = Free})
  /\ Create(r, t)
  /\ UNCHANGED <<clock, batch>>

\* enqueue_profiling_job: the row is committed and the thread is started.
Enqueue(r) ==
  /\ run[r].stage = "created"
  /\ run' = [run EXCEPT ![r] = [@ EXCEPT !.stage = "launched", !.job = "queued"]]
  /\ batch' = IF r = batch.creating
                THEN [batch EXCEPT !.creating = NoRun, !.active = @ \cup {r}]
                ELSE batch
  /\ UNCHANGED clock

-----------------------------------------------------------------------------
(* execute_profiling_job.                                                  *)

\* The rows are committed; then the clock is read.
Start(r) ==
  /\ run[r].stage = "launched"
  /\ run' = [run EXCEPT ![r] = [@ EXCEPT !.stage = "started", !.dq = "running", !.job = "running",
                                         !.end = clock]]
  /\ UNCHANGED <<clock, batch>>

\* Where the windows of the successful runs of t end.
Ends(t) == {run[r].end : r \in {q \in Runs : run[q].table = t /\ run[q].mark = "success"}}

\* Mutant of Window: it continues from a run that has not succeeded.
WindowAfterAny(t, s, e) ==
  LET ends == {run[r].end : r \in {q \in Runs : run[q].table = t /\ run[q].mark # "none"}} IN
  \/ s = 0
  \/ ends = {} /\ s = Floor[t]
  \/ s \in ends /\ (\A d \in ends : d <= s) /\ s < e

\* resolve_profiling_window: a run of t that ends at e reads from s.  It is a full read
\* where an earlier success ends no earlier, or the table has no watermark column: which
\* it has is configured, or found by a scan, and can change before any run.
Window(t, s, e) ==
  \/ s = 0
  \/ Ends(t) = {} /\ s = Floor[t]
  \/ s \in Ends(t) /\ (\A d \in Ends(t) : d <= s) /\ s < e

Resolve(r) ==
  /\ run[r].stage = "started"
  /\ \E s \in (0..clock) \cup {Floor[run[r].table]} :
       /\ Window(run[r].table, s, run[r].end)
       /\ run' = [run EXCEPT ![r] = [@ EXCEPT !.stage = "resolved", !.start = s]]
  /\ UNCHANGED <<clock, batch>>

\* open_watermark_record, in a session of its own.
Open(r) ==
  /\ run[r].stage = "resolved"
  /\ run' = [run EXCEPT ![r] = [@ EXCEPT !.stage = "open", !.mark = "running"]]
  /\ UNCHANGED <<clock, batch>>

\* _delta_where_clause: of the rows that are there by then, Spark reads those whose stamp
\* is in the window, or all of them.  A row can bear a stamp of before it was there: it
\* was committed late, or its column is a date and bears the beginning of its day.
Rows(r) ==
  LET stamp == Stamp[run[r].table] IN
  {i \in 1..clock : run[r].start = 0 \/ (run[r].start < stamp[i] /\ stamp[i] <= run[r].end)}

Read(r) ==
  /\ run[r].stage = "open"
  /\ run' = [run EXCEPT ![r] = [@ EXCEPT !.stage = "read", !.rows = Rows(r)]]
  /\ UNCHANGED <<clock, batch>>

\* spark-submit exits with an error, which is committed first and raised then.
SparkFails(r) ==
  /\ run[r].stage = "open"
  /\ run' = [run EXCEPT ![r] = [@ EXCEPT !.stage = "failing", !.dq = "failed", !.out = "failed"]]
  /\ UNCHANGED <<clock, batch>>

SparkTimesOut(r) ==
  /\ run[r].stage = "open"
  /\ run' = [run EXCEPT ![r] = [@ EXCEPT !.stage = "failing", !.out = "timeout"]]
  /\ UNCHANGED <<clock, batch>>

\* The profile and the dq_run are committed.  For a run that a schedule asked for that is
\* what update_profiling_schedule_run_state does, before the job is touched; for another
\* the job is in the same transaction.
Save(r) ==
  /\ run[r].stage = "read"
  /\ \/ run' = [run EXCEPT ![r] = [@ EXCEPT !.stage = "saved", !.saved = TRUE, !.dq = "success"]]
     \/ run' = [run EXCEPT ![r] = [@ EXCEPT !.stage = "finished", !.saved = TRUE, !.dq = "success",
                                            !.job = "success"]]
  /\ UNCHANGED <<clock, batch>>

FinishJob(r) ==
  /\ run[r].stage = "saved"
  /\ run' = [run EXCEPT ![r] = [@ EXCEPT !.stage = "finished", !.job = "success"]]
  /\ UNCHANGED <<clock, batch>>

\* Mutant of Finalize: the record is left for the next run to read again from, and
\* its end is put where the run ended.
FinalizeAtEnd(r) ==
  /\ run[r].stage = "finished"
  /\ run' = [run EXCEPT ![r] = [@ EXCEPT !.stage = "over", !.mark = "success", !.end = clock]]
  /\ UNCHANGED <<clock, batch>>

\* The watermark advances.
Finalize(r) ==
  /\ run[r].stage = "finished"
  /\ run' = [run EXCEPT ![r] = [@ EXCEPT !.stage = "over", !.mark = "success"]]
  /\ UNCHANGED <<clock, batch>>

\* What was not saved goes with the session.
Left(r) == IF run[r].saved THEN run[r].rows ELSE {}

\* Any exception on the way: the session is rolled back.
Fault(r) ==
  /\ run[r].stage \in {"launched", "started", "resolved", "open", "read", "saved",
                       "finished"}
  /\ run' = [run EXCEPT ![r] = [@ EXCEPT !.stage = "failing", !.out = "failed",
                                         !.rows = Left(r)]]
  /\ UNCHANGED <<clock, batch>>

\* Mutant of FailMark: the failed run's window is not kept for a new attempt.
FailMarkAdvances(r) ==
  /\ run[r].stage = "failing"
  /\ run' = [run EXCEPT ![r] = [@ EXCEPT !.stage = "failed mark",
                                         !.mark = IF run[r].mark = "none" THEN "none" ELSE "success"]]
  /\ UNCHANGED <<clock, batch>>

\* The record if there is one, the dq_run and the job are failed, one by one.
FailMark(r) ==
  /\ run[r].stage = "failing"
  /\ run' = [run EXCEPT ![r] = [@ EXCEPT !.stage = "failed mark",
                                         !.mark = IF run[r].mark = "none" THEN "none" ELSE "failed"]]
  /\ UNCHANGED <<clock, batch>>

\* Mutant of FailRun: the profile that a failed run has saved is deleted.
FailRunDiscards(r) ==
  /\ run[r].stage = "failed mark"
  /\ run' = [run EXCEPT ![r] = [@ EXCEPT !.stage = "failed run", !.dq = run[r].out,
                                         !.saved = FALSE, !.rows = {}]]
  /\ UNCHANGED <<clock, batch>>

FailRun(r) ==
  /\ run[r].stage = "failed mark"
  /\ run' = [run EXCEPT ![r] = [@ EXCEPT !.stage = "failed run", !.dq = run[r].out]]
  /\ UNCHANGED <<clock, batch>>

FailJob(r) ==
  /\ run[r].stage = "failed run"
  /\ run' = [run EXCEPT ![r] = [@ EXCEPT !.stage = "over", !.job = run[r].out]]
  /\ UNCHANGED <<clock, batch>>

\* The process goes, or an exception leaves the handler.  The rows stay as they are.
Die(r) ==
  /\ OnItsWay(r) /\ r # batch.creating
  /\ run' = [run EXCEPT ![r] = [@ EXCEPT !.stage = "dead", !.rows = Left(r)]]
  /\ UNCHANGED <<clock, batch>>

-----------------------------------------------------------------------------
(* execute_schema_profiling_orchestration.                                 *)

Begin ==
  /\ batch.live /\ batch.status = "queued"
  /\ batch' = [batch EXCEPT !.status = "running"]
  /\ UNCHANGED <<clock, run>>

Idle == batch.live /\ batch.status = "running" /\ batch.creating = NoRun

Spawn(r, t) ==
  /\ Idle
  /\ t \in batch.pending /\ Cardinality(batch.active) < Concurrency
  /\ Create(r, t)
  /\ batch' = [batch EXCEPT !.pending = @ \ {t}, !.creating = r, !.children = @ \cup {r}]
  /\ UNCHANGED clock

\* Mutant of Poll: a run that timed out is not over.
PollOn(r) ==
  /\ Idle
  /\ r \in batch.active /\ run[r].job \in {"success", "failed"}
  /\ batch' = [batch EXCEPT !.active = @ \ {r},
                            !.failures = \/ @ \/ run[r].dq \in {"failed", "timeout"}
                                         \/ run[r].job \in {"failed", "timeout"}]
  /\ UNCHANGED <<clock, run>>

\* Mutant of Poll: a run that timed out is not counted as failed.
PollTimeout(r) ==
  /\ Idle
  /\ r \in batch.active /\ run[r].job \in Terminal
  /\ batch' = [batch EXCEPT !.active = @ \ {r},
                            !.failures = @ \/ run[r].dq = "failed" \/ run[r].job = "failed"]
  /\ UNCHANGED <<clock, run>>

\* The job is read until it is terminal, and the dq_run then.
Poll(r) ==
  /\ Idle
  /\ r \in batch.active /\ run[r].job \in Terminal
  /\ batch' = [batch EXCEPT !.active = @ \ {r},
                            !.failures = \/ @ \/ run[r].dq \in {"failed", "timeout"}
                                         \/ run[r].job \in {"failed", "timeout"}]
  /\ UNCHANGED <<clock, run>>

\* Mutant of End: a table is left.
EndEarly ==
  /\ Idle
  /\ batch.active = {}
  /\ batch' = [batch EXCEPT !.status = IF batch.failures THEN "failed" ELSE "success"]
  /\ UNCHANGED <<clock, run>>

End ==
  /\ Idle
  /\ batch.pending = {} /\ batch.active = {}
  /\ batch' = [batch EXCEPT !.status = IF batch.failures THEN "failed" ELSE "success"]
  /\ UNCHANGED <<clock, run>>

\* Its thread ends with that status: a child that it was creating has no job.
Leave(status) ==
  /\ batch' = [batch EXCEPT !.status = status, !.live = FALSE, !.creating = NoRun]
  /\ run' = [r \in Runs |-> IF r = batch.creating THEN [run[r] EXCEPT !.stage = "dead"] ELSE run[r]]
  /\ UNCHANGED clock

\* An exception fails the parent, even after its end, and leaves the children to themselves.
BatchFault == batch.live /\ batch.status # "queued" /\ Leave("failed")

\* The schedule and the audit are written, or the process goes.
BatchLeaves == batch.live /\ Leave(batch.status)

-----------------------------------------------------------------------------
(* The rest of the system.                                                 *)

Tick ==
  /\ clock < MaxClock
  /\ clock' = clock + 1
  /\ UNCHANGED <<run, batch>>

-----------------------------------------------------------------------------
Init ==
  /\ clock = 1
  /\ run = [r \in Runs |-> Free]
  /\ batch = [status |-> "queued", live |-> TRUE, pending |-> Targets, creating |-> NoRun,
              active |-> {}, children |-> {}, failures |-> FALSE]

\* What a thread does unless it fails.
Serve(r) ==
  \/ Enqueue(r) \/ Start(r) \/ Resolve(r) \/ Open(r)
  \/ Read(r) \/ SparkFails(r) \/ SparkTimesOut(r)
  \/ Save(r) \/ FinishJob(r) \/ Finalize(r)
  \/ FailMark(r) \/ FailRun(r) \/ FailJob(r)

Orchestrate ==
  \/ Begin
  \/ \E r \in Runs, t \in Targets : Spawn(r, t)
  \/ \E r \in Runs : Poll(r)
  \/ End

Next ==
  \/ \E r \in Runs, t \in Tables : Launch(r, t)
  \/ \E r \in Runs : Serve(r) \/ Fault(r) \/ Die(r)
  \/ Orchestrate
  \/ BatchFault \/ BatchLeaves
  \/ Tick

Spec == Init /\ [][Next]_vars

\* A thread runs on, and so does what it waits for: spark-submit has a timeout.
Fairness == WF_vars(Orchestrate) /\ \A r \in Runs : WF_vars(Serve(r))

FairSpec == Spec /\ Fairness

-----------------------------------------------------------------------------
Profiled(t) == UNION {run[r].rows : r \in {q \in Runs : run[q].table = t /\ run[q].saved}}

\* Row i of t came after a window that takes its stamp in had ended: no run need see it.
Late(t, i) == \E d \in Ends(t) : Stamp[t][i] <= d /\ d < i

\* Every row of before n whose stamp is after the start date, and no later than n, is in
\* a profile of t, or was late.
ProfiledTo(t, n) ==
  \A i \in 1..n : Floor[t] < Stamp[t][i] /\ Stamp[t][i] <= n => i \in Profiled(t) \/ Late(t, i)

\* The watermark skips late rows only: up to where a successful run of a table ends,
\* whatever runs overlapped, failed, died or were left without a column, every row
\* stamped since the start date is in a profile that was saved, unless a window over its
\* stamp had ended before the row was there.  Of a row whose column is NULL nothing is
\* promised.
NothingSkipped ==
  \A r \in Runs : run[r].mark = "success" => ProfiledTo(run[r].table, run[r].end)

\* The runs of a table are the watermark of Watermark: no failure, no late run and no
\* dropped column takes a row out of the profiles, or the watermark back.
Abstract == INSTANCE Watermark WITH
  done  <- [t \in Tables |-> Profiled(t)],
  marks <- [t \in Tables |-> Ends(t)]

ImplementsWatermark == Abstract!Spec

\* The window of a run counts only if its profile stands, and the run is told to have
\* succeeded wherever its rows are read: three rows written in four transactions.
MarkedStands ==
  \A r \in Runs : run[r].mark = "success" =>
    run[r].saved /\ run[r].dq = "success" /\ run[r].job = "success"

\* A batch that succeeded has profiled every table.
BatchTold ==
  batch.status = "success" =>
    \A t \in Targets : \E r \in batch.children : run[r].table = t /\ run[r].saved

\* A batch ends, unless the thread of a run that it waits for is gone.
BatchEnds ==
  (batch.status = "running") ~>
    (batch.status # "running" \/ ~ batch.live \/ \E r \in batch.active : run[r].stage = "dead")

-----------------------------------------------------------------------------
(* The inductive invariant.                                                *)

Reading == {"resolved", "open", "read", "saved", "finished"}

\* How far the rows of a run have come, at each stage of its thread.
Fits(u) ==
  /\ u.stage \in {"free", "created", "launched", "started", "resolved"} =>
       u.mark = "none" /\ ~ u.saved
  /\ u.stage \in {"open", "read"} => u.mark = "running" /\ ~ u.saved
  /\ u.stage = "saved" => u.mark = "running" /\ u.saved /\ u.dq = "success"
  /\ u.stage = "finished" =>
       u.mark = "running" /\ u.saved /\ u.dq = "success" /\ u.job = "success"
  /\ u.mark = "success" => u.stage = "over" /\ u.saved /\ u.dq = "success" /\ u.job = "success"
  /\ u.job = "success" => u.saved

\* What Spark has read is the window, up to an instant that has passed.
Covers(u) ==
  /\ u.end <= clock
  /\ u.stage \in {"read", "saved", "finished"} =>
       \A i \in 1..u.end :
         u.start < Stamp[u.table][i] /\ Stamp[u.table][i] <= u.end => i \in u.rows

\* Every table of the batch is waiting, or served, or its profile is saved, or the batch fails.
Accounted ==
  /\ batch.active \subseteq batch.children
  /\ batch.creating # NoRun =>
       batch.creating \in batch.children /\ run[batch.creating].stage = "created"
  /\ batch.status = "queued" /\ batch.live => batch.pending = Targets
  /\ batch.status = "running" /\ batch.live /\ ~ batch.failures =>
       \A t \in Targets :
         \/ t \in batch.pending
         \/ \E r \in batch.children :
              /\ run[r].table = t
              /\ r = batch.creating \/ r \in batch.active \/ run[r].saved

\* What is proved of every step.
ProfilingInv ==
  /\ TypeOK
  /\ \A r \in Runs : Fits(run[r]) /\ Covers(run[r])
  /\ \A r \in Runs : run[r].stage \in Reading =>
       run[r].start \in {0, Floor[run[r].table]} \cup Ends(run[r].table)
  /\ NothingSkipped
  /\ \A r \in Runs : run[r].stage # "free" => run[r].table \in Tables
  /\ BatchTold /\ Accounted

=============================================================================
