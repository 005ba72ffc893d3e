------------------------------ MODULE RuleRuns ------------------------------
(***************************************************************************)
(* Runs of one data quality rule, and the row that shows its latest run    *)
(* and job (features/data_quality/spark_rules_worker.py, latest_runs.py,   *)
(* services/dq_spark.py).                                                  *)
(*                                                                         *)
(* Several jobs may run the rule at once, each in a thread.  A transaction *)
(* reads the snapshot row, decides, and writes it later; in between it has *)
(* no lock, and a writer waits for the one that wrote and has not          *)
(* committed.  Before it reads, it asks the catalogue of the database      *)
(* whether there is such a table, on a connection of its own: when that    *)
(* fails it goes on without the row, and without its lock.                 *)
(*                                                                         *)
(* A transaction's timestamp is that of its start, and that of a success   *)
(* starts before Spark does.                                               *)
(***************************************************************************)
EXTENDS Naturals, FiniteSets

CONSTANTS
  Jobs,   \* ids of jobs; a job runs the rule at most once
  Kinds,  \* of requests: one may name the rule, and may have a dq_run
  NoJob

ASSUME JobsAssumption == NoJob \notin Jobs
ASSUME KindsAssumption == Kinds \subseteq [named : BOOLEAN, tracked : BOOLEAN]

VARIABLES
  clock,     \* timestamps given
  job,       \* [Jobs -> Job]: the rows of each job, and its thread
  snapshot,  \* the committed dq_rule_latest_runs row of the rule
  lock,      \* the job whose transaction has written that row and not ended
  incident   \* [Jobs -> Incidents]: the incident of the rule that each job opened

vars == <<clock, job, snapshot, lock, incident>>

-----------------------------------------------------------------------------
Statuses == {"none", "queued", "running", "success", "failed"}

Stages == {"free", "created", "noting", "launched", "starting", "running", "compared", "shown",
           "looked", "closing", "failing", "told", "failed job", "failed run", "over", "dead"}

\* A snapshot row: the run and the job that it points to.
Row == [there : BOOLEAN, run : Jobs \cup {NoJob}, job : Jobs \cup {NoJob}]

\* An incident is open or investigated, or it is not, or it is so again.
Incidents == {"none", "open", "aside", "back"}

Job == [stage : Stages, status : Statuses, dq : Statuses,
        named : BOOLEAN,     \* the request names the rule, or asks for all of the table's
        made : Nat,          \* created_at of the job
        begun : Nat,         \* created_at of its rule run
        ran : BOOLEAN,       \* the rule run is committed
        notes : BOOLEAN,     \* the row will be written, with the job
        shows : BOOLEAN,     \* the row will be written, or is, with the run
        inserts : BOOLEAN,   \* the row was not there when it was read
        blind : BOOLEAN,     \* the run was not compared
        known : SUBSET Jobs, \* whose runs were committed by then
        fails : BOOLEAN,     \* the rule is violated
        found : BOOLEAN]     \* an open incident was found

Blank == [there |-> FALSE, run |-> NoJob, job |-> NoJob]

Free == [stage |-> "free", status |-> "none", dq |-> "none", named |-> FALSE, made |-> 0,
         begun |-> 0, ran |-> FALSE, notes |-> FALSE, shows |-> FALSE, inserts |-> FALSE,
         blind |-> FALSE, known |-> {}, fails |-> FALSE, found |-> FALSE]

TypeOK ==
  /\ clock \in Nat
  /\ job \in [Jobs -> Job]
  /\ snapshot \in Row
  /\ lock \in Jobs \cup {NoJob}
  /\ incident \in [Jobs -> Incidents]

-----------------------------------------------------------------------------
(* The snapshot row.                                                       *)

\* sync_latest_snapshot_for_job: j is no older than the job that is read.
IsNewerJob(j) == snapshot.job = NoJob \/ job[j].made >= job[snapshot.job].made

\* Mutant of IsNewerRun: the jobs are compared instead.
IsNewerRunByJob(j) == snapshot.run = NoJob \/ job[j].made >= job[snapshot.run].made

\* sync_latest_snapshot_for_rule_run: the same, for the rule runs.
IsNewerRun(j) == snapshot.run = NoJob \/ job[j].begun >= job[snapshot.run].begun

\* The table is found missing; or the row is read, and the job that it points to; or the
\* row is missed and got again, but not its job: whatever it points to is replaced.
Syncs == {"skips", "compares", "misses"}

\* What a transaction makes of the job of j.  Only a column whose value changes is written.
Decided(j, stage, sync) ==
  [job[j] EXCEPT !.stage = stage,
                 !.notes = /\ sync # "skips" /\ snapshot.job # j
                           /\ sync = "compares" => IsNewerJob(j),
                 !.inserts = sync # "skips" /\ ~ snapshot.there /\ lock # j]

\* The row is free, or j's own transaction has written it; and it is not inserted twice.
CanWrite(j) == lock \in {NoJob, j} /\ (job[j].inserts => ~ snapshot.there)

\* The row with the job of j, and whatever run it shows by now.
WithJob(j) == IF job[j].notes THEN [snapshot EXCEPT !.there = TRUE, !.job = j] ELSE snapshot

\* A transaction that writes no run writes its job and commits.
NoteJob(j) ==
  /\ job[j].notes => CanWrite(j)
  /\ snapshot' = WithJob(j)

Unlocked(j) == IF lock = j THEN NoJob ELSE lock

\* The job goes on to a stage, with what it read of the row behind it.
Through(j, stage) == [job[j] EXCEPT !.stage = stage, !.notes = FALSE, !.inserts = FALSE]

\* Its transaction is rolled back.
Undone(j, stage) == [Through(j, stage) EXCEPT !.shows = FALSE]

-----------------------------------------------------------------------------
(* enqueue_rules_job.                                                      *)

Request(j, kind) ==
  /\ job[j] = Free
  /\ job' = [job EXCEPT ![j] = [Free EXCEPT !.stage = "created", !.status = "queued",
                                            !.dq = IF kind.tracked THEN "queued" ELSE "none",
                                            !.named = kind.named, !.made = clock + 1]]
  /\ clock' = clock + 1
  /\ UNCHANGED <<snapshot, lock, incident>>

\* A second session reads the row, if the request names the rule.
NoteRead(j) ==
  /\ job[j].stage = "created"
  /\ IF job[j].named
       THEN \E sync \in Syncs : job' = [job EXCEPT ![j] = Decided(j, "noting", sync)]
       ELSE job' = [job EXCEPT ![j] = [job[j] EXCEPT !.stage = "launched"]]
  /\ UNCHANGED <<clock, snapshot, lock, incident>>

\* It commits, and the thread is started.
Note(j) ==
  /\ job[j].stage = "noting"
  /\ NoteJob(j)
  /\ job' = [job EXCEPT ![j] = Through(j, "launched")]
  /\ UNCHANGED <<clock, lock, incident>>

-----------------------------------------------------------------------------
(* execute_rules_job.                                                      *)

StartRead(j) ==
  /\ job[j].stage = "launched"
  /\ \E sync \in Syncs : job' = [job EXCEPT ![j] = Decided(j, "starting", sync)]
  /\ UNCHANGED <<clock, snapshot, lock, incident>>

\* The statuses are committed, and the transaction of the result starts.
Start(j) ==
  /\ job[j].stage = "starting"
  /\ NoteJob(j)
  /\ job' = [job EXCEPT ![j] = [Through(j, "running") EXCEPT
                                  !.status = "running",
                                  !.dq = IF job[j].dq = "none" THEN "none" ELSE "running",
                                  !.begun = clock + 1]]
  /\ clock' = clock + 1
  /\ UNCHANGED <<lock, incident>>

\* What is committed when j reads.
Committed == {k \in Jobs : job[k].ran}

\* Mutant of Compare: a run that is older is shown all the same.
CompareNot(j, fails) ==
  /\ job[j].stage = "running"
  /\ \E blind \in BOOLEAN :
       job' = [job EXCEPT ![j] = [job[j] EXCEPT
                 !.stage = "compared", !.fails = fails, !.blind = blind, !.known = Committed,
                 !.shows = ~ blind,
                 !.inserts = ~ blind /\ ~ snapshot.there]]
  /\ UNCHANGED <<clock, snapshot, lock, incident>>

\* Spark is done: the rule run is inserted, and compared with the one that is shown,
\* unless the table of snapshots is found missing.
Compare(j, fails) ==
  /\ job[j].stage = "running"
  /\ \E blind \in BOOLEAN :
       job' = [job EXCEPT ![j] = [job[j] EXCEPT
                 !.stage = "compared", !.fails = fails, !.blind = blind, !.known = Committed,
                 !.shows = ~ blind /\ IsNewerRun(j),
                 !.inserts = ~ blind /\ ~ snapshot.there]]
  /\ UNCHANGED <<clock, snapshot, lock, incident>>

\* Mutant of Show: the row is written with the commit.
ShowLate(j) ==
  /\ job[j].stage = "compared"
  /\ job' = [job EXCEPT ![j] = Through(j, "shown")]
  /\ UNCHANGED <<clock, snapshot, lock, incident>>

\* The newer run is written to the row, which nobody else can write until the end.
Show(j) ==
  /\ job[j].stage = "compared"
  /\ job[j].shows => CanWrite(j)
  /\ job' = [job EXCEPT ![j] = Through(j, "shown")]
  /\ lock' = IF job[j].shows THEN j ELSE lock
  /\ UNCHANGED <<clock, snapshot, incident>>

\* upsert_incident_for_dq_rule: an open incident is looked for.
Look(j) ==
  /\ job[j].stage = "shown"
  /\ job' = [job EXCEPT ![j] = [job[j] EXCEPT !.stage = "looked",
                                !.found = \E i \in Jobs : incident[i] \in {"open", "back"}]]
  /\ UNCHANGED <<clock, snapshot, lock, incident>>

\* The row is read again, as the transaction sees it: if it has written the run to it,
\* the row is there.
CloseRead(j) ==
  /\ job[j].stage = "looked"
  /\ \E sync \in Syncs : job' = [job EXCEPT ![j] = Decided(j, "closing", sync)]
  /\ UNCHANGED <<clock, snapshot, lock, incident>>

\* The run, if it is shown, takes the place of the one in the row.
WithRun(j, row) == IF job[j].shows THEN [row EXCEPT !.there = TRUE, !.run = j] ELSE row

\* The run, the row, the incident and the statuses are committed.
Finish(j) ==
  /\ job[j].stage = "closing"
  /\ job[j].notes => CanWrite(j)
  /\ snapshot' = WithRun(j, WithJob(j))
  /\ incident' = [incident EXCEPT ![j] = IF job[j].fails /\ ~ job[j].found THEN "open" ELSE @]
  /\ job' = [job EXCEPT ![j] = [Through(j, "over") EXCEPT
                                  !.status = "success", !.ran = TRUE,
                                  !.dq = IF job[j].dq = "none" THEN "none" ELSE "success"]]
  /\ lock' = Unlocked(j)
  /\ UNCHANGED clock

\* spark-submit exits with an error: the dq_run is failed and committed at once.
SparkFails(j) ==
  /\ job[j].stage = "running"
  /\ job' = [job EXCEPT ![j] = [job[j] EXCEPT !.stage = "failing",
                                !.dq = IF job[j].dq = "none" THEN "none" ELSE "failed"]]
  /\ UNCHANGED <<clock, snapshot, lock, incident>>

\* Any exception on the way, no rule that is active among them: a rollback.
Fault(j) ==
  /\ job[j].stage \in {"launched", "starting", "running", "compared", "shown", "looked", "closing"}
  /\ job' = [job EXCEPT ![j] = Undone(j, "failing")]
  /\ lock' = Unlocked(j)
  /\ UNCHANGED <<clock, snapshot, incident>>

\* In a session of its own the job is failed, and noted again if the request names the rule.
FailRead(j) ==
  /\ job[j].stage = "failing"
  /\ IF job[j].named
       THEN \E sync \in Syncs : job' = [job EXCEPT ![j] = Decided(j, "told", sync)]
       ELSE job' = [job EXCEPT ![j] = [job[j] EXCEPT !.stage = "failed job", !.status = "failed"]]
  /\ UNCHANGED <<clock, snapshot, lock, incident>>

FailNote(j) ==
  /\ job[j].stage = "told"
  /\ NoteJob(j)
  /\ job' = [job EXCEPT ![j] = [Through(j, "failed job") EXCEPT !.status = "failed"]]
  /\ UNCHANGED <<clock, lock, incident>>

\* What goes wrong there is logged, and no more.
FailNoteFails(j) ==
  /\ job[j].stage \in {"failing", "told"}
  /\ job' = [job EXCEPT ![j] = Through(j, "failed job")]
  /\ UNCHANGED <<clock, snapshot, lock, incident>>

FailRun(j) ==
  /\ job[j].stage = "failed job"
  /\ job' = [job EXCEPT ![j] = [job[j] EXCEPT !.stage = "failed run",
                                !.dq = IF job[j].dq = "none" THEN "none" ELSE "failed"]]
  /\ UNCHANGED <<clock, snapshot, lock, incident>>

\* Mutant of FailJob: the session that failed it is relied on.
FailJobBefore(j) ==
  /\ job[j].stage = "failed run"
  /\ job' = [job EXCEPT ![j] = [job[j] EXCEPT !.stage = "over"]]
  /\ UNCHANGED <<clock, snapshot, lock, incident>>

FailJob(j) ==
  /\ job[j].stage = "failed run"
  /\ job' = [job EXCEPT ![j] = [job[j] EXCEPT !.stage = "over", !.status = "failed"]]
  /\ UNCHANGED <<clock, snapshot, lock, incident>>

\* Where a job goes when the row that it inserts has been inserted since: no thread is
\* started, or the exception is handled as any other.
Collided(stage) ==
  CASE stage = "noting" -> "dead"
    [] stage \in {"starting", "compared", "closing"} -> "failing"
    [] stage = "told" -> "failed job"

Collide(j) ==
  /\ job[j].stage \in {"noting", "starting", "compared", "closing", "told"}
  /\ job[j].inserts /\ snapshot.there
  /\ job' = [job EXCEPT ![j] = Undone(j, Collided(job[j].stage))]
  /\ UNCHANGED <<clock, snapshot, lock, incident>>

OnItsWay(j) == job[j].stage \notin {"free", "over", "dead"}

\* Mutant of Die: the database keeps the transaction of a process that is gone.
DieLocked(j) ==
  /\ OnItsWay(j)
  /\ job' = [job EXCEPT ![j] = Undone(j, "dead")]
  /\ UNCHANGED <<clock, snapshot, lock, incident>>

\* The process goes, or an exception leaves a handler: no thread is started, or it ends.
Die(j) ==
  /\ OnItsWay(j)
  /\ job' = [job EXCEPT ![j] = Undone(j, "dead")]
  /\ lock' = Unlocked(j)
  /\ UNCHANGED <<clock, snapshot, incident>>

-----------------------------------------------------------------------------
(* Users change the status of incidents: any to any other.                 *)

SetAside(i) ==
  /\ incident[i] \in {"open", "back"}
  /\ incident' = [incident EXCEPT ![i] = "aside"]
  /\ UNCHANGED <<clock, job, snapshot, lock>>

Reopen(i) ==
  /\ incident[i] = "aside"
  /\ incident' = [incident EXCEPT ![i] = "back"]
  /\ UNCHANGED <<clock, job, snapshot, lock>>

-----------------------------------------------------------------------------
Init ==
  /\ clock = 0
  /\ job = [j \in Jobs |-> Free]
  /\ snapshot = Blank
  /\ lock = NoJob
  /\ incident = [j \in Jobs |-> "none"]

\* What a thread does unless it fails.
Serve(j) ==
  \/ NoteRead(j) \/ Note(j) \/ StartRead(j) \/ Start(j)
  \/ \E fails \in BOOLEAN : Compare(j, fails)
  \/ SparkFails(j) \/ Show(j) \/ Look(j) \/ CloseRead(j) \/ Finish(j) \/ Collide(j)
  \/ FailRead(j) \/ FailNote(j) \/ FailRun(j) \/ FailJob(j)

Next ==
  \/ \E j \in Jobs : \/ \E kind \in Kinds : Request(j, kind)
                     \/ Serve(j) \/ Fault(j) \/ FailNoteFails(j) \/ Die(j)
  \/ \E i \in Jobs : SetAside(i) \/ Reopen(i)

Spec == Init /\ [][Next]_vars

\* A thread runs on: spark-submit has a timeout, and a lock is given up.
Fairness == \A j \in Jobs : WF_vars(Serve(j))

FairSpec == Spec /\ Fairness

-----------------------------------------------------------------------------
\* Neither run was committed when the other was compared.
Overlap(i, k) == i \notin job[k].known /\ k \notin job[i].known

\* An older run, compared before k was committed, was written after it.
Overtaken(k) ==
  \E i \in Jobs : job[i].ran /\ job[i].shows /\ job[i].begun < job[k].begun /\ Overlap(i, k)

\* The row shows a run that is no older than k, or k was overtaken.
Latest(k) ==
  /\ snapshot.run # NoJob
  /\ job[snapshot.run].begun >= job[k].begun \/ Overtaken(k)

\* A run that was compared is shown until a newer one is, whatever transactions were rolled
\* back, skipped the row or inserted it at once: an older run takes its place only if it
\* was compared before this one was committed.  And what is shown is committed.
LatestShown ==
  /\ \A k \in Jobs : job[k].ran /\ ~ job[k].blind => Latest(k)
  /\ snapshot.run # NoJob => snapshot.there /\ job[snapshot.run].ran

\* When its thread is over, a job and its dq_run tell the same end, though three sessions
\* write them on the way to a failure and one may fail itself.
RowsAgree ==
  \A j \in Jobs : job[j].stage = "over" =>
    job[j].status = (IF job[j].ran THEN "success" ELSE "failed") /\ job[j].dq \in {"none", job[j].status}

\* Two incidents of a rule are open, neither of them brought back, only if their runs
\* overlapped and one of them did not take the snapshot row: it skipped the row, or was
\* older than a third run.  Of runs that take the row, the later one waits for the
\* incident of the other to be committed before it looks.
Apart(i, k) == Overlap(i, k) /\ ~ (job[i].shows /\ job[k].shows)

OneIncident ==
  \A i, k \in Jobs : i # k /\ incident[i] = "open" /\ incident[k] = "open" => Apart(i, k)

\* A job ends unless its process does, whoever it waits for.
JobEnds == \A j \in Jobs : (job[j].stage = "created") ~> (job[j].stage \in {"over", "dead"})

-----------------------------------------------------------------------------
(* The inductive invariant.                                                *)

\* What a job keeps to itself: one whose result is due has started, one that is committed
\* is over, and one that has failed says so wherever it is said.
Sound(v) ==
  /\ v.ran => v.stage = "over"
  /\ v.stage = "failed run" => v.dq \in {"none", "failed"}
  /\ v.stage = "over" =>
       v.status = (IF v.ran THEN "success" ELSE "failed") /\ v.dq \in {"none", v.status}
  /\ v.shows => ~ v.blind

Pending == {"compared", "shown", "looked", "closing"}

\* What has been read of the row stands when it is written: who shows its run is no older
\* than any run it knew of, but for those that were overtaken, and holds the row; who does
\* not show it has a newer run shown.
Standing(j) ==
  /\ job[j].known \subseteq Committed
  /\ job[j].stage \in Pending /\ ~ job[j].blind =>
       IF job[j].shows
         THEN \A k \in job[j].known :
                ~ job[k].blind => job[j].begun >= job[k].begun \/ Overtaken(k)
         ELSE Latest(j)
  /\ job[j].stage \in Pending \ {"compared"} /\ job[j].shows => lock = j

\* Whoever has found no incident may open its own beside those that were opened since.
Aware(j) ==
  job[j].stage \in {"looked", "closing"} /\ ~ job[j].found =>
    \A i \in Jobs : incident[i] = "open" => Apart(i, j)

RuleInv ==
  /\ TypeOK /\ LatestShown /\ RowsAgree /\ OneIncident
  /\ \A j \in Jobs : Sound(job[j]) /\ Standing(j) /\ Aware(j)
  /\ \A j \in Jobs : incident[j] # "none" => job[j].ran

\* tests/test_dq_latest_runs.py: an older job does not overwrite a newer one.
NewerJobStays == [][snapshot.job # NoJob => job[snapshot'.job].made >= job[snapshot.job].made]_vars

=============================================================================
