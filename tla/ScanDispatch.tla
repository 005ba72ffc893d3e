---------------------------- MODULE ScanDispatch ----------------------------
(***************************************************************************)
(* How scans of data sources are dispatched: the cycles of the scan        *)
(* scheduler (features/datasource/scheduler.py), scans asked for by hand,  *)
(* enqueue_datasource_scan (features/scanner/application.py), the job      *)
(* queue, and the worker that scans (features/platform/job_worker.py).     *)
(*                                                                         *)
(* One scan is kept in three tables, each committed on its own: the row of *)
(* scan_runs, the job that will execute it, and the schedule whose slot it *)
(* serves.  A call looks for a job of its source that is in flight and     *)
(* inserts its own only later, in nobody's sight: overlapping calls can    *)
(* both insert.  A job is known by its source and its scan run.  One       *)
(* process runs the scheduler (workers/datasource_scan_scheduler.py); its  *)
(* advisory lock stays with a pooled connection and can outlive the cycle. *)
(***************************************************************************)
EXTENDS Naturals, FiniteSets

CONSTANTS
  Sources,    \* data sources that have a schedule
  Runs,       \* ids for scan runs
  Scheduler,  \* the process that runs the scheduler's cycles
  Requesters, \* the threads that serve requests for a scan
  Workers,    \* processes of the data source worker
  MaxFaults,  \* bound: how many times one of these processes dies or fails
  NoSource, NoRun

ASSUME SchedulerAssumption == Scheduler \notin Requesters
ASSUME RunsAssumption      == Runs \subseteq Nat /\ NoRun \notin Runs
ASSUME NoSourceAssumption  == NoSource \notin Sources
ASSUME FaultsAssumption    == MaxFaults \in Nat

VARIABLES
  schedule, \* schedule[d]: whether its next run is due, and its last status
  run,      \* the rows of scan_runs
  job,      \* job[d][r]: the job that scans d for r, while it is in flight
  cycle,    \* the scheduler's cycle and its advisory lock
  caller,   \* the calls of enqueue_datasource_scan under way
  worker,
  faults

vars == <<schedule, run, job, cycle, caller, worker, faults>>

Callers == Requesters \cup {Scheduler}

-----------------------------------------------------------------------------
\* settled: skipped, a final status, or none yet.
ScheduleState == [due : BOOLEAN, status : {"settled", "queued", "running"}]

Settled == [due |-> FALSE, status |-> "settled"]

\* A row that does not exist is free.  submitted and running are scanning; ended
\* is every final status.
Run == [status : {"free", "queued", "scanning", "ended"}, scheduled : BOOLEAN]

FreeRun == [status |-> "free", scheduled |-> FALSE]

\* skipped: the update of a schedule that is flushed and not yet committed.
\* locked: a connection of the scheduler's pool holds the advisory lock.
CycleState == [on : BOOLEAN, todo : SUBSET Sources, skipped : SUBSET Sources, locked : BOOLEAN]

NoCycle(l) == [on |-> FALSE, todo |-> {}, skipped |-> {}, locked |-> l]

\* A call looks for an active job, and inserts its own if it saw none.
Call == [stage : {"look", "insert"}, source : Sources \cup {NoSource}, run : Runs \cup {NoRun}]

NewCall(d, r) == [stage |-> "look", source |-> d, run |-> r]

NoCall == NewCall(NoSource, NoRun)

WorkerState == [pc : {"idle", "claimed", "started", "scanning", "scanned", "closing"},
                source : Sources \cup {NoSource}, run : Runs \cup {NoRun}]

At(pc, d, r) == [pc |-> pc, source |-> d, run |-> r]

Between == At("idle", NoSource, NoRun)

TypeOK ==
  /\ schedule \in [Sources -> ScheduleState]
  /\ run \in [Runs -> Run]
  /\ job \in [Sources -> [Runs -> {"none", "queued", "running"}]]
  /\ cycle \in CycleState
  /\ caller \in [Callers -> Call]
  /\ worker \in [Workers -> WorkerState]
  /\ faults \in 0 .. MaxFaults

InFlight(d, r) == job[d][r] # "none"

Active(d) == \E r \in Runs : InFlight(d, r)

\* Ids are handed out in order.  A run that has ended is forgotten when its job
\* has ended too: nothing reads it any more, and its id can be used again.
Ended(r) == /\ run[r].status = "ended"
            /\ \A d \in Sources : ~ InFlight(d, r)
            /\ \A w \in Workers : worker[w].run # r

Unused == {r \in Runs : run[r].status = "free" \/ Ended(r)}

NextRun == CHOOSE r \in Unused : \A q \in Unused : r <= q

\* What the schedules show once the cycle's flushed update is committed.
Committed == [d \in Sources |-> IF d \in cycle.skipped THEN Settled ELSE schedule[d]]

-----------------------------------------------------------------------------
(* Schedules and the scheduler's cycle.                                    *)

Tick(d) ==
  /\ ~ schedule[d].due
  /\ schedule' = [schedule EXCEPT ![d].due = TRUE]
  /\ UNCHANGED <<run, job, cycle, caller, worker, faults>>

\* upsert_scan_schedule: the next run is computed anew.
Reschedule(d) ==
  /\ schedule[d].due /\ d \notin cycle.skipped
  /\ schedule' = [schedule EXCEPT ![d].due = FALSE]
  /\ UNCHANGED <<run, job, cycle, caller, worker, faults>>

Begin == cycle' = [on      |-> TRUE,
                   todo    |-> {d \in Sources : schedule[d].due},
                   skipped |-> {},
                   locked  |-> TRUE]

\* The lock is taken.
StartCycle ==
  /\ ~ cycle.on /\ ~ cycle.locked
  /\ Begin
  /\ UNCHANGED <<schedule, run, job, caller, worker, faults>>

\* An earlier cycle left the lock behind: this one takes it once more, if its session is on
\* the connection that holds it.  Otherwise it is refused, and changes nothing.
StartOnHolder ==
  /\ ~ cycle.on /\ cycle.locked
  /\ Begin
  /\ UNCHANGED <<schedule, run, job, caller, worker, faults>>

\* The last commit, and the unlock: the session has committed, so that it may be on another
\* connection by now, and then unlocks nothing.
EndCycle ==
  /\ cycle.on /\ cycle.todo = {}
  /\ schedule' = Committed
  /\ \E l \in {FALSE, cycle.locked} : cycle' = NoCycle(l)
  /\ UNCHANGED <<run, job, caller, worker, faults>>

\* The pool closes the connection that holds the lock: it is half an hour old, or too many.
Recycle ==
  /\ cycle.locked
  /\ cycle' = [cycle EXCEPT !.locked = FALSE]
  /\ UNCHANGED <<schedule, run, job, caller, worker, faults>>

\* mark_scan_schedule_queued, and the first commit of enqueue_datasource_scan,
\* which commits it and whatever else the cycle has flushed.
DispatchDue(d) ==
  /\ d \in cycle.todo
  /\ caller[Scheduler] = NoCall
  /\ Unused # {}
  /\ schedule' = [Committed EXCEPT ![d].status = "queued"]
  /\ run' = [run EXCEPT ![NextRun] = [status |-> "queued", scheduled |-> TRUE]]
  /\ caller' = [caller EXCEPT ![Scheduler] = NewCall(d, NextRun)]
  /\ cycle' = [cycle EXCEPT !.skipped = {}]
  /\ UNCHANGED <<job, worker, faults>>

\* A scan asked for by hand: the first commit of enqueue_datasource_scan.
Request(q, d) ==
  /\ caller[q] = NoCall
  /\ Unused # {}
  /\ run' = [run EXCEPT ![NextRun] = [status |-> "queued", scheduled |-> FALSE]]
  /\ caller' = [caller EXCEPT ![q] = NewCall(d, NextRun)]
  /\ UNCHANGED <<schedule, job, cycle, worker, faults>>

-----------------------------------------------------------------------------
(* The rest of enqueue_datasource_scan.                                    *)

\* The cycle goes on to its next schedule.
Return(x, S) ==
  /\ caller' = [caller EXCEPT ![x] = NoCall]
  /\ cycle' = IF x # Scheduler THEN cycle
              ELSE [cycle EXCEPT !.todo = @ \ {caller[x].source}, !.skipped = S]

\* enqueue_integration_job sees no active job.
Look(x) ==
  /\ caller[x] # NoCall /\ caller[x].stage = "look"
  /\ ~ Active(caller[x].source)
  /\ caller' = [caller EXCEPT ![x].stage = "insert"]
  /\ UNCHANGED <<schedule, run, job, cycle, worker, faults>>

\* The job is committed, whatever has been committed since the look.
Insert(x) ==
  /\ caller[x].stage = "insert"
  /\ job' = [job EXCEPT ![caller[x].source][caller[x].run] = "queued"]
  /\ Return(x, {})
  /\ UNCHANGED <<schedule, run, worker, faults>>

\* Mutant of Conflict: the run is not deleted.
ConflictKeepsRun(x) ==
  /\ caller[x] # NoCall /\ caller[x].stage = "look"
  /\ Active(caller[x].source)
  /\ Return(x, {caller[x].source})
  /\ UNCHANGED <<schedule, run, job, worker, faults>>

\* Mutant of Conflict: what is deleted is the source's queued runs.
ConflictDeletesQueued(x) ==
  /\ caller[x] # NoCall /\ caller[x].stage = "look"
  /\ Active(caller[x].source)
  /\ run' = [r \in Runs |-> IF \/ r = caller[x].run
                              \/ (run[r].status = "queued" /\ InFlight(caller[x].source, r))
                             THEN FreeRun ELSE run[r]]
  /\ Return(x, {caller[x].source})
  /\ UNCHANGED <<schedule, job, worker, faults>>

\* Mutant of Conflict: the schedule that is skipped is that of a call already over.
ConflictAfterReturn(x) ==
  /\ caller[x] # NoCall /\ caller[x].stage = "look"
  /\ Active(caller[x].source)
  /\ run' = [run EXCEPT ![caller[x].run] = FreeRun]
  /\ Return(x, {NoCall.source})
  /\ UNCHANGED <<schedule, job, worker, faults>>

\* Mutant of Conflict: the schedule is left as it is.
ConflictNotSkipped(x) ==
  /\ caller[x] # NoCall /\ caller[x].stage = "look"
  /\ Active(caller[x].source)
  /\ run' = [run EXCEPT ![caller[x].run] = FreeRun]
  /\ Return(x, {})
  /\ UNCHANGED <<schedule, job, worker, faults>>

\* 409: the run is deleted; the scheduler flushes that its schedule is skipped.
Conflict(x) ==
  /\ caller[x] # NoCall /\ caller[x].stage = "look"
  /\ Active(caller[x].source)
  /\ run' = [run EXCEPT ![caller[x].run] = FreeRun]
  /\ Return(x, {caller[x].source})
  /\ UNCHANGED <<schedule, job, worker, faults>>

-----------------------------------------------------------------------------
(* The worker: claim, _run_datasource_scan_job, finish.                    *)

Claim(w, d, r) ==
  /\ worker[w].pc = "idle"
  /\ job[d][r] = "queued"
  /\ job' = [job EXCEPT ![d][r] = "running"]
  /\ worker' = [worker EXCEPT ![w] = At("claimed", d, r)]
  /\ UNCHANGED <<schedule, run, cycle, caller, faults>>

\* mark_scan_schedule_dispatched, which waits for a flushed update of the row.
\* Without its scan run the job just fails.
Dispatched(w) ==
  /\ worker[w].pc = "claimed"
  /\ LET d == worker[w].source  r == worker[w].run IN
       /\ \/ /\ ~ run[r].scheduled
             /\ UNCHANGED schedule
          \/ /\ run[r].scheduled /\ d \notin cycle.skipped
             /\ schedule' = [schedule EXCEPT ![d].status = "running"]
       /\ worker' = [worker EXCEPT ![w] =
                      At(IF run[r].status = "free" THEN "closing" ELSE "started", d, r)]
  /\ UNCHANGED <<run, job, cycle, caller, faults>>

StartScan(w) ==
  /\ worker[w].pc = "started"
  /\ run' = [run EXCEPT ![worker[w].run].status = "scanning"]
  /\ worker' = [worker EXCEPT ![w].pc = "scanning"]
  /\ UNCHANGED <<schedule, job, cycle, caller, faults>>

\* The scan succeeds or fails, and the run says so.
EndScan(w) ==
  /\ worker[w].pc = "scanning"
  /\ run' = [run EXCEPT ![worker[w].run].status = "ended"]
  /\ worker' = [worker EXCEPT ![w].pc = "scanned"]
  /\ UNCHANGED <<schedule, job, cycle, caller, faults>>

\* Mutant of CloseSchedule: the next run is computed, the status is not set.
CloseScheduleKeepsStatus(w) ==
  /\ worker[w].pc = "scanned"
  /\ LET d == worker[w].source IN
       \/ /\ ~ run[worker[w].run].scheduled
          /\ UNCHANGED schedule
       \/ /\ run[worker[w].run].scheduled /\ d \notin cycle.skipped
          /\ schedule' = [schedule EXCEPT ![d].due = FALSE]
  /\ worker' = [worker EXCEPT ![w].pc = "closing"]
  /\ UNCHANGED <<run, job, cycle, caller, faults>>

\* update_scan_schedule_run_state: the slot is over.
CloseSchedule(w) ==
  /\ worker[w].pc = "scanned"
  /\ LET d == worker[w].source IN
       \/ /\ ~ run[worker[w].run].scheduled
          /\ UNCHANGED schedule
       \/ /\ run[worker[w].run].scheduled /\ d \notin cycle.skipped
          /\ schedule' = [schedule EXCEPT ![d] = Settled]
  /\ worker' = [worker EXCEPT ![w].pc = "closing"]
  /\ UNCHANGED <<run, job, cycle, caller, faults>>

\* finish_integration_job_record: the job may have been given up for dead.
FinishJob(w) ==
  /\ worker[w].pc = "closing"
  /\ job' = [job EXCEPT ![worker[w].source][worker[w].run] = "none"]
  /\ run' = [run EXCEPT ![worker[w].run] = FreeRun]
  /\ worker' = [worker EXCEPT ![w] = Between]
  /\ UNCHANGED <<schedule, cycle, caller, faults>>

\* The jobs of these runs are running.
Stalled(S) == S # {} /\ \A r \in S : \E d \in Sources : job[d][r] = "running"

\* They get another status.
Turned(S, to) == [d \in Sources |-> [r \in Runs |->
                    IF r \in S /\ job[d][r] = "running" THEN to ELSE job[d][r]]]

\* Mutant of Reclaim: the jobs are queued for another attempt.
ReclaimRequeues(w, S) ==
  /\ worker[w].pc = "idle"
  /\ Stalled(S)
  /\ job' = Turned(S, "queued")
  /\ UNCHANGED <<schedule, run, cycle, caller, worker, faults>>

\* Mutant of Reclaim: the runs of the jobs are deleted.
ReclaimDeletesRuns(w, S) ==
  /\ worker[w].pc = "idle"
  /\ Stalled(S)
  /\ job' = Turned(S, "none")
  /\ run' = [r \in Runs |-> IF r \in S THEN FreeRun ELSE run[r]]
  /\ UNCHANGED <<schedule, cycle, caller, worker, faults>>

\* reclaim_stalled_running_jobs, by an idle worker: jobs that have run for too
\* long fail; nothing is done about their scan runs.
Reclaim(w, S) ==
  /\ worker[w].pc = "idle"
  /\ Stalled(S)
  /\ job' = Turned(S, "none")
  /\ UNCHANGED <<schedule, run, cycle, caller, worker, faults>>

-----------------------------------------------------------------------------
(* Failures: a process dies, or an exception ends what it was doing.       *)

\* What a call that fails leaves: its run, which the handler may still delete, or its run
\* and its job, when the insert was committed all the same.
CallFails(x) ==
  /\ caller' = [caller EXCEPT ![x] = NoCall]
  /\ \/ UNCHANGED <<run, job>>
     \/ /\ caller[x] # NoCall
        /\ run' = [run EXCEPT ![caller[x].run] = FreeRun]
        /\ UNCHANGED job
     \/ /\ caller[x].stage = "insert"
        /\ job' = [job EXCEPT ![caller[x].source][caller[x].run] = "queued"]
        /\ UNCHANGED run

\* The cycle rolls back, and unlocks as at its end; a process that dies holds no lock.
CycleFails ==
  /\ cycle.on /\ faults < MaxFaults
  /\ faults' = faults + 1
  /\ CallFails(Scheduler)
  /\ \E l \in {FALSE, cycle.locked} : cycle' = NoCycle(l)
  /\ UNCHANGED <<schedule, worker>>

RequestFails(q) ==
  /\ caller[q] # NoCall /\ faults < MaxFaults
  /\ faults' = faults + 1
  /\ CallFails(q)
  /\ UNCHANGED <<schedule, cycle, worker>>

WorkerFails(w) ==
  /\ worker[w].pc # "idle" /\ faults < MaxFaults
  /\ faults' = faults + 1
  /\ worker' = [worker EXCEPT ![w] = Between]
  /\ UNCHANGED <<schedule, run, job, cycle, caller>>

-----------------------------------------------------------------------------
Init ==
  /\ schedule = [d \in Sources |-> Settled]
  /\ run = [r \in Runs |-> FreeRun]
  /\ job = [d \in Sources |-> [r \in Runs |-> "none"]]
  /\ cycle = NoCycle(FALSE)
  /\ caller = [x \in Callers |-> NoCall]
  /\ worker = [w \in Workers |-> Between]
  /\ faults = 0

CycleStep == StartCycle \/ EndCycle \/ \E d \in Sources : DispatchDue(d)

CallStep(x) == Look(x) \/ Insert(x) \/ Conflict(x)

ScanStep(w) == Dispatched(w) \/ StartScan(w) \/ EndScan(w) \/ CloseSchedule(w) \/ FinishJob(w)

Next ==
  \/ \E d \in Sources : Tick(d) \/ Reschedule(d)
  \/ CycleStep \/ StartOnHolder \/ Recycle
  \/ \E q \in Requesters, d \in Sources : Request(q, d)
  \/ \E x \in Callers : CallStep(x)
  \/ \E w \in Workers, d \in Sources, r \in Runs : Claim(w, d, r)
  \/ \E w \in Workers : ScanStep(w) \/ \E S \in SUBSET Runs : Reclaim(w, S)
  \/ CycleFails
  \/ \E q \in Requesters : RequestFails(q)
  \/ \E w \in Workers : WorkerFails(w)

Spec == Init /\ [][Next]_vars

\* The scheduler's loop runs, calls return, and workers claim and scan.  A worker
\* that waits for the row of a schedule gets it when the cycle commits: the locks
\* of rows are queued for.  That a queued job is claimed whatever else is queued
\* is JobQueue's QueuedIsStarted.  The scheduler checks out its connections in turn, and
\* its pool closes one that has become old.
Fairness ==
  /\ WF_vars(CycleStep)
  /\ WF_vars(Recycle)
  /\ \A x \in Callers : WF_vars(CallStep(x))
  /\ \A d \in Sources, r \in Runs : SF_vars(\E w \in Workers : Claim(w, d, r))
  /\ \A w \in Workers : SF_vars(ScanStep(w))

FairSpec == Spec /\ Fairness

-----------------------------------------------------------------------------
\* A job finds the scan run it is for: it is there, and before the claim nobody
\* has begun it.  Runs are committed before jobs, and a call that is refused
\* deletes its own run, while other calls enqueue theirs.
RunIsThere ==
  \A d \in Sources, r \in Runs :
    InFlight(d, r) => /\ run[r].status # "free"
                      /\ job[d][r] = "queued" => run[r].status = "queued"

\* What keeps that so: a call has a queued run to itself, until its job is committed;
HeldByCall(x) ==
  caller[x] # NoCall =>
    /\ caller[x].source \in Sources /\ caller[x].run \in Runs
    /\ run[caller[x].run].status = "queued"
    /\ \A d \in Sources : ~ InFlight(d, caller[x].run)
    /\ \A w \in Workers : worker[w].run # caller[x].run
    /\ \A y \in Callers : caller[y].run = caller[x].run => y = x

HeldByCalls == \A x \in Callers : HeldByCall(x)

\* a worker that works on a run is the only one, whether its job is still in flight or
\* was given up for dead;
HeldByWorkers ==
  /\ \A w \in Workers : worker[w].pc = "idle" <=> worker[w] = Between
  /\ \A w \in Workers : worker[w].pc # "idle" =>
       /\ worker[w].source \in Sources /\ worker[w].run \in Runs
       /\ run[worker[w].run].status # "free"
       /\ \A v \in Workers : worker[v].run = worker[w].run => v = w
       /\ \A d \in Sources : InFlight(d, worker[w].run) =>
            d = worker[w].source /\ job[d][worker[w].run] = "running"

\* and it has one job at most.
HeldOnce == \A d, e \in Sources, r \in Runs : InFlight(d, r) /\ InFlight(e, r) => d = e

ScanInv == TypeOK /\ RunIsThere /\ HeldByCalls /\ HeldByWorkers /\ HeldOnce

\* A scan run is begun once, and ended by the worker that began it.  The worker looks at
\* the status of neither: that a job given up for dead is not tried again keeps it so.
ScannedOnce ==
  [][\A w \in Workers :
       /\ worker[w].pc # "scanning" /\ worker'[w].pc = "scanning" =>
            run[worker[w].run].status = "queued"
       /\ worker[w].pc = "scanning" /\ worker'[w].pc = "scanned" =>
            run[worker[w].run].status = "scanning"]_vars

\* What keeps that so: how far its worker has come is what a run shows.
RunFollows ==
  \A w \in Workers :
    /\ worker[w].pc \in {"claimed", "started"} => run[worker[w].run].status = "queued"
    /\ worker[w].pc = "scanning" => run[worker[w].run].status = "scanning"
    /\ worker[w].pc \in {"scanned", "closing"} => run[worker[w].run].status = "ended"

\* Whoever works on it, a scan run lives as ScanLife says: no request, reclaim, late
\* worker or failure deletes it while it is scanned, or brings it back.
Life == INSTANCE ScanLife WITH stage <- [r \in Runs |-> run[r].status]

ImplementsScanLife == Life!Spec

\* What works on a run, or will.
Pursued(r) == \/ \E d \in Sources : InFlight(d, r)
              \/ \E x \in Callers : caller[x].run = r
              \/ \E w \in Workers : worker[w].run = r

Stranded == {r \in Runs : run[r].status \in {"queued", "scanning"} /\ ~ Pursued(r)}

\* A scan run that no one will ever end is left only by a failure, and each
\* failure leaves one at most: refused calls leave none, nor do jobs that are given
\* up for dead while they run.
StrandedBounded == Cardinality(Stranded) <= faults

\* A job of a process that failed is given up for dead only later; its run counts.
Abandoned == {r \in Runs : /\ run[r].status \in {"queued", "scanning"}
                           /\ \A d \in Sources : InFlight(d, r) => job[d][r] = "running"
                           /\ \A x \in Callers : caller[x].run # r
                           /\ \A w \in Workers : worker[w].run # r}

AbandonedBounded == IsFiniteSet(Abandoned) /\ Cardinality(Abandoned) <= faults

CalledFor(d, r) == caller[Scheduler].source = d /\ caller[Scheduler].run = r

\* The schedules that show work under way which is not, and are not due.
Misled == {d \in Sources : /\ schedule[d].status \in {"queued", "running"}
                           /\ ~ schedule[d].due
                           /\ d \notin cycle.skipped
                           /\ \A r \in Runs : run[r].scheduled => 
                                ~ InFlight(d, r)
                                /\ ~ CalledFor(d, r)
                                /\ \A w \in Workers : worker[w].run = r => worker[w].source # d }

\* A slot is not lost: a schedule that shows a scan as queued or running has one
\* on its way or is due again, but for one that a failure hit.
SlotNotLost == Cardinality(Misled) <= faults

\* What keeps that so: r is on its way to the update that ends d's slot;
Waiting(d, r) == InFlight(d, r) /\ job[d][r] = "queued"

Serving(d, r) == /\ run[r].scheduled
                 /\ \/ Waiting(d, r)
                    \/ CalledFor(d, r)
                    \/ \E w \in Workers : /\ worker[w].source = d /\ worker[w].run = r
                                          /\ worker[w].pc # "closing"

Shown(d) == schedule[d].status \in {"queued", "running"} /\ d \notin cycle.skipped

Unserved == {d \in Sources : Shown(d) /\ \A r \in Runs : ~ Serving(d, r)}

UnservedBounded == IsFiniteSet(Unserved) /\ Cardinality(Unserved) <= faults

\* and what a cycle has flushed is one schedule at most, committed by its next call.
CycleShape == /\ ~ cycle.on => caller[Scheduler] = NoCall /\ cycle.todo = {} /\ cycle.skipped = {}
              /\ caller[Scheduler] # NoCall => /\ cycle.skipped = {}
                                               /\ caller[Scheduler].source \in cycle.todo
              /\ \A d, e \in cycle.skipped : d = e

\* A due schedule gets its turn, whatever fails meanwhile.
DueIsServed == \A d \in Sources : schedule[d].due ~> ~ schedule[d].due

\* A run that is queued ends or is deleted, unless something failed.
RunsEnd == \A r \in Runs : run[r].status = "queued" ~>
                             run[r].status \in {"ended", "free"} \/ faults > 0

=============================================================================
