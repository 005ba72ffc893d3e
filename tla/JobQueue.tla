------------------------------ MODULE JobQueue ------------------------------
(***************************************************************************)
(* The integration job queue: the table integration_sync_jobs and the      *)
(* processes that share it (features/platform/jobs.py and job_worker.py).  *)
(*                                                                         *)
(*   - API requests and schedulers enqueue jobs under a job_key, in one    *)
(*     transaction that first reads whether the key already has an active  *)
(*     job and then inserts; nothing locks the key in between.             *)
(*   - Workers claim queued rows with FOR UPDATE SKIP LOCKED, run them and *)
(*     write the final status, whatever the row says by then.              *)
(*   - A worker whose queue stays empty for IdlePolls polls marks failed   *)
(*     the running rows that have run longer than the critical limit.      *)
(*                                                                         *)
(* One action is one database transaction, or one step of a transaction    *)
(* that other processes can observe.  A conflict (409) changes nothing and *)
(* is the absence of a step.  The table grows for ever; here a row that is *)
(* terminal and that nobody holds returns to the free rows (Forget).       *)
(***************************************************************************)
EXTENDS Naturals, FiniteSets

CONSTANTS
  Rows,        \* rows of integration_sync_jobs that may exist at one time
  Keys,        \* job keys: source:job_type:target_type:target_id
  Workers,     \* worker processes
  Requesters,  \* API requests and schedulers that enqueue
  Serves,      \* [Workers -> SUBSET Keys]: the source/job_type filter
  MayRequest,  \* [Requesters -> SUBSET Keys]: the keys a requester asks for
  Replaceable, \* keys enqueued with replace_stalled_running_job=True
  Reclaimers,  \* workers that run run_integration_worker_forever
  IdlePolls,   \* consecutive empty polls before a reclaim (30 in the code)
  MaxCrashes,  \* bound: how many times workers may crash
  NoRow,
  NoKey

ASSUME ServesAssumption     == Serves \in [Workers -> SUBSET Keys]
ASSUME MayRequestAssumption == MayRequest \in [Requesters -> SUBSET Keys]
ASSUME ReclaimersAssumption == Reclaimers \subseteq Workers
ASSUME BoundsAssumption     == IdlePolls \in Nat \ {0} /\ MaxCrashes \in Nat
ASSUME NoRowAssumption      == NoRow \notin Rows
ASSUME NoKeyAssumption      == NoKey \notin Keys

VARIABLES
  job,      \* the table
  worker,   \* what each worker process is doing
  request,  \* what each enqueue request has read
  crashes   \* worker crashes so far

vars == <<job, worker, request, crashes>>

-----------------------------------------------------------------------------
(***************************************************************************)
(* "success" stands for every status a handler may finish with that is not *)
(* a failure (success, partial_success, cancelled, skipped): nothing in    *)
(* the queue tells them apart.  overdue: started_at lies at least          *)
(* critical_hours in the past.  older: the rows that existed when the      *)
(* request that inserted this one read its clock, hence the rows whose     *)
(* queued_at is certainly smaller.                                         *)
(***************************************************************************)
Terminal == {"success", "failed"}
Status   == {"free", "queued", "running"} \cup Terminal

Job == [status : Status, key : Keys \cup {NoKey},
        overdue : BOOLEAN, older : SUBSET Rows]

FreeRow == [status |-> "free", key |-> NoKey, overdue |-> FALSE, older |-> {}]

\* idle: the worker is between two polls; locked: it holds the row lock of the
\* row it is about to claim; processing: it runs the handler of its row;
\* reclaim and reclaiming: before and after it has read the stalled rows.
WorkerState == [pc : {"idle", "locked", "processing", "reclaim", "reclaiming"},
                row : Rows \cup {NoRow}, batch : SUBSET Rows,
                polls : 0 .. IdlePolls - 1]

At(pc, i, S, n) == [pc |-> pc, row |-> i, batch |-> S, polls |-> n]

Between(n) == At("idle", NoRow, {}, n)

RequestState == [pc : {"idle", "insert"}, key : Keys \cup {NoKey},
                 victims : SUBSET Rows, older : SUBSET Rows]

NoRequest == [pc |-> "idle", key |-> NoKey, victims |-> {}, older |-> {}]

TypeOK ==
  /\ job \in [Rows -> Job]
  /\ worker \in [Workers -> WorkerState]
  /\ request \in [Requesters -> RequestState]
  /\ crashes \in 0 .. MaxCrashes

-----------------------------------------------------------------------------
IsActive(i) == job[i].status \in {"queued", "running"}

\* _is_stalled_integration_job: running for at least critical_hours.
IsStalled(i) == job[i].status = "running" /\ job[i].overdue

ActiveRows(k) == {i \in Rows : IsActive(i) /\ job[i].key = k}

\* ORDER BY queued_at DESC LIMIT 1: a row that no other active row follows.
Latest(S) == {i \in S : \A j \in S : i \notin job[j].older}

\* The row with a status just written, hence no longer overdue.
Settled(i, status) ==
  [status |-> status, key |-> job[i].key, overdue |-> FALSE, older |-> job[i].older]

MarkFailed(S) ==
  [i \in Rows |-> IF i \in S THEN Settled(i, "failed") ELSE job[i]]

LockedRows == {worker[w].row : w \in {v \in Workers : worker[v].pc = "locked"}}

\* Mutant of Waiting: the claim selects without FOR UPDATE SKIP LOCKED.
WaitingUnlocked(w) ==
  {i \in Rows : job[i].status = "queued" /\ job[i].key \in Serves[w]}

\* The queued rows the worker's SELECT ... FOR UPDATE SKIP LOCKED may return.
Waiting(w) == {i \in Rows : /\ job[i].status = "queued"
                            /\ job[i].key \in Serves[w]
                            /\ i \notin LockedRows}

\* Mutant of NextInLine: the claim orders by queued_at DESC.
NewestInLine(w) == {i \in Waiting(w) : \A j \in Waiting(w) : i \notin job[j].older}

NextInLine(w) == {i \in Waiting(w) : job[i].older \cap Waiting(w) = {}}

\* The state of a worker loop after an iteration that processed no job.
AfterIdlePoll(w) ==
  LET n == (worker[w].polls + 1) % IdlePolls
  IN  IF w \notin Reclaimers THEN Between(0)
      ELSE At(IF n = 0 THEN "reclaim" ELSE "idle", NoRow, {}, n)

-----------------------------------------------------------------------------
(* Enqueueing: enqueue_integration_job.                                    *)

\* Mutant of EnqueueRead: only running jobs count as active.
EnqueueReadRunning(r, k) ==
  /\ request[r].pc = "idle"
  /\ k \in MayRequest[r]
  /\ \A i \in ActiveRows(k) : job[i].status # "running"
  /\ request' = [request EXCEPT ![r] =
                   [pc |-> "insert", key |-> k, victims |-> {},
                    older |-> {i \in Rows : job[i].status # "free"}]]
  /\ UNCHANGED <<job, worker, crashes>>

\* The key has no active job.
EnqueueRead(r, k) ==
  /\ request[r].pc = "idle"
  /\ k \in MayRequest[r]
  /\ ActiveRows(k) = {}
  /\ request' = [request EXCEPT ![r] =
                   [pc |-> "insert", key |-> k, victims |-> {},
                    older |-> {i \in Rows : job[i].status # "free"}]]
  /\ UNCHANGED <<job, worker, crashes>>

\* Mutant of EnqueueReadStalled: a forced request replaces whatever is active.
EnqueueReadForced(r, k) ==
  /\ request[r].pc = "idle"
  /\ k \in MayRequest[r] \cap Replaceable
  /\ \E i \in Latest(ActiveRows(k)) :
       request' = [request EXCEPT ![r] =
                     [pc |-> "insert", key |-> k, victims |-> {i},
                      older |-> {j \in Rows : job[j].status # "free"}]]
  /\ UNCHANGED <<job, worker, crashes>>

\* The latest active job of the key is running and stalled, and the caller
\* asked to replace it.
EnqueueReadStalled(r, k) ==
  /\ request[r].pc = "idle"
  /\ k \in MayRequest[r] \cap Replaceable
  /\ \E i \in Latest(ActiveRows(k)) :
       /\ IsStalled(i)
       /\ request' = [request EXCEPT ![r] =
                        [pc |-> "insert", key |-> k, victims |-> {i},
                         older |-> {j \in Rows : job[j].status # "free"}]]
  /\ UNCHANGED <<job, worker, crashes>>

\* Mutant of EnqueueCommit: the replaced job is left running.
EnqueueCommitBeside(r) ==
  /\ request[r].pc = "insert"
  /\ \E i \in Rows :
       /\ job[i].status = "free"
       /\ job' = [job EXCEPT ![i] =
                    [status |-> "queued", key |-> request[r].key,
                     overdue |-> FALSE, older |-> request[r].older]]
  /\ request' = [request EXCEPT ![r] = NoRequest]
  /\ UNCHANGED <<worker, crashes>>

\* One commit: the replaced job is failed and the new row is queued.
EnqueueCommit(r) ==
  /\ request[r].pc = "insert"
  /\ \E i \in Rows :
       /\ job[i].status = "free"
       /\ job' = [MarkFailed(request[r].victims) EXCEPT ![i] =
                    [status |-> "queued", key |-> request[r].key,
                     overdue |-> FALSE, older |-> request[r].older]]
  /\ request' = [request EXCEPT ![r] = NoRequest]
  /\ UNCHANGED <<worker, crashes>>

\* The requesting process dies, or its commit fails: nothing was written.
EnqueueAbort(r) ==
  /\ request[r].pc = "insert"
  /\ request' = [request EXCEPT ![r] = NoRequest]
  /\ UNCHANGED <<job, worker, crashes>>

-----------------------------------------------------------------------------
(* Working: process_next_integration_job and its handlers.                 *)

ClaimLock(w, i) ==
  /\ worker[w].pc = "idle"
  /\ i \in NextInLine(w)
  /\ worker' = [worker EXCEPT ![w] = At("locked", i, {}, worker[w].polls)]
  /\ UNCHANGED <<job, request, crashes>>

ClaimCommit(w) ==
  /\ worker[w].pc = "locked"
  /\ LET i == worker[w].row
     IN  job' = [job EXCEPT ![i] = Settled(i, "running")]
  /\ worker' = [worker EXCEPT ![w].pc = "processing"]
  /\ UNCHANGED <<request, crashes>>

\* finish_integration_job_record writes the status it is given without
\* looking at the one the row has.  The alert or the heartbeat that follows
\* its commit may raise, and then the loop counts an idle iteration.
Finish(w, s) ==
  /\ worker[w].pc = "processing"
  /\ LET i == worker[w].row
     IN  job' = [job EXCEPT ![i] = Settled(i, s)]
  /\ \E next \in {Between(0), AfterIdlePoll(w)} : worker' = [worker EXCEPT ![w] = next]
  /\ UNCHANGED <<request, crashes>>

\* The handler raises and its transaction is rolled back, or it returns a job
\* it has not finished (_run_metabase_sync_job): the row stays as it is.
LeaveRunning(w) ==
  /\ worker[w].pc = "processing"
  /\ \E next \in {Between(0), AfterIdlePoll(w)} : worker' = [worker EXCEPT ![w] = next]
  /\ UNCHANGED <<job, request, crashes>>

\* The worker process dies at any point and is restarted.
Crash(w) ==
  /\ crashes < MaxCrashes
  /\ worker[w] # Between(0)
  /\ worker' = [worker EXCEPT ![w] = Between(0)]
  /\ crashes' = crashes + 1
  /\ UNCHANGED <<job, request>>

-----------------------------------------------------------------------------
(* Self-healing: run_integration_worker_forever and                        *)
(* reclaim_stalled_running_jobs.                                           *)

\* Mutant of EmptyPoll: every poll resets the idle counter.
EmptyPollResets(w) ==
  /\ w \in Reclaimers
  /\ worker[w].pc = "idle"
  /\ Waiting(w) = {}
  /\ worker' = [worker EXCEPT ![w] = Between(0)]
  /\ UNCHANGED <<job, request, crashes>>

EmptyPoll(w) ==
  /\ w \in Reclaimers
  /\ worker[w].pc = "idle"
  /\ Waiting(w) = {}
  /\ worker' = [worker EXCEPT ![w] = AfterIdlePoll(w)]
  /\ UNCHANGED <<job, request, crashes>>

\* Mutant of ReclaimRead: every running job of the source is reclaimed.
ReclaimReadRunning(w) ==
  /\ worker[w].pc = "reclaim"
  /\ LET found == {i \in Rows : job[i].status = "running" /\ job[i].key \in Serves[w]}
     IN  worker' = [worker EXCEPT ![w] = At("reclaiming", NoRow, found, worker[w].polls)]
  /\ UNCHANGED <<job, request, crashes>>

ReclaimRead(w) ==
  /\ worker[w].pc = "reclaim"
  /\ LET found == {i \in Rows : IsStalled(i) /\ job[i].key \in Serves[w]}
     IN  worker' = [worker EXCEPT ![w] = At("reclaiming", NoRow, found, worker[w].polls)]
  /\ UNCHANGED <<job, request, crashes>>

ReclaimCommit(w) ==
  /\ worker[w].pc = "reclaiming"
  /\ job' = MarkFailed(worker[w].batch)
  /\ worker' = [worker EXCEPT ![w] = Between(worker[w].polls)]
  /\ UNCHANGED <<request, crashes>>

-----------------------------------------------------------------------------
(* The environment.                                                        *)

\* critical_hours pass since started_at.
GrowOverdue(i) ==
  /\ job[i].status = "running"
  /\ ~ job[i].overdue
  /\ job' = [job EXCEPT ![i].overdue = TRUE]
  /\ UNCHANGED <<worker, request, crashes>>

Held(i) == \/ \E w \in Workers : i = worker[w].row \/ i \in worker[w].batch
           \/ \E r \in Requesters : i \in request[r].victims

\* A row that no process will touch again makes room for a new one.
Forget(i) ==
  /\ job[i].status \in Terminal
  /\ ~ Held(i)
  /\ job' = [j \in Rows |-> IF j = i THEN FreeRow
                            ELSE [job[j] EXCEPT !.older = @ \ {i}]]
  /\ request' = [r \in Requesters |-> [request[r] EXCEPT !.older = @ \ {i}]]
  /\ UNCHANGED <<worker, crashes>>

-----------------------------------------------------------------------------
Init ==
  /\ job = [i \in Rows |-> FreeRow]
  /\ worker = [w \in Workers |-> Between(0)]
  /\ request = [r \in Requesters |-> NoRequest]
  /\ crashes = 0

RequestStep(r) ==
  \/ \E k \in Keys : EnqueueRead(r, k)
  \/ \E k \in Keys : EnqueueReadStalled(r, k)
  \/ EnqueueCommit(r)
  \/ EnqueueAbort(r)

EndProcessing(w) == (\E s \in Terminal : Finish(w, s)) \/ LeaveRunning(w)

WorkerStep(w) ==
  \/ \E i \in Rows : ClaimLock(w, i)
  \/ ClaimCommit(w)
  \/ EndProcessing(w)
  \/ Crash(w)
  \/ EmptyPoll(w)
  \/ ReclaimRead(w)
  \/ ReclaimCommit(w)

Next ==
  \/ \E r \in Requesters : RequestStep(r)
  \/ \E w \in Workers : WorkerStep(w)
  \/ \E i \in Rows : GrowOverdue(i)
  \/ \E i \in Rows : Forget(i)

Spec == Init /\ [][Next]_vars

(***************************************************************************)
(* A worker is restarted after a crash (Kubernetes Deployment) and its     *)
(* loop never exits, so each of its steps that stays possible is taken;    *)
(* Spark jobs run under a timeout, so a handler ends or raises; and time   *)
(* passes.  Nothing obliges anybody to enqueue.                            *)
(***************************************************************************)
Fairness ==
  /\ \A w \in Workers :
       /\ SF_vars(\E i \in Rows : ClaimLock(w, i))
       /\ WF_vars(ClaimCommit(w))
       /\ WF_vars(EndProcessing(w))
       /\ WF_vars(EmptyPoll(w))
       /\ WF_vars(ReclaimRead(w))
       /\ WF_vars(ReclaimCommit(w))
  /\ \A i \in Rows : WF_vars(GrowOverdue(i))

FairSpec == Spec /\ Fairness
-----------------------------------------------------------------------------
(* Safety.                                                                 *)

\* A row has one owner at a time: two workers never hold the claim lock of the
\* same row, nor run the same job, nor does one claim what another runs
\* (claim_queued_integration_job takes the row FOR UPDATE SKIP LOCKED and
\* only while it is queued; nothing puts a job back in the queue).
ExclusiveProcessing ==
  \A v, w \in Workers :
    /\ worker[v].pc \in {"locked", "processing"}
    /\ worker[w].pc \in {"locked", "processing"}
    /\ worker[v].row = worker[w].row
    => v = w

\* Each key is asked for by one requester at a time.
Serialized ==
  \A q, r \in Requesters : MayRequest[q] \cap MayRequest[r] # {} => q = r

\* The conflict check of enqueue_integration_job keeps a key single flight as
\* long as the requests for that key do not overlap, whatever workers,
\* reclaims, replacements and crashes do meanwhile.
OneActivePerKey ==
  Serialized => \A i, j \in Rows :
                  IsActive(i) /\ IsActive(j) /\ job[i].key = job[j].key => i = j

\* The same promise for requests that do overlap: what the conflict answer of
\* enqueue_integration_job (409) tells its caller.
SingleActiveJob ==
  \A i, j \in Rows :
    IsActive(i) /\ IsActive(j) /\ job[i].key = job[j].key => i = j

\* No queued job is lost: a row leaves the queue only into the hands of the
\* worker that claimed it, never through a reclaim, a replacement or a crash.
QueuedOnlyClaimed ==
  [][\A i \in Rows :
       job[i].status = "queued" /\ job'[i].status # "queued"
       => /\ job'[i].status = "running"
          /\ \E w \in Workers : worker'[w].pc = "processing" /\ worker'[w].row = i]_vars

\* Before the critical limit a running job is failed only by a step of the very
\* worker that runs it, which ends its processing: reclaim and replacement
\* (jobs.py) decide on what they read before and write after, and other
\* workers, overlapping requests and crashes come in between.
NoPrematureFailure ==
  [][\A i \in Rows :
       job[i].status = "running" /\ job'[i].status = "failed" /\ ~ job[i].overdue
       => \E w \in Workers :
            /\ worker[w].pc = "processing" /\ worker[w].row = i
            /\ worker'[w].pc # "processing"]_vars

\* What the docstring of reclaim_stalled_running_jobs says of the jobs it
\* fails: their worker is dead or lost its connection.
ReclaimsOnlyDead ==
  [][\A w \in Workers :
       worker[w].pc = "reclaiming" /\ worker'[w].pc = "idle" /\ crashes' = crashes
       => \A i \in worker[w].batch :
            ~ \E v \in Workers : worker[v].pc = "processing" /\ worker[v].row = i]_vars

\* The facts that make the properties above inductive.  What workers and
\* requests remember of a row stays true of it until they act on it:
Doomed(i) == /\ job[i].status \notin {"free", "queued"}
             /\ job[i].status = "running" => job[i].overdue

\* the row a worker claims is queued, the one it runs has left the queue, and
\* what a reclaim will fail is overdue or already finished;
Owners ==
  \A w \in Workers :
    /\ worker[w].pc = "locked" =>
         worker[w].row \in Rows /\ job[worker[w].row].status = "queued"
    /\ worker[w].pc = "processing" =>
         worker[w].row \in Rows /\ job[worker[w].row].status \notin {"free", "queued"}
    /\ \A i \in worker[w].batch : Doomed(i)

\* a request that is about to insert found the key free, except for the job
\* it replaces, and nobody else asks for the key.
Reserved ==
  \A r \in Requesters :
    /\ \A i \in request[r].victims : Doomed(i) /\ job[i].key = request[r].key
    /\ request[r].pc = "insert" =>
         /\ request[r].key \in MayRequest[r]
         /\ Serialized => ActiveRows(request[r].key) \subseteq request[r].victims

\* The inductive invariant: a reclaim, a replacement or a handler never meets
\* a row in a state its reader did not foresee.
QueueInv ==
  TypeOK /\ Owners /\ Reserved /\ ExclusiveProcessing /\ OneActivePerKey

\* The execution a key has in flight, for the refinement of SingleFlight.
Flight == [k \in Keys |-> [i \in ActiveRows(k) |-> job[i].status]]

Abstract == INSTANCE SingleFlight WITH flight <- Flight, Executions <- Rows

\* The queue implements single flight per key when requests are serialized.
ImplementsSingleFlight == Abstract!Spec

-----------------------------------------------------------------------------
(* Liveness.                                                               *)

\* A queued job is started, however many jobs are enqueued after it: the
\* claim order is queued_at, oldest first.
QueuedIsStarted ==
  \A i \in Rows : job[i].status = "queued" ~> job[i].status # "queued"

ReclaimedKeys == UNION {Serves[w] : w \in Reclaimers}

Quiet == \A i \in Rows : job[i].status # "queued"

\* Once its queue stays empty, a reclaiming worker ends every job left running
\* by a crash or an exception, so the key accepts requests again.
OrphansEnd ==
  <>[]Quiet => \A i \in Rows :
    [](job[i].status = "running" /\ job[i].key \in ReclaimedKeys
         => <>(job[i].status # "running"))

\* The same without asking that the queue stay empty: the loop's comment says
\* that stalled jobs are recovered periodically.
StalledIsReclaimed ==
  \A i \in Rows :
    [](IsStalled(i) /\ job[i].key \in ReclaimedKeys => <>(~ IsStalled(i)))

=============================================================================
