--------------------------- MODULE JobQueueProofs ---------------------------
(***************************************************************************)
(* Proofs about the job queue, for any number of rows, keys, workers and   *)
(* requesters, and any assignment of keys to them.                         *)
(***************************************************************************)
EXTENDS JobQueue, TLAPS

-----------------------------------------------------------------------------
(* Types.                                                                  *)

LEMMA AtType ==
  ASSUME NEW pc \in {"idle", "locked", "processing", "reclaim", "reclaiming"},
         NEW i \in Rows \cup {NoRow}, NEW S \in SUBSET Rows, NEW n \in 0 .. IdlePolls - 1
  PROVE  At(pc, i, S, n) \in WorkerState
BY DEF At, WorkerState

LEMMA IdlePollType ==
  ASSUME TypeOK, NEW w \in Workers
  PROVE  AfterIdlePoll(w) \in WorkerState /\ Between(0) \in WorkerState
<1> DEFINE n == (worker[w].polls + 1) % IdlePolls
<1>1. IdlePolls \in Nat \ {0}
  BY BoundsAssumption
<1>2. worker[w].polls \in Nat
  BY <1>1 DEF TypeOK, WorkerState
<1>3. n \in 0 .. IdlePolls - 1 /\ 0 \in 0 .. IdlePolls - 1
  BY <1>1, <1>2
<1> HIDE DEF n
<1>4. /\ At("reclaim", NoRow, {}, n) \in WorkerState
      /\ At("idle", NoRow, {}, n) \in WorkerState
      /\ Between(0) \in WorkerState
  BY <1>3, AtType DEF Between
<1> QED
  BY <1>4 DEF AfterIdlePoll, Between, n

LEMMA SettledType ==
  ASSUME job \in [Rows -> Job], NEW i \in Rows, NEW s \in Status
  PROVE  Settled(i, s) \in Job
BY DEF Settled, Job

LEMMA MarkFailedType ==
  ASSUME job \in [Rows -> Job], NEW S
  PROVE  MarkFailed(S) \in [Rows -> Job]
<1>1. "failed" \in Status
  BY DEF Status, Terminal
<1> QED
  BY <1>1, SettledType DEF MarkFailed

LEMMA TypeInit == Init => TypeOK
<1> SUFFICES ASSUME Init PROVE TypeOK
  OBVIOUS
<1>1. FreeRow \in Job
  BY DEF FreeRow, Job, Status
<1>2. Between(0) \in WorkerState
  BY BoundsAssumption, AtType DEF Between
<1>3. NoRequest \in RequestState
  BY DEF NoRequest, RequestState
<1> QED
  BY <1>1, <1>2, <1>3, BoundsAssumption DEF Init, TypeOK

LEMMA TypeStep == TypeOK /\ [Next]_vars => TypeOK'
<1> SUFFICES ASSUME TypeOK, [Next]_vars PROVE TypeOK'
  OBVIOUS
<1> USE DEF TypeOK
<1>1. ASSUME NEW r \in Requesters, NEW k \in Keys, EnqueueRead(r, k) PROVE TypeOK'
  BY <1>1 DEF EnqueueRead, RequestState
<1>2. ASSUME NEW r \in Requesters, NEW k \in Keys, EnqueueReadStalled(r, k) PROVE TypeOK'
  BY <1>2 DEF EnqueueReadStalled, RequestState, Latest, ActiveRows
<1>3. ASSUME NEW r \in Requesters, EnqueueCommit(r) PROVE TypeOK'
  <2>1. request'[r] = NoRequest /\ request' \in [Requesters -> RequestState]
    BY <1>3 DEF EnqueueCommit, NoRequest, RequestState
  <2>2. PICK i \in Rows :
          job' = [MarkFailed(request[r].victims) EXCEPT ![i] =
                    [status |-> "queued", key |-> request[r].key,
                     overdue |-> FALSE, older |-> request[r].older]]
    BY <1>3 DEF EnqueueCommit
  <2>3. [status |-> "queued", key |-> request[r].key,
         overdue |-> FALSE, older |-> request[r].older] \in Job
    BY DEF RequestState, Job, Status
  <2>4. job' \in [Rows -> Job]
    BY <2>2, <2>3, MarkFailedType
  <2> QED
    BY <1>3, <2>1, <2>4 DEF EnqueueCommit
<1>4. ASSUME NEW r \in Requesters, EnqueueAbort(r) PROVE TypeOK'
  BY <1>4 DEF EnqueueAbort, NoRequest, RequestState
<1>5. ASSUME NEW w \in Workers, NEW i \in Rows, ClaimLock(w, i) PROVE TypeOK'
  <2>1. At("locked", i, {}, worker[w].polls) \in WorkerState
    BY AtType DEF WorkerState
  <2> QED
    BY <1>5, <2>1 DEF ClaimLock
<1>6. ASSUME NEW w \in Workers, ClaimCommit(w) PROVE TypeOK'
  <2>1. worker' \in [Workers -> WorkerState]
    BY <1>6 DEF ClaimCommit, WorkerState
  <2>2. job' \in [Rows -> Job]
    BY <1>6, SettledType DEF ClaimCommit, Status
  <2> QED
    BY <1>6, <2>1, <2>2 DEF ClaimCommit
<1>7. ASSUME NEW w \in Workers, NEW s \in Terminal, Finish(w, s) PROVE TypeOK'
  <2>1. worker' \in [Workers -> WorkerState]
    BY <1>7, IdlePollType DEF Finish
  <2>2. job' \in [Rows -> Job]
    BY <1>7, SettledType DEF Finish, Status
  <2> QED
    BY <1>7, <2>1, <2>2 DEF Finish
<1>8. ASSUME NEW w \in Workers, LeaveRunning(w) PROVE TypeOK'
  BY <1>8, IdlePollType DEF LeaveRunning
<1>9. ASSUME NEW w \in Workers, Crash(w) PROVE TypeOK'
  <2>1. crashes' \in 0 .. MaxCrashes
    BY <1>9, BoundsAssumption DEF Crash
  <2> QED
    BY <1>9, <2>1, IdlePollType DEF Crash
<1>10. ASSUME NEW w \in Workers, EmptyPoll(w) PROVE TypeOK'
  BY <1>10, IdlePollType DEF EmptyPoll
<1>11. ASSUME NEW w \in Workers, ReclaimRead(w) PROVE TypeOK'
  <2> DEFINE found == {i \in Rows : IsStalled(i) /\ job[i].key \in Serves[w]}
  <2>1. At("reclaiming", NoRow, found, worker[w].polls) \in WorkerState
    BY AtType DEF WorkerState
  <2> QED
    BY <1>11, <2>1 DEF ReclaimRead
<1>12. ASSUME NEW w \in Workers, ReclaimCommit(w) PROVE TypeOK'
  <2>1. Between(worker[w].polls) \in WorkerState
    BY AtType DEF WorkerState, Between
  <2> QED
    BY <1>12, <2>1, MarkFailedType DEF ReclaimCommit
<1>13. ASSUME NEW i \in Rows, GrowOverdue(i) PROVE TypeOK'
  <2>1. [job[i] EXCEPT !.overdue = TRUE] \in Job
    <3>1. job[i] \in Job
      OBVIOUS
    <3> QED
      BY <3>1, Zenon DEF Job
  <2> QED
    BY <1>13, <2>1 DEF GrowOverdue
<1>14. ASSUME NEW i \in Rows, Forget(i) PROVE TypeOK'
  <2>1. FreeRow \in Job
    BY DEF FreeRow, Job, Status
  <2>2. \A j \in Rows : [job[j] EXCEPT !.older = @ \ {i}] \in Job
    BY DEF Job
  <2>3. \A r \in Requesters : [request[r] EXCEPT !.older = @ \ {i}] \in RequestState
    BY DEF RequestState
  <2> QED
    BY <1>14, <2>1, <2>2, <2>3 DEF Forget
<1>15. CASE UNCHANGED vars
  BY <1>15 DEF vars
<1> QED
  BY <1>1, <1>2, <1>3, <1>4, <1>5, <1>6, <1>7, <1>8, <1>9, <1>10, <1>11, <1>12,
     <1>13, <1>14, <1>15 DEF Next, RequestStep, WorkerStep, EndProcessing

\* Every reachable state has the shape the code gives it: in particular the
\* idle counter of a worker loop stays below IdlePolls, and rows that requests
\* and reclaims hold in memory exist.
THEOREM TypeCorrect == Spec => []TypeOK
<1>1. Init => TypeOK
  BY TypeInit
<1>2. TypeOK /\ [Next]_vars => TypeOK'
  BY TypeStep
<1> QED
  BY <1>1, <1>2, PTL DEF Spec

-----------------------------------------------------------------------------
(* What a process remembers of a row stays true until it acts on it.       *)

LEMMA StaysDoomed ==
  ASSUME TypeOK, Owners, [Next]_vars, NEW i \in Rows, Doomed(i), Held(i)
  PROVE  Doomed(i)' /\ job'[i].key = job[i].key
<1> DEFINE Stays == Doomed(i)' /\ job'[i].key = job[i].key
<1> USE DEF TypeOK, Job, Doomed
<1>1. ASSUME NEW r \in Requesters, EnqueueCommit(r) PROVE Stays
  BY <1>1 DEF EnqueueCommit, MarkFailed, Settled
<1>2. ASSUME NEW w \in Workers, ClaimCommit(w) PROVE Stays
  BY <1>2 DEF ClaimCommit, Owners
<1>3. ASSUME NEW w \in Workers, NEW s \in Terminal, Finish(w, s) PROVE Stays
  BY <1>3 DEF Finish, Settled, Owners, Terminal
<1>4. ASSUME NEW w \in Workers, ReclaimCommit(w) PROVE Stays
  BY <1>4 DEF ReclaimCommit, MarkFailed, Settled
<1>5. ASSUME NEW j \in Rows, GrowOverdue(j) PROVE Stays
  BY <1>5 DEF GrowOverdue
<1>6. ASSUME NEW j \in Rows, Forget(j) PROVE Stays
  BY <1>6 DEF Forget
<1>7. ASSUME UNCHANGED job PROVE Stays
  BY <1>7
<1> QED
  BY <1>1, <1>2, <1>3, <1>4, <1>5, <1>6, <1>7
  DEF Next, RequestStep, WorkerStep, EndProcessing, EnqueueRead, EnqueueReadStalled,
      EnqueueAbort, ClaimLock, LeaveRunning, Crash, EmptyPoll, ReclaimRead, vars

\* A row a worker has locked stays queued until that worker commits.
LEMMA StaysLocked ==
  ASSUME TypeOK, Owners, ExclusiveProcessing, [Next]_vars, NEW w \in Workers,
         worker[w].pc = "locked", worker'[w] = worker[w],
         \A r \in Requesters : \A i \in request[r].victims : Doomed(i)
  PROVE  job'[worker[w].row].status = "queued"
<1> DEFINE i == worker[w].row
<1> USE DEF TypeOK, Job
<1>0. i \in Rows /\ job[i].status = "queued"
  BY DEF Owners
<1>1. ASSUME NEW r \in Requesters, EnqueueCommit(r) PROVE job'[i].status = "queued"
  BY <1>0, <1>1 DEF EnqueueCommit, MarkFailed, Settled, Doomed
<1>2. ASSUME NEW v \in Workers, ClaimCommit(v) PROVE job'[i].status = "queued"
  <2>1. v # w
    BY <1>2 DEF ClaimCommit, WorkerState
  <2>2. worker[v].row # i
    <3>1. worker[v].pc = "locked"
      BY <1>2 DEF ClaimCommit
    <3> QED
      BY <2>1, <3>1, Zenon DEF ExclusiveProcessing
  <2> QED
    BY <1>0, <1>2, <2>2 DEF ClaimCommit
<1>3. ASSUME NEW v \in Workers, NEW s \in Terminal, Finish(v, s)
      PROVE  job'[i].status = "queued"
  BY <1>0, <1>3 DEF Finish, Owners
<1>4. ASSUME NEW v \in Workers, ReclaimCommit(v) PROVE job'[i].status = "queued"
  BY <1>0, <1>4 DEF ReclaimCommit, MarkFailed, Owners, Doomed
<1>5. ASSUME NEW j \in Rows, GrowOverdue(j) PROVE job'[i].status = "queued"
  BY <1>0, <1>5 DEF GrowOverdue
<1>6. ASSUME NEW j \in Rows, Forget(j) PROVE job'[i].status = "queued"
  BY <1>0, <1>6 DEF Forget, Terminal
<1>7. ASSUME UNCHANGED job PROVE job'[i].status = "queued"
  BY <1>0, <1>7
<1> QED
  BY <1>1, <1>2, <1>3, <1>4, <1>5, <1>6, <1>7
  DEF Next, RequestStep, WorkerStep, EndProcessing, EnqueueRead, EnqueueReadStalled,
      EnqueueAbort, ClaimLock, LeaveRunning, Crash, EmptyPoll, ReclaimRead, vars

\* The row a worker runs stays out of the queue until the worker ends.
LEMMA StaysOut ==
  ASSUME TypeOK, Owners, [Next]_vars, NEW w \in Workers,
         worker[w].pc = "processing", worker'[w] = worker[w]
  PROVE  job'[worker[w].row].status \notin {"free", "queued"}
<1> DEFINE i == worker[w].row
           Out == job'[i].status \notin {"free", "queued"}
<1> USE DEF TypeOK, Job
<1>0. i \in Rows /\ job[i].status \notin {"free", "queued"} /\ Held(i)
  BY DEF Owners, Held
<1>1. ASSUME NEW r \in Requesters, EnqueueCommit(r) PROVE Out
  BY <1>0, <1>1 DEF EnqueueCommit, MarkFailed, Settled
<1>2. ASSUME NEW v \in Workers, ClaimCommit(v) PROVE Out
  BY <1>0, <1>2 DEF ClaimCommit, Settled
<1>3. ASSUME NEW v \in Workers, NEW s \in Terminal, Finish(v, s) PROVE Out
  BY <1>0, <1>3 DEF Finish, Settled, Terminal
<1>4. ASSUME NEW v \in Workers, ReclaimCommit(v) PROVE Out
  BY <1>0, <1>4 DEF ReclaimCommit, MarkFailed, Settled
<1>5. ASSUME NEW j \in Rows, GrowOverdue(j) PROVE Out
  BY <1>0, <1>5 DEF GrowOverdue
<1>6. ASSUME NEW j \in Rows, Forget(j) PROVE Out
  BY <1>0, <1>6 DEF Forget
<1>7. ASSUME UNCHANGED job PROVE Out
  BY <1>0, <1>7
<1> QED
  BY <1>1, <1>2, <1>3, <1>4, <1>5, <1>6, <1>7
  DEF Next, RequestStep, WorkerStep, EndProcessing, EnqueueRead, EnqueueReadStalled,
      EnqueueAbort, ClaimLock, LeaveRunning, Crash, EmptyPoll, ReclaimRead, vars

-----------------------------------------------------------------------------
(* Who changes what.                                                       *)

\* What a worker that moves becomes.
LEMMA WorkerMoves ==
  ASSUME TypeOK, [Next]_vars, NEW w \in Workers, worker'[w] # worker[w]
  PROVE  \/ \E i \in Rows : ClaimLock(w, i)
         \/ ClaimCommit(w)
         \/ ReclaimRead(w)
         \/ worker'[w].pc \in {"idle", "reclaim"} /\ worker'[w].batch = {}
<1> DEFINE Rests == worker'[w].pc \in {"idle", "reclaim"} /\ worker'[w].batch = {}
<1> USE DEF TypeOK
<1>1. \A n : AfterIdlePoll(w).pc \in {"idle", "reclaim"} /\ AfterIdlePoll(w).batch = {}
             /\ Between(n).pc \in {"idle", "reclaim"} /\ Between(n).batch = {}
  BY DEF AfterIdlePoll, Between, At
<1>2. WorkerStep(w)
  <2>1. \A v \in Workers \ {w} : WorkerStep(v) => worker'[w] = worker[w]
    BY DEF WorkerStep, EndProcessing, ClaimLock, ClaimCommit, Finish, LeaveRunning,
           Crash, EmptyPoll, ReclaimRead, ReclaimCommit
  <2>2. worker' # worker
    OBVIOUS
  <2> QED
    BY <2>1, <2>2 DEF Next, RequestStep, EnqueueRead, EnqueueReadStalled, EnqueueCommit,
                      EnqueueAbort, GrowOverdue, Forget, vars
<1>3. EndProcessing(w) => Rests
  BY <1>1 DEF EndProcessing, Finish, LeaveRunning
<1>4. Crash(w) \/ EmptyPoll(w) \/ ReclaimCommit(w) => Rests
  BY <1>1 DEF Crash, EmptyPoll, ReclaimCommit
<1> QED
  BY <1>2, <1>3, <1>4 DEF WorkerStep

\* A row is active after a step only if it was before, under the same key, or
\* if a request has just inserted it.
LEMMA ActiveStep ==
  ASSUME TypeOK, Owners, [Next]_vars, NEW i \in Rows, IsActive(i)'
  PROVE  \/ IsActive(i) /\ job'[i].key = job[i].key
         \/ \E r \in Requesters : /\ EnqueueCommit(r)
                                  /\ job'[i].key = request[r].key
<1> DEFINE Was == IsActive(i) /\ job'[i].key = job[i].key
<1> USE DEF TypeOK, Job, IsActive
<1>1. ASSUME NEW r \in Requesters, EnqueueCommit(r)
      PROVE  Was \/ job'[i].key = request[r].key
  BY <1>1 DEF EnqueueCommit, MarkFailed, Settled
<1>2. ASSUME NEW v \in Workers, ClaimCommit(v) PROVE Was
  BY <1>2 DEF ClaimCommit, Settled, Owners
<1>3. ASSUME NEW v \in Workers, NEW s \in Terminal, Finish(v, s) PROVE Was
  BY <1>3 DEF Finish, Settled, Terminal, Owners
<1>4. ASSUME NEW v \in Workers, ReclaimCommit(v) PROVE Was
  BY <1>4 DEF ReclaimCommit, MarkFailed, Settled
<1>5. ASSUME NEW j \in Rows, GrowOverdue(j) PROVE Was
  BY <1>5 DEF GrowOverdue
<1>6. ASSUME NEW j \in Rows, Forget(j) PROVE Was
  BY <1>6 DEF Forget, FreeRow
<1>7. ASSUME UNCHANGED job PROVE Was
  BY <1>7
<1> QED
  BY <1>1, <1>2, <1>3, <1>4, <1>5, <1>6, <1>7
  DEF Next, RequestStep, WorkerStep, EndProcessing, EnqueueRead, EnqueueReadStalled,
      EnqueueAbort, ClaimLock, LeaveRunning, Crash, EmptyPoll, ReclaimRead, vars

-----------------------------------------------------------------------------
(* The parts of the inductive invariant.                                   *)

LEMMA OwnersStep == QueueInv /\ [Next]_vars => Owners'
<1> SUFFICES ASSUME QueueInv, [Next]_vars, NEW w \in Workers
             PROVE  /\ worker'[w].pc = "locked" =>
                         /\ worker'[w].row \in Rows
                         /\ job'[worker'[w].row].status = "queued"
                    /\ worker'[w].pc = "processing" =>
                         /\ worker'[w].row \in Rows
                         /\ job'[worker'[w].row].status \notin {"free", "queued"}
                    /\ \A i \in worker'[w].batch : Doomed(i)'
  BY DEF Owners, Doomed
<1> USE DEF QueueInv
<1>1. \A r \in Requesters : \A i \in request[r].victims : Doomed(i)
  BY DEF Reserved
<1>2. \A i \in worker[w].batch : Doomed(i)'
  BY StaysDoomed DEF Held, Owners, TypeOK, WorkerState
<1>3. CASE worker'[w] = worker[w]
  <2>1. worker[w].pc = "locked" =>
          worker[w].row \in Rows /\ job'[worker[w].row].status = "queued"
    BY <1>1, <1>3, StaysLocked DEF Owners
  <2>2. worker[w].pc = "processing" =>
          worker[w].row \in Rows /\ job'[worker[w].row].status \notin {"free", "queued"}
    BY <1>3, StaysOut DEF Owners
  <2> QED
    BY <1>2, <1>3, <2>1, <2>2
<1>4. ASSUME NEW i \in Rows, ClaimLock(w, i)
      PROVE  worker'[w].pc = "locked" /\ worker'[w].row = i /\ worker'[w].batch = {}
             /\ job'[i].status = "queued"
  BY <1>4 DEF ClaimLock, NextInLine, Waiting, At, TypeOK
<1>5. ASSUME ClaimCommit(w)
      PROVE  worker'[w].pc = "processing" /\ worker'[w].row = worker[w].row
             /\ worker'[w].batch = worker[w].batch /\ worker[w].row \in Rows
             /\ job'[worker[w].row].status = "running"
  BY <1>5 DEF ClaimCommit, Owners, TypeOK, WorkerState, Settled
<1>6. ASSUME ReclaimRead(w)
      PROVE  worker'[w].pc = "reclaiming" /\ \A i \in worker'[w].batch : Doomed(i)'
  BY <1>6 DEF ReclaimRead, At, IsStalled, Doomed, TypeOK
<1>7. CASE worker'[w] # worker[w]
  BY <1>2, <1>4, <1>5, <1>6, <1>7, WorkerMoves
<1> QED
  BY <1>3, <1>7

LEMMA ExclusiveStep == QueueInv /\ [Next]_vars => ExclusiveProcessing'
<1> DEFINE Holds(u, i) == worker[u].pc \in {"locked", "processing"} /\ worker[u].row = i
<1> SUFFICES ASSUME QueueInv, [Next]_vars, NEW v \in Workers, NEW w \in Workers, NEW i,
                    Holds(v, i)', Holds(w, i)'
             PROVE  v = w
  BY DEF ExclusiveProcessing
<1> USE DEF QueueInv
<1>1. Holds(v, i) /\ Holds(w, i) => v = w
  BY DEF ExclusiveProcessing
<1>2. ASSUME NEW u \in Workers, Holds(u, i)', ~ Holds(u, i)
      PROVE  ClaimLock(u, i) /\ i \in Rows
  <2>1. worker'[u] # worker[u] /\ worker'[u].pc \in {"locked", "processing"}
    BY <1>2
  <2>2. ~ ClaimCommit(u)
    BY <1>2 DEF ClaimCommit, TypeOK, WorkerState
  <2>3. ~ ReclaimRead(u)
    BY <2>1 DEF ReclaimRead, At, TypeOK
  <2>4. PICK j \in Rows : ClaimLock(u, j)
    BY <2>1, <2>2, <2>3, WorkerMoves
  <2>5. j = i
    BY <1>2, <2>4 DEF ClaimLock, At, TypeOK
  <2> QED
    BY <2>4, <2>5
<1>3. ASSUME NEW t \in Workers, NEW u \in Workers, ClaimLock(t, i), i \in Rows, Holds(u, i)
      PROVE  FALSE
  BY <1>3 DEF ClaimLock, NextInLine, Waiting, LockedRows, Owners
<1>4. ASSUME ClaimLock(v, i), ClaimLock(w, i)
      PROVE  v = w
  BY <1>4 DEF ClaimLock, At, TypeOK, WorkerState
<1> QED
  BY <1>1, <1>2, <1>3, <1>4

\* What a request that moves has decided on.
LEMMA RequestMoves ==
  ASSUME TypeOK, [Next]_vars, NEW r \in Requesters, request'[r].pc = "insert",
         ~ /\ request[r].pc = "insert"
           /\ request'[r].key = request[r].key
           /\ request'[r].victims = request[r].victims
  PROVE  \E k \in Keys : EnqueueRead(r, k) \/ EnqueueReadStalled(r, k)
<1> USE DEF TypeOK
<1>1. ~ EnqueueCommit(r) /\ ~ EnqueueAbort(r)
  BY DEF EnqueueCommit, EnqueueAbort, NoRequest
<1>2. ASSUME NEW q \in Requesters \ {r}, RequestStep(q) PROVE FALSE
  BY <1>2 DEF RequestStep, EnqueueRead, EnqueueReadStalled, EnqueueCommit, EnqueueAbort
<1>3. ASSUME NEW i \in Rows, Forget(i) PROVE FALSE
  <2>1. request'[r] = [request[r] EXCEPT !.older = @ \ {i}]
    BY <1>3 DEF Forget
  <2> QED
    BY <2>1 DEF RequestState
<1>4. request' # request
  OBVIOUS
<1>5. \A w \in Workers : ~ WorkerStep(w)
  BY <1>4 DEF WorkerStep, EndProcessing, ClaimLock, ClaimCommit, Finish, LeaveRunning,
              Crash, EmptyPoll, ReclaimRead, ReclaimCommit
<1>6. RequestStep(r)
  BY <1>2, <1>3, <1>4, <1>5 DEF Next, GrowOverdue, vars
<1> QED
  BY <1>1, <1>6 DEF RequestStep

\* A request at its insert is the only one that can fill its key.
LEMMA ReservedStep == QueueInv /\ [Next]_vars => Reserved'
<1> SUFFICES ASSUME QueueInv, [Next]_vars, NEW r \in Requesters
             PROVE  /\ \A i \in request'[r].victims :
                         Doomed(i)' /\ job'[i].key = request'[r].key
                    /\ request'[r].pc = "insert" =>
                         /\ request'[r].key \in MayRequest[r]
                         /\ Serialized =>
                              \A i \in Rows : IsActive(i)' /\ job'[i].key = request'[r].key
                                              => i \in request'[r].victims
  BY DEF Reserved, ActiveRows, Doomed, IsActive
<1> USE DEF QueueInv
<1> DEFINE Same == /\ request'[r].pc = request[r].pc
                   /\ request'[r].key = request[r].key
                   /\ request'[r].victims = request[r].victims
<1>1. ASSUME Same
      PROVE  /\ \A i \in request'[r].victims :
                  Doomed(i)' /\ job'[i].key = request'[r].key
             /\ request'[r].pc = "insert" =>
                  /\ request'[r].key \in MayRequest[r]
                  /\ Serialized =>
                       \A i \in Rows : IsActive(i)' /\ job'[i].key = request'[r].key
                                       => i \in request'[r].victims
  <2>1. \A i \in request[r].victims : Doomed(i)' /\ job'[i].key = request[r].key
    BY StaysDoomed DEF Held, Reserved, TypeOK, RequestState
  <2>2. ASSUME request[r].pc = "insert", Serialized, NEW i \in Rows,
               IsActive(i)', job'[i].key = request[r].key
        PROVE  i \in request[r].victims
    <3>1. ASSUME NEW q \in Requesters, EnqueueCommit(q), request[q].key = request[r].key
          PROVE  FALSE
      <4>1. q = r
        BY <2>2, <3>1 DEF Reserved, Serialized, EnqueueCommit
      <4> QED
        BY <1>1, <2>2, <3>1, <4>1 DEF EnqueueCommit, NoRequest, TypeOK
    <3>2. IsActive(i) /\ job[i].key = request[r].key
      BY <2>2, <3>1, ActiveStep
    <3> QED
      BY <2>2, <3>2 DEF Reserved, ActiveRows
  <2> QED
    BY <1>1, <2>1, <2>2 DEF Reserved
<1>2. ASSUME NEW k \in Keys, EnqueueRead(r, k)
      PROVE  /\ request'[r].key \in MayRequest[r]
             /\ request'[r].victims = {}
             /\ \A i \in Rows : ~ (IsActive(i)' /\ job'[i].key = request'[r].key)
  <2>1. /\ k \in MayRequest[r] /\ ActiveRows(k) = {} /\ UNCHANGED job
        /\ request'[r].key = k /\ request'[r].victims = {}
    BY <1>2 DEF EnqueueRead, TypeOK
  <2> QED
    BY <2>1 DEF ActiveRows, IsActive
<1>3. ASSUME NEW k \in Keys, EnqueueReadStalled(r, k)
      PROVE  /\ request'[r].key \in MayRequest[r]
             /\ \A i \in request'[r].victims :
                  Doomed(i)' /\ job'[i].key = request'[r].key
             /\ Serialized => \A i \in Rows : IsActive(i)' /\ job'[i].key = request'[r].key
                                              => i \in request'[r].victims
  <2>1. PICK v \in Latest(ActiveRows(k)) :
          /\ IsStalled(v)
          /\ request' = [request EXCEPT ![r] =
                           [pc |-> "insert", key |-> k, victims |-> {v},
                            older |-> {j \in Rows : job[j].status # "free"}]]
    BY <1>3 DEF EnqueueReadStalled
  <2>2. v \in Rows /\ IsActive(v) /\ job[v].key = k /\ UNCHANGED job
        /\ k \in MayRequest[r] /\ request'[r].key = k /\ request'[r].victims = {v}
    BY <1>3, <2>1 DEF EnqueueReadStalled, Latest, ActiveRows, TypeOK
  <2>3. Doomed(v)'
    BY <2>1, <2>2 DEF IsStalled, Doomed
  <2>4. ASSUME Serialized, NEW i \in Rows, IsActive(i)', job'[i].key = k PROVE i = v
    BY <2>2, <2>4 DEF OneActivePerKey, IsActive
  <2> QED
    BY <2>2, <2>3, <2>4
<1>4. CASE request'[r].pc = "insert" /\ ~ Same
  BY <1>2, <1>3, <1>4, RequestMoves
<1>5. CASE request'[r].pc # "insert"
  <2>1. Same \/ request'[r].victims = {}
    <3>1. ASSUME NEW q \in Requesters, RequestStep(q) PROVE Same \/ request'[r].victims = {}
      BY <1>5, <3>1 DEF RequestStep, EnqueueRead, EnqueueReadStalled, EnqueueCommit,
                        EnqueueAbort, NoRequest, TypeOK
    <3>2. ASSUME NEW i \in Rows, Forget(i) PROVE Same
      BY <3>2 DEF Forget, TypeOK, RequestState
    <3>3. UNCHANGED request => Same
      OBVIOUS
    <3> QED
      BY <3>1, <3>2, <3>3
      DEF Next, WorkerStep, EndProcessing, ClaimLock, ClaimCommit, Finish,
          LeaveRunning, Crash, EmptyPoll, ReclaimRead, ReclaimCommit, GrowOverdue, vars
  <2> QED
    BY <1>1, <1>5, <2>1
<1> QED
  BY <1>1, <1>4, <1>5

LEMMA OneActiveStep == QueueInv /\ [Next]_vars => OneActivePerKey'
<1> SUFFICES ASSUME QueueInv, [Next]_vars, Serialized, NEW i \in Rows, NEW j \in Rows,
                    IsActive(i)', IsActive(j)', job'[i].key = job'[j].key
             PROVE  i = j
  BY DEF OneActivePerKey, IsActive
<1> USE DEF QueueInv
<1>1. ASSUME NEW r \in Requesters, EnqueueCommit(r) PROVE i = j
  <2>1. PICK new \in Rows :
          /\ job[new].status = "free"
          /\ job' = [MarkFailed(request[r].victims) EXCEPT ![new] =
                       [status |-> "queued", key |-> request[r].key,
                        overdue |-> FALSE, older |-> request[r].older]]
    BY <1>1 DEF EnqueueCommit
  <2>2. ASSUME NEW x \in Rows \ {new}, IsActive(x)'
        PROVE  x \notin request[r].victims /\ IsActive(x) /\ job'[x].key = job[x].key
    BY <2>1, <2>2 DEF MarkFailed, Settled, IsActive
  <2>3. job'[new].key = request[r].key
    BY <2>1 DEF MarkFailed
  <2>4. ASSUME NEW x \in Rows \ {new}, IsActive(x)', job'[x].key = request[r].key
        PROVE  FALSE
    BY <1>1, <2>2, <2>4 DEF Reserved, ActiveRows, EnqueueCommit
  <2>5. CASE i = new \/ j = new
    BY <2>3, <2>4, <2>5
  <2>6. CASE i # new /\ j # new
    BY <2>2, <2>6 DEF OneActivePerKey
  <2> QED
    BY <2>5, <2>6
<1>2. CASE ~ \E r \in Requesters : EnqueueCommit(r)
  BY <1>2, ActiveStep DEF OneActivePerKey
<1> QED
  BY <1>1, <1>2

LEMMA QueueInvInit == Init => QueueInv
<1> SUFFICES ASSUME Init PROVE QueueInv
  OBVIOUS
<1>1. TypeOK
  BY TypeInit
<1> QED
  BY <1>1 DEF Init, QueueInv, Owners, Reserved, ExclusiveProcessing, OneActivePerKey,
              IsActive, FreeRow, Between, At, NoRequest

\* The inductive invariant of the queue: claims, requests and reclaims meet
\* the rows they remember in the state they read them.
THEOREM QueueInvariant == Spec => []QueueInv
<1>1. QueueInv /\ [Next]_vars => QueueInv'
  BY TypeStep, OwnersStep, ReservedStep, ExclusiveStep, OneActiveStep DEF QueueInv
<1> QED
  BY <1>1, QueueInvInit, PTL DEF Spec

\* No two workers hold one row of integration_sync_jobs, between the claim
\* lock of claim_queued_integration_job and the end of the handler.
THEOREM Exclusive == Spec => []ExclusiveProcessing
<1>1. QueueInv => ExclusiveProcessing
  BY DEF QueueInv
<1> QED
  BY <1>1, QueueInvariant, PTL

\* Without overlapping requests the conflict check of enqueue_integration_job
\* keeps one active job per key, whatever the workers and reclaims do.
THEOREM OneActive == Spec => []OneActivePerKey
<1>1. QueueInv => OneActivePerKey
  BY DEF QueueInv
<1> QED
  BY <1>1, QueueInvariant, PTL

-----------------------------------------------------------------------------
(* What a step may never do.                                               *)

LEMMA ClaimedStep ==
  ASSUME QueueInv, [Next]_vars, NEW i \in Rows,
         job[i].status = "queued", job'[i].status # "queued"
  PROVE  /\ job'[i].status = "running"
         /\ \E w \in Workers : worker'[w].pc = "processing" /\ worker'[w].row = i
<1> USE DEF QueueInv, TypeOK, Job
<1>1. ASSUME NEW r \in Requesters, EnqueueCommit(r) PROVE FALSE
  BY <1>1 DEF EnqueueCommit, MarkFailed, Settled, Reserved, Doomed
<1>2. ASSUME NEW w \in Workers, ClaimCommit(w)
      PROVE  /\ job'[i].status = "running"
             /\ worker'[w].pc = "processing" /\ worker'[w].row = i
  BY <1>2 DEF ClaimCommit, Settled, WorkerState
<1>3. ASSUME NEW w \in Workers, NEW s \in Terminal, Finish(w, s) PROVE FALSE
  BY <1>3 DEF Finish, Settled, Owners
<1>4. ASSUME NEW w \in Workers, ReclaimCommit(w) PROVE FALSE
  BY <1>4 DEF ReclaimCommit, MarkFailed, Owners, Doomed
<1>5. ASSUME NEW j \in Rows, GrowOverdue(j) PROVE FALSE
  BY <1>5 DEF GrowOverdue
<1>6. ASSUME NEW j \in Rows, Forget(j) PROVE FALSE
  BY <1>6 DEF Forget, Terminal
<1>7. job' # job
  OBVIOUS
<1> QED
  BY <1>1, <1>2, <1>3, <1>4, <1>5, <1>6, <1>7
  DEF Next, RequestStep, WorkerStep, EndProcessing, EnqueueRead, EnqueueReadStalled,
      EnqueueAbort, ClaimLock, LeaveRunning, Crash, EmptyPoll, ReclaimRead, vars

\* A queued job is never lost: only the worker that claims it takes it out.
THEOREM NoQueuedLost == Spec => QueuedOnlyClaimed
<1>1. QueueInv /\ [Next]_vars =>
        [\A i \in Rows :
           job[i].status = "queued" /\ job'[i].status # "queued"
           => /\ job'[i].status = "running"
              /\ \E w \in Workers : worker'[w].pc = "processing" /\ worker'[w].row = i]_vars
  BY ClaimedStep
<1> QED
  BY <1>1, QueueInvariant, PTL DEF Spec, QueuedOnlyClaimed

LEMMA FailedStep ==
  ASSUME QueueInv, [Next]_vars, NEW i \in Rows,
         job[i].status = "running", job'[i].status = "failed"
  PROVE  \/ job[i].overdue
         \/ \E w \in Workers : /\ worker[w].pc = "processing" /\ worker[w].row = i
                               /\ worker'[w].pc # "processing"
<1> USE DEF QueueInv, TypeOK, Job
<1>1. ASSUME NEW r \in Requesters, EnqueueCommit(r) PROVE job[i].overdue
  BY <1>1 DEF EnqueueCommit, MarkFailed, Settled, Reserved, Doomed
<1>2. ASSUME NEW w \in Workers, ClaimCommit(w) PROVE FALSE
  BY <1>2 DEF ClaimCommit, Settled
<1>3. ASSUME NEW w \in Workers, NEW s \in Terminal, Finish(w, s)
      PROVE  /\ worker[w].pc = "processing" /\ worker[w].row = i
             /\ worker'[w].pc # "processing"
  <2>1. worker[w].row = i
    BY <1>3 DEF Finish, Settled, Owners
  <2>2. PICK next \in {Between(0), AfterIdlePoll(w)} :
          worker' = [worker EXCEPT ![w] = next]
    BY <1>3 DEF Finish
  <2>3. next.pc # "processing"
    BY <2>2 DEF Between, AfterIdlePoll, At
  <2> QED
    BY <1>3, <2>1, <2>2, <2>3 DEF Finish
<1>4. ASSUME NEW w \in Workers, ReclaimCommit(w) PROVE job[i].overdue
  BY <1>4 DEF ReclaimCommit, MarkFailed, Owners, Doomed
<1>5. ASSUME NEW j \in Rows, GrowOverdue(j) PROVE FALSE
  BY <1>5 DEF GrowOverdue
<1>6. ASSUME NEW j \in Rows, Forget(j) PROVE FALSE
  BY <1>6 DEF Forget, FreeRow, Terminal
<1>7. job' # job
  OBVIOUS
<1> QED
  BY <1>1, <1>2, <1>3, <1>4, <1>5, <1>6, <1>7
  DEF Next, RequestStep, WorkerStep, EndProcessing, EnqueueRead, EnqueueReadStalled,
      EnqueueAbort, ClaimLock, LeaveRunning, Crash, EmptyPoll, ReclaimRead, vars

\* Reclaims and replacements act on what they read in an earlier transaction,
\* and still every failure within the limit is the step of the worker that
\* runs the job: no reclaim, replacement or other worker takes it away.
THEOREM NoneFailedEarly == Spec => NoPrematureFailure
<1>1. QueueInv /\ [Next]_vars =>
        [\A i \in Rows :
           job[i].status = "running" /\ job'[i].status = "failed" /\ ~ job[i].overdue
           => \E w \in Workers :
                /\ worker[w].pc = "processing" /\ worker[w].row = i
                /\ worker'[w].pc # "processing"]_vars
  BY FailedStep
<1> QED
  BY <1>1, QueueInvariant, PTL DEF Spec, NoPrematureFailure

-----------------------------------------------------------------------------
(* The queue implements single flight.                                     *)

\* What the queue holds of a key, as an execution in flight.
LEMMA FlightOf ==
  ASSUME NEW k \in Keys
  PROVE  /\ ActiveRows(k) = {} => Flight[k] = Abstract!Nothing
         /\ \A i : ActiveRows(k) = {i} => Flight[k] = Abstract!One(i, job[i].status)
         /\ ActiveRows(k)' = {} => Flight'[k] = Abstract!Nothing
         /\ \A i : ActiveRows(k)' = {i} => Flight'[k] = Abstract!One(i, job'[i].status)
BY DEF Flight, Abstract!Nothing, Abstract!One

\* A step that keeps the active rows of a key and their statuses.
LEMMA FlightKept ==
  ASSUME NEW k \in Keys, ActiveRows(k)' = ActiveRows(k),
         \A i \in ActiveRows(k) : job'[i].status = job[i].status
  PROVE  Flight'[k] = Flight[k]
BY DEF Flight

LEMMA FlightChange ==
  ASSUME NEW k \in Keys, NEW x, \A l \in Keys \ {k} : Flight'[l] = Flight[l],
         Flight'[k] = x
  PROVE  Flight' = [Flight EXCEPT ![k] = x]
BY DEF Flight

LEMMA FlightUnchanged ==
  ASSUME \A k \in Keys : Flight'[k] = Flight[k]
  PROVE  Flight' = Flight
BY DEF Flight

LEMMA InsertRefines ==
  ASSUME QueueInv, Serialized, NEW r \in Requesters, EnqueueCommit(r)
  PROVE  Abstract!Next
<1> USE DEF QueueInv, TypeOK, Job
<1>k. PICK k \in Keys : k = request[r].key
  BY MayRequestAssumption DEF EnqueueCommit, Reserved
<1>v. PICK V : V = request[r].victims
  OBVIOUS
<1>1. PICK new \in Rows :
        /\ job[new].status = "free"
        /\ job' = [MarkFailed(V) EXCEPT ![new] =
                     [status |-> "queued", key |-> k,
                      overdue |-> FALSE, older |-> request[r].older]]
  BY <1>k, <1>v DEF EnqueueCommit
<1>2. /\ ActiveRows(k) \subseteq V
      /\ \A i \in V : Doomed(i) /\ job[i].key = k
  BY <1>k, <1>v DEF EnqueueCommit, Reserved
<1>3. /\ job'[new].status = "queued" /\ job'[new].key = k
      /\ \A i \in Rows \ {new} : i \notin V => job'[i] = job[i]
      /\ \A i \in V \ {new} : i \in Rows => job'[i].status = "failed"
  BY <1>1 DEF MarkFailed, Settled
<1>4. ASSUME NEW l \in Keys \ {k} PROVE Flight'[l] = Flight[l]
  <2>1. ActiveRows(l)' = ActiveRows(l)
    BY <1>1, <1>2, <1>3 DEF ActiveRows, IsActive, Doomed
  <2>2. \A i \in ActiveRows(l) : job'[i].status = job[i].status
    BY <1>1, <1>2, <1>3 DEF ActiveRows, IsActive, Doomed
  <2> QED
    BY <2>1, <2>2, FlightKept
<1>5. ActiveRows(k)' = {new}
  <2>1. ASSUME NEW i \in Rows, i # new, IsActive(i)', job'[i].key = k PROVE FALSE
    <3>1. i \notin V
      BY <1>3, <2>1 DEF IsActive
    <3>2. job'[i] = job[i]
      BY <1>3, <2>1, <3>1
    <3> QED
      BY <1>2, <2>1, <3>1, <3>2 DEF ActiveRows, IsActive
  <2> QED
    BY <1>3, <2>1 DEF ActiveRows, IsActive
<1>6. Flight' = [Flight EXCEPT ![k] = Abstract!One(new, "queued")]
  BY <1>2, <1>3, <1>4, <1>5, FlightOf, FlightChange
<1>7. CASE ActiveRows(k) = {}
  BY <1>2, <1>6, <1>7, FlightOf DEF Abstract!Next, Abstract!Submit
<1>8. CASE ActiveRows(k) # {}
  <2>1. PICK v : v \in ActiveRows(k)
    BY <1>8
  <2>2. v \in Rows /\ job[v].status = "running"
    BY <1>2, <2>1 DEF ActiveRows, IsActive, Doomed
  <2>3. ActiveRows(k) = {v}
    BY <2>1 DEF ActiveRows, OneActivePerKey
  <2>4. Abstract!Replace(k, v, new)
    BY <1>2, <1>6, <2>2, <2>3, FlightOf DEF Abstract!Replace
  <2> QED
    BY <1>2, <2>2, <2>4 DEF Abstract!Next
<1> QED
  BY <1>7, <1>8

LEMMA ClaimRefines ==
  ASSUME QueueInv, Serialized, NEW w \in Workers, ClaimCommit(w)
  PROVE  Abstract!Next \/ Flight' = Flight
<1> USE DEF QueueInv, TypeOK, Job
<1>i. PICK i : i = worker[w].row
  OBVIOUS
<1>1. i \in Rows /\ job[i].status = "queued"
  BY <1>i DEF ClaimCommit, Owners
<1>k. PICK k : k = job[i].key
  OBVIOUS
<1>2. /\ job'[i].status = "running" /\ job'[i].key = k
      /\ \A j \in Rows \ {i} : job'[j] = job[j]
  BY <1>i, <1>1, <1>k DEF ClaimCommit, Settled
<1>3. ASSUME NEW l \in Keys, l # k PROVE Flight'[l] = Flight[l]
  <2>1. ActiveRows(l)' = ActiveRows(l)
    BY <1>1, <1>2, <1>3, <1>k DEF ActiveRows, IsActive
  <2>2. \A j \in ActiveRows(l) : job'[j].status = job[j].status
    BY <1>1, <1>2, <1>3, <1>k DEF ActiveRows
  <2> QED
    BY <2>1, <2>2, FlightKept
<1>4. CASE k \notin Keys
  BY <1>3, <1>4, FlightUnchanged
<1>5. CASE k \in Keys
  <2>1. ActiveRows(k) = {i}
    BY <1>1, <1>k DEF ActiveRows, OneActivePerKey, IsActive
  <2>2. ActiveRows(k)' = ActiveRows(k)
    BY <1>1, <1>2, <1>k DEF ActiveRows, IsActive
  <2>3. Flight' = [Flight EXCEPT ![k] = Abstract!One(i, "running")]
    BY <1>2, <1>3, <1>5, <2>1, <2>2, FlightOf, FlightChange
  <2>4. Abstract!Start(k, i)
    BY <1>1, <1>5, <2>1, <2>3, FlightOf DEF Abstract!Start
  <2> QED
    BY <1>1, <1>5, <2>4 DEF Abstract!Next
<1> QED
  BY <1>4, <1>5

\* The end of one job, or of the several that a reclaim fails.
LEMMA EndRefines ==
  ASSUME QueueInv, Serialized, NEW S \in SUBSET Rows,
         \A i \in S : /\ job[i].status \notin {"free", "queued"}
                      /\ job'[i].status \in Terminal,
         \A i \in Rows \ S : job'[i] = job[i]
  PROVE  Abstract!Next
<1> DEFINE K == {k \in Keys : ActiveRows(k) \cap S # {}}
<1> USE DEF QueueInv, TypeOK, Job
<1>1. ASSUME NEW k \in K
      PROVE  /\ \E e \in Rows : Flight[k] = Abstract!One(e, "running")
             /\ Flight'[k] = Abstract!Nothing
  <2>1. PICK e : e \in ActiveRows(k) \cap S
    OBVIOUS
  <2>2. e \in Rows /\ job[e].status = "running"
    BY <2>1 DEF ActiveRows, IsActive
  <2>3. ActiveRows(k) = {e}
    BY <2>1 DEF ActiveRows, OneActivePerKey
  <2>4. ActiveRows(k)' = {}
    <3>1. ASSUME NEW i \in Rows, IsActive(i)', job'[i].key = k PROVE FALSE
      <4>1. i \notin S
        BY <3>1 DEF IsActive, Terminal
      <4>2. job'[i] = job[i]
        BY <4>1
      <4>3. i \in ActiveRows(k)
        BY <3>1, <4>2 DEF ActiveRows, IsActive
      <4> QED
        BY <2>1, <2>3, <4>1, <4>3
    <3> QED
      BY <3>1 DEF ActiveRows, IsActive
  <2> QED
    BY <2>2, <2>3, <2>4, FlightOf
<1>2. ASSUME NEW k \in Keys \ K PROVE Flight'[k] = Flight[k]
  <2>1. ActiveRows(k) \cap S = {}
    OBVIOUS
  <2>2. ActiveRows(k)' = ActiveRows(k)
    BY <2>1 DEF ActiveRows, IsActive, Terminal
  <2>3. \A i \in ActiveRows(k) : job'[i].status = job[i].status
    BY <2>1 DEF ActiveRows
  <2> QED
    BY <2>2, <2>3, FlightKept
<1>3. Flight' = [k \in Keys |-> IF k \in K THEN Abstract!Nothing ELSE Flight[k]]
  <2> HIDE DEF K
  <2>1. \A k \in Keys :
          Flight'[k] = IF k \in K THEN Abstract!Nothing ELSE Flight[k]
    BY <1>1, <1>2
  <2> QED
    BY <2>1 DEF Flight
<1>4. Abstract!End(K)
  BY <1>1, <1>3 DEF Abstract!End
<1> QED
  BY <1>4 DEF Abstract!Next

LEMMA StepRefines ==
  ASSUME QueueInv, Serialized, [Next]_vars
  PROVE  Abstract!Next \/ Flight' = Flight
<1> USE DEF QueueInv, TypeOK, Job
<1>1. ASSUME NEW w \in Workers, NEW s \in Terminal, Finish(w, s) PROVE Abstract!Next
  <2>1. {worker[w].row} \in SUBSET Rows
    BY <1>1 DEF Finish, Owners
  <2>2. \A i \in {worker[w].row} : /\ job[i].status \notin {"free", "queued"}
                                   /\ job'[i].status \in Terminal
    BY <1>1, <2>1 DEF Finish, Owners, Settled
  <2>3. \A i \in Rows \ {worker[w].row} : job'[i] = job[i]
    BY <1>1 DEF Finish
  <2> QED
    BY <2>1, <2>2, <2>3, EndRefines
<1>2. ASSUME NEW w \in Workers, ReclaimCommit(w) PROVE Abstract!Next
  <2>1. worker[w].batch \in SUBSET Rows
    BY DEF WorkerState
  <2>2. \A i \in worker[w].batch : /\ job[i].status \notin {"free", "queued"}
                                   /\ job'[i].status \in Terminal
    BY <1>2, <2>1 DEF ReclaimCommit, Owners, Doomed, MarkFailed, Settled, Terminal
  <2>3. \A i \in Rows \ worker[w].batch : job'[i] = job[i]
    BY <1>2 DEF ReclaimCommit, MarkFailed
  <2> QED
    BY <2>1, <2>2, <2>3, EndRefines
<1>3. ASSUME NEW i \in Rows, GrowOverdue(i) PROVE Flight' = Flight
  BY <1>3 DEF GrowOverdue, Flight, ActiveRows, IsActive
<1>4. ASSUME NEW i \in Rows, Forget(i) PROVE Flight' = Flight
  <2>1. ~ IsActive(i) /\ ~ IsActive(i)'
    BY <1>4 DEF Forget, FreeRow, IsActive, Terminal
  <2>2. \A j \in Rows \ {i} : job'[j].status = job[j].status /\ job'[j].key = job[j].key
    BY <1>4 DEF Forget
  <2>3. ASSUME NEW k \in Keys PROVE Flight'[k] = Flight[k]
    <3>1. ActiveRows(k)' = ActiveRows(k)
      BY <2>1, <2>2 DEF ActiveRows, IsActive
    <3>2. \A j \in ActiveRows(k) : job'[j].status = job[j].status
      BY <2>1, <2>2 DEF ActiveRows
    <3> QED
      BY <3>1, <3>2, FlightKept
  <2> QED
    BY <2>3, FlightUnchanged
<1>5. ASSUME UNCHANGED job PROVE Flight' = Flight
  BY <1>5 DEF Flight, ActiveRows, IsActive
<1> QED
  BY <1>1, <1>2, <1>3, <1>4, <1>5, InsertRefines, ClaimRefines
  DEF Next, RequestStep, WorkerStep, EndProcessing, EnqueueRead, EnqueueReadStalled,
      EnqueueAbort, ClaimLock, LeaveRunning, Crash, EmptyPoll, ReclaimRead, vars

LEMMA InitRefines == Init => Abstract!Init
<1> SUFFICES ASSUME Init PROVE Abstract!Init
  OBVIOUS
<1>1. \A k \in Keys : Flight[k] = Abstract!Nothing
  BY FlightOf DEF Init, FreeRow, ActiveRows, IsActive
<1> QED
  BY <1>1 DEF Abstract!Init, Flight

\* When the requests of a key do not overlap, the queue with its replicas,
\* crashes, reclaims and replacements runs each key as SingleFlight does.
THEOREM QueueIsSingleFlight ==
  ASSUME Serialized
  PROVE  Spec => ImplementsSingleFlight
<1>1. QueueInv /\ [Next]_vars => [Abstract!Next]_Flight
  BY StepRefines
<1> QED
  BY <1>1, InitRefines, QueueInvariant, PTL DEF Spec, ImplementsSingleFlight, Abstract!Spec

=============================================================================
