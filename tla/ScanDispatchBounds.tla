------------------------- MODULE ScanDispatchBounds -------------------------
(***************************************************************************)
(* Proofs that each failure costs one scan run and one slot at most, for   *)
(* any number of sources, runs, requesters and workers.                    *)
(***************************************************************************)
EXTENDS ScanDispatchProofs, FiniteSetTheorems

\* What each failure adds one element to.
LEMMA GrowsByOne ==
  ASSUME NEW A, NEW B, NEW m \in Nat, NEW n \in Nat, IsFiniteSet(A), Cardinality(A) <= m,
         \/ B \subseteq A /\ n = m
         \/ n = m + 1 /\ \E x : B \subseteq A \cup {x}
  PROVE  IsFiniteSet(B) /\ Cardinality(B) <= n
<1>1. Cardinality(A) \in Nat
  BY FS_CardinalityType
<1>2. CASE B \subseteq A /\ n = m
  <2>1. IsFiniteSet(B) /\ Cardinality(B) <= Cardinality(A)
    BY <1>2, FS_Subset
  <2>2. Cardinality(B) \in Nat
    BY <2>1, FS_CardinalityType
  <2> QED
    BY <1>1, <1>2, <2>1, <2>2
<1>3. ASSUME n = m + 1, NEW x, B \subseteq A \cup {x}
      PROVE  IsFiniteSet(B) /\ Cardinality(B) <= n
  <2>1. /\ IsFiniteSet(A \cup {x})
        /\ Cardinality(A \cup {x}) = IF x \in A THEN Cardinality(A) ELSE Cardinality(A) + 1
    BY FS_AddElement
  <2>2. IsFiniteSet(B) /\ Cardinality(B) <= Cardinality(A \cup {x})
    BY <1>3, <2>1, FS_Subset
  <2>3. Cardinality(B) \in Nat
    BY <2>2, FS_CardinalityType
  <2> QED
    BY <1>1, <1>3, <2>1, <2>2, <2>3
<1> QED
  BY <1>2, <1>3

\* Jobs that end were running.
LEMMA EndedRan ==
  ASSUME JobsStop
  PROVE  \A d \in Sources, r \in Runs :
           /\ InFlight(d, r)' => InFlight(d, r) /\ job'[d][r] = job[d][r]
           /\ InFlight(d, r) /\ ~ InFlight(d, r)' => job[d][r] = "running"
BY DEF JobsStop, InFlight

LEMMA FinishStops ==
  ASSUME ScanInv, NEW w \in Workers, FinishJob(w)
  PROVE  JobsStop
<1>1. PICK n \in Runs, d \in Sources : /\ n = worker[w].run /\ d = worker[w].source
                                       /\ InFlight(d, n) => job[d][n] = "running"
  BY DEF FinishJob, ScanInv, HeldByWorkers
<1>2. job' = [job EXCEPT ![d][n] = "none"]
  BY <1>1 DEF FinishJob
<1>3. /\ job' \in Jobs /\ job'[d][n] = "none"
      /\ \A e \in Sources, q \in Runs : e # d \/ q # n => job'[e][q] = job[e][q]
  BY <1>2, JobSet, Shapes
<1> QED
  BY <1>1, <1>3 DEF JobsStop, InFlight

-----------------------------------------------------------------------------
(* Scan runs.                                                              *)

\* The same runs have jobs, calls and workers, and none is begun anew.
LEMMA AbandonedSame ==
  ASSUME ScanInv, UNCHANGED <<run, job, caller, worker>>
  PROVE  Abandoned' = Abandoned
BY DEF Abandoned, InFlight

\* A call begins with a run of its own.
LEMMA AbandonedNewCall ==
  ASSUME ScanInv, NEW x \in Callers, NEW d \in Sources, NEW b \in BOOLEAN, Unused # {},
         run' = [run EXCEPT ![NextRun] = [status |-> "queued", scheduled |-> b]],
         caller' = [caller EXCEPT ![x] = NewCall(d, NextRun)],
         caller[x] = NoCall, UNCHANGED <<job, worker>>
  PROVE  Abandoned' \subseteq Abandoned
<1> DEFINE n == NextRun
<1>1. n \in Runs
  BY FreshRun
<1>2. /\ \A r \in Runs \ {n} : run'[r] = run[r]
      /\ caller'[x].run = n /\ \A y \in Callers \ {x} : caller'[y] = caller[y]
  BY <1>1, CallType, Shapes
<1> HIDE DEF n
<1>3. ASSUME NEW r \in Abandoned' PROVE r \in Abandoned
  <2>1. r \in Runs /\ r # n
    BY <1>2 DEF Abandoned
  <2>2. \A y \in Callers : caller[y].run # r
    BY <1>2, <2>1, Shapes DEF Abandoned
  <2> QED
    BY <1>2, <2>1, <2>2 DEF Abandoned, InFlight
<1> QED
  BY <1>3

\* A call is over: its job is enqueued or its run deleted, or else its run is abandoned.
LEMMA AbandonedCallOver ==
  ASSUME ScanInv, NEW x \in Callers, caller' = [caller EXCEPT ![x] = NoCall], UNCHANGED worker,
         \/ UNCHANGED <<run, job>>
         \/ /\ caller[x] # NoCall /\ job' = [job EXCEPT ![caller[x].source][caller[x].run] = "queued"]
            /\ UNCHANGED run
         \/ /\ caller[x] # NoCall /\ run' = [run EXCEPT ![caller[x].run] = FreeRun]
            /\ UNCHANGED job
  PROVE  /\ Abandoned' \subseteq Abandoned \cup {caller[x].run}
         /\ ~ UNCHANGED <<run, job>> => Abandoned' \subseteq Abandoned
<1> DEFINE n == caller[x].run
<1>1. \A y \in Callers \ {x} : caller'[y] = caller[y]
  BY Shapes
<1>2. caller[x] # NoCall => /\ n \in Runs /\ caller[x].source \in Sources
                            /\ \A e \in Sources : ~ InFlight(e, n)
  BY DEF ScanInv, HeldByCalls, HeldByCall
<1> HIDE DEF n
<1>3. CASE UNCHANGED <<run, job>>
  <2>1. ASSUME NEW r \in Abandoned', r # n PROVE r \in Abandoned
    BY <1>1, <1>3, <2>1 DEF Abandoned, InFlight, n
  <2> QED
    BY <1>3, <2>1 DEF n
<1>4. CASE caller[x] # NoCall /\ job' = [job EXCEPT ![caller[x].source][n] = "queued"] /\ UNCHANGED run
  <2>1. /\ \A e \in Sources, q \in Runs :
              InFlight(e, q)' <=> InFlight(e, q) \/ (e = caller[x].source /\ q = n)
        /\ \A e \in Sources, q \in Runs : e # caller[x].source \/ q # n => job'[e][q] = job[e][q]
        /\ job'[caller[x].source][n] = "queued"
    BY <1>2, <1>4, JobSet, Shapes
  <2>2. ASSUME NEW r \in Abandoned' PROVE r \in Abandoned
    <3>1. r \in Runs /\ r # n
      BY <1>2, <1>4, <2>1 DEF Abandoned
    <3>2. \A y \in Callers : caller[y].run # r
      BY <1>1, <3>1 DEF Abandoned, n
    <3>3. \A e \in Sources : InFlight(e, r) => job[e][r] = "running"
      BY <2>1, <3>1 DEF Abandoned
    <3> QED
      BY <1>4, <3>1, <3>2, <3>3 DEF Abandoned
  <2> QED
    BY <2>2
<1>5. CASE caller[x] # NoCall /\ run' = [run EXCEPT ![n] = FreeRun] /\ UNCHANGED job
  <2>1. \A r \in Runs \ {n} : run'[r] = run[r]
    BY <1>5, Shapes
  <2>2. ASSUME NEW r \in Abandoned' PROVE r \in Abandoned
    <3>1. r \in Runs /\ r # n
      BY <1>2, <1>5, Shapes DEF Abandoned
    <3> QED
      BY <1>1, <1>5, <2>1, <3>1 DEF Abandoned, InFlight, n
  <2> QED
    BY <2>2
<1> QED
  BY <1>3, <1>4, <1>5 DEF n

\* A worker goes on with its run.
LEMMA AbandonedWorkerMoves ==
  ASSUME ScanInv, NEW w \in Workers, worker[w].pc # "idle", NEW v \in WorkerState,
         v.run = worker[w].run, worker' = [worker EXCEPT ![w] = v], UNCHANGED <<job, caller>>,
         \/ UNCHANGED run
         \/ \E t \in {"scanning", "ended"} :
              run' = [run EXCEPT ![worker[w].run] = [run[worker[w].run] EXCEPT !.status = t]]
  PROVE  Abandoned' \subseteq Abandoned
<1> DEFINE n == worker[w].run
<1>1. \A u \in Workers : worker'[u].run = worker[u].run
  BY Shapes
<1>2. \A r \in Runs \ {n} : run'[r] = run[r]
  BY Shapes
<1>3. ASSUME NEW r \in Abandoned' PROVE r \in Abandoned
  <2>1. r \in Runs /\ r # n
    BY <1>1 DEF Abandoned
  <2> QED
    BY <1>1, <1>2, <2>1 DEF Abandoned, InFlight
<1> QED
  BY <1>3

\* Jobs that run end, and a worker may delete its run, or else abandon it.
LEMMA AbandonedJobsOver ==
  ASSUME ScanInv, UNCHANGED caller,
         JobsStop,
         NEW w \in Workers,
         \/ UNCHANGED <<run, worker>>
         \/ /\ worker[w].run \in Runs
            /\ worker' = [worker EXCEPT ![w] = Between]
            /\ run' = run \/ run' = [run EXCEPT ![worker[w].run] = FreeRun]
  PROVE  /\ Abandoned' \subseteq Abandoned \cup {worker[w].run}
         /\ UNCHANGED worker \/ run' # run => Abandoned' \subseteq Abandoned
<1> DEFINE n == worker[w].run
<1>2. ASSUME NEW r \in Runs
      PROVE  (\A d \in Sources : InFlight(d, r)' => job'[d][r] = "running")
               => \A d \in Sources : InFlight(d, r) => job[d][r] = "running"
  BY EndedRan
<1>3. CASE UNCHANGED <<run, worker>>
  BY <1>2, <1>3 DEF Abandoned
<1>4. CASE n \in Runs /\ worker' = [worker EXCEPT ![w] = Between] /\ (run' = run \/ run' = [run EXCEPT ![n] = FreeRun])
  <2>1. /\ \A u \in Workers \ {w} : worker'[u] = worker[u]
        /\ worker'[w] # worker[w] /\ \A r \in Runs \ {n} : run'[r] = run[r]
    BY <1>4, Shapes
  <2>2. run' # run => run'[n].status = "free"
    BY <1>4, Shapes
  <2> HIDE DEF n
  <2>3. ASSUME NEW r \in Abandoned', r # n PROVE r \in Abandoned
    BY <1>2, <2>1, <2>3 DEF Abandoned, n
  <2>4. run' # run => n \notin Abandoned'
    BY <2>2 DEF Abandoned
  <2> QED
    BY <2>1, <2>3, <2>4 DEF n
<1> QED
  BY <1>3, <1>4

LEMMA AbandonedStep ==
  ScanInv /\ [Next]_vars =>
    \/ Abandoned' \subseteq Abandoned /\ faults' = faults
    \/ faults' = faults + 1 /\ \E r : Abandoned' \subseteq Abandoned \cup {r}
<1> DEFINE Fewer == Abandoned' \subseteq Abandoned /\ faults' = faults
           Another == faults' = faults + 1 /\ \E r : Abandoned' \subseteq Abandoned \cup {r}
<1> SUFFICES ASSUME ScanInv, [Next]_vars PROVE Fewer \/ Another
  OBVIOUS
<1>1. ASSUME NEW d \in Sources, Tick(d) \/ Reschedule(d) PROVE Fewer
  BY <1>1, AbandonedSame DEF Tick, Reschedule
<1>2. ASSUME StartCycle \/ EndCycle \/ StartOnHolder \/ Recycle PROVE Fewer
  BY <1>2, AbandonedSame DEF StartCycle, EndCycle, StartOnHolder, Recycle
<1>3. ASSUME NEW d \in Sources, DispatchDue(d) PROVE Fewer
  BY <1>3, AbandonedNewCall DEF DispatchDue, Callers
<1>4. ASSUME NEW q \in Requesters, NEW d \in Sources, Request(q, d) PROVE Fewer
  BY <1>4, AbandonedNewCall DEF Request, Callers
<1>5. ASSUME NEW x \in Callers, CallStep(x) PROVE Fewer
  <2>1. /\ caller[x].source \in Sources /\ caller[x].run \in Runs /\ caller[x] # NoCall
        /\ run[caller[x].run].status = "queued" /\ ~ InFlight(caller[x].source, caller[x].run)
    <3>1. caller[x] # NoCall
      BY <1>5, Shapes DEF CallStep, Look, Insert, Conflict
    <3> QED
      BY <3>1 DEF ScanInv, HeldByCalls, HeldByCall
  <2>2. CASE Look(x)
    <3>1. \A y \in Callers : caller'[y].run = caller[y].run
      BY <2>2, Shapes DEF Look, Call
    <3> QED
      BY <2>2, <3>1 DEF Look, Abandoned, InFlight
  <2>3. CASE Insert(x)
    <3>1. PICK d \in Sources, n \in Runs : d = caller[x].source /\ n = caller[x].run
      BY <2>1
    <3>2. UNCHANGED run /\ job' = [job EXCEPT ![d][n] = "queued"]
      BY <2>3, <3>1 DEF Insert
    <3>3. job'[d][n] = "queued" /\ job[d][n] = "none"
      <4>1. job[d][n] = "none"
        BY <2>1, <3>1 DEF InFlight
      <4>2. job'[d][n] = "queued"
        BY <3>2, JobSet, Shapes
      <4> QED
        BY <4>1, <4>2
    <3>4. job' # job
      BY <3>3
    <3> QED
      BY <2>1, <2>3, <3>2, <3>4, AbandonedCallOver DEF Insert, Return
  <2>4. CASE Conflict(x)
    <3>1. run'[caller[x].run].status = "free"
      BY <2>1, <2>4, Shapes DEF Conflict
    <3>2. run' # run
      BY <2>1, <3>1
    <3> QED
      BY <2>1, <2>4, <3>2, AbandonedCallOver DEF Conflict, Return
  <2> QED
    BY <1>5, <2>2, <2>3, <2>4 DEF CallStep
<1>6. ASSUME NEW w \in Workers, NEW d \in Sources, NEW r \in Runs, Claim(w, d, r) PROVE Fewer
  <2>1. /\ \A e \in Sources, q \in Runs : InFlight(e, q)' <=> InFlight(e, q)
        /\ \A e \in Sources, q \in Runs : e # d \/ q # r => job'[e][q] = job[e][q]
    <3>1. job[d][r] = "queued" /\ InFlight(d, r)
      BY <1>6 DEF Claim, InFlight
    <3> QED
      BY <1>6, <3>1, JobSet, Shapes DEF Claim
  <2>2. /\ worker'[w].run = r /\ \A u \in Workers \ {w} : worker'[u] = worker[u]
        /\ UNCHANGED <<run, caller, faults>> /\ worker[w] = Between
    BY <1>6, Shapes DEF Claim, At, ScanInv, HeldByWorkers
  <2>3. ASSUME NEW q \in Abandoned' PROVE q \in Abandoned
    <3>1. q \in Runs /\ q # r
      BY <2>2 DEF Abandoned
    <3>2. \A u \in Workers : worker[u].run # q
      BY <2>2, <3>1, Shapes DEF Abandoned
    <3>3. \A e \in Sources : InFlight(e, q) => job[e][q] = "running"
      BY <2>1, <3>1 DEF Abandoned
    <3> QED
      BY <2>2, <3>1, <3>2, <3>3 DEF Abandoned
  <2> QED
    BY <2>2, <2>3
<1>7. ASSUME NEW w \in Workers, ScanStep(w) PROVE Fewer
  <2>0. worker[w] \in WorkerState /\ worker[w].pc # "idle"
    BY <1>7, Shapes DEF ScanStep, Dispatched, StartScan, EndScan, CloseSchedule, FinishJob
  <2>1. CASE Dispatched(w)
    <3>1. PICK g \in {"closing", "started"} :
            worker' = [worker EXCEPT ![w] = At(g, worker[w].source, worker[w].run)]
      BY <2>1 DEF Dispatched
    <3> DEFINE v == At(g, worker[w].source, worker[w].run)
    <3>2. v \in WorkerState /\ v.run = worker[w].run
      BY <2>0 DEF At, WorkerState
    <3> HIDE DEF v
    <3>3. worker' = [worker EXCEPT ![w] = v] /\ UNCHANGED <<run, job, caller, faults>>
      BY <2>1, <3>1 DEF Dispatched, v
    <3> QED
      BY <2>0, <3>2, <3>3, AbandonedWorkerMoves
  <2>2. CASE StartScan(w) \/ EndScan(w) \/ CloseSchedule(w)
    <3>1. PICK g \in {"scanning", "scanned", "closing"} :
            worker' = [worker EXCEPT ![w] = [worker[w] EXCEPT !.pc = g]]
      BY <2>2 DEF StartScan, EndScan, CloseSchedule
    <3> DEFINE v == [worker[w] EXCEPT !.pc = g]
    <3>2. v \in WorkerState /\ v.run = worker[w].run
      BY <2>0 DEF WorkerState
    <3> HIDE DEF v
    <3>3. /\ worker' = [worker EXCEPT ![w] = v] /\ UNCHANGED <<job, caller, faults>>
          /\ \/ UNCHANGED run
             \/ \E t \in {"scanning", "ended"} :
                  run' = [run EXCEPT ![worker[w].run] = [run[worker[w].run] EXCEPT !.status = t]]
      BY <2>2, <3>1 DEF StartScan, EndScan, CloseSchedule, v
    <3> QED
      BY <2>0, <3>2, <3>3, AbandonedWorkerMoves
  <2>3. CASE FinishJob(w)
    <3>1. /\ worker[w].run \in Runs /\ worker[w].source \in Sources
          /\ run[worker[w].run].status # "free"
      BY <2>0 DEF ScanInv, HeldByWorkers
    <3>2. run' = [run EXCEPT ![worker[w].run] = FreeRun]
      BY <2>3 DEF FinishJob
    <3>3. run' # run
      BY <3>1, <3>2, Shapes
    <3>4. JobsStop
      BY <2>0, <2>3, FinishStops
    <3>5. worker' = [worker EXCEPT ![w] = Between] /\ UNCHANGED <<caller, faults>>
      BY <2>3 DEF FinishJob
    <3> QED
      BY <3>1, <3>2, <3>3, <3>4, <3>5, AbandonedJobsOver
  <2> QED
    BY <1>7, <2>1, <2>2, <2>3 DEF ScanStep
<1>8. ASSUME NEW w \in Workers, NEW S \in SUBSET Runs, Reclaim(w, S) PROVE Fewer
  BY <1>8, AbandonedJobsOver, ReclaimStops, Shapes DEF Reclaim
<1>9. ASSUME NEW x \in Callers, (CycleFails /\ x = Scheduler) \/ RequestFails(x) PROVE Another
  <2>1. CallFails(x) /\ UNCHANGED worker /\ faults' = faults + 1
    BY <1>9 DEF CycleFails, RequestFails
  <2> QED
    BY <2>1, AbandonedCallOver, Shapes DEF CallFails
<1>10. ASSUME NEW w \in Workers, WorkerFails(w) PROVE Another
  <2>1. worker[w].pc # "idle" /\ worker[w].run \in Runs
    BY <1>10 DEF WorkerFails, ScanInv, HeldByWorkers
  <2> QED
    BY <1>10, <2>1, AbandonedJobsOver, SameStops, Shapes DEF WorkerFails
<1>11. ASSUME UNCHANGED vars PROVE Fewer
  BY <1>11, AbandonedSame DEF vars
<1> HIDE DEF Fewer, Another
<1> QED
  BY <1>1, <1>2, <1>3, <1>4, <1>5, <1>6, <1>7, <1>8, <1>9, <1>10, <1>11
     DEF Next, CycleStep, Callers

\* A run that no one will end is one that only a failure can have left.
LEMMA StrandedIsAbandoned == Stranded \subseteq Abandoned
<1> SUFFICES ASSUME NEW r \in Stranded PROVE r \in Abandoned
  OBVIOUS
<1> QED
  BY DEF Stranded, Abandoned, Pursued

\* A refused call leaves no run behind it, nor does a job given up for dead while it
\* runs: what no one will end was left by a failure, one run by each.
THEOREM RunsLeft == Spec => []StrandedBounded
<1>1. Init => AbandonedBounded
  <2> SUFFICES ASSUME Init PROVE AbandonedBounded
    OBVIOUS
  <2>1. Abandoned = {} /\ faults = 0
    BY DEF Init, Abandoned, FreeRun
  <2> QED
    BY <2>1, FS_EmptySet DEF AbandonedBounded
<1>2. ScanInv /\ AbandonedBounded /\ [Next]_vars => AbandonedBounded'
  <2> SUFFICES ASSUME ScanInv, AbandonedBounded, [Next]_vars PROVE AbandonedBounded'
    OBVIOUS
  <2>1. faults \in Nat /\ faults' \in Nat
    BY TypeStep, FaultsAssumption DEF ScanInv, TypeOK
  <2> QED
    BY <2>1, AbandonedStep, GrowsByOne DEF AbandonedBounded
<1>3. ScanInv /\ AbandonedBounded => StrandedBounded
  <2> SUFFICES ASSUME ScanInv, AbandonedBounded PROVE StrandedBounded
    OBVIOUS
  <2>1. faults \in Nat
    BY FaultsAssumption DEF ScanInv, TypeOK
  <2> QED
    BY <2>1, GrowsByOne, StrandedIsAbandoned DEF AbandonedBounded, StrandedBounded
<1> QED
  BY <1>1, <1>2, <1>3, Invariant, PTL DEF Spec

-----------------------------------------------------------------------------
(* Slots.                                                                  *)

LEMMA CycleShapeStep == ScanInv /\ CycleShape /\ [Next]_vars => CycleShape'
<1> SUFFICES ASSUME ScanInv, CycleShape, [Next]_vars PROVE CycleShape'
  OBVIOUS
<1>0. Scheduler \in Callers /\ \A q \in Requesters : q # Scheduler
  BY SchedulerAssumption DEF Callers
<1>1. CASE UNCHANGED <<cycle, caller>>
  BY <1>1 DEF CycleShape
<1>2. CASE StartCycle \/ EndCycle \/ StartOnHolder \/ CycleFails \/ \E d \in Sources : DispatchDue(d)
  <2>1. cycle \in CycleState
    BY DEF ScanInv, TypeOK
  <2>2. cycle'.skipped = {}
    BY <1>2, <2>1 DEF StartCycle, EndCycle, StartOnHolder, Begin, NoCycle, CycleFails, DispatchDue,
                      CycleState
  <2>3. CASE \E d \in Sources : DispatchDue(d)
    <3>1. PICK d \in Sources : DispatchDue(d)
      BY <2>3
    <3>2. cycle.on /\ cycle'.on /\ d \in cycle'.todo
      BY <2>1, <3>1 DEF DispatchDue, CycleShape, CycleState
    <3>3. caller'[Scheduler].source = d
      <4>1. caller' = [caller EXCEPT ![Scheduler] = NewCall(d, NextRun)]
        BY <3>1 DEF DispatchDue
      <4>2. caller'[Scheduler] = NewCall(d, NextRun)
        BY <1>0, <4>1, Shapes
      <4> QED
        BY <4>2 DEF NewCall
    <3> QED
      BY <2>2, <3>2, <3>3 DEF CycleShape
  <2>4. CASE StartCycle \/ StartOnHolder
    <3>1. cycle'.on /\ caller'[Scheduler] = NoCall
      BY <2>4 DEF StartCycle, StartOnHolder, Begin, CycleShape
    <3> QED
      BY <2>2, <3>1 DEF CycleShape
  <2>5. CASE EndCycle \/ CycleFails
    <3>1. cycle'.todo = {}
      BY <2>5 DEF EndCycle, CycleFails, NoCycle
    <3>2. caller'[Scheduler] = NoCall
      <4>1. CASE EndCycle
        BY <4>1 DEF EndCycle, CycleShape
      <4>2. CASE CycleFails
        BY <1>0, <4>2, Shapes DEF CycleFails, CallFails
      <4> QED
        BY <2>5, <4>1, <4>2
    <3> QED
      BY <2>2, <3>1, <3>2 DEF CycleShape
  <2> QED
    BY <1>2, <2>3, <2>4, <2>5
<1>6. CASE Recycle
  <2>1. /\ cycle'.on = cycle.on /\ cycle'.skipped = cycle.skipped /\ cycle'.todo = cycle.todo
        /\ UNCHANGED caller
    BY <1>6 DEF Recycle, ScanInv, TypeOK, CycleState
  <2> QED
    BY <2>1 DEF CycleShape
<1>3. ASSUME NEW q \in Requesters, UNCHANGED cycle, caller'[Scheduler] = caller[Scheduler]
      PROVE  CycleShape'
  BY <1>3 DEF CycleShape
<1>4. ASSUME NEW q \in Requesters, RequestFails(q) \/ \E d \in Sources : Request(q, d)
      PROVE  CycleShape'
  BY <1>0, <1>3, <1>4, Shapes DEF RequestFails, CallFails, Request
<1>5. ASSUME NEW x \in Callers, CallStep(x) PROVE CycleShape'
  <2>1. CASE x = Scheduler /\ ~ Look(x)
    <3>1. caller'[Scheduler] = NoCall
      BY <1>5, <2>1, Shapes DEF CallStep, Insert, Conflict, Return
    <3>2. \E S \in {{}, {caller[x].source}} : cycle'.skipped = S
      <4>1. cycle \in CycleState
        BY Shapes DEF TypeOK
      <4> QED
        BY <1>5, <2>1, <4>1 DEF CallStep, Insert, Conflict, Return, CycleState
    <3>3. cycle.on
      BY <1>5, <2>1, Shapes DEF CallStep, Insert, Conflict, CycleShape
    <3>4. cycle'.on
      <4>1. cycle \in CycleState
        BY Shapes DEF TypeOK
      <4> QED
        BY <1>5, <2>1, <3>3, <4>1 DEF CallStep, Insert, Conflict, Return, CycleState
    <3> QED
      BY <3>1, <3>2, <3>4 DEF CycleShape
  <2>2. CASE x # Scheduler
    <3>1. UNCHANGED cycle /\ caller'[Scheduler] = caller[Scheduler]
      BY <1>0, <1>5, <2>2, Shapes DEF CallStep, Look, Insert, Conflict, Return
    <3> QED
      BY <3>1 DEF CycleShape
  <2>3. CASE Look(x)
    <3>1. /\ UNCHANGED cycle
          /\ caller'[Scheduler] # NoCall => caller[Scheduler] # NoCall
          /\ caller'[Scheduler].source = caller[Scheduler].source
          /\ caller[Scheduler] = NoCall => caller'[Scheduler] = NoCall
      BY <1>0, <2>3, Shapes DEF Look, Call
    <3> QED
      BY <3>1 DEF CycleShape
  <2> QED
    BY <2>1, <2>2, <2>3
<1> QED
  BY <1>1, <1>2, <1>4, <1>5, <1>6
     DEF Next, vars, CycleStep, Tick, Reschedule, Claim, ScanStep, Dispatched, StartScan, EndScan,
         CloseSchedule, FinishJob, Reclaim, WorkerFails

\* A step that shows no slot to be under way but one it serves, and that goes on
\* serving what was served.
Kept(d) == Shown(d)' => \/ \E r \in Runs : Serving(d, r)'
                        \/ Shown(d) /\ \A r \in Runs : Serving(d, r) => Serving(d, r)'

LEMMA KeptServed ==
  ASSUME NEW x, \A d \in Sources \ {x} : Kept(d)
  PROVE  Unserved' \subseteq Unserved \cup {x}
BY DEF Unserved, Kept

\* A new run serves nothing.
LEMMA FreshServesNothing ==
  ASSUME ScanInv, Unused # {}
  PROVE  NextRun \in Runs /\ \A d \in Sources : ~ Serving(d, NextRun)
<1>1. /\ NextRun \in Runs
      /\ \A d \in Sources : ~ InFlight(d, NextRun)
      /\ \A x \in Callers : caller[x].run # NextRun
      /\ \A w \in Workers : worker[w].run # NextRun
  BY FreshRun
<1> QED
  BY <1>1 DEF Serving, CalledFor, Waiting, Callers

\* A call is over.  It serves its slot no more, if it was the scheduler's and no job
\* waits in its place.
LEMMA KeptCallOver ==
  ASSUME ScanInv, NEW x \in Callers, caller' = [caller EXCEPT ![x] = NoCall],
         UNCHANGED <<schedule, worker>>,
         \/ UNCHANGED <<run, job>>
         \/ /\ caller[x] # NoCall /\ job' = [job EXCEPT ![caller[x].source][caller[x].run] = "queued"]
            /\ UNCHANGED run
         \/ /\ caller[x] # NoCall /\ run' = [run EXCEPT ![caller[x].run] = FreeRun]
            /\ UNCHANGED job,
         NEW d \in Sources, NEW r \in Runs, Serving(d, r),
         \/ caller[x].source # d \/ x # Scheduler
         \/ caller[x] # NoCall /\ job' = [job EXCEPT ![caller[x].source][caller[x].run] = "queued"] /\ UNCHANGED run
  PROVE  Serving(d, r)'
<1> DEFINE n == caller[x].run
           s == caller[x].source
<1>0. Scheduler \in Callers
  BY DEF Callers
<1>1. \A y \in Callers \ {x} : caller'[y] = caller[y]
  BY Shapes
<1>2. caller[x] # NoCall =>
        /\ n \in Runs /\ s \in Sources
        /\ \A e \in Sources : ~ InFlight(e, n)
        /\ \A w \in Workers : worker[w].run # n
        /\ \A y \in Callers : caller[y].run = n => y = x
  BY DEF ScanInv, HeldByCalls, HeldByCall
<1> HIDE DEF n, s
<1>3. r = n /\ caller[x] # NoCall => x = Scheduler /\ s = d
  <2>1. ASSUME r = n, caller[x] # NoCall PROVE x = Scheduler /\ s = d
    <3>1. CalledFor(d, r)
      BY <1>2, <2>1 DEF Serving, CalledFor, Waiting
    <3>2. caller[Scheduler].run = n /\ caller[Scheduler].source = d
      BY <2>1, <3>1 DEF CalledFor
    <3> QED
      BY <1>0, <1>2, <2>1, <3>2 DEF s
  <2> QED
    BY <2>1
<1>4. CASE caller[x] # NoCall /\ job' = [job EXCEPT ![s][n] = "queued"] /\ UNCHANGED run
  <2>1. /\ \A e \in Sources, q \in Runs : InFlight(e, q)' <=> InFlight(e, q) \/ (e = s /\ q = n)
        /\ \A e \in Sources, q \in Runs : e # s \/ q # n => job'[e][q] = job[e][q]
        /\ job'[s][n] = "queued"
    BY <1>2, <1>4, JobSet, Shapes
  <2>2. Waiting(d, r) => Waiting(d, r)'
    BY <2>1 DEF Waiting
  <2>3. x = Scheduler /\ CalledFor(d, r) => Waiting(d, r)'
    <3>1. ASSUME x = Scheduler, CalledFor(d, r) PROVE Waiting(d, r)'
      <4>1. d = s /\ r = n
        BY <3>1 DEF s, n, CalledFor
      <4> QED
        BY <2>1, <4>1 DEF Waiting
    <3> QED
      BY <3>1
  <2> QED
    BY <1>0, <1>1, <1>4, <2>2, <2>3 DEF Serving, CalledFor
<1>5. CASE x # Scheduler \/ s # d
  <2>1. CalledFor(d, r) => CalledFor(d, r)'
    BY <1>0, <1>1, <1>5 DEF s, CalledFor
  <2>2. CASE UNCHANGED <<run, job>>
    BY <2>1, <2>2 DEF Serving, CalledFor, Waiting, InFlight
  <2>3. CASE caller[x] # NoCall /\ run' = [run EXCEPT ![n] = FreeRun] /\ UNCHANGED job
    <3>1. r # n
      BY <1>3, <1>5, <2>3
    <3>2. run'[r] = run[r]
      BY <2>3, <3>1, Shapes
    <3> QED
      BY <2>1, <2>3, <3>2 DEF Serving, CalledFor, Waiting, InFlight
  <2> QED
    BY <1>4, <2>2, <2>3 DEF s, n
<1> QED
  BY <1>4, <1>5 DEF s, n

\* Nothing but the schedule of a source moves, and it shows nothing new.
LEMMA KeptSame ==
  ASSUME ScanInv, UNCHANGED <<run, job, caller, worker>>, NEW d \in Sources,
         Shown(d)' => Shown(d)
  PROVE  Kept(d)
BY DEF Kept, Serving, CalledFor, Waiting, InFlight

\* Jobs that run end, and a worker lets go of its run.
LEMMA KeptJobsOver ==
  ASSUME ScanInv, UNCHANGED <<caller, schedule, cycle>>,
         JobsStop,
         NEW w \in Workers,
         \/ UNCHANGED <<run, worker>>
         \/ /\ worker[w].pc # "idle"
            /\ worker' = [worker EXCEPT ![w] = Between]
            /\ run' = run \/ run' = [run EXCEPT ![worker[w].run] = FreeRun],
         NEW d \in Sources,
         UNCHANGED worker \/ worker[w].pc = "closing" \/ worker[w].source # d
  PROVE  Kept(d)
<1> DEFINE n == worker[w].run
<1>1. \A r \in Runs : Waiting(d, r) => Waiting(d, r)'
  BY EndedRan DEF Waiting
<1>2. CASE UNCHANGED <<run, worker>>
  BY <1>1, <1>2 DEF Kept, Shown, Serving, CalledFor
<1>3. CASE /\ worker[w].pc # "idle" /\ worker' = [worker EXCEPT ![w] = Between]
           /\ run' = run \/ run' = [run EXCEPT ![n] = FreeRun]
  <2>1. /\ \A u \in Workers \ {w} : worker'[u] = worker[u]
        /\ \A r \in Runs \ {n} : run'[r] = run[r]
        /\ worker[w].pc = "closing" \/ worker[w].source # d
    BY <1>3, Shapes
  <2>2. /\ \A e \in Sources : ~ Waiting(e, n)
        /\ caller[Scheduler].run # n
        /\ \A u \in Workers : worker[u].run = n => u = w
    <3>1. /\ n \in Runs /\ \A e \in Sources : ~ Waiting(e, n)
          /\ \A u \in Workers : worker[u].run = n => u = w
      BY <1>3 DEF ScanInv, HeldByWorkers, Waiting
    <3>2. caller[Scheduler] # NoCall => \A u \in Workers : worker[u].run # caller[Scheduler].run
      BY DEF ScanInv, HeldByCalls, HeldByCall, Callers
    <3> QED
      BY <3>1, <3>2, Shapes
  <2> HIDE DEF n
  <2>3. ASSUME NEW r \in Runs, Serving(d, r) PROVE Serving(d, r)'
    <3>1. r # n
      BY <2>1, <2>2, <2>3 DEF Serving, CalledFor
    <3>2. \A u \in Workers : worker[u].run = r => u # w
      BY <3>1 DEF n
    <3> QED
      BY <1>1, <2>1, <2>3, <3>1, <3>2 DEF Serving, CalledFor
  <2> QED
    BY <2>3 DEF Kept, Shown
<1> QED
  BY <1>2, <1>3

\* A worker goes on with a run that it does not close, or closes the slot it serves.
LEMMA KeptWorkerMoves ==
  ASSUME ScanInv, NEW w \in Workers, NEW v \in WorkerState,
         v.source = worker[w].source, v.run = worker[w].run,
         worker' = [worker EXCEPT ![w] = v], UNCHANGED <<job, caller, cycle>>,
         worker[w].run \in Runs,
         \/ UNCHANGED run
         \/ \E t \in {"scanning", "ended"} :
              run' = [run EXCEPT ![worker[w].run] = [run[worker[w].run] EXCEPT !.status = t]],
         NEW d \in Sources,
         \/ Shown(d)' => Shown(d)
         \/ run[worker[w].run].scheduled /\ d = worker[w].source /\ v.pc # "closing",
         \/ v.pc # "closing"
         \/ d # worker[w].source \/ ~ run[worker[w].run].scheduled \/ ~ Shown(d)'
  PROVE  Kept(d)
<1> DEFINE n == worker[w].run
<1>1. worker'[w] = v /\ \A u \in Workers \ {w} : worker'[u] = worker[u]
  BY Shapes
<1>2. \A r \in Runs : run'[r].scheduled = run[r].scheduled
  BY Shapes DEF Run
<1>3. \A r \in Runs : Waiting(d, r) => Waiting(d, r)'
  BY DEF Waiting, InFlight
<1>4. CASE ~ Shown(d)'
  BY <1>4 DEF Kept
<1>5. CASE v.pc # "closing"
  <2>1. \A r \in Runs : Serving(d, r) => Serving(d, r)'
    BY <1>1, <1>2, <1>3, <1>5 DEF Serving, CalledFor
  <2>2. run[n].scheduled /\ d = worker[w].source => Serving(d, n)'
    BY <1>1, <1>2, <1>5 DEF Serving, CalledFor
  <2> QED
    BY <1>5, <2>1, <2>2 DEF Kept
<1>6. CASE v.pc = "closing" /\ (d # worker[w].source \/ ~ run[n].scheduled)
  <2>1. \A r \in Runs : Serving(d, r) => Serving(d, r)'
    BY <1>1, <1>2, <1>3, <1>6 DEF Serving, CalledFor
  <2> QED
    BY <1>6, <2>1 DEF Kept
<1> QED
  BY <1>4, <1>5, <1>6

LEMMA UnservedStep ==
  ScanInv /\ CycleShape /\ [Next]_vars =>
    \/ Unserved' \subseteq Unserved /\ faults' = faults
    \/ faults' = faults + 1 /\ \E d : Unserved' \subseteq Unserved \cup {d}
<1> DEFINE Fewer == (\A d \in Sources : Kept(d)) /\ faults' = faults
           Another == faults' = faults + 1 /\ \E x : \A d \in Sources \ {x} : Kept(d)
<1> SUFFICES ASSUME ScanInv, CycleShape, [Next]_vars PROVE Fewer \/ Another
  <2>1. Fewer => Unserved' \subseteq Unserved
    BY DEF Kept, Unserved
  <2> QED
    BY <2>1, KeptServed
<1>0. /\ Scheduler \in Callers /\ \A q \in Requesters : q # Scheduler
      /\ schedule \in [Sources -> ScheduleState] /\ cycle \in CycleState
  BY SchedulerAssumption DEF Callers, ScanInv, TypeOK
<1>1. ASSUME NEW e \in Sources, Tick(e) \/ Reschedule(e) PROVE Fewer
  <2>1. \A d \in Sources : schedule'[d].status = schedule[d].status
    BY <1>0, <1>1 DEF Tick, Reschedule, ScheduleState
  <2> QED
    BY <1>1, <2>1, KeptSame DEF Tick, Reschedule, Shown
<1>2. ASSUME StartCycle \/ EndCycle \/ StartOnHolder \/ Recycle PROVE Fewer
  <2>1. \A d \in Sources : Shown(d)' => Shown(d)
    BY <1>0, <1>2 DEF StartCycle, EndCycle, StartOnHolder, Recycle, Begin, NoCycle, Shown, Committed,
                      Settled, CycleShape, CycleState
  <2> QED
    BY <1>2, <2>1, KeptSame DEF StartCycle, EndCycle, StartOnHolder, Recycle
<1>3. ASSUME NEW e \in Sources, DispatchDue(e) PROVE Fewer
  <2>1. PICK n \in Runs : n = NextRun /\ (\A d \in Sources : ~ Serving(d, n)) /\ caller[Scheduler] = NoCall
    BY <1>3, FreshServesNothing DEF DispatchDue
  <2>2. /\ \A r \in Runs \ {n} : run'[r] = run[r]
        /\ run'[n].scheduled /\ CalledFor(e, n)'
        /\ UNCHANGED <<job, worker, faults>>
    <3>1. caller'[Scheduler] = NewCall(e, n)
      BY <1>0, <1>3, <2>1, Shapes DEF DispatchDue
    <3>2. CalledFor(e, n)'
      BY <3>1 DEF CalledFor, NewCall
    <3> QED
      BY <1>0, <1>3, <2>1, <3>2, Shapes DEF DispatchDue
  <2>3. Serving(e, n)'
    BY <2>2 DEF Serving, CalledFor
  <2>4. ASSUME NEW d \in Sources, d # e, Shown(d)' PROVE Shown(d)
    <3>1. Committed \in [Sources -> ScheduleState]
      BY CommittedType DEF ScanInv
    <3>2. schedule'[d] = Committed[d]
      BY <1>3, <2>4, <3>1 DEF DispatchDue
    <3> QED
      BY <2>4, <3>2 DEF Shown, Committed, Settled
  <2>5. ASSUME NEW d \in Sources, NEW r \in Runs, Serving(d, r) PROVE Serving(d, r)'
    <3>1. r # n
      BY <2>1, <2>5
    <3>2. ~ CalledFor(d, r)
      BY <2>1, NoSourceAssumption DEF CalledFor, NoCall, NewCall
    <3> QED
      BY <2>2, <2>5, <3>1, <3>2 DEF Serving, CalledFor, Waiting, InFlight
  <2> QED
    <3>1. Kept(e)
      BY <2>3 DEF Kept
    <3>2. \A d \in Sources \ {e} : Kept(d)
      BY <2>4, <2>5 DEF Kept
    <3> QED
      BY <2>2, <3>1, <3>2
<1>4. ASSUME NEW q \in Requesters, NEW e \in Sources, Request(q, e) PROVE Fewer
  <2>1. PICK n \in Runs : n = NextRun /\ \A d \in Sources : ~ Serving(d, n)
    BY <1>4, FreshServesNothing DEF Request
  <2>2. /\ \A r \in Runs \ {n} : run'[r] = run[r]
        /\ caller'[Scheduler] = caller[Scheduler]
        /\ UNCHANGED <<schedule, cycle, job, worker, faults>>
    BY <1>0, <1>4, <2>1, Shapes DEF Request
  <2>3. ASSUME NEW d \in Sources, NEW r \in Runs, Serving(d, r) PROVE Serving(d, r)'
    <3>1. r # n
      BY <2>1, <2>3
    <3> QED
      BY <2>2, <2>3, <3>1 DEF Serving, CalledFor, Waiting, InFlight
  <2> QED
    BY <2>2, <2>3 DEF Kept, Shown
<1>5. ASSUME NEW x \in Callers, CallStep(x) PROVE Fewer
  <2>0. caller[x] # NoCall /\ UNCHANGED <<schedule, worker, faults>>
    BY <1>5, Shapes DEF CallStep, Look, Insert, Conflict
  <2>1. CASE Look(x)
    <3>1. \A d \in Sources, r \in Runs : CalledFor(d, r)' <=> CalledFor(d, r)
      BY <1>0, <2>1, Shapes DEF Look, Call, CalledFor
    <3> QED
      BY <2>0, <2>1, <3>1 DEF Look, Kept, Shown, Serving, Waiting, InFlight
  <2>2. CASE Insert(x) \/ (Conflict(x) /\ x # Scheduler)
    <3>1. ASSUME NEW d \in Sources, NEW r \in Runs, Serving(d, r) PROVE Serving(d, r)'
      BY <2>0, <2>2, <3>1, KeptCallOver DEF Insert, Conflict, Return
    <3>2. cycle'.skipped = cycle.skipped
      <4>1. x = Scheduler => cycle.skipped = {}
        BY <2>0 DEF CycleShape
      <4> QED
        BY <1>0, <2>2, <4>1 DEF Insert, Conflict, Return, CycleState
    <3> QED
      BY <2>0, <3>1, <3>2 DEF Kept, Shown
  <2>3. CASE Conflict(x) /\ x = Scheduler
    <3>1. cycle.skipped = {} /\ cycle'.skipped = {caller[x].source}
      BY <1>0, <2>0, <2>3 DEF Conflict, Return, CycleShape, CycleState
    <3>2. ASSUME NEW d \in Sources, Shown(d)' PROVE Shown(d) /\ caller[x].source # d
      BY <2>0, <3>1, <3>2 DEF Shown
    <3>3. ASSUME NEW d \in Sources, NEW r \in Runs, Serving(d, r), caller[x].source # d
          PROVE  Serving(d, r)'
      BY <2>0, <2>3, <3>3, KeptCallOver DEF Conflict, Return
    <3> QED
      BY <2>0, <3>2, <3>3 DEF Kept
  <2> QED
    BY <1>5, <2>1, <2>2, <2>3 DEF CallStep
<1>6. ASSUME NEW w \in Workers, NEW e \in Sources, NEW n \in Runs, Claim(w, e, n) PROVE Fewer
  <2>1. /\ \A d \in Sources, q \in Runs : InFlight(d, q)' <=> InFlight(d, q)
        /\ \A d \in Sources, q \in Runs : d # e \/ q # n => job'[d][q] = job[d][q]
    <3>1. job[e][n] = "queued" /\ InFlight(e, n)
      BY <1>6 DEF Claim, InFlight
    <3> QED
      BY <1>6, <3>1, JobSet, Shapes DEF Claim
  <2>2. /\ worker'[w].run = n /\ worker'[w].source = e /\ worker'[w].pc = "claimed"
        /\ \A u \in Workers \ {w} : worker'[u] = worker[u]
        /\ UNCHANGED <<schedule, run, cycle, caller, faults>> /\ worker[w] = Between
    BY <1>6, Shapes DEF Claim, At, ScanInv, HeldByWorkers
  <2>3. ASSUME NEW d \in Sources, NEW r \in Runs, Serving(d, r) PROVE Serving(d, r)'
    <3>1. Waiting(d, r) => Waiting(d, r)' \/ (d = e /\ r = n)
      BY <2>1 DEF Waiting
    <3>2. \A u \in Workers : worker[u].run = r => u # w
      BY <2>2, Shapes
    <3> QED
      BY <2>2, <2>3, <3>1, <3>2 DEF Serving, CalledFor
  <2> QED
    BY <2>2, <2>3 DEF Kept, Shown
<1>7. ASSUME NEW w \in Workers, ScanStep(w) PROVE Fewer
  <2>0. /\ worker[w] \in WorkerState /\ worker[w].pc # "idle"
        /\ worker[w].run \in Runs /\ worker[w].source \in Sources
        /\ run[worker[w].run].status # "free"
    <3>1. worker[w] \in WorkerState /\ worker[w].pc # "idle"
      BY <1>7, Shapes DEF ScanStep, Dispatched, StartScan, EndScan, CloseSchedule, FinishJob
    <3> QED
      BY <3>1 DEF ScanInv, HeldByWorkers
  <2>1. CASE Dispatched(w)
    <3> DEFINE v == At("started", worker[w].source, worker[w].run)
    <3>1. /\ v \in WorkerState /\ v.run = worker[w].run /\ v.source = worker[w].source
          /\ v.pc = "started"
      BY <2>0 DEF At, WorkerState
    <3>2. worker' = [worker EXCEPT ![w] = v]
      BY <2>0, <2>1 DEF Dispatched
    <3> HIDE DEF v
    <3>3. \A d \in Sources : Shown(d)' => Shown(d) \/ (run[worker[w].run].scheduled /\ d = worker[w].source)
      BY <1>0, <2>1 DEF Dispatched, Shown
    <3>4. UNCHANGED <<run, job, caller, cycle, faults>>
      BY <2>1 DEF Dispatched
    <3> QED
      BY <2>0, <3>1, <3>2, <3>3, <3>4, KeptWorkerMoves
  <2>2. CASE StartScan(w) \/ EndScan(w)
    <3>1. PICK g \in {"scanning", "scanned"} :
            worker' = [worker EXCEPT ![w] = [worker[w] EXCEPT !.pc = g]]
      BY <2>2 DEF StartScan, EndScan
    <3> DEFINE v == [worker[w] EXCEPT !.pc = g]
    <3>2. /\ v \in WorkerState /\ v.run = worker[w].run /\ v.source = worker[w].source
          /\ v.pc # "closing"
      BY <2>0 DEF WorkerState
    <3> HIDE DEF v
    <3>3. /\ worker' = [worker EXCEPT ![w] = v]
          /\ UNCHANGED <<schedule, job, caller, cycle, faults>>
          /\ \E t \in {"scanning", "ended"} :
               run' = [run EXCEPT ![worker[w].run] = [run[worker[w].run] EXCEPT !.status = t]]
      BY <2>2, <3>1 DEF StartScan, EndScan, v
    <3>4. \A d \in Sources : Shown(d)' => Shown(d)
      BY <3>3 DEF Shown
    <3> QED
      BY <2>0, <3>2, <3>3, <3>4, KeptWorkerMoves
  <2>3. CASE CloseSchedule(w)
    <3> DEFINE v == [worker[w] EXCEPT !.pc = "closing"]
    <3>1. v \in WorkerState /\ v.run = worker[w].run /\ v.source = worker[w].source
      BY <2>0 DEF WorkerState
    <3>2. worker' = [worker EXCEPT ![w] = v] /\ UNCHANGED <<run, job, caller, cycle, faults>>
      BY <2>3 DEF CloseSchedule
    <3> HIDE DEF v
    <3>3. \A d \in Sources :
            /\ Shown(d)' => Shown(d)
            /\ d # worker[w].source \/ ~ run[worker[w].run].scheduled \/ ~ Shown(d)'
      BY <1>0, <2>3 DEF CloseSchedule, Shown, Settled
    <3> QED
      BY <2>0, <3>1, <3>2, <3>3, KeptWorkerMoves
  <2>4. CASE FinishJob(w)
    <3>1. JobsStop
      BY <2>4, FinishStops
    <3>2. /\ worker[w].pc = "closing" /\ worker' = [worker EXCEPT ![w] = Between]
          /\ run' = [run EXCEPT ![worker[w].run] = FreeRun]
          /\ UNCHANGED <<caller, schedule, cycle, faults>>
      BY <2>4 DEF FinishJob
    <3> QED
      BY <2>0, <3>1, <3>2, KeptJobsOver
  <2> QED
    BY <1>7, <2>1, <2>2, <2>3, <2>4 DEF ScanStep
<1>8. ASSUME NEW w \in Workers, NEW S \in SUBSET Runs, Reclaim(w, S) PROVE Fewer
  BY <1>8, KeptJobsOver, ReclaimStops, Shapes DEF Reclaim
<1>9. ASSUME CycleFails PROVE Another
  <2>1. /\ CallFails(Scheduler) /\ faults' = faults + 1
        /\ cycle'.skipped = {} /\ UNCHANGED <<schedule, worker>>
    BY <1>9 DEF CycleFails, NoCycle
  <2>2. ASSUME NEW d \in Sources, NEW r \in Runs, Serving(d, r), caller[Scheduler].source # d
        PROVE  Serving(d, r)'
    BY <1>0, <2>1, <2>2, KeptCallOver, Shapes DEF CallFails
  <2>3. CASE cycle.skipped = {}
    <3>1. \A d \in Sources \ {caller[Scheduler].source} : Kept(d)
      BY <2>1, <2>2, <2>3 DEF Kept, Shown
    <3> QED
      BY <2>1, <3>1
  <2>4. CASE cycle.skipped # {}
    <3>1. PICK x \in cycle.skipped : cycle.skipped = {x}
      BY <2>4 DEF CycleShape
    <3>2. caller[Scheduler] = NoCall
      BY <2>4 DEF CycleShape
    <3>3. \A d \in Sources : caller[Scheduler].source # d
      BY <3>2, NoSourceAssumption DEF NoCall, NewCall
    <3>4. \A d \in Sources \ {x} : Kept(d)
      BY <2>1, <2>2, <3>1, <3>3 DEF Kept, Shown
    <3> QED
      BY <2>1, <3>4
  <2> QED
    BY <2>3, <2>4
<1>10. ASSUME NEW q \in Requesters, RequestFails(q) PROVE Another
  <2>1. CallFails(q) /\ faults' = faults + 1 /\ UNCHANGED <<schedule, cycle, worker>>
    BY <1>10 DEF RequestFails
  <2>2. ASSUME NEW d \in Sources, NEW r \in Runs, Serving(d, r) PROVE Serving(d, r)'
    BY <1>0, <2>1, <2>2, KeptCallOver, Shapes DEF CallFails, Callers
  <2>3. \A d \in Sources \ {NoSource} : Kept(d)
    BY <2>1, <2>2 DEF Kept, Shown
  <2> QED
    BY <2>1, <2>3
<1>11. ASSUME NEW w \in Workers, WorkerFails(w) PROVE Another
  <2>1. \A d \in Sources \ {worker[w].source} : Kept(d)
    BY <1>11, KeptJobsOver, SameStops, Shapes DEF WorkerFails
  <2> QED
    BY <1>11, <2>1 DEF WorkerFails
<1>12. ASSUME UNCHANGED vars PROVE Fewer
  BY <1>12, KeptSame DEF vars, Shown
<1> HIDE DEF Fewer, Another
<1> QED
  BY <1>1, <1>2, <1>3, <1>4, <1>5, <1>6, <1>7, <1>8, <1>9, <1>10, <1>11, <1>12
     DEF Next, CycleStep

LEMMA MisledIsUnserved == Misled \subseteq Unserved
BY DEF Misled, Unserved, Shown, Serving, Waiting

\* A schedule that shows a scan as queued or running has one on its way, or is due
\* again: a failure costs one slot at most, whatever else the cycle had flushed.
THEOREM SlotsKept == Spec => []SlotNotLost
<1> DEFINE Inv == CycleShape /\ UnservedBounded
<1>1. Init => Inv
  <2> SUFFICES ASSUME Init PROVE Inv
    OBVIOUS
  <2>1. Unserved = {} /\ faults = 0
    BY DEF Init, Unserved, Shown, Settled
  <2>2. CycleShape
    <3>1. cycle = NoCycle(FALSE) /\ caller[Scheduler] = NoCall
      BY DEF Init, Callers
    <3> QED
      BY <3>1 DEF CycleShape, NoCycle
  <2> QED
    BY <2>1, <2>2, FS_EmptySet DEF UnservedBounded
<1>2. ScanInv /\ Inv /\ [Next]_vars => Inv'
  <2> SUFFICES ASSUME ScanInv, Inv, [Next]_vars PROVE Inv'
    OBVIOUS
  <2>1. faults \in Nat /\ faults' \in Nat
    BY TypeStep, FaultsAssumption DEF ScanInv, TypeOK
  <2>2. UnservedBounded'
    BY <2>1, UnservedStep, GrowsByOne DEF UnservedBounded
  <2> QED
    BY <2>2, CycleShapeStep
<1>3. ScanInv /\ Inv => SlotNotLost
  <2> SUFFICES ASSUME ScanInv, Inv PROVE SlotNotLost
    OBVIOUS
  <2>1. faults \in Nat
    BY FaultsAssumption DEF ScanInv, TypeOK
  <2> QED
    BY <2>1, GrowsByOne, MisledIsUnserved DEF UnservedBounded, SlotNotLost
<1> QED
  BY <1>1, <1>2, <1>3, Invariant, PTL DEF Spec

=============================================================================
