------------------------- MODULE ScanDispatchProofs -------------------------
(***************************************************************************)
(* Proofs about the dispatch of scans, for any number of sources, runs,    *)
(* requesters and workers.                                                 *)
(***************************************************************************)
EXTENDS ScanDispatch, WellFoundedInduction, TLAPS

-----------------------------------------------------------------------------
(* The queue.                                                              *)

Jobs == [Sources -> [Runs -> {"none", "queued", "running"}]]

\* One job comes into job, is claimed, or ends.
LEMMA JobSet ==
  ASSUME TypeOK, NEW d \in Sources, NEW r \in Runs, NEW s \in {"none", "queued", "running"},
         job' = [job EXCEPT ![d][r] = s]
  PROVE  /\ job' \in Jobs /\ job'[d][r] = s
         /\ \A e \in Sources, q \in Runs : e # d \/ q # r => job'[e][q] = job[e][q]
         /\ \A e \in Sources, q \in Runs :
              InFlight(e, q)' <=> IF e = d /\ q = r THEN s # "none" ELSE InFlight(e, q)
<1>1. job \in Jobs
  BY DEF TypeOK, Jobs
<1>2. job' = [job EXCEPT ![d] = [job[d] EXCEPT ![r] = s]]
  OBVIOUS
<1>3. job[d] \in [Runs -> {"none", "queued", "running"}]
  BY <1>1 DEF Jobs
<1>4. [job[d] EXCEPT ![r] = s] \in [Runs -> {"none", "queued", "running"}]
  BY <1>3
<1>5. job' \in Jobs
  BY <1>1, <1>2, <1>4 DEF Jobs
<1>6. job'[d][r] = s /\ \A e \in Sources, q \in Runs : e # d \/ q # r => job'[e][q] = job[e][q]
  BY <1>1, <1>2, <1>3 DEF Jobs
<1> QED
  BY <1>5, <1>6 DEF InFlight

\* Jobs that ran end.
JobsStop == /\ job' \in Jobs
            /\ \A d \in Sources, r \in Runs :
                 job'[d][r] = job[d][r] \/ (job'[d][r] = "none" /\ job[d][r] = "running")

LEMMA ReclaimStops == ASSUME TypeOK, NEW w, NEW S, Reclaim(w, S) PROVE JobsStop
<1>1. job \in Jobs
  BY DEF TypeOK, Jobs
<1>2. job' = [d \in Sources |-> [r \in Runs |->
                IF r \in S /\ job[d][r] = "running" THEN "none" ELSE job[d][r]]]
  BY DEF Reclaim, Turned
<1>3. \A d \in Sources, r \in Runs :
        job'[d][r] = IF r \in S /\ job[d][r] = "running" THEN "none" ELSE job[d][r]
  BY <1>2
<1>4. job' \in Jobs
  BY <1>1, <1>2 DEF Jobs
<1> QED
  BY <1>3, <1>4 DEF JobsStop

LEMMA SameStops == TypeOK /\ UNCHANGED job => JobsStop
BY DEF TypeOK, JobsStop, Jobs

-----------------------------------------------------------------------------
(* Types.                                                                  *)

\* Ids are handed out to nobody twice.
LEMMA FreshRun ==
  ASSUME ScanInv, Unused # {}
  PROVE  /\ NextRun \in Runs /\ run[NextRun].status \in {"free", "ended"}
         /\ \A d \in Sources : ~ InFlight(d, NextRun)
         /\ \A x \in Callers : caller[x].run # NextRun
         /\ \A w \in Workers : worker[w].run # NextRun
<1>1. NextRun \in Unused
  <2>1. Unused \subseteq Nat
    BY RunsAssumption DEF Unused
  <2>2. PICK r \in Unused : \A q \in Unused : ~ (<<q, r>> \in OpToRel(<, Nat))
    BY <2>1, NatLessThanWellFounded, WFMin, Zenon
  <2>3. \A q \in Unused : ~ (q < r)
    BY <2>1, <2>2 DEF OpToRel
  <2>4. \A q \in Unused : r <= q
    BY <2>1, <2>3
  <2> QED
    BY <2>4 DEF NextRun
<1> DEFINE r == NextRun
<1>2. r \in Runs /\ (run[r].status = "free" \/ Ended(r))
  BY <1>1 DEF Unused
<1>3. r # NoRun
  BY <1>2, RunsAssumption
<1> HIDE DEF r
<1>4. \A d \in Sources : ~ InFlight(d, r)
  BY <1>2 DEF ScanInv, RunIsThere, Ended
<1>5. \A x \in Callers : caller[x].run # r
  BY <1>2, <1>3 DEF ScanInv, HeldByCalls, HeldByCall, Ended, NoCall, NewCall
<1>6. \A w \in Workers : worker[w].run # r
  BY <1>2, <1>3 DEF ScanInv, HeldByWorkers, Ended, Between, At
<1> QED
  BY <1>2, <1>4, <1>5, <1>6 DEF r, Ended

LEMMA RestType == /\ Settled \in ScheduleState /\ FreeRun \in Run /\ NoCall \in Call
                  /\ Between \in WorkerState
BY DEF Settled, ScheduleState, FreeRun, Run, NoCall, NewCall, Call, Between, At, WorkerState

LEMMA CycleType ==
  /\ \A l \in BOOLEAN : NoCycle(l) \in CycleState
  /\ TypeOK /\ Begin => cycle' \in CycleState
<1>1. ASSUME NEW b \in BOOLEAN, NEW l \in BOOLEAN, NEW S \in SUBSET Sources
      PROVE  [on |-> b, todo |-> S, skipped |-> {}, locked |-> l] \in CycleState
  <2>1. {} \in SUBSET Sources
    OBVIOUS
  <2> QED
    BY <2>1 DEF CycleState
<1>2. {} \in SUBSET Sources /\ {d \in Sources : schedule[d].due} \in SUBSET Sources
  OBVIOUS
<1>3. \A l \in BOOLEAN : NoCycle(l) \in CycleState
  BY <1>1, <1>2 DEF NoCycle
<1>4. Begin => cycle' \in CycleState
  BY <1>1, <1>2 DEF Begin
<1> QED
  BY <1>3, <1>4

LEMMA CallType ==
  ASSUME NEW d \in Sources, NEW r \in Runs
  PROVE  /\ NewCall(d, r) \in Call
         /\ NewCall(d, r).source = d /\ NewCall(d, r).run = r /\ NewCall(d, r).stage = "look"
BY DEF NewCall, Call

LEMMA TypeInit == Init => TypeOK
<1> SUFFICES ASSUME Init PROVE TypeOK
  OBVIOUS
<1>1. job \in [Sources -> [Runs -> {"none", "queued", "running"}]]
  BY DEF Init
<1> QED
  <2>1. cycle \in CycleState
    <3>1. FALSE \in BOOLEAN /\ cycle = NoCycle(FALSE)
      BY DEF Init
    <3> QED
      BY <3>1, CycleType, Zenon
  <2>2. faults \in 0 .. MaxFaults
    BY FaultsAssumption DEF Init
  <2> QED
    BY <1>1, <2>1, <2>2, RestType DEF Init, TypeOK

LEMMA CommittedType == TypeOK => Committed \in [Sources -> ScheduleState]
BY RestType DEF TypeOK, Committed

LEMMA TypeStep == ScanInv /\ [Next]_vars => TypeOK'
<1> SUFFICES ASSUME ScanInv, [Next]_vars PROVE TypeOK'
  OBVIOUS
<1> DEFINE Kinds(s, r, f, c, a, w, n) ==
             /\ s \in [Sources -> ScheduleState] /\ r \in [Runs -> Run]
             /\ f \in Jobs /\ c \in CycleState
             /\ a \in [Callers -> Call] /\ w \in [Workers -> WorkerState]
             /\ n \in 0 .. MaxFaults
<1>0. /\ TypeOK /\ HeldByCalls /\ HeldByWorkers /\ Committed \in [Sources -> ScheduleState]
      /\ Kinds(schedule, run, job, cycle, caller, worker, faults)
  BY CommittedType DEF ScanInv, TypeOK, Jobs
<1>t. SUFFICES Kinds(schedule', run', job', cycle', caller', worker', faults')
  BY DEF TypeOK, Jobs
<1>1. ASSUME NEW d \in Sources, Tick(d) \/ Reschedule(d)
      PROVE  Kinds(schedule', run', job', cycle', caller', worker', faults')
  <2>1. PICK b \in BOOLEAN : schedule' = [schedule EXCEPT ![d] = [schedule[d] EXCEPT !.due = b]]
    BY <1>1 DEF Tick, Reschedule
  <2>2. [schedule[d] EXCEPT !.due = b] \in ScheduleState
    BY <1>0 DEF ScheduleState
  <2> QED
    BY <1>0, <1>1, <2>1, <2>2 DEF Tick, Reschedule
<1>2. ASSUME StartCycle \/ EndCycle \/ StartOnHolder \/ Recycle
      PROVE  Kinds(schedule', run', job', cycle', caller', worker', faults')
  <2>1. CASE StartCycle \/ StartOnHolder
    BY <1>0, <2>1, CycleType DEF StartCycle, StartOnHolder
  <2>2. CASE EndCycle
    <3>1. cycle' \in CycleState
      BY <1>0, <2>2, CycleType DEF EndCycle, CycleState
    <3> QED
      BY <1>0, <2>2, <3>1 DEF EndCycle
  <2>3. CASE Recycle
    <3>1. cycle' \in CycleState
      BY <1>0, <2>3 DEF Recycle, CycleState
    <3> QED
      BY <1>0, <2>3, <3>1 DEF Recycle
  <2> QED
    BY <1>2, <2>1, <2>2, <2>3
<1>3. ASSUME NEW d \in Sources, DispatchDue(d)
      PROVE  Kinds(schedule', run', job', cycle', caller', worker', faults')
  <2>1. NextRun \in Runs /\ Scheduler \in Callers
    BY <1>3, FreshRun DEF DispatchDue, Callers
  <2>2. schedule' \in [Sources -> ScheduleState]
    <3>1. schedule' = [Committed EXCEPT ![d] = [Committed[d] EXCEPT !.status = "queued"]]
      BY <1>3 DEF DispatchDue
    <3>2. [Committed[d] EXCEPT !.status = "queued"] \in ScheduleState
      BY <1>0 DEF ScheduleState
    <3> QED
      BY <1>0, <3>1, <3>2
  <2>3. run' \in [Runs -> Run]
    <3>1. [status |-> "queued", scheduled |-> TRUE] \in Run
      BY DEF Run
    <3> QED
      BY <1>0, <1>3, <2>1, <3>1 DEF DispatchDue
  <2>4. caller' \in [Callers -> Call]
    BY <1>0, <1>3, <2>1, CallType DEF DispatchDue
  <2>5. cycle' \in CycleState
    BY <1>0, <1>3 DEF DispatchDue, CycleState
  <2> QED
    BY <1>0, <1>3, <2>2, <2>3, <2>4, <2>5 DEF DispatchDue
<1>4. ASSUME NEW q \in Requesters, NEW d \in Sources, Request(q, d)
      PROVE  Kinds(schedule', run', job', cycle', caller', worker', faults')
  <2>1. NextRun \in Runs /\ q \in Callers
    BY <1>4, FreshRun DEF Request, Callers
  <2>2. /\ [status |-> "queued", scheduled |-> FALSE] \in Run
        /\ NewCall(d, NextRun) \in Call
    BY <2>1, CallType DEF Run
  <2>3. run' \in [Runs -> Run] /\ caller' \in [Callers -> Call]
    BY <1>0, <1>4, <2>1, <2>2 DEF Request
  <2> QED
    BY <1>0, <1>4, <2>3 DEF Request
<1>5. ASSUME NEW x \in Callers, CallStep(x)
      PROVE  Kinds(schedule', run', job', cycle', caller', worker', faults')
  <2>1. caller[x].source \in Sources /\ caller[x].run \in Runs /\ caller[x] \in Call
    BY <1>0, <1>5 DEF CallStep, Look, Insert, Conflict, HeldByCalls, HeldByCall, NoCall, NewCall
  <2>2. CASE Look(x)
    <3>1. caller' = [caller EXCEPT ![x] = [caller[x] EXCEPT !.stage = "insert"]]
      BY <2>2 DEF Look
    <3>2. [caller[x] EXCEPT !.stage = "insert"] \in Call
      BY <2>1 DEF Call
    <3> QED
      BY <1>0, <2>2, <3>1, <3>2 DEF Look
  <2>3. ASSUME NEW S \in SUBSET Sources, Return(x, S)
        PROVE  cycle' \in CycleState /\ caller' \in [Callers -> Call]
    BY <1>0, <2>3, RestType DEF Return, CycleState
  <2>4. CASE Insert(x)
    <3>1. job' \in Jobs
      BY <1>0, <2>1, <2>4, JobSet DEF Insert
    <3> QED
      BY <1>0, <2>3, <2>4, <3>1 DEF Insert
  <2>5. CASE Conflict(x)
    BY <1>0, <2>1, <2>3, <2>5, RestType DEF Conflict
  <2> QED
    BY <1>5, <2>2, <2>4, <2>5 DEF CallStep
<1>6. ASSUME NEW w \in Workers, NEW d \in Sources, NEW r \in Runs, Claim(w, d, r)
      PROVE  Kinds(schedule', run', job', cycle', caller', worker', faults')
  <2>1. job' \in Jobs
    BY <1>0, <1>6, JobSet DEF Claim
  <2>2. At("claimed", d, r) \in WorkerState
    BY DEF At, WorkerState
  <2> QED
    BY <1>0, <1>6, <2>1, <2>2 DEF Claim
<1>7. ASSUME NEW w \in Workers, ScanStep(w)
      PROVE  Kinds(schedule', run', job', cycle', caller', worker', faults')
  <2>1. worker[w].source \in Sources /\ worker[w].run \in Runs /\ worker[w] \in WorkerState
    BY <1>0, <1>7 DEF ScanStep, Dispatched, StartScan, EndScan, CloseSchedule, FinishJob,
                      HeldByWorkers
  <2>2. CASE Dispatched(w)
    <3>1. schedule' \in [Sources -> ScheduleState]
      <4>1. [schedule[worker[w].source] EXCEPT !.status = "running"] \in ScheduleState
        BY <1>0, <2>1 DEF ScheduleState
      <4>2. \/ schedule' = schedule
            \/ schedule' = [schedule EXCEPT ![worker[w].source] =
                              [schedule[worker[w].source] EXCEPT !.status = "running"]]
        BY <2>2 DEF Dispatched
      <4> QED
        BY <1>0, <4>1, <4>2
    <3>2. PICK g \in {"closing", "started"} :
            worker' = [worker EXCEPT ![w] = At(g, worker[w].source, worker[w].run)]
      BY <2>2 DEF Dispatched
    <3>3. At(g, worker[w].source, worker[w].run) \in WorkerState
      BY <2>1 DEF At, WorkerState
    <3> QED
      BY <1>0, <2>2, <3>1, <3>2, <3>3 DEF Dispatched
  <2>3. CASE StartScan(w) \/ EndScan(w)
    <3>1. PICK t \in {"scanning", "ended"}, g \in {"scanning", "scanned"} :
            /\ run' = [run EXCEPT ![worker[w].run] = [run[worker[w].run] EXCEPT !.status = t]]
            /\ worker' = [worker EXCEPT ![w] = [worker[w] EXCEPT !.pc = g]]
      BY <2>3 DEF StartScan, EndScan
    <3>2. /\ [run[worker[w].run] EXCEPT !.status = t] \in Run
          /\ [worker[w] EXCEPT !.pc = g] \in WorkerState
      BY <1>0, <2>1 DEF Run, WorkerState
    <3> QED
      BY <1>0, <2>1, <2>3, <3>1, <3>2 DEF StartScan, EndScan
  <2>4. CASE CloseSchedule(w)
    <3>1. /\ schedule' = schedule \/ schedule' = [schedule EXCEPT ![worker[w].source] = Settled]
          /\ worker' = [worker EXCEPT ![w] = [worker[w] EXCEPT !.pc = "closing"]]
      BY <2>4 DEF CloseSchedule
    <3>2. [worker[w] EXCEPT !.pc = "closing"] \in WorkerState
      BY <2>1 DEF WorkerState
    <3> QED
      BY <1>0, <2>4, <3>1, <3>2, RestType DEF CloseSchedule
  <2>5. CASE FinishJob(w)
    <3>1. job' \in Jobs
      BY <1>0, <2>1, <2>5, JobSet DEF FinishJob
    <3> QED
      BY <1>0, <2>1, <2>5, <3>1, RestType DEF FinishJob
  <2> QED
    BY <1>7, <2>2, <2>3, <2>4, <2>5 DEF ScanStep
<1>8. ASSUME NEW w \in Workers, NEW S \in SUBSET Runs, Reclaim(w, S)
      PROVE  Kinds(schedule', run', job', cycle', caller', worker', faults')
  <2>1. job' \in Jobs
    BY <1>0, <1>8, ReclaimStops DEF JobsStop
  <2> QED
    BY <1>0, <1>8, <2>1 DEF Reclaim
<1>9. ASSUME NEW x \in Callers, (CycleFails /\ x = Scheduler) \/ RequestFails(x)
      PROVE  Kinds(schedule', run', job', cycle', caller', worker', faults')
  <2>1. CallFails(x)
    BY <1>9 DEF CycleFails, RequestFails
  <2>2. caller' \in [Callers -> Call]
    BY <1>0, <2>1, RestType DEF CallFails
  <2>3. job' \in Jobs /\ run' \in [Runs -> Run]
    <3>1. CASE UNCHANGED <<run, job>>
      BY <1>0, <3>1
    <3>2. CASE run' = [run EXCEPT ![caller[x].run] = FreeRun] /\ UNCHANGED job
      BY <1>0, <3>2, RestType
    <3>3. CASE /\ caller[x].stage = "insert" /\ UNCHANGED run
               /\ job' = [job EXCEPT ![caller[x].source][caller[x].run] = "queued"]
      <4>1. caller[x].source \in Sources /\ caller[x].run \in Runs
        BY <1>0, <3>3 DEF HeldByCalls, HeldByCall, NoCall, NewCall
      <4> QED
        BY <1>0, <3>3, <4>1, JobSet
    <3> QED
      BY <2>1, <3>1, <3>2, <3>3 DEF CallFails
  <2>4. cycle' \in CycleState
    BY <1>0, <1>9, CycleType DEF CycleFails, RequestFails, CycleState
  <2>5. faults' \in 0 .. MaxFaults
    <3>1. faults' = faults + 1 /\ faults < MaxFaults
      BY <1>9 DEF CycleFails, RequestFails
    <3> QED
      BY <1>0, <3>1, FaultsAssumption
  <2> QED
    BY <1>0, <1>9, <2>2, <2>3, <2>4, <2>5 DEF CycleFails, RequestFails
<1>10. ASSUME NEW w \in Workers, WorkerFails(w)
       PROVE  Kinds(schedule', run', job', cycle', caller', worker', faults')
  BY <1>0, <1>10, RestType, FaultsAssumption DEF WorkerFails
<1>11. CASE UNCHANGED vars
  BY <1>0, <1>11 DEF vars
<1> QED
  BY <1>1, <1>2, <1>3, <1>4, <1>5, <1>6, <1>7, <1>8, <1>9, <1>10, <1>11
     DEF Next, CycleStep, Callers

-----------------------------------------------------------------------------
(* Who holds a run.                                                        *)

Held == RunIsThere /\ HeldByCalls /\ HeldByWorkers /\ HeldOnce

LEMMA Shapes ==
  ASSUME ScanInv
  PROVE  /\ run \in [Runs -> Run] /\ caller \in [Callers -> Call]
         /\ worker \in [Workers -> WorkerState] /\ job \in Jobs
         /\ Held /\ TypeOK
         /\ NoCall.run \notin Runs /\ Between.run \notin Runs /\ Between.pc = "idle"
         /\ FreeRun.status = "free"
         /\ \A x : caller[x].stage = "insert" => caller[x] # NoCall
BY RunsAssumption DEF ScanInv, TypeOK, Jobs, Held, NoCall, NewCall, Between, At, FreeRun

LEMMA HeldSame == ScanInv /\ UNCHANGED <<run, job, caller, worker>> => Held'
BY DEF ScanInv, Held, RunIsThere, HeldByCalls, HeldByCall, HeldByWorkers, HeldOnce, InFlight

\* A call gets a run that nobody holds.
LEMMA CallBegins ==
  ASSUME ScanInv, NEW x \in Callers, NEW d \in Sources, NEW b \in BOOLEAN, Unused # {},
         run' = [run EXCEPT ![NextRun] = [status |-> "queued", scheduled |-> b]],
         caller' = [caller EXCEPT ![x] = NewCall(d, NextRun)],
         UNCHANGED <<job, worker>>
  PROVE  Held'
<1> DEFINE n == NextRun
<1>1. /\ n \in Runs /\ \A e \in Sources : ~ InFlight(e, n)
      /\ \A y \in Callers : caller[y].run # n
      /\ \A w \in Workers : worker[w].run # n
  BY FreshRun
<1>2. /\ run'[n].status = "queued" /\ \A r \in Runs \ {n} : run'[r] = run[r]
      /\ caller'[x].source = d /\ caller'[x].run = n
      /\ \A y \in Callers \ {x} : caller'[y] = caller[y]
  BY <1>1, CallType, Shapes
<1> HIDE DEF n
<1>3. \A e \in Sources, r \in Runs : InFlight(e, r)' <=> InFlight(e, r)
  BY DEF InFlight
<1>4. RunIsThere'
  BY <1>1, <1>2, <1>3 DEF ScanInv, RunIsThere
<1>5. HeldByCalls'
  <2> SUFFICES ASSUME NEW y \in Callers, caller'[y] # NoCall PROVE HeldByCall(y)'
    BY DEF HeldByCalls, HeldByCall
  <2>1. CASE y = x
    BY <1>1, <1>2, <1>3, <2>1 DEF HeldByCall
  <2>2. CASE y # x
    BY <1>1, <1>2, <1>3, <2>2 DEF ScanInv, HeldByCalls, HeldByCall
  <2> QED
    BY <2>1, <2>2
<1>6. HeldByWorkers'
  BY <1>1, <1>2, <1>3 DEF ScanInv, HeldByWorkers
<1>7. HeldOnce'
  BY <1>3 DEF ScanInv, HeldOnce
<1> QED
  BY <1>4, <1>5, <1>6, <1>7 DEF Held

\* A call that has looked for active jobs holds its run as before.
LEMMA LookHolds == ASSUME ScanInv, NEW x \in Callers, Look(x) PROVE Held'
<1>1. /\ \A y \in Callers : caller'[y].source = caller[y].source /\ caller'[y].run = caller[y].run
      /\ \A y \in Callers : caller'[y] # NoCall => caller[y] # NoCall
      /\ UNCHANGED <<run, job, worker>>
  BY Shapes DEF Look, Call
<1>2. \A e \in Sources, r \in Runs : InFlight(e, r)' <=> InFlight(e, r)
  BY <1>1 DEF InFlight
<1>3. RunIsThere' /\ HeldOnce' /\ HeldByWorkers'
  BY <1>1 DEF ScanInv, RunIsThere, HeldOnce, HeldByWorkers, InFlight
<1>4. HeldByCalls'
  BY <1>1, <1>2 DEF ScanInv, HeldByCalls, HeldByCall
<1> QED
  BY <1>3, <1>4 DEF Held

\* A call is over: it gives up its run, enqueues it, or deletes it.
LEMMA CallOver ==
  ASSUME ScanInv, NEW x \in Callers, caller' = [caller EXCEPT ![x] = NoCall], UNCHANGED worker,
         \/ UNCHANGED <<run, job>>
         \/ /\ caller[x] # NoCall /\ job' = [job EXCEPT ![caller[x].source][caller[x].run] = "queued"]
            /\ UNCHANGED run
         \/ /\ caller[x] # NoCall /\ run' = [run EXCEPT ![caller[x].run] = FreeRun]
            /\ UNCHANGED job
  PROVE  Held'
<1> DEFINE n == caller[x].run
           d == caller[x].source
<1>1. /\ caller'[x] = NoCall /\ \A y \in Callers \ {x} : caller'[y] = caller[y]
      /\ \A y \in Callers : caller'[y] # NoCall => y # x
  BY Shapes
<1>2. caller[x] # NoCall =>
        /\ n \in Runs /\ d \in Sources /\ run[n].status = "queued"
        /\ \A e \in Sources : ~ InFlight(e, n)
        /\ \A w \in Workers : worker[w].run # n
        /\ \A y \in Callers : caller[y].run = n => y = x
  BY DEF ScanInv, HeldByCalls, HeldByCall
<1>3. NoCall.run \notin Runs
  BY Shapes
<1> HIDE DEF n, d
<1>4. CASE UNCHANGED <<run, job>>
  <2>1. \A e \in Sources, r \in Runs : InFlight(e, r)' <=> InFlight(e, r)
    BY <1>4 DEF InFlight
  <2>2. RunIsThere' /\ HeldOnce' /\ HeldByWorkers'
    BY <1>4 DEF ScanInv, RunIsThere, HeldOnce, HeldByWorkers, InFlight
  <2>3. HeldByCalls'
    BY <1>1, <1>3, <1>4, <2>1 DEF ScanInv, HeldByCalls, HeldByCall
  <2> QED
    BY <2>2, <2>3 DEF Held
<1>5. CASE caller[x] # NoCall /\ job' = [job EXCEPT ![d][n] = "queued"] /\ UNCHANGED run
  <2>1. /\ \A e \in Sources, q \in Runs : InFlight(e, q)' <=> InFlight(e, q) \/ (e = d /\ q = n)
        /\ \A e \in Sources, q \in Runs : e # d \/ q # n => job'[e][q] = job[e][q]
        /\ job'[d][n] = "queued"
    BY <1>2, <1>5, JobSet, Shapes
  <2>2. RunIsThere'
    <3> SUFFICES ASSUME NEW e \in Sources, NEW r \in Runs, InFlight(e, r)'
                 PROVE  run'[r].status # "free" /\ (job'[e][r] = "queued" => run'[r].status = "queued")
      BY DEF RunIsThere
    <3>1. CASE e = d /\ r = n
      BY <1>2, <1>5, <3>1
    <3>2. CASE ~ (e = d /\ r = n)
      BY <1>5, <2>1, <3>2 DEF ScanInv, RunIsThere
    <3> QED
      BY <3>1, <3>2
  <2>3. HeldByCalls'
    <3> SUFFICES ASSUME NEW y \in Callers, caller'[y] # NoCall PROVE HeldByCall(y)'
      BY DEF HeldByCalls, HeldByCall
    <3>1. y # x /\ caller'[y] = caller[y] /\ caller[y].run # n
      BY <1>1, <1>2, <1>5
    <3> QED
      BY <1>1, <1>3, <1>5, <2>1, <3>1 DEF ScanInv, HeldByCalls, HeldByCall
  <2>4. HeldByWorkers'
    <3>1. \A w \in Workers, e \in Sources :
            worker[w].run \in Runs =>
              /\ InFlight(e, worker[w].run)' => InFlight(e, worker[w].run)
              /\ job'[e][worker[w].run] = job[e][worker[w].run]
      BY <1>2, <1>5, <2>1
    <3> QED
      BY <1>5, <3>1 DEF ScanInv, HeldByWorkers
  <2>5. HeldOnce'
    BY <1>2, <1>5, <2>1 DEF ScanInv, HeldOnce
  <2> QED
    BY <2>2, <2>3, <2>4, <2>5 DEF Held
<1>6. CASE caller[x] # NoCall /\ run' = [run EXCEPT ![n] = FreeRun] /\ UNCHANGED job
  <2>1. \A r \in Runs \ {n} : run'[r] = run[r]
    BY <1>6, Shapes
  <2>2. \A e \in Sources, r \in Runs : InFlight(e, r)' <=> InFlight(e, r)
    BY <1>6 DEF InFlight
  <2>3. RunIsThere'
    BY <1>2, <1>6, <2>1, <2>2 DEF ScanInv, RunIsThere
  <2>4. HeldByCalls'
    <3> SUFFICES ASSUME NEW y \in Callers, caller'[y] # NoCall PROVE HeldByCall(y)'
      BY DEF HeldByCalls, HeldByCall
    <3>1. y # x /\ caller'[y] = caller[y] /\ caller[y].run # n
      BY <1>1, <1>2, <1>6
    <3> QED
      BY <1>1, <1>3, <1>6, <2>1, <2>2, <3>1 DEF ScanInv, HeldByCalls, HeldByCall
  <2>5. HeldByWorkers'
    BY <1>2, <1>6, <2>1, <2>2 DEF ScanInv, HeldByWorkers
  <2>6. HeldOnce'
    BY <2>2 DEF ScanInv, HeldOnce
  <2> QED
    BY <2>3, <2>4, <2>5, <2>6 DEF Held
<1> QED
  BY <1>4, <1>5, <1>6 DEF n, d

\* A worker goes on with its run, of which it writes no status but its own.
LEMMA WorkerMoves ==
  ASSUME ScanInv, NEW w \in Workers, worker[w].pc # "idle", NEW v \in WorkerState,
         v.pc # "idle", v.source = worker[w].source, v.run = worker[w].run,
         worker' = [worker EXCEPT ![w] = v], UNCHANGED <<job, caller>>,
         \/ UNCHANGED run
         \/ \E t \in {"scanning", "ended"} :
              run' = [run EXCEPT ![worker[w].run] = [run[worker[w].run] EXCEPT !.status = t]]
  PROVE  Held'
<1> DEFINE n == worker[w].run
<1>1. /\ worker'[w] = v /\ \A u \in Workers \ {w} : worker'[u] = worker[u]
      /\ \A u \in Workers : worker'[u].source = worker[u].source /\ worker'[u].run = worker[u].run
  BY Shapes
<1>2. /\ n \in Runs /\ worker[w].source \in Sources /\ run[n].status # "free"
      /\ \A u \in Workers : worker[u].run = n => u = w
      /\ \A d \in Sources : InFlight(d, n) => job[d][n] = "running"
  BY DEF ScanInv, HeldByWorkers
<1>3. \A d \in Sources, r \in Runs : InFlight(d, r)' <=> InFlight(d, r)
  BY DEF InFlight
<1>4. /\ \A r \in Runs \ {n} : run'[r] = run[r]
      /\ run'[n].status # "free"
  BY <1>2, Shapes DEF Run
<1> HIDE DEF n
<1>5. RunIsThere'
  <2> SUFFICES ASSUME NEW d \in Sources, NEW r \in Runs, InFlight(d, r)'
               PROVE  run'[r].status # "free" /\ (job'[d][r] = "queued" => run'[r].status = "queued")
    BY DEF RunIsThere
  <2>1. CASE r = n
    BY <1>2, <1>3, <1>4, <2>1
  <2>2. CASE r # n
    BY <1>3, <1>4, <2>2 DEF ScanInv, RunIsThere
  <2> QED
    BY <2>1, <2>2
<1>6. HeldByCalls'
  <2> SUFFICES ASSUME NEW y \in Callers, caller'[y] # NoCall PROVE HeldByCall(y)'
    BY DEF HeldByCalls, HeldByCall
  <2>1. HeldByCall(y) /\ caller[y].run # n
    BY <1>2 DEF ScanInv, HeldByCalls, HeldByCall, n
  <2> QED
    BY <1>1, <1>3, <1>4, <2>1 DEF HeldByCall
<1>7. HeldByWorkers'
  <2>1. \A u \in Workers : worker'[u].pc = "idle" <=> worker'[u] = Between
    BY <1>1, Shapes DEF ScanInv, HeldByWorkers
  <2>2. ASSUME NEW u \in Workers, worker'[u].pc # "idle"
        PROVE  /\ worker[u].pc # "idle" /\ run'[worker[u].run].status # "free"
               /\ \A d \in Sources : InFlight(d, worker[u].run)' =>
                    d = worker[u].source /\ job'[d][worker[u].run] = "running"
    <3>1. worker[u].pc # "idle"
      BY <1>1, <2>2
    <3>2. worker[u].run \in Runs
      BY <3>1 DEF ScanInv, HeldByWorkers
    <3> QED
      BY <1>3, <1>4, <3>1, <3>2 DEF ScanInv, HeldByWorkers
  <2> QED
    BY <1>1, <2>1, <2>2 DEF ScanInv, HeldByWorkers
<1>8. HeldOnce'
  BY <1>3 DEF ScanInv, HeldOnce
<1> QED
  BY <1>5, <1>6, <1>7, <1>8 DEF Held

\* Jobs end, and a worker may give up its run or delete it.
LEMMA JobsOver ==
  ASSUME ScanInv, UNCHANGED caller,
         JobsStop,
         \/ UNCHANGED <<run, worker>>
         \/ \E w \in Workers, n \in Runs :
              /\ worker[w].pc # "idle" /\ worker[w].run = n
              /\ worker' = [worker EXCEPT ![w] = Between]
              /\ \/ UNCHANGED run
                 \/ /\ run' = [run EXCEPT ![n] = FreeRun]
                    /\ \A d \in Sources : ~ InFlight(d, n)'
  PROVE  Held'
<1>1. \A d \in Sources, r \in Runs : InFlight(d, r)' => InFlight(d, r) /\ job'[d][r] = job[d][r]
  BY DEF JobsStop, InFlight
<1>2. HeldOnce'
  BY <1>1 DEF ScanInv, HeldOnce
<1>3. CASE UNCHANGED <<run, worker>>
  <2>1. RunIsThere'
    BY <1>1, <1>3 DEF ScanInv, RunIsThere
  <2>2. HeldByCalls'
    BY <1>1, <1>3 DEF ScanInv, HeldByCalls, HeldByCall
  <2>3. HeldByWorkers'
    BY <1>1, <1>3 DEF ScanInv, HeldByWorkers
  <2> QED
    BY <1>2, <2>1, <2>2, <2>3 DEF Held
<1>4. ASSUME NEW w \in Workers, NEW n \in Runs, worker[w].pc # "idle", worker[w].run = n,
             worker' = [worker EXCEPT ![w] = Between],
             \/ UNCHANGED run
             \/ /\ run' = [run EXCEPT ![n] = FreeRun]
                /\ \A d \in Sources : ~ InFlight(d, n)'
      PROVE  Held'
  <2>1. /\ worker'[w] = Between /\ \A u \in Workers \ {w} : worker'[u] = worker[u]
        /\ Between.run \notin Runs /\ Between.pc = "idle"
    BY <1>4, Shapes
  <2>2. \A u \in Workers : worker[u].run = n => u = w
    BY <1>4 DEF ScanInv, HeldByWorkers
  <2>3. \A r \in Runs \ {n} : run'[r] = run[r]
    BY <1>4, Shapes
  <2>4. \A d \in Sources, r \in Runs : InFlight(d, r)' => run'[r] = run[r]
    BY <1>4, <2>3
  <2>5. RunIsThere'
    BY <1>1, <2>4 DEF ScanInv, RunIsThere
  <2>6. HeldByCalls'
    <3> SUFFICES ASSUME NEW y \in Callers, caller'[y] # NoCall PROVE HeldByCall(y)'
      BY DEF HeldByCalls, HeldByCall
    <3>1. HeldByCall(y) /\ caller[y].run # n
      BY <1>4 DEF ScanInv, HeldByCalls, HeldByCall
    <3> QED
      BY <1>1, <2>1, <2>3, <3>1 DEF HeldByCall
  <2>7. HeldByWorkers'
    <3>1. \A u \in Workers : worker'[u].pc = "idle" <=> worker'[u] = Between
      BY <2>1 DEF ScanInv, HeldByWorkers
    <3>2. \A u \in Workers : worker'[u].pc # "idle" =>
            u # w /\ worker'[u] = worker[u] /\ worker[u].run # n
      BY <2>1, <2>2
    <3> QED
      BY <1>1, <2>1, <2>3, <3>1, <3>2 DEF ScanInv, HeldByWorkers
  <2> QED
    BY <1>2, <2>5, <2>6, <2>7 DEF Held
<1> QED
  BY <1>3, <1>4

\* A worker claims a job: its run is nobody's.
LEMMA WorkerClaims ==
  ASSUME ScanInv, NEW w \in Workers, NEW d \in Sources, NEW r \in Runs, Claim(w, d, r)
  PROVE  Held'
<1>1. /\ \A e \in Sources, q \in Runs : InFlight(e, q)' <=> InFlight(e, q)
      /\ \A e \in Sources, q \in Runs : e # d \/ q # r => job'[e][q] = job[e][q]
      /\ job'[d][r] = "running" /\ job[d][r] = "queued" /\ InFlight(d, r)
  <2>1. job[d][r] = "queued" /\ InFlight(d, r)
    BY DEF Claim, InFlight
  <2> QED
    BY <2>1, JobSet, Shapes DEF Claim
<1>2. /\ worker'[w] = At("claimed", d, r) /\ \A u \in Workers \ {w} : worker'[u] = worker[u]
      /\ UNCHANGED <<run, caller>>
  BY Shapes DEF Claim
<1>3. InFlight(d, r) /\ \A u \in Workers : worker[u].run # r
  <2>1. InFlight(d, r)
    BY <1>1
  <2>2. ASSUME NEW u \in Workers, worker[u].run = r PROVE FALSE
    <3>1. worker[u].pc # "idle"
      BY <2>2, Shapes DEF ScanInv, HeldByWorkers
    <3> QED
      BY <1>1, <2>1, <2>2, <3>1 DEF ScanInv, HeldByWorkers
  <2> QED
    BY <2>1, <2>2
<1>4. RunIsThere'
  <2> SUFFICES ASSUME NEW e \in Sources, NEW q \in Runs, InFlight(e, q)'
               PROVE  run[q].status # "free" /\ (job'[e][q] = "queued" => run[q].status = "queued")
    BY <1>2 DEF RunIsThere
  <2>1. CASE e = d /\ q = r
    BY <1>1, <2>1 DEF ScanInv, RunIsThere
  <2>2. CASE e # d \/ q # r
    BY <1>1, <2>2 DEF ScanInv, RunIsThere
  <2> QED
    BY <2>1, <2>2
<1>5. HeldByCalls'
  <2> SUFFICES ASSUME NEW y \in Callers, caller'[y] # NoCall PROVE HeldByCall(y)'
    BY DEF HeldByCalls, HeldByCall
  <2>1. HeldByCall(y) /\ caller[y].run # r
    BY <1>2, <1>3 DEF ScanInv, HeldByCalls, HeldByCall
  <2>2. At("claimed", d, r).run = r
    BY DEF At
  <2> QED
    BY <1>1, <1>2, <2>1, <2>2 DEF HeldByCall
<1>6. HeldByWorkers'
  <2>1. /\ At("claimed", d, r).pc = "claimed" /\ At("claimed", d, r).source = d
        /\ At("claimed", d, r).run = r
    BY DEF At
  <2>2. \A u \in Workers : worker'[u].pc = "idle" <=> worker'[u] = Between
    BY <1>2, <2>1, Shapes DEF ScanInv, HeldByWorkers
  <2>3. /\ run[r].status # "free"
        /\ \A e \in Sources : InFlight(e, r)' => e = d
    BY <1>1, <1>3 DEF ScanInv, RunIsThere, HeldOnce
  <2>4. ASSUME NEW u \in Workers \ {w}, worker[u].pc # "idle", NEW e \in Sources,
               InFlight(e, worker[u].run)'
        PROVE  e = worker[u].source /\ job'[e][worker[u].run] = "running"
    <3>1. worker[u].run \in Runs /\ worker[u].run # r
      BY <1>3, <2>4 DEF ScanInv, HeldByWorkers
    <3>2. InFlight(e, worker[u].run)
      BY <1>1, <1>2, <2>4, <3>1
    <3> QED
      BY <1>1, <2>4, <3>1, <3>2 DEF ScanInv, HeldByWorkers
  <2> QED
    BY <1>1, <1>2, <1>3, <2>1, <2>2, <2>3, <2>4 DEF ScanInv, HeldByWorkers
<1>7. HeldOnce'
  BY <1>1 DEF ScanInv, HeldOnce
<1> QED
  BY <1>4, <1>5, <1>6, <1>7 DEF Held

LEMMA HeldStep == ScanInv /\ [Next]_vars => Held'
<1> SUFFICES ASSUME ScanInv, [Next]_vars PROVE Held'
  OBVIOUS
<1>1. ASSUME NEW d \in Sources, Tick(d) \/ Reschedule(d) PROVE Held'
  BY <1>1, HeldSame DEF Tick, Reschedule
<1>2. CASE StartCycle \/ EndCycle \/ StartOnHolder \/ Recycle
  BY <1>2, HeldSame DEF StartCycle, EndCycle, StartOnHolder, Recycle
<1>3. ASSUME NEW d \in Sources, DispatchDue(d) PROVE Held'
  BY <1>3, CallBegins DEF DispatchDue, Callers
<1>4. ASSUME NEW q \in Requesters, NEW d \in Sources, Request(q, d) PROVE Held'
  BY <1>4, CallBegins DEF Request, Callers
<1>5. ASSUME NEW x \in Callers, CallStep(x) PROVE Held'
  <2>1. CASE Look(x)
    BY <2>1, LookHolds
  <2>2. CASE Insert(x) \/ Conflict(x)
    <3>1. caller[x] # NoCall
      BY <2>2, Shapes DEF Insert, Conflict
    <3> QED
      BY <2>2, <3>1, CallOver DEF Insert, Conflict, Return
  <2> QED
    BY <1>5, <2>1, <2>2 DEF CallStep
<1>6. ASSUME NEW w \in Workers, NEW d \in Sources, NEW r \in Runs, Claim(w, d, r) PROVE Held'
  BY <1>6, WorkerClaims
<1>7. ASSUME NEW w \in Workers, ScanStep(w) PROVE Held'
  <2>0. worker[w] \in WorkerState /\ worker[w].pc # "idle"
    BY <1>7, Shapes DEF ScanStep, Dispatched, StartScan, EndScan, CloseSchedule, FinishJob
  <2>1. CASE Dispatched(w)
    <3>1. PICK g \in {"closing", "started"} :
            worker' = [worker EXCEPT ![w] = At(g, worker[w].source, worker[w].run)]
      BY <2>1 DEF Dispatched
    <3> DEFINE v == At(g, worker[w].source, worker[w].run)
    <3>2. v \in WorkerState /\ v.pc # "idle" /\ v.source = worker[w].source /\ v.run = worker[w].run
      BY <2>0 DEF At, WorkerState
    <3> HIDE DEF v
    <3>3. worker' = [worker EXCEPT ![w] = v] /\ UNCHANGED <<run, job, caller>>
      BY <2>1, <3>1 DEF Dispatched, v
    <3> QED
      BY <2>0, <3>2, <3>3, WorkerMoves
  <2>2. CASE StartScan(w) \/ EndScan(w) \/ CloseSchedule(w)
    <3>1. PICK g \in {"scanning", "scanned", "closing"} :
            worker' = [worker EXCEPT ![w] = [worker[w] EXCEPT !.pc = g]]
      BY <2>2 DEF StartScan, EndScan, CloseSchedule
    <3> DEFINE v == [worker[w] EXCEPT !.pc = g]
    <3>2. v \in WorkerState /\ v.pc # "idle" /\ v.source = worker[w].source /\ v.run = worker[w].run
      BY <2>0 DEF WorkerState
    <3> HIDE DEF v
    <3>3. /\ worker' = [worker EXCEPT ![w] = v] /\ UNCHANGED <<job, caller>>
          /\ \/ UNCHANGED run
             \/ \E t \in {"scanning", "ended"} :
                  run' = [run EXCEPT ![worker[w].run] = [run[worker[w].run] EXCEPT !.status = t]]
      BY <2>2, <3>1 DEF StartScan, EndScan, CloseSchedule, v
    <3> QED
      BY <2>0, <3>2, <3>3, WorkerMoves
  <2>3. CASE FinishJob(w)
    <3>0. PICK n \in Runs, d \in Sources : n = worker[w].run /\ d = worker[w].source
      BY <2>0 DEF ScanInv, HeldByWorkers
    <3>1. \A e \in Sources : InFlight(e, n) => e = d /\ job[e][n] = "running"
      BY <2>0, <3>0 DEF ScanInv, HeldByWorkers
    <3>2. /\ job' \in Jobs /\ job'[d][n] = "none"
          /\ \A e \in Sources, q \in Runs : e # d \/ q # n => job'[e][q] = job[e][q]
          /\ \A e \in Sources : ~ InFlight(e, n)'
      <4>1. job' = [job EXCEPT ![d][n] = "none"]
        BY <2>3, <3>0 DEF FinishJob
      <4> QED
        BY <3>1, <4>1, JobSet, Shapes
    <3>3. JobsStop
      BY <3>1, <3>2 DEF JobsStop, InFlight
    <3>4. /\ worker[w].run = n /\ worker' = [worker EXCEPT ![w] = Between]
          /\ run' = [run EXCEPT ![n] = FreeRun] /\ UNCHANGED caller
      BY <2>3, <3>0 DEF FinishJob
    <3> QED
      BY <2>0, <3>2, <3>3, <3>4, JobsOver
  <2> QED
    BY <1>7, <2>1, <2>2, <2>3 DEF ScanStep
<1>8. ASSUME NEW w \in Workers, NEW S \in SUBSET Runs, Reclaim(w, S) PROVE Held'
  BY <1>8, JobsOver, ReclaimStops, Shapes DEF Reclaim
<1>9. ASSUME NEW x \in Callers, (CycleFails /\ x = Scheduler) \/ RequestFails(x) PROVE Held'
  <2>1. CallFails(x) /\ UNCHANGED worker
    BY <1>9 DEF CycleFails, RequestFails
  <2> QED
    BY <2>1, CallOver, Shapes DEF CallFails
<1>10. ASSUME NEW w \in Workers, WorkerFails(w) PROVE Held'
  <2>1. worker[w].pc # "idle" /\ worker[w].run \in Runs
    BY <1>10 DEF WorkerFails, ScanInv, HeldByWorkers
  <2> QED
    BY <1>10, <2>1, JobsOver, SameStops, Shapes DEF WorkerFails
<1>11. CASE UNCHANGED vars
  BY <1>11, HeldSame DEF vars
<1> QED
  BY <1>1, <1>2, <1>3, <1>4, <1>5, <1>6, <1>7, <1>8, <1>9, <1>10, <1>11
     DEF Next, CycleStep, Callers

-----------------------------------------------------------------------------
(* The theorems.                                                           *)

LEMMA InvariantInit == Init => ScanInv
<1> SUFFICES ASSUME Init PROVE ScanInv
  OBVIOUS
<1>1. \A d \in Sources, r \in Runs : ~ InFlight(d, r)
  BY DEF Init, InFlight
<1>2. /\ \A x \in Callers : caller[x] = NoCall
      /\ \A w \in Workers : worker[w] = Between /\ worker[w].pc = "idle"
  BY DEF Init, Between, At
<1>3. RunIsThere /\ HeldOnce
  BY <1>1 DEF RunIsThere, HeldOnce
<1>4. HeldByCalls /\ HeldByWorkers
  BY <1>2 DEF HeldByCalls, HeldByCall, HeldByWorkers
<1> QED
  BY <1>3, <1>4, TypeInit DEF ScanInv

\* What is proved of every step: a scan run is in one pair of hands at a time.
THEOREM Invariant == Spec => []ScanInv
<1>1. ScanInv /\ [Next]_vars => ScanInv'
  BY TypeStep, HeldStep DEF ScanInv, Held
<1> QED
  BY <1>1, InvariantInit, PTL DEF Spec

\* The variables keep their types.
THEOREM Typed == Spec => []TypeOK
<1>1. ScanInv => TypeOK
  BY DEF ScanInv
<1> QED
  BY <1>1, Invariant, PTL

\* A job finds the scan run it is for, whoever asked and whatever was refused or failed.
THEOREM JobsFindRuns == Spec => []RunIsThere
<1>1. ScanInv => RunIsThere
  BY DEF ScanInv
<1> QED
  BY <1>1, Invariant, PTL

-----------------------------------------------------------------------------
(* A scan run is begun once.                                               *)

\* How far one worker has come is what its run shows.
Follows(w) ==
  /\ worker[w].pc \in {"claimed", "started"} => run[worker[w].run].status = "queued"
  /\ worker[w].pc = "scanning" => run[worker[w].run].status = "scanning"
  /\ worker[w].pc \in {"scanned", "closing"} => run[worker[w].run].status = "ended"

\* A step by which neither the worker nor its run moves.
Rests(w) ==
  /\ worker'[w] = worker[w]
  /\ worker[w].pc # "idle" => run'[worker[w].run].status = run[worker[w].run].status

LEMMA RestFollows == ASSUME NEW w \in Workers, Follows(w), Rests(w) PROVE Follows(w)'
BY DEF Follows, Rests

\* A worker serves its run, and nobody else's.
LEMMA OthersRest ==
  ASSUME ScanInv, NEW w \in Workers, worker[w].pc # "idle",
         NEW v \in WorkerState, worker' = [worker EXCEPT ![w] = v],
         \/ UNCHANGED run
         \/ \E u \in Run : run' = [run EXCEPT ![worker[w].run] = u]
  PROVE  \A x \in Workers \ {w} : Rests(x)
<1> SUFFICES ASSUME NEW x \in Workers \ {w} PROVE Rests(x)
  OBVIOUS
<1>1. worker'[x] = worker[x]
  BY Shapes
<1>2. worker[x].pc # "idle" => worker[x].run \in Runs /\ worker[x].run # worker[w].run
  BY Shapes DEF Held, HeldByWorkers
<1> QED
  BY <1>1, <1>2, Shapes DEF Rests

LEMMA ServedFollows ==
  ASSUME ScanInv, RunFollows, NEW w \in Workers, ScanStep(w)
  PROVE  RunFollows'
<1>1. /\ worker[w] \in WorkerState /\ worker[w].pc # "idle" /\ worker[w].run \in Runs
      /\ run[worker[w].run] \in Run /\ run[worker[w].run].status # "free"
  <2>1. worker[w] \in WorkerState /\ worker[w].pc # "idle"
    BY Shapes DEF ScanStep, Dispatched, StartScan, EndScan, CloseSchedule, FinishJob
  <2> QED
    BY <2>1, Shapes DEF Held, HeldByWorkers
<1>2. SUFFICES ASSUME NEW v \in WorkerState, worker' = [worker EXCEPT ![w] = v],
                      \/ UNCHANGED run
                      \/ \E u \in Run : run' = [run EXCEPT ![worker[w].run] = u]
               PROVE  Follows(w)'
  <2>1. PICK v : /\ v \in WorkerState /\ worker' = [worker EXCEPT ![w] = v]
                 /\ \/ UNCHANGED run
                    \/ \E u \in Run : run' = [run EXCEPT ![worker[w].run] = u]
    <3>1. CASE Dispatched(w)
      <4>1. PICK g \in {"closing", "started"} :
              worker' = [worker EXCEPT ![w] = At(g, worker[w].source, worker[w].run)]
        BY <3>1 DEF Dispatched
      <4>2. At(g, worker[w].source, worker[w].run) \in WorkerState
        BY <1>1 DEF At, WorkerState
      <4>3. UNCHANGED run
        BY <3>1 DEF Dispatched
      <4> QED
        BY <4>1, <4>2, <4>3
    <3>2. CASE StartScan(w) \/ EndScan(w)
      <4>1. PICK g \in {"scanning", "scanned"}, s \in {"scanning", "ended"} :
              /\ worker' = [worker EXCEPT ![w] = [worker[w] EXCEPT !.pc = g]]
              /\ run' = [run EXCEPT ![worker[w].run] = [run[worker[w].run] EXCEPT !.status = s]]
        BY <3>2 DEF StartScan, EndScan
      <4>2. /\ [worker[w] EXCEPT !.pc = g] \in WorkerState
            /\ [run[worker[w].run] EXCEPT !.status = s] \in Run
        BY <1>1 DEF WorkerState, Run
      <4> QED
        BY <4>1, <4>2
    <3>3. CASE CloseSchedule(w)
      <4>1. /\ worker' = [worker EXCEPT ![w] = [worker[w] EXCEPT !.pc = "closing"]]
            /\ UNCHANGED run
        BY <3>3 DEF CloseSchedule
      <4>2. [worker[w] EXCEPT !.pc = "closing"] \in WorkerState
        BY <1>1 DEF WorkerState
      <4> QED
        BY <4>1, <4>2
    <3>4. CASE FinishJob(w)
      BY <3>4, RestType DEF FinishJob
    <3> QED
      BY <3>1, <3>2, <3>3, <3>4 DEF ScanStep
  <2>2. \A x \in Workers \ {w} : Rests(x)
    BY <1>1, <2>1, OthersRest
  <2>3. \A x \in Workers \ {w} : Follows(x)'
    BY <2>2, RestFollows DEF RunFollows, Follows
  <2>4. Follows(w)'
    BY <1>2, <2>1
  <2> QED
    BY <2>3, <2>4 DEF RunFollows, Follows
<1>3. CASE Dispatched(w)
  <2>1. worker'[w].pc = "started" /\ worker'[w].run = worker[w].run
        /\ UNCHANGED run /\ worker[w].pc = "claimed"
    BY <1>1, <1>3, Shapes DEF Dispatched, At
  <2> QED
    BY <2>1 DEF RunFollows, Follows
<1>4. CASE StartScan(w)
  <2>1. /\ worker'[w].pc = "scanning" /\ worker'[w].run = worker[w].run
        /\ run'[worker[w].run].status = "scanning"
    BY <1>1, <1>4, Shapes DEF StartScan, WorkerState, Run
  <2> QED
    BY <2>1 DEF Follows
<1>5. CASE EndScan(w)
  <2>1. /\ worker'[w].pc = "scanned" /\ worker'[w].run = worker[w].run
        /\ run'[worker[w].run].status = "ended"
    BY <1>1, <1>5, Shapes DEF EndScan, WorkerState, Run
  <2> QED
    BY <2>1 DEF Follows
<1>6. CASE CloseSchedule(w)
  <2>1. worker'[w].pc = "closing" /\ worker'[w].run = worker[w].run
        /\ UNCHANGED run /\ worker[w].pc = "scanned"
    BY <1>1, <1>6, Shapes DEF CloseSchedule, WorkerState
  <2> QED
    BY <2>1 DEF RunFollows, Follows
<1>7. CASE FinishJob(w)
  <2>1. worker'[w].pc = "idle"
    BY <1>7, Shapes DEF FinishJob
  <2> QED
    BY <2>1 DEF Follows
<1> QED
  BY <1>3, <1>4, <1>5, <1>6, <1>7 DEF ScanStep

\* Whoever else changes a run has it to itself.
LEMMA RunChanged ==
  ASSUME ScanInv, NEW n \in Runs, NEW u, run' = [run EXCEPT ![n] = u], UNCHANGED worker,
         \A w \in Workers : worker[w].run # n
  PROVE  \A w \in Workers : Rests(w)
<1> SUFFICES ASSUME NEW w \in Workers PROVE Rests(w)
  OBVIOUS
<1>1. worker[w].pc # "idle" => worker[w].run \in Runs /\ worker[w].run # n
  BY Shapes DEF Held, HeldByWorkers
<1> QED
  BY <1>1, Shapes DEF Rests

LEMMA FollowsStep == ScanInv /\ RunFollows /\ [Next]_vars => RunFollows'
<1> SUFFICES ASSUME ScanInv, RunFollows, [Next]_vars PROVE RunFollows'
  OBVIOUS
<1>1. SUFFICES ASSUME ~ \E w \in Workers : ScanStep(w)
               PROVE  \A w \in Workers : Rests(w) \/ Follows(w)'
  BY ServedFollows, RestFollows DEF RunFollows, Follows
<1>2. CASE UNCHANGED <<run, worker>>
  BY <1>2 DEF Rests
<1>3. CASE \/ \E d \in Sources : DispatchDue(d)
           \/ \E q \in Requesters, d \in Sources : Request(q, d)
  <2>1. PICK b \in BOOLEAN : /\ run' = [run EXCEPT ![NextRun] = [status |-> "queued", scheduled |-> b]]
                             /\ UNCHANGED worker /\ Unused # {}
    BY <1>3 DEF DispatchDue, Request
  <2> QED
    BY <2>1, FreshRun, RunChanged
<1>4. ASSUME NEW x \in Callers, caller[x] # NoCall, UNCHANGED worker,
             run' = [run EXCEPT ![caller[x].run] = FreeRun]
      PROVE  \A w \in Workers : Rests(w)
  <2>1. caller[x].run \in Runs /\ \A w \in Workers : worker[w].run # caller[x].run
    BY <1>4, Shapes DEF Held, HeldByCalls, HeldByCall
  <2> QED
    BY <1>4, <2>1, RunChanged
<1>5. ASSUME NEW v \in Workers, NEW d \in Sources, NEW r \in Runs, Claim(v, d, r)
      PROVE  \A w \in Workers : Rests(w) \/ Follows(w)'
  <2>1. /\ worker'[v] = At("claimed", d, r) /\ \A w \in Workers \ {v} : worker'[w] = worker[w]
        /\ UNCHANGED run
    BY <1>5, Shapes DEF Claim
  <2>2. run[r].status = "queued"
    BY <1>5, Shapes DEF Claim, Held, RunIsThere, InFlight
  <2>3. Follows(v)'
    BY <2>1, <2>2 DEF Follows, At
  <2>4. \A w \in Workers \ {v} : Rests(w)
    BY <2>1 DEF Rests
  <2> QED
    BY <2>3, <2>4
<1>6. ASSUME NEW v \in Workers, WorkerFails(v) PROVE \A w \in Workers : Rests(w) \/ Follows(w)'
  <2>1. /\ worker'[v].pc = "idle" /\ \A w \in Workers \ {v} : worker'[w] = worker[w]
        /\ UNCHANGED run
    BY <1>6, Shapes DEF WorkerFails
  <2> QED
    BY <2>1 DEF Rests, Follows
<1>7. CASE vars' = vars \/ StartCycle \/ EndCycle \/ StartOnHolder \/ Recycle
             \/ (\E d \in Sources : Tick(d) \/ Reschedule(d))
             \/ (\E x \in Callers : Look(x) \/ Insert(x))
             \/ \E w \in Workers, S \in SUBSET Runs : Reclaim(w, S)
  BY <1>2, <1>7 DEF vars, StartCycle, EndCycle, StartOnHolder, Recycle, Tick, Reschedule, Look,
                    Insert, Reclaim
<1>8. CASE \/ \E x \in Callers : Conflict(x)
           \/ CycleFails \/ \E q \in Requesters : RequestFails(q)
  <2>1. PICK x \in Callers : UNCHANGED worker /\ (Conflict(x) \/ CallFails(x))
    BY <1>8 DEF Conflict, CycleFails, RequestFails, Callers
  <2> QED
    BY <1>2, <1>4, <2>1 DEF Conflict, CallFails
<1> QED
  BY <1>1, <1>3, <1>5, <1>6, <1>7, <1>8 DEF Next, CycleStep, CallStep

\* Only a worker that has read its run begins it.
LEMMA OnlyStartedBegins ==
  ASSUME ScanInv, Next, NEW w \in Workers, worker[w].pc # "scanning", worker'[w].pc = "scanning"
  PROVE  worker[w].pc = "started"
<1>1. CASE \E v \in Workers : ScanStep(v)
  <2>1. PICK v \in Workers : ScanStep(v)
    BY <1>1
  <2>2. CASE v # w
    <3>1. worker'[w] = worker[w]
      BY <2>1, <2>2, Shapes
         DEF ScanStep, Dispatched, StartScan, EndScan, CloseSchedule, FinishJob
    <3> QED
      BY <3>1
  <2>3. CASE v = w
    <3>0. worker[w] \in WorkerState
      BY Shapes
    <3>1. CASE Dispatched(w)
      <4>1. worker'[w].pc \in {"closing", "started"}
        BY <3>1, Shapes DEF Dispatched, At
      <4> QED
        BY <4>1
    <3>2. CASE StartScan(w)
      BY <3>2 DEF StartScan
    <3>3. CASE EndScan(w) \/ CloseSchedule(w)
      <4>1. worker'[w].pc \in {"scanned", "closing"}
        BY <3>0, <3>3, Shapes DEF EndScan, CloseSchedule, WorkerState
      <4> QED
        BY <4>1
    <3>4. CASE FinishJob(w)
      <4>1. worker'[w].pc = "idle"
        BY <3>4, Shapes DEF FinishJob
      <4> QED
        BY <4>1
    <3> QED
      BY <2>1, <2>3, <3>1, <3>2, <3>3, <3>4 DEF ScanStep
  <2> QED
    BY <2>2, <2>3
<1>2. CASE \E v \in Workers, d \in Sources, r \in Runs : Claim(v, d, r)
  <2>1. worker'[w] = worker[w] \/ worker'[w].pc = "claimed"
    BY <1>2, Shapes DEF Claim, At
  <2> QED
    BY <2>1
<1>3. CASE \E v \in Workers : WorkerFails(v)
  <2>1. worker'[w] = worker[w] \/ worker'[w].pc = "idle"
    BY <1>3, Shapes DEF WorkerFails
  <2> QED
    BY <2>1
<1>4. CASE UNCHANGED worker
  BY <1>4
<1>5. CASE StartCycle \/ EndCycle \/ StartOnHolder \/ Recycle \/ CycleFails \/ (\E d \in Sources : Tick(d) \/ Reschedule(d))
             \/ (\E d \in Sources : DispatchDue(d))
             \/ (\E q \in Requesters, d \in Sources : Request(q, d))
             \/ (\E x \in Callers : CallStep(x)) \/ (\E q \in Requesters : RequestFails(q))
             \/ \E v \in Workers, S \in SUBSET Runs : Reclaim(v, S)
  BY <1>4, <1>5 DEF StartCycle, EndCycle, StartOnHolder, Recycle, CycleFails, Tick, Reschedule,
                    DispatchDue, Request, CallStep, Look, Insert, Conflict, RequestFails, Reclaim
<1> QED
  BY <1>1, <1>2, <1>3, <1>5 DEF Next, CycleStep

LEMMA FollowsInit == Init => RunFollows
BY DEF Init, RunFollows, Between, At

\* _run_datasource_scan_job begins a scan run at most once, and the worker that ends it is
\* the one that began it: refused calls, dead workers and jobs given up for dead never bring
\* a run to a second worker.
THEOREM RunsScannedOnce == Spec => ScannedOnce
<1>1. ScanInv /\ RunFollows /\ [Next]_vars =>
        [\A w \in Workers :
           /\ worker[w].pc # "scanning" /\ worker'[w].pc = "scanning" =>
                run[worker[w].run].status = "queued"
           /\ worker[w].pc = "scanning" /\ worker'[w].pc = "scanned" =>
                run[worker[w].run].status = "scanning"]_vars
  <2>1. ASSUME ScanInv, RunFollows, Next, NEW w \in Workers,
               worker[w].pc # "scanning", worker'[w].pc = "scanning"
        PROVE  run[worker[w].run].status = "queued"
    BY <2>1, OnlyStartedBegins DEF RunFollows
  <2>2. ASSUME RunFollows, NEW w \in Workers, worker[w].pc = "scanning"
        PROVE  run[worker[w].run].status = "scanning"
    BY <2>2 DEF RunFollows
  <2> QED
    BY <2>1, <2>2
<1> QED
  BY <1>1, Invariant, FollowsInit, FollowsStep, PTL DEF Spec, ScannedOnce

-----------------------------------------------------------------------------
(* A scan run lives as ScanLife says.                                      *)

\* One run takes the next stage.
LEMMA OneTurns ==
  ASSUME run \in [Runs -> Run], NEW n \in Runs, NEW u \in Run, run' = [run EXCEPT ![n] = u],
         NEW S, run[n].status \in S, NEW s, u.status = s
  PROVE  Life!Turn(n, S, s)
<1>1. \A r \in Runs : run'[r].status = IF r = n THEN s ELSE run[r].status
  OBVIOUS
<1>2. [r \in Runs |-> run'[r].status] = [[r \in Runs |-> run[r].status] EXCEPT ![n] = s]
  BY <1>1
<1> QED
  BY <1>2 DEF Life!Turn

LEMMA ServedLives ==
  ASSUME ScanInv, RunFollows, NEW w \in Workers, ScanStep(w), run' # run
  PROVE  \E n \in Runs : Life!Begin(n) \/ Life!End(n) \/ Life!Forget(n)
<1>1. worker[w].run \in Runs /\ run[worker[w].run] \in Run
  <2>1. worker[w].pc # "idle"
    BY DEF ScanStep, Dispatched, StartScan, EndScan, CloseSchedule, FinishJob
  <2> QED
    BY <2>1, Shapes DEF Held, HeldByWorkers
<1> PICK n \in Runs : n = worker[w].run
  BY <1>1
<1>2. CASE StartScan(w)
  <2>1. run' = [run EXCEPT ![n] = [run[n] EXCEPT !.status = "scanning"]] /\ run[n].status = "queued"
    BY <1>2 DEF StartScan, RunFollows
  <2>2. [run[n] EXCEPT !.status = "scanning"] \in Run
        /\ [run[n] EXCEPT !.status = "scanning"].status = "scanning"
    BY <1>1 DEF Run
  <2>3. run[n].status \in {"queued"}
    BY <2>1
  <2>4. Life!Turn(n, {"queued"}, "scanning")
    BY <2>1, <2>2, <2>3, OneTurns, Shapes
  <2> QED
    BY <2>4 DEF Life!Begin
<1>3. CASE EndScan(w)
  <2>1. run' = [run EXCEPT ![n] = [run[n] EXCEPT !.status = "ended"]] /\ run[n].status = "scanning"
    BY <1>3 DEF EndScan, RunFollows
  <2>2. [run[n] EXCEPT !.status = "ended"] \in Run /\ [run[n] EXCEPT !.status = "ended"].status = "ended"
    BY <1>1 DEF Run
  <2> QED
    BY <2>1, <2>2, OneTurns, Shapes DEF Life!End
<1>4. CASE FinishJob(w)
  <2>1. run' = [run EXCEPT ![n] = FreeRun] /\ run[n].status = "ended"
    BY <1>4 DEF FinishJob, RunFollows
  <2> QED
    BY <2>1, OneTurns, Shapes, RestType DEF Life!Forget
<1>5. CASE Dispatched(w) \/ CloseSchedule(w)
  BY <1>5 DEF Dispatched, CloseSchedule
<1> QED
  BY <1>2, <1>3, <1>4, <1>5 DEF ScanStep

LEMMA ScanLives ==
  ASSUME ScanInv, RunFollows, Next, run' # run
  PROVE  Life!Next
<1>1. CASE \E w \in Workers : ScanStep(w)
  BY <1>1, ServedLives DEF Life!Next
<1>2. CASE \/ \E d \in Sources : DispatchDue(d)
           \/ \E q \in Requesters, d \in Sources : Request(q, d)
  <2>1. PICK b \in BOOLEAN : /\ run' = [run EXCEPT ![NextRun] = [status |-> "queued", scheduled |-> b]]
                             /\ Unused # {}
    BY <1>2 DEF DispatchDue, Request
  <2>2. [status |-> "queued", scheduled |-> b] \in Run
    BY DEF Run
  <2>3. NextRun \in Runs /\ Life!Turn(NextRun, {"free", "ended"}, "queued")
    BY <2>1, <2>2, FreshRun, OneTurns, Shapes
  <2> QED
    BY <2>3 DEF Life!Next, Life!Ask
<1>3. CASE \E x \in Callers : Conflict(x) \/ CallFails(x)
  <2>1. PICK x \in Callers : /\ caller[x].run \in Runs /\ run[caller[x].run].status = "queued"
                             /\ run' = [run EXCEPT ![caller[x].run] = FreeRun]
    BY <1>3, Shapes DEF Conflict, CallFails, Held, HeldByCalls, HeldByCall
  <2>2. Life!Turn(caller[x].run, {"queued"}, "free")
    BY <2>1, OneTurns, Shapes, RestType
  <2> QED
    BY <2>1, <2>2 DEF Life!Next, Life!Withdraw
<1>4. CASE \/ StartCycle \/ EndCycle \/ StartOnHolder \/ Recycle
           \/ \E d \in Sources : Tick(d) \/ Reschedule(d)
           \/ \E x \in Callers : Look(x) \/ Insert(x)
           \/ \E w \in Workers, d \in Sources, r \in Runs : Claim(w, d, r)
           \/ \E w \in Workers, S \in SUBSET Runs : Reclaim(w, S)
           \/ \E w \in Workers : WorkerFails(w)
  BY <1>4 DEF StartCycle, EndCycle, StartOnHolder, Recycle, Tick, Reschedule, Look, Insert, Claim,
              Reclaim, WorkerFails
<1> QED
  BY <1>1, <1>2, <1>3, <1>4 DEF Next, CycleStep, CallStep, CycleFails, RequestFails, Callers

\* Scan dispatch implements ScanLife: in any interleaving of the scheduler, requests, workers,
\* reclaims and failures, a scan run is asked for, begun and ended, once each, and is deleted
\* only by the request that made it, before its job, or when it is over.
THEOREM RunsLive == Spec => ImplementsScanLife
<1>1. Init => Life!Init
  BY DEF Init, FreeRun, Life!Init
<1>2. ScanInv /\ RunFollows /\ [Next]_vars => [Life!Next]_[r \in Runs |-> run[r].status]
  <2>1. run' = run => UNCHANGED [r \in Runs |-> run[r].status]
    OBVIOUS
  <2> QED
    BY <2>1, ScanLives DEF vars
<1> QED
  BY <1>1, <1>2, Invariant, FollowsInit, FollowsStep, PTL DEF Spec, ImplementsScanLife, Life!Spec

=============================================================================
