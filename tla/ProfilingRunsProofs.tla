----------------------- MODULE ProfilingRunsProofs -----------------------
(***************************************************************************)
(* Proofs about incremental profiling, for any number of runs, tables and  *)
(* instants, whatever fails, dies or overlaps.                             *)
(***************************************************************************)
EXTENDS ProfilingRuns, TLAPS

-----------------------------------------------------------------------------
(* What a step does to one run.                                            *)

\* A thread serves run r, or leaves it.
Served(r) == Serve(r) \/ Fault(r) \/ Die(r)

\* The record of a run that was just created.
Created(t) == [Free EXCEPT !.stage = "created", !.table = t, !.dq = "queued"]

LEMMA FreeType == Free \in Run
BY DEF Free, Run, Statuses, Terminal, Stages

LEMMA CreatedType == ASSUME NEW t \in Tables PROVE Created(t) \in Run
BY DEF Created, Free, Run, Statuses, Terminal, Stages

LEMMA ClockType == ASSUME TypeOK PROVE clock \in Nat /\ clock \in 1..MaxClock
BY NumbersAssumption DEF TypeOK

\* A row that is there has a stamp.
LEMMA StampType ==
  ASSUME TypeOK, NEW t \in Tables, NEW n \in 0..clock, NEW i \in 1..n
  PROVE  Stamp[t][i] \in Nat /\ Floor[t] \in Nat /\ i \in Nat
<1>1. i \in 1..MaxClock
  BY ClockType, NumbersAssumption
<1> QED
  BY <1>1, NumbersAssumption

LEMMA RowsType == ASSUME TypeOK, NEW r \in Runs PROVE Rows(r) \subseteq Nat
BY ClockType DEF Rows

LEMMA LeftType == ASSUME TypeOK, NEW r \in Runs PROVE Left(r) \subseteq Nat
BY DEF TypeOK, Run, Left

\* The record of r is replaced, and no other.
Only(r) == run' \in [Runs -> Run] /\ \A q \in Runs : q # r => run'[q] = run[q]

LEMMA Update ==
  ASSUME TypeOK, NEW r \in Runs, NEW w \in Run, run' = [run EXCEPT ![r] = w]
  PROVE  Only(r)
BY DEF TypeOK, Only

\* A thread changes the rows of its own run only.
LEMMA ServedOnly ==
  ASSUME TypeOK, NEW r \in Runs, Served(r), run[r].stage # "free" => run[r].table \in Tables
  PROVE  Only(r)
<1>0. run[r] \in Run
  BY DEF TypeOK
<1>1. CASE Enqueue(r)
  <2>1. [run[r] EXCEPT !.stage = "launched", !.job = "queued"] \in Run
    BY <1>0 DEF Run, Stages, Statuses, Terminal
  <2>2. run' = [run EXCEPT ![r] = [run[r] EXCEPT !.stage = "launched", !.job = "queued"]]
    BY <1>1 DEF Enqueue, TypeOK
  <2> QED
    BY <2>1, <2>2, Update
<1>2. CASE Start(r)
  <2>1. [run[r] EXCEPT !.stage = "started", !.dq = "running", !.job = "running", !.end = clock] \in Run
    BY <1>0, ClockType DEF Run, Stages, Statuses, Terminal
  <2>2. run' = [run EXCEPT ![r] = [run[r] EXCEPT !.stage = "started", !.dq = "running", !.job =
                                                 "running", !.end = clock]]
    BY <1>2 DEF Start, TypeOK
  <2> QED
    BY <2>1, <2>2, Update
<1>3. CASE Resolve(r)
  <2>1. PICK s \in (0..clock) \cup {Floor[run[r].table]} :
          run' = [run EXCEPT ![r] = [run[r] EXCEPT !.stage = "resolved", !.start = s]]
    BY <1>3 DEF Resolve, TypeOK
  <2>2. s \in Nat
    BY <1>3, <2>1, NumbersAssumption, ClockType DEF Resolve
  <2>3. [run[r] EXCEPT !.stage = "resolved", !.start = s] \in Run
    BY <1>0, <2>2 DEF Run, Stages
  <2> QED
    BY <2>1, <2>3, Update
<1>4. CASE Open(r)
  <2>1. [run[r] EXCEPT !.stage = "open", !.mark = "running"] \in Run
    BY <1>0 DEF Run, Stages, Statuses, Terminal
  <2>2. run' = [run EXCEPT ![r] = [run[r] EXCEPT !.stage = "open", !.mark = "running"]]
    BY <1>4 DEF Open, TypeOK
  <2> QED
    BY <2>1, <2>2, Update
<1>5. CASE Read(r)
  <2>1. [run[r] EXCEPT !.stage = "read", !.rows = Rows(r)] \in Run
    BY <1>0, RowsType DEF Run, Stages, Statuses, Terminal
  <2>2. run' = [run EXCEPT ![r] = [run[r] EXCEPT !.stage = "read", !.rows = Rows(r)]]
    BY <1>5 DEF Read, TypeOK
  <2> QED
    BY <2>1, <2>2, Update
<1>6. CASE SparkFails(r)
  <2>1. [run[r] EXCEPT !.stage = "failing", !.dq = "failed", !.out = "failed"] \in Run
    BY <1>0 DEF Run, Stages, Statuses, Terminal
  <2>2. run' = [run EXCEPT ![r] = [run[r] EXCEPT !.stage = "failing", !.dq = "failed", !.out =
                                                 "failed"]]
    BY <1>6 DEF SparkFails, TypeOK
  <2> QED
    BY <2>1, <2>2, Update
<1>7. CASE SparkTimesOut(r)
  <2>1. [run[r] EXCEPT !.stage = "failing", !.out = "timeout"] \in Run
    BY <1>0 DEF Run, Stages, Statuses, Terminal
  <2>2. run' = [run EXCEPT ![r] = [run[r] EXCEPT !.stage = "failing", !.out = "timeout"]]
    BY <1>7 DEF SparkTimesOut, TypeOK
  <2> QED
    BY <2>1, <2>2, Update
<1>9. CASE Save(r)
  <2>1. \/ run' = [run EXCEPT ![r] = [run[r] EXCEPT !.stage = "saved", !.saved = TRUE,
                                                   !.dq = "success"]]
        \/ run' = [run EXCEPT ![r] = [run[r] EXCEPT !.stage = "finished", !.saved = TRUE,
                                                   !.dq = "success", !.job = "success"]]
    BY <1>9 DEF Save, TypeOK
  <2>2. /\ [run[r] EXCEPT !.stage = "saved", !.saved = TRUE, !.dq = "success"] \in Run
        /\ [run[r] EXCEPT !.stage = "finished", !.saved = TRUE, !.dq = "success",
                          !.job = "success"] \in Run
    BY <1>0 DEF Run, Stages, Statuses, Terminal
  <2> QED
    BY <2>1, <2>2, Update
<1>10. CASE FinishJob(r)
  <2>1. [run[r] EXCEPT !.stage = "finished", !.job = "success"] \in Run
    BY <1>0 DEF Run, Stages, Statuses, Terminal
  <2>2. run' = [run EXCEPT ![r] = [run[r] EXCEPT !.stage = "finished", !.job = "success"]]
    BY <1>10 DEF FinishJob, TypeOK
  <2> QED
    BY <2>1, <2>2, Update
<1>11. CASE Finalize(r)
  <2>1. [run[r] EXCEPT !.stage = "over", !.mark = "success"] \in Run
    BY <1>0 DEF Run, Stages, Statuses, Terminal
  <2>2. run' = [run EXCEPT ![r] = [run[r] EXCEPT !.stage = "over", !.mark = "success"]]
    BY <1>11 DEF Finalize, TypeOK
  <2> QED
    BY <2>1, <2>2, Update
<1>12. CASE FailMark(r)
  <2>1. PICK m \in {"none", "failed"} :
          run' = [run EXCEPT ![r] = [run[r] EXCEPT !.stage = "failed mark", !.mark = m]]
    BY <1>12 DEF FailMark, TypeOK
  <2>2. [run[r] EXCEPT !.stage = "failed mark", !.mark = m] \in Run
    BY <1>0 DEF Run, Stages
  <2> QED
    BY <2>1, <2>2, Update
<1>13. CASE FailRun(r)
  <2>1. [run[r] EXCEPT !.stage = "failed run", !.dq = run[r].out] \in Run
    BY <1>0 DEF Run, Stages, Statuses, Terminal
  <2>2. run' = [run EXCEPT ![r] = [run[r] EXCEPT !.stage = "failed run", !.dq = run[r].out]]
    BY <1>13 DEF FailRun, TypeOK
  <2> QED
    BY <2>1, <2>2, Update
<1>14. CASE FailJob(r)
  <2>1. [run[r] EXCEPT !.stage = "over", !.job = run[r].out] \in Run
    BY <1>0 DEF Run, Stages, Statuses, Terminal
  <2>2. run' = [run EXCEPT ![r] = [run[r] EXCEPT !.stage = "over", !.job = run[r].out]]
    BY <1>14 DEF FailJob, TypeOK
  <2> QED
    BY <2>1, <2>2, Update
<1>15. CASE Fault(r)
  <2>1. [run[r] EXCEPT !.stage = "failing", !.out = "failed", !.rows = Left(r)] \in Run
    BY <1>0, LeftType DEF Run, Stages, Statuses, Terminal
  <2>2. run' = [run EXCEPT ![r] = [run[r] EXCEPT !.stage = "failing", !.out = "failed", !.rows
                                                 = Left(r)]]
    BY <1>15 DEF Fault, TypeOK
  <2> QED
    BY <2>1, <2>2, Update
<1>16. CASE Die(r)
  <2>1. [run[r] EXCEPT !.stage = "dead", !.rows = Left(r)] \in Run
    BY <1>0, LeftType DEF Run, Stages, Statuses, Terminal
  <2>2. run' = [run EXCEPT ![r] = [run[r] EXCEPT !.stage = "dead", !.rows = Left(r)]]
    BY <1>16 DEF Die, TypeOK
  <2> QED
    BY <2>1, <2>2, Update
<1> QED
  BY <1>1, <1>2, <1>3, <1>4, <1>5, <1>6, <1>7, <1>9, <1>10, <1>11, <1>12, <1>13, <1>14,
     <1>15, <1>16 DEF Served, Serve

-----------------------------------------------------------------------------
(* How far the rows of a run have come.                                    *)

\* A saved profile stays; a window is resolved once, and finalized once.
Kept(r) ==
  /\ run'[r].table = run[r].table
  /\ run[r].saved => run'[r].saved /\ run'[r].rows = run[r].rows
  /\ run'[r].stage \in Reading =>
       Resolve(r) \/ (run[r].stage \in Reading /\ run'[r].start = run[r].start)
  /\ run'[r].mark = "success" =>
       (Finalize(r) \/ run[r].mark = "success") /\ run'[r].end = run[r].end

LEMMA ServedFits ==
  ASSUME TypeOK, NEW r \in Runs, Served(r), Fits(run[r]), Covers(run[r])
  PROVE  Fits(run'[r]) /\ Covers(run[r])' /\ Kept(r)
<1>0. run[r] \in Run /\ Fits(run[r]) /\ Covers(run[r])
  BY DEF TypeOK
<1>1. CASE Enqueue(r)
  <2>1. run'[r] = [run[r] EXCEPT !.stage = "launched", !.job = "queued"]
    BY <1>1 DEF Enqueue, TypeOK
  <2>2. run[r].stage = "created" /\ clock' = clock
    BY <1>1 DEF Enqueue
  <2> QED
    BY <1>0, <2>1, <2>2 DEF Fits, Covers, Kept, Reading, Run
<1>2. CASE Start(r)
  <2>1. run'[r] = [run[r] EXCEPT !.stage = "started", !.dq = "running", !.job = "running",
                                 !.end = clock]
    BY <1>2 DEF Start, TypeOK
  <2>2. run[r].stage = "launched" /\ clock' = clock
    BY <1>2 DEF Start
  <2> QED
    BY <1>0, <2>1, <2>2 DEF Fits, Covers, Kept, Reading, Run, TypeOK
<1>3. CASE Resolve(r)
  <2>1. PICK s \in (0..clock) \cup {Floor[run[r].table]} :
          run'[r] = [run[r] EXCEPT !.stage = "resolved", !.start = s]
    BY <1>3 DEF Resolve, TypeOK
  <2>2. run[r].stage = "started" /\ clock' = clock
    BY <1>3 DEF Resolve
  <2>3. Fits(run'[r]) /\ Covers(run[r])'
    BY <1>0, <2>1, <2>2 DEF Fits, Covers, Run
  <2>4. /\ run'[r].table = run[r].table /\ run'[r].saved = run[r].saved
        /\ run'[r].rows = run[r].rows /\ run'[r].mark = "none" /\ run'[r].stage = "resolved"
    BY <1>0, <2>1, <2>2 DEF Fits, Run
  <2> QED
    BY <1>3, <2>3, <2>4 DEF Kept
<1>4. CASE Open(r)
  <2>1. run'[r] = [run[r] EXCEPT !.stage = "open", !.mark = "running"]
    BY <1>4 DEF Open, TypeOK
  <2>2. run[r].stage = "resolved" /\ clock' = clock
    BY <1>4 DEF Open
  <2> QED
    BY <1>0, <2>1, <2>2 DEF Fits, Covers, Kept, Reading, Run
<1>5. CASE Read(r)
  <2>1. run'[r] = [run[r] EXCEPT !.stage = "read", !.rows = Rows(r)]
    BY <1>5 DEF Read, TypeOK
  <2>2. run[r].stage = "open" /\ clock' = clock
    BY <1>5 DEF Read
  <2> QED
    BY <1>0, <2>1, <2>2 DEF Fits, Covers, Kept, Reading, Run, Rows, TypeOK
<1>6. CASE SparkFails(r)
  <2>1. run'[r] = [run[r] EXCEPT !.stage = "failing", !.dq = "failed", !.out = "failed"]
    BY <1>6 DEF SparkFails, TypeOK
  <2>2. run[r].stage = "open" /\ clock' = clock
    BY <1>6 DEF SparkFails
  <2> QED
    BY <1>0, <2>1, <2>2 DEF Fits, Covers, Kept, Reading, Run
<1>7. CASE SparkTimesOut(r)
  <2>1. run'[r] = [run[r] EXCEPT !.stage = "failing", !.out = "timeout"]
    BY <1>7 DEF SparkTimesOut, TypeOK
  <2>2. run[r].stage = "open" /\ clock' = clock
    BY <1>7 DEF SparkTimesOut
  <2> QED
    BY <1>0, <2>1, <2>2 DEF Fits, Covers, Kept, Reading, Run
<1>9. CASE Save(r)
  <2>1. \/ run'[r] = [run[r] EXCEPT !.stage = "saved", !.saved = TRUE, !.dq = "success"]
        \/ run'[r] = [run[r] EXCEPT !.stage = "finished", !.saved = TRUE, !.dq = "success",
                                     !.job = "success"]
    BY <1>9 DEF Save, TypeOK
  <2>2. run[r].stage = "read" /\ clock' = clock
    BY <1>9 DEF Save
  <2> QED
    BY <1>0, <2>1, <2>2 DEF Fits, Covers, Kept, Reading, Run
<1>10. CASE FinishJob(r)
  <2>1. run'[r] = [run[r] EXCEPT !.stage = "finished", !.job = "success"]
    BY <1>10 DEF FinishJob, TypeOK
  <2>2. run[r].stage = "saved" /\ clock' = clock
    BY <1>10 DEF FinishJob
  <2> QED
    BY <1>0, <2>1, <2>2 DEF Fits, Covers, Kept, Reading, Run
<1>11. CASE Finalize(r)
  <2>1. run'[r] = [run[r] EXCEPT !.stage = "over", !.mark = "success"]
    BY <1>11 DEF Finalize, TypeOK
  <2>2. run[r].stage = "finished" /\ clock' = clock
    BY <1>11 DEF Finalize
  <2> QED
    BY <1>0, <1>11, <2>1, <2>2 DEF Fits, Covers, Kept, Reading, Run
<1>12. CASE FailMark(r)
  <2>1. PICK m \in {"none", "failed"} :
          run'[r] = [run[r] EXCEPT !.stage = "failed mark", !.mark = m]
    BY <1>12 DEF FailMark, TypeOK
  <2>2. run[r].stage = "failing" /\ clock' = clock
    BY <1>12 DEF FailMark
  <2> QED
    BY <1>0, <2>1, <2>2 DEF Fits, Covers, Kept, Reading, Run
<1>13. CASE FailRun(r)
  <2>1. run'[r] = [run[r] EXCEPT !.stage = "failed run", !.dq = run[r].out]
    BY <1>13 DEF FailRun, TypeOK
  <2>2. run[r].stage = "failed mark" /\ clock' = clock
    BY <1>13 DEF FailRun
  <2> QED
    BY <1>0, <2>1, <2>2 DEF Fits, Covers, Kept, Reading, Run
<1>14. CASE FailJob(r)
  <2>1. run'[r] = [run[r] EXCEPT !.stage = "over", !.job = run[r].out]
    BY <1>14 DEF FailJob, TypeOK
  <2>2. run[r].stage = "failed run" /\ clock' = clock
    BY <1>14 DEF FailJob
  <2> QED
    BY <1>0, <2>1, <2>2 DEF Fits, Covers, Kept, Reading, Run
<1>15. CASE Fault(r)
  <2>1. run'[r] = [run[r] EXCEPT !.stage = "failing", !.out = "failed", !.rows = Left(r)]
    BY <1>15 DEF Fault, TypeOK
  <2>2. run[r].stage \in {"launched", "started", "resolved", "open", "read", "saved",
                          "finished"}
         /\ clock' = clock
    BY <1>15 DEF Fault
  <2> QED
    BY <1>0, <2>1, <2>2 DEF Fits, Covers, Kept, Reading, Run, Left
<1>16. CASE Die(r)
  <2>1. run'[r] = [run[r] EXCEPT !.stage = "dead", !.rows = Left(r)]
    BY <1>16 DEF Die, TypeOK
  <2>2. OnItsWay(r) /\ clock' = clock
    BY <1>16 DEF Die
  <2> QED
    BY <1>0, <2>1, <2>2 DEF Fits, Covers, Kept, Reading, Run, Left, OnItsWay
<1> QED
  BY <1>1, <1>2, <1>3, <1>4, <1>5, <1>6, <1>7, <1>9, <1>10, <1>11, <1>12, <1>13, <1>14,
     <1>15, <1>16 DEF Served, Serve

-----------------------------------------------------------------------------
(* What any step does to any run.                                          *)

\* The run stays, is served, is created, or is left by the batch that was creating it.
Moved(r) ==
  \/ run'[r] = run[r]
  \/ Served(r)
  \/ run[r] = Free /\ \E t \in Tables : run'[r] = Created(t)
  \/ r = batch.creating /\ batch'.creating = NoRun /\ run'[r] = [run[r] EXCEPT !.stage = "dead"]

LEMMA CreateMoves ==
  ASSUME TypeOK, NEW r \in Runs, NEW t \in Tables, Create(r, t)
  PROVE  Only(r) /\ run[r] = Free /\ run'[r] = Created(t)
<1>1. run' = [run EXCEPT ![r] = Created(t)]
  BY DEF Create, Created
<1>2. Only(r)
  BY <1>1, CreatedType, Update
<1> QED
  BY <1>1, <1>2 DEF Create, TypeOK

LEMMA LeaveMoves ==
  ASSUME TypeOK, NEW st, Leave(st)
  PROVE  run' \in [Runs -> Run] /\ \A r \in Runs : Moved(r)
<1>1. ASSUME NEW r \in Runs PROVE [run[r] EXCEPT !.stage = "dead"] \in Run
  <2>1. run[r] \in Run
    BY DEF TypeOK
  <2> QED
    BY <2>1 DEF Run, Stages
<1>2. run' = [r \in Runs |-> IF r = batch.creating THEN [run[r] EXCEPT !.stage = "dead"] ELSE run[r]]
  BY DEF Leave
<1>3. batch'.creating = NoRun
  BY DEF Leave, TypeOK, Batch
<1> QED
  BY <1>1, <1>2, <1>3 DEF TypeOK, Moved

LEMMA Moves ==
  ASSUME TypeOK, \A r \in Runs : run[r].stage # "free" => run[r].table \in Tables, Next
  PROVE  run' \in [Runs -> Run] /\ \A r \in Runs : Moved(r)
<1>1. CASE \E r \in Runs, t \in Tables : Launch(r, t)
  <2>1. PICK r \in Runs, t \in Tables : Create(r, t)
    BY <1>1 DEF Launch
  <2> QED
    BY <2>1, CreateMoves DEF Only, Moved
<1>2. CASE \E r \in Runs : Serve(r) \/ Fault(r) \/ Die(r)
  <2>1. PICK r \in Runs : Served(r)
    BY <1>2 DEF Served
  <2> QED
    BY <2>1, ServedOnly DEF Only, Moved
<1>3. CASE \E r \in Runs, t \in Targets : Spawn(r, t)
  <2>1. PICK r \in Runs, t \in Targets : Create(r, t)
    BY <1>3 DEF Spawn
  <2>2. t \in Tables
    BY TablesAssumption
  <2> QED
    BY <2>1, <2>2, CreateMoves DEF Only, Moved
<1>4. CASE BatchFault \/ BatchLeaves
  BY <1>4, LeaveMoves DEF BatchFault, BatchLeaves
<1>5. CASE run' = run
  BY <1>5 DEF Moved, TypeOK
<1>6. Begin \/ (\E r \in Runs : Poll(r)) \/ End \/ Tick => run' = run
  BY DEF Begin, Poll, End, Tick
<1> QED
  BY <1>1, <1>2, <1>3, <1>4, <1>5, <1>6 DEF Next, Orchestrate

\* What a thread leaves alone.
LEMMA ServedSame ==
  ASSUME NEW r \in Runs, Served(r)
  PROVE  /\ clock' = clock
         /\ Enqueue(r) \/ batch' = batch
<1>1. CASE Enqueue(r)
  BY <1>1 DEF Enqueue
<1>2. CASE Served(r) /\ ~ Enqueue(r)
  <2>1. UNCHANGED <<clock, batch>>
    BY <1>2, Zenon DEF Served, Serve, Start, Resolve, Open, Read, SparkFails, SparkTimesOut, Save,
       FinishJob, Finalize, FailMark, FailRun, FailJob, Fault, Die
  <2> QED
    BY <2>1
<1> QED
  BY <1>1, <1>2

LEMMA ClockMoves == ASSUME TypeOK, Next PROVE clock' \in 1..MaxClock /\ clock' \in Nat /\ clock' >= clock
<1>1. clock \in Nat /\ clock \in 1..MaxClock /\ MaxClock \in Nat
  BY ClockType, NumbersAssumption
<1>2. CASE \E r \in Runs : Serve(r) \/ Fault(r) \/ Die(r)
  BY <1>1, <1>2, ServedSame DEF Served
<1>3. CASE Tick
  BY <1>1, <1>3 DEF Tick
<1>4. CASE ~ Tick /\ ~ \E r \in Runs : Serve(r) \/ Fault(r) \/ Die(r)
  <2>1. clock' = clock
    BY <1>4 DEF Next, Launch, Orchestrate, Begin, Spawn, Poll, End, BatchFault, BatchLeaves, Leave
  <2> QED
    BY <1>1, <2>1
<1> QED
  BY <1>2, <1>3, <1>4

-----------------------------------------------------------------------------
(* What is profiled stays profiled, and no window leaves a gap before it.  *)

Placed == \A r \in Runs : run[r].stage # "free" => run[r].table \in Tables

Fitting == \A r \in Runs : Fits(run[r]) /\ Covers(run[r])

\* A window starts at the beginning, or where that of a run that succeeded ends.
Follows(t, s) == s \in {0, Floor[t]} \cup Ends(t)

Prefixes == \A r \in Runs : run[r].stage \in Reading => Follows(run[r].table, run[r].start)

Marks == \A r \in Runs : run[r].mark = "success" => ProfiledTo(run[r].table, run[r].end)

LEMMA ServedOnItsWay == ASSUME NEW r \in Runs, Served(r) PROVE OnItsWay(r)
BY Zenon DEF Served, Serve, Enqueue, Start, Resolve, Open, Read, SparkFails, SparkTimesOut,
   Save, FinishJob, Finalize, FailMark, FailRun, FailJob, Fault, Die, OnItsWay

LEMMA PlacedStep == TypeOK /\ Placed /\ Fitting /\ Accounted /\ Next => Placed'
<1> SUFFICES ASSUME TypeOK, Placed, Fitting, Accounted, Next,
                    NEW r \in Runs, run'[r].stage # "free"
             PROVE  run'[r].table \in Tables
  BY DEF Placed
<1>1. Moved(r)
  BY Moves DEF Placed
<1>2. CASE Served(r)
  <2>1. run'[r].table = run[r].table
    BY <1>2, ServedFits DEF Fitting, Kept
  <2>2. run[r].stage # "free"
    BY <1>2, Zenon DEF Served, Serve, Enqueue, Start, Resolve, Open, Read, SparkFails, SparkTimesOut,
       Save, FinishJob, Finalize, FailMark, FailRun, FailJob, Fault, Die, OnItsWay
  <2> QED
    BY <2>1, <2>2 DEF Placed
<1>3. ASSUME NEW t \in Tables, run'[r] = Created(t) PROVE run'[r].table \in Tables
  BY <1>3 DEF Created, Free
<1>4. CASE r = batch.creating /\ run'[r] = [run[r] EXCEPT !.stage = "dead"]
  <2>1. run[r].stage = "created" /\ run[r] \in Run
    BY <1>4, TablesAssumption DEF Accounted, TypeOK
  <2>2. run'[r].table = run[r].table
    BY <1>4, <2>1 DEF Run
  <2> QED
    BY <2>1, <2>2 DEF Placed
<1> QED
  BY <1>1, <1>2, <1>3, <1>4 DEF Moved, Placed

LEMMA FittingStep == TypeOK /\ Placed /\ Fitting /\ Accounted /\ Next => Fitting'
<1> SUFFICES ASSUME TypeOK, Placed, Fitting, Accounted, Next, NEW r \in Runs
             PROVE  Fits(run'[r]) /\ Covers(run[r])'
  BY DEF Fitting
<1>1. Moved(r) /\ run[r] \in Run /\ Fits(run[r]) /\ Covers(run[r])
  BY Moves DEF Placed, Fitting, TypeOK
<1>2. clock \in Nat /\ clock' \in Nat /\ clock' >= clock
  BY ClockMoves, ClockType
<1>3. CASE run'[r] = run[r]
  <2>1. run[r].end \in Nat
    BY <1>1 DEF Run
  <2> QED
    BY <1>1, <1>2, <1>3, <2>1 DEF Covers
<1>4. CASE Served(r)
  BY <1>1, <1>4, ServedFits
<1>5. ASSUME NEW t \in Tables, run'[r] = Created(t) PROVE Fits(run'[r]) /\ Covers(run[r])'
  BY <1>2, <1>5 DEF Created, Free, Fits, Covers
<1>6. CASE r = batch.creating /\ run'[r] = [run[r] EXCEPT !.stage = "dead"]
  <2>1. run[r].stage = "created"
    BY <1>6, TablesAssumption DEF Accounted
  <2> QED
    BY <1>1, <1>2, <1>6, <2>1 DEF Fits, Covers, Run
<1> QED
  BY <1>1, <1>3, <1>4, <1>5, <1>6 DEF Moved

\* A profile that was saved stays.
Stays(r) ==
  run[r].saved => run'[r].saved /\ run'[r].rows = run[r].rows /\ run'[r].table = run[r].table

LEMMA ProfilesStay ==
  ASSUME TypeOK, Placed, Fitting, Next, NEW r \in Runs
  PROVE  Stays(r)
<1>1. Moved(r) /\ run[r] \in Run
  BY Moves DEF Placed, TypeOK
<1>2. CASE Served(r)
  BY <1>2, ServedFits DEF Fitting, Kept, Stays
<1>3. CASE run[r] = Free
  BY <1>3 DEF Free, Stays
<1>4. CASE run'[r] = [run[r] EXCEPT !.stage = "dead"]
  BY <1>1, <1>4 DEF Stays, Run
<1> QED
  BY <1>1, <1>2, <1>3, <1>4 DEF Moved, Stays

\* A window that counts goes on to.
LEMMA EndsGrow ==
  ASSUME TypeOK, Placed, Fitting, Next, NEW t
  PROVE  Ends(t) \subseteq Ends(t)'
<1> SUFFICES ASSUME NEW r \in Runs, run[r].table = t, run[r].mark = "success"
             PROVE  run'[r].table = t /\ run'[r].mark = "success" /\ run'[r].end = run[r].end
  BY DEF Ends
<1>1. Moved(r) /\ run[r] \in Run
  BY Moves DEF Placed, TypeOK
<1>2. run[r].stage = "over"
  BY DEF Fitting, Fits
<1>3. ~ Served(r)
  BY <1>2, ServedOnItsWay DEF OnItsWay
<1>4. CASE run[r] = Free
  BY <1>4 DEF Free
<1>5. CASE run'[r] = [run[r] EXCEPT !.stage = "dead"]
  BY <1>1, <1>5 DEF Run
<1> QED
  BY <1>1, <1>3, <1>4, <1>5 DEF Moved

LEMMA ProfiledGrows ==
  ASSUME TypeOK, Placed, Fitting, Next, NEW t, NEW n, ProfiledTo(t, n)
  PROVE  ProfiledTo(t, n)'
<1> SUFFICES ASSUME NEW i \in 1..n, Floor[t] < Stamp[t][i], Stamp[t][i] <= n
             PROVE  i \in Profiled(t)' \/ Late(t, i)'
  BY DEF ProfiledTo
<1>1. CASE i \in Profiled(t)
  <2>1. PICK r \in Runs : run[r].table = t /\ run[r].saved /\ i \in run[r].rows
    BY <1>1 DEF Profiled
  <2>2. run'[r].table = t /\ run'[r].saved /\ i \in run'[r].rows
    BY <2>1, ProfilesStay DEF Stays
  <2> QED
    BY <2>2 DEF Profiled
<1>2. CASE Late(t, i)
  BY <1>2, EndsGrow DEF Late
<1> QED
  BY <1>1, <1>2 DEF ProfiledTo

LEMMA WindowFollows ==
  ASSUME TypeOK, NEW r \in Runs, Resolve(r), NEW t, t = run[r].table, NEW s, s = run'[r].start
  PROVE  Follows(t, s)
<1>1. run[r].stage = "started" /\ run[r] \in Run
  BY DEF Resolve, TypeOK
<1>2. PICK n \in (0..clock) \cup {Floor[t]} :
        /\ Window(t, n, run[r].end)
        /\ run'[r] = [run[r] EXCEPT !.stage = "resolved", !.start = n]
  BY DEF Resolve, TypeOK
<1>3. n = s
  BY <1>1, <1>2 DEF Run
<1> QED
  BY <1>2, <1>3 DEF Window, Follows

LEMMA PrefixesStep ==
  ASSUME TypeOK, Placed, Fitting, Accounted, Prefixes, Next
  PROVE  Prefixes'
<1> SUFFICES ASSUME NEW r \in Runs, run'[r].stage \in Reading
             PROVE  Follows(run[r].table, run[r].start)'
  BY DEF Prefixes, Reading
<1> PICK t, n : t = run'[r].table /\ n = run'[r].start
  OBVIOUS
<1>1. Moved(r) /\ run[r] \in Run
  BY Moves DEF Placed, TypeOK
<1>2. Follows(t, n)
  <2>1. CASE run'[r] = run[r]
    BY <2>1 DEF Prefixes
  <2>2. CASE Served(r)
    <3>1. run'[r].table = run[r].table
      BY <2>2, ServedFits DEF Fitting, Kept
    <3>2. CASE Resolve(r)
      BY <3>1, <3>2, WindowFollows
    <3>3. CASE run[r].stage \in Reading /\ run'[r].start = run[r].start
      BY <3>1, <3>3 DEF Prefixes
    <3> QED
      BY <2>2, <3>2, <3>3, ServedFits DEF Fitting, Kept
  <2>3. ASSUME NEW d \in Tables, run'[r] = Created(d) PROVE FALSE
    BY <2>3 DEF Created, Free, Reading
  <2>4. CASE run'[r] = [run[r] EXCEPT !.stage = "dead"]
    BY <1>1, <2>4 DEF Run, Reading
  <2> QED
    BY <1>1, <2>1, <2>2, <2>3, <2>4 DEF Moved
<1>3. Follows(t, n)'
  BY <1>2, EndsGrow DEF Follows
<1> QED
  BY <1>3 DEF Follows, Ends

\* A run that succeeds has read on from there.
LEMMA FinalizeFollows ==
  ASSUME TypeOK, Placed, Fitting, Prefixes, Marks, NEW r \in Runs, Finalize(r),
         NEW t, t = run[r].table, NEW n, n = run[r].end
  PROVE  ProfiledTo(t, n)
<1>1. run[r].stage = "finished" /\ run[r] \in Run /\ Fits(run[r]) /\ Covers(run[r])
  BY DEF Finalize, TypeOK, Fitting
<1>2. /\ run[r].saved /\ run[r].start \in Nat /\ n \in Nat /\ n <= clock
      /\ t \in Tables /\ clock \in Nat
  BY <1>1, ClockType DEF Fits, Covers, Run, Placed
<1> SUFFICES ASSUME NEW i \in 1..n, Floor[t] < Stamp[t][i], Stamp[t][i] <= n
             PROVE  i \in Profiled(t) \/ Late(t, i)
  BY DEF ProfiledTo
<1>3. Stamp[t][i] \in Nat /\ Floor[t] \in Nat /\ i \in Nat
  BY <1>2, StampType
<1>4. CASE run[r].start < Stamp[t][i]
  <2>1. i \in run[r].rows
    BY <1>1, <1>4 DEF Covers
  <2> QED
    BY <1>2, <2>1 DEF Profiled
<1>5. CASE ~ run[r].start < Stamp[t][i]
  <2>1. Stamp[t][i] <= run[r].start
    BY <1>2, <1>3, <1>5
  <2>2. run[r].start # 0 /\ run[r].start # Floor[t]
    BY <1>2, <1>3, <2>1
  <2>3. run[r].start \in Ends(t)
    BY <1>1, <2>2 DEF Prefixes, Reading, Follows
  <2>4. CASE run[r].start < i
    BY <2>1, <2>3, <2>4 DEF Late
  <2>5. CASE ~ run[r].start < i
    <3>1. i \in 1..run[r].start
      BY <1>2, <1>3, <2>5
    <3>2. PICK q \in Runs : run[q].table = t /\ run[q].mark = "success" /\ run[q].end = run[r].start
      BY <2>3 DEF Ends
    <3>3. ProfiledTo(t, run[r].start)
      BY <3>2 DEF Marks
    <3> QED
      BY <2>1, <3>1, <3>3 DEF ProfiledTo
  <2> QED
    BY <2>4, <2>5
<1> QED
  BY <1>4, <1>5

LEMMA MarksStep ==
  ASSUME TypeOK, Placed, Fitting, Accounted, Prefixes, Marks, Next
  PROVE  Marks'
<1> SUFFICES ASSUME NEW r \in Runs, run'[r].mark = "success"
             PROVE  ProfiledTo(run[r].table, run[r].end)'
  BY DEF Marks
<1> PICK t, n : t = run'[r].table /\ n = run'[r].end
  OBVIOUS
<1>1. Moved(r) /\ run[r] \in Run
  BY Moves DEF Placed, TypeOK
<1>2. ProfiledTo(t, n)
  <2>1. CASE run'[r] = run[r]
    BY <2>1 DEF Marks
  <2>2. CASE Served(r)
    <3>1. run'[r].table = run[r].table /\ run'[r].end = run[r].end
      BY <2>2, ServedFits DEF Fitting, Kept
    <3>2. CASE Finalize(r)
      BY <3>1, <3>2, FinalizeFollows
    <3>3. CASE run[r].mark = "success"
      BY <3>1, <3>3 DEF Marks
    <3> QED
      BY <2>2, <3>2, <3>3, ServedFits DEF Fitting, Kept
  <2>3. ASSUME NEW d \in Tables, run'[r] = Created(d) PROVE FALSE
    BY <2>3 DEF Created, Free
  <2>4. CASE run'[r] = [run[r] EXCEPT !.stage = "dead"]
    BY <1>1, <2>4 DEF Run, Marks
  <2> QED
    BY <1>1, <2>1, <2>2, <2>3, <2>4 DEF Moved
<1>3. ProfiledTo(t, n)'
  BY <1>2, ProfiledGrows
<1> QED
  BY <1>3 DEF ProfiledTo

\* The batch stays a batch, and no table is asked for again.
LEMMA BatchMoves == ASSUME TypeOK, Next PROVE batch' \in Batch /\ batch'.pending \subseteq batch.pending
<1>0. batch \in Batch
  BY DEF TypeOK
<1>1. ASSUME NEW r \in Runs, Enqueue(r) PROVE batch' \in Batch /\ batch'.pending \subseteq batch.pending
  <2>1. CASE r = batch.creating
    <3>1. batch' = [batch EXCEPT !.creating = NoRun, !.active = @ \cup {r}]
      BY <1>1, <2>1 DEF Enqueue
    <3> QED
      BY <1>0, <3>1 DEF Batch
  <2> QED
    BY <1>0, <1>1, <2>1 DEF Enqueue
<1>2. CASE \E r \in Runs : Serve(r) \/ Fault(r) \/ Die(r)
  <2>1. PICK r \in Runs : Served(r)
    BY <1>2 DEF Served
  <2> QED
    BY <1>0, <1>1, <2>1, ServedSame
<1>3. CASE Begin
  BY <1>0, <1>3 DEF Begin, Batch
<1>4. ASSUME NEW r \in Runs, NEW t \in Targets, Spawn(r, t)
      PROVE  batch' \in Batch /\ batch'.pending \subseteq batch.pending
  <2>1. batch' = [batch EXCEPT !.pending = @ \ {t}, !.creating = r, !.children = @ \cup {r}]
    BY <1>4 DEF Spawn
  <2> QED
    BY <1>0, <2>1 DEF Batch
<1>5. ASSUME NEW r \in Runs, Poll(r) PROVE batch' \in Batch /\ batch'.pending \subseteq batch.pending
  <2>1. PICK f \in BOOLEAN : batch' = [batch EXCEPT !.active = @ \ {r}, !.failures = f]
    BY <1>0, <1>5 DEF Poll, Batch
  <2> QED
    BY <1>0, <2>1 DEF Batch
<1>6. CASE End
  <2>1. PICK st \in {"failed", "success"} : batch' = [batch EXCEPT !.status = st]
    BY <1>6 DEF End
  <2> QED
    BY <1>0, <2>1 DEF Batch
<1>7. CASE BatchFault \/ BatchLeaves
  <2>1. PICK st \in {"queued", "running", "success", "failed"} :
          batch' = [batch EXCEPT !.status = st, !.live = FALSE, !.creating = NoRun]
    BY <1>0, <1>7 DEF BatchFault, BatchLeaves, Leave, Batch
  <2> QED
    BY <1>0, <2>1 DEF Batch
<1>8. CASE (\E r \in Runs, t \in Tables : Launch(r, t)) \/ Tick
  BY <1>0, <1>8 DEF Launch, Tick
<1> QED
  BY <1>2, <1>3, <1>4, <1>5, <1>6, <1>7, <1>8 DEF Next, Orchestrate

LEMMA TypeStep == ASSUME TypeOK, Placed, Next PROVE TypeOK'
<1>1. run' \in [Runs -> Run] /\ batch' \in Batch /\ clock' \in 1..MaxClock
  BY Moves, BatchMoves, ClockMoves DEF Placed
<1> QED
  BY <1>1 DEF TypeOK

-----------------------------------------------------------------------------
(* What a batch tells.                                                     *)

LEMMA TableStays ==
  ASSUME TypeOK, Placed, Fitting, Next, NEW r \in Runs, run[r].table \in Tables
  PROVE  run'[r].table = run[r].table /\ (run[r].saved => run'[r].saved)
<1>1. Moved(r) /\ run[r] \in Run
  BY Moves DEF Placed, TypeOK
<1>2. CASE Served(r)
  BY <1>2, ServedFits DEF Fitting, Kept
<1>3. CASE run[r] = Free
  BY <1>3, TablesAssumption DEF Free
<1>4. CASE run'[r] = [run[r] EXCEPT !.stage = "dead"]
  BY <1>1, <1>4 DEF Run
<1> QED
  BY <1>1, <1>2, <1>3, <1>4 DEF Moved

\* A run that the batch is creating is nobody else's.
LEMMA CreatingStays ==
  ASSUME TypeOK, Placed, Accounted, Next, batch.creating \in Runs, batch'.creating = batch.creating
  PROVE  run'[batch.creating].stage = "created"
<1> DEFINE c == batch.creating
<1>0. run[c].stage = "created" /\ batch \in Batch /\ c # NoRun
  BY TablesAssumption DEF Accounted, TypeOK
<1>1. Moved(c)
  BY Moves DEF Placed
<1>2. CASE Served(c)
  <2>1. Enqueue(c)
    BY <1>0, <1>2 DEF Served, Serve, Start, Resolve, Open, Read, SparkFails, SparkTimesOut, Save,
       FinishJob, Finalize, FailMark, FailRun, FailJob, Fault, Die
  <2>2. batch'.creating = NoRun
    BY <1>0, <2>1 DEF Enqueue, Batch
  <2> QED
    BY <1>0, <2>2
<1>3. CASE run[c] = Free
  BY <1>0, <1>3 DEF Free
<1>4. CASE batch'.creating = NoRun
  BY <1>0, <1>4
<1> QED
  BY <1>0, <1>1, <1>2, <1>3, <1>4 DEF Moved

\* A table of the batch that is not lost.
Told(t) ==
  \/ t \in batch.pending
  \/ \E r \in batch.children :
       run[r].table = t /\ (r = batch.creating \/ r \in batch.active \/ run[r].saved)

\* A table stays accounted for while the batch keeps what it has of it.
LEMMA ToldStays ==
  ASSUME TypeOK, Placed, Fitting, Next, NEW t \in Targets, Told(t),
         t \in batch.pending => t \in batch'.pending,
         batch.children \subseteq batch'.children,
         batch.creating \in Runs =>
           batch'.creating = batch.creating \/ batch.creating \in batch'.active,
         \A r \in batch.active : run[r].table = t => r \in batch'.active \/ run[r].saved
  PROVE  Told(t)'
<1>1. batch \in Batch /\ t \in Tables
  BY TablesAssumption DEF TypeOK
<1>2. CASE t \in batch.pending
  BY <1>2 DEF Told
<1>3. ASSUME NEW r \in batch.children, run[r].table = t,
             r = batch.creating \/ r \in batch.active \/ run[r].saved
      PROVE  Told(t)'
  <2>1. r \in Runs
    BY <1>1, <1>3 DEF Batch
  <2>2. run'[r].table = t /\ (run[r].saved => run'[r].saved)
    BY <1>1, <1>3, <2>1, TableStays
  <2> QED
    BY <1>3, <2>1, <2>2 DEF Told
<1> QED
  BY <1>2, <1>3 DEF Told

\* Nothing of the batch changes.
LEMMA SameBatch ==
  ASSUME TypeOK, Placed, Fitting, Accounted, BatchTold, Next, batch' = batch
  PROVE  Accounted' /\ BatchTold'
<1>1. batch \in Batch
  BY DEF TypeOK
<1>2. batch.creating # NoRun => run'[batch.creating].stage = "created"
  BY <1>1, CreatingStays DEF Batch
<1>3. \A t \in Targets : Told(t) => Told(t)'
  BY ToldStays
<1>4. \A t \in Targets : \A r \in batch.children :
        run[r].table = t /\ run[r].saved => run'[r].table = t /\ run'[r].saved
  BY <1>1, TableStays, TablesAssumption DEF Batch
<1>5. BatchTold'
  BY <1>4 DEF BatchTold
<1>6. batch.status = "running" /\ batch.live /\ ~ batch.failures => \A t \in Targets : Told(t)'
  BY <1>3 DEF Accounted, Told
<1> QED
  BY <1>2, <1>5, <1>6 DEF Accounted, Told

LEMMA EnqueueAccounted ==
  ASSUME TypeOK, Placed, Fitting, Accounted, BatchTold, Next,
         NEW r \in Runs, Enqueue(r), r = batch.creating
  PROVE  Accounted' /\ BatchTold'
<1>1. batch \in Batch /\ r # NoRun /\ r \in batch.children
  BY TablesAssumption DEF TypeOK, Accounted
<1>2. batch' = [batch EXCEPT !.creating = NoRun, !.active = @ \cup {r}]
  BY DEF Enqueue
<1>3. /\ batch'.creating = NoRun /\ batch'.active = batch.active \cup {r}
      /\ batch'.pending = batch.pending /\ batch'.children = batch.children
      /\ batch'.status = batch.status /\ batch'.live = batch.live /\ batch'.failures = batch.failures
  BY <1>1, <1>2 DEF Batch
<1>4. \A t \in Targets : Told(t) => Told(t)'
  BY <1>3, ToldStays
<1>5. BatchTold'
  <2>1. \A t \in Targets : \A q \in batch.children :
          run[q].table = t /\ run[q].saved => run'[q].table = t /\ run'[q].saved
    BY <1>1, TableStays, TablesAssumption DEF Batch
  <2> QED
    BY <1>3, <2>1 DEF BatchTold
<1>6. batch'.status = "running" /\ batch'.live /\ ~ batch'.failures => \A t \in Targets : Told(t)'
  BY <1>3, <1>4 DEF Accounted, Told
<1> QED
  BY <1>1, <1>3, <1>5, <1>6 DEF Accounted, Told

LEMMA BeginAccounted ==
  ASSUME TypeOK, Accounted, Begin
  PROVE  Accounted' /\ BatchTold'
<1>1. batch \in Batch
  BY DEF TypeOK
<1>2. /\ batch'.creating = batch.creating /\ batch'.active = batch.active
      /\ batch'.pending = batch.pending /\ batch'.children = batch.children
      /\ batch'.status = "running" /\ run' = run
  BY <1>1 DEF Begin, Batch
<1>3. batch.pending = Targets
  BY DEF Begin, Accounted
<1> QED
  BY <1>2, <1>3 DEF Accounted, BatchTold

LEMMA SpawnAccounted ==
  ASSUME TypeOK, Placed, Fitting, Accounted, Next, NEW r \in Runs, NEW d \in Targets, Spawn(r, d)
  PROVE  Accounted' /\ BatchTold'
<1>1. batch \in Batch /\ d \in Tables /\ r # NoRun
  BY TablesAssumption DEF TypeOK
<1>2. batch' = [batch EXCEPT !.pending = @ \ {d}, !.creating = r, !.children = @ \cup {r}]
  BY DEF Spawn
<1>3. /\ batch'.creating = r /\ batch'.active = batch.active
      /\ batch'.pending = batch.pending \ {d} /\ batch'.children = batch.children \cup {r}
      /\ batch'.status = batch.status /\ batch'.live = batch.live /\ batch'.failures = batch.failures
  BY <1>1, <1>2 DEF Batch
<1>4. batch.status = "running" /\ batch.creating = NoRun
  BY DEF Spawn, Idle
<1>5. run'[r].table = d /\ run'[r].stage = "created"
  <2>1. run'[r] = Created(d)
    BY <1>1, CreateMoves DEF Spawn
  <2> QED
    BY <2>1 DEF Created, Free
<1>6. Told(d)'
  BY <1>3, <1>5 DEF Told
<1>7. ASSUME NEW t \in Targets, t # d, Told(t) PROVE Told(t)'
  <2>1. batch.creating \notin Runs
    BY <1>4, TablesAssumption
  <2> QED
    BY <1>3, <1>7, <2>1, ToldStays
<1>8. batch'.status = "running" /\ batch'.live /\ ~ batch'.failures => \A t \in Targets : Told(t)'
  BY <1>3, <1>6, <1>7 DEF Accounted, Told
<1> QED
  BY <1>3, <1>4, <1>5, <1>8 DEF Accounted, BatchTold, Told

LEMMA PollAccounted ==
  ASSUME TypeOK, Placed, Fitting, Accounted, Next, NEW r \in Runs, Poll(r)
  PROVE  Accounted' /\ BatchTold'
<1>1. batch \in Batch /\ run[r] \in Run /\ Fits(run[r])
  BY DEF TypeOK, Fitting
<1>2. PICK f \in BOOLEAN :
        /\ batch' = [batch EXCEPT !.active = @ \ {r}, !.failures = f]
        /\ ~ f => ~ batch.failures /\ run[r].job \notin {"failed", "timeout"}
  BY <1>1 DEF Poll, Batch
<1>3. /\ batch'.creating = batch.creating /\ batch'.active = batch.active \ {r}
      /\ batch'.pending = batch.pending /\ batch'.children = batch.children
      /\ batch'.status = batch.status /\ batch'.live = batch.live /\ batch'.failures = f
  BY <1>1, <1>2 DEF Batch
<1>4. batch.status = "running" /\ batch.creating = NoRun /\ run[r].job \in Terminal
  BY DEF Poll, Idle
<1>5. ~ f => run[r].saved
  BY <1>1, <1>2, <1>4 DEF Terminal, Fits
<1>6. ASSUME ~ f, NEW t \in Targets, Told(t) PROVE Told(t)'
  <2>1. batch.creating \notin Runs
    BY <1>4, TablesAssumption
  <2> QED
    BY <1>3, <1>5, <1>6, <2>1, ToldStays
<1>7. batch'.status = "running" /\ batch'.live /\ ~ batch'.failures => \A t \in Targets : Told(t)'
  BY <1>2, <1>3, <1>6 DEF Accounted, Told
<1> QED
  BY <1>3, <1>4, <1>7 DEF Accounted, BatchTold, Told

LEMMA EndAccounted ==
  ASSUME TypeOK, Accounted, End
  PROVE  Accounted' /\ BatchTold'
<1>1. batch \in Batch
  BY DEF TypeOK
<1>2. /\ batch'.creating = NoRun /\ batch'.active = {} /\ batch'.children = batch.children
      /\ batch'.status = (IF batch.failures THEN "failed" ELSE "success") /\ run' = run
      /\ batch.pending = {} /\ batch.active = {} /\ batch.creating = NoRun
      /\ batch.status = "running" /\ batch.live
  BY <1>1 DEF End, Idle, Batch
<1>3. ASSUME ~ batch.failures, NEW t \in Targets
      PROVE  \E r \in batch.children : run[r].table = t /\ run[r].saved
  <2>1. PICK r \in batch.children : run[r].table = t /\ (r = NoRun \/ run[r].saved)
    BY <1>2, <1>3 DEF Accounted
  <2>2. r # NoRun
    BY <1>1, TablesAssumption DEF Batch
  <2> QED
    BY <2>1, <2>2
<1> QED
  BY <1>2, <1>3 DEF Accounted, BatchTold

LEMMA LeaveAccounted ==
  ASSUME TypeOK, Placed, Fitting, Accounted, BatchTold, Next, BatchFault \/ BatchLeaves
  PROVE  Accounted' /\ BatchTold'
<1>1. batch \in Batch
  BY DEF TypeOK
<1>2. PICK st : /\ batch' = [batch EXCEPT !.status = st, !.live = FALSE, !.creating = NoRun]
                /\ st = "failed" \/ st = batch.status
  BY DEF BatchFault, BatchLeaves, Leave
<1>3. /\ batch'.creating = NoRun /\ batch'.active = batch.active /\ batch'.children = batch.children
      /\ batch'.status = st /\ ~ batch'.live
  BY <1>1, <1>2 DEF Batch
<1>4. \A t \in Targets : \A q \in batch.children :
        run[q].table = t /\ run[q].saved => run'[q].table = t /\ run'[q].saved
  BY <1>1, TableStays, TablesAssumption DEF Batch
<1> QED
  BY <1>2, <1>3, <1>4 DEF Accounted, BatchTold

LEMMA AccountedStep ==
  ASSUME TypeOK, Placed, Fitting, Accounted, BatchTold, Next
  PROVE  Accounted' /\ BatchTold'
<1>1. CASE \E r \in Runs : Serve(r) \/ Fault(r) \/ Die(r)
  <2>1. PICK r \in Runs : Served(r)
    BY <1>1 DEF Served
  <2>2. batch' = batch \/ (Enqueue(r) /\ r = batch.creating)
    <3>1. CASE Enqueue(r)
      BY <3>1 DEF Enqueue
    <3> QED
      BY <2>1, <3>1, ServedSame
  <2> QED
    BY <2>2, SameBatch, EnqueueAccounted
<1>2. CASE (\E r \in Runs, t \in Tables : Launch(r, t)) \/ Tick
  <2>1. batch' = batch
    BY <1>2 DEF Launch, Tick
  <2> QED
    BY <2>1, SameBatch
<1> QED
  BY <1>1, <1>2, BeginAccounted, SpawnAccounted, PollAccounted, EndAccounted, LeaveAccounted
     DEF Next, Orchestrate

-----------------------------------------------------------------------------
(* The theorems.                                                           *)

LEMMA InvParts ==
  ProfilingInv <=> /\ TypeOK /\ Fitting /\ Prefixes /\ Marks /\ Placed
                   /\ BatchTold /\ Accounted
BY DEF ProfilingInv, Fitting, Prefixes, Follows, Marks, NothingSkipped, Placed

LEMMA InvInit == Init => ProfilingInv
<1> SUFFICES ASSUME Init PROVE ProfilingInv
  OBVIOUS
<1>1. \A r \in Runs : run[r] = Free
  BY DEF Init
<1>2. TypeOK
  <2>1. run \in [Runs -> Run] /\ clock \in 1..MaxClock
    BY FreeType, NumbersAssumption DEF Init
  <2>2. batch \in Batch
    BY DEF Init, Batch
  <2> QED
    BY <2>1, <2>2 DEF TypeOK
<1>3. Fitting /\ Prefixes /\ Marks /\ Placed
  BY <1>1, NumbersAssumption DEF Fitting, Prefixes, Marks, Placed, Free, Fits, Covers, Reading, Init
<1>6. BatchTold /\ Accounted
  BY DEF Init, BatchTold, Accounted
<1> QED
  BY <1>2, <1>3, <1>6, InvParts

LEMMA InvStep == ProfilingInv /\ [Next]_vars => ProfilingInv'
<1>1. CASE Next /\ ProfilingInv
  <2>1. /\ TypeOK /\ Fitting /\ Prefixes /\ Marks /\ Placed
        /\ BatchTold /\ Accounted /\ Next
    BY <1>1, InvParts
  <2>2. TypeOK' /\ Placed' /\ Fitting' /\ Prefixes' /\ Marks'
    BY <2>1, TypeStep, PlacedStep, FittingStep, PrefixesStep, MarksStep
  <2>4. Accounted' /\ BatchTold'
    BY <2>1, AccountedStep
  <2> QED
    BY <2>2, <2>4
       DEF ProfilingInv, Fitting, Prefixes, Follows, Marks, NothingSkipped, Placed
<1>2. CASE UNCHANGED vars /\ ProfilingInv
  BY <1>2 DEF vars, ProfilingInv, TypeOK, Fits, Covers, NothingSkipped, ProfiledTo, Late, Ends, Profiled, BatchTold, Accounted
<1> QED
  BY <1>1, <1>2

\* Of every run of execute_profiling_job: how far its rows have come agrees with what
\* they say, and the batch accounts for its tables.
THEOREM Invariant == Spec => []ProfilingInv
BY InvInit, InvStep, PTL DEF Spec

\* The rows of runs and the batch have their types.
THEOREM Typed == Spec => []TypeOK
<1>1. ProfilingInv => TypeOK
  BY DEF ProfilingInv
<1> QED
  BY <1>1, Invariant, PTL

\* resolve_profiling_window and finalize_watermark_record lose no row, for any number
\* of overlapping runs, however they fail.
THEOREM Complete == Spec => []NothingSkipped
<1>1. ProfilingInv => NothingSkipped
  BY DEF ProfilingInv
<1> QED
  BY <1>1, Invariant, PTL

\* A record that counts belongs to a run whose profile and statuses stand.
THEOREM Standing == Spec => []MarkedStands
<1>1. ProfilingInv => MarkedStands
  BY DEF ProfilingInv, MarkedStands, Fits
<1> QED
  BY <1>1, Invariant, PTL

\* execute_schema_profiling_orchestration tells success of what was profiled only.
THEOREM Honest == Spec => []BatchTold
<1>1. ProfilingInv => BatchTold
  BY DEF ProfilingInv
<1> QED
  BY <1>1, Invariant, PTL

-----------------------------------------------------------------------------
(* The runs of a table are its watermark.                                  *)

\* What counts of a run for its table: the rows that it saved, and where it ended.
SameFor(r, t) ==
  /\ (run'[r].table = t /\ run'[r].saved) <=> (run[r].table = t /\ run[r].saved)
  /\ run[r].table = t /\ run[r].saved => run'[r].rows = run[r].rows
  /\ (run'[r].table = t /\ run'[r].mark = "success") <=> (run[r].table = t /\ run[r].mark = "success")
  /\ run[r].table = t /\ run[r].mark = "success" => run'[r].end = run[r].end

LEMMA SameMark ==
  ASSUME NEW t, \A r \in Runs : SameFor(r, t)
  PROVE  Profiled(t)' = Profiled(t) /\ Ends(t)' = Ends(t)
<1>1. {r \in Runs : run'[r].table = t /\ run'[r].saved} = {r \in Runs : run[r].table = t /\ run[r].saved}
  BY DEF SameFor
<1>2. {r \in Runs : run'[r].table = t /\ run'[r].mark = "success"}
        = {r \in Runs : run[r].table = t /\ run[r].mark = "success"}
  BY DEF SameFor
<1>3. Profiled(t)' = Profiled(t)
  BY <1>1 DEF Profiled, SameFor
<1>4. Ends(t)' = Ends(t)
  BY <1>2 DEF Ends, SameFor
<1> QED
  BY <1>3, <1>4

\* A run that no thread serves counts as before.
LEMMA UnservedSame ==
  ASSUME TypeOK, Placed, Fitting, Accounted, Next, NEW r \in Runs, ~ Served(r), NEW t \in Tables
  PROVE  SameFor(r, t)
<1>1. Moved(r) /\ run[r] \in Run
  BY Moves DEF Placed, TypeOK
<1>2. CASE run'[r] = run[r]
  BY <1>2 DEF SameFor
<1>3. ASSUME run[r] = Free, NEW d \in Tables, run'[r] = Created(d) PROVE SameFor(r, t)
  BY <1>3 DEF SameFor, Free, Created
<1>4. CASE run'[r] = [run[r] EXCEPT !.stage = "dead"]
  BY <1>1, <1>4 DEF SameFor, Run
<1> QED
  BY <1>1, <1>2, <1>3, <1>4 DEF Moved

\* A thread that works on does not count as successful yet.
LEMMA ServedUnmarked ==
  ASSUME Fitting, NEW r \in Runs, Served(r)
  PROVE  run[r].mark # "success"
BY ServedOnItsWay DEF Fitting, Fits, OnItsWay

LEMMA ServedMark ==
  ASSUME TypeOK, Placed, Fitting, Prefixes, Marks, Accounted, Next, NEW r \in Runs, Served(r)
  PROVE  \E t \in Tables : \/ Abstract!Profile(t)
                           \/ Abstract!Advance(t, run[r].end) /\ run[r].end \in Ends(t)'
<1>1. PICK t : t = run[r].table
  OBVIOUS
<1>2. t \in Tables /\ run'[r].table = t /\ Only(r)
  BY <1>1, ServedOnItsWay, ServedOnly, ServedFits DEF Placed, Fitting, OnItsWay, Kept
<1>3. \A q \in Runs : q # r => \A d \in Tables : SameFor(q, d)
  BY <1>2 DEF Only, SameFor
<1>4. ASSUME NEW d \in Tables, d # t PROVE Profiled(d)' = Profiled(d) /\ Ends(d)' = Ends(d)
  <2>1. SameFor(r, d)
    BY <1>1, <1>2, <1>4 DEF SameFor
  <2> QED
    BY <1>3, <2>1, SameMark
<1>5. CASE Finalize(r)
  <2>1. /\ run[r].mark # "success" /\ run'[r].mark = "success" /\ run'[r].end = run[r].end
        /\ run'[r].saved = run[r].saved /\ run'[r].rows = run[r].rows
    <3>1. run'[r] = [run[r] EXCEPT !.stage = "over", !.mark = "success"] /\ run[r] \in Run
      BY <1>5 DEF Finalize, TypeOK
    <3> QED
      BY <3>1, ServedUnmarked DEF Run
  <2>2. Profiled(t)' = Profiled(t)
    <3>1. {q \in Runs : run'[q].table = t /\ run'[q].saved} = {q \in Runs : run[q].table = t /\ run[q].saved}
      BY <1>1, <1>2, <2>1 DEF Only
    <3>2. \A q \in Runs : run'[q].rows = run[q].rows
      BY <1>2, <2>1 DEF Only
    <3> QED
      BY <3>1, <3>2 DEF Profiled
  <2>3. Ends(t)' = Ends(t) \cup {run[r].end}
    <3>1. {q \in Runs : run'[q].table = t /\ run'[q].mark = "success"}
            = {q \in Runs : run[q].table = t /\ run[q].mark = "success"} \cup {r}
      BY <1>1, <1>2, <2>1 DEF Only
    <3>2. \A q \in Runs : run'[q].end = run[q].end
      BY <1>2, <2>1 DEF Only
    <3> QED
      BY <3>1, <3>2 DEF Ends
  <2>4. Abstract!Complete(t, run[r].end)
    <3>1. ProfiledTo(t, run[r].end)
      BY <1>1, <1>5, FinalizeFollows
    <3>2. /\ [d \in Tables |-> Profiled(d)][t] = Profiled(t)
          /\ [d \in Tables |-> Ends(d)][t] = Ends(t)
      BY <1>2
    <3>3. \A i : Late(t, i) => Abstract!Late(t, i)
      BY <3>2 DEF Late, Abstract!Late
    <3> QED
      BY <3>1, <3>2, <3>3 DEF ProfiledTo, Abstract!Complete
  <2>5. [d \in Tables |-> Ends(d)]' = [[d \in Tables |-> Ends(d)] EXCEPT ![t] = @ \cup {run[r].end}]
    BY <1>2, <1>4, <2>3
  <2>6. [d \in Tables |-> Profiled(d)]' = [d \in Tables |-> Profiled(d)]
    BY <1>4, <2>2
  <2>7. run[r].end \in Ends(t)'
    BY <2>3
  <2> QED
    BY <1>2, <2>4, <2>5, <2>6, <2>7 DEF Abstract!Advance
<1>6. CASE ~ Finalize(r)
  <2>1. run[r].mark # "success" /\ run'[r].mark # "success"
    BY <1>6, ServedUnmarked, ServedFits DEF Fitting, Kept
  <2>2. Ends(t)' = Ends(t)
    <3>1. {q \in Runs : run'[q].table = t /\ run'[q].mark = "success"}
            = {q \in Runs : run[q].table = t /\ run[q].mark = "success"}
      BY <1>2, <2>1 DEF Only
    <3>2. \A q \in Runs : run[q].mark = "success" => run'[q].end = run[q].end
      BY <1>2, <2>1 DEF Only
    <3> QED
      BY <3>1, <3>2 DEF Ends
  <2>3. Profiled(t) \subseteq Profiled(t)'
    BY ProfilesStay DEF Profiled, Stays
  <2>4. [d \in Tables |-> Ends(d)]' = [d \in Tables |-> Ends(d)]
    BY <1>4, <2>2
  <2>5. [d \in Tables |-> Profiled(d)]'
          = [[d \in Tables |-> Profiled(d)] EXCEPT ![t] = @ \cup [d \in Tables |-> Profiled(d)]'[t]]
    BY <1>2, <1>4, <2>3
  <2> QED
    BY <1>2, <2>4, <2>5 DEF Abstract!Profile
<1> QED
  BY <1>5, <1>6

LEMMA MarkInit == Init => Abstract!Init
<1> SUFFICES ASSUME Init PROVE Abstract!Init
  OBVIOUS
<1>1. \A r \in Runs : ~ run[r].saved /\ run[r].mark # "success"
  BY DEF Init, Free
<1>2. ASSUME NEW t \in Tables PROVE Profiled(t) = {} /\ Ends(t) = {}
  BY <1>1 DEF Profiled, Ends
<1> QED
  BY <1>2 DEF Abstract!Init, Abstract!Nowhere

LEMMA MarkStep ==
  ASSUME ProfilingInv, [Next]_vars
  PROVE  [Abstract!Next]_<<[t \in Tables |-> Profiled(t)], [t \in Tables |-> Ends(t)]>>
<1>1. TypeOK /\ Placed /\ Fitting /\ Prefixes /\ Marks /\ Accounted
  BY InvParts
<1>2. CASE UNCHANGED vars
  BY <1>2 DEF vars, Profiled, Ends
<1>3. CASE Next /\ \E r \in Runs : Served(r)
  <2>1. PICK r \in Runs : Served(r)
    BY <1>3
  <2>2. PICK t \in Tables : \/ Abstract!Profile(t)
                            \/ Abstract!Advance(t, run[r].end) /\ run[r].end \in Ends(t)'
    BY <1>1, <1>3, <2>1, ServedMark
  <2>3. CASE Abstract!Profile(t)
    BY <2>3 DEF Abstract!Next
  <2>4. CASE Abstract!Advance(t, run[r].end) /\ run[r].end \in Ends(t)'
    <3>1. run[r].end \in [d \in Tables |-> Ends(d)]'[t]
      BY <2>4
    <3> QED
      BY <2>4, <3>1 DEF Abstract!Next
  <2> QED
    BY <2>2, <2>3, <2>4
<1>4. CASE Next /\ ~ \E r \in Runs : Served(r)
  <2>1. ASSUME NEW t \in Tables PROVE Profiled(t)' = Profiled(t) /\ Ends(t)' = Ends(t)
    BY <1>1, <1>4, UnservedSame, SameMark
  <2> QED
    BY <2>1
<1> QED
  BY <1>2, <1>3, <1>4

\* Profiling implements Watermark: for any number of runs of any tables that overlap,
\* fail, die or lose their column, finalize_watermark_record puts the watermark only
\* where every row before it is profiled, and no step takes a profile or a mark back.
THEOREM MarksAdvance == Spec => ImplementsWatermark
BY MarkInit, MarkStep, Invariant, PTL DEF Spec, ImplementsWatermark, Abstract!Spec

=============================================================================
