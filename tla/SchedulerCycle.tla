--------------------------- MODULE SchedulerCycle ---------------------------
(***************************************************************************)
(* One scheduler cycle of data quality rules, run by several processes:    *)
(* run_dq_scheduler_cycle (features/data_quality/scheduler.py) between     *)
(* maybe_start_integration_job and finish_integration_job (features/       *)
(* platform/jobs.py).  The dq-worker runs cycles in a loop; any request    *)
(* that runs the job by hand runs one in a thread of its API process.      *)
(*                                                                         *)
(* Three guards stand between two cycles: a lock per process, the running  *)
(* row of the job's key, and a PostgreSQL advisory lock.  The advisory     *)
(* lock belongs to a connection, and a session gives its connection back   *)
(* to the pool (QueuePool, core/db.py) at each commit, so that the         *)
(* connection that unlocks need not be the one that locked.  The job's own *)
(* advisory lock is not modelled: nothing reads whether it was obtained.   *)
(*                                                                         *)
(* A rule is dispatched in two commits of two sessions: its run and job    *)
(* are committed and its thread is started, and only then does the cycle   *)
(* commit that the rule has run.                                           *)
(***************************************************************************)
EXTENDS Naturals, FiniteSets

CONSTANTS
  Processes,  \* API replicas and the dq-worker
  Cycles,     \* the threads that run cycles
  Home,       \* [Cycles -> Processes]
  Looping,    \* the threads that run cycles in a loop; the others, by hand
  Conns,      \* database connections
  Pool,       \* [Processes -> SUBSET Conns]: the pool of a process's engine
  Ageing,     \* the processes that live long enough for a connection to be too old
  Rules,      \* scheduled rules
  MaxHolds,   \* bound: nested holds of the advisory lock by one connection
  MaxCrashes, \* bound: how many times processes crash
  MaxFaults,  \* bound: how many statements fail
  NoConn

ASSUME HomeAssumption   == Home \in [Cycles -> Processes]
ASSUME LoopAssumption   == Looping \subseteq Cycles
ASSUME PoolAssumption   == /\ Pool \in [Processes -> SUBSET Conns]
                           /\ \A p, q \in Processes : Pool[p] \cap Pool[q] # {} => p = q
ASSUME AgeAssumption    == Ageing \subseteq Processes
ASSUME NoConnAssumption == NoConn \notin Conns
ASSUME LimitsAssumption == /\ MaxHolds \in Nat \ {0}
                           /\ MaxCrashes \in Nat /\ MaxFaults \in Nat

VARIABLES
  cycle,      \* what each thread is doing
  threadLock, \* the processes whose entry of _JOB_LOCKS is held
  orphaned,   \* a running row that no cycle will ever finish exists
  advisory,   \* who holds the scheduler's advisory lock, and how many times
  due,        \* the rules that are due
  launched,   \* history: the runs of a rule each process started since it fell due
  crashes, faults

vars == <<cycle, threadLock, orphaned, advisory, due, launched, crashes, faults>>

-----------------------------------------------------------------------------
\* insert: it holds the process's lock and found no running row; gate: its row
\* is running; read: it holds the advisory lock; dispatch: it has read the due
\* rules; finish; release: it is about to release the advisory lock, which it
\* does whether or not it got it.  todo: the rules it has still to dispatch;
\* open: the rule whose run it started without having committed
\* schedule_last_run_at; late: the rules that fell due after it read its clock,
\* which it neither finds due nor, with the time it writes, settles.
CycleState ==
  [pc : {"idle", "insert", "gate", "read", "dispatch", "finish", "release"},
   conn : Conns \cup {NoConn},
   todo : SUBSET Rules, open : SUBSET Rules, late : SUBSET Rules]

At(pc, x, R, O, L) == [pc |-> pc, conn |-> x, todo |-> R, open |-> O, late |-> L]

Resting == At("idle", NoConn, {}, {}, {})

Unheld == [conn |-> NoConn, holds |-> 0]

TypeOK ==
  /\ cycle \in [Cycles -> CycleState]
  /\ threadLock \in SUBSET Processes
  /\ orphaned \in BOOLEAN
  /\ advisory \in [conn : Conns \cup {NoConn}, holds : 0 .. MaxHolds]
  /\ due \in SUBSET Rules
  /\ launched \in [Processes -> [Rules -> Nat]]
  /\ crashes \in 0 .. MaxCrashes
  /\ faults \in 0 .. MaxFaults

\* The connections of the process's pool that nobody has checked out.
Idle(p) == {x \in Pool[p] : \A c \in Cycles : cycle[c].conn # x}

\* What a cycle's session may work on after a commit.
Reconnect(c) == Idle(Home[c]) \cup {cycle[c].conn}

\* The cycle goes on at pc, on a connection x.
Onward(c, pc, x) == [cycle EXCEPT ![c].pc = pc, ![c].conn = x]

\* The cycle is over with its rules.
Leave(c, pc, x) == [cycle EXCEPT ![c] = At(pc, x, {}, {}, {})]

HasRow(c) == cycle[c].pc \in {"gate", "read", "dispatch", "finish"}

\* It reads the due rules, or dispatches them.
Inside(c) == cycle[c].pc \in {"read", "dispatch"}

RowRunning == orphaned \/ \E c \in Cycles : HasRow(c)

\* pg_advisory_unlock: it releases one hold if this connection has the lock.
Unlocked(x) ==
  IF advisory.conn # x THEN advisory
  ELSE IF advisory.holds = 1 THEN Unheld
  ELSE [conn |-> x, holds |-> advisory.holds - 1]

\* A connection that closes releases all it holds.
Closed(S) == IF advisory.conn \in S THEN Unheld ELSE advisory

Failing == faults < MaxFaults /\ faults' = faults + 1

-----------------------------------------------------------------------------
(* maybe_start_integration_job.                                            *)

\* Mutant of Start: there is no lock per process.
StartWithoutLock(c) ==
  /\ cycle[c].pc = "idle"
  /\ ~ RowRunning
  /\ threadLock' = threadLock \cup {Home[c]}
  /\ \E x \in Idle(Home[c]) : cycle' = Onward(c, "insert", x)
  /\ UNCHANGED <<orphaned, advisory, due, launched, crashes, faults>>

\* The process's lock is free and no row of the key is running.
Start(c) ==
  /\ cycle[c].pc = "idle"
  /\ Home[c] \notin threadLock
  /\ ~ RowRunning
  /\ threadLock' = threadLock \cup {Home[c]}
  /\ \E x \in Idle(Home[c]) : cycle' = Onward(c, "insert", x)
  /\ UNCHANGED <<orphaned, advisory, due, launched, crashes, faults>>

\* Mutant of Refuse: the process's lock is given back by whoever is refused.
RefuseReleases(c) ==
  /\ cycle[c].pc = "idle"
  /\ Home[c] \in threadLock \/ RowRunning
  /\ threadLock' = threadLock \ {Home[c]}
  /\ \E x \in Idle(Home[c]) : cycle' = Leave(c, "release", x)
  /\ UNCHANGED <<orphaned, advisory, due, launched, crashes, faults>>

\* 409: the process's lock is taken, or it is given back because a row is
\* running.  The cycle is skipped, and its finally block runs.
Refuse(c) ==
  /\ cycle[c].pc = "idle"
  /\ Home[c] \in threadLock \/ RowRunning
  /\ \E x \in Idle(Home[c]) : cycle' = Leave(c, "release", x)
  /\ UNCHANGED <<threadLock, orphaned, advisory, due, launched, crashes, faults>>

\* The row is committed as running.
Insert(c) ==
  /\ cycle[c].pc = "insert"
  /\ \E x \in Reconnect(c) : cycle' = Onward(c, "gate", x)
  /\ UNCHANGED <<threadLock, orphaned, advisory, due, launched, crashes, faults>>

\* A statement fails after the process's lock was taken: before the row is
\* committed, or after (the refresh).  There is no handle, so nothing releases
\* the lock or finishes the row.
InsertFails(c) ==
  /\ cycle[c].pc = "insert"
  /\ Failing
  /\ orphaned' \in {orphaned, TRUE}
  /\ \E x \in Reconnect(c) : cycle' = Leave(c, "release", x)
  /\ UNCHANGED <<threadLock, advisory, due, launched, crashes>>

-----------------------------------------------------------------------------
(* run_dq_scheduler_cycle.                                                 *)

\* pg_try_advisory_lock succeeds; the status update commits.
Enter(c) ==
  /\ cycle[c].pc = "gate"
  /\ advisory.conn \in {NoConn, cycle[c].conn}
  /\ advisory.holds < MaxHolds
  /\ advisory' = [conn |-> cycle[c].conn, holds |-> advisory.holds + 1]
  /\ \E x \in Reconnect(c) : cycle' = Onward(c, "read", x)
  /\ UNCHANGED <<threadLock, orphaned, due, launched, crashes, faults>>

\* pg_try_advisory_lock fails: _acquire_scheduler_lock says that it was obtained.
\* If the connection is lost, so is all it holds.
EnterOnError(c) ==
  /\ cycle[c].pc = "gate"
  /\ Failing
  /\ advisory' \in {advisory, Closed({cycle[c].conn})}
  /\ \E x \in Reconnect(c) : cycle' = Onward(c, "read", x)
  /\ UNCHANGED <<threadLock, orphaned, due, launched, crashes>>

\* lock_unavailable: the cycle is skipped.
Skip(c) ==
  /\ cycle[c].pc = "gate"
  /\ advisory.conn \notin {NoConn, cycle[c].conn}
  /\ \E x \in Reconnect(c) : cycle' = Leave(c, "finish", x)
  /\ UNCHANGED <<threadLock, orphaned, advisory, due, launched, crashes, faults>>

ReadDue(c) ==
  /\ cycle[c].pc = "read"
  /\ cycle' = [cycle EXCEPT ![c].pc = "dispatch", ![c].todo = due \ cycle[c].late]
  /\ UNCHANGED <<threadLock, orphaned, advisory, due, launched, crashes, faults>>

\* The gateway's sessions commit the rule's run and job and start its thread,
\* while the cycle's session, in a transaction, keeps its connection.
Launch(c, d) ==
  /\ cycle[c].pc = "dispatch"
  /\ cycle[c].open = {}
  /\ d \in cycle[c].todo
  /\ cycle' = [cycle EXCEPT ![c].todo = @ \ {d}, ![c].open = {d}]
  /\ launched' = IF d \in cycle[c].late THEN launched
                 ELSE [launched EXCEPT ![Home[c]][d] = @ + 1]
  /\ UNCHANGED <<threadLock, orphaned, advisory, due, crashes, faults>>

\* Mutant of CommitRule: the transaction with schedule_last_run_at is never
\* committed.
CommitRuleLost(c) ==
  /\ cycle[c].open # {}
  /\ \E x \in Reconnect(c) :
       cycle' = [cycle EXCEPT ![c].open = {}, ![c].conn = x]
  /\ UNCHANGED <<threadLock, orphaned, advisory, due, launched, crashes, faults>>

\* schedule_last_run_at is committed as the time the cycle read when it began.
CommitRule(c) ==
  /\ cycle[c].open # {}
  /\ due' = due \ (cycle[c].open \ cycle[c].late)
  /\ \E x \in Reconnect(c) :
       cycle' = [cycle EXCEPT ![c].open = {}, ![c].conn = x]
  /\ UNCHANGED <<threadLock, orphaned, advisory, launched, crashes, faults>>

\* The rule fails before its thread is started: it stays due.
LaunchFails(c, d) ==
  /\ cycle[c].pc = "dispatch"
  /\ cycle[c].open = {}
  /\ d \in cycle[c].todo
  /\ Failing
  /\ \E x \in Reconnect(c) :
       cycle' = [cycle EXCEPT ![c].todo = @ \ {d}, ![c].conn = x]
  /\ UNCHANGED <<threadLock, orphaned, advisory, due, launched, crashes>>

\* The commit fails, and is rolled back: the rule stays due although its run has
\* been started.
CommitFails(c) ==
  /\ cycle[c].open # {}
  /\ Failing
  /\ \E x \in Reconnect(c) :
       cycle' = [cycle EXCEPT ![c].open = {}, ![c].conn = x]
  /\ UNCHANGED <<threadLock, orphaned, advisory, due, launched, crashes>>

EndDispatch(c) ==
  /\ cycle[c].pc = "dispatch"
  /\ cycle[c].todo \cup cycle[c].open = {}
  /\ \E x \in Reconnect(c) : cycle' = Leave(c, "finish", x)
  /\ UNCHANGED <<threadLock, orphaned, advisory, due, launched, crashes, faults>>

\* Anything else raises: the cycle ends as failed.
GiveUp(c) ==
  /\ cycle[c].pc \in {"gate", "read", "dispatch"}
  /\ Failing
  /\ \E x \in Reconnect(c) : cycle' = Leave(c, "finish", x)
  /\ UNCHANGED <<threadLock, orphaned, advisory, due, launched, crashes>>

-----------------------------------------------------------------------------
(* finish_integration_job, and the end of the finally block.               *)

\* Mutant of Finish: the process's lock is not released.
FinishKeepsLock(c) ==
  /\ cycle[c].pc = "finish"
  /\ \E x \in Reconnect(c) : cycle' = Leave(c, "release", x)
  /\ UNCHANGED <<threadLock, orphaned, advisory, due, launched, crashes, faults>>

Finish(c) ==
  /\ cycle[c].pc = "finish"
  /\ threadLock' = threadLock \ {Home[c]}
  /\ \E x \in Reconnect(c) : cycle' = Leave(c, "release", x)
  /\ UNCHANGED <<orphaned, advisory, due, launched, crashes, faults>>

\* Its commit fails: the row stays running, the process's lock is released,
\* and the advisory lock is not.
FinishFails(c) ==
  /\ cycle[c].pc = "finish"
  /\ Failing
  /\ threadLock' = threadLock \ {Home[c]}
  /\ orphaned' = TRUE
  /\ cycle' = [cycle EXCEPT ![c] = Resting]
  /\ UNCHANGED <<advisory, due, launched, crashes>>

Release(c) ==
  /\ cycle[c].pc = "release"
  /\ advisory' = Unlocked(cycle[c].conn)
  /\ cycle' = [cycle EXCEPT ![c] = Resting]
  /\ UNCHANGED <<threadLock, orphaned, due, launched, crashes, faults>>

\* pg_advisory_unlock fails, and that is all.
ReleaseFails(c) ==
  /\ cycle[c].pc = "release"
  /\ Failing
  /\ cycle' = [cycle EXCEPT ![c] = Resting]
  /\ UNCHANGED <<threadLock, orphaned, advisory, due, launched, crashes>>

-----------------------------------------------------------------------------
(* The environment.                                                        *)

\* A process dies: its threads, locks and connections go, its rows stay.
Crash(p) ==
  /\ crashes < MaxCrashes
  /\ crashes' = crashes + 1
  /\ orphaned' = (orphaned \/ \E c \in Cycles : Home[c] = p /\ HasRow(c))
  /\ cycle' = [c \in Cycles |-> IF Home[c] = p THEN Resting ELSE cycle[c]]
  /\ threadLock' = threadLock \ {p}
  /\ advisory' = Closed(Pool[p])
  /\ UNCHANGED <<due, launched, faults>>

\* A connection is closed with the lock it holds: the pool finds it too old
\* (pool_recycle), or dropped by the server (pool_pre_ping), when it is checked
\* out, hence never in a transaction.  Nothing fails: a cycle at work gets
\* another connection and does not notice.
Recycle(p) ==
  /\ p \in Ageing
  /\ advisory.conn \in Pool[p]
  /\ \A c \in Cycles : cycle[c].conn = advisory.conn =>
                        cycle[c].pc # "insert" /\ cycle[c].open = {}
  /\ advisory' = Unheld
  /\ UNCHANGED <<cycle, threadLock, orphaned, due, launched, crashes, faults>>

\* The next time of a rule's schedule comes.  The cycles that have begun compare
\* it with the time they read before.
Tick(d) ==
  /\ d \notin due
  /\ due' = due \cup {d}
  /\ launched' = [p \in Processes |-> [launched[p] EXCEPT ![d] = 0]]
  /\ cycle' = [c \in Cycles |-> IF cycle[c].pc \in {"insert", "gate", "read", "dispatch"}
                                 THEN [cycle[c] EXCEPT !.late = @ \cup {d}]
                                 ELSE cycle[c]]
  /\ UNCHANGED <<threadLock, orphaned, advisory, crashes, faults>>

-----------------------------------------------------------------------------
Init ==
  /\ cycle = [c \in Cycles |-> Resting]
  /\ threadLock = {}
  /\ orphaned = FALSE
  /\ advisory = Unheld
  /\ due = {}
  /\ launched = [p \in Processes |-> [d \in Rules |-> 0]]
  /\ crashes = 0
  /\ faults = 0

Step(c) ==
  \/ Insert(c) \/ Enter(c) \/ Skip(c) \/ ReadDue(c) \/ EndDispatch(c)
  \/ \E d \in Rules : Launch(c, d)
  \/ CommitRule(c) \/ Finish(c) \/ Release(c)

Fault(c) ==
  \/ InsertFails(c)
  \/ EnterOnError(c)
  \/ \E d \in Rules : LaunchFails(c, d)
  \/ CommitFails(c)
  \/ GiveUp(c)
  \/ FinishFails(c)
  \/ ReleaseFails(c)

Next ==
  \/ \E c \in Cycles : Start(c) \/ Refuse(c) \/ Step(c) \/ Fault(c)
  \/ \E p \in Processes : Crash(p) \/ Recycle(p)
  \/ \E d \in Rules : Tick(d)

Spec == Init /\ [][Next]_vars

(***************************************************************************)
(* The dq-worker tries a cycle again and again, nobody is obliged to run   *)
(* one by hand, and a cycle goes on to its end.  The pool hands out its    *)
(* idle connections first in, first out (QueuePool), and closes at its     *)
(* checkout one that is older than pool_recycle: a connection that comes   *)
(* back to the pool again and again does not live for ever, nor does the   *)
(* lock that was left on it.                                               *)
(***************************************************************************)
Fairness ==
  /\ \A c \in Looping : WF_vars(Start(c) \/ Refuse(c))
  /\ \A c \in Cycles : WF_vars(Step(c))
  /\ \A p \in Processes : SF_vars(Recycle(p))

FairSpec == Spec /\ Fairness

-----------------------------------------------------------------------------
\* One process dispatches one cycle at a time, whatever its pool does with the
\* advisory lock: a lock that a failed start leaks keeps cycles out, and never
\* lets two in.
ExclusiveInProcess ==
  \A b, c \in Cycles :
    Inside(b) /\ Inside(c) /\ Home[b] = Home[c] => b = c

\* run_dq_scheduler_cycle starts the thread of a rule before it commits that the
\* rule has run, and other processes dispatch and settle the same rules
\* meanwhile: a process starts a rule again for the same time it fell due only
\* at the price of a failed statement or a crash, one for each run too many.
RelaunchCostsFault ==
  \A p \in Processes, d \in Rules : launched[p][d] <= 1 + faults + crashes

\* What makes these hold: a session has a connection of its process to itself;
Checkout ==
  /\ \A c \in Cycles : cycle[c].conn \in Pool[Home[c]] \cup {NoConn}
  /\ \A c \in Cycles : cycle[c].pc # "idle" => cycle[c].conn # NoConn
  /\ \A b, c \in Cycles : cycle[b].conn = cycle[c].conn /\ b # c => cycle[c].conn = NoConn

\* a cycle that has started holds its process's lock, and it alone;
Started(c) == cycle[c].pc \notin {"idle", "release"}

ThreadOwner ==
  /\ \A c \in Cycles : Started(c) => Home[c] \in threadLock
  /\ \A b, c \in Cycles : Started(b) /\ Started(c) /\ Home[b] = Home[c] => b = c

\* The advisory lock is held by a connection exactly as long as it has holds.
Counted == advisory.conn = NoConn <=> advisory.holds = 0

\* only a cycle in its loop has rules to dispatch or to settle;
Working ==
  \A c \in Cycles : cycle[c].todo \cup cycle[c].open # {} => cycle[c].pc = "dispatch"

\* and each rule on the list of a cycle was started as often as there were
\* faults, and so was each due rule but the one between its two commits.
Opened(p, d) == \E c \in Cycles : Home[c] = p /\ d \in cycle[c].open \ cycle[c].late

Paid ==
  /\ \A c \in Cycles : \A d \in cycle[c].todo \ cycle[c].late :
       launched[Home[c]][d] <= faults + crashes
  /\ \A p \in Processes : \A d \in due :
       Opened(p, d) \/ launched[p][d] <= faults + crashes
  /\ RelaunchCostsFault

CycleInv == TypeOK /\ Counted /\ Checkout /\ ThreadOwner /\ Working /\ Paid

\* What the conflict answer says to whoever it refuses.
RefusedOnlyWhileRunning ==
  [][\A c \in Cycles : Refuse(c) => \E b \in Cycles : cycle[b].pc # "idle"]_vars

\* What the conflict answer and the lock are for, in the pools the code has.
OneCycleDispatches == \A b, c \in Cycles : Inside(b) /\ Inside(c) => b = c

\* A due rule is dispatched and settled, whichever connection the advisory lock
\* was left on, unless a statement failed or a process died: the row or the
\* process's lock that is then left behind refuses every later cycle.
DueIsDispatched == \A d \in Rules : d \in due ~> d \notin due \/ crashes + faults > 0

=============================================================================
