------------------------ MODULE SchedulerCycleProofs ------------------------
(***************************************************************************)
(* Proofs about the scheduler cycles, for any number of processes, threads,*)
(* connections and rules.                                                  *)
(***************************************************************************)
EXTENDS SchedulerCycle, TLAPS

-----------------------------------------------------------------------------
(* Types.                                                                  *)

LEMMA AtType ==
  ASSUME NEW pc \in {"idle", "insert", "gate", "read", "dispatch", "finish", "release"},
         NEW x \in Conns \cup {NoConn},
         NEW R \in SUBSET Rules, NEW O \in SUBSET Rules, NEW L \in SUBSET Rules
  PROVE  At(pc, x, R, O, L) \in CycleState
BY DEF At, CycleState

LEMMA RestingType ==
  /\ Resting \in CycleState
  /\ Resting.pc = "idle" /\ Resting.conn = NoConn
  /\ Resting.todo = {} /\ Resting.open = {} /\ Resting.late = {}
  /\ Unheld \in [conn : Conns \cup {NoConn}, holds : 0 .. MaxHolds]
BY LimitsAssumption, AtType DEF Resting, Unheld, At

LEMMA ConnType ==
  ASSUME TypeOK, NEW c \in Cycles
  PROVE  /\ Idle(Home[c]) \subseteq Conns
         /\ Reconnect(c) \subseteq Conns \cup {NoConn}
         /\ cycle[c].conn \in Conns \cup {NoConn}
         /\ cycle[c] \in CycleState
BY HomeAssumption, PoolAssumption DEF TypeOK, CycleState, Idle, Reconnect

\* Releasing a hold keeps the number of holds in its range.
LEMMA UnlockedType ==
  ASSUME TypeOK, Counted, NEW x \in Conns
  PROVE  Unlocked(x) \in [conn : Conns \cup {NoConn}, holds : 0 .. MaxHolds]
<1>1. advisory \in [conn : Conns \cup {NoConn}, holds : 0 .. MaxHolds]
  BY DEF TypeOK
<1>2. CASE advisory.conn = x /\ advisory.holds # 1
  <2>1. advisory.holds # 0
    BY <1>2, NoConnAssumption DEF Counted
  <2>2. advisory.holds - 1 \in 0 .. MaxHolds
    BY <1>1, <1>2, <2>1, LimitsAssumption
  <2> QED
    BY <1>2, <2>2 DEF Unlocked
<1>3. CASE ~ (advisory.conn = x /\ advisory.holds # 1)
  BY <1>1, <1>3, RestingType DEF Unlocked
<1> QED
  BY <1>2, <1>3

LEMMA TypeInit == Init => TypeOK
<1> SUFFICES ASSUME Init PROVE TypeOK
  OBVIOUS
<1>1. cycle \in [Cycles -> CycleState] /\ advisory \in [conn : Conns \cup {NoConn}, holds : 0 .. MaxHolds]
  BY RestingType, Zenon DEF Init
<1>2. crashes \in 0 .. MaxCrashes /\ faults \in 0 .. MaxFaults
  BY LimitsAssumption DEF Init
<1>3. threadLock \in SUBSET Processes /\ orphaned \in BOOLEAN /\ due \in SUBSET Rules
  BY Zenon DEF Init
<1>4. launched \in [Processes -> [Rules -> Nat]]
  BY DEF Init
<1> QED
  BY <1>1, <1>2, <1>3, <1>4, Zenon DEF TypeOK

-----------------------------------------------------------------------------
(* How a cycle moves: what every action does to the variable cycle.        *)

\* The record of c becomes s, on a connection its session may have.
Moves(c, s) ==
  /\ s \in CycleState
  /\ s.conn \in Reconnect(c) \ {NoConn}
  /\ cycle' = [cycle EXCEPT ![c] = s]

LEMMA OnwardMoves ==
  ASSUME TypeOK, NEW c \in Cycles, NEW x \in Reconnect(c) \ {NoConn},
         NEW pc \in {"idle", "insert", "gate", "read", "dispatch", "finish", "release"},
         cycle' = Onward(c, pc, x)
  PROVE  \E s : /\ Moves(c, s) /\ s.pc = pc
                /\ s.todo = cycle[c].todo /\ s.open = cycle[c].open /\ s.late = cycle[c].late
<1> DEFINE s == [cycle[c] EXCEPT !.pc = pc, !.conn = x]
<1>1. cycle[c] \in CycleState /\ x \in Conns \cup {NoConn}
  BY ConnType
<1>2. /\ s \in CycleState /\ s.conn = x /\ s.pc = pc
      /\ s.todo = cycle[c].todo /\ s.open = cycle[c].open /\ s.late = cycle[c].late
  BY <1>1 DEF CycleState
<1>3. cycle' = [cycle EXCEPT ![c] = s]
  BY DEF Onward, TypeOK
<1> QED
  BY <1>2, <1>3 DEF Moves

LEMMA LeaveMoves ==
  ASSUME TypeOK, NEW c \in Cycles, NEW x \in Reconnect(c) \ {NoConn},
         NEW pc \in {"idle", "insert", "gate", "read", "dispatch", "finish", "release"},
         cycle' = Leave(c, pc, x)
  PROVE  \E s : /\ Moves(c, s) /\ s.pc = pc
                /\ s.todo = {} /\ s.open = {} /\ s.late = {}
<1> DEFINE s == At(pc, x, {}, {}, {})
<1>1. x \in Conns \cup {NoConn}
  BY ConnType
<1>2. s \in CycleState
  BY <1>1, AtType
<1>3. s.conn = x /\ s.pc = pc /\ s.todo = {} /\ s.open = {} /\ s.late = {}
  BY DEF At
<1>4. cycle' = [cycle EXCEPT ![c] = s]
  BY DEF Leave
<1> QED
  BY <1>2, <1>3, <1>4 DEF Moves

\* A connection that is checked out is one.
LEMMA SomeConn ==
  ASSUME TypeOK, Checkout, NEW c \in Cycles
  PROVE  /\ Idle(Home[c]) \subseteq Reconnect(c) \ {NoConn}
         /\ cycle[c].pc # "idle" =>
              /\ Reconnect(c) = Reconnect(c) \ {NoConn}
              /\ cycle[c].conn \in Reconnect(c) \ {NoConn}
BY ConnType, NoConnAssumption DEF Reconnect, Checkout

LEMMA StartMoves ==
  ASSUME CycleInv, NEW c \in Cycles, Start(c)
  PROVE  \E s : /\ Moves(c, s) /\ s.pc = "insert"
                /\ s.todo = {} /\ s.open = {}
<1>1. PICK x \in Idle(Home[c]) : cycle' = Onward(c, "insert", x)
  BY DEF Start
<1>2. cycle[c].todo = {} /\ cycle[c].open = {}
  BY DEF CycleInv, Working, Start
<1> QED
  BY <1>1, <1>2, SomeConn, OnwardMoves DEF CycleInv

LEMMA InsertMoves ==
  ASSUME CycleInv, NEW c \in Cycles, Insert(c) \/ Enter(c) \/ EnterOnError(c)
  PROVE  \E s : /\ Moves(c, s) /\ s.pc \in {"gate", "read"}
                /\ s.todo = {} /\ s.open = {}
<1>1. PICK x \in Reconnect(c), pc \in {"gate", "read"} : cycle' = Onward(c, pc, x)
  BY DEF Insert, Enter, EnterOnError
<1>2. cycle[c].todo = {} /\ cycle[c].open = {}
  BY DEF CycleInv, Working, Insert, Enter, EnterOnError
<1>3. x \in Reconnect(c) \ {NoConn}
  BY <1>1, SomeConn DEF CycleInv, Insert, Enter, EnterOnError
<1> QED
  BY <1>1, <1>2, <1>3, OnwardMoves DEF CycleInv

LEMMA OverMoves ==
  ASSUME CycleInv, NEW c \in Cycles,
         \/ Refuse(c) \/ InsertFails(c) \/ Skip(c) \/ EndDispatch(c) \/ GiveUp(c)
         \/ Finish(c)
  PROVE  \E s : /\ Moves(c, s) /\ s.pc \in {"finish", "release"}
                /\ Started(c) \/ s.pc = "release"
                /\ s.todo = {} /\ s.open = {}
<1>1. CASE Refuse(c)
  <2>1. PICK x \in Idle(Home[c]) : cycle' = Leave(c, "release", x)
    BY <1>1 DEF Refuse
  <2> QED
    BY <2>1, SomeConn, LeaveMoves DEF CycleInv
<1>2. CASE InsertFails(c) \/ Skip(c) \/ EndDispatch(c) \/ GiveUp(c) \/ Finish(c)
  <2>1. PICK x \in Reconnect(c), pc \in {"finish", "release"} : cycle' = Leave(c, pc, x)
    BY <1>2 DEF InsertFails, Skip, EndDispatch, GiveUp, Finish
  <2>2. cycle[c].pc \notin {"idle", "release"}
    BY <1>2 DEF InsertFails, Skip, EndDispatch, GiveUp, Finish
  <2>3. x \in Reconnect(c) \ {NoConn}
    BY <2>1, <2>2, SomeConn DEF CycleInv
  <2> QED
    BY <2>1, <2>2, <2>3, LeaveMoves DEF CycleInv, Started
<1> QED
  BY <1>1, <1>2

LEMMA ReadMoves ==
  ASSUME CycleInv, NEW c \in Cycles, ReadDue(c)
  PROVE  \E s : /\ Moves(c, s) /\ s.pc = "dispatch" /\ s.late = cycle[c].late
                /\ s.todo = due \ cycle[c].late /\ s.open = {}
<1> DEFINE s == [cycle[c] EXCEPT !.pc = "dispatch", !.todo = due \ cycle[c].late]
<1>1. cycle[c] \in CycleState /\ due \in SUBSET Rules
  BY ConnType DEF CycleInv, TypeOK
<1>2. s \in CycleState /\ s.conn = cycle[c].conn /\ s.pc = "dispatch"
      /\ s.late = cycle[c].late /\ s.todo = due \ cycle[c].late /\ s.open = cycle[c].open
  BY <1>1 DEF CycleState
<1>3. cycle' = [cycle EXCEPT ![c] = s]
  BY DEF ReadDue, CycleInv, TypeOK
<1>4. cycle[c].open = {} /\ cycle[c].conn \in Reconnect(c) \ {NoConn}
  BY SomeConn DEF ReadDue, CycleInv, Working
<1> QED
  BY <1>2, <1>3, <1>4 DEF Moves

LEMMA LaunchMoves ==
  ASSUME CycleInv, NEW c \in Cycles, NEW d \in Rules, Launch(c, d)
  PROVE  \E s : /\ Moves(c, s) /\ s.pc = "dispatch" /\ s.late = cycle[c].late
                /\ s.todo = cycle[c].todo \ {d} /\ s.open = {d}
<1> DEFINE s == [cycle[c] EXCEPT !.todo = cycle[c].todo \ {d}, !.open = {d}]
<1>1. cycle[c] \in CycleState
  BY ConnType DEF CycleInv
<1>2. s \in CycleState /\ s.conn = cycle[c].conn /\ s.pc = "dispatch"
      /\ s.late = cycle[c].late /\ s.todo = cycle[c].todo \ {d} /\ s.open = {d}
  BY <1>1 DEF CycleState, Launch
<1>3. cycle' = [cycle EXCEPT ![c] = s]
  BY DEF Launch, CycleInv, TypeOK
<1>4. cycle[c].conn \in Reconnect(c) \ {NoConn}
  BY SomeConn DEF Launch, CycleInv
<1> QED
  BY <1>2, <1>3, <1>4 DEF Moves

LEMMA SettleMoves ==
  ASSUME CycleInv, NEW c \in Cycles, CommitRule(c) \/ CommitFails(c)
  PROVE  \E s : /\ Moves(c, s) /\ s.pc = "dispatch" /\ s.late = cycle[c].late
                /\ s.todo = cycle[c].todo /\ s.open = {}
<1>1. PICK x \in Reconnect(c) : cycle' = [cycle EXCEPT ![c].open = {}, ![c].conn = x]
  BY DEF CommitRule, CommitFails
<1> DEFINE s == [cycle[c] EXCEPT !.open = {}, !.conn = x]
<1>2. cycle[c].pc = "dispatch"
  BY DEF CommitRule, CommitFails, CycleInv, Working
<1>3. cycle[c] \in CycleState /\ x \in Conns \cup {NoConn} /\ x \in Reconnect(c) \ {NoConn}
  BY <1>1, <1>2, ConnType, SomeConn DEF CycleInv
<1>4. s \in CycleState /\ s.conn = x /\ s.pc = "dispatch"
      /\ s.late = cycle[c].late /\ s.todo = cycle[c].todo /\ s.open = {}
  BY <1>2, <1>3 DEF CycleState
<1>5. cycle' = [cycle EXCEPT ![c] = s]
  BY <1>1 DEF CycleInv, TypeOK
<1> QED
  BY <1>3, <1>4, <1>5 DEF Moves

LEMMA LaunchFailsMoves ==
  ASSUME CycleInv, NEW c \in Cycles, NEW d \in Rules, LaunchFails(c, d)
  PROVE  \E s : /\ Moves(c, s) /\ s.pc = "dispatch" /\ s.late = cycle[c].late
                /\ s.todo = cycle[c].todo \ {d} /\ s.open = {}
<1>1. PICK x \in Reconnect(c) :
        cycle' = [cycle EXCEPT ![c].todo = @ \ {d}, ![c].conn = x]
  BY DEF LaunchFails
<1> DEFINE s == [cycle[c] EXCEPT !.todo = cycle[c].todo \ {d}, !.conn = x]
<1>2. cycle[c].pc = "dispatch" /\ cycle[c].open = {}
  BY DEF LaunchFails
<1>3. cycle[c] \in CycleState /\ x \in Conns \cup {NoConn} /\ x \in Reconnect(c) \ {NoConn}
  BY <1>1, <1>2, ConnType, SomeConn DEF CycleInv
<1>4. s \in CycleState /\ s.conn = x /\ s.pc = "dispatch"
      /\ s.late = cycle[c].late /\ s.todo = cycle[c].todo \ {d} /\ s.open = {}
  BY <1>2, <1>3 DEF CycleState
<1>5. cycle' = [cycle EXCEPT ![c] = s]
  BY <1>1 DEF CycleInv, TypeOK
<1> QED
  BY <1>3, <1>4, <1>5 DEF Moves

\* Every step moves one cycle, ends one or all those of a process, or lets a
\* rule fall due.
LEMMA CycleMoves ==
  ASSUME CycleInv, [Next]_vars
  PROVE  \/ UNCHANGED cycle
         \/ \E p \in Processes : Crash(p)
         \/ \E d \in Rules : Tick(d)
         \/ \E c \in Cycles : cycle' = [cycle EXCEPT ![c] = Resting]
         \/ \E c \in Cycles : \E s :
              /\ Moves(c, s)
              /\ s.todo \cup s.open # {} => s.pc = "dispatch"
<1> DEFINE Moved == \E c \in Cycles : \E s :
                      /\ Moves(c, s)
                      /\ s.todo \cup s.open # {} => s.pc = "dispatch"
<1>1. ASSUME NEW c \in Cycles, Start(c) PROVE Moved
  BY <1>1, StartMoves
<1>2. ASSUME NEW c \in Cycles, Insert(c) \/ Enter(c) \/ EnterOnError(c) PROVE Moved
  BY <1>2, InsertMoves
<1>3. ASSUME NEW c \in Cycles, \/ Refuse(c) \/ InsertFails(c) \/ Skip(c) \/ EndDispatch(c)
                               \/ GiveUp(c) \/ Finish(c)
      PROVE  Moved
  BY <1>3, OverMoves
<1>4. ASSUME NEW c \in Cycles, ReadDue(c) PROVE Moved
  BY <1>4, ReadMoves
<1>5. ASSUME NEW c \in Cycles, NEW d \in Rules, Launch(c, d) PROVE Moved
  BY <1>5, LaunchMoves
<1>6. ASSUME NEW c \in Cycles, CommitRule(c) \/ CommitFails(c) PROVE Moved
  BY <1>6, SettleMoves
<1>7. ASSUME NEW c \in Cycles, NEW d \in Rules, LaunchFails(c, d) PROVE Moved
  BY <1>7, LaunchFailsMoves
<1> HIDE DEF Moved
<1>8. Moved \/ UNCHANGED cycle \/ (\E p \in Processes : Crash(p)) \/ (\E d \in Rules : Tick(d))
      \/ \E c \in Cycles : cycle' = [cycle EXCEPT ![c] = Resting]
  BY <1>1, <1>2, <1>3, <1>4, <1>5, <1>6, <1>7
  DEF Next, Step, Fault, FinishFails, Release, ReleaseFails, Recycle, vars
<1> QED
  BY <1>8 DEF Moved

\* Trouble is counted one at a time.
LEMMA TroubleStep ==
  ASSUME [Next]_vars
  PROVE  \/ UNCHANGED <<crashes, faults>>
         \/ Failing /\ UNCHANGED crashes
         \/ crashes < MaxCrashes /\ crashes' = crashes + 1 /\ UNCHANGED faults
<1>1. ASSUME NEW c \in Cycles, Fault(c) PROVE Failing /\ UNCHANGED crashes
  BY <1>1, Zenon DEF Fault, InsertFails, EnterOnError, LaunchFails, CommitFails, GiveUp,
     FinishFails, ReleaseFails
<1>2. ASSUME NEW c \in Cycles, Start(c) \/ Refuse(c) \/ Step(c)
      PROVE  UNCHANGED <<crashes, faults>>
  BY <1>2 DEF Step, Start, Refuse, Insert, Enter, Skip, ReadDue, Launch, CommitRule,
     EndDispatch, Finish, Release
<1> QED
  BY <1>1, <1>2 DEF Next, Crash, Recycle, Tick, vars

LEMMA TypeStep == CycleInv /\ [Next]_vars => TypeOK'
<1> SUFFICES ASSUME CycleInv, [Next]_vars PROVE TypeOK'
  OBVIOUS
<1>0. /\ cycle \in [Cycles -> CycleState]
      /\ threadLock \in SUBSET Processes
      /\ orphaned \in BOOLEAN
      /\ advisory \in [conn : Conns \cup {NoConn}, holds : 0 .. MaxHolds]
      /\ due \in SUBSET Rules
      /\ launched \in [Processes -> [Rules -> Nat]]
      /\ crashes \in 0 .. MaxCrashes
      /\ faults \in 0 .. MaxFaults
  BY DEF CycleInv, TypeOK
<1> DEFINE Lock == [conn : Conns \cup {NoConn}, holds : 0 .. MaxHolds]
<1>1. cycle' \in [Cycles -> CycleState]
  <2>1. ASSUME NEW p \in Processes, Crash(p) PROVE cycle' \in [Cycles -> CycleState]
    BY <1>0, <2>1, RestingType DEF Crash
  <2>2. ASSUME NEW d \in Rules, Tick(d) PROVE cycle' \in [Cycles -> CycleState]
    <3>1. \A c \in Cycles : [cycle[c] EXCEPT !.late = @ \cup {d}] \in CycleState
      BY <1>0 DEF CycleState
    <3> QED
      BY <1>0, <2>2, <3>1 DEF Tick
  <2>3. ASSUME NEW c \in Cycles, NEW s \in CycleState, cycle' = [cycle EXCEPT ![c] = s]
        PROVE  cycle' \in [Cycles -> CycleState]
    BY <1>0, <2>3
  <2> QED
    BY <1>0, <2>1, <2>2, <2>3, CycleMoves, RestingType DEF Moves
<1>2. threadLock' \in SUBSET Processes
  <2>1. \A c \in Cycles : Home[c] \in Processes
    BY HomeAssumption
  <2>2. ASSUME NEW c \in Cycles, Start(c) PROVE threadLock' \in SUBSET Processes
    BY <1>0, <2>1, <2>2 DEF Start
  <2> QED
    BY <1>0, <2>1, <2>2
    DEF Next, Step, Fault, Refuse, Insert, InsertFails, Enter, EnterOnError, Skip, ReadDue,
        Launch, CommitRule, LaunchFails, CommitFails, EndDispatch, GiveUp, Finish, FinishFails,
        Release, ReleaseFails, Crash, Recycle, Tick, vars
<1>3. advisory' \in Lock
  <2>1. ASSUME NEW c \in Cycles, Enter(c) PROVE advisory' \in Lock
    <3>1. advisory.holds + 1 \in 0 .. MaxHolds
      BY <1>0, <2>1, LimitsAssumption DEF Enter
    <3> QED
      BY <2>1, <3>1, ConnType DEF Enter, CycleInv
  <2>2. ASSUME NEW c \in Cycles, Release(c) PROVE advisory' \in Lock
    <3>1. cycle[c].conn \in Conns
      BY <2>2, ConnType DEF Release, CycleInv, Checkout
    <3> QED
      BY <2>2, <3>1, UnlockedType DEF Release, CycleInv
  <2>3. ASSUME NEW S, advisory' = Closed(S) PROVE advisory' \in Lock
    BY <1>0, <2>3, RestingType DEF Closed
  <2>4. ASSUME advisory' = Unheld PROVE advisory' \in Lock
    BY <2>4, RestingType
  <2> HIDE DEF Lock
  <2>5. ASSUME UNCHANGED advisory PROVE advisory' \in Lock
    BY <1>0, <2>5 DEF Lock
  <2> QED
    BY <2>1, <2>2, <2>3, <2>4, <2>5
    DEF Next, Step, Fault, Start, Refuse, Insert, InsertFails, EnterOnError, Skip, ReadDue,
        Launch, CommitRule, LaunchFails, CommitFails, EndDispatch, GiveUp, Finish, FinishFails,
        ReleaseFails, Crash, Recycle, Tick, vars
<1>4. due' \in SUBSET Rules
  BY <1>0 DEF Next, Step, Fault, Start, Refuse, Insert, InsertFails, Enter, EnterOnError,
     Skip, ReadDue, Launch, CommitRule, LaunchFails, CommitFails, EndDispatch, GiveUp, Finish,
     FinishFails, Release, ReleaseFails, Crash, Recycle, Tick, vars
<1>5. launched' \in [Processes -> [Rules -> Nat]]
  <2>1. ASSUME NEW c \in Cycles, NEW d \in Rules, Launch(c, d)
        PROVE  launched' \in [Processes -> [Rules -> Nat]]
    <3>1. Home[c] \in Processes
      BY HomeAssumption
    <3> QED
      BY <1>0, <2>1, <3>1 DEF Launch
  <2>2. ASSUME NEW d \in Rules, Tick(d) PROVE launched' \in [Processes -> [Rules -> Nat]]
    BY <1>0, <2>2 DEF Tick
  <2> QED
    BY <1>0, <2>1, <2>2
    DEF Next, Step, Fault, Start, Refuse, Insert, InsertFails, Enter, EnterOnError, Skip,
        ReadDue, CommitRule, LaunchFails, CommitFails, EndDispatch, GiveUp, Finish, FinishFails,
        Release, ReleaseFails, Crash, Recycle, vars
<1>6. orphaned' \in BOOLEAN
  BY <1>0, Zenon
  DEF Next, Step, Fault, Start, Refuse, Insert, InsertFails, Enter, EnterOnError,
      Skip, ReadDue, Launch, CommitRule, LaunchFails, CommitFails, EndDispatch, GiveUp, Finish,
      FinishFails, Release, ReleaseFails, Crash, Recycle, Tick, vars
<1>7. crashes' \in 0 .. MaxCrashes /\ faults' \in 0 .. MaxFaults
  <2>1. \/ UNCHANGED <<crashes, faults>>
        \/ Failing /\ UNCHANGED crashes
        \/ crashes < MaxCrashes /\ crashes' = crashes + 1 /\ UNCHANGED faults
    BY TroubleStep
  <2> QED
    BY <1>0, <2>1, LimitsAssumption DEF Failing
<1> QED
  BY <1>1, <1>2, <1>3, <1>4, <1>5, <1>6, <1>7, Zenon DEF TypeOK

-----------------------------------------------------------------------------
(* The parts of the inductive invariant.                                   *)

LEMMA CountedStep == CycleInv /\ [Next]_vars => Counted'
<1> SUFFICES ASSUME CycleInv, [Next]_vars PROVE Counted'
  OBVIOUS
<1> USE DEF CycleInv, TypeOK, Counted
<1>1. ASSUME NEW c \in Cycles, Enter(c) PROVE Counted'
  BY <1>1 DEF Enter, Checkout
<1>2. ASSUME NEW c \in Cycles, Release(c) PROVE Counted'
  BY <1>2 DEF Release, Unlocked, Unheld, Checkout
<1>3. ASSUME NEW p \in Processes, Crash(p) PROVE Counted'
  BY <1>3 DEF Crash, Closed, Unheld
<1>4. ASSUME NEW p \in Processes, Recycle(p) PROVE Counted'
  BY <1>4 DEF Recycle, Unheld
<1>5. CASE UNCHANGED advisory
  BY <1>5
<1>6. ASSUME NEW c \in Cycles, EnterOnError(c) PROVE Counted'
  BY <1>6 DEF EnterOnError, Closed, Unheld
<1> HIDE DEF CycleInv, TypeOK, Counted
<1> QED
  BY <1>1, <1>2, <1>3, <1>4, <1>5, <1>6
  DEF Next, Step, Fault, Start, Refuse, Insert, InsertFails, Skip, ReadDue, Launch,
      CommitRule, LaunchFails, CommitFails, EndDispatch, GiveUp, Finish, FinishFails,
      ReleaseFails, Tick, vars

LEMMA CheckoutStep == CycleInv /\ [Next]_vars => Checkout' /\ Working'
<1> SUFFICES ASSUME CycleInv, [Next]_vars PROVE Checkout' /\ Working'
  OBVIOUS
<1>0. cycle \in [Cycles -> CycleState] /\ Checkout /\ Working
  BY DEF CycleInv, TypeOK
<1>1. CASE UNCHANGED cycle
  BY <1>0, <1>1 DEF Checkout, Working
<1>2. ASSUME NEW p \in Processes, Crash(p) PROVE Checkout' /\ Working'
  BY <1>0, <1>2, RestingType DEF Crash, Checkout, Working
<1>3. ASSUME NEW c \in Cycles, cycle' = [cycle EXCEPT ![c] = Resting]
      PROVE  Checkout' /\ Working'
  BY <1>0, <1>3, RestingType DEF Checkout, Working
<1>4. ASSUME NEW d \in Rules, Tick(d) PROVE Checkout' /\ Working'
  <2>1. \A c \in Cycles : /\ cycle'[c].conn = cycle[c].conn /\ cycle'[c].pc = cycle[c].pc
                          /\ cycle'[c].todo = cycle[c].todo /\ cycle'[c].open = cycle[c].open
    BY <1>0, <1>4 DEF Tick, CycleState
  <2> QED
    BY <1>0, <2>1 DEF Checkout, Working
<1>5. ASSUME NEW c \in Cycles, NEW s, Moves(c, s), s.todo \cup s.open # {} => s.pc = "dispatch"
      PROVE  Checkout' /\ Working'
  <2>1. s.conn \in Pool[Home[c]] /\ \A b \in Cycles \ {c} : cycle[b].conn # s.conn
    BY <1>0, <1>5 DEF Moves, Reconnect, Idle, Checkout
  <2>2. cycle'[c] = s /\ \A b \in Cycles \ {c} : cycle'[b] = cycle[b]
    BY <1>0, <1>5 DEF Moves
  <2>3. s.conn # NoConn
    BY <1>5 DEF Moves
  <2>4. Checkout'
    BY <1>0, <2>1, <2>2, <2>3 DEF Checkout
  <2>5. Working'
    BY <1>0, <1>5, <2>2 DEF Working
  <2> QED
    BY <2>4, <2>5
<1> QED
  BY <1>1, <1>2, <1>3, <1>4, <1>5, CycleMoves

\* A cycle starts only when its process's lock is free, so when no other cycle
\* of the process has started; only a cycle that has started releases it.
LEMMA ThreadOwnerStep == CycleInv /\ [Next]_vars => ThreadOwner'
<1> SUFFICES ASSUME CycleInv, [Next]_vars PROVE ThreadOwner'
  OBVIOUS
<1>0. cycle \in [Cycles -> CycleState] /\ ThreadOwner
  BY DEF CycleInv, TypeOK
<1> USE DEF ThreadOwner, Started
\* A cycle that has started goes on, or one of any kind stops, and the locks stay.
<1>1. ASSUME NEW c \in Cycles, NEW s, Started(c) \/ s.pc \in {"idle", "release"},
             cycle' = [cycle EXCEPT ![c] = s], UNCHANGED threadLock
      PROVE  ThreadOwner'
  BY <1>0, <1>1
<1>2. ASSUME NEW c \in Cycles, NEW s, Started(c), s.pc \in {"idle", "release"},
             cycle' = [cycle EXCEPT ![c] = s], threadLock' = threadLock \ {Home[c]}
      PROVE  ThreadOwner'
  BY <1>0, <1>2
<1>3. ASSUME NEW c \in Cycles, Start(c) PROVE ThreadOwner'
  <2>1. PICK s : Moves(c, s)
    BY <1>3, StartMoves
  <2>2. \A b \in Cycles : Started(b) => Home[b] # Home[c]
    BY <1>0, <1>3 DEF Start
  <2> QED
    BY <1>0, <1>3, <2>1, <2>2 DEF Start, Moves
<1>4. ASSUME NEW c \in Cycles, Insert(c) \/ Enter(c) \/ EnterOnError(c) PROVE ThreadOwner'
  <2>1. PICK s : Moves(c, s)
    BY <1>4, InsertMoves
  <2>2. Started(c) /\ UNCHANGED threadLock
    BY <1>4 DEF Insert, Enter, EnterOnError
  <2> QED
    BY <1>1, <2>1, <2>2 DEF Moves
<1>5. ASSUME NEW c \in Cycles, Refuse(c) \/ InsertFails(c) \/ Skip(c) \/ EndDispatch(c) \/ GiveUp(c)
      PROVE  ThreadOwner'
  <2>1. PICK s : Moves(c, s) /\ (Started(c) \/ s.pc = "release")
    BY <1>5, OverMoves
  <2>2. UNCHANGED threadLock
    BY <1>5 DEF Refuse, InsertFails, Skip, EndDispatch, GiveUp
  <2> QED
    BY <1>1, <2>1, <2>2 DEF Moves
<1>6. ASSUME NEW c \in Cycles, Started(c), UNCHANGED threadLock,
             \E s : Moves(c, s)
      PROVE  ThreadOwner'
  BY <1>1, <1>6 DEF Moves
<1>7. ASSUME NEW c \in Cycles, ReadDue(c) PROVE ThreadOwner'
  BY <1>6, <1>7, ReadMoves DEF ReadDue
<1>8. ASSUME NEW c \in Cycles, NEW d \in Rules, Launch(c, d) PROVE ThreadOwner'
  BY <1>6, <1>8, LaunchMoves DEF Launch
<1>9. ASSUME NEW c \in Cycles, NEW d \in Rules, LaunchFails(c, d) PROVE ThreadOwner'
  BY <1>6, <1>9, LaunchFailsMoves DEF LaunchFails
<1>10. ASSUME NEW c \in Cycles, CommitRule(c) \/ CommitFails(c) PROVE ThreadOwner'
  <2>1. cycle[c].pc = "dispatch"
    BY <1>10 DEF CycleInv, Working, CommitRule, CommitFails
  <2>2. Started(c) /\ UNCHANGED threadLock
    BY <1>10, <2>1 DEF CommitRule, CommitFails
  <2> QED
    BY <1>6, <1>10, <2>2, SettleMoves
<1>11. ASSUME NEW c \in Cycles, Finish(c) PROVE ThreadOwner'
  <2>1. PICK x : cycle' = [cycle EXCEPT ![c] = At("release", x, {}, {}, {})]
    BY <1>11 DEF Finish, Leave
  <2>2. Started(c) /\ threadLock' = threadLock \ {Home[c]}
    BY <1>11 DEF Finish
  <2>3. At("release", x, {}, {}, {}).pc = "release"
    BY DEF At
  <2> QED
    BY <1>2, <2>1, <2>2, <2>3
<1>12. ASSUME NEW c \in Cycles, FinishFails(c) PROVE ThreadOwner'
  BY <1>2, <1>12, RestingType DEF FinishFails
<1>13. ASSUME NEW c \in Cycles, Release(c) \/ ReleaseFails(c) PROVE ThreadOwner'
  BY <1>1, <1>13, RestingType DEF Release, ReleaseFails
<1>14. ASSUME NEW p \in Processes, Crash(p) PROVE ThreadOwner'
  BY <1>0, <1>14, RestingType DEF Crash
<1>15. ASSUME NEW d \in Rules, Tick(d) PROVE ThreadOwner'
  <2>1. \A c \in Cycles : cycle'[c].pc = cycle[c].pc
    BY <1>0, <1>15 DEF Tick, CycleState
  <2> QED
    BY <1>0, <1>15, <2>1 DEF Tick
<1>16. CASE UNCHANGED <<cycle, threadLock>>
  BY <1>0, <1>16
<1> HIDE DEF ThreadOwner, Started
<1> QED
  BY <1>3, <1>4, <1>5, <1>7, <1>8, <1>9, <1>10, <1>11, <1>12, <1>13, <1>14, <1>15, <1>16
  DEF Next, Step, Fault, Recycle, vars

\* Two cycles of a process are never both in their loop.
LEMMA Alone ==
  ASSUME CycleInv, NEW b \in Cycles, NEW c \in Cycles, Home[b] = Home[c], b # c,
         cycle[c].pc \in {"read", "dispatch"}
  PROVE  cycle[b].todo = {} /\ cycle[b].open = {}
BY DEF CycleInv, ThreadOwner, Started, Working

LEMMA PaidTypes ==
  ASSUME TypeOK
  PROVE  /\ faults \in Nat /\ crashes \in Nat
         /\ \A p \in Processes, d \in Rules : launched[p][d] \in Nat
         /\ \A c \in Cycles : Home[c] \in Processes
         /\ \A c \in Cycles : cycle[c].todo \in SUBSET Rules /\ cycle[c].open \in SUBSET Rules
         /\ cycle \in [Cycles -> CycleState]
         /\ due \in SUBSET Rules
         /\ launched \in [Processes -> [Rules -> Nat]]
BY HomeAssumption, LimitsAssumption DEF TypeOK, CycleState

\* A run too many is paid for by trouble that has happened already.
LEMMA PaidStep == CycleInv /\ [Next]_vars => Paid'
<1> SUFFICES ASSUME CycleInv, [Next]_vars PROVE Paid'
  OBVIOUS
<1>t. TypeOK /\ TypeOK' /\ Paid /\ Working
  BY TypeStep DEF CycleInv
<1>0. /\ cycle \in [Cycles -> CycleState] /\ launched \in [Processes -> [Rules -> Nat]]
      /\ \A c \in Cycles : Home[c] \in Processes
      /\ \A c \in Cycles : cycle[c].todo \in SUBSET Rules /\ cycle[c].open \in SUBSET Rules
      /\ \A c \in Cycles : cycle'[c].todo \in SUBSET Rules
      /\ due \in SUBSET Rules /\ due' \in SUBSET Rules
      /\ \A p \in Processes, d \in Rules : launched[p][d] \in Nat
      /\ faults \in Nat /\ crashes \in Nat /\ faults' \in Nat /\ crashes' \in Nat
  <2>1. \A c \in Cycles : cycle'[c].todo \in SUBSET Rules
    BY <1>t DEF TypeOK, CycleState
  <2>2. due' \in SUBSET Rules /\ faults' \in Nat /\ crashes' \in Nat
    BY <1>t, LimitsAssumption DEF TypeOK
  <2> QED
    BY <1>t, <2>1, <2>2, PaidTypes
\* Trouble pays for one run of every rule.
<1>1. ASSUME UNCHANGED launched, faults' + crashes' = faults + crashes + 1 PROVE Paid'
  <2>1. \A p \in Processes, d \in Rules : launched'[p][d] <= faults' + crashes'
    <3> TAKE p \in Processes, d \in Rules
    <3>1. launched[p][d] <= 1 + faults + crashes /\ launched[p][d] \in Nat
      BY <1>t, <1>0 DEF Paid, RelaunchCostsFault
    <3> QED
      BY <1>0, <1>1, <3>1
  <2>2. \A p \in Processes, d \in Rules : launched'[p][d] <= 1 + faults' + crashes'
    BY <1>0, <1>1, <2>1
  <2> QED
    BY <1>0, <2>1, <2>2 DEF Paid, RelaunchCostsFault
\* Steps that start nothing, list nothing, and settle what they close.
<1>2. ASSUME UNCHANGED <<launched, faults, crashes>>, due' \subseteq due,
             \A c \in Cycles : cycle'[c].todo \ cycle'[c].late \subseteq cycle[c].todo \ cycle[c].late,
             \A p \in Processes, d \in due' : Opened(p, d) => Opened(p, d)'
      PROVE  Paid'
  BY <1>t, <1>2 DEF Paid, RelaunchCostsFault
\* In particular those of a cycle that has nothing open.
<1>3. ASSUME NEW c \in Cycles, NEW s, cycle' = [cycle EXCEPT ![c] = s],
             UNCHANGED <<launched, faults, crashes, due>>,
             cycle[c].open = {}, s.todo = {}
      PROVE  Paid'
  <2>1. \A b \in Cycles : b = c \/ cycle'[b] = cycle[b]
    BY <1>0, <1>3
  <2>2. cycle'[c].todo = {}
    BY <1>0, <1>3
  <2>3. \A p \in Processes, d \in due' : Opened(p, d) => Opened(p, d)'
    BY <1>3, <2>1 DEF Opened
  <2>4. \A b \in Cycles : cycle'[b].todo \ cycle'[b].late \subseteq cycle[b].todo \ cycle[b].late
    BY <2>1, <2>2
  <2> QED
    BY <1>2, <1>3, <2>3, <2>4
<1>4. ASSUME NEW c \in Cycles, Start(c) PROVE Paid'
  BY <1>t, <1>3, <1>4, StartMoves DEF Start, Moves, Working
<1>5. ASSUME NEW c \in Cycles, Insert(c) \/ Enter(c) PROVE Paid'
  BY <1>t, <1>3, <1>5, InsertMoves DEF Insert, Enter, Moves, Working
<1>6. ASSUME NEW c \in Cycles, Refuse(c) \/ Skip(c) \/ EndDispatch(c) \/ Finish(c) PROVE Paid'
  <2>1. cycle[c].open = {} /\ UNCHANGED <<launched, faults, crashes, due>>
    BY <1>t, <1>6 DEF Refuse, Skip, EndDispatch, Finish, Working
  <2> QED
    BY <1>3, <1>6, <2>1, OverMoves DEF Moves
<1>7. ASSUME NEW c \in Cycles, Release(c) PROVE Paid'
  BY <1>t, <1>3, <1>7, RestingType DEF Release, Working
<1>8. ASSUME NEW c \in Cycles, ReadDue(c) PROVE Paid'
  <2>1. PICK s : /\ cycle' = [cycle EXCEPT ![c] = s] /\ s.late = cycle[c].late
                 /\ s.todo = due \ cycle[c].late /\ s.open = {}
    BY <1>8, ReadMoves DEF Moves
  <2>2. UNCHANGED <<launched, faults, crashes, due>> /\ cycle[c].open = {}
        /\ cycle[c].pc = "read"
    BY <1>t, <1>8 DEF ReadDue, Working
  <2>3. \A d : ~ Opened(Home[c], d)
    BY <1>8, <2>2, Alone DEF Opened
  <2>4. \A d \in due : launched[Home[c]][d] <= faults + crashes
    BY <1>t, <1>0, <2>3 DEF Paid
  <2>5. \A b \in Cycles : b = c \/ cycle'[b] = cycle[b]
    BY <1>0, <2>1
  <2>6. cycle'[c].todo \ cycle'[c].late \subseteq due
    BY <1>0, <2>1
  <2>7. \A p \in Processes, d \in due : Opened(p, d) => Opened(p, d)'
    BY <2>2, <2>5 DEF Opened
  <2>8. \A b \in Cycles : \A d \in cycle'[b].todo \ cycle'[b].late :
          launched[Home[b]][d] <= faults + crashes
    BY <1>t, <2>4, <2>5, <2>6 DEF Paid
  <2> QED
    BY <1>t, <2>2, <2>7, <2>8 DEF Paid, RelaunchCostsFault
<1>9. ASSUME NEW c \in Cycles, NEW d \in Rules, Launch(c, d) PROVE Paid'
  <2>1. PICK s : /\ cycle' = [cycle EXCEPT ![c] = s] /\ s.late = cycle[c].late
                 /\ s.todo = cycle[c].todo \ {d} /\ s.open = {d}
    BY <1>9, LaunchMoves DEF Moves
  <2>2. /\ UNCHANGED <<faults, crashes, due>> /\ cycle[c].open = {} /\ d \in cycle[c].todo
        /\ cycle[c].pc = "dispatch"
    BY <1>9 DEF Launch
  <2>3. \A b \in Cycles : b = c \/ cycle'[b] = cycle[b]
    BY <1>0, <2>1
  <2>4. cycle'[c] = s
    BY <1>0, <2>1
  <2>5. \A p \in Processes, e \in due : Opened(p, e) => Opened(p, e)'
    BY <2>2, <2>3 DEF Opened
  <2>6. CASE d \in cycle[c].late
    <3>1. launched' = launched
      BY <1>9, <2>6 DEF Launch
    <3>2. \A b \in Cycles : cycle'[b].todo \ cycle'[b].late \subseteq cycle[b].todo \ cycle[b].late
      BY <2>1, <2>3, <2>4
    <3> QED
      BY <1>2, <2>2, <2>5, <3>1, <3>2
  <2>7. CASE d \notin cycle[c].late
    <3>1. launched' = [launched EXCEPT ![Home[c]][d] = launched[Home[c]][d] + 1]
      BY <1>9, <2>7 DEF Launch
    <3>2. /\ launched'[Home[c]][d] = launched[Home[c]][d] + 1
          /\ \A p \in Processes, e \in Rules :
               (p = Home[c] /\ e = d) \/ launched'[p][e] = launched[p][e]
      BY <1>0, <3>1
    <3>3. launched[Home[c]][d] <= faults + crashes
      BY <1>t, <2>2, <2>7 DEF Paid
    <3>4. \A p \in Processes, e \in Rules : launched'[p][e] <= 1 + faults' + crashes'
      <4> TAKE p \in Processes, e \in Rules
      <4>1. CASE p = Home[c] /\ e = d
        BY <1>0, <2>2, <3>2, <3>3, <4>1
      <4>2. CASE ~ (p = Home[c] /\ e = d)
        BY <1>t, <2>2, <3>2, <4>2 DEF Paid, RelaunchCostsFault
      <4> QED
        BY <4>1, <4>2
    <3>5. Opened(Home[c], d)'
      BY <2>1, <2>4, <2>7 DEF Opened
    <3>6. \A p \in Processes : \A e \in due' :
            Opened(p, e)' \/ launched'[p][e] <= faults' + crashes'
      <4> TAKE p \in Processes
      <4> TAKE e \in due'
      <4>1. CASE p = Home[c] /\ e = d
        BY <3>5, <4>1
      <4>2. CASE ~ (p = Home[c] /\ e = d)
        BY <1>t, <1>0, <2>2, <2>5, <3>2, <4>2 DEF Paid
      <4> QED
        BY <4>1, <4>2
    <3>7. \A b \in Cycles : \A e \in cycle'[b].todo \ cycle'[b].late :
            launched'[Home[b]][e] <= faults' + crashes'
      <4> TAKE b \in Cycles
      <4> TAKE e \in cycle'[b].todo \ cycle'[b].late
      <4>1. CASE b = c
        <5>1. e \in cycle[c].todo \ cycle[c].late /\ e # d
          BY <2>1, <2>4, <4>1
        <5> QED
          BY <1>t, <1>0, <2>2, <3>2, <4>1, <5>1 DEF Paid
      <4>2. CASE b # c /\ Home[b] = Home[c]
        BY <2>2, <2>3, <4>2, Alone
      <4>3. CASE b # c /\ Home[b] # Home[c]
        BY <1>t, <1>0, <2>2, <2>3, <3>2, <4>3 DEF Paid
      <4> QED
        BY <4>1, <4>2, <4>3
    <3> QED
      BY <3>4, <3>6, <3>7 DEF Paid, RelaunchCostsFault
  <2> QED
    BY <2>6, <2>7
<1>10. ASSUME NEW c \in Cycles, CommitRule(c) PROVE Paid'
  <2>1. PICK s : /\ cycle' = [cycle EXCEPT ![c] = s] /\ s.late = cycle[c].late
                 /\ s.todo = cycle[c].todo /\ s.open = {}
    BY <1>10, SettleMoves DEF Moves
  <2>2. /\ UNCHANGED <<launched, faults, crashes>>
        /\ due' = due \ (cycle[c].open \ cycle[c].late)
        /\ cycle[c].pc = "dispatch"
    BY <1>t, <1>10 DEF CommitRule, Working
  <2>3. \A b \in Cycles : b = c \/ cycle'[b] = cycle[b]
    BY <1>0, <2>1
  <2>4. cycle'[c] = s
    BY <1>0, <2>1
  <2>5. \A b \in Cycles : cycle'[b].todo \ cycle'[b].late \subseteq cycle[b].todo \ cycle[b].late
    BY <2>1, <2>3, <2>4
  <2>6. \A p \in Processes, d \in due' : Opened(p, d) => Opened(p, d)'
    BY <2>2, <2>3 DEF Opened
  <2> QED
    BY <1>2, <2>2, <2>5, <2>6
<1>11. ASSUME NEW d \in Rules, Tick(d) PROVE Paid'
  <2>1. /\ UNCHANGED <<faults, crashes>> /\ due' = due \cup {d}
        /\ launched' = [p \in Processes |-> [launched[p] EXCEPT ![d] = 0]]
    BY <1>11 DEF Tick
  <2>2. \A c \in Cycles : /\ cycle'[c].todo = cycle[c].todo /\ cycle'[c].open = cycle[c].open
                          /\ cycle[c].late \subseteq cycle'[c].late
                          /\ cycle'[c].late \subseteq cycle[c].late \cup {d}
    BY <1>0, <1>11 DEF Tick, CycleState
  <2>3. \A p \in Processes, e \in Rules :
          launched'[p][e] = IF e = d THEN 0 ELSE launched[p][e]
    BY <1>0, <2>1
  <2>4. \A c \in Cycles : \A e \in cycle'[c].todo \ cycle'[c].late :
          launched'[Home[c]][e] <= faults' + crashes'
    BY <1>t, <1>0, <2>1, <2>2, <2>3 DEF Paid
  <2>5. \A p \in Processes, e \in due : e # d /\ Opened(p, e) => Opened(p, e)'
    BY <2>2 DEF Opened
  <2>6. \A p \in Processes : \A e \in due' :
          Opened(p, e)' \/ launched'[p][e] <= faults' + crashes'
    BY <1>t, <1>0, <2>1, <2>3, <2>5 DEF Paid
  <2>7. \A p \in Processes, e \in Rules : launched'[p][e] <= 1 + faults' + crashes'
    BY <1>t, <1>0, <2>1, <2>3 DEF Paid, RelaunchCostsFault
  <2> QED
    BY <2>4, <2>6, <2>7 DEF Paid, RelaunchCostsFault
<1>12. ASSUME NEW c \in Cycles, Fault(c) PROVE Paid'
  <2>1. UNCHANGED launched /\ Failing /\ UNCHANGED crashes
    BY <1>12, Zenon DEF Fault, InsertFails, EnterOnError, LaunchFails, CommitFails, GiveUp,
       FinishFails, ReleaseFails
  <2>2. faults' + crashes' = faults + crashes + 1
    BY <1>0, <2>1 DEF Failing
  <2> QED
    BY <1>1, <2>1, <2>2
<1>13. ASSUME NEW p \in Processes, Crash(p) PROVE Paid'
  <2>1. faults' + crashes' = faults + crashes + 1 /\ UNCHANGED launched
    BY <1>0, <1>13 DEF Crash
  <2> QED
    BY <1>1, <2>1
<1>14. CASE UNCHANGED <<cycle, launched, faults, crashes, due>>
  BY <1>t, <1>14 DEF Paid, RelaunchCostsFault, Opened
<1> QED
  BY <1>4, <1>5, <1>6, <1>7, <1>8, <1>9, <1>10, <1>11, <1>12, <1>13, <1>14
  DEF Next, Step, Recycle, vars

-----------------------------------------------------------------------------
(* The theorems.                                                           *)

LEMMA CycleInvInit == Init => CycleInv
<1> SUFFICES ASSUME Init PROVE CycleInv
  OBVIOUS
<1>1. TypeOK
  BY TypeInit
<1>2. Counted
  BY DEF Init, Counted, Unheld
<1>3. \A c \in Cycles : cycle[c] = Resting
  BY DEF Init
<1>4. Checkout /\ ThreadOwner /\ Working
  BY <1>3, RestingType DEF Checkout, ThreadOwner, Started, Working
<1>5. \A p \in Processes, d \in Rules : launched[p][d] = 0
  BY DEF Init
<1>6. faults = 0 /\ crashes = 0 /\ due = {}
  BY DEF Init
<1>7. Paid
  BY <1>3, <1>5, <1>6, RestingType DEF Paid, RelaunchCostsFault
<1> QED
  BY <1>1, <1>2, <1>4, <1>7 DEF CycleInv

\* The inductive invariant: who holds the process's locks, the connections and
\* the advisory lock, and which runs were started, while cycles start, are
\* refused, dispatch, fail and crash.
THEOREM CycleInvariant == Spec => []CycleInv
<1>1. CycleInv /\ [Next]_vars => CycleInv'
  BY TypeStep, CountedStep, CheckoutStep, ThreadOwnerStep, PaidStep DEF CycleInv
<1> QED
  BY CycleInvInit, <1>1, PTL DEF Spec

\* The state keeps its types: the advisory lock is never released more often
\* than it was obtained.
THEOREM CycleTypes == Spec => []TypeOK
<1>1. CycleInv => TypeOK
  BY DEF CycleInv
<1> QED
  BY CycleInvariant, <1>1, PTL

\* Whatever the pool does, at most one cycle of a process dispatches.
THEOREM OneDispatchesPerProcess == Spec => []ExclusiveInProcess
<1>1. CycleInv => ExclusiveInProcess
  BY DEF CycleInv, ExclusiveInProcess, ThreadOwner, Started, Inside
<1> QED
  BY CycleInvariant, <1>1, PTL

\* Whatever the pool does, and whoever else dispatches the same rules, a process
\* starts the run of a due rule more than once only because a statement failed or
\* a process died, as between the start of its thread and the commit.
THEOREM RelaunchesArePaid == Spec => []RelaunchCostsFault
<1>1. CycleInv => RelaunchCostsFault
  BY DEF CycleInv, Paid
<1> QED
  BY CycleInvariant, <1>1, PTL

=============================================================================
