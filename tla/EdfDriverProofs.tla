-------------------------- MODULE EdfDriverProofs --------------------------
(***************************************************************************)
(* Proofs about the driver at work: the lock keeps those who take it       *)
(* apart, and whatever interleaves, the table keeps the invariant of       *)
(* EdfDataProofs and no task that is gone until the behaviour is           *)
(* undefined.                                                              *)
(*                                                                         *)
(* Every step of the driver is a step of the table, or leaves it alone, or *)
(* gives a new task its base priority (DriverDataStep), so what EdfData    *)
(* keeps is kept; what is left is the control of writers and service.      *)
(***************************************************************************)
EXTENDS EdfDriver, EdfDataProofs

USE DriverAssumption

\* DriverTypeOK without the table.
Control ==
  /\ life \in [Task -> {"none", "created", "started"}]
  /\ pc \in [Writer -> {"idle", "bound", "accessing", "served"}]
  /\ msg \in [Writer -> EDFMessage \cup {NoMessage}]
  /\ \A w \in Writer : msg[w] = NoMessage <=> pc[w] = "idle"
  /\ stale \subseteq {w \in Writer : pc[w] # "idle"}
  /\ owner \in Writer \cup {Service, Nobody}
  /\ svc \in {"waiting", "acquiring", "accessing", "recalculated", "released"}
  /\ edf_event \in BOOLEAN /\ owed \in BOOLEAN /\ undefined \in BOOLEAN

\* Who is in a section owns the lock.
Ownership ==
  /\ \A w \in Writer : pc[w] \in {"accessing", "served"} <=> owner = w
  /\ svc \in {"accessing", "recalculated"} <=> owner = Service

\* A handle that did not outlive its task is that of a task.
Fresh ==
  \A w \in Writer : pc[w] # "idle" /\ w \notin stale => msg[w].task \in Alive

Kept == EDFInv /\ DOMAIN dtask_map \subseteq Alive

DriverInv == TypeOK /\ Control /\ Ownership /\ Fresh /\ (~ undefined => Kept)

(***************************************************************************)
(* Messages.                                                               *)
(***************************************************************************)
LEMMA MessageFacts ==
  ASSUME NEW m \in EDFMessage
  PROVE  /\ m # NoMessage /\ m.task \in Task /\ m.command \in Command
         /\ m.command \in {"CREATE_TASK", "START_TASK", "SET_DEADLINE"} => m.deadline \in Deadline
  <1>1. m.task \in Task /\ m.command \in Command
    BY DEF EDFMessage
  <1>2. m.command # "none"
    BY <1>1
  <1>3. m # NoMessage
    BY <1>2 DEF NoMessage
  <1>4. ASSUME m.command \in {"CREATE_TASK", "START_TASK", "SET_DEADLINE"}
        PROVE  m.deadline \in Deadline
    BY <1>4 DEF EDFMessage
  <1>5. QED
    BY <1>1, <1>3, <1>4

(***************************************************************************)
(* A recalculation adds and removes no entry.                              *)
(***************************************************************************)
LEMMA RecalculateDomain ==
  ASSUME NEW m, Recalculate(m)
  PROVE  DOMAIN dtask_map' = DOMAIN m
  BY DEF Recalculate, Refresh

(***************************************************************************)
(* A request is a step of the table that enters at most its own task.      *)
(***************************************************************************)
LEMMA ServeStep ==
  ASSUME NEW m \in EDFMessage, NEW t \in Task, Serve(m, t)
  PROVE  [Next]_vars /\ DOMAIN dtask_map' \subseteq DOMAIN dtask_map \cup {t}
  <1>1. CASE m.command = "CREATE_TASK" /\ rt_dtask_create(t, m.deadline)
    <2>1. m.deadline \in Deadline
      BY <1>1, MessageFacts
    <2>2. Next
      BY <1>1, <2>1 DEF Next, Recalculation
    <2>3. PICK r : Recalculate(r) /\ DOMAIN r \subseteq DOMAIN dtask_map \cup {t}
      BY <1>1 DEF rt_dtask_create, Put
    <2>4. QED
      BY <2>2, <2>3, RecalculateDomain
  <1>2. CASE m.command \in {"START_TASK", "SET_DEADLINE"} /\ rt_dtask_setdeadline(t, m.deadline)
    <2>1. m.deadline \in Deadline
      BY <1>2, MessageFacts
    <2>2. Next
      BY <1>2, <2>1 DEF Next, Recalculation
    <2>3. PICK r : Recalculate(r) /\ DOMAIN r \subseteq DOMAIN dtask_map \cup {t}
      BY <1>2 DEF rt_dtask_setdeadline, Put
    <2>4. QED
      BY <2>2, <2>3, RecalculateDomain
  <1>3. CASE rt_dtask_resetdeadline(t)
    <2>1. Next
      BY <1>3 DEF Next, Recalculation
    <2>2. PICK r : Recalculate(r) /\ DOMAIN r \subseteq DOMAIN dtask_map \cup {t}
      BY <1>3 DEF rt_dtask_resetdeadline, Put
    <2>3. QED
      BY <2>1, <2>2, RecalculateDomain
  <1>4. CASE rt_dtask_stopwatchdog(t) \/ rt_dtask_goingwaitp(t)
    <2>1. Next
      BY <1>4 DEF Next
    <2>2. DOMAIN dtask_map' = DOMAIN dtask_map
      BY <1>4 DEF rt_dtask_stopwatchdog, rt_dtask_goingwaitp
    <2>3. QED
      BY <2>1, <2>2
  <1>5. CASE UNCHANGED <<now, dataVars>>
    BY <1>5 DEF dataVars, vars
  <1>6. QED
    BY <1>1, <1>2, <1>3, <1>4, <1>5 DEF Serve

(***************************************************************************)
(* What a step of the driver does to the table.                            *)
(***************************************************************************)
LEMMA OperateStep ==
  ASSUME Control, NEW w \in Writer, Operate(w)
  PROVE  /\ [Next]_vars
         /\ w \notin stale => DOMAIN dtask_map' \subseteq DOMAIN dtask_map \cup {msg[w].task}
  <1>1. msg[w] \in EDFMessage
    BY DEF Control, Operate
  <1>2. msg[w].task \in Task
    BY <1>1, MessageFacts
  <1>3. PICK t \in IF w \in stale THEN Task ELSE {msg[w].task} : Serve(msg[w], t)
    BY DEF Operate
  <1>4. t \in Task /\ (w \notin stale => t = msg[w].task)
    BY <1>2, <1>3
  <1>5. QED
    BY <1>1, <1>3, <1>4, ServeStep

\* The steps that leave the table alone.
Aside ==
  \/ \E t \in Task : edf_startswitch_hook(t)
  \/ \E w \in Writer : Bind(w) \/ Acquire(w) \/ Release(w)
  \/ ServiceWait \/ ServiceAcquire \/ ServiceRelease \/ ServiceClear
  \/ Stopped

LEMMA AsideStep ==
  ASSUME Aside
  PROVE  UNCHANGED vars
  BY DEF Aside, edf_startswitch_hook, Bind, Acquire, Release, ServiceWait, ServiceAcquire,
         ServiceRelease, ServiceClear, Stopped, driverVars, dataVars, vars

LEMMA DeleteStep ==
  ASSUME NEW t \in Task, edf_delete_hook(t)
  PROVE  [Next]_vars /\ DOMAIN dtask_map' = DOMAIN dtask_map \ {t}
  <1>1. CASE rt_dtask_delete(t)
    BY <1>1 DEF Next, rt_dtask_delete, Restrict
  <1>2. CASE t \notin DOMAIN dtask_map /\ UNCHANGED <<now, dataVars>>
    BY <1>2 DEF dataVars, vars
  <1>3. QED
    BY <1>1, <1>2 DEF edf_delete_hook

LEMMA ServiceStep ==
  ASSUME ServiceRecalculate
  PROVE  [Next]_vars /\ DOMAIN dtask_map' = DOMAIN dtask_map
  <1>1. rt_dtask_recalculateprio
    BY DEF ServiceRecalculate
  <1>2. Next
    BY <1>1 DEF Next, Recalculation
  <1>3. QED
    BY <1>1, <1>2, RecalculateDomain DEF rt_dtask_recalculateprio

LEMMA OutsideStep ==
  ASSUME Outside
  PROVE  [Next]_vars /\ dtask_map' = dtask_map
  BY DEF Outside, Next, Tick, ReadMissed

LEMMA DriverDataStep ==
  ASSUME Control, [DriverNext]_driverVars
  PROVE  [Next]_vars \/ \E t \in Task : TaskCreate(t)
  <1>1. CASE \E w \in Writer : Operate(w)
    BY <1>1, OperateStep
  <1>2. CASE \E t \in Task : edf_delete_hook(t)
    BY <1>2, DeleteStep
  <1>3. CASE ServiceRecalculate
    BY <1>3, ServiceStep
  <1>4. CASE Outside
    BY <1>4, OutsideStep
  <1>5. CASE Aside
    BY <1>5, AsideStep
  <1>6. CASE UNCHANGED driverVars
    BY <1>6 DEF driverVars, dataVars, vars
  <1>7. QED
    BY <1>1, <1>2, <1>3, <1>4, <1>5, <1>6 DEF DriverNext, Aside

LEMMA DriverTable ==
  ASSUME TypeOK, Control, [DriverNext]_driverVars
  PROVE  TypeOK'
  <1>1. CASE [Next]_vars
    BY <1>1, NextType
  <1>2. CASE \E t \in Task : TaskCreate(t)
    BY <1>2, DataAssumption DEF TaskCreate, TypeOK
  <1>3. QED
    BY <1>1, <1>2, DriverDataStep

(***************************************************************************)
(* The control of writers and service.                                     *)
(***************************************************************************)
LEMMA DriverControl ==
  ASSUME Control, Ownership, [DriverNext]_driverVars
  PROVE  Control' /\ Ownership'
  <1> USE DEF Control, Ownership
  <1>1. CASE \E t \in Task : TaskCreate(t) \/ edf_startswitch_hook(t)
    BY <1>1 DEF TaskCreate, edf_startswitch_hook, rtdm_event_signal, writerVars, serviceVars
  <1>2. CASE \E t \in Task : edf_delete_hook(t)
    <2>1. PICK t \in Task : edf_delete_hook(t)
      BY <1>2
    <2>2. /\ life' \in [Task -> {"none", "created", "started"}]
          /\ UNCHANGED <<pc, msg, owner, svc>>
          /\ edf_event' \in BOOLEAN /\ owed' \in BOOLEAN /\ undefined' \in BOOLEAN
      BY <2>1 DEF edf_delete_hook, rtdm_event_signal
    <2>3. stale' \subseteq {w \in Writer : pc'[w] # "idle"}
      BY <2>1 DEF edf_delete_hook
    <2>4. QED
      BY <2>2, <2>3
  <1>3. CASE \E w \in Writer : Bind(w)
    <2>1. PICK w \in Writer, m \in EDFMessage :
            /\ msg' = [msg EXCEPT ![w] = m]
            /\ pc[w] = "idle" /\ pc' = [pc EXCEPT ![w] = "bound"]
            /\ UNCHANGED <<life, stale, owner, serviceVars, undefined>>
      BY <1>3 DEF Bind
    <2>2. m # NoMessage
      BY MessageFacts
    <2>3. QED
      BY <2>1, <2>2 DEF serviceVars
  <1>4. CASE \E w \in Writer : Acquire(w)
    <2>1. PICK w \in Writer :
            /\ pc[w] = "bound" /\ owner = Nobody /\ owner' = w
            /\ pc' = [pc EXCEPT ![w] = "accessing"]
            /\ UNCHANGED <<life, msg, stale, serviceVars, undefined>>
      BY <1>4 DEF Acquire
    <2>2. Control'
      BY <2>1 DEF serviceVars
    <2>3. Ownership'
      BY <2>1, DriverAssumption DEF serviceVars
    <2>4. QED
      BY <2>2, <2>3
  <1>5. CASE \E w \in Writer : Operate(w)
    <2>1. PICK w \in Writer : Operate(w)
      BY <1>5
    <2>2. /\ pc[w] = "accessing" /\ pc' = [pc EXCEPT ![w] = "served"]
          /\ UNCHANGED <<life, msg, stale, owner, serviceVars>>
      BY <2>1 DEF Operate
    <2>3. undefined' = (w \in stale)
      BY <2>1 DEF Operate
    <2>4. undefined' \in BOOLEAN
      BY <2>3
    <2>5. Control'
      BY <2>2, <2>4 DEF serviceVars
    <2>6. Ownership'
      BY <2>2, DriverAssumption DEF serviceVars
    <2>7. QED
      BY <2>5, <2>6
  <1>6. CASE \E w \in Writer : Release(w)
    <2>1. PICK w \in Writer :
            /\ pc[w] = "served" /\ pc' = [pc EXCEPT ![w] = "idle"]
            /\ owner' = Nobody
            /\ msg' = [msg EXCEPT ![w] = NoMessage] /\ stale' = stale \ {w}
            /\ UNCHANGED <<life, serviceVars, undefined>>
      BY <1>6 DEF Release
    <2>2. Control'
      BY <2>1 DEF serviceVars
    <2>3. Ownership'
      BY <2>1, DriverAssumption DEF serviceVars
    <2>4. QED
      BY <2>2, <2>3
  <1>7. CASE ServiceWait \/ ServiceAcquire \/ ServiceRecalculate \/ ServiceRelease \/ ServiceClear
    BY <1>7 DEF ServiceWait, ServiceAcquire, ServiceRecalculate, ServiceRelease, ServiceClear,
                writerVars
  <1>8. CASE Outside
    BY <1>8 DEF Outside, writerVars, serviceVars
  <1>9. CASE Stopped \/ UNCHANGED driverVars
    BY <1>9 DEF Stopped, driverVars, writerVars, serviceVars
  <1>10. QED
    BY <1>1, <1>2, <1>3, <1>4, <1>5, <1>6, <1>7, <1>8, <1>9 DEF DriverNext

LEMMA DriverFresh ==
  ASSUME Control, Fresh, [DriverNext]_driverVars
  PROVE  Fresh'
  <1> USE DEF Fresh, Alive
  <1>1. CASE \E t \in Task : TaskCreate(t) \/ edf_startswitch_hook(t)
    BY <1>1 DEF TaskCreate, edf_startswitch_hook, writerVars, Control
  <1>2. CASE \E t \in Task : edf_delete_hook(t)
    BY <1>2 DEF edf_delete_hook, Control
  <1>3. CASE \E w \in Writer : Bind(w)
    <2>1. PICK w \in Writer, m \in EDFMessage :
            /\ life[m.task] # "none"
            /\ msg' = [msg EXCEPT ![w] = m]
            /\ pc' = [pc EXCEPT ![w] = "bound"]
            /\ UNCHANGED <<life, stale>>
      BY <1>3 DEF Bind
    <2>2. m.task \in Task
      BY MessageFacts
    <2>3. QED
      BY <2>1, <2>2 DEF Control
  <1>4. CASE \E w \in Writer : Acquire(w) \/ Operate(w) \/ Release(w)
    BY <1>4 DEF Acquire, Operate, Release, Control
  <1>5. CASE \/ ServiceWait \/ ServiceAcquire \/ ServiceRecalculate \/ ServiceRelease
             \/ ServiceClear \/ Outside \/ Stopped \/ UNCHANGED driverVars
    BY <1>5 DEF ServiceWait, ServiceAcquire, ServiceRecalculate, ServiceRelease, ServiceClear,
                Outside, Stopped, driverVars, writerVars
  <1>6. QED
    BY <1>1, <1>2, <1>3, <1>4, <1>5 DEF DriverNext

(***************************************************************************)
(* A new task has no entry, so its base priority disturbs no order.        *)
(***************************************************************************)
LEMMA CreateKeeps ==
  ASSUME Control, Kept, NEW t \in Task, TaskCreate(t)
  PROVE  Kept'
  <1>1. /\ t \notin DOMAIN dtask_map
        /\ now' = now /\ dtask_map' = dtask_map
        /\ \A u \in DOMAIN dtask_map : prio'[u] = prio[u]
        /\ Alive' = Alive \cup {t}
    BY DEF TaskCreate, Kept, Alive, EDFInv, TypeOK, Control
  <1>2. TypeOK'
    BY DataAssumption DEF TaskCreate, Kept, EDFInv, TypeOK
  <1>3. Anchored'
    BY <1>1 DEF Kept, EDFInv, Anchored
  <1>4. LateOnTop' /\ EDFOrder'
    BY <1>1 DEF Kept, EDFInv, LateOnTop, EDFOrder, EligibleTasks
  <1>5. QED
    BY <1>1, <1>2, <1>3, <1>4 DEF Kept, EDFInv

(***************************************************************************)
(* While the behaviour is defined, the table is in order and holds no task *)
(* that is gone.                                                           *)
(***************************************************************************)
LEMMA DriverKeeps ==
  ASSUME SafeDeadlines, DriverInv, [DriverNext]_driverVars, ~ undefined'
  PROVE  Kept'
  <1>1. ~ undefined
    BY DEF DriverInv, DriverNext, TaskCreate, edf_startswitch_hook, edf_delete_hook, Bind, Acquire,
           Operate, Release, ServiceWait, ServiceAcquire, ServiceRecalculate, ServiceRelease,
           ServiceClear, Outside, Stopped, driverVars
  <1>2. Control /\ Fresh /\ EDFInv /\ DOMAIN dtask_map \subseteq Alive
    BY <1>1 DEF DriverInv, Kept
  <1>3. ASSUME [Next]_vars
        PROVE  EDFInv'
    BY <1>2, <1>3, NextEDF
  <1>4. CASE \E t \in Task : TaskCreate(t)
    BY <1>2, <1>4, CreateKeeps DEF Kept
  <1>5. CASE \E t \in Task : edf_delete_hook(t)
    <2>1. PICK t \in Task : edf_delete_hook(t)
      BY <1>5
    <2>2. Alive' = Alive \ {t}
      BY <1>2, <2>1 DEF edf_delete_hook, Alive, Control
    <2>3. QED
      BY <1>2, <1>3, <2>1, <2>2, DeleteStep DEF Kept
  <1>6. CASE \E w \in Writer : Operate(w)
    <2>1. PICK w \in Writer : Operate(w)
      BY <1>6
    <2>2. w \notin stale /\ pc[w] # "idle" /\ life' = life
      BY <2>1 DEF Operate
    <2>3. msg[w].task \in Alive
      BY <1>2, <2>2 DEF Fresh
    <2>4. QED
      BY <1>2, <1>3, <2>1, <2>2, <2>3, OperateStep DEF Kept, Alive
  <1>7. CASE ServiceRecalculate
    BY <1>2, <1>3, <1>7, ServiceStep DEF Kept, Alive, ServiceRecalculate
  <1>8. CASE Outside
    BY <1>2, <1>3, <1>8, OutsideStep DEF Kept, Alive, Outside
  <1>9. CASE Aside
    <2>1. Alive \subseteq Alive'
      BY <1>2, <1>9 DEF Aside, edf_startswitch_hook, Bind, Acquire, Release, ServiceWait,
                        ServiceAcquire, ServiceRelease, ServiceClear, Stopped, driverVars,
                        Alive, Control
    <2>2. UNCHANGED vars
      BY <1>9, AsideStep
    <2>3. QED
      BY <1>2, <1>3, <2>1, <2>2 DEF Kept, vars
  <1>10. CASE UNCHANGED driverVars
    BY <1>2, <1>3, <1>10 DEF driverVars, dataVars, vars, Kept, Alive
  <1>11. QED
    BY <1>4, <1>5, <1>6, <1>7, <1>8, <1>9, <1>10 DEF DriverNext, Aside

-----------------------------------------------------------------------------
(***************************************************************************)
(* The state of the driver is well typed, and those who take the lock are  *)
(* kept apart, for every number of tasks, writers and commands.            *)
(***************************************************************************)
LEMMA DriverStart == DriverInit => DriverInv
  <1>1. SUFFICES ASSUME DriverInit PROVE DriverInv
    OBVIOUS
  <1>2. EDFInv
    BY <1>1, InitEDF DEF DriverInit
  <1>3. DOMAIN dtask_map = {}
    BY <1>1 DEF DriverInit, Init, rt_dtask_init, Restrict
  <1>4. Control /\ Ownership /\ Fresh
    BY <1>1, DriverAssumption DEF DriverInit, Control, Ownership, Fresh
  <1>5. QED
    BY <1>2, <1>3, <1>4 DEF DriverInv, Kept, EDFInv

THEOREM LockInvariant == DriverSpec => [](TypeOK /\ Control /\ Ownership)
  <1>1. DriverInit => TypeOK /\ Control /\ Ownership
    BY DriverStart DEF DriverInv
  <1>2. TypeOK /\ Control /\ Ownership /\ [DriverNext]_driverVars
          => (TypeOK /\ Control /\ Ownership)'
    BY DriverTable, DriverControl
  <1>3. QED
    BY <1>1, <1>2, PTL DEF DriverSpec

THEOREM DriverTypeCorrect == DriverSpec => []DriverTypeOK
  <1>1. TypeOK /\ Control => DriverTypeOK
    BY DEF Control, DriverTypeOK
  <1>2. QED
    BY LockInvariant, <1>1, PTL

THEOREM LockSeparates == DriverSpec => []LockedAccess
  <1>1. Ownership => LockedAccess
    <2>1. SUFFICES ASSUME Ownership, NEW a \in Accessing, NEW b \in Accessing
                   PROVE  a = b
      BY DEF LockedAccess
    <2>2. a = owner /\ b = owner
      BY <2>1 DEF Accessing, Ownership
    <2>3. QED
      BY <2>2
  <1>2. QED
    BY LockInvariant, <1>1, PTL

(***************************************************************************)
(* A processor that is frozen stays frozen: a thread that spins for the    *)
(* lock is ready, so the owner below it does not go on, and the lock is    *)
(* not free, so the thread spins on (edfomai-drv.c:67).                    *)
(***************************************************************************)
THEOREM FrozenForEver == DriverSpec => [][Frozen => Frozen']_driverVars
  <1>1. ASSUME Control, Ownership, Frozen, [DriverNext]_driverVars
        PROVE  Frozen'
    <2>1. owner \in Writer /\ owner # Service /\ owner # Nobody
      BY <1>1 DEF Frozen
    <2>2. PICK p \in Above[owner] : Spinning(p)
      BY <1>1 DEF Frozen
    <2>3. p \in Writer \cup {Service}
      BY <2>1, <2>2, PlacementAssumption
    <2>4. ~ Runs(owner)
      BY <2>2, <2>3 DEF Runs, Ready, Spinning
    <2>5. SUFFICES owner' = owner /\ Spinning(p)'
      BY <2>1, <2>2 DEF Frozen
    <2>6. ASSUME NEW w \in Writer, Bind(w)
          PROVE  owner' = owner /\ Spinning(p)'
      <3>1. p # w
        BY <2>2, <2>6 DEF Bind, Spinning
      <3>2. pc[w] = "idle" /\ pc' = [pc EXCEPT ![w] = "bound"] /\ svc' = svc /\ owner' = owner
        BY <2>6 DEF Bind, serviceVars
      <3>3. QED
        BY <1>1, <2>2, <2>3, <3>1, <3>2 DEF Spinning, Control
    <2>7. ASSUME NEW w \in Writer, Acquire(w)
          PROVE  FALSE
      BY <2>1, <2>7 DEF Acquire
    <2>8. ASSUME NEW w \in Writer, Operate(w) \/ Release(w)
          PROVE  FALSE
      <3>1. Runs(w) /\ owner = w
        BY <1>1, <2>8 DEF Operate, Release, Ownership
      <3>2. QED
        BY <2>4, <3>1
    <2>9. CASE ServiceWait \/ ServiceAcquire \/ ServiceRecalculate \/ ServiceRelease \/ ServiceClear
      <3>1. ServiceWait \/ ServiceClear
        BY <1>1, <2>1, <2>9 DEF ServiceAcquire, ServiceRecalculate, ServiceRelease, Ownership
      <3>2. svc # "acquiring" /\ UNCHANGED <<owner, pc>>
        BY <3>1 DEF ServiceWait, ServiceClear, writerVars
      <3>3. QED
        BY <2>2, <3>2 DEF Spinning
    <2>10. CASE \E t \in Task : TaskCreate(t) \/ edf_startswitch_hook(t) \/ edf_delete_hook(t)
      BY <2>2, <2>10 DEF TaskCreate, edf_startswitch_hook, edf_delete_hook, writerVars, serviceVars,
                         Spinning
    <2>11. CASE Outside \/ Stopped \/ UNCHANGED driverVars
      BY <2>2, <2>11 DEF Outside, Stopped, driverVars, writerVars, serviceVars, Spinning
    <2>12. QED
      BY <1>1, <2>6, <2>7, <2>8, <2>9, <2>10, <2>11 DEF DriverNext
  <1>2. TypeOK /\ Control /\ Ownership /\ [DriverNext]_driverVars => [Frozen => Frozen']_driverVars
    BY <1>1
  <1>3. QED
    BY LockInvariant, <1>2, PTL DEF DriverSpec

(***************************************************************************)
(* Earliest deadline first under every interleaving of requests,           *)
(* recalculations, starts and ends of tasks, until a hook meets an access  *)
(* or a handle outlives its task.                                          *)
(***************************************************************************)
THEOREM OrderUntilUndefined ==
  ASSUME SafeDeadlines
  PROVE  DriverSpec => []OrderWhileDefined
  <1>1. DriverInv /\ [DriverNext]_driverVars => DriverInv'
    <2>1. SUFFICES ASSUME DriverInv, [DriverNext]_driverVars PROVE DriverInv'
      OBVIOUS
    <2>2. TypeOK' /\ Control' /\ Ownership'
      BY <2>1, DriverTable, DriverControl DEF DriverInv
    <2>3. Fresh'
      BY <2>1, DriverFresh DEF DriverInv
    <2>4. ~ undefined' => Kept'
      BY <2>1, DriverKeeps
    <2>5. QED
      BY <2>2, <2>3, <2>4 DEF DriverInv
  <1>2. DriverInv => OrderWhileDefined
    BY DEF DriverInv, Kept, EDFInv, OrderWhileDefined
  <1>3. QED
    BY DriverStart, <1>1, <1>2, PTL DEF DriverSpec
=============================================================================
