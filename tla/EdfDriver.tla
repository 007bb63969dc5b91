----------------------------- MODULE EdfDriver -----------------------------
(***************************************************************************)
(* The kernel module at work (edfomai-drv.c): user threads write messages  *)
(* to the device, the hooks of the Xenomai scheduler report tasks that     *)
(* start and end, and the recalculation service waits for its event.  All  *)
(* meet at the deadline table of EdfData.  Writers and service take        *)
(* edf_data_lock around each operation; edf_delete_hook does not.          *)
(*                                                                         *)
(* An operation takes time: it accesses the table from the moment the lock *)
(* is held until its effect takes place.  A hook that runs meanwhile, and  *)
(* an operation on the handle of a task that is gone, have no defined      *)
(* behaviour: the model marks the state undefined and says no more.        *)
(*                                                                         *)
(* The processors are scheduled by fixed priorities: a writer goes on only *)
(* while no thread of its processor that is above it is ready.  The lock   *)
(* (rtdm_lock_get) leaves preemption on, so a thread that spins keeps its  *)
(* processor: it can take it from the owner of the lock, for ever.         *)
(***************************************************************************)
EXTENDS EdfData

CONSTANTS
  Command,   \* the commands the threads send
  Writer,    \* the threads that write to the device
  Service,   \* the recalculation service, as an owner of the lock
  Nobody,    \* the owner of the lock while it is free
  Above      \* who takes the processor from each writer when it is ready

ASSUME DriverAssumption ==
  /\ Command \subseteq {"CREATE_TASK", "START_TASK", "RESET_DEADLINE", "SET_DEADLINE",
                        "STOP_WATCHD", "GOING_WAITP"}
  /\ Service \notin Writer
  /\ Nobody \notin Writer \cup {Service}

\* Above are threads of the same processor, the service, if it is there, above
\* all its writers.
ASSUME PlacementAssumption ==
  /\ Above \in [Writer -> SUBSET (Writer \cup {Service})]
  /\ \A w \in Writer : \A v \in Above[w] \cap Writer :
       /\ w # v /\ w \notin Above[v]
       /\ Above[v] \subseteq Above[w]
       /\ (Service \in Above[w] => Service \in Above[v])

VARIABLES
  life,        \* what Xenomai knows of each task
  pc,          \* where each writer is in edf_rtdm_write_nrt
  msg,         \* the message each writer is serving
  stale,       \* the writers whose handle outlived its task
  owner,       \* the owner of edf_data_lock
  svc,         \* where the service is in _edf_service
  edf_event,   \* the event is pending
  owed,        \* history: a signal no recalculation has followed yet
  undefined    \* history: the behaviour of the code is no longer defined

dataVars == <<dtask_map, prio, edf_dmissed_q>>
writerVars == <<pc, msg, stale>>
serviceVars == <<svc, edf_event, owed>>
driverVars == <<now, dataVars, life, writerVars, owner, serviceVars, undefined>>

\* EDFMessage: the client sends no deadline with the last three commands.
EDFMessage ==
  [command  : Command \cap {"CREATE_TASK", "START_TASK", "SET_DEADLINE"},
   task     : Task,
   deadline : Deadline]
  \cup
  [command  : Command \cap {"RESET_DEADLINE", "STOP_WATCHD", "GOING_WAITP"},
   task     : Task,
   deadline : {DEADLINENOTSET}]

NoMessage == [command |-> "none"]

DriverTypeOK ==
  /\ TypeOK
  /\ life \in [Task -> {"none", "created", "started"}]
  /\ pc \in [Writer -> {"idle", "bound", "accessing", "served"}]
  /\ msg \in [Writer -> EDFMessage \cup {NoMessage}]
  /\ \A w \in Writer : msg[w] = NoMessage <=> pc[w] = "idle"
  /\ stale \subseteq {w \in Writer : pc[w] # "idle"}
  /\ owner \in Writer \cup {Service, Nobody}
  /\ svc \in {"waiting", "acquiring", "accessing", "recalculated", "released"}
  /\ edf_event \in BOOLEAN /\ owed \in BOOLEAN /\ undefined \in BOOLEAN

\* Who has something to do in the driver, spinning included.
Ready(p) == IF p = Service THEN svc # "waiting" \/ edf_event ELSE pc[p] # "idle"

Runs(w) == \A p \in Above[w] : ~ Ready(p)

\* Who reads or writes the table with the lock held.
Accessing ==
  {w \in Writer : pc[w] = "accessing"} \cup {s \in {Service} : svc = "accessing"}

-----------------------------------------------------------------------------
(* Tasks and the scheduler's hooks.                                        *)

\* A signal stays pending until rtdm_event_wait or rtdm_event_clear.
rtdm_event_signal == edf_event' = TRUE /\ owed' = TRUE

\* rt_task_create: the name enters the registry, no hook runs.
TaskCreate(t) ==
  /\ ~ undefined
  /\ life[t] = "none"
  /\ life' = [life EXCEPT ![t] = "created"]
  /\ prio' = [prio EXCEPT ![t] = BasePrio]
  /\ UNCHANGED <<now, dtask_map, edf_dmissed_q, writerVars, owner, serviceVars, undefined>>

\* rt_task_start runs the start hook.
edf_startswitch_hook(t) ==
  /\ ~ undefined
  /\ life[t] = "created"
  /\ life' = [life EXCEPT ![t] = "started"]
  /\ rtdm_event_signal
  /\ UNCHANGED <<now, dataVars, writerVars, owner, svc, undefined>>

\* Mutated form of edf_delete_hook: the entry is left to the service.
delete_hook_signals_only(t) ==
  /\ ~ undefined
  /\ life[t] # "none"
  /\ life' = [life EXCEPT ![t] = "none"]
  /\ rtdm_event_signal
  /\ stale' = stale \cup {w \in Writer : msg[w] # NoMessage /\ msg[w].task = t}
  /\ UNCHANGED <<now, dataVars, pc, msg, owner, svc, undefined>>

\* A task ends: its entry goes, no matter who accesses the table.
edf_delete_hook(t) ==
  /\ ~ undefined
  /\ life[t] # "none"
  /\ life' = [life EXCEPT ![t] = "none"]
  /\ \/ rt_dtask_delete(t)
     \/ t \notin DOMAIN dtask_map /\ UNCHANGED <<now, dataVars>>
  /\ rtdm_event_signal
  /\ stale' = stale \cup {w \in Writer : msg[w] # NoMessage /\ msg[w].task = t}
  /\ undefined' = (Accessing # {})
  /\ UNCHANGED <<pc, msg, owner, svc>>

-----------------------------------------------------------------------------
(* edf_rtdm_write_nrt.                                                     *)

\* _get_handle finds the task, before the lock is taken; without a task the
\* write fails and changes nothing.
Bind(w) ==
  /\ ~ undefined /\ Runs(w)
  /\ pc[w] = "idle"
  /\ \E m \in EDFMessage :
       /\ life[m.task] # "none"
       /\ msg' = [msg EXCEPT ![w] = m]
  /\ pc' = [pc EXCEPT ![w] = "bound"]
  /\ UNCHANGED <<now, dataVars, life, stale, owner, serviceVars, undefined>>

\* Mutated form of Acquire: the lock is taken without looking at its owner.
AcquireUnchecked(w) ==
  /\ ~ undefined /\ Runs(w)
  /\ pc[w] = "bound"
  /\ owner' = w
  /\ pc' = [pc EXCEPT ![w] = "accessing"]
  /\ UNCHANGED <<now, dataVars, life, msg, stale, serviceVars, undefined>>

Acquire(w) ==
  /\ ~ undefined /\ Runs(w)
  /\ pc[w] = "bound" /\ owner = Nobody
  /\ owner' = w
  /\ pc' = [pc EXCEPT ![w] = "accessing"]
  /\ UNCHANGED <<now, dataVars, life, msg, stale, serviceVars, undefined>>

\* The operation a message asks for, on the task whose name is t.
Serve(m, t) ==
  \/ m.command = "CREATE_TASK" /\ rt_dtask_create(t, m.deadline)
  \/ m.command \in {"START_TASK", "SET_DEADLINE"} /\ rt_dtask_setdeadline(t, m.deadline)
  \/ m.command = "RESET_DEADLINE" /\ rt_dtask_resetdeadline(t)
  \/ m.command = "STOP_WATCHD" /\ rt_dtask_stopwatchdog(t)
  \/ m.command = "GOING_WAITP" /\ rt_dtask_goingwaitp(t)
  \/ m.command # "CREATE_TASK" /\ t \notin DOMAIN dtask_map /\ UNCHANGED <<now, dataVars>>

\* rt_task_inquire gives no name for a handle that is gone: the operation
\* takes the one that lies in the memory of task_info.
Operate(w) ==
  /\ ~ undefined /\ Runs(w)
  /\ pc[w] = "accessing"
  /\ \E t \in IF w \in stale THEN Task ELSE {msg[w].task} : Serve(msg[w], t)
  /\ pc' = [pc EXCEPT ![w] = "served"]
  /\ undefined' = (w \in stale)
  /\ UNCHANGED <<life, msg, stale, owner, serviceVars>>

\* Mutated form of Release: a thread that served a task that is gone, or
\* that has no entry, returns with the lock held.
ReleaseOnSuccess(w) ==
  /\ ~ undefined /\ Runs(w)
  /\ pc[w] = "served"
  /\ owner' = IF msg[w].task \in DOMAIN dtask_map THEN Nobody ELSE owner
  /\ pc' = [pc EXCEPT ![w] = "idle"]
  /\ msg' = [msg EXCEPT ![w] = NoMessage]
  /\ stale' = stale \ {w}
  /\ UNCHANGED <<now, dataVars, life, serviceVars, undefined>>

\* Whatever the operation returned, the lock is released.
Release(w) ==
  /\ ~ undefined /\ Runs(w)
  /\ pc[w] = "served"
  /\ owner' = Nobody
  /\ pc' = [pc EXCEPT ![w] = "idle"]
  /\ msg' = [msg EXCEPT ![w] = NoMessage]
  /\ stale' = stale \ {w}
  /\ UNCHANGED <<now, dataVars, life, serviceVars, undefined>>

-----------------------------------------------------------------------------
(* _edf_service.                                                           *)

\* rtdm_event_wait returns at once when the event is pending, and takes it.
ServiceWait ==
  /\ ~ undefined
  /\ svc = "waiting" /\ edf_event
  /\ svc' = "acquiring"
  /\ edf_event' = FALSE
  /\ UNCHANGED <<now, dataVars, life, writerVars, owner, owed, undefined>>

\* Mutated form of ServiceAcquire: the service gives up when the lock is
\* held and goes back to wait.
ServiceTryAcquire ==
  /\ ~ undefined
  /\ svc = "acquiring"
  /\ IF owner = Nobody THEN owner' = Service /\ svc' = "accessing"
                       ELSE svc' = "waiting" /\ UNCHANGED owner
  /\ UNCHANGED <<now, dataVars, life, writerVars, edf_event, owed, undefined>>

ServiceAcquire ==
  /\ ~ undefined
  /\ svc = "acquiring" /\ owner = Nobody
  /\ owner' = Service
  /\ svc' = "accessing"
  /\ UNCHANGED <<now, dataVars, life, writerVars, edf_event, owed, undefined>>

ServiceRecalculate ==
  /\ ~ undefined
  /\ svc = "accessing"
  /\ rt_dtask_recalculateprio
  /\ svc' = "recalculated"
  /\ owed' = FALSE
  /\ UNCHANGED <<life, writerVars, owner, edf_event, undefined>>

ServiceRelease ==
  /\ ~ undefined
  /\ svc = "recalculated"
  /\ owner' = Nobody
  /\ svc' = "released"
  /\ UNCHANGED <<now, dataVars, life, writerVars, edf_event, owed, undefined>>

\* rtdm_event_clear, once the lock is released.
ServiceClear ==
  /\ ~ undefined
  /\ svc = "released"
  /\ svc' = "waiting"
  /\ edf_event' = FALSE
  /\ UNCHANGED <<now, dataVars, life, writerVars, owner, owed, undefined>>

-----------------------------------------------------------------------------
DriverInit ==
  /\ Init
  /\ life = [t \in Task |-> "none"]
  /\ pc = [w \in Writer |-> "idle"]
  /\ msg = [w \in Writer |-> NoMessage]
  /\ stale = {}
  /\ owner = Nobody
  /\ svc = "waiting"
  /\ edf_event = FALSE
  /\ owed = FALSE
  /\ undefined = FALSE

Outside ==
  /\ ~ undefined
  /\ Tick \/ ReadMissed
  /\ UNCHANGED <<life, writerVars, owner, serviceVars, undefined>>

\* Nothing is said of an undefined behaviour.
Stopped == undefined /\ UNCHANGED driverVars

DriverNext ==
  \/ \E t \in Task : TaskCreate(t) \/ edf_startswitch_hook(t) \/ edf_delete_hook(t)
  \/ \E w \in Writer : Bind(w) \/ Acquire(w) \/ Operate(w) \/ Release(w)
  \/ ServiceWait \/ ServiceAcquire \/ ServiceRecalculate \/ ServiceRelease \/ ServiceClear
  \/ Outside
  \/ Stopped

DriverSpec == DriverInit /\ [][DriverNext]_driverVars

(***************************************************************************)
(* An operation on the table is a loop over its entries that waits for     *)
(* nothing, and the service has the highest priority: a writer that may    *)
(* run goes on, and the service goes on.  The lock is no queue.  That the  *)
(* service gets it when it is free again and again is fair because only    *)
(* writers of other processors compete for it, which spend a system call   *)
(* between two requests: those of its own do not run while it is ready.    *)
(***************************************************************************)
DriverFairness ==
  /\ \A w \in Writer : WF_driverVars(Acquire(w) \/ Operate(w) \/ Release(w))
  /\ WF_driverVars(ServiceWait \/ ServiceRecalculate \/ ServiceRelease \/ ServiceClear)
  /\ SF_driverVars(ServiceAcquire)

FairDriverSpec == DriverSpec /\ DriverFairness

-----------------------------------------------------------------------------
(* Properties.                                                             *)

Alive == {t \in Task : life[t] # "none"}

(***************************************************************************)
(* The lock keeps writers and service apart (edfomai-drv.c:19-22): at most *)
(* one of them accesses the table, so each operation runs as one step.     *)
(***************************************************************************)
LockedAccess == \A a, b \in Accessing : a = b

(***************************************************************************)
(* However requests, recalculations and the ends and restarts of tasks     *)
(* interleave, the priorities follow the deadlines and the table holds no  *)
(* task that is gone, as long as the behaviour is defined: a hook between  *)
(* the steps of an access and an operation on a handle that is gone are    *)
(* the only ways to break them.                                            *)
(***************************************************************************)
OrderWhileDefined ==
  ~ undefined => EDFOrder /\ DOMAIN dtask_map \subseteq Alive

(***************************************************************************)
(* A thread above the owner of the lock spins for it on the same           *)
(* processor: rtdm_lock_get (edfomai-drv.c:67) leaves preemption on.       *)
(***************************************************************************)
Spinning(p) == IF p = Service THEN svc = "acquiring" ELSE pc[p] = "bound"

Frozen == owner \in Writer /\ \E p \in Above[owner] : Spinning(p)

(***************************************************************************)
(* Whatever its operation returns, a thread that took the lock gives it    *)
(* back, unless a thread above it on its processor spins for the lock for  *)
(* ever; nothing else, no starvation by others, keeps it.                  *)
(***************************************************************************)
LockIsReleased == owner # Nobody ~> owner = Nobody \/ undefined \/ []Frozen

(***************************************************************************)
(* A signal that finds the service waiting is followed by a recalculation, *)
(* also when the lock is held and others keep taking it, or else the       *)
(* processor of the owner is frozen for ever.                              *)
(***************************************************************************)
WakeupServed == svc = "waiting" /\ edf_event ~> ~ owed \/ undefined \/ []Frozen

-----------------------------------------------------------------------------
(* Statements of the documentation that the code does not keep.            *)

(***************************************************************************)
(* Deletion excludes "the specified RT_TASK from the EDF based priority    *)
(* rearrangment" (edfomai-drv-data.h:105): a task that is gone has no      *)
(* entry in the table.                                                     *)
(***************************************************************************)
DeletedExcluded == DOMAIN dtask_map \subseteq Alive

(***************************************************************************)
(* The service "is wake up every time the scheduler is invoked"            *)
(* (README.md:31): every signal is followed by a recalculation.            *)
(***************************************************************************)
EverySignalServed == owed ~> ~ owed \/ undefined

(***************************************************************************)
(* "Deadline miss notification" (README.md:37): a deadline that passes     *)
(* while it runs is marked MISSED, or the task is heard of again.          *)
(***************************************************************************)
Overdue(t) == phase[t] = "armed" /\ dtask_map[t].deadline <= now

MissIsNoticed == \A t \in Task : Overdue(t) ~> ~ Overdue(t) \/ undefined
=============================================================================
