---------------------------- MODULE EdfLifecycle ----------------------------
(***************************************************************************)
(* Loading and unloading the kernel module (edfomai-drv.c), call by call,  *)
(* while processes use its device and tasks start and end.  A call may     *)
(* fail; the code looks at the results of rtdm_dev_register and of the     *)
(* last hook only.  What the unloaded or rejected code leaves registered   *)
(* is an orphan: entering it, a race for the table and the use of a handle *)
(* that outlived its task have no defined behaviour.                       *)
(*                                                                         *)
(* Deadlines and priorities are left to EdfData, the way the service goes  *)
(* to EdfDriver; here the table is the set of the tasks it holds and the   *)
(* memory of its entries is counted.                                       *)
(***************************************************************************)
EXTENDS Naturals, FiniteSets

CONSTANTS
  Task,        \* the real-time tasks
  Writer,      \* the processes that use the device
  Service,     \* the recalculation service, as an owner of the lock
  Nobody,      \* the owner of the lock while it is free
  MaxBlocks    \* bound on the blocks that requests leave allocated

ASSUME LifecycleAssumption ==
  /\ IsFiniteSet(Task) /\ IsFiniteSet(Writer)
  /\ Service \notin Writer
  /\ Nobody \notin Writer \cup {Service}
  /\ MaxBlocks \in Nat

VARIABLES
  module,     \* how far edf_rtdm_init or edf_rtdm_exit has come
  parts,      \* what the module has registered or created
  orphans,    \* what is left of a module whose code is gone
  life,       \* what Xenomai knows of each task
  at,         \* where each process is
  request,    \* the command and the task of each request in the handler
  owner,      \* the owner of edf_data_lock
  table,      \* the tasks in dtask_map
  unseen,     \* history: tasks that ended before the delete hook was there
  heap,       \* how many blocks of each kind are allocated
  dropped,    \* history: entries forgotten by rt_dtask_init or by the unload
  undefined   \* history: the behaviour of the code is no longer defined

taskVars == <<life, table, unseen, heap, dropped>>
processVars == <<at, request>>
lifecycleVars == <<module, parts, orphans, taskVars, processVars, owner, undefined>>

Part == {"device", "queue", "event", "service", "start_hook", "delete_hook"}

Loading ==
  {"registered", "emptied", "initialized", "queued", "signalled", "serving", "started"}

Unloading == {"unhooking", "unhooked", "unqueued", "stopped", "silent", "disposed"}

Command == {"CREATE_TASK", "SET_DEADLINE", "RESET_DEADLINE"}

Request == [command : Command, task : Task]

NoRequest == [command |-> "none"]

\* A process is inside the handler until it has released the lock.
Inside == {w \in Writer : at[w] \in {"bound", "accessing", "served"}}

Accessing == {w \in Writer : at[w] = "accessing"}

LifecycleTypeOK ==
  /\ module \in {"unloaded", "live", "rejected"} \cup Loading \cup Unloading
  /\ parts \subseteq Part /\ orphans \subseteq Part
  /\ life \in [Task -> {"new", "alive", "ended"}]
  /\ at \in [Writer -> {"closed", "open", "bound", "accessing", "served"}]
  /\ request \in [Writer -> Request \cup {NoRequest}]
  /\ \A w \in Writer : request[w] = NoRequest <=> w \notin Inside
  /\ owner \in Writer \cup {Service, Nobody}
  /\ table \subseteq Task /\ unseen \subseteq Task
  /\ heap \in [{"entry", "watchd", "info", "message"} -> Nat]
  /\ dropped \in Nat
  /\ undefined \in BOOLEAN

\* The next call of edf_rtdm_init or edf_rtdm_exit.
Call(from, to) == ~ undefined /\ module = from /\ module' = to

\* A call that adds part p, or fails and is not looked at.
MayAdd(p) == parts' \in {parts, parts \cup {p}}

-----------------------------------------------------------------------------
(* edf_rtdm_init.                                                          *)

\* A failed registration ends the load and changes nothing.
RegisterDevice ==
  /\ Call("unloaded", "registered")
  /\ parts' = parts \cup {"device"}
  /\ UNCHANGED <<orphans, taskVars, processVars, owner, undefined>>

\* rt_dtask_init: who wrote already is forgotten.
InitTable ==
  /\ Call("registered", "emptied")
  /\ undefined' = (Accessing # {})
  /\ table' = {} /\ unseen' = {}
  /\ dropped' = dropped + Cardinality(table)
  /\ UNCHANGED <<parts, orphans, life, heap, processVars, owner>>

\* _mtx_create: a lock that is held is made anew, and nobody knows who holds it.
CreateLock ==
  /\ Call("emptied", "initialized")
  /\ owner' = Nobody
  /\ undefined' = (owner # Nobody)
  /\ UNCHANGED <<parts, orphans, taskVars, processVars>>

CreateQueue ==
  /\ Call("initialized", "queued")
  /\ MayAdd("queue")
  /\ UNCHANGED <<orphans, taskVars, processVars, owner, undefined>>

\* rtdm_event_init returns nothing.
InitEvent ==
  /\ Call("queued", "signalled")
  /\ parts' = parts \cup {"event"}
  /\ UNCHANGED <<orphans, taskVars, processVars, owner, undefined>>

\* rtdm_task_init.
StartService ==
  /\ Call("signalled", "serving")
  /\ MayAdd("service")
  /\ UNCHANGED <<orphans, taskVars, processVars, owner, undefined>>

\* The result is overwritten by that of the other hook.
AddStartHook ==
  /\ Call("serving", "started")
  /\ MayAdd("start_hook")
  /\ UNCHANGED <<orphans, taskVars, processVars, owner, undefined>>

\* Mutated form of AddDeleteHook: its failure is not returned either.
AddDeleteHookUnchecked ==
  /\ Call("started", "live")
  /\ MayAdd("delete_hook")
  /\ UNCHANGED <<orphans, taskVars, processVars, owner, undefined>>

\* Without the delete hook the load fails: the code goes, all else stays.
AddDeleteHook ==
  \/ /\ Call("started", "live")
     /\ parts' = parts \cup {"delete_hook"}
     /\ UNCHANGED <<orphans, taskVars, processVars, owner, undefined>>
  \/ /\ Call("started", "rejected")
     /\ parts' = {}
     /\ orphans' = orphans \cup parts
     /\ undefined' = (Inside # {} \/ owner # Nobody)
     /\ UNCHANGED <<taskVars, processVars, owner>>

LoadStep ==
  \/ RegisterDevice \/ InitTable \/ CreateLock \/ CreateQueue \/ InitEvent
  \/ StartService \/ AddStartHook \/ AddDeleteHook

-----------------------------------------------------------------------------
(* edf_rtdm_exit.                                                          *)

\* The start hook was added for T_HOOK_START and is removed for that and
\* T_HOOK_SWITCH: it may stay.
RemoveStartHook ==
  /\ Call("live", "unhooking")
  /\ parts' \in {parts, parts \ {"start_hook"}}
  /\ UNCHANGED <<orphans, taskVars, processVars, owner, undefined>>

RemoveDeleteHook ==
  /\ Call("unhooking", "unhooked")
  /\ parts' = parts \ {"delete_hook"}
  /\ UNCHANGED <<orphans, taskVars, processVars, owner, undefined>>

DeleteQueue ==
  /\ Call("unhooked", "unqueued")
  /\ parts' = parts \ {"queue"}
  /\ UNCHANGED <<orphans, taskVars, processVars, owner, undefined>>

\* The service may be destroyed between _mtx_acquire and _mtx_release.
DestroyService ==
  /\ Call("unqueued", "stopped")
  /\ parts' = parts \ {"service"}
  /\ UNCHANGED <<orphans, taskVars, processVars, owner, undefined>>

DestroyEvent ==
  /\ Call("stopped", "silent")
  /\ parts' = parts \ {"event"}
  /\ UNCHANGED <<orphans, taskVars, processVars, owner, undefined>>

\* Mutated form of DisposeTable: the entries are unlinked and not freed.
DisposeUnlinked ==
  /\ Call("silent", "disposed")
  /\ table' = {}
  /\ undefined' = (Accessing # {})
  /\ UNCHANGED <<parts, orphans, life, unseen, heap, dropped, processVars, owner>>

\* rt_dtask_dispose does not take the lock.
DisposeTable ==
  /\ Call("silent", "disposed")
  /\ table' = {}
  /\ heap' = [heap EXCEPT !["entry"] = @ - Cardinality(table),
                          !["watchd"] = @ - Cardinality(table)]
  /\ undefined' = (Accessing # {})
  /\ UNCHANGED <<parts, orphans, life, unseen, dropped, processVars, owner>>

\* Mutated form of UnregisterDevice: nobody waits for the open descriptors.
UnregisterAtOnce ==
  /\ Call("disposed", "unloaded")
  /\ parts' = {}
  /\ orphans' = orphans \cup (parts \ {"device"})
  /\ dropped' = dropped + Cardinality(table)
  /\ table' = {}
  /\ owner' = Nobody /\ unseen' = {}
  /\ UNCHANGED <<life, heap, processVars, undefined>>

\* rtdm_dev_unregister waits until every descriptor is closed; then the code
\* of the module and the lock are gone; what entered the table late is lost.
UnregisterDevice ==
  /\ Call("disposed", "unloaded")
  /\ \A w \in Writer : at[w] = "closed"
  /\ parts' = {}
  /\ orphans' = orphans \cup (parts \ {"device"})
  /\ dropped' = dropped + Cardinality(table)
  /\ table' = {}
  /\ owner' = Nobody /\ unseen' = {}
  /\ UNCHANGED <<life, heap, processVars, undefined>>

UnloadStep ==
  \/ RemoveDeleteHook \/ DeleteQueue \/ DestroyService
  \/ DestroyEvent \/ DisposeTable \/ UnregisterDevice

-----------------------------------------------------------------------------
(* Tasks, and the hooks they run into.                                     *)

\* The event a hook signals, or the code of an orphan.
EntersUndefined(hook) ==
  hook \in orphans \/ (hook \in parts /\ "event" \notin parts)

TaskStarts(t) ==
  /\ ~ undefined
  /\ life[t] = "new"
  /\ life' = [life EXCEPT ![t] = "alive"]
  /\ undefined' = EntersUndefined("start_hook")
  /\ UNCHANGED <<module, parts, orphans, table, unseen, heap, dropped, processVars, owner>>

\* Mutated form of TaskEnds: the entry is freed and stays linked.
TaskEndsLinked(t) ==
  /\ ~ undefined
  /\ life[t] = "alive"
  /\ life' = [life EXCEPT ![t] = "ended"]
  /\ IF "delete_hook" \in parts /\ t \in table
     THEN /\ heap' = [heap EXCEPT !["entry"] = @ - 1, !["watchd"] = @ - 1]
     ELSE UNCHANGED heap
  /\ unseen' = IF module \in Loading THEN unseen \cup {t} ELSE unseen
  /\ undefined' = (\/ EntersUndefined("delete_hook")
                   \/ "delete_hook" \in parts /\ (Accessing # {} \/ owner = Service))
  /\ UNCHANGED <<module, parts, orphans, table, dropped, processVars, owner>>

\* Without the delete hook the entry stays.
TaskEnds(t) ==
  /\ ~ undefined
  /\ life[t] = "alive"
  /\ life' = [life EXCEPT ![t] = "ended"]
  /\ IF "delete_hook" \in parts /\ t \in table
     THEN /\ table' = table \ {t}
          /\ heap' = [heap EXCEPT !["entry"] = @ - 1, !["watchd"] = @ - 1]
     ELSE UNCHANGED <<table, heap>>
  /\ unseen' = IF module \in Loading THEN unseen \cup {t} ELSE unseen
  /\ undefined' = (\/ EntersUndefined("delete_hook")
                   \/ "delete_hook" \in parts /\ (Accessing # {} \/ owner = Service))
  /\ UNCHANGED <<module, parts, orphans, dropped, processVars, owner>>

-----------------------------------------------------------------------------
(* Processes: open, write, close.                                          *)

Open(w) ==
  /\ ~ undefined
  /\ at[w] = "closed"
  /\ "device" \in parts \cup orphans
  /\ at' = [at EXCEPT ![w] = "open"]
  /\ undefined' = ("device" \in orphans)
  /\ UNCHANGED <<module, parts, orphans, taskVars, request, owner>>

Close(w) ==
  /\ ~ undefined
  /\ at[w] = "open"
  /\ at' = [at EXCEPT ![w] = "closed"]
  /\ undefined' = ("device" \in orphans)
  /\ UNCHANGED <<module, parts, orphans, taskVars, request, owner>>

\* The handler has its message and the handle of a task; a write for a name
\* nobody has, or of a command it does not know, frees the message and leaves.
Bind(w, r) ==
  /\ ~ undefined
  /\ at[w] = "open"
  /\ life[r.task] = "alive"
  /\ heap["watchd"] + heap["info"] < MaxBlocks
  /\ at' = [at EXCEPT ![w] = "bound"]
  /\ request' = [request EXCEPT ![w] = r]
  /\ heap' = [heap EXCEPT !["message"] = @ + 1]
  /\ undefined' = ("device" \in orphans)
  /\ UNCHANGED <<module, parts, orphans, life, table, unseen, dropped, owner>>

Acquire(w) ==
  /\ ~ undefined
  /\ at[w] = "bound" /\ owner = Nobody
  /\ owner' = w
  /\ at' = [at EXCEPT ![w] = "accessing"]
  /\ UNCHANGED <<module, parts, orphans, taskVars, request, undefined>>

\* An entry takes two blocks; a create that is refused keeps the watchdog of
\* the entry it throws away.
Create(t) ==
  /\ table' = table \cup {t}
  /\ heap' = [heap EXCEPT !["entry"] = IF t \in table THEN @ ELSE @ + 1,
                          !["watchd"] = @ + 1]

\* rt_dtask_setdeadline keeps the task_info it asked for.
SetDeadline == heap' = [heap EXCEPT !["info"] = @ + 1] /\ UNCHANGED table

Operate(w) ==
  /\ ~ undefined
  /\ at[w] = "accessing"
  /\ \/ request[w].command = "CREATE_TASK" /\ Create(request[w].task)
     \/ request[w].command = "SET_DEADLINE" /\ SetDeadline
     \/ request[w].command = "RESET_DEADLINE" /\ UNCHANGED <<heap, table>>
  /\ at' = [at EXCEPT ![w] = "served"]
  /\ undefined' = (life[request[w].task] # "alive")
  /\ UNCHANGED <<module, parts, orphans, life, unseen, dropped, request, owner>>

\* Mutated form of Release: a refused request returns with the lock held.
ReleaseUnlessReset(w) ==
  /\ ~ undefined
  /\ at[w] = "served"
  /\ owner' = IF request[w].command = "RESET_DEADLINE" THEN owner ELSE Nobody
  /\ at' = [at EXCEPT ![w] = "open"]
  /\ request' = [request EXCEPT ![w] = NoRequest]
  /\ heap' = [heap EXCEPT !["message"] = @ - 1]
  /\ UNCHANGED <<module, parts, orphans, life, table, unseen, dropped, undefined>>

\* The lock is released, the message freed.
Release(w) ==
  /\ ~ undefined
  /\ at[w] = "served"
  /\ owner' = Nobody
  /\ at' = [at EXCEPT ![w] = "open"]
  /\ request' = [request EXCEPT ![w] = NoRequest]
  /\ heap' = [heap EXCEPT !["message"] = @ - 1]
  /\ UNCHANGED <<module, parts, orphans, life, table, unseen, dropped, undefined>>

-----------------------------------------------------------------------------
(* The service takes the lock, recalculates and gives it back.             *)

ServiceAcquire ==
  /\ ~ undefined
  /\ "service" \in parts \cup orphans
  /\ owner = Nobody
  /\ owner' = Service
  /\ undefined' = ("service" \in orphans)
  /\ UNCHANGED <<module, parts, orphans, taskVars, processVars>>

ServiceRelease ==
  /\ ~ undefined
  /\ "service" \in parts
  /\ owner = Service
  /\ owner' = Nobody
  /\ UNCHANGED <<module, parts, orphans, taskVars, processVars, undefined>>

-----------------------------------------------------------------------------
LifecycleInit ==
  /\ module = "unloaded"
  /\ parts = {} /\ orphans = {}
  /\ life = [t \in Task |-> "new"]
  /\ at = [w \in Writer |-> "closed"]
  /\ request = [w \in Writer |-> NoRequest]
  /\ owner = Nobody
  /\ table = {} /\ unseen = {}
  /\ heap = [kind \in {"entry", "watchd", "info", "message"} |-> 0]
  /\ dropped = 0
  /\ undefined = FALSE

\* What a process is free to do or not.
Uses(w) == Open(w) \/ \E r \in Request : Bind(w, r)

WriterStep(w) == Close(w) \/ Acquire(w) \/ Operate(w) \/ Release(w)

\* Nothing is said of an undefined behaviour.
Stopped == undefined /\ UNCHANGED lifecycleVars

LifecycleNext ==
  \/ LoadStep \/ RemoveStartHook \/ UnloadStep
  \/ \E t \in Task : TaskStarts(t) \/ TaskEnds(t)
  \/ \E w \in Writer : Uses(w) \/ WriterStep(w)
  \/ ServiceAcquire \/ ServiceRelease
  \/ Stopped

LifecycleSpec == LifecycleInit /\ [][LifecycleNext]_lifecycleVars

(***************************************************************************)
(* A call of the exit function and an operation with the lock held take    *)
(* their time and end; a process closes its descriptor, when it ends at    *)
(* the latest.  Nothing makes an administrator load or unload the module.  *)
(***************************************************************************)
FairLifecycleSpec ==
  /\ LifecycleSpec
  /\ WF_lifecycleVars(UnloadStep)
  /\ \A w \in Writer : WF_lifecycleVars(WriterStep(w))

-----------------------------------------------------------------------------
(* Properties.                                                             *)

(***************************************************************************)
(* An unload that ended, whatever failed at the load and whoever used the  *)
(* device meanwhile, leaves no process in the code that is gone, no        *)
(* device, no service and no delete hook (edf_rtdm_exit unregisters the    *)
(* device last and waits): only the start hook may stay behind.            *)
(***************************************************************************)
QuietWhenUnloaded ==
  module = "unloaded" =>
    /\ \A w \in Writer : at[w] = "closed"
    /\ parts = {} /\ orphans \subseteq {"start_hook"}

(***************************************************************************)
(* A load that succeeded watches the tasks: whichever calls failed, an     *)
(* entry of a task that is gone is one of a task that ended while the      *)
(* module was still loading (the device is registered before the hooks).   *)
(***************************************************************************)
EndedTasksLeave ==
  module = "live" /\ ~ undefined =>
    \A t \in table : life[t] = "alive" \/ t \in unseen

(***************************************************************************)
(* The memory of an entry is freed once and on every way out of the table, *)
(* the end of its task or the unload, and never the watchdog of another    *)
(* one: what is lost are entries that rt_dtask_init or the unload forgot,  *)
(* and watchdogs of creates that were refused.  Messages are all freed.    *)
(***************************************************************************)
MemoryIsOwned ==
  /\ heap["entry"] = Cardinality(table) + dropped
  /\ heap["entry"] <= heap["watchd"]
  /\ heap["message"] = Cardinality(Inside)

(***************************************************************************)
(* The unload comes to its end, unless processes go on using the device or *)
(* the service was destroyed while it held the lock: then a writer waits   *)
(* for the lock and the unload for the writer.                             *)
(***************************************************************************)
LockAbandoned == owner = Service /\ "service" \notin parts

UnloadEnds ==
  \/ []<><<\E w \in Writer : Uses(w)>>_lifecycleVars
  \/ module \in Unloading ~> module = "unloaded" \/ LockAbandoned \/ undefined
=============================================================================
