----------------------------- MODULE EdfClient -----------------------------
(***************************************************************************)
(* The user library (edfomai-app.c) under the programs that test it        *)
(* (periodic_test.c, sporadic_test.c): the main thread opens the device,   *)
(* starts the tasks and disposes while they run; a periodic task opens the *)
(* device once more, waits its periods and disposes; all of them share one *)
(* descriptor variable.  The tasks are created with mode 0, not with       *)
(* T_JOINABLE, and rt_task_join returns at once; when main returns, the    *)
(* process ends, and with it the tasks that still run.                     *)
(*                                                                         *)
(* Every access of a thread to the shared descriptor variable is a step of *)
(* its own.  A request is one step on the table of EdfData: EdfDriver is   *)
(* about what happens inside one.  How long a task works and sleeps is     *)
(* arbitrary.                                                              *)
(***************************************************************************)
EXTENDS EdfData

CONSTANTS
  Main,         \* the main thread
  Periods,      \* NPERIODS: how many periods a periodic task waits
  Descriptors   \* how many descriptors a process can have open

ASSUME ClientAssumption ==
  /\ Main \notin Task
  /\ Periods \in Nat
  /\ Descriptors \in Nat

VARIABLES
  periodic,    \* which program runs: periodic_test or sporadic_test
  device,      \* the descriptor the library writes to, -1 for none
  got,         \* what rt_dev_open has given each thread, until it is stored
  open,        \* the descriptors that are open
  at,          \* where each thread is
  left,        \* the periods each task has still to wait
  accepted,    \* history: the driver took the last request of each task
  edf_event    \* a hook has signalled the recalculation service

processVars == <<device, got, open>>
dataVars == <<dtask_map, prio, edf_dmissed_q>>
clientVars == <<now, dataVars, periodic, processVars, at, left, accepted, edf_event>>

Thread == Task \cup {Main}

\* Inside edf_init, inside edf_dispose.
Opening == {"initializing", "opening", "opened", "stored", "rejected"}
Closing == {"closing", "failed"}

Place == Opening \cup Closing \cup
         {"created", "checked", "registered", "unstarted", "running", "asleep", "disposed", "ended"}

\* The tasks main has yet to start.
Waiting == {"created", "checked", "registered"}

\* A negative error code of rt_dev_open.
Failed == -2

ClientTypeOK ==
  /\ TypeOK
  /\ periodic \in BOOLEAN
  /\ open \subseteq 0 .. Descriptors - 1
  /\ device \in Failed .. Descriptors - 1
  /\ got \in [Thread -> Failed .. Descriptors - 1]
  /\ at \in [Thread -> Place]
  /\ left \in [Task -> 0 .. Periods]
  /\ accepted \in [Task -> BOOLEAN]
  /\ edf_event \in BOOLEAN

Go(p, place) == at' = [at EXCEPT ![p] = place]

\* An operation on a task without an entry changes nothing.
IfKnown(t, Operation) ==
  IF t \in DOMAIN dtask_map THEN Operation ELSE UNCHANGED <<now, dataVars>>

\* rt_dev_write of a request: the operation happens if the descriptor is open.
Send(t, Operation) ==
  /\ IF device \in open THEN Operation ELSE UNCHANGED <<now, dataVars>>
  /\ accepted' = [accepted EXCEPT ![t] = device \in open]

-----------------------------------------------------------------------------
(* edf_init and edf_dispose, by any thread.                                *)

edf_init(p) ==
  /\ at[p] = "initializing"
  /\ device' = -1
  /\ Go(p, "opening")
  /\ UNCHANGED <<now, dataVars, got, open, periodic, left, accepted, edf_event>>

\* Mutated form of Open: the number of descriptors is off by one.
OpenOneMore(p) ==
  /\ at[p] = "opening"
  /\ LET free == (0 .. Descriptors) \ open IN
     \/ /\ free # {}
        /\ got' = [got EXCEPT ![p] = Min(free)]
        /\ open' = open \cup {Min(free)}
     \/ got' = [got EXCEPT ![p] = Failed] /\ UNCHANGED open
  /\ Go(p, "opened")
  /\ UNCHANGED <<now, dataVars, device, periodic, left, accepted, edf_event>>

\* rt_dev_open gives the lowest free descriptor, or fails.
Open(p) ==
  /\ at[p] = "opening"
  /\ LET free == (0 .. Descriptors - 1) \ open IN
     \/ /\ free # {}
        /\ got' = [got EXCEPT ![p] = Min(free)]
        /\ open' = open \cup {Min(free)}
     \/ got' = [got EXCEPT ![p] = Failed] /\ UNCHANGED open
  /\ Go(p, "opened")
  /\ UNCHANGED <<now, dataVars, device, periodic, left, accepted, edf_event>>

Store(p) ==
  /\ at[p] = "opened"
  /\ device' = got[p]
  /\ got' = [got EXCEPT ![p] = -1]
  /\ Go(p, "stored")
  /\ UNCHANGED <<now, dataVars, open, periodic, left, accepted, edf_event>>

\* The test reads device again: it may be what another thread has stored.
TestDevice(p) ==
  /\ at[p] = "stored"
  /\ Go(p, IF device < 0 THEN "rejected" ELSE "running")
  /\ UNCHANGED <<now, dataVars, processVars, periodic, left, accepted, edf_event>>

\* edf_init fails.  Main returns, and the process ends; a task does not look.
Reject(p) ==
  /\ at[p] = "rejected"
  /\ device' = -1
  /\ Go(p, IF p = Main THEN "ended" ELSE "running")
  /\ UNCHANGED <<now, dataVars, got, open, periodic, left, accepted, edf_event>>

\* Mutated form of edf_dispose: main waits for the tasks to end, as if they
\* were joinable, also for one that was never started.
edf_dispose_joined(p) ==
  /\ at[p] = "running"
  /\ IF p = Main THEN \A t \in Task : at[t] = "ended" ELSE periodic /\ left[p] = 0
  /\ Go(p, IF device = -1 THEN "disposed" ELSE "closing")
  /\ UNCHANGED <<now, dataVars, processVars, periodic, left, accepted, edf_event>>

\* Main disposes when it has started the tasks, whether they run or not; a
\* task when it has waited its periods.
edf_dispose(p) ==
  /\ at[p] = "running"
  /\ IF p = Main THEN \A t \in Task : at[t] \notin Waiting ELSE periodic /\ left[p] = 0
  /\ Go(p, IF device = -1 THEN "disposed" ELSE "closing")
  /\ UNCHANGED <<now, dataVars, processVars, periodic, left, accepted, edf_event>>

\* Mutated form of Close: the descriptor is taken for closed.
CloseNothing(p) ==
  /\ at[p] = "closing"
  /\ Go(p, "disposed")
  /\ UNCHANGED <<now, dataVars, processVars, periodic, left, accepted, edf_event>>

\* rt_dev_close of what device is by now; its number stays in device.
Close(p) ==
  /\ at[p] = "closing"
  /\ open' = open \ {device}
  /\ Go(p, IF device \in open THEN "disposed" ELSE "failed")
  /\ UNCHANGED <<now, dataVars, device, got, periodic, left, accepted, edf_event>>

ForgetDevice(p) ==
  /\ at[p] = "failed"
  /\ device' = -1
  /\ Go(p, "disposed")
  /\ UNCHANGED <<now, dataVars, got, open, periodic, left, accepted, edf_event>>

-----------------------------------------------------------------------------
(* edf_task_start, by the main thread for one task after the other.        *)

\* Without a descriptor the task is not started, and nobody notices.
CheckDevice(t) ==
  /\ at[Main] = "running" /\ at[t] = "created"
  /\ \A u \in Task : at[u] \notin Waiting \ {"created"}
  /\ Go(t, IF device = -1 THEN "unstarted" ELSE "checked")
  /\ UNCHANGED <<now, dataVars, processVars, periodic, left, accepted, edf_event>>

\* The result of the write is ignored.
Register(t) ==
  /\ at[t] = "checked"
  /\ \E relative \in Deadline : Send(t, rt_dtask_create(t, relative))
  /\ Go(t, "registered")
  /\ UNCHANGED <<processVars, periodic, left, edf_event>>

\* rt_task_start, and the start hook of the driver.
StartTask(t) ==
  /\ at[t] = "registered"
  /\ Go(t, IF periodic THEN "initializing" ELSE "running")
  /\ edf_event' = TRUE
  /\ UNCHANGED <<now, dataVars, processVars, periodic, left, accepted>>

-----------------------------------------------------------------------------
(* The body of a task: edf_task_wait_period in a loop.                     *)

\* The first request of edf_task_wait_period; then the task sleeps.
StopWatchdog(t) ==
  /\ periodic /\ at[t] = "running" /\ left[t] > 0
  /\ Send(t, IfKnown(t, rt_dtask_stopwatchdog(t)))
  /\ left' = [left EXCEPT ![t] = @ - 1]
  /\ Go(t, "asleep")
  /\ UNCHANGED <<periodic, processVars, edf_event>>

\* The period is over; the second request of edf_task_wait_period.  It fails
\* when device is -1 where it is tested, and when it is not open where the
\* request is written: for the table it happens at once or not at all.
ResetDeadline(t) ==
  /\ at[t] = "asleep"
  /\ Send(t, IfKnown(t, rt_dtask_resetdeadline(t)))
  /\ Go(t, "running")
  /\ UNCHANGED <<processVars, periodic, left, edf_event>>

\* The task is deleted where it stands, and the delete hook runs.
Delete(t) ==
  /\ IfKnown(t, rt_dtask_delete(t))
  /\ Go(t, "ended")
  /\ edf_event' = TRUE
  /\ UNCHANGED <<processVars, periodic, left, accepted>>

\* The body of the task returns.
EndTask(t) ==
  /\ at[t] = IF periodic THEN "disposed" ELSE "running"
  /\ Delete(t)

-----------------------------------------------------------------------------
(* The end of the process.                                                 *)

\* main returns.
Return ==
  /\ at[Main] = "disposed"
  /\ Go(Main, "ended")
  /\ UNCHANGED <<now, dataVars, processVars, periodic, left, accepted, edf_event>>

\* The end of the process deletes the tasks that were created, started or not.
Kill(t) ==
  /\ at[Main] = "ended" /\ at[t] \notin {"created", "ended"}
  /\ Delete(t)

Gone == at[Main] = "ended" /\ \A t \in Task : at[t] \in {"created", "ended"}

\* The kernel closes what the process has left open.
CloseAll ==
  /\ Gone /\ open # {}
  /\ open' = {}
  /\ UNCHANGED <<now, dataVars, device, got, at, periodic, left, accepted, edf_event>>

-----------------------------------------------------------------------------
(* The recalculation service and the clock.                                *)

Service ==
  /\ edf_event
  /\ rt_dtask_recalculateprio
  /\ edf_event' = FALSE
  /\ UNCHANGED <<processVars, at, periodic, left, accepted>>

ClientTick == Tick /\ UNCHANGED <<processVars, at, periodic, left, accepted, edf_event>>

-----------------------------------------------------------------------------
ClientInit ==
  /\ Init
  /\ periodic \in BOOLEAN
  /\ device = -1
  /\ got = [p \in Thread |-> -1]
  /\ open = {}
  /\ at = [p \in Thread |-> IF p = Main THEN "initializing" ELSE "created"]
  /\ left = [t \in Task |-> Periods]
  /\ accepted = [t \in Task |-> FALSE]
  /\ edf_event = FALSE

Library(p) ==
  \/ edf_init(p) \/ Open(p) \/ Store(p) \/ TestDevice(p) \/ Reject(p)
  \/ edf_dispose(p) \/ Close(p) \/ ForgetDevice(p)

MainNext ==
  \/ Library(Main) \/ Return
  \/ \E t \in Task : CheckDevice(t) \/ Register(t) \/ StartTask(t)

TaskNext(t) == Library(t) \/ StopWatchdog(t) \/ ResetDeadline(t) \/ EndTask(t)

Exit == CloseAll \/ \E t \in Task : Kill(t)

ClientNext ==
  \/ MainNext
  \/ \E t \in Task : TaskNext(t)
  \/ Exit
  \/ Service
  \/ ClientTick

ClientSpec == ClientInit /\ [][ClientNext]_clientVars

(***************************************************************************)
(* A thread goes on until it ends, main too: the bodies of the tasks are   *)
(* finite, a periodic task is woken by its timer, and no call waits for    *)
(* another thread.  The kernel ends what it has begun to end.              *)
(***************************************************************************)
FairClientSpec ==
  /\ ClientSpec
  /\ WF_clientVars(MainNext)
  /\ \A t \in Task : WF_clientVars(TaskNext(t))
  /\ WF_clientVars(Exit)

-----------------------------------------------------------------------------
(* Properties.                                                             *)

HasDeadline(t) == dtask_map[t].relative_deadline # DEADLINENOTSET

(***************************************************************************)
(* The protocol of edf_task_wait_period: a task whose last request reached *)
(* the driver is known there as what it is.  While it sleeps its deadline  *)
(* does not run, while it works its deadline is armed or found missed,     *)
(* whatever the other tasks, the service and the clock do.                 *)
(***************************************************************************)
TableFollowsTasks ==
  \A t \in Task :
    accepted[t] /\ t \in DOMAIN dtask_map =>
      /\ at[t] = "asleep" => phase[t] = "idle"
      /\ at[t] \in {"registered", "running"} /\ HasDeadline(t) => phase[t] \in {"armed", "missed"}

(***************************************************************************)
(* "NOT THREAD SAFE" (edfomai-app.h:5) is not in the way of a program that *)
(* calls edf_init and edf_dispose once, from its main thread: every task   *)
(* is started and known to the driver, and nothing is left open.           *)
(***************************************************************************)
OneInitSuffices ==
  ~ periodic =>
    /\ \A t \in Task :
         /\ at[Main] = "running" => at[t] # "unstarted"
         /\ at[t] \in {"registered", "running"} => t \in DOMAIN dtask_map
    /\ at[Main] = "disposed" => open = {}

(***************************************************************************)
(* The program ends, whichever requests and calls of the library fail and  *)
(* although nothing waits for the tasks: main returns, and what it and the *)
(* tasks leave behind, entries in the table of the driver and descriptors  *)
(* a second edf_init has leaked (edfomai-app.c:28), does not stay.         *)
(***************************************************************************)
ProgramEnds ==
  <>[](Gone /\ open = {} /\ DOMAIN dtask_map = {})

-----------------------------------------------------------------------------
(* A statement of the documentation that the code does not keep.           *)

(***************************************************************************)
(* "Then deadline will be resetted to starting specified value"            *)
(* (edfomai-app.h:24): when edf_task_wait_period returns, the deadline of  *)
(* a task with an entry, whose first request the driver has taken, runs    *)
(* from now.                                                               *)
(***************************************************************************)
ResetOnReturn ==
  [][\A t \in DOMAIN dtask_map :
       accepted[t] /\ at[t] = "asleep" /\ at'[t] = "running"
         => dtask_map'[t].deadline = (now + dtask_map[t].relative_deadline) % Word]_clientVars
=============================================================================
