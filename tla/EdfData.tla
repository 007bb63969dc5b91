------------------------------ MODULE EdfData ------------------------------
(***************************************************************************)
(* The deadline table of the driver (edfomai-drv-data.c): what each        *)
(* rt_dtask_* operation does to the table, to the priorities of the tasks  *)
(* and to the queue of deadline misses.  The driver runs an operation with *)
(* its spin lock held, so an operation is one step here; EdfDriver adds    *)
(* the lock, the processes that take it and the hook that does not.        *)
(*                                                                         *)
(* The clock (rt_timer_read), the tasks' current priorities                *)
(* (rt_task_set_priority, rt_task_inquire) and the message queue           *)
(* (rt_queue_write) belong to Xenomai and appear as this module uses them. *)
(***************************************************************************)
EXTENDS EdfPriority, Sequences, SequencesExt

CONSTANTS
  Task,         \* the names of the real-time tasks, the keys of the table
  Deadline,     \* the relative deadlines requests carry
  BasePrio,     \* the priority a task has before the driver touches it
  QueueLimit,   \* notifications the pool of DMISSEDQUEUE_SIZE bytes holds
  MaxTime       \* bound on the clock

DEADLINENOTSET == Word - 1    \* -1 as an unsigned long long

ASSUME DataAssumption ==
  /\ IsFiniteSet(Task)
  /\ Deadline \subseteq 0 .. DEADLINENOTSET
  /\ BasePrio \in Nat
  /\ QueueLimit \in Nat
  /\ MaxTime \in Nat /\ MaxTime < Word

VARIABLES
  now,            \* the clock
  dtask_map,      \* the table: a function from the tasks it holds to entries
  prio,           \* the current priority of each task
  edf_dmissed_q   \* the names of the tasks reported late, not yet read

vars == <<now, dtask_map, prio, edf_dmissed_q>>

\* RT_DEADLINE_TASK; GOING_WAITP, a command, is what the code stores in state.
Entry == [deadline          : 0 .. Word - 1,
          remain            : 0 .. Word - 1,
          relative_deadline : 0 .. Word - 1,
          status            : {"OK", "MISSED"},
          state             : {"RUNNING", "GOING_WAITP"}]

TypeOK ==
  /\ now \in 0 .. MaxTime
  /\ DOMAIN dtask_map \subseteq Task
  /\ dtask_map \in [DOMAIN dtask_map -> Entry]
  /\ prio \in [Task -> Nat]
  /\ edf_dmissed_q \in Seq(Task)
  /\ Len(edf_dmissed_q) <= QueueLimit

-----------------------------------------------------------------------------
(* The priority recalculation.                                             *)

\* An entry whose deadline runs.
Eligible(e) == e.relative_deadline # DEADLINENOTSET /\ e.state = "RUNNING"

EligibleTasks(m) == {t \in DOMAIN m : Eligible(m[t])}

\* Mutated form of Ranked: tasks that wait or have no deadline are ranked.
RankedIdleToo(m) ==
  {t \in DOMAIN m : EligibleTasks(m) # {} /\ m[t].status = "OK"}

\* The tasks whose priority a recalculation sets: a late task keeps its own.
Ranked(m) == {t \in EligibleTasks(m) : m[t].status = "OK"}

\* Mutated forms of Refresh: the remaining times are left as they were armed;
\* a task is late one unit early; a late task gets a huge remaining time.
RefreshNothing(m) == m

RefreshEarly(m) ==
  [t \in DOMAIN m |->
     IF t \in EligibleTasks(m)
     THEN [m[t] EXCEPT !.remain = IF m[t].deadline > now + 1 THEN m[t].deadline - now ELSE 0]
     ELSE m[t]]

RefreshUnsigned(m) ==
  [t \in DOMAIN m |->
     IF t \in EligibleTasks(m)
     THEN [m[t] EXCEPT !.remain = (m[t].deadline - now) % Word]
     ELSE m[t]]

\* The first pass: the remaining time of every eligible entry, 0 when late.
Refresh(m) ==
  [t \in DOMAIN m |->
     IF t \in EligibleTasks(m)
     THEN [m[t] EXCEPT !.remain = IF m[t].deadline > now THEN m[t].deadline - now ELSE 0]
     ELSE m[t]]

\* Mutated form of Remains: waiting tasks count with their stale times.
RemainsOfAll(m) == {m[t].remain : t \in DOMAIN m}

Remains(m) == {m[t].remain : t \in EligibleTasks(m)}

\* Mutated form of Late: a miss that was reported is reported again.
LateAgain(m) == {t \in EligibleTasks(m) : m[t].remain = 0}

Late(m) == {t \in Ranked(m) : m[t].remain = 0}

\* Mutated form of deadline_missed: the queue grows beyond its pool.
deadline_missed_unbounded(late) ==
  \E names \in SetToSeqs(late) : edf_dmissed_q' = edf_dmissed_q \o names

\* rt_queue_write fails, unnoticed, once the pool of the queue is used up.
deadline_missed(late) ==
  \E names \in SetToSeqs(late) :
    LET q == edf_dmissed_q \o names
    IN  edf_dmissed_q' = SubSeq(q, 1, Min({Len(q), QueueLimit}))

\* Both passes over the table m, as the calling operation leaves it.
Recalculate(m) ==
  LET f == Refresh(m) IN
  /\ dtask_map' = [t \in DOMAIN f |->
                     IF t \in Late(f) THEN [f[t] EXCEPT !.status = "MISSED"] ELSE f[t]]
  /\ prio' = [t \in Task |->
                IF t \in Ranked(f)
                THEN calculate_prio(f[t].remain, Min(Remains(f)), Max(Remains(f)))
                ELSE prio[t]]
  /\ deadline_missed(Late(f))

-----------------------------------------------------------------------------
(* The operations of the table, each called with the lock held.            *)

\* A deadline that starts to run now, in 64 bit arithmetic.
Armed(relative) ==
  [deadline          |-> (now + relative) % Word,
   remain            |-> relative,
   relative_deadline |-> relative,
   status            |-> "OK",
   state             |-> "RUNNING"]

Put(m, t, e) == [u \in DOMAIN m \cup {t} |-> IF u = t THEN e ELSE m[u]]

\* A name that is in the table keeps its entry; both outcomes recalculate.
rt_dtask_create(t, relative) ==
  /\ Recalculate(IF t \in DOMAIN dtask_map
                 THEN dtask_map
                 ELSE Put(dtask_map, t, Armed(relative)))
  /\ UNCHANGED now

rt_dtask_setdeadline(t, relative) ==
  /\ t \in DOMAIN dtask_map
  /\ Recalculate(Put(dtask_map, t, Armed(relative)))
  /\ UNCHANGED now

\* Mutated form of rt_dtask_resetdeadline: the task is still taken to wait.
resetdeadline_keeps_state(t) ==
  /\ t \in DOMAIN dtask_map
  /\ Recalculate(Put(dtask_map, t, [Armed(dtask_map[t].relative_deadline)
                                     EXCEPT !.state = dtask_map[t].state]))
  /\ UNCHANGED now

rt_dtask_resetdeadline(t) ==
  /\ t \in DOMAIN dtask_map
  /\ Recalculate(Put(dtask_map, t, Armed(dtask_map[t].relative_deadline)))
  /\ UNCHANGED now

rt_dtask_goingwaitp(t) ==
  /\ t \in DOMAIN dtask_map
  /\ dtask_map' = [dtask_map EXCEPT ![t].state = "GOING_WAITP"]
  /\ UNCHANGED <<now, prio, edf_dmissed_q>>

\* There is no watchdog to stop: the entry only goes to wait its period.
rt_dtask_stopwatchdog(t) == t \in DOMAIN dtask_map /\ rt_dtask_goingwaitp(t)

rt_dtask_delete(t) ==
  /\ t \in DOMAIN dtask_map
  /\ dtask_map' = Restrict(dtask_map, DOMAIN dtask_map \ {t})
  /\ UNCHANGED <<now, prio, edf_dmissed_q>>

rt_dtask_dispose ==
  /\ dtask_map' = Restrict(dtask_map, {})
  /\ UNCHANGED <<now, prio, edf_dmissed_q>>

\* Called by the recalculation service.
rt_dtask_recalculateprio == Recalculate(dtask_map) /\ UNCHANGED now

rt_dtask_init == dtask_map = Restrict(<<>>, {})

-----------------------------------------------------------------------------
(* What happens outside the driver.                                        *)

Tick ==
  /\ now < MaxTime
  /\ now' = now + 1
  /\ UNCHANGED <<dtask_map, prio, edf_dmissed_q>>

\* A reader of the queue takes the oldest notification.
ReadMissed ==
  /\ edf_dmissed_q # <<>>
  /\ edf_dmissed_q' = Tail(edf_dmissed_q)
  /\ UNCHANGED <<now, dtask_map, prio>>

-----------------------------------------------------------------------------
Init ==
  /\ rt_dtask_init
  /\ now = 0
  /\ prio = [t \in Task |-> BasePrio]
  /\ edf_dmissed_q = <<>>

\* The steps that recalculate the priorities.
Recalculation ==
  \/ \E t \in Task, relative \in Deadline :
       rt_dtask_create(t, relative) \/ rt_dtask_setdeadline(t, relative)
  \/ \E t \in Task : rt_dtask_resetdeadline(t)
  \/ rt_dtask_recalculateprio

Next ==
  \/ Recalculation
  \/ \E t \in Task : rt_dtask_stopwatchdog(t) \/ rt_dtask_goingwaitp(t) \/ rt_dtask_delete(t)
  \/ rt_dtask_dispose
  \/ Tick
  \/ ReadMissed

Spec == Init /\ [][Next]_vars

-----------------------------------------------------------------------------
(* Properties.                                                             *)

\* Requests whose deadlines stay clear of the end of the 64 bit word.
SafeDeadlines ==
  \A d \in Deadline \ {DEADLINENOTSET} :
    MaxTime + d < DEADLINENOTSET /\ d * (MAXPRIO - MINPRIO) < Word

(***************************************************************************)
(* Earliest deadline first ("EDF scheduling policy over RMPO scheduler",   *)
(* README.md:35): at any time, also between two recalculations and after   *)
(* tasks went to wait or were deleted, a task whose deadline runs never    *)
(* has a lower priority than one with a later deadline.                    *)
(***************************************************************************)
EDFOrder ==
  \A t, u \in EligibleTasks(dtask_map) :
    dtask_map[t].deadline <= dtask_map[u].deadline => prio[t] >= prio[u]

(***************************************************************************)
(* Why EDFOrder survives every step: no deadline is farther than its own   *)
(* length, a miss is only ever marked on a deadline that passed, and a     *)
(* late task was at MAXPRIO when its miss was marked and stays there,      *)
(* where no task ranked later can overtake it.                             *)
(***************************************************************************)
Anchored ==
  \A t \in DOMAIN dtask_map :
    LET e == dtask_map[t] IN
    /\ e.relative_deadline \in Deadline
    /\ e.deadline <= now + e.relative_deadline
    /\ e.relative_deadline # DEADLINENOTSET => e.relative_deadline <= e.deadline
    /\ e.status = "MISSED" => e.relative_deadline # DEADLINENOTSET /\ e.deadline <= now

LateOnTop ==
  \A t \in EligibleTasks(dtask_map) :
    dtask_map[t].status = "MISSED" => prio[t] = MAXPRIO

EDFInv == TypeOK /\ Anchored /\ LateOnTop /\ EDFOrder

(***************************************************************************)
(* A recalculation gives MAXPRIO to every task that is due first: tasks    *)
(* that wait their period or have no deadline do not hold the top          *)
(* priority back, nor does a task that is late already.                    *)
(***************************************************************************)
DueFirst ==
  {t \in EligibleTasks(dtask_map) :
     \A u \in EligibleTasks(dtask_map) : dtask_map[t].deadline <= dtask_map[u].deadline}

RecalculationPromotesDueFirst ==
  [][Recalculation => \A t \in DueFirst' : prio'[t] = MAXPRIO]_vars

(***************************************************************************)
(* A deadline is "an 200000ns since it's start or modification"            *)
(* (edfomai-drv-data.h:88): a task is not marked MISSED, and its miss is   *)
(* not notified, before its relative deadline has elapsed.                 *)
(***************************************************************************)
NoEarlyMiss ==
  \A t \in DOMAIN dtask_map :
    dtask_map[t].status = "MISSED" =>
      /\ dtask_map[t].deadline <= now
      /\ dtask_map[t].relative_deadline <= now

(***************************************************************************)
(* A task with no deadline or waiting its period keeps its priority        *)
(* ("priority remains static", edfomai-app.h:18-19), whatever is requested *)
(* for the other tasks and however often the service recalculates.         *)
(***************************************************************************)
StaticWithoutDeadline ==
  [][\A t \in Task :
       t \notin EligibleTasks(dtask_map)' => prio'[t] = prio[t]]_vars

(***************************************************************************)
(* The abstract monitor: the phase of a task's deadline and the reports    *)
(* that nobody has read yet.                                               *)
(***************************************************************************)
phase == [t \in Task |->
            IF t \notin DOMAIN dtask_map THEN "unknown"
            ELSE IF ~ Eligible(dtask_map[t]) THEN "idle"
            ELSE IF dtask_map[t].status = "OK" THEN "armed" ELSE "missed"]

Monitor == INSTANCE DeadlineMonitor WITH reports <- edf_dmissed_q

(***************************************************************************)
(* The table implements the monitor: a miss is reported once for each time *)
(* the deadline was armed, in the step that notices it and never for a     *)
(* task that waits, and only a full queue loses a report.                  *)
(***************************************************************************)
MonitorSpec == Monitor!Spec

=============================================================================
