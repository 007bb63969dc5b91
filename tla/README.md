# A TLA+ development of edfomai

edfomai schedules Xenomai tasks by earliest deadline first on top of Xenomai's
fixed priorities. It is a kernel module (an RTDM device) that keeps a table of
tasks and deadlines, maps the time each task has left to a priority between
`MINPRIO` (0) and `MAXPRIO` (50), and reports missed deadlines in a queue. A
user library sends it messages through the device. Around it the repository
has test programs, exercises on periodic tasks and semaphores, and the
containers of `datastructures/`, one of which holds the table. This directory
specifies their behaviour, checks the specifications with TLC and proves the
main results with TLAPS. Line numbers refer to the files of the repository.

Contents: [parts](#the-parts-of-the-system), [modules](#the-modules),
[runs](#the-runs), [bounds](#bounds), [fairness](#fairness),
[proofs](#the-proofs), [what the code does not keep](#statements-the-code-does-not-keep),
[not modelled](#what-is-not-modelled), [what is left](#what-is-left).

## The parts of the system

| Part | State | Operations | Where |
|------|-------|------------|-------|
| Priority arithmetic | none | `div64_64`, `_calculate_prio` | `edfomai-drv-data.c:20-62` |
| Deadline table | `dtask_map` (a uthash of `RT_DEADLINE_TASK`), the tasks' current priorities (Xenomai's) | `rt_dtask_create`, `setdeadline`, `resetdeadline`, `goingwaitp`, `stopwatchdog`, `delete`, `recalculateprio`, `updateinfo`, `init`, `dispose` | `edfomai-drv-data.c:69-345` |
| Miss queue | `edf_dmissed_q`, 1024 bytes, first reader takes a message | `deadline_missed`; readers outside | `edfomai-drv.c:105-117` |
| Write handler | the message and task handle of each call | `edf_rtdm_write_nrt`, `_get_handle`, `_mtx_acquire`, `_mtx_release` | `edfomai-drv.c:64-100, 181-349` |
| Recalculation service | a kernel task of the highest priority, `edf_event` | `_edf_service` | `edfomai-drv.c:121-138` |
| Hooks | none of their own | `edf_startswitch_hook`, `edf_delete_hook` | `edfomai-drv.c:379-404` |
| Load and unload | everything above | `edf_rtdm_init`, `edf_rtdm_exit` | `edfomai-drv.c:409-479` |
| User library | `device`, one descriptor per process | `edf_init`, `edf_dispose`, `edf_task_start`, `edf_task_wait_period` | `edfomai-app.c` |
| Test programs | the tasks, their periods | `main`, the task bodies | `periodic_test.c`, `sporadic_test.c` |
| Exercises | semaphores, shared variables, `stopped` | `main`, the task bodies, `catch_signal` | `exercise-edfomai/`, `exercise-xenomai/` |
| Containers | hash handles and buckets; next and prev pointers; slots; a buffer | the macros of `uthash.h`, `utlist.h`, `utarray.h`, `utstring.h` | `datastructures/` |

How they interact:

- A task of an application calls the library. The library writes an
  `EDFMessage` (a command, a task name, a deadline) to the device, and the
  call runs `edf_rtdm_write_nrt` in the caller's context. The handler looks
  the name up in Xenomai's registry, takes the spin lock `edf_data_lock`,
  runs one `rt_dtask_*` operation and releases the lock.
- `create`, `setdeadline` and `resetdeadline` end with a recalculation, in
  two passes over the table. The first one computes the time every eligible
  task has left (`deadline - now`, 0 when late) and its minimum and maximum.
  The second one sets the priorities and reports the tasks found late. A task
  is eligible when it has a deadline and does not wait its period.
- The start of any Xenomai task and its end run a hook of the driver. Both
  hooks signal `edf_event`, on which the service waits to recalculate with
  the lock held. The hook of an ending task first removes its entry, *without
  the lock*.
- Missed deadlines go to `edf_dmissed_q`. Nobody checks whether the write
  succeeded. The watchdogs that would notice a miss in time are never created
  nor started (the calls are commented out), so a miss is noticed by the next
  recalculation.
- Loading registers the device first and the hooks last; unloading takes them
  back in another order, with processes, tasks and the service still at work.
- The rover and the PLC exercises pass their data from stage to stage through
  shared variables; counting semaphores carry the turns.

What is hard here, and what makes each part right:

- *Arithmetic.* `div64_64` divides 64-bit words by an approximation (shift
  both operands until the divisor fits 32 bits). The result must stay in the
  priority range, keep the order of the remaining times, be at most one level
  off and give the task nearest to its deadline `MAXPRIO`. The product before
  the division may overflow.
- *Table.* Remaining times are only refreshed by recalculations. Between
  them, time passes, tasks go to wait, end, miss deadlines and come back. The
  priorities must follow the deadlines at *every* moment, not only right after
  a recalculation, although late tasks keep an old priority and waiting tasks
  keep old remaining times. A miss must be reported once per armed deadline,
  and not early.
- *Driver.* Several writers, the service and the hooks meet at the table. The
  handle is looked up before the lock is taken. A signal may arrive while the
  service is busy. One of them does not take the lock.
- *Library.* One descriptor shared by all threads, reopened by each; a wait
  that is three steps with a sleep in the middle.
- *Load and unload.* Partial failures whose results are overwritten, the
  order in which things are taken back, memory that is forgotten, a lock
  whose owner is destroyed.
- *Exercises.* Which order of semaphores and locks keeps shared data intact,
  stages in order, and no round behind for ever.
- *Containers.* Intrusive pointers patched at the first, last and only
  element; buckets that double while elements move; deletion during a loop;
  elements owned and copied; a search table whose entries fall back by one.

`PROJECT.json` lists each hazard at its line, with the properties that cover
it.

## The modules

| Module | Models | Built on |
|--------|--------|----------|
| `EdfPriority` | `div64_64`, `_calculate_prio` as operators | |
| `EdfData` | the table, the priorities, the miss queue; each `rt_dtask_*` operation is one action | `EdfPriority` |
| `DeadlineMonitor` | abstract: the phases of a deadline and the reports of misses | |
| `EdfDriver` | writers, spin lock, service, hooks, event, handles | `EdfData` |
| `EdfClient` | the user library, its shared descriptor, and the threads of the test programs | `EdfData` |
| `EdfLifecycle` | load and unload, call by call, with processes, tasks, the service and the memory of the entries | |
| `Exercises` | fourteen programs of semaphores, shared variables and periodic tasks | |
| `Pipeline` | abstract: stages that finish their rounds in order | |
| `UtHash` | `uthash.h` | `MergeSort`, `Pointers` |
| `OrderedSet` | abstract: a set that remembers its order | `MergeSort` |
| `UtList` | `utlist.h` | `MergeSort`, `Pointers` |
| `UtArray` | `utarray.h` | `Pointers` |
| `UtString`, `UtStringFind` | the buffer of `utstring.h`, and its searches | |
| `MergeSort`, `Pointers` | what the containers share: the sort, and the walk along pointers | |
| `EdfPriorityProofs`, `MCPriorityProofs`, `EdfDataProofs`, `EdfDriverProofs`, `EdfClientProofs`, `EdfLifecycleProofs`, `ExercisesProofs`, `DatastructuresProofs` | theorems | the modules of their names |
| `MCPriority`, `MCData`, `MCDriver`, `MCClient`, `MCLifecycle`, `MCExercises`, `MCDatastructures` | instances for TLC | the modules of their names |

Definitions whose comment says *Mutated form of* are no part of the
specification: they are the plausible mistakes each property is shown to
catch, next to the definition they replace.

### EdfPriority

The code's 64-bit and 32-bit words are the integers below `Word` and `Half`
(2^64 and 2^32), which are constants: TLC evaluates the same definitions on 4, 6
and 8 bits that are proved for every size. `fls` becomes the choice of the
power of two just above the high word (`PowersOfTwo` lists `1 << shift`).
Truncation to 32 bits and the wrap of the product are kept.

### EdfData

`dtask_map` is a function from the names in the table to the fields of
`RT_DEADLINE_TASK` that control depends on. `DEADLINENOTSET` is -1 as an
`unsigned long long`, that is `Word - 1`. `prio` stands for the priority
Xenomai keeps for a task, which the driver sets with `rt_task_set_priority`.
`Recalculate(m)` is the two passes of `rt_dtask_recalculateprio` over a table
`m`; the operations that end with a recalculation pass it the table as they
leave it. The operations run with the spin lock held, so each is one step.

What is abstracted: names are model values; the order in which one
recalculation reports several late tasks is any order (it is the insertion
order of the hash table in the code); the clock moves by units (`Tick`)
between operations and not inside one; an operation on a name that is not in
the table returns an error and changes nothing, so it is no action of this
module (`EdfDriver` has it as a disjunct of `Serve`).

`DeadlineMonitor` is what a reader of the miss queue may count on. Without
clocks, priorities or a table: a task's deadline is *unknown*, *idle*, *armed*
or *missed*; requests change the phase of one task; armed deadlines are found
missed, each with exactly one report in the same step, unless the queue is
full. `EdfData` implements it under `phase` and `edf_dmissed_q`.

### EdfDriver

A write is four steps: `Bind` (`_get_handle`), `Acquire`, `Operate` (the
switch over the commands), `Release`. The service is a cycle of five steps
(wait, acquire, recalculate, release, clear), with `edf_event` pending or not:
`rtdm_event_wait` takes a pending event, and `rtdm_event_clear` drops one that
came in the meantime. `TaskCreate`, `edf_startswitch_hook` and
`edf_delete_hook` are what Xenomai does to a task and the hooks it runs.

Processors are scheduled by fixed priorities: a writer takes a step only while
nobody of `Above[w]`, the threads of its processor that have more priority, has
anything to do (`Runs`). The lock leaves preemption on (`rtdm_lock_get`,
`edfomai-drv.c:67`), so the service, or a writer of more priority, takes the
processor from the holder of the lock and spins for it: such a state is
`Frozen`, and it is one that a behaviour of the model reaches and never leaves
(`FrozenForEver`).

A participant *accesses* the table from the moment it has the lock until the
effect of its operation. Two things have no defined behaviour in C, and after
them the model says nothing: `undefined` becomes true and only a stutter
(`Stopped`) remains.

- `edf_delete_hook` runs while someone accesses the table: it unlinks and
  frees an entry that another loop may stand on (`edfomai-drv.c:401`).
- An operation runs on the handle of a task that ended after `Bind`
  (`edfomai-drv.c:191`). `rt_task_inquire` fails and the code uses whatever
  name the memory of `task_info` holds: `Operate` picks any task.

So `OrderWhileDefined` reads: nothing *but* these two breaks the order. It is
checked, and proved, for every interleaving up to the first of them.

### EdfClient

The threads of `periodic_test.c` or `sporadic_test.c` (`periodic` says which)
and the library calls they make. `device` is the library's global descriptor,
`got` what `rt_dev_open` has given a thread and is not yet stored, and `open`
the descriptors the process has open; `rt_dev_open` gives the lowest free one.
Each access of a thread to `device` is a step. `edf_init` is a reset, the call
of `rt_dev_open`, the store of its result, the test, which reads `device` again
and may see what another thread has stored, and the second reset on failure
(`edf_init`, `Open`, `Store`, `TestDevice`, `Reject`). `edf_dispose` is the
test, `rt_dev_close` of whatever `device` is by then, and the reset after an
error (`edf_dispose`, `Close`, `ForgetDevice`). `edf_task_start` is three steps
(check, write, start), `edf_task_wait_period` two requests with the sleep
between them. A request reaches the table when `device` is open at that moment
(`Send`), and the library ignores whether it did; it is one step on the table,
as `EdfDriver` shows of undisturbed operations.

How long a task works and sleeps is arbitrary, so it may miss its deadline or
not, in any period. The main thread starts the tasks one after the other, in
any order. The tasks are created with mode 0 (`periodic_test.c:75-77`,
`sporadic_test.c:68-70`) and not with `T_JOINABLE`, so `rt_task_join` returns
at once: main disposes while the tasks work or sleep, and returns. That is the
end of the process. Its tasks are deleted wherever they stand, with the delete
hook of the driver (`Kill`), and the kernel closes what is open (`CloseAll`).

### EdfLifecycle

One action per call of `edf_rtdm_init` (`LoadStep`) and `edf_rtdm_exit`
(`RemoveStartHook`, `UnloadStep`); `module` says how far it has come. `parts`
is what is registered or created. A call of the load may fail: the code looks
at the result of `rtdm_dev_register` and at that of the last hook only
(`MayAdd` is a call whose failure changes nothing else). When the delete hook
fails, the module is rejected and what it has registered stays: these
`orphans` point into code that is gone, and entering one, or signalling an
event that was destroyed, is undefined. The start hook is added for
`T_HOOK_START` and removed for two kinds at once; that this removes nothing
is taken as possible. `rtdm_dev_unregister` waits for the open descriptors.

Processes open the device, write (`Bind`, `Acquire`, `Operate`, `Release`, as
in `EdfDriver`) and close it at any time the device is there, also while the
load goes on or the unload has begun. Deadlines and priorities are left out;
the table is the set of its tasks and `heap` counts the blocks of memory:
entries, watchdogs (`init_dtask`), the `task_info` that
`rt_dtask_setdeadline` asks for and messages. `dropped` and `unseen` are
history variables: entries that `rt_dtask_init` or the end of the module
forgot, and tasks that ended during the load.

### Exercises and Pipeline

A program is a record: its tasks in the order `main` starts them, for each one
the operations of a turn of its loop (`P`, `V`, `Load`, `Store` and so on, in
the order of the source), the semaphores with their initial counts, and
whether `main` pauses and catches the signal. One set of actions runs them
all: `Fill`, `Start`, `Advance`, `Signal`, `Exit` for `main`, and `TaskStep` for the
tasks, which interleave at every operation. A read and a write of a shared
variable are two operations with a local register between them, which is
what the compiler makes of `shared = sharedResource + 1`. A task that waits
its period simply does not take its next turn; `punctual` programs are those
whose tasks begin no turn before the last stage is done with the one before.

The programs: `mars_rover`, `example1`; `bottler`, `sfcModel`, `sfcModel_A`,
`semaphore`, `multitask` with its versions a to d, `test`, `xeno_1shot` and
`xeno_3periodics`. The argument of a task is a pointer to a variable of
`main`: a place of its own in an array that `main` fills before it starts the
task (`Fill`, `Start`), or the loop variable. Once `main` has returned,
reading it gives anything.

The reader of `sfcModel` stores what the devices show in `sensors` (`Input`;
the reading of turn *n* is the number *n*), and the executor reads it in its
steps and, once the outputs are written, again in its conditions. `actuators`
is 0 in every scan of that program (`sfcModel.c:57`) and does not appear. The
step number and the two words of the executor of `bottler` are variables of
its own, which no other task sees: they are `Work`.

`Pipeline` is what the stages of the rover and of the PLC cycles promise: a
stage ends its k-th round only after the stage before it ended its own.

### The containers

`UtHash` is the table of `uthash.h`: application order (`next`, `prev`,
`tail`), buckets with their chains (`hh_next`, `hh_prev`), counts,
`expand_mult`, `ineff_expands` and `noexpand`. The operations are those of the
macros: add, find, delete, sort, select, clear, the expansion of the buckets,
and `HASH_ITER` with a body that may delete. An element is its own key, the
hash function any function of a given set. The integrity check of
`HASH_FSCK` is `Fsck`. `OrderedSet` is what it promises.

`UtList` has the three kinds of lists on one heap of pointers; a freed element
and an element that was never inserted hold `JUNK`. `UtArray` has the slots
and, in `alive`, the copies its functions have made and not freed. `UtString`
has the buffer with its terminator, and `UtStringFind` the searches with
their tables in both directions. `vsnprintf` tells `utstring_printf` the
length it needs, or returns -1, as older libraries do; the buffer then triples
until the text fits (`MoreSpace`).

`MergeSort` is the order of the bottom-up merge sort that all four sorting
macros share. The pointers are those the macros set: a sort links each element
behind the tail of the list it builds (`Relink`, `Relink_node`), and closes
the ends. In `UtList` every pass reads the list along the pointers of the one
before (`SortPasses`). In `UtHash` the passes before the last are sequences:
each pass sets all pointers anew, and nobody sees the table between two of
them, so only the relinking of the last one shows (`Linked`).
`MCDatastructures` runs one container at a time.

## The runs

| Run | Instance | Shows |
|-----|----------|-------|
| `priority` | 8-bit words, 4-bit halves, 6 levels; every call whose product fits the word | `PrioInRange`, `RangeIsUsed`, `OneLevelOfExact`, `PrioAntitone` |
| `data` | 3 tasks, 6-bit words, clock to 2, a queue of 1; every table operation | `EDFInv` (the inductive invariant of the proof), `EDFOrder`, `NoEarlyMiss`, `RecalculationPromotesDueFirst`, `StaticWithoutDeadline`, and `MonitorSpec`: the table implements `DeadlineMonitor` |
| `driver_requests` | 2 tasks, 2 writers, commands that make, arm and look up an entry | `DriverTypeOK`, `LockedAccess`, `OrderWhileDefined` |
| `driver_liveness` | 1 task, 3 writers, two of them on the processor of the service, a reader of the queue | `LockIsReleased`, `WakeupServed` |
| `client` | 2 tasks, 1 period, 2 descriptors for 3 threads | `ClientTypeOK`, `TableFollowsTasks`, `OneInitSuffices`, `ProgramEnds` |
| `lifecycle` | 1 task, 2 processes, up to 3 blocks left by requests, any number of loads | `LifecycleTypeOK`, `QuietWhenUnloaded`, `EndedTasksLeave`, `MemoryIsOwned`, `UnloadEnds` |
| `exercises` | the fourteen programs, 2 turns of each loop | `ExTypeOK`, `MutualExclusion`, `HolderRuns`, `FeedbackCounts`, `ProgramsCompute`, `StagesInOrder` (the stages implement `Pipeline`), `EveryRoundActs` |
| `datastructures` | 4 elements, 5 list nodes, arrays of 4, texts of 5 letters | `HashTypeOK`, `FindIsExact`, `ChainsBounded`, `IterationIsExact`, `KeepsOrder` (`UtHash` implements `OrderedSet`), `ListsKeep`, `ArrayKeeps`, `TextIsThere`, `FindsNearest` |

The four runs `driver_deleted`, `driver_signals`, `driver_overdue` and
`client_reset` end in a violation, as they should; see
[below](#statements-the-code-does-not-keep).

What the properties of the second half of the table, and of liveness, mean:

- *Liveness of the driver.* The lock comes free, and a signal that finds the
  service waiting is followed by a recalculation, although others keep taking
  the lock (`LockIsReleased`, `WakeupServed`): or else the behaviour is frozen,
  with the holder of the lock below a thread that spins for it on the same
  processor, or no longer defined. The properties say that nothing else keeps
  the lock or delays the service for ever.
- *Library.* A task whose requests arrive is known to the driver as what it is
  (`TableFollowsTasks`); where one thread opens and closes, every task is
  started and known, and nothing stays open (`OneInitSuffices`). However the
  threads disturb each other's descriptor, the program ends, and nothing of it
  stays in the table or open (`ProgramEnds`).
- *Life cycle.* Once the exit function has returned, nobody is inside the
  module's code and nothing points into it but possibly the start hook
  (`QuietWhenUnloaded`). A load that succeeded watches the ends of tasks: an
  entry of a task that is gone belongs to one that ended while the load went
  on (`EndedTasksLeave`). Memory is freed once on every way out of the table,
  and what is lost is accounted for: `dropped` entries and the watchdogs of
  refused creates (`MemoryIsOwned`). The unload ends, unless processes go on
  writing or the service was destroyed with the lock in its hands
  (`UnloadEnds`).
- *Exercises.* Locks admit one task (`MutualExclusion`); nobody who holds a
  lock waits for another semaphore (`HolderRuns`), which is why `process` of
  the rover waits for the sensor *before* it takes `exLock`. The count that
  runs around through `sharedResource` and `shared` is never made up, and
  exact while the tasks keep their periods (`FeedbackCounts`): a sensor that
  is a period ahead overwrites an increment. `ProgramsCompute` joins what the
  other programs are about: a scan of `sfcModel` never uses a reading made
  before it, and while the tasks keep their periods both its steps and its
  conditions use its own (`ScanSeesItsInputs`); the two tasks of `semaphore.c`
  alternate (`Turns`); a task with a place of its own in the array of `main`
  reads what `main` put there for it (`OwnParameters`). Rounds reach the
  actuators in order (`StagesInOrder`) and none is left behind
  (`EveryRoundActs`).
- *Containers.* The uthash passes its own integrity check after every
  operation and still finds exactly what it has, however often the buckets
  were doubled; chains stay within `expand_mult + 1` times the capacity
  unless expansion was given up; a `HASH_ITER` that deletes what it visits
  visits everything once. The lists hold their items and no pointer but
  theirs, after sorts too. The array calls `copy` and `dtor` for exactly the
  elements it gains and loses. Both searches of the string find the nearest
  occurrence.

## Bounds

- `Word`, `Half`. The arithmetic runs on 8-bit words with 6 levels (the code:
  64 bits, 51 levels). What matters is kept: divisors above and below `Half`,
  a shift that loses bits, fewer levels than remaining times
  (`PriorityAssumption`). All four properties are proved for every size.
- `MaxTime` and `Deadline`. The clock stops at `MaxTime`. In `data` a deadline
  of 1 passes before that, one of 3 does not, and 63 is `DEADLINENOTSET` on a
  6-bit word; two tasks can have equal and different deadlines, be armed again
  and be late. 15 is `DEADLINENOTSET` on a 4-bit word.
- `QueueLimit`. With 1 notification for 3 tasks the queue is full after one
  miss and the next is lost. In `driver_requests` and `client` it is 0: no
  property there looks at the queue, and its contents would multiply the
  states.
- `Above`. In `driver_liveness` two writers share the processor of the service,
  one below the other, and the third has a processor of its own: the holder of
  the lock is preempted by the service, by a writer, or not at all. In the
  other runs every thread has its own processor, where all interleavings
  happen; sharing one only takes some away.
- `Task`, `Writer`. Order is a relation of two tasks; the third one of `data`
  is the late or waiting task between them. Mutual exclusion is a relation of
  two writers, or of one and the service. In `lifecycle` a second task adds
  nothing that the order of one task's life does not show: entries of
  different tasks do not meet, and the proofs are for any number.
- `Descriptors`, `Periods`. In `client` there is one descriptor less than
  threads that open one, so `rt_dev_open` fails for the last. A task waits one
  period there, which takes it through each of its steps; the clock goes to 1,
  so that its deadline passes or not. In `client_reset` there are enough
  descriptors, so the violation is not due to that, and two periods and a clock
  to 2, so that the reset that is missed would have moved a deadline.
- `Command`. The commands the writers send. `driver_requests` has one command
  of each effect: one makes an entry, one arms it again, one only looks it
  up. `driver_liveness` has `CREATE_TASK`, without which there is no entry,
  `SET_DEADLINE` and `GOING_WAITP`. On the table itself, `data` has all
  operations together.
- `MaxBlocks`. `Bind` stops when the watchdogs and the `task_info` that are
  never freed come to 3: enough for an entry, a refused create and a new
  deadline. Without it the heap grows for ever, which is the code's leak and
  not the model's.
- `Rounds`, `ITER`, `Started`. Two turns of each loop: a task can be one
  round ahead of the next one, come back, and find what the other left; the
  count of a semaphore reaches two. `Started` is 3 instead of 5 tasks that
  all do the same.
- `Elements` and the rest of `MCDatastructures`. Four elements under hash
  functions that send all of them to one bucket, or to two, with a capacity of
  1 or 2 and one bucket at first: buckets double again and again, chains are
  split or stay whole, and expansion is given up after two attempts that did
  not help. Five nodes make lists with a first, a last and a middle element
  and a sort with three passes. The first allocations of array and string are
  small, so that growing is the normal case.

Tasks and writers are interchangeable, and the safety runs of `MCData` and
`MCDriver` use that symmetry. The runs that check liveness do not. Deadlock is
checked in every run but `priority`, where a remaining time is counted down to
its end, those of `MCClient`, where the program ends, and `lifecycle`, where a
lock whose owner was destroyed really stops writers and unload.

## Fairness

`DriverFairness` is weak fairness of each writer that has begun a request,
weak fairness of the service's own steps, and strong fairness of the service's
attempts to get the lock. An operation is a finite loop over the table that
waits for nothing, so it ends, and every path out of it releases the lock.
Weak fairness of a writer asks for no more than the scheduler gives, since its
steps are only enabled while it has its processor: the holder of the lock that
is preempted by a thread that spins for it does nothing, and the properties
say so (`[]Frozen`). Strong fairness is needed because the spin lock is no
queue: writers of other processors could in principle always be faster. They
make a system call between two requests, and the service, which nothing
preempts, tries without a pause. The writers of its own processor are no
rivals: they do not run while it spins. Nothing is assumed of `Bind` (nobody
has to make requests), of the start and end of tasks, of the clock and of the
reader of the queue.

`FairClientSpec` is weak fairness of the main thread, of each task and of the
end of the process: the bodies are finite, a sleeping task is woken by its
timer, and no library call waits for another thread, `rt_task_join` on these
tasks included.

`FairLifecycleSpec` is weak fairness of the calls of `edf_rtdm_exit` after the
first and of what a process does once it has the device open: finish its
request, close the descriptor, when it ends at the latest. Nobody has to load
or unload the module, or to open the device.

`ExFair` is strong fairness of each task. Weak fairness would not do: a task
that waits for `exLock` finds it free and taken in turns. Xenomai queues the
waiters of most of these semaphores by priority (`S_PRIO`), so a waiter of low
priority is passed over as long as others come; that they do not come for
ever is that the processor is not overloaded, which periodic tasks that sleep
most of their period are taken to ensure. The waiters of `semaphore.c:67-68`
and `xeno-1shot.c:8-9` queue in order of arrival (`S_FIFO`), where nobody is
passed over.

The containers and the arithmetic have no liveness properties, and no
fairness.

## The proofs

All proofs are for every value of the constants. Assumed are, by module:
`PriorityAssumption` (words are squares of half words, the range of
priorities is at most half a half word: 50 against 2^32; a power of two above
each high word exists), `DataAssumption` (finitely many tasks; the clock stays
within the word), `DriverAssumption`, `PlacementAssumption` (only
for `FrozenForEver`), `ClientAssumption`, `LifecycleAssumption`,
`ExercisesAssumption`, `StringAssumption` and
`ArrayAssumption` (owners of the lock, threads and places are distinct, bounds
are numbers).

*Arithmetic.* `EdfPriorityProofs`: `PrioRange` (a priority in `MINPRIO ..
MAXPRIO`, also when the product overflows: the shifted divisor keeps its top
bit, so the quotient of the truncated operands is at most the real one),
`PrioTop` (the smallest remaining time gets `MAXPRIO`), `PrioOrder` (less
remaining time never means a lower priority, as long as the product does not
overflow). `MCPriorityProofs` proves the four properties of the run
`priority`. Its core is `DivisionNear`: the quotient of the shifted operands
differs from the real one by at most one, because the shift keeps `Half / 2`
or more of the divisor and the quotient, a number of levels, is at most
`Half / 2`.

*Table.* `EdfDataProofs`: `TypeCorrect`; `EDFInvariant`: `Spec => []EDFInv`
under `SafeDeadlines` (every deadline that is set ends before the last value
of the word, and its product with the number of levels fits the word: about
4 * 10^8 seconds for 50 levels and nanoseconds); from it
`EarliestDeadlineFirst`, `MissesAreLate`, `DueFirstIsPromoted`;
`IdleTasksAreStatic` without assumptions.

The argument for `EDFOrder`. It is not inductive. A recalculation ranks only
the tasks that are not late; a late task keeps whatever priority it had, so
another one might overtake it. Two more facts close the gap. `LateOnTop`: a
late task was at `MAXPRIO` when it was marked, since a remaining time of 0 is
the smallest, and stays there. `Anchored`: a deadline is never farther from
now than its relative deadline, and a task is only marked late after its
deadline. With both, a recalculation establishes the order from any table
(`RecalculateSafe`): ranked tasks are in order by `PrioOrder`, late ones are
on top. Operations without a recalculation only remove tasks from the set the
order speaks of (`OtherStep`), and the passing of time does not change the
order of absolute deadlines. This last point is why the driver may recalculate
as rarely as it does.

*Refinement.* `EdfDataProofs`, last part: `TableImplementsMonitor`, `Spec =>
MonitorSpec`. The phases are read off the table (`PhaseIn`); each operation
is a request of the monitor, a find, or both at once, and every recalculation
is a find (`RecalculationFinds`): the armed tasks it marks are those it
reports, and those found late before are left out.

*Driver.* `EdfDriverProofs`. `LockInvariant` is inductive by itself, with
`Control` (where everyone is) and `Ownership` (who is in a section owns the
lock); `DriverTypeCorrect` and `LockSeparates` follow. `OrderUntilUndefined`
adds `Fresh` (a handle that did not outlive its task is that of a task) and
`Kept` (`EDFInv`, and no entry of a task that is gone), the latter only while
the behaviour is defined. Every step of the driver is a step of `EdfData`, or
leaves the table alone, or gives a new task its base priority
(`DriverDataStep`), so `EDFInvariant` does the rest. None of them depends on
who shares a processor with whom. `FrozenForEver`, `Frozen => Frozen'` in every
step: while a thread above the holder spins, neither the holder nor the one
that spins takes a step, nor anyone between them, by the order of
`PlacementAssumption`. It is the reason why `LockIsReleased` cannot promise
more.

*Library.* `EdfClientProofs`. `ClientInv` adds to the types `Follows` (a task
enters the table when it is registered; the entry of a task whose last request
arrived is `RUNNING` but in its sleep) and `Alone` (in a sporadic program the main thread
is the only one in `edf_init` and `edf_dispose`; at each of its places there,
`device`, `got` and `open` are what that place says, and no other thread has
been given a descriptor). `Alone` speaks of the descriptor at each access, since
between two of them nothing protects it but that nobody else is there
(`AloneLibrary`, `AloneStep`). That a descriptor stays in range whichever
threads open and close is `DescriptorRange` and `LibraryStep`.
`TableAlwaysFollows` and `OneInitIsEnough` follow.

*Life cycle.* `EdfLifecycleProofs`. `LifecycleInv` is `Control`, `Memory` (an
account of every block), `Stages` (what is taken back at each call of the
exit function, and that an unloaded module has nobody inside) and `Watched`
(whose entries the table has while the module is loading or live). From it
`BlocksAreOwned`, `UnloadedIsQuiet` and `EndedTasksAlwaysLeave`.

*Exercises.* `ExercisesProofs`: `LocksExclude` for every program whose
semaphores are locks (1 at first, taken once before they are given in a turn)
or signals (no task takes and gives the same one). The invariant `LockInv`:
a lock is free with nobody inside, or taken with exactly one task inside.
`ExercisesTypeCorrect` is their type correctness. The other theorems are about
any program of a shape that the fourteen have. `ExercisesAreDisciplined`, which
TLC evaluates in `MCExercises`, says that they have it; that the rover is
unnested and chained and `sfcModel` chained, on which their properties rest, is
proved of their code (`RoverHasItsShape`, `SfcHasItsShape`).

- `HolderRuns` (`HoldersRun`): locks are not nested and nothing else is taken
  inside (`Unnested`), so nobody inside stands before a take.
- `StagesInOrder` (`StagesImplementPipeline`), for tasks that hand rounds on
  through semaphores (`Chained`): what a signal has been given and not taken
  is the difference of the rounds of its two stages (`ChainInv`). A stage that
  may pass its take is therefore behind the one before it.
- `FeedbackCounts` (`RoundsAreCounted`), for the rover. `CountState`: neither
  the shared variables nor any register hold more than the processor has
  counted. `KeptState`, while the tasks keep their periods: one round at a
  time goes round, and each variable and register holds what the places of the
  three tasks say.
- `ProgramsCompute` (`ProgramsComputeAlways`), in three parts. The scans of
  `sfcModel` (`ScansSeeTheirInputs`): the executor takes `readDone` as often as
  the reader gave it at most, so `sensors` is not older than its scan
  (`TakenWereGiven`, `ScanFacts`), and with tasks that keep their periods no
  newer, since the reader waits for the end of the scan. The tasks of
  `semaphore.c` update `global` in turns, since of their two semaphores one is
  up at most (`UpdatesAlternate`). A task that is handed a pointer of its own
  reads its own parameter (`ParametersAreOwn`): its place is filled before it
  is started and never written again (`FilledSteps`), nothing else is kept in
  its register, and `main` is still there when it reads (`Private`,
  `NeverReturns`).

*Containers.* `DatastructuresProofs`. `TextAlwaysThere`: the invariant
`TextInv` is `TextIsThere` with the types of the buffer; `PutHolds` shows that
nothing is cut off when the text fits, and `ReservesBytes` that it then fits.
The tries of `utstring_printf` are a recursive function (`TriesIs`); each adds a
byte of space at least (`TriesGrow`), so that some try fits whichever way
`vsnprintf` reports (`PrintfHolds`). `ArrayAlwaysKeeps`: every
operation is an insertion or a removal at some place, or a renewal
(`InsertHolds`, `EraseHolds`), and the occurrences of a value are added and
subtracted with the elements (`CountReplaced`), so that the copies alive are
those of the elements (`ArrayInv`). The loop that doubles the slots is a
recursive function, which exists by `NatRecursion` and ends by `NatMin`. The
induction theorems of the library take an operator as a parameter, which the
provers cannot instantiate; those lemmas use a least counterexample instead.

`SortIsStable` is about the sort that the four macros share. A pass merges
neighbouring runs (`PassMergesRuns`), each of which has the elements of its
part of the list in stable order (`AreRuns`), until one run is left
(`PassesEnd`); a merge takes the smaller head, and the first of two equal ones
(`MergeAscends`).

`HashIsSound`, `FindFindsAll`, `IterationVisitsAll` and `HashIsOrderedSet` rest
on the invariant `HashInv`. There is a list `l` without repetition that the
next and prev pointers link both ways (`Ordered`), of which `tail` is the last
element (`TailIs`); there are chains, one for each bucket, linked both ways,
counted right, and with exactly the elements of `l` whose hash value leads
there (`Holds`); and a `HASH_ITER` that is under way is at some place of `l`,
with the saved next element at the place behind it (`LoopAt`). The properties
alone are not inductive: nothing in them says that the handles outside the
table hold no pointer, that an element is in the chain of its own bucket, or
what a loop has still before it. That `Path` finds the list that the pointers
link is `PathIs`; links under a push, an append and a removal are `PushFront`,
`PushBack` and `Unlink`, each used for both lists. An expansion visits every
element once (`InBucketOrderIs`) and moves each to the chain its hash value
says (`MovedIs`). The deletion in a loop is `LoopDrops`: the body may delete
any element but the next, and the loop finds it where the deletion left it.
`HashIsOrderedSet` follows with the steps of the order (`Goes`), a sort by
`SortIsStable` and its pointers by the relinking: after *k* elements the first
*k* are linked both ways and the tail is the last of them (`RelinkedUpTo`,
`RelinkStep`), which closing the tail completes (`LinkedIs`). The table of
`HASH_SELECT` keeps the invariant without its
tail, which the macro leaves at the first element.

`ChainsStayBounded` rests on `HashInv` and `RoomInv`: the elements in the
chains of a table are as many as its `num_items` says (`Counted`), and until
the table gives up expanding there is room (`Roomy`): a chain has at most
`thresh * (expand_mult + 1)` elements, fewer where `expand_mult` is positive,
and the sum of `expand_mult` over the buckets is at most their number. The
table then holds at most `2 * num_buckets * thresh` elements
(`RoomyAddsUp`), so that after doubling the ideal chain is no longer than
`thresh` and there is room again (`FilledIsRoomy`). `HASH_SELECT` counts an
element only after it is in its bucket (`uthash.h:840`), so the expansion it
causes spreads one element more than it counts (`Late`). This is harmless only
because the threshold is at most twice the initial number of buckets, 10 and 32
(`uthash.h:113`, `:115`), which the theorem assumes and the runs' values
satisfy. It is needed: with one bucket at first and a threshold of 3, the
selection from a table of 14 elements breaks the bound.

Only model-checked: liveness (`LockIsReleased`, `WakeupServed`, `ProgramEnds`,
`UnloadEnds`, `EveryRoundActs`), which is out of the reach of the prover, as
is `ENABLED`; and `ListsKeep` and `FindsNearest`, since `UtList` and
`UtStringFind` delete in loops and search with recursive operators.

## Statements the code does not keep

| Run | Statement | What happens |
|-----|-----------|--------------|
| `driver_deleted` | `DeletedExcluded` (`edfomai-drv-data.h:105`) | a write that bound its handle before the task ended leaves an entry no hook removes |
| `driver_signals` | `EverySignalServed` (`README.md:31`) | `rtdm_event_clear` drops a signal that came after the recalculation |
| `driver_overdue` | `MissIsNoticed` (`README.md:37`) | no watchdog runs: a deadline that passes in silence stays unnoticed |
| `client_reset` | `ResetOnReturn` (`edfomai-app.h:24`) | `edf_init` or `edf_dispose` of another thread makes the request fail: the task returns from its wait with the old deadline |

`WakeupServed` is what remains true of signals: one that finds the service
waiting is followed by a recalculation.

The definitions show more, without a run of their own.

In the table and the arithmetic:

- The product in `_calculate_prio` overflows when remaining times differ by
  more than 2^64/50 and then inverts priorities, which is why `PrioOrder` has
  a bound. Close deadlines share a level, so `EDFOrder` cannot be strict.
- `now + deadline` wraps for deadlines near 2^64, and such a task is late at
  once (`edfomai-drv-data.c:267`): hence `SafeDeadlines`.
- A miss found while the queue is full is marked and never notified
  (`edfomai-drv.c:116`).
- `rt_dtask_goingwaitp` stores `GOING_WAITP`, a command code, in the state of
  a task (`edfomai-drv-data.c:139`), where `edfomai-drv-data.h:41-44` declares
  `RUNNING` and `WAITING_PERIOD`.
- `rt_dtask_setdeadline` frees none of the `task_info` it asks for
  (`edfomai-drv-data.c:224`), and a create for a name that is there keeps the
  watchdog of the entry it throws away (`edfomai-drv-data.c:293`).

In the driver:

- A thread that spins for `edf_data_lock` above its holder on one processor
  spins for ever (`edfomai-drv.c:67`; `Frozen`, `FrozenForEver`). The service has
  the highest priority and no processor of its own, and the test programs place
  their main thread on a processor (`T_CPU(0)`).
- `edf_delete_hook` changes the table without `edf_data_lock`
  (`edfomai-drv.c:401`), which the comment at line 20 says coordinates the
  access to it.
- The result of `rtdm_copy_from_user` is compared with `EFAULT`, which is
  positive (`edfomai-drv.c:187`).
- The status of each operation is overwritten by that of `_mtx_release`
  (`edfomai-drv.c:223`): a request that failed, and an unknown command, are
  answered with `nbyte`.
- The device is registered before the table, the lock and the hooks are there
  (`edfomai-drv.c:412`). A failed load leaves the device, the queue, the
  event, the service and the start hook behind, and a failed start hook is
  not reported at all (`edfomai-drv.c:428-435`).
- The start hook is removed for other kinds than it was added for
  (`edfomai-drv.c:470`). Writes between `rt_dtask_dispose` and the
  unregistration of the device are lost, and a service destroyed in its
  section leaves the lock held (`edfomai-drv.c:472-477`).

In the library:

- The test programs wait for nobody: their tasks are not joinable, so main
  disposes and ends the process while they run (`periodic_test.c:75-87`,
  `sporadic_test.c:68-80`).
- Descriptors leak: every `edf_init` opens one, and of two calls of
  `edf_dispose` with no `edf_init` in between the second one finds none to
  close.
- `edf_task_wait_period` overwrites the result of its wait and turns the byte
  count of a successful write into -1 (`edfomai-app.c:232-249`).

In the containers:

- `HASH_SELECT` leaves `tail` of the destination at its first element
  (`uthash.h:833-842`), so nothing can be added to a selection; and it adds an
  element to its bucket before it counts it, so that an expansion at the first
  element would divide by zero (`thresh > 1` in `Select`).
- `DL_REPLACE_ELEM` assigns `head` before it reads `(el)->next`
  (`utlist.h:593-595`), so a call that writes `head` itself for `el` reads the
  new element and not the old one. `UtList` has `el` as a pointer of its own,
  which no assignment to `head` changes.
- `utarray_resize` with `icd.init` calls it with `NULL` for every new element,
  since `utarray_eltptr` looks at the old length (`utarray.h:163`): arrays
  with an `init` are left out.

## What is not modelled

- In the driver: the replies of the write handler, the
  characters of names and the terminator that `deadline_missed` writes behind
  a name of full length (`edfomai-drv.c:115`), `rt_dtask_updateinfo` (nothing
  calls it), the read handler (always -1), formatting and log output.
- Xenomai itself. The registry, the clock, priorities, the event, the queue
  and semaphores appear as the repository uses them.
- What the library returns from a wait: no caller looks.
- `test_b.c`, which reads its task handle before it is set. `sfcModel.c` does
  not compile as it stands, since it starts functions by names they do not
  have: it is modelled with the names resolved. A failed `edf_task_start` or
  `rt_task_start` in the exercises, which ignore it.
- In the containers: the hash functions and bloom filters, failing
  allocations, the variants for compilers without `typeof`, `utarray_sort`
  and `utarray_find` (qsort and bsearch of the C library), the stepping
  macros, and the searches of an empty string.

## What is left

- The cursor of the two passes of a recalculation against an unlocked
  deletion, as a refinement of the one-step `Recalculate` when nobody deletes.
- `EdfData` over `UtHash` instead of a function, which would show that the
  order of the reports is that of the insertions.
- Proofs about `UtList`, whose loops would have to be written as recursive
  functions like those of `UtHash`, with the lemmas about links that are there.
- The searches of `UtStringFind`.
