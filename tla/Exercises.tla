------------------------------ MODULE Exercises ------------------------------
(***************************************************************************)
(* The exercises on periodic tasks and semaphores (exercise-edfomai/,      *)
(* exercise-xenomai/).  A program is a record: its tasks in the order main *)
(* starts them, what each does in one turn of its loop, the semaphores     *)
(* with their initial counts.  How long anything takes is left open, so a  *)
(* task waits its period by not taking its next turn.                      *)
(***************************************************************************)
EXTENDS Integers, Sequences, FiniteSets

CONSTANTS
  Programs,   \* the programs to run
  ITER,       \* turns of the loops of semaphore.c
  Rounds,     \* bound on the turns of a loop that has no end
  Started     \* the tasks that the first versions of multitask.c start, 5 there

ASSUME ExercisesAssumption ==
  /\ ITER \in Nat \ {0}
  /\ Rounds \in Nat \ {0}
  /\ Started \in Nat \ {0}

-----------------------------------------------------------------------------
(* The operations of a task.  It has one register, its local variable.     *)

P(s) == <<"p", s>>               \* rt_sem_p, which waits for a positive count
V(s) == <<"v", s>>               \* rt_sem_v
Load(x) == <<"load", x>>         \* register = x
Store(x) == <<"store", x>>       \* x = register
StoreNext(x) == <<"next", x>>    \* x = register + 1
StorePrev(x) == <<"prev", x>>    \* x = register - 1
Input(x) == <<"input", x>>       \* x = what the devices show in this turn
Argument == <<"argument">>       \* register = *arg
Work == <<"work">>               \* computes, prints or sleeps

Shared == {"shared", "sharedResource", "sensors", "global"}

\* The programs differ from this one, which starts nothing and returns.
Nothing ==
  [tasks    |-> <<>>,     \* names, in the order of rt_task_start
   setup    |-> <<>>,     \* what a task does before its loop
   body     |-> <<>>,     \* one turn of the loop of each task
   sem      |-> <<>>,     \* the semaphores
   turns    |-> -1,       \* turns of the loop; -1 when it has no end
   row      |-> TRUE,     \* each task gets a pointer of its own
   pauses   |-> FALSE,    \* main waits for a signal
   handler  |-> FALSE,    \* catch_signal tells the tasks to stop
   stages   |-> <<>>]     \* the task and operation that end each stage

-----------------------------------------------------------------------------
(* mars_rover.c                                                            *)

sense == <<P("exLock"), Load("shared"), Store("sharedResource"), V("exLock"),
           V("sensingDone")>>

\* Mutated form of process: it waits for the sensor with the lock held.
process_holding == <<P("exLock"), P("sensingDone"), Load("sharedResource"),
                     StoreNext("sharedResource"), V("exLock"), V("processingDone")>>

\* Mutated form of process: its increment is not protected.
process_unlocked == <<P("sensingDone"), Load("sharedResource"),
                      StoreNext("sharedResource"), P("exLock"), V("exLock"),
                      V("processingDone")>>

process == <<P("sensingDone"), P("exLock"), Load("sharedResource"),
             StoreNext("sharedResource"), V("exLock"), V("processingDone")>>

\* Mutated form of act: it does not wait for the processor.
act_at_once == <<P("exLock"), Load("sharedResource"), V("exLock"), V("processingDone"),
                 Store("shared")>>

act == <<P("processingDone"), P("exLock"), Load("sharedResource"), V("exLock"),
         Store("shared")>>

comunicate == <<P("exLock"), Load("sharedResource"), V("exLock")>>

mars_rover ==
  [Nothing EXCEPT
     !.tasks = <<"sensor", "processor", "actuator", "comunicator">>,
     !.body = <<sense, process, act, comunicate>>,
     !.sem = [sensingDone |-> 0, processingDone |-> 0, exLock |-> 1],
     !.pauses = TRUE, !.handler = TRUE,
     !.stages = <<[task |-> 1, op |-> 5], [task |-> 2, op |-> 6], [task |-> 3, op |-> 5]>>]

-----------------------------------------------------------------------------
(* bottler.c: a PLC cycle of reading, executing one step and writing.      *)

reader == <<Work, V("readDone")>>

\* Each turn runs one of the six steps; step, sensors and actuators are its own.
executor == <<P("readDone"), Work, V("executionDone")>>

writer == <<P("executionDone"), Work>>

bottler ==
  [Nothing EXCEPT
     !.tasks = <<"readerTask", "executorTask", "writerTask">>,
     !.body = <<reader, executor, writer>>,
     !.sem = [readDone |-> 0, executionDone |-> 0],
     !.pauses = TRUE, !.handler = TRUE,
     !.stages = <<[task |-> 1, op |-> 2], [task |-> 2, op |-> 3], [task |-> 3, op |-> 2]>>]

-----------------------------------------------------------------------------
(* SFC/sfcModel.c: the same cycle with a shared reading of the inputs: the *)
(* steps of a scan use it, and its conditions once the outputs are written.*)

\* Mutated form of sfc_sense: it announces a reading it has not made.
sfc_sense_early == <<V("readDone"), Input("sensors")>>

sfc_sense == <<Input("sensors"), V("readDone")>>

\* "sensor" in the call of the conditions is read as sensors.
sfc_executor == <<P("readDone"), Load("sensors"), V("executionDone"), P("writeDone"),
                  Load("sensors")>>

\* actuators is 0 in every scan: no step is given a way to set it.
sfc_act == <<P("executionDone"), Work, V("writeDone")>>

sfcModel ==
  [Nothing EXCEPT
     !.tasks = <<"readerTask", "executorTask", "writerTask">>,
     !.body = <<sfc_sense, sfc_executor, sfc_act>>,
     !.sem = [readDone |-> 0, executionDone |-> 0, writeDone |-> 0],
     !.pauses = TRUE, !.handler = TRUE,
     !.stages = <<[task |-> 1, op |-> 2], [task |-> 2, op |-> 3],
                  [task |-> 3, op |-> 3], [task |-> 2, op |-> 5]>>]

\* The other file of the model runs the same three tasks.
sfcModel_A == sfcModel

-----------------------------------------------------------------------------
(* semaphore.c, and the same program on slides/xeno-1shot.c.               *)

taskOne == <<P("semGlobal1"), Load("global"), StoreNext("global"), V("semGlobal2")>>

taskTwo == <<P("semGlobal2"), Load("global"), StorePrev("global"), V("semGlobal1")>>

\* Mutated form of semaphore: both tasks may begin.
semaphore_both ==
  [Nothing EXCEPT
     !.tasks = <<"taskOne", "taskTwo">>,
     !.body = <<taskOne, taskTwo>>,
     !.sem = [semGlobal1 |-> 1, semGlobal2 |-> 1],
     !.turns = ITER]

semaphore ==
  [Nothing EXCEPT
     !.tasks = <<"taskOne", "taskTwo">>,
     !.body = <<taskOne, taskTwo>>,
     !.sem = [semGlobal1 |-> 1, semGlobal2 |-> 0],
     !.turns = ITER]

xeno_1shot == semaphore

-----------------------------------------------------------------------------
(* Tasks with parameters of their own: multitask.c and its versions.       *)

Repeat(n, script) == [k \in 1 .. n |-> script]

multitask ==
  [Nothing EXCEPT
     !.tasks = <<"Task-0", "Task-1", "Task-2">>,
     !.setup = <<Work, Argument>>,
     !.body = Repeat(3, <<P("s"), Work, V("s")>>),
     !.sem = [s |-> 1],
     !.pauses = TRUE]

\* No semaphore here.
multitask_d ==
  [multitask EXCEPT !.body = Repeat(3, <<Work>>), !.sem = <<>>]

xeno_3periodics == [multitask_d EXCEPT !.setup = <<Argument>>]

example1 == xeno_3periodics

\* Each task prints its name and ends; main returns.
multitask_a ==
  [Nothing EXCEPT
     !.tasks = Repeat(Started, "Task"),
     !.body = Repeat(Started, <<Work>>),
     !.turns = 1]

\* Every task gets a pointer to the loop variable of main.
multitask_b ==
  [multitask_a EXCEPT !.setup = <<Argument>>, !.row = FALSE]

\* The tasks sleep first, and main waits.
multitask_c ==
  [multitask_b EXCEPT !.setup = <<Work, Argument>>, !.pauses = TRUE]

\* One task and no parameter.
test ==
  [multitask_a EXCEPT !.tasks = <<"hello">>, !.body = <<<<Work>>>>]

-----------------------------------------------------------------------------
(* The run of a program.                                                   *)

VARIABLES
  program,     \* the program
  punctual,    \* no task starts a turn before the last stage is done with it
  main,        \* what main does
  i,           \* the tasks main has dealt with, its loop variable
  periods,     \* the array of main with a place for each task
  at,          \* the operation each task is about to do, or a place below
  round,       \* the turns each task has finished
  register,    \* the local variable of each task
  sem,         \* the counts of the semaphores
  mem,         \* the variables the tasks share
  stopped      \* set by catch_signal

exVars ==
  <<program, punctual, main, i, periods, at, round, register, sem, mem, stopped>>

Unborn == -1     \* not started
Top == 0         \* at the test of its loop
Ended == -2

Slots == 1 .. IF Started > 4 THEN Started ELSE 4
Tasks == 1 .. Len(program.tasks)

Script(t) == program.setup \o program.body[t]

\* What task t is about to do, if anything.
Next_op(t) == IF at[t] > 0 THEN Script(t)[at[t]] ELSE <<"none">>

\* How often task t has done operation n of its loop.
Passed(t, n) == round[t] + IF at[t] > Len(program.setup) + n THEN 1 ELSE 0

\* How often each stage of the program has ended.
done ==
  [k \in 1 .. Len(program.stages) |-> Passed(program.stages[k].task, program.stages[k].op)]

\* The rounds the last stage has ended.
finished == IF done = <<>> THEN 0 ELSE done[Len(done)]

Running == main # "exited"

-----------------------------------------------------------------------------
(* main.                                                                   *)

\* Each task gets a pointer to its own place in periods.
Passes == program.row /\ \E k \in DOMAIN program.setup : program.setup[k] = Argument

\* main fills the place of the next task.  Only that task reads it, so it
\* cannot tell when example1 fills them all beforehand.
Fill ==
  /\ main = "starting" /\ i < Len(program.tasks)
  /\ at[i + 1] = Unborn /\ periods[i + 1] = 0
  /\ Passes
  /\ periods' = [periods EXCEPT ![i + 1] = i + 1]
  /\ UNCHANGED <<program, punctual, main, i, at, round, register, sem, mem, stopped>>

\* Mutated form of Start: the task is started before its place is filled.
Start_unfilled ==
  /\ main = "starting" /\ i < Len(program.tasks)
  /\ at[i + 1] = Unborn
  /\ at' = [at EXCEPT ![i + 1] = IF program.setup = <<>> THEN Top ELSE 1]
  /\ UNCHANGED <<program, punctual, main, i, periods, round, register, sem, mem, stopped>>

\* rt_task_start or edf_task_start of the next task.
Start ==
  /\ main = "starting" /\ i < Len(program.tasks)
  /\ at[i + 1] = Unborn
  /\ Passes => periods[i + 1] # 0
  /\ at' = [at EXCEPT ![i + 1] = IF program.setup = <<>> THEN Top ELSE 1]
  /\ UNCHANGED <<program, punctual, main, i, periods, round, register, sem, mem, stopped>>

\* main goes on to the next task, and after the last one to its end.
Advance ==
  /\ main = "starting" /\ i < Len(program.tasks)
  /\ at[i + 1] # Unborn
  /\ i' = i + 1
  /\ main' = IF i + 1 < Len(program.tasks) THEN "starting"
             ELSE IF program.pauses THEN "pausing" ELSE "returning"
  /\ UNCHANGED <<program, punctual, periods, at, round, register, sem, mem, stopped>>

\* A signal: catch_signal, after which main cleans up, or the default action.
Signal ==
  /\ main = "pausing"
  /\ stopped' = program.handler
  /\ main' = IF program.handler THEN "returning" ELSE "exited"
  /\ UNCHANGED <<program, punctual, i, periods, at, round, register, sem, mem>>

\* The end of main is the end of the process and of its tasks.
Exit ==
  /\ main = "returning"
  /\ main' = "exited"
  /\ UNCHANGED <<program, punctual, i, periods, at, round, register, sem, mem, stopped>>

Exited == main = "exited" /\ UNCHANGED exVars

-----------------------------------------------------------------------------
(* The tasks.                                                              *)

\* The last stage has kept up with the turns of task t.
KeptUp(t) ==
  program.stages # <<>> => round[t] <= finished

\* The test of the loop: the task begins a turn, or ends.
Begin(t) ==
  /\ Running /\ at[t] = Top
  /\ IF stopped \/ round[t] = program.turns
     THEN at' = [at EXCEPT ![t] = Ended]
     ELSE /\ program.turns = -1 => round[t] < Rounds
          /\ punctual => KeptUp(t)
          /\ at' = [at EXCEPT ![t] = Len(program.setup) + 1]
  /\ UNCHANGED <<program, punctual, main, i, periods, round, register, sem, mem, stopped>>

\* Mutated form of Step: the loop does not start again.
Step_on(t) ==
  LET last == at[t] = Len(Script(t)) IN
  /\ at' = [at EXCEPT ![t] = @ + 1]
  /\ round' = [round EXCEPT ![t] = IF last THEN @ + 1 ELSE @]
  /\ UNCHANGED <<program, punctual, main, i, periods, stopped>>

\* The operation is done; the last one ends the setup or the turn.
Step(t) ==
  LET last == at[t] = Len(Script(t)) IN
  /\ at' = [at EXCEPT ![t] = IF last \/ @ = Len(program.setup) THEN Top ELSE @ + 1]
  /\ round' = [round EXCEPT ![t] = IF last THEN @ + 1 ELSE @]
  /\ UNCHANGED <<program, punctual, main, i, periods, stopped>>

\* Mutated form of Take: the semaphore lets everyone pass.
Take_always(t) ==
  /\ Running
  /\ \E s \in DOMAIN sem :
       /\ Next_op(t) = P(s)
       /\ sem' = [sem EXCEPT ![s] = IF @ > 0 THEN @ - 1 ELSE 0]
  /\ Step(t)
  /\ UNCHANGED <<register, mem>>

Take(t) ==
  /\ Running
  /\ \E s \in DOMAIN sem :
       /\ Next_op(t) = P(s)
       /\ sem[s] > 0
       /\ sem' = [sem EXCEPT ![s] = @ - 1]
  /\ Step(t)
  /\ UNCHANGED <<register, mem>>

Give(t) ==
  /\ Running
  /\ \E s \in DOMAIN sem : Next_op(t) = V(s) /\ sem' = [sem EXCEPT ![s] = @ + 1]
  /\ Step(t)
  /\ UNCHANGED <<register, mem>>

Read(t) ==
  /\ Running
  /\ \E x \in Shared : Next_op(t) = Load(x) /\ register' = [register EXCEPT ![t] = mem[x]]
  /\ Step(t)
  /\ UNCHANGED <<sem, mem>>

Write(t) ==
  /\ Running
  /\ \E x \in Shared :
       \/ Next_op(t) = Store(x) /\ mem' = [mem EXCEPT ![x] = register[t]]
       \/ Next_op(t) = StoreNext(x) /\ mem' = [mem EXCEPT ![x] = register[t] + 1]
       \/ Next_op(t) = StorePrev(x) /\ mem' = [mem EXCEPT ![x] = register[t] - 1]
       \/ Next_op(t) = Input(x) /\ mem' = [mem EXCEPT ![x] = round[t] + 1]
  /\ Step(t)
  /\ UNCHANGED <<sem, register>>

Anything == -1   \* some value, of memory that is not the program's any more

\* The pointer leads to a variable of main: the task's own place in periods,
\* or the loop variable.  Once main returns, its memory may hold anything.
ReadArgument(t) ==
  /\ Running /\ Next_op(t) = Argument
  /\ register' = [register EXCEPT ![t] =
       IF main = "returning" THEN Anything ELSE IF program.row THEN periods[t] ELSE i]
  /\ Step(t)
  /\ UNCHANGED <<sem, mem>>

DoWork(t) ==
  /\ Running /\ Next_op(t) = Work
  /\ Step(t)
  /\ UNCHANGED <<sem, register, mem>>

TaskStep(t) ==
  Begin(t) \/ Take(t) \/ Give(t) \/ Read(t) \/ Write(t) \/ ReadArgument(t) \/ DoWork(t)

-----------------------------------------------------------------------------
ExInit ==
  /\ program \in Programs
  /\ punctual \in BOOLEAN
  /\ main = "starting"
  /\ i = 0
  /\ periods = [t \in Slots |-> 0]
  /\ at = [t \in Slots |-> Unborn]
  /\ round = [t \in Slots |-> 0]
  /\ register = [t \in Slots |-> 0]
  /\ sem = program.sem
  /\ mem = [x \in Shared |-> 0]
  /\ stopped = FALSE

ExNext ==
  \/ Fill \/ Start \/ Advance \/ Signal \/ Exit \/ Exited
  \/ \E t \in Tasks : TaskStep(t)

ExSpec == ExInit /\ [][ExNext]_exVars

\* The waiters of a semaphore queue by priority or in order of arrival, and the
\* processor is not overloaded: a task that can go on again and again does so.
ExFair == \A t \in Slots : SF_exVars(t \in Tasks /\ TaskStep(t))

ExFairSpec == ExSpec /\ ExFair

-----------------------------------------------------------------------------
(* How the programs use their semaphores, in what their tasks do.          *)

Operation(prog) ==
  {Argument, Work} \cup {P(s) : s \in DOMAIN prog.sem} \cup {V(s) : s \in DOMAIN prog.sem}
    \cup UNION {{Load(x), Store(x), StoreNext(x), StorePrev(x), Input(x)} : x \in Shared}

\* What a task of the program does, its setup and one turn.
ScriptOf(prog, t) == prog.setup \o prog.body[t]

WellFormed(prog) ==
  /\ 1 .. Len(prog.tasks) \subseteq Slots
  /\ prog.setup \in Seq(Operation(prog))
  /\ \A t \in 1 .. Len(prog.tasks) :
       prog.body[t] \in Seq(Operation(prog)) /\ prog.body[t] # <<>>
  /\ prog.sem \in [DOMAIN prog.sem -> Nat]
  /\ prog.handler \in BOOLEAN

\* The task takes s at p, after its setup, and gives it at q.
Brackets(prog, t, s, p, q) ==
  /\ p \in Len(prog.setup) + 1 .. Len(ScriptOf(prog, t))
  /\ q \in p + 1 .. Len(ScriptOf(prog, t))
  /\ \A k \in 1 .. Len(ScriptOf(prog, t)) :
       /\ ScriptOf(prog, t)[k] = P(s) <=> k = p
       /\ ScriptOf(prog, t)[k] = V(s) <=> k = q

Mentions(prog, t, op) ==
  \E k \in 1 .. Len(ScriptOf(prog, t)) : ScriptOf(prog, t)[k] = op

\* A lock is free at first, and a task that uses it takes it and gives it back.
IsLock(prog, s) ==
  /\ prog.sem[s] = 1
  /\ \A t \in 1 .. Len(prog.tasks) :
       \/ ~ Mentions(prog, t, P(s)) /\ ~ Mentions(prog, t, V(s))
       \/ \E p, q \in 1 .. Len(ScriptOf(prog, t)) : Brackets(prog, t, s, p, q)

\* A signal is taken by one task and given by another.
IsSignal(prog, s) ==
  \A t \in 1 .. Len(prog.tasks) : ~ Mentions(prog, t, P(s)) \/ ~ Mentions(prog, t, V(s))

\* Every semaphore is a lock or a signal.
Disciplined(prog) ==
  WellFormed(prog) /\ \A s \in DOMAIN prog.sem : IsLock(prog, s) \/ IsSignal(prog, s)

\* No task waits for a semaphore between taking one and giving it back.
Unnested(prog) ==
  \A t \in 1 .. Len(prog.tasks) : \A s \in DOMAIN prog.sem :
    \A k \in 1 .. Len(ScriptOf(prog, t)) :
      /\ \E p \in 1 .. k - 1 : ScriptOf(prog, t)[p] = P(s)
      /\ \E q \in k .. Len(ScriptOf(prog, t)) : ScriptOf(prog, t)[q] = V(s)
      => \A r \in DOMAIN prog.sem : ScriptOf(prog, t)[k] # P(r)

\* Semaphore s, 0 at first, is given when one stage ends and at no other
\* place, and taken in the turn that ends the next stage, at no other place.
Carries(prog, s, from, to) ==
  /\ prog.sem[s] = 0
  /\ \E p \in 1 .. to.op : \A t \in 1 .. Len(prog.tasks) : \A k \in 1 .. Len(ScriptOf(prog, t)) :
       /\ ScriptOf(prog, t)[k] = P(s) <=> t = to.task /\ k = Len(prog.setup) + p
       /\ ScriptOf(prog, t)[k] = V(s) <=> t = from.task /\ k = Len(prog.setup) + from.op

\* The stages end at different operations, each carried to the next.
Chained(prog) ==
  /\ prog.stages \in Seq([task : 1 .. Len(prog.tasks), op : Nat \ {0}])
  /\ \A k \in 1 .. Len(prog.stages) : prog.stages[k].op <= Len(prog.body[prog.stages[k].task])
  /\ \A k, l \in 1 .. Len(prog.stages) : prog.stages[k] = prog.stages[l] => k = l
  /\ \A k \in 2 .. Len(prog.stages) : \E s \in DOMAIN prog.sem :
       Carries(prog, s, prog.stages[k - 1], prog.stages[k])

\* A task with an argument of its own never runs while main returns, and keeps
\* nothing else in its register.
Private(prog) ==
  /\ prog.row
  /\ \E k \in 1 .. Len(prog.setup) : prog.setup[k] = Argument
  => /\ prog.pauses /\ ~ prog.handler
     /\ \A t \in 1 .. Len(prog.tasks) : \A x \in Shared : ~ Mentions(prog, t, Load(x))

\* The programs that the properties below know by their tasks or semaphores.
Recognised(prog) ==
  /\ prog.tasks = mars_rover.tasks => prog = mars_rover
  /\ prog.tasks = semaphore.tasks => prog = semaphore
  /\ (\E t \in 1 .. Len(prog.tasks) : Mentions(prog, t, Load("sensors"))) => prog = sfcModel

-----------------------------------------------------------------------------
(* Properties.                                                             *)

\* The program runs only tasks it has, and its semaphores never go below zero.
ExTypeOK ==
  /\ program \in Programs /\ punctual \in BOOLEAN /\ stopped \in BOOLEAN
  /\ main \in {"starting", "pausing", "returning", "exited"}
  /\ i \in 0 .. Len(program.tasks)
  /\ \A t \in Slots :
       /\ at[t] \in {Unborn, Top, Ended} \cup
                   IF t \in Tasks THEN 1 .. Len(Script(t)) ELSE {}
       /\ round[t] \in Nat /\ register[t] \in Int /\ periods[t] \in Int
  /\ \A s \in DOMAIN sem : sem[s] \in Nat
  /\ mem \in [Shared -> Int]

\* Task t has taken s and is still to give it back.
Inside(t, s) ==
  /\ at[t] > 0
  /\ \E p \in 1 .. at[t] - 1 : Script(t)[p] = P(s)
  /\ \E q \in at[t] .. Len(Script(t)) : Script(t)[q] = V(s)

Blocked(t) == \E s \in DOMAIN sem : Next_op(t) = P(s) /\ sem[s] = 0

\* exLock (mars_rover.c) and s (multitask.c) admit one task at a time.
MutualExclusion ==
  \A s \in DOMAIN sem : \A t, u \in Tasks : Inside(t, s) /\ Inside(u, s) => t = u

\* A task that waits for a lock waits for one that can go on: nobody waits
\* for another semaphore while it holds exLock.
HolderRuns ==
  \A t, u \in Tasks : \A s \in DOMAIN sem :
    Inside(u, s) /\ Next_op(t) = P(s) => ~ Blocked(u)

\* The loop of mars_rover through sharedResource and shared: no count is ever
\* made up, and while the tasks keep their periods none is lost.
FeedbackCounts ==
  program.tasks = mars_rover.tasks =>
    /\ mem["shared"] <= Passed(2, 4)
    /\ punctual => mem["shared"] = done[3]

\* The steps and the conditions of a scan of sfcModel never use a reading made
\* before it, and while the tasks keep their periods both use its own: the
\* reader does not overwrite sensors while the scan goes on.
ScanSeesItsInputs ==
  \A t \in Tasks : Next_op(t) = Load("sensors") =>
    /\ mem["sensors"] >= round[t] + 1
    /\ punctual => mem["sensors"] = round[t] + 1

\* semaphore.c: the updates of global alternate and none of them is lost.
Turns ==
  program.tasks = semaphore.tasks =>
    /\ mem["global"] = Passed(1, 3) - Passed(2, 3)
    /\ mem["global"] \in {0, 1}

\* A task with a place of its own in periods gets the value main wrote there
\* for it, whenever it runs and wherever main is by then.
OwnParameters ==
  \A t \in Tasks :
    Passes /\ at[t] \notin {Unborn} \cup 1 .. Len(program.setup) => register[t] = t

\* The other programs compute what they are about: scans over inputs of their
\* own, alternating updates, and parameters of their own.
ProgramsCompute == ScanSeesItsInputs /\ Turns /\ OwnParameters

Pipe == INSTANCE Pipeline

\* The stages of the rover and of the PLC cycles implement the pipeline: the
\* semaphores carry each round from stage to stage, in order.
StagesInOrder == Pipe!Spec

\* A round that was sensed is acted on, unless the program is stopped first.
EveryRoundActs ==
  \A k \in 1 .. Rounds :
    (main = "pausing" /\ done # <<>> /\ done[1] >= k) ~> (main # "pausing" \/ finished >= k)
=============================================================================
