-------------------------- MODULE ExercisesProofs --------------------------
(***************************************************************************)
(* Proofs about the exercises, whenever main starts, stops or leaves the   *)
(* tasks, and for any number of turns.                                     *)
(*                                                                         *)
(* LockInv: a semaphore that every task takes before it gives it, once a   *)
(* turn, admits one task at a time.  ChainInv: a semaphore that carries    *)
(* the rounds from stage to stage counts those one stage has ended and the *)
(* next has not taken.  From the second follow the refinement of Pipeline  *)
(* and, with what the registers hold meanwhile, the counts of the rover    *)
(* and the inputs of sfcModel.                                             *)
(***************************************************************************)
EXTENDS Exercises, TLAPS

USE ExercisesAssumption

\* Tasks are somewhere in their scripts.
Places ==
  /\ program \in Programs
  /\ sem \in [DOMAIN program.sem -> Nat]
  /\ at \in [Slots -> Int]
  /\ \A t \in Tasks : at[t] <= Len(Script(t))

\* The lock s is free, or one task is inside.
LockState(s) ==
  \/ sem[s] = 1 /\ \A t \in Tasks : ~ Inside(t, s)
  \/ sem[s] = 0 /\ \E t \in Tasks : \A u \in Tasks : Inside(u, s) <=> u = t

LockInv ==
  Places /\ \A s \in DOMAIN program.sem : IsLock(program, s) => LockState(s)

(***************************************************************************)
(* The operations are told apart by their first component.                 *)
(***************************************************************************)
LEMMA OperationsDiffer ==
  \A s, r, x : /\ P(s) # V(r) /\ P(s) # Load(x) /\ P(s) # Store(x)
               /\ P(s) # StoreNext(x) /\ P(s) # StorePrev(x) /\ P(s) # Input(x)
               /\ V(s) # Load(x) /\ V(s) # Store(x)
               /\ V(s) # StoreNext(x) /\ V(s) # StorePrev(x) /\ V(s) # Input(x)
               /\ P(s) # Argument /\ P(s) # Work /\ V(s) # Argument /\ V(s) # Work
               /\ P(s) # <<"none">> /\ V(s) # <<"none">>
               /\ (P(s) = P(r) => s = r) /\ (V(s) = V(r) => s = r)
  BY DEF P, V, Load, Store, StoreNext, StorePrev, Input, Argument, Work

(***************************************************************************)
(* The script of a task is a sequence that is longer than its setup.       *)
(***************************************************************************)
LEMMA ScriptFacts ==
  ASSUME WellFormed(program), NEW t \in Tasks
  PROVE  /\ Len(program.setup) \in Nat /\ Len(Script(t)) \in Nat
         /\ Len(program.setup) < Len(Script(t))
         /\ ScriptOf(program, t) = Script(t)
  <1> DEFINE Ops == Operation(program)
  <1>1. program.setup \in Seq(Ops) /\ program.body[t] \in Seq(Ops) /\ program.body[t] # <<>>
    BY DEF WellFormed, Tasks
  <1> HIDE DEF Ops
  <1>2. Len(program.body[t]) \in Nat \ {0}
    BY <1>1
  <1>3. Script(t) = program.setup \o program.body[t] /\ ScriptOf(program, t) = Script(t)
    BY DEF Script, ScriptOf
  <1>4. Len(Script(t)) = Len(program.setup) + Len(program.body[t])
    BY <1>1, <1>3
  <1>5. Len(program.setup) \in Nat
    BY <1>1
  <1> DEFINE b == Len(program.body[t])
             n == Len(program.setup)
             m == Len(Script(t))
  <1>6. m \in Nat /\ n < m
    <2> HIDE DEF b, n, m
    <2>1. m = n + b /\ b \in Nat \ {0} /\ n \in Nat
      BY <1>2, <1>4, <1>5 DEF b, n, m
    <2>2. QED
      BY <2>1
  <1>7. QED
    BY <1>3, <1>5, <1>6

(***************************************************************************)
(* Where a task that brackets s is inside.                                 *)
(***************************************************************************)
LEMMA InsideBracket ==
  ASSUME WellFormed(program), NEW t \in Tasks, NEW s, NEW p \in Nat, NEW q \in Nat,
         Brackets(program, t, s, p, q), at[t] \in Int, at[t] <= Len(Script(t))
  PROVE  Inside(t, s) <=> p < at[t] /\ at[t] <= q
  <1>1. p \in 1 .. Len(Script(t)) /\ q \in 1 .. Len(Script(t))
    BY ScriptFacts DEF Brackets
  <1>2. QED
    BY <1>1, ScriptFacts DEF Brackets, Inside

LEMMA InsideSame ==
  ASSUME NEW t, NEW s, UNCHANGED program, at'[t] = at[t]
  PROVE  Inside(t, s)' <=> Inside(t, s)
  BY DEF Inside, Script

LEMMA OutsideIdle ==
  ASSUME NEW t, NEW s, at[t] <= 0, at[t] \in Int
  PROVE  ~ Inside(t, s)
  BY DEF Inside

(***************************************************************************)
(* A step of task t on the operation it is about to do.                    *)
(***************************************************************************)
LEMMA StepMoves ==
  ASSUME Places, WellFormed(program), NEW t \in Tasks, at[t] > 0, Step(t)
  PROVE  /\ program' = program
         /\ at' \in [Slots -> Int]
         /\ \A u \in Tasks \ {t} : at'[u] = at[u]
         /\ \/ at'[t] = 0 /\ at[t] \in {Len(program.setup), Len(Script(t))}
            \/ at'[t] = at[t] + 1 /\ at[t] \notin {Len(program.setup), Len(Script(t))}
         /\ \A u \in Tasks : at'[u] <= Len(Script(u))
  <1>1. /\ t \in Slots /\ at[t] \in Int /\ at[t] <= Len(Script(t))
        /\ Len(program.setup) \in Nat /\ Len(Script(t)) \in Nat
    BY ScriptFacts DEF Places, WellFormed, Tasks
  <1> DEFINE goes == IF at[t] = Len(Script(t)) \/ at[t] = Len(program.setup) THEN Top
                     ELSE at[t] + 1
  <1>2. program' = program /\ at' = [at EXCEPT ![t] = goes] /\ goes \in Int
    BY <1>1 DEF Step, Top
  <1>3. at \in [Slots -> Int]
    BY DEF Places
  <1>4. at' \in [Slots -> Int] /\ at'[t] = goes
    BY <1>1, <1>2, <1>3
  <1>5. \A u \in Tasks \ {t} : at'[u] = at[u]
    BY <1>2, <1>3 DEF WellFormed, Tasks
  <1>6. QED
    BY <1>1, <1>2, <1>4, <1>5 DEF Top, Places

(***************************************************************************)
(* A task enters with P, leaves with V, and stays where it is otherwise.   *)
(***************************************************************************)
LEMMA StepInside ==
  ASSUME Places, WellFormed(program), NEW t \in Tasks, at[t] > 0, Step(t),
         NEW s \in DOMAIN sem, IsLock(program, s)
  PROVE  /\ Next_op(t) = P(s) => Inside(t, s)' /\ ~ Inside(t, s)
         /\ Next_op(t) = V(s) => ~ Inside(t, s)' /\ Inside(t, s)
         /\ Next_op(t) \notin {P(s), V(s)} => (Inside(t, s)' <=> Inside(t, s))
  <1>1. /\ at[t] \in 1 .. Len(Script(t)) /\ Next_op(t) = Script(t)[at[t]]
        /\ ScriptOf(program, t) = Script(t)
        /\ Script(t)' = Script(t)
        /\ Len(program.setup) \in Nat /\ Len(Script(t)) \in Nat
    <2>1. /\ ScriptOf(program, t) = Script(t)
          /\ Len(program.setup) \in Nat /\ Len(Script(t)) \in Nat
      BY ScriptFacts
    <2>2. at[t] \in Int /\ at[t] <= Len(Script(t)) /\ t \in Slots
      BY DEF Places, WellFormed, Tasks
    <2>3. Next_op(t) = Script(t)[at[t]]
      BY DEF Next_op
    <2>4. Script(t)' = Script(t)
      BY DEF Step, Script
    <2>5. QED
      BY <2>1, <2>2, <2>3, <2>4
  <1>2. CASE ~ Mentions(program, t, P(s)) /\ ~ Mentions(program, t, V(s))
    <2>1. \A k \in 1 .. Len(Script(t)) : Script(t)[k] # P(s) /\ Script(t)[k] # V(s)
      BY <1>1, <1>2 DEF Mentions
    <2>2. Next_op(t) \notin {P(s), V(s)}
      BY <1>1, <2>1
    <2>3. ~ Inside(t, s)
      BY <1>1, <2>1 DEF Inside
    <2>4. at'[t] \in Int /\ at'[t] <= Len(Script(t)) /\ at'[t] >= 0
      BY <1>1, StepMoves DEF WellFormed, Tasks
    <2>5. ~ Inside(t, s)'
      <3>1. SUFFICES ASSUME NEW k \in at'[t] .. Len(Script(t)), at'[t] > 0
                     PROVE  Script(t)[k] # V(s)
        BY <1>1 DEF Inside
      <3>2. QED
        BY <1>1, <2>1, <2>4, <3>1
    <2>6. QED
      BY <2>2, <2>3, <2>5
  <1>3. ASSUME NEW p \in Nat, NEW q \in Nat, Brackets(program, t, s, p, q)
        PROVE  /\ Next_op(t) = P(s) => Inside(t, s)' /\ ~ Inside(t, s)
               /\ Next_op(t) = V(s) => ~ Inside(t, s)' /\ Inside(t, s)
               /\ Next_op(t) \notin {P(s), V(s)} => (Inside(t, s)' <=> Inside(t, s))
    <2>1. Inside(t, s) <=> p < at[t] /\ at[t] <= q
      BY <1>1, <1>3, InsideBracket DEF Places
    <2>2. Inside(t, s)' <=> p < at'[t] /\ at'[t] <= q
      <3>1. at'[t] \in Int /\ at'[t] <= Len(Script(t))
        BY <1>1, StepMoves DEF WellFormed, Tasks
      <3>2. Inside(t, s)' <=> /\ at'[t] > 0
                              /\ \E k \in 1 .. at'[t] - 1 : Script(t)[k] = P(s)
                              /\ \E k \in at'[t] .. Len(Script(t)) : Script(t)[k] = V(s)
        BY <1>1 DEF Inside
      <3>3. /\ p \in 1 .. Len(Script(t)) /\ q \in 1 .. Len(Script(t))
            /\ \A k \in 1 .. Len(Script(t)) :
                 (Script(t)[k] = P(s) <=> k = p) /\ (Script(t)[k] = V(s) <=> k = q)
        BY <1>1, <1>3 DEF Brackets
      <3> DEFINE place == at'[t]
                 last == Len(Script(t))
                 takes(k) == Script(t)[k] = P(s)
                 gives(k) == Script(t)[k] = V(s)
      <3>4. /\ place \in Int /\ last \in Nat /\ place <= last
            /\ p \in 1 .. last /\ q \in 1 .. last
            /\ \A k \in 1 .. last : (takes(k) <=> k = p) /\ (gives(k) <=> k = q)
        BY <1>1, <3>1, <3>3
      <3>5. Inside(t, s)' <=> /\ place > 0
                              /\ \E k \in 1 .. place - 1 : takes(k)
                              /\ \E k \in place .. last : gives(k)
        BY <3>2
      <3> HIDE DEF place, last, takes, gives
      <3>6. (\E k \in 1 .. place - 1 : takes(k)) <=> p < place
        BY <3>4
      <3>7. place > 0 => ((\E k \in place .. last : gives(k)) <=> place <= q)
        BY <3>4
      <3>8. p < place => place > 0
        BY <3>4
      <3>9. Inside(t, s)' <=> p < place /\ place <= q
        BY <3>5, <3>6, <3>7, <3>8
      <3>10. QED
        BY <3>9 DEF place
    <2>3. /\ Len(program.setup) < p /\ p < q /\ q <= Len(Script(t))
          /\ Next_op(t) = P(s) <=> at[t] = p
          /\ Next_op(t) = V(s) <=> at[t] = q
      BY <1>1, <1>3 DEF Brackets
    <2>4. \/ at'[t] = 0 /\ at[t] \in {Len(program.setup), Len(Script(t))}
          \/ at'[t] = at[t] + 1 /\ at[t] \notin {Len(program.setup), Len(Script(t))}
      BY StepMoves
    <2>5. at[t] = p => Inside(t, s)' /\ ~ Inside(t, s)
      BY <1>1, <1>3, <2>1, <2>2, <2>3, <2>4
    <2>6. at[t] = q => ~ Inside(t, s)' /\ Inside(t, s)
      BY <1>1, <1>3, <2>1, <2>2, <2>3, <2>4
    <2>7. at[t] # p /\ at[t] # q => (Inside(t, s)' <=> Inside(t, s))
      BY <1>1, <1>3, <2>1, <2>2, <2>3, <2>4
    <2>8. QED
      BY <2>3, <2>5, <2>6, <2>7
  <1>4. QED
    BY <1>2, <1>3 DEF IsLock, Tasks

-----------------------------------------------------------------------------
\* Nothing about s changes when nobody enters or leaves and its count stays.
LEMMA LockKept ==
  ASSUME NEW s \in DOMAIN sem, LockState(s), UNCHANGED program, sem'[s] = sem[s],
         \A u \in Tasks : Inside(u, s)' <=> Inside(u, s)
  PROVE  LockState(s)'
  <1>1. Tasks' = Tasks
    BY DEF Tasks
  <1>2. QED
    BY <1>1 DEF LockState

(***************************************************************************)
(* The operations of a task: rt_sem_p and rt_sem_v open and close the      *)
(* lock, the others leave it.                                              *)
(***************************************************************************)
LEMMA OperationKeepsLock ==
  ASSUME Places, WellFormed(program), NEW t \in Tasks, at[t] > 0,
         Take(t) \/ Give(t) \/ Read(t) \/ Write(t) \/ ReadArgument(t) \/ DoWork(t),
         NEW s \in DOMAIN sem, IsLock(program, s), LockState(s)
  PROVE  LockState(s)'
  <1>1. Step(t)
    BY DEF Take, Give, Read, Write, ReadArgument, DoWork
  <1>2. program' = program /\ Tasks' = Tasks
    BY <1>1 DEF Step, Tasks
  <1>3. \A u \in Tasks \ {t} : Inside(u, s)' <=> Inside(u, s)
    BY <1>1, <1>2, StepMoves, InsideSame
  <1>4. /\ Next_op(t) = P(s) => Inside(t, s)' /\ ~ Inside(t, s)
        /\ Next_op(t) = V(s) => ~ Inside(t, s)' /\ Inside(t, s)
        /\ Next_op(t) \notin {P(s), V(s)} => (Inside(t, s)' <=> Inside(t, s))
    BY <1>1, StepInside
  <1> sem \in [DOMAIN sem -> Nat]
    BY DEF Places
  <1>5. CASE Take(t)
    <2>1. PICK r \in DOMAIN sem : /\ Next_op(t) = P(r) /\ sem[r] > 0
                                  /\ sem' = [sem EXCEPT ![r] = @ - 1]
      BY <1>5 DEF Take
    <2>2. CASE r = s
      <3>1. sem'[s] = sem[s] - 1 /\ sem[s] > 0 /\ sem[s] \in Nat
        BY <2>1, <2>2
      <3>2. sem'[s] = 0 /\ \A u \in Tasks : ~ Inside(u, s)
        BY <3>1 DEF LockState
      <3>3. \A u \in Tasks : Inside(u, s)' <=> u = t
        BY <1>3, <1>4, <2>1, <2>2, <3>2
      <3>4. QED
        BY <1>2, <3>2, <3>3 DEF LockState
    <2>3. CASE r # s
      <3>1. Next_op(t) \notin {P(s), V(s)}
        BY <2>1, <2>3, OperationsDiffer
      <3>2. QED
        BY <1>2, <1>3, <1>4, <2>1, <2>3, <3>1, LockKept
    <2>4. QED
      BY <2>2, <2>3
  <1>6. CASE Give(t)
    <2>1. PICK r \in DOMAIN sem : Next_op(t) = V(r) /\ sem' = [sem EXCEPT ![r] = @ + 1]
      BY <1>6 DEF Give
    <2>2. CASE r = s
      <3>1. Inside(t, s) /\ ~ Inside(t, s)'
        BY <1>4, <2>1, <2>2
      <3>2. sem[s] = 0 /\ \A u \in Tasks : Inside(u, s) <=> u = t
        BY <3>1 DEF LockState
      <3>3. sem'[s] = 1
        BY <2>1, <2>2, <3>2
      <3>4. \A u \in Tasks : ~ Inside(u, s)'
        BY <1>3, <3>1, <3>2
      <3>5. QED
        BY <1>2, <3>3, <3>4 DEF LockState
    <2>3. CASE r # s
      <3>1. Next_op(t) \notin {P(s), V(s)}
        BY <2>1, <2>3, OperationsDiffer
      <3>2. QED
        BY <1>2, <1>3, <1>4, <2>1, <2>3, <3>1, LockKept
    <2>4. QED
      BY <2>2, <2>3
  <1>7. CASE Read(t) \/ Write(t) \/ ReadArgument(t) \/ DoWork(t)
    <2>1. sem' = sem
      BY <1>7 DEF Read, Write, ReadArgument, DoWork
    <2>2. Next_op(t) \notin {P(s), V(s)}
      BY <1>7, OperationsDiffer DEF Read, Write, ReadArgument, DoWork
    <2>3. QED
      BY <1>2, <1>3, <1>4, <2>1, <2>2, LockKept
  <1>8. QED
    BY <1>5, <1>6, <1>7

(***************************************************************************)
(* A task that is started, or begins or ends its loop, is outside.         *)
(***************************************************************************)
LEMMA PlacedOutside ==
  ASSUME WellFormed(program), UNCHANGED program, NEW t \in Tasks, NEW s \in DOMAIN program.sem,
         IsLock(program, s),
         at'[t] \in {Top, Ended, 1, Len(program.setup) + 1}
  PROVE  ~ Inside(t, s)' /\ at'[t] \in Int /\ at'[t] <= Len(Script(t))
  <1>1. /\ Len(program.setup) \in Nat /\ Len(Script(t)) \in Nat
        /\ Len(program.setup) < Len(Script(t))
        /\ ScriptOf(program, t) = Script(t) /\ Script(t)' = Script(t)
    BY ScriptFacts DEF Script
  <1>2. at'[t] \in Int /\ at'[t] <= Len(program.setup) + 1
    BY <1>1 DEF Top, Ended
  <1>3. ~ Inside(t, s)'
    <2>1. SUFFICES ASSUME NEW k \in 1 .. at'[t] - 1, at'[t] > 0 PROVE Script(t)[k] # P(s)
      BY <1>1 DEF Inside
    <2>2. k \in 1 .. Len(program.setup) /\ k \in 1 .. Len(Script(t))
      BY <1>1, <1>2
    <2>3. CASE ~ Mentions(program, t, P(s))
      BY <1>1, <2>2, <2>3 DEF Mentions
    <2>4. ASSUME NEW p \in Nat, NEW q \in Nat, Brackets(program, t, s, p, q)
          PROVE  Script(t)[k] # P(s)
      BY <1>1, <2>2, <2>4 DEF Brackets
    <2>5. QED
      BY <2>3, <2>4 DEF IsLock, Tasks
  <1>4. QED
    BY <1>1, <1>2, <1>3

(***************************************************************************)
(* main starts its tasks, and a task begins and ends its loop.             *)
(***************************************************************************)
LEMMA PlacingKeeps ==
  ASSUME LockInv, WellFormed(program), UNCHANGED <<program, sem>>,
         NEW t \in Slots, NEW place \in {Top, Ended, 1, Len(program.setup) + 1},
         at[t] \in {Unborn, Top}, at' = [at EXCEPT ![t] = place]
  PROVE  LockInv'
  <1>1. at \in [Slots -> Int] /\ Tasks' = Tasks /\ Tasks \subseteq Slots
    BY DEF LockInv, Places, Tasks, WellFormed
  <1>2. \A u \in Tasks \ {t} : at'[u] = at[u]
    BY <1>1
  <1>3. Len(program.setup) \in Nat
    <2> DEFINE Ops == Operation(program)
    <2>1. program.setup \in Seq(Ops)
      BY DEF WellFormed
    <2> HIDE DEF Ops
    <2>2. QED
      BY <2>1
  <1>4. place \in Int /\ at' \in [Slots -> Int] /\ at'[t] = place
    BY <1>1, <1>3 DEF Top, Ended
  <1>5. Places'
    <2>1. \A u \in Tasks : Script(u)' = Script(u)
      BY DEF Script
    <2>2. \A u \in Tasks : at'[u] <= Len(Script(u))
      <3>1. t \in Tasks => at'[t] <= Len(Script(t))
        BY <1>3, <1>4, ScriptFacts DEF Top, Ended
      <3>2. QED
        BY <1>2, <3>1 DEF LockInv, Places
    <2>3. QED
      BY <1>1, <1>4, <2>1, <2>2 DEF LockInv, Places
  <1>6. ASSUME NEW s \in DOMAIN program.sem, IsLock(program, s)
        PROVE  LockState(s)'
    <2>1. \A u \in Tasks \ {t} : Inside(u, s)' <=> Inside(u, s)
      BY <1>2, InsideSame
    <2>2. t \in Tasks => ~ Inside(t, s) /\ ~ Inside(t, s)'
      <3>1. t \in Tasks => ~ Inside(t, s)
        BY <1>1, OutsideIdle DEF Unborn, Top
      <3>2. t \in Tasks => ~ Inside(t, s)'
        BY <1>4, <1>6, PlacedOutside
      <3>3. QED
        BY <3>1, <3>2
    <2>3. LockState(s) /\ s \in DOMAIN sem
      BY <1>6 DEF LockInv, Places
    <2>4. QED
      BY <2>1, <2>2, <2>3, LockKept
  <1>7. QED
    BY <1>5, <1>6 DEF LockInv

(***************************************************************************)
(* An operation of a task leaves it somewhere in its script.               *)
(***************************************************************************)
LEMMA OperationKeeps ==
  ASSUME LockInv, WellFormed(program), NEW t \in Tasks,
         Take(t) \/ Give(t) \/ Read(t) \/ Write(t) \/ ReadArgument(t) \/ DoWork(t)
  PROVE  LockInv'
  <1>1. at[t] > 0
    BY DEF Take, Give, Read, Write, ReadArgument, DoWork, Next_op, P, V, Load, Store,
           StoreNext, StorePrev, Input, Argument, Work
  <1>2. Step(t) /\ Places
    BY DEF Take, Give, Read, Write, ReadArgument, DoWork, LockInv
  <1>3. sem' \in [DOMAIN program.sem -> Nat]
    <2> sem \in [DOMAIN program.sem -> Nat]
      BY <1>2 DEF Places
    <2>1. CASE Take(t)
      BY <2>1 DEF Take
    <2>2. CASE Give(t)
      BY <2>2 DEF Give
    <2>3. QED
      BY <2>1, <2>2 DEF Read, Write, ReadArgument, DoWork
  <1>4. Places'
    <2>1. program' = program /\ Tasks' = Tasks /\ \A u \in Tasks : Script(u)' = Script(u)
      BY <1>2 DEF Step, Tasks, Script
    <2>2. at' \in [Slots -> Int] /\ \A u \in Tasks : at'[u] <= Len(Script(u))
      BY <1>1, <1>2, StepMoves
    <2>3. QED
      BY <1>2, <1>3, <2>1, <2>2 DEF Places
  <1>5. \A s \in DOMAIN program.sem : IsLock(program, s) => LockState(s)'
    <2>1. DOMAIN sem = DOMAIN program.sem
      BY <1>2 DEF Places
    <2>2. QED
      BY <1>1, <1>2, <2>1, OperationKeepsLock DEF LockInv
  <1>6. program' = program
    BY <1>2 DEF Step
  <1>7. QED
    BY <1>4, <1>5, <1>6 DEF LockInv

LEMMA UntouchedKeeps ==
  ASSUME LockInv, UNCHANGED <<program, at, sem>>
  PROVE  LockInv'
  <1>1. Tasks' = Tasks /\ \A t : Script(t)' = Script(t)
    BY DEF Tasks, Script
  <1>2. Places'
    BY <1>1 DEF LockInv, Places
  <1>3. ASSUME NEW s \in DOMAIN program.sem, IsLock(program, s)
        PROVE  LockState(s)'
    <2>1. \A t \in Tasks : Inside(t, s)' <=> Inside(t, s)
      BY <1>1, InsideSame
    <2>2. LockState(s) /\ s \in DOMAIN sem
      BY <1>3 DEF LockInv, Places
    <2>3. QED
      BY <2>1, <2>2, LockKept
  <1>4. QED
    BY <1>2, <1>3 DEF LockInv

(***************************************************************************)
(* Every step of a program keeps its locks.                                *)
(***************************************************************************)
LEMMA LocksStart ==
  ASSUME \A prog \in Programs : WellFormed(prog), ExInit
  PROVE  LockInv
  <1>1. program \in Programs /\ WellFormed(program) /\ sem = program.sem
        /\ at \in [Slots -> Int] /\ \A t \in Slots : at[t] = -1
    BY DEF ExInit, Unborn
  <1>2. Tasks \subseteq Slots
    BY <1>1 DEF WellFormed, Tasks
  <1>3. \A t \in Tasks : at[t] <= Len(Script(t))
    BY <1>1, <1>2, ScriptFacts
  <1>4. Places
    BY <1>1, <1>3 DEF Places, WellFormed
  <1>5. ASSUME NEW s \in DOMAIN program.sem, IsLock(program, s)
        PROVE  LockState(s)
    <2>1. sem[s] = 1
      BY <1>1, <1>5 DEF IsLock
    <2>2. \A t \in Tasks : ~ Inside(t, s)
      BY <1>1, <1>2, OutsideIdle
    <2>3. QED
      BY <2>1, <2>2 DEF LockState
  <1>6. QED
    BY <1>4, <1>5 DEF LockInv

LEMMA LocksStep ==
  ASSUME \A prog \in Programs : WellFormed(prog), LockInv, [ExNext]_exVars
  PROVE  LockInv'
  <1>1. WellFormed(program)
    BY DEF LockInv, Places
  <1>2. Tasks \subseteq Slots
    BY <1>1 DEF WellFormed, Tasks
  <1>3. CASE Fill \/ Advance \/ Signal \/ Exit \/ Exited \/ UNCHANGED exVars
    <2>1. UNCHANGED <<program, at, sem>>
      BY <1>3 DEF Fill, Advance, Signal, Exit, Exited, exVars
    <2>2. QED
      BY <2>1, UntouchedKeeps
  <1>4. CASE Start
    <2> DEFINE place == IF program.setup = <<>> THEN Top ELSE 1
    <2>1. /\ at[i + 1] = Unborn /\ UNCHANGED <<program, sem>>
          /\ at' = [at EXCEPT ![i + 1] = place]
      BY <1>4 DEF Start
    <2>2. CASE i + 1 \in Slots
      <3>1. place \in {Top, Ended, 1, Len(program.setup) + 1} /\ at[i + 1] \in {Unborn, Top}
        BY <2>1
      <3>2. QED
        BY <1>1, <2>1, <2>2, <3>1, PlacingKeeps
    <2>3. CASE i + 1 \notin Slots
      <3>1. at' = at
        BY <2>1, <2>3 DEF LockInv, Places
      <3>2. QED
        BY <2>1, <3>1, UntouchedKeeps
    <2>4. QED
      BY <2>2, <2>3
  <1>5. ASSUME NEW t \in Tasks, Begin(t)
        PROVE  LockInv'
    <2>1. /\ at[t] = Top /\ UNCHANGED <<program, sem>>
          /\ \E place \in {Ended, Len(program.setup) + 1} : at' = [at EXCEPT ![t] = place]
      BY <1>5 DEF Begin
    <2>2. PICK place \in {Ended, Len(program.setup) + 1} : at' = [at EXCEPT ![t] = place]
      BY <2>1
    <2>3. place \in {Top, Ended, 1, Len(program.setup) + 1} /\ at[t] \in {Unborn, Top}
      BY <2>1
    <2>4. QED
      BY <1>1, <1>2, <2>1, <2>2, <2>3, PlacingKeeps
  <1>6. QED
    BY <1>1, <1>3, <1>4, <1>5, OperationKeeps DEF ExNext, TaskStep

(***************************************************************************)
(* exLock of mars_rover.c and s of multitask.c admit one task at a time,   *)
(* as does every semaphore of a program that takes it before it gives it,  *)
(* whatever the number of tasks, the turns of their loops and the moment   *)
(* main starts, stops or leaves them.                                      *)
(***************************************************************************)
THEOREM LocksExclude ==
  ASSUME \A prog \in Programs : Disciplined(prog)
  PROVE  ExSpec => []MutualExclusion
  <1>1. \A prog \in Programs : WellFormed(prog)
    BY DEF Disciplined
  <1>2. ExInit => LockInv
    BY <1>1, LocksStart
  <1>3. LockInv /\ [ExNext]_exVars => LockInv'
    BY <1>1, LocksStep
  <1>4. LockInv => MutualExclusion
    <2>1. SUFFICES ASSUME LockInv, NEW s \in DOMAIN sem, NEW t \in Tasks, NEW u \in Tasks,
                          Inside(t, s), Inside(u, s)
                   PROVE  t = u
      BY DEF MutualExclusion
    <2>2. Disciplined(program) /\ s \in DOMAIN program.sem
      BY <2>1 DEF LockInv, Places
    <2>3. CASE IsLock(program, s)
      BY <2>1, <2>2, <2>3 DEF LockInv, LockState
    <2>4. CASE IsSignal(program, s)
      <3>1. WellFormed(program) /\ ScriptOf(program, t) = Script(t)
        BY <2>2, ScriptFacts DEF Disciplined
      <3>2. /\ at[t] \in Int /\ at[t] > 0 /\ at[t] <= Len(Script(t)) /\ Len(Script(t)) \in Nat
        BY <2>1, <3>1, ScriptFacts DEF LockInv, Places, WellFormed, Tasks, Inside
      <3>3. Mentions(program, t, P(s)) /\ Mentions(program, t, V(s))
        BY <2>1, <3>1, <3>2 DEF Inside, Mentions
      <3>4. QED
        BY <2>4, <3>3 DEF IsSignal, Tasks
    <2>5. QED
      BY <2>2, <2>3, <2>4 DEF Disciplined
  <1>5. QED
    BY <1>2, <1>3, <1>4, PTL DEF ExSpec

-----------------------------------------------------------------------------
(* Types.                                                                  *)

\* ExTypeOK, with the domains of the functions.
Types ==
  /\ ExTypeOK
  /\ at \in [Slots -> Int] /\ round \in [Slots -> Nat] /\ register \in [Slots -> Int]
  /\ periods \in [Slots -> Int] /\ sem \in [DOMAIN program.sem -> Nat]

\* Where a task can be.
Spot(t) == {Unborn, Top, Ended} \cup IF t \in Tasks THEN 1 .. Len(Script(t)) ELSE {}

LEMMA TypesStart ==
  ASSUME \A prog \in Programs : WellFormed(prog), ExInit
  PROVE  Types
  <1>1. program \in Programs /\ WellFormed(program) /\ sem = program.sem
    BY DEF ExInit
  <1>2. sem \in [DOMAIN program.sem -> Nat]
    BY <1>1 DEF WellFormed
  <1>3. Len(program.tasks) \in Nat
    BY <1>1 DEF WellFormed
  <1>4. /\ at \in [Slots -> Int] /\ round \in [Slots -> Nat] /\ register \in [Slots -> Int]
        /\ mem \in [Shared -> Int] /\ periods \in [Slots -> Int]
        /\ \A t \in Slots : /\ at[t] = Unborn /\ round[t] \in Nat /\ register[t] \in Int
                          /\ periods[t] \in Int
    BY DEF ExInit, Unborn
  <1>5. /\ punctual \in BOOLEAN /\ stopped \in BOOLEAN
        /\ main \in {"starting", "pausing", "returning", "exited"}
    BY DEF ExInit
  <1>6. i \in 0 .. Len(program.tasks)
    <2>1. i = 0
      BY DEF ExInit
    <2>2. QED
      BY <1>3, <2>1
  <1>7. QED
    BY <1>1, <1>2, <1>4, <1>5, <1>6 DEF Types, ExTypeOK

(***************************************************************************)
(* A step that puts task t somewhere else and keeps the other types.       *)
(***************************************************************************)
LEMMA MoveKeepsTypes ==
  ASSUME Types, WellFormed(program), UNCHANGED <<program, punctual, periods, stopped>>,
         main' \in {"starting", "pausing", "returning", "exited"},
         i' \in 0 .. Len(program.tasks),
         NEW t \in Slots, NEW place \in Spot(t) \cap Int, at' = [at EXCEPT ![t] = place],
         round' \in [Slots -> Nat], register' \in [Slots -> Int],
         sem' \in [DOMAIN program.sem -> Nat], mem' \in [Shared -> Int]
  PROVE  Types'
  <1>1. Tasks' = Tasks /\ \A u : Script(u)' = Script(u)
    BY DEF Tasks, Script
  <1>2. at' \in [Slots -> Int]
    BY DEF Types
  <1>3. \A u \in Slots : at'[u] \in Spot(u)
    BY DEF Types, ExTypeOK, Spot
  <1>4. QED
    BY <1>1, <1>2, <1>3 DEF Types, ExTypeOK, Spot

LEMMA TypesStep ==
  ASSUME \A prog \in Programs : WellFormed(prog), Types, [ExNext]_exVars
  PROVE  Types'
  <1>1. WellFormed(program) /\ Tasks \subseteq Slots
    BY DEF Types, ExTypeOK, WellFormed, Tasks
  <1>2. \A t \in Tasks : /\ Len(program.setup) \in Nat /\ Len(Script(t)) \in Nat
                         /\ Len(program.setup) < Len(Script(t))
    BY <1>1, ScriptFacts
  <1>3. CASE UNCHANGED exVars \/ Exited
    BY <1>3 DEF exVars, Exited, Types, ExTypeOK, Tasks, Script
  <1>4. CASE Signal \/ Exit \/ Advance
    <2>1. /\ UNCHANGED <<program, punctual, periods, at, round, register, sem, mem>>
          /\ stopped' \in BOOLEAN /\ main' \in {"starting", "pausing", "returning", "exited"}
      BY <1>1, <1>4 DEF Signal, Exit, Advance, WellFormed, Types, ExTypeOK
    <2>2. i' \in 0 .. Len(program.tasks)
      BY <1>1, <1>4 DEF Signal, Exit, Advance, WellFormed, Types, ExTypeOK
    <2>3. Tasks' = Tasks /\ \A u : Script(u)' = Script(u)
      BY <2>1 DEF Tasks, Script
    <2>4. QED
      BY <2>1, <2>2, <2>3 DEF Types, ExTypeOK
  <1>9. CASE Fill
    <2>1. UNCHANGED <<program, punctual, main, i, at, round, register, sem, mem, stopped>>
      BY <1>9 DEF Fill
    <2>2. periods' \in [Slots -> Int]
      <3>1. periods' = [periods EXCEPT ![i + 1] = i + 1] /\ i + 1 \in Int
        BY <1>1, <1>9 DEF Fill, Types, ExTypeOK, WellFormed
      <3>2. QED
        BY <3>1 DEF Types
    <2>3. Tasks' = Tasks /\ \A u : Script(u)' = Script(u)
      BY <2>1 DEF Tasks, Script
    <2>4. QED
      BY <2>1, <2>2, <2>3 DEF Types, ExTypeOK
  <1>5. CASE Start
    <2>1. i + 1 \in Tasks
      BY <1>1, <1>5 DEF Start, Types, ExTypeOK, Tasks, WellFormed
    <2>2. PICK place \in {Top, 1} : at' = [at EXCEPT ![i + 1] = place]
      BY <1>5 DEF Start
    <2>3. place \in Spot(i + 1) \cap Int
      BY <1>2, <2>1 DEF Spot, Top
    <2>4. QED
      BY <1>1, <1>5, <2>1, <2>2, <2>3, MoveKeepsTypes DEF Start, Types, ExTypeOK
  <1>6. ASSUME NEW t \in Tasks, Begin(t)
        PROVE  Types'
    <2>1. PICK place \in {Ended, Len(program.setup) + 1} : at' = [at EXCEPT ![t] = place]
      BY <1>6 DEF Begin
    <2>2. place \in Spot(t) \cap Int
      BY <1>2 DEF Spot, Ended
    <2>3. QED
      BY <1>1, <1>6, <2>1, <2>2, MoveKeepsTypes DEF Begin, Types, ExTypeOK
  <1>7. ASSUME NEW t \in Tasks,
               Take(t) \/ Give(t) \/ Read(t) \/ Write(t) \/ ReadArgument(t) \/ DoWork(t)
        PROVE  Types'
    <2> DEFINE place == IF at[t] = Len(Script(t)) \/ at[t] = Len(program.setup) THEN Top
                        ELSE at[t] + 1
    <2>1. at[t] > 0 /\ Step(t) /\ t \in Slots
      BY <1>1, <1>7 DEF Take, Give, Read, Write, ReadArgument, DoWork, Next_op, P, V, Load,
         Store, StoreNext, StorePrev, Input, Argument, Work
    <2>2. at[t] \in 1 .. Len(Script(t))
      <3>1. at[t] \in {Unborn, Top, Ended} \cup 1 .. Len(Script(t))
        BY <2>1 DEF Types, ExTypeOK
      <3>2. at[t] \notin {Unborn, Top, Ended}
        BY <2>1 DEF Unborn, Top, Ended
      <3>3. QED
        BY <3>1, <3>2
    <2>3. place \in Spot(t) \cap Int
      BY <1>2, <2>2 DEF Spot, Top
    <2>4. /\ UNCHANGED <<program, punctual, main, i, periods, stopped>>
          /\ at' = [at EXCEPT ![t] = place]
      BY <2>1 DEF Step
    <2>5. round' \in [Slots -> Nat]
      BY <2>1 DEF Step, Types
    <2>6. sem' \in [DOMAIN program.sem -> Nat]
      <3> sem \in [DOMAIN program.sem -> Nat]
        BY DEF Types
      <3>1. CASE Take(t)
        BY <3>1 DEF Take
      <3>2. CASE Give(t)
        BY <3>2 DEF Give
      <3>3. QED
        BY <1>7, <3>1, <3>2 DEF Read, Write, ReadArgument, DoWork
    <2>7. register' \in [Slots -> Int]
      <3> /\ register \in [Slots -> Int] /\ mem \in [Shared -> Int] /\ i \in Int
          /\ \A u \in Slots : periods[u] \in Int
        BY <1>1 DEF Types, ExTypeOK, WellFormed
      <3>1. CASE Read(t)
        BY <2>1, <3>1 DEF Read
      <3>2. CASE ReadArgument(t)
        BY <1>1, <2>1, <3>2 DEF ReadArgument, Anything, Tasks
      <3>3. QED
        BY <1>7, <3>1, <3>2 DEF Take, Give, Write, DoWork
    <2>8. mem' \in [Shared -> Int]
      <3> register[t] \in Int /\ round[t] \in Nat /\ mem \in [Shared -> Int]
        BY <1>1 DEF Types, ExTypeOK, WellFormed, Tasks
      <3>1. CASE Write(t)
        BY <3>1 DEF Write
      <3>2. QED
        BY <1>7, <3>1 DEF Take, Give, Read, ReadArgument, DoWork
    <2>9. main' \in {"starting", "pausing", "returning", "exited"}
          /\ i' \in 0 .. Len(program.tasks)
      BY <2>4 DEF Types, ExTypeOK
    <2>10. QED
      BY <1>1, <2>1, <2>3, <2>4, <2>5, <2>6, <2>7, <2>8, <2>9, MoveKeepsTypes
  <1>8. QED
    BY <1>3, <1>4, <1>5, <1>6, <1>7, <1>9 DEF ExNext, TaskStep

(***************************************************************************)
(* main and the tasks are at places they have, no semaphore goes below     *)
(* zero, in any program whose tasks do what there is to do.                *)
(***************************************************************************)
THEOREM ExercisesTypeCorrect ==
  ASSUME \A prog \in Programs : WellFormed(prog)
  PROVE  ExSpec => []ExTypeOK
  <1>1. ExInit => Types
    BY TypesStart
  <1>2. Types /\ [ExNext]_exVars => Types'
    BY TypesStep
  <1>3. Types => ExTypeOK
    BY DEF Types
  <1>4. QED
    BY <1>1, <1>2, <1>3, PTL DEF ExSpec

-----------------------------------------------------------------------------
(* What a task does at its place.                                          *)

Operates(t) ==
  Take(t) \/ Give(t) \/ Read(t) \/ Write(t) \/ ReadArgument(t) \/ DoWork(t)

(***************************************************************************)
(* The operation decides which action a task takes.                        *)
(***************************************************************************)
LEMMA OperationsAreDistinct ==
  \A x, y : /\ P(x) \notin {V(y), Load(y), Store(y), StoreNext(y), StorePrev(y), Input(y),
                             Argument, Work}
            /\ V(x) \notin {Load(y), Store(y), StoreNext(y), StorePrev(y), Input(y), Argument,
                             Work}
            /\ Load(x) \notin {Store(y), StoreNext(y), StorePrev(y), Input(y), Argument, Work}
            /\ Store(x) \notin {StoreNext(y), StorePrev(y), Input(y), Argument, Work}
            /\ StoreNext(x) \notin {StorePrev(y), Input(y), Argument, Work}
            /\ StorePrev(x) \notin {Input(y), Argument, Work}
            /\ Input(x) \notin {Argument, Work} /\ Argument # Work
            /\ (P(x) = P(y) => x = y) /\ (V(x) = V(y) => x = y)
            /\ (Load(x) = Load(y) => x = y) /\ (Store(x) = Store(y) => x = y)
            /\ (StoreNext(x) = StoreNext(y) => x = y) /\ (StorePrev(x) = StorePrev(y) => x = y)
            /\ (Input(x) = Input(y) => x = y)
  BY DEF P, V, Load, Store, StoreNext, StorePrev, Input, Argument, Work

LEMMA OperatesInScript ==
  ASSUME NEW t, Operates(t)
  PROVE  at[t] > 0 /\ Step(t) /\ Next_op(t) = Script(t)[at[t]] /\ Running
  BY DEF Operates, Take, Give, Read, Write, ReadArgument, DoWork, Next_op, P, V, Load,
     Store, StoreNext, StorePrev, Input, Argument, Work

LEMMA Effects ==
  ASSUME NEW t, Operates(t)
  PROVE  /\ \A s : Next_op(t) = P(s) =>
              /\ s \in DOMAIN sem /\ sem[s] > 0 /\ sem' = [sem EXCEPT ![s] = @ - 1]
              /\ UNCHANGED <<register, mem>>
         /\ \A s : Next_op(t) = V(s) =>
              s \in DOMAIN sem /\ sem' = [sem EXCEPT ![s] = @ + 1] /\ UNCHANGED <<register, mem>>
         /\ \A x : Next_op(t) = Load(x) =>
              /\ register' = [register EXCEPT ![t] = mem[x]]
              /\ x \in Shared /\ UNCHANGED <<sem, mem>>
         /\ \A x : Next_op(t) = Store(x) =>
              /\ mem' = [mem EXCEPT ![x] = register[t]]
              /\ x \in Shared /\ UNCHANGED <<sem, register>>
         /\ \A x : Next_op(t) = StoreNext(x) =>
              /\ mem' = [mem EXCEPT ![x] = register[t] + 1]
              /\ x \in Shared /\ UNCHANGED <<sem, register>>
         /\ \A x : Next_op(t) = StorePrev(x) =>
              /\ mem' = [mem EXCEPT ![x] = register[t] - 1]
              /\ x \in Shared /\ UNCHANGED <<sem, register>>
         /\ \A x : Next_op(t) = Input(x) =>
              /\ mem' = [mem EXCEPT ![x] = round[t] + 1]
              /\ x \in Shared /\ UNCHANGED <<sem, register>>
         /\ Next_op(t) = Argument => ReadArgument(t)
         /\ Next_op(t) = Work => UNCHANGED <<sem, register, mem>>
         /\ (\A s : Next_op(t) \notin {P(s), V(s)}) => UNCHANGED sem
         /\ (\A x : Next_op(t) \notin {Store(x), StoreNext(x), StorePrev(x), Input(x)})
              => UNCHANGED mem
         /\ (\A x : Next_op(t) # Load(x)) => Next_op(t) = Argument \/ UNCHANGED register
  <1>1. CASE Take(t)
    BY <1>1, OperationsAreDistinct DEF Take
  <1>2. CASE Give(t)
    BY <1>2, OperationsAreDistinct DEF Give
  <1>3. CASE Read(t)
    BY <1>3, OperationsAreDistinct DEF Read
  <1>4. CASE Write(t)
    BY <1>4, OperationsAreDistinct DEF Write
  <1>5. CASE ReadArgument(t)
    BY <1>5, OperationsAreDistinct DEF ReadArgument
  <1>6. CASE DoWork(t)
    BY <1>6, OperationsAreDistinct DEF DoWork
  <1>7. QED
    BY <1>1, <1>2, <1>3, <1>4, <1>5, <1>6 DEF Operates

(***************************************************************************)
(* Any step of a program: an operation of a task, or one that changes      *)
(* nothing of the memory and at most starts a task, ends it or begins its  *)
(* next turn.                                                              *)
(***************************************************************************)
Moves ==
  /\ UNCHANGED <<program, punctual, round, register, sem, mem>>
  /\ \A u \in Tasks :
       \/ at'[u] = at[u]
       \/ at[u] = Unborn /\ at'[u] = IF program.setup = <<>> THEN Top ELSE 1
       \/ at[u] = Top /\ at'[u] = Ended
       \/ at[u] = Top /\ at'[u] = Len(program.setup) + 1 /\ (punctual => KeptUp(u))

LEMMA AnyStep ==
  ASSUME \A prog \in Programs : WellFormed(prog), Types, [ExNext]_exVars
  PROVE  Moves \/ \E t \in Tasks : Operates(t)
  <1>1. /\ at \in [Slots -> Int] /\ Tasks \subseteq Slots /\ Len(program.tasks) \in Nat
        /\ WellFormed(program)
    BY DEF Types, ExTypeOK, WellFormed, Tasks
  <1>2. CASE UNCHANGED exVars \/ Exited \/ Fill \/ Signal \/ Exit \/ Advance
    <2>1. UNCHANGED <<program, punctual, at, round, register, sem, mem>>
      BY <1>2 DEF exVars, Exited, Fill, Signal, Exit, Advance
    <2>2. Moves
      BY <2>1 DEF Moves
    <2>3. QED
      BY <2>2
  <1>3. CASE Start
    <2>1. /\ at[i + 1] = Unborn /\ i + 1 \in Tasks
          /\ UNCHANGED <<program, punctual, round, register, sem, mem>>
      BY <1>1, <1>3 DEF Start, Types, ExTypeOK, Tasks
    <2> DEFINE place == IF program.setup = <<>> THEN Top ELSE 1
    <2>2. at' = [at EXCEPT ![i + 1] = place]
      BY <1>3 DEF Start
    <2>3. \A u \in Tasks : IF u = i + 1 THEN at'[u] = place ELSE at'[u] = at[u]
      BY <1>1, <2>1, <2>2
    <2>4. Moves
      BY <2>1, <2>2, <2>3 DEF Moves
    <2>5. QED
      BY <2>4
  <1>4. ASSUME NEW t \in Tasks, Begin(t)
        PROVE  Moves
    <2>1. PICK place \in {Ended, Len(program.setup) + 1} :
            /\ at' = [at EXCEPT ![t] = place]
            /\ place = Ended \/ (punctual => KeptUp(t))
      BY <1>4 DEF Begin
    <2> at[t] = Top /\ UNCHANGED <<program, punctual, round, register, sem, mem>>
      BY <1>4 DEF Begin
    <2>2. \A u \in Tasks : IF u = t THEN at'[u] = place ELSE at'[u] = at[u]
      BY <1>1, <2>1
    <2>3. QED
      BY <2>1, <2>2 DEF Moves
  <1>5. QED
    BY <1>2, <1>3, <1>4 DEF ExNext, TaskStep, Operates

(***************************************************************************)
(* Where an operation leaves its task.                                     *)
(***************************************************************************)
LEMMA OperationMoves ==
  ASSUME Types, WellFormed(program), NEW t \in Tasks, Operates(t)
  PROVE  /\ at[t] \in 1 .. Len(Script(t)) /\ Next_op(t) = Script(t)[at[t]]
         /\ UNCHANGED <<program, punctual, main, i, periods, stopped>>
         /\ \A u \in Tasks \ {t} : at'[u] = at[u] /\ round'[u] = round[u]
         /\ at'[t] = IF at[t] = Len(Script(t)) \/ at[t] = Len(program.setup) THEN 0
                     ELSE at[t] + 1
         /\ round'[t] = IF at[t] = Len(Script(t)) THEN round[t] + 1 ELSE round[t]
  <1>1. at[t] > 0 /\ Step(t) /\ Next_op(t) = Script(t)[at[t]]
    BY OperatesInScript
  <1>2. /\ at \in [Slots -> Int] /\ round \in [Slots -> Nat] /\ Tasks \subseteq Slots
    BY DEF Types, WellFormed, Tasks
  <1>3. at[t] \in 1 .. Len(Script(t))
    <2>1. at[t] \in {Unborn, Top, Ended} \cup 1 .. Len(Script(t))
      BY <1>2 DEF Types, ExTypeOK
    <2>2. QED
      BY <1>1, <2>1 DEF Unborn, Top, Ended
  <1>4. QED
    BY <1>1, <1>2, <1>3 DEF Step, Top

-----------------------------------------------------------------------------
(* Who holds a lock can go on.                                             *)

LEMMA TypesInvariant ==
  ASSUME \A prog \in Programs : WellFormed(prog)
  PROVE  ExSpec => []Types
  <1>1. ExInit => Types
    BY TypesStart
  <1>2. Types /\ [ExNext]_exVars => Types'
    BY TypesStep
  <1>3. QED
    BY <1>1, <1>2, PTL DEF ExSpec

(***************************************************************************)
(* Nobody inside a lock of an exercise waits for a semaphore, so who waits *)
(* for the lock (exLock of mars_rover.c, s of multitask.c) waits for a     *)
(* task that can go on: no circle of waiting tasks arises from a lock.     *)
(***************************************************************************)
THEOREM HoldersRun ==
  ASSUME \A prog \in Programs : WellFormed(prog) /\ Unnested(prog)
  PROVE  ExSpec => []HolderRuns
  <1>1. Types => HolderRuns
    <2>1. SUFFICES ASSUME Types, NEW u \in Tasks, NEW s \in DOMAIN sem, Inside(u, s),
                          NEW r \in DOMAIN sem, Next_op(u) = P(r)
                   PROVE  FALSE
      BY DEF HolderRuns, Blocked
    <2>2. WellFormed(program) /\ Unnested(program) /\ DOMAIN sem = DOMAIN program.sem
      BY <2>1 DEF Types, ExTypeOK
    <2>3. ScriptOf(program, u) = Script(u)
      BY <2>2, ScriptFacts
    <2>4. at[u] > 0 /\ Next_op(u) = Script(u)[at[u]]
      BY <2>1 DEF Inside, Next_op
    <2>5. at[u] \in 1 .. Len(Script(u))
      <3>1. at[u] \in {Unborn, Top, Ended} \cup 1 .. Len(Script(u))
        BY <2>1, <2>2 DEF Types, ExTypeOK, WellFormed, Tasks
      <3>2. QED
        BY <2>4, <3>1 DEF Unborn, Top, Ended
    <2>6. QED
      BY <2>1, <2>2, <2>3, <2>4, <2>5 DEF Unnested, Inside, Tasks
  <1>2. ExSpec => []Types
    BY TypesInvariant
  <1>3. QED
    BY <1>1, <1>2, PTL

-----------------------------------------------------------------------------
(* The stages implement the pipeline.                                      *)

(***************************************************************************)
(* A task has passed an operation of its body once more when it has done   *)
(* it, and starting, beginning or ending a turn passes nothing.            *)
(***************************************************************************)
LEMMA PassedByOperation ==
  ASSUME Types, WellFormed(program), NEW t \in Tasks, Operates(t),
         NEW u \in Tasks, NEW n \in 1 .. Len(program.body[u])
  PROVE  Passed(u, n)' = Passed(u, n) + IF u = t /\ at[t] = Len(program.setup) + n THEN 1 ELSE 0
  <1>1. /\ Len(program.setup) \in Nat /\ Len(Script(u)) = Len(program.setup) + Len(program.body[u])
        /\ Len(program.body[u]) \in Nat
    <2> DEFINE Ops == Operation(program)
    <2>1. program.setup \in Seq(Ops) /\ program.body[u] \in Seq(Ops)
      BY DEF WellFormed, Tasks
    <2> HIDE DEF Ops
    <2>2. QED
      BY <2>1 DEF Script
  <1>2. round[u] \in Nat /\ at[u] \in Int
    BY DEF Types, WellFormed, Tasks
  <1>3. program' = program
    BY OperationMoves
  <1>4. CASE u # t
    <2>1. at'[u] = at[u] /\ round'[u] = round[u]
      BY <1>4, OperationMoves
    <2>2. QED
      BY <1>2, <1>3, <1>4, <2>1 DEF Passed
  <1>5. CASE u = t
    <2>1. /\ at[t] \in 1 .. Len(Script(t))
          /\ at'[t] = IF at[t] = Len(Script(t)) \/ at[t] = Len(program.setup) THEN 0
                      ELSE at[t] + 1
          /\ round'[t] = IF at[t] = Len(Script(t)) THEN round[t] + 1 ELSE round[t]
      BY OperationMoves
    <2> DEFINE m == Len(program.setup)
               b == Len(program.body[t])
               last == Len(Script(t))
    <2>2. /\ m \in Nat /\ b \in Nat /\ last = m + b /\ n \in 1 .. b /\ at[t] \in 1 .. last
          /\ at'[t] = IF at[t] = last \/ at[t] = m THEN 0 ELSE at[t] + 1
          /\ round'[t] = IF at[t] = last THEN round[t] + 1 ELSE round[t]
          /\ round[t] \in Nat /\ at[t] \in Int
      BY <1>1, <1>2, <1>5, <2>1
    <2>3. Passed(t, n) = round[t] + (IF at[t] > m + n THEN 1 ELSE 0)
          /\ Passed(t, n)' = round'[t] + (IF at'[t] > m + n THEN 1 ELSE 0)
      BY <1>3 DEF Passed
    <2> HIDE DEF m, b, last
    <2>4. CASE at[t] = last
      BY <2>2, <2>3, <2>4, <1>5 DEF m
    <2>5. CASE at[t] # last /\ at[t] = m
      BY <2>2, <2>3, <2>5, <1>5 DEF m
    <2>6. CASE at[t] # last /\ at[t] # m
      BY <2>2, <2>3, <2>6, <1>5 DEF m
    <2>7. QED
      BY <2>4, <2>5, <2>6
  <1>6. QED
    BY <1>4, <1>5

LEMMA PassedByMove ==
  ASSUME Types, WellFormed(program), Moves,
         NEW u \in Tasks, NEW n \in Nat \ {0}
  PROVE  Passed(u, n)' = Passed(u, n)
  <1>1. Len(program.setup) \in Nat
    BY ScriptFacts
  <1>2. /\ program' = program /\ round' = round
        /\ \/ at'[u] = at[u]
           \/ at[u] \in {-1, 0} /\ at'[u] \in {0, -2, 1, Len(program.setup) + 1}
    BY DEF Moves, Unborn, Top, Ended
  <1>3. QED
    BY <1>1, <1>2 DEF Passed

\* Semaphore s counts the rounds carried and not yet taken over at place p.
Counts(s, from, to, p) ==
  sem[s] = Passed(from.task, from.op) - Passed(to.task, p)

\* Carries, with the place p where the next stage takes s.
CarriesAt(prog, s, from, to, p) ==
  \A t \in 1 .. Len(prog.tasks) : \A k \in 1 .. Len(ScriptOf(prog, t)) :
    /\ ScriptOf(prog, t)[k] = P(s) <=> t = to.task /\ k = Len(prog.setup) + p
    /\ ScriptOf(prog, t)[k] = V(s) <=> t = from.task /\ k = Len(prog.setup) + from.op

\* Each carrying semaphore holds what its stage has finished and the next one
\* has not taken.
ChainInv ==
  /\ Types
  /\ \A k \in 2 .. Len(program.stages) : \A s \in DOMAIN program.sem :
       \A p \in 1 .. program.stages[k].op :
         /\ program.sem[s] = 0
         /\ CarriesAt(program, s, program.stages[k - 1], program.stages[k], p)
         => Counts(s, program.stages[k - 1], program.stages[k], p)

(***************************************************************************)
(* The stages of a chained program are operations of its tasks.            *)
(***************************************************************************)
LEMMA StageFacts ==
  ASSUME WellFormed(program), Chained(program)
  PROVE  /\ Len(program.stages) \in Nat
         /\ \A k \in 1 .. Len(program.stages) :
              /\ program.stages[k].task \in Tasks
              /\ program.stages[k].op \in 1 .. Len(program.body[program.stages[k].task])
              /\ program.stages[k].op \in Nat \ {0}
              /\ program.stages[k] = [task |-> program.stages[k].task, op |-> program.stages[k].op]
         /\ \A t \in Tasks : Len(program.body[t]) \in Nat
  <1> DEFINE Stage == [task : 1 .. Len(program.tasks), op : Nat \ {0}]
  <1>1. program.stages \in Seq(Stage)
    BY DEF Chained
  <1>2. \A t \in Tasks : Len(program.body[t]) \in Nat
    <2> DEFINE Ops == Operation(program)
    <2>1. \A t \in Tasks : program.body[t] \in Seq(Ops)
      BY DEF WellFormed, Tasks
    <2> HIDE DEF Ops
    <2>2. QED
      BY <2>1
  <1>3. Len(program.stages) \in Nat /\ \A k \in 1 .. Len(program.stages) : program.stages[k] \in Stage
    <2> HIDE DEF Stage
    <2>1. QED
      BY <1>1
  <1>4. QED
    <2>1. SUFFICES ASSUME NEW k \in 1 .. Len(program.stages)
                   PROVE  /\ program.stages[k].task \in Tasks
                          /\ program.stages[k].op \in 1 .. Len(program.body[program.stages[k].task])
                          /\ program.stages[k].op \in Nat \ {0}
                          /\ program.stages[k] = [task |-> program.stages[k].task, op |-> program.stages[k].op]
      BY <1>2, <1>3
    <2>2. program.stages[k] \in Stage
      BY <1>3
    <2>3. program.stages[k].op <= Len(program.body[program.stages[k].task])
      BY DEF Chained
    <2>4. QED
      BY <1>2, <2>2, <2>3 DEF Tasks

LEMMA StagePair ==
  ASSUME WellFormed(program), Chained(program), NEW k \in 2 .. Len(program.stages),
         NEW p \in 1 .. program.stages[k].op
  PROVE  /\ program.stages[k - 1].task \in Tasks /\ program.stages[k].task \in Tasks
         /\ program.stages[k - 1].op \in 1 .. Len(program.body[program.stages[k - 1].task])
         /\ program.stages[k - 1].op \in Nat \ {0} /\ p \in Nat \ {0}
         /\ p \in 1 .. Len(program.body[program.stages[k].task])
  <1>1. Len(program.stages) \in Nat
    BY StageFacts
  <1>2. k \in 1 .. Len(program.stages) /\ k - 1 \in 1 .. Len(program.stages)
    BY <1>1
  <1>3. /\ program.stages[k].task \in Tasks
        /\ program.stages[k].op \in 1 .. Len(program.body[program.stages[k].task])
        /\ Len(program.body[program.stages[k].task]) \in Nat
    BY <1>2, StageFacts
  <1>4. /\ program.stages[k - 1].task \in Tasks
        /\ program.stages[k - 1].op \in 1 .. Len(program.body[program.stages[k - 1].task])
        /\ Len(program.body[program.stages[k - 1].task]) \in Nat
    BY <1>2, StageFacts
  <1>5. p \in 1 .. Len(program.body[program.stages[k].task]) /\ p \in Nat \ {0}
    BY <1>3
  <1>6. program.stages[k - 1].op \in Nat \ {0}
    BY <1>4
  <1>7. QED
    BY <1>3, <1>4, <1>5, <1>6

LEMMA ChainStarts ==
  ASSUME \A prog \in Programs : WellFormed(prog) /\ Chained(prog), ExInit
  PROVE  ChainInv /\ \A u \in Tasks : \A n \in Nat : Passed(u, n) = 0
  <1>1. Types
    BY TypesStart
  <1>2. WellFormed(program) /\ Chained(program) /\ sem = program.sem
    BY DEF ExInit
  <1>3. \A u \in Tasks : \A n \in Nat : Passed(u, n) = 0
    <2>1. SUFFICES ASSUME NEW u \in Tasks, NEW n \in Nat PROVE Passed(u, n) = 0
      OBVIOUS
    <2>2. round[u] = 0 /\ at[u] = -1 /\ Len(program.setup) \in Nat
      BY <1>2, ScriptFacts DEF ExInit, Unborn, WellFormed, Tasks
    <2>3. QED
      BY <2>2 DEF Passed
  <1>4. ASSUME NEW k \in 2 .. Len(program.stages), NEW s \in DOMAIN program.sem,
               NEW p \in 1 .. program.stages[k].op, program.sem[s] = 0
        PROVE  Counts(s, program.stages[k - 1], program.stages[k], p)
    <2>2. /\ program.stages[k - 1].op \in Nat /\ program.stages[k - 1].task \in Tasks
          /\ program.stages[k].task \in Tasks /\ p \in Nat
      BY <1>2, StagePair
    <2>3. Passed(program.stages[k - 1].task, program.stages[k - 1].op) = 0
          /\ Passed(program.stages[k].task, p) = 0
      BY <1>3, <2>2
    <2>4. QED
      BY <1>2, <1>4, <2>3 DEF Counts
  <1>5. QED
    BY <1>1, <1>3, <1>4 DEF ChainInv

LEMMA ChainSteps ==
  ASSUME \A prog \in Programs : WellFormed(prog) /\ Chained(prog), ChainInv, [ExNext]_exVars
  PROVE  ChainInv'
  <1>1. Types /\ Types' /\ WellFormed(program) /\ Chained(program)
    BY TypesStep DEF ChainInv, Types, ExTypeOK
  <1>2. Moves \/ \E t \in Tasks : Operates(t)
    BY <1>1, AnyStep
  <1>3. program' = program
    BY <1>1, <1>2, OperationMoves DEF Moves
  <1>4. ASSUME NEW k \in 2 .. Len(program.stages), NEW s \in DOMAIN program.sem,
               NEW p \in 1 .. program.stages[k].op, program.sem[s] = 0,
               CarriesAt(program, s, program.stages[k - 1], program.stages[k], p)
        PROVE  Counts(s, program.stages[k - 1], program.stages[k], p)'
    <2> DEFINE from == program.stages[k - 1]
               to == program.stages[k]
    <2>1. /\ from.task \in Tasks /\ from.op \in 1 .. Len(program.body[from.task])
          /\ to.task \in Tasks /\ p \in 1 .. Len(program.body[to.task])
          /\ from.op \in Nat \ {0} /\ p \in Nat \ {0}
          /\ from' = from /\ to' = to
      <3>1. /\ from.task \in Tasks /\ from.op \in 1 .. Len(program.body[from.task])
            /\ to.task \in Tasks /\ p \in 1 .. Len(program.body[to.task])
            /\ from.op \in Nat \ {0} /\ p \in Nat \ {0}
        BY <1>1, StagePair
      <3>2. from' = from /\ to' = to
        BY <1>3
      <3>3. QED
        BY <3>1, <3>2
    <2>2. Counts(s, from, to, p)
      BY <1>4 DEF ChainInv
    <2>3. CarriesAt(program, s, from, to, p)
      BY <1>4
    <2> HIDE DEF from, to
    <2>4. sem[s] = Passed(from.task, from.op) - Passed(to.task, p)
      BY <2>2 DEF Counts
    <2>5. /\ Passed(from.task, from.op) \in Int /\ Passed(to.task, p) \in Int
          /\ sem \in [DOMAIN program.sem -> Nat] /\ Len(program.setup) \in Nat
      <3>1. \A u \in Tasks : u \in Slots
        BY <1>1 DEF WellFormed, Tasks
      <3>2. \A u \in Tasks : round[u] \in Nat
        BY <1>1, <3>1 DEF Types
      <3>3. \A u \in Tasks, n \in Nat : Passed(u, n) \in Int
        BY <3>2 DEF Passed
      <3>4. Len(program.setup) \in Nat
        BY <1>1, <2>1, ScriptFacts
      <3>5. QED
        BY <1>1, <2>1, <3>3, <3>4 DEF Types
    <2>6. ASSUME Moves
          PROVE  Counts(s, from, to, p)'
      <3>1. Passed(from.task, from.op)' = Passed(from.task, from.op)
        BY <1>1, <2>1, <2>6, PassedByMove
      <3>2. Passed(to.task, p)' = Passed(to.task, p)
        BY <1>1, <2>1, <2>6, PassedByMove
      <3>3. sem' = sem
        BY <2>6 DEF Moves
      <3>4. QED
        BY <2>1, <2>4, <3>1, <3>2, <3>3 DEF Counts
    <2>7. ASSUME NEW t \in Tasks, Operates(t)
          PROVE  Counts(s, from, to, p)'
      <3> DEFINE given == t = from.task /\ at[t] = Len(program.setup) + from.op
                 taken == t = to.task /\ at[t] = Len(program.setup) + p
      <3>1. Passed(from.task, from.op)' = Passed(from.task, from.op) + IF given THEN 1 ELSE 0
        BY <1>1, <2>1, <2>7, PassedByOperation
      <3>2. Passed(to.task, p)' = Passed(to.task, p) + IF taken THEN 1 ELSE 0
        BY <1>1, <2>1, <2>7, PassedByOperation
      <3>3. (Next_op(t) = V(s) <=> given) /\ (Next_op(t) = P(s) <=> taken)
        <4>1. /\ at[t] \in 1 .. Len(Script(t)) /\ Next_op(t) = Script(t)[at[t]]
              /\ ScriptOf(program, t) = Script(t)
          BY <1>1, <2>7, OperationMoves, ScriptFacts
        <4>2. QED
          BY <2>3, <4>1 DEF CarriesAt, Tasks
      <3> HIDE DEF given, taken
      <3>4. sem'[s] = sem[s] + (IF given THEN 1 ELSE 0) - (IF taken THEN 1 ELSE 0)
        <4>1. ~ (given /\ taken)
          BY <3>3, OperationsAreDistinct
        <4>2. CASE given
          BY <2>5, <2>7, <3>3, <4>1, <4>2, Effects
        <4>3. CASE taken
          BY <2>5, <2>7, <3>3, <4>1, <4>3, Effects
        <4>4. CASE ~ given /\ ~ taken
          <5>1. CASE Take(t)
            BY <2>5, <3>3, <4>4, <5>1, OperationsAreDistinct DEF Take
          <5>2. CASE Give(t)
            BY <2>5, <3>3, <4>4, <5>2, OperationsAreDistinct DEF Give
          <5>3. CASE Read(t) \/ Write(t) \/ ReadArgument(t) \/ DoWork(t)
            <6>1. sem' = sem
              BY <5>3 DEF Read, Write, ReadArgument, DoWork
            <6>2. QED
              BY <2>5, <4>4, <6>1
          <5>4. QED
            BY <2>7, <5>1, <5>2, <5>3 DEF Operates
        <4>5. QED
          BY <4>2, <4>3, <4>4
      <3>5. QED
        BY <2>1, <2>4, <2>5, <3>1, <3>2, <3>4 DEF Counts
    <2>8. QED
      BY <1>2, <2>6, <2>7 DEF from, to
  <1>5. QED
    BY <1>1, <1>3, <1>4 DEF ChainInv, CarriesAt

(***************************************************************************)
(* A stage ends its next round only when the stage before it has ended the *)
(* same round: it has taken the semaphore that round was given with.       *)
(***************************************************************************)
LEMMA EarlierStageIsAhead ==
  ASSUME WellFormed(program), Chained(program), ChainInv,
         NEW k \in 2 .. Len(program.stages), Operates(program.stages[k].task),
         at[program.stages[k].task] = Len(program.setup) + program.stages[k].op
  PROVE  Passed(program.stages[k].task, program.stages[k].op)
           < Passed(program.stages[k - 1].task, program.stages[k - 1].op)
  <1> DEFINE from == program.stages[k - 1]
             to == program.stages[k]
             m == Len(program.setup)
             t == to.task
  <1>1. PICK s \in DOMAIN program.sem : Carries(program, s, from, to)
    BY DEF Chained
  <1>2. PICK p \in 1 .. to.op : CarriesAt(program, s, from, to, p)
    BY <1>1 DEF Carries, CarriesAt
  <1>3. program.sem[s] = 0
    BY <1>1 DEF Carries
  <1>4. sem[s] = Passed(from.task, from.op) - Passed(t, p)
    BY <1>2, <1>3 DEF ChainInv, Counts
  <1>5. /\ t \in Tasks /\ from.task \in Tasks /\ from.op \in Nat \ {0} /\ p \in Nat \ {0}
        /\ to.op \in Nat
    <2>1. k \in 1 .. Len(program.stages)
      BY StageFacts
    <2>2. to.op \in 1 .. Len(program.body[t]) /\ Len(program.body[t]) \in Nat
      BY <2>1, StageFacts
    <2>3. QED
      BY <2>2, StagePair
  <1>6. /\ t \in Slots /\ from.task \in Slots /\ round \in [Slots -> Nat]
        /\ sem \in [DOMAIN program.sem -> Nat] /\ m \in Nat
    BY <1>5, ScriptFacts DEF ChainInv, Types, WellFormed, Tasks
  <1>7. /\ Passed(from.task, from.op) \in Int
        /\ Passed(t, to.op) = round[t]
        /\ Passed(t, p) = round[t] + IF p < to.op THEN 1 ELSE 0
    <2>1. at[t] = m + to.op
      OBVIOUS
    <2>2. round[t] \in Nat /\ round[from.task] \in Nat
      BY <1>6
    <2> HIDE DEF m, from, to, t
    <2>3. Passed(from.task, from.op) \in Int
      BY <2>2 DEF Passed
    <2>4. Passed(t, to.op) = round[t] + IF at[t] > m + to.op THEN 1 ELSE 0
      BY DEF Passed, m
    <2>5. Passed(t, p) = round[t] + IF at[t] > m + p THEN 1 ELSE 0
      BY DEF Passed, m
    <2>6. QED
      BY <1>2, <1>5, <1>6, <2>1, <2>2, <2>3, <2>4, <2>5
  <1>8. p = to.op => sem[s] > 0
    <2>1. SUFFICES ASSUME p = to.op PROVE sem[s] > 0
      OBVIOUS
    <2>2. Next_op(t) = P(s)
      <3>1. /\ at[t] \in 1 .. Len(Script(t)) /\ Next_op(t) = Script(t)[at[t]]
            /\ ScriptOf(program, t) = Script(t)
        BY <1>5, OperationMoves, ScriptFacts DEF ChainInv
      <3>2. QED
        BY <1>2, <1>5, <2>1, <3>1 DEF CarriesAt, Tasks
    <2>3. QED
      BY <2>2, Effects
  <1> HIDE DEF from, to, m, t
  <1>9. sem[s] \in Nat /\ round[t] \in Nat
    BY <1>6
  <1>10. Passed(t, to.op) < Passed(from.task, from.op)
    BY <1>2, <1>4, <1>5, <1>7, <1>8, <1>9
  <1>11. QED
    BY <1>10 DEF from, to, t

(***************************************************************************)
(* What a step of a chained program does to the stages.                    *)
(***************************************************************************)
LEMMA StagesMove ==
  ASSUME \A prog \in Programs : WellFormed(prog) /\ Chained(prog), ChainInv, [ExNext]_exVars
  PROVE  [Pipe!PipelineNext]_done
  <1>1. Types /\ WellFormed(program) /\ Chained(program)
    BY DEF ChainInv, Types, ExTypeOK
  <1>2. Moves \/ \E t \in Tasks : Operates(t)
    BY <1>1, AnyStep
  <1>3. program' = program
    BY <1>1, <1>2, OperationMoves DEF Moves
  <1> DEFINE K == 1 .. Len(program.stages)
             task(k) == program.stages[k].task
             op(k) == program.stages[k].op
  <1>4. /\ Len(program.stages) \in Nat
        /\ \A k \in K : /\ task(k) \in Tasks /\ op(k) \in 1 .. Len(program.body[task(k)])
                        /\ op(k) \in Nat \ {0} /\ program.stages[k] = [task |-> task(k), op |-> op(k)]
    BY <1>1, StageFacts
  <1>5. done = [k \in K |-> Passed(task(k), op(k))]
    BY DEF done
  <1>6. done' = [k \in K |-> Passed(task(k), op(k))']
    BY <1>3 DEF done
  <1>7. CASE Moves
    <2>1. ASSUME NEW k \in K PROVE Passed(task(k), op(k))' = Passed(task(k), op(k))
      <3>1. task(k) \in Tasks /\ op(k) \in Nat \ {0} /\ task(k)' = task(k) /\ op(k)' = op(k)
        BY <1>3, <1>4
      <3> HIDE DEF task, op
      <3>2. \A u \in Tasks, n \in Nat \ {0} : Passed(u, n)' = Passed(u, n)
        BY <1>1, <1>7, PassedByMove
      <3>3. QED
        BY <3>1, <3>2
    <2>2. done' = done
      BY <1>5, <1>6, <2>1
    <2>3. QED
      BY <2>2
  <1>8. ASSUME NEW t \in Tasks, Operates(t)
        PROVE  [Pipe!PipelineNext]_done
    <2> DEFINE ends(k) == t = task(k) /\ at[t] = Len(program.setup) + op(k)
    <2>1. \A k \in K : Passed(task(k), op(k))' = Passed(task(k), op(k)) + IF ends(k) THEN 1 ELSE 0
      <3>1. SUFFICES ASSUME NEW k \in K
                     PROVE  Passed(task(k), op(k))' = Passed(task(k), op(k)) + IF ends(k) THEN 1 ELSE 0
        OBVIOUS
      <3>2. /\ task(k) \in Tasks /\ op(k) \in 1 .. Len(program.body[task(k)])
            /\ task(k)' = task(k) /\ op(k)' = op(k)
        BY <1>3, <1>4
      <3>3. \A u \in Tasks : \A n \in 1 .. Len(program.body[u]) :
              Passed(u, n)' = Passed(u, n) + IF u = t /\ at[t] = Len(program.setup) + n THEN 1 ELSE 0
        BY <1>1, <1>8, PassedByOperation
      <3> HIDE DEF task, op
      <3>4. QED
        BY <3>2, <3>3
    <2>2. \A k \in K : Passed(task(k), op(k)) \in Int
      <3>1. \A u \in Tasks : u \in Slots /\ round[u] \in Nat
        BY <1>1 DEF Types, WellFormed, Tasks
      <3>2. \A u \in Tasks, n \in Nat : Passed(u, n) \in Int
        BY <3>1 DEF Passed
      <3>3. QED
        BY <1>4, <3>2
    <2>3. CASE \A k \in K : ~ ends(k)
      <3>1. \A k \in K : Passed(task(k), op(k))' = Passed(task(k), op(k))
        BY <2>1, <2>2, <2>3
      <3>2. done' = done
        BY <1>5, <1>6, <3>1
      <3>3. QED
        BY <3>2
    <2>4. ASSUME NEW k \in K, ends(k)
          PROVE  Pipe!PipelineNext
      <3>1. \A l \in K : ends(l) => l = k
        <4>1. SUFFICES ASSUME NEW l \in K, ends(l) PROVE l = k
          OBVIOUS
        <4>2. Len(program.setup) \in Nat
          BY <1>1, ScriptFacts
        <4>3. task(l) = task(k) /\ op(l) = op(k)
          <5>1. op(l) \in Nat /\ op(k) \in Nat /\ ends(l) /\ ends(k)
            BY <1>4, <2>4, <4>1
          <5> HIDE DEF op, task
          <5>2. QED
            BY <4>2, <5>1
        <4>4. program.stages[l] = program.stages[k]
          BY <1>4, <4>3
        <4>5. QED
          BY <1>1, <4>4 DEF Chained
      <3>2. \A l \in K : Passed(task(l), op(l))' = IF l = k THEN Passed(task(k), op(k)) + 1
                                                   ELSE Passed(task(l), op(l))
        BY <2>1, <2>2, <2>4, <3>1
      <3>3. done' = [done EXCEPT ![k] = @ + 1]
        BY <1>5, <1>6, <3>2
      <3>4. k > 1 => done[k] < done[k - 1]
        <4>1. SUFFICES ASSUME k > 1 PROVE done[k] < done[k - 1]
          OBVIOUS
        <4>2. k \in 2 .. Len(program.stages) /\ k - 1 \in K
          BY <1>4, <4>1
        <4>3. Passed(task(k), op(k)) < Passed(task(k - 1), op(k - 1))
          BY <1>1, <1>8, <2>4, <4>2, EarlierStageIsAhead
        <4>4. QED
          BY <1>5, <4>2, <4>3
      <3>5. Pipe!Finish(k)
        BY <3>3, <3>4 DEF Pipe!Finish
      <3>6. k \in DOMAIN done
        BY <1>5
      <3>7. QED
        BY <3>5, <3>6 DEF Pipe!PipelineNext
    <2>5. QED
      BY <2>3, <2>4
  <1>9. QED
    BY <1>2, <1>7, <1>8

(***************************************************************************)
(* The rover and the PLC cycles implement the pipeline: the semaphores     *)
(* carry each round from one stage to the next, in order, however far the  *)
(* first stage runs ahead and whenever the program is stopped.             *)
(***************************************************************************)
THEOREM StagesImplementPipeline ==
  ASSUME \A prog \in Programs : WellFormed(prog) /\ Chained(prog)
  PROVE  ExSpec => StagesInOrder
  <1>1. ExInit => ChainInv /\ Pipe!PipelineInit
    <2>1. SUFFICES ASSUME ExInit PROVE ChainInv /\ Pipe!PipelineInit
      OBVIOUS
    <2>2. ChainInv /\ \A u \in Tasks : \A n \in Nat : Passed(u, n) = 0
      BY <2>1, ChainStarts
    <2>3. WellFormed(program) /\ Chained(program)
      BY <2>1 DEF ExInit
    <2>4. \A k \in 1 .. Len(program.stages) :
            program.stages[k].task \in Tasks /\ program.stages[k].op \in Nat
      BY <2>3, StageFacts
    <2>5. \A k \in DOMAIN done : done[k] = 0
      BY <2>2, <2>4 DEF done
    <2>6. QED
      BY <2>2, <2>5 DEF Pipe!PipelineInit
  <1>2. ChainInv /\ [ExNext]_exVars => ChainInv'
    BY ChainSteps
  <1>3. ChainInv /\ [ExNext]_exVars => [Pipe!PipelineNext]_done
    BY StagesMove
  <1>4. QED
    BY <1>1, <1>2, <1>3, PTL DEF ExSpec, StagesInOrder, Pipe!Spec

-----------------------------------------------------------------------------
(* Parameters.                                                             *)

\* main fills the place of a task before it starts it, and then leaves it.
Filled ==
  \A t \in Tasks : periods[t] \in {0, t} /\ (at[t] # Unborn => periods[t] = t)

\* main does not return, and a task that has read its argument still has it.
PrivateInv ==
  /\ Types
  /\ \A k \in 1 .. Len(program.setup) :
       program.row /\ program.setup[k] = Argument =>
         /\ main # "returning"
         /\ Filled
         /\ \A t \in Tasks : at[t] \notin {Unborn} \cup 1 .. k => register[t] = t

LEMMA NeverReturns ==
  ASSUME program.pauses, ~ program.handler, Len(program.tasks) \in Nat, main # "returning",
         [ExNext]_exVars
  PROVE  main' # "returning"
  <1>1. CASE UNCHANGED exVars \/ Exited
    BY <1>1 DEF exVars, Exited
  <1>2. CASE Fill \/ Start \/ Advance \/ Signal \/ Exit
    BY <1>2 DEF Fill, Start, Advance, Signal, Exit
  <1>3. ASSUME NEW t \in Tasks, TaskStep(t)
        PROVE  main' # "returning"
    BY <1>3 DEF TaskStep, Begin, Take, Give, Read, Write, ReadArgument, DoWork, Step
  <1>4. QED
    BY <1>1, <1>2, <1>3 DEF ExNext

LEMMA FilledSteps ==
  ASSUME \A prog \in Programs : WellFormed(prog), Types, Passes, Filled, [ExNext]_exVars
  PROVE  Filled'
  <1>1. /\ WellFormed(program) /\ Tasks \subseteq Slots /\ at \in [Slots -> Int]
        /\ periods \in [Slots -> Int]
    BY DEF Types, ExTypeOK, WellFormed, Tasks
  <1>2. Tasks' = Tasks
    <2>1. Moves \/ \E t \in Tasks : Operates(t)
      BY AnyStep
    <2>2. program' = program
      BY <1>1, <2>1, OperationMoves DEF Moves
    <2>3. QED
      BY <2>2 DEF Tasks
  <1>3. ASSUME periods' = periods, \A t \in Tasks : at'[t] # Unborn => at[t] # Unborn
        PROVE  Filled'
    BY <1>2, <1>3 DEF Filled
  <1>4. (Fill \/ Start) => i + 1 \in Tasks
    BY <1>1 DEF Fill, Start, Types, ExTypeOK, WellFormed, Tasks
  <1>5. CASE Fill
    <2>1. /\ at' = at /\ at[i + 1] = Unborn
          /\ \A t \in Tasks : periods'[t] = IF t = i + 1 THEN t ELSE periods[t]
      BY <1>1, <1>4, <1>5 DEF Fill
    <2>2. QED
      BY <1>2, <2>1 DEF Filled
  <1>6. CASE Start
    <2>1. /\ periods' = periods /\ periods[i + 1] = i + 1
          /\ \A t \in Tasks : t # i + 1 => at'[t] = at[t]
      BY <1>1, <1>4, <1>6 DEF Start, Filled
    <2>2. QED
      BY <1>2, <2>1 DEF Filled
  <1>7. CASE Advance \/ Signal \/ Exit \/ Exited \/ UNCHANGED exVars
    <2>1. periods' = periods /\ at' = at
      BY <1>7 DEF Advance, Signal, Exit, Exited, exVars
    <2>2. QED
      BY <1>3, <2>1
  <1>8. ASSUME NEW u \in Tasks, TaskStep(u)
        PROVE  Filled'
    <2>1. CASE Begin(u)
      <3>1. periods' = periods /\ at[u] = Top /\ \A t \in Tasks \ {u} : at'[t] = at[t]
        BY <1>1, <2>1 DEF Begin
      <3>2. QED
        BY <1>3, <3>1 DEF Top, Unborn
    <2>2. CASE Operates(u)
      <3>1. /\ periods' = periods /\ at[u] \in 1 .. Len(Script(u))
            /\ \A t \in Tasks \ {u} : at'[t] = at[t]
        BY <1>1, <2>2, OperationMoves
      <3>2. QED
        BY <1>3, <3>1 DEF Unborn
    <2>3. QED
      BY <1>8, <2>1, <2>2 DEF TaskStep, Operates
  <1>9. QED
    BY <1>5, <1>6, <1>7, <1>8 DEF ExNext

LEMMA PrivateSteps ==
  ASSUME \A prog \in Programs : WellFormed(prog) /\ Private(prog), PrivateInv, [ExNext]_exVars
  PROVE  PrivateInv'
  <1>1. Types /\ Types' /\ WellFormed(program) /\ Private(program)
    BY TypesStep DEF PrivateInv, Types, ExTypeOK
  <1>2. Moves \/ \E t \in Tasks : Operates(t)
    BY <1>1, AnyStep
  <1>3. program' = program
    BY <1>1, <1>2, OperationMoves DEF Moves
  <1>4. ASSUME NEW k \in 1 .. Len(program.setup), program.row, program.setup[k] = Argument
        PROVE  /\ main' # "returning" /\ Filled'
               /\ \A t \in Tasks : at'[t] \notin {Unborn} \cup 1 .. k => register'[t] = t
    <2>1. /\ program.pauses /\ ~ program.handler
          /\ \A t \in Tasks, x \in Shared : ~ Mentions(program, t, Load(x))
      BY <1>1, <1>4 DEF Private, Tasks
    <2>2. /\ main # "returning" /\ Filled
          /\ \A t \in Tasks : at[t] \notin {Unborn} \cup 1 .. k => register[t] = t
      BY <1>4 DEF PrivateInv
    <2>3. main' # "returning"
      BY <1>1, <2>1, <2>2, NeverReturns DEF WellFormed
    <2>4. program.setup # <<>> /\ Len(program.setup) \in Nat
      <3> DEFINE Ops == Operation(program)
      <3>1. program.setup \in Seq(Ops)
        BY <1>1 DEF WellFormed
      <3> HIDE DEF Ops
      <3>2. QED
        BY <1>4, <3>1
    <2>8. Filled'
      <3>1. k \in DOMAIN program.setup
        <4> DEFINE Ops == Operation(program)
        <4>1. program.setup \in Seq(Ops)
          BY <1>1 DEF WellFormed
        <4> HIDE DEF Ops
        <4>2. QED
          BY <4>1
      <3>2. Passes
        BY <1>4, <3>1 DEF Passes
      <3>3. QED
        BY <1>1, <2>2, <3>2, FilledSteps
    <2>5. ASSUME Moves, NEW t \in Tasks, at'[t] \notin {Unborn} \cup 1 .. k
          PROVE  register'[t] = t
      <3>1. register' = register
        BY <2>5 DEF Moves
      <3>2. at[t] \notin {Unborn} \cup 1 .. k
        BY <2>4, <2>5 DEF Moves, Unborn, Top
      <3>3. QED
        BY <2>2, <3>1, <3>2
    <2>6. ASSUME NEW u \in Tasks, Operates(u), NEW t \in Tasks, at'[t] \notin {Unborn} \cup 1 .. k
          PROVE  register'[t] = t
      <3>1. /\ at[u] \in 1 .. Len(Script(u)) /\ Next_op(u) = Script(u)[at[u]]
            /\ \A v \in Tasks \ {u} : at'[v] = at[v]
            /\ at'[u] = IF at[u] = Len(Script(u)) \/ at[u] = Len(program.setup) THEN 0
                        ELSE at[u] + 1
        BY <1>1, <2>6, OperationMoves
      <3>2. ScriptOf(program, u) = Script(u) /\ Len(program.setup) < Len(Script(u))
            /\ Len(Script(u)) \in Nat
        BY <1>1, ScriptFacts
      <3>3. \A x \in Shared : Next_op(u) # Load(x)
        BY <2>1, <3>1, <3>2 DEF Mentions
      <3>4. \A x : Next_op(u) # Load(x)
        BY <2>6, <3>3, Effects
      <3>5. register \in [Slots -> Int] /\ Tasks \subseteq Slots /\ at \in [Slots -> Int]
        BY <1>1 DEF Types, WellFormed, Tasks
      <3>6. CASE Next_op(u) = Argument
        <4>1. register' = [register EXCEPT ![u] = u]
          <5>1. periods[u] = u
            BY <2>2, <3>1 DEF Filled, Unborn
          <5>2. QED
            BY <1>4, <2>2, <2>6, <3>6, <5>1, Effects DEF ReadArgument
        <4>2. CASE t = u
          BY <3>5, <4>1, <4>2
        <4>3. CASE t # u
          BY <2>2, <2>6, <3>1, <3>5, <4>1, <4>3
        <4>4. QED
          BY <4>2, <4>3
      <3>7. CASE Next_op(u) # Argument
        <4>1. register' = register
          BY <2>6, <3>4, <3>7, Effects
        <4>2. at[t] \notin {Unborn} \cup 1 .. k
          <5>1. CASE t # u
            BY <2>6, <3>1, <5>1
          <5>2. CASE t = u
            <6>1. at[u] # k
              <7>1. at[u] = k => Script(u)[at[u]] = program.setup[k]
                <8> DEFINE Ops == Operation(program)
                <8>1. program.setup \in Seq(Ops) /\ program.body[u] \in Seq(Ops)
                  BY <1>1 DEF WellFormed, Tasks
                <8> HIDE DEF Ops
                <8> DEFINE first == program.setup
                           second == program.body[u]
                <8>2. first \in Seq(Ops) /\ second \in Seq(Ops) /\ k \in 1 .. Len(first)
                  BY <8>1
                <8> HIDE DEF first, second
                <8>3. (first \o second)[k] = first[k]
                  BY <8>2
                <8>4. QED
                  BY <8>3 DEF Script, first, second
              <7>2. QED
                BY <1>4, <3>1, <3>7, <7>1
            <6>2. QED
              BY <2>4, <2>6, <3>1, <3>2, <5>2, <6>1 DEF Unborn
          <5>3. QED
            BY <5>1, <5>2
        <4>3. QED
          BY <2>2, <4>1, <4>2
      <3>8. QED
        BY <3>6, <3>7
    <2>7. QED
      BY <1>2, <2>3, <2>5, <2>6, <2>8
  <1>5. Tasks' = Tasks
    BY <1>3 DEF Tasks
  <1>6. QED
    BY <1>1, <1>3, <1>4, <1>5 DEF PrivateInv

(***************************************************************************)
(* A task that main started with a pointer of its own (periods[i] of       *)
(* multitask.c) gets what main wrote there for it, however late it runs:   *)
(* main writes before it starts the task and no other task writes there,   *)
(* and main is still there when the task reads.                            *)
(***************************************************************************)
THEOREM ParametersAreOwn ==
  ASSUME \A prog \in Programs : WellFormed(prog) /\ Private(prog)
  PROVE  ExSpec => []OwnParameters
  <1>1. ExInit => PrivateInv
    <2>1. SUFFICES ASSUME ExInit PROVE PrivateInv
      OBVIOUS
    <2>2. Types /\ WellFormed(program)
      BY <2>1, TypesStart DEF ExInit
    <2>3. \A t \in Tasks : at[t] = Unborn /\ periods[t] = 0
      BY <2>1, <2>2 DEF ExInit, WellFormed, Tasks
    <2>4. main # "returning"
      BY <2>1 DEF ExInit
    <2>5. QED
      BY <2>2, <2>3, <2>4 DEF PrivateInv, Filled
  <1>2. PrivateInv /\ [ExNext]_exVars => PrivateInv'
    BY PrivateSteps
  <1>3. PrivateInv => OwnParameters
    <2>1. SUFFICES ASSUME PrivateInv, NEW t \in Tasks, program.row,
                          NEW k \in DOMAIN program.setup, program.setup[k] = Argument,
                          at[t] \notin {Unborn} \cup 1 .. Len(program.setup)
                   PROVE  register[t] = t
      BY DEF OwnParameters, Passes
    <2>2. DOMAIN program.setup = 1 .. Len(program.setup) /\ Len(program.setup) \in Nat
      <3> DEFINE Ops == Operation(program)
      <3>1. program.setup \in Seq(Ops)
        BY <2>1 DEF PrivateInv, Types, ExTypeOK, WellFormed
      <3> HIDE DEF Ops
      <3>2. QED
        BY <3>1
    <2>3. QED
      BY <2>1, <2>2 DEF PrivateInv
  <1>4. QED
    BY <1>1, <1>2, <1>3, PTL DEF ExSpec

-----------------------------------------------------------------------------
(* The two tasks of semaphore.c.                                           *)

LEMMA SemaphoreFacts ==
  ASSUME program = semaphore
  PROVE  /\ Tasks = {1, 2} /\ program.setup = <<>> /\ Len(program.setup) = 0
         /\ Script(1) = taskOne /\ Script(2) = taskTwo
         /\ program.body[1] = taskOne /\ program.body[2] = taskTwo
         /\ Len(taskOne) = 4 /\ Len(taskTwo) = 4
         /\ program.sem = [semGlobal1 |-> 1, semGlobal2 |-> 0]
  <1>1. /\ Len(program.tasks) = 2 /\ program.setup = <<>>
        /\ program.body = <<taskOne, taskTwo>>
        /\ program.sem = [semGlobal1 |-> 1, semGlobal2 |-> 0]
    BY DEF semaphore, Nothing
  <1>2. Tasks = {1, 2}
    BY <1>1 DEF Tasks
  <1>3. Len(taskOne) = 4 /\ Len(taskTwo) = 4
    BY DEF taskOne, taskTwo
  <1>4. Script(1) = taskOne /\ Script(2) = taskTwo
    BY <1>1 DEF Script, taskOne, taskTwo
  <1>5. QED
    BY <1>1, <1>2, <1>3, <1>4

\* Whose turn it is, and what global is then.
TurnState ==
  LET one == at[1] \in 2 .. 4
      two == at[2] \in 2 .. 4
      global == mem["global"]
  IN  \/ /\ sem["semGlobal1"] = 1 /\ sem["semGlobal2"] = 0 /\ ~ one /\ ~ two
         /\ global = 0
      \/ /\ sem["semGlobal1"] = 0 /\ sem["semGlobal2"] = 1 /\ ~ one /\ ~ two
         /\ global = 1
      \/ /\ sem["semGlobal1"] = 0 /\ sem["semGlobal2"] = 0 /\ one /\ ~ two
         /\ global = (IF at[1] = 4 THEN 1 ELSE 0) /\ (at[1] = 3 => register[1] = 0)
      \/ /\ sem["semGlobal1"] = 0 /\ sem["semGlobal2"] = 0 /\ ~ one /\ two
         /\ global = (IF at[2] = 4 THEN 0 ELSE 1) /\ (at[2] = 3 => register[2] = 1)

TurnInv ==
  /\ Types
  /\ program = semaphore => TurnState /\ mem["global"] = Passed(1, 3) - Passed(2, 3)

LEMMA TurnOperation ==
  ASSUME Types, WellFormed(program), program = semaphore, TurnState,
         mem["global"] = Passed(1, 3) - Passed(2, 3), NEW t \in Tasks, Operates(t)
  PROVE  TurnState' /\ mem'["global"] = Passed(1, 3)' - Passed(2, 3)'
  <1>1. /\ sem \in [{"semGlobal1", "semGlobal2"} -> Nat] /\ 1 \in Slots /\ 2 \in Slots
        /\ register \in [Slots -> Int] /\ at \in [Slots -> Int] /\ round \in [Slots -> Nat]
        /\ mem \in [Shared -> Int] /\ "global" \in Shared
    BY SemaphoreFacts DEF Types, ExTypeOK, WellFormed, Tasks, Shared
  <1>8. /\ 1 \in Tasks /\ 2 \in Tasks /\ Len(program.setup) = 0
        /\ 3 \in 1 .. Len(program.body[1]) /\ 3 \in 1 .. Len(program.body[2])
    <2>1. 1 \in Tasks /\ 2 \in Tasks
      BY SemaphoreFacts
    <2>2. Len(program.setup) = 0 /\ Len(program.body[1]) = 4 /\ Len(program.body[2]) = 4
      BY SemaphoreFacts
    <2>3. QED
      BY <2>1, <2>2
  <1>4. Passed(1, 3) \in Int /\ Passed(2, 3) \in Int
    BY <1>1 DEF Passed
  <1>2. Passed(1, 3)' = Passed(1, 3) + IF t = 1 /\ at[1] = 3 THEN 1 ELSE 0
    <2>1. \A u \in Tasks : \A n \in 1 .. Len(program.body[u]) :
            Passed(u, n)' = Passed(u, n) + IF u = t /\ at[t] = Len(program.setup) + n THEN 1 ELSE 0
      BY PassedByOperation
    <2>2. QED
      BY <1>1, <1>4, <1>8, <2>1
  <1>3. Passed(2, 3)' = Passed(2, 3) + IF t = 2 /\ at[2] = 3 THEN 1 ELSE 0
    <2>1. \A u \in Tasks : \A n \in 1 .. Len(program.body[u]) :
            Passed(u, n)' = Passed(u, n) + IF u = t /\ at[t] = Len(program.setup) + n THEN 1 ELSE 0
      BY PassedByOperation
    <2>2. QED
      BY <1>1, <1>4, <1>8, <2>1
  <1>5. CASE t = 1
    <2>1. /\ at[1] \in 1 .. 4 /\ Next_op(1) = taskOne[at[1]] /\ at'[2] = at[2]
          /\ at'[1] = IF at[1] = 4 THEN 0 ELSE at[1] + 1
      <3>1. Script(t) = taskOne /\ Len(taskOne) = 4
        BY <1>5, SemaphoreFacts
      <3>2. /\ at[t] \in 1 .. Len(Script(t)) /\ Next_op(t) = Script(t)[at[t]]
            /\ \A u \in Tasks \ {t} : at'[u] = at[u]
            /\ at'[t] = IF at[t] = Len(Script(t)) \/ at[t] = Len(program.setup) THEN 0
                        ELSE at[t] + 1
        BY OperationMoves
      <3>3. at[1] \in 1 .. 4
        BY <1>5, <1>8, <3>1, <3>2
      <3>4. Next_op(1) = taskOne[at[1]]
        BY <1>5, <1>8, <3>1, <3>2
      <3>5. at'[2] = at[2]
        BY <1>5, <1>8, <3>1, <3>2
      <3>6. at'[1] = IF at[1] = 4 THEN 0 ELSE at[1] + 1
        <4>1. at[t] # 0
          BY <1>5, <3>3
        <4>2. Len(Script(t)) = 4 /\ Len(program.setup) = 0
          BY <1>8, <3>1
        <4>3. at'[t] = IF at[t] = 4 \/ at[t] = 0 THEN 0 ELSE at[t] + 1
          BY <3>2, <4>2
        <4>4. at'[t] = IF at[t] = 4 THEN 0 ELSE at[t] + 1
          BY <4>1, <4>3
        <4>5. QED
          BY <1>5, <4>4
      <3>7. QED
        BY <3>3, <3>4, <3>5, <3>6
    <2>2. CASE at[1] = 1
      <3>1. Next_op(1) = P("semGlobal1")
        BY <2>1, <2>2 DEF taskOne
      <3>2. /\ sem["semGlobal1"] > 0 /\ sem' = [sem EXCEPT !["semGlobal1"] = @ - 1]
            /\ UNCHANGED <<register, mem>>
        BY <1>5, <3>1, Effects
      <3>3. QED
        <4>1. /\ at'[1] = 2 /\ at'[2] = at[2] /\ register' = register /\ mem' = mem
              /\ sem["semGlobal1"] > 0 /\ sem'["semGlobal1"] = sem["semGlobal1"] - 1
              /\ sem'["semGlobal2"] = sem["semGlobal2"]
          BY <1>1, <2>1, <2>2, <3>2
        <4>2. Passed(1, 3)' = Passed(1, 3) /\ Passed(2, 3)' = Passed(2, 3)
          BY <1>2, <1>3, <1>4, <1>5, <2>2
        <4>3. TurnState'
          BY <2>1, <2>2, <4>1 DEF TurnState
        <4>4. QED
          BY <1>4, <4>1, <4>2, <4>3
    <2>3. CASE at[1] = 2
      <3>1. Next_op(1) = Load("global")
        BY <2>1, <2>3 DEF taskOne
      <3>2. register' = [register EXCEPT ![1] = mem["global"]] /\ UNCHANGED <<sem, mem>>
        BY <1>5, <3>1, Effects
      <3>3. QED
        <4>1. /\ at'[1] = 3 /\ at'[2] = at[2] /\ sem' = sem /\ mem' = mem
              /\ register'[1] = mem["global"] /\ register'[2] = register[2]
          BY <1>1, <2>1, <2>3, <3>2
        <4>2. Passed(1, 3)' = Passed(1, 3) /\ Passed(2, 3)' = Passed(2, 3)
          BY <1>2, <1>3, <1>4, <1>5, <2>3
        <4>3. TurnState'
          BY <2>1, <2>3, <4>1 DEF TurnState
        <4>4. QED
          BY <1>4, <4>1, <4>2, <4>3
    <2>4. CASE at[1] = 3
      <3>1. Next_op(1) = StoreNext("global")
        BY <2>1, <2>4 DEF taskOne
      <3>2. mem' = [mem EXCEPT !["global"] = register[1] + 1] /\ UNCHANGED <<sem, register>>
        BY <1>5, <3>1, Effects
      <3>3. QED
        <4>1. /\ at'[1] = 4 /\ at'[2] = at[2] /\ sem' = sem /\ register' = register
              /\ mem'["global"] = register[1] + 1
          BY <1>1, <2>1, <2>4, <3>2
        <4>2. Passed(1, 3)' = Passed(1, 3) + 1 /\ Passed(2, 3)' = Passed(2, 3)
          BY <1>2, <1>3, <1>4, <1>5, <2>4
        <4>3. TurnState'
          BY <2>1, <2>4, <4>1 DEF TurnState
        <4>4. QED
          BY <1>1, <1>4, <2>1, <2>4, <4>1, <4>2, <4>3 DEF TurnState
    <2>5. CASE at[1] = 4
      <3>1. Next_op(1) = V("semGlobal2")
        BY <2>1, <2>5 DEF taskOne
      <3>2. sem' = [sem EXCEPT !["semGlobal2"] = @ + 1] /\ UNCHANGED <<register, mem>>
        BY <1>5, <3>1, Effects
      <3>3. QED
        <4>1. /\ at'[1] = 0 /\ at'[2] = at[2] /\ register' = register /\ mem' = mem
              /\ sem'["semGlobal2"] = sem["semGlobal2"] + 1 /\ sem'["semGlobal1"] = sem["semGlobal1"]
          BY <1>1, <2>1, <2>5, <3>2
        <4>2. Passed(1, 3)' = Passed(1, 3) /\ Passed(2, 3)' = Passed(2, 3)
          BY <1>2, <1>3, <1>4, <1>5, <2>5
        <4>3. TurnState'
          BY <2>1, <2>5, <4>1 DEF TurnState
        <4>4. QED
          BY <1>4, <4>1, <4>2, <4>3
    <2>6. QED
      BY <2>1, <2>2, <2>3, <2>4, <2>5
  <1>6. CASE t = 2
    <2>1. /\ at[2] \in 1 .. 4 /\ Next_op(2) = taskTwo[at[2]] /\ at'[1] = at[1]
          /\ at'[2] = IF at[2] = 4 THEN 0 ELSE at[2] + 1
      <3>1. Script(t) = taskTwo /\ Len(taskTwo) = 4
        BY <1>6, SemaphoreFacts
      <3>2. /\ at[t] \in 1 .. Len(Script(t)) /\ Next_op(t) = Script(t)[at[t]]
            /\ \A u \in Tasks \ {t} : at'[u] = at[u]
            /\ at'[t] = IF at[t] = Len(Script(t)) \/ at[t] = Len(program.setup) THEN 0
                        ELSE at[t] + 1
        BY OperationMoves
      <3>3. at[2] \in 1 .. 4
        BY <1>6, <1>8, <3>1, <3>2
      <3>4. Next_op(2) = taskTwo[at[2]]
        BY <1>6, <1>8, <3>1, <3>2
      <3>5. at'[1] = at[1]
        BY <1>6, <1>8, <3>1, <3>2
      <3>6. at'[2] = IF at[2] = 4 THEN 0 ELSE at[2] + 1
        <4>1. at[t] # 0
          BY <1>6, <3>3
        <4>2. Len(Script(t)) = 4 /\ Len(program.setup) = 0
          BY <1>8, <3>1
        <4>3. at'[t] = IF at[t] = 4 \/ at[t] = 0 THEN 0 ELSE at[t] + 1
          BY <3>2, <4>2
        <4>4. at'[t] = IF at[t] = 4 THEN 0 ELSE at[t] + 1
          BY <4>1, <4>3
        <4>5. QED
          BY <1>6, <4>4
      <3>7. QED
        BY <3>3, <3>4, <3>5, <3>6
    <2>2. CASE at[2] = 1
      <3>1. Next_op(2) = P("semGlobal2")
        BY <2>1, <2>2 DEF taskTwo
      <3>2. /\ sem["semGlobal2"] > 0 /\ sem' = [sem EXCEPT !["semGlobal2"] = @ - 1]
            /\ UNCHANGED <<register, mem>>
        BY <1>6, <3>1, Effects
      <3>3. QED
        <4>1. /\ at'[2] = 2 /\ at'[1] = at[1] /\ register' = register /\ mem' = mem
              /\ sem["semGlobal2"] > 0 /\ sem'["semGlobal2"] = sem["semGlobal2"] - 1
              /\ sem'["semGlobal1"] = sem["semGlobal1"]
          BY <1>1, <2>1, <2>2, <3>2
        <4>2. Passed(1, 3)' = Passed(1, 3) /\ Passed(2, 3)' = Passed(2, 3)
          BY <1>2, <1>3, <1>4, <1>6, <2>2
        <4>3. TurnState'
          BY <2>1, <2>2, <4>1 DEF TurnState
        <4>4. QED
          BY <1>4, <4>1, <4>2, <4>3
    <2>3. CASE at[2] = 2
      <3>1. Next_op(2) = Load("global")
        BY <2>1, <2>3 DEF taskTwo
      <3>2. register' = [register EXCEPT ![2] = mem["global"]] /\ UNCHANGED <<sem, mem>>
        BY <1>6, <3>1, Effects
      <3>3. QED
        <4>1. /\ at'[2] = 3 /\ at'[1] = at[1] /\ sem' = sem /\ mem' = mem
              /\ register'[2] = mem["global"] /\ register'[1] = register[1]
          BY <1>1, <2>1, <2>3, <3>2
        <4>2. Passed(1, 3)' = Passed(1, 3) /\ Passed(2, 3)' = Passed(2, 3)
          BY <1>2, <1>3, <1>4, <1>6, <2>3
        <4>3. TurnState'
          BY <2>1, <2>3, <4>1 DEF TurnState
        <4>4. QED
          BY <1>4, <4>1, <4>2, <4>3
    <2>4. CASE at[2] = 3
      <3>1. Next_op(2) = StorePrev("global")
        BY <2>1, <2>4 DEF taskTwo
      <3>2. mem' = [mem EXCEPT !["global"] = register[2] - 1] /\ UNCHANGED <<sem, register>>
        BY <1>6, <3>1, Effects
      <3>3. QED
        <4>1. /\ at'[2] = 4 /\ at'[1] = at[1] /\ sem' = sem /\ register' = register
              /\ mem'["global"] = register[2] - 1
          BY <1>1, <2>1, <2>4, <3>2
        <4>2. Passed(1, 3)' = Passed(1, 3) /\ Passed(2, 3)' = Passed(2, 3) + 1
          BY <1>2, <1>3, <1>4, <1>6, <2>4
        <4>3. TurnState'
          BY <2>1, <2>4, <4>1 DEF TurnState
        <4>4. QED
          BY <1>1, <1>4, <2>1, <2>4, <4>1, <4>2, <4>3 DEF TurnState
    <2>5. CASE at[2] = 4
      <3>1. Next_op(2) = V("semGlobal1")
        BY <2>1, <2>5 DEF taskTwo
      <3>2. sem' = [sem EXCEPT !["semGlobal1"] = @ + 1] /\ UNCHANGED <<register, mem>>
        BY <1>6, <3>1, Effects
      <3>3. QED
        <4>1. /\ at'[2] = 0 /\ at'[1] = at[1] /\ register' = register /\ mem' = mem
              /\ sem'["semGlobal1"] = sem["semGlobal1"] + 1 /\ sem'["semGlobal2"] = sem["semGlobal2"]
          BY <1>1, <2>1, <2>5, <3>2
        <4>2. Passed(1, 3)' = Passed(1, 3) /\ Passed(2, 3)' = Passed(2, 3)
          BY <1>2, <1>3, <1>4, <1>6, <2>5
        <4>3. TurnState'
          BY <2>1, <2>5, <4>1 DEF TurnState
        <4>4. QED
          BY <1>4, <4>1, <4>2, <4>3
    <2>6. QED
      BY <2>1, <2>2, <2>3, <2>4, <2>5
  <1>7. QED
    BY <1>5, <1>6, SemaphoreFacts

LEMMA TurnSteps ==
  ASSUME \A prog \in Programs : WellFormed(prog), TurnInv, [ExNext]_exVars
  PROVE  TurnInv'
  <1>1. Types /\ Types' /\ WellFormed(program)
    BY TypesStep DEF TurnInv, Types, ExTypeOK
  <1>2. Moves \/ \E t \in Tasks : Operates(t)
    BY <1>1, AnyStep
  <1>3. program' = program
    BY <1>1, <1>2, OperationMoves DEF Moves
  <1>4. ASSUME program = semaphore
        PROVE  TurnState' /\ mem'["global"] = Passed(1, 3)' - Passed(2, 3)'
    <2>1. TurnState /\ mem["global"] = Passed(1, 3) - Passed(2, 3)
      BY <1>4 DEF TurnInv
    <2>2. ASSUME Moves
          PROVE  TurnState' /\ mem'["global"] = Passed(1, 3)' - Passed(2, 3)'
      <3>1. UNCHANGED <<register, sem, mem>>
        BY <2>2 DEF Moves
      <3>2. /\ (at'[1] \in 2 .. 4 \/ at[1] \in 2 .. 4) => at'[1] = at[1]
            /\ (at'[2] \in 2 .. 4 \/ at[2] \in 2 .. 4) => at'[2] = at[2]
        BY <1>4, <2>2, SemaphoreFacts DEF Moves, Unborn, Top, Ended
      <3>3. Passed(1, 3)' = Passed(1, 3) /\ Passed(2, 3)' = Passed(2, 3)
        <4>1. \A u \in Tasks : \A n \in Nat \ {0} : Passed(u, n)' = Passed(u, n)
          BY <1>1, <2>2, PassedByMove
        <4>2. 1 \in Tasks /\ 2 \in Tasks
          BY <1>4, SemaphoreFacts
        <4>3. 3 \in Nat \ {0}
          OBVIOUS
        <4>4. QED
          BY <4>1, <4>2, <4>3
      <3>4. QED
        BY <2>1, <3>1, <3>2, <3>3 DEF TurnState
    <2>3. QED
      BY <1>1, <1>2, <1>4, <2>1, <2>2, TurnOperation
  <1>5. QED
    BY <1>1, <1>3, <1>4 DEF TurnInv

(***************************************************************************)
(* The two tasks of semaphore.c update global in turns and no update is    *)
(* lost, for every number of turns: each gives the semaphore the other     *)
(* takes, and only one of the two is ever up.                              *)
(***************************************************************************)
THEOREM UpdatesAlternate ==
  ASSUME \A prog \in Programs : WellFormed(prog) /\ Recognised(prog)
  PROVE  ExSpec => []Turns
  <1>1. ExInit => TurnInv
    <2>1. SUFFICES ASSUME ExInit PROVE TurnInv
      OBVIOUS
    <2>2. Types
      BY <2>1, TypesStart
    <2>3. ASSUME program = semaphore
          PROVE  TurnState /\ mem["global"] = Passed(1, 3) - Passed(2, 3)
      <3>1. /\ 1 \in Slots /\ 2 \in Slots /\ "global" \in Shared
        BY DEF Slots, Shared
      <3>2. /\ at[1] = -1 /\ at[2] = -1 /\ round[1] = 0 /\ round[2] = 0 /\ mem["global"] = 0
            /\ sem["semGlobal1"] = 1 /\ sem["semGlobal2"] = 0 /\ Len(program.setup) = 0
        BY <2>1, <2>3, <3>1, SemaphoreFacts DEF ExInit, Unborn
      <3>3. TurnState
        BY <3>2 DEF TurnState
      <3>4. Passed(1, 3) = 0 /\ Passed(2, 3) = 0
        BY <3>2 DEF Passed
      <3>5. QED
        BY <3>2, <3>3, <3>4
    <2>4. QED
      BY <2>2, <2>3 DEF TurnInv
  <1>2. TurnInv /\ [ExNext]_exVars => TurnInv'
    BY TurnSteps
  <1>3. TurnInv => Turns
    <2>1. SUFFICES ASSUME TurnInv, program.tasks = semaphore.tasks
                   PROVE  mem["global"] = Passed(1, 3) - Passed(2, 3) /\ mem["global"] \in {0, 1}
      BY DEF Turns
    <2>2. program = semaphore
      BY <2>1 DEF TurnInv, Types, ExTypeOK, Recognised
    <2>3. TurnState /\ mem["global"] = Passed(1, 3) - Passed(2, 3)
      BY <2>1, <2>2 DEF TurnInv
    <2>4. mem["global"] \in {0, 1}
      BY <2>3 DEF TurnState
    <2>5. QED
      BY <2>3, <2>4
  <1>4. QED
    BY <1>1, <1>2, <1>3, PTL DEF ExSpec

-----------------------------------------------------------------------------
(* The programs with stages.                                               *)

\* A count of passed operations is a number.
LEMMA PassedIsInt ==
  ASSUME NEW t, NEW n, round[t] \in Nat
  PROVE  Passed(t, n) \in Int
  <1> DEFINE more == IF at[t] > Len(program.setup) + n THEN 1 ELSE 0
  <1>1. more \in Int /\ Passed(t, n) = round[t] + more
    BY DEF Passed
  <1> HIDE DEF more
  <1>2. QED
    BY <1>1

(***************************************************************************)
(* No more rounds are taken over than were given, at the place p where the *)
(* next stage takes the semaphore.                                         *)
(***************************************************************************)
LEMMA TakenWereGiven ==
  ASSUME WellFormed(program), Chained(program), ChainInv,
         NEW k \in 2 .. Len(program.stages), NEW s, NEW p \in Nat \ {0},
         program.setup = <<>>,
         program.body[program.stages[k - 1].task][program.stages[k - 1].op] = V(s),
         p <= Len(program.body[program.stages[k].task]),
         program.body[program.stages[k].task][p] = P(s)
  PROVE  /\ Passed(program.stages[k].task, p)
              <= Passed(program.stages[k - 1].task, program.stages[k - 1].op)
         /\ Passed(program.stages[k].task, p) \in Int
  <1> DEFINE from == program.stages[k - 1]
             to == program.stages[k]
  <1>1. PICK r \in DOMAIN program.sem, q \in 1 .. to.op :
          program.sem[r] = 0 /\ CarriesAt(program, r, from, to, q)
    <2>1. PICK r \in DOMAIN program.sem : Carries(program, r, from, to)
      BY DEF Chained
    <2> HIDE DEF from, to
    <2>2. program.sem[r] = 0 /\ \E q \in 1 .. to.op : CarriesAt(program, r, from, to, q)
      BY <2>1 DEF Carries, CarriesAt
    <2>3. QED
      BY <2>2
  <1>2. /\ k \in 1 .. Len(program.stages) /\ to.task \in Tasks /\ from.task \in Tasks
        /\ from.op \in 1 .. Len(program.body[from.task]) /\ from.op \in Nat \ {0}
    <2>1. k \in 1 .. Len(program.stages) /\ k - 1 \in 1 .. Len(program.stages)
      BY StageFacts
    <2>2. to.task \in Tasks
      BY <2>1, StageFacts
    <2>3. from.task \in Tasks /\ from.op \in 1 .. Len(program.body[from.task])
          /\ from.op \in Nat \ {0}
      <3> DEFINE j == k - 1
      <3>1. j \in 1 .. Len(program.stages) /\ from = program.stages[j]
        BY <2>1
      <3> HIDE DEF j, from
      <3>2. QED
        BY <3>1, StageFacts
    <2>4. QED
      BY <2>1, <2>2, <2>3
  <1>3. \A t \in Tasks : ScriptOf(program, t) = program.body[t] /\ Len(program.body[t]) \in Nat
    <2>1. SUFFICES ASSUME NEW t \in Tasks
                   PROVE  ScriptOf(program, t) = program.body[t] /\ Len(program.body[t]) \in Nat
      OBVIOUS
    <2> DEFINE Ops == Operation(program)
               body == program.body[t]
    <2>2. body \in Seq(Ops)
      BY DEF WellFormed, Tasks
    <2> HIDE DEF Ops, body
    <2>3. <<>> \o body = body /\ Len(body) \in Nat
      BY <2>2
    <2>4. QED
      BY <2>3 DEF ScriptOf, body
  <1>4. Len(program.setup) = 0
    OBVIOUS
  <1> HIDE DEF from, to
  <1>5. r = s
    <2>1. ScriptOf(program, from.task)[from.op] = V(r)
      <3>1. from.task \in 1 .. Len(program.tasks)
        BY <1>2 DEF Tasks
      <3>2. from.op \in 1 .. Len(ScriptOf(program, from.task)) /\ from.op = 0 + from.op
        BY <1>2, <1>3
      <3>3. QED
        BY <1>1, <1>4, <3>1, <3>2 DEF CarriesAt
    <2>2. QED
      BY <1>2, <1>3, <2>1, OperationsAreDistinct DEF from
  <1>6. q = p
    <2>1. ScriptOf(program, to.task)[p] = P(s) /\ p \in 1 .. Len(ScriptOf(program, to.task))
      BY <1>2, <1>3 DEF to
    <2>2. p = 0 + q
      BY <1>1, <1>2, <1>4, <1>5, <2>1 DEF CarriesAt, Tasks
    <2>3. q \in Int
      BY <1>1
    <2>4. QED
      BY <2>2, <2>3
  <1>7. sem[s] = Passed(from.task, from.op) - Passed(to.task, p) /\ sem[s] \in Nat
    <2>1. sem[r] = Passed(from.task, from.op) - Passed(to.task, q)
      BY <1>1 DEF ChainInv, Counts, from, to
    <2>2. sem[r] \in Nat
      BY <1>1 DEF ChainInv, Types
    <2>3. QED
      BY <1>5, <1>6, <2>1, <2>2
  <1>8. Passed(from.task, from.op) \in Int /\ Passed(to.task, p) \in Int
    <2>1. \A t \in Tasks : round[t] \in Nat
      BY DEF ChainInv, Types, WellFormed, Tasks
    <2>2. round[from.task] \in Nat /\ round[to.task] \in Nat
      BY <1>2, <2>1
    <2>3. QED
      BY <2>2, PassedIsInt
  <1>9. Passed(to.task, p) <= Passed(from.task, from.op)
    BY <1>7, <1>8
  <1>10. QED
    BY <1>8, <1>9 DEF from, to

\* Stage j ends with a V of s, and stage k, the one after it, takes s at p.
Hands(j, k, s, p) ==
  /\ k \in 2 .. Len(program.stages) /\ j = k - 1 /\ p \in Nat \ {0}
  /\ program.setup = <<>>
  /\ program.body[program.stages[j].task][program.stages[j].op] = V(s)
  /\ p <= Len(program.body[program.stages[k].task])
  /\ program.body[program.stages[k].task][p] = P(s)

(***************************************************************************)
(* TakenWereGiven for a stage and the one before it, by their numbers.     *)
(***************************************************************************)
LEMMA HandedRounds ==
  ASSUME WellFormed(program), Chained(program), ChainInv,
         NEW j, NEW k, NEW s, NEW p, Hands(j, k, s, p)
  PROVE  /\ Passed(program.stages[k].task, p)
              <= Passed(program.stages[j].task, program.stages[j].op)
         /\ Passed(program.stages[k].task, p) \in Int
  <1>1. k \in 2 .. Len(program.stages) /\ j = k - 1 /\ p \in Nat \ {0}
    BY DEF Hands
  <1>2. program.setup = <<>> /\ p <= Len(program.body[program.stages[k].task])
    BY DEF Hands
  <1>3. program.body[program.stages[k - 1].task][program.stages[k - 1].op] = V(s)
    BY <1>1 DEF Hands
  <1>4. program.body[program.stages[k].task][p] = P(s)
    BY DEF Hands
  <1>5. /\ Passed(program.stages[k].task, p)
             <= Passed(program.stages[k - 1].task, program.stages[k - 1].op)
        /\ Passed(program.stages[k].task, p) \in Int
    BY <1>1, <1>2, <1>3, <1>4, TakenWereGiven
  <1>6. QED
    BY <1>1, <1>5

(***************************************************************************)
(* Without a setup, an operation of task t leads to the next one or to the *)
(* top of the loop.                                                        *)
(***************************************************************************)
LEMMA LoopMoves ==
  ASSUME Types, WellFormed(program), NEW t \in Tasks, Operates(t), program.setup = <<>>
  PROVE  /\ at[t] \in 1 .. Len(program.body[t]) /\ Next_op(t) = program.body[t][at[t]]
         /\ \A u \in Tasks \ {t} : at'[u] = at[u] /\ round'[u] = round[u]
         /\ \A n \in 2 .. Len(program.body[t]) : at'[t] = n => at[t] = n - 1
         /\ at[t] # Len(program.body[t]) => round'[t] = round[t] /\ at'[t] = at[t] + 1
         /\ at[t] = Len(program.body[t]) => round'[t] = round[t] + 1 /\ at'[t] = 0
  <1> DEFINE Ops == Operation(program)
             body == program.body[t]
  <1>1. body \in Seq(Ops)
    BY DEF WellFormed, Tasks
  <1> HIDE DEF Ops, body
  <1>2. <<>> \o body = body /\ Len(body) \in Nat /\ Len(<<>>) = 0
    BY <1>1
  <1>3. Script(t) = body /\ Len(program.setup) = 0
    BY <1>2 DEF Script, body
  <1>4. /\ at[t] \in 1 .. Len(body) /\ Next_op(t) = body[at[t]]
        /\ \A u \in Tasks \ {t} : at'[u] = at[u] /\ round'[u] = round[u]
        /\ at'[t] = IF at[t] = Len(body) \/ at[t] = 0 THEN 0 ELSE at[t] + 1
        /\ round'[t] = IF at[t] = Len(body) THEN round[t] + 1 ELSE round[t]
    <2>1. /\ at[t] \in 1 .. Len(Script(t)) /\ Next_op(t) = Script(t)[at[t]]
          /\ \A u \in Tasks \ {t} : at'[u] = at[u] /\ round'[u] = round[u]
          /\ at'[t] = IF at[t] = Len(Script(t)) \/ at[t] = Len(program.setup) THEN 0
                      ELSE at[t] + 1
          /\ round'[t] = IF at[t] = Len(Script(t)) THEN round[t] + 1 ELSE round[t]
      BY OperationMoves
    <2>2. QED
      BY <1>3, <2>1
  <1>5. /\ at[t] # Len(body) => round'[t] = round[t] /\ at'[t] = at[t] + 1
        /\ at[t] = Len(body) => round'[t] = round[t] + 1 /\ at'[t] = 0
    BY <1>2, <1>4
  <1>6. \A n \in 2 .. Len(body) : at'[t] = n => at[t] = n - 1
    BY <1>2, <1>4, <1>5
  <1>7. QED
    BY <1>4, <1>5, <1>6 DEF body

-----------------------------------------------------------------------------
(* The scans of sfcModel.c.                                                *)

LEMMA SfcFacts ==
  ASSUME program = sfcModel
  PROVE  /\ Tasks = {1, 2, 3} /\ program.setup = <<>> /\ Len(program.setup) = 0
         /\ program.body[1] = sfc_sense /\ program.body[2] = sfc_executor
         /\ program.body[3] = sfc_act
         /\ Len(sfc_sense) = 2 /\ Len(sfc_executor) = 5 /\ Len(sfc_act) = 3
         /\ Len(program.body[1]) = 2 /\ Len(program.body[2]) = 5 /\ Len(program.body[3]) = 3
         /\ program.body[1][2] = V("readDone") /\ program.body[2][1] = P("readDone")
         /\ Len(program.stages) = 4
         /\ program.stages[1] = [task |-> 1, op |-> 2]
         /\ program.stages[2] = [task |-> 2, op |-> 3]
         /\ program.stages[4] = [task |-> 2, op |-> 5]
  <1>1. /\ Len(program.tasks) = 3 /\ program.setup = <<>>
        /\ program.body = <<sfc_sense, sfc_executor, sfc_act>>
        /\ program.stages = <<[task |-> 1, op |-> 2], [task |-> 2, op |-> 3],
                              [task |-> 3, op |-> 3], [task |-> 2, op |-> 5]>>
    BY DEF sfcModel, Nothing
  <1>2. Tasks = {1, 2, 3}
    BY <1>1 DEF Tasks
  <1>3. Len(sfc_sense) = 2 /\ Len(sfc_executor) = 5 /\ Len(sfc_act) = 3
    BY DEF sfc_sense, sfc_executor, sfc_act
  <1>4. /\ program.body[1] = sfc_sense /\ program.body[2] = sfc_executor
        /\ program.body[3] = sfc_act
    BY <1>1
  <1>5. sfc_sense[2] = V("readDone") /\ sfc_executor[1] = P("readDone")
    BY DEF sfc_sense, sfc_executor
  <1>6. QED
    BY <1>1, <1>2, <1>3, <1>4, <1>5

\* sensors holds the last reading, and while the tasks keep their periods the
\* reader makes the next one only when the executor has ended its scan.
SensorState ==
  /\ mem["sensors"] = Passed(1, 1)
  /\ punctual => /\ round[1] <= round[2] + 1
                 /\ at[1] > 0 => round[1] <= round[2]

SensorInv == ChainInv /\ (program = sfcModel => SensorState)

(***************************************************************************)
(* The turns of the reader and the executor as numbers.                    *)
(***************************************************************************)
LEMMA ScanFacts ==
  ASSUME WellFormed(program), Types, program = sfcModel
  PROVE  /\ 1 \in Tasks /\ 2 \in Tasks /\ 3 \in Tasks /\ Tasks \subseteq Slots
         /\ round[1] \in Nat /\ round[2] \in Nat /\ round[3] \in Nat
         /\ at[1] \in Int /\ at[1] <= 2 /\ at[2] \in Int /\ at[2] <= 5 /\ at[3] \in Int
         /\ Passed(1, 1) = round[1] + (IF at[1] > 1 THEN 1 ELSE 0)
         /\ Passed(1, 2) = round[1]
         /\ Passed(2, 1) = round[2] + (IF at[2] > 1 THEN 1 ELSE 0)
         /\ finished = round[2]
  <1>1. /\ 1 \in Tasks /\ 2 \in Tasks /\ 3 \in Tasks /\ Tasks \subseteq Slots
        /\ Len(program.setup) = 0
    BY SfcFacts DEF WellFormed, Tasks
  <1>2. /\ round[1] \in Nat /\ round[2] \in Nat /\ round[3] \in Nat
        /\ at[1] \in Int /\ at[2] \in Int /\ at[3] \in Int
    BY <1>1 DEF Types
  <1>3. Len(Script(1)) = 2 /\ Len(Script(2)) = 5
    <2>1. program.setup = <<>> /\ program.body[1] = sfc_sense /\ program.body[2] = sfc_executor
      BY SfcFacts
    <2>2. QED
      BY <2>1 DEF Script, sfc_sense, sfc_executor
  <1>4. at[1] <= 2 /\ at[2] <= 5
    <2>1. \A t \in Tasks : at[t] \in {Unborn, Top, Ended} \cup 1 .. Len(Script(t))
      BY <1>1 DEF Types, ExTypeOK
    <2>2. at[1] \in {Unborn, Top, Ended} \cup 1 .. 2
      BY <1>1, <1>3, <2>1
    <2>3. at[2] \in {Unborn, Top, Ended} \cup 1 .. 5
      BY <1>1, <1>3, <2>1
    <2>4. QED
      BY <2>2, <2>3 DEF Unborn, Top, Ended
  <1>5. \A t, n : Passed(t, n) = round[t] + (IF at[t] > 0 + n THEN 1 ELSE 0)
    BY <1>1 DEF Passed
  <1>6. Passed(1, 2) = round[1] /\ Passed(2, 5) = round[2]
    BY <1>2, <1>4, <1>5
  <1>7. finished = Passed(2, 5)
    <2>1. Len(program.stages) = 4 /\ program.stages[4] = [task |-> 2, op |-> 5]
      BY SfcFacts
    <2>2. DOMAIN done = 1 .. 4 /\ done[4] = Passed(2, 5) /\ Len(done) = 4
      BY <2>1 DEF done
    <2>3. done # <<>>
      BY <2>2
    <2>4. QED
      BY <2>2, <2>3 DEF finished
  <1>8. /\ Passed(1, 1) = round[1] + (IF at[1] > 1 THEN 1 ELSE 0)
        /\ Passed(2, 1) = round[2] + (IF at[2] > 1 THEN 1 ELSE 0)
    BY <1>2, <1>5
  <1>9. QED
    BY <1>1, <1>2, <1>4, <1>6, <1>7, <1>8

(***************************************************************************)
(* The operations of the three tasks: only the reader writes sensors, with *)
(* the number of its turn.                                                 *)
(***************************************************************************)
LEMMA SensorOperation ==
  ASSUME WellFormed(program), Types, program = sfcModel, SensorState,
         NEW t \in Tasks, Operates(t)
  PROVE  SensorState'
  <1>1. /\ 1 \in Tasks /\ 2 \in Tasks /\ round[1] \in Nat /\ round[2] \in Nat
        /\ at[1] \in Int /\ Passed(1, 1) \in Int
        /\ Passed(1, 1) = round[1] + (IF at[1] > 1 THEN 1 ELSE 0)
    BY ScanFacts
  <1>2. /\ at[t] \in 1 .. Len(program.body[t]) /\ Next_op(t) = program.body[t][at[t]]
        /\ \A u \in Tasks \ {t} : at'[u] = at[u] /\ round'[u] = round[u]
        /\ at[t] # Len(program.body[t]) => round'[t] = round[t] /\ at'[t] = at[t] + 1
        /\ at[t] = Len(program.body[t]) => round'[t] = round[t] + 1 /\ at'[t] = 0
    BY LoopMoves, SfcFacts
  <1>3. punctual' = punctual
    BY OperationMoves
  <1>4. Passed(1, 1)' = Passed(1, 1) + IF 1 = t /\ at[t] = 1 THEN 1 ELSE 0
    <2>1. 1 \in 1 .. Len(program.body[1]) /\ Len(program.setup) + 1 = 1
      BY SfcFacts
    <2>2. \A u \in Tasks : \A n \in 1 .. Len(program.body[u]) :
            Passed(u, n)' = Passed(u, n) + IF u = t /\ at[t] = Len(program.setup) + n THEN 1 ELSE 0
      BY PassedByOperation
    <2>3. QED
      BY <1>1, <2>1, <2>2
  <1>5. mem'["sensors"] = Passed(1, 1)'
    <2>1. mem \in [Shared -> Int] /\ "sensors" \in Shared
      BY DEF Types, ExTypeOK, Shared
    <2>2. CASE t = 1 /\ at[t] = 1
      <3>1. Next_op(t) = Input("sensors")
        BY <1>2, <2>2, SfcFacts DEF sfc_sense
      <3>2. mem' = [mem EXCEPT !["sensors"] = round[t] + 1]
        BY <3>1, Effects
      <3>3. QED
        BY <1>1, <1>4, <2>1, <2>2, <3>2
    <2>3. CASE ~ (t = 1 /\ at[t] = 1)
      <3>1. \E s : Next_op(t) \in {P(s), V(s), Load("sensors"), Work}
        <4>1. CASE t = 1
          <5>1. at[t] = 2 /\ Next_op(t) = sfc_sense[at[t]]
            BY <1>2, <2>3, <4>1, SfcFacts
          <5>2. Next_op(t) = V("readDone")
            BY <5>1 DEF sfc_sense
          <5>3. QED
            BY <5>2
        <4>2. CASE t = 2
          <5>1. at[t] \in 1 .. 5 /\ Next_op(t) = sfc_executor[at[t]]
            BY <1>2, <4>2, SfcFacts
          <5>2. Next_op(t) \in {P("readDone"), Load("sensors"), V("executionDone"),
                                P("writeDone")}
            BY <5>1 DEF sfc_executor
          <5>3. QED
            BY <5>2
        <4>3. CASE t = 3
          <5>1. at[t] \in 1 .. 3 /\ Next_op(t) = sfc_act[at[t]]
            BY <1>2, <4>3, SfcFacts
          <5>2. Next_op(t) \in {P("executionDone"), Work, V("writeDone")}
            BY <5>1 DEF sfc_act
          <5>3. QED
            BY <5>2
        <4>4. QED
          BY <4>1, <4>2, <4>3, SfcFacts
      <3>2. mem' = mem
        BY <3>1, Effects
      <3>3. QED
        BY <1>1, <1>4, <2>3, <3>2 DEF SensorState
    <2>4. QED
      BY <2>2, <2>3
  <1>6. ASSUME punctual
        PROVE  round'[1] <= round'[2] + 1 /\ (at'[1] > 0 => round'[1] <= round'[2])
    <2>1. round[1] <= round[2] + 1 /\ (at[1] > 0 => round[1] <= round[2])
      BY <1>6 DEF SensorState
    <2>2. CASE t = 1
      <3>1. at[1] > 0 /\ round'[2] = round[2]
        BY <1>1, <1>2, <2>2
      <3>2. round'[1] = round[1] \/ (round'[1] = round[1] + 1 /\ at'[1] = 0)
        BY <1>2, <2>2
      <3>3. QED
        BY <1>1, <2>1, <3>1, <3>2
    <2>3. CASE t # 1
      <3>1. at'[1] = at[1] /\ round'[1] = round[1]
        BY <1>1, <1>2, <2>3
      <3>2. round'[2] = round[2] \/ round'[2] = round[2] + 1
        BY <1>1, <1>2
      <3>3. QED
        BY <1>1, <2>1, <3>1, <3>2
    <2>4. QED
      BY <2>2, <2>3
  <1>7. QED
    BY <1>3, <1>5, <1>6 DEF SensorState

LEMMA SensorSteps ==
  ASSUME \A prog \in Programs : WellFormed(prog) /\ Chained(prog), SensorInv, [ExNext]_exVars
  PROVE  SensorInv'
  <1>1. ChainInv' /\ Types /\ ChainInv /\ WellFormed(program) /\ Chained(program)
    BY ChainSteps DEF SensorInv, ChainInv, Types, ExTypeOK
  <1>2. Moves \/ \E t \in Tasks : Operates(t)
    BY <1>1, AnyStep
  <1>3. program' = program
    BY <1>1, <1>2, OperationMoves DEF Moves
  <1>4. ASSUME program = sfcModel
        PROVE  SensorState'
    <2>1. SensorState
      BY <1>4 DEF SensorInv
    <2>2. ASSUME Moves
          PROVE  SensorState'
      <3>1. UNCHANGED <<punctual, round, mem>>
        BY <2>2 DEF Moves
      <3>2. 1 \in Tasks /\ program.setup = <<>> /\ Len(program.setup) = 0
            /\ program.stages # <<>>
        BY <1>4, SfcFacts
      <3>3. Passed(1, 1)' = Passed(1, 1)
        <4>1. \A u \in Tasks : \A n \in Nat \ {0} : Passed(u, n)' = Passed(u, n)
          BY <1>1, <2>2, PassedByMove
        <4>2. QED
          BY <3>2, <4>1
      <3>4. \/ at'[1] = at[1]
            \/ at'[1] \in {0, -2}
            \/ at'[1] = 1 /\ (punctual => round[1] <= finished)
        BY <2>2, <3>2 DEF Moves, KeptUp, Unborn, Top, Ended
      <3>5. finished = round[2]
        BY <1>1, <1>4, ScanFacts
      <3>6. QED
        BY <2>1, <3>1, <3>3, <3>4, <3>5 DEF SensorState
    <2>3. QED
      BY <1>1, <1>2, <1>4, <2>1, <2>2, SensorOperation
  <1>5. QED
    BY <1>1, <1>3, <1>4 DEF SensorInv

(***************************************************************************)
(* The executor of sfcModel.c, whether at the steps or at the conditions   *)
(* of a scan, never finds in sensors a reading made before that scan: the  *)
(* reader stores it before it gives readDone.  While the tasks keep their  *)
(* periods it finds the reading of that very scan both times, although     *)
(* nothing keeps the reader from storing the next one meanwhile.           *)
(***************************************************************************)
THEOREM ScansSeeTheirInputs ==
  ASSUME \A prog \in Programs : WellFormed(prog) /\ Chained(prog) /\ Recognised(prog)
  PROVE  ExSpec => []ScanSeesItsInputs
  <1>1. ExInit => SensorInv
    <2>1. SUFFICES ASSUME ExInit PROVE SensorInv
      OBVIOUS
    <2>2. ChainInv /\ \A u \in Tasks : \A n \in Nat : Passed(u, n) = 0
      BY <2>1, ChainStarts
    <2>3. ASSUME program = sfcModel
          PROVE  SensorState
      <3>1. 1 \in Slots /\ 2 \in Slots /\ "sensors" \in Shared
        BY DEF Slots, Shared
      <3>2. at[1] = -1 /\ round[1] = 0 /\ round[2] = 0 /\ mem["sensors"] = 0
        BY <2>1, <3>1 DEF ExInit, Unborn
      <3>3. Passed(1, 1) = 0
        BY <2>2, <2>3, SfcFacts
      <3>4. QED
        BY <3>2, <3>3 DEF SensorState
    <2>4. QED
      BY <2>2, <2>3 DEF SensorInv
  <1>2. SensorInv /\ [ExNext]_exVars => SensorInv'
    BY SensorSteps
  <1>3. SensorInv => ScanSeesItsInputs
    <2>1. SUFFICES ASSUME SensorInv, NEW t \in Tasks, Next_op(t) = Load("sensors")
                   PROVE  /\ mem["sensors"] >= round[t] + 1
                          /\ punctual => mem["sensors"] = round[t] + 1
      BY DEF ScanSeesItsInputs
    <2>2. WellFormed(program) /\ Chained(program) /\ Recognised(program) /\ Types /\ ChainInv
      BY <2>1 DEF SensorInv, ChainInv, Types, ExTypeOK
    <2>3. ScriptOf(program, t) = Script(t)
      BY <2>2, ScriptFacts
    <2>4. at[t] \in 1 .. Len(Script(t)) /\ Next_op(t) = Script(t)[at[t]]
      <3>1. at[t] > 0 /\ Next_op(t) = Script(t)[at[t]]
        BY <2>1 DEF Next_op, Load
      <3>2. at[t] \in {Unborn, Top, Ended} \cup 1 .. Len(Script(t))
        BY <2>2 DEF Types, ExTypeOK, WellFormed, Tasks
      <3>3. QED
        BY <3>1, <3>2 DEF Unborn, Top, Ended
    <2>5. program = sfcModel
      BY <2>1, <2>2, <2>3, <2>4 DEF Recognised, Mentions, Tasks
    <2>6. t = 2 /\ at[t] > 1
      <3>1. /\ Tasks = {1, 2, 3} /\ program.setup = <<>>
            /\ program.body = <<sfc_sense, sfc_executor, sfc_act>>
        BY <2>5, SfcFacts DEF sfcModel, Nothing
      <3>2. Script(1) = sfc_sense /\ Script(2) = sfc_executor /\ Script(3) = sfc_act
        BY <3>1 DEF Script, sfc_sense, sfc_executor, sfc_act
      <3>3. t # 1
        BY <2>1, <2>4, <3>2, OperationsAreDistinct DEF sfc_sense
      <3>4. t # 3
        <4>1. \A k \in 1 .. 3 : sfc_act[k] \in {P("executionDone"), Work, V("writeDone")}
          BY DEF sfc_act
        <4>2. \A k \in 1 .. 3 : sfc_act[k] # Load("sensors")
          BY <4>1, OperationsAreDistinct
        <4>3. t = 3 => at[t] \in 1 .. 3 /\ Next_op(t) = sfc_act[at[t]]
          <5>1. Len(sfc_act) = 3
            BY <2>5, SfcFacts
          <5>2. QED
            BY <2>4, <3>2, <5>1
        <4>4. QED
          BY <2>1, <4>2, <4>3
      <3>5. t = 2 => at[t] # 1
        <4>1. sfc_executor[1] = P("readDone")
          BY DEF sfc_executor
        <4>2. QED
          BY <2>1, <2>4, <3>2, <4>1, OperationsAreDistinct
      <3>6. QED
        BY <2>4, <3>1, <3>3, <3>4, <3>5
    <2>7. Passed(2, 1) <= Passed(1, 2)
      <3>1. program.stages[2].task = 2 /\ program.stages[1].task = 1 /\ program.stages[1].op = 2
        BY <2>5, SfcFacts
      <3>2. Hands(1, 2, "readDone", 1)
        BY <2>5, <3>1, SfcFacts DEF Hands
      <3>3. Passed(program.stages[2].task, 1)
              <= Passed(program.stages[1].task, program.stages[1].op)
        BY <2>2, <3>2, HandedRounds
      <3>4. QED
        BY <3>1, <3>3
    <2>8. SensorState
      BY <2>1, <2>5 DEF SensorInv
    <2>9. /\ round[1] \in Nat /\ round[2] \in Nat /\ at[1] \in Int /\ at[2] \in Int
          /\ Passed(1, 1) = round[1] + (IF at[1] > 1 THEN 1 ELSE 0)
          /\ Passed(1, 2) = round[1]
          /\ Passed(2, 1) = round[2] + (IF at[2] > 1 THEN 1 ELSE 0)
      BY <2>2, <2>5, ScanFacts
    <2>10. round[2] + 1 <= round[1]
      BY <2>6, <2>7, <2>9
    <2>11. QED
      BY <2>6, <2>8, <2>9, <2>10 DEF SensorState
  <1>4. QED
    BY <1>1, <1>2, <1>3, PTL DEF ExSpec

-----------------------------------------------------------------------------
(* The loop of mars_rover.c through sharedResource and shared.             *)

LEMMA RoverFacts ==
  ASSUME program = mars_rover
  PROVE  /\ Tasks = {1, 2, 3, 4} /\ program.setup = <<>> /\ Len(program.setup) = 0
         /\ program.body[1] = sense /\ program.body[2] = process
         /\ program.body[3] = act /\ program.body[4] = comunicate
         /\ Len(program.body[1]) = 5 /\ Len(program.body[2]) = 6
         /\ Len(program.body[3]) = 5 /\ Len(program.body[4]) = 3
         /\ program.body[1][5] = V("sensingDone") /\ program.body[2][1] = P("sensingDone")
         /\ program.body[2][6] = V("processingDone") /\ program.body[3][1] = P("processingDone")
         /\ program.stages = <<[task |-> 1, op |-> 5], [task |-> 2, op |-> 6],
                               [task |-> 3, op |-> 5]>>
  <1>1. /\ Len(program.tasks) = 4 /\ program.setup = <<>>
        /\ program.body = <<sense, process, act, comunicate>>
        /\ program.stages = <<[task |-> 1, op |-> 5], [task |-> 2, op |-> 6],
                              [task |-> 3, op |-> 5]>>
    BY DEF mars_rover, Nothing
  <1>2. Tasks = {1, 2, 3, 4}
    BY <1>1 DEF Tasks
  <1>3. /\ program.body[1] = sense /\ program.body[2] = process
        /\ program.body[3] = act /\ program.body[4] = comunicate
    BY <1>1
  <1>4. Len(sense) = 5 /\ sense[5] = V("sensingDone")
    BY DEF sense
  <1>5. Len(process) = 6 /\ process[1] = P("sensingDone") /\ process[6] = V("processingDone")
    BY DEF process
  <1>6. Len(act) = 5 /\ act[1] = P("processingDone")
    BY DEF act
  <1>7. Len(comunicate) = 3
    BY DEF comunicate
  <1>8. QED
    BY <1>1, <1>2, <1>3, <1>4, <1>5, <1>6, <1>7

\* No count is made up: none is above what the processor has counted.
CountState ==
  /\ mem["shared"] <= Passed(2, 4) /\ mem["sharedResource"] <= Passed(2, 4)
  /\ \A t \in Tasks : register[t] <= Passed(2, 4)

\* While the tasks keep their periods, one round at a time goes through the
\* rover, and the registers hold what will be written.
KeptState ==
  /\ round[1] <= round[3] + 1
  /\ at[1] \in 1 .. 5 => round[1] <= round[3]
  /\ mem["shared"] = round[3]
  /\ mem["sharedResource"] = Passed(2, 4)
  /\ at[1] = 3 => register[1] = round[1]
  /\ at[2] = 4 => register[2] = Passed(2, 4)
  /\ at[3] \in {4, 5} => register[3] = round[3] + 1

RoverInv ==
  ChainInv /\ (program = mars_rover => CountState /\ (punctual => KeptState))

(***************************************************************************)
(* The semaphores of the rover keep the processor behind the sensor and    *)
(* the actuator behind the processor.                                      *)
(***************************************************************************)
LEMMA RoverOrder ==
  ASSUME WellFormed(program), Chained(program), ChainInv, program = mars_rover
  PROVE  /\ round[2] + (IF at[2] > 1 THEN 1 ELSE 0) <= round[1]
         /\ round[3] + (IF at[3] > 1 THEN 1 ELSE 0) <= round[2]
         /\ Passed(2, 4) = round[2] + (IF at[2] > 4 THEN 1 ELSE 0)
         /\ finished = round[3] /\ done[3] = round[3]
  <1>1. 1 \in Tasks /\ 2 \in Tasks /\ 3 \in Tasks /\ program.setup = <<>> /\ Len(program.setup) = 0
    BY RoverFacts
  <1>2. /\ round[1] \in Nat /\ round[2] \in Nat /\ round[3] \in Nat
        /\ at[1] \in Int /\ at[2] \in Int /\ at[3] \in Int
        /\ at[1] <= 5 /\ at[2] <= 6 /\ at[3] <= 5
    <2>1. \A t \in Tasks : /\ round[t] \in Nat /\ at[t] \in Int
                           /\ at[t] \in {-1, 0, -2} \cup 1 .. Len(Script(t))
      BY DEF ChainInv, Types, ExTypeOK, WellFormed, Tasks, Unborn, Top, Ended
    <2>2. \A t \in Tasks : Script(t) = <<>> \o program.body[t]
      BY <1>1 DEF Script
    <2>3. Len(Script(1)) = 5
      BY <1>1, <2>2, RoverFacts DEF sense
    <2>4. Len(Script(2)) = 6
      BY <1>1, <2>2, RoverFacts DEF process
    <2>5. Len(Script(3)) = 5
      BY <1>1, <2>2, RoverFacts DEF act
    <2>6. at[1] <= 5
      <3>1. at[1] \in {-1, 0, -2} \cup 1 .. 5
        BY <1>1, <2>1, <2>3
      <3>2. QED
        BY <3>1
    <2>9. at[2] <= 6
      <3>1. at[2] \in {-1, 0, -2} \cup 1 .. 6
        BY <1>1, <2>1, <2>4
      <3>2. QED
        BY <3>1
    <2>7. at[3] <= 5
      <3>1. at[3] \in {-1, 0, -2} \cup 1 .. 5
        BY <1>1, <2>1, <2>5
      <3>2. QED
        BY <3>1
    <2>8. QED
      BY <1>1, <2>1, <2>6, <2>7, <2>9
  <1>3. \A t \in Tasks, n \in Nat : Passed(t, n) = round[t] + IF at[t] > n THEN 1 ELSE 0
    BY <1>1 DEF Passed
  <1>4. Len(program.stages) = 3 /\ program.stages[1] = [task |-> 1, op |-> 5]
        /\ program.stages[2] = [task |-> 2, op |-> 6] /\ program.stages[3] = [task |-> 3, op |-> 5]
    <2>1. program.stages = <<[task |-> 1, op |-> 5], [task |-> 2, op |-> 6], [task |-> 3, op |-> 5]>>
      BY RoverFacts
    <2>2. QED
      BY <2>1
  <1>5. Passed(2, 1) <= Passed(1, 5)
    <2>1. /\ 2 \in 2 .. Len(program.stages) /\ program.stages[2].task = 2
          /\ program.stages[1].task = 1 /\ program.stages[1].op = 5
      BY <1>4
    <2>2. program.body[1][5] = V("sensingDone") /\ program.body[2][1] = P("sensingDone")
      BY RoverFacts
    <2>3. Len(program.body[2]) = 6
      BY RoverFacts
    <2>4. 2 - 1 = 1
      OBVIOUS
    <2>6. Hands(1, 2, "sensingDone", 1)
      BY <1>1, <2>1, <2>2, <2>3, <2>4 DEF Hands
    <2>7. Passed(program.stages[2].task, 1)
            <= Passed(program.stages[1].task, program.stages[1].op)
      BY <2>6, HandedRounds
    <2>8. QED
      BY <2>1, <2>7
  <1>6. Passed(3, 1) <= Passed(2, 6)
    <2>1. /\ 3 \in 2 .. Len(program.stages) /\ program.stages[3].task = 3
          /\ program.stages[2].task = 2 /\ program.stages[2].op = 6
      BY <1>4
    <2>2. program.body[2][6] = V("processingDone") /\ program.body[3][1] = P("processingDone")
      BY RoverFacts
    <2>3. Len(program.body[3]) = 5
      BY RoverFacts
    <2>4. 3 - 1 = 2
      OBVIOUS
    <2>6. Hands(2, 3, "processingDone", 1)
      BY <1>1, <2>1, <2>2, <2>3, <2>4 DEF Hands
    <2>7. Passed(program.stages[3].task, 1)
            <= Passed(program.stages[2].task, program.stages[2].op)
      BY <2>6, HandedRounds
    <2>8. QED
      BY <2>1, <2>7
  <1>7. round[2] + (IF at[2] > 1 THEN 1 ELSE 0) <= round[1]
    BY <1>1, <1>2, <1>3, <1>5
  <1>8. round[3] + (IF at[3] > 1 THEN 1 ELSE 0) <= round[2]
    BY <1>1, <1>2, <1>3, <1>6
  <1>9. Passed(2, 4) = round[2] + (IF at[2] > 4 THEN 1 ELSE 0)
    BY <1>1, <1>3
  <1>10. Passed(3, 5) = round[3]
    BY <1>1, <1>2, <1>3
  <1>11. finished = round[3] /\ done[3] = round[3]
    <2>1. done = [k \in 1 .. 3 |-> Passed(program.stages[k].task, program.stages[k].op)]
      BY <1>4 DEF done
    <2>2. done[3] = round[3]
      BY <1>4, <1>10, <2>1
    <2>3. Len(done) = 3 /\ done # <<>>
      BY <2>1
    <2>4. QED
      BY <2>2, <2>3 DEF finished
  <1>12. QED
    BY <1>7, <1>8, <1>9, <1>11

(***************************************************************************)
(* What a step of the rover's tasks does to the counts: the processor      *)
(* counts one more, and the others only copy.                              *)
(***************************************************************************)
LEMMA RoverStep ==
  ASSUME WellFormed(program), Chained(program), ChainInv, program = mars_rover,
         NEW t \in Tasks, Operates(t)
  PROVE  /\ Passed(2, 4) \in Int
         /\ Passed(2, 4)' = Passed(2, 4) + IF t = 2 /\ at[t] = 4 THEN 1 ELSE 0
         /\ t = 1 => at[t] \in 1 .. 5 /\ Next_op(t) = sense[at[t]]
         /\ t = 2 => at[t] \in 1 .. 6 /\ Next_op(t) = process[at[t]]
         /\ t = 3 => at[t] \in 1 .. 5 /\ Next_op(t) = act[at[t]]
         /\ t = 4 => at[t] \in 1 .. 3 /\ Next_op(t) = comunicate[at[t]]
  <1>1. /\ 2 \in Tasks /\ program.setup = <<>> /\ Len(program.setup) = 0 /\ 2 \in Slots
        /\ Types
    BY RoverFacts DEF ChainInv, WellFormed, Tasks
  <1>2. Passed(2, 4) \in Int
    BY <1>1 DEF Passed, Types
  <1>3. Passed(2, 4)' = Passed(2, 4) + IF t = 2 /\ at[t] = 4 THEN 1 ELSE 0
    <2>1. \A u \in Tasks : \A n \in 1 .. Len(program.body[u]) :
            Passed(u, n)' = Passed(u, n) + IF u = t /\ at[t] = Len(program.setup) + n THEN 1 ELSE 0
      BY <1>1, PassedByOperation
    <2>2. Len(program.body[2]) = 6
      BY RoverFacts
    <2>3. 4 \in 1 .. Len(program.body[2]) /\ Len(program.setup) + 4 = 4
      BY <1>1, <2>2
    <2>4. Passed(2, 4)' = Passed(2, 4) + IF 2 = t /\ at[t] = 4 THEN 1 ELSE 0
      BY <1>1, <2>1, <2>3
    <2>5. QED
      BY <2>4
  <1>4. at[t] \in 1 .. Len(program.body[t]) /\ Next_op(t) = program.body[t][at[t]]
    BY <1>1, LoopMoves
  <1>5. t = 1 => at[t] \in 1 .. 5 /\ Next_op(t) = sense[at[t]]
    BY <1>4, RoverFacts
  <1>6. t = 2 => at[t] \in 1 .. 6 /\ Next_op(t) = process[at[t]]
    BY <1>4, RoverFacts
  <1>7. t = 3 => at[t] \in 1 .. 5 /\ Next_op(t) = act[at[t]]
    BY <1>4, RoverFacts
  <1>8. t = 4 => at[t] \in 1 .. 3 /\ Next_op(t) = comunicate[at[t]]
    BY <1>4, RoverFacts
  <1>9. QED
    BY <1>2, <1>3, <1>5, <1>6, <1>7, <1>8

\* The operations of each task, by what they do to the counts.
LEMMA RoverOperations ==
  /\ sense[2] = Load("shared") /\ sense[3] = Store("sharedResource")
  /\ \A k \in 1 .. 5 : k \notin {2, 3} =>
       sense[k] \in {P("exLock"), V("exLock"), V("sensingDone")}
  /\ process[3] = Load("sharedResource") /\ process[4] = StoreNext("sharedResource")
  /\ \A k \in 1 .. 6 : k \notin {3, 4} =>
       process[k] \in {P("exLock"), P("sensingDone"), V("exLock"), V("processingDone")}
  /\ act[3] = Load("sharedResource") /\ act[5] = Store("shared")
  /\ \A k \in 1 .. 5 : k \notin {3, 5} =>
       act[k] \in {P("exLock"), P("processingDone"), V("exLock")}
  /\ comunicate[2] = Load("sharedResource")
  /\ \A k \in 1 .. 3 : k # 2 => comunicate[k] \in {P("exLock"), V("exLock")}
  <1>1. /\ sense[2] = Load("shared") /\ sense[3] = Store("sharedResource")
        /\ \A k \in 1 .. 5 : k \notin {2, 3} =>
             sense[k] \in {P("exLock"), V("exLock"), V("sensingDone")}
    BY DEF sense
  <1>2. /\ process[3] = Load("sharedResource") /\ process[4] = StoreNext("sharedResource")
        /\ \A k \in 1 .. 6 : k \notin {3, 4} =>
             process[k] \in {P("exLock"), P("sensingDone"), V("exLock"), V("processingDone")}
    BY DEF process
  <1>3. /\ act[3] = Load("sharedResource") /\ act[5] = Store("shared")
        /\ \A k \in 1 .. 5 : k \notin {3, 5} =>
             act[k] \in {P("exLock"), P("processingDone"), V("exLock")}
    BY DEF act
  <1>4. /\ comunicate[2] = Load("sharedResource")
        /\ \A k \in 1 .. 3 : k # 2 => comunicate[k] \in {P("exLock"), V("exLock")}
    BY DEF comunicate
  <1>5. QED
    BY <1>1, <1>2, <1>3, <1>4

\* What the operations of the rover do, with the place where each is done.
LEMMA RoverEffects ==
  ASSUME WellFormed(program), Chained(program), ChainInv, program = mars_rover,
         NEW t \in Tasks, Operates(t)
  PROVE  \/ register' = register /\ mem' = mem
            /\ (t = 1 => at[t] \notin {2, 3}) /\ (t = 2 => at[t] \notin {3, 4})
            /\ (t = 3 => at[t] \notin {3, 5})
         \/ t = 1 /\ at[t] = 2 /\ mem' = mem /\ register' = [register EXCEPT ![t] = mem["shared"]]
         \/ t = 1 /\ at[t] = 3 /\ register' = register
            /\ mem' = [mem EXCEPT !["sharedResource"] = register[t]]
         \/ t = 2 /\ at[t] = 4 /\ register' = register
            /\ mem' = [mem EXCEPT !["sharedResource"] = register[t] + 1]
         \/ t = 3 /\ at[t] = 5 /\ register' = register
            /\ mem' = [mem EXCEPT !["shared"] = register[t]]
         \/ <<t, at[t]>> \in {<<2, 3>>, <<3, 3>>, <<4, 2>>} /\ mem' = mem
            /\ register' = [register EXCEPT ![t] = mem["sharedResource"]]
  <1>1. \A s : Next_op(t) \in {P(s), V(s)} => register' = register /\ mem' = mem
    BY Effects
  <1>2. \A x : Next_op(t) = Load(x) => register' = [register EXCEPT ![t] = mem[x]] /\ mem' = mem
    BY Effects
  <1>3. /\ Next_op(t) = Store("shared") =>
             mem' = [mem EXCEPT !["shared"] = register[t]] /\ register' = register
        /\ Next_op(t) = Store("sharedResource") =>
             mem' = [mem EXCEPT !["sharedResource"] = register[t]] /\ register' = register
        /\ Next_op(t) = StoreNext("sharedResource") =>
             mem' = [mem EXCEPT !["sharedResource"] = register[t] + 1] /\ register' = register
    BY Effects
  <1>4. CASE t = 1
    <2>1. at[t] \in 1 .. 5 /\ Next_op(t) = sense[at[t]]
      BY <1>4, RoverStep
    <2>2. CASE at[t] = 2
      BY <1>2, <1>4, <2>1, <2>2, RoverOperations
    <2>3. CASE at[t] = 3
      BY <1>3, <1>4, <2>1, <2>3, RoverOperations
    <2>4. CASE at[t] \notin {2, 3}
      BY <1>1, <1>4, <2>1, <2>4, RoverOperations
    <2>5. QED
      BY <2>2, <2>3, <2>4
  <1>5. CASE t = 2
    <2>1. at[t] \in 1 .. 6 /\ Next_op(t) = process[at[t]]
      BY <1>5, RoverStep
    <2>2. CASE at[t] = 3
      BY <1>2, <1>5, <2>1, <2>2, RoverOperations
    <2>3. CASE at[t] = 4
      BY <1>3, <1>5, <2>1, <2>3, RoverOperations
    <2>4. CASE at[t] \notin {3, 4}
      BY <1>1, <1>5, <2>1, <2>4, RoverOperations
    <2>5. QED
      BY <2>2, <2>3, <2>4
  <1>6. CASE t = 3
    <2>1. at[t] \in 1 .. 5 /\ Next_op(t) = act[at[t]]
      BY <1>6, RoverStep
    <2>2. CASE at[t] = 3
      BY <1>2, <1>6, <2>1, <2>2, RoverOperations
    <2>3. CASE at[t] = 5
      BY <1>3, <1>6, <2>1, <2>3, RoverOperations
    <2>4. CASE at[t] \notin {3, 5}
      BY <1>1, <1>6, <2>1, <2>4, RoverOperations
    <2>5. QED
      BY <2>2, <2>3, <2>4
  <1>7. CASE t = 4
    <2>1. at[t] \in 1 .. 3 /\ Next_op(t) = comunicate[at[t]]
      BY <1>7, RoverStep
    <2>2. CASE at[t] = 2
      BY <1>2, <1>7, <2>1, <2>2, RoverOperations
    <2>3. CASE at[t] # 2
      BY <1>1, <1>7, <2>1, <2>3, RoverOperations
    <2>4. QED
      BY <2>2, <2>3
  <1>8. Tasks = {1, 2, 3, 4}
    BY RoverFacts
  <1>9. QED
    BY <1>4, <1>5, <1>6, <1>7, <1>8

LEMMA CountsStep ==
  ASSUME WellFormed(program), Chained(program), ChainInv, program = mars_rover, CountState,
         NEW t \in Tasks, Operates(t)
  PROVE  CountState'
  <1>1. /\ Tasks \subseteq Slots /\ register \in [Slots -> Int] /\ mem \in [Shared -> Int]
        /\ "shared" \in Shared /\ "sharedResource" \in Shared /\ t \in Slots /\ Tasks' = Tasks
    <2>1. program' = program
      BY OperationMoves DEF ChainInv
    <2>2. QED
      BY <2>1 DEF ChainInv, Types, ExTypeOK, WellFormed, Tasks, Shared
  <1> DEFINE count == Passed(2, 4)
  <1>2. /\ count \in Int /\ (count' = count \/ (count' = count + 1 /\ t = 2 /\ at[t] = 4))
        /\ t = 2 /\ at[t] = 4 => count' = count + 1
    <2>1. count \in Int /\ count' = count + IF t = 2 /\ at[t] = 4 THEN 1 ELSE 0
      BY RoverStep
    <2> HIDE DEF count
    <2>2. QED
      BY <2>1
  <1>3. /\ mem["shared"] <= count /\ mem["sharedResource"] <= count
        /\ \A u \in Tasks : register[u] <= count
    BY DEF CountState
  <1>4. /\ mem["shared"] \in Int /\ mem["sharedResource"] \in Int
        /\ \A u \in Tasks : register[u] \in Int
    BY <1>1
  <1> HIDE DEF count
  <1>5. /\ mem'["shared"] <= count' /\ mem'["sharedResource"] <= count'
        /\ \A u \in Tasks : register'[u] <= count'
    <2>1. CASE register' = register /\ mem' = mem
      BY <1>2, <1>3, <1>4, <2>1
    <2>2. CASE \E x \in {"shared", "sharedResource"} :
                 mem' = mem /\ register' = [register EXCEPT ![t] = mem[x]]
      <3>1. \A u \in Tasks : \/ register'[u] = register[u]
                             \/ register'[u] = mem["shared"]
                             \/ register'[u] = mem["sharedResource"]
        BY <1>1, <2>2
      <3>2. QED
        BY <1>2, <1>3, <1>4, <2>2, <3>1
    <2>3. CASE \E x \in {"shared", "sharedResource"} :
                 register' = register /\ mem' = [mem EXCEPT ![x] = register[t]]
      <3>1. /\ mem'["shared"] \in {mem["shared"], register[t]}
            /\ mem'["sharedResource"] \in {mem["sharedResource"], register[t]}
        BY <1>1, <2>3
      <3>2. QED
        BY <1>2, <1>3, <1>4, <2>3, <3>1
    <2>4. CASE /\ t = 2 /\ at[t] = 4 /\ register' = register
               /\ mem' = [mem EXCEPT !["sharedResource"] = register[t] + 1]
      <3>1. mem'["shared"] = mem["shared"] /\ mem'["sharedResource"] = register[t] + 1
        BY <1>1, <2>4
      <3>2. count' = count + 1
        BY <1>2, <2>4
      <3>3. QED
        BY <1>2, <1>3, <1>4, <2>4, <3>1, <3>2
    <2>5. QED
      BY <2>1, <2>2, <2>3, <2>4, RoverEffects
  <1>6. QED
    BY <1>1, <1>5 DEF CountState, count

(***************************************************************************)
(* While the sensor works on a round, all earlier rounds are through, and  *)
(* what it reads in shared is the number of the rounds that are.           *)
(***************************************************************************)
LEMMA KeptStep ==
  ASSUME WellFormed(program), Chained(program), ChainInv, program = mars_rover, KeptState,
         NEW t \in Tasks, Operates(t)
  PROVE  KeptState'
  <1>1. /\ 1 \in Slots /\ 2 \in Slots /\ 3 \in Slots /\ t \in Slots
        /\ register \in [Slots -> Int] /\ mem \in [Shared -> Int]
        /\ "shared" \in Shared /\ "sharedResource" \in Shared
        /\ round[1] \in Nat /\ round[2] \in Nat /\ round[3] \in Nat
        /\ at[1] \in Int /\ at[2] \in Int /\ at[3] \in Int /\ Types
        /\ Tasks = {1, 2, 3, 4} /\ program.setup = <<>>
    <2>1. Tasks = {1, 2, 3, 4} /\ program.setup = <<>> /\ Tasks \subseteq Slots
      BY RoverFacts DEF WellFormed, Tasks
    <2>2. QED
      BY <2>1 DEF ChainInv, Types, ExTypeOK, Shared
  <1> DEFINE count == Passed(2, 4)
  <1>2. /\ round[1] <= round[3] + 1
        /\ at[1] \in 1 .. 5 => round[1] <= round[3]
        /\ mem["shared"] = round[3] /\ mem["sharedResource"] = count
        /\ at[1] = 3 => register[1] = round[1]
        /\ at[2] = 4 => register[2] = count
        /\ at[3] \in {4, 5} => register[3] = round[3] + 1
    BY DEF KeptState
  <1>3. count \in Int /\ count' = count + IF t = 2 /\ at[t] = 4 THEN 1 ELSE 0
    BY RoverStep
  <1>12. /\ round[2] + (IF at[2] > 1 THEN 1 ELSE 0) <= round[1]
         /\ round[3] + (IF at[3] > 1 THEN 1 ELSE 0) <= round[2]
         /\ count = round[2] + (IF at[2] > 4 THEN 1 ELSE 0)
    BY RoverOrder
  <1>4. /\ \A u \in Tasks \ {t} : at'[u] = at[u] /\ round'[u] = round[u]
        /\ at[t] # Len(program.body[t]) => round'[t] = round[t] /\ at'[t] = at[t] + 1
        /\ at[t] = Len(program.body[t]) => round'[t] = round[t] + 1 /\ at'[t] = 0
    BY <1>1, LoopMoves
  <1> HIDE DEF count
  <1>5. count >= round[3] /\ count <= round[1]
    <2> DEFINE r1 == round[1]
               r2 == round[2]
               r3 == round[3]
               two == at[2]
               three == at[3]
    <2>1. /\ r1 \in Nat /\ r2 \in Nat /\ r3 \in Nat /\ two \in Int /\ three \in Int
          /\ r2 + (IF two > 1 THEN 1 ELSE 0) <= r1 /\ r3 + (IF three > 1 THEN 1 ELSE 0) <= r2
          /\ count = r2 + (IF two > 4 THEN 1 ELSE 0)
      BY <1>1, <1>12
    <2> HIDE DEF r1, r2, r3, two, three
    <2>2. count >= r3 /\ count <= r1
      BY <2>1
    <2>3. QED
      BY <2>2 DEF r1, r3
  <1>6. SUFFICES /\ round'[1] <= round'[3] + 1
                 /\ at'[1] \in 1 .. 5 => round'[1] <= round'[3]
                 /\ mem'["shared"] = round'[3] /\ mem'["sharedResource"] = count'
                 /\ at'[1] = 3 => register'[1] = round'[1]
                 /\ at'[2] = 4 => register'[2] = count'
                 /\ at'[3] \in {4, 5} => register'[3] = round'[3] + 1
    BY DEF KeptState, count
  <1>7. CASE t = 1
    <2>1. /\ at'[2] = at[2] /\ at'[3] = at[3] /\ round'[3] = round[3] /\ count' = count
      <3>1. at'[2] = at[2] /\ at'[3] = at[3] /\ round'[3] = round[3]
        BY <1>1, <1>4, <1>7
      <3>2. count' = count
        BY <1>3, <1>7
      <3>3. QED
        BY <3>1, <3>2
    <2>2. /\ at[1] \in 1 .. 5
          /\ at[1] # 5 => round'[1] = round[1] /\ at'[1] = at[1] + 1
          /\ at[1] = 5 => round'[1] = round[1] + 1 /\ at'[1] = 0
      <3>1. Len(program.body[t]) = 5
        BY <1>7, RoverFacts
      <3>2. at[1] \in 1 .. 5
        BY <1>7, RoverStep
      <3>3. at[1] # 5 => round'[1] = round[1] /\ at'[1] = at[1] + 1
        BY <1>4, <1>7, <3>1
      <3>4. at[1] = 5 => round'[1] = round[1] + 1 /\ at'[1] = 0
        BY <1>4, <1>7, <3>1
      <3>5. QED
        BY <3>2, <3>3, <3>4
    <2>3. count = round[1] /\ round[3] = round[1]
      <3>1. round[1] <= round[3]
        BY <1>2, <2>2
      <3>2. count >= round[3] /\ count <= round[1] /\ count \in Int
        BY <1>3, <1>5
      <3>3. round[1] \in Nat /\ round[3] \in Nat
        BY <1>1
      <3>4. QED
        BY <3>1, <3>2, <3>3
    <2>4. CASE at[1] = 2
      <3>1. register' = [register EXCEPT ![t] = mem["shared"]]
        BY <1>7, <2>4, RoverEffects
      <3>0. mem' = mem
        BY <1>7, <2>4, RoverEffects
      <3>2. register'[1] = mem["shared"] /\ register'[2] = register[2] /\ register'[3] = register[3]
        BY <1>1, <1>7, <3>1
      <3>3. round'[1] = round[1]
        BY <2>2, <2>4
      <3>4. QED
        <4>1. round'[1] <= round'[3] + 1 /\ round'[1] <= round'[3]
          BY <1>1, <2>1, <2>3, <3>3
        <4>2. mem'["shared"] = round'[3] /\ mem'["sharedResource"] = count'
          BY <1>2, <2>1, <3>0
        <4>3. register'[1] = round'[1]
          BY <1>2, <2>3, <3>2, <3>3
        <4>4. at'[2] = 4 => register'[2] = count'
          BY <1>2, <2>1, <3>2
        <4>5. at'[3] \in {4, 5} => register'[3] = round'[3] + 1
          BY <1>2, <2>1, <3>2
        <4>6. QED
          BY <4>1, <4>2, <4>3, <4>4, <4>5
    <2>5. CASE at[1] = 3
      <3>1. mem' = [mem EXCEPT !["sharedResource"] = register[t]]
        BY <1>7, <2>5, RoverEffects
      <3>0. register' = register
        BY <1>7, <2>5, RoverEffects
      <3>2. mem'["shared"] = mem["shared"] /\ mem'["sharedResource"] = register[1]
        BY <1>1, <1>7, <3>1
      <3>3. round'[1] = round[1] /\ at'[1] = 4
        BY <2>2, <2>5
      <3>4. QED
        <4>1. round'[1] <= round'[3] + 1 /\ round'[1] <= round'[3]
          BY <1>1, <2>1, <2>3, <3>3
        <4>2. mem'["shared"] = round'[3]
          BY <1>2, <2>1, <3>2
        <4>3. mem'["sharedResource"] = count'
          BY <1>2, <2>1, <2>3, <2>5, <3>2
        <4>4. at'[1] # 3
          BY <3>3
        <4>5. at'[2] = 4 => register'[2] = count'
          BY <1>2, <2>1, <3>0
        <4>6. at'[3] \in {4, 5} => register'[3] = round'[3] + 1
          BY <1>2, <2>1, <3>0
        <4>7. QED
          BY <4>1, <4>2, <4>3, <4>4, <4>5, <4>6
    <2>6. CASE at[1] \notin {2, 3}
      <3>1. register' = register /\ mem' = mem
        BY <1>7, <2>6, RoverEffects
      <3>2. at'[1] # 3 /\ round'[1] <= round[3] + 1 /\ (at'[1] \in 1 .. 5 => round'[1] <= round[3])
        <4>1. round[3] \in Nat /\ round[1] = round[3]
          BY <1>1, <2>3
        <4>2. CASE at[1] = 5
          BY <2>2, <4>1, <4>2
        <4>3. CASE at[1] \in {1, 4}
          BY <2>2, <4>1, <4>3
        <4>4. at[1] \in {1, 4, 5}
          BY <2>2, <2>6
        <4>5. QED
          BY <4>2, <4>3, <4>4
      <3>3. QED
        BY <1>2, <2>1, <3>1, <3>2
    <2>7. QED
      BY <2>4, <2>5, <2>6
  <1>8. CASE t = 2
    <2>1. at'[1] = at[1] /\ at'[3] = at[3] /\ round'[1] = round[1] /\ round'[3] = round[3]
      BY <1>1, <1>4, <1>8
    <2>2. CASE at[2] = 3
      <3>1. register' = [register EXCEPT ![t] = mem["sharedResource"]]
        BY <1>8, <2>2, RoverEffects
      <3>0. mem' = mem
        BY <1>8, <2>2, RoverEffects
      <3>2. /\ register'[2] = mem["sharedResource"] /\ register'[1] = register[1]
            /\ register'[3] = register[3]
        BY <1>1, <1>8, <3>1
      <3>3. count' = count
        BY <1>3, <1>8, <2>2
      <3>4. QED
        BY <1>2, <2>1, <3>0, <3>2, <3>3
    <2>3. CASE at[2] = 4
      <3>1. mem' = [mem EXCEPT !["sharedResource"] = register[t] + 1]
        BY <1>8, <2>3, RoverEffects
      <3>0. register' = register
        BY <1>8, <2>3, RoverEffects
      <3>2. mem'["shared"] = mem["shared"] /\ mem'["sharedResource"] = register[2] + 1
        BY <1>1, <1>8, <3>1
      <3>3. count' = count + 1
        BY <1>3, <1>8, <2>3
      <3>4. at'[2] = 5
        <4>1. Len(program.body[t]) = 6
          BY <1>8, RoverFacts
        <4>2. QED
          BY <1>4, <1>8, <2>3, <4>1
      <3>5. QED
        BY <1>2, <2>1, <2>3, <3>0, <3>2, <3>3, <3>4
    <2>4. CASE at[2] \notin {3, 4}
      <3>1. register' = register /\ mem' = mem
        BY <1>8, <2>4, RoverEffects
      <3>2. count' = count
        BY <1>3, <1>8, <2>4
      <3>3. at'[2] # 4
        BY <1>1, <1>4, <1>8, <2>4
      <3>4. QED
        BY <1>2, <2>1, <3>1, <3>2, <3>3
    <2>5. QED
      BY <2>2, <2>3, <2>4
  <1>9. CASE t = 3
    <2>1. at'[1] = at[1] /\ at'[2] = at[2] /\ round'[1] = round[1] /\ count' = count
      <3>1. at'[1] = at[1] /\ at'[2] = at[2] /\ round'[1] = round[1]
        BY <1>1, <1>4, <1>9
      <3>2. count' = count
        BY <1>3, <1>9
      <3>3. QED
        BY <3>1, <3>2
    <2>2. /\ at[3] \in 1 .. 5
          /\ at[3] # 5 => round'[3] = round[3] /\ at'[3] = at[3] + 1
          /\ at[3] = 5 => round'[3] = round[3] + 1 /\ at'[3] = 0
      <3>1. Len(program.body[t]) = 5
        BY <1>9, RoverFacts
      <3>2. at[3] \in 1 .. 5
        BY <1>9, RoverStep
      <3>3. at[3] # 5 => round'[3] = round[3] /\ at'[3] = at[3] + 1
        BY <1>4, <1>9, <3>1
      <3>4. at[3] = 5 => round'[3] = round[3] + 1 /\ at'[3] = 0
        BY <1>4, <1>9, <3>1
      <3>5. QED
        BY <3>2, <3>3, <3>4
    <2>3. CASE at[3] = 3
      <3>1. register' = [register EXCEPT ![t] = mem["sharedResource"]]
        BY <1>9, <2>3, RoverEffects
      <3>0. mem' = mem
        BY <1>9, <2>3, RoverEffects
      <3>2. /\ register'[3] = mem["sharedResource"] /\ register'[1] = register[1]
            /\ register'[2] = register[2]
        BY <1>1, <1>9, <3>1
      <3>3. count = round[3] + 1
        <4>1. round[3] + 1 <= round[2] /\ round[2] <= count
          <5>1. round[3] + 1 <= round[2]
            BY <1>12, <2>3
          <5>2. count = round[2] + (IF at[2] > 4 THEN 1 ELSE 0)
            BY <1>12
          <5>4. round[2] \in Nat /\ round[3] \in Nat
            BY <1>1
          <5>3. count = round[2] \/ count = round[2] + 1
            BY <5>2, <5>4
          <5>5. QED
            BY <5>1, <5>3, <5>4
        <4>2. count <= round[1] /\ round[1] <= round[3] + 1
          BY <1>2, <1>5
        <4>3. count \in Int
          BY <1>3
        <4>4. round[1] \in Nat /\ round[2] \in Nat /\ round[3] \in Nat
          BY <1>1
        <4>5. QED
          BY <4>1, <4>2, <4>3, <4>4
      <3>4. round'[3] = round[3]
        BY <2>2, <2>3
      <3>5. QED
        BY <1>2, <2>1, <3>0, <3>2, <3>3, <3>4
    <2>4. CASE at[3] = 5
      <3>1. mem' = [mem EXCEPT !["shared"] = register[t]]
        BY <1>9, <2>4, RoverEffects
      <3>0. register' = register
        BY <1>9, <2>4, RoverEffects
      <3>2. mem'["shared"] = register[3] /\ mem'["sharedResource"] = mem["sharedResource"]
        BY <1>1, <1>9, <3>1
      <3>3. round'[3] = round[3] + 1 /\ at'[3] = 0
        BY <2>2, <2>4
      <3>4. QED
        BY <1>1, <1>2, <2>1, <2>4, <3>0, <3>2, <3>3
    <2>5. CASE at[3] \notin {3, 5}
      <3>1. register' = register /\ mem' = mem
        BY <1>9, <2>5, RoverEffects
      <3>2. round'[3] = round[3] /\ (at'[3] \in {4, 5} => at[3] \in {4, 5})
        BY <2>2, <2>5
      <3>3. QED
        BY <1>2, <2>1, <3>1, <3>2
    <2>6. QED
      BY <2>3, <2>4, <2>5
  <1>10. CASE t = 4
    <2>1. /\ at'[1] = at[1] /\ at'[2] = at[2] /\ at'[3] = at[3]
          /\ round'[1] = round[1] /\ round'[3] = round[3] /\ count' = count
      <3>1. /\ at'[1] = at[1] /\ at'[2] = at[2] /\ at'[3] = at[3]
            /\ round'[1] = round[1] /\ round'[3] = round[3]
        BY <1>1, <1>4, <1>10
      <3>2. count' = count
        BY <1>3, <1>10
      <3>3. QED
        BY <3>1, <3>2
    <2>2. mem' = mem /\ (register' = register
             \/ register' = [register EXCEPT ![t] = mem["sharedResource"]])
      BY <1>10, RoverEffects
    <2>3. register'[1] = register[1] /\ register'[2] = register[2] /\ register'[3] = register[3]
      BY <1>1, <1>10, <2>2
    <2>4. QED
      BY <1>2, <2>1, <2>2, <2>3
  <1>11. QED
    BY <1>1, <1>7, <1>8, <1>9, <1>10

LEMMA RoverSteps ==
  ASSUME \A prog \in Programs : WellFormed(prog) /\ Chained(prog), RoverInv, [ExNext]_exVars
  PROVE  RoverInv'
  <1>1. ChainInv' /\ Types /\ ChainInv /\ WellFormed(program) /\ Chained(program)
    BY ChainSteps DEF RoverInv, ChainInv, Types, ExTypeOK
  <1>2. Moves \/ \E t \in Tasks : Operates(t)
    BY <1>1, AnyStep
  <1>3. program' = program /\ punctual' = punctual
    BY <1>1, <1>2, OperationMoves DEF Moves
  <1>4. ASSUME program = mars_rover
        PROVE  CountState' /\ (punctual => KeptState')
    <2>1. CountState /\ (punctual => KeptState)
      BY <1>4 DEF RoverInv
    <2>2. ASSUME Moves
          PROVE  CountState' /\ (punctual => KeptState')
      <3>1. UNCHANGED <<register, round, mem>> /\ Tasks' = Tasks
        BY <1>3, <2>2 DEF Moves, Tasks
      <3>2. Passed(2, 4)' = Passed(2, 4)
        <4>1. \A u \in Tasks : \A n \in Nat \ {0} : Passed(u, n)' = Passed(u, n)
          BY <1>1, <2>2, PassedByMove
        <4>2. 2 \in Tasks
          BY <1>4, RoverFacts
        <4>3. QED
          BY <4>1, <4>2
      <3>3. CountState'
        BY <2>1, <3>1, <3>2 DEF CountState
      <3>4. ASSUME punctual
            PROVE  KeptState'
        <4>1. KeptState
          BY <2>1, <3>4
        <4>2. \A u \in Tasks : \/ at'[u] = at[u]
                               \/ at'[u] \in {0, -2}
                               \/ at'[u] = 1 /\ round[u] <= finished
          <5>1. program.setup = <<>> /\ Len(program.setup) = 0
            BY <1>4, RoverFacts
          <5>2. Len(program.stages) = 3
            <6>1. program.stages = <<[task |-> 1, op |-> 5], [task |-> 2, op |-> 6],
                                     [task |-> 3, op |-> 5]>>
              BY <1>4, RoverFacts
            <6>2. QED
              BY <6>1
          <5>3. program.stages # <<>>
            BY <5>2
          <5>4. QED
            BY <2>2, <3>4, <5>1, <5>3 DEF Moves, KeptUp, Unborn, Top, Ended
        <4>3. 1 \in Tasks /\ 2 \in Tasks /\ 3 \in Tasks /\ finished = round[3]
          BY <1>1, <1>4, RoverFacts, RoverOrder
        <4>4. /\ at'[1] = at[1] \/ at'[1] \in {0, -2} \/ (at'[1] = 1 /\ round[1] <= round[3])
              /\ at'[2] = at[2] \/ at'[2] \in {0, -2, 1}
              /\ at'[3] = at[3] \/ at'[3] \in {0, -2, 1}
          BY <4>2, <4>3
        <4>5. QED
          BY <3>1, <3>2, <4>1, <4>4 DEF KeptState
      <3>5. QED
        BY <3>3, <3>4
    <2>3. ASSUME NEW t \in Tasks, Operates(t)
          PROVE  CountState' /\ (punctual => KeptState')
      <3>1. CountState'
        BY <1>1, <1>4, <2>1, <2>3, CountsStep
      <3>2. punctual => KeptState'
        BY <1>1, <1>4, <2>1, <2>3, KeptStep
      <3>3. QED
        BY <3>1, <3>2
    <2>4. QED
      BY <1>2, <2>2, <2>3
  <1>5. QED
    BY <1>1, <1>3, <1>4 DEF RoverInv

(***************************************************************************)
(* The loop of mars_rover.c: no count is ever above what the processor has *)
(* counted, and while the tasks keep their periods shared holds the number *)
(* of rounds the actuator has finished, so that none is lost.              *)
(***************************************************************************)
THEOREM RoundsAreCounted ==
  ASSUME \A prog \in Programs : WellFormed(prog) /\ Chained(prog) /\ Recognised(prog)
  PROVE  ExSpec => []FeedbackCounts
  <1>1. ExInit => RoverInv
    <2>1. SUFFICES ASSUME ExInit PROVE RoverInv
      OBVIOUS
    <2>2. ChainInv /\ \A u \in Tasks : \A n \in Nat : Passed(u, n) = 0
      BY <2>1, ChainStarts
    <2>3. ASSUME program = mars_rover
          PROVE  CountState /\ KeptState
      <3>1. /\ 1 \in Slots /\ 2 \in Slots /\ 3 \in Slots /\ Tasks \subseteq Slots
            /\ "shared" \in Shared /\ "sharedResource" \in Shared
        BY <2>1 DEF Slots, Shared, ExInit, WellFormed, Tasks
      <3>2. /\ at[1] = -1 /\ at[2] = -1 /\ at[3] = -1 /\ round[1] = 0 /\ round[3] = 0
            /\ mem["shared"] = 0 /\ mem["sharedResource"] = 0
            /\ \A u \in Tasks : register[u] = 0
        BY <2>1, <3>1 DEF ExInit, Unborn
      <3>3. Passed(2, 4) = 0
        BY <2>2, <2>3, RoverFacts
      <3>4. CountState
        BY <3>2, <3>3 DEF CountState
      <3>5. KeptState
        BY <3>2, <3>3 DEF KeptState
      <3>6. QED
        BY <3>4, <3>5
    <2>4. QED
      BY <2>2, <2>3 DEF RoverInv
  <1>2. RoverInv /\ [ExNext]_exVars => RoverInv'
    BY RoverSteps
  <1>3. RoverInv => FeedbackCounts
    <2>1. SUFFICES ASSUME RoverInv, program.tasks = mars_rover.tasks
                   PROVE  /\ mem["shared"] <= Passed(2, 4)
                          /\ punctual => mem["shared"] = done[3]
      BY DEF FeedbackCounts
    <2>2. /\ program = mars_rover /\ WellFormed(program) /\ Chained(program) /\ ChainInv
      BY <2>1 DEF RoverInv, ChainInv, Types, ExTypeOK, Recognised
    <2>3. done[3] = round[3]
      BY <2>2, RoverOrder
    <2>4. QED
      BY <2>1, <2>2, <2>3 DEF RoverInv, CountState, KeptState
  <1>4. QED
    BY <1>1, <1>2, <1>3, PTL DEF ExSpec

(***************************************************************************)
(* The other programs compute what they are about: scans over inputs of    *)
(* their own (sfcModel.c), alternating updates (semaphore.c), and          *)
(* parameters of their own (multitask.c).                                  *)
(***************************************************************************)
THEOREM ProgramsComputeAlways ==
  ASSUME \A prog \in Programs :
           WellFormed(prog) /\ Chained(prog) /\ Private(prog) /\ Recognised(prog)
  PROVE  ExSpec => []ProgramsCompute
  <1>1. ExSpec => []ScanSeesItsInputs
    BY ScansSeeTheirInputs
  <1>2. ExSpec => []Turns
    BY UpdatesAlternate
  <1>3. ExSpec => []OwnParameters
    BY ParametersAreOwn
  <1>4. ScanSeesItsInputs /\ Turns /\ OwnParameters => ProgramsCompute
    BY DEF ProgramsCompute
  <1>5. QED
    BY <1>1, <1>2, <1>3, <1>4, PTL

-----------------------------------------------------------------------------
(* The shape of mars_rover.c that the theorems take for granted.           *)

LEMMA RoverScripts ==
  /\ Len(mars_rover.tasks) = 4 /\ Len(mars_rover.setup) = 0
  /\ DOMAIN mars_rover.sem = {"sensingDone", "processingDone", "exLock"}
  /\ mars_rover.sem["sensingDone"] = 0 /\ mars_rover.sem["processingDone"] = 0
  /\ ScriptOf(mars_rover, 1) = sense /\ ScriptOf(mars_rover, 2) = process
  /\ ScriptOf(mars_rover, 3) = act /\ ScriptOf(mars_rover, 4) = comunicate
  /\ mars_rover.body[1] = sense /\ mars_rover.body[2] = process /\ mars_rover.body[3] = act
  /\ Len(sense) = 5 /\ Len(process) = 6 /\ Len(act) = 5 /\ Len(comunicate) = 3
  /\ mars_rover.stages = <<[task |-> 1, op |-> 5], [task |-> 2, op |-> 6],
                           [task |-> 3, op |-> 5]>>
  <1>1. /\ Len(mars_rover.tasks) = 4 /\ mars_rover.setup = <<>> /\ Len(mars_rover.setup) = 0
        /\ mars_rover.body = <<sense, process, act, comunicate>>
        /\ mars_rover.stages = <<[task |-> 1, op |-> 5], [task |-> 2, op |-> 6],
                                 [task |-> 3, op |-> 5]>>
        /\ mars_rover.sem = [sensingDone |-> 0, processingDone |-> 0, exLock |-> 1]
    BY DEF mars_rover, Nothing
  <1>2. /\ mars_rover.body[1] = sense /\ mars_rover.body[2] = process
        /\ mars_rover.body[3] = act /\ mars_rover.body[4] = comunicate
    BY <1>1
  <1>3. Len(sense) = 5 /\ <<>> \o sense = sense
    BY DEF sense
  <1>4. Len(process) = 6 /\ <<>> \o process = process
    BY DEF process
  <1>5. Len(act) = 5 /\ <<>> \o act = act
    BY DEF act
  <1>6. Len(comunicate) = 3 /\ <<>> \o comunicate = comunicate
    BY DEF comunicate
  <1>7. /\ DOMAIN mars_rover.sem = {"sensingDone", "processingDone", "exLock"}
        /\ mars_rover.sem["sensingDone"] = 0 /\ mars_rover.sem["processingDone"] = 0
    BY <1>1
  <1>8. QED
    BY <1>1, <1>2, <1>3, <1>4, <1>5, <1>6, <1>7 DEF ScriptOf

(***************************************************************************)
(* Where the tasks of the rover take and give semaphores.                  *)
(***************************************************************************)
LEMMA RoverUses ==
  /\ \A k \in 1 .. 5 : \A s : (sense[k] = P(s) <=> k = 1 /\ s = "exLock")
       /\ (sense[k] = V(s) <=> (k = 4 /\ s = "exLock") \/ (k = 5 /\ s = "sensingDone"))
  /\ \A k \in 1 .. 6 : \A s :
       /\ process[k] = P(s) <=> (k = 1 /\ s = "sensingDone") \/ (k = 2 /\ s = "exLock")
       /\ process[k] = V(s) <=> (k = 5 /\ s = "exLock") \/ (k = 6 /\ s = "processingDone")
  /\ \A k \in 1 .. 5 : \A s :
       /\ act[k] = P(s) <=> (k = 1 /\ s = "processingDone") \/ (k = 2 /\ s = "exLock")
       /\ act[k] = V(s) <=> k = 4 /\ s = "exLock"
  /\ \A k \in 1 .. 3 : \A s :
       /\ comunicate[k] = P(s) <=> k = 1 /\ s = "exLock"
       /\ comunicate[k] = V(s) <=> k = 3 /\ s = "exLock"
  <1>1. \A k \in 1 .. 5 : \A s : (sense[k] = P(s) <=> k = 1 /\ s = "exLock")
       /\ (sense[k] = V(s) <=> (k = 4 /\ s = "exLock") \/ (k = 5 /\ s = "sensingDone"))
    <2>1. /\ sense[1] = P("exLock") /\ sense[2] = Load("shared")
          /\ sense[3] = Store("sharedResource") /\ sense[4] = V("exLock")
          /\ sense[5] = V("sensingDone")
      BY DEF sense
    <2>2. QED
      BY <2>1, OperationsAreDistinct
  <1>2. \A k \in 1 .. 6 : \A s :
       /\ process[k] = P(s) <=> (k = 1 /\ s = "sensingDone") \/ (k = 2 /\ s = "exLock")
       /\ process[k] = V(s) <=> (k = 5 /\ s = "exLock") \/ (k = 6 /\ s = "processingDone")
    <2>1. /\ process[1] = P("sensingDone") /\ process[2] = P("exLock")
          /\ process[3] = Load("sharedResource") /\ process[4] = StoreNext("sharedResource")
          /\ process[5] = V("exLock") /\ process[6] = V("processingDone")
      BY DEF process
    <2>2. QED
      BY <2>1, OperationsAreDistinct
  <1>3. \A k \in 1 .. 5 : \A s :
       /\ act[k] = P(s) <=> (k = 1 /\ s = "processingDone") \/ (k = 2 /\ s = "exLock")
       /\ act[k] = V(s) <=> k = 4 /\ s = "exLock"
    <2>1. /\ act[1] = P("processingDone") /\ act[2] = P("exLock")
          /\ act[3] = Load("sharedResource") /\ act[4] = V("exLock") /\ act[5] = Store("shared")
      BY DEF act
    <2>2. QED
      BY <2>1, OperationsAreDistinct
  <1>4. \A k \in 1 .. 3 : \A s :
       /\ comunicate[k] = P(s) <=> k = 1 /\ s = "exLock"
       /\ comunicate[k] = V(s) <=> k = 3 /\ s = "exLock"
    <2>1. /\ comunicate[1] = P("exLock") /\ comunicate[2] = Load("sharedResource")
          /\ comunicate[3] = V("exLock")
      BY DEF comunicate
    <2>2. QED
      BY <2>1, OperationsAreDistinct
  <1>5. QED
    BY <1>1, <1>2, <1>3, <1>4

\* Where the tasks of the rover take and give each semaphore.
RoverTakes(t, k, s) ==
  \/ s = "sensingDone" /\ t = 2 /\ k = 1
  \/ s = "processingDone" /\ t = 3 /\ k = 1
  \/ s = "exLock" /\ k = IF t \in {2, 3} THEN 2 ELSE 1

RoverGives(t, k, s) ==
  \/ s = "sensingDone" /\ t = 1 /\ k = 5
  \/ s = "processingDone" /\ t = 2 /\ k = 6
  \/ s = "exLock" /\ k = IF t = 2 THEN 5 ELSE IF t = 4 THEN 3 ELSE 4

(***************************************************************************)
(* In mars_rover.c nobody waits for a semaphore inside exLock, and         *)
(* sensingDone and processingDone carry each round from the sensor to the  *)
(* processor and from there to the actuator: what HoldersRun and           *)
(* StagesImplementPipeline ask of a program is true of the rover.          *)
(***************************************************************************)
THEOREM RoverHasItsShape == Unnested(mars_rover) /\ Chained(mars_rover)
  <1> DEFINE At(t) == ScriptOf(mars_rover, t)
             Upto(t) == 1 .. Len(At(t))
  <1>1. \A t \in 1 .. 4 : Upto(t) = IF t = 2 THEN 1 .. 6 ELSE IF t = 4 THEN 1 .. 3 ELSE 1 .. 5
    BY RoverScripts
  <1>2. \A t \in 1 .. 4 : \A k \in Upto(t) : \A s : At(t)[k] = P(s) <=> RoverTakes(t, k, s)
    <2>1. ASSUME NEW k \in Upto(1), NEW s PROVE At(1)[k] = P(s) <=> RoverTakes(1, k, s)
      <3>1. k \in 1 .. 5 /\ At(1)[k] = sense[k]
        BY RoverScripts
      <3>2. QED
        BY <3>1, RoverUses DEF RoverTakes
    <2>2. ASSUME NEW k \in Upto(2), NEW s PROVE At(2)[k] = P(s) <=> RoverTakes(2, k, s)
      <3>1. k \in 1 .. 6 /\ At(2)[k] = process[k]
        BY RoverScripts
      <3>2. QED
        BY <3>1, RoverUses DEF RoverTakes
    <2>3. ASSUME NEW k \in Upto(3), NEW s PROVE At(3)[k] = P(s) <=> RoverTakes(3, k, s)
      <3>1. k \in 1 .. 5 /\ At(3)[k] = act[k]
        BY RoverScripts
      <3>2. QED
        BY <3>1, RoverUses DEF RoverTakes
    <2>4. ASSUME NEW k \in Upto(4), NEW s PROVE At(4)[k] = P(s) <=> RoverTakes(4, k, s)
      <3>1. k \in 1 .. 3 /\ At(4)[k] = comunicate[k]
        BY RoverScripts
      <3>2. QED
        BY <3>1, RoverUses DEF RoverTakes
    <2> HIDE DEF At, Upto, RoverTakes
    <2>5. \A t \in 1 .. 4 : t = 1 \/ t = 2 \/ t = 3 \/ t = 4
      OBVIOUS
    <2>6. QED
      BY <2>1, <2>2, <2>3, <2>4, <2>5
  <1>3. \A t \in 1 .. 4 : \A k \in Upto(t) : \A s : At(t)[k] = V(s) <=> RoverGives(t, k, s)
    <2>1. ASSUME NEW k \in Upto(1), NEW s PROVE At(1)[k] = V(s) <=> RoverGives(1, k, s)
      <3>1. k \in 1 .. 5 /\ At(1)[k] = sense[k]
        BY RoverScripts
      <3>2. QED
        BY <3>1, RoverUses DEF RoverGives
    <2>2. ASSUME NEW k \in Upto(2), NEW s PROVE At(2)[k] = V(s) <=> RoverGives(2, k, s)
      <3>1. k \in 1 .. 6 /\ At(2)[k] = process[k]
        BY RoverScripts
      <3>2. QED
        BY <3>1, RoverUses DEF RoverGives
    <2>3. ASSUME NEW k \in Upto(3), NEW s PROVE At(3)[k] = V(s) <=> RoverGives(3, k, s)
      <3>1. k \in 1 .. 5 /\ At(3)[k] = act[k]
        BY RoverScripts
      <3>2. QED
        BY <3>1, RoverUses DEF RoverGives
    <2>4. ASSUME NEW k \in Upto(4), NEW s PROVE At(4)[k] = V(s) <=> RoverGives(4, k, s)
      <3>1. k \in 1 .. 3 /\ At(4)[k] = comunicate[k]
        BY RoverScripts
      <3>2. QED
        BY <3>1, RoverUses DEF RoverGives
    <2> HIDE DEF At, Upto, RoverGives
    <2>5. \A t \in 1 .. 4 : t = 1 \/ t = 2 \/ t = 3 \/ t = 4
      OBVIOUS
    <2>6. QED
      BY <2>1, <2>2, <2>3, <2>4, <2>5
  <1>4. Len(mars_rover.tasks) = 4 /\ Len(mars_rover.setup) = 0
    BY RoverScripts
  <1>5. Unnested(mars_rover)
    <2>1. SUFFICES ASSUME NEW t \in 1 .. 4, NEW s, NEW k \in Upto(t), NEW r,
                          NEW p \in 1 .. k - 1, At(t)[p] = P(s),
                          NEW q \in k .. Len(At(t)), At(t)[q] = V(s), At(t)[k] = P(r)
                   PROVE  FALSE
      BY <1>4 DEF Unnested
    <2>2. p \in Upto(t) /\ q \in Upto(t) /\ p < k
      BY <1>1
    <2> HIDE DEF At, Upto
    <2>3. k = 2 /\ p = 1 /\ t \in {2, 3}
      BY <2>1, <2>2, <1>1, <1>2 DEF RoverTakes
    <2>4. (t = 2 /\ s = "sensingDone") \/ (t = 3 /\ s = "processingDone")
      BY <2>1, <2>2, <2>3, <1>2 DEF RoverTakes
    <2>5. QED
      BY <2>1, <2>2, <2>3, <2>4, <1>1, <1>3 DEF RoverGives
  <1>6. Carries(mars_rover, "sensingDone", [task |-> 1, op |-> 5], [task |-> 2, op |-> 6])
    <2> DEFINE from == [task |-> 1, op |-> 5]
               to == [task |-> 2, op |-> 6]
    <2> HIDE DEF At, Upto
    <2>1. \A t \in 1 .. 4 : \A k \in Upto(t) :
            /\ At(t)[k] = P("sensingDone") <=> t = 2 /\ k = 1
            /\ At(t)[k] = V("sensingDone") <=> t = 1 /\ k = 5
      BY <1>2, <1>3 DEF RoverTakes, RoverGives
    <2>2. \A t \in 1 .. Len(mars_rover.tasks) : \A k \in 1 .. Len(ScriptOf(mars_rover, t)) :
            /\ ScriptOf(mars_rover, t)[k] = P("sensingDone")
                 <=> t = to.task /\ k = Len(mars_rover.setup) + 1
            /\ ScriptOf(mars_rover, t)[k] = V("sensingDone")
                 <=> t = from.task /\ k = Len(mars_rover.setup) + from.op
      BY <1>4, <2>1 DEF At, Upto
    <2>3. mars_rover.sem["sensingDone"] = 0 /\ 1 \in 1 .. to.op
      BY RoverScripts
    <2> HIDE DEF from, to
    <2>4. Carries(mars_rover, "sensingDone", from, to)
      BY <2>2, <2>3 DEF Carries
    <2>5. QED
      BY <2>4 DEF from, to
  <1>7. Carries(mars_rover, "processingDone", [task |-> 2, op |-> 6], [task |-> 3, op |-> 5])
    <2> DEFINE from == [task |-> 2, op |-> 6]
               to == [task |-> 3, op |-> 5]
    <2> HIDE DEF At, Upto
    <2>1. \A t \in 1 .. 4 : \A k \in Upto(t) :
            /\ At(t)[k] = P("processingDone") <=> t = 3 /\ k = 1
            /\ At(t)[k] = V("processingDone") <=> t = 2 /\ k = 6
      BY <1>2, <1>3 DEF RoverTakes, RoverGives
    <2>2. \A t \in 1 .. Len(mars_rover.tasks) : \A k \in 1 .. Len(ScriptOf(mars_rover, t)) :
            /\ ScriptOf(mars_rover, t)[k] = P("processingDone")
                 <=> t = to.task /\ k = Len(mars_rover.setup) + 1
            /\ ScriptOf(mars_rover, t)[k] = V("processingDone")
                 <=> t = from.task /\ k = Len(mars_rover.setup) + from.op
      BY <1>4, <2>1 DEF At, Upto
    <2>3. mars_rover.sem["processingDone"] = 0 /\ 1 \in 1 .. to.op
      BY RoverScripts
    <2> HIDE DEF from, to
    <2>4. Carries(mars_rover, "processingDone", from, to)
      BY <2>2, <2>3 DEF Carries
    <2>5. QED
      BY <2>4 DEF from, to
  <1>8. Chained(mars_rover)
    <2>1. /\ mars_rover.stages \in Seq([task : 1 .. 4, op : Nat \ {0}])
          /\ Len(mars_rover.stages) = 3
          /\ mars_rover.stages[1] = [task |-> 1, op |-> 5]
          /\ mars_rover.stages[2] = [task |-> 2, op |-> 6]
          /\ mars_rover.stages[3] = [task |-> 3, op |-> 5]
      BY RoverScripts
    <2>2. \A k \in 1 .. 3 : mars_rover.stages[k].op <= Len(mars_rover.body[mars_rover.stages[k].task])
      <3>1. 5 <= Len(mars_rover.body[1]) /\ 6 <= Len(mars_rover.body[2])
            /\ 5 <= Len(mars_rover.body[3])
        BY RoverScripts
      <3>2. \A k \in 1 .. 3 : k = 1 \/ k = 2 \/ k = 3
        OBVIOUS
      <3>3. /\ mars_rover.stages[1].task = 1 /\ mars_rover.stages[1].op = 5
            /\ mars_rover.stages[2].task = 2 /\ mars_rover.stages[2].op = 6
            /\ mars_rover.stages[3].task = 3 /\ mars_rover.stages[3].op = 5
        BY <2>1
      <3>4. QED
        BY <3>1, <3>2, <3>3
    <2>3. \A k, l \in 1 .. 3 : mars_rover.stages[k] = mars_rover.stages[l] => k = l
      <3>1. \A k \in 1 .. 3 : mars_rover.stages[k].task = k
        BY <2>1
      <3>2. QED
        BY <3>1
    <2>4. \A k \in 2 .. 3 : \E s \in DOMAIN mars_rover.sem :
            Carries(mars_rover, s, mars_rover.stages[k - 1], mars_rover.stages[k])
      <3>1. ASSUME NEW k \in 2 .. 3
            PROVE  \E s \in DOMAIN mars_rover.sem :
                     Carries(mars_rover, s, mars_rover.stages[k - 1], mars_rover.stages[k])
        <4>1. "sensingDone" \in DOMAIN mars_rover.sem /\ "processingDone" \in DOMAIN mars_rover.sem
          BY RoverScripts
        <4>2. CASE k = 2
          BY <4>1, <4>2, <1>6, <2>1
        <4>3. CASE k = 3
          BY <4>1, <4>3, <1>7, <2>1
        <4>4. QED
          BY <4>2, <4>3
      <3>2. QED
        BY <3>1
    <2>5. QED
      BY <1>4, <2>1, <2>2, <2>3, <2>4 DEF Chained
  <1>9. QED
    BY <1>5, <1>8

(***************************************************************************)
(* The same of sfcModel.c.                                                 *)
(***************************************************************************)
LEMMA SfcScripts ==
  /\ Len(sfcModel.tasks) = 3 /\ Len(sfcModel.setup) = 0
  /\ DOMAIN sfcModel.sem = {"readDone", "executionDone", "writeDone"}
  /\ \A s \in DOMAIN sfcModel.sem : sfcModel.sem[s] = 0
  /\ ScriptOf(sfcModel, 1) = sfc_sense /\ ScriptOf(sfcModel, 2) = sfc_executor
  /\ ScriptOf(sfcModel, 3) = sfc_act
  /\ sfcModel.body[1] = sfc_sense /\ sfcModel.body[2] = sfc_executor
  /\ sfcModel.body[3] = sfc_act
  /\ Len(sfc_sense) = 2 /\ Len(sfc_executor) = 5 /\ Len(sfc_act) = 3
  /\ sfcModel.stages = <<[task |-> 1, op |-> 2], [task |-> 2, op |-> 3],
                         [task |-> 3, op |-> 3], [task |-> 2, op |-> 5]>>
  <1>1. /\ Len(sfcModel.tasks) = 3 /\ sfcModel.setup = <<>> /\ Len(sfcModel.setup) = 0
        /\ sfcModel.body = <<sfc_sense, sfc_executor, sfc_act>>
        /\ sfcModel.stages = <<[task |-> 1, op |-> 2], [task |-> 2, op |-> 3],
                               [task |-> 3, op |-> 3], [task |-> 2, op |-> 5]>>
        /\ sfcModel.sem = [readDone |-> 0, executionDone |-> 0, writeDone |-> 0]
    BY DEF sfcModel, Nothing
  <1>2. /\ sfcModel.body[1] = sfc_sense /\ sfcModel.body[2] = sfc_executor
        /\ sfcModel.body[3] = sfc_act
    BY <1>1
  <1>3. Len(sfc_sense) = 2 /\ <<>> \o sfc_sense = sfc_sense
    BY DEF sfc_sense
  <1>4. Len(sfc_executor) = 5 /\ <<>> \o sfc_executor = sfc_executor
    BY DEF sfc_executor
  <1>5. Len(sfc_act) = 3 /\ <<>> \o sfc_act = sfc_act
    BY DEF sfc_act
  <1>6. /\ DOMAIN sfcModel.sem = {"readDone", "executionDone", "writeDone"}
        /\ \A s \in DOMAIN sfcModel.sem : sfcModel.sem[s] = 0
    BY <1>1
  <1>7. QED
    BY <1>1, <1>2, <1>3, <1>4, <1>5, <1>6 DEF ScriptOf

LEMMA SfcUses ==
  /\ \A k \in 1 .. 2 : \A s : sfc_sense[k] # P(s)
       /\ (sfc_sense[k] = V(s) <=> k = 2 /\ s = "readDone")
  /\ \A k \in 1 .. 5 : \A s :
       /\ sfc_executor[k] = P(s) <=> (k = 1 /\ s = "readDone") \/ (k = 4 /\ s = "writeDone")
       /\ sfc_executor[k] = V(s) <=> k = 3 /\ s = "executionDone"
  /\ \A k \in 1 .. 3 : \A s :
       /\ sfc_act[k] = P(s) <=> k = 1 /\ s = "executionDone"
       /\ sfc_act[k] = V(s) <=> k = 3 /\ s = "writeDone"
  <1>1. \A k \in 1 .. 2 : \A s : sfc_sense[k] # P(s)
       /\ (sfc_sense[k] = V(s) <=> k = 2 /\ s = "readDone")
    <2>1. sfc_sense[1] = Input("sensors") /\ sfc_sense[2] = V("readDone")
      BY DEF sfc_sense
    <2>2. QED
      BY <2>1, OperationsAreDistinct
  <1>2. \A k \in 1 .. 5 : \A s :
       /\ sfc_executor[k] = P(s) <=> (k = 1 /\ s = "readDone") \/ (k = 4 /\ s = "writeDone")
       /\ sfc_executor[k] = V(s) <=> k = 3 /\ s = "executionDone"
    <2>1. /\ sfc_executor[1] = P("readDone") /\ sfc_executor[2] = Load("sensors")
          /\ sfc_executor[3] = V("executionDone") /\ sfc_executor[4] = P("writeDone")
          /\ sfc_executor[5] = Load("sensors")
      BY DEF sfc_executor
    <2>2. QED
      BY <2>1, OperationsAreDistinct
  <1>3. \A k \in 1 .. 3 : \A s :
       /\ sfc_act[k] = P(s) <=> k = 1 /\ s = "executionDone"
       /\ sfc_act[k] = V(s) <=> k = 3 /\ s = "writeDone"
    <2>1. /\ sfc_act[1] = P("executionDone") /\ sfc_act[2] = Work
          /\ sfc_act[3] = V("writeDone")
      BY DEF sfc_act
    <2>2. QED
      BY <2>1, OperationsAreDistinct
  <1>4. QED
    BY <1>1, <1>2, <1>3

SfcTakes(t, k, s) ==
  \/ s = "readDone" /\ t = 2 /\ k = 1
  \/ s = "executionDone" /\ t = 3 /\ k = 1
  \/ s = "writeDone" /\ t = 2 /\ k = 4

SfcGives(t, k, s) ==
  \/ s = "readDone" /\ t = 1 /\ k = 2
  \/ s = "executionDone" /\ t = 2 /\ k = 3
  \/ s = "writeDone" /\ t = 3 /\ k = 3

(***************************************************************************)
(* In sfcModel.c readDone, executionDone and writeDone carry each scan     *)
(* from the reader to the executor, to the writer and back: what           *)
(* ScansSeeTheirInputs asks of a program is true of it.                    *)
(***************************************************************************)
THEOREM SfcHasItsShape == Chained(sfcModel)
  <1> DEFINE At(t) == ScriptOf(sfcModel, t)
             Upto(t) == 1 .. Len(At(t))
  <1>2. \A t \in 1 .. 3 : \A k \in Upto(t) : \A s : At(t)[k] = P(s) <=> SfcTakes(t, k, s)
    <2>1. ASSUME NEW k \in Upto(1), NEW s PROVE At(1)[k] = P(s) <=> SfcTakes(1, k, s)
      <3>1. k \in 1 .. 2 /\ At(1)[k] = sfc_sense[k]
        BY SfcScripts
      <3>2. QED
        BY <3>1, SfcUses DEF SfcTakes
    <2>2. ASSUME NEW k \in Upto(2), NEW s PROVE At(2)[k] = P(s) <=> SfcTakes(2, k, s)
      <3>1. k \in 1 .. 5 /\ At(2)[k] = sfc_executor[k]
        BY SfcScripts
      <3>2. QED
        BY <3>1, SfcUses DEF SfcTakes
    <2>3. ASSUME NEW k \in Upto(3), NEW s PROVE At(3)[k] = P(s) <=> SfcTakes(3, k, s)
      <3>1. k \in 1 .. 3 /\ At(3)[k] = sfc_act[k]
        BY SfcScripts
      <3>2. QED
        BY <3>1, SfcUses DEF SfcTakes
    <2> HIDE DEF At, Upto, SfcTakes
    <2>4. \A t \in 1 .. 3 : t = 1 \/ t = 2 \/ t = 3
      OBVIOUS
    <2>5. QED
      BY <2>1, <2>2, <2>3, <2>4
  <1>3. \A t \in 1 .. 3 : \A k \in Upto(t) : \A s : At(t)[k] = V(s) <=> SfcGives(t, k, s)
    <2>1. ASSUME NEW k \in Upto(1), NEW s PROVE At(1)[k] = V(s) <=> SfcGives(1, k, s)
      <3>1. k \in 1 .. 2 /\ At(1)[k] = sfc_sense[k]
        BY SfcScripts
      <3>2. QED
        BY <3>1, SfcUses DEF SfcGives
    <2>2. ASSUME NEW k \in Upto(2), NEW s PROVE At(2)[k] = V(s) <=> SfcGives(2, k, s)
      <3>1. k \in 1 .. 5 /\ At(2)[k] = sfc_executor[k]
        BY SfcScripts
      <3>2. QED
        BY <3>1, SfcUses DEF SfcGives
    <2>3. ASSUME NEW k \in Upto(3), NEW s PROVE At(3)[k] = V(s) <=> SfcGives(3, k, s)
      <3>1. k \in 1 .. 3 /\ At(3)[k] = sfc_act[k]
        BY SfcScripts
      <3>2. QED
        BY <3>1, SfcUses DEF SfcGives
    <2> HIDE DEF At, Upto, SfcGives
    <2>4. \A t \in 1 .. 3 : t = 1 \/ t = 2 \/ t = 3
      OBVIOUS
    <2>5. QED
      BY <2>1, <2>2, <2>3, <2>4
  <1>4. Len(sfcModel.tasks) = 3 /\ Len(sfcModel.setup) = 0
    BY SfcScripts
  <1>5. Carries(sfcModel, "readDone", [task |-> 1, op |-> 2], [task |-> 2, op |-> 3])
    <2> DEFINE from == [task |-> 1, op |-> 2]
               to == [task |-> 2, op |-> 3]
    <2> HIDE DEF At, Upto
    <2>1. \A t \in 1 .. 3 : \A k \in Upto(t) :
            /\ At(t)[k] = P("readDone") <=> t = 2 /\ k = 1
            /\ At(t)[k] = V("readDone") <=> t = 1 /\ k = 2
      BY <1>2, <1>3 DEF SfcTakes, SfcGives
    <2>2. \A t \in 1 .. Len(sfcModel.tasks) : \A k \in 1 .. Len(ScriptOf(sfcModel, t)) :
            /\ ScriptOf(sfcModel, t)[k] = P("readDone")
                 <=> t = to.task /\ k = Len(sfcModel.setup) + 1
            /\ ScriptOf(sfcModel, t)[k] = V("readDone")
                 <=> t = from.task /\ k = Len(sfcModel.setup) + from.op
      BY <1>4, <2>1 DEF At, Upto
    <2>3. sfcModel.sem["readDone"] = 0 /\ 1 \in 1 .. to.op
      BY SfcScripts
    <2> HIDE DEF from, to
    <2>4. Carries(sfcModel, "readDone", from, to)
      BY <2>2, <2>3 DEF Carries
    <2>5. QED
      BY <2>4 DEF from, to
  <1>6. Carries(sfcModel, "executionDone", [task |-> 2, op |-> 3], [task |-> 3, op |-> 3])
    <2> DEFINE from == [task |-> 2, op |-> 3]
               to == [task |-> 3, op |-> 3]
    <2> HIDE DEF At, Upto
    <2>1. \A t \in 1 .. 3 : \A k \in Upto(t) :
            /\ At(t)[k] = P("executionDone") <=> t = 3 /\ k = 1
            /\ At(t)[k] = V("executionDone") <=> t = 2 /\ k = 3
      BY <1>2, <1>3 DEF SfcTakes, SfcGives
    <2>2. \A t \in 1 .. Len(sfcModel.tasks) : \A k \in 1 .. Len(ScriptOf(sfcModel, t)) :
            /\ ScriptOf(sfcModel, t)[k] = P("executionDone")
                 <=> t = to.task /\ k = Len(sfcModel.setup) + 1
            /\ ScriptOf(sfcModel, t)[k] = V("executionDone")
                 <=> t = from.task /\ k = Len(sfcModel.setup) + from.op
      BY <1>4, <2>1 DEF At, Upto
    <2>3. sfcModel.sem["executionDone"] = 0 /\ 1 \in 1 .. to.op
      BY SfcScripts
    <2> HIDE DEF from, to
    <2>4. Carries(sfcModel, "executionDone", from, to)
      BY <2>2, <2>3 DEF Carries
    <2>5. QED
      BY <2>4 DEF from, to
  <1>7. Carries(sfcModel, "writeDone", [task |-> 3, op |-> 3], [task |-> 2, op |-> 5])
    <2> DEFINE from == [task |-> 3, op |-> 3]
               to == [task |-> 2, op |-> 5]
    <2> HIDE DEF At, Upto
    <2>1. \A t \in 1 .. 3 : \A k \in Upto(t) :
            /\ At(t)[k] = P("writeDone") <=> t = 2 /\ k = 4
            /\ At(t)[k] = V("writeDone") <=> t = 3 /\ k = 3
      BY <1>2, <1>3 DEF SfcTakes, SfcGives
    <2>2. \A t \in 1 .. Len(sfcModel.tasks) : \A k \in 1 .. Len(ScriptOf(sfcModel, t)) :
            /\ ScriptOf(sfcModel, t)[k] = P("writeDone")
                 <=> t = to.task /\ k = Len(sfcModel.setup) + 4
            /\ ScriptOf(sfcModel, t)[k] = V("writeDone")
                 <=> t = from.task /\ k = Len(sfcModel.setup) + from.op
      BY <1>4, <2>1 DEF At, Upto
    <2>3. sfcModel.sem["writeDone"] = 0 /\ 4 \in 1 .. to.op
      BY SfcScripts
    <2> HIDE DEF from, to
    <2>4. Carries(sfcModel, "writeDone", from, to)
      BY <2>2, <2>3 DEF Carries
    <2>5. QED
      BY <2>4 DEF from, to
  <1>8. /\ sfcModel.stages \in Seq([task : 1 .. 3, op : Nat \ {0}])
        /\ Len(sfcModel.stages) = 4
        /\ sfcModel.stages[1] = [task |-> 1, op |-> 2]
        /\ sfcModel.stages[2] = [task |-> 2, op |-> 3]
        /\ sfcModel.stages[3] = [task |-> 3, op |-> 3]
        /\ sfcModel.stages[4] = [task |-> 2, op |-> 5]
    BY SfcScripts
  <1>9. /\ sfcModel.stages[1].task = 1 /\ sfcModel.stages[1].op = 2
        /\ sfcModel.stages[2].task = 2 /\ sfcModel.stages[2].op = 3
        /\ sfcModel.stages[3].task = 3 /\ sfcModel.stages[3].op = 3
        /\ sfcModel.stages[4].task = 2 /\ sfcModel.stages[4].op = 5
    BY <1>8
  <1>10. \A k \in 1 .. 4 : k = 1 \/ k = 2 \/ k = 3 \/ k = 4
    OBVIOUS
  <1>11. \A k \in 1 .. 4 : sfcModel.stages[k].op <= Len(sfcModel.body[sfcModel.stages[k].task])
    <2>1. /\ 2 <= Len(sfcModel.body[1]) /\ 3 <= Len(sfcModel.body[2])
          /\ 3 <= Len(sfcModel.body[3]) /\ 5 <= Len(sfcModel.body[2])
      BY SfcScripts
    <2>2. QED
      BY <1>9, <1>10, <2>1
  <1>12. \A k, l \in 1 .. 4 : sfcModel.stages[k] = sfcModel.stages[l] => k = l
    <2>1. SUFFICES ASSUME NEW k \in 1 .. 4, NEW l \in 1 .. 4,
                          sfcModel.stages[k] = sfcModel.stages[l]
                   PROVE  k = l
      OBVIOUS
    <2>2. /\ sfcModel.stages[k].op = sfcModel.stages[l].op
          /\ sfcModel.stages[k].task = sfcModel.stages[l].task
      BY <2>1
    <2>3. QED
      BY <1>9, <1>10, <2>2
  <1>13. ASSUME NEW k \in 2 .. 4
         PROVE  \E s \in DOMAIN sfcModel.sem :
                  Carries(sfcModel, s, sfcModel.stages[k - 1], sfcModel.stages[k])
    <2> DEFINE Carried(a, b) == \E s \in DOMAIN sfcModel.sem : Carries(sfcModel, s, a, b)
    <2>1. /\ "readDone" \in DOMAIN sfcModel.sem /\ "executionDone" \in DOMAIN sfcModel.sem
          /\ "writeDone" \in DOMAIN sfcModel.sem
      BY SfcScripts
    <2>2. /\ Carried([task |-> 1, op |-> 2], [task |-> 2, op |-> 3])
          /\ Carried([task |-> 2, op |-> 3], [task |-> 3, op |-> 3])
          /\ Carried([task |-> 3, op |-> 3], [task |-> 2, op |-> 5])
      BY <2>1, <1>5, <1>6, <1>7
    <2>3. \/ k = 2 /\ k - 1 = 1
          \/ k = 3 /\ k - 1 = 2
          \/ k = 4 /\ k - 1 = 3
      OBVIOUS
    <2> HIDE DEF Carried
    <2>4. Carried(sfcModel.stages[k - 1], sfcModel.stages[k])
      BY <1>8, <2>2, <2>3
    <2>5. QED
      BY <2>4 DEF Carried
  <1>14. QED
    BY <1>4, <1>8, <1>11, <1>12, <1>13 DEF Chained
=============================================================================
