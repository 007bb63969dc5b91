-------------------------- MODULE EdfClientProofs --------------------------
(***************************************************************************)
(* Proofs about the user library: the table follows the tasks that wait    *)
(* their periods, and one call of edf_init from the main thread serves the *)
(* tasks of a program.  A client step on the table is one of ArmStep,      *)
(* LookStep, WaitStep and DeleteStep, each of which keeps what the table   *)
(* says of the other tasks (Same).                                         *)
(***************************************************************************)
EXTENDS EdfClient, EdfDataProofs

USE ClientAssumption

\* ClientTypeOK without the table.
ClientControl ==
  /\ periodic \in BOOLEAN
  /\ open \subseteq 0 .. Descriptors - 1
  /\ device \in Failed .. Descriptors - 1
  /\ got \in [Thread -> Failed .. Descriptors - 1]
  /\ at \in [Thread -> Place]
  /\ left \in [Task -> 0 .. Periods]
  /\ accepted \in [Task -> BOOLEAN]
  /\ edf_event \in BOOLEAN

\* A task enters the table when it is registered; from then on its entry is
\* eligible, if it has a deadline, but while the task sleeps.
Follows ==
  \A t \in Task :
    /\ at[t] \in {"created", "checked"} => t \notin DOMAIN dtask_map
    /\ accepted[t] /\ t \in DOMAIN dtask_map =>
         /\ at[t] = "asleep" => dtask_map[t].state # "RUNNING"
         /\ at[t] \in Opening \cup {"registered", "running"}
              => dtask_map[t].state = "RUNNING"

\* The descriptor d is the only one that is open, if it is one.
IsOpen(d) ==
  \/ d = Failed /\ open = {}
  \/ d >= 0 /\ open = {d}

\* One descriptor is open from the main thread's edf_init to its edf_dispose,
\* and while main still starts tasks, it is the one that device names.
Alone ==
  ~ periodic =>
    /\ \A t \in Task :
         /\ at[t] \in Waiting \cup {"running", "ended"}
         /\ at[t] \in {"registered", "running"} => t \in DOMAIN dtask_map
         /\ at[t] \in {"checked", "registered"} => at[Main] = "running"
         /\ at[Main] \in Opening => at[t] = "created"
    /\ at[Main] \in Opening \cup {"running", "closing", "disposed", "ended"}
    /\ at[Main] \in {"initializing", "opening", "disposed"} => open = {}
    /\ at[Main] = "opened" => IsOpen(got[Main])
    /\ at[Main] = "stored" => IsOpen(device)
    /\ at[Main] \in {"running", "closing"} => device >= 0 /\ open = {device}

\* What a step leaves of the entry of task u.
Same(u) ==
  u \in DOMAIN dtask_map' =>
    u \in DOMAIN dtask_map /\ dtask_map'[u].state = dtask_map[u].state

(***************************************************************************)
(* The steps of the table that the library and the service ask for.        *)
(***************************************************************************)
LEMMA ArmStep ==
  ASSUME TypeOK, NEW t \in Task, NEW relative \in 0 .. Word - 1,
         Recalculate(Put(dtask_map, t, Armed(relative))), UNCHANGED now
  PROVE  /\ TypeOK'
         /\ DOMAIN dtask_map' = DOMAIN dtask_map \cup {t}
         /\ dtask_map'[t].state = "RUNNING"
         /\ \A u \in Task \ {t} : Same(u)
  <1> DEFINE m == Put(dtask_map, t, Armed(relative))
  <1>1. Table(m)
    BY DataAssumption, ArmedTable
  <1>2. /\ TypeOK'
        /\ DOMAIN dtask_map' = DOMAIN m
        /\ \A u \in DOMAIN m : dtask_map'[u].state = m[u].state
    BY <1>1, RecalculateFacts
  <1>3. /\ DOMAIN m = DOMAIN dtask_map \cup {t}
        /\ m[t].state = "RUNNING"
        /\ \A u \in DOMAIN m \ {t} : m[u] = dtask_map[u]
    BY DEF Put, Armed
  <1> HIDE DEF m
  <1>4. QED
    BY <1>2, <1>3 DEF Same

LEMMA LookStep ==
  ASSUME TypeOK, rt_dtask_recalculateprio
  PROVE  /\ TypeOK'
         /\ DOMAIN dtask_map' = DOMAIN dtask_map
         /\ \A u \in Task : Same(u)
  <1>1. Table(dtask_map)
    BY DEF Table, TypeOK
  <1>2. QED
    BY <1>1, RecalculateFacts DEF rt_dtask_recalculateprio, Same

LEMMA WaitStep ==
  ASSUME TypeOK, NEW t \in Task, rt_dtask_stopwatchdog(t)
  PROVE  /\ TypeOK'
         /\ DOMAIN dtask_map' = DOMAIN dtask_map
         /\ dtask_map'[t].state = "GOING_WAITP"
         /\ \A u \in Task \ {t} : Same(u)
  <1>1. t \in DOMAIN dtask_map /\ rt_dtask_goingwaitp(t)
    BY DEF rt_dtask_stopwatchdog
  <1>2. TypeOK'
    BY <1>1, NextType DEF Next
  <1>3. QED
    BY <1>1, <1>2 DEF rt_dtask_goingwaitp, Same, TypeOK, Entry

LEMMA DeleteStep ==
  ASSUME TypeOK, NEW t \in Task, rt_dtask_delete(t)
  PROVE  /\ TypeOK'
         /\ DOMAIN dtask_map' = DOMAIN dtask_map \ {t}
         /\ \A u \in Task : Same(u)
  <1>1. TypeOK'
    BY NextType DEF Next
  <1>2. QED
    BY <1>1 DEF rt_dtask_delete, Restrict, Same

\* A request that reaches no entry, and every step of the library besides.
LEMMA IdleStep ==
  ASSUME TypeOK, UNCHANGED <<now, dataVars>>
  PROVE  /\ TypeOK'
         /\ DOMAIN dtask_map' = DOMAIN dtask_map
         /\ \A u \in Task : Same(u)
  <1>1. UNCHANGED vars
    BY DEF dataVars, vars
  <1>2. QED
    BY <1>1, NextType DEF vars, Same

(***************************************************************************)
(* The client's actions on the table, and what they do to it.              *)
(***************************************************************************)
LEMMA RegisterStep ==
  ASSUME TypeOK, Follows, NEW t \in Task, Register(t)
  PROVE  /\ TypeOK'
         /\ DOMAIN dtask_map' = IF device \in open THEN DOMAIN dtask_map \cup {t}
                                                   ELSE DOMAIN dtask_map
         /\ t \in DOMAIN dtask_map' => dtask_map'[t].state = "RUNNING"
         /\ \A u \in Task \ {t} : Same(u)
  <1>1. t \notin DOMAIN dtask_map
    BY DEF Register, Follows
  <1>2. CASE device \in open
    <2>1. PICK relative \in Deadline : rt_dtask_create(t, relative)
      BY <1>2 DEF Register, Send
    <2>2. relative \in 0 .. Word - 1
      BY DataAssumption DEF DEADLINENOTSET
    <2>3. QED
      BY <1>1, <1>2, <2>1, <2>2, ArmStep DEF rt_dtask_create
  <1>3. CASE device \notin open
    BY <1>1, <1>3, IdleStep DEF Register, Send
  <1>4. QED
    BY <1>2, <1>3

LEMMA StopStep ==
  ASSUME TypeOK, NEW t \in Task, StopWatchdog(t)
  PROVE  /\ TypeOK'
         /\ DOMAIN dtask_map' = DOMAIN dtask_map
         /\ device \in open /\ t \in DOMAIN dtask_map => dtask_map'[t].state = "GOING_WAITP"
         /\ \A u \in Task \ {t} : Same(u)
  <1>1. CASE device \in open /\ t \in DOMAIN dtask_map
    <2>1. rt_dtask_stopwatchdog(t)
      BY <1>1 DEF StopWatchdog, Send, IfKnown
    <2>2. QED
      BY <1>1, <2>1, WaitStep
  <1>2. CASE ~ (device \in open /\ t \in DOMAIN dtask_map)
    <2>1. UNCHANGED <<now, dataVars>>
      BY <1>2 DEF StopWatchdog, Send, IfKnown
    <2>2. QED
      BY <1>2, <2>1, IdleStep
  <1>3. QED
    BY <1>1, <1>2

LEMMA ResetStep ==
  ASSUME TypeOK, NEW t \in Task, ResetDeadline(t)
  PROVE  /\ TypeOK'
         /\ DOMAIN dtask_map' = DOMAIN dtask_map
         /\ device \in open /\ t \in DOMAIN dtask_map => dtask_map'[t].state = "RUNNING"
         /\ \A u \in Task \ {t} : Same(u)
  <1>1. CASE device \in open /\ t \in DOMAIN dtask_map
    <2>1. rt_dtask_resetdeadline(t)
      BY <1>1 DEF ResetDeadline, Send, IfKnown
    <2>2. dtask_map[t].relative_deadline \in 0 .. Word - 1
      BY <1>1 DEF TypeOK, Entry
    <2>3. QED
      BY <1>1, <2>1, <2>2, ArmStep DEF rt_dtask_resetdeadline
  <1>2. CASE ~ (device \in open /\ t \in DOMAIN dtask_map)
    <2>1. UNCHANGED <<now, dataVars>>
      BY <1>2 DEF ResetDeadline, Send, IfKnown
    <2>2. QED
      BY <1>2, <2>1, IdleStep
  <1>3. QED
    BY <1>1, <1>2

LEMMA EndStep ==
  ASSUME TypeOK, NEW t \in Task, Delete(t)
  PROVE  /\ TypeOK'
         /\ DOMAIN dtask_map' = DOMAIN dtask_map \ {t}
         /\ \A u \in Task : Same(u)
  <1>1. CASE rt_dtask_delete(t)
    BY <1>1, DeleteStep
  <1>2. CASE t \notin DOMAIN dtask_map /\ UNCHANGED <<now, dataVars>>
    BY <1>2, IdleStep
  <1>3. QED
    BY <1>1, <1>2 DEF Delete, IfKnown

LEMMA TickStep ==
  ASSUME TypeOK, ClientTick
  PROVE  TypeOK' /\ dtask_map' = dtask_map
  <1>1. Tick
    BY DEF ClientTick
  <1>2. QED
    BY <1>1, NextType DEF Next, Tick

\* The steps that leave the table alone.
Elsewhere ==
  \/ \E p \in Thread : Library(p)
  \/ \E t \in Task : CheckDevice(t) \/ StartTask(t)
  \/ Return
  \/ CloseAll

LEMMA ElsewhereStep ==
  ASSUME Elsewhere
  PROVE  UNCHANGED <<now, dataVars, accepted, periodic>>
  BY DEF Elsewhere, Library, edf_init, Open, Store, TestDevice, Reject, edf_dispose, Close,
         ForgetDevice, CheckDevice, StartTask, Return, CloseAll, dataVars

\* The steps of the client, by what they do to the table.
LEMMA ClientSteps ==
  ASSUME [ClientNext]_clientVars
  PROVE  \/ Elsewhere
         \/ \E t \in Task : Register(t) \/ StopWatchdog(t) \/ ResetDeadline(t)
         \/ \E t \in Task : EndTask(t) \/ Kill(t)
         \/ Service
         \/ ClientTick
         \/ UNCHANGED clientVars
  BY DEF ClientNext, MainNext, TaskNext, Exit, Elsewhere, Thread

(***************************************************************************)
(* The control of the threads and of the descriptors.                      *)
(***************************************************************************)
LEMMA LowestFree ==
  ASSUME NEW free \in SUBSET (0 .. Descriptors - 1), free # {}
  PROVE  Min(free) \in free
  <1>1. \E x \in free : \A y \in free : x <= y
    BY LeastElement
  <1>2. QED
    BY <1>1 DEF Min

\* What is neither a descriptor nor -1 is a failure.
LEMMA DescriptorRange ==
  ASSUME NEW d \in Failed .. Descriptors - 1
  PROVE  /\ d >= 0 => d \in 0 .. Descriptors - 1
         /\ ~ d >= 0 => d = Failed \/ d = -1
         /\ -1 \in Failed .. Descriptors - 1
         /\ Failed # -1 /\ ~ Failed >= 0 /\ Failed < 0
         /\ d < 0 \/ d >= 0
  BY DEF Failed

LEMMA OpenFacts ==
  ASSUME NEW p \in Thread, Open(p)
  PROVE  /\ at[p] = "opening" /\ at' = [at EXCEPT ![p] = "opened"]
         /\ UNCHANGED <<device, periodic, left, accepted, edf_event>>
         /\ \E d \in Failed .. Descriptors - 1 :
              /\ got' = [got EXCEPT ![p] = d]
              /\ \/ d = Failed /\ open' = open
                 \/ d >= 0 /\ open' = open \cup {d}
  <1> DEFINE free == (0 .. Descriptors - 1) \ open
  <1>1. free # {} => Min(free) \in free
    BY LowestFree
  <1>2. /\ at[p] = "opening" /\ at' = [at EXCEPT ![p] = "opened"]
        /\ UNCHANGED <<device, periodic, left, accepted, edf_event>>
        /\ \/ /\ free # {}
              /\ got' = [got EXCEPT ![p] = Min(free)]
              /\ open' = open \cup {Min(free)}
           \/ got' = [got EXCEPT ![p] = Failed] /\ open' = open
    BY DEF Open, Go
  <1>3. CASE got' = [got EXCEPT ![p] = Failed] /\ open' = open
    <2>1. Failed \in Failed .. Descriptors - 1
      BY DEF Failed
    <2>2. QED
      BY <1>2, <1>3, <2>1
  <1>4. CASE /\ free # {}
             /\ got' = [got EXCEPT ![p] = Min(free)]
             /\ open' = open \cup {Min(free)}
    <2>1. Min(free) \in Failed .. Descriptors - 1 /\ Min(free) >= 0
      BY <1>1, <1>4 DEF Failed
    <2> HIDE DEF free
    <2>2. QED
      BY <1>2, <1>4, <2>1
  <1>5. QED
    BY <1>2, <1>3, <1>4

\* What a step of edf_init or edf_dispose may change.
LEMMA LibraryStep ==
  ASSUME ClientControl, NEW p \in Thread, Library(p)
  PROVE  /\ UNCHANGED <<periodic, left, accepted, edf_event>>
         /\ open' \subseteq 0 .. Descriptors - 1
         /\ device' \in Failed .. Descriptors - 1
         /\ got' \in [Thread -> Failed .. Descriptors - 1]
         /\ \E place \in Place :
              /\ at' = [at EXCEPT ![p] = place]
              /\ \/ at[p] \in Opening /\ place \in Opening \cup {"running", "ended"}
                 \/ at[p] \in Closing \cup {"running"} /\ place \in Closing \cup {"disposed"}
  <1> USE DEF ClientControl, Place, Opening, Closing
  <1>1. CASE Open(p)
    <2>1. PICK d \in Failed .. Descriptors - 1 :
            /\ got' = [got EXCEPT ![p] = d]
            /\ \/ d = Failed /\ open' = open
               \/ d >= 0 /\ open' = open \cup {d}
      BY <1>1, OpenFacts
    <2>2. open' \subseteq 0 .. Descriptors - 1
      <3>1. CASE open' = open
        BY <3>1
      <3>2. CASE d >= 0 /\ open' = open \cup {d}
        BY <3>2, DescriptorRange
      <3>3. QED
        BY <2>1, <3>1, <3>2
    <2>3. got' \in [Thread -> Failed .. Descriptors - 1]
      BY <2>1
    <2>4. QED
      BY <1>1, <2>2, <2>3, OpenFacts
  <1>2. CASE edf_init(p)
    BY <1>2 DEF edf_init, Go, Failed
  <1>3. CASE Store(p)
    BY <1>3 DEF Store, Go, Failed
  <1>4. CASE TestDevice(p) \/ Reject(p)
    <2>1. PICK place \in {"rejected", "running", "ended"} : at' = [at EXCEPT ![p] = place]
      BY <1>4 DEF TestDevice, Reject, Go
    <2>2. /\ UNCHANGED <<got, open, periodic, left, accepted, edf_event>>
          /\ at[p] \in Opening
      BY <1>4 DEF TestDevice, Reject, processVars
    <2>3. device' = device \/ device' = -1
      BY <1>4 DEF TestDevice, Reject, processVars
    <2>4. QED
      BY <2>1, <2>2, <2>3, DescriptorRange
  <1>5. CASE edf_dispose(p) \/ Close(p) \/ ForgetDevice(p)
    <2>1. PICK place \in {"closing", "failed", "disposed"} : at' = [at EXCEPT ![p] = place]
      BY <1>5 DEF edf_dispose, Close, ForgetDevice, Go
    <2>2. /\ UNCHANGED <<got, periodic, left, accepted, edf_event>>
          /\ at[p] \in Closing \cup {"running"}
      BY <1>5 DEF edf_dispose, Close, ForgetDevice, processVars
    <2>3. device' = device \/ device' = -1
      BY <1>5 DEF edf_dispose, Close, ForgetDevice, processVars
    <2>4. open' \subseteq open
      BY <1>5 DEF edf_dispose, Close, ForgetDevice, processVars
    <2>5. QED
      BY <2>1, <2>2, <2>3, <2>4, DescriptorRange
  <1>6. QED
    BY <1>1, <1>2, <1>3, <1>4, <1>5 DEF Library

LEMMA ControlStep ==
  ASSUME ClientControl, [ClientNext]_clientVars
  PROVE  ClientControl'
  <1> USE DEF ClientControl
  <1>1. ASSUME NEW p \in Thread, Library(p)
        PROVE  ClientControl'
    BY <1>1, LibraryStep
  <1>2. CASE Return \/ CloseAll
    BY <1>2 DEF Return, CloseAll, Go, processVars, Thread, Place
  <1>3. ASSUME NEW t \in Task, CheckDevice(t) \/ StartTask(t)
        PROVE  ClientControl'
    BY <1>3 DEF CheckDevice, StartTask, Go, processVars, Thread, Place, Opening
  <1>4. ASSUME NEW t \in Task, Register(t) \/ ResetDeadline(t) \/ EndTask(t) \/ Kill(t)
        PROVE  ClientControl'
    <2>1. /\ UNCHANGED <<processVars, periodic, left>>
          /\ \E place \in Place : at' = [at EXCEPT ![t] = place]
          /\ edf_event' \in BOOLEAN
      BY <1>4 DEF Register, ResetDeadline, EndTask, Kill, Delete, Go, Place
    <2>2. accepted' = accepted \/ accepted' = [accepted EXCEPT ![t] = device \in open]
      BY <1>4 DEF Register, ResetDeadline, EndTask, Kill, Delete, Send
    <2>3. accepted' \in [Task -> BOOLEAN]
      <3>1. \A b \in BOOLEAN : [accepted EXCEPT ![t] = b] \in [Task -> BOOLEAN]
        OBVIOUS
      <3>2. (device \in open) \in BOOLEAN
        OBVIOUS
      <3>3. QED
        BY <2>2, <3>1, <3>2, Zenon
    <2>4. QED
      BY <2>1, <2>3 DEF processVars, Thread
  <1>5. ASSUME NEW t \in Task, StopWatchdog(t)
        PROVE  ClientControl'
    <2>1. left' = [left EXCEPT ![t] = @ - 1] /\ left[t] > 0
      BY <1>5 DEF StopWatchdog
    <2>2. left' \in [Task -> 0 .. Periods]
      BY <2>1
    <2>3. QED
      BY <1>5, <2>2 DEF StopWatchdog, Send, Go, processVars, Thread, Place
  <1>6. CASE Service \/ ClientTick \/ UNCHANGED clientVars
    BY <1>6 DEF Service, ClientTick, clientVars, processVars
  <1>7. QED
    BY <1>1, <1>2, <1>3, <1>4, <1>5, <1>6, ClientSteps DEF Elsewhere

LEMMA TableStep ==
  ASSUME TypeOK, Follows, [ClientNext]_clientVars
  PROVE  TypeOK'
  <1>1. CASE Elsewhere \/ UNCHANGED clientVars
    BY <1>1, ElsewhereStep, IdleStep DEF clientVars
  <1>2. CASE Service
    BY <1>2, LookStep DEF Service
  <1>3. CASE \E t \in Task : EndTask(t) \/ Kill(t)
    BY <1>3, EndStep DEF EndTask, Kill
  <1>4. QED
    BY <1>1, <1>2, <1>3, RegisterStep, StopStep, ResetStep, TickStep, ClientSteps

(***************************************************************************)
(* The table follows the tasks.  A step of one thread p leaves the places, *)
(* the last answers and the entries of the others.                         *)
(***************************************************************************)
LEMMA OthersFollow ==
  ASSUME ClientControl, Follows, NEW u \in Task, Same(u),
         at'[u] = at[u], accepted'[u] = accepted[u]
  PROVE  /\ at'[u] \in {"created", "checked"} => u \notin DOMAIN dtask_map'
         /\ accepted'[u] /\ u \in DOMAIN dtask_map' =>
              /\ at'[u] = "asleep" => dtask_map'[u].state # "RUNNING"
              /\ at'[u] \in Opening \cup {"registered", "running"}
                   => dtask_map'[u].state = "RUNNING"
  BY DEF Follows, Same

LEMMA FollowsStep ==
  ASSUME TypeOK, ClientControl, Follows, [ClientNext]_clientVars
  PROVE  Follows'
  <1> USE DEF ClientControl, Thread
  <1>1. ASSUME NEW t \in Task,
               at' = [at EXCEPT ![t] = at'[t]],
               \A u \in Task \ {t} : accepted'[u] = accepted[u],
               \A u \in Task \ {t} : Same(u),
               at'[t] \in {"created", "checked"} => t \notin DOMAIN dtask_map',
               accepted'[t] /\ t \in DOMAIN dtask_map' =>
                 /\ at'[t] = "asleep" => dtask_map'[t].state # "RUNNING"
                 /\ at'[t] \in Opening \cup {"registered", "running"}
                      => dtask_map'[t].state = "RUNNING"
        PROVE  Follows'
    <2>1. \A u \in Task \ {t} : at'[u] = at[u]
      BY <1>1
    <2>2. QED
      BY <1>1, <2>1, OthersFollow DEF Follows
  <1>2. ASSUME NEW t \in Task, Register(t)
        PROVE  Follows'
    <2>1. /\ at' = [at EXCEPT ![t] = "registered"]
          /\ \A u \in Task \ {t} : accepted'[u] = accepted[u]
      BY <1>2 DEF Register, Send, Go
    <2>2. QED
      BY <1>1, <1>2, <2>1, RegisterStep
  <1>3. ASSUME NEW t \in Task, StopWatchdog(t)
        PROVE  Follows'
    <2>1. /\ at' = [at EXCEPT ![t] = "asleep"]
          /\ accepted' = [accepted EXCEPT ![t] = device \in open]
      BY <1>3 DEF StopWatchdog, Send, Go
    <2>2. QED
      BY <1>1, <1>3, <2>1, StopStep DEF Opening
  <1>4. ASSUME NEW t \in Task, ResetDeadline(t)
        PROVE  Follows'
    <2>1. /\ at' = [at EXCEPT ![t] = "running"]
          /\ accepted' = [accepted EXCEPT ![t] = device \in open]
      BY <1>4 DEF ResetDeadline, Send, Go
    <2>2. QED
      BY <1>1, <1>4, <2>1, ResetStep
  <1>5. ASSUME NEW t \in Task, Delete(t)
        PROVE  Follows'
    <2>1. at' = [at EXCEPT ![t] = "ended"] /\ accepted' = accepted
      BY <1>5 DEF Delete, Go
    <2>2. QED
      BY <1>1, <1>5, <2>1, EndStep DEF Opening
  <1>6. CASE Service \/ ClientTick \/ UNCHANGED clientVars
    <2>1. at' = at /\ accepted' = accepted
      BY <1>6 DEF Service, ClientTick, clientVars
    <2>2. \A u \in Task : Same(u)
      BY <1>6, LookStep, TickStep, IdleStep DEF Service, Same, clientVars, dataVars
    <2>3. QED
      BY <2>1, <2>2, OthersFollow DEF Follows
  <1>7. CASE Elsewhere
    <2>1. dtask_map' = dtask_map /\ accepted' = accepted
      BY <1>7, ElsewhereStep DEF dataVars
    <2>2. ASSUME NEW t \in Task
          PROVE  \/ at'[t] = at[t]
                 \/ at'[t] \in Closing \cup {"unstarted", "disposed", "ended"}
                 \/ at[t] = "created" /\ at'[t] = "checked"
                 \/ /\ at[t] \in Opening \cup {"registered"}
                    /\ at'[t] \in Opening \cup {"running"}
      <3>1. CASE \E p \in Thread : Library(p)
        BY <3>1, LibraryStep
      <3>2. CASE Return \/ CloseAll
        BY <3>2 DEF Return, CloseAll, Go
      <3>3. CASE \E u \in Task : CheckDevice(u) \/ StartTask(u)
        BY <3>3 DEF CheckDevice, StartTask, Go, Opening
      <3>4. QED
        BY <1>7, <3>1, <3>2, <3>3 DEF Elsewhere
    <2>3. QED
      BY <2>1, <2>2 DEF Follows, Opening, Closing
  <1>8. QED
    BY <1>2, <1>3, <1>4, <1>5, <1>6, <1>7, ClientSteps DEF EndTask, Kill

(***************************************************************************)
(* A program whose tasks do not call edf_init keeps its descriptor.        *)
(***************************************************************************)
LEMMA AloneLibrary ==
  ASSUME ClientControl, Alone, ~ periodic, NEW p \in Thread, Library(p)
  PROVE  Alone'
  <1> USE DEF ClientControl, Alone, Thread, Opening, Waiting
  <1>1. p = Main
    BY DEF Library, edf_init, Open, Store, TestDevice, Reject, edf_dispose, Close,
           ForgetDevice
  <1>2. \A t \in Task : t # Main
    OBVIOUS
  <1>3. dtask_map' = dtask_map /\ periodic' = periodic
    BY ElsewhereStep DEF Elsewhere, dataVars
  <1>4. ASSUME NEW place, at' = [at EXCEPT ![Main] = place]
        PROVE  at'[Main] = place /\ \A t \in Task : at'[t] = at[t]
    BY <1>2, <1>4
  <1>5. CASE edf_init(Main)
    <2>1. at[Main] = "initializing" /\ at' = [at EXCEPT ![Main] = "opening"] /\ open' = open
      BY <1>5 DEF edf_init, Go
    <2>2. QED
      BY <1>3, <1>4, <2>1
  <1>6. CASE Open(Main)
    <2>1. PICK d \in Failed .. Descriptors - 1 :
            /\ got' = [got EXCEPT ![Main] = d]
            /\ \/ d = Failed /\ open' = open
               \/ d >= 0 /\ open' = open \cup {d}
      BY <1>6, OpenFacts
    <2>2. at[Main] = "opening" /\ at' = [at EXCEPT ![Main] = "opened"]
      BY <1>6, OpenFacts
    <2>3. at'[Main] = "opened" /\ \A t \in Task : at'[t] = at[t]
      BY <1>4, <2>2
    <2>4. got'[Main] = d /\ open = {}
      BY <2>1, <2>2
    <2>5. IsOpen(got[Main])'
      BY <2>1, <2>4 DEF IsOpen
    <2>6. QED
      BY <1>3, <2>2, <2>3, <2>5
  <1>7. CASE Store(Main)
    <2>1. /\ at[Main] = "opened" /\ at' = [at EXCEPT ![Main] = "stored"]
          /\ device' = got[Main] /\ open' = open
      BY <1>7 DEF Store, Go
    <2>2. IsOpen(device)'
      BY <2>1 DEF IsOpen
    <2>3. QED
      BY <1>3, <1>4, <2>1, <2>2
  <1>8. CASE TestDevice(Main)
    <2>1. /\ at[Main] = "stored" /\ device' = device /\ open' = open
          /\ at' = [at EXCEPT ![Main] = IF device < 0 THEN "rejected" ELSE "running"]
      BY <1>8 DEF TestDevice, Go, processVars
    <2>2. device >= 0 => open = {device}
      BY <2>1 DEF IsOpen, Failed
    <2>3. CASE at' = [at EXCEPT ![Main] = "rejected"]
      BY <1>3, <1>4, <2>1, <2>3
    <2>4. CASE at' = [at EXCEPT ![Main] = "running"] /\ ~ device < 0
      BY <1>3, <1>4, <2>1, <2>2, <2>4
    <2>5. QED
      BY <2>1, <2>3, <2>4
  <1>9. CASE Reject(Main)
    <2>1. at[Main] = "rejected" /\ at' = [at EXCEPT ![Main] = "ended"]
      BY <1>9 DEF Reject, Go
    <2>2. QED
      BY <1>3, <1>4, <2>1
  <1>10. CASE edf_dispose(Main)
    <2>1. /\ at[Main] = "running" /\ \A t \in Task : at[t] \notin Waiting
          /\ at' = [at EXCEPT ![Main] = IF device = -1 THEN "disposed" ELSE "closing"]
          /\ device' = device /\ open' = open
      BY <1>10 DEF edf_dispose, Go, processVars
    <2>2. device >= 0 /\ open = {device}
      BY <2>1
    <2>3. device # -1
      BY <2>2, DescriptorRange
    <2>4. at' = [at EXCEPT ![Main] = "closing"]
      BY <2>1, <2>3
    <2>5. QED
      BY <1>3, <1>4, <2>1, <2>2, <2>4
  <1>11. CASE Close(Main)
    <2>1. /\ at[Main] = "closing" /\ open' = open \ {device}
          /\ at' = [at EXCEPT ![Main] = IF device \in open THEN "disposed" ELSE "failed"]
      BY <1>11 DEF Close, Go
    <2>2. open' = {} /\ at' = [at EXCEPT ![Main] = "disposed"]
      BY <2>1
    <2>3. QED
      BY <1>3, <1>4, <2>1, <2>2
  <1>12. CASE ForgetDevice(Main)
    BY <1>12 DEF ForgetDevice
  <1>13. QED
    BY <1>1, <1>5, <1>6, <1>7, <1>8, <1>9, <1>10, <1>11, <1>12 DEF Library

LEMMA AloneStep ==
  ASSUME TypeOK, ClientControl, Follows, Alone, ~ periodic, [ClientNext]_clientVars
  PROVE  Alone'
  <1> USE DEF ClientControl, Alone, Thread, Opening, Waiting
  <1>1. \A t \in Task : t # Main
    OBVIOUS
  <1>2. CASE Return \/ CloseAll
    <2>1. /\ dtask_map' = dtask_map /\ periodic' = periodic
          /\ at' = [at EXCEPT ![Main] = "ended"] /\ at[Main] \in {"disposed", "ended"}
      BY <1>2 DEF Return, CloseAll, Gone, Go, dataVars
    <2>2. at'[Main] = "ended" /\ \A t \in Task : at'[t] = at[t]
      BY <1>1, <2>1
    <2>3. QED
      BY <2>1, <2>2
  <1>3. ASSUME NEW t \in Task, CheckDevice(t) \/ StartTask(t)
        PROVE  Alone'
    <2>1. /\ UNCHANGED <<device, open, dtask_map, periodic>>
          /\ \/ /\ at[t] = "created" /\ at[Main] = "running" /\ device # -1
                /\ at' = [at EXCEPT ![t] = "checked"]
             \/ at[t] = "registered" /\ at' = [at EXCEPT ![t] = "running"]
      BY <1>3 DEF CheckDevice, StartTask, Go, processVars, dataVars
    <2>2. at[Main] = "running"
      BY <2>1
    <2>3. at'[Main] = at[Main] /\ \A u \in Task \ {t} : at'[u] = at[u]
      BY <1>1, <2>1
    <2>4. \/ at'[t] = "checked"
          \/ at'[t] = "running" /\ t \in DOMAIN dtask_map
      BY <2>1
    <2>5. QED
      BY <2>1, <2>2, <2>3, <2>4
  <1>4. ASSUME NEW t \in Task, Register(t)
        PROVE  Alone'
    <2>1. /\ at[t] = "checked" /\ at' = [at EXCEPT ![t] = "registered"]
          /\ UNCHANGED <<device, open, periodic>>
      BY <1>4 DEF Register, Go, processVars
    <2>2. at[Main] = "running" /\ device \in open
      BY <2>1
    <2>3. DOMAIN dtask_map' = DOMAIN dtask_map \cup {t}
      BY <1>4, <2>2, RegisterStep
    <2>4. /\ at'[Main] = at[Main] /\ at'[t] = "registered"
          /\ \A u \in Task \ {t} : at'[u] = at[u]
      BY <1>1, <2>1
    <2>5. QED
      BY <2>1, <2>2, <2>3, <2>4
  <1>5. ASSUME NEW t \in Task, EndTask(t) \/ Kill(t)
        PROVE  Alone'
    <2>1. /\ at[t] # "created" /\ at' = [at EXCEPT ![t] = "ended"] /\ Delete(t)
          /\ UNCHANGED <<device, got, open, periodic>>
      BY <1>5 DEF EndTask, Kill, Delete, Go, processVars
    <2>2. at[Main] \notin Opening
      BY <2>1
    <2>3. DOMAIN dtask_map' = DOMAIN dtask_map \ {t}
      BY <2>1, EndStep
    <2>4. /\ at'[Main] = at[Main] /\ at'[t] = "ended"
          /\ \A u \in Task \ {t} : at'[u] = at[u]
      BY <1>1, <2>1
    <2>5. QED
      BY <2>1, <2>2, <2>3, <2>4
  <1>6. ASSUME NEW t \in Task, StopWatchdog(t) \/ ResetDeadline(t)
        PROVE  FALSE
    BY <1>6 DEF StopWatchdog, ResetDeadline
  <1>7. CASE Service \/ ClientTick \/ UNCHANGED clientVars
    <2>1. UNCHANGED <<at, device, got, open, periodic>>
      BY <1>7 DEF Service, ClientTick, clientVars, processVars
    <2>2. DOMAIN dtask_map' = DOMAIN dtask_map
      BY <1>7, LookStep, TickStep DEF Service, clientVars, dataVars
    <2>3. QED
      BY <2>1, <2>2 DEF IsOpen
  <1>8. QED
    BY AloneLibrary, <1>2, <1>3, <1>4, <1>5, <1>6, <1>7, ClientSteps DEF Elsewhere

-----------------------------------------------------------------------------
ClientInv == TypeOK /\ ClientControl /\ Follows /\ Alone

LEMMA ClientStart == ClientInit => ClientInv
  <1>1. SUFFICES ASSUME ClientInit PROVE ClientInv
    OBVIOUS
  <1>2. TypeOK /\ DOMAIN dtask_map = {}
    BY <1>1, InitType DEF ClientInit, Init, rt_dtask_init, Restrict
  <1>3. ClientControl
    <2>1. at \in [Thread -> {"initializing", "created"}]
      BY <1>1 DEF ClientInit
    <2>2. left \in [Task -> 0 .. Periods] /\ accepted \in [Task -> BOOLEAN]
      BY <1>1 DEF ClientInit
    <2>3. /\ device \in Failed .. Descriptors - 1 /\ open \subseteq 0 .. Descriptors - 1
          /\ got \in [Thread -> Failed .. Descriptors - 1]
      BY <1>1 DEF ClientInit, Failed
    <2>4. periodic \in BOOLEAN /\ edf_event \in BOOLEAN
      BY <1>1 DEF ClientInit
    <2>5. QED
      BY <2>1, <2>2, <2>3, <2>4 DEF ClientControl, Place, Opening
  <1>4. at[Main] = "initializing" /\ open = {} /\ \A t \in Task : at[t] = "created"
    BY <1>1 DEF ClientInit, Thread
  <1>5. QED
    BY <1>2, <1>3, <1>4 DEF ClientInv, Follows, Alone, Opening, Waiting

LEMMA PeriodicIsFixed ==
  ASSUME [ClientNext]_clientVars
  PROVE  periodic' = periodic
  BY ClientSteps, ElsewhereStep DEF Register, StopWatchdog, ResetDeadline, EndTask, Kill, Delete,
     Service, ClientTick, clientVars

(***************************************************************************)
(* The invariant of the programs, for every number of tasks, periods and   *)
(* descriptors, and for both programs.                                     *)
(***************************************************************************)
THEOREM ClientInvariant == ClientSpec => []ClientInv
  <1>1. ClientInv /\ [ClientNext]_clientVars => ClientInv'
    <2>1. SUFFICES ASSUME ClientInv, [ClientNext]_clientVars PROVE ClientInv'
      OBVIOUS
    <2>2. TypeOK' /\ ClientControl' /\ Follows'
      BY <2>1, TableStep, ControlStep, FollowsStep DEF ClientInv
    <2>3. periodic => Alone'
      BY <2>1, PeriodicIsFixed DEF Alone
    <2>4. ~ periodic => Alone'
      BY <2>1, AloneStep DEF ClientInv
    <2>5. QED
      BY <2>2, <2>3, <2>4 DEF ClientInv
  <1>2. QED
    BY ClientStart, <1>1, PTL DEF ClientSpec

THEOREM ClientTypeCorrect == ClientSpec => []ClientTypeOK
  <1>1. ClientInv => ClientTypeOK
    BY DEF ClientInv, ClientControl, ClientTypeOK
  <1>2. QED
    BY ClientInvariant, <1>1, PTL

(***************************************************************************)
(* The table knows a task whose last request reached it as what it is.     *)
(***************************************************************************)
THEOREM TableAlwaysFollows == ClientSpec => []TableFollowsTasks
  <1>1. ClientInv => TableFollowsTasks
    <2>1. SUFFICES ASSUME ClientInv, NEW t \in Task, accepted[t], t \in DOMAIN dtask_map
                   PROVE  /\ at[t] = "asleep" => phase[t] = "idle"
                          /\ at[t] \in {"registered", "running"} /\ HasDeadline(t)
                               => phase[t] \in {"armed", "missed"}
      BY DEF TableFollowsTasks
    <2>2. /\ at[t] = "asleep" => dtask_map[t].state # "RUNNING"
          /\ at[t] \in {"registered", "running"} => dtask_map[t].state = "RUNNING"
      BY <2>1 DEF ClientInv, Follows
    <2>3. QED
      BY <2>1, <2>2 DEF phase, Eligible, HasDeadline
  <1>2. QED
    BY ClientInvariant, <1>1, PTL

(***************************************************************************)
(* A program that calls edf_init once starts and registers all its tasks   *)
(* and closes what it opened.                                              *)
(***************************************************************************)
THEOREM OneInitIsEnough == ClientSpec => []OneInitSuffices
  <1>1. ClientInv => OneInitSuffices
    BY DEF ClientInv, Alone, OneInitSuffices, Waiting
  <1>2. QED
    BY ClientInvariant, <1>1, PTL
=============================================================================
