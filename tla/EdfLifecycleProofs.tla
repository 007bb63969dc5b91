------------------------- MODULE EdfLifecycleProofs -------------------------
(***************************************************************************)
(* Proofs about loading and unloading the module: the blocks of the table  *)
(* are owned (Memory), what is registered shrinks with every call of       *)
(* edf_rtdm_exit (Stages), and a live module watches every entry of its    *)
(* table (Watched).                                                        *)
(***************************************************************************)
EXTENDS EdfLifecycle, FiniteSetTheorems, TLAPS

USE LifecycleAssumption

Kind == {"entry", "watchd", "info", "message"}

\* LifecycleTypeOK without the heap.
Control ==
  /\ module \in {"unloaded", "live", "rejected"} \cup Loading \cup Unloading
  /\ parts \subseteq Part /\ orphans \subseteq Part
  /\ life \in [Task -> {"new", "alive", "ended"}]
  /\ at \in [Writer -> {"closed", "open", "bound", "accessing", "served"}]
  /\ request \in [Writer -> Request \cup {NoRequest}]
  /\ \A w \in Writer : request[w] = NoRequest <=> w \notin Inside
  /\ owner \in Writer \cup {Service, Nobody}
  /\ table \subseteq Task /\ unseen \subseteq Task
  /\ undefined \in BOOLEAN

Memory == heap \in [Kind -> Nat] /\ dropped \in Nat /\ MemoryIsOwned

\* What the exit function has taken back at each of its stages, and who can
\* be in the handler.
Stages ==
  /\ module = "unloaded" => parts = {} /\ \A w \in Writer : at[w] = "closed"
  /\ module # "rejected" => orphans \subseteq {"start_hook"}
  /\ module = "live" => "delete_hook" \in parts
  /\ module \in {"unhooked", "unqueued", "stopped", "silent", "disposed"}
       => "delete_hook" \notin parts
  /\ module \in {"unqueued", "stopped", "silent", "disposed"} => "queue" \notin parts
  /\ module \in {"stopped", "silent", "disposed"} => "service" \notin parts
  /\ module \in {"silent", "disposed"} => "event" \notin parts

\* From its first call to the end of its life the module knows whose entries
\* it has.
Watched ==
  /\ module = "unloaded" => table = {}
  /\ module \in Loading \cup {"live"} /\ ~ undefined =>
       \A t \in table : life[t] = "alive" \/ t \in unseen

(***************************************************************************)
(* The steps that change neither the table nor the memory nor who is       *)
(* inside the handler.                                                     *)
(***************************************************************************)
Calm ==
  \/ RegisterDevice \/ CreateLock \/ CreateQueue \/ InitEvent \/ StartService
  \/ AddStartHook \/ AddDeleteHook
  \/ RemoveStartHook \/ RemoveDeleteHook \/ DeleteQueue \/ DestroyService \/ DestroyEvent
  \/ ServiceAcquire \/ ServiceRelease
  \/ Stopped \/ UNCHANGED lifecycleVars

LEMMA CalmStep ==
  ASSUME Calm
  PROVE  UNCHANGED <<taskVars, processVars>>
  BY DEF Calm, RegisterDevice, CreateLock, CreateQueue, InitEvent, StartService, AddStartHook, AddDeleteHook,
     RemoveStartHook, RemoveDeleteHook, DeleteQueue, DestroyService, DestroyEvent,
     ServiceAcquire, ServiceRelease, Stopped, lifecycleVars

LEMMA LifecycleSteps ==
  ASSUME [LifecycleNext]_lifecycleVars
  PROVE  \/ Calm \/ InitTable \/ DisposeTable \/ UnregisterDevice
         \/ \E t \in Task : TaskStarts(t) \/ TaskEnds(t)
         \/ \E w \in Writer : \/ Open(w) \/ Close(w) \/ Acquire(w) \/ Operate(w) \/ Release(w)
                              \/ \E r \in Request : Bind(w, r)
  BY DEF LifecycleNext, LoadStep, UnloadStep, Uses, WriterStep, Calm

LEMMA RequestFacts ==
  ASSUME NEW r \in Request
  PROVE  r # NoRequest /\ r.task \in Task /\ r.command \in Command
  <1>1. r.task \in Task /\ r.command \in Command
    BY DEF Request
  <1>2. r.command # "none"
    BY <1>1 DEF Command
  <1>3. QED
    BY <1>1, <1>2 DEF NoRequest

(***************************************************************************)
(* Who is inside the handler, after a process w moved.                     *)
(***************************************************************************)
LEMMA InsideMoves ==
  ASSUME Control, NEW w \in Writer, NEW place \in {"closed", "open", "bound", "accessing", "served"},
         at' = [at EXCEPT ![w] = place]
  PROVE  Inside' = IF place \in {"bound", "accessing", "served"} THEN Inside \cup {w}
                                                                   ELSE Inside \ {w}
  BY DEF Control, Inside

LEMMA ControlStep ==
  ASSUME Control, [LifecycleNext]_lifecycleVars
  PROVE  Control'
  <1> USE DEF Control
  <1>1. CASE Calm
    <2>1. UNCHANGED <<taskVars, processVars>>
      BY <1>1, CalmStep
    <2>2. Inside' = Inside
      BY <2>1 DEF Inside, processVars
    <2>3. CASE \/ RegisterDevice \/ CreateLock \/ CreateQueue \/ InitEvent \/ StartService
               \/ AddStartHook \/ AddDeleteHook
      <3>1. /\ module' \in Loading \cup {"live", "rejected"} /\ undefined' \in BOOLEAN
            /\ owner' \in {owner, Nobody}
        BY <2>3 DEF RegisterDevice, CreateLock, CreateQueue, InitEvent, StartService, AddStartHook, AddDeleteHook, Call,
              Loading
      <3>2. \E added \in SUBSET Part : parts' = parts \cup added \/ parts' = {}
        BY <2>3 DEF RegisterDevice, CreateLock, CreateQueue, InitEvent, StartService, AddStartHook, AddDeleteHook, MayAdd,
              Part
      <3>3. orphans' = orphans \/ orphans' = orphans \cup parts
        BY <2>3 DEF RegisterDevice, CreateLock, CreateQueue, InitEvent, StartService, AddStartHook, AddDeleteHook
      <3>4. QED
        BY <2>1, <2>2, <3>1, <3>2, <3>3 DEF taskVars, processVars
    <2>4. CASE \/ RemoveStartHook \/ RemoveDeleteHook \/ DeleteQueue \/ DestroyService
               \/ DestroyEvent
      <3>1. /\ module' \in Unloading /\ parts' \subseteq parts
            /\ UNCHANGED <<orphans, owner, undefined>>
        BY <2>4 DEF RemoveStartHook, RemoveDeleteHook, DeleteQueue, DestroyService, DestroyEvent,
              Call, Unloading
      <3>2. QED
        BY <2>1, <2>2, <3>1 DEF taskVars, processVars
    <2>5. CASE ServiceAcquire \/ ServiceRelease \/ Stopped \/ UNCHANGED lifecycleVars
      <3>1. UNCHANGED <<module, parts, orphans>>
        BY <2>5 DEF ServiceAcquire, ServiceRelease, Stopped, lifecycleVars
      <3>2. owner' \in {owner, Service, Nobody}
        BY <2>5 DEF ServiceAcquire, ServiceRelease, Stopped, lifecycleVars
      <3>3. undefined' \in BOOLEAN
        <4>1. undefined' = undefined \/ undefined' = ("service" \in orphans)
          BY <2>5 DEF ServiceAcquire, ServiceRelease, Stopped, lifecycleVars
        <4>2. ("service" \in orphans) \in BOOLEAN
          OBVIOUS
        <4>3. QED
          BY <4>1, <4>2
      <3>4. QED
        BY <2>1, <2>2, <3>1, <3>2, <3>3 DEF taskVars, processVars
    <2>6. QED
      BY <1>1, <2>3, <2>4, <2>5 DEF Calm
  <1>2. CASE InitTable \/ DisposeTable \/ UnregisterDevice
    <2>1. UNCHANGED processVars /\ life' = life
      BY <1>2 DEF InitTable, DisposeTable, UnregisterDevice
    <2>2. Inside' = Inside
      BY <2>1 DEF Inside, processVars
    <2>3. /\ module' \in {"unloaded", "live", "rejected"} \cup Loading \cup Unloading
          /\ parts' \subseteq Part /\ orphans' \subseteq Part
          /\ owner' \in Writer \cup {Service, Nobody}
          /\ table' \subseteq Task /\ unseen' \subseteq Task
          /\ undefined' \in BOOLEAN
      BY <1>2 DEF InitTable, DisposeTable, UnregisterDevice, Call, Loading, Unloading
    <2>4. QED
      BY <2>1, <2>2, <2>3 DEF processVars
  <1>3. ASSUME NEW t \in Task, TaskStarts(t) \/ TaskEnds(t)
        PROVE  Control'
    <2>1. /\ UNCHANGED <<module, parts, orphans, processVars, owner>>
          /\ table' \subseteq Task /\ unseen' \subseteq Task /\ undefined' \in BOOLEAN
      BY <1>3 DEF TaskStarts, TaskEnds, EntersUndefined
    <2>2. life' \in [Task -> {"new", "alive", "ended"}]
      BY <1>3 DEF TaskStarts, TaskEnds
    <2>3. Inside' = Inside
      BY <2>1 DEF Inside, processVars
    <2>4. QED
      BY <2>1, <2>2, <2>3 DEF processVars
  <1>4. ASSUME NEW w \in Writer, Open(w) \/ Close(w) \/ Acquire(w) \/ Operate(w)
        PROVE  Control'
    <2>1. PICK place \in {"closed", "open", "accessing", "served"} :
            /\ at' = [at EXCEPT ![w] = place]
            /\ place \in {"accessing", "served"} <=> w \in Inside
      BY <1>4 DEF Open, Close, Acquire, Operate, Inside
    <2>2. Inside' = Inside
      <3>1. \A v \in Writer \ {w} : at'[v] = at[v]
        BY <2>1
      <3>2. at'[w] = place
        BY <2>1
      <3>3. w \in Inside' <=> w \in Inside
        BY <2>1, <3>2 DEF Inside
      <3>4. QED
        BY <3>1, <3>3 DEF Inside
    <2>3. /\ UNCHANGED <<module, parts, orphans, life, request, unseen>>
          /\ owner' \in Writer \cup {Service, Nobody} /\ undefined' \in BOOLEAN
      <3>1. UNCHANGED <<module, parts, orphans, life, request, unseen>>
        BY <1>4 DEF Open, Close, Acquire, Operate, taskVars
      <3>2. owner' \in {owner, w}
        BY <1>4 DEF Open, Close, Acquire, Operate, taskVars
      <3>3. undefined' \in BOOLEAN
        <4>1. \/ undefined' = undefined
              \/ undefined' = ("device" \in orphans)
              \/ undefined' = (life[request[w].task] # "alive")
          BY <1>4 DEF Open, Close, Acquire, Operate
        <4>2. /\ ("device" \in orphans) \in BOOLEAN
              /\ (life[request[w].task] # "alive") \in BOOLEAN
          OBVIOUS
        <4>3. QED
          BY <4>1, <4>2
      <3>4. QED
        BY <3>1, <3>2, <3>3
    <2>4. table' \subseteq Task
      <3>1. CASE Operate(w)
        <4>1. request[w] \in Request
          BY <3>1 DEF Operate, Inside
        <4>2. table' \in {table, table \cup {request[w].task}}
          BY <3>1 DEF Operate, Create, SetDeadline
        <4>3. QED
          BY <4>1, <4>2, RequestFacts
      <3>2. CASE ~ Operate(w)
        BY <1>4, <3>2 DEF Open, Close, Acquire, taskVars
      <3>3. QED
        BY <3>1, <3>2
    <2>5. QED
      BY <2>1, <2>2, <2>3, <2>4
  <1>5. ASSUME NEW w \in Writer, NEW r \in Request, Bind(w, r)
        PROVE  Control'
    <2>1. /\ at' = [at EXCEPT ![w] = "bound"] /\ request' = [request EXCEPT ![w] = r]
          /\ UNCHANGED <<module, parts, orphans, life, table, unseen, owner>>
          /\ undefined' \in BOOLEAN
      BY <1>5 DEF Bind
    <2>2. Inside' = Inside \cup {w} /\ r # NoRequest
      BY <2>1, InsideMoves, RequestFacts
    <2>3. QED
      BY <2>1, <2>2
  <1>6. ASSUME NEW w \in Writer, Release(w)
        PROVE  Control'
    <2>1. /\ at' = [at EXCEPT ![w] = "open"] /\ request' = [request EXCEPT ![w] = NoRequest]
          /\ owner' = Nobody
          /\ UNCHANGED <<module, parts, orphans, life, table, unseen, undefined>>
      BY <1>6 DEF Release
    <2>2. Inside' = Inside \ {w}
      BY <2>1, InsideMoves
    <2>3. QED
      BY <2>1, <2>2
  <1>7. QED
    BY <1>1, <1>2, <1>3, <1>4, <1>5, <1>6, LifecycleSteps

(***************************************************************************)
(* The blocks.  The table and the processes in the handler are finite, and *)
(* an entry or a message is one block more or less.                        *)
(***************************************************************************)
LEMMA FiniteSizes ==
  ASSUME Control
  PROVE  /\ IsFiniteSet(table) /\ Cardinality(table) \in Nat
         /\ IsFiniteSet(Inside) /\ Cardinality(Inside) \in Nat
  <1>1. Inside \subseteq Writer /\ table \subseteq Task
    BY DEF Inside, Control
  <1>2. QED
    BY <1>1, FS_Subset, FS_CardinalityType

\* A step that leaves the table, the blocks and the handler's processes.
LEMMA SameBlocks ==
  ASSUME Control, Memory, UNCHANGED <<table, heap, dropped>>, Inside' = Inside
  PROVE  Memory'
  BY DEF Memory, MemoryIsOwned

LEMMA MemoryStep ==
  ASSUME Control, Memory, [LifecycleNext]_lifecycleVars
  PROVE  Memory'
  <1> USE DEF Memory, MemoryIsOwned
  <1> DEFINE n == Cardinality(table)
  <1>1. /\ IsFiniteSet(table) /\ n \in Nat
        /\ IsFiniteSet(Inside) /\ Cardinality(Inside) \in Nat
    BY FiniteSizes
  <1>2. /\ heap["entry"] \in Nat /\ heap["watchd"] \in Nat /\ heap["message"] \in Nat
        /\ dropped \in Nat /\ heap["entry"] = n + dropped /\ heap["entry"] <= heap["watchd"]
    BY DEF Kind
  <1> HIDE DEF n
  <1>3. CASE Calm
    BY <1>3, CalmStep, SameBlocks DEF taskVars, processVars, Inside
  <1>4. CASE InitTable \/ UnregisterDevice
    <2>1. table' = {} /\ dropped' = dropped + n /\ UNCHANGED <<heap, processVars>>
      BY <1>4 DEF InitTable, UnregisterDevice, n
    <2>2. Cardinality(table') = 0 /\ Inside' = Inside
      BY <2>1, FS_EmptySet DEF Inside, processVars
    <2>3. QED
      BY <1>1, <1>2, <2>1, <2>2
  <1>5. CASE DisposeTable
    <2>1. /\ table' = {} /\ UNCHANGED <<dropped, processVars>>
          /\ heap' = [heap EXCEPT !["entry"] = @ - n, !["watchd"] = @ - n]
      BY <1>5 DEF DisposeTable, n
    <2>2. Cardinality(table') = 0 /\ Inside' = Inside
      BY <2>1, FS_EmptySet DEF Inside, processVars
    <2>3. /\ heap' \in [Kind -> Nat]
          /\ heap'["entry"] = heap["entry"] - n /\ heap'["watchd"] = heap["watchd"] - n
          /\ heap'["message"] = heap["message"]
      BY <1>1, <1>2, <2>1 DEF Kind
    <2>4. QED
      BY <1>1, <1>2, <2>1, <2>2, <2>3
  <1>6. ASSUME NEW t \in Task, TaskStarts(t)
        PROVE  Memory'
    BY <1>6, SameBlocks DEF TaskStarts, processVars, Inside
  <1>7. ASSUME NEW t \in Task, TaskEnds(t)
        PROVE  Memory'
    <2>1. UNCHANGED <<dropped, processVars>>
      BY <1>7 DEF TaskEnds
    <2>2. Inside' = Inside
      BY <2>1 DEF Inside, processVars
    <2>3. CASE "delete_hook" \in parts /\ t \in table
      <3>1. /\ table' = table \ {t}
            /\ heap' = [heap EXCEPT !["entry"] = @ - 1, !["watchd"] = @ - 1]
        BY <1>7, <2>3 DEF TaskEnds
      <3>2. Cardinality(table') = n - 1 /\ n - 1 \in Nat
        <4>1. Cardinality(table') = n - 1
          BY <1>1, <2>3, <3>1, FS_RemoveElement DEF n
        <4>2. IsFiniteSet(table')
          BY <1>1, <3>1, FS_Subset
        <4>3. QED
          BY <4>1, <4>2, FS_CardinalityType
      <3>3. /\ heap' \in [Kind -> Nat]
            /\ heap'["entry"] = heap["entry"] - 1 /\ heap'["watchd"] = heap["watchd"] - 1
            /\ heap'["message"] = heap["message"]
        BY <1>1, <1>2, <3>1, <3>2 DEF Kind
      <3>4. QED
        BY <1>1, <1>2, <2>1, <2>2, <3>2, <3>3
    <2>4. CASE ~ ("delete_hook" \in parts /\ t \in table)
      BY <1>7, <2>1, <2>2, <2>4, SameBlocks DEF TaskEnds
    <2>5. QED
      BY <2>3, <2>4
  <1>8. ASSUME NEW w \in Writer, Open(w) \/ Close(w) \/ Acquire(w)
        PROVE  Memory'
    <2>1. PICK place \in {"closed", "open", "accessing"} :
            /\ at' = [at EXCEPT ![w] = place]
            /\ place = "accessing" <=> w \in Inside
      BY <1>8 DEF Open, Close, Acquire, Inside
    <2>2. w \in Inside' <=> w \in Inside
      BY <2>1 DEF Inside, Control
    <2>3. Inside' = Inside
      BY <2>1, <2>2 DEF Inside, Control
    <2>4. UNCHANGED <<table, heap, dropped>>
      BY <1>8 DEF Open, Close, Acquire, taskVars
    <2>5. QED
      BY <2>3, <2>4, SameBlocks
  <1>9. ASSUME NEW w \in Writer, Operate(w)
        PROVE  Memory'
    <2>1. at[w] = "accessing" /\ at' = [at EXCEPT ![w] = "served"] /\ dropped' = dropped
      BY <1>9 DEF Operate
    <2>2. Inside' = Inside
      BY <2>1 DEF Inside, Control
    <2>3. CASE Create(request[w].task)
      <3> DEFINE t == request[w].task
      <3>1. /\ table' = table \cup {t}
            /\ heap' = [heap EXCEPT !["entry"] = IF t \in table THEN @ ELSE @ + 1,
                                    !["watchd"] = @ + 1]
        BY <2>3 DEF Create
      <3>2. Cardinality(table') = IF t \in table THEN n ELSE n + 1
        BY <1>1, <3>1, FS_AddElement DEF n
      <3> HIDE DEF t
      <3>3. /\ heap' \in [Kind -> Nat]
            /\ heap'["entry"] = IF t \in table THEN heap["entry"] ELSE heap["entry"] + 1
            /\ heap'["watchd"] = heap["watchd"] + 1
            /\ heap'["message"] = heap["message"]
        BY <1>2, <3>1 DEF Kind
      <3>4. QED
        BY <1>1, <1>2, <2>1, <2>2, <3>2, <3>3
    <2>4. CASE SetDeadline
      <3>1. /\ table' = table /\ heap' \in [Kind -> Nat]
            /\ heap'["entry"] = heap["entry"] /\ heap'["watchd"] = heap["watchd"]
            /\ heap'["message"] = heap["message"]
        BY <2>4 DEF SetDeadline, Kind
      <3>2. QED
        BY <2>1, <2>2, <3>1
    <2>5. CASE UNCHANGED <<heap, table>>
      BY <2>1, <2>2, <2>5, SameBlocks
    <2>6. QED
      BY <1>9, <2>3, <2>4, <2>5 DEF Operate
  <1>10. ASSUME NEW w \in Writer, NEW r \in Request, Bind(w, r)
         PROVE  Memory'
    <2>1. /\ at[w] = "open" /\ at' = [at EXCEPT ![w] = "bound"]
          /\ heap' = [heap EXCEPT !["message"] = @ + 1]
          /\ UNCHANGED <<table, dropped>>
      BY <1>10 DEF Bind
    <2>2. w \notin Inside /\ Inside' = Inside \cup {w}
      BY <2>1, InsideMoves DEF Inside
    <2>3. Cardinality(Inside') = Cardinality(Inside) + 1
      BY <1>1, <2>2, FS_AddElement
    <2>4. /\ heap' \in [Kind -> Nat]
          /\ heap'["entry"] = heap["entry"] /\ heap'["watchd"] = heap["watchd"]
          /\ heap'["message"] = heap["message"] + 1
      BY <1>2, <2>1 DEF Kind
    <2>5. QED
      BY <2>1, <2>3, <2>4
  <1>11. ASSUME NEW w \in Writer, Release(w)
         PROVE  Memory'
    <2>1. /\ at[w] = "served" /\ at' = [at EXCEPT ![w] = "open"]
          /\ heap' = [heap EXCEPT !["message"] = @ - 1]
          /\ UNCHANGED <<table, dropped>>
      BY <1>11 DEF Release
    <2>2. w \in Inside /\ Inside' = Inside \ {w}
      BY <2>1, InsideMoves DEF Inside
    <2>3. Cardinality(Inside') = Cardinality(Inside) - 1 /\ Cardinality(Inside') \in Nat
      BY <1>1, <2>2, FS_RemoveElement, FS_CardinalityType
    <2>4. /\ heap' \in [Kind -> Nat]
          /\ heap'["entry"] = heap["entry"] /\ heap'["watchd"] = heap["watchd"]
          /\ heap'["message"] = heap["message"] - 1
      BY <1>1, <1>2, <2>1, <2>3 DEF Kind
    <2>5. QED
      BY <2>1, <2>3, <2>4
  <1>12. QED
    BY <1>3, <1>4, <1>5, <1>6, <1>7, <1>8, <1>9, <1>10, <1>11, LifecycleSteps

(***************************************************************************)
(* The stages of load and unload.                                          *)
(***************************************************************************)
LEMMA StagesStep ==
  ASSUME Control, Stages, [LifecycleNext]_lifecycleVars
  PROVE  Stages'
  <1> USE DEF Stages
  <1>1. CASE \/ RegisterDevice \/ InitTable \/ CreateLock \/ CreateQueue \/ InitEvent
             \/ StartService \/ AddStartHook \/ AddDeleteHook
    <2>1. \/ /\ module' \in Loading
             /\ orphans' = orphans /\ module # "rejected"
          \/ /\ module' = "live" /\ orphans' = orphans /\ module # "rejected"
             /\ "delete_hook" \in parts'
          \/ module' = "rejected"
      BY <1>1 DEF RegisterDevice, InitTable, CreateLock, CreateQueue, InitEvent, StartService,
            AddStartHook, AddDeleteHook, Call, Loading
    <2>2. QED
      BY <2>1 DEF Loading
  <1>2. CASE RemoveStartHook
    BY <1>2 DEF RemoveStartHook, Call
  <1>3. CASE RemoveDeleteHook
    BY <1>3 DEF RemoveDeleteHook, Call
  <1>4. CASE DeleteQueue
    BY <1>4 DEF DeleteQueue, Call
  <1>5. CASE DestroyService
    BY <1>5 DEF DestroyService, Call
  <1>6. CASE DestroyEvent
    BY <1>6 DEF DestroyEvent, Call
  <1>7. CASE DisposeTable
    BY <1>7 DEF DisposeTable, Call
  <1>8. CASE UnregisterDevice
    <2>1. /\ module = "disposed" /\ module' = "unloaded"
          /\ parts' = {} /\ orphans' = orphans \cup (parts \ {"device"})
          /\ at' = at /\ \A w \in Writer : at[w] = "closed"
      BY <1>8 DEF UnregisterDevice, Call, processVars
    <2>2. parts \subseteq {"device", "start_hook"}
      BY <2>1 DEF Control, Part
    <2>3. QED
      BY <2>1, <2>2
  <1>9. ASSUME NEW w \in Writer,
               \/ Open(w) \/ Close(w) \/ Acquire(w) \/ Operate(w) \/ Release(w)
               \/ \E r \in Request : Bind(w, r)
        PROVE  Stages'
    <2>1. UNCHANGED <<module, parts, orphans>>
      BY <1>9 DEF Open, Close, Acquire, Operate, Release, Bind
    <2>2. module # "unloaded"
      BY <1>9 DEF Open, Close, Acquire, Operate, Release, Bind
    <2>3. QED
      BY <2>1, <2>2
  <1>10. CASE \/ \E t \in Task : TaskStarts(t) \/ TaskEnds(t)
              \/ ServiceAcquire \/ ServiceRelease \/ Stopped \/ UNCHANGED lifecycleVars
    BY <1>10 DEF TaskStarts, TaskEnds, ServiceAcquire, ServiceRelease, Stopped, lifecycleVars,
                 processVars
  <1>11. QED
    BY <1>1, <1>2, <1>3, <1>4, <1>5, <1>6, <1>7, <1>8, <1>9, <1>10, LifecycleSteps DEF Calm

(***************************************************************************)
(* The entries of a module that loads or lives.                            *)
(***************************************************************************)
LEMMA WatchedStep ==
  ASSUME Control, Stages, Watched, [LifecycleNext]_lifecycleVars
  PROVE  Watched'
  <1> USE DEF Watched, Loading
  <1>1. CASE Calm
    <2>1. UNCHANGED <<life, table, unseen>>
      BY <1>1, CalmStep DEF taskVars
    <2>2. \/ module' = module
          \/ module' \in {"rejected", "unhooking", "unhooked", "unqueued", "stopped", "silent"}
          \/ /\ module = "unloaded" /\ module' = "registered"
          \/ module \in Loading /\ module' \in Loading \cup {"live"}
      BY <1>1 DEF Calm, RegisterDevice, CreateLock, CreateQueue, InitEvent, StartService, AddStartHook, AddDeleteHook,
            RemoveStartHook, RemoveDeleteHook, DeleteQueue, DestroyService, DestroyEvent,
            ServiceAcquire, ServiceRelease, Stopped, lifecycleVars, Call
    <2>3. ~ undefined' => ~ undefined
      BY <1>1 DEF Calm, RegisterDevice, CreateLock, CreateQueue, InitEvent, StartService, AddStartHook, AddDeleteHook,
            RemoveStartHook, RemoveDeleteHook, DeleteQueue, DestroyService, DestroyEvent,
            ServiceAcquire, ServiceRelease, Stopped, lifecycleVars, Call
    <2>4. QED
      BY <2>1, <2>2, <2>3
  <1>2. CASE InitTable \/ UnregisterDevice
    BY <1>2 DEF InitTable, UnregisterDevice
  <1>3. CASE DisposeTable
    BY <1>3 DEF DisposeTable, Call
  <1>4. ASSUME NEW t \in Task, TaskStarts(t)
        PROVE  Watched'
    <2>1. /\ ~ undefined /\ life[t] = "new" /\ life' = [life EXCEPT ![t] = "alive"]
          /\ UNCHANGED <<module, table, unseen>>
      BY <1>4 DEF TaskStarts
    <2>2. QED
      BY <2>1 DEF Control
  <1>5. ASSUME NEW t \in Task, TaskEnds(t)
        PROVE  Watched'
    <2>1. /\ ~ undefined /\ life' = [life EXCEPT ![t] = "ended"] /\ module' = module
          /\ table' \subseteq table
          /\ "delete_hook" \in parts => t \notin table'
      BY <1>5 DEF TaskEnds
    <2>2. unseen' = IF module \in Loading THEN unseen \cup {t} ELSE unseen
      BY <1>5 DEF TaskEnds
    <2>3. \A u \in Task \ {t} : life'[u] = life[u]
      BY <2>1 DEF Control
    <2>4. CASE module \in Loading
      BY <2>1, <2>2, <2>3, <2>4 DEF Control
    <2>5. CASE module = "live"
      BY <2>1, <2>2, <2>3, <2>5 DEF Control, Stages
    <2>6. CASE module \notin Loading \cup {"live"}
      BY <2>1, <2>6
    <2>7. QED
      BY <2>4, <2>5, <2>6
  <1>6. ASSUME NEW w \in Writer, Operate(w)
        PROVE  Watched'
    <2>1. /\ ~ undefined /\ undefined' = (life[request[w].task] # "alive")
          /\ UNCHANGED <<module, life, unseen>>
          /\ table' \in {table, table \cup {request[w].task}}
      BY <1>6 DEF Operate, Create, SetDeadline
    <2>2. module # "unloaded"
      BY <1>6 DEF Operate, Stages
    <2>3. QED
      BY <2>1, <2>2
  <1>7. ASSUME NEW w \in Writer,
               \/ Open(w) \/ Close(w) \/ Acquire(w) \/ Release(w)
               \/ \E r \in Request : Bind(w, r)
        PROVE  Watched'
    BY <1>7 DEF Open, Close, Acquire, Release, Bind, taskVars
  <1>8. QED
    BY <1>1, <1>2, <1>3, <1>4, <1>5, <1>6, <1>7, LifecycleSteps

-----------------------------------------------------------------------------
LifecycleInv == Control /\ Memory /\ Stages /\ Watched

LEMMA LifecycleStart == LifecycleInit => LifecycleInv
  <1>1. SUFFICES ASSUME LifecycleInit PROVE LifecycleInv
    OBVIOUS
  <1>2. Inside = {}
    BY <1>1 DEF LifecycleInit, Inside
  <1>3. Control
    BY <1>1, <1>2 DEF LifecycleInit, Control
  <1>4. Memory
    BY <1>1, <1>2, FS_EmptySet DEF LifecycleInit, Memory, MemoryIsOwned, Kind
  <1>5. Stages /\ Watched
    BY <1>1 DEF LifecycleInit, Stages, Watched, Loading
  <1>6. QED
    BY <1>3, <1>4, <1>5 DEF LifecycleInv

(***************************************************************************)
(* The invariant of load and unload, for every number of tasks and         *)
(* processes, whichever calls fail.                                        *)
(***************************************************************************)
THEOREM LifecycleInvariant == LifecycleSpec => []LifecycleInv
  <1>1. LifecycleInv /\ [LifecycleNext]_lifecycleVars => LifecycleInv'
    BY ControlStep, MemoryStep, StagesStep, WatchedStep DEF LifecycleInv
  <1>2. QED
    BY LifecycleStart, <1>1, PTL DEF LifecycleSpec

THEOREM LifecycleTypeCorrect == LifecycleSpec => []LifecycleTypeOK
  <1>1. LifecycleInv => LifecycleTypeOK
    BY DEF LifecycleInv, Control, Memory, Kind, LifecycleTypeOK
  <1>2. QED
    BY LifecycleInvariant, <1>1, PTL

(***************************************************************************)
(* No block of an entry is freed twice or lost on the way out of the table *)
(* and no message is kept.                                                 *)
(***************************************************************************)
THEOREM BlocksAreOwned == LifecycleSpec => []MemoryIsOwned
  <1>1. LifecycleInv => MemoryIsOwned
    BY DEF LifecycleInv, Memory
  <1>2. QED
    BY LifecycleInvariant, <1>1, PTL

(***************************************************************************)
(* Once the module is unloaded only the start hook can be left of it.      *)
(***************************************************************************)
THEOREM UnloadedIsQuiet == LifecycleSpec => []QuietWhenUnloaded
  <1>1. LifecycleInv => QuietWhenUnloaded
    BY DEF LifecycleInv, Stages, QuietWhenUnloaded
  <1>2. QED
    BY LifecycleInvariant, <1>1, PTL

(***************************************************************************)
(* A live module keeps no entry of a task that ended under its eyes.       *)
(***************************************************************************)
THEOREM EndedTasksAlwaysLeave == LifecycleSpec => []EndedTasksLeave
  <1>1. LifecycleInv => EndedTasksLeave
    BY DEF LifecycleInv, Watched, EndedTasksLeave
  <1>2. QED
    BY LifecycleInvariant, <1>1, PTL
=============================================================================
