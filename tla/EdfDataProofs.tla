--------------------------- MODULE EdfDataProofs ---------------------------
(***************************************************************************)
(* Proofs about the deadline table: its types, and that its priorities     *)
(* follow the deadlines.  Every recalculation is reduced to facts about    *)
(* one table m: what the first pass computes (RefreshFacts), what the      *)
(* second pass assigns (RankFacts), and what both leave (RecalculateSafe). *)
(* At the end, the table implements the abstract monitor: the phases of    *)
(* the tasks are read off the table (PhaseIn), each recalculation is a     *)
(* Find of the monitor (RecalculationFinds), and each step of the table is *)
(* a step of the monitor or changes neither phases nor reports             *)
(* (MonitorStep).                                                          *)
(***************************************************************************)
EXTENDS EdfData, EdfPriorityProofs, FiniteSetTheorems, WellFoundedInduction

USE PriorityAssumption, DataAssumption

\* The shape of a table, and TypeOK and the parts of EDFInv for a table m.
Table(m) == DOMAIN m \subseteq Task /\ m \in [DOMAIN m -> Entry]

AnchoredTable(m) ==
  \A t \in DOMAIN m :
    /\ m[t].relative_deadline \in Deadline
    /\ m[t].deadline <= now + m[t].relative_deadline
    /\ m[t].relative_deadline # DEADLINENOTSET => m[t].relative_deadline <= m[t].deadline
    /\ m[t].status = "MISSED" =>
         m[t].relative_deadline # DEADLINENOTSET /\ m[t].deadline <= now

LateOnTopIn(m) ==
  \A t \in EligibleTasks(m) : m[t].status = "MISSED" => prio[t] = MAXPRIO

(***************************************************************************)
(* Min and Max of a non-empty set of 64 bit values.                        *)
(***************************************************************************)
LEMMA LeastElement ==
  ASSUME NEW S \in SUBSET Nat, S # {}
  PROVE  \E x \in S : \A y \in S : x <= y
  <1> DEFINE Less == OpToRel(<, Nat)
  <1>1. IsWellFoundedOn(Less, Nat)
    BY NatLessThanWellFounded
  <1>2. \A x, y \in Nat : y < x => <<y, x>> \in Less
    BY Zenon DEF OpToRel
  <1> HIDE DEF Less
  <1>3. \E x \in S : \A y \in S : ~ (<<y, x>> \in Less)
    BY <1>1, WFMin
  <1>4. PICK x \in S : \A y \in S : ~ (<<y, x>> \in Less)
    BY <1>3
  <1>5. \A y \in S : ~ (y < x)
    BY <1>2, <1>4, Zenon
  <1>6. \A y \in S : x <= y
    BY <1>5
  <1>7. QED
    BY <1>6

LEMMA MinMax ==
  ASSUME NEW S \in SUBSET (0 .. Word - 1), S # {}
  PROVE  /\ Min(S) \in S /\ \A y \in S : Min(S) <= y
         /\ Max(S) \in S /\ \A y \in S : y <= Max(S)
  <1>1. Word \in Nat
    BY Half * Half \in Nat
  <1>2. S \in SUBSET Nat
    BY <1>1
  <1>3. \E x \in S : \A y \in S : x <= y
    BY <1>2, LeastElement
  <1>4. Min(S) \in S /\ \A y \in S : Min(S) <= y
    BY <1>3 DEF Min
  <1>5. \E x \in S : \A y \in S : x >= y
    <2> DEFINE T == {Word - x : x \in S}
    <2>1. T \in SUBSET Nat /\ T # {}
      <3>1. \A x \in S : x \in 0 .. Word - 1
        OBVIOUS
      <3>2. \A x \in S : Word - x \in Nat
        BY <1>1, <3>1
      <3>3. QED
        BY <3>2
    <2>2. PICK z \in T : \A y \in T : z <= y
      BY <2>1, LeastElement
    <2>3. PICK x \in S : z = Word - x
      OBVIOUS
    <2>4. \A y \in S : Word - x <= Word - y
      BY <2>2, <2>3
    <2>5. QED
      BY <1>1, <1>2, <2>4
  <1>6. Max(S) \in S /\ \A y \in S : Max(S) >= y
    BY <1>5 DEF Max
  <1>7. QED
    BY <1>2, <1>4, <1>6

(***************************************************************************)
(* The first pass refreshes the remaining times and nothing else.          *)
(***************************************************************************)
LEMMA RefreshFacts ==
  ASSUME NEW m, Table(m), now \in 0 .. MaxTime,
         NEW f, f = Refresh(m)
  PROVE  /\ DOMAIN f = DOMAIN m
         /\ f \in [DOMAIN m -> Entry]
         /\ \A t \in DOMAIN m :
              /\ f[t].deadline = m[t].deadline
              /\ f[t].relative_deadline = m[t].relative_deadline
              /\ f[t].status = m[t].status
              /\ f[t].state = m[t].state
         /\ EligibleTasks(f) = EligibleTasks(m)
         /\ Ranked(f) = Ranked(m)
         /\ \A t \in EligibleTasks(m) :
              f[t].remain = IF m[t].deadline > now THEN m[t].deadline - now ELSE 0
  <1>1. Word \in Nat
    BY Half * Half \in Nat
  <1>2. DOMAIN f = DOMAIN m
    BY DEF Refresh
  <1>3. EligibleTasks(m) \subseteq DOMAIN m
    BY DEF EligibleTasks
  <1>4. ASSUME NEW t \in DOMAIN m
        PROVE  /\ f[t] \in Entry
               /\ f[t].deadline = m[t].deadline
               /\ f[t].relative_deadline = m[t].relative_deadline
               /\ f[t].status = m[t].status
               /\ f[t].state = m[t].state
               /\ t \in EligibleTasks(m) =>
                    f[t].remain = IF m[t].deadline > now THEN m[t].deadline - now ELSE 0
    <2>1. m[t] \in Entry
      BY DEF Table
    <2>2. CASE t \in EligibleTasks(m)
      <3> DEFINE left == IF m[t].deadline > now THEN m[t].deadline - now ELSE 0
      <3>1. left \in 0 .. Word - 1
        BY <1>1, <2>1 DEF Entry
      <3>2. f[t] = [m[t] EXCEPT !.remain = left]
        BY <2>2 DEF Refresh
      <3> HIDE DEF left
      <3>3. /\ f[t] \in Entry
            /\ f[t].deadline = m[t].deadline
            /\ f[t].relative_deadline = m[t].relative_deadline
            /\ f[t].status = m[t].status
            /\ f[t].state = m[t].state
            /\ f[t].remain = left
        BY <2>1, <3>1, <3>2 DEF Entry
      <3>4. QED
        BY <3>3 DEF left
    <2>3. CASE t \notin EligibleTasks(m)
      BY <2>1, <2>3 DEF Refresh
    <2>4. QED
      BY <2>2, <2>3
  <1>5. f \in [DOMAIN m -> Entry]
    BY <1>4 DEF Refresh
  <1>6. EligibleTasks(f) = EligibleTasks(m) /\ Ranked(f) = Ranked(m)
    BY <1>2, <1>4 DEF EligibleTasks, Ranked, Eligible
  <1>7. QED
    BY <1>2, <1>3, <1>4, <1>5, <1>6

\* The priority the second pass gives to task t of a refreshed table f.
RankOf(f, t) == calculate_prio(f[t].remain, Min(Remains(f)), Max(Remains(f)))

(***************************************************************************)
(* The second pass: every rank lies in the priority range, the task with   *)
(* the least time left gets MAXPRIO, and ranks follow the remaining times  *)
(* when no product overflows.                                              *)
(***************************************************************************)
LEMMA RankFacts ==
  ASSUME NEW f, f \in [DOMAIN f -> Entry], NEW t \in EligibleTasks(f)
  PROVE  /\ RankOf(f, t) \in MINPRIO .. MAXPRIO
         /\ (\A u \in EligibleTasks(f) : f[t].remain <= f[u].remain)
              => RankOf(f, t) = MAXPRIO
         /\ (\A u \in EligibleTasks(f) : f[u].remain * (MAXPRIO - MINPRIO) < Word)
              => \A u \in EligibleTasks(f) :
                   f[t].remain <= f[u].remain => RankOf(f, t) >= RankOf(f, u)
  <1> DEFINE R  == Remains(f)
             mn == Min(R)
             mx == Max(R)
  <1>1. Word \in Nat
    BY Half * Half \in Nat
  <1>2. R \in SUBSET (0 .. Word - 1) /\ R # {}
    BY DEF Remains, EligibleTasks, Entry
  <1>3. \A u \in EligibleTasks(f) : f[u].remain \in R
    BY DEF Remains
  <1> HIDE DEF R
  <1>4. /\ mn \in R /\ mx \in R
        /\ \A y \in R : mn <= y /\ y <= mx
    BY <1>2, MinMax
  <1>5. \A u \in EligibleTasks(f) : RankOf(f, u) = calculate_prio(f[u].remain, mn, mx)
    BY DEF RankOf, R
  <1> HIDE DEF mn, mx
  <1>6. /\ mn \in Nat /\ mx \in Nat /\ mx < Word
        /\ \A u \in EligibleTasks(f) :
             f[u].remain \in Nat /\ mn <= f[u].remain /\ f[u].remain <= mx
    BY <1>1, <1>2, <1>3, <1>4
  <1>7. RankOf(f, t) \in MINPRIO .. MAXPRIO
    BY <1>5, <1>6, PrioRange
  <1>8. ASSUME \A u \in EligibleTasks(f) : f[t].remain <= f[u].remain
        PROVE  RankOf(f, t) = MAXPRIO
    <2>1. PICK u \in EligibleTasks(f) : f[u].remain = mn
      BY <1>4 DEF R, Remains
    <2>2. f[t].remain = mn
      BY <1>6, <1>8, <2>1
    <2>3. QED
      BY <1>5, <1>6, <2>2, PrioTop
  <1>9. ASSUME \A u \in EligibleTasks(f) : f[u].remain * (MAXPRIO - MINPRIO) < Word,
               NEW u \in EligibleTasks(f), f[t].remain <= f[u].remain
        PROVE  RankOf(f, t) >= RankOf(f, u)
    <2>1. PICK v \in EligibleTasks(f) : f[v].remain = mx
      BY <1>4 DEF R, Remains
    <2>2. mx * (MAXPRIO - MINPRIO) < Word
      BY <1>9, <2>1
    <2>3. /\ (mx - mn) * (MAXPRIO - MINPRIO) \in Nat
          /\ mx * (MAXPRIO - MINPRIO) \in Nat
          /\ (mx - mn) * (MAXPRIO - MINPRIO) <= mx * (MAXPRIO - MINPRIO)
      <3>1. mx - mn \in Nat /\ mx - mn <= mx /\ MAXPRIO - MINPRIO \in Nat
        BY <1>6
      <3>2. QED
        BY <1>6, <3>1, ProductMonotone
    <2>4. (mx - mn) * (MAXPRIO - MINPRIO) < Word
      BY <1>1, <2>2, <2>3
    <2>5. QED
      BY <1>5, <1>6, <1>9, <2>4, PrioOrder
  <1>10. QED
    BY <1>7, <1>8, <1>9

(***************************************************************************)
(* The queue stays a sequence of task names within its limit.              *)
(***************************************************************************)
LEMMA NotifyType ==
  ASSUME edf_dmissed_q \in Seq(Task), NEW late \in SUBSET Task, deadline_missed(late)
  PROVE  edf_dmissed_q' \in Seq(Task) /\ Len(edf_dmissed_q') <= QueueLimit
  <1>1. PICK names \in SetToSeqs(late) :
          edf_dmissed_q' = SubSeq(edf_dmissed_q \o names, 1,
                                  Min({Len(edf_dmissed_q \o names), QueueLimit}))
    BY DEF deadline_missed
  <1>2. Cardinality(late) \in Nat
    BY FS_Subset, FS_CardinalityType
  <1>3. names \in [1 .. Cardinality(late) -> late]
    BY DEF SetToSeqs
  <1>4. names \in Seq(Task)
    BY <1>2, <1>3
  <1> DEFINE q == edf_dmissed_q \o names
             n == Min({Len(q), QueueLimit})
  <1>5. q \in Seq(Task) /\ Len(q) \in Nat
    BY <1>4
  <1> HIDE DEF q
  <1>6. n \in Nat /\ n <= Len(q) /\ n <= QueueLimit
    <2>1. {Len(q), QueueLimit} \in SUBSET Nat /\ {Len(q), QueueLimit} # {}
      BY <1>5
    <2>2. PICK x \in {Len(q), QueueLimit} : \A y \in {Len(q), QueueLimit} : x <= y
      BY <2>1, LeastElement
    <2>3. n \in {Len(q), QueueLimit} /\ \A y \in {Len(q), QueueLimit} : n <= y
      BY <2>2 DEF Min
    <2>4. QED
      BY <1>5, <2>3
  <1>7. edf_dmissed_q' = SubSeq(q, 1, n)
    BY <1>1 DEF q
  <1> HIDE DEF n
  <1>8. QED
    BY <1>5, <1>6, <1>7

(***************************************************************************)
(* What both passes of a recalculation over the table m leave: the types,  *)
(* the entries but for their status and remaining time, and the ranks.     *)
(***************************************************************************)
LEMMA RecalculateFacts ==
  ASSUME TypeOK, NEW m, Table(m), Recalculate(m), UNCHANGED now,
         NEW f, f = Refresh(m)
  PROVE  /\ TypeOK'
         /\ DOMAIN dtask_map' = DOMAIN m
         /\ \A t \in DOMAIN m :
              /\ dtask_map'[t].deadline = m[t].deadline
              /\ dtask_map'[t].relative_deadline = m[t].relative_deadline
              /\ dtask_map'[t].state = m[t].state
              /\ dtask_map'[t].status = "MISSED"
                   <=> m[t].status = "MISSED" \/ t \in Late(f)
         /\ EligibleTasks(dtask_map') = EligibleTasks(m)
         /\ \A t \in Ranked(m) : prio'[t] = RankOf(f, t)
         /\ \A t \in Task \ Ranked(m) : prio'[t] = prio[t]
  <1>1. /\ now \in 0 .. MaxTime /\ prio \in [Task -> Nat]
        /\ edf_dmissed_q \in Seq(Task)
    BY DEF TypeOK
  <1>2. /\ DOMAIN f = DOMAIN m
        /\ f \in [DOMAIN m -> Entry]
        /\ \A t \in DOMAIN m :
             /\ f[t].deadline = m[t].deadline
             /\ f[t].relative_deadline = m[t].relative_deadline
             /\ f[t].status = m[t].status
             /\ f[t].state = m[t].state
        /\ EligibleTasks(f) = EligibleTasks(m)
        /\ Ranked(f) = Ranked(m)
    BY <1>1, RefreshFacts
  <1>3. /\ dtask_map' = [t \in DOMAIN f |->
                          IF t \in Late(f) THEN [f[t] EXCEPT !.status = "MISSED"] ELSE f[t]]
        /\ prio' = [t \in Task |-> IF t \in Ranked(f) THEN RankOf(f, t) ELSE prio[t]]
        /\ deadline_missed(Late(f))
    BY DEF Recalculate, RankOf
  <1>4. Ranked(f) \subseteq EligibleTasks(f) /\ Late(f) \subseteq Task
    BY <1>2 DEF Ranked, Late, EligibleTasks, Table
  <1>5. DOMAIN dtask_map' = DOMAIN m
    BY <1>2, <1>3
  <1>6. ASSUME NEW t \in DOMAIN m
        PROVE  /\ dtask_map'[t] \in Entry
               /\ dtask_map'[t].deadline = m[t].deadline
               /\ dtask_map'[t].relative_deadline = m[t].relative_deadline
               /\ dtask_map'[t].state = m[t].state
               /\ dtask_map'[t].status = "MISSED"
                    <=> m[t].status = "MISSED" \/ t \in Late(f)
    <2>1. f[t] \in Entry
      BY <1>2
    <2>2. CASE t \in Late(f)
      <3>1. dtask_map'[t] = [f[t] EXCEPT !.status = "MISSED"]
        BY <1>2, <1>3, <2>2
      <3>2. QED
        BY <1>2, <2>1, <2>2, <3>1 DEF Entry
    <2>3. CASE t \notin Late(f)
      <3>1. dtask_map'[t] = f[t]
        BY <1>2, <1>3, <2>3
      <3>2. QED
        BY <1>2, <2>1, <2>3, <3>1
    <2>4. QED
      BY <2>2, <2>3
  <1>7. \A t \in Ranked(f) : RankOf(f, t) \in Nat
    <2>1. \A t \in Ranked(f) : RankOf(f, t) \in MINPRIO .. MAXPRIO
      BY <1>2, <1>4, RankFacts
    <2>2. QED
      BY <2>1
  <1>8. prio' \in [Task -> Nat]
    BY <1>1, <1>3, <1>7
  <1>9. edf_dmissed_q' \in Seq(Task) /\ Len(edf_dmissed_q') <= QueueLimit
    BY <1>1, <1>3, <1>4, NotifyType
  <1>10. dtask_map' \in [DOMAIN m -> Entry]
    BY <1>2, <1>3, <1>6
  <1>11. TypeOK'
    BY <1>1, <1>5, <1>8, <1>9, <1>10 DEF TypeOK, Table
  <1>12. EligibleTasks(dtask_map') = EligibleTasks(m)
    BY <1>5, <1>6 DEF EligibleTasks, Eligible
  <1>13. /\ \A t \in Ranked(m) : prio'[t] = RankOf(f, t)
         /\ \A t \in Task \ Ranked(m) : prio'[t] = prio[t]
    BY <1>2, <1>3, <1>4 DEF Table, EligibleTasks
  <1>14. QED
    BY <1>5, <1>6, <1>11, <1>12, <1>13

(***************************************************************************)
(* A recalculation restores the order of the priorities on a table whose   *)
(* deadlines are anchored and whose late tasks are at MAXPRIO; it needs    *)
(* no order among the priorities it finds.                                 *)
(***************************************************************************)
LEMMA RecalculateSafe ==
  ASSUME SafeDeadlines, TypeOK, NEW m, Table(m), AnchoredTable(m), LateOnTopIn(m),
         Recalculate(m), UNCHANGED now
  PROVE  /\ TypeOK' /\ Anchored' /\ LateOnTop' /\ EDFOrder'
         /\ \A t \in DueFirst' : prio'[t] = MAXPRIO
  <1> DEFINE f == Refresh(m)
             E == EligibleTasks(m)
  <1>1. now \in 0 .. MaxTime /\ Word \in Nat /\ MAXPRIO \in Nat
    BY Half * Half \in Nat DEF TypeOK
  <1>2. /\ DOMAIN f = DOMAIN m
        /\ f \in [DOMAIN m -> Entry]
        /\ EligibleTasks(f) = E
        /\ Ranked(f) = Ranked(m)
        /\ \A t \in E : f[t].remain = IF m[t].deadline > now THEN m[t].deadline - now ELSE 0
    BY <1>1, RefreshFacts
  <1>3. /\ TypeOK'
        /\ DOMAIN dtask_map' = DOMAIN m
        /\ \A t \in DOMAIN m :
             /\ dtask_map'[t].deadline = m[t].deadline
             /\ dtask_map'[t].relative_deadline = m[t].relative_deadline
             /\ dtask_map'[t].state = m[t].state
             /\ dtask_map'[t].status = "MISSED"
                  <=> m[t].status = "MISSED" \/ t \in Late(f)
        /\ EligibleTasks(dtask_map') = E
        /\ \A t \in Ranked(m) : prio'[t] = RankOf(f, t)
        /\ \A t \in Task \ Ranked(m) : prio'[t] = prio[t]
    BY RecalculateFacts
  <1>4. /\ E \subseteq DOMAIN m /\ E \subseteq Task
        /\ \A t \in E : t \in Ranked(m) \/ m[t].status = "MISSED"
        /\ Ranked(m) \subseteq E
        /\ \A t \in DOMAIN m : m[t].deadline \in Nat /\ m[t].relative_deadline \in Nat
    BY <1>1 DEF Table, EligibleTasks, Ranked, Entry
  <1>5. ASSUME NEW t \in Late(f)
        PROVE  t \in Ranked(m) /\ f[t].remain = 0 /\ m[t].deadline <= now
    BY <1>1, <1>2, <1>4 DEF Late
  <1>6. \A t \in E : f[t].remain \in Nat
    BY <1>1, <1>2, <1>4
  <1>7. ASSUME NEW t \in E, NEW u \in E, m[t].deadline <= m[u].deadline
        PROVE  f[t].remain <= f[u].remain
    BY <1>1, <1>2, <1>4, <1>7
  <1>8. ASSUME NEW t \in E, m[t].deadline <= now
        PROVE  \A u \in E : f[t].remain <= f[u].remain
    BY <1>1, <1>2, <1>4, <1>6, <1>8
  <1>9. ASSUME NEW t \in E
        PROVE  f[t].remain * (MAXPRIO - MINPRIO) < Word
    <2> DEFINE d == m[t].relative_deadline
    <2>1. d \in Deadline /\ d # DEADLINENOTSET /\ m[t].deadline <= now + d
      BY <1>4 DEF AnchoredTable, EligibleTasks, Eligible
    <2>2. d * (MAXPRIO - MINPRIO) < Word /\ d \in Nat
      BY <1>4, <2>1 DEF SafeDeadlines
    <2>3. f[t].remain <= d /\ f[t].remain \in Nat
      BY <1>1, <1>2, <1>4, <2>1, <2>2
    <2>4. /\ f[t].remain * (MAXPRIO - MINPRIO) \in Nat
          /\ d * (MAXPRIO - MINPRIO) \in Nat
          /\ f[t].remain * (MAXPRIO - MINPRIO) <= d * (MAXPRIO - MINPRIO)
      <3>1. MAXPRIO - MINPRIO \in Nat
        OBVIOUS
      <3> HIDE DEF d
      <3>2. QED
        BY <2>2, <2>3, <3>1, ProductMonotone
    <2>5. QED
      BY <1>1, <2>2, <2>4
  <1> HIDE DEF f, E
  <1>10. ASSUME NEW t \in Ranked(m)
         PROVE  /\ RankOf(f, t) \in MINPRIO .. MAXPRIO
                /\ (\A u \in E : f[t].remain <= f[u].remain) => RankOf(f, t) = MAXPRIO
                /\ \A u \in E : f[t].remain <= f[u].remain => RankOf(f, t) >= RankOf(f, u)
    BY <1>2, <1>4, <1>9, RankFacts
  <1>11. Anchored'
    <2>1. \A t \in DOMAIN m : t \in Late(f) =>
            m[t].relative_deadline # DEADLINENOTSET /\ m[t].deadline <= now
      BY <1>4, <1>5 DEF E, EligibleTasks, Eligible
    <2>2. QED
      BY <1>3, <2>1 DEF Anchored, AnchoredTable
  <1>12. \A t \in E : m[t].status = "MISSED" =>
           prio'[t] = MAXPRIO /\ m[t].deadline <= now /\ t \notin Ranked(m)
    BY <1>3, <1>4 DEF LateOnTopIn, AnchoredTable, E, Ranked
  <1>13. \A t \in E : m[t].deadline <= now => prio'[t] = MAXPRIO
    BY <1>3, <1>4, <1>8, <1>10, <1>12
  <1>14. \A t \in E : prio'[t] \in Nat /\ prio'[t] <= MAXPRIO
    BY <1>1, <1>3, <1>4, <1>10, <1>12
  <1>15. LateOnTop'
    BY <1>3, <1>5, <1>4, <1>13, <1>12 DEF LateOnTop
  <1>16. EDFOrder'
    <2>1. SUFFICES ASSUME NEW t \in E, NEW u \in E, m[t].deadline <= m[u].deadline
                   PROVE  prio'[t] >= prio'[u]
      BY <1>3, <1>4 DEF EDFOrder
    <2>2. CASE m[t].deadline <= now
      BY <1>1, <1>13, <1>14, <2>2
    <2>3. CASE ~ (m[t].deadline <= now)
      <3>1. /\ t \in Ranked(m) /\ u \in Ranked(m)
            /\ prio'[t] = RankOf(f, t) /\ prio'[u] = RankOf(f, u)
        BY <1>1, <1>3, <1>4, <1>12, <2>1, <2>3
      <3>2. QED
        BY <1>7, <1>10, <2>1, <3>1
    <2>4. QED
      BY <2>2, <2>3
  <1>17. ASSUME NEW t \in DueFirst'
         PROVE  prio'[t] = MAXPRIO
    <2>1. t \in E /\ \A u \in E : m[t].deadline <= m[u].deadline
      BY <1>3, <1>4 DEF DueFirst
    <2>2. QED
      BY <1>3, <1>4, <1>7, <1>10, <1>12, <2>1
  <1>18. QED
    BY <1>3, <1>11, <1>15, <1>16, <1>17

(***************************************************************************)
(* Arming a deadline keeps a table well formed, anchored and with its late *)
(* tasks on top: the new entry is not late.                                *)
(***************************************************************************)
LEMMA ArmedTable ==
  ASSUME TypeOK, NEW t \in Task, NEW relative \in 0 .. Word - 1,
         NEW m, m = Put(dtask_map, t, Armed(relative))
  PROVE  /\ Table(m)
         /\ SafeDeadlines /\ Anchored /\ relative \in Deadline => AnchoredTable(m)
         /\ LateOnTop => LateOnTopIn(m)
  <1> DEFINE e == Armed(relative)
  <1>1. /\ now \in 0 .. MaxTime /\ Word \in Nat \ {0} /\ now + relative \in Nat
        /\ DOMAIN dtask_map \subseteq Task /\ dtask_map \in [DOMAIN dtask_map -> Entry]
    <2>1. Half * Half > 0
      OBVIOUS
    <2>2. Word \in Nat \ {0}
      BY <2>1
    <2>3. /\ now \in 0 .. MaxTime /\ DOMAIN dtask_map \subseteq Task
          /\ dtask_map \in [DOMAIN dtask_map -> Entry]
      BY DEF TypeOK
    <2>4. QED
      BY <2>2, <2>3
  <1>2. (now + relative) % Word \in 0 .. Word - 1 /\ (now + relative) % Word <= now + relative
    BY <1>1, Remainder
  <1>3. e \in Entry
    BY <1>2 DEF Armed, Entry
  <1>4. /\ e.deadline = (now + relative) % Word /\ e.relative_deadline = relative
        /\ e.status = "OK"
    BY DEF Armed
  <1> HIDE DEF e
  <1>5. /\ DOMAIN m = DOMAIN dtask_map \cup {t}
        /\ m[t] = e
        /\ \A u \in DOMAIN m \ {t} : u \in DOMAIN dtask_map /\ m[u] = dtask_map[u]
    BY DEF Put, e
  <1>6. Table(m)
    <2>1. \A u \in DOMAIN m : m[u] \in Entry
      BY <1>1, <1>3, <1>5
    <2>2. m = [u \in DOMAIN m |-> m[u]]
      BY DEF Put
    <2>3. QED
      BY <1>1, <1>5, <2>1, <2>2 DEF Table
  <1>7. ASSUME SafeDeadlines, Anchored, relative \in Deadline
        PROVE  AnchoredTable(m)
    <2>1. relative # DEADLINENOTSET => e.deadline = now + relative
      <3>1. relative # DEADLINENOTSET => now + relative < Word
        BY <1>1, <1>7 DEF SafeDeadlines, DEADLINENOTSET
      <3>2. QED
        BY <1>1, <1>4, <3>1, Remainder
    <2>2. QED
      BY <1>1, <1>2, <1>4, <1>5, <1>7, <2>1 DEF Anchored, AnchoredTable
  <1>8. ASSUME LateOnTop
        PROVE  LateOnTopIn(m)
    BY <1>4, <1>5, <1>8 DEF LateOnTop, LateOnTopIn, EligibleTasks
  <1>9. QED
    BY <1>6, <1>7, <1>8

(***************************************************************************)
(* Every step that recalculates does so over a table that keeps what the   *)
(* lemmas above need.                                                      *)
(***************************************************************************)
LEMMA RecalculationTable ==
  ASSUME TypeOK, Recalculation
  PROVE  \E m : /\ Table(m) /\ Recalculate(m) /\ UNCHANGED now
                /\ SafeDeadlines /\ Anchored => AnchoredTable(m)
                /\ LateOnTop => LateOnTopIn(m)
  <1>1. /\ Table(dtask_map)
        /\ Anchored => AnchoredTable(dtask_map)
        /\ LateOnTop => LateOnTopIn(dtask_map)
    BY DEF TypeOK, Table, Anchored, AnchoredTable, LateOnTop, LateOnTopIn
  <1>2. Deadline \subseteq 0 .. Word - 1
    BY DEF DEADLINENOTSET
  <1>3. ASSUME NEW t \in Task, NEW relative \in Deadline, rt_dtask_create(t, relative)
        PROVE  \E m : /\ Table(m) /\ Recalculate(m) /\ UNCHANGED now
                      /\ SafeDeadlines /\ Anchored => AnchoredTable(m)
                      /\ LateOnTop => LateOnTopIn(m)
    <2>1. CASE t \in DOMAIN dtask_map
      BY <1>1, <1>3, <2>1 DEF rt_dtask_create
    <2>2. CASE t \notin DOMAIN dtask_map
      <3> DEFINE m == Put(dtask_map, t, Armed(relative))
      <3>1. Recalculate(m) /\ UNCHANGED now
        BY <1>3, <2>2 DEF rt_dtask_create
      <3>2. /\ Table(m)
            /\ SafeDeadlines /\ Anchored => AnchoredTable(m)
            /\ LateOnTop => LateOnTopIn(m)
        BY <1>2, ArmedTable
      <3> HIDE DEF m
      <3>3. QED
        BY <3>1, <3>2
    <2>3. QED
      BY <2>1, <2>2
  <1>4. ASSUME NEW t \in Task, NEW relative \in Deadline, rt_dtask_setdeadline(t, relative)
        PROVE  \E m : /\ Table(m) /\ Recalculate(m) /\ UNCHANGED now
                      /\ SafeDeadlines /\ Anchored => AnchoredTable(m)
                      /\ LateOnTop => LateOnTopIn(m)
    <2> DEFINE m == Put(dtask_map, t, Armed(relative))
    <2>1. Recalculate(m) /\ UNCHANGED now
      BY <1>4 DEF rt_dtask_setdeadline
    <2>2. /\ Table(m)
          /\ SafeDeadlines /\ Anchored => AnchoredTable(m)
          /\ LateOnTop => LateOnTopIn(m)
      BY <1>2, ArmedTable
    <2> HIDE DEF m
    <2>3. QED
      BY <2>1, <2>2
  <1>5. ASSUME NEW t \in Task, rt_dtask_resetdeadline(t)
        PROVE  \E m : /\ Table(m) /\ Recalculate(m) /\ UNCHANGED now
                      /\ SafeDeadlines /\ Anchored => AnchoredTable(m)
                      /\ LateOnTop => LateOnTopIn(m)
    <2> DEFINE relative == dtask_map[t].relative_deadline
               m == Put(dtask_map, t, Armed(relative))
    <2>1. Recalculate(m) /\ UNCHANGED now /\ t \in DOMAIN dtask_map
      BY <1>5 DEF rt_dtask_resetdeadline
    <2>2. relative \in 0 .. Word - 1 /\ (Anchored => relative \in Deadline)
      BY <2>1 DEF TypeOK, Entry, Anchored
    <2> HIDE DEF relative
    <2>3. /\ Table(m)
          /\ SafeDeadlines /\ Anchored => AnchoredTable(m)
          /\ LateOnTop => LateOnTopIn(m)
      BY <2>2, ArmedTable
    <2> HIDE DEF m
    <2>4. QED
      BY <2>1, <2>3
  <1>6. CASE rt_dtask_recalculateprio
    BY <1>1, <1>6 DEF rt_dtask_recalculateprio
  <1>7. QED
    BY <1>3, <1>4, <1>5, <1>6 DEF Recalculation

(***************************************************************************)
(* What every step that recalculates leaves.                               *)
(***************************************************************************)
LEMMA RecalculationStep ==
  ASSUME TypeOK, Recalculation
  PROVE  /\ TypeOK'
         /\ \A t \in Task : t \notin EligibleTasks(dtask_map') => prio'[t] = prio[t]
         /\ SafeDeadlines /\ Anchored /\ LateOnTop =>
              /\ Anchored' /\ LateOnTop' /\ EDFOrder'
              /\ \A t \in DueFirst' : prio'[t] = MAXPRIO
  <1>1. PICK m : /\ Table(m) /\ Recalculate(m) /\ UNCHANGED now
                 /\ SafeDeadlines /\ Anchored => AnchoredTable(m)
                 /\ LateOnTop => LateOnTopIn(m)
    BY RecalculationTable
  <1>2. /\ TypeOK'
        /\ EligibleTasks(dtask_map') = EligibleTasks(m)
        /\ \A t \in Task \ Ranked(m) : prio'[t] = prio[t]
    BY <1>1, RecalculateFacts
  <1>3. \A t \in Task : t \notin EligibleTasks(dtask_map') => prio'[t] = prio[t]
    BY <1>2 DEF Ranked
  <1>4. ASSUME SafeDeadlines, Anchored, LateOnTop
        PROVE  /\ Anchored' /\ LateOnTop' /\ EDFOrder'
               /\ \A t \in DueFirst' : prio'[t] = MAXPRIO
    BY <1>1, <1>4, RecalculateSafe
  <1>5. QED
    BY <1>2, <1>3, <1>4

(***************************************************************************)
(* A step that does not recalculate takes no task into the eligible ones,  *)
(* changes no priority and no deadline, and never turns the clock back.    *)
(***************************************************************************)
LEMMA OtherStep ==
  ASSUME TypeOK, [Next]_vars, ~ Recalculation
  PROVE  /\ TypeOK'
         /\ prio' = prio
         /\ now' \in Nat /\ now <= now'
         /\ DOMAIN dtask_map' \subseteq DOMAIN dtask_map
         /\ \A t \in DOMAIN dtask_map' :
              /\ dtask_map'[t].deadline = dtask_map[t].deadline
              /\ dtask_map'[t].relative_deadline = dtask_map[t].relative_deadline
              /\ dtask_map'[t].status = dtask_map[t].status
         /\ EligibleTasks(dtask_map') \subseteq EligibleTasks(dtask_map)
  <1> USE DEF TypeOK
  <1>1. ASSUME NEW t \in Task, rt_dtask_goingwaitp(t)
        PROVE  /\ UNCHANGED <<now, prio, edf_dmissed_q>>
               /\ DOMAIN dtask_map' = DOMAIN dtask_map
               /\ dtask_map' \in [DOMAIN dtask_map -> Entry]
               /\ \A u \in DOMAIN dtask_map' :
                    /\ dtask_map'[u].deadline = dtask_map[u].deadline
                    /\ dtask_map'[u].relative_deadline = dtask_map[u].relative_deadline
                    /\ dtask_map'[u].status = dtask_map[u].status
                    /\ dtask_map'[u].state \in {dtask_map[u].state, "GOING_WAITP"}
    <2>1. /\ UNCHANGED <<now, prio, edf_dmissed_q>>
          /\ dtask_map' = [dtask_map EXCEPT ![t] = [dtask_map[t] EXCEPT !.state = "GOING_WAITP"]]
          /\ t \in DOMAIN dtask_map
      BY <1>1 DEF rt_dtask_goingwaitp
    <2> DEFINE e == dtask_map[t]
               w == [e EXCEPT !.state = "GOING_WAITP"]
    <2>2. e \in Entry
      BY <2>1
    <2> HIDE DEF e
    <2>3. /\ w \in Entry /\ w.state = "GOING_WAITP" /\ w.deadline = e.deadline
          /\ w.relative_deadline = e.relative_deadline /\ w.status = e.status
      BY <2>2 DEF Entry
    <2>4. dtask_map' = [dtask_map EXCEPT ![t] = w]
      BY <2>1 DEF e
    <2> HIDE DEF w
    <2>5. \A u \in DOMAIN dtask_map : dtask_map'[u] = IF u = t THEN w ELSE dtask_map[u]
      BY <2>4
    <2>6. dtask_map' \in [DOMAIN dtask_map -> Entry]
      BY <2>3, <2>4
    <2>7. QED
      BY <2>1, <2>3, <2>4, <2>5, <2>6 DEF e
  <1>2. CASE \E t \in Task : rt_dtask_stopwatchdog(t) \/ rt_dtask_goingwaitp(t)
    BY <1>1, <1>2 DEF rt_dtask_stopwatchdog, EligibleTasks, Eligible
  <1>3. CASE \E t \in Task : rt_dtask_delete(t)
    BY <1>3 DEF rt_dtask_delete, Restrict, EligibleTasks
  <1>4. CASE rt_dtask_dispose
    BY <1>4 DEF rt_dtask_dispose, Restrict, EligibleTasks
  <1>5. CASE Tick
    BY <1>5 DEF Tick
  <1>6. CASE ReadMissed
    BY <1>6 DEF ReadMissed
  <1>7. CASE UNCHANGED vars
    BY <1>7 DEF vars
  <1>8. QED
    BY <1>2, <1>3, <1>4, <1>5, <1>6, <1>7 DEF Next

(***************************************************************************)
(* The state of the table is well typed in every reachable state.          *)
(***************************************************************************)
LEMMA InitType == Init => TypeOK
  BY DEF Init, TypeOK, rt_dtask_init, Restrict

LEMMA NextType == TypeOK /\ [Next]_vars => TypeOK'
  <1>1. SUFFICES ASSUME TypeOK, [Next]_vars PROVE TypeOK'
    OBVIOUS
  <1>2. CASE Recalculation
    BY <1>1, <1>2, RecalculationStep
  <1>3. CASE ~ Recalculation
    BY <1>1, <1>3, OtherStep
  <1>4. QED
    BY <1>2, <1>3

THEOREM TypeCorrect == Spec => []TypeOK
  <1>1. QED
    BY InitType, NextType, PTL DEF Spec

(***************************************************************************)
(* With deadlines that stay clear of the end of the 64 bit word, EDFInv is *)
(* inductive.                                                              *)
(***************************************************************************)
LEMMA InitEDF == Init => EDFInv
  <1>1. ASSUME Init
        PROVE  DOMAIN dtask_map = {}
    BY <1>1 DEF Init, rt_dtask_init, Restrict
  <1>2. QED
    BY <1>1, InitType DEF EDFInv, Anchored, LateOnTop, EDFOrder, EligibleTasks

LEMMA NextEDF == SafeDeadlines /\ EDFInv /\ [Next]_vars => EDFInv'
  <1>1. SUFFICES ASSUME SafeDeadlines, EDFInv, [Next]_vars PROVE EDFInv'
    OBVIOUS
  <1>2. TypeOK /\ Anchored /\ LateOnTop /\ EDFOrder
    BY <1>1 DEF EDFInv
  <1>3. CASE Recalculation
    BY <1>1, <1>2, <1>3, RecalculationStep DEF EDFInv
  <1>4. CASE ~ Recalculation
    <2>1. /\ TypeOK'
          /\ prio' = prio
          /\ now' \in Nat /\ now <= now'
          /\ DOMAIN dtask_map' \subseteq DOMAIN dtask_map
          /\ \A t \in DOMAIN dtask_map' :
               /\ dtask_map'[t].deadline = dtask_map[t].deadline
               /\ dtask_map'[t].relative_deadline = dtask_map[t].relative_deadline
               /\ dtask_map'[t].status = dtask_map[t].status
          /\ EligibleTasks(dtask_map') \subseteq EligibleTasks(dtask_map)
      BY <1>1, <1>2, <1>4, OtherStep
    <2>2. Anchored'
      <3>1. now \in Nat
        BY <1>2 DEF TypeOK
      <3>2. \A t \in DOMAIN dtask_map :
              dtask_map[t].deadline \in Nat /\ dtask_map[t].relative_deadline \in Nat
        <4>1. Word \in Nat
          BY Half * Half \in Nat
        <4>2. \A t \in DOMAIN dtask_map :
                dtask_map[t].deadline \in 0 .. Word - 1
                  /\ dtask_map[t].relative_deadline \in 0 .. Word - 1
          BY <1>2 DEF TypeOK, Entry
        <4>3. QED
          BY <4>1, <4>2
      <3>3. QED
        BY <1>2, <2>1, <3>1, <3>2 DEF Anchored
    <2>3. EligibleTasks(dtask_map') \subseteq DOMAIN dtask_map'
      BY DEF EligibleTasks
    <2>4. LateOnTop' /\ EDFOrder'
      BY <1>2, <2>1, <2>3 DEF LateOnTop, EDFOrder
    <2>5. QED
      BY <2>1, <2>2, <2>4 DEF EDFInv
  <1>5. QED
    BY <1>3, <1>4

THEOREM EDFInvariant ==
  ASSUME SafeDeadlines
  PROVE  Spec => []EDFInv
  <1>1. EDFInv /\ [Next]_vars => EDFInv'
    BY NextEDF
  <1>2. QED
    BY InitEDF, <1>1, PTL DEF Spec

(***************************************************************************)
(* Earliest deadline first, for every number of tasks, word size, priority *)
(* range and clock: the scheduler's fixed priorities always agree with the *)
(* deadlines that run.                                                     *)
(***************************************************************************)
THEOREM EarliestDeadlineFirst ==
  ASSUME SafeDeadlines
  PROVE  Spec => []EDFOrder
  <1>1. EDFInv => EDFOrder
    BY DEF EDFInv
  <1>2. QED
    BY EDFInvariant, <1>1, PTL

(***************************************************************************)
(* No deadline is marked MISSED before it has elapsed.                     *)
(***************************************************************************)
THEOREM MissesAreLate ==
  ASSUME SafeDeadlines
  PROVE  Spec => []NoEarlyMiss
  <1>1. EDFInv => NoEarlyMiss
    <2>1. SUFFICES ASSUME EDFInv, NEW t \in DOMAIN dtask_map,
                          dtask_map[t].status = "MISSED"
                   PROVE  /\ dtask_map[t].deadline <= now
                          /\ dtask_map[t].relative_deadline <= now
      BY DEF NoEarlyMiss
    <2>2. /\ dtask_map[t].relative_deadline <= dtask_map[t].deadline
          /\ dtask_map[t].deadline <= now
      BY <2>1 DEF EDFInv, Anchored
    <2>3. /\ now \in Int /\ dtask_map[t].deadline \in Int
          /\ dtask_map[t].relative_deadline \in Int
      BY <2>1 DEF EDFInv, TypeOK, Entry
    <2>4. QED
      BY <2>2, <2>3
  <1>2. QED
    BY EDFInvariant, <1>1, PTL

(***************************************************************************)
(* A recalculation always gives MAXPRIO to the tasks due first.            *)
(***************************************************************************)
THEOREM DueFirstIsPromoted ==
  ASSUME SafeDeadlines
  PROVE  Spec => RecalculationPromotesDueFirst
  <1>1. EDFInv /\ [Next]_vars
          => [Recalculation => \A t \in DueFirst' : prio'[t] = MAXPRIO]_vars
    BY RecalculationStep DEF EDFInv
  <1>2. QED
    BY EDFInvariant, <1>1, PTL DEF Spec, RecalculationPromotesDueFirst

(***************************************************************************)
(* The priority of a task without a running deadline is never touched.     *)
(***************************************************************************)
THEOREM IdleTasksAreStatic == Spec => StaticWithoutDeadline
  <1>1. TypeOK /\ [Next]_vars
          => [\A t \in Task : t \notin EligibleTasks(dtask_map)' => prio'[t] = prio[t]]_vars
    <2>1. SUFFICES ASSUME TypeOK, [Next]_vars, NEW t \in Task,
                          t \notin EligibleTasks(dtask_map')
                   PROVE  prio'[t] = prio[t]
      OBVIOUS
    <2>2. CASE Recalculation
      BY <2>1, <2>2, RecalculationStep
    <2>3. CASE ~ Recalculation
      BY <2>1, <2>3, OtherStep
    <2>4. QED
      BY <2>2, <2>3
  <1>2. QED
    BY TypeCorrect, <1>1, PTL DEF Spec, StaticWithoutDeadline

-----------------------------------------------------------------------------
(* The table implements the monitor.                                       *)

\* The phase of each task in a table m.
PhaseIn(m) == [t \in Task |->
                 IF t \notin DOMAIN m THEN "unknown"
                 ELSE IF ~ Eligible(m[t]) THEN "idle"
                 ELSE IF m[t].status = "OK" THEN "armed" ELSE "missed"]

LEMMA PhaseOfTable == phase = PhaseIn(dtask_map) /\ phase' = PhaseIn(dtask_map')
  BY DEF phase, PhaseIn

(***************************************************************************)
(* The notification of the tasks found late is that of the monitor.        *)
(***************************************************************************)
LEMMA SameNotification ==
  ASSUME NEW late, deadline_missed(late)
  PROVE  \E names \in Monitor!SetToSeqs(late) :
           LET all == edf_dmissed_q \o names
           IN  edf_dmissed_q' = SubSeq(all, 1, Monitor!Min({Len(all), QueueLimit}))
  <1>1. SetToSeqs(late) = Monitor!SetToSeqs(late)
    <2>1. Cardinality(late) = Monitor!Cardinality(late)
      BY Zenon DEF Cardinality, Monitor!Cardinality
    <2>2. QED
      BY <2>1 DEF SetToSeqs, Monitor!SetToSeqs
  <1>2. \A S : Min(S) = Monitor!Min(S)
    BY DEF Min, Monitor!Min
  <1>3. QED
    BY <1>1, <1>2 DEF deadline_missed

\* Nothing found late leaves the reports as they are.
LEMMA NoNotification ==
  ASSUME TypeOK, UNCHANGED edf_dmissed_q
  PROVE  \E names \in Monitor!SetToSeqs({}) :
           LET all == edf_dmissed_q \o names
           IN  edf_dmissed_q' = SubSeq(all, 1, Monitor!Min({Len(all), QueueLimit}))
  <1>1. edf_dmissed_q \in Seq(Task) /\ Len(edf_dmissed_q) <= QueueLimit
    BY DEF TypeOK
  <1>2. Monitor!Cardinality({}) = 0
    <2>1. Cardinality({}) = Monitor!Cardinality({})
      BY Zenon DEF Cardinality, Monitor!Cardinality
    <2>2. QED
      BY <2>1, FS_EmptySet
  <1>3. << >> \in Monitor!SetToSeqs({})
    BY <1>2 DEF Monitor!SetToSeqs
  <1>4. edf_dmissed_q \o << >> = edf_dmissed_q
    BY <1>1
  <1>5. Monitor!Min({Len(edf_dmissed_q), QueueLimit}) = Len(edf_dmissed_q)
    BY <1>1 DEF Monitor!Min
  <1>6. SubSeq(edf_dmissed_q, 1, Len(edf_dmissed_q)) = edf_dmissed_q
    BY <1>1
  <1>7. QED
    BY <1>3, <1>4, <1>5, <1>6

(***************************************************************************)
(* A recalculation over a table m finds its late tasks missed.             *)
(***************************************************************************)
LEMMA RecalculationFinds ==
  ASSUME TypeOK, NEW m, Table(m), Recalculate(m), UNCHANGED now
  PROVE  \E late \in SUBSET Task : Monitor!Find(PhaseIn(m), late)
  <1> DEFINE f == Refresh(m)
             late == Late(f)
  <1>1. now \in 0 .. MaxTime
    BY DEF TypeOK
  <1>2. /\ DOMAIN dtask_map' = DOMAIN m
        /\ \A t \in DOMAIN m :
             /\ dtask_map'[t].relative_deadline = m[t].relative_deadline
             /\ dtask_map'[t].state = m[t].state
             /\ dtask_map'[t].status = "MISSED" <=> m[t].status = "MISSED" \/ t \in late
        /\ TypeOK'
    BY RecalculateFacts
  <1>3. late \subseteq Ranked(m) /\ DOMAIN f = DOMAIN m
    BY <1>1, RefreshFacts DEF Late
  <1>4. deadline_missed(late)
    BY DEF Recalculate
  <1> HIDE DEF f, late
  <1>5. \A t \in late : t \in Task /\ t \in DOMAIN m /\ Eligible(m[t]) /\ m[t].status = "OK"
    BY <1>3 DEF Ranked, EligibleTasks, Table
  <1>6. \A t \in DOMAIN m : /\ m[t].status \in {"OK", "MISSED"}
                            /\ dtask_map'[t].status \in {"OK", "MISSED"}
    BY <1>2 DEF Table, TypeOK, Entry
  <1>7. phase' = [t \in Task |-> IF t \in late THEN "missed" ELSE PhaseIn(m)[t]]
    <2>1. ASSUME NEW t \in Task
          PROVE  PhaseIn(dtask_map')[t] = IF t \in late THEN "missed" ELSE PhaseIn(m)[t]
      BY <1>2, <1>5, <1>6 DEF PhaseIn, Eligible
    <2>2. PhaseIn(dtask_map') = [t \in Task |-> PhaseIn(dtask_map')[t]]
      BY DEF PhaseIn
    <2>3. QED
      BY <2>1, <2>2, PhaseOfTable
  <1>8. \A t \in late : PhaseIn(m)[t] = "armed"
    BY <1>5 DEF PhaseIn
  <1>9. Monitor!Find(PhaseIn(m), late)
    BY <1>4, <1>7, <1>8, SameNotification DEF Monitor!Find
  <1>10. late \in SUBSET Task
    BY <1>5
  <1>11. QED
    BY <1>9, <1>10

\* A step that notifies nobody is a Find of the phases it leaves.
LEMMA QuietFind ==
  ASSUME TypeOK, UNCHANGED edf_dmissed_q
  PROVE  Monitor!Find(PhaseIn(dtask_map'), {})
  <1>1. phase' = [t \in Task |-> PhaseIn(dtask_map')[t]]
    BY PhaseOfTable DEF PhaseIn
  <1>2. QED
    BY <1>1, NoNotification DEF Monitor!Find

(***************************************************************************)
(* Arming a deadline moves one task to armed or, without a deadline, to    *)
(* idle; the recalculation that follows may find others late.              *)
(***************************************************************************)
LEMMA ArmingIsRequest ==
  ASSUME TypeOK, NEW t \in Task, NEW relative \in 0 .. Word - 1,
         Recalculate(Put(dtask_map, t, Armed(relative))), UNCHANGED now
  PROVE  Monitor!MonitorNext
  <1> DEFINE m == Put(dtask_map, t, Armed(relative))
             p == IF relative = DEADLINENOTSET THEN "idle" ELSE "armed"
  <1>1. Table(m)
    BY ArmedTable
  <1>2. \E late \in SUBSET Task : Monitor!Find(PhaseIn(m), late)
    BY <1>1, RecalculationFinds
  <1>3. /\ DOMAIN m = DOMAIN dtask_map \cup {t}
        /\ m[t] = Armed(relative)
        /\ \A u \in DOMAIN m \ {t} : m[u] = dtask_map[u]
    BY DEF Put
  <1> HIDE DEF m
  <1>4. PhaseIn(m) = [PhaseIn(dtask_map) EXCEPT ![t] = p]
    <2>1. /\ m[t].relative_deadline = relative
          /\ m[t].status = "OK" /\ m[t].state = "RUNNING"
      BY <1>3 DEF Armed
    <2>2. PhaseIn(m)[t] = p
      BY <1>3, <2>1 DEF PhaseIn, Eligible
    <2>3. ASSUME NEW u \in Task, u # t
          PROVE  PhaseIn(m)[u] = PhaseIn(dtask_map)[u]
      BY <1>3, <2>3 DEF PhaseIn
    <2>4. QED
      BY <2>2, <2>3 DEF PhaseIn
  <1>5. Monitor!Request(t, p)
    BY <1>2, <1>4, PhaseOfTable DEF Monitor!Request
  <1>6. QED
    BY <1>5 DEF Monitor!MonitorNext

(***************************************************************************)
(* Every step of the table is a step of the monitor or a stutter.          *)
(***************************************************************************)
LEMMA MonitorStep ==
  ASSUME TypeOK, [Next]_vars
  PROVE  [Monitor!MonitorNext]_(Monitor!monitorVars)
  <1>1. Table(dtask_map) /\ Deadline \subseteq 0 .. Word - 1
    BY DEF TypeOK, Table, DEADLINENOTSET
  <1>2. ASSUME Recalculate(dtask_map), UNCHANGED now
        PROVE  Monitor!MonitorNext
    <2>1. \E late \in SUBSET Task : Monitor!Find(phase, late)
      BY <1>1, <1>2, RecalculationFinds, PhaseOfTable
    <2>2. QED
      BY <2>1 DEF Monitor!MonitorNext, Monitor!Look
  <1>3. ASSUME NEW t \in Task, NEW relative \in Deadline, rt_dtask_create(t, relative)
        PROVE  Monitor!MonitorNext
    <2>1. CASE t \in DOMAIN dtask_map
      BY <1>2, <1>3, <2>1 DEF rt_dtask_create
    <2>2. CASE t \notin DOMAIN dtask_map
      BY <1>1, <1>3, <2>2, ArmingIsRequest DEF rt_dtask_create
    <2>3. QED
      BY <2>1, <2>2
  <1>4. ASSUME NEW t \in Task, NEW relative \in Deadline, rt_dtask_setdeadline(t, relative)
        PROVE  Monitor!MonitorNext
    BY <1>1, <1>4, ArmingIsRequest DEF rt_dtask_setdeadline
  <1>5. ASSUME NEW t \in Task, rt_dtask_resetdeadline(t)
        PROVE  Monitor!MonitorNext
    <2>1. dtask_map[t].relative_deadline \in 0 .. Word - 1
      BY <1>5 DEF rt_dtask_resetdeadline, TypeOK, Entry
    <2>2. QED
      BY <1>5, <2>1, ArmingIsRequest DEF rt_dtask_resetdeadline
  <1>6. ASSUME NEW t \in Task, rt_dtask_goingwaitp(t)
        PROVE  Monitor!MonitorNext
    <2>1. /\ DOMAIN dtask_map' = DOMAIN dtask_map /\ t \in DOMAIN dtask_map
          /\ dtask_map'[t].state = "GOING_WAITP"
          /\ \A u \in DOMAIN dtask_map \ {t} : dtask_map'[u] = dtask_map[u]
      BY <1>6 DEF rt_dtask_goingwaitp, TypeOK, Entry
    <2>2. PhaseIn(dtask_map') = [phase EXCEPT ![t] = "idle"]
      BY <2>1, PhaseOfTable DEF PhaseIn, Eligible
    <2>3. Monitor!Request(t, "idle")
      BY <1>6, <2>2, QuietFind DEF Monitor!Request, rt_dtask_goingwaitp
    <2>4. QED
      BY <2>3 DEF Monitor!MonitorNext
  <1>7. ASSUME NEW t \in Task, rt_dtask_delete(t)
        PROVE  Monitor!MonitorNext
    <2>1. /\ DOMAIN dtask_map' = DOMAIN dtask_map \ {t}
          /\ \A u \in DOMAIN dtask_map \ {t} : dtask_map'[u] = dtask_map[u]
      BY <1>7 DEF rt_dtask_delete, Restrict
    <2>2. PhaseIn(dtask_map') = [phase EXCEPT ![t] = "unknown"]
      BY <2>1, PhaseOfTable DEF PhaseIn
    <2>3. Monitor!Request(t, "unknown")
      BY <1>7, <2>2, QuietFind DEF Monitor!Request, rt_dtask_delete
    <2>4. QED
      BY <2>3 DEF Monitor!MonitorNext
  <1>8. ASSUME rt_dtask_dispose
        PROVE  Monitor!MonitorNext
    <2>1. DOMAIN dtask_map' = {}
      BY <1>8 DEF rt_dtask_dispose, Restrict
    <2>2. PhaseIn(dtask_map') = [t \in Task |-> "unknown"]
      BY <2>1 DEF PhaseIn
    <2>3. Monitor!Shutdown
      BY <1>8, <2>2, QuietFind DEF Monitor!Shutdown, rt_dtask_dispose
    <2>4. QED
      BY <2>3 DEF Monitor!MonitorNext
  <1>9. ASSUME ReadMissed
        PROVE  Monitor!MonitorNext
    BY <1>9 DEF ReadMissed, phase, Monitor!Collect, Monitor!MonitorNext
  <1>10. CASE UNCHANGED <<dtask_map, edf_dmissed_q>>
    BY <1>10, PhaseOfTable DEF Monitor!monitorVars
  <1>11. CASE Recalculation
    BY <1>2, <1>3, <1>4, <1>5, <1>11 DEF Recalculation, rt_dtask_recalculateprio
  <1>12. CASE \E t \in Task : rt_dtask_stopwatchdog(t) \/ rt_dtask_goingwaitp(t)
    BY <1>6, <1>12 DEF rt_dtask_stopwatchdog
  <1>13. QED
    BY <1>7, <1>8, <1>9, <1>10, <1>11, <1>12 DEF Next, Tick, vars

-----------------------------------------------------------------------------
(***************************************************************************)
(* A miss is reported once for each time the deadline was armed, in the    *)
(* step that notices it, and only a full queue loses a report.             *)
(***************************************************************************)
THEOREM TableImplementsMonitor == Spec => MonitorSpec
  <1>1. Init => Monitor!MonitorInit
    <2>1. Init => DOMAIN dtask_map = {}
      BY DEF Init, rt_dtask_init, Restrict
    <2>2. QED
      BY <2>1 DEF Init, Monitor!MonitorInit, phase
  <1>2. TypeOK /\ [Next]_vars => [Monitor!MonitorNext]_(Monitor!monitorVars)
    BY MonitorStep
  <1>3. QED
    BY <1>1, <1>2, TypeCorrect, PTL DEF Spec, MonitorSpec, Monitor!Spec
=============================================================================
