-------------------------- MODULE DeadlineMonitor --------------------------
(***************************************************************************)
(* What the deadline table promises about missed deadlines, without        *)
(* clocks, priorities or a table: each task's deadline is in a phase, a    *)
(* request moves one task to another phase, and armed deadlines are found  *)
(* missed, each with one report, until a request arms them again.          *)
(***************************************************************************)
EXTENDS Sequences, SequencesExt

CONSTANTS Task, QueueLimit

VARIABLES
  phase,     \* the phase of each task's deadline
  reports    \* the reports nobody has read yet

monitorVars == <<phase, reports>>

Phase == {"unknown", "idle", "armed", "missed"}

MonitorTypeOK ==
  /\ phase \in [Task -> Phase]
  /\ reports \in Seq(Task)

MonitorInit ==
  /\ phase = [t \in Task |-> "unknown"]
  /\ reports = <<>>

\* The deadlines of late are found missed once the phases are ph.  Each is
\* reported as long as the reports do not exceed QueueLimit.
Find(ph, late) ==
  /\ \A t \in late : ph[t] = "armed"
  /\ phase' = [t \in Task |-> IF t \in late THEN "missed" ELSE ph[t]]
  /\ \E names \in SetToSeqs(late) :
       LET all == reports \o names
       IN  reports' = SubSeq(all, 1, Min({Len(all), QueueLimit}))

\* A request for task t arms or disarms its deadline; it may find others late.
Request(t, p) ==
  \E late \in SUBSET Task : Find([phase EXCEPT ![t] = p], late)

\* The deadlines are looked at without a request.
Look == \E late \in SUBSET Task : Find(phase, late)

\* Every task is forgotten.
Shutdown == Find([t \in Task |-> "unknown"], {})

Collect ==
  /\ reports # <<>>
  /\ reports' = Tail(reports)
  /\ UNCHANGED phase

MonitorNext ==
  \/ \E t \in Task, p \in {"unknown", "idle", "armed"} : Request(t, p)
  \/ Look
  \/ Shutdown
  \/ Collect

Spec == MonitorInit /\ [][MonitorNext]_monitorVars
=============================================================================
