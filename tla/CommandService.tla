--------------------------- MODULE CommandService ---------------------------
(***************************************************************************)
(* What the executor promises the cloud about its commands, without queue, *)
(* locks, buffers or executions.  A command is admitted, runs, concludes   *)
(* with one outcome and is forgotten; its events are numbered 1, 2, ...;   *)
(* nothing follows its conclusion; commands with one lock key never run    *)
(* together, and at most Limit commands run.                               *)
(***************************************************************************)
EXTENDS Integers, FiniteSets

CONSTANTS
  Commands,
  LockOf(_),    \* the lock key of a command
  NoLock,
  Limit

VARIABLES
  stage,        \* of each command
  sequence,     \* its last event
  outcome,      \* how it concluded
  closed        \* the desktop is shutting down

vars == <<stage, sequence, outcome, closed>>

Running == {c \in Commands : stage[c] = "running"}

Init ==
  /\ stage = [c \in Commands |-> "absent"]
  /\ sequence = [c \in Commands |-> 0]
  /\ outcome = [c \in Commands |-> "none"]
  /\ closed = FALSE

\* The step of one command, as part of a step of the service.
Idle(c) ==
  /\ stage'[c] = stage[c]
  /\ outcome'[c] = outcome[c]
  /\ \/ sequence'[c] = sequence[c]
     \/ stage[c] = "running" /\ sequence'[c] = sequence[c] + 1

\* Admission: afresh, or again after the command was forgotten.
Admit(c) ==
  /\ stage[c] \in {"absent", "concluded"}
  /\ outcome'[c] = "none"
  /\ \/ stage'[c] = "waiting" /\ sequence'[c] = 0
     \/ stage'[c] = "running" /\ sequence'[c] = 1

Begin(c) ==
  /\ stage[c] = "waiting"
  /\ stage'[c] = "running"
  /\ sequence'[c] = sequence[c] + 1
  /\ outcome'[c] = outcome[c]

\* A result may precede the terminal event.
Conclude(c) ==
  /\ stage'[c] = "concluded"
  /\ \/ /\ stage[c] = "waiting"
        /\ outcome'[c] = "cancelled"
        /\ sequence'[c] = 1
     \/ /\ stage[c] = "running"
        /\ outcome'[c] \in {"done", "failed", "cancelled"}
        /\ sequence'[c] \in {sequence[c] + 1, sequence[c] + 2}

Forget(c) ==
  /\ stage[c] = "concluded"
  /\ stage'[c] = "absent"
  /\ outcome'[c] = "none"
  /\ sequence'[c] = 0

(***************************************************************************)
(* One event reaches the service at a time: at most one command is         *)
(* admitted or concludes, while others may begin or be forgotten.          *)
(***************************************************************************)
Step ==
  /\ \A c \in Commands : Idle(c) \/ Admit(c) \/ Begin(c) \/ Conclude(c) \/ Forget(c)
  /\ \A c, d \in Commands :
       (Admit(c) \/ Conclude(c)) /\ (Admit(d) \/ Conclude(d)) => c = d
  /\ Cardinality(Running') <= Limit
  /\ \A c, d \in Running' : LockOf(c) # NoLock /\ LockOf(c) = LockOf(d) => c = d
  /\ UNCHANGED closed

Close ==
  /\ ~closed
  /\ closed' = TRUE
  /\ stage' = [c \in Commands |-> "absent"]
  /\ outcome' = [c \in Commands |-> "none"]
  /\ sequence' = [c \in Commands |-> 0]

Next == Step \/ Close

Spec == Init /\ [][Next]_vars

\* Every admitted command concludes, unless the desktop shuts down.
EventuallyConcludes ==
  \A c \in Commands :
    stage[c] \in {"waiting", "running"} ~> stage[c] \in {"concluded", "absent"}

=============================================================================
