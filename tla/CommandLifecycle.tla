--------------------------- MODULE CommandLifecycle ---------------------------
(***************************************************************************)
(* What M10 promises about one command, and M11 about one delivery,        *)
(* whatever the queue, the tasks, the database and the process do: the     *)
(* status machine of                                                       *)
(* docs/implementation/M10_AgenticExecutionBroker.md:62-65, with the       *)
(* station (or the board) acting only while the command is being           *)
(* processed, and an acknowledged command never touched again.             *)
(* ExecutionBroker and VmsRouter implement it with a single operator.      *)
(***************************************************************************)
EXTENDS Naturals

CONSTANT Execs

VARIABLES status, effects

Vars == <<status, effects>>

Move(e, from, to) ==
  /\ status[e] \in from
  /\ status' = [status EXCEPT ![e] = to]
  /\ UNCHANGED effects

Create(e) == Move(e, {"absent"}, "pending")
Attempt(e) == Move(e, {"pending", "retrying", "processing"}, "processing")
Acknowledge(e) == Move(e, {"processing"}, "acknowledged")
Postpone(e) == Move(e, {"processing"}, "retrying")
GiveUp(e) == Move(e, {"processing"}, "dead_letter")
Reopen(e) == Move(e, {"dead_letter"}, "pending")

Act(e) ==
  /\ status[e] = "processing"
  /\ effects' = [effects EXCEPT ![e] = @ + 1]
  /\ UNCHANGED status

LifecycleInit ==
  /\ status = [e \in Execs |-> "absent"]
  /\ effects = [e \in Execs |-> 0]

LifecycleNext ==
  \E e \in Execs :
    \/ Create(e)
    \/ Attempt(e)
    \/ Act(e)
    \/ Acknowledge(e)
    \/ Postpone(e)
    \/ GiveUp(e)
    \/ Reopen(e)

Lifecycle == LifecycleInit /\ [][LifecycleNext]_Vars

(* An acknowledged command is never touched again: no retry reopens it, and   *)
(* the station does not act for it once more                                  *)
(* (execution/service.py:367, vms/service.py:258).                            *)
AcknowledgedUntouched ==
  [][\A e \in Execs : status[e] = "acknowledged" =>
       status'[e] = "acknowledged" /\ effects'[e] = effects[e]]_Vars
===============================================================================
