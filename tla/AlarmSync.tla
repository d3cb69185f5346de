----------------------------- MODULE AlarmSync ------------------------------
(***************************************************************************)
(* What the alarm module promises about the tasks on the servers while the *)
(* set of servers stays the same, without saying how: a task gets a copy   *)
(* only when no server has one, so that no alert is raised twice; a task   *)
(* with several copies may lose some but never the last; only a task whose *)
(* alarm was not wanted at some time may disappear.                        *)
(*                                                                         *)
(* Kapacitor implements this specification (ImplementsAlarmSync).          *)
(***************************************************************************)
CONSTANTS Addrs, Versions, TaskIds

VARIABLES
    copies,     \* for each task, the servers that host it
    withdrawn   \* the versions that at some time were not wanted

vars == <<copies, withdrawn>>

Init ==
    /\ copies \in [TaskIds -> SUBSET Addrs]
    /\ withdrawn \in SUBSET Versions

\* The first copy of a task.
Place(id, a) ==
    /\ id \in Versions
    /\ copies[id] = {}
    /\ copies' = [copies EXCEPT ![id] = {a}]
    /\ UNCHANGED withdrawn

\* A copy goes: one of several, or any one of a task that was not wanted.
Drop(id, a) ==
    /\ id \in withdrawn \/ copies[id] \ {a} # {}
    /\ copies' = [copies EXCEPT ![id] = @ \ {a}]
    /\ UNCHANGED withdrawn

\* Alarms are removed from the registry.
Withdraw ==
    /\ withdrawn' \in SUBSET Versions
    /\ withdrawn \subseteq withdrawn'
    /\ UNCHANGED copies

Next ==
    \/ \E id \in TaskIds, a \in Addrs : Place(id, a) \/ Drop(id, a)
    \/ Withdraw

Spec == Init /\ [][Next]_vars
=============================================================================
