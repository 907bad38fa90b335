----------------------------- MODULE Lifecycle ------------------------------
(***************************************************************************)
(* What the runtime promises of a container's recorded status, whatever    *)
(* commands overlap, fail or are killed: the life cycle of the OCI runtime *)
(* specification with the extra status "paused".                           *)
(***************************************************************************)
VARIABLES
    status,     \* the recorded status, "none" when there is no container
    phase,      \* how far the recorded process has come
    hasProcess  \* the container has a process of the user's

Phases == {"setup", "ready", "started", "gone"}

LifecycleTypeOK ==
    /\ status \in {"none", "creating", "created", "running", "paused", "stopped"}
    /\ phase \in Phases
    /\ hasProcess \in BOOLEAN

Init == status = "none" /\ phase = "gone" /\ hasProcess \in BOOLEAN

Create == status = "none" /\ status' = "creating" /\ phase' = "gone"

(* Created once the process is set up; it may have died since.             *)
Created == status = "creating" /\ status' = "created" /\ phase' # "setup"

(* The process moves on to the user's program, or dies, on its own.        *)
Launch == phase = "ready" /\ phase' = "started" /\ UNCHANGED status
Die == phase' = "gone" /\ UNCHANGED status

(* Running once the process left the runtime's setup behind.               *)
Start ==
    /\ status = "created"
    /\ phase \in {"started", "gone"}
    /\ status' = "running"
    /\ UNCHANGED phase

Pause == status = "running" /\ status' = "paused" /\ UNCHANGED phase
Resume == status = "paused" /\ status' = "running" /\ UNCHANGED phase

(* A container with a process stops by the death of that process; one      *)
(* without is stopped by start.                                            *)
Stop ==
    /\ status \in {"created", "running", "paused"}
    /\ status' = "stopped"
    /\ hasProcess => phase = "gone"
    /\ UNCHANGED phase

(* Deleted, by force if need be.                                           *)
Remove == status # "none" /\ status' = "none" /\ phase' = "gone"

Next ==
    /\ \/ Create \/ Created \/ Launch \/ Die \/ Start
       \/ Pause \/ Resume \/ Stop \/ Remove
    /\ UNCHANGED hasProcess

Spec == Init /\ [][Next]_<<status, phase, hasProcess>>

=============================================================================
