---------------------------- MODULE MCContainer -----------------------------
(* Instances of Container for TLC.                                         *)
EXTENDS Container, TLC

CONSTANTS r1, r2, i1, i2, i3, p1, p2

MCRuntimes == {r1, r2}
MCInodes == {i1, i2, i3}
MCPids == {p1, p2}

(* Names of invocations, inodes and pids are interchangeable.              *)
MCSymmetry ==
    Permutations(MCRuntimes) \cup Permutations(MCInodes) \cup Permutations(MCPids)

(* With one pid a container's process must be reaped before the next one.  *)
MCOnePid == {p1}

(* A bundle with a process of the user's; a bundle with and one without.   *)
WithProcess == {TRUE}
WithOrWithout == BOOLEAN

(* Sets of failures.                                                       *)
NoFaults == {}
CrashFaults == {"crash", "save", "pidReuse"}
StepFaults == FaultPoints \ {"crash", "pidReuse", "save"}

(* Failures after which nothing is left behind.                            *)
TidyFaults ==
    FaultPoints \ {"crash", "pidReuse", "new", "save", "createCgroup", "deleteCgroup"}

(* Failures a command survives: it answers with an error and returns.      *)
AnsweredFaults ==
    FaultPoints \ {"crash", "save", "deleteCgroup", "prePivot", "createContainer"}

(* The failure create does not survive.                                    *)
PrePivotFault == {"prePivot"}
=============================================================================
