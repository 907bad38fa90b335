------------------------------- MODULE MCExec -------------------------------
(* Instances of Exec for TLC.                                              *)
EXTENDS Exec, TLC

CONSTANTS r1, i1, i2, p1, p2, x1

MCRuntimes == {r1}
MCInodes == {i1, i2}
MCPids == {p1, p2}
MCExecs == {x1}
WithProcess == {TRUE}

(* Names of inodes and pids are interchangeable.                           *)
MCSymmetry == Permutations(MCInodes) \cup Permutations(MCPids)

(* A container with all namespaces, one in the host's pid namespace, and   *)
(* one with few namespaces of its own.                                     *)
MCNamespaceChoices == {NSTypes, NSTypes \ {"pid", "user"}, {"pid", "mnt"}}

(* Failures after which delete still finds the container's process.        *)
MCFaults == {"lookPath", "postPivot", "exec"}
=============================================================================
