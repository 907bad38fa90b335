------------------------- MODULE MCProcessSecurity -------------------------
(* Instances of ProcessSecurity for TLC.                                   *)
EXTENDS ProcessSecurity

(* The kernel has one capability the table lacks, and lacks one of the     *)
(* table's; a configuration may misspell a name.                           *)
Common == {"CAP_SETPCAP", "CAP_SYS_ADMIN", "CAP_SETUID", "CAP_SETGID", "CAP_KILL"}
MCCaps == Common \cup {"CAP_NEWER"}
MCKnown == Common \cup {"CAP_BPF"}
MCNames == MCKnown \cup {"ALL", "CAP_TYPO"}

MCHosts == {MCCaps, MCCaps \ {"CAP_SYS_ADMIN"}, MCCaps \ {"CAP_SETPCAP"}}

Lists == {None, {"CAP_KILL", "CAP_TYPO"}, {"CAP_KILL", "CAP_BPF", "CAP_SETPCAP"}, {"ALL"}}

(* Only for the bounding set an empty list differs from no list: exec      *)
(* gives it and nothing else.                                              *)
MCCapabilities ==
    [bounding : Lists \cup {{}}, effective : Lists, inheritable : Lists, permitted : Lists,
     ambient : Lists]

MCRequests ==
    [user : {[root |-> TRUE, groups |-> FALSE], [root |-> FALSE, groups |-> TRUE]},
     capabilities : MCCapabilities \cup {None},
     seccomp : {None, {}, {"prctl"}, {"capset"}}, noNewPrivs : BOOLEAN]
=============================================================================
