-------------------------- MODULE ProcessSecurity --------------------------
(***************************************************************************)
(* ApplyProcessSecurity: the last thing the container's process, and the   *)
(* process of an exec, does to itself before it becomes the user's         *)
(* program.  It gives up privileges step by step, and each step needs some *)
(* of the privileges that the others give up, so the order is everything.  *)
(* One thread (it is locked to the goroutine) runs the steps; the rules of *)
(* the kernel for each call are stated where the call is modelled.         *)
(***************************************************************************)
EXTENDS Naturals

CONSTANTS
    None,
    Caps,       \* the capabilities of the running kernel, 0 .. cap_last_cap
    Known,      \* the keys of the table "capabilities"
    Names,      \* names a configuration may use
    Hosts,      \* capability sets the runtime may have
    Requests    \* the configurations: the members of ProcessSecurity

ALL == {"ALL", "CAP_ALL"}

CapLists == (SUBSET Names) \cup {None}

(* Calls a seccomp profile may deny, among the ones made below.            *)
Calls == {"prctl", "setid", "capset"}

LinuxCapabilities ==
    [bounding : CapLists, effective : CapLists, inheritable : CapLists,
     permitted : CapLists, ambient : CapLists]

(* root: the UID is 0; groups: the GID or additional groups differ from    *)
(* the runtime's; seccomp: the calls the profile denies.                   *)
Options ==
    [user : [root : BOOLEAN, groups : BOOLEAN],
     capabilities : LinuxCapabilities \cup {None},
     seccomp : (SUBSET Calls) \cup {None}, noNewPrivs : BOOLEAN]

ASSUME SecurityAssumption ==
    /\ Known \subseteq Names
    /\ ALL \cap (Known \cup Caps) = {}
    /\ Hosts \subseteq SUBSET Caps
    /\ Requests \subseteq Options
    /\ {"CAP_SETPCAP", "CAP_SYS_ADMIN", "CAP_SETUID", "CAP_SETGID"} \subseteq Caps \cap Known

VARIABLES
    opts,   \* what is asked for
    host,   \* what the runtime had
    pc,     \* the next step
    cred,   \* the thread's capability sets, user and flags
    filter  \* the seccomp filter in force, None if there is none

vars == <<opts, host, pc, cred, filter>>

Steps ==
    {"seccompPrivileged", "dropBounding", "keepCaps", "setUser", "capset", "ambient",
     "clearKeepCaps", "noNewPrivs", "seccomp", "exec", "program", "failed"}

Credentials ==
    [root : BOOLEAN, permitted : SUBSET Caps, effective : SUBSET Caps,
     inheritable : SUBSET Caps, bounding : SUBSET Caps, ambient : SUBSET Caps,
     keepCaps : BOOLEAN, noNewPrivs : BOOLEAN]

TypeOK ==
    /\ opts \in Requests
    /\ host \in Hosts
    /\ pc \in Steps
    /\ cred \in Credentials
    /\ filter \in (SUBSET Calls) \cup {None}

Init ==
    /\ opts \in Requests
    /\ host \in Hosts
    /\ pc = "seccompPrivileged"
    /\ cred = [root |-> TRUE, permitted |-> host, effective |-> host, inheritable |-> {},
               bounding |-> host, ambient |-> {}, keepCaps |-> FALSE, noNewPrivs |-> FALSE]
    /\ filter = None

-----------------------------------------------------------------------------
(* Names to capabilities.                                                  *)

(* "ALL" stands for the whole table, an unknown name is skipped.           *)
resolveCaps(names) ==
    CASE names = None -> {}
      [] names # None /\ names \cap ALL # {} -> Known
      [] OTHER -> names \cap Known

isPrivileged == opts.capabilities.bounding # None
                /\ opts.capabilities.bounding \cap ALL # {}

(* SetCapabilities gets what is asked for, and from SetAllCapabilities the *)
(* whole table.  The kernel masks the capabilities it does not know.       *)
Wanted(set) == Caps \cap (IF isPrivileged THEN Known ELSE resolveCaps(opts.capabilities[set]))

-----------------------------------------------------------------------------
(* Steps.                                                                  *)

Denied(call) == filter # None /\ call \in filter

Proceed(to) == pc' = to /\ UNCHANGED <<opts, host>>

Goto(to) == Proceed(to) /\ UNCHANGED <<cred, filter>>

(* A step that makes a call: it takes effect if the kernel allows it, and  *)
(* otherwise ApplyProcessSecurity returns the error.                       *)
Try(allowed, c, to) ==
    IF allowed THEN cred' = c /\ Proceed(to) /\ UNCHANGED filter ELSE Goto("failed")

(* Loading a filter needs CAP_SYS_ADMIN or no_new_privs, and the flag is   *)
(* left as it is (SetNoNewPrivsBit(false)).                                *)
MutantLoadSeccompFilter(to) ==
    /\ filter' = opts.seccomp
    /\ cred' = [cred EXCEPT !.noNewPrivs = TRUE]
    /\ Proceed(to)

LoadSeccompFilter(to) ==
    IF "CAP_SYS_ADMIN" \in cred.effective \/ cred.noNewPrivs
    THEN filter' = opts.seccomp /\ Proceed(to) /\ UNCHANGED cred
    ELSE Goto("failed")

SeccompPrivileged ==
    /\ pc = "seccompPrivileged"
    /\ IF opts.seccomp # None /\ ~opts.noNewPrivs THEN LoadSeccompFilter("dropBounding")
                                                  ELSE Goto("dropBounding")

MutantDropBounding ==
    /\ pc = "dropBounding"
    /\ Goto("keepCaps")

MutantSetBounding ==
    /\ pc = "dropBounding"
    /\ IF opts.capabilities # None /\ opts.capabilities.bounding # None
       THEN Try("CAP_SETPCAP" \in cred.effective /\ ~Denied("prctl"),
                [cred EXCEPT !.bounding = resolveCaps(opts.capabilities.bounding)], "keepCaps")
       ELSE Goto("keepCaps")

(* PR_CAPBSET_DROP of each capability of the kernel's that is not to be    *)
(* retained needs CAP_SETPCAP.                                             *)
DropBoundingCapabilities ==
    /\ pc = "dropBounding"
    /\ IF opts.capabilities # None /\ opts.capabilities.bounding # None
       THEN LET drop == Caps \ resolveCaps(opts.capabilities.bounding)
            IN  Try(drop # {} => "CAP_SETPCAP" \in cred.effective /\ ~Denied("prctl"),
                    [cred EXCEPT !.bounding = @ \ drop], "keepCaps")
       ELSE Goto("keepCaps")

MutantSetKeepCaps ==
    /\ pc = "keepCaps"
    /\ Goto("setUser")

SetKeepCaps ==
    /\ pc = "keepCaps"
    /\ IF ~opts.user.root /\ opts.capabilities # None
       THEN Try(~Denied("prctl"), [cred EXCEPT !.keepCaps = TRUE], "setUser")
       ELSE Goto("setUser")

(* What the kernel leaves to a root process that becomes another user.     *)
Unprivileged(c) ==
    [c EXCEPT !.root = FALSE, !.effective = {}, !.ambient = {},
              !.permitted = IF c.keepCaps THEN @ ELSE {}]

(* setgroups and setgid, then setuid.                                      *)
SetUser ==
    /\ pc = "setUser"
    /\ Try(/\ ~Denied("setid")
           /\ opts.user.groups => "CAP_SETGID" \in cred.effective
           /\ ~opts.user.root => "CAP_SETUID" \in cred.effective,
           IF opts.user.root THEN cred ELSE Unprivileged(cred),
           IF opts.capabilities = None THEN "noNewPrivs" ELSE "capset")

(* SetCapabilities up to capset.  Nothing can be added to the permitted    *)
(* set, the effective set lies within the new permitted set, and the       *)
(* inheritable set may grow within the bounding set and, without           *)
(* CAP_SETPCAP, within the permitted set.                                  *)
Capset ==
    /\ pc = "capset"
    /\ Try(/\ ~Denied("capset")
           /\ Wanted("permitted") \subseteq cred.permitted
           /\ Wanted("effective") \subseteq Wanted("permitted")
           /\ Wanted("inheritable") \subseteq cred.inheritable \cup cred.bounding
           /\ \/ "CAP_SETPCAP" \in cred.effective
              \/ Wanted("inheritable") \subseteq cred.inheritable \cup cred.permitted,
           [cred EXCEPT !.permitted = Wanted("permitted"),
                        !.effective = Wanted("effective"),
                        !.inheritable = Wanted("inheritable"),
                        !.ambient = @ \cap Wanted("permitted") \cap Wanted("inheritable")],
           "ambient")

(* Clearing all ambient capabilities must succeed; raising one that is not *)
(* both permitted and inheritable fails, which is ignored.                 *)
RaiseAmbient ==
    /\ pc = "ambient"
    /\ Try(~Denied("prctl"),
           [cred EXCEPT !.ambient = Wanted("ambient") \cap cred.permitted \cap cred.inheritable],
           "clearKeepCaps")

ClearKeepCaps ==
    /\ pc = "clearKeepCaps"
    /\ IF ~isPrivileged /\ ~opts.user.root
       THEN Try(~Denied("prctl"), [cred EXCEPT !.keepCaps = FALSE], "noNewPrivs")
       ELSE Goto("noNewPrivs")

SetNoNewPrivs ==
    /\ pc = "noNewPrivs"
    /\ IF opts.noNewPrivs
       THEN Try(~Denied("prctl"), [cred EXCEPT !.noNewPrivs = TRUE], "seccomp")
       ELSE Goto("seccomp")

Seccomp ==
    /\ pc = "seccomp"
    /\ IF opts.seccomp # None /\ opts.noNewPrivs THEN LoadSeccompFilter("exec") ELSE Goto("exec")

(* The profiles of the security modules, which take effect at execve, and  *)
(* what the callers still do; any of it may fail.                          *)
LabelsFail == pc = "exec" /\ Goto("failed")

(* execve of a program without file capabilities: root gains what is       *)
(* inheritable or in the bounding set, another user keeps what is ambient. *)
Exec ==
    /\ pc = "exec"
    /\ LET after == IF cred.root THEN cred.inheritable \cup cred.bounding ELSE cred.ambient
       IN  cred' = [cred EXCEPT !.permitted = after, !.effective = after, !.keepCaps = FALSE]
    /\ Proceed("program")
    /\ UNCHANGED filter

Next ==
    \/ SeccompPrivileged \/ DropBoundingCapabilities \/ SetKeepCaps \/ SetUser
    \/ Capset \/ RaiseAmbient \/ ClearKeepCaps \/ SetNoNewPrivs \/ Seccomp
    \/ LabelsFail \/ Exec

Spec == Init /\ [][Next]_vars

-----------------------------------------------------------------------------
(* Properties.                                                             *)

(* The user's program has no capability outside the bounding and the       *)
(* inheritable sets of the configuration; run by a user other than root,   *)
(* it has exactly the ambient ones that are also permitted and inheritable *)
(* or, when the configuration has no capabilities, none.                   *)
WithinRequest ==
    pc = "program" =>
        /\ opts.capabilities # None /\ opts.capabilities.bounding # None =>
              cred.permitted \subseteq
                  resolveCaps(opts.capabilities.bounding) \cup Wanted("inheritable")
        /\ ~opts.user.root /\ opts.capabilities = None => cred.permitted = {}
        /\ ~opts.user.root /\ opts.capabilities # None =>
              cred.permitted = Wanted("ambient") \cap Wanted("permitted") \cap Wanted("inheritable")

(* The program runs under the profile of the configuration, and with       *)
(* no_new_privs exactly when the configuration says so, whichever of the   *)
(* two places loaded the filter.                                           *)
FilterAsRequested ==
    pc = "program" => filter = opts.seccomp /\ (cred.noNewPrivs <=> opts.noNewPrivs)

(* A configuration the kernel can grant: the runtime has the capabilities  *)
(* asked for and those the calls need, and the profile denies none of the  *)
(* calls.                                                                  *)
Grantable ==
    /\ {"CAP_SETPCAP", "CAP_SYS_ADMIN", "CAP_SETUID", "CAP_SETGID"} \subseteq host
    /\ opts.seccomp \in {None, {}}
    /\ opts.capabilities # None =>
          /\ Wanted("effective") \subseteq Wanted("permitted")
          /\ Wanted("permitted") \subseteq host
          /\ Wanted("inheritable") \subseteq host
          /\ opts.capabilities.bounding # None =>
                Wanted("inheritable") \subseteq resolveCaps(opts.capabilities.bounding)

(* No step gives up what a later one needs: a configuration that can be    *)
(* granted is not refused before the program is executed ("seccomp filter  *)
(* loading is a privileged operation that requires CAP_SYS_ADMIN when      *)
(* NO_NEW_PRIVS is not set").                                              *)
GrantableIsGranted ==
    [][Grantable /\ pc # "exec" => pc' # "failed"]_vars

=============================================================================
