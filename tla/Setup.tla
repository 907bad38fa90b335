------------------------------- MODULE Setup --------------------------------
(***************************************************************************)
(* The container's process from its fork to the user's program: its        *)
(* namespaces (Namespaces), the file system (RootFS), the createContainer  *)
(* hooks once it is complete, the wait for start, what is left of the      *)
(* set-up, and the startContainer hooks (Hooks).  The messages to the      *)
(* runtime are those of InitProcess, the privileges those of               *)
(* ProcessSecurity.                                                        *)
(***************************************************************************)
EXTENDS RootFS, Hooks, Namespaces

(* What the schema of config.json says of the lists the proofs look into.  *)
ASSUME ConfigsAssumption ==
    \A c \in Configs :
        /\ c.createContainer \in Seq(Hook)
        /\ c.startContainer \in Seq(Hook)
        /\ c.namespaces \in Seq([type : NSTypes, path : Paths])

VARIABLE hostname   \* the uts namespace whose host name was set, None if none was

vars == <<rootfsVars, hookVars, nsVars, hostname>>

Phases == {"createContainer", "startContainer"}

TypeOK ==
    /\ RootFSTypeOK /\ HooksTypeOK /\ NamespacesTypeOK
    /\ hostname \in Namespace \cup {None}

Init == RootFSInit /\ HooksInit /\ NamespacesInit /\ hostname = None

-----------------------------------------------------------------------------

Phase(from, list, to) ==
    /\ pc = from
    /\ \/ BeginHooks(list) /\ UNCHANGED rootfsVars
       \/ EndHooks("ok") /\ Goto(from, to) /\ UNCHANGED <<mnt, root, next, nodes, pty>>
       \/ hook.state = "error" /\ Fails /\ UNCHANGED hookVars

(* Then Ready is sent.                                                     *)
CreateContainerHooks == Phase("createContainer", conf.createContainer, "waitStart")

(* Without a process nothing is set up after start, and Reexec returns.    *)
ReceiveStart ==
    /\ Goto("waitStart", IF conf.process THEN "sysctl" ELSE "startContainer")
    /\ UNCHANGED <<mnt, root, next, nodes, pty, hookVars>>

StartContainerHooks ==
    Phase("startContainer", conf.startContainer, IF conf.process THEN "exec" ELSE "exited")

MutantHostname ==
    /\ Goto("hostname", "startContainer")
    /\ hostname' = IF \E i \in DOMAIN conf.namespaces : conf.namespaces[i].type = "uts"
                   THEN ns["uts"] ELSE hostname
    /\ UNCHANGED <<mnt, root, next, nodes, pty, hookVars>>

(* "Only set hostname if we created a new UTS namespace."                  *)
Sethostname ==
    /\ Goto("hostname", "startContainer")
    /\ hostname' = IF \E i \in DOMAIN conf.namespaces : conf.namespaces[i] = [type |-> "uts", path |-> ""]
                   THEN ns["uts"] ELSE hostname
    /\ UNCHANGED <<mnt, root, next, nodes, pty, hookVars>>

Mounting ==
    /\ \/ SetupPrePivot \/ ConnectConsole \/ MountConsole
       \/ PivotRoot \/ DetachOldRoot \/ SetupPostPivot
    /\ UNCHANGED hookVars

Reexec == Mounting \/ CreateContainerHooks \/ StartContainerHooks

Hooking == pc \in Phases /\ ExecHooks /\ UNCHANGED rootfsVars

Timeout == pc \in Phases /\ TimerFires /\ UNCHANGED rootfsVars

Next ==
    \/ /\ Namespacing(conf.namespaces, conf.timeOffsets)
       /\ UNCHANGED <<rootfsVars, hookVars, hostname>>
    \/ /\ nsStep = "joined"
       /\ \/ /\ \/ Reexec \/ Hooking \/ Timeout \/ ReceiveStart
                \/ Fails /\ UNCHANGED hookVars
                \/ HookActs /\ UNCHANGED rootfsVars
             /\ UNCHANGED hostname
          \/ Sethostname
       /\ UNCHANGED nsVars

(* The process goes on once a hook has ended, and its timer fires; neither *)
(* a hook nor what it started has to end.                                  *)
Fairness ==
    /\ WF_vars(CreateContainerHooks /\ UNCHANGED <<nsVars, hostname>>)
    /\ WF_vars(StartContainerHooks /\ UNCHANGED <<nsVars, hostname>>)
    /\ WF_vars(Hooking /\ UNCHANGED <<nsVars, hostname>>)
    /\ WF_vars(Timeout /\ UNCHANGED <<nsVars, hostname>>)

Spec == Init /\ [][Next]_vars /\ Fairness

-----------------------------------------------------------------------------
(* Properties.                                                             *)

(* The process that sets up the container is in the namespaces its         *)
(* configuration asks for: a new one of each type without a path, the one  *)
(* a path names, and the runtime's of all other types; joining part of     *)
(* them is an error.  Namespaces listed after a mount namespace with a     *)
(* path are left out: their paths are looked up inside it.                 *)
NamespacesAsAsked ==
    nsStep = "joined" =>
        \A t \in NSTypes :
            ns[t] \in Asked(conf.namespaces, t) \/ AfterMountJoin(conf.namespaces, t)

(* The host name is set in a namespace made for this container, and        *)
(* neither the host's nor that of a namespace joined is touched.           *)
HostnameIsOwn == hostname \in {None, "new"}

(* ExecHooks returns at the first error, and the error ends the set-up:    *)
(* the program runs only if every hook of both phases ran and ended well,  *)
(* within its timeout.                                                     *)
ProgramAfterHooks ==
    pc = "exec" =>
        exits = [i \in 1 .. Len(conf.createContainer) + Len(conf.startContainer) |-> "ok"]

(* Hooks do not overlap the rest of the set-up or each other: when one is  *)
(* about to start, or a phase is over, neither the previous hook nor a     *)
(* process that writes to its output is left.                              *)
NoHookLeft ==
    pc # "failed" /\ hook.state \in {"idle", "lookup", "start", "ok", "error"} => pipes = {}

(* A phase of hooks that has begun comes to an end: the process waits for  *)
(* ever only for a hook without a timeout, or for a descendant of a hook   *)
(* that keeps the pipes, which the timeout does not reach.                 *)
PhasesEnd ==
    \/ []<>(hook.state = "idle" \/ pc = "failed")
    \/ <>[](hook.state = "running" /\ Head(todo).timeout = "none")
    \/ <>[]("descendant" \in pipes)

=============================================================================
