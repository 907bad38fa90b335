---------------------------- MODULE InitProcess -----------------------------
(***************************************************************************)
(* The container's first process: the runtime binary re-executed inside    *)
(* the container's namespaces (Container.Reexec), which sets the container *)
(* up, waits on the container socket for the start message and becomes the *)
(* user's program.  With it, the two channels it talks over and what the   *)
(* kernel keeps of it: the process table and the container's cgroup.       *)
(*                                                                         *)
(*  init socketpair    child to create:  PrePivot, then Ready or           *)
(*                     InvalidExecutable                                   *)
(*  container socket   start to child:   Start;  child to start: ExecReady *)
(*                                                                         *)
(* Reexec accepts a single connection.  Later ones stay in the listen      *)
(* queue for as long as any process holds the listening descriptor, and    *)
(* the user's program inherits it (cmd.ExtraFiles has no close-on-exec).   *)
(***************************************************************************)
EXTENDS StateDir, Sequences

CONSTANTS
    Faults,     \* the failures this instance admits
    Bundles     \* whether the bundle's config.json has a process: the cases

(* The steps at which a failure is modelled.  The first group are steps of *)
(* Reexec, the second of the runtime's commands, the third environment.    *)
FaultPoints ==
    {"prePivot", "lookPath", "createContainer", "postPivot",
     "startContainer", "exec"}
    \cup {"new", "save", "fork", "createCgroup", "createRuntime", "prestart",
          "deleteCgroup"}
    \cup {"crash", "pidReuse"}

ASSUME InitProcessAssumption ==
    /\ Faults \subseteq FaultPoints
    /\ Bundles \subseteq BOOLEAN
    /\ Runtimes \cap Pids = {}

VARIABLES
    proc,       \* per pid, what the process is doing
    parent,     \* per pid, the create that forked it and has not exited
    initSock,   \* per pid, messages on the init socketpair not yet read
    conn,       \* per pid, the first connection on its container socket
    sock,       \* process listening at the path of the container socket
    peer,       \* per runtime, the process its connection leads to
    execReady,  \* runtimes with an unread ExecReady message
    cgroup,     \* processes in the container's cgroup
    frozen,     \* the container's cgroup is frozen
    hasProcess  \* the bundle's config.json has a process; nothing changes it

procVars == <<proc, parent, initSock, conn, sock, peer, execReady, cgroup, frozen>>

-----------------------------------------------------------------------------
(* What a live container process does next.  In "accept" it waits for a    *)
(* connection and in "recvStart" for the start message; "user" is the      *)
(* user's program.                                                         *)
SettingUp == {"boot", "prePivot", "lookPath", "createContainer", "sendReady"}
Waiting == {"accept", "recvStart"}
Starting == {"postPivot", "startContainer", "sendExecReady"}
Live == SettingUp \cup Waiting \cup Starting \cup {"exec", "user"}

(* "free": no such process; "zombie": exited and not waited for;           *)
(* "foreign": a process of the host that has nothing to do with anocir.    *)
Phases == Live \cup {"free", "zombie", "foreign"}

InitMsgs == {"PrePivot", "Ready", "InvalidExecutable"}

(* A connection: whether there is one, the runtime at its other end (None  *)
(* once that runtime closed it), and an unread start message.              *)
Conn == [used : BOOLEAN, cli : Runtimes \cup {None}, start : BOOLEAN]
NoConn == [used |-> FALSE, cli |-> None, start |-> FALSE]

(* At most two messages go over one socketpair.                            *)
InitProcessTypeOK ==
    /\ proc \in [Pids -> Phases]
    /\ parent \in [Pids -> Runtimes \cup {None}]
    /\ initSock \in [Pids -> Seq(InitMsgs)]
    /\ \A p \in Pids : Len(initSock[p]) =< 2
    /\ conn \in [Pids -> Conn]
    /\ sock \in Pids \cup {None}
    /\ peer \in [Runtimes -> Pids \cup {None}]
    /\ execReady \in SUBSET Runtimes
    /\ cgroup \in SUBSET Pids
    /\ frozen \in BOOLEAN

InitProcessInit ==
    /\ proc = [p \in Pids |-> "free"]
    /\ parent = [p \in Pids |-> None]
    /\ initSock = [p \in Pids |-> <<>>]
    /\ conn = [p \in Pids |-> NoConn]
    /\ sock = None
    /\ peer = [r \in Runtimes |-> None]
    /\ execReady = {}
    /\ cgroup = {}
    /\ frozen = FALSE

-----------------------------------------------------------------------------
(* The kernel.                                                             *)

Alive(p) == p \in Pids /\ proc[p] \in Live

(* A frozen cgroup stops its processes between any two steps.              *)
Scheduled(p) == ~(frozen /\ p \in cgroup)

(* The processes in S end: their descriptors close, which ends the         *)
(* connections they have and the ones waiting in their listen queue.       *)
(* Messages they sent stay readable.                                       *)
Terminate(S) ==
    /\ proc' = [p \in Pids |-> CASE p \in S /\ Alive(p) -> "zombie"
                                 [] p \in S /\ proc[p] = "foreign" -> "free"
                                 [] OTHER -> proc[p]]
    /\ conn' = [p \in Pids |-> IF p \in S THEN NoConn ELSE conn[p]]
    /\ peer' = [r \in Runtimes |-> IF peer[r] \in S THEN None ELSE peer[r]]
    /\ sock' = IF sock \in S THEN None ELSE sock
    /\ cgroup' = cgroup \ S

(* A step of Reexec that fails makes the process exit.                     *)
Exit(p) ==
    /\ Terminate({p})
    /\ UNCHANGED <<parent, initSock, execReady, frozen>>

(* A runtime's exit closes its end of both channels and leaves its child,  *)
(* if it has one, to the system's init.                                    *)
CloseConnections(r) ==
    /\ parent' = [p \in Pids |-> IF parent[p] = r THEN None ELSE parent[p]]
    /\ conn' = [p \in Pids |-> IF conn[p].cli = r
                               THEN [conn[p] EXCEPT !.cli = None] ELSE conn[p]]
    /\ peer' = [peer EXCEPT ![r] = None]
    /\ execReady' = execReady \ {r}

(* init(1), or the caller as a subreaper, waits for an orphan.  create     *)
(* itself never waits for its child.                                       *)
Reap(p) ==
    /\ proc[p] = "zombie"
    /\ parent[p] = None
    /\ proc' = [proc EXCEPT ![p] = "free"]
    /\ UNCHANGED <<parent, initSock, conn, sock, peer, execReady, cgroup, frozen>>

(* The kernel hands a free pid to a process of the host, which exits.      *)
Foreign(p) ==
    /\ "pidReuse" \in Faults
    /\ \/ proc[p] = "free" /\ proc' = [proc EXCEPT ![p] = "foreign"]
       \/ proc[p] = "foreign" /\ proc' = [proc EXCEPT ![p] = "free"]
    /\ UNCHANGED <<parent, initSock, conn, sock, peer, execReady, cgroup, frozen>>

-----------------------------------------------------------------------------
(* Reexec, step by step.                                                   *)

Step(p, from, to) ==
    /\ Scheduled(p)
    /\ proc[p] = from
    /\ proc' = [proc EXCEPT ![p] = to]
    /\ UNCHANGED <<parent, conn, sock, peer, cgroup, frozen>>

(* Writing to the init socketpair; create's exit has closed the other end  *)
(* when parent[p] is None, and then the write fails.                       *)
SendInit(p, msg, from, to) ==
    \/ /\ Step(p, from, to)
       /\ parent[p] # None
       /\ initSock' = [initSock EXCEPT ![p] = Append(@, msg)]
       /\ UNCHANGED execReady
    \/ /\ Scheduled(p)
       /\ proc[p] = from
       /\ parent[p] = None
       /\ Exit(p)

(* The reexec command loads the container and reports before it pivots.    *)
SendPrePivot(p) ==
    \/ Loadable /\ SendInit(p, "PrePivot", "boot", "prePivot")
    \/ Scheduled(p) /\ proc[p] = "boot" /\ ~Loadable /\ Exit(p)

(* Mounts, devices, console, then pivot_root.                              *)
SetupPrePivot(p) ==
    /\ Step(p, "prePivot", "lookPath")
    /\ UNCHANGED <<initSock, execReady>>

(* exec.LookPath of the user's program inside the new root.                *)
LookPath(p) ==
    /\ Step(p, "lookPath", "createContainer")
    /\ UNCHANGED <<initSock, execReady>>

(* LookPath fails: report it on the init socketpair and exit.              *)
InvalidExecutable(p) ==
    /\ "lookPath" \in Faults
    /\ hasProcess
    /\ Scheduled(p)
    /\ proc[p] = "lookPath"
    /\ Terminate({p})
    /\ initSock' = IF parent[p] = None THEN initSock
                   ELSE [initSock EXCEPT ![p] = Append(@, "InvalidExecutable")]
    /\ UNCHANGED <<parent, execReady, frozen>>

(* The createContainer hooks.                                              *)
CreateContainerHooks(p) ==
    /\ Step(p, "createContainer", "sendReady")
    /\ UNCHANGED <<initSock, execReady>>

SendReady(p) == SendInit(p, "Ready", "sendReady", "accept")

Accept(p) ==
    /\ conn[p].used
    /\ Step(p, "accept", "recvStart")
    /\ UNCHANGED <<initSock, execReady>>

(* Reading the start message, or the end of a connection closed early.     *)
RecvStart(p) ==
    \/ /\ conn[p].start
       /\ Step(p, "recvStart", IF hasProcess THEN "postPivot" ELSE "startContainer")
       /\ UNCHANGED <<initSock, execReady>>
    \/ /\ Scheduled(p)
       /\ proc[p] = "recvStart"
       /\ ~conn[p].start
       /\ conn[p].cli = None
       /\ Exit(p)

(* Limits, user, capabilities, seccomp and the rest of the process setup.  *)
SetupPostPivot(p) ==
    /\ Step(p, "postPivot", "startContainer")
    /\ UNCHANGED <<initSock, execReady>>

(* The startContainer hooks; without a process there is no more to do.     *)
StartContainerHooks(p) ==
    \/ /\ hasProcess
       /\ Step(p, "startContainer", "sendExecReady")
       /\ UNCHANGED <<initSock, execReady>>
    \/ /\ ~hasProcess
       /\ Scheduled(p)
       /\ proc[p] = "startContainer"
       /\ Exit(p)

MutantSendExecReady(p) ==
    /\ Step(p, "sendExecReady", "exec")
    /\ UNCHANGED <<initSock, execReady>>

SendExecReady(p) ==
    \/ /\ Step(p, "sendExecReady", "exec")
       /\ conn[p].cli # None
       /\ execReady' = execReady \cup {conn[p].cli}
       /\ UNCHANGED initSock
    \/ /\ Scheduled(p)
       /\ proc[p] = "sendExecReady"
       /\ conn[p].cli = None
       /\ Exit(p)

ExecUserProcess(p) ==
    /\ Step(p, "exec", "user")
    /\ UNCHANGED <<initSock, execReady>>

(* A step of Reexec returns an error, where the instance admits it.        *)
ReexecFails(p) ==
    /\ Scheduled(p)
    /\ proc[p] \in Faults \ {"lookPath"}
    /\ Exit(p)

(* The user's program ends by itself.                                      *)
UserExit(p) ==
    /\ Scheduled(p)
    /\ proc[p] = "user"
    /\ Exit(p)

Reexec(p) ==
    \/ SendPrePivot(p)
    \/ SetupPrePivot(p)
    \/ LookPath(p)
    \/ CreateContainerHooks(p)
    \/ SendReady(p)
    \/ Accept(p)
    \/ RecvStart(p)
    \/ SetupPostPivot(p)
    \/ StartContainerHooks(p)
    \/ SendExecReady(p)
    \/ ExecUserProcess(p)

=============================================================================
