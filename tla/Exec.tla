-------------------------------- MODULE Exec --------------------------------
(***************************************************************************)
(* exec: run another program inside a container.  The command asks for the *)
(* container's state under the lock, gives the lock back, and then works   *)
(* with the recorded pid alone: it inspects /proc/<pid>/ns one namespace   *)
(* after the other, enters the pid and time namespaces for its children,   *)
(* forks the binary as "childexec", and waits.  In the child a C           *)
(* constructor (nssetup) joins the other namespaces by the same paths      *)
(* before Go starts; then ChildExec becomes the program.                   *)
(*                                                                         *)
(* Any command of Container may run meanwhile and the container's process  *)
(* may end at any step.  An exec invocation is a runtime that runs the     *)
(* state command (GetState) followed by the steps below.                   *)
(***************************************************************************)
EXTENDS Container

CONSTANTS
    Execs,              \* exec invocations that may overlap
    NamespaceChoices    \* sets of namespace types a container has of its own

(* The types of namespaces in the order in which exec goes through them:   *)
(* the mount namespace last, because the paths lead through /proc.         *)
MutantNamespaces ==
    <<"user", "pid", "mnt", "net", "ipc", "uts", "cgroup", "time">>

namespaces == <<"user", "pid", "net", "ipc", "uts", "cgroup", "time", "mnt">>

NSTypes == {namespaces[i] : i \in DOMAIN namespaces}

(* No process of the host gets a pid of the container's: exec is not told  *)
(* apart from one that inspects a stranger.                                *)
ASSUME ExecAssumption ==
    /\ NamespaceChoices \subseteq SUBSET NSTypes
    /\ "pidReuse" \notin Faults

VARIABLES
    own,    \* the types of which the container does not share the host's
    exec    \* per invocation, what it and its child do

execVars == <<own, exec>>
allVars == <<vars, execVars>>

-----------------------------------------------------------------------------
(* The parent's next step; "returned" is a parent that has left a running  *)
(* child behind.                                                           *)
ExecSteps == {"idle", "namespaces", "checkExecutable", "forkExec", "wait", "returned"}

ChildRunning == {"nssetup", "join", "childExec", "program"}
ChildSteps == ChildRunning \cup {"none", "zombie"}

(* pid: the container's process as GetState told it; n: the namespace the  *)
(* parent looks at; forChildren: the ones it entered for its children;     *)
(* parts: _ANOCIR_JOIN_NS; joined: the ones the child joined; root: it     *)
(* has the container's root open.                                          *)
ExecState ==
    [step : ExecSteps, pid : Pids \cup {None}, n : DOMAIN namespaces,
     forChildren : SUBSET NSTypes, parts : Seq(NSTypes), child : ChildSteps,
     joined : SUBSET NSTypes, root : BOOLEAN]

NoExec ==
    [step |-> "idle", pid |-> None, n |-> 1, forChildren |-> {}, parts |-> <<>>,
     child |-> "none", joined |-> {}, root |-> FALSE]

ExecTypeOK == own \subseteq NSTypes /\ exec \in [Execs -> ExecState]

ExecInit ==
    /\ Init
    /\ own \in NamespaceChoices
    /\ exec = [x \in Execs |-> NoExec]

Update(x, e) == exec' = [exec EXCEPT ![x] = e] /\ UNCHANGED <<own, vars>>

-----------------------------------------------------------------------------
(* The parent.                                                             *)

(* The state command got its answer, and not an error: the state it has is *)
(* the one on disk.                                                        *)
GotState(r) ==
    pc[r] = "return" /\ op[r] = "state" /\ r \in locked /\ stateFile = st[r]

(* GetState returns and releases the lock; a paused container is refused   *)
(* unless the caller said --ignore-paused.                                 *)
ExecGetState(x, r) ==
    /\ exec[x] = NoExec
    /\ GotState(r)
    /\ End(r)
    /\ \/ exec' = [exec EXCEPT ![x].step = "namespaces", ![x].pid = st[r].pid]
       \/ st[r].status = "paused" /\ UNCHANGED exec
    /\ UNCHANGED <<own, hasProcess>>

(* /proc/<pid> has the links of a live process.  Of a zombie's at most     *)
(* these two still resolve.                                                *)
MayResolve(p, type) ==
    \/ Alive(p)
    \/ p # None /\ proc[p] = "zombie" /\ type \in {"user", "pid"}

MutantAdvance(e) ==
    IF e.n > Len(namespaces) THEN [e EXCEPT !.step = "checkExecutable"]
                             ELSE [e EXCEPT !.n = @ + 1]

Advance(e) ==
    IF e.n = Len(namespaces) THEN [e EXCEPT !.step = "checkExecutable"]
                             ELSE [e EXCEPT !.n = @ + 1]

MutantEnter(e, type) ==
    IF type \notin own \/ type = "user" THEN e
    ELSE [e EXCEPT !.parts = Append(@, type)]

(* What is done with a namespace: nothing when it is the host's, setns for *)
(* the children to come (pid, time), or a part of the child's list.  The   *)
(* user namespace is not joined.                                           *)
Enter(e, type) ==
    CASE type \notin own \/ type = "user" -> e
      [] type \in own \cap {"pid", "time"} ->
            [e EXCEPT !.forChildren = @ \cup {type}]
      [] OTHER -> [e EXCEPT !.parts = Append(@, type)]

JoinNamespace(x) ==
    LET e == exec[x]
        type == namespaces[e.n]
    IN  /\ e.step = "namespaces"
        /\ \/ MayResolve(e.pid, type) /\ Update(x, Advance(Enter(e, type)))
           \/ ~Alive(e.pid) /\ Update(x, NoExec)

(* Stat of the program below /proc/<pid>/root.                             *)
CheckExecutable(x) ==
    /\ exec[x].step = "checkExecutable"
    /\ \/ Alive(exec[x].pid) /\ Update(x, [exec[x] EXCEPT !.step = "forkExec"])
       \/ Update(x, NoExec)

(* No process can be forked into a pid namespace whose first process has   *)
(* ended.  With --detach, or when the pid file cannot be written, nobody   *)
(* waits for the child.                                                    *)
ForkExec(x) ==
    LET e == exec[x]
    IN  /\ e.step = "forkExec"
        /\ \/ /\ "pid" \in e.forChildren => Alive(e.pid)
              /\ \E s \in {"wait", "returned"} :
                    Update(x, [e EXCEPT !.step = s, !.child = "nssetup"])
           \/ Update(x, NoExec)

Wait4(x) ==
    /\ exec[x].step = "wait"
    /\ exec[x].child = "zombie"
    /\ Update(x, NoExec)

-----------------------------------------------------------------------------
(* The child.                                                              *)

Ended(e) == IF e.step = "wait" THEN [e EXCEPT !.child = "zombie"] ELSE NoExec

(* nssetup opens the container's root first, and goes on without it if it  *)
(* cannot; with no namespace to join it does nothing.                      *)
OpenRoot(x) ==
    LET e == exec[x]
    IN  /\ e.child = "nssetup"
        /\ Update(x, IF e.parts = <<>> THEN [e EXCEPT !.child = "childExec"]
                     ELSE [e EXCEPT !.child = "join", !.root = Alive(e.pid)])

(* In the container's mount namespace /proc shows the container's pid      *)
(* namespace, where the number is another process's or nobody's.           *)
PathResolves(e) == Alive(e.pid) /\ ("mnt" \in e.joined => "pid" \notin own)

MutantJoin(x) ==
    LET e == exec[x]
    IN  /\ e.child = "join"
        /\ e.parts # <<>>
        /\ Update(x, [e EXCEPT !.parts = Tail(@),
                               !.joined = IF PathResolves(e) THEN @ \cup {Head(e.parts)}
                                                             ELSE @])

(* join_ns: open and setns; the child exits when either fails.             *)
Join(x) ==
    LET e == exec[x]
    IN  /\ e.child = "join"
        /\ e.parts # <<>>
        /\ \/ /\ PathResolves(e)
              /\ Update(x, [e EXCEPT !.parts = Tail(@), !.joined = @ \cup {Head(e.parts)}])
           \/ ~PathResolves(e) /\ Update(x, Ended(e))

(* fchdir to the open root and chroot, if it is open; the child exits when *)
(* one of them fails.                                                      *)
Chroot(x) ==
    /\ exec[x].child = "join"
    /\ exec[x].parts = <<>>
    /\ \/ Update(x, [exec[x] EXCEPT !.child = "childExec"])
       \/ exec[x].root /\ Update(x, Ended(exec[x]))

(* Process security, working directory, terminal, cgroup, execve; each may *)
(* fail.                                                                   *)
ChildExec(x) ==
    /\ exec[x].child = "childExec"
    /\ \/ Update(x, [exec[x] EXCEPT !.child = "program"])
       \/ Update(x, Ended(exec[x]))

ProgramExits(x) ==
    /\ exec[x].child = "program"
    /\ Update(x, Ended(exec[x]))

-----------------------------------------------------------------------------
(* The end of the first process of a pid namespace ends all the others.    *)
Zapped(e) ==
    /\ e.child \in ChildRunning
    /\ "pid" \in e.forChildren
    /\ Alive(e.pid)
    /\ proc'[e.pid] \notin Live

(* A step of Container.  The kernel does not give the pid an exec holds to *)
(* a new process while the exec runs.                                      *)
ContainerStep ==
    /\ Next
    /\ \A x \in Execs : exec[x].pid # None /\ proc[exec[x].pid] = "free" =>
                            proc'[exec[x].pid] = "free"
    /\ exec' = [x \in Execs |-> IF Zapped(exec[x]) THEN Ended(exec[x]) ELSE exec[x]]
    /\ UNCHANGED own

ExecStep(x) ==
    \/ JoinNamespace(x) \/ CheckExecutable(x) \/ ForkExec(x) \/ Wait4(x)
    \/ OpenRoot(x) \/ Join(x) \/ Chroot(x) \/ ChildExec(x) \/ ProgramExits(x)

ExecNext ==
    \/ ContainerStep
    \/ \E x \in Execs : ExecStep(x) \/ \E r \in Runtimes : ExecGetState(x, r)

ExecSpec == ExecInit /\ [][ExecNext]_allVars

-----------------------------------------------------------------------------
(* Properties.                                                             *)

(* "Exec configures the execution of a command ... in an existing          *)
(* container": whenever the program runs, it is in every namespace of the  *)
(* container's but the user namespace, and has its root, whatever happened *)
(* to the container between two of exec's steps.                           *)
ExecConfined ==
    \A x \in Execs :
        exec[x].child = "program" =>
            /\ exec[x].forChildren \cup exec[x].joined = own \ {"user"}
            /\ "mnt" \in own => exec[x].root

(* "Namespaces need to be applied in a specific order": as long as the     *)
(* container's process lives, neither the parent nor the child fails to    *)
(* find a namespace.                                                       *)
FailedToJoin(x) ==
    \/ exec[x].step = "namespaces" /\ exec'[x].step = "idle"
    \/ exec[x].child = "join" /\ exec[x].parts # <<>> /\ exec'[x].child \notin ChildRunning

JoinsWhileAlive ==
    [][\A x \in Execs : FailedToJoin(x) => ~\E p \in Pids : exec[x].pid = p /\ Alive(p)']_exec

(* Delete "removes the container from the system": when its poststop hooks *)
(* run, no program that exec started in the container's pid namespace is   *)
(* left, though exec never puts one in the container's cgroup.             *)
ExecEndsWithContainer ==
    \A r \in Runtimes : pc[r] = "poststop" /\ "pid" \in own =>
        \A x \in Execs : exec[x].child \notin ChildRunning

=============================================================================
