----------------------------- MODULE Container ------------------------------
(***************************************************************************)
(* The commands of the runtime on one container: create, start, state,     *)
(* kill, delete, pause and resume, each run by its own invocation of the   *)
(* binary.  A command is a sequence of steps; between two steps any other  *)
(* invocation, the container's process or the kernel may act.  A step is   *)
(* one access to what they share (the state directory, a socket, a         *)
(* process, the cgroup) together with the local work around it.            *)
(*                                                                         *)
(* pc "idle" is an invocation that has not started or has ended.  Every    *)
(* return statement, with or without an error, leads to "return", where    *)
(* the deferred calls release the lock and the process exits.              *)
(***************************************************************************)
EXTENDS InitProcess

CONSTANT
    SerialDelete    \* the caller never overlaps delete with another command

ASSUME ContainerAssumption == SerialDelete \in BOOLEAN

VARIABLES
    pc,     \* per runtime, its next step
    op,     \* per runtime, the command it runs
    st,     \* per runtime, its Container.State
    todo    \* per runtime, names os.RemoveAll has listed and not unlinked

cmdVars == <<pc, op, st, todo>>
vars == <<dirVars, lockVars, procVars, cmdVars, hasProcess>>

Ops == {"none", "create", "start", "state", "kill", "delete", "pause", "resume"}

Labels ==
    {"idle", "load", "open", "flock", "reload", "save", "return"}
    \cup {"exists", "mkdir", "new", "fork", "createCgroup", "recvPrePivot",
          "createRuntime", "recvReady"}
    \cup {"prestart", "dial", "sendStart", "recvExecReady", "poststart"}
    \cup {"isProcessDead", "kill", "freeze", "thaw"}
    \cup {"deleteCgroup", "readdir", "unlink", "rmdir", "rmsock", "poststop"}

ContainerTypeOK ==
    /\ pc \in [Runtimes -> Labels]
    /\ op \in [Runtimes -> Ops]
    /\ st \in [Runtimes -> State]
    /\ todo \in [Runtimes -> SUBSET Entries]

Init ==
    /\ StateDirInit
    /\ InitProcessInit
    /\ hasProcess \in Bundles
    /\ pc = [r \in Runtimes |-> "idle"]
    /\ op = [r \in Runtimes |-> "none"]
    /\ st = [r \in Runtimes |-> NoState]
    /\ todo = [r \in Runtimes |-> {}]

-----------------------------------------------------------------------------
(* The guards on the status.                                               *)

MutantCanBeStarted(s) == s.status \in {"created", "running"}

canBeStarted(s) == s.status = "created"
canBeDeleted(s) == s.status = "stopped"
canBeKilled(s) == s.status \in {"running", "created"}

MutantCanBePaused(s) == s.status \in {"running", "stopped"}

canBePaused(s) == s.status = "running"
canBeResumed(s) == s.status = "paused"

MutantIsProcessDead(s) == s.pid # None

(* kill(pid, 0) answers ESRCH; a zombie, and a foreign process that got    *)
(* the pid, do not.                                                        *)
isProcessDead(s) == s.pid # None /\ proc[s.pid] = "free"

-----------------------------------------------------------------------------
(* Control flow of a runtime.                                              *)

Goto(r, label) == pc' = [pc EXCEPT ![r] = label]

(* A step that touches nothing the runtimes share.                         *)
Local(r, from, to) ==
    /\ pc[r] = from
    /\ Goto(r, to)
    /\ UNCHANGED <<op, todo, dirVars, lockVars, procVars>>

(* Whether delete runs while another command does is up to the caller.     *)
CallerAllows(o) ==
    SerialDelete =>
        \A s \in Runtimes : pc[s] # "idle" => o # "delete" /\ op[s] # "delete"

(* An invocation of the binary.                                            *)
Begin(r, o) ==
    /\ pc[r] = "idle"
    /\ o # "none"
    /\ CallerAllows(o)
    /\ op' = [op EXCEPT ![r] = o]
    /\ Goto(r, IF o = "create" THEN "exists" ELSE "load")
    /\ UNCHANGED <<st, todo, dirVars, lockVars, procVars>>

(* The command ends: the process is gone and with it its lock, its         *)
(* connections and its memory.                                             *)
End(r) ==
    /\ Goto(r, "idle")
    /\ op' = [op EXCEPT ![r] = "none"]
    /\ st' = [st EXCEPT ![r] = NoState]
    /\ todo' = [todo EXCEPT ![r] = {}]
    /\ Unlock(r)
    /\ CloseConnections(r)
    /\ UNCHANGED <<dirVars, proc, initSock, sock, cgroup, frozen>>

Return(r) == pc[r] = "return" /\ End(r)

(* The runtime is killed between two steps.                                *)
Crash(r) ==
    /\ "crash" \in Faults
    /\ pc[r] \notin {"idle", "return"}
    /\ End(r)

-----------------------------------------------------------------------------
(* Load, Lock and reloadState, the opening of every command but create;    *)
(* create has a new State and locks without loading one.                   *)

Load(r) ==
    /\ pc[r] = "load"
    /\ st' = [st EXCEPT ![r] = stateFile]
    /\ Goto(r, IF Loadable THEN "open" ELSE "return")
    /\ UNCHANGED <<op, todo, dirVars, lockVars, procVars>>

Open(r) ==
    /\ pc[r] = "open"
    /\ \/ OpenLockFile(r) /\ Goto(r, "flock")
       \/ ~dir /\ Goto(r, "return") /\ UNCHANGED <<dirVars, lockVars>>
    /\ UNCHANGED <<op, st, todo, procVars>>

Lock(r) ==
    /\ pc[r] = "flock"
    /\ \/ Flock(r) /\ Goto(r, IF op[r] = "create" THEN "save" ELSE "reload")
       \/ WouldBlock(r) /\ Goto(r, "return") /\ UNCHANGED <<dirVars, lockVars>>
    /\ UNCHANGED <<op, st, todo, procVars>>

(* The first step of each command once its State is fresh.                 *)
AfterReload(o) ==
    CASE o = "start" -> "prestart"
      [] o \in {"state", "delete"} -> "isProcessDead"
      [] o = "kill" -> "kill"
      [] o = "pause" -> "freeze"
      [] o = "resume" -> "thaw"
      [] OTHER -> "return"

MutantReload(r) == Local(r, "reload", AfterReload(op[r])) /\ UNCHANGED st

Reload(r) ==
    /\ \/ /\ Loadable
          /\ st' = [st EXCEPT ![r] = Unmarshalled(@)]
          /\ Local(r, "reload", AfterReload(op[r]))
       \/ ~Loadable /\ Local(r, "reload", "return") /\ UNCHANGED st

(* Where a command goes on after it saved its State.                       *)
AfterSave(r) ==
    CASE op[r] = "create" /\ st[r].status = "creating" -> "fork"
      [] op[r] = "start" /\ st[r].status = "running" -> "poststart"
      [] op[r] = "delete" -> "deleteCgroup"
      [] OTHER -> "return"

(* A failing save ends the command, except in delete, which ignores it.    *)
AfterFailedSave(r) == IF op[r] = "delete" THEN "deleteCgroup" ELSE "return"

Save(r) ==
    /\ pc[r] = "save"
    /\ \/ WriteState(st[r]) /\ Goto(r, AfterSave(r))
       \/ /\ ~dir \/ "save" \in Faults
          /\ Goto(r, AfterFailedSave(r))
          /\ UNCHANGED dirVars
    /\ UNCHANGED <<op, st, todo, lockVars, procVars>>

-----------------------------------------------------------------------------
(* create: the command in oci/create.go, then Init.                        *)

CreateExists(r) ==
    Local(r, "exists", IF Exists THEN "return" ELSE "mkdir") /\ UNCHANGED st

CreateContainerDirs(r) ==
    /\ pc[r] = "mkdir"
    /\ \/ Mkdir /\ Goto(r, "new")
       \/ dir /\ Goto(r, "return") /\ UNCHANGED dirVars
    /\ UNCHANGED <<op, st, todo, lockVars, procVars>>

(* New refuses a bundle without Linux configuration, the directory already *)
(* made.                                                                   *)
New(r) ==
    \/ /\ st' = [st EXCEPT ![r] = [status |-> "creating", pid |-> None]]
       /\ Local(r, "new", "open")
    \/ "new" \in Faults /\ Local(r, "new", "return") /\ UNCHANGED st

MutantForkKeepsSocket(r) ==
    /\ pc[r] = "fork"
    /\ \E p \in Pids :
          /\ proc[p] = "free"
          /\ proc' = [proc EXCEPT ![p] = "boot"]
          /\ parent' = [parent EXCEPT ![p] = r]
          /\ initSock' = [initSock EXCEPT ![p] = <<>>]
          /\ sock' = IF sock = None THEN p ELSE sock
          /\ st' = [st EXCEPT ![r].pid = p]
    /\ Goto(r, "createCgroup")
    /\ UNCHANGED <<op, todo, conn, peer, execReady, cgroup, frozen, dirVars, lockVars>>

MutantForkKeepsMessages(r) ==
    /\ pc[r] = "fork"
    /\ \E p \in Pids :
          /\ proc[p] = "free"
          /\ proc' = [proc EXCEPT ![p] = "boot"]
          /\ parent' = [parent EXCEPT ![p] = r]
          /\ sock' = p
          /\ st' = [st EXCEPT ![r].pid = p]
    /\ Goto(r, "createCgroup")
    /\ UNCHANGED <<op, todo, initSock, conn, peer, execReady, cgroup, frozen,
                   dirVars, lockVars>>

(* Init from the terminal's socket to cmd.Start: replace the socket        *)
(* directory, listen, fork the binary as "reexec" with a new socketpair.   *)
Fork(r) ==
    /\ pc[r] = "fork"
    /\ \E p \in Pids :
          /\ proc[p] = "free"
          /\ proc' = [proc EXCEPT ![p] = "boot"]
          /\ parent' = [parent EXCEPT ![p] = r]
          /\ initSock' = [initSock EXCEPT ![p] = <<>>]
          /\ sock' = p
          /\ st' = [st EXCEPT ![r].pid = p]
    /\ Goto(r, "createCgroup")
    /\ UNCHANGED <<op, todo, conn, peer, execReady, cgroup, frozen, dirVars, lockVars>>

(* Console, listener, namespaces or fork fail, before or after the socket  *)
(* directory is replaced.                                                  *)
ForkFails(r) ==
    /\ pc[r] = "fork"
    /\ "fork" \in Faults \/ \A p \in Pids : proc[p] # "free"
    /\ sock' \in {sock, None}
    /\ Goto(r, "return")
    /\ UNCHANGED <<op, st, todo, dirVars, lockVars, proc, parent, initSock, conn,
                   peer, execReady, cgroup, frozen>>

(* A cgroup that had no process is a new one, and not frozen.              *)
JoinCgroup(p) ==
    /\ Alive(p)
    /\ cgroup' = cgroup \cup {p}
    /\ frozen' = (frozen /\ cgroup # {})

(* A process that already exited cannot join.  The scope is made and the   *)
(* process put in it before the remaining resources are written, so a      *)
(* failure may come after the process has joined.                          *)
CreateCgroup(r) ==
    /\ pc[r] = "createCgroup"
    /\ \/ JoinCgroup(st[r].pid) /\ Goto(r, "recvPrePivot")
       \/ /\ "createCgroup" \in Faults
          /\ JoinCgroup(st[r].pid)
          /\ Goto(r, "return")
       \/ /\ ~Alive(st[r].pid) \/ "createCgroup" \in Faults
          /\ Goto(r, "return")
          /\ UNCHANGED <<cgroup, frozen>>
    /\ UNCHANGED <<op, st, todo, dirVars, lockVars, proc, parent, initSock, conn,
                   sock, peer, execReady>>

(* Reading the init socketpair.  There is no end of file to read: create   *)
(* keeps the child's end open until it returns.                            *)
RecvInit(r, from, wanted, to) ==
    /\ pc[r] = from
    /\ initSock[st[r].pid] # <<>>
    /\ Goto(r, IF Head(initSock[st[r].pid]) = wanted THEN to ELSE "return")
    /\ initSock' = [initSock EXCEPT ![st[r].pid] = Tail(@)]
    /\ UNCHANGED <<op, todo, dirVars, lockVars, proc, parent, conn, sock, peer,
                   execReady, cgroup, frozen>>

RecvPrePivot(r) ==
    RecvInit(r, "recvPrePivot", "PrePivot", "createRuntime") /\ UNCHANGED st

(* The createRuntime hooks.                                                *)
CreateRuntimeHooks(r) ==
    /\ \/ Local(r, "createRuntime", "recvReady")
       \/ "createRuntime" \in Faults /\ Local(r, "createRuntime", "return")
    /\ UNCHANGED st

MutantRecvReady(r) ==
    /\ Local(r, "recvReady", "save")
    /\ st' = [st EXCEPT ![r].status = "created"]

RecvReady(r) ==
    /\ RecvInit(r, "recvReady", "Ready", "save")
    /\ st' = IF Head(initSock[st[r].pid]) = "Ready"
             THEN [st EXCEPT ![r].status = "created"] ELSE st

Create(r) ==
    \/ CreateExists(r) \/ CreateContainerDirs(r) \/ New(r)
    \/ Fork(r) \/ ForkFails(r) \/ CreateCgroup(r)
    \/ RecvPrePivot(r) \/ CreateRuntimeHooks(r) \/ RecvReady(r)

-----------------------------------------------------------------------------
(* Start.                                                                  *)

(* The guard, then the prestart hooks.                                     *)
PrestartHooks(r) ==
    /\ \/ canBeStarted(st[r]) /\ Local(r, "prestart", "dial")
       \/ /\ ~canBeStarted(st[r]) \/ "prestart" \in Faults
          /\ Local(r, "prestart", "return")
    /\ UNCHANGED st

(* connect(2) succeeds once it is queued; it is refused when no process    *)
(* listens.                                                                *)
Dial(r) ==
    /\ pc[r] = "dial"
    /\ \/ /\ sock # None
          /\ peer' = [peer EXCEPT ![r] = sock]
          /\ conn' = IF conn[sock].used THEN conn
                     ELSE [conn EXCEPT ![sock] =
                              [used |-> TRUE, cli |-> r, start |-> FALSE]]
          /\ Goto(r, "sendStart")
       \/ sock = None /\ Goto(r, "return") /\ UNCHANGED <<peer, conn>>
    /\ UNCHANGED <<op, st, todo, dirVars, lockVars, proc, parent, initSock, sock,
                   execReady, cgroup, frozen>>

(* Without a process there is nothing to wait for.                         *)
SendStart(r) ==
    /\ pc[r] = "sendStart"
    /\ \/ /\ peer[r] # None
          /\ conn' = IF conn[peer[r]].cli = r
                     THEN [conn EXCEPT ![peer[r]].start = TRUE] ELSE conn
          /\ Goto(r, IF hasProcess THEN "recvExecReady" ELSE "save")
          /\ st' = IF hasProcess THEN st ELSE [st EXCEPT ![r].status = "stopped"]
       \/ peer[r] = None /\ Goto(r, "return") /\ UNCHANGED <<conn, st>>
    /\ UNCHANGED <<op, todo, dirVars, lockVars, proc, parent, initSock, sock, peer,
                   execReady, cgroup, frozen>>

MutantRecvExecReady(r) ==
    /\ Local(r, "recvExecReady", "save")
    /\ st' = [st EXCEPT ![r].status = "running"]

(* Wait for ExecReady, or the end of the connection.                       *)
RecvExecReady(r) ==
    /\ pc[r] = "recvExecReady"
    /\ \/ /\ r \in execReady
          /\ execReady' = execReady \ {r}
          /\ st' = [st EXCEPT ![r].status = "running"]
          /\ Goto(r, "save")
       \/ /\ r \notin execReady
          /\ peer[r] = None
          /\ Goto(r, "return")
          /\ UNCHANGED <<execReady, st>>
    /\ UNCHANGED <<op, todo, dirVars, lockVars, proc, parent, initSock, conn, sock,
                   peer, cgroup, frozen>>

(* The poststart hooks; their failure only changes what is reported.       *)
PoststartHooks(r) == Local(r, "poststart", "return") /\ UNCHANGED st

Start(r) ==
    \/ PrestartHooks(r) \/ Dial(r) \/ SendStart(r)
    \/ RecvExecReady(r) \/ PoststartHooks(r)

-----------------------------------------------------------------------------
(* GetState, and the same check at the top of Delete.                      *)

CheckProcess(r) ==
    \/ /\ isProcessDead(st[r])
       /\ Local(r, "isProcessDead", "save")
       /\ st' = [st EXCEPT ![r].status = "stopped"]
    \/ /\ ~isProcessDead(st[r])
       /\ Local(r, "isProcessDead",
                IF op[r] = "delete" THEN "deleteCgroup" ELSE "return")
       /\ UNCHANGED st

-----------------------------------------------------------------------------
(* Kill.  A signal may or may not end the processes it is sent to.         *)

Signal(S) ==
    /\ \/ Terminate(S)
       \/ UNCHANGED <<proc, conn, peer, sock, cgroup>>
    /\ UNCHANGED <<parent, initSock, execReady, frozen>>

Kill(r) ==
    /\ pc[r] = "kill"
    /\ \/ canBeKilled(st[r]) /\ Signal({st[r].pid})
       \/ Signal(cgroup)                            \* --all
       \/ ~canBeKilled(st[r]) /\ UNCHANGED procVars
    /\ Goto(r, "return")
    /\ UNCHANGED <<op, st, todo, dirVars, lockVars>>

-----------------------------------------------------------------------------
(* Delete.                                                                 *)

(* Whatever the status, --force passes the guard.                          *)
DeleteRefused(r) ==
    /\ ~canBeDeleted(st[r])
    /\ Local(r, "deleteCgroup", "return")
    /\ UNCHANGED st

MutantDeleteCgroup(r) ==
    /\ pc[r] = "deleteCgroup"
    /\ frozen' = FALSE
    /\ cgroup' = {}
    /\ Goto(r, "readdir")
    /\ UNCHANGED <<op, st, todo, dirVars, lockVars, proc, conn, peer, sock, parent,
                   initSock, execReady>>

(* Freeze, kill and remove the cgroup.  A failure is only a warning; one   *)
(* that comes before the kill may leave the cgroup frozen, one after it    *)
(* leaves no process and so nothing the model keeps.                       *)
DeleteCgroup(r) ==
    /\ pc[r] = "deleteCgroup"
    /\ \/ /\ Terminate(cgroup)
          /\ frozen' = FALSE
       \/ /\ "deleteCgroup" \in Faults
          /\ frozen' \in {frozen, TRUE}
          /\ UNCHANGED <<proc, conn, peer, sock, cgroup>>
    /\ Goto(r, "readdir")
    /\ UNCHANGED <<op, st, todo, dirVars, lockVars, parent, initSock, execReady>>

(* os.RemoveAll of the container directory, lock file included.            *)
RemoveAllList(r) ==
    /\ pc[r] = "readdir"
    /\ todo' = [todo EXCEPT ![r] = Listing]
    /\ Goto(r, "unlink")
    /\ UNCHANGED <<op, st, dirVars, lockVars, procVars>>

RemoveAllUnlink(r) ==
    /\ pc[r] = "unlink"
    /\ \/ \E e \in todo[r] :
             /\ Unlink(e)
             /\ todo' = [todo EXCEPT ![r] = @ \ {e}]
             /\ UNCHANGED pc
       \/ todo[r] = {} /\ Goto(r, "rmdir") /\ UNCHANGED <<todo, dirVars>>
    /\ UNCHANGED <<op, st, lockVars, procVars>>

MutantRmdir(r) == Local(r, "rmdir", "rmsock") /\ UNCHANGED st

RemoveAllRmdir(r) ==
    /\ pc[r] = "rmdir"
    /\ \/ Rmdir /\ Goto(r, "rmsock")
       \/ Listing # {} /\ Goto(r, "return") /\ UNCHANGED dirVars
    /\ UNCHANGED <<op, st, todo, lockVars, procVars>>

(* os.RemoveAll of the directory of the container socket.                  *)
RemoveSocket(r) ==
    /\ pc[r] = "rmsock"
    /\ sock' = None
    /\ Goto(r, "poststop")
    /\ UNCHANGED <<op, st, todo, dirVars, lockVars, proc, parent, initSock, conn,
                   peer, execReady, cgroup, frozen>>

(* The poststop hooks; their failure is only a warning.                    *)
PoststopHooks(r) == Local(r, "poststop", "return") /\ UNCHANGED st

Delete(r) ==
    \/ DeleteRefused(r) \/ DeleteCgroup(r)
    \/ RemoveAllList(r) \/ RemoveAllUnlink(r) \/ RemoveAllRmdir(r)
    \/ RemoveSocket(r) \/ PoststopHooks(r)

-----------------------------------------------------------------------------
(* Pause and Resume.  The cgroup is gone when its processes are, and then  *)
(* neither can be sure to reach it.                                        *)

SetFrozen(r, from, guard, value, status) ==
    /\ pc[r] = from
    /\ \/ /\ guard
          /\ frozen' = value
          /\ st' = [st EXCEPT ![r].status = status]
          /\ Goto(r, "save")
       \/ /\ ~guard \/ cgroup = {}
          /\ Goto(r, "return")
          /\ UNCHANGED <<frozen, st>>
    /\ UNCHANGED <<op, todo, dirVars, lockVars, proc, parent, initSock, conn, sock,
                   peer, execReady, cgroup>>

Pause(r) == SetFrozen(r, "freeze", canBePaused(st[r]), TRUE, "paused")

MutantResume(r) ==
    /\ SetFrozen(r, "thaw", canBeResumed(st[r]), frozen, "running")

Resume(r) == SetFrozen(r, "thaw", canBeResumed(st[r]), FALSE, "running")

-----------------------------------------------------------------------------
(* One step of a runtime that is not its invocation or its death.          *)
Run(r) ==
    \/ Load(r) \/ Open(r) \/ Lock(r) \/ Reload(r) \/ Save(r) \/ Return(r)
    \/ Create(r) \/ Start(r) \/ CheckProcess(r) \/ Kill(r) \/ Delete(r)
    \/ Pause(r) \/ Resume(r)

(* One step of the container's process or of the kernel.                   *)
Environment(p) ==
    /\ \/ Reexec(p) \/ InvalidExecutable(p) \/ ReexecFails(p) \/ UserExit(p)
       \/ Reap(p) \/ Foreign(p)
    /\ UNCHANGED <<dirVars, lockVars, cmdVars>>

Next ==
    /\ \/ \E r \in Runtimes : Run(r) \/ Crash(r) \/ \E o \in Ops : Begin(r, o)
       \/ \E p \in Pids : Environment(p)
    /\ UNCHANGED hasProcess

Spec == Init /\ [][Next]_vars

(* A runtime that can take a step takes it, and so does the container's    *)
(* process; init waits for its orphans.  Nobody is obliged to invoke a     *)
(* command, and nothing obliges a failure, a crash or the user's program   *)
(* to end.                                                                 *)
Fairness ==
    /\ \A r \in Runtimes : WF_vars(Run(r) /\ UNCHANGED hasProcess)
    /\ \A p \in Pids :
          /\ WF_vars(Reexec(p) /\ UNCHANGED <<dirVars, lockVars, cmdVars, hasProcess>>)
          /\ WF_vars(Reap(p) /\ UNCHANGED <<dirVars, lockVars, cmdVars, hasProcess>>)

FairSpec == Spec /\ Fairness

-----------------------------------------------------------------------------
(* Properties.                                                             *)

TypeOK ==
    /\ StateDirTypeOK /\ InitProcessTypeOK /\ ContainerTypeOK
    /\ hasProcess \in Bundles

AllIdle == \A r \in Runtimes : pc[r] = "idle"

(* Lock: "acquires an exclusive lock on the container".  No two commands   *)
(* hold it at the same time.                                               *)
ExclusiveLock == \A r, s \in locked : r = s

(* Init saves "created" only after MsgReady: the recorded process has      *)
(* pivoted and run its hooks, or has died since.                           *)
CreatedIsReady ==
    stateFile.status = "created" => proc[stateFile.pid] \notin SettingUp

(* Start saves "running" only after MsgExecReady, "fully initialized       *)
(* (seccomp loaded, capabilities set, etc.)": the recorded process is past *)
(* everything Reexec does, or has died since.                              *)
RunningIsInitialised ==
    stateFile.status \in {"running", "paused"} =>
        proc[stateFile.pid] \notin SettingUp \cup Waiting \cup Starting

(* GetState and Delete record "stopped" when "the container process is no  *)
(* longer running": a stopped container has no live process.               *)
StoppedIsDead ==
    stateFile.status = "stopped" /\ hasProcess => ~Alive(stateFile.pid)

(* The process that answers a start on the container socket is the one the *)
(* container's state names, also when an earlier container left its own    *)
(* process and socket behind.                                              *)
StartReachesInit == \A r \in Runtimes : peer[r] # None => peer[r] = st[r].pid

(* Start "sends the start message to the runtime process": the process it  *)
(* connected to is still the runtime's, not the user's program.            *)
StartTalksToRuntime ==
    \A r \in Runtimes :
        pc[r] = "sendStart" /\ peer[r] # None => proc[peer[r]] # "user"

(* Delete "removes the container from the system": when its poststop hooks *)
(* run, no process of the container is alive.                              *)
PoststopAfterDeath ==
    \A r \in Runtimes : pc[r] = "poststop" => \A p \in Pids : ~Alive(p)

(* Between commands a container is frozen exactly when its status says     *)
(* paused.                                                                 *)
FrozenIffPaused ==
    AllIdle /\ cgroup # {} => (frozen <=> stateFile.status = "paused")

(* Exists and Load agree between commands: an id that create refuses       *)
(* because "container exists" can be loaded, and so deleted.               *)
ExistsMeansLoadable == AllIdle /\ Exists => Loadable

(* The recorded status moves along the life cycle, in step with the        *)
(* recorded process.                                                       *)
RecordedPhase ==
    IF ~Alive(stateFile.pid) THEN "gone"
    ELSE CASE proc[stateFile.pid] \in SettingUp -> "setup"
           [] proc[stateFile.pid] \in Waiting \cup Starting -> "ready"
           [] OTHER -> "started"

L == INSTANCE Lifecycle WITH status <- stateFile.status, phase <- RecordedPhase

LifecycleSpec == L!Spec

(* Every command returns: it gets its answer, an error or                  *)
(* ErrOperationInProgress, and never waits for ever with the lock held.    *)
CommandsReturn == \A r \in Runtimes : pc[r] # "idle" ~> pc[r] = "idle"

=============================================================================
