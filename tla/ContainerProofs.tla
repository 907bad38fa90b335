--------------------------- MODULE ContainerProofs --------------------------
(***************************************************************************)
(* Theorems about Container, for any number of runtimes, pids and inodes   *)
(* and any set of failures.                                                *)
(***************************************************************************)
EXTENDS Container, TLAPS

(* Every message on the init socketpair belongs to a step of Reexec that   *)
(* the process has passed: none in "boot", one until it has sent Ready.    *)
SentSoFar ==
    \A p \in Pids :
        /\ proc[p] = "boot" => initSock[p] = <<>>
        /\ proc[p] \in SettingUp => Len(initSock[p]) =< 1

(* The types of what the steps change; hasProcess never does.              *)
Types == StateDirTypeOK /\ InitProcessTypeOK /\ ContainerTypeOK

(* The type invariant with what makes its bound on messages inductive.     *)
TypeInv == Types /\ SentSoFar

-----------------------------------------------------------------------------
(* Type correctness.                                                       *)

USE DEF dirVars, lockVars, procVars, cmdVars

(* The initial state has the right types.                                  *)
LEMMA TypeInit == Init => TypeInv
<1> SUFFICES ASSUME Init PROVE TypeInv
  OBVIOUS
<1>1. StateDirTypeOK
  BY DEF Init, StateDirInit, StateDirTypeOK, State, NoState, Status
<1>2. InitProcessTypeOK
  <2>1. \A p \in Pids : initSock[p] = <<>> /\ conn[p] = NoConn
    BY DEF Init, InitProcessInit
  <2>2. initSock \in [Pids -> Seq(InitMsgs)]
    BY DEF Init, InitProcessInit
  <2>3. conn \in [Pids -> Conn]
    BY DEF Init, InitProcessInit, Conn, NoConn
  <2>4. \A p \in Pids : Len(initSock[p]) =< 2
    BY <2>1
  <2> QED
    BY <2>2, <2>3, <2>4 DEF Init, InitProcessInit, InitProcessTypeOK, Phases
<1>3. ContainerTypeOK
  BY DEF Init, ContainerTypeOK, State, NoState, Status, Labels, Ops
<1>4. SentSoFar
  BY DEF Init, InitProcessInit, SentSoFar, SettingUp
<1> QED
  BY <1>1, <1>2, <1>3, <1>4 DEF TypeInv, Types

(* No state, and the state New makes, are States.                          *)
LEMMA NewStates ==
  NoState \in State /\ [status |-> "creating", pid |-> None] \in State
  BY DEF NoState, State, Status

(* Reading the state file into a State gives a State.                      *)
LEMMA UnmarshalledType ==
  ASSUME stateFile \in State, NEW s \in State
  PROVE  Unmarshalled(s) \in State
  BY DEF Unmarshalled, State

(* The steps that follow a reload or a save are steps.                     *)
LEMMA NextLabels ==
  /\ \A o : AfterReload(o) \in Labels
  /\ \A r : AfterSave(r) \in Labels /\ AfterFailedSave(r) \in Labels
<1>1. \A o : AfterReload(o) \in Labels
  BY DEF AfterReload, Labels
<1>2. \A r : AfterSave(r) \in Labels
  BY DEF AfterSave, Labels
<1>3. \A r : AfterFailedSave(r) \in Labels
  BY DEF AfterFailedSave, Labels
<1> QED
  BY <1>1, <1>2, <1>3

(* The end of processes keeps the types and sets nobody up.                *)
LEMMA TerminateType ==
  ASSUME TypeInv, NEW S, Terminate(S),
         UNCHANGED <<parent, execReady>>, frozen' \in BOOLEAN,
         initSock' \in [Pids -> Seq(InitMsgs)],
         \A p \in Pids : Len(initSock'[p]) =< 2,
         \A p \in Pids \ S : initSock'[p] = initSock[p],
         \A p \in S : p \in Pids => initSock'[p] = initSock[p] \/ Alive(p)
  PROVE  InitProcessTypeOK' /\ SentSoFar'
<1> USE DEF TypeInv, Types, InitProcessTypeOK
<1>1. proc' \in [Pids -> Phases]
  BY DEF Terminate, Phases
<1>2. conn' \in [Pids -> Conn]
  BY DEF Terminate, Conn, NoConn
<1>3. peer' \in [Runtimes -> Pids \cup {None}] /\ sock' \in Pids \cup {None}
      /\ cgroup' \in SUBSET Pids
  BY DEF Terminate
<1>4. \A p \in Pids : proc'[p] \in SettingUp => p \notin S \/ ~Alive(p)
  BY DEF Terminate, SettingUp
<1>5. \A p \in Pids : proc'[p] \in SettingUp => proc'[p] = proc[p]
  BY DEF Terminate, SettingUp
<1>6. SentSoFar'
  BY <1>4, <1>5 DEF SentSoFar, SettingUp
<1> QED
  BY <1>1, <1>2, <1>3, <1>6

(* A runtime that closes its connections keeps the types.                  *)
LEMMA CloseConnectionsType ==
  ASSUME TypeInv, NEW r \in Runtimes, CloseConnections(r),
         UNCHANGED <<proc, initSock, sock, cgroup, frozen>>
  PROVE  InitProcessTypeOK' /\ SentSoFar'
<1> USE DEF TypeInv, Types, InitProcessTypeOK
<1>1. conn' \in [Pids -> Conn]
  BY ZenonT(60) DEF CloseConnections, Conn
<1>2. SentSoFar'
  BY DEF SentSoFar
<1> QED
  BY <1>1, <1>2 DEF CloseConnections

(* The end of a command, by return or by crash, keeps the types.           *)
LEMMA EndType == ASSUME TypeInv, NEW r \in Runtimes, End(r) PROVE TypeInv'
<1>1. InitProcessTypeOK' /\ SentSoFar'
  BY CloseConnectionsType DEF End
<1>2. StateDirTypeOK'
  BY DEF End, Unlock, TypeInv, Types, StateDirTypeOK
<1>3. ContainerTypeOK'
  BY NewStates DEF End, Goto, TypeInv, Types, ContainerTypeOK, Labels, Ops
<1> QED
  BY <1>1, <1>2, <1>3 DEF TypeInv, Types

(* Reading a message keeps the socketpairs within their bounds.            *)
LEMMA ReadType ==
  ASSUME TypeInv, NEW x, initSock[x] # <<>>,
         initSock' = [initSock EXCEPT ![x] = Tail(@)], UNCHANGED proc
  PROVE  /\ initSock' \in [Pids -> Seq(InitMsgs)]
         /\ \A p \in Pids : Len(initSock'[p]) =< 2
         /\ SentSoFar'
<1> USE DEF TypeInv, Types, InitProcessTypeOK
<1>1. initSock \in [Pids -> Seq(InitMsgs)] /\ \A p \in Pids : Len(initSock[p]) =< 2
  OBVIOUS
<1>2. \A p \in Pids :
         /\ initSock'[p] \in Seq(InitMsgs)
         /\ Len(initSock'[p]) =< Len(initSock[p])
         /\ initSock[p] = <<>> => initSock'[p] = <<>>
  <2> TAKE p \in Pids
  <2> initSock[p] \in Seq(InitMsgs)
    BY <1>1
  <2>1. CASE p = x
    <3>1. initSock'[p] = Tail(initSock[p])
      BY <1>1, <2>1
    <3>2. Len(Tail(initSock[p])) = Len(initSock[p]) - 1
      BY <2>1
    <3> QED
      BY <2>1, <3>1, <3>2
  <2>2. CASE p # x
    BY <1>1, <2>2
  <2> QED
    BY <2>1, <2>2
<1>3. \A p \in Pids : Len(initSock[p]) \in Nat /\ Len(initSock'[p]) \in Nat
  BY <1>1, <1>2
<1>4. initSock' \in [Pids -> Seq(InitMsgs)]
  BY <1>1, <1>2
<1>5. \A p \in Pids : Len(initSock'[p]) =< 2
  BY <1>1, <1>2, <1>3
<1>6. SentSoFar'
  BY <1>2, <1>3 DEF SentSoFar
<1> QED
  BY <1>4, <1>5, <1>6

(* A command's State stays one, whatever step it takes.                    *)
LEMMA CommandState ==
  ASSUME TypeInv, NEW r \in Runtimes
  PROVE  /\ Fork(r) => st' \in [Runtimes -> State]
         /\ SendStart(r) => st' \in [Runtimes -> State]
         /\ RecvReady(r) => st' \in [Runtimes -> State]
         /\ RecvExecReady(r) => st' \in [Runtimes -> State]
         /\ CheckProcess(r) => st' \in [Runtimes -> State]
         /\ Pause(r) => st' \in [Runtimes -> State]
         /\ Resume(r) => st' \in [Runtimes -> State]
<1>1. st \in [Runtimes -> State]
  BY DEF TypeInv, Types, ContainerTypeOK
<1>2. \A p \in Pids : [st EXCEPT ![r].pid = p] \in [Runtimes -> State]
  BY <1>1 DEF State
<1>3. /\ [st EXCEPT ![r].status = "created"] \in [Runtimes -> State]
      /\ [st EXCEPT ![r].status = "running"] \in [Runtimes -> State]
      /\ [st EXCEPT ![r].status = "paused"] \in [Runtimes -> State]
      /\ [st EXCEPT ![r].status = "stopped"] \in [Runtimes -> State]
  BY <1>1 DEF State, Status
<1>4. Fork(r) => \E p \in Pids : st' = [st EXCEPT ![r].pid = p]
  BY DEF Fork
<1>5. SendStart(r) => st' = st \/ st' = [st EXCEPT ![r].status = "stopped"]
  BY DEF SendStart
<1>6. RecvReady(r) => st' = st \/ st' = [st EXCEPT ![r].status = "created"]
  BY DEF RecvReady
<1>7. RecvExecReady(r) => st' = st \/ st' = [st EXCEPT ![r].status = "running"]
  BY DEF RecvExecReady
<1>8. CheckProcess(r) => st' = st \/ st' = [st EXCEPT ![r].status = "stopped"]
  BY DEF CheckProcess
<1>9. Pause(r) => st' = st \/ st' = [st EXCEPT ![r].status = "paused"]
  BY DEF Pause, SetFrozen
<1>10. Resume(r) => st' = st \/ st' = [st EXCEPT ![r].status = "running"]
  BY DEF Resume, SetFrozen
<1> QED
  BY <1>1, <1>2, <1>3, <1>4, <1>5, <1>6, <1>7, <1>8, <1>9, <1>10

(* A connection stays one when a start makes it or sends on it.            *)
LEMMA CommandConn ==
  ASSUME TypeInv, NEW r \in Runtimes
  PROVE  Dial(r) \/ SendStart(r) => conn' \in [Pids -> Conn]
<1>1. conn \in [Pids -> Conn]
  BY DEF TypeInv, Types, InitProcessTypeOK
<1>2. [conn EXCEPT ![sock] = [used |-> TRUE, cli |-> r, start |-> FALSE]] \in [Pids -> Conn]
  BY <1>1 DEF Conn
<1>3. [conn EXCEPT ![peer[r]].start = TRUE] \in [Pids -> Conn]
  BY <1>1 DEF Conn
<1>4. Dial(r) => \/ conn' = conn
                 \/ conn' = [conn EXCEPT ![sock] =
                                [used |-> TRUE, cli |-> r, start |-> FALSE]]
  BY DEF Dial
<1>5. SendStart(r) => conn' = conn \/ conn' = [conn EXCEPT ![peer[r]].start = TRUE]
  BY DEF SendStart
<1> QED
  BY <1>1, <1>2, <1>3, <1>4, <1>5

(* Every step of a command keeps the types.                                *)
LEMMA TypeRun == ASSUME TypeInv, NEW r \in Runtimes, Run(r) PROVE TypeInv'
<1> USE DEF TypeInv, Types, StateDirTypeOK, InitProcessTypeOK, ContainerTypeOK, SentSoFar,
        Goto, Local
<1>1. CASE Load(r)
  BY <1>1 DEF Load, Labels
<1>2. CASE Open(r)
  BY <1>2, ZenonT(60) DEF Open, OpenLockFile, FreeInodes, Labels
<1>3. CASE Lock(r)
  BY <1>3 DEF Lock, Flock, Labels
<1>4. CASE Reload(r)
  <2>1. st' \in [Runtimes -> State]
    BY <1>4, UnmarshalledType DEF Reload
  <2> QED
    BY <1>4, <2>1, NextLabels DEF Reload, Labels
<1>5. CASE Save(r)
  BY <1>5, NextLabels DEF Save, WriteState
<1>6. CASE Return(r)
  BY <1>6, EndType DEF Return
<1>7. CASE Create(r)
  <2>1. CASE CreateExists(r)
    BY <2>1 DEF CreateExists, Labels
  <2>2. CASE CreateContainerDirs(r)
    BY <2>2 DEF CreateContainerDirs, Mkdir, Labels
  <2>3. CASE New(r)
    BY <2>3, NewStates, ZenonT(60) DEF New, Labels
  <2>4. CASE Fork(r)
    <3>1. st' \in [Runtimes -> State]
      BY <2>4, CommandState
    <3> QED
      BY <2>4, <3>1 DEF Fork, Labels, Phases, Live, SettingUp
  <2>5. CASE ForkFails(r)
    BY <2>5 DEF ForkFails, Labels
  <2>6. CASE CreateCgroup(r)
    BY <2>6 DEF CreateCgroup, JoinCgroup, Alive, Labels
  <2>7. CASE RecvPrePivot(r)
    <3>1. /\ initSock' \in [Pids -> Seq(InitMsgs)]
          /\ \A p \in Pids : Len(initSock'[p]) =< 2
          /\ SentSoFar'
      BY <2>7, ReadType DEF RecvPrePivot, RecvInit
    <3> QED
      BY <2>7, <3>1 DEF RecvPrePivot, RecvInit, Labels
  <2>8. CASE CreateRuntimeHooks(r)
    BY <2>8 DEF CreateRuntimeHooks, Labels
  <2>9. CASE RecvReady(r)
    <3>1. /\ initSock' \in [Pids -> Seq(InitMsgs)]
          /\ \A p \in Pids : Len(initSock'[p]) =< 2
          /\ SentSoFar'
      BY <2>9, ReadType DEF RecvReady, RecvInit
    <3>2. st' \in [Runtimes -> State]
      BY <2>9, CommandState
    <3> QED
      BY <2>9, <3>1, <3>2 DEF RecvReady, RecvInit, Labels
  <2> QED
    BY <1>7, <2>1, <2>2, <2>3, <2>4, <2>5, <2>6, <2>7, <2>8, <2>9 DEF Create
<1>8. CASE Start(r)
  <2>1. CASE PrestartHooks(r)
    BY <2>1 DEF PrestartHooks, Labels
  <2>2. CASE Dial(r)
    <3>1. conn' \in [Pids -> Conn]
      BY <2>2, CommandConn
    <3> QED
      BY <2>2, <3>1, ZenonT(60) DEF Dial, Labels
  <2>3. CASE SendStart(r)
    <3>1. conn' \in [Pids -> Conn]
      BY <2>3, CommandConn
    <3>2. st' \in [Runtimes -> State]
      BY <2>3, CommandState
    <3> QED
      BY <2>3, <3>1, <3>2 DEF SendStart, Labels
  <2>4. CASE RecvExecReady(r)
    <3>1. st' \in [Runtimes -> State]
      BY <2>4, CommandState
    <3> QED
      BY <2>4, <3>1 DEF RecvExecReady, Labels
  <2>5. CASE PoststartHooks(r)
    BY <2>5 DEF PoststartHooks, Labels
  <2> QED
    BY <1>8, <2>1, <2>2, <2>3, <2>4, <2>5 DEF Start
<1>9. CASE CheckProcess(r)
  <2>1. st' \in [Runtimes -> State]
    BY <1>9, CommandState
  <2> QED
    BY <1>9, <2>1 DEF CheckProcess, Labels
<1>10. CASE Kill(r)
  <2>1. CASE UNCHANGED procVars
    BY <1>10, <2>1 DEF Kill, Labels
  <2>2. ASSUME NEW S, Terminate(S), UNCHANGED <<parent, initSock, execReady, frozen>>
        PROVE TypeInv'
    BY <1>10, <2>2, TerminateType DEF Kill, Labels
  <2> QED
    BY <1>10, <2>1, <2>2 DEF Kill, Signal
<1>11. CASE Delete(r)
  <2>1. CASE DeleteRefused(r)
    BY <2>1 DEF DeleteRefused, Labels
  <2>2. CASE DeleteCgroup(r)
    <3>1. CASE Terminate(cgroup) /\ frozen' = FALSE
      BY <2>2, <3>1, TerminateType DEF DeleteCgroup, Labels
    <3>2. CASE frozen' \in {frozen, TRUE} /\ UNCHANGED <<proc, conn, peer, sock, cgroup>>
      BY <2>2, <3>2 DEF DeleteCgroup, Labels
    <3> QED
      BY <2>2, <3>1, <3>2 DEF DeleteCgroup
  <2>3. CASE RemoveAllList(r)
    BY <2>3 DEF RemoveAllList, Listing, Labels
  <2>4. CASE RemoveAllUnlink(r)
    BY <2>4, NewStates, ZenonT(60) DEF RemoveAllUnlink, Unlink, Labels
  <2>5. CASE RemoveAllRmdir(r)
    BY <2>5 DEF RemoveAllRmdir, Rmdir, Labels
  <2>6. CASE RemoveSocket(r)
    BY <2>6 DEF RemoveSocket, Labels
  <2>7. CASE PoststopHooks(r)
    BY <2>7 DEF PoststopHooks, Labels
  <2> QED
    BY <1>11, <2>1, <2>2, <2>3, <2>4, <2>5, <2>6, <2>7 DEF Delete
<1>12. CASE Pause(r)
  <2>1. st' \in [Runtimes -> State]
    BY <1>12, CommandState
  <2> QED
    BY <1>12, <2>1 DEF Pause, SetFrozen, Labels
<1>13. CASE Resume(r)
  <2>1. st' \in [Runtimes -> State]
    BY <1>13, CommandState
  <2> QED
    BY <1>13, <2>1 DEF Resume, SetFrozen, Labels
<1> QED
  BY <1>1, <1>2, <1>3, <1>4, <1>5, <1>6, <1>7, <1>8, <1>9, <1>10, <1>11, <1>12, <1>13
  DEF Run

(* An invocation of a command keeps the types.                             *)
LEMMA TypeBegin ==
  ASSUME TypeInv, NEW r \in Runtimes, NEW o \in Ops, Begin(r, o) PROVE TypeInv'
  BY DEF TypeInv, Types, StateDirTypeOK, InitProcessTypeOK, ContainerTypeOK, SentSoFar,
     Begin, Goto, Labels

(* The process table's part of the types, for steps that leave the state  *)
(* directory and the commands alone.                                       *)
LEMMA EnvironmentFrame ==
  ASSUME TypeInv, InitProcessTypeOK', SentSoFar', UNCHANGED <<dirVars, lockVars, cmdVars>>
  PROVE  TypeInv'
  BY DEF TypeInv, Types, StateDirTypeOK, ContainerTypeOK

(* A process that exits keeps the types.                                   *)
LEMMA ExitType ==
  ASSUME TypeInv, NEW p \in Pids, Exit(p) PROVE InitProcessTypeOK' /\ SentSoFar'
  BY TerminateType DEF Exit, TypeInv, Types, InitProcessTypeOK

(* A step of Reexec that sends nothing keeps the types.                    *)
LEMMA StepType ==
  ASSUME TypeInv, NEW p \in Pids, NEW from \in Phases, NEW to \in Phases, Step(p, from, to),
         UNCHANGED initSock, execReady' \in SUBSET Runtimes,
         to # "boot", to \in SettingUp => from \in SettingUp
  PROVE  InitProcessTypeOK' /\ SentSoFar'
  BY DEF TypeInv, Types, InitProcessTypeOK, SentSoFar, Step

(* A step of Reexec that writes to the init socketpair keeps the types.    *)
LEMMA SendInitType ==
  ASSUME TypeInv, NEW p \in Pids, NEW m \in InitMsgs, NEW from \in SettingUp,
         NEW to \in Phases \ {"boot"}, SendInit(p, m, from, to),
         to \in SettingUp => from = "boot"
  PROVE  InitProcessTypeOK' /\ SentSoFar'
<1>1. CASE Exit(p)
  BY <1>1, ExitType
<1>2. CASE /\ Step(p, from, to)
           /\ initSock' = [initSock EXCEPT ![p] = Append(@, m)]
           /\ UNCHANGED execReady
  <2>1. initSock \in [Pids -> Seq(InitMsgs)] /\ Len(initSock[p]) =< 1
        /\ (from = "boot" => Len(initSock[p]) = 0)
    BY <1>2 DEF TypeInv, Types, InitProcessTypeOK, SentSoFar, Step
  <2>2. /\ Append(initSock[p], m) \in Seq(InitMsgs)
        /\ Len(Append(initSock[p], m)) = Len(initSock[p]) + 1
    BY <2>1
  <2>3. initSock'[p] = Append(initSock[p], m) /\ \A q \in Pids \ {p} : initSock'[q] = initSock[q]
    BY <1>2, <2>1
  <2>4. initSock' \in [Pids -> Seq(InitMsgs)]
    BY <1>2, <2>1, <2>2
  <2>5. Len(initSock'[p]) =< 2 /\ (to \in SettingUp => Len(initSock'[p]) =< 1)
    BY <2>1, <2>2, <2>3
  <2>6. SentSoFar'
    BY <1>2, <2>3, <2>5 DEF SentSoFar, Step, TypeInv, Types, InitProcessTypeOK
  <2>7. \A q \in Pids : Len(initSock'[q]) =< 2
    BY <2>3, <2>5 DEF TypeInv, Types, InitProcessTypeOK
  <2>8. proc' \in [Pids -> Phases]
    BY <1>2 DEF Step, TypeInv, Types, InitProcessTypeOK
  <2> QED
    BY <1>2, <2>4, <2>6, <2>7, <2>8 DEF TypeInv, Types, InitProcessTypeOK, Step
<1> QED
  BY <1>1, <1>2 DEF SendInit

(* Every step of the container's process keeps the types.                  *)
LEMMA TypeReexec ==
  ASSUME TypeInv, NEW p \in Pids, Reexec(p) PROVE InitProcessTypeOK' /\ SentSoFar'
<1> USE DEF Phases, Live, SettingUp, Waiting, Starting, InitMsgs
<1>0. execReady \in SUBSET Runtimes /\ conn[p].cli \in Runtimes \cup {None}
  BY DEF TypeInv, Types, InitProcessTypeOK, Conn
<1>1. CASE SendPrePivot(p)
  <2>1. CASE Exit(p)
    BY <2>1, ExitType
  <2>2. CASE SendInit(p, "PrePivot", "boot", "prePivot")
    BY <2>2, SendInitType
  <2> QED
    BY <1>1, <2>1, <2>2 DEF SendPrePivot
<1>2. CASE SetupPrePivot(p)
  BY <1>0, <1>2, StepType DEF SetupPrePivot
<1>3. CASE LookPath(p)
  BY <1>0, <1>3, StepType DEF LookPath
<1>4. CASE CreateContainerHooks(p)
  BY <1>0, <1>4, StepType DEF CreateContainerHooks
<1>5. CASE SendReady(p)
  BY <1>5, SendInitType DEF SendReady
<1>6. CASE Accept(p)
  BY <1>0, <1>6, StepType DEF Accept
<1>7. CASE RecvStart(p)
  <2>1. CASE Exit(p)
    BY <2>1, ExitType
  <2>2. CASE ~Exit(p)
    BY <1>0, <1>7, <2>2, StepType DEF RecvStart
  <2> QED
    BY <2>1, <2>2
<1>8. CASE SetupPostPivot(p)
  BY <1>0, <1>8, StepType DEF SetupPostPivot
<1>9. CASE StartContainerHooks(p)
  <2>1. CASE Exit(p)
    BY <2>1, ExitType
  <2>2. CASE ~Exit(p)
    BY <1>0, <1>9, <2>2, StepType DEF StartContainerHooks
  <2> QED
    BY <2>1, <2>2
<1>10. CASE SendExecReady(p)
  <2>1. CASE Exit(p)
    BY <2>1, ExitType
  <2>2. CASE ~Exit(p)
    BY <1>0, <1>10, <2>2, StepType DEF SendExecReady
  <2> QED
    BY <2>1, <2>2
<1>11. CASE ExecUserProcess(p)
  BY <1>0, <1>11, StepType DEF ExecUserProcess
<1> QED
  BY <1>1, <1>2, <1>3, <1>4, <1>5, <1>6, <1>7, <1>8, <1>9, <1>10, <1>11 DEF Reexec

(* So does every other step of a process or of the kernel.                 *)
LEMMA TypeEnvironment == ASSUME TypeInv, NEW p \in Pids, Environment(p) PROVE TypeInv'
<1>1. CASE Reexec(p)
  BY <1>1, TypeReexec, EnvironmentFrame DEF Environment
<1>2. CASE InvalidExecutable(p)
  <2>1. initSock \in [Pids -> Seq(InitMsgs)] /\ Len(initSock[p]) =< 1 /\ Alive(p)
    BY <1>2 DEF InvalidExecutable, TypeInv, Types, InitProcessTypeOK, SentSoFar, SettingUp,
       Live, Alive
  <2>2. /\ Append(initSock[p], "InvalidExecutable") \in Seq(InitMsgs)
        /\ Len(Append(initSock[p], "InvalidExecutable")) = Len(initSock[p]) + 1
    BY <2>1 DEF InitMsgs
  <2>3. /\ initSock' \in [Pids -> Seq(InitMsgs)]
        /\ \A q \in Pids \ {p} : initSock'[q] = initSock[q]
        /\ initSock'[p] \in {initSock[p], Append(initSock[p], "InvalidExecutable")}
    BY <1>2, <2>1, <2>2 DEF InvalidExecutable
  <2>4. \A q \in Pids : Len(initSock'[q]) =< 2
    <3>1. Len(initSock'[p]) =< 2
      BY <2>1, <2>2, <2>3
    <3>2. \A q \in Pids \ {p} : Len(initSock'[q]) =< 2
      BY <2>3 DEF TypeInv, Types, InitProcessTypeOK
    <3> QED
      BY <3>1, <3>2
  <2>5. InitProcessTypeOK' /\ SentSoFar'
    BY <1>2, <2>1, <2>3, <2>4, TerminateType
    DEF InvalidExecutable, TypeInv, Types, InitProcessTypeOK
  <2> QED
    BY <2>5, EnvironmentFrame DEF Environment
<1>3. CASE ReexecFails(p) \/ UserExit(p)
  BY <1>3, ExitType, EnvironmentFrame DEF Environment, ReexecFails, UserExit
<1>4. CASE Reap(p) \/ Foreign(p)
  <2>1. InitProcessTypeOK' /\ SentSoFar'
    BY <1>4 DEF Reap, Foreign, TypeInv, Types, InitProcessTypeOK, SentSoFar, Phases, SettingUp
  <2> QED
    BY <2>1, EnvironmentFrame DEF Environment
<1> QED
  BY <1>1, <1>2, <1>3, <1>4 DEF Environment

(* Every step keeps the types.                                             *)
LEMMA TypeNext == TypeInv /\ [Next]_vars => TypeInv'
<1> SUFFICES ASSUME TypeInv, [Next]_vars PROVE TypeInv'
  OBVIOUS
<1>1. CASE UNCHANGED vars
  BY <1>1 DEF vars, TypeInv, Types, StateDirTypeOK, InitProcessTypeOK, ContainerTypeOK,
     SentSoFar
<1>2. ASSUME NEW r \in Runtimes, Run(r) PROVE TypeInv'
  BY <1>2, TypeRun
<1>3. ASSUME NEW r \in Runtimes, Crash(r) PROVE TypeInv'
  BY <1>3, EndType DEF Crash
<1>4. ASSUME NEW r \in Runtimes, NEW o \in Ops, Begin(r, o) PROVE TypeInv'
  BY <1>4, TypeBegin
<1>5. ASSUME NEW p \in Pids, Environment(p) PROVE TypeInv'
  BY <1>5, TypeEnvironment
<1> QED
  BY <1>1, <1>2, <1>3, <1>4, <1>5 DEF Next

(* Type correctness, with at most two messages on an init socketpair: the  *)
(* socketpair that Init makes for one child carries PrePivot and then      *)
(* Ready or InvalidExecutable, and nothing of an earlier child.            *)
THEOREM TypeCorrect == Spec => []TypeOK
<1>1. Init => hasProcess \in Bundles
  BY DEF Init
<1>2. hasProcess \in Bundles /\ [Next]_vars => (hasProcess \in Bundles)'
  BY DEF Next, vars
<1>3. TypeInv /\ hasProcess \in Bundles => TypeOK
  BY DEF TypeInv, Types, TypeOK
<1> QED
  BY <1>1, <1>2, <1>3, TypeInit, TypeNext, PTL DEF Spec

-----------------------------------------------------------------------------
(* The lock, for callers that do not overlap delete with other commands.   *)

(* Steps a command takes before it opens the lock file.                    *)
Unopened == {"idle", "exists", "mkdir", "new", "load", "open"}

(* Steps only delete takes.                                                *)
Deleting == {"deleteCgroup", "readdir", "unlink", "rmdir", "rmsock", "poststop"}

(* Before Lock there is no open lock file; only Lock's flock locks it.     *)
OpenBeforeLock ==
    \A r \in Runtimes :
        /\ pc[r] \in Unopened => fd[r] = None
        /\ pc[r] = "flock" => fd[r] # None
        /\ pc[r] \in Unopened \cup {"flock"} => r \notin locked
        /\ r \in locked => fd[r] # None

(* delete runs alone.                                                      *)
DeleteAlone ==
    \A r, s \in Runtimes :
        r # s /\ pc[r] # "idle" /\ op[r] = "delete" => pc[s] = "idle"

DeletingIsDelete == \A r \in Runtimes : pc[r] \in Deleting => op[r] = "delete"

(* Outside of delete an open lock file is the one its path names.          *)
OpenIsCurrent ==
    \A r \in Runtimes :
        pc[r] # "idle" /\ op[r] # "delete" /\ fd[r] # None => fd[r] = lockInode

LockInv == OpenBeforeLock /\ DeleteAlone /\ DeletingIsDelete /\ OpenIsCurrent /\ ExclusiveLock

(* The initial state.                                                      *)
LEMMA LockInit == Init => LockInv
  BY DEF Init, StateDirInit, LockInv, OpenBeforeLock, DeleteAlone, DeletingIsDelete, OpenIsCurrent,
     ExclusiveLock, Deleting

(* A step of a command that touches neither the lock nor its file, and     *)
(* does not go back before the lock.                                       *)
LEMMA LockFrame ==
  ASSUME Types, LockInv, NEW r \in Runtimes, NEW to,
         Goto(r, to), UNCHANGED <<op, fd, locked, lockInode>>,
         pc[r] # "idle", to # "idle",
         to \in Deleting => op[r] = "delete",
         to \in Unopened => pc[r] \in Unopened,
         to = "flock" => FALSE
  PROVE  LockInv'
  BY DEF LockInv, OpenBeforeLock, DeleteAlone, DeletingIsDelete, OpenIsCurrent, ExclusiveLock,
     Goto, Types, ContainerTypeOK, StateDirTypeOK

(* The end of a command, by return or by crash.                            *)
LEMMA LockEnd == ASSUME Types, LockInv, NEW r \in Runtimes, End(r) PROVE LockInv'
  BY DEF LockInv, OpenBeforeLock, DeleteAlone, DeletingIsDelete, OpenIsCurrent, ExclusiveLock,
     End, Unlock, Goto, Deleting, Types, ContainerTypeOK, StateDirTypeOK

(* An invocation; delete starts only when nothing else runs.               *)
LEMMA LockBegin ==
  ASSUME Types, LockInv, SerialDelete, NEW r \in Runtimes, NEW o \in Ops, Begin(r, o)
  PROVE  LockInv'
  BY DEF LockInv, OpenBeforeLock, DeleteAlone, DeletingIsDelete, OpenIsCurrent, ExclusiveLock,
     Begin, CallerAllows, Goto, Unopened, Deleting, Types, ContainerTypeOK, StateDirTypeOK

(* Opening the lock file.                                                  *)
LEMMA LockOpen == ASSUME Types, LockInv, NEW r \in Runtimes, Open(r) PROVE LockInv'
<1>1. CASE OpenLockFile(r)
  BY <1>1, StateDirAssumption DEF LockInv, OpenBeforeLock, DeleteAlone, DeletingIsDelete,
     OpenIsCurrent, ExclusiveLock, Open, OpenLockFile, FreeInodes, Goto, Unopened, Deleting,
     Types, ContainerTypeOK, StateDirTypeOK
<1>2. CASE UNCHANGED <<dirVars, lockVars>> /\ Goto(r, "return")
  BY <1>2, LockFrame DEF Open, Unopened, Deleting
<1> QED
  BY <1>1, <1>2 DEF Open

(* flock: a second holder would have the same inode open, so it blocks.    *)
LEMMA LockLock == ASSUME Types, LockInv, NEW r \in Runtimes, Lock(r) PROVE LockInv'
<1>1. CASE Flock(r)
  <2>1. \A s \in locked : s = r
    <3> SUFFICES ASSUME NEW s \in locked, s # r PROVE FALSE
      OBVIOUS
    <3>1. s \in Runtimes /\ pc[s] # "idle" /\ pc[r] # "idle" /\ fd[s] # None
      BY <1>1 DEF Lock, LockInv, OpenBeforeLock, Unopened, Types, StateDirTypeOK
    <3>2. op[s] # "delete" /\ op[r] # "delete"
      BY <3>1 DEF LockInv, DeleteAlone
    <3>3. fd[r] # None
      BY DEF Lock, LockInv, OpenBeforeLock
    <3> QED
      BY <1>1, <3>1, <3>2, <3>3 DEF LockInv, OpenIsCurrent, Flock, WouldBlock
  <2> QED
    BY <1>1, <2>1 DEF LockInv, OpenBeforeLock, DeleteAlone, DeletingIsDelete, OpenIsCurrent,
       ExclusiveLock, Lock, Flock, Goto, Unopened, Deleting, Types, ContainerTypeOK,
       StateDirTypeOK
<1>2. CASE UNCHANGED <<dirVars, lockVars>> /\ Goto(r, "return")
  BY <1>2, LockFrame DEF Lock, Unopened, Deleting
<1> QED
  BY <1>1, <1>2 DEF Lock

(* delete unlinks the lock file it holds; nobody else has it open.         *)
LEMMA LockUnlink == ASSUME Types, LockInv, NEW r \in Runtimes, RemoveAllUnlink(r) PROVE LockInv'
<1>1. op[r] = "delete" /\ pc[r] # "idle"
  BY DEF LockInv, DeletingIsDelete, RemoveAllUnlink, Deleting
<1>2. \A s \in Runtimes \ {r} : pc[s] = "idle" /\ fd[s] = None
  BY <1>1 DEF LockInv, DeleteAlone, OpenBeforeLock, Unopened
<1>3. CASE pc' = pc
  BY <1>1, <1>2, <1>3 DEF LockInv, OpenBeforeLock, DeleteAlone, DeletingIsDelete, OpenIsCurrent,
     ExclusiveLock, RemoveAllUnlink, Unlink
<1>4. CASE Goto(r, "rmdir") /\ UNCHANGED dirVars
  BY <1>1, <1>4, LockFrame DEF RemoveAllUnlink, Unopened
<1> QED
  BY <1>3, <1>4 DEF RemoveAllUnlink

(* Every step of a command.                                                *)
LEMMA LockRun == ASSUME Types, LockInv, NEW r \in Runtimes, Run(r) PROVE LockInv'
<1> USE DEF Unopened, Deleting, Local
<1>1. CASE Load(r)
  BY <1>1, LockFrame DEF Load
<1>2. CASE Open(r)
  BY <1>2, LockOpen
<1>3. CASE Lock(r)
  BY <1>3, LockLock
<1>4. CASE Reload(r)
  BY <1>4, LockFrame DEF Reload, AfterReload
<1>5. CASE Save(r)
  BY <1>5, LockFrame DEF Save, WriteState, AfterSave, AfterFailedSave
<1>6. CASE Return(r)
  BY <1>6, LockEnd DEF Return
<1>7. CASE Create(r)
  <2>1. CASE CreateExists(r)
    BY <2>1, LockFrame DEF CreateExists
  <2>2. CASE CreateContainerDirs(r)
    BY <2>2, LockFrame DEF CreateContainerDirs, Mkdir
  <2>3. CASE New(r)
    BY <2>3, LockFrame DEF New
  <2>4. CASE Fork(r) \/ ForkFails(r)
    BY <2>4, LockFrame DEF Fork, ForkFails
  <2>5. CASE CreateCgroup(r)
    BY <2>5, LockFrame DEF CreateCgroup
  <2>6. CASE RecvPrePivot(r)
    BY <2>6, LockFrame DEF RecvPrePivot, RecvInit
  <2>7. CASE CreateRuntimeHooks(r)
    BY <2>7, LockFrame DEF CreateRuntimeHooks
  <2>8. CASE RecvReady(r)
    BY <2>8, LockFrame DEF RecvReady, RecvInit
  <2> QED
    BY <1>7, <2>1, <2>2, <2>3, <2>4, <2>5, <2>6, <2>7, <2>8 DEF Create
<1>8. CASE Start(r)
  <2>1. CASE PrestartHooks(r)
    BY <2>1, LockFrame DEF PrestartHooks
  <2>2. CASE Dial(r)
    BY <2>2, LockFrame DEF Dial
  <2>3. CASE SendStart(r)
    BY <2>3, LockFrame DEF SendStart
  <2>4. CASE RecvExecReady(r)
    BY <2>4, LockFrame DEF RecvExecReady
  <2>5. CASE PoststartHooks(r)
    BY <2>5, LockFrame DEF PoststartHooks
  <2> QED
    BY <1>8, <2>1, <2>2, <2>3, <2>4, <2>5 DEF Start
<1>9. CASE CheckProcess(r)
  BY <1>9, LockFrame DEF CheckProcess
<1>10. CASE Kill(r)
  BY <1>10, LockFrame DEF Kill
<1>11. CASE Delete(r)
  <2>0. pc[r] \in Deleting => op[r] = "delete"
    BY DEF LockInv, DeletingIsDelete
  <2>1. CASE DeleteRefused(r)
    BY <2>1, LockFrame DEF DeleteRefused
  <2>2. CASE DeleteCgroup(r)
    BY <2>0, <2>2, LockFrame DEF DeleteCgroup
  <2>3. CASE RemoveAllList(r)
    BY <2>0, <2>3, LockFrame DEF RemoveAllList
  <2>4. CASE RemoveAllUnlink(r)
    BY <2>4, LockUnlink
  <2>5. CASE RemoveAllRmdir(r)
    BY <2>0, <2>5, LockFrame DEF RemoveAllRmdir, Rmdir
  <2>6. CASE RemoveSocket(r)
    BY <2>0, <2>6, LockFrame DEF RemoveSocket
  <2>7. CASE PoststopHooks(r)
    BY <2>7, LockFrame DEF PoststopHooks
  <2> QED
    BY <1>11, <2>1, <2>2, <2>3, <2>4, <2>5, <2>6, <2>7 DEF Delete
<1>12. CASE Pause(r) \/ Resume(r)
  BY <1>12, LockFrame DEF Pause, Resume, SetFrozen
<1> QED
  BY <1>1, <1>2, <1>3, <1>4, <1>5, <1>6, <1>7, <1>8, <1>9, <1>10, <1>11, <1>12 DEF Run

(* Every step keeps the lock invariant.                                    *)
LEMMA LockNext == SerialDelete /\ Types /\ LockInv /\ [Next]_vars => LockInv'
<1> SUFFICES ASSUME SerialDelete, Types, LockInv, [Next]_vars PROVE LockInv'
  OBVIOUS
<1> USE DEF LockInv, OpenBeforeLock, DeleteAlone, DeletingIsDelete, OpenIsCurrent, ExclusiveLock
<1>1. CASE UNCHANGED vars
  BY <1>1 DEF vars
<1>2. ASSUME NEW r \in Runtimes, Run(r) PROVE LockInv'
  BY <1>2, LockRun
<1>3. ASSUME NEW r \in Runtimes, Crash(r) PROVE LockInv'
  BY <1>3, LockEnd DEF Crash
<1>4. ASSUME NEW r \in Runtimes, NEW o \in Ops, Begin(r, o) PROVE LockInv'
  BY <1>4, LockBegin
<1>5. ASSUME NEW p \in Pids, Environment(p) PROVE LockInv'
  BY <1>5 DEF Environment
<1> QED
  BY <1>1, <1>2, <1>3, <1>4, <1>5 DEF Next

(* Mutual exclusion: whatever crashes and fails, no two commands hold the  *)
(* lock at once, provided the caller does not overlap delete with another  *)
(* command.  Without that proviso the code does not exclude them.          *)
THEOREM Exclusion == ASSUME SerialDelete PROVE Spec => []ExclusiveLock
<1>1. TypeOK /\ LockInv /\ [Next]_vars => LockInv'
  BY LockNext DEF TypeOK, Types
<1>2. LockInv => ExclusiveLock
  BY DEF LockInv
<1> QED
  BY <1>1, <1>2, TypeCorrect, LockInit, PTL DEF Spec

-----------------------------------------------------------------------------
(***************************************************************************)
(* What state.json says of the container's process, for callers that do    *)
(* not overlap delete with other commands: whatever fails and whoever is   *)
(* killed.                                                                 *)
(***************************************************************************)

(* The steps of create between its directory and its fork, and between its *)
(* fork and its second save.                                               *)
Childless == {"new", "open", "flock"}
Parenting == {"createCgroup", "recvPrePivot", "createRuntime", "recvReady"}

(* The steps a command takes on a State it has just reloaded.              *)
Fresh == {"prestart", "dial", "sendStart", "recvExecReady", "isProcessDead",
          "kill", "freeze", "thaw"}

(* The steps of start after it has dialled.                                *)
Dialled == {"sendStart", "recvExecReady", "save", "poststart", "return"}

Creating == [status |-> "creating", pid |-> None]

(* A create that made the directory and has not returned.                  *)
Making(r) == op[r] = "create" /\ pc[r] \in {"fork", "save"} \cup Childless \cup Parenting

(* A process past everything Reexec does, or dead.                         *)
Initialised(p) == proc[p] \notin SettingUp \cup Waiting \cup Starting

-----------------------------------------------------------------------------
(* The inductive invariant.                                                *)

(* Which commands take a step, and that it takes place under the lock.     *)
ControlInv ==
    \A r \in Runtimes :
        /\ pc[r] \in {"exists", "mkdir", "new", "fork"} \cup Parenting => op[r] = "create"
        /\ pc[r] \in {"load", "reload"} => op[r] # "create"
        /\ pc[r] \in {"prestart", "dial", "sendStart", "recvExecReady", "poststart"} =>
              op[r] = "start"
        /\ pc[r] = "isProcessDead" => op[r] \in {"state", "delete"}
        /\ pc[r] = "freeze" => op[r] = "pause"
        /\ pc[r] = "thaw" => op[r] = "resume"
        /\ pc[r] = "save" =>
              op[r] \in {"create", "start", "state", "delete", "pause", "resume"}
        /\ pc[r] \notin Unopened \cup {"flock", "return"} => r \in locked

(* The state file names a process once the container is created.           *)
FileInv ==
    /\ Loadable => dir
    /\ stateFile.status = "none" => stateFile = NoState
    /\ stateFile.status = "creating" => stateFile = Creating
    /\ stateFile.status \in {"created", "running", "paused", "stopped"} => stateFile.pid # None

(* Mkdir lets a single create through, and it finds nothing but what it    *)
(* wrote itself.                                                           *)
OneMaker == \A r, s \in Runtimes : Making(r) /\ Making(s) => r = s

CreateInv(r) ==
    Making(r) =>
        /\ dir
        /\ pc[r] \in Childless => stateFile = NoState
        /\ pc[r] \in {"open", "flock", "fork"} => st[r] = Creating
        /\ pc[r] \in Parenting \cup {"fork"} => stateFile = Creating
        /\ pc[r] \in Parenting => st[r].status = "creating" /\ st[r].pid # None
        /\ pc[r] = "save" =>
              \/ st[r] = Creating /\ stateFile = NoState
              \/ /\ st[r].status = "created" /\ st[r].pid # None
                 /\ stateFile = Creating
                 /\ proc[st[r].pid] \notin SettingUp

(* What a command loaded without the lock may be old, but never names a    *)
(* process that the file does not.                                         *)
LoadInv(r) ==
    op[r] # "create" /\ pc[r] \in {"open", "flock", "reload"} =>
        Loadable /\ st[r].pid \in {None, stateFile.pid}

(* What it reloaded under the lock is what the file says.                  *)
FreshInv(r) ==
    pc[r] \in Fresh =>
        /\ Loadable
        /\ st[r] = stateFile
        /\ pc[r] \in {"dial", "sendStart", "recvExecReady"} => st[r].status = "created"

(* What it is about to save is true of the recorded process.               *)
SaveInv(r) ==
    pc[r] = "save" /\ op[r] # "create" =>
        /\ stateFile.pid # None
        /\ st[r].pid = stateFile.pid
        /\ op[r] = "start" =>
              /\ stateFile.status = "created"
              /\ \/ st[r].status = "running" /\ Initialised(st[r].pid)
                 \/ st[r].status = "stopped" /\ ~hasProcess
        /\ op[r] \in {"state", "delete"} => st[r].status = "stopped" /\ ~Alive(st[r].pid)
        /\ op[r] = "pause" => stateFile.status = "running" /\ st[r].status = "paused"
        /\ op[r] = "resume" => stateFile.status = "paused" /\ st[r].status = "running"

(* A start that is connected, or was told ExecReady, is at work on the     *)
(* recorded process.                                                       *)
ConnectedInv(r) ==
    /\ peer[r] # None \/ r \in execReady =>
          /\ pc[r] \in Dialled /\ op[r] = "start" /\ r \in locked
          /\ stateFile.pid # None
          /\ st[r].pid = stateFile.pid
    /\ peer[r] # None => peer[r] = stateFile.pid
    /\ r \in execReady => Initialised(stateFile.pid)

RuntimeInv(r) ==
    CreateInv(r) /\ LoadInv(r) /\ FreshInv(r) /\ SaveInv(r) /\ ConnectedInv(r)

(* Before Reexec has sent Ready there is no such message, and the two ends *)
(* of a connection agree.                                                  *)
MessageInv ==
    /\ \A p \in Pids : proc[p] \in SettingUp => initSock[p] \in {<<>>, <<"PrePivot">>}
    /\ \A p \in Pids : \A r \in Runtimes : conn[p].cli = r => peer[r] = p

(* The socket at the container's path belongs to the recorded process, or  *)
(* to the one that create is about to record.                              *)
SockInv ==
    /\ stateFile.pid # None => sock \in {None, stateFile.pid}
    /\ \A r \in Runtimes :
          Making(r) /\ st[r].pid # None /\ pc[r] \in Parenting \cup {"save"} =>
              sock \in {None, st[r].pid}

(* The recorded status is not ahead of the recorded process.               *)
PhaseInv ==
    /\ stateFile.pid # None => proc[stateFile.pid] \notin SettingUp
    /\ stateFile.status \in {"running", "paused"} => Initialised(stateFile.pid)
    /\ StoppedIsDead

RecordInv ==
    /\ FileInv /\ OneMaker /\ MessageInv /\ SockInv /\ PhaseInv
    /\ \A r \in Runtimes : RuntimeInv(r)

-----------------------------------------------------------------------------
(* Control.                                                                *)

USE DEF dirVars, lockVars, procVars, cmdVars

(* A step of a command inside the lock, or to its end.                     *)
LEMMA ControlFrame ==
  ASSUME Types, ControlInv, NEW r \in Runtimes, NEW to, Goto(r, to), UNCHANGED op,
         \A s \in Runtimes \ {r} : s \in locked => s \in locked',
         to \in {"exists", "mkdir", "new", "fork"} \cup Parenting => op[r] = "create",
         to \in {"load", "reload"} => op[r] # "create",
         to \in {"prestart", "dial", "sendStart", "recvExecReady", "poststart"} =>
              op[r] = "start",
         to = "isProcessDead" => op[r] \in {"state", "delete"},
         to = "freeze" => op[r] = "pause",
         to = "thaw" => op[r] = "resume",
         to = "save" => op[r] \in {"create", "start", "state", "delete", "pause", "resume"},
         to \notin Unopened \cup {"flock", "return"} => r \in locked'
  PROVE  ControlInv'
  BY DEF ControlInv, Goto, Types, ContainerTypeOK

(* Every step of a command.                                                *)
LEMMA ControlRun == ASSUME Types, ControlInv, LockInv, NEW r \in Runtimes, Run(r) PROVE ControlInv'
<1> USE DEF Unopened, Parenting, Local
<1>0. /\ pc[r] \notin Unopened \cup {"flock", "return"} => r \in locked
      /\ pc[r] \in {"exists", "mkdir", "new", "fork"} \cup Parenting => op[r] = "create"
      /\ pc[r] \in {"load", "reload"} => op[r] # "create"
      /\ pc[r] \in {"prestart", "dial", "sendStart", "recvExecReady", "poststart"} =>
              op[r] = "start"
      /\ pc[r] = "isProcessDead" => op[r] \in {"state", "delete"}
      /\ pc[r] = "freeze" => op[r] = "pause"
      /\ pc[r] = "thaw" => op[r] = "resume"
  BY DEF ControlInv
<1>1. CASE Load(r)
  BY <1>0, <1>1, ControlFrame DEF Load
<1>2. CASE Open(r)
  BY <1>0, <1>2, ControlFrame DEF Open, OpenLockFile
<1>3. CASE Lock(r)
  BY <1>0, <1>3, ControlFrame DEF Lock, Flock
<1>4. CASE Reload(r)
  BY <1>0, <1>4, ControlFrame DEF Reload, AfterReload
<1>5. CASE Save(r)
  BY <1>0, <1>5, ControlFrame DEF Save, AfterSave, AfterFailedSave
<1>6. CASE Return(r)
  BY <1>0, <1>6 DEF Return, End, Unlock, Goto, ControlInv, Types, ContainerTypeOK
<1>7. CASE Create(r)
  <2>1. CASE CreateExists(r)
    BY <1>0, <2>1, ControlFrame DEF CreateExists
  <2>2. CASE CreateContainerDirs(r)
    BY <1>0, <2>2, ControlFrame DEF CreateContainerDirs
  <2>3. CASE New(r)
    BY <1>0, <2>3, ControlFrame DEF New
  <2>4. CASE Fork(r) \/ ForkFails(r)
    BY <1>0, <2>4, ControlFrame DEF Fork, ForkFails
  <2>5. CASE CreateCgroup(r)
    BY <1>0, <2>5, ControlFrame DEF CreateCgroup
  <2>6. CASE RecvPrePivot(r)
    BY <1>0, <2>6, ControlFrame DEF RecvPrePivot, RecvInit
  <2>7. CASE CreateRuntimeHooks(r)
    BY <1>0, <2>7, ControlFrame DEF CreateRuntimeHooks
  <2>8. CASE RecvReady(r)
    BY <1>0, <2>8, ControlFrame DEF RecvReady, RecvInit
  <2> QED
    BY <1>7, <2>1, <2>2, <2>3, <2>4, <2>5, <2>6, <2>7, <2>8 DEF Create
<1>8. CASE Start(r)
  <2>1. CASE PrestartHooks(r)
    BY <1>0, <2>1, ControlFrame DEF PrestartHooks
  <2>2. CASE Dial(r)
    BY <1>0, <2>2, ControlFrame DEF Dial
  <2>3. CASE SendStart(r)
    BY <1>0, <2>3, ControlFrame DEF SendStart
  <2>4. CASE RecvExecReady(r)
    BY <1>0, <2>4, ControlFrame DEF RecvExecReady
  <2>5. CASE PoststartHooks(r)
    BY <1>0, <2>5, ControlFrame DEF PoststartHooks
  <2> QED
    BY <1>8, <2>1, <2>2, <2>3, <2>4, <2>5 DEF Start
<1>9. CASE CheckProcess(r)
  BY <1>0, <1>9, ControlFrame DEF CheckProcess
<1>10. CASE Kill(r)
  BY <1>0, <1>10, ControlFrame DEF Kill
<1>11. CASE Delete(r)
  <2>1. CASE DeleteRefused(r)
    BY <1>0, <2>1, ControlFrame DEF DeleteRefused
  <2>2. CASE DeleteCgroup(r)
    BY <1>0, <2>2, ControlFrame DEF DeleteCgroup
  <2>3. CASE RemoveAllList(r)
    BY <1>0, <2>3, ControlFrame DEF RemoveAllList
  <2>4. CASE RemoveAllUnlink(r)
    BY <1>0, <2>4, ControlFrame DEF RemoveAllUnlink, ControlInv
  <2>5. CASE RemoveAllRmdir(r)
    BY <1>0, <2>5, ControlFrame DEF RemoveAllRmdir
  <2>6. CASE RemoveSocket(r)
    BY <1>0, <2>6, ControlFrame DEF RemoveSocket
  <2>7. CASE PoststopHooks(r)
    BY <1>0, <2>7, ControlFrame DEF PoststopHooks
  <2> QED
    BY <1>11, <2>1, <2>2, <2>3, <2>4, <2>5, <2>6, <2>7 DEF Delete
<1>12. CASE Pause(r) \/ Resume(r)
  BY <1>0, <1>12, ControlFrame DEF Pause, Resume, SetFrozen
<1> QED
  BY <1>1, <1>2, <1>3, <1>4, <1>5, <1>6, <1>7, <1>8, <1>9, <1>10, <1>11, <1>12 DEF Run

(* Every step keeps it.                                                    *)
LEMMA ControlNext == Types /\ ControlInv /\ LockInv /\ [Next]_vars => ControlInv'
<1> SUFFICES ASSUME Types, ControlInv, LockInv, [Next]_vars PROVE ControlInv'
  OBVIOUS
<1>1. CASE UNCHANGED vars
  BY <1>1 DEF vars, ControlInv
<1>2. ASSUME NEW r \in Runtimes, Run(r) PROVE ControlInv'
  BY <1>2, ControlRun
<1>3. ASSUME NEW r \in Runtimes, Crash(r) PROVE ControlInv'
  BY <1>3 DEF Crash, End, Unlock, Goto, ControlInv, Types, ContainerTypeOK, Unopened, Parenting
<1>4. ASSUME NEW r \in Runtimes, NEW o \in Ops, Begin(r, o) PROVE ControlInv'
  BY <1>4 DEF Begin, Goto, ControlInv, Types, ContainerTypeOK, Unopened, Parenting
<1>5. ASSUME NEW p \in Pids, Environment(p) PROVE ControlInv'
  BY <1>5 DEF Environment, ControlInv
<1> QED
  BY <1>1, <1>2, <1>3, <1>4, <1>5 DEF Next

-----------------------------------------------------------------------------
(* Processes only move on.                                                 *)

Onward(p) ==
    /\ proc[p] \notin SettingUp => proc'[p] \notin SettingUp
    /\ Initialised(p) => proc'[p] \notin SettingUp \cup Waiting \cup Starting
    /\ proc[p] \notin Live => proc'[p] \notin Live

(* The end of processes.                                                   *)
LEMMA TerminateOnward ==
  ASSUME Types, NEW S, Terminate(S) PROVE \A p \in Pids : Onward(p)
  BY DEF Types, InitProcessTypeOK, Terminate, Alive, Onward, Initialised, Phases, Live,
     SettingUp, Waiting, Starting

(* A step of Reexec.                                                       *)
LEMMA StepOnward ==
  ASSUME Types, NEW p \in Pids, NEW from, NEW to, Step(p, from, to),
         from \in Live,
         to \in SettingUp => from \in SettingUp,
         to \in SettingUp \cup Waiting \cup Starting =>
             from \in SettingUp \cup Waiting \cup Starting
  PROVE  \A q \in Pids : Onward(q)
  BY DEF Types, InitProcessTypeOK, Step, Onward, Initialised

(* Reexec as a whole.                                                      *)
LEMMA ReexecOnward ==
  ASSUME Types, NEW p \in Pids, Reexec(p) PROVE \A q \in Pids : Onward(q)
<1> USE DEF Live, SettingUp, Waiting, Starting
<1>0. CASE Exit(p)
  BY <1>0, TerminateOnward DEF Exit
<1>1. CASE SendPrePivot(p)
  BY <1>0, <1>1, StepOnward DEF SendPrePivot, SendInit
<1>2. CASE SetupPrePivot(p)
  BY <1>2, StepOnward DEF SetupPrePivot
<1>3. CASE LookPath(p)
  BY <1>3, StepOnward DEF LookPath
<1>4. CASE CreateContainerHooks(p)
  BY <1>4, StepOnward DEF CreateContainerHooks
<1>5. CASE SendReady(p)
  BY <1>0, <1>5, StepOnward DEF SendReady, SendInit
<1>6. CASE Accept(p)
  BY <1>6, StepOnward DEF Accept
<1>7. CASE RecvStart(p)
  BY <1>0, <1>7, StepOnward DEF RecvStart
<1>8. CASE SetupPostPivot(p)
  BY <1>8, StepOnward DEF SetupPostPivot
<1>9. CASE StartContainerHooks(p)
  BY <1>0, <1>9, StepOnward DEF StartContainerHooks
<1>10. CASE SendExecReady(p)
  BY <1>0, <1>10, StepOnward DEF SendExecReady
<1>11. CASE ExecUserProcess(p)
  BY <1>11, StepOnward DEF ExecUserProcess
<1> QED
  BY <1>1, <1>2, <1>3, <1>4, <1>5, <1>6, <1>7, <1>8, <1>9, <1>10, <1>11 DEF Reexec

(* Every step of a process or of the kernel.                               *)
LEMMA EnvironmentOnward ==
  ASSUME Types, NEW p \in Pids, Environment(p) PROVE \A q \in Pids : Onward(q)
<1>1. CASE Reexec(p)
  BY <1>1, ReexecOnward
<1>2. CASE InvalidExecutable(p)
  BY <1>2, TerminateOnward DEF InvalidExecutable
<1>3. CASE ReexecFails(p) \/ UserExit(p)
  BY <1>3, TerminateOnward DEF ReexecFails, UserExit, Exit
<1>4. CASE Reap(p) \/ Foreign(p)
  BY <1>4 DEF Reap, Foreign, Types, InitProcessTypeOK, Onward, Initialised, Live, SettingUp,
     Waiting, Starting
<1> QED
  BY <1>1, <1>2, <1>3, <1>4 DEF Environment

-----------------------------------------------------------------------------
(* The record.                                                             *)

(* Whoever is not at work on the container keeps what it knows of it, and  *)
(* the one that holds the lock does while processes only move on.          *)
LEMMA Bystander ==
  ASSUME Types, ControlInv, RecordInv, NEW s \in Runtimes,
         pc'[s] = pc[s], op'[s] = op[s], st'[s] = st[s], s \in locked => s \in locked',
         peer'[s] \in {peer[s], None}, s \in execReady' => s \in execReady,
         UNCHANGED <<dir, stateFile, hasProcess>>,
         s \in locked => \A p \in Pids : Onward(p)
  PROVE  RuntimeInv(s)'
<1>0. st[s].pid \in Pids \cup {None} /\ stateFile.pid \in Pids \cup {None}
  BY DEF Types, ContainerTypeOK, StateDirTypeOK, State
<1>1. CreateInv(s)'
  BY <1>0 DEF RecordInv, RuntimeInv, CreateInv, ControlInv, Making, Onward, Unopened, Childless,
     Parenting
<1>2. LoadInv(s)' /\ FreshInv(s)'
  BY DEF RecordInv, RuntimeInv, LoadInv, FreshInv, Loadable
<1>3. SaveInv(s)'
  BY <1>0 DEF RecordInv, RuntimeInv, SaveInv, ControlInv, Onward, Unopened, Initialised, Alive
<1>4. ConnectedInv(s)'
  BY <1>0 DEF RecordInv, RuntimeInv, ConnectedInv, Onward, Initialised
<1> QED
  BY <1>1, <1>2, <1>3, <1>4 DEF RuntimeInv

(* A step that leaves the file alone and forks nothing.                    *)
LEMMA Assemble ==
  ASSUME Types, ControlInv, RecordInv, NEW r \in Runtimes,
         \A s \in Runtimes \ {r} :
             /\ pc'[s] = pc[s] /\ op'[s] = op[s] /\ st'[s] = st[s]
             /\ s \in locked => s \in locked'
             /\ peer'[s] \in {peer[s], None}
             /\ s \in execReady' => s \in execReady,
         UNCHANGED <<dir, stateFile, hasProcess>>,
         \A p \in Pids : Onward(p),
         MessageInv', sock' \in {sock, None},
         Making(r)' => Making(r),
         Making(r)' /\ st'[r].pid # None /\ pc'[r] \in Parenting \cup {"save"} =>
             pc[r] \in Parenting \cup {"save"} /\ st'[r].pid = st[r].pid,
         RuntimeInv(r)'
  PROVE  RecordInv'
<1>0. stateFile.pid \in Pids \cup {None}
  BY DEF Types, StateDirTypeOK, State
<1>1. \A s \in Runtimes : RuntimeInv(s)'
  BY Bystander
<1>2. FileInv'
  BY DEF RecordInv, FileInv, Loadable
<1>3. OneMaker'
  BY DEF RecordInv, OneMaker, Making
<1>4. SockInv'
  BY DEF RecordInv, SockInv, Making
<1>5. PhaseInv'
  BY <1>0 DEF RecordInv, PhaseInv, FileInv, StoppedIsDead, Onward, Initialised, Alive
<1> QED
  BY <1>1, <1>2, <1>3, <1>4, <1>5 DEF RecordInv

(* The initial state.                                                      *)
LEMMA RecordInit == Init => ControlInv /\ RecordInv
<1> SUFFICES ASSUME Init PROVE ControlInv /\ RecordInv
  OBVIOUS
<1> USE DEF Init, StateDirInit, InitProcessInit
<1>1. ControlInv /\ OneMaker /\ FileInv /\ SockInv /\ PhaseInv
  BY DEF ControlInv, OneMaker, Making, FileInv, SockInv, PhaseInv, StoppedIsDead, Parenting,
     Childless, Unopened, NoState, Loadable
<1>2. MessageInv
  BY StateDirAssumption DEF MessageInv, NoConn, SettingUp
<1>3. \A r \in Runtimes : RuntimeInv(r)
  BY DEF RuntimeInv, CreateInv, LoadInv, FreshInv, SaveInv, ConnectedInv, Making, Childless,
     Parenting, Fresh
<1> QED
  BY <1>1, <1>2, <1>3 DEF RecordInv

(* A command that is not at work on the container.                         *)
LEMMA Aside ==
  ASSUME NEW s \in Runtimes,
         pc'[s] \notin Fresh \cup Childless \cup Parenting \cup {"fork", "save", "reload"},
         peer'[s] = None, s \notin execReady'
  PROVE  RuntimeInv(s)'
  BY DEF RuntimeInv, CreateInv, LoadInv, FreshInv, SaveInv, ConnectedInv, Making, Childless,
     Parenting, Fresh

(* Only start is connected.                                                *)
LEMMA Unconnected ==
  ASSUME RecordInv, NEW r \in Runtimes, pc[r] \notin Dialled \/ op[r] # "start"
  PROVE  peer[r] = None /\ r \notin execReady
  BY DEF RecordInv, RuntimeInv, ConnectedInv

(* Messages nobody sends or reads.                                         *)
LEMMA QuietMessages ==
  ASSUME MessageInv, UNCHANGED <<proc, initSock, conn, peer>> PROVE MessageInv'
  BY DEF MessageInv

(* Processes that do nothing.                                              *)
LEMMA QuietOnward == ASSUME UNCHANGED proc PROVE \A p \in Pids : Onward(p)
  BY DEF Onward, Initialised

(* A command that gives up, or is done, keeps what it knows.               *)
LEMMA Returning ==
  ASSUME Types, RecordInv, NEW r \in Runtimes, pc'[r] = "return", op'[r] = op[r],
         pc[r] \in Dialled => r \in locked' /\ st'[r] = st[r],
         UNCHANGED stateFile, peer'[r] \in {peer[r], None}, r \in execReady' => r \in execReady,
         \A p \in Pids : Onward(p)
  PROVE  RuntimeInv(r)'
<1>0. stateFile.pid \in Pids \cup {None}
  BY DEF Types, StateDirTypeOK, State
<1>1. ConnectedInv(r)'
  BY <1>0 DEF RecordInv, RuntimeInv, ConnectedInv, Dialled, Onward, Initialised
<1> QED
  BY <1>1 DEF RuntimeInv, CreateInv, LoadInv, FreshInv, SaveInv, Making, Childless,
     Parenting, Fresh

(* A local step of a command that leaves processes and file alone.         *)
LEMMA LocalRecord ==
  ASSUME Types, ControlInv, RecordInv, NEW r \in Runtimes, NEW to,
         Goto(r, to), UNCHANGED <<op, dir, stateFile, hasProcess, procVars>>,
         \A s \in Runtimes \ {r} : st'[s] = st[s] /\ (s \in locked => s \in locked'),
         op[r] = "create" => to \notin Childless \cup Parenting \cup {"fork", "save"} \/ Making(r),
         op[r] = "create" /\ st'[r].pid # None /\ to \in Parenting \cup {"save"} =>
             pc[r] \in Parenting \cup {"save"} /\ st'[r].pid = st[r].pid,
         RuntimeInv(r)'
  PROVE  RecordInv'
<1>1. \A s \in Runtimes \ {r} : pc'[s] = pc[s]
  BY DEF Goto, Types, ContainerTypeOK
<1>2. pc'[r] = to
  BY DEF Goto, Types, ContainerTypeOK
<1>3. MessageInv' /\ \A p \in Pids : Onward(p)
  BY QuietMessages, QuietOnward DEF RecordInv
<1>4. Making(r)' => Making(r)
  BY <1>2 DEF Making
<1> HIDE DEF procVars
<1>5. Making(r)' /\ st'[r].pid # None /\ pc'[r] \in Parenting \cup {"save"} =>
          pc[r] \in Parenting \cup {"save"} /\ st'[r].pid = st[r].pid
  BY <1>2 DEF Making
<1> QED
  BY <1>1, <1>3, <1>4, <1>5, Assemble DEF procVars

(* Steps that everybody's commands begin with.                             *)
LEMMA OpeningRecord ==
  ASSUME Types, ControlInv, RecordInv, UNCHANGED hasProcess, NEW r \in Runtimes
  PROVE  /\ Load(r) => RecordInv'
         /\ Open(r) => RecordInv'
         /\ Lock(r) => RecordInv'
         /\ Reload(r) => RecordInv'
<1> USE DEF Types, ContainerTypeOK
<1>0. RuntimeInv(r)
  BY DEF RecordInv
<1>1. ASSUME Load(r) PROVE RecordInv'
  <2>1. op[r] # "create" /\ peer[r] = None /\ r \notin execReady
    BY <1>1, Unconnected DEF Load, ControlInv, Dialled
  <2>2. st'[r] = stateFile /\ pc'[r] \in {"open", "return"} /\ (pc'[r] = "open" => Loadable)
    BY <1>1 DEF Load, Goto
  <2>3. RuntimeInv(r)'
    BY <1>1, <2>1, <2>2 DEF Load, RuntimeInv, CreateInv, LoadInv, FreshInv, SaveInv, ConnectedInv,
       Making, Fresh, Loadable
  <2> QED
    BY <1>1, <2>1, <2>3, LocalRecord DEF Load
<1>2. ASSUME Open(r) PROVE RecordInv'
  <2>1. peer[r] = None /\ r \notin execReady /\ pc[r] = "open"
    BY <1>2, Unconnected DEF Open, Dialled
  <2>2. pc'[r] \in {"flock", "return"} /\ UNCHANGED <<dir, stateFile, locked, st, op, procVars>>
    BY <1>2 DEF Open, Goto, OpenLockFile
  <2>3. RuntimeInv(r)'
    BY <1>0, <2>1, <2>2 DEF RuntimeInv, CreateInv, LoadInv, FreshInv, SaveInv,
       ConnectedInv, Making, Fresh, Childless, Parenting, Loadable
  <2>4. Goto(r, "flock") \/ Goto(r, "return")
    BY <1>2 DEF Open
  <2> QED
    BY <2>1, <2>2, <2>3, <2>4, LocalRecord DEF Making, Childless, Parenting
<1>3. ASSUME Lock(r) PROVE RecordInv'
  <2>1. peer[r] = None /\ r \notin execReady /\ pc[r] = "flock"
    BY <1>3, Unconnected DEF Lock, Dialled
  <2>2. /\ UNCHANGED <<dir, stateFile, st, op, procVars>>
        /\ \A s \in Runtimes \ {r} : s \in locked => s \in locked'
    BY <1>3 DEF Lock, Flock
  <2>3. PICK to \in {"save", "reload", "return"} :
            Goto(r, to) /\ (to = "save" => op[r] = "create") /\ (to = "reload" => op[r] # "create")
    BY <1>3 DEF Lock
  <2>4. RuntimeInv(r)'
    BY <1>0, <2>1, <2>2, <2>3 DEF Goto, RuntimeInv, CreateInv, LoadInv, FreshInv, SaveInv,
       ConnectedInv, Making, Fresh, Childless, Parenting, Loadable
  <2>5. op[r] = "create" => Making(r) /\ st[r] = Creating
    BY <1>0, <2>1 DEF RuntimeInv, CreateInv, Making, Childless
  <2> QED
    BY <2>1, <2>2, <2>3, <2>4, <2>5, LocalRecord DEF Creating
<1>4. ASSUME Reload(r) PROVE RecordInv'
  <2>1. op[r] # "create" /\ peer[r] = None /\ r \notin execReady /\ pc[r] = "reload"
    BY <1>4, Unconnected DEF Reload, Local, ControlInv, Dialled
  <2>2. stateFile \in State /\ Loadable /\ st[r].pid \in {None, stateFile.pid}
    BY <1>0, <2>1 DEF RuntimeInv, LoadInv, StateDirTypeOK
  <2>3. Unmarshalled(st[r]) = stateFile
    BY <2>2 DEF Unmarshalled, State
  <2>4. st' = [st EXCEPT ![r] = stateFile] /\ Local(r, "reload", AfterReload(op[r]))
    BY <1>4, <2>2, <2>3 DEF Reload
  <2>5. st'[r] = stateFile /\ pc'[r] = AfterReload(op[r])
    BY <2>4 DEF Local, Goto
  <2>6. AfterReload(op[r]) \in {"prestart", "isProcessDead", "kill", "freeze", "thaw", "return"}
    BY DEF AfterReload
  <2>7. RuntimeInv(r)'
    BY <2>1, <2>2, <2>4, <2>5, <2>6 DEF Local, RuntimeInv, CreateInv, LoadInv, FreshInv, SaveInv,
       ConnectedInv, Making, Fresh, Childless, Parenting, Loadable
  <2> QED
    BY <2>1, <2>4, <2>7, LocalRecord DEF Local
<1> QED
  BY <1>1, <1>2, <1>3, <1>4

(* The end of a command.                                                   *)
LEMMA EndRecord ==
  ASSUME Types, ControlInv, RecordInv, UNCHANGED hasProcess, NEW r \in Runtimes, End(r)
  PROVE  RecordInv'
<1> USE DEF End, CloseConnections, Unlock, Goto, Types, ContainerTypeOK, InitProcessTypeOK
<1>1. RuntimeInv(r)'
  BY Aside DEF Fresh, Childless, Parenting
<1>2. MessageInv'
  <2>1. \A p \in Pids : conn'[p].cli = IF conn[p].cli = r THEN None ELSE conn[p].cli
    BY DEF Conn
  <2> QED
    BY <2>1, StateDirAssumption DEF RecordInv, MessageInv
<1>3. \A p \in Pids : Onward(p)
  BY QuietOnward
<1>4. ~Making(r)'
  BY DEF Making, Childless, Parenting
<1> QED
  BY <1>1, <1>2, <1>3, <1>4, Assemble

(* An invocation.                                                          *)
LEMMA BeginRecord ==
  ASSUME Types, ControlInv, RecordInv, UNCHANGED hasProcess, NEW r \in Runtimes,
         NEW o \in Ops, Begin(r, o)
  PROVE  RecordInv'
<1>1. peer[r] = None /\ r \notin execReady
  BY Unconnected DEF Begin, Dialled
<1>2. pc'[r] \in {"exists", "load"} /\ \A s \in Runtimes \ {r} : pc'[s] = pc[s] /\ op'[s] = op[s]
  BY DEF Begin, Goto, Types, ContainerTypeOK
<1>3. RuntimeInv(r)'
  BY <1>1, <1>2, Aside DEF Begin, Fresh, Childless, Parenting
<1>4. MessageInv' /\ \A p \in Pids : Onward(p)
  BY QuietMessages, QuietOnward DEF RecordInv, Begin
<1>5. ~Making(r)'
  BY <1>2 DEF Making, Childless, Parenting
<1> QED
  BY <1>2, <1>3, <1>4, <1>5, Assemble DEF Begin

(* Nobody else holds the lock, and so nobody else has gone past it.        *)
LEMMA Alone ==
  ASSUME ControlInv, LockInv, NEW r \in Runtimes, NEW s \in Runtimes, s # r,
         pc[r] \notin Unopened \cup {"flock", "return"}
  PROVE  s \notin locked /\ pc[s] \in Unopened \cup {"flock", "return"}
  BY DEF ControlInv, LockInv, ExclusiveLock

(* While delete takes the directory apart, nothing else runs.              *)
LEMMA DeleterAlone ==
  ASSUME LockInv, NEW r \in Runtimes, pc[r] \in Deleting
  PROVE  /\ op[r] = "delete"
         /\ \A s \in Runtimes \ {r} : pc[s] = "idle"
  BY DEF LockInv, DeleteAlone, DeletingIsDelete, Deleting

(* What save writes is a record of the process that the file named, or of  *)
(* the one that create forked.                                             *)
SavedInv(r) ==
    \/ st[r] = Creating /\ stateFile = NoState
    \/ st[r].status = "created" /\ stateFile = Creating
    \/ /\ stateFile.pid # None
       /\ st[r].pid = stateFile.pid
       /\ st[r].status \in {"running", "paused", "stopped"}

(* What a command that is about to save knows.                             *)
LEMMA SavingRecord ==
  ASSUME Types, RecordInv, ControlInv, NEW r \in Runtimes, pc[r] = "save"
  PROVE  /\ SavedInv(r)
         /\ st[r] # NoState
         /\ st[r].status \in {"created", "running", "paused", "stopped"} =>
               st[r].pid # None /\ proc[st[r].pid] \notin SettingUp
         /\ st[r].status \in {"running", "paused"} => Initialised(st[r].pid)
         /\ st[r].status = "stopped" /\ hasProcess => ~Alive(st[r].pid)
         /\ op[r] = "create" => st[r].status \in {"creating", "created"}
         /\ op[r] # "create" => stateFile.pid # None
         /\ sock \in {None, st[r].pid} \/ st[r] = Creating
<1> USE DEF Types, ContainerTypeOK, StateDirTypeOK
<1>0. RuntimeInv(r) /\ PhaseInv /\ FileInv /\ SockInv
  BY DEF RecordInv
<1>1. CASE op[r] = "create"
  BY <1>0, <1>1 DEF RuntimeInv, CreateInv, Making, SavedInv, Creating, NoState, SockInv
<1>2. CASE op[r] # "create"
  <2>1. /\ stateFile.pid # None /\ st[r].pid = stateFile.pid
        /\ st[r].status \in {"running", "paused", "stopped"}
    BY <1>0, <1>2 DEF RuntimeInv, SaveInv, ControlInv
  <2>2. sock \in {None, st[r].pid} /\ proc[st[r].pid] \notin SettingUp
    BY <1>0, <2>1 DEF SockInv, PhaseInv
  <2>3. st[r].status \in {"running", "paused"} => Initialised(st[r].pid)
    BY <1>0, <1>2, <2>1 DEF RuntimeInv, SaveInv, PhaseInv, ControlInv
  <2>4. st[r].status = "stopped" /\ hasProcess => ~Alive(st[r].pid)
    BY <1>0, <1>2, <2>1 DEF RuntimeInv, SaveInv, ControlInv
  <2> QED
    BY <1>2, <2>1, <2>2, <2>3, <2>4 DEF SavedInv, NoState
<1> QED
  BY <1>1, <1>2

(* Saving the state.                                                       *)
LEMMA SaveRecord ==
  ASSUME Types, ControlInv, LockInv, RecordInv, UNCHANGED hasProcess, NEW r \in Runtimes, Save(r)
  PROVE  RecordInv'
<1> USE DEF Types, ContainerTypeOK, StateDirTypeOK
<1>0. pc[r] = "save" /\ UNCHANGED <<op, st, lockVars, procVars>> /\ r \in locked
  BY DEF Save, ControlInv, Unopened
<1>1. ASSUME NEW to, Goto(r, to), to \in {"fork", "poststart", "deleteCgroup", "return"},
             to = "fork" => op[r] = "create" /\ st[r].status = "creating",
             to = "poststart" => op[r] = "start",
             to = "deleteCgroup" => op[r] = "delete",
             to = "fork" => stateFile' = st[r],
             dir, UNCHANGED dir,
             stateFile' = st[r] \/ stateFile' = stateFile
      PROVE  RecordInv'
  <2>1. /\ pc'[r] = to
        /\ \A s \in Runtimes \ {r} : pc'[s] = pc[s]
    BY <1>1 DEF Goto
  <2>2. \A s \in Runtimes \ {r} : s \notin locked /\ pc[s] \in Unopened \cup {"flock", "return"}
    BY <1>0, Alone DEF Unopened
  <2>3. /\ SavedInv(r) /\ st[r] # NoState
        /\ st[r].status \in {"created", "running", "paused", "stopped"} =>
               st[r].pid # None /\ proc[st[r].pid] \notin SettingUp
        /\ st[r].status \in {"running", "paused"} => Initialised(st[r].pid)
        /\ st[r].status = "stopped" /\ hasProcess => ~Alive(st[r].pid)
        /\ op[r] = "create" => st[r].status \in {"creating", "created"}
        /\ op[r] # "create" => stateFile.pid # None
        /\ sock \in {None, st[r].pid} \/ st[r] = Creating
    BY <1>0, SavingRecord
  <2>4. FileInv'
    BY <1>1, <2>3 DEF RecordInv, FileInv, Loadable, SavedInv, Creating
  <2>5. OneMaker'
    BY <1>0, <1>1, <2>1 DEF RecordInv, OneMaker, Making
  <2>6. MessageInv'
    BY <1>0, QuietMessages DEF RecordInv
  <2>7. SockInv'
    <3>1. \A s \in Runtimes : ~(Making(s)' /\ pc'[s] \in Parenting \cup {"save"})
      BY <1>0, <1>1, <2>1, <2>2 DEF Making, Parenting, Unopened
    <3>2. (stateFile.pid # None => sock \in {None, stateFile.pid})'
      BY <1>0, <1>1, <2>3 DEF RecordInv, SockInv, Creating
    <3> QED
      BY <3>1, <3>2 DEF SockInv
  <2>8. PhaseInv'
    <3>0. PhaseInv /\ FileInv
      BY DEF RecordInv
    <3>1. CASE stateFile' = stateFile
      BY <1>0, <3>0, <3>1 DEF PhaseInv, StoppedIsDead, Initialised, Alive
    <3>2. CASE stateFile' = st[r]
      <4>1. st[r].status \in Status /\ (st[r].status \in {"none", "creating"} => st[r].pid = None)
        BY <2>3 DEF SavedInv, Creating, State
      <4> QED
        BY <1>0, <2>3, <3>2, <4>1 DEF PhaseInv, StoppedIsDead, Initialised, Alive, Status
    <3> QED
      BY <1>1, <3>1, <3>2
  <2>9. RuntimeInv(r)'
    <3>1. CreateInv(r)'
      BY <1>0, <1>1, <2>1, <2>3 DEF CreateInv, Making, Parenting, Childless, SavedInv, Creating
    <3>2. LoadInv(r)' /\ FreshInv(r)' /\ SaveInv(r)'
      BY <1>1, <2>1 DEF LoadInv, FreshInv, SaveInv, Fresh
    <3>3. ConnectedInv(r)'
      <4>1. ConnectedInv(r)
        BY DEF RecordInv, RuntimeInv
      <4>2. CASE op[r] # "start"
        BY <1>0, <4>1, <4>2 DEF ConnectedInv
      <4>3. CASE op[r] = "start"
        <5>1. st[r].pid = stateFile.pid
          BY <1>0, <4>3 DEF RecordInv, RuntimeInv, SaveInv
        <5> QED
          BY <1>0, <1>1, <2>1, <4>1, <4>3, <5>1 DEF ConnectedInv, Dialled, Initialised
      <4> QED
        BY <4>2, <4>3
    <3> QED
      BY <3>1, <3>2, <3>3 DEF RuntimeInv
  <2>10. ASSUME NEW s \in Runtimes \ {r} PROVE RuntimeInv(s)'
    <3>0. RuntimeInv(s) /\ pc'[s] = pc[s] /\ pc[s] \in Unopened \cup {"flock", "return"} /\ s \notin locked
      BY <2>1, <2>2, <2>10 DEF RecordInv
    <3>1. CreateInv(s)'
      <4> SUFFICES ASSUME Making(s) PROVE FALSE
        BY <1>0, <3>0 DEF CreateInv, Making
      <4>1. stateFile = NoState
        BY <3>0 DEF RuntimeInv, CreateInv, Making, Unopened, Childless, Parenting
      <4>2. op[r] = "create"
        BY <2>3, <4>1 DEF NoState
      <4> QED
        BY <1>0, <2>10, <4>2 DEF RecordInv, OneMaker, Making
    <3>2. LoadInv(s)'
      <4>1. stateFile.pid \in {None, stateFile'.pid}
        BY <1>1, <2>3 DEF SavedInv, Creating, NoState
      <4>2. Loadable => Loadable'
        BY <1>1, <2>3 DEF Loadable
      <4> QED
        BY <1>0, <3>0, <4>1, <4>2 DEF LoadInv, RuntimeInv
    <3>3. FreshInv(s)' /\ SaveInv(s)'
      BY <3>0 DEF FreshInv, SaveInv, Fresh, Unopened
    <3>4. ConnectedInv(s)'
      BY <1>0, <3>0 DEF RuntimeInv, ConnectedInv
    <3> QED
      BY <3>1, <3>2, <3>3, <3>4 DEF RuntimeInv
  <2> QED
    BY <2>4, <2>5, <2>6, <2>7, <2>8, <2>9, <2>10 DEF RecordInv
<1>2. CASE WriteState(st[r]) /\ Goto(r, AfterSave(r))
  <2>1. /\ AfterSave(r) \in {"fork", "poststart", "deleteCgroup", "return"}
        /\ AfterSave(r) = "fork" => op[r] = "create" /\ st[r].status = "creating"
        /\ AfterSave(r) = "poststart" => op[r] = "start"
        /\ AfterSave(r) = "deleteCgroup" => op[r] = "delete"
    BY DEF AfterSave
  <2> QED
    BY <1>1, <1>2, <2>1 DEF WriteState
<1>3. CASE Goto(r, AfterFailedSave(r)) /\ UNCHANGED dirVars
  <2>1. dir
    <3>1. CreateInv(r) /\ FileInv /\ (op[r] # "create" => Loadable)
      <4>1. op[r] # "create" => stateFile.pid # None
        BY <1>0, SavingRecord
      <4> QED
        BY <4>1 DEF RecordInv, RuntimeInv, Loadable, NoState
    <3> QED
      BY <1>0, <3>1 DEF CreateInv, Making, FileInv
  <2> QED
    BY <1>1, <1>3, <2>1 DEF AfterFailedSave
<1> QED
  BY <1>2, <1>3 DEF Save

(* A step to the end of a command that leaves the processes alone.         *)
LEMMA ReturnRecord ==
  ASSUME Types, ControlInv, RecordInv, UNCHANGED hasProcess, NEW r \in Runtimes,
         Goto(r, "return"), UNCHANGED <<op, st, dir, stateFile, locked, procVars>>,
         pc[r] \notin {"idle", "return"}
  PROVE  RecordInv'
<1>1. \A p \in Pids : Onward(p)
  BY QuietOnward
<1>2. pc'[r] = "return"
  BY DEF Goto, Types, ContainerTypeOK
<1>3. pc[r] \in Dialled => r \in locked
  BY DEF ControlInv, Dialled, Unopened
<1>4. RuntimeInv(r)'
  BY <1>1, <1>2, <1>3, Returning
<1> QED
  BY <1>4, LocalRecord DEF Childless, Parenting

(* create up to its fork.                                                  *)
LEMMA MkdirRecord ==
  ASSUME Types, ControlInv, RecordInv, UNCHANGED hasProcess, NEW r \in Runtimes,
         CreateContainerDirs(r)
  PROVE  RecordInv'
<1> USE DEF Types, ContainerTypeOK, StateDirTypeOK
<1>0. peer[r] = None /\ r \notin execReady /\ pc[r] = "mkdir" /\ op[r] = "create"
  BY Unconnected DEF CreateContainerDirs, Dialled, ControlInv
<1>1. CASE Goto(r, "return") /\ UNCHANGED dirVars
  BY <1>0, <1>1, ReturnRecord DEF CreateContainerDirs
<1>2. CASE Mkdir /\ Goto(r, "new")
  <2>1. ~dir /\ dir' /\ stateFile = NoState /\ UNCHANGED <<op, st, stateFile, locked, procVars>>
    BY <1>2 DEF CreateContainerDirs, Mkdir, RecordInv, FileInv, Loadable
  <2>2. \A s \in Runtimes : ~Making(s)
    BY <2>1 DEF RecordInv, RuntimeInv, CreateInv
  <2>3. pc'[r] = "new" /\ \A s \in Runtimes \ {r} : pc'[s] = pc[s]
    BY <1>2 DEF Goto
  <2>4. \A s \in Runtimes \ {r} : ~Making(s)'
    BY <2>1, <2>2, <2>3 DEF Making
  <2>5. RuntimeInv(r)'
    BY <1>0, <2>1, <2>3 DEF RuntimeInv, CreateInv, LoadInv, FreshInv, SaveInv, ConnectedInv,
       Making, Fresh, Childless, Parenting
  <2>6. ASSUME NEW s \in Runtimes \ {r} PROVE RuntimeInv(s)'
    <3>0. RuntimeInv(s)
      BY <2>6 DEF RecordInv
    <3>1. LoadInv(s)' /\ FreshInv(s)' /\ SaveInv(s)'
      BY <2>1, <2>3, <3>0 DEF RuntimeInv, LoadInv, FreshInv, SaveInv, Loadable, Initialised, Alive
    <3>2. ConnectedInv(s)'
      BY <2>1, <2>3, <3>0 DEF RuntimeInv, ConnectedInv, Initialised
    <3> QED
      BY <2>4, <3>1, <3>2 DEF RuntimeInv, CreateInv
  <2>7. FileInv' /\ OneMaker' /\ SockInv' /\ PhaseInv'
    <3>1. FileInv' /\ PhaseInv'
      BY <2>1 DEF RecordInv, FileInv, PhaseInv, StoppedIsDead, Initialised, Alive, Loadable
    <3>2. OneMaker'
      BY <2>4 DEF OneMaker
    <3>3. SockInv'
      BY <2>1, <2>3, <2>4 DEF RecordInv, SockInv, NoState, Parenting
    <3> QED
      BY <3>1, <3>2, <3>3
  <2>8. MessageInv'
    BY <2>1, QuietMessages DEF RecordInv
  <2> QED
    BY <2>5, <2>6, <2>7, <2>8 DEF RecordInv
<1> QED
  BY <1>1, <1>2 DEF CreateContainerDirs

(* The fork: the pid it gets is nobody's, and the file names none.         *)
LEMMA ForkRecord ==
  ASSUME Types, ControlInv, LockInv, RecordInv, UNCHANGED hasProcess, NEW r \in Runtimes, Fork(r)
  PROVE  RecordInv'
<1> USE DEF Types, ContainerTypeOK, StateDirTypeOK, InitProcessTypeOK
<1>0. /\ pc[r] = "fork" /\ op[r] = "create" /\ peer[r] = None /\ r \notin execReady /\ r \in locked
      /\ st[r] = Creating /\ stateFile = Creating /\ Making(r) /\ dir
  <2>1. pc[r] = "fork" /\ op[r] = "create" /\ r \in locked
    BY DEF Fork, ControlInv, Unopened
  <2> QED
    BY <2>1, Unconnected DEF Dialled, RecordInv, RuntimeInv, CreateInv, Making
<1>1. PICK p \in Pids : /\ proc[p] = "free"
                        /\ proc' = [proc EXCEPT ![p] = "boot"]
                        /\ initSock' = [initSock EXCEPT ![p] = <<>>]
                        /\ sock' = p
                        /\ st' = [st EXCEPT ![r].pid = p]
  BY DEF Fork
<1>2. /\ UNCHANGED <<dir, stateFile, locked, op, conn, peer, execReady>>
      /\ pc'[r] = "createCgroup" /\ \A s \in Runtimes \ {r} : pc'[s] = pc[s]
  BY DEF Fork, Goto
<1>3. st'[r].status = "creating" /\ st'[r].pid = p /\ p # None
      /\ \A s \in Runtimes \ {r} : st'[s] = st[s]
  BY <1>0, <1>1, StateDirAssumption DEF Creating, State
<1>4. \A s \in Runtimes \ {r} : s \notin locked
  BY <1>0, Alone DEF Unopened
<1>5. \A s \in Runtimes \ {r} : RuntimeInv(s)'
  BY <1>2, <1>3, <1>4, Bystander
<1>6. RuntimeInv(r)'
  BY <1>0, <1>2, <1>3 DEF RuntimeInv, CreateInv, LoadInv, FreshInv, SaveInv, ConnectedInv,
     Making, Fresh, Childless, Parenting
<1>7. MessageInv'
  BY <1>1, <1>2 DEF RecordInv, MessageInv
<1>8. \A s \in Runtimes \ {r} : ~Making(s)'
  BY <1>0, <1>2 DEF RecordInv, OneMaker, Making
<1>9. FileInv' /\ OneMaker'
  BY <1>2, <1>8 DEF RecordInv, FileInv, OneMaker, Loadable
<1>10. SockInv'
  BY <1>0, <1>1, <1>2, <1>3, <1>8 DEF SockInv, Creating
<1>11. PhaseInv'
  BY <1>0, <1>2 DEF PhaseInv, StoppedIsDead, Creating
<1> QED
  BY <1>5, <1>6, <1>7, <1>9, <1>10, <1>11 DEF RecordInv

(* Reading the only message that is there.                                 *)
LEMMA OnlyMessage ==
  Head(<<"PrePivot">>) = "PrePivot" /\ Tail(<<"PrePivot">>) = <<>>
  OBVIOUS

(* The rest of create.                                                     *)
LEMMA CreateRecord ==
  ASSUME Types, ControlInv, LockInv, RecordInv, UNCHANGED hasProcess, NEW r \in Runtimes, Create(r)
  PROVE  RecordInv'
<1> USE DEF Types, ContainerTypeOK, StateDirTypeOK, InitProcessTypeOK
<1>0. RuntimeInv(r) /\ MessageInv
  BY DEF RecordInv
<1>1. CASE CreateExists(r)
  <2>1. pc[r] = "exists" /\ peer[r] = None /\ r \notin execReady
    BY <1>1, Unconnected DEF CreateExists, Local, Dialled
  <2>2. PICK to \in {"mkdir", "return"} : Local(r, "exists", to) /\ UNCHANGED st
    BY <1>1 DEF CreateExists
  <2>3. RuntimeInv(r)'
    BY <2>1, <2>2, Aside DEF Local, Goto, Fresh, Childless, Parenting
  <2> QED
    BY <2>2, <2>3, LocalRecord DEF Local, Childless, Parenting
<1>2. CASE CreateContainerDirs(r)
  BY <1>2, MkdirRecord
<1>3. CASE New(r)
  <2>0. pc[r] = "new" /\ op[r] = "create" /\ peer[r] = None /\ r \notin execReady /\ Making(r)
    <3>1. pc[r] = "new" /\ op[r] = "create"
      BY <1>3 DEF New, Local, ControlInv
    <3> QED
      BY <3>1, Unconnected DEF Dialled, Making, Childless
  <2>1. CASE Local(r, "new", "return") /\ UNCHANGED st
    BY <2>0, <2>1, ReturnRecord DEF Local
  <2>2. CASE Local(r, "new", "open") /\ st' = [st EXCEPT ![r] = Creating]
    <3>1. RuntimeInv(r)'
      BY <1>0, <2>0, <2>2 DEF Local, Goto, RuntimeInv, CreateInv, LoadInv, FreshInv, SaveInv,
         ConnectedInv, Making, Fresh, Childless, Parenting
    <3> QED
      BY <2>0, <2>2, <3>1, LocalRecord DEF Local, Parenting
  <2> QED
    BY <1>3, <2>1, <2>2 DEF New, Creating
<1>4. CASE Fork(r)
  BY <1>4, ForkRecord
<1>5. CASE ForkFails(r)
  <2>1. /\ pc'[r] = "return" /\ pc[r] = "fork" /\ \A s \in Runtimes \ {r} : pc'[s] = pc[s]
        /\ UNCHANGED <<op, st, dir, stateFile, locked, proc, initSock, conn, peer, execReady>>
        /\ sock' \in {sock, None}
    BY <1>5 DEF ForkFails, Goto
  <2>2. MessageInv' /\ \A p \in Pids : Onward(p)
    BY <1>0, <2>1, QuietMessages, QuietOnward
  <2>3. RuntimeInv(r)'
    BY <2>1, <2>2, Returning DEF Dialled
  <2>4. ~Making(r)'
    BY <2>1 DEF Making, Childless, Parenting
  <2> QED
    BY <2>1, <2>2, <2>3, <2>4, Assemble
<1>6. CASE CreateCgroup(r)
  <2>1. /\ pc[r] = "createCgroup" /\ \A s \in Runtimes \ {r} : pc'[s] = pc[s]
        /\ UNCHANGED <<op, st, dir, stateFile, locked, proc, initSock, conn, peer, execReady, sock>>
        /\ pc'[r] \in {"recvPrePivot", "return"}
    BY <1>6 DEF CreateCgroup, Goto
  <2>2. MessageInv' /\ \A p \in Pids : Onward(p)
    BY <1>0, <2>1, QuietMessages, QuietOnward
  <2>3. RuntimeInv(r)'
    BY <1>0, <2>1 DEF RuntimeInv, CreateInv, LoadInv, FreshInv, SaveInv, ConnectedInv,
       Making, Fresh, Childless, Parenting, Dialled
  <2>4. Making(r)' => Making(r)
    BY <2>1 DEF Making, Childless, Parenting
  <2> QED
    BY <2>1, <2>2, <2>3, <2>4, Assemble DEF Parenting
<1>7. CASE CreateRuntimeHooks(r)
  <2>1. PICK to \in {"recvReady", "return"} : Local(r, "createRuntime", to) /\ UNCHANGED st
    BY <1>7 DEF CreateRuntimeHooks
  <2>2. RuntimeInv(r)'
    BY <1>0, <2>1 DEF Local, Goto, RuntimeInv, CreateInv, LoadInv, FreshInv, SaveInv, ConnectedInv,
       Making, Fresh, Childless, Parenting, Dialled
  <2> QED
    BY <2>1, <2>2, LocalRecord DEF Local, Making, Parenting
<1>8. CASE RecvPrePivot(r) \/ RecvReady(r)
  <2>0. pc[r] \in {"recvPrePivot", "recvReady"} /\ op[r] = "create" /\ Making(r)
        /\ peer[r] = None /\ r \notin execReady
    <3>1. pc[r] \in {"recvPrePivot", "recvReady"} /\ op[r] = "create"
      BY <1>8 DEF RecvPrePivot, RecvReady, RecvInit, ControlInv, Parenting
    <3> QED
      BY <3>1, Unconnected DEF Making, Parenting, Dialled
  <2>1. stateFile = Creating /\ st[r].status = "creating" /\ st[r].pid \in Pids /\ dir
    BY <1>0, <2>0 DEF RuntimeInv, CreateInv, Parenting, State
  <2>2. /\ initSock[st[r].pid] # <<>>
        /\ initSock' = [initSock EXCEPT ![st[r].pid] = Tail(@)]
        /\ UNCHANGED <<op, dir, stateFile, locked, proc, conn, sock, peer, execReady>>
        /\ \A s \in Runtimes \ {r} : pc'[s] = pc[s]
    BY <1>8 DEF RecvPrePivot, RecvReady, RecvInit, Goto
  <2>3. MessageInv'
    <3>1. \A p \in Pids : proc[p] \in SettingUp => initSock'[p] \in {<<>>, <<"PrePivot">>}
      <4>1. \A p \in Pids : p # st[r].pid => initSock'[p] = initSock[p]
        BY <2>2
      <4>2. proc[st[r].pid] \in SettingUp => initSock'[st[r].pid] = <<>>
        <5>1. initSock'[st[r].pid] = Tail(initSock[st[r].pid])
          BY <2>1, <2>2
        <5>2. proc[st[r].pid] \in SettingUp => initSock[st[r].pid] = <<"PrePivot">>
          BY <1>0, <2>1, <2>2 DEF MessageInv
        <5> QED
          BY <5>1, <5>2, OnlyMessage
      <4> QED
        BY <1>0, <4>1, <4>2 DEF MessageInv
    <3> QED
      BY <1>0, <2>2, <3>1 DEF MessageInv
  <2>4. \/ pc'[r] \in {"createRuntime", "return"} /\ st' = st
        \/ /\ pc'[r] = "save" /\ Head(initSock[st[r].pid]) = "Ready"
           /\ st' = [st EXCEPT ![r].status = "created"]
    BY <1>8 DEF RecvPrePivot, RecvReady, RecvInit, Goto
  <2>5. Head(initSock[st[r].pid]) = "Ready" => proc[st[r].pid] \notin SettingUp
    <3>1. proc[st[r].pid] \in SettingUp => initSock[st[r].pid] = <<"PrePivot">>
      BY <1>0, <2>1, <2>2 DEF MessageInv
    <3> QED
      BY <3>1, OnlyMessage
  <2>6. st'[r].pid = st[r].pid /\ \A s \in Runtimes \ {r} : st'[s] = st[s]
    BY <2>4 DEF State
  <2>7. RuntimeInv(r)'
    <3>1. CreateInv(r)'
      BY <2>0, <2>1, <2>2, <2>4, <2>5, StateDirAssumption DEF CreateInv, Making, Childless,
         Parenting, State
    <3> QED
      BY <2>0, <2>2, <2>4, <3>1 DEF RuntimeInv, LoadInv, FreshInv, SaveInv, ConnectedInv, Fresh
  <2>8. \A p \in Pids : Onward(p)
    BY <2>2, QuietOnward
  <2> QED
    BY <2>0, <2>2, <2>3, <2>6, <2>7, <2>8, Assemble DEF Parenting
<1> QED
  BY <1>1, <1>2, <1>3, <1>4, <1>5, <1>6, <1>7, <1>8 DEF Create
(* start.                                                                  *)
LEMMA StartRecord ==
  ASSUME Types, ControlInv, LockInv, RecordInv, UNCHANGED hasProcess, NEW r \in Runtimes, Start(r)
  PROVE  RecordInv'
<1> USE DEF Types, ContainerTypeOK, StateDirTypeOK, InitProcessTypeOK
<1>0. RuntimeInv(r) /\ MessageInv /\ FileInv /\ SockInv /\ PhaseInv
  BY DEF RecordInv
<1>1. CASE PrestartHooks(r)
  <2>1. PICK to \in {"dial", "return"} :
            Local(r, "prestart", to) /\ UNCHANGED st /\ (to = "dial" => st[r].status = "created")
    BY <1>1 DEF PrestartHooks, canBeStarted
  <2>2. op[r] = "start"
    BY <2>1 DEF Local, ControlInv
  <2>3. RuntimeInv(r)'
    BY <1>0, <2>1, <2>2 DEF Local, Goto, RuntimeInv, CreateInv, LoadInv, FreshInv, SaveInv,
       ConnectedInv, Making, Fresh, Dialled, Loadable
  <2> QED
    BY <2>1, <2>2, <2>3, LocalRecord DEF Local
<1>2. CASE Dial(r)
  <2>0. /\ pc[r] = "dial" /\ op[r] = "start" /\ r \in locked
        /\ peer[r] = None /\ r \notin execReady
        /\ st[r] = stateFile /\ st[r].status = "created" /\ stateFile.pid # None /\ Loadable
    <3>1. pc[r] = "dial" /\ op[r] = "start" /\ r \in locked
      BY <1>2 DEF Dial, ControlInv, Unopened
    <3> QED
      BY <1>0, <3>1, Unconnected DEF RuntimeInv, FreshInv, Fresh, FileInv, Dialled
  <2>1. CASE sock = None /\ Goto(r, "return") /\ UNCHANGED <<peer, conn>>
    BY <1>2, <2>0, <2>1, ReturnRecord DEF Dial
  <2>2. CASE /\ sock # None
             /\ peer' = [peer EXCEPT ![r] = sock]
             /\ conn' = IF conn[sock].used THEN conn
                        ELSE [conn EXCEPT ![sock] = [used |-> TRUE, cli |-> r, start |-> FALSE]]
             /\ Goto(r, "sendStart")
    <3>1. /\ UNCHANGED <<op, st, dir, stateFile, locked, proc, initSock, sock, execReady>>
          /\ pc'[r] = "sendStart" /\ \A s \in Runtimes \ {r} : pc'[s] = pc[s]
      BY <1>2, <2>2 DEF Dial, Goto
    <3>2. sock = stateFile.pid /\ sock \in Pids
      BY <1>0, <2>0, <2>2 DEF SockInv
    <3>3. peer'[r] = sock /\ \A s \in Runtimes \ {r} : peer'[s] = peer[s]
      BY <2>2
    <3>4. \A p \in Pids : conn'[p].cli = conn[p].cli \/ (p = sock /\ conn'[p].cli = r)
      BY <2>2
    <3>5. ASSUME NEW p \in Pids PROVE conn[p].cli # r
      <4>1. conn[p].cli = r => peer[r] = p
        BY <1>0 DEF MessageInv
      <4> QED
        BY <2>0, <4>1, StateDirAssumption
    <3>6. MessageInv'
      <4>1. ASSUME NEW p \in Pids, NEW s \in Runtimes, conn'[p].cli = s PROVE peer'[s] = p
        <5>1. CASE p = sock /\ s = r
          BY <3>3, <5>1
        <5>2. CASE conn[p].cli = s
          BY <1>0, <3>3, <3>5, <5>2 DEF MessageInv
        <5> QED
          BY <3>4, <4>1, <5>1, <5>2
      <4> QED
        BY <1>0, <3>1, <4>1 DEF MessageInv
    <3>7. RuntimeInv(r)'
      BY <2>0, <3>1, <3>2, <3>3 DEF RuntimeInv, CreateInv, LoadInv, FreshInv, SaveInv,
         ConnectedInv, Making, Fresh, Dialled, Loadable
    <3>8. \A p \in Pids : Onward(p)
      BY <3>1, QuietOnward
    <3>9. ~Making(r)'
      BY <2>0, <3>1 DEF Making
    <3> QED
      BY <3>1, <3>3, <3>6, <3>7, <3>8, <3>9, Assemble
  <2> QED
    BY <1>2, <2>1, <2>2 DEF Dial
<1>3. CASE SendStart(r)
  <2>0. /\ pc[r] = "sendStart" /\ op[r] = "start" /\ r \in locked
        /\ st[r] = stateFile /\ st[r].status = "created" /\ stateFile.pid # None /\ Loadable
    <3>1. pc[r] = "sendStart" /\ op[r] = "start" /\ r \in locked
      BY <1>3 DEF SendStart, ControlInv, Unopened
    <3> QED
      BY <1>0, <3>1 DEF RuntimeInv, FreshInv, Fresh, FileInv
  <2>1. CASE peer[r] = None /\ Goto(r, "return") /\ UNCHANGED <<conn, st>>
    BY <1>3, <2>0, <2>1, ReturnRecord DEF SendStart
  <2>2. CASE peer[r] # None
    <3>1. /\ UNCHANGED <<op, dir, stateFile, locked, proc, initSock, sock, peer, execReady>>
          /\ \A s \in Runtimes \ {r} : pc'[s] = pc[s] /\ st'[s] = st[s]
          /\ \/ hasProcess /\ pc'[r] = "recvExecReady" /\ st'[r] = st[r]
             \/ ~hasProcess /\ pc'[r] = "save" /\ st'[r].status = "stopped" /\ st'[r].pid = st[r].pid
      BY <1>3, <2>2 DEF SendStart, Goto, State
    <3>2. \A p \in Pids : conn'[p].cli = conn[p].cli
      <4> DEFINE q == peer[r]
      <4>1. q \in Pids
        BY <2>2
      <4>2. conn' = conn \/ conn' = [conn EXCEPT ![q] = [conn[q] EXCEPT !.start = TRUE]]
        BY <1>3, <2>2 DEF SendStart
      <4>3. [conn[q] EXCEPT !.start = TRUE].cli = conn[q].cli
        BY <4>1 DEF Conn
      <4> HIDE DEF q
      <4> QED
        BY <4>1, <4>2, <4>3
    <3>3. MessageInv'
      BY <1>0, <3>1, <3>2 DEF MessageInv
    <3>4. RuntimeInv(r)'
      <4>1. CreateInv(r)' /\ LoadInv(r)'
        BY <2>0, <3>1 DEF CreateInv, LoadInv, Making
      <4>2. FreshInv(r)' /\ SaveInv(r)'
        BY <2>0, <3>1 DEF FreshInv, SaveInv, Fresh, Loadable
      <4>3. ConnectedInv(r)'
        BY <1>0, <2>0, <3>1 DEF RuntimeInv, ConnectedInv, Dialled, Initialised
      <4> QED
        BY <4>1, <4>2, <4>3 DEF RuntimeInv
    <3>5. \A p \in Pids : Onward(p)
      BY <3>1, QuietOnward
    <3>6. ~Making(r)'
      BY <2>0, <3>1 DEF Making
    <3> QED
      BY <3>1, <3>3, <3>4, <3>5, <3>6, Assemble
  <2> QED
    BY <1>3, <2>1, <2>2 DEF SendStart
<1>4. CASE RecvExecReady(r)
  <2>0. /\ pc[r] = "recvExecReady" /\ op[r] = "start" /\ r \in locked
        /\ st[r] = stateFile /\ st[r].status = "created" /\ stateFile.pid # None /\ Loadable
    <3>1. pc[r] = "recvExecReady" /\ op[r] = "start" /\ r \in locked
      BY <1>4 DEF RecvExecReady, ControlInv, Unopened
    <3> QED
      BY <1>0, <3>1 DEF RuntimeInv, FreshInv, Fresh, FileInv
  <2>1. CASE Goto(r, "return") /\ UNCHANGED <<execReady, st>>
    BY <1>4, <2>0, <2>1, ReturnRecord DEF RecvExecReady
  <2>2. CASE /\ r \in execReady
             /\ execReady' = execReady \ {r}
             /\ st' = [st EXCEPT ![r].status = "running"]
             /\ Goto(r, "save")
    <3>1. /\ UNCHANGED <<op, dir, stateFile, locked, proc, initSock, conn, sock, peer>>
          /\ pc'[r] = "save" /\ \A s \in Runtimes \ {r} : pc'[s] = pc[s] /\ st'[s] = st[s]
          /\ st'[r].status = "running" /\ st'[r].pid = st[r].pid
      BY <1>4, <2>2 DEF RecvExecReady, Goto, State
    <3>2. Initialised(stateFile.pid)
      BY <1>0, <2>2 DEF RuntimeInv, ConnectedInv
    <3>3. MessageInv' /\ \A p \in Pids : Onward(p)
      BY <1>0, <3>1, QuietMessages, QuietOnward
    <3>4. RuntimeInv(r)'
      <4>1. CreateInv(r)' /\ LoadInv(r)' /\ FreshInv(r)' /\ SaveInv(r)'
        BY <2>0, <3>1, <3>2 DEF CreateInv, LoadInv, Making, FreshInv, SaveInv, Fresh, Initialised
      <4>2. ConnectedInv(r)'
        BY <1>0, <2>0, <2>2, <3>1 DEF RuntimeInv, ConnectedInv, Dialled
      <4> QED
        BY <4>1, <4>2 DEF RuntimeInv
    <3>5. ~Making(r)'
      BY <2>0, <3>1 DEF Making
    <3> QED
      BY <2>2, <3>1, <3>3, <3>4, <3>5, Assemble
  <2> QED
    BY <1>4, <2>1, <2>2 DEF RecvExecReady
<1>5. CASE PoststartHooks(r)
  BY <1>5, ReturnRecord DEF PoststartHooks, Local
<1> QED
  BY <1>1, <1>2, <1>3, <1>4, <1>5 DEF Start

(* The check of the process in state and delete.                           *)
LEMMA CheckRecord ==
  ASSUME Types, ControlInv, RecordInv, UNCHANGED hasProcess, NEW r \in Runtimes, CheckProcess(r)
  PROVE  RecordInv'
<1> USE DEF Types, ContainerTypeOK, StateDirTypeOK
<1>0. /\ pc[r] = "isProcessDead" /\ op[r] \in {"state", "delete"}
      /\ peer[r] = None /\ r \notin execReady
      /\ st[r] = stateFile
  <2>1. pc[r] = "isProcessDead" /\ op[r] \in {"state", "delete"}
    BY DEF CheckProcess, Local, ControlInv
  <2> QED
    BY <2>1, Unconnected DEF RecordInv, RuntimeInv, FreshInv, Fresh, Dialled
<1>1. CASE Local(r, "isProcessDead", "save") /\ isProcessDead(st[r])
           /\ st' = [st EXCEPT ![r].status = "stopped"]
  <2>1. pc'[r] = "save" /\ st'[r].status = "stopped" /\ st'[r].pid = st[r].pid
        /\ \A s \in Runtimes \ {r} : st'[s] = st[s]
    BY <1>1 DEF Local, Goto, State
  <2>2. RuntimeInv(r)'
    BY <1>0, <1>1, <2>1 DEF Local, RuntimeInv, CreateInv, LoadInv, FreshInv, SaveInv,
       ConnectedInv, Making, Fresh, isProcessDead, Alive, Live, SettingUp, Waiting, Starting
  <2> QED
    BY <1>0, <1>1, <2>1, <2>2, LocalRecord DEF Local
<1>2. CASE Local(r, "isProcessDead", "return") /\ UNCHANGED st
  BY <1>2, ReturnRecord DEF Local
<1>3. CASE Local(r, "isProcessDead", "deleteCgroup") /\ UNCHANGED st
  <2>1. RuntimeInv(r)'
    BY <1>0, <1>3, Aside DEF Local, Goto, Fresh, Childless, Parenting
  <2> QED
    BY <1>0, <1>3, <2>1, LocalRecord DEF Local
<1> QED
  BY <1>1, <1>2, <1>3 DEF CheckProcess

(* The end of processes; one may report it before it goes.                 *)
LEMMA TerminateMessages ==
  ASSUME Types, MessageInv, NEW S, Terminate(S),
         \A p \in Pids : proc'[p] \in SettingUp => initSock'[p] = initSock[p]
  PROVE  MessageInv'
<1> USE DEF Types, InitProcessTypeOK
<1>1. \A p \in Pids : proc'[p] \in SettingUp => proc[p] \in SettingUp
  BY DEF Terminate, SettingUp
<1>2. \A p \in Pids : conn'[p].cli = IF p \in S THEN None ELSE conn[p].cli
  BY DEF Terminate, NoConn
<1>3. \A s \in Runtimes : peer'[s] = IF peer[s] \in S THEN None ELSE peer[s]
  BY DEF Terminate
<1> QED
  BY <1>1, <1>2, <1>3, StateDirAssumption DEF MessageInv

(* The end of processes, as others see it.                                 *)
LEMMA TerminateSeen ==
  ASSUME Types, NEW S, Terminate(S)
  PROVE  sock' \in {sock, None} /\ \A s \in Runtimes : peer'[s] \in {peer[s], None}
  BY DEF Terminate, Types, InitProcessTypeOK

(* kill.                                                                   *)
LEMMA KillRecord ==
  ASSUME Types, ControlInv, RecordInv, UNCHANGED hasProcess, NEW r \in Runtimes, Kill(r)
  PROVE  RecordInv'
<1> USE DEF Types, ContainerTypeOK
<1>0. pc[r] = "kill" /\ UNCHANGED <<op, st, dirVars, lockVars>> /\ Goto(r, "return")
      /\ pc'[r] = "return" /\ \A s \in Runtimes \ {r} : pc'[s] = pc[s]
  BY DEF Kill, Goto
<1>1. CASE UNCHANGED procVars
  BY <1>0, <1>1, ReturnRecord
<1>2. ASSUME NEW S, Terminate(S), UNCHANGED <<initSock, execReady>> PROVE RecordInv'
  <2>1. MessageInv' /\ (\A p \in Pids : Onward(p)) /\ sock' \in {sock, None}
        /\ \A s \in Runtimes : peer'[s] \in {peer[s], None}
    BY <1>2, TerminateMessages, TerminateOnward, TerminateSeen DEF RecordInv
  <2>2. RuntimeInv(r)'
    BY <1>0, <1>2, <2>1, Returning DEF Dialled
  <2>3. ~Making(r)'
    BY <1>0 DEF Making, Childless, Parenting
  <2> QED
    BY <1>0, <1>2, <2>1, <2>2, <2>3, Assemble
<1>3. CASE Signal({st[r].pid}) \/ Signal(cgroup)
  <2>1. CASE UNCHANGED <<proc, conn, peer, sock, cgroup>> /\ UNCHANGED <<parent, initSock, execReady, frozen>>
    BY <1>1, <2>1
  <2> QED
    BY <1>2, <1>3, <2>1 DEF Signal
<1> QED
  BY <1>1, <1>3 DEF Kill
(* os.RemoveAll: the file goes, and with it all that anybody knows.        *)
LEMMA RemoveRecord ==
  ASSUME Types, ControlInv, LockInv, RecordInv, UNCHANGED hasProcess, NEW r \in Runtimes,
         pc[r] \in Deleting, pc'[r] \in Deleting \cup {"return"},
         \A s \in Runtimes \ {r} : pc'[s] = pc[s],
         stateFile' \in {stateFile, NoState}, dir' = dir \/ stateFile' = NoState,
         UNCHANGED <<op, st, procVars>>
  PROVE  RecordInv'
<1>0. \A s \in Runtimes : peer[s] = None /\ s \notin execReady
  BY DeleterAlone, Unconnected DEF Dialled, Deleting
<1>1. \A s \in Runtimes : pc'[s] \in Deleting \cup {"idle", "return"}
  BY DeleterAlone
<1>2. \A s \in Runtimes : RuntimeInv(s)' /\ ~Making(s)'
  BY <1>0, <1>1, Aside DEF Fresh, Childless, Parenting, Deleting, Making
<1>3. MessageInv'
  BY QuietMessages DEF RecordInv
<1>4. FileInv' /\ SockInv' /\ PhaseInv' /\ OneMaker'
  <2>1. OneMaker'
    BY <1>2 DEF OneMaker
  <2>2. FileInv'
    BY DEF RecordInv, FileInv, Loadable, NoState
  <2>3. SockInv'
    BY <1>2 DEF RecordInv, SockInv, NoState
  <2>4. PhaseInv'
    BY DEF RecordInv, PhaseInv, StoppedIsDead, NoState, Initialised, Alive
  <2> QED
    BY <2>1, <2>2, <2>3, <2>4
<1> QED
  BY <1>2, <1>3, <1>4 DEF RecordInv

(* delete.                                                                 *)
LEMMA DeleteRecord ==
  ASSUME Types, ControlInv, LockInv, RecordInv, UNCHANGED hasProcess, NEW r \in Runtimes, Delete(r)
  PROVE  RecordInv'
<1> USE DEF Types, ContainerTypeOK
<1>0. ASSUME pc[r] \in Deleting PROVE op[r] = "delete" /\ peer[r] = None /\ r \notin execReady
  BY <1>0, DeleterAlone, Unconnected
<1>1. CASE DeleteRefused(r)
  BY <1>1, ReturnRecord DEF DeleteRefused, Local
<1>2. CASE DeleteCgroup(r)
  <2>1. /\ pc[r] = "deleteCgroup" /\ pc'[r] = "readdir" /\ \A s \in Runtimes \ {r} : pc'[s] = pc[s]
        /\ UNCHANGED <<op, st, dirVars, lockVars, initSock, execReady>>
        /\ Terminate(cgroup) \/ UNCHANGED <<proc, conn, peer, sock, cgroup>>
    BY <1>2 DEF DeleteCgroup, Goto
  <2>2. MessageInv' /\ (\A p \in Pids : Onward(p)) /\ sock' \in {sock, None}
        /\ \A s \in Runtimes : peer'[s] \in {peer[s], None}
    <3>1. CASE Terminate(cgroup)
      BY <2>1, <3>1, TerminateMessages, TerminateOnward, TerminateSeen DEF RecordInv
    <3>2. CASE UNCHANGED <<proc, conn, peer, sock, cgroup>>
      BY <2>1, <3>2, QuietMessages, QuietOnward DEF RecordInv
    <3> QED
      BY <2>1, <3>1, <3>2
  <2>3. RuntimeInv(r)'
    BY <1>0, <2>1, <2>2, Aside DEF Deleting, Fresh, Childless, Parenting
  <2>4. ~Making(r)'
    BY <2>1 DEF Making, Childless, Parenting
  <2> QED
    BY <2>1, <2>2, <2>3, <2>4, Assemble
<1>3. CASE RemoveAllList(r)
  BY <1>3, RemoveRecord DEF RemoveAllList, Goto, Deleting
<1>4. CASE RemoveAllUnlink(r)
  BY <1>4, RemoveRecord DEF RemoveAllUnlink, Unlink, Goto, Deleting
<1>5. CASE RemoveAllRmdir(r)
  <2>1. Listing = {} => stateFile = NoState
    BY DEF Listing, Entries
  <2> QED
    BY <1>5, <2>1, RemoveRecord DEF RemoveAllRmdir, Rmdir, Goto, Deleting
<1>6. CASE RemoveSocket(r)
  <2>1. /\ pc[r] = "rmsock" /\ pc'[r] = "poststop" /\ \A s \in Runtimes \ {r} : pc'[s] = pc[s]
        /\ UNCHANGED <<op, st, dirVars, lockVars, proc, initSock, conn, peer, execReady>>
        /\ sock' = None
    BY <1>6 DEF RemoveSocket, Goto
  <2>2. MessageInv' /\ \A p \in Pids : Onward(p)
    BY <2>1, QuietMessages, QuietOnward DEF RecordInv
  <2>3. RuntimeInv(r)'
    BY <1>0, <2>1, Aside DEF Deleting, Fresh, Childless, Parenting
  <2>4. ~Making(r)'
    BY <2>1 DEF Making, Childless, Parenting
  <2> QED
    BY <2>1, <2>2, <2>3, <2>4, Assemble
<1>7. CASE PoststopHooks(r)
  BY <1>7, ReturnRecord DEF PoststopHooks, Local
<1> QED
  BY <1>1, <1>2, <1>3, <1>4, <1>5, <1>6, <1>7 DEF Delete

(* pause and resume.                                                       *)
LEMMA FreezeRecord ==
  ASSUME Types, ControlInv, RecordInv, UNCHANGED hasProcess, NEW r \in Runtimes,
         Pause(r) \/ Resume(r)
  PROVE  RecordInv'
<1> USE DEF Types, ContainerTypeOK, StateDirTypeOK
<1>0. /\ pc[r] \in {"freeze", "thaw"}
      /\ pc[r] = "freeze" => op[r] = "pause"
      /\ pc[r] = "thaw" => op[r] = "resume"
      /\ UNCHANGED <<op, dirVars, lockVars, proc, initSock, conn, sock, peer, execReady>>
  BY DEF Pause, Resume, SetFrozen, ControlInv
<1>1. /\ peer[r] = None /\ r \notin execReady /\ st[r] = stateFile
      /\ stateFile.status \in {"running", "paused"} => stateFile.pid # None
  BY <1>0, Unconnected DEF Dialled, RecordInv, RuntimeInv, FreshInv, Fresh, FileInv
<1>2. MessageInv' /\ \A p \in Pids : Onward(p)
  BY <1>0, QuietMessages, QuietOnward DEF RecordInv
<1>3. \A s \in Runtimes \ {r} : pc'[s] = pc[s] /\ st'[s] = st[s]
  BY DEF Pause, Resume, SetFrozen, Goto
<1>4. \/ pc'[r] = "return"
      \/ /\ pc'[r] = "save" /\ st'[r].pid = st[r].pid
         /\ op[r] = "pause" => st[r].status = "running" /\ st'[r].status = "paused"
         /\ op[r] = "resume" => st[r].status = "paused" /\ st'[r].status = "running"
  BY <1>0 DEF Pause, Resume, SetFrozen, Goto, canBePaused, canBeResumed, State
<1>5. RuntimeInv(r)'
  BY <1>0, <1>1, <1>4 DEF RuntimeInv, CreateInv, LoadInv, FreshInv, SaveInv, ConnectedInv,
     Making, Fresh, Childless, Parenting
<1>6. ~Making(r)'
  BY <1>0 DEF Making
<1> QED
  BY <1>0, <1>2, <1>3, <1>5, <1>6, Assemble

(* Every step of a command.                                                *)
LEMMA RecordRun ==
  ASSUME Types, ControlInv, LockInv, RecordInv, UNCHANGED hasProcess, NEW r \in Runtimes, Run(r)
  PROVE  RecordInv'
<1>1. CASE Load(r) \/ Open(r) \/ Lock(r) \/ Reload(r)
  BY <1>1, OpeningRecord
<1>2. CASE Save(r)
  BY <1>2, SaveRecord
<1>3. CASE Return(r)
  BY <1>3, EndRecord DEF Return
<1>4. CASE Create(r)
  BY <1>4, CreateRecord
<1>5. CASE Start(r)
  BY <1>5, StartRecord
<1>6. CASE CheckProcess(r)
  BY <1>6, CheckRecord
<1>7. CASE Kill(r)
  BY <1>7, KillRecord
<1>8. CASE Delete(r)
  BY <1>8, DeleteRecord
<1>9. CASE Pause(r) \/ Resume(r)
  BY <1>9, FreezeRecord
<1> QED
  BY <1>1, <1>2, <1>3, <1>4, <1>5, <1>6, <1>7, <1>8, <1>9 DEF Run

(* A step of a process that tells no start ExecReady.                      *)
LEMMA ProcessRecord ==
  ASSUME Types, ControlInv, RecordInv, UNCHANGED <<hasProcess, dirVars, lockVars, cmdVars, execReady>>,
         \A p \in Pids : Onward(p), MessageInv', sock' \in {sock, None},
         \A s \in Runtimes : peer'[s] \in {peer[s], None}
  PROVE  RecordInv'
<1>1. \A s \in Runtimes : RuntimeInv(s)'
  BY Bystander
<1>2. \A s \in Runtimes : Making(s)' <=> Making(s)
  BY DEF Making
<1>3. FileInv' /\ OneMaker'
  BY <1>2 DEF RecordInv, FileInv, OneMaker, Loadable
<1>4. SockInv'
  BY <1>2 DEF RecordInv, SockInv
<1>5. PhaseInv'
  BY DEF RecordInv, PhaseInv, FileInv, StoppedIsDead, Onward, Initialised, Alive, Types,
     StateDirTypeOK, State
<1> QED
  BY <1>1, <1>3, <1>4, <1>5 DEF RecordInv

(* An exit of the process.                                                 *)
LEMMA ExitRecord ==
  ASSUME Types, ControlInv, RecordInv, UNCHANGED <<hasProcess, dirVars, lockVars, cmdVars>>,
         NEW p \in Pids, Exit(p)
  PROVE  RecordInv'
  BY TerminateMessages, TerminateOnward, TerminateSeen, ProcessRecord DEF Exit, RecordInv

(* ExecReady goes to the start that the process accepted.                  *)
LEMMA ExecReadyRecord ==
  ASSUME Types, ControlInv, RecordInv, UNCHANGED <<hasProcess, dirVars, lockVars, cmdVars>>,
         NEW p \in Pids, SendExecReady(p)
  PROVE  RecordInv'
<1> USE DEF Types, InitProcessTypeOK
<1>1. CASE Exit(p)
  BY <1>1, ExitRecord
<1>2. CASE /\ Step(p, "sendExecReady", "exec")
           /\ conn[p].cli # None
           /\ execReady' = execReady \cup {conn[p].cli}
           /\ UNCHANGED initSock
  <2>0. /\ proc[p] = "sendExecReady" /\ proc' = [proc EXCEPT ![p] = "exec"]
        /\ UNCHANGED <<initSock, conn, sock, peer>>
    BY <1>2 DEF Step
  <2>1. \A q \in Pids : Onward(q)
    BY <1>2, StepOnward DEF Live, SettingUp, Waiting, Starting
  <2>2. PICK r \in Runtimes : conn[p].cli = r
    BY <1>2 DEF Conn
  <2>3. peer[r] = p
    BY <2>2 DEF RecordInv, MessageInv
  <2>4. MessageInv'
    BY <2>0 DEF RecordInv, MessageInv, SettingUp
  <2>5. \A s \in Runtimes \ {r} : RuntimeInv(s)'
    BY <1>2, <2>0, <2>1, <2>2, Bystander
  <2>6. RuntimeInv(r)'
    <3>1. CreateInv(r)' /\ LoadInv(r)' /\ FreshInv(r)' /\ SaveInv(r)'
      <4>1. pc[r] \in Dialled /\ op[r] = "start" /\ RuntimeInv(r) /\ stateFile.pid = p
        BY <2>3, StateDirAssumption DEF RecordInv, RuntimeInv, ConnectedInv
      <4> QED
        BY <2>0, <4>1 DEF RuntimeInv, CreateInv, LoadInv, FreshInv, SaveInv, Making, Dialled,
           Loadable, Initialised, SettingUp, Waiting, Starting
    <3>2. ConnectedInv(r)'
      BY <2>0, <2>3, StateDirAssumption DEF RecordInv, RuntimeInv, ConnectedInv, Initialised,
         SettingUp, Waiting, Starting
    <3> QED
      BY <3>1, <3>2 DEF RuntimeInv
  <2>7. FileInv' /\ OneMaker' /\ SockInv'
    BY <2>0 DEF RecordInv, FileInv, OneMaker, SockInv, Making, Loadable
  <2>8. PhaseInv'
    BY <2>1 DEF RecordInv, PhaseInv, FileInv, StoppedIsDead, Onward, Initialised, Alive,
       StateDirTypeOK, State
  <2> QED
    BY <2>4, <2>5, <2>6, <2>7, <2>8 DEF RecordInv
<1> QED
  BY <1>1, <1>2 DEF SendExecReady

(* Every step of a process or of the kernel.                               *)
LEMMA EnvironmentRecord ==
  ASSUME TypeInv, ControlInv, RecordInv, UNCHANGED hasProcess, NEW p \in Pids, Environment(p)
  PROVE  RecordInv'
<1> USE DEF TypeInv, Types, InitProcessTypeOK
<1>0. (\A q \in Pids : Onward(q)) /\ UNCHANGED <<dirVars, lockVars, cmdVars>>
      /\ Types /\ MessageInv
  BY EnvironmentOnward DEF Environment, RecordInv
<1>1. CASE Exit(p)
  BY <1>0, <1>1, ExitRecord
<1>2. CASE SendExecReady(p)
  BY <1>0, <1>2, ExecReadyRecord
<1>3. ASSUME UNCHANGED <<initSock, execReady, conn, sock, peer>>,
             \A q \in Pids : proc'[q] \in SettingUp => proc[q] \in SettingUp
      PROVE  RecordInv'
  <2>1. MessageInv'
    BY <1>0, <1>3 DEF MessageInv
  <2> QED
    BY <1>0, <1>3, <2>1, ProcessRecord
<1>4. ASSUME NEW from, NEW to, Step(p, from, to), UNCHANGED <<initSock, execReady>>,
             to \in SettingUp => from \in SettingUp
      PROVE  RecordInv'
  BY <1>3, <1>4 DEF Step
<1>5. CASE SendPrePivot(p)
  <2>1. CASE SendInit(p, "PrePivot", "boot", "prePivot")
    <3>1. CASE /\ Step(p, "boot", "prePivot")
               /\ initSock' = [initSock EXCEPT ![p] = Append(@, "PrePivot")]
               /\ UNCHANGED execReady
      <4>1. initSock[p] = <<>> /\ proc' = [proc EXCEPT ![p] = "prePivot"]
            /\ UNCHANGED <<conn, sock, peer>>
        BY <3>1 DEF Step, SentSoFar
      <4>2. Append(<<>>, "PrePivot") = <<"PrePivot">>
        OBVIOUS
      <4>3. initSock'[p] = <<"PrePivot">> /\ \A q \in Pids \ {p} : initSock'[q] = initSock[q]
        BY <3>1, <4>1, <4>2
      <4>4. MessageInv'
        BY <1>0, <4>1, <4>3 DEF MessageInv
      <4> QED
        BY <1>0, <3>1, <4>1, <4>4, ProcessRecord
    <3> QED
      BY <1>1, <2>1, <3>1 DEF SendInit
  <2> QED
    BY <1>1, <1>5, <2>1 DEF SendPrePivot
<1>6. CASE SendReady(p)
  <2>1. CASE /\ Step(p, "sendReady", "accept")
             /\ initSock' = [initSock EXCEPT ![p] = Append(@, "Ready")]
             /\ UNCHANGED execReady
    <3>1. /\ proc'[p] = "accept" /\ \A q \in Pids \ {p} : proc'[q] = proc[q]
          /\ UNCHANGED <<conn, sock, peer>>
          /\ \A q \in Pids \ {p} : initSock'[q] = initSock[q]
      BY <2>1 DEF Step
    <3>2. MessageInv'
      BY <1>0, <3>1 DEF MessageInv, SettingUp
    <3> QED
      BY <1>0, <2>1, <3>1, <3>2, ProcessRecord
  <2> QED
    BY <1>1, <1>6, <2>1 DEF SendReady, SendInit
<1>7. CASE InvalidExecutable(p)
  <2>1. Terminate({p}) /\ UNCHANGED execReady /\ \A q \in Pids \ {p} : initSock'[q] = initSock[q]
    BY <1>7 DEF InvalidExecutable
  <2>2. proc'[p] \notin SettingUp /\ \A q \in Pids \ {p} : proc'[q] = proc[q]
    BY <2>1 DEF Terminate, Alive, Live, SettingUp
  <2>3. MessageInv'
    BY <1>0, <2>1, <2>2, TerminateMessages
  <2> QED
    BY <1>0, <2>1, <2>3, TerminateSeen, ProcessRecord
<1>8. CASE SetupPrePivot(p) \/ LookPath(p) \/ CreateContainerHooks(p) \/ Accept(p)
           \/ SetupPostPivot(p) \/ ExecUserProcess(p)
  BY <1>4, <1>8 DEF SetupPrePivot, LookPath, CreateContainerHooks, Accept, SetupPostPivot,
     ExecUserProcess, SettingUp
<1>9. CASE RecvStart(p) \/ StartContainerHooks(p)
  BY <1>1, <1>4, <1>9 DEF RecvStart, StartContainerHooks, SettingUp
<1>10. CASE ReexecFails(p) \/ UserExit(p)
  BY <1>1, <1>10 DEF ReexecFails, UserExit
<1>11. CASE Reap(p) \/ Foreign(p)
  BY <1>3, <1>11 DEF Reap, Foreign, SettingUp
<1> QED
  BY <1>2, <1>5, <1>6, <1>7, <1>8, <1>9, <1>10, <1>11 DEF Environment, Reexec

(* Every step keeps the record.                                            *)
LEMMA RecordNext ==
  TypeInv /\ ControlInv /\ LockInv /\ RecordInv /\ [Next]_vars => RecordInv'
<1> SUFFICES ASSUME TypeInv, ControlInv, LockInv, RecordInv, [Next]_vars PROVE RecordInv'
  OBVIOUS
<1>0. Types
  BY DEF TypeInv
<1>1. CASE UNCHANGED vars
  BY <1>0, <1>1, QuietOnward, QuietMessages, ProcessRecord DEF vars, RecordInv
<1>2. CASE Next
  <2>0. UNCHANGED hasProcess
    BY <1>2 DEF Next
  <2>1. ASSUME NEW r \in Runtimes, Run(r) PROVE RecordInv'
    BY <1>0, <2>0, <2>1, RecordRun
  <2>2. ASSUME NEW r \in Runtimes, Crash(r) PROVE RecordInv'
    BY <1>0, <2>0, <2>2, EndRecord DEF Crash
  <2>3. ASSUME NEW r \in Runtimes, NEW o \in Ops, Begin(r, o) PROVE RecordInv'
    BY <1>0, <2>0, <2>3, BeginRecord
  <2>4. ASSUME NEW p \in Pids, Environment(p) PROVE RecordInv'
    BY <2>0, <2>4, EnvironmentRecord
  <2> QED
    BY <1>2, <2>1, <2>2, <2>3, <2>4 DEF Next
<1> QED
  BY <1>1, <1>2

-----------------------------------------------------------------------------
(* The theorems.                                                           *)

(* All of the invariant.                                                   *)
ContainerInv == TypeInv /\ LockInv /\ ControlInv /\ RecordInv

(* It holds in every state, whatever crashes and fails.                    *)
LEMMA Invariance == ASSUME SerialDelete PROVE Spec => []ContainerInv
<1>1. Init => ContainerInv
  BY TypeInit, LockInit, RecordInit DEF ContainerInv
<1>2. ContainerInv /\ [Next]_vars => ContainerInv'
  BY TypeNext, LockNext, ControlNext, RecordNext DEF ContainerInv, TypeInv
<1> QED
  BY <1>1, <1>2, PTL DEF Spec

(* "created" is recorded of a process that sent Ready.                     *)
THEOREM CreatedCorrect == ASSUME SerialDelete PROVE Spec => []CreatedIsReady
<1>1. ContainerInv => CreatedIsReady
  BY DEF ContainerInv, RecordInv, FileInv, PhaseInv, CreatedIsReady
<1> QED
  BY <1>1, Invariance, PTL

(* "running" and "paused" are recorded of a process that left everything   *)
(* Reexec does behind.                                                     *)
THEOREM RunningCorrect == ASSUME SerialDelete PROVE Spec => []RunningIsInitialised
<1>1. ContainerInv => RunningIsInitialised
  BY DEF ContainerInv, RecordInv, PhaseInv, RunningIsInitialised, Initialised
<1> QED
  BY <1>1, Invariance, PTL

(* "stopped" is recorded of a process that is dead, unless the container   *)
(* has no process of the user's.                                           *)
THEOREM StoppedCorrect == ASSUME SerialDelete PROVE Spec => []StoppedIsDead
<1>1. ContainerInv => StoppedIsDead
  BY DEF ContainerInv, RecordInv, PhaseInv
<1> QED
  BY <1>1, Invariance, PTL

(* A start is connected to the process that its state names.               *)
THEOREM StartCorrect == ASSUME SerialDelete PROVE Spec => []StartReachesInit
<1>1. ContainerInv => StartReachesInit
  BY DEF ContainerInv, RecordInv, RuntimeInv, ConnectedInv, StartReachesInit
<1> QED
  BY <1>1, Invariance, PTL
-----------------------------------------------------------------------------
(* The life cycle.                                                         *)

Abstract == <<stateFile.status, RecordedPhase, hasProcess>>

(* What the phase says of a recorded process.                              *)
LEMMA PhaseOf ==
  ASSUME Types
  PROVE  /\ RecordedPhase \in {"setup", "ready", "started", "gone"}
         /\ stateFile.pid = None => RecordedPhase = "gone"
         /\ stateFile.pid # None =>
               /\ RecordedPhase = "setup" <=> proc[stateFile.pid] \in SettingUp
               /\ RecordedPhase \in {"setup", "ready"} <=> ~Initialised(stateFile.pid)
               /\ RecordedPhase = "gone" <=> ~Alive(stateFile.pid)
<1>0. stateFile.pid \in Pids \cup {None} /\ None \notin Pids
  BY StateDirAssumption DEF Types, StateDirTypeOK, State
<1>1. CASE stateFile.pid = None
  BY <1>0, <1>1 DEF RecordedPhase, Alive
<1>2. CASE stateFile.pid # None
  <2>1. stateFile.pid \in Pids
    BY <1>0, <1>2
  <2> QED
    BY <1>2, <2>1 DEF RecordedPhase, Initialised, Alive, Live, SettingUp, Waiting, Starting
<1> QED
  BY <1>1, <1>2

(* The same of the next state.                                             *)
LEMMA PhaseThen ==
  ASSUME Types'
  PROVE  /\ RecordedPhase' \in {"setup", "ready", "started", "gone"}
         /\ stateFile'.pid = None => RecordedPhase' = "gone"
         /\ stateFile'.pid # None =>
               /\ RecordedPhase' = "setup" <=> proc'[stateFile'.pid] \in SettingUp
               /\ RecordedPhase' \in {"setup", "ready"} <=>
                      proc'[stateFile'.pid] \in SettingUp \cup Waiting \cup Starting
               /\ RecordedPhase' = "gone" <=> proc'[stateFile'.pid] \notin Live
<1>0. stateFile'.pid \in Pids \cup {None} /\ None \notin Pids
  BY StateDirAssumption DEF Types, StateDirTypeOK, State
<1>1. CASE stateFile'.pid = None
  BY <1>0, <1>1 DEF RecordedPhase, Alive
<1>2. CASE stateFile'.pid # None
  <2>1. stateFile'.pid \in Pids
    BY <1>0, <1>2
  <2> QED
    BY <1>2, <2>1 DEF RecordedPhase, Alive, Live, SettingUp, Waiting, Starting
<1> QED
  BY <1>1, <1>2

(* While the record stays as it is, its process moves on by itself.        *)
LEMMA ProcessMoves ==
  ASSUME Types, Types', PhaseInv, UNCHANGED <<stateFile, hasProcess>>,
         stateFile.pid # None => Onward(stateFile.pid)
  PROVE  [L!Next]_Abstract
<1>1. stateFile.pid \in Pids \cup {None}
  BY DEF Types, StateDirTypeOK, State
<1>2. CASE stateFile.pid = None
  BY <1>2, PhaseOf, PhaseThen DEF Abstract
<1>3. CASE stateFile.pid # None
  <2>1. RecordedPhase \in {"ready", "started", "gone"}
    BY <1>3, PhaseOf DEF PhaseInv
  <2>2. RecordedPhase' \in {"ready", "started", "gone"}
    BY <1>3, PhaseThen DEF PhaseInv, Onward
  <2>3. RecordedPhase = "started" => RecordedPhase' \in {"started", "gone"}
    BY <1>3, <2>2, PhaseOf, PhaseThen DEF Onward
  <2>4. RecordedPhase = "gone" => RecordedPhase' = "gone"
    BY <1>1, <1>3, PhaseOf, PhaseThen DEF Onward, Alive
  <2>5. \/ RecordedPhase' = RecordedPhase
        \/ RecordedPhase' = "gone"
        \/ RecordedPhase = "ready" /\ RecordedPhase' = "started"
    BY <2>1, <2>2, <2>3, <2>4
  <2> QED
    BY <2>5 DEF Abstract, L!Next, L!Die, L!Launch
<1> QED
  BY <1>2, <1>3

(* Only a fork makes a process go back, and the file names none then.      *)
LEMMA NextOnward ==
  ASSUME ContainerInv, Next, stateFile.pid # None PROVE Onward(stateFile.pid)
<1>0. Types /\ stateFile.pid \in Pids
  BY DEF ContainerInv, TypeInv, Types, StateDirTypeOK, State
<1>1. CASE UNCHANGED proc
  BY <1>0, <1>1, QuietOnward
<1>2. ASSUME NEW S, Terminate(S) PROVE Onward(stateFile.pid)
  BY <1>0, <1>2, TerminateOnward
<1>3. ASSUME NEW p \in Pids, Environment(p) PROVE Onward(stateFile.pid)
  BY <1>0, <1>3, EnvironmentOnward
<1>4. ASSUME NEW r \in Runtimes, Run(r) PROVE Onward(stateFile.pid)
  <2>1. CASE Load(r) \/ Open(r) \/ Lock(r) \/ Reload(r) \/ Save(r) \/ Return(r)
    BY <1>1, <2>1 DEF Load, Open, Lock, Reload, Save, Return, End, Local
  <2>2. CASE Create(r)
    <3>1. CASE Fork(r)
      <4>1. pc[r] = "fork" /\ op[r] = "create" /\ CreateInv(r)
        BY <3>1 DEF Fork, ContainerInv, ControlInv, RecordInv, RuntimeInv
      <4>2. stateFile = Creating
        BY <4>1 DEF CreateInv, Making
      <4> QED
        BY <4>2 DEF Creating
    <3> QED
      BY <1>1, <2>2, <3>1 DEF Create, CreateExists, CreateContainerDirs, New, ForkFails,
         CreateCgroup, RecvPrePivot, CreateRuntimeHooks, RecvReady, RecvInit, Local
  <2>3. CASE Start(r)
    BY <1>1, <2>3 DEF Start, PrestartHooks, Dial, SendStart, RecvExecReady, PoststartHooks, Local
  <2>4. CASE CheckProcess(r) \/ Pause(r) \/ Resume(r)
    BY <1>1, <2>4 DEF CheckProcess, Pause, Resume, SetFrozen, Local
  <2>5. CASE Kill(r)
    BY <1>1, <1>2, <2>5 DEF Kill, Signal
  <2>6. CASE Delete(r)
    BY <1>1, <1>2, <2>6 DEF Delete, DeleteRefused, DeleteCgroup, RemoveAllList, RemoveAllUnlink,
       RemoveAllRmdir, RemoveSocket, PoststopHooks, Local
  <2> QED
    BY <1>4, <2>1, <2>2, <2>3, <2>4, <2>5, <2>6 DEF Run
<1>5. ASSUME NEW r \in Runtimes, NEW o \in Ops, Crash(r) \/ Begin(r, o)
      PROVE  Onward(stateFile.pid)
  BY <1>1, <1>5 DEF Crash, End, Begin
<1>6. "none" \in Ops
  BY DEF Ops
<1> QED
  BY <1>3, <1>4, <1>5, <1>6 DEF Next

(* Who writes the file: save, and delete when it removes it.               *)
LEMMA RunWrites ==
  ASSUME NEW r \in Runtimes, Run(r), stateFile' # stateFile
  PROVE  \/ Save(r) /\ stateFile' = st[r]
         \/ RemoveAllUnlink(r) /\ stateFile' = NoState
<1>1. CASE Save(r)
  BY <1>1 DEF Save, WriteState
<1>2. CASE Load(r) \/ Open(r) \/ Lock(r) \/ Reload(r) \/ Return(r)
  BY <1>2 DEF Load, Open, OpenLockFile, Lock, Flock, Reload, Return, End, Local
<1>3. CASE Create(r)
  BY <1>3 DEF Create, CreateExists, CreateContainerDirs, Mkdir, New, Fork, ForkFails,
     CreateCgroup, RecvPrePivot, CreateRuntimeHooks, RecvReady, RecvInit, Local
<1>4. CASE Start(r)
  BY <1>4 DEF Start, PrestartHooks, Dial, SendStart, RecvExecReady, PoststartHooks, Local
<1>5. CASE CheckProcess(r) \/ Pause(r) \/ Resume(r) \/ Kill(r)
  BY <1>5 DEF CheckProcess, Pause, Resume, SetFrozen, Kill, Local
<1>6. CASE Delete(r)
  BY <1>6 DEF Delete, DeleteRefused, DeleteCgroup, RemoveAllList, RemoveAllUnlink,
     RemoveAllRmdir, RemoveSocket, PoststopHooks, Local, Unlink, Rmdir
<1> QED
  BY <1>1, <1>2, <1>3, <1>4, <1>5, <1>6 DEF Run

(* Nobody else does.                                                       *)
LEMMA FileWriters ==
  ASSUME Next, stateFile' # stateFile
  PROVE  \/ \E r \in Runtimes : pc[r] = "save" /\ stateFile' = st[r] /\ UNCHANGED proc
         \/ stateFile' = NoState
<1>1. PICK r \in Runtimes : Run(r)
  BY DEF Next, Crash, End, Begin, Environment
<1> QED
  BY <1>1, RunWrites DEF Save

(* A save that changes the file is a step of the life cycle.               *)
LEMMA SaveMoves ==
  ASSUME ContainerInv, Types', UNCHANGED <<hasProcess, proc>>, NEW r \in Runtimes,
         pc[r] = "save", stateFile' = st[r]
  PROVE  [L!Next]_Abstract
<1> USE DEF L!Next, Abstract
<1>0. /\ Types /\ ControlInv /\ FileInv /\ PhaseInv /\ RuntimeInv(r)
      /\ stateFile \in State /\ st[r] \in State
  BY DEF ContainerInv, RecordInv, TypeInv, Types, StateDirTypeOK, ContainerTypeOK
<1>1. CASE op[r] = "create"
  <2>1. CASE st[r] = Creating /\ stateFile = NoState
    BY <1>0, <2>1, PhaseThen DEF Creating, NoState, L!Create
  <2>2. CASE /\ st[r].status = "created" /\ st[r].pid # None
             /\ stateFile = Creating /\ proc[st[r].pid] \notin SettingUp
    <3>1. RecordedPhase' # "setup"
      BY <2>2, PhaseThen
    <3> QED
      BY <2>2, <3>1 DEF Creating, L!Created
  <2> QED
    BY <1>0, <1>1, <2>1, <2>2 DEF RuntimeInv, CreateInv, Making
<1>2. CASE op[r] # "create"
  <2>1. stateFile.pid # None /\ st[r].pid = stateFile.pid
    BY <1>0, <1>2 DEF RuntimeInv, SaveInv
  <2>2. stateFile.status \in {"created", "running", "paused", "stopped"}
    BY <1>0, <2>1 DEF FileInv, NoState, Creating, State, Status
  <2>3. UNCHANGED RecordedPhase
    BY <2>1 DEF RecordedPhase, Alive
  <2>4. CASE op[r] = "start"
    <3>1. stateFile.status = "created"
      BY <1>0, <1>2, <2>4 DEF RuntimeInv, SaveInv
    <3>2. CASE st[r].status = "running" /\ Initialised(st[r].pid)
      <4>1. RecordedPhase \in {"started", "gone"}
        BY <1>0, <2>1, <3>2, PhaseOf
      <4> QED
        BY <2>3, <3>1, <3>2, <4>1 DEF L!Start
    <3>3. CASE st[r].status = "stopped" /\ ~hasProcess
      BY <2>3, <3>1, <3>3 DEF L!Stop
    <3> QED
      BY <1>0, <2>4, <3>2, <3>3 DEF RuntimeInv, SaveInv
  <2>5. CASE op[r] \in {"state", "delete"}
    <3>1. st[r].status = "stopped" /\ ~Alive(st[r].pid)
      BY <1>0, <2>5 DEF RuntimeInv, SaveInv
    <3>2. RecordedPhase = "gone"
      BY <1>0, <2>1, <3>1, PhaseOf
    <3> QED
      BY <2>2, <2>3, <3>1, <3>2 DEF L!Stop
  <2>6. CASE op[r] = "pause"
    BY <1>0, <2>3, <2>6 DEF RuntimeInv, SaveInv, L!Pause
  <2>7. CASE op[r] = "resume"
    BY <1>0, <2>3, <2>7 DEF RuntimeInv, SaveInv, L!Resume
  <2> QED
    BY <1>0, <1>2, <2>4, <2>5, <2>6, <2>7 DEF ControlInv
<1> QED
  BY <1>1, <1>2

(* Every step is a step of the life cycle, or changes nothing it tells.    *)
LEMMA LifecycleStep ==
  ContainerInv /\ ContainerInv' /\ [Next]_vars => [L!Next]_Abstract
<1> SUFFICES ASSUME ContainerInv, ContainerInv', [Next]_vars PROVE [L!Next]_Abstract
  OBVIOUS
<1>0. Types /\ Types' /\ PhaseInv
  BY DEF ContainerInv, TypeInv, RecordInv
<1>1. CASE UNCHANGED vars
  BY <1>1 DEF vars, Abstract, RecordedPhase, Alive
<1>2. CASE Next
  <2>0. UNCHANGED hasProcess
    BY <1>2 DEF Next
  <2>1. CASE stateFile' = stateFile
    BY <1>0, <1>2, <2>0, <2>1, NextOnward, ProcessMoves
  <2>2. CASE stateFile' # stateFile /\ stateFile' = NoState
    <3>1. stateFile.status # "none"
      BY <2>2 DEF ContainerInv, RecordInv, FileInv
    <3>2. RecordedPhase' = "gone"
      BY <1>0, <2>2, PhaseThen DEF NoState
    <3> QED
      BY <2>0, <2>2, <3>1, <3>2 DEF NoState, Abstract, L!Next, L!Remove
  <2>3. ASSUME NEW r \in Runtimes, pc[r] = "save", stateFile' = st[r], UNCHANGED proc
        PROVE  [L!Next]_Abstract
    BY <1>0, <2>0, <2>3, SaveMoves
  <2> QED
    BY <1>2, <2>1, <2>2, <2>3, FileWriters
<1> QED
  BY <1>1, <1>2

(* The commands implement the life cycle.                                  *)
THEOREM LifecycleCorrect == ASSUME SerialDelete PROVE Spec => LifecycleSpec
<1>1. Init => L!Init
  BY StateDirAssumption, InitProcessAssumption DEF Init, StateDirInit, NoState, RecordedPhase,
     Alive, L!Init
<1>2. ContainerInv /\ ContainerInv' /\ [Next]_vars
        => [L!Next]_<<stateFile.status, RecordedPhase, hasProcess>>
  BY LifecycleStep DEF Abstract
<1> QED
  BY <1>1, <1>2, Invariance, PTL DEF Spec, LifecycleSpec, L!Spec
=============================================================================
