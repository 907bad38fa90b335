----------------------------- MODULE TidyProofs -----------------------------
(***************************************************************************)
(* What holds when nothing is left behind: each theorem names the failures *)
(* after which the code does not keep its property, and holds for all      *)
(* others.  Callers do not overlap delete with other commands.             *)
(***************************************************************************)
EXTENDS ContainerProofs

USE DEF dirVars, lockVars, procVars, cmdVars

-----------------------------------------------------------------------------
(* What steps leave alone.                                                 *)

(* A command's step changes nothing of another command.                    *)
LEMMA RunOthers ==
  ASSUME Types, NEW r \in Runtimes, Run(r), NEW s \in Runtimes, s # r
  PROVE  /\ pc'[s] = pc[s] /\ op'[s] = op[s] /\ st'[s] = st[s] /\ todo'[s] = todo[s]
         /\ s \in locked' <=> s \in locked
<1> USE DEF Types, ContainerTypeOK, StateDirTypeOK, Goto, Local
<1>1. CASE Load(r) \/ Open(r) \/ Lock(r) \/ Reload(r) \/ Save(r)
  BY <1>1 DEF Load, Open, OpenLockFile, Lock, Flock, Reload, Save
<1>2. CASE Return(r)
  BY <1>2 DEF Return, End, Unlock
<1>3. CASE Create(r)
  BY <1>3 DEF Create, CreateExists, CreateContainerDirs, New, Fork, ForkFails, CreateCgroup,
     RecvPrePivot, CreateRuntimeHooks, RecvReady, RecvInit
<1>4. CASE Start(r)
  BY <1>4 DEF Start, PrestartHooks, Dial, SendStart, RecvExecReady, PoststartHooks
<1>5. CASE CheckProcess(r) \/ Kill(r) \/ Pause(r) \/ Resume(r)
  BY <1>5 DEF CheckProcess, Kill, Pause, Resume, SetFrozen
<1>6. CASE Delete(r)
  BY <1>6 DEF Delete, DeleteRefused, DeleteCgroup, RemoveAllList, RemoveAllUnlink,
     RemoveAllRmdir, RemoveSocket, PoststopHooks
<1> QED
  BY <1>1, <1>2, <1>3, <1>4, <1>5, <1>6 DEF Run

(* Most of them touch neither processes nor the cgroup.                    *)
LEMMA RunProcesses ==
  ASSUME NEW r \in Runtimes, Run(r)
  PROVE  \/ Fork(r)
         \/ CreateCgroup(r)
         \/ Kill(r) /\ pc[r] = "kill" /\ \E S : Terminate(S) /\ UNCHANGED <<initSock, execReady, frozen>>
         \/ DeleteCgroup(r) /\ Terminate(cgroup)
         \/ UNCHANGED <<proc, cgroup>>
<1> USE DEF Local
<1>1. CASE Load(r) \/ Open(r) \/ Lock(r) \/ Reload(r) \/ Save(r) \/ Return(r)
  BY <1>1 DEF Load, Open, Lock, Reload, Save, Return, End
<1>2. CASE Create(r)
  BY <1>2 DEF Create, CreateExists, CreateContainerDirs, New, ForkFails, RecvPrePivot,
     CreateRuntimeHooks, RecvReady, RecvInit
<1>3. CASE Start(r)
  BY <1>3 DEF Start, PrestartHooks, Dial, SendStart, RecvExecReady, PoststartHooks
<1>4. CASE CheckProcess(r) \/ Pause(r) \/ Resume(r)
  BY <1>4 DEF CheckProcess, Pause, Resume, SetFrozen
<1>5. CASE Kill(r)
  BY <1>5 DEF Kill, Signal
<1>6. CASE Delete(r)
  BY <1>6 DEF Delete, DeleteRefused, DeleteCgroup, RemoveAllList, RemoveAllUnlink,
     RemoveAllRmdir, RemoveSocket, PoststopHooks
<1> QED
  BY <1>1, <1>2, <1>3, <1>4, <1>5, <1>6 DEF Run

(* A process dies, or what lives goes on living where it is.               *)
LEMMA EnvironmentProcesses ==
  ASSUME Types, NEW p \in Pids, Environment(p)
  PROVE  /\ UNCHANGED <<dirVars, lockVars, cmdVars>>
         /\ \/ Terminate({p}) /\ UNCHANGED <<parent, execReady, frozen>>
            \/ /\ UNCHANGED <<conn, sock, peer, cgroup, frozen>>
               /\ \A q \in Pids : proc'[q] \in Live <=> proc[q] \in Live
<1> USE DEF Exit
<1>1. UNCHANGED <<dirVars, lockVars, cmdVars>>
  BY DEF Environment
<1>2. ASSUME NEW from \in Live, NEW to \in Live, Step(p, from, to)
      PROVE  UNCHANGED <<conn, sock, peer, cgroup, frozen>>
             /\ \A q \in Pids : proc'[q] \in Live <=> proc[q] \in Live
  BY <1>2 DEF Step, Types, InitProcessTypeOK
<1> USE DEF Live, SettingUp, Waiting, Starting
<1>3. CASE SendPrePivot(p) \/ SetupPrePivot(p) \/ LookPath(p) \/ CreateContainerHooks(p)
           \/ SendReady(p)
  BY <1>1, <1>2, <1>3 DEF SendPrePivot, SetupPrePivot, LookPath, CreateContainerHooks, SendReady,
     SendInit
<1>4. CASE Accept(p) \/ RecvStart(p) \/ SetupPostPivot(p) \/ StartContainerHooks(p)
           \/ SendExecReady(p) \/ ExecUserProcess(p)
  BY <1>1, <1>2, <1>4 DEF Accept, RecvStart, SetupPostPivot, StartContainerHooks, SendExecReady,
     ExecUserProcess
<1>5. CASE InvalidExecutable(p) \/ ReexecFails(p) \/ UserExit(p)
  BY <1>1, <1>5 DEF InvalidExecutable, ReexecFails, UserExit
<1>6. CASE Reap(p) \/ Foreign(p)
  BY <1>1, <1>6 DEF Reap, Foreign, Types, InitProcessTypeOK
<1> QED
  BY <1>3, <1>4, <1>5, <1>6 DEF Environment, Reexec

(* Who dies, and who does not.                                             *)
LEMMA TerminateAlive ==
  ASSUME Types, NEW S, Terminate(S)
  PROVE  \A p \in Pids : Alive(p)' <=> Alive(p) /\ p \notin S
  BY DEF Types, InitProcessTypeOK, Terminate, Alive, Live, SettingUp, Waiting, Starting

-----------------------------------------------------------------------------
(* poststop.                                                               *)

(* The steps of delete after it has killed what is in the cgroup.          *)
Emptied == {"readdir", "unlink", "rmdir", "rmsock", "poststop"}

(* Every process is in the cgroup, or about to be put there; none is left  *)
(* once delete has killed them.                                            *)
CgroupInv ==
    /\ \A p \in Pids : Alive(p) =>
          \/ p \in cgroup
          \/ \E r \in Runtimes : pc[r] = "createCgroup" /\ st[r].pid = p
    /\ \A r \in Runtimes : pc[r] \in Emptied => \A p \in Pids : ~Alive(p)

(* A step of a command goes among those of delete only by killing.         *)
LEMMA RunEmptied ==
  ASSUME Types, NEW r \in Runtimes, Run(r)
  PROVE  /\ pc'[r] \in Emptied => pc[r] \in Emptied \/ DeleteCgroup(r)
         /\ pc[r] = "createCgroup" => CreateCgroup(r)
<1> USE DEF Types, ContainerTypeOK, Goto, Local, Emptied
<1>1. CASE Load(r) \/ Open(r) \/ Lock(r)
  BY <1>1 DEF Load, Open, Lock
<1>2. CASE Reload(r) \/ Save(r) \/ Return(r)
  BY <1>2 DEF Reload, AfterReload, Save, AfterSave, AfterFailedSave, Return, End
<1>3. CASE Create(r)
  BY <1>3 DEF Create, CreateExists, CreateContainerDirs, New, Fork, ForkFails, CreateCgroup,
     RecvPrePivot, CreateRuntimeHooks, RecvReady, RecvInit
<1>4. CASE Start(r)
  BY <1>4 DEF Start, PrestartHooks, Dial, SendStart, RecvExecReady, PoststartHooks
<1>5. CASE CheckProcess(r) \/ Kill(r) \/ Pause(r) \/ Resume(r)
  BY <1>5 DEF CheckProcess, Kill, Pause, Resume, SetFrozen
<1>6. CASE Delete(r)
  BY <1>6 DEF Delete, DeleteRefused, DeleteCgroup, RemoveAllList, RemoveAllUnlink,
     RemoveAllRmdir, RemoveSocket, PoststopHooks
<1> QED
  BY <1>1, <1>2, <1>3, <1>4, <1>5, <1>6 DEF Run

(* Every step of a command keeps it.                                       *)
LEMMA CgroupRun ==
  ASSUME ContainerInv, CgroupInv, NEW r \in Runtimes, Run(r),
         "createCgroup" \notin Faults, "deleteCgroup" \notin Faults
  PROVE  CgroupInv'
<1>0. Types /\ LockInv /\ ControlInv /\ RuntimeInv(r)
  BY DEF ContainerInv, TypeInv, RecordInv
<1>1. \A s \in Runtimes \ {r} : pc'[s] = pc[s] /\ st'[s] = st[s]
  BY <1>0, RunOthers
<1>2. /\ pc'[r] \in Emptied => pc[r] \in Emptied \/ DeleteCgroup(r)
      /\ pc[r] = "createCgroup" => CreateCgroup(r)
  BY <1>0, RunEmptied
<1> USE DEF Types, ContainerTypeOK, InitProcessTypeOK
<1>3. CASE Fork(r)
  <2>1. PICK p \in Pids : proc' = [proc EXCEPT ![p] = "boot"] /\ st' = [st EXCEPT ![r].pid = p]
    BY <1>3 DEF Fork
  <2>2. pc[r] = "fork" /\ pc'[r] = "createCgroup" /\ st'[r].pid = p /\ UNCHANGED cgroup
    BY <1>0, <1>3, <2>1 DEF Fork, Goto, State
  <2>3. \A q \in Pids \ {p} : Alive(q)' <=> Alive(q)
    BY <1>0, <2>1 DEF Alive
  <2>4. \A s \in Runtimes : pc'[s] \notin Emptied
    <3>1. op[r] = "create"
      BY <1>0, <2>2 DEF ControlInv
    <3> QED
      BY <1>0, <1>1, <2>2, <3>1, DeleterAlone DEF Emptied, Deleting
  <2> QED
    BY <1>1, <2>2, <2>3, <2>4 DEF CgroupInv
<1>4. CASE CreateCgroup(r)
  <2>1. pc[r] = "createCgroup" /\ pc'[r] \notin Emptied /\ UNCHANGED <<proc, st>>
        /\ pc'[r] # "createCgroup"
    BY <1>0, <1>4 DEF CreateCgroup, Goto, Emptied
  <2>2. cgroup' = cgroup \cup {st[r].pid} \/ (cgroup' = cgroup /\ ~Alive(st[r].pid))
    BY <1>4 DEF CreateCgroup, JoinCgroup
  <2> QED
    BY <1>1, <2>1, <2>2 DEF CgroupInv, Alive
<1>5. CASE /\ Kill(r) /\ pc[r] = "kill"
           /\ \E S : Terminate(S) /\ UNCHANGED <<initSock, execReady, frozen>>
  <2>1. pc'[r] = "return" /\ UNCHANGED st
    BY <1>0, <1>5 DEF Kill, Goto
  <2>2. PICK S : Terminate(S)
    BY <1>5
  <2>3. cgroup' = cgroup \ S /\ \A p \in Pids : Alive(p)' <=> Alive(p) /\ p \notin S
    BY <1>0, <2>2, TerminateAlive DEF Terminate
  <2> QED
    BY <1>1, <1>5, <2>1, <2>3 DEF CgroupInv, Emptied
<1>6. CASE DeleteCgroup(r)
  <2>1. pc[r] = "deleteCgroup" /\ Terminate(cgroup)
    BY <1>6 DEF DeleteCgroup
  <2>2. \A s \in Runtimes : pc[s] # "createCgroup"
    BY <1>0, <2>1, DeleterAlone DEF Deleting
  <2>3. \A p \in Pids : ~Alive(p)'
    BY <1>0, <2>1, <2>2, TerminateAlive DEF CgroupInv
  <2> QED
    BY <2>3 DEF CgroupInv
<1>7. CASE UNCHANGED <<proc, cgroup>> /\ ~CreateCgroup(r) /\ ~DeleteCgroup(r)
  BY <1>1, <1>2, <1>7 DEF CgroupInv, Alive
<1> QED
  BY <1>3, <1>4, <1>5, <1>6, <1>7, RunProcesses

(* Every step keeps it, unless a runtime is killed or the cgroup fails.    *)
LEMMA CgroupNext ==
  ASSUME ContainerInv, CgroupInv, [Next]_vars,
         "crash" \notin Faults, "createCgroup" \notin Faults, "deleteCgroup" \notin Faults
  PROVE  CgroupInv'
<1>0. Types
  BY DEF ContainerInv, TypeInv
<1>1. CASE UNCHANGED vars
  BY <1>1 DEF vars, CgroupInv, Alive
<1>2. ASSUME NEW r \in Runtimes, Run(r) PROVE CgroupInv'
  BY <1>2, CgroupRun
<1>3. ASSUME NEW r \in Runtimes, NEW o \in Ops, Begin(r, o) PROVE CgroupInv'
  BY <1>0, <1>3 DEF Begin, Goto, Types, ContainerTypeOK, CgroupInv, Alive, Emptied
<1>4. ASSUME NEW p \in Pids, Environment(p) PROVE CgroupInv'
  <2>1. UNCHANGED <<pc, st>>
    BY <1>0, <1>4, EnvironmentProcesses
  <2>2. CASE Terminate({p})
    <3>1. cgroup' = cgroup \ {p} /\ \A q \in Pids : Alive(q)' <=> Alive(q) /\ q \notin {p}
      BY <1>0, <2>2, TerminateAlive DEF Terminate
    <3> QED
      BY <2>1, <3>1 DEF CgroupInv
  <2>3. CASE UNCHANGED cgroup /\ \A q \in Pids : proc'[q] \in Live <=> proc[q] \in Live
    BY <2>1, <2>3 DEF CgroupInv, Alive
  <2> QED
    BY <1>0, <1>4, <2>2, <2>3, EnvironmentProcesses
<1> QED
  BY <1>1, <1>2, <1>3, <1>4 DEF Next, Crash

(* When the poststop hooks run, every process of the container is dead,    *)
(* unless a runtime was killed or an operation on the cgroup failed.       *)
THEOREM PoststopCorrect ==
  ASSUME SerialDelete,
         "crash" \notin Faults, "createCgroup" \notin Faults, "deleteCgroup" \notin Faults
  PROVE  Spec => []PoststopAfterDeath
<1>1. Init => CgroupInv
  BY DEF Init, InitProcessInit, CgroupInv, Alive, Live, SettingUp, Waiting, Starting, Emptied
<1>2. ContainerInv /\ CgroupInv /\ [Next]_vars => CgroupInv'
  BY CgroupNext
<1>3. CgroupInv => PoststopAfterDeath
  BY DEF CgroupInv, PoststopAfterDeath, Emptied
<1> QED
  BY <1>1, <1>2, <1>3, Invariance, PTL DEF Spec
-----------------------------------------------------------------------------
(* Pause and resume.                                                       *)

(* A pause or a resume between the cgroup and the state file.              *)
Freezing(r) == pc[r] = "save" /\ op[r] \in {"pause", "resume"}

(* Only the container's process is in its cgroup, and the cgroup is frozen *)
(* as the state file, or the one about to save it, says.                   *)
FreezeInv ==
    /\ \A p \in cgroup : Alive(p)
    /\ ~Loadable => cgroup = {}
    /\ stateFile.pid # None => cgroup \subseteq {stateFile.pid}
    /\ \A r \in Runtimes :
          /\ Making(r) => cgroup \subseteq {st[r].pid}
          /\ pc[r] \in Emptied => cgroup = {}
          /\ Freezing(r) => (frozen <=> op[r] = "pause")
    /\ cgroup # {} => (frozen <=> stateFile.status = "paused") \/ \E r \in Runtimes : Freezing(r)

(* Who freezes and thaws.                                                  *)
LEMMA RunFrozen ==
  ASSUME NEW r \in Runtimes, Run(r)
  PROVE  CreateCgroup(r) \/ DeleteCgroup(r) \/ Pause(r) \/ Resume(r) \/ UNCHANGED frozen
<1> USE DEF Local
<1>1. CASE Load(r) \/ Open(r) \/ Lock(r) \/ Reload(r) \/ Save(r) \/ Return(r)
  BY <1>1 DEF Load, Open, Lock, Reload, Save, Return, End
<1>2. CASE Create(r)
  BY <1>2 DEF Create, CreateExists, CreateContainerDirs, New, Fork, ForkFails, RecvPrePivot,
     CreateRuntimeHooks, RecvReady, RecvInit
<1>3. CASE Start(r)
  BY <1>3 DEF Start, PrestartHooks, Dial, SendStart, RecvExecReady, PoststartHooks
<1>4. CASE CheckProcess(r) \/ Kill(r)
  BY <1>4 DEF CheckProcess, Kill, Signal
<1>5. CASE Delete(r)
  BY <1>5 DEF Delete, DeleteRefused, RemoveAllList, RemoveAllUnlink, RemoveAllRmdir,
     RemoveSocket, PoststopHooks
<1> QED
  BY <1>1, <1>2, <1>3, <1>4, <1>5 DEF Run

(* Who goes on to save what he froze, and who goes on in create.           *)
LEMMA RunMaking ==
  ASSUME ContainerInv, NEW r \in Runtimes, Run(r)
  PROVE  /\ Freezing(r)' => Pause(r) \/ Resume(r)
         /\ Freezing(r) => Save(r)
         /\ Making(r)' /\ pc'[r] \notin Childless =>
               Fork(r) \/ (Making(r) /\ st'[r].pid = st[r].pid)
<1>0. /\ pc[r] \in {"exists", "mkdir", "new", "fork"} \cup Parenting => op[r] = "create"
      /\ pc[r] \in {"load", "reload"} => op[r] # "create"
      /\ pc[r] \in {"prestart", "dial", "sendStart", "recvExecReady", "poststart"} => op[r] = "start"
      /\ pc[r] = "isProcessDead" => op[r] \in {"state", "delete"}
      /\ pc[r] = "freeze" => op[r] = "pause"
      /\ pc[r] = "thaw" => op[r] = "resume"
      /\ pc \in [Runtimes -> Labels] /\ op \in [Runtimes -> Ops] /\ st \in [Runtimes -> State]
  BY DEF ContainerInv, ControlInv, TypeInv, Types, ContainerTypeOK
<1> USE <1>0 DEF Goto, Local, Freezing, Making, Childless, Parenting
<1>1. CASE Load(r) \/ Open(r) \/ Lock(r)
  BY <1>1 DEF Load, Open, Lock
<1>2. CASE Reload(r)
  BY <1>2 DEF Reload, AfterReload
<1>3. CASE Save(r)
  BY <1>3 DEF Save, AfterSave, AfterFailedSave
<1>4. CASE Return(r)
  BY <1>4 DEF Return, End
<1>5. CASE Create(r)
  <2>1. CASE CreateExists(r) \/ CreateContainerDirs(r) \/ New(r) \/ Fork(r) \/ ForkFails(r)
    BY <2>1 DEF CreateExists, CreateContainerDirs, New, Fork, ForkFails
  <2>2. CASE CreateCgroup(r) \/ RecvPrePivot(r) \/ CreateRuntimeHooks(r)
    BY <2>2 DEF CreateCgroup, RecvPrePivot, CreateRuntimeHooks, RecvInit
  <2>3. CASE RecvReady(r)
    BY <2>3 DEF RecvReady, RecvInit, State
  <2> QED
    BY <1>5, <2>1, <2>2, <2>3 DEF Create
<1>6. CASE Start(r)
  BY <1>6 DEF Start, PrestartHooks, Dial, SendStart, RecvExecReady, PoststartHooks
<1>7. CASE CheckProcess(r) \/ Kill(r) \/ Pause(r) \/ Resume(r)
  BY <1>7 DEF CheckProcess, Kill, Pause, Resume, SetFrozen
<1>8. CASE Delete(r)
  BY <1>8 DEF Delete, DeleteRefused, DeleteCgroup, RemoveAllList, RemoveAllUnlink,
     RemoveAllRmdir, RemoveSocket, PoststopHooks
<1> QED
  BY <1>1, <1>2, <1>3, <1>4, <1>5, <1>6, <1>7, <1>8 DEF Run

(* The container's directory is there while its state is saved.            *)
LEMMA SaveWrites ==
  ASSUME ContainerInv, NEW r \in Runtimes, Save(r), "save" \notin Faults
  PROVE  stateFile' = st[r]
<1>0. Types /\ ControlInv /\ RecordInv /\ pc[r] = "save"
  BY DEF ContainerInv, TypeInv, Save
<1>1. CASE op[r] = "create"
  BY <1>0, <1>1 DEF RecordInv, RuntimeInv, CreateInv, Making, Save, WriteState
<1>2. CASE op[r] # "create"
  BY <1>0, <1>2 DEF RecordInv, RuntimeInv, SaveInv, FileInv, Loadable, NoState, Save, WriteState
<1> QED
  BY <1>1, <1>2

(* Every step of a command keeps it.                                       *)
LEMMA FreezeRun ==
  ASSUME ContainerInv, ContainerInv', FreezeInv, NEW r \in Runtimes, Run(r),
         "save" \notin Faults, "deleteCgroup" \notin Faults
  PROVE  FreezeInv'
<1>0. /\ Types /\ LockInv /\ ControlInv /\ RecordInv /\ RuntimeInv(r)
      /\ stateFile \in State /\ cgroup \subseteq Pids /\ None \notin Pids
  BY StateDirAssumption DEF ContainerInv, TypeInv, RecordInv, Types, StateDirTypeOK,
     InitProcessTypeOK
<1>1. \A s \in Runtimes \ {r} : pc'[s] = pc[s] /\ op'[s] = op[s] /\ st'[s] = st[s]
  BY <1>0, RunOthers
<1>2. CreateCgroup(r) => /\ Making(r) /\ pc[r] = "createCgroup" /\ stateFile = Creating
                         /\ UNCHANGED <<proc, st, op, stateFile>>
                         /\ \/ UNCHANGED <<cgroup, frozen>>
                            \/ JoinCgroup(st[r].pid)
  <2> SUFFICES ASSUME CreateCgroup(r)
               PROVE  /\ Making(r) /\ pc[r] = "createCgroup" /\ stateFile = Creating
                      /\ UNCHANGED <<proc, st, op, stateFile>>
                      /\ \/ UNCHANGED <<cgroup, frozen>>
                         \/ JoinCgroup(st[r].pid)
    OBVIOUS
  <2>1. Making(r) /\ pc[r] = "createCgroup"
    BY <1>0 DEF CreateCgroup, ControlInv, Making, Parenting
  <2> QED
    BY <1>0, <2>1 DEF CreateCgroup, RuntimeInv, CreateInv, Parenting
<1>3. ~CreateCgroup(r) => cgroup' \subseteq cgroup
  BY RunProcesses DEF Fork, Terminate
<1>4. \A p \in cgroup' : Alive(p)'
  <2>1. CASE CreateCgroup(r)
    BY <1>2, <2>1 DEF FreezeInv, JoinCgroup, Alive
  <2>2. CASE Fork(r)
    <3>1. UNCHANGED cgroup /\ \A p \in Pids : Alive(p) => Alive(p)'
      BY <1>0, <2>2 DEF Fork, Alive, Types, InitProcessTypeOK, Live, SettingUp
    <3> QED
      BY <1>0, <3>1 DEF FreezeInv
  <2>3. ASSUME NEW S, Terminate(S) PROVE \A p \in cgroup' : Alive(p)'
    BY <1>0, <2>3, TerminateAlive DEF FreezeInv, Terminate
  <2>4. CASE UNCHANGED <<proc, cgroup>>
    BY <2>4 DEF FreezeInv, Alive
  <2> QED
    BY <2>1, <2>2, <2>3, <2>4, RunProcesses
<1>5. ~Loadable' => cgroup' = {}
  <2>1. CASE stateFile' = stateFile
    BY <1>2, <1>3, <2>1 DEF FreezeInv, Loadable, Creating, NoState
  <2>2. CASE Save(r) /\ stateFile' = st[r]
    <3>1. st[r] # NoState
      BY <1>0, <2>2, SavingRecord DEF Save
    <3> QED
      BY <2>2, <3>1 DEF Loadable
  <2>3. CASE RemoveAllUnlink(r)
    BY <2>3 DEF RemoveAllUnlink, FreezeInv, Emptied
  <2> QED
    BY <2>1, <2>2, <2>3, RunWrites
<1>6. stateFile'.pid # None => cgroup' \subseteq {stateFile'.pid}
  <2>1. CASE stateFile' = stateFile
    BY <1>2, <1>3, <2>1 DEF FreezeInv, Creating
  <2>2. CASE Save(r) /\ stateFile' = st[r]
    <3>1. pc[r] = "save" /\ UNCHANGED cgroup
      BY <2>2 DEF Save
    <3>2. CASE op[r] = "create"
      BY <2>2, <3>1, <3>2 DEF FreezeInv, Making
    <3>3. CASE op[r] # "create"
      BY <1>0, <2>2, <3>1, <3>3 DEF FreezeInv, RuntimeInv, SaveInv
    <3> QED
      BY <3>2, <3>3
  <2> QED
    BY <2>1, <2>2, RunWrites DEF NoState
<1>7. ASSUME NEW s \in Runtimes, Making(s)' PROVE cgroup' \subseteq {st'[s].pid}
  <2>1. CASE pc'[s] \in Childless
    BY <1>5, <1>7, <2>1 DEF ContainerInv, RecordInv, RuntimeInv, CreateInv, Loadable
  <2>2. CASE s # r
    <3>1. Making(s) /\ ~CreateCgroup(r)
      BY <1>0, <1>1, <1>2, <1>7, <2>2 DEF Making, RecordInv, OneMaker
    <3> QED
      BY <1>1, <1>3, <2>2, <3>1 DEF FreezeInv
  <2>3. CASE s = r /\ pc'[r] \notin Childless
    <3>1. CASE Fork(r)
      <4>1. pc[r] = "fork" /\ op[r] = "create" /\ UNCHANGED cgroup
        BY <1>0, <3>1 DEF Fork, ControlInv
      <4>2. Making(r) /\ st[r] = Creating
        BY <1>0, <4>1 DEF Making, RuntimeInv, CreateInv
      <4> QED
        BY <1>0, <4>1, <4>2 DEF FreezeInv, Creating
    <3>2. CASE Making(r) /\ st'[r].pid = st[r].pid
      BY <1>2, <1>3, <2>3, <3>2 DEF FreezeInv, JoinCgroup
    <3> QED
      BY <1>7, <2>3, <3>1, <3>2, RunMaking
  <2> QED
    BY <2>1, <2>2, <2>3
<1>8. ASSUME NEW s \in Runtimes, pc'[s] \in Emptied PROVE cgroup' = {}
  <2>1. CASE s # r
    <3>1. pc[s] \in Emptied /\ ~CreateCgroup(r)
      BY <1>0, <1>1, <1>2, <1>8, <2>1, DeleterAlone DEF Emptied, Deleting
    <3> QED
      BY <1>3, <3>1 DEF FreezeInv
  <2>2. CASE s = r /\ pc[r] \in Emptied
    BY <1>2, <1>3, <2>2 DEF FreezeInv, Emptied
  <2>3. CASE DeleteCgroup(r)
    BY <2>3 DEF DeleteCgroup, Terminate
  <2> QED
    BY <1>0, <1>8, <2>1, <2>2, <2>3, RunEmptied
<1>9. ASSUME NEW s \in Runtimes, Freezing(s), s # r
      PROVE  Freezing(s)' /\ UNCHANGED frozen
  <2>1. pc[r] \in Unopened \cup {"flock", "return"}
    BY <1>0, <1>9, Alone DEF Freezing, Unopened
  <2>2. ~CreateCgroup(r) /\ ~DeleteCgroup(r) /\ ~Pause(r) /\ ~Resume(r)
    BY <2>1 DEF CreateCgroup, DeleteCgroup, Pause, Resume, SetFrozen, Unopened
  <2> QED
    BY <1>1, <1>9, <2>2, RunFrozen DEF Freezing
<1>10. ASSUME NEW s \in Runtimes, Freezing(s)' PROVE frozen' <=> op'[s] = "pause"
  <2>1. CASE s # r
    BY <1>1, <1>9, <1>10, <2>1 DEF Freezing, FreezeInv
  <2>2. CASE s = r
    BY <1>0, <1>10, <2>2, RunMaking DEF Pause, Resume, SetFrozen, ControlInv, Freezing, Goto,
       Types, ContainerTypeOK
  <2> QED
    BY <2>1, <2>2
<1>11. ASSUME cgroup' # {}
       PROVE  (frozen' <=> stateFile'.status = "paused") \/ \E s \in Runtimes : Freezing(s)'
  <2>1. CASE Save(r)
    <3>0. pc[r] = "save" /\ stateFile' = st[r] /\ UNCHANGED <<cgroup, frozen>>
      BY <2>1, SaveWrites DEF Save
    <3>1. CASE Freezing(r)
      BY <1>0, <3>0, <3>1 DEF FreezeInv, Freezing, RuntimeInv, SaveInv
    <3>2. CASE ~Freezing(r)
      <4>1. \A s \in Runtimes : ~Freezing(s)
        BY <1>0, <3>0, <3>2, Alone DEF Freezing, Unopened
      <4>2. frozen <=> stateFile.status = "paused"
        BY <1>11, <3>0, <4>1 DEF FreezeInv
      <4>3. CASE op[r] = "create"
        BY <1>0, <3>0, <4>2, <4>3 DEF RuntimeInv, CreateInv, Making, Creating, NoState
      <4>4. CASE op[r] = "start"
        BY <1>0, <3>0, <4>2, <4>4 DEF RuntimeInv, SaveInv
      <4>5. CASE op[r] \in {"state", "delete"}
        <5>1. ~Alive(stateFile.pid) /\ stateFile.pid # None
          BY <1>0, <3>0, <4>5 DEF RuntimeInv, SaveInv
        <5> QED
          BY <1>11, <3>0, <5>1 DEF FreezeInv
      <4> QED
        BY <1>0, <3>0, <3>2, <4>3, <4>4, <4>5 DEF ControlInv, Freezing
    <3> QED
      BY <3>1, <3>2
  <2>2. CASE RemoveAllUnlink(r)
    BY <1>11, <2>2 DEF RemoveAllUnlink, FreezeInv, Emptied
  <2>3. CASE CreateCgroup(r)
    <3>1. \A s \in Runtimes : ~Freezing(s)
      BY <1>0, <1>2, <2>3 DEF RecordInv, RuntimeInv, SaveInv, Freezing, Creating
    <3>2. ~frozen'
      <4>1. stateFile.status # "paused"
        BY <1>2, <2>3 DEF Creating
      <4>2. ~(cgroup # {} /\ frozen)
        BY <3>1, <4>1 DEF FreezeInv
      <4>3. CASE UNCHANGED <<cgroup, frozen>>
        BY <1>11, <4>2, <4>3
      <4>4. CASE frozen' = (frozen /\ cgroup # {})
        BY <4>2, <4>4
      <4> QED
        BY <1>2, <2>3, <4>3, <4>4 DEF JoinCgroup
    <3> QED
      BY <1>2, <2>3, <3>2 DEF Creating
  <2>4. CASE DeleteCgroup(r)
    BY <1>11, <2>4 DEF DeleteCgroup, Terminate
  <2>5. CASE Freezing(r)'
    BY <2>5
  <2>6. CASE stateFile' = stateFile /\ UNCHANGED frozen /\ ~CreateCgroup(r) /\ ~Save(r)
    BY <1>3, <1>9, <1>11, <2>6, RunMaking DEF FreezeInv
  <2>7. CASE (Pause(r) \/ Resume(r)) /\ ~Freezing(r)'
    <3>1. UNCHANGED <<frozen, stateFile>> /\ ~CreateCgroup(r) /\ ~Save(r)
      BY <1>0, <2>7 DEF Pause, Resume, SetFrozen, Freezing, ControlInv, Goto, Types,
         ContainerTypeOK, CreateCgroup, Save
    <3> QED
      BY <2>6, <3>1
  <2> QED
    BY <2>1, <2>2, <2>3, <2>4, <2>5, <2>6, <2>7, RunWrites, RunFrozen
<1> QED
  BY <1>4, <1>5, <1>6, <1>7, <1>8, <1>10, <1>11 DEF FreezeInv

(* Every step keeps it, unless a runtime is killed, a save fails or        *)
(* deleting the cgroup does.                                               *)
LEMMA FreezeNext ==
  ASSUME ContainerInv, ContainerInv', FreezeInv, [Next]_vars,
         "crash" \notin Faults, "save" \notin Faults, "deleteCgroup" \notin Faults
  PROVE  FreezeInv'
<1>0. Types /\ ControlInv
  BY DEF ContainerInv, TypeInv
<1>1. CASE UNCHANGED vars
  BY <1>1 DEF vars, FreezeInv, Alive, Freezing, Making, Loadable
<1>2. ASSUME NEW r \in Runtimes, Run(r) PROVE FreezeInv'
  BY <1>2, FreezeRun
<1>3. ASSUME NEW r \in Runtimes, NEW o \in Ops, Begin(r, o) PROVE FreezeInv'
  <2>1. /\ UNCHANGED <<stateFile, st, proc, cgroup, frozen>>
        /\ pc[r] = "idle" /\ pc'[r] \in {"exists", "load"}
        /\ \A s \in Runtimes \ {r} : pc'[s] = pc[s] /\ op'[s] = op[s]
    BY <1>0, <1>3 DEF Begin, Goto, Types, ContainerTypeOK
  <2>2. ~Making(r)' /\ ~Freezing(r) /\ ~Freezing(r)' /\ pc'[r] \notin Emptied
    BY <2>1 DEF Making, Freezing, Emptied, Childless, Parenting
  <2>3. \A s \in Runtimes \ {r} : (Making(s)' <=> Making(s)) /\ (Freezing(s)' <=> Freezing(s))
    BY <2>1 DEF Making, Freezing
  <2> QED
    BY <2>1, <2>2, <2>3 DEF FreezeInv, Alive, Loadable
<1>4. ASSUME NEW p \in Pids, Environment(p) PROVE FreezeInv'
  <2>1. UNCHANGED <<stateFile, pc, op, st, frozen>> /\ cgroup' \subseteq cgroup
    BY <1>0, <1>4, EnvironmentProcesses DEF Terminate
  <2>2. \A q \in cgroup' : Alive(q)'
    <3>1. CASE Terminate({p})
      BY <1>0, <3>1, TerminateAlive DEF Terminate, FreezeInv, Types, InitProcessTypeOK
    <3>2. CASE UNCHANGED cgroup /\ \A q \in Pids : proc'[q] \in Live <=> proc[q] \in Live
      BY <3>2 DEF FreezeInv, Alive
    <3> QED
      BY <1>0, <1>4, <3>1, <3>2, EnvironmentProcesses
  <2>3. \A s \in Runtimes : (Making(s)' <=> Making(s)) /\ (Freezing(s)' <=> Freezing(s))
    BY <2>1 DEF Making, Freezing
  <2> QED
    BY <2>1, <2>2, <2>3 DEF FreezeInv, Loadable
<1> QED
  BY <1>1, <1>2, <1>3, <1>4 DEF Next, Crash

(* Between commands the container is frozen exactly when it is recorded as *)
(* paused, unless a runtime was killed, a save failed or deleting the      *)
(* cgroup did.                                                             *)
THEOREM FreezeCorrect ==
  ASSUME SerialDelete,
         "crash" \notin Faults, "save" \notin Faults, "deleteCgroup" \notin Faults
  PROVE  Spec => []FrozenIffPaused
<1>1. Init => FreezeInv
  BY DEF Init, InitProcessInit, StateDirInit, FreezeInv, Freezing, NoState
<1>2. ContainerInv /\ ContainerInv' /\ FreezeInv /\ [Next]_vars => FreezeInv'
  BY FreezeNext
<1>3. FreezeInv => FrozenIffPaused
  BY DEF FreezeInv, FrozenIffPaused, AllIdle, Freezing
<1> QED
  BY <1>1, <1>2, <1>3, Invariance, PTL DEF Spec

-----------------------------------------------------------------------------
(* Exists and Load.                                                        *)

(* A directory without a state file is one that create is filling or that  *)
(* delete is emptying, and the lock is held by one that can load it.       *)
ExistInv ==
    /\ dir /\ ~Loadable =>
          \E r \in Runtimes : Making(r) \/ pc[r] \in {"unlink", "rmdir"}
    /\ \A r \in locked : op[r] = "delete" \/ Loadable \/ Making(r)
    /\ \A r \in Runtimes :
          /\ pc[r] = "unlink" => Listing \subseteq todo[r]
          /\ pc[r] = "rmdir" => Listing = {}

(* The lock of a container that is being made is free.                     *)
LEMMA MakerLocks ==
  ASSUME ContainerInv, ExistInv, NEW r \in Runtimes, Making(r), pc[r] = "flock", WouldBlock(r)
  PROVE  FALSE
<1>0. Types /\ LockInv /\ RecordInv
  BY DEF ContainerInv, TypeInv
<1>1. PICK s \in locked : s # r
  BY DEF WouldBlock
<1>2. s \in Runtimes /\ pc[s] # "idle"
  BY <1>0, <1>1 DEF Types, StateDirTypeOK, LockInv, OpenBeforeLock, Unopened
<1>3. op[s] # "delete"
  BY <1>0, <1>1, <1>2 DEF LockInv, DeleteAlone
<1>4. ~Making(s) /\ ~Loadable
  BY <1>0, <1>1, <1>2 DEF RecordInv, OneMaker, RuntimeInv, CreateInv, Childless, Loadable
<1> QED
  BY <1>1, <1>3, <1>4 DEF ExistInv

(* A create that found no state goes on until it has saved one.            *)
LEMMA MakerGoesOn ==
  ASSUME ContainerInv, ExistInv, NEW r \in Runtimes, Run(r), Making(r),
         "new" \notin Faults, "save" \notin Faults
  PROVE  Making(r)' \/ Loadable'
<1>0. /\ Types /\ ControlInv /\ RecordInv /\ RuntimeInv(r)
      /\ pc \in [Runtimes -> Labels] /\ op[r] = "create"
      /\ pc[r] \in {"fork", "save"} \cup Childless \cup Parenting
  BY DEF ContainerInv, TypeInv, RecordInv, Types, ContainerTypeOK, Making
<1>1. CASE pc[r] \in Parenting \cup {"fork"}
  <2>1. stateFile = Creating
    BY <1>0, <1>1 DEF RuntimeInv, CreateInv
  <2>2. ~Save(r) /\ ~RemoveAllUnlink(r)
    BY <1>1 DEF Save, RemoveAllUnlink, Parenting
  <2> QED
    BY <2>1, <2>2, RunWrites DEF Loadable, Creating, NoState
<1>2. CASE pc[r] = "save"
  <2>1. Save(r)
    BY <1>2 DEF Run, Load, Open, Lock, Reload, Return, Local, Create, CreateExists,
       CreateContainerDirs, New, Fork, ForkFails, CreateCgroup, RecvPrePivot, CreateRuntimeHooks,
       RecvReady, RecvInit, Start, PrestartHooks, Dial, SendStart, RecvExecReady, PoststartHooks,
       CheckProcess, Kill, Pause, Resume, SetFrozen, Delete, DeleteRefused, DeleteCgroup,
       RemoveAllList, RemoveAllUnlink, RemoveAllRmdir, RemoveSocket, PoststopHooks
  <2> QED
    BY <1>0, <1>2, <2>1, SaveWrites, SavingRecord DEF Loadable
<1>3. CASE pc[r] \in Childless
  <2>1. dir
    BY <1>0 DEF RuntimeInv, CreateInv, Making
  <2>2. New(r) \/ Open(r) \/ Lock(r)
    BY <1>3 DEF Childless, Run, Load, Reload, Save, Return, Local, Create, CreateExists,
       CreateContainerDirs, Fork, ForkFails, CreateCgroup, RecvPrePivot, CreateRuntimeHooks,
       RecvReady, RecvInit, Start, PrestartHooks, Dial, SendStart, RecvExecReady, PoststartHooks,
       CheckProcess, Kill, Pause, Resume, SetFrozen, Delete, DeleteRefused, DeleteCgroup,
       RemoveAllList, RemoveAllUnlink, RemoveAllRmdir, RemoveSocket, PoststopHooks
  <2>3. CASE New(r)
    BY <1>0, <2>3 DEF New, Local, Goto, Making, Childless
  <2>4. CASE Open(r)
    BY <1>0, <2>1, <2>4 DEF Open, OpenLockFile, Goto, Making, Childless
  <2>5. CASE Lock(r)
    BY <1>0, <2>5, MakerLocks DEF Lock, Goto, Making
  <2> QED
    BY <2>2, <2>3, <2>4, <2>5
<1> QED
  BY <1>0, <1>1, <1>2, <1>3

(* What else it takes to keep it.                                          *)
LEMMA RunDirectory ==
  ASSUME Types, NEW r \in Runtimes, Run(r)
  PROVE  /\ pc[r] # "idle"
         /\ CreateContainerDirs(r) \/ RemoveAllRmdir(r) \/ UNCHANGED dir
         /\ r \in locked' => r \in locked \/ Lock(r)
         /\ r \in locked' => op'[r] = op[r]
         /\ pc'[r] \in {"unlink", "rmdir"} => RemoveAllList(r) \/ RemoveAllUnlink(r)
         /\ pc[r] = "unlink" => RemoveAllUnlink(r)
         /\ pc[r] = "rmdir" => RemoveAllRmdir(r)
<1> USE DEF Types, ContainerTypeOK, StateDirTypeOK, Goto, Local
<1>1. CASE Load(r) \/ Open(r) \/ Lock(r)
  BY <1>1 DEF Load, Open, OpenLockFile, Lock, Flock
<1>2. CASE Reload(r) \/ Save(r)
  BY <1>2 DEF Reload, AfterReload, Save, WriteState, AfterSave, AfterFailedSave
<1>3. CASE Return(r)
  BY <1>3 DEF Return, End, Unlock
<1>4. CASE Create(r)
  BY <1>4 DEF Create, CreateExists, CreateContainerDirs, New, Fork, ForkFails, CreateCgroup,
     RecvPrePivot, CreateRuntimeHooks, RecvReady, RecvInit
<1>5. CASE Start(r)
  BY <1>5 DEF Start, PrestartHooks, Dial, SendStart, RecvExecReady, PoststartHooks
<1>6. CASE CheckProcess(r) \/ Kill(r) \/ Pause(r) \/ Resume(r)
  BY <1>6 DEF CheckProcess, Kill, Pause, Resume, SetFrozen
<1>7. CASE Delete(r)
  BY <1>7 DEF Delete, DeleteRefused, DeleteCgroup, RemoveAllList, RemoveAllUnlink, Unlink,
     RemoveAllRmdir, RemoveSocket, PoststopHooks
<1> QED
  BY <1>1, <1>2, <1>3, <1>4, <1>5, <1>6, <1>7 DEF Run

(* Every step of a command keeps it.                                       *)
LEMMA ExistRun ==
  ASSUME ContainerInv, ContainerInv', ExistInv, NEW r \in Runtimes, Run(r),
         "new" \notin Faults, "save" \notin Faults
  PROVE  ExistInv'
<1>0. /\ Types /\ LockInv /\ ControlInv /\ RecordInv /\ RuntimeInv(r)
      /\ pc \in [Runtimes -> Labels] /\ todo \in [Runtimes -> SUBSET Entries]
      /\ locked \subseteq Runtimes
  BY DEF ContainerInv, TypeInv, RecordInv, Types, ContainerTypeOK, StateDirTypeOK
<1>1. \A s \in Runtimes \ {r} :
          /\ pc'[s] = pc[s] /\ op'[s] = op[s] /\ st'[s] = st[s] /\ todo'[s] = todo[s]
          /\ s \in locked' <=> s \in locked
  BY <1>0, RunOthers
<1>2. /\ pc[r] # "idle"
      /\ CreateContainerDirs(r) \/ RemoveAllRmdir(r) \/ UNCHANGED dir
      /\ r \in locked' => r \in locked \/ Lock(r)
      /\ r \in locked' => op'[r] = op[r]
      /\ pc'[r] \in {"unlink", "rmdir"} => RemoveAllList(r) \/ RemoveAllUnlink(r)
      /\ pc[r] = "unlink" => RemoveAllUnlink(r)
      /\ pc[r] = "rmdir" => RemoveAllRmdir(r)
  BY <1>0, RunDirectory
<1>3. \A s \in Runtimes \ {r} : Making(s)' <=> Making(s)
  BY <1>1 DEF Making
<1>4. RemoveAllUnlink(r) => pc[r] = "unlink" /\ pc'[r] \in {"unlink", "rmdir"}
  BY <1>0 DEF RemoveAllUnlink, Goto
<1>5. RemoveAllRmdir(r) => ~dir' /\ UNCHANGED stateFile
  BY DEF RemoveAllRmdir, Rmdir, ExistInv
<1>6. Loadable => Loadable' \/ RemoveAllUnlink(r)
  BY <1>0, RunWrites, SavingRecord DEF Loadable, Save
<1>7. ASSUME dir', ~Loadable'
      PROVE  \E s \in Runtimes : Making(s)' \/ pc'[s] \in {"unlink", "rmdir"}
  <2>1. CASE RemoveAllUnlink(r)
    BY <1>4, <2>1
  <2>2. CASE CreateContainerDirs(r) /\ dir' # dir
    <3>1. pc[r] = "mkdir" /\ pc'[r] = "new" /\ UNCHANGED op
      BY <1>0, <2>2 DEF CreateContainerDirs, Goto
    <3>2. Making(r)'
      BY <1>0, <3>1 DEF ControlInv, Making, Childless
    <3> QED
      BY <3>2
  <2>3. CASE dir /\ ~Loadable
    <3>1. PICK s \in Runtimes : Making(s) \/ pc[s] \in {"unlink", "rmdir"}
      BY <2>3 DEF ExistInv
    <3>2. CASE s # r
      BY <1>1, <1>3, <3>1, <3>2
    <3>3. CASE s = r
      BY <1>2, <1>4, <1>5, <1>7, <3>1, <3>3, MakerGoesOn
    <3> QED
      BY <3>2, <3>3
  <2> QED
    BY <1>2, <1>5, <1>6, <1>7, <2>1, <2>2, <2>3 DEF CreateContainerDirs
<1>8. ASSUME NEW s \in locked' PROVE op'[s] = "delete" \/ Loadable' \/ Making(s)'
  <2>0. s \in Runtimes
    BY <1>8 DEF ContainerInv, TypeInv, Types, StateDirTypeOK
  <2>1. CASE s # r
    <3>1. s \in locked /\ pc[s] # "idle"
      BY <1>0, <1>1, <1>8, <2>0, <2>1 DEF LockInv, OpenBeforeLock, Unopened
    <3>2. ~RemoveAllUnlink(r)
      BY <1>0, <1>4, <2>0, <2>1, <3>1, DeleterAlone DEF Deleting
    <3> QED
      BY <1>1, <1>3, <1>6, <2>0, <2>1, <3>1, <3>2 DEF ExistInv
  <2>2. CASE s = r
    <3>1. op'[r] = op[r] /\ (RemoveAllUnlink(r) => op[r] = "delete")
      BY <1>0, <1>2, <1>4, <1>8, <2>2, DeleterAlone DEF Deleting
    <3>2. CASE r \in locked
      BY <1>6, <2>2, <3>1, <3>2, MakerGoesOn DEF ExistInv
    <3>3. CASE Lock(r)
      <4>1. pc[r] = "flock"
        BY <3>3 DEF Lock
      <4>2. op[r] = "create" => Making(r)
        BY <4>1 DEF Making, Childless
      <4>3. op[r] # "create" => Loadable
        BY <1>0, <4>1 DEF RuntimeInv, LoadInv
      <4> QED
        BY <1>6, <2>2, <3>1, <4>2, <4>3, MakerGoesOn
    <3> QED
      BY <1>2, <1>8, <2>2, <3>2, <3>3
  <2> QED
    BY <2>1, <2>2
<1>9. ASSUME NEW s \in Runtimes, pc'[s] \in {"unlink", "rmdir"}
      PROVE  s = r /\ (RemoveAllList(r) \/ RemoveAllUnlink(r))
  <2>1. s # r => pc[s] \in Deleting
    BY <1>1, <1>9 DEF Deleting
  <2>2. s = r
    BY <1>0, <1>2, <2>1, DeleterAlone
  <2> QED
    BY <1>2, <1>9, <2>2
<1>10. RemoveAllList(r) => pc'[r] = "unlink" /\ Listing' = Listing /\ todo'[r] = Listing
  BY <1>0 DEF RemoveAllList, Goto, Listing
<1>11. RemoveAllUnlink(r) => /\ Listing' \subseteq todo'[r]
                             /\ pc'[r] = "rmdir" => Listing' = {}
  <2> SUFFICES ASSUME RemoveAllUnlink(r)
               PROVE  Listing' \subseteq todo'[r] /\ (pc'[r] = "rmdir" => Listing' = {})
    OBVIOUS
  <2>1. Listing \subseteq todo[r] /\ pc[r] = "unlink"
    BY <1>4 DEF ExistInv
  <2>2. CASE todo[r] = {} /\ UNCHANGED <<todo, dirVars>>
    BY <2>1, <2>2 DEF Listing
  <2>3. ASSUME NEW e \in todo[r], Unlink(e), todo' = [todo EXCEPT ![r] = @ \ {e}], UNCHANGED pc
        PROVE  Listing' \subseteq todo'[r] /\ (pc'[r] = "rmdir" => Listing' = {})
    <3>1. todo'[r] = todo[r] \ {e} /\ pc'[r] = "unlink"
      BY <1>0, <2>1, <2>3
    <3>2. Listing' \subseteq Listing \ {e}
      BY <2>3 DEF Listing, Entries, Unlink
    <3> QED
      BY <2>1, <3>1, <3>2
  <2> QED
    BY <2>2, <2>3 DEF RemoveAllUnlink
<1> QED
  BY <1>7, <1>8, <1>9, <1>10, <1>11 DEF ExistInv

(* Every step keeps it, unless a runtime is killed, New refuses the bundle *)
(* or a save fails.                                                        *)
LEMMA ExistNext ==
  ASSUME ContainerInv, ContainerInv', ExistInv, [Next]_vars,
         "crash" \notin Faults, "new" \notin Faults, "save" \notin Faults
  PROVE  ExistInv'
<1>0. Types /\ LockInv /\ locked \subseteq Runtimes
  BY DEF ContainerInv, TypeInv, Types, StateDirTypeOK
<1>1. CASE UNCHANGED vars
  BY <1>1 DEF vars, ExistInv, Listing, Making, Loadable
<1>2. ASSUME NEW r \in Runtimes, Run(r) PROVE ExistInv'
  BY <1>2, ExistRun
<1>3. ASSUME NEW r \in Runtimes, NEW o \in Ops, Begin(r, o) PROVE ExistInv'
  <2>1. /\ UNCHANGED <<dirVars, lockVars, todo>>
        /\ pc[r] = "idle" /\ pc'[r] \in {"exists", "load"}
        /\ \A s \in Runtimes \ {r} : pc'[s] = pc[s] /\ op'[s] = op[s]
    BY <1>0, <1>3 DEF Begin, Goto, Types, ContainerTypeOK
  <2>2. ~Making(r) /\ ~Making(r)' /\ r \notin locked
    BY <1>0, <2>1 DEF Making, Childless, Parenting, LockInv, OpenBeforeLock, Unopened
  <2>3. \A s \in Runtimes \ {r} : Making(s)' <=> Making(s)
    BY <2>1 DEF Making
  <2> QED
    BY <1>0, <2>1, <2>2, <2>3 DEF ExistInv, Listing, Loadable
<1>4. ASSUME NEW p \in Pids, Environment(p) PROVE ExistInv'
  BY <1>4 DEF Environment, ExistInv, Listing, Making, Loadable
<1> QED
  BY <1>1, <1>2, <1>3, <1>4 DEF Next, Crash

(* Between commands a container that exists can be loaded, and so deleted, *)
(* unless a runtime was killed, New refused the bundle or a save failed.   *)
THEOREM ExistsCorrect ==
  ASSUME SerialDelete, "crash" \notin Faults, "new" \notin Faults, "save" \notin Faults
  PROVE  Spec => []ExistsMeansLoadable
<1>1. Init => ExistInv
  BY DEF Init, StateDirInit, ExistInv
<1>2. ContainerInv /\ ContainerInv' /\ ExistInv /\ [Next]_vars => ExistInv'
  BY ExistNext
<1>3. ExistInv => ExistsMeansLoadable
  BY DEF ExistInv, ExistsMeansLoadable, Exists, AllIdle, Making, Childless, Parenting
<1> QED
  BY <1>1, <1>2, <1>3, Invariance, PTL DEF Spec

-----------------------------------------------------------------------------
(* start and the process it talks to.                                      *)

(* Nobody has connected to the process, and it waits for somebody.         *)
Untouched(p) == ~conn[p].used /\ (Alive(p) => proc[p] \in SettingUp \cup {"accept"})

(* Nobody has sent it the start message.                                   *)
Unsent(p) == ~conn[p].start /\ (Alive(p) => proc[p] \in SettingUp \cup Waiting)

(* A start between its connection and its save.                            *)
Talking(r) == pc[r] \in {"sendStart", "recvExecReady"} \/ (pc[r] = "save" /\ op[r] = "start")

(* Only the living listen and are connected.                               *)
SocketInv ==
    /\ sock # None => Alive(sock)
    /\ \A p \in Pids : /\ conn[p].used => Alive(p)
                       /\ conn[p].cli # None \/ conn[p].start => conn[p].used

(* A process that is being created or has been is untouched until a start  *)
(* talks to it, and what that start finds out about it is true.            *)
TalkInv ==
    /\ SocketInv
    /\ stateFile.status = "created" =>
          Untouched(stateFile.pid) \/ \E r \in Runtimes : Talking(r)
    /\ \A r \in Runtimes :
          /\ Making(r) /\ st[r].pid # None /\ pc[r] \notin Childless => Untouched(st[r].pid)
          /\ pc[r] = "sendStart" => Unsent(stateFile.pid)
          /\ pc[r] \in {"sendStart", "recvExecReady"} /\ peer[r] = None => ~Alive(stateFile.pid)

(* A step that makes no connection and sends nothing.                      *)
Disconnecting(r) ==
    /\ UNCHANGED proc
    /\ sock' \in {sock, None}
    /\ \A s \in Runtimes \ {r} : peer'[s] = peer[s]
    /\ \A p \in Pids : /\ conn'[p].used = conn[p].used
                       /\ conn'[p].start = conn[p].start
                       /\ conn'[p].cli \in {conn[p].cli, None}

(* What a command's step does to connections.                              *)
LEMMA RunConnections ==
  ASSUME Types, NEW r \in Runtimes, Run(r)
  PROVE  \/ Fork(r) \/ Dial(r) \/ SendStart(r)
         \/ \E S : Terminate(S)
         \/ Disconnecting(r)
<1>0. UNCHANGED <<proc, conn, peer>> /\ sock' \in {sock, None} => Disconnecting(r)
  BY DEF Disconnecting
<1> USE DEF Local
<1>1. CASE Load(r) \/ Open(r) \/ Lock(r) \/ Reload(r) \/ Save(r)
  BY <1>0, <1>1 DEF Load, Open, Lock, Reload, Save
<1>2. CASE Return(r)
  <2>1. UNCHANGED <<proc, sock>> /\ CloseConnections(r)
    BY <1>2 DEF Return, End
  <2>2. \A s \in Runtimes \ {r} : peer'[s] = peer[s]
    BY <2>1 DEF CloseConnections, Types, InitProcessTypeOK
  <2>3. ASSUME NEW p \in Pids PROVE /\ conn'[p].used = conn[p].used
                                    /\ conn'[p].start = conn[p].start
                                    /\ conn'[p].cli \in {conn[p].cli, None}
    <3>1. conn[p] \in Conn
      BY DEF Types, InitProcessTypeOK
    <3>2. conn'[p] = conn[p] \/ conn'[p] = [conn[p] EXCEPT !.cli = None]
      BY <2>1 DEF CloseConnections
    <3> QED
      BY <3>1, <3>2 DEF Conn
  <2> QED
    BY <2>1, <2>2, <2>3 DEF Disconnecting
<1>3. CASE Create(r)
  BY <1>0, <1>3 DEF Create, CreateExists, CreateContainerDirs, New, ForkFails, CreateCgroup,
     RecvPrePivot, CreateRuntimeHooks, RecvReady, RecvInit
<1>4. CASE Start(r)
  BY <1>0, <1>4 DEF Start, PrestartHooks, RecvExecReady, PoststartHooks
<1>5. CASE CheckProcess(r) \/ Pause(r) \/ Resume(r)
  BY <1>0, <1>5 DEF CheckProcess, Pause, Resume, SetFrozen
<1>6. CASE Kill(r)
  BY <1>0, <1>6 DEF Kill, Signal
<1>7. CASE Delete(r)
  BY <1>0, <1>7 DEF Delete, DeleteRefused, DeleteCgroup, RemoveAllList, RemoveAllUnlink,
     RemoveAllRmdir, RemoveSocket, PoststopHooks
<1> QED
  BY <1>1, <1>2, <1>3, <1>4, <1>5, <1>6, <1>7 DEF Run

(* The end of processes ends what they are connected to.                   *)
LEMMA TerminateTouch ==
  ASSUME Types, SocketInv, NEW S, Terminate(S)
  PROVE  /\ SocketInv'
         /\ \A p \in Pids : (Untouched(p) => Untouched(p)') /\ (Unsent(p) => Unsent(p)')
         /\ \A s \in Runtimes : \A q \in Pids : peer[s] = q /\ peer'[s] = None => ~Alive(q)'
<1>1. \A p \in Pids : Alive(p)' <=> Alive(p) /\ p \notin S
  BY TerminateAlive
<1>2. \A p \in Pids : Alive(p)' => proc'[p] = proc[p]
  BY <1>1 DEF Terminate, Alive, Live, SettingUp, Waiting, Starting
<1>3. \A p \in Pids : conn'[p] = IF p \in S THEN NoConn ELSE conn[p]
  BY DEF Terminate
<1>4. sock' = IF sock \in S THEN None ELSE sock
  BY DEF Terminate
<1>5. SocketInv'
  <2>1. sock' # None => Alive(sock)'
    BY <1>1, <1>4 DEF SocketInv, Types, InitProcessTypeOK
  <2>2. ~NoConn.used /\ NoConn.cli = None /\ ~NoConn.start
    BY DEF NoConn
  <2> QED
    BY <1>1, <1>3, <2>1, <2>2 DEF SocketInv
<1>6. \A p \in Pids : (Untouched(p) => Untouched(p)') /\ (Unsent(p) => Unsent(p)')
  BY <1>1, <1>2, <1>3 DEF Untouched, Unsent, NoConn
<1>7. \A s \in Runtimes : \A q \in Pids : peer[s] = q /\ peer'[s] = None => ~Alive(q)'
  BY <1>1, StateDirAssumption DEF Terminate
<1> QED
  BY <1>5, <1>6, <1>7

(* A command's step.                                                       *)
LEMMA TouchRun ==
  ASSUME Types, SocketInv, NEW r \in Runtimes, Run(r)
  PROVE  /\ SocketInv'
         /\ \A p \in Pids : /\ Untouched(p) => Untouched(p)' \/ Dial(r)
                            /\ Unsent(p) => Unsent(p)' \/ SendStart(r)
         /\ \A s \in Runtimes \ {r} : \A q \in Pids :
               peer[s] = q /\ peer'[s] = None => ~Alive(q)'
<1> USE DEF Types, InitProcessTypeOK
<1>1. CASE Fork(r)
  <2>1. PICK p \in Pids : /\ proc[p] = "free" /\ proc' = [proc EXCEPT ![p] = "boot"] /\ sock' = p
                          /\ UNCHANGED <<conn, peer>>
    BY <1>1 DEF Fork
  <2>2. Alive(p)' /\ ~Alive(p) /\ proc'[p] \in SettingUp
        /\ \A q \in Pids \ {p} : proc'[q] = proc[q] /\ (Alive(q)' <=> Alive(q))
    BY <2>1 DEF Alive, Live, SettingUp, Waiting, Starting
  <2>3. SocketInv'
    BY <2>1, <2>2 DEF SocketInv
  <2>4. \A q \in Pids : (Untouched(q) => Untouched(q)') /\ (Unsent(q) => Unsent(q)')
    BY <2>1, <2>2 DEF Untouched, Unsent
  <2> QED
    BY <2>1, <2>3, <2>4, StateDirAssumption
<1>2. CASE Dial(r)
  <2>1. UNCHANGED <<proc, sock>> /\ \A s \in Runtimes \ {r} : peer'[s] = peer[s]
    BY <1>2 DEF Dial
  <2>2. \A p \in Pids : conn'[p] = conn[p]
            \/ (p = sock /\ conn'[p] = [used |-> TRUE, cli |-> r, start |-> FALSE])
    BY <1>2 DEF Dial
  <2>3. \A p \in Pids : conn'[p] = conn[p] \/ (p = sock /\ conn'[p].used /\ ~conn'[p].start)
    BY <2>2
  <2>4. SocketInv'
    <3>1. \A p \in Pids : (Alive(p)' <=> Alive(p)) /\ (p = sock => Alive(p))
      BY <2>1, StateDirAssumption DEF SocketInv, Alive
    <3>2. sock' # None => Alive(sock)'
      BY <2>1, <3>1
    <3> QED
      BY <2>3, <3>1, <3>2 DEF SocketInv
  <2>5. \A p \in Pids : Unsent(p) => Unsent(p)'
    BY <2>1, <2>3 DEF Unsent, Alive
  <2> QED
    BY <1>2, <2>1, <2>4, <2>5, StateDirAssumption
<1>3. CASE SendStart(r)
  <2>1. UNCHANGED <<proc, sock, peer>>
    BY <1>3 DEF SendStart
  <2>2. ASSUME NEW p \in Pids
        PROVE  /\ conn'[p].used = conn[p].used /\ conn'[p].cli = conn[p].cli
               /\ conn'[p].start = conn[p].start \/ conn[p].cli = r
    <3>1. conn[p] \in Conn
      OBVIOUS
    <3>2. conn'[p] = conn[p] \/ (conn[p].cli = r /\ conn'[p] = [conn[p] EXCEPT !.start = TRUE])
      BY <1>3 DEF SendStart
    <3> QED
      BY <3>1, <3>2 DEF Conn
  <2>3. SocketInv'
    BY <2>1, <2>2, StateDirAssumption DEF SocketInv, Alive
  <2>4. \A p \in Pids : Untouched(p) => Untouched(p)'
    BY <2>1, <2>2 DEF Untouched, Alive
  <2> QED
    BY <1>3, <2>1, <2>3, <2>4, StateDirAssumption
<1>4. CASE \E S : Terminate(S)
  BY <1>4, TerminateTouch
<1>5. CASE Disconnecting(r)
  <2>1. SocketInv'
    BY <1>5 DEF Disconnecting, SocketInv, Alive
  <2>2. \A p \in Pids : (Untouched(p) => Untouched(p)') /\ (Unsent(p) => Unsent(p)')
    BY <1>5 DEF Disconnecting, Untouched, Unsent, Alive
  <2> QED
    BY <1>5, <2>1, <2>2, StateDirAssumption DEF Disconnecting
<1> QED
  BY <1>1, <1>2, <1>3, <1>4, <1>5, RunConnections

(* A step of a process: it accepts who has connected and reads what was    *)
(* sent.                                                                   *)
LEMMA TouchEnvironment ==
  ASSUME Types, SocketInv, NEW p \in Pids, Environment(p)
  PROVE  /\ SocketInv'
         /\ \A q \in Pids : (Untouched(q) => Untouched(q)') /\ (Unsent(q) => Unsent(q)')
         /\ \A s \in Runtimes : \A q \in Pids : peer[s] = q /\ peer'[s] = None => ~Alive(q)'
<1> USE DEF Types, InitProcessTypeOK
<1>1. CASE Terminate({p})
  BY <1>1, TerminateTouch
<1>2. CASE /\ UNCHANGED <<conn, sock, peer>>
           /\ \A q \in Pids : proc'[q] \in Live <=> proc[q] \in Live
           /\ ~Terminate({p})
  <2>1. SocketInv'
    BY <1>2 DEF SocketInv, Alive
  <2>2. ASSUME NEW from, NEW to, Step(p, from, to),
               ~conn[p].used /\ from \in SettingUp \cup {"accept"} => to \in SettingUp \cup {"accept"},
               ~conn[p].start /\ from \in SettingUp \cup Waiting => to \in SettingUp \cup Waiting,
               from \in Live
        PROVE  \A q \in Pids : (Untouched(q) => Untouched(q)') /\ (Unsent(q) => Unsent(q)')
    BY <1>2, <2>2 DEF Step, Untouched, Unsent, Alive
  <2>3. \A q \in Pids : (Untouched(q) => Untouched(q)') /\ (Unsent(q) => Unsent(q)')
    <3> USE DEF Live, SettingUp, Waiting, Starting, Exit
    <3>1. CASE SendPrePivot(p) \/ SetupPrePivot(p) \/ LookPath(p) \/ CreateContainerHooks(p)
               \/ SendReady(p)
      BY <1>2, <2>2, <3>1 DEF SendPrePivot, SetupPrePivot, LookPath, CreateContainerHooks,
         SendReady, SendInit
    <3>2. CASE Accept(p) \/ RecvStart(p) \/ SetupPostPivot(p) \/ StartContainerHooks(p)
               \/ SendExecReady(p) \/ ExecUserProcess(p)
      BY <1>2, <2>2, <3>2 DEF Accept, RecvStart, SetupPostPivot, StartContainerHooks,
         SendExecReady, ExecUserProcess
    <3>3. CASE InvalidExecutable(p) \/ ReexecFails(p) \/ UserExit(p)
      BY <1>2, <3>3 DEF InvalidExecutable, ReexecFails, UserExit
    <3>4. CASE Reap(p) \/ Foreign(p)
      BY <1>2, <3>4 DEF Reap, Foreign, Untouched, Unsent, Alive
    <3> QED
      BY <3>1, <3>2, <3>3, <3>4 DEF Environment, Reexec
  <2> QED
    BY <1>2, <2>1, <2>3, StateDirAssumption
<1> QED
  BY <1>1, <1>2, EnvironmentProcesses

(* How a start goes on, and a create that has just begun.                  *)
LEMMA RunTalking ==
  ASSUME Types, ControlInv, NEW r \in Runtimes, Run(r)
  PROVE  /\ Talking(r) => \/ Talking(r)' \/ Save(r)
                          \/ peer[r] = None /\ pc[r] \in {"sendStart", "recvExecReady"}
         /\ pc'[r] = "sendStart" => Dial(r) /\ sock # None /\ peer'[r] = sock
         /\ pc'[r] = "recvExecReady" => peer[r] # None /\ peer'[r] = peer[r]
         /\ Dial(r) => Talking(r)' \/ UNCHANGED <<proc, conn>>
         /\ pc[r] = "new" => pc'[r] \in {"open", "return"}
<1>0. pc \in [Runtimes -> Labels] /\ peer \in [Runtimes -> Pids \cup {None}]
  BY DEF Types, ContainerTypeOK, InitProcessTypeOK
<1>00. pc[r] \in {"sendStart", "recvExecReady"} => op[r] = "start"
  BY DEF ControlInv
<1> USE <1>0, <1>00 DEF Goto, Local, Talking
<1>1. CASE Load(r) \/ Open(r) \/ Lock(r) \/ Reload(r)
  BY <1>1 DEF Load, Open, Lock, Reload, AfterReload, Dial
<1>2. CASE Save(r) \/ Return(r)
  BY <1>2 DEF Save, AfterSave, AfterFailedSave, Return, End, Dial
<1>3. CASE Create(r)
  BY <1>3 DEF Create, CreateExists, CreateContainerDirs, New, Fork, ForkFails, CreateCgroup,
     RecvPrePivot, CreateRuntimeHooks, RecvReady, RecvInit, Dial
<1>4. CASE Dial(r)
  <2>1. /\ pc[r] = "dial" /\ proc' = proc /\ sock' = sock
        /\ \/ sock # None /\ pc'[r] = "sendStart" /\ peer'[r] = sock
           \/ pc'[r] = "return" /\ UNCHANGED conn
    BY <1>4 DEF Dial
  <2> QED
    BY <1>4, <2>1
<1>5. CASE SendStart(r)
  <2>1. /\ pc[r] = "sendStart" /\ op' = op /\ peer' = peer
        /\ \/ peer[r] # None /\ pc'[r] \in {"recvExecReady", "save"}
           \/ peer[r] = None /\ pc'[r] = "return"
    BY <1>5 DEF SendStart
  <2> QED
    BY <2>1 DEF Dial
<1>6. CASE PrestartHooks(r) \/ RecvExecReady(r) \/ PoststartHooks(r)
  BY <1>6 DEF PrestartHooks, RecvExecReady, PoststartHooks, Dial
<1>7. CASE CheckProcess(r) \/ Kill(r) \/ Pause(r) \/ Resume(r)
  BY <1>7 DEF CheckProcess, Kill, Pause, Resume, SetFrozen, Dial
<1>8. CASE Delete(r)
  BY <1>8 DEF Delete, DeleteRefused, DeleteCgroup, RemoveAllList, RemoveAllUnlink,
     RemoveAllRmdir, RemoveSocket, PoststopHooks, Dial
<1> QED
  BY <1>1, <1>2, <1>3, <1>4, <1>5, <1>6, <1>7, <1>8 DEF Run, Start

(* A process in the making is untouched after a step of a command.         *)
LEMMA MakingRun ==
  ASSUME ContainerInv, TalkInv, NEW r \in Runtimes, Run(r),
         NEW s \in Runtimes, NEW p \in Pids, Making(s)', st'[s].pid = p, pc'[s] \notin Childless
  PROVE  Untouched(p)'
<1>0. /\ Types /\ ControlInv /\ RecordInv /\ SocketInv
      /\ RuntimeInv(r) /\ RuntimeInv(s) /\ st \in [Runtimes -> State] /\ None \notin Pids
  BY StateDirAssumption DEF ContainerInv, TypeInv, RecordInv, TalkInv, Types, ContainerTypeOK
<1>1. ASSUME Making(s), st'[s].pid = st[s].pid, ~Fork(r),
             s # r => pc[s] \notin Childless
      PROVE  Untouched(p)'
  <2>1. pc[s] \notin Childless
    <3>1. ASSUME s = r, pc[r] \in Childless PROVE FALSE
      <4>1. op[r] = "create" /\ CreateInv(r)
        BY <1>0, <1>1, <3>1 DEF Making, RuntimeInv
      <4>2. CASE pc[r] = "new"
        BY <1>0, <3>1, <4>2, RunTalking DEF Making, Childless, Parenting
      <4> QED
        BY <1>0, <1>1, <3>1, <4>1, <4>2 DEF Childless, CreateInv, Making, Creating
    <3> QED
      BY <1>1, <3>1
  <2>2. Untouched(p)
    BY <1>0, <1>1, <2>1 DEF TalkInv
  <2>3. ~Dial(r)
    <3>1. SUFFICES ASSUME Dial(r) PROVE FALSE
      OBVIOUS
    <3>2. stateFile.status = "created"
      BY <1>0, <3>1 DEF Dial, RuntimeInv, FreshInv, Fresh
    <3>3. stateFile \in {Creating, NoState}
      BY <1>0, <1>1 DEF RuntimeInv, CreateInv, Making
    <3> QED
      BY <3>2, <3>3 DEF Creating, NoState
  <2> QED
    BY <1>0, <2>2, <2>3, TouchRun
<1>2. CASE Fork(r) /\ s = r
  <2>1. PICK q \in Pids : /\ proc[q] = "free" /\ proc' = [proc EXCEPT ![q] = "boot"]
                          /\ st' = [st EXCEPT ![r].pid = q] /\ UNCHANGED conn
    BY <1>2 DEF Fork
  <2>2. q = p
    BY <1>0, <1>2, <2>1 DEF State
  <2>3. proc'[p] = "boot" /\ ~Alive(p)
    BY <1>0, <2>1, <2>2 DEF Types, InitProcessTypeOK, Alive, Live, SettingUp, Waiting, Starting
  <2>4. ~conn'[p].used
    BY <1>0, <2>1, <2>3 DEF SocketInv
  <2> QED
    BY <2>4, <2>3 DEF Untouched, SettingUp
<1>3. CASE s # r
  <2>1. Making(s) /\ st'[s].pid = st[s].pid /\ pc[s] \notin Childless
    BY <1>0, <1>3, RunOthers DEF Making
  <2>2. ~Fork(r)
    <3>1. Fork(r) => Making(r)
      BY DEF Fork, ContainerInv, ControlInv, Making
    <3> QED
      BY <1>0, <1>3, <2>1, <3>1 DEF RecordInv, OneMaker
  <2> QED
    BY <1>1, <2>1, <2>2
<1> QED
  BY <1>1, <1>2, <1>3, RunMaking

(* So is one that is recorded as created, unless a start talks to it.      *)
LEMMA CreatedRun ==
  ASSUME ContainerInv, TalkInv, NEW r \in Runtimes, Run(r), "save" \notin Faults,
         NEW p \in Pids, stateFile'.status = "created", stateFile'.pid = p
  PROVE  Untouched(p)' \/ \E s \in Runtimes : Talking(s)'
<1>0. Types /\ ControlInv /\ RecordInv /\ SocketInv /\ RuntimeInv(r)
  BY DEF ContainerInv, TypeInv, RecordInv, TalkInv
<1>1. ASSUME Untouched(p) PROVE Untouched(p)' \/ Talking(r)'
  <2>1. CASE ~Dial(r)
    BY <1>0, <1>1, <2>1, TouchRun
  <2>2. CASE UNCHANGED <<proc, conn>>
    BY <1>1, <2>2 DEF Untouched, Alive
  <2> QED
    BY <1>0, <2>1, <2>2, RunTalking
<1>2. Save(r) => stateFile' = st[r] /\ pc[r] = "save" /\ op[r] = "create"
  <2>1. SUFFICES ASSUME Save(r) PROVE stateFile' = st[r] /\ pc[r] = "save" /\ op[r] = "create"
    OBVIOUS
  <2>2. stateFile' = st[r] /\ pc[r] = "save"
    BY <2>1, SaveWrites DEF Save
  <2> QED
    BY <1>0, <2>2 DEF ControlInv, RuntimeInv, SaveInv
<1>3. CASE stateFile' = stateFile
  <2>1. ASSUME NEW s \in Runtimes, s # r, Talking(s) PROVE Talking(s)'
    BY <1>0, <2>1, RunOthers DEF Talking
  <2>2. ASSUME peer[r] = None, pc[r] \in {"sendStart", "recvExecReady"} PROVE Untouched(p)
    BY <1>3, <2>2 DEF TalkInv, SocketInv, Untouched
  <2>3. Talking(r) => ~Save(r)
    BY <1>2 DEF Talking
  <2> QED
    BY <1>0, <1>1, <1>3, <2>1, <2>2, <2>3, RunTalking DEF TalkInv
<1>4. CASE stateFile' # stateFile
  <2>1. Save(r)
    BY <1>4, RunWrites DEF NoState
  <2>2. Untouched(p)
    BY <1>2, <2>1, StateDirAssumption DEF TalkInv, Making, Childless
  <2> QED
    BY <1>1, <2>2
<1> QED
  BY <1>3, <1>4

(* Every step of a command keeps the invariant.                            *)
LEMMA TalkRun ==
  ASSUME ContainerInv, ContainerInv', TalkInv, NEW r \in Runtimes, Run(r), UNCHANGED hasProcess,
         "save" \notin Faults
  PROVE  TalkInv'
<1>0. /\ Types /\ LockInv /\ ControlInv /\ RecordInv /\ SocketInv /\ RuntimeInv(r)
      /\ stateFile' \in State /\ st' \in [Runtimes -> State] /\ None \notin Pids
      /\ FileInv' /\ peer \in [Runtimes -> Pids \cup {None}]
  BY StateDirAssumption DEF ContainerInv, TypeInv, RecordInv, TalkInv, Types, StateDirTypeOK,
     ContainerTypeOK, InitProcessTypeOK
<1>1. SocketInv'
  BY <1>0, TouchRun
<1>2. stateFile'.status = "created" =>
          Untouched(stateFile.pid)' \/ \E s \in Runtimes : Talking(s)'
  <2>1. stateFile'.status = "created" => stateFile'.pid \in Pids
    BY <1>0 DEF FileInv, State
  <2>2. \A p \in Pids : stateFile'.status = "created" /\ stateFile'.pid = p =>
            Untouched(p)' \/ \E s \in Runtimes : Talking(s)'
    BY CreatedRun
  <2> QED
    BY <2>1, <2>2
<1>3. ASSUME NEW s \in Runtimes, Making(s)', st'[s].pid # None, pc'[s] \notin Childless
      PROVE  Untouched(st[s].pid)'
  <2>1. st'[s].pid \in Pids
    BY <1>0, <1>3 DEF State
  <2>2. \A p \in Pids : st'[s].pid = p => Untouched(p)'
    BY <1>3, MakingRun
  <2> QED
    BY <2>1, <2>2
<1>4. ASSUME NEW s \in Runtimes, pc'[s] \in {"sendStart", "recvExecReady"}
      PROVE  /\ pc'[s] = "sendStart" => Unsent(stateFile.pid)'
             /\ peer'[s] = None => ~Alive(stateFile.pid)'
  <2>0. RuntimeInv(s) /\ RuntimeInv(s)'
    BY DEF ContainerInv, RecordInv
  <2>1. CASE s = r
    <3>1. CASE pc'[r] = "sendStart"
      <4>1. Dial(r) /\ sock # None /\ peer'[r] = sock /\ pc[r] = "dial"
        BY <1>0, <3>1, RunTalking DEF Dial
      <4>2. UNCHANGED stateFile /\ stateFile.status = "created" /\ stateFile.pid \in Pids
        BY <1>0, <4>1 DEF Dial, RuntimeInv, FreshInv, Fresh, RecordInv, FileInv, State, Types,
           StateDirTypeOK
      <4>3. \A t \in Runtimes : ~Talking(t)
        BY <1>0, <4>1, Alone DEF Talking, Unopened
      <4>4. Unsent(stateFile.pid)
        BY <1>0, <4>2, <4>3 DEF TalkInv, Untouched, Unsent, SocketInv, Waiting
      <4>5. ~SendStart(r)
        BY <4>1 DEF SendStart
      <4>6. \A p \in Pids : stateFile'.pid = p => Unsent(p)'
        BY <1>0, <4>2, <4>4, <4>5, TouchRun
      <4> QED
        BY <2>1, <4>1, <4>2, <4>6
    <3>2. CASE pc'[r] = "recvExecReady"
      BY <1>0, <2>1, <3>2, RunTalking
    <3> QED
      BY <1>4, <2>1, <3>1, <3>2
  <2>2. CASE s # r
    <3>1. pc[s] = pc'[s] /\ st'[s] = st[s]
      BY <1>0, <2>2, RunOthers
    <3>2. stateFile'.pid = stateFile.pid /\ stateFile.pid \in Pids
      BY <1>0, <1>4, <2>0, <3>1 DEF RuntimeInv, FreshInv, Fresh, RecordInv, FileInv, State
    <3>3. ~SendStart(r)
      BY <1>0, <1>4, <2>2, <3>1, Alone DEF SendStart, Unopened
    <3>4. ASSUME pc'[s] = "sendStart" PROVE Unsent(stateFile.pid)'
      <4>1. \A p \in Pids : stateFile'.pid = p => Unsent(p)'
        BY <1>0, <3>1, <3>2, <3>3, <3>4, TouchRun DEF TalkInv
      <4> QED
        BY <3>2, <4>1
    <3>5. ASSUME peer'[s] = None PROVE ~Alive(stateFile.pid)'
      <4>1. CASE peer[s] = None
        <5>1. ~Alive(stateFile.pid)
          BY <1>4, <3>1, <4>1 DEF TalkInv
        <5>2. Next
          BY DEF Next
        <5>3. Onward(stateFile.pid)
          BY <1>0, <3>2, <5>2, NextOnward
        <5> QED
          BY <3>2, <5>1, <5>3 DEF Onward, Alive
      <4>2. CASE peer[s] # None
        <5>1. peer[s] = stateFile.pid
          BY <2>0, <4>2 DEF RuntimeInv, ConnectedInv
        <5>2. \A p \in Pids : stateFile'.pid = p => ~Alive(p)'
          BY <1>0, <2>2, <3>2, <3>5, <5>1, TouchRun
        <5> QED
          BY <3>2, <5>2
      <4> QED
        BY <4>1, <4>2
    <3> QED
      BY <3>4, <3>5
  <2> QED
    BY <2>1, <2>2
<1> QED
  BY <1>1, <1>2, <1>3, <1>4 DEF TalkInv

(* Every step keeps it, unless a runtime is killed or a save fails.        *)
LEMMA TalkNext ==
  ASSUME ContainerInv, ContainerInv', TalkInv, [Next]_vars,
         "crash" \notin Faults, "save" \notin Faults
  PROVE  TalkInv'
<1>0. /\ Types /\ ControlInv /\ RecordInv /\ SocketInv /\ stateFile \in State
      /\ st \in [Runtimes -> State] /\ None \notin Pids
  BY StateDirAssumption DEF ContainerInv, TypeInv, TalkInv, Types, StateDirTypeOK, ContainerTypeOK
<1>1. CASE UNCHANGED vars
  BY <1>1 DEF vars, TalkInv, SocketInv, Untouched, Unsent, Alive, Talking, Making
<1>2. ASSUME NEW r \in Runtimes, Run(r), UNCHANGED hasProcess PROVE TalkInv'
  BY <1>2, TalkRun
<1>3. ASSUME NEW r \in Runtimes, NEW o \in Ops, Begin(r, o) PROVE TalkInv'
  <2>1. /\ UNCHANGED <<stateFile, st, proc, conn, peer, sock>>
        /\ pc[r] = "idle" /\ pc'[r] \in {"exists", "load"}
        /\ \A s \in Runtimes \ {r} : pc'[s] = pc[s] /\ op'[s] = op[s]
    BY <1>0, <1>3 DEF Begin, Goto, Types, ContainerTypeOK
  <2>2. ~Making(r)' /\ ~Talking(r)
    BY <2>1 DEF Making, Talking, Childless, Parenting
  <2>3. \A s \in Runtimes \ {r} : (Making(s)' <=> Making(s)) /\ (Talking(s)' <=> Talking(s))
    BY <2>1 DEF Making, Talking
  <2> QED
    BY <2>1, <2>2, <2>3 DEF TalkInv, SocketInv, Untouched, Unsent, Alive
<1>4. ASSUME NEW p \in Pids, Environment(p) PROVE TalkInv'
  <2>1. UNCHANGED <<stateFile, pc, op, st>>
    BY <1>0, <1>4, EnvironmentProcesses
  <2>2. /\ SocketInv'
        /\ \A q \in Pids : (Untouched(q) => Untouched(q)') /\ (Unsent(q) => Unsent(q)')
        /\ \A s \in Runtimes : \A q \in Pids : peer[s] = q /\ peer'[s] = None => ~Alive(q)'
    BY <1>0, <1>4, TouchEnvironment
  <2>3. \A s \in Runtimes : (Making(s)' <=> Making(s)) /\ (Talking(s)' <=> Talking(s))
    BY <2>1 DEF Making, Talking
  <2>4. stateFile'.status = "created" =>
            Untouched(stateFile.pid)' \/ \E s \in Runtimes : Talking(s)'
    <3>1. stateFile.status = "created" => stateFile.pid \in Pids
      BY <1>0 DEF RecordInv, FileInv, State
    <3>2. \A q \in Pids : stateFile.pid = q /\ Untouched(q) => Untouched(stateFile.pid)'
      BY <2>1, <2>2
    <3> QED
      BY <2>1, <2>3, <3>1, <3>2 DEF TalkInv
  <2>5. ASSUME NEW s \in Runtimes, Making(s)', st'[s].pid # None, pc'[s] \notin Childless
        PROVE  Untouched(st[s].pid)'
    <3>1. st[s].pid \in Pids /\ Untouched(st[s].pid)
      BY <1>0, <2>1, <2>3, <2>5 DEF TalkInv, State
    <3>2. \A q \in Pids : st[s].pid = q /\ Untouched(q) => Untouched(st[s].pid)'
      BY <2>1, <2>2
    <3> QED
      BY <3>1, <3>2
  <2>6. ASSUME NEW s \in Runtimes, pc'[s] \in {"sendStart", "recvExecReady"}
        PROVE  /\ pc'[s] = "sendStart" => Unsent(stateFile.pid)'
               /\ peer'[s] = None => ~Alive(stateFile.pid)'
    <3>0. RuntimeInv(s)
      BY <1>0 DEF RecordInv
    <3>1. stateFile.pid \in Pids
      BY <1>0, <2>1, <2>6, <3>0 DEF RuntimeInv, FreshInv, Fresh, RecordInv, FileInv, State
    <3>2. \A q \in Pids : stateFile.pid = q /\ Unsent(q) => Unsent(stateFile.pid)'
      BY <2>1, <2>2
    <3>3. ASSUME peer'[s] = None, peer[s] = None PROVE ~Alive(stateFile.pid)'
      <4>1. ~Alive(stateFile.pid) /\ Onward(stateFile.pid)
        BY <1>0, <1>4, <2>1, <2>6, <3>1, <3>3, EnvironmentOnward DEF TalkInv
      <4> QED
        BY <2>1, <3>1, <4>1 DEF Onward, Alive
    <3>4. ASSUME peer'[s] = None, peer[s] # None PROVE ~Alive(stateFile.pid)'
      <4>1. peer[s] = stateFile.pid
        BY <3>0, <3>4 DEF RuntimeInv, ConnectedInv
      <4>2. \A q \in Pids : stateFile.pid = q => ~Alive(stateFile.pid)'
        BY <2>1, <2>2, <3>4, <4>1
      <4> QED
        BY <3>1, <4>2
    <3> QED
      BY <2>1, <2>6, <3>1, <3>2, <3>3, <3>4 DEF TalkInv
  <2> QED
    BY <2>1, <2>2, <2>4, <2>5, <2>6 DEF TalkInv
<1> QED
  BY <1>1, <1>2, <1>3, <1>4 DEF Next, Crash

(* The process that answers start on the container's socket is still the   *)
(* runtime's own code, unless a runtime was killed or a save failed: one   *)
(* start at a time reaches it, and only while nobody has told it to go on. *)
THEOREM TalkCorrect ==
  ASSUME SerialDelete, "crash" \notin Faults, "save" \notin Faults
  PROVE  Spec => []StartTalksToRuntime
<1>1. Init => TalkInv
  <2>1. SUFFICES ASSUME Init PROVE TalkInv
    OBVIOUS
  <2>2. /\ stateFile = NoState /\ sock = None /\ \A p \in Pids : conn[p] = NoConn
        /\ \A r \in Runtimes : pc[r] = "idle"
    BY <2>1 DEF Init, InitProcessInit, StateDirInit
  <2>3. SocketInv
    BY <2>2 DEF SocketInv, NoConn
  <2> QED
    BY <2>2, <2>3 DEF TalkInv, NoState, Making, Childless, Parenting
<1>2. ContainerInv /\ ContainerInv' /\ TalkInv /\ [Next]_vars => TalkInv'
  BY TalkNext
<1>3. ContainerInv /\ TalkInv => StartTalksToRuntime
  <2>1. SUFFICES ASSUME ContainerInv, TalkInv, NEW r \in Runtimes, pc[r] = "sendStart", peer[r] # None
                 PROVE  proc[peer[r]] # "user"
    BY DEF StartTalksToRuntime
  <2>2. peer[r] = stateFile.pid /\ peer[r] \in Pids
    BY <2>1 DEF ContainerInv, RecordInv, RuntimeInv, ConnectedInv, TypeInv, Types,
       InitProcessTypeOK
  <2> QED
    BY <2>1, <2>2 DEF TalkInv, Unsent, Alive, Live, SettingUp, Waiting
<1> QED
  BY <1>1, <1>2, <1>3, Invariance, PTL DEF Spec
=============================================================================
