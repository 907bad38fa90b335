---------------------------- MODULE SetupProofs -----------------------------
(***************************************************************************)
(* What Setup guarantees for every set of configurations: the hooks, the   *)
(* namespaces, the host name, the host's mounts, and where the process has *)
(* its root.                                                               *)
(***************************************************************************)
EXTENDS Setup, MountTreeProofs

(* Before the createContainer hooks; afterwards, and before the            *)
(* startContainer hooks.                                                   *)
Early == PrePivot \cup {"detach"}
Between == {"waitStart"} \cup PostPivot

(* The hooks of the first phase, and of both.                              *)
First == Len(conf.createContainer)
Both == First + Len(conf.startContainer)

(* So far n hooks ran, and every one ended well.                           *)
AllWell(n) == exits \in Seq({"ok"}) /\ Len(exits) = n

(* A phase that begins after m hooks and ends after n: every hook that has *)
(* returned without an error has ended well, and the rest is to do.        *)
PhaseInv(m, n) ==
    /\ hook.state = "idle" => AllWell(m)
    /\ hook.state \in {"lookup", "start", "running", "zombie", "reaped"} =>
          /\ todo # <<>>
          /\ exits \in Seq({"ok"})
          /\ Len(exits) + Len(todo) = n
    /\ hook.state = "ok" => AllWell(n)

(* How far the hooks are at each step of the set-up.                       *)
ProgressInv ==
    /\ pc \in Early => hook.state = "idle" /\ AllWell(0)
    /\ pc = "createContainer" => PhaseInv(0, First)
    /\ pc \in Between => hook.state = "idle" /\ AllWell(First)
    /\ pc = "startContainer" => PhaseInv(First, Both)
    /\ pc \in {"exec", "exited"} => AllWell(Both)

(* Pipes are held only while a hook runs or is waited for.                 *)
PipesInv == pipes # {} => hook.state \in {"running", "zombie", "reaped"}

(* Types of what the hooks and the steps of the set-up use.                *)
HookInv ==
    /\ conf \in Configs
    /\ pc \in Labels
    /\ HooksTypeOK
    /\ ProgressInv
    /\ PipesInv

-----------------------------------------------------------------------------
(* Namespaces.                                                             *)

NSList == conf.namespaces

Entry(i, t) == i \in DOMAIN NSList /\ NSList[i].type = t

(* The entries before nsNext have been dealt with: a new namespace is a    *)
(* flag of the clone, a path leads to the one meant, a pid namespace has   *)
(* been entered, and all others are listed for nssetup.                    *)
ConfigureInv ==
    nsStep = "configure" =>
        /\ \A i \in 1 .. nsNext - 1 :
              /\ NSList[i].path = "" => NSList[i].type \in flags
              /\ NSList[i].path # "" /\ NSList[i].type = "pid" => ns["pid"] = "named"
              /\ NSList[i].path # "" /\ NSList[i].type # "pid" =>
                    \E k \in DOMAIN parts : parts[k] = NSList[i].type
        /\ \A k \in DOMAIN parts :
              \E i \in 1 .. nsNext - 1 : Entry(i, parts[k]) /\ NSList[i].path # ""
        /\ \A t \in NSTypes \ {"pid"} : ns[t] = "host"
        /\ ns["pid"] = "host" \/ \E i \in DOMAIN NSList : Entry(i, "pid") /\ NSList[i].path # ""

(* A flag stands for an entry without a path, a part for one with a path   *)
(* of any type but pid; what follows the mount namespace in the parts      *)
(* follows it in the list.                                                 *)
PartsInv ==
    /\ \A t \in flags : \E i \in DOMAIN NSList : Entry(i, t) /\ NSList[i].path = ""
    /\ \A k \in DOMAIN parts :
          /\ parts[k] # "pid"
          /\ \E i \in DOMAIN NSList : Entry(i, parts[k]) /\ NSList[i].path # ""
    /\ \A k, l \in DOMAIN parts :
          k < l /\ parts[k] = "mnt" => AfterMountJoin(NSList, parts[l])

(* In the process, every type is as asked for, or follows the mount        *)
(* namespace, or is still to be joined.  Once the mount namespace was      *)
(* joined, all that is left follows it.  Nothing is joined of a type that  *)
(* is listed without a path only.                                          *)
JoinInv ==
    nsStep \in {"join", "joined"} =>
        /\ \A t \in NSTypes :
              \/ ns[t] \in Asked(NSList, t)
              \/ AfterMountJoin(NSList, t)
              \/ \E k \in DOMAIN parts : parts[k] = t
        /\ ns["mnt"] = "named" => \A k \in DOMAIN parts : AfterMountJoin(NSList, parts[k])
        /\ \A t \in NSTypes :
              /\ \E i \in DOMAIN NSList : Entry(i, t)
              /\ \A i \in DOMAIN NSList : Entry(i, t) => NSList[i].path = ""
              => ns[t] = "new"
        /\ nsStep = "joined" => parts = <<>>

NsInv ==
    /\ NamespacesTypeOK
    /\ nsNext \in 1 .. Len(NSList) + 1
    /\ ConfigureInv
    /\ PartsInv
    /\ JoinInv

SetupInv == HookInv /\ NsInv

-----------------------------------------------------------------------------
(* The steps of the set-up, as the hooks and the namespaces see them.      *)

(* A step that mounts leaves the hooks alone, and goes on within its part  *)
(* of the set-up, to the createContainer hooks, or is refused.             *)
LEMMA MountingMoves ==
    ASSUME Mounting
    PROVE  /\ UNCHANGED <<conf, hookVars>>
           /\ \/ pc \in Early /\ pc' \in Early \cup {"createContainer", "refused"}
              \/ pc \in PostPivot /\ pc' \in PostPivot \cup {"refused"}
<1>1. UNCHANGED hookVars
  BY DEF Mounting
<1>2. CASE SetupPrePivot
  <2>1. CASE MountRootfs
    BY <2>1, <1>1 DEF MountRootfs, Mounts, Refused, Goto, Early, PrePivot
  <2>2. CASE MountProc
    BY <2>2, <1>1 DEF MountProc, Mounts, Refused, Goto, Early, PrePivot
  <2>3. CASE MountSpecMount
    BY <2>3, <1>1 DEF MountSpecMount, Refused, Goto, Early, PrePivot
  <2>4. CASE MountDefaultDevices
    BY <2>4, <1>1 DEF MountDefaultDevices, Mounts, Refused, Goto, Early, PrePivot
  <2>5. CASE CreateDeviceNodes
    BY <2>5, <1>1 DEF CreateDeviceNodes, Goto, Early, PrePivot
  <2>6. CASE CreateDefaultSymlinks
    BY <2>6, <1>1 DEF CreateDefaultSymlinks, Refused, Goto, Early, PrePivot
  <2> QED
    BY <1>2, <2>1, <2>2, <2>3, <2>4, <2>5, <2>6 DEF SetupPrePivot
<1>3. CASE ConnectConsole
  BY <1>3, <1>1 DEF ConnectConsole, Refused, Goto, Early, PrePivot
<1>4. CASE MountConsole
  BY <1>4, <1>1 DEF MountConsole, Mounts, Refused, Goto, Early, PrePivot
<1>5. CASE PivotRoot
  BY <1>5, <1>1 DEF PivotRoot, Refused, Goto, Early, PrePivot
<1>6. CASE DetachOldRoot
  BY <1>6, <1>1 DEF DetachOldRoot, Mounts, Refused, Goto, Early, PrePivot
<1>7. CASE SetupPostPivot
  <2>1. CASE SetSysctl
    BY <2>1, <1>1 DEF SetSysctl, Mounts, Refused, Goto, PostPivot
  <2>2. CASE MountMaskedPaths
    BY <2>2, <1>1 DEF MountMaskedPaths, EndPaths, MountPath, Goto, PostPivot
  <2>3. CASE MountReadonlyPaths
    BY <2>3, <1>1 DEF MountReadonlyPaths, EndPaths, MountPath, Refused, Goto, PostPivot
  <2>4. CASE SetRootfsMountPropagation
    BY <2>4, <1>1 DEF SetRootfsMountPropagation, Mounts, Refused, Goto, PostPivot
  <2>5. CASE MountRootReadonly
    BY <2>5, <1>1 DEF MountRootReadonly, Mounts, Refused, Goto, PostPivot
  <2> QED
    BY <1>7, <2>1, <2>2, <2>3, <2>4, <2>5 DEF SetupPostPivot
<1> QED
  BY <1>2, <1>3, <1>4, <1>5, <1>6, <1>7 DEF Mounting

(* The configuration never changes.                                        *)
LEMMA ConfStable ==
    ASSUME [Next]_vars
    PROVE  UNCHANGED conf
<1>1. CASE UNCHANGED vars
  BY <1>1 DEF vars, rootfsVars
<1>2. CASE UNCHANGED rootfsVars
  BY <1>2 DEF rootfsVars
<1>3. CASE Mounting
  BY <1>3, MountingMoves
<1>4. CASE CreateContainerHooks \/ StartContainerHooks
  BY <1>4 DEF CreateContainerHooks, StartContainerHooks, Phase, Goto, Fails, rootfsVars
<1>5. CASE Fails \/ ReceiveStart \/ Sethostname
  BY <1>5 DEF Fails, ReceiveStart, Sethostname, Goto
<1> QED
  BY <1>1, <1>2, <1>3, <1>4, <1>5 DEF Next, Reexec, Hooking, Timeout

-----------------------------------------------------------------------------
(* Hooks.                                                                  *)

Acts == ExecHooks \/ TimerFires \/ HookActs

(* Whatever a hook, its timer or ExecHooks does keeps the types and leaves *)
(* no pipe behind.                                                         *)
LEMMA ActsKeepTypes ==
    ASSUME HooksTypeOK, PipesInv, (ExecHooks /\ todo # <<>>) \/ TimerFires \/ HookActs
    PROVE  HooksTypeOK' /\ PipesInv'
<1> USE DEF HooksTypeOK, PipesInv, States
<1>1. CASE LookPath
  BY <1>1 DEF LookPath, Goes
<1>2. CASE StartHook
  BY <1>2 DEF StartHook, Goes
<1>3. CASE WaitProcess
  BY <1>3 DEF WaitProcess, Goes
<1>4. CASE WaitPipes /\ todo # <<>>
  <2> DEFINE exit == IF hook.exit = "ok" /\ ~hook.late THEN "ok" ELSE "bad"
             next_ == CASE exit = "bad" -> "error"
                        [] exit = "ok" /\ Len(todo) > 1 -> "lookup"
                        [] OTHER -> "ok"
  <2>1. pipes' = {} /\ exits' = Append(exits, exit) /\ todo' = Tail(todo)
    BY <1>4 DEF WaitPipes, Returned
  <2>3. hook' = [NoHook EXCEPT !.state = next_]
    BY <1>4 DEF WaitPipes, Returned
  <2>4. next_ \in {"error", "lookup", "ok"}
    OBVIOUS
  <2> HIDE DEF next_
  <2>5. hook' \in [state : States, exit : {"ok", "bad"}, late : BOOLEAN]
    BY <2>3, <2>4 DEF NoHook
  <2> QED
    BY <1>4, <2>1, <2>5
<1>5. CASE TimerFires
  BY <1>5 DEF TimerFires
<1>6. CASE HookActs
  BY <1>6 DEF HookActs, HookForks, HookExits, DescendantCloses
<1> QED
  BY <1>1, <1>2, <1>3, <1>4, <1>5, <1>6 DEF ExecHooks

(* It also keeps count: a hook that returns well is one less to do, and    *)
(* the phase is over with the last of them.                                *)
LEMMA ActsKeepCount ==
    ASSUME NEW m \in Nat, NEW n \in Nat, HooksTypeOK, PhaseInv(m, n), Acts
    PROVE  PhaseInv(m, n)'
<1> USE DEF PhaseInv, AllWell, HooksTypeOK
<1>1. CASE LookPath
  BY <1>1 DEF LookPath, Goes
<1>2. CASE StartHook
  BY <1>2 DEF StartHook, Goes
<1>3. CASE WaitProcess
  BY <1>3 DEF WaitProcess, Goes
<1>4. CASE WaitPipes
  <2> DEFINE exit == IF hook.exit = "ok" /\ ~hook.late THEN "ok" ELSE "bad"
             next_ == CASE exit = "bad" -> "error"
                        [] exit = "ok" /\ Len(todo) > 1 -> "lookup"
                        [] OTHER -> "ok"
  <2>1. exits' = Append(exits, exit) /\ todo' = Tail(todo) /\ hook.state = "reaped"
    BY <1>4 DEF WaitPipes, Returned
  <2>2. todo # <<>> /\ exits \in Seq({"ok"}) /\ Len(exits) + Len(todo) = n
    BY <2>1
  <2>3. hook'.state = next_
    BY <1>4 DEF WaitPipes, Returned, NoHook
  <2>4. Len(todo') = Len(todo) - 1 /\ Len(todo) \in Nat /\ Len(todo) > 0
    BY <2>1, <2>2
  <2>5. CASE exit = "bad"
    BY <2>3, <2>5
  <2>6. CASE exit = "ok"
    <3>1. exits' \in Seq({"ok"}) /\ Len(exits') = Len(exits) + 1
      BY <2>1, <2>2, <2>6
    <3>2. CASE Len(todo) > 1
      <4>1. next_ = "lookup"
        BY <2>6, <3>2
      <4>2. todo' # <<>>
        BY <2>4, <3>2
      <4> QED
        BY <2>2, <2>3, <2>4, <3>1, <4>1, <4>2
    <3>3. CASE ~(Len(todo) > 1)
      <4>1. next_ = "ok"
        BY <2>6, <3>3
      <4> QED
        BY <2>2, <2>3, <2>4, <3>1, <3>3, <4>1
    <3> QED
      BY <3>2, <3>3
  <2> QED
    BY <2>5, <2>6
<1>5. CASE TimerFires
  BY <1>5 DEF TimerFires
<1>6. CASE HookActs
  BY <1>6 DEF HookActs, HookForks, HookExits, DescendantCloses
<1> QED
  BY <1>1, <1>2, <1>3, <1>4, <1>5, <1>6 DEF Acts, ExecHooks

(* The two phases, and the steps the hooks take in them.                   *)
LEMMA HookingKeeps ==
    ASSUME HookInv, (pc \in Phases /\ Acts) \/ HookActs, UNCHANGED rootfsVars
    PROVE  HookInv'
<1>1. First \in Nat /\ Both \in Nat
  <2>1. First \in Nat /\ Len(conf.startContainer) \in Nat
    BY ConfigsAssumption DEF HookInv, First
  <2> QED
    BY <2>1 DEF Both
<1>2. First' = First /\ Both' = Both /\ conf' = conf /\ pc' = pc
  BY DEF First, Both, rootfsVars
<1>3. PICK a \in Nat, b \in Nat : a = First /\ b = Both
  BY <1>1
<1>4. ExecHooks => hook.state \in {"lookup", "start", "zombie", "reaped"}
  BY DEF ExecHooks, LookPath, StartHook, WaitProcess, WaitPipes, Goes
<1>5. pc \in Phases => PhaseInv(0, a) \/ PhaseInv(a, b)
  BY <1>3 DEF HookInv, ProgressInv, Phases
<1>6. pc \in Phases /\ ExecHooks => todo # <<>>
  BY <1>4, <1>5 DEF PhaseInv
<1>7. HooksTypeOK' /\ PipesInv'
  BY <1>6, ActsKeepTypes DEF HookInv, Acts
<1>8. conf' \in Configs /\ pc' \in Labels
  BY <1>2 DEF HookInv
<1>9. ProgressInv'
  <2>1. CASE pc = "createContainer"
    <3>1. PhaseInv(0, a)
      BY <1>3, <2>1 DEF HookInv, ProgressInv
    <3>2. PhaseInv(0, a)'
      BY <3>1, ActsKeepCount DEF HookInv, Acts
    <3> QED
      BY <1>2, <1>3, <2>1, <3>2 DEF ProgressInv, Early, Between, PrePivot, PostPivot
  <2>2. CASE pc = "startContainer"
    <3>1. PhaseInv(a, b)
      BY <1>3, <2>2 DEF HookInv, ProgressInv
    <3>2. PhaseInv(a, b)'
      BY <3>1, ActsKeepCount DEF HookInv, Acts
    <3> QED
      BY <1>2, <1>3, <2>2, <3>2 DEF ProgressInv, Early, Between, PrePivot, PostPivot
  <2>3. CASE pc \notin Phases
    <3>1. HookActs
      BY <2>3
    <3>2. exits' = exits
      BY <3>1 DEF HookActs, HookForks, HookExits, DescendantCloses
    <3>3. hook.state = "idle" => FALSE
      BY <3>1 DEF HookActs, HookForks, HookExits, DescendantCloses, HookInv, PipesInv
    <3>4. pc \notin Early \cup Between
      BY <3>3 DEF HookInv, ProgressInv
    <3>5. pc \in {"exec", "exited"} => AllWell(Both)
      BY DEF HookInv, ProgressInv
    <3> QED
      BY <1>2, <2>3, <3>2, <3>4, <3>5 DEF ProgressInv, Phases, AllWell
  <2> QED
    BY <2>1, <2>2, <2>3 DEF Phases
<1> QED
  BY <1>7, <1>8, <1>9 DEF HookInv

(* A phase begins, ends well, or ends the set-up with its error.           *)
LEMMA PhaseKeeps ==
    ASSUME HookInv, CreateContainerHooks \/ StartContainerHooks
    PROVE  HookInv'
<1>1. conf \in Configs /\ First \in Nat /\ Len(conf.startContainer) \in Nat
  BY ConfigsAssumption DEF HookInv, First
<1>2. conf' = conf /\ First' = First /\ Both' = Both
  BY DEF CreateContainerHooks, StartContainerHooks, Phase, Goto, Fails, rootfsVars, First, Both
<1>3. conf.createContainer \in Seq(Hook) /\ conf.startContainer \in Seq(Hook)
  BY <1>1, ConfigsAssumption
<1> USE DEF HooksTypeOK, PipesInv
<1>4. CASE CreateContainerHooks
  <2> USE DEF CreateContainerHooks, Phase
  <2>1. pc = "createContainer" /\ PhaseInv(0, First)
    BY <1>4 DEF HookInv, ProgressInv
  <2>2. CASE BeginHooks(conf.createContainer) /\ UNCHANGED rootfsVars
    <3>1. pc' = "createContainer" /\ PhaseInv(0, First)'
      BY <1>1, <1>2, <1>3, <2>1, <2>2
      DEF rootfsVars, BeginHooks, NoHook, PhaseInv, AllWell, First, HookInv
    <3>2. HooksTypeOK' /\ PipesInv'
      BY <1>3, <2>2 DEF BeginHooks, NoHook, States, HookInv
    <3> QED
      BY <1>1, <1>2, <3>1, <3>2 DEF HookInv, ProgressInv, Early, Between, PrePivot, PostPivot, Labels
  <2>3. CASE EndHooks("ok") /\ Goto("createContainer", "waitStart")
    <3>1. pc' = "waitStart" /\ hook' = NoHook /\ AllWell(First)'
      BY <1>2, <2>1, <2>3 DEF EndHooks, Goto, PhaseInv, AllWell
    <3>2. HooksTypeOK' /\ PipesInv'
      BY <2>3 DEF EndHooks, NoHook, States, HookInv
    <3> QED
      BY <1>1, <1>2, <3>1, <3>2
      DEF HookInv, ProgressInv, Early, Between, PrePivot, PostPivot, Labels, NoHook
  <2>4. CASE Fails /\ UNCHANGED hookVars
    BY <1>1, <1>2, <2>4
    DEF Fails, hookVars, HookInv, ProgressInv, Early, Between, PrePivot, PostPivot, Labels, Ended
  <2> QED
    BY <1>4, <2>2, <2>3, <2>4
<1>5. CASE StartContainerHooks
  <2> USE DEF StartContainerHooks, Phase
  <2> DEFINE to == IF conf.process THEN "exec" ELSE "exited"
  <2>1. pc = "startContainer" /\ PhaseInv(First, Both)
    BY <1>5 DEF HookInv, ProgressInv
  <2>2. CASE BeginHooks(conf.startContainer) /\ UNCHANGED rootfsVars
    <3>1. pc' = "startContainer" /\ PhaseInv(First, Both)'
      BY <1>1, <1>2, <1>3, <2>1, <2>2
      DEF rootfsVars, BeginHooks, NoHook, PhaseInv, AllWell, Both, HookInv
    <3>2. HooksTypeOK' /\ PipesInv'
      BY <1>3, <2>2 DEF BeginHooks, NoHook, States, HookInv
    <3> QED
      BY <1>1, <1>2, <3>1, <3>2 DEF HookInv, ProgressInv, Early, Between, PrePivot, PostPivot, Labels
  <2>3. CASE EndHooks("ok") /\ Goto("startContainer", to)
    <3>1. pc' \in {"exec", "exited"} /\ hook' = NoHook /\ AllWell(Both)'
      BY <1>2, <2>1, <2>3 DEF EndHooks, Goto, PhaseInv, AllWell
    <3>2. HooksTypeOK' /\ PipesInv'
      BY <2>3 DEF EndHooks, NoHook, States, HookInv
    <3> QED
      BY <1>1, <1>2, <3>1, <3>2
      DEF HookInv, ProgressInv, Early, Between, PrePivot, PostPivot, Labels, Ended
  <2>4. CASE Fails /\ UNCHANGED hookVars
    BY <1>1, <1>2, <2>4
    DEF Fails, hookVars, HookInv, ProgressInv, Early, Between, PrePivot, PostPivot, Labels, Ended
  <2> QED
    BY <1>5, <2>2, <2>3, <2>4
<1> QED
  BY <1>4, <1>5

(* All other steps leave the hooks alone and follow the order of the       *)
(* set-up.                                                                 *)
LEMMA StepKeeps ==
    ASSUME HookInv, UNCHANGED <<conf, hookVars>>,
           \/ pc' = pc
           \/ pc' \in {"failed", "refused"}
           \/ pc \in Early /\ pc' \in Early \cup {"createContainer"}
           \/ pc \in PostPivot /\ pc' \in PostPivot
           \/ pc = "waitStart" /\ pc' \in {"sysctl", "startContainer"}
           \/ pc = "hostname" /\ pc' = "startContainer"
    PROVE  HookInv'
<1>1. First' = First /\ Both' = Both /\ (\A n : AllWell(n)' <=> AllWell(n))
  BY DEF First, Both, AllWell, hookVars
<1>2. hook' = hook /\ todo' = todo /\ exits' = exits /\ pipes' = pipes
  BY DEF hookVars
<1>3. pc' \in Labels
  BY DEF HookInv, Labels, Ended, Early, PostPivot
<1>4. ProgressInv'
  <2>1. CASE pc' = pc
    BY <1>1, <1>2, <2>1 DEF HookInv, ProgressInv, PhaseInv, AllWell
  <2>2. CASE pc' \in {"failed", "refused"}
    BY <2>2 DEF ProgressInv, Early, Between, PrePivot, PostPivot
  <2>3. CASE pc \in Early /\ pc' \in Early
    BY <1>1, <1>2, <2>3 DEF HookInv, ProgressInv, Early, Between, PrePivot, PostPivot
  <2>4. CASE pc \in Early /\ pc' = "createContainer"
    <3>1. hook'.state = "idle" /\ AllWell(0)'
      BY <1>1, <1>2, <2>4 DEF HookInv, ProgressInv
    <3> QED
      BY <2>4, <3>1 DEF ProgressInv, PhaseInv, AllWell, Early, Between, PrePivot, PostPivot
  <2>5. CASE pc \in Between /\ pc' \in PostPivot
    BY <1>1, <1>2, <2>5 DEF HookInv, ProgressInv, Early, Between, PrePivot, PostPivot, AllWell
  <2>6. CASE pc \in Between /\ pc' = "startContainer"
    <3>1. hook'.state = "idle" /\ AllWell(First)'
      BY <1>1, <1>2, <2>6 DEF HookInv, ProgressInv, AllWell
    <3> QED
      BY <2>6, <3>1 DEF ProgressInv, PhaseInv, AllWell, Early, Between, PrePivot, PostPivot
  <2> QED
    BY <2>1, <2>2, <2>3, <2>4, <2>5, <2>6 DEF Between, PostPivot
<1> QED
  BY <1>2, <1>3, <1>4 DEF HookInv, HooksTypeOK, PipesInv

(* No hook has run at the start.                                           *)
LEMMA HookInvInit == Init => HookInv
  BY DEF Init, RootFSInit, HooksInit, NoHook, HookInv, HooksTypeOK, States, ProgressInv, PipesInv,
         AllWell, Early, Between, PrePivot, PostPivot, Labels

(* Every step keeps what is known of the hooks.                            *)
LEMMA HookInvStep == HookInv /\ [Next]_vars => HookInv'
<1> SUFFICES ASSUME HookInv, [Next]_vars
             PROVE  HookInv'
  OBVIOUS
<1>1. CASE UNCHANGED vars
  BY <1>1, StepKeeps DEF vars, rootfsVars
<1>2. CASE Namespacing(conf.namespaces, conf.timeOffsets) /\ UNCHANGED <<rootfsVars, hookVars, hostname>>
  BY <1>2, StepKeeps DEF rootfsVars
<1>3. CASE Mounting
  BY <1>3, MountingMoves, StepKeeps
<1>4. CASE CreateContainerHooks \/ StartContainerHooks
  BY <1>4, PhaseKeeps
<1>5. CASE Hooking \/ Timeout \/ (HookActs /\ UNCHANGED rootfsVars)
  BY <1>5, HookingKeeps DEF Hooking, Timeout, Acts
<1>6. CASE ReceiveStart
  BY <1>6, StepKeeps DEF ReceiveStart, Goto
<1>7. CASE Fails /\ UNCHANGED hookVars
  BY <1>7, StepKeeps DEF Fails
<1>8. CASE Sethostname
  BY <1>8, StepKeeps DEF Sethostname, Goto
<1> QED
  BY <1>1, <1>2, <1>3, <1>4, <1>5, <1>6, <1>7, <1>8 DEF Next, Reexec

-----------------------------------------------------------------------------
(* Namespaces.                                                             *)

(* No namespace is made or joined at the start.                            *)
LEMMA NsInvInit == ASSUME Init PROVE NsInv
<1>1. conf \in Configs /\ NSList \in Seq([type : NSTypes, path : Paths])
  BY ConfigsAssumption DEF Init, RootFSInit, NSList
<1>2. /\ nsNext = 1 /\ flags = {} /\ mapped = FALSE /\ parts = <<>> /\ nsStep = "configure"
      /\ ns = [t \in NSTypes |-> "host"]
  BY DEF Init, NamespacesInit
<1>3. NamespacesTypeOK
  <2>1. ns \in [NSTypes -> Namespace]
    BY <1>2 DEF Namespace
  <2>2. flags \subseteq NSTypes /\ parts \in Seq(NSTypes)
    BY <1>2
  <2> QED
    BY <1>2, <2>1, <2>2 DEF NamespacesTypeOK
<1> QED
  BY <1>1, <1>2, <1>3 DEF NsInv, ConfigureInv, PartsInv, JoinInv, NSTypes

(* A call fails, in the runtime or in the process.                         *)
LEMMA FailureKeeps ==
    ASSUME NsInv, UNCHANGED <<conf, nsNext, flags, mapped, parts, ns>>, nsStep' = "failed"
    PROVE  NsInv'
<1>1. NSList' = NSList /\ (\A i, t : Entry(i, t)' <=> Entry(i, t))
  BY DEF NSList, Entry
<1>2. NamespacesTypeOK' /\ ConfigureInv' /\ JoinInv'
  BY DEF NsInv, NamespacesTypeOK, ConfigureInv, JoinInv
<1>3. PartsInv'
  BY <1>1 DEF NsInv, PartsInv
<1> QED
  BY <1>1, <1>2, <1>3 DEF NsInv

(* One entry of the list is dealt with.                                    *)
LEMMA ConfigureKeeps ==
    ASSUME NsInv, conf \in Configs, UNCHANGED conf,
           configureNamespaces(conf.namespaces, conf.timeOffsets)
    PROVE  NsInv'
<1>1. NSList \in Seq([type : NSTypes, path : Paths]) /\ NSList' = NSList
  BY ConfigsAssumption DEF NSList
<1>2. CASE nsStep' = "failed" /\ UNCHANGED <<nsNext, flags, mapped, parts, ns>>
  BY <1>2, FailureKeeps
<1>3. CASE nsStep' = nsStep
  <2> DEFINE entry == NSList[nsNext]
  <2>1. /\ nsStep = "configure" /\ nsNext <= Len(NSList) /\ nsNext' = nsNext + 1
        /\ Configure(entry) /\ mapped' = (mapped \/ entry.type = "user")
    BY <1>3 DEF configureNamespaces, NSList
  <2>2. nsNext \in DOMAIN NSList /\ nsNext \in Nat \ {0}
    BY <1>1, <2>1 DEF NsInv
  <2>3. entry.type \in NSTypes /\ entry = NSList[nsNext]
    <3>1. nsNext \in 1 .. Len(NSList)
      BY <1>1, <2>2
    <3>2. NSList[nsNext] \in [type : NSTypes, path : Paths]
      BY <1>1, <3>1, ElementOfSeq
    <3> QED
      BY <3>2
  <2>4. nsNext' \in 1 .. Len(NSList) + 1 /\ JoinInv' /\ nsStep' = "configure"
    BY <1>1, <1>3, <2>1, <2>2 DEF JoinInv
  <2>5. Entry(nsNext, entry.type) /\ (\A i, t : Entry(i, t)' <=> Entry(i, t))
    BY <1>1, <2>2 DEF Entry
  <2>6. \A i \in 1 .. nsNext' - 1 : i \in 1 .. nsNext - 1 \/ i = nsNext
    BY <2>1, <2>2
  <2>7. \A i \in 1 .. nsNext - 1 : i \in 1 .. nsNext' - 1
    BY <2>1, <2>2
  <2>8. nsNext \in 1 .. nsNext' - 1 /\ (\A i \in 1 .. nsNext - 1 : i < nsNext)
    BY <2>1, <2>2
  <2>9. mapped' \in BOOLEAN /\ nsNext' \in Nat
    <3>1. mapped' \in BOOLEAN
      BY <2>1, Zenon
    <3> QED
      BY <2>1, <2>2, <3>1
  <2> HIDE DEF entry
  <2>a. CASE entry.path = "" /\ flags' = flags \cup {entry.type} /\ UNCHANGED <<parts, ns>>
    <3>1. NamespacesTypeOK'
      BY <2>2, <2>3, <2>4, <2>9, <2>a DEF NsInv, NamespacesTypeOK
    <3>2. ConfigureInv'
      BY <1>1, <2>1, <2>3, <2>5, <2>6, <2>7, <2>a DEF NsInv, ConfigureInv
    <3>3. PartsInv'
      BY <1>1, <2>2, <2>3, <2>5, <2>a DEF NsInv, PartsInv
    <3> QED
      BY <1>1, <2>4, <3>1, <3>2, <3>3 DEF NsInv
  <2>b. CASE entry.path # "" /\ entry.type = "pid" /\ ns' = [ns EXCEPT !["pid"] = "named"]
             /\ UNCHANGED <<flags, parts>>
    <3>1. NamespacesTypeOK'
      BY <2>2, <2>4, <2>9, <2>b DEF NsInv, NamespacesTypeOK, Namespace
    <3>2. ns'["pid"] = "named" /\ (\A t \in NSTypes \ {"pid"} : ns'[t] = ns[t])
      BY <2>b DEF NsInv, NamespacesTypeOK, NSTypes
    <3>3. ConfigureInv'
      <4>1. ASSUME NEW i \in 1 .. nsNext' - 1
            PROVE  /\ NSList[i].path = "" => NSList[i].type \in flags
                   /\ NSList[i].path # "" /\ NSList[i].type # "pid" =>
                         \E k \in DOMAIN parts : parts[k] = NSList[i].type
        <5>1. CASE i = nsNext
          BY <2>3, <2>b, <5>1
        <5>2. CASE i \in 1 .. nsNext - 1
          BY <2>1, <5>2 DEF NsInv, ConfigureInv
        <5> QED
          BY <2>6, <5>1, <5>2
      <4>2. \A k \in DOMAIN parts :
              \E i \in 1 .. nsNext' - 1 : Entry(i, parts[k]) /\ NSList[i].path # ""
        BY <2>1, <2>7 DEF NsInv, ConfigureInv
      <4>3. \A t \in NSTypes \ {"pid"} : ns'[t] = "host"
        BY <2>1, <3>2 DEF NsInv, ConfigureInv
      <4>4. \E i \in DOMAIN NSList : Entry(i, "pid") /\ NSList[i].path # ""
        BY <2>2, <2>3, <2>5, <2>b
      <4> QED
        BY <1>1, <2>5, <2>b, <3>2, <4>1, <4>2, <4>3, <4>4 DEF ConfigureInv
    <3>4. PartsInv'
      BY <1>1, <2>5, <2>b DEF NsInv, PartsInv
    <3> QED
      BY <1>1, <2>4, <3>1, <3>3, <3>4 DEF NsInv
  <2>c. CASE entry.path # "" /\ entry.type # "pid" /\ parts' = Append(parts, entry.type)
             /\ UNCHANGED <<flags, ns>>
    <3>0. PICK q \in NSTypes : q = entry.type /\ q # "pid" /\ parts' = Append(parts, q)
      BY <2>3, <2>c
    <3>1. NamespacesTypeOK'
      <4>1. parts' \in Seq(NSTypes)
        BY <3>0 DEF NsInv, NamespacesTypeOK
      <4> QED
        BY <2>4, <2>9, <2>c, <4>1 DEF NsInv, NamespacesTypeOK
    <3>2. PICK n \in Nat : n = Len(parts)
      BY DEF NsInv, NamespacesTypeOK
    <3>3. /\ DOMAIN parts = 1 .. n /\ DOMAIN parts' = 1 .. n + 1
          /\ \A k \in 1 .. n : parts'[k] = parts[k]
          /\ parts'[n + 1] = q
      BY <3>0, <3>2 DEF NsInv, NamespacesTypeOK
    <3>4. /\ n + 1 \in DOMAIN parts' /\ DOMAIN parts \subseteq DOMAIN parts'
          /\ \A k \in DOMAIN parts' : k = n + 1 \/ k \in DOMAIN parts
      BY <3>3
    <3>5. ConfigureInv'
      <4>1. ASSUME NEW i \in 1 .. nsNext' - 1
            PROVE  /\ NSList[i].path = "" => NSList[i].type \in flags
                   /\ NSList[i].path # "" /\ NSList[i].type = "pid" => ns["pid"] = "named"
                   /\ NSList[i].path # "" /\ NSList[i].type # "pid" =>
                         \E k \in DOMAIN parts' : parts'[k] = NSList[i].type
        <5>1. CASE i = nsNext
          <6>1. NSList[i].path # "" /\ NSList[i].type = q
            BY <2>3, <2>c, <3>0, <5>1
          <6> QED
            BY <3>0, <3>3, <3>4, <6>1
        <5>2. CASE i \in 1 .. nsNext - 1
          <6>1. \A t : (\E k \in DOMAIN parts : parts[k] = t) => \E k \in DOMAIN parts' : parts'[k] = t
            BY <3>3, <3>4
          <6> QED
            BY <2>1, <5>2, <6>1 DEF NsInv, ConfigureInv
        <5> QED
          BY <2>6, <5>1, <5>2
      <4>2. ASSUME NEW k \in DOMAIN parts'
            PROVE  \E i \in 1 .. nsNext' - 1 : Entry(i, parts'[k]) /\ NSList[i].path # ""
        <5>1. CASE k = n + 1
          BY <2>3, <2>5, <2>8, <2>c, <3>0, <3>3, <5>1
        <5>2. CASE k \in DOMAIN parts
          <6>1. parts'[k] = parts[k]
            BY <3>3, <5>2
          <6> QED
            BY <2>1, <2>7, <5>2, <6>1 DEF NsInv, ConfigureInv
        <5> QED
          BY <3>4, <5>1, <5>2
      <4>3. /\ \A t \in NSTypes \ {"pid"} : ns[t] = "host"
            /\ ns["pid"] = "host" \/ \E i \in DOMAIN NSList : Entry(i, "pid") /\ NSList[i].path # ""
        BY <2>1 DEF NsInv, ConfigureInv
      <4> QED
        BY <1>1, <2>5, <2>c, <4>1, <4>2, <4>3 DEF ConfigureInv
    <3>6. PartsInv'
      <4>1. ASSUME NEW k \in DOMAIN parts'
            PROVE  /\ parts'[k] # "pid"
                   /\ \E i \in DOMAIN NSList : Entry(i, parts'[k]) /\ NSList[i].path # ""
        <5>1. CASE k = n + 1
          BY <2>2, <2>3, <2>5, <2>c, <3>0, <3>3, <5>1
        <5>2. CASE k \in DOMAIN parts
          <6>1. parts'[k] = parts[k]
            BY <3>3, <5>2
          <6> QED
            BY <5>2, <6>1 DEF NsInv, PartsInv
        <5> QED
          BY <3>4, <5>1, <5>2
      <4>2. ASSUME NEW k \in DOMAIN parts', NEW l \in DOMAIN parts', k < l, parts'[k] = "mnt"
            PROVE  AfterMountJoin(NSList, parts'[l])
        <5>1. CASE l = n + 1
          <6>1. k \in DOMAIN parts /\ parts[k] = "mnt"
            BY <3>3, <4>2, <5>1
          <6>2. PICK i \in 1 .. nsNext - 1 : Entry(i, "mnt") /\ NSList[i].path # ""
            BY <2>1, <6>1 DEF NsInv, ConfigureInv
          <6>3. i < nsNext /\ i \in DOMAIN NSList
            BY <2>8, <6>2 DEF Entry
          <6>4. parts'[l] = NSList[nsNext].type
            BY <2>3, <3>0, <3>3, <5>1
          <6> QED
            BY <2>2, <6>2, <6>3, <6>4 DEF AfterMountJoin, Entry
        <5>2. CASE l \in DOMAIN parts
          <6>1. k \in DOMAIN parts
            BY <3>3, <4>2, <5>2
          <6> QED
            BY <3>3, <4>2, <5>2, <6>1 DEF NsInv, PartsInv
        <5> QED
          BY <3>4, <5>1, <5>2
      <4>3. \A t \in flags : \E i \in DOMAIN NSList : Entry(i, t) /\ NSList[i].path = ""
        BY DEF NsInv, PartsInv
      <4> QED
        BY <1>1, <2>5, <2>c, <4>1, <4>2, <4>3 DEF PartsInv
    <3> QED
      BY <1>1, <2>4, <3>1, <3>5, <3>6 DEF NsInv
  <2> QED
    BY <2>1, <2>a, <2>b, <2>c DEF Configure
<1> QED
  BY <1>2, <1>3 DEF configureNamespaces

(* The process is forked, with the new namespaces.                         *)
LEMMA CloneKeeps ==
    ASSUME NsInv, conf \in Configs, UNCHANGED conf, CloneProcess(conf.namespaces)
    PROVE  NsInv'
<1>1. NSList \in Seq([type : NSTypes, path : Paths]) /\ NSList' = NSList
  BY ConfigsAssumption DEF NSList
<1>2. nsStep = "configure" /\ nsNext > Len(NSList) /\ UNCHANGED <<nsNext, flags, mapped, parts>>
  BY DEF CloneProcess, NSList
<1>3. CASE nsStep' = "failed" /\ UNCHANGED ns
  BY <1>2, <1>3, FailureKeeps
<1>4. CASE nsStep' = "join" /\ ns' = [t \in NSTypes |-> IF t \in flags THEN "new" ELSE ns[t]]
  <2>1. NamespacesTypeOK'
    <3>1. ns' \in [NSTypes -> Namespace]
      BY <1>4 DEF NsInv, NamespacesTypeOK, Namespace
    <3> QED
      BY <1>2, <1>4, <3>1 DEF NsInv, NamespacesTypeOK
  <2>2. \A i \in DOMAIN NSList : i \in 1 .. nsNext - 1 /\ NSList[i].type \in NSTypes
    <3>1. ASSUME NEW i \in 1 .. Len(NSList)
          PROVE  i \in 1 .. nsNext - 1 /\ NSList[i].type \in NSTypes
      <4>1. NSList[i] \in [type : NSTypes, path : Paths]
        BY <1>1, ElementOfSeq
      <4> QED
        BY <1>1, <1>2, <4>1 DEF NsInv
    <3> QED
      BY <1>1, <3>1
  <2>3. \A i \in DOMAIN NSList :
          /\ NSList[i].path = "" => NSList[i].type \in flags
          /\ NSList[i].path # "" /\ NSList[i].type = "pid" => ns["pid"] = "named"
          /\ NSList[i].path # "" /\ NSList[i].type # "pid" =>
                \E k \in DOMAIN parts : parts[k] = NSList[i].type
    BY <1>2, <2>2 DEF NsInv, ConfigureInv
  <2>4. \A t \in NSTypes : ns'[t] = IF t \in flags THEN "new" ELSE ns[t]
    BY <1>4
  <2>5. ASSUME NEW t \in NSTypes
        PROVE  \/ ns'[t] \in Asked(NSList, t)
               \/ \E k \in DOMAIN parts : parts[k] = t
    <3>1. CASE t \in flags
      <4>1. PICK i \in DOMAIN NSList : NSList[i].type = t /\ NSList[i].path = ""
        BY <3>1 DEF NsInv, PartsInv, Entry
      <4> QED
        BY <2>4, <3>1, <4>1 DEF Asked
    <3>2. CASE t \notin flags /\ \E i \in DOMAIN NSList : NSList[i].type = t
      <4>1. PICK i \in DOMAIN NSList : NSList[i].type = t
        BY <3>2
      <4>2. NSList[i].path # ""
        BY <2>3, <3>2, <4>1
      <4>3. CASE t = "pid"
        <5>1. ns'[t] = "named"
          BY <2>3, <2>4, <3>2, <4>1, <4>2, <4>3
        <5> QED
          BY <4>1, <4>2, <5>1 DEF Asked
      <4>4. CASE t # "pid"
        BY <2>3, <4>1, <4>2, <4>4
      <4> QED
        BY <4>3, <4>4
    <3>3. CASE t \notin flags /\ ~\E i \in DOMAIN NSList : NSList[i].type = t
      <4>1. ns[t] = "host"
        BY <1>2, <3>3 DEF NsInv, ConfigureInv, Entry
      <4> QED
        BY <2>4, <3>3, <4>1 DEF Asked
    <3> QED
      BY <3>1, <3>2, <3>3
  <2>6. ns'["mnt"] # "named"
    BY <1>2, <2>4 DEF NsInv, ConfigureInv, NSTypes
  <2>7. ASSUME NEW t \in NSTypes, \E i \in DOMAIN NSList : Entry(i, t),
               \A i \in DOMAIN NSList : Entry(i, t) => NSList[i].path = ""
        PROVE  ns'[t] = "new"
    BY <2>3, <2>4, <2>7 DEF Entry
  <2>8. JoinInv'
    BY <1>1, <1>2, <1>4, <2>5, <2>6, <2>7 DEF JoinInv, Entry
  <2>9. PartsInv' /\ ConfigureInv'
    BY <1>1, <1>2, <1>4 DEF NsInv, PartsInv, ConfigureInv, Entry
  <2> QED
    BY <1>1, <1>2, <2>1, <2>8, <2>9 DEF NsInv
<1> QED
  BY <1>3, <1>4 DEF CloneProcess

(* The process joins the first namespace of the parts.                     *)
LEMMA JoinKeeps ==
    ASSUME NsInv, UNCHANGED conf, join_ns
    PROVE  NsInv'
<1>1. /\ nsStep = "join" /\ parts # <<>> /\ parts' = Tail(parts)
      /\ UNCHANGED <<nsStep, nsNext, flags, mapped>> /\ NSList' = NSList
  BY DEF join_ns, NSList
<1>2. PICK h \in NSTypes : h = Head(parts) /\ h = parts[1] /\ 1 \in DOMAIN parts
  BY <1>1 DEF NsInv, NamespacesTypeOK
<1>3. h # "pid" /\ \E i \in DOMAIN NSList : Entry(i, h) /\ NSList[i].path # ""
  BY <1>2 DEF NsInv, PartsInv
<1>4. PICK n \in Resolved : ns' = [ns EXCEPT ![h] = n]
  BY <1>2, <1>3 DEF join_ns
<1>5. n \in {"named", "other"} /\ (n = "other" => ns["mnt"] = "named")
  BY DEF Resolved
<1>6. ns'[h] = n /\ (\A t \in NSTypes \ {h} : ns'[t] = ns[t])
  BY <1>4 DEF NsInv, NamespacesTypeOK
<1>7. PICK m \in Nat : m = Len(parts) /\ m > 0
  BY <1>1 DEF NsInv, NamespacesTypeOK
<1>8. /\ parts' \in Seq(NSTypes) /\ DOMAIN parts = 1 .. m /\ DOMAIN parts' = 1 .. m - 1
      /\ \A k \in 1 .. m - 1 : parts'[k] = parts[k + 1]
  BY <1>1, <1>7 DEF NsInv, NamespacesTypeOK
<1>9. \A k \in DOMAIN parts' : k + 1 \in DOMAIN parts /\ 1 < k + 1 /\ parts'[k] = parts[k + 1]
  BY <1>7, <1>8
<1>10. NamespacesTypeOK'
  <2>1. ns' \in [NSTypes -> Namespace]
    BY <1>4, <1>5 DEF NsInv, NamespacesTypeOK, Namespace
  <2> QED
    BY <1>1, <1>8, <2>1 DEF NsInv, NamespacesTypeOK
<1>11. PartsInv'
  <2>1. \A k \in DOMAIN parts' :
          /\ parts'[k] # "pid"
          /\ \E i \in DOMAIN NSList : Entry(i, parts'[k]) /\ NSList[i].path # ""
    BY <1>9 DEF NsInv, PartsInv
  <2>2. ASSUME NEW k \in DOMAIN parts', NEW l \in DOMAIN parts', k < l, parts'[k] = "mnt"
        PROVE  AfterMountJoin(NSList, parts'[l])
    <3>1. k + 1 < l + 1
      BY <1>7, <1>8, <2>2
    <3> QED
      BY <1>9, <2>2, <3>1 DEF NsInv, PartsInv
  <2> QED
    BY <1>1, <2>1, <2>2 DEF NsInv, PartsInv, Entry
<1>12. JoinInv'
  <2>1. ns["mnt"] = "named" => AfterMountJoin(NSList, h)
    BY <1>1, <1>2 DEF NsInv, JoinInv
  <2>2. ASSUME NEW t \in NSTypes
        PROVE  \/ ns'[t] \in Asked(NSList, t)
               \/ AfterMountJoin(NSList, t)
               \/ \E k \in DOMAIN parts' : parts'[k] = t
    <3>1. CASE t = h
      <4>1. "named" \in Asked(NSList, h)
        BY <1>3 DEF Asked, Entry
      <4> QED
        BY <1>5, <1>6, <2>1, <3>1, <4>1
    <3>2. CASE t # h
      <4>1. (\E k \in DOMAIN parts : parts[k] = t) => \E k \in DOMAIN parts' : parts'[k] = t
        <5>1. ASSUME NEW k \in DOMAIN parts, parts[k] = t
              PROVE  k - 1 \in DOMAIN parts' /\ parts'[k - 1] = t
          <6>1. k # 1
            BY <1>2, <3>2, <5>1
          <6> QED
            BY <1>7, <1>8, <5>1, <6>1
        <5> QED
          BY <5>1
      <4> QED
        BY <1>1, <1>6, <3>2, <4>1 DEF NsInv, JoinInv
    <3> QED
      BY <3>1, <3>2
  <2>3. ns'["mnt"] = "named" => \A k \in DOMAIN parts' : AfterMountJoin(NSList, parts'[k])
    <3>1. CASE h = "mnt"
      BY <1>2, <1>9, <3>1 DEF NsInv, PartsInv
    <3>2. CASE h # "mnt"
      <4>1. ns'["mnt"] = ns["mnt"]
        BY <1>6, <3>2 DEF NSTypes
      <4> QED
        BY <1>1, <1>9, <4>1 DEF NsInv, JoinInv
    <3> QED
      BY <3>1, <3>2
  <2>4. ASSUME NEW t \in NSTypes, \E i \in DOMAIN NSList : Entry(i, t),
               \A i \in DOMAIN NSList : Entry(i, t) => NSList[i].path = ""
        PROVE  ns'[t] = "new"
    <3>1. t # h
      BY <1>3, <2>4
    <3> QED
      BY <1>1, <1>6, <2>4, <3>1 DEF NsInv, JoinInv
  <2> QED
    BY <1>1, <2>2, <2>3, <2>4 DEF JoinInv, Entry
<1> QED
  BY <1>1, <1>10, <1>11, <1>12 DEF NsInv, ConfigureInv

(* Every step keeps what is known of the namespaces.                       *)
LEMMA NsInvStep ==
    ASSUME NsInv, conf \in Configs, [Next]_vars
    PROVE  NsInv'
<1>1. UNCHANGED conf
  BY ConfStable
<1>2. CASE UNCHANGED nsVars
  <2>1. NSList' = NSList /\ UNCHANGED <<nsStep, nsNext, flags, mapped, parts, ns>>
    BY <1>1, <1>2 DEF NSList, nsVars
  <2>2. NamespacesTypeOK' /\ PartsInv'
    BY <2>1 DEF NsInv, NamespacesTypeOK, PartsInv, Entry
  <2>3. ConfigureInv'
    BY <2>1 DEF NsInv, ConfigureInv, Entry
  <2>4. JoinInv'
    BY <2>1 DEF NsInv, JoinInv, Entry
  <2> QED
    BY <2>1, <2>2, <2>3, <2>4 DEF NsInv
<1>3. CASE configureNamespaces(conf.namespaces, conf.timeOffsets)
  BY <1>1, <1>3, ConfigureKeeps
<1>4. CASE CloneProcess(conf.namespaces)
  BY <1>1, <1>4, CloneKeeps
<1>5. CASE join_ns
  BY <1>1, <1>5, JoinKeeps
<1>6. CASE NamespacesFail
  BY <1>1, <1>6, FailureKeeps DEF NamespacesFail
<1>7. CASE Joined
  <2>1. /\ nsStep = "join" /\ nsStep' = "joined" /\ parts = <<>>
        /\ UNCHANGED <<nsNext, flags, mapped, parts, ns>> /\ NSList' = NSList
    BY <1>1, <1>7 DEF Joined, NSList
  <2>2. NamespacesTypeOK' /\ ConfigureInv' /\ PartsInv'
    BY <2>1 DEF NsInv, NamespacesTypeOK, ConfigureInv, PartsInv, Entry
  <2>3. JoinInv'
    BY <2>1 DEF NsInv, JoinInv, Entry
  <2> QED
    BY <2>1, <2>2, <2>3 DEF NsInv
<1> QED
  BY <1>2, <1>3, <1>4, <1>5, <1>6, <1>7 DEF Next, Namespacing, vars

-----------------------------------------------------------------------------
(* The theorems.                                                           *)

(* SetupInv is an invariant of the set-up.                                 *)
LEMMA SetupInvariance == Spec => []SetupInv
<1>1. Init => SetupInv
  BY HookInvInit, NsInvInit DEF SetupInv
<1>2. SetupInv /\ [Next]_vars => SetupInv'
  BY HookInvStep, NsInvStep DEF SetupInv, HookInv
<1> QED
  BY <1>1, <1>2, PTL DEF Spec

(* ExecHooks stops at the first error and the error ends the set-up, so    *)
(* the user's program runs only after every hook of both phases ended      *)
(* well within its timeout, however many there are.                        *)
THEOREM HooksCorrect == Spec => []ProgramAfterHooks
<1>1. SetupInv => ProgramAfterHooks
  <2> SUFFICES ASSUME SetupInv, pc = "exec"
               PROVE  exits = [i \in 1 .. Len(conf.createContainer) + Len(conf.startContainer) |-> "ok"]
    BY DEF ProgramAfterHooks
  <2> DEFINE n == Len(conf.createContainer) + Len(conf.startContainer)
  <2>1. exits \in Seq({"ok"}) /\ Len(exits) = n
    BY DEF SetupInv, HookInv, ProgressInv, AllWell, Both, First
  <2> HIDE DEF n
  <2>2. exits = [i \in 1 .. n |-> "ok"]
    BY <2>1
  <2> QED
    BY <2>2 DEF n
<1> QED
  BY <1>1, SetupInvariance, PTL

(* cmd.Run returns only when nobody holds the pipes of the hook: when the  *)
(* next hook is about to start, or a phase is over, nothing of the         *)
(* previous hook still writes to its output.                               *)
THEOREM NoHookLeftCorrect == Spec => []NoHookLeft
<1>1. SetupInv => NoHookLeft
  BY DEF SetupInv, HookInv, PipesInv, NoHookLeft
<1> QED
  BY <1>1, SetupInvariance, PTL

(* Whatever types a configuration lists, in whatever order, with or        *)
(* without paths: a process past nssetup is in a namespace that is asked   *)
(* for of every type, and in the runtime's of types not listed, but for    *)
(* the types listed after a mount namespace with a path.                   *)
THEOREM NamespacesCorrect == Spec => []NamespacesAsAsked
<1>1. SetupInv => NamespacesAsAsked
  <2> SUFFICES ASSUME SetupInv, nsStep = "joined", NEW t \in NSTypes
               PROVE  ns[t] \in Asked(NSList, t) \/ AfterMountJoin(NSList, t)
    BY DEF NamespacesAsAsked, NSList
  <2>1. parts = <<>>
    BY DEF SetupInv, NsInv, JoinInv
  <2>2. ~\E k \in DOMAIN parts : parts[k] = t
    BY <2>1
  <2> QED
    BY <2>2 DEF SetupInv, NsInv, JoinInv
<1> QED
  BY <1>1, SetupInvariance, PTL

(* "Only set hostname if we created a new UTS namespace": no configuration *)
(* that lists the uts namespace once at most changes the host name of the  *)
(* host or of a namespace it joins.                                        *)
THEOREM HostnameCorrect ==
    ASSUME \A c \in Configs : \A i, j \in DOMAIN c.namespaces :
              c.namespaces[i].type = "uts" /\ c.namespaces[j].type = "uts" => i = j
    PROVE  Spec => []HostnameIsOwn
<1>1. Init => HostnameIsOwn
  BY DEF Init, HostnameIsOwn
<1>2. SetupInv /\ HostnameIsOwn /\ [Next]_vars => HostnameIsOwn'
  <2> SUFFICES ASSUME SetupInv, HostnameIsOwn, [Next]_vars
               PROVE  HostnameIsOwn'
    OBVIOUS
  <2>1. CASE UNCHANGED hostname
    BY <2>1 DEF HostnameIsOwn
  <2>2. CASE Sethostname /\ nsStep = "joined"
    <3>1. CASE \E i \in DOMAIN NSList : NSList[i] = [type |-> "uts", path |-> ""]
      <4>1. PICK i \in DOMAIN NSList : NSList[i] = [type |-> "uts", path |-> ""]
        BY <3>1
      <4>2. Entry(i, "uts") /\ NSList[i].path = ""
        <5>1. [type |-> "uts", path |-> ""].type = "uts" /\ [type |-> "uts", path |-> ""].path = ""
          OBVIOUS
        <5> QED
          BY <4>1, <5>1, Zenon DEF Entry
      <4>3. \A j \in DOMAIN NSList : Entry(j, "uts") => j = i
        BY <4>2 DEF Entry, NSList, SetupInv, HookInv
      <4>4. ns["uts"] = "new"
        BY <2>2, <4>2, <4>3 DEF SetupInv, NsInv, JoinInv, NSTypes
      <4> QED
        BY <2>2, <4>4 DEF Sethostname, HostnameIsOwn
    <3>2. CASE ~\E i \in DOMAIN NSList : NSList[i] = [type |-> "uts", path |-> ""]
      BY <2>2, <3>2 DEF Sethostname, HostnameIsOwn, NSList
    <3> QED
      BY <3>1, <3>2
  <2> QED
    BY <2>1, <2>2 DEF Next, vars
<1> QED
  BY <1>1, <1>2, SetupInvariance, PTL DEF Spec

-----------------------------------------------------------------------------
(***************************************************************************)
(* The host's mounts: what mounting does to them whatever the              *)
(* configuration.                                                          *)
(***************************************************************************)

(* The names at which the host of the model has mounts.                    *)
HostNames == {"dev", "cgroup", "rootfs", "data"}

(* Mount n of the host is mounted as a whole; it is not at a root, and only *)
(* the fourth may be at the path of the image.  The second is /dev, and    *)
(* nothing is on it.                                                       *)
Fits(x, n) ==
    /\ x.root = <<>> /\ x.at # <<>>
    /\ x.parent = 1 /\ x.at = Rootfs => n = 4
    /\ n = 2 => x.fs = "devtmpfs" /\ x.parent = 1
    /\ n = 2 <=> x.at = <<"dev">>
    /\ x.parent # 2 /\ Ends(x.at, HostNames)

(* The mounts of the host, each after the one it is on.                    *)
LEMMA HostFacts ==
    ASSUME NEW c
    PROVE  /\ IsSeq(Host(c)) /\ Records(Host(c)) /\ Len(Host(c)) \in 3 .. 5
           /\ \A i \in 1 .. Len(Host(c)) :
                 /\ Host(c)[i].ns = "host" /\ Host(c)[i].parent \in 0 .. i - 1
                 /\ ~Host(c)[i].unbindable /\ IsSeq(Host(c)[i].at)
           /\ Host(c)[1].parent = 0 /\ Host(c)[1].root = <<>> /\ Host(c)[1].at = <<>>
           /\ \A i \in 2 .. Len(Host(c)) : Host(c)[i].parent # 0 /\ Fits(Host(c)[i], i)
<1> DEFINE Good(x, n) == /\ x.ns = "host" /\ x.parent \in 1 .. n - 1 /\ DOMAIN x = Fields
                         /\ Fits(x, n) /\ ~x.unbindable /\ IsSeq(x.at)
           mount(fs, parent, at, i) ==
              [NewMount(fs, FALSE) EXCEPT !.ns = "host", !.parent = parent, !.at = at,
                                          !.group = IF c.hostShared THEN i ELSE 0]
           m1 == mount("host", 0, <<>>, 1)
           m2 == mount("devtmpfs", 1, <<"dev">>, 2)
           m3 == mount("cgroup", 1, <<"cgroup">>, 3)
           image == mount("image", 1, Rootfs, 4)
           data == mount("data", 4, <<"data">>, 5)
           dir == mount("data", 1, Append(Rootfs, "data"), 4)
<1>1. /\ m1.ns = "host" /\ m1.parent = 0 /\ m1.root = <<>> /\ DOMAIN m1 = Fields
      /\ ~m1.unbindable /\ IsSeq(m1.at) /\ m1.at = <<>>
  <2>1. IsSeq(<<>>)
    <3>1. <<>> \in Seq({})
      OBVIOUS
    <3> QED
      BY <3>1, EverySeq
  <2>2. m1.at = <<>>
    BY DEF NewMount
  <2> QED
    BY <2>1, <2>2 DEF NewMount, Fields
<1>2. /\ Good(m2, 2) /\ Good(m3, 3)
      /\ Good(image, 4) /\ Good(data, 5) /\ Good(dir, 4)
  <2>1. /\ m2.at = <<"dev">> /\ m3.at = <<"cgroup">> /\ image.at = Rootfs
        /\ data.at = <<"data">> /\ dir.at = Append(Rootfs, "data")
    BY DEF NewMount
  <2>2. ASSUME NEW a
        PROVE  IsSeq(<<a>>)
    <3>1. <<a>> \in Seq({a})
      OBVIOUS
    <3> QED
      BY <3>1, EverySeq
  <2>8. IsSeq(Rootfs) /\ IsSeq(Append(Rootfs, "data")) /\ Append(Rootfs, "data") # <<>>
    <3>1. IsSeq(Rootfs)
      BY <2>2 DEF Rootfs
    <3>2. ASSUME NEW d, IsSeq(d), NEW a
          PROVE  IsSeq(Append(d, a)) /\ Append(d, a) # <<>>
      <4>1. IsSeq(Append(d, a)) /\ Len(Append(d, a)) = Len(d) + 1 /\ Len(d) \in Nat
        BY <3>2, AppendName, SeqFacts
      <4>2. Len(<<>>) = 0
        OBVIOUS
      <4> QED
        BY <4>1, <4>2
    <3> QED
      BY <3>1, <3>2
  <2>3. IsSeq(m2.at) /\ IsSeq(m3.at) /\ IsSeq(image.at) /\ IsSeq(data.at) /\ IsSeq(dir.at)
    BY <2>1, <2>2, <2>8
  <2>4. ASSUME NEW x \in {m2, m3, image, data, dir}
        PROVE  x.ns = "host" /\ DOMAIN x = Fields /\ ~x.unbindable /\ x.root = <<>>
    BY <2>4 DEF NewMount, Fields
  <2>5. /\ m2.parent = 1 /\ m3.parent = 1 /\ image.parent = 1 /\ data.parent = 4 /\ dir.parent = 1
    BY DEF NewMount
  <2>6. /\ m2.at # <<>> /\ m3.at # <<>> /\ image.at # <<>> /\ data.at # <<>> /\ dir.at # <<>>
        /\ m2.at # Rootfs /\ m3.at # Rootfs
    BY <2>1, <2>8 DEF Rootfs
  <2>7. m2.fs = "devtmpfs"
    BY DEF NewMount
  <2>9. /\ m2.at = <<"dev">> /\ m3.at # <<"dev">> /\ image.at # <<"dev">>
        /\ data.at # <<"dev">> /\ dir.at # <<"dev">>
    <3>1. Rootfs = <<"rootfs">> /\ Append(<<"rootfs">>, "data") # <<"dev">>
      BY DEF Rootfs
    <3> QED
      BY <2>1, <3>1
  <2>10. /\ Ends(m2.at, HostNames) /\ Ends(m3.at, HostNames) /\ Ends(image.at, HostNames)
         /\ Ends(data.at, HostNames) /\ Ends(dir.at, HostNames)
    <3>1. ASSUME NEW a \in HostNames
          PROVE  Ends(<<a>>, HostNames)
      BY DEF Ends
    <3>2. ASSUME NEW d, IsSeq(d), NEW a \in HostNames
          PROVE  Ends(Append(d, a), HostNames)
      <4>1. Len(Append(d, a)) = Len(d) + 1 /\ Append(d, a)[Len(d) + 1] = a
        BY <3>2, AppendName
      <4> QED
        BY <4>1 DEF Ends
    <3>3. IsSeq(Rootfs)
      BY <2>2 DEF Rootfs
    <3>4. Ends(Append(Rootfs, "data"), HostNames)
      BY <3>2, <3>3 DEF HostNames
    <3>5. Ends(<<"dev">>, HostNames) /\ Ends(<<"cgroup">>, HostNames) /\ Ends(<<"data">>, HostNames)
          /\ Ends(Rootfs, HostNames)
      BY <3>1 DEF HostNames, Rootfs
    <3> QED
      BY <2>1, <3>4, <3>5
  <2> HIDE DEF m2, m3, image, data, dir
  <2>11. Fits(m2, 2) /\ Fits(m3, 3)
    BY <2>3, <2>4, <2>5, <2>6, <2>7, <2>9, <2>10 DEF Fits
  <2>12. Fits(image, 4) /\ Fits(data, 5) /\ Fits(dir, 4)
    BY <2>3, <2>4, <2>5, <2>6, <2>7, <2>9, <2>10 DEF Fits
  <2> QED
    BY <2>3, <2>4, <2>5, <2>11, <2>12
<1> DEFINE base == <<m1, m2, m3>>
           Fine(s) == /\ IsSeq(s) /\ Len(s) \in 3 .. 5
                      /\ s[1] = m1 /\ \A i \in 2 .. Len(s) : Good(s[i], i)
<1>3. /\ Host(c) = IF c.imageMount
                   THEN IF ~c.inner THEN Append(base, image) ELSE Append(Append(base, image), data)
                   ELSE IF ~c.inner THEN base ELSE Append(base, dir)
  BY DEF Host
<1> HIDE DEF m1, m2, m3, image, data, dir
<1>4. Fine(base)
  <2>1. /\ base \in Seq({m1, m2, m3}) /\ Len(base) = 3
        /\ base[1] = m1 /\ base[2] = m2 /\ base[3] = m3
    OBVIOUS
  <2>2. IsSeq(base)
    BY <2>1, EverySeq
  <2> HIDE DEF Good, base
  <2>3. \A i \in 2 .. 3 : Good(base[i], i)
    <3> TAKE i \in 2 .. 3
    <3>1. i = 2 \/ i = 3
      OBVIOUS
    <3> QED
      BY <1>2, <2>1, <3>1
  <2>4. Len(base) \in 3 .. 5
    BY <2>1
  <2> QED
    BY <2>1, <2>2, <2>3, <2>4, Zenon
<1>5. ASSUME NEW s, Fine(s), NEW x, Good(x, Len(s) + 1), Len(s) < 5
      PROVE  Fine(Append(s, x)) /\ Len(Append(s, x)) = Len(s) + 1
  <2>1. s \in Seq(Range(s) \cup {x}) /\ Len(s) \in Nat
    BY <1>5, SeqMonotonic, SeqFacts DEF IsSeq
  <2>2. /\ Append(s, x) \in Seq(Range(s) \cup {x})
        /\ Len(Append(s, x)) = Len(s) + 1
        /\ \A i \in 1 .. Len(s) : Append(s, x)[i] = s[i]
        /\ Append(s, x)[Len(s) + 1] = x
    <3> DEFINE R == Range(s) \cup {x}
    <3>1. x \in R /\ s \in Seq(R)
      BY <2>1
    <3> HIDE DEF R
    <3>2. Append(s, x) \in Seq(R)
      BY <3>1
    <3>3. /\ Len(Append(s, x)) = Len(s) + 1
          /\ \A i \in 1 .. Len(s) : Append(s, x)[i] = s[i]
          /\ Append(s, x)[Len(s) + 1] = x
      BY <3>1
    <3> QED
      BY <3>2, <3>3 DEF R
  <2>3. IsSeq(Append(s, x))
    BY <2>2, EverySeq
  <2> HIDE DEF Good
  <2>4. \A i \in 2 .. Len(s) + 1 : Good(Append(s, x)[i], i)
    <3> TAKE i \in 2 .. Len(s) + 1
    <3>1. CASE i = Len(s) + 1
      BY <1>5, <2>2, <3>1
    <3>2. CASE i \in 2 .. Len(s)
      BY <1>5, <2>2, <3>2
    <3> QED
      BY <2>1, <3>1, <3>2
  <2>5. Append(s, x)[1] = m1 /\ Len(s) + 1 \in 3 .. 5
    <3>1. Len(s) \in 3 .. 5 /\ s[1] = m1 /\ Len(s) < 5
      BY <1>5
    <3> QED
      BY <2>2, <3>1
  <2> QED
    BY <2>2, <2>3, <2>4, <2>5
<1> HIDE DEF Good
<1>6. Len(base) = 3 /\ Len(base) < 5 /\ Len(base) + 1 = 4
  OBVIOUS
<1> HIDE DEF base, Fine
<1>7. Fine(Append(base, image)) /\ Len(Append(base, image)) = 4 /\ Fine(Append(base, dir))
  <2>1. Good(image, Len(base) + 1) /\ Good(dir, Len(base) + 1)
    BY <1>2, <1>6
  <2> QED
    BY <1>4, <1>5, <1>6, <2>1
<1>9. Fine(Append(Append(base, image), data))
  <2> DEFINE s == Append(base, image)
  <2> HIDE DEF s
  <2>1. Fine(s) /\ Len(s) = 4
    BY <1>7 DEF s
  <2>2. Len(s) < 5 /\ Len(s) + 1 = 5
    BY <2>1
  <2>3. Good(data, Len(s) + 1)
    BY <1>2, <2>2
  <2>4. Fine(Append(s, data))
    BY <1>5, <2>1, <2>2, <2>3
  <2> QED
    BY <2>4 DEF s
<1>10. Fine(Host(c))
  <2> HIDE DEF Fine
  <2> QED
    BY <1>3, <1>4, <1>7, <1>9
<1> DEFINE h == Host(c)
<1> HIDE DEF h
<1>11. /\ IsSeq(h) /\ Len(h) \in 3 .. 5
       /\ h[1].ns = "host" /\ h[1].parent = 0 /\ h[1].root = <<>> /\ DOMAIN h[1] = Fields
       /\ ~h[1].unbindable /\ IsSeq(h[1].at) /\ h[1].at = <<>>
       /\ \A i \in 2 .. Len(h) : Good(h[i], i)
  BY <1>1, <1>10 DEF h, Fine
<1>12. ASSUME NEW i \in 1 .. Len(h)
       PROVE  /\ h[i].ns = "host" /\ h[i].parent \in 0 .. i - 1 /\ DOMAIN h[i] = Fields
              /\ ~h[i].unbindable /\ IsSeq(h[i].at)
  <2>1. CASE i = 1
    BY <1>11, <2>1
  <2>2. CASE i \in 2 .. Len(h)
    BY <1>11, <2>2 DEF Good
  <2> QED
    BY <1>11, <2>1, <2>2
<1>13. \A i \in 2 .. Len(h) : h[i].parent # 0 /\ Fits(h[i], i)
  BY <1>11 DEF Good
<1> QED
  BY <1>11, <1>12, <1>13 DEF h, Records

(* The container's mounts come after the host's.                           *)
Own(ms) == HostSize + 1 .. Len(ms)

(* The host's mounts are what they were.                                   *)
HostPart(ms) ==
    /\ IsSeq(ms) /\ Records(ms) /\ Len(ms) > HostSize
    /\ \A i \in 1 .. HostSize : ms[i] = Host(conf)[i]

(* No other mount is on the host; what happens in them stays there.        *)
Apart(ms) == \A i \in Own(ms) : ms[i].ns # "host"
Quiet(ms) == Apart(ms) /\ \A i \in Own(ms) : ms[i].group = 0

(* Every mount can be bound.                                               *)
Free(ms) == \A i \in 1 .. Len(ms) : ~ms[i].unbindable

(* No mount of the host is on one of the container.                        *)
LEMMA OwnClosed ==
    ASSUME NEW ms, HostPart(ms)
    PROVE  /\ HostSize \in 3 .. 5 /\ Len(ms) \in Nat /\ DOMAIN ms = 1 .. Len(ms)
           /\ Own(ms) \in SUBSET (1 .. Len(ms)) /\ Closed(ms, Own(ms))
<1>1. HostSize \in 3 .. 5 /\ Len(ms) \in Nat /\ DOMAIN ms = 1 .. Len(ms)
  BY HostFacts, SeqFacts DEF HostPart, HostSize
<1>2. Own(ms) \in SUBSET (1 .. Len(ms))
  BY <1>1 DEF Own
<1>3. ASSUME NEW i \in Mounted(ms), ms[i].parent \in Own(ms), i \notin Own(ms)
      PROVE  FALSE
  <2>1. i \in 1 .. HostSize
    BY <1>1, <1>3 DEF Mounted, Own
  <2>2. Host(conf)[i].parent \in 0 .. i - 1
    BY <2>1, HostFacts DEF HostSize
  <2>3. ms[i].parent \in 0 .. i - 1
    BY <2>1, <2>2 DEF HostPart
  <2> QED
    BY <1>1, <1>3, <2>1, <2>3 DEF Own
<1> QED
  BY <1>1, <1>2, <1>3 DEF Closed

(* A path the process looks up leads to a mount of the container.          *)
LEMMA OwnWalk ==
    ASSUME NEW ms, HostPart(ms), NEW r \in Own(ms), NEW path, IsSeq(path)
    PROVE  Walk(ms, r, path).mount \in Own(ms)
<1>1. Len(path) \in Nat
  BY SeqFacts
<1> QED
  BY <1>1, OwnClosed, WalkWithin DEF HostPart

(* Mounting something in the container is safe if it is not shared.        *)
LEMMA OwnAttach ==
    ASSUME NEW ms, HostPart(ms), NEW p, p.mount \in Own(ms),
           NEW tree, IsSeq(tree), Records(tree),
           Quiet(ms) => \A i \in 1 .. Len(tree) : tree[i].group = 0
    PROVE  LET new == Attach(ms, p, tree)
           IN  /\ HostPart(new) /\ Len(new) >= Len(ms) /\ (Quiet(ms) => Quiet(new))
               /\ Free(ms) /\ Free(tree) => Free(new)
<1> DEFINE new == Attach(ms, p, tree)
<1>1. /\ HostSize \in 3 .. 5 /\ Len(ms) \in Nat /\ DOMAIN ms = 1 .. Len(ms)
      /\ Own(ms) \in SUBSET (1 .. Len(ms)) /\ Closed(ms, Own(ms))
  BY OwnClosed
<1>2. /\ IsSeq(new) /\ Len(new) >= Len(ms)
      /\ \A i \in 1 .. Len(ms) : new[i] = ms[i]
  BY AttachKeeps DEF HostPart
<1>3. \A i \in Len(ms) + 1 .. Len(new) :
         /\ DOMAIN new[i] = Fields
         /\ ms[p.mount].group = 0 => new[i].ns = ms[p.mount].ns
         /\ ms[p.mount].group = 0 /\ (\A j \in 1 .. Len(tree) : tree[j].group = 0) =>
               new[i].group = 0
         /\ \E j \in 1 .. Len(tree) : new[i].unbindable = tree[j].unbindable
  BY AttachNew DEF HostPart
<1> HIDE DEF new
<1>4. Len(new) \in Nat
  BY <1>2, SeqFacts
<1>5. HostPart(new)
  <2>1. \A i \in 1 .. Len(new) : DOMAIN new[i] = Fields
    <3> TAKE i \in 1 .. Len(new)
    <3>1. CASE i \in 1 .. Len(ms)
      BY <1>2, <3>1 DEF HostPart, Records
    <3>2. CASE i \in Len(ms) + 1 .. Len(new)
      BY <1>3, <3>2
    <3> QED
      BY <1>1, <1>4, <3>1, <3>2
  <2>2. Len(new) > HostSize /\ \A i \in 1 .. HostSize : new[i] = ms[i]
    BY <1>1, <1>2, <1>4 DEF HostPart
  <2>3. \A i \in 1 .. HostSize : new[i] = Host(conf)[i]
    BY <2>2 DEF HostPart
  <2> QED
    BY <1>2, <2>1, <2>2, <2>3 DEF HostPart, Records
<1>6. ASSUME Quiet(ms)
      PROVE  Quiet(new)
  <2>1. \A i \in Own(ms) : ms[i].ns # "host" /\ ms[i].group = 0
    BY <1>6 DEF Quiet, Apart
  <2>2. ASSUME NEW i \in Own(new)
        PROVE  new[i].ns # "host" /\ new[i].group = 0
    <3>1. CASE i \in Own(ms)
      BY <1>1, <1>2, <2>1, <3>1
    <3>2. CASE i \in Len(ms) + 1 .. Len(new)
      BY <1>3, <1>6, <2>1, <3>2
    <3> QED
      BY <1>1, <1>4, <2>2, <3>1, <3>2 DEF Own
  <2> QED
    BY <2>2 DEF Quiet, Apart
<1>7. ASSUME Free(ms), Free(tree)
      PROVE  Free(new)
  <2> SUFFICES ASSUME NEW i \in 1 .. Len(new)
               PROVE  ~new[i].unbindable
    BY DEF Free
  <2>1. CASE i \in 1 .. Len(ms)
    BY <1>2, <1>7, <2>1 DEF Free
  <2>2. CASE i \in Len(ms) + 1 .. Len(new)
    BY <1>3, <1>7, <2>2 DEF Free
  <2> QED
    BY <1>1, <1>4, <2>1, <2>2
<1> QED
  BY <1>2, <1>5, <1>6, <1>7 DEF new

(* So is a bind mount of one place of the container over another.          *)
LEMMA OwnBind ==
    ASSUME NEW ms, HostPart(ms), NEW from, from.mount \in Own(ms),
           NEW to, to.mount \in Own(ms), NEW rec
    PROVE  LET new == Bind(ms, from, to, rec)
           IN  /\ HostPart(new) /\ Len(new) >= Len(ms) /\ (Quiet(ms) => Quiet(new))
               /\ Free(ms) => Free(new)
<1> DEFINE tree == Clone(ms, from, rec)
<1>1. Own(ms) \in SUBSET (1 .. Len(ms)) /\ Closed(ms, Own(ms))
  BY OwnClosed
<1>2. /\ IsSeq(tree) /\ Records(tree)
      /\ \A i \in 1 .. Len(tree) : \E k \in Own(ms) :
            tree[i].group = ms[k].group /\ tree[i].unbindable = ms[k].unbindable
  BY <1>1, CloneWithin DEF HostPart
<1>3. Quiet(ms) => \A i \in 1 .. Len(tree) : tree[i].group = 0
  <2> HIDE DEF tree
  <2> QED
    BY <1>2 DEF Quiet
<1>4. Free(ms) => Free(tree)
  <2> HIDE DEF tree
  <2> QED
    BY <1>1, <1>2 DEF Free
<1> HIDE DEF tree
<1>5. LET new == Attach(ms, to, tree)
      IN  /\ HostPart(new) /\ Len(new) >= Len(ms) /\ (Quiet(ms) => Quiet(new))
          /\ Free(ms) /\ Free(tree) => Free(new)
  BY <1>2, <1>3, OwnAttach
<1> QED
  BY <1>4, <1>5 DEF Bind, tree

(* A change of mounts of the container that keeps their number and what    *)
(* they are is safe, if it makes none shared.                              *)
LEMMA OwnChange ==
    ASSUME NEW ms, HostPart(ms), NEW new, IsSeq(new), Records(new), Len(new) = Len(ms),
           \A i \in 1 .. Len(ms) : i \notin Own(ms) => new[i] = ms[i],
           \A i \in Own(ms) : new[i].ns = ms[i].ns \/ new[i].ns = "none"
    PROVE  /\ HostPart(new)
           /\ Apart(ms) => Apart(new)
           /\ Quiet(ms) /\ (\A i \in Own(ms) : new[i].group \in {0, ms[i].group}) => Quiet(new)
           /\ Free(ms) /\ (\A i \in Own(ms) : ~ms[i].unbindable => ~new[i].unbindable) => Free(new)
<1>1. HostSize \in 3 .. 5 /\ Len(ms) \in Nat
  BY OwnClosed
<1>2. Own(new) = Own(ms)
  BY DEF Own
<1>3. HostPart(new)
  <2>1. \A i \in 1 .. HostSize : i \in 1 .. Len(ms) /\ i \notin Own(ms)
    BY <1>1 DEF Own, HostPart
  <2> QED
    BY <2>1 DEF HostPart
<1>4. ASSUME Free(ms), \A i \in Own(ms) : ~ms[i].unbindable => ~new[i].unbindable
      PROVE  Free(new)
  BY <1>4 DEF Free
<1> QED
  BY <1>2, <1>3, <1>4 DEF Apart, Quiet

(* A change of propagation is one, if it is not to shared.                 *)
LEMMA OwnPropagation ==
    ASSUME NEW ms, HostPart(ms), NEW m \in Own(ms), NEW flag
    PROVE  LET new == SetPropagation(ms, m, flag)
           IN  /\ HostPart(new) /\ Len(new) = Len(ms)
               /\ Apart(ms) => Apart(new)
               /\ Quiet(ms) /\ flag.kind # "shared" => Quiet(new)
               /\ Free(ms) /\ flag.kind # "unbindable" => Free(new)
<1> DEFINE U == IF flag.rec THEN Tree(ms, m) ELSE {m}
           new == SetPropagation(ms, m, flag)
<1>1. U \subseteq Own(ms) /\ Own(ms) \in SUBSET (1 .. Len(ms))
  BY OwnClosed, TreeWithin DEF HostPart
<1>2. /\ IsSeq(new) /\ Len(new) = Len(ms)
      /\ \A i \in 1 .. Len(ms) : i \notin U => new[i] = ms[i]
  BY SetKindKeeps DEF HostPart, SetPropagation
<1>3. ASSUME NEW i \in 1 .. Len(ms)
      PROVE  /\ DOMAIN new[i] = Fields /\ new[i].ns = ms[i].ns
             /\ i \in U /\ flag.kind # "shared" => new[i].group = 0
  BY SetKindFields DEF HostPart, SetPropagation
<1>8. ASSUME flag.kind # "unbindable", NEW i \in Own(ms), ~ms[i].unbindable
      PROVE  ~new[i].unbindable
  BY <1>1, <1>8, SetKindBindable DEF HostPart, SetPropagation
<1> HIDE DEF new, U
<1>4. Records(new)
  BY <1>2, <1>3 DEF Records
<1>5. \A i \in 1 .. Len(ms) : i \notin Own(ms) => new[i] = ms[i]
  BY <1>1, <1>2
<1>6. \A i \in Own(ms) : new[i].ns = ms[i].ns \/ new[i].ns = "none"
  BY <1>1, <1>3
<1>7. flag.kind # "shared" => \A i \in Own(ms) : new[i].group \in {0, ms[i].group}
  BY <1>1, <1>2, <1>3
<1> QED
  BY <1>2, <1>4, <1>5, <1>6, <1>7, <1>8, OwnChange DEF new

(* So is making mounts of the container read-only.                         *)
LEMMA OwnReadonly ==
    ASSUME NEW ms, HostPart(ms), NEW U \in SUBSET Own(ms)
    PROVE  LET new == SetReadonly(ms, U)
           IN  /\ HostPart(new) /\ Len(new) = Len(ms)
               /\ Apart(ms) => Apart(new)
               /\ Quiet(ms) => Quiet(new)
               /\ Free(ms) => Free(new)
<1> DEFINE new == SetReadonly(ms, U)
<1>1. Own(ms) \in SUBSET (1 .. Len(ms)) /\ DOMAIN ms = 1 .. Len(ms)
  BY OwnClosed
<1>2. /\ IsSeq(new) /\ Len(new) = Len(ms)
      /\ \A i \in 1 .. Len(ms) : i \notin U => new[i] = ms[i]
  BY SetReadonlyKeeps DEF HostPart
<1>3. ASSUME NEW i \in 1 .. Len(ms)
      PROVE  /\ DOMAIN new[i] = Fields /\ new[i].ns = ms[i].ns /\ new[i].group = ms[i].group
             /\ new[i].unbindable = ms[i].unbindable
  <2>1. DOMAIN ms[i] = Fields /\ i \in DOMAIN ms
    BY <1>1 DEF HostPart, Records
  <2> QED
    BY <2>1 DEF SetReadonly, Fields
<1> HIDE DEF new
<1>4. Records(new) /\ \A i \in 1 .. Len(ms) : i \notin Own(ms) => new[i] = ms[i]
  BY <1>2, <1>3 DEF Records
<1> QED
  BY <1>1, <1>2, <1>3, <1>4, OwnChange DEF new

(* And taking mounts of the container away.                                *)
LEMMA OwnForget ==
    ASSUME NEW ms, HostPart(ms), NEW U \in SUBSET Own(ms)
    PROVE  LET new == Forget(ms, U)
           IN  /\ HostPart(new) /\ Len(new) = Len(ms)
               /\ Apart(ms) => Apart(new)
               /\ Quiet(ms) => Quiet(new)
               /\ Free(ms) => Free(new)
<1> DEFINE new == Forget(ms, U)
<1>1. Own(ms) \in SUBSET (1 .. Len(ms)) /\ DOMAIN ms = 1 .. Len(ms)
  BY OwnClosed
<1>2. /\ IsSeq(new) /\ Len(new) = Len(ms)
      /\ \A i \in 1 .. Len(ms) : i \notin U => new[i] = ms[i]
  BY ForgetKeeps DEF HostPart
<1>3. ASSUME NEW i \in 1 .. Len(ms)
      PROVE  /\ DOMAIN new[i] = Fields /\ new[i].group = ms[i].group /\ new[i].unbindable = ms[i].unbindable
             /\ new[i].ns = ms[i].ns \/ new[i].ns = "none"
  <2>1. DOMAIN ms[i] = Fields /\ i \in DOMAIN ms
    BY <1>1 DEF HostPart, Records
  <2> QED
    BY <2>1 DEF Forget, Fields
<1> HIDE DEF new
<1>4. Records(new) /\ \A i \in 1 .. Len(ms) : i \notin Own(ms) => new[i] = ms[i]
  BY <1>2, <1>3 DEF Records
<1> QED
  BY <1>1, <1>2, <1>3, <1>4, OwnChange DEF new

(* And pivot_root; then the old root is on the new one.                    *)
LEMMA OwnPivot ==
    ASSUME NEW ms, HostPart(ms), NEW old \in Own(ms), NEW p, p.mount \in Own(ms),
           CanPivot(ms, old, p)
    PROVE  LET new == Pivot(ms, old, p.mount)
           IN  /\ HostPart(new) /\ Len(new) = Len(ms)
               /\ Apart(ms) => Apart(new)
               /\ Quiet(ms) => Quiet(new)
               /\ Free(ms) => Free(new)
               /\ new[old].parent = p.mount /\ new[p.mount].group = 0
<1> DEFINE new == Pivot(ms, old, p.mount)
<1>1. /\ Own(ms) \in SUBSET (1 .. Len(ms)) /\ DOMAIN ms = 1 .. Len(ms) /\ Len(ms) \in Nat
      /\ p.mount # old /\ ms[p.mount].group = 0
  BY OwnClosed DEF CanPivot
<1>2. /\ DOMAIN new = 1 .. Len(ms) /\ new = [i \in DOMAIN new |-> new[i]]
      /\ \A i \in 1 .. Len(ms) : i \notin Own(ms) => new[i] = ms[i]
  BY <1>1 DEF Pivot
<1>3. ASSUME NEW i \in 1 .. Len(ms)
      PROVE  /\ DOMAIN new[i] = Fields /\ new[i].group = ms[i].group /\ new[i].ns = ms[i].ns
             /\ new[i].unbindable = ms[i].unbindable
             /\ i = old => new[i].parent = p.mount
  <2>1. DOMAIN ms[i] = Fields /\ i \in DOMAIN ms
    BY <1>1 DEF HostPart, Records
  <2>2. CASE i = old
    BY <1>1, <2>1, <2>2 DEF Pivot, Fields
  <2>3. CASE i = p.mount
    BY <1>1, <2>1, <2>3 DEF Pivot, Fields
  <2>4. CASE i # old /\ i # p.mount
    BY <1>1, <2>1, <2>4 DEF Pivot
  <2> QED
    BY <2>2, <2>3, <2>4
<1> HIDE DEF new
<1>4. IsSeq(new) /\ Len(new) = Len(ms)
  BY <1>1, <1>2, FunctionIsSeq
<1>5. Records(new)
  BY <1>3, <1>4 DEF Records
<1>6. new[old].parent = p.mount /\ new[p.mount].group = 0
  BY <1>1, <1>3
<1> QED
  BY <1>1, <1>2, <1>3, <1>4, <1>5, <1>6, OwnChange DEF new

-----------------------------------------------------------------------------
(* The invariant.                                                          *)

(* The propagations that leave nothing shared in the container.            *)
Confined == conf.propagation \in {"", "rslave", "rprivate", "runbindable"}

(* Whether the root or a mount is asked to be unbindable.                  *)
Unbindable == {"unbindable", "runbindable"}
AsksUnbindable ==
    \/ conf.propagation \in Unbindable
    \/ \E i \in DOMAIN conf.mounts : Unbindable \cap Range(conf.mounts[i].options) # {}

(* The root of the process is a mount of the container, before the pivot   *)
(* the copy of the host's; then the old root is on one that is not shared. *)
(* If nothing is shared, the container's mounts are apart from the host,   *)
(* and if none is asked to be unbindable, each can be bound.               *)
TableInv ==
    /\ HostPart(mnt)
    /\ root \in Own(mnt)
    /\ pc \in PrePivot => root = OldRoot
    /\ pc = "mountRootfs" => mnt = CloneNamespace(Host(conf))
    /\ pc = "detach" => /\ mnt[OldRoot].parent \in Own(mnt)
                        /\ mnt[mnt[OldRoot].parent].group = 0
    /\ Confined => Apart(mnt)
    /\ Confined /\ pc \notin Ended \cup {"mountRootfs"} => Quiet(mnt)
    /\ ~AsksUnbindable => Free(mnt)

HostInv ==
    /\ conf \in Configs
    /\ next \in Nat \ {0}
    /\ pc \in {"mountRootfs", "mountProc"} => next = 1
    /\ pc = "specMounts" => next <= Len(SpecMounts)
    /\ hasMountNamespace => TableInv

-----------------------------------------------------------------------------
(* What becomes of the copies of the host's mounts.                        *)

(* The copies of the host's mounts, and what the process has mounted.      *)
Old == OldRoot .. 2 * HostSize
Fresh(ms) == 2 * HostSize + 1 .. Len(ms)

(* The copy of the host's mount for the image, if it has one, or of the    *)
(* data in the image.                                                      *)
Image == OldRoot + 3

(* The copies are where the host's mounts were: each on one before it, at  *)
(* most one of them at the path of the image, and none at a root.          *)
Skeleton(ms) ==
    \A i \in Old :
        /\ ms[i].ns = "container" /\ ms[i].root = <<>>
        /\ i = OldRoot => ms[i].parent = 0
        /\ i # OldRoot =>
              /\ ms[i].parent \in OldRoot .. i - 1
              /\ ms[i].at # <<>>
              /\ ms[i].parent = OldRoot /\ ms[i].at = Rootfs => i = Image

(* The place of the image.                                                 *)
Base(ms) ==
    IF Image \in Old /\ ms[Image].parent = OldRoot /\ ms[Image].at = Rootfs
    THEN Place(Image, <<>>) ELSE Place(OldRoot, Rootfs)

(* The first mount the process makes covers the image, and all others are  *)
(* on mounts the process has made.                                         *)
Layout(ms) ==
    /\ Skeleton(ms)
    /\ 2 * HostSize + 1 \in Fresh(ms)
    /\ LET m == ms[2 * HostSize + 1]
       IN  m.ns = "container" /\ Place(m.parent, m.at) = Base(ms)
    /\ \A i \in Fresh(ms) : i # 2 * HostSize + 1 => ms[i].parent \in Fresh(ms)

(* After the pivot nothing is over the old root, and all copies below it.  *)
Pivoted(ms) ==
    /\ \A i \in Old : ms[i].ns = "container" /\ (i # OldRoot => ms[i].parent \in OldRoot .. i - 1)
    /\ Over(ms, RootOf(ms, OldRoot)) = {}

(* Detached, no copy is mounted any more.                                  *)
Gone(ms) == \A i \in Old : ms[i].ns = "none"

Isolated == PostPivot \cup {"createContainer", "waitStart", "startContainer", "exec"}

-----------------------------------------------------------------------------
(* The start.                                                              *)

(* The copies a new mount namespace begins with.                           *)
LEMMA CloneNamespaceFacts ==
    LET new == CloneNamespace(Host(conf))
    IN  /\ HostPart(new) /\ Len(new) = 2 * HostSize /\ OldRoot \in Own(new) /\ Apart(new)
        /\ Free(new)
        /\ \A i \in Own(new) :
              /\ new[i].ns = "container" /\ IsSeq(new[i].at)
              /\ i # OldRoot => new[i].parent \in HostSize + 1 .. i - 1
        /\ Skeleton(new)
<1> DEFINE H == Host(conf)
           copy == [i \in DOMAIN H |->
                       [H[i] EXCEPT !.ns = "container",
                                    !.parent = IF @ = 0 THEN 0 ELSE Len(H) + @]]
           new == CloneNamespace(H)
<1>1. /\ IsSeq(H) /\ Records(H) /\ Len(H) \in 3 .. 5 /\ DOMAIN H = 1 .. Len(H)
      /\ \A i \in 1 .. Len(H) : /\ H[i].ns = "host" /\ H[i].parent \in 0 .. i - 1
                                 /\ ~H[i].unbindable /\ IsSeq(H[i].at)
      /\ H[1].parent = 0 /\ H[1].root = <<>>
      /\ \A i \in 2 .. Len(H) : H[i].parent # 0 /\ Fits(H[i], i)
  BY HostFacts, SeqFacts
<1> HIDE DEF H
<1>2. DOMAIN copy = 1 .. Len(H) /\ copy = [i \in DOMAIN copy |-> copy[i]]
  BY <1>1
<1>3. ASSUME NEW i \in 1 .. Len(H)
      PROVE  /\ DOMAIN copy[i] = Fields /\ copy[i].ns = "container"
             /\ i # 1 => copy[i].parent \in Len(H) + 1 .. Len(H) + i - 1
             /\ copy[i].parent = IF H[i].parent = 0 THEN 0 ELSE Len(H) + H[i].parent
             /\ copy[i].root = H[i].root /\ copy[i].at = H[i].at
             /\ ~copy[i].unbindable
  <2>1. DOMAIN H[i] = Fields
    BY <1>1 DEF Records
  <2>2. copy[i] = [H[i] EXCEPT !.ns = "container",
                               !.parent = IF @ = 0 THEN 0 ELSE Len(H) + @]
    BY <1>1
  <2>3. copy[i].parent = IF H[i].parent = 0 THEN 0 ELSE Len(H) + H[i].parent
    BY <2>1, <2>2 DEF Fields
  <2> HIDE DEF copy
  <2>4. /\ DOMAIN copy[i] = Fields /\ copy[i].ns = "container"
        /\ copy[i].root = H[i].root /\ copy[i].at = H[i].at
        /\ copy[i].unbindable = H[i].unbindable
    BY <2>1, <2>2 DEF Fields
  <2>5. i # 1 => copy[i].parent \in Len(H) + 1 .. Len(H) + i - 1
    BY <1>1, <2>3
  <2> QED
    BY <1>1, <2>3, <2>4, <2>5
<1>4. new = H \o copy
  BY DEF CloneNamespace
<1> HIDE DEF copy, new
<1>5. IsSeq(copy) /\ Len(copy) = Len(H)
  BY <1>1, <1>2, FunctionIsSeq
<1>6. /\ IsSeq(new) /\ Len(new) = Len(H) + Len(H)
      /\ \A i \in 1 .. Len(H) : new[i] = H[i]
      /\ \A i \in 1 .. Len(H) : new[Len(H) + i] = copy[i]
  <2>0. IsSeq(H) /\ IsSeq(copy)
    BY <1>1, <1>5
  <2>1. /\ IsSeq(H \o copy)
        /\ Len(H \o copy) = Len(H) + Len(copy)
        /\ \A i \in 1 .. Len(H) : (H \o copy)[i] = H[i]
        /\ \A i \in 1 .. Len(copy) : (H \o copy)[Len(H) + i] = copy[i]
    BY <2>0, SeqConcat
  <2> QED
    BY <1>4, <1>5, <2>1
<1>7. ASSUME NEW i \in Len(H) + 1 .. Len(new)
      PROVE  /\ DOMAIN new[i] = Fields /\ new[i].ns = "container" /\ ~new[i].unbindable
             /\ IsSeq(new[i].at)
             /\ i # Len(H) + 1 => new[i].parent \in Len(H) + 1 .. i - 1
  <2>1. i - Len(H) \in 1 .. Len(H) /\ Len(H) + (i - Len(H)) = i
    BY <1>1, <1>6
  <2>2. new[i] = copy[i - Len(H)]
    BY <1>6, <2>1
  <2> QED
    BY <1>1, <1>3, <2>1, <2>2
<1>8. Records(new)
  <2> SUFFICES ASSUME NEW i \in 1 .. Len(new)
               PROVE  DOMAIN new[i] = Fields
    BY DEF Records
  <2>1. CASE i \in 1 .. Len(H)
    BY <1>1, <1>6, <2>1 DEF Records
  <2>2. CASE i \in Len(H) + 1 .. Len(new)
    BY <1>7, <2>2
  <2> QED
    BY <1>1, <1>6, <2>1, <2>2
<1>9. HostSize = Len(H) /\ Own(new) = Len(H) + 1 .. Len(new) /\ OldRoot = Len(H) + 1
  BY DEF HostSize, H, Own, OldRoot
<1>10. HostPart(new)
  BY <1>1, <1>6, <1>8, <1>9 DEF HostPart, H
<1>11. Apart(new)
  BY <1>7, <1>9 DEF Apart
<1>12. Skeleton(new)
  <2> SUFFICES ASSUME NEW i \in Old
               PROVE  /\ new[i].ns = "container" /\ new[i].root = <<>>
                      /\ i = OldRoot => new[i].parent = 0
                      /\ i # OldRoot =>
                            /\ new[i].parent \in OldRoot .. i - 1
                            /\ new[i].at # <<>>
                            /\ new[i].parent = OldRoot /\ new[i].at = Rootfs => i = Image
    BY DEF Skeleton
  <2> DEFINE j == i - Len(H)
  <2>1. j \in 1 .. Len(H) /\ Len(H) + j = i /\ i \in Len(H) + 1 .. Len(new) /\ Len(H) \in Nat
    BY <1>1, <1>6, <1>9 DEF Old
  <2> HIDE DEF j
  <2>2. /\ new[i] = copy[j] /\ copy[j].ns = "container"
        /\ copy[j].root = H[j].root /\ copy[j].at = H[j].at
        /\ copy[j].parent = IF H[j].parent = 0 THEN 0 ELSE Len(H) + H[j].parent
        /\ j # 1 => copy[j].parent \in Len(H) + 1 .. Len(H) + j - 1
    BY <1>3, <1>6, <2>1
  <2>3. CASE j = 1
    BY <1>1, <1>9, <2>1, <2>2, <2>3
  <2>4. CASE j # 1
    <3>1. j \in 2 .. Len(H) /\ i # OldRoot
      BY <1>9, <2>1, <2>4
    <3>2. H[j].parent # 0 /\ Fits(H[j], j) /\ H[j].parent \in Nat
      BY <1>1, <3>1
    <3>3. new[i].ns = "container" /\ new[i].root = <<>> /\ new[i].at # <<>>
      BY <2>2, <3>2 DEF Fits
    <3>4. new[i].parent \in OldRoot .. i - 1 /\ new[i].parent = Len(H) + H[j].parent
      BY <1>9, <2>1, <2>2, <2>4, <3>2
    <3>5. new[i].parent = OldRoot => H[j].parent = 1
      BY <1>9, <2>1, <3>2, <3>4
    <3>6. new[i].parent = OldRoot /\ new[i].at = Rootfs => i = Image
      BY <1>9, <2>1, <2>2, <3>2, <3>5 DEF Fits, Image
    <3> QED
      BY <3>1, <3>3, <3>4, <3>6
  <2> QED
    BY <2>3, <2>4
<1>13. Free(new)
  <2> SUFFICES ASSUME NEW i \in 1 .. Len(new)
               PROVE  ~new[i].unbindable
    BY DEF Free
  <2>1. CASE i \in 1 .. Len(H)
    BY <1>1, <1>6, <2>1
  <2>2. CASE i \in Len(H) + 1 .. Len(new)
    BY <1>7, <2>2
  <2> QED
    BY <1>1, <1>6, <2>1, <2>2
<1> QED
  BY <1>1, <1>6, <1>7, <1>9, <1>10, <1>11, <1>12, <1>13 DEF new, H

(* The invariant holds at the start.                                       *)
LEMMA HostInvInit ==
    ASSUME RootFSInit
    PROVE  HostInv
<1>1. conf \in Configs /\ next = 1 /\ pc = "mountRootfs"
  BY DEF RootFSInit
<1>2. hasMountNamespace => TableInv
  <2> SUFFICES ASSUME hasMountNamespace
               PROVE  TableInv
    OBVIOUS
  <2>1. mnt = CloneNamespace(Host(conf)) /\ root = OldRoot
    BY DEF RootFSInit, OldRoot
  <2>2. HostPart(mnt) /\ root \in Own(mnt) /\ Apart(mnt) /\ Free(mnt)
    BY <2>1, CloneNamespaceFacts
  <2> QED
    BY <1>1, <2>1, <2>2 DEF TableInv
<1> QED
  BY <1>1, <1>2 DEF HostInv

(* A recursive propagation from the root reaches every mount there is.     *)
LEMMA PropagationReachesAll ==
    ASSUME NEW flag, flag.rec = TRUE, flag.kind # "shared"
    PROVE  LET ms == CloneNamespace(Host(conf))
           IN  Quiet(SetPropagation(ms, OldRoot, flag))
<1> DEFINE ms == CloneNamespace(Host(conf))
           T == Tree(ms, OldRoot)
           new == SetPropagation(ms, OldRoot, flag)
<1>1. /\ HostPart(ms) /\ OldRoot \in Own(ms) /\ Apart(ms)
      /\ \A i \in Own(ms) : /\ ms[i].ns = "container"
                            /\ i # OldRoot => ms[i].parent \in HostSize + 1 .. i - 1
  BY CloneNamespaceFacts
<1> HIDE DEF ms
<1>2. /\ HostSize \in Nat /\ Len(ms) \in Nat /\ DOMAIN ms = 1 .. Len(ms)
      /\ Own(ms) \in SUBSET (1 .. Len(ms))
  BY <1>1, OwnClosed
<1>3. Closed(ms, T) /\ OldRoot \in T
  BY <1>1, <1>2, TreeClosed, TreeParents DEF HostPart
<1> HIDE DEF T
<1> DEFINE S == {n \in Nat : \A i \in Own(ms) : i <= n => i \in T}
<1>4. 0 \in S
  BY <1>2 DEF Own
<1>5. ASSUME NEW n \in Nat, n \in S
      PROVE  n + 1 \in S
  <2> SUFFICES ASSUME NEW i \in Own(ms), i <= n + 1, i # OldRoot
               PROVE  i \in T
    BY <1>3
  <2>1. i \in Nat /\ ms[i].parent \in Own(ms) /\ ms[i].parent <= n
    BY <1>1, <1>2 DEF Own
  <2>2. ms[i].parent \in T
    BY <1>5, <2>1
  <2>3. i \in Mounted(ms)
    BY <1>1, <1>2 DEF Mounted
  <2> QED
    BY <1>3, <2>2, <2>3 DEF Closed
<1> HIDE DEF S
<1>6. Len(ms) \in S
  BY <1>2, <1>4, <1>5, NatSet
<1>7. Own(ms) \subseteq T
  BY <1>2, <1>6 DEF S, Own
<1>8. new = SetKind(ms, T, flag.kind)
  BY DEF SetPropagation, T
<1>9. ASSUME NEW i \in 1 .. Len(ms), i \in T
      PROVE  new[i].group = 0
  BY <1>1, <1>8, <1>9, SetKindFields DEF HostPart
<1>10. Len(new) = Len(ms) /\ Apart(new)
  BY <1>1, OwnPropagation
<1> HIDE DEF new
<1>11. Quiet(new)
  BY <1>2, <1>7, <1>9, <1>10 DEF Quiet, Own
<1> QED
  BY <1>11 DEF new, ms

-----------------------------------------------------------------------------
(* The steps.                                                              *)

(* What a step makes of the table: the host's mounts stay.                 *)
Harmless(new) ==
    /\ HostPart(new) /\ Len(new) >= Len(mnt)
    /\ Confined /\ Quiet(mnt) => Quiet(new)
    /\ ~AsksUnbindable /\ Free(mnt) => Free(new)

(* The paths the code names are sequences.                                 *)
LEMMA NamedPaths ==
    /\ IsSeq(Rootfs) /\ IsSeq(Null) /\ IsSeq(Slave) /\ IsSeq(Console) /\ IsSeq(<<"proc">>)
    /\ IsSeq(<<"cgroup">>) /\ IsSeq(<<>>)
    /\ IsSeq(DevPts.dest) /\ IsSeq(DevPts.source) /\ IsSeq(DevPts.options)
<1>1. ASSUME NEW a, NEW b, NEW c
      PROVE  IsSeq(<<a>>) /\ IsSeq(<<a, b>>) /\ IsSeq(<<a, b, c>>)
  <2>1. <<a>> \in Seq({a, b, c}) /\ <<a, b>> \in Seq({a, b, c}) /\ <<a, b, c>> \in Seq({a, b, c})
    OBVIOUS
  <2> QED
    BY <2>1, EverySeq
<1>2. IsSeq(<<>>)
  <2>1. <<>> \in Seq({})
    OBVIOUS
  <2> QED
    BY <2>1, EverySeq
<1>3. /\ DevPts.dest = <<"dev", "pts">> /\ DevPts.source = <<>> /\ DevPts.options = <<"nosuid">>
  BY DEF DevPts
<1> QED
  BY <1>1, <1>2, <1>3 DEF Rootfs, Null, Slave, Console

(* A path leads to a mount of the container, before and after the pivot.   *)
LEMMA Lookups ==
    ASSUME TableInv, NEW ms, HostPart(ms), Len(ms) >= Len(mnt)
    PROVE  /\ root \in Own(ms)
           /\ \A path : IsSeq(path) => /\ Walk(ms, root, path).mount \in Own(ms)
                                       /\ InRootfs(ms, path).mount \in Own(ms)
<1>1. root \in Own(ms)
  <2>1. HostSize \in 3 .. 5 /\ Len(mnt) \in Nat /\ Len(ms) \in Nat
    BY OwnClosed DEF TableInv
  <2> QED
    BY <2>1 DEF TableInv, Own
<1>2. \A path : IsSeq(path) => Walk(ms, root, path).mount \in Own(ms)
  BY <1>1, OwnWalk
<1>3. \A path : IsSeq(path) => IsSeq(Rootfs \o path)
  BY NamedPaths, SeqConcat
<1> QED
  BY <1>1, <1>2, <1>3 DEF InRootfs

(* A mount of a new file system.                                           *)
LEMMA AttachNewMount ==
    ASSUME NEW ms, HostPart(ms), NEW p, p.mount \in Own(ms), NEW fs, NEW ro
    PROVE  LET new == Attach(ms, p, <<NewMount(fs, ro)>>)
           IN  /\ HostPart(new) /\ Len(new) >= Len(ms) /\ (Quiet(ms) => Quiet(new))
               /\ Free(ms) => Free(new)
<1> DEFINE m == NewMount(fs, ro)
           tree == <<m>>
<1>1. DOMAIN m = Fields /\ m.group = 0 /\ ~m.unbindable
  BY DEF NewMount, Fields
<1> HIDE DEF m
<1>2. tree \in Seq({m}) /\ Len(tree) = 1 /\ tree[1] = m
  OBVIOUS
<1>3. IsSeq(tree)
  BY <1>2, EverySeq
<1> HIDE DEF tree
<1>4. \A i \in 1 .. Len(tree) : tree[i] = m
  BY <1>2
<1>5. Records(tree) /\ Free(tree) /\ \A i \in 1 .. Len(tree) : tree[i].group = 0
  BY <1>1, <1>4 DEF Records, Free
<1>6. LET new == Attach(ms, p, tree)
      IN  /\ HostPart(new) /\ Len(new) >= Len(ms) /\ (Quiet(ms) => Quiet(new))
          /\ Free(ms) => Free(new)
  BY <1>3, <1>5, OwnAttach
<1> QED
  BY <1>6 DEF tree, m

(* The propagation the options of a mount ask for is never shared, and     *)
(* unbindable only if they say so.                                         *)
LEMMA MountPropagationKind ==
    ASSUME NEW options, IsSeq(options), MountPropagation(options) # None
    PROVE  /\ MountPropagation(options).kind # "shared"
           /\ Unbindable \cap Range(options) = {} =>
                 MountPropagation(options).kind # "unbindable"
<1> DEFINE given == {i \in DOMAIN options : getPropagationFlag(options[i]) # None}
           opt == options[Max(given)]
<1>1. Len(options) \in Nat /\ DOMAIN options = 1 .. Len(options)
  BY SeqFacts
<1>2. /\ given # {} /\ ~hasSharedPropagation(options)
      /\ MountPropagation(options) = getPropagationFlag(opt)
  BY DEF MountPropagation
<1>3. Max(given) \in given
  <2>1. given \in SUBSET (1 .. Len(options))
    BY <1>1
  <2> HIDE DEF given
  <2> QED
    BY <1>1, <1>2, <2>1, MaxIn
<1>4. opt \in Range(options) /\ getPropagationFlag(opt) # None
  BY <1>3 DEF Range
<1> HIDE DEF opt
<1>5. opt # "shared" /\ opt # "rshared"
  BY <1>2, <1>4 DEF hasSharedPropagation
<1>6. getPropagationFlag(opt).kind # "shared"
  BY <1>4, <1>5 DEF getPropagationFlag, Kinds
<1>7. opt \notin Unbindable => getPropagationFlag(opt).kind # "unbindable"
  BY <1>4 DEF getPropagationFlag, Kinds, Unbindable
<1> QED
  BY <1>2, <1>4, <1>6, <1>7

(* The paths and options of the next mount are sequences.                  *)
LEMMA SpecMountPaths ==
    ASSUME HostInv, MountSpecMount
    PROVE  LET m == SpecMounts[next]
           IN  /\ IsSeq(m.dest) /\ IsSeq(m.source) /\ IsSeq(m.options)
               /\ ~AsksUnbindable => Unbindable \cap Range(m.options) = {}
<1> DEFINE R == [dest : Seq(STRING), type : STRING, source : Seq(STRING), options : Seq(STRING)]
           m == SpecMounts[next]
<1>1. conf.mounts \in Seq(R)
  BY RootFSAssumption DEF HostInv
<1>2. next \in Nat \ {0} /\ next <= Len(SpecMounts)
  BY DEF HostInv, MountSpecMount, Refused, Goto
<1>3. \/ next \in 1 .. Len(conf.mounts) /\ m = conf.mounts[next]
      \/ m = DevPts
  <2> HIDE DEF R
  <2> QED
    BY <1>1, <1>2 DEF SpecMounts
<1>4. next \in 1 .. Len(conf.mounts) => conf.mounts[next] \in R
  BY <1>1, ElementOfSeq
<1>7. ~AsksUnbindable => Unbindable \cap Range(m.options) = {}
  <2>1. next \in 1 .. Len(conf.mounts) => next \in DOMAIN conf.mounts
    BY <1>1
  <2>2. Unbindable \cap Range(DevPts.options) = {}
    BY DEF DevPts, Range, Unbindable
  <2> HIDE DEF m
  <2> QED
    BY <1>3, <2>1, <2>2 DEF AsksUnbindable
<1> HIDE DEF m
<1>5. CASE m \in R
  <2>1. m.dest \in Seq(STRING) /\ m.source \in Seq(STRING) /\ m.options \in Seq(STRING)
    BY <1>5
  <2> QED
    BY <1>7, <2>1, EverySeq DEF m
<1>6. CASE m = DevPts
  BY <1>6, <1>7, NamedPaths DEF m
<1> QED
  BY <1>3, <1>4, <1>5, <1>6

(* MountSpecMounts.                                                        *)
LEMMA SpecMountHarmless ==
    ASSUME HostInv, hasMountNamespace, MountSpecMount
    PROVE  Harmless(mnt')
<1> DEFINE m == SpecMounts[next]
           dest == InRootfs(mnt, m.dest)
           done == DoMount(mnt, m, dest)
<1>1. TableInv /\ HostPart(mnt) /\ Len(mnt) >= Len(mnt)
  BY OwnClosed DEF HostInv, TableInv
<1>2. /\ IsSeq(m.dest) /\ IsSeq(m.source) /\ IsSeq(m.options)
      /\ ~AsksUnbindable => Unbindable \cap Range(m.options) = {}
  BY SpecMountPaths
<1> HIDE DEF m
<1>3. /\ dest.mount \in Own(mnt) /\ At(m.source).mount \in Own(mnt)
      /\ At(<<"cgroup">>).mount \in Own(mnt)
  <2>1. IsSeq(<<"cgroup">>)
    BY NamedPaths
  <2> QED
    BY <1>1, <1>2, <2>1, Lookups DEF At
<1> HIDE DEF dest
<1>4. Harmless(done)
  <2>1. CASE "BIND" \in Flags(m.options)
    BY <1>1, <1>3, <2>1, OwnBind DEF Harmless, DoMount
  <2>2. CASE ~("BIND" \in Flags(m.options))
    BY <1>1, <1>3, <2>2, AttachNewMount DEF Harmless, DoMount
  <2> QED
    BY <2>1, <2>2
<1> HIDE DEF done
<1>5. Harmless(ApplyOptions(done, m))
  <2> DEFINE d == InRootfs(done, m.dest).mount
             flag == MountPropagation(m.options)
             set == IF flag = None THEN done ELSE SetPropagation(done, d, flag)
             final == IF "rro" \in Range(m.options) THEN SetReadonly(set, Tree(set, d)) ELSE set
  <2>1. d \in Own(done)
    BY <1>1, <1>2, <1>4, Lookups DEF Harmless
  <2>2. flag # None => flag.kind # "shared" /\ (~AsksUnbindable => flag.kind # "unbindable")
    BY <1>2, MountPropagationKind
  <2> HIDE DEF d, flag
  <2>3. /\ HostPart(set) /\ Len(set) = Len(done) /\ (Quiet(done) => Quiet(set))
        /\ ~AsksUnbindable /\ Free(done) => Free(set)
    BY <1>4, <2>1, <2>2, OwnPropagation DEF Harmless
  <2> HIDE DEF set
  <2>4. d \in Own(set) /\ Tree(set, d) \in SUBSET Own(set)
    <3>1. d \in Own(set)
      BY <2>1, <2>3 DEF Own
    <3> QED
      BY <2>3, <3>1, OwnClosed, TreeWithin
  <2>5. /\ HostPart(final) /\ Len(final) = Len(set) /\ (Quiet(set) => Quiet(final))
        /\ Free(set) => Free(final)
    BY <2>3, <2>4, OwnReadonly
  <2> HIDE DEF final
  <2>6. Harmless(final)
    BY <1>4, <2>3, <2>5 DEF Harmless
  <2> QED
    BY <2>6 DEF ApplyOptions, final, set, flag, d
<1>6. Harmless(Bind(mnt, At(<<"cgroup">>), dest, TRUE))
  BY <1>1, <1>3, OwnBind DEF Harmless
<1>7. Harmless(mnt)
  BY <1>1 DEF Harmless
<1> QED
  BY <1>5, <1>6, <1>7 DEF MountSpecMount, Refused, m, dest, done

(* MountMaskedPaths and MountReadonlyPaths.                                *)
LEMMA PathsHarmless ==
    ASSUME HostInv, hasMountNamespace, MountMaskedPaths \/ MountReadonlyPaths
    PROVE  Harmless(mnt')
<1>1. TableInv /\ HostPart(mnt) /\ Len(mnt) >= Len(mnt)
  BY OwnClosed DEF HostInv, TableInv
<1>2. Harmless(mnt)
  BY <1>1 DEF Harmless
<1>3. ASSUME NEW path, IsSeq(path)
      PROVE  Harmless(Mask(mnt, path))
  <2>1. IsSeq(Null)
    BY NamedPaths
  <2>2. Walk(mnt, root, path).mount \in Own(mnt) /\ Walk(mnt, root, Null).mount \in Own(mnt)
    BY <1>1, <1>3, <2>1, Lookups
  <2>3. Harmless(Attach(mnt, Walk(mnt, root, path), <<NewMount("mask", TRUE)>>))
    BY <1>1, <2>2, AttachNewMount DEF Harmless
  <2>4. Harmless(Bind(mnt, Walk(mnt, root, Null), Walk(mnt, root, path), TRUE))
    BY <1>1, <2>2, OwnBind DEF Harmless
  <2> QED
    BY <1>2, <2>3, <2>4 DEF Mask
<1>4. ASSUME NEW path, IsSeq(path)
      PROVE  Harmless(ReadonlyPath(mnt, path))
  <2> DEFINE bound == Bind(mnt, Walk(mnt, root, path), Walk(mnt, root, path), TRUE)
             final == SetReadonly(bound, {Walk(bound, root, path).mount})
  <2>1. Walk(mnt, root, path).mount \in Own(mnt)
    BY <1>1, <1>4, Lookups
  <2>2. Harmless(bound)
    BY <1>1, <2>1, OwnBind DEF Harmless
  <2> HIDE DEF bound
  <2>3. Walk(bound, root, path).mount \in Own(bound)
    BY <1>1, <1>4, <2>2, Lookups DEF Harmless
  <2>4. /\ HostPart(final) /\ Len(final) = Len(bound) /\ (Quiet(bound) => Quiet(final))
        /\ Free(bound) => Free(final)
    BY <2>2, <2>3, OwnReadonly DEF Harmless
  <2> HIDE DEF final
  <2>5. Harmless(final)
    BY <2>2, <2>4 DEF Harmless
  <2> QED
    BY <2>5 DEF ReadonlyPath, final, bound
<1>5. next <= Len(conf.masked) => IsSeq(conf.masked[next])
  <2>1. conf.masked \in Seq(Seq(STRING)) /\ next \in Nat \ {0}
    BY RootFSAssumption DEF HostInv
  <2> QED
    BY <2>1, ElementOfSeq, LenProperties, EverySeq
<1>6. next <= Len(conf.readonlyPaths) => IsSeq(conf.readonlyPaths[next])
  <2>1. conf.readonlyPaths \in Seq(Seq(STRING)) /\ next \in Nat \ {0}
    BY RootFSAssumption DEF HostInv
  <2> QED
    BY <2>1, ElementOfSeq, LenProperties, EverySeq
<1>7. CASE MountMaskedPaths
  BY <1>2, <1>3, <1>5, <1>7 DEF MountMaskedPaths, EndPaths, MountPath
<1>8. CASE MountReadonlyPaths
  BY <1>2, <1>4, <1>6, <1>8 DEF MountReadonlyPaths, EndPaths, MountPath, Refused
<1> QED
  BY <1>7, <1>8

(* The mounts made at a step of their own, and the root's propagation.     *)
LEMMA OneMountHarmless ==
    ASSUME HostInv, hasMountNamespace,
           \/ MountProc \/ MountDefaultDevices \/ MountConsole
           \/ SetRootfsMountPropagation \/ MountRootReadonly
    PROVE  Harmless(mnt')
<1>1. TableInv /\ HostPart(mnt) /\ Len(mnt) >= Len(mnt)
  BY OwnClosed DEF HostInv, TableInv
<1>2. Harmless(mnt)
  BY <1>1 DEF Harmless
<1>3. IsSeq(<<"proc">>) /\ IsSeq(Null) /\ IsSeq(Slave) /\ IsSeq(Console)
  BY NamedPaths
<1>4. /\ root \in Own(mnt) /\ InRootfs(mnt, <<"proc">>).mount \in Own(mnt)
      /\ At(Null).mount \in Own(mnt) /\ InRootfs(mnt, Null).mount \in Own(mnt)
      /\ InRootfs(mnt, Slave).mount \in Own(mnt) /\ InRootfs(mnt, Console).mount \in Own(mnt)
  BY <1>1, <1>3, Lookups DEF At
<1>5. CASE MountProc
  <2>1. Harmless(Attach(mnt, InRootfs(mnt, <<"proc">>), <<NewMount("proc", FALSE)>>))
    BY <1>1, <1>4, AttachNewMount DEF Harmless
  <2> QED
    BY <1>2, <1>5, <2>1 DEF MountProc, Mounts, Refused
<1>6. CASE MountDefaultDevices
  <2>1. Harmless(Bind(mnt, At(Null), InRootfs(mnt, Null), FALSE))
    BY <1>1, <1>4, OwnBind DEF Harmless
  <2> QED
    BY <1>2, <1>6, <2>1 DEF MountDefaultDevices, Mounts, Refused
<1>7. CASE MountConsole
  <2>1. Harmless(Bind(mnt, InRootfs(mnt, Slave), InRootfs(mnt, Console), FALSE))
    BY <1>1, <1>4, OwnBind DEF Harmless
  <2> QED
    BY <1>2, <1>7, <2>1 DEF MountConsole, Mounts, Refused
<1>8. CASE SetRootfsMountPropagation
  <2> DEFINE flag == getPropagationFlag(conf.propagation)
             once == [flag EXCEPT !.rec = FALSE]
             new == SetPropagation(mnt, root, once)
  <2>1. /\ Confined => flag = None \/ once.kind # "shared"
        /\ ~AsksUnbindable => flag = None \/ once.kind # "unbindable"
    BY DEF Confined, AsksUnbindable, Unbindable, getPropagationFlag, Kinds
  <2> HIDE DEF once
  <2>2. /\ HostPart(new) /\ Len(new) = Len(mnt)
        /\ Quiet(mnt) /\ once.kind # "shared" => Quiet(new)
        /\ Free(mnt) /\ once.kind # "unbindable" => Free(new)
    BY <1>1, <1>4, OwnPropagation
  <2> HIDE DEF new, flag
  <2>3. flag # None => Harmless(new)
    BY <1>1, <2>1, <2>2 DEF Harmless
  <2>4. mnt' = mnt \/ (flag # None /\ mnt' = new)
    BY <1>8 DEF SetRootfsMountPropagation, Mounts, Refused, new, once, flag
  <2> QED
    BY <1>2, <2>3, <2>4
<1>9. CASE MountRootReadonly
  <2>1. Harmless(SetReadonly(mnt, {root}))
    BY <1>1, <1>4, OwnReadonly DEF Harmless
  <2> QED
    BY <1>2, <1>9, <2>1 DEF MountRootReadonly, Mounts, Refused
<1> QED
  BY <1>5, <1>6, <1>7, <1>8, <1>9

(* The first propagation of the root, unless it is asked for another kind. *)
LEMMA FirstPropagation ==
    LET flag == getPropagationFlag(conf.propagation)
        first == IF flag = None THEN DefaultPropagation ELSE flag
    IN  /\ Confined => first.rec = TRUE /\ first.kind # "shared"
        /\ ~AsksUnbindable => first.kind # "unbindable"
<1> QED
  BY DEF Confined, AsksUnbindable, Unbindable, DefaultPropagation, getPropagationFlag, Kinds

(* MountRootfs leaves nothing shared or unbindable if it is not asked to.  *)
LEMMA MountRootfsKeeps ==
    ASSUME HostInv, hasMountNamespace, MountRootfs, pc' = "mountProc"
    PROVE  /\ HostPart(mnt') /\ Len(mnt') >= Len(mnt) /\ (Confined => Quiet(mnt'))
           /\ ~AsksUnbindable => Free(mnt')
<1> DEFINE flag == getPropagationFlag(conf.propagation)
           first == IF flag = None THEN DefaultPropagation ELSE flag
           s1 == SetPropagation(mnt, root, first)
           up == InRootfs(s1, <<>>).mount
           s2 == SetPropagation(s1, up, [kind |-> "private", rec |-> FALSE])
           p == InRootfs(s2, <<>>)
           s3 == Bind(s2, p, p, TRUE)
<1>1. mnt' = s3
  BY DEF MountRootfs, Mounts, Refused, Goto, rootfsParentMountPrivate
<1>2. /\ TableInv /\ HostPart(mnt) /\ root \in Own(mnt) /\ root = OldRoot
      /\ mnt = CloneNamespace(Host(conf)) /\ IsSeq(<<>>)
  BY NamedPaths DEF HostInv, TableInv, MountRootfs, Mounts, Refused, Goto, PrePivot
<1>3. /\ Confined => first.rec = TRUE /\ first.kind # "shared"
      /\ ~AsksUnbindable => first.kind # "unbindable" /\ Free(mnt)
  BY <1>2, FirstPropagation DEF TableInv
<1> HIDE DEF first
<1>4. HostPart(s1) /\ Len(s1) = Len(mnt) /\ (~AsksUnbindable => Free(s1))
  BY <1>2, <1>3, OwnPropagation
<1>5. Confined => Quiet(s1)
  BY <1>2, <1>3, PropagationReachesAll
<1> HIDE DEF s1
<1>6. Len(mnt) \in Nat /\ up \in Own(s1)
  BY <1>2, <1>4, OwnClosed, Lookups
<1> HIDE DEF up
<1>7. /\ HostPart(s2) /\ Len(s2) = Len(mnt) /\ (Quiet(s1) => Quiet(s2))
      /\ Free(s1) => Free(s2)
  BY <1>4, <1>6, OwnPropagation
<1> HIDE DEF s2
<1>8. p.mount \in Own(s2)
  BY <1>2, <1>6, <1>7, Lookups
<1> HIDE DEF p
<1>9. /\ HostPart(s3) /\ Len(s3) >= Len(s2) /\ (Quiet(s2) => Quiet(s3))
      /\ Free(s2) => Free(s3)
  BY <1>7, <1>8, OwnBind
<1> HIDE DEF s3
<1> QED
  BY <1>1, <1>4, <1>5, <1>7, <1>9

(* The old root ends up on the new one, which is not shared.               *)
LEMMA PivotKeeps ==
    ASSUME HostInv, hasMountNamespace, PivotRoot, pc' = "detach"
    PROVE  /\ Harmless(mnt')
           /\ root' \in Own(mnt') /\ mnt'[OldRoot].parent \in Own(mnt')
           /\ mnt'[mnt'[OldRoot].parent].group = 0
<1> DEFINE new == InRootfs(mnt, <<>>)
<1>1. /\ CanPivot(mnt, root, new)
      /\ mnt' = Pivot(mnt, root, new.mount) /\ root' = new.mount
  BY DEF PivotRoot, Refused, Goto
<1>2. /\ TableInv /\ HostPart(mnt) /\ Len(mnt) >= Len(mnt) /\ IsSeq(<<>>)
      /\ root = OldRoot /\ root \in Own(mnt)
  BY NamedPaths, OwnClosed DEF HostInv, TableInv, PivotRoot, Refused, Goto, PrePivot
<1>3. new.mount \in Own(mnt)
  BY <1>2, Lookups
<1> HIDE DEF new
<1>4. /\ HostPart(mnt') /\ Len(mnt') = Len(mnt) /\ (Quiet(mnt) => Quiet(mnt'))
      /\ Free(mnt) => Free(mnt')
      /\ mnt'[root].parent = new.mount /\ mnt'[new.mount].group = 0
  BY <1>1, <1>2, <1>3, OwnPivot
<1> QED
  BY <1>1, <1>2, <1>3, <1>4 DEF Harmless, Own

(* The old root is detached, and nothing with it but what is on it.        *)
LEMMA DetachHarmless ==
    ASSUME HostInv, hasMountNamespace, DetachOldRoot
    PROVE  Harmless(mnt')
<1> DEFINE T == Tree(mnt, OldRoot)
           s == OldRootSlave
           t == DetachedMount(s)
           new == Detach(s, t)
<1>1. pc = "detach" /\ mnt' \in {mnt, new}
  BY DEF DetachOldRoot, Mounts, Refused, Goto
<1>2. /\ HostPart(mnt) /\ mnt[OldRoot].parent \in Own(mnt)
      /\ mnt[mnt[OldRoot].parent].group = 0
  BY <1>1 DEF HostInv, TableInv
<1>3. /\ OldRoot \in Own(mnt) /\ Len(mnt) \in Nat /\ DOMAIN mnt = 1 .. Len(mnt)
      /\ Own(mnt) \in SUBSET (1 .. Len(mnt)) /\ Closed(mnt, Own(mnt))
  BY <1>2, OwnClosed DEF OldRoot, Own, HostPart
<1>4. s = SetKind(mnt, T, "slave") /\ t = Top(s, RootOf(s, OldRoot)).mount
  BY DEF OldRootSlave, SetPropagation, DetachedMount
<1> HIDE DEF t
<1>5. /\ HostPart(s) /\ Len(s) = Len(mnt) /\ (Quiet(mnt) => Quiet(s))
      /\ Free(mnt) => Free(s)
  BY <1>2, <1>3, OwnPropagation DEF OldRootSlave
<1> HIDE DEF s, T
<1>6. new = Forget(s, Tree(s, t)) /\ Tree(s, t) \subseteq T
  BY <1>2, <1>3, <1>4, DetachKeeps DEF HostPart, T
<1>7. T \subseteq Own(mnt)
  BY <1>3, TreeWithin DEF T
<1>8. Tree(s, t) \in SUBSET Own(s)
  BY <1>5, <1>6, <1>7 DEF Own
<1>9. /\ HostPart(new) /\ Len(new) = Len(s) /\ (Quiet(s) => Quiet(new))
      /\ Free(s) => Free(new)
  BY <1>5, <1>6, <1>8, OwnForget
<1> HIDE DEF new
<1>10. Harmless(new) /\ Harmless(mnt)
  BY <1>2, <1>3, <1>5, <1>9 DEF Harmless
<1> QED
  BY <1>1, <1>10

(* When the process dies, the mounts of its namespace go.                  *)
LEMMA FailsKeeps ==
    ASSUME HostInv, hasMountNamespace, Fails
    PROVE  /\ HostPart(mnt') /\ Len(mnt') = Len(mnt) /\ (Confined => Apart(mnt'))
           /\ ~AsksUnbindable => Free(mnt')
<1> DEFINE U == {i \in DOMAIN mnt : mnt[i].ns = "container"}
<1>1. /\ HostPart(mnt) /\ (Confined => Apart(mnt)) /\ (~AsksUnbindable => Free(mnt))
      /\ mnt' = Forget(mnt, U)
  BY DEF HostInv, TableInv, Fails
<1>2. U \in SUBSET Own(mnt)
  <2> SUFFICES ASSUME NEW i \in U, i \notin Own(mnt)
               PROVE  FALSE
    OBVIOUS
  <2>1. i \in 1 .. HostSize
    BY <1>1, OwnClosed DEF Own
  <2>2. mnt[i] = Host(conf)[i] /\ Host(conf)[i].ns = "host"
    BY <1>1, <2>1, HostFacts DEF HostPart, HostSize
  <2> QED
    BY <2>2
<1> QED
  BY <1>1, <1>2, OwnForget

-----------------------------------------------------------------------------
(* What a step leads to.                                                   *)

(* The primed invariant, from what a step makes of the table.              *)
LEMMA TableNext ==
    ASSUME conf' = conf, HostPart(mnt'), root' \in Own(mnt'),
           pc' \in PrePivot => root' = OldRoot, pc' # "mountRootfs",
           pc' = "detach" => /\ mnt'[OldRoot].parent \in Own(mnt')
                             /\ mnt'[mnt'[OldRoot].parent].group = 0,
           Confined => Apart(mnt'),
           Confined /\ pc' \notin Ended => Quiet(mnt'),
           ~AsksUnbindable => Free(mnt')
    PROVE  TableInv'
<1>1. /\ HostSize' = HostSize /\ OldRoot' = OldRoot /\ (Confined' <=> Confined)
      /\ (AsksUnbindable' <=> AsksUnbindable) /\ (Free(mnt)' <=> Free(mnt'))
  BY DEF HostSize, OldRoot, Confined, AsksUnbindable, Free, Host
<1>2. HostPart(mnt)' /\ root' \in Own(mnt)'
  BY <1>1 DEF HostPart, Own
<1>3. (Confined => Apart(mnt)') /\ (Confined /\ pc' \notin Ended => Quiet(mnt)')
  BY <1>1 DEF Apart, Quiet, Own
<1>4. pc' = "detach" => /\ mnt'[OldRoot].parent \in Own(mnt)'
                        /\ mnt'[mnt'[OldRoot].parent].group = 0
  BY <1>1 DEF Own
<1> QED
  BY <1>1, <1>2, <1>3, <1>4 DEF TableInv

(* A harmless step that goes on, or is refused.                            *)
LEMMA HarmlessStep ==
    ASSUME HostInv, hasMountNamespace, Harmless(mnt'), conf' = conf, root' = root,
           pc \notin Ended \cup {"mountRootfs"}, pc' \notin {"mountRootfs", "detach"},
           pc' \in PrePivot => pc \in PrePivot
    PROVE  TableInv'
<1>1. /\ HostPart(mnt) /\ root \in Own(mnt) /\ (pc \in PrePivot => root = OldRoot)
      /\ Confined => Quiet(mnt)
      /\ ~AsksUnbindable => Free(mnt)
  BY DEF HostInv, TableInv
<1>2. /\ HostPart(mnt') /\ Len(mnt') >= Len(mnt) /\ (Confined => Quiet(mnt'))
      /\ ~AsksUnbindable => Free(mnt')
  BY <1>1 DEF Harmless
<1>3. root' \in Own(mnt')
  <2>1. HostSize \in 3 .. 5 /\ Len(mnt) \in Nat /\ Len(mnt') \in Nat
    BY <1>1, <1>2, OwnClosed
  <2> QED
    BY <1>1, <1>2, <2>1 DEF Own
<1>4. Confined => Apart(mnt')
  BY <1>2 DEF Quiet
<1> QED
  BY <1>1, <1>2, <1>3, <1>4, TableNext

-----------------------------------------------------------------------------
(* The steps of the set-up keep the invariant.                             *)

(* The step that may follow, as far as the file system is concerned.       *)
Moves ==
    \/ Mounting \/ Fails
    \/ UNCHANGED rootfsVars
    \/ /\ \/ Goto("createContainer", "waitStart") \/ Goto("waitStart", "sysctl")
          \/ Goto("waitStart", "startContainer") \/ Goto("startContainer", "exec")
          \/ Goto("startContainer", "exited") \/ Goto("hostname", "startContainer")
       /\ UNCHANGED <<mnt, root, next, nodes, pty>>

(* Every step is one of these.                                             *)
LEMMA StepMoves ==
    ASSUME [Next]_vars
    PROVE  Moves
<1>1. CASE Next
  <2>1. CASE Reexec
    <3>1. CASE Mounting
      BY <3>1 DEF Moves
    <3>2. CASE CreateContainerHooks
      BY <3>2 DEF CreateContainerHooks, Phase, Moves
    <3>3. CASE StartContainerHooks
      BY <3>3 DEF StartContainerHooks, Phase, Moves
    <3> QED
      BY <2>1, <3>1, <3>2, <3>3 DEF Reexec
  <2>2. CASE ReceiveStart
    BY <2>2 DEF ReceiveStart, Moves
  <2>3. CASE Sethostname
    BY <2>3 DEF Sethostname, Moves
  <2>4. CASE Fails \/ UNCHANGED rootfsVars
    BY <2>4 DEF Moves
  <2> QED
    BY <1>1, <2>1, <2>2, <2>3, <2>4 DEF Next, Hooking, Timeout
<1>2. CASE UNCHANGED vars
  BY <1>2 DEF vars, Moves
<1> QED
  BY <1>1, <1>2

(* The configuration stays, and the index stays within its lists.          *)
LEMMA IndexKeeps ==
    ASSUME HostInv, Moves
    PROVE  /\ conf' = conf /\ next' \in Nat \ {0}
           /\ pc' \in {"mountRootfs", "mountProc"} => next' = 1
           /\ pc' = "specMounts" => next' <= Len(SpecMounts)
<1>1. /\ next \in Nat \ {0} /\ (pc \in {"mountRootfs", "mountProc"} => next = 1)
      /\ pc = "specMounts" => next <= Len(SpecMounts)
  BY DEF HostInv
<1>2. Len(SpecMounts) >= 1 /\ Len(SpecMounts) \in Nat
  <2>1. IsSeq(conf.mounts)
    BY RootFSAssumption, EverySeq DEF HostInv
  <2>2. conf.mounts \in Seq(Range(conf.mounts) \cup {DevPts})
    BY <2>1, SeqMonotonic DEF IsSeq
  <2> DEFINE R == Range(conf.mounts) \cup {DevPts}
  <2>3. conf.mounts \in Seq(R) /\ DevPts \in R
    BY <2>2
  <2> HIDE DEF R
  <2> QED
    BY <2>3 DEF SpecMounts
<1>3. CASE MountSpecMount
  <2>1. CASE pc = "specMounts" /\ next < Len(SpecMounts) /\ next' = next + 1 /\ pc' = pc /\ conf' = conf
    BY <1>1, <1>2, <2>1
  <2>2. CASE next' = 1 /\ pc' = "defaultDevices" /\ conf' = conf
    BY <2>2
  <2>3. CASE Refused("specMounts")
    BY <1>1, <2>3 DEF Refused, Goto
  <2> QED
    BY <1>3, <2>1, <2>2, <2>3 DEF MountSpecMount
<1>4. CASE MountMaskedPaths \/ MountReadonlyPaths
  BY <1>1, <1>4 DEF MountMaskedPaths, MountReadonlyPaths, EndPaths, MountPath, Refused, Goto
<1>5. CASE MountRootfs \/ MountProc
  BY <1>1, <1>2, <1>5 DEF MountRootfs, MountProc, Mounts, Refused, Goto
<1>6. CASE \/ MountDefaultDevices \/ CreateDeviceNodes \/ CreateDefaultSymlinks
           \/ ConnectConsole \/ MountConsole \/ PivotRoot \/ DetachOldRoot
  BY <1>1, <1>6 DEF MountDefaultDevices, CreateDeviceNodes, CreateDefaultSymlinks,
                    ConnectConsole, MountConsole, PivotRoot, DetachOldRoot, Mounts, Refused, Goto
<1>7. CASE SetSysctl \/ SetRootfsMountPropagation \/ MountRootReadonly
  BY <1>1, <1>7 DEF SetSysctl, SetRootfsMountPropagation, MountRootReadonly, Mounts, Refused, Goto
<1>8. CASE Fails
  BY <1>1, <1>8 DEF Fails
<1>9. CASE UNCHANGED rootfsVars
  BY <1>1, <1>9 DEF rootfsVars
<1>10. CASE /\ \/ Goto("createContainer", "waitStart") \/ Goto("waitStart", "sysctl")
               \/ Goto("waitStart", "startContainer") \/ Goto("startContainer", "exec")
               \/ Goto("startContainer", "exited") \/ Goto("hostname", "startContainer")
            /\ UNCHANGED <<mnt, root, next, nodes, pty>>
  BY <1>1, <1>10 DEF Goto
<1> QED
  BY <1>3, <1>4, <1>5, <1>6, <1>7, <1>8, <1>9, <1>10
     DEF Moves, Mounting, SetupPrePivot, SetupPostPivot

(* Refusals and steps that mount nothing leave the table as it is.         *)
LEMMA SameHarmless ==
    ASSUME HostInv, hasMountNamespace, mnt' = mnt
    PROVE  Harmless(mnt')
<1>1. HostPart(mnt) /\ Len(mnt) >= Len(mnt)
  BY OwnClosed DEF HostInv, TableInv
<1> QED
  BY <1>1 DEF Harmless

(* In a mount namespace of its own, every step keeps the host's mounts.    *)
LEMMA TableKeeps ==
    ASSUME HostInv, hasMountNamespace, Moves
    PROVE  TableInv'
<1>1. TableInv
  BY DEF HostInv
<1>2. CASE MountRootfs
  <2>1. pc = "mountRootfs" /\ pc' \in {"mountProc", "refused"} /\ conf' = conf /\ root' = root
    BY <1>2 DEF MountRootfs, Mounts, Refused, Goto
  <2>2. /\ HostPart(mnt) /\ root \in Own(mnt) /\ root = OldRoot /\ (Confined => Apart(mnt))
        /\ ~AsksUnbindable => Free(mnt)
    BY <1>1, <2>1 DEF TableInv, PrePivot
  <2>3. CASE pc' = "mountProc"
    <3>1. /\ HostPart(mnt') /\ Len(mnt') >= Len(mnt) /\ (Confined => Quiet(mnt'))
          /\ ~AsksUnbindable => Free(mnt')
      BY <1>2, <2>3, MountRootfsKeeps
    <3>2. root' \in Own(mnt')
      <4>1. Len(mnt) \in Nat /\ Len(mnt') \in Nat /\ HostSize \in 3 .. 5
        BY <2>2, <3>1, OwnClosed
      <4> QED
        BY <2>1, <2>2, <3>1, <4>1 DEF Own
    <3>3. Confined => Apart(mnt')
      BY <3>1 DEF Quiet
    <3> QED
      BY <2>1, <2>2, <2>3, <3>1, <3>2, <3>3, TableNext
  <2>4. CASE pc' = "refused"
    <3>1. mnt' = mnt
      BY <1>2, <2>4 DEF MountRootfs, Mounts, Refused, Goto
    <3>2. pc' \in Ended /\ pc' \notin PrePivot /\ pc' # "mountRootfs" /\ pc' # "detach"
      BY <2>4 DEF Ended, PrePivot
    <3> QED
      BY <2>1, <2>2, <3>1, <3>2, TableNext
  <2> QED
    BY <2>1, <2>3, <2>4
<1>3. CASE PivotRoot
  <2>1. pc = "pivot" /\ pc' \in {"detach", "refused"} /\ conf' = conf
    BY <1>3 DEF PivotRoot, Refused, Goto
  <2>2. HostPart(mnt) /\ (Confined => Quiet(mnt)) /\ (~AsksUnbindable => Free(mnt))
    BY <1>1, <2>1 DEF TableInv, Ended
  <2>3. CASE pc' = "detach"
    <3>1. /\ Harmless(mnt')
          /\ root' \in Own(mnt') /\ mnt'[OldRoot].parent \in Own(mnt')
          /\ mnt'[mnt'[OldRoot].parent].group = 0
      BY <1>3, <2>3, PivotKeeps
    <3>2. /\ HostPart(mnt') /\ (Confined => Apart(mnt') /\ Quiet(mnt'))
          /\ ~AsksUnbindable => Free(mnt')
      BY <2>2, <3>1 DEF Harmless, Quiet
    <3>3. pc' \notin PrePivot /\ pc' # "mountRootfs"
      BY <2>3 DEF PrePivot
    <3> QED
      BY <2>1, <3>1, <3>2, <3>3, TableNext
  <2>4. CASE pc' = "refused"
    <3>1. mnt' = mnt /\ root' = root
      BY <1>3, <2>4 DEF PivotRoot, Refused, Goto
    <3>2. Harmless(mnt')
      BY <3>1, SameHarmless
    <3>3. pc \notin Ended \cup {"mountRootfs"} /\ pc' \notin {"mountRootfs", "detach"} /\ pc' \notin PrePivot
      BY <2>1, <2>4 DEF Ended, PrePivot
    <3> QED
      BY <2>1, <3>1, <3>2, <3>3, HarmlessStep
  <2> QED
    BY <2>1, <2>3, <2>4
<1>4. CASE Fails
  <2>1. /\ HostPart(mnt') /\ Len(mnt') = Len(mnt) /\ (Confined => Apart(mnt'))
        /\ ~AsksUnbindable => Free(mnt')
    BY <1>4, FailsKeeps
  <2>2. pc' = "failed" /\ conf' = conf /\ root' = root /\ root \in Own(mnt)
    BY <1>1, <1>4 DEF Fails, TableInv
  <2>3. root' \in Own(mnt')
    BY <2>1, <2>2 DEF Own
  <2>4. pc' \in Ended /\ pc' \notin PrePivot /\ pc' # "mountRootfs" /\ pc' # "detach"
    BY <2>2 DEF Ended, PrePivot
  <2> QED
    BY <2>1, <2>2, <2>3, <2>4, TableNext
<1>5. CASE UNCHANGED rootfsVars
  <2>1. conf' = conf /\ mnt' = mnt /\ root' = root /\ pc' = pc
    BY <1>5 DEF rootfsVars
  <2>2. Host(conf)' = Host(conf)
    BY <2>1 DEF Host
  <2>3. /\ HostSize' = HostSize /\ OldRoot' = OldRoot /\ (Confined' <=> Confined)
        /\ (AsksUnbindable' <=> AsksUnbindable) /\ (Free(mnt)' <=> Free(mnt))
    BY <2>1, <2>2 DEF HostSize, OldRoot, Confined, AsksUnbindable, Free
  <2>4. /\ HostPart(mnt)' <=> HostPart(mnt)
        /\ Own(mnt)' = Own(mnt)
    BY <2>1, <2>2, <2>3 DEF HostPart, Own
  <2>5. (Apart(mnt)' <=> Apart(mnt)) /\ (Quiet(mnt)' <=> Quiet(mnt))
    BY <2>1, <2>4 DEF Apart, Quiet
  <2>6. CloneNamespace(Host(conf))' = CloneNamespace(Host(conf))
    BY <2>2 DEF CloneNamespace
  <2> QED
    BY <1>1, <2>1, <2>3, <2>4, <2>5, <2>6 DEF TableInv
<1>6. CASE /\ \/ Goto("createContainer", "waitStart") \/ Goto("waitStart", "sysctl")
              \/ Goto("waitStart", "startContainer") \/ Goto("startContainer", "exec")
              \/ Goto("startContainer", "exited") \/ Goto("hostname", "startContainer")
           /\ UNCHANGED <<mnt, root, next, nodes, pty>>
  <2>1. Harmless(mnt')
    BY <1>6, SameHarmless
  <2>2. /\ conf' = conf /\ root' = root
        /\ pc \notin Ended \cup {"mountRootfs"} /\ pc' \notin {"mountRootfs", "detach"} /\ pc' \notin PrePivot
    BY <1>6 DEF Goto, Ended, PrePivot
  <2> QED
    BY <2>1, <2>2, HarmlessStep
<1>7. CASE MountSpecMount
  <2>1. /\ conf' = conf /\ root' = root /\ pc = "specMounts"
        /\ pc' \in {"specMounts", "defaultDevices", "refused"}
    BY <1>7 DEF MountSpecMount, Refused, Goto
  <2>2. /\ pc \notin Ended \cup {"mountRootfs"} /\ pc' \notin {"mountRootfs", "detach"}
        /\ pc \in PrePivot
    BY <2>1 DEF Ended, PrePivot
  <2> QED
    BY <1>7, <2>1, <2>2, SpecMountHarmless, HarmlessStep
<1>8. CASE MountMaskedPaths \/ MountReadonlyPaths
  <2>1. /\ conf' = conf /\ root' = root /\ pc \in {"maskedPaths", "readonlyPaths"}
        /\ pc' \in {"maskedPaths", "readonlyPaths", "propagation", "refused"}
    BY <1>8 DEF MountMaskedPaths, MountReadonlyPaths, EndPaths, MountPath, Refused, Goto
  <2>2. /\ pc \notin Ended \cup {"mountRootfs"} /\ pc' \notin {"mountRootfs", "detach"}
        /\ pc' \notin PrePivot
    BY <2>1 DEF Ended, PrePivot
  <2> QED
    BY <1>8, <2>1, <2>2, PathsHarmless, HarmlessStep
<1>9. CASE MountProc \/ MountDefaultDevices \/ MountConsole
  <2>1. /\ conf' = conf /\ root' = root /\ pc \in {"mountProc", "defaultDevices", "mountConsole"}
        /\ pc' \in {"specMounts", "deviceNodes", "pivot", "createContainer", "refused"}
    BY <1>9 DEF MountProc, MountDefaultDevices, MountConsole, Mounts, Refused, Goto
  <2>2. /\ pc \notin Ended \cup {"mountRootfs"} /\ pc' \notin {"mountRootfs", "detach"}
        /\ pc \in PrePivot
    BY <2>1 DEF Ended, PrePivot
  <2> QED
    BY <1>9, <2>1, <2>2, OneMountHarmless, HarmlessStep
<1>10. CASE SetRootfsMountPropagation \/ MountRootReadonly
  <2>1. /\ conf' = conf /\ root' = root /\ pc \in {"propagation", "readonly"}
        /\ pc' \in {"readonly", "hostname", "refused"}
    BY <1>10 DEF SetRootfsMountPropagation, MountRootReadonly, Mounts, Refused, Goto
  <2>2. /\ pc \notin Ended \cup {"mountRootfs"} /\ pc' \notin {"mountRootfs", "detach"}
        /\ pc' \notin PrePivot
    BY <2>1 DEF Ended, PrePivot
  <2> QED
    BY <1>10, <2>1, <2>2, OneMountHarmless, HarmlessStep
<1>11. CASE CreateDeviceNodes \/ CreateDefaultSymlinks \/ ConnectConsole \/ SetSysctl
  <2>1. /\ conf' = conf /\ root' = root /\ mnt' = mnt
        /\ \/ /\ pc \in {"deviceNodes", "symlinks", "connectConsole"}
              /\ pc' \in {"symlinks", "connectConsole", "mountConsole", "refused"}
           \/ pc = "sysctl" /\ pc' \in {"maskedPaths", "refused"}
    BY <1>11 DEF CreateDeviceNodes, CreateDefaultSymlinks, ConnectConsole, SetSysctl,
                 Mounts, Refused, Goto
  <2>2. /\ pc \notin Ended \cup {"mountRootfs"} /\ pc' \notin {"mountRootfs", "detach"}
        /\ pc' \in PrePivot => pc \in PrePivot
    BY <2>1 DEF Ended, PrePivot
  <2> QED
    BY <2>1, <2>2, SameHarmless, HarmlessStep
<1>12. CASE DetachOldRoot
  <2>1. /\ conf' = conf /\ root' = root /\ pc = "detach"
        /\ pc' \in {"createContainer", "refused"}
    BY <1>12 DEF DetachOldRoot, Mounts, Refused, Goto
  <2>2. /\ pc \notin Ended \cup {"mountRootfs"} /\ pc' \notin {"mountRootfs", "detach"}
        /\ pc' \notin PrePivot
    BY <2>1 DEF Ended, PrePivot
  <2> QED
    BY <1>12, <2>1, <2>2, DetachHarmless, HarmlessStep
<1> QED
  BY <1>2, <1>3, <1>4, <1>5, <1>6, <1>7, <1>8, <1>9, <1>10, <1>11, <1>12
     DEF Moves, Mounting, SetupPrePivot, SetupPostPivot

(* The invariant holds of every behaviour.                                 *)
LEMMA HostInvariance == Spec => []HostInv
<1>1. Init => HostInv
  BY HostInvInit DEF Init
<1>2. HostInv /\ [Next]_vars => HostInv'
  <2> SUFFICES ASSUME HostInv, [Next]_vars
               PROVE  HostInv'
    OBVIOUS
  <2>1. Moves
    BY StepMoves
  <2>2. /\ conf' = conf /\ next' \in Nat \ {0}
        /\ pc' \in {"mountRootfs", "mountProc"} => next' = 1
        /\ pc' = "specMounts" => next' <= Len(SpecMounts)
    BY <2>1, IndexKeeps
  <2>3. hasMountNamespace' <=> hasMountNamespace
    BY <2>2 DEF hasMountNamespace
  <2>4. SpecMounts' = SpecMounts
    BY <2>2 DEF SpecMounts
  <2>5. hasMountNamespace => TableInv'
    BY <2>1, TableKeeps
  <2>6. conf' \in Configs
    BY <2>2 DEF HostInv
  <2> QED
    BY <2>2, <2>3, <2>4, <2>5, <2>6 DEF HostInv
<1> QED
  BY <1>1, <1>2, PTL DEF Spec

(* Whatever propagation a container asks for and whatever it mounts, in a  *)
(* mount namespace of its own it takes no mount of the host away and       *)
(* changes none: what detaching the old root takes is on the old root, and *)
(* propagates nowhere once it is a slave.                                  *)
THEOREM HostKeptCorrect == Spec => []HostKept
<1>1. HostInv => HostKept
  BY DEF HostInv, TableInv, HostPart, HostKept
<1> QED
  BY <1>1, HostInvariance, PTL

(* If the propagation of its root is recursive and not shared, which is    *)
(* the default, no mount made for the container shows up on the host: no   *)
(* mount of the container is shared once its root is made.                 *)
THEOREM HostUnchangedCorrect == Spec => []HostUnchanged
<1>1. HostInv => HostUnchanged
  <2> SUFFICES ASSUME HostInv, hasMountNamespace, Confined
               PROVE  HostMounts = 1 .. HostSize
    BY DEF HostUnchanged, Confined
  <2>1. HostPart(mnt) /\ Apart(mnt)
    BY DEF HostInv, TableInv
  <2>2. HostSize \in 3 .. 5 /\ Len(mnt) \in Nat /\ DOMAIN mnt = 1 .. Len(mnt)
    BY <2>1, OwnClosed
  <2>3. ASSUME NEW i \in 1 .. Len(mnt)
        PROVE  mnt[i].ns = "host" <=> i \in 1 .. HostSize
    <3>1. CASE i \in 1 .. HostSize
      BY <2>1, <3>1, HostFacts DEF HostPart, HostSize
    <3>2. CASE i \in Own(mnt)
      BY <2>1, <2>2, <3>2 DEF Apart, Own
    <3> QED
      BY <2>2, <3>1, <3>2 DEF Own
  <2>4. 1 .. HostSize \subseteq 1 .. Len(mnt)
    BY <2>1, <2>2 DEF HostPart
  <2> QED
    BY <2>2, <2>3, <2>4 DEF HostMounts
<1> QED
  BY <1>1, HostInvariance, PTL

-----------------------------------------------------------------------------
(* What is over what.                                                      *)

(* Where the mounts are in the table.                                      *)
LEMMA Parts ==
    ASSUME NEW ms, HostPart(ms), Len(ms) >= 2 * HostSize
    PROVE  /\ HostSize \in 3 .. 5 /\ Len(ms) \in Nat /\ DOMAIN ms = 1 .. Len(ms)
           /\ OldRoot = HostSize + 1 /\ OldRoot \in Old /\ Old \in SUBSET (1 .. Len(ms))
           /\ Fresh(ms) \in SUBSET (1 .. Len(ms))
           /\ \A i \in 1 .. Len(ms) : i \in 1 .. HostSize \/ i \in Old \/ i \in Fresh(ms)
           /\ \A i \in 1 .. HostSize : ms[i].parent \in 0 .. HostSize - 1
<1>1. HostSize \in 3 .. 5 /\ Len(ms) \in Nat /\ DOMAIN ms = 1 .. Len(ms)
  BY OwnClosed
<1>2. \A i \in 1 .. HostSize : ms[i].parent \in 0 .. HostSize - 1
  <2> TAKE i \in 1 .. HostSize
  <2>1. ms[i].parent \in 0 .. i - 1
    BY HostFacts DEF HostPart, HostSize
  <2> QED
    BY <1>1, <2>1
<1> QED
  BY <1>1, <1>2 DEF OldRoot, Old, Fresh

(* No copy is on a mount the process has made.                             *)
LEMMA FreshClosed ==
    ASSUME NEW ms, HostPart(ms), Len(ms) >= 2 * HostSize, Skeleton(ms)
    PROVE  Closed(ms, Fresh(ms))
<1>1. /\ HostSize \in 3 .. 5 /\ DOMAIN ms = 1 .. Len(ms)
      /\ OldRoot = HostSize + 1
      /\ \A i \in 1 .. Len(ms) : i \in 1 .. HostSize \/ i \in Old \/ i \in Fresh(ms)
      /\ \A i \in 1 .. HostSize : ms[i].parent \in 0 .. HostSize - 1
  BY Parts
<1>2. ASSUME NEW i \in Mounted(ms), ms[i].parent \in Fresh(ms)
      PROVE  i \in Fresh(ms)
  <2>1. i \in 1 .. Len(ms)
    BY <1>1 DEF Mounted
  <2>2. i \notin 1 .. HostSize
    BY <1>1, <1>2 DEF Fresh
  <2>3. ASSUME i \in Old
        PROVE  FALSE
    <3>1. ms[i].parent = 0 \/ ms[i].parent \in OldRoot .. i - 1
      BY <2>3 DEF Skeleton
    <3> QED
      BY <1>1, <1>2, <2>3, <3>1 DEF Fresh, Old
  <2> QED
    BY <1>1, <2>1, <2>2, <2>3
<1> QED
  BY <1>2 DEF Closed

(* At the path of the image there is its mount, if it has one, and maybe   *)
(* what the process has mounted; over that, nothing else.                  *)
LEMMA OverImage ==
    ASSUME NEW ms, HostPart(ms), Len(ms) >= 2 * HostSize, Skeleton(ms)
    PROVE  /\ \A i \in Over(ms, Place(OldRoot, Rootfs)) : i = Image \/ i \in Fresh(ms)
           /\ Over(ms, Place(Image, <<>>)) \subseteq Fresh(ms)
           /\ Image \in Old /\ ms[Image].parent = OldRoot /\ ms[Image].at = Rootfs =>
                 Image \in Over(ms, Place(OldRoot, Rootfs)) /\ RootOf(ms, Image) = Place(Image, <<>>)
<1>1. /\ HostSize \in 3 .. 5 /\ DOMAIN ms = 1 .. Len(ms)
      /\ OldRoot = HostSize + 1 /\ Old \in SUBSET (1 .. Len(ms))
      /\ \A i \in 1 .. Len(ms) : i \in 1 .. HostSize \/ i \in Old \/ i \in Fresh(ms)
      /\ \A i \in 1 .. HostSize : ms[i].parent \in 0 .. HostSize - 1
  BY Parts
<1>2. ASSUME NEW i \in Over(ms, Place(OldRoot, Rootfs)), i \notin Fresh(ms)
      PROVE  i = Image
  <2>1. i \in 1 .. Len(ms) /\ ms[i].parent = OldRoot /\ ms[i].at = Rootfs
    BY <1>1, <1>2 DEF Over, Children, Mounted, Place
  <2>2. i \in Old
    BY <1>1, <1>2, <2>1
  <2>3. i # OldRoot
    BY <1>1, <2>1, <2>2 DEF Skeleton
  <2> QED
    BY <2>1, <2>2, <2>3 DEF Skeleton
<1>3. ASSUME NEW i \in Over(ms, Place(Image, <<>>)), i \notin Fresh(ms)
      PROVE  FALSE
  <2>1. i \in 1 .. Len(ms) /\ ms[i].parent = OldRoot + 3 /\ ms[i].at = <<>>
    BY <1>1, <1>3 DEF Over, Children, Mounted, Place, Image
  <2>2. i \in Old
    BY <1>1, <1>3, <2>1
  <2>3. i # OldRoot
    BY <1>1, <2>1, <2>2 DEF Skeleton
  <2> QED
    BY <2>1, <2>2, <2>3 DEF Skeleton
<1>4. ASSUME Image \in Old, ms[Image].parent = OldRoot, ms[Image].at = Rootfs
      PROVE  Image \in Over(ms, Place(OldRoot, Rootfs)) /\ RootOf(ms, Image) = Place(Image, <<>>)
  <2>1. Image \in DOMAIN ms /\ ms[Image].ns = "container" /\ ms[Image].root = <<>>
    BY <1>1, <1>4 DEF Skeleton
  <2> QED
    BY <1>4, <2>1 DEF Over, Children, Mounted, Place, RootOf
<1> QED
  BY <1>2, <1>3, <1>4

(* A step up goes to a mount the process has made if one of them is over   *)
(* the place, or the place is on one of them.                              *)
LEMMA UpToFresh ==
    ASSUME NEW ms, HostPart(ms), Len(ms) >= 2 * HostSize, Skeleton(ms), NEW p,
           p.mount \in Fresh(ms) \/ (\E k \in Over(ms, p) : k \in Fresh(ms))
    PROVE  Up(ms, p).mount \in Fresh(ms)
<1>1. /\ HostSize \in 3 .. 5 /\ DOMAIN ms = 1 .. Len(ms) /\ Len(ms) \in Nat
      /\ Fresh(ms) \in SUBSET (1 .. Len(ms))
  BY Parts
<1>2. Closed(ms, Fresh(ms))
  BY FreshClosed
<1>3. Over(ms, p) \in SUBSET (1 .. Len(ms))
  BY <1>1 DEF Over, Children, Mounted
<1>4. CASE Over(ms, p) = {}
  BY <1>4 DEF Up
<1>5. CASE Over(ms, p) # {}
  <2>1. Max(Over(ms, p)) \in Over(ms, p) /\ \A k \in Over(ms, p) : Max(Over(ms, p)) >= k
    BY <1>1, <1>3, <1>5, MaxIn
  <2>2. CASE p.mount \in Fresh(ms)
    <3>1. Max(Over(ms, p)) \in Fresh(ms)
      BY <1>2, <2>1, <2>2 DEF Closed, Over, Children
    <3> QED
      BY <1>5, <3>1 DEF Up, RootOf, Place
  <2>3. CASE \E k \in Over(ms, p) : k \in Fresh(ms)
    <3>1. Max(Over(ms, p)) \in Fresh(ms)
      BY <1>1, <1>3, <2>1, <2>3 DEF Fresh
    <3> QED
      BY <1>5, <3>1 DEF Up, RootOf, Place
  <2> QED
    BY <2>2, <2>3
<1> QED
  BY <1>4, <1>5

(* Where the path of the image leads before the process has mounted        *)
(* anything.                                                               *)
LEMMA TopIsBase ==
    ASSUME NEW ms, HostPart(ms), Len(ms) = 2 * HostSize, Skeleton(ms)
    PROVE  Top(ms, Place(OldRoot, Rootfs)) = Base(ms)
<1> DEFINE q == Place(OldRoot, Rootfs)
           b == Place(Image, <<>>)
<1>1. HostSize \in 3 .. 5 /\ Len(ms) \in Nat /\ Len(ms) >= 2 /\ IsSeq(ms) /\ Fresh(ms) = {}
  BY OwnClosed DEF HostPart, Fresh
<1>2. /\ \A i \in Over(ms, q) : i = Image
      /\ Over(ms, b) = {}
      /\ Image \in Old /\ ms[Image].parent = OldRoot /\ ms[Image].at = Rootfs =>
            Image \in Over(ms, q) /\ RootOf(ms, Image) = b
  BY <1>1, OverImage
<1>3. CASE Image \in Old /\ ms[Image].parent = OldRoot /\ ms[Image].at = Rootfs
  <2>1. Over(ms, q) = {Image} /\ Over(ms, q) # {} /\ RootOf(ms, Image) = b
    BY <1>2, <1>3
  <2>2. Max(Over(ms, q)) = Image
    <3>1. Image \in Nat /\ Image \in 1 .. Image
      BY <1>1 DEF Image, OldRoot
    <3> QED
      BY <2>1, <3>1, MaxIn
  <2>3. Up(ms, q) = b /\ Up(ms, b) = b
    BY <1>2, <2>1, <2>2 DEF Up
  <2>4. PICK g : /\ g[0] = q
                 /\ \A n \in 1 .. Len(ms) : g[n] = Up(ms, g[n - 1])
                 /\ Top(ms, q) = g[Len(ms)]
    BY <1>1, <2>1, TopSteps
  <2> HIDE DEF q, b
  <2> DEFINE S == {n \in Nat : n \in 1 .. Len(ms) => g[n] = b}
  <2>5. 0 \in S
    OBVIOUS
  <2>6. ASSUME NEW n \in Nat, n \in S
        PROVE  n + 1 \in S
    <3>1. CASE n = 0
      BY <1>1, <2>3, <2>4, <3>1
    <3>2. CASE n # 0 /\ n + 1 \in 1 .. Len(ms)
      <4>1. n \in 1 .. Len(ms) /\ (n + 1) - 1 = n
        BY <1>1, <3>2
      <4>2. g[n] = b /\ g[n + 1] = Up(ms, g[n])
        BY <2>4, <2>6, <3>2, <4>1
      <4> QED
        BY <2>3, <4>2
    <3> QED
      BY <3>1, <3>2
  <2> HIDE DEF S
  <2>7. Len(ms) \in S /\ Len(ms) \in 1 .. Len(ms)
    BY <1>1, <2>5, <2>6, NatSet
  <2> QED
    BY <1>3, <2>4, <2>7 DEF S, Base, b, q
<1>4. CASE ~(Image \in Old /\ ms[Image].parent = OldRoot /\ ms[Image].at = Rootfs)
  <2>1. Over(ms, q) = {}
    <3> SUFFICES ASSUME NEW i \in Over(ms, q)
                 PROVE  FALSE
      OBVIOUS
    <3>1. i = Image /\ ms[i].parent = OldRoot /\ ms[i].at = Rootfs /\ i \in 1 .. Len(ms)
      BY <1>1, <1>2, SeqFacts DEF Over, Children, Mounted, Place
    <3>2. i \in Old
      BY <1>1, <3>1 DEF Old, Image, OldRoot
    <3> QED
      BY <1>4, <3>1, <3>2
  <2> QED
    BY <1>4, <2>1 DEF Top, Base
<1> QED
  BY <1>3, <1>4

(* Afterwards it leads to a mount the process has made.                    *)
LEMMA TopIsFresh ==
    ASSUME NEW ms, HostPart(ms), Layout(ms)
    PROVE  Top(ms, Place(OldRoot, Rootfs)).mount \in Fresh(ms)
<1> DEFINE q == Place(OldRoot, Rootfs)
           b == Place(Image, <<>>)
           k == 2 * HostSize + 1
<1>1. /\ HostSize \in 3 .. 5 /\ Len(ms) \in Nat /\ Len(ms) >= 2 * HostSize /\ Len(ms) >= 2
      /\ DOMAIN ms = 1 .. Len(ms) /\ k \in DOMAIN ms /\ k \in Fresh(ms) /\ IsSeq(ms)
  BY OwnClosed DEF HostPart, Layout, Fresh
<1>2. Skeleton(ms) /\ ms[k].ns = "container" /\ Place(ms[k].parent, ms[k].at) = Base(ms)
  BY DEF Layout
<1>3. /\ \A i \in Over(ms, q) : i = Image \/ i \in Fresh(ms)
      /\ Image \in Old /\ ms[Image].parent = OldRoot /\ ms[Image].at = Rootfs =>
            Image \in Over(ms, q) /\ RootOf(ms, Image) = b
  BY <1>1, <1>2, OverImage
<1>4. ASSUME NEW p, p.mount \in Fresh(ms) \/ (\E i \in Over(ms, p) : i \in Fresh(ms))
      PROVE  Up(ms, p).mount \in Fresh(ms)
  BY <1>1, <1>2, <1>4, UpToFresh
<1> HIDE DEF k
<1>5. /\ Over(ms, q) # {}
      /\ Up(ms, q).mount \in Fresh(ms) \/ Up(ms, Up(ms, q)).mount \in Fresh(ms)
  <2>1. CASE Image \in Old /\ ms[Image].parent = OldRoot /\ ms[Image].at = Rootfs
    <3>1. Image \in Over(ms, q) /\ RootOf(ms, Image) = b
      BY <1>3, <2>1
    <3>2. k \in Over(ms, b)
      <4>1. ms[k].parent = Image /\ ms[k].at = <<>>
        BY <1>2, <2>1 DEF Base, Place
      <4> QED
        BY <1>1, <1>2, <4>1 DEF Over, Children, Mounted, Place
    <3>3. CASE \E i \in Over(ms, q) : i \in Fresh(ms)
      BY <1>4, <3>1, <3>3
    <3>4. CASE \A i \in Over(ms, q) : i \notin Fresh(ms)
      <4>1. Over(ms, q) = {Image}
        BY <1>3, <3>1, <3>4
      <4>2. Max(Over(ms, q)) = Image
        <5>1. Image \in Nat /\ Image \in 1 .. Image
          BY <1>1 DEF Image, OldRoot
        <5> QED
          BY <4>1, <5>1, MaxIn
      <4>3. Up(ms, q) = b
        BY <3>1, <4>1, <4>2 DEF Up
      <4>4. Up(ms, b).mount \in Fresh(ms)
        BY <1>1, <1>4, <3>2
      <4> QED
        BY <3>1, <4>3, <4>4
    <3> QED
      BY <3>3, <3>4
  <2>2. CASE ~(Image \in Old /\ ms[Image].parent = OldRoot /\ ms[Image].at = Rootfs)
    <3>1. ms[k].parent = OldRoot /\ ms[k].at = Rootfs
      BY <1>2, <2>2 DEF Base, Place
    <3>2. k \in Over(ms, q)
      BY <1>1, <1>2, <3>1 DEF Over, Children, Mounted, Place
    <3> QED
      BY <1>1, <1>4, <3>2
  <2> QED
    BY <2>1, <2>2
<1>6. PICK g : /\ g[0] = q
               /\ \A n \in 1 .. Len(ms) : g[n] = Up(ms, g[n - 1])
               /\ Top(ms, q) = g[Len(ms)]
  BY <1>1, <1>5, TopSteps
<1> HIDE DEF q, b
<1> DEFINE S == {n \in Nat : n \in 2 .. Len(ms) => g[n].mount \in Fresh(ms)}
<1>7. 0 \in S
  OBVIOUS
<1>8. ASSUME NEW n \in Nat, n \in S
      PROVE  n + 1 \in S
  <2>1. CASE n = 0
    BY <2>1
  <2>2. CASE n = 1
    <3>1. g[1] = Up(ms, q) /\ g[2] = Up(ms, g[1])
      BY <1>1, <1>6
    <3>2. g[2].mount \in Fresh(ms)
      BY <1>4, <1>5, <3>1
    <3> QED
      BY <2>2, <3>2
  <2>3. CASE n \notin {0, 1} /\ n + 1 \in 2 .. Len(ms)
    <3>1. n \in 2 .. Len(ms) /\ n + 1 \in 1 .. Len(ms) /\ (n + 1) - 1 = n
      BY <1>1, <2>3
    <3>2. g[n].mount \in Fresh(ms) /\ g[n + 1] = Up(ms, g[n])
      BY <1>6, <1>8, <3>1
    <3> QED
      BY <1>4, <3>2
  <2> QED
    BY <2>1, <2>2, <2>3
<1> HIDE DEF S
<1>9. Len(ms) \in S /\ Len(ms) \in 2 .. Len(ms)
  BY <1>1, <1>7, <1>8, NatSet
<1> QED
  BY <1>6, <1>9 DEF S, q

(* A path in the image leads to what is at the path of the image first.    *)
LEMMA WalkBegins ==
    ASSUME NEW ms, ms[OldRoot].root = <<>>, NEW path, IsSeq(path)
    PROVE  \E g : /\ g[1] = Top(ms, Place(OldRoot, Rootfs))
                  /\ \A n \in 2 .. Len(path) + 1 : g[n] = Enter(ms, g[n - 1], (Rootfs \o path)[n])
                  /\ Walk(ms, OldRoot, Rootfs \o path) = g[Len(path) + 1]
<1> DEFINE full == Rootfs \o path
<1>1. IsSeq(Rootfs) /\ Len(Rootfs) = 1 /\ Rootfs[1] = "rootfs" /\ Append(<<>>, "rootfs") = Rootfs
  BY NamedPaths DEF Rootfs
<1>2. Len(path) \in Nat
  BY SeqFacts
<1>3. Len(full) = Len(path) + 1 /\ full[1] = "rootfs"
  <2>1. IsSeq(Rootfs) /\ IsSeq(path)
    BY <1>1
  <2>2. /\ Len(full) = Len(Rootfs) + Len(path)
        /\ \A i \in 1 .. Len(Rootfs) : full[i] = Rootfs[i]
    BY <2>1, SeqConcat
  <2> HIDE DEF full
  <2> QED
    BY <1>1, <1>2, <2>2
<1> HIDE DEF full
<1>4. PICK g : /\ g[0] = RootOf(ms, OldRoot)
               /\ \A n \in 1 .. Len(full) : g[n] = Enter(ms, g[n - 1], full[n])
               /\ Walk(ms, OldRoot, full) = g[Len(full)]
  <2>1. Len(full) \in Nat
    BY <1>2, <1>3
  <2> QED
    BY <2>1, WalkSteps
<1>5. g[1] = Top(ms, Place(OldRoot, Rootfs))
  <2>1. g[0].mount = OldRoot /\ g[0].dentry = <<>>
    BY <1>4 DEF RootOf, Place
  <2>2. g[1] = Enter(ms, g[0], full[1])
    BY <1>2, <1>3, <1>4
  <2> QED
    BY <1>1, <1>3, <2>1, <2>2 DEF Enter
<1>6. \A n \in 2 .. Len(path) + 1 : n \in 1 .. Len(full)
  BY <1>2, <1>3
<1>7. \A n \in 2 .. Len(path) + 1 : g[n] = Enter(ms, g[n - 1], full[n])
  BY <1>4, <1>6
<1>8. Walk(ms, OldRoot, full) = g[Len(path) + 1]
  BY <1>3, <1>4
<1>9. \E h : /\ h[1] = Top(ms, Place(OldRoot, Rootfs))
             /\ \A n \in 2 .. Len(path) + 1 : h[n] = Enter(ms, h[n - 1], full[n])
             /\ Walk(ms, OldRoot, full) = h[Len(path) + 1]
  BY <1>5, <1>7, <1>8, Zenon
<1> QED
  BY <1>9, Zenon DEF full

(* The path of the image itself.                                           *)
LEMMA WalkToImage ==
    ASSUME NEW ms, ms[OldRoot].root = <<>>
    PROVE  Walk(ms, OldRoot, Rootfs \o <<>>) = Top(ms, Place(OldRoot, Rootfs))
<1> DEFINE none == <<>>
<1>1. IsSeq(none) /\ Len(none) + 1 = 1
  BY NamedPaths
<1> HIDE DEF none
<1>2. PICK g : g[1] = Top(ms, Place(OldRoot, Rootfs)) /\ Walk(ms, OldRoot, Rootfs \o none) = g[Len(none) + 1]
  BY <1>1, WalkBegins, Zenon
<1> QED
  BY <1>1, <1>2 DEF none

(* Every path in the image leads to a mount the process has made.          *)
LEMMA FreshLookups ==
    ASSUME NEW ms, HostPart(ms), Layout(ms), NEW path, IsSeq(path)
    PROVE  Walk(ms, OldRoot, Rootfs \o path).mount \in Fresh(ms)
<1>1. /\ Len(ms) >= 2 * HostSize /\ IsSeq(ms) /\ Skeleton(ms)
      /\ OldRoot \in Old
  <2>1. HostSize \in 3 .. 5 /\ Len(ms) \in Nat
    BY OwnClosed
  <2> QED
    BY <2>1 DEF Layout, HostPart, Fresh, Old, OldRoot
<1>2. Closed(ms, Fresh(ms))
  BY <1>1, FreshClosed
<1>3. ms[OldRoot].root = <<>>
  BY <1>1 DEF Skeleton
<1>4. PICK g : /\ g[1] = Top(ms, Place(OldRoot, Rootfs))
               /\ \A n \in 2 .. Len(path) + 1 : g[n] = Enter(ms, g[n - 1], (Rootfs \o path)[n])
               /\ Walk(ms, OldRoot, Rootfs \o path) = g[Len(path) + 1]
  BY <1>3, WalkBegins
<1>5. g[1].mount \in Fresh(ms)
  BY <1>4, TopIsFresh
<1>6. ASSUME NEW q, q.mount \in Fresh(ms), NEW name
      PROVE  Enter(ms, q, name).mount \in Fresh(ms)
  BY <1>1, <1>2, <1>6, TopWithin DEF Enter, Place
<1> DEFINE S == {n \in Nat : n + 1 \in 1 .. Len(path) + 1 => g[n + 1].mount \in Fresh(ms)}
<1>7. 0 \in S
  BY <1>5
<1>8. ASSUME NEW n \in Nat, n \in S
      PROVE  n + 1 \in S
  <2>1. CASE (n + 1) + 1 \in 1 .. Len(path) + 1
    <3>1. /\ n + 1 \in 1 .. Len(path) + 1 /\ (n + 1) + 1 \in 2 .. Len(path) + 1
          /\ ((n + 1) + 1) - 1 = n + 1
      BY <2>1, SeqFacts
    <3>2. /\ g[n + 1].mount \in Fresh(ms)
          /\ g[(n + 1) + 1] = Enter(ms, g[n + 1], (Rootfs \o path)[(n + 1) + 1])
      BY <1>4, <1>8, <3>1
    <3> QED
      BY <1>6, <3>2
  <2> QED
    BY <2>1
<1> HIDE DEF S
<1>9. Len(path) \in S /\ Len(path) + 1 \in 1 .. Len(path) + 1
  BY <1>7, <1>8, NatSet, SeqFacts
<1> QED
  BY <1>4, <1>9 DEF S

-----------------------------------------------------------------------------
(* What keeps the layout.                                                  *)

(* The mounts stay where they are.                                         *)
SamePlaces(ms, new) ==
    /\ Len(new) = Len(ms)
    /\ \A i \in 1 .. Len(ms) :
          /\ new[i].ns = ms[i].ns /\ new[i].parent = ms[i].parent
          /\ new[i].at = ms[i].at /\ new[i].root = ms[i].root

(* They do when their propagation changes.                                 *)
LEMMA PropagationPlaces ==
    ASSUME NEW ms, IsSeq(ms), Records(ms), NEW m, NEW flag
    PROVE  SamePlaces(ms, SetPropagation(ms, m, flag))
<1> DEFINE U == IF flag.rec THEN Tree(ms, m) ELSE {m}
<1>1. SetPropagation(ms, m, flag) = SetKind(ms, U, flag.kind)
  BY DEF SetPropagation
<1> HIDE DEF U
<1> QED
  BY <1>1, SetKindKeeps, SetKindFields DEF SamePlaces

(* And when they become read-only.                                         *)
LEMMA ReadonlyPlaces ==
    ASSUME NEW ms, IsSeq(ms), Records(ms), NEW U
    PROVE  SamePlaces(ms, SetReadonly(ms, U))
<1>1. Len(SetReadonly(ms, U)) = Len(ms)
  BY SetReadonlyKeeps
<1>2. ASSUME NEW i \in 1 .. Len(ms)
      PROVE  LET new == SetReadonly(ms, U)
             IN  /\ new[i].ns = ms[i].ns /\ new[i].parent = ms[i].parent
                 /\ new[i].at = ms[i].at /\ new[i].root = ms[i].root
  <2>1. DOMAIN ms[i] = Fields /\ i \in DOMAIN ms
    BY SeqFacts DEF Records
  <2> QED
    BY <2>1 DEF SetReadonly, Fields
<1> QED
  BY <1>1, <1>2 DEF SamePlaces

(* The copies stay where they are if the table keeps what it had.          *)
LEMMA SkeletonStays ==
    ASSUME NEW ms, HostPart(ms), Len(ms) >= 2 * HostSize, Skeleton(ms), NEW new,
           \A i \in Old : /\ new[i].ns = ms[i].ns /\ new[i].parent = ms[i].parent
                          /\ new[i].at = ms[i].at /\ new[i].root = ms[i].root
    PROVE  Skeleton(new) /\ Base(new) = Base(ms)
BY DEF Skeleton, Base

(* In particular if the mounts stay where they are.                        *)
LEMMA SkeletonMoves ==
    ASSUME NEW ms, HostPart(ms), Len(ms) >= 2 * HostSize, Skeleton(ms), NEW new, SamePlaces(ms, new)
    PROVE  Skeleton(new)
<1>1. Old \in SUBSET (1 .. Len(ms))
  BY Parts
<1>2. \A i \in Old : /\ new[i].ns = ms[i].ns /\ new[i].parent = ms[i].parent
                    /\ new[i].at = ms[i].at /\ new[i].root = ms[i].root
  BY <1>1 DEF SamePlaces
<1> QED
  BY <1>2, SkeletonStays

(* The layout stays if all mounts stay where they are.                     *)
LEMMA LayoutStays ==
    ASSUME NEW ms, HostPart(ms), Layout(ms), NEW new, SamePlaces(ms, new)
    PROVE  Layout(new)
<1> DEFINE k == 2 * HostSize + 1
<1>1. /\ HostSize \in 3 .. 5 /\ Len(ms) \in Nat /\ Len(ms) >= 2 * HostSize
      /\ k \in Fresh(ms) /\ Skeleton(ms)
      /\ ms[k].ns = "container" /\ Place(ms[k].parent, ms[k].at) = Base(ms)
      /\ \A i \in Fresh(ms) : i # k => ms[i].parent \in Fresh(ms)
  BY OwnClosed DEF Layout, Fresh
<1>2. /\ Old \in SUBSET (1 .. Len(ms)) /\ Fresh(ms) \in SUBSET (1 .. Len(ms))
  BY <1>1, Parts
<1>3. Fresh(new) = Fresh(ms)
  BY DEF Fresh, SamePlaces
<1>4. Skeleton(new) /\ Base(new) = Base(ms)
  BY <1>1, <1>2, SkeletonStays DEF SamePlaces
<1> HIDE DEF k
<1>5. new[k].ns = "container" /\ Place(new[k].parent, new[k].at) = Base(new)
  BY <1>1, <1>2, <1>4 DEF SamePlaces
<1>6. \A i \in Fresh(new) : i # k => new[i].parent \in Fresh(new)
  BY <1>1, <1>2, <1>3 DEF SamePlaces
<1> QED
  BY <1>1, <1>3, <1>4, <1>5, <1>6 DEF Layout, k

(* It stays if what is new is on mounts the process has made.              *)
LEMMA LayoutGrows ==
    ASSUME NEW ms, HostPart(ms), Layout(ms), NEW new, Len(new) \in Nat, Len(new) >= Len(ms),
           \A i \in 1 .. Len(ms) : new[i] = ms[i],
           \A i \in Len(ms) + 1 .. Len(new) : new[i].parent \in Fresh(new)
    PROVE  Layout(new)
<1> DEFINE k == 2 * HostSize + 1
<1>1. /\ HostSize \in 3 .. 5 /\ Len(ms) \in Nat /\ Len(ms) >= 2 * HostSize
      /\ k \in Fresh(ms) /\ Skeleton(ms)
      /\ ms[k].ns = "container" /\ Place(ms[k].parent, ms[k].at) = Base(ms)
      /\ \A i \in Fresh(ms) : i # k => ms[i].parent \in Fresh(ms)
  BY OwnClosed DEF Layout, Fresh
<1>2. /\ Old \in SUBSET (1 .. Len(ms)) /\ Fresh(ms) \in SUBSET (1 .. Len(ms))
  BY <1>1, Parts
<1>3. /\ Fresh(ms) \subseteq Fresh(new)
      /\ \A i \in Fresh(new) : i \in Fresh(ms) \/ i \in Len(ms) + 1 .. Len(new)
  BY <1>1 DEF Fresh
<1>4. Skeleton(new) /\ Base(new) = Base(ms)
  BY <1>1, <1>2, SkeletonStays
<1> HIDE DEF k
<1>5. k \in Fresh(new) /\ new[k].ns = "container" /\ Place(new[k].parent, new[k].at) = Base(new)
  BY <1>1, <1>2, <1>3, <1>4
<1>6. \A i \in Fresh(new) : i # k => new[i].parent \in Fresh(new)
  BY <1>1, <1>2, <1>3
<1> QED
  BY <1>4, <1>5, <1>6 DEF Layout, k

(* So it does if something is attached to one of them that is not shared.  *)
LEMMA AttachLayout ==
    ASSUME NEW ms, HostPart(ms), Quiet(ms), Layout(ms), NEW p, p.mount \in Fresh(ms),
           NEW tree, IsSeq(tree), Records(tree), Len(tree) >= 1,
           \A i \in 2 .. Len(tree) : tree[i].parent \in 1 .. Len(tree)
    PROVE  Layout(Attach(ms, p, tree))
<1> DEFINE new == Attach(ms, p, tree)
<1>1. /\ HostSize \in 3 .. 5 /\ Len(ms) \in Nat /\ Len(ms) >= 2 * HostSize + 1
      /\ Len(tree) \in Nat /\ IsSeq(ms)
  BY OwnClosed, SeqFacts DEF Layout, Fresh, HostPart
<1>2. ms[p.mount].group = 0
  <2>1. p.mount \in Own(ms)
    BY <1>1 DEF Fresh, Own
  <2> QED
    BY <2>1 DEF Quiet
<1>3. /\ IsSeq(new) /\ Len(new) >= Len(ms)
      /\ \A i \in 1 .. Len(ms) : new[i] = ms[i]
  BY <1>1, AttachKeeps
<1>4. /\ Len(new) = Len(ms) + Len(tree)
      /\ new[Len(ms) + 1].parent = p.mount
      /\ \A i \in Len(ms) + 2 .. Len(new) : new[i].parent \in Len(ms) + 1 .. Len(new)
  BY <1>1, <1>2, AttachPlaces
<1> HIDE DEF new
<1>5. ASSUME NEW i \in Len(ms) + 1 .. Len(new)
      PROVE  new[i].parent \in Fresh(new)
  <2>1. CASE i = Len(ms) + 1
    BY <1>1, <1>4, <2>1 DEF Fresh
  <2>2. CASE i \in Len(ms) + 2 .. Len(new)
    <3>1. new[i].parent \in Len(ms) + 1 .. Len(new)
      BY <1>4, <2>2
    <3> QED
      BY <1>1, <1>4, <3>1 DEF Fresh
  <2> QED
    BY <1>1, <1>4, <2>1, <2>2
<1>6. Len(new) \in Nat
  BY <1>1, <1>4
<1>7. Layout(new)
  BY <1>3, <1>5, <1>6, LayoutGrows
<1> QED
  BY <1>7 DEF new

(* A new file system is such a thing.                                      *)
LEMMA NewMountLayout ==
    ASSUME NEW ms, HostPart(ms), Quiet(ms), Layout(ms), NEW p, p.mount \in Fresh(ms),
           NEW fs, NEW ro
    PROVE  Layout(Attach(ms, p, <<NewMount(fs, ro)>>))
<1> DEFINE m == NewMount(fs, ro)
           tree == <<m>>
<1>1. DOMAIN m = Fields
  BY DEF NewMount, Fields
<1> HIDE DEF m
<1>2. tree \in Seq({m}) /\ Len(tree) = 1 /\ tree[1] = m
  OBVIOUS
<1>3. IsSeq(tree)
  BY <1>2, EverySeq
<1> HIDE DEF tree
<1>4. /\ \A i \in 1 .. Len(tree) : tree[i] = m
      /\ Len(tree) >= 1
      /\ \A i \in 2 .. Len(tree) : tree[i].parent \in 1 .. Len(tree)
  BY <1>2
<1>5. Records(tree)
  BY <1>1, <1>4 DEF Records
<1>6. Layout(Attach(ms, p, tree))
  BY <1>3, <1>4, <1>5, AttachLayout
<1> QED
  BY <1>6 DEF tree, m

(* So is a clone.                                                          *)
LEMMA BindLayout ==
    ASSUME NEW ms, HostPart(ms), Quiet(ms), Layout(ms), NEW p, p.mount \in Fresh(ms),
           NEW from, from.mount \in Own(ms), NEW rec
    PROVE  Layout(Bind(ms, from, p, rec))
<1> DEFINE tree == Clone(ms, from, rec)
<1>1. from.mount \in 1 .. Len(ms) /\ IsSeq(ms) /\ Records(ms)
  BY OwnClosed DEF HostPart
<1>2. /\ IsSeq(tree) /\ Records(tree) /\ Len(tree) >= 1
      /\ \A i \in 2 .. Len(tree) : tree[i].parent \in 1 .. Len(tree)
  BY <1>1, CloneParents
<1> HIDE DEF tree
<1>3. Layout(Attach(ms, p, tree))
  BY <1>2, AttachLayout
<1> QED
  BY <1>3 DEF Bind, tree

-----------------------------------------------------------------------------
(* The steps up to the pivot.                                              *)

(* MountRootfs covers the image.                                           *)
LEMMA MountRootfsLayout ==
    ASSUME HostInv, hasMountNamespace, Confined, MountRootfs, pc' = "mountProc"
    PROVE  Layout(mnt')
<1> DEFINE flag == getPropagationFlag(conf.propagation)
           first == IF flag = None THEN DefaultPropagation ELSE flag
           s1 == SetPropagation(mnt, root, first)
           up == InRootfs(s1, <<>>).mount
           s2 == SetPropagation(s1, up, [kind |-> "private", rec |-> FALSE])
           p == InRootfs(s2, <<>>)
           tree == Clone(s2, p, TRUE)
           s3 == Attach(s2, p, tree)
           k == 2 * HostSize + 1
<1>1. mnt' = s3
  BY DEF MountRootfs, Mounts, Refused, Goto, rootfsParentMountPrivate, Bind
<1>2. /\ TableInv /\ HostPart(mnt) /\ root \in Own(mnt) /\ root = OldRoot
      /\ mnt = CloneNamespace(Host(conf)) /\ IsSeq(<<>>)
  BY NamedPaths DEF HostInv, TableInv, MountRootfs, Mounts, Refused, Goto, PrePivot
<1>3. first.rec = TRUE /\ first.kind # "shared"
  BY FirstPropagation
<1> HIDE DEF first
<1>4. Len(mnt) = 2 * HostSize /\ Skeleton(mnt) /\ HostSize \in 3 .. 5 /\ IsSeq(mnt) /\ Records(mnt)
  BY <1>2, CloneNamespaceFacts, OwnClosed DEF HostPart
<1>5. HostPart(s1) /\ Len(s1) = Len(mnt) /\ Quiet(s1) /\ SamePlaces(mnt, s1)
  <2>1. HostPart(s1) /\ Len(s1) = Len(mnt)
    BY <1>2, OwnPropagation
  <2>2. Quiet(s1)
    BY <1>2, <1>3, PropagationReachesAll
  <2>3. SamePlaces(mnt, s1)
    BY <1>4, PropagationPlaces
  <2> QED
    BY <2>1, <2>2, <2>3
<1> HIDE DEF s1
<1>6. Old \in SUBSET (1 .. Len(mnt)) /\ OldRoot \in Old
  BY <1>2, <1>4, Parts
<1>7. Skeleton(s1)
  BY <1>2, <1>4, <1>5, SkeletonMoves
<1>8. up \in Own(s1)
  BY <1>2, <1>4, <1>5, Lookups
<1> HIDE DEF up
<1>9. HostPart(s2) /\ Len(s2) = Len(mnt) /\ Quiet(s2) /\ SamePlaces(s1, s2)
  BY <1>5, <1>8, OwnPropagation, PropagationPlaces DEF HostPart
<1> HIDE DEF s2
<1>10. Skeleton(s2)
  BY <1>4, <1>5, <1>7, <1>9, SkeletonMoves
<1>11. p = Base(s2)
  <2>1. s2[OldRoot].root = <<>>
    BY <1>6, <1>10 DEF Skeleton
  <2> QED
    BY <1>2, <1>4, <1>9, <1>10, <2>1, WalkToImage, TopIsBase DEF InRootfs
<1> HIDE DEF p
<1>12. p.mount \in Old
  BY <1>6, <1>11 DEF Base, Place
<1>13. p.mount \in 1 .. Len(s2) /\ s2[p.mount].group = 0 /\ s2[p.mount].ns = "container"
  <2>1. p.mount \in Own(s2)
    BY <1>4, <1>6, <1>9, <1>12 DEF Own, Old, OldRoot
  <2> QED
    BY <1>6, <1>9, <1>10, <1>12, <2>1 DEF Quiet, Skeleton
<1>14. /\ IsSeq(tree) /\ Records(tree) /\ Len(tree) >= 1 /\ Len(tree) \in Nat
       /\ \A i \in 2 .. Len(tree) : tree[i].parent \in 1 .. Len(tree)
  <2>1. IsSeq(s2) /\ Records(s2)
    BY <1>9 DEF HostPart
  <2> QED
    BY <1>13, <2>1, CloneParents, SeqFacts
<1> HIDE DEF tree
<1>15. /\ Len(s3) = Len(s2) + Len(tree)
       /\ s3[Len(s2) + 1].parent = p.mount
       /\ s3[Len(s2) + 1].at = p.dentry
       /\ s3[Len(s2) + 1].ns = s2[p.mount].ns
       /\ \A i \in Len(s2) + 2 .. Len(s3) : s3[i].parent \in Len(s2) + 1 .. Len(s3)
       /\ \A i \in 1 .. Len(s2) : s3[i] = s2[i]
  <2>1. IsSeq(s2)
    BY <1>9 DEF HostPart
  <2> QED
    BY <1>13, <1>14, <2>1, AttachPlaces, AttachKeeps
<1> HIDE DEF s3
<1>16. Skeleton(s3) /\ Base(s3) = Base(s2)
  BY <1>4, <1>6, <1>9, <1>10, <1>15, SkeletonStays
<1>17. k = Len(s2) + 1 /\ k \in Fresh(s3) /\ Len(s3) \in Nat
  BY <1>4, <1>9, <1>14, <1>15 DEF Fresh
<1>18. s3[k].ns = "container" /\ Place(s3[k].parent, s3[k].at) = Base(s3)
  <2>1. Place(p.mount, p.dentry) = p
    BY <1>11 DEF Base, Place
  <2> QED
    BY <1>11, <1>13, <1>15, <1>16, <1>17, <2>1
<1>19. ASSUME NEW i \in Fresh(s3), i # k
       PROVE  s3[i].parent \in Fresh(s3)
  <2>1. i \in Len(s2) + 2 .. Len(s3)
    BY <1>4, <1>9, <1>17, <1>19 DEF Fresh
  <2> QED
    BY <1>4, <1>9, <1>15, <1>17, <2>1 DEF Fresh
<1> QED
  BY <1>1, <1>16, <1>17, <1>18, <1>19 DEF Layout

(* What later steps find before the pivot.                                 *)
LEMMA LayoutFacts ==
    ASSUME HostInv, hasMountNamespace, Confined, pc \in PrePivot \ {"mountRootfs"}, Layout(mnt)
    PROVE  /\ TableInv /\ HostPart(mnt) /\ Quiet(mnt) /\ root = OldRoot /\ Len(mnt) >= Len(mnt)
           /\ \A ms : HostPart(ms) /\ Layout(ms) =>
                 \A path : IsSeq(path) => InRootfs(ms, path).mount \in Fresh(ms)
<1>1. /\ TableInv /\ HostPart(mnt) /\ Quiet(mnt) /\ root = OldRoot
  BY DEF HostInv, TableInv, PrePivot, Ended
<1>2. Len(mnt) >= Len(mnt)
  BY <1>1, OwnClosed
<1> QED
  BY <1>1, <1>2, FreshLookups DEF InRootfs

(* MountSpecMounts.                                                        *)
LEMMA SpecMountLayout ==
    ASSUME HostInv, hasMountNamespace, Confined, Layout(mnt), MountSpecMount
    PROVE  Layout(mnt')
<1> DEFINE m == SpecMounts[next]
           dest == InRootfs(mnt, m.dest)
           done == DoMount(mnt, m, dest)
<1>1. /\ TableInv /\ HostPart(mnt) /\ Quiet(mnt) /\ Len(mnt) >= Len(mnt)
      /\ \A ms : HostPart(ms) /\ Layout(ms) =>
            \A path : IsSeq(path) => InRootfs(ms, path).mount \in Fresh(ms)
  <2>1. pc \in PrePivot \ {"mountRootfs"}
    BY DEF MountSpecMount, Refused, Goto, PrePivot
  <2> QED
    BY <2>1, LayoutFacts
<1>2. IsSeq(m.dest) /\ IsSeq(m.source) /\ IsSeq(m.options)
  BY SpecMountPaths
<1> HIDE DEF m
<1>3. /\ dest.mount \in Fresh(mnt) /\ At(m.source).mount \in Own(mnt)
      /\ At(<<"cgroup">>).mount \in Own(mnt)
  <2>1. IsSeq(<<"cgroup">>)
    BY NamedPaths
  <2> QED
    BY <1>1, <1>2, <2>1, Lookups DEF At
<1>4. dest.mount \in Own(mnt)
  BY <1>1, <1>2, Lookups
<1> HIDE DEF dest
<1>5. HostPart(done) /\ Layout(done)
  <2>1. CASE "BIND" \in Flags(m.options)
    BY <1>1, <1>3, <1>4, <2>1, OwnBind, BindLayout DEF DoMount
  <2>2. CASE ~("BIND" \in Flags(m.options))
    BY <1>1, <1>3, <1>4, <2>2, AttachNewMount, NewMountLayout DEF DoMount
  <2> QED
    BY <2>1, <2>2
<1> HIDE DEF done
<1>6. Layout(ApplyOptions(done, m))
  <2> DEFINE d == InRootfs(done, m.dest).mount
             flag == MountPropagation(m.options)
             set == IF flag = None THEN done ELSE SetPropagation(done, d, flag)
             final == IF "rro" \in Range(m.options) THEN SetReadonly(set, Tree(set, d)) ELSE set
  <2>1. d \in Own(done)
    <3>1. d \in Fresh(done)
      BY <1>1, <1>2, <1>5
    <3> QED
      BY <1>5, <3>1, OwnClosed DEF Fresh, Own
  <2> HIDE DEF d, flag
  <2>2. HostPart(set) /\ Layout(set)
    <3>1. HostPart(SetPropagation(done, d, flag))
      BY <1>5, <2>1, OwnPropagation
    <3>2. Layout(SetPropagation(done, d, flag))
      BY <1>5, PropagationPlaces, LayoutStays DEF HostPart
    <3> QED
      BY <1>5, <3>1, <3>2
  <2> HIDE DEF set
  <2>3. Layout(final)
    BY <2>2, ReadonlyPlaces, LayoutStays DEF HostPart
  <2> HIDE DEF final
  <2> QED
    BY <2>3 DEF ApplyOptions, final, set, flag, d
<1>7. Layout(Bind(mnt, At(<<"cgroup">>), dest, TRUE))
  BY <1>1, <1>3, BindLayout
<1> QED
  BY <1>6, <1>7 DEF MountSpecMount, Refused, m, dest, done

(* The mounts made at a step of their own.                                 *)
LEMMA OneMountLayout ==
    ASSUME HostInv, hasMountNamespace, Confined, Layout(mnt),
           MountProc \/ MountDefaultDevices \/ MountConsole
    PROVE  Layout(mnt')
<1>1. /\ TableInv /\ HostPart(mnt) /\ Quiet(mnt) /\ Len(mnt) >= Len(mnt)
      /\ \A path : IsSeq(path) => InRootfs(mnt, path).mount \in Fresh(mnt)
  <2>1. pc \in PrePivot \ {"mountRootfs"}
    BY DEF MountProc, MountDefaultDevices, MountConsole, Mounts, Refused, Goto, PrePivot
  <2> QED
    BY <2>1, LayoutFacts
<1>2. IsSeq(<<"proc">>) /\ IsSeq(Null) /\ IsSeq(Slave) /\ IsSeq(Console)
  BY NamedPaths
<1>3. At(Null).mount \in Own(mnt) /\ InRootfs(mnt, Slave).mount \in Own(mnt)
  BY <1>1, <1>2, Lookups DEF At
<1>4. CASE MountProc
  <2>1. Layout(Attach(mnt, InRootfs(mnt, <<"proc">>), <<NewMount("proc", FALSE)>>))
    BY <1>1, <1>2, NewMountLayout
  <2> QED
    BY <1>4, <2>1 DEF MountProc, Mounts, Refused
<1>5. CASE MountDefaultDevices
  <2> DEFINE new == Bind(mnt, At(Null), InRootfs(mnt, Null), FALSE)
  <2>1. InRootfs(mnt, Null).mount \in Fresh(mnt)
    BY <1>1, <1>2
  <2>2. Layout(new)
    BY <1>1, <1>3, <2>1, BindLayout
  <2>3. mnt' \in {mnt, new}
    BY <1>5 DEF MountDefaultDevices, Mounts, Refused
  <2> HIDE DEF new
  <2> QED
    BY <2>2, <2>3
<1>6. CASE MountConsole
  <2> DEFINE new == Bind(mnt, InRootfs(mnt, Slave), InRootfs(mnt, Console), FALSE)
  <2>1. InRootfs(mnt, Console).mount \in Fresh(mnt)
    BY <1>1, <1>2
  <2>2. Layout(new)
    BY <1>1, <1>3, <2>1, BindLayout
  <2>3. mnt' \in {mnt, new}
    BY <1>6 DEF MountConsole, Mounts, Refused
  <2> HIDE DEF new
  <2> QED
    BY <2>2, <2>3
<1> QED
  BY <1>4, <1>5, <1>6

-----------------------------------------------------------------------------
(* The pivot and what follows.                                             *)

(* The old root ends up on the new one, with nothing over it.              *)
LEMMA PivotLayout ==
    ASSUME HostInv, hasMountNamespace, Confined, PivotRoot, pc' = "detach", Layout(mnt)
    PROVE  root' \in Fresh(mnt') /\ Pivoted(mnt')
<1> DEFINE n == InRootfs(mnt, <<>>).mount
           k == 2 * HostSize + 1
<1>1. pc \in PrePivot \ {"mountRootfs"} /\ mnt' = Pivot(mnt, root, n) /\ root' = n
  BY DEF PivotRoot, Refused, Goto, PrePivot
<1>2. HostPart(mnt) /\ root = OldRoot /\ n \in Fresh(mnt)
  <2>1. IsSeq(<<>>)
    BY NamedPaths
  <2> QED
    BY <1>1, <2>1, LayoutFacts
<1> HIDE DEF n
<1>3. /\ Skeleton(mnt) /\ k \in Fresh(mnt) /\ Place(mnt[k].parent, mnt[k].at) = Base(mnt)
      /\ \A i \in Fresh(mnt) : i # k => mnt[i].parent \in Fresh(mnt)
  BY DEF Layout
<1>4. /\ HostSize \in 3 .. 5 /\ Len(mnt) \in Nat /\ DOMAIN mnt = 1 .. Len(mnt)
      /\ OldRoot = HostSize + 1 /\ OldRoot \in Old /\ Old \in SUBSET (1 .. Len(mnt))
      /\ Fresh(mnt) \in SUBSET (1 .. Len(mnt)) /\ OldRoot \notin Fresh(mnt)
      /\ \A i \in 1 .. Len(mnt) : i \in 1 .. HostSize \/ i \in Old \/ i \in Fresh(mnt)
      /\ \A i \in 1 .. HostSize : mnt[i].parent \in 0 .. HostSize - 1
  <2>1. HostSize \in 3 .. 5 /\ Len(mnt) \in Nat
    BY <1>2, OwnClosed
  <2>2. Len(mnt) >= 2 * HostSize
    BY <1>3, <2>1 DEF Fresh
  <2>3. OldRoot \notin Fresh(mnt)
    BY <2>1 DEF OldRoot, Fresh
  <2> QED
    BY <1>2, <2>2, <2>3, Parts
<1>5. ASSUME NEW i \in 1 .. Len(mnt)
      PROVE  DOMAIN mnt[i] = Fields
  BY <1>2 DEF HostPart, Records
<1>6. /\ DOMAIN mnt' = DOMAIN mnt
      /\ \A i \in DOMAIN mnt \ {n, OldRoot} : mnt'[i] = mnt[i]
  BY <1>1, <1>2 DEF Pivot
<1>7. mnt'[OldRoot] = [mnt[OldRoot] EXCEPT !.parent = n, !.at = mnt[n].root]
  BY <1>1, <1>2, <1>4, <1>5 DEF Pivot, Fields
<1>8. mnt'[n] = [mnt[n] EXCEPT !.parent = 0]
  BY <1>1, <1>2, <1>4 DEF Pivot
<1>9. mnt'[n].parent = 0
  BY <1>2, <1>4, <1>5, <1>8 DEF Fields
<1>10. /\ mnt'[OldRoot].parent = n /\ mnt'[OldRoot].root = mnt[OldRoot].root
       /\ mnt'[OldRoot].ns = mnt[OldRoot].ns
  BY <1>4, <1>5, <1>7 DEF Fields
<1>11. RootOf(mnt', OldRoot) = Place(OldRoot, <<>>)
  BY <1>3, <1>4, <1>10 DEF RootOf, Skeleton
<1>12. Len(mnt') = Len(mnt)
  BY <1>1, <1>2, <1>4 DEF Pivot
<1>13. Base(mnt) # Place(OldRoot, <<>>)
  <2>1. Image # OldRoot /\ Rootfs # <<>>
    BY <1>4 DEF Image, Rootfs
  <2> QED
    BY <2>1 DEF Base, Place
<1>14. ASSUME NEW i \in Over(mnt', RootOf(mnt', OldRoot))
       PROVE  FALSE
  <2>1. i \in 1 .. Len(mnt) /\ mnt'[i].parent = OldRoot /\ mnt'[i].at = <<>>
    BY <1>4, <1>6, <1>11, <1>14 DEF Over, Children, Mounted, Place
  <2>2. i # n /\ i # OldRoot
    BY <1>2, <1>4, <1>9, <1>10, <2>1
  <2>3. mnt[i].parent = OldRoot /\ mnt[i].at = <<>>
    BY <1>4, <1>6, <2>1, <2>2
  <2>4. i \notin 1 .. HostSize
    BY <1>4, <2>3
  <2>5. i \notin Old
    BY <1>3, <2>2, <2>3 DEF Skeleton
  <2>6. i \in Fresh(mnt) /\ i = k
    BY <1>3, <1>4, <2>1, <2>3, <2>4, <2>5
  <2> QED
    BY <1>3, <1>13, <2>3, <2>6
<1>15. ASSUME NEW i \in Old
       PROVE  mnt'[i].ns = "container" /\ (i # OldRoot => mnt'[i].parent \in OldRoot .. i - 1)
  <2>1. i \in DOMAIN mnt /\ i # n
    BY <1>2, <1>4 DEF Old, Fresh
  <2>2. CASE i = OldRoot
    BY <1>3, <1>4, <1>10, <2>2 DEF Skeleton
  <2>3. CASE i # OldRoot
    BY <1>3, <1>6, <2>1, <2>3 DEF Skeleton
  <2> QED
    BY <2>2, <2>3
<1> QED
  BY <1>1, <1>2, <1>12, <1>14, <1>15 DEF Pivoted, Fresh

(* What is detached is the old root itself, with all the copies.           *)
LEMMA DetachGone ==
    ASSUME HostInv, hasMountNamespace, DetachOldRoot, pc' = "createContainer",
           root \in Fresh(mnt), Pivoted(mnt)
    PROVE  Gone(mnt')
<1> DEFINE s == OldRootSlave
           t == DetachedMount(s)
           T == Tree(s, OldRoot)
           new == Detach(s, t)
<1>1. pc = "detach" /\ mnt' = new
  BY DEF DetachOldRoot, Mounts, Refused, Goto
<1>2. /\ HostPart(mnt) /\ mnt[OldRoot].parent \in Own(mnt)
      /\ mnt[mnt[OldRoot].parent].group = 0
  BY <1>1 DEF HostInv, TableInv
<1>3. /\ HostSize \in 3 .. 5 /\ Len(mnt) \in Nat /\ DOMAIN mnt = 1 .. Len(mnt)
      /\ OldRoot \in Own(mnt) /\ Own(mnt) \in SUBSET (1 .. Len(mnt))
      /\ Old \in SUBSET (1 .. Len(mnt))
  <2>1. HostSize \in 3 .. 5 /\ Len(mnt) \in Nat
    BY <1>2, OwnClosed
  <2>2. Len(mnt) >= 2 * HostSize
    BY <2>1 DEF Fresh
  <2> QED
    BY <1>2, <2>1, <2>2, OwnClosed, Parts DEF OldRoot, Own, HostPart
<1>4. HostPart(s) /\ Len(s) = Len(mnt) /\ SamePlaces(mnt, s)
  BY <1>2, <1>3, OwnPropagation, PropagationPlaces DEF OldRootSlave, HostPart
<1>5. s = SetKind(mnt, Tree(mnt, OldRoot), "slave") /\ t = Top(s, RootOf(s, OldRoot)).mount
  BY DEF OldRootSlave, SetPropagation, DetachedMount
<1>6. new = Forget(s, Tree(s, t))
  BY <1>2, <1>3, <1>5, DetachKeeps DEF HostPart
<1> HIDE DEF s
<1>7. t = OldRoot
  <2>1. RootOf(s, OldRoot) = RootOf(mnt, OldRoot)
    BY <1>3, <1>4 DEF SamePlaces, RootOf
  <2>2. IsSeq(s) /\ DOMAIN s = DOMAIN mnt
    BY <1>3, <1>4, SeqFacts DEF HostPart
  <2>3. Over(s, RootOf(s, OldRoot)) = {}
    BY <1>3, <1>4, <2>1, <2>2 DEF SamePlaces, Over, Children, Mounted, Pivoted
  <2> QED
    BY <1>5, <2>3 DEF Top, RootOf, Place
<1>8. Closed(s, T) /\ OldRoot \in T /\ DOMAIN s = 1 .. Len(mnt)
  <2>1. IsSeq(s) /\ DOMAIN s = 1 .. Len(mnt) /\ Len(s) \in Nat
    BY <1>3, <1>4, SeqFacts DEF HostPart
  <2> QED
    BY <1>3, <2>1, TreeClosed, TreeParents
<1> HIDE DEF T
<1> DEFINE S == {n \in Nat : \A i \in Old : i <= n => i \in T}
<1>9. 0 \in S
  BY <1>3 DEF Old, OldRoot
<1>10. ASSUME NEW n \in Nat, n \in S
       PROVE  n + 1 \in S
  <2> SUFFICES ASSUME NEW i \in Old, i <= n + 1, i # OldRoot
               PROVE  i \in T
    BY <1>8
  <2>1. i \in DOMAIN s /\ s[i].ns = "container" /\ s[i].parent \in OldRoot .. i - 1
    BY <1>3, <1>4, <1>8 DEF SamePlaces, Pivoted
  <2>2. s[i].parent \in Old /\ s[i].parent <= n
    BY <1>3, <2>1 DEF Old, OldRoot
  <2>3. s[i].parent \in T
    BY <1>10, <2>2
  <2>4. i \in Mounted(s)
    BY <2>1 DEF Mounted
  <2> QED
    BY <1>8, <2>3, <2>4 DEF Closed
<1> HIDE DEF S
<1>11. Len(mnt) \in S
  BY <1>3, <1>9, <1>10, NatSet
<1>12. Old \subseteq T
  BY <1>3, <1>11 DEF S
<1>13. ASSUME NEW i \in Old
       PROVE  new[i].ns = "none"
  <2>1. i \in DOMAIN s /\ i \in Tree(s, t) /\ "ns" \in DOMAIN s[i]
    BY <1>3, <1>4, <1>7, <1>8, <1>12 DEF T, HostPart, Records, Fields
  <2> QED
    BY <1>6, <2>1 DEF Forget
<1> QED
  BY <1>1, <1>13 DEF Gone

(* The steps after it mount nothing away and back.                         *)
LEMMA PathsStay ==
    ASSUME HostInv, hasMountNamespace, MountMaskedPaths \/ MountReadonlyPaths
    PROVE  \A i \in 1 .. Len(mnt) : mnt'[i].ns = mnt[i].ns
<1> DEFINE Kept(new) == \A i \in 1 .. Len(mnt) : new[i].ns = mnt[i].ns
<1>1. IsSeq(mnt) /\ Records(mnt)
  BY DEF HostInv, TableInv, HostPart
<1>2. ASSUME NEW from, NEW to, NEW rec
      PROVE  \A i \in 1 .. Len(mnt) : Bind(mnt, from, to, rec)[i] = mnt[i]
  BY <1>1, BindKeeps
<1>3. ASSUME NEW path
      PROVE  Kept(Mask(mnt, path))
  <2>1. ASSUME NEW p, NEW m
        PROVE  Kept(Attach(mnt, p, <<m>>))
    <3>1. <<m>> \in Seq({m})
      OBVIOUS
    <3>2. IsSeq(<<m>>)
      BY <3>1, EverySeq
    <3> QED
      BY <1>1, <3>2, AttachKeeps
  <2>2. \/ Mask(mnt, path) = mnt
        \/ \E p, m : Mask(mnt, path) = Attach(mnt, p, <<m>>)
        \/ \E from, to : Mask(mnt, path) = Bind(mnt, from, to, TRUE)
    BY DEF Mask
  <2>3. CASE \E p, m : Mask(mnt, path) = Attach(mnt, p, <<m>>)
    BY <2>1, <2>3
  <2>4. CASE \E from, to : Mask(mnt, path) = Bind(mnt, from, to, TRUE)
    BY <1>2, <2>4
  <2> QED
    BY <2>2, <2>3, <2>4
<1>4. ASSUME NEW path, IsSeq(path)
      PROVE  Kept(ReadonlyPath(mnt, path))
  <2> DEFINE p == Walk(mnt, root, path)
             bound == Bind(mnt, p, p, TRUE)
             U == {Walk(bound, root, path).mount}
  <2>1. HostPart(bound) /\ Len(bound) >= Len(mnt)
    <3>1. TableInv /\ HostPart(mnt) /\ Len(mnt) >= Len(mnt)
      BY OwnClosed DEF HostInv, TableInv
    <3>2. p.mount \in Own(mnt)
      BY <1>4, <3>1, Lookups
    <3> QED
      BY <3>1, <3>2, OwnBind
  <2>2. \A i \in 1 .. Len(mnt) : bound[i] = mnt[i]
    BY <1>2
  <2> HIDE DEF bound, U
  <2>3. Len(mnt) \in Nat /\ Len(bound) \in Nat
    BY <1>1, <2>1, SeqFacts DEF HostPart
  <2>4. SamePlaces(bound, SetReadonly(bound, U))
    BY <2>1, ReadonlyPlaces DEF HostPart
  <2>5. Kept(SetReadonly(bound, U))
    BY <2>1, <2>2, <2>3, <2>4 DEF SamePlaces
  <2> QED
    BY <2>5 DEF ReadonlyPath, bound, U
<1>5. CASE MountMaskedPaths
  BY <1>3, <1>5 DEF MountMaskedPaths, EndPaths, MountPath
<1>6. CASE MountReadonlyPaths
  <2>1. next <= Len(conf.readonlyPaths) => IsSeq(conf.readonlyPaths[next])
    <3>1. conf.readonlyPaths \in Seq(Seq(STRING)) /\ next \in Nat \ {0}
      BY RootFSAssumption DEF HostInv
    <3> QED
      BY <3>1, ElementOfSeq, LenProperties, EverySeq
  <2> QED
    BY <1>4, <1>6, <2>1 DEF MountReadonlyPaths, EndPaths, MountPath, Refused
<1> QED
  BY <1>5, <1>6

(* Nor do those that change the root.                                      *)
LEMMA RootStays ==
    ASSUME HostInv, hasMountNamespace, SetRootfsMountPropagation \/ MountRootReadonly
    PROVE  \A i \in 1 .. Len(mnt) : mnt'[i].ns = mnt[i].ns
<1>1. IsSeq(mnt) /\ Records(mnt)
  BY DEF HostInv, TableInv, HostPart
<1>2. CASE SetRootfsMountPropagation
  <2>1. mnt' = mnt \/ (\E flag : mnt' = SetPropagation(mnt, root, flag))
    BY <1>2 DEF SetRootfsMountPropagation, Mounts, Refused
  <2> QED
    BY <1>1, <2>1, PropagationPlaces DEF SamePlaces
<1>3. CASE MountRootReadonly
  <2>1. mnt' = mnt \/ mnt' = SetReadonly(mnt, {root})
    BY <1>3 DEF MountRootReadonly, Mounts, Refused
  <2> QED
    BY <1>1, <2>1, ReadonlyPlaces DEF SamePlaces
<1> QED
  BY <1>2, <1>3

-----------------------------------------------------------------------------
(* The invariant about the root of the process.                            *)

(* Before the pivot the process covers the image; the old root goes on the *)
(* new one with nothing over it, and after that no copy is mounted.        *)
RootInv ==
    hasMountNamespace /\ Confined =>
        /\ pc \in PrePivot \ {"mountRootfs"} => Layout(mnt)
        /\ pc = "detach" => root \in Fresh(mnt) /\ Pivoted(mnt)
        /\ pc \in Isolated => root \in Fresh(mnt) /\ Gone(mnt)

(* The primed invariant, from what a step makes of table and root.         *)
LEMMA RootNext ==
    ASSUME conf' = conf,
           hasMountNamespace /\ Confined =>
               /\ pc' \in PrePivot \ {"mountRootfs"} => Layout(mnt')
               /\ pc' = "detach" => root' \in Fresh(mnt') /\ Pivoted(mnt')
               /\ pc' \in Isolated => root' \in Fresh(mnt') /\ Gone(mnt')
    PROVE  RootInv'
<1>1. /\ HostSize' = HostSize /\ OldRoot' = OldRoot /\ (Confined' <=> Confined)
      /\ hasMountNamespace' <=> hasMountNamespace
  BY DEF HostSize, OldRoot, Confined, Host, hasMountNamespace
<1>2. Old' = Old /\ Image' = Image /\ Fresh(mnt)' = Fresh(mnt')
  BY <1>1 DEF Old, Image, Fresh
<1>3. Skeleton(mnt)' <=> Skeleton(mnt')
  BY <1>1, <1>2 DEF Skeleton
<1>4. Base(mnt)' = Base(mnt')
  BY <1>1, <1>2 DEF Base
<1>5. Layout(mnt)' <=> Layout(mnt')
  BY <1>1, <1>2, <1>3, <1>4 DEF Layout
<1>6. (Pivoted(mnt)' <=> Pivoted(mnt')) /\ (Gone(mnt)' <=> Gone(mnt'))
  BY <1>1, <1>2 DEF Pivoted, Gone
<1> QED
  BY <1>1, <1>2, <1>5, <1>6 DEF RootInv

(* After the pivot, a step that takes no mount away and brings none back.  *)
LEMMA GoneStays ==
    ASSUME HostInv, hasMountNamespace, Harmless(mnt'), root' = root,
           root \in Fresh(mnt), Gone(mnt), \A i \in 1 .. Len(mnt) : mnt'[i].ns = mnt[i].ns
    PROVE  root' \in Fresh(mnt') /\ Gone(mnt')
<1>1. HostPart(mnt) /\ HostPart(mnt') /\ Len(mnt') >= Len(mnt)
  BY DEF HostInv, TableInv, Harmless
<1>2. HostSize \in 3 .. 5 /\ Len(mnt) \in Nat /\ Len(mnt') \in Nat
  BY <1>1, OwnClosed
<1>3. Old \in SUBSET (1 .. Len(mnt))
  <2>1. Len(mnt) >= 2 * HostSize
    BY <1>2 DEF Fresh
  <2> QED
    BY <1>1, <2>1, Parts
<1>4. root' \in Fresh(mnt')
  BY <1>1, <1>2 DEF Fresh
<1> QED
  BY <1>3, <1>4 DEF Gone

(* What each step makes of table and root.                                 *)
LEMMA RootKeeps ==
    ASSUME HostInv, RootInv, hasMountNamespace, Confined, Moves
    PROVE  /\ pc' \in PrePivot \ {"mountRootfs"} => Layout(mnt')
           /\ pc' = "detach" => root' \in Fresh(mnt') /\ Pivoted(mnt')
           /\ pc' \in Isolated => root' \in Fresh(mnt') /\ Gone(mnt')
<1> DEFINE Goal == /\ pc' \in PrePivot \ {"mountRootfs"} => Layout(mnt')
                   /\ pc' = "detach" => root' \in Fresh(mnt') /\ Pivoted(mnt')
                   /\ pc' \in Isolated => root' \in Fresh(mnt') /\ Gone(mnt')
<1>1. /\ pc \in PrePivot \ {"mountRootfs"} => Layout(mnt)
      /\ pc = "detach" => root \in Fresh(mnt) /\ Pivoted(mnt)
      /\ pc \in Isolated => root \in Fresh(mnt) /\ Gone(mnt)
  BY DEF RootInv
<1>2. CASE pc' \in Ended \ {"exec"}
  BY <1>2 DEF Ended, PrePivot, PostPivot, Isolated
<1>3. CASE MountRootfs /\ pc' \notin Ended
  <2>1. pc' = "mountProc"
    BY <1>3 DEF MountRootfs, Mounts, Refused, Goto, Ended
  <2>2. Layout(mnt')
    BY <1>3, <2>1, MountRootfsLayout
  <2> QED
    BY <2>1, <2>2 DEF PrePivot, PostPivot, Isolated
<1>4. CASE MountSpecMount /\ pc' \notin Ended
  <2>1. pc = "specMounts" /\ pc' \in {"specMounts", "defaultDevices"}
    BY <1>4 DEF MountSpecMount, Refused, Goto, Ended
  <2>2. Layout(mnt)
    BY <1>1, <2>1 DEF PrePivot
  <2>3. Layout(mnt')
    BY <1>4, <2>2, SpecMountLayout
  <2> QED
    BY <2>1, <2>3 DEF PrePivot, PostPivot, Isolated
<1>5. CASE (MountProc \/ MountDefaultDevices \/ MountConsole) /\ pc' \notin Ended
  <2>1. /\ pc \in {"mountProc", "defaultDevices", "mountConsole"}
        /\ pc' \in {"specMounts", "deviceNodes", "pivot"}
    BY <1>5 DEF MountProc, MountDefaultDevices, MountConsole, Mounts, Refused, Goto, Ended
  <2>2. Layout(mnt)
    BY <1>1, <2>1 DEF PrePivot
  <2>3. Layout(mnt')
    BY <1>5, <2>2, OneMountLayout
  <2> QED
    BY <2>1, <2>3 DEF PrePivot, PostPivot, Isolated
<1>6. CASE (CreateDeviceNodes \/ CreateDefaultSymlinks \/ ConnectConsole) /\ pc' \notin Ended
  <2>1. /\ pc \in {"deviceNodes", "symlinks", "connectConsole"} /\ mnt' = mnt
        /\ pc' \in {"symlinks", "connectConsole", "mountConsole"}
    BY <1>6 DEF CreateDeviceNodes, CreateDefaultSymlinks, ConnectConsole, Refused, Goto, Ended
  <2>2. Layout(mnt')
    BY <1>1, <2>1 DEF PrePivot
  <2> QED
    BY <2>1, <2>2 DEF PrePivot, PostPivot, Isolated
<1>7. CASE PivotRoot /\ pc' \notin Ended
  <2>1. pc = "pivot" /\ pc' = "detach"
    BY <1>7 DEF PivotRoot, Refused, Goto, Ended
  <2>2. Layout(mnt)
    BY <1>1, <2>1 DEF PrePivot
  <2>3. root' \in Fresh(mnt') /\ Pivoted(mnt')
    BY <1>7, <2>1, <2>2, PivotLayout
  <2> QED
    BY <2>1, <2>3 DEF PrePivot, PostPivot, Isolated
<1>8. CASE DetachOldRoot /\ pc' \notin Ended
  <2>1. pc = "detach" /\ pc' = "createContainer" /\ root' = root
    BY <1>8 DEF DetachOldRoot, Mounts, Refused, Goto, Ended
  <2>2. root \in Fresh(mnt) /\ Pivoted(mnt)
    BY <1>1, <2>1
  <2>3. Gone(mnt')
    BY <1>8, <2>1, <2>2, DetachGone
  <2>4. root' \in Fresh(mnt')
    <3>1. HostPart(mnt) /\ Harmless(mnt')
      BY <1>8, DetachHarmless DEF HostInv, TableInv
    <3>2. HostPart(mnt') /\ Len(mnt') >= Len(mnt)
      BY <3>1 DEF Harmless
    <3>3. HostSize \in 3 .. 5 /\ Len(mnt) \in Nat /\ Len(mnt') \in Nat
      BY <3>1, <3>2, OwnClosed
    <3> QED
      BY <2>1, <2>2, <3>2, <3>3 DEF Fresh
  <2> QED
    BY <2>1, <2>3, <2>4 DEF PrePivot, PostPivot, Isolated
<1>9. CASE (SetSysctl \/ MountMaskedPaths \/ MountReadonlyPaths
            \/ SetRootfsMountPropagation \/ MountRootReadonly) /\ pc' \notin Ended
  <2>1. /\ pc \in PostPivot /\ pc' \in PostPivot /\ root' = root
        /\ SetSysctl => mnt' = mnt
    BY <1>9 DEF SetSysctl, MountMaskedPaths, MountReadonlyPaths, SetRootfsMountPropagation,
                MountRootReadonly, Mounts, EndPaths, MountPath, Refused, Goto, PostPivot, Ended
  <2>2. Harmless(mnt')
    BY <1>9, <2>1, SameHarmless, PathsHarmless, OneMountHarmless
  <2>3. \A i \in 1 .. Len(mnt) : mnt'[i].ns = mnt[i].ns
    BY <1>9, <2>1, PathsStay, RootStays
  <2>4. root \in Fresh(mnt) /\ Gone(mnt)
    BY <1>1, <2>1 DEF Isolated
  <2>5. root' \in Fresh(mnt') /\ Gone(mnt')
    BY <2>1, <2>2, <2>3, <2>4, GoneStays
  <2> QED
    BY <2>1, <2>5 DEF PrePivot, PostPivot, Isolated
<1>10. CASE UNCHANGED rootfsVars
  <2>1. mnt' = mnt /\ root' = root /\ pc' = pc
    BY <1>10 DEF rootfsVars
  <2> QED
    BY <1>1, <2>1
<1>11. CASE /\ \/ Goto("createContainer", "waitStart") \/ Goto("waitStart", "sysctl")
               \/ Goto("waitStart", "startContainer") \/ Goto("startContainer", "exec")
               \/ Goto("startContainer", "exited") \/ Goto("hostname", "startContainer")
            /\ UNCHANGED <<mnt, root, next, nodes, pty>>
  <2>1. pc \in Isolated /\ mnt' = mnt /\ root' = root /\ pc' \notin PrePivot /\ pc' # "detach"
    BY <1>11 DEF Goto, PrePivot, PostPivot, Isolated
  <2> QED
    BY <1>1, <2>1
<1>12. CASE Fails
  BY <1>2, <1>12 DEF Fails, Ended
<1> QED
  <2>1. CASE Mounting
    <3>1. pc' # "exec"
      BY <2>1, MountingMoves DEF Early, PrePivot, PostPivot
    <3>2. pc' \in Ended \ {"exec"} \/ pc' \notin Ended
      BY <3>1
    <3> QED
      BY <1>2, <1>3, <1>4, <1>5, <1>6, <1>7, <1>8, <1>9, <2>1, <3>2
         DEF Mounting, SetupPrePivot, SetupPostPivot
  <2> QED
    BY <1>10, <1>11, <1>12, <2>1 DEF Moves

(* The invariant holds of every behaviour.                                 *)
LEMMA RootInvariance == Spec => []RootInv
<1>1. Init => RootInv
  BY DEF Init, RootFSInit, RootInv, PostPivot, Isolated
<1>2. RootInv /\ HostInv /\ [Next]_vars => RootInv'
  <2> SUFFICES ASSUME RootInv, HostInv, [Next]_vars
               PROVE  RootInv'
    OBVIOUS
  <2>1. Moves
    BY StepMoves
  <2>2. conf' = conf
    BY <2>1, IndexKeeps
  <2> QED
    BY <2>1, <2>2, RootKeeps, RootNext
<1> QED
  BY <1>1, <1>2, HostInvariance, PTL DEF Spec

(* A container whose root has a recursive propagation that is not shared,  *)
(* which is the default, cannot reach the host's file system when it has   *)
(* been set up, whatever it has mounted: its root is a mount made for it,  *)
(* and below it is no mount of the host and none of the copies the         *)
(* namespace began with.                                                   *)
THEOREM OldRootCorrect == Spec => [](Confined => OldRootGone)
<1>1. HostInv /\ RootInv => (Confined => OldRootGone)
  <2> SUFFICES ASSUME HostInv, RootInv, hasMountNamespace, Confined, pc \in Isolated
               PROVE  root > 2 * HostSize /\ Tree(mnt, root) \cap (1 .. 2 * HostSize) = {}
    BY DEF OldRootGone, Isolated
  <2>1. HostPart(mnt) /\ root \in Own(mnt) /\ root \in Fresh(mnt) /\ Gone(mnt)
    BY DEF HostInv, TableInv, RootInv
  <2>2. /\ HostSize \in 3 .. 5 /\ Len(mnt) \in Nat /\ DOMAIN mnt = 1 .. Len(mnt)
        /\ Closed(mnt, Own(mnt))
    BY <2>1, OwnClosed
  <2>3. root > 2 * HostSize /\ Len(mnt) >= 2 * HostSize
    BY <2>1, <2>2 DEF Fresh
  <2>4. ASSUME NEW i \in Tree(mnt, root), i \in 1 .. 2 * HostSize
        PROVE  FALSE
    <3>1. i \in Own(mnt) /\ i \in Old
      <4>1. i \in Own(mnt)
        BY <2>1, <2>2, TreeWithin
      <4> QED
        BY <2>2, <2>4, <4>1 DEF Own, Old, OldRoot
    <3>2. i # root
      BY <2>2, <2>3, <2>4
    <3>3. i \in Mounted(mnt)
      BY <2>2, <3>2, TreeParents
    <3> QED
      BY <2>1, <3>1, <3>3 DEF Gone, Mounted
  <2> QED
    BY <2>3, <2>4
<1> QED
  BY <1>1, HostInvariance, RootInvariance, PTL

-----------------------------------------------------------------------------
(* pivot_root.                                                             *)

(* At pivot_root the path of the image leads to the root of a mount the    *)
(* process has made; neither it nor the mount it is on is shared.          *)
LEMMA PivotPossible ==
    ASSUME HostInv, RootInv, hasMountNamespace, Confined, pc = "pivot"
    PROVE  CanPivot(mnt, root, InRootfs(mnt, <<>>))
<1> DEFINE q == Place(OldRoot, Rootfs)
           new == Top(mnt, q)
           k == 2 * HostSize + 1
<1>1. /\ Layout(mnt) /\ HostPart(mnt) /\ Quiet(mnt) /\ root = OldRoot
  BY LayoutFacts DEF RootInv, PrePivot
<1>2. /\ HostSize \in 3 .. 5 /\ Len(mnt) \in Nat /\ OldRoot = HostSize + 1
      /\ IsSeq(mnt) /\ k \in Fresh(mnt)
  BY <1>1, OwnClosed DEF HostPart, Layout, OldRoot
<1>3. InRootfs(mnt, <<>>) = new
  <2>1. OldRoot \in Old
    BY <1>2 DEF Old
  <2>2. mnt[OldRoot].root = <<>>
    BY <1>1, <2>1 DEF Layout, Skeleton
  <2> QED
    BY <1>1, <2>2, WalkToImage DEF InRootfs
<1>4. new.mount \in Fresh(mnt) /\ (new = q \/ IsRoot(mnt, new))
  BY <1>1, <1>2, TopIsFresh, TopIsRoot
<1>5. q.mount = OldRoot /\ OldRoot \notin Fresh(mnt) /\ 0 \notin Fresh(mnt)
  BY <1>2 DEF Place, Fresh
<1> HIDE DEF new
<1>6. new.mount # root /\ IsRoot(mnt, new)
  BY <1>1, <1>4, <1>5
<1>7. mnt[new.mount].parent \in Own(mnt)
  <2>1. CASE new.mount = k
    <3>1. Base(mnt).mount \in {Image, OldRoot} /\ Base(mnt).mount <= 2 * HostSize
      BY <1>2 DEF Base, Place, Old, Image
    <3>2. mnt[k].parent = Base(mnt).mount
      BY <1>1 DEF Layout, Place
    <3>3. Base(mnt).mount \in HostSize + 1 .. Len(mnt)
      BY <1>2, <3>1 DEF Fresh, Image
    <3> QED
      BY <2>1, <3>2, <3>3 DEF Own
  <2>2. CASE new.mount # k
    <3>1. mnt[new.mount].parent \in Fresh(mnt)
      BY <1>1, <1>4, <2>2 DEF Layout
    <3> QED
      BY <1>2, <3>1 DEF Fresh, Own
  <2> QED
    BY <2>1, <2>2
<1>8. new.mount \in Own(mnt)
  BY <1>2, <1>4 DEF Fresh, Own
<1>9. mnt[new.mount].group = 0 /\ mnt[mnt[new.mount].parent].group = 0
  BY <1>1, <1>7, <1>8 DEF Quiet
<1> QED
  BY <1>3, <1>6, <1>9 DEF CanPivot

(* The part of NeverRefused that is about pivot_root, whatever is mounted: *)
(* a container whose root has a recursive propagation that is not shared,  *)
(* which is the default, is never refused it.  The path of the image then  *)
(* leads to a mount point of its own, and the steps before have left       *)
(* neither it nor its parent shared.                                       *)
THEOREM PivotAllowed ==
    Spec => [](hasMountNamespace /\ Confined /\ pc = "pivot" =>
                  CanPivot(mnt, root, InRootfs(mnt, <<>>)))
<1>1. HostInv /\ RootInv =>
         (hasMountNamespace /\ Confined /\ pc = "pivot" =>
             CanPivot(mnt, root, InRootfs(mnt, <<>>)))
  BY PivotPossible
<1> QED
  BY <1>1, HostInvariance, RootInvariance, PTL

-----------------------------------------------------------------------------
(* The bind mounts.                                                        *)

(* The steps in which all the kernel may refuse is a bind mount.           *)
Binding == {"mountRootfs", "specMounts", "defaultDevices", "mountConsole"}

(* When a step has been refused: it was none of these, and a path to be    *)
(* made read-only was one that does not exist.                             *)
BindRefusedRightly ==
    /\ pc \notin Binding
    /\ pc = "readonlyPaths" => conf.readonlyPaths[next] \in conf.absent

(* MountRootfs is refused only if its propagation was unbindable.          *)
LEMMA MountRootfsRefused ==
    ASSUME HostInv, hasMountNamespace, ~AsksUnbindable, MountRootfs
    PROVE  pc' # "refused"
<1> DEFINE flag == getPropagationFlag(conf.propagation)
           first == IF flag = None THEN DefaultPropagation ELSE flag
           s1 == SetPropagation(mnt, root, first)
           up == InRootfs(s1, <<>>).mount
           s2 == SetPropagation(s1, up, [kind |-> "private", rec |-> FALSE])
           p == InRootfs(s2, <<>>)
<1>1. TableInv /\ HostPart(mnt) /\ root \in Own(mnt) /\ Free(mnt) /\ IsSeq(<<>>)
  BY NamedPaths DEF HostInv, TableInv
<1>2. HostPart(s1) /\ Len(s1) = Len(mnt) /\ Free(s1)
  <2>1. first.kind # "unbindable"
    BY FirstPropagation
  <2> HIDE DEF first
  <2> QED
    BY <1>1, <2>1, OwnPropagation
<1>3. pc' = "refused" => ~CanBind(s2, p)
  BY DEF MountRootfs, Mounts, Refused, Goto, rootfsParentMountPrivate
<1> HIDE DEF s1
<1>4. Len(mnt) \in Nat /\ up \in Own(s1)
  BY <1>1, <1>2, OwnClosed, Lookups
<1> HIDE DEF up
<1>5. HostPart(s2) /\ Len(s2) = Len(mnt) /\ Free(s2)
  BY <1>2, <1>4, OwnPropagation
<1> HIDE DEF s2
<1>6. p.mount \in Own(s2)
  BY <1>1, <1>4, <1>5, Lookups
<1>7. p.mount \in 1 .. Len(s2)
  BY <1>5, <1>6, OwnClosed
<1> HIDE DEF p
<1>8. CanBind(s2, p)
  BY <1>5, <1>7 DEF CanBind, Free
<1> QED
  BY <1>3, <1>8

(* A place the process looks up can be bound.                              *)
LEMMA LookupsBind ==
    ASSUME HostInv, hasMountNamespace, ~AsksUnbindable, NEW path, IsSeq(path)
    PROVE  CanBind(mnt, At(path)) /\ CanBind(mnt, InRootfs(mnt, path))
<1>1. TableInv /\ HostPart(mnt) /\ Free(mnt) /\ Len(mnt) >= Len(mnt)
  BY OwnClosed DEF HostInv, TableInv
<1>2. At(path).mount \in Own(mnt) /\ InRootfs(mnt, path).mount \in Own(mnt)
  BY <1>1, Lookups DEF At
<1>3. Own(mnt) \in SUBSET (1 .. Len(mnt))
  BY <1>1, OwnClosed
<1> QED
  BY <1>1, <1>2, <1>3 DEF CanBind, Free

(* What a step that is refused may have been.                              *)
LEMMA BindRefusals ==
    ASSUME HostInv, Moves, hasMountNamespace, ~AsksUnbindable, pc' = "refused"
    PROVE  BindRefusedRightly
<1> USE DEF BindRefusedRightly
<1>1. CASE Fails \/ UNCHANGED rootfsVars
  BY <1>1 DEF Fails, rootfsVars, Binding
<1>2. CASE MountRootfs
  BY <1>2, MountRootfsRefused
<1>3. CASE MountSpecMount
  <2>1. ~CanBind(mnt, IF SpecMounts[next].type = "cgroup" THEN At(<<"cgroup">>)
                      ELSE At(SpecMounts[next].source))
    BY <1>3 DEF MountSpecMount, Refused, Goto
  <2>2. IsSeq(<<"cgroup">>) /\ IsSeq(SpecMounts[next].source)
    BY <1>3, NamedPaths, SpecMountPaths
  <2> QED
    BY <2>1, <2>2, LookupsBind
<1>4. CASE MountDefaultDevices
  <2>1. ~CanBind(mnt, At(Null)) /\ IsSeq(Null)
    BY <1>4, NamedPaths DEF MountDefaultDevices, Mounts, Goto
  <2> QED
    BY <2>1, LookupsBind
<1>5. CASE MountConsole
  <2>1. ~CanBind(mnt, InRootfs(mnt, Slave)) /\ IsSeq(Slave)
    BY <1>5, NamedPaths DEF MountConsole, Mounts, Goto
  <2> QED
    BY <2>1, LookupsBind
<1>6. CASE MountProc
  BY <1>6 DEF MountProc, Mounts, Goto, Binding
<1>7. CASE CreateDeviceNodes \/ CreateDefaultSymlinks \/ ConnectConsole \/ PivotRoot \/ DetachOldRoot
  BY <1>7 DEF CreateDeviceNodes, CreateDefaultSymlinks, ConnectConsole, PivotRoot, DetachOldRoot,
              Mounts, Refused, Goto, Binding
<1>8. CASE SetSysctl \/ MountMaskedPaths \/ SetRootfsMountPropagation \/ MountRootReadonly
  BY <1>8 DEF SetSysctl, MountMaskedPaths, EndPaths, MountPath,
              SetRootfsMountPropagation, MountRootReadonly, Mounts, Refused, Goto, Binding
<1>10. CASE MountReadonlyPaths
  <2>1. pc = "readonlyPaths" /\ next <= Len(conf.readonlyPaths)
    BY <1>10 DEF MountReadonlyPaths, EndPaths, MountPath, Refused, Goto
  <2>2. \/ conf.readonlyPaths[next] \in conf.absent
        \/ ~CanBind(mnt, At(conf.readonlyPaths[next]))
    BY <1>10, <2>1 DEF MountReadonlyPaths, EndPaths, MountPath, Goto
  <2>3. IsSeq(conf.readonlyPaths[next])
    <3>1. conf.readonlyPaths \in Seq(Seq(STRING)) /\ next \in Nat \ {0}
      BY RootFSAssumption DEF HostInv
    <3> QED
      BY <2>1, <3>1, ElementOfSeq, LenProperties, EverySeq
  <2> QED
    BY <2>1, <2>2, <2>3, LookupsBind DEF Binding
<1>9. CASE \/ Goto("createContainer", "waitStart") \/ Goto("waitStart", "sysctl")
           \/ Goto("waitStart", "startContainer") \/ Goto("startContainer", "exec")
           \/ Goto("startContainer", "exited") \/ Goto("hostname", "startContainer")
  BY <1>9 DEF Goto
<1> QED
  BY <1>1, <1>2, <1>3, <1>4, <1>5, <1>6, <1>7, <1>8, <1>9, <1>10
     DEF Moves, Mounting, SetupPrePivot, SetupPostPivot

(* The part of NeverRefused that is about the bind mounts of the image,    *)
(* the mounts of the configuration, the default devices, the console and   *)
(* the read-only paths: unless the root or a mount is asked to be          *)
(* unbindable, none is refused but that of a path that does not exist.  No *)
(* step makes an unbindable mount of its own accord, and a clone or the    *)
(* copy a propagation makes is as bindable as its original.                *)
THEOREM BindsAllowed ==
    Spec => [][hasMountNamespace /\ ~AsksUnbindable /\ pc' = "refused" => BindRefusedRightly]_vars
<1>1. HostInv /\ [Next]_vars =>
         [hasMountNamespace /\ ~AsksUnbindable /\ pc' = "refused" => BindRefusedRightly]_vars
  BY StepMoves, BindRefusals
<1> QED
  BY <1>1, HostInvariance, PTL DEF Spec

-----------------------------------------------------------------------------
(***************************************************************************)
(* Protected paths: where the container's mounts are, and what a path      *)
(* leads to.                                                               *)
(***************************************************************************)

(* The container's mounts that are still there.                            *)
Mine(ms) == Own(ms) \cap Mounted(ms)

(* They are each on an earlier one, at a path of it.                       *)
InPlace(ms, X) ==
    \A i \in X : ms[i].parent \in 0 .. i - 1 /\ IsSeq(ms[i].root) /\ IsSeq(ms[i].at)

(* A table the process, whose root is that of mount r, looks paths up in.  *)
Placed(ms, r) == HostPart(ms) /\ InPlace(ms, Mine(ms)) /\ r \in Mine(ms)

(* The facts about lookups apply to it.                                    *)
LEMMA PlacedRises ==
    ASSUME NEW ms, NEW r, Placed(ms, r)
    PROVE  /\ Rising(ms, Mine(ms)) /\ IsSeq(ms) /\ Records(ms) /\ HostPart(ms)
           /\ Len(ms) \in Nat /\ r \in Mine(ms) /\ Mine(ms) \in SUBSET (1 .. Len(ms))
           /\ \A i \in Mine(ms) : i \in Own(ms) /\ IsSeq(ms[i].at) /\ ms[i].ns # "none"
<1>1. /\ HostPart(ms) /\ IsSeq(ms) /\ Records(ms) /\ r \in Mine(ms)
      /\ InPlace(ms, Mine(ms))
  BY DEF Placed, HostPart
<1>2. /\ HostSize \in 3 .. 5 /\ Len(ms) \in Nat /\ DOMAIN ms = 1 .. Len(ms)
      /\ Own(ms) \in SUBSET (1 .. Len(ms)) /\ Closed(ms, Own(ms))
  BY <1>1, OwnClosed
<1>3. Mine(ms) \in SUBSET (1 .. Len(ms)) /\ Mine(ms) \subseteq Mounted(ms)
  BY <1>2 DEF Mine
<1>4. Closed(ms, Mine(ms))
  BY <1>2 DEF Closed, Mine
<1>5. Ordered(ms, Mine(ms))
  BY <1>1, <1>3 DEF Ordered, InPlace
<1>6. ASSUME NEW i \in Mounted(ms)
      PROVE  ms[i].parent \in 0 .. Len(ms)
  <2>1. i \in 1 .. Len(ms)
    BY <1>2 DEF Mounted
  <2>2. CASE i \in Mine(ms)
    BY <1>1, <1>2, <2>1, <2>2 DEF InPlace
  <2>3. CASE i \notin Mine(ms)
    <3>1. i \in 1 .. HostSize
      BY <1>2, <2>1, <2>3 DEF Mine, Own
    <3>2. Host(conf)[i].parent \in 0 .. i - 1
      BY <3>1, HostFacts DEF HostSize
    <3>3. ms[i].parent \in 0 .. i - 1
      BY <1>1, <3>1, <3>2 DEF HostPart
    <3> QED
      BY <1>2, <2>1, <3>3
  <2> QED
    BY <2>2, <2>3
<1>7. ASSUME NEW i \in Mine(ms)
      PROVE  i \in Own(ms) /\ IsSeq(ms[i].at) /\ ms[i].ns # "none"
  BY <1>1 DEF Mine, InPlace, Mounted
<1>8. Rising(ms, Mine(ms))
  BY <1>1, <1>3, <1>4, <1>5, <1>6 DEF Rising
<1> QED
  BY <1>1, <1>2, <1>3, <1>7, <1>8

(* A path leads to a mount of the container.                               *)
LEMMA PlacedWalk ==
    ASSUME NEW ms, NEW r, Placed(ms, r), NEW path, IsSeq(path)
    PROVE  /\ IsGood(ms, Mine(ms), Walk(ms, r, path))
           /\ IsGood(ms, Mine(ms), Walk(ms, r, Rootfs \o path))
<1>1. Rising(ms, Mine(ms)) /\ r \in Mine(ms)
  BY PlacedRises
<1>2. Len(path) \in Nat
  BY SeqFacts
<1>3. IsSeq(Rootfs \o path)
  BY NamedPaths, SeqConcat
<1>4. Len(Rootfs \o path) \in Nat
  BY <1>3, SeqFacts
<1> QED
  BY <1>1, <1>2, <1>4, WalkEnds

(* Mounts stay in place when some are added in place.                      *)
LEMMA PlacedGrows ==
    ASSUME NEW ms, NEW r, Placed(ms, r), NEW to, IsSeq(to.dentry), NEW tree, NEW new,
           Grows(ms, Mine(ms), to, tree, new), HostPart(new),
           \A i \in 2 .. Len(tree) : IsSeq(tree[i].at)
    PROVE  Placed(new, r)
<1>1. /\ Len(ms) \in Nat /\ r \in Mine(ms) /\ Mine(ms) \in SUBSET (1 .. Len(ms))
      /\ \A i \in Mine(ms) : i \in Own(ms) /\ IsSeq(ms[i].at) /\ ms[i].ns # "none"
      /\ HostPart(ms) /\ IsSeq(ms)
  BY PlacedRises
<1> DEFINE G == Grown(ms, Mine(ms), new)
<1>2. /\ to.mount \in Mine(ms) /\ IsSeq(tree) /\ Len(new) = Len(ms) + Len(tree)
      /\ Rising(new, G) /\ \A i \in 1 .. Len(ms) : new[i] = ms[i]
  BY DEF Grows, IsPlace
<1>3. ASSUME NEW i \in 1 .. Len(tree)
      PROVE  /\ new[Len(ms) + i].ns = ms[to.mount].ns
             /\ i = 1 => new[Len(ms) + i].at = to.dentry
             /\ i # 1 => new[Len(ms) + i].at = tree[i].at
  BY <1>3 DEF Grows
<1>4. Len(tree) \in Nat /\ Len(new) \in Nat /\ DOMAIN new = 1 .. Len(new) /\ DOMAIN ms = 1 .. Len(ms)
  BY <1>1, <1>2, SeqFacts DEF HostPart
<1>5. HostSize \in 3 .. 5 /\ HostSize < Len(ms)
  BY <1>1, OwnClosed DEF HostPart
<1>6. ASSUME NEW i \in Len(ms) + 1 .. Len(new)
      PROVE  i \in Mine(new) /\ IsSeq(new[i].at)
  <2> DEFINE k == i - Len(ms)
  <2>1. k \in 1 .. Len(tree) /\ Len(ms) + k = i
    BY <1>1, <1>2, <1>4
  <2> HIDE DEF k
  <2>2. new[i].ns # "none"
    BY <1>1, <1>2, <1>3, <2>1
  <2>3. k = 1 \/ k \in 2 .. Len(tree)
    BY <1>4, <2>1
  <2>4. IsSeq(new[i].at)
    BY <1>3, <2>1, <2>3
  <2>5. i \in Own(new) /\ i \in DOMAIN new
    BY <1>1, <1>4, <1>5 DEF Own
  <2> QED
    BY <2>2, <2>4, <2>5 DEF Mine, Mounted
<1>7. ASSUME NEW i \in Mine(ms)
      PROVE  i \in Mine(new) /\ IsSeq(new[i].at)
  <2>1. i \in 1 .. Len(ms) /\ i \in 1 .. Len(new) /\ new[i] = ms[i]
    BY <1>1, <1>2, <1>4
  <2>2. i \in Own(new)
    BY <1>1, <1>4, <1>5, <2>1 DEF Own
  <2> QED
    BY <1>1, <1>4, <2>1, <2>2 DEF Mine, Mounted
<1>8. ASSUME NEW i \in Mine(new)
      PROVE  i \in G /\ IsSeq(new[i].at)
  <2>1. i \in Own(new) /\ i \in 1 .. Len(new) /\ new[i].ns # "none"
    BY <1>4 DEF Mine, Mounted
  <2>2. CASE i \in Len(ms) + 1 .. Len(new)
    BY <1>6, <2>2 DEF Grown
  <2>3. CASE i \in 1 .. Len(ms)
    <3>1. i \in Mine(ms)
      BY <1>1, <1>2, <1>4, <1>5, <2>1, <2>3 DEF Mine, Mounted, Own
    <3> QED
      BY <1>7, <3>1 DEF Grown
  <2> QED
    BY <1>1, <1>4, <2>1, <2>2, <2>3
<1> HIDE DEF G
<1>9. InPlace(new, Mine(new))
  BY <1>2, <1>8 DEF InPlace, Rising, Ordered
<1> QED
  BY <1>1, <1>7, <1>9 DEF Placed

(* They do if none of them moves.                                          *)
LEMMA PlacedStays ==
    ASSUME NEW ms, NEW r, Placed(ms, r), NEW new, HostPart(new), SamePlaces(ms, new)
    PROVE  Placed(new, r) /\ Mine(new) = Mine(ms) /\ SameWays(ms, new)
<1>1. HostPart(ms) /\ InPlace(ms, Mine(ms)) /\ r \in Mine(ms)
  BY DEF Placed
<1>2. /\ Len(ms) \in Nat /\ DOMAIN ms = 1 .. Len(ms) /\ DOMAIN new = 1 .. Len(ms)
      /\ IsSeq(new) /\ Len(new) = Len(ms) /\ Mine(ms) \in SUBSET (1 .. Len(ms))
  <2>1. Mine(ms) \in SUBSET (1 .. Len(ms))
    BY PlacedRises
  <2> QED
    BY <1>1, <2>1, OwnClosed DEF SamePlaces, HostPart
<1>3. Own(new) = Own(ms) /\ Mounted(new) = Mounted(ms)
  BY <1>2 DEF Own, Mounted, SamePlaces
<1>4. Mine(new) = Mine(ms)
  BY <1>3 DEF Mine
<1>5. InPlace(new, Mine(ms))
  BY <1>1, <1>2 DEF InPlace, SamePlaces
<1> QED
  BY <1>1, <1>2, <1>4, <1>5 DEF Placed, SameWays, SamePlaces

(* A new file system is mounted in place.                                  *)
LEMMA PlacedNew ==
    ASSUME NEW ms, NEW r, Placed(ms, r), Quiet(ms), NEW to, IsGood(ms, Mine(ms), to),
           NEW fs, NEW ro
    PROVE  Placed(Attach(ms, to, <<NewMount(fs, ro)>>), r)
<1> DEFINE m == NewMount(fs, ro)
           tree == <<m>>
           new == Attach(ms, to, tree)
<1>1. /\ Rising(ms, Mine(ms)) /\ HostPart(ms)
      /\ \A i \in Mine(ms) : i \in Own(ms)
  BY PlacedRises
<1>2. IsPlace(Mine(ms), to) /\ to.mount \in Mine(ms) /\ IsSeq(to.dentry)
  BY DEF IsGood, IsPlace
<1>3. to.mount \in Own(ms) /\ ms[to.mount].group = 0
  BY <1>1, <1>2 DEF Quiet
<1>4. DOMAIN m = Fields /\ m.root = <<>>
  BY DEF NewMount, Fields
<1>5. IsSeq(<<>>)
  BY NamedPaths
<1> HIDE DEF m
<1>6. tree \in Seq({m}) /\ Len(tree) = 1 /\ tree[1] = m
  OBVIOUS
<1>7. IsSeq(tree)
  BY <1>6, EverySeq
<1> HIDE DEF tree
<1>8. /\ Records(tree) /\ Len(tree) >= 1
      /\ \A i \in 1 .. Len(tree) : IsSeq(tree[i].root)
      /\ \A i \in 2 .. Len(tree) : tree[i].parent \in 1 .. i - 1
  BY <1>4, <1>5, <1>6 DEF Records
<1>9. Grows(ms, Mine(ms), to, tree, new)
  BY <1>1, <1>2, <1>3, <1>7, <1>8, AttachGrows
<1>10. HostPart(new)
  <2>1. HostPart(Attach(ms, to, <<NewMount(fs, ro)>>))
    BY <1>1, <1>3, AttachNewMount
  <2> QED
    BY <2>1 DEF tree, m
<1>11. \A i \in 2 .. Len(tree) : IsSeq(tree[i].at)
  BY <1>6
<1> HIDE DEF new
<1>12. Placed(new, r)
  BY <1>2, <1>9, <1>10, <1>11, PlacedGrows
<1> QED
  BY <1>12 DEF new, tree, m

(* So are clones.                                                          *)
LEMMA PlacedBind ==
    ASSUME NEW ms, NEW r, Placed(ms, r), Quiet(ms), NEW from, IsGood(ms, Mine(ms), from),
           NEW to, IsGood(ms, Mine(ms), to), NEW rec
    PROVE  Placed(Bind(ms, from, to, rec), r)
<1> DEFINE tree == Clone(ms, from, rec)
           new == Bind(ms, from, to, rec)
<1>1. /\ Rising(ms, Mine(ms)) /\ HostPart(ms) /\ Records(ms)
      /\ \A i \in Mine(ms) : i \in Own(ms) /\ IsSeq(ms[i].at)
  BY PlacedRises
<1>2. /\ IsPlace(Mine(ms), to) /\ to.mount \in Mine(ms) /\ IsSeq(to.dentry)
      /\ IsPlace(Mine(ms), from) /\ from.mount \in Mine(ms) /\ IsSeq(from.dentry)
  BY DEF IsGood, IsPlace
<1>3. to.mount \in Own(ms) /\ from.mount \in Own(ms) /\ ms[to.mount].group = 0
  BY <1>1, <1>2 DEF Quiet
<1>4. Binds(ms, Mine(ms), from, to, tree, new)
  BY <1>1, <1>2, <1>3, BindGrows
<1>5. HostPart(new)
  BY <1>1, <1>3, OwnBind
<1> HIDE DEF tree, new
<1>6. Grows(ms, Mine(ms), to, tree, new)
  BY <1>4 DEF Binds
<1>7. \A i \in 2 .. Len(tree) : IsSeq(tree[i].at)
  BY <1>1, <1>4 DEF Binds
<1>8. Placed(new, r)
  BY <1>2, <1>5, <1>6, <1>7, PlacedGrows
<1> QED
  BY <1>8 DEF new


-----------------------------------------------------------------------------
(* What each step makes of the places.                                     *)

(* The mounts a new mount namespace begins with are in place.              *)
LEMMA ClonePlaced == Placed(CloneNamespace(Host(conf)), OldRoot)
<1> DEFINE ms == CloneNamespace(Host(conf))
<1>1. /\ HostPart(ms) /\ Len(ms) = 2 * HostSize /\ OldRoot \in Own(ms)
      /\ \A i \in Own(ms) :
            /\ ms[i].ns = "container" /\ IsSeq(ms[i].at)
            /\ i # OldRoot => ms[i].parent \in HostSize + 1 .. i - 1
      /\ Skeleton(ms)
  BY CloneNamespaceFacts
<1> HIDE DEF ms
<1>2. /\ HostSize \in 3 .. 5 /\ Len(ms) \in Nat /\ DOMAIN ms = 1 .. Len(ms)
      /\ Own(ms) \in SUBSET (1 .. Len(ms))
  BY <1>1, OwnClosed
<1>3. Own(ms) = Old
  BY <1>1, <1>2 DEF Own, Old, OldRoot
<1>4. Mine(ms) \subseteq Own(ms) /\ OldRoot \in Mine(ms)
  BY <1>1, <1>2 DEF Mine, Mounted
<1>5. IsSeq(<<>>)
  BY NamedPaths
<1>6. ASSUME NEW i \in Own(ms)
      PROVE  ms[i].parent \in 0 .. i - 1 /\ IsSeq(ms[i].root)
  <2>1. i \in Old /\ i \in 1 .. Len(ms)
    BY <1>2, <1>3
  <2>2. ms[i].root = <<>> /\ (i = OldRoot => ms[i].parent = 0)
    BY <1>1, <2>1 DEF Skeleton
  <2>3. ms[i].parent \in 0 .. i - 1
    BY <1>1, <1>2, <2>1, <2>2
  <2> QED
    BY <1>5, <2>2, <2>3
<1>7. Placed(ms, OldRoot)
  BY <1>1, <1>4, <1>6 DEF Placed, InPlace
<1> QED
  BY <1>7 DEF ms

(* A change of propagation moves none.                                     *)
LEMMA PlacedPropagation ==
    ASSUME NEW ms, NEW r, Placed(ms, r), NEW m \in Own(ms), NEW flag
    PROVE  Placed(SetPropagation(ms, m, flag), r)
<1>1. HostPart(ms) /\ IsSeq(ms) /\ Records(ms)
  BY PlacedRises
<1>2. HostPart(SetPropagation(ms, m, flag))
  BY <1>1, OwnPropagation
<1>3. SamePlaces(ms, SetPropagation(ms, m, flag))
  BY <1>1, PropagationPlaces
<1> QED
  BY <1>2, <1>3, PlacedStays

(* Nor does making mounts read-only.                                       *)
LEMMA PlacedReadonly ==
    ASSUME NEW ms, NEW r, Placed(ms, r), NEW U \in SUBSET Own(ms)
    PROVE  Placed(SetReadonly(ms, U), r)
<1>1. HostPart(ms) /\ IsSeq(ms) /\ Records(ms)
  BY PlacedRises
<1>2. HostPart(SetReadonly(ms, U))
  BY <1>1, OwnReadonly
<1>3. SamePlaces(ms, SetReadonly(ms, U))
  BY <1>1, ReadonlyPlaces
<1> QED
  BY <1>2, <1>3, PlacedStays

(* What a place the process looks up is.                                   *)
LEMMA PlacedFacts ==
    ASSUME NEW ms, Placed(ms, root), NEW path, IsSeq(path)
    PROVE  /\ IsGood(ms, Mine(ms), InRootfs(ms, path)) /\ InRootfs(ms, path).mount \in Own(ms)
           /\ IsGood(ms, Mine(ms), Walk(ms, root, path)) /\ Walk(ms, root, path).mount \in Own(ms)
<1>1. /\ IsGood(ms, Mine(ms), InRootfs(ms, path))
      /\ IsGood(ms, Mine(ms), Walk(ms, root, path))
  BY PlacedWalk DEF InRootfs
<1>2. \A i \in Mine(ms) : i \in Own(ms)
  BY DEF Mine
<1> QED
  BY <1>1, <1>2 DEF IsGood, IsPlace

(* MountRootfs.                                                            *)
LEMMA MountRootfsPlaced ==
    ASSUME HostInv, hasMountNamespace, Confined, MountRootfs, pc' = "mountProc"
    PROVE  Placed(mnt', root)
<1> DEFINE flag == getPropagationFlag(conf.propagation)
           first == IF flag = None THEN DefaultPropagation ELSE flag
           s1 == SetPropagation(mnt, root, first)
           up == InRootfs(s1, <<>>).mount
           second == [kind |-> "private", rec |-> FALSE]
           s2 == SetPropagation(s1, up, second)
           p == InRootfs(s2, <<>>)
           s3 == Bind(s2, p, p, TRUE)
<1>1. mnt' = s3
  BY DEF MountRootfs, Mounts, Refused, Goto, rootfsParentMountPrivate
<1>2. /\ TableInv /\ HostPart(mnt) /\ root \in Own(mnt) /\ root = OldRoot
      /\ mnt = CloneNamespace(Host(conf)) /\ IsSeq(<<>>)
  BY NamedPaths DEF HostInv, TableInv, MountRootfs, Mounts, Refused, Goto, PrePivot
<1>3. first.rec = TRUE /\ first.kind # "shared"
  BY FirstPropagation
<1> HIDE DEF first
<1>4. Placed(mnt, root)
  BY <1>2, ClonePlaced
<1>5. Placed(s1, root) /\ Quiet(s1)
  <2>1. Placed(s1, root)
    BY <1>2, <1>4, PlacedPropagation
  <2>2. Quiet(s1)
    BY <1>2, <1>3, PropagationReachesAll
  <2> QED
    BY <2>1, <2>2
<1> HIDE DEF s1
<1>6. up \in Own(s1) /\ HostPart(s1)
  <2>1. HostPart(s1)
    BY <1>5 DEF Placed
  <2> QED
    BY <1>2, <1>5, <2>1, PlacedFacts
<1> HIDE DEF up
<1>7. second.kind # "shared"
  OBVIOUS
<1> HIDE DEF second
<1>8. Placed(s2, root) /\ Quiet(s2)
  <2>1. Placed(s2, root)
    BY <1>5, <1>6, PlacedPropagation
  <2>2. Quiet(s2)
    BY <1>5, <1>6, <1>7, OwnPropagation
  <2> QED
    BY <2>1, <2>2
<1> HIDE DEF s2
<1>9. IsGood(s2, Mine(s2), p)
  BY <1>2, <1>8, PlacedFacts
<1> HIDE DEF p
<1>10. Placed(s3, root)
  BY <1>8, <1>9, PlacedBind
<1> QED
  BY <1>1, <1>10

(* MountSpecMounts.                                                        *)
LEMMA SpecMountPlaced ==
    ASSUME HostInv, hasMountNamespace, Confined, Placed(mnt, root), MountSpecMount
    PROVE  Placed(mnt', root)
<1> DEFINE m == SpecMounts[next]
           dest == InRootfs(mnt, m.dest)
           done == DoMount(mnt, m, dest)
<1>1. Quiet(mnt)
  BY DEF HostInv, TableInv, MountSpecMount, Refused, Goto, Ended
<1>2. IsSeq(m.dest) /\ IsSeq(m.source) /\ IsSeq(<<"cgroup">>)
  BY SpecMountPaths, NamedPaths
<1> HIDE DEF m
<1>3. /\ IsGood(mnt, Mine(mnt), dest) /\ IsGood(mnt, Mine(mnt), At(m.source))
      /\ IsGood(mnt, Mine(mnt), At(<<"cgroup">>))
  BY <1>2, PlacedFacts DEF At
<1> HIDE DEF dest
<1>4. Placed(done, root)
  <2>1. CASE "BIND" \in Flags(m.options)
    BY <1>1, <1>3, <2>1, PlacedBind DEF DoMount
  <2>2. CASE ~("BIND" \in Flags(m.options))
    BY <1>1, <1>3, <2>2, PlacedNew DEF DoMount
  <2> QED
    BY <2>1, <2>2
<1> HIDE DEF done
<1>5. Placed(ApplyOptions(done, m), root)
  <2> DEFINE d == InRootfs(done, m.dest).mount
             flag == MountPropagation(m.options)
             set == IF flag = None THEN done ELSE SetPropagation(done, d, flag)
             final == IF "rro" \in Range(m.options) THEN SetReadonly(set, Tree(set, d)) ELSE set
  <2>1. d \in Own(done) /\ HostPart(done)
    BY <1>2, <1>4, PlacedFacts DEF Placed
  <2> HIDE DEF d, flag
  <2>2. Placed(set, root)
    BY <1>4, <2>1, PlacedPropagation
  <2>3. d \in Own(set)
    <3>1. Len(SetPropagation(done, d, flag)) = Len(done)
      BY <2>1, OwnPropagation
    <3> QED
      BY <2>1, <3>1 DEF Own
  <2> HIDE DEF set
  <2>4. Placed(final, root)
    <3>1. /\ Len(set) \in Nat /\ Closed(set, Own(set))
      BY <2>2, OwnClosed DEF Placed
    <3>2. Tree(set, d) \subseteq Own(set)
      BY <2>3, <3>1, TreeWithin
    <3> QED
      BY <2>2, <3>2, PlacedReadonly
  <2> HIDE DEF final
  <2> QED
    BY <2>4 DEF ApplyOptions, final, set, flag, d
<1>6. Placed(Bind(mnt, At(<<"cgroup">>), dest, TRUE), root)
  BY <1>1, <1>3, PlacedBind
<1> QED
  BY <1>5, <1>6 DEF MountSpecMount, Refused, m, dest, done

(* The mounts made at a step of their own.                                 *)
LEMMA OneMountPlaced ==
    ASSUME HostInv, hasMountNamespace, Confined, Placed(mnt, root),
           \/ MountProc \/ MountDefaultDevices \/ MountConsole
           \/ SetRootfsMountPropagation \/ MountRootReadonly
    PROVE  Placed(mnt', root)
<1>1. Quiet(mnt)
  BY DEF HostInv, TableInv, MountProc, MountDefaultDevices, MountConsole,
         SetRootfsMountPropagation, MountRootReadonly, Mounts, Refused, Goto, Ended
<1>2. IsSeq(<<"proc">>) /\ IsSeq(Null) /\ IsSeq(Slave) /\ IsSeq(Console)
  BY NamedPaths
<1>3. root \in Own(mnt)
  BY PlacedRises
<1>4. CASE MountProc
  <2>1. IsGood(mnt, Mine(mnt), InRootfs(mnt, <<"proc">>))
    BY <1>2, PlacedFacts
  <2>2. Placed(Attach(mnt, InRootfs(mnt, <<"proc">>), <<NewMount("proc", FALSE)>>), root)
    BY <1>1, <2>1, PlacedNew
  <2> QED
    BY <1>4, <2>2 DEF MountProc, Mounts, Refused
<1>5. CASE MountDefaultDevices
  <2> DEFINE new == Bind(mnt, At(Null), InRootfs(mnt, Null), FALSE)
  <2>1. IsGood(mnt, Mine(mnt), At(Null)) /\ IsGood(mnt, Mine(mnt), InRootfs(mnt, Null))
    BY <1>2, PlacedFacts DEF At
  <2>2. Placed(new, root)
    BY <1>1, <2>1, PlacedBind
  <2>3. mnt' \in {mnt, new}
    BY <1>5 DEF MountDefaultDevices, Mounts, Refused
  <2> HIDE DEF new
  <2> QED
    BY <2>2, <2>3
<1>6. CASE MountConsole
  <2> DEFINE new == Bind(mnt, InRootfs(mnt, Slave), InRootfs(mnt, Console), FALSE)
  <2>1. /\ IsGood(mnt, Mine(mnt), InRootfs(mnt, Slave))
        /\ IsGood(mnt, Mine(mnt), InRootfs(mnt, Console))
    BY <1>2, PlacedFacts
  <2>2. Placed(new, root)
    BY <1>1, <2>1, PlacedBind
  <2>3. mnt' \in {mnt, new}
    BY <1>6 DEF MountConsole, Mounts, Refused
  <2> HIDE DEF new
  <2> QED
    BY <2>2, <2>3
<1>7. CASE SetRootfsMountPropagation
  <2>1. mnt' = mnt \/ (\E flag : mnt' = SetPropagation(mnt, root, flag))
    BY <1>7 DEF SetRootfsMountPropagation, Mounts, Refused
  <2> QED
    BY <1>3, <2>1, PlacedPropagation
<1>8. CASE MountRootReadonly
  <2>1. mnt' = mnt \/ mnt' = SetReadonly(mnt, {root})
    BY <1>8 DEF MountRootReadonly, Mounts, Refused
  <2>2. {root} \in SUBSET Own(mnt)
    BY <1>3
  <2> QED
    BY <2>1, <2>2, PlacedReadonly
<1> QED
  BY <1>4, <1>5, <1>6, <1>7, <1>8


(* The paths to protect are sequences.                                     *)
LEMMA ListedPaths ==
    ASSUME HostInv
    PROVE  /\ Len(conf.masked) \in Nat /\ Len(conf.readonlyPaths) \in Nat /\ next \in Nat \ {0}
           /\ \A j \in 1 .. Len(conf.masked) : IsSeq(conf.masked[j])
           /\ \A j \in 1 .. Len(conf.readonlyPaths) : IsSeq(conf.readonlyPaths[j])
<1>1. /\ conf.masked \in Seq(Seq(STRING)) /\ conf.readonlyPaths \in Seq(Seq(STRING))
      /\ next \in Nat \ {0}
  BY RootFSAssumption DEF HostInv
<1>2. Len(conf.masked) \in Nat /\ Len(conf.readonlyPaths) \in Nat
  BY <1>1
<1>3. \A j \in 1 .. Len(conf.masked) : IsSeq(conf.masked[j])
  BY <1>1, <1>2, ElementOfSeq, EverySeq
<1>4. \A j \in 1 .. Len(conf.readonlyPaths) : IsSeq(conf.readonlyPaths[j])
  BY <1>1, <1>2, ElementOfSeq, EverySeq
<1> QED
  BY <1>1, <1>2, <1>3, <1>4

(* What covers a path is in place.                                         *)
LEMMA MaskPlaced ==
    ASSUME NEW ms, Placed(ms, root), Quiet(ms), NEW path, IsSeq(path)
    PROVE  Placed(Mask(ms, path), root)
<1> DEFINE p == Walk(ms, root, path)
           null == Walk(ms, root, Null)
<1>1. IsGood(ms, Mine(ms), p) /\ IsGood(ms, Mine(ms), null)
  BY NamedPaths, PlacedFacts
<1>2. \/ Mask(ms, path) = ms
      \/ Mask(ms, path) = Attach(ms, p, <<NewMount("mask", TRUE)>>)
      \/ Mask(ms, path) = Bind(ms, null, p, TRUE)
  BY DEF Mask
<1> HIDE DEF p, null
<1>3. Placed(Attach(ms, p, <<NewMount("mask", TRUE)>>), root)
  BY <1>1, PlacedNew
<1>4. Placed(Bind(ms, null, p, TRUE), root)
  BY <1>1, PlacedBind
<1> QED
  BY <1>2, <1>3, <1>4

(* So is what makes it read-only.                                          *)
LEMMA ReadonlyPathPlaced ==
    ASSUME NEW ms, Placed(ms, root), Quiet(ms), NEW path, IsSeq(path)
    PROVE  LET bound == Bind(ms, Walk(ms, root, path), Walk(ms, root, path), TRUE)
           IN  /\ Placed(bound, root) /\ Walk(bound, root, path).mount \in Own(bound)
               /\ Placed(ReadonlyPath(ms, path), root)
<1> DEFINE p == Walk(ms, root, path)
           bound == Bind(ms, p, p, TRUE)
           U == {Walk(bound, root, path).mount}
<1>1. IsGood(ms, Mine(ms), p)
  BY PlacedFacts
<1>2. ReadonlyPath(ms, path) = SetReadonly(bound, U)
  BY DEF ReadonlyPath
<1> HIDE DEF p
<1>3. Placed(bound, root)
  BY <1>1, PlacedBind
<1> HIDE DEF bound
<1>4. Walk(bound, root, path).mount \in Own(bound)
  BY <1>3, PlacedFacts
<1>5. U \in SUBSET Own(bound)
  BY <1>4
<1> HIDE DEF U
<1>6. Placed(SetReadonly(bound, U), root)
  BY <1>3, <1>5, PlacedReadonly
<1> QED
  BY <1>2, <1>3, <1>4, <1>6 DEF bound, p

(* The steps that protect a path.                                          *)
LEMMA PathsPlaced ==
    ASSUME HostInv, hasMountNamespace, Confined, Placed(mnt, root),
           MountMaskedPaths \/ MountReadonlyPaths
    PROVE  Placed(mnt', root)
<1>1. Quiet(mnt)
  BY DEF HostInv, TableInv, MountMaskedPaths, MountReadonlyPaths, EndPaths, MountPath,
         Refused, Goto, Ended
<1>2. CASE MountMaskedPaths
  <2>1. \/ mnt' = mnt
        \/ next <= Len(conf.masked) /\ mnt' = Mask(mnt, conf.masked[next])
    BY <1>2 DEF MountMaskedPaths, EndPaths, MountPath
  <2>2. next <= Len(conf.masked) => IsSeq(conf.masked[next])
    BY ListedPaths
  <2> QED
    BY <1>1, <2>1, <2>2, MaskPlaced
<1>3. CASE MountReadonlyPaths
  <2>1. \/ mnt' = mnt
        \/ next <= Len(conf.readonlyPaths) /\ mnt' = ReadonlyPath(mnt, conf.readonlyPaths[next])
    BY <1>3 DEF MountReadonlyPaths, EndPaths, MountPath, Refused
  <2>2. next <= Len(conf.readonlyPaths) => IsSeq(conf.readonlyPaths[next])
    BY ListedPaths
  <2> QED
    BY <1>1, <2>1, <2>2, ReadonlyPathPlaced
<1> QED
  BY <1>2, <1>3

-----------------------------------------------------------------------------
(* The pivot.                                                              *)

(* Between the two halves of the pivot only the old root is out of place:  *)
(* it is on the new one, which is on nothing.                              *)
Pivoting(ms, r) ==
    /\ r \in Mine(ms) \ {OldRoot} /\ ms[r].parent = 0
    /\ InPlace(ms, Mine(ms) \ {OldRoot})

LEMMA PivotPlaced ==
    ASSUME HostInv, hasMountNamespace, Confined, Placed(mnt, root), PivotRoot, pc' = "detach"
    PROVE  Pivoting(mnt', root')
<1> DEFINE n == InRootfs(mnt, <<>>).mount
<1>1. /\ mnt' = Pivot(mnt, root, n) /\ root' = n /\ n # root
  BY DEF PivotRoot, Refused, Goto, CanPivot
<1>2. /\ HostPart(mnt) /\ root = OldRoot /\ IsSeq(mnt) /\ Records(mnt)
      /\ InPlace(mnt, Mine(mnt)) /\ root \in Mine(mnt) /\ Mine(mnt) \in SUBSET (1 .. Len(mnt))
  BY PlacedRises DEF Placed, HostInv, TableInv, PivotRoot, Refused, Goto, PrePivot
<1>3. n \in Mine(mnt)
  <2>1. IsGood(mnt, Mine(mnt), InRootfs(mnt, <<>>))
    BY NamedPaths, PlacedFacts
  <2> QED
    BY <2>1 DEF IsGood, IsPlace
<1> HIDE DEF n
<1>4. Len(mnt) \in Nat /\ DOMAIN mnt = 1 .. Len(mnt)
  BY <1>2, SeqFacts
<1>5. /\ DOMAIN mnt' = DOMAIN mnt /\ Len(mnt') = Len(mnt)
      /\ \A i \in DOMAIN mnt \ {n, OldRoot} : mnt'[i] = mnt[i]
  BY <1>1, <1>2, <1>4 DEF Pivot
<1>6. mnt'[n] = [mnt[n] EXCEPT !.parent = 0]
  BY <1>1, <1>2, <1>3, <1>4 DEF Pivot
<1>7. DOMAIN mnt[n] = Fields
  BY <1>2, <1>3 DEF Records
<1>8. /\ mnt'[n].parent = 0 /\ mnt'[n].ns = mnt[n].ns
      /\ mnt'[n].at = mnt[n].at /\ mnt'[n].root = mnt[n].root
  BY <1>6, <1>7 DEF Fields
<1>9. Own(mnt') = Own(mnt)
  BY <1>5 DEF Own
<1>10. ASSUME NEW i \in Mine(mnt') \ {OldRoot}
       PROVE  /\ i \in Mine(mnt) /\ mnt'[i].parent \in 0 .. i - 1
              /\ IsSeq(mnt'[i].root) /\ IsSeq(mnt'[i].at)
  <2>1. i \in Own(mnt) /\ i \in DOMAIN mnt /\ mnt'[i].ns # "none"
    BY <1>5, <1>9 DEF Mine, Mounted
  <2>2. mnt'[i].ns = mnt[i].ns /\ mnt'[i].at = mnt[i].at /\ mnt'[i].root = mnt[i].root
    BY <1>5, <1>8, <2>1
  <2>3. i \in Mine(mnt)
    BY <2>1, <2>2 DEF Mine, Mounted
  <2>4. i \in 1 .. Len(mnt)
    BY <1>4, <2>1
  <2>5. mnt'[i].parent \in 0 .. i - 1
    BY <1>2, <1>5, <1>8, <2>1, <2>3, <2>4 DEF InPlace
  <2> QED
    BY <1>2, <2>2, <2>3, <2>5 DEF InPlace
<1>11. n \in Mine(mnt')
  BY <1>3, <1>5, <1>8, <1>9 DEF Mine, Mounted
<1> QED
  BY <1>1, <1>2, <1>8, <1>10, <1>11 DEF Pivoting, InPlace

(* Detaching leaves the new root, and what is left is in place.            *)
LEMMA DetachPlaced ==
    ASSUME HostInv, RootInv, hasMountNamespace, Confined, Pivoting(mnt, root), DetachOldRoot,
           pc' = "createContainer"
    PROVE  Placed(mnt', root)
<1> DEFINE T == Tree(mnt, OldRoot)
           s == OldRootSlave
           t == DetachedMount(s)
           U == Tree(s, t)
           new == Forget(s, U)
<1>1. pc = "detach" /\ mnt' = Detach(s, t)
  BY DEF DetachOldRoot, Mounts, Refused, Goto
<1>2. /\ HostPart(mnt) /\ mnt[OldRoot].parent \in Own(mnt)
      /\ mnt[mnt[OldRoot].parent].group = 0
      /\ root \in Fresh(mnt) /\ Pivoted(mnt)
  BY <1>1 DEF HostInv, TableInv, RootInv
<1>3. /\ OldRoot \in Own(mnt) /\ Len(mnt) \in Nat /\ DOMAIN mnt = 1 .. Len(mnt)
      /\ Own(mnt) \in SUBSET (1 .. Len(mnt)) /\ Closed(mnt, Own(mnt))
      /\ HostSize \in 3 .. 5
  BY <1>2, OwnClosed DEF OldRoot, Own, HostPart
<1>4. s = SetKind(mnt, T, "slave") /\ t = Top(s, RootOf(s, OldRoot)).mount
  BY DEF OldRootSlave, SetPropagation, DetachedMount
<1> HIDE DEF t
<1>5. HostPart(s) /\ SamePlaces(mnt, s)
  BY <1>2, <1>3, OwnPropagation, PropagationPlaces DEF OldRootSlave, HostPart
<1> HIDE DEF s, T
<1>6. mnt' = new /\ U \subseteq T
  BY <1>1, <1>2, <1>3, <1>4, DetachKeeps DEF HostPart, T
<1> HIDE DEF U
<1>7. HostPart(mnt') /\ Gone(mnt')
  <2>1. Harmless(mnt')
    BY DetachHarmless
  <2>2. Gone(mnt')
    BY <1>2, DetachGone
  <2> QED
    BY <2>1, <2>2 DEF Harmless
<1>8. ASSUME NEW i \in 1 .. Len(mnt)
      PROVE  /\ new[i].parent = mnt[i].parent /\ new[i].at = mnt[i].at
             /\ new[i].root = mnt[i].root
             /\ i \notin U => new[i].ns = mnt[i].ns
             /\ new[i].ns # "none" => mnt[i].ns # "none"
  <2>1. /\ DOMAIN s[i] = Fields /\ i \in DOMAIN s /\ s[i].ns = mnt[i].ns
        /\ s[i].parent = mnt[i].parent /\ s[i].at = mnt[i].at /\ s[i].root = mnt[i].root
    BY <1>3, <1>5, SeqFacts DEF HostPart, Records, SamePlaces
  <2>2. new[i] = IF i \in U THEN [s[i] EXCEPT !.ns = "none"] ELSE s[i]
    BY <2>1 DEF Forget
  <2> HIDE DEF new
  <2> QED
    BY <2>1, <2>2 DEF Fields
<1>9. Len(mnt') = Len(mnt) /\ DOMAIN mnt' = 1 .. Len(mnt)
  <2>1. Len(new) = Len(mnt) /\ IsSeq(s)
    BY <1>5, ForgetKeeps DEF HostPart, SamePlaces
  <2> QED
    BY <1>6, <1>7, <2>1, SeqFacts DEF HostPart
<1> HIDE DEF new
<1>10. root \in 1 .. Len(mnt) /\ root \in Own(mnt) /\ mnt[root].ns # "none"
       /\ mnt[root].parent = 0 /\ root # OldRoot
  BY <1>3 DEF Pivoting, Mine, Mounted
<1>11. root \notin U
  <2>1. T \subseteq DOMAIN mnt
    BY <1>2, <1>3, TreeClosed DEF T, HostPart
  <2>2. root \in T => mnt[root].parent \in T
    BY <1>3, <1>10, TreeParents DEF T
  <2> QED
    BY <1>3, <1>6, <1>10, <2>1, <2>2
<1>12. Own(mnt') = Own(mnt)
  BY <1>9 DEF Own
<1>13. root \in Mine(mnt')
  BY <1>6, <1>8, <1>9, <1>10, <1>11, <1>12 DEF Mine, Mounted
<1>14. OldRoot \notin Mine(mnt')
  <2>1. Len(mnt) >= 2 * HostSize
    BY <1>2, <1>3 DEF Fresh
  <2>2. OldRoot \in Old
    BY <1>2, <2>1, Parts
  <2> QED
    BY <1>7, <2>2 DEF Gone, Mine, Mounted
<1>15. ASSUME NEW i \in Mine(mnt')
       PROVE  i \in Mine(mnt) \ {OldRoot}
  <2>1. i \in Own(mnt) /\ i \in 1 .. Len(mnt) /\ new[i].ns # "none"
    BY <1>6, <1>9, <1>12 DEF Mine, Mounted
  <2> QED
    BY <1>3, <1>8, <1>14, <2>1 DEF Mine, Mounted
<1>16. InPlace(mnt', Mine(mnt'))
  <2> SUFFICES ASSUME NEW i \in Mine(mnt')
               PROVE  mnt'[i].parent \in 0 .. i - 1 /\ IsSeq(mnt'[i].root) /\ IsSeq(mnt'[i].at)
    BY DEF InPlace
  <2>1. i \in Mine(mnt) \ {OldRoot} /\ i \in 1 .. Len(mnt)
    BY <1>3, <1>15 DEF Mine
  <2>2. mnt[i].parent \in 0 .. i - 1 /\ IsSeq(mnt[i].root) /\ IsSeq(mnt[i].at)
    BY <2>1 DEF Pivoting, InPlace
  <2> QED
    BY <1>6, <1>8, <2>1, <2>2
<1> QED
  BY <1>7, <1>13, <1>16 DEF Placed



-----------------------------------------------------------------------------
(* The invariant about the places.                                         *)

PlaceInv ==
    hasMountNamespace /\ Confined =>
        /\ pc \notin {"detach", "exited", "failed", "refused"} => Placed(mnt, root)
        /\ pc = "detach" => Pivoting(mnt, root)

(* The primed invariant, from what a step makes of table and root.         *)
LEMMA PlaceNext ==
    ASSUME conf' = conf,
           hasMountNamespace /\ Confined =>
               /\ pc' \notin {"detach", "exited", "failed", "refused"} => Placed(mnt', root')
               /\ pc' = "detach" => Pivoting(mnt', root')
    PROVE  PlaceInv'
<1>1. /\ HostSize' = HostSize /\ OldRoot' = OldRoot /\ (Confined' <=> Confined)
      /\ hasMountNamespace' <=> hasMountNamespace
  BY DEF HostSize, OldRoot, Confined, Host, hasMountNamespace
<1>2. HostPart(mnt)' <=> HostPart(mnt')
  BY <1>1 DEF HostPart
<1>3. Mine(mnt)' = Mine(mnt')
  BY <1>1 DEF Mine, Own
<1>4. Placed(mnt, root)' <=> Placed(mnt', root')
  BY <1>2, <1>3 DEF Placed
<1>5. Pivoting(mnt, root)' <=> Pivoting(mnt', root')
  BY <1>1, <1>3 DEF Pivoting
<1> QED
  BY <1>1, <1>4, <1>5 DEF PlaceInv

(* What each step makes of table and root.                                 *)
LEMMA PlaceKeeps ==
    ASSUME HostInv, RootInv, PlaceInv, hasMountNamespace, Confined, Moves
    PROVE  /\ pc' \notin {"detach", "exited", "failed", "refused"} => Placed(mnt', root')
           /\ pc' = "detach" => Pivoting(mnt', root')
<1>1. /\ pc \notin {"detach", "exited", "failed", "refused"} => Placed(mnt, root)
      /\ pc = "detach" => Pivoting(mnt, root)
  BY DEF PlaceInv
<1>2. CASE pc' \in {"exited", "failed", "refused"}
  BY <1>2
<1>3. CASE MountRootfs /\ pc' \notin Ended
  <2>1. pc' = "mountProc"
    BY <1>3 DEF MountRootfs, Mounts, Refused, Goto, Ended
  <2>2. Placed(mnt', root) /\ root' = root
    BY <1>3, <2>1, MountRootfsPlaced DEF MountRootfs, Mounts, Refused
  <2> QED
    BY <2>1, <2>2
<1>4. CASE MountSpecMount /\ pc' \notin Ended
  <2>1. pc = "specMounts" /\ pc' \in {"specMounts", "defaultDevices"} /\ root' = root
    BY <1>4 DEF MountSpecMount, Refused, Goto, Ended
  <2>2. Placed(mnt', root)
    BY <1>1, <1>4, <2>1, SpecMountPlaced
  <2> QED
    BY <2>1, <2>2
<1>5. CASE (\/ MountProc \/ MountDefaultDevices \/ MountConsole
            \/ SetRootfsMountPropagation \/ MountRootReadonly) /\ pc' \notin Ended
  <2>1. /\ pc \in {"mountProc", "defaultDevices", "mountConsole", "propagation", "readonly"}
        /\ pc' # "detach" /\ root' = root
    BY <1>5 DEF MountProc, MountDefaultDevices, MountConsole, SetRootfsMountPropagation,
                MountRootReadonly, Mounts, Refused, Goto
  <2>2. Placed(mnt', root)
    BY <1>1, <1>5, <2>1, OneMountPlaced
  <2> QED
    BY <2>1, <2>2
<1>6. CASE (CreateDeviceNodes \/ CreateDefaultSymlinks \/ ConnectConsole \/ SetSysctl) /\ pc' \notin Ended
  <2>1. /\ pc \in {"deviceNodes", "symlinks", "connectConsole", "sysctl"} /\ mnt' = mnt
        /\ pc' # "detach" /\ root' = root
    BY <1>6 DEF CreateDeviceNodes, CreateDefaultSymlinks, ConnectConsole, SetSysctl, Mounts, Refused, Goto
  <2> QED
    BY <1>1, <2>1
<1>7. CASE PivotRoot /\ pc' \notin Ended
  <2>1. pc = "pivot" /\ pc' = "detach"
    BY <1>7 DEF PivotRoot, Refused, Goto, Ended
  <2>2. Pivoting(mnt', root')
    BY <1>1, <1>7, <2>1, PivotPlaced
  <2> QED
    BY <2>1, <2>2
<1>8. CASE DetachOldRoot /\ pc' \notin Ended
  <2>1. pc = "detach" /\ pc' = "createContainer" /\ root' = root
    BY <1>8 DEF DetachOldRoot, Mounts, Refused, Goto, Ended
  <2>2. Placed(mnt', root)
    BY <1>1, <1>8, <2>1, DetachPlaced
  <2> QED
    BY <2>1, <2>2
<1>9. CASE (MountMaskedPaths \/ MountReadonlyPaths) /\ pc' \notin Ended
  <2>1. pc \in {"maskedPaths", "readonlyPaths"} /\ pc' # "detach" /\ root' = root
    BY <1>9 DEF MountMaskedPaths, MountReadonlyPaths, EndPaths, MountPath, Refused, Goto
  <2>2. Placed(mnt', root)
    BY <1>1, <1>9, <2>1, PathsPlaced
  <2> QED
    BY <2>1, <2>2
<1>10. CASE UNCHANGED rootfsVars
  <2>1. mnt' = mnt /\ root' = root /\ pc' = pc
    BY <1>10 DEF rootfsVars
  <2> QED
    BY <1>1, <2>1
<1>11. CASE /\ \/ Goto("createContainer", "waitStart") \/ Goto("waitStart", "sysctl")
               \/ Goto("waitStart", "startContainer") \/ Goto("startContainer", "exec")
               \/ Goto("startContainer", "exited") \/ Goto("hostname", "startContainer")
            /\ UNCHANGED <<mnt, root, next, nodes, pty>>
  <2>1. /\ pc \in {"createContainer", "waitStart", "startContainer", "hostname"}
        /\ mnt' = mnt /\ root' = root /\ pc' # "detach"
    BY <1>11 DEF Goto
  <2> QED
    BY <1>1, <2>1
<1>12. CASE Fails
  BY <1>2, <1>12 DEF Fails
<1> QED
  <2>1. CASE Mounting
    <3>1. pc' # "exec"
      BY <2>1, MountingMoves DEF Early, PrePivot, PostPivot
    <3>2. pc' \in {"exited", "failed", "refused"} \/ pc' \notin Ended
      BY <3>1 DEF Ended
    <3> QED
      BY <1>2, <1>3, <1>4, <1>5, <1>6, <1>7, <1>8, <1>9, <2>1, <3>2
         DEF Mounting, SetupPrePivot, SetupPostPivot
  <2> QED
    BY <1>10, <1>11, <1>12, <2>1 DEF Moves

(* The invariant holds of every behaviour.                                 *)
LEMMA PlaceInvariance == Spec => []PlaceInv
<1>1. Init => PlaceInv
  <2> SUFFICES ASSUME Init, hasMountNamespace
               PROVE  Placed(mnt, root) /\ pc = "mountRootfs"
    BY DEF PlaceInv
  <2>1. /\ pc = "mountRootfs" /\ mnt = CloneNamespace(Host(conf)) /\ root = OldRoot
    BY DEF Init, RootFSInit, OldRoot
  <2> QED
    BY <2>1, ClonePlaced
<1>2. PlaceInv /\ HostInv /\ RootInv /\ [Next]_vars => PlaceInv'
  <2> SUFFICES ASSUME PlaceInv, HostInv, RootInv, [Next]_vars
               PROVE  PlaceInv'
    OBVIOUS
  <2>1. Moves
    BY StepMoves
  <2>2. conf' = conf
    BY <2>1, IndexKeeps
  <2> QED
    BY <2>1, <2>2, PlaceKeeps, PlaceNext
<1> QED
  BY <1>1, <1>2, HostInvariance, RootInvariance, PTL DEF Spec


-----------------------------------------------------------------------------
(* What protects a path.                                                   *)

(* The paths to be masked.                                                 *)
Masked == Range(conf.masked) \ conf.absent

(* None leads to /dev/null, which what is masked is covered with, and one  *)
(* below another is below a directory.                                     *)
Sensible ==
    /\ \A p \in Masked : ~IsPrefix(p, Null)
    /\ \A p, q \in Masked : IsStrictPrefix(p, q) => p \in conf.directories

(* The first n masked paths show nothing; the first n read-only ones       *)
(* cannot be written to.                                                   *)
Covered(ms, n) ==
    \A j \in 1 .. n : conf.masked[j] \notin conf.absent => Hidden(ms, root, Null, conf.masked[j])
Locked(ms, n) == \A j \in 1 .. n : ms[Walk(ms, root, conf.readonlyPaths[j]).mount].ro

(* Masking a path hides it, and uncovers none.                             *)
LEMMA MaskHides ==
    ASSUME NEW ms, Placed(ms, root), Quiet(ms), Sensible,
           NEW path \in Masked, IsSeq(path), NEW q \in Masked, IsSeq(q)
    PROVE  /\ q = path => Hidden(Mask(ms, path), root, Null, q)
           /\ Hidden(ms, root, Null, q) => Hidden(Mask(ms, path), root, Null, q)
<1> DEFINE X == Mine(ms)
           p == Walk(ms, root, path)
           null == Walk(ms, root, Null)
<1>1. /\ Rising(ms, X) /\ Records(ms) /\ root \in X
      /\ \A i \in X : i \in Own(ms)
  BY PlacedRises
<1>2. IsSeq(Null) /\ Len(Null) = 2 /\ Len(path) \in Nat /\ Len(q) \in Nat
  BY NamedPaths, SeqFacts DEF Null
<1>3. Len(Null) \in Nat /\ Len(Null) > 0
  BY <1>2
<1>4. ms[p.mount].group = 0
  <2>1. p.mount \in X
    BY PlacedFacts DEF IsGood, IsPlace
  <2> QED
    BY <1>1, <2>1 DEF Quiet
<1>5. ~Leads(path, Null)
  BY <1>2, PrefixLeads DEF Sensible
<1>6. Len(path) > 0
  BY <1>2, <1>5 DEF Leads
<1>7. q = path => Leads(path, q)
  BY <1>2 DEF Leads
<1>8. CASE path \in conf.directories
  <2> DEFINE new(b) == Attach(ms, p, <<NewMount("mask", b)>>)
             Goal(b) == /\ Leads(path, q) => Hidden(new(b), root, Null, q)
                        /\ Hidden(ms, root, Null, q) => Hidden(new(b), root, Null, q)
  <2>1. ASSUME NEW b
        PROVE  Goal(b)
    BY <1>1, <1>2, <1>3, <1>4, <1>5, <1>6, CoverDirectory
  <2>2. Mask(ms, path) = new(TRUE)
    BY <1>8 DEF Mask, Masked
  <2> HIDE DEF Goal
  <2>3. Goal(TRUE)
    BY <2>1, Zenon
  <2> USE DEF Goal
  <2> QED
    BY <1>7, <2>2, <2>3, Zenon
<1>9. CASE path \notin conf.directories
  <2> DEFINE new == Bind(ms, null, p, TRUE)
  <2>1. Leads(path, q) => Len(q) = Len(path)
    <3> SUFFICES ASSUME Leads(path, q)
                 PROVE  q = path
      OBVIOUS
    <3>1. IsPrefix(path, q)
      BY PrefixLeads
    <3> QED
      BY <1>9, <3>1 DEF Sensible, IsStrictPrefix
  <2>2. /\ Leads(path, q) => Hidden(new, root, Null, q)
        /\ Hidden(ms, root, Null, q) => Hidden(new, root, Null, q)
    BY <1>1, <1>2, <1>3, <1>4, <1>5, <1>6, <2>1, CoverFile
  <2>3. Mask(ms, path) = new
    BY <1>9 DEF Mask, Masked
  <2> HIDE DEF new
  <2> QED
    BY <1>7, <2>2, <2>3
<1> QED
  BY <1>8, <1>9

(* What does not move the mounts keeps the paths hidden, and read-only     *)
(* what is.                                                                *)
LEMMA StaysProtected ==
    ASSUME NEW ms, Placed(ms, root), NEW new, HostPart(new), SamePlaces(ms, new),
           \A i \in 1 .. Len(ms) : new[i].fs = ms[i].fs /\ (ms[i].ro => new[i].ro),
           NEW q, IsSeq(q)
    PROVE  /\ Walk(new, root, q) = Walk(ms, root, q) /\ Walk(ms, root, q).mount \in 1 .. Len(ms)
           /\ Hidden(ms, root, Null, q) => Hidden(new, root, Null, q)
           /\ ms[Walk(ms, root, q).mount].ro => new[Walk(new, root, q).mount].ro
<1>1. SameWays(ms, new)
  BY PlacedStays
<1>2. Rising(ms, Mine(ms)) /\ root \in Mine(ms)
  BY PlacedRises
<1>3. Len(Null) \in Nat /\ Len(q) \in Nat
  BY NamedPaths, SeqFacts
<1> QED
  BY <1>1, <1>2, <1>3, SameHides

(* What becomes read-only is, and nothing else about it changes.           *)
LEMMA ReadonlyShows ==
    ASSUME NEW ms, IsSeq(ms), Records(ms), NEW U, NEW i \in 1 .. Len(ms)
    PROVE  LET new == SetReadonly(ms, U)
           IN  /\ new[i].fs = ms[i].fs /\ (ms[i].ro => new[i].ro)
               /\ i \in U => new[i].ro
<1>1. DOMAIN ms[i] = Fields /\ i \in DOMAIN ms
  BY SeqFacts DEF Records
<1> QED
  BY <1>1 DEF SetReadonly, Fields

(* Propagation has nothing to do with either.                              *)
LEMMA PropagationShows ==
    ASSUME NEW ms, IsSeq(ms), Records(ms), NEW m, NEW flag, NEW i \in 1 .. Len(ms)
    PROVE  LET new == SetPropagation(ms, m, flag)
           IN  new[i].fs = ms[i].fs /\ new[i].ro = ms[i].ro
<1>1. DOMAIN ms[i] = Fields /\ i \in DOMAIN ms
  BY SeqFacts DEF Records
<1> QED
  BY <1>1 DEF SetPropagation, SetKind, Fields

(* Making a path read-only does that, and uncovers and unlocks none.       *)
LEMMA LockProtects ==
    ASSUME NEW ms, Placed(ms, root), Quiet(ms), Free(ms), NEW path, IsSeq(path), NEW q, IsSeq(q)
    PROVE  LET new == ReadonlyPath(ms, path)
           IN  /\ Hidden(ms, root, Null, q) => Hidden(new, root, Null, q)
               /\ ms[Walk(ms, root, q).mount].ro => new[Walk(new, root, q).mount].ro
               /\ new[Walk(new, root, path).mount].ro
<1> DEFINE X == Mine(ms)
           p == Walk(ms, root, path)
           bound == Bind(ms, p, p, TRUE)
           m == Walk(bound, root, path).mount
           U == {m}
           new == SetReadonly(bound, U)
<1>1. /\ Rising(ms, X) /\ Records(ms) /\ root \in X /\ X \in SUBSET (1 .. Len(ms))
      /\ \A i \in X : i \in Own(ms) /\ IsSeq(ms[i].at)
  BY PlacedRises
<1>2. Len(Null) \in Nat /\ Len(path) \in Nat /\ Len(q) \in Nat
  BY NamedPaths, SeqFacts
<1>3. ms[p.mount].group = 0
  <2>1. p.mount \in X
    BY PlacedFacts DEF IsGood, IsPlace
  <2> QED
    BY <1>1, <2>1 DEF Quiet
<1>4. \A i \in X : ~ms[i].unbindable /\ IsSeq(ms[i].at)
  BY <1>1 DEF Free
<1>5. /\ Hidden(ms, root, Null, q) => Hidden(bound, root, Null, q)
      /\ ms[Walk(ms, root, q).mount].ro => bound[Walk(bound, root, q).mount].ro
  BY <1>1, <1>2, <1>3, <1>4, BoundHides
<1>6. Placed(bound, root) /\ m \in Own(bound)
  BY ReadonlyPathPlaced
<1>7. ReadonlyPath(ms, path) = new
  BY DEF ReadonlyPath
<1> HIDE DEF bound
<1>8. HostPart(bound) /\ IsSeq(bound) /\ Records(bound)
  BY <1>6, PlacedRises
<1>9. U \in SUBSET Own(bound)
  BY <1>6
<1> HIDE DEF U
<1>10. HostPart(new) /\ SamePlaces(bound, new)
  BY <1>8, <1>9, OwnReadonly, ReadonlyPlaces
<1>11. \A i \in 1 .. Len(bound) : /\ new[i].fs = bound[i].fs /\ (bound[i].ro => new[i].ro)
                                  /\ i \in U => new[i].ro
  BY <1>8, ReadonlyShows
<1> HIDE DEF new
<1>12. /\ Hidden(bound, root, Null, q) => Hidden(new, root, Null, q)
       /\ bound[Walk(bound, root, q).mount].ro => new[Walk(new, root, q).mount].ro
  BY <1>6, <1>10, <1>11, StaysProtected
<1>13. Walk(new, root, path) = Walk(bound, root, path) /\ m \in 1 .. Len(bound)
  BY <1>6, <1>10, <1>11, StaysProtected
<1>14. new[Walk(new, root, path).mount].ro
  BY <1>11, <1>13 DEF U
<1> HIDE DEF m
<1> QED
  BY <1>5, <1>7, <1>12, <1>14


-----------------------------------------------------------------------------
(* What each step makes of the protection.                                 *)

(* What has no list to go through leaves the index of the lists at 1.      *)
NextInv == pc \notin {"specMounts", "maskedPaths", "readonlyPaths"} \cup Ended => next = 1

LEMMA NextInvariance == Spec => []NextInv
<1>1. Init => NextInv
  BY DEF Init, RootFSInit, NextInv
<1>2. NextInv /\ HostInv /\ [Next]_vars => NextInv'
  <2> SUFFICES ASSUME NextInv, HostInv, Moves
               PROVE  NextInv'
    BY StepMoves
  <2> DEFINE Listing == {"specMounts", "maskedPaths", "readonlyPaths"}
  <2>1. CASE Fails
    BY <2>1 DEF Fails, NextInv, Ended
  <2>2. CASE UNCHANGED rootfsVars
    BY <2>2 DEF rootfsVars, NextInv
  <2>3. CASE MountSpecMount
    BY <2>3 DEF MountSpecMount, Refused, Goto, NextInv, Ended
  <2>4. CASE MountMaskedPaths
    BY <2>4 DEF MountMaskedPaths, EndPaths, MountPath, Goto, NextInv, Ended
  <2>5. CASE MountReadonlyPaths
    BY <2>5 DEF MountReadonlyPaths, EndPaths, MountPath, Refused, Goto, NextInv, Ended
  <2>6. CASE MountRootfs \/ MountProc \/ MountDefaultDevices \/ CreateDeviceNodes \/ CreateDefaultSymlinks
    <3>1. next' = next /\ pc \notin Listing \cup Ended
      BY <2>6 DEF MountRootfs, MountProc, MountDefaultDevices, CreateDeviceNodes,
                  CreateDefaultSymlinks, Mounts, Refused, Goto, Ended
    <3> QED
      BY <3>1 DEF NextInv
  <2>7. CASE ConnectConsole \/ MountConsole \/ PivotRoot \/ DetachOldRoot
    <3>1. next' = next /\ pc \notin Listing \cup Ended
      BY <2>7 DEF ConnectConsole, MountConsole, PivotRoot, DetachOldRoot, Mounts, Refused, Goto, Ended
    <3> QED
      BY <3>1 DEF NextInv
  <2>8. CASE SetSysctl \/ SetRootfsMountPropagation \/ MountRootReadonly
    <3>1. next' = next /\ pc \notin Listing \cup Ended
      BY <2>8 DEF SetSysctl, SetRootfsMountPropagation, MountRootReadonly, Mounts, Refused, Goto, Ended
    <3> QED
      BY <3>1 DEF NextInv
  <2>9. CASE /\ \/ Goto("createContainer", "waitStart") \/ Goto("waitStart", "sysctl")
                \/ Goto("waitStart", "startContainer") \/ Goto("startContainer", "exec")
                \/ Goto("startContainer", "exited") \/ Goto("hostname", "startContainer")
             /\ UNCHANGED <<mnt, root, next, nodes, pty>>
    <3>1. next' = next /\ pc \notin Listing \cup Ended
      BY <2>9 DEF Goto, Ended
    <3> QED
      BY <3>1 DEF NextInv
  <2> QED
    BY <2>1, <2>2, <2>3, <2>4, <2>5, <2>6, <2>7, <2>8, <2>9
       DEF Moves, Mounting, SetupPrePivot, SetupPostPivot
<1> QED
  BY <1>1, <1>2, HostInvariance, PTL DEF Spec

(* A container with a process goes through what is left of the set-up.     *)
LEMMA StartSkipsNothing ==
    ASSUME [Next]_vars, pc = "waitStart", pc' = "startContainer"
    PROVE  ~conf.process
<1> USE DEF Goto
<1>1. ~UNCHANGED rootfsVars
  BY DEF rootfsVars
<1>2. ~Mounting
  BY MountingMoves DEF Early, PrePivot, PostPivot
<1>3. ~CreateContainerHooks /\ ~StartContainerHooks /\ ~Fails /\ ~Sethostname
  BY DEF CreateContainerHooks, StartContainerHooks, Phase, Fails, Sethostname
<1>4. ReceiveStart
  BY <1>1, <1>2, <1>3 DEF Next, vars, Reexec, Hooking, Timeout, rootfsVars
<1> QED
  BY <1>4 DEF ReceiveStart

(* The next path is masked.                                                *)
LEMMA MaskCovers ==
    ASSUME HostInv, Placed(mnt, root), Quiet(mnt), Sensible, Covered(mnt, next - 1),
           next <= Len(conf.masked), mnt' = Mask(mnt, conf.masked[next])
    PROVE  Covered(mnt', next)
<1> DEFINE path == conf.masked[next]
<1>1. /\ Len(conf.masked) \in Nat /\ next \in Nat \ {0}
      /\ \A j \in 1 .. Len(conf.masked) : IsSeq(conf.masked[j])
  BY ListedPaths
<1>2. \A j \in 1 .. Len(conf.masked) : conf.masked[j] \in Range(conf.masked)
  <2>1. conf.masked \in Seq(Seq(STRING))
    BY RootFSAssumption DEF HostInv
  <2>2. DOMAIN conf.masked = 1 .. Len(conf.masked)
    BY <2>1
  <2> QED
    BY <2>2 DEF Range
<1> SUFFICES ASSUME NEW j \in 1 .. next, conf.masked[j] \notin conf.absent
             PROVE  Hidden(mnt', root, Null, conf.masked[j])
  BY DEF Covered
<1> DEFINE q == conf.masked[j]
<1>3. j \in 1 .. Len(conf.masked) /\ next \in 1 .. Len(conf.masked)
  BY <1>1
<1>4. q \in Masked /\ IsSeq(q) /\ IsSeq(path) /\ (path \notin conf.absent => path \in Masked)
  BY <1>1, <1>2, <1>3 DEF Masked
<1>5. j # next => Hidden(mnt, root, Null, q)
  <2>1. j # next => j \in 1 .. next - 1
    BY <1>1
  <2> QED
    BY <2>1 DEF Covered
<1>6. CASE path \in conf.absent
  <2>1. Mask(mnt, path) = mnt
    BY <1>6 DEF Mask
  <2> QED
    BY <1>5, <1>6, <2>1
<1>7. CASE path \notin conf.absent
  <2>1. /\ q = path => Hidden(Mask(mnt, path), root, Null, q)
        /\ Hidden(mnt, root, Null, q) => Hidden(Mask(mnt, path), root, Null, q)
    BY <1>4, <1>7, MaskHides
  <2> QED
    BY <1>5, <2>1
<1> QED
  BY <1>6, <1>7

(* The next path is made read-only.                                        *)
LEMMA LockLocks ==
    ASSUME HostInv, Placed(mnt, root), Quiet(mnt), Free(mnt), next <= Len(conf.readonlyPaths),
           Covered(mnt, Len(conf.masked)), Locked(mnt, next - 1),
           mnt' = ReadonlyPath(mnt, conf.readonlyPaths[next])
    PROVE  Covered(mnt', Len(conf.masked)) /\ Locked(mnt', next)
<1> DEFINE path == conf.readonlyPaths[next]
<1>1. /\ Len(conf.masked) \in Nat /\ Len(conf.readonlyPaths) \in Nat /\ next \in Nat \ {0}
      /\ \A j \in 1 .. Len(conf.masked) : IsSeq(conf.masked[j])
      /\ \A j \in 1 .. Len(conf.readonlyPaths) : IsSeq(conf.readonlyPaths[j])
  BY ListedPaths
<1>2. IsSeq(path)
  BY <1>1
<1> HIDE DEF path
<1>3. ASSUME NEW q, IsSeq(q)
      PROVE  /\ Hidden(mnt, root, Null, q) => Hidden(mnt', root, Null, q)
             /\ mnt[Walk(mnt, root, q).mount].ro => mnt'[Walk(mnt', root, q).mount].ro
             /\ mnt'[Walk(mnt', root, path).mount].ro
  BY <1>2, <1>3, LockProtects DEF path
<1>4. Covered(mnt', Len(conf.masked))
  BY <1>1, <1>3 DEF Covered
<1>5. ASSUME NEW j \in 1 .. next
      PROVE  mnt'[Walk(mnt', root, conf.readonlyPaths[j]).mount].ro
  <2>1. CASE j = next
    BY <1>2, <1>3, <2>1 DEF path
  <2>2. CASE j # next
    <3>1. j \in 1 .. next - 1 /\ j \in 1 .. Len(conf.readonlyPaths)
      BY <1>1, <2>2
    <3> QED
      BY <1>1, <1>3, <3>1 DEF Locked
  <2> QED
    BY <2>1, <2>2
<1> QED
  BY <1>4, <1>5 DEF Locked

(* What changes the root afterwards leaves the paths as they are.          *)
LEMMA RootProtects ==
    ASSUME HostInv, Placed(mnt, root), SetRootfsMountPropagation \/ MountRootReadonly,
           Covered(mnt, Len(conf.masked)), Locked(mnt, Len(conf.readonlyPaths))
    PROVE  Covered(mnt', Len(conf.masked)) /\ Locked(mnt', Len(conf.readonlyPaths))
<1>1. HostPart(mnt) /\ IsSeq(mnt) /\ Records(mnt) /\ root \in Own(mnt)
  BY PlacedRises
<1>2. /\ HostPart(mnt') /\ SamePlaces(mnt, mnt')
      /\ \A i \in 1 .. Len(mnt) : mnt'[i].fs = mnt[i].fs /\ (mnt[i].ro => mnt'[i].ro)
  <2>1. CASE mnt' = mnt
    BY <1>1, <2>1 DEF SamePlaces
  <2>2. CASE \E flag : mnt' = SetPropagation(mnt, root, flag)
    BY <1>1, <2>2, OwnPropagation, PropagationPlaces, PropagationShows
  <2>3. CASE mnt' = SetReadonly(mnt, {root})
    <3>1. {root} \in SUBSET Own(mnt)
      BY <1>1
    <3> QED
      BY <1>1, <2>3, <3>1, OwnReadonly, ReadonlyPlaces, ReadonlyShows
  <2> QED
    BY <2>1, <2>2, <2>3 DEF SetRootfsMountPropagation, MountRootReadonly, Mounts, Refused
<1>3. ASSUME NEW q, IsSeq(q)
      PROVE  /\ Hidden(mnt, root, Null, q) => Hidden(mnt', root, Null, q)
             /\ mnt[Walk(mnt, root, q).mount].ro => mnt'[Walk(mnt', root, q).mount].ro
  BY <1>2, <1>3, StaysProtected
<1>4. /\ \A j \in 1 .. Len(conf.masked) : IsSeq(conf.masked[j])
      /\ \A j \in 1 .. Len(conf.readonlyPaths) : IsSeq(conf.readonlyPaths[j])
  BY ListedPaths
<1> QED
  BY <1>3, <1>4 DEF Covered, Locked


-----------------------------------------------------------------------------
(* The invariant about the protected paths.                                *)

(* The steps from the first of the paths on.                               *)
Guarding == (PostPivot \ {"sysctl"}) \cup {"startContainer", "exec"}

(* What has been gone through of each list is protected, and all of both   *)
(* once they are done.                                                     *)
Protection(ms, label, n) ==
    /\ label = "maskedPaths" => Covered(ms, n - 1)
    /\ label = "readonlyPaths" => Covered(ms, Len(conf.masked)) /\ Locked(ms, n - 1)
    /\ label \in {"propagation", "readonly", "hostname", "startContainer", "exec"} /\ conf.process =>
          Covered(ms, Len(conf.masked)) /\ Locked(ms, Len(conf.readonlyPaths))

Guarded == hasMountNamespace /\ Confined /\ ~AsksUnbindable /\ Sensible

ProtectInv == Guarded => Protection(mnt, pc, next)

(* What each step makes of it.                                             *)
LEMMA ProtectionKeeps ==
    ASSUME HostInv, PlaceInv, NextInv, ProtectInv, Guarded, [Next]_vars
    PROVE  Protection(mnt', pc', next') /\ (pc' \in Guarding => root' = root)
<1> USE DEF Guarded
<1>1. /\ Moves /\ Protection(mnt, pc, next) /\ HostInv /\ hasMountNamespace /\ Confined /\ Sensible
      /\ next \in Nat \ {0} /\ Len(conf.masked) \in Nat /\ Len(conf.readonlyPaths) \in Nat
  BY StepMoves, ListedPaths DEF ProtectInv
<1>2. /\ pc \in PostPivot => Placed(mnt, root) /\ Quiet(mnt) /\ Free(mnt)
      /\ pc = "sysctl" => next = 1
  BY DEF PlaceInv, NextInv, HostInv, TableInv, PostPivot, Ended
<1>3. /\ Covered(mnt', 0) /\ Locked(mnt', 0)
  BY DEF Covered, Locked
<1> USE DEF Protection, Guarding
<1>4. CASE pc' \in PrePivot \cup {"detach", "createContainer", "waitStart", "sysctl", "failed", "refused", "exited"}
  BY <1>4 DEF PrePivot, PostPivot
<1>5. CASE UNCHANGED rootfsVars
  BY <1>1, <1>5 DEF rootfsVars
<1>6. CASE SetSysctl /\ pc' # "refused"
  <2>1. pc = "sysctl" /\ pc' = "maskedPaths" /\ next' = next /\ root' = root
    BY <1>6 DEF SetSysctl, Mounts, Refused, Goto
  <2>2. next' - 1 = 0
    BY <1>2, <2>1
  <2> QED
    BY <1>3, <2>1, <2>2
<1>7. CASE MountMaskedPaths
  <2>1. pc = "maskedPaths" /\ Covered(mnt, next - 1) /\ root' = root
    BY <1>1, <1>7 DEF MountMaskedPaths, EndPaths, MountPath, Goto
  <2>2. CASE next > Len(conf.masked) /\ EndPaths("maskedPaths", "readonlyPaths")
    <3>1. pc' = "readonlyPaths" /\ next' = 1 /\ mnt' = mnt
      BY <2>2 DEF EndPaths, Goto
    <3>2. \A j \in 1 .. Len(conf.masked) : j \in 1 .. next - 1
      BY <1>1, <2>2
    <3>3. Covered(mnt', Len(conf.masked)) /\ next' - 1 = 0
      BY <2>1, <3>1, <3>2 DEF Covered
    <3> QED
      BY <1>3, <2>1, <3>1, <3>3
  <2>3. CASE next <= Len(conf.masked) /\ MountPath(Mask(mnt, conf.masked[next]))
    <3>1. /\ pc' = "maskedPaths" /\ next' = next + 1
          /\ mnt' = Mask(mnt, conf.masked[next])
      BY <2>1, <2>3 DEF MountPath
    <3>2. Covered(mnt', next)
      BY <1>1, <1>2, <2>1, <2>3, <3>1, MaskCovers DEF PostPivot
    <3>3. next' - 1 = next
      BY <1>1, <3>1
    <3> QED
      BY <2>1, <3>1, <3>2, <3>3
  <2> QED
    BY <1>7, <2>2, <2>3 DEF MountMaskedPaths
<1>8. CASE MountReadonlyPaths /\ pc' # "refused"
  <2>1. /\ pc = "readonlyPaths" /\ Covered(mnt, Len(conf.masked)) /\ Locked(mnt, next - 1)
        /\ root' = root
    BY <1>1, <1>8 DEF MountReadonlyPaths, EndPaths, MountPath, Refused, Goto
  <2>2. CASE next > Len(conf.readonlyPaths) /\ EndPaths("readonlyPaths", "propagation")
    <3>1. pc' = "propagation" /\ mnt' = mnt
      BY <2>2 DEF EndPaths, Goto
    <3>2. \A j \in 1 .. Len(conf.readonlyPaths) : j \in 1 .. next - 1
      BY <1>1, <2>2
    <3>3. Locked(mnt', Len(conf.readonlyPaths))
      BY <2>1, <3>1, <3>2 DEF Locked
    <3> QED
      BY <2>1, <3>1, <3>3
  <2>3. CASE /\ next <= Len(conf.readonlyPaths)
             /\ MountPath(ReadonlyPath(mnt, conf.readonlyPaths[next]))
    <3>1. /\ pc' = "readonlyPaths" /\ next' = next + 1
          /\ mnt' = ReadonlyPath(mnt, conf.readonlyPaths[next])
      BY <2>1, <2>3 DEF MountPath
    <3>2. Covered(mnt', Len(conf.masked)) /\ Locked(mnt', next)
      BY <1>1, <1>2, <2>1, <2>3, <3>1, LockLocks DEF PostPivot
    <3>3. next' - 1 = next
      BY <1>1, <3>1
    <3> QED
      BY <2>1, <3>1, <3>2, <3>3
  <2> QED
    BY <1>8, <2>2, <2>3 DEF MountReadonlyPaths, Refused, Goto
<1>9. CASE SetRootfsMountPropagation \/ MountRootReadonly
  <2>1. pc \in {"propagation", "readonly"} /\ pc' \in {"readonly", "hostname", "refused"} /\ root' = root
    BY <1>9 DEF SetRootfsMountPropagation, MountRootReadonly, Mounts, Refused, Goto
  <2>2. conf.process => Covered(mnt', Len(conf.masked)) /\ Locked(mnt', Len(conf.readonlyPaths))
    BY <1>1, <1>2, <1>9, <2>1, RootProtects DEF PostPivot
  <2> QED
    BY <2>1, <2>2
<1>10. CASE /\ \/ Goto("createContainer", "waitStart") \/ Goto("waitStart", "sysctl")
               \/ Goto("waitStart", "startContainer") \/ Goto("startContainer", "exec")
               \/ Goto("startContainer", "exited") \/ Goto("hostname", "startContainer")
            /\ UNCHANGED <<mnt, root, next, nodes, pty>>
  <2>1. CASE pc' \in {"waitStart", "sysctl", "exited"}
    BY <1>4, <2>1
  <2>2. CASE pc = "waitStart" /\ pc' = "startContainer"
    BY <1>10, <2>2, StartSkipsNothing
  <2>3. CASE pc \in {"hostname", "startContainer"} /\ pc' \in {"startContainer", "exec"}
    <3>1. mnt' = mnt /\ root' = root
      BY <1>10
    <3> QED
      BY <1>1, <2>3, <3>1
  <2> QED
    BY <1>10, <2>1, <2>2, <2>3 DEF Goto
<1>11. CASE Fails
  BY <1>4, <1>11 DEF Fails
<1>12. CASE Mounting /\ (SetupPrePivot \/ ConnectConsole \/ MountConsole \/ PivotRoot \/ DetachOldRoot)
  <2>1. pc \in Early
    BY <1>12 DEF SetupPrePivot, MountRootfs, MountProc, MountSpecMount, MountDefaultDevices,
                 CreateDeviceNodes, CreateDefaultSymlinks, ConnectConsole, MountConsole, PivotRoot,
                 DetachOldRoot, Mounts, Refused, Goto, Early, PrePivot
  <2>3. pc' \in Early \cup {"createContainer", "refused"}
    BY <1>12, <2>1, MountingMoves DEF Early, PrePivot, PostPivot
  <2> QED
    BY <1>4, <2>3 DEF Early
<1> QED
  <2>1. CASE Mounting
    <3>1. pc' = "refused" \/ pc' # "refused"
      OBVIOUS
    <3> QED
      BY <1>4, <1>6, <1>7, <1>8, <1>9, <1>12, <2>1, <3>1 DEF Mounting, SetupPostPivot
  <2> QED
    BY <1>1, <1>5, <1>10, <1>11, <2>1 DEF Moves

LEMMA ProtectInvariance == Spec => []ProtectInv
<1>1. Init => ProtectInv
  BY DEF Init, RootFSInit, ProtectInv, Protection
<1>2. HostInv /\ PlaceInv /\ NextInv /\ ProtectInv /\ [Next]_vars => ProtectInv'
  <2> SUFFICES ASSUME HostInv, PlaceInv, NextInv, ProtectInv, [Next]_vars, Guarded'
               PROVE  Protection(mnt, pc, next)'
    BY DEF ProtectInv
  <2>1. conf' = conf
    BY ConfStable
  <2>2. Guarded
    BY <2>1 DEF Guarded, hasMountNamespace, Confined, AsksUnbindable, Sensible, Masked
  <2>3. Protection(mnt', pc', next') /\ (pc' \in Guarding => root' = root)
    BY <2>2, ProtectionKeeps
  <2>4. ASSUME root' = root, NEW ms, NEW n
        PROVE  (Covered(ms, n) => Covered(ms, n)') /\ (Locked(ms, n) => Locked(ms, n)')
    BY <2>1, <2>4 DEF Covered, Locked
  <2> QED
    BY <2>1, <2>3, <2>4 DEF Protection, Guarding, PostPivot
<1> QED
  BY <1>1, <1>2, HostInvariance, PlaceInvariance, NextInvariance, PTL DEF Spec

(* In a container whose root has a recursive propagation that is not       *)
(* shared, which is the default, and that asks for nothing unbindable:     *)
(* when the program starts, every path the configuration masks shows an    *)
(* empty file system or /dev/null, and every path it makes read-only is on *)
(* a read-only mount, in whatever order the lists name them, whatever is   *)
(* mounted at or below them, and also if a path made read-only afterwards  *)
(* takes masks along.                                                      *)
THEOREM PathsProtectedCorrect ==
    Spec => [](hasMountNamespace /\ Confined /\ ~AsksUnbindable /\ Sensible => PathsProtected)
<1>1. HostInv /\ ProtectInv => (Guarded => PathsProtected)
  <2> SUFFICES ASSUME HostInv, ProtectInv, Guarded, conf.process,
                      pc \in {"propagation", "readonly", "hostname", "startContainer", "exec"}
               PROVE  /\ \A p \in Range(conf.masked) \ conf.absent :
                            mnt[At(p).mount].fs = "mask" \/ At(p).dentry = At(Null).dentry
                      /\ \A p \in Range(conf.readonlyPaths) : mnt[At(p).mount].ro
    BY DEF PathsProtected
  <2>1. Covered(mnt, Len(conf.masked)) /\ Locked(mnt, Len(conf.readonlyPaths))
    BY DEF ProtectInv, Protection
  <2>2. DOMAIN conf.masked = 1 .. Len(conf.masked) /\ DOMAIN conf.readonlyPaths = 1 .. Len(conf.readonlyPaths)
    <3>1. conf.masked \in Seq(Seq(STRING)) /\ conf.readonlyPaths \in Seq(Seq(STRING))
      BY RootFSAssumption DEF HostInv
    <3> QED
      BY <3>1
  <2>3. \A p \in Range(conf.masked) \ conf.absent :
           mnt[At(p).mount].fs = "mask" \/ At(p).dentry = At(Null).dentry
    BY <2>1, <2>2 DEF Range, Covered, Hidden, At
  <2>4. \A p \in Range(conf.readonlyPaths) : mnt[At(p).mount].ro
    BY <2>1, <2>2 DEF Range, Locked, At
  <2> QED
    BY <2>3, <2>4
<1>2. HostInv /\ ProtectInv =>
         (hasMountNamespace /\ Confined /\ ~AsksUnbindable /\ Sensible => PathsProtected)
  BY <1>1 DEF Guarded
<1> QED
  BY <1>2, HostInvariance, ProtectInvariance, PTL

-----------------------------------------------------------------------------
(***************************************************************************)
(* What a path leads to from one step to the next: the view that the       *)
(* container has as it is set up, and what no step is refused for.         *)
(***************************************************************************)

(* Below the image, a lookup before the pivot goes on as one from the      *)
(* mount that will be the root.                                            *)
LEMMA ImageView ==
    ASSUME NEW ms, ms[OldRoot].root = <<>>, NEW n,
           Walk(ms, OldRoot, Rootfs \o <<>>) = RootOf(ms, n), NEW path, IsSeq(path)
    PROVE  Walk(ms, OldRoot, Rootfs \o path) = Walk(ms, n, path)
<1>1. Len(path) \in Nat /\ IsSeq(Rootfs) /\ Len(Rootfs) = 1
  BY SeqFacts, NamedPaths DEF Rootfs
<1>2. PICK g : /\ g[1] = Top(ms, Place(OldRoot, Rootfs))
               /\ \A k \in 2 .. Len(path) + 1 : g[k] = Enter(ms, g[k - 1], (Rootfs \o path)[k])
               /\ Walk(ms, OldRoot, Rootfs \o path) = g[Len(path) + 1]
  BY WalkBegins
<1>3. PICK f : Steps(ms, n, path, f) /\ Walk(ms, n, path) = f[Len(path)]
  BY <1>1, WalkTaken
<1> DEFINE S == {k \in Nat : k \in 0 .. Len(path) => g[k + 1] = f[k]}
<1>4. 0 \in S
  BY <1>2, <1>3, WalkToImage DEF Steps
<1>5. ASSUME NEW k \in Nat, k \in S
      PROVE  k + 1 \in S
  <2> SUFFICES ASSUME k + 1 \in 0 .. Len(path)
               PROVE  g[(k + 1) + 1] = f[k + 1]
    OBVIOUS
  <2>1. /\ k \in 0 .. Len(path) /\ k + 1 \in 1 .. Len(path) /\ (k + 1) - 1 = k
        /\ (k + 1) + 1 \in 2 .. Len(path) + 1 /\ ((k + 1) + 1) - 1 = k + 1
        /\ (k + 1) + 1 = Len(Rootfs) + (k + 1)
    BY <1>1
  <2>2. (Rootfs \o path)[Len(Rootfs) + (k + 1)] = path[k + 1]
    <3>1. \A i \in 1 .. Len(path) : (Rootfs \o path)[Len(Rootfs) + i] = path[i]
      <4>1. IsSeq(Rootfs) /\ IsSeq(path)
        BY <1>1
      <4> QED
        BY <4>1, SeqConcat
    <3> QED
      BY <2>1, <3>1
  <2>3. g[(k + 1) + 1] = Enter(ms, g[k + 1], (Rootfs \o path)[(k + 1) + 1])
    BY <1>2, <2>1
  <2>4. f[k + 1] = Enter(ms, f[k], path[k + 1])
    BY <1>3, <2>1 DEF Steps
  <2>5. g[k + 1] = f[k]
    BY <1>5, <2>1
  <2>6. (Rootfs \o path)[(k + 1) + 1] = path[k + 1]
    BY <2>1, <2>2
  <2> QED
    BY <2>3, <2>4, <2>5, <2>6
<1> HIDE DEF S
<1>6. Len(path) \in S
  BY <1>1, <1>4, <1>5, NatSet
<1> QED
  BY <1>1, <1>2, <1>3, <1>6 DEF S

(* The copies of the host's mounts: /dev is among them, and none is on it. *)
LEMMA HostCopies ==
    LET new == CloneNamespace(Host(conf))
    IN  /\ \A i \in 1 .. Len(new) : Ends(new[i].at, HostNames) /\ Ends(new[i].root, HostNames)
        /\ OldRoot + 1 \in Old /\ new[OldRoot + 1].fs = "devtmpfs"
        /\ new[OldRoot + 1].parent = OldRoot /\ new[OldRoot + 1].at = <<"dev">>
        /\ \A i \in Old :
              /\ new[i].parent # OldRoot + 1
              /\ new[i].parent = OldRoot /\ new[i].at = <<"dev">> => i = OldRoot + 1
<1> DEFINE H == Host(conf)
           copy == [i \in DOMAIN H |->
                       [H[i] EXCEPT !.ns = "container",
                                    !.parent = IF @ = 0 THEN 0 ELSE Len(H) + @]]
           new == CloneNamespace(H)
<1>1. /\ IsSeq(H) /\ Records(H) /\ Len(H) \in 3 .. 5 /\ DOMAIN H = 1 .. Len(H)
      /\ \A i \in 1 .. Len(H) : H[i].parent \in 0 .. i - 1 /\ IsSeq(H[i].at)
      /\ H[1].parent = 0 /\ H[1].root = <<>> /\ H[1].at = <<>>
      /\ \A i \in 2 .. Len(H) : H[i].parent # 0 /\ Fits(H[i], i)
  BY HostFacts, SeqFacts
<1> HIDE DEF H
<1>2. DOMAIN copy = 1 .. Len(H) /\ copy = [i \in DOMAIN copy |-> copy[i]]
  BY <1>1
<1>3. ASSUME NEW i \in 1 .. Len(H)
      PROVE  /\ copy[i].parent = IF H[i].parent = 0 THEN 0 ELSE Len(H) + H[i].parent
             /\ copy[i].root = H[i].root /\ copy[i].at = H[i].at /\ copy[i].fs = H[i].fs
  <2>1. DOMAIN H[i] = Fields
    BY <1>1 DEF Records
  <2>2. copy[i] = [H[i] EXCEPT !.ns = "container",
                               !.parent = IF @ = 0 THEN 0 ELSE Len(H) + @]
    BY <1>1
  <2>3. copy[i].parent = IF H[i].parent = 0 THEN 0 ELSE Len(H) + H[i].parent
    BY <2>1, <2>2 DEF Fields
  <2> HIDE DEF copy
  <2> QED
    BY <2>1, <2>2, <2>3 DEF Fields
<1>4. new = H \o copy
  BY DEF CloneNamespace
<1> HIDE DEF copy, new
<1>5. IsSeq(copy) /\ Len(copy) = Len(H)
  BY <1>1, <1>2, FunctionIsSeq
<1>6. /\ Len(new) = Len(H) + Len(H)
      /\ \A i \in 1 .. Len(H) : new[i] = H[i]
      /\ \A i \in 1 .. Len(H) : new[Len(H) + i] = copy[i]
  <2>0. IsSeq(H) /\ IsSeq(copy)
    BY <1>1, <1>5
  <2>1. /\ Len(H \o copy) = Len(H) + Len(copy)
        /\ \A i \in 1 .. Len(H) : (H \o copy)[i] = H[i]
        /\ \A i \in 1 .. Len(copy) : (H \o copy)[Len(H) + i] = copy[i]
    BY <2>0, SeqConcat
  <2> QED
    BY <1>4, <1>5, <2>1
<1>7. HostSize = Len(H) /\ OldRoot = Len(H) + 1
  BY DEF HostSize, H, OldRoot
<1>8. ASSUME NEW i \in 1 .. Len(H)
      PROVE  Ends(H[i].at, HostNames) /\ Ends(H[i].root, HostNames)
  <2>1. Ends(<<>>, HostNames)
    BY DEF Ends
  <2>2. CASE i = 1
    BY <1>1, <2>1, <2>2
  <2>3. CASE i # 1
    BY <1>1, <2>1, <2>3 DEF Fits
  <2> QED
    BY <2>2, <2>3
<1>9. ASSUME NEW i \in 1 .. Len(new)
      PROVE  Ends(new[i].at, HostNames) /\ Ends(new[i].root, HostNames)
  <2>1. i \in 1 .. Len(H) \/ (i - Len(H) \in 1 .. Len(H) /\ i = Len(H) + (i - Len(H)))
    BY <1>1, <1>6
  <2>2. CASE i \in 1 .. Len(H)
    BY <1>6, <1>8, <2>2
  <2>3. CASE i - Len(H) \in 1 .. Len(H) /\ i = Len(H) + (i - Len(H))
    <3> DEFINE j == i - Len(H)
    <3> HIDE DEF j
    <3>1. j \in 1 .. Len(H) /\ i = Len(H) + j
      BY <2>3 DEF j
    <3>2. new[i].at = H[j].at /\ new[i].root = H[j].root
      BY <1>3, <1>6, <3>1
    <3> QED
      BY <1>8, <3>1, <3>2
  <2> QED
    BY <2>1, <2>2, <2>3
<1>10. /\ OldRoot + 1 \in Old /\ new[OldRoot + 1].fs = "devtmpfs"
       /\ new[OldRoot + 1].parent = OldRoot /\ new[OldRoot + 1].at = <<"dev">>
  <2>1. 2 \in 1 .. Len(H) /\ 2 \in 2 .. Len(H) /\ OldRoot + 1 = Len(H) + 2
        /\ OldRoot + 1 \in OldRoot .. 2 * HostSize
    BY <1>1, <1>7
  <2>2. H[2].fs = "devtmpfs" /\ H[2].parent = 1 /\ H[2].at = <<"dev">>
    BY <1>1, <2>1 DEF Fits
  <2>3. new[Len(H) + 2] = copy[2] /\ copy[2].fs = H[2].fs /\ copy[2].at = H[2].at
    BY <1>3, <1>6, <2>1
  <2>4. copy[2].parent = Len(H) + 1
    BY <1>3, <2>1, <2>2
  <2>5. OldRoot + 1 \in Old
    BY <2>1 DEF Old
  <2>6. /\ new[Len(H) + 2].fs = "devtmpfs" /\ new[Len(H) + 2].at = <<"dev">>
        /\ new[Len(H) + 2].parent = OldRoot
    BY <1>7, <2>2, <2>3, <2>4
  <2>7. OldRoot + 1 = Len(H) + 2
    BY <2>1
  <2> QED
    BY <2>5, <2>6, <2>7
<1>11. ASSUME NEW i \in Old
       PROVE  /\ new[i].parent # OldRoot + 1
              /\ new[i].parent = OldRoot /\ new[i].at = <<"dev">> => i = OldRoot + 1
  <2> DEFINE j == i - Len(H)
  <2>0. i \in Len(H) + 1 .. 2 * Len(H) /\ Len(H) \in Nat
    BY <1>1, <1>7 DEF Old
  <2>1. j \in 1 .. Len(H) /\ i = Len(H) + j /\ Len(H) \in Nat /\ j \in Nat
    BY <2>0
  <2> HIDE DEF j
  <2>2. /\ new[i].at = H[j].at
        /\ new[i].parent = IF H[j].parent = 0 THEN 0 ELSE Len(H) + H[j].parent
    BY <1>3, <1>6, <2>1
  <2>3. CASE j = 1
    BY <1>1, <1>7, <2>2, <2>3
  <2>4. CASE j # 1
    <3>1. j \in 2 .. Len(H)
      BY <2>1, <2>4
    <3>2. H[j].parent # 0 /\ H[j].parent \in Nat /\ H[j].parent # 2 /\ (H[j].at = <<"dev">> => j = 2)
      BY <1>1, <3>1 DEF Fits
    <3> QED
      BY <1>7, <2>1, <2>2, <3>2
  <2> QED
    BY <2>3, <2>4
<1> QED
  BY <1>9, <1>10, <1>11 DEF new, H

(* A path leads to another one in the image as it does by itself.          *)
LEMMA LeadsBelow ==
    ASSUME NEW p, IsSeq(p), NEW q, IsSeq(q)
    PROVE  /\ Leads(Rootfs \o p, Rootfs \o q) <=> Leads(p, q)
           /\ Len(Rootfs \o p) = Len(p) + 1 /\ Len(p) \in Nat
           /\ Len(p) > 0 => (Rootfs \o p)[Len(p) + 1] = p[Len(p)]
<1>1. IsSeq(Rootfs) /\ Len(Rootfs) = 1 /\ Len(p) \in Nat /\ Len(q) \in Nat
  BY SeqFacts, NamedPaths DEF Rootfs
<1> DEFINE a == Rootfs \o p
           b == Rootfs \o q
           o == Len(Rootfs)
<1>2. /\ Len(a) = o + Len(p) /\ \A i \in 1 .. o : a[i] = Rootfs[i]
      /\ \A i \in 1 .. Len(p) : a[o + i] = p[i]
  <2>1. IsSeq(Rootfs) /\ IsSeq(p)
    BY <1>1
  <2> QED
    BY <2>1, SeqConcat
<1>3. /\ Len(b) = o + Len(q) /\ \A i \in 1 .. o : b[i] = Rootfs[i]
      /\ \A i \in 1 .. Len(q) : b[o + i] = q[i]
  <2>1. IsSeq(Rootfs) /\ IsSeq(q)
    BY <1>1
  <2> QED
    BY <2>1, SeqConcat
<1>4. o = 1
  BY <1>1
<1> HIDE DEF a, b, o
<1>5. Leads(p, q) => Leads(a, b)
  <2> SUFFICES ASSUME Leads(p, q)
               PROVE  Leads(a, b)
    OBVIOUS
  <2>1. Len(a) <= Len(b)
    BY <1>1, <1>2, <1>3, <1>4 DEF Leads
  <2>2. ASSUME NEW i \in 1 .. Len(a)
        PROVE  a[i] = b[i]
    <3>1. CASE i = 1
      BY <1>2, <1>3, <1>4, <3>1
    <3>2. CASE i # 1
      <4> DEFINE j == i - 1
      <4>1. j \in 1 .. Len(p) /\ j \in 1 .. Len(q) /\ i = o + j
        BY <1>1, <1>2, <1>4, <3>2 DEF Leads
      <4> HIDE DEF j
      <4>2. a[i] = p[j] /\ b[i] = q[j]
        BY <1>2, <1>3, <4>1
      <4> QED
        BY <1>1, <4>1, <4>2 DEF Leads
    <3> QED
      BY <3>1, <3>2
  <2> QED
    BY <2>1, <2>2 DEF Leads
<1>6. Leads(a, b) => Leads(p, q)
  <2> SUFFICES ASSUME Leads(a, b)
               PROVE  Leads(p, q)
    OBVIOUS
  <2>1. Len(p) <= Len(q)
    BY <1>1, <1>2, <1>3, <1>4 DEF Leads
  <2>2. ASSUME NEW j \in 1 .. Len(p)
        PROVE  p[j] = q[j]
    <3>1. j \in 1 .. Len(q) /\ o + j \in 1 .. Len(a)
      BY <1>1, <1>2, <1>4, <2>1
    <3>2. a[o + j] = b[o + j]
      BY <3>1 DEF Leads
    <3> QED
      BY <1>2, <1>3, <3>1, <3>2
  <2> QED
    BY <2>1, <2>2 DEF Leads
<1>7. Len(a) = Len(p) + 1 /\ (Len(p) > 0 => a[Len(p) + 1] = p[Len(p)])
  <2>1. Len(a) = Len(p) + 1
    BY <1>1, <1>2, <1>4
  <2>2. ASSUME Len(p) > 0
        PROVE  a[Len(p) + 1] = p[Len(p)]
    <3>1. Len(p) \in 1 .. Len(p) /\ o + Len(p) = Len(p) + 1
      BY <1>1, <1>4, <2>2
    <3> QED
      BY <1>2, <3>1
  <2> QED
    BY <2>1, <2>2
<1>8. (Leads(a, b) <=> Leads(p, q)) /\ Len(a) = Len(p) + 1 /\ (Len(p) > 0 => a[Len(p) + 1] = p[Len(p)])
  BY <1>5, <1>6, <1>7
<1> QED
  BY <1>1, <1>8 DEF a, b

LEMMA SameSight ==
    ASSUME NEW ms, NEW r, Placed(ms, r), NEW new, HostPart(new), SamePlaces(ms, new),
           \A i \in 1 .. Len(ms) : new[i].fs = ms[i].fs, NEW q, Len(q) \in Nat
    PROVE  Sight(ms, r, q, new, r, q) /\ Walk(ms, r, q).mount \in 1 .. Len(ms)
<1>1. SameWays(ms, new)
  BY PlacedStays
<1>2. Rising(ms, Mine(ms)) /\ r \in Mine(ms) /\ Mine(ms) \in SUBSET (1 .. Len(ms))
  BY PlacedRises
<1>3. Walk(new, r, q) = Walk(ms, r, q)
  BY <1>1, <1>2, SameWalk
<1>4. Walk(ms, r, q).mount \in 1 .. Len(ms)
  BY <1>2, WalkEnds DEF IsGood, IsPlace
<1> QED
  BY <1>3, <1>4 DEF Sight

(* A new file system, and a bind mount, at a place of the container.       *)
LEMMA NewGrows ==
    ASSUME NEW ms, NEW r, Placed(ms, r), Quiet(ms), NEW to, IsGood(ms, Mine(ms), to),
           NEW fs, NEW ro
    PROVE  LET new == Attach(ms, to, <<NewMount(fs, ro)>>)
           IN  /\ Grows(ms, Mine(ms), to, <<NewMount(fs, ro)>>, new)
               /\ new[Len(ms) + 1].fs = fs /\ new[Len(ms) + 1].ro = ro
<1> DEFINE m == NewMount(fs, ro)
           tree == <<m>>
           new == Attach(ms, to, tree)
<1>1. /\ Rising(ms, Mine(ms)) /\ HostPart(ms)
      /\ \A i \in Mine(ms) : i \in Own(ms)
  BY PlacedRises
<1>2. IsPlace(Mine(ms), to) /\ to.mount \in Mine(ms) /\ IsSeq(to.dentry)
  BY DEF IsGood, IsPlace
<1>3. to.mount \in Own(ms) /\ ms[to.mount].group = 0
  BY <1>1, <1>2 DEF Quiet
<1>4. DOMAIN m = Fields /\ m.root = <<>> /\ m.fs = fs /\ m.ro = ro
  BY DEF NewMount, Fields
<1>5. IsSeq(<<>>)
  BY NamedPaths
<1> HIDE DEF m
<1>6. tree \in Seq({m}) /\ Len(tree) = 1 /\ tree[1] = m
  OBVIOUS
<1>7. IsSeq(tree)
  BY <1>6, EverySeq
<1> HIDE DEF tree
<1>8. /\ Records(tree) /\ Len(tree) >= 1
      /\ \A i \in 1 .. Len(tree) : IsSeq(tree[i].root)
      /\ \A i \in 2 .. Len(tree) : tree[i].parent \in 1 .. i - 1
  BY <1>4, <1>5, <1>6 DEF Records
<1>9. Grows(ms, Mine(ms), to, tree, new)
  BY <1>1, <1>2, <1>3, <1>7, <1>8, AttachGrows
<1> HIDE DEF new
<1>10. new[Len(ms) + 1].fs = fs /\ new[Len(ms) + 1].ro = ro
  <2>1. 1 \in 1 .. Len(tree)
    BY <1>6
  <2> QED
    BY <1>4, <1>6, <1>9, <2>1 DEF Grows
<1> QED
  BY <1>9, <1>10 DEF new, tree, m

LEMMA BoundGrows ==
    ASSUME NEW ms, NEW r, Placed(ms, r), Quiet(ms), NEW from, IsGood(ms, Mine(ms), from),
           NEW to, IsGood(ms, Mine(ms), to), NEW rec
    PROVE  LET new == Bind(ms, from, to, rec)
           IN  /\ Binds(ms, Mine(ms), from, to, Clone(ms, from, rec), new)
               /\ Grows(ms, Mine(ms), to, Clone(ms, from, rec), new)
               /\ new[Len(ms) + 1].fs = ms[from.mount].fs
<1> DEFINE tree == Clone(ms, from, rec)
           new == Bind(ms, from, to, rec)
           ids == Taken(ms, from, rec)
<1>1. /\ Rising(ms, Mine(ms)) /\ HostPart(ms) /\ Records(ms) /\ IsSeq(ms)
      /\ \A i \in Mine(ms) : i \in Own(ms) /\ IsSeq(ms[i].at)
      /\ Mine(ms) \in SUBSET (1 .. Len(ms))
  BY PlacedRises
<1>2. /\ IsPlace(Mine(ms), to) /\ to.mount \in Mine(ms) /\ IsSeq(to.dentry)
      /\ IsPlace(Mine(ms), from) /\ from.mount \in Mine(ms) /\ IsSeq(from.dentry)
  BY DEF IsGood, IsPlace
<1>3. ms[to.mount].group = 0
  BY <1>1, <1>2 DEF Quiet
<1>4. Binds(ms, Mine(ms), from, to, tree, new)
  BY <1>1, <1>2, <1>3, BindGrows
<1>5. Len(tree) >= 1 /\ ids[1] = from.mount /\ \A i \in 1 .. Len(tree) : tree[i].fs = ms[ids[i]].fs
  <2>1. from.mount \in 1 .. Len(ms)
    BY <1>1, <1>2
  <2> QED
    BY <1>1, <2>1, CloneShape
<1> HIDE DEF tree, new, ids
<1>6. Grows(ms, Mine(ms), to, tree, new)
  BY <1>4 DEF Binds
<1>7. new[Len(ms) + 1].fs = ms[from.mount].fs
  <2>1. 1 \in 1 .. Len(tree)
    BY <1>5, <1>6, SeqFacts DEF Grows
  <2> QED
    BY <1>5, <1>6, <2>1 DEF Grows
<1> QED
  BY <1>4, <1>6, <1>7 DEF tree, new

(* The last names of what is mounted and of where it is mounted, until the *)
(* devices of the container are made.                                      *)
MountPaths == {conf.mounts[i].dest : i \in DOMAIN conf.mounts}
              \cup {conf.mounts[i].source : i \in DOMAIN conf.mounts}
Names == HostNames \cup {"proc", "pts", "null"} \cup {p[Len(p)] : p \in MountPaths \ {<<>>}}

(* The process still has the host's /dev, with nothing on it.              *)
HostDev(ms) ==
    /\ OldRoot + 1 \in Old /\ ms[OldRoot + 1].fs = "devtmpfs"
    /\ ms[OldRoot + 1].parent = OldRoot /\ ms[OldRoot + 1].at = <<"dev">>
    /\ \A i \in Old :
          /\ ms[i].parent # OldRoot + 1
          /\ ms[i].parent = OldRoot /\ ms[i].at = <<"dev">> => i = OldRoot + 1

Named(ms) == Len(ms) >= 2 * HostSize /\ Signed(ms, Names) /\ HostDev(ms)

LEMMA NamedEnds ==
    /\ Ends(<<>>, Names) /\ Ends(Rootfs, Names) /\ Ends(<<"proc">>, Names)
    /\ Ends(<<"cgroup">>, Names) /\ Ends(Null, Names) /\ Ends(DevPts.dest, Names)
    /\ \A p \in MountPaths : Ends(p, Names)
<1>1. {"dev", "cgroup", "rootfs", "data", "proc", "pts", "null"} \subseteq Names
  BY DEF Names, HostNames
<1>2. Len(Null) = 2 /\ Null[2] = "null" /\ Len(DevPts.dest) = 2 /\ DevPts.dest[2] = "pts"
  BY DEF Null, DevPts
<1>3. ASSUME NEW p \in MountPaths
      PROVE  Ends(p, Names)
  BY DEF Ends, Names
<1> QED
  BY <1>1, <1>2, <1>3 DEF Ends, Rootfs

LEMMA LookupEnds ==
    ASSUME NEW ms, Placed(ms, root), Named(ms), NEW path, IsSeq(path), Ends(path, Names)
    PROVE  Ends(Walk(ms, root, path).dentry, Names) /\ Ends(InRootfs(ms, path).dentry, Names)
<1>1. Rising(ms, Mine(ms)) /\ root \in Mine(ms) /\ Signed(ms, Names)
  BY PlacedRises DEF Named
<1> DEFINE q == Rootfs \o path
<1>2. Len(path) \in Nat /\ Len(q) = Len(path) + 1 /\ (Len(path) > 0 => q[Len(path) + 1] = path[Len(path)])
  BY LeadsBelow
<1>3. Len(path) = 0 => q[1] = "rootfs"
  <2>1. IsSeq(Rootfs) /\ IsSeq(path)
    BY NamedPaths
  <2>2. \A i \in 1 .. Len(Rootfs) : q[i] = Rootfs[i]
    BY <2>1, SeqConcat
  <2>3. Len(Rootfs) = 1 /\ Rootfs[1] = "rootfs"
    BY DEF Rootfs
  <2> QED
    BY <2>2, <2>3
<1> HIDE DEF q
<1>4. Ends(q, Names)
  <2>1. "rootfs" \in Names
    BY DEF Names, HostNames
  <2>2. CASE Len(path) = 0
    BY <1>2, <1>3, <2>1, <2>2 DEF Ends
  <2>3. CASE Len(path) # 0
    BY <1>2, <2>3 DEF Ends
  <2> QED
    BY <2>2, <2>3
<1>5. Ends(Walk(ms, root, path).dentry, Names)
  BY <1>1, <1>2, WalkEndsIn
<1>6. Ends(Walk(ms, root, q).dentry, Names)
  <2>1. Len(q) \in Nat
    BY <1>2
  <2> QED
    BY <1>1, <1>4, <2>1, WalkEndsIn
<1> QED
  BY <1>5, <1>6 DEF InRootfs, q

LEMMA NamedStays ==
    ASSUME NEW ms, Placed(ms, root), Named(ms), NEW new, SamePlaces(ms, new),
           \A i \in 1 .. Len(ms) : new[i].fs = ms[i].fs
    PROVE  Named(new)
<1>1. Old \in SUBSET (1 .. Len(ms)) /\ OldRoot + 1 \in Old
  BY Parts DEF Placed, Named, HostDev
<1>2. Signed(new, Names)
  BY DEF Named, Signed, SamePlaces
<1>3. HostDev(new)
  BY <1>1 DEF Named, HostDev, SamePlaces
<1> QED
  BY <1>2, <1>3 DEF Named, SamePlaces

LEMMA NamedGrows ==
    ASSUME NEW ms, Placed(ms, root), Named(ms), NEW new, Len(new) \in Nat, Len(new) >= Len(ms),
           \A i \in 1 .. Len(ms) : new[i] = ms[i], Signed(new, Names)
    PROVE  Named(new)
<1>1. Old \in SUBSET (1 .. Len(ms)) /\ OldRoot + 1 \in Old /\ Len(ms) \in Nat /\ HostSize \in 3 .. 5
  BY Parts DEF Placed, Named, HostDev
<1>2. HostDev(new)
  BY <1>1 DEF Named, HostDev
<1> QED
  BY <1>1, <1>2 DEF Named

LEMMA NamedNew ==
    ASSUME NEW ms, Placed(ms, root), Quiet(ms), Named(ms), NEW to, IsGood(ms, Mine(ms), to),
           Ends(to.dentry, Names), NEW fs, NEW ro
    PROVE  Named(Attach(ms, to, <<NewMount(fs, ro)>>))
<1> DEFINE tree == <<NewMount(fs, ro)>>
           new == Attach(ms, to, tree)
<1>1. Grows(ms, Mine(ms), to, tree, new)
  BY NewGrows
<1>2. Len(tree) = 1 /\ tree[1].root = <<>>
  BY DEF NewMount
<1> HIDE DEF tree, new
<1>3. Signed(new, Names)
  <2>1. /\ \A i \in 1 .. Len(tree) : Ends(tree[i].root, Names)
        /\ \A i \in 2 .. Len(tree) : Ends(tree[i].at, Names)
    BY <1>2, NamedEnds
  <2>2. Signed(ms, Names)
    BY DEF Named
  <2> QED
    BY <1>1, <2>1, <2>2, SignedGrows
<1>4. /\ Len(new) \in Nat /\ Len(new) >= Len(ms)
      /\ \A i \in 1 .. Len(ms) : new[i] = ms[i]
  <2>1. Len(ms) \in Nat /\ Len(tree) \in Nat /\ Len(new) = Len(ms) + Len(tree)
    BY <1>1, GrownOver
  <2> QED
    BY <1>1, <2>1 DEF Grows
<1>5. Named(new)
  BY <1>3, <1>4, NamedGrows
<1> QED
  BY <1>5 DEF new, tree

LEMMA NamedBind ==
    ASSUME NEW ms, Placed(ms, root), Quiet(ms), Named(ms), NEW from, IsGood(ms, Mine(ms), from),
           NEW to, IsGood(ms, Mine(ms), to),
           Ends(from.dentry, Names), Ends(to.dentry, Names), NEW rec
    PROVE  Named(Bind(ms, from, to, rec))
<1> DEFINE new == Bind(ms, from, to, rec)
           tree == Clone(ms, from, rec)
<1>1. Grows(ms, Mine(ms), to, tree, new)
  BY BoundGrows
<1>2. /\ Rising(ms, Mine(ms)) /\ Records(ms) /\ \A i \in Mine(ms) : i \in Own(ms)
  BY PlacedRises
<1>3. /\ IsPlace(Mine(ms), to) /\ to.mount \in Mine(ms)
      /\ IsPlace(Mine(ms), from) /\ from.mount \in Mine(ms) /\ IsSeq(from.dentry)
  BY DEF IsGood, IsPlace
<1>4. ms[to.mount].group = 0 /\ Signed(ms, Names)
  BY <1>2, <1>3 DEF Quiet, Named
<1>5. Signed(new, Names)
  BY <1>2, <1>3, <1>4, SignedBind
<1> HIDE DEF new, tree
<1>6. /\ Len(new) \in Nat /\ Len(new) >= Len(ms)
      /\ \A i \in 1 .. Len(ms) : new[i] = ms[i]
  <2>1. Len(ms) \in Nat /\ Len(tree) \in Nat /\ Len(new) = Len(ms) + Len(tree)
    BY <1>1, GrownOver
  <2> QED
    BY <1>1, <2>1 DEF Grows
<1>7. Named(new)
  BY <1>5, <1>6, NamedGrows
<1> QED
  BY <1>7 DEF new

(* The mount namespace of the container begins with the host's mounts.     *)
LEMMA CloneNamed == Named(CloneNamespace(Host(conf)))
<1> DEFINE new == CloneNamespace(Host(conf))
<1>1. Len(new) = 2 * HostSize /\ HostPart(new)
  BY CloneNamespaceFacts
<1>2. /\ \A i \in 1 .. Len(new) : Ends(new[i].at, HostNames) /\ Ends(new[i].root, HostNames)
      /\ HostDev(new)
  BY HostCopies DEF HostDev
<1> HIDE DEF new
<1>3. HostNames \subseteq Names
  BY DEF Names
<1>4. Signed(new, Names)
  BY <1>2, <1>3 DEF Signed, Ends
<1>5. Len(new) >= 2 * HostSize
  BY <1>1, OwnClosed
<1> QED
  BY <1>2, <1>4, <1>5 DEF Named, new

(* MountRootfs.                                                            *)
LEMMA MountRootfsNamed ==
    ASSUME HostInv, hasMountNamespace, Confined, MountRootfs, pc' = "mountProc"
    PROVE  Named(mnt')
<1> DEFINE flag == getPropagationFlag(conf.propagation)
           first == IF flag = None THEN DefaultPropagation ELSE flag
           s1 == SetPropagation(mnt, root, first)
           up == InRootfs(s1, <<>>).mount
           second == [kind |-> "private", rec |-> FALSE]
           s2 == SetPropagation(s1, up, second)
           p == InRootfs(s2, <<>>)
           s3 == Bind(s2, p, p, TRUE)
<1>1. mnt' = s3
  BY DEF MountRootfs, Mounts, Refused, Goto, rootfsParentMountPrivate
<1>2. /\ TableInv /\ HostPart(mnt) /\ root \in Own(mnt) /\ root = OldRoot
      /\ mnt = CloneNamespace(Host(conf)) /\ IsSeq(<<>>)
  BY NamedPaths DEF HostInv, TableInv, MountRootfs, Mounts, Refused, Goto, PrePivot
<1>3. first.rec = TRUE /\ first.kind # "shared"
  BY FirstPropagation
<1> HIDE DEF first
<1>4. Placed(mnt, root) /\ Named(mnt)
  BY <1>2, ClonePlaced, CloneNamed
<1>5. Placed(s1, root) /\ Quiet(s1) /\ Named(s1)
  <2>1. Placed(s1, root)
    BY <1>2, <1>4, PlacedPropagation
  <2>2. Quiet(s1)
    BY <1>2, <1>3, PropagationReachesAll
  <2>3. SamePlaces(mnt, s1) /\ \A i \in 1 .. Len(mnt) : s1[i].fs = mnt[i].fs
    BY <1>2, PropagationPlaces, PropagationShows DEF HostPart
  <2> HIDE DEF s1
  <2> QED
    BY <1>4, <2>1, <2>2, <2>3, NamedStays
<1> HIDE DEF s1
<1>6. up \in Own(s1) /\ HostPart(s1)
  <2>1. HostPart(s1)
    BY <1>5 DEF Placed
  <2> QED
    BY <1>2, <1>5, <2>1, PlacedFacts
<1> HIDE DEF up
<1>7. second.kind # "shared"
  OBVIOUS
<1> HIDE DEF second
<1>8. Placed(s2, root) /\ Quiet(s2) /\ Named(s2)
  <2>1. Placed(s2, root)
    BY <1>5, <1>6, PlacedPropagation
  <2>2. Quiet(s2)
    BY <1>5, <1>6, <1>7, OwnPropagation
  <2>3. SamePlaces(s1, s2) /\ \A i \in 1 .. Len(s1) : s2[i].fs = s1[i].fs
    BY <1>6, PropagationPlaces, PropagationShows DEF HostPart
  <2> HIDE DEF s2
  <2> QED
    BY <1>5, <2>1, <2>2, <2>3, NamedStays
<1> HIDE DEF s2
<1>9. IsGood(s2, Mine(s2), p)
  BY <1>2, <1>8, PlacedFacts
<1>10. Ends(p.dentry, Names)
  BY <1>2, <1>8, NamedEnds, LookupEnds
<1> HIDE DEF p
<1>11. Named(s3)
  BY <1>8, <1>9, <1>10, NamedBind
<1> QED
  BY <1>1, <1>11

(* The options of a mount leave what is there as it is, and make no mount  *)
(* read-only that was there before.                                        *)
LEMMA NewTree ==
    ASSUME NEW ms, NEW X, NEW to, NEW tree, NEW new, Grows(ms, X, to, tree, new),
           X = Mine(ms), HostPart(ms), NEW set, SamePlaces(new, set), IsSeq(set),
           NEW d \in Len(ms) + 1 .. Len(new)
    PROVE  Tree(set, d) \subseteq Len(ms) + 1 .. Len(new)
<1>1. /\ Len(ms) \in Nat /\ Len(tree) \in Nat /\ Len(new) = Len(ms) + Len(tree)
  BY GrownOver
<1>2. /\ Rising(ms, X) /\ IsSeq(new) /\ \A i \in 1 .. Len(ms) : new[i] = ms[i]
  BY DEF Grows, Rising
<1>3. /\ DOMAIN new = 1 .. Len(new) /\ DOMAIN ms = 1 .. Len(ms) /\ DOMAIN set = 1 .. Len(new)
      /\ Len(set) = Len(new) /\ Len(set) \in Nat
  BY <1>1, <1>2, SeqFacts DEF Rising, SamePlaces
<1> DEFINE F == Len(ms) + 1 .. Len(new)
<1>4. Closed(set, F)
  <2> SUFFICES ASSUME NEW i \in Mounted(set), set[i].parent \in F
               PROVE  i \in F
    BY DEF Closed
  <2>1. i \in 1 .. Len(new) /\ new[i].ns # "none" /\ new[i].parent \in F
    BY <1>3 DEF Mounted, SamePlaces
  <2>2. CASE i \in 1 .. Len(ms)
    <3>1. i \in Mounted(ms) /\ new[i] = ms[i]
      BY <1>2, <1>3, <2>1, <2>2 DEF Mounted
    <3>2. ms[i].parent \in 0 .. Len(ms)
      BY <1>2, <3>1 DEF Rising
    <3> QED
      BY <1>1, <2>1, <3>1, <3>2
  <2> QED
    BY <1>1, <2>1, <2>2
<1> QED
  BY <1>3, <1>4, TreeWithin

SpecStep(tree, done) ==
    LET m == SpecMounts[next]
    IN  /\ Grows(mnt, Mine(mnt), InRootfs(mnt, m.dest), tree, done)
        /\ Placed(done, root) /\ Named(done)
        /\ SamePlaces(done, mnt')
        /\ \A i \in 1 .. Len(done) : mnt'[i].fs = done[i].fs
        /\ \A i \in 1 .. Len(mnt) : mnt'[i].ro = mnt[i].ro
        /\ m.type # "cgroup" /\ "BIND" \notin Flags(m.options) =>
              /\ Len(tree) = 1 /\ done[Len(mnt) + 1].fs = m.type
              /\ "RDONLY" \notin Flags(m.options) /\ "rro" \notin Range(m.options) =>
                    ~mnt'[Len(mnt) + 1].ro

LEMMA SpecMountSteps ==
    ASSUME HostInv, hasMountNamespace, Confined, Placed(mnt, root), Named(mnt), MountSpecMount,
           pc' # "refused"
    PROVE  \E tree, done : SpecStep(tree, done)
<1> DEFINE m == SpecMounts[next]
           dest == InRootfs(mnt, m.dest)
           done == DoMount(mnt, m, dest)
           cgroup == Bind(mnt, At(<<"cgroup">>), dest, TRUE)
<1>1. Quiet(mnt) /\ HostPart(mnt) /\ root = OldRoot
  BY DEF HostInv, TableInv, MountSpecMount, Refused, Goto, Ended, PrePivot
<1>2. IsSeq(m.dest) /\ IsSeq(m.source) /\ IsSeq(<<"cgroup">>)
  BY SpecMountPaths, NamedPaths
<1>3. Ends(m.dest, Names) /\ Ends(m.source, Names) /\ Ends(<<"cgroup">>, Names)
  <2>1. next \in Nat \ {0} /\ next <= Len(SpecMounts)
    BY DEF HostInv, MountSpecMount, Refused, Goto
  <2>2. DOMAIN conf.mounts = 1 .. Len(conf.mounts) /\ Len(conf.mounts) \in Nat
    BY RootFSAssumption DEF HostInv
  <2>3. \/ next \in DOMAIN conf.mounts /\ m = conf.mounts[next]
        \/ m = DevPts
    <3>1. conf.mounts \in Seq([dest : Seq(STRING), type : STRING, source : Seq(STRING),
                               options : Seq(STRING)])
      BY RootFSAssumption DEF HostInv
    <3> QED
      BY <2>1, <2>2, <3>1 DEF SpecMounts
  <2> HIDE DEF m
  <2>4. CASE next \in DOMAIN conf.mounts /\ m = conf.mounts[next]
    <3>1. m.dest \in MountPaths /\ m.source \in MountPaths
      BY <2>4 DEF MountPaths
    <3> QED
      BY <3>1, NamedEnds
  <2>5. CASE m = DevPts
    <3>1. m.dest = DevPts.dest /\ m.source = <<>>
      BY <2>5 DEF DevPts
    <3> QED
      BY <3>1, NamedEnds
  <2> QED
    BY <2>3, <2>4, <2>5
<1> HIDE DEF m
<1>4. /\ IsGood(mnt, Mine(mnt), dest) /\ IsGood(mnt, Mine(mnt), At(m.source))
      /\ IsGood(mnt, Mine(mnt), At(<<"cgroup">>))
  BY <1>2, PlacedFacts DEF At
<1>5. Ends(dest.dentry, Names) /\ Ends(At(m.source).dentry, Names) /\ Ends(At(<<"cgroup">>).dentry, Names)
  BY <1>2, <1>3, LookupEnds DEF At
<1>6. mnt' = IF m.type = "cgroup" THEN cgroup ELSE ApplyOptions(done, m)
  BY DEF MountSpecMount, Refused, Goto, m, dest, cgroup, done
<1>7. CASE m.type = "cgroup"
  <2> DEFINE tree == Clone(mnt, At(<<"cgroup">>), TRUE)
  <2>1. Grows(mnt, Mine(mnt), dest, tree, cgroup) /\ Placed(cgroup, root) /\ Named(cgroup)
    BY <1>1, <1>4, <1>5, BoundGrows, PlacedBind, NamedBind
  <2>2. mnt' = cgroup
    BY <1>6, <1>7
  <2> HIDE DEF tree, cgroup
  <2>3. SamePlaces(cgroup, mnt')
    BY <2>2 DEF SamePlaces
  <2>4. /\ \A i \in 1 .. Len(cgroup) : mnt'[i].fs = cgroup[i].fs
        /\ \A i \in 1 .. Len(mnt) : mnt'[i].ro = mnt[i].ro
    BY <2>1, <2>2 DEF Grows
  <2>5. SpecStep(tree, cgroup)
    BY <1>7, <2>1, <2>3, <2>4 DEF SpecStep, m, dest
  <2> QED
    BY <2>5
<1>8. CASE m.type # "cgroup"
  <2> DEFINE bind == "BIND" \in Flags(m.options)
             ro == "RDONLY" \in Flags(m.options)
             tree == IF bind THEN Clone(mnt, At(m.source), "REC" \in Flags(m.options))
                             ELSE <<NewMount(m.type, ro)>>
  <2> HIDE DEF bind, ro
  <2>1. /\ Grows(mnt, Mine(mnt), dest, tree, done) /\ Placed(done, root) /\ Named(done)
        /\ ~bind => Len(tree) = 1 /\ done[Len(mnt) + 1].fs = m.type /\ done[Len(mnt) + 1].ro = ro
    <3>1. CASE bind
      <4>1. done = Bind(mnt, At(m.source), dest, "REC" \in Flags(m.options))
        BY <3>1 DEF DoMount, bind
      <4>2. tree = Clone(mnt, At(m.source), "REC" \in Flags(m.options))
        BY <3>1
      <4> HIDE DEF tree, done
      <4> QED
        BY <1>1, <1>4, <1>5, <3>1, <4>1, <4>2, BoundGrows, PlacedBind, NamedBind
    <3>2. CASE ~bind
      <4>1. done = Attach(mnt, dest, <<NewMount(m.type, ro)>>)
        BY <3>2 DEF DoMount, bind, ro
      <4>2. tree = <<NewMount(m.type, ro)>>
        BY <3>2
      <4>3. Len(tree) = 1
        BY <4>2
      <4> HIDE DEF tree, done
      <4> QED
        BY <1>1, <1>4, <1>5, <3>2, <4>1, <4>2, <4>3, NewGrows, PlacedNew, NamedNew
    <3> QED
      BY <3>1, <3>2
  <2> HIDE DEF tree
  <2> HIDE DEF done
  <2> DEFINE d == InRootfs(done, m.dest).mount
             flag == MountPropagation(m.options)
             set == IF flag = None THEN done ELSE SetPropagation(done, d, flag)
             final == IF "rro" \in Range(m.options) THEN SetReadonly(set, Tree(set, d)) ELSE set
  <2>2. mnt' = final
    BY <1>6, <1>8 DEF ApplyOptions
  <2>3. HostPart(done) /\ IsSeq(done) /\ Records(done) /\ Len(done) \in Nat
    BY <2>1, OwnClosed DEF Placed, HostPart
  <2>4. d \in Len(mnt) + 1 .. Len(done)
    <3> DEFINE q == Rootfs \o m.dest
    <3>1. Len(q) \in Nat /\ Len(q) > 0 /\ Leads(q, q)
      BY <1>2, LeadsBelow DEF Leads
    <3>2. dest = Walk(mnt, root, q) /\ d = Walk(done, root, q).mount
      BY DEF InRootfs
    <3> HIDE DEF q
    <3>3. root \in Mine(mnt)
      BY DEF Placed
    <3>4. Walk(done, root, q) = Top(done, RootOf(done, Len(mnt) + 1))
      <4> HIDE DEF dest
      <4> QED
        BY <2>1, <3>1, <3>2, <3>3, GrownWalk
    <3>5. /\ Len(mnt) \in Nat /\ Len(tree) \in Nat /\ Len(done) = Len(mnt) + Len(tree)
          /\ Len(tree) >= 1 /\ Rising(done, Grown(mnt, Mine(mnt), done))
      <4> HIDE DEF dest
      <4> QED
        BY <2>1, GrownOver DEF Grows
    <3>6. IsPlace(Grown(mnt, Mine(mnt), done), RootOf(done, Len(mnt) + 1))
      <4>1. 1 \in 1 .. Len(tree)
        BY <3>5
      <4> HIDE DEF dest
      <4>2. IsPlace(Grown(mnt, Mine(mnt), done), Place(Len(mnt) + 1, done[Len(mnt) + 1].root))
        BY <2>1, <4>1, GrownPlace
      <4> QED
        BY <4>2 DEF RootOf
    <3> DEFINE a == RootOf(done, Len(mnt) + 1)
               z == Top(done, a)
    <3>7. IsPlace(Grown(mnt, Mine(mnt), done), z) /\ (z = a \/ z.mount > a.mount)
      BY <3>5, <3>6, TopUnfold
    <3>8. a.mount = Len(mnt) + 1 /\ d = z.mount
      BY <3>2, <3>4 DEF RootOf, Place
    <3> HIDE DEF a, z
    <3>9. z.mount \in Mine(mnt) \cup (Len(mnt) + 1 .. Len(done)) /\ Mine(mnt) \in SUBSET (1 .. Len(mnt))
      BY <3>7, PlacedRises DEF IsPlace, Grown
    <3>10. z.mount \in Nat /\ z.mount >= Len(mnt) + 1
      BY <3>5, <3>7, <3>8, <3>9
    <3> QED
      BY <3>5, <3>8, <3>9, <3>10
  <2>5. /\ SamePlaces(done, set) /\ IsSeq(set) /\ Records(set) /\ Len(set) = Len(done)
        /\ \A i \in 1 .. Len(done) : set[i].fs = done[i].fs /\ set[i].ro = done[i].ro
    <3>1. CASE flag = None
      BY <2>3, <3>1 DEF SamePlaces
    <3>2. CASE flag # None
      <4>1. /\ SamePlaces(done, set)
            /\ \A i \in 1 .. Len(done) : set[i].fs = done[i].fs /\ set[i].ro = done[i].ro
        BY <2>3, <3>2, PropagationPlaces, PropagationShows
      <4>2. d \in Own(done)
        <5>1. HostSize \in 3 .. 5 /\ HostSize < Len(mnt) /\ Len(mnt) \in Nat
          BY <1>1, OwnClosed DEF HostPart
        <5> HIDE DEF d
        <5> QED
          BY <2>3, <2>4, <5>1 DEF Own
      <4>3. HostPart(set)
        BY <2>3, <3>2, <4>2, OwnPropagation
      <4> QED
        BY <4>1, <4>3 DEF HostPart, SamePlaces
    <3> QED
      BY <3>1, <3>2
  <2> HIDE DEF flag, set
  <2>6. Tree(set, d) \subseteq Len(mnt) + 1 .. Len(done)
    <3> HIDE DEF d, dest
    <3> QED
      BY <1>1, <2>1, <2>4, <2>5, NewTree
  <2> HIDE DEF d
  <2>7. /\ SamePlaces(done, final)
        /\ \A i \in 1 .. Len(done) :
              /\ final[i].fs = done[i].fs
              /\ i <= Len(mnt) => final[i].ro = done[i].ro
              /\ "rro" \notin Range(m.options) => final[i].ro = done[i].ro
    <3>1. CASE "rro" \in Range(m.options)
      <4>1. SamePlaces(set, final)
        BY <2>5, <3>1, ReadonlyPlaces
      <4>2. \A i \in 1 .. Len(set) : final[i].fs = set[i].fs
        BY <2>5, <3>1, ReadonlyShows
      <4>3. \A i \in 1 .. Len(set) : i <= Len(mnt) => final[i] = set[i]
        <5>1. \A i \in 1 .. Len(set) : i <= Len(mnt) => i \notin Tree(set, d)
          BY <1>1, <2>3, <2>5, <2>6, OwnClosed
        <5> QED
          BY <2>5, <3>1, <5>1, SetReadonlyKeeps
      <4> QED
        BY <2>5, <3>1, <4>1, <4>2, <4>3 DEF SamePlaces
    <3>2. CASE "rro" \notin Range(m.options)
      BY <2>5, <3>2
    <3> QED
      BY <3>1, <3>2
  <2> HIDE DEF final
  <2>8. /\ Len(mnt) \in Nat /\ Len(tree) \in Nat /\ Len(done) = Len(mnt) + Len(tree) /\ Len(tree) >= 1
        /\ \A i \in 1 .. Len(mnt) : done[i] = mnt[i]
    <3> HIDE DEF dest
    <3> QED
      BY <2>1, GrownOver DEF Grows
  <2>9. \A i \in 1 .. Len(mnt) : final[i].ro = mnt[i].ro
    BY <2>7, <2>8
  <2>10. ~bind => /\ Len(tree) = 1 /\ done[Len(mnt) + 1].fs = m.type
                  /\ ~ro /\ "rro" \notin Range(m.options) => ~final[Len(mnt) + 1].ro
    BY <2>1, <2>7, <2>8
  <2>11. SpecStep(tree, done)
    BY <2>1, <2>2, <2>7, <2>9, <2>10 DEF SpecStep, m, dest, bind, ro
  <2> QED
    BY <2>11
<1> QED
  BY <1>7, <1>8

(* The process finds the host's /dev/null.                                 *)
LEMMA NullIsHost ==
    ASSUME NEW ms, Placed(ms, OldRoot), Named(ms), Layout(ms)
    PROVE  ms[Walk(ms, OldRoot, Null).mount].fs = "devtmpfs"
<1> DEFINE r == OldRoot
           dev == OldRoot + 1
           X == Mine(ms)
<1>1. /\ Rising(ms, X) /\ IsSeq(ms) /\ HostPart(ms) /\ Len(ms) \in Nat /\ r \in X
  BY PlacedRises
<1>2. /\ HostSize \in 3 .. 5 /\ DOMAIN ms = 1 .. Len(ms) /\ OldRoot = HostSize + 1 /\ OldRoot \in Old
      /\ Old \in SUBSET (1 .. Len(ms)) /\ OldRoot \notin Fresh(ms) /\ dev \notin Fresh(ms)
      /\ \A i \in 1 .. Len(ms) : i \in 1 .. HostSize \/ i \in Old \/ i \in Fresh(ms)
      /\ \A i \in 1 .. HostSize : ms[i].parent \in 0 .. HostSize - 1
  <2>1. OldRoot \notin Fresh(ms) /\ dev \notin Fresh(ms)
    <3>1. HostSize \in 3 .. 5
      BY <1>1, OwnClosed
    <3> QED
      BY <3>1 DEF OldRoot, Fresh
  <2> QED
    BY <1>1, <2>1, Parts DEF Named
<1>3. /\ Skeleton(ms) /\ HostDev(ms)
      /\ Place(ms[2 * HostSize + 1].parent, ms[2 * HostSize + 1].at) = Base(ms)
      /\ \A i \in Fresh(ms) : i # 2 * HostSize + 1 => ms[i].parent \in Fresh(ms)
  BY DEF Layout, Named
<1>4. Base(ms).mount # dev /\ (Base(ms).mount = r => Base(ms).dentry # <<"dev">>)
  <2>1. Image # dev /\ Image # OldRoot
    BY <1>2 DEF Image
  <2>2. Rootfs # <<"dev">> /\ OldRoot # dev
    BY <1>2 DEF Rootfs
  <2> QED
    BY <2>1, <2>2 DEF Base, Place
<1>5. dev \in Old /\ ms[dev].parent = OldRoot /\ ms[dev].at = <<"dev">> /\ ms[dev].root = <<>>
      /\ ms[dev].ns = "container" /\ ms[dev].fs = "devtmpfs" /\ ms[r].root = <<>>
  BY <1>2, <1>3 DEF HostDev, Skeleton
<1>6. ASSUME NEW i \in 1 .. Len(ms)
      PROVE  /\ ms[i].parent # dev
             /\ ms[i].parent = r /\ ms[i].at = <<"dev">> => i = dev
  <2>1. CASE i \in 1 .. HostSize
    BY <1>2, <2>1
  <2>2. CASE i \in Old
    BY <1>3, <2>2 DEF HostDev
  <2>3. CASE i \in Fresh(ms) /\ i # 2 * HostSize + 1
    BY <1>2, <1>3, <2>3
  <2>4. CASE i = 2 * HostSize + 1
    BY <1>3, <1>4, <2>4 DEF Place
  <2> QED
    BY <1>2, <2>1, <2>2, <2>3, <2>4
<1> DEFINE y == Place(r, Append(<<>>, "dev"))
<1>7. y = Place(r, <<"dev">>)
  OBVIOUS
<1>8. Over(ms, y) = {dev}
  <2>1. dev \in Mounted(ms)
    BY <1>2, <1>5 DEF Mounted
  <2>2. dev \in Over(ms, y)
    BY <1>5, <1>7, <2>1 DEF Over, Children, Place
  <2>3. \A i \in Over(ms, y) : i = dev
    BY <1>2, <1>6, <1>7 DEF Over, Children, Mounted, Place
  <2> QED
    BY <2>2, <2>3
<1>9. \A d : Over(ms, Place(dev, d)) = {}
  BY <1>2, <1>6 DEF Over, Children, Mounted, Place
<1>10. Closed(ms, {dev})
  BY <1>2, <1>6 DEF Closed, Mounted
<1>11. Top(ms, y).mount = dev
  <2>1. IsPlace(X, y)
    BY <1>1, <1>7 DEF IsPlace, Place
  <2>2. Up(ms, y).mount = dev
    <3>1. Up(ms, y).mount = Max(Over(ms, y)) /\ Max(Over(ms, y)) \in Over(ms, y)
      BY <1>1, <1>8, <2>1, UpRises
    <3> QED
      BY <1>8, <3>1
  <2>3. Top(ms, y) = Top(ms, Up(ms, y))
    BY <1>1, <1>8, <2>1, TopUnfold
  <2> QED
    BY <1>1, <1>10, <2>2, <2>3, TopWithin
<1>12. Len(Null) = 2 /\ Len(Null) \in Nat /\ Null[1] = "dev" /\ Null[2] = "null"
  BY DEF Null
<1>13. PICK g : Steps(ms, r, Null, g) /\ Walk(ms, r, Null) = g[Len(Null)]
  <2>1. Len(Null) \in Nat
    BY <1>12
  <2> QED
    BY <2>1, WalkTaken
<1>14. g[0] = RootOf(ms, r) /\ g[1] = Enter(ms, g[0], Null[1]) /\ g[2] = Enter(ms, g[1], Null[2])
  <2>1. 1 \in 1 .. Len(Null) /\ 2 \in 1 .. Len(Null) /\ 1 - 1 = 0 /\ 2 - 1 = 1
    BY <1>12
  <2> QED
    BY <1>13, <2>1 DEF Steps
<1>15. g[1] = Top(ms, y)
  BY <1>5, <1>12, <1>14 DEF Enter, RootOf, Place
<1> HIDE DEF y
<1> DEFINE z == Place(g[1].mount, Append(g[1].dentry, Null[2]))
<1>16. g[2] = Top(ms, z)
  BY <1>14 DEF Enter
<1>17. z.mount = dev
  BY <1>11, <1>15 DEF Place
<1> HIDE DEF z
<1>18. Top(ms, z).mount = dev
  BY <1>1, <1>10, <1>17, TopWithin
<1> QED
  BY <1>5, <1>12, <1>13, <1>16, <1>18

(* pivot_root keeps what is seen in the image.                             *)
LEMMA PivotStill ==
    ASSUME HostInv, hasMountNamespace, Confined, Placed(mnt, root), Layout(mnt), PivotRoot,
           pc' = "detach", NEW q, IsSeq(q)
    PROVE  Still(mnt, root, Rootfs \o q, mnt', root', q)
<1> DEFINE new == InRootfs(mnt, <<>>)
           n == new.mount
           X == Mine(mnt)
<1>1. /\ mnt' = Pivot(mnt, root, n) /\ root' = n /\ n # root /\ IsRoot(mnt, new)
  BY DEF PivotRoot, Refused, Goto, CanPivot
<1>2. /\ HostPart(mnt) /\ root = OldRoot /\ IsSeq(mnt) /\ Records(mnt)
      /\ Rising(mnt, X) /\ root \in X /\ X \in SUBSET (1 .. Len(mnt))
  BY PlacedRises DEF HostInv, TableInv, PivotRoot, Refused, Goto, PrePivot
<1>3. IsGood(mnt, X, new)
  BY NamedPaths, PlacedFacts
<1>4. n \in X /\ new = RootOf(mnt, n)
  BY <1>1, <1>3 DEF IsGood, IsPlace, IsRoot, RootOf
<1>5. Len(mnt) \in Nat /\ DOMAIN mnt = 1 .. Len(mnt)
  BY <1>2, SeqFacts
<1>6. /\ Len(mnt') = Len(mnt) /\ DOMAIN mnt' = DOMAIN mnt /\ IsSeq(mnt')
      /\ \A i \in DOMAIN mnt \ {n, root} : mnt'[i] = mnt[i]
  <2>1. HostPart(mnt')
    BY PivotKeeps DEF Harmless
  <2> QED
    BY <1>1, <1>2, <1>5, <2>1 DEF Pivot, HostPart
<1>7. mnt[root].root = <<>> /\ mnt[root].parent = 0
  <2>1. OldRoot \in Old
    <3>1. HostSize \in 3 .. 5
      BY <1>2, OwnClosed
    <3> QED
      BY <3>1 DEF Old, OldRoot
  <2> QED
    BY <1>2, <2>1 DEF Layout, Skeleton
<1>8. Walk(mnt, OldRoot, Rootfs \o q) = Walk(mnt, n, q)
  <2>1. Walk(mnt, OldRoot, Rootfs \o <<>>) = RootOf(mnt, n)
    BY <1>2, <1>4 DEF InRootfs
  <2> QED
    BY <1>2, <1>7, <2>1, ImageView
<1> HIDE DEF new
<1> HIDE DEF n
<1>9. /\ mnt'[n].parent = 0 /\ mnt'[n].ns = mnt[n].ns /\ mnt'[n].fs = mnt[n].fs /\ mnt'[n].ro = mnt[n].ro
      /\ mnt'[n].at = mnt[n].at /\ mnt'[n].root = mnt[n].root
  <2>1. DOMAIN mnt[n] = Fields
    BY <1>2, <1>4 DEF Records
  <2>2. mnt'[n] = [mnt[n] EXCEPT !.parent = 0]
    BY <1>1, <1>2, <1>4, <1>5 DEF Pivot
  <2> QED
    BY <2>1, <2>2 DEF Fields
<1>10. /\ mnt'[root].parent = n /\ mnt'[root].ns = mnt[root].ns /\ mnt'[root].fs = mnt[root].fs /\ mnt'[root].ro = mnt[root].ro
       /\ mnt'[root].at = mnt[n].root /\ mnt'[root].root = mnt[root].root
  <2>1. DOMAIN mnt[root] = Fields
    BY <1>2 DEF Records
  <2>2. mnt'[root] = [mnt[root] EXCEPT !.parent = n, !.at = mnt[n].root]
    BY <1>1, <1>2, <1>4, <1>5, <2>1 DEF Pivot, Fields
  <2> QED
    BY <2>1, <2>2 DEF Fields
<1>11. \A i \in 1 .. Len(mnt) : /\ mnt'[i].root = mnt[i].root /\ mnt'[i].fs = mnt[i].fs
                                /\ mnt'[i].ns = mnt[i].ns /\ mnt'[i].ro = mnt[i].ro
  BY <1>5, <1>6, <1>9, <1>10
<1>12. n \in Nat /\ mnt[n].parent \in 0 .. n - 1 /\ (\A i \in X : i \in Nat /\ i # 0) /\ root # n
  <2>1. \A i \in X : i \in Nat /\ i # 0
    BY <1>2, <1>5
  <2> QED
    BY <1>1, <1>2, <1>4, <2>1 DEF Rising, Ordered
<1>13. ASSUME NEW x, IsPlace(X, x), x.mount >= n, x # RootOf(mnt, n)
       PROVE  Over(mnt', x) = Over(mnt, x)
  <2>1. x.mount \in X /\ x = Place(x.mount, x.dentry)
    BY <1>13 DEF IsPlace
  <2>2. x.mount # 0 /\ x.mount # mnt[n].parent
    <3> DEFINE a == x.mount
    <3>1. a \in Nat /\ a # 0 /\ a >= n
      BY <1>12, <1>13, <2>1
    <3> HIDE DEF a
    <3>2. a # mnt[n].parent
      BY <1>12, <3>1
    <3> QED
      BY <3>1, <3>2 DEF a
  <2>3. ~(x.mount = n /\ x.dentry = mnt[n].root)
    BY <1>13, <2>1 DEF RootOf
  <2>4. ASSUME NEW i \in 1 .. Len(mnt)
        PROVE  (mnt'[i].parent = x.mount /\ mnt'[i].at = x.dentry)
                  <=> (mnt[i].parent = x.mount /\ mnt[i].at = x.dentry)
    <3>1. CASE i = n
      BY <1>9, <2>2, <3>1
    <3>2. CASE i = root
      BY <1>7, <1>10, <2>2, <2>3, <3>2
    <3>3. CASE i \notin {n, root}
      BY <1>5, <1>6, <3>3
    <3> QED
      BY <3>1, <3>2, <3>3
  <2> QED
    BY <1>5, <1>6, <1>11, <2>4 DEF Over, Children, Mounted
<1>14. SameFrom(mnt, X, n, mnt')
  BY <1>2, <1>4, <1>6, <1>11, <1>13 DEF SameFrom
<1>15. Walk(mnt', n, q) = Walk(mnt, n, q)
  BY <1>2, <1>4, <1>6, <1>14, SeqFacts, SameViews
<1>16. Walk(mnt, n, q).mount \in 1 .. Len(mnt)
  BY <1>2, <1>4, SeqFacts, WalkEnds DEF IsGood, IsPlace
<1> QED
  BY <1>1, <1>2, <1>8, <1>11, <1>15, <1>16 DEF Still, Sight

(* The old root lies over the new one.                                     *)
OldOnTop(ms, r) == ms[OldRoot].parent = r /\ ms[OldRoot].at = ms[r].root

LEMMA PivotOnTop ==
    ASSUME HostInv, hasMountNamespace, Confined, Placed(mnt, root), PivotRoot, pc' = "detach"
    PROVE  OldOnTop(mnt', root')
<1> DEFINE n == InRootfs(mnt, <<>>).mount
<1>1. /\ mnt' = Pivot(mnt, root, n) /\ root' = n /\ n # root
  BY DEF PivotRoot, Refused, Goto, CanPivot
<1>2. /\ HostPart(mnt) /\ root = OldRoot /\ IsSeq(mnt) /\ Records(mnt)
      /\ root \in Mine(mnt) /\ Mine(mnt) \in SUBSET (1 .. Len(mnt))
  BY PlacedRises DEF HostInv, TableInv, PivotRoot, Refused, Goto, PrePivot
<1>3. n \in Mine(mnt)
  <2>1. IsGood(mnt, Mine(mnt), InRootfs(mnt, <<>>))
    BY NamedPaths, PlacedFacts
  <2> QED
    BY <2>1 DEF IsGood, IsPlace
<1> HIDE DEF n
<1>4. DOMAIN mnt = 1 .. Len(mnt)
  BY <1>2, SeqFacts
<1>5. DOMAIN mnt[n] = Fields /\ DOMAIN mnt[root] = Fields
  BY <1>2, <1>3 DEF Records
<1>6. mnt'[n] = [mnt[n] EXCEPT !.parent = 0]
  BY <1>1, <1>2, <1>3, <1>4 DEF Pivot
<1>7. mnt'[root] = [mnt[root] EXCEPT !.parent = n, !.at = mnt[n].root]
  BY <1>1, <1>2, <1>3, <1>4, <1>5 DEF Pivot, Fields
<1>8. mnt'[n].root = mnt[n].root
  BY <1>5, <1>6 DEF Fields
<1>9. mnt'[root].parent = n /\ mnt'[root].at = mnt[n].root
  BY <1>5, <1>7 DEF Fields
<1> QED
  BY <1>1, <1>2, <1>8, <1>9 DEF OldOnTop

(* Detaching the old root keeps what is seen from the new one.             *)
LEMMA DetachStill ==
    ASSUME HostInv, RootInv, hasMountNamespace, Confined, Pivoting(mnt, root),
           OldOnTop(mnt, root), DetachOldRoot, pc' = "createContainer", NEW q, IsSeq(q)
    PROVE  Still(mnt, root, q, mnt', root', q)
<1> DEFINE T == Tree(mnt, OldRoot)
           s == OldRootSlave
           t == DetachedMount(s)
           U == Tree(s, t)
           new == Forget(s, U)
           X == Mine(mnt')
<1>1. pc = "detach" /\ mnt' = Detach(s, t) /\ root' = root
  BY DEF DetachOldRoot, Mounts, Refused, Goto
<1>2. /\ HostPart(mnt) /\ mnt[OldRoot].parent \in Own(mnt)
      /\ mnt[mnt[OldRoot].parent].group = 0
      /\ root \in Fresh(mnt) /\ Pivoted(mnt)
  BY <1>1 DEF HostInv, TableInv, RootInv
<1>3. /\ OldRoot \in Own(mnt) /\ Len(mnt) \in Nat /\ DOMAIN mnt = 1 .. Len(mnt)
      /\ Own(mnt) \in SUBSET (1 .. Len(mnt))
      /\ HostSize \in 3 .. 5
  BY <1>2, OwnClosed DEF OldRoot, Own, HostPart
<1>4. s = SetKind(mnt, T, "slave") /\ t = Top(s, RootOf(s, OldRoot)).mount
  BY DEF OldRootSlave, SetPropagation, DetachedMount
<1> HIDE DEF t
<1>5. HostPart(s) /\ SamePlaces(mnt, s) /\ \A i \in 1 .. Len(mnt) : s[i].fs = mnt[i].fs /\ s[i].ro = mnt[i].ro
  <2>1. HostPart(s) /\ SamePlaces(mnt, s)
    BY <1>2, <1>3, OwnPropagation, PropagationPlaces DEF OldRootSlave, HostPart
  <2>2. \A i \in 1 .. Len(mnt) : s[i].fs = mnt[i].fs /\ s[i].ro = mnt[i].ro
    BY <1>2, PropagationShows DEF OldRootSlave, HostPart
  <2> QED
    BY <2>1, <2>2
<1> HIDE DEF s, T
<1>6. mnt' = new
  BY <1>1, <1>2, <1>3, <1>4, DetachKeeps DEF HostPart, T
<1>7. IsSeq(s) /\ Len(s) = Len(mnt) /\ DOMAIN s = 1 .. Len(mnt) /\ Len(s) \in Nat
  BY <1>3, <1>5, SeqFacts DEF HostPart, SamePlaces
<1>8. t = OldRoot
  <2>1. RootOf(s, OldRoot) = RootOf(mnt, OldRoot)
    BY <1>3, <1>5 DEF SamePlaces, RootOf
  <2>2. Over(s, RootOf(s, OldRoot)) = {}
    BY <1>2, <1>3, <1>5, <1>7, <2>1 DEF SamePlaces, Over, Children, Mounted, Pivoted
  <2> QED
    BY <1>4, <2>2 DEF Top, RootOf, Place
<1>9. \A i \in U \ {OldRoot} : s[i].parent \in U
  BY <1>7, <1>8, TreeParents
<1> HIDE DEF U
<1>10. /\ Len(mnt') = Len(mnt) /\ DOMAIN mnt' = 1 .. Len(mnt)
       /\ \A i \in 1 .. Len(mnt) :
             /\ mnt'[i].parent = mnt[i].parent /\ mnt'[i].at = mnt[i].at
             /\ mnt'[i].root = mnt[i].root /\ mnt'[i].fs = mnt[i].fs /\ mnt'[i].ro = mnt[i].ro
             /\ mnt'[i].ns = IF i \in U THEN "none" ELSE mnt[i].ns
  <2>1. IsSeq(new) /\ Len(new) = Len(mnt)
    BY <1>7, ForgetKeeps
  <2>2. ASSUME NEW i \in 1 .. Len(mnt)
        PROVE  /\ new[i].parent = mnt[i].parent /\ new[i].at = mnt[i].at
               /\ new[i].root = mnt[i].root /\ new[i].fs = mnt[i].fs /\ new[i].ro = mnt[i].ro
               /\ new[i].ns = IF i \in U THEN "none" ELSE mnt[i].ns
    <3>1. /\ DOMAIN s[i] = Fields /\ s[i].ns = mnt[i].ns /\ s[i].fs = mnt[i].fs /\ s[i].ro = mnt[i].ro
          /\ s[i].parent = mnt[i].parent /\ s[i].at = mnt[i].at /\ s[i].root = mnt[i].root
      BY <1>5, <1>7 DEF HostPart, Records, SamePlaces
    <3>2. new[i] = IF i \in U THEN [s[i] EXCEPT !.ns = "none"] ELSE s[i]
      BY <1>7 DEF Forget
    <3> HIDE DEF new
    <3> QED
      BY <3>1, <3>2 DEF Fields
  <2> HIDE DEF new
  <2> QED
    BY <1>6, <2>1, <2>2, SeqFacts
<1>11. Placed(mnt', root)
  BY DetachPlaced
<1>12. /\ Rising(mnt', X) /\ root \in X /\ X \in SUBSET (1 .. Len(mnt'))
       /\ \A i \in X : mnt'[i].ns # "none"
  BY <1>11, PlacedRises
<1>13. ASSUME NEW x, IsPlace(X, x), x # RootOf(mnt', root)
       PROVE  Over(mnt, x) = Over(mnt', x)
  <2>1. x.mount \in X /\ x = Place(x.mount, x.dentry) /\ x.mount \in 1 .. Len(mnt)
    BY <1>10, <1>12, <1>13 DEF IsPlace
  <2>2. x.mount \notin U
    BY <1>10, <1>12, <2>1
  <2>3. ~(x.mount = root /\ x.dentry = mnt[root].root)
    <3>1. mnt'[root].root = mnt[root].root
      BY <1>10, <1>12
    <3> QED
      BY <1>13, <2>1, <3>1 DEF RootOf
  <2>4. ASSUME NEW i \in Over(mnt, x)
        PROVE  i \notin U
    <3>1. i \in 1 .. Len(mnt) /\ mnt[i].parent = x.mount /\ mnt[i].at = x.dentry
      BY <1>3, <2>4 DEF Over, Children, Mounted
    <3>2. CASE i = OldRoot
      BY <2>3, <3>1, <3>2 DEF OldOnTop
    <3>3. CASE i # OldRoot
      BY <1>5, <1>9, <2>2, <3>1, <3>3 DEF SamePlaces
    <3> QED
      BY <3>2, <3>3
  <2>5. \A i \in 1 .. Len(mnt) : i \notin U => mnt'[i].ns = mnt[i].ns
    BY <1>10
  <2>6. Over(mnt, x) \subseteq Over(mnt', x)
    BY <1>3, <1>10, <2>4, <2>5 DEF Over, Children, Mounted
  <2>7. Over(mnt', x) \subseteq Over(mnt, x)
    <3>1. \A i \in 1 .. Len(mnt) : mnt'[i].ns # "none" => mnt[i].ns # "none"
      BY <1>10
    <3> QED
      BY <1>3, <1>10, <3>1 DEF Over, Children, Mounted
  <2> QED
    BY <2>6, <2>7
<1>14. SameFrom(mnt', X, root, mnt)
  <2>1. IsSeq(mnt) /\ \A i \in X : mnt[i].root = mnt'[i].root
    BY <1>2, <1>10, <1>12 DEF HostPart
  <2> QED
    BY <1>12, <1>13, <2>1 DEF SameFrom
<1>15. Walk(mnt, root, q) = Walk(mnt', root, q)
  <2>1. Len(mnt) = Len(mnt') /\ Len(q) \in Nat
    BY <1>10, SeqFacts
  <2> QED
    BY <1>12, <1>14, <2>1, SameViews
<1>16. Walk(mnt', root, q).mount \in 1 .. Len(mnt)
  BY <1>10, <1>12, SeqFacts, WalkEnds DEF IsGood, IsPlace
<1> QED
  BY <1>1, <1>10, <1>15, <1>16 DEF Still, Sight

LEMMA SameStill ==
    ASSUME NEW ms, NEW r, NEW q
    PROVE  Still(ms, r, q, ms, r, q)
  BY DEF Still, Sight

(* What a mount at a path of the image does to the other paths, and to it. *)
LEMMA ImageStill ==
    ASSUME NEW ms, NEW r, Placed(ms, r), NEW path, IsSeq(path),
           NEW tree, NEW new, Grows(ms, Mine(ms), Walk(ms, r, Rootfs \o path), tree, new),
           NEW q, IsSeq(q)
    PROVE  /\ ~Leads(path, q) => Still(ms, r, Rootfs \o q, new, r, Rootfs \o q)
           /\ Len(tree) = 1 /\ Leads(path, q) => Walk(new, r, Rootfs \o q).mount = Len(ms) + 1
           /\ Walk(new, r, Rootfs \o path) = Top(new, RootOf(new, Len(ms) + 1))
<1> DEFINE a == Rootfs \o path
           b == Rootfs \o q
<1>1. /\ Len(a) = Len(path) + 1 /\ Len(path) \in Nat /\ (Leads(a, b) <=> Leads(path, q))
      /\ Leads(a, a) <=> Leads(path, path)
  BY LeadsBelow
<1>2. Len(b) = Len(q) + 1 /\ Len(q) \in Nat
  BY LeadsBelow
<1>3. Len(a) \in Nat /\ Len(a) > 0 /\ Len(b) \in Nat
  BY <1>1, <1>2
<1>4. Leads(path, path)
  BY <1>1 DEF Leads
<1>5. r \in Mine(ms) /\ Grows(ms, Mine(ms), Walk(ms, r, a), tree, new)
  BY DEF Placed
<1> HIDE DEF a, b
<1>6. ~Leads(a, b) => Still(ms, r, b, new, r, b)
  BY <1>3, <1>5, GrownStill
<1>7. Len(tree) = 1 /\ Leads(a, b) => Walk(new, r, b).mount = Len(ms) + 1
  BY <1>3, <1>5, GrownWalk
<1>8. Walk(new, r, a) = Top(new, RootOf(new, Len(ms) + 1))
  BY <1>1, <1>3, <1>4, <1>5, GrownWalk
<1> QED
  BY <1>1, <1>6, <1>7, <1>8 DEF a, b

(* The default devices: /dev/null is the host's, the rest is as it was.    *)
LEMMA DefaultDevicesSight ==
    ASSUME HostInv, hasMountNamespace, Confined, Placed(mnt, root), Named(mnt), Layout(mnt),
           MountDefaultDevices, pc' # "refused", NEW q, IsSeq(q)
    PROVE  /\ ~Leads(Null, q) => Still(mnt, root, Rootfs \o q, mnt', root', Rootfs \o q)
           /\ mnt'[Walk(mnt', root', Rootfs \o Null).mount].fs = "devtmpfs"
<1> DEFINE from == At(Null)
           to == Walk(mnt, root, Rootfs \o Null)
           new == Bind(mnt, from, to, FALSE)
           tree == Clone(mnt, from, FALSE)
<1>1. Quiet(mnt) /\ root = OldRoot /\ root' = root /\ mnt' = new /\ IsSeq(Null)
  BY NamedPaths DEF HostInv, TableInv, MountDefaultDevices, Mounts, Refused, Goto, Ended, PrePivot,
                    InRootfs
<1>2. IsGood(mnt, Mine(mnt), from) /\ IsGood(mnt, Mine(mnt), to)
  BY <1>1, PlacedFacts DEF At, InRootfs
<1>3. /\ Binds(mnt, Mine(mnt), from, to, tree, new)
      /\ Grows(mnt, Mine(mnt), to, tree, new)
      /\ new[Len(mnt) + 1].fs = mnt[from.mount].fs
  BY <1>1, <1>2, BoundGrows
<1>4. mnt[from.mount].fs = "devtmpfs"
  BY <1>1, NullIsHost DEF At
<1>5. Over(mnt, from) = {}
  <2>1. Len(Null) \in Nat /\ Len(Null) > 0
    BY DEF Null
  <2>2. Rising(mnt, Mine(mnt)) /\ root \in Mine(mnt)
    BY PlacedRises
  <2> QED
    BY <2>1, <2>2, WalkEnds DEF At
<1>6. Top(new, RootOf(new, Len(mnt) + 1)) = Place(Len(mnt) + 1, from.dentry)
  BY <1>3, <1>5 DEF Binds
<1> HIDE DEF new, tree, from
<1>7. /\ ~Leads(Null, q) => Still(mnt, root, Rootfs \o q, new, root, Rootfs \o q)
      /\ Walk(new, root, Rootfs \o Null) = Top(new, RootOf(new, Len(mnt) + 1))
  BY <1>1, <1>3, ImageStill DEF to
<1>8. Walk(new, root, Rootfs \o Null).mount = Len(mnt) + 1
  BY <1>6, <1>7 DEF Place
<1> QED
  BY <1>1, <1>3, <1>4, <1>7, <1>8

(* The console: it is the slave, and the rest is as it was.                *)
LEMMA ConsoleSight ==
    ASSUME HostInv, hasMountNamespace, Confined, Placed(mnt, root), MountConsole, pc' # "refused",
           NEW q, IsSeq(q)
    PROVE  /\ ~Leads(Console, q) => Still(mnt, root, Rootfs \o q, mnt', root', Rootfs \o q)
           /\ pty # None => Walk(mnt', root', Rootfs \o Console).dentry
                             = Walk(mnt', root', Rootfs \o Slave).dentry
<1> DEFINE from == Walk(mnt, root, Rootfs \o Slave)
           to == Walk(mnt, root, Rootfs \o Console)
           new == Bind(mnt, from, to, FALSE)
           tree == Clone(mnt, from, FALSE)
<1>1. Quiet(mnt) /\ root' = root /\ IsSeq(Slave) /\ IsSeq(Console)
  BY NamedPaths DEF HostInv, TableInv, MountConsole, Mounts, Refused, Goto, Ended
<1>2. CASE pty = None
  <2>1. mnt' = mnt
    BY <1>2 DEF MountConsole, Mounts, Refused
  <2> QED
    BY <1>1, <1>2, <2>1, SameStill
<1>3. CASE pty # None
  <2>1. mnt' = new
    BY <1>3 DEF MountConsole, Mounts, Refused, Goto, InRootfs
  <2>2. IsGood(mnt, Mine(mnt), from) /\ IsGood(mnt, Mine(mnt), to)
    BY <1>1, PlacedFacts DEF InRootfs
  <2>3. /\ Binds(mnt, Mine(mnt), from, to, tree, new)
        /\ Grows(mnt, Mine(mnt), to, tree, new)
    BY <1>1, <2>2, BoundGrows
  <2>4. Over(mnt, from) = {}
    <3>1. Len(Rootfs \o Slave) \in Nat /\ Len(Rootfs \o Slave) > 0
      BY <1>1, LeadsBelow
    <3>2. Rising(mnt, Mine(mnt)) /\ root \in Mine(mnt)
      BY PlacedRises
    <3> QED
      BY <3>1, <3>2, WalkEnds
  <2>5. Top(new, RootOf(new, Len(mnt) + 1)) = Place(Len(mnt) + 1, from.dentry)
    BY <2>3, <2>4 DEF Binds
  <2>6. ~Leads(Console, Slave)
    <3>1. Len(Console) = 2 /\ Console[2] = "console" /\ Slave[2] = "pts" /\ 2 \in 1 .. Len(Console)
      BY DEF Console, Slave
    <3> QED
      BY <3>1 DEF Leads
  <2> HIDE DEF new, tree
  <2>7. \A p : IsSeq(p) =>
            /\ ~Leads(Console, p) => Still(mnt, root, Rootfs \o p, new, root, Rootfs \o p)
            /\ Walk(new, root, Rootfs \o Console) = Top(new, RootOf(new, Len(mnt) + 1))
    BY <1>1, <2>3, ImageStill DEF to
  <2>8. Walk(new, root, Rootfs \o Slave) = from
    BY <1>1, <2>6, <2>7 DEF Still, Sight
  <2>9. Walk(new, root, Rootfs \o Console).dentry = from.dentry
    BY <1>1, <2>5, <2>7 DEF Place
  <2> HIDE DEF from, to
  <2> QED
    BY <1>1, <2>1, <2>7, <2>8, <2>9
<1> QED
  BY <1>2, <1>3

(* The paths the configuration protects, and what is not below them.       *)
Protected == Masked \cup Range(conf.readonlyPaths)

LEMMA PathsSight ==
    ASSUME HostInv, hasMountNamespace, Confined, Placed(mnt, root),
           MountMaskedPaths \/ MountReadonlyPaths,
           NEW q, IsSeq(q), \A p \in Protected : ~Leads(p, q)
    PROVE  Sight(mnt, root, q, mnt', root', q)
<1>1. /\ Quiet(mnt) /\ root' = root /\ IsSeq(Null) /\ Len(Null) \in Nat /\ Len(Null) > 0
      /\ HostPart(mnt) /\ Len(q) \in Nat
  BY NamedPaths, SeqFacts
     DEF HostInv, TableInv, MountMaskedPaths, MountReadonlyPaths, EndPaths, MountPath,
         Refused, Goto, Ended, Null
<1>2. /\ Len(conf.masked) \in Nat /\ Len(conf.readonlyPaths) \in Nat /\ next \in Nat \ {0}
      /\ \A j \in 1 .. Len(conf.masked) : IsSeq(conf.masked[j])
      /\ \A j \in 1 .. Len(conf.readonlyPaths) : IsSeq(conf.readonlyPaths[j])
  BY ListedPaths
<1>3. DOMAIN conf.masked = 1 .. Len(conf.masked)
      /\ DOMAIN conf.readonlyPaths = 1 .. Len(conf.readonlyPaths)
  BY RootFSAssumption DEF HostInv
<1>4. root \in Mine(mnt)
  BY DEF Placed
<1>5. ASSUME NEW path, IsSeq(path), ~Leads(path, q), NEW tree, NEW new,
             Grows(mnt, Mine(mnt), Walk(mnt, root, path), tree, new)
      PROVE  Sight(mnt, root, q, new, root, q)
  <2>1. Len(path) \in Nat /\ Len(path) > 0
    BY <1>1, <1>5, SeqFacts DEF Leads
  <2> QED
    BY <1>1, <1>4, <1>5, <2>1, GrownStill DEF Still
<1>6. Sight(mnt, root, q, mnt, root, q)
  BY SameStill DEF Still
<1>7. CASE MountMaskedPaths
  <2> DEFINE path == conf.masked[next]
             to == Walk(mnt, root, path)
  <2>1. \/ mnt' = mnt
        \/ next <= Len(conf.masked) /\ mnt' = Mask(mnt, path)
    BY <1>7 DEF MountMaskedPaths, EndPaths, MountPath
  <2>2. CASE next <= Len(conf.masked) /\ mnt' = Mask(mnt, path) /\ path \notin conf.absent
    <3>1. next \in 1 .. Len(conf.masked) /\ IsSeq(path)
      BY <1>2, <2>2
    <3>2. path \in Masked
      BY <1>3, <2>2, <3>1 DEF Masked, Range
    <3>3. ~Leads(path, q)
      BY <3>2 DEF Protected
    <3> HIDE DEF path
    <3>4. IsGood(mnt, Mine(mnt), to) /\ IsGood(mnt, Mine(mnt), Walk(mnt, root, Null))
      BY <1>1, <3>1, PlacedFacts
    <3>5. CASE path \in conf.directories
      <4>1. mnt' = Attach(mnt, to, <<NewMount("mask", TRUE)>>)
        BY <2>2, <3>5 DEF Mask
      <4>2. Grows(mnt, Mine(mnt), to, <<NewMount("mask", TRUE)>>, Attach(mnt, to, <<NewMount("mask", TRUE)>>))
        BY <1>1, <3>4, NewGrows
      <4>3. \E tree : Grows(mnt, Mine(mnt), to, tree, mnt')
        BY <4>1, <4>2
      <4> QED
        BY <1>1, <1>5, <3>1, <3>3, <4>3
    <3>6. CASE path \notin conf.directories
      <4>1. mnt' = Bind(mnt, Walk(mnt, root, Null), to, TRUE)
        BY <2>2, <3>6 DEF Mask
      <4>2. \E rec : mnt' = Bind(mnt, Walk(mnt, root, Null), to, rec)
        BY <4>1
      <4>3. \E tree : Grows(mnt, Mine(mnt), to, tree, mnt')
        BY <1>1, <3>4, <4>2, BoundGrows
      <4> QED
        BY <1>1, <1>5, <3>1, <3>3, <4>3
    <3> QED
      BY <3>5, <3>6
  <2>3. CASE next <= Len(conf.masked) /\ mnt' = Mask(mnt, path) /\ path \in conf.absent
    <3>1. mnt' = mnt
      BY <2>3 DEF Mask
    <3> QED
      BY <1>1, <1>6, <3>1
  <2>4. CASE mnt' = mnt
    BY <1>1, <1>6, <2>4
  <2> QED
    BY <2>1, <2>2, <2>3, <2>4
<1>8. CASE MountReadonlyPaths
  <2> DEFINE path == conf.readonlyPaths[next]
             to == Walk(mnt, root, path)
             bound == Bind(mnt, to, to, TRUE)
             m == Walk(bound, root, path).mount
  <2>1. \/ mnt' = mnt
        \/ next <= Len(conf.readonlyPaths) /\ mnt' = SetReadonly(bound, {m})
    BY <1>8 DEF MountReadonlyPaths, EndPaths, MountPath, Refused, ReadonlyPath
  <2>2. CASE next <= Len(conf.readonlyPaths) /\ mnt' = SetReadonly(bound, {m})
    <3>1. next \in 1 .. Len(conf.readonlyPaths) /\ IsSeq(path)
      BY <1>2, <2>2
    <3>2. path \in Protected
      BY <1>3, <3>1 DEF Protected, Range
    <3>3. ~Leads(path, q)
      BY <3>2
    <3> HIDE DEF path
    <3>4. IsGood(mnt, Mine(mnt), to)
      BY <3>1, PlacedFacts
    <3>5. Placed(bound, root) /\ m \in Own(bound)
      BY <1>1, <3>1, ReadonlyPathPlaced
    <3>6. \E rec : bound = Bind(mnt, to, to, rec)
      OBVIOUS
    <3>7. \E tree : Grows(mnt, Mine(mnt), to, tree, bound)
      <4> HIDE DEF bound
      <4> QED
        BY <1>1, <3>4, <3>6, BoundGrows
    <3> HIDE DEF bound
    <3> HIDE DEF m
    <3>8. Sight(mnt, root, q, bound, root, q)
      BY <1>1, <1>5, <3>1, <3>3, <3>7
    <3>9. IsSeq(bound) /\ Records(bound) /\ {m} \in SUBSET Own(bound)
      BY <3>5 DEF Placed, HostPart
    <3>10. /\ SamePlaces(bound, mnt') /\ HostPart(mnt')
           /\ \A i \in 1 .. Len(bound) : mnt'[i].fs = bound[i].fs
      <4>1. HostPart(SetReadonly(bound, {m}))
        BY <3>5, <3>9, OwnReadonly DEF Placed
      <4> QED
        BY <2>2, <3>9, <4>1, ReadonlyPlaces, ReadonlyShows
    <3>11. Sight(bound, root, q, mnt', root, q)
      BY <1>1, <3>5, <3>10, SameSight
    <3> QED
      BY <1>1, <3>8, <3>11 DEF Sight
  <2>3. CASE mnt' = mnt
    BY <1>1, <1>6, <2>3
  <2> QED
    BY <2>1, <2>2, <2>3
<1> QED
  BY <1>7, <1>8

(* The propagation of the root and the read-only root move nothing.        *)
LEMMA RootSight ==
    ASSUME HostInv, hasMountNamespace, Placed(mnt, root),
           SetRootfsMountPropagation \/ MountRootReadonly, NEW q, IsSeq(q)
    PROVE  Sight(mnt, root, q, mnt', root', q)
<1>1. root' = root /\ Len(q) \in Nat
  BY SeqFacts DEF SetRootfsMountPropagation, MountRootReadonly, Mounts, Refused, Goto
<1>2. HostPart(mnt) /\ root \in Own(mnt) /\ IsSeq(mnt) /\ Records(mnt)
  BY PlacedRises DEF HostPart
<1>3. HostPart(mnt')
  BY OneMountHarmless DEF Harmless
<1>4. /\ SamePlaces(mnt, mnt')
      /\ \A i \in 1 .. Len(mnt) : mnt'[i].fs = mnt[i].fs
  <2>1. CASE mnt' = mnt
    BY <2>1 DEF SamePlaces
  <2>2. CASE \E flag : mnt' = SetPropagation(mnt, root, flag)
    BY <1>2, <2>2, PropagationPlaces, PropagationShows
  <2>3. CASE mnt' = SetReadonly(mnt, {root})
    BY <1>2, <2>3, ReadonlyPlaces, ReadonlyShows
  <2> QED
    BY <2>1, <2>2, <2>3 DEF SetRootfsMountPropagation, MountRootReadonly, Mounts, Refused
<1> QED
  BY <1>1, <1>3, <1>4, SameSight

Pts == <<"dev", "pts">>

(* What a sysctl needs: /proc/sys is on a mount of proc, or on a new one   *)
(* over it, that nothing makes read-only.                                  *)
ProcOpen ==
    \A i \in DOMAIN conf.mounts : Leads(conf.mounts[i].dest, ProcSys) =>
        /\ conf.mounts[i].type # "cgroup" /\ "BIND" \notin Flags(conf.mounts[i].options)
        /\ "RDONLY" \notin Flags(conf.mounts[i].options)
        /\ "rro" \notin Range(conf.mounts[i].options)

(* Which of the paths the runtime knows begin with another of them.        *)
LEMMA PathsApart ==
    /\ IsSeq(Pts) /\ IsSeq(ProcSys) /\ IsSeq(Null) /\ IsSeq(<<"proc">>)
    /\ ~Leads(Null, Pts) /\ ~Leads(Null, ProcSys) /\ ~Leads(Pts, ProcSys)
    /\ Leads(Pts, Pts) /\ Leads(<<"proc">>, ProcSys)
<1>1. /\ IsSeq(Pts) /\ IsSeq(ProcSys) /\ IsSeq(Null) /\ IsSeq(<<"proc">>)
  <2>1. <<"proc", "sys">> \in Seq({"proc", "sys"})
    OBVIOUS
  <2>2. IsSeq(ProcSys)
    BY <2>1, EverySeq DEF ProcSys
  <2>3. IsSeq(Pts) /\ IsSeq(Null) /\ IsSeq(<<"proc">>)
    BY NamedPaths DEF Pts, DevPts
  <2> QED
    BY <2>2, <2>3
<1>2. /\ Len(Null) = 2 /\ Null[1] = "dev" /\ Null[2] = "null"
      /\ Len(Pts) = 2 /\ Pts[1] = "dev" /\ Pts[2] = "pts"
      /\ Len(ProcSys) = 2 /\ ProcSys[1] = "proc" /\ Len(<<"proc">>) = 1 /\ <<"proc">>[1] = "proc"
  BY DEF Null, Pts, ProcSys
<1>3. ~Leads(Null, Pts)
  BY <1>2 DEF Leads
<1>4. ~Leads(Null, ProcSys)
  BY <1>2 DEF Leads
<1>5. ~Leads(Pts, ProcSys)
  BY <1>2 DEF Leads
<1>6. Leads(Pts, Pts)
  BY <1>2 DEF Leads
<1>7. Leads(<<"proc">>, ProcSys)
  BY <1>2 DEF Leads
<1> QED
  BY <1>1, <1>3, <1>4, <1>5, <1>6, <1>7

(* The mounts of MountSpecMounts: those of the configuration, and DevPts.  *)
LEMMA SpecMountIs ==
    ASSUME HostInv, pc = "specMounts"
    PROVE  /\ next \in Nat \ {0} /\ Len(conf.mounts) \in Nat /\ DOMAIN conf.mounts = 1 .. Len(conf.mounts)
           /\ Len(SpecMounts) = Len(conf.mounts) + 1
           /\ next = Len(SpecMounts) => SpecMounts[next] = DevPts
           /\ next # Len(SpecMounts) =>
                 next \in 1 .. Len(conf.mounts) /\ SpecMounts[next] = conf.mounts[next]
<1>1. next \in Nat \ {0} /\ next <= Len(SpecMounts)
  BY DEF HostInv
<1>2. IsSeq(conf.mounts)
  <2>1. conf.mounts \in Seq([dest : Seq(STRING), type : STRING, source : Seq(STRING),
                             options : Seq(STRING)])
    BY RootFSAssumption DEF HostInv
  <2> QED
    BY <2>1, EverySeq
<1>3. /\ Len(SpecMounts) = Len(conf.mounts) + 1 /\ Len(conf.mounts) \in Nat
      /\ DOMAIN conf.mounts = 1 .. Len(conf.mounts)
      /\ \A i \in 1 .. Len(conf.mounts) : SpecMounts[i] = conf.mounts[i]
      /\ SpecMounts[Len(conf.mounts) + 1] = DevPts
  <2> DEFINE s == conf.mounts
  <2> HIDE DEF s
  <2>1. IsSeq(s)
    BY <1>2 DEF s
  <2>2. /\ Len(Append(s, DevPts)) = Len(s) + 1 /\ \A i \in 1 .. Len(s) : Append(s, DevPts)[i] = s[i]
        /\ Append(s, DevPts)[Len(s) + 1] = DevPts
    BY <2>1, AppendName
  <2>3. Len(s) \in Nat /\ DOMAIN s = 1 .. Len(s)
    BY <2>1, SeqFacts
  <2> QED
    BY <2>2, <2>3 DEF SpecMounts, s
<1> QED
  BY <1>1, <1>3

(* DevPts is a new mount of type devpts.                                   *)
LEMMA DevPtsIs ==
    /\ DevPts.dest = Pts /\ DevPts.type = "devpts" /\ "BIND" \notin Flags(DevPts.options)
<1>1. DevPts.options = <<"nosuid">> /\ DevPts.dest = Pts /\ DevPts.type = "devpts"
  BY DEF DevPts, Pts
<1>2. "BIND" \notin Flags(<<"nosuid">>)
  <2> SUFFICES ASSUME NEW i \in DOMAIN <<"nosuid">>
               PROVE  "BIND" \notin OptionFlags[<<"nosuid">>[i]]
    BY DEF Flags
  <2>1. <<"nosuid">>[i] = "nosuid"
    OBVIOUS
  <2>2. OptionFlags["nosuid"] = {"REC"}
    BY DEF OptionFlags
  <2> QED
    BY <2>1, <2>2
<1> QED
  BY <1>1, <1>2

(* MountProc: the names stay the same, and /proc/sys can be written.       *)
LEMMA ProcViews ==
    ASSUME HostInv, hasMountNamespace, Confined, Placed(mnt, root), Named(mnt), MountProc
    PROVE  Named(mnt') /\ ~mnt'[Walk(mnt', root', Rootfs \o ProcSys).mount].ro
<1> DEFINE to == InRootfs(mnt, <<"proc">>)
           tree == <<NewMount("proc", FALSE)>>
           new == Attach(mnt, to, tree)
<1>1. Quiet(mnt) /\ mnt' = new /\ root' = root
  BY DEF HostInv, TableInv, MountProc, Mounts, Refused, Goto, Ended
<1>2. IsSeq(<<"proc">>) /\ IsSeq(ProcSys) /\ Leads(<<"proc">>, ProcSys)
  BY PathsApart
<1>3. IsGood(mnt, Mine(mnt), to) /\ to = Walk(mnt, root, Rootfs \o <<"proc">>)
  BY <1>2, PlacedFacts DEF InRootfs
<1>4. Ends(to.dentry, Names)
  BY <1>2, NamedEnds, LookupEnds
<1>5. Len(tree) = 1
  OBVIOUS
<1>6. Grows(mnt, Mine(mnt), to, tree, new) /\ ~new[Len(mnt) + 1].ro
  <2> HIDE DEF to
  <2>1. PICK no : no = FALSE
    OBVIOUS
  <2>2. /\ Grows(mnt, Mine(mnt), to, <<NewMount("proc", no)>>, Attach(mnt, to, <<NewMount("proc", no)>>))
        /\ Attach(mnt, to, <<NewMount("proc", no)>>)[Len(mnt) + 1].ro = no
    BY <1>1, <1>3, NewGrows
  <2> QED
    BY <2>1, <2>2
<1>7. Named(new)
  <2> HIDE DEF to
  <2> QED
    BY <1>1, <1>3, <1>4, NamedNew
<1> HIDE DEF to, tree, new
<1>8. Walk(new, root, Rootfs \o ProcSys).mount = Len(mnt) + 1
  BY <1>2, <1>3, <1>5, <1>6, ImageStill
<1> QED
  BY <1>1, <1>6, <1>7, <1>8

(* A mount of the configuration: the names stay those it uses, the last    *)
(* one is the devpts instance, and /proc/sys can still be written.         *)
LEMMA SpecViews ==
    ASSUME HostInv, hasMountNamespace, Confined, Placed(mnt, root), Named(mnt), MountSpecMount,
           pc' # "refused"
    PROVE  /\ Named(mnt')
           /\ pc' = "defaultDevices" => mnt'[Walk(mnt', root', Rootfs \o Pts).mount].fs = "devpts"
           /\ ProcOpen /\ ~mnt[Walk(mnt, root, Rootfs \o ProcSys).mount].ro =>
                 ~mnt'[Walk(mnt', root', Rootfs \o ProcSys).mount].ro
<1> DEFINE m == SpecMounts[next]
<1>1. pc = "specMounts" /\ root' = root /\ (pc' = "defaultDevices" => next = Len(SpecMounts))
  BY DEF MountSpecMount, Refused, Goto
<1>2. PICK tree, done : SpecStep(tree, done)
  BY SpecMountSteps
<1>3. /\ Grows(mnt, Mine(mnt), Walk(mnt, root, Rootfs \o m.dest), tree, done)
      /\ Placed(done, root) /\ Named(done) /\ SamePlaces(done, mnt')
      /\ \A i \in 1 .. Len(done) : mnt'[i].fs = done[i].fs
      /\ \A i \in 1 .. Len(mnt) : mnt'[i].ro = mnt[i].ro
      /\ m.type # "cgroup" /\ "BIND" \notin Flags(m.options) =>
            /\ Len(tree) = 1 /\ done[Len(mnt) + 1].fs = m.type
            /\ "RDONLY" \notin Flags(m.options) /\ "rro" \notin Range(m.options) =>
                  ~mnt'[Len(mnt) + 1].ro
  BY <1>2 DEF SpecStep, InRootfs
<1>4. IsSeq(m.dest)
  BY SpecMountPaths
<1>5. /\ HostPart(mnt') /\ IsSeq(Pts) /\ IsSeq(ProcSys)
      /\ \A q : IsSeq(q) => Len(Rootfs \o q) \in Nat
  <2>1. HostPart(mnt')
    BY SpecMountHarmless DEF Harmless
  <2>2. \A q : IsSeq(q) => Len(Rootfs \o q) \in Nat
    <3> TAKE q
    <3> HAVE IsSeq(q)
    <3>1. Len(Rootfs \o q) = Len(q) + 1 /\ Len(q) \in Nat
      BY LeadsBelow
    <3> QED
      BY <3>1
  <2> QED
    BY <2>1, <2>2, PathsApart
<1>6. ASSUME NEW q, IsSeq(q)
      PROVE  /\ Walk(mnt', root, Rootfs \o q) = Walk(done, root, Rootfs \o q)
             /\ mnt'[Walk(done, root, Rootfs \o q).mount].fs = done[Walk(done, root, Rootfs \o q).mount].fs
  <2>1. Len(Rootfs \o q) \in Nat
    BY <1>5, <1>6
  <2> QED
    BY <1>3, <1>5, <2>1, SameSight DEF Sight
<1>7. Named(mnt')
  BY <1>3, NamedStays
<1>8. ASSUME NEW q, IsSeq(q), Len(tree) = 1, Leads(m.dest, q)
      PROVE  Walk(done, root, Rootfs \o q).mount = Len(mnt) + 1
  BY <1>3, <1>4, <1>8, ImageStill
<1>9. ASSUME pc' = "defaultDevices"
      PROVE  mnt'[Walk(mnt', root', Rootfs \o Pts).mount].fs = "devpts"
  <2>1. m = DevPts
    BY <1>1, <1>9, SpecMountIs
  <2>2. m.dest = Pts /\ m.type = "devpts" /\ "BIND" \notin Flags(m.options) /\ "devpts" # "cgroup"
    BY <2>1, DevPtsIs
  <2> HIDE DEF m
  <2>3. Len(tree) = 1 /\ done[Len(mnt) + 1].fs = "devpts"
    BY <1>3, <2>2
  <2>4. Walk(done, root, Rootfs \o Pts).mount = Len(mnt) + 1
    BY <1>5, <1>8, <2>2, <2>3, PathsApart
  <2> QED
    BY <1>1, <1>5, <1>6, <2>3, <2>4
<1>10. ASSUME ProcOpen, ~mnt[Walk(mnt, root, Rootfs \o ProcSys).mount].ro
       PROVE  ~mnt'[Walk(mnt', root', Rootfs \o ProcSys).mount].ro
  <2>1. CASE ~Leads(m.dest, ProcSys)
    <3>1. Walk(done, root, Rootfs \o ProcSys) = Walk(mnt, root, Rootfs \o ProcSys)
      BY <1>3, <1>4, <1>5, <2>1, ImageStill DEF Still, Sight
    <3>2. Walk(mnt, root, Rootfs \o ProcSys).mount \in 1 .. Len(mnt)
      <4>1. Walk(mnt, root, Rootfs \o ProcSys).mount \in Own(mnt) /\ HostPart(mnt)
        BY <1>5, PlacedFacts DEF InRootfs, Placed
      <4> QED
        BY <4>1, OwnClosed
    <3> QED
      BY <1>1, <1>3, <1>5, <1>6, <1>10, <3>1, <3>2
  <2>2. CASE Leads(m.dest, ProcSys)
    <3>1. next # Len(SpecMounts)
      BY <1>1, <2>2, SpecMountIs, DevPtsIs, PathsApart
    <3>2. next \in DOMAIN conf.mounts /\ m = conf.mounts[next]
      BY <1>1, <3>1, SpecMountIs
    <3>3. /\ m.type # "cgroup" /\ "BIND" \notin Flags(m.options)
          /\ "RDONLY" \notin Flags(m.options) /\ "rro" \notin Range(m.options)
      BY <1>10, <2>2, <3>2 DEF ProcOpen
    <3> HIDE DEF m
    <3>4. Walk(done, root, Rootfs \o ProcSys).mount = Len(mnt) + 1
      BY <1>3, <1>5, <1>8, <2>2, <3>3
    <3> QED
      BY <1>1, <1>3, <1>5, <1>6, <3>3, <3>4
  <2> QED
    BY <2>1, <2>2
<1> QED
  BY <1>7, <1>9, <1>10

(* Steps by name.                                                          *)
Naming == {"mountProc", "specMounts", "defaultDevices", "deviceNodes", "symlinks"}
Devising == {"defaultDevices", "deviceNodes", "symlinks", "connectConsole", "mountConsole", "pivot"}
Viewing == Devising \cup {"detach", "createContainer", "waitStart", "sysctl"}

(* A path of the container, as the process has to look it up.              *)
Sought(label, q) == IF label \in PrePivot THEN Rootfs \o q ELSE q

Dead == {"exited", "failed", "refused"}

(* Each step is that of its name.                                          *)
Unmoving ==
    \/ UNCHANGED rootfsVars
    \/ /\ \/ Goto("createContainer", "waitStart") \/ Goto("waitStart", "sysctl")
          \/ Goto("waitStart", "startContainer") \/ Goto("startContainer", "exec")
          \/ Goto("startContainer", "exited") \/ Goto("hostname", "startContainer")
       /\ UNCHANGED <<mnt, root, next, nodes, pty>>

LEMMA StepsByName ==
    ASSUME Moves, pc' \notin Dead
    PROVE  \/ Unmoving /\ mnt' = mnt /\ root' = root /\ (pc \in PrePivot => pc' = pc)
           \/ pc = "mountRootfs" /\ MountRootfs /\ pc' = "mountProc"
           \/ pc = "mountProc" /\ MountProc /\ pc' = "specMounts"
           \/ pc = "specMounts" /\ MountSpecMount /\ pc' \in {"specMounts", "defaultDevices"}
           \/ pc = "defaultDevices" /\ MountDefaultDevices /\ pc' = "deviceNodes"
           \/ pc = "deviceNodes" /\ CreateDeviceNodes /\ pc' = "symlinks"
           \/ pc = "symlinks" /\ CreateDefaultSymlinks /\ pc' = "connectConsole"
           \/ pc = "connectConsole" /\ ConnectConsole /\ pc' = "mountConsole"
           \/ pc = "mountConsole" /\ MountConsole /\ (hasMountNamespace => pc' = "pivot")
           \/ pc = "pivot" /\ PivotRoot /\ pc' = "detach"
           \/ pc = "detach" /\ DetachOldRoot /\ pc' = "createContainer"
           \/ pc = "sysctl" /\ SetSysctl /\ pc' = "maskedPaths"
           \/ pc = "maskedPaths" /\ MountMaskedPaths /\ pc' \in {"maskedPaths", "readonlyPaths"}
           \/ pc = "readonlyPaths" /\ MountReadonlyPaths /\ pc' \in {"readonlyPaths", "propagation"}
           \/ pc = "propagation" /\ SetRootfsMountPropagation /\ pc' = "readonly"
           \/ pc = "readonly" /\ MountRootReadonly /\ pc' = "hostname"
<1>1. CASE Unmoving
  <2>1. mnt' = mnt /\ root' = root /\ (pc \in PrePivot => pc' = pc)
    BY <1>1 DEF Unmoving, Goto, rootfsVars, PrePivot
  <2> QED
    BY <1>1, <2>1
<1>2. CASE MountRootfs
  BY <1>2 DEF MountRootfs, Mounts, Refused, Goto, Dead
<1>3. CASE MountProc
  BY <1>3 DEF MountProc, Mounts, Refused, Goto, Dead
<1>4. CASE MountSpecMount
  BY <1>4 DEF MountSpecMount, Refused, Goto, Dead
<1>5. CASE MountDefaultDevices
  BY <1>5 DEF MountDefaultDevices, Mounts, Refused, Goto, Dead
<1>6. CASE CreateDeviceNodes
  BY <1>6 DEF CreateDeviceNodes, Goto
<1>7. CASE CreateDefaultSymlinks
  BY <1>7 DEF CreateDefaultSymlinks, Refused, Goto, Dead
<1>8. CASE ConnectConsole
  BY <1>8 DEF ConnectConsole, Refused, Goto, Dead
<1>9. CASE MountConsole
  BY <1>9 DEF MountConsole, Mounts, Refused, Goto, Dead
<1>10. CASE PivotRoot
  BY <1>10 DEF PivotRoot, Refused, Goto, Dead
<1>11. CASE DetachOldRoot
  BY <1>11 DEF DetachOldRoot, Mounts, Refused, Goto, Dead
<1>12. CASE SetSysctl
  BY <1>12 DEF SetSysctl, Mounts, Refused, Goto, Dead
<1>13. CASE MountMaskedPaths
  BY <1>13 DEF MountMaskedPaths, EndPaths, MountPath, Goto
<1>14. CASE MountReadonlyPaths
  BY <1>14 DEF MountReadonlyPaths, EndPaths, MountPath, Refused, Goto, Dead
<1>15. CASE SetRootfsMountPropagation
  BY <1>15 DEF SetRootfsMountPropagation, Mounts, Refused, Goto, Dead
<1>16. CASE MountRootReadonly
  BY <1>16 DEF MountRootReadonly, Mounts, Refused, Goto, Dead
<1>17. ~Fails
  BY DEF Fails, Dead
<1> QED
  BY <1>1, <1>2, <1>3, <1>4, <1>5, <1>6, <1>7, <1>8, <1>9, <1>10, <1>11, <1>12, <1>13, <1>14,
     <1>15, <1>16, <1>17 DEF Moves, Mounting, SetupPrePivot, SetupPostPivot, Unmoving

(* From the default devices to the sysctls: a path leads where it led, but *)
(* for /dev/null and /dev/console, and below them.                         *)
LEMMA StillKeeps ==
    ASSUME HostInv, RootInv, PlaceInv, hasMountNamespace, Confined, Moves,
           pc = "defaultDevices" => Named(mnt), pc = "detach" => OldOnTop(mnt, root),
           pc \in Viewing, pc' \notin Dead, NEW q, IsSeq(q),
           pc = "defaultDevices" => ~Leads(Null, q), pc = "mountConsole" => ~Leads(Console, q)
    PROVE  Still(mnt, root, Sought(pc, q), mnt', root', Sought(pc', q))
<1>1. /\ pc # "detach" => Placed(mnt, root)
      /\ pc = "detach" => Pivoting(mnt, root)
      /\ pc \in Devising => Layout(mnt)
  BY DEF PlaceInv, RootInv, Viewing, Devising, PrePivot
<1>2. ASSUME mnt' = mnt, root' = root, pc \in PrePivot <=> pc' \in PrePivot
      PROVE  Still(mnt, root, Sought(pc, q), mnt', root', Sought(pc', q))
  BY <1>2, SameStill DEF Sought
<1>3. CASE pc = "defaultDevices" /\ MountDefaultDevices /\ pc' = "deviceNodes"
  <2>1. pc' # "refused"
    BY <1>3
  <2>2. Still(mnt, root, Rootfs \o q, mnt', root', Rootfs \o q)
    BY <1>1, <1>3, <2>1, DefaultDevicesSight DEF Devising
  <2> QED
    BY <1>3, <2>2 DEF Sought, PrePivot
<1>4. CASE pc = "mountConsole" /\ MountConsole /\ pc' = "pivot"
  <2>1. pc' # "refused"
    BY <1>4
  <2>2. Still(mnt, root, Rootfs \o q, mnt', root', Rootfs \o q)
    BY <1>1, <1>4, <2>1, ConsoleSight
  <2> QED
    BY <1>4, <2>2 DEF Sought, PrePivot
<1>5. CASE \/ pc = "deviceNodes" /\ CreateDeviceNodes /\ pc' = "symlinks"
           \/ pc = "symlinks" /\ CreateDefaultSymlinks /\ pc' = "connectConsole"
           \/ pc = "connectConsole" /\ ConnectConsole /\ pc' = "mountConsole"
           \/ pc = "sysctl" /\ SetSysctl /\ pc' = "maskedPaths"
  <2>1. mnt' = mnt /\ root' = root
    BY <1>5 DEF CreateDeviceNodes, CreateDefaultSymlinks, ConnectConsole, SetSysctl, Mounts, Refused, Goto
  <2>2. pc \in PrePivot <=> pc' \in PrePivot
    BY <1>5 DEF PrePivot
  <2> QED
    BY <1>2, <2>1, <2>2
<1>6. CASE pc = "pivot" /\ PivotRoot /\ pc' = "detach"
  <2>1. Still(mnt, root, Rootfs \o q, mnt', root', q)
    BY <1>1, <1>6, PivotStill DEF Devising
  <2> QED
    BY <1>6, <2>1 DEF Sought, PrePivot
<1>7. CASE pc = "detach" /\ DetachOldRoot /\ pc' = "createContainer"
  <2>1. Still(mnt, root, q, mnt', root', q)
    BY <1>1, <1>7, DetachStill
  <2> QED
    BY <1>7, <2>1 DEF Sought, PrePivot
<1>8. CASE Unmoving /\ mnt' = mnt /\ root' = root /\ (pc \in PrePivot => pc' = pc)
  <2>1. pc \in PrePivot <=> pc' \in PrePivot
    BY <1>8 DEF Unmoving, Goto, PrePivot, rootfsVars
  <2> QED
    BY <1>2, <1>8, <2>1
<1> QED
  BY <1>3, <1>4, <1>5, <1>6, <1>7, <1>8, StepsByName DEF Viewing, Devising

(* The default devices: the names stay those of the configuration.         *)
LEMMA DefaultDevicesNamed ==
    ASSUME HostInv, hasMountNamespace, Confined, Placed(mnt, root), Named(mnt), MountDefaultDevices
    PROVE  Named(mnt')
<1>1. Quiet(mnt) /\ IsSeq(Null)
  BY NamedPaths DEF HostInv, TableInv, MountDefaultDevices, Mounts, Refused, Goto, Ended
<1>2. IsGood(mnt, Mine(mnt), At(Null)) /\ IsGood(mnt, Mine(mnt), InRootfs(mnt, Null))
  BY <1>1, PlacedFacts DEF At
<1>3. Ends(At(Null).dentry, Names) /\ Ends(InRootfs(mnt, Null).dentry, Names)
  BY <1>1, NamedEnds, LookupEnds DEF At
<1>4. mnt' = mnt \/ mnt' = Bind(mnt, At(Null), InRootfs(mnt, Null), FALSE)
  BY DEF MountDefaultDevices, Mounts, Refused
<1>5. PICK no : no = FALSE
  OBVIOUS
<1>6. Named(Bind(mnt, At(Null), InRootfs(mnt, Null), no))
  BY <1>1, <1>2, <1>3, NamedBind
<1> QED
  BY <1>4, <1>5, <1>6

(* What is known of the view of the container before the program starts.   *)
Views(label, ms, r) ==
    /\ label \in Naming => Named(ms)
    /\ label \in Devising => ms[Walk(ms, r, Rootfs \o Pts).mount].fs = "devpts"
    /\ label = "detach" => OldOnTop(ms, r)
    /\ conf.sysctl /\ ProcOpen /\ label \in Viewing \cup {"specMounts"} =>
          ~ms[Walk(ms, r, Sought(label, ProcSys)).mount].ro

ViewInv == hasMountNamespace /\ Confined => Views(pc, mnt, root)

LEMMA ViewsKeep ==
    ASSUME HostInv, RootInv, PlaceInv, ViewInv, hasMountNamespace, Confined, Moves
    PROVE  Views(pc', mnt', root')
<1>1. Views(pc, mnt, root)
  BY DEF ViewInv
<1>2. CASE pc' \notin Naming \cup Viewing
  BY <1>2 DEF Views, Viewing, Naming
<1>3. CASE Unmoving /\ mnt' = mnt /\ root' = root /\ (pc \in PrePivot => pc' = pc)
  <2>1. CASE pc' = pc
    BY <1>1, <1>3, <2>1
  <2>2. CASE pc' # pc
    <3>1. \/ pc = "createContainer" /\ pc' = "waitStart"
          \/ pc = "waitStart" /\ pc' = "sysctl"
          \/ pc' \notin Naming \cup Viewing \cup {"specMounts", "detach"}
      BY <1>3, <2>2 DEF Unmoving, Goto, rootfsVars, Naming, Viewing, Devising
    <3> QED
      BY <1>1, <1>2, <1>3, <3>1 DEF Views, Sought, PrePivot, Naming, Viewing, Devising
  <2> QED
    BY <2>1, <2>2
<1>4. CASE pc = "mountRootfs" /\ MountRootfs /\ pc' = "mountProc"
  <2>1. Named(mnt')
    BY <1>4, MountRootfsNamed
  <2> QED
    BY <1>4, <2>1 DEF Views, Viewing, Devising
<1>5. CASE pc = "mountProc" /\ MountProc /\ pc' = "specMounts"
  <2>1. Placed(mnt, root) /\ Named(mnt)
    BY <1>1, <1>5 DEF PlaceInv, Views, Naming
  <2>2. Named(mnt') /\ ~mnt'[Walk(mnt', root', Rootfs \o ProcSys).mount].ro
    BY <1>5, <2>1, ProcViews
  <2> QED
    BY <1>5, <2>2 DEF Views, Sought, PrePivot, Devising
<1>6. CASE pc = "specMounts" /\ MountSpecMount /\ pc' \in {"specMounts", "defaultDevices"}
  <2>1. Placed(mnt, root) /\ Named(mnt) /\ pc' # "refused"
    BY <1>1, <1>6 DEF PlaceInv, Views, Naming
  <2>2. /\ Named(mnt')
        /\ pc' = "defaultDevices" => mnt'[Walk(mnt', root', Rootfs \o Pts).mount].fs = "devpts"
        /\ ProcOpen /\ ~mnt[Walk(mnt, root, Rootfs \o ProcSys).mount].ro =>
              ~mnt'[Walk(mnt', root', Rootfs \o ProcSys).mount].ro
    BY <1>6, <2>1, SpecViews
  <2>3. conf.sysctl /\ ProcOpen => ~mnt[Walk(mnt, root, Rootfs \o ProcSys).mount].ro
    BY <1>1, <1>6 DEF Views, Sought, PrePivot
  <2> QED
    BY <1>6, <2>2, <2>3 DEF Views, Sought, PrePivot, Devising
<1>7. CASE pc \in Viewing /\ pc' \in Viewing
  <2>1. pc = "defaultDevices" => Named(mnt)
    BY <1>1 DEF Views, Naming
  <2>2. pc = "detach" => OldOnTop(mnt, root)
    BY <1>1 DEF Views
  <2>3. /\ ~Leads(Null, Pts) /\ ~Leads(Null, ProcSys) /\ IsSeq(Pts) /\ IsSeq(ProcSys)
        /\ ~Leads(Console, Pts) /\ ~Leads(Console, ProcSys)
    <3>1. /\ Len(Console) = 2 /\ Console[1] = "dev" /\ Console[2] = "console"
          /\ Pts[2] = "pts" /\ ProcSys[1] = "proc"
      BY DEF Console, Pts, ProcSys
    <3> QED
      BY <3>1, PathsApart DEF Leads
  <2>4. pc' \notin Dead
    BY <1>7 DEF Viewing, Devising, Dead
  <2>5. \A q \in {Pts, ProcSys} : Still(mnt, root, Sought(pc, q), mnt', root', Sought(pc', q))
    BY <1>7, <2>1, <2>2, <2>3, <2>4, StillKeeps
  <2>6. pc' \in Devising => mnt'[Walk(mnt', root', Rootfs \o Pts).mount].fs = "devpts"
    <3> HAVE pc' \in Devising
    <3>1. pc \in Devising
      BY <1>7, <2>4, StepsByName DEF Viewing, Devising, Unmoving, Goto, rootfsVars
    <3>2. pc \in PrePivot /\ pc' \in PrePivot
      BY <3>1 DEF Devising, PrePivot
    <3> QED
      BY <1>1, <2>5, <3>1, <3>2 DEF Views, Still, Sight, Sought
  <2>7. conf.sysctl /\ ProcOpen => ~mnt'[Walk(mnt', root', Sought(pc', ProcSys)).mount].ro
    BY <1>1, <1>7, <2>5 DEF Views, Still, Sight
  <2>8. pc' = "detach" => OldOnTop(mnt', root')
    <3> HAVE pc' = "detach"
    <3>1. CASE mnt' = mnt /\ root' = root /\ pc = "detach"
      BY <2>2, <3>1
    <3>2. CASE pc = "pivot" /\ PivotRoot
      BY <3>2, PivotOnTop DEF PlaceInv
    <3> QED
      BY <1>7, <2>4, <3>1, <3>2, StepsByName DEF Unmoving, Goto, rootfsVars
  <2>9. pc' \in Naming => Named(mnt')
    <3> HAVE pc' \in Naming
    <3>1. CASE pc = "defaultDevices" /\ MountDefaultDevices
      BY <2>1, <3>1, DefaultDevicesNamed DEF PlaceInv
    <3>2. CASE mnt' = mnt /\ pc \in Naming
      BY <1>1, <3>2 DEF Views
    <3> QED
      BY <1>7, <2>4, <3>1, <3>2, StepsByName
         DEF Unmoving, Goto, rootfsVars, Naming, Viewing, Devising, CreateDeviceNodes
  <2> QED
    BY <1>7, <2>6, <2>7, <2>8, <2>9 DEF Views, Viewing, Devising
<1>8. CASE pc \notin Viewing \cup Naming \cup {"mountRootfs"}
  <2>1. pc' \notin Naming \cup Viewing
    BY <1>8, StepsByName DEF Dead, Unmoving, Goto, rootfsVars, Naming, Viewing, Devising
  <2> QED
    BY <1>2, <2>1
<1> QED
  <2>1. pc' \notin Dead \/ pc' \notin Naming \cup Viewing
    BY DEF Dead, Naming, Viewing, Devising
  <2>2. pc = "sysctl" /\ pc' = "maskedPaths" => pc' \notin Naming \cup Viewing
    BY DEF Naming, Viewing, Devising
  <2> QED
    BY <1>2, <1>3, <1>4, <1>5, <1>6, <1>7, <1>8, <2>1, <2>2, StepsByName DEF Viewing, Naming, Devising

LEMMA ViewInvariance == Spec => []ViewInv
<1>1. Init => ViewInv
  BY DEF Init, RootFSInit, ViewInv, Views, Naming, Viewing, Devising
<1>2. HostInv /\ RootInv /\ PlaceInv /\ ViewInv /\ [Next]_vars => ViewInv'
  <2> SUFFICES ASSUME HostInv, RootInv, PlaceInv, ViewInv, [Next]_vars, (hasMountNamespace /\ Confined)'
               PROVE  Views(pc, mnt, root)'
    BY DEF ViewInv
  <2>1. conf' = conf
    BY ConfStable
  <2>2. hasMountNamespace /\ Confined
    BY <2>1 DEF hasMountNamespace, Confined
  <2>3. Views(pc', mnt', root')
    BY <2>2, StepMoves, ViewsKeep
  <2>4. /\ OldRoot' = OldRoot /\ HostSize' = HostSize /\ Names' = Names
        /\ ProcOpen' <=> ProcOpen
    BY <2>1 DEF OldRoot, HostSize, Host, Names, MountPaths, ProcOpen
  <2>5. Named(mnt)' <=> Named(mnt')
    <3>1. Old' = Old
      BY <2>4 DEF Old
    <3> QED
      BY <2>4, <3>1 DEF Named, Signed, HostDev
  <2>6. OldOnTop(mnt, root)' <=> OldOnTop(mnt', root')
    BY <2>4 DEF OldOnTop
  <2> QED
    BY <2>1, <2>3, <2>4, <2>5, <2>6 DEF Views
<1> QED
  BY <1>1, <1>2, HostInvariance, RootInvariance, PlaceInvariance, PTL DEF Spec

(* Refusals by name.                                                       *)
LEMMA RefusalsByName ==
    ASSUME Moves, pc # "refused", pc' = "refused"
    PROVE  \/ pc \in Binding
           \/ pc = "symlinks" /\ IsRoot(mnt, InRootfs(mnt, Ptmx))
           \/ pc = "connectConsole" /\ mnt[InRootfs(mnt, Pts).mount].fs # "devpts"
           \/ pc = "pivot" /\ ~CanPivot(mnt, root, InRootfs(mnt, <<>>))
           \/ pc = "sysctl" /\ conf.sysctl /\ mnt[At(ProcSys).mount].ro
           \/ pc = "readonlyPaths" /\ next <= Len(conf.readonlyPaths)
<1>1. CASE MountRootfs \/ MountSpecMount \/ MountDefaultDevices \/ MountConsole
  BY <1>1 DEF MountRootfs, MountSpecMount, MountDefaultDevices, MountConsole, Mounts, Refused, Goto, Binding
<1>2. CASE MountProc \/ DetachOldRoot \/ SetRootfsMountPropagation \/ MountRootReadonly
  BY <1>2 DEF MountProc, DetachOldRoot, SetRootfsMountPropagation, MountRootReadonly, Mounts, Goto
<1>3. CASE CreateDeviceNodes \/ MountMaskedPaths
  BY <1>3 DEF CreateDeviceNodes, MountMaskedPaths, EndPaths, MountPath, Goto
<1>4. CASE CreateDefaultSymlinks
  BY <1>4 DEF CreateDefaultSymlinks, Refused, Goto
<1>5. CASE ConnectConsole
  BY <1>5 DEF ConnectConsole, Refused, Goto, Pts
<1>6. CASE PivotRoot
  BY <1>6 DEF PivotRoot, Refused, Goto
<1>7. CASE SetSysctl
  BY <1>7 DEF SetSysctl, Mounts, Refused, Goto
<1>8. CASE MountReadonlyPaths
  BY <1>8 DEF MountReadonlyPaths, EndPaths, MountPath, Refused, Goto
<1>9. CASE Fails
  BY <1>9 DEF Fails
<1>10. ~Unmoving
  BY DEF Unmoving, Goto, rootfsVars
<1> QED
  BY <1>1, <1>2, <1>3, <1>4, <1>5, <1>6, <1>7, <1>8, <1>9, <1>10
     DEF Moves, Mounting, SetupPrePivot, SetupPostPivot, Unmoving

(* What a configuration must not ask for: a mount that has, or is a bind   *)
(* mount of, something called ptmx, and over /proc/sys, if a sysctl is to  *)
(* be written, one of the host's or a read-only one.                       *)
PtmxFree == "ptmx" \notin Names

Permitted ==
    hasMountNamespace /\ Confined /\ ~AsksUnbindable /\ PtmxFree /\ (conf.sysctl => ProcOpen)

(* A refused set-up: a path to be made read-only does not exist.           *)
RefusedInv ==
    Permitted /\ pc = "refused" => \E p \in Range(conf.readonlyPaths) : p \in conf.absent

LEMMA RefusalsRight ==
    ASSUME HostInv, RootInv, PlaceInv, ViewInv, Permitted, Moves, pc # "refused", pc' = "refused"
    PROVE  \E p \in Range(conf.readonlyPaths) : p \in conf.absent
<1> USE DEF Permitted
<1>1. /\ pc \notin Binding
      /\ pc = "readonlyPaths" => conf.readonlyPaths[next] \in conf.absent
  BY BindRefusals DEF BindRefusedRightly
<1>2. Views(pc, mnt, root)
  BY DEF ViewInv
<1>3. ~(pc = "symlinks" /\ IsRoot(mnt, InRootfs(mnt, Ptmx)))
  <2> SUFFICES ASSUME pc = "symlinks"
               PROVE  ~IsRoot(mnt, InRootfs(mnt, Ptmx))
    OBVIOUS
  <2>1. Named(mnt) /\ Placed(mnt, root)
    BY <1>2 DEF Views, Naming, PlaceInv
  <2> DEFINE path == Rootfs \o Ptmx
  <2>2. Len(path) \in Nat /\ Len(path) > 0 /\ path[Len(path)] = "ptmx"
    BY DEF Rootfs, Ptmx
  <2>3. Rising(mnt, Mine(mnt)) /\ root \in Mine(mnt)
    BY <2>1, PlacedRises
  <2> HIDE DEF path
  <2>4. ~IsRoot(mnt, Walk(mnt, root, path))
    BY <2>1, <2>2, <2>3, FreeName DEF Named, PtmxFree
  <2> QED
    BY <2>4 DEF path, InRootfs
<1>4. ~(pc = "connectConsole" /\ mnt[InRootfs(mnt, Pts).mount].fs # "devpts")
  BY <1>2 DEF Views, Devising, InRootfs
<1>5. ~(pc = "pivot" /\ ~CanPivot(mnt, root, InRootfs(mnt, <<>>)))
  BY PivotPossible
<1>6. ~(pc = "sysctl" /\ conf.sysctl /\ mnt[At(ProcSys).mount].ro)
  BY <1>2 DEF Views, Viewing, Sought, PrePivot, At
<1>7. pc = "readonlyPaths" /\ next <= Len(conf.readonlyPaths)
  BY <1>1, <1>3, <1>4, <1>5, <1>6, RefusalsByName
<1>8. next \in DOMAIN conf.readonlyPaths
  <2>1. next \in 1 .. Len(conf.readonlyPaths)
    BY <1>7, ListedPaths
  <2>2. conf.readonlyPaths \in Seq(Seq(STRING))
    BY RootFSAssumption DEF HostInv
  <2> QED
    BY <2>1, <2>2
<1> QED
  BY <1>1, <1>7, <1>8 DEF Range

LEMMA RefusedInvariance == Spec => []RefusedInv
<1>1. Init => RefusedInv
  BY DEF Init, RootFSInit, RefusedInv
<1>2. HostInv /\ RootInv /\ PlaceInv /\ ViewInv /\ RefusedInv /\ [Next]_vars => RefusedInv'
  <2> SUFFICES ASSUME HostInv, RootInv, PlaceInv, ViewInv, RefusedInv, [Next]_vars,
                      Permitted', pc' = "refused"
               PROVE  \E p \in Range(conf'.readonlyPaths) : p \in conf'.absent
    BY DEF RefusedInv
  <2>1. conf' = conf /\ Moves
    BY ConfStable, StepMoves
  <2>2. Permitted
    BY <2>1 DEF Permitted, hasMountNamespace, Confined, AsksUnbindable, PtmxFree, Names, MountPaths, ProcOpen
  <2>3. \E p \in Range(conf.readonlyPaths) : p \in conf.absent
    <3>1. CASE pc = "refused"
      BY <2>2, <3>1 DEF RefusedInv
    <3>2. CASE pc # "refused"
      BY <2>1, <2>2, <3>2, RefusalsRight
    <3> QED
      BY <3>1, <3>2
  <2> QED
    BY <2>1, <2>3
<1> QED
  BY <1>1, <1>2, HostInvariance, RootInvariance, PlaceInvariance, ViewInvariance, PTL DEF Spec

(* In a container whose root has a recursive propagation that is not       *)
(* shared, which is the default, and that asks for none of the above nor   *)
(* for anything unbindable: the kernel refuses no step of the set-up but   *)
(* the read-only bind mount of a path that does not exist.  Bind mounts,   *)
(* the link at dev/ptmx, the terminal, pivot_root and the sysctls all find *)
(* what they need, whatever the configuration mounts before them.          *)
THEOREM NeverRefusedCorrect == Spec => [](Permitted => NeverRefused)
<1>1. RefusedInv => (Permitted => NeverRefused)
  BY DEF RefusedInv, NeverRefused
<1> QED
  BY <1>1, RefusedInvariance, PTL

-----------------------------------------------------------------------------
(***************************************************************************)
(* The /dev of the container.                                              *)
(***************************************************************************)

(* What was made at a place.                                               *)
KindAt(was, p) == {n[3] : n \in {m \in was : Place(m[1], m[2]) = p}}

LEMMA MadeKinds ==
    ASSUME NEW was, NEW places, \A x \in places : x = Place(x.mount, x.dentry), NEW kind, NEW p
    PROVE  /\ p \in places => KindAt(Made(was, places, kind), p) = {kind}
           /\ p \notin places => KindAt(Made(was, places, kind), p) = KindAt(was, p)
<1> DEFINE new == Made(was, places, kind)
           old == {n \in was : Place(n[1], n[2]) \notin places}
           add == {<<x.mount, x.dentry, kind>> : x \in places}
<1>1. new = old \cup add
  BY DEF Made
<1>2. \A n \in add : n[3] = kind /\ Place(n[1], n[2]) \in places
  <2> SUFFICES ASSUME NEW x \in places, NEW n, n = <<x.mount, x.dentry, kind>>
               PROVE  n[3] = kind /\ Place(n[1], n[2]) \in places
    OBVIOUS
  <2>1. n[1] = x.mount /\ n[2] = x.dentry /\ n[3] = kind
    OBVIOUS
  <2>2. x = Place(x.mount, x.dentry)
    OBVIOUS
  <2> QED
    BY <2>1, <2>2
<1>3. \A n \in old : n \in was /\ Place(n[1], n[2]) \notin places
  OBVIOUS
<1>4. \A x \in places : \E n \in add : n[3] = kind /\ Place(n[1], n[2]) = x
  <2> TAKE x \in places
  <2>1. <<x.mount, x.dentry, kind>> \in add
    OBVIOUS
  <2>2. x = Place(x.mount, x.dentry)
    OBVIOUS
  <2>3. /\ <<x.mount, x.dentry, kind>>[1] = x.mount /\ <<x.mount, x.dentry, kind>>[2] = x.dentry
        /\ <<x.mount, x.dentry, kind>>[3] = kind
    OBVIOUS
  <2> QED
    BY <2>1, <2>2, <2>3
<1>5. \A n \in was : Place(n[1], n[2]) \notin places => n \in old
  OBVIOUS
<1> HIDE DEF new, old, add
<1>6. p \in places => KindAt(new, p) = {kind}
  <2> SUFFICES ASSUME p \in places
               PROVE  KindAt(new, p) = {kind}
    OBVIOUS
  <2>1. \A n \in new : Place(n[1], n[2]) = p => n[3] = kind
    BY <1>1, <1>2, <1>3
  <2>2. \E n \in new : Place(n[1], n[2]) = p /\ n[3] = kind
    BY <1>1, <1>4
  <2> QED
    BY <2>1, <2>2 DEF KindAt
<1>7. p \notin places => KindAt(new, p) = KindAt(was, p)
  <2> SUFFICES ASSUME p \notin places
               PROVE  KindAt(new, p) = KindAt(was, p)
    OBVIOUS
  <2>1. {n \in new : Place(n[1], n[2]) = p} = {n \in was : Place(n[1], n[2]) = p}
    BY <1>1, <1>2, <1>3, <1>5
  <2> QED
    BY <2>1 DEF KindAt
<1> QED
  BY <1>6, <1>7 DEF new

(* Different paths of the image lead to different places.                  *)
LEMMA ImagePathsDiffer ==
    ASSUME NEW ms, NEW r, Placed(ms, r), NEW p, IsSeq(p), NEW q, IsSeq(q), p # q
    PROVE  Walk(ms, r, Rootfs \o p) # Walk(ms, r, Rootfs \o q)
<1> DEFINE a == Rootfs \o p
           b == Rootfs \o q
<1>1. Rising(ms, Mine(ms)) /\ r \in Mine(ms)
  BY PlacedRises
<1>2. /\ Len(a) = Len(p) + 1 /\ Len(b) = Len(q) + 1 /\ Len(p) \in Nat /\ Len(q) \in Nat
      /\ Leads(a, b) <=> Leads(p, q)
  BY LeadsBelow
<1>3. ~(Len(p) = Len(q) /\ Leads(p, q))
  <2> SUFFICES ASSUME Len(p) = Len(q), Leads(p, q)
               PROVE  FALSE
    OBVIOUS
  <2>1. \A i \in 1 .. Len(p) : p[i] = q[i]
    BY DEF Leads
  <2>2. p = q
    <3> DEFINE S == Range(p) \cup Range(q)
    <3>1. p \in Seq(S) /\ q \in Seq(S)
      <4>1. p \in Seq(Range(p)) /\ q \in Seq(Range(q))
        BY DEF IsSeq
      <4> HIDE DEF S
      <4>2. Range(p) \subseteq S /\ Range(q) \subseteq S
        BY DEF S
      <4> QED
        BY <4>1, <4>2
    <3> HIDE DEF S
    <3> QED
      BY <2>1, <3>1, SeqEqual
  <2> QED
    BY <2>2
<1> HIDE DEF a, b
<1>4. Len(a) \in Nat /\ Len(b) \in Nat
  BY <1>2
<1>5. PICK h : Steps(ms, r, a, h) /\ Walk(ms, r, a) = h[Len(a)]
  <2>1. Len(a) \in Nat
    BY <1>4
  <2> QED
    BY <2>1, WalkTaken
<1>6. PICK g : Steps(ms, r, b, g) /\ Walk(ms, r, b) = g[Len(b)]
  <2>1. Len(b) \in Nat
    BY <1>4
  <2> QED
    BY <2>1, WalkTaken
<1>7. g[Len(b)] = h[Len(a)] => Len(b) = Len(a) /\ \A i \in 1 .. Len(b) : a[i] = b[i]
  <2>1. \A n \in 0 .. Len(b) : \A k \in 0 .. Len(a) :
           g[n] = h[k] <=> n = k /\ \A i \in 1 .. n : a[i] = b[i]
    BY <1>1, <1>4, <1>5, <1>6, WalksMeet
  <2>2. Len(b) \in 0 .. Len(b) /\ Len(a) \in 0 .. Len(a)
    BY <1>4
  <2> QED
    BY <2>1, <2>2
<1>8. Walk(ms, r, a) # Walk(ms, r, b)
  <2> SUFFICES ASSUME Walk(ms, r, a) = Walk(ms, r, b)
               PROVE  FALSE
    OBVIOUS
  <2>1. Len(b) = Len(a) /\ \A i \in 1 .. Len(b) : a[i] = b[i]
    BY <1>5, <1>6, <1>7
  <2>2. Leads(a, b)
    BY <1>4, <2>1 DEF Leads
  <2> QED
    BY <1>2, <1>3, <2>1, <2>2
<1> QED
  BY <1>8 DEF a, b

(* The devices that are to be nodes, and the paths of a complete /dev.     *)
Devices == conf.devices \ {Ptmx, Null}
Tracked == {Pts, Null, Ptmx, Console, Slave} \cup Devices

(* No mount has the last name of a device or of ptmx, no device is at or   *)
(* below the console, and no path to be protected leads to any of these.   *)
DevFree ==
    /\ PtmxFree
    /\ \A d \in Devices : d # <<>> /\ d[Len(d)] \notin Names /\ ~Leads(Console, d)
    /\ \A p \in Protected, q \in Tracked : ~Leads(p, q)

(* Steps by name, again: those before something is there.                  *)
BeforePts == {"mountRootfs", "mountProc", "specMounts"}
BeforeNull == BeforePts \cup {"defaultDevices"}
BeforeNodes == BeforeNull \cup {"deviceNodes"}
BeforeLink == BeforeNodes \cup {"symlinks"}
BeforePty == BeforeLink \cup {"connectConsole"}
BeforeConsole == BeforePty \cup {"mountConsole"}

LEMMA TrackedPaths ==
    ASSUME HostInv, DevFree
    PROVE  /\ \A q \in Tracked : IsSeq(q)
           /\ \A q \in Tracked \ {Console} : ~Leads(Console, q)
           /\ \A d \in Devices : d # Ptmx
           /\ Pts # Ptmx /\ ~Leads(Null, Pts)
<1>1. /\ Len(Console) = 2 /\ Console[1] = "dev" /\ Console[2] = "console"
      /\ Len(Ptmx) = 2 /\ Ptmx[1] = "dev" /\ Ptmx[2] = "ptmx"
      /\ Pts[2] = "pts" /\ Null[2] = "null" /\ Slave[2] = "pts"
  BY DEF Console, Pts, Null, Ptmx, Slave
<1>2. IsSeq(Pts) /\ IsSeq(Null) /\ IsSeq(Console) /\ IsSeq(Slave) /\ ~Leads(Null, Pts)
  BY NamedPaths, PathsApart
<1>3. IsSeq(Ptmx)
  <2>1. <<"dev", "ptmx">> \in Seq({"dev", "ptmx"})
    OBVIOUS
  <2> QED
    BY <2>1, EverySeq DEF Ptmx
<1>4. \A q \in {Pts, Null, Ptmx, Slave} : ~Leads(Console, q)
  <2>1. 2 \in 1 .. Len(Console)
    BY <1>1
  <2>2. \A q : Leads(Console, q) => Console[2] = q[2]
    BY <2>1 DEF Leads
  <2>3. \A q \in {Pts, Null, Ptmx, Slave} : q[2] # "console"
    BY <1>1
  <2> QED
    BY <1>1, <2>2, <2>3
<1>5. \A d \in Devices : IsSeq(d) /\ ~Leads(Console, d) /\ d # Ptmx
  <2> TAKE d \in Devices
  <2>1. d \in Seq(STRING)
    BY RootFSAssumption DEF HostInv, Devices
  <2> QED
    BY <2>1, EverySeq DEF DevFree, Devices
<1>6. Pts # Ptmx
  BY <1>1
<1> HIDE DEF Devices
<1> QED
  BY <1>2, <1>3, <1>4, <1>5, <1>6 DEF Tracked

(* From the device nodes to the program: a path of a complete /dev leads   *)
(* where it led, the console once it is mounted.                           *)
LEMMA TrackedSight ==
    ASSUME HostInv, RootInv, PlaceInv, ViewInv, hasMountNamespace, Confined, DevFree, Moves,
           pc \notin BeforeNull \cup Dead, pc' \notin Dead,
           NEW q \in Tracked, pc = "mountConsole" => q # Console
    PROVE  Sight(mnt, root, Sought(pc, q), mnt', root', Sought(pc', q))
<1>1. IsSeq(q) /\ (pc = "mountConsole" => ~Leads(Console, q))
  BY TrackedPaths
<1>2. CASE pc \in Viewing
  <2>1. pc = "detach" => OldOnTop(mnt, root)
    BY DEF ViewInv, Views
  <2>2. pc # "defaultDevices"
    BY DEF BeforeNull
  <2> QED
    BY <1>1, <1>2, <2>1, <2>2, StillKeeps DEF Still
<1>3. CASE pc \notin Viewing
  <2>1. pc \notin PrePivot
    BY <1>3 DEF Viewing, Devising, PrePivot, BeforeNull, BeforePts
  <2>2. Placed(mnt, root)
    BY <1>3 DEF PlaceInv, Viewing, Dead
  <2>3. pc' \notin PrePivot
    BY <2>1, StepsByName DEF PrePivot, Unmoving, Goto, rootfsVars
  <2>4. CASE MountMaskedPaths \/ MountReadonlyPaths
    <3>1. \A p \in Protected : ~Leads(p, q)
      BY DEF DevFree
    <3>2. Sight(mnt, root, q, mnt', root', q)
      BY <1>1, <2>2, <2>4, <3>1, PathsSight
    <3> QED
      BY <2>1, <2>3, <3>2 DEF Sought
  <2>5. CASE SetRootfsMountPropagation \/ MountRootReadonly
    <3>1. Sight(mnt, root, q, mnt', root', q)
      BY <1>1, <2>2, <2>5, RootSight
    <3> QED
      BY <2>1, <2>3, <3>1 DEF Sought
  <2>6. CASE mnt' = mnt /\ root' = root
    BY <2>1, <2>3, <2>6, SameStill DEF Sought, Still
  <2> QED
    BY <1>3, <2>1, <2>4, <2>5, <2>6, StepsByName DEF Viewing, Devising, PrePivot
<1> QED
  BY <1>2, <1>3

(* What is known of the container's /dev at a step.                        *)
Seen(label, ms, r, q) == Walk(ms, r, Sought(label, q))

Devs(label, ms, r, made, tty) ==
    /\ label \in BeforeNodes => made = {}
    /\ label \in BeforePty => tty = None
    /\ label \notin BeforePts \cup Dead => ms[Seen(label, ms, r, Pts).mount].fs = "devpts"
    /\ label \notin BeforeNull \cup Dead => ms[Seen(label, ms, r, Null).mount].fs = "devtmpfs"
    /\ label \notin BeforeNodes \cup Dead =>
          \A d \in Devices : KindAt(made, Seen(label, ms, r, d)) = {"device"}
    /\ label \notin BeforeLink \cup Dead => KindAt(made, Seen(label, ms, r, Ptmx)) = {"link"}
    /\ label \notin BeforePty \cup Dead /\ tty # None => tty = Seen(label, ms, r, Pts).mount
    /\ label \notin BeforeConsole \cup Dead /\ tty # None =>
          Seen(label, ms, r, Console).dentry = Seen(label, ms, r, Slave).dentry

DevInv == hasMountNamespace /\ Confined /\ DevFree => Devs(pc, mnt, root, nodes, pty)

(* A step that moves none of it.                                           *)
LEMMA DevsCarry ==
    ASSUME NEW label, label \notin BeforeConsole \cup Dead, NEW ms, NEW r, NEW made, NEW tty,
           Devs(label, ms, r, made, tty),
           NEW to, to \notin BeforeConsole \cup Dead, NEW new, NEW s,
           \A q \in Tracked : Sight(ms, r, Sought(label, q), new, s, Sought(to, q))
    PROVE  Devs(to, new, s, made, tty)
<1>1. \A q \in Tracked : /\ Seen(to, new, s, q) = Seen(label, ms, r, q)
                         /\ new[Seen(label, ms, r, q).mount].fs = ms[Seen(label, ms, r, q).mount].fs
  BY DEF Sight, Seen
<1>2. Pts \in Tracked /\ Null \in Tracked /\ Ptmx \in Tracked /\ Console \in Tracked
      /\ Slave \in Tracked /\ Devices \subseteq Tracked
  BY DEF Tracked
<1>3. /\ label \notin BeforePts /\ label \notin BeforeNull /\ label \notin BeforeNodes
      /\ label \notin BeforeLink /\ label \notin BeforePty /\ label \notin Dead
      /\ to \notin BeforePts /\ to \notin BeforeNull /\ to \notin BeforeNodes
      /\ to \notin BeforeLink /\ to \notin BeforePty /\ to \notin Dead
  BY DEF BeforePts, BeforeNull, BeforeNodes, BeforeLink, BeforePty, BeforeConsole
<1>4. /\ ms[Seen(label, ms, r, Pts).mount].fs = "devpts"
      /\ ms[Seen(label, ms, r, Null).mount].fs = "devtmpfs"
      /\ \A d \in Devices : KindAt(made, Seen(label, ms, r, d)) = {"device"}
      /\ KindAt(made, Seen(label, ms, r, Ptmx)) = {"link"}
      /\ tty # None => tty = Seen(label, ms, r, Pts).mount
      /\ tty # None => Seen(label, ms, r, Console).dentry = Seen(label, ms, r, Slave).dentry
  BY <1>3 DEF Devs
<1>5. /\ new[Seen(to, new, s, Pts).mount].fs = "devpts"
      /\ new[Seen(to, new, s, Null).mount].fs = "devtmpfs"
  BY <1>1, <1>2, <1>4
<1>6. \A d \in Devices : KindAt(made, Seen(to, new, s, d)) = {"device"}
  BY <1>1, <1>2, <1>4
<1>7. /\ KindAt(made, Seen(to, new, s, Ptmx)) = {"link"}
      /\ tty # None => tty = Seen(to, new, s, Pts).mount
      /\ tty # None => Seen(to, new, s, Console).dentry = Seen(to, new, s, Slave).dentry
  BY <1>1, <1>2, <1>4
<1> QED
  BY <1>3, <1>5, <1>6, <1>7 DEF Devs

(* CreateDeviceNodes: every device asked for is a node.                    *)
LEMMA DevicesMade ==
    ASSUME HostInv, Placed(mnt, root), Named(mnt), DevFree, nodes = {}, CreateDeviceNodes,
           NEW d \in Devices
    PROVE  KindAt(nodes', Walk(mnt, root, Rootfs \o d)) = {"device"}
<1> DEFINE places == {p \in {InRootfs(mnt, e) : e \in conf.devices} : ~IsRoot(mnt, p)}
           at == Walk(mnt, root, Rootfs \o d)
<1>1. nodes' = {<<p.mount, p.dentry, "device">> : p \in places}
  BY DEF CreateDeviceNodes, Made
<1>2. IsSeq(d) /\ d # <<>> /\ d[Len(d)] \notin Names /\ d \in conf.devices
  BY TrackedPaths DEF DevFree, Devices, Tracked
<1>3. Len(d) \in Nat /\ Len(d) > 0
  BY <1>2, SeqFacts, EmptySeq DEF IsSeq
<1>4. ~IsRoot(mnt, at)
  <2> DEFINE path == Rootfs \o d
  <2>1. Len(path) = Len(d) + 1 /\ path[Len(d) + 1] = d[Len(d)]
    BY <1>2, <1>3, LeadsBelow
  <2>2. Len(path) \in Nat /\ Len(path) > 0 /\ path[Len(path)] \notin Names
    BY <1>2, <1>3, <2>1
  <2>3. Rising(mnt, Mine(mnt)) /\ root \in Mine(mnt)
    BY PlacedRises
  <2> HIDE DEF path
  <2>4. ~IsRoot(mnt, Walk(mnt, root, path))
    BY <2>2, <2>3, FreeName DEF Named
  <2> QED
    BY <2>4 DEF path
<1>5. at \in places
  BY <1>2, <1>4 DEF InRootfs
<1>6. at = Place(at.mount, at.dentry)
  BY <1>2, PlacedFacts DEF InRootfs, IsGood, IsPlace
<1>7. \A n \in nodes' : n[3] = "device"
  <2> HIDE DEF places
  <2> QED
    BY <1>1
<1>8. \E n \in nodes' : Place(n[1], n[2]) = at /\ n[3] = "device"
  <2> HIDE DEF places, at
  <2>1. <<at.mount, at.dentry, "device">> \in nodes'
    BY <1>1, <1>5
  <2>2. Place(<<at.mount, at.dentry, "device">>[1], <<at.mount, at.dentry, "device">>[2]) = at
    BY <1>6
  <2> QED
    BY <2>1, <2>2
<1> HIDE DEF at, places
<1> QED
  BY <1>7, <1>8 DEF KindAt, at

(* CreateDefaultSymlinks: dev/ptmx is a link, and the devices stay.        *)
LEMMA LinkMade ==
    ASSUME HostInv, Placed(mnt, root), DevFree, CreateDefaultSymlinks, pc' # "refused"
    PROVE  /\ KindAt(nodes', Walk(mnt, root, Rootfs \o Ptmx)) = {"link"}
           /\ \A d \in Devices : KindAt(nodes', Walk(mnt, root, Rootfs \o d))
                                 = KindAt(nodes, Walk(mnt, root, Rootfs \o d))
<1> DEFINE p == Walk(mnt, root, Rootfs \o Ptmx)
<1>1. nodes' = Made(nodes, {p}, "link")
  BY DEF CreateDefaultSymlinks, Refused, Goto, InRootfs
<1>2. Ptmx \in Tracked /\ Devices \subseteq Tracked
  BY DEF Tracked
<1>3. IsSeq(Ptmx) /\ \A d \in Devices : IsSeq(d) /\ d # Ptmx
  BY <1>2, TrackedPaths
<1>4. p = Place(p.mount, p.dentry)
  BY <1>3, PlacedFacts DEF InRootfs, IsGood, IsPlace
<1>5. \A d \in Devices : Walk(mnt, root, Rootfs \o d) # p
  BY <1>3, ImagePathsDiffer
<1> HIDE DEF p
<1>6. \A x \in {p} : x = Place(x.mount, x.dentry)
  BY <1>4
<1>7. KindAt(Made(nodes, {p}, "link"), p) = {"link"}
  BY <1>6, MadeKinds
<1>8. ASSUME NEW d \in Devices
      PROVE  KindAt(Made(nodes, {p}, "link"), Walk(mnt, root, Rootfs \o d))
             = KindAt(nodes, Walk(mnt, root, Rootfs \o d))
  <2>1. Walk(mnt, root, Rootfs \o d) \notin {p}
    BY <1>5
  <2> QED
    BY <1>6, <2>1, MadeKinds
<1> QED
  BY <1>1, <1>7, <1>8 DEF p

(* What each step makes of it.                                             *)
LEMMA DevsKeep ==
    ASSUME HostInv, RootInv, PlaceInv, ViewInv, DevInv, hasMountNamespace, Confined, DevFree, Moves
    PROVE  Devs(pc', mnt', root', nodes', pty')
<1>1. Devs(pc, mnt, root, nodes, pty) /\ Views(pc, mnt, root) /\ Views(pc', mnt', root')
  BY ViewsKeep DEF DevInv, ViewInv
<1> USE DEF BeforePts, BeforeNull, BeforeNodes, BeforeLink, BeforePty, BeforeConsole
<1>2. CASE pc' \in Dead
  BY <1>2 DEF Devs, Dead
<1>3. /\ pc' \in PrePivot => \A q : Sought(pc', q) = Rootfs \o q
      /\ pc \in PrePivot => \A q : Sought(pc, q) = Rootfs \o q
  BY DEF Sought
<1>4. pc' \in Devising => mnt'[Walk(mnt', root', Rootfs \o Pts).mount].fs = "devpts"
  BY <1>1 DEF Views
<1>6. CASE UNCHANGED rootfsVars
  BY <1>1, <1>6 DEF rootfsVars
<1>7. CASE \/ pc = "mountRootfs" /\ MountRootfs /\ pc' = "mountProc"
           \/ pc = "mountProc" /\ MountProc /\ pc' = "specMounts"
           \/ pc = "specMounts" /\ MountSpecMount /\ pc' \in {"specMounts", "defaultDevices"}
  <2>1. nodes' = nodes /\ pty' = pty
    BY <1>7 DEF MountRootfs, MountProc, MountSpecMount, Mounts, Refused
  <2>2. nodes = {} /\ pty = None
    BY <1>1, <1>7 DEF Devs
  <2>3. pc' = "defaultDevices" => mnt'[Seen(pc', mnt', root', Pts).mount].fs = "devpts"
    BY <1>3, <1>4 DEF Seen, PrePivot, Devising
  <2> QED
    BY <1>7, <2>1, <2>2, <2>3 DEF Devs
<1>8. CASE pc = "defaultDevices" /\ MountDefaultDevices /\ pc' = "deviceNodes"
  <2>1. nodes' = nodes /\ pty' = pty
    BY <1>8 DEF MountDefaultDevices, Mounts, Refused
  <2>2. nodes = {} /\ pty = None
    BY <1>1, <1>8 DEF Devs
  <2>3. mnt'[Seen(pc', mnt', root', Pts).mount].fs = "devpts"
    BY <1>3, <1>4, <1>8 DEF Seen, PrePivot, Devising
  <2>4. mnt'[Walk(mnt', root', Rootfs \o Null).mount].fs = "devtmpfs"
    <3>1. Placed(mnt, root) /\ Named(mnt) /\ Layout(mnt)
      BY <1>1, <1>8 DEF PlaceInv, RootInv, Views, Naming, PrePivot
    <3>2. IsSeq(Null) /\ pc' # "refused"
      BY <1>8, NamedPaths
    <3> QED
      BY <1>8, <3>1, <3>2, DefaultDevicesSight
  <2>5. mnt'[Seen(pc', mnt', root', Null).mount].fs = "devtmpfs"
    BY <1>3, <1>8, <2>4 DEF Seen, PrePivot
  <2> QED
    BY <1>8, <2>1, <2>2, <2>3, <2>5 DEF Devs
<1>9. CASE pc = "deviceNodes" /\ CreateDeviceNodes /\ pc' = "symlinks"
  <2>1. mnt' = mnt /\ root' = root /\ pty' = pty
    BY <1>9 DEF CreateDeviceNodes
  <2>2. \A q : Seen(pc', mnt', root', q) = Walk(mnt, root, Rootfs \o q)
               /\ Seen(pc, mnt, root, q) = Walk(mnt, root, Rootfs \o q)
    BY <1>3, <1>9, <2>1 DEF Seen, PrePivot
  <2>3. /\ nodes = {} /\ pty = None
        /\ mnt[Seen(pc, mnt, root, Pts).mount].fs = "devpts"
        /\ mnt[Seen(pc, mnt, root, Null).mount].fs = "devtmpfs"
    BY <1>1, <1>9 DEF Devs, Dead
  <2>4. \A d \in Devices : KindAt(nodes', Walk(mnt, root, Rootfs \o d)) = {"device"}
    <3>1. Placed(mnt, root) /\ Named(mnt)
      BY <1>1, <1>9 DEF PlaceInv, Views, Naming
    <3> QED
      BY <1>9, <2>3, <3>1, DevicesMade
  <2> QED
    BY <1>9, <2>1, <2>2, <2>3, <2>4 DEF Devs
<1>10. CASE pc = "symlinks" /\ CreateDefaultSymlinks /\ pc' = "connectConsole"
  <2>1. mnt' = mnt /\ root' = root /\ pty' = pty
    BY <1>10 DEF CreateDefaultSymlinks, Refused
  <2>2. \A q : Seen(pc', mnt', root', q) = Walk(mnt, root, Rootfs \o q)
               /\ Seen(pc, mnt, root, q) = Walk(mnt, root, Rootfs \o q)
    BY <1>3, <1>10, <2>1 DEF Seen, PrePivot
  <2>3. /\ pty = None
        /\ mnt[Seen(pc, mnt, root, Pts).mount].fs = "devpts"
        /\ mnt[Seen(pc, mnt, root, Null).mount].fs = "devtmpfs"
        /\ \A d \in Devices : KindAt(nodes, Seen(pc, mnt, root, d)) = {"device"}
    BY <1>1, <1>10 DEF Devs, Dead
  <2>4. /\ KindAt(nodes', Walk(mnt, root, Rootfs \o Ptmx)) = {"link"}
        /\ \A d \in Devices : KindAt(nodes', Walk(mnt, root, Rootfs \o d))
                              = KindAt(nodes, Walk(mnt, root, Rootfs \o d))
    BY <1>10, LinkMade DEF PlaceInv
  <2> QED
    BY <1>10, <2>1, <2>2, <2>3, <2>4 DEF Devs
<1>11. CASE pc = "connectConsole" /\ ConnectConsole /\ pc' = "mountConsole"
  <2>1. mnt' = mnt /\ root' = root /\ nodes' = nodes
    BY <1>11 DEF ConnectConsole, Refused, Goto
  <2>2. \A q : Seen(pc', mnt', root', q) = Walk(mnt, root, Rootfs \o q)
               /\ Seen(pc, mnt, root, q) = Walk(mnt, root, Rootfs \o q)
    BY <1>3, <1>11, <2>1 DEF Seen, PrePivot
  <2>3. /\ pty = None
        /\ mnt[Seen(pc, mnt, root, Pts).mount].fs = "devpts"
        /\ mnt[Seen(pc, mnt, root, Null).mount].fs = "devtmpfs"
        /\ \A d \in Devices : KindAt(nodes, Seen(pc, mnt, root, d)) = {"device"}
        /\ KindAt(nodes, Seen(pc, mnt, root, Ptmx)) = {"link"}
    BY <1>1, <1>11 DEF Devs, Dead
  <2>4. pty' = None \/ pty' = Walk(mnt, root, Rootfs \o Pts).mount
    BY <1>11, <2>3 DEF ConnectConsole, Refused, Goto, InRootfs, Pts
  <2> QED
    BY <1>11, <2>1, <2>2, <2>3, <2>4 DEF Devs
<1>12. CASE pc = "mountConsole" /\ MountConsole /\ pc' = "pivot"
  <2>1. nodes' = nodes /\ pty' = pty /\ pc' # "refused"
    BY <1>12 DEF MountConsole, Mounts, Refused
  <2>2. /\ mnt[Seen(pc, mnt, root, Pts).mount].fs = "devpts"
        /\ mnt[Seen(pc, mnt, root, Null).mount].fs = "devtmpfs"
        /\ \A d \in Devices : KindAt(nodes, Seen(pc, mnt, root, d)) = {"device"}
        /\ KindAt(nodes, Seen(pc, mnt, root, Ptmx)) = {"link"}
        /\ pty # None => pty = Seen(pc, mnt, root, Pts).mount
    BY <1>1, <1>12 DEF Devs, Dead
  <2>3. \A q \in Tracked \ {Console} :
           /\ Seen(pc', mnt', root', q) = Seen(pc, mnt, root, q)
           /\ mnt'[Seen(pc, mnt, root, q).mount].fs = mnt[Seen(pc, mnt, root, q).mount].fs
    <3> TAKE q \in Tracked \ {Console}
    <3>1. pc \notin BeforeNull \cup Dead /\ pc' \notin Dead
      BY <1>12 DEF Dead
    <3>2. Sight(mnt, root, Sought(pc, q), mnt', root', Sought(pc', q))
      BY <3>1, TrackedSight
    <3> QED
      BY <3>2 DEF Sight, Seen
  <2>4. /\ Pts \in Tracked \ {Console} /\ Null \in Tracked \ {Console}
        /\ Ptmx \in Tracked \ {Console} /\ \A d \in Devices : d \in Tracked \ {Console}
    <3>1. /\ Console[2] = "console" /\ Pts[2] = "pts" /\ Null[2] = "null" /\ Ptmx[2] = "ptmx"
      BY DEF Console, Pts, Null, Ptmx
    <3>2. \A d \in Devices : d # Console
      <4>1. Leads(Console, Console)
        <5>1. Len(Console) = 2
          BY DEF Console
        <5> QED
          BY <5>1 DEF Leads
      <4> QED
        BY <4>1 DEF DevFree
    <3> QED
      BY <3>1, <3>2 DEF Tracked
  <2>5. pty # None => Seen(pc', mnt', root', Console).dentry = Seen(pc', mnt', root', Slave).dentry
    <3>1. IsSeq(Slave)
      BY NamedPaths
    <3>2. pty # None => Walk(mnt', root', Rootfs \o Console).dentry
                        = Walk(mnt', root', Rootfs \o Slave).dentry
      BY <1>12, <2>1, <3>1, ConsoleSight DEF PlaceInv
    <3> QED
      BY <1>3, <1>12, <3>2 DEF Seen, PrePivot
  <2>6. /\ mnt'[Seen(pc', mnt', root', Pts).mount].fs = "devpts"
        /\ mnt'[Seen(pc', mnt', root', Null).mount].fs = "devtmpfs"
        /\ KindAt(nodes, Seen(pc', mnt', root', Ptmx)) = {"link"}
        /\ pty # None => pty = Seen(pc', mnt', root', Pts).mount
    BY <2>2, <2>3, <2>4
  <2>7. \A d \in Devices : KindAt(nodes, Seen(pc', mnt', root', d)) = {"device"}
    BY <2>2, <2>3, <2>4
  <2> QED
    BY <1>12, <2>1, <2>5, <2>6, <2>7 DEF Devs
<1>13. CASE pc \notin BeforeConsole \cup Dead /\ pc' \notin BeforeConsole \cup Dead
            /\ nodes' = nodes /\ pty' = pty
  <2>1. \A q \in Tracked : Sight(mnt, root, Sought(pc, q), mnt', root', Sought(pc', q))
    BY <1>13, TrackedSight
  <2> QED
    BY <1>1, <1>13, <2>1, DevsCarry
<1>5. CASE Unmoving /\ pc' \notin Dead
  <2>1. CASE UNCHANGED rootfsVars
    BY <1>6, <2>1
  <2>2. CASE ~UNCHANGED rootfsVars
    <3>1. /\ pc \in {"createContainer", "waitStart", "startContainer", "hostname"}
          /\ pc' \in {"waitStart", "sysctl", "startContainer", "exec"}
          /\ nodes' = nodes /\ pty' = pty
      BY <1>5, <2>2 DEF Unmoving, Goto, Dead
    <3>2. pc \notin BeforeConsole \cup Dead /\ pc' \notin BeforeConsole \cup Dead
      BY <3>1 DEF Dead
    <3> QED
      BY <1>13, <3>1, <3>2
  <2> QED
    BY <2>1, <2>2
<1>14. CASE \/ pc = "pivot" /\ PivotRoot /\ pc' = "detach"
            \/ pc = "detach" /\ DetachOldRoot /\ pc' = "createContainer"
            \/ pc = "sysctl" /\ SetSysctl /\ pc' = "maskedPaths"
            \/ pc = "propagation" /\ SetRootfsMountPropagation /\ pc' = "readonly"
            \/ pc = "readonly" /\ MountRootReadonly /\ pc' = "hostname"
  <2>1. nodes' = nodes /\ pty' = pty
    BY <1>14 DEF PivotRoot, DetachOldRoot, SetSysctl, SetRootfsMountPropagation, MountRootReadonly,
                 Mounts, Refused
  <2>2. pc \notin BeforeConsole \cup Dead /\ pc' \notin BeforeConsole \cup Dead
    BY <1>14 DEF Dead
  <2> QED
    BY <1>13, <2>1, <2>2
<1>15. CASE \/ /\ pc = "maskedPaths" /\ MountMaskedPaths
               /\ pc' \in {"maskedPaths", "readonlyPaths"}
            \/ /\ pc = "readonlyPaths" /\ MountReadonlyPaths
               /\ pc' \in {"readonlyPaths", "propagation"}
  <2>1. nodes' = nodes /\ pty' = pty
    BY <1>15 DEF MountMaskedPaths, MountReadonlyPaths, EndPaths, MountPath, Refused
  <2>2. pc \notin BeforeConsole \cup Dead /\ pc' \notin BeforeConsole \cup Dead
    BY <1>15 DEF Dead
  <2> QED
    BY <1>13, <2>1, <2>2
<1> QED
  <2> HIDE DEF BeforePts, BeforeNull, BeforeNodes, BeforeLink, BeforePty, BeforeConsole
  <2> QED
    BY <1>2, <1>5, <1>7, <1>8, <1>9, <1>10, <1>11, <1>12, <1>14, <1>15, StepsByName

LEMMA DevInvariance == Spec => []DevInv
<1>1. Init => DevInv
  BY DEF Init, RootFSInit, DevInv, Devs, BeforePts, BeforeNull, BeforeNodes, BeforeLink, BeforePty
<1>2. HostInv /\ RootInv /\ PlaceInv /\ ViewInv /\ DevInv /\ [Next]_vars => DevInv'
  <2> SUFFICES ASSUME HostInv, RootInv, PlaceInv, ViewInv, DevInv, [Next]_vars,
                      (hasMountNamespace /\ Confined /\ DevFree)'
               PROVE  Devs(pc, mnt, root, nodes, pty)'
    BY DEF DevInv
  <2>1. conf' = conf
    BY ConfStable
  <2>2. /\ Devices' = Devices /\ Names' = Names /\ Protected' = Protected
        /\ hasMountNamespace /\ Confined
    BY <2>1 DEF Devices, Names, MountPaths, Protected, Masked, hasMountNamespace, Confined
  <2>3. DevFree
    BY <2>2 DEF DevFree, PtmxFree, Tracked
  <2>4. Devs(pc', mnt', root', nodes', pty')
    BY <2>2, <2>3, StepMoves, DevsKeep
  <2> QED
    BY <2>2, <2>4 DEF Devs, Seen
<1> QED
  BY <1>1, <1>2, HostInvariance, RootInvariance, PlaceInvariance, ViewInvariance, PTL DEF Spec

(* In such a container, if its mounts leave the names of the devices alone *)
(* and its protected paths the paths of a complete /dev: when the program  *)
(* starts, the devpts instance of the container is the one in sight and    *)
(* the one its terminal belongs to, the console is the slave of that       *)
(* terminal, dev/ptmx is a link, dev/null is the host's and every device   *)
(* asked for is a node, whatever else is mounted, and in spite of the      *)
(* pivot, the unmounting of the old root and the paths protected later.    *)
THEOREM DevCompleteCorrect ==
    Spec => [](hasMountNamespace /\ Confined /\ DevFree => DevComplete)
<1>1. DevInv => (hasMountNamespace /\ Confined /\ DevFree => DevComplete)
  <2> SUFFICES ASSUME DevInv, hasMountNamespace, Confined, DevFree, pc = "exec"
               PROVE  DevComplete
    BY DEF DevComplete
  <2>1. \A q : Seen(pc, mnt, root, q) = At(q)
    BY DEF Seen, Sought, PrePivot, At
  <2>2. /\ pc \notin BeforePts \cup Dead /\ pc \notin BeforeNull \cup Dead
        /\ pc \notin BeforeNodes \cup Dead /\ pc \notin BeforeLink \cup Dead
        /\ pc \notin BeforePty \cup Dead /\ pc \notin BeforeConsole \cup Dead
    BY DEF BeforePts, BeforeNull, BeforeNodes, BeforeLink, BeforePty, BeforeConsole, Dead
  <2>3. /\ mnt[At(Pts).mount].fs = "devpts"
        /\ mnt[At(Null).mount].fs = "devtmpfs"
        /\ \A d \in Devices : KindAt(nodes, At(d)) = {"device"}
        /\ KindAt(nodes, At(Ptmx)) = {"link"}
        /\ pty # None => pty = At(Pts).mount /\ At(Console).dentry = At(Slave).dentry
    BY <2>1, <2>2 DEF DevInv, Devs
  <2> QED
    BY <2>3 DEF DevComplete, KindAt, Devices, Pts
<1> QED
  BY <1>1, DevInvariance, PTL

-----------------------------------------------------------------------------
(* The types of the set-up.                                                *)

(* What is known of the mounts, the root, the nodes and the terminal.      *)
Types(ms, r, made, tty) ==
    /\ ms \in Seq(Mount)
    /\ r \in DOMAIN ms
    /\ made \subseteq (DOMAIN ms) \X Seq(STRING) \X {"device", "link"}
    /\ tty \in DOMAIN ms \cup {None}

(* The paths the runtime itself uses.                                      *)
LEMMA OwnPaths ==
    /\ <<>> \in Seq(STRING) /\ Rootfs \in Seq(STRING) /\ Null \in Seq(STRING)
    /\ Ptmx \in Seq(STRING) /\ Slave \in Seq(STRING) /\ Console \in Seq(STRING)
    /\ <<"proc">> \in Seq(STRING) /\ <<"cgroup">> \in Seq(STRING)
    /\ <<"dev", "pts">> \in Seq(STRING)
    /\ DevPts.dest \in Seq(STRING) /\ DevPts.source \in Seq(STRING) /\ DevPts.type \in STRING
<1>1. /\ "rootfs" \in STRING /\ "dev" \in STRING /\ "null" \in STRING /\ "ptmx" \in STRING
      /\ "pts" \in STRING /\ "0" \in STRING /\ "console" \in STRING /\ "proc" \in STRING
      /\ "cgroup" \in STRING /\ "devpts" \in STRING
  BY NamesAssumption
<1>2. ASSUME NEW a \in STRING, NEW b \in STRING, NEW c \in STRING
      PROVE  <<>> \in Seq(STRING) /\ <<a>> \in Seq(STRING) /\ <<a, b>> \in Seq(STRING)
             /\ <<a, b, c>> \in Seq(STRING)
  BY Tuples
<1>3. DevPts.dest = <<"dev", "pts">> /\ DevPts.source = <<>> /\ DevPts.type = "devpts"
  BY DEF DevPts
<1> QED
  BY <1>1, <1>2, <1>3 DEF Rootfs, Null, Ptmx, Slave, Console

(* A mount made by the kernel.                                             *)
LEMMA NewMountTable ==
    ASSUME NEW fs \in STRING, NEW ro \in BOOLEAN
    PROVE  NewMount(fs, ro) \in Mount /\ <<NewMount(fs, ro)>> \in Seq(Mount)
<1>1. <<>> \in Seq(STRING)
  OBVIOUS
<1>2. NewMount(fs, ro) \in Mount
  BY <1>1 DEF NewMount, Mount
<1> QED
  BY <1>2, Tuples

(* The table of the host, and the copy of it.                              *)
LEMMA HostTable ==
    ASSUME NEW c
    PROVE  Host(c) \in Seq(Mount)
<1> DEFINE mount(fs, parent, at, i) ==
              [NewMount(fs, FALSE) EXCEPT !.ns = "host", !.parent = parent, !.at = at,
                                          !.group = IF c.hostShared THEN i ELSE 0]
<1>1. ASSUME NEW fs \in STRING, NEW parent \in Nat, NEW at \in Seq(STRING), NEW i \in Nat
      PROVE  mount(fs, parent, at, i) \in Mount
  <2> DEFINE group == IF c.hostShared THEN i ELSE 0
  <2>1. NewMount(fs, FALSE) \in Mount /\ group \in Nat
    BY NewMountTable
  <2>2. mount(fs, parent, at, i) = [NewMount(fs, FALSE) EXCEPT !.ns = "host", !.parent = parent,
                                                               !.at = at, !.group = group]
    OBVIOUS
  <2> HIDE DEF group, mount
  <2>3. [NewMount(fs, FALSE) EXCEPT !.ns = "host", !.parent = parent, !.at = at,
                                    !.group = group] \in Mount
    BY <2>1, MountUpdates, Zenon
  <2> QED
    BY <2>2, <2>3
<1>2. /\ "host" \in STRING /\ "devtmpfs" \in STRING /\ "cgroup" \in STRING /\ "image" \in STRING
      /\ "data" \in STRING /\ "dev" \in STRING
  BY NamesAssumption
<1>3. /\ <<>> \in Seq(STRING) /\ <<"dev">> \in Seq(STRING) /\ <<"cgroup">> \in Seq(STRING)
      /\ <<"data">> \in Seq(STRING) /\ Rootfs \in Seq(STRING)
  BY <1>2, OwnPaths
<1>4. Append(Rootfs, "data") \in Seq(STRING)
  BY <1>2, <1>3, AppendProperties
<1> HIDE DEF mount
<1>5. /\ mount("host", 0, <<>>, 1) \in Mount /\ mount("devtmpfs", 1, <<"dev">>, 2) \in Mount
      /\ mount("cgroup", 1, <<"cgroup">>, 3) \in Mount /\ mount("image", 1, Rootfs, 4) \in Mount
      /\ mount("data", 4, <<"data">>, 5) \in Mount
      /\ mount("data", 1, Append(Rootfs, "data"), 4) \in Mount
  BY <1>1, <1>2, <1>3, <1>4
<1> DEFINE base == <<mount("host", 0, <<>>, 1), mount("devtmpfs", 1, <<"dev">>, 2),
                     mount("cgroup", 1, <<"cgroup">>, 3)>>
           image == IF c.imageMount THEN Append(base, mount("image", 1, Rootfs, 4)) ELSE base
           inner == IF c.imageMount THEN mount("data", 4, <<"data">>, 5)
                                    ELSE mount("data", 1, Append(Rootfs, "data"), 4)
<1>6. base \in Seq(Mount)
  BY <1>5
<1>7. inner \in Mount
  BY <1>5
<1> HIDE DEF base, inner
<1>8. image \in Seq(Mount)
  BY <1>5, <1>6, AppendProperties
<1> HIDE DEF image
<1>9. Append(image, inner) \in Seq(Mount)
  BY <1>7, <1>8, AppendProperties
<1>10. Host(c) = IF ~c.inner THEN image ELSE Append(image, inner)
  BY DEF Host, image, inner, base, mount
<1> QED
  BY <1>8, <1>9, <1>10

(* The namespace of the process gets a copy of every mount.                *)
LEMMA CloneNamespaceTable ==
    ASSUME NEW ms \in Seq(Mount)
    PROVE  CloneNamespace(ms) \in Seq(Mount) /\ Len(CloneNamespace(ms)) = Len(ms) + Len(ms)
<1> DEFINE copy == [i \in DOMAIN ms |->
                       [ms[i] EXCEPT !.ns = "container",
                                     !.parent = IF @ = 0 THEN 0 ELSE Len(ms) + @]]
<1>1. DOMAIN ms = 1 .. Len(ms) /\ Len(ms) \in Nat /\ \A i \in 1 .. Len(ms) : ms[i] \in Mount
  BY TableFacts
<1>2. DOMAIN copy = DOMAIN ms /\ copy = [i \in DOMAIN copy |-> copy[i]]
  OBVIOUS
<1>3. ASSUME NEW i \in 1 .. Len(ms)
      PROVE  copy[i] \in Mount
  <2> DEFINE m == ms[i]
             parent == IF m.parent = 0 THEN 0 ELSE Len(ms) + m.parent
  <2>1. m \in Mount
    BY <1>1
  <2>2. m.parent \in Nat
    BY <2>1, MountFields
  <2>3. parent \in Nat
    BY <1>1, <2>2
  <2>4. copy[i] = [m EXCEPT !.ns = "container", !.parent = parent]
    BY <1>1
  <2> HIDE DEF copy, m, parent
  <2>5. [m EXCEPT !.ns = "container", !.parent = parent] \in Mount
    BY <2>1, <2>3, MountUpdates, Zenon
  <2> QED
    BY <2>4, <2>5
<1>4. CloneNamespace(ms) = ms \o copy
  BY DEF CloneNamespace
<1> HIDE DEF copy
<1>5. copy \in Seq(Mount) /\ Len(copy) = Len(ms)
  BY <1>2, <1>3, MapTable
<1>6. ms \o copy \in Seq(Mount) /\ Len(ms \o copy) = Len(ms) + Len(copy)
  BY <1>5, ConcatProperties
<1> QED
  BY <1>4, <1>5, <1>6

(* At the start the tables are those of the host.                          *)
LEMMA TypesInit == Init => Types(mnt, root, nodes, pty)
<1> SUFFICES ASSUME Init
             PROVE  Types(mnt, root, nodes, pty)
  OBVIOUS
<1>1. Host(conf) \in Seq(Mount) /\ HostSize \in 3 .. 5
  BY HostTable, HostFacts DEF HostSize
<1>2. mnt \in Seq(Mount) /\ root \in 1 .. Len(mnt)
  <2>1. CASE hasMountNamespace
    <3>1. mnt = CloneNamespace(Host(conf)) /\ root = HostSize + 1
      BY <2>1 DEF Init, RootFSInit
    <3>2. mnt \in Seq(Mount) /\ Len(mnt) = HostSize + HostSize
      BY <1>1, <3>1, CloneNamespaceTable DEF HostSize
    <3> QED
      BY <1>1, <3>1, <3>2
  <2>2. CASE ~hasMountNamespace
    <3>1. mnt = Host(conf) /\ root = 1 /\ Len(mnt) = HostSize
      BY <2>2 DEF Init, RootFSInit, HostSize
    <3> QED
      BY <1>1, <3>1
  <2> QED
    BY <2>1, <2>2
<1>3. DOMAIN mnt = 1 .. Len(mnt)
  BY <1>2, TableFacts
<1> QED
  BY <1>2, <1>3 DEF Init, RootFSInit, Types

(* Lookups of the process, in a table that has its root.                   *)
LEMMA RootLookups ==
    ASSUME NEW ms \in Seq(Mount), root \in DOMAIN ms, NEW path \in Seq(STRING)
    PROVE  Walk(ms, root, path) \in Spot(ms) /\ InRootfs(ms, path) \in Spot(ms)
<1>1. Rootfs \o path \in Seq(STRING)
  BY OwnPaths, ConcatProperties
<1> QED
  BY <1>1, WalkSpot DEF InRootfs

(* A table that is no shorter keeps the places of the old one.             *)
NoShorter(ms) == ms \in Seq(Mount) /\ Len(ms) >= Len(mnt)

(* The rest of the state is as well typed as before.                       *)
LEMMA TypesGrow ==
    ASSUME Types(mnt, root, nodes, pty), NEW ms, NoShorter(ms)
    PROVE  Types(ms, root, nodes, pty) /\ DOMAIN mnt \subseteq DOMAIN ms
<1>1. DOMAIN mnt = 1 .. Len(mnt) /\ DOMAIN ms = 1 .. Len(ms) /\ Len(mnt) \in Nat /\ Len(ms) \in Nat
  BY TableFacts DEF Types, NoShorter
<1>2. DOMAIN mnt \subseteq DOMAIN ms
  BY <1>1 DEF NoShorter
<1> QED
  BY <1>2 DEF Types, NoShorter

(* Lookups, attaching and bind mounts, from the table of the process.      *)
LEMMA MountsGrow ==
    ASSUME Types(mnt, root, nodes, pty)
    PROVE  /\ NoShorter(mnt)
           /\ \A path \in Seq(STRING) : At(path) \in Spot(mnt) /\ InRootfs(mnt, path) \in Spot(mnt)
           /\ \A p \in Spot(mnt), fs \in STRING, ro \in BOOLEAN :
                 NoShorter(Attach(mnt, p, <<NewMount(fs, ro)>>))
           /\ \A p, q \in Spot(mnt) : \A rec : NoShorter(Bind(mnt, p, q, rec))
           /\ \A m, flag : NoShorter(SetPropagation(mnt, m, flag))
           /\ \A U : NoShorter(SetReadonly(mnt, U)) /\ NoShorter(Forget(mnt, U))
<1>1. mnt \in Seq(Mount) /\ root \in DOMAIN mnt /\ Len(mnt) \in Nat
  BY TableFacts DEF Types
<1>2. NoShorter(mnt)
  BY <1>1 DEF NoShorter
<1>3. \A path \in Seq(STRING) : At(path) \in Spot(mnt) /\ InRootfs(mnt, path) \in Spot(mnt)
  BY <1>1, RootLookups DEF At
<1>4. \A p \in Spot(mnt), fs \in STRING, ro \in BOOLEAN :
          NoShorter(Attach(mnt, p, <<NewMount(fs, ro)>>))
  BY <1>1, NewMountTable, AttachTable DEF NoShorter
<1>5. \A p, q \in Spot(mnt) : \A rec : NoShorter(Bind(mnt, p, q, rec))
  BY <1>1, BindTable DEF NoShorter
<1>6. \A m, flag : NoShorter(SetPropagation(mnt, m, flag))
  BY <1>1, SetKindTable DEF NoShorter, SetPropagation
<1>7. \A U : NoShorter(SetReadonly(mnt, U)) /\ NoShorter(Forget(mnt, U))
  BY <1>1, SetReadonlyTable, ForgetTable DEF NoShorter
<1> QED
  BY <1>2, <1>3, <1>4, <1>5, <1>6, <1>7

(* MountRootfs: the root is bound after two changes of propagation.        *)
LEMMA MountRootfsTable ==
    ASSUME Types(mnt, root, nodes, pty), MountRootfs
    PROVE  NoShorter(mnt')
<1> DEFINE flag == getPropagationFlag(conf.propagation)
           set == IF flag = None THEN DefaultPropagation ELSE flag
           first == SetPropagation(mnt, root, set)
           ms == rootfsParentMountPrivate(first)
           rootfs == InRootfs(ms, <<>>)
<1>1. mnt \in Seq(Mount) /\ root \in DOMAIN mnt /\ DOMAIN mnt = 1 .. Len(mnt) /\ Len(mnt) \in Nat
  BY TableFacts DEF Types
<1> HIDE DEF set
<1>2. first \in Seq(Mount) /\ Len(first) = Len(mnt)
  BY <1>1, SetKindTable DEF SetPropagation
<1> HIDE DEF first
<1>3. ms \in Seq(Mount) /\ Len(ms) = Len(mnt)
  BY <1>2, SetKindTable DEF rootfsParentMountPrivate, SetPropagation
<1>4. mnt' = mnt \/ mnt' = Bind(ms, rootfs, rootfs, TRUE)
  BY DEF MountRootfs, Mounts, Refused, first, set
<1> HIDE DEF ms
<1>5. rootfs \in Spot(ms)
  <2>1. root \in DOMAIN ms
    BY <1>1, <1>3, TableFacts
  <2> QED
    BY <1>3, <2>1, OwnPaths, RootLookups
<1> HIDE DEF rootfs
<1>6. NoShorter(Bind(ms, rootfs, rootfs, TRUE))
  BY <1>3, <1>5, BindTable DEF NoShorter
<1> QED
  BY <1>4, <1>6, MountsGrow

(* MountProc.                                                              *)
LEMMA MountProcTable ==
    ASSUME Types(mnt, root, nodes, pty), MountProc
    PROVE  NoShorter(mnt')
<1>1. InRootfs(mnt, <<"proc">>) \in Spot(mnt) /\ "proc" \in STRING
  BY OwnPaths, NamesAssumption, MountsGrow
<1> QED
  BY <1>1, MountsGrow DEF MountProc, Mounts, Refused

(* The mount of the list that is next.                                     *)
LEMMA SpecMountTypes ==
    ASSUME HostInv, MountSpecMount
    PROVE  LET m == SpecMounts[next]
           IN  m.dest \in Seq(STRING) /\ m.source \in Seq(STRING) /\ m.type \in STRING
<1> DEFINE R == [dest : Seq(STRING), type : STRING, source : Seq(STRING), options : Seq(STRING)]
           m == SpecMounts[next]
<1>1. conf.mounts \in Seq(R)
  BY RootFSAssumption DEF HostInv
<1>2. next \in Nat \ {0} /\ next <= Len(SpecMounts)
  BY DEF HostInv, MountSpecMount, Refused, Goto
<1>3. \/ next \in 1 .. Len(conf.mounts) /\ m = conf.mounts[next]
      \/ m = DevPts
  <2> HIDE DEF R
  <2> QED
    BY <1>1, <1>2 DEF SpecMounts
<1>4. next \in 1 .. Len(conf.mounts) => conf.mounts[next] \in R
  BY <1>1, ElementOfSeq
<1> HIDE DEF m
<1>5. m \in R => m.dest \in Seq(STRING) /\ m.source \in Seq(STRING) /\ m.type \in STRING
  OBVIOUS
<1> QED
  BY <1>3, <1>4, <1>5, OwnPaths DEF m

(* MountSpecMounts: what is mounted, and its options.                      *)
LEMMA SpecMountTable ==
    ASSUME HostInv, Types(mnt, root, nodes, pty), MountSpecMount
    PROVE  NoShorter(mnt')
<1> DEFINE m == SpecMounts[next]
           dest == InRootfs(mnt, m.dest)
           done == DoMount(mnt, m, dest)
<1>2. m.dest \in Seq(STRING) /\ m.source \in Seq(STRING) /\ m.type \in STRING
  BY SpecMountTypes
<1>3. \/ mnt' = mnt
      \/ mnt' = Bind(mnt, At(<<"cgroup">>), dest, TRUE)
      \/ mnt' = ApplyOptions(done, m)
  BY DEF MountSpecMount, Refused
<1> HIDE DEF m
<1>4. dest \in Spot(mnt) /\ At(m.source) \in Spot(mnt) /\ At(<<"cgroup">>) \in Spot(mnt)
  BY <1>2, OwnPaths, MountsGrow
<1> HIDE DEF dest
<1>5. NoShorter(done)
  <2>1. CASE "BIND" \in Flags(m.options)
    BY <1>4, <2>1, MountsGrow DEF DoMount
  <2>2. CASE "BIND" \notin Flags(m.options)
    <3> DEFINE ro == "RDONLY" \in Flags(m.options)
    <3>1. done = Attach(mnt, dest, <<NewMount(m.type, ro)>>) /\ ro \in BOOLEAN
      BY <2>2 DEF DoMount
    <3> HIDE DEF ro
    <3> QED
      BY <1>2, <1>4, <3>1, MountsGrow
  <2> QED
    BY <2>1, <2>2
<1> HIDE DEF done
<1>6. NoShorter(ApplyOptions(done, m))
  <2> DEFINE to == InRootfs(done, m.dest).mount
             flag == MountPropagation(m.options)
             set == IF flag = None THEN done ELSE SetPropagation(done, to, flag)
  <2>1. NoShorter(set)
    BY <1>5, SetKindTable DEF SetPropagation, NoShorter
  <2>2. ApplyOptions(done, m) =
            IF "rro" \in Range(m.options) THEN SetReadonly(set, Tree(set, to)) ELSE set
    BY DEF ApplyOptions
  <2> HIDE DEF set
  <2> QED
    BY <2>1, <2>2, SetReadonlyTable DEF NoShorter
<1> QED
  BY <1>3, <1>4, <1>5, <1>6, MountsGrow

(* Bind mounts of one place of the process to another.                     *)
LEMMA DevicesTable ==
    ASSUME Types(mnt, root, nodes, pty), MountDefaultDevices \/ MountConsole
    PROVE  NoShorter(mnt')
<1>2. /\ At(Null) \in Spot(mnt) /\ InRootfs(mnt, Null) \in Spot(mnt)
      /\ InRootfs(mnt, Slave) \in Spot(mnt) /\ InRootfs(mnt, Console) \in Spot(mnt)
  BY OwnPaths, MountsGrow
<1>3. \/ mnt' = mnt
      \/ mnt' = Bind(mnt, At(Null), InRootfs(mnt, Null), FALSE)
      \/ mnt' = Bind(mnt, InRootfs(mnt, Slave), InRootfs(mnt, Console), FALSE)
  BY DEF MountDefaultDevices, MountConsole, Mounts, Refused
<1> QED
  BY <1>2, <1>3, MountsGrow

(* Unmounting the old root; the end of the process.                        *)
LEMMA DetachTable ==
    ASSUME Types(mnt, root, nodes, pty), DetachOldRoot \/ Fails
    PROVE  NoShorter(mnt')
<1>1. NoShorter(OldRootSlave)
  BY MountsGrow DEF OldRootSlave
<1>2. \A m : NoShorter(Detach(OldRootSlave, m))
  BY <1>1, ForgetTable DEF Detach, NoShorter
<1>3. CASE DetachOldRoot
  BY <1>2, <1>3, MountsGrow DEF DetachOldRoot, Mounts, Refused
<1>4. CASE Fails
  BY <1>4, MountsGrow DEF Fails
<1> QED
  BY <1>3, <1>4

(* Masked and read-only paths.                                             *)
LEMMA PathsTable ==
    ASSUME HostInv, Types(mnt, root, nodes, pty), MountMaskedPaths \/ MountReadonlyPaths
    PROVE  NoShorter(mnt')
<1>2. ASSUME NEW path \in Seq(STRING)
      PROVE  NoShorter(Mask(mnt, path))
  <2>1. Walk(mnt, root, path) \in Spot(mnt) /\ Walk(mnt, root, Null) \in Spot(mnt)
    BY OwnPaths, MountsGrow DEF At
  <2>2. "mask" \in STRING
    BY NamesAssumption
  <2>3. \/ Mask(mnt, path) = mnt
        \/ Mask(mnt, path) = Attach(mnt, Walk(mnt, root, path), <<NewMount("mask", TRUE)>>)
        \/ Mask(mnt, path) = Bind(mnt, Walk(mnt, root, Null), Walk(mnt, root, path), TRUE)
    BY DEF Mask
  <2> QED
    BY <2>1, <2>2, <2>3, MountsGrow
<1>3. ASSUME NEW path \in Seq(STRING)
      PROVE  NoShorter(ReadonlyPath(mnt, path))
  <2> DEFINE bound == Bind(mnt, Walk(mnt, root, path), Walk(mnt, root, path), TRUE)
  <2>1. NoShorter(bound)
    BY MountsGrow DEF At
  <2>2. ReadonlyPath(mnt, path) = SetReadonly(bound, {Walk(bound, root, path).mount})
    BY DEF ReadonlyPath
  <2> HIDE DEF bound
  <2> QED
    BY <2>1, <2>2, SetReadonlyTable DEF NoShorter
<1>4. /\ Len(conf.masked) \in Nat /\ Len(conf.readonlyPaths) \in Nat /\ next \in Nat \ {0}
      /\ conf.masked \in Seq(Seq(STRING)) /\ conf.readonlyPaths \in Seq(Seq(STRING))
  BY ListedPaths, RootFSAssumption DEF HostInv
<1>5. /\ next <= Len(conf.masked) => conf.masked[next] \in Seq(STRING)
      /\ next <= Len(conf.readonlyPaths) => conf.readonlyPaths[next] \in Seq(STRING)
  BY <1>4, ElementOfSeq
<1>6. \/ mnt' = mnt
      \/ next <= Len(conf.masked) /\ mnt' = Mask(mnt, conf.masked[next])
      \/ next <= Len(conf.readonlyPaths) /\ mnt' = ReadonlyPath(mnt, conf.readonlyPaths[next])
  BY DEF MountMaskedPaths, MountReadonlyPaths, EndPaths, MountPath, Refused
<1> QED
  BY <1>2, <1>3, <1>5, <1>6, MountsGrow

(* The propagation and the flag of the root.                               *)
LEMMA RootTable ==
    ASSUME Types(mnt, root, nodes, pty), SetRootfsMountPropagation \/ MountRootReadonly
    PROVE  NoShorter(mnt')
BY MountsGrow DEF SetRootfsMountPropagation, MountRootReadonly, Mounts, Refused

(* Nodes and links are made at places of the table.                        *)
LEMMA MadeTypes ==
    ASSUME NEW ms, NEW places \in SUBSET Spot(ms), NEW kind \in {"device", "link"},
           NEW was \in SUBSET ((DOMAIN ms) \X Seq(STRING) \X {"device", "link"})
    PROVE  Made(was, places, kind) \subseteq (DOMAIN ms) \X Seq(STRING) \X {"device", "link"}
<1>1. \A p \in places : p.mount \in DOMAIN ms /\ p.dentry \in Seq(STRING)
  BY DEF Spot
<1> QED
  BY <1>1 DEF Made

(* The devices of the configuration, and ptmx.                             *)
LEMMA NodesTypes ==
    ASSUME HostInv, Types(mnt, root, nodes, pty), CreateDeviceNodes \/ CreateDefaultSymlinks
    PROVE  nodes' \subseteq (DOMAIN mnt) \X Seq(STRING) \X {"device", "link"}
<1>1. mnt \in Seq(Mount) /\ root \in DOMAIN mnt
      /\ nodes \in SUBSET ((DOMAIN mnt) \X Seq(STRING) \X {"device", "link"})
  BY DEF Types
<1>2. conf.devices \subseteq Seq(STRING)
  BY RootFSAssumption DEF HostInv
<1> DEFINE devices == {p \in {InRootfs(mnt, d) : d \in conf.devices} : ~IsRoot(mnt, p)}
<1>3. devices \in SUBSET Spot(mnt) /\ {InRootfs(mnt, Ptmx)} \in SUBSET Spot(mnt)
  BY <1>1, <1>2, OwnPaths, RootLookups
<1>4. nodes' = nodes \/ nodes' = Made(nodes, devices, "device")
      \/ nodes' = Made(nodes, {InRootfs(mnt, Ptmx)}, "link")
  BY DEF CreateDeviceNodes, CreateDefaultSymlinks, Refused
<1> HIDE DEF devices
<1> QED
  BY <1>1, <1>3, <1>4, MadeTypes

(* pivot_root: the new root is a mount of the table.                       *)
LEMMA PivotTypes ==
    ASSUME Types(mnt, root, nodes, pty), PivotRoot
    PROVE  Types(mnt', root', nodes', pty')
<1> DEFINE new == InRootfs(mnt, <<>>).mount
<1>1. mnt \in Seq(Mount) /\ root \in DOMAIN mnt /\ Len(mnt) \in Nat /\ DOMAIN mnt = 1 .. Len(mnt)
  BY TableFacts DEF Types
<1>2. new \in DOMAIN mnt
  BY <1>1, OwnPaths, RootLookups DEF Spot
<1>3. nodes' = nodes /\ pty' = pty
      /\ \/ mnt' = mnt /\ root' = root
         \/ mnt' = Pivot(mnt, root, new) /\ root' = new
  BY DEF PivotRoot, Refused
<1> HIDE DEF new
<1>4. Pivot(mnt, root, new) \in Seq(Mount) /\ Len(Pivot(mnt, root, new)) = Len(mnt)
  BY <1>1, <1>2, PivotTable
<1>5. DOMAIN Pivot(mnt, root, new) = DOMAIN mnt
  BY <1>1, <1>4, TableFacts
<1> QED
  BY <1>2, <1>3, <1>4, <1>5 DEF Types

(* The terminal belongs to a mount of the table.                           *)
LEMMA ConsoleTypes ==
    ASSUME Types(mnt, root, nodes, pty), ConnectConsole
    PROVE  pty' \in DOMAIN mnt \cup {None}
<1>1. InRootfs(mnt, <<"dev", "pts">>).mount \in DOMAIN mnt
  BY OwnPaths, RootLookups DEF Types, Spot
<1> QED
  BY <1>1 DEF ConnectConsole, Refused, Types

(* Every step keeps the types.                                             *)
LEMMA TypesKeep ==
    ASSUME HostInv, Types(mnt, root, nodes, pty), Moves
    PROVE  Types(mnt', root', nodes', pty')
<1> DEFINE Resting == root' = root /\ nodes' = nodes /\ pty' = pty
<1>1. ASSUME Resting, NoShorter(mnt')
      PROVE  Types(mnt', root', nodes', pty')
  BY <1>1, TypesGrow
<1>2. CASE MountRootfs
  BY <1>1, <1>2, MountRootfsTable DEF MountRootfs, Mounts, Refused
<1>3. CASE MountProc
  BY <1>1, <1>3, MountProcTable DEF MountProc, Mounts, Refused
<1>4. CASE MountSpecMount
  BY <1>1, <1>4, SpecMountTable DEF MountSpecMount, Refused
<1>5. CASE MountDefaultDevices \/ MountConsole
  BY <1>1, <1>5, DevicesTable DEF MountDefaultDevices, MountConsole, Mounts, Refused
<1>6. CASE CreateDeviceNodes \/ CreateDefaultSymlinks
  <2>1. mnt' = mnt /\ root' = root /\ pty' = pty
    BY <1>6 DEF CreateDeviceNodes, CreateDefaultSymlinks, Refused
  <2> QED
    BY <1>6, <2>1, NodesTypes DEF Types
<1>7. CASE ConnectConsole
  <2>1. mnt' = mnt /\ root' = root /\ nodes' = nodes
    BY <1>7 DEF ConnectConsole, Refused
  <2> QED
    BY <1>7, <2>1, ConsoleTypes DEF Types
<1>8. CASE PivotRoot
  BY <1>8, PivotTypes
<1>9. CASE DetachOldRoot \/ Fails
  BY <1>1, <1>9, DetachTable DEF DetachOldRoot, Fails, Mounts, Refused
<1>10. CASE MountMaskedPaths \/ MountReadonlyPaths
  BY <1>1, <1>10, PathsTable DEF MountMaskedPaths, MountReadonlyPaths, EndPaths, MountPath, Refused
<1>11. CASE SetRootfsMountPropagation \/ MountRootReadonly
  BY <1>1, <1>11, RootTable DEF SetRootfsMountPropagation, MountRootReadonly, Mounts, Refused
<1>12. CASE Resting /\ mnt' = mnt
  BY <1>12
<1>13. CASE SetSysctl
  BY <1>12, <1>13 DEF SetSysctl, Mounts, Refused
<1> HIDE DEF Resting
<1>14. CASE ~Mounting /\ ~Fails
  BY <1>12, <1>14 DEF Moves, rootfsVars, Resting
<1> QED
  BY <1>2, <1>3, <1>4, <1>5, <1>6, <1>7, <1>8, <1>9, <1>10, <1>11, <1>13, <1>14
     DEF Mounting, SetupPrePivot, SetupPostPivot

(* The host name is that of the process's uts namespace, or not set.       *)
LEMMA HostnameTypes ==
    ASSUME NamespacesTypeOK, hostname \in Namespace \cup {None}, [Next]_vars
    PROVE  hostname' \in Namespace \cup {None}
<1>1. ns["uts"] \in Namespace
  BY DEF NamespacesTypeOK, NSTypes
<1>2. CASE Sethostname
  BY <1>1, <1>2 DEF Sethostname
<1>3. CASE hostname' = hostname
  BY <1>3
<1> QED
  BY <1>2, <1>3 DEF Next, vars

TypesInv == Types(mnt, root, nodes, pty) /\ hostname \in Namespace \cup {None}

(* The table of mounts of host and container, the nodes, the hooks, the    *)
(* namespaces and the rest of the state keep their types, for every        *)
(* configuration, with any lists and any propagation.                      *)
THEOREM SetupTypeCorrect == Spec => []TypeOK
<1>1. Init => TypesInv
  BY TypesInit DEF Init, TypesInv
<1>2. HostInv /\ NsInv /\ TypesInv /\ [Next]_vars => TypesInv'
  <2> SUFFICES ASSUME HostInv, NsInv, TypesInv, [Next]_vars
               PROVE  TypesInv'
    OBVIOUS
  <2>1. Types(mnt', root', nodes', pty')
    BY StepMoves, TypesKeep DEF TypesInv
  <2>2. hostname' \in Namespace \cup {None}
    BY HostnameTypes DEF NsInv, TypesInv
  <2> QED
    BY <2>1, <2>2 DEF TypesInv
<1>3. HookInv /\ NsInv /\ HostInv /\ TypesInv => TypeOK
  BY DEF HookInv, NsInv, HostInv, TypesInv, Types, TypeOK, RootFSTypeOK
<1> QED
  BY <1>1, <1>2, <1>3, SetupInvariance, HostInvariance, PTL DEF Spec, SetupInv

=============================================================================
