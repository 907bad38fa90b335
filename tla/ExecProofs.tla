----------------------------- MODULE ExecProofs -----------------------------
(***************************************************************************)
(* What exec does in a container whose process may end, be killed or be    *)
(* deleted at any step: for any number of exec invocations, runtimes and   *)
(* pids, and any choice of namespaces.                                     *)
(***************************************************************************)
EXTENDS Exec, TidyProofs

(* The types the parent has been through when it looks at the n-th.        *)
Seen(n) == {namespaces[i] : i \in 1..(n - 1)}

(* What is on a list.                                                      *)
Listed(s) == {s[i] : i \in 1..Len(s)}

(* Of the types in S, those of the container's own are entered or on the   *)
(* child's list, the user namespace excepted.                              *)
Entered(e, S) ==
    /\ e.forChildren = (own \cap S) \cap {"pid", "time"}
    /\ Listed(e.parts) \cup e.joined = (own \cap S) \ {"user", "pid", "time"}

(* The inductive invariant, of one invocation.                             *)
MountLast(e) ==
    /\ \A i \in 1..Len(e.parts) : i # Len(e.parts) => e.parts[i] # "mnt"
    /\ "mnt" \in e.joined => e.parts = <<>>

Placed(e) ==
    /\ e.child = "none" <=> e.step \notin {"wait", "returned"}
    /\ e.step = "namespaces" => Entered(e, Seen(e.n))
    /\ e.step \in {"checkExecutable", "forkExec"} => Entered(e, NSTypes)
    /\ e.child \in ChildRunning => Entered(e, NSTypes)
    /\ e.child \in {"none", "nssetup"} => e.joined = {}

Rooted(e) ==
    /\ e.child = "join" /\ ~e.root => e.parts # <<>> /\ ~Alive(e.pid)
    /\ e.child \in {"childExec", "program"} => e.parts = <<>> /\ ("mnt" \in own => e.root)

Confined(e) == e.child \in ChildRunning /\ "pid" \in e.forChildren => Alive(e.pid)

Sound(e) == MountLast(e) /\ Placed(e) /\ Rooted(e) /\ Confined(e)

ExecInv == ExecTypeOK /\ \A x \in Execs : Sound(exec[x])

-----------------------------------------------------------------------------
(* Lists and the order of the namespaces.                                  *)

(* The tuple, as the provers see it.                                       *)
LEMMA NamespaceOrder ==
  /\ DOMAIN namespaces = 1..8 /\ Len(namespaces) = 8
  /\ \A i \in 1..8 : namespaces[i] \in NSTypes
  /\ \A i \in 1..8 : namespaces[i] = "mnt" => i = 8
  /\ Seen(1) = {}
  /\ \A n \in 1..8 : Seen(n + 1) = Seen(n) \cup {namespaces[n]}
  /\ Seen(9) = NSTypes
<1>1. DOMAIN namespaces = 1..8 /\ Len(namespaces) = 8
  BY DEF namespaces
<1>2. \A i \in 1..8 : namespaces[i] \in NSTypes
  BY <1>1 DEF NSTypes
<1>3. \A i \in 1..8 : namespaces[i] = "mnt" => i = 8
  BY DEF namespaces
<1>4. Seen(1) = {}
  BY DEF Seen
<1>5. ASSUME NEW n \in 1..8 PROVE Seen(n + 1) = Seen(n) \cup {namespaces[n]}
  BY <1>5 DEF Seen
<1>6. Seen(9) = NSTypes
  BY <1>1 DEF Seen, NSTypes
<1> QED
  BY <1>1, <1>2, <1>3, <1>4, <1>5, <1>6

(* Adding to a list.                                                       *)
LEMMA ListedAppend ==
  ASSUME NEW s \in Seq(NSTypes), NEW t \in NSTypes
  PROVE  Listed(Append(s, t)) = Listed(s) \cup {t}
<1>1. Len(Append(s, t)) = Len(s) + 1 /\ Len(s) \in Nat
  OBVIOUS
<1>2. \A i \in 1..Len(s) : Append(s, t)[i] = s[i]
  OBVIOUS
<1>3. Append(s, t)[Len(s) + 1] = t
  OBVIOUS
<1> QED
  BY <1>1, <1>2, <1>3 DEF Listed

(* Taking its head.                                                        *)
LEMMA ListedTail ==
  ASSUME NEW s \in Seq(NSTypes), s # <<>>
  PROVE  Listed(Tail(s)) \cup {Head(s)} = Listed(s)
<1>1. Len(Tail(s)) = Len(s) - 1 /\ Len(s) \in Nat /\ Len(s) > 0
  OBVIOUS
<1>2. \A i \in 1..(Len(s) - 1) : Tail(s)[i] = s[i + 1]
  OBVIOUS
<1>3. Head(s) = s[1]
  OBVIOUS
<1>4. \A i \in 1..Len(s) : i = 1 \/ (i - 1 \in 1..(Len(s) - 1) /\ s[i] = Tail(s)[i - 1])
  BY <1>1, <1>2
<1> QED
  BY <1>1, <1>2, <1>3, <1>4 DEF Listed

-----------------------------------------------------------------------------
(* Every step of an invocation, on its own state.                          *)

(* Nothing is under way.                                                   *)
LEMMA SoundNoExec == NoExec \in ExecState /\ Sound(NoExec)
<1>1. NoExec \in ExecState
  BY NamespaceOrder DEF NoExec, ExecState, ExecSteps, ChildSteps, ChildRunning
<1>2. NoExec.parts = <<>> /\ Len(<<>>) = 0
  BY DEF NoExec
<1> QED
  BY <1>1, <1>2 DEF NoExec, Sound, MountLast, Placed, Rooted, Confined, ChildRunning

(* The child ends.                                                         *)
LEMMA SoundEnded ==
  ASSUME NEW e \in ExecState, Sound(e)
  PROVE  Ended(e) \in ExecState /\ Sound(Ended(e))
<1>1. CASE e.step = "wait"
  <2>1. Ended(e) = [e EXCEPT !.child = "zombie"]
    BY <1>1 DEF Ended
  <2>2. Ended(e) \in ExecState
    BY <2>1 DEF ExecState, ChildSteps
  <2>3. /\ Ended(e).child = "zombie" /\ Ended(e).step = "wait" /\ Ended(e).parts = e.parts
        /\ Ended(e).joined = e.joined
    BY <1>1, <2>1 DEF ExecState
  <2> QED
    BY <2>2, <2>3 DEF Sound, MountLast, Placed, Rooted, Confined, ChildRunning
<1>2. CASE e.step # "wait"
  BY <1>2, SoundNoExec DEF Ended
<1> QED
  BY <1>1, <1>2

(* The parent goes on to the next namespace, or has seen them all.         *)
LEMMA SoundAdvance ==
  ASSUME NEW e \in ExecState, e.step = "namespaces", e.child = "none", e.joined = {},
         MountLast(e), Entered(e, Seen(e.n + 1)),
         NEW f, f = Advance(e)
  PROVE  f \in ExecState /\ Sound(f)
<1>0. e.n \in 1..8
  BY NamespaceOrder DEF ExecState
<1>1. CASE e.n = 8
  <2>1. f = [e EXCEPT !.step = "checkExecutable"]
    BY <1>1, NamespaceOrder DEF Advance
  <2>2. /\ f \in ExecState /\ f.step = "checkExecutable" /\ f.child = "none" /\ f.joined = {}
        /\ f.parts = e.parts /\ f.forChildren = e.forChildren
    BY <2>1 DEF ExecState, ExecSteps
  <2>3. Entered(e, NSTypes)
    BY <1>1, NamespaceOrder
  <2>4. Entered(f, NSTypes)
    BY <2>2, <2>3 DEF Entered
  <2> QED
    BY <2>2, <2>4 DEF Sound, MountLast, Placed, Rooted, Confined, ChildRunning
<1>2. CASE e.n # 8
  <2>1. f = [e EXCEPT !.n = @ + 1]
    BY <1>2, NamespaceOrder DEF Advance
  <2>2. /\ f \in ExecState /\ f.step = "namespaces" /\ f.child = "none" /\ f.joined = {}
        /\ f.parts = e.parts /\ f.forChildren = e.forChildren /\ f.n = e.n + 1
    BY <1>0, <1>2, <2>1, NamespaceOrder DEF ExecState
  <2>3. Entered(f, Seen(f.n))
    BY <2>2 DEF Entered
  <2> QED
    BY <2>2, <2>3 DEF Sound, MountLast, Placed, Rooted, Confined, ChildRunning
<1> QED
  BY <1>1, <1>2

(* The parent has looked at a namespace.                                   *)
LEMMA EnterState ==
  ASSUME NEW e \in ExecState, NEW t \in NSTypes
  PROVE  Enter(e, t) \in ExecState /\ Enter(e, t).step = e.step
<1>1. CASE Enter(e, t) = e
  BY <1>1
<1>2. ASSUME NEW q \in Seq(NSTypes), Enter(e, t) = [e EXCEPT !.parts = q]
      PROVE  Enter(e, t) \in ExecState /\ Enter(e, t).step = e.step
  BY <1>2 DEF ExecState
<1>3. CASE Enter(e, t) = [e EXCEPT !.forChildren = @ \cup {t}]
  BY <1>3 DEF ExecState
<1>4. Append(e.parts, t) \in Seq(NSTypes)
  BY DEF ExecState
<1> QED
  BY <1>1, <1>2, <1>3, <1>4 DEF Enter

(* What it does with it is sound.                                          *)
LEMMA SoundEnter ==
  ASSUME NEW e \in ExecState, Sound(e), e.step = "namespaces", own \subseteq NSTypes
  PROVE  LET f == Advance(Enter(e, namespaces[e.n])) IN f \in ExecState /\ Sound(f)
<1> DEFINE type == namespaces[e.n]
           g == Enter(e, type)
           f == Advance(g)
<1>0. /\ e.n \in 1..8 /\ type \in NSTypes /\ e.parts \in Seq(NSTypes) /\ e.child = "none"
      /\ e.joined = {} /\ Entered(e, Seen(e.n)) /\ Seen(e.n + 1) = Seen(e.n) \cup {type}
      /\ (type = "mnt" => e.n = 8) /\ "mnt" \notin Seen(e.n)
  <2>1. "mnt" \notin Seen(e.n)
    BY NamespaceOrder DEF Seen, ExecState
  <2> QED
    BY <2>1, NamespaceOrder DEF ExecState, Sound, Placed
<1>1. /\ g \in ExecState /\ g.step = e.step /\ g.child = "none" /\ g.joined = {} /\ g.n = e.n
      /\ g.pid = e.pid
      /\ Entered(g, Seen(e.n + 1))
      /\ MountLast(g)
  <2>1. CASE type \notin own \/ type = "user"
    <3>1. g = e
      BY <2>1 DEF Enter
    <3> QED
      BY <1>0, <2>1, <3>1 DEF Entered, Sound
  <2>2. CASE type \in own \cap {"pid", "time"}
    <3>1. g = [e EXCEPT !.forChildren = @ \cup {type}]
      BY <2>2 DEF Enter
    <3>2. /\ g \in ExecState /\ g.step = e.step /\ g.child = e.child /\ g.joined = e.joined
          /\ g.n = e.n /\ g.pid = e.pid /\ g.parts = e.parts
          /\ g.forChildren = e.forChildren \cup {type}
      BY <1>0, <3>1 DEF ExecState
    <3> QED
      BY <1>0, <2>2, <3>2 DEF Entered, Sound, MountLast
  <2>3. CASE type \in own /\ type \notin {"user", "pid", "time"}
    <3>1. g = [e EXCEPT !.parts = Append(@, type)]
      BY <2>3 DEF Enter
    <3>2. /\ g \in ExecState /\ g.step = e.step /\ g.child = e.child /\ g.joined = e.joined
          /\ g.n = e.n /\ g.pid = e.pid /\ g.forChildren = e.forChildren
          /\ g.parts = Append(e.parts, type)
      <4>1. ASSUME NEW q \in Seq(NSTypes), g = [e EXCEPT !.parts = q]
            PROVE  /\ g \in ExecState /\ g.step = e.step /\ g.child = e.child
                   /\ g.joined = e.joined /\ g.n = e.n /\ g.pid = e.pid
                   /\ g.forChildren = e.forChildren /\ g.parts = q
        BY <4>1 DEF ExecState
      <4>2. Append(e.parts, type) \in Seq(NSTypes)
        BY <1>0
      <4> HIDE DEF g, type
      <4> QED
        BY <3>1, <4>1, <4>2
    <3>3. Listed(g.parts) = Listed(e.parts) \cup {type}
      BY <1>0, <3>2, ListedAppend
    <3>4. Entered(g, Seen(e.n + 1))
      BY <1>0, <2>3, <3>2, <3>3 DEF Entered
    <3>5. MountLast(g)
      <4>1. \A i \in 1..Len(e.parts) : e.parts[i] # "mnt"
        BY <1>0 DEF Entered, Listed
      <4>2. /\ Len(g.parts) = Len(e.parts) + 1 /\ Len(e.parts) \in Nat
            /\ \A i \in 1..Len(e.parts) : g.parts[i] = e.parts[i]
        BY <1>0, <3>2
      <4> QED
        BY <1>0, <3>2, <4>1, <4>2 DEF MountLast
    <3> QED
      BY <1>0, <3>2, <3>4, <3>5
  <2> QED
    BY <2>1, <2>2, <2>3
<1>2. g.step = "namespaces" /\ Entered(g, Seen(g.n + 1))
  BY <1>1
<1> HIDE DEF g
<1>3. \A h : h = Advance(g) => h \in ExecState /\ Sound(h)
  BY <1>1, <1>2, SoundAdvance
<1> QED
  BY <1>3 DEF g

(* The parent goes on to its fork, and forks.                              *)
LEMMA SoundFork ==
  ASSUME NEW e \in ExecState, Sound(e)
  PROVE  /\ e.step = "checkExecutable" =>
               LET f == [e EXCEPT !.step = "forkExec"] IN f \in ExecState /\ Sound(f)
         /\ \A s \in {"wait", "returned"} :
               e.step = "forkExec" /\ ("pid" \in e.forChildren => Alive(e.pid)) =>
                   LET f == [e EXCEPT !.step = s, !.child = "nssetup"]
                   IN  f \in ExecState /\ Sound(f)
<1>1. ASSUME e.step = "checkExecutable", NEW f, f = [e EXCEPT !.step = "forkExec"]
      PROVE  f \in ExecState /\ Sound(f)
  <2>1. /\ f \in ExecState /\ f.step = "forkExec" /\ f.child = e.child /\ f.joined = e.joined
        /\ f.parts = e.parts /\ f.forChildren = e.forChildren /\ f.pid = e.pid /\ f.root = e.root
    BY <1>1 DEF ExecState, ExecSteps
  <2> QED
    BY <1>1, <2>1 DEF Sound, MountLast, Placed, Rooted, Confined, Entered
<1>2. ASSUME NEW s \in {"wait", "returned"}, e.step = "forkExec",
             "pid" \in e.forChildren => Alive(e.pid),
             NEW f, f = [e EXCEPT !.step = s, !.child = "nssetup"]
      PROVE  f \in ExecState /\ Sound(f)
  <2>1. /\ f \in ExecState /\ f.step = s /\ f.child = "nssetup" /\ f.joined = e.joined
        /\ f.parts = e.parts /\ f.forChildren = e.forChildren /\ f.pid = e.pid
    BY <1>2 DEF ExecState, ExecSteps, ChildSteps, ChildRunning
  <2> QED
    BY <1>2, <2>1 DEF Sound, MountLast, Placed, Rooted, Confined, Entered, ChildRunning
<1> QED
  BY <1>1, <1>2

(* The child opens the container's root.                                   *)
LEMMA SoundOpenRoot ==
  ASSUME NEW e \in ExecState, Sound(e), e.child = "nssetup", own \subseteq NSTypes
  PROVE  LET f == IF e.parts = <<>> THEN [e EXCEPT !.child = "childExec"]
                  ELSE [e EXCEPT !.child = "join", !.root = Alive(e.pid)]
         IN  f \in ExecState /\ Sound(f)
<1>0. e.joined = {} /\ Entered(e, NSTypes) /\ e.step \in {"wait", "returned"}
  BY DEF Sound, Placed, ChildRunning
<1>1. ASSUME e.parts = <<>>, NEW f, f = [e EXCEPT !.child = "childExec"]
      PROVE  f \in ExecState /\ Sound(f)
  <2>1. /\ f \in ExecState /\ f.step = e.step /\ f.child = "childExec" /\ f.joined = e.joined
        /\ f.parts = e.parts /\ f.forChildren = e.forChildren /\ f.pid = e.pid
    BY <1>1 DEF ExecState, ChildSteps, ChildRunning
  <2>2. Listed(e.parts) = {}
    <3>1. Len(e.parts) = 0
      BY <1>1
    <3> QED
      BY <3>1 DEF Listed
  <2>3. "mnt" \notin own
    <3>1. "mnt" \notin own \cap NSTypes
      BY <1>0, <2>2 DEF Entered
    <3> QED
      BY <3>1
  <2> QED
    BY <1>0, <1>1, <2>1, <2>3 DEF Sound, MountLast, Placed, Rooted, Confined, Entered,
       ChildRunning
<1>2. ASSUME e.parts # <<>>, NEW f, f = [e EXCEPT !.child = "join", !.root = Alive(e.pid)]
      PROVE  f \in ExecState /\ Sound(f)
  <2>0. Alive(e.pid) \in BOOLEAN
    BY DEF Alive
  <2>1. /\ f \in ExecState /\ f.step = e.step /\ f.child = "join" /\ f.joined = e.joined
        /\ f.parts = e.parts /\ f.forChildren = e.forChildren /\ f.pid = e.pid
        /\ f.root = Alive(e.pid)
    BY <1>2, <2>0 DEF ExecState, ChildSteps, ChildRunning
  <2> QED
    BY <1>0, <1>2, <2>1 DEF Sound, MountLast, Placed, Rooted, Confined, Entered,
       ChildRunning
<1> QED
  BY <1>1, <1>2

(* It joins the next namespace on its list, and finds it as long as the    *)
(* container's process lives.                                              *)
LEMMA SoundJoin ==
  ASSUME NEW e \in ExecState, Sound(e), e.child = "join", e.parts # <<>>
  PROVE  /\ Alive(e.pid) => PathResolves(e)
         /\ PathResolves(e) =>
               LET f == [e EXCEPT !.parts = Tail(@), !.joined = @ \cup {Head(e.parts)}]
               IN  f \in ExecState /\ Sound(f)
<1>0. Entered(e, NSTypes) /\ e.step \in {"wait", "returned"} /\ e.parts \in Seq(NSTypes)
  BY DEF Sound, Placed, ChildRunning, ExecState
<1>1. Alive(e.pid) => PathResolves(e)
  BY DEF PathResolves, Sound, MountLast
<1>2. ASSUME PathResolves(e),
             NEW f, f = [e EXCEPT !.parts = Tail(@), !.joined = @ \cup {Head(e.parts)}]
      PROVE  f \in ExecState /\ Sound(f)
  <2>0. Tail(e.parts) \in Seq(NSTypes) /\ Head(e.parts) \in NSTypes
    BY <1>0
  <2>1. ASSUME NEW q \in Seq(NSTypes), NEW h \in NSTypes,
               f = [e EXCEPT !.parts = q, !.joined = @ \cup {h}]
        PROVE  /\ f \in ExecState /\ f.step = e.step /\ f.child = e.child
               /\ f.joined = e.joined \cup {h} /\ f.parts = q
               /\ f.forChildren = e.forChildren /\ f.pid = e.pid /\ f.root = e.root
    BY <2>1 DEF ExecState
  <2>2. /\ f \in ExecState /\ f.step = e.step /\ f.child = e.child
        /\ f.joined = e.joined \cup {Head(e.parts)} /\ f.parts = Tail(e.parts)
        /\ f.forChildren = e.forChildren /\ f.pid = e.pid /\ f.root = e.root
    BY <1>2, <2>0, <2>1
  <2>3. Listed(f.parts) \cup {Head(e.parts)} = Listed(e.parts)
    BY <1>0, <2>2, ListedTail
  <2>4. Entered(f, NSTypes)
    BY <1>0, <2>2, <2>3 DEF Entered
  <2>5. MountLast(f)
    <3>1. /\ Len(f.parts) = Len(e.parts) - 1 /\ Len(e.parts) \in Nat /\ Len(e.parts) > 0
          /\ \A i \in 1..Len(f.parts) : f.parts[i] = e.parts[i + 1]
          /\ Head(e.parts) = e.parts[1]
      BY <1>0, <2>2
    <3>0. \A i \in 1..Len(e.parts) : i # Len(e.parts) => e.parts[i] # "mnt"
      BY DEF Sound, MountLast
    <3>2. \A i \in 1..Len(f.parts) : i # Len(f.parts) => f.parts[i] # "mnt"
      BY <3>0, <3>1
    <3>3. ASSUME "mnt" \in f.joined PROVE f.parts = <<>>
      <4>1. e.parts[1] = "mnt"
        BY <2>2, <3>1, <3>3 DEF Sound, MountLast
      <4>2. Len(e.parts) = 1
        <5>1. 1 \in 1..Len(e.parts)
          BY <3>1
        <5>2. 1 # Len(e.parts) => e.parts[1] # "mnt"
          BY <3>0, <5>1
        <5> QED
          BY <4>1, <5>2
      <4>3. Len(f.parts) = 0 /\ f.parts \in Seq(NSTypes)
        BY <2>0, <2>2, <3>1, <4>2
      <4> QED
        BY <4>3
    <3> QED
      BY <3>2, <3>3 DEF MountLast
  <2>6. Rooted(f)
    BY <1>2, <2>2 DEF Sound, Rooted, PathResolves
  <2> QED
    BY <1>0, <2>2, <2>4, <2>5, <2>6 DEF Sound, Placed, Confined, ChildRunning
<1> QED
  BY <1>1, <1>2

(* It changes its root, and becomes the program.                           *)
LEMMA SoundProgram ==
  ASSUME NEW e \in ExecState, Sound(e), NEW f,
         \/ e.child = "join" /\ e.parts = <<>> /\ f = [e EXCEPT !.child = "childExec"]
         \/ e.child = "childExec" /\ f = [e EXCEPT !.child = "program"]
  PROVE  f \in ExecState /\ Sound(f)
<1>1. /\ f \in ExecState /\ f.step = e.step /\ f.child \in {"childExec", "program"}
      /\ f.joined = e.joined /\ f.parts = e.parts /\ f.forChildren = e.forChildren
      /\ f.pid = e.pid /\ f.root = e.root
  BY DEF ExecState, ChildSteps, ChildRunning
<1>2. e.parts = <<>> /\ ("mnt" \in own => e.root)
  BY DEF Sound, Rooted
<1> QED
  BY <1>1, <1>2 DEF Sound, MountLast, Placed, Rooted, Confined, Entered, ChildRunning

-----------------------------------------------------------------------------
(* The steps of the system.                                                *)

(* exec only adds to what the commands do: to them, it is a state command. *)
LEMMA ExecIsNext == ExecNext => [Next]_vars
<1>1. ASSUME NEW x \in Execs, ExecStep(x) PROVE UNCHANGED vars
  BY <1>1 DEF ExecStep, JoinNamespace, CheckExecutable, ForkExec, Wait4, OpenRoot, Join, Chroot,
     ChildExec, ProgramExits, Update
<1>2. ASSUME NEW x \in Execs, NEW r \in Runtimes, ExecGetState(x, r) PROVE Next
  <2>1. Return(r) /\ UNCHANGED hasProcess
    BY <1>2 DEF ExecGetState, GotState, Return
  <2> QED
    BY <2>1 DEF Next, Run
<1> QED
  BY <1>1, <1>2 DEF ExecNext, ContainerStep

(* So every theorem about the commands holds of this system as well.       *)
LEMMA ExecImplements == ExecSpec => Spec
<1>1. ExecInit => Init
  BY DEF ExecInit
<1>2. [ExecNext]_allVars => [Next]_vars
  BY ExecIsNext DEF allVars
<1> QED
  BY <1>1, <1>2, PTL DEF ExecSpec, Spec

(* A process that is dead stays dead when its pid is not given away.       *)
LEMMA DeadStays ==
  ASSUME Types, Next, NEW p \in Pids, ~Alive(p),
         proc[p] = "free" => proc'[p] = "free"
  PROVE  ~Alive(p)'
<1>1. CASE proc'[p] = proc[p]
  BY <1>1 DEF Alive
<1>2. ASSUME NEW S, Terminate(S) PROVE ~Alive(p)'
  BY <1>2, TerminateAlive
<1>3. ASSUME NEW r \in Runtimes, Run(r) PROVE ~Alive(p)'
  <2>1. CASE Fork(r)
    <3>1. PICK q \in Pids : proc[q] = "free" /\ proc' = [proc EXCEPT ![q] = "boot"]
      BY <2>1 DEF Fork
    <3>2. CASE q = p
      BY <3>1, <3>2 DEF Types, InitProcessTypeOK
    <3>3. CASE q # p
      BY <1>1, <3>1, <3>3 DEF Types, InitProcessTypeOK
    <3> QED
      BY <3>2, <3>3
  <2>2. CASE CreateCgroup(r) \/ UNCHANGED proc
    BY <1>1, <2>2 DEF CreateCgroup
  <2> QED
    BY <1>2, <1>3, <2>1, <2>2, RunProcesses
<1>4. ASSUME NEW r \in Runtimes, NEW o \in Ops, Crash(r) \/ Begin(r, o) PROVE ~Alive(p)'
  BY <1>1, <1>4 DEF Crash, End, Begin, procVars
<1>5. ASSUME NEW q \in Pids, Environment(q) PROVE ~Alive(p)'
  BY <1>2, <1>5, EnvironmentProcesses DEF Alive
<1>6. "none" \in Ops
  BY DEF Ops
<1> QED
  BY <1>3, <1>4, <1>5, <1>6 DEF Next

(* A step of one invocation.                                               *)
LEMMA InvStep ==
  ASSUME ExecInv, NEW x \in Execs, ExecStep(x)
  PROVE  ExecInv'
<1> DEFINE e == exec[x]
<1>0. e \in ExecState /\ Sound(e) /\ own \subseteq NSTypes /\ exec \in [Execs -> ExecState]
  BY DEF ExecInv, ExecTypeOK
<1>1. ASSUME NEW f \in ExecState, Sound(f), Update(x, f) PROVE ExecInv'
  <2>1. UNCHANGED <<own, proc>> /\ exec' = [exec EXCEPT ![x] = f]
    BY <1>1 DEF Update, vars, procVars
  <2>2. \A y \in Execs : exec'[y] \in ExecState /\ Sound(exec'[y])
    BY <1>0, <1>1, <2>1 DEF ExecInv
  <2>3. \A g : Sound(g) => Sound(g)'
    BY <2>1 DEF Sound, MountLast, Placed, Rooted, Confined, Entered, Alive
  <2> QED
    BY <1>0, <2>1, <2>2, <2>3 DEF ExecInv, ExecTypeOK
<1>2. CASE JoinNamespace(x)
  BY <1>0, <1>1, <1>2, SoundEnter, SoundNoExec DEF JoinNamespace
<1>3. CASE CheckExecutable(x) \/ ForkExec(x)
  BY <1>0, <1>1, <1>3, SoundFork, SoundNoExec DEF CheckExecutable, ForkExec
<1>4. CASE Wait4(x)
  BY <1>1, <1>4, SoundNoExec DEF Wait4
<1>5. CASE OpenRoot(x)
  BY <1>0, <1>1, <1>5, SoundOpenRoot DEF OpenRoot
<1>6. CASE Join(x)
  BY <1>0, <1>1, <1>6, SoundJoin, SoundEnded DEF Join
<1>7. CASE Chroot(x) \/ ChildExec(x) \/ ProgramExits(x)
  BY <1>0, <1>1, <1>7, SoundProgram, SoundEnded DEF Chroot, ChildExec, ProgramExits
<1> QED
  BY <1>2, <1>3, <1>4, <1>5, <1>6, <1>7 DEF ExecStep

(* An invocation that got its answer.                                      *)
LEMMA InvGetState ==
  ASSUME Types, ExecInv, NEW x \in Execs, NEW r \in Runtimes, ExecGetState(x, r)
  PROVE  ExecInv'
<1>0. /\ exec[x] = NoExec /\ exec \in [Execs -> ExecState] /\ own \subseteq NSTypes
      /\ st[r].pid \in Pids \cup {None} /\ UNCHANGED <<own, proc>>
  BY DEF ExecInv, ExecTypeOK, ExecGetState, End, Types, ContainerTypeOK, State
<1>1. \A g : Sound(g) => Sound(g)'
  BY <1>0 DEF Sound, MountLast, Placed, Rooted, Confined, Entered, Alive
<1>2. CASE UNCHANGED exec
  BY <1>0, <1>1, <1>2 DEF ExecInv, ExecTypeOK
<1>3. CASE exec' = [exec EXCEPT ![x].step = "namespaces", ![x].pid = st[r].pid]
  <2> DEFINE f == [NoExec EXCEPT !.step = "namespaces", !.pid = st[r].pid]
  <2>1. exec' = [exec EXCEPT ![x] = f]
    BY <1>0, <1>3
  <2>2. /\ f.step = "namespaces" /\ f.child = "none" /\ f.joined = {} /\ f.forChildren = {}
        /\ f.parts = <<>> /\ f.n = 1 /\ f \in ExecState
    BY <1>0, SoundNoExec DEF NoExec, ExecState, ExecSteps
  <2> HIDE DEF f
  <2>3. Listed(f.parts) = {} /\ Len(f.parts) = 0
    BY <2>2 DEF Listed
  <2>4. Entered(f, Seen(f.n))
    BY <2>2, <2>3, NamespaceOrder DEF Entered
  <2>5. Sound(f)
    BY <2>2, <2>3, <2>4 DEF Sound, MountLast, Placed, Rooted, Confined, ChildRunning
  <2>6. \A y \in Execs : exec'[y] \in ExecState /\ Sound(exec'[y])
    BY <1>0, <2>1, <2>2, <2>5 DEF ExecInv
  <2> QED
    BY <1>0, <1>1, <2>1, <2>2, <2>6 DEF ExecInv, ExecTypeOK
<1> QED
  BY <1>2, <1>3 DEF ExecGetState

(* A step of the commands or of the container's process.                   *)
LEMMA InvContainer ==
  ASSUME Types, ExecInv, ContainerStep
  PROVE  ExecInv'
<1>0. /\ Next /\ UNCHANGED own /\ exec \in [Execs -> ExecState] /\ own \subseteq NSTypes
      /\ exec' = [x \in Execs |-> IF Zapped(exec[x]) THEN Ended(exec[x]) ELSE exec[x]]
  BY DEF ContainerStep, ExecInv, ExecTypeOK
<1>1. ASSUME NEW x \in Execs PROVE exec'[x] \in ExecState /\ Sound(exec[x])'
  <2> DEFINE e == exec[x]
  <2>0. e \in ExecState /\ Sound(e)
    BY <1>0 DEF ExecInv
  <2>1. CASE Zapped(e)
    <3>1. exec'[x] = Ended(e)
      BY <1>0, <2>1
    <3>2. Ended(e) \in ExecState /\ Ended(e).child \in {"none", "zombie"}
          /\ Ended(e).step \in {"idle", "wait"} /\ Sound(Ended(e))
      BY <2>0, SoundEnded DEF Ended, NoExec, ExecState
    <3>3. ASSUME NEW g \in ExecState, Sound(g), g.child \in {"none", "zombie"},
                 g.step \in {"idle", "wait"}
          PROVE  Sound(g)'
      BY <3>3 DEF Sound, MountLast, Placed, Rooted, Confined, ChildRunning
    <3> QED
      BY <3>1, <3>2, <3>3
  <2>2. CASE ~Zapped(e)
    <3>1. exec'[x] = exec[x]
      BY <1>0, <2>2
    <3>2. ~Alive(e.pid) => ~Alive(e.pid)'
      <4>1. CASE e.pid \in Pids
        <5>1. proc[e.pid] = "free" => proc'[e.pid] = "free"
          BY <4>1, StateDirAssumption DEF ContainerStep
        <5>2. \A p \in Pids : p = e.pid /\ ~Alive(p) => ~Alive(p)'
          BY <1>0, <5>1, DeadStays
        <5> QED
          BY <3>1, <4>1, <5>2
      <4>2. CASE e.pid \notin Pids
        BY <3>1, <4>2 DEF Alive
      <4> QED
        BY <4>1, <4>2
    <3>3. e.child \in ChildRunning /\ "pid" \in e.forChildren => Alive(e.pid)'
      BY <2>0, <2>2, <3>1 DEF Sound, Confined, Zapped, Alive
    <3>4. MountLast(e)' /\ Placed(e)' /\ Rooted(e)' /\ Confined(e)'
      BY <1>0, <2>0, <3>1, <3>2, <3>3 DEF Sound, MountLast, Placed, Rooted, Confined, Entered
    <3> QED
      BY <2>0, <3>1, <3>4 DEF Sound
  <2> QED
    BY <2>1, <2>2
<1> QED
  BY <1>0, <1>1 DEF ExecInv, ExecTypeOK

(* Every step keeps the invariant.                                         *)
LEMMA ExecInvariance == ExecSpec => []ExecInv
<1>1. ExecInit => ExecInv
  BY SoundNoExec, ExecAssumption DEF ExecInit, ExecInv, ExecTypeOK
<1>2. Types /\ ExecInv /\ [ExecNext]_allVars => ExecInv'
  <2> SUFFICES ASSUME Types, ExecInv, [ExecNext]_allVars PROVE ExecInv'
    OBVIOUS
  <2>1. CASE UNCHANGED allVars
    BY <2>1 DEF allVars, vars, procVars, execVars, ExecInv, ExecTypeOK, Sound, MountLast, Placed,
       Rooted, Confined, Entered, Alive
  <2>2. CASE ExecNext
    BY <2>2, InvStep, InvGetState, InvContainer DEF ExecNext
  <2> QED
    BY <2>1, <2>2
<1>3. TypeInv => Types
  BY DEF TypeInv
<1>4. Spec => []TypeInv
  BY TypeInit, TypeNext, PTL DEF Spec
<1> QED
  BY <1>1, <1>2, <1>3, <1>4, ExecImplements, PTL DEF ExecSpec

(* Every invocation is in a state of the model's, whatever the commands do *)
(* meanwhile.                                                              *)
THEOREM ExecTypeCorrect == ExecSpec => []ExecTypeOK
<1>1. ExecInv => ExecTypeOK
  BY DEF ExecInv
<1> QED
  BY <1>1, ExecInvariance, PTL

(* When the program of an exec runs, it is in every namespace of the       *)
(* container's but the user namespace and has its root, whatever failed,   *)
(* and whenever the container's process ended.                             *)
THEOREM ExecConfinedCorrect == ExecSpec => []ExecConfined
<1>1. ExecInv => ExecConfined
  <2> SUFFICES ASSUME ExecInv, NEW x \in Execs, exec[x].child = "program"
               PROVE  /\ exec[x].forChildren \cup exec[x].joined = own \ {"user"}
                      /\ "mnt" \in own => exec[x].root
    BY DEF ExecConfined
  <2>1. /\ Entered(exec[x], NSTypes) /\ exec[x].parts = <<>> /\ own \subseteq NSTypes
        /\ "mnt" \in own => exec[x].root
    BY DEF ExecInv, ExecTypeOK, Sound, Placed, Rooted, ChildRunning
  <2>2. Listed(exec[x].parts) = {}
    BY <2>1 DEF Listed
  <2> QED
    BY <2>1, <2>2 DEF Entered
<1> QED
  BY <1>1, ExecInvariance, PTL

(* As long as the container's process lives, neither exec nor its child    *)
(* fails to find a namespace: the mount namespace is joined last.          *)
THEOREM JoinsCorrect == ExecSpec => JoinsWhileAlive
<1>1. ASSUME ExecInv, [ExecNext]_allVars
      PROVE  [\A x \in Execs : FailedToJoin(x) =>
                  ~\E p \in Pids : exec[x].pid = p /\ Alive(p)']_exec
  <2> SUFFICES ASSUME ExecNext, NEW x \in Execs, FailedToJoin(x), NEW p \in Pids, exec[x].pid = p
               PROVE  ~Alive(p)'
    BY <1>1 DEF allVars, execVars
  <2>0. exec \in [Execs -> ExecState] /\ exec[x] \in ExecState /\ Sound(exec[x])
    BY <1>1 DEF ExecInv, ExecTypeOK
  <2>1. CASE ContainerStep
    <3>1. exec'[x] = IF Zapped(exec[x]) THEN Ended(exec[x]) ELSE exec[x]
      BY <2>1 DEF ContainerStep
    <3>2. Zapped(exec[x])
      BY <2>0, <3>1 DEF FailedToJoin, ChildRunning
    <3> QED
      BY <3>2 DEF Zapped, Alive
  <2>2. ASSUME NEW y \in Execs, NEW r \in Runtimes, ExecGetState(y, r) PROVE FALSE
    BY <2>0, <2>2 DEF ExecGetState, FailedToJoin, NoExec, ChildRunning
  <2>3. ASSUME NEW y \in Execs, ExecStep(y) PROVE ~Alive(p)'
    <3>1. UNCHANGED proc /\ \E f : exec' = [exec EXCEPT ![y] = f]
      BY <2>3 DEF ExecStep, JoinNamespace, CheckExecutable, ForkExec, Wait4, OpenRoot, Join,
         Chroot, ChildExec, ProgramExits, Update, vars, procVars
    <3>2. y = x
      BY <2>0, <3>1 DEF FailedToJoin, ChildRunning
    <3>3. Alive(p)' => Alive(p)
      BY <3>1 DEF Alive
    <3>4. CASE exec[x].step = "namespaces" /\ exec'[x].step = "idle"
      <4>1. exec[x].child = "none"
        BY <2>0, <3>4 DEF Sound, Placed
      <4>2. JoinNamespace(x)
        BY <2>3, <3>2, <3>4, <4>1 DEF ExecStep, CheckExecutable, ForkExec, Wait4, OpenRoot, Join,
           Chroot, ChildExec, ProgramExits
      <4>3. Advance(Enter(exec[x], namespaces[exec[x].n])).step # "idle"
        <5>1. \A g \in ExecState : g.step = "namespaces" => Advance(g).step # "idle"
          BY DEF Advance, ExecState
        <5>2. /\ Enter(exec[x], namespaces[exec[x].n]) \in ExecState
              /\ Enter(exec[x], namespaces[exec[x].n]).step = "namespaces"
          BY <2>0, <3>4, EnterState, NamespaceOrder DEF ExecState
        <5> QED
          BY <5>1, <5>2
      <4> QED
        BY <2>0, <3>3, <3>4, <4>2, <4>3 DEF JoinNamespace, Update
    <3>5. CASE /\ exec[x].child = "join" /\ exec[x].parts # <<>>
               /\ exec'[x].child \notin ChildRunning
      <4>1. exec[x].step \in {"wait", "returned"}
        BY <2>0, <3>5 DEF Sound, Placed, ExecState, ExecSteps
      <4>2. Join(x)
        BY <2>3, <3>2, <3>5, <4>1 DEF ExecStep, JoinNamespace, CheckExecutable, ForkExec, Wait4,
           OpenRoot, Chroot, ChildExec, ProgramExits
      <4>3. ASSUME NEW q, NEW h, exec' = [exec EXCEPT ![x] = [exec[x] EXCEPT !.parts = q, !.joined = h]]
            PROVE  FALSE
        BY <2>0, <3>5, <4>3 DEF ExecState, ChildRunning
      <4>4. ~PathResolves(exec[x])
        BY <4>2, <4>3 DEF Join, Update
      <4> QED
        BY <2>0, <3>3, <3>5, <4>4, SoundJoin
    <3> QED
      BY <3>4, <3>5 DEF FailedToJoin
  <2> QED
    BY <2>1, <2>2, <2>3 DEF ExecNext
<1> QED
  BY <1>1, ExecInvariance, PTL DEF ExecSpec, JoinsWhileAlive

(* When delete runs the poststop hooks, no program that exec started in    *)
(* the container's own pid namespace is left, though exec puts none in the *)
(* container's cgroup; unless a runtime was killed, or creating or         *)
(* deleting the cgroup failed.                                             *)
THEOREM ExecEndsCorrect ==
  ASSUME SerialDelete,
         "crash" \notin Faults, "createCgroup" \notin Faults, "deleteCgroup" \notin Faults
  PROVE  ExecSpec => []ExecEndsWithContainer
<1>1. ExecInv /\ PoststopAfterDeath => ExecEndsWithContainer
  <2> SUFFICES ASSUME ExecInv, PoststopAfterDeath, NEW r \in Runtimes, pc[r] = "poststop",
                      "pid" \in own, NEW x \in Execs, exec[x].child \in ChildRunning
               PROVE  FALSE
    BY DEF ExecEndsWithContainer
  <2>1. Entered(exec[x], NSTypes) /\ own \subseteq NSTypes /\ Confined(exec[x])
    BY DEF ExecInv, ExecTypeOK, Sound, Placed
  <2>2. "pid" \in exec[x].forChildren
    BY <2>1 DEF Entered
  <2>3. Alive(exec[x].pid) /\ exec[x].pid \in Pids
    BY <2>1, <2>2 DEF Confined, Alive
  <2> QED
    BY <2>3 DEF PoststopAfterDeath
<1> QED
  BY <1>1, ExecInvariance, ExecImplements, PoststopCorrect, PTL

=============================================================================
