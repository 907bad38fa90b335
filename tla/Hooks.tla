------------------------------- MODULE Hooks --------------------------------
(***************************************************************************)
(* The hooks of one phase: ExecHooks runs them one after the other and     *)
(* stops at the first error.  A hook is a process of its own; its standard *)
(* streams are pipes that the runtime copies, and cmd.Run returns only     *)
(* when the process was waited for and every pipe is closed.  A process    *)
(* the hook started may have inherited the pipes and outlive it.  The      *)
(* timeout kills the hook's own process and nothing else.                  *)
(***************************************************************************)
EXTENDS Naturals, Sequences

VARIABLES
    todo,   \* the hooks of the phase that have not returned, first one current
    hook,   \* the current command: its process, its exit and its context
    pipes,  \* who holds the pipes: the hook, a descendant of it
    exits   \* how the hooks run so far ended

hookVars == <<todo, hook, pipes, exits>>

(* exists: LookPath finds it; timeout: none, one that has passed before    *)
(* the command starts (0 or less), or one that passes some time later.     *)
Hook == [exists : BOOLEAN, timeout : {"none", "passed", "some"}]

States == {"idle", "lookup", "start", "running", "zombie", "reaped", "ok", "error"}

HooksTypeOK ==
    /\ todo \in Seq(Hook)
    /\ hook \in [state : States, exit : {"ok", "bad"}, late : BOOLEAN]
    /\ pipes \subseteq {"hook", "descendant"}
    /\ exits \in Seq({"ok", "bad"})

NoHook == [state |-> "idle", exit |-> "ok", late |-> FALSE]

HooksInit == todo = <<>> /\ hook = NoHook /\ pipes = {} /\ exits = <<>>

-----------------------------------------------------------------------------
(* The caller of ExecHooks.                                                *)

BeginHooks(list) ==
    /\ hook.state = "idle"
    /\ todo' = list
    /\ hook' = [NoHook EXCEPT !.state = IF list = <<>> THEN "ok" ELSE "lookup"]
    /\ UNCHANGED <<pipes, exits>>

EndHooks(outcome) ==
    /\ hook.state = outcome
    /\ hook' = NoHook
    /\ todo' = <<>>
    /\ UNCHANGED <<pipes, exits>>

-----------------------------------------------------------------------------
(* execHook.                                                               *)

Goes(from, to) == hook.state = from /\ hook' = [hook EXCEPT !.state = to]

LookPath ==
    /\ hook.state = "lookup"
    /\ Goes("lookup", IF Head(todo).exists THEN "start" ELSE "error")
    /\ UNCHANGED <<todo, pipes, exits>>

(* cmd.Start does not start a command whose context has ended.             *)
StartHook ==
    \/ /\ Goes("start", "running")
       /\ Head(todo).timeout # "passed"
       /\ pipes' = {"hook"}
       /\ UNCHANGED <<todo, exits>>
    \/ Goes("start", "error") /\ UNCHANGED <<todo, pipes, exits>>

MutantTimerFires ==
    /\ todo # <<>> /\ Head(todo).timeout = "some"
    /\ hook.state = "zombie"
    /\ ~hook.late
    /\ hook' = [hook EXCEPT !.late = TRUE]
    /\ UNCHANGED <<todo, pipes, exits>>

MutantKilled ==
    /\ todo # <<>> /\ Head(todo).timeout = "some"
    /\ hook.state \in {"running", "zombie"}
    /\ hook' = [hook EXCEPT !.late = TRUE, !.exit = "killed"]
    /\ UNCHANGED <<todo, pipes, exits>>

(* The context ends before the process was waited for: it is killed, and   *)
(* the command fails even if the process had just exited well.             *)
TimerFires ==
    /\ todo # <<>> /\ Head(todo).timeout = "some"
    /\ hook.state \in {"running", "zombie"}
    /\ ~hook.late
    /\ hook' = [hook EXCEPT !.late = TRUE, !.state = "zombie",
                            !.exit = IF hook.state = "running" THEN "bad" ELSE @]
    /\ pipes' = pipes \ {"hook"}
    /\ UNCHANGED <<todo, exits>>

(* Process.Wait; from here on the timeout has no effect.                   *)
WaitProcess == Goes("zombie", "reaped") /\ UNCHANGED <<todo, pipes, exits>>

MutantReturned ==
    /\ exits' = Append(exits, IF hook.exit = "ok" /\ ~hook.late THEN "ok" ELSE "bad")
    /\ todo' = Tail(todo)
    /\ hook' = [NoHook EXCEPT !.state = IF Len(todo) > 1 THEN "lookup" ELSE "ok"]

Returned ==
    LET exit == IF hook.exit = "ok" /\ ~hook.late THEN "ok" ELSE "bad"
    IN  /\ exits' = Append(exits, exit)
        /\ todo' = Tail(todo)
        /\ hook' = [NoHook EXCEPT !.state =
                       CASE exit = "bad" -> "error"
                         [] exit = "ok" /\ Len(todo) > 1 -> "lookup"
                         [] OTHER -> "ok"]

MutantWaitPipes == hook.state = "reaped" /\ Returned /\ UNCHANGED pipes

(* The copying ends when nobody holds a pipe (no WaitDelay is set).        *)
WaitPipes == hook.state = "reaped" /\ pipes = {} /\ Returned /\ UNCHANGED pipes

ExecHooks == LookPath \/ StartHook \/ WaitProcess \/ WaitPipes

-----------------------------------------------------------------------------
(* The hook and its descendants.                                           *)

HookForks ==
    /\ hook.state = "running"
    /\ pipes' = pipes \cup {"descendant"}
    /\ UNCHANGED <<todo, hook, exits>>

HookExits ==
    /\ hook.state = "running"
    /\ \E exit \in {"ok", "bad"} : hook' = [hook EXCEPT !.state = "zombie", !.exit = exit]
    /\ pipes' = pipes \ {"hook"}
    /\ UNCHANGED <<todo, exits>>

DescendantCloses ==
    /\ "descendant" \in pipes
    /\ pipes' = pipes \ {"descendant"}
    /\ UNCHANGED <<todo, hook, exits>>

HookActs == HookForks \/ HookExits \/ DescendantCloses

=============================================================================
