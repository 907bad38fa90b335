--------------------------- MODULE AtomicRegister ---------------------------
(***************************************************************************)
(* What AtomicWriteFile promises: a file that changes from one value to    *)
(* the next in a single step, at most once per call, and exactly once in a *)
(* call that reports success.                                              *)
(***************************************************************************)
CONSTANTS
    Writers,    \* processes that write the file
    Values,     \* values they write
    Absent      \* the value of a file that does not exist

VARIABLES
    value,      \* what a reader of the file gets
    call        \* per writer, its call: state and value

Call == [state : {"none", "pending", "done"}, val : Values \cup {Absent}]
NoCall == [state |-> "none", val |-> Absent]

RegisterInit ==
    /\ value = Absent
    /\ call = [w \in Writers |-> NoCall]

Invoke(w, v) ==
    /\ call[w].state = "none"
    /\ call' = [call EXCEPT ![w] = [state |-> "pending", val |-> v]]
    /\ UNCHANGED value

Commit(w) ==
    /\ call[w].state = "pending"
    /\ value' = call[w].val
    /\ call' = [call EXCEPT ![w].state = "done"]

(* A call that reports success has committed; one that fails, or whose     *)
(* caller is killed before it commits, has changed nothing.                *)
Respond(w) ==
    /\ call[w].state # "none"
    /\ call' = [call EXCEPT ![w] = NoCall]
    /\ UNCHANGED value

RegisterNext ==
    \E w \in Writers :
        \/ \E v \in Values : Invoke(w, v)
        \/ Commit(w)
        \/ Respond(w)

RegisterSpec == RegisterInit /\ [][RegisterNext]_<<value, call>>

=============================================================================
