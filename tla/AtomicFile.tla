----------------------------- MODULE AtomicFile -----------------------------
(***************************************************************************)
(* platform.AtomicWriteFile, which writes state.json and the pid file:     *)
(* create a temporary file beside the target, write it, flush it, rename   *)
(* it over the target, and on the way out remove the temporary file if it  *)
(* is still there.  Every system call may fail, and the process may be     *)
(* killed between any two of them.                                         *)
(*                                                                         *)
(* A write is not atomic: a file may hold a part of the data.  os.Create-  *)
(* Temp draws random names; the model takes a name no running call uses,   *)
(* so that two calls never clean up each other's file.                     *)
(***************************************************************************)
EXTENDS Naturals, FiniteSets

CONSTANTS
    Writers,    \* processes that call AtomicWriteFile on the target
    Values,     \* contents they write
    Names,      \* names of temporary files
    Target,     \* the file's name
    Absent      \* no file, no value

ASSUME AtomicFileAssumption ==
    /\ Target \notin Names
    /\ Absent \notin Names
    /\ Absent \notin Values

VARIABLES
    file,       \* per name, the file: its value and whether all of it is there
    step,       \* per writer, its next system call
    data,       \* per writer, the data it was given
    temp,       \* per writer, the name of its temporary file
    result      \* per writer, the error it will return: "ok" or "err"

vars == <<file, step, data, temp, result>>

Paths == Names \cup {Target}
File == [val : Values \cup {Absent}, whole : BOOLEAN]
NoFile == [val |-> Absent, whole |-> TRUE]
Partial(v) == [val |-> v, whole |-> FALSE]
Whole(v) == [val |-> v, whole |-> TRUE]

Steps == {"idle", "createTemp", "write", "sync", "rename", "stat", "remove", "return"}

TypeOK ==
    /\ file \in [Paths -> File]
    /\ step \in [Writers -> Steps]
    /\ data \in [Writers -> Values \cup {Absent}]
    /\ temp \in [Writers -> Names \cup {Absent}]
    /\ result \in [Writers -> {"ok", "err"}]

Init ==
    /\ file = [n \in Paths |-> NoFile]
    /\ step = [w \in Writers |-> "idle"]
    /\ data = [w \in Writers |-> Absent]
    /\ temp = [w \in Writers |-> Absent]
    /\ result = [w \in Writers |-> "err"]

-----------------------------------------------------------------------------
Goto(w, s) == step' = [step EXCEPT ![w] = s]

Invoke(w, v) ==
    /\ step[w] = "idle"
    /\ Goto(w, "createTemp")
    /\ data' = [data EXCEPT ![w] = v]
    /\ UNCHANGED <<file, temp, result>>

MutantCreateTemp(w) ==
    /\ step[w] = "createTemp"
    /\ temp' = [temp EXCEPT ![w] = Target]
    /\ file' = [file EXCEPT ![Target] = Partial(data[w])]
    /\ Goto(w, "write")
    /\ UNCHANGED <<data, result>>

(* os.CreateTemp: a new, empty file; a failure returns at once.            *)
CreateTemp(w) ==
    /\ step[w] = "createTemp"
    /\ \/ \E n \in Names :
             /\ file[n] = NoFile
             /\ \A x \in Writers : temp[x] # n
             /\ temp' = [temp EXCEPT ![w] = n]
             /\ file' = [file EXCEPT ![n] = Partial(data[w])]
             /\ Goto(w, "write")
       \/ Goto(w, "return") /\ UNCHANGED <<file, temp>>
    /\ UNCHANGED <<data, result>>

MutantWrite(w) ==
    /\ step[w] = "write"
    /\ \/ file' = [file EXCEPT ![temp[w]] = Whole(data[w])]
       \/ UNCHANGED file
    /\ Goto(w, "sync")
    /\ UNCHANGED <<data, temp, result>>

(* All of the data is written, or the call fails part of the way.          *)
Write(w) ==
    /\ step[w] = "write"
    /\ \/ /\ file' = [file EXCEPT ![temp[w]] = Whole(data[w])]
          /\ Goto(w, "sync")
       \/ Goto(w, "stat") /\ UNCHANGED file
    /\ UNCHANGED <<data, temp, result>>

(* Sync, Chmod and Close.                                                  *)
Sync(w) ==
    /\ step[w] = "sync"
    /\ Goto(w, "rename") \/ Goto(w, "stat")
    /\ UNCHANGED <<file, data, temp, result>>

MutantRename(w) ==
    /\ step[w] = "rename"
    /\ \/ /\ file[temp[w]] # NoFile
          /\ file' = [file EXCEPT ![Target] = file[temp[w]], ![temp[w]] = NoFile]
       \/ UNCHANGED file
    /\ result' = [result EXCEPT ![w] = "ok"]
    /\ Goto(w, "stat")
    /\ UNCHANGED <<data, temp>>

(* rename(2) fails also when the temporary file is gone.                   *)
Rename(w) ==
    /\ step[w] = "rename"
    /\ \/ /\ file[temp[w]] # NoFile
          /\ file' = [file EXCEPT ![Target] = file[temp[w]], ![temp[w]] = NoFile]
          /\ result' = [result EXCEPT ![w] = "ok"]
       \/ UNCHANGED <<file, result>>
    /\ Goto(w, "stat")
    /\ UNCHANGED <<data, temp>>

(* The deferred function looks for the temporary file ...                  *)
Stat(w) ==
    /\ step[w] = "stat"
    /\ Goto(w, IF file[temp[w]] = NoFile THEN "return" ELSE "remove")
    /\ UNCHANGED <<file, data, temp, result>>

(* ... and removes it; a failure is only a warning.                        *)
Remove(w) ==
    /\ step[w] = "remove"
    /\ \/ file' = [file EXCEPT ![temp[w]] = NoFile]
       \/ UNCHANGED file
    /\ Goto(w, "return")
    /\ UNCHANGED <<data, temp, result>>

(* The call is over.                                                       *)
End(w) ==
    /\ Goto(w, "idle")
    /\ data' = [data EXCEPT ![w] = Absent]
    /\ temp' = [temp EXCEPT ![w] = Absent]
    /\ result' = [result EXCEPT ![w] = "err"]
    /\ UNCHANGED file

Return(w) == step[w] = "return" /\ End(w)

(* The writer is killed.                                                   *)
Kill(w) == step[w] \notin {"idle", "return"} /\ End(w)

Next ==
    \E w \in Writers :
        \/ \E v \in Values : Invoke(w, v)
        \/ CreateTemp(w) \/ Write(w) \/ Sync(w) \/ Rename(w)
        \/ Stat(w) \/ Remove(w) \/ Return(w) \/ Kill(w)

Spec == Init /\ [][Next]_vars

-----------------------------------------------------------------------------
(* A reader of the target never sees a part of a value: AtomicWriteFile    *)
(* "writes data to a file atomically by operating on a temp file then      *)
(* renaming it".                                                           *)
NeverTorn == file[Target].whole

(* The call reports success exactly when it replaced the file, and then    *)
(* once: it implements an atomic register.                                 *)
CallOf(w) ==
    CASE step[w] = "idle" -> [state |-> "none", val |-> Absent]
      [] step[w] # "idle" /\ result[w] = "ok" -> [state |-> "done", val |-> data[w]]
      [] OTHER -> [state |-> "pending", val |-> data[w]]

R == INSTANCE AtomicRegister
        WITH value <- file[Target].val, call <- [w \in Writers |-> CallOf(w)]

ImplementsRegister == R!RegisterSpec

=============================================================================
