-------------------------- MODULE AtomicFileProofs --------------------------
(***************************************************************************)
(* AtomicWriteFile implements an atomic register, for any number of        *)
(* writers, values and temporary files.                                    *)
(***************************************************************************)
EXTENDS AtomicFile, TLAPS

(* A call that has a temporary file has one of its own.                    *)
OwnTemp ==
    /\ \A w \in Writers :
          step[w] \in {"write", "sync", "rename", "stat", "remove"} => temp[w] \in Names
    /\ \A w, x \in Writers : w # x /\ temp[w] # Absent => temp[w] # temp[x]

(* What is about to be renamed is all of the data.                         *)
TempIsWhole ==
    \A w \in Writers : step[w] \in {"sync", "rename"} => file[temp[w]] = Whole(data[w])

(* Only a call that renamed reports success.                               *)
OkIsLate ==
    \A w \in Writers :
        /\ step[w] # "idle" <=> data[w] \in Values
        /\ result[w] = "ok" => step[w] \in {"stat", "remove", "return"}

FileInv == TypeOK /\ OwnTemp /\ TempIsWhole /\ OkIsLate /\ NeverTorn

(* The invariant holds at the start.                                       *)
LEMMA FileInit == Init => FileInv
  BY AtomicFileAssumption DEF Init, FileInv, TypeOK, OwnTemp, TempIsWhole, OkIsLate, NeverTorn,
     Paths, File, NoFile, Steps

(* Every step of a call keeps the invariant.                               *)
LEMMA FileStep == FileInv /\ [Next]_vars => FileInv'
<1> SUFFICES ASSUME FileInv, [Next]_vars PROVE FileInv'
  OBVIOUS
<1> USE AtomicFileAssumption DEF FileInv, TypeOK, OwnTemp, TempIsWhole, OkIsLate, NeverTorn,
        Steps, Goto
<1> Target \in Paths /\ Names \subseteq Paths /\ NoFile \in File /\ NoFile.whole
  BY DEF Paths, File, NoFile
<1> \A v \in Values : Whole(v) \in File /\ Partial(v) \in File /\ Whole(v).whole /\ Whole(v) # NoFile
  BY DEF Whole, Partial, File, NoFile
<1> DEFINE Unshared(w, n) == \A x \in Writers \ {w} : temp[x] # n
<1>1. ASSUME NEW w \in Writers, NEW v \in Values, Invoke(w, v) PROVE FileInv'
  BY <1>1 DEF Invoke
<1>2. ASSUME NEW w \in Writers, CreateTemp(w) PROVE FileInv'
  <2>1. CASE UNCHANGED <<file, temp>> /\ Goto(w, "return")
    BY <1>2, <2>1 DEF CreateTemp
  <2>2. ASSUME NEW n \in Names, Unshared(w, n),
               temp' = [temp EXCEPT ![w] = n],
               file' = [file EXCEPT ![n] = Partial(data[w])],
               Goto(w, "write")
        PROVE  FileInv'
    <3>1. data[w] \in Values
      BY <1>2 DEF CreateTemp
    <3>2. file' \in [Paths -> File] /\ \A m \in Paths \ {n} : file'[m] = file[m]
      BY <2>2, <3>1
    <3>3. TypeOK' /\ OwnTemp' /\ OkIsLate'
      BY <1>2, <2>2, <3>2 DEF CreateTemp
    <3>4. TempIsWhole'
      BY <1>2, <2>2, <3>2 DEF CreateTemp
    <3> QED
      BY <3>2, <3>3, <3>4
  <2> QED
    BY <1>2, <2>1, <2>2 DEF CreateTemp
<1>3. ASSUME NEW w \in Writers, Write(w) PROVE FileInv'
  <2>1. temp[w] \in Names /\ data[w] \in Values /\ Unshared(w, temp[w])
    BY <1>3 DEF Write
  <2>2. CASE UNCHANGED file /\ Goto(w, "stat")
    BY <1>3, <2>1, <2>2 DEF Write
  <2>3. CASE file' = [file EXCEPT ![temp[w]] = Whole(data[w])] /\ Goto(w, "sync")
    <3>1. file' \in [Paths -> File] /\ file'[temp[w]] = Whole(data[w])
          /\ \A m \in Paths \ {temp[w]} : file'[m] = file[m]
      BY <2>1, <2>3
    <3>2. TypeOK' /\ OwnTemp' /\ OkIsLate'
      BY <1>3, <2>1, <2>3, <3>1 DEF Write
    <3>3. TempIsWhole'
      BY <1>3, <2>1, <2>3, <3>1 DEF Write
    <3> QED
      BY <2>1, <3>1, <3>2, <3>3
  <2> QED
    BY <1>3, <2>2, <2>3 DEF Write
<1>4. ASSUME NEW w \in Writers, Sync(w) PROVE FileInv'
  BY <1>4 DEF Sync
<1>5. ASSUME NEW w \in Writers, Rename(w) PROVE FileInv'
  <2>1. temp[w] \in Names /\ data[w] \in Values /\ Unshared(w, temp[w])
        /\ file[temp[w]] = Whole(data[w])
    BY <1>5 DEF Rename
  <2>2. CASE UNCHANGED <<file, result>>
    BY <1>5, <2>1, <2>2 DEF Rename
  <2>3. CASE /\ file' = [file EXCEPT ![Target] = file[temp[w]], ![temp[w]] = NoFile]
             /\ result' = [result EXCEPT ![w] = "ok"]
    <3>1. file' \in [Paths -> File] /\ file'[Target] = Whole(data[w])
          /\ \A m \in Names \ {temp[w]} : file'[m] = file[m]
      BY <2>1, <2>3
    <3>2. TypeOK' /\ OwnTemp' /\ OkIsLate'
      BY <1>5, <2>1, <2>3, <3>1 DEF Rename
    <3>3. TempIsWhole'
      BY <1>5, <2>1, <2>3, <3>1 DEF Rename
    <3> QED
      BY <2>1, <3>1, <3>2, <3>3
  <2> QED
    BY <1>5, <2>2, <2>3 DEF Rename
<1>6. ASSUME NEW w \in Writers, Stat(w) PROVE FileInv'
  BY <1>6 DEF Stat
<1>7. ASSUME NEW w \in Writers, Remove(w) PROVE FileInv'
  <2>1. temp[w] \in Names /\ Unshared(w, temp[w])
    BY <1>7 DEF Remove
  <2>2. CASE UNCHANGED file
    BY <1>7, <2>1, <2>2 DEF Remove
  <2>3. CASE file' = [file EXCEPT ![temp[w]] = NoFile]
    <3>1. file' \in [Paths -> File] /\ \A m \in Paths \ {temp[w]} : file'[m] = file[m]
      BY <2>1, <2>3
    <3>2. TypeOK' /\ OwnTemp' /\ OkIsLate'
      BY <1>7, <2>1, <2>3, <3>1 DEF Remove
    <3>3. TempIsWhole'
      BY <1>7, <2>1, <2>3, <3>1 DEF Remove
    <3> QED
      BY <2>1, <3>1, <3>2, <3>3
  <2> QED
    BY <1>7, <2>2, <2>3 DEF Remove
<1>8. ASSUME NEW w \in Writers, End(w) PROVE FileInv'
  BY <1>8 DEF End
<1>9. CASE UNCHANGED vars
  BY <1>9 DEF vars
<1> QED
  BY <1>1, <1>2, <1>3, <1>4, <1>5, <1>6, <1>7, <1>8, <1>9 DEF Next, Return, Kill

(* Types: what is renamed over the target, removed or returned is always   *)
(* the file, the data and the error of a call.                             *)
THEOREM FileTypeCorrect == Spec => []TypeOK
<1>1. FileInv => TypeOK
  BY DEF FileInv
<1> QED
  BY <1>1, FileInit, FileStep, PTL DEF Spec

(* The target never holds a part of a value.                               *)
THEOREM Untorn == Spec => []NeverTorn
<1>1. FileInv => NeverTorn
  BY DEF FileInv
<1> QED
  BY <1>1, FileInit, FileStep, PTL DEF Spec

-----------------------------------------------------------------------------
(* The refinement.                                                         *)

calls == [w \in Writers |-> CallOf(w)]

(* A step of one writer leaves the calls of the others as they are.        *)
LEMMA OtherCalls ==
  ASSUME FileInv, NEW w \in Writers,
         \A x \in Writers \ {w} :
            step'[x] = step[x] /\ data'[x] = data[x] /\ result'[x] = result[x]
  PROVE  calls' = [calls EXCEPT ![w] = CallOf(w)']
  BY DEF calls, CallOf

(* A step that changes neither the file nor the caller's view is no step   *)
(* of the register.                                                        *)
LEMMA Stutter ==
  ASSUME FileInv, NEW w \in Writers, NEW s \in Steps \ {"idle"}, step[w] # "idle", Goto(w, s),
         UNCHANGED <<data, result>>, file'[Target].val = file[Target].val
  PROVE  UNCHANGED <<file[Target].val, calls>>
<1>1. \A x \in Writers : CallOf(x)' = CallOf(x)
  BY DEF CallOf, Goto, FileInv, TypeOK
<1> QED
  BY <1>1 DEF calls

(* Every step of the code is a step of the register or none.               *)
LEMMA RefineStep ==
  FileInv /\ FileInv' /\ [Next]_vars => [R!RegisterNext]_<<file[Target].val, calls>>
<1> SUFFICES ASSUME FileInv, FileInv', [Next]_vars
             PROVE  R!RegisterNext \/ UNCHANGED <<file[Target].val, calls>>
  OBVIOUS
<1> USE AtomicFileAssumption
<1>0. TypeOK /\ OwnTemp /\ TempIsWhole /\ OkIsLate
  BY DEF FileInv
<1>1. ASSUME NEW w \in Writers, NEW v \in Values, Invoke(w, v) PROVE R!Invoke(w, v)
  <2>1. calls' = [calls EXCEPT ![w] = CallOf(w)']
    BY <1>0, <1>1, OtherCalls DEF Invoke, Goto, TypeOK
  <2>2. CallOf(w)' = [state |-> "pending", val |-> v] /\ CallOf(w).state = "none"
    BY <1>0, <1>1 DEF Invoke, CallOf, TypeOK, OkIsLate, Goto
  <2>3. file' = file
    BY <1>1 DEF Invoke
  <2> QED
    BY <2>1, <2>2, <2>3 DEF R!Invoke, calls
<1>2. ASSUME NEW w \in Writers, CreateTemp(w) \/ Write(w) \/ Sync(w) \/ Stat(w) \/ Remove(w)
      PROVE  UNCHANGED <<file[Target].val, calls>>
  <2>1. file'[Target] = file[Target]
    BY <1>0, <1>2 DEF CreateTemp, Write, Sync, Stat, Remove, TypeOK, OwnTemp, Paths
  <2>2. \E s \in Steps \ {"idle"} : Goto(w, s)
    BY <1>2 DEF CreateTemp, Write, Sync, Stat, Remove, Steps
  <2>3. step[w] # "idle" /\ UNCHANGED <<data, result>>
    BY <1>2 DEF CreateTemp, Write, Sync, Stat, Remove
  <2> QED
    BY <2>1, <2>2, <2>3, Stutter
<1>3. ASSUME NEW w \in Writers, Rename(w)
      PROVE  R!Commit(w) \/ UNCHANGED <<file[Target].val, calls>>
  <2>1. CASE UNCHANGED <<file, result>>
    BY <1>3, <2>1, Stutter DEF Rename, Steps
  <2>2. CASE /\ file' = [file EXCEPT ![Target] = file[temp[w]], ![temp[w]] = NoFile]
             /\ result' = [result EXCEPT ![w] = "ok"]
    <3>1. calls' = [calls EXCEPT ![w] = CallOf(w)']
      BY <1>0, <1>3, <2>2, OtherCalls DEF Rename, Goto, TypeOK
    <3>2. CallOf(w) = [state |-> "pending", val |-> data[w]]
      BY <1>0, <1>3 DEF Rename, CallOf, TypeOK, OkIsLate
    <3>3. CallOf(w)' = [state |-> "done", val |-> data[w]]
      BY <1>0, <1>3, <2>2 DEF Rename, CallOf, TypeOK, Goto
    <3>4. file'[Target].val = data[w]
      <4>1. temp[w] \in Names /\ file[temp[w]] = Whole(data[w])
        BY <1>0, <1>3 DEF Rename, OwnTemp, TempIsWhole
      <4>2. file'[Target] = Whole(data[w])
        BY <1>0, <2>2, <4>1 DEF TypeOK, Paths
      <4> QED
        BY <4>2 DEF Whole
    <3>5. CallOf(w)' = [CallOf(w) EXCEPT !.state = "done"]
      BY <3>2, <3>3
    <3>6. calls' = [calls EXCEPT ![w].state = "done"]
      BY <3>1, <3>5 DEF calls
    <3>7. calls[w] = CallOf(w)
      BY DEF calls
    <3> QED
      BY <3>2, <3>4, <3>6, <3>7 DEF R!Commit, calls
  <2> QED
    BY <1>3, <2>1, <2>2 DEF Rename
<1>4. ASSUME NEW w \in Writers, Return(w) \/ Kill(w) PROVE R!Respond(w)
  <2>1. calls' = [calls EXCEPT ![w] = CallOf(w)']
    BY <1>0, <1>4, OtherCalls DEF Return, Kill, End, Goto, TypeOK
  <2>2. CallOf(w)' = R!NoCall /\ CallOf(w).state # "none"
    BY <1>0, <1>4 DEF Return, Kill, End, CallOf, TypeOK, Goto, R!NoCall
  <2>3. file' = file
    BY <1>4 DEF Return, Kill, End
  <2> QED
    BY <2>1, <2>2, <2>3 DEF R!Respond, calls
<1>5. CASE UNCHANGED vars
  BY <1>5 DEF vars, calls, CallOf
<1> QED
  BY <1>1, <1>2, <1>3, <1>4, <1>5 DEF Next, R!RegisterNext

(* AtomicWriteFile implements an atomic register: the file's value changes *)
(* in one step, once in a call that returns nil and never in a call that   *)
(* returns an error.                                                       *)
THEOREM Refinement == Spec => ImplementsRegister
<1>1. Init => R!RegisterInit
  BY AtomicFileAssumption DEF Init, R!RegisterInit, R!NoCall, CallOf, Paths, NoFile
<1>2. FileInv /\ FileInv' /\ [Next]_vars
        => [R!RegisterNext]_<<file[Target].val, [w \in Writers |-> CallOf(w)]>>
  BY RefineStep DEF calls
<1> QED
  BY <1>1, <1>2, FileInit, FileStep, PTL DEF Spec, ImplementsRegister, R!RegisterSpec
=============================================================================
