-------------------------- MODULE ContainersProofs --------------------------
(***************************************************************************)
(* Theorems about Containers, for every number of containers and bundles.  *)
(***************************************************************************)
EXTENDS Containers, TLAPS

-----------------------------------------------------------------------------
(* The steps of Next, one by one: those of a command on c, and list's.     *)

CommandStep(c) ==
    \/ BeginCreate(c) \/ CreateContainerDirs(c) \/ SaveCreating(c) \/ Fork(c) \/ RecvReady(c)
    \/ BeginStart(c) \/ Dial(c) \/ SendStart(c)
    \/ BeginDelete(c) \/ DeleteCgroup(c) \/ RemoveDir(c) \/ RemoveSocket(c)
    \/ Abort(c) \/ ProcessEnds(c)

-----------------------------------------------------------------------------
(* The parts of the inductive invariant.                                   *)

(* Two containers never have one bundle.                                   *)
BundlesApart ==
    \A c, d \in Containers : bundle[c] # None /\ bundle[c] = bundle[d] => c = d

(* A container that is there, or has a command at work, has its bundle.    *)
HasBundle ==
    \A c \in Containers : pc[c] # "idle" \/ status[c] # "none" => bundle[c] \in Bundles

(* What the next step tells of the directory and the process.              *)
StepsInv ==
    \A c \in Containers :
        /\ pc[c] \in {"mkdir", "rmsock"} => status[c] = "none"
        /\ pc[c] \in {"save", "fork"} => status[c] # "none" /\ proc[c] = "none"
        /\ pc[c] \in {"recvReady", "dial", "sendStart", "deleteCgroup", "rmdir"} =>
              status[c] # "none"
        /\ pc[c] = "rmdir" => proc[c] \in {"none", "dead"}
        /\ status[c] = "none" => proc[c] = "none"

(* A live process listens at its bundle's socket, and nobody else does.    *)
SocketInv ==
    /\ \A c \in Containers :
          proc[c] \in {"waiting", "started"} => sock[bundle[c]] = c
    /\ \A b \in Bundles : sock[b] # None =>
          bundle[sock[b]] = b /\ proc[sock[b]] \in {"waiting", "started"}

(* start is connected to its own container's process.                      *)
PeerInv ==
    \A c \in Containers : peer[c] = IF pc[c] = "sendStart" THEN c ELSE None

(* The entry list has loaded is one of those it has to load.               *)
LoadedInv == list.step = "getState" => list.id \in list.todo

(* What list has not printed yet is still to come, and what it has printed *)
(* was recorded.                                                           *)
ListInv ==
    /\ list.step \in {"load", "getState", "done"} =>
          lasting \subseteq list.todo \cup {e.id : e \in list.out}
    /\ list.step = "done" => list.todo = {}
    /\ \A e \in list.out : e.status \in recorded[e.id]

-----------------------------------------------------------------------------
(* Every step is one of list, or one of a command that leaves the history  *)
(* as Observed says.                                                       *)
LEMMA StepCases ==
    ASSUME [Next]_vars
    PROVE  \/ BeginList
           \/ LoadEntry /\ Observed
           \/ GetStateOfEntry /\ Observed
           \/ (\E c \in Containers : CommandStep(c)) /\ Observed
           \/ UNCHANGED vars
BY DEF Next, CommandStep, Create, Start, Delete

(* Commands leave list alone.                                              *)
LEMMA CommandKeepsList ==
    ASSUME NEW c \in Containers, CommandStep(c)
    PROVE  list' = list
BY DEF CommandStep, BeginCreate, CreateContainerDirs, SaveCreating, Fork, RecvReady, BeginStart,
       Dial, SendStart, BeginDelete, DeleteCgroup, RemoveDir, RemoveSocket, Abort, ProcessEnds

(* The variables that commands and processes change.                       *)
CommandTypes ==
    /\ status \in [Containers -> Status]
    /\ bundle \in [Containers -> Bundles \cup {None}]
    /\ proc \in [Containers -> Process]
    /\ sock \in [Bundles -> Containers \cup {None}]
    /\ pc \in [Containers -> Labels]
    /\ peer \in [Containers -> Containers \cup {None}]

(* They keep their types, action by action.                                *)
LEMMA CommandTypeStep ==
    ASSUME CommandTypes, HasBundle, NEW c \in Containers, CommandStep(c)
    PROVE  CommandTypes'
<1> USE DEF CommandTypes, Status, Process, Labels
<1>1. CASE BeginCreate(c)
  BY <1>1 DEF BeginCreate, CallerAllows, Step
<1>2. CASE CreateContainerDirs(c)
  BY <1>2 DEF CreateContainerDirs, Step, Record
<1>3. CASE SaveCreating(c)
  BY <1>3 DEF SaveCreating, Step, Record
<1>4. CASE Fork(c)
  BY <1>4 DEF Fork, Step, Listen, containerSockPath
<1>5. CASE RecvReady(c)
  BY <1>5 DEF RecvReady, Step, Record
<1>6. CASE BeginStart(c)
  BY <1>6 DEF BeginStart, Step
<1>7. CASE Dial(c)
  BY <1>7 DEF Dial, Step, containerSockPath, HasBundle
<1>8. CASE SendStart(c)
  BY <1>8 DEF SendStart, Step, Record
<1>9. CASE BeginDelete(c)
  BY <1>9 DEF BeginDelete, Step, Record, Loadable
<1>10. CASE DeleteCgroup(c)
  BY <1>10 DEF DeleteCgroup, Step, End
<1>11. CASE RemoveDir(c)
  BY <1>11 DEF RemoveDir, Step, Record
<1>12. CASE RemoveSocket(c)
  BY <1>12 DEF RemoveSocket, Step, Listen, containerSockPath
<1>13. CASE Abort(c)
  BY <1>13 DEF Abort
<1>14. CASE ProcessEnds(c)
  BY <1>14 DEF ProcessEnds, End
<1> QED
  BY <1>1, <1>2, <1>3, <1>4, <1>5, <1>6, <1>7, <1>8, <1>9, <1>10, <1>11, <1>12, <1>13, <1>14 DEF CommandStep

(* The types of all variables, under every step.                           *)
LEMMA TypeStep ==
    ASSUME TypeOK, HasBundle, LoadedInv, [Next]_vars
    PROVE  TypeOK'
<1>0. CASE UNCHANGED vars
  BY <1>0 DEF vars, TypeOK
<1>1. CASE BeginList
  <2>1. list' \in List
    BY <1>1 DEF BeginList, NoList, List, Existing
  <2>2. lasting' \subseteq Containers /\ recorded' \in [Containers -> SUBSET Status]
    BY <1>1 DEF BeginList, Existing, TypeOK
  <2> QED
    BY <1>1, <2>1, <2>2 DEF BeginList, TypeOK
<1>2. ASSUME LoadEntry, Observed
      PROVE  TypeOK'
  <2>1. PICK c \in list.todo :
            list' = [list EXCEPT !.step = IF Loadable(c) THEN "getState" ELSE "failed", !.id = c]
    BY <1>2 DEF LoadEntry
  <2>2. list' \in List
    BY <2>1 DEF List, TypeOK
  <2> QED
    BY <1>2, <2>2 DEF LoadEntry, Observed, TypeOK
<1>3. ASSUME GetStateOfEntry, Observed
      PROVE  TypeOK'
  <2> DEFINE c == list.id
  <2>1. c \in Containers
    BY <1>3 DEF GetStateOfEntry, LoadedInv, TypeOK, List
  <2>2. status' \in [Containers -> Status]
    BY <1>3, <2>1 DEF GetStateOfEntry, GetState, Record, Status, TypeOK
  <2>3. \/ list' = [list EXCEPT !.step = "failed"]
        \/ \E s \in Status : Listed(c, s)
    BY <1>3, <2>1 DEF GetStateOfEntry, GetState, Status, TypeOK
  <2>4. ASSUME NEW s \in Status, Listed(c, s)
        PROVE  list' \in List
    <3>1. [id |-> c, status |-> s] \in Entry
      BY <2>1 DEF Entry
    <3>2. list.out \cup {[id |-> c, status |-> s]} \in SUBSET Entry /\ list.todo \ {c} \in SUBSET Containers
      BY <3>1 DEF List, TypeOK
    <3> QED
      BY <2>4, <3>2 DEF Listed, List, TypeOK
  <2>5. ASSUME list' = [list EXCEPT !.step = "failed"]
        PROVE  list' \in List
    BY <2>5 DEF List, TypeOK
  <2>6. list' \in List
    BY <2>3, <2>4, <2>5
  <2> QED
    BY <1>3, <2>2, <2>6 DEF GetStateOfEntry, Observed, TypeOK
<1>4. ASSUME NEW c \in Containers, CommandStep(c), Observed
      PROVE  TypeOK'
  <2>1. CommandTypes'
    BY <1>4, CommandTypeStep DEF TypeOK, CommandTypes
  <2>2. lasting' \subseteq Containers /\ recorded' \in [Containers -> SUBSET Status]
    BY <1>4, <2>1 DEF Observed, CommandTypes, TypeOK
  <2> QED
    BY <1>4, <2>1, <2>2, CommandKeepsList DEF CommandTypes, TypeOK
<1> QED
  BY <1>0, <1>1, <1>2, <1>3, <1>4, StepCases

-----------------------------------------------------------------------------
(* Sockets.                                                                *)

Sockets == BundlesApart /\ HasBundle /\ StepsInv /\ SocketInv /\ PeerInv

(* No step of a command takes a socket away from a live process or         *)
(* connects start to another container's.                                  *)
LEMMA CommandSocketStep ==
    ASSUME TypeOK, Sockets, NEW c \in Containers, CommandStep(c)
    PROVE  Sockets'
<1>0. CommandTypes /\ CommandTypes'
  BY CommandTypeStep DEF TypeOK, CommandTypes, Sockets
<1> USE <1>0, ContainersAssumption
     DEF CommandTypes, Sockets, BundlesApart, HasBundle, StepsInv, SocketInv, PeerInv
<1>1. CASE BeginCreate(c)
  BY <1>1 DEF BeginCreate, CallerAllows, Step
<1>2. CASE CreateContainerDirs(c)
  BY <1>2 DEF CreateContainerDirs, Step, Record
<1>3. CASE SaveCreating(c)
  BY <1>3 DEF SaveCreating, Step, Record
<1>4. CASE Fork(c)
  BY <1>4 DEF Fork, Step, Listen, containerSockPath
<1>5. CASE RecvReady(c)
  BY <1>5 DEF RecvReady, Step, Record
<1>6. CASE BeginStart(c)
  BY <1>6 DEF BeginStart, Step
<1>7. CASE Dial(c)
  BY <1>7 DEF Dial, Step, containerSockPath, HasBundle
<1>8. CASE SendStart(c)
  BY <1>8 DEF SendStart, Step, Record
<1>9. CASE BeginDelete(c)
  BY <1>9 DEF BeginDelete, Step, Record, Loadable
<1>10. CASE DeleteCgroup(c)
  BY <1>10 DEF DeleteCgroup, Step, End
<1>11. CASE RemoveDir(c)
  BY <1>11 DEF RemoveDir, Step, Record
<1>12. CASE RemoveSocket(c)
  BY <1>12 DEF RemoveSocket, Step, Listen, containerSockPath
<1>13. CASE Abort(c)
  BY <1>13 DEF Abort
<1>14. CASE ProcessEnds(c)
  BY <1>14 DEF ProcessEnds, End
<1> QED
  BY <1>1, <1>2, <1>3, <1>4, <1>5, <1>6, <1>7, <1>8, <1>9, <1>10, <1>11, <1>12, <1>13, <1>14 DEF CommandStep

(* list writes no more than "stopped" over the status of a container.      *)
LEMMA ListSocketStep ==
    ASSUME TypeOK, Sockets, LoadedInv, BeginList \/ LoadEntry \/ GetStateOfEntry
    PROVE  Sockets'
<1> USE DEF Sockets, BundlesApart, HasBundle, StepsInv, SocketInv, PeerInv
<1>1. CASE BeginList
  BY <1>1 DEF BeginList
<1>2. CASE LoadEntry
  <2>1. UNCHANGED <<status, bundle, proc, sock, pc, peer>>
    BY <1>2 DEF LoadEntry
  <2> QED
    BY <2>1
<1>3. CASE GetStateOfEntry
  <2>1. list.id \in Containers
    BY <1>3 DEF GetStateOfEntry, LoadedInv, TypeOK, List
  <2>2. \/ UNCHANGED status
        \/ status[list.id] # "none" /\ status' = [status EXCEPT ![list.id] = "stopped"]
    BY <1>3 DEF GetStateOfEntry, GetState, Record, Loadable
  <2>3. \A d \in Containers : status'[d] = "none" <=> status[d] = "none"
    BY <2>1, <2>2 DEF TypeOK
  <2> QED
    BY <1>3, <2>3 DEF GetStateOfEntry
<1> QED
  BY <1>1, <1>2, <1>3

(* Only LoadEntry takes list to GetState.                                  *)
LEMMA LoadedStep ==
    ASSUME TypeOK, LoadedInv, [Next]_vars
    PROVE  LoadedInv'
<1> USE DEF LoadedInv
<1>0. CASE UNCHANGED vars
  BY <1>0 DEF vars
<1>1. CASE BeginList
  BY <1>1 DEF BeginList, NoList
<1>2. CASE LoadEntry
  BY <1>2 DEF LoadEntry, TypeOK, List
<1>3. CASE GetStateOfEntry
  BY <1>3 DEF GetStateOfEntry, GetState, Listed, TypeOK, List
<1>4. ASSUME NEW c \in Containers, CommandStep(c)
      PROVE  LoadedInv'
  BY <1>4, CommandKeepsList
<1> QED
  BY <1>0, <1>1, <1>2, <1>3, <1>4, StepCases

(* The inductive invariant.                                                *)
Inv == TypeOK /\ Sockets /\ LoadedInv

(* The parts together are inductive.                                       *)
THEOREM Invariance == Spec => []Inv
<1>1. Init => Inv
  <2> SUFFICES ASSUME Init PROVE Inv
    OBVIOUS
  <2>1. TypeOK
    BY DEF Init, TypeOK, Status, Process, Labels, List, NoList
  <2>2. Sockets
    BY DEF Init, Sockets, BundlesApart, HasBundle, StepsInv, SocketInv, PeerInv
  <2>3. LoadedInv
    BY DEF Init, LoadedInv, NoList
  <2> QED
    BY <2>1, <2>2, <2>3 DEF Inv
<1>2. Inv /\ [Next]_vars => Inv'
  <2> SUFFICES ASSUME Inv, [Next]_vars PROVE Inv'
    OBVIOUS
  <2>1. TypeOK'
    BY TypeStep DEF Inv, Sockets
  <2>2. Sockets'
    <3>1. CASE UNCHANGED vars
      BY <3>1 DEF vars, Inv, Sockets, BundlesApart, HasBundle, StepsInv, SocketInv, PeerInv
    <3> QED
      BY <3>1, StepCases, ListSocketStep, CommandSocketStep DEF Inv
  <2>3. LoadedInv'
    BY LoadedStep DEF Inv
  <2> QED
    BY <2>1, <2>2, <2>3 DEF Inv
<1> QED
  BY <1>1, <1>2, PTL DEF Spec

(* The state keeps its types under any overlap of commands, failures and   *)
(* listings.                                                               *)
THEOREM ContainersTypeCorrect == Spec => []TypeOK
<1>1. Inv => TypeOK
  BY DEF Inv
<1> QED
  BY <1>1, Invariance, PTL

(* The socket of a bundle is the created container's for as long as it     *)
(* waits, and start reaches no other container's process.                  *)
THEOREM Reachable == Spec => []CreatedIsReachable
<1>1. Inv => CreatedIsReachable
  BY DEF Inv, TypeOK, Sockets, SocketInv, PeerInv, CreatedIsReachable, containerSockPath
<1> QED
  BY <1>1, Invariance, PTL

-----------------------------------------------------------------------------
(* Listings.                                                               *)

(* The history follows the status.                                         *)
LEMMA ObservedFacts ==
    ASSUME TypeOK, Observed
    PROVE  /\ lasting' \subseteq lasting
           /\ \A c \in Containers : recorded[c] \subseteq recorded'[c] /\ status'[c] \in recorded'[c]
BY DEF TypeOK, Observed

(* Each step of a command or of list keeps the account of the listing.     *)
LEMMA ListStep ==
    ASSUME Inv, ListInv, [Next]_vars
    PROVE  ListInv'
<1> USE DEF ListInv
<1>0. CASE UNCHANGED vars
  BY <1>0 DEF vars
<1>1. CASE BeginList
  BY <1>1 DEF BeginList, NoList
<1>2. ASSUME Observed, list' = list
      PROVE  ListInv'
  BY <1>2, ObservedFacts DEF Inv, TypeOK, List, Entry
<1>3. ASSUME LoadEntry, Observed
      PROVE  ListInv'
  <2>1. /\ list'.todo = list.todo /\ list'.out = list.out
        /\ list'.step \in {"getState", "failed"} /\ list.step = "load"
    BY <1>3 DEF LoadEntry, Inv, TypeOK, List
  <2> QED
    BY <1>3, <2>1, ObservedFacts DEF Inv, TypeOK, List, Entry
<1>4. ASSUME GetStateOfEntry, Observed
      PROVE  ListInv'
  <2> DEFINE c == list.id
  <2>1. c \in Containers /\ c \in list.todo /\ list.step = "getState"
    BY <1>4 DEF GetStateOfEntry, Inv, LoadedInv, TypeOK, List
  <2>2. \/ list' = [list EXCEPT !.step = "failed"]
        \/ \E s \in Status : Listed(c, s) /\ s = status'[c]
    BY <1>4, <2>1 DEF GetStateOfEntry, GetState, Record, Status, Inv, TypeOK
  <2>3. ASSUME list' = [list EXCEPT !.step = "failed"]
        PROVE  ListInv'
    BY <1>4, <2>3, ObservedFacts DEF Inv, TypeOK, List, Entry
  <2>4. ASSUME NEW s \in Status, Listed(c, s), s = status'[c]
        PROVE  ListInv'
    <3> DEFINE e == [id |-> c, status |-> s]
    <3>1. /\ list'.todo = list.todo \ {c}
          /\ list'.out = list.out \cup {e}
          /\ list'.step = IF list.todo = {c} THEN "done" ELSE "load"
      BY <2>4 DEF Listed, Inv, TypeOK, List
    <3>2. e.id = c /\ e.status \in recorded'[c]
      BY <1>4, <2>1, <2>4, ObservedFacts DEF Inv
    <3>3. lasting \subseteq list.todo \cup {f.id : f \in list.out}
      BY <2>1
    <3>4. lasting' \subseteq list'.todo \cup {f.id : f \in list'.out}
      <4> SUFFICES ASSUME NEW d \in lasting', d # c
                   PROVE  d \in list'.todo \/ \E f \in list'.out : f.id = d
        BY <3>1, <3>2
      <4>1. d \in list.todo \/ \E f \in list.out : f.id = d
        BY <1>4, <3>3, ObservedFacts DEF Inv
      <4> QED
        BY <3>1, <4>1
    <3>5. \A f \in list'.out : f.status \in recorded'[f.id]
      BY <1>4, <3>1, <3>2, ObservedFacts DEF Inv, TypeOK, List, Entry
    <3> QED
      BY <3>1, <3>4, <3>5
  <2> QED
    BY <2>2, <2>3, <2>4
<1>5. ASSUME NEW c \in Containers, CommandStep(c), Observed
      PROVE  ListInv'
  BY <1>2, <1>5, CommandKeepsList
<1> QED
  BY <1>0, <1>1, <1>3, <1>4, <1>5, StepCases

(* What a listing has done and has still to do, at any time.               *)
THEOREM ListInvariance == Spec => []ListInv
<1>1. Init => ListInv
  BY DEF Init, ListInv, NoList
<1>2. Inv /\ ListInv /\ [Next]_vars => ListInv'
  BY ListStep
<1> QED
  BY <1>1, <1>2, Invariance, PTL DEF Spec

(* A listing that is printed leaves out no container that was there from   *)
(* the reading of the directory to its end.                                *)
THEOREM Complete == Spec => []ListComplete
<1>1. ListInv => ListComplete
  BY DEF ListInv, ListComplete
<1> QED
  BY <1>1, ListInvariance, PTL

(* A listing that is printed says of each container what was recorded of   *)
(* it during the listing.                                                  *)
THEOREM Truthful == Spec => []ListTruthful
<1>1. ListInv => ListTruthful
  BY DEF ListInv, ListTruthful
<1> QED
  BY <1>1, ListInvariance, PTL

=============================================================================
