----------------------------- MODULE Containers -----------------------------
(***************************************************************************)
(* Several containers and what they share: the root directory, which list  *)
(* reads, and the sockets under /run/anocir, one per bundle.  Commands on  *)
(* one container exclude each other by its lock (Container), so a command  *)
(* shows only the steps at which others see its effect; a command that     *)
(* finds the lock taken ends at once and is left out.  A step may fail, or *)
(* its runtime be killed; that the cgroup cannot be made or removed is     *)
(* Container's business.                                                   *)
(***************************************************************************)
CONSTANTS
    Containers,     \* ids
    Bundles,        \* bundle directories
    None

ASSUME ContainersAssumption == None \notin Containers /\ None \notin Bundles

VARIABLES
    status,     \* per id: its directory and the status in its state.json
    bundle,     \* per id: State.Bundle, for as long as the caller uses it
    proc,       \* per id: the container's process
    sock,       \* per socket path: whose process listens there
    pc,         \* per id: the next step of the command that works on it
    peer,       \* per id: whose process start has connected to
    list,       \* the list command
    lasting,    \* history: the containers there since list read the directory
    recorded    \* history: per id, the statuses since then

vars == <<status, bundle, proc, sock, pc, peer, list, lasting, recorded>>
history == <<lasting, recorded>>

(* "none": no directory; "empty": no state.json in it.                     *)
Status == {"none", "empty", "creating", "created", "running", "stopped"}

(* The process waits for start, runs the user's program, or has ended;     *)
(* "none": no process was forked for the container that has the id now.    *)
Process == {"none", "waiting", "started", "dead"}

Labels ==
    {"idle", "mkdir", "save", "fork", "recvReady", "dial", "sendStart", "deleteCgroup",
     "rmdir", "rmsock"}

Entry == [id : Containers, status : Status]
List == [step : {"idle", "load", "getState", "done", "failed"},
         todo : SUBSET Containers, id : Containers \cup {None}, out : SUBSET Entry]
NoList == [step |-> "idle", todo |-> {}, id |-> None, out |-> {}]

TypeOK ==
    /\ status \in [Containers -> Status]
    /\ bundle \in [Containers -> Bundles \cup {None}]
    /\ proc \in [Containers -> Process]
    /\ sock \in [Bundles -> Containers \cup {None}]
    /\ pc \in [Containers -> Labels]
    /\ peer \in [Containers -> Containers \cup {None}]
    /\ list \in List
    /\ lasting \in SUBSET Containers
    /\ recorded \in [Containers -> SUBSET Status]

Init ==
    /\ status = [c \in Containers |-> "none"]
    /\ bundle = [c \in Containers |-> None]
    /\ proc = [c \in Containers |-> "none"]
    /\ sock = [b \in Bundles |-> None]
    /\ pc = [c \in Containers |-> "idle"]
    /\ peer = [c \in Containers |-> None]
    /\ list = NoList
    /\ lasting = {}
    /\ recorded = [c \in Containers |-> {}]

-----------------------------------------------------------------------------
Existing == {c \in Containers : status[c] # "none"}
Loadable(c) == status[c] \notin {"none", "empty"}

(* The pid is in state.json once the container is created.                 *)
isProcessDead(c) == proc[c] = "dead" /\ status[c] # "creating"

MutantContainerSockPath(b) == CHOOSE path \in Bundles : TRUE

(* The path of the socket is a hash of the bundle's, and of nothing else.  *)
containerSockPath(b) == b

Step(c, from, to) == pc[c] = from /\ pc' = [pc EXCEPT ![c] = to]

Record(c, s) == status' = [status EXCEPT ![c] = s]

Listen(c, owner) == sock' = [sock EXCEPT ![containerSockPath(bundle[c])] = owner]

(* Nobody listens where an ended process did.                              *)
End(c, p) ==
    /\ proc' = [proc EXCEPT ![c] = p]
    /\ sock' = [b \in Bundles |-> IF sock[b] = c THEN None ELSE sock[b]]

-----------------------------------------------------------------------------
(* create.                                                                 *)

(* A caller has one container at a time in a bundle, from before create to *)
(* the end of delete.                                                      *)
CallerAllows(b) == \A d \in Containers : bundle[d] # b

BeginCreate(c) ==
    /\ status[c] = "none"
    /\ Step(c, "idle", "mkdir")
    /\ \E b \in Bundles : CallerAllows(b) /\ bundle' = [bundle EXCEPT ![c] = b]
    /\ UNCHANGED <<status, proc, sock, peer, list>>

CreateContainerDirs(c) ==
    /\ Step(c, "mkdir", "save")
    /\ Record(c, "empty")
    /\ UNCHANGED <<bundle, proc, sock, peer, list>>

(* New and Init's first save.                                              *)
SaveCreating(c) ==
    /\ Step(c, "save", "fork")
    /\ Record(c, "creating")
    /\ UNCHANGED <<bundle, proc, sock, peer, list>>

(* Init removes the directory of the socket, makes it anew, listens and    *)
(* forks the process that inherits the listener.                           *)
Fork(c) ==
    /\ Step(c, "fork", "recvReady")
    /\ Listen(c, c)
    /\ proc' = [proc EXCEPT ![c] = "waiting"]
    /\ UNCHANGED <<status, bundle, peer, list>>

(* The process reported ready; it may have ended since.                    *)
RecvReady(c) ==
    /\ Step(c, "recvReady", "idle")
    /\ Record(c, "created")
    /\ UNCHANGED <<bundle, proc, sock, peer, list>>

-----------------------------------------------------------------------------
(* start.                                                                  *)

BeginStart(c) ==
    /\ status[c] = "created"
    /\ Step(c, "idle", "dial")
    /\ UNCHANGED <<status, bundle, proc, sock, peer, list>>

Dial(c) ==
    LET listener == sock[containerSockPath(bundle[c])]
    IN  /\ Step(c, "dial", IF listener = None THEN "idle" ELSE "sendStart")
        /\ peer' = [peer EXCEPT ![c] = listener]
        /\ UNCHANGED <<status, bundle, proc, sock, list>>

MutantSendStart(c) ==
    /\ Step(c, "sendStart", "idle")
    /\ peer' = [peer EXCEPT ![c] = None]
    /\ proc' = [proc EXCEPT ![peer[c]] = IF @ = "waiting" THEN "started" ELSE "reset"]
    /\ Record(c, "running")
    /\ UNCHANGED <<bundle, sock, list>>

(* From the start message to the saved status, or to where saving it fails *)
(* or the runtime is killed.  A process that ends before it answers closes *)
(* the connection, and start fails; one that runs its program already      *)
(* leaves start waiting.                                                   *)
SendStart(c) ==
    /\ Step(c, "sendStart", "idle")
    /\ peer' = [peer EXCEPT ![c] = None]
    /\ \/ /\ proc[peer[c]] = "waiting"
          /\ proc' = [proc EXCEPT ![peer[c]] = "started"]
          /\ Record(c, "running") \/ UNCHANGED status
       \/ proc[peer[c]] \in {"none", "dead"} /\ UNCHANGED <<proc, status>>
    /\ UNCHANGED <<bundle, sock, list>>

-----------------------------------------------------------------------------
(* delete, also by force.                                                  *)

(* From Load to where delete is allowed; that the process is dead is saved *)
(* if it can be.                                                           *)
BeginDelete(c) ==
    /\ Loadable(c)
    /\ Step(c, "idle", "deleteCgroup")
    /\ (isProcessDead(c) /\ Record(c, "stopped")) \/ UNCHANGED status
    /\ UNCHANGED <<bundle, proc, sock, peer, list>>

DeleteCgroup(c) ==
    /\ Step(c, "deleteCgroup", "rmdir")
    /\ End(c, IF proc[c] = "none" THEN "none" ELSE "dead")
    /\ UNCHANGED <<status, bundle, peer, list>>

RemoveDir(c) ==
    /\ Step(c, "rmdir", "rmsock")
    /\ Record(c, "none")
    /\ proc' = [proc EXCEPT ![c] = "none"]
    /\ UNCHANGED <<bundle, sock, peer, list>>

(* The directory of the socket, and delete returns: the caller may use the *)
(* bundle for another container.                                           *)
RemoveSocket(c) ==
    /\ Step(c, "rmsock", "idle")
    /\ Listen(c, None)
    /\ bundle' = [bundle EXCEPT ![c] = None]
    /\ UNCHANGED <<status, proc, peer, list>>

-----------------------------------------------------------------------------
(* The runtime is killed, or its next step fails.                          *)
Abort(c) ==
    /\ pc[c] # "idle"
    /\ pc' = [pc EXCEPT ![c] = "idle"]
    /\ peer' = [peer EXCEPT ![c] = None]
    /\ bundle' = [bundle EXCEPT ![c] = IF status[c] = "none" THEN None ELSE @]
    /\ UNCHANGED <<status, proc, sock, list>>

(* The container's process ends, by kill or on its own.                    *)
ProcessEnds(c) ==
    /\ proc[c] \in {"waiting", "started"}
    /\ End(c, "dead")
    /\ UNCHANGED <<status, bundle, pc, peer, list>>

-----------------------------------------------------------------------------
(* list: read the root directory, then Load and GetState of every entry.   *)

BeginList ==
    /\ list.step \in {"idle", "done", "failed"}
    /\ list' = [NoList EXCEPT !.step = IF Existing = {} THEN "done" ELSE "load",
                              !.todo = Existing]
    /\ lasting' = Existing
    /\ recorded' = [c \in Containers |-> {status[c]}]
    /\ UNCHANGED <<status, bundle, proc, sock, pc, peer>>

LoadEntry ==
    /\ list.step = "load"
    /\ \E c \in list.todo :
          list' = [list EXCEPT !.step = IF Loadable(c) THEN "getState" ELSE "failed", !.id = c]
    /\ UNCHANGED <<status, bundle, proc, sock, pc, peer>>

(* A command past its lock.  create locks when the directory is made.      *)
Locked(c) == pc[c] \notin {"idle", "mkdir"}

Listed(c, s) ==
    list' = [list EXCEPT !.step = IF list.todo = {c} THEN "done" ELSE "load",
                         !.todo = @ \ {c}, !.id = None,
                         !.out = @ \cup {[id |-> c, status |-> s]}]

MutantSkipsBusy(c) ==
    \/ /\ Locked(c) \/ ~Loadable(c)
       /\ list' = [list EXCEPT !.step = IF list.todo = {c} THEN "done" ELSE "load",
                               !.todo = @ \ {c}, !.id = None]
       /\ UNCHANGED status
    \/ /\ Loadable(c) /\ ~Locked(c)
       /\ Listed(c, status[c])
       /\ UNCHANGED status

MutantUnsaved(c) ==
    \/ /\ Locked(c) \/ ~Loadable(c)
       /\ list' = [list EXCEPT !.step = "failed"]
       /\ UNCHANGED status
    \/ /\ Loadable(c) /\ ~Locked(c)
       /\ Listed(c, IF isProcessDead(c) THEN "stopped" ELSE status[c])
       /\ UNCHANGED status

(* GetState, from Lock to Unlock.  Any error ends the listing.             *)
GetState(c) ==
    \/ /\ Locked(c) \/ ~Loadable(c)
       /\ list' = [list EXCEPT !.step = "failed"]
       /\ UNCHANGED status
    \/ /\ Loadable(c) /\ ~Locked(c) /\ isProcessDead(c)
       /\ Record(c, "stopped")
       /\ Listed(c, "stopped")
    \/ /\ Loadable(c) /\ ~Locked(c) /\ ~isProcessDead(c)
       /\ Listed(c, status[c])
       /\ UNCHANGED status

GetStateOfEntry ==
    /\ list.step = "getState"
    /\ GetState(list.id)
    /\ UNCHANGED <<bundle, proc, sock, pc, peer>>

-----------------------------------------------------------------------------
Observed ==
    /\ lasting' = {c \in lasting : status'[c] # "none"}
    /\ recorded' = [c \in Containers |-> recorded[c] \cup {status'[c]}]

Create(c) ==
    BeginCreate(c) \/ CreateContainerDirs(c) \/ SaveCreating(c) \/ Fork(c) \/ RecvReady(c)
Start(c) == BeginStart(c) \/ Dial(c) \/ SendStart(c)
Delete(c) == BeginDelete(c) \/ DeleteCgroup(c) \/ RemoveDir(c) \/ RemoveSocket(c)

Next ==
    \/ BeginList
    \/ /\ \/ LoadEntry \/ GetStateOfEntry
          \/ \E c \in Containers :
                Create(c) \/ Start(c) \/ Delete(c) \/ Abort(c) \/ ProcessEnds(c)
       /\ Observed

Spec == Init /\ [][Next]_vars

-----------------------------------------------------------------------------
(* Properties.                                                             *)

(* containerSockPath depends on the bundle only, and create and delete     *)
(* remove whatever is there: as long as a caller has one container at a    *)
(* time in a bundle, a created container whose process waits can be        *)
(* started, whatever is created, deleted or interrupted next to it, and    *)
(* start reaches that process and no other.                                *)
CreatedIsReachable ==
    \A c \in Containers :
        /\ status[c] = "created" /\ proc[c] = "waiting" =>
              sock[containerSockPath(bundle[c])] = c
        /\ peer[c] \in {None, c}

(* "List all containers": a listing that is printed leaves out no          *)
(* container that was there all the time, however commands on it and on    *)
(* others overlap; this is why an entry that is busy ends the listing.     *)
ListComplete ==
    list.step = "done" => lasting \subseteq {e.id : e \in list.out}

(* What a listing says of a container was recorded in its state.json while *)
(* list ran, "stopped" included, which GetState saves before it answers.   *)
ListTruthful ==
    list.step = "done" => \A e \in list.out : e.status \in recorded[e.id]

=============================================================================
