------------------------------ MODULE StateDir ------------------------------
(***************************************************************************)
(* The state directory of one container: <root>/<id>, with the state file  *)
(* state.json and the lock file c.lock that every command of the runtime   *)
(* locks with flock(2) while it works on the container.                    *)
(*                                                                         *)
(* A runtime is one invocation of the anocir binary.  flock locks an open  *)
(* file, not a path, so the model tells the lock file's inodes apart: a    *)
(* runtime that opened c.lock before it was unlinked holds a lock on an    *)
(* inode nobody else can reach any more.                                   *)
(***************************************************************************)
EXTENDS Naturals, FiniteSets

CONSTANTS
    Runtimes,   \* invocations of the runtime that may overlap
    Inodes,     \* inodes the lock file may get
    Pids,       \* process ids
    None        \* no inode, no pid, no runtime

ASSUME StateDirAssumption ==
    /\ None \notin Runtimes
    /\ None \notin Inodes
    /\ None \notin Pids
    /\ IsFiniteSet(Runtimes)
    /\ IsFiniteSet(Inodes)
    /\ Cardinality(Inodes) > Cardinality(Runtimes)

VARIABLES
    dir,        \* the container directory exists
    stateFile,  \* contents of state.json: status and pid; NoState if missing
    lockInode,  \* inode c.lock names, None if there is no such file
    fd,         \* per runtime, the inode of its open lock file
    locked      \* runtimes whose open lock file is flocked

dirVars == <<dir, stateFile, lockInode>>
lockVars == <<fd, locked>>

-----------------------------------------------------------------------------
(* The statuses state.json records; "none" stands for no state file.       *)
Status == {"none", "creating", "created", "running", "paused", "stopped"}

(* What the model keeps of specs.State.                                    *)
State == [status : Status, pid : Pids \cup {None}]

NoState == [status |-> "none", pid |-> None]

Entries == {"state.json", "c.lock"}

StateDirTypeOK ==
    /\ dir \in BOOLEAN
    /\ stateFile \in State
    /\ lockInode \in Inodes \cup {None}
    /\ fd \in [Runtimes -> Inodes \cup {None}]
    /\ locked \in SUBSET Runtimes

StateDirInit ==
    /\ dir = FALSE
    /\ stateFile = NoState
    /\ lockInode = None
    /\ fd = [r \in Runtimes |-> None]
    /\ locked = {}

-----------------------------------------------------------------------------
(* Exists: stat of the container directory.                                *)
Exists == dir

(* Load and reloadState find a state file to read.                         *)
Loadable == stateFile # NoState

(* json.Unmarshal into the State a command already has: the pid is left    *)
(* out of the file when it is zero, and then the old one stays.            *)
Unmarshalled(old) ==
    [stateFile EXCEPT !.pid = IF @ = None THEN old.pid ELSE @]

(* createContainerDirs, when os.Mkdir finds no directory.                  *)
Mkdir ==
    /\ ~dir
    /\ dir' = TRUE
    /\ UNCHANGED <<stateFile, lockInode>>

(* Inodes nothing refers to: the kernel may hand out any of them.          *)
FreeInodes == {i \in Inodes : i # lockInode /\ \A r \in Runtimes : fd[r] # i}

(* The first half of Lock: open c.lock, creating it if it is missing.      *)
OpenLockFile(r) ==
    /\ dir
    /\ \/ /\ lockInode # None
          /\ fd' = [fd EXCEPT ![r] = lockInode]
          /\ UNCHANGED lockInode
       \/ /\ lockInode = None
          /\ \E i \in FreeInodes : /\ lockInode' = i
                                   /\ fd' = [fd EXCEPT ![r] = i]
    /\ UNCHANGED <<dir, stateFile, locked>>

MutantWouldBlock(r) == FALSE

(* flock(LOCK_EX|LOCK_NB) fails: another open file holds the inode's lock. *)
WouldBlock(r) == \E s \in locked : s # r /\ fd[s] = fd[r]

(* The second half of Lock.                                                *)
Flock(r) ==
    /\ ~WouldBlock(r)
    /\ locked' = locked \cup {r}
    /\ UNCHANGED <<fd, dirVars>>

(* Unlock, or the kernel closing the descriptors of a runtime that exits.  *)
Unlock(r) ==
    /\ locked' = locked \ {r}
    /\ fd' = [fd EXCEPT ![r] = None]

(* AtomicWriteFile of state.json; it needs the directory.                  *)
WriteState(s) ==
    /\ dir
    /\ stateFile' = s
    /\ UNCHANGED <<dir, lockInode>>

(* What os.RemoveAll finds when it lists the directory.                    *)
Listing == {e \in Entries : \/ e = "state.json" /\ stateFile # NoState
                            \/ e = "c.lock" /\ lockInode # None}

(* os.RemoveAll unlinks one of the names it listed.                        *)
Unlink(e) ==
    /\ stateFile' = IF e = "state.json" THEN NoState ELSE stateFile
    /\ lockInode' = IF e = "c.lock" THEN None ELSE lockInode
    /\ UNCHANGED dir

(* The last step of os.RemoveAll: rmdir succeeds on an empty directory and *)
(* is satisfied with a missing one.                                        *)
Rmdir ==
    /\ Listing = {}
    /\ dir' = FALSE
    /\ UNCHANGED <<stateFile, lockInode>>

=============================================================================
