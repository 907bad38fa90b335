# A TLA+ model of anocir

anocir is an OCI container runtime: a single binary that a container manager
(containerd's shim, Docker, a user) invokes once per operation. There is no
daemon. What the invocations share lives in the file system (one directory per
container), in the kernel (processes, a cgroup, sockets), and in the container's
own first process, which is the same binary re-executed.

That makes the interesting behaviour a protocol among short-lived processes that
do not know each other: any of them may overlap with any other, fail at any step,
or be killed between two steps, and the next one has to make sense of what it
finds. The modules here describe that protocol from the source
(`internal/container`, `internal/oci`, `internal/platform`), TLC checks it on
small instances, and TLAPS proves most of its safety properties for every
instance.

## Inventory of the system

| part | state | operations | hard because |
|---|---|---|---|
| lifecycle commands (`container.go`, `oci/*.go`) | the State each invocation holds in memory | create, start, state, kill, delete, pause, resume | they overlap, fail and are killed; they load before they lock |
| state directory (`container.go`, `load.go`, `oci/create.go`) | `<root>/<id>/`, `state.json`, `c.lock` | Exists, Load, Lock, reloadState, save, Unlock, RemoveAll | the lock file lives in the directory that delete removes |
| container process (`Reexec`, `setup_*_pivot.go`, `ipc`) | its position in Reexec, two channels | PrePivot, Ready, InvalidExecutable, Start, ExecReady | two processes wait for each other's messages; either may die |
| atomic writes (`platform/atomic.go`) | a target and temporary files | AtomicWriteFile | failing system calls, a killed writer, concurrent writers |
| cgroup (`platform/cgroups.go`) | members, freezer | CreateCgroup, DeleteCgroup, FreezeCgroup, ThawCgroup, GetCgroupProcesses, UpdateCgroup | it is how delete finds the processes, and it is made after the fork |
| hooks (`lifecycle.go`, `hooks`) | a process and its pipes | six phases, ExecHooks | they run with the lock held, fail or hang; timeouts race exits |
| exec (`exec.go`, `childexec.go`, `nssetup.c`) | none | joins a running container | uses the pid after the lock is released |
| list, ps, update | none | read several containers or a cgroup | the same; containers come and go meanwhile |
| namespaces (`configureNamespaces`, `namespace.go`, `nssetup.c`) | the namespaces of one process | made by the fork, entered by the runtime, joined by the process | three places, in the order of the configuration |
| root filesystem, mounts, devices (`rootfs.go`, `mounts.go`, `pivot_root.go`, ...) | the mount table of container and host | some fifteen steps before and after the pivot | steps undo or expose each other's effect, mounts propagate |
| process security, limits, terminal | kernel state of one process | set up once, in order | long sequences that fail in the middle |
| signals, validation, features, logging, flags | none | pure functions and output | – |

The commands interact in four ways. They all read and replace `state.json` under
`flock` on `c.lock`. `create` forks the container process and waits on a
socketpair for two messages. `start` connects to the unix socket the container
process listens on, sends one message and waits for one. `kill`, `pause`,
`resume` and `delete` act on the process or its cgroup through the kernel.

What makes the parts correct:

- *state directory*: the lock excludes; an id that exists can be loaded.
- *commands*: the recorded status follows the life cycle of the OCI
  specification and is never ahead of the process; commands return; nothing of a
  container outlives its delete; the freezer agrees with the status.
- *container process*: the process that answers a start is the recorded one and
  is still the runtime's.
- *exec*: a program runs in all of the container's namespaces or not at all, and
  ends with the container.
- *process security*: the program gets the privileges of its configuration, no
  more; giving them up in order never fails for want of one already given up.
- *namespaces*: the process is in the namespaces asked for or does not go on.
- *root filesystem*: the host's mounts stay as they are, no order of steps makes
  the kernel refuse one, and the program finds what its configuration says:
  masked, read-only, a complete `/dev`, nothing of the host's tree.
- *hooks*: one at a time, the program only after all of them succeeded, and a
  timeout that is one.
- *several containers*: one container's commands do not disturb another's; a
  listing is complete and true.
- *atomic writes*: readers see whole values; success means the file changed.

## Modules

| module | models | extends |
|---|---|---|
| `StateDir` | the container directory, `state.json`, the lock file and its inodes | – |
| `InitProcess` | Reexec, the two channels, process table, cgroup | `StateDir` |
| `Container` | the seven commands, composed with the two above; the properties | `InitProcess` |
| `Lifecycle` | abstract: how the recorded status may change | – |
| `MCContainer` | instances of `Container` for TLC | `Container` |
| `ContainerProofs` | theorems about `Container`: types, the lock, the recorded status, the life cycle | `Container`, `TLAPS` |
| `TidyProofs` | theorems about what `Container` leaves behind, by the failures that may occur | `ContainerProofs` |
| `Exec` | exec, its child and nssetup, beside all of `Container` | `Container` |
| `MCExec` | instance of `Exec` for TLC | `Exec` |
| `ExecProofs` | theorems about `Exec`, which implements `Container` | `Exec`, `TidyProofs` |
| `ProcessSecurity` | ApplyProcessSecurity and the kernel's capability rules | – |
| `MCProcessSecurity` | instance of `ProcessSecurity` for TLC | `ProcessSecurity` |
| `SecurityProofs` | theorems about `ProcessSecurity` | `ProcessSecurity`, `TLAPS` |
| `MountTree` | the kernel's mount table: lookup, propagation, bind, detach, pivot | – |
| `RootFS` | the container's file system, from MountRootfs to MountRootReadonly | `MountTree` |
| `Hooks` | ExecHooks and the hook's process | – |
| `Namespaces` | configureNamespaces, the fork, nssetup | – |
| `Setup` | the container's process from its fork to the program; the properties | `RootFS`, `Hooks`, `Namespaces` |
| `MCSetup` | configurations and hosts for TLC | `Setup` |
| `MountTreeProofs` | lemmas about the operators of `MountTree` | `MountTree`, `TLAPS` |
| `SetupProofs` | theorems about `Setup`: types, hooks, namespaces, the host's mounts, the old root, protected paths, refusals, the container's `/dev` | `Setup`, `MountTreeProofs` |
| `Containers` | several containers, their sockets, list; the properties | – |
| `MCContainers` | instance of `Containers` for TLC | `Containers` |
| `ContainersProofs` | theorems about `Containers` | `Containers`, `TLAPS` |
| `AtomicFile` | AtomicWriteFile, one action per system call | – |
| `AtomicRegister` | abstract: a register written by calls | – |
| `MCAtomicFile` | instance of `AtomicFile` for TLC | `AtomicFile` |
| `AtomicFileProofs` | theorems about `AtomicFile` | `AtomicFile`, `TLAPS` |

### StateDir, InitProcess, Container

`Runtimes` are invocations of the binary. Each has a program counter `pc`, the
command `op` it runs, and its `Container.State` in `st`. A step is one access to
something shared together with the local work around it, so every interleaving
that another process can observe is a behaviour of the model. Each `return` of
the Go code, with or without an error, leads to the label `return`, where the
deferred calls release the lock and the process ends (`End`); `Crash` is the
same from any other label.

The opening of each command is three steps, as in the code: `Load` (reads
`state.json` without the lock), `Open` and `Lock` (the two system calls of
`Lock`), `Reload`. What `Reload` does is `json.Unmarshal` *into* the State that
`Load` filled: `specs.State.Pid` is left out of the file when it is zero, so an
absent pid keeps the old one (`Unmarshalled`).

The lock file is modelled by its inodes because `flock` locks an open file:
`OpenLockFile` creates a new inode when the name is gone, and `os.RemoveAll`
removes the names it has *listed*, one by one and in any order, then the
directory, which fails when a name appeared meanwhile.

The container process goes through the phases in `SettingUp`, `Waiting` and
`Starting`, each named for the step it takes next, and becomes `user`. Of the
container socket the model keeps who listens at its path (`sock`), the first
connection of each listener (`conn`: Reexec accepts one) and where each
runtime's connection leads (`peer`). The user's program inherits the listening
descriptor, so later connections are queued and never answered as long as it
runs. A dead process is a zombie until `Reap`; `create` never waits for its
child, so that is possible only when create has exited. `Foreign` gives a free pid
to some process of the host.

Failures are chosen by the constant `Faults`: a step whose name is in it may
return an error. `CreateCgroup` may fail before or after the process has joined:
`cgroup2.NewSystemd` starts the scope with the pid, and `manager.Update` follows.

Whether the bundle has a process is the variable `hasProcess`, which never
changes; the constant `Bundles` says which of the two a run looks at. Without a
process `start` records `stopped` at once.

`SerialDelete` says whether the caller keeps delete from overlapping with other
commands. containerd's shim serialises the operations of a container; a user at
a shell need not.

What is abstracted: `Container.State` to status and pid; the pid file, whose
write is the end of create's last `save`, after which success and failure
continue alike (no command sets the path after a `Load`, so Delete's branch that
removes the file cannot be reached); a signal to whether it ends its target;
mounts, namespaces, terminal, process security (see below) to one step each
that may fail; hooks to whether their phase fails. `Setup` and `ProcessSecurity`
open these steps up.

### AtomicFile

One action per system call of `AtomicWriteFile`, each of which may fail, with
`Kill` between any two. A file has a value and a flag that says whether all of it
is there. The deferred clean-up is `Stat` and `Remove`: it removes whatever is at
the temporary name. `os.CreateTemp` draws random names until one is free; the
model draws a name that neither exists nor belongs to a call still running.

### Exec

`exec` is the `state` command followed by steps that hold no lock: `ExecGetState`
takes over where `GetState` returns and remembers the pid. From then on the
parent (`JoinNamespace` for each entry of `namespaces`, `CheckExecutable`,
`ForkExec`, `Wait4`) and its child (`OpenRoot`, `Join`, `Chroot`, `ChildExec`)
depend only on whether `/proc/<pid>` still shows the container's process, while
`ContainerStep` lets every command and the process itself go on. `own` is the set
of namespaces the container does not share with the host, the outcome of
`sharedNamespace`.

Kernel rules that the code relies on and the model states: the pid and time
namespaces are entered for children; a pid namespace dies with its first process
and takes no new ones; a path under `/proc` means another process once the mount
namespace is joined; of a zombie's links some may still resolve. The user
namespace is not joined (the code only sets credentials), and the process of an
exec is not in the container's cgroup; that it ends with the container all the
same is due to the pid namespace (`ExecEndsWithContainer`), and is claimed only
for containers that have one. A pid that an exec holds is not recycled during it;
nothing in the code would notice (`ExecAssumption`).

### ProcessSecurity

A sequential machine whose state is the thread's credentials. Each step makes
the calls of one function of `internal/platform` and either takes effect or ends
in `failed`, by the kernel's rule for that call. `Caps` is what the kernel has,
`Known` the table in `capabilities.go`; neither includes the other, since a
kernel may be newer or older than the table. `resolveCaps` handles `ALL` and
unknown names; when the bounding list names `ALL`, all the sets are the whole
table whatever the other lists say (`isPrivileged`), and `Wanted` follows the
code in that. A seccomp profile is the set of the calls made here that it denies:
when it is loaded first, it may stop the steps that follow. `exec` gives only the
bounding list, which is why an empty list and no list differ there.

### Setup: Namespaces, MountTree, RootFS, Hooks

One process runs from the fork to the user's program, so `Setup` is mostly a
sequence; what is hard is that the steps share a mount table with the host and
that each relies on what the others left. A configuration (`conf`, chosen in
`Init` from `Configs`) holds the host it meets and the parts of `config.json`
that decide something.

`MountTree` is the external part: mounts with a parent, a place, a peer group
and a master; path lookup; `Attach` with propagation to peers and slaves;
`Bind`, `Detach`, `Pivot` and the copy that `CLONE_NEWNS` makes. It is written
from what the code relies on in mount(2), umount(2), pivot_root(2) and
mount_namespaces(7). What is repeated until nothing changes (lookup through
mounts over mounts, the tree below a mount) is a recursive function over as many
rounds as the table has mounts, so that it can be proved about. `RootFS` has one
action per function of
`internal/platform`, in the order of `setupPrePivot`, `Reexec` and
`setupPostPivot`. A step that the kernel would refuse leads to `refused`, and any
step may fail (`Fails`). `PivotRoot` in the code opens `/` before the pivot and
goes back to that descriptor; `umount(".")` then takes what is mounted topmost
there, so `DetachOldRoot` is about the mount `OldRoot`, the copy of the host's
root, and `DetachedMount`. Masked and read-only paths are mounted one per step.
Of the six default devices `/dev/null` stands for all,
of the five links `dev/ptmx`, of the flags that only restrict a mount `nosuid`;
data options, modes and owners are left out.

`Namespaces` goes through the list of the configuration in its order. A type
without a path becomes a flag of the fork; a pid namespace with a path is entered
by the runtime, for its children; the others go into the list that `nssetup`
joins in the forked process. Kernel rules stated: id mappings can only be written
for a new user namespace; in a new user namespace nothing made outside it can be
joined; after the mount namespace is joined a path may name something else. A
mount namespace that is joined is taken to be a copy of the host's.

`Hooks` is `ExecHooks`: LookPath, start, the process with its exit, the timer and
the pipes. `cmd.Run` returns when the process was waited for *and* nobody holds
the pipes; a descendant of the hook may. The timeout kills the hook's own process
and has no effect once it was waited for. The same code runs in the runtime for
the other four phases, with the lock held; `Container` has their place and their
outcome.

### Containers

What containers share: the root directory and the sockets, whose path is a hash
of the *bundle*. Within one container the lock orders commands (proved for
`Container`), so a command shows here only the steps that others can see, each of
which may be its last (`Abort`). The caller uses a bundle for one container at a
time, from before `create` until `delete` has returned; with two containers in
one bundle the second create removes the first one's socket and the first can
never be started. `list` reads the directory, then loads and asks each entry, in
any order; `lasting` and `recorded` are history that only the properties read. A
dead process is one that was waited for.

## Runs

The instances have two runtimes, three inodes (one more than runtimes, so that a
new inode is always available, which `StateDirAssumption` states) and two pids
(one container can be left behind while another is made); each invocation may be
followed by any number of others, so `create`, crash, `delete`, `create` again
and the like are all explored. Two invocations suffice for every pairwise race
over the directory, the lock and the socket; that three would show nothing new is
proved for the lock (below) and assumed for the rest. Runtimes, inodes and pids
are interchangeable, so the safety runs use symmetry. The liveness runs do not,
and use one pid. No run needs a state constraint: messages, connections and
inodes are bounded by the system itself.

| run | admits | checks |
|---|---|---|
| `crash` | crashes at any step, failing saves, recycled pids | `TypeOK`, `ExclusiveLock`, `StartReachesInit`, `LifecycleSpec` |
| `step_failures` | every failing step but `save`, no crash | `CreatedIsReady`, `RunningIsInitialised`, `StoppedIsDead` |
| `tidy` | bundles with and without a process, failures the code cleans up after | `PoststopAfterDeath`, `StartTalksToRuntime`, `FrozenIffPaused`, `ExistsMeansLoadable`, `LifecycleSpec` |
| `liveness` | failures that are reported | `CommandsReturn` |
| `atomic_file` | failing calls, killed writers | `TypeOK`, `NeverTorn`, `ImplementsRegister` |
| `exec` | one exec beside one runtime and two pids, failures of the process | `ExecTypeOK`, `ExecConfined`, `ExecEndsWithContainer`, `JoinsWhileAlive` |
| `security` | all combinations of user, five lists, profile and flag on three hosts | `TypeOK`, `WithinRequest`, `FilterAsRequested`, `GrantableIsGranted` |
| `setup` | every failure, five families of configurations | `TypeOK`, `HostKept`, `HostUnchanged`, `NeverRefused`, `OldRootGone`, `PathsProtected`, `DevComplete`, `ProgramAfterHooks`, `NoHookLeft`, `NamespacesAsAsked`, `HostnameIsOwn`, `PhasesEnd` |
| `containers` | two containers and two bundles, failures and kills at any step, one listing after another | `TypeOK`, `CreatedIsReachable`, `ListComplete`, `ListTruthful` |

`exec` needs only one runtime: the commands that change what an exec depends on
are serialised by the lock, and execs do not depend on each other. Its failures
are the ones after which delete still finds the process (see the orphan below).
`security` uses six kernel capabilities, the four that the calls need, one
ordinary and one the table lacks.

`setup` does not multiply everything with everything: the families of `MCSetup`
vary what interacts. `PropagationConfigs`: the nine propagations of the root on
hosts with shared and private mounts, where the image is a mount or a directory
and has a mount inside or not. `ViewConfigs`: mounts of the configuration (tmpfs
and bind, recursive and not, one over another), masked and read-only paths,
devices, sysctls, terminal, read-only root, with and without a mount namespace.
`NoProcessConfigs`. `HookConfigs`: lists of up to two hooks of each kind in both
phases. `NamespaceConfigs`: all lists of two types and, for the five types with
rules of their own, of three, each made or joined, in every order. `containers`
is small because its properties are also proved for any number (below); two
containers suffice for one to reuse the bundle of the other, and for a listing in
which one entry changes while the other is printed.

`LifecycleSpec` is a refinement: `Container` implements `Lifecycle` with the
recorded status and the phase of the recorded process. It says that the status
only takes the edges none, creating, created, running, paused, stopped, none (or
none from anywhere, by a forced delete), that `created` is entered when the
process has left its setup, `running` when it has left the runtime, `stopped`
when it is dead, and that none of it depends on overlap, failure or crash.

Three runs show where the code and what it says of itself part; each is a finding
in `PROJECT.json` with the quoted line.

| run | shows |
|---|---|
| `concurrent_delete` | a delete that overlaps other commands removes the lock file from under them; two commands hold "the" lock |
| `create_hang` | create holds both ends of the socketpair, so a child that dies before Ready leaves it waiting, lock held |
| `ro_bind` | `ro` on a bind mount has no effect: mount(2) ignores it with MS_BIND and nothing remounts |

More that the model shows and no run of its own records:

- *wedged id*: a bundle that `New` refuses (`container.go:93`) leaves the
  directory `create` made, so the id "exists" for create and "does not exist" for
  delete. `ExistsMeansLoadable` fails when the fault `new` is admitted.
- *orphan*: a failing `CreateCgroup` (`container.go:594`) leaves a forked process
  that no later command knows of. `PoststopAfterDeath` fails with that fault.
- kill signals the recorded pid without asking whose it is by now
  (`container.go:448`), and a start whose save fails can be retried while the
  user's program runs (`container.go:373`; `StartTalksToRuntime` is therefore
  checked without failing saves).
- `listCmd` fails as a whole when one entry is busy, wedged or just deleted
  (`list.go:41`); that is what makes `ListComplete` hold.
- A joined mount namespace listed before others makes their paths mean something
  else (`nssetup.c:76`); `NamespacesAsAsked` leaves those entries out.
- A user namespace cannot be joined: the mappings are set for it as for a new one
  (`container.go:885`) and cannot be written. With a new one nothing else can be
  joined but a pid namespace. `timeOffsets` are written for the runtime's own
  time namespace (`container.go:902`), which the kernel refuses.
- `rootfsPropagation` `unbindable` and `runbindable` are refused at the bind of
  the root; a missing read-only path is an error where a missing masked path is
  skipped; options of a `cgroup` mount are not looked at; `["bind", "nosuid"]`
  becomes recursive, as `mountOptions` marks nosuid so.
- The comment at `mounts.go:126` holds for shared options only as long as the
  root is shared: under the default `rslave` the source is no longer shared and
  the bind has no peer group to join.
- Without a mount namespace all mounts are made on the host and stay.

This is also why the passing runs admit the failures they do. `tidy` leaves out
`new`, `save`, `createCgroup` and crashes, which the findings are about, and
`deleteCgroup`, which the code accepts with a warning. `liveness` leaves out
`prePivot` and `createContainer` (the `create_hang` finding), `save` (a retried
start may wait for a program that never answers) and `deleteCgroup` (which may
leave a frozen process). All runs but `concurrent_delete` have `SerialDelete`.

### Fairness

`FairSpec` adds weak fairness of each running command, of the container's
process and of reaping. The first two are what the scheduler gives a process
that can run; a frozen process cannot, and the model says so (`Scheduled`). The
third is the duty of `init` or a subreaper. Nothing is assumed of the caller, of
the user's program, of failures, or of crashes.

`Setup` assumes that the process goes on with a phase of hooks and that a timer
fires (`Fairness`), not that a hook or its descendants end or that anybody sends
start. `PhasesEnd` says what follows: only a hook without a timeout, or a
descendant that keeps the pipes, can hold a phase for ever. The second is a
limit of the code: the timeout does not reach it.

## Proofs

All theorems hold for every value of the constants that satisfies the named
assumptions: the sets are disjoint from `None`, there are more inodes than
runtimes, pids and runtimes are different things, an exec's namespaces are among
those that exec knows and no pid is recycled while an exec holds it
(`ExecAssumption`), configurations have the shape that the schema of
`config.json` gives them (`ConfigsAssumption`, `RootFSAssumption`), and the names the
runtime itself uses are strings (`NamesAssumption`: TLC evaluates it, the provers
do not know it of a text). What a theorem needs beyond that is its hypothesis, and
each is explained below. Of the 39 properties that the passing runs check, 37 are
theorems: all of the safety invariants and action properties and both
refinements. The other two are liveness.

### The commands: ContainerProofs

- `TypeCorrect`: `TypeOK` bounds the init socketpair at two messages, which is not
  inductive: a third would follow if the process could send twice. The
  strengthening `SentSoFar` says how many messages a process can have sent in each
  phase.
- `Exclusion` (`[]ExclusiveLock`): that no two runtimes flock one inode is plain;
  that they flock the *same* inode is the point. The inductive invariant `LockInv`
  adds: a runtime that is past its open has a descriptor (`OpenBeforeLock`), every
  open descriptor is of the inode `c.lock` names now unless its owner is deleting
  (`OpenIsCurrent`), a runtime in delete's steps runs delete (`DeletingIsDelete`),
  and a delete is alone (`DeleteAlone`).
- `CreatedCorrect`, `RunningCorrect`, `StoppedCorrect`, `StartCorrect`: the
  recorded status is never ahead of the process, and start talks to the recorded
  one, with every failure, crash and recycled pid. The argument is `RecordInv`.
  `FreshInv`: between `Reload` and the next `save` a command's State *is* the file,
  because it has the lock and every writer has it too. `LoadInv`: what was loaded
  without the lock names no process that the file does not. `SaveInv`: what a
  command is about to save is true of the recorded process when it saves it.
  `CreateInv` with `OneMaker`: `Mkdir` lets one create through, which finds only
  what it wrote itself. `ConnectedInv` and `SockInv`: the socket at the path, and
  whoever is connected, belong to the recorded process.
- `LifecycleCorrect` (`LifecycleSpec`): `Container` implements `Lifecycle`. The
  status changes only in `Save` and delete's removal of the file, the phase only
  in steps of the recorded process; `LifecycleStep` maps each to an abstract step
  or to none, from `ContainerInv` before and after it.

All but the first assume `SerialDelete`; the run `concurrent_delete` shows why.

### What is left behind: TidyProofs

Each of these properties fails after failures that the code does not clean up
after (see the list under *Runs*). The theorems name exactly those, and all other
failures may occur; they admit more than the run `tidy` does.

| theorem | not admitted | because |
|---|---|---|
| `PoststopCorrect` | `crash`, `createCgroup`, `deleteCgroup` | the cgroup is the only way from delete to the processes |
| `FreezeCorrect` | `crash`, `save`, `deleteCgroup` | the freezer and the file change in two steps; a cgroup that stays keeps its freezer |
| `ExistsCorrect` | `crash`, `new`, `save` | the directory is there before the file that makes it loadable |
| `TalkCorrect` | `crash`, `save` | a start that could not record `running` can be repeated |

- `CgroupInv`: every live process of the container is in the cgroup, but for the
  child that create has not put there yet; after `DeleteCgroup` there is none.
- `FreezeInv`: frozen and file agree unless the lock's owner is between its two
  steps (`Freezing`).
- `ExistInv`: a directory without a state file has a create that is making it, or
  a delete that is taking it apart.
- `TalkInv`, `SocketInv`: a connection that is accepted is of the one start that
  has the lock; a process that was told to go on, or is dead, is recorded so or
  is about to be.

### Exec: ExecProofs

`ExecImplements` (`ExecSpec => Spec`) makes every theorem about the commands one
about commands with execs beside them. `ExecTypeCorrect`, `ExecConfinedCorrect`
and `JoinsCorrect` (`JoinsWhileAlive`, an action property) need no hypothesis.
The invariant `ExecInv` keeps account of the namespaces: those looked at so far
are entered or on the child's list, what is not on the list has been joined
(`Entered`), the mount namespace comes last (`MountLast`), a child without the
container's root is still joining and its container is dead (`Rooted`), and a
child in the container's pid namespace lives only as long as its first process
(`Confined`). `ExecEndsCorrect` combines the last with `PoststopCorrect` and has
its hypotheses.

### The set-up: MountTreeProofs and SetupProofs

`HooksCorrect` and `NoHookLeftCorrect`: the invariant says how many hooks ended
well at each step (`ProgressInv`) and that only a hook under way holds pipes
(`PipesInv`). `NamespacesCorrect`: `ConfigureInv` relates the list, as far as the
runtime has come, to flags, entered namespaces and the list for `nssetup`;
`JoinInv` says that each type is as asked, or still to be joined, or follows a
joined mount namespace. `HostnameCorrect` assumes that no configuration lists the
uts namespace twice: with one entry with and one without a path,
`setup_post_pivot.go:44` finds the one without and names the one that was joined.

For the file system the lemmas of `MountTreeProofs` say what the kernel's
operations do to a table of *any* length: a lookup ends in the mount it began in
or in one on top (`Closed` sets of mounts are not left by lookups, trees or
bind mounts), attaching only appends, what is appended lies where a receiver
is, a change of propagation or of flags moves nothing, detaching takes the tree and
what its parents propagate to. What takes several rounds is proved by induction on
them, in the form the provers can use: for a set of numbers (`NatSet`),
not for a predicate.

- `HostKeptCorrect`, for *every* propagation: `HostPart` (the host's mounts are
  what they were) is preserved since they are a prefix of the table, no mount of
  the host is ever on one of the container's (`OwnClosed`), every step but one
  only changes mounts of that closed set, and the one that unmounts finds the tree
  a slave by then: nothing in it is shared, so nothing propagates. That the mount
  the old root sits on is not shared either is `CanPivot`'s condition, kept in
  `TableInv`.
- `HostUnchangedCorrect`, for the propagations of `Confined` (the default, and
  the recursive ones that are not shared): after `MountRootfs` no mount of the
  container is in a peer group (`Quiet`), so what is attached stays in its
  namespace (`Apart`).
- `OldRootCorrect`, for the same: `RootInv` follows the copies of the host's
  mounts. Before the pivot they are as the host had them (`Skeleton`), the first
  mount of the process covers the image and all others are on mounts it made
  (`Layout`); so the pivot leaves the old root with nothing over it (`Pivoted`),
  `DetachedMount` is the old root and not something over it, and its tree is all
  the copies (`Gone`). With a shared root this is only model-checked: the argument
  of `Layout` fails there, because a configuration may bind `/` and mount on the
  bind, and what it mounts then also appears on the old root, whose peer it is.
- `PivotAllowed`, for the same propagations: from `Layout` the path of the image
  leads to a mount the process made, at its root (`TopIsRoot`), so neither to the
  current root nor to a directory; from `Quiet` neither it nor its parent is shared.
  The hypothesis is needed: a configuration with a shared root that binds `/` to
  `/host` and mounts on `/host/rootfs` covers its own image with a shared mount,
  and the kernel refuses the pivot.
- `BindsAllowed`: unless the root or a mount is asked to be unbindable, no mount is
  (`Free`, a conjunct of `TableInv`), and no bind mount of the image, of the
  configuration, of a default device, of the console or of a path made read-only
  is refused. These two are the parts of `NeverRefused` that hold of every list of
  mounts.
- `PathsProtectedCorrect` (`PathsProtected`), for the same propagations and lists of
  any length. A mask is undone by no `umount`; what could undo it is a later mount
  that comes to lie between the root and the mask, of which there are two kinds,
  the other masks and the paths that are bound over themselves and made read-only.
  The lemmas say what each does to *every* lookup. Where each mount is on one made
  earlier, at a place below that one's root (`Rising`; without this a lookup might
  go round and never end), a lookup ends at a place that nothing covers
  (`WalkGood`), and attaching a mount at the end of one lookup changes exactly the
  lookups that pass through that place (`GrownWalk`). A recursive bind of a path
  over itself shows below it what the lookup showed before, through copies
  (`Mirrors`, `BindMirrors`, `BoundHides`), and a mask shows nothing below it
  (`CoverFile`, `CoverDirectory`). Three invariants carry this through the set-up:
  `PlaceInv` (the container's mounts are rising, and what `root` shows before the
  pivot is apart from the host), `NextInv` (the index into the lists starts at 1) and
  `ProtectInv` (of each list, as far as it has been gone through, every path is
  `Hidden`, or is on a read-only mount, and the two lists do not disturb each other).
  `Hidden` is stronger than what the property says of a mask: not the mount that
  covers the path but everything at and below it counts, which is what a later bind
  of a path above it keeps. Three hypotheses are needed. `Confined`: with a shared
  root a mount appears in places no lookup of its own led to. `~AsksUnbindable`: see
  below. `Sensible`: no masked path is `/dev/null` or above it, since the masks
  of files are bound from there, and a masked path below another is below a
  directory.
- `NeverRefusedCorrect` (`NeverRefused`), for configurations that are `Permitted`. The
  pivot and the bind mounts are refused for no reason but the one the property names
  (`PivotAllowed`, `BindsAllowed`). What is left depends on what the configuration
  mounted before. `ViewInv` keeps three facts up to the step that needs them:
  nothing called `ptmx` is a mount point or the root of a mount before the links
  are made (`Named`), `dev/pts` shows a devpts when the terminal is allocated, and
  `/proc/sys` is not on a read-only mount until the sysctls are written; the second
  and third are about what a path leads to, and a mount above the path may hide
  what was there, so each is shown anew for every mount made in between. Each has a
  hypothesis: `PtmxFree` (a configuration that mounts over `/dev/ptmx` is refused,
  since the old file cannot be removed) and `ProcOpen` (one that makes `/proc/sys`
  read-only, or binds something of the host over it, cannot set a sysctl).
- `DevCompleteCorrect` (`DevComplete`). `DevInv` says at each step which parts of
  `/dev` are there, from where they were made to the program's start: the
  node or link at the place a path leads to, the terminal's slave at the console. No
  step in between may change where these paths lead: the pivot does not
  (`ImageView`: a lookup below the image before it is the same as one from the new
  root after it), unmounting the old root does not, and mounts and protected paths do
  not if they have other names (`DevFree`), which is the hypothesis: a configuration
  can spoil its own `/dev` by mounting over a device or masking a path in it.
- `SetupTypeCorrect` (`TypeOK`), for *every* configuration: shared roots and set-ups
  without a mount namespace too, about which the invariants above say nothing. A
  lookup that may be covered in any way still ends at a mount of the table
  (`TopSpot`, `WalkSpot`); what is attached, cloned or bound is a table of mounts
  again (`AttachTable`, `CloneTable`, `BindTable`: each mount that a clone takes, but
  the first, is on another one that it takes, so the choice of its copied parent has a
  value); and no step shortens the table (`NoShorter`), so that the root, the nodes and
  the terminal stay at mounts that exist.

### The others

- `SecurityProofs`: `SecurityTypeCorrect`, `NothingBeyondRequest`
  (`[]WithinRequest`), `FilterInForce` (`[]FilterAsRequested`) and `Granted`
  (`GrantableIsGranted`), for every kernel, table, host and configuration. The
  properties speak of the end; the invariant `Inv` says what each step has left:
  the host's sets up to `SetUser` (`EarlyInv`), the bounding set cut to the list
  (`BoundingInv`), a kept permitted set between setuid and capset (`UserInv`),
  the wanted sets afterwards (`CapsInv`), and where the filter and the flag stand
  (`FilterInv`). `Granted` combines it with the rule of each call.
- `ContainersProofs`: `ContainersTypeCorrect`, `Reachable`
  (`[]CreatedIsReachable`), `Complete` (`[]ListComplete`) and `Truthful`
  (`[]ListTruthful`) for any number of containers and bundles. `Inv` says that
  bundles are apart, that a container in use has its bundle (without which
  looking up its socket has no type), that live processes and sockets correspond
  (`SocketInv`), and that start's connection is to its own process. `ListInv`
  keeps account of a listing: what lasted is printed or still to come.
- `AtomicFileProofs`: `FileTypeCorrect`, `Untorn` (`[]NeverTorn`) from `FileInv`:
  running calls have different temporary names, and a call that has come to
  `rename` owns a whole file. `Refinement`: `Spec => ImplementsRegister`; rename
  maps to the register's commit, returning and being killed to its response, the
  rest to stuttering.

### What proving showed about the model

- The guards of the CASE in `RecordedPhase` overlapped when no process is recorded:
  TLC took the case that was meant, the definition did not say so.
- `JoinsWhileAlive` held of any step once an exec had failed; it now speaks of the
  step that fails.
- `DetachOldRoot` used to detach what was under the new root, not what the kept
  descriptor leads to. The two agree unless something is mounted on the old root,
  which is the case `OldRootCorrect` has to exclude.
- The namespace asked for is not unique when a type is listed twice: `Asked` is a
  set.
- A path to be made read-only can be refused for a second reason besides being
  absent: it is on a mount that the configuration made unbindable.
  `MountReadonlyPaths` left that out, and so did `NeverRefused`.
- A mask can be lost without any step failing: a recursive bind leaves unbindable
  mounts out (`readonly_paths.go:16`), so that with a mask in an unbindable mount
  below a path made read-only the program sees what is below both. A reader of
  `rbind` might not expect it; it is why `PathsProtectedCorrect` excludes
  unbindable mounts.

### Only model-checked

- `CommandsReturn` and `PhasesEnd`: liveness under fairness is outside the proof
  system.
- `NeverRefused` and `DevComplete` without the hypotheses of their theorems: the run
  has configurations with shared roots, with unbindable mounts and without a
  mount namespace.
- `PathsProtected` without the hypotheses of its theorem: the run has shared roots
  and set-ups without a mount namespace as well.
- `OldRootGone` for shared propagations, as said above.

## Plan

Done: the life cycle, exec, process security, the set-up of the container with
its namespaces, file system and hooks, several containers with list, and the
proofs above. Next:

1. Proofs: `OldRootGone` for shared propagations, where the pivot is either refused
   or leaves an old root on which more than the copies is mounted.
2. `CgroupPath` and `Signals`: pure functions against a reference definition.
3. The console socket in exec.

## Not modelled

- `ps` and `update`: each is one GetState followed by reads or writes of cgroup
  files; nothing the runtime keeps changes. Between the two the id may come to
  mean another container, on which they then act; the code promises nothing else.
- Resource limits, rlimits, scheduler, io priority, oom score: single calls with
  converted arguments, inside steps that may fail.
- The systemd naming of slice and group, the table of signals: pure functions,
  planned above.
- Validation (one pattern), features (constants), logging and flags (output).
- The CRI server under `_wip`: unfinished, in no build.
