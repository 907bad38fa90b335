------------------------------- MODULE RootFS -------------------------------
(***************************************************************************)
(* The file system of a container, as its own process builds it: the root  *)
(* mount and its propagation, /proc, the mounts of the configuration, the  *)
(* devices, the console, pivot_root, and after start the masked and        *)
(* read-only paths.  One thread makes one system call after the other; a   *)
(* step is one function of the code.  Every step may fail, and the process *)
(* dies; a step the kernel refuses leads to "refused".                     *)
(***************************************************************************)
EXTENDS MountTree

CONSTANTS
    None,
    Configs     \* the configurations, on the hosts they meet

(* What the schema of config.json says of its mounts, devices and paths.   *)
ASSUME RootFSAssumption ==
    \A c \in Configs :
        /\ c.mounts \in Seq([dest : Seq(STRING), type : STRING, source : Seq(STRING),
                             options : Seq(STRING)])
        /\ c.devices \subseteq Seq(STRING)
        /\ c.masked \in Seq(Seq(STRING))
        /\ c.readonlyPaths \in Seq(Seq(STRING))

(* The names the runtime and the host use are strings, which a prover does *)
(* not know of a text.                                                     *)
ASSUME NamesAssumption ==
    {"host", "devtmpfs", "cgroup", "image", "data", "rootfs", "dev", "proc", "sys", "pts", "devpts",
     "null", "ptmx", "console", "0", "mask"} \subseteq STRING

VARIABLES
    conf,   \* the host, and what config.json says
    mnt,    \* the mount table of host and container
    root,   \* the mount whose root is the root of the process
    pc,     \* the next step
    next,   \* index of the next mount of the configuration
    nodes,  \* device nodes and links made in the image: <<mount, dentry, kind>>
    pty     \* the mount the terminal was opened in, None if there is none

rootfsVars == <<conf, mnt, root, pc, next, nodes, pty>>

Ended == {"exec", "exited", "failed", "refused"}

PrePivot ==
    {"mountRootfs", "mountProc", "specMounts", "defaultDevices", "deviceNodes", "symlinks",
     "connectConsole", "mountConsole", "pivot"}
PostPivot ==
    {"sysctl", "maskedPaths", "readonlyPaths", "propagation", "readonly", "hostname"}
Labels ==
    PrePivot \cup PostPivot \cup Ended \cup
    {"detach", "createContainer", "waitStart", "startContainer"}

(* The configuration never changes.                                        *)
RootFSTypeOK ==
    /\ mnt \in Seq(Mount)
    /\ root \in DOMAIN mnt
    /\ pc \in Labels
    /\ next \in Nat
    /\ nodes \subseteq (DOMAIN mnt) \X Seq(STRING) \X {"device", "link"}
    /\ pty \in DOMAIN mnt \cup {None}

-----------------------------------------------------------------------------
(* The host.                                                               *)

Rootfs == <<"rootfs">>

(* The host has a mount for "/", for /dev and for /sys/fs/cgroup; the      *)
(* image of the container may be a mount of its own, and another mount may *)
(* lie in it.  Host mounts are shared or not.                              *)
Host(c) ==
    LET mount(fs, parent, at, i) ==
            [NewMount(fs, FALSE) EXCEPT !.ns = "host", !.parent = parent, !.at = at,
                                        !.group = IF c.hostShared THEN i ELSE 0]
        base == <<mount("host", 0, <<>>, 1), mount("devtmpfs", 1, <<"dev">>, 2),
                  mount("cgroup", 1, <<"cgroup">>, 3)>>
        image == IF c.imageMount THEN Append(base, mount("image", 1, Rootfs, 4)) ELSE base
    IN  IF ~c.inner THEN image
        ELSE Append(image, IF c.imageMount THEN mount("data", 4, <<"data">>, 5)
                                           ELSE mount("data", 1, Append(Rootfs, "data"), 4))

HostSize == Len(Host(conf))

hasMountNamespace == \E i \in DOMAIN conf.namespaces : conf.namespaces[i].type = "mnt"

RootFSInit ==
    /\ conf \in Configs
    /\ mnt = IF hasMountNamespace THEN CloneNamespace(Host(conf)) ELSE Host(conf)
    /\ root = IF hasMountNamespace THEN HostSize + 1 ELSE 1
    /\ pc = "mountRootfs"
    /\ next = 1
    /\ nodes = {}
    /\ pty = None

-----------------------------------------------------------------------------
(* Steps.                                                                  *)

At(path) == Walk(mnt, root, path)

(* Destinations before the pivot: filepath.Join(containerRootfs, path).    *)
InRootfs(ms, path) == Walk(ms, root, Rootfs \o path)

Goto(from, to) == pc = from /\ pc' = to /\ UNCHANGED conf

Refused(from) == Goto(from, "refused") /\ UNCHANGED <<mnt, root, next, nodes, pty>>

(* A step whose calls the kernel allows if ok, with mounts ms after it.    *)
Mounts(from, to, ok, ms) ==
    \/ ok /\ Goto(from, to) /\ mnt' = ms /\ UNCHANGED <<root, next, nodes, pty>>
    \/ ~ok /\ Refused(from)

(* The process dies, and its namespace with it; nothing propagates then.   *)
Fails ==
    /\ pc \notin Ended
    /\ pc' = "failed"
    /\ mnt' = Forget(mnt, {i \in DOMAIN mnt : mnt[i].ns = "container"})
    /\ UNCHANGED <<conf, root, next, nodes, pty>>

-----------------------------------------------------------------------------
(* MountRootfs and MountProc.                                              *)

Kinds == {"private", "shared", "slave", "unbindable"}

getPropagationFlag(opt) ==
    CASE opt \in Kinds -> [kind |-> opt, rec |-> FALSE]
      [] opt = "rprivate" -> [kind |-> "private", rec |-> TRUE]
      [] opt = "rshared" -> [kind |-> "shared", rec |-> TRUE]
      [] opt = "rslave" -> [kind |-> "slave", rec |-> TRUE]
      [] opt = "runbindable" -> [kind |-> "unbindable", rec |-> TRUE]
      [] OTHER -> None

SetPropagation(ms, m, flag) ==
    SetKind(ms, IF flag.rec THEN Tree(ms, m) ELSE {m}, flag.kind)

MutantDefaultPropagation == [kind |-> "slave", rec |-> FALSE]

DefaultPropagation == [kind |-> "slave", rec |-> TRUE]

MutantRootfsParentMountPrivate(ms) == ms

(* Walking up from the root file system, the first path that is a mount    *)
(* point is that of the mount it lies in.                                  *)
rootfsParentMountPrivate(ms) ==
    SetPropagation(ms, InRootfs(ms, <<>>).mount, [kind |-> "private", rec |-> FALSE])

MountRootfs ==
    LET flag == getPropagationFlag(conf.propagation)
        ms == rootfsParentMountPrivate(
                  SetPropagation(mnt, root, IF flag = None THEN DefaultPropagation ELSE flag))
        rootfs == InRootfs(ms, <<>>)
    IN  IF hasMountNamespace
        THEN Mounts("mountRootfs", "mountProc", CanBind(ms, rootfs), Bind(ms, rootfs, rootfs, TRUE))
        ELSE Mounts("mountRootfs", "mountProc", TRUE, mnt)

MountProc ==
    Mounts("mountProc", "specMounts", TRUE,
           Attach(mnt, InRootfs(mnt, <<"proc">>), <<NewMount("proc", FALSE)>>))

-----------------------------------------------------------------------------
(* MountSpecMounts.                                                        *)

(* What an option adds to the flags; rw takes RDONLY away again.  Of the   *)
(* options that only restrict a mount, nosuid stands for all.              *)
OptionFlags ==
    [bind |-> {"BIND"}, rbind |-> {"BIND", "REC"}, ro |-> {"RDONLY", "REC"},
     rro |-> {"RDONLY"}, rw |-> {}, nosuid |-> {"REC"}]

Flags(options) ==
    {f \in {"BIND", "REC", "RDONLY"} :
        \E i \in DOMAIN options :
            /\ options[i] \in DOMAIN OptionFlags /\ f \in OptionFlags[options[i]]
            /\ f = "RDONLY" => \A j \in i + 1 .. Len(options) : options[j] # "rw"}

hasSharedPropagation(options) == {"shared", "rshared"} \cap Range(options) # {}

(* The last propagation option counts; none is applied for shared ones.    *)
MountPropagation(options) ==
    LET given == {i \in DOMAIN options : getPropagationFlag(options[i]) # None}
    IN  IF given = {} \/ hasSharedPropagation(options) THEN None
        ELSE getPropagationFlag(options[Max(given)])

(* mount(2) with MS_BIND looks at MS_REC and no other flag.                *)
DoMount(ms, m, dest) ==
    IF "BIND" \in Flags(m.options)
    THEN Bind(ms, At(m.source), dest, "REC" \in Flags(m.options))
    ELSE Attach(ms, dest, <<NewMount(m.type, "RDONLY" \in Flags(m.options))>>)

(* The propagation and "rro", on what now is at the destination.           *)
ApplyOptions(ms, m) ==
    LET dest == InRootfs(ms, m.dest).mount
        flag == MountPropagation(m.options)
        set == IF flag = None THEN ms ELSE SetPropagation(ms, dest, flag)
    IN  IF "rro" \in Range(m.options) THEN SetReadonly(set, Tree(set, dest)) ELSE set

(* The devpts instance of the container comes after all the others.        *)
DevPts == [dest |-> <<"dev", "pts">>, type |-> "devpts", source |-> <<>>,
           options |-> <<"nosuid">>]

SpecMounts == Append(conf.mounts, DevPts)

(* A mount of type cgroup is a bind mount of the host's hierarchy, and its *)
(* options are not looked at.                                              *)
MountSpecMount ==
    LET m == SpecMounts[next]
        dest == InRootfs(mnt, m.dest)
        bind == m.type = "cgroup" \/ "BIND" \in Flags(m.options)
        source == IF m.type = "cgroup" THEN At(<<"cgroup">>) ELSE At(m.source)
    IN  /\ pc = "specMounts"
        /\ \/ /\ bind => CanBind(mnt, source)
              /\ \/ next < Len(SpecMounts) /\ next' = next + 1 /\ UNCHANGED pc
                 \/ next = Len(SpecMounts) /\ next' = 1 /\ pc' = "defaultDevices"
              /\ mnt' = IF m.type = "cgroup" THEN Bind(mnt, source, dest, TRUE)
                        ELSE ApplyOptions(DoMount(mnt, m, dest), m)
              /\ UNCHANGED <<conf, root, nodes, pty>>
           \/ bind /\ ~CanBind(mnt, source) /\ Refused("specMounts")

-----------------------------------------------------------------------------
(* Devices, links and the console.                                         *)

Null == <<"dev", "null">>

(* /dev/null stands for the six of defaultDevices.                         *)
MountDefaultDevices ==
    Mounts("defaultDevices", "deviceNodes", CanBind(mnt, At(Null)),
           Bind(mnt, At(Null), InRootfs(mnt, Null), FALSE))

(* The node or link at a place replaces what was there.                    *)
Made(was, places, kind) ==
    {n \in was : Place(n[1], n[2]) \notin places}
    \cup {<<p.mount, p.dentry, kind>> : p \in places}

(* A device whose path is a mount point (a default device) is left alone:  *)
(* either it is the same, or it cannot be removed.                         *)
CreateDeviceNodes ==
    /\ Goto("deviceNodes", "symlinks")
    /\ nodes' = Made(nodes, {p \in {InRootfs(mnt, d) : d \in conf.devices} : ~IsRoot(mnt, p)},
                     "device")
    /\ UNCHANGED <<mnt, root, next, pty>>

Ptmx == <<"dev", "ptmx">>

MutantCreateDefaultSymlinks ==
    /\ Goto("symlinks", "connectConsole")
    /\ nodes' = nodes \cup {<<p.mount, p.dentry, "link">> :
                              p \in {q \in {InRootfs(mnt, Ptmx)} :
                                       <<q.mount, q.dentry, "device">> \notin nodes}}
    /\ UNCHANGED <<mnt, root, next, pty>>

(* dev/ptmx, to pts/ptmx, stands for the five of defaultSymlinks.  A mount *)
(* point can neither be removed nor be replaced.                           *)
CreateDefaultSymlinks ==
    LET p == InRootfs(mnt, Ptmx)
    IN  \/ /\ ~IsRoot(mnt, p)
           /\ Goto("symlinks", "connectConsole")
           /\ nodes' = Made(nodes, {p}, "link")
           /\ UNCHANGED <<mnt, root, next, pty>>
        \/ IsRoot(mnt, p) /\ Refused("symlinks")

useTerminal == conf.terminal /\ conf.process

(* NewPtyAt the container's ptmx; the master goes to the caller, the slave *)
(* becomes the controlling terminal.  There must be a devpts instance.     *)
ConnectConsole ==
    LET pts == InRootfs(mnt, <<"dev", "pts">>)
        to == "mountConsole"
    IN  \/ /\ useTerminal /\ mnt[pts.mount].fs = "devpts"
           /\ Goto("connectConsole", to)
           /\ pty' = pts.mount
           /\ UNCHANGED <<mnt, root, next, nodes>>
        \/ useTerminal /\ mnt[pts.mount].fs # "devpts" /\ Refused("connectConsole")
        \/ ~useTerminal /\ Goto("connectConsole", to) /\ UNCHANGED <<mnt, root, next, nodes, pty>>

Slave == <<"dev", "pts", "0">>
Console == <<"dev", "console">>

MountConsole ==
    LET slave == InRootfs(mnt, Slave)
        to == IF hasMountNamespace THEN "pivot" ELSE "createContainer"
    IN  IF pty # None
        THEN Mounts("mountConsole", to, CanBind(mnt, slave),
                    Bind(mnt, slave, InRootfs(mnt, Console), FALSE))
        ELSE Mounts("mountConsole", to, TRUE, mnt)

-----------------------------------------------------------------------------
(* PivotRoot.                                                              *)

PivotRoot ==
    LET new == InRootfs(mnt, <<>>)
    IN  \/ /\ CanPivot(mnt, root, new)
           /\ Goto("pivot", "detach")
           /\ mnt' = Pivot(mnt, root, new.mount)
           /\ root' = new.mount
           /\ UNCHANGED <<next, nodes, pty>>
        \/ ~CanPivot(mnt, root, new) /\ Refused("pivot")

(* The process has kept the old root open and goes back to it.             *)
OldRoot == HostSize + 1

OldRootSlave == SetPropagation(mnt, OldRoot, [kind |-> "slave", rec |-> TRUE])

(* umount(".") takes what is mounted over the old root, if anything is.    *)
DetachedMount(ms) == Top(ms, RootOf(ms, OldRoot)).mount

MutantDetachOldRoot == Mounts("detach", "createContainer", TRUE, Detach(mnt, DetachedMount(mnt)))

MutantKeepOldRoot == Mounts("detach", "createContainer", TRUE, OldRootSlave)

DetachOldRoot ==
    Mounts("detach", "createContainer", TRUE,
           Detach(OldRootSlave, DetachedMount(OldRootSlave)))

-----------------------------------------------------------------------------
(* setupPostPivot, as far as it is about the file system.                  *)

ProcSys == <<"proc", "sys">>

SetSysctl ==
    Mounts("sysctl", "maskedPaths", conf.sysctl => ~mnt[At(ProcSys).mount].ro, mnt)

(* A path that does not exist is not masked.  A directory is covered by an *)
(* empty file system, a file by /dev/null.                                 *)
Mask(ms, path) ==
    LET p == Walk(ms, root, path)
    IN  CASE path \in conf.absent -> ms
          [] path \notin conf.absent /\ path \in conf.directories ->
                Attach(ms, p, <<NewMount("mask", TRUE)>>)
          [] OTHER -> Bind(ms, Walk(ms, root, Null), p, TRUE)

(* The paths of a list are mounted one after the other.                    *)
EndPaths(from, to) == Goto(from, to) /\ next' = 1 /\ UNCHANGED <<mnt, root, nodes, pty>>

MountPath(ms) == mnt' = ms /\ next' = next + 1 /\ UNCHANGED <<conf, root, pc, nodes, pty>>

MountMaskedPaths ==
    \/ next > Len(conf.masked) /\ EndPaths("maskedPaths", "readonlyPaths")
    \/ /\ pc = "maskedPaths" /\ next <= Len(conf.masked)
       /\ MountPath(Mask(mnt, conf.masked[next]))

MutantReadonlyPath(ms, path) ==
    LET bound == Bind(ms, Walk(ms, root, path), Walk(ms, root, path), FALSE)
    IN  SetReadonly(bound, {Walk(bound, root, path).mount})

(* The bind mount takes the mounts below along, the remount only sees the  *)
(* topmost one.                                                            *)
ReadonlyPath(ms, path) ==
    LET bound == Bind(ms, Walk(ms, root, path), Walk(ms, root, path), TRUE)
    IN  SetReadonly(bound, {Walk(bound, root, path).mount})

(* Unlike a masked path, a read-only path has to exist, and on a mount     *)
(* that can be bound.                                                      *)
MountReadonlyPaths ==
    LET path == conf.readonlyPaths[next]
        ok == path \notin conf.absent /\ CanBind(mnt, At(path))
    IN  \/ next > Len(conf.readonlyPaths) /\ EndPaths("readonlyPaths", "propagation")
        \/ /\ pc = "readonlyPaths" /\ next <= Len(conf.readonlyPaths)
           /\ \/ ok /\ MountPath(ReadonlyPath(mnt, path))
              \/ ~ok /\ Refused("readonlyPaths")

SetRootfsMountPropagation ==
    LET flag == getPropagationFlag(conf.propagation)
    IN  Mounts("propagation", "readonly", TRUE,
               IF flag = None \/ flag.kind = "private" THEN mnt
               ELSE SetPropagation(mnt, root, [flag EXCEPT !.rec = FALSE]))

MountRootReadonly ==
    Mounts("readonly", "hostname", TRUE,
           IF conf.readonly THEN SetReadonly(mnt, {root}) ELSE mnt)

-----------------------------------------------------------------------------
SetupPrePivot ==
    \/ MountRootfs \/ MountProc \/ MountSpecMount \/ MountDefaultDevices
    \/ CreateDeviceNodes \/ CreateDefaultSymlinks

SetupPostPivot ==
    \/ SetSysctl \/ MountMaskedPaths \/ MountReadonlyPaths
    \/ SetRootfsMountPropagation \/ MountRootReadonly

-----------------------------------------------------------------------------
(* Properties.                                                             *)

HostMounts == {i \in DOMAIN mnt : mnt[i].ns = "host"}

(* "Make oldroot rslave to prevent unmounts from propagating to the host": *)
(* a container with a mount namespace of its own, whatever propagation it  *)
(* asks for, takes no mount of the host away and changes none.             *)
HostKept == hasMountNamespace => \A i \in 1 .. HostSize : mnt[i] = Host(conf)[i]

(* With the default propagation (rslave), or one that is recursive and not *)
(* shared, no mount made for the container shows up on the host.           *)
HostUnchanged ==
    hasMountNamespace /\ conf.propagation \in {"", "rslave", "rprivate", "runbindable"} =>
        HostMounts = 1 .. HostSize

(* No order of the steps makes the kernel refuse one: the set-up of a      *)
(* configuration ends only by a failure, unless an unbindable root has to  *)
(* be bound, or a path to be made read-only is missing or on an unbindable *)
(* mount.  In particular pivot_root finds neither the new root nor its     *)
(* parent shared, and sysctls are written before /proc/sys is read-only.   *)
NeverRefused ==
    pc = "refused" =>
        \/ conf.propagation \in {"unbindable", "runbindable"}
        \/ \E p \in Range(conf.readonlyPaths) : p \in conf.absent \/ ~CanBind(mnt, At(p))

(* The user's program cannot reach the host's file system: its root is the *)
(* container's, and no mount below it is one of the old tree.              *)
OldRootGone ==
    hasMountNamespace /\ pc \in PostPivot \cup {"createContainer", "waitStart", "startContainer", "exec"} =>
        /\ root > 2 * HostSize
        /\ Tree(mnt, root) \cap (1 .. 2 * HostSize) = {}

(* What the configuration masks stays masked, also below a path made       *)
(* read-only afterwards, and what it makes read-only is.                   *)
PathsProtected ==
    pc \in {"propagation", "readonly", "hostname", "startContainer", "exec"} /\ conf.process =>
        /\ \A p \in Range(conf.masked) \ conf.absent :
              mnt[At(p).mount].fs = "mask" \/ At(p).dentry = At(Null).dentry
        /\ \A p \in Range(conf.readonlyPaths) : mnt[At(p).mount].ro

(* The container's /dev is complete whatever the configuration mounts      *)
(* there: the devpts instance made for it is the one in sight and the one  *)
(* its terminal belongs to, dev/ptmx is a link to it, the default devices  *)
(* are the host's, and the devices asked for are nodes of the container.   *)
DevComplete ==
    pc = "exec" =>
        LET In(path) == IF hasMountNamespace THEN At(path) ELSE InRootfs(mnt, path)
            Kind(path) == {n[3] : n \in {m \in nodes : Place(m[1], m[2]) = In(path)}}
            pts == In(<<"dev", "pts">>)
        IN  /\ mnt[pts.mount].fs = "devpts"
            /\ pty # None => pty = pts.mount /\ In(Console).dentry = In(Slave).dentry
            /\ Kind(Ptmx) = {"link"}
            /\ mnt[In(Null).mount].fs = "devtmpfs"
            /\ \A d \in conf.devices \ {Ptmx, Null} : Kind(d) = {"device"}

(* "ro" is one of the mount options of "the Features supported by anocir": *)
(* a mount that asks for it last is read-only when the program starts.     *)
ReadonlyMounts ==
    pc = "exec" =>
        \A i \in DOMAIN conf.mounts :
            "RDONLY" \in Flags(conf.mounts[i].options) => mnt[At(conf.mounts[i].dest).mount].ro

=============================================================================
