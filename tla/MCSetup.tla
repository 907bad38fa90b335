------------------------------ MODULE MCSetup -------------------------------
(* Instances of Setup for TLC.                                             *)
EXTENDS Setup, TLC

New(type) == [type |-> type, path |-> ""]
OwnMounts == <<New("mnt"), New("uts")>>

(* A configuration with nothing special, on a host with shared mounts.     *)
Plain ==
    [hostShared |-> TRUE, imageMount |-> FALSE, inner |-> FALSE,
     namespaces |-> OwnMounts, timeOffsets |-> FALSE, propagation |-> "", process |-> TRUE, terminal |-> FALSE,
     mounts |-> <<>>, devices |-> {}, sysctl |-> FALSE, readonly |-> FALSE,
     masked |-> <<>>, readonlyPaths |-> <<>>,
     absent |-> {<<"proc", "asound">>},
     directories |-> {<<"proc", "asound">>, <<"proc", "acpi">>},
     createContainer |-> <<>>, startContainer |-> <<>>]

Tmpfs(dest, options) == [dest |-> dest, type |-> "tmpfs", source |-> <<>>, options |-> options]
CgroupMount == [dest |-> <<"cgroup">>, type |-> "cgroup", source |-> <<>>, options |-> <<>>]
BindMount(source, dest, options) ==
    [dest |-> dest, type |-> "bind", source |-> source, options |-> options]

(* A mount inside each mount that may come from the host.                  *)
Nested == <<CgroupMount, Tmpfs(<<"cgroup", "x">>, <<>>), Tmpfs(<<"data", "x">>, <<>>)>>

(* Every propagation of the root, on every kind of host.                   *)
PropagationConfigs ==
    {[Plain EXCEPT !.hostShared = s, !.imageMount = i, !.inner = d, !.propagation = p,
                   !.mounts = m] :
        s, i, d \in BOOLEAN,
        p \in {"", "private", "rprivate", "shared", "rshared", "slave", "rslave",
               "unbindable", "runbindable"},
        m \in {<<>>, Nested}}

(* Mounts of the configuration: none, the usual /dev and /proc, bind       *)
(* mounts with options, and one after another at the same place.           *)
MountLists ==
    {<<>>,
     <<Tmpfs(<<"dev">>, <<"nosuid">>), Tmpfs(<<"dev", "shm">>, <<"ro">>)>>,
     <<BindMount(<<"dev">>, <<"dev">>, <<"rbind", "rslave">>),
       BindMount(<<>>, <<"host">>, <<"bind", "rro", "rprivate">>)>>,
     <<BindMount(<<"srv">>, <<"data">>, <<"bind", "rshared">>),
       Tmpfs(<<"data">>, <<"ro", "rw", "unbindable">>)>>}

Protections ==
    {[masked |-> <<>>, readonlyPaths |-> <<>>],
     [masked |-> <<<<"proc", "acpi">>, <<"proc", "kcore">>, <<"proc", "asound">>>>,
      readonlyPaths |-> <<<<"proc", "sys">>>>],
     [masked |-> <<<<"proc", "kcore">>, <<"proc", "acpi">>>>,
      readonlyPaths |-> <<<<"proc", "sys">>, <<"proc">>>>],
     [masked |-> <<>>, readonlyPaths |-> <<<<"data">>, <<"proc", "asound">>>>]}

(* What the program finds, with and without a mount namespace.             *)
ViewConfigs ==
    {[Plain EXCEPT !.propagation = p, !.mounts = m, !.terminal = t, !.sysctl = s,
                   !.readonly = r, !.namespaces = n,
                   !.masked = q.masked, !.readonlyPaths = q.readonlyPaths,
                   !.devices = {<<"dev", "null">>, <<"dev", "fuse">>, <<"dev", "ptmx">>}] :
        p \in {"", "shared"}, m \in MountLists, q \in Protections,
        t, s, r \in BOOLEAN, n \in {<<>>, OwnMounts}}

(* Without a process, nothing is set up after start.                       *)
NoProcessConfigs ==
    {[Plain EXCEPT !.process = FALSE, !.terminal = t, !.namespaces = n] :
        t \in BOOLEAN, n \in {<<>>, OwnMounts}}

(* Hooks of every kind, alone and in pairs.                                *)
HookLists == {<<>>} \cup {<<h>> : h \in Hook} \cup
             {<<h, [exists |-> TRUE, timeout |-> "some"]>> :
                h \in {k \in Hook : k.exists}}
HookConfigs ==
    {[Plain EXCEPT !.createContainer = a, !.startContainer = b] : a, b \in HookLists}

(* Namespaces made and joined, in every order.                             *)
NamespaceLists ==
    LET entries(types, paths) == [type : types, path : paths]
        pairs == entries(NSTypes, {"", "named"}) \X entries(NSTypes, {"", "named"})
        triples == LET E == entries({"pid", "mnt", "net", "uts", "user"}, {"", "named"})
                   IN  E \X E \X E
    IN  {l \in pairs \cup triples : \A i, j \in DOMAIN l : i # j => l[i].type # l[j].type}
        \cup {<<e>> : e \in entries({"pid", "net"}, Paths)}
NamespaceConfigs ==
    {[Plain EXCEPT !.namespaces = l, !.timeOffsets = o] : l \in NamespaceLists, o \in BOOLEAN}

MCConfigs ==
    PropagationConfigs \cup ViewConfigs \cup NoProcessConfigs \cup HookConfigs
    \cup NamespaceConfigs

(* Read-only mounts as docker and podman ask for them.                     *)
ReadonlyConfigs ==
    {[Plain EXCEPT !.mounts = <<BindMount(<<"dev">>, <<"data">>, o)>>] :
        o \in {<<"rbind", "ro">>, <<"bind", "ro">>, <<"rbind", "rro">>}}

=============================================================================
