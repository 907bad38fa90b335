----------------------------- MODULE MountTree ------------------------------
(***************************************************************************)
(* Mount namespaces and their shared subtrees, as far as the runtime uses  *)
(* them: the part of the kernel behind mount(2), umount(2) and             *)
(* pivot_root(2).  A mount table is a sequence of mounts, a mount is named *)
(* by its index.  A dentry is a file system and a path in it; a place is a *)
(* mount and a dentry in it.                                               *)
(***************************************************************************)
EXTENDS Naturals, Sequences, FiniteSets, SequencesExt

(* group: the peer group of a shared mount, 0 if it is not shared; master: *)
(* the peer group a slave receives from, 0 if it is no slave.              *)
Mount ==
    [ns : {"host", "container", "none"}, parent : Nat, at : Seq(STRING), fs : STRING,
     root : Seq(STRING), group : Nat, master : Nat, unbindable : BOOLEAN, ro : BOOLEAN]

NewMount(fs, ro) ==
    [ns |-> "none", parent |-> 0, at |-> <<>>, fs |-> fs, root |-> <<>>, group |-> 0,
     master |-> 0, unbindable |-> FALSE, ro |-> ro]

Mounted(ms) == {i \in DOMAIN ms : ms[i].ns # "none"}

(* A set of mounts in the order of their indices.                          *)
Listed(ms, S) ==
    LET listed[n \in 0 .. Len(ms)] ==
            IF n = 0 THEN <<>>
            ELSE IF n \in S THEN Append(listed[n - 1], n) ELSE listed[n - 1]
    IN  listed[Len(ms)]

Place(m, d) == [mount |-> m, dentry |-> d]
RootOf(ms, m) == Place(m, ms[m].root)

(* A path that leads to the root of a mount is a mount point.              *)
IsRoot(ms, p) == p.dentry = ms[p.mount].root

-----------------------------------------------------------------------------
(* Path lookup.                                                            *)

Children(ms, m) == {i \in Mounted(ms) : ms[i].parent = m}

(* What is mounted right over a place, and one step of a lookup: to the    *)
(* root of the last of them.                                               *)
Over(ms, p) == {i \in Children(ms, p.mount) : ms[i].at = p.dentry}
Up(ms, p) == IF Over(ms, p) = {} THEN p ELSE RootOf(ms, Max(Over(ms, p)))

(* Where a lookup of p ends; a table of n mounts takes n steps at most.    *)
Top(ms, p) ==
    LET top[n \in 0 .. Len(ms)] == IF n = 0 THEN p ELSE Up(ms, top[n - 1])
    IN  IF Over(ms, p) = {} THEN p ELSE top[Len(ms)]

(* An absolute path, looked up by a process whose root is that of mount r. *)
Walk(ms, r, path) ==
    LET walk[n \in 0 .. Len(path)] ==
            IF n = 0 THEN RootOf(ms, r)
            ELSE LET p == walk[n - 1]
                 IN  Top(ms, Place(p.mount, Append(p.dentry, path[n])))
    IN  walk[Len(path)]

(* A set of mounts with those mounted on them, and the mount m with all    *)
(* that is below it.                                                       *)
With(ms, S) == S \cup {i \in Mounted(ms) : ms[i].parent \in S}

Tree(ms, m) ==
    LET tree[n \in 0 .. Len(ms)] == IF n = 0 THEN {m} ELSE With(ms, tree[n - 1])
    IN  tree[Len(ms)]

-----------------------------------------------------------------------------
(* Propagation.                                                            *)

(* The mounts that receive what happens in mount m at dentry d.            *)
Receivers(ms, m, d) ==
    {i \in Mounted(ms) \ {m} :
        /\ m # 0 /\ ms[m].group # 0
        /\ ms[m].group \in {ms[i].group, ms[i].master}
        /\ IsPrefix(ms[i].root, d)}

(* MS_SHARED, MS_SLAVE, MS_PRIVATE or MS_UNBINDABLE on the mounts S.       *)
SetKind(ms, S, kind) ==
    [i \in DOMAIN ms |->
        LET m == ms[i]
            peers == {j \in Mounted(ms) \ S : ms[j].group = m.group}
        IN  IF i \notin S THEN m ELSE
            CASE kind = "shared" ->
                    [m EXCEPT !.group = IF @ = 0 THEN i ELSE @, !.unbindable = FALSE]
              [] kind = "slave" ->
                    [m EXCEPT !.group = 0, !.unbindable = FALSE,
                              !.master = IF m.group # 0 /\ peers # {} THEN m.group ELSE @]
              [] OTHER ->
                    [m EXCEPT !.group = 0, !.master = 0, !.unbindable = (kind = "unbindable")]]

-----------------------------------------------------------------------------
(* Mounting.                                                               *)

(* A tree of mounts to attach is a sequence: the first one is its top, the *)
(* others have the index of their parent in it.  It is attached at p, and  *)
(* a copy of it wherever p's mount propagates to.                          *)
Targets(ms, p) == <<p.mount>> \o Listed(ms, Receivers(ms, p.mount, p.dentry))

(* Mount i of the copy for target t, which begins after mount base.  What  *)
(* is attached to a shared mount is shared.                                *)
Copy(ms, p, tree, t, i, base) ==
    LET dest == ms[p.mount]
        group == IF dest.group # 0 /\ tree[i].group = 0 THEN Len(ms) + i ELSE tree[i].group
        slave == ms[t].group # dest.group
    IN  [tree[i] EXCEPT
            !.ns = ms[t].ns,
            !.at = IF i = 1 THEN p.dentry ELSE @,
            !.parent = IF i = 1 THEN t ELSE base + @,
            !.group = IF slave THEN 0 ELSE group,
            !.master = IF slave THEN group ELSE @]

Copies(ms, p, tree) ==
    [n \in 1 .. Len(Targets(ms, p)) * Len(tree) |->
        LET c == (n - 1) \div Len(tree)
        IN  Copy(ms, p, tree, Targets(ms, p)[c + 1], ((n - 1) % Len(tree)) + 1,
                 Len(ms) + c * Len(tree))]

Attach(ms, p, tree) == ms \o Copies(ms, p, tree)

Bindable(ms, p) ==
    LET kids(i, d) == {j \in Children(ms, i) : IsPrefix(d, ms[j].at) /\ ~ms[j].unbindable}
        below[n \in 0 .. Len(ms)] ==
            IF n = 0 THEN kids(p.mount, p.dentry)
            ELSE below[n - 1] \cup UNION {kids(i, ms[i].root) : i \in below[n - 1]}
    IN  below[Len(ms)]

(* The mounts a bind mount of p takes; unbindable ones are left out.       *)
Taken(ms, p, rec) == <<p.mount>> \o Listed(ms, IF rec THEN Bindable(ms, p) ELSE {})

(* The tree it attaches.  Clones stay in their peer group and keep their   *)
(* flags.                                                                  *)
Clone(ms, p, rec) ==
    LET ids == Taken(ms, p, rec)
    IN  [i \in DOMAIN ids |->
            [ms[ids[i]] EXCEPT
                !.root = IF i = 1 THEN p.dentry ELSE @,
                !.parent = IF i = 1 THEN 0 ELSE CHOOSE j \in DOMAIN ids : ids[j] = @]]

CanBind(ms, p) == ~ms[p.mount].unbindable

Bind(ms, from, to, rec) == Attach(ms, to, Clone(ms, from, rec))

SetReadonly(ms, S) ==
    [i \in DOMAIN ms |-> IF i \in S THEN [ms[i] EXCEPT !.ro = TRUE] ELSE ms[i]]

-----------------------------------------------------------------------------
(* Unmounting and pivot_root.                                              *)

Forget(ms, S) ==
    [i \in DOMAIN ms |-> IF i \in S THEN [ms[i] EXCEPT !.ns = "none"] ELSE ms[i]]

(* MNT_DETACH of mount m: its tree goes, and what is mounted at the same   *)
(* dentries of the mounts its parents propagate to.                        *)
Detach(ms, m) ==
    LET tree == Tree(ms, m)
    IN  Forget(ms, tree \cup
            {i \in Mounted(ms) : \E u \in tree :
                /\ ms[i].at = ms[u].at
                /\ ms[i].parent \in Receivers(ms, ms[u].parent, ms[u].at)})

(* The new root is the root of a mount that is not the current root, and   *)
(* neither it (where the old root goes) nor its parent is shared.          *)
CanPivot(ms, old, new) ==
    /\ IsRoot(ms, new)
    /\ new.mount # old
    /\ ms[new.mount].group = 0
    /\ ms[ms[new.mount].parent].group = 0

(* pivot_root(".", "."): the old root ends up over the new one.            *)
Pivot(ms, old, new) ==
    [ms EXCEPT ![new].parent = 0,
               ![old].parent = new, ![old].at = ms[new].root]

(* CLONE_NEWNS: a copy of every mount, in the same peer groups.            *)
CloneNamespace(ms) ==
    ms \o [i \in DOMAIN ms |->
              [ms[i] EXCEPT !.ns = "container",
                            !.parent = IF @ = 0 THEN 0 ELSE Len(ms) + @]]

=============================================================================
