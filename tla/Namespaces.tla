----------------------------- MODULE Namespaces -----------------------------
(***************************************************************************)
(* The namespaces of a container: create goes through the list of the      *)
(* configuration, in its order, and decides for each entry whether the     *)
(* fork makes a new one, the runtime enters it for its children (pid), or  *)
(* the forked process joins it in nssetup, before Go starts.  The runtime  *)
(* opens a path to check it; the process opens it again to join.           *)
(***************************************************************************)
EXTENDS Naturals, Sequences

VARIABLES
    nsStep,     \* the next step
    nsNext,     \* index of the next entry of the list
    flags,      \* SysProcAttr.Cloneflags, as a set of types
    mapped,     \* SysProcAttr.UidMappings and GidMappings are set
    parts,      \* _ANOCIR_JOIN_NS: the types to join
    ns          \* the namespaces of the process, before the fork of its parent's children

nsVars == <<nsStep, nsNext, flags, mapped, parts, ns>>

NSTypes == {"pid", "net", "mnt", "ipc", "uts", "user", "cgroup", "time"}

(* "": no path; "wrong": a file that is not a namespace of this type;      *)
(* "missing": no file; "named": the namespace meant.                       *)
Paths == {"", "named", "wrong", "missing"}

(* The runtime's own namespace, a new one, the one the path names for the  *)
(* runtime, or one that the same path names elsewhere.                     *)
Namespace == {"host", "new", "named", "other"}

NamespacesTypeOK ==
    /\ nsStep \in {"configure", "join", "joined", "failed"}
    /\ nsNext \in Nat
    /\ flags \subseteq NSTypes
    /\ mapped \in BOOLEAN
    /\ parts \in Seq(NSTypes)
    /\ ns \in [NSTypes -> Namespace]

NamespacesInit ==
    /\ nsStep = "configure"
    /\ nsNext = 1
    /\ flags = {}
    /\ mapped = FALSE
    /\ parts = <<>>
    /\ ns = [t \in NSTypes |-> "host"]

-----------------------------------------------------------------------------
(* configureNamespaces, in the runtime.                                    *)

(* OpenNSPath checks the type of what it opens.                            *)
OpenNSPath(entry) == entry.path = "named"

MutantConfigure(entry) ==
    /\ entry.path # "" => OpenNSPath(entry)
    /\ flags' = IF entry.path = "" THEN flags \cup {entry.type} ELSE flags
    /\ parts' = IF entry.path = "" THEN parts ELSE Append(parts, entry.type)
    /\ UNCHANGED ns

(* What becomes of an entry, if nothing fails.                             *)
Configure(entry) ==
    \/ /\ entry.path = ""
       /\ flags' = flags \cup {entry.type}
       /\ UNCHANGED <<parts, ns>>
    \/ /\ entry.path # "" /\ entry.type = "pid" /\ OpenNSPath(entry)
       /\ ns' = [ns EXCEPT !["pid"] = "named"]
       /\ UNCHANGED <<flags, parts>>
    \/ /\ entry.path # "" /\ entry.type # "pid" /\ OpenNSPath(entry)
       /\ parts' = Append(parts, entry.type)
       /\ UNCHANGED <<flags, ns>>

(* The kernel refuses the time offsets: they are written for the time      *)
(* namespace of the runtime's children, which still is the runtime's own.  *)
SetTimeOffsets(entry, offsets) == ~(entry.type = "time" /\ offsets)

configureNamespaces(list, offsets) ==
    LET entry == list[nsNext]
    IN  /\ nsStep = "configure"
        /\ nsNext <= Len(list)
        /\ \/ /\ SetTimeOffsets(entry, offsets)
              /\ Configure(entry)
              /\ mapped' = (mapped \/ entry.type = "user")
              /\ nsNext' = nsNext + 1
              /\ UNCHANGED nsStep
           \/ /\ ~SetTimeOffsets(entry, offsets) \/ (entry.path # "" /\ ~OpenNSPath(entry))
              /\ nsStep' = "failed"
              /\ UNCHANGED <<nsNext, flags, mapped, parts, ns>>

(* cmd.Start.  The id mappings can only be written for a user namespace    *)
(* that is new.                                                            *)
CloneProcess(list) ==
    /\ nsStep = "configure" /\ nsNext > Len(list)
    /\ \/ /\ mapped => "user" \in flags
          /\ nsStep' = "join"
          /\ ns' = [t \in NSTypes |-> IF t \in flags THEN "new" ELSE ns[t]]
       \/ mapped /\ "user" \notin flags /\ nsStep' = "failed" /\ UNCHANGED ns
    /\ UNCHANGED <<nsNext, flags, mapped, parts>>

-----------------------------------------------------------------------------
(* nssetup, in the forked process.                                         *)

(* In a joined mount namespace the path may lead to another namespace.     *)
Resolved == IF ns["mnt"] = "named" THEN {"named", "other"} ELSE {"named"}

(* In a new user namespace the process has no privilege over namespaces    *)
(* made outside it.  A pid namespace is joined for children only.          *)
join_ns ==
    /\ nsStep = "join" /\ parts # <<>>
    /\ ns["user"] # "new"
    /\ \E n \in Resolved :
          ns' = IF Head(parts) = "pid" THEN ns ELSE [ns EXCEPT ![Head(parts)] = n]
    /\ parts' = Tail(parts)
    /\ UNCHANGED <<nsStep, nsNext, flags, mapped>>

Joined ==
    /\ nsStep = "join" /\ parts = <<>>
    /\ nsStep' = "joined"
    /\ UNCHANGED <<nsNext, flags, mapped, parts, ns>>

(* A call fails, in the runtime or in the process; so does join_ns when    *)
(* the namespace is gone by then.                                          *)
NamespacesFail ==
    /\ nsStep \in {"configure", "join"}
    /\ nsStep' = "failed"
    /\ UNCHANGED <<nsNext, flags, mapped, parts, ns>>

Namespacing(list, offsets) ==
    \/ configureNamespaces(list, offsets) \/ CloneProcess(list)
    \/ join_ns \/ Joined \/ NamespacesFail

-----------------------------------------------------------------------------
(* What the entries of a type ask for: of most types there is one at most. *)
Asked(list, t) ==
    LET entries == {i \in DOMAIN list : list[i].type = t}
    IN  IF entries = {} THEN {"host"}
        ELSE {IF list[i].path = "" THEN "new" ELSE "named" : i \in entries}

(* The mount namespace is joined before namespace t.                       *)
AfterMountJoin(list, t) ==
    \E i, j \in DOMAIN list :
        i < j /\ list[i].type = "mnt" /\ list[i].path # "" /\ list[j].type = t

=============================================================================
