--------------------------- MODULE SecurityProofs ---------------------------
(* What ProcessSecurity guarantees for every kernel, table of              *)
(* capabilities, host and configuration.                                   *)
EXTENDS ProcessSecurity, TLAPS

(* The steps up to SetUser, those after it up to the program, and those    *)
(* with the new capability sets in force.                                  *)
Early == {"seccompPrivileged", "dropBounding", "keepCaps", "setUser"}
CapsSet == {"clearKeepCaps", "noNewPrivs", "seccomp", "exec"}
Late == {"capset", "ambient"} \cup CapsSet

HasCaps == opts.capabilities # None
HasBounding == HasCaps /\ opts.capabilities.bounding # None
Retained == resolveCaps(opts.capabilities.bounding)
Raised == Wanted("ambient") \cap Wanted("permitted") \cap Wanted("inheritable")

(* Nothing is given up before SetUser but bounding capabilities.           *)
EarlyInv ==
    pc \in Early =>
        /\ cred.root
        /\ cred.permitted = host
        /\ cred.effective = host
        /\ cred.ambient = {}
        /\ ~HasCaps => ~cred.keepCaps
        /\ pc = "setUser" /\ HasCaps /\ ~opts.user.root => cred.keepCaps

(* Up to capset nothing is inheritable.                                    *)
InheritableInv == pc \in Early \cup {"capset"} => cred.inheritable = {}

(* Before the bounding set is touched it is the host's; afterwards what is *)
(* left lies within the list and keeps what the list and the host share.   *)
BoundingInv ==
    /\ \/ pc \in {"seccompPrivileged", "dropBounding"}
       \/ ~HasBounding /\ pc \in Early \cup Late
       => cred.bounding = host
    /\ HasBounding /\ pc \in {"keepCaps", "setUser"} \cup Late =>
          cred.bounding = host \cap Retained

(* SetUser has taken effect; a user other than root kept its permitted     *)
(* set until capset, if it asked for capabilities at all.                  *)
UserInv ==
    /\ pc \in Late => (cred.root <=> opts.user.root)
    /\ pc \in {"capset", "ambient", "clearKeepCaps"} => HasCaps
    /\ pc = "capset" => cred.permitted = host
    /\ pc \in Late /\ ~HasCaps /\ ~opts.user.root => cred.permitted = {} /\ cred.ambient = {}

(* The sets after capset, and after the ambient ones were raised.          *)
CapsInv ==
    /\ pc \in {"ambient"} \cup CapsSet /\ HasCaps =>
          /\ cred.permitted = Wanted("permitted")
          /\ cred.inheritable = Wanted("inheritable")
    /\ pc \in CapsSet /\ HasCaps => cred.ambient = Raised

(* no_new_privs and the filter.                                            *)
FilterInv ==
    /\ pc \in {"seccomp", "exec"} => (cred.noNewPrivs <=> opts.noNewPrivs)
    /\ pc \in Early \cup {"capset", "ambient", "clearKeepCaps", "noNewPrivs"} => ~cred.noNewPrivs
    /\ pc = "seccompPrivileged" => filter = None
    /\ pc = "exec" => filter = opts.seccomp
    /\ pc \in (Early \cup Late) \ {"seccompPrivileged", "exec"} =>
          filter = IF opts.noNewPrivs THEN None ELSE opts.seccomp

Inv ==
    /\ TypeOK
    /\ EarlyInv /\ InheritableInv /\ BoundingInv /\ UserInv /\ CapsInv /\ FilterInv
    /\ WithinRequest /\ FilterAsRequested

USE DEF Early, CapsSet, Late, HasCaps, HasBounding, Retained, Raised

(* What is resolved lies in the table.                                     *)
LEMMA OptionsType ==
    ASSUME TypeOK
    PROVE  /\ opts.user.root \in BOOLEAN
           /\ opts.noNewPrivs \in BOOLEAN
           /\ host \in SUBSET Caps
           /\ opts.seccomp \in (SUBSET Calls) \cup {None}
           /\ cred = [root |-> cred.root, permitted |-> cred.permitted,
                      effective |-> cred.effective, inheritable |-> cred.inheritable,
                      bounding |-> cred.bounding, ambient |-> cred.ambient,
                      keepCaps |-> cred.keepCaps, noNewPrivs |-> cred.noNewPrivs]
  BY SecurityAssumption DEF TypeOK, Options, Credentials

(* Wanted names capabilities the kernel knows.                             *)
LEMMA WantedType == \A set : Wanted(set) \in SUBSET Caps
  BY DEF Wanted

(* The invariant holds initially.                                          *)
LEMMA InitInv == Init => Inv
  <1> SUFFICES ASSUME Init PROVE Inv
    OBVIOUS
  <1>1. TypeOK
    BY SecurityAssumption DEF Init, TypeOK, Steps, Credentials
  <1>2. EarlyInv /\ InheritableInv /\ BoundingInv /\ UserInv /\ CapsInv /\ FilterInv
    BY DEF Init, EarlyInv, InheritableInv, BoundingInv, UserInv, CapsInv, FilterInv
  <1> QED
    BY <1>1, <1>2 DEF Init, Inv, WithinRequest, FilterAsRequested

(* Every step keeps the types.                                             *)
LEMMA StepType == TypeOK /\ [Next]_vars => TypeOK'
  <1> SUFFICES ASSUME TypeOK, [Next]_vars PROVE TypeOK'
    OBVIOUS
  <1> USE OptionsType, WantedType DEF TypeOK, Steps, Credentials
  <1>1. CASE SeccompPrivileged
    BY <1>1 DEF SeccompPrivileged, LoadSeccompFilter, Goto, Proceed
  <1>2. CASE DropBoundingCapabilities
    BY <1>2 DEF DropBoundingCapabilities, Try, Goto, Proceed
  <1>3. CASE SetKeepCaps
    BY <1>3 DEF SetKeepCaps, Try, Goto, Proceed
  <1>4. CASE SetUser
    BY <1>4, ZenonT(60) DEF SetUser, Try, Goto, Proceed, Unprivileged
  <1>5. CASE Capset
    BY <1>5, ZenonT(60) DEF Capset, Try, Goto, Proceed
  <1>6. CASE RaiseAmbient
    BY <1>6 DEF RaiseAmbient, Try, Goto, Proceed
  <1>7. CASE ClearKeepCaps
    BY <1>7 DEF ClearKeepCaps, Try, Goto, Proceed
  <1>8. CASE SetNoNewPrivs
    BY <1>8 DEF SetNoNewPrivs, Try, Goto, Proceed
  <1>9. CASE Seccomp
    BY <1>9 DEF Seccomp, LoadSeccompFilter, Goto, Proceed
  <1>10. CASE LabelsFail
    BY <1>10 DEF LabelsFail, Goto, Proceed
  <1>11. CASE Exec
    BY <1>11 DEF Exec, Proceed
  <1>12. CASE UNCHANGED vars
    BY <1>12 DEF vars
  <1> QED
    BY <1>1, <1>2, <1>3, <1>4, <1>5, <1>6, <1>7, <1>8, <1>9, <1>10, <1>11, <1>12 DEF Next

(* The configuration never changes, and with it what is wanted.            *)
LEMMA Fixed ==
    ASSUME [Next]_vars
    PROVE  /\ opts' = opts /\ host' = host
           /\ Wanted("permitted")' = Wanted("permitted")
           /\ Wanted("effective")' = Wanted("effective")
           /\ Wanted("inheritable")' = Wanted("inheritable")
           /\ Wanted("ambient")' = Wanted("ambient")
           /\ resolveCaps(opts.capabilities.bounding)' = resolveCaps(opts.capabilities.bounding)
  <1>1. opts' = opts /\ host' = host
    BY DEF Next, vars, SeccompPrivileged, DropBoundingCapabilities, SetKeepCaps, SetUser, Capset,
       RaiseAmbient, ClearKeepCaps, SetNoNewPrivs, Seccomp, LabelsFail, Exec, LoadSeccompFilter,
       Try, Goto, Proceed
  <1> QED
    BY <1>1 DEF Wanted, isPrivileged, resolveCaps

(* All of the invariant but the types.                                     *)
Parts ==
    /\ EarlyInv /\ InheritableInv /\ BoundingInv /\ UserInv /\ CapsInv /\ FilterInv
    /\ WithinRequest /\ FilterAsRequested

(* Each part speaks of certain steps only, so nothing is left to show when *)
(* the process has failed.                                                 *)
LEMMA FailedParts == pc' = "failed" => Parts'
  BY DEF Parts, EarlyInv, InheritableInv, BoundingInv, UserInv, CapsInv, FilterInv,
     WithinRequest, FilterAsRequested

(* The members of the new credentials, from the types.                     *)
LEMMA CredMembers ==
    ASSUME TypeOK
    PROVE  DOMAIN cred = {"root", "permitted", "effective", "inheritable", "bounding",
                          "ambient", "keepCaps", "noNewPrivs"}
  BY DEF TypeOK, Credentials

(* What each step that succeeds does, member by member.                    *)
LEMMA SeccompPrivilegedEffect ==
    ASSUME TypeOK, SeccompPrivileged, pc' # "failed"
    PROVE  /\ pc = "seccompPrivileged" /\ pc' = "dropBounding" /\ cred' = cred
           /\ filter' = IF opts.seccomp # None /\ ~opts.noNewPrivs THEN opts.seccomp ELSE filter
  BY DEF SeccompPrivileged, LoadSeccompFilter, Goto, Proceed

(* What each step changes if it succeeds.  Dropping only takes from the    *)
(* bounding set.                                                           *)
LEMMA DropBoundingEffect ==
    ASSUME TypeOK, DropBoundingCapabilities, pc' # "failed"
    PROVE  /\ pc = "dropBounding" /\ pc' = "keepCaps" /\ filter' = filter
           /\ cred' = [cred EXCEPT !.bounding = cred'.bounding]
           /\ cred'.bounding = IF HasBounding THEN cred.bounding \ (Caps \ Retained)
                                              ELSE cred.bounding
  <1>1. CASE HasBounding
    BY <1>1, CredMembers DEF DropBoundingCapabilities, Try, Goto, Proceed
  <1>2. CASE ~HasBounding
    BY <1>2, CredMembers, OptionsType DEF DropBoundingCapabilities, Goto, Proceed
  <1> QED
    BY <1>1, <1>2

(* Only the flag changes.                                                  *)
LEMMA SetKeepCapsEffect ==
    ASSUME TypeOK, SetKeepCaps, pc' # "failed"
    PROVE  /\ pc = "keepCaps" /\ pc' = "setUser" /\ filter' = filter
           /\ cred' = [cred EXCEPT !.keepCaps = cred'.keepCaps]
           /\ cred'.keepCaps = IF ~opts.user.root /\ HasCaps THEN TRUE ELSE cred.keepCaps
  <1>1. CASE ~opts.user.root /\ HasCaps
    BY <1>1, CredMembers DEF SetKeepCaps, Try, Goto, Proceed
  <1>2. CASE ~(~opts.user.root /\ HasCaps)
    BY <1>2, CredMembers, OptionsType DEF SetKeepCaps, Goto, Proceed
  <1> QED
    BY <1>1, <1>2

(* Another user than root loses what the flag does not keep.               *)
LEMMA SetUserEffect ==
    ASSUME TypeOK, SetUser, pc' # "failed"
    PROVE  /\ pc = "setUser" /\ filter' = filter
           /\ pc' = IF HasCaps THEN "capset" ELSE "noNewPrivs"
           /\ cred' = IF opts.user.root THEN cred ELSE Unprivileged(cred)
  BY DEF SetUser, Try, Goto, Proceed

(* The sets become those of the configuration, as far as the kernel lets   *)
(* them.                                                                   *)
LEMMA CapsetEffect ==
    ASSUME TypeOK, Capset, pc' # "failed"
    PROVE  /\ pc = "capset" /\ pc' = "ambient" /\ filter' = filter
           /\ cred'.root = cred.root
           /\ cred'.permitted = Wanted("permitted")
           /\ cred'.inheritable = Wanted("inheritable")
           /\ cred'.bounding = cred.bounding
           /\ cred'.noNewPrivs = cred.noNewPrivs
  <1>1. /\ pc = "capset" /\ pc' = "ambient" /\ filter' = filter
        /\ cred' = [cred EXCEPT !.permitted = Wanted("permitted"),
                        !.effective = Wanted("effective"),
                        !.inheritable = Wanted("inheritable"),
                        !.ambient = @ \cap Wanted("permitted") \cap Wanted("inheritable")]
    BY DEF Capset, Try, Goto, Proceed
  <1> QED
    BY <1>1, CredMembers

(* Only the ambient set changes.                                           *)
LEMMA RaiseAmbientEffect ==
    ASSUME TypeOK, RaiseAmbient, pc' # "failed"
    PROVE  /\ pc = "ambient" /\ pc' = "clearKeepCaps" /\ filter' = filter
           /\ cred' = [cred EXCEPT !.ambient = cred'.ambient]
           /\ cred'.ambient = Wanted("ambient") \cap cred.permitted \cap cred.inheritable
  <1>1. /\ pc = "ambient" /\ pc' = "clearKeepCaps" /\ filter' = filter
        /\ cred' = [cred EXCEPT !.ambient =
                        Wanted("ambient") \cap cred.permitted \cap cred.inheritable]
    BY DEF RaiseAmbient, Try, Goto, Proceed
  <1> QED
    BY <1>1, CredMembers

(* Only the flag changes.                                                  *)
LEMMA ClearKeepCapsEffect ==
    ASSUME TypeOK, ClearKeepCaps, pc' # "failed"
    PROVE  /\ pc = "clearKeepCaps" /\ pc' = "noNewPrivs" /\ filter' = filter
           /\ cred'.root = cred.root
           /\ cred'.permitted = cred.permitted
           /\ cred'.inheritable = cred.inheritable
           /\ cred'.bounding = cred.bounding
           /\ cred'.ambient = cred.ambient
           /\ cred'.noNewPrivs = cred.noNewPrivs
  BY CredMembers DEF ClearKeepCaps, Try, Goto, Proceed

(* Only no_new_privs changes.                                              *)
LEMMA SetNoNewPrivsEffect ==
    ASSUME TypeOK, SetNoNewPrivs, pc' # "failed"
    PROVE  /\ pc = "noNewPrivs" /\ pc' = "seccomp" /\ filter' = filter
           /\ cred' = [cred EXCEPT !.noNewPrivs = cred'.noNewPrivs]
           /\ cred'.noNewPrivs = IF opts.noNewPrivs THEN TRUE ELSE cred.noNewPrivs
  <1>1. CASE opts.noNewPrivs
    BY <1>1, CredMembers DEF SetNoNewPrivs, Try, Goto, Proceed
  <1>2. CASE ~opts.noNewPrivs
    BY <1>2, CredMembers, OptionsType DEF SetNoNewPrivs, Goto, Proceed
  <1> QED
    BY <1>1, <1>2

(* The filter is loaded here if no_new_privs is set.                       *)
LEMMA SeccompEffect ==
    ASSUME TypeOK, Seccomp, pc' # "failed"
    PROVE  /\ pc = "seccomp" /\ pc' = "exec" /\ cred' = cred
           /\ filter' = IF opts.seccomp # None /\ opts.noNewPrivs THEN opts.seccomp ELSE filter
  BY DEF Seccomp, LoadSeccompFilter, Goto, Proceed

(* What execve makes of the sets.                                          *)
LEMMA ExecEffect ==
    ASSUME TypeOK, Exec
    PROVE  /\ pc = "exec" /\ pc' = "program" /\ filter' = filter
           /\ cred'.permitted = IF cred.root THEN cred.inheritable \cup cred.bounding
                                             ELSE cred.ambient
           /\ cred'.noNewPrivs = cred.noNewPrivs
  BY CredMembers DEF Exec, Proceed

(* Every step keeps the invariant.                                         *)
LEMMA StepInv == Inv /\ [Next]_vars => Inv'
  <1> SUFFICES ASSUME Inv, [Next]_vars PROVE Inv'
    OBVIOUS
  <1>t. TypeOK /\ TypeOK'
    BY StepType DEF Inv
  <1>p. Parts
    BY DEF Inv, Parts
  <1> SUFFICES Parts'
    BY <1>t DEF Inv, Parts
  <1>h. host \subseteq Caps
    BY <1>t, OptionsType
  <1>1. CASE SeccompPrivileged
    <2> SUFFICES ASSUME pc' # "failed" PROVE Parts'
      BY FailedParts
    <2> USE <1>t, <1>p, <1>1, SeccompPrivilegedEffect, CredMembers, Fixed DEF Parts
    <2>1. EarlyInv'
      BY OptionsType DEF EarlyInv
    <2>2. InheritableInv'
      BY OptionsType DEF InheritableInv
    <2>3. BoundingInv'
      BY <1>h, OptionsType DEF BoundingInv
    <2>4. UserInv'
      BY OptionsType DEF UserInv
    <2>5. CapsInv'
      BY OptionsType DEF CapsInv
    <2>6. FilterInv'
      BY OptionsType DEF FilterInv
    <2>7. WithinRequest' /\ FilterAsRequested'
      BY DEF WithinRequest, FilterAsRequested
    <2> QED
      BY <2>1, <2>2, <2>3, <2>4, <2>5, <2>6, <2>7
  <1>2. CASE DropBoundingCapabilities
    <2> SUFFICES ASSUME pc' # "failed" PROVE Parts'
      BY FailedParts
    <2> USE <1>t, <1>p, <1>2, DropBoundingEffect, CredMembers, Fixed DEF Parts
    <2>1. EarlyInv'
      BY OptionsType DEF EarlyInv
    <2>2. InheritableInv'
      BY OptionsType DEF InheritableInv
    <2>3. BoundingInv'
      BY <1>h, OptionsType DEF BoundingInv
    <2>4. UserInv'
      BY OptionsType DEF UserInv
    <2>5. CapsInv'
      BY OptionsType DEF CapsInv
    <2>6. FilterInv'
      BY OptionsType DEF FilterInv
    <2>7. WithinRequest' /\ FilterAsRequested'
      BY DEF WithinRequest, FilterAsRequested
    <2> QED
      BY <2>1, <2>2, <2>3, <2>4, <2>5, <2>6, <2>7
  <1>3. CASE SetKeepCaps
    <2> SUFFICES ASSUME pc' # "failed" PROVE Parts'
      BY FailedParts
    <2> USE <1>t, <1>p, <1>3, SetKeepCapsEffect, CredMembers, Fixed DEF Parts
    <2>1. EarlyInv'
      BY OptionsType DEF EarlyInv
    <2>2. InheritableInv'
      BY OptionsType DEF InheritableInv
    <2>3. BoundingInv'
      BY <1>h, OptionsType DEF BoundingInv
    <2>4. UserInv'
      BY OptionsType DEF UserInv
    <2>5. CapsInv'
      BY OptionsType DEF CapsInv
    <2>6. FilterInv'
      BY OptionsType DEF FilterInv
    <2>7. WithinRequest' /\ FilterAsRequested'
      BY DEF WithinRequest, FilterAsRequested
    <2> QED
      BY <2>1, <2>2, <2>3, <2>4, <2>5, <2>6, <2>7
  <1>4. CASE SetUser
    <2> SUFFICES ASSUME pc' # "failed" PROVE Parts'
      BY FailedParts
    <2> USE <1>t, <1>p, <1>4, SetUserEffect, CredMembers, Fixed DEF Parts
    <2>1. EarlyInv'
      BY OptionsType DEF EarlyInv, Unprivileged
    <2>2. InheritableInv'
      BY OptionsType DEF InheritableInv, Unprivileged
    <2>3. BoundingInv'
      BY <1>h, OptionsType DEF BoundingInv, Unprivileged
    <2>4. UserInv'
      BY OptionsType DEF UserInv, EarlyInv, Unprivileged
    <2>5. CapsInv'
      BY OptionsType DEF CapsInv, Unprivileged
    <2>6. FilterInv'
      BY OptionsType DEF FilterInv, Unprivileged
    <2>7. WithinRequest' /\ FilterAsRequested'
      BY DEF WithinRequest, FilterAsRequested
    <2> QED
      BY <2>1, <2>2, <2>3, <2>4, <2>5, <2>6, <2>7
  <1>5. CASE Capset
    <2> SUFFICES ASSUME pc' # "failed" PROVE Parts'
      BY FailedParts
    <2> USE <1>t, <1>p, <1>5, CapsetEffect, CredMembers, Fixed DEF Parts
    <2>1. EarlyInv'
      BY OptionsType DEF EarlyInv
    <2>2. InheritableInv'
      BY OptionsType DEF InheritableInv
    <2>3. BoundingInv'
      BY <1>h, OptionsType DEF BoundingInv
    <2>4. UserInv'
      BY OptionsType DEF UserInv
    <2>5. CapsInv'
      BY OptionsType DEF CapsInv
    <2>6. FilterInv'
      BY OptionsType DEF FilterInv
    <2>7. WithinRequest' /\ FilterAsRequested'
      BY DEF WithinRequest, FilterAsRequested
    <2> QED
      BY <2>1, <2>2, <2>3, <2>4, <2>5, <2>6, <2>7
  <1>6. CASE RaiseAmbient
    <2> SUFFICES ASSUME pc' # "failed" PROVE Parts'
      BY FailedParts
    <2> USE <1>t, <1>p, <1>6, RaiseAmbientEffect, CredMembers, Fixed DEF Parts
    <2>1. EarlyInv'
      BY OptionsType DEF EarlyInv
    <2>2. InheritableInv'
      BY OptionsType DEF InheritableInv
    <2>3. BoundingInv'
      BY <1>h, OptionsType DEF BoundingInv
    <2>4. UserInv'
      BY OptionsType DEF UserInv
    <2>5. CapsInv'
      BY OptionsType DEF CapsInv
    <2>6. FilterInv'
      BY OptionsType DEF FilterInv
    <2>7. WithinRequest' /\ FilterAsRequested'
      BY DEF WithinRequest, FilterAsRequested
    <2> QED
      BY <2>1, <2>2, <2>3, <2>4, <2>5, <2>6, <2>7
  <1>7. CASE ClearKeepCaps
    <2> SUFFICES ASSUME pc' # "failed" PROVE Parts'
      BY FailedParts
    <2> USE <1>t, <1>p, <1>7, ClearKeepCapsEffect, CredMembers, Fixed DEF Parts
    <2>1. EarlyInv'
      BY OptionsType DEF EarlyInv
    <2>2. InheritableInv'
      BY OptionsType DEF InheritableInv
    <2>3. BoundingInv'
      BY <1>h, OptionsType DEF BoundingInv
    <2>4. UserInv'
      BY OptionsType DEF UserInv
    <2>5. CapsInv'
      BY OptionsType DEF CapsInv
    <2>6. FilterInv'
      BY OptionsType DEF FilterInv
    <2>7. WithinRequest' /\ FilterAsRequested'
      BY DEF WithinRequest, FilterAsRequested
    <2> QED
      BY <2>1, <2>2, <2>3, <2>4, <2>5, <2>6, <2>7
  <1>8. CASE SetNoNewPrivs
    <2> SUFFICES ASSUME pc' # "failed" PROVE Parts'
      BY FailedParts
    <2> USE <1>t, <1>p, <1>8, SetNoNewPrivsEffect, CredMembers, Fixed DEF Parts
    <2>1. EarlyInv'
      BY OptionsType DEF EarlyInv
    <2>2. InheritableInv'
      BY OptionsType DEF InheritableInv
    <2>3. BoundingInv'
      BY <1>h, OptionsType DEF BoundingInv
    <2>4. UserInv'
      BY OptionsType DEF UserInv
    <2>5. CapsInv'
      BY OptionsType DEF CapsInv
    <2>6. FilterInv'
      BY OptionsType DEF FilterInv
    <2>7. WithinRequest' /\ FilterAsRequested'
      BY DEF WithinRequest, FilterAsRequested
    <2> QED
      BY <2>1, <2>2, <2>3, <2>4, <2>5, <2>6, <2>7
  <1>9. CASE Seccomp
    <2> SUFFICES ASSUME pc' # "failed" PROVE Parts'
      BY FailedParts
    <2> USE <1>t, <1>p, <1>9, SeccompEffect, CredMembers, Fixed DEF Parts
    <2>1. EarlyInv'
      BY OptionsType DEF EarlyInv
    <2>2. InheritableInv'
      BY OptionsType DEF InheritableInv
    <2>3. BoundingInv'
      BY <1>h, OptionsType DEF BoundingInv
    <2>4. UserInv'
      BY OptionsType DEF UserInv
    <2>5. CapsInv'
      BY OptionsType DEF CapsInv
    <2>6. FilterInv'
      BY OptionsType DEF FilterInv
    <2>7. WithinRequest' /\ FilterAsRequested'
      BY DEF WithinRequest, FilterAsRequested
    <2> QED
      BY <2>1, <2>2, <2>3, <2>4, <2>5, <2>6, <2>7
  <1>10. CASE LabelsFail
    BY <1>10, FailedParts DEF LabelsFail, Goto, Proceed
  <1>11. CASE Exec
    <2> USE <1>t, <1>p, <1>11, ExecEffect, Fixed DEF Parts
    <2>1. EarlyInv' /\ InheritableInv' /\ BoundingInv' /\ UserInv' /\ CapsInv' /\ FilterInv'
      BY DEF EarlyInv, InheritableInv, BoundingInv, UserInv, CapsInv, FilterInv
    <2>2. WithinRequest'
      BY <1>h, OptionsType, WantedType DEF BoundingInv, UserInv, CapsInv, WithinRequest
    <2>3. FilterAsRequested'
      BY OptionsType DEF FilterInv, FilterAsRequested
    <2> QED
      BY <2>1, <2>2, <2>3
  <1>12. CASE UNCHANGED vars
    BY <1>p, <1>12 DEF vars, Parts, EarlyInv, InheritableInv, BoundingInv, UserInv, CapsInv,
       FilterInv, WithinRequest, FilterAsRequested, Wanted, isPrivileged
  <1> QED
    BY <1>1, <1>2, <1>3, <1>4, <1>5, <1>6, <1>7, <1>8, <1>9, <1>10, <1>11, <1>12 DEF Next

(* Types, for every kernel, table, host and configuration.                 *)
THEOREM SecurityTypeCorrect == Spec => []TypeOK
  <1>1. Init => TypeOK
    BY InitInv DEF Inv
  <1> QED
    BY <1>1, StepType, PTL DEF Spec

(* The invariant holds of every behaviour.                                 *)
LEMMA Invariant == Spec => []Inv
  BY InitInv, StepInv, PTL DEF Spec

(* The program never has a capability its configuration does not give it:  *)
(* no order of the steps, and no refusal the code ignores, leaves one.     *)
THEOREM NothingBeyondRequest == Spec => []WithinRequest
  <1>1. Inv => WithinRequest
    BY DEF Inv
  <1> QED
    BY <1>1, Invariant, PTL

(* The program runs under its filter and with its no_new_privs flag.       *)
THEOREM FilterInForce == Spec => []FilterAsRequested
  <1>1. Inv => FilterAsRequested
    BY DEF Inv
  <1> QED
    BY <1>1, Invariant, PTL

(* No step gives up what a later one needs.                                *)
LEMMA NoRefusal ==
    ASSUME Inv, [Next]_vars, Grantable, pc # "exec", pc' # pc
    PROVE  pc' # "failed"
  <1> USE OptionsType, WantedType
      DEF Inv, EarlyInv, InheritableInv, BoundingInv, UserInv, CapsInv, FilterInv, TypeOK,
          Credentials, Grantable
  <1>0. pc \in Early \cup Late => ~Denied("prctl") /\ ~Denied("setid") /\ ~Denied("capset")
    BY DEF Denied
  <1>1. CASE SeccompPrivileged
    BY <1>1 DEF SeccompPrivileged, LoadSeccompFilter, Goto, Proceed
  <1>2. CASE DropBoundingCapabilities
    BY <1>0, <1>2 DEF DropBoundingCapabilities, Try, Goto, Proceed
  <1>3. CASE SetKeepCaps
    BY <1>0, <1>3 DEF SetKeepCaps, Try, Goto, Proceed
  <1>4. CASE SetUser
    BY <1>0, <1>4 DEF SetUser, Try, Goto, Proceed
  <1>5. CASE Capset
    BY <1>0, <1>5 DEF Capset, Try, Goto, Proceed
  <1>6. CASE RaiseAmbient
    BY <1>0, <1>6 DEF RaiseAmbient, Try, Goto, Proceed
  <1>7. CASE ClearKeepCaps
    BY <1>0, <1>7 DEF ClearKeepCaps, Try, Goto, Proceed
  <1>8. CASE SetNoNewPrivs
    BY <1>0, <1>8 DEF SetNoNewPrivs, Try, Goto, Proceed
  <1>9. CASE Seccomp
    BY <1>9 DEF Seccomp, LoadSeccompFilter, Goto, Proceed
  <1> QED
    BY <1>1, <1>2, <1>3, <1>4, <1>5, <1>6, <1>7, <1>8, <1>9
       DEF Next, vars, LabelsFail, Exec

(* A configuration the kernel can grant is granted.                        *)
THEOREM Granted == Spec => GrantableIsGranted
  <1>1. Inv /\ [Next]_vars => [Grantable /\ pc # "exec" => pc' # "failed"]_vars
    <2> SUFFICES ASSUME Inv, [Next]_vars, Grantable, pc # "exec", ~UNCHANGED vars
                 PROVE  pc' # "failed"
      OBVIOUS
    <2>1. pc' # pc
      BY DEF Next, vars, SeccompPrivileged, DropBoundingCapabilities, SetKeepCaps, SetUser,
         Capset, RaiseAmbient, ClearKeepCaps, SetNoNewPrivs, Seccomp, LabelsFail, Exec,
         LoadSeccompFilter, Try, Goto, Proceed
    <2> QED
      BY <2>1, NoRefusal
  <1> QED
    BY <1>1, Invariant, PTL DEF Spec, GrantableIsGranted

=============================================================================
