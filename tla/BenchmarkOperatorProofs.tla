---------------------- MODULE BenchmarkOperatorProofs ----------------------
(***************************************************************************)
(* Theorems about BenchmarkOperator, for any operators, names, shared      *)
(* definitions, manifests and releases, and any number of mishaps.         *)
(***************************************************************************)
EXTENDS BenchmarkOperator, TLAPS

\* What the requests of one reconciliation are about.
RecOK == rec \in [pc : RecPCs, o : Operators \cup {None}, kind : Kinds,
                  groups : SUBSET Groups]

\* The reconciler's actions that continue a reconciliation, and the rest.
LEMMA NextCases ==
    ASSUME [Next]_vars, NEW P,
           UNCHANGED vars => P, Crash => P, Step => P,
           \A o \in Operators : UserCreates(o) => P,
           \A o \in Operators : UserDeletes(o) => P,
           \A o \in Operators : UserEdits(o) => P,
           \A o \in Operators : AddFinalizer(o) => P,
           \A o \in Operators : StartInstall(o) => P,
           \A o \in Operators : StartFinalize(o) => P
    PROVE  P
  BY DEF Next, Users, Take

\* A reconciliation that goes on changes its pc.
LEMMA RecFacts ==
    ASSUME RecOK, NEW p \in RecPCs
    PROVE  /\ rec.pc \in RecPCs /\ rec.o \in Operators \cup {None}
           /\ rec.kind \in Kinds /\ rec.groups \in SUBSET Groups
           /\ [rec EXCEPT !.pc = p] \in
                [pc : RecPCs, o : Operators \cup {None}, kind : Kinds,
                 groups : SUBSET Groups]
           /\ [rec EXCEPT !.pc = p].pc = p
           /\ [rec EXCEPT !.pc = p].o = rec.o
           /\ [rec EXCEPT !.pc = p].kind = rec.kind
  BY DEF RecOK

LEMMA IdleRecOK ==
    /\ IdleRec \in [pc : RecPCs, o : Operators \cup {None}, kind : Kinds,
                    groups : SUBSET Groups]
    /\ IdleRec.pc = "idle"
  BY DEF IdleRec, RecPCs, Kinds

\* The groups of definitions are groups.
LEMMA GroupsOfCRDs ==
    ASSUME NEW o \in Operators, NEW created \in SUBSET CRDsOf[o]
    PROVE  {GroupOf[c] : c \in created} \subseteq Groups
  BY DEF Groups, CRDs

\* After the definitions the rules are computed from some of their groups.
LEMMA AfterCRDs ==
    ASSUME RecOK, CreateCRDs, rec.o \in Operators
    PROVE  /\ rec' \in [pc : RecPCs, o : Operators \cup {None}, kind : Kinds,
                        groups : SUBSET Groups]
           /\ rec'.pc = "role" /\ rec'.o = rec.o /\ rec'.kind = rec.kind
           /\ \E created \in SUBSET CRDsOf[rec.o] :
                /\ MayFail(created # CRDsOf[rec.o])
                /\ rec'.groups = {GroupOf[c] : c \in created}
<1>1. PICK created \in SUBSET CRDsOf[rec.o] :
        /\ MayFail(created # CRDsOf[rec.o])
        /\ rec' = [rec EXCEPT !.pc = "role",
                              !.groups = {GroupOf[c] : c \in created}]
  BY DEF CreateCRDs
<1>2. PICK g \in SUBSET Groups : g = {GroupOf[c] : c \in created}
  BY GroupsOfCRDs
<1>3. rec' = [rec EXCEPT !.pc = "role", !.groups = g]
  BY <1>1, <1>2
<1>4. rec' = [pc |-> "role", o |-> rec.o, kind |-> rec.kind, groups |-> g]
  BY <1>3 DEF RecOK
<1>5. /\ rec.o \in Operators \cup {None} /\ rec.kind \in Kinds
      /\ g \in SUBSET Groups /\ "role" \in RecPCs
  BY <1>2 DEF RecOK, RecPCs
<1>6. rec' \in [pc : RecPCs, o : Operators \cup {None}, kind : Kinds,
                groups : SUBSET Groups]
  BY <1>4, <1>5
<1>7. rec'.pc = "role" /\ rec'.o = rec.o /\ rec'.kind = rec.kind
      /\ rec'.groups = g
  BY <1>4
<1> QED
  BY <1>1, <1>2, <1>6, <1>7

-----------------------------------------------------------------------------
(***************************************************************************)
(* Type correctness.                                                       *)
(***************************************************************************)
LEMMA InitTypeOK == Init => TypeOK
  BY OperatorsAssumption, IdleRecOK DEF Init, TypeOK, Kinds, Finalizing

LEMMA StepTypeOK == TypeOK /\ Step => TypeOK'
<1> SUFFICES ASSUME TypeOK, Step PROVE TypeOK'
  OBVIOUS
<1> USE DEF TypeOK
<1>r. RecOK
  BY DEF RecOK
<1>m. ASSUME NEW f \in BOOLEAN, MayFail(f) PROVE mishaps' \in 0..MaxMishaps
  BY <1>m, OperatorsAssumption DEF MayFail
<1>1. CASE CreateCRDs
  <2>1. rec.o \in Operators /\ crds \subseteq CRDs
    BY <1>1 DEF CreateCRDs
  <2> HIDE DEF TypeOK
  <2>2. PICK created \in SUBSET CRDsOf[rec.o] :
          /\ MayFail(created # CRDsOf[rec.o])
          /\ crds' = crds \cup created
    BY <1>1 DEF CreateCRDs
  <2>3. crds' \subseteq CRDs
    BY <2>1, <2>2 DEF CRDs
  <2>4. mishaps' \in 0..MaxMishaps
    BY <1>m, <2>2, Zenon
  <2>5. rec' \in [pc : RecPCs, o : Operators \cup {None}, kind : Kinds,
                  groups : SUBSET Groups]
    BY <1>1, <1>r, <2>1, AfterCRDs, Zenon
  <2>6. rec'.pc = "role" /\ rec'.o = rec.o
    BY <1>1, <1>r, <2>1, AfterCRDs, Zenon
  <2> QED
    BY <1>1, <2>1, <2>3, <2>4, <2>5, <2>6
       DEF TypeOK, CreateCRDs, api, role, Finalizing
<1>2. CASE CreateRole
  <2>1. PICK failed \in BOOLEAN :
          /\ MayFail(failed)
          /\ roles' = IF failed \/ roles[nameOf[rec.o]] # {} THEN roles
                      ELSE [roles EXCEPT ![nameOf[rec.o]] =
                              rec.groups \cup {JobGroup[rec.o]}]
    BY <1>2 DEF CreateRole
  <2>2. rec.o \in Operators /\ nameOf[rec.o] \in Names
    BY <1>2 DEF CreateRole
  <2>3. rec.groups \cup {JobGroup[rec.o]} \in SUBSET Groups
    BY <2>2 DEF Groups
  <2>4. roles' \in [Names -> SUBSET Groups]
    BY <2>1, <2>2, <2>3
  <2>5. /\ rec' \in [pc : RecPCs, o : Operators \cup {None}, kind : Kinds,
                     groups : SUBSET Groups]
        /\ rec'.pc = "binding" /\ rec'.o = rec.o
    BY <1>2, <1>r, RecFacts DEF RecPCs, CreateRole
  <2>6. mishaps' \in 0..MaxMishaps
    BY <1>m, <2>1
  <2> QED
    BY <1>2, <2>2, <2>4, <2>5, <2>6 DEF CreateRole, api, Finalizing
<1>3. CASE CreateBinding
  <2>1. rec.o \in Operators /\ nameOf[rec.o] \in Names
    BY <1>3 DEF CreateBinding
  <2>2. bindings' \subseteq Names /\ mishaps' \in 0..MaxMishaps
    BY <1>3, <1>m, <2>1 DEF CreateBinding
  <2>3. /\ rec' \in [pc : RecPCs, o : Operators \cup {None}, kind : Kinds,
                     groups : SUBSET Groups]
        /\ rec'.pc = "install" /\ rec'.o = rec.o
    BY <1>3, <1>r, RecFacts DEF RecPCs, CreateBinding
  <2> QED
    BY <1>3, <2>1, <2>2, <2>3 DEF CreateBinding, api, Finalizing
<1>4. CASE InstallHelm
  <2>1. releases' \subseteq {ReleaseOf[o] : o \in Operators}
        /\ mishaps' \in 0..MaxMishaps
    BY <1>4, <1>m DEF InstallHelm
  <2> QED
    BY <1>4, <2>1, IdleRecOK DEF InstallHelm, api, role, Finalizing
<1>5. CASE InstallYAML
  <2>1. rec.o \in Operators
    BY <1>5 DEF InstallYAML
  <2>2. manifests' \subseteq Manifests /\ mishaps' \in 0..MaxMishaps
    BY <1>5, <1>m, <2>1 DEF InstallYAML, Manifests
  <2> QED
    BY <1>5, <2>2, IdleRecOK DEF InstallYAML, api, role, Finalizing
<1>6. CASE InstallNothing
  BY <1>6, IdleRecOK DEF InstallNothing, api, role, Finalizing
<1>7. CASE UninstallHelm
  <2>1. /\ releases' \subseteq {ReleaseOf[o] : o \in Operators}
        /\ excused' \subseteq Operators /\ mishaps' \in 0..MaxMishaps
    BY <1>7, <1>m DEF UninstallHelm
  <2>2. /\ rec' \in [pc : RecPCs, o : Operators \cup {None}, kind : Kinds,
                     groups : SUBSET Groups]
        /\ rec'.pc = "unrole" /\ rec'.o = rec.o
    BY <1>7, <1>r, RecFacts DEF RecPCs, UninstallHelm
  <2> QED
    BY <1>7, <2>1, <2>2 DEF UninstallHelm, api, role, Finalizing
<1>8. CASE UninstallYAML
  <2>1. /\ manifests' \subseteq Manifests
        /\ excused' \subseteq Operators /\ mishaps' \in 0..MaxMishaps
    BY <1>8, <1>m DEF UninstallYAML
  <2>2. /\ rec' \in [pc : RecPCs, o : Operators \cup {None}, kind : Kinds,
                     groups : SUBSET Groups]
        /\ rec'.pc = "unrole" /\ rec'.o = rec.o
    BY <1>8, <1>r, RecFacts DEF RecPCs, UninstallYAML
  <2> QED
    BY <1>8, <2>1, <2>2 DEF UninstallYAML, api, role, Finalizing
<1>9. CASE RemoveRole
  <2>1. /\ roles' \in [Names -> SUBSET Groups]
        /\ excused' \subseteq Operators /\ mishaps' \in 0..MaxMishaps
    BY <1>9, <1>m DEF RemoveRole
  <2>2. /\ rec' \in [pc : RecPCs, o : Operators \cup {None}, kind : Kinds,
                     groups : SUBSET Groups]
        /\ rec'.pc = "unbind" /\ rec'.o = rec.o
    BY <1>9, <1>r, RecFacts DEF RecPCs, RemoveRole
  <2> QED
    BY <1>9, <2>1, <2>2 DEF RemoveRole, api, Finalizing
<1>10. CASE RemoveBinding
  <2>1. /\ bindings' \subseteq Names
        /\ excused' \subseteq Operators /\ mishaps' \in 0..MaxMishaps
    BY <1>10, <1>m DEF RemoveBinding
  <2>2. /\ rec' \in [pc : RecPCs, o : Operators \cup {None}, kind : Kinds,
                     groups : SUBSET Groups]
        /\ rec'.pc = "remove" /\ rec'.o = rec.o
    BY <1>10, <1>r, RecFacts DEF RecPCs, RemoveBinding
  <2> QED
    BY <1>10, <2>1, <2>2 DEF RemoveBinding, api, Finalizing
<1>11. CASE RemoveFinalizer
  <2>1. /\ res' \in [Operators -> {"absent", "new", "live", "deleting"}]
        /\ mishaps' \in 0..MaxMishaps
    BY <1>11, <1>m DEF RemoveFinalizer
  <2> QED
    BY <1>11, <2>1, IdleRecOK DEF RemoveFinalizer, role, Finalizing
<1> QED
  BY <1>1, <1>2, <1>3, <1>4, <1>5, <1>6, <1>7, <1>8, <1>9, <1>10, <1>11
     DEF Step
LEMMA TypeOKInductive == TypeOK /\ [Next]_vars => TypeOK'
<1> SUFFICES ASSUME TypeOK, [Next]_vars PROVE TypeOK'
  OBVIOUS
<1> USE DEF TypeOK
<1>r. RecOK
  BY DEF RecOK
<1>m. ASSUME NEW f \in BOOLEAN, MayFail(f) PROVE mishaps' \in 0..MaxMishaps
  BY <1>m, OperatorsAssumption DEF MayFail
<1>0. CASE UNCHANGED vars
  BY <1>0 DEF vars, api, role
<1>1. CASE Crash
  BY <1>1, <1>m, IdleRecOK DEF Crash, api, role, Finalizing
<1>2. CASE Step
  BY <1>2, StepTypeOK
<1>3. ASSUME NEW o \in Operators, UserCreates(o) PROVE TypeOK'
  <2>1. /\ lives' \in [Operators -> 0..MaxLives]
        /\ res' \in [Operators -> {"absent", "new", "live", "deleting"}]
        /\ \A p \in Operators : res[p] = "deleting" => res'[p] = "deleting"
    BY <1>3, OperatorsAssumption DEF UserCreates
  <2> QED
    BY <1>3, <2>1 DEF UserCreates, role, Finalizing
<1>4. ASSUME NEW o \in Operators, UserDeletes(o) PROVE TypeOK'
  <2>1. /\ res' \in [Operators -> {"absent", "new", "live", "deleting"}]
        /\ \A p \in Operators : res[p] = "deleting" => res'[p] = "deleting"
    BY <1>4 DEF UserDeletes
  <2> QED
    BY <1>4, <2>1 DEF UserDeletes, role, Finalizing
<1>5. ASSUME NEW o \in Operators, UserEdits(o) PROVE TypeOK'
  <2>1. /\ kind' \in [Operators -> Kinds] /\ excused' \subseteq Operators
        /\ mishaps' \in 0..MaxMishaps
    BY <1>5, <1>m DEF UserEdits
  <2> QED
    BY <1>5, <2>1 DEF UserEdits, role, Finalizing
<1>6. ASSUME NEW o \in Operators, AddFinalizer(o) PROVE TypeOK'
  <2>1. res' \in [Operators -> {"absent", "new", "live", "deleting"}]
    BY <1>6 DEF AddFinalizer
  <2> QED
    BY <1>6, <2>1 DEF AddFinalizer, role, Finalizing
<1>7. ASSUME NEW o \in Operators, StartInstall(o) PROVE TypeOK'
  <2>1. rec' = [pc |-> "crds", o |-> o, kind |-> kind[o], groups |-> {}]
    BY <1>7 DEF StartInstall, IdleRec
  <2>2. /\ rec' \in [pc : RecPCs, o : Operators \cup {None}, kind : Kinds,
                     groups : SUBSET Groups]
        /\ rec'.pc = "crds" /\ rec'.o = o
    BY <2>1 DEF RecPCs
  <2> QED
    BY <1>7, <2>2 DEF StartInstall, api, role, Finalizing
<1>8. ASSUME NEW o \in Operators, StartFinalize(o) PROVE TypeOK'
  <2>1. PICK p \in {"uninstall", "remove"} :
          rec' = [pc |-> p, o |-> o, kind |-> kind[o], groups |-> {}]
    BY <1>8 DEF StartFinalize, IdleRec
  <2>2. /\ rec' \in [pc : RecPCs, o : Operators \cup {None}, kind : Kinds,
                     groups : SUBSET Groups]
        /\ rec'.o = o
    BY <2>1 DEF RecPCs
  <2> QED
    BY <1>8, <2>2 DEF StartFinalize, api, role
<1> QED
  <2> HIDE DEF TypeOK
  <2> QED
    BY <1>0, <1>1, <1>2, <1>3, <1>4, <1>5, <1>6, <1>7, <1>8, NextCases

(***************************************************************************)
(* The variables keep their types, a reconciliation that has begun has its *)
(* operator, and one that finalizes has an operator that is being deleted. *)
(***************************************************************************)
THEOREM TypeCorrect == Spec => []TypeOK
<1>1. Init => TypeOK
  BY InitTypeOK
<1>2. TypeOK /\ [Next]_vars => TypeOK'
  BY TypeOKInductive
<1> QED
  BY <1>1, <1>2, PTL DEF Spec

-----------------------------------------------------------------------------
(***************************************************************************)
(* Nothing is left behind.  A resource that has not got its finalizer yet  *)
(* holds nothing, so that it may go at once; and a reconciliation that     *)
(* finalizes has taken away what its operator alone can be the reason for. *)
(***************************************************************************)
Held(o, k) ==
    o \in excused \/ (res[o] \in {"live", "deleting"} /\ kind[o] = k)

ManifestsHeld ==
    \A m \in manifests : \E o \in Operators : m \in PathsOf[o] /\ Held(o, "yaml")

ReleasesHeld ==
    \A r \in releases : \E o \in Operators : r = ReleaseOf[o] /\ Held(o, "helm")

RoleHeld(n) ==
    \E o \in Operators : /\ nameOf[o] = n
                         /\ \/ Held(o, kind[o])
                            \/ kind[o] = "none" /\ lives[o] > 0

RolesHeld ==
    \A n \in Names : roles[n] # {} \/ n \in bindings => RoleHeld(n)

InstallingOK ==
    rec.pc \in Installing =>
        /\ res[rec.o] \in {"live", "deleting"}
        /\ rec.kind = kind[rec.o] \/ rec.o \in excused

FinalizingOK ==
    /\ rec.pc \in Finalizing => rec.kind = kind[rec.o]
    /\ rec.pc \in Finalizing \ {"remove"} => rec.kind # "none"

Uninstalled ==
    rec.pc \in {"unrole", "unbind", "remove"} /\ rec.o \notin excused =>
        /\ rec.kind = "yaml" => manifests \cap PathsOf[rec.o] = {}
        /\ rec.kind = "helm" => ReleaseOf[rec.o] \notin releases
        /\ rec.kind # "none" /\ rec.pc \in {"unbind", "remove"} =>
             roles[nameOf[rec.o]] = {}
        /\ rec.kind # "none" /\ rec.pc = "remove" =>
             nameOf[rec.o] \notin bindings

LivesOK == \A o \in Operators : res[o] # "absent" => lives[o] > 0

HeldInv ==
    /\ TypeOK /\ LivesOK
    /\ ManifestsHeld /\ ReleasesHeld /\ RolesHeld
    /\ InstallingOK /\ FinalizingOK /\ Uninstalled

\* What an operator holds under its present kind stays held while operators
\* keep their kind, stay excused and are not removed.
LEMMA StillHeld ==
    ASSUME TypeOK, kind' = kind, excused \subseteq excused',
           \A o \in Operators : res[o] \in {"live", "deleting"} =>
                                res'[o] \in {"live", "deleting"}
    PROVE  \A o \in Operators, k \in Kinds : Held(o, k) => Held(o, k)'
  BY DEF Held

LEMMA StillManifests ==
    ASSUME ManifestsHeld, manifests' \subseteq manifests,
           \A o \in Operators : Held(o, "yaml") => Held(o, "yaml")'
    PROVE  ManifestsHeld'
  BY DEF ManifestsHeld

LEMMA StillReleases ==
    ASSUME ReleasesHeld, releases' \subseteq releases,
           \A o \in Operators : Held(o, "helm") => Held(o, "helm")'
    PROVE  ReleasesHeld'
  BY DEF ReleasesHeld

LEMMA StillRoles ==
    ASSUME TypeOK, RolesHeld, nameOf' = nameOf, kind' = kind,
           \A n \in Names : roles'[n] # {} => roles[n] # {},
           bindings' \subseteq bindings,
           \A o \in Operators : lives[o] > 0 => lives'[o] > 0,
           \A o \in Operators, k \in Kinds : Held(o, k) => Held(o, k)'
    PROVE  RolesHeld'
<1> SUFFICES ASSUME NEW n \in Names, roles'[n] # {} \/ n \in bindings'
             PROVE  RoleHeld(n)'
  BY DEF RolesHeld
<1>1. PICK o \in Operators : /\ nameOf[o] = n
                             /\ \/ Held(o, kind[o])
                                \/ kind[o] = "none" /\ lives[o] > 0
  BY DEF RolesHeld, RoleHeld
<1>2. kind[o] \in Kinds
  BY DEF TypeOK
<1> QED
  BY <1>1, <1>2 DEF RoleHeld

LEMMA InitHeld == Init => HeldInv
<1> SUFFICES ASSUME Init PROVE HeldInv
  OBVIOUS
<1>1. TypeOK
  BY InitTypeOK
<1>2. rec.pc = "idle"
  BY IdleRecOK DEF Init
<1>3. ManifestsHeld /\ ReleasesHeld /\ RolesHeld /\ LivesOK
  BY DEF Init, ManifestsHeld, ReleasesHeld, RolesHeld, LivesOK
<1>4. InstallingOK /\ FinalizingOK /\ Uninstalled
  BY <1>2 DEF InstallingOK, FinalizingOK, Uninstalled, Installing, Finalizing
<1> QED
  BY <1>1, <1>3, <1>4 DEF HeldInv

\* The reconciler's steps, each of which changes what rec.o has installed.
LEMMA StepHeld == HeldInv /\ Step => HeldInv'
<1> SUFFICES ASSUME HeldInv, Step PROVE HeldInv'
  OBVIOUS
<1>t. TypeOK /\ TypeOK' /\ RecOK
  BY StepTypeOK DEF HeldInv, TypeOK, RecOK
<1>h. /\ LivesOK /\ ManifestsHeld /\ ReleasesHeld /\ RolesHeld
      /\ InstallingOK /\ FinalizingOK /\ Uninstalled
  BY DEF HeldInv
<1>1. CASE CreateCRDs \/ CreateRole \/ CreateBinding
  <2>1. /\ rec.pc \in {"crds", "role", "binding"}
        /\ rec.o \in Operators
        /\ res[rec.o] \in {"live", "deleting"}
        /\ rec.kind = kind[rec.o] \/ rec.o \in excused
    BY <1>1, <1>t, <1>h
       DEF CreateCRDs, CreateRole, CreateBinding, InstallingOK, Installing, TypeOK
  <2>2. /\ rec'.pc \in {"role", "binding", "install"}
        /\ rec'.o = rec.o /\ rec'.kind = rec.kind
    <3>1. CASE CreateCRDs
      BY <3>1, <1>t, <2>1, AfterCRDs
    <3>2. CASE CreateRole
      BY <3>2, <1>t, RecFacts DEF CreateRole, RecPCs
    <3>3. CASE CreateBinding
      BY <3>3, <1>t, RecFacts DEF CreateBinding, RecPCs
    <3> QED
      BY <1>1, <3>1, <3>2, <3>3
  <2>3. UNCHANGED <<api, manifests, releases, excused>>
    BY <1>1 DEF CreateCRDs, CreateRole, CreateBinding
  <2>4. \A o \in Operators, k \in Kinds : Held(o, k) => Held(o, k)'
    BY <1>t, <2>3, StillHeld DEF api
  <2>5. ManifestsHeld' /\ ReleasesHeld'
    BY <1>h, <2>3, <2>4, StillManifests, StillReleases DEF Kinds
  <2>6. RolesHeld'
    <3> SUFFICES ASSUME NEW n \in Names, roles'[n] # {} \/ n \in bindings'
                 PROVE  RoleHeld(n)'
      BY DEF RolesHeld
    <3>1. CASE n = nameOf[rec.o]
      <4>1. Held(rec.o, kind[rec.o])
        BY <2>1 DEF Held
      <4>2. kind[rec.o] \in Kinds
        BY <1>t, <2>1 DEF TypeOK
      <4> QED
        BY <2>1, <2>3, <2>4, <3>1, <4>1, <4>2 DEF RoleHeld, api
    <3>2. CASE n # nameOf[rec.o]
      <4>1. roles[n] # {} \/ n \in bindings
        BY <1>1, <1>t, <3>2 DEF CreateCRDs, CreateRole, CreateBinding, role, TypeOK
      <4>2. PICK o \in Operators : /\ nameOf[o] = n
                                   /\ \/ Held(o, kind[o])
                                      \/ kind[o] = "none" /\ lives[o] > 0
        BY <1>h, <4>1 DEF RolesHeld, RoleHeld
      <4>3. kind[o] \in Kinds
        BY <1>t DEF TypeOK
      <4> QED
        BY <2>3, <2>4, <4>2, <4>3 DEF RoleHeld, api
    <3> QED
      BY <3>1, <3>2
  <2>7. InstallingOK' /\ FinalizingOK' /\ Uninstalled' /\ LivesOK'
    BY <1>h, <2>1, <2>2, <2>3
       DEF InstallingOK, FinalizingOK, Uninstalled, LivesOK, api, Installing,
           Finalizing
  <2> QED
    BY <1>t, <2>5, <2>6, <2>7 DEF HeldInv
<1>2. CASE InstallHelm \/ InstallYAML \/ InstallNothing
  <2>1. /\ rec.pc = "install" /\ rec.o \in Operators
        /\ res[rec.o] \in {"live", "deleting"}
        /\ rec.kind = kind[rec.o] \/ rec.o \in excused
    BY <1>2, <1>t, <1>h DEF InstallHelm, InstallYAML, InstallNothing,
                           InstallingOK, Installing, TypeOK
  <2>2. UNCHANGED <<api, role, excused>> /\ rec'.pc = "idle"
    BY <1>2, IdleRecOK DEF InstallHelm, InstallYAML, InstallNothing
  <2>3. \A o \in Operators, k \in Kinds : Held(o, k) => Held(o, k)'
    BY <1>t, <2>2, StillHeld DEF api
  <2>4. Held(rec.o, rec.kind)
    BY <2>1 DEF Held
  <2>5. ManifestsHeld'
    <3>1. CASE InstallYAML
      <4>1. manifests' \subseteq manifests \cup PathsOf[rec.o]
            /\ rec.kind = "yaml"
        BY <3>1 DEF InstallYAML
      <4> QED
        BY <1>h, <2>1, <2>3, <2>4, <4>1 DEF ManifestsHeld, Kinds
    <3>2. CASE InstallHelm \/ InstallNothing
      BY <1>h, <2>3, <3>2, StillManifests DEF InstallHelm, InstallNothing, Kinds
    <3> QED
      BY <1>2, <3>1, <3>2
  <2>6. ReleasesHeld'
    <3>1. CASE InstallHelm
      <4>1. releases' \subseteq releases \cup {ReleaseOf[rec.o]}
            /\ rec.kind = "helm"
        BY <3>1 DEF InstallHelm
      <4> QED
        BY <1>h, <2>1, <2>3, <2>4, <4>1 DEF ReleasesHeld, Kinds
    <3>2. CASE InstallYAML \/ InstallNothing
      BY <1>h, <2>3, <3>2, StillReleases DEF InstallYAML, InstallNothing, Kinds
    <3> QED
      BY <1>2, <3>1, <3>2
  <2>7. RolesHeld'
    BY <1>t, <1>h, <2>2, <2>3, StillRoles DEF api, role
  <2>8. InstallingOK' /\ FinalizingOK' /\ Uninstalled' /\ LivesOK'
    BY <1>h, <2>2 DEF InstallingOK, FinalizingOK, Uninstalled, LivesOK, api,
                     Installing, Finalizing
  <2> QED
    BY <1>t, <2>5, <2>6, <2>7, <2>8 DEF HeldInv
<1>3. CASE UninstallHelm \/ UninstallYAML
  <2>1. /\ rec.pc = "uninstall" /\ rec.o \in Operators
        /\ rec.kind = kind[rec.o] /\ rec.kind # "none"
    BY <1>3, <1>t, <1>h DEF UninstallHelm, UninstallYAML, FinalizingOK,
                           Finalizing, TypeOK
  <2>2. /\ UNCHANGED <<api, role>> /\ excused \subseteq excused'
        /\ manifests' \subseteq manifests /\ releases' \subseteq releases
    BY <1>3 DEF UninstallHelm, UninstallYAML
  <2>3. rec'.pc = "unrole" /\ rec'.o = rec.o /\ rec'.kind = rec.kind
    <3>1. CASE UninstallHelm
      BY <3>1, <1>t, RecFacts DEF UninstallHelm, RecPCs
    <3>2. CASE UninstallYAML
      BY <3>2, <1>t, RecFacts DEF UninstallYAML, RecPCs
    <3> QED
      BY <1>3, <3>1, <3>2
  <2>4. \A o \in Operators, k \in Kinds : Held(o, k) => Held(o, k)'
    BY <1>t, <2>2, StillHeld DEF api
  <2>5. ManifestsHeld' /\ ReleasesHeld' /\ RolesHeld'
    BY <1>t, <1>h, <2>2, <2>4, StillManifests, StillReleases, StillRoles
       DEF api, role, Kinds
  <2>6. Uninstalled'
    <3>1. CASE UninstallHelm
      <4>1. rec.o \notin excused' => ReleaseOf[rec.o] \notin releases'
        BY <2>1, <3>1 DEF UninstallHelm
      <4> QED
        BY <2>3, <3>1, <4>1 DEF Uninstalled, UninstallHelm
    <3>2. CASE UninstallYAML
      <4>1. rec.o \notin excused' => manifests' \cap PathsOf[rec.o] = {}
        BY <2>1, <3>2 DEF UninstallYAML
      <4> QED
        BY <2>3, <3>2, <4>1 DEF Uninstalled, UninstallYAML
    <3> QED
      BY <1>3, <3>1, <3>2
  <2>7. InstallingOK' /\ FinalizingOK' /\ LivesOK'
    BY <1>h, <2>1, <2>2, <2>3 DEF InstallingOK, FinalizingOK, LivesOK, api,
                                 Installing, Finalizing
  <2> QED
    BY <1>t, <2>5, <2>6, <2>7 DEF HeldInv
<1>4. CASE RemoveRole \/ RemoveBinding
  <2>1. /\ rec.pc \in {"unrole", "unbind"} /\ rec.o \in Operators
        /\ nameOf[rec.o] \in Names
        /\ rec.kind = kind[rec.o] /\ rec.kind # "none"
    BY <1>4, <1>t, <1>h DEF RemoveRole, RemoveBinding, FinalizingOK,
                           Finalizing, TypeOK
  <2>2. /\ UNCHANGED <<api, manifests, releases>> /\ excused \subseteq excused'
        /\ bindings' \subseteq bindings
        /\ \A n \in Names : roles'[n] # {} => roles[n] # {}
    BY <1>4, <1>t DEF RemoveRole, RemoveBinding, TypeOK
  <2>3. /\ rec'.pc = IF rec.pc = "unrole" THEN "unbind" ELSE "remove"
        /\ rec'.o = rec.o /\ rec'.kind = rec.kind
    <3>1. CASE RemoveRole
      BY <3>1, <1>t, RecFacts DEF RemoveRole, RecPCs
    <3>2. CASE RemoveBinding
      BY <3>2, <1>t, RecFacts DEF RemoveBinding, RecPCs
    <3> QED
      BY <1>4, <3>1, <3>2
  <2>4. \A o \in Operators, k \in Kinds : Held(o, k) => Held(o, k)'
    BY <1>t, <2>2, StillHeld DEF api
  <2>5. ManifestsHeld' /\ ReleasesHeld' /\ RolesHeld'
    BY <1>t, <1>h, <2>2, <2>4, StillManifests, StillReleases, StillRoles
       DEF api, Kinds
  <2>6. Uninstalled'
    <3>1. CASE RemoveRole
      <4>1. rec.o \notin excused' => roles'[nameOf[rec.o]] = {}
        BY <1>t, <2>1, <3>1 DEF RemoveRole, TypeOK
      <4> QED
        BY <1>h, <2>2, <2>3, <3>1, <4>1 DEF Uninstalled, RemoveRole, api
    <3>2. CASE RemoveBinding
      <4>1. rec.o \notin excused' => nameOf[rec.o] \notin bindings'
        BY <2>1, <3>2 DEF RemoveBinding
      <4> QED
        BY <1>h, <2>2, <2>3, <3>2, <4>1 DEF Uninstalled, RemoveBinding, api
    <3> QED
      BY <1>4, <3>1, <3>2
  <2>7. InstallingOK' /\ FinalizingOK' /\ LivesOK'
    BY <1>h, <2>1, <2>2, <2>3 DEF InstallingOK, FinalizingOK, LivesOK, api,
                                 Installing, Finalizing
  <2> QED
    BY <1>t, <2>5, <2>6, <2>7 DEF HeldInv
<1>5. CASE RemoveFinalizer
  <2>1. /\ rec.pc = "remove" /\ rec.o \in Operators /\ rec.kind = kind[rec.o]
        /\ rec.kind \in Kinds /\ res[rec.o] = "deleting"
    BY <1>5, <1>t, <1>h DEF RemoveFinalizer, FinalizingOK, Finalizing, TypeOK
  <2>2. /\ UNCHANGED <<nameOf, kind, lives, role, manifests, releases, excused>>
        /\ rec'.pc = "idle"
    BY <1>5, IdleRecOK DEF RemoveFinalizer
  <2>3. res' = res \/ res' = [res EXCEPT ![rec.o] = "absent"]
    BY <1>5 DEF RemoveFinalizer
  <2>4. \A o \in Operators, k \in Kinds :
          Held(o, k) /\ (o # rec.o \/ o \in excused) => Held(o, k)'
    BY <1>t, <2>2, <2>3 DEF Held, TypeOK
  <2>5. ManifestsHeld'
    <3> SUFFICES ASSUME NEW m \in manifests
                 PROVE  \E o \in Operators : m \in PathsOf[o] /\ Held(o, "yaml")'
      BY <2>2 DEF ManifestsHeld
    <3>1. PICK o \in Operators : m \in PathsOf[o] /\ Held(o, "yaml")
      BY <1>h DEF ManifestsHeld
    <3>2. o # rec.o \/ o \in excused
      BY <1>h, <2>1, <3>1 DEF Uninstalled, Held
    <3> QED
      BY <2>4, <3>1, <3>2 DEF Kinds
  <2>6. ReleasesHeld'
    <3> SUFFICES ASSUME NEW r \in releases
                 PROVE  \E o \in Operators : r = ReleaseOf[o] /\ Held(o, "helm")'
      BY <2>2 DEF ReleasesHeld
    <3>1. PICK o \in Operators : r = ReleaseOf[o] /\ Held(o, "helm")
      BY <1>h DEF ReleasesHeld
    <3>2. o # rec.o \/ o \in excused
      BY <1>h, <2>1, <3>1 DEF Uninstalled, Held
    <3> QED
      BY <2>4, <3>1, <3>2 DEF Kinds
  <2>7. RolesHeld'
    <3> SUFFICES ASSUME NEW n \in Names, roles[n] # {} \/ n \in bindings
                 PROVE  RoleHeld(n)'
      BY <2>2 DEF RolesHeld, role
    <3>1. PICK o \in Operators : /\ nameOf[o] = n
                                 /\ \/ Held(o, kind[o])
                                    \/ kind[o] = "none" /\ lives[o] > 0
      BY <1>h DEF RolesHeld, RoleHeld
    <3>2. \/ o # rec.o \/ o \in excused
          \/ kind[o] = "none" /\ lives[o] > 0
      BY <1>h, <2>1, <3>1 DEF Uninstalled, LivesOK
    <3>3. kind[o] \in Kinds
      BY <1>t DEF TypeOK
    <3>4. Held(o, kind[o])' \/ (kind[o] = "none" /\ lives[o] > 0)
      BY <2>2, <2>4, <3>1, <3>2, <3>3
    <3> QED
      BY <2>2, <3>1, <3>4 DEF RoleHeld
  <2>8. InstallingOK' /\ FinalizingOK' /\ Uninstalled' /\ LivesOK'
    BY <1>t, <1>h, <2>2, <2>3 DEF InstallingOK, FinalizingOK, Uninstalled,
                                 LivesOK, Installing, Finalizing, TypeOK
  <2> QED
    BY <1>t, <2>5, <2>6, <2>7, <2>8 DEF HeldInv
<1> QED
  BY <1>1, <1>2, <1>3, <1>4, <1>5 DEF Step

\* What users and the process do: nothing that was installed changes, and an
\* operator whose kind changes is excused.
LEMMA UsersHeld ==
    ASSUME HeldInv, NEW o \in Operators,
           UserCreates(o) \/ UserDeletes(o) \/ AddFinalizer(o)
    PROVE  HeldInv'
<1>t. TypeOK /\ TypeOK'
  BY TypeOKInductive DEF HeldInv, Next, Users, Take
<1>h. /\ LivesOK /\ ManifestsHeld /\ ReleasesHeld /\ RolesHeld
      /\ InstallingOK /\ FinalizingOK /\ Uninstalled
  BY DEF HeldInv
<1>1. /\ UNCHANGED <<nameOf, kind, role, manifests, releases, rec, excused>>
      /\ \A p \in Operators : res[p] \in {"live", "deleting"} =>
                             res'[p] \in {"live", "deleting"}
      /\ \A p \in Operators : lives[p] > 0 => lives'[p] > 0
      /\ LivesOK'
  BY <1>t, <1>h DEF UserCreates, UserDeletes, AddFinalizer, LivesOK, TypeOK
<1>2. \A p \in Operators, k \in Kinds : Held(p, k) => Held(p, k)'
  BY <1>t, <1>1, StillHeld
<1>3. ManifestsHeld' /\ ReleasesHeld' /\ RolesHeld'
  BY <1>t, <1>h, <1>1, <1>2, StillManifests, StillReleases, StillRoles
     DEF role, Kinds
<1>4. InstallingOK' /\ FinalizingOK' /\ Uninstalled'
  BY <1>t, <1>h, <1>1 DEF InstallingOK, FinalizingOK, Uninstalled, role,
                         Installing, TypeOK
<1> QED
  BY <1>t, <1>1, <1>3, <1>4 DEF HeldInv

LEMMA EditHeld ==
    ASSUME HeldInv, NEW o \in Operators, UserEdits(o)
    PROVE  HeldInv'
<1>t. TypeOK /\ TypeOK'
  BY TypeOKInductive DEF HeldInv, Next, Users
<1>h. /\ LivesOK /\ ManifestsHeld /\ ReleasesHeld /\ RolesHeld
      /\ InstallingOK /\ FinalizingOK /\ Uninstalled
  BY DEF HeldInv
<1>1. /\ UNCHANGED <<nameOf, res, lives, roles, bindings, manifests, releases,
                     rec>>
      /\ excused' = excused \cup {o} /\ res[o] \in {"new", "live"}
      /\ \A p \in Operators \ {o} : kind'[p] = kind[p]
  BY <1>t DEF UserEdits, role, TypeOK
<1>2. \A p \in Operators, k \in Kinds : Held(p, k) => Held(p, k)'
  BY <1>1 DEF Held
<1>3. ManifestsHeld' /\ ReleasesHeld'
  BY <1>h, <1>1, <1>2, StillManifests, StillReleases DEF Kinds
<1>4. RolesHeld'
  <2> SUFFICES ASSUME NEW n \in Names, roles[n] # {} \/ n \in bindings
               PROVE  RoleHeld(n)'
    BY <1>1 DEF RolesHeld
  <2>1. PICK p \in Operators : /\ nameOf[p] = n
                               /\ \/ Held(p, kind[p])
                                  \/ kind[p] = "none" /\ lives[p] > 0
    BY <1>h DEF RolesHeld, RoleHeld
  <2>2. CASE p = o
    BY <1>1, <2>1, <2>2 DEF RoleHeld, Held
  <2>3. CASE p # o
    <3>1. kind[p] \in Kinds
      BY <1>t DEF TypeOK
    <3> QED
      BY <1>1, <1>2, <2>1, <2>3, <3>1 DEF RoleHeld
  <2> QED
    BY <2>2, <2>3
<1>5. rec.pc \in Finalizing => rec.o # o
  BY <1>t, <1>1 DEF TypeOK
<1>6. InstallingOK' /\ FinalizingOK' /\ Uninstalled' /\ LivesOK'
  <2>1. rec.pc # "idle" => rec.o \in Operators
    BY <1>t DEF TypeOK
  <2>2. rec.pc \in Installing \cup Finalizing => rec.pc # "idle"
    BY DEF Installing, Finalizing
  <2> QED
    BY <1>h, <1>1, <1>5, <2>1, <2>2
       DEF InstallingOK, FinalizingOK, Uninstalled, LivesOK
<1> QED
  BY <1>t, <1>3, <1>4, <1>6 DEF HeldInv

\* The steps that only move the reconciler.
LEMMA RecHeld ==
    ASSUME HeldInv, TypeOK',
           UNCHANGED <<api, role, manifests, releases, excused>>,
           InstallingOK', FinalizingOK', Uninstalled'
    PROVE  HeldInv'
<1>t. TypeOK
  BY DEF HeldInv
<1>1. \A p \in Operators, k \in Kinds : Held(p, k) => Held(p, k)'
  BY <1>t, StillHeld DEF api
<1>2. ManifestsHeld' /\ ReleasesHeld' /\ RolesHeld'
  BY <1>t, <1>1, StillManifests, StillReleases, StillRoles
     DEF HeldInv, api, role, Kinds
<1>3. LivesOK'
  BY DEF HeldInv, LivesOK, api
<1> QED
  BY <1>2, <1>3 DEF HeldInv

LEMMA HeldInductive == HeldInv /\ [Next]_vars => HeldInv'
<1> SUFFICES ASSUME HeldInv, [Next]_vars PROVE HeldInv'
  OBVIOUS
<1>t. TypeOK /\ TypeOK'
  BY TypeOKInductive DEF HeldInv
<1>h. InstallingOK /\ FinalizingOK /\ Uninstalled
  BY DEF HeldInv
<1>0. CASE UNCHANGED vars
  <2>1. UNCHANGED <<api, role, manifests, releases, excused, rec>>
    BY <1>0 DEF vars
  <2>2. InstallingOK' /\ FinalizingOK' /\ Uninstalled'
    BY <1>h, <2>1 DEF InstallingOK, FinalizingOK, Uninstalled, api, role
  <2> QED
    BY <1>t, <2>1, <2>2, RecHeld
<1>1. CASE Crash
  <2>1. UNCHANGED <<api, role, manifests, releases, excused>>
        /\ rec'.pc = "idle"
    BY <1>1, IdleRecOK DEF Crash
  <2>2. InstallingOK' /\ FinalizingOK' /\ Uninstalled'
    BY <2>1 DEF InstallingOK, FinalizingOK, Uninstalled, Installing, Finalizing
  <2> QED
    BY <1>t, <2>1, <2>2, RecHeld
<1>2. CASE Step
  BY <1>2, StepHeld
<1>3. ASSUME NEW o \in Operators, UserCreates(o) PROVE HeldInv'
  BY <1>3, UsersHeld
<1>4. ASSUME NEW o \in Operators, UserDeletes(o) PROVE HeldInv'
  BY <1>4, UsersHeld
<1>5. ASSUME NEW o \in Operators, UserEdits(o) PROVE HeldInv'
  BY <1>5, EditHeld
<1>6. ASSUME NEW o \in Operators, AddFinalizer(o) PROVE HeldInv'
  BY <1>6, UsersHeld
<1>7. ASSUME NEW o \in Operators, StartInstall(o) PROVE HeldInv'
  <2>1. /\ rec' = [pc |-> "crds", o |-> o, kind |-> kind[o], groups |-> {}]
        /\ res[o] = "live"
        /\ UNCHANGED <<api, role, manifests, releases, excused>>
    BY <1>7 DEF StartInstall, IdleRec
  <2>2. InstallingOK' /\ FinalizingOK' /\ Uninstalled'
    BY <2>1 DEF InstallingOK, FinalizingOK, Uninstalled, api, Finalizing
  <2> QED
    BY <1>t, <2>1, <2>2, RecHeld
<1>8. ASSUME NEW o \in Operators, StartFinalize(o) PROVE HeldInv'
  <2>1. /\ rec' = [pc |-> IF kind[o] = "none" THEN "remove" ELSE "uninstall",
                   o |-> o, kind |-> kind[o], groups |-> {}]
        /\ UNCHANGED <<api, role, manifests, releases, excused>>
    BY <1>8 DEF StartFinalize, IdleRec
  <2>2. InstallingOK' /\ FinalizingOK' /\ Uninstalled'
    BY <2>1 DEF InstallingOK, FinalizingOK, Uninstalled, api, Installing
  <2> QED
    BY <1>t, <2>1, <2>2, RecHeld
<1> QED
  BY <1>0, <1>1, <1>2, <1>3, <1>4, <1>5, <1>6, <1>7, <1>8, NextCases

(***************************************************************************)
(* What a deleted operator has installed is gone, unless it was edited, an *)
(* error was passed over or another operator shares it: for any number of  *)
(* operators that share names, manifests and releases in any way, and any  *)
(* number of restarts.                                                     *)
(***************************************************************************)
THEOREM NothingStays == Spec => []NothingLeftBehind
<1>1. Init => HeldInv
  BY InitHeld
<1>2. HeldInv /\ [Next]_vars => HeldInv'
  BY HeldInductive
<1>3. HeldInv => NothingLeftBehind
  BY DEF HeldInv, ManifestsHeld, ReleasesHeld, RolesHeld, RoleHeld, Held,
         NothingLeftBehind, Keeps
<1> QED
  BY <1>1, <1>2, <1>3, PTL DEF Spec

-----------------------------------------------------------------------------
(***************************************************************************)
(* The role covers the groups.  Without a mishap the rules are computed    *)
(* from all definitions, the role is there before the binding, and it goes *)
(* before the binding does.                                                *)
(***************************************************************************)
Alone(o) ==
    mishaps = 0 /\ \A p \in Operators : nameOf[p] = nameOf[o] => p = o

Rules(o) == {JobGroup[o]} \cup {GroupOf[c] : c \in CRDsOf[o]}

RoleOf(o) ==
    /\ roles[nameOf[o]] # {} => Rules(o) \subseteq roles[nameOf[o]]
    /\ rec.o = o /\ rec.pc = "role" =>
         {GroupOf[c] : c \in CRDsOf[o]} \subseteq rec.groups
    /\ rec.o = o /\ rec.pc = "binding" => roles[nameOf[o]] # {}
    /\ nameOf[o] \in bindings =>
         roles[nameOf[o]] # {} \/ (rec.o = o /\ rec.pc = "unbind")

RoleInv == TypeOK /\ \A o \in Operators : Alone(o) => RoleOf(o)

LEMMA InitRole == Init => RoleInv
<1> SUFFICES ASSUME Init PROVE RoleInv
  OBVIOUS
<1>1. TypeOK
  BY InitTypeOK
<1>2. rec.pc = "idle" /\ roles = [n \in Names |-> {}] /\ bindings = {}
  BY IdleRecOK DEF Init
<1>3. \A o \in Operators : nameOf[o] \in Names
  BY <1>1 DEF TypeOK
<1> QED
  BY <1>1, <1>2, <1>3 DEF RoleInv, RoleOf

\* A request that fails is a mishap.
LEMMA NoFailure ==
    ASSUME TypeOK, NEW f \in BOOLEAN, MayFail(f), mishaps' = 0
    PROVE  f = FALSE /\ mishaps = 0
  BY DEF MayFail, TypeOK

\* A step that neither touches roles and bindings nor reaches the steps that
\* do.
LEMMA RoleKept ==
    ASSUME RoleInv, TypeOK', UNCHANGED <<nameOf, role>>,
           mishaps' = 0 => mishaps = 0,
           \/ rec' = rec
           \/ /\ rec'.pc \notin {"role", "binding"}
              /\ rec.pc # "unbind"
    PROVE  RoleInv'
<1> SUFFICES ASSUME NEW o \in Operators, Alone(o)' PROVE RoleOf(o)'
  BY DEF RoleInv
<1>1. Alone(o) /\ RoleOf(o)
  BY DEF Alone, RoleInv
<1> QED
  BY <1>1 DEF RoleOf, Rules, role

LEMMA StepRole == RoleInv /\ Step => RoleInv'
<1> SUFFICES ASSUME RoleInv, Step PROVE RoleInv'
  OBVIOUS
<1>t. TypeOK /\ TypeOK' /\ RecOK
  BY StepTypeOK DEF RoleInv, TypeOK, RecOK
<1>m. ASSUME NEW f \in BOOLEAN, MayFail(f)
      PROVE  mishaps' = 0 => f = FALSE /\ mishaps = 0
  BY <1>t, <1>m, NoFailure
<1>1. CASE CreateCRDs
  <2>1. rec.pc # "unbind" /\ rec.o \in Operators /\ UNCHANGED <<nameOf, role>>
    BY <1>1, <1>t DEF CreateCRDs, TypeOK, api
  <2>2. PICK created \in SUBSET CRDsOf[rec.o] :
          /\ MayFail(created # CRDsOf[rec.o])
          /\ rec'.groups = {GroupOf[c] : c \in created}
    BY <1>1, <1>t, <2>1, AfterCRDs
  <2>3. rec'.pc = "role" /\ rec'.o = rec.o
    BY <1>1, <1>t, <2>1, AfterCRDs
  <2> SUFFICES ASSUME NEW o \in Operators, Alone(o)' PROVE RoleOf(o)'
    BY <1>t DEF RoleInv
  <2>4. mishaps = 0 /\ created = CRDsOf[rec.o]
    BY <1>m, <2>2 DEF Alone
  <2>5. Alone(o) /\ RoleOf(o)
    BY <2>1, <2>4 DEF Alone, RoleInv
  <2>6. rec'.o = o => {GroupOf[c] : c \in CRDsOf[o]} \subseteq rec'.groups
    BY <2>2, <2>3, <2>4
  <2> QED
    BY <2>1, <2>3, <2>5, <2>6 DEF RoleOf, Rules, role
<1>2. CASE CreateRole
  <2>1. PICK failed \in BOOLEAN :
          /\ MayFail(failed)
          /\ roles' = IF failed \/ roles[nameOf[rec.o]] # {} THEN roles
                      ELSE [roles EXCEPT ![nameOf[rec.o]] =
                              rec.groups \cup {JobGroup[rec.o]}]
    BY <1>2 DEF CreateRole
  <2>2. /\ rec.pc = "role" /\ rec.o \in Operators /\ nameOf[rec.o] \in Names
        /\ UNCHANGED <<nameOf, bindings>>
    BY <1>2, <1>t DEF CreateRole, TypeOK, api
  <2>3. rec'.pc = "binding" /\ rec'.o = rec.o
    BY <1>2, <1>t, RecFacts DEF RecPCs, CreateRole
  <2> SUFFICES ASSUME NEW o \in Operators, Alone(o)' PROVE RoleOf(o)'
    BY <1>t DEF RoleInv
  <2>4. mishaps = 0 /\ failed = FALSE
    BY <1>m, <2>1 DEF Alone
  <2>5. Alone(o) /\ RoleOf(o) /\ nameOf[o] \in Names
    BY <1>t, <2>2, <2>4 DEF Alone, RoleInv, TypeOK
  <2>6. CASE o = rec.o
    <3>1. roles'[nameOf[o]] = IF roles[nameOf[o]] # {} THEN roles[nameOf[o]]
                              ELSE rec.groups \cup {JobGroup[o]}
      BY <1>t, <2>1, <2>2, <2>4, <2>6 DEF TypeOK
    <3>2. Rules(o) \subseteq roles'[nameOf[o]]
      BY <2>2, <2>5, <2>6, <3>1 DEF RoleOf, Rules
    <3>3. roles'[nameOf[o]] # {}
      BY <3>2 DEF Rules
    <3> QED
      BY <2>2, <2>3, <3>2, <3>3 DEF RoleOf, Rules
  <2>7. CASE o # rec.o
    <3>1. nameOf[o] # nameOf[rec.o]
      BY <2>2, <2>5, <2>7 DEF Alone
    <3>2. roles'[nameOf[o]] = roles[nameOf[o]]
      BY <1>t, <2>1, <2>2, <2>5, <3>1 DEF TypeOK
    <3> QED
      BY <2>2, <2>3, <2>5, <2>7, <3>2 DEF RoleOf, Rules
  <2> QED
    BY <2>6, <2>7
<1>3. CASE CreateBinding
  <2>1. PICK failed \in BOOLEAN :
          /\ MayFail(failed)
          /\ bindings' = IF failed THEN bindings
                         ELSE bindings \cup {nameOf[rec.o]}
    BY <1>3 DEF CreateBinding
  <2>2. rec.pc = "binding" /\ rec.o \in Operators /\ UNCHANGED <<nameOf, roles>>
    BY <1>3, <1>t DEF CreateBinding, TypeOK, api
  <2>3. rec'.pc = "install" /\ rec'.o = rec.o
    BY <1>3, <1>t, RecFacts DEF RecPCs, CreateBinding
  <2> SUFFICES ASSUME NEW o \in Operators, Alone(o)' PROVE RoleOf(o)'
    BY <1>t DEF RoleInv
  <2>4. mishaps = 0
    BY <1>m, <2>1 DEF Alone
  <2>5. Alone(o) /\ RoleOf(o)
    BY <2>2, <2>4 DEF Alone, RoleInv
  <2>6. nameOf[o] \in bindings' => nameOf[o] \in bindings \/ o = rec.o
    BY <2>1, <2>2, <2>5 DEF Alone
  <2> QED
    BY <2>2, <2>3, <2>5, <2>6 DEF RoleOf, Rules
<1>4. CASE RemoveRole
  <2>1. PICK failed \in BOOLEAN :
          /\ MayFail(failed)
          /\ roles' = IF failed THEN roles
                      ELSE [roles EXCEPT ![nameOf[rec.o]] = {}]
    BY <1>4 DEF RemoveRole
  <2>2. /\ rec.pc = "unrole" /\ rec.o \in Operators /\ nameOf[rec.o] \in Names
        /\ UNCHANGED <<nameOf, bindings>>
    BY <1>4, <1>t DEF RemoveRole, TypeOK, api
  <2>3. rec'.pc = "unbind" /\ rec'.o = rec.o
    BY <1>4, <1>t, RecFacts DEF RecPCs, RemoveRole
  <2> SUFFICES ASSUME NEW o \in Operators, Alone(o)' PROVE RoleOf(o)'
    BY <1>t DEF RoleInv
  <2>4. mishaps = 0 /\ failed = FALSE
    BY <1>m, <2>1 DEF Alone
  <2>5. Alone(o) /\ RoleOf(o) /\ nameOf[o] \in Names
    BY <1>t, <2>2, <2>4 DEF Alone, RoleInv, TypeOK
  <2>6. CASE o = rec.o
    <3>1. roles'[nameOf[o]] = {}
      BY <1>t, <2>1, <2>2, <2>4, <2>6 DEF TypeOK
    <3> QED
      BY <2>2, <2>3, <2>6, <3>1 DEF RoleOf
  <2>7. CASE o # rec.o
    <3>1. nameOf[o] # nameOf[rec.o]
      BY <2>2, <2>5, <2>7 DEF Alone
    <3>2. roles'[nameOf[o]] = roles[nameOf[o]]
      BY <1>t, <2>1, <2>2, <2>5, <3>1 DEF TypeOK
    <3> QED
      BY <2>2, <2>3, <2>5, <2>7, <3>2 DEF RoleOf, Rules
  <2> QED
    BY <2>6, <2>7
<1>5. CASE RemoveBinding
  <2>1. PICK failed \in BOOLEAN :
          /\ MayFail(failed)
          /\ bindings' = IF failed THEN bindings
                         ELSE bindings \ {nameOf[rec.o]}
    BY <1>5 DEF RemoveBinding
  <2>2. rec.pc = "unbind" /\ rec.o \in Operators /\ UNCHANGED <<nameOf, roles>>
    BY <1>5, <1>t DEF RemoveBinding, TypeOK, api
  <2>3. rec'.pc = "remove" /\ rec'.o = rec.o
    BY <1>5, <1>t, RecFacts DEF RecPCs, RemoveBinding
  <2> SUFFICES ASSUME NEW o \in Operators, Alone(o)' PROVE RoleOf(o)'
    BY <1>t DEF RoleInv
  <2>4. mishaps = 0 /\ failed = FALSE
    BY <1>m, <2>1 DEF Alone
  <2>5. Alone(o) /\ RoleOf(o)
    BY <2>2, <2>4 DEF Alone, RoleInv
  <2> QED
    BY <2>1, <2>2, <2>3, <2>4, <2>5 DEF RoleOf, Rules
<1>6. CASE InstallHelm
  <2>1. mishaps' = 0 => mishaps = 0
    BY <1>6, <1>m DEF InstallHelm
  <2> QED
    BY <1>6, <1>t, <2>1, IdleRecOK, RoleKept DEF InstallHelm, api
<1>7. CASE InstallYAML
  <2>1. mishaps' = 0 => mishaps = 0
    BY <1>7, <1>m DEF InstallYAML
  <2> QED
    BY <1>7, <1>t, <2>1, IdleRecOK, RoleKept DEF InstallYAML, api
<1>8. CASE InstallNothing
  BY <1>8, <1>t, IdleRecOK, RoleKept DEF InstallNothing, api
<1>9. CASE UninstallHelm
  <2>1. mishaps' = 0 => mishaps = 0
    BY <1>9, <1>m DEF UninstallHelm
  <2>2. rec'.pc = "unrole"
    BY <1>9, <1>t, RecFacts DEF RecPCs, UninstallHelm
  <2> QED
    BY <1>9, <1>t, <2>1, <2>2, RoleKept DEF UninstallHelm, api
<1>10. CASE UninstallYAML
  <2>1. mishaps' = 0 => mishaps = 0
    BY <1>10, <1>m DEF UninstallYAML
  <2>2. rec'.pc = "unrole"
    BY <1>10, <1>t, RecFacts DEF RecPCs, UninstallYAML
  <2> QED
    BY <1>10, <1>t, <2>1, <2>2, RoleKept DEF UninstallYAML, api
<1>11. CASE RemoveFinalizer
  <2>1. mishaps' = 0 => mishaps = 0
    BY <1>11, <1>m DEF RemoveFinalizer
  <2> QED
    BY <1>11, <1>t, <2>1, IdleRecOK, RoleKept DEF RemoveFinalizer
<1> QED
  BY <1>1, <1>2, <1>3, <1>4, <1>5, <1>6, <1>7, <1>8, <1>9, <1>10, <1>11
     DEF Step

LEMMA RoleInductive == RoleInv /\ [Next]_vars => RoleInv'
<1> SUFFICES ASSUME RoleInv, [Next]_vars PROVE RoleInv'
  OBVIOUS
<1>t. TypeOK /\ TypeOK'
  BY TypeOKInductive DEF RoleInv
<1>0. CASE UNCHANGED vars
  BY <1>0, <1>t, RoleKept DEF vars, api
<1>1. CASE Crash
  <2>1. mishaps' # 0
    BY <1>1, <1>t DEF Crash, MayFail, TypeOK
  <2> QED
    BY <1>t, <2>1 DEF RoleInv, Alone
<1>2. CASE Step
  BY <1>2, StepRole
<1>3. ASSUME NEW o \in Operators, UserCreates(o) PROVE RoleInv'
  BY <1>3, <1>t, RoleKept DEF UserCreates
<1>4. ASSUME NEW o \in Operators, UserDeletes(o) PROVE RoleInv'
  BY <1>4, <1>t, RoleKept DEF UserDeletes
<1>5. ASSUME NEW o \in Operators, UserEdits(o) PROVE RoleInv'
  <2>1. mishaps' # 0
    BY <1>5, <1>t DEF UserEdits, MayFail, TypeOK
  <2> QED
    BY <1>t, <2>1 DEF RoleInv, Alone
<1>6. ASSUME NEW o \in Operators, AddFinalizer(o) PROVE RoleInv'
  BY <1>6, <1>t, RoleKept DEF AddFinalizer
<1>7. ASSUME NEW o \in Operators, StartInstall(o) PROVE RoleInv'
  <2>1. rec' = [pc |-> "crds", o |-> o, kind |-> kind[o], groups |-> {}]
    BY <1>7 DEF StartInstall, IdleRec
  <2> QED
    BY <1>7, <1>t, <2>1, RoleKept DEF StartInstall, api
<1>8. ASSUME NEW o \in Operators, StartFinalize(o) PROVE RoleInv'
  <2>1. rec'.pc \in {"uninstall", "remove"}
    BY <1>8 DEF StartFinalize, IdleRec
  <2> QED
    BY <1>8, <1>t, <2>1, RoleKept DEF StartFinalize, api
<1> QED
  BY <1>0, <1>1, <1>2, <1>3, <1>4, <1>5, <1>6, <1>7, <1>8, NextCases

(***************************************************************************)
(* An operator whose name is its own and that has met no mishap is bound   *)
(* to a role with the rules of its job and of all its definitions, for any *)
(* operators and any definitions they share.                               *)
(***************************************************************************)
THEOREM RoleCovers == Spec => []RoleCoversGroups
<1>1. Init => RoleInv
  BY InitRole
<1>2. RoleInv /\ [Next]_vars => RoleInv'
  BY RoleInductive
<1>3. RoleInv => RoleCoversGroups
  <2> SUFFICES ASSUME RoleInv, NEW o \in Operators, Alone(o),
                      nameOf[o] \in bindings, res[o] = "live"
               PROVE  Rules(o) \subseteq roles[nameOf[o]]
    BY DEF RoleCoversGroups, Alone, Rules
  <2>1. RoleOf(o) /\ TypeOK
    BY DEF RoleInv
  <2>2. ~(rec.o = o /\ rec.pc = "unbind")
    BY <2>1 DEF TypeOK, Finalizing
  <2> QED
    BY <2>1, <2>2 DEF RoleOf
<1> QED
  BY <1>1, <1>2, <1>3, PTL DEF Spec

=============================================================================
