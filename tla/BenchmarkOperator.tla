------------------------- MODULE BenchmarkOperator -------------------------
(***************************************************************************)
(* The reconciler of BenchmarkOperator resources: it installs the custom   *)
(* resource definitions, cluster role, binding and deployment of a job     *)
(* operator one request after the other, and takes the deployment and the  *)
(* role away in a finalizer.  Role and binding are cluster-wide and named  *)
(* after the resource alone; manifests and helm releases may belong to     *)
(* several resources.  The process may restart between two requests, and   *)
(* most errors are only logged.                                            *)
(***************************************************************************)
EXTENDS Naturals, FiniteSets

CONSTANTS
    Operators,   \* BenchmarkOperator resources, each in its namespace
    Names,       \* their names
    CRDsOf,      \* the definitions of .spec.crd of an operator
    GroupOf,     \* the API group of a definition
    JobGroup,    \* the group of the job resource of an operator
    PathsOf,     \* the manifests of .spec.deploySpec.yaml
    ReleaseOf,   \* the release of .spec.deploySpec.helm
    MaxLives,    \* how often an operator is created
    MaxMishaps,  \* bound on restarts, failed requests and edits
    None         \* no operator

CRDs == UNION {CRDsOf[o] : o \in Operators}
Groups == {GroupOf[c] : c \in CRDs} \cup {JobGroup[o] : o \in Operators}
Manifests == UNION {PathsOf[o] : o \in Operators}
Kinds == {"helm", "yaml", "none"}

ASSUME OperatorsAssumption ==
    /\ DOMAIN CRDsOf = Operators /\ DOMAIN PathsOf = Operators
    /\ DOMAIN JobGroup = Operators /\ DOMAIN ReleaseOf = Operators
    /\ DOMAIN GroupOf = CRDs
    /\ MaxLives \in Nat /\ MaxMishaps \in Nat
    /\ None \notin Operators

VARIABLES
    nameOf,     \* metadata.name of each resource
    res,        \* "absent", "new", "live" (it has the finalizer), "deleting"
    kind,       \* what .spec.deploySpec asks for
    lives,      \* how often each has been created
    crds,       \* definitions in the cluster
    namespaces, \* operators whose deployment namespace exists
    roles,      \* the groups that the cluster role of a name has rules for,
                \* {} where there is no role
    bindings,   \* names with a cluster role binding
    manifests,  \* manifests in the cluster
    releases,   \* helm releases
    rec,        \* the reconciler: pc, its operator, the copy of the kind it
                \* has read, the groups of the definitions it has created
    mishaps,    \* restarts, failed requests and edits so far
    excused     \* operators edited, or not wholly uninstalled

api  == <<nameOf, res, kind, lives>>
role == <<roles, bindings>>
vars == <<api, crds, namespaces, role, manifests, releases, rec, mishaps,
          excused>>

RecPCs == {"idle", "crds", "role", "binding", "install",
           "uninstall", "unrole", "unbind", "remove"}
Installing == {"crds", "role", "binding", "install"}
Finalizing == {"uninstall", "unrole", "unbind", "remove"}

TypeOK ==
    /\ nameOf \in [Operators -> Names]
    /\ res \in [Operators -> {"absent", "new", "live", "deleting"}]
    /\ kind \in [Operators -> Kinds]
    /\ lives \in [Operators -> 0..MaxLives]
    /\ crds \subseteq CRDs
    /\ namespaces \subseteq Operators
    /\ roles \in [Names -> SUBSET Groups]
    /\ bindings \subseteq Names
    /\ manifests \subseteq Manifests
    /\ releases \subseteq {ReleaseOf[o] : o \in Operators}
    /\ rec \in [pc : RecPCs, o : Operators \cup {None},
                kind : Kinds, groups : SUBSET Groups]
    /\ rec.pc # "idle" => rec.o \in Operators
    /\ rec.pc \in Finalizing => res[rec.o] = "deleting"
    /\ mishaps \in 0..MaxMishaps
    /\ excused \subseteq Operators

-----------------------------------------------------------------------------
IdleRec == [pc |-> "idle", o |-> None, kind |-> "none", groups |-> {}]

Init ==
    /\ nameOf \in [Operators -> Names]
    /\ kind \in [Operators -> Kinds]
    /\ res = [o \in Operators |-> "absent"]
    /\ lives = [o \in Operators |-> 0]
    /\ crds = {} /\ namespaces = {}
    /\ roles = [n \in Names |-> {}]
    /\ bindings = {} /\ manifests = {} /\ releases = {}
    /\ rec = IdleRec
    /\ mishaps = 0
    /\ excused = {}

\* A request, whose error is only logged, may fail.
MayFail(failed) ==
    /\ mishaps' = IF failed THEN mishaps + 1 ELSE mishaps
    /\ mishaps' <= MaxMishaps

-----------------------------------------------------------------------------
UserCreates(o) ==
    /\ res[o] = "absent" /\ lives[o] < MaxLives
    /\ res' = [res EXCEPT ![o] = "new"]
    /\ lives' = [lives EXCEPT ![o] = @ + 1]
    /\ UNCHANGED <<nameOf, kind, crds, namespaces, role, manifests, releases,
                   rec, mishaps, excused>>

UserDeletes(o) ==
    /\ res[o] \in {"new", "live"}
    /\ res' = [res EXCEPT ![o] = IF @ = "new" THEN "absent" ELSE "deleting"]
    /\ UNCHANGED <<nameOf, kind, lives, crds, namespaces, role, manifests,
                   releases, rec, mishaps, excused>>

UserEdits(o) ==
    /\ res[o] \in {"new", "live"}
    /\ MayFail(TRUE)
    /\ \E k \in Kinds \ {kind[o]} : kind' = [kind EXCEPT ![o] = k]
    /\ excused' = excused \cup {o}
    /\ UNCHANGED <<nameOf, res, lives, crds, namespaces, role, manifests,
                   releases, rec>>

Crash ==
    /\ rec.pc # "idle"
    /\ MayFail(TRUE)
    /\ rec' = IdleRec
    /\ UNCHANGED <<api, crds, namespaces, role, manifests, releases, excused>>

-----------------------------------------------------------------------------
(***************************************************************************)
(* Reconcile, installing.  Every step creates what is not there and leaves *)
(* what is there as it is.                                                 *)
(***************************************************************************)
AddFinalizer(o) ==
    /\ rec.pc = "idle" /\ res[o] = "new"
    /\ res' = [res EXCEPT ![o] = "live"]
    /\ UNCHANGED <<nameOf, kind, lives, crds, namespaces, role, manifests,
                   releases, rec, mishaps, excused>>

StartInstall(o) ==
    /\ rec.pc = "idle" /\ res[o] = "live"
    /\ rec' = [IdleRec EXCEPT !.pc = "crds", !.o = o, !.kind = kind[o]]
    /\ namespaces' = namespaces \cup {o}
    /\ UNCHANGED <<api, crds, role, manifests, releases, mishaps, excused>>

\* A plausible bug: a definition that exists already gets no rule.
CreateCRDsNoRules ==
    /\ rec.pc = "crds"
    /\ \E created \in SUBSET CRDsOf[rec.o] :
         /\ MayFail(created # CRDsOf[rec.o])
         /\ crds' = crds \cup created
         /\ rec' = [rec EXCEPT !.pc = "role",
                 !.groups = {GroupOf[c] : c \in created \ crds}]
    /\ UNCHANGED <<api, namespaces, role, manifests, releases, excused>>

\* CreateFromURL for each path; one that cannot be fetched or created is
\* passed over, and its group gets no rule.
CreateCRDs ==
    /\ rec.pc = "crds"
    /\ \E created \in SUBSET CRDsOf[rec.o] :
         /\ MayFail(created # CRDsOf[rec.o])
         /\ crds' = crds \cup created
         /\ rec' = [rec EXCEPT !.pc = "role",
                               !.groups = {GroupOf[c] : c \in created}]
    /\ UNCHANGED <<api, namespaces, role, manifests, releases, excused>>

\* The rules: the job's group and those of the definitions.  A role of that
\* name that exists makes the creation fail.
CreateRole ==
    /\ rec.pc = "role"
    /\ \E failed \in BOOLEAN :
         /\ MayFail(failed)
         /\ roles' = IF failed \/ roles[nameOf[rec.o]] # {} THEN roles
                     ELSE [roles EXCEPT ![nameOf[rec.o]] =
                             rec.groups \cup {JobGroup[rec.o]}]
    /\ rec' = [rec EXCEPT !.pc = "binding"]
    /\ UNCHANGED <<api, crds, namespaces, bindings, manifests, releases,
                   excused>>

CreateBinding ==
    /\ rec.pc = "binding"
    /\ \E failed \in BOOLEAN :
         /\ MayFail(failed)
         /\ bindings' = IF failed THEN bindings
                        ELSE bindings \cup {nameOf[rec.o]}
    /\ rec' = [rec EXCEPT !.pc = "install"]
    /\ UNCHANGED <<api, crds, namespaces, roles, manifests, releases, excused>>

\* installHelm: the repository is added, then the release installed; either
\* may fail, and no release comes of it.
InstallHelm ==
    /\ rec.pc = "install" /\ rec.kind = "helm"
    /\ \E failed \in BOOLEAN :
         /\ MayFail(failed)
         /\ releases' = IF failed THEN releases
                        ELSE releases \cup {ReleaseOf[rec.o]}
    /\ rec' = IdleRec
    /\ UNCHANGED <<api, crds, namespaces, role, manifests, excused>>

\* A plausible bug: only the first request installs manifests.
InstallYAMLOnce ==
    /\ rec.pc = "install" /\ rec.kind = "yaml"
    /\ \E created \in SUBSET PathsOf[rec.o] :
         /\ MayFail(created # PathsOf[rec.o])
         /\ manifests' = IF manifests = {} THEN created ELSE manifests
    /\ rec' = IdleRec
    /\ UNCHANGED <<api, crds, namespaces, role, releases, excused>>

\* installYAML goes on to the next path after an error.
InstallYAML ==
    /\ rec.pc = "install" /\ rec.kind = "yaml"
    /\ \E created \in SUBSET PathsOf[rec.o] :
         /\ MayFail(created # PathsOf[rec.o])
         /\ manifests' = manifests \cup created
    /\ rec' = IdleRec
    /\ UNCHANGED <<api, crds, namespaces, role, releases, excused>>

InstallNothing ==
    /\ rec.pc = "install" /\ rec.kind = "none"
    /\ rec' = IdleRec
    /\ UNCHANGED <<api, crds, namespaces, role, manifests, releases, mishaps,
                   excused>>

-----------------------------------------------------------------------------
(***************************************************************************)
(* Reconcile, finalizing.                                                  *)
(***************************************************************************)

\* A plausible bug: a deployment of manifests is taken for none.
StartFinalizeEarly(o) ==
    /\ rec.pc = "idle" /\ res[o] = "deleting"
    /\ rec' = [IdleRec EXCEPT !.o = o, !.kind = kind[o],
                 !.pc = IF kind[o] = "helm" THEN "uninstall" ELSE "remove"]
    /\ UNCHANGED <<api, crds, namespaces, role, manifests, releases, mishaps,
                   excused>>

\* A deployment of kind none is left as it is, with its role.
StartFinalize(o) ==
    /\ rec.pc = "idle" /\ res[o] = "deleting"
    /\ rec' = [IdleRec EXCEPT !.o = o, !.kind = kind[o],
                 !.pc = IF kind[o] = "none" THEN "remove" ELSE "uninstall"]
    /\ UNCHANGED <<api, crds, namespaces, role, manifests, releases, mishaps,
                   excused>>

UninstallHelm ==
    /\ rec.pc = "uninstall" /\ rec.kind = "helm"
    /\ \E failed \in BOOLEAN :
         /\ MayFail(failed)
         /\ releases' = IF failed THEN releases
                        ELSE releases \ {ReleaseOf[rec.o]}
         /\ excused' = IF failed THEN excused \cup {rec.o} ELSE excused
    /\ rec' = [rec EXCEPT !.pc = "unrole"]
    /\ UNCHANGED <<api, crds, namespaces, role, manifests>>

UninstallYAML ==
    /\ rec.pc = "uninstall" /\ rec.kind = "yaml"
    /\ \E deleted \in SUBSET PathsOf[rec.o] :
         /\ MayFail(deleted # PathsOf[rec.o])
         /\ manifests' = manifests \ deleted
         /\ excused' = IF deleted = PathsOf[rec.o] THEN excused
                       ELSE excused \cup {rec.o}
    /\ rec' = [rec EXCEPT !.pc = "unrole"]
    /\ UNCHANGED <<api, crds, namespaces, role, releases>>

\* removeRoleBinding, whose two errors are not even logged.
RemoveRole ==
    /\ rec.pc = "unrole"
    /\ \E failed \in BOOLEAN :
         /\ MayFail(failed)
         /\ roles' = IF failed THEN roles
                     ELSE [roles EXCEPT ![nameOf[rec.o]] = {}]
         /\ excused' = IF failed THEN excused \cup {rec.o} ELSE excused
    /\ rec' = [rec EXCEPT !.pc = "unbind"]
    /\ UNCHANGED <<api, crds, namespaces, bindings, manifests, releases>>

RemoveBinding ==
    /\ rec.pc = "unbind"
    /\ \E failed \in BOOLEAN :
         /\ MayFail(failed)
         /\ bindings' = IF failed THEN bindings
                        ELSE bindings \ {nameOf[rec.o]}
         /\ excused' = IF failed THEN excused \cup {rec.o} ELSE excused
    /\ rec' = [rec EXCEPT !.pc = "remove"]
    /\ UNCHANGED <<api, crds, namespaces, roles, manifests, releases>>

\* A plausible bug: the reconciler is not released for other resources.
RemoveFinalizerOnly ==
    /\ rec.pc = "remove"
    /\ res' = [res EXCEPT ![rec.o] = "absent"]
    /\ UNCHANGED <<nameOf, kind, lives, crds, namespaces, role, manifests,
                   releases, rec, mishaps, excused>>

\* The finalizer goes, and the resource with it, unless the update is
\* refused.
RemoveFinalizer ==
    /\ rec.pc = "remove"
    /\ \E failed \in BOOLEAN :
         /\ MayFail(failed)
         /\ res' = IF failed THEN res ELSE [res EXCEPT ![rec.o] = "absent"]
    /\ rec' = IdleRec
    /\ UNCHANGED <<nameOf, kind, lives, crds, namespaces, role, manifests,
                   releases, excused>>

-----------------------------------------------------------------------------
Users == \E o \in Operators : UserCreates(o) \/ UserDeletes(o) \/ UserEdits(o)

Step ==
    \/ CreateCRDs \/ CreateRole \/ CreateBinding
    \/ InstallHelm \/ InstallYAML \/ InstallNothing
    \/ UninstallHelm \/ UninstallYAML
    \/ RemoveRole \/ RemoveBinding \/ RemoveFinalizer

Take(o) == AddFinalizer(o) \/ StartInstall(o) \/ StartFinalize(o)

Next == Users \/ Crash \/ Step \/ \E o \in Operators : Take(o)

(***************************************************************************)
(* The reconciler's worker runs, and takes every resource again and again: *)
(* on changes, after a restart and at the manager's periodic resync.       *)
(***************************************************************************)
Fairness == WF_vars(Step) /\ \A o \in Operators : SF_vars(Take(o))

Spec == Init /\ [][Next]_vars /\ Fairness

-----------------------------------------------------------------------------
\* Whether o may still have things of kind k in the cluster.
Keeps(o, k) == o \in excused \/ (res[o] # "absent" /\ kind[o] = k)

(***************************************************************************)
(* What an operator that was deleted has installed is gone, wherever the   *)
(* process restarted in between, because the finalizer goes last; unless   *)
(* the operator was edited, an error was passed over, or another operator  *)
(* shares it (benchmarkoperator_controller.go:105-119, 341-361).  A role is *)
(* gone if no operator of its name was of kind none, which leaves it.      *)
(***************************************************************************)
NothingLeftBehind ==
    /\ \A m \in manifests :
         \E o \in Operators : m \in PathsOf[o] /\ Keeps(o, "yaml")
    /\ \A r \in releases :
         \E o \in Operators : r = ReleaseOf[o] /\ Keeps(o, "helm")
    /\ \A n \in Names : (roles[n] # {} \/ n \in bindings) =>
         \E o \in Operators :
            /\ nameOf[o] = n
            /\ \/ Keeps(o, kind[o])
               \/ kind[o] = "none" /\ lives[o] > 0

(***************************************************************************)
(* The role of an operator that shares its name with no one and has met no *)
(* mishap lets its jobs be created and gives the operator the groups of    *)
(* all its definitions, from the time the binding is made.  (A definition  *)
(* that could not be fetched when the role was created never gets a rule:  *)
(* the role is not updated, line 188.)                                     *)
(***************************************************************************)
RoleCoversGroups ==
    \A o \in Operators :
        /\ mishaps = 0
        /\ \A p \in Operators : nameOf[p] = nameOf[o] => p = o
        /\ nameOf[o] \in bindings
        /\ res[o] = "live"
        => {JobGroup[o]} \cup {GroupOf[c] : c \in CRDsOf[o]}
             \subseteq roles[nameOf[o]]

Installed(o) ==
    /\ CRDsOf[o] \subseteq crds
    /\ roles[nameOf[o]] # {} /\ nameOf[o] \in bindings
    /\ kind[o] = "helm" => ReleaseOf[o] \in releases
    /\ kind[o] = "yaml" => PathsOf[o] \subseteq manifests

(***************************************************************************)
(* An operator that stays is installed in the end and remains so: errors   *)
(* and restarts are made good by a later request, and so is the deletion   *)
(* of a role, release or manifest that another operator shared with it.    *)
(***************************************************************************)
InstalledInTheEnd ==
    \A o \in Operators : <>[](res[o] = "live") => <>[]Installed(o)

=============================================================================
