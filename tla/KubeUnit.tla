------------------------------ MODULE KubeUnit ------------------------------
(***************************************************************************)
(* A unit of type k8s-manifest: kubectl applies its manifests, and deletes *)
(* the objects of manifests that its record has and the project has not.   *)
(* The unit is edited, applied and destroyed again and again; commands     *)
(* fail in the middle and processes die before they have saved the state.  *)
(*                                                                         *)
(* kubectl is external: it works on one object after the other, goes on    *)
(* after an error, fails for objects that it does not find (delete), whose *)
(* namespace does not exist (apply), or whose own namespace is not the one *)
(* that it is given. The other units are left out, see Reconcile.          *)
(***************************************************************************)
EXTENDS Naturals, FiniteSets

CONSTANTS Units,         \* the forms of the unit that the user may write
          Names,         \* of Kubernetes objects; a name includes the kind
          Namespaces,
          Versions,      \* contents of a manifest
          Unnamed,       \* no namespace is given
          KubeDefault,   \* the namespace that kubectl takes then
          Absent         \* no unit, no record

(* The key of a manifest is its namespace, if it has one, and its name.    *)
ManifestKeys == (Namespaces \cup {Unnamed}) \X Names
Objects == [ns : Namespaces, name : Names, version : Versions]

ASSUME NamespacesAssumption == KubeDefault \in Namespaces /\ Unnamed \notin Namespaces

ASSUME UnitsAssumption ==
  \A u \in Units : /\ u.namespace \in Namespaces \cup {Unnamed}
                   /\ DOMAIN u.manifests \subseteq ManifestKeys
                   /\ \A k \in DOMAIN u.manifests : u.manifests[k] \in Versions

VARIABLES
  project,     \* the unit as the user wrote it
  stored,      \* its record in the state that was saved
  own,         \* its record in OwnState
  cluster,     \* the objects of the unit in the cluster
  namespaces,  \* the namespaces of the cluster
  pc,
  op,          \* what was planned
  createNSList,\* namespaces that are still to be created
  loaded,      \* the record that the command started with
  before       \* the cluster as the command found it

vars == <<project, stored, own, cluster, namespaces, pc, op, createNSList, loaded, before>>

Record(u, tainted) == [namespace |-> u.namespace, manifests |-> u.manifests, tainted |-> tainted]
Records == {Record(u, t) : u \in Units, t \in BOOLEAN}

ASSUME AbsentAssumption == Absent \notin Units \cup Records

TypeOK ==
  /\ project \in Units \cup {Absent}
  /\ {stored, own, loaded} \subseteq Records \cup {Absent}
  /\ cluster \subseteq Objects /\ before \subseteq Objects
  /\ namespaces \subseteq Namespaces /\ createNSList \subseteq Namespaces
  /\ pc \in {"idle", "build", "namespaces", "delete", "apply", "destroy", "ended", "failed"}
  /\ op \in {"none", "apply", "destroy"}

(* Where kubectl looks for the object of a manifest, given the unit's      *)
(* namespace as -n, and whether it takes it.                               *)
Place(namespace, k) ==
  IF k[1] # Unnamed THEN k[1] ELSE IF namespace # Unnamed THEN namespace ELSE KubeDefault
Accepts(namespace, k) == Unnamed \in {k[1], namespace} \/ k[1] = namespace

Id(o) == <<o.ns, o.name>>
Ids(objects) == {Id(o) : o \in objects}
IdsOf(namespace, keys) == {<<Place(namespace, k), k[2]>> : k \in keys}
ObjectsOf(u, keys) ==
  {[ns |-> Place(u.namespace, k), name |-> k[2], version |-> u.manifests[k]] : k \in keys}
Targets(u) == IF u = Absent THEN {} ELSE ObjectsOf(u, DOMAIN u.manifests)

Without(ids) == {o \in cluster : Id(o) \notin ids}
With(objects) == Without(Ids(objects)) \cup objects

Init ==
  /\ project \in Units
  /\ stored = Absent /\ own = Absent /\ loaded = Absent
  /\ cluster = {} /\ before = {}
  /\ namespaces \in {ns \in SUBSET Namespaces : KubeDefault \in ns}
  /\ pc = "idle" /\ op = "none" /\ createNSList = {}

Edit ==
  /\ pc = "idle"
  /\ project' \in (Units \cup {Absent}) \ {project}
  /\ UNCHANGED <<stored, own, cluster, namespaces, pc, op, createNSList, loaded, before>>

------------------------------------------------------------------------------

(* Seeded fault: what a manifest says is no difference.                    *)
KeysDiffer(record) == DOMAIN project.manifests # DOMAIN record.manifests

(* GetUnitDiff compares the manifests, not the namespace or the options.   *)
Differs(record) == project.manifests # record.manifests

(* The plan of an apply: a unit whose dependencies change is applied, too. *)
PlanApply(record, dependenciesChange) ==
  IF project = Absent THEN (IF record = Absent THEN "none" ELSE "destroy")
  ELSE IF record = Absent THEN "apply"
  ELSE IF Differs(record) \/ record.tainted \/ dependenciesChange THEN "apply"
  ELSE "none"

(* The destruction of what the state has; with --ignore-state, of what the *)
(* project has.                                                            *)
PlanDestroy(record, ignoreState) ==
  IF (IF ignoreState THEN project ELSE record) = Absent THEN "none" ELSE "destroy"

Loaded(ignoreState) == IF ignoreState THEN Absent ELSE stored

(* A command loads the state, or starts with an empty one, and plans.      *)
Plan(record, operation) ==
  /\ pc = "idle"
  /\ op' = operation
  /\ pc' = IF operation = "none" THEN "ended" ELSE "build"
  /\ own' = record /\ loaded' = record /\ before' = cluster
  /\ UNCHANGED <<project, stored, cluster, namespaces, createNSList>>

(* The unit that is run: the project's, or the one of the state.           *)
Unit == IF op = "destroy" /\ own # Absent THEN own ELSE project

(* GetManifestsMap, the namespaces.                                        *)
NamespacesOf(u) == ({k[1] : k \in DOMAIN u.manifests} \cup {u.namespace}) \ {Unnamed}

(* The namespaces are collected only when the unit has a record, whatever  *)
(* create_namespaces says.                                                 *)
Build ==
  /\ pc = "build"
  /\ createNSList' = IF op = "apply" /\ own # Absent THEN NamespacesOf(Unit) ELSE {}
  /\ pc' = IF op = "apply" THEN "namespaces" ELSE "destroy"
  /\ UNCHANGED <<project, stored, own, cluster, namespaces, op, loaded, before>>

(* A marker that cannot be replaced, a file that cannot be written.        *)
BuildFails ==
  /\ pc = "build"
  /\ pc' = "failed"
  /\ UNCHANGED <<project, stored, own, cluster, namespaces, op, createNSList, loaded, before>>

(* createNamespacesIfNotExists: an error is logged and ignored.            *)
CreateNamespace(ns, created) ==
  /\ pc = "namespaces" /\ ns \in createNSList
  /\ createNSList' = createNSList \ {ns}
  /\ namespaces' = IF created THEN namespaces \cup {ns} ELSE namespaces
  /\ UNCHANGED <<project, stored, own, cluster, pc, op, loaded, before>>

NamespacesCreated ==
  /\ pc = "namespaces" /\ createNSList = {}
  /\ pc' = "delete"
  /\ UNCHANGED <<project, stored, own, cluster, namespaces, op, createNSList, loaded, before>>

------------------------------------------------------------------------------
(* The commands of the unit, in one shell that ends with the first error.  *)

Run == UNCHANGED <<project, stored, namespaces, op, createNSList, loaded, before>>

(* kubectl delete of some manifests: it may get to all of them, or fail at *)
(* any point.                                                              *)
Found(namespace, keys) ==
  {k \in keys : Accepts(namespace, k) /\ <<Place(namespace, k), k[2]>> \in Ids(cluster)}

(* Seeded fault: only a manifest whose name is gone is deleted.            *)
NamesRemoved ==
  IF own = Absent THEN {}
  ELSE {k \in DOMAIN own.manifests : \A l \in DOMAIN project.manifests : k[2] # l[2]}

(* The manifests that only the record has, by their keys.                  *)
Removed == IF own = Absent THEN {} ELSE DOMAIN own.manifests \ DOMAIN project.manifests

(* What kubectl reads in delete/main.yaml: the removed manifests are       *)
(* joined without a separator, for the counter that guards it is never     *)
(* raised, and of a key that is repeated the last value counts. The order  *)
(* is that of a map.                                                       *)
Documents == IF Removed = {} THEN {{}} ELSE {{k} : k \in Removed}

(* kubectl delete, with the options and the namespace of the new unit.     *)
DeleteRemoved(document) ==
  /\ pc = "delete" /\ document \in Documents
  /\ Found(project.namespace, document) = document
  /\ cluster' = Without(IdsOf(project.namespace, document))
  /\ pc' = "apply"
  /\ UNCHANGED own /\ Run

(* The failed unit is recorded with its new manifests, tainted.            *)
DeleteFails(deleted) ==
  /\ pc = "delete" /\ Removed # {}
  /\ \E document \in Documents : deleted \subseteq Found(project.namespace, document)
  /\ cluster' = Without(IdsOf(project.namespace, deleted))
  /\ own' = Record(project, TRUE)
  /\ pc' = "failed"
  /\ Run

Applicable ==
  {k \in DOMAIN project.manifests :
     Accepts(project.namespace, k) /\ Place(project.namespace, k) \in namespaces}

(* Seeded fault: the record keeps what it had besides the manifests.       *)
OldRecord ==
  IF own = Absent THEN Record(project, FALSE)
  ELSE [own EXCEPT !.manifests = project.manifests, !.tainted = FALSE]

NewRecord == Record(project, FALSE)

ApplyManifests ==
  /\ pc = "apply"
  /\ Applicable = DOMAIN project.manifests
  /\ cluster' = With(Targets(project))
  /\ own' = NewRecord
  /\ pc' = "ended"
  /\ Run

ApplyFails(applied) ==
  /\ pc = "apply" /\ applied \subseteq Applicable
  /\ cluster' = With(ObjectsOf(project, applied))
  /\ own' = Record(project, TRUE)
  /\ pc' = "failed"
  /\ Run

(* kubectl delete of all that the unit has.                                *)
Destroy ==
  /\ pc = "destroy"
  /\ Found(Unit.namespace, DOMAIN Unit.manifests) = DOMAIN Unit.manifests
  /\ cluster' = Without(IdsOf(Unit.namespace, DOMAIN Unit.manifests))
  /\ own' = Absent
  /\ pc' = "ended"
  /\ Run

(* The unit of the state is marked where it lies, the project's has no     *)
(* record that could be.                                                   *)
DestroyFails(deleted) ==
  /\ pc = "destroy" /\ deleted \subseteq Found(Unit.namespace, DOMAIN Unit.manifests)
  /\ cluster' = Without(IdsOf(Unit.namespace, deleted))
  /\ own' = IF own = Absent THEN Absent ELSE Record(own, TRUE)
  /\ pc' = "failed"
  /\ Run

Leave ==
  /\ pc' = "idle" /\ op' = "none" /\ own' = Absent /\ createNSList' = {}
  /\ loaded' = Absent /\ before' = {}
  /\ UNCHANGED <<project, cluster, namespaces>>

Save == pc \in {"ended", "failed"} /\ stored' = own /\ Leave

(* The process dies, or the state cannot be written.                       *)
Crash == pc # "idle" /\ UNCHANGED stored /\ Leave

Next ==
  \/ Edit
  \/ \E ignoreState \in BOOLEAN :
       LET record == Loaded(ignoreState) IN
         \/ \E changes \in BOOLEAN : Plan(record, PlanApply(record, changes))
         \/ Plan(record, PlanDestroy(record, ignoreState))
  \/ Build \/ BuildFails
  \/ \E ns \in Namespaces, created \in BOOLEAN : CreateNamespace(ns, created)
  \/ NamespacesCreated
  \/ ApplyManifests \/ Destroy
  \/ \E keys \in SUBSET ManifestKeys :
       DeleteRemoved(keys) \/ DeleteFails(keys) \/ ApplyFails(keys) \/ DestroyFails(keys)
  \/ Save \/ Crash

Spec == Init /\ [][Next]_vars

------------------------------------------------------------------------------

(* The namespace is no difference, so an edit of it alone is not deployed, *)
(* and what is removed with it is looked for in the new one.               *)
NamespaceKept ==
  loaded # Absent /\ own # Absent => loaded.namespace = own.namespace

(* A command that applied the unit, or found it as the record says when    *)
(* the record was true of the cluster, leaves every manifest of the        *)
(* project deployed with its content: also one that is moved to another    *)
(* key but stays the same object, which is deleted first (unit.go:70).     *)
Deployed ==
  pc = "ended" /\ project # Absent =>
    \/ op = "destroy" \/ own = Absent
    \/ op = "none" /\ (own.namespace # project.namespace \/ ~(Targets(own) \subseteq before))
    \/ Targets(project) \subseteq cluster

(* The manifests that the command took out of the record.                  *)
Dropped ==
  IF Absent \in {loaded, own} THEN {} ELSE DOMAIN loaded.manifests \ DOMAIN own.manifests

(* A command that ends without an error leaves no object behind that its   *)
(* record does not know, other than those that an earlier command left:    *)
(* one that died, or whose kubectl did not delete what its record forgets. *)
(* Of the manifests that are dropped together all but one may be left,     *)
(* for they are joined to one document (unit.go:330); a single one is not. *)
NothingLeftBehind ==
  pc = "ended" /\ NamespaceKept =>
    LET left == (Ids(cluster) \ Ids(Targets(own))) \ (Ids(before) \ Ids(Targets(loaded)))
    IN  left = {} \/ \E k \in Dropped : left \subseteq IdsOf(loaded.namespace, Dropped \ {k})

==============================================================================
