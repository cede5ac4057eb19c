--------------------------- MODULE KubeUnitProofs ---------------------------
(***************************************************************************)
(* What a run of a k8s-manifest unit leaves in the cluster, for any number *)
(* of names, namespaces and forms of the unit. Until kubectl starts, the   *)
(* cluster is the one that the command found; between delete and apply,    *)
(* one removed manifest's object is gone and nothing has been added.       *)
(***************************************************************************)
EXTENDS KubeUnit, TLAPS

Working == {"build", "namespaces", "delete", "apply", "destroy"}
Untouched == {"build", "namespaces", "delete", "destroy"}
Applying == {"namespaces", "delete", "apply"}

(* The unit of the plan is there, and the record is the one that was       *)
(* loaded.                                                                 *)
PlanStands ==
  /\ pc \in Working => own = loaded
  /\ pc \in Applying => op = "apply"
  /\ pc = "destroy" => op = "destroy"
  /\ pc \in Working => op \in {"apply", "destroy"}
  /\ op = "apply" => project # Absent
  /\ pc = "idle" => op = "none"
  /\ pc \in Working /\ op = "destroy" => Unit # Absent

ClusterKept ==
  /\ pc \in Untouched => cluster = before
  /\ pc = "apply" => /\ cluster \subseteq before
                     /\ Removed # {} => \E k \in Removed :
                          Ids(cluster) \cap IdsOf(project.namespace, {k}) = {}

KInv == TypeOK /\ PlanStands /\ ClusterKept /\ NothingLeftBehind /\ Deployed

------------------------------------------------------------------------------

(* Where the objects of a unit are.                                        *)
LEMMA PlaceType ==
  ASSUME NEW u \in Units, NEW k \in DOMAIN u.manifests
  PROVE  Place(u.namespace, k) \in Namespaces /\ k[2] \in Names
  BY NamespacesAssumption, UnitsAssumption DEF Place, ManifestKeys

LEMMA ObjectsType ==
  ASSUME NEW u \in Units, NEW keys \in SUBSET (DOMAIN u.manifests)
  PROVE  ObjectsOf(u, keys) \subseteq Objects
<1> SUFFICES ASSUME NEW k \in keys
               PROVE  [ns |-> Place(u.namespace, k), name |-> k[2], version |-> u.manifests[k]]
                        \in Objects
  BY DEF ObjectsOf
<1>1. k \in DOMAIN u.manifests
  OBVIOUS
<1>2. u.manifests[k] \in Versions
  BY <1>1, UnitsAssumption
<1>3. Place(u.namespace, k) \in Namespaces /\ k[2] \in Names
  BY <1>1, PlaceType
<1> QED
  BY <1>2, <1>3 DEF Objects

LEMMA IdsOfObjects ==
  ASSUME NEW u, NEW keys
  PROVE  Ids(ObjectsOf(u, keys)) = IdsOf(u.namespace, keys)
<1> DEFINE object(k) ==
      [ns |-> Place(u.namespace, k), name |-> k[2], version |-> u.manifests[k]]
<1>1. \A k : Id(object(k)) = <<Place(u.namespace, k), k[2]>>
  BY DEF Id
<1>2. ObjectsOf(u, keys) = {object(k) : k \in keys}
  BY DEF ObjectsOf
<1> HIDE DEF object
<1>3. Ids(ObjectsOf(u, keys)) = {Id(object(k)) : k \in keys}
  BY <1>2 DEF Ids
<1> QED
  BY <1>1, <1>3 DEF IdsOf

LEMMA IdsOfTargets ==
  ASSUME NEW u, u # Absent
  PROVE  Ids(Targets(u)) = IdsOf(u.namespace, DOMAIN u.manifests)
  BY IdsOfObjects DEF Targets

LEMMA WithoutIds ==
  ASSUME NEW ids
  PROVE  /\ Without(ids) \subseteq cluster
         /\ Ids(Without(ids)) = Ids(cluster) \ ids
  BY DEF Without, Ids

LEMMA WithIds ==
  ASSUME NEW objects
  PROVE  Ids(With(objects)) = Ids(cluster) \cup Ids(objects)
  BY DEF With, Without, Ids

(* A record is a record of a unit, and not none.                           *)
LEMMA RecordType ==
  ASSUME NEW u \in Units, NEW t \in BOOLEAN
  PROVE  /\ Record(u, t) \in Records /\ Record(u, t) # Absent
         /\ Record(u, t).namespace = u.namespace
         /\ Record(u, t).manifests = u.manifests
<1>1. Record(u, t) \in Records
  BY DEF Records
<1> QED
  BY <1>1, AbsentAssumption DEF Record

LEMMA TaintedType ==
  ASSUME NEW r \in Records
  PROVE  Record(r, TRUE) \in Records
<1>1. PICK u \in Units, t \in BOOLEAN : r = Record(u, t)
  BY DEF Records
<1>2. Record(r, TRUE) = Record(u, TRUE)
  BY <1>1, RecordType DEF Record
<1> QED
  BY <1>2, RecordType

LEMMA AbsentUnits == Absent \notin Units
  BY AbsentAssumption

------------------------------------------------------------------------------
(* Types.                                                                  *)

LEMMA InitKInv == Init => KInv
<1> SUFFICES ASSUME Init PROVE KInv
  OBVIOUS
<1>1. TypeOK
  BY DEF Init, TypeOK
<1> QED
  BY <1>1, AbsentUnits DEF Init, KInv, PlanStands, ClusterKept, NothingLeftBehind,
     Deployed, Working,
     Untouched, Applying

LEMMA KubectlTypeOK ==
  ASSUME KInv, NEW keys \in SUBSET ManifestKeys,
         \/ DeleteRemoved(keys) \/ DeleteFails(keys) \/ ApplyManifests \/ ApplyFails(keys)
         \/ Destroy \/ DestroyFails(keys)
  PROVE  TypeOK'
<1> USE DEF KInv, TypeOK
<1>1. CASE DeleteRemoved(keys)
  <2>1. cluster' \subseteq cluster
    BY <1>1, WithoutIds DEF DeleteRemoved
  <2> QED
    BY <1>1, <2>1 DEF DeleteRemoved, Run
<1>2. CASE DeleteFails(keys)
  <2>1. cluster' \subseteq cluster
    BY <1>2, WithoutIds DEF DeleteFails
  <2>2. project \in Units
    BY <1>2 DEF PlanStands, Applying, DeleteFails
  <2>3. own' \in Records
    BY <1>2, <2>2, RecordType DEF DeleteFails
  <2> QED
    BY <1>2, <2>1, <2>3 DEF DeleteFails, Run
<1>3. CASE ApplyManifests
  <2>1. project \in Units /\ project # Absent
    BY <1>3 DEF PlanStands, Applying, ApplyManifests
  <2>2. Targets(project) \subseteq Objects
    BY <2>1, ObjectsType DEF Targets
  <2>3. own' \in Records
    BY <1>3, <2>1, RecordType DEF ApplyManifests, NewRecord
  <2>4. cluster' \subseteq Objects
    BY <1>3, <2>2 DEF ApplyManifests, With, Without
  <2> QED
    BY <1>3, <2>3, <2>4 DEF ApplyManifests, Run
<1>4. CASE ApplyFails(keys)
  <2>1. project \in Units
    BY <1>4 DEF PlanStands, Applying, ApplyFails
  <2>2. keys \subseteq DOMAIN project.manifests
    BY <1>4 DEF ApplyFails, Applicable
  <2>3. ObjectsOf(project, keys) \subseteq Objects
    BY <2>1, <2>2, ObjectsType
  <2>4. own' \in Records
    BY <1>4, <2>1, RecordType DEF ApplyFails
  <2>5. cluster' \subseteq Objects
    BY <1>4, <2>3 DEF ApplyFails, With, Without
  <2> QED
    BY <1>4, <2>4, <2>5 DEF ApplyFails, Run
<1>5. CASE Destroy
  <2>1. cluster' \subseteq cluster
    BY <1>5, WithoutIds DEF Destroy
  <2> QED
    BY <1>5, <2>1 DEF Destroy, Run
<1>6. CASE DestroyFails(keys)
  <2>1. cluster' \subseteq cluster
    BY <1>6, WithoutIds DEF DestroyFails
  <2>3. own' \in Records \cup {Absent}
    BY <1>6, TaintedType DEF DestroyFails
  <2> QED
    BY <1>6, <2>1, <2>3 DEF DestroyFails, Run
<1> QED
  BY <1>1, <1>2, <1>3, <1>4, <1>5, <1>6

------------------------------------------------------------------------------
(* The steps before and after kubectl.                                     *)

LEMMA QuietKeepsKInv ==
  ASSUME KInv,
         \/ Edit \/ Build \/ BuildFails \/ NamespacesCreated \/ Save \/ Crash
         \/ \E ns \in Namespaces, created \in BOOLEAN : CreateNamespace(ns, created)
  PROVE  KInv'
<1> USE DEF KInv
<1>1. CASE Edit
  BY <1>1, AbsentUnits DEF Edit, TypeOK, PlanStands, ClusterKept, NothingLeftBehind,
     Deployed, Working,
     Untouched, Applying
<1>2. CASE Build
  <2>1. op = "apply" => NamespacesOf(Unit) \subseteq Namespaces
    BY <1>2, UnitsAssumption DEF Build, PlanStands, TypeOK, NamespacesOf, Unit,
       ManifestKeys
  <2>2. TypeOK'
    BY <1>2, <2>1 DEF Build, TypeOK
  <2> QED
    BY <1>2, <2>2 DEF Build, PlanStands, ClusterKept, NothingLeftBehind, Deployed,
       Working, Untouched, Applying, Unit
<1>3. CASE BuildFails
  BY <1>3 DEF BuildFails, TypeOK, PlanStands, ClusterKept, NothingLeftBehind,
     Deployed, Working, Untouched,
     Applying
<1>4. CASE NamespacesCreated
  BY <1>4 DEF NamespacesCreated, TypeOK, PlanStands, ClusterKept, NothingLeftBehind,
     Deployed, Working,
     Untouched, Applying
<1>5. CASE \E ns \in Namespaces, created \in BOOLEAN : CreateNamespace(ns, created)
  BY <1>5 DEF CreateNamespace, TypeOK, PlanStands, ClusterKept, NothingLeftBehind,
     Deployed, Working,
     Untouched, Applying
<1>6. CASE Save \/ Crash
  BY <1>6 DEF Save, Crash, Leave, TypeOK, PlanStands, ClusterKept, NothingLeftBehind,
     Deployed, Working,
     Untouched, Applying
<1> QED
  BY <1>1, <1>2, <1>3, <1>4, <1>5, <1>6

LEMMA PlanKeepsKInv ==
  ASSUME KInv, NEW ignoreState \in BOOLEAN, NEW record, record = Loaded(ignoreState),
         \/ \E changes \in BOOLEAN : Plan(record, PlanApply(record, changes))
         \/ Plan(record, PlanDestroy(record, ignoreState))
  PROVE  KInv'
<1>1. PICK operation \in {"none", "apply", "destroy"} :
        /\ Plan(record, operation)
        /\ operation = "apply" => project # Absent
        /\ operation = "destroy" => record # Absent \/ project # Absent
        /\ operation = "none" /\ project # Absent /\ record # Absent =>
             project.manifests = record.manifests
  BY DEF PlanApply, PlanDestroy, Differs, Loaded
<1>2. record \in Records \cup {Absent}
  BY DEF Loaded, KInv, TypeOK
<1>3. Deployed'
  <2> SUFFICES ASSUME operation = "none", project # Absent, record # Absent,
                      record.namespace = project.namespace, Targets(record) \subseteq cluster
               PROVE  Targets(project) \subseteq cluster
    BY <1>1 DEF Plan, Deployed
  <2> QED
    BY <1>1 DEF Targets, ObjectsOf
<1>4. NothingLeftBehind'
  BY <1>1 DEF Plan, NothingLeftBehind, Ids
<1>5. PlanStands'
  BY <1>1 DEF Plan, PlanStands, Working, Applying, Unit
<1> QED
  BY <1>1, <1>2, <1>3, <1>4, <1>5 DEF KInv, Plan, TypeOK, ClusterKept, Untouched

------------------------------------------------------------------------------
(* kubectl.                                                                *)

LEMMA FailuresKeepKInv ==
  ASSUME KInv, NEW keys \in SUBSET ManifestKeys,
         DeleteFails(keys) \/ ApplyFails(keys) \/ DestroyFails(keys)
  PROVE  KInv'
<1>1. TypeOK'
  BY KubectlTypeOK
<1>2. pc' = "failed" /\ op' = op /\ project' = project
  BY DEF DeleteFails, ApplyFails, DestroyFails, Run
<1> QED
  BY <1>1, <1>2 DEF KInv, PlanStands, ClusterKept, NothingLeftBehind, Deployed,
     Working, Untouched, Applying

LEMMA DeleteKeepsKInv ==
  ASSUME KInv, NEW document \in SUBSET ManifestKeys, DeleteRemoved(document)
  PROVE  KInv'
<1>1. TypeOK'
  BY KubectlTypeOK
<1>2. /\ pc = "delete" /\ pc' = "apply" /\ document \in Documents
      /\ cluster' = Without(IdsOf(project.namespace, document))
      /\ UNCHANGED <<project, loaded, own, op, before>>
  BY DEF DeleteRemoved, Run
<1>3. PlanStands'
  BY <1>2 DEF KInv, PlanStands, Working, Applying
<1>4. cluster' \subseteq before /\ Ids(cluster)' = Ids(cluster) \ IdsOf(project.namespace, document)
  BY <1>2, WithoutIds DEF KInv, ClusterKept, Untouched, Ids
<1>5. Removed' = Removed
  BY <1>2 DEF Removed
<1>6. ClusterKept'
  <2> SUFFICES ASSUME Removed # {}
               PROVE  \E k \in Removed : Ids(cluster)' \cap IdsOf(project.namespace, {k}) = {}
    BY <1>2, <1>4, <1>5 DEF ClusterKept, Untouched, IdsOf, Ids
  <2>1. PICK k \in Removed : document = {k}
    BY <1>2 DEF Documents
  <2> QED
    BY <1>4, <2>1
<1> QED
  BY <1>1, <1>2, <1>3, <1>6 DEF KInv, NothingLeftBehind, Deployed

LEMMA ApplyKeepsKInv ==
  ASSUME KInv, ApplyManifests
  PROVE  KInv'
<1>1. TypeOK'
  BY KubectlTypeOK
<1>2. /\ pc = "apply" /\ pc' = "ended"
      /\ cluster' = With(Targets(project))
      /\ own' = Record(project, FALSE)
      /\ UNCHANGED <<project, loaded, op, before>>
  BY DEF ApplyManifests, NewRecord, Run
<1>3. own = loaded /\ project \in Units /\ project # Absent
  BY <1>2 DEF KInv, TypeOK, PlanStands, Working, Applying
<1>4. own' # Absent /\ own'.namespace = project.namespace /\ own'.manifests = project.manifests
  BY <1>2, <1>3, RecordType
<1> DEFINE left == (Ids(cluster') \ Ids(Targets(project))) \ (Ids(before) \ Ids(Targets(loaded)))
<1>5. ASSUME NamespaceKept', NEW x \in left
      PROVE  /\ loaded # Absent /\ loaded.namespace = project.namespace
             /\ x \in Ids(cluster) /\ x \in IdsOf(project.namespace, Removed)
  <2>1. x \in Ids(cluster)
    BY <1>2, <1>5, WithIds
  <2>2. x \in Ids(before)
    BY <1>2, <2>1 DEF KInv, ClusterKept, Ids
  <2>3. x \in Ids(Targets(loaded)) /\ loaded # Absent
    BY <1>5, <2>2 DEF Targets, Ids
  <2>4. x \notin IdsOf(project.namespace, DOMAIN project.manifests)
    BY <1>3, <1>5, IdsOfTargets
  <2>5. loaded.namespace = project.namespace
    BY <1>2, <1>4, <1>5, <2>3 DEF NamespaceKept
  <2>6. x \in IdsOf(project.namespace, DOMAIN loaded.manifests)
    BY <2>3, <2>5, IdsOfTargets
  <2>7. DOMAIN loaded.manifests \subseteq Removed \cup DOMAIN project.manifests
    BY <1>3, <2>3 DEF Removed
  <2> QED
    BY <2>1, <2>3, <2>4, <2>5, <2>6, <2>7 DEF IdsOf
<1>6. NothingLeftBehind'
  <2> SUFFICES ASSUME NamespaceKept', left # {}
               PROVE  \E k \in Dropped' : left \subseteq IdsOf(loaded.namespace, Dropped' \ {k})
    <3>1. Targets(own') = Targets(project)
      BY <1>3, <1>4 DEF Targets, ObjectsOf
    <3>2. UNCHANGED <<loaded, before>>
      BY <1>2
    <3> QED
      BY <3>1, <3>2 DEF NothingLeftBehind, IdsOf, Ids, Targets
  <2>1. loaded # Absent /\ loaded.namespace = project.namespace /\ Removed # {}
    BY <1>5 DEF IdsOf
  <2>2. Dropped' = Removed
    BY <1>2, <1>3, <1>4, <2>1 DEF Dropped, Removed
  <2>3. PICK k \in Removed : Ids(cluster) \cap IdsOf(project.namespace, {k}) = {}
    BY <1>2, <2>1 DEF KInv, ClusterKept
  <2>4. left \subseteq IdsOf(project.namespace, Removed \ {k})
    <3> SUFFICES ASSUME NEW x \in left PROVE x \in IdsOf(project.namespace, Removed \ {k})
      OBVIOUS
    <3>1. x \in Ids(cluster) /\ x \in IdsOf(project.namespace, Removed)
      BY <1>5
    <3>2. x \notin IdsOf(project.namespace, {k})
      BY <2>3, <3>1
    <3> QED
      BY <3>1, <3>2 DEF IdsOf
  <2> QED
    BY <2>1, <2>2, <2>4
<1>7. Deployed'
  BY <1>2 DEF Deployed, With, Targets, ObjectsOf
<1> QED
  BY <1>1, <1>2, <1>6, <1>7 DEF KInv, PlanStands, ClusterKept, Working, Untouched,
     Applying

LEMMA DestroyKeepsKInv ==
  ASSUME KInv, Destroy
  PROVE  KInv'
<1>1. TypeOK'
  BY KubectlTypeOK
<1>2. /\ pc = "destroy" /\ pc' = "ended" /\ own' = Absent
      /\ cluster' = Without(IdsOf(Unit.namespace, DOMAIN Unit.manifests))
      /\ UNCHANGED <<project, loaded, op, before>>
  BY DEF Destroy, Run
<1>3. own = loaded /\ op = "destroy" /\ cluster = before
  BY <1>2 DEF KInv, PlanStands, ClusterKept, Working, Untouched
<1>4. Ids(cluster') \subseteq Ids(before) \ Ids(Targets(loaded))
  <2>1. CASE own = Absent
    BY <1>2, <1>3, <2>1, WithoutIds DEF Targets, Ids
  <2>2. CASE own # Absent
    BY <1>2, <1>3, <2>2, WithoutIds, IdsOfTargets DEF Unit
  <2> QED
    BY <2>1, <2>2
<1>5. NothingLeftBehind'
  BY <1>2, <1>4 DEF NothingLeftBehind, Ids, Targets
<1>6. Deployed'
  BY <1>2 DEF Deployed
<1> QED
  BY <1>1, <1>2, <1>5, <1>6 DEF KInv, PlanStands, ClusterKept, Working, Untouched,
     Applying

LEMMA NextKInv == KInv /\ [Next]_vars => KInv'
<1> SUFFICES ASSUME KInv, [Next]_vars PROVE KInv'
  OBVIOUS
<1>1. CASE UNCHANGED vars
  BY <1>1 DEF vars, KInv, TypeOK, PlanStands, ClusterKept, NothingLeftBehind, Deployed,
     NamespaceKept, Ids, Targets, Removed, Dropped, Unit
<1>2. CASE Next
  BY <1>2, QuietKeepsKInv, PlanKeepsKInv, FailuresKeepKInv, DeleteKeepsKInv,
     ApplyKeepsKInv,
     DestroyKeepsKInv DEF Next
<1> QED
  BY <1>1, <1>2

------------------------------------------------------------------------------

(* The state of the unit, its record and the cluster is type correct,      *)
(* whatever commands fail and processes die.                               *)
THEOREM KubeTyped == Spec => []TypeOK
<1>1. KInv => TypeOK
  BY DEF KInv
<1> QED
  BY <1>1, InitKInv, NextKInv, PTL DEF Spec

(* A command that succeeds leaves behind only what an earlier command that *)
(* failed or died has left, and of several manifests that it drops at once *)
(* all but one: k8s_manifest/unit.go:327, Build.                           *)
THEOREM LeavesNothing == Spec => []NothingLeftBehind
<1>1. KInv => NothingLeftBehind
  BY DEF KInv
<1> QED
  BY <1>1, InitKInv, NextKInv, PTL DEF Spec

(* A command that succeeds has the project's manifests deployed:           *)
(* k8s_manifest/unit.go:186, Apply, and state.go:40, the diff.             *)
THEOREM DeploysAll == Spec => []Deployed
<1>1. KInv => Deployed
  BY DEF KInv
<1> QED
  BY <1>1, InitKInv, NextKInv, PTL DEF Spec

==============================================================================
