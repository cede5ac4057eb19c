---------------------------- MODULE LoadingProofs ----------------------------
(***************************************************************************)
(* Theorems about loading a project, for every set of projects. What the   *)
(* phases of LoadProjectFull know of the project is told phase by phase;   *)
(* the order in which files, stacks and records are walked is forgotten    *)
(* where the next phase begins.                                            *)
(***************************************************************************)
EXTENDS Loading, SequenceTheorems, FiniteSetTheorems, TLAPS

(* The phases at which a part of the project is known, and stays so.       *)
FromLoaded == {"loaded"}
FromCheck == {"check"} \cup FromLoaded
FromPrepare == {"prepare"} \cup FromCheck
FromUnits == {"units"} \cup FromPrepare
FromState == {"state"} \cup FromUnits
FromStacks == {"stacks"} \cup FromState
FromBackends == {"backends"} \cup FromStacks
FromObjects == {"objects"} \cup FromBackends

(* What secrets is made of, while the files are read and afterwards.       *)
SecretsFit ==
  /\ secrets = {project.files[f].name : f \in secretFiles}
  /\ \A f, g \in secretFiles : f # g => project.files[f].name # project.files[g].name
  /\ missing \cap secrets = {}

SecretsSoFar(done) ==
  /\ secretFiles = Secrets(project) \cap done
  /\ \A f \in done : project.files[f].applies \subseteq secrets

SecretsInv ==
  /\ pc \in {"idle", "secrets"} => objects = <<>> /\ missing = {}
  /\ pc \in {"secrets"} \cup FromObjects => SecretsFit
  /\ pc = "secrets" => SecretsSoFar(Files(project) \ left)
  /\ pc \in FromObjects => SecretsSoFar(Files(project))

(* The list of objects holds every object of the files that were read,     *)
(* each one once, in some order.                                           *)
ReadPositions == {o \in Positions(project) : o[1] \notin left}
Lists(pos) ==
  /\ pos \in [DOMAIN objects -> ReadPositions]
  /\ \A i, j \in DOMAIN objects : i # j => pos[i] # pos[j]
  /\ \A o \in ReadPositions : \E i \in DOMAIN objects : pos[i] = o
  /\ \A i \in DOMAIN objects : objects[i] = At(project, pos[i])

ObjectsInv ==
  /\ objects \in Seq(Written(project))
  /\ pc \in {"objects", "backends", "stacks"} =>
       \E pos \in [DOMAIN objects -> ReadPositions] : Lists(pos)
  /\ pc \in {"backends", "stacks"} => left = {}

BackendsKnown ==
  /\ \A b \in BackendObjects(project) : b.provider \in Providers /\ b.name # "default"
  /\ DOMAIN backends = BackendNames(project)
  /\ \A n \in DOMAIN backends : backends[n] \in BackendsOf(project) /\ backends[n].name = n

(* The enabled stacks of the project, before their units are looked at.    *)
StacksKnown ==
  /\ Deployable(project) # {}
  /\ \A o, q \in Deployable(project) : o # q => At(project, o).name # At(project, q).name
  /\ \A o \in Deployable(project) :
       At(project, o).units # <<>> /\ At(project, o).backend \in BackendNames(project)
  /\ DOMAIN stacks = {At(project, o).name : o \in Deployable(project)}
  /\ \A o \in Deployable(project) :
       LET stack == stacks[At(project, o).name]
       IN  stack = [backendName |-> At(project, o).backend, backend |-> stack.backend,
                    units |-> At(project, o).units]

(* Before the state is loaded a stack has the backend that it names, then  *)
(* that of one of its records, if it has any.                              *)
BackendsAsNamed == \A s \in DOMAIN stacks : stacks[s].backend = backends[stacks[s].backendName]

StateKnown ==
  /\ StateBackendName(project) \in DOMAIN backends
  /\ own = GetState
  /\ \A k \in DOMAIN own : own[k].backend \in DOMAIN backends
  /\ \A s \in DOMAIN stacks :
       IF Recorded(own, s) = {} THEN stacks[s].backend = backends[stacks[s].backendName]
       ELSE \E k \in Recorded(own, s) : stacks[s].backend = backends[own[k].backend]

UnitsKnown ==
  /\ StacksAreValid(project)
  /\ DOMAIN units = KeysOf(project)
  /\ \A k \in DOMAIN units :
       /\ k[1] \in DOMAIN stacks
       /\ Dependencies(k) = LinksOf(project, k)
       /\ units[k].type \in UnitTypes
       /\ units[k].place = backends[stacks[k[1]].backendName].place
       /\ units[k].backend = IF IsTerraform(units[k].type) THEN stacks[k[1]].backendName
                             ELSE stacks[k[1]].backend.name

(* What earlier runs left: every record names a backend at whose place, in *)
(* this or an earlier project, the unit's terraform state is.              *)
StoredTyped ==
  \A l \in Places : DOMAIN stored[l] \subseteq Keys /\ \A k \in DOMAIN stored[l] : stored[l][k] \in Record

RecordsLead ==
  OneState =>
    \A l \in Places : \A k \in DOMAIN stored[l] :
      IsTerraform(stored[l][k].type) =>
        \E b \in AllBackends : b.name = stored[l][k].backend /\ b.place = where[k]

PhaseInv ==
  /\ pc = "idle" => left = {} /\ Empty
  /\ pc \in {"secrets", "objects", "backends"} => stacks = None
  /\ pc \in FromStacks => BackendsKnown
  /\ pc \in FromState => StacksKnown
  /\ pc = "state" => BackendsAsNamed
  /\ pc \in FromUnits => StateKnown
  /\ pc \in FromPrepare => UnitsKnown
  /\ pc \in FromCheck => \A k \in DOMAIN units : Dependencies(k) \subseteq DOMAIN units
  /\ pc \in FromLoaded => LinksAreValid(project)

IInv ==
  /\ TypeOK /\ SecretsInv /\ ObjectsInv /\ PhaseInv
  /\ StoredTyped /\ RecordsLead
  /\ LoadIsExact /\ RemoteStatesAreFound
------------------------------------------------------------------------------
(* What is written in a project, and where.                                *)

LEMMA PositionFacts ==
  ASSUME NEW p, NEW o \in Positions(p)
  PROVE  /\ o = <<o[1], o[2]>>
         /\ o[1] \in Files(p) /\ o[2] \in DOMAIN p.files[o[1]].objects
         /\ At(p, o) \in Written(p)
<1>1. PICK f \in Files(p) : o \in {<<f, i>> : i \in DOMAIN p.files[f].objects}
  BY DEF Positions
<1>2. PICK i \in DOMAIN p.files[f].objects : o = <<f, i>>
  BY <1>1
<1>3. At(p, o) \in Range(p.files[f].objects)
  BY <1>2 DEF At, Range
<1> QED
  BY <1>2, <1>3 DEF Written

LEMMA PositionOf ==
  ASSUME NEW p, NEW f \in Files(p), NEW i \in DOMAIN p.files[f].objects
  PROVE  /\ <<f, i>> \in Positions(p)
         /\ At(p, <<f, i>>) = p.files[f].objects[i]
BY DEF Positions, At

LEMMA BackendPositions ==
  ASSUME NEW p
  PROVE  BackendObjects(p) = {At(p, o) : o \in {q \in Positions(p) : At(p, q).kind = "Backend"}}
<1>1. ASSUME NEW b \in BackendObjects(p)
      PROVE  \E o \in Positions(p) : At(p, o) = b
  <2>1. PICK f \in Files(p) : b \in Range(p.files[f].objects)
    BY DEF BackendObjects, Written
  <2>2. PICK i \in DOMAIN p.files[f].objects : b = p.files[f].objects[i]
    BY <2>1 DEF Range
  <2> QED
    BY <2>2, PositionOf
<1>2. ASSUME NEW o \in Positions(p), At(p, o).kind = "Backend"
      PROVE  At(p, o) \in BackendObjects(p)
  BY <1>2, PositionFacts DEF BackendObjects
<1>3. \A b \in BackendObjects(p) : b.kind = "Backend"
  BY DEF BackendObjects
<1> QED
  BY <1>1, <1>2, <1>3

LEMMA DeployableFacts ==
  ASSUME NEW p, NEW o \in Deployable(p)
  PROVE  o \in Positions(p) /\ At(p, o) \in StacksOf(p)
<1>1. /\ o \in Positions(p)
      /\ At(p, o).kind \in {"Stack", "Infrastructure"}
  BY DEF Deployable
<1> QED
  BY <1>1, PositionFacts DEF StacksOf

(* A project has finitely many units, all of them among the Keys.          *)
LEMMA KeysAreKnown ==
  ASSUME NEW p \in Projects
  PROVE  KeysOf(p) \subseteq Keys /\ IsFiniteSet(KeysOf(p))
<1>1. KeysOf(p) \subseteq KeysIn(p)
  BY DeployableFacts DEF KeysOf, KeysIn
<1>2. KeysIn(p) \subseteq Keys
  BY DEF Keys
<1>3. IsFiniteSet(KeysIn(p))
  BY ProjectsAssumption
<1> QED
  BY <1>1, <1>2, <1>3, FS_Subset

LEMMA KeysArePairs ==
  ASSUME NEW k \in Keys
  PROVE  k = <<k[1], k[2]>> /\ k # Malformed
<1>1. PICK p \in Projects : k \in KeysIn(p)
  BY DEF Keys
<1>2. PICK s \in StacksOf(p) : k \in {<<s.name, u.name>> : u \in Range(s.units)}
  BY <1>1 DEF KeysIn
<1> QED
  BY <1>2 DEF Malformed

LEMMA StateBackendsAreKnown ==
  ASSUME NEW p \in Projects, NEW b \in BackendsOf(p)
  PROVE  b \in AllBackends /\ b.place \in Places /\ b.name \in BackendNames(p)
BY DEF AllBackends, Places, BackendNames

------------------------------------------------------------------------------
(* Circles.                                                                *)

Closed(S) == \A n \in S : Dependencies(n) \subseteq S

LEMMA ChainedHoldsDependencies ==
  ASSUME \A n \in DOMAIN units : Dependencies(n) \subseteq DOMAIN units,
         NEW k \in DOMAIN units
  PROVE  /\ Chained(k) \subseteq DOMAIN units
         /\ Dependencies(k) \subseteq Chained(k)
         /\ Closed(Chained(k))
<1>1. Chained(k) \subseteq DOMAIN units
  BY DEF Chained
<1>2. Dependencies(k) \subseteq Chained(k)
  BY DEF Chained
<1>3. ASSUME NEW n \in Chained(k), NEW d \in Dependencies(n)
      PROVE  d \in Chained(k)
  BY <1>1, <1>3 DEF Chained
<1> QED
  BY <1>1, <1>2, <1>3 DEF Closed

LEMMA ChainedIsLeast ==
  ASSUME NEW k \in DOMAIN units, NEW S \in SUBSET DOMAIN units,
         Dependencies(k) \subseteq S, Closed(S)
  PROVE  Chained(k) \subseteq S
BY DEF Chained, Closed

LEMMA ChainedIsTransitive ==
  ASSUME \A n \in DOMAIN units : Dependencies(n) \subseteq DOMAIN units,
         NEW k \in DOMAIN units, NEW d \in Chained(k)
  PROVE  d \in DOMAIN units /\ Chained(d) \subseteq Chained(k)
<1>1. /\ Chained(k) \in SUBSET DOMAIN units /\ Closed(Chained(k))
  BY ChainedHoldsDependencies
<1>2. Dependencies(d) \subseteq Chained(k)
  BY <1>1 DEF Closed
<1> QED
  BY <1>1, <1>2, ChainedIsLeast

(* The walk through chains finds a circle exactly when there is a set of   *)
(* units that depend on one another. Of the units of such a set one has    *)
(* the fewest behind it; if none was behind itself, the one it depends on  *)
(* would have fewer.                                                       *)
LEMMA CirclesAreFound ==
  ASSUME IsFiniteSet(DOMAIN units),
         \A n \in DOMAIN units : Dependencies(n) \subseteq DOMAIN units
  PROVE  (\A k \in DOMAIN units : CheckDependenciesRecursive(k))
           <=> \A S \in SUBSET DOMAIN units :
                 S # {} => \E k \in S : Dependencies(k) \cap S = {}
<1>1. ASSUME NEW k \in DOMAIN units, ~CheckDependenciesRecursive(k)
      PROVE  \E S \in SUBSET DOMAIN units : S # {} /\ \A n \in S : Dependencies(n) \cap S # {}
  <2>1. PICK c \in DOMAIN units : c \in Chained(c)
    BY <1>1, ChainedHoldsDependencies DEF CheckDependenciesRecursive, Circle
  <2> DEFINE S == {x \in Chained(c) : c \in Chained(x)}
             T(x) == {y \in Chained(x) : y # c /\ c \notin Chained(y)}
  <2>2. S \in SUBSET DOMAIN units /\ c \in S
    BY <2>1, ChainedHoldsDependencies
  <2>3. ASSUME NEW x \in S, Dependencies(x) \cap S = {}
        PROVE  FALSE
    <3>1. x \in DOMAIN units /\ c \in Chained(x) /\ Chained(x) \subseteq Chained(c)
      BY <2>1, <2>2, ChainedIsTransitive
    <3>2. Dependencies(x) \subseteq T(x)
      <4>1. ASSUME NEW y \in Dependencies(x)
            PROVE  y \in Chained(x) /\ y # c /\ c \notin Chained(y)
        BY <2>2, <2>3, <3>1, <4>1, ChainedHoldsDependencies
      <4> QED
        BY <4>1
    <3>3. ASSUME NEW y \in T(x), NEW d \in Dependencies(y)
          PROVE  d \in T(x)
      <4>1. y \in DOMAIN units /\ d \in Chained(x) /\ d \in Chained(y)
        BY <3>1, <3>3, ChainedHoldsDependencies DEF Closed
      <4>2. Chained(d) \subseteq Chained(y)
        BY <4>1, ChainedIsTransitive
      <4> QED
        BY <3>3, <4>1, <4>2
    <3>4. T(x) \in SUBSET DOMAIN units
      BY <3>1, ChainedHoldsDependencies
    <3>5. Chained(x) \subseteq T(x)
      BY <3>1, <3>2, <3>3, <3>4, ChainedIsLeast DEF Closed
    <3> QED
      BY <3>1, <3>5
  <2> QED
    BY <2>2, <2>3
<1>2. ASSUME \A k \in DOMAIN units : CheckDependenciesRecursive(k),
             NEW S \in SUBSET DOMAIN units, S # {},
             \A k \in S : Dependencies(k) \cap S # {}
      PROVE  FALSE
  <2> DEFINE behind == {Chained(k) : k \in S}
             smaller == StrictSubsetOrdering(DOMAIN units)
  <2>1. behind \subseteq FiniteSubsetsOf(DOMAIN units) /\ behind # {}
    <3>1. \A k \in S : Chained(k) \in SUBSET DOMAIN units
      BY ChainedHoldsDependencies
    <3>2. FiniteSubsetsOf(DOMAIN units) = SUBSET DOMAIN units
      BY FS_FiniteSubsetsOfFinite
    <3> QED
      BY <1>2, <3>1, <3>2
  <2>2. \E m \in behind : \A n \in behind : ~(<<n, m>> \in smaller)
    <3> HIDE DEF behind, smaller
    <3> QED
      BY <2>1, FS_StrictSubsetOrderingWellFounded, WFMin DEF smaller
  <2>3. PICK k \in S : \A n \in behind : ~(<<n, Chained(k)>> \in smaller)
    BY <2>2
  <2>4. PICK d \in Dependencies(k) : d \in S
    BY <1>2
  <2>5. d \in Chained(k) /\ Chained(d) \subseteq Chained(k) /\ Chained(k) \subseteq DOMAIN units
    BY <2>4, ChainedHoldsDependencies, ChainedIsTransitive
  <2>6. d \notin Chained(d)
    BY <1>2, <2>4 DEF CheckDependenciesRecursive, Circle
  <2>7. <<Chained(d), Chained(k)>> \in smaller
    BY <2>5, <2>6 DEF StrictSubsetOrdering
  <2> QED
    BY <2>3, <2>4, <2>7
<1> QED
  BY <1>1, <1>2
------------------------------------------------------------------------------
(* Reading the objects.                                                    *)

(* Some index of a set of indexes is the last one.                         *)
LEMMA LastExists ==
  ASSUME NEW n \in Nat, NEW S \in SUBSET (1..n), S # {}
  PROVE  \E i \in S : \A j \in S : j <= i
<1> DEFINE above(i) == {j \in S : i < j}
           all == {above(i) : i \in S}
           smaller == StrictSubsetOrdering(S)
<1>1. IsFiniteSet(S) /\ \A i \in S : i \in Int
  <2>1. IsFiniteSet(1..n)
    BY FS_Interval
  <2>2. IsFiniteSet(S)
    BY <2>1, FS_Subset
  <2>3. \A i \in S : i \in Int
    OBVIOUS
  <2> QED
    BY <2>2, <2>3
<1>2. all \subseteq FiniteSubsetsOf(S) /\ all # {}
  <2>1. FiniteSubsetsOf(S) = SUBSET S
    BY <1>1, FS_FiniteSubsetsOfFinite
  <2>2. \A i \in S : above(i) \in SUBSET S
    OBVIOUS
  <2>3. all \subseteq SUBSET S
    <3> HIDE DEF above
    <3> QED
      BY <2>2
  <2>4. all # {}
    OBVIOUS
  <2> QED
    BY <2>1, <2>3, <2>4
<1>3. \E m \in all : \A x \in all : ~(<<x, m>> \in smaller)
  <2> HIDE DEF all, smaller
  <2> QED
    BY <1>2, FS_StrictSubsetOrderingWellFounded, WFMin DEF smaller
<1>4. PICK i \in S : \A x \in all : ~(<<x, above(i)>> \in smaller)
  BY <1>3
<1>5. ASSUME NEW j \in S, i < j
      PROVE  FALSE
  <2>1. above(j) \subseteq above(i) /\ j \in above(i) /\ j \notin above(j)
    <3>1. i \in Int /\ j \in Int /\ \A k \in S : k \in Int
      BY <1>1
    <3>2. \A k \in S : j < k => i < k
      BY <1>5, <3>1
    <3>3. ~(j < j)
      BY <3>1
    <3> QED
      BY <1>5, <3>2, <3>3
  <2>2. <<above(j), above(i)>> \in smaller
    <3> HIDE DEF above
    <3>1. above(i) \subseteq S
      BY DEF above
    <3> QED
      BY <2>1, <3>1 DEF StrictSubsetOrdering
  <2> QED
    BY <1>4, <2>2
<1> QED
  BY <1>5

(* When all files were read, the list holds what is written.               *)
LEMMA ObjectsListed ==
  ASSUME NEW pos, Lists(pos), left = {}
  PROVE  /\ \A i \in DOMAIN objects : pos[i] \in Positions(project) /\ objects[i] = At(project, pos[i])
         /\ \A o \in Positions(project) : \E i \in DOMAIN objects : pos[i] = o
         /\ \A i, j \in DOMAIN objects : i # j => pos[i] # pos[j]
BY DEF Lists, ReadPositions

LEMMA BackendsListed ==
  ASSUME NEW pos, Lists(pos), left = {}
  PROVE  BackendObjects(project) = {objects[i] : i \in Objects("Backend")}
<1>1. \A i \in Objects("Backend") : objects[i] \in BackendObjects(project)
  BY ObjectsListed, BackendPositions DEF Objects
<1>2. ASSUME NEW b \in BackendObjects(project)
      PROVE  \E i \in Objects("Backend") : objects[i] = b
  <2>1. PICK o \in Positions(project) : At(project, o) = b /\ b.kind = "Backend"
    BY BackendPositions
  <2>2. PICK i \in DOMAIN objects : pos[i] = o
    BY ObjectsListed
  <2> QED
    BY <2>1, <2>2, ObjectsListed DEF Objects
<1> QED
  BY <1>1, <1>2

(* Whichever of several backends with one name is the last, it is one of   *)
(* the project's and has that name.                                        *)
LEMMA ReadBackendObjIsOne ==
  ASSUME objects \in Seq(Written(project)), NEW n, \E i \in Objects("Backend") : objects[i].name = n
  PROVE  \E i \in Objects("Backend") : ReadBackendObj(n) = objects[i] /\ objects[i].name = n
<1> DEFINE S == {i \in Objects("Backend") : objects[i].name = n}
<1>1. Len(objects) \in Nat /\ DOMAIN objects = 1..Len(objects)
  OBVIOUS
<1>2. S \in SUBSET (1..Len(objects)) /\ S # {}
  BY <1>1 DEF Objects
<1>3. PICK last \in S : \A j \in S : j <= last
  BY <1>1, <1>2, LastExists
<1>4. \E i \in Objects("Backend") :
        objects[i].name = n /\ \A j \in Objects("Backend") : objects[j].name = n => j <= i
  BY <1>3
<1> QED
  BY <1>4 DEF ReadBackendObj

LEMMA ReadBackendsKnows ==
  ASSUME TypeOK, ObjectsInv, ReadBackends
  PROVE  /\ pc' = "stacks" => BackendsKnown'
         /\ pc' \in {"stacks", "refused"}
         /\ pc' = "refused" => ~FilesAreValid(project)
         /\ \A n \in DOMAIN backends' : backends'[n].name = n
<1> DEFINE ok == \A i \in Objects("Backend") :
                   objects[i].provider \in Providers /\ objects[i].name # "default"
<1>1. /\ pc = "backends" /\ left = {} /\ project' = project
      /\ pc' = IF ok THEN "stacks" ELSE "refused"
  BY DEF ReadBackends, ObjectsInv, Check, Goto, Refuse, input
<1>2. PICK pos : Lists(pos)
  BY <1>1 DEF ObjectsInv
<1>3. BackendObjects(project) = {objects[i] : i \in Objects("Backend")}
  BY <1>1, <1>2, BackendsListed
<1>4. ok <=> \A b \in BackendObjects(project) : b.provider \in Providers /\ b.name # "default"
  BY <1>3
<1>5. ASSUME ok
      PROVE  BackendsKnown'
  <2> DEFINE names == {objects[i].name : i \in Objects("Backend")}
  <2>1. backends' = [n \in names \cup {"default"} |->
                       IF n = "default" THEN DefaultBackend ELSE ReadBackendObj(n)]
    BY <1>5 DEF ReadBackends
  <2>2. ASSUME NEW n \in names, n # "default"
        PROVE  backends'[n] \in BackendObjects(project) /\ backends'[n].name = n
    <3>1. backends'[n] = ReadBackendObj(n)
      BY <2>1, <2>2
    <3>2. objects \in Seq(Written(project)) /\ \E i \in Objects("Backend") : objects[i].name = n
      BY <2>2 DEF ObjectsInv
    <3> QED
      BY <1>3, <3>1, <3>2, ReadBackendObjIsOne
  <2>3. backends'["default"] = DefaultBackend /\ DefaultBackend.name = "default"
    BY <2>1 DEF DefaultBackend
  <2>4. DOMAIN backends' = names \cup {"default"}
    BY <2>1
  <2>5. BackendNames(project) = names \cup {"default"}
    BY <1>3, <2>3 DEF BackendNames, BackendsOf
  <2>6. \A n \in DOMAIN backends' : backends'[n] \in BackendsOf(project) /\ backends'[n].name = n
    BY <2>2, <2>3, <2>4 DEF BackendsOf
  <2> QED
    BY <1>1, <1>4, <1>5, <2>4, <2>5, <2>6 DEF BackendsKnown
<1>6. ~ok => ~FilesAreValid(project)
  BY <1>4 DEF FilesAreValid
<1>7. ~ok => backends' = backends
  BY DEF ReadBackends
<1> HIDE DEF ok
<1> QED
  BY <1>1, <1>5, <1>6, <1>7 DEF BackendsKnown, TypeOK
(* The list of enabled stacks is the stacks that can be deployed.          *)
LEMMA EnabledListed ==
  ASSUME NEW pos, Lists(pos), left = {}
  PROVE  /\ Enabled(StackObjects) \subseteq DOMAIN objects
         /\ \A i \in DOMAIN objects : i \in Enabled(StackObjects) <=> pos[i] \in Deployable(project)
<1> DEFINE of(kind) == {o \in Positions(project) : At(project, o).kind = kind}
<1>1. \A kind : \A i \in DOMAIN objects : i \in Objects(kind) <=> pos[i] \in of(kind)
  BY ObjectsListed DEF Objects
<1>2. Objects("Stack") # {} <=> of("Stack") # {}
  <2>1. ASSUME NEW o \in of("Stack")
        PROVE  Objects("Stack") # {}
    <3>1. PICK i \in DOMAIN objects : pos[i] = o
      BY ObjectsListed
    <3> QED
      BY <1>1, <3>1
  <2>2. Objects("Stack") \subseteq DOMAIN objects
    BY DEF Objects
  <2> QED
    BY <1>1, <2>1, <2>2
<1>3. Deployable(project) =
        {o \in (IF of("Stack") # {} THEN of("Stack") ELSE of("Infrastructure")) : ~At(project, o).disabled}
  BY DEF Deployable
<1>4. \A kind : Objects(kind) \subseteq DOMAIN objects
  BY DEF Objects
<1>5. \A i \in DOMAIN objects : objects[i] = At(project, pos[i])
  BY ObjectsListed
<1> HIDE DEF of
<1> QED
  BY <1>1, <1>2, <1>3, <1>4, <1>5 DEF Enabled, StackObjects

LEMMA ReadStacksKnows ==
  ASSUME TypeOK, ObjectsInv, BackendsKnown, ReadStacks
  PROVE  /\ pc' \in {"state", "refused"}
         /\ pc' = "state" => StacksKnown' /\ BackendsAsNamed'
         /\ pc' = "refused" => ~StacksAreValid(project)
         /\ \A s \in DOMAIN stacks' : /\ stacks'[s].backendName \in DOMAIN backends
                                      /\ stacks'[s].backend \in Range(backends)
<1> DEFINE list == Enabled(StackObjects)
           deployable == Deployable(project)
           distinct == \A i, j \in list : i # j => objects[i].name # objects[j].name
           complete == \A i \in list : ReadTemplate(objects[i]) /\ objects[i].backend \in DOMAIN backends
           ok == list # {} /\ distinct /\ complete
<1>1. /\ pc = "stacks" /\ left = {} /\ project' = project /\ backends' = backends
      /\ pc' = IF ok THEN "state" ELSE "refused"
  BY DEF ReadStacks, ObjectsInv, Check, Goto, Refuse, input
<1>2. PICK pos : Lists(pos)
  BY <1>1 DEF ObjectsInv
<1>3. /\ list \subseteq DOMAIN objects
      /\ \A i \in list : pos[i] \in deployable /\ objects[i] = At(project, pos[i])
  BY <1>1, <1>2, EnabledListed, ObjectsListed
<1>4. \A o \in deployable : \E i \in list : pos[i] = o
  BY <1>1, <1>2, EnabledListed, ObjectsListed, DeployableFacts
<1>5. \A i, j \in list : i # j <=> pos[i] # pos[j]
  BY <1>1, <1>2, <1>3, ObjectsListed
<1> HIDE DEF list, deployable
<1>6. ok <=> /\ deployable # {}
             /\ \A o, q \in deployable : o # q => At(project, o).name # At(project, q).name
             /\ \A o \in deployable : /\ At(project, o).units # <<>>
                                      /\ At(project, o).backend \in BackendNames(project)
  <2>1. list # {} <=> deployable # {}
    BY <1>3, <1>4
  <2>2. distinct <=> \A o, q \in deployable : o # q => At(project, o).name # At(project, q).name
    BY <1>3, <1>4, <1>5
  <2>3. complete <=> \A o \in deployable : /\ At(project, o).units # <<>>
                                           /\ At(project, o).backend \in BackendNames(project)
    BY <1>3, <1>4 DEF ReadTemplate, BackendsKnown
  <2> QED
    BY <2>1, <2>2, <2>3
<1>7. ~ok => ~StacksAreValid(project) /\ stacks' = stacks
  BY <1>6 DEF StacksAreValid, Distinct, deployable, ReadStacks, list
<1>8. ASSUME ok
      PROVE  /\ DOMAIN stacks' = {At(project, o).name : o \in deployable}
             /\ \A o \in deployable :
                  stacks'[At(project, o).name] =
                    [backendName |-> At(project, o).backend,
                     backend |-> backends[At(project, o).backend],
                     units |-> At(project, o).units]
  <2>1. stacks' = [n \in {objects[i].name : i \in list} |->
                     LET o == objects[CHOOSE i \in list : objects[i].name = n]
                     IN  [backendName |-> o.backend, backend |-> backends[o.backend], units |-> o.units]]
    BY <1>8 DEF ReadStacks, list
  <2>2. {objects[i].name : i \in list} = {At(project, o).name : o \in deployable}
    BY <1>3, <1>4
  <2>3. ASSUME NEW o \in deployable
        PROVE  stacks'[At(project, o).name] =
                 [backendName |-> At(project, o).backend,
                  backend |-> backends[At(project, o).backend],
                  units |-> At(project, o).units]
    <3>1. PICK i \in list : pos[i] = o
      BY <1>4
    <3>2. objects[i] = At(project, o)
      BY <1>3, <3>1
    <3>3. (CHOOSE j \in list : objects[j].name = At(project, o).name) = i
      BY <1>8, <3>2
    <3> QED
      BY <2>1, <3>2, <3>3
  <2> QED
    BY <2>1, <2>2, <2>3
<1> HIDE DEF ok
<1>9. ASSUME ok, NEW o \in deployable
      PROVE  LET stack == stacks'[At(project, o).name]
             IN  /\ stack = [backendName |-> At(project, o).backend, backend |-> stack.backend,
                             units |-> At(project, o).units]
                 /\ stack.backendName = At(project, o).backend
                 /\ stack.backend = backends[stack.backendName]
  <2> DEFINE stack == stacks'[At(project, o).name]
  <2>1. stack = [backendName |-> At(project, o).backend,
                 backend |-> backends[At(project, o).backend],
                 units |-> At(project, o).units]
    BY <1>8, <1>9
  <2> HIDE DEF stack
  <2>2. stack.backendName = At(project, o).backend /\ stack.backend = backends[At(project, o).backend]
    BY <2>1
  <2> QED
    BY <2>1, <2>2 DEF stack
<1>10. ASSUME ok
       PROVE  StacksKnown' /\ BackendsAsNamed'
  <2>1. /\ Deployable(project)' = deployable /\ BackendNames(project)' = BackendNames(project)
        /\ \A o : At(project, o)' = At(project, o)
    BY <1>1 DEF deployable
  <2>2. StacksKnown'
    BY <1>6, <1>8, <1>9, <1>10, <2>1 DEF StacksKnown
  <2>3. \A s \in DOMAIN stacks' : stacks'[s].backend = backends[stacks'[s].backendName]
    <3>1. \A s \in DOMAIN stacks' : \E o \in deployable : s = At(project, o).name
      BY <1>8, <1>10
    <3>2. \A o \in deployable : LET stack == stacks'[At(project, o).name]
                              IN  stack.backend = backends[stack.backendName]
      BY <1>9, <1>10
    <3> QED
      BY <3>1, <3>2
  <2>4. BackendsAsNamed'
    BY <1>1, <2>3 DEF BackendsAsNamed
  <2> QED
    BY <2>2, <2>4
<1>11. ASSUME ok, NEW s \in DOMAIN stacks'
       PROVE  /\ stacks'[s].backendName \in DOMAIN backends
              /\ stacks'[s].backend \in Range(backends)
  <2>1. PICK o \in deployable : s = At(project, o).name
    BY <1>8, <1>11
  <2>2. At(project, o).backend \in DOMAIN backends
    BY <1>6, <1>11 DEF BackendsKnown
  <2> QED
    BY <1>9, <1>11, <2>1, <2>2 DEF Range
<1> QED
  BY <1>1, <1>7, <1>10, <1>11 DEF TypeOK

------------------------------------------------------------------------------
(* The state, the units and their dependencies.                            *)

LEMMA LoadStateKnows ==
  ASSUME TypeOK, StoredTyped, BackendsKnown, StacksKnown, BackendsAsNamed, LoadState
  PROVE  /\ pc' \in {"units", "refused"}
         /\ pc' = "units" => StacksKnown' /\ StateKnown'
         /\ pc' = "refused" => \/ ~Valid(project)
                               \/ \E b \in StateBackends(project) : ~StateIsValid(project, b)
         /\ \A s \in DOMAIN stacks' : /\ stacks'[s].backendName \in DOMAIN backends
                                      /\ stacks'[s].backend \in Range(backends)
         /\ DOMAIN own' \subseteq Keys /\ \A k \in DOMAIN own' : own'[k] \in Record
<1> DEFINE found == StateBackendName(project) \in DOMAIN backends
           ok == found /\ \A k \in DOMAIN GetState : GetState[k].backend \in DOMAIN backends
           backend == backends[StateBackendName(project)]
<1>1. /\ UNCHANGED <<project, stored, backends>>
      /\ pc' = IF ok THEN "units" ELSE "refused"
      /\ own' = IF ok THEN GetState ELSE own
  BY DEF LoadState, Check, Goto, Refuse, input
<1>2. DOMAIN backends = BackendNames(project)
  BY DEF BackendsKnown
<1>3. found => /\ backend \in BackendsOf(project) /\ backend \in StateBackends(project)
               /\ backend.place \in Places
               /\ GetState = stored[backend.place]
  <2>1. ASSUME found
        PROVE  backend \in BackendsOf(project) /\ backend.name = StateBackendName(project)
    BY <2>1 DEF BackendsKnown
  <2>2. found => backend.place \in Places
    BY <2>1, StateBackendsAreKnown DEF TypeOK
  <2> QED
    BY <2>1, <2>2 DEF StateBackends, GetState
<1>4. ASSUME ~ok
      PROVE  ~Valid(project) \/ \E b \in StateBackends(project) : ~StateIsValid(project, b)
  <2>1. CASE ~found
    <3>1. StateBackends(project) = {}
      BY <1>2, <2>1 DEF StateBackends, BackendNames
    <3> QED
      BY <3>1 DEF Valid
  <2>2. CASE found
    BY <1>2, <1>3, <1>4, <2>2 DEF StateIsValid
  <2> QED
    BY <2>1, <2>2
<1>5. ok => DOMAIN GetState \subseteq Keys /\ \A k \in DOMAIN GetState : GetState[k] \in Record
  BY <1>3 DEF StoredTyped
<1>6. ASSUME ok
      PROVE  \A s \in DOMAIN stacks :
               /\ \/ Recorded(GetState, s) = {} /\ stacks'[s] = stacks[s]
                  \/ \E k \in Recorded(GetState, s) :
                       stacks'[s] = [stacks[s] EXCEPT !.backend = backends[GetState[k].backend]]
  <2>1. PICK last \in [DOMAIN stacks -> DOMAIN GetState \cup {Malformed}] :
               /\ \A s \in DOMAIN stacks :
                    IF Recorded(GetState, s) = {} THEN last[s] = Malformed
                    ELSE last[s] \in Recorded(GetState, s)
               /\ stacks' = [s \in DOMAIN stacks |->
                    IF last[s] = Malformed THEN stacks[s]
                    ELSE [stacks[s] EXCEPT !.backend = backends[GetState[last[s]].backend]]]
    BY <1>6 DEF LoadState
  <2>2. \A s \in DOMAIN stacks : \A k \in Recorded(GetState, s) : k # Malformed
    BY <1>5, <1>6, KeysArePairs DEF Recorded
  <2> QED
    BY <2>1, <2>2
<1>7. ok => DOMAIN stacks' = DOMAIN stacks
  BY DEF LoadState
<1>8. ~ok => stacks' = stacks
  BY DEF LoadState
<1> HIDE DEF ok
<1>9. ASSUME ok, NEW s \in DOMAIN stacks
      PROVE  /\ stacks'[s] = [backendName |-> stacks[s].backendName,
                              backend |-> stacks'[s].backend, units |-> stacks[s].units]
             /\ IF Recorded(GetState, s) = {} THEN stacks'[s].backend = stacks[s].backend
                ELSE \E k \in Recorded(GetState, s) : stacks'[s].backend = backends[GetState[k].backend]
  <2>1. PICK o \in Deployable(project) : s = At(project, o).name
    BY <1>9 DEF StacksKnown
  <2>2. stacks[s] = [backendName |-> At(project, o).backend, backend |-> stacks[s].backend,
                     units |-> At(project, o).units]
    BY <2>1 DEF StacksKnown
  <2> QED
    BY <1>6, <1>9, <2>2
<1>10. ASSUME ok
       PROVE  StacksKnown'
  <2>1. /\ Deployable(project)' = Deployable(project) /\ BackendNames(project)' = BackendNames(project)
        /\ \A o : At(project, o)' = At(project, o)
    BY <1>1
  <2>2. \A o \in Deployable(project) :
          stacks'[At(project, o).name] = [backendName |-> At(project, o).backend,
             backend |-> stacks'[At(project, o).name].backend, units |-> At(project, o).units]
    <3>1. ASSUME NEW o \in Deployable(project)
          PROVE  /\ At(project, o).name \in DOMAIN stacks
                 /\ stacks[At(project, o).name].backendName = At(project, o).backend
                 /\ stacks[At(project, o).name].units = At(project, o).units
      <4>1. stacks[At(project, o).name] = [backendName |-> At(project, o).backend,
               backend |-> stacks[At(project, o).name].backend, units |-> At(project, o).units]
        BY DEF StacksKnown
      <4> QED
        BY <4>1 DEF StacksKnown
    <3> QED
      BY <1>9, <1>10, <3>1
  <2> QED
    BY <1>7, <1>10, <2>1, <2>2 DEF StacksKnown
<1>11. ASSUME ok
       PROVE  StateKnown'
  <2>1. GetState' = GetState /\ StateBackendName(project)' = StateBackendName(project)
    BY <1>1 DEF GetState
  <2>2. \A k \in DOMAIN GetState : GetState[k].backend \in DOMAIN backends
    BY <1>11 DEF ok
  <2>3. found
    BY <1>11 DEF ok
  <2>4. \A s \in DOMAIN stacks' :
          IF Recorded(GetState, s) = {} THEN stacks'[s].backend = backends[stacks'[s].backendName]
          ELSE \E k \in Recorded(GetState, s) : stacks'[s].backend = backends[GetState[k].backend]
    BY <1>7, <1>9, <1>11 DEF BackendsAsNamed
  <2>5. own' = GetState /\ backends' = backends
    BY <1>1, <1>11
  <2> QED
    BY <2>1, <2>2, <2>3, <2>4, <2>5 DEF StateKnown
<1>12. ASSUME ok, NEW s \in DOMAIN stacks'
       PROVE  stacks'[s].backendName \in DOMAIN backends /\ stacks'[s].backend \in Range(backends)
  <2>1. /\ stacks'[s].backendName = stacks[s].backendName
        /\ stacks[s].backendName \in DOMAIN backends /\ stacks[s].backend \in Range(backends)
    BY <1>7, <1>9, <1>12 DEF TypeOK
  <2>2. \A k \in DOMAIN GetState : backends[GetState[k].backend] \in Range(backends)
    BY <1>12 DEF ok, Range
  <2> QED
    BY <1>7, <1>9, <1>12, <2>1, <2>2 DEF Recorded
<1> QED
  BY <1>1, <1>4, <1>5, <1>8, <1>10, <1>11, <1>12 DEF TypeOK
(* The unit of a key is the one that the enabled stack of its name has     *)
(* under that name.                                                        *)
LEMMA LinksOfOne ==
  ASSUME NEW p, StacksAreValid(p), NEW o \in Deployable(p), NEW i \in DOMAIN At(p, o).units,
         NEW k, k = <<At(p, o).name, At(p, o).units[i].name>>
  PROVE  LET u == At(p, o).units[i]
         IN  LinksOf(p, k) = ReadDeps(k[1], u.depends) \cup Resolve(k[1], u.remote)
<1> DEFINE u == At(p, o).units[i]
           named(q) == {x \in Range(At(p, q).units) : x.name = k[2]}
<1>1. {x \in Deployable(p) : At(p, x).name = k[1]} = {o}
  BY DEF StacksAreValid, Distinct
<1>2. named(o) = {u}
  <2>1. \A j \in DOMAIN At(p, o).units : j # i => At(p, o).units[j].name # u.name
    BY DEF StacksAreValid, Distinct
  <2> QED
    BY <2>1 DEF Range
<1>3. LinksOf(p, k) =
        UNION {UNION {ReadDeps(k[1], x.depends) \cup Resolve(k[1], x.remote) : x \in named(q)}
                 : q \in {x \in Deployable(p) : At(p, x).name = k[1]}}
  BY DEF LinksOf
<1> HIDE DEF u, named
<1>4. LinksOf(p, k) = UNION {ReadDeps(k[1], x.depends) \cup Resolve(k[1], x.remote) : x \in {u}}
  BY <1>1, <1>2, <1>3
<1> QED
  BY <1>4 DEF u

(* Units are refused exactly when a stack has two of one name, or one of   *)
(* an unknown type.                                                        *)
LEMMA ReadUnitsRefuses ==
  ASSUME StacksKnown
  PROVE  StacksAreValid(project) <=>
           \A s \in DOMAIN stacks : \A i, j \in DOMAIN stacks[s].units :
             /\ UnitType(stacks[s].units[i]) \in UnitTypes
             /\ i # j => stacks[s].units[i].name # stacks[s].units[j].name
<1> DEFINE fit(list) == \A i, j \in DOMAIN list :
             UnitType(list[i]) \in UnitTypes /\ (i # j => list[i].name # list[j].name)
<1>1. \A o \in Deployable(project) : stacks[At(project, o).name].units = At(project, o).units
  <2>1. ASSUME NEW o \in Deployable(project)
        PROVE  stacks[At(project, o).name].units = At(project, o).units
    <3>1. stacks[At(project, o).name] = [backendName |-> At(project, o).backend,
               backend |-> stacks[At(project, o).name].backend, units |-> At(project, o).units]
      BY DEF StacksKnown
    <3> QED
      BY <3>1
  <2> QED
    BY <2>1
<1>2. \A u : UnitType(u) \in UnitTypes <=> u.type \in UnitTypes \cup {"terraform"}
  BY TypesAssumption DEF UnitType
<1>3. \A o \in Deployable(project) :
        fit(At(project, o).units) <=>
          /\ Distinct(DOMAIN At(project, o).units, LAMBDA i : At(project, o).units[i].name)
          /\ \A u \in Range(At(project, o).units) : u.type \in UnitTypes \cup {"terraform"}
  BY <1>2 DEF Distinct, Range
<1>4. (\A s \in DOMAIN stacks : fit(stacks[s].units))
        <=> \A o \in Deployable(project) : fit(At(project, o).units)
  <2> HIDE DEF fit
  <2> QED
    BY <1>1 DEF StacksKnown
<1>5. StacksAreValid(project) <=> \A o \in Deployable(project) : fit(At(project, o).units)
  <2>1. Distinct(Deployable(project), LAMBDA o : At(project, o).name)
    BY DEF StacksKnown, Distinct
  <2> HIDE DEF fit
  <2> QED
    BY <1>3, <2>1 DEF StacksKnown, StacksAreValid
<1> QED
  BY <1>4, <1>5

LEMMA ReadUnitsKnows ==
  ASSUME TypeOK, BackendsKnown, StacksKnown, StateKnown, ReadUnits
  PROVE  /\ pc' \in {"prepare", "refused"}
         /\ pc' = "prepare" => UnitsKnown'
         /\ pc' = "refused" => ~StacksAreValid(project)
         /\ DOMAIN units' \subseteq Keys
<1> DEFINE of(s) == stacks[s].units
           ok == \A s \in DOMAIN stacks : \A i, j \in DOMAIN of(s) :
                   UnitType(of(s)[i]) \in UnitTypes /\ (i # j => of(s)[i].name # of(s)[j].name)
           keys == UNION {{<<s, of(s)[i].name>> : i \in DOMAIN of(s)} : s \in DOMAIN stacks}
<1>1. /\ UNCHANGED <<project, stored, backends, stacks, own>>
      /\ pc' = IF ok THEN "prepare" ELSE "refused"
      /\ ~ok => units' = units
      /\ ok => units' = [k \in keys |->
                 NewUnit(k[1], CHOOSE u \in Range(of(k[1])) : u.name = k[2])]
  BY DEF ReadUnits, Check, Goto, Refuse, input
<1>2. ok <=> StacksAreValid(project)
  BY ReadUnitsRefuses
<1>3. ASSUME NEW o \in Deployable(project)
      PROVE  At(project, o).name \in DOMAIN stacks /\ of(At(project, o).name) = At(project, o).units
  <2>1. stacks[At(project, o).name] = [backendName |-> At(project, o).backend,
             backend |-> stacks[At(project, o).name].backend, units |-> At(project, o).units]
    BY DEF StacksKnown
  <2>2. stacks[At(project, o).name].units = At(project, o).units
    BY <2>1
  <2> QED
    BY <2>2 DEF StacksKnown
<1>4. DOMAIN stacks = {At(project, o).name : o \in Deployable(project)}
  BY DEF StacksKnown
<1> HIDE DEF ok
<1>5. keys = KeysOf(project)
  <2>1. ASSUME NEW k \in keys
        PROVE  k \in KeysOf(project)
    <3>1. PICK s \in DOMAIN stacks : k \in {<<s, of(s)[i].name>> : i \in DOMAIN of(s)}
      OBVIOUS
    <3>2. PICK o \in Deployable(project) : s = At(project, o).name
      BY <1>4
    <3>3. k \in {<<At(project, o).name, u.name>> : u \in Range(At(project, o).units)}
      BY <1>3, <3>1, <3>2 DEF Range
    <3> QED
      BY <3>3 DEF KeysOf
  <2>2. ASSUME NEW k \in KeysOf(project)
        PROVE  k \in keys
    <3>1. PICK o \in Deployable(project) :
            k \in {<<At(project, o).name, u.name>> : u \in Range(At(project, o).units)}
      BY DEF KeysOf
    <3>2. PICK i \in DOMAIN At(project, o).units : k = <<At(project, o).name, At(project, o).units[i].name>>
      BY <3>1 DEF Range
    <3> QED
      BY <1>3, <3>2
  <2> QED
    BY <2>1, <2>2
<1>6. ASSUME ok, NEW k \in keys
      PROVE  /\ k[1] \in DOMAIN stacks
             /\ units'[k].depends \cup units'[k].remote = LinksOf(project, k)
             /\ units'[k].type \in UnitTypes
             /\ units'[k].place = backends[stacks[k[1]].backendName].place
             /\ units'[k].backend = IF IsTerraform(units'[k].type) THEN stacks[k[1]].backendName
                                    ELSE stacks[k[1]].backend.name
  <2>1. PICK o \in Deployable(project) :
          k \in {<<At(project, o).name, u.name>> : u \in Range(At(project, o).units)}
    BY <1>5 DEF KeysOf
  <2>2. PICK i \in DOMAIN At(project, o).units : k = <<At(project, o).name, At(project, o).units[i].name>>
    BY <2>1 DEF Range
  <2> DEFINE u == At(project, o).units[i]
             list == of(k[1])
  <2>3. k[1] \in DOMAIN stacks /\ list = At(project, o).units
    BY <1>3, <2>2
  <2>4. (CHOOSE x \in Range(list) : x.name = k[2]) = u
    <3>1. \A j \in DOMAIN list : j # i => list[j].name # u.name
      BY <1>6, <2>2, <2>3 DEF ok
    <3>2. \A x \in Range(list) : x.name = k[2] => x = u
      BY <2>2, <2>3, <3>1 DEF Range
    <3>3. u \in Range(list) /\ u.name = k[2]
      BY <2>2, <2>3 DEF Range
    <3> HIDE DEF u, list
    <3> QED
      BY <3>2, <3>3
  <2>5. units'[k] = NewUnit(k[1], u)
    BY <1>1, <1>6, <2>4
  <2>6. UnitType(u) \in UnitTypes
    BY <1>6, <2>2, <2>3 DEF ok
  <2>7. LinksOf(project, k) = ReadDeps(k[1], u.depends) \cup Resolve(k[1], u.remote)
    BY <1>2, <1>6, <2>2, LinksOfOne
  <2> HIDE DEF u
  <2>8. /\ units'[k].depends = ReadDeps(k[1], u.depends)
        /\ units'[k].remote = Resolve(k[1], u.remote)
        /\ units'[k].type = UnitType(u)
        /\ units'[k].place = backends[stacks[k[1]].backendName].place
        /\ units'[k].backend = IF u.type = "shell" THEN stacks[k[1]].backend.name
                               ELSE stacks[k[1]].backendName
    BY <2>5 DEF NewUnit
  <2>9. IsTerraform(UnitType(u)) <=> u.type # "shell"
    BY DEF IsTerraform, UnitType
  <2> QED
    BY <2>3, <2>6, <2>7, <2>8, <2>9
<1>7. ok => UnitsKnown'
  <2>1. /\ StacksAreValid(project)' = StacksAreValid(project) /\ KeysOf(project)' = KeysOf(project)
        /\ \A k : LinksOf(project, k)' = LinksOf(project, k)
    BY <1>1
  <2>2. ok => DOMAIN units' = KeysOf(project)
    BY <1>1, <1>5
  <2> QED
    BY <1>1, <1>2, <1>5, <1>6, <2>1, <2>2 DEF UnitsKnown, Dependencies
<1>8. DOMAIN units' \subseteq Keys
  <2>1. CASE ok
    <3>1. DOMAIN units' = KeysOf(project)
      BY <1>1, <1>5, <2>1
    <3> QED
      BY <3>1, KeysAreKnown DEF TypeOK
  <2>2. CASE ~ok
    BY <1>1, <2>2 DEF TypeOK
  <2> QED
    BY <2>1, <2>2
<1> QED
  BY <1>1, <1>2, <1>7, <1>8

LEMMA PrepareUnitsKnows ==
  ASSUME UnitsKnown, PrepareUnits
  PROVE  /\ pc' \in {"check", "refused"}
         /\ pc' = "check" => \A k \in DOMAIN units : Dependencies(k) \subseteq DOMAIN units
         /\ pc' = "refused" => ~LinksAreValid(project)
BY DEF PrepareUnits, Check, Goto, Refuse, UnitsKnown, LinksAreValid

LEMMA CheckUnitDependenciesKnows ==
  ASSUME TypeOK, UnitsKnown, \A k \in DOMAIN units : Dependencies(k) \subseteq DOMAIN units,
         CheckUnitDependencies
  PROVE  /\ pc' \in {"loaded", "refused"}
         /\ pc' = "loaded" => LinksAreValid(project)
         /\ pc' = "refused" => ~LinksAreValid(project)
<1>1. DOMAIN units = KeysOf(project) /\ \A k \in DOMAIN units : Dependencies(k) = LinksOf(project, k)
  BY DEF UnitsKnown
<1>2. IsFiniteSet(DOMAIN units)
  BY <1>1, KeysAreKnown DEF TypeOK
<1>3. LinksAreValid(project) <=> \A S \in SUBSET DOMAIN units :
                                    S # {} => \E k \in S : Dependencies(k) \cap S = {}
  BY <1>1 DEF LinksAreValid
<1>4. LinksAreValid(project) <=> \A k \in DOMAIN units : CheckDependenciesRecursive(k)
  BY <1>2, <1>3, CirclesAreFound
<1> QED
  BY <1>4 DEF CheckUnitDependencies, Check, Goto, Refuse
------------------------------------------------------------------------------
(* Every step keeps the invariant.                                         *)

(* What is known stays known while the variables it speaks of do.          *)
LEMMA KnownIsKept ==
  ASSUME UNCHANGED <<project, stored, backends>>
  PROVE  /\ BackendsKnown' <=> BackendsKnown
         /\ UNCHANGED stacks => /\ StacksKnown' <=> StacksKnown
                                /\ BackendsAsNamed' <=> BackendsAsNamed
         /\ UNCHANGED <<stacks, own>> => (StateKnown' <=> StateKnown)
         /\ UNCHANGED <<stacks, units>> => (UnitsKnown' <=> UnitsKnown)
         /\ LinksAreValid(project)' <=> LinksAreValid(project)
         /\ UNCHANGED units => \A k : Dependencies(k)' = Dependencies(k)
<1>1. BackendsKnown' <=> BackendsKnown
  BY DEF BackendsKnown
<1>2. ASSUME UNCHANGED stacks
      PROVE  (StacksKnown' <=> StacksKnown) /\ (BackendsAsNamed' <=> BackendsAsNamed)
  BY <1>2 DEF StacksKnown, BackendsAsNamed
<1>3. ASSUME UNCHANGED <<stacks, own>>
      PROVE  StateKnown' <=> StateKnown
  BY <1>3 DEF StateKnown, GetState
<1>4. ASSUME UNCHANGED <<stacks, units>>
      PROVE  UnitsKnown' <=> UnitsKnown
  BY <1>4 DEF UnitsKnown, Dependencies
<1> QED
  BY <1>1, <1>2, <1>3, <1>4 DEF Dependencies

LEMMA InputIsKept ==
  ASSUME StoredTyped, RecordsLead, UNCHANGED <<stored, where>>
  PROVE  StoredTyped' /\ RecordsLead'
BY DEF StoredTyped, RecordsLead, OneState

(* The two properties speak of three places.                               *)
LEMMA NothingToShow ==
  /\ pc' \notin {"loaded", "refused"} => LoadIsExact'
  /\ pc' # "ran" => RemoteStatesAreFound'
BY DEF LoadIsExact, RemoteStatesAreFound

(* A step to a phase in which nothing of the project is known yet.         *)
LEMMA NothingKnown ==
  ASSUME pc' \in {"idle", "secrets", "unreadable", "refused", "ran"},
         pc' = "idle" => left' = {} /\ Empty',
         pc' = "secrets" => stacks' = None
  PROVE  PhaseInv'
BY DEF PhaseInv, FromStacks, FromState, FromUnits, FromPrepare, FromCheck, FromLoaded

LEMMA IdleIsFine ==
  ASSUME pc' = "idle", left' = {}, Empty', project' \in Projects,
         where' \in [Keys -> Places \cup {Nowhere}], DOMAIN stored' = Places,
         edits' \in 0..MaxEdits, runs' \in 0..MaxRuns, StoredTyped', RecordsLead'
  PROVE  IInv'
<1>1. TypeOK'
  BY DEF TypeOK, Empty, None, Phases
<1>2. SecretsInv'
  BY DEF SecretsInv, Empty, FromObjects, FromBackends, FromStacks, FromState, FromUnits,
         FromPrepare, FromCheck, FromLoaded
<1>3. ObjectsInv'
  BY DEF ObjectsInv, Empty
<1> QED
  BY <1>1, <1>2, <1>3, NothingToShow, NothingKnown DEF IInv

LEMMA InitSatisfiesIInv == Init => IInv
<1> SUFFICES ASSUME Init PROVE IInv
  OBVIOUS
<1>1. TypeOK
  BY BoundsAssumption DEF Init, TypeOK, Empty, None, Phases
<1>2. SecretsInv
  BY DEF Init, SecretsInv, Empty, FromObjects, FromBackends, FromStacks, FromState, FromUnits,
         FromPrepare, FromCheck, FromLoaded
<1>3. ObjectsInv
  BY DEF Init, ObjectsInv, Empty
<1>4. PhaseInv
  BY DEF Init, PhaseInv, FromStacks, FromState, FromUnits, FromPrepare, FromCheck, FromLoaded
<1>5. StoredTyped /\ RecordsLead
  BY DEF Init, StoredTyped, RecordsLead, None
<1>6. LoadIsExact /\ RemoteStatesAreFound
  BY DEF Init, LoadIsExact, RemoteStatesAreFound
<1> QED
  BY <1>1, <1>2, <1>3, <1>4, <1>5, <1>6 DEF IInv

LEMMA EditKeeps ==
  ASSUME IInv, Edit
  PROVE  IInv'
<1>1. /\ pc = "idle" /\ left = {} /\ Empty
      /\ edits < MaxEdits /\ edits' = edits + 1 /\ project' \in Projects
      /\ UNCHANGED <<pc, left, secrets, secretFiles, missing, objects, backends, stacks,
                     own, units, stored, where, read, runs>>
  BY DEF Edit, IInv, PhaseInv
<1>2. Empty'
  BY <1>1 DEF Empty
<1>3. edits' \in 0..MaxEdits
  BY <1>1, BoundsAssumption DEF IInv, TypeOK
<1>4. StoredTyped' /\ RecordsLead'
  BY <1>1, InputIsKept DEF IInv
<1> QED
  BY <1>1, <1>2, <1>3, <1>4, IdleIsFine DEF IInv, TypeOK

LEMMA LeaveKeeps ==
  ASSUME IInv, Leave
  PROVE  IInv'
<1>1. /\ pc' = "idle" /\ left' = {} /\ Empty'
      /\ UNCHANGED <<project, stored, where, edits, runs>>
  BY DEF Leave, Goto, Empty, input
<1>2. StoredTyped' /\ RecordsLead'
  BY <1>1, InputIsKept DEF IInv
<1> QED
  BY <1>1, <1>2, IdleIsFine DEF IInv, TypeOK

LEMMA ReadManifestsKeeps ==
  ASSUME IInv, ReadManifests
  PROVE  IInv'
<1>1. /\ pc = "idle" /\ pc' = "secrets" /\ left' = Files(project)
      /\ runs < MaxRuns /\ runs' = runs + 1
      /\ UNCHANGED <<secrets, secretFiles, missing, objects, backends, stacks, own, units, read,
                     project, stored, where, edits>>
      /\ secrets = {} /\ secretFiles = {} /\ missing = {} /\ objects = <<>> /\ stacks = None
  BY DEF ReadManifests, Goto, input, IInv, PhaseInv, Empty
<1>2. TypeOK'
  BY <1>1, BoundsAssumption DEF IInv, TypeOK, Phases
<1>3. SecretsInv'
  BY <1>1 DEF SecretsInv, SecretsFit, SecretsSoFar, FromObjects, FromBackends, FromStacks,
              FromState, FromUnits, FromPrepare, FromCheck, FromLoaded
<1>4. ObjectsInv'
  BY <1>1 DEF IInv, ObjectsInv
<1> QED
  BY <1>1, <1>2, <1>3, <1>4, InputIsKept, NothingToShow, NothingKnown DEF IInv

LEMMA ReadSecretKeeps ==
  ASSUME IInv, NEW f \in left, ReadSecret(f)
  PROVE  IInv'
<1> DEFINE file == project.files[f]
<1>1. /\ pc = "secrets" /\ left' = left \ {f}
      /\ UNCHANGED <<missing, objects, backends, stacks, own, units, read, runs,
                     project, stored, where, edits>>
      /\ f \in Files(project) /\ objects = <<>> /\ missing = {} /\ stacks = None
      /\ SecretsFit /\ SecretsSoFar(Files(project) \ left)
  BY DEF ReadSecret, input, IInv, TypeOK, SecretsInv, PhaseInv
<1>2. CASE ~TemplateTry(f) \/ (GetSecretInfo(f) /\ file.name \in secrets)
  <2>1. pc' = "refused" /\ UNCHANGED <<secrets, secretFiles>>
    BY <1>2 DEF ReadSecret, Refuse, Goto
  <2>2. \/ \E g \in Files(project) : project.files[g].applies # {}
        \/ ~FilesAreValid(project)
    <3>1. CASE ~TemplateTry(f)
      BY <1>1, <3>1 DEF TemplateTry
    <3>2. CASE GetSecretInfo(f) /\ file.name \in secrets
      <4>1. PICK g \in secretFiles : project.files[g].name = file.name
        BY <1>1, <3>2 DEF SecretsFit
      <4>2. g \in Secrets(project) /\ f \in Secrets(project) /\ g # f
        BY <1>1, <3>2 DEF SecretsSoFar, Secrets, GetSecretInfo
      <4> QED
        BY <4>1, <4>2 DEF FilesAreValid, Distinct
    <3> QED
      BY <1>2, <3>1, <3>2
  <2>3. TypeOK'
    BY <1>1, <2>1 DEF IInv, TypeOK, Phases
  <2>4. SecretsInv'
    BY <2>1 DEF SecretsInv, FromObjects, FromBackends, FromStacks, FromState, FromUnits,
                FromPrepare, FromCheck, FromLoaded
  <2>5. ObjectsInv'
    BY <1>1, <2>1 DEF IInv, ObjectsInv
  <2>6. LoadIsExact'
    BY <1>1, <2>1, <2>2 DEF LoadIsExact, Valid
  <2> QED
    BY <1>1, <2>1, <2>3, <2>4, <2>5, <2>6, InputIsKept, NothingToShow, NothingKnown DEF IInv
<1>3. CASE TemplateTry(f) /\ ~(GetSecretInfo(f) /\ file.name \in secrets)
  <2>1. /\ pc' = "secrets"
        /\ secrets' = IF GetSecretInfo(f) THEN secrets \cup {file.name} ELSE secrets
        /\ secretFiles' = IF GetSecretInfo(f) THEN secretFiles \cup {f} ELSE secretFiles
    BY <1>1, <1>3 DEF ReadSecret
  <2>2. TypeOK'
    BY <1>1, <2>1 DEF IInv, TypeOK, Phases
  <2>3. Files(project) \ left' = (Files(project) \ left) \cup {f}
    BY <1>1
  <2>4. SecretsSoFar(Files(project) \ left)'
    <3>1. secretFiles' = Secrets(project) \cap ((Files(project) \ left) \cup {f})
      BY <1>1, <2>1 DEF SecretsSoFar, Secrets, GetSecretInfo
    <3>2. \A g \in (Files(project) \ left) \cup {f} : project.files[g].applies \subseteq secrets'
      BY <1>1, <1>3, <2>1 DEF SecretsSoFar, TemplateTry
    <3> QED
      BY <1>1, <2>3, <3>1, <3>2 DEF SecretsSoFar
  <2>5. SecretsFit'
    <3>1. CASE GetSecretInfo(f)
      <4>1. \A g \in secretFiles : project.files[g].name # file.name
        BY <1>1, <1>3, <3>1 DEF SecretsFit
      <4> QED
        BY <1>1, <2>1, <3>1, <4>1 DEF SecretsFit
    <3>2. CASE ~GetSecretInfo(f)
      BY <1>1, <2>1, <3>2 DEF SecretsFit
    <3> QED
      BY <3>1, <3>2
  <2>6. SecretsInv'
    BY <1>1, <2>1, <2>4, <2>5 DEF SecretsInv, FromObjects, FromBackends, FromStacks, FromState,
                              FromUnits, FromPrepare, FromCheck, FromLoaded
  <2>7. ObjectsInv'
    BY <1>1, <2>1 DEF IInv, ObjectsInv
  <2> QED
    BY <1>1, <2>1, <2>2, <2>6, <2>7, InputIsKept, NothingToShow, NothingKnown DEF IInv
<1> QED
  BY <1>2, <1>3

LEMMA ReadFailsKeeps ==
  ASSUME IInv, NEW f \in left, ReadFails(f)
  PROVE  IInv'
<1>1. /\ pc' = "unreadable"
      /\ UNCHANGED <<left, secrets, secretFiles, missing, objects, backends, stacks, own, units,
                     read, runs, project, stored, where, edits>>
  BY DEF ReadFails, Goto, input
<1>2. TypeOK'
  BY <1>1 DEF IInv, TypeOK, Phases
<1>3. SecretsInv'
  BY <1>1 DEF SecretsInv, FromObjects, FromBackends, FromStacks, FromState, FromUnits,
              FromPrepare, FromCheck, FromLoaded
<1>4. ObjectsInv'
  BY <1>1 DEF IInv, ObjectsInv
<1> QED
  BY <1>1, <1>2, <1>3, <1>4, InputIsKept, NothingToShow, NothingKnown DEF IInv

LEMMA SecretsReadKeeps ==
  ASSUME IInv, SecretsRead
  PROVE  IInv'
<1>1. /\ pc = "secrets" /\ left = {} /\ pc' = "objects" /\ left' = Files(project)
      /\ UNCHANGED <<secrets, secretFiles, missing, objects, backends, stacks, own, units, read,
                     runs, project, stored, where, edits>>
      /\ objects = <<>> /\ missing = {} /\ SecretsFit /\ SecretsSoFar(Files(project) \ left)
      /\ stacks = None
  BY DEF SecretsRead, Goto, input, IInv, SecretsInv, PhaseInv
<1>2. TypeOK'
  BY <1>1 DEF IInv, TypeOK, Phases
<1>3. SecretsInv'
  <2>1. SecretsSoFar(Files(project))'
    BY <1>1 DEF SecretsSoFar
  <2>2. SecretsFit'
    BY <1>1 DEF SecretsFit
  <2> QED
    BY <1>1, <2>1, <2>2 DEF SecretsInv
<1>4. ObjectsInv'
  <2> DEFINE pos == [i \in {} |-> i]
  <2>1. ReadPositions' = {}
    BY <1>1, PositionFacts DEF ReadPositions
  <2>2. DOMAIN objects' = {}
    BY <1>1
  <2>3. pos \in [DOMAIN objects' -> ReadPositions']
    BY <2>2
  <2>4. Lists(pos)'
    BY <2>1, <2>2, <2>3 DEF Lists
  <2>5. \E q \in [DOMAIN objects' -> ReadPositions'] : Lists(q)'
    BY <2>3, <2>4
  <2> QED
    BY <1>1, <2>5 DEF IInv, ObjectsInv
<1>5. PhaseInv'
  BY <1>1 DEF PhaseInv, FromStacks, FromState, FromUnits, FromPrepare, FromCheck, FromLoaded
<1> QED
  BY <1>1, <1>2, <1>3, <1>4, <1>5, InputIsKept, NothingToShow DEF IInv

(* A file that is read adds its objects at the end of the list.            *)
LEMMA ListGrows ==
  ASSUME NEW f \in left, left \subseteq Files(project), project \in Projects,
         objects \in Seq(Written(project)),
         NEW pos, Lists(pos),
         left' = left \ {f}, project' = project,
         objects' = objects \o project.files[f].objects
  PROVE  /\ objects' \in Seq(Written(project))
         /\ \E q \in [DOMAIN objects' -> ReadPositions'] : Lists(q)'
<1> DEFINE list == project.files[f].objects
           n == Len(objects)
           q == [i \in 1..(n + Len(list)) |-> IF i <= n THEN pos[i] ELSE <<f, i - n>>]
<1>1. list \in Seq(Range(list)) /\ list \in Seq(Written(project))
  <2>1. list \in Seq(Range(list))
    BY ProjectsAssumption DEF IsSequence
  <2>2. Range(list) \subseteq Written(project)
    BY DEF Written
  <2> QED
    BY <2>1, <2>2, SeqOfRange
<1>2. /\ n \in Nat /\ Len(list) \in Nat
      /\ DOMAIN objects = 1..n /\ DOMAIN list = 1..Len(list)
      /\ objects' \in Seq(Written(project))
      /\ Len(objects') = n + Len(list) /\ DOMAIN objects' = 1..(n + Len(list))
      /\ \A i \in 1..n : objects'[i] = objects[i]
      /\ \A i \in DOMAIN objects' : i \notin 1..n => i - n \in DOMAIN list /\ objects'[i] = list[i - n]
  BY <1>1
<1>3. \A o : o \in ReadPositions' <=> o \in ReadPositions \/ (o \in Positions(project) /\ o[1] = f)
  BY DEF ReadPositions
<1>4. /\ \A i \in 1..n : pos[i] \in ReadPositions
      /\ \A i, j \in 1..n : i # j => pos[i] # pos[j]
      /\ \A o \in ReadPositions : \E i \in 1..n : pos[i] = o
      /\ \A i \in 1..n : objects[i] = At(project, pos[i])
  BY <1>2 DEF Lists
<1>5. \A o \in ReadPositions : o[1] # f
  BY DEF ReadPositions
<1>6. \A j \in DOMAIN list : <<f, j>> \in Positions(project) /\ At(project, <<f, j>>) = list[j]
  BY PositionOf
<1>7. \A o \in Positions(project) : o[1] = f => o[2] \in DOMAIN list /\ o = <<f, o[2]>>
  BY PositionFacts
<1> HIDE DEF list, n
<1>8. /\ \A i \in 1..n : q[i] = pos[i] /\ i \in DOMAIN objects'
      /\ \A i \in DOMAIN objects' : i \notin 1..n => q[i] = <<f, i - n>>
      /\ DOMAIN q = DOMAIN objects'
  BY <1>2
<1> HIDE DEF q
<1>9. \A i \in DOMAIN objects' : q[i] \in ReadPositions' /\ objects'[i] = At(project, q[i])
  <2>1. ASSUME NEW i \in 1..n
        PROVE  q[i] \in ReadPositions' /\ objects'[i] = At(project, q[i])
    BY <1>2, <1>3, <1>4, <1>8
  <2>2. ASSUME NEW i \in DOMAIN objects', i \notin 1..n
        PROVE  q[i] \in ReadPositions' /\ objects'[i] = At(project, q[i])
    <3>1. i - n \in DOMAIN list /\ objects'[i] = list[i - n] /\ q[i] = <<f, i - n>>
      BY <1>2, <1>8, <2>2
    <3>2. <<f, i - n>>[1] = f
      OBVIOUS
    <3> QED
      BY <1>3, <1>6, <3>1, <3>2
  <2> QED
    BY <2>1, <2>2
<1>10. \A o \in ReadPositions' : \E i \in DOMAIN objects' : q[i] = o
  <2>1. ASSUME NEW o \in ReadPositions
        PROVE  \E i \in DOMAIN objects' : q[i] = o
    BY <1>4, <1>8
  <2>2. ASSUME NEW o \in Positions(project), o[1] = f
        PROVE  \E i \in DOMAIN objects' : q[i] = o
    <3>1. o[2] \in 1..Len(list) /\ o = <<f, o[2]>>
      BY <1>2, <1>7, <2>2
    <3>2. PICK i : i = n + o[2]
      OBVIOUS
    <3>3. i \in DOMAIN objects' /\ i \notin 1..n /\ i - n = o[2]
      BY <1>2, <3>1, <3>2
    <3>4. q[i] = <<f, i - n>>
      BY <1>8, <3>3
    <3>5. q[i] = o
      BY <3>1, <3>3, <3>4
    <3> QED
      BY <3>3, <3>5
  <2> QED
    BY <1>3, <2>1, <2>2
<1>11. \A i, j \in DOMAIN objects' : i # j => q[i] # q[j]
  <2>1. ASSUME NEW i \in DOMAIN objects', NEW j \in DOMAIN objects', i # j, i \in 1..n, j \in 1..n
        PROVE  q[i] # q[j]
    BY <1>4, <1>8, <2>1
  <2>2. ASSUME NEW i \in DOMAIN objects', NEW j \in DOMAIN objects', i \in 1..n, j \notin 1..n
        PROVE  q[i] # q[j]
    <3>1. q[i][1] # f /\ q[j] = <<f, j - n>>
      BY <1>4, <1>5, <1>8, <2>2
    <3> QED
      BY <3>1
  <2>3. ASSUME NEW i \in DOMAIN objects', NEW j \in DOMAIN objects', i # j, i \notin 1..n, j \notin 1..n
        PROVE  q[i] # q[j]
    <3>1. q[i] = <<f, i - n>> /\ q[j] = <<f, j - n>>
      BY <1>8, <2>3
    <3>2. i - n # j - n
      BY <1>2, <2>3
    <3> QED
      BY <3>1, <3>2
  <2> QED
    BY <2>1, <2>2, <2>3
<1>12. q \in [DOMAIN objects' -> ReadPositions']
  <2> DEFINE m == n + Len(list)
             at(i) == IF i <= n THEN pos[i] ELSE <<f, i - n>>
  <2>1. q = [i \in 1..m |-> at(i)]
    BY DEF q
  <2>2. \A i \in 1..m : q[i] = at(i)
    BY <2>1
  <2> HIDE DEF m, at
  <2>3. q \in [1..m -> ReadPositions']
    <3>1. DOMAIN objects' = 1..m
      BY <1>2 DEF m
    <3>2. \A i \in 1..m : at(i) \in ReadPositions'
      BY <1>9, <2>2, <3>1
    <3> QED
      BY <2>1, <3>2
  <2> QED
    BY <1>2, <2>3 DEF m
<1>13. PICK r : r = q
  OBVIOUS
<1>14. Lists(r)'
  <2>1. \A o : At(project, o)' = At(project, o)
    BY DEF At
  <2> QED
    BY <1>9, <1>10, <1>11, <1>12, <1>13, <2>1 DEF Lists
<1> QED
  BY <1>2, <1>12, <1>13, <1>14

LEMMA ReadObjectsKeeps ==
  ASSUME IInv, NEW f \in left, ReadObjects(f)
  PROVE  IInv'
<1> DEFINE file == project.files[f]
<1>1. /\ pc = "objects" /\ left' = left \ {f} /\ f \in Files(project)
      /\ UNCHANGED <<secrets, secretFiles, backends, stacks, own, units, read, runs,
                     project, stored, where, edits>>
      /\ SecretsFit /\ SecretsSoFar(Files(project)) /\ TypeOK /\ stacks = None
  BY DEF ReadObjects, input, IInv, TypeOK, SecretsInv, FromObjects, PhaseInv
<1>2. TemplateTry(f)
  BY <1>1 DEF SecretsSoFar, TemplateTry
<1>3. /\ pc' = "objects"
      /\ missing' = IF FileIsSecret(f) THEN missing ELSE missing \cup (file.refers \ secrets)
      /\ objects' = IF FileIsSecret(f) THEN objects ELSE objects \o file.objects
  BY <1>1, <1>2 DEF ReadObjects
<1>4. PICK pos : Lists(pos)
  BY <1>1 DEF IInv, ObjectsInv
<1>5. objects \in Seq(Written(project)) /\ project \in Projects /\ left \subseteq Files(project)
  BY <1>1 DEF IInv, ObjectsInv, TypeOK
<1>6. /\ objects' \in Seq(Written(project))
      /\ \E q \in [DOMAIN objects' -> ReadPositions'] : Lists(q)'
  <2>1. CASE ~FileIsSecret(f)
    BY <1>1, <1>3, <1>4, <1>5, <2>1, ListGrows
  <2>2. CASE FileIsSecret(f)
    <3>1. file.objects = <<>>
      BY <1>1, <1>5, <2>2, ProjectsAssumption DEF FileIsSecret, SecretsSoFar, Secrets
    <3>2. \A o \in Positions(project) : o[1] # f
      BY <3>1, PositionFacts
    <3>3. ReadPositions' = ReadPositions
      BY <1>1, <3>2 DEF ReadPositions
    <3>4. Lists(pos)'
      BY <1>1, <1>3, <1>4, <2>2, <3>3 DEF Lists, At
    <3>5. pos \in [DOMAIN objects' -> ReadPositions']
      BY <3>4 DEF Lists
    <3> QED
      BY <1>3, <1>5, <2>2, <3>4, <3>5
  <2> QED
    BY <2>1, <2>2
<1>7. ObjectsInv'
  BY <1>1, <1>3, <1>6 DEF ObjectsInv
<1>8. TypeOK'
  <2>1. \A i \in DOMAIN objects' : objects'[i] \in Written(project)
    BY <1>6
  <2> QED
    BY <1>1, <1>3, <2>1 DEF TypeOK
<1>9. SecretsInv'
  <2>1. SecretsSoFar(Files(project))'
    BY <1>1 DEF SecretsSoFar
  <2>2. SecretsFit'
    BY <1>1, <1>3 DEF SecretsFit
  <2> QED
    BY <1>3, <2>1, <2>2 DEF SecretsInv
<1>10. PhaseInv'
  BY <1>1, <1>3 DEF PhaseInv, FromStacks, FromState, FromUnits, FromPrepare, FromCheck, FromLoaded
<1> QED
  BY <1>1, <1>3, <1>7, <1>8, <1>9, <1>10, InputIsKept, NothingToShow DEF IInv

(* Later phases leave the secrets and the list alone.                      *)
LEMMA SecretsAreKept ==
  ASSUME IInv, pc \in FromObjects, pc' \in FromObjects \cup {"refused", "ran"},
         UNCHANGED <<project, secrets, secretFiles, missing, objects, left>>
  PROVE  SecretsInv'
<1>1. SecretsFit /\ SecretsSoFar(Files(project))
  BY DEF IInv, SecretsInv
<1>2. SecretsFit' /\ SecretsSoFar(Files(project))'
  BY <1>1 DEF SecretsFit, SecretsSoFar
<1>3. pc' \notin {"idle", "secrets"}
  BY DEF FromObjects, FromBackends, FromStacks, FromState, FromUnits, FromPrepare, FromCheck,
         FromLoaded
<1> QED
  BY <1>2, <1>3 DEF SecretsInv

LEMMA ObjectsAreKept ==
  ASSUME IInv, UNCHANGED <<project, objects, left>>,
         pc' \in {"objects", "backends", "stacks"} => pc \in {"objects", "backends", "stacks"},
         pc' \in {"backends", "stacks"} => left = {}
  PROVE  ObjectsInv'
<1>1. ReadPositions' = ReadPositions
  BY DEF ReadPositions
<1>2. \A pos : Lists(pos)' <=> Lists(pos)
  BY <1>1 DEF Lists, At
<1> QED
  BY <1>1, <1>2 DEF IInv, ObjectsInv

LEMMA ObjectsReadKeeps ==
  ASSUME IInv, ObjectsRead
  PROVE  IInv'
<1>1. /\ pc = "objects" /\ left = {} /\ pc' = "backends"
      /\ UNCHANGED <<left, secrets, secretFiles, missing, objects, backends, stacks, own, units,
                     read, runs, project, stored, where, edits>>
      /\ stacks = None
  BY DEF ObjectsRead, Goto, input, IInv, PhaseInv
<1>2. TypeOK'
  BY <1>1 DEF IInv, TypeOK, Phases
<1>3. SecretsInv'
  BY <1>1, SecretsAreKept DEF FromObjects, FromBackends
<1>4. ObjectsInv'
  BY <1>1, ObjectsAreKept
<1>5. PhaseInv'
  BY <1>1 DEF PhaseInv, FromStacks, FromState, FromUnits, FromPrepare, FromCheck, FromLoaded
<1> QED
  BY <1>1, <1>2, <1>3, <1>4, <1>5, InputIsKept, NothingToShow DEF IInv

(* A project is refused in a phase that has found a reason.                *)
LEMMA RefusedForAReason ==
  ASSUME UNCHANGED <<project, stored>>, pc' # "loaded",
         pc' = "refused" => \/ ~Valid(project)
                            \/ \E b \in StateBackends(project) : ~StateIsValid(project, b)
  PROVE  LoadIsExact'
<1>1. Valid(project)' <=> Valid(project)
  BY DEF Valid, StateIsValid
<1>2. \A b : StateIsValid(project, b)' <=> StateIsValid(project, b)
  BY DEF StateIsValid
<1> QED
  BY <1>1, <1>2 DEF LoadIsExact

LEMMA ReadBackendsKeeps ==
  ASSUME IInv, ReadBackends
  PROVE  IInv'
<1>1. /\ pc = "backends" /\ left = {}
      /\ UNCHANGED <<left, secrets, secretFiles, missing, objects, stacks, own, units, read, runs,
                     project, stored, where, edits>>
  BY DEF ReadBackends, input, IInv, ObjectsInv
<1>2. /\ pc' = "stacks" => BackendsKnown'
      /\ pc' \in {"stacks", "refused"}
      /\ pc' = "refused" => ~FilesAreValid(project)
      /\ \A n \in DOMAIN backends' : backends'[n].name = n
  BY ReadBackendsKnows DEF IInv
<1>3. stacks = None
  BY <1>1 DEF IInv, PhaseInv
<1>4. TypeOK'
  BY <1>1, <1>2, <1>3 DEF IInv, TypeOK, Phases, None
<1>5. SecretsInv'
  BY <1>1, <1>2, SecretsAreKept DEF FromObjects, FromBackends, FromStacks
<1>6. ObjectsInv'
  BY <1>1, <1>2, ObjectsAreKept
<1>7. PhaseInv'
  BY <1>2 DEF PhaseInv, FromStacks, FromState, FromUnits, FromPrepare, FromCheck, FromLoaded
<1>8. LoadIsExact'
  BY <1>1, <1>2, RefusedForAReason DEF Valid
<1> QED
  BY <1>1, <1>2, <1>4, <1>5, <1>6, <1>7, <1>8, InputIsKept, NothingToShow DEF IInv

LEMMA ReadStacksKeeps ==
  ASSUME IInv, ReadStacks
  PROVE  IInv'
<1>1. /\ pc = "stacks" /\ left = {}
      /\ UNCHANGED <<left, secrets, secretFiles, missing, objects, backends, own, units, read, runs,
                     project, stored, where, edits>>
      /\ BackendsKnown
  BY DEF ReadStacks, input, IInv, ObjectsInv, PhaseInv, FromStacks
<1>2. /\ pc' \in {"state", "refused"}
      /\ pc' = "state" => StacksKnown' /\ BackendsAsNamed'
      /\ pc' = "refused" => ~StacksAreValid(project)
      /\ \A s \in DOMAIN stacks' : /\ stacks'[s].backendName \in DOMAIN backends
                                   /\ stacks'[s].backend \in Range(backends)
  BY <1>1, ReadStacksKnows DEF IInv
<1>3. TypeOK'
  BY <1>1, <1>2 DEF IInv, TypeOK, Phases
<1>4. SecretsInv'
  BY <1>1, <1>2, SecretsAreKept DEF FromObjects, FromBackends, FromStacks, FromState
<1>5. ObjectsInv'
  BY <1>1, <1>2, ObjectsAreKept
<1>6. PhaseInv'
  BY <1>1, <1>2, KnownIsKept
     DEF PhaseInv, FromStacks, FromState, FromUnits, FromPrepare, FromCheck, FromLoaded
<1>7. LoadIsExact'
  BY <1>1, <1>2, RefusedForAReason DEF Valid
<1> QED
  BY <1>1, <1>2, <1>3, <1>4, <1>5, <1>6, <1>7, InputIsKept, NothingToShow DEF IInv

LEMMA LoadStateKeeps ==
  ASSUME IInv, LoadState
  PROVE  IInv'
<1>1. /\ pc = "state"
      /\ UNCHANGED <<left, secrets, secretFiles, missing, objects, backends, units, read, runs,
                     project, stored, where, edits>>
      /\ BackendsKnown /\ StacksKnown /\ BackendsAsNamed
  BY DEF LoadState, input, IInv, PhaseInv, FromStacks, FromState
<1>2. /\ pc' \in {"units", "refused"}
      /\ pc' = "units" => StacksKnown' /\ StateKnown'
      /\ pc' = "refused" => \/ ~Valid(project)
                            \/ \E b \in StateBackends(project) : ~StateIsValid(project, b)
      /\ \A s \in DOMAIN stacks' : /\ stacks'[s].backendName \in DOMAIN backends
                                   /\ stacks'[s].backend \in Range(backends)
      /\ DOMAIN own' \subseteq Keys /\ \A k \in DOMAIN own' : own'[k] \in Record
  BY <1>1, LoadStateKnows DEF IInv
<1>3. TypeOK'
  BY <1>1, <1>2 DEF IInv, TypeOK, Phases
<1>4. SecretsInv'
  BY <1>1, <1>2, SecretsAreKept DEF FromObjects, FromBackends, FromStacks, FromState, FromUnits
<1>5. ObjectsInv'
  BY <1>1, <1>2, ObjectsAreKept
<1>6. PhaseInv'
  BY <1>1, <1>2, KnownIsKept
     DEF PhaseInv, FromStacks, FromState, FromUnits, FromPrepare, FromCheck, FromLoaded
<1>7. LoadIsExact'
  BY <1>1, <1>2, RefusedForAReason
<1> QED
  BY <1>1, <1>2, <1>3, <1>4, <1>5, <1>6, <1>7, InputIsKept, NothingToShow DEF IInv

LEMMA ReadUnitsKeeps ==
  ASSUME IInv, ReadUnits
  PROVE  IInv'
<1>1. /\ pc = "units"
      /\ UNCHANGED <<left, secrets, secretFiles, missing, objects, backends, stacks, own, read,
                     runs, project, stored, where, edits>>
      /\ BackendsKnown /\ StacksKnown /\ StateKnown
  BY DEF ReadUnits, input, IInv, PhaseInv, FromStacks, FromState, FromUnits
<1>2. /\ pc' \in {"prepare", "refused"}
      /\ pc' = "prepare" => UnitsKnown'
      /\ pc' = "refused" => ~StacksAreValid(project)
      /\ DOMAIN units' \subseteq Keys
  BY <1>1, ReadUnitsKnows DEF IInv
<1>3. TypeOK'
  BY <1>1, <1>2 DEF IInv, TypeOK, Phases
<1>4. SecretsInv'
  BY <1>1, <1>2, SecretsAreKept
     DEF FromObjects, FromBackends, FromStacks, FromState, FromUnits, FromPrepare
<1>5. ObjectsInv'
  BY <1>1, <1>2, ObjectsAreKept
<1>6. PhaseInv'
  BY <1>1, <1>2, KnownIsKept
     DEF PhaseInv, FromStacks, FromState, FromUnits, FromPrepare, FromCheck, FromLoaded
<1>7. LoadIsExact'
  BY <1>1, <1>2, RefusedForAReason DEF Valid
<1> QED
  BY <1>1, <1>2, <1>3, <1>4, <1>5, <1>6, <1>7, InputIsKept, NothingToShow DEF IInv

LEMMA PrepareUnitsKeeps ==
  ASSUME IInv, PrepareUnits
  PROVE  IInv'
<1>1. /\ pc = "prepare"
      /\ UNCHANGED <<left, secrets, secretFiles, missing, objects, backends, stacks, own, units, read,
                     runs, project, stored, where, edits>>
      /\ BackendsKnown /\ StacksKnown /\ StateKnown /\ UnitsKnown
  BY DEF PrepareUnits, input, IInv, PhaseInv, FromStacks, FromState, FromUnits, FromPrepare
<1>2. /\ pc' \in {"check", "refused"}
      /\ pc' = "check" => \A k \in DOMAIN units : Dependencies(k) \subseteq DOMAIN units
      /\ pc' = "refused" => ~LinksAreValid(project)
  BY <1>1, PrepareUnitsKnows
<1>3. TypeOK'
  BY <1>1, <1>2 DEF IInv, TypeOK, Phases
<1>4. SecretsInv'
  BY <1>1, <1>2, SecretsAreKept
     DEF FromObjects, FromBackends, FromStacks, FromState, FromUnits, FromPrepare, FromCheck
<1>5. ObjectsInv'
  BY <1>1, <1>2, ObjectsAreKept
<1>6. PhaseInv'
  BY <1>1, <1>2, KnownIsKept
     DEF PhaseInv, FromStacks, FromState, FromUnits, FromPrepare, FromCheck, FromLoaded
<1>7. LoadIsExact'
  BY <1>1, <1>2, RefusedForAReason DEF Valid
<1> QED
  BY <1>1, <1>2, <1>3, <1>4, <1>5, <1>6, <1>7, InputIsKept, NothingToShow DEF IInv

(* What the phases know together is that the project is valid.             *)
LEMMA FilesAreFoundValid ==
  ASSUME SecretsFit, SecretsSoFar(Files(project)), BackendsKnown
  PROVE  FilesAreValid(project) /\ secrets = SecretNames(project)
<1>1. Secrets(project) \subseteq Files(project)
  BY DEF Secrets
<1>2. secretFiles = Secrets(project)
  BY <1>1 DEF SecretsSoFar
<1>3. secrets = SecretNames(project)
  BY <1>2 DEF SecretsFit, SecretNames
<1>4. Distinct(Secrets(project), LAMBDA f : project.files[f].name)
  BY <1>2 DEF SecretsFit, Distinct
<1>5. \A f \in Files(project) : project.files[f].applies \subseteq SecretNames(project)
  BY <1>3 DEF SecretsSoFar
<1> QED
  BY <1>3, <1>4, <1>5 DEF FilesAreValid, BackendsKnown

LEMMA StateIsFoundValid ==
  ASSUME BackendsKnown, StateKnown
  PROVE  \E b \in StateBackends(project) : StateIsValid(project, b)
<1> DEFINE b == backends[StateBackendName(project)]
<1>1. b \in StateBackends(project)
  BY DEF BackendsKnown, StateKnown, StateBackends
<1>2. own = stored[b.place]
  BY DEF StateKnown, GetState
<1>3. \A k \in DOMAIN stored[b.place] : stored[b.place][k].backend \in BackendNames(project)
  BY <1>2 DEF StateKnown, BackendsKnown
<1>4. StateIsValid(project, b)
  BY <1>3 DEF StateIsValid
<1> QED
  BY <1>1, <1>4

LEMMA CheckUnitDependenciesKeeps ==
  ASSUME IInv, CheckUnitDependencies
  PROVE  IInv'
<1>1. /\ pc = "check"
      /\ UNCHANGED <<left, secrets, secretFiles, missing, objects, backends, stacks, own, units, read,
                     runs, project, stored, where, edits>>
  BY DEF CheckUnitDependencies, input
<1>2. /\ SecretsFit /\ SecretsSoFar(Files(project))
      /\ BackendsKnown /\ StacksKnown /\ StateKnown /\ UnitsKnown
      /\ \A k \in DOMAIN units : Dependencies(k) \subseteq DOMAIN units
  BY <1>1 DEF IInv, PhaseInv, SecretsInv, FromObjects, FromBackends, FromStacks, FromState,
              FromUnits, FromPrepare, FromCheck
<1>3. /\ pc' \in {"loaded", "refused"}
      /\ pc' = "loaded" => LinksAreValid(project)
      /\ pc' = "refused" => ~LinksAreValid(project)
  BY <1>2, CheckUnitDependenciesKnows DEF IInv
<1>4. TypeOK'
  BY <1>1, <1>3 DEF IInv, TypeOK, Phases
<1>5. SecretsInv'
  BY <1>1, <1>3, SecretsAreKept DEF FromObjects, FromBackends, FromStacks, FromState, FromUnits,
                                    FromPrepare, FromCheck, FromLoaded
<1>6. ObjectsInv'
  BY <1>1, <1>3, ObjectsAreKept
<1>7. PhaseInv'
  BY <1>1, <1>2, <1>3, KnownIsKept
     DEF PhaseInv, FromStacks, FromState, FromUnits, FromPrepare, FromCheck, FromLoaded
<1>8. LoadIsExact'
  <2>1. CASE pc' = "refused"
    BY <1>1, <1>3, <2>1, RefusedForAReason DEF Valid
  <2>2. CASE pc' = "loaded"
    <3>1. Valid(project)
      BY <1>2, <1>3, <2>2, FilesAreFoundValid, StateIsFoundValid DEF Valid, UnitsKnown
    <3>2. Valid(project)'
      BY <1>1, <3>1 DEF Valid, StateIsValid
    <3>3. DOMAIN units' = KeysOf(project)
      BY <1>1, <1>2 DEF UnitsKnown
    <3>4. missing \cap SecretNames(project) = {}
      BY <1>2, FilesAreFoundValid DEF SecretsFit
    <3> QED
      BY <1>1, <2>2, <3>2, <3>3, <3>4 DEF LoadIsExact
  <2> QED
    BY <1>3, <2>1, <2>2
<1> QED
  BY <1>1, <1>3, <1>4, <1>5, <1>6, <1>7, <1>8, InputIsKept, NothingToShow DEF IInv

------------------------------------------------------------------------------
(* A run.                                                                  *)

LEMMA UnambiguousMeansOnePlace ==
  ASSUME NEW b \in AllBackends, NEW c \in AllBackends, b.name = c.name, b.name \notin Ambiguous
  PROVE  b.place = c.place
BY DEF Ambiguous

(* What a loaded project knows, in the form that a run needs.              *)
LEMMA LoadedFacts ==
  ASSUME IInv, pc = "loaded"
  PROVE  /\ DOMAIN units # {} /\ DOMAIN units \subseteq Keys
         /\ StateBackendName(project) \in DOMAIN backends /\ own = GetState
         /\ \A n \in DOMAIN backends :
              backends[n] \in AllBackends /\ backends[n].name = n /\ backends[n].place \in Places
         /\ \A k \in DOMAIN own : own[k].backend \in DOMAIN backends
         /\ \A s \in DOMAIN stacks : /\ stacks[s].backendName \in DOMAIN backends
                                     /\ stacks[s].backend.name \in DOMAIN backends
         /\ \A k \in DOMAIN units : /\ k[1] \in DOMAIN stacks
                                    /\ Dependencies(k) \subseteq DOMAIN units
<1>1. /\ TypeOK /\ BackendsKnown /\ StacksKnown /\ StateKnown /\ UnitsKnown
      /\ \A k \in DOMAIN units : Dependencies(k) \subseteq DOMAIN units
  BY DEF IInv, PhaseInv, FromStacks, FromState, FromUnits, FromPrepare, FromCheck, FromLoaded
<1>2. DOMAIN units # {} /\ DOMAIN units \subseteq Keys
  <2>1. PICK o \in Deployable(project) : At(project, o).units # <<>>
    BY <1>1 DEF StacksKnown
  <2>2. At(project, o).units \in Seq(Range(At(project, o).units))
    BY <1>1, DeployableFacts, ProjectsAssumption DEF TypeOK, IsSequence
  <2>3. PICK u : u \in Range(At(project, o).units)
    <3> DEFINE list == At(project, o).units
    <3>1. list \in Seq(Range(list)) /\ list # <<>>
      BY <2>1, <2>2
    <3> HIDE DEF list
    <3>2. 1 \in DOMAIN list
      BY <3>1
    <3> QED
      BY <3>2 DEF list, Range
  <2>4. <<At(project, o).name, u.name>> \in KeysOf(project)
    BY <2>3 DEF KeysOf
  <2> QED
    BY <1>1, <2>4 DEF UnitsKnown, TypeOK
<1>3. \A n \in DOMAIN backends :
        backends[n] \in AllBackends /\ backends[n].name = n /\ backends[n].place \in Places
  BY <1>1, StateBackendsAreKnown DEF BackendsKnown, TypeOK
<1>4. ASSUME NEW s \in DOMAIN stacks
      PROVE  stacks[s].backendName \in DOMAIN backends /\ stacks[s].backend.name \in DOMAIN backends
  <2>1. stacks[s].backendName \in DOMAIN backends /\ stacks[s].backend \in Range(backends)
    BY <1>1 DEF TypeOK
  <2>2. PICK n \in DOMAIN backends : stacks[s].backend = backends[n]
    BY <2>1 DEF Range
  <2> QED
    BY <1>3, <2>1, <2>2
<1> QED
  BY <1>1, <1>2, <1>3, <1>4 DEF StateKnown, UnitsKnown

(* The stack of an unmoved unit has the backend that it names.             *)
LEMMA UnmovedFacts ==
  ASSUME IInv, pc = "loaded", NEW s \in DOMAIN stacks, Unmoved(s)
  PROVE  stacks[s].backend = backends[stacks[s].backendName]
<1>1. StateKnown
  BY DEF IInv, PhaseInv, FromUnits, FromPrepare, FromCheck, FromLoaded
<1> QED
  BY <1>1 DEF StateKnown, Unmoved

(* Once the state has been written at a place there is a record in it, so  *)
(* that a second one is never forgotten.                                   *)
LEMMA OneStateLooksBack ==
  ASSUME DOMAIN stored = Places, NEW place \in Places, NEW records, DOMAIN records # {},
         stored' = [stored EXCEPT ![place] = records], OneState'
  PROVE  OneState /\ \A l \in Places : l # place => DOMAIN stored[l] = {}
<1>1. stored'[place] # None
  BY DEF None
<1>2. ASSUME NEW l \in Places, l # place
      PROVE  stored[l] = None
  <2>1. stored'[l] = stored[l]
    BY <1>2
  <2> QED
    BY <1>1, <1>2, <2>1 DEF OneState
<1> QED
  BY <1>2 DEF OneState, None

LEMMA RunKeeps ==
  ASSUME IInv, NEW done \in SUBSET DOMAIN units, Run(done)
  PROVE  IInv'
<1> DEFINE gone == DOMAIN own \ DOMAIN units
           place == backends[StateBackendName(project)].place
           records == [k \in DOMAIN units |->
              IF k \in done THEN [type |-> units[k].type, backend |-> units[k].backend] ELSE own[k]]
<1>1. /\ pc = "loaded" /\ pc' = "ran"
      /\ \A k \in DOMAIN units \ done : k \in DOMAIN own /\ own[k].type = units[k].type
      /\ where' = [k \in Keys |->
           IF k \in done THEN (IF IsTerraform(units[k].type) THEN units[k].place ELSE where[k])
           ELSE IF k \in gone THEN Nowhere ELSE where[k]]
      /\ stored' = [stored EXCEPT ![place] = records]
      /\ read' = (UNION {{[unit |-> d, at |-> RemoteState(k, d), is |-> where'[d]]
                            : d \in units[k].remote} : k \in done})
                 \cup {[unit |-> k, at |-> backends[own[k].backend].place, is |-> where[k]]
                         : k \in {g \in gone : IsTerraform(own[g].type)}}
      /\ UNCHANGED <<project, left, secrets, secretFiles, missing, objects, backends, stacks, own,
                     units, edits, runs>>
  BY DEF Run, Goto
<1>2. /\ DOMAIN units # {} /\ DOMAIN units \subseteq Keys
      /\ StateBackendName(project) \in DOMAIN backends /\ own = GetState
      /\ \A n \in DOMAIN backends :
           backends[n] \in AllBackends /\ backends[n].name = n /\ backends[n].place \in Places
      /\ \A k \in DOMAIN own : own[k].backend \in DOMAIN backends
      /\ \A s \in DOMAIN stacks : /\ stacks[s].backendName \in DOMAIN backends
                                  /\ stacks[s].backend.name \in DOMAIN backends
      /\ \A k \in DOMAIN units : k[1] \in DOMAIN stacks /\ Dependencies(k) \subseteq DOMAIN units
  BY <1>1, LoadedFacts
<1>3. /\ TypeOK /\ StoredTyped /\ RecordsLead
      /\ \A k \in DOMAIN units :
           /\ units[k].type \in UnitTypes
           /\ units[k].place = backends[stacks[k[1]].backendName].place
           /\ units[k].backend = IF IsTerraform(units[k].type) THEN stacks[k[1]].backendName
                                 ELSE stacks[k[1]].backend.name
  BY <1>1 DEF IInv, PhaseInv, UnitsKnown, FromPrepare, FromCheck, FromLoaded
<1>4. /\ DOMAIN stored = Places /\ where \in [Keys -> Places \cup {Nowhere}]
      /\ place \in Places /\ own = stored[place]
  BY <1>2, <1>3 DEF TypeOK, GetState
<1>5. \A k \in DOMAIN units : units[k].place \in Places /\ units[k].backend \in DOMAIN backends
  BY <1>2, <1>3
<1>6. DOMAIN records = DOMAIN units /\ \A k \in DOMAIN units : records[k] =
         IF k \in done THEN [type |-> units[k].type, backend |-> units[k].backend] ELSE own[k]
  OBVIOUS
<1> HIDE DEF place, records
<1>7. /\ stored'[place] = records /\ DOMAIN stored' = Places
      /\ \A l \in Places : l # place => stored'[l] = stored[l]
  BY <1>1, <1>4
<1>8. \A k \in DOMAIN units : records[k] \in Record
  <2>1. \A n \in DOMAIN backends : n \in {b.name : b \in AllBackends}
    BY <1>2
  <2>2. ASSUME NEW k \in done
        PROVE  records[k] \in Record
    BY <1>3, <1>5, <1>6, <2>1, <2>2 DEF Record
  <2>3. ASSUME NEW k \in DOMAIN units \ done
        PROVE  records[k] \in Record
    BY <1>1, <1>3, <1>4, <1>6, <2>3 DEF StoredTyped
  <2> QED
    BY <2>2, <2>3
<1>9. \A k \in Keys : where'[k] =
        IF k \in done THEN (IF IsTerraform(units[k].type) THEN units[k].place ELSE where[k])
        ELSE IF k \in gone THEN Nowhere ELSE where[k]
  BY <1>1
<1>10. TypeOK'
  <2>1. where' \in [Keys -> Places \cup {Nowhere}]
    BY <1>1, <1>4, <1>5
  <2> QED
    BY <1>1, <1>3, <1>7, <2>1 DEF TypeOK, Phases
<1>11. StoredTyped'
  BY <1>2, <1>3, <1>6, <1>7, <1>8 DEF StoredTyped
<1>12. SecretsInv' /\ ObjectsInv' /\ PhaseInv' /\ LoadIsExact'
  BY <1>1, SecretsAreKept, ObjectsAreKept, NothingKnown, NothingToShow
     DEF FromObjects, FromBackends, FromStacks, FromState, FromUnits, FromPrepare, FromCheck,
         FromLoaded
<1>13. OneState' => OneState /\ \A l \in Places : l # place => DOMAIN stored[l] = {}
  BY <1>1, <1>2, <1>4, <1>6, OneStateLooksBack
<1>14. ASSUME OneState, NEW k \in DOMAIN own, IsTerraform(own[k].type)
       PROVE  \E b \in AllBackends : b.name = own[k].backend /\ b.place = where[k]
  BY <1>3, <1>4, <1>14 DEF RecordsLead
<1>15. RecordsLead'
  <2> SUFFICES ASSUME OneState', NEW l \in Places, NEW k \in DOMAIN stored'[l],
                      IsTerraform(stored'[l][k].type)
               PROVE  \E b \in AllBackends : b.name = stored'[l][k].backend /\ b.place = where'[k]
    BY DEF RecordsLead
  <2>1. l = place /\ k \in DOMAIN units /\ stored'[l][k] = records[k]
    BY <1>6, <1>7, <1>13
  <2>2. CASE k \in done
    <3>1. /\ stored'[l][k] = [type |-> units[k].type, backend |-> units[k].backend]
      BY <1>6, <2>1, <2>2
    <3>2. IsTerraform(units[k].type) /\ stored'[l][k].backend = stacks[k[1]].backendName
      BY <1>3, <2>1, <3>1
    <3>3. where'[k] = backends[stacks[k[1]].backendName].place
      BY <1>2, <1>3, <1>9, <2>1, <2>2, <3>2
    <3> QED
      BY <1>2, <2>1, <3>2, <3>3
  <2>3. CASE k \notin done
    <3>1. k \in DOMAIN own /\ stored'[l][k] = own[k]
      BY <1>1, <1>6, <2>1, <2>3
    <3>2. where'[k] = where[k]
      BY <1>2, <1>9, <2>1, <2>3
    <3> QED
      BY <1>13, <1>14, <3>1, <3>2
  <2> QED
    BY <2>2, <2>3
<1>16. RemoteStatesAreFound'
  <2> SUFFICES ASSUME OneState', NEW r \in read',
                      Unmoved(r.unit[1]),
                      r.unit \in DOMAIN own => own[r.unit].backend \notin Ambiguous,
                      r.unit \in DOMAIN units => IsTerraform(units[r.unit].type)
               PROVE  r.at = r.is
    <3>1. \A s : Unmoved(s)' <=> Unmoved(s)
      BY <1>1 DEF Unmoved, Recorded
    <3> QED
      BY <1>1, <3>1 DEF RemoteStatesAreFound
  <2>1. \A k \in DOMAIN own : IsTerraform(own[k].type) /\ own[k].backend \notin Ambiguous =>
          backends[own[k].backend].place = where[k]
    BY <1>2, <1>13, <1>14, UnambiguousMeansOnePlace
  <2>2. ASSUME NEW k \in done, NEW d \in units[k].remote,
               r = [unit |-> d, at |-> RemoteState(k, d), is |-> where'[d]]
        PROVE  r.at = r.is
    <3>1. d \in DOMAIN units /\ d[1] \in DOMAIN stacks /\ d \in Keys
      BY <1>2 DEF Dependencies
    <3>2. /\ r.unit = d /\ r.at = stacks[d[1]].backend.place /\ r.is = where'[d]
      BY <2>2 DEF RemoteState
    <3>3. IsTerraform(units[d].type) /\ r.at = units[d].place
      BY <1>1, <1>3, <3>1, <3>2, UnmovedFacts
    <3>4. CASE d \in done
      BY <1>9, <3>1, <3>2, <3>3, <3>4
    <3>5. CASE d \notin done
      <4>1. d \in DOMAIN own /\ own[d].type = units[d].type
        BY <1>1, <3>1, <3>5
      <4>2. own[d].backend = stacks[d[1]].backendName
        BY <3>1, <3>2, <4>1 DEF Unmoved, Recorded
      <4>3. where[d] = units[d].place
        BY <1>3, <2>1, <3>1, <3>2, <3>3, <4>1, <4>2
      <4>4. where'[d] = where[d]
        BY <1>9, <3>1, <3>5
      <4> QED
        BY <3>2, <3>3, <4>3, <4>4
    <3> QED
      BY <3>4, <3>5
  <2>3. ASSUME NEW g \in gone, IsTerraform(own[g].type),
               r = [unit |-> g, at |-> backends[own[g].backend].place, is |-> where[g]]
        PROVE  r.at = r.is
    BY <2>1, <2>3
  <2>4. CASE r \in UNION {{[unit |-> d, at |-> RemoteState(k, d), is |-> where'[d]]
                             : d \in units[k].remote} : k \in done}
    <3>1. PICK k \in done :
            r \in {[unit |-> d, at |-> RemoteState(k, d), is |-> where'[d]] : d \in units[k].remote}
      BY <2>4
    <3> QED
      BY <2>2, <3>1
  <2>5. CASE r \in {[unit |-> k, at |-> backends[own[k].backend].place, is |-> where[k]]
                      : k \in {g \in gone : IsTerraform(own[g].type)}}
    BY <2>3, <2>5
  <2> QED
    BY <1>1, <2>4, <2>5
<1> QED
  BY <1>10, <1>11, <1>12, <1>15, <1>16 DEF IInv

------------------------------------------------------------------------------

LEMMA RestKeeps ==
  ASSUME IInv, UNCHANGED vars
  PROVE  IInv'
<1>1. UNCHANGED <<project, pc, left, secrets, secretFiles, missing, objects, backends, stacks,
                  own, units, stored, where, read, edits, runs>>
  BY DEF vars
<1>2. TypeOK'
  BY <1>1 DEF IInv, TypeOK
<1>3. SecretsInv'
  BY <1>1 DEF IInv, SecretsInv, SecretsFit, SecretsSoFar
<1>4. ObjectsInv'
  BY <1>1, ObjectsAreKept DEF IInv, ObjectsInv
<1>5. PhaseInv'
  BY <1>1, KnownIsKept DEF IInv, PhaseInv, Empty
<1>6. LoadIsExact'
  BY <1>1 DEF IInv, LoadIsExact, Valid, StateIsValid
<1>7. RemoteStatesAreFound'
  BY <1>1 DEF IInv, RemoteStatesAreFound, OneState, Unmoved, Recorded
<1> QED
  BY <1>1, <1>2, <1>3, <1>4, <1>5, <1>6, <1>7, InputIsKept DEF IInv

LEMMA NextKeepsIInv ==
  ASSUME IInv, [Next]_vars
  PROVE  IInv'
<1>1. CASE Edit
  BY <1>1, EditKeeps
<1>2. CASE ReadManifests
  BY <1>2, ReadManifestsKeeps
<1>3. ASSUME NEW f \in left, ReadSecret(f) \/ ReadFails(f) \/ ReadObjects(f)
      PROVE  IInv'
  BY <1>3, ReadSecretKeeps, ReadFailsKeeps, ReadObjectsKeeps
<1>4. CASE SecretsRead
  BY <1>4, SecretsReadKeeps
<1>5. CASE ObjectsRead
  BY <1>5, ObjectsReadKeeps
<1>6. CASE ReadBackends
  BY <1>6, ReadBackendsKeeps
<1>7. CASE ReadStacks
  BY <1>7, ReadStacksKeeps
<1>8. CASE LoadState
  BY <1>8, LoadStateKeeps
<1>9. CASE ReadUnits
  BY <1>9, ReadUnitsKeeps
<1>10. CASE PrepareUnits
  BY <1>10, PrepareUnitsKeeps
<1>11. CASE CheckUnitDependencies
  BY <1>11, CheckUnitDependenciesKeeps
<1>12. ASSUME NEW done \in SUBSET DOMAIN units, Run(done)
       PROVE  IInv'
  BY <1>12, RunKeeps
<1>13. CASE Leave
  BY <1>13, LeaveKeeps
<1>14. CASE Rest \/ UNCHANGED vars
  BY <1>14, RestKeeps DEF Rest
<1> QED
  BY <1>1, <1>2, <1>3, <1>4, <1>5, <1>6, <1>7, <1>8, <1>9, <1>10, <1>11, <1>12, <1>13, <1>14
     DEF Next

(* The inductive invariant: what each phase of LoadProjectFull knows of    *)
(* the project, and where the terraform states of its units are.           *)
THEOREM IInvHolds == Spec => []IInv
<1>1. Init => IInv
  BY InitSatisfiesIInv
<1>2. IInv /\ [Next]_vars => IInv'
  BY NextKeepsIInv
<1> QED
  BY <1>1, <1>2, PTL DEF Spec

(* The variables keep their types: every backend is known by its name, a   *)
(* stack has one of the project's backends, and every record is one that   *)
(* a project of the user's can have left (LoadProjectFull).                *)
THEOREM LoadingTyped == Spec => []TypeOK
<1>1. IInv => TypeOK
  BY DEF IInv
<1> QED
  BY <1>1, IInvHolds, PTL

(* For every set of projects, and in whatever order files, stacks and      *)
(* records are walked: what is loaded is valid and complete, what is       *)
(* refused is not valid, with the two exceptions that LoadIsExact names    *)
(* (readObjects, readBackends, readStackObj, LoadState, readUnits,         *)
(* prepareUnits, checkUnitDependencies).                                   *)
THEOREM LoadsAreExact == Spec => []LoadIsExact
<1>1. IInv => LoadIsExact
  BY DEF IInv
<1> QED
  BY <1>1, IInvHolds, PTL

(* For every set of projects, and over any number of edits and runs: a     *)
(* terraform state that a run reads or destroys is in the place where the  *)
(* run looks for it, with the exceptions that RemoteStatesAreFound names   *)
(* (genDepsRemoteStates, LoadState, NewUnit).                              *)
THEOREM StatesAreFound == Spec => []RemoteStatesAreFound
<1>1. IInv => RemoteStatesAreFound
  BY DEF IInv
<1> QED
  BY <1>1, IInvHolds, PTL

==============================================================================
