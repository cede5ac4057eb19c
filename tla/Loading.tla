------------------------------- MODULE Loading -------------------------------
(***************************************************************************)
(* Loading a project: secrets, then objects, from files in any order (they *)
(* are the keys of a Go map); then backends, stacks with their templates,  *)
(* the state, units, their dependencies. A loaded project may be run, and  *)
(* the user may change it before it is loaded again: what a run wrote must *)
(* be found by the next one.                                               *)
(*                                                                         *)
(* Which units a run executes is left open here (see Reconcile and Links); *)
(* a run succeeds. Only a terraform unit has a state of its own, in the    *)
(* backend of its stack.                                                   *)
(***************************************************************************)
EXTENDS Naturals, Sequences, FiniteSets, Functions

CONSTANTS Projects,    \* what the user may write
          UnitTypes,   \* UnitFactoriesMap
          Providers,   \* BackendsFactories
          MaxEdits,    \* bound on the number of edits
          MaxRuns      \* bound on the number of times a project is loaded

(* A file has one secret or a sequence of objects. It refers to the names  *)
(* of secrets, and gives some of them to template functions.               *)
Malformed == <<>>
Files(p) == DOMAIN p.files
StateBackendName(p) == IF p.config = "none" THEN "default" ELSE p.config
DefaultBackend == [kind |-> "Backend", name |-> "default", provider |-> "local", place |-> "here"]

Written(p) == UNION {Range(p.files[f].objects) : f \in Files(p)}
BackendObjects(p) == {o \in Written(p) : o.kind = "Backend"}
BackendsOf(p) == BackendObjects(p) \cup {DefaultBackend}
StacksOf(p) == {o \in Written(p) : o.kind \in {"Stack", "Infrastructure"}}
KeysIn(p) == UNION {{<<s.name, u.name>> : u \in Range(s.units)} : s \in StacksOf(p)}

Keys == UNION {KeysIn(p) : p \in Projects}
AllBackends == UNION {BackendsOf(p) : p \in Projects}
Places == {b.place : b \in AllBackends}
Nowhere == "nowhere"

IsSequence(list) == list \in Seq(Range(list))

ASSUME ProjectsAssumption ==
  \A p \in Projects :
    /\ \A f \in Files(p) :
         /\ p.files[f].kind \in {"secret", "objects"}
         /\ IsSequence(p.files[f].objects)
         /\ p.files[f].kind = "secret" => p.files[f].objects = <<>>
    /\ \A s \in StacksOf(p) : IsSequence(s.units)
    /\ IsFiniteSet(KeysIn(p))

ASSUME TypesAssumption == "tfmodule" \in UnitTypes
ASSUME BoundsAssumption == MaxEdits \in Nat /\ MaxRuns \in Nat

VARIABLES
  project,    \* the files as the user wrote them
  pc,         \* the part of LoadProjectFull that comes next
  left,       \* files that are still to be read
  secrets,    \* the names of the secrets
  secretFiles,\* their files
  missing,    \* secrets that an object was templated without
  objects,    \* the objects in the order they were read
  backends,   \* Backends, by name
  stacks,     \* Stacks, by name
  own,        \* the records of OwnState
  units,      \* Units, by key
  stored,     \* the records in every place that a state may be saved
  where,      \* the place that has the unit's terraform state
  read,       \* the terraform states that the run read: of which unit, at which
              \* place, and the place that it is in
  edits, runs

vars == <<project, pc, left, secrets, secretFiles, missing, objects, backends,
          stacks, own, units, stored, where, read, edits, runs>>

None == [k \in {} |-> k]
Phases == {"idle", "secrets", "objects", "backends", "stacks", "state", "units",
           "prepare", "check", "loaded", "ran", "refused", "unreadable"}

Record == [type : UnitTypes, backend : {b.name : b \in AllBackends}]

TypeOK ==
  /\ project \in Projects /\ pc \in Phases
  /\ left \subseteq Files(project) /\ secretFiles \subseteq Files(project)
  /\ \A i \in DOMAIN objects : objects[i] \in Written(project)
  /\ \A n \in DOMAIN backends : backends[n].name = n
  /\ \A s \in DOMAIN stacks : /\ stacks[s].backendName \in DOMAIN backends
                              /\ stacks[s].backend \in Range(backends)
  /\ DOMAIN units \subseteq Keys /\ DOMAIN own \subseteq Keys
  /\ \A k \in DOMAIN own : own[k] \in Record
  /\ where \in [Keys -> Places \cup {Nowhere}]
  /\ DOMAIN stored = Places
  /\ edits \in 0..MaxEdits /\ runs \in 0..MaxRuns

(* NewEmptyProject                                                         *)
Empty ==
  /\ secrets = {} /\ secretFiles = {} /\ missing = {}
  /\ objects = <<>> /\ backends = None /\ stacks = None
  /\ own = None /\ units = None /\ read = {}

Init ==
  /\ project \in Projects
  /\ pc = "idle" /\ left = {}
  /\ Empty
  /\ stored = [l \in Places |-> None]
  /\ where = [k \in Keys |-> Nowhere]
  /\ edits = 0 /\ runs = 0

input == <<project, stored, where, edits>>

Edit ==
  /\ pc = "idle" /\ edits < MaxEdits
  /\ project' \in Projects \ {project}
  /\ edits' = edits + 1
  /\ UNCHANGED <<pc, left, secrets, secretFiles, missing, objects, backends, stacks,
                 own, units, stored, where, read, runs>>

Goto(next) == pc' = next
Refuse == Goto("refused")
Check(ok, next) == IF ok THEN Goto(next) ELSE Refuse

------------------------------------------------------------------------------
(* LoadProjectBase                                                         *)

ReadManifests ==
  /\ pc = "idle" /\ runs < MaxRuns
  /\ Goto("secrets")
  /\ left' = Files(project)
  /\ runs' = runs + 1
  /\ UNCHANGED <<secrets, secretFiles, missing, objects, backends, stacks, own, units,
                 read, input>>

(* A missing key is printed as such, also when it is a key of nothing; a   *)
(* function that is given one fails.                                       *)
TemplateTry(f) == project.files[f].applies \subseteq secrets

(* A secret whose driver is unknown is not taken for one.                  *)
GetSecretInfo(f) == project.files[f].kind = "secret"

(* One file of readSecrets.                                                *)
ReadSecret(f) ==
  LET file == project.files[f]
  IN  /\ pc = "secrets" /\ f \in left
      /\ left' = left \ {f}
      /\ IF ~TemplateTry(f) \/ (GetSecretInfo(f) /\ file.name \in secrets)
         THEN Refuse /\ UNCHANGED <<secrets, secretFiles>>
         ELSE IF GetSecretInfo(f)
         THEN /\ secrets' = secrets \cup {file.name}
              /\ secretFiles' = secretFiles \cup {f}
              /\ UNCHANGED pc
         ELSE UNCHANGED <<pc, secrets, secretFiles>>
      /\ UNCHANGED <<missing, objects, backends, stacks, own, units, read, runs, input>>

(* The driver cannot decrypt or fetch a secret.                            *)
ReadFails(f) ==
  /\ pc = "secrets" /\ f \in left /\ TemplateTry(f) /\ GetSecretInfo(f)
  /\ Goto("unreadable")
  /\ UNCHANGED <<left, secrets, secretFiles, missing, objects, backends, stacks, own, units, read,
                 runs, input>>

SecretsRead ==
  /\ pc = "secrets" /\ left = {}
  /\ Goto("objects")
  /\ left' = Files(project)
  /\ UNCHANGED <<secrets, secretFiles, missing, objects, backends, stacks, own, units, read,
                 runs, input>>

------------------------------------------------------------------------------
(* LoadProjectFull                                                         *)

FileIsSecret(f) == f \in secretFiles

(* readObjects: one file.                                                  *)
ReadObjects(f) ==
  LET file == project.files[f]
  IN  /\ pc = "objects" /\ f \in left
      /\ left' = left \ {f}
      /\ IF FileIsSecret(f) THEN UNCHANGED <<pc, missing, objects>>
         ELSE IF ~TemplateTry(f) THEN Refuse /\ UNCHANGED <<missing, objects>>
         ELSE /\ missing' = missing \cup (file.refers \ secrets)
              /\ objects' = objects \o file.objects
              /\ UNCHANGED pc
      /\ UNCHANGED <<secrets, secretFiles, backends, stacks, own, units, read, runs, input>>

ObjectsRead ==
  /\ pc = "objects" /\ left = {}
  /\ Goto("backends")
  /\ UNCHANGED <<left, secrets, secretFiles, missing, objects, backends, stacks, own, units, read,
                 runs, input>>

(* Where the objects of a kind stand in the list.                          *)
Objects(kind) == {i \in DOMAIN objects : objects[i].kind = kind}

(* The last of two backends with one name is the one that counts.          *)
ReadBackendObj(n) ==
  objects[CHOOSE i \in Objects("Backend") :
            /\ objects[i].name = n
            /\ \A j \in Objects("Backend") : objects[j].name = n => j <= i]

(* readBackends, addDefaultBackend                                         *)
ReadBackends ==
  LET list == Objects("Backend")
      ok == \A i \in list : objects[i].provider \in Providers /\ objects[i].name # "default"
  IN  /\ pc = "backends"
      /\ Check(ok, "stacks")
      /\ backends' = IF ~ok THEN backends
                     ELSE [n \in {objects[i].name : i \in list} \cup {"default"} |->
                             IF n = "default" THEN DefaultBackend ELSE ReadBackendObj(n)]
      /\ UNCHANGED <<left, secrets, secretFiles, missing, objects, stacks, own, units, read, runs,
                     input>>

(* Seeded fault: a stack is taken for enabled whatever it says.            *)
AllEnabled(list) == list

(* Disabled stacks are skipped before anything else is checked.            *)
Enabled(list) == {i \in list : ~objects[i].disabled}

StackObjects == IF Objects("Stack") # {} THEN Objects("Stack") ELSE Objects("Infrastructure")

(* ReadTemplate, NewStackTemplate: some template has a unit.               *)
ReadTemplate(o) == o.units # <<>>

(* readStackObj, for every stack.                                          *)
ReadStacks ==
  LET list == Enabled(StackObjects)
      ok == /\ list # {}
            /\ \A i, j \in list : i # j => objects[i].name # objects[j].name
            /\ \A i \in list : ReadTemplate(objects[i]) /\ objects[i].backend \in DOMAIN backends
  IN  /\ pc = "stacks"
      /\ Check(ok, "state")
      /\ stacks' = IF ~ok THEN stacks
                   ELSE [n \in {objects[i].name : i \in list} |->
                          LET o == objects[CHOOSE i \in list : objects[i].name = n]
                          IN  [backendName |-> o.backend, backend |-> backends[o.backend],
                               units |-> o.units]]
      /\ UNCHANGED <<left, secrets, secretFiles, missing, objects, backends, own, units, read, runs,
                     input>>

(* GetState, and LoadState of every record: it sets the backend of the     *)
(* project's stack to that of the record; the last record decides.         *)
GetState == stored[backends[StateBackendName(project)].place]

Recorded(records, s) == {k \in DOMAIN records : k[1] = s}

LoadState ==
  LET found == StateBackendName(project) \in DOMAIN backends
      ok == found /\ \A k \in DOMAIN GetState : GetState[k].backend \in DOMAIN backends
  IN  /\ pc = "state"
      /\ Check(ok, "units")
      /\ own' = IF ok THEN GetState ELSE own
      /\ IF ~ok THEN UNCHANGED stacks
         ELSE \E last \in [DOMAIN stacks -> DOMAIN GetState \cup {Malformed}] :
                /\ \A s \in DOMAIN stacks :
                     IF Recorded(GetState, s) = {} THEN last[s] = Malformed
                     ELSE last[s] \in Recorded(GetState, s)
                /\ stacks' = [s \in DOMAIN stacks |->
                     IF last[s] = Malformed THEN stacks[s]
                     ELSE [stacks[s] EXCEPT !.backend = backends[GetState[last[s]].backend]]]
      /\ UNCHANGED <<left, secrets, secretFiles, missing, objects, backends, units, read, runs,
                     input>>

(* readDeps gives up, without an error, on an entry that is malformed.     *)
ReadDeps(s, list) ==
  LET bad == {i \in DOMAIN list : list[i] = Malformed}
  IN  {<<IF list[i][1] = "this" THEN s ELSE list[i][1], list[i][2]>> :
         i \in {j \in DOMAIN list : \A b \in bad : j < b}}

Resolve(s, refs) == {<<IF r[1] = "this" THEN s ELSE r[1], r[2]>> : r \in refs}

(* NewUnit: "terraform" is the old name of "tfmodule".                     *)
UnitType(u) == IF u.type = "terraform" THEN "tfmodule" ELSE u.type

(* Seeded fault: the old name stays in the unit.                           *)
NewUnitAsWritten(s, u) ==
  [type |-> u.type, depends |-> ReadDeps(s, u.depends), remote |-> Resolve(s, u.remote),
   place |-> backends[stacks[s].backendName].place, backend |-> stacks[s].backendName]

(* A shell unit takes the name of the stack's Backend, the others take its *)
(* BackendName.                                                            *)
NewUnit(s, u) ==
  [type |-> UnitType(u),
   depends |-> ReadDeps(s, u.depends),
   remote |-> Resolve(s, u.remote),
   place |-> backends[stacks[s].backendName].place,
   backend |-> IF u.type = "shell" THEN stacks[s].backend.name ELSE stacks[s].backendName]

ReadUnits ==
  LET of(s) == stacks[s].units
      ok == \A s \in DOMAIN stacks : \A i, j \in DOMAIN of(s) :
              UnitType(of(s)[i]) \in UnitTypes /\ (i # j => of(s)[i].name # of(s)[j].name)
      keys == UNION {{<<s, of(s)[i].name>> : i \in DOMAIN of(s)} : s \in DOMAIN stacks}
  IN  /\ pc = "units"
      /\ Check(ok, "prepare")
      /\ units' = IF ~ok THEN units
                  ELSE [k \in keys |->
                          NewUnit(k[1], CHOOSE u \in Range(of(k[1])) : u.name = k[2])]
      /\ UNCHANGED <<left, secrets, secretFiles, missing, objects, backends, stacks, own, read,
                     runs, input>>

Dependencies(k) == units[k].depends \cup units[k].remote

PrepareUnits ==
  /\ pc = "prepare"
  /\ Check(\A k \in DOMAIN units : Dependencies(k) \subseteq DOMAIN units, "check")
  /\ UNCHANGED <<left, secrets, secretFiles, missing, objects, backends, stacks, own, units, read,
                 runs, input>>

(* The units that chains of dependencies from k lead to.                   *)
Chained(k) ==
  {d \in DOMAIN units : \A S \in SUBSET DOMAIN units :
     Dependencies(k) \subseteq S /\ (\A n \in S : Dependencies(n) \subseteq S) => d \in S}

(* checkUnitDependenciesCircle: a chain comes back to the unit.            *)
Circle(k) == k \in Chained(k)

CheckDependenciesRecursive(k) == \A d \in {k} \cup Chained(k) : ~Circle(d)

CheckUnitDependencies ==
  /\ pc = "check"
  /\ Check(\A k \in DOMAIN units : CheckDependenciesRecursive(k), "loaded")
  /\ UNCHANGED <<left, secrets, secretFiles, missing, objects, backends, stacks, own, units, read,
                 runs, input>>

------------------------------------------------------------------------------
(* A run, and what it reads.                                               *)

IsTerraform(type) == type # "shell"

(* Seeded fault: the remote state is looked for in the reader's backend.   *)
OwnBackend(k, d) == stacks[k[1]].backend.place

(* genDepsRemoteStates: the backend of the target's stack.                 *)
RemoteState(k, d) == stacks[d[1]].backend.place

(* Units without a record are run, so are units with another type, and     *)
(* those that depend on a unit that is run; others may be. Records of      *)
(* units that are gone are destroyed, each in the backend of its record.   *)
Run(done) ==
  LET gone == DOMAIN own \ DOMAIN units
  IN  /\ pc = "loaded"
      /\ \A k \in DOMAIN units \ done : k \in DOMAIN own /\ own[k].type = units[k].type
      /\ \A k \in DOMAIN units : Dependencies(k) \cap done # {} => k \in done
      /\ Goto("ran")
      /\ where' = [k \in Keys |->
           IF k \in done THEN (IF IsTerraform(units[k].type) THEN units[k].place ELSE where[k])
           ELSE IF k \in gone THEN Nowhere ELSE where[k]]
      /\ stored' = [stored EXCEPT ![backends[StateBackendName(project)].place] =
           [k \in DOMAIN units |->
              IF k \in done THEN [type |-> units[k].type, backend |-> units[k].backend] ELSE own[k]]]
      /\ read' = (UNION {{[unit |-> d, at |-> RemoteState(k, d), is |-> where'[d]]
                            : d \in units[k].remote} : k \in done})
                 \cup {[unit |-> k, at |-> backends[own[k].backend].place, is |-> where[k]]
                         : k \in {g \in gone : IsTerraform(own[g].type)}}
      /\ UNCHANGED <<project, left, secrets, secretFiles, missing, objects, backends, stacks, own,
                     units, edits, runs>>

Leave ==
  /\ pc \in {"loaded", "ran", "refused", "unreadable"}
  /\ Goto("idle")
  /\ left' = {}
  /\ secrets' = {} /\ secretFiles' = {} /\ missing' = {}
  /\ objects' = <<>> /\ backends' = None /\ stacks' = None
  /\ own' = None /\ units' = None /\ read' = {}
  /\ UNCHANGED <<input, runs>>

Rest == pc = "idle" /\ UNCHANGED vars

Next ==
  \/ Edit \/ ReadManifests
  \/ \E f \in left : ReadSecret(f) \/ ReadFails(f) \/ ReadObjects(f)
  \/ SecretsRead \/ ObjectsRead
  \/ ReadBackends \/ ReadStacks \/ LoadState \/ ReadUnits
  \/ PrepareUnits \/ CheckUnitDependencies
  \/ \E done \in SUBSET DOMAIN units : Run(done)
  \/ Leave \/ Rest

Spec == Init /\ [][Next]_vars

------------------------------------------------------------------------------

(* The reference: what a project means, whatever the order of its files.   *)
Positions(p) == UNION {{<<f, i>> : i \in DOMAIN p.files[f].objects} : f \in Files(p)}
At(p, o) == p.files[o[1]].objects[o[2]]

Deployable(p) ==
  LET of(kind) == {o \in Positions(p) : At(p, o).kind = kind}
  IN  {o \in (IF of("Stack") # {} THEN of("Stack") ELSE of("Infrastructure")) : ~At(p, o).disabled}

KeysOf(p) ==
  UNION {{<<At(p, o).name, u.name>> : u \in Range(At(p, o).units)} : o \in Deployable(p)}

LinksOf(p, k) ==
  UNION {UNION {ReadDeps(k[1], u.depends) \cup Resolve(k[1], u.remote)
                 : u \in {x \in Range(At(p, o).units) : x.name = k[2]}}
          : o \in {x \in Deployable(p) : At(p, x).name = k[1]}}

Secrets(p) == {f \in Files(p) : p.files[f].kind = "secret"}
SecretNames(p) == {p.files[f].name : f \in Secrets(p)}
BackendNames(p) == {b.name : b \in BackendsOf(p)}
Distinct(set, Name(_)) == \A x, y \in set : x # y => Name(x) # Name(y)

FilesAreValid(p) ==
  /\ Distinct(Secrets(p), LAMBDA f : p.files[f].name)
  /\ \A f \in Files(p) : p.files[f].applies \subseteq SecretNames(p)
  /\ \A b \in BackendObjects(p) : b.provider \in Providers /\ b.name # "default"

StacksAreValid(p) ==
  /\ Deployable(p) # {}
  /\ Distinct(Deployable(p), LAMBDA o : At(p, o).name)
  /\ \A o \in Deployable(p) :
       /\ At(p, o).units # <<>> /\ At(p, o).backend \in BackendNames(p)
       /\ Distinct(DOMAIN At(p, o).units, LAMBDA i : At(p, o).units[i].name)
       /\ \A u \in Range(At(p, o).units) : u.type \in UnitTypes \cup {"terraform"}

LinksAreValid(p) ==
  /\ \A k \in KeysOf(p) : LinksOf(p, k) \subseteq KeysOf(p)
  /\ \A S \in SUBSET KeysOf(p) : S # {} => \E k \in S : LinksOf(p, k) \cap S = {}

StateBackends(p) == {b \in BackendsOf(p) : b.name = StateBackendName(p)}
StateIsValid(p, b) ==
  \A k \in DOMAIN stored[b.place] : stored[b.place][k].backend \in BackendNames(p)

Valid(p) ==
  /\ FilesAreValid(p) /\ StacksAreValid(p) /\ LinksAreValid(p)
  /\ \E b \in StateBackends(p) : StateIsValid(p, b)

(* Whatever the order in which the maps of files, stacks and records are   *)
(* walked: a project is loaded only if it is valid, with exactly the units *)
(* of its enabled stacks, and no object is templated without a secret that *)
(* there is; a valid one is not refused, with two exceptions: a file that  *)
(* applies a function to a secret may be templated before it               *)
(* (secret.go:24), and of two backends with the name of the state's the    *)
(* last one read is asked for the state (backend.go:90).                   *)
LoadIsExact ==
  /\ pc = "loaded" => /\ Valid(project)
                      /\ DOMAIN units = KeysOf(project)
                      /\ missing \cap SecretNames(project) = {}
  /\ pc = "refused" => \/ ~Valid(project)
                       \/ \E f \in Files(project) : project.files[f].applies # {}
                       \/ \E b \in StateBackends(project) : ~StateIsValid(project, b)

(* The names of backends that do not always mean the same place.           *)
Ambiguous ==
  {b.name : b \in {x \in AllBackends :
                     \E y \in AllBackends : x.name = y.name /\ x.place # y.place}}

(* No record of the stack names another backend than the project does.     *)
Unmoved(s) ==
  s \in DOMAIN stacks =>
    \A k \in Recorded(own, s) : own[k].backend = stacks[s].backendName

OneState == \A l, m \in Places : stored[l] # None /\ stored[m] # None => l = m

(* A run finds the terraform state of a unit that another one reads, or    *)
(* that it destroys, in the place where the last run of that unit, in this *)
(* or an earlier session, has left it. Excepted are stacks with a record   *)
(* of another backend (common/state.go:120), backends that are declared    *)
(* twice, projects that have changed the backend of the cdev state, and a  *)
(* remoteState of a shell unit, which has none: it is not refused          *)
(* (terraform/base/scanners.go:34).                                        *)
RemoteStatesAreFound ==
  pc = "ran" /\ OneState =>
    \A r \in read :
      /\ Unmoved(r.unit[1])
      /\ r.unit \in DOMAIN own => own[r.unit].backend \notin Ambiguous
      /\ r.unit \in DOMAIN units => IsTerraform(units[r.unit].type)
      => r.at = r.is

==============================================================================
