------------------------------ MODULE Reconcile ------------------------------
(***************************************************************************)
(* A project over many runs: the user edits units, "cdev apply" and "cdev  *)
(* destroy" load the stored state, plan the difference (buildPlan,         *)
(* planDestroyAll, CheckUnitChanges), execute it and save, and runs fail,  *)
(* are interrupted, or die before they save.                               *)
(*                                                                         *)
(* The execution itself is module UnitGraph; here a unit is executed in    *)
(* one step for each force_apply dependency and one for its own commands,  *)
(* in any order the graph allows. A plan with a circle is refused          *)
(* (GraphIndex); here its units never run.                                 *)
(***************************************************************************)
EXTENDS Naturals

CONSTANTS Units,      \* the keys of all units there may ever be
          Projects    \* what users may do, see Project

Commands == {"apply", "destroy"}

(* A unit's configuration: spec stands for what GetDiffData compares of    *)
(* the unit itself, 0 for a unit that is not there; deps is depends_on, of *)
(* which it compares only, for a unit that is depended on, that there is   *)
(* such a link; force is force_apply, which it leaves out.                 *)
Nothing == [spec |-> 0, deps |-> {}, force |-> FALSE]
Config == [spec : Nat \ {0}, deps : SUBSET Units, force : BOOLEAN] \cup {Nothing}

(* A user: what he may write for each unit, and the bounds on the number   *)
(* of his edits and of his runs.                                           *)
Project == [mayWrite : [Units -> SUBSET Config], edits : Nat, runs : Nat]

ASSUME ProjectsAssumption == Projects \subseteq Project

Present(cfg) == {u \in Units : cfg[u].spec # 0}

(* Some unit's depends_on names u: the link that the project keeps of it   *)
(* has an empty output name (readDeps).                                    *)
Linked(cfg, u) == \E v \in Units : u \in cfg[v].deps

(* LoadProjectFull accepts the project: dependencies exist, no circles.    *)
Loadable(cfg) ==
  /\ \A u \in Units : cfg[u].deps \subseteq Present(cfg)
  /\ \A S \in SUBSET Units : S # {} => \E u \in S : cfg[u].deps \cap S = {}

Partly == 99      \* what is deployed after a unit's commands were broken off

VARIABLES
  project,     \* the user, a member of Projects
  desired,     \* the project as the user wrote it
  stored,      \* the records in the backend
  own,         \* OwnState of the run, between the runs what is stored
  world,       \* what is deployed of every unit
  run,         \* the command that is executing, or "none"
  ignore,      \* config.Global.IgnoreState
  op,          \* Operation of the planned units, "None" for the others
  exe,         \* how far the execution of each unit is
  applied,     \* the objects applied in this run, see Objects
  edits, runs, \* counters, bounded by project.edits and .runs
  done,        \* the command that has just succeeded, or "none"
  hurt,        \* units a run changed without saving, see Unsaved
  upset,       \* units that this run, for another unit, left other than
               \* it records
  behind,      \* units with a dependency applied after them
  excused,     \* units that an unfinished run may have left behind
  relinked,    \* a recorded dependency was dropped by a unit of the project
  unprepared   \* the preparation of a unit failed

vars == <<project, desired, stored, own, world, run, ignore, op, exe, applied, edits,
          runs, done, hurt, upset, behind, excused, relinked, unprepared>>

(* What the state keeps of a unit; linked tells that its links have one of *)
(* depends_on to the unit.                                                 *)
Record == [spec : Nat, deps : SUBSET Units, force : BOOLEAN,
           tainted : BOOLEAN, linked : BOOLEAN]
NoRecord ==
  [spec |-> 0, deps |-> {}, force |-> FALSE, tainted |-> FALSE, linked |-> FALSE]

Operations == {"None", "Apply", "Update", "Destroy", "NotChanged"}
Progress == {"waiting", "begun", "done", "failed", "skipped"}

(* A unit in the state and in the project is two objects.                  *)
Objects == {"project", "state"} \X Units

TypeOK ==
  /\ project \in Projects
  /\ desired \in [Units -> Config]
  /\ \A u \in Units : desired[u] \in project.mayWrite[u] \cup {Nothing}
  /\ stored \in [Units -> Record] /\ own \in [Units -> Record]
  /\ world \in [Units -> Nat]
  /\ run \in Commands \cup {"none"} /\ done \in Commands \cup {"none"}
  /\ ignore \in BOOLEAN
  /\ op \in [Units -> Operations]
  /\ exe \in [Units -> Progress] /\ applied \in SUBSET Objects
  /\ edits \in 0..project.edits /\ runs \in 0..project.runs
  /\ hurt \in [Units -> Commands \cup {"no", "any"}]
  /\ upset \in SUBSET Units
  /\ behind \in SUBSET Units /\ excused \in SUBSET Units
  /\ relinked \in BOOLEAN /\ unprepared \in BOOLEAN

All(value) == [u \in Units |-> value]

Init ==
  /\ project \in Projects
  /\ desired \in [Units -> (UNION {project.mayWrite[u] : u \in Units}) \cup {Nothing}]
  /\ \A u \in Units : desired[u] \in project.mayWrite[u] \cup {Nothing}
  /\ Loadable(desired)
  /\ stored = All(NoRecord) /\ own = All(NoRecord)
  /\ world = All(0)
  /\ run = "none" /\ done = "none" /\ ignore = FALSE
  /\ op = All("None") /\ exe = All("waiting") /\ applied = {}
  /\ edits = 0 /\ runs = 0
  /\ hurt = All("no") /\ upset = {}
  /\ behind = {} /\ excused = {}
  /\ relinked = FALSE /\ unprepared = FALSE

Recorded(state) == {u \in Units : state[u].spec # 0}

(* Everything a unit depends on, directly or not.                          *)
Beneath(cfg, u) ==
  {v \in Units : \A S \in SUBSET Units :
     (cfg[u].deps \subseteq S /\ \A w \in S : cfg[w].deps \subseteq S) => v \in S}

Reach(u) == Beneath(desired, u)

Dependents(v) == {u \in Units : v \in Reach(u)}

------------------------------------------------------------------------------
(* The user.                                                               *)

Blame(u, cause) == IF hurt[u] \in {"no", cause} THEN cause ELSE "any"

(* One unit is added, removed, or written differently.                     *)
Edit(u) ==
  /\ run = "none" /\ edits < project.edits
  /\ \E c \in {x \in project.mayWrite[u] \cup {Nothing} : Loadable([desired EXCEPT ![u] = x])} :
       c # desired[u] /\ desired' = [desired EXCEPT ![u] = c]
  /\ edits' = edits + 1
  /\ done' = "none"
  /\ hurt' = [v \in Units |-> IF hurt[v] = "no" THEN "no" ELSE "any"]
  /\ UNCHANGED <<project, stored, own, world, run, ignore, op, exe, applied, runs,
                 upset, behind, excused, relinked, unprepared>>

------------------------------------------------------------------------------
(* Planning.                                                               *)

(* LoadState: InitUnitPtr finds the unit of every recorded depends_on.     *)
StateLoadable == \A u \in Units : stored[u].deps \subseteq Recorded(stored)

(* Seeded fault: only the direct dependencies are compared.                *)
DirectDependencyChanged(state, u) ==
  \E v \in desired[u].deps : state[v].spec # desired[v].spec

(* checkUnitChangesRecursive: the record is missing or differs, or there   *)
(* are links of depends_on to the unit only in one of project and state;   *)
(* the taint is not looked at.                                             *)
Differs(state, u) ==
  \/ state[u].spec # desired[u].spec
  \/ state[u].linked # Linked(desired, u)

DependencyChanged(state, u) == \E v \in Reach(u) : Differs(state, v)

(* CheckUnitChanges                                                        *)
Changed(state, u) ==
  Differs(state, u) \/ state[u].tainted \/ DependencyChanged(state, u)

(* buildPlan; with --ignore-state everything is applied.                   *)
ApplyOperation(state, u) ==
  CASE u \in Present(desired) /\ u \notin Recorded(state) -> "Apply"
    [] u \in Present(desired) \cap Recorded(state) /\ Changed(state, u) -> "Update"
    [] u \in Present(desired) \cap Recorded(state) /\ ~Changed(state, u) -> "NotChanged"
    [] u \in Recorded(state) \ Present(desired) -> "Destroy"
    [] OTHER -> "None"

(* planDestroyAll                                                          *)
DestroyOperation(state, ignoring, u) ==
  IF u \in (IF ignoring THEN Present(desired) ELSE Recorded(state))
  THEN "Destroy" ELSE "None"

(* LoadProjectFull and the plan. With --ignore-state the run starts from   *)
(* an empty state, and saves what comes of it.                             *)
Plan(cmd, ignoring) ==
  /\ run = "none" /\ runs < project.runs
  /\ ignoring \/ StateLoadable
  /\ run' = cmd /\ ignore' = ignoring
  /\ own' = IF ignoring THEN All(NoRecord) ELSE stored
  /\ op' = [u \in Units |-> IF cmd = "apply" THEN ApplyOperation(own', u)
                          ELSE DestroyOperation(own', ignoring, u)]
  /\ runs' = runs + 1
  /\ done' = "none"
  /\ hurt' = [u \in Units |-> IF ignoring /\ u \in Recorded(stored) THEN "any" ELSE hurt[u]]
  /\ relinked' = (relinked \/ \E u \in Present(desired) \cap Recorded(stored) :
                                 ~(stored[u].deps \subseteq desired[u].deps))
  /\ UNCHANGED <<project, desired, stored, world, exe, applied, edits, upset,
                 behind, excused, unprepared>>

------------------------------------------------------------------------------
(* Execution.                                                              *)

(* A unit planned for Destroy is the state's own object, unless the state  *)
(* is ignored, and its links lead to objects of the state.                 *)
Kind(u) == IF op[u] = "Destroy" /\ ~ignore THEN "state" ELSE "project"
Links(u) == IF Kind(u) = "state" THEN own[u].deps ELSE desired[u].deps

Planned == {u \in Units : op[u] \in {"Apply", "Update", "Destroy"}}
Waiting == {u \in Planned : exe[u] \in {"waiting", "begun", "failed"}}

(* Seeded fault: a destroy waits for nothing.                              *)
MayRunUnordered(u) ==
  /\ run # "none"
  /\ u \in Planned /\ exe[u] \in {"waiting", "begun"}
  /\ op[u] # "Destroy" => Waiting \cap Links(u) = {}

MayRun(u) ==
  /\ run # "none"
  /\ u \in Planned /\ exe[u] \in {"waiting", "begun"}
  /\ \A v \in Waiting :
       /\ op[u] # "Destroy" => v \notin Links(u)
       /\ op[u] = "Destroy" => u \notin Links(v)

(* Seeded fault: a status outside the enumeration.                         *)
BecomesUnknown(u, how) == exe' = [exe EXCEPT ![u] = "unknown"]

Becomes(u, how) == exe' = [exe EXCEPT ![u] = how]

(* UpdateUnit joins the links that the project has to the unit.            *)
NewRecord(u, failed) ==
  [spec |-> desired[u].spec, deps |-> desired[u].deps, force |-> desired[u].force,
   tainted |-> failed, linked |-> own[u].linked \/ Linked(desired, u)]

runData == <<project, desired, stored, run, ignore, op, edits, runs, done, hurt, relinked>>

(* findForceApplyDependencies, among the objects of one kind.              *)
Configs(kind) == IF kind = "state" THEN stored ELSE desired

ForcedBy(kind, u) ==
  {d \in Units : Configs(kind)[d].force /\ d \in Beneath(Configs(kind), u)}

(* What Apply has not done yet in this run, and of that what can be next:  *)
(* a dependency applies its own force_apply dependencies first.            *)
Pending(kind, u) == {d \in ForcedBy(kind, u) : <<kind, d>> \notin applied}

MayForce(u, d) ==
  /\ MayRun(u)
  /\ d \in Pending(Kind(u), u) /\ Pending(Kind(u), d) = {}

(* OwnState holds the object of that kind, or one that says the same.      *)
Holds(kind, d) == IF kind = "state" THEN exe[d] # "done" ELSE op[d] = "NotChanged"

(* forceApplyDependencies: a dependency is applied as the object has it,   *)
(* and no record is made. Its other dependents are not planned for it.     *)
ForceApply(u, d) ==
  /\ MayForce(u, d)
  /\ Becomes(u, "begun")
  /\ world' = [world EXCEPT ![d] = Configs(Kind(u))[d].spec]
  /\ applied' = applied \cup {<<Kind(u), d>>}
  /\ upset' = IF Holds(Kind(u), d) THEN upset ELSE upset \cup {d}
  /\ behind' = (behind \ {d}) \cup Dependents(d)
  /\ excused' = (excused \ {d}) \cup Dependents(d)
  /\ UNCHANGED <<runData, own, unprepared>>

(* It is broken off: only the object of the state can be marked by that.   *)
ForceFails(u, d) ==
  /\ MayForce(u, d)
  /\ Becomes(u, "skipped")
  /\ world' \in {world, [world EXCEPT ![d] = Partly]}
  /\ own' = IF Kind(u) = "state" /\ exe[d] \notin {"done", "failed"} /\ d \in Recorded(own)
            THEN [own EXCEPT ![d].tainted = TRUE] ELSE own
  /\ upset' = upset \cup {d}
  /\ unprepared' = TRUE
  /\ UNCHANGED <<runData, applied, behind, excused>>

(* The unit's own commands come next.                                      *)
MayExecute(u) == MayRun(u) /\ Pending(Kind(u), u) = {}

(* A unit applied to repair a failure leaves its dependents behind.        *)
Excuse(u) ==
  (excused \ {u}) \cup IF stored[u].tainted /\ ~ignore THEN Dependents(u) ELSE {}

(* Seeded fault: a unit is applied but its old record is kept.             *)
ApplyUnrecorded(u) ==
  /\ MayExecute(u) /\ op[u] # "Destroy"
  /\ Becomes(u, "done")
  /\ world' = [world EXCEPT ![u] = desired[u].spec]
  /\ applied' = applied \cup {<<"project", u>>}
  /\ upset' = upset \ {u}
  /\ behind' = (behind \ {u}) \cup Dependents(u)
  /\ excused' = Excuse(u)
  /\ UNCHANGED <<runData, own, unprepared>>

Apply(u) ==
  /\ MayExecute(u) /\ op[u] # "Destroy"
  /\ Becomes(u, "done")
  /\ world' = [world EXCEPT ![u] = desired[u].spec]
  /\ own' = [own EXCEPT ![u] = NewRecord(u, FALSE)]
  /\ applied' = applied \cup {<<"project", u>>}
  /\ upset' = upset \ {u}
  /\ behind' = (behind \ {u}) \cup Dependents(u)
  /\ excused' = Excuse(u)
  /\ UNCHANGED <<runData, unprepared>>

Destroy(u) ==
  /\ MayExecute(u) /\ op[u] = "Destroy"
  /\ Becomes(u, "done")
  /\ world' = [world EXCEPT ![u] = 0]
  /\ own' = [own EXCEPT ![u] = NoRecord]
  /\ upset' = upset \ {u}
  /\ behind' = behind \ {u}
  /\ excused' = excused \ {u}
  /\ UNCHANGED <<runData, applied, unprepared>>

(* Seeded fault: a failed apply is recorded as if it had succeeded.        *)
TaintForgotten(u) ==
  IF op[u] # "Destroy" THEN NewRecord(u, FALSE) ELSE own[u]

Tainted(u) ==
  IF op[u] # "Destroy" THEN NewRecord(u, TRUE)
  ELSE IF u \in Recorded(own) THEN [own[u] EXCEPT !.tainted = TRUE]
  ELSE NoRecord

(* The commands are refused, or broken off.                                *)
Fail(u) ==
  /\ MayExecute(u)
  /\ Becomes(u, "failed")
  /\ world' \in {world, [world EXCEPT ![u] = Partly]}
  /\ own' = [own EXCEPT ![u] = Tainted(u)]
  /\ upset' = upset \ {u}
  /\ UNCHANGED <<runData, applied, behind, excused, unprepared>>

(* Build or init fails, of the unit or of a force_apply dependency: the    *)
(* scheduler takes the unit for finished.                                  *)
PrepareFails(u) ==
  /\ MayRun(u)
  /\ exe[u] = "waiting" \/ Pending(Kind(u), u) # {}
  /\ Becomes(u, "skipped")
  /\ unprepared' = TRUE
  /\ UNCHANGED <<runData, applied, world, own, upset, behind, excused>>

------------------------------------------------------------------------------
(* The end of a run.                                                       *)

Some(how) == \E u \in Planned : exe[u] = how

Reset ==
  /\ run' = "none" /\ ignore' = FALSE
  /\ op' = All("None") /\ exe' = All("waiting")
  /\ applied' = {} /\ upset' = {}

(* What the next run will load: links of depends_on of the records are     *)
(* joined, links to units that have no record are cleared.                 *)
Loaded(state) ==
  [u \in Units |-> [state[u] EXCEPT !.linked = u \in Recorded(state)
                                              /\ (@ \/ Linked(state, u))]]

(* A unit whose outcome the state tells of. A destroy that ignores the     *)
(* state has no record to taint when it fails.                             *)
Settled(u) == exe[u] = "done" \/ (exe[u] = "failed" /\ u \in Recorded(own))

(* A unit that was planned for another's change and did not come to its    *)
(* turn: the change is saved, and the next plan finds nothing to do.       *)
Forgotten(u) == u \in Planned /\ hurt[u] = "apply" /\ ~Changed(Loaded(own), u)

(* SaveState                                                               *)
SaveAll ==
  /\ stored' = Loaded(own) /\ own' = Loaded(own)
  /\ hurt' = [u \in Units |->
       IF u \in upset THEN "any"
       ELSE IF Settled(u) THEN "no"
       ELSE IF exe[u] = "failed" \/ Forgotten(u) THEN "any" ELSE hurt[u]]
  /\ excused' = excused \cup {u \in Planned : exe[u] # "done"}
  /\ UNCHANGED <<project, desired, world, edits, runs, behind, relinked, unprepared>>

(* Every planned unit came to its end.                                     *)
AllOver == run # "none" /\ ~Some("waiting") /\ ~Some("begun") /\ ~Some("failed")

Succeed ==
  /\ AllOver
  /\ done' = IF Some("skipped") THEN "none" ELSE run
  /\ SaveAll /\ Reset

(* A unit failed, or the run was interrupted; what runs comes to its end.  *)
GiveUp ==
  /\ run # "none" /\ ~Some("begun")
  /\ Some("waiting") \/ Some("failed")
  /\ done' = "none"
  /\ SaveAll /\ Reset

(* Nothing of the run is written.                                          *)
Unsaved ==
  /\ own' = stored
  /\ hurt' = [u \in Units |->
       IF u \in upset THEN "any"
       ELSE IF exe[u] \in {"done", "failed"} THEN Blame(u, IF ignore THEN "any" ELSE run)
       ELSE hurt[u]]
  /\ Reset
  /\ UNCHANGED <<project, desired, stored, world, edits, runs, behind, relinked,
                 unprepared>>

(* Apply does not look at what SaveState returns: it succeeds although the *)
(* state was not written.                                                  *)
SucceedUnsaved ==
  /\ AllOver /\ run = "apply" /\ ~Some("skipped")
  /\ done' = run
  /\ excused' = excused
  /\ Unsaved

(* The process dies, or the state cannot be written.                       *)
Crash ==
  /\ run # "none"
  /\ done' = "none"
  /\ excused' = excused \cup UNION {Dependents(u) : u \in {v \in Units : exe[v] \in {"done", "failed"}}}
  /\ Unsaved

Rest == run = "none" /\ UNCHANGED vars

Next ==
  \/ \E u \in Units : Edit(u) \/ Apply(u) \/ Destroy(u) \/ Fail(u) \/ PrepareFails(u)
  \/ \E u, d \in Units : ForceApply(u, d) \/ ForceFails(u, d)
  \/ \E cmd \in Commands, ignoring \in BOOLEAN : Plan(cmd, ignoring)
  \/ Succeed \/ SucceedUnsaved \/ GiveUp \/ Crash \/ Rest

Spec == Init /\ [][Next]_vars

------------------------------------------------------------------------------

(* A command that succeeded has made the infrastructure what it was asked  *)
(* for, whatever failed, was interrupted or died in the runs before it,    *)
(* and the stored state too, where the run could save it. A unit that a    *)
(* run changed without saving is made good by repeating that command, not  *)
(* after an edit or another command, nor when a run saved the change it    *)
(* was planned for without getting to it (state.go:284); and not a         *)
(* force_apply dependency that was broken off, or applied as the old state *)
(* has it, in another unit's place (unit.go:230): no plan knows of that.   *)
Target(u) == IF done = "apply" THEN desired[u].spec ELSE 0

Converged ==
  done # "none" =>
    \A u \in Units :
      /\ hurt[u] \in {"no", done} => world[u] = Target(u)
      /\ hurt[u] = "no" => stored[u].spec = Target(u) /\ ~stored[u].tainted

(* Between the runs an untainted record tells what is deployed, and what   *)
(* has no record is not deployed, units of unsaved runs, units that        *)
(* --ignore-state forgot and those force_apply dependencies excepted       *)
(* (cluster-state.md:21).                                                  *)
RecordsMatch ==
  run = "none" =>
    \A u \in Units : hurt[u] = "no" /\ ~stored[u].tainted => world[u] = stored[u].spec

(* When a dependency is applied in its turn, however indirect, the units   *)
(* above it are applied after it, unless a run was not carried to its end  *)
(* in between: the next plan does not know any more what it left           *)
(* (state.go:284). What is applied by force_apply excuses those above it.  *)
NotLeftBehind ==
  done = "apply" => behind \cap Present(desired) \subseteq excused

(* The saved state can be loaded again as long as no unit of the project   *)
(* dropped a recorded dependency and no preparation failed: also after     *)
(* failed, interrupted and repeated runs (ulinks.go:39).                   *)
Regular == ~relinked /\ ~unprepared

StateStaysLoadable == Regular => StateLoadable

(* Under the same conditions a unit is destroyed only after everything     *)
(* that was deployed with a dependency on it, by apply as by destroy.      *)
DestroysFollow ==
  [][\A u, v \in Units :
       Regular /\ op[u] = "Destroy" /\ exe[u] # "done" /\ exe'[u] = "done"
         => u \notin own[v].deps]_vars

==============================================================================
