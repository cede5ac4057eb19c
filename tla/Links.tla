-------------------------------- MODULE Links --------------------------------
(***************************************************************************)
(* The links between units and the outputs they carry, over many runs: the *)
(* user writes "output" and "remoteState" functions and depends_on, a plan *)
(* compares the names of the outputs that are asked for and takes the data *)
(* of unchanged units from the state, applied units set the data of the    *)
(* links that point at them, Build puts the data into the units that use   *)
(* them, and UpdateUnit, SaveState and LoadState carry the links over.     *)
(*                                                                         *)
(* Records and the order of execution are those of module Reconcile, a     *)
(* unit is executed in one step. --ignore-state and force_apply are left   *)
(* to that module.                                                         *)
(***************************************************************************)
EXTENDS Naturals

CONSTANTS Units,      \* the keys of all units there may ever be
          Link,       \* the links that the user may ever write
          MayWrite,   \* what the user may write for a unit: a set for each
          MaxEdits,   \* bound on the number of edits
          MaxRuns,    \* bound on the number of runs
          MaxFaults   \* bound on the number of failures of any kind

(* ULinkT: "output" is outputMarkers, "remote" RemoteStateMarkers. A link  *)
(* of depends_on, "custom", has no name, which is a name to GetUnitDiff.   *)
NoName == "none"
ULinkT(l) ==
  /\ l.to \in Units /\ l.kind \in {"output", "remote", "custom"}
  /\ (l.kind = "custom") = (l.name = NoName)

ASSUME LinkAssumption == \A l \in Link : ULinkT(l)

(* What a unit's outputs are depends on what was deployed: its spec and    *)
(* the outputs it was given. NoData is a nil OutputData, Broken what       *)
(* commands that were broken off leave; their specs are nobody's.          *)
NoData == [spec |-> 0, seen |-> {}]
NoLink == [spec |-> 1, seen |-> {}]
Broken == [spec |-> 2, seen |-> {}]

(* spec stands for what GetDiffData compares of the unit besides its       *)
(* links, 0 for a unit that is not there.                                  *)
Config == [spec : Nat \ 0..2, uses : SUBSET Link]
Nothing == [spec |-> 0, uses |-> {}]

ASSUME MayWriteAssumption == MayWrite \in [Units -> SUBSET Config]
ASSUME BoundsAssumption == MaxEdits \in Nat /\ MaxRuns \in Nat /\ MaxFaults \in Nat

VARIABLES
  desired,    \* the project as the user wrote it
  stored,     \* the stateData in the backend: units, links
  own,        \* OwnState of the run
  links,      \* UnitLinks of the project: the data of every link
  deployed,   \* what is deployed of every unit, spec 0 for nothing
  running,    \* the command that is executing, or "none"
  op,         \* Operation of the planned units, "None" for the others
  deps,       \* Dependencies of the planned units
  exe,        \* how far the execution of each unit is
  edits, runs, faults,
  done,       \* the command that has just succeeded, or "none"
  excused,    \* units that an unfinished run may have left behind
  lost,       \* those that a successful run has, which was not saved
  doubtful    \* output links whose data in the state may be old

vars == <<desired, stored, own, links, deployed, running, op, deps, exe,
          edits, runs, faults, done, excused, lost, doubtful>>

Record == [spec : Nat, uses : SUBSET Link, tainted : BOOLEAN]
NoRecord == [spec |-> 0, uses |-> {}, tainted |-> FALSE]

All(S, value) == [s \in S |-> value]
EmptyState == [units |-> All(Units, NoRecord), links |-> All(Link, NoLink)]

Present == {u \in Units : desired[u].spec # 0}
Recorded(state) == {u \in Units : state.units[u].spec # 0}
Exists(list) == {l \in Link : list[l] # NoLink}
ByTargetUnit(u) == {l \in Link : l.to = u}
ByLinkTypes(set, kind) == {l \in set : l.kind = kind}
UniqUnits(set) == {l.to : l \in set}
OutputsOf(set) == {l \in Link : l.kind = "output" /\ l.to \in set}
Known(data) == data \notin {NoLink, NoData}

IsOutput(d) == d.spec \in Nat /\ \A pair \in d.seen : pair[1] \in Link

TypeOK ==
  /\ \A u \in Units : desired[u] \in MayWrite[u] \cup {Nothing}
  /\ \A s \in {stored, own} :
       /\ s.units \in [Units -> Record]
       /\ DOMAIN s.links = Link /\ \A l \in Link : IsOutput(s.links[l])
       /\ \A l \in Exists(s.links) : l.kind # "output" => s.links[l] = NoData
  /\ DOMAIN links = Link /\ \A l \in Link : IsOutput(links[l])
  /\ DOMAIN deployed = Units /\ \A u \in Units : IsOutput(deployed[u])
  /\ running \in {"apply", "destroy", "none"} /\ done \in {"apply", "destroy", "none"}
  /\ op \in [Units -> {"None", "Apply", "Update", "Destroy", "NotChanged"}]
  /\ deps \in [Units -> SUBSET Units]
  /\ exe \in [Units -> {"waiting", "done", "failed", "skipped"}]
  /\ edits \in 0..MaxEdits /\ runs \in 0..MaxRuns /\ faults \in 0..MaxFaults
  /\ excused \in SUBSET Units /\ lost \in SUBSET Units /\ doubtful \in SUBSET Link

(* Prepare: the unit of every link is found, or the project is refused.    *)
OutputsScanner(cfg, u) ==
  \A l \in ByLinkTypes(cfg[u].uses, "output") : cfg[l.to].spec # 0
RemoteStatesScanner(cfg, u) ==
  \A l \in ByLinkTypes(cfg[u].uses, "remote") : cfg[l.to].spec # 0
InitUnitPtr(cfg, u) ==
  \A l \in ByLinkTypes(cfg[u].uses, "custom") : cfg[l.to].spec # 0

(* checkUnitDependencies refuses circles.                                  *)
Loadable(cfg) ==
  /\ \A u \in Units : OutputsScanner(cfg, u) /\ RemoteStatesScanner(cfg, u) /\ InitUnitPtr(cfg, u)
  /\ \A S \in SUBSET Units : S # {} => \E u \in S : UniqUnits(cfg[u].uses) \cap S = {}

Init ==
  /\ desired \in [Units -> (UNION {MayWrite[u] : u \in Units}) \cup {Nothing}]
  /\ \A u \in Units : desired[u] \in MayWrite[u] \cup {Nothing}
  /\ Loadable(desired)
  /\ stored = EmptyState /\ own = EmptyState
  /\ links = All(Link, NoLink)
  /\ deployed = All(Units, NoData)
  /\ running = "none" /\ done = "none"
  /\ op = All(Units, "None") /\ deps = All(Units, {}) /\ exe = All(Units, "waiting")
  /\ edits = 0 /\ runs = 0 /\ faults = 0
  /\ excused = {} /\ lost = {} /\ doubtful = {}

(* The user adds, removes or changes a unit.                               *)
Edit(u) ==
  /\ running = "none" /\ edits < MaxEdits
  /\ \E c \in MayWrite[u] \cup {Nothing} :
       /\ c # desired[u]
       /\ Loadable([desired EXCEPT ![u] = c])
       /\ desired' = [desired EXCEPT ![u] = c]
  /\ edits' = edits + 1
  /\ done' = "none"
  /\ UNCHANGED <<stored, own, links, deployed, running, op, deps, exe, runs,
                 faults, excused, lost, doubtful>>

------------------------------------------------------------------------------
(* Loading and planning.                                                   *)

(* The template functions and readDeps enter every link once, whoever and  *)
(* however many use it; its data is nil.                                   *)
Written == UNION {desired[u].uses : u \in Units}
OutputFunction == ByLinkTypes(Written, "output")
RemoteStateFunction == ByLinkTypes(Written, "remote")
DependsOn == ByLinkTypes(Written, "custom")

Declared == OutputFunction \cup RemoteStateFunction \cup DependsOn

(* LoadState finds the unit of every depends_on, or fails.                 *)
StateLoadable ==
  \A u \in Units : InitUnitPtr(stored.units, u)

(* readDeps of the state's units enters their depends_on among its links.  *)
LoadState ==
  [stored EXCEPT !.links = [l \in Link |->
     IF l.kind = "custom" /\ \E u \in Units : l \in stored.units[u].uses
     THEN NoData ELSE stored.links[l]]]

(* Prepare of a unit of the state: markers whose link is gone stay text.   *)
StateTargets(state, u) ==
  UniqUnits({l \in state.units[u].uses : l.kind = "custom" \/ l \in Exists(state.links)})

(* Seeded fault: the outputs a unit is asked for are not compared.         *)
NoNames(list, u) == {}

(* GetUnitDiff: Outputs, by name, whatever the kind of the link.           *)
OutputNames(list, u) == {l.name : l \in list \cap ByTargetUnit(u)}

(* Markers are compared as references to an output, or as they are when    *)
(* their link is gone.                                                     *)
StateOutputsReplacer(uses, list) ==
  {<<l, l \in list>> : l \in ByLinkTypes(uses, "output")}
StringRemStScanner(uses, list) ==
  {<<l, l \in list>> : l \in ByLinkTypes(uses, "remote")}

(* GetDiffData leaves depends_on out.                                      *)
Marked(uses, list) == StateOutputsReplacer(uses, list) \cup StringRemStScanner(uses, list)

Differs(state, u) ==
  \/ state.units[u].spec # desired[u].spec
  \/ Marked(state.units[u].uses, Exists(state.links)) # Marked(desired[u].uses, Declared)
  \/ OutputNames(Exists(state.links), u) # OutputNames(Declared, u)

(* The units that checkUnitChangesRecursive gets to from u.                *)
Reach(u) ==
  {v \in Units : \A S \in SUBSET Units :
     (UniqUnits(desired[u].uses) \subseteq S
        /\ \A w \in S : UniqUnits(desired[w].uses) \subseteq S) => v \in S}

Dependents(v) == {u \in Units : v \in Reach(u)}

(* checkUnitChangesRecursive                                               *)
DependencyChanged(state, u) == \E v \in Reach(u) : Differs(state, v)

(* buildPlan and CheckUnitChanges                                          *)
ApplyOperation(state, u) ==
  CASE u \in Present /\ u \notin Recorded(state) -> "Apply"
    [] u \in Present /\ u \in Recorded(state) ->
         IF Differs(state, u) \/ state.units[u].tainted \/ DependencyChanged(state, u)
         THEN "Update" ELSE "NotChanged"
    [] u \notin Present /\ u \in Recorded(state) -> "Destroy"
    [] OTHER -> "None"

(* planDestroyAll                                                          *)
DestroyOperation(state, u) == IF u \in Recorded(state) THEN "Destroy" ELSE "None"

(* Seeded fault: the data of an unchanged unit is not taken over.          *)
OnlyDeclared(list) == [l \in Link |-> IF l \in Declared THEN NoData ELSE NoLink]

(* JoinWithDataReplace, for the units that are NotChanged: nil data are    *)
(* filled, missing links are added, all from the state's links.            *)
JoinWithDataReplace(list) ==
  [l \in Link |->
    IF op'[l.to] = "NotChanged" /\ list[l] # NoLink THEN list[l]
    ELSE IF l \in Declared THEN NoData ELSE NoLink]

(* Output links whose data the plan may take from an outdated record: the  *)
(* project does not ask for them at present, or has asked for the same     *)
(* output by another kind of link.                                         *)
Mistaken ==
  {l \in Link : /\ l.kind = "output"
                /\ \/ l \in Exists(stored.links) \ Declared
                   \/ /\ l \in Declared \ Exists(stored.links)
                      /\ \E k \in Exists(stored.links) : k # l /\ k.to = l.to /\ k.name = l.name}

Plan(cmd) ==
  /\ running = "none" /\ runs < MaxRuns
  /\ StateLoadable
  /\ running' = cmd
  /\ own' = LoadState
  /\ op' = [u \in Units |-> IF cmd = "apply" THEN ApplyOperation(own', u)
                                             ELSE DestroyOperation(own', u)]
  /\ deps' = [u \in Units |-> IF op'[u] = "Destroy" THEN StateTargets(own', u)
                                                    ELSE UniqUnits(desired[u].uses)]
  /\ links' = JoinWithDataReplace(own'.links)
  /\ doubtful' = doubtful \cup Mistaken \cup OutputsOf(lost)
  /\ excused' = excused \cup lost /\ lost' = {}
  /\ runs' = runs + 1
  /\ done' = "none"
  /\ UNCHANGED <<desired, stored, deployed, exe, edits, faults>>

------------------------------------------------------------------------------
(* Execution.                                                              *)

Planned == {u \in Units : op[u] \in {"Apply", "Update", "Destroy"}}
Waiting == {u \in Planned : exe[u] \in {"waiting", "failed"}}

MayRun(u) ==
  /\ running # "none"
  /\ u \in Planned /\ exe[u] = "waiting"
  /\ \A v \in Waiting :
       /\ op[u] # "Destroy" => v \notin deps[u]
       /\ op[u] = "Destroy" => u \notin deps[v]

(* Seeded fault: a status outside the enumeration.                         *)
BecomesUnknown(u, how) == exe' = [exe EXCEPT ![u] = "unknown"]

Becomes(u, how) == exe' = [exe EXCEPT ![u] = how]

(* Build puts in the data of an output, a placeholder for nil data. A      *)
(* remote state is only named: it is read when the commands run.           *)
OutputsReplacer(u) ==
  {<<l, links[l]>> : l \in ByLinkTypes(desired[u].uses, "output")}
GenDepsRemoteStates(u) ==
  {<<l, deployed[l.to]>> : l \in ByLinkTypes(desired[u].uses, "remote")}
Deploying(u) ==
  [spec |-> desired[u].spec, seen |-> OutputsReplacer(u) \cup GenDepsRemoteStates(u)]

(* The outputs that the parsers look for, one after the other.             *)
Expected(u) == ByLinkTypes(Exists(links) \cap ByTargetUnit(u), "output")
Parsed(u, set) == links' = [l \in Link |-> IF l \in set THEN Deploying(u) ELSE links[l]]

(* Seeded fault: only links that carry data are joined.                    *)
JoinData(u) ==
  [l \in Link |-> IF l.to = u /\ Known(links'[l]) THEN links'[l] ELSE own.links[l]]

(* UpdateUnit: the links to the unit replace those of the state.           *)
Join(u) ==
  [l \in Link |-> IF l.to = u /\ links'[l] # NoLink THEN links'[l] ELSE own.links[l]]

UpdateUnit(u, failed) ==
  own' = [units |-> [own.units EXCEPT ![u] =
                       [spec |-> desired[u].spec, uses |-> desired[u].uses, tainted |-> failed]],
          links |-> Join(u)]

runData == <<desired, stored, running, op, deps, edits, runs, done, lost>>

(* A unit applied to repair a failure leaves its dependents behind.        *)
Excuse(u) == (excused \ {u}) \cup IF own.units[u].tainted THEN Dependents(u) ELSE {}

Apply(u) ==
  /\ MayRun(u) /\ op[u] # "Destroy"
  /\ Becomes(u, "done")
  /\ deployed' = [deployed EXCEPT ![u] = Deploying(u)]
  /\ Parsed(u, Expected(u))
  /\ UpdateUnit(u, FALSE)
  /\ excused' = Excuse(u)
  /\ doubtful' = doubtful \ Expected(u)
  /\ UNCHANGED <<runData, faults>>

(* The commands are refused or broken off, or an expected output is        *)
(* missing after some were set. The record is tainted; so are nil data     *)
(* written over the ones in the state.                                     *)
FailApply(u) ==
  /\ MayRun(u) /\ op[u] # "Destroy" /\ faults < MaxFaults
  /\ Becomes(u, "failed")
  /\ \/ /\ deployed' \in {deployed, [deployed EXCEPT ![u] = Broken]}
        /\ links' = links
     \/ /\ deployed' = [deployed EXCEPT ![u] = Deploying(u)]
        /\ \E S \in SUBSET Expected(u) : S # Expected(u) /\ Parsed(u, S)
  /\ UpdateUnit(u, TRUE)
  /\ faults' = faults + 1
  /\ UNCHANGED <<runData, excused, doubtful>>

(* DeleteUnit: the links to the unit stay until the state is saved.        *)
Destroy(u) ==
  /\ MayRun(u) /\ op[u] = "Destroy"
  /\ Becomes(u, "done")
  /\ deployed' = [deployed EXCEPT ![u] = NoData]
  /\ own' = [own EXCEPT !.units[u] = NoRecord]
  /\ excused' = excused \ {u}
  /\ UNCHANGED <<runData, links, doubtful, faults>>

FailDestroy(u) ==
  /\ MayRun(u) /\ op[u] = "Destroy" /\ faults < MaxFaults
  /\ Becomes(u, "failed")
  /\ deployed' \in {deployed, [deployed EXCEPT ![u] = Broken]}
  /\ own' = [own EXCEPT !.units[u].tainted = TRUE]
  /\ faults' = faults + 1
  /\ UNCHANGED <<runData, links, excused, doubtful>>

(* Build or init fails: the scheduler takes the unit for finished.         *)
PrepareFails(u) ==
  /\ MayRun(u) /\ faults < MaxFaults
  /\ Becomes(u, "skipped")
  /\ faults' = faults + 1
  /\ UNCHANGED <<runData, deployed, links, own, excused, doubtful>>

------------------------------------------------------------------------------
(* The end of a run.                                                       *)

Reset ==
  /\ running' = "none"
  /\ links' = All(Link, NoLink)
  /\ op' = All(Units, "None") /\ deps' = All(Units, {})
  /\ exe' = All(Units, "waiting")

(* ClearULinks: links without a target unit are not saved.                 *)
ClearULinks(state) ==
  [state EXCEPT !.links = [l \in Link |->
     IF l.to \in Recorded(state) THEN state.links[l] ELSE NoLink]]

Some(how) == \E u \in Planned : exe[u] = how
NotDone == {u \in Planned : exe[u] # "done"}
AndAbove(set) == set \cup UNION {Dependents(u) : u \in set}

(* SaveState, after the last unit or after a failure.                      *)
Save ==
  /\ running # "none"
  /\ stored' = ClearULinks(own) /\ own' = ClearULinks(own)
  /\ excused' = excused \cup AndAbove(NotDone)
  /\ Reset
  /\ UNCHANGED <<desired, deployed, edits, runs, lost, doubtful>>

Succeed ==
  /\ ~Some("waiting") /\ ~Some("failed")
  /\ done' = IF Some("skipped") THEN "none" ELSE running
  /\ Save
  /\ UNCHANGED faults

GiveUp ==
  /\ Some("failed")
  /\ done' = "none"
  /\ Save
  /\ UNCHANGED faults

(* The run is interrupted before its last unit.                            *)
Interrupt ==
  /\ Some("waiting") /\ faults < MaxFaults
  /\ faults' = faults + 1
  /\ done' = "none"
  /\ Save

(* Nothing of the run is written.                                          *)
Unsaved ==
  /\ running # "none" /\ faults < MaxFaults
  /\ own' = stored
  /\ faults' = faults + 1
  /\ Reset
  /\ UNCHANGED <<desired, stored, deployed, edits, runs>>

(* Apply does not look at what SaveState returns after the last unit.      *)
SucceedUnsaved ==
  /\ running = "apply" /\ NotDone = {}
  /\ done' = running
  /\ lost' = AndAbove(Planned)
  /\ Unsaved
  /\ UNCHANGED <<excused, doubtful>>

(* The process dies, or the state cannot be written.                       *)
Crash ==
  /\ done' = "none"
  /\ excused' = excused \cup AndAbove(Planned)
  /\ doubtful' = doubtful \cup OutputsOf(Planned)
  /\ Unsaved
  /\ UNCHANGED lost

Rest == running = "none" /\ UNCHANGED vars

Next ==
  \/ \E u \in Units : \/ Edit(u) \/ Apply(u) \/ FailApply(u)
                      \/ Destroy(u) \/ FailDestroy(u) \/ PrepareFails(u)
  \/ Plan("apply") \/ Plan("destroy")
  \/ Succeed \/ GiveUp \/ Interrupt \/ SucceedUnsaved \/ Crash \/ Rest

Spec == Init /\ [][Next]_vars

------------------------------------------------------------------------------

(* The reference: every unit of the project deployed as it is written,     *)
(* with the outputs its targets have when they are so deployed.            *)
Wanted ==
  LET wanted[u \in Units] ==
        [spec |-> desired[u].spec,
         seen |-> {<<l, wanted[l.to]>> : l \in desired[u].uses \ DependsOn}]
  IN  wanted

Unfinished(u) == ({u} \cup Reach(u)) \cap excused # {}

(* An apply that succeeded leaves every unit deployed with the present     *)
(* outputs of the units it uses, however far away a change was made:       *)
(* outputs of units that did not run come from the state                   *)
(* (commands.go:323), those of the others from their commands. Units that  *)
(* an earlier run left unfinished, or did not save, are excepted until     *)
(* they are applied again (see NotLeftBehind in Reconcile).                *)
OutputsReach ==
  done = "apply" =>
    \A u \in Present : ~Unfinished(u) => deployed[u] = Wanted[u]

(* The same, except for outputs that the project had ceased to ask for, or *)
(* asked for by the other function: they compare equal by name             *)
(* (common/state.go:71), their provider does not run again.                *)
Certain(u) ==
  \A v \in {u} \cup Reach(u) : desired[v].uses \cap doubtful = {}

OutputsAreFresh ==
  done = "apply" =>
    \A u \in Present : ~Unfinished(u) /\ Certain(u) => deployed[u] = Wanted[u]

(* As long as a unit is recorded, the state holds the outputs it uses: its *)
(* destroy commands can be built without placeholders, in this run or in a *)
(* later one. Only the tainted record of a failed provider comes without   *)
(* its outputs.                                                            *)
OutputsAreKept ==
  \A u \in Recorded(own) \ (excused \cup lost) : \A l \in own.units[u].uses :
    l.kind = "output" /\ l.to \in Recorded(own) /\ ~own.units[l.to].tainted
                      /\ exe[l.to] # "skipped" /\ l \notin doubtful
      => Known(own.links[l])

(* Once an apply has succeeded, and did not lose anything by not being     *)
(* saved (commands.go:177), the next one finds nothing to do. Two          *)
(* things differ in every run and are excepted. A link that the project    *)
(* has dropped is never removed while its target lives (state.go:35). And  *)
(* of two links for one output the second, when its provider had no other  *)
(* reason to run, is never joined to the state: the names compare equal    *)
(* (common/state.go:71), the marker of its user stays text.                *)
LeftOver == Exists(LoadState.links) \ Declared
AskedOnce == \A l, k \in Declared : l.to = k.to /\ l.name = k.name => l = k

Settles ==
  done = "apply" /\ lost = {} /\ LeftOver = {} /\ AskedOnce =>
    \A u \in Units : ApplyOperation(LoadState, u) \in {"NotChanged", "None"}

==============================================================================
