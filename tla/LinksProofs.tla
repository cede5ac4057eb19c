------------------------------ MODULE LinksProofs ------------------------------
(***************************************************************************)
(* Proofs about Links: what the state and the project's links hold at any  *)
(* moment is said in terms of the state that the run began with, of the    *)
(* plan, and of how far each unit is. The four invariants of the runs      *)
(* follow from it.                                                         *)
(***************************************************************************)
EXTENDS Links, TLAPS

Changing(u) == op[u] \in {"Apply", "Update"}
Executed(u) == exe[u] \in {"done", "failed"}

Outputs(set) == {l \in set : l.kind = "output"}
Carrying(set) == {l \in set : l.kind # "custom"}

(* Between runs nothing is planned.                                        *)
IdleInv ==
  running = "none" =>
    /\ own = stored
    /\ op = All(Units, "None") /\ deps = All(Units, {}) /\ exe = All(Units, "waiting")

(* The plan was made from the state that is still in the backend.          *)
PlanInv ==
  running # "none" =>
    /\ done = "none" /\ lost = {}
    /\ op = [u \in Units |-> IF running = "apply" THEN ApplyOperation(LoadState, u)
                                                  ELSE DestroyOperation(LoadState, u)]
    /\ deps = [u \in Units |-> IF op[u] = "Destroy" THEN StateTargets(LoadState, u)
                                                    ELSE UniqUnits(desired[u].uses)]
    /\ \A u \in Units : u \notin Planned => exe[u] = "waiting"

(* What the run has made of the state.                                     *)
RunRecord(u) ==
  IF ~Executed(u) THEN stored.units[u]
  ELSE IF Changing(u)
    THEN [spec |-> desired[u].spec, uses |-> desired[u].uses, tainted |-> exe[u] = "failed"]
  ELSE IF exe[u] = "done" THEN NoRecord ELSE [stored.units[u] EXCEPT !.tainted = TRUE]

RunLink(l) ==
  IF Changing(l.to) /\ Executed(l.to) /\ links[l] # NoLink
  THEN links[l] ELSE LoadState.links[l]

OwnInv ==
  running # "none" =>
    own = [units |-> [u \in Units |-> RunRecord(u)], links |-> [l \in Link |-> RunLink(l)]]

(* The data the plan gave to a link.                                       *)
JoinedLink(l) ==
  IF op[l.to] = "NotChanged" /\ LoadState.links[l] # NoLink THEN LoadState.links[l]
  ELSE IF l \in Declared THEN NoData ELSE NoLink

Refreshed(l) == l \in Declared /\ Changing(l.to) /\ exe[l.to] = "done"

LinkInv ==
  running # "none" =>
    \A l \in Link :
      /\ links[l] = NoLink <=> JoinedLink(l) = NoLink
      /\ ~(Changing(l.to) /\ Executed(l.to)) => links[l] = JoinedLink(l)
      /\ l.kind # "output" => links[l] \in {NoData, NoLink}
      /\ l.kind = "output" /\ Refreshed(l) => links[l] = deployed[l.to]

(* Nothing that an executed unit of the project uses is still to come.     *)
OrderInv ==
  running # "none" =>
    \A u \in Units : exe[u] # "waiting" /\ op[u] # "Destroy" => deps[u] \cap Waiting = {}

DoubtInv ==
  /\ doubtful \subseteq Outputs(Link)
  /\ running # "none" => \A l \in Mistaken : l \in doubtful \/ Refreshed(l)

(* The units whose record says less than was done.                         *)
Left == excused \cup lost

(* What was lost of a unit was lost of all that use it.                    *)
LostInv ==
  \A u \in Recorded(stored) \ lost : \A l \in Carrying(stored.units[u].uses) : l.to \notin lost

(* Of the stored state: outputs are those of what is deployed ...          *)
FreshInv ==
  \A l \in Outputs(Link) :
    (l.to \in Recorded(stored) /\ ~stored.units[l.to].tainted /\ ~Executed(l.to)
       /\ l \in Exists(stored.links) /\ l \notin doubtful /\ l.to \notin lost)
    => stored.links[l] = deployed[l.to] /\ Known(stored.links[l])

(* ... links are there for as long as they are used ...                    *)
HeldInv ==
  \A u \in Recorded(stored) \ Left : exe[u] # "done" =>
    \A l \in Outputs(stored.units[u].uses) :
      l \in Exists(stored.links) \/ l \in doubtful \/ Refreshed(l)

(* ... and what is deployed of a unit was made with them. So is what the   *)
(* run deploys, unless a unit it uses could not be prepared.               *)
Built(spec, uses) ==
  [spec |-> spec, seen |-> {<<l, deployed[l.to]>> : l \in Carrying(uses)}]

Undisturbed(u) ==
  /\ u \notin Planned /\ ~stored.units[u].tainted
  /\ stored.units[u].uses \cap doubtful = {}
  /\ \A l \in Carrying(stored.units[u].uses) : exe[l.to] # "failed"

WellSupplied(u) ==
  /\ desired[u].uses \cap doubtful = {}
  /\ \A l \in Carrying(desired[u].uses) : exe[l.to] # "skipped"

BuiltInv ==
  /\ \A u \in Recorded(stored) \ Left :
       Undisturbed(u) => deployed[u] = Built(stored.units[u].spec, stored.units[u].uses)
  /\ \A u \in Units : Changing(u) /\ exe[u] = "done" =>
       /\ deployed[u].spec = desired[u].spec
       /\ WellSupplied(u) => deployed[u] = Built(desired[u].spec, desired[u].uses)

(* The shape of the data.                                                  *)
ShapeInv ==
  /\ desired \in [Units -> Config \cup {Nothing}]
  /\ stored = [units |-> stored.units, links |-> [l \in Link |-> stored.links[l]]]
  /\ links = [l \in Link |-> links[l]]
  /\ deployed = [u \in Units |-> deployed[u]]

(* What a successful apply leaves behind, and in the state if it is saved. *)
AsWritten ==
  \A u \in Present : u \notin excused /\ desired[u].uses \cap doubtful = {} =>
    deployed[u] = Built(desired[u].spec, desired[u].uses)

Records(units, list) ==
  /\ \A u \in Units : units[u].spec # 0 <=> u \in Present
  /\ \A u \in Present :
       /\ units[u].spec = desired[u].spec /\ ~units[u].tainted
       /\ Carrying(units[u].uses) = Carrying(desired[u].uses)
  /\ \A l \in Declared : \E k \in Exists(list) : k.to = l.to /\ k.name = l.name

DoneInv ==
  done = "apply" =>
    /\ running = "none" /\ AsWritten
    /\ lost = {} => Records(stored.units, LoadState.links)

IInv ==
  /\ TypeOK /\ Loadable(desired)
  /\ ShapeInv /\ IdleInv /\ PlanInv /\ OwnInv /\ LinkInv /\ OrderInv
  /\ DoubtInv /\ LostInv /\ FreshInv /\ HeldInv /\ BuiltInv
  /\ DoneInv
------------------------------------------------------------------------------
(* The project as it is written.                                           *)

Sane == desired \in [Units -> Config \cup {Nothing}] /\ Loadable(desired)

(* Every link that is used is among those of the project, and its target   *)
(* is a unit of the project other than its user.                           *)
LEMMA UsesAreLinks ==
  ASSUME Sane
  PROVE  /\ \A l \in Link : /\ l.to \in Units /\ l.kind \in {"output", "remote", "custom"}
                            /\ (l.kind = "custom") = (l.name = NoName)
         /\ \A u \in Units : desired[u].uses \subseteq Link
         /\ \A u \in Present : desired[u].spec \in Nat \ 0..2
         /\ \A u \in Units : desired[u].spec \in Nat
         /\ \A u \in Units : u \notin Present => desired[u].uses = {}
<1>1. \A l \in Link : /\ l.to \in Units /\ l.kind \in {"output", "remote", "custom"}
                      /\ (l.kind = "custom") = (l.name = NoName)
  BY LinkAssumption DEF ULinkT
<1>2. \A u \in Units : desired[u] \in Config \/ desired[u] = Nothing
  BY DEF Sane
<1> QED BY <1>1, <1>2 DEF Config, Nothing, Present

LEMMA TargetsPresent ==
  ASSUME Sane, NEW u \in Units, NEW l \in desired[u].uses
  PROVE  l \in Link /\ l \in Declared /\ l.to \in Present /\ l.to # u /\ u \in Present
<1>1. l \in Link /\ l.to \in Units /\ l.kind \in {"output", "remote", "custom"} /\ u \in Present
  BY UsesAreLinks
<1>2. l \in Written
  BY DEF Written
<1>3. l \in Declared
  BY <1>1, <1>2 DEF Declared, OutputFunction, RemoteStateFunction, DependsOn, ByLinkTypes
<1>4. desired[l.to].spec # 0
  BY <1>1 DEF Sane, Loadable, OutputsScanner, RemoteStatesScanner, InitUnitPtr, ByLinkTypes
<1>5. l.to # u
  <2>1. \E v \in {u} : UniqUnits(desired[v].uses) \cap {u} = {}
    <3>1. {u} \in SUBSET Units /\ {u} # {}
      OBVIOUS
    <3> QED BY <3>1 DEF Sane, Loadable
  <2> QED BY <2>1 DEF UniqUnits
<1> QED BY <1>1, <1>3, <1>4, <1>5 DEF Present

LEMMA DeclaredPresent ==
  ASSUME Sane
  PROVE  /\ \A l \in Declared : l \in Link /\ l.to \in Present
         /\ \A l : l \in Declared <=> \E u \in Units : l \in desired[u].uses
<1>1. ASSUME NEW l \in Declared PROVE \E u \in Units : l \in desired[u].uses
  BY <1>1 DEF Declared, OutputFunction, RemoteStateFunction, DependsOn, ByLinkTypes, Written
<1> QED BY <1>1, TargetsPresent

(* Reach: the least set that follows the links.                            *)
LEMMA ReachIsLeast ==
  ASSUME NEW u \in Units, NEW S \in SUBSET Units,
         UniqUnits(desired[u].uses) \subseteq S,
         \A w \in S : UniqUnits(desired[w].uses) \subseteq S
  PROVE  Reach(u) \subseteq S
BY DEF Reach

LEMMA ReachFollows ==
  ASSUME Sane, NEW u \in Units
  PROVE  /\ Reach(u) \subseteq Units
         /\ UniqUnits(desired[u].uses) \subseteq Reach(u)
         /\ \A v \in Reach(u) : UniqUnits(desired[v].uses) \subseteq Reach(u)
<1>1. \A w \in Units : UniqUnits(desired[w].uses) \subseteq Units
  BY TargetsPresent DEF UniqUnits, Present
<1> QED BY <1>1 DEF Reach

LEMMA ReachIsTransitive ==
  ASSUME Sane, NEW u \in Units, NEW v \in Reach(u)
  PROVE  Reach(v) \subseteq Reach(u)
<1>1. v \in Units /\ Reach(u) \in SUBSET Units
  BY ReachFollows
<1> QED BY <1>1, ReachFollows, ReachIsLeast

LEMMA ReachIsPresent ==
  ASSUME Sane, NEW u \in Units
  PROVE  Reach(u) \subseteq Present
<1>1. Present \in SUBSET Units
  BY DEF Present
<1>2. \A w \in Units : UniqUnits(desired[w].uses) \subseteq Present
  BY TargetsPresent DEF UniqUnits
<1> QED BY <1>1, <1>2, ReachIsLeast

LEMMA UsersDepend ==
  ASSUME Sane, NEW u \in Units, NEW l \in desired[u].uses
  PROVE  l.to \in Reach(u) /\ u \in Dependents(l.to)
BY ReachFollows DEF UniqUnits, Dependents

(* What differs below a unit that is used differs below the user, too.     *)
LEMMA ChangesReach ==
  ASSUME Sane, NEW u \in Units, NEW v \in Reach(u), NEW state,
         Differs(state, v) \/ DependencyChanged(state, v)
  PROVE  DependencyChanged(state, u)
BY ReachIsTransitive DEF DependencyChanged
------------------------------------------------------------------------------
(* The plan.                                                               *)

LEMMA LoadedState ==
  ASSUME TypeOK, ShapeInv
  PROVE  /\ LoadState = [units |-> stored.units, links |-> LoadState.links]
         /\ LoadState.units = stored.units
         /\ LoadState.links = [l \in Link |-> LoadState.links[l]]
         /\ \A l \in Link : /\ IsOutput(LoadState.links[l])
                            /\ l.kind # "custom" => LoadState.links[l] = stored.links[l]
                            /\ l \in Exists(stored.links) => LoadState.links[l] # NoLink
                            /\ l.kind # "output" => LoadState.links[l] \in {NoData, NoLink}
<1> DEFINE S == stored.units
           K == [l \in Link |-> IF l.kind = "custom" /\ \E u \in Units : l \in stored.units[u].uses
                                THEN NoData ELSE stored.links[l]]
<1>1. stored = [units |-> S, links |-> stored.links]
  BY DEF ShapeInv
<1>2. LoadState = [units |-> S, links |-> K]
  BY <1>1 DEF LoadState
<1>3. LoadState.units = S /\ LoadState.links = K
  BY <1>2
<1>4. \A l \in Link : IsOutput(stored.links[l])
                      /\ (l.kind # "output" /\ stored.links[l] # NoLink => stored.links[l] = NoData)
  BY DEF TypeOK, Exists
<1>5. IsOutput(NoData) /\ NoData # NoLink
  BY DEF IsOutput, NoData, NoLink
<1>6. \A l \in Link : LoadState.links[l] =
        IF l.kind = "custom" /\ \E u \in Units : l \in stored.units[u].uses THEN NoData ELSE stored.links[l]
  BY <1>3
<1>7. LoadState.links = [l \in Link |-> LoadState.links[l]]
  BY <1>3
<1>8. ASSUME NEW l \in Link
      PROVE  /\ IsOutput(LoadState.links[l])
             /\ l.kind # "custom" => LoadState.links[l] = stored.links[l]
             /\ l \in Exists(stored.links) => LoadState.links[l] # NoLink
             /\ l.kind # "output" => LoadState.links[l] \in {NoData, NoLink}
  BY <1>4, <1>5, <1>6 DEF Exists
<1> QED BY <1>2, <1>3, <1>7, <1>8

(* What an operation tells of its unit.                                    *)
LEMMA OperationMeans ==
  ASSUME TypeOK, ShapeInv, PlanInv, running # "none", NEW u \in Units
  PROVE  /\ Changing(u) => running = "apply" /\ u \in Present
         /\ op[u] = "Update" => \/ Differs(LoadState, u) \/ stored.units[u].tainted
                                \/ DependencyChanged(LoadState, u)
         /\ op[u] = "Apply" => Differs(LoadState, u)
         /\ op[u] = "NotChanged" =>
              /\ running = "apply" /\ u \in Present /\ u \in Recorded(stored)
              /\ ~Differs(LoadState, u) /\ ~stored.units[u].tainted
              /\ ~DependencyChanged(LoadState, u)
         /\ op[u] \in {"Destroy", "None"} /\ running = "apply" => u \notin Present
         /\ op[u] = "None" => u \notin Recorded(stored)
         /\ op[u] = "Destroy" => u \in Recorded(stored)
         /\ u \notin Planned <=> op[u] \in {"None", "NotChanged"}
         /\ u \in Planned <=> Changing(u) \/ op[u] = "Destroy"
<1>1. LoadState.units = stored.units
  BY LoadedState
<1>2. op[u] \in {"None", "Apply", "Update", "Destroy", "NotChanged"}
  BY DEF TypeOK
<1>3. u \in Recorded(LoadState) <=> u \in Recorded(stored)
  BY <1>1 DEF Recorded
<1>4. (u \notin Planned <=> op[u] \in {"None", "NotChanged"})
      /\ (u \in Planned <=> Changing(u) \/ op[u] = "Destroy")
  BY <1>2 DEF Planned, Changing
<1>5. CASE running = "apply"
  <2>1. op[u] = ApplyOperation(LoadState, u)
    BY <1>5 DEF PlanInv
  <2>2. u \in Present /\ u \notin Recorded(stored) => op[u] = "Apply" /\ Differs(LoadState, u)
    <3>1. u \in Present /\ u \notin Recorded(stored) => op[u] = "Apply"
      BY <2>1, <1>3 DEF ApplyOperation
    <3> QED BY <3>1, <1>1 DEF Differs, Present, Recorded
  <2>3. u \in Present /\ u \in Recorded(stored) =>
          op[u] = IF Differs(LoadState, u) \/ stored.units[u].tainted \/ DependencyChanged(LoadState, u)
                  THEN "Update" ELSE "NotChanged"
    BY <2>1, <1>1, <1>3 DEF ApplyOperation
  <2>4. u \notin Present => op[u] = IF u \in Recorded(stored) THEN "Destroy" ELSE "None"
    BY <2>1, <1>3 DEF ApplyOperation
  <2> QED BY <1>4, <1>5, <2>2, <2>3, <2>4 DEF Changing
<1>6. CASE running # "apply"
  <2>1. op[u] = IF u \in Recorded(stored) THEN "Destroy" ELSE "None"
    BY <1>3, <1>6 DEF PlanInv, DestroyOperation
  <2> QED BY <1>4, <1>6, <2>1 DEF Changing
<1> QED BY <1>5, <1>6

(* A unit that is not planned to change is recorded as it is written.      *)
LEMMA UnchangedIsAsWritten ==
  ASSUME TypeOK, ShapeInv, Sane, PlanInv, running # "none",
         NEW u \in Units, op[u] = "NotChanged"
  PROVE  /\ stored.units[u].spec = desired[u].spec
         /\ Carrying(stored.units[u].uses) = Carrying(desired[u].uses)
         /\ \A l \in Carrying(desired[u].uses) : l \in Exists(stored.links)
<1>1. ~Differs(LoadState, u) /\ LoadState.units = stored.units
  BY OperationMeans, LoadedState
<1>2. stored.units[u].spec = desired[u].spec
      /\ Marked(stored.units[u].uses, Exists(LoadState.links)) = Marked(desired[u].uses, Declared)
  BY <1>1 DEF Differs
<1>3. \A uses, list : Marked(uses, list) = {<<l, l \in list>> : l \in ByLinkTypes(uses, "output")}
                        \cup {<<l, l \in list>> : l \in ByLinkTypes(uses, "remote")}
  BY DEF Marked, StateOutputsReplacer, StringRemStScanner
<1>4. stored.units[u].uses \subseteq Link /\ desired[u].uses \subseteq Link
  BY UsesAreLinks DEF TypeOK, Record
<1>5. ASSUME NEW uses \in SUBSET Link
      PROVE  Carrying(uses) = ByLinkTypes(uses, "output") \cup ByLinkTypes(uses, "remote")
  <2>1. \A k \in uses : k.kind # "custom" <=> k.kind = "output" \/ k.kind = "remote"
    BY UsesAreLinks
  <2> QED BY <2>1 DEF Carrying, ByLinkTypes
<1>6. ASSUME NEW uses \in SUBSET Link, NEW list, NEW l, NEW b, <<l, b>> \in Marked(uses, list)
      PROVE  l \in Carrying(uses) /\ (b = TRUE => l \in list)
  <2>1. \E k \in Carrying(uses) : <<l, b>> = <<k, k \in list>>
    BY <1>3, <1>5, <1>6
  <2>2. PICK k \in Carrying(uses) : <<l, b>> = <<k, k \in list>>
    BY <2>1
  <2>3. l = k /\ b = (k \in list)
    BY <2>2
  <2>4. b = TRUE => k \in list
    BY <2>3, Zenon
  <2> QED BY <2>3, <2>4
<1>7. ASSUME NEW uses \in SUBSET Link, NEW list, NEW l \in Carrying(uses)
      PROVE  /\ \E b : <<l, b>> \in Marked(uses, list)
             /\ l \in list => <<l, TRUE>> \in Marked(uses, list)
  <2>1. <<l, l \in list>> \in Marked(uses, list)
    BY <1>3, <1>5
  <2>2. l \in list => (l \in list) = TRUE
    OBVIOUS
  <2> QED BY <2>1, <2>2
<1>8. ASSUME NEW l \in Carrying(desired[u].uses)
      PROVE  l \in Carrying(stored.units[u].uses) /\ l \in Exists(LoadState.links)
  <2>1. l \in Declared
    BY TargetsPresent DEF Carrying
  <2>2. <<l, TRUE>> \in Marked(stored.units[u].uses, Exists(LoadState.links))
    BY <1>2, <1>4, <1>7, <2>1
  <2> QED BY <1>4, <1>6, <2>2
<1>9. ASSUME NEW l \in Carrying(stored.units[u].uses)
      PROVE  l \in Carrying(desired[u].uses)
  <2>1. PICK b : <<l, b>> \in Marked(stored.units[u].uses, Exists(LoadState.links))
    BY <1>4, <1>7
  <2>2. <<l, b>> \in Marked(desired[u].uses, Declared)
    BY <1>2, <2>1
  <2> QED BY <1>4, <1>6, <2>2
<1>10. \A l \in Carrying(desired[u].uses) : l \in Exists(stored.links)
  BY <1>4, <1>8, LoadedState DEF Exists, Carrying
<1> QED BY <1>2, <1>8, <1>9, <1>10

(* The units whose data a unit uses that the plan leaves alone.            *)
LEMMA UnchangedStands ==
  ASSUME TypeOK, ShapeInv, Sane, PlanInv, running # "none",
         NEW u \in Units, op[u] = "NotChanged", NEW l \in Carrying(stored.units[u].uses)
  PROVE  /\ l \in desired[u].uses /\ l.to \in Present /\ l.to \in Recorded(stored)
         /\ running = "apply" /\ l.to # u
         /\ op[l.to] = "NotChanged" \/ (op[l.to] = "Update" /\ stored.units[l.to].tainted)
<1>1. l \in desired[u].uses
  BY UnchangedIsAsWritten DEF Carrying
<1>2. l.to \in Present /\ l.to \in Units /\ l.to # u /\ l.to \in Reach(u)
  BY <1>1, TargetsPresent, UsersDepend DEF Present
<1>3. ~DependencyChanged(LoadState, u) /\ running = "apply"
  BY OperationMeans
<1>4. ~Differs(LoadState, l.to) /\ ~DependencyChanged(LoadState, l.to)
  BY <1>2, <1>3, ChangesReach DEF DependencyChanged
<1>5. l.to \in Recorded(stored)
  BY <1>2, <1>4, LoadedState DEF Differs, Recorded, Present
<1>6. op[l.to] \in {"None", "Apply", "Update", "Destroy", "NotChanged"}
  BY <1>2 DEF TypeOK
<1> QED BY <1>1, <1>2, <1>3, <1>4, <1>5, <1>6, OperationMeans
------------------------------------------------------------------------------
(* The steps of the execution. All five change one unit that was waiting,  *)
(* and nothing of the user's, the plan's or the stored state's.            *)

Given(l) == IF l \in Expected(l.to) THEN Deploying(l.to) ELSE links[l]

Effect(u, how) ==
  /\ running # "none" /\ u \in Planned /\ exe[u] = "waiting"
  /\ op[u] # "Destroy" => deps[u] \cap Waiting = {}
  /\ how \in {"done", "failed", "skipped"} /\ exe' = [exe EXCEPT ![u] = how]
  /\ UNCHANGED runData /\ faults' \in 0..MaxFaults
  /\ deployed' = [deployed EXCEPT ![u] = deployed'[u]] /\ IsOutput(deployed'[u])
  /\ how = "skipped" => deployed' = deployed
  /\ Changing(u) /\ how = "done" => deployed'[u] = Deploying(u)
  /\ links' = [l \in Link |-> links'[l]]
  /\ \A l \in Link :
       /\ links'[l] = links[l] \/ (l.to = u /\ links'[l] = Given(l))
       /\ ~(Changing(u) /\ how \in {"done", "failed"}) => links'[l] = links[l]
       /\ Changing(u) /\ how = "done" /\ l.to = u => links'[l] = Given(l)
  /\ own' = [units |-> [own.units EXCEPT ![u] = RunRecord(u)'],
             links |-> [l \in Link |->
               IF Changing(u) /\ how \in {"done", "failed"} /\ l.to = u /\ links'[l] # NoLink
               THEN links'[l] ELSE own.links[l]]]
  /\ excused' \in SUBSET Units /\ excused \ {u} \subseteq excused'
  /\ how # "done" => excused' = excused
  /\ Changing(u) /\ how = "done" /\ stored.units[u].tainted => Dependents(u) \subseteq excused'
  /\ doubtful' = doubtful \ (IF Changing(u) /\ how = "done" THEN Expected(u) ELSE {})

LEMMA RunStays ==
  ASSUME UNCHANGED runData
  PROVE  /\ Sane' = Sane /\ Declared' = Declared /\ Mistaken' = Mistaken
         /\ LoadState' = LoadState /\ Present' = Present /\ Planned' = Planned
         /\ Recorded(stored)' = Recorded(stored)
         /\ \A u : Changing(u)' = Changing(u) /\ ApplyOperation(LoadState, u)' = ApplyOperation(LoadState, u)
         /\ \A u : DestroyOperation(LoadState, u)' = DestroyOperation(LoadState, u)
         /\ \A u : StateTargets(LoadState, u)' = StateTargets(LoadState, u)
         /\ \A l : JoinedLink(l)' = JoinedLink(l)
<1>1. Sane' = Sane /\ Present' = Present /\ Recorded(stored)' = Recorded(stored)
  BY DEF runData, Sane, Loadable, OutputsScanner, RemoteStatesScanner, InitUnitPtr, Present, Recorded
<1>2. Declared' = Declared
  BY DEF runData, Declared, OutputFunction, RemoteStateFunction, DependsOn, Written
<1>3. LoadState' = LoadState
  BY DEF runData, LoadState
<1>4. \A u : Changing(u)' = Changing(u)
  BY DEF runData, Changing
<1>5. Planned' = Planned
  BY DEF runData, Planned
<1>6. \A u : Differs(LoadState, u)' = Differs(LoadState, u)
  BY <1>2, <1>3 DEF runData, Differs
<1>7. \A u : Reach(u)' = Reach(u)
  BY DEF runData, Reach
<1>8. \A u : DependencyChanged(LoadState, u)' = DependencyChanged(LoadState, u)
  BY <1>6, <1>7 DEF DependencyChanged
<1>9. \A u : ApplyOperation(LoadState, u)' = ApplyOperation(LoadState, u)
  BY <1>1, <1>3, <1>6, <1>8 DEF ApplyOperation
<1>10. \A u : DestroyOperation(LoadState, u)' = DestroyOperation(LoadState, u)
  BY <1>3 DEF DestroyOperation
<1>11. \A u : StateTargets(LoadState, u)' = StateTargets(LoadState, u)
  BY <1>3 DEF StateTargets
<1>12. Mistaken' = Mistaken
  BY <1>2 DEF runData, Mistaken
<1>13. \A l : JoinedLink(l)' = JoinedLink(l)
  BY <1>2, <1>3 DEF runData, JoinedLink
<1> QED BY <1>1, <1>2, <1>3, <1>4, <1>5, <1>9, <1>10, <1>11, <1>12, <1>13

(* While the unit is waiting its record is the stored one, and the links   *)
(* to it are as the plan left them.                                        *)
LEMMA WaitingIsUntouched ==
  ASSUME IInv, running # "none", NEW u \in Units, exe[u] = "waiting"
  PROVE  /\ own = [units |-> own.units, links |-> own.links]
         /\ own.units = [v \in Units |-> own.units[v]]
         /\ own.links = [l \in Link |-> own.links[l]]
         /\ own.units[u] = stored.units[u]
         /\ \A l \in Link : l.to = u => links[l] = JoinedLink(l) /\ own.links[l] = LoadState.links[l]
<1>1. own = [units |-> [v \in Units |-> RunRecord(v)], links |-> [l \in Link |-> RunLink(l)]]
  BY DEF IInv, OwnInv
<1>2. own.units[u] = RunRecord(u) /\ \A l \in Link : own.links[l] = RunLink(l)
  BY <1>1
<1>3. ~Executed(u)
  BY DEF Executed
<1>4. \A l \in Link : l.to = u => links[l] = JoinedLink(l)
  BY <1>3 DEF IInv, LinkInv
<1>5. own.units[u] = stored.units[u]
  BY <1>2, <1>3 DEF RunRecord
<1>6. \A l \in Link : l.to = u => own.links[l] = LoadState.links[l]
  BY <1>2, <1>3 DEF RunLink
<1>7. own = [units |-> own.units, links |-> own.links]
  BY <1>1
<1>8. own.units = [v \in Units |-> own.units[v]]
  BY <1>1
<1>9. own.links = [l \in Link |-> own.links[l]]
  BY <1>1
<1> QED BY <1>4, <1>5, <1>6, <1>7, <1>8, <1>9

LEMMA DeployingIsOutput ==
  ASSUME IInv, Sane, NEW u \in Units
  PROVE  /\ IsOutput(Deploying(u)) /\ Deploying(u).spec = desired[u].spec
         /\ u \in Present => Deploying(u) # NoLink /\ Known(Deploying(u))
<1>1. Deploying(u) = [spec |-> desired[u].spec, seen |-> OutputsReplacer(u) \cup GenDepsRemoteStates(u)]
  BY DEF Deploying
<1>2. desired[u].uses \subseteq Link /\ desired[u].spec \in Nat
      /\ (u \in Present => desired[u].spec \in Nat \ 0..2)
  BY UsesAreLinks
<1>3. \A pair \in OutputsReplacer(u) \cup GenDepsRemoteStates(u) : pair[1] \in Link
  BY <1>2 DEF OutputsReplacer, GenDepsRemoteStates, ByLinkTypes
<1>4. Deploying(u).spec = desired[u].spec
      /\ Deploying(u).seen = OutputsReplacer(u) \cup GenDepsRemoteStates(u)
  BY <1>1
<1>5. IsOutput(Deploying(u))
  BY <1>2, <1>3, <1>4 DEF IsOutput
<1>6. NoLink.spec = 1 /\ NoData.spec = 0
  BY DEF NoLink, NoData
<1>7. u \in Present => Deploying(u) # NoLink /\ Known(Deploying(u))
  BY <1>2, <1>4, <1>6 DEF Known
<1> QED BY <1>4, <1>5, <1>7
(* What the five have in common.                                           *)
LEMMA MayRunFacts ==
  ASSUME IInv, NEW u \in Units, MayRun(u)
  PROVE  /\ running # "none" /\ u \in Planned /\ exe[u] = "waiting"
         /\ op[u] # "Destroy" => deps[u] \cap Waiting = {}
         /\ Changing(u) \/ op[u] = "Destroy"
         /\ op[u] # "Destroy" => Changing(u) /\ u \in Present
         /\ op[u] = "Destroy" => ~Changing(u)
         /\ Sane /\ Executed(u)' = (exe'[u] \in {"done", "failed"})
         /\ deployed = [v \in Units |-> deployed[v]] /\ links = [l \in Link |-> links[l]]
         /\ \A v \in Units : IsOutput(deployed[v])
         /\ \A l \in Link : IsOutput(links[l])
         /\ excused \in SUBSET Units /\ exe \in [Units -> {"waiting", "done", "failed", "skipped"}]
         /\ faults \in 0..MaxFaults
         /\ own.units[u] = stored.units[u]
         /\ own = [units |-> own.units, links |-> own.links]
         /\ own.units = [v \in Units |-> own.units[v]]
         /\ own.links = [l \in Link |-> own.links[l]]
<1>1. running # "none" /\ u \in Planned /\ exe[u] = "waiting"
      /\ (op[u] # "Destroy" => deps[u] \cap Waiting = {})
  BY DEF MayRun
<1>2. TypeOK /\ ShapeInv /\ PlanInv /\ Sane
  BY DEF IInv, ShapeInv, Sane
<1>3. (Changing(u) \/ op[u] = "Destroy") /\ (Changing(u) => u \in Present)
  BY <1>1, <1>2, OperationMeans
<1>4. op[u] = "Destroy" => ~Changing(u)
  BY DEF Changing
<1>5. Executed(u)' = (exe'[u] \in {"done", "failed"})
  BY DEF Executed
<1>6. deployed = [v \in Units |-> deployed[v]] /\ links = [l \in Link |-> links[l]]
  BY <1>2 DEF ShapeInv
<1>7. /\ \A v \in Units : IsOutput(deployed[v])
      /\ \A l \in Link : IsOutput(links[l])
      /\ excused \in SUBSET Units /\ exe \in [Units -> {"waiting", "done", "failed", "skipped"}]
      /\ faults \in 0..MaxFaults
  BY <1>2 DEF TypeOK
<1> QED BY <1>1, <1>2, <1>3, <1>4, <1>5, <1>6, <1>7, WaitingIsUntouched

LEMMA OneMoreFault ==
  ASSUME IInv, faults < MaxFaults, faults' = faults + 1
  PROVE  faults' \in 0..MaxFaults
<1>1. faults \in 0..MaxFaults
  BY DEF IInv, TypeOK
<1> QED BY <1>1, BoundsAssumption

(* The state of a run that is changed in its records only.                 *)
LEMMA RecordsOnly ==
  ASSUME IInv, NEW u \in Units, MayRun(u), NEW how,
         own' = [units |-> [own.units EXCEPT ![u] = RunRecord(u)'], links |-> own.links],
         ~(Changing(u) /\ how \in {"done", "failed"})
  PROVE  own' = [units |-> [own.units EXCEPT ![u] = RunRecord(u)'],
                 links |-> [l \in Link |->
                   IF Changing(u) /\ how \in {"done", "failed"} /\ l.to = u /\ links'[l] # NoLink
                   THEN links'[l] ELSE own.links[l]]]
<1>1. own.links = [l \in Link |-> own.links[l]]
  BY MayRunFacts
<1>2. [l \in Link |-> IF Changing(u) /\ how \in {"done", "failed"} /\ l.to = u /\ links'[l] # NoLink
                     THEN links'[l] ELSE own.links[l]] = [l \in Link |-> own.links[l]]
  OBVIOUS
<1> QED BY <1>1, <1>2

LEMMA SavedBy ==
  ASSUME IInv, NEW u \in Units, MayRun(u), op[u] # "Destroy", NEW failed \in BOOLEAN,
         UpdateUnit(u, failed), UNCHANGED runData,
         exe' = [exe EXCEPT ![u] = IF failed THEN "failed" ELSE "done"]
  PROVE  own' = [units |-> [own.units EXCEPT ![u] = RunRecord(u)'],
                 links |-> [l \in Link |-> IF l.to = u /\ links'[l] # NoLink
                                           THEN links'[l] ELSE own.links[l]]]
<1>1. exe'[u] = IF failed THEN "failed" ELSE "done"
  BY MayRunFacts
<1>2. Executed(u)' /\ Changing(u)' /\ desired' = desired
  BY <1>1, MayRunFacts DEF Executed, Changing, runData
<1>3. RunRecord(u)' =
        [spec |-> desired[u].spec, uses |-> desired[u].uses, tainted |-> exe'[u] = "failed"]
  BY <1>2 DEF RunRecord
<1>4. (exe'[u] = "failed") = failed
  BY <1>1
<1>5. RunRecord(u)' = [spec |-> desired[u].spec, uses |-> desired[u].uses, tainted |-> failed]
  BY <1>3, <1>4, Zenon
<1> QED BY <1>5 DEF UpdateUnit, Join

LEMMA ApplyHas ==
  ASSUME IInv, NEW u \in Units, Apply(u)
  PROVE  Effect(u, "done")
<1>1. MayRun(u) /\ op[u] # "Destroy" /\ Parsed(u, Expected(u)) /\ UpdateUnit(u, FALSE)
      /\ UNCHANGED runData /\ faults' = faults
      /\ exe' = [exe EXCEPT ![u] = "done"]
      /\ deployed' = [deployed EXCEPT ![u] = Deploying(u)]
      /\ excused' = Excuse(u) /\ doubtful' = doubtful \ Expected(u)
  BY DEF Apply, Becomes
<1>2. Changing(u)
  BY <1>1, MayRunFacts
<1>3. deployed'[u] = Deploying(u) /\ IsOutput(Deploying(u))
  BY <1>1, MayRunFacts, DeployingIsOutput
<1>4. own' = [units |-> [own.units EXCEPT ![u] = RunRecord(u)'],
              links |-> [l \in Link |-> IF l.to = u /\ links'[l] # NoLink
                                        THEN links'[l] ELSE own.links[l]]]
  BY <1>1, SavedBy
<1>5. \A l \in Link : l \in Expected(u) => l.to = u
  BY DEF Expected, ByLinkTypes, ByTargetUnit
<1>6. \A l \in Link : links'[l] = IF l \in Expected(u) THEN Deploying(u) ELSE links[l]
  BY <1>1 DEF Parsed
<1>7. \A l \in Link : l.to = u => links'[l] = Given(l)
  BY <1>6 DEF Given
<1>8. \A l \in Link : links'[l] = links[l] \/ (l.to = u /\ links'[l] = Given(l))
  BY <1>5, <1>6, <1>7
<1>9. links' = [l \in Link |-> links'[l]]
  BY <1>1 DEF Parsed
<1>10. excused' \in SUBSET Units /\ excused \ {u} \subseteq excused'
       /\ (stored.units[u].tainted => Dependents(u) \subseteq excused')
  BY <1>1, MayRunFacts DEF Excuse, Dependents
<1>11. faults' \in 0..MaxFaults
  BY <1>1, MayRunFacts
<1>12. deployed' = [deployed EXCEPT ![u] = deployed'[u]] /\ IsOutput(deployed'[u])
  BY <1>1, <1>3
<1> QED BY <1>1, <1>2, <1>3, <1>4, <1>7, <1>8, <1>9, <1>10, <1>11, <1>12, MayRunFacts DEF Effect

LEMMA FailApplyHas ==
  ASSUME IInv, NEW u \in Units, FailApply(u)
  PROVE  Effect(u, "failed")
<1>1. MayRun(u) /\ op[u] # "Destroy" /\ UpdateUnit(u, TRUE)
      /\ UNCHANGED runData /\ faults < MaxFaults /\ faults' = faults + 1
      /\ exe' = [exe EXCEPT ![u] = "failed"] /\ excused' = excused /\ doubtful' = doubtful
  BY DEF FailApply, Becomes
<1>2. Changing(u) /\ faults' \in 0..MaxFaults
  BY <1>1, MayRunFacts, OneMoreFault
<1>3. own' = [units |-> [own.units EXCEPT ![u] = RunRecord(u)'],
              links |-> [l \in Link |-> IF l.to = u /\ links'[l] # NoLink
                                        THEN links'[l] ELSE own.links[l]]]
  BY <1>1, SavedBy
<1>4. \A l \in Link : l \in Expected(u) => l.to = u
  BY DEF Expected, ByLinkTypes, ByTargetUnit
<1>5. IsOutput(Deploying(u)) /\ IsOutput(Broken)
  BY <1>1, MayRunFacts, DeployingIsOutput DEF IsOutput, Broken
<1>6. /\ deployed' = [deployed EXCEPT ![u] = deployed'[u]] /\ IsOutput(deployed'[u])
      /\ links' = [l \in Link |-> links'[l]]
      /\ \A l \in Link : links'[l] = links[l] \/ (l.to = u /\ links'[l] = Given(l))
  <2>1. CASE deployed' \in {deployed, [deployed EXCEPT ![u] = Broken]} /\ links' = links
    BY <2>1, <1>1, <1>5, MayRunFacts
  <2>2. CASE deployed' = [deployed EXCEPT ![u] = Deploying(u)]
             /\ \E S \in SUBSET Expected(u) : S # Expected(u) /\ Parsed(u, S)
    <3>1. PICK S \in SUBSET Expected(u) : Parsed(u, S)
      BY <2>2
    <3>2. links' = [l \in Link |-> IF l \in S THEN Deploying(u) ELSE links[l]]
      BY <3>1 DEF Parsed
    <3>3. \A l \in Link : l \in S => l.to = u /\ Given(l) = Deploying(u)
      BY <1>4 DEF Given
    <3>4. \A l \in Link : links'[l] = links[l] \/ (l.to = u /\ links'[l] = Given(l))
      BY <3>2, <3>3
    <3>5. links' = [l \in Link |-> links'[l]]
      BY <3>2
    <3> QED BY <2>2, <3>4, <3>5, <1>1, <1>5, MayRunFacts
  <2> QED BY <2>1, <2>2 DEF FailApply
<1> QED BY <1>1, <1>2, <1>3, <1>6, MayRunFacts DEF Effect

LEMMA DestroyHas ==
  ASSUME IInv, NEW u \in Units, Destroy(u)
  PROVE  Effect(u, "done")
<1>1. MayRun(u) /\ op[u] = "Destroy" /\ UNCHANGED <<runData, links, doubtful, faults>>
      /\ exe' = [exe EXCEPT ![u] = "done"] /\ excused' = excused \ {u}
      /\ deployed' = [deployed EXCEPT ![u] = NoData]
      /\ own' = [own EXCEPT !.units[u] = NoRecord]
  BY DEF Destroy, Becomes
<1>2. ~Changing(u) /\ exe'[u] = "done" /\ op' = op
  BY <1>1, MayRunFacts DEF runData
<1>3. RunRecord(u)' = NoRecord
  BY <1>2 DEF RunRecord, Executed, Changing
<1>4. own' = [units |-> [own.units EXCEPT ![u] = NoRecord], links |-> own.links]
  BY <1>1, MayRunFacts
<1>5. own' = [units |-> [own.units EXCEPT ![u] = RunRecord(u)'],
              links |-> [l \in Link |->
               IF Changing(u) /\ "done" \in {"done", "failed"} /\ l.to = u /\ links'[l] # NoLink
               THEN links'[l] ELSE own.links[l]]]
  BY <1>1, <1>2, <1>3, <1>4, RecordsOnly
<1>6. IsOutput(NoData) /\ deployed'[u] = NoData
  BY <1>1, MayRunFacts DEF IsOutput, NoData
<1> QED BY <1>1, <1>2, <1>5, <1>6, MayRunFacts DEF Effect

LEMMA FailDestroyHas ==
  ASSUME IInv, NEW u \in Units, FailDestroy(u)
  PROVE  Effect(u, "failed")
<1>1. MayRun(u) /\ op[u] = "Destroy" /\ UNCHANGED <<runData, links, excused, doubtful>>
      /\ faults < MaxFaults /\ faults' = faults + 1
      /\ exe' = [exe EXCEPT ![u] = "failed"]
      /\ deployed' \in {deployed, [deployed EXCEPT ![u] = Broken]}
      /\ own' = [own EXCEPT !.units[u].tainted = TRUE]
  BY DEF FailDestroy, Becomes
<1>2. ~Changing(u) /\ exe'[u] = "failed" /\ op' = op /\ stored' = stored /\ faults' \in 0..MaxFaults
  <2>1. exe'[u] = "failed"
    BY <1>1, MayRunFacts
  <2> QED BY <1>1, <2>1, MayRunFacts, OneMoreFault DEF runData
<1>3. RunRecord(u)' = [stored.units[u] EXCEPT !.tainted = TRUE]
  BY <1>2 DEF RunRecord, Executed, Changing
<1>4. own' = [units |-> [own.units EXCEPT ![u] = [own.units[u] EXCEPT !.tainted = TRUE]],
              links |-> own.links]
  BY <1>1, MayRunFacts
<1>5. own' = [units |-> [own.units EXCEPT ![u] = RunRecord(u)'],
              links |-> [l \in Link |->
               IF Changing(u) /\ "failed" \in {"done", "failed"} /\ l.to = u /\ links'[l] # NoLink
               THEN links'[l] ELSE own.links[l]]]
  <2>1. own.units[u] = stored.units[u]
    BY <1>1, MayRunFacts
  <2>2. own' = [units |-> [own.units EXCEPT ![u] = RunRecord(u)'], links |-> own.links]
    BY <1>3, <1>4, <2>1
  <2> QED BY <1>1, <1>2, <2>2, RecordsOnly
<1>6. deployed' = [deployed EXCEPT ![u] = deployed'[u]] /\ IsOutput(deployed'[u])
  <2>1. IsOutput(Broken) /\ IsOutput(deployed[u])
    BY <1>1, MayRunFacts DEF IsOutput, Broken
  <2>2. deployed = [v \in Units |-> deployed[v]]
    BY <1>1, MayRunFacts
  <2> QED BY <1>1, <2>1, <2>2
<1> QED BY <1>1, <1>2, <1>5, <1>6, MayRunFacts DEF Effect

LEMMA PrepareFailsHas ==
  ASSUME IInv, NEW u \in Units, PrepareFails(u)
  PROVE  Effect(u, "skipped")
<1>1. MayRun(u) /\ UNCHANGED <<runData, deployed, links, own, excused, doubtful>>
      /\ faults < MaxFaults /\ faults' = faults + 1
      /\ exe' = [exe EXCEPT ![u] = "skipped"]
  BY DEF PrepareFails, Becomes
<1>2. exe'[u] = "skipped" /\ stored' = stored /\ faults' \in 0..MaxFaults
  <2>1. exe'[u] = "skipped"
    BY <1>1, MayRunFacts
  <2> QED BY <1>1, <2>1, MayRunFacts, OneMoreFault DEF runData
<1>3. RunRecord(u)' = stored.units[u]
  BY <1>2 DEF RunRecord, Executed
<1>4. own' = [units |-> [own.units EXCEPT ![u] = RunRecord(u)'], links |-> own.links]
  <2>1. own = [units |-> own.units, links |-> own.links] /\ own.units[u] = stored.units[u]
    BY <1>1, MayRunFacts
  <2>2. own.units = [v \in Units |-> own.units[v]]
    BY <1>1, MayRunFacts
  <2>3. [own.units EXCEPT ![u] = own.units[u]] = own.units
    BY <2>2
  <2> QED BY <1>1, <1>3, <2>1, <2>3
<1>5. own' = [units |-> [own.units EXCEPT ![u] = RunRecord(u)'],
              links |-> [l \in Link |->
               IF Changing(u) /\ "skipped" \in {"done", "failed"} /\ l.to = u /\ links'[l] # NoLink
               THEN links'[l] ELSE own.links[l]]]
  BY <1>1, <1>4, RecordsOnly
<1>6. deployed' = [deployed EXCEPT ![u] = deployed'[u]] /\ IsOutput(deployed'[u])
  BY <1>1, MayRunFacts
<1> QED BY <1>1, <1>2, <1>5, <1>6, MayRunFacts DEF Effect
------------------------------------------------------------------------------
(* Such a step keeps the invariant.                                        *)

LEMMA EffectFacts ==
  ASSUME IInv, NEW u \in Units, NEW how, Effect(u, how)
  PROVE  /\ exe' \in [Units -> {"waiting", "done", "failed", "skipped"}]
         /\ exe'[u] = how /\ \A v \in Units : v # u => exe'[v] = exe[v]
         /\ deployed' = [v \in Units |-> deployed'[v]]
         /\ \A v \in Units : v # u => deployed'[v] = deployed[v]
         /\ \A v \in Units : v # u => Executed(v)' = Executed(v)
         /\ Executed(u)' = (how \in {"done", "failed"}) /\ ~Executed(u)
         /\ Waiting' \subseteq Waiting /\ u \in Waiting
         /\ Changing(u) \/ (op[u] = "Destroy" /\ ~Changing(u))
         /\ running # "none" /\ running' = running /\ Sane
<1>1. TypeOK /\ ShapeInv /\ PlanInv /\ Sane
  BY DEF IInv, ShapeInv, Sane
<1>2. /\ running # "none" /\ u \in Planned /\ exe[u] = "waiting" /\ running' = running
      /\ how \in {"done", "failed", "skipped"} /\ exe' = [exe EXCEPT ![u] = how]
      /\ deployed' = [deployed EXCEPT ![u] = deployed'[u]] /\ op' = op /\ UNCHANGED runData
  BY DEF Effect, runData
<1>3. exe \in [Units -> {"waiting", "done", "failed", "skipped"}]
  BY <1>1 DEF TypeOK
<1>4. deployed = [v \in Units |-> deployed[v]]
  BY <1>1 DEF ShapeInv
<1>5. /\ exe' \in [Units -> {"waiting", "done", "failed", "skipped"}]
      /\ exe'[u] = how /\ \A v \in Units : v # u => exe'[v] = exe[v]
  BY <1>2, <1>3
<1>6. DOMAIN deployed = Units
  BY <1>4
<1>7. /\ deployed' = [v \in Units |-> deployed'[v]]
      /\ \A v \in Units : v # u => deployed'[v] = deployed[v]
  BY <1>2, <1>6
<1>8. /\ \A v \in Units : v # u => Executed(v)' = Executed(v)
      /\ Executed(u)' = (how \in {"done", "failed"}) /\ ~Executed(u)
  BY <1>2, <1>5 DEF Executed
<1>9. Planned' = Planned
  BY <1>2, RunStays
<1>10. Waiting' \subseteq Waiting /\ u \in Waiting
  <2>1. \A v \in Units : v \in Planned /\ exe'[v] \in {"waiting", "failed"} => v \in Waiting
    BY <1>2, <1>5 DEF Waiting
  <2>2. Planned \subseteq Units
    BY DEF Planned
  <2> QED BY <1>2, <1>9, <2>1, <2>2 DEF Waiting
<1>11. Changing(u) \/ (op[u] = "Destroy" /\ ~Changing(u))
  <2>1. op[u] = "Destroy" => ~Changing(u)
    BY DEF Changing
  <2> QED BY <1>1, <1>2, <2>1, OperationMeans
<1> QED BY <1>1, <1>2, <1>5, <1>7, <1>8, <1>10, <1>11

(* Links become certain when their unit is applied.                        *)
LEMMA RefreshedBy ==
  ASSUME IInv, NEW u \in Units, NEW how, Effect(u, how)
  PROVE  /\ \A l \in Link : Refreshed(l) => Refreshed(l)'
         /\ doubtful' \subseteq doubtful
         /\ \A l \in doubtful : l \notin doubtful' =>
              l \in Link /\ l.to = u /\ l.kind = "output" /\ Refreshed(l)'
         /\ \A l \in Link : l.to = u /\ l.kind = "output" /\ Changing(u) => 
              (l \in Expected(u) <=> l \in Declared)
<1>1. TypeOK /\ ShapeInv /\ PlanInv /\ Sane /\ LinkInv /\ DoubtInv
  BY DEF IInv, ShapeInv, Sane
<1>2. /\ running # "none" /\ UNCHANGED runData /\ exe[u] = "waiting"
      /\ doubtful' = doubtful \ (IF Changing(u) /\ how = "done" THEN Expected(u) ELSE {})
  BY DEF Effect
<1>3. Declared' = Declared /\ \A v \in Units : Changing(v)' = Changing(v)
  BY <1>2, RunStays
<1>4. exe'[u] = how /\ \A v \in Units : v # u => exe'[v] = exe[v]
  BY EffectFacts
<1>5. \A l \in Link : l.to \in Units
  BY <1>1, UsesAreLinks
<1>6. \A l \in Link : Refreshed(l) => Refreshed(l)'
  BY <1>2, <1>3, <1>4, <1>5 DEF Refreshed
<1>7. ASSUME NEW l \in Link, l.to = u, l.kind = "output", Changing(u)
      PROVE  l \in Expected(u) <=> l \in Declared
  <2>1. links[l] = JoinedLink(l)
    BY <1>1, <1>2, <1>7, EffectFacts DEF LinkInv, Executed
  <2>2. op[u] # "NotChanged"
    BY <1>7 DEF Changing
  <2>3. links[l] # NoLink <=> l \in Declared
    BY <1>7, <2>1, <2>2 DEF JoinedLink, NoData, NoLink
  <2> QED BY <1>7, <2>3 DEF Expected, Exists, ByTargetUnit, ByLinkTypes
<1>8. ASSUME NEW l \in doubtful, l \notin doubtful'
      PROVE  l \in Link /\ l.to = u /\ l.kind = "output" /\ Refreshed(l)'
  <2>1. Changing(u) /\ how = "done" /\ l \in Expected(u)
    BY <1>2, <1>8
  <2>2. l \in Link /\ l.to = u /\ l.kind = "output"
    BY <2>1 DEF Expected, Exists, ByTargetUnit, ByLinkTypes
  <2> QED BY <1>3, <1>4, <1>7, <2>1, <2>2 DEF Refreshed
<1> QED BY <1>2, <1>6, <1>7, <1>8
(* Links are given data or kept, never dropped or added.                   *)
LEMMA LinksAfter ==
  ASSUME IInv, NEW u \in Units, NEW how, Effect(u, how), NEW l \in Link
  PROVE  /\ IsOutput(links'[l]) /\ (links'[l] = NoLink <=> links[l] = NoLink)
         /\ l.kind # "output" \/ l.to # u => links'[l] = links[l]
         /\ ~(Changing(u) /\ how \in {"done", "failed"}) => links'[l] = links[l]
         /\ Changing(u) /\ how = "done" /\ l.to = u /\ l.kind = "output" /\ l \in Declared =>
              links'[l] = deployed'[u]
<1>1. /\ links'[l] = links[l] \/ (l.to = u /\ links'[l] = Given(l))
      /\ ~(Changing(u) /\ how \in {"done", "failed"}) => links'[l] = links[l]
      /\ Changing(u) /\ how = "done" /\ l.to = u => links'[l] = Given(l)
      /\ Changing(u) /\ how = "done" => deployed'[u] = Deploying(u)
  BY DEF Effect
<1>2. TypeOK /\ ShapeInv /\ PlanInv /\ Sane /\ running # "none" /\ u \in Planned
  BY DEF IInv, ShapeInv, Sane, Effect
<1>3. Changing(u) => u \in Present
  BY <1>2, OperationMeans
<1>4. l \in Expected(u) <=> l.to = u /\ l.kind = "output" /\ links[l] # NoLink
  BY DEF Expected, Exists, ByTargetUnit, ByLinkTypes
<1>5. l.to = u => Given(l) = IF l \in Expected(u) THEN Deploying(u) ELSE links[l]
  BY DEF Given
<1>6. IsOutput(links[l]) /\ IsOutput(Deploying(u)) /\ (Changing(u) => Deploying(u) # NoLink)
  BY <1>2, <1>3, DeployingIsOutput DEF TypeOK
<1>7. CASE Changing(u)
  <2>1. IsOutput(links'[l]) /\ (links'[l] = NoLink <=> links[l] = NoLink)
        /\ (l.kind # "output" \/ l.to # u => links'[l] = links[l])
    BY <1>1, <1>4, <1>5, <1>6, <1>7
  <2>2. how = "done" /\ l.to = u /\ l.kind = "output" /\ l \in Declared => links'[l] = deployed'[u]
    BY <1>1, <1>5, <1>7, RefreshedBy
  <2> QED BY <1>1, <2>1, <2>2
<1>8. CASE ~Changing(u)
  BY <1>1, <1>6, <1>8
<1> QED BY <1>7, <1>8

LEMMA EffectKeepsType ==
  ASSUME IInv, NEW u \in Units, NEW how, Effect(u, how)
  PROVE  TypeOK'
<1>1. TypeOK /\ LinkInv /\ ShapeInv /\ Sane
  BY DEF IInv, ShapeInv, Sane
<1>2. UNCHANGED runData /\ faults' \in 0..MaxFaults /\ IsOutput(deployed'[u])
      /\ excused' \in SUBSET Units /\ doubtful' \subseteq doubtful
      /\ links' = [l \in Link |-> links'[l]]
      /\ own' = [units |-> [own.units EXCEPT ![u] = RunRecord(u)'],
                 links |-> [l \in Link |->
                   IF Changing(u) /\ how \in {"done", "failed"} /\ l.to = u /\ links'[l] # NoLink
                   THEN links'[l] ELSE own.links[l]]]
  BY RefreshedBy DEF Effect
<1>3. RunRecord(u)' \in Record
  <2>1. stored'.units[u] \in Record /\ desired'[u].spec \in Nat /\ desired'[u].uses \in SUBSET Link
    BY <1>1, <1>2, UsesAreLinks DEF runData, TypeOK
  <2>2. NoRecord \in Record
    BY DEF NoRecord, Record
  <2>3. [stored.units[u] EXCEPT !.tainted = TRUE]' \in Record
    BY <2>1 DEF Record
  <2>4. [spec |-> desired[u].spec, uses |-> desired[u].uses, tainted |-> exe[u] = "failed"]' \in Record
    BY <2>1 DEF Record
  <2> QED BY <2>1, <2>2, <2>3, <2>4 DEF RunRecord
<1>4. own'.units \in [Units -> Record] /\ DOMAIN own'.links = Link
  BY <1>1, <1>2, <1>3 DEF TypeOK
<1>5. ASSUME NEW l \in Link
      PROVE  IsOutput(own'.links[l])
             /\ (l.kind # "output" /\ own'.links[l] # NoLink => own'.links[l] = NoData)
  <2>1. own'.links[l] = links'[l] \/ own'.links[l] = own.links[l]
    BY <1>2
  <2>2. IsOutput(own.links[l])
        /\ (l.kind # "output" /\ own.links[l] # NoLink => own.links[l] = NoData)
    BY <1>1 DEF TypeOK, Exists
  <2>3. IsOutput(links'[l]) /\ (l.kind # "output" => links'[l] \in {NoData, NoLink})
    BY <1>1, LinksAfter, EffectFacts DEF LinkInv
  <2> QED BY <2>1, <2>2, <2>3
<1>6. DOMAIN links' = Link /\ \A l \in Link : IsOutput(links'[l])
  BY <1>2, LinksAfter
<1>7. DOMAIN deployed' = Units /\ \A v \in Units : IsOutput(deployed'[v])
  <2>1. DOMAIN deployed' = Units
    BY EffectFacts
  <2> QED BY <1>1, <1>2, <2>1, EffectFacts DEF TypeOK
<1>8. exe' \in [Units -> {"waiting", "done", "failed", "skipped"}]
  BY EffectFacts
<1>9. /\ stored'.units \in [Units -> Record]
      /\ DOMAIN stored'.links = Link /\ \A l \in Link : IsOutput(stored'.links[l])
      /\ \A l \in Link : stored'.links[l] # NoLink /\ l.kind # "output" => stored'.links[l] = NoData
  BY <1>1, <1>2 DEF runData, TypeOK, Exists
<1>10. /\ \A v \in Units : desired'[v] \in MayWrite[v] \cup {Nothing}
       /\ running' \in {"apply", "destroy", "none"} /\ done' \in {"apply", "destroy", "none"}
       /\ op' \in [Units -> {"None", "Apply", "Update", "Destroy", "NotChanged"}]
       /\ deps' \in [Units -> SUBSET Units]
       /\ edits' \in 0..MaxEdits /\ runs' \in 0..MaxRuns
       /\ doubtful' \in SUBSET Link /\ lost' \in SUBSET Units
  BY <1>1, <1>2 DEF runData, TypeOK
<1> QED BY <1>2, <1>4, <1>5, <1>6, <1>7, <1>8, <1>9, <1>10 DEF TypeOK, Exists

LEMMA EffectKeepsPlan ==
  ASSUME IInv, NEW u \in Units, NEW how, Effect(u, how)
  PROVE  Loadable(desired)' /\ ShapeInv' /\ IdleInv' /\ PlanInv' /\ OrderInv'
<1>1. TypeOK /\ ShapeInv /\ PlanInv /\ Sane /\ OrderInv
  BY DEF IInv, ShapeInv, Sane
<1>2. UNCHANGED runData /\ running # "none" /\ running' = running /\ u \in Planned
      /\ links' = [l \in Link |-> links'[l]]
      /\ (op[u] # "Destroy" => deps[u] \cap Waiting = {})
  BY DEF Effect, runData
<1>3. Sane'
  BY <1>1, <1>2, RunStays
<1>4. ShapeInv'
  BY <1>1, <1>2, EffectFacts DEF ShapeInv, runData
<1>5. IdleInv'
  BY <1>2 DEF IdleInv
<1>6. PlanInv'
  <2>1. op' = op /\ deps' = deps /\ desired' = desired /\ done' = done /\ lost' = lost
    BY <1>2 DEF runData
  <2>2. op = [v \in Units |-> IF running = "apply" THEN ApplyOperation(LoadState, v)
                                                   ELSE DestroyOperation(LoadState, v)]
        /\ deps = [v \in Units |-> IF op[v] = "Destroy" THEN StateTargets(LoadState, v)
                                                        ELSE UniqUnits(desired[v].uses)]
        /\ done = "none" /\ lost = {} /\ \A v \in Units : v \notin Planned => exe[v] = "waiting"
    BY <1>1, <1>2 DEF PlanInv
  <2>3. op' = [v \in Units |-> IF running' = "apply" THEN ApplyOperation(LoadState, v)'
                                                     ELSE DestroyOperation(LoadState, v)']
    BY <1>2, <2>1, <2>2, RunStays
  <2>4. deps' = [v \in Units |-> IF op'[v] = "Destroy" THEN StateTargets(LoadState, v)'
                                                      ELSE UniqUnits(desired'[v].uses)]
    BY <1>2, <2>1, <2>2, RunStays
  <2>5. \A v \in Units : v \notin Planned' => exe'[v] = "waiting"
    BY <1>2, <2>2, RunStays, EffectFacts
  <2> QED BY <2>1, <2>2, <2>3, <2>4, <2>5 DEF PlanInv
<1>7. OrderInv'
  <2>1. ASSUME NEW v \in Units, exe'[v] # "waiting", op[v] # "Destroy"
        PROVE  deps[v] \cap Waiting = {}
    BY <1>1, <1>2, <2>1, EffectFacts DEF OrderInv
  <2>2. Waiting' \subseteq Waiting /\ op' = op /\ deps' = deps
    BY <1>2, EffectFacts DEF runData
  <2> QED BY <2>1, <2>2 DEF OrderInv
<1> QED BY <1>3, <1>4, <1>5, <1>6, <1>7 DEF Sane

LEMMA EffectKeepsOwn ==
  ASSUME IInv, NEW u \in Units, NEW how, Effect(u, how)
  PROVE  OwnInv' /\ LinkInv' /\ DoubtInv'
<1>1. TypeOK /\ ShapeInv /\ PlanInv /\ Sane /\ OwnInv /\ LinkInv /\ DoubtInv
  BY DEF IInv, ShapeInv, Sane
<1>2. /\ UNCHANGED runData /\ running # "none" /\ running' = running
      /\ stored' = stored /\ desired' = desired /\ exe[u] = "waiting"
      /\ how \in {"done", "failed", "skipped"}
      /\ own' = [units |-> [own.units EXCEPT ![u] = RunRecord(u)'],
                 links |-> [l \in Link |->
                   IF Changing(u) /\ how \in {"done", "failed"} /\ l.to = u /\ links'[l] # NoLink
                   THEN links'[l] ELSE own.links[l]]]
  BY DEF Effect, runData
<1>3. /\ \A v : Changing(v)' = Changing(v)
      /\ LoadState' = LoadState /\ Declared' = Declared /\ Mistaken' = Mistaken
      /\ \A l : JoinedLink(l)' = JoinedLink(l)
  BY <1>2, RunStays
<1>4. own = [units |-> [v \in Units |-> RunRecord(v)], links |-> [l \in Link |-> RunLink(l)]]
  BY <1>1, <1>2 DEF OwnInv
<1>5. ASSUME NEW v \in Units, v # u PROVE RunRecord(v)' = RunRecord(v)
  BY <1>2, <1>3, <1>5, EffectFacts DEF RunRecord
<1>6. \A l \in Link : l.to \in Units
  BY <1>1, UsesAreLinks
<1>7. ASSUME NEW l \in Link
      PROVE  RunLink(l)' =
               IF Changing(u) /\ how \in {"done", "failed"} /\ l.to = u /\ links'[l] # NoLink
               THEN links'[l] ELSE own.links[l]
  <2>1. own.links[l] = RunLink(l)
    BY <1>4
  <2>2. CASE l.to = u
    <3>1. Executed(l.to)' = (how \in {"done", "failed"}) /\ ~Executed(l.to)
      <4>1. exe'[l.to] = how /\ ~Executed(l.to)
        BY <2>2, EffectFacts
      <4> QED BY <4>1 DEF Executed
    <3> QED BY <1>3, <2>1, <2>2, <3>1 DEF RunLink
  <2>3. CASE l.to # u
    <3>1. links'[l] = links[l] /\ Executed(l.to)' = Executed(l.to)
      BY <1>6, <2>3, LinksAfter, EffectFacts
    <3> QED BY <1>3, <2>1, <2>3, <3>1 DEF RunLink
  <2> QED BY <2>2, <2>3
<1>8. OwnInv'
  <2>1. [own.units EXCEPT ![u] = RunRecord(u)'] = [v \in Units |-> RunRecord(v)']
    BY <1>4, <1>5
  <2>2. own' = [units |-> [v \in Units |-> RunRecord(v)'], links |-> [l \in Link |-> RunLink(l)']]
    BY <1>2, <1>7, <2>1
  <2> QED BY <2>2 DEF OwnInv
<1>9. ASSUME NEW l \in Link
      PROVE  /\ links'[l] = NoLink <=> JoinedLink(l) = NoLink
             /\ ~(Changing(l.to) /\ Executed(l.to)') => links'[l] = JoinedLink(l)
             /\ l.kind # "output" => links'[l] \in {NoData, NoLink}
             /\ l.kind = "output" /\ Refreshed(l)' => links'[l] = deployed'[l.to]
  <2>1. /\ links[l] = NoLink <=> JoinedLink(l) = NoLink
        /\ ~(Changing(l.to) /\ Executed(l.to)) => links[l] = JoinedLink(l)
        /\ l.kind # "output" => links[l] \in {NoData, NoLink}
        /\ l.kind = "output" /\ Refreshed(l) => links[l] = deployed[l.to]
    BY <1>1, <1>2 DEF LinkInv
  <2>2. ~(Changing(l.to) /\ Executed(l.to)') => links'[l] = JoinedLink(l)
    <3>1. CASE l.to = u
      <4>1. exe'[l.to] = how /\ ~Executed(l.to)
        BY <3>1, EffectFacts
      <4>2. Executed(l.to)' = (how \in {"done", "failed"})
        BY <4>1 DEF Executed
      <4> QED BY <2>1, <3>1, <4>1, <4>2, LinksAfter
    <3>2. CASE l.to # u
      BY <1>6, <2>1, <3>2, LinksAfter, EffectFacts
    <3> QED BY <3>1, <3>2
  <2>3. l.kind = "output" /\ Refreshed(l)' => links'[l] = deployed'[l.to]
    <3>1. CASE l.to = u
      BY <1>3, <3>1, LinksAfter, EffectFacts DEF Refreshed
    <3>2. CASE l.to # u
      <4>1. exe'[l.to] = exe[l.to] /\ deployed'[l.to] = deployed[l.to] /\ links'[l] = links[l]
        BY <1>6, <3>2, LinksAfter, EffectFacts
      <4> QED BY <1>3, <2>1, <4>1 DEF Refreshed
    <3> QED BY <3>1, <3>2
  <2> QED BY <2>1, <2>2, <2>3, LinksAfter
<1>10. LinkInv'
  BY <1>3, <1>9 DEF LinkInv
<1>11. DoubtInv'
  <2>1. doubtful' \subseteq Outputs(Link)
    BY <1>1, RefreshedBy DEF DoubtInv
  <2>2. ASSUME NEW l \in Mistaken PROVE l \in doubtful' \/ Refreshed(l)'
    <3>1. l \in Link /\ (l \in doubtful \/ Refreshed(l))
      BY <1>1, <1>2 DEF DoubtInv, Mistaken
    <3> QED BY <3>1, RefreshedBy
  <2> QED BY <1>3, <2>1, <2>2 DEF DoubtInv
<1> QED BY <1>8, <1>10, <1>11
(* What an executed unit was given. Its targets are over, or were never    *)
(* planned; of those the state had the output, or one of the same name.    *)
LEMMA SuppliedWith ==
  ASSUME IInv, running # "none", NEW u \in Units, Changing(u), deps[u] \cap Waiting = {},
         NEW l \in Outputs(desired[u].uses), l \notin doubtful, exe[l.to] # "skipped"
  PROVE  /\ links[l] = deployed[l.to] /\ Known(links[l])
         /\ Refreshed(l) \/ (op[l.to] = "NotChanged" /\ l \in Exists(stored.links))
<1>1. TypeOK /\ ShapeInv /\ PlanInv /\ Sane /\ LinkInv /\ DoubtInv /\ FreshInv /\ BuiltInv
  BY DEF IInv, ShapeInv, Sane
<1>2. l \in desired[u].uses /\ l.kind = "output"
  BY DEF Outputs
<1>3. l \in Link /\ l \in Declared /\ l.to \in Present /\ l.to \in Units
  BY <1>1, <1>2, TargetsPresent DEF Present
<1>4. running = "apply" /\ op[u] # "Destroy"
  BY <1>1, OperationMeans DEF Changing
<1>5. l.to \notin Waiting
  <2>1. deps[u] = UniqUnits(desired[u].uses)
    BY <1>1, <1>4 DEF PlanInv
  <2> QED BY <1>2, <2>1 DEF UniqUnits
<1>6. op[l.to] \in {"None", "Apply", "Update", "Destroy", "NotChanged"}
      /\ exe[l.to] \in {"waiting", "done", "failed", "skipped"}
  BY <1>1, <1>3 DEF TypeOK
<1>7. op[l.to] \notin {"None", "Destroy"}
  BY <1>1, <1>3, <1>4, OperationMeans
<1>8. CASE op[l.to] = "NotChanged"
  <2>1. ~Changing(l.to) /\ exe[l.to] = "waiting" /\ ~Executed(l.to)
    BY <1>1, <1>3, <1>8 DEF Changing, PlanInv, Planned, Executed
  <2>2. l.to \in Recorded(stored) /\ ~stored.units[l.to].tainted /\ ~Differs(LoadState, l.to)
    BY <1>1, <1>3, <1>8, OperationMeans
  <2>3. l \in Exists(stored.links)
    <3>1. SUFFICES ASSUME l \notin Exists(stored.links) PROVE FALSE
      OBVIOUS
    <3>2. OutputNames(Exists(LoadState.links), l.to) = OutputNames(Declared, l.to)
      BY <2>2 DEF Differs
    <3>3. l.name \in OutputNames(Declared, l.to)
      BY <1>3 DEF OutputNames, ByTargetUnit
    <3>4. PICK k \in Exists(LoadState.links) : k \in Link /\ k.to = l.to /\ k.name = l.name
      BY <3>2, <3>3 DEF OutputNames, ByTargetUnit
    <3>5. l.name # NoName /\ k.kind # "custom"
      BY <1>1, <1>2, <1>3, <3>4, UsesAreLinks
    <3>6. k \in Exists(stored.links)
      BY <1>1, <3>4, <3>5, LoadedState DEF Exists
    <3>7. l \in Mistaken
      BY <1>2, <1>3, <3>1, <3>4, <3>6 DEF Mistaken
    <3> QED BY <1>1, <2>1, <3>7 DEF DoubtInv, Refreshed
  <2>4. stored.links[l] = deployed[l.to] /\ Known(stored.links[l])
    <3>1. lost = {}
      BY <1>1 DEF PlanInv
    <3> QED BY <1>1, <1>2, <1>3, <2>1, <2>2, <2>3, <3>1 DEF FreshInv, Outputs
  <2>5. links[l] = JoinedLink(l)
    BY <1>1, <1>3, <2>1 DEF LinkInv
  <2>6. LoadState.links[l] = stored.links[l] /\ LoadState.links[l] # NoLink
    BY <1>1, <1>2, <1>3, <2>3, LoadedState
  <2>7. JoinedLink(l) = stored.links[l]
    BY <1>8, <2>6 DEF JoinedLink
  <2> QED BY <1>8, <2>3, <2>4, <2>5, <2>7
<1>9. CASE op[l.to] # "NotChanged"
  <2>1. Changing(l.to) /\ l.to \in Planned
    BY <1>3, <1>6, <1>7, <1>9 DEF Changing, Planned
  <2>2. exe[l.to] = "done"
    BY <1>5, <1>6, <2>1 DEF Waiting
  <2>3. Refreshed(l)
    BY <1>3, <2>1, <2>2 DEF Refreshed
  <2>4. links[l] = deployed[l.to]
    BY <1>1, <1>2, <1>3, <2>3 DEF LinkInv
  <2>5. deployed[l.to].spec = desired[l.to].spec /\ desired[l.to].spec \in Nat \ 0..2
    BY <1>1, <1>3, <2>1, <2>2, UsesAreLinks DEF BuiltInv
  <2>6. Known(deployed[l.to])
    BY <2>5 DEF Known, NoLink, NoData
  <2> QED BY <2>3, <2>4, <2>6
<1> QED BY <1>8, <1>9

LEMMA EffectKeepsStored ==
  ASSUME IInv, NEW u \in Units, NEW how, Effect(u, how)
  PROVE  LostInv' /\ FreshInv' /\ HeldInv'
<1>1. TypeOK /\ Sane /\ LostInv /\ FreshInv /\ HeldInv
  BY DEF IInv, ShapeInv, Sane
<1>2. /\ stored' = stored /\ lost' = lost /\ running' = running /\ how \in {"done", "failed", "skipped"}
      /\ (how = "skipped" => deployed' = deployed)
      /\ excused \ {u} \subseteq excused' /\ (how # "done" => excused' = excused)
  BY DEF Effect, runData
<1>3. \A l \in Link : l.to \in Units
  BY <1>1, UsesAreLinks
<1>4. FreshInv'
  <2>1. SUFFICES ASSUME NEW l \in Outputs(Link), l.to \in Recorded(stored),
                        ~stored.units[l.to].tainted, ~Executed(l.to)',
                        l \in Exists(stored.links), l \notin doubtful', l.to \notin lost
                 PROVE  stored.links[l] = deployed'[l.to] /\ Known(stored.links[l])
    BY <1>2 DEF FreshInv, Recorded, Exists, Outputs, Known
  <2>2. l.to \in Units /\ l \in Link
    BY <1>3 DEF Outputs
  <2>3. ~Executed(l.to) /\ deployed'[l.to] = deployed[l.to] /\ l \notin doubtful
    <3>1. CASE l.to = u
      <4>1. how = "skipped"
        BY <1>2, <2>1, <3>1, EffectFacts DEF Executed
      <4>2. doubtful' = doubtful
        BY <4>1 DEF Effect
      <4> QED BY <1>2, <2>1, <3>1, <4>1, <4>2, EffectFacts
    <3>2. CASE l.to # u
      BY <2>1, <2>2, <3>2, EffectFacts, RefreshedBy
    <3> QED BY <3>1, <3>2
  <2> QED BY <1>1, <2>1, <2>3 DEF FreshInv
<1>5. HeldInv'
  <2>1. SUFFICES ASSUME NEW v \in Recorded(stored) \ Left', exe'[v] # "done",
                        NEW l \in Outputs(stored.units[v].uses)
                 PROVE  l \in Exists(stored.links) \/ l \in doubtful' \/ Refreshed(l)'
    BY <1>2 DEF HeldInv, Recorded, Exists, Outputs
  <2>2. v \in Units /\ v \notin Left /\ exe[v] # "done"
    <3>1. v \in Units /\ v \in Recorded(stored)
      BY DEF Recorded
    <3>2. v # u \/ how # "done"
      BY <2>1, EffectFacts
    <3> QED BY <1>2, <2>1, <3>1, <3>2, EffectFacts DEF Effect, Left
  <2>3. l \in Exists(stored.links) \/ l \in doubtful \/ Refreshed(l)
    BY <1>1, <2>2 DEF HeldInv
  <2>4. l \in Link
    BY <1>1, <2>2 DEF TypeOK, Record, Outputs
  <2> QED BY <2>3, <2>4, RefreshedBy
<1>6. LostInv'
  BY <1>1, <1>2 DEF LostInv, Recorded, Carrying
<1> QED BY <1>4, <1>5, <1>6

LEMMA EffectKeepsBuilt ==
  ASSUME IInv, NEW u \in Units, NEW how, Effect(u, how)
  PROVE  BuiltInv'
<1>1. TypeOK /\ ShapeInv /\ Sane /\ PlanInv /\ OrderInv /\ BuiltInv /\ DoubtInv
  BY DEF IInv, ShapeInv, Sane
<1>2. /\ UNCHANGED runData /\ stored' = stored /\ desired' = desired /\ op' = op /\ lost' = lost
      /\ running # "none" /\ u \in Planned /\ exe[u] = "waiting"
      /\ how \in {"done", "failed", "skipped"}
      /\ (op[u] # "Destroy" => deps[u] \cap Waiting = {})
      /\ (how = "skipped" => deployed' = deployed /\ doubtful' = doubtful)
      /\ (Changing(u) /\ how = "done" => deployed'[u] = Deploying(u))
      /\ excused \ {u} \subseteq excused'
      /\ (Changing(u) /\ how = "done" /\ stored.units[u].tainted => Dependents(u) \subseteq excused')
  BY DEF Effect, runData
<1>3. Planned' = Planned /\ \A v : Changing(v)' = Changing(v)
  BY <1>2, RunStays
<1>4. \A v \in Units : stored.units[v].uses \subseteq Link /\ desired[v].uses \subseteq Link
  BY <1>1, UsesAreLinks DEF TypeOK, Record
<1>5. \A l \in Link : l.to \in Units
  BY <1>1, UsesAreLinks
<1>6. ASSUME NEW v \in Recorded(stored) \ Left', Undisturbed(v)'
      PROVE  deployed'[v] = Built(stored.units[v].spec, stored.units[v].uses)'
  <2>1. v \in Units /\ v \notin Planned /\ ~stored.units[v].tainted
        /\ stored.units[v].uses \cap doubtful' = {}
        /\ \A l \in Carrying(stored.units[v].uses) : exe'[l.to] # "failed"
    <3>1. v \in Units
      BY DEF Recorded
    <3> QED BY <1>2, <1>3, <1>6, <3>1 DEF Undisturbed, Carrying
  <2>2. v # u /\ v \notin Left /\ deployed'[v] = deployed[v]
    BY <1>2, <1>6, <2>1, EffectFacts DEF Left
  <2>3. op[v] = "NotChanged"
    BY <1>1, <1>2, <1>6, <2>1, OperationMeans
  <2>4. ASSUME NEW l \in Carrying(stored.units[v].uses), l.to = u
        PROVE  how = "skipped"
    <3>1. l \in desired[v].uses /\ (op[u] = "NotChanged" \/ (op[u] = "Update" /\ stored.units[u].tainted))
      BY <1>1, <1>2, <2>1, <2>3, <2>4, UnchangedStands
    <3>2. Changing(u) /\ stored.units[u].tainted
      BY <1>2, <3>1 DEF Planned, Changing
    <3>3. v \in Dependents(u)
      BY <1>1, <2>1, <2>4, <3>1, UsersDepend
    <3>4. how # "done"
      BY <1>2, <1>6, <3>2, <3>3 DEF Left
    <3>5. how # "failed"
      BY <2>1, <2>4, EffectFacts
    <3> QED BY <1>2, <3>4, <3>5
  <2>5. stored.units[v].uses \cap doubtful = {}
    <3>1. ASSUME NEW l \in stored.units[v].uses, l \in doubtful PROVE FALSE
      <4>1. l \notin doubtful'
        BY <2>1, <3>1
      <4>2. l.to = u /\ l.kind = "output"
        BY <3>1, <4>1, RefreshedBy
      <4>3. how = "skipped"
        BY <2>4, <3>1, <4>2 DEF Carrying
      <4> QED BY <1>2, <3>1, <4>1, <4>3
    <3> QED BY <3>1
  <2>6. ASSUME NEW l \in Carrying(stored.units[v].uses)
        PROVE  exe[l.to] # "failed" /\ deployed'[l.to] = deployed[l.to]
    <3>1. l.to \in Units
      BY <1>4, <1>5, <2>1, <2>6 DEF Carrying
    <3>2. CASE l.to = u
      BY <1>2, <2>4, <3>2
    <3>3. CASE l.to # u
      BY <2>1, <3>1, <3>3, EffectFacts
    <3> QED BY <3>2, <3>3
  <2>7. Undisturbed(v)
    BY <2>1, <2>5, <2>6 DEF Undisturbed
  <2>8. deployed[v] = Built(stored.units[v].spec, stored.units[v].uses)
    BY <1>1, <1>6, <2>2, <2>7 DEF BuiltInv
  <2>9. {<<l, deployed'[l.to]>> : l \in Carrying(stored.units[v].uses)}
          = {<<l, deployed[l.to]>> : l \in Carrying(stored.units[v].uses)}
    BY <2>6
  <2> QED BY <1>2, <2>2, <2>8, <2>9 DEF Built, Carrying
<1>7. ASSUME NEW v \in Units, Changing(v), exe'[v] = "done"
      PROVE  /\ deployed'[v].spec = desired[v].spec
             /\ WellSupplied(v)' => deployed'[v] = Built(desired[v].spec, desired[v].uses)'
  <2>1. running = "apply" /\ op[v] # "Destroy" /\ v \in Planned
    BY <1>1, <1>2, <1>7, OperationMeans DEF Changing
  <2>2. deps[v] = UniqUnits(desired[v].uses)
    BY <1>1, <1>2, <2>1 DEF PlanInv
  <2>3. deps[v] \cap Waiting = {}
    BY <1>1, <1>2, <1>7, <2>1, EffectFacts DEF OrderInv
  <2>4. ASSUME NEW l \in desired[v].uses
        PROVE  /\ l \in Link /\ l.to \in Units /\ l.to # u
               /\ exe'[l.to] = exe[l.to] /\ deployed'[l.to] = deployed[l.to]
               /\ l \in doubtful => l \in doubtful'
    <3>1. l \in Link /\ l.to \in Units
      BY <1>4, <1>5
    <3>2. l.to \in deps[v]
      BY <2>2 DEF UniqUnits
    <3>3. l.to # u
      BY <2>3, <3>2, EffectFacts
    <3> QED BY <3>1, <3>3, EffectFacts, RefreshedBy
  <2>5. ASSUME WellSupplied(v)' PROVE WellSupplied(v)
    BY <1>2, <2>4, <2>5 DEF WellSupplied, Carrying
  <2>6. {<<l, deployed'[l.to]>> : l \in Carrying(desired[v].uses)}
          = {<<l, deployed[l.to]>> : l \in Carrying(desired[v].uses)}
    BY <2>4 DEF Carrying
  <2>7. Built(desired[v].spec, desired[v].uses)' = Built(desired[v].spec, desired[v].uses)
    BY <1>2, <2>6 DEF Built, Carrying
  <2>8. CASE v = u
    <3>1. deployed'[u] = Deploying(u)
      BY <1>2, <1>7, <2>8, EffectFacts
    <3>2. Deploying(u).spec = desired[u].spec
      BY DEF Deploying
    <3>3. ASSUME WellSupplied(u) PROVE Deploying(u) = Built(desired[u].spec, desired[u].uses)
      <4>1. ASSUME NEW l \in ByLinkTypes(desired[u].uses, "output")
            PROVE  links[l] = deployed[l.to]
        <5>1. l \in Outputs(desired[u].uses) /\ l \notin doubtful /\ exe[l.to] # "skipped"
          BY <3>3, <4>1 DEF WellSupplied, Outputs, Carrying, ByLinkTypes
        <5> QED BY <1>2, <1>7, <2>3, <2>8, <5>1, SuppliedWith
      <4>2. Carrying(desired[u].uses) = ByLinkTypes(desired[u].uses, "output")
                                          \cup ByLinkTypes(desired[u].uses, "remote")
        BY <1>1, <1>4, UsesAreLinks DEF Carrying, ByLinkTypes
      <4>3. OutputsReplacer(u) \cup GenDepsRemoteStates(u)
              = {<<l, deployed[l.to]>> : l \in Carrying(desired[u].uses)}
        BY <4>1, <4>2 DEF OutputsReplacer, GenDepsRemoteStates
      <4> QED BY <4>3 DEF Deploying, Built
    <3> QED BY <2>5, <2>7, <2>8, <3>1, <3>2, <3>3
  <2>9. CASE v # u
    <3>1. exe[v] = "done" /\ deployed'[v] = deployed[v]
      BY <1>7, <2>9, EffectFacts
    <3>2. /\ deployed[v].spec = desired[v].spec
          /\ WellSupplied(v) => deployed[v] = Built(desired[v].spec, desired[v].uses)
      BY <1>1, <1>7, <3>1 DEF BuiltInv
    <3> QED BY <2>5, <2>7, <3>1, <3>2
  <2> QED BY <2>8, <2>9
<1>8. Recorded(stored)' = Recorded(stored)
  BY <1>2, RunStays
<1> QED BY <1>2, <1>3, <1>6, <1>7, <1>8 DEF BuiltInv

LEMMA EffectKeepsIInv ==
  ASSUME IInv, NEW u \in Units, NEW how, Effect(u, how)
  PROVE  IInv'
<1>1. done' # "apply"
  BY DEF IInv, PlanInv, Effect, runData
<1>2. DoneInv'
  BY <1>1 DEF DoneInv
<1> QED BY <1>2, EffectKeepsType, EffectKeepsPlan, EffectKeepsOwn, EffectKeepsStored,
           EffectKeepsBuilt DEF IInv
------------------------------------------------------------------------------
(* The state of the run at any moment.                                     *)

LEMMA OwnIs ==
  ASSUME IInv, running # "none"
  PROVE  /\ own = [units |-> own.units, links |-> own.links]
         /\ own.units = [u \in Units |-> own.units[u]]
         /\ own.links = [l \in Link |-> own.links[l]]
         /\ \A u \in Units : own.units[u] = RunRecord(u)
         /\ \A l \in Link : own.links[l] = RunLink(l)
<1>1. own = [units |-> [u \in Units |-> RunRecord(u)], links |-> [l \in Link |-> RunLink(l)]]
  BY DEF IInv, OwnInv
<1>2. own.units = [u \in Units |-> RunRecord(u)] /\ own.links = [l \in Link |-> RunLink(l)]
  BY <1>1
<1> QED BY <1>1, <1>2

(* The outputs of recorded units are those of what is deployed.            *)
LEMMA OwnIsFresh ==
  ASSUME IInv, running # "none",
         NEW l \in Outputs(Link), l.to \in Recorded(own), ~own.units[l.to].tainted,
         l \in Exists(own.links), l \notin doubtful
  PROVE  own.links[l] = deployed[l.to] /\ Known(own.links[l])
<1>1. TypeOK /\ ShapeInv /\ PlanInv /\ Sane /\ LinkInv /\ DoubtInv /\ FreshInv /\ BuiltInv
  BY DEF IInv, ShapeInv, Sane
<1>2. l \in Link /\ l.kind = "output" /\ l.to \in Units
  BY <1>1, UsesAreLinks DEF Outputs
<1> DEFINE v == l.to
<1>3. own.units[v] = RunRecord(v) /\ own.links[l] = RunLink(l) /\ own.links[l] # NoLink
  BY <1>2, OwnIs DEF Exists
<1>4. LoadState.links[l] = stored.links[l]
  BY <1>1, <1>2, LoadedState
<1>5. CASE ~Executed(v)
  <2>1. own.units[v] = stored.units[v] /\ own.links[l] = stored.links[l]
    BY <1>3, <1>4, <1>5 DEF RunRecord, RunLink
  <2>2. v \in Recorded(stored) /\ l \in Exists(stored.links)
    BY <1>2, <1>3, <2>1 DEF Recorded, Exists
  <2>3. v \notin lost
    BY <1>1 DEF PlanInv
  <2> QED BY <1>1, <1>5, <2>1, <2>2, <2>3 DEF FreshInv
<1>6. CASE Executed(v) /\ Changing(v)
  <2>1. own.units[v].tainted = (exe[v] = "failed")
    BY <1>3, <1>6 DEF RunRecord
  <2>2. exe[v] = "done"
    BY <1>6, <2>1 DEF Executed
  <2>3. l \in Declared
    <3>1. SUFFICES ASSUME l \notin Declared PROVE FALSE
      OBVIOUS
    <3>2. op[v] # "NotChanged"
      BY <1>6 DEF Changing
    <3>3. links[l] = NoLink
      BY <1>1, <1>2, <3>1, <3>2 DEF LinkInv, JoinedLink
    <3>4. l \in Exists(stored.links)
      BY <1>2, <1>3, <1>4, <3>3 DEF RunLink, Exists
    <3>5. l \in Mistaken
      BY <1>2, <3>1, <3>4 DEF Mistaken
    <3> QED BY <1>1, <3>1, <3>5 DEF DoubtInv, Refreshed
  <2>4. Refreshed(l)
    BY <1>6, <2>2, <2>3 DEF Refreshed
  <2>5. links[l] = deployed[v]
    BY <1>1, <1>2, <2>4 DEF LinkInv
  <2>6. links[l] # NoLink
    BY <1>1, <1>2, <2>3 DEF LinkInv, JoinedLink, NoData, NoLink
  <2>7. own.links[l] = deployed[v]
    BY <1>3, <1>6, <2>5, <2>6 DEF RunLink
  <2>8. v \in Present
    BY <1>1, <1>2, <1>6, OperationMeans
  <2>9. deployed[v].spec = desired[v].spec /\ desired[v].spec \in Nat \ 0..2
    BY <1>1, <1>2, <1>6, <2>2, <2>8, UsesAreLinks DEF BuiltInv
  <2>10. Known(deployed[v])
    BY <2>9 DEF Known, NoLink, NoData
  <2> QED BY <2>7, <2>10
<1>7. CASE Executed(v) /\ ~Changing(v)
  <2>1. CASE exe[v] = "done"
    <3>1. own.units[v] = NoRecord
      BY <1>3, <1>7, <2>1 DEF RunRecord
    <3>2. own.units[v].spec = 0
      BY <3>1 DEF NoRecord
    <3> QED BY <3>2 DEF Recorded
  <2>2. CASE exe[v] # "done"
    <3>1. own.units[v] = [stored.units[v] EXCEPT !.tainted = TRUE]
      BY <1>3, <1>7, <2>2 DEF RunRecord
    <3>2. stored.units[v] \in Record
      BY <1>1, <1>2 DEF TypeOK
    <3>3. own.units[v].tainted = TRUE
      BY <3>1, <3>2 DEF Record
    <3> QED BY <3>3
  <2> QED BY <2>1, <2>2
<1> QED BY <1>5, <1>6, <1>7

(* The links that a recorded unit uses are there.                          *)
LEMMA OwnIsHeld ==
  ASSUME IInv, running # "none", NEW u \in Recorded(own) \ excused,
         NEW l \in Outputs(own.units[u].uses), exe[l.to] # "skipped", l \notin doubtful
  PROVE  l \in Exists(own.links)
<1>1. TypeOK /\ ShapeInv /\ PlanInv /\ Sane /\ LinkInv /\ OrderInv /\ HeldInv
  BY DEF IInv, ShapeInv, Sane
<1>2. u \in Units /\ own.units[u].spec # 0 /\ own.units[u] = RunRecord(u)
  BY OwnIs DEF Recorded
<1>3. l \in Link /\ l.kind = "output" /\ l \in own.units[u].uses
  BY <1>1, <1>2 DEF TypeOK, Record, Outputs
<1>4. own.links[l] = RunLink(l)
  BY <1>3, OwnIs
<1>5. ASSUME Refreshed(l) PROVE own.links[l] # NoLink
  <2>1. op[l.to] # "NotChanged" /\ l \in Declared
    BY <1>5 DEF Refreshed, Changing
  <2>2. links[l] # NoLink
    BY <1>1, <1>3, <2>1 DEF LinkInv, JoinedLink, NoData, NoLink
  <2> QED BY <1>4, <1>5, <2>2 DEF RunLink, Refreshed, Executed
<1>6. ASSUME l \in Exists(stored.links) PROVE own.links[l] # NoLink
  <2>1. LoadState.links[l] # NoLink
    BY <1>1, <1>3, <1>6, LoadedState
  <2> QED BY <1>4, <2>1 DEF RunLink
<1>7. CASE Executed(u) /\ Changing(u)
  <2>1. own.units[u].uses = desired[u].uses
    BY <1>2, <1>7 DEF RunRecord
  <2>2. op[u] # "Destroy" /\ exe[u] # "waiting"
    BY <1>7 DEF Changing, Executed
  <2>3. deps[u] \cap Waiting = {}
    BY <1>1, <1>2, <2>2 DEF OrderInv
  <2>4. Refreshed(l) \/ l \in Exists(stored.links)
    BY <1>2, <1>7, <2>1, <2>3, SuppliedWith
  <2> QED BY <1>3, <1>5, <1>6, <2>4 DEF Exists
<1>8. CASE ~(Executed(u) /\ Changing(u))
  <2>1. exe[u] # "done" /\ own.units[u].uses = stored.units[u].uses
        /\ own.units[u].spec = stored.units[u].spec
    <3>1. stored.units[u] \in Record /\ NoRecord.spec = 0
      BY <1>1, <1>2 DEF TypeOK, NoRecord
    <3> QED BY <1>2, <1>8, <3>1 DEF RunRecord, Record, Executed
  <2>2. u \in Recorded(stored)
    BY <1>2, <2>1 DEF Recorded
  <2>3. l \in Exists(stored.links) \/ Refreshed(l)
    BY <1>1, <2>1, <2>2 DEF HeldInv, Left, PlanInv
  <2> QED BY <1>3, <1>5, <1>6, <2>3 DEF Exists
<1> QED BY <1>7, <1>8

(* A recorded unit that the end of the run does not excuse was applied as  *)
(* it is written, or had nothing to change; so had the units it uses.      *)
Settled(u) ==
  u \in Recorded(own) /\ u \notin NotDone /\ \A w \in NotDone : u \notin Dependents(w)

LEMMA SettledIsAsWritten ==
  ASSUME IInv, running # "none", NEW u \in Units, u \in Recorded(own), u \notin NotDone
  PROVE  /\ running = "apply" /\ u \in Present
         /\ own.units[u].spec = desired[u].spec /\ ~own.units[u].tainted
         /\ Carrying(own.units[u].uses) = Carrying(desired[u].uses)
         /\ \/ op[u] = "NotChanged" /\ own.units[u] = stored.units[u] /\ u \in Recorded(stored)
            \/ Changing(u) /\ exe[u] = "done" /\ own.units[u].uses = desired[u].uses
<1>1. TypeOK /\ ShapeInv /\ PlanInv /\ Sane
  BY DEF IInv, ShapeInv, Sane
<1>2. own.units[u] = RunRecord(u) /\ own.units[u].spec # 0
  BY OwnIs DEF Recorded
<1>3. CASE u \notin Planned
  <2>1. exe[u] = "waiting"
    BY <1>1, <1>3 DEF PlanInv
  <2>2. own.units[u] = stored.units[u]
    BY <1>2, <2>1 DEF RunRecord, Executed
  <2>3. u \in Recorded(stored)
    BY <1>2, <2>2 DEF Recorded
  <2>4. op[u] = "NotChanged"
    BY <1>1, <1>3, <2>3, OperationMeans
  <2> QED BY <1>1, <2>2, <2>3, <2>4, OperationMeans, UnchangedIsAsWritten
<1>4. CASE u \in Planned
  <2>1. exe[u] = "done"
    BY <1>4 DEF NotDone
  <2>2. Changing(u)
    <3>1. SUFFICES ASSUME ~Changing(u) PROVE FALSE
      OBVIOUS
    <3>2. own.units[u] = NoRecord
      BY <1>2, <2>1, <3>1 DEF RunRecord, Executed
    <3> QED BY <1>2, <3>2 DEF NoRecord
  <2>3. own.units[u] = [spec |-> desired[u].spec, uses |-> desired[u].uses, tainted |-> exe[u] = "failed"]
    BY <1>2, <2>1, <2>2 DEF RunRecord, Executed
  <2>4. own.units[u].spec = desired[u].spec /\ own.units[u].uses = desired[u].uses
        /\ own.units[u].tainted = (exe[u] = "failed")
    BY <2>3
  <2>5. ~own.units[u].tainted
    BY <2>1, <2>4
  <2> QED BY <1>1, <2>1, <2>2, <2>4, <2>5, OperationMeans
<1> QED BY <1>3, <1>4

LEMMA SettledTargets ==
  ASSUME IInv, running # "none", NEW u \in Units, Settled(u), NEW l \in Carrying(own.units[u].uses)
  PROVE  /\ l \in desired[u].uses /\ l.to \in Recorded(own) /\ l.to \in Units
         /\ exe[l.to] \notin {"failed", "skipped"}
<1>1. TypeOK /\ ShapeInv /\ PlanInv /\ Sane
  BY DEF IInv, ShapeInv, Sane
<1>2. u \in Present /\ running = "apply" /\ l \in desired[u].uses
  BY SettledIsAsWritten DEF Settled, Carrying
<1>3. l.to \in Units /\ l.to \in Present /\ u \in Dependents(l.to)
  BY <1>1, <1>2, TargetsPresent, UsersDepend DEF Present
<1>4. l.to \notin NotDone
  BY <1>3 DEF Settled
<1>5. exe[l.to] \notin {"failed", "skipped"}
  BY <1>1, <1>3, <1>4 DEF NotDone, PlanInv
<1>6. op[l.to] \in {"None", "Apply", "Update", "Destroy", "NotChanged"} /\ op[l.to] \notin {"None", "Destroy"}
  BY <1>1, <1>2, <1>3, OperationMeans DEF TypeOK
<1>7. own.units[l.to] = RunRecord(l.to)
  BY <1>3, OwnIs
<1>8. own.units[l.to].spec # 0
  <2>1. CASE op[l.to] = "NotChanged"
    <3>1. exe[l.to] = "waiting"
      BY <1>1, <1>3, <2>1 DEF PlanInv, Planned
    <3>2. l.to \in Recorded(stored)
      BY <1>1, <1>3, <2>1, OperationMeans
    <3> QED BY <1>7, <3>1, <3>2 DEF RunRecord, Executed, Recorded
  <2>2. CASE op[l.to] # "NotChanged"
    <3>1. Changing(l.to) /\ exe[l.to] = "done"
      BY <1>3, <1>4, <1>6, <2>2 DEF Changing, NotDone, Planned
    <3>2. own.units[l.to].spec = desired[l.to].spec
      BY <1>7, <3>1 DEF RunRecord, Executed
    <3> QED BY <1>3, <3>2 DEF Present
  <2> QED BY <2>1, <2>2
<1> QED BY <1>2, <1>3, <1>5, <1>8 DEF Recorded
------------------------------------------------------------------------------
(* The end of a run: what was own becomes stored.                          *)

LEMMA SaveLeaves ==
  ASSUME IInv, Save
  PROVE  /\ running # "none" /\ running' = "none"
         /\ UNCHANGED <<desired, deployed, edits, runs, doubtful>> /\ lost = {} /\ lost' = {}
         /\ stored'.units = own.units
         /\ stored' = [units |-> own.units, links |-> stored'.links]
         /\ own' = stored'
         /\ stored'.links = [l \in Link |-> stored'.links[l]]
         /\ \A l \in Link : stored'.links[l] = IF l.to \in Recorded(own) THEN own.links[l] ELSE NoLink
         /\ Recorded(stored)' = Recorded(own)
         /\ links' = All(Link, NoLink) /\ op' = All(Units, "None")
         /\ deps' = All(Units, {}) /\ exe' = All(Units, "waiting")
         /\ Planned' = {}
         /\ \A u \in Units : u \in Recorded(stored)' \ Left' => Settled(u) /\ u \notin Left
         /\ excused' \in SUBSET Units /\ (NotDone = {} => excused' = excused)
<1>1. /\ running # "none" /\ running' = "none"
      /\ UNCHANGED <<desired, deployed, edits, runs, doubtful>>
      /\ stored' = ClearULinks(own) /\ own' = ClearULinks(own)
      /\ excused' = excused \cup AndAbove(NotDone) /\ lost' = lost
      /\ links' = All(Link, NoLink) /\ op' = All(Units, "None")
      /\ deps' = All(Units, {}) /\ exe' = All(Units, "waiting")
  BY DEF Save, Reset
<1>2. own = [units |-> own.units, links |-> own.links]
  BY <1>1, OwnIs
<1> DEFINE K == [l \in Link |-> IF l.to \in Recorded(own) THEN own.links[l] ELSE NoLink]
<1>3. stored' = [units |-> own.units, links |-> K]
  BY <1>1, <1>2 DEF ClearULinks
<1>4. stored'.units = own.units /\ stored'.links = K
  BY <1>3
<1>5. Recorded(stored)' = Recorded(own)
  BY <1>4 DEF Recorded
<1>6. Planned' = {}
  BY <1>1 DEF Planned, All
<1>7. \A u \in Units : u \in Recorded(stored)' \ Left' => Settled(u) /\ u \notin Left
  BY <1>1, <1>5 DEF Settled, Left, AndAbove
<1>8. excused' \in SUBSET Units /\ (NotDone = {} => excused' = excused)
  BY <1>1 DEF IInv, TypeOK, NotDone, Planned, Dependents, AndAbove
<1>9. \A l \in Link : stored'.links[l] = IF l.to \in Recorded(own) THEN own.links[l] ELSE NoLink
  BY <1>4
<1>10. stored'.links = [l \in Link |-> stored'.links[l]]
  BY <1>4
<1>11. lost = {}
  BY <1>1 DEF IInv, PlanInv
<1> QED BY <1>1, <1>3, <1>4, <1>5, <1>6, <1>7, <1>8, <1>9, <1>10, <1>11

LEMMA SaveKeepsType ==
  ASSUME IInv, Save, done' \in {"apply", "destroy", "none"}, faults' \in 0..MaxFaults
  PROVE  TypeOK' /\ Loadable(desired)' /\ ShapeInv' /\ IdleInv'
<1>1. TypeOK /\ ShapeInv /\ Sane
  BY DEF IInv, ShapeInv, Sane
<1>2. IsOutput(NoLink)
  BY DEF IsOutput, NoLink
<1>3. own.units \in [Units -> Record] /\ \A l \in Link : IsOutput(own.links[l])
      /\ (l.kind # "output" /\ own.links[l] # NoLink => own.links[l] = NoData)
  BY <1>1 DEF TypeOK, Exists
<1>4. /\ stored'.units \in [Units -> Record] /\ DOMAIN stored'.links = Link
      /\ \A l \in Link : /\ IsOutput(stored'.links[l])
                         /\ stored'.links[l] # NoLink /\ l.kind # "output" => stored'.links[l] = NoData
  BY <1>2, <1>3, SaveLeaves
<1>5. DOMAIN links' = Link /\ \A l \in Link : IsOutput(links'[l])
  BY <1>2, SaveLeaves DEF All
<1>6. /\ op' \in [Units -> {"None", "Apply", "Update", "Destroy", "NotChanged"}]
      /\ deps' \in [Units -> SUBSET Units]
      /\ exe' \in [Units -> {"waiting", "done", "failed", "skipped"}]
  BY SaveLeaves DEF All
<1>7. /\ \A u \in Units : desired'[u] \in MayWrite[u] \cup {Nothing}
      /\ DOMAIN deployed' = Units /\ \A u \in Units : IsOutput(deployed'[u])
      /\ edits' \in 0..MaxEdits /\ runs' \in 0..MaxRuns /\ doubtful' \in SUBSET Link
  BY <1>1, SaveLeaves DEF TypeOK
<1>8. TypeOK'
  BY <1>4, <1>5, <1>6, <1>7, SaveLeaves DEF TypeOK, Exists
<1>9. Loadable(desired)'
  BY <1>1, SaveLeaves DEF Sane, Loadable, OutputsScanner, RemoteStatesScanner, InitUnitPtr
<1>10. ShapeInv'
  BY <1>1, SaveLeaves DEF ShapeInv, All
<1>11. IdleInv'
  BY SaveLeaves DEF IdleInv
<1> QED BY <1>8, <1>9, <1>10, <1>11

LEMMA SaveKeepsStored ==
  ASSUME IInv, Save
  PROVE  DoubtInv' /\ LostInv' /\ FreshInv' /\ HeldInv' /\ BuiltInv'
<1>1. TypeOK /\ ShapeInv /\ Sane /\ DoubtInv /\ BuiltInv /\ PlanInv
  BY DEF IInv, ShapeInv, Sane
<1>2. /\ running # "none" /\ running' = "none" /\ doubtful' = doubtful /\ deployed' = deployed
      /\ lost' = {} /\ stored'.units = own.units /\ Recorded(stored)' = Recorded(own)
      /\ exe' = All(Units, "waiting") /\ op' = All(Units, "None") /\ Planned' = {}
      /\ \A l \in Link : stored'.links[l] = IF l.to \in Recorded(own) THEN own.links[l] ELSE NoLink
  BY SaveLeaves
<1>3. \A u \in Units : own.units[u].uses \subseteq Link
  BY <1>1 DEF TypeOK, Record
<1>4. DoubtInv'
  BY <1>1, <1>2 DEF DoubtInv
<1>5. FreshInv'
  <2>1. SUFFICES ASSUME NEW l \in Outputs(Link), l.to \in Recorded(own), ~own.units[l.to].tainted,
                        stored'.links[l] # NoLink, l \notin doubtful
                 PROVE  stored'.links[l] = deployed[l.to] /\ Known(stored'.links[l])
    BY <1>2 DEF FreshInv, Exists, Outputs, Known
  <2>2. l \in Link /\ stored'.links[l] = own.links[l]
    BY <1>2, <2>1 DEF Outputs
  <2>3. l \in Exists(own.links)
    BY <2>1, <2>2 DEF Exists
  <2> QED BY <1>2, <2>1, <2>2, <2>3, OwnIsFresh
<1>6. HeldInv'
  <2>1. SUFFICES ASSUME NEW u \in Recorded(stored)' \ Left',
                        NEW l \in Outputs(own.units[u].uses), l \notin doubtful
                 PROVE  l \in Link /\ stored'.links[l] # NoLink
    BY <1>2 DEF HeldInv, Exists, Outputs
  <2>2. u \in Units /\ Settled(u) /\ u \notin excused /\ u \in Recorded(own)
    BY <1>2, SaveLeaves DEF Recorded, Left
  <2>3. l \in Carrying(own.units[u].uses)
    BY DEF Carrying, Outputs
  <2>4. l.to \in Recorded(own) /\ exe[l.to] # "skipped"
    BY <1>2, <2>2, <2>3, SettledTargets
  <2>5. l \in Link /\ own.links[l] # NoLink
    BY <1>2, <2>1, <2>2, <2>4, OwnIsHeld DEF Exists
  <2> QED BY <1>2, <2>4, <2>5
<1>7. BuiltInv'
  <2>1. \A u \in Units : exe'[u] = "waiting"
    BY <1>2 DEF All
  <2>2. SUFFICES ASSUME NEW u \in Recorded(stored)' \ Left', ~own.units[u].tainted,
                        own.units[u].uses \cap doubtful = {}
                 PROVE  deployed[u] = Built(own.units[u].spec, own.units[u].uses)
    <3>1. \A v \in Units : Undisturbed(v)' => ~own.units[v].tainted /\ own.units[v].uses \cap doubtful = {}
      BY <1>2 DEF Undisturbed
    <3>2. \A v \in Units : Built(stored.units[v].spec, stored.units[v].uses)'
                             = Built(own.units[v].spec, own.units[v].uses)
      BY <1>2 DEF Built, Carrying
    <3>3. Recorded(stored)' \subseteq Units
      BY DEF Recorded
    <3> QED BY <1>2, <2>1, <2>2, <3>1, <3>2, <3>3 DEF BuiltInv
  <2>3. u \in Units /\ Settled(u) /\ u \notin Left /\ u \in Recorded(own) /\ u \notin NotDone
    BY <1>2, SaveLeaves DEF Recorded, Settled
  <2>4. own.units[u].spec = desired[u].spec /\ Carrying(own.units[u].uses) = Carrying(desired[u].uses)
    BY <1>2, <2>3, SettledIsAsWritten
  <2>5. CASE op[u] = "NotChanged" /\ own.units[u] = stored.units[u] /\ u \in Recorded(stored)
    <3>1. u \notin Planned
      BY <2>5 DEF Planned
    <3>2. \A l \in Carrying(stored.units[u].uses) : exe[l.to] # "failed"
      BY <1>2, <2>3, <2>5, SettledTargets
    <3>3. Undisturbed(u)
      BY <2>2, <2>5, <3>1, <3>2 DEF Undisturbed
    <3> QED BY <1>1, <2>3, <2>5, <3>3 DEF BuiltInv
  <2>6. CASE Changing(u) /\ exe[u] = "done" /\ own.units[u].uses = desired[u].uses
    <3>1. \A l \in Carrying(desired[u].uses) : exe[l.to] # "skipped"
      BY <1>2, <2>3, <2>6, SettledTargets
    <3>2. WellSupplied(u)
      BY <2>2, <2>6, <3>1 DEF WellSupplied
    <3> QED BY <1>1, <2>3, <2>4, <2>6, <3>2 DEF BuiltInv
  <2> QED BY <1>2, <2>3, <2>5, <2>6, SettledIsAsWritten
<1>8. LostInv'
  BY <1>2 DEF LostInv
<1> QED BY <1>4, <1>5, <1>6, <1>7, <1>8

LEMMA SaveKeepsIInv ==
  ASSUME IInv, Save, faults' \in 0..MaxFaults, done' \in {"apply", "destroy", "none"}, DoneInv'
  PROVE  IInv'
<1>1. running' = "none"
  BY SaveLeaves
<1>2. PlanInv' /\ OwnInv' /\ LinkInv' /\ OrderInv'
  BY <1>1 DEF PlanInv, OwnInv, LinkInv, OrderInv
<1> QED BY <1>2, SaveKeepsType, SaveKeepsStored DEF IInv

(* An apply in which every planned unit is done.                           *)
LEMMA CompleteIsAsWritten ==
  ASSUME IInv, running = "apply", NotDone = {}
  PROVE  AsWritten /\ Records(own.units, own.links)
<1>1. TypeOK /\ ShapeInv /\ PlanInv /\ Sane /\ LinkInv /\ DoubtInv /\ BuiltInv /\ running # "none"
  BY DEF IInv, ShapeInv, Sane
<1>2. \A u \in Units : u \in Planned => exe[u] = "done"
  BY DEF NotDone
<1>3. ASSUME NEW u \in Present
      PROVE  /\ u \in Units /\ own.units[u] = RunRecord(u)
             /\ \/ op[u] = "NotChanged" /\ exe[u] = "waiting" /\ u \notin Planned /\ u \in Recorded(stored)
                \/ Changing(u) /\ exe[u] = "done"
  <2>1. u \in Units /\ own.units[u] = RunRecord(u)
    BY <1>1, OwnIs DEF Present
  <2>2. op[u] \in {"None", "Apply", "Update", "Destroy", "NotChanged"} /\ op[u] \notin {"None", "Destroy"}
    BY <1>1, <2>1, OperationMeans DEF TypeOK
  <2>3. CASE op[u] = "NotChanged"
    BY <1>1, <2>1, <2>3, OperationMeans DEF PlanInv
  <2>4. CASE op[u] # "NotChanged"
    BY <1>2, <2>1, <2>2, <2>4 DEF Changing, Planned
  <2> QED BY <2>1, <2>3, <2>4
<1>4. ASSUME NEW u \in Present PROVE u \in Recorded(own)
  <2>1. CASE op[u] = "NotChanged" /\ exe[u] = "waiting" /\ u \in Recorded(stored)
    <3>1. own.units[u] = stored.units[u]
      BY <1>3, <2>1 DEF RunRecord, Executed
    <3> QED BY <1>3, <2>1, <3>1 DEF Recorded
  <2>2. CASE Changing(u) /\ exe[u] = "done"
    <3>1. own.units[u] = [spec |-> desired[u].spec, uses |-> desired[u].uses, tainted |-> exe[u] = "failed"]
      BY <1>3, <2>2 DEF RunRecord, Executed
    <3>2. own.units[u].spec = desired[u].spec /\ u \in Units
      BY <1>3, <3>1
    <3> QED BY <3>2 DEF Present, Recorded
  <2> QED BY <1>3, <2>1, <2>2
<1>5. \A u \in Units : own.units[u].spec # 0 <=> u \in Present
  BY <1>1, <1>4, SettledIsAsWritten DEF Recorded
<1>6. \A u \in Present : /\ own.units[u].spec = desired[u].spec /\ ~own.units[u].tainted
                         /\ Carrying(own.units[u].uses) = Carrying(desired[u].uses)
  BY <1>1, <1>4, SettledIsAsWritten DEF Present
<1>7. ASSUME NEW l \in Declared
      PROVE  \E k \in Exists(own.links) : k.to = l.to /\ k.name = l.name
  <2>1. l \in Link /\ l.to \in Present /\ l.to \in Units
    BY <1>1, DeclaredPresent DEF Present
  <2>2. CASE op[l.to] = "NotChanged" /\ exe[l.to] = "waiting"
    <3>1. ~Differs(LoadState, l.to)
      BY <1>1, <2>1, <2>2, OperationMeans
    <3>2. OutputNames(Exists(LoadState.links), l.to) = OutputNames(Declared, l.to)
      BY <3>1 DEF Differs
    <3>3. l.name \in OutputNames(Declared, l.to)
      BY <2>1 DEF OutputNames, ByTargetUnit
    <3>4. PICK k \in Exists(LoadState.links) : k \in Link /\ k.to = l.to /\ k.name = l.name
      BY <3>2, <3>3 DEF OutputNames, ByTargetUnit
    <3>5. own.links[k] = LoadState.links[k]
      BY <1>1, <2>2, <3>4, OwnIs DEF RunLink, Changing
    <3> QED BY <3>4, <3>5 DEF Exists
  <2>3. CASE Changing(l.to) /\ exe[l.to] = "done"
    <3>1. links[l] # NoLink
      <4>1. op[l.to] # "NotChanged"
        BY <2>3 DEF Changing
      <4> QED BY <1>1, <2>1, <4>1 DEF LinkInv, JoinedLink, NoData, NoLink
    <3>2. own.links[l] = links[l]
      BY <1>1, <2>1, <2>3, <3>1, OwnIs DEF RunLink, Executed
    <3> QED BY <2>1, <3>1, <3>2 DEF Exists
  <2> QED BY <1>3, <2>1, <2>2, <2>3
<1>8. ASSUME NEW u \in Present, u \notin excused, desired[u].uses \cap doubtful = {}
      PROVE  deployed[u] = Built(desired[u].spec, desired[u].uses)
  <2>1. desired[u].uses \subseteq Link /\ \A l \in Link : l.to \in Units
    BY <1>1, <1>3, UsesAreLinks
  <2>2. \A l \in Link : exe[l.to] \notin {"failed", "skipped"}
    BY <1>1, <1>2, <2>1 DEF PlanInv
  <2>3. CASE op[u] = "NotChanged" /\ u \notin Planned /\ u \in Recorded(stored)
    <3>1. /\ stored.units[u].spec = desired[u].spec /\ ~stored.units[u].tainted
          /\ Carrying(stored.units[u].uses) = Carrying(desired[u].uses)
      BY <1>1, <1>3, <2>3, UnchangedIsAsWritten, OperationMeans
    <3>2. stored.units[u].uses \cap doubtful = {}
      <4>1. \A l \in doubtful : l.kind # "custom"
        BY <1>1 DEF DoubtInv, Outputs
      <4>2. \A l \in stored.units[u].uses : l.kind # "custom" => l \in desired[u].uses
        BY <3>1 DEF Carrying
      <4> QED BY <1>8, <4>1, <4>2
    <3>3. \A l \in Carrying(stored.units[u].uses) : exe[l.to] # "failed"
      BY <2>1, <2>2, <3>1 DEF Carrying
    <3>4. Undisturbed(u) /\ u \notin Left
      BY <1>1, <1>8, <2>3, <3>1, <3>2, <3>3 DEF Undisturbed, Left, PlanInv
    <3>5. deployed[u] = Built(stored.units[u].spec, stored.units[u].uses)
      BY <1>1, <2>3, <3>4 DEF BuiltInv
    <3> QED BY <3>1, <3>5 DEF Built
  <2>4. CASE Changing(u) /\ exe[u] = "done"
    <3>1. WellSupplied(u)
      BY <1>8, <2>1, <2>2 DEF WellSupplied, Carrying
    <3> QED BY <1>1, <1>3, <2>4, <3>1 DEF BuiltInv
  <2> QED BY <1>3, <2>3, <2>4
<1> QED BY <1>5, <1>6, <1>7, <1>8 DEF AsWritten, Records

LEMMA SuccessIsComplete ==
  ASSUME IInv, Succeed
  PROVE  DoneInv'
<1>1. TypeOK /\ ShapeInv /\ Sane
  BY DEF IInv, ShapeInv, Sane
<1>2. /\ ~Some("waiting") /\ ~Some("failed") /\ Save
      /\ done' = IF Some("skipped") THEN "none" ELSE running
  BY DEF Succeed
<1>3. SUFFICES ASSUME done' = "apply" PROVE DoneInv'
  BY DEF DoneInv
<1>4. running = "apply" /\ ~Some("skipped") /\ running # "none"
  BY <1>2, <1>3
<1>5. \A u \in Units : u \in Planned => exe[u] = "done"
  BY <1>1, <1>2, <1>4 DEF Some, TypeOK
<1>6. NotDone = {}
  BY <1>5 DEF NotDone, Planned
<1>7. /\ running' = "none" /\ desired' = desired /\ deployed' = deployed /\ doubtful' = doubtful
      /\ excused' = excused /\ stored'.units = own.units
      /\ Recorded(stored)' = Recorded(own)
      /\ \A l \in Link : stored'.links[l] = IF l.to \in Recorded(own) THEN own.links[l] ELSE NoLink
  BY <1>2, <1>6, SaveLeaves
<1>8. AsWritten /\ Records(own.units, own.links)
  BY <1>4, <1>6, CompleteIsAsWritten
<1>9. Present' = Present /\ Declared' = Declared /\ Present \subseteq Units
  BY <1>7 DEF Present, Declared, OutputFunction, RemoteStateFunction, DependsOn, Written
<1>10. AsWritten'
  BY <1>7, <1>8, <1>9 DEF AsWritten, Built, Carrying
<1>11. ASSUME NEW l \in Declared
       PROVE  \E k \in Exists(LoadState.links)' : k.to = l.to /\ k.name = l.name
  <2>1. PICK k \in Exists(own.links) : k.to = l.to /\ k.name = l.name
    BY <1>8 DEF Records
  <2>2. k \in Link /\ own.links[k] # NoLink
    BY <2>1 DEF Exists
  <2>3. l.to \in Present /\ l.to \in Recorded(own)
    BY <1>1, <1>8, <1>9, DeclaredPresent DEF Records, Recorded
  <2>4. stored'.links[k] # NoLink
    BY <1>7, <2>1, <2>2, <2>3
  <2>5. stored' = [units |-> own.units, links |-> stored'.links]
    BY <1>2, SaveLeaves
  <2>6. LoadState'.links = [m \in Link |->
          IF m.kind = "custom" /\ \E u \in Units : m \in stored'.units[u].uses
          THEN NoData ELSE stored'.links[m]]
    BY <2>5 DEF LoadState
  <2>7. LoadState'.links[k] # NoLink
    BY <2>2, <2>4, <2>6 DEF NoData, NoLink
  <2> QED BY <2>1, <2>2, <2>7 DEF Exists
<1>12. Records(stored.units, LoadState.links)'
  <2>1. \A u \in Units : stored'.units[u].spec # 0 <=> u \in Present'
    BY <1>7, <1>8, <1>9 DEF Records
  <2>2. \A u \in Present' :
          /\ stored'.units[u].spec = desired'[u].spec /\ ~stored'.units[u].tainted
          /\ Carrying(stored'.units[u].uses) = Carrying(desired'[u].uses)
    BY <1>7, <1>8, <1>9 DEF Records
  <2> QED BY <1>9, <1>11, <2>1, <2>2 DEF Records, Carrying
<1> QED BY <1>7, <1>10, <1>12 DEF DoneInv

(* A run that is not saved: the state is that of the beginning again, and  *)
(* nothing is claimed of what the run planned, or that uses it.            *)
LEMMA NothingWasDone ==
  ASSUME IInv, running # "none", NEW u \in Units, u \notin AndAbove(Planned)
  PROVE  /\ u \notin Planned /\ exe[u] = "waiting"
         /\ u \in Recorded(stored) => \A l \in Carrying(stored.units[u].uses) :
              l \in Link /\ l.to \in Units /\ l.to \notin AndAbove(Planned) /\ exe[l.to] = "waiting"
<1>1. TypeOK /\ ShapeInv /\ PlanInv /\ Sane
  BY DEF IInv, ShapeInv, Sane
<1>2. u \notin Planned /\ exe[u] = "waiting" /\ \A w \in Planned : u \notin Dependents(w)
  BY <1>1 DEF AndAbove, PlanInv
<1>3. ASSUME u \in Recorded(stored), NEW l \in Carrying(stored.units[u].uses)
      PROVE  l \in Link /\ l.to \in Units /\ l.to \notin AndAbove(Planned) /\ exe[l.to] = "waiting"
  <2>1. op[u] = "NotChanged"
    BY <1>1, <1>2, <1>3, OperationMeans
  <2>2. l \in desired[u].uses
    BY <1>1, <1>3, <2>1, UnchangedStands
  <2>3. l \in Link /\ l.to \in Units /\ l.to \in Reach(u)
    BY <1>1, <2>2, TargetsPresent, UsersDepend DEF Present
  <2>4. l.to \notin Planned
    BY <1>2, <2>3 DEF Dependents
  <2>5. \A w \in Planned : l.to \notin Dependents(w)
    <3>1. Reach(l.to) \subseteq Reach(u)
      BY <1>1, <2>3, ReachIsTransitive
    <3> QED BY <1>2, <3>1 DEF Dependents
  <2> QED BY <1>1, <2>3, <2>4, <2>5 DEF AndAbove, PlanInv
<1> QED BY <1>2, <1>3

LEMMA UnsavedKeepsIInv ==
  ASSUME IInv, Unsaved, done' \in {"apply", "destroy", "none"}, DoneInv',
         excused' \in SUBSET Units, lost' \in SUBSET Units, excused \subseteq excused',
         AndAbove(Planned) \subseteq Left',
         lost' = {} \/ (lost' = AndAbove(Planned) /\ running # "destroy"),
         doubtful \subseteq doubtful', doubtful' \subseteq Outputs(Link),
         \A l \in Outputs(Link) : l.to \in Planned => l \in doubtful' \/ l.to \in lost'
  PROVE  IInv'
<1>1. TypeOK /\ ShapeInv /\ Sane /\ PlanInv /\ DoubtInv /\ LostInv /\ FreshInv /\ HeldInv /\ BuiltInv
  BY DEF IInv, ShapeInv, Sane
<1>2. /\ running # "none" /\ running' = "none" /\ own' = stored /\ stored' = stored
      /\ desired' = desired /\ deployed' = deployed /\ edits' = edits /\ runs' = runs
      /\ faults' \in 0..MaxFaults
      /\ links' = All(Link, NoLink) /\ op' = All(Units, "None")
      /\ deps' = All(Units, {}) /\ exe' = All(Units, "waiting")
  BY OneMoreFault DEF Unsaved, Reset
<1>3. /\ \A u \in Units : exe'[u] = "waiting" /\ op'[u] = "None"
      /\ Planned' = {} /\ Recorded(stored)' = Recorded(stored) /\ Recorded(stored) \subseteq Units
      /\ lost = {} /\ excused = Left
  BY <1>1, <1>2 DEF Planned, All, Recorded, PlanInv, Left
<1>4. \A l \in Link : l.to \in Units
  BY <1>1, UsesAreLinks
<1>5. TypeOK'
  <2>1. IsOutput(NoLink)
    BY DEF IsOutput, NoLink
  <2>2. DOMAIN links' = Link /\ \A l \in Link : IsOutput(links'[l])
    BY <1>2, <2>1 DEF All
  <2>3. /\ op' \in [Units -> {"None", "Apply", "Update", "Destroy", "NotChanged"}]
        /\ deps' \in [Units -> SUBSET Units]
        /\ exe' \in [Units -> {"waiting", "done", "failed", "skipped"}]
    BY <1>2 DEF All
  <2> QED BY <1>1, <1>2, <2>2, <2>3 DEF TypeOK, Exists, Outputs
<1>6. Loadable(desired)' /\ ShapeInv' /\ IdleInv' /\ PlanInv' /\ OwnInv' /\ LinkInv' /\ OrderInv'
  <2>1. Loadable(desired)'
    BY <1>1, <1>2 DEF Sane, Loadable, OutputsScanner, RemoteStatesScanner, InitUnitPtr
  <2>2. ShapeInv'
    BY <1>1, <1>2 DEF ShapeInv, All
  <2> QED BY <1>2, <2>1, <2>2 DEF IdleInv, PlanInv, OwnInv, LinkInv, OrderInv
<1>7. DoubtInv'
  BY <1>2 DEF DoubtInv
<1>8. ASSUME NEW u \in Recorded(stored), u \notin AndAbove(Planned)
      PROVE  /\ u \in Units /\ u \notin Planned /\ exe[u] = "waiting"
             /\ \A l \in Carrying(stored.units[u].uses) :
                  l \in Link /\ l.to \in Units /\ l.to \notin AndAbove(Planned) /\ exe[l.to] = "waiting"
  BY <1>2, <1>3, <1>8, NothingWasDone
<1>9. LostInv'
  <2>1. ASSUME NEW u \in Recorded(stored) \ lost', NEW l \in Carrying(stored.units[u].uses)
        PROVE  l.to \notin lost'
    <3>1. CASE lost' = {}
      BY <3>1
    <3>2. CASE lost' = AndAbove(Planned)
      BY <1>8, <2>1, <3>2
    <3> QED BY <3>1, <3>2
  <2> QED BY <1>2, <1>3, <2>1 DEF LostInv, Carrying
<1>10. FreshInv'
  <2>1. SUFFICES ASSUME NEW l \in Outputs(Link), l.to \in Recorded(stored), ~stored.units[l.to].tainted,
                        l \in Exists(stored.links), l \notin doubtful', l.to \notin lost'
                 PROVE  stored.links[l] = deployed[l.to] /\ Known(stored.links[l])
    BY <1>2, <1>3 DEF FreshInv, Exists, Outputs, Known
  <2>2. l.to \notin Planned /\ l.to \in Units /\ l \notin doubtful
    BY <1>3, <2>1
  <2>3. ~Executed(l.to)
    BY <1>1, <1>2, <2>2 DEF PlanInv, Executed
  <2> QED BY <1>1, <1>3, <2>1, <2>2, <2>3 DEF FreshInv
<1>11. HeldInv'
  <2>1. SUFFICES ASSUME NEW u \in Recorded(stored), u \notin Left',
                        NEW l \in Outputs(stored.units[u].uses)
                 PROVE  l \in Exists(stored.links) \/ l \in doubtful'
    BY <1>2, <1>3 DEF HeldInv, Exists, Outputs
  <2>2. u \notin AndAbove(Planned) /\ u \notin Left
    BY <1>3, <2>1 DEF Left
  <2>3. l \in Carrying(stored.units[u].uses)
    BY DEF Outputs, Carrying
  <2>4. exe[u] # "done" /\ exe[l.to] = "waiting"
    BY <1>8, <2>2, <2>3
  <2>5. l \in Exists(stored.links) \/ l \in doubtful \/ Refreshed(l)
    BY <1>1, <2>2, <2>4 DEF HeldInv
  <2> QED BY <2>4, <2>5 DEF Refreshed
<1>12. BuiltInv'
  <2>1. ASSUME NEW u \in Recorded(stored), u \notin Left', Undisturbed(u)'
        PROVE  deployed[u] = Built(stored.units[u].spec, stored.units[u].uses)
    <3>1. u \notin AndAbove(Planned) /\ u \notin Left
      BY <1>3, <2>1 DEF Left
    <3>2. u \notin Planned /\ \A l \in Carrying(stored.units[u].uses) : exe[l.to] = "waiting"
      BY <1>8, <3>1
    <3>3. ~stored.units[u].tainted /\ stored.units[u].uses \cap doubtful = {}
      BY <1>2, <2>1 DEF Undisturbed
    <3>4. Undisturbed(u)
      BY <3>2, <3>3 DEF Undisturbed
    <3> QED BY <1>1, <3>1, <3>4 DEF BuiltInv
  <2>2. \A u \in Units : exe'[u] # "done"
    BY <1>3
  <2>3. \A u : Built(stored.units[u].spec, stored.units[u].uses)'
                 = Built(stored.units[u].spec, stored.units[u].uses)
    BY <1>2 DEF Built, Carrying
  <2> QED BY <1>2, <1>3, <2>1, <2>2, <2>3 DEF BuiltInv
<1> QED BY <1>5, <1>6, <1>7, <1>9, <1>10, <1>11, <1>12 DEF IInv

(* What is lost of a run that had nothing to do is nothing.                *)
LEMMA UnsavedIsComplete ==
  ASSUME IInv, SucceedUnsaved
  PROVE  DoneInv'
<1>1. TypeOK /\ ShapeInv /\ Sane /\ PlanInv /\ running = "apply" /\ NotDone = {}
  BY DEF IInv, ShapeInv, Sane, SucceedUnsaved
<1>2. /\ running' = "none" /\ desired' = desired /\ deployed' = deployed /\ stored' = stored
      /\ doubtful' = doubtful /\ excused' = excused /\ lost' = AndAbove(Planned)
  BY DEF SucceedUnsaved, Unsaved, Reset
<1>3. AsWritten /\ Records(own.units, own.links)
  BY <1>1, CompleteIsAsWritten
<1>4. Present' = Present /\ Declared' = Declared
  BY <1>2 DEF Present, Declared, OutputFunction, RemoteStateFunction, DependsOn, Written
<1>5. AsWritten'
  BY <1>2, <1>3, <1>4 DEF AsWritten, Built, Carrying
<1>6. ASSUME lost' = {} PROVE Records(stored.units, LoadState.links)'
  <2>1. \A u \in Units : exe[u] = "waiting"
    BY <1>1, <1>2, <1>6 DEF AndAbove, PlanInv
  <2>2. \A u \in Units : own.units[u] = stored.units[u]
    BY <1>1, <2>1, OwnIs DEF RunRecord, Executed
  <2>3. \A l \in Link : own.links[l] = LoadState.links[l]
    <3>1. \A l \in Link : l.to \in Units
      BY <1>1, UsesAreLinks
    <3> QED BY <1>1, <2>1, <3>1, OwnIs DEF RunLink, Executed
  <2>4. Exists(own.links) = Exists(LoadState.links) /\ Present \subseteq Units
    BY <2>3 DEF Exists, Present
  <2>5. LoadState' = LoadState
    BY <1>2 DEF LoadState
  <2>6. Records(stored.units, LoadState.links)
    BY <1>3, <2>2, <2>4 DEF Records
  <2> QED BY <1>2, <1>4, <2>5, <2>6 DEF Records, Exists, Carrying
<1> QED BY <1>2, <1>5, <1>6 DEF DoneInv
------------------------------------------------------------------------------
(* Between runs.                                                           *)

LEMMA InitSatisfiesIInv ==
  ASSUME Init
  PROVE  IInv
<1>1. /\ \A u \in Units : desired[u] \in MayWrite[u] \cup {Nothing}
      /\ desired \in [Units -> (UNION {MayWrite[u] : u \in Units}) \cup {Nothing}]
      /\ Loadable(desired)
      /\ stored = EmptyState /\ own = EmptyState
      /\ links = All(Link, NoLink) /\ deployed = All(Units, NoData)
      /\ running = "none" /\ done = "none"
      /\ op = All(Units, "None") /\ deps = All(Units, {}) /\ exe = All(Units, "waiting")
      /\ edits = 0 /\ runs = 0 /\ faults = 0 /\ excused = {} /\ lost = {} /\ doubtful = {}
  BY DEF Init
<1>2. IsOutput(NoLink) /\ IsOutput(NoData) /\ NoRecord \in Record
  BY DEF IsOutput, NoLink, NoData, NoRecord, Record
<1>3. EmptyState.units = [u \in Units |-> NoRecord] /\ EmptyState.links = [l \in Link |-> NoLink]
      /\ EmptyState = [units |-> EmptyState.units, links |-> EmptyState.links]
  BY DEF EmptyState, All
<1>4. TypeOK
  <2>1. \A l \in Link : stored.links[l] = NoLink /\ own.links[l] = NoLink
    BY <1>1, <1>3
  <2>2. \A s \in {stored, own} : s.units \in [Units -> Record] /\ DOMAIN s.links = Link
    BY <1>1, <1>2, <1>3
  <2>3. links = [l \in Link |-> NoLink] /\ deployed = [u \in Units |-> NoData]
        /\ op = [u \in Units |-> "None"] /\ deps = [u \in Units |-> {}]
        /\ exe = [u \in Units |-> "waiting"]
    BY <1>1 DEF All
  <2> QED BY <1>1, <1>2, <2>1, <2>2, <2>3, BoundsAssumption DEF TypeOK, Exists
<1>5. ShapeInv
  <2>1. desired \in [Units -> Config \cup {Nothing}]
    BY <1>1, MayWriteAssumption
  <2> QED BY <1>1, <1>3, <2>1 DEF ShapeInv, All
<1>6. IdleInv /\ PlanInv /\ OwnInv /\ LinkInv /\ OrderInv /\ DoubtInv /\ DoneInv
  BY <1>1 DEF IdleInv, PlanInv, OwnInv, LinkInv, OrderInv, DoubtInv, DoneInv
<1>7. Recorded(stored) = {}
  BY <1>1, <1>3 DEF Recorded, NoRecord
<1>8. LostInv /\ FreshInv /\ HeldInv
  BY <1>1, <1>7 DEF LostInv, FreshInv, HeldInv
<1>9. BuiltInv
  <2>1. \A u \in Units : exe[u] = "waiting"
    BY <1>1 DEF All
  <2> QED BY <1>7, <2>1 DEF BuiltInv
<1> QED BY <1>1, <1>4, <1>5, <1>6, <1>8, <1>9 DEF IInv

(* Nothing of the above depends on what is written now, but for the plan.  *)
LEMMA IdleKeeps ==
  ASSUME IInv, running = "none", running' = "none",
         UNCHANGED <<stored, own, links, deployed, op, deps, exe, excused, lost, doubtful>>
  PROVE  /\ IdleInv' /\ PlanInv' /\ OwnInv' /\ LinkInv' /\ OrderInv'
         /\ DoubtInv' /\ LostInv' /\ FreshInv' /\ HeldInv' /\ BuiltInv'
<1>1. IdleInv /\ DoubtInv /\ LostInv /\ FreshInv /\ HeldInv /\ BuiltInv
  BY DEF IInv
<1>2. \A u \in Units : exe[u] = "waiting" /\ op[u] = "None"
  BY <1>1 DEF IdleInv, All
<1>3. IdleInv' /\ PlanInv' /\ OwnInv' /\ LinkInv' /\ OrderInv'
  BY <1>1 DEF IdleInv, PlanInv, OwnInv, LinkInv, OrderInv
<1>4. DoubtInv' /\ LostInv' /\ FreshInv'
  BY <1>1 DEF DoubtInv, LostInv, FreshInv, Recorded, Exists, Outputs, Executed, Known, Carrying
<1>5. HeldInv'
  <2>1. SUFFICES ASSUME NEW u \in Recorded(stored) \ Left,
                        NEW l \in Outputs(stored.units[u].uses)
                 PROVE  l \in Exists(stored.links) \/ l \in doubtful
    BY DEF HeldInv, Recorded, Exists, Outputs, Left
  <2>2. u \in Units /\ l.to \in Units
    <3>1. u \in Units
      BY DEF Recorded
    <3>2. stored.units[u].uses \subseteq Link
      BY <3>1 DEF IInv, TypeOK, Record
    <3> QED BY <3>1, <3>2, LinkAssumption DEF ULinkT, Outputs
  <2>3. ~Refreshed(l) /\ exe[u] # "done"
    BY <1>2, <2>2 DEF Refreshed
  <2> QED BY <1>1, <2>3 DEF HeldInv
<1>6. BuiltInv'
  <2>1. \A u : Undisturbed(u)' = Undisturbed(u)
    BY DEF Undisturbed, Planned, Carrying
  <2>2. \A spec, uses : Built(spec, uses)' = Built(spec, uses)
    BY DEF Built, Carrying
  <2>3. \A u \in Units : exe'[u] # "done"
    BY <1>2
  <2>4. \A u : Built(stored.units[u].spec, stored.units[u].uses)'
                 = Built(stored.units[u].spec, stored.units[u].uses)
    BY DEF Built, Carrying
  <2>5. Recorded(stored)' = Recorded(stored) /\ Left' = Left
    BY DEF Recorded, Left
  <2> QED BY <1>1, <2>1, <2>3, <2>4, <2>5 DEF BuiltInv
<1> QED BY <1>3, <1>4, <1>5, <1>6

LEMMA EditKeepsIInv ==
  ASSUME IInv, NEW u \in Units, Edit(u)
  PROVE  IInv'
<1>1. /\ running = "none" /\ edits < MaxEdits /\ edits' = edits + 1 /\ done' = "none"
      /\ \E c \in MayWrite[u] \cup {Nothing} : /\ Loadable([desired EXCEPT ![u] = c])
                                              /\ desired' = [desired EXCEPT ![u] = c]
      /\ UNCHANGED <<stored, own, links, deployed, running, op, deps, exe, runs,
                     faults, excused, lost, doubtful>>
  BY DEF Edit
<1>2. TypeOK /\ ShapeInv
  BY DEF IInv
<1>3. Loadable(desired)' /\ desired' \in [Units -> Config \cup {Nothing}]
      /\ \A v \in Units : desired'[v] \in MayWrite[v] \cup {Nothing}
  <2>1. PICK c \in MayWrite[u] \cup {Nothing} : /\ Loadable([desired EXCEPT ![u] = c])
                                               /\ desired' = [desired EXCEPT ![u] = c]
    BY <1>1
  <2>2. Loadable(desired') /\ Loadable(desired)' = Loadable(desired')
    BY <2>1 DEF Loadable, OutputsScanner, RemoteStatesScanner, InitUnitPtr
  <2>3. c \in Config \cup {Nothing}
    BY MayWriteAssumption
  <2> QED BY <1>2, <2>1, <2>2, <2>3 DEF ShapeInv, TypeOK
<1>4. edits' \in 0..MaxEdits
  BY <1>1, <1>2, BoundsAssumption DEF TypeOK
<1>5. TypeOK'
  BY <1>1, <1>2, <1>3, <1>4 DEF TypeOK, Exists
<1>6. ShapeInv'
  BY <1>1, <1>2, <1>3 DEF ShapeInv
<1>7. DoneInv'
  BY <1>1 DEF DoneInv
<1> QED BY <1>1, <1>3, <1>5, <1>6, <1>7, IdleKeeps DEF IInv
LEMMA PlanningStays ==
  ASSUME UNCHANGED <<desired, stored>>
  PROVE  /\ LoadState' = LoadState /\ Declared' = Declared /\ Mistaken' = Mistaken
         /\ Recorded(stored)' = Recorded(stored) /\ Exists(stored.links)' = Exists(stored.links)
         /\ \A u : ApplyOperation(LoadState, u)' = ApplyOperation(LoadState, u)
         /\ \A u : DestroyOperation(LoadState, u)' = DestroyOperation(LoadState, u)
         /\ \A u : StateTargets(LoadState, u)' = StateTargets(LoadState, u)
<1>1. Declared' = Declared
  BY DEF Declared, OutputFunction, RemoteStateFunction, DependsOn, Written
<1>2. LoadState' = LoadState
  BY DEF LoadState
<1>3. \A u : Differs(LoadState, u)' = Differs(LoadState, u)
  BY <1>1, <1>2 DEF Differs
<1>4. \A u : Reach(u)' = Reach(u)
  BY DEF Reach
<1>5. \A u : DependencyChanged(LoadState, u)' = DependencyChanged(LoadState, u)
  BY <1>3, <1>4 DEF DependencyChanged
<1>6. \A u : ApplyOperation(LoadState, u)' = ApplyOperation(LoadState, u)
  BY <1>2, <1>3, <1>5 DEF ApplyOperation, Present
<1>7. \A u : DestroyOperation(LoadState, u)' = DestroyOperation(LoadState, u)
  BY <1>2 DEF DestroyOperation
<1>8. \A u : StateTargets(LoadState, u)' = StateTargets(LoadState, u)
  BY <1>2 DEF StateTargets
<1>9. Mistaken' = Mistaken
  BY <1>1 DEF Mistaken
<1>10. Recorded(stored)' = Recorded(stored) /\ Exists(stored.links)' = Exists(stored.links)
  BY DEF Recorded, Exists
<1> QED BY <1>1, <1>2, <1>6, <1>7, <1>8, <1>9, <1>10

LEMMA PlanHas ==
  ASSUME IInv, NEW cmd \in {"apply", "destroy"}, Plan(cmd)
  PROVE  /\ running = "none" /\ running' = cmd /\ done' = "none"
         /\ UNCHANGED <<desired, stored, deployed, exe, edits, faults>>
         /\ excused' = excused \cup lost /\ lost' = {}
         /\ own' = LoadState
         /\ op' = [u \in Units |-> IF cmd = "apply" THEN ApplyOperation(LoadState, u)
                                                    ELSE DestroyOperation(LoadState, u)]
         /\ deps' = [u \in Units |-> IF op'[u] = "Destroy" THEN StateTargets(LoadState, u)
                                                           ELSE UniqUnits(desired[u].uses)]
         /\ links' = [l \in Link |-> links'[l]]
         /\ \A l \in Link : links'[l] = JoinedLink(l)'
         /\ doubtful' = doubtful \cup Mistaken \cup OutputsOf(lost)
         /\ runs < MaxRuns /\ runs' = runs + 1
         /\ \A u \in Units : exe[u] = "waiting" /\ op[u] = "None"
<1>1. /\ running = "none" /\ running' = cmd /\ done' = "none"
      /\ UNCHANGED <<desired, stored, deployed, exe, edits, faults>>
      /\ excused' = excused \cup lost /\ lost' = {}
      /\ own' = LoadState
      /\ op' = [u \in Units |-> IF cmd = "apply" THEN ApplyOperation(own', u)
                                                 ELSE DestroyOperation(own', u)]
      /\ deps' = [u \in Units |-> IF op'[u] = "Destroy" THEN StateTargets(own', u)
                                                        ELSE UniqUnits(desired[u].uses)]
      /\ links' = JoinWithDataReplace(own'.links)
      /\ doubtful' = doubtful \cup Mistaken \cup OutputsOf(lost)
      /\ runs < MaxRuns /\ runs' = runs + 1
  BY DEF Plan
<1>2. links' = [l \in Link |-> IF op'[l.to] = "NotChanged" /\ own'.links[l] # NoLink THEN own'.links[l]
                             ELSE IF l \in Declared THEN NoData ELSE NoLink]
  BY <1>1 DEF JoinWithDataReplace
<1>3. links' = [l \in Link |-> links'[l]]
  BY <1>2
<1>4. \A l \in Link : links'[l] = JoinedLink(l)'
  BY <1>1, <1>2, PlanningStays DEF JoinedLink
<1>5. \A u \in Units : exe[u] = "waiting" /\ op[u] = "None"
  BY <1>1 DEF IInv, IdleInv, All
<1>6. op' = [u \in Units |-> IF cmd = "apply" THEN ApplyOperation(LoadState, u)
                                              ELSE DestroyOperation(LoadState, u)]
  BY <1>1
<1>7. deps' = [u \in Units |-> IF op'[u] = "Destroy" THEN StateTargets(LoadState, u)
                                                     ELSE UniqUnits(desired[u].uses)]
  BY <1>1
<1> QED BY <1>1, <1>3, <1>4, <1>5, <1>6, <1>7

LEMMA PlanKeepsType ==
  ASSUME IInv, NEW cmd \in {"apply", "destroy"}, Plan(cmd)
  PROVE  TypeOK' /\ Loadable(desired)' /\ ShapeInv'
<1>1. TypeOK /\ ShapeInv /\ Sane
  BY DEF IInv, ShapeInv, Sane
<1>2. /\ stored' = stored /\ desired' = desired /\ own' = LoadState
      /\ LoadState.units = stored.units
      /\ LoadState.links = [l \in Link |-> LoadState.links[l]]
      /\ \A l \in Link : IsOutput(LoadState.links[l])
                         /\ (l.kind # "output" => LoadState.links[l] \in {NoData, NoLink})
  BY <1>1, LoadedState, PlanHas
<1>3. /\ stored.units \in [Units -> Record] /\ DOMAIN stored.links = Link
      /\ \A l \in Link : /\ IsOutput(stored.links[l])
                         /\ stored.links[l] # NoLink /\ l.kind # "output" => stored.links[l] = NoData
  BY <1>1 DEF TypeOK, Exists
<1>4. /\ own'.units \in [Units -> Record] /\ DOMAIN own'.links = Link
      /\ \A l \in Link : /\ IsOutput(own'.links[l])
                         /\ own'.links[l] # NoLink /\ l.kind # "output" => own'.links[l] = NoData
  BY <1>2, <1>3
<1>5. IsOutput(NoData) /\ IsOutput(NoLink)
  BY DEF IsOutput, NoData, NoLink
<1>6. DOMAIN links' = Link /\ \A l \in Link : IsOutput(links'[l])
  <2>1. ASSUME NEW l \in Link PROVE IsOutput(links'[l])
    <3>1. links'[l] \in {LoadState.links[l], NoData, NoLink}
      BY <1>2, PlanHas, PlanningStays DEF JoinedLink
    <3> QED BY <1>2, <1>5, <3>1
  <2> QED BY <2>1, PlanHas
<1>7. op' \in [Units -> {"None", "Apply", "Update", "Destroy", "NotChanged"}]
  <2>1. \A u : ApplyOperation(LoadState, u) \in {"None", "Apply", "Update", "Destroy", "NotChanged"}
    <3>1. TAKE u
    <3>2. CASE u \in Present /\ u \in Recorded(LoadState)
      BY <3>2 DEF ApplyOperation
    <3>3. CASE ~(u \in Present /\ u \in Recorded(LoadState))
      BY <3>3 DEF ApplyOperation
    <3> QED BY <3>2, <3>3
  <2>2. \A u : DestroyOperation(LoadState, u) \in {"None", "Apply", "Update", "Destroy", "NotChanged"}
    BY DEF DestroyOperation
  <2> QED BY <2>1, <2>2, PlanHas
<1>8. deps' \in [Units -> SUBSET Units]
  <2>1. ASSUME NEW u \in Units
        PROVE  StateTargets(LoadState, u) \subseteq Units /\ UniqUnits(desired[u].uses) \subseteq Units
    <3>1. LoadState.units[u].uses \subseteq Link /\ desired[u].uses \subseteq Link
      BY <1>1, <1>2, <1>3, UsesAreLinks DEF Record
    <3>2. \A l \in Link : l.to \in Units
      BY <1>1, UsesAreLinks
    <3> QED BY <3>1, <3>2 DEF StateTargets, UniqUnits
  <2> QED BY <2>1, PlanHas
<1>9. runs' \in 0..MaxRuns
  BY <1>1, PlanHas, BoundsAssumption DEF TypeOK
<1>10. doubtful' \in SUBSET Link
  BY <1>1, PlanHas DEF TypeOK, Mistaken, OutputsOf
<1>11. /\ \A u \in Units : desired'[u] \in MayWrite[u] \cup {Nothing}
       /\ DOMAIN deployed' = Units /\ \A u \in Units : IsOutput(deployed'[u])
       /\ running' \in {"apply", "destroy", "none"} /\ done' \in {"apply", "destroy", "none"}
       /\ exe' \in [Units -> {"waiting", "done", "failed", "skipped"}]
       /\ edits' \in 0..MaxEdits /\ faults' \in 0..MaxFaults
       /\ excused' \in SUBSET Units /\ lost' \in SUBSET Units
  BY <1>1, PlanHas DEF TypeOK
<1>12. TypeOK'
  BY <1>2, <1>3, <1>4, <1>6, <1>7, <1>8, <1>9, <1>10, <1>11 DEF TypeOK, Exists
<1>13. Loadable(desired)'
  BY <1>1, <1>2 DEF Sane, Loadable, OutputsScanner, RemoteStatesScanner, InitUnitPtr
<1>14. ShapeInv'
  BY <1>1, <1>2, PlanHas DEF ShapeInv
<1> QED BY <1>12, <1>13, <1>14

LEMMA PlanKeepsIInv ==
  ASSUME IInv, NEW cmd \in {"apply", "destroy"}, Plan(cmd)
  PROVE  IInv'
<1>1. TypeOK /\ ShapeInv /\ Sane /\ DoubtInv /\ FreshInv /\ HeldInv /\ BuiltInv
  BY DEF IInv, ShapeInv, Sane
<1>2. /\ running = "none" /\ running' = cmd /\ done' = "none"
      /\ stored' = stored /\ desired' = desired /\ deployed' = deployed /\ exe' = exe
      /\ lost' = {} /\ Left' = Left /\ excused' = Left /\ own' = LoadState
      /\ doubtful' = doubtful \cup Mistaken \cup OutputsOf(lost)
      /\ \A u \in Units : exe[u] = "waiting" /\ op[u] = "None"
  BY PlanHas DEF Left
<1>3. /\ LoadState' = LoadState /\ Declared' = Declared /\ Mistaken' = Mistaken
      /\ Recorded(stored)' = Recorded(stored) /\ Exists(stored.links)' = Exists(stored.links)
  BY <1>2, PlanningStays
<1>4. \A l \in Link : l.to \in Units
  BY <1>1, UsesAreLinks
<1>5. \A l \in Link : ~Refreshed(l) /\ ~Refreshed(l)' /\ ~Executed(l.to) /\ ~Executed(l.to)'
  BY <1>2, <1>4 DEF Refreshed, Executed
<1>6. IdleInv'
  BY <1>2 DEF IdleInv
<1>7. PlanInv'
  <2>1. op' = [u \in Units |-> IF running' = "apply" THEN ApplyOperation(LoadState, u)'
                                                     ELSE DestroyOperation(LoadState, u)']
    BY <1>2, PlanHas, PlanningStays
  <2>2. deps' = [u \in Units |-> IF op'[u] = "Destroy" THEN StateTargets(LoadState, u)'
                                                      ELSE UniqUnits(desired'[u].uses)]
    BY <1>2, PlanHas, PlanningStays
  <2> QED BY <1>2, <2>1, <2>2 DEF PlanInv
<1>8. OwnInv'
  <2>1. \A u \in Units : RunRecord(u)' = stored.units[u]
    BY <1>2 DEF RunRecord, Executed
  <2>2. \A l \in Link : RunLink(l)' = LoadState.links[l]
    <3>1. TAKE l \in Link
    <3>2. exe'[l.to] = "waiting"
      BY <1>2, <1>4
    <3> QED BY <1>3, <3>2 DEF RunLink, Executed
  <2>3. LoadState = [units |-> stored.units, links |-> [l \in Link |-> LoadState.links[l]]]
        /\ stored.units = [u \in Units |-> stored.units[u]]
    BY <1>1, LoadedState DEF TypeOK
  <2> QED BY <1>2, <2>1, <2>2, <2>3 DEF OwnInv
<1>9. LinkInv'
  <2>1. ASSUME NEW l \in Link
        PROVE  links'[l] = JoinedLink(l)' /\ (l.kind # "output" => links'[l] \in {NoData, NoLink})
    <3>1. links'[l] = JoinedLink(l)'
      BY PlanHas
    <3>2. l.kind # "output" => LoadState.links[l] \in {NoData, NoLink}
      BY <1>1, LoadedState
    <3> QED BY <1>3, <3>1, <3>2 DEF JoinedLink
  <2> QED BY <1>5, <2>1 DEF LinkInv
<1>10. OrderInv'
  BY <1>2 DEF OrderInv
<1>11. DoubtInv'
  BY <1>1, <1>2, <1>3 DEF DoubtInv, Mistaken, Outputs, OutputsOf
<1>12. LostInv' /\ FreshInv'
  <2>1. \A l \in Outputs(Link) : l \notin doubtful' => l \notin doubtful /\ l.to \notin lost
    BY <1>2 DEF Outputs, OutputsOf
  <2> QED BY <1>1, <1>2, <1>3, <1>5, <2>1 DEF LostInv, FreshInv, Outputs
<1>13. HeldInv'
  <2>1. \A u \in Recorded(stored) \ Left : \A l \in Outputs(stored.units[u].uses) : l \in Link
    BY <1>1 DEF TypeOK, Record, Recorded, Outputs
  <2>2. \A u \in Recorded(stored) : exe[u] # "done"
    BY <1>2 DEF Recorded
  <2> QED BY <1>1, <1>2, <1>3, <1>5, <2>1, <2>2 DEF HeldInv, Outputs
<1>14. BuiltInv'
  <2>1. \A u \in Units : u \notin Planned
    BY <1>2 DEF Planned
  <2>2. ASSUME NEW u \in Recorded(stored) \ Left, Undisturbed(u)' PROVE Undisturbed(u)
    <3>1. u \in Units
      BY DEF Recorded
    <3> QED BY <1>2, <2>1, <2>2, <3>1 DEF Undisturbed, Carrying
  <2>3. \A u \in Units : exe'[u] # "done"
    BY <1>2
  <2>4. \A u : Built(stored.units[u].spec, stored.units[u].uses)'
                 = Built(stored.units[u].spec, stored.units[u].uses)
    BY <1>2 DEF Built, Carrying
  <2> QED BY <1>1, <1>2, <1>3, <2>2, <2>3, <2>4 DEF BuiltInv
<1>15. DoneInv'
  BY <1>2 DEF DoneInv
<1> QED BY <1>6, <1>7, <1>8, <1>9, <1>10, <1>11, <1>12, <1>13, <1>14, <1>15, PlanKeepsType DEF IInv

(* Nothing happens.                                                        *)
LEMMA StutterKeepsIInv ==
  ASSUME IInv, UNCHANGED vars
  PROVE  IInv'
<1>1. /\ UNCHANGED runData /\ UNCHANGED <<own, links, deployed, exe, faults, excused, doubtful>>
      /\ lost' = lost /\ desired' = desired /\ stored' = stored /\ running' = running /\ op' = op /\ deps' = deps
      /\ done' = done
  BY DEF vars, runData
<1>2. TypeOK' /\ ShapeInv' /\ IdleInv' /\ Loadable(desired)'
  BY DEF IInv, vars, TypeOK, ShapeInv, IdleInv, Exists, Loadable, OutputsScanner,
         RemoteStatesScanner, InitUnitPtr
<1>3. PlanInv' /\ OrderInv'
  BY <1>1, RunStays DEF IInv, PlanInv, OrderInv, Waiting
<1>4. OwnInv'
  <2>1. \A u : RunRecord(u)' = RunRecord(u)
    BY <1>1 DEF RunRecord, Executed, Changing
  <2>2. \A l : RunLink(l)' = RunLink(l)
    BY <1>1, RunStays DEF RunLink, Executed, Changing
  <2> QED BY <1>1, <2>1, <2>2 DEF IInv, OwnInv
<1>5. \A l : Refreshed(l)' = Refreshed(l)
  BY <1>1, RunStays DEF Refreshed, Changing
<1>6. \A u : Executed(u)' = Executed(u)
  BY <1>1 DEF Executed
<1>7. LinkInv' /\ DoubtInv'
  BY <1>1, <1>5, <1>6, RunStays DEF IInv, LinkInv, DoubtInv, Changing
<1>8. LostInv' /\ FreshInv' /\ HeldInv'
  BY <1>1, <1>5, <1>6, RunStays DEF IInv, LostInv, FreshInv, HeldInv, Exists, Outputs, Carrying, Left
<1>9. BuiltInv'
  <2>1. \A u : Undisturbed(u)' = Undisturbed(u) /\ WellSupplied(u)' = WellSupplied(u)
    BY <1>1, RunStays DEF Undisturbed, WellSupplied, Carrying
  <2>2. \A u : /\ Built(stored.units[u].spec, stored.units[u].uses)'
                    = Built(stored.units[u].spec, stored.units[u].uses)
               /\ Built(desired[u].spec, desired[u].uses)' = Built(desired[u].spec, desired[u].uses)
    BY <1>1 DEF Built, Carrying
  <2> QED BY <1>1, <2>1, <2>2, RunStays DEF IInv, BuiltInv, Left
<1>10. DoneInv'
  <2>1. \A u : Built(desired[u].spec, desired[u].uses)' = Built(desired[u].spec, desired[u].uses)
    BY <1>1 DEF Built, Carrying
  <2>2. AsWritten => AsWritten'
    BY <1>1, <2>1, RunStays DEF AsWritten
  <2>3. Records(stored.units, LoadState.links) => Records(stored.units, LoadState.links)'
    BY <1>1, RunStays DEF Records, Exists, Carrying
  <2> QED BY <1>1, <2>2, <2>3 DEF IInv, DoneInv
<1> QED BY <1>2, <1>3, <1>4, <1>7, <1>8, <1>9, <1>10 DEF IInv

LEMMA NextKeepsIInv ==
  ASSUME IInv, [Next]_vars
  PROVE  IInv'
<1>1. ASSUME NEW u \in Units, Edit(u) PROVE IInv'
  BY <1>1, EditKeepsIInv
<1>2. ASSUME NEW u \in Units, Apply(u) PROVE IInv'
  BY <1>2, ApplyHas, EffectKeepsIInv
<1>3. ASSUME NEW u \in Units, FailApply(u) PROVE IInv'
  BY <1>3, FailApplyHas, EffectKeepsIInv
<1>4. ASSUME NEW u \in Units, Destroy(u) PROVE IInv'
  BY <1>4, DestroyHas, EffectKeepsIInv
<1>5. ASSUME NEW u \in Units, FailDestroy(u) PROVE IInv'
  BY <1>5, FailDestroyHas, EffectKeepsIInv
<1>6. ASSUME NEW u \in Units, PrepareFails(u) PROVE IInv'
  BY <1>6, PrepareFailsHas, EffectKeepsIInv
<1>7. CASE Plan("apply") \/ Plan("destroy")
  BY <1>7, PlanKeepsIInv
<1>8. faults \in 0..MaxFaults /\ (running # "none" => running \in {"apply", "destroy"})
  BY DEF IInv, TypeOK
<1>9. CASE Succeed
  <2>1. Save /\ faults' = faults /\ done' = IF Some("skipped") THEN "none" ELSE running
    BY <1>9 DEF Succeed
  <2>2. running # "none"
    BY <2>1 DEF Save
  <2> QED BY <1>8, <1>9, <2>1, <2>2, SaveKeepsIInv, SuccessIsComplete
<1>10. CASE GiveUp
  <2>1. Save /\ faults' = faults /\ done' = "none"
    BY <1>10 DEF GiveUp
  <2> QED BY <1>8, <2>1, SaveKeepsIInv DEF DoneInv
<1>11. CASE Interrupt
  <2>1. Save /\ faults' \in 0..MaxFaults /\ done' = "none"
    BY <1>11, OneMoreFault DEF Interrupt
  <2> QED BY <2>1, SaveKeepsIInv DEF DoneInv
<1>12. TypeOK /\ DoubtInv /\ PlanInv /\ Sane
  BY DEF IInv, ShapeInv, Sane
<1>13. OutputsOf(Planned) \subseteq Outputs(Link) /\ AndAbove(Planned) \in SUBSET Units
       /\ \A l \in Outputs(Link) : l.to \in Planned => l \in OutputsOf(Planned)
  BY DEF OutputsOf, Outputs, AndAbove, Planned, Dependents
<1>14. CASE SucceedUnsaved
  <2>1. /\ Unsaved /\ running = "apply" /\ done' = "apply" /\ lost' = AndAbove(Planned)
        /\ excused' = excused /\ doubtful' = doubtful
    BY <1>14 DEF SucceedUnsaved
  <2>2. DoneInv'
    BY <1>14, UnsavedIsComplete
  <2>3. Planned \subseteq lost' /\ AndAbove(Planned) \subseteq Left'
    BY <2>1 DEF AndAbove, Left
  <2> QED BY <1>12, <1>13, <2>1, <2>2, <2>3, UnsavedKeepsIInv DEF TypeOK, DoubtInv
<1>15. CASE Crash
  <2>1. /\ Unsaved /\ running # "none" /\ done' = "none" /\ lost' = lost
        /\ excused' = excused \cup AndAbove(Planned) /\ doubtful' = doubtful \cup OutputsOf(Planned)
    BY <1>15 DEF Crash, Unsaved
  <2>2. DoneInv' /\ lost' = {} /\ AndAbove(Planned) \subseteq Left'
    BY <1>12, <2>1 DEF DoneInv, PlanInv, Left
  <2> QED BY <1>12, <1>13, <2>1, <2>2, UnsavedKeepsIInv DEF TypeOK, DoubtInv
<1>16. CASE Rest \/ UNCHANGED vars
  BY <1>16, StutterKeepsIInv DEF Rest
<1> QED BY <1>1, <1>2, <1>3, <1>4, <1>5, <1>6, <1>7, <1>9, <1>10, <1>11, <1>14, <1>15, <1>16 DEF Next

THEOREM IInvHolds == Spec => []IInv
<1>1. Init => IInv
  BY InitSatisfiesIInv
<1>2. IInv /\ [Next]_vars => IInv'
  BY NextKeepsIInv
<1> QED BY <1>1, <1>2, PTL DEF Spec
------------------------------------------------------------------------------
(* The results.                                                            *)

(* Every variable of Links stays in its set, in particular the data that   *)
(* Join and JoinWithDataReplace carry between project and state.           *)
THEOREM LinksTyped == Spec => []TypeOK
<1>1. IInv => TypeOK
  BY DEF IInv
<1> QED BY <1>1, IInvHolds, PTL

(* As long as a unit is recorded, the state holds the outputs it uses      *)
(* (UpdateUnit, ClearULinks), whatever failed or was interrupted.          *)
THEOREM StateKeepsOutputs == Spec => []OutputsAreKept
<1>1. ASSUME IInv PROVE OutputsAreKept
  <2>1. SUFFICES ASSUME NEW u \in Recorded(own) \ (excused \cup lost),
                        NEW l \in own.units[u].uses, l.kind = "output", l.to \in Recorded(own), ~own.units[l.to].tainted,
                        exe[l.to] # "skipped", l \notin doubtful
                 PROVE  Known(own.links[l])
    BY DEF OutputsAreKept
  <2>2. u \in Units /\ l \in Outputs(own.units[u].uses) /\ l \in Outputs(Link)
    <3>1. u \in Units
      BY DEF Recorded
    <3>2. own.units[u].uses \subseteq Link
      BY <1>1, <3>1 DEF IInv, TypeOK, Record
    <3> QED BY <2>1, <3>1, <3>2 DEF Outputs
  <2>3. CASE running # "none"
    BY <1>1, <2>1, <2>2, <2>3, OwnIsHeld, OwnIsFresh
  <2>4. CASE running = "none"
    <3>1. own = stored /\ \A v \in Units : exe[v] = "waiting" /\ op[v] = "None"
      BY <1>1, <2>4 DEF IInv, IdleInv, All
    <3>2. l.to \in Units
      BY <2>1 DEF Recorded
    <3>3. ~Executed(l.to) /\ ~Refreshed(l) /\ exe[u] # "done"
      BY <2>2, <3>1, <3>2 DEF Executed, Refreshed
    <3>4. l \in Exists(stored.links)
      BY <1>1, <2>1, <2>2, <3>1, <3>3 DEF IInv, HeldInv, Left
    <3>5. l \in Carrying(stored.units[u].uses)
      BY <2>1, <3>1 DEF Carrying
    <3>6. l.to \notin lost
      BY <1>1, <2>1, <3>1, <3>5 DEF IInv, LostInv
    <3> QED BY <1>1, <2>1, <2>2, <3>1, <3>3, <3>4, <3>6 DEF IInv, FreshInv
  <2> QED BY <2>3, <2>4
<1> QED BY <1>1, IInvHolds, PTL

(* After a successful apply the next plan is empty: every unit compares    *)
(* equal in what it is, in the links it uses and in the outputs it is      *)
(* asked for (checkUnitChangesRecursive).                                  *)
THEOREM AppliesSettle == Spec => []Settles
<1>1. ASSUME IInv PROVE Settles
  <2>1. SUFFICES ASSUME done = "apply", lost = {}, LeftOver = {}, AskedOnce, NEW u \in Units
                 PROVE  ApplyOperation(LoadState, u) \in {"NotChanged", "None"}
    BY DEF Settles
  <2>2. TypeOK /\ ShapeInv /\ Sane
    BY <1>1 DEF IInv, ShapeInv, Sane
  <2>3. /\ \A v \in Units : stored.units[v].spec # 0 <=> v \in Present
        /\ \A v \in Present : /\ stored.units[v].spec = desired[v].spec /\ ~stored.units[v].tainted
                              /\ Carrying(stored.units[v].uses) = Carrying(desired[v].uses)
        /\ \A l \in Declared : \E k \in Exists(LoadState.links) : k.to = l.to /\ k.name = l.name
    BY <1>1, <2>1 DEF IInv, DoneInv, Records
  <2>4. LoadState.units = stored.units /\ \A v \in Units : v \in Recorded(LoadState) <=> v \in Present
    BY <2>2, <2>3, LoadedState DEF Recorded
  <2>5. Exists(LoadState.links) = Declared
    <3>1. Exists(LoadState.links) \subseteq Declared
      BY <2>1 DEF LeftOver
    <3>2. ASSUME NEW l \in Declared PROVE l \in Exists(LoadState.links)
      <4>1. PICK k \in Exists(LoadState.links) : k.to = l.to /\ k.name = l.name
        BY <2>3
      <4>2. k = l
        BY <2>1, <3>1, <4>1 DEF AskedOnce
      <4> QED BY <4>1, <4>2
    <3> QED BY <3>1, <3>2
  <2>6. ASSUME NEW v \in Present PROVE ~Differs(LoadState, v)
    <3>1. v \in Units /\ stored.units[v].uses \subseteq Link /\ desired[v].uses \subseteq Link
      BY <2>2, UsesAreLinks DEF Present, TypeOK, Record
    <3>2. /\ ByLinkTypes(stored.units[v].uses, "output") = ByLinkTypes(desired[v].uses, "output")
          /\ ByLinkTypes(stored.units[v].uses, "remote") = ByLinkTypes(desired[v].uses, "remote")
      <4>1. \A l : l \in Carrying(stored.units[v].uses) <=> l \in Carrying(desired[v].uses)
        BY <2>3
      <4> QED BY <4>1 DEF Carrying, ByLinkTypes
    <3>3. Marked(stored.units[v].uses, Declared) = Marked(desired[v].uses, Declared)
      BY <3>2 DEF Marked, StateOutputsReplacer, StringRemStScanner
    <3> QED BY <2>3, <2>4, <2>5, <3>3 DEF Differs
  <2>7. CASE u \in Present
    <3>1. \A v \in Reach(u) : ~Differs(LoadState, v)
      BY <2>2, <2>6, ReachIsPresent
    <3>2. ~DependencyChanged(LoadState, u)
      BY <3>1 DEF DependencyChanged
    <3>3. ~Differs(LoadState, u) /\ ~LoadState.units[u].tainted
      BY <2>3, <2>4, <2>6, <2>7
    <3>4. ApplyOperation(LoadState, u) = "NotChanged"
      BY <2>4, <2>7, <3>2, <3>3 DEF ApplyOperation
    <3> QED BY <3>4
  <2>8. CASE u \notin Present
    BY <2>4, <2>8 DEF ApplyOperation
  <2> QED BY <2>7, <2>8
<1> QED BY <1>1, IInvHolds, PTL
(* The reference is well defined: links make no circles.                   *)
Rule(f, u) ==
  [spec |-> desired[u].spec, seen |-> {<<l, f[l.to]>> : l \in Carrying(desired[u].uses)}]

Cone(u) == {u} \cup Reach(u)
Solves(f, u) == \A v \in Cone(u) : f[v] = Rule(f, v)

LEMMA ConesNest ==
  ASSUME Sane, NEW u \in Units
  PROVE  /\ Cone(u) \subseteq Units /\ u \in Cone(u)
         /\ \A v \in Cone(u) : Cone(v) \subseteq Cone(u)
         /\ \A v \in Cone(u) : \A l \in desired[v].uses : l.to \in Cone(u)
BY ReachFollows, ReachIsTransitive DEF Cone, UniqUnits

LEMMA LeastOf ==
  ASSUME Sane, NEW S \in SUBSET Units, S # {}
  PROVE  \E m \in S : \A l \in desired[m].uses : l.to \notin S
<1>1. \E m \in S : UniqUnits(desired[m].uses) \cap S = {}
  BY DEF Sane, Loadable
<1> QED BY <1>1 DEF UniqUnits

LEMMA RuleIsLocal ==
  ASSUME NEW u \in Units, NEW f, NEW g, \A l \in desired[u].uses : f[l.to] = g[l.to]
  PROVE  Rule(f, u) = Rule(g, u)
<1>1. {<<l, f[l.to]>> : l \in Carrying(desired[u].uses)} = {<<l, g[l.to]>> : l \in Carrying(desired[u].uses)}
  BY DEF Carrying
<1> QED BY <1>1 DEF Rule

LEMMA SolutionsAgree ==
  ASSUME Sane, NEW u \in Units, NEW f, NEW g, Solves(f, u), Solves(g, u)
  PROVE  \A v \in Cone(u) : f[v] = g[v]
<1> DEFINE S == {v \in Cone(u) : f[v] # g[v]}
<1>1. SUFFICES ASSUME S # {} PROVE FALSE
  OBVIOUS
<1>2. S \in SUBSET Units
  BY ConesNest
<1>3. PICK m \in S : \A l \in desired[m].uses : l.to \notin S
  <2> HIDE DEF S
  <2> QED BY <1>1, <1>2, LeastOf
<1>4. \A l \in desired[m].uses : f[l.to] = g[l.to]
  BY <1>3, ConesNest
<1>5. f[m] = Rule(f, m) /\ g[m] = Rule(g, m)
  BY <1>3 DEF Solves
<1>6. Rule(f, m) = Rule(g, m)
  BY <1>2, <1>3, <1>4, RuleIsLocal
<1> QED BY <1>3, <1>5, <1>6

LEMMA SolutionExists ==
  ASSUME Sane
  PROVE  \E g : g = [u \in Units |-> Rule(g, u)]
<1> DEFINE Solution(u) == CHOOSE f : Solves(f, u)
           G == {u \in Units : Solves(Solution(u), u)}
           g == [u \in Units |-> Solution(u)[u]]
<1>1. ASSUME NEW u \in Units, NEW f, Solves(f, u) PROVE u \in G
  <2>1. Solves(Solution(u), u)
    <3>1. \E h : Solves(h, u)
      BY <1>1
    <3> QED BY <3>1
  <2> QED BY <2>1
<1>2. ASSUME NEW u \in Units, NEW v \in Cone(u), NEW f, Solves(f, u)
      PROVE  v \in Units /\ Solves(f, v)
  <2>1. v \in Units /\ Cone(v) \subseteq Cone(u)
    BY ConesNest
  <2> QED BY <1>2, <2>1 DEF Solves
<1>3. \A u \in G : u \in Units /\ Solves(Solution(u), u)
  OBVIOUS
<1>4. \A u \in Units : g[u] = Solution(u)[u]
  OBVIOUS
<1> HIDE DEF Solution, G
<1>5. ASSUME NEW u \in G PROVE g[u] = Rule(g, u) /\ \A v \in Cone(u) : v \in G
  <2> DEFINE f == Solution(u)
  <2>1. u \in Units /\ Solves(f, u) /\ f[u] = Rule(f, u) /\ g[u] = f[u]
    <3>1. u \in Units /\ Solves(f, u)
      BY <1>3
    <3> QED BY <1>4, <3>1, ConesNest DEF Solves
  <2> HIDE DEF f, g
  <2>2. ASSUME NEW v \in Cone(u) PROVE v \in G /\ f[v] = g[v]
    <3>1. v \in Units /\ Solves(f, v)
      BY <1>2, <2>1
    <3>2. v \in G /\ Solves(Solution(v), v)
      BY <1>1, <1>3, <3>1
    <3>3. f[v] = Solution(v)[v]
      BY <3>1, <3>2, ConesNest, SolutionsAgree
    <3> QED BY <1>4, <3>1, <3>2, <3>3
  <2>3. \A l \in desired[u].uses : f[l.to] = g[l.to]
    BY <2>1, <2>2, ConesNest
  <2>4. Rule(f, u) = Rule(g, u)
    BY <2>1, <2>3, RuleIsLocal
  <2> QED BY <2>1, <2>2, <2>4
<1>6. G \subseteq Units /\ DOMAIN g = Units
  BY <1>3
<1>7. Units \subseteq G
  <2>1. SUFFICES ASSUME Units \ G # {} PROVE FALSE
    OBVIOUS
  <2>2. PICK m \in Units \ G : \A l \in desired[m].uses : l.to \notin Units \ G
    BY <2>1, LeastOf
  <2>3. Reach(m) \subseteq G
    <3>1. UniqUnits(desired[m].uses) \subseteq G
      BY <2>2, TargetsPresent DEF UniqUnits, Present
    <3>2. \A w \in G : UniqUnits(desired[w].uses) \subseteq G
      <4>1. SUFFICES ASSUME NEW w \in G, NEW l \in desired[w].uses PROVE l.to \in G
        BY DEF UniqUnits
      <4>2. w \in Units /\ l.to \in Cone(w)
        BY <1>6, ConesNest
      <4> QED BY <1>5, <4>2
    <3> QED BY <1>6, <3>1, <3>2, ReachIsLeast
  <2> DEFINE f == [u \in Units |-> IF u = m THEN Rule(g, m) ELSE g[u]]
  <2>4. f[m] = Rule(g, m) /\ \A v \in Units : v # m => f[v] = g[v]
    BY <2>2
  <2> HIDE DEF f, g
  <2>5. \A v \in Reach(m) : v \in Units /\ v # m /\ f[v] = g[v]
    BY <1>6, <2>2, <2>3, <2>4
  <2>6. ASSUME NEW v \in Cone(m) PROVE f[v] = Rule(f, v)
    <3>1. v \in Units /\ \A l \in desired[v].uses : l.to \in Reach(m)
      BY <2>2, ReachFollows DEF Cone, UniqUnits
    <3>2. Rule(f, v) = Rule(g, v)
      BY <2>5, <3>1, RuleIsLocal
    <3>3. CASE v = m
      BY <2>4, <3>2, <3>3
    <3>4. CASE v # m
      BY <1>5, <2>3, <2>5, <3>2, <3>4 DEF Cone
    <3> QED BY <3>3, <3>4
  <2>7. Solves(f, m)
    BY <2>6 DEF Solves
  <2> QED BY <1>1, <2>2, <2>7
<1>8. \A u \in Units : g[u] = Rule(g, u)
  BY <1>5, <1>7
<1>9. g = [u \in Units |-> g[u]]
  OBVIOUS
<1>10. g = [u \in Units |-> Rule(g, u)]
  <2> HIDE DEF g
  <2> QED BY <1>8, <1>9
<1> QED BY <1>10

LEMMA WantedIs ==
  ASSUME Sane, NEW u \in Units
  PROVE  Wanted[u] = Rule(Wanted, u)
<1>1. \A v \in Units : desired[v].uses \ DependsOn = Carrying(desired[v].uses)
  BY UsesAreLinks DEF DependsOn, ByLinkTypes, Written, Carrying
<1> DEFINE WrittenBy(f) == [v \in Units |-> [spec |-> desired[v].spec,
                            seen |-> {<<l, f[l.to]>> : l \in desired[v].uses \ DependsOn}]]
           IsWanted(f) == f = WrittenBy(f)
<1>2. ASSUME NEW f PROVE WrittenBy(f) = [v \in Units |-> Rule(f, v)]
  BY <1>1 DEF Rule
<1>3. Wanted = CHOOSE f : IsWanted(f)
  BY DEF Wanted
<1>4. \E f : IsWanted(f)
  BY <1>2, SolutionExists
<1>5. IsWanted(Wanted)
  <2> HIDE DEF IsWanted
  <2> QED BY <1>3, <1>4
<1>6. \A f : IsWanted(f) => f = [v \in Units |-> Rule(f, v)]
  BY <1>2
<1>7. \A f : f = [v \in Units |-> Rule(f, v)] => f[u] = Rule(f, u)
  OBVIOUS
<1> HIDE DEF IsWanted
<1> QED BY <1>5, <1>6, <1>7

(* After a successful apply every unit is deployed with the present        *)
(* outputs of the units it uses, however many links away a change was      *)
(* made, except where the run did not see or not finish it.                *)
THEOREM OutputsArriveFresh == Spec => []OutputsAreFresh
<1>1. ASSUME IInv PROVE OutputsAreFresh
  <2>1. SUFFICES ASSUME done = "apply", NEW u \in Present, ~Unfinished(u), Certain(u)
                 PROVE  deployed[u] = Wanted[u]
    BY DEF OutputsAreFresh
  <2>2. TypeOK /\ ShapeInv /\ Sane /\ u \in Units
    BY <1>1 DEF IInv, ShapeInv, Sane, Present
  <2>3. ASSUME NEW v \in Cone(u) PROVE deployed[v] = Rule(deployed, v)
    <3>1. v \in Units /\ v \in Present /\ v \notin excused /\ desired[v].uses \cap doubtful = {}
      BY <2>1, <2>2, ConesNest, ReachIsPresent DEF Cone, Unfinished, Certain
    <3>2. deployed[v] = Built(desired[v].spec, desired[v].uses)
      BY <1>1, <2>1, <3>1 DEF IInv, DoneInv, AsWritten
    <3> QED BY <3>2 DEF Built, Rule
  <2>4. Solves(deployed, u) /\ Solves(Wanted, u)
    BY <2>2, <2>3, ConesNest, WantedIs DEF Solves
  <2> QED BY <2>2, <2>4, ConesNest, SolutionsAgree
<1> QED BY <1>1, IInvHolds, PTL

================================================================================
