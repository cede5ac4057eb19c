------------------------------ MODULE PlanGraph ------------------------------
(***************************************************************************)
(* What a planned execution is made of (pkg/project/graph.go and           *)
(* helpers.go): the units of a ProjectPlanningStatus, the operation        *)
(* planned for each, their dependencies, and the execution status the      *)
(* scheduler keeps in every unit.                                          *)
(***************************************************************************)
EXTENDS Naturals, FiniteSets

CONSTANT Units      \* the units of the plan, by key ("stack.unit")

ASSUME UnitsAreFinite == IsFiniteSet(Units)

Operations == {"Apply", "Update", "Destroy", "NotChanged"}

Statuses == {"Backlog", "ReadyForExec", "InProgress", "Finished"}

(* A plan: op is the Operation of a UnitPlanningStatus, deps the keys its  *)
(* unit's links point to. A state unit planned for Destroy keeps the links *)
(* it was saved with; every other unit belongs to the loaded project and   *)
(* so do its dependencies, which a plan therefore never destroys.          *)
Graphs == [op : [Units -> Operations], deps : [Units -> SUBSET Units]]

ProjectUnits(g) == {u \in Units : g.op[u] # "Destroy"}

WellFormed(g) == \A u \in ProjectUnits(g) : g.deps[u] \subseteq ProjectUnits(g)

StatusFilter(status, wanted) == {u \in Units : status[u] \in wanted}

(* The units of the graph that are not finished: what graph.Len counts.    *)
Live(status) == StatusFilter(status, {"Backlog", "ReadyForExec", "InProgress"})

(* The units u has to wait for: what it depends on when it is applied, the *)
(* units linked to it when it is destroyed.                                *)
Blockers(g, u) ==
  {v \in Units : \/ g.op[u] \in {"Apply", "Update"} /\ v \in g.deps[u]
                 \/ g.op[u] = "Destroy" /\ u \in g.deps[v]}

(* Seeded fault: only what waits in the backlog blocks a unit.             *)
UnblockedEarly(g, status) ==
  {u \in StatusFilter(status, {"Backlog"}) :
     Blockers(g, u) \cap StatusFilter(status, {"Backlog"}) = {}}

(* Seeded fault: a unit linked to itself does not block itself.            *)
UnblockedBesidesItself(g, status) ==
  {u \in StatusFilter(status, {"Backlog"}) :
     Blockers(g, u) \cap Live(status) \subseteq {u}}

Unblocked(g, status) ==
  {u \in StatusFilter(status, {"Backlog"}) : Blockers(g, u) \cap Live(status) = {}}

(* graph.updateQueueNew: every unblocked unit of the backlog becomes ready *)
UpdateQueue(g, status) ==
  [u \in Units |-> IF u \in Unblocked(g, status) THEN "ReadyForExec" ELSE status[u]]

(* checkAndBuildIndexes succeeds: no set of units blocks itself. The       *)
(* algorithm itself is module GraphIndex.                                  *)
Sequenced(g) ==
  \A S \in SUBSET Units : S # {} => \E u \in S : Blockers(g, u) \cap S = {}

==============================================================================
