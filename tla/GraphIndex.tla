------------------------------ MODULE GraphIndex ------------------------------
(***************************************************************************)
(* graph.checkAndBuildIndexes: the run of the queue that decides, before   *)
(* anything is executed, whether a plan can be worked off at all, and that *)
(* lays down the order in which the plan is shown (graph.go:156).          *)
(***************************************************************************)
EXTENDS PlanGraph, Integers, Sequences

CONSTANT Candidates     \* the plans that may be given to BuildGraph

ASSUME CandidatesAreGraphs == Candidates \subseteq {g \in Graphs : WellFormed(g)}

VARIABLES
  graph,       \* the plan; chosen once
  status,      \* ExecStatus of every unit
  level,       \* i, the number of rounds so far
  index,       \* UnitPlanningStatus.Index; 0 until it is set
  destroys,    \* g.indexedSlice: the units to destroy, in their order
  applies,     \* the slice apply
  unchanged,   \* the slice notChanged
  at           \* "queue" and "place" in the loop; "broken" or "built" after it

vars == <<graph, status, level, index, destroys, applies, unchanged, at>>

Listed == destroys \o applies \o unchanged

TypeOK ==
  /\ graph \in Candidates
  /\ status \in [Units -> Statuses]
  /\ level \in Nat
  /\ index \in [Units -> Nat \cup {-1}]
  /\ destroys \in Seq(Units) /\ applies \in Seq(Units) /\ unchanged \in Seq(Units)
  /\ at \in {"queue", "place", "broken", "built"}

Init ==
  /\ graph \in Candidates
  /\ status = [u \in Units |-> "Backlog"]
  /\ level = 0
  /\ index = [u \in Units |-> 0]
  /\ destroys = <<>> /\ applies = <<>> /\ unchanged = <<>>
  /\ at = "queue"

Backlog == StatusFilter(status, {"Backlog"})
Ready == StatusFilter(status, {"ReadyForExec"})

(* updateQueueNew makes at least one unit ready.                           *)
Queue ==
  /\ at = "queue"
  /\ Unblocked(graph, status) # {}
  /\ status' = UpdateQueue(graph, status)
  /\ at' = "place"
  /\ UNCHANGED <<graph, level, index, destroys, applies, unchanged>>

(* Seeded fault: the unit is not finished, so the round never frees any.   *)
PlaceOnly(u) ==
  /\ at = "place"
  /\ u \in Ready
  /\ status' = [status EXCEPT ![u] = "InProgress"]
  /\ index' = [index EXCEPT ![u] = level]
  /\ applies' = Append(applies, u)
  /\ UNCHANGED <<graph, level, destroys, unchanged, at>>

(* Seeded fault: every unit is put in front of the others.                 *)
PlaceInFront(u) ==
  /\ at = "place"
  /\ u \in Ready
  /\ status' = [status EXCEPT ![u] = "Finished"]
  /\ index' = [index EXCEPT ![u] = IF graph.op[u] = "NotChanged" THEN -1 ELSE level]
  /\ applies' = <<u>> \o applies
  /\ UNCHANGED <<graph, level, destroys, unchanged, at>>

(* One ready unit is given its index and its place, and finished.          *)
Place(u) ==
  /\ at = "place"
  /\ u \in Ready
  /\ status' = [status EXCEPT ![u] = "Finished"]
  /\ index' = [index EXCEPT ![u] = IF graph.op[u] = "NotChanged" THEN -1 ELSE level]
  /\ \/ /\ graph.op[u] = "Destroy"
        /\ destroys' = Append(destroys, u)
        /\ UNCHANGED <<applies, unchanged>>
     \/ /\ graph.op[u] \in {"Apply", "Update"}
        /\ applies' = Append(applies, u)
        /\ UNCHANGED <<destroys, unchanged>>
     \/ /\ graph.op[u] = "NotChanged"
        /\ unchanged' = Append(unchanged, u)
        /\ UNCHANGED <<destroys, applies>>
  /\ UNCHANGED <<graph, level, at>>

NextRound ==
  /\ at = "place"
  /\ Ready = {}
  /\ level' = level + 1
  /\ at' = "queue"
  /\ UNCHANGED <<graph, status, index, destroys, applies, unchanged>>

(* Seeded fault: the queue is asked again until a unit becomes ready.      *)
BrokenUnseen ==
  /\ at = "queue"
  /\ Unblocked(graph, status) = {}
  /\ Backlog # {}
  /\ UNCHANGED <<graph, status, level, index, destroys, applies, unchanged, at>>

(* No unit became ready although some are left: an error.                  *)
Broken ==
  /\ at = "queue"
  /\ Unblocked(graph, status) = {}
  /\ Backlog # {}
  /\ at' = "broken"
  /\ UNCHANGED <<graph, status, level, index, destroys, applies, unchanged>>

(* The backlog is empty: resetUnitsStatus.                                 *)
Built ==
  /\ at = "queue"
  /\ Backlog = {}
  /\ status' = [u \in Units |-> IF graph.op[u] = "NotChanged" THEN status[u] ELSE "Backlog"]
  /\ at' = "built"
  /\ UNCHANGED <<graph, level, index, destroys, applies, unchanged>>

Returned == at \in {"broken", "built"} /\ UNCHANGED vars

Next ==
  \/ Queue \/ NextRound \/ Broken \/ Built \/ Returned
  \/ \E u \in Units : Place(u)

Spec == Init /\ [][Next]_vars

FairSpec == Spec /\ WF_vars(Next)

------------------------------------------------------------------------------

(* A plan is refused exactly when some of its units block one another in a *)
(* circle: nothing executable is refused, nothing unexecutable gets in     *)
(* (graph.go:165). It is the assumption UnitGraph makes of its plans.      *)
RefusesCircles ==
  /\ at = "broken" => ~Sequenced(graph)
  /\ at = "built" => Sequenced(graph)

(* "Sorted in order ready for exec" (graph.go:195): an accepted plan lists *)
(* every unit once, after everything it has to wait for, although destroys *)
(* are moved before applies and unchanged units behind both.               *)
ListedInOrder ==
  at = "built" =>
    /\ Len(Listed) = Cardinality(Units)
    /\ \A u \in Units : \E i \in 1..Len(Listed) : Listed[i] = u
    /\ \A i, j \in 1..Len(Listed) :
         Listed[j] \in Blockers(graph, Listed[i]) =>
           j < i \/ graph.op[Listed[j]] = "NotChanged"

(* The index of a unit is larger than the index of what it waits for, so   *)
(* units with the same index can run together.                             *)
IndexRises ==
  at = "built" =>
    \A u \in Units : \A v \in Blockers(graph, u) : index[v] < index[u]

(* Every plan is accepted or refused.                                      *)
Decides == <>(at \in {"broken", "built"})

(* What the rounds keep: a finished unit came after its blockers, a ready  *)
(* unit has them all finished, and no member of a circle was ever freed.   *)
Circle(S) == \A u \in S : Blockers(graph, u) \cap S # {}

After(u, i) == \A v \in Blockers(graph, u) : status[v] = "Finished" /\ index[v] < i

RoundInv ==
  /\ TypeOK
  /\ at # "built" =>
       /\ \A u \in Units : status[u] # "InProgress"
       /\ at # "place" => Ready = {}
       /\ \A u \in Ready : After(u, level)
       /\ \A u \in Units : status[u] = "Finished" =>
            /\ After(u, index[u])
            /\ index[u] <= level
            /\ at # "place" => index[u] < level
       /\ \A S \in SUBSET Units : Circle(S) => \A u \in S : status[u] = "Backlog"
  /\ RefusesCircles
  /\ IndexRises

==============================================================================
