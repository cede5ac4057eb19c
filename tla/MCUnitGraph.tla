----------------------------- MODULE MCUnitGraph -----------------------------
(***************************************************************************)
(* Instances of UnitGraph for TLC. Units are numbered so that a unit only  *)
(* depends on smaller ones: up to renaming, every acyclic graph is there.  *)
(***************************************************************************)
EXTENDS UnitGraph

CONSTANTS Operate,    \* the operations that appear in the plans
          Force,      \* the values of the flag --force
          LinkCounts  \* how many dependencies the mixed plans have

Links(d) == {<<u, v>> \in Units \X Units : v \in d[u]}

NumberedLinks ==
  {d \in [Units -> SUBSET Units] :
     /\ \A u \in Units : d[u] \subseteq 1..(u - 1)
     /\ Cardinality(Links(d)) \in LinkCounts
     /\ Cardinality(Links(d)) = 1 => Links(d) = {<<2, 1>>}}

NumberedGraphs ==
  {g \in [op : [Units -> Operate], deps : NumberedLinks] : WellFormed(g)}

NoForces == [u \in Units |-> {}]

MixedPlans ==
  {p \in [cmd : Commands, force : Force, ignoreState : {FALSE}, graph : NumberedGraphs,
          forces : {NoForces}] :
     p.cmd = "destroy" <=> \A u \in Units : p.graph.op[u] = "Destroy"}

(* With both flags: every pair of operations, the third unit unchanged,    *)
(* and the destruction of a chain.                                         *)
PromptedPlans ==
  {p \in [cmd : Commands, force : BOOLEAN, ignoreState : {FALSE}, graph : Graphs,
          forces : {NoForces}] :
     IF p.cmd = "apply"
     THEN /\ WellFormed(p.graph) /\ Links(p.graph.deps) \subseteq {<<2, 1>>}
          /\ p.graph.op[3] = "NotChanged"
     ELSE /\ \A u \in Units : p.graph.op[u] = "Destroy"
          /\ Links(p.graph.deps) = {<<2, 1>>, <<3, 2>>}}

(* The first unit has force_apply and the others depend on it, side by     *)
(* side, or the third over an unchanged second one, or in a chain that is  *)
(* destroyed. With --ignore-state all are applied, or all destroyed.       *)
Chain == [NoForces EXCEPT ![2] = {1}, ![3] = {2}]
Fork == [NoForces EXCEPT ![2] = {1}, ![3] = {1}]

ForcedPlans ==
  {p \in [cmd : Commands, force : {TRUE}, ignoreState : BOOLEAN,
          graph : [op : [Units -> Operations], deps : {Chain, Fork}], forces : {Fork}] :
     LET op == p.graph.op IN
     /\ WellFormed(p.graph) /\ ForcesBelong(p)
     /\ p.cmd = "destroy" => /\ \A u \in Units : op[u] = "Destroy"
                             /\ p.ignoreState <=> p.graph.deps = Fork
     /\ IF p.cmd = "apply" /\ p.ignoreState
        THEN \A u \in Units : op[u] = "Apply"
        ELSE \A u \in Units : op[u] # "Apply"
     /\ p.cmd = "apply" =>
          /\ op[3] # "NotChanged" /\ op[2] # "Destroy"
          /\ p.graph.deps = Chain => op[2] = "NotChanged"}

AllPlans == MixedPlans \cup PromptedPlans \cup ForcedPlans
==============================================================================
