----------------------------- MODULE MCGraphIndex -----------------------------
(***************************************************************************)
(* Instances of GraphIndex for TLC: every plan, with circles or without.   *)
(***************************************************************************)
EXTENDS GraphIndex

CONSTANT Operate        \* the operations that appear in the plans

AnyGraphs ==
  {g \in [op : [Units -> Operate], deps : [Units -> SUBSET Units]] : WellFormed(g)}

==============================================================================
