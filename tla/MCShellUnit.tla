---------------------------- MODULE MCShellUnit ----------------------------
(***************************************************************************)
(* Instances of ShellUnit for TLC: the plans in which calls can meet.      *)
(***************************************************************************)
EXTENDS ShellUnit

(* Units 2 and 3 depend on unit 1, which has force_apply and goes last.    *)
BothForce ==
  [planned |-> {1, 2, 3}, operation |-> "Destroy", deps |-> <<{}, {1}, {1}>>,
   forced |-> {1}, terraform |-> {}]

(* Units in a row; unit 1 is applied by force only, unit 2 also by plan.   *)
InARow ==
  [planned |-> {2, 3}, operation |-> "Apply", deps |-> <<{}, {1}, {2}>>,
   forced |-> {1, 2}, terraform |-> {}]

(* Two terraform units side by side share nothing but InitLock.            *)
SideBySide ==
  [planned |-> {1, 2}, operation |-> "Apply", deps |-> <<{}, {}, {}>>,
   forced |-> {}, terraform |-> {1, 2}]

(* Unit 3 reaches unit 1, a terraform unit, only through unit 2.           *)
Distant ==
  [planned |-> {3}, operation |-> "Destroy", deps |-> <<{}, {1}, {2}>>,
   forced |-> {1}, terraform |-> {1}]

(* Unit 1 is dropped from the project, unit 3 too; unit 2 between them     *)
(* stays, for the depends_on that led to unit 1 was dropped with it.       *)
Apart ==
  [planned |-> {1, 3}, operation |-> "Destroy", deps |-> <<{}, {1}, {2}>>,
   forced |-> {1}, terraform |-> {}]

Chosen == {BothForce, InARow, SideBySide, Distant, Apart}

=============================================================================
