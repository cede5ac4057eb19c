----------------------------- MODULE MCReconcile -----------------------------
(***************************************************************************)
(* Instances of Reconcile for TLC. Units are numbered, and depend only on  *)
(* smaller ones: no circle is written by the user.                         *)
(***************************************************************************)
EXTENDS Reconcile

Absent == {}

(* Two units, any smaller dependencies, two versions of the first; two     *)
(* edits over two runs, or one over three.                                 *)
AnyDependencies(edited, times) ==
  [mayWrite |-> [u \in Units |->
     IF u > 2 THEN Absent
     ELSE [spec : IF u = 1 THEN {1, 2} ELSE {1}, deps : SUBSET {v \in Units : v < u},
           force : {FALSE}]],
   edits |-> edited, runs |-> times]

(* Units in a row, each on the one before it; only the first is ever       *)
(* written differently; two runs.                                          *)
InARow ==
  [mayWrite |-> [u \in Units |->
     [spec : IF u = 1 THEN {1, 2} ELSE {1}, deps : {{v \in Units : v = u - 1}}, force : {FALSE}]],
   edits |-> 1, runs |-> 2]

(* Two of them, over four runs: a change that is broken off and saved      *)
(* later, before everything that it concerns has come to its turn.         *)
LongRow ==
  [mayWrite |-> [u \in Units |->
     IF u > 2 THEN Absent
     ELSE [spec : IF u = 1 THEN {1, 2} ELSE {1}, deps : {{v \in Units : v = u - 1}}, force : {FALSE}]],
   edits |-> 1, runs |-> 4]

(* A force_apply unit and two others that depend on it, and the row with   *)
(* two force_apply units; two runs.                                        *)
Forcing ==
  [mayWrite |-> [u \in Units |->
     [spec : IF u = 1 THEN {1, 2} ELSE {1}, deps : {IF u = 1 THEN {} ELSE {1}},
      force : {u = 1}]],
   edits |-> 1, runs |-> 2]

ForcingRow ==
  [mayWrite |-> [u \in Units |->
     [spec : IF u = 1 THEN {1, 2} ELSE {1}, deps : {{v \in Units : v = u - 1}},
      force : {u < 3}]],
   edits |-> 1, runs |-> 2]

Chosen == {AnyDependencies(2, 2), AnyDependencies(1, 3), InARow, LongRow, Forcing, ForcingRow}

==============================================================================
