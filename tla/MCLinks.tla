------------------------------- MODULE MCLinks -------------------------------
(***************************************************************************)
(* Instances of Links for TLC: three units in a row. The first has two     *)
(* versions, the second may use its output by either function or only      *)
(* depend on it, the third uses an output of each.                         *)
(***************************************************************************)
EXTENDS Links

L(to, kind, name) == [to |-> to, kind |-> kind, name |-> name]

Use(u) ==
  CASE u = 1 -> {{}}
    [] u = 2 -> {{}, {L(1, "output", "a")}, {L(1, "remote", "a")}, {L(1, "custom", NoName)}}
    [] u = 3 -> {{L(2, "output", "a"), L(1, "output", "b")}}

Chain ==
  [u \in Units |-> [spec : IF u = 1 THEN {3, 4} ELSE {3}, uses : Use(u)]]

ChainLinks == UNION (Use(2) \cup Use(3))

(* Two units, only the "output" function.                                  *)
Pair ==
  [u \in Units |-> [spec : IF u = 1 THEN {3, 4} ELSE {3},
                    uses : IF u = 1 THEN {{}} ELSE {{L(1, "output", "a")}}]]

PairLinks == {L(1, "output", "a")}

==============================================================================
