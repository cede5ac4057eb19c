------------------------------ MODULE OrderedRun ------------------------------
(***************************************************************************)
(* What the scheduler promises, without its queue, channel and goroutines: *)
(* a unit is begun after everything it has to wait for is over and was not *)
(* marked as failed, at most MaxParallel units are active together, and    *)
(* once the run is halted nothing is begun any more.                       *)
(***************************************************************************)
EXTENDS Naturals, FiniteSets

CONSTANTS Units,        \* the units of the run
          MaxParallel   \* the value of the flag --parallelism

VARIABLES before,       \* before[u]: the units that precede u; never changes
          phase,        \* phase[u]: "pending", "active" or "over"
          bad,          \* the units that are over and failed in their own run
          halted        \* no unit will be begun any more

vars == <<before, phase, bad, halted>>

Active == {u \in Units : phase[u] = "active"}

Init ==
  /\ before \in [Units -> SUBSET Units]
  /\ phase \in [Units -> {"pending", "over"}]
  /\ bad = {}
  /\ halted \in BOOLEAN

Begin(u) ==
  /\ ~halted
  /\ phase[u] = "pending"
  /\ \A v \in before[u] : phase[v] = "over" /\ v \notin bad
  /\ Cardinality(Active) < MaxParallel
  /\ phase' = [phase EXCEPT ![u] = "active"]
  /\ UNCHANGED <<before, bad, halted>>

Finish(u) ==
  /\ phase[u] = "active"
  /\ phase' = [phase EXCEPT ![u] = "over"]
  /\ bad' \subseteq bad \cup {u}
  /\ UNCHANGED <<before, halted>>

(* The failure of a unit that is over is forgotten when another unit, here *)
(* or at its own end, has applied it again.                                *)
Forget ==
  /\ bad' \subseteq bad
  /\ UNCHANGED <<before, phase, halted>>

Halt ==
  /\ halted' = TRUE
  /\ UNCHANGED <<before, phase, bad>>

Next == Halt \/ Forget \/ \E u \in Units : Begin(u) \/ Finish(u)

Spec == Init /\ [][Next]_vars

==============================================================================
