--------------------------- MODULE GraphIndexProofs ---------------------------
(***************************************************************************)
(* Theorems about GraphIndex for every finite set of units and every set   *)
(* of plans.                                                               *)
(***************************************************************************)
EXTENDS GraphIndex, SequenceTheorems, FiniteSetTheorems, TLAPS

------------------------------------------------------------------------------
(* The queue of the execution graph.                                       *)

(* UpdateQueue moves units from the backlog to the ready ones and nothing  *)
(* else, and only units whose blockers are all finished.                   *)
LEMMA UpdateQueueMoves ==
  ASSUME NEW g, NEW st \in [Units -> Statuses], NEW u \in Units
  PROVE  /\ st[u] # "Backlog" => UpdateQueue(g, st)[u] = st[u]
         /\ st[u] = "Backlog" => UpdateQueue(g, st)[u] \in {"Backlog", "ReadyForExec"}
         /\ st[u] = "Backlog" /\ UpdateQueue(g, st)[u] = "ReadyForExec" =>
              \A v \in Blockers(g, u) : st[v] = "Finished"
<1>1. UpdateQueue(g, st)[u] = IF u \in Unblocked(g, st) THEN "ReadyForExec" ELSE st[u]
  BY DEF UpdateQueue
<1>2. u \in Unblocked(g, st) =>
        st[u] = "Backlog" /\ \A v \in Blockers(g, u) : st[v] = "Finished"
  BY DEF Unblocked, Live, StatusFilter, Blockers, Statuses
<1> QED
  BY <1>1, <1>2

LEMMA UpdateQueueType ==
  ASSUME NEW g, NEW st \in [Units -> Statuses]
  PROVE  UpdateQueue(g, st) \in [Units -> Statuses]
  BY DEF UpdateQueue, Statuses

------------------------------------------------------------------------------
(* The rounds.                                                             *)

(* A round frees only units that are in no circle.                         *)
LEMMA QueueKeeps ==
  ASSUME RoundInv, Queue
  PROVE  RoundInv'
<1> USE DEF RoundInv
<1>1. /\ at = "queue" /\ at' = "place"
      /\ status' = UpdateQueue(graph, status)
      /\ UNCHANGED <<graph, level, index, destroys, applies, unchanged>>
      /\ status \in [Units -> Statuses]
  BY DEF Queue, TypeOK
<1>2. TypeOK'
  BY <1>1, UpdateQueueType DEF TypeOK
<1>3. \A u \in Units :
        /\ status[u] # "Backlog" => status'[u] = status[u]
        /\ status[u] = "Backlog" => status'[u] \in {"Backlog", "ReadyForExec"}
        /\ status[u] = "Backlog" /\ status'[u] = "ReadyForExec" =>
             \A v \in Blockers(graph, u) : status[v] = "Finished"
  BY <1>1, UpdateQueueMoves
<1>4. \A u \in Units : status[u] \in {"Backlog", "Finished"}
  BY <1>1 DEF Ready, StatusFilter, Statuses
<1>5. \A u \in Units : \A v \in Blockers(graph, u) : v \in Units
  BY DEF Blockers
<1>6. \A u \in Units : status'[u] # "InProgress"
  BY <1>3, <1>4
<1>7. \A u \in Ready' : After(u, level)'
  BY <1>1, <1>3, <1>4, <1>5 DEF Ready, StatusFilter, After
<1>8. \A u \in Units : status'[u] = "Finished" =>
        status[u] = "Finished" /\ After(u, index[u])' /\ index'[u] <= level'
  BY <1>1, <1>3, <1>4, <1>5 DEF After
<1>9. ASSUME NEW S \in SUBSET Units, Circle(S)', NEW u \in S
      PROVE  status'[u] = "Backlog"
  <2>1. Circle(S)
    BY <1>1, <1>9 DEF Circle
  <2>2. \A v \in S : status[v] = "Backlog"
    BY <1>1, <2>1
  <2>3. PICK v \in S : v \in Blockers(graph, u)
    BY <2>1, <1>9 DEF Circle
  <2> QED
    BY <1>3, <1>9, <2>2, <2>3
<1> QED
  BY <1>1, <1>2, <1>6, <1>7, <1>8, <1>9 DEF RefusesCircles, IndexRises

LEMMA PlaceKeeps ==
  ASSUME RoundInv, NEW u \in Units, Place(u)
  PROVE  RoundInv'
<1> USE DEF RoundInv
<1>1. /\ at = "place" /\ at' = "place"
      /\ status[u] = "ReadyForExec"
      /\ After(u, level)
      /\ UNCHANGED <<graph, level>>
      /\ status' = [status EXCEPT ![u] = "Finished"]
      /\ index' = [index EXCEPT ![u] = IF graph.op[u] = "NotChanged" THEN -1 ELSE level]
      /\ status \in [Units -> Statuses] /\ index \in [Units -> Nat \cup {-1}] /\ level \in Nat
  BY DEF Place, Ready, StatusFilter, TypeOK
<1>2. TypeOK'
  <2>1. /\ destroys' \in Seq(Units) /\ applies' \in Seq(Units)
        /\ unchanged' \in Seq(Units)
    <3>1. \A s \in Seq(Units) : Append(s, u) \in Seq(Units)
      BY AppendProperties
    <3> QED
      BY <3>1 DEF Place, TypeOK
  <2> QED
    BY <1>1, <2>1 DEF TypeOK, Statuses
<1>3. /\ status'[u] = "Finished"
      /\ index'[u] = IF graph.op[u] = "NotChanged" THEN -1 ELSE level
      /\ \A v \in Units : v # u => status'[v] = status[v] /\ index'[v] = index[v]
  BY <1>1
<1>4. \A v \in Units : \A w \in Blockers(graph, v) : w \in Units
  BY DEF Blockers
<1>5. \A v \in Units, i \in Int : After(v, i) =>
        \A w \in Blockers(graph, v) : status'[w] = "Finished" /\ index'[w] < i
  BY <1>1, <1>3, <1>4 DEF After
<1>6. \A v \in Units : index[v] \in Int
  BY <1>1
<1>7. \A v \in Units : status'[v] # "InProgress"
  BY <1>1, <1>3
<1>8. \A v \in Ready' : After(v, level)'
  <2>1. \A v \in Ready' : v \in Units /\ After(v, level)
    BY <1>1, <1>3 DEF Ready, StatusFilter
  <2> QED
    BY <1>1, <1>5, <2>1 DEF After
<1>9. ASSUME NEW v \in Units, status'[v] = "Finished"
      PROVE  After(v, index[v])' /\ index'[v] <= level'
  <2>1. CASE v = u
    <3>1. CASE graph.op[u] = "NotChanged"
      BY <1>1, <1>3, <2>1, <3>1 DEF After, Blockers
    <3>2. CASE graph.op[u] # "NotChanged"
      BY <1>1, <1>3, <1>5, <2>1, <3>2 DEF After
    <3> QED
      BY <3>1, <3>2
  <2>2. CASE v # u
    <3>1. After(v, index[v]) /\ index[v] <= level /\ index'[v] = index[v]
      BY <1>1, <1>3, <1>9, <2>2
    <3> QED
      BY <1>1, <1>5, <1>6, <3>1 DEF After
  <2> QED
    BY <2>1, <2>2
<1>10. ASSUME NEW S \in SUBSET Units, Circle(S)', NEW v \in S
       PROVE  status'[v] = "Backlog"
  <2>1. Circle(S)
    BY <1>1, <1>10 DEF Circle
  <2>2. status[v] = "Backlog" /\ v # u
    BY <1>1, <2>1
  <2> QED
    BY <1>3, <2>2
<1> QED
  BY <1>1, <1>2, <1>7, <1>8, <1>9, <1>10 DEF RefusesCircles, IndexRises

LEMMA NextRoundKeeps ==
  ASSUME RoundInv, NextRound
  PROVE  RoundInv'
<1> USE DEF RoundInv
<1>1. /\ at = "place" /\ at' = "queue" /\ Ready = {}
      /\ level' = level + 1 /\ level \in Nat
      /\ UNCHANGED <<graph, status, index, destroys, applies, unchanged>>
      /\ \A u \in Units : index[u] \in Int
  BY DEF NextRound, TypeOK
<1>2. TypeOK'
  BY <1>1 DEF TypeOK
<1>3. Ready' = {}
  BY <1>1 DEF Ready, StatusFilter
<1>4. \A u \in Units : status'[u] = "Finished" =>
        After(u, index[u])' /\ index'[u] < level' /\ index'[u] <= level'
  BY <1>1 DEF After
<1> QED
  BY <1>1, <1>2, <1>3, <1>4 DEF Circle, RefusesCircles, IndexRises

(* The units that are left when nothing gets ready block one another.      *)
LEMMA BrokenKeeps ==
  ASSUME RoundInv, Broken
  PROVE  RoundInv'
<1> USE DEF RoundInv
<1>1. /\ at = "queue" /\ at' = "broken"
      /\ UNCHANGED <<graph, status, level, index, destroys, applies, unchanged>>
      /\ Unblocked(graph, status) = {} /\ Backlog # {}
  BY DEF Broken
<1>2. Live(status) = Backlog
  BY <1>1 DEF Live, Backlog, Ready, StatusFilter
<1>3. \A u \in Backlog : Blockers(graph, u) \cap Backlog # {}
  BY <1>1, <1>2 DEF Unblocked, Backlog
<1>4. Backlog \in SUBSET Units
  BY DEF Backlog, StatusFilter
<1>5. ~Sequenced(graph)
  BY <1>1, <1>3, <1>4 DEF Sequenced
<1>6. TypeOK'
  BY <1>1 DEF TypeOK
<1> QED
  BY <1>1, <1>5, <1>6 DEF Ready, After, Circle, RefusesCircles, IndexRises

(* With every unit finished no circle is left, for none was ever freed.    *)
LEMMA BuiltKeeps ==
  ASSUME RoundInv, Built
  PROVE  RoundInv'
<1> USE DEF RoundInv
<1>1. /\ at = "queue" /\ at' = "built" /\ Backlog = {}
      /\ UNCHANGED <<graph, level, index, destroys, applies, unchanged>>
      /\ status' = [u \in Units |-> IF graph.op[u] = "NotChanged" THEN status[u] ELSE "Backlog"]
  BY DEF Built
<1>2. \A u \in Units : status[u] = "Finished"
  BY <1>1 DEF Backlog, Ready, StatusFilter, TypeOK, Statuses
<1>3. Sequenced(graph)
  <2> SUFFICES ASSUME NEW S \in SUBSET Units, S # {},
                      \A u \in S : Blockers(graph, u) \cap S # {}
               PROVE  FALSE
    BY DEF Sequenced
  <2>1. Circle(S)
    BY DEF Circle
  <2> QED
    BY <1>1, <1>2, <2>1
<1>4. \A u \in Units : \A v \in Blockers(graph, u) : index[v] < index[u]
  BY <1>1, <1>2 DEF After
<1>5. TypeOK'
  BY <1>1 DEF TypeOK, Statuses
<1> QED
  BY <1>1, <1>3, <1>4, <1>5 DEF RefusesCircles, IndexRises

LEMMA InitRoundInv == Init => RoundInv
<1> SUFFICES ASSUME Init
             PROVE  RoundInv
  OBVIOUS
<1>1. \A u \in Units : status[u] = "Backlog"
  BY DEF Init
<1>2. TypeOK
  BY DEF Init, TypeOK, Statuses
<1> QED
  BY <1>1, <1>2 DEF Init, RoundInv, Ready, StatusFilter, RefusesCircles, IndexRises

LEMMA NextRoundInv == RoundInv /\ [Next]_vars => RoundInv'
<1> SUFFICES ASSUME RoundInv, [Next]_vars
             PROVE  RoundInv'
  OBVIOUS
<1>1. CASE UNCHANGED vars
  BY <1>1 DEF vars, RoundInv, TypeOK, Ready, StatusFilter, After, Circle, RefusesCircles, IndexRises
<1>2. CASE Returned
  BY <1>1, <1>2 DEF Returned
<1> QED
  BY <1>1, <1>2, QueueKeeps, PlaceKeeps, NextRoundKeeps, BrokenKeeps, BuiltKeeps DEF Next

(* The rounds never free a unit that waits for itself.                     *)
THEOREM RoundsHold == Spec => []RoundInv
  BY InitRoundInv, NextRoundInv, PTL DEF Spec

(* BuildGraph refuses a plan exactly when units block one another in a     *)
(* circle.                                                                 *)
THEOREM CirclesRefused == Spec => []RefusesCircles
<1>1. RoundInv => RefusesCircles
  BY DEF RoundInv
<1> QED
  BY <1>1, RoundsHold, PTL

(* The index of an accepted plan rises along every dependency.             *)
THEOREM IndexesRise == Spec => []IndexRises
<1>1. RoundInv => IndexRises
  BY DEF RoundInv
<1> QED
  BY <1>1, RoundsHold, PTL

------------------------------------------------------------------------------
(* The list.                                                               *)

Finished == StatusFilter(status, {"Finished"})
Has(s, u) == \E i \in 1..Len(s) : s[i] = u
Total == Len(destroys) + Len(applies) + Len(unchanged)

(* One of the three slices: units of some operations, each after those     *)
(* that it waits for.                                                      *)
LaidOut(g, s, ops) ==
  /\ \A i \in 1..Len(s) : g.op[s[i]] \in ops
  /\ \A i, j \in 1..Len(s) : s[j] \in Blockers(g, s[i]) => j < i

(* The slices hold the finished units, every one once.                     *)
Holds(st, s) == \A i \in 1..Len(s) : st[s[i]] = "Finished"

ListInv ==
  /\ LaidOut(graph, destroys, {"Destroy"})
  /\ LaidOut(graph, applies, {"Apply", "Update"})
  /\ LaidOut(graph, unchanged, {"NotChanged"})
  /\ at # "built" =>
       /\ Holds(status, destroys) /\ Holds(status, applies) /\ Holds(status, unchanged)
       /\ \A u \in Finished : Has(destroys, u) \/ Has(applies, u) \/ Has(unchanged, u)
       /\ Total = Cardinality(Finished)
  /\ at = "built" =>
       /\ \A u \in Units : Has(destroys, u) \/ Has(applies, u) \/ Has(unchanged, u)
       /\ Total = Cardinality(Units)

(* A ready unit may follow the finished ones: none of them waits for it,   *)
(* and it does not wait for itself.                                        *)
LEMMA ReadyMayFollow ==
  ASSUME RoundInv, at = "place", NEW u \in Ready, NEW ops, graph.op[u] \in ops,
         NEW s \in Seq(Units), LaidOut(graph, s, ops), Holds(status, s)
  PROVE  /\ Append(s, u) \in Seq(Units)
         /\ Len(Append(s, u)) = Len(s) + 1
         /\ LaidOut(graph, Append(s, u), ops)
         /\ Has(Append(s, u), u)
         /\ \A v : Has(s, v) => Has(Append(s, u), v)
         /\ \A i \in 1..Len(Append(s, u)) : Append(s, u)[i] = u \/ Has(s, Append(s, u)[i])
<1> DEFINE t == Append(s, u)
<1>1. u \in Units /\ status[u] = "ReadyForExec"
  BY DEF Ready, StatusFilter
<1>2. /\ t \in Seq(Units) /\ Len(t) = Len(s) + 1 /\ t[Len(s) + 1] = u
      /\ \A i \in 1..Len(s) : t[i] = s[i]
  BY <1>1, AppendProperties
<1>3. Len(s) \in Nat
  BY LenProperties
<1>4. \A i \in 1..Len(t) : i \in 1..Len(s) \/ i = Len(s) + 1
  BY <1>2, <1>3
<1>5. \A i \in 1..Len(s) : u \notin Blockers(graph, s[i])
  <2> SUFFICES ASSUME NEW i \in 1..Len(s), u \in Blockers(graph, s[i])
               PROVE  FALSE
    OBVIOUS
  <2>1. s[i] \in Units /\ status[s[i]] = "Finished"
    BY ElementOfSeq DEF Holds
  <2>2. After(s[i], index[s[i]])
    BY <2>1 DEF RoundInv
  <2> QED
    BY <1>1, <2>2 DEF After
<1>6. u \notin Blockers(graph, u)
  BY <1>1 DEF RoundInv, After
<1>7. LaidOut(graph, t, ops)
  <2>1. \A i \in 1..Len(t) : graph.op[t[i]] \in ops
    BY <1>2, <1>4 DEF LaidOut
  <2>2. ASSUME NEW i \in 1..Len(t), NEW j \in 1..Len(t), t[j] \in Blockers(graph, t[i])
        PROVE  j < i
    <3>1. CASE i \in 1..Len(s) /\ j \in 1..Len(s)
      BY <1>2, <2>2, <3>1 DEF LaidOut
    <3>2. CASE i = Len(s) + 1 /\ j \in 1..Len(s)
      BY <1>3, <3>2
    <3>3. CASE j = Len(s) + 1
      BY <1>2, <1>4, <1>5, <1>6, <2>2, <3>3
    <3> QED
      BY <1>4, <3>1, <3>2, <3>3
  <2> QED
    BY <2>1, <2>2 DEF LaidOut
<1>8. Has(t, u)
  BY <1>2, <1>3 DEF Has
<1>9. \A v : Has(s, v) => Has(t, v)
  BY <1>2, <1>3 DEF Has
<1>10. \A i \in 1..Len(t) : t[i] = u \/ Has(s, t[i])
  BY <1>2, <1>4 DEF Has
<1> QED
  BY <1>2, <1>7, <1>8, <1>9, <1>10

LEMMA PlaceKeepsList ==
  ASSUME RoundInv, ListInv, NEW u \in Units, Place(u)
  PROVE  ListInv'
<1>1. /\ at = "place" /\ at' = "place" /\ u \in Ready /\ graph' = graph
      /\ status[u] = "ReadyForExec"
      /\ status' = [status EXCEPT ![u] = "Finished"]
      /\ status \in [Units -> Statuses]
      /\ destroys \in Seq(Units) /\ applies \in Seq(Units) /\ unchanged \in Seq(Units)
  BY DEF Place, Ready, StatusFilter, RoundInv, TypeOK
<1>2. /\ LaidOut(graph, destroys, {"Destroy"}) /\ Holds(status, destroys)
      /\ LaidOut(graph, applies, {"Apply", "Update"}) /\ Holds(status, applies)
      /\ LaidOut(graph, unchanged, {"NotChanged"}) /\ Holds(status, unchanged)
      /\ \A v \in Finished : Has(destroys, v) \/ Has(applies, v) \/ Has(unchanged, v)
      /\ Total = Cardinality(Finished)
  BY <1>1 DEF ListInv
<1>3. /\ Finished' = Finished \cup {u}
      /\ u \notin Finished
      /\ \A v \in Finished' : v = u \/ v \in Finished
  BY <1>1 DEF Finished, StatusFilter
<1>4. Cardinality(Finished') = Cardinality(Finished) + 1
  <2>1. IsFiniteSet(Finished)
    BY UnitsAreFinite, FS_Subset DEF Finished, StatusFilter
  <2> QED
    BY <1>3, <2>1, FS_AddElement
<1>5. /\ Len(destroys) \in Nat /\ Len(applies) \in Nat /\ Len(unchanged) \in Nat
  BY <1>1, LenProperties
<1>6. ASSUME NEW s \in Seq(Units), Holds(status, s)
      PROVE  Holds(status', s)
  <2>1. \A i \in 1..Len(s) : s[i] \in Units
    BY ElementOfSeq
  <2> QED
    BY <1>1, <1>6, <2>1 DEF Holds
<1>7. ASSUME NEW s \in Seq(Units), Holds(status, s), NEW t \in Seq(Units),
             \A i \in 1..Len(t) : t[i] = u \/ Has(s, t[i])
      PROVE  Holds(status', t)
  <2>1. \A i \in 1..Len(t) : t[i] \in Units
    BY ElementOfSeq
  <2> QED
    BY <1>1, <1>7, <2>1 DEF Has, Holds
<1>8. CASE graph.op[u] = "Destroy"
  <2>1. /\ destroys' = Append(destroys, u) /\ UNCHANGED <<applies, unchanged>>
    BY <1>8 DEF Place
  <2>2. /\ destroys' \in Seq(Units) /\ Len(destroys') = Len(destroys) + 1
        /\ LaidOut(graph, destroys', {"Destroy"})
        /\ Has(destroys', u) /\ \A v : Has(destroys, v) => Has(destroys', v)
        /\ \A i \in 1..Len(destroys') : destroys'[i] = u \/ Has(destroys, destroys'[i])
    BY <1>1, <1>2, <1>8, <2>1, ReadyMayFollow
  <2>3. Holds(status', destroys') /\ Holds(status', applies') /\ Holds(status', unchanged')
    BY <1>1, <1>2, <1>6, <1>7, <2>1, <2>2
  <2>4. Total' = Cardinality(Finished')
    BY <1>2, <1>4, <1>5, <2>1, <2>2 DEF Total
  <2> QED
    BY <1>1, <1>2, <1>3, <2>1, <2>2, <2>3, <2>4 DEF ListInv
<1>9. CASE graph.op[u] \in {"Apply", "Update"}
  <2>1. /\ applies' = Append(applies, u) /\ UNCHANGED <<destroys, unchanged>>
    BY <1>9 DEF Place
  <2>2. /\ applies' \in Seq(Units) /\ Len(applies') = Len(applies) + 1
        /\ LaidOut(graph, applies', {"Apply", "Update"})
        /\ Has(applies', u) /\ \A v : Has(applies, v) => Has(applies', v)
        /\ \A i \in 1..Len(applies') : applies'[i] = u \/ Has(applies, applies'[i])
    BY <1>1, <1>2, <1>9, <2>1, ReadyMayFollow
  <2>3. Holds(status', destroys') /\ Holds(status', applies') /\ Holds(status', unchanged')
    BY <1>1, <1>2, <1>6, <1>7, <2>1, <2>2
  <2>4. Total' = Cardinality(Finished')
    BY <1>2, <1>4, <1>5, <2>1, <2>2 DEF Total
  <2> QED
    BY <1>1, <1>2, <1>3, <2>1, <2>2, <2>3, <2>4 DEF ListInv
<1>10. CASE graph.op[u] = "NotChanged"
  <2>1. /\ unchanged' = Append(unchanged, u) /\ UNCHANGED <<destroys, applies>>
    BY <1>10 DEF Place
  <2>2. /\ unchanged' \in Seq(Units) /\ Len(unchanged') = Len(unchanged) + 1
        /\ LaidOut(graph, unchanged', {"NotChanged"})
        /\ Has(unchanged', u) /\ \A v : Has(unchanged, v) => Has(unchanged', v)
        /\ \A i \in 1..Len(unchanged') : unchanged'[i] = u \/ Has(unchanged, unchanged'[i])
    BY <1>1, <1>2, <1>10, <2>1, ReadyMayFollow
  <2>3. Holds(status', destroys') /\ Holds(status', applies') /\ Holds(status', unchanged')
    BY <1>1, <1>2, <1>6, <1>7, <2>1, <2>2
  <2>4. Total' = Cardinality(Finished')
    BY <1>2, <1>4, <1>5, <2>1, <2>2 DEF Total
  <2> QED
    BY <1>1, <1>2, <1>3, <2>1, <2>2, <2>3, <2>4 DEF ListInv
<1> QED
  BY <1>8, <1>9, <1>10 DEF Place

LEMMA NextListInv ==
  ASSUME RoundInv, ListInv, [Next]_vars
  PROVE  ListInv'
<1>1. CASE Queue
  <2>1. /\ at # "built" /\ at' # "built"
        /\ UNCHANGED <<graph, destroys, applies, unchanged>>
        /\ status' = UpdateQueue(graph, status) /\ status \in [Units -> Statuses]
        /\ destroys \in Seq(Units) /\ applies \in Seq(Units) /\ unchanged \in Seq(Units)
    BY <1>1 DEF Queue, RoundInv, TypeOK
  <2>2. \A u \in Units : status[u] = "Finished" <=> status'[u] = "Finished"
    BY <2>1, UpdateQueueMoves DEF Statuses
  <2>3. Finished' = Finished
    BY <2>2 DEF Finished, StatusFilter
  <2>4. \A s \in Seq(Units) : \A i \in 1..Len(s) : s[i] \in Units
    BY ElementOfSeq
  <2> QED
    BY <2>1, <2>2, <2>3, <2>4 DEF ListInv, LaidOut, Holds, Has, Total
<1>2. CASE NextRound \/ Broken
  <2>1. /\ at # "built" /\ at' # "built"
        /\ UNCHANGED <<graph, status, destroys, applies, unchanged>>
    BY <1>2 DEF NextRound, Broken
  <2>2. Finished' = Finished /\ Total' = Total
    BY <2>1 DEF Finished, StatusFilter, Total
  <2> QED
    BY <2>1, <2>2 DEF ListInv
<1>3. CASE Built
  <2>1. /\ at # "built" /\ at' = "built"
        /\ UNCHANGED <<graph, destroys, applies, unchanged>>
    BY <1>3 DEF Built
  <2>2. Finished = Units
    BY <1>3 DEF Built, Backlog, Finished, StatusFilter, Ready, RoundInv, TypeOK, Statuses
  <2> QED
    BY <2>1, <2>2 DEF ListInv, LaidOut, Has, Total
<1>4. CASE UNCHANGED vars
  BY <1>4 DEF vars, ListInv, LaidOut, Holds, Has, Total, Finished, StatusFilter
<1> QED
  BY <1>1, <1>2, <1>3, <1>4, PlaceKeepsList DEF Next, Returned

(* Where a unit of the list stands.                                        *)
LEMMA ListedAt ==
  ASSUME TypeOK
  PROVE  /\ Len(Listed) = Total
         /\ \A i \in 1..Len(Listed) :
              Listed[i] = IF i <= Len(destroys) THEN destroys[i]
                          ELSE IF i <= Len(destroys) + Len(applies)
                          THEN applies[i - Len(destroys)]
                          ELSE unchanged[i - (Len(destroys) + Len(applies))]
<1>1. destroys \in Seq(Units) /\ applies \in Seq(Units) /\ unchanged \in Seq(Units)
  BY DEF TypeOK
<1>2. Len(destroys) \in Nat /\ Len(applies) \in Nat /\ Len(unchanged) \in Nat
  BY <1>1, LenProperties
<1>3. /\ destroys \o applies \in Seq(Units)
      /\ Len(destroys \o applies) = Len(destroys) + Len(applies)
      /\ \A i \in 1..Len(destroys) + Len(applies) : (destroys \o applies)[i] =
           IF i <= Len(destroys) THEN destroys[i] ELSE applies[i - Len(destroys)]
  BY <1>1, ConcatProperties
<1>4. /\ Len(Listed) = Len(destroys \o applies) + Len(unchanged)
      /\ \A i \in 1..Len(destroys \o applies) + Len(unchanged) : Listed[i] =
           IF i <= Len(destroys \o applies) THEN (destroys \o applies)[i]
           ELSE unchanged[i - Len(destroys \o applies)]
  BY <1>1, <1>3, ConcatProperties DEF Listed
<1> QED
  BY <1>2, <1>3, <1>4 DEF Total

(* Destroys wait for destroys only, and what is applied waits for nothing  *)
(* that is destroyed: moving the destroys to the front keeps the order.    *)
LEMMA InvLists == RoundInv /\ ListInv => ListedInOrder
<1> SUFFICES ASSUME RoundInv, ListInv, at = "built"
             PROVE  /\ Len(Listed) = Cardinality(Units)
                    /\ \A u \in Units : \E i \in 1..Len(Listed) : Listed[i] = u
                    /\ \A i, j \in 1..Len(Listed) :
                         Listed[j] \in Blockers(graph, Listed[i]) =>
                           j < i \/ graph.op[Listed[j]] = "NotChanged"
  BY DEF ListedInOrder
<1> DEFINE D == Len(destroys)
           A == Len(applies)
           N == Len(unchanged)
<1>1. TypeOK /\ graph \in Graphs /\ WellFormed(graph)
  BY CandidatesAreGraphs DEF RoundInv, TypeOK
<1>2. D \in Nat /\ A \in Nat /\ N \in Nat /\ Total = D + A + N
  BY <1>1, LenProperties DEF TypeOK, Total
<1>3. /\ Len(Listed) = D + A + N
      /\ \A i \in 1..Len(Listed) :
           /\ i <= D => Listed[i] = destroys[i]
           /\ i > D /\ i <= D + A => Listed[i] = applies[i - D]
           /\ i > D + A => Listed[i] = unchanged[i - (D + A)]
  BY <1>1, <1>2, ListedAt
<1>4. Len(Listed) = Cardinality(Units)
  BY <1>2, <1>3 DEF ListInv
<1>5. ASSUME NEW u \in Units
      PROVE  \E i \in 1..Len(Listed) : Listed[i] = u
  <2>1. CASE Has(destroys, u)
    <3>1. PICK i \in 1..D : destroys[i] = u
      BY <2>1 DEF Has
    <3> QED
      BY <1>2, <1>3, <3>1
  <2>2. CASE Has(applies, u)
    <3>1. PICK i \in 1..A : applies[i] = u
      BY <2>2 DEF Has
    <3>2. D + i \in 1..Len(Listed) /\ Listed[D + i] = u
      BY <1>2, <1>3, <3>1
    <3> QED
      BY <3>2
  <2>3. CASE Has(unchanged, u)
    <3>1. PICK i \in 1..N : unchanged[i] = u
      BY <2>3 DEF Has
    <3>2. D + A + i \in 1..Len(Listed) /\ Listed[D + A + i] = u
      BY <1>2, <1>3, <3>1
    <3> QED
      BY <3>2
  <2> QED
    BY <2>1, <2>2, <2>3 DEF ListInv
<1>6. ASSUME NEW i \in 1..Len(Listed), NEW j \in 1..Len(Listed),
             Listed[j] \in Blockers(graph, Listed[i])
      PROVE  j < i \/ graph.op[Listed[j]] = "NotChanged"
  <2>1. /\ LaidOut(graph, destroys, {"Destroy"}) /\ LaidOut(graph, applies, {"Apply", "Update"})
        /\ LaidOut(graph, unchanged, {"NotChanged"})
    BY DEF ListInv
  <2>2. \A k \in 1..Len(Listed) :
          /\ k <= D => graph.op[Listed[k]] = "Destroy"
          /\ k > D /\ k <= D + A => graph.op[Listed[k]] \in {"Apply", "Update"}
          /\ k > D + A => graph.op[Listed[k]] = "NotChanged"
    <3> SUFFICES ASSUME NEW k \in 1..Len(Listed)
                 PROVE  /\ k <= D => graph.op[Listed[k]] = "Destroy"
                        /\ k > D /\ k <= D + A => graph.op[Listed[k]] \in {"Apply", "Update"}
                        /\ k > D + A => graph.op[Listed[k]] = "NotChanged"
      OBVIOUS
    <3>1. CASE k <= D
      <4>1. k \in 1..D /\ Listed[k] = destroys[k]
        BY <1>2, <1>3, <3>1
      <4> QED
        BY <1>2, <2>1, <3>1, <4>1 DEF LaidOut
    <3>2. CASE k > D /\ k <= D + A
      <4>1. k - D \in 1..A /\ Listed[k] = applies[k - D]
        BY <1>2, <1>3, <3>2
      <4> QED
        BY <1>2, <2>1, <3>2, <4>1 DEF LaidOut
    <3>3. CASE k > D + A
      <4>1. k - (D + A) \in 1..N /\ Listed[k] = unchanged[k - (D + A)]
        BY <1>2, <1>3, <3>3
      <4> QED
        BY <1>2, <2>1, <3>3, <4>1 DEF LaidOut
    <3> QED
      BY <3>1, <3>2, <3>3
  <2>3. \A k \in 1..Len(Listed) : Listed[k] \in Units
    <3>1. /\ \A k \in 1..D : destroys[k] \in Units
          /\ \A k \in 1..A : applies[k] \in Units
          /\ \A k \in 1..N : unchanged[k] \in Units
      BY <1>1, ElementOfSeq DEF TypeOK
    <3> TAKE k \in 1..Len(Listed)
    <3>2. CASE k <= D
      <4>1. k \in 1..D /\ Listed[k] = destroys[k]
        BY <1>2, <1>3, <3>2
      <4> QED
        BY <3>1, <4>1
    <3>3. CASE k > D /\ k <= D + A
      <4>1. k - D \in 1..A /\ Listed[k] = applies[k - D]
        BY <1>2, <1>3, <3>3
      <4> QED
        BY <3>1, <4>1
    <3>4. CASE k > D + A
      <4>1. k - (D + A) \in 1..N /\ Listed[k] = unchanged[k - (D + A)]
        BY <1>2, <1>3, <3>4
      <4> QED
        BY <3>1, <4>1
    <3> QED
      BY <1>2, <3>2, <3>3, <3>4
  <2>4. CASE i <= D
    <3>1. graph.op[Listed[i]] = "Destroy"
      BY <2>2, <2>4
    <3>2. graph.op[Listed[j]] = "Destroy"
      <4> DEFINE a == Listed[i]
                 b == Listed[j]
      <4>1. b \in Units /\ b \in Blockers(graph, a) /\ graph.op[a] = "Destroy"
        BY <1>6, <2>3, <3>1
      <4> HIDE DEF a, b
      <4>2. a \in graph.deps[b]
        BY <4>1 DEF Blockers
      <4>3. a \notin ProjectUnits(graph)
        BY <4>1 DEF ProjectUnits
      <4>4. b \notin ProjectUnits(graph)
        BY <1>1, <4>2, <4>3 DEF WellFormed
      <4>5. graph.op[b] = "Destroy"
        BY <4>1, <4>4 DEF ProjectUnits
      <4> QED
        BY <4>5 DEF b
    <3>3. j <= D
      <4>1. j \in Int /\ D \in Int /\ A \in Int
        BY <1>2, <1>3
      <4>2. ~(j > D /\ j <= D + A) /\ ~(j > D + A)
        BY <2>2, <3>2
      <4> QED
        BY <4>1, <4>2
    <3>4. i \in 1..D /\ j \in 1..D /\ Listed[i] = destroys[i] /\ Listed[j] = destroys[j]
      BY <1>2, <1>3, <2>4, <3>3
    <3> QED
      BY <1>6, <2>1, <3>4 DEF LaidOut
  <2>5. CASE i > D /\ i <= D + A /\ j > D /\ j <= D + A
    <3>1. i - D \in 1..A /\ j - D \in 1..A
      BY <1>2, <1>3, <2>5
    <3>2. applies[j - D] \in Blockers(graph, applies[i - D])
      BY <1>3, <1>6, <2>5
    <3>3. j - D < i - D
      BY <2>1, <3>1, <3>2 DEF LaidOut
    <3> QED
      BY <1>2, <1>3, <3>3
  <2>6. CASE i > D /\ j <= D
    BY <1>2, <1>3, <2>6
  <2>7. CASE j > D + A
    BY <2>2, <2>7
  <2>8. CASE i > D + A
    BY <1>6, <2>2, <2>8 DEF Blockers
  <2> QED
    BY <1>2, <1>3, <2>4, <2>5, <2>6, <2>7, <2>8
<1> QED
  BY <1>4, <1>5, <1>6

(* An accepted plan is listed in an order in which it can be worked off,   *)
(* however many units it has.                                              *)
THEOREM ListsInOrder == Spec => []ListedInOrder
<1>1. Init => ListInv
  <2> SUFFICES ASSUME Init
               PROVE  ListInv
    OBVIOUS
  <2>1. Finished = {} /\ at = "queue" /\ destroys = <<>> /\ applies = <<>> /\ unchanged = <<>>
    BY DEF Init, Finished, StatusFilter
  <2>2. Cardinality({}) = 0
    BY FS_EmptySet
  <2> QED
    BY <2>1, <2>2 DEF ListInv, LaidOut, Holds, Has, Total
<1>2. RoundInv /\ ListInv /\ [Next]_vars => (RoundInv /\ ListInv)'
  BY NextRoundInv, NextListInv
<1>3. RoundInv /\ ListInv => ListedInOrder
  BY InvLists
<1> QED
  BY <1>1, <1>2, <1>3, InitRoundInv, PTL DEF Spec

==============================================================================
