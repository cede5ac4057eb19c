--------------------------- MODULE UnitGraphProofs ---------------------------
(***************************************************************************)
(* Theorems about UnitGraph for every finite set of units, every set of    *)
(* built plans and every value of --parallelism.                           *)
(***************************************************************************)
EXTENDS UnitGraph, FiniteSetTheorems, TLAPS

------------------------------------------------------------------------------
(* The queue of the execution graph.                                       *)

(* UpdateQueue moves units from the backlog to the ready ones and nothing  *)
(* else, and only units whose blockers are all finished.                   *)
LEMMA UpdateQueueMoves ==
  ASSUME NEW g, NEW st \in [Units -> Statuses], NEW u \in Units
  PROVE  /\ st[u] # "Backlog" => UpdateQueue(g, st)[u] = st[u]
         /\ st[u] = "Backlog" => UpdateQueue(g, st)[u] \in {"Backlog", "ReadyForExec"}
         /\ st[u] = "Backlog" /\ UpdateQueue(g, st)[u] = "ReadyForExec" =>
              \A v \in Blockers(g, u) : st[v] = "Finished"
<1>1. UpdateQueue(g, st)[u] = IF u \in Unblocked(g, st) THEN "ReadyForExec" ELSE st[u]
  BY DEF UpdateQueue
<1>2. u \in Unblocked(g, st) =>
        st[u] = "Backlog" /\ \A v \in Blockers(g, u) : st[v] = "Finished"
  BY DEF Unblocked, Live, StatusFilter, Blockers, Statuses
<1> QED
  BY <1>1, <1>2

LEMMA UpdateQueueType ==
  ASSUME NEW g, NEW st \in [Units -> Statuses]
  PROVE  UpdateQueue(g, st) \in [Units -> Statuses]
  BY DEF UpdateQueue, Statuses

(* A finished unit stays finished, a unit in progress stays in progress.   *)
LEMMA UpdateQueueKeeps ==
  ASSUME NEW g, NEW st \in [Units -> Statuses]
  PROVE  StatusFilter(UpdateQueue(g, st), {"InProgress"}) = StatusFilter(st, {"InProgress"})
  BY UpdateQueueMoves DEF StatusFilter

------------------------------------------------------------------------------
(* Type correctness.                                                       *)

LEMMA RoutineTypeOK ==
  ASSUME TypeOK, NEW u \in Units, RoutineStep(u)
  PROVE  TypeOK'
<1> USE DEF TypeOK, Step, RoutinePlaces, Effects, Records, Statuses, Objects, Object, marks
<1>1. CASE BuildFails(u) \/ PrepareFails(u)
  BY <1>1 DEF BuildFails, PrepareFails, AfterError
<1>2. CASE NothingToRun(u)
  BY <1>2 DEF NothingToRun, Applied
<1>3. CASE BeginCommands(u)
  BY <1>3 DEF BeginCommands
<1>4. CASE CommandsSucceed(u)
  BY <1>4 DEF CommandsSucceed, Applied
<1>5. CASE CommandsFail(u)
  BY <1>5 DEF CommandsFail, Fail
<1>6. CASE CommandsRefused(u)
  BY <1>6 DEF CommandsRefused, Fail
<1>7. CASE OutputsUnknown(u)
  BY <1>7 DEF OutputsUnknown
<1>8. CASE OutputsLost(u)
  BY <1>8 DEF OutputsLost, Applied, AfterError
<1>9. CASE BeginRecord(u)
  BY <1>9 DEF BeginRecord, unitData, marks
<1>10. CASE EndRecord(u)
  BY <1>10 DEF EndRecord, RecordOf, unitData, marks
<1>11. CASE MarkFinished(u)
  BY <1>11 DEF MarkFinished, unitData, marks
<1>12. ASSUME NEW d \in Units, ForceApplies(u, d)
       PROVE  TypeOK'
  BY <1>12 DEF ForceApplies, Unsettle, outcome
<1>13. ASSUME NEW d \in Units, NEW how \in ForceFailures, ForceFails(u, d, how)
       PROVE  TypeOK'
  BY <1>13 DEF ForceFails, Unsettle, AfterError
<1> QED
  BY <1>1, <1>2, <1>3, <1>4, <1>5, <1>6, <1>7, <1>8, <1>9, <1>10, <1>11, <1>12, <1>13,
     RoutineStep(u)
  DEF RoutineStep

LEMMA MainTypeOK ==
  ASSUME TypeOK, MainStep
  PROVE  TypeOK'
<1> USE DEF TypeOK, unitData, marks, outcome, GoTo, LeaveTo, Loops, Draining, Over
<1>1. CASE LoopHead
  BY <1>1 DEF LoopHead
<1>2. CASE Refresh
  BY <1>2, UpdateQueueType DEF Refresh
<1>3. CASE NoStart
  BY <1>3 DEF NoStart
<1>4. CASE CheckEmpty
  BY <1>4 DEF CheckEmpty
<1>5. CASE CheckWait
  BY <1>5 DEF CheckWait
<1>6. ASSUME NEW written \in BOOLEAN, Save(written)
      PROVE  TypeOK'
  BY <1>6 DEF Save, ReturnValue
<1>7. ASSUME NEW u \in Units, Start(u)
      PROVE  TypeOK'
  <2>1. [status EXCEPT ![u] = "InProgress"] \in [Units -> Statuses]
    BY DEF Statuses
  <2> QED
    BY <1>7, <2>1, UpdateQueueType DEF Start, RoutinePlaces
<1>8. ASSUME NEW u \in Units, Receive(u)
      PROVE  TypeOK'
  <2>1. [status EXCEPT ![u] = "Finished"] \in [Units -> Statuses]
    BY DEF Statuses
  <2> QED
    BY <1>8, <2>1, UpdateQueueType DEF Receive, RoutinePlaces
<1>9. ASSUME NEW u \in Units, WaitReceive(u)
      PROVE  TypeOK'
  BY <1>9 DEF WaitReceive, RoutinePlaces, Statuses
<1> QED
  BY <1>1, <1>2, <1>3, <1>4, <1>5, <1>6, <1>7, <1>8, <1>9 DEF MainStep

LEMMA EnvironmentTypeOK ==
  ASSUME TypeOK, Environment
  PROVE  TypeOK'
  BY DEF TypeOK, Environment, Interrupt, Terminate, Panic, MapFault, Dies, GoTo, Hang,
         unitData, marks, outcome, Over, Died, RoutinePlaces

LEMMA InitTypeOK == Init => TypeOK
<1> SUFFICES ASSUME Init
             PROVE  TypeOK
  OBVIOUS
<1>1. /\ status \in [Units -> Statuses]
      /\ did \in [Units -> Effects]
      /\ routine \in [Units -> RoutinePlaces]
  BY DEF Init, Statuses, Effects, RoutinePlaces
<1>2. own \in [Units -> Records] /\ saved \in [Units -> Records]
  BY DEF Init, Loaded, Records
<1>3. /\ failed \in [Units -> BOOLEAN]
      /\ execErr \in [Units -> BOOLEAN]
      /\ tainted \in [Units -> BOOLEAN]
      /\ reported \in [Units -> BOOLEAN]
  BY DEF Init
<1> QED
  BY <1>1, <1>2, <1>3 DEF Init, TypeOK, Loops

LEMMA NextTypeOK == TypeOK /\ [Next]_vars => TypeOK'
<1> SUFFICES ASSUME TypeOK, [Next]_vars
             PROVE  TypeOK'
  OBVIOUS
<1>1. CASE UNCHANGED vars
  BY <1>1 DEF vars, TypeOK
<1>2. CASE Exited
  BY <1>2, <1>1 DEF Exited
<1> QED
  BY <1>1, <1>2, MainTypeOK, RoutineTypeOK, EnvironmentTypeOK DEF Next

(* Every variable of the execution keeps its type, whatever the plan.      *)
THEOREM TypeCorrect == Spec => []TypeOK
  BY InitTypeOK, NextTypeOK, PTL DEF Spec

------------------------------------------------------------------------------
(* The inductive invariant.                                                *)

(* What any step of u's routine may do to the variables the invariant is   *)
(* about: of another unit it can only forget a failure, by applying it.    *)
Touches(u) ==
  /\ main \notin Over
  /\ UNCHANGED <<plan, main, exit, saved, result>>
  /\ routine[u] \in Working
  /\ routine'[u] \in Working \cup {"send"}
  /\ routine[u] = "mark" => routine'[u] = "send"
  /\ \A v \in Units : v # u => /\ routine'[v] = routine[v]
                               /\ status'[v] = status[v]
                               /\ failed'[v] => failed[v]
  /\ \A v \in Units : failed'[v] => execErr'[v] /\ tainted'[v] /\ reported'[v]
  /\ status'[u] = IF routine[u] = "mark" THEN "Finished" ELSE status[u]
  /\ failed'[u] => routine'[u] \in {"record", "writing", "send"}
  /\ routine[u] = "mark" => ~failed'[u]

LEMMA RoutineEffect ==
  ASSUME IInv, NEW u \in Units, RoutineStep(u)
  PROVE  Touches(u)
<1> USE DEF IInv, TypeOK, ErrorsFollowRoutine, Step, Running, Working, Touches, marks
<1>1. CASE BuildFails(u) \/ PrepareFails(u)
  BY <1>1 DEF BuildFails, PrepareFails, AfterError
<1>2. CASE NothingToRun(u)
  BY <1>2 DEF NothingToRun, Applied
<1>3. CASE BeginCommands(u)
  BY <1>3 DEF BeginCommands
<1>4. CASE CommandsSucceed(u)
  BY <1>4 DEF CommandsSucceed, Applied
<1>5. CASE CommandsFail(u)
  BY <1>5 DEF CommandsFail, Fail
<1>6. CASE CommandsRefused(u)
  BY <1>6 DEF CommandsRefused, Fail
<1>7. CASE OutputsUnknown(u)
  BY <1>7 DEF OutputsUnknown
<1>8. CASE OutputsLost(u)
  BY <1>8 DEF OutputsLost, Applied, AfterError
<1>9. CASE BeginRecord(u)
  BY <1>9 DEF BeginRecord, unitData, marks
<1>10. CASE EndRecord(u)
  BY <1>10 DEF EndRecord, RecordOf, unitData, marks
<1>11. CASE MarkFinished(u)
  BY <1>11 DEF MarkFinished, unitData, marks
<1>12. ASSUME NEW d \in Units, ForceApplies(u, d)
       PROVE  Touches(u)
  BY <1>12 DEF ForceApplies, Unsettle, outcome
<1>13. ASSUME NEW d \in Units, NEW how \in ForceFailures, ForceFails(u, d, how)
       PROVE  Touches(u)
  BY <1>13 DEF ForceFails, Unsettle, AfterError
<1> QED
  BY <1>1, <1>2, <1>3, <1>4, <1>5, <1>6, <1>7, <1>8, <1>9, <1>10, <1>11, <1>12, <1>13,
     RoutineStep(u)
  DEF RoutineStep

LEMMA InProgressIsFinite == IsFiniteSet(InProgress) /\ IsFiniteSet(InProgress')
<1>1. InProgress \subseteq Units /\ InProgress' \subseteq Units
  BY DEF InProgress, StatusFilter
<1> QED
  BY <1>1, UnitsAreFinite, FS_Subset

LEMMA InProgressShrinks ==
  ASSUME Cardinality(InProgress) <= MaxParallel, InProgress' \subseteq InProgress
  PROVE  Cardinality(InProgress') <= MaxParallel
<1>1. Cardinality(InProgress') <= Cardinality(InProgress)
  BY InProgressIsFinite, FS_Subset
<1> QED
  BY <1>1, InProgressIsFinite, FS_CardinalityType, MaxParallelIsPositive

LEMMA RoutineKeepsIInv ==
  ASSUME IInv, NEW u \in Units, RoutineStep(u)
  PROVE  IInv'
<1>a. status[u] = "InProgress" /\ Graph.op[u] # "NotChanged"
  BY RoutineEffect DEF Touches, IInv, StatusFollowsRoutine, StatusFollows, Working
<1>b. Graph' = Graph
  BY RoutineEffect DEF Touches, Graph
<1>c. \A v \in Units : Ended(v) => v # u
  BY RoutineEffect, <1>a DEF Touches, Ended, Working
<1>1. TypeOK'
  BY RoutineTypeOK DEF IInv
<1>2. StatusFollowsRoutine'
  BY RoutineEffect, <1>a, <1>b DEF Touches, IInv, StatusFollowsRoutine, StatusFollows, Working
<1>3. ErrorsFollowRoutine'
  BY RoutineEffect, <1>a DEF Touches, IInv, ErrorsFollowRoutine
<1>4. ReadyIsUnblocked'
  BY RoutineEffect, <1>a, <1>b DEF Touches, IInv, ReadyIsUnblocked, Blockers
<1>5. StartsInOrder'
  BY RoutineEffect, <1>a, <1>b, <1>c DEF Touches, IInv, StartsInOrder, Ended, Blockers, Working
<1>6. WayOut'
  BY RoutineEffect, <1>a DEF Touches, IInv, WayOut, Live, InProgress, StatusFilter
<1>7. InProgress' \subseteq InProgress
  BY RoutineEffect DEF Touches, InProgress, StatusFilter
<1>8. Cardinality(InProgress') <= MaxParallel
  BY <1>7, InProgressShrinks DEF IInv
<1> QED
  BY <1>1, <1>2, <1>3, <1>4, <1>5, <1>6, <1>8 DEF IInv

(* A routine that hangs keeps its unit in progress.                        *)
LEMMA HangKeepsIInv ==
  ASSUME IInv, NEW u \in Units, Hang(u)
  PROVE  IInv'
<1>1. /\ UNCHANGED <<plan, status, marks, reported, main, exit, result>>
      /\ routine[u] \in {"prepare", "run"} /\ routine'[u] = "hung"
      /\ \A v \in Units : v # u => routine'[v] = routine[v]
  BY DEF Hang, IInv, TypeOK, unitData, outcome
<1>2. TypeOK'
  BY EnvironmentTypeOK DEF IInv, Environment
<1>3. StatusFollowsRoutine' /\ ErrorsFollowRoutine'
  BY <1>1 DEF IInv, StatusFollowsRoutine, StatusFollows, ErrorsFollowRoutine, Graph, Working, marks
<1>4. ReadyIsUnblocked' /\ StartsInOrder'
  BY <1>1 DEF IInv, ReadyIsUnblocked, StartsInOrder, Ended, Blockers, Graph, marks
<1>5. WayOut' /\ Cardinality(InProgress') <= MaxParallel
  BY <1>1 DEF IInv, WayOut, Live, InProgress, StatusFilter
<1> QED
  BY <1>2, <1>3, <1>4, <1>5 DEF IInv

LEMMA EnvironmentKeepsIInv ==
  ASSUME IInv, Environment
  PROVE  IInv'
<1> SUFFICES ASSUME Interrupt \/ Terminate \/ Panic \/ MapFault
             PROVE  IInv'
  BY HangKeepsIInv DEF Environment
<1>1. /\ UNCHANGED <<plan, status, failed, execErr, tainted, reported, routine, exit, result>>
      /\ main \notin Over
      /\ main' = main \/ main' \in Died
  BY DEF Interrupt, Terminate, Panic, MapFault, Dies, GoTo, Running,
         unitData, marks, outcome, Died
<1>2. TypeOK'
  BY EnvironmentTypeOK DEF IInv, Environment
<1>3. result = "none"
  BY <1>1 DEF IInv, TypeOK, WayOut, Over
<1>4. WayOut'
  BY <1>1, <1>3 DEF IInv, WayOut, Loops, Draining, Died, Over, Live, InProgress, StatusFilter
<1>5. /\ StatusFollowsRoutine' /\ ErrorsFollowRoutine'
      /\ ReadyIsUnblocked' /\ StartsInOrder'
  BY <1>1 DEF IInv, StatusFollowsRoutine, StatusFollows, ErrorsFollowRoutine, ReadyIsUnblocked,
              StartsInOrder, Ended, Blockers, Graph
<1>6. Cardinality(InProgress') <= MaxParallel
  BY <1>1 DEF IInv, InProgress, StatusFilter
<1> QED
  BY <1>2, <1>4, <1>5, <1>6 DEF IInv

(* How a refresh of the queue may move unit u, whose status was st[u].     *)
QueueMoves(st, u) ==
  /\ st[u] \in {"InProgress", "Finished", "ReadyForExec"} => status'[u] = st[u]
  /\ st[u] = "Backlog" => status'[u] \in {"Backlog", "ReadyForExec"}
  /\ st[u] = "Backlog" /\ status'[u] = "ReadyForExec" =>
       \A v \in Blockers(Graph, u) : status'[v] = "Finished"

LEMMA QueueStep ==
  ASSUME NEW st \in [Units -> Statuses], status' = UpdateQueue(Graph, st),
         NEW u \in Units
  PROVE  QueueMoves(st, u)
<1>1. \A v \in Blockers(Graph, u) : st[v] = "Finished" => status'[v] = "Finished"
  BY UpdateQueueMoves DEF Blockers
<1> QED
  BY <1>1, UpdateQueueMoves DEF QueueMoves

(* The scheduler starts the front of the queue: it is idle and whatever it *)
(* waits for came to its end without a mark.                               *)
LEMMA FrontIsStartable ==
  ASSUME IInv, NEW u \in Units, main \in Loops, status[u] = "ReadyForExec"
  PROVE  /\ routine[u] = "idle" /\ Graph.op[u] # "NotChanged"
         /\ ~failed[u]
         /\ \A v \in Blockers(Graph, u) : v # u /\ Ended(v) /\ ~failed[v]
<1> USE DEF IInv, TypeOK
<1>1. routine[u] = "idle" /\ Graph.op[u] # "NotChanged"
  BY DEF StatusFollowsRoutine, StatusFollows, RoutinePlaces, Working
<1>2. ~failed[u]
  BY <1>1 DEF ErrorsFollowRoutine
<1>3. ASSUME NEW v \in Blockers(Graph, u)
      PROVE  v # u /\ Ended(v) /\ ~failed[v]
  <2>1. v \in Units /\ status[v] = "Finished"
    BY <1>3 DEF ReadyIsUnblocked, Blockers
  <2>2. exit = "none"
    BY DEF WayOut
  <2> QED
    BY <2>1, <2>2 DEF StatusFollowsRoutine, StatusFollows, ErrorsFollowRoutine, Ended, RoutinePlaces, Working
<1> QED
  BY <1>1, <1>2, <1>3

LEMMA StartKeepsIInv ==
  ASSUME IInv, NEW u \in Units, Start(u)
  PROVE  IInv'
<1> DEFINE st == [status EXCEPT ![u] = "InProgress"]
<1>a. /\ main = "pick" /\ main' = "loop" /\ status[u] = "ReadyForExec"
      /\ status' = UpdateQueue(Graph, st) /\ Graph' = Graph
      /\ routine' = [routine EXCEPT ![u] = "prepare"]
      /\ UNCHANGED <<plan, failed, execErr, tainted, reported, exit, result>>
      /\ Cardinality(InProgress) < MaxParallel
  BY DEF Start, IsFront, Ready, StatusFilter, CanStart, GoTo, Graph, unitData, marks, outcome
<1>b. st \in [Units -> Statuses]
  BY DEF IInv, TypeOK, Statuses
<1>c. /\ routine[u] = "idle" /\ Graph.op[u] # "NotChanged"
      /\ ~failed[u]
      /\ \A v \in Blockers(Graph, u) : v # u /\ Ended(v) /\ ~failed[v]
  BY <1>a, FrontIsStartable DEF Loops
<1>d. /\ routine'[u] = "prepare"
      /\ \A v \in Units : v # u => routine'[v] = routine[v]
  BY <1>a DEF IInv, TypeOK
<1>e. /\ st[u] = "InProgress"
      /\ \A v \in Units : v # u => st[v] = status[v]
  BY DEF IInv, TypeOK
<1> HIDE DEF st
<1>f. /\ status'[u] = "InProgress"
      /\ \A v \in Units : v # u => QueueMoves(status, v)
  BY <1>a, <1>b, <1>e, QueueStep DEF QueueMoves
<1>1. TypeOK'
  BY MainTypeOK DEF IInv, MainStep
<1>2. StatusFollowsRoutine'
  <2>1. \A v \in Units : v # u => StatusFollows(v)'
    BY <1>a, <1>d, <1>f DEF IInv, StatusFollowsRoutine, StatusFollows, QueueMoves, Working
  <2>2. StatusFollows(u)'
    BY <1>a, <1>c, <1>d, <1>f DEF StatusFollows, Working
  <2> QED
    BY <2>1, <2>2 DEF StatusFollowsRoutine, StatusFollows
<1>3. ErrorsFollowRoutine'
  <2>1. exit = "none"
    BY <1>a DEF IInv, WayOut, Loops
  <2>2. \A v \in Units : status'[v] = "Finished" => status[v] = "Finished"
    BY <1>f DEF IInv, TypeOK, Statuses, QueueMoves
  <2>3. \A v \in Units : failed[v] => v # u
    BY <1>c
  <2> QED
    BY <1>a, <1>d, <2>1, <2>2, <2>3 DEF IInv, ErrorsFollowRoutine
<1>4. ReadyIsUnblocked'
  <2> SUFFICES ASSUME NEW v \in Units, status'[v] = "ReadyForExec",
                      NEW w \in Blockers(Graph, v)
               PROVE  status'[w] = "Finished"
    BY <1>a DEF ReadyIsUnblocked, Blockers
  <2>1. w \in Units /\ v # u
    BY <1>f DEF Blockers
  <2>2. CASE status[v] = "Backlog"
    BY <2>1, <2>2, <1>f DEF QueueMoves
  <2>3. CASE status[v] = "ReadyForExec"
    <3>1. status[w] = "Finished" /\ w # u
      BY <2>1, <2>3, <1>a DEF IInv, ReadyIsUnblocked
    <3> QED
      BY <2>1, <3>1, <1>f DEF QueueMoves
  <2> QED
    BY <2>1, <2>2, <2>3, <1>f DEF IInv, TypeOK, Statuses, QueueMoves
<1>5. StartsInOrder'
  <2> SUFFICES ASSUME NEW v \in Units, routine'[v] # "idle",
                      NEW w \in Blockers(Graph, v)
               PROVE  Ended(w)' /\ ~failed'[w]
    BY <1>a DEF StartsInOrder, Blockers
  <2>1. w \in Units
    BY DEF Blockers
  <2>2. Ended(w) /\ ~failed[w]
    BY <1>c, <1>d DEF IInv, StartsInOrder
  <2>3. w # u
    BY <2>2, <1>c DEF Ended
  <2> QED
    BY <2>1, <2>2, <2>3, <1>a, <1>d DEF Ended
<1>6. WayOut'
  BY <1>a DEF IInv, WayOut, Loops, Draining
<1>7. Cardinality(InProgress') <= MaxParallel
  <2>1. InProgress' = StatusFilter(st, {"InProgress"})
    BY <1>a, <1>b, UpdateQueueKeeps DEF InProgress, StatusFilter
  <2>2. InProgress' = InProgress \cup {u}
    BY <2>1, <1>e DEF InProgress, StatusFilter
  <2>3. u \notin InProgress
    BY <1>a DEF InProgress, StatusFilter
  <2>4. Cardinality(InProgress') = Cardinality(InProgress) + 1
    BY <2>2, <2>3, InProgressIsFinite, FS_AddElement
  <2> QED
    BY <2>4, <1>a, InProgressIsFinite, FS_CardinalityType, MaxParallelIsPositive
<1> QED
  BY <1>1, <1>2, <1>3, <1>4, <1>5, <1>6, <1>7 DEF IInv

(* The refresh at the head of GetNextAsync.                                *)
LEMMA RefreshKeepsIInv ==
  ASSUME IInv, Refresh
  PROVE  IInv'
<1>a. /\ main = "queue" /\ Graph' = Graph
      /\ \/ main' = "wait" /\ exit' = "error"
         \/ main' = "pick" /\ exit' = exit
      /\ UNCHANGED <<plan, failed, execErr, tainted, reported, routine, result>>
      /\ status' = UpdateQueue(Graph, status)
  BY DEF Refresh, LeaveTo, GoTo, Graph, unitData, marks, outcome
<1>b. status \in [Units -> Statuses]
  BY DEF IInv, TypeOK
<1>c. \A v \in Units : QueueMoves(status, v)
  BY <1>a, <1>b, QueueStep
<1>d. \A v \in Units : status'[v] = "Finished" <=> status[v] = "Finished"
  BY <1>b, <1>c DEF Statuses, QueueMoves
<1>1. TypeOK'
  BY MainTypeOK DEF IInv, MainStep
<1>2. StatusFollowsRoutine'
  BY <1>a, <1>c DEF IInv, StatusFollowsRoutine, StatusFollows, QueueMoves
<1>3. ErrorsFollowRoutine'
  BY <1>a, <1>d DEF IInv, ErrorsFollowRoutine
<1>4. ReadyIsUnblocked'
  <2> SUFFICES ASSUME NEW v \in Units, status'[v] = "ReadyForExec",
                      NEW w \in Blockers(Graph, v)
               PROVE  status'[w] = "Finished"
    BY <1>a DEF ReadyIsUnblocked, Blockers
  <2>1. status[v] \in {"Backlog", "ReadyForExec"}
    BY <1>b, <1>c DEF Statuses, QueueMoves
  <2> QED
    BY <2>1, <1>c, <1>d DEF IInv, ReadyIsUnblocked, QueueMoves, Blockers
<1>5. StartsInOrder'
  BY <1>a DEF IInv, StartsInOrder, Ended, Blockers
<1>6. WayOut'
  BY <1>a DEF IInv, WayOut, Loops, Draining
<1>7. Cardinality(InProgress') <= MaxParallel
  BY <1>a, <1>b, UpdateQueueKeeps DEF IInv, InProgress
<1> QED
  BY <1>1, <1>2, <1>3, <1>4, <1>5, <1>6, <1>7 DEF IInv

(* Both receives finish the unit of the routine they release. ExecErr ends *)
(* the loop, and Wait is only reached after that.                          *)
LEMMA ReceiveKeepsIInv ==
  ASSUME IInv, NEW u \in Units, Receive(u) \/ WaitReceive(u)
  PROVE  IInv'
<1> DEFINE st == [status EXCEPT ![u] = "Finished"]
<1>a. /\ main \in {"receive", "waitReceive"} /\ Graph' = Graph
      /\ routine[u] = "send" /\ routine' = [routine EXCEPT ![u] = "gone"]
      /\ UNCHANGED <<plan, failed, execErr, tainted, reported, result>>
      /\ status' = UpdateQueue(Graph, st) \/ status' = st
      /\ \/ main' = "wait" /\ exit' = "error"
         \/ main' = "queue" /\ exit' = exit /\ ~failed[u] /\ main \in Loops
  BY DEF IInv, WayOut, ErrorsFollowRoutine, Receive, WaitReceive, LeaveTo, GoTo, Graph, unitData, marks, outcome, Loops, Draining
<1>b. st \in [Units -> Statuses]
  BY DEF IInv, TypeOK, Statuses
<1>c. /\ st[u] = "Finished"
      /\ \A v \in Units : v # u => st[v] = status[v]
      /\ routine'[u] = "gone"
      /\ \A v \in Units : v # u => routine'[v] = routine[v]
  BY <1>a DEF IInv, TypeOK
<1> HIDE DEF st
<1>d. \A v \in Units : QueueMoves(st, v)
  <2>1. CASE status' = UpdateQueue(Graph, st)
    BY <2>1, <1>b, QueueStep
  <2>2. CASE status' = st
    BY <2>2, <1>b DEF QueueMoves, Statuses
  <2> QED
    BY <2>1, <2>2, <1>a
<1>e. /\ status'[u] = "Finished"
      /\ \A v \in Units : v # u => QueueMoves(status, v)
      /\ \A v \in Units : v # u => (status'[v] = "Finished" <=> status[v] = "Finished")
  BY <1>b, <1>c, <1>d DEF QueueMoves, Statuses
<1>f. Graph.op[u] # "NotChanged"
  BY <1>a DEF IInv, StatusFollowsRoutine, StatusFollows
<1>1. TypeOK'
  BY MainTypeOK DEF IInv, MainStep
<1>2. StatusFollowsRoutine'
  <2>1. \A v \in Units : v # u => StatusFollows(v)'
    BY <1>a, <1>c, <1>e DEF IInv, StatusFollowsRoutine, StatusFollows, QueueMoves, Working
  <2>2. StatusFollows(u)'
    BY <1>a, <1>c, <1>e, <1>f DEF StatusFollows, Working
  <2> QED
    BY <2>1, <2>2 DEF StatusFollowsRoutine, StatusFollows
<1>3. ErrorsFollowRoutine'
  <2>1. exit' = "error" \/ (exit' = exit /\ ~failed[u])
    BY <1>a
  <2>2. \A v \in Units : failed[v] /\ status'[v] = "Finished" => exit' = "error"
    BY <2>1, <1>e DEF IInv, ErrorsFollowRoutine
  <2> QED
    BY <1>a, <1>c, <2>2 DEF IInv, ErrorsFollowRoutine
<1>4. ReadyIsUnblocked'
  <2> SUFFICES ASSUME NEW v \in Units, status'[v] = "ReadyForExec",
                      NEW w \in Blockers(Graph, v)
               PROVE  status'[w] = "Finished"
    BY <1>a DEF ReadyIsUnblocked, Blockers
  <2>1. w \in Units /\ v # u
    BY <1>e DEF Blockers
  <2>2. status[v] \in {"Backlog", "ReadyForExec"}
    BY <2>1, <1>e DEF IInv, TypeOK, Statuses, QueueMoves
  <2> QED
    BY <2>1, <2>2, <1>e DEF IInv, ReadyIsUnblocked, QueueMoves
<1>5. StartsInOrder'
  <2> SUFFICES ASSUME NEW v \in Units, routine'[v] # "idle",
                      NEW w \in Blockers(Graph, v)
               PROVE  Ended(w)' /\ ~failed'[w]
    BY <1>a DEF StartsInOrder, Blockers
  <2>1. w \in Units /\ routine[v] # "idle"
    BY <1>a, <1>c DEF Blockers
  <2>2. Ended(w) /\ ~failed[w]
    BY <2>1 DEF IInv, StartsInOrder
  <2> QED
    BY <2>1, <2>2, <1>a, <1>c DEF Ended
<1>6. WayOut'
  BY <1>a DEF IInv, WayOut, Loops, Draining
<1>7. InProgress' \subseteq InProgress
  <2>1. \A v \in Units : status'[v] = "InProgress" => status[v] = "InProgress"
    BY <1>e DEF IInv, TypeOK, Statuses, QueueMoves
  <2> QED
    BY <2>1 DEF InProgress, StatusFilter
<1>8. Cardinality(InProgress') <= MaxParallel
  BY <1>7, InProgressShrinks DEF IInv
<1> QED
  BY <1>1, <1>2, <1>3, <1>4, <1>5, <1>6, <1>8 DEF IInv

(* The steps that only look at the statuses and move on, and Save.         *)
LEMMA LookKeepsIInv ==
  ASSUME IInv,
         \/ LoopHead \/ NoStart \/ CheckEmpty \/ CheckWait
         \/ \E written \in BOOLEAN : Save(written)
  PROVE  IInv'
<1>1. UNCHANGED <<plan, status, failed, execErr, tainted, reported, routine>>
  BY DEF LoopHead, NoStart, CheckEmpty, CheckWait, Save, unitData, marks, outcome
<1>2. TypeOK'
  BY MainTypeOK DEF IInv, MainStep
<1>3. Live(status) = {} => InProgress = {}
  BY DEF Live, InProgress, StatusFilter
<1>5. WayOut'
  <2>1. CASE LoopHead \/ NoStart \/ CheckEmpty \/ CheckWait
    BY <2>1, <1>1, <1>3 DEF LoopHead, NoStart, CheckEmpty, CheckWait, LeaveTo, GoTo, IInv,
      WayOut, Loops, Draining, InProgress, Live, StatusFilter, outcome
  <2>2. ASSUME NEW written \in BOOLEAN, Save(written)
        PROVE  WayOut'
    BY <2>2, <1>1 DEF Save, ReturnValue, GoTo, IInv, WayOut, Loops, Draining,
      InProgress, Live, StatusFilter
  <2> QED
    BY <2>1, <2>2
<1>6. exit' = exit \/ \A u \in Units : status[u] = "Finished" => ~failed[u]
  BY DEF LoopHead, NoStart, CheckEmpty, CheckWait, Save, LeaveTo, outcome, IInv, WayOut,
         ErrorsFollowRoutine, Loops
<1>7. /\ StatusFollowsRoutine' /\ ErrorsFollowRoutine'
      /\ ReadyIsUnblocked' /\ StartsInOrder'
  BY <1>1, <1>6 DEF IInv, StatusFollowsRoutine, StatusFollows, ErrorsFollowRoutine,
     ReadyIsUnblocked, StartsInOrder, Ended, Blockers, Graph
<1>8. Cardinality(InProgress') <= MaxParallel
  BY <1>1 DEF IInv, InProgress, StatusFilter
<1> QED
  BY <1>2, <1>5, <1>7, <1>8 DEF IInv

LEMMA InitIInv == Init => IInv
<1> SUFFICES ASSUME Init
             PROVE  IInv
  OBVIOUS
<1>1. /\ \A u \in Units : routine[u] = "idle" /\ ~failed[u] /\ ~tainted[u]
      /\ \A u \in Units :
           status[u] = IF Graph.op[u] = "NotChanged" THEN "Finished" ELSE "Backlog"
  BY DEF Init
<1>2. InProgress = {}
  BY <1>1 DEF InProgress, StatusFilter
<1>3. Cardinality(InProgress) <= MaxParallel
  BY <1>2, FS_EmptySet, MaxParallelIsPositive
<1>4. StatusFollowsRoutine /\ ErrorsFollowRoutine /\ ReadyIsUnblocked /\ StartsInOrder
  BY <1>1 DEF StatusFollowsRoutine, StatusFollows, ErrorsFollowRoutine, ReadyIsUnblocked,
     StartsInOrder, Working
<1>5. WayOut
  BY DEF Init, WayOut, Loops, Draining
<1> QED
  BY <1>3, <1>4, <1>5, InitTypeOK DEF IInv

LEMMA NextIInv == IInv /\ [Next]_vars => IInv'
<1> SUFFICES ASSUME IInv, [Next]_vars
             PROVE  IInv'
  OBVIOUS
<1>1. CASE UNCHANGED vars
  BY <1>1 DEF vars, IInv, TypeOK, StatusFollowsRoutine, StatusFollows, ErrorsFollowRoutine,
     ReadyIsUnblocked, StartsInOrder, Ended, Blockers, WayOut, Graph, Live, InProgress,
     StatusFilter
<1>2. CASE Exited
  BY <1>2, <1>1 DEF Exited
<1>3. CASE MainStep
  BY <1>3, RefreshKeepsIInv, StartKeepsIInv, ReceiveKeepsIInv, LookKeepsIInv DEF MainStep
<1> QED
  BY <1>1, <1>2, <1>3, RoutineKeepsIInv, EnvironmentKeepsIInv DEF Next

(* The status the scheduler reads follows the place of every routine.      *)
THEOREM InvariantHolds == Spec => []IInv
  BY InitIInv, NextIInv, PTL DEF Spec

------------------------------------------------------------------------------
(* The safety properties.                                                  *)

(* However the routines' status writes fall between the scans of the main  *)
(* goroutine, no more than MaxParallel routines are at work.               *)
THEOREM ParallelismHolds == Spec => []ParallelismBound
<1>1. IInv => ParallelismBound
  <2> SUFFICES ASSUME IInv
               PROVE  ParallelismBound
    OBVIOUS
  <2> DEFINE W == {u \in Units : routine[u] \in Working}
  <2>1. W \subseteq InProgress
    BY DEF IInv, StatusFollowsRoutine, StatusFollows, InProgress, StatusFilter
  <2>2. Cardinality(W) <= Cardinality(InProgress) /\ IsFiniteSet(W)
    BY <2>1, InProgressIsFinite, FS_Subset
  <2>3. Cardinality(W) <= MaxParallel
    BY <2>2, InProgressIsFinite, FS_CardinalityType, MaxParallelIsPositive DEF IInv
  <2> QED
    BY <2>3 DEF ParallelismBound
<1> QED
  BY <1>1, InvariantHolds, PTL

(* Nothing is started before what it waits for is over and unmarked.       *)
THEOREM OrderHolds == Spec => []StartsInOrder
<1>1. IInv => StartsInOrder
  BY DEF IInv
<1> QED
  BY <1>1, InvariantHolds, PTL

(* The state is saved only when every routine is at its end.               *)
THEOREM QuietSaveHolds == Spec => []SavesWhenQuiet
<1>1. IInv => SavesWhenQuiet
  BY DEF IInv, WayOut, SavesWhenQuiet, StatusFollowsRoutine, StatusFollows, InProgress,
     StatusFilter
<1> QED
  BY <1>1, InvariantHolds, PTL

(* A command that returns success has worked off the whole plan, and no    *)
(* unit carries an error.                                                  *)
THEOREM CompletenessHolds == Spec => []SuccessIsComplete
<1>1. IInv => SuccessIsComplete
  <2> SUFFICES ASSUME IInv, result = "ok", NEW u \in Units
               PROVE  Ended(u) /\ ~failed[u]
    BY DEF SuccessIsComplete
  <2>1. exit \in {"len", "nil"}
    BY DEF IInv, TypeOK, WayOut
  <2>2. status[u] = "Finished"
    BY <2>1 DEF IInv, TypeOK, WayOut, Live, StatusFilter, Statuses
  <2>3. Ended(u)
    BY <2>2 DEF IInv, TypeOK, StatusFollowsRoutine, StatusFollows, Ended, Working,
       RoutinePlaces
  <2>4. ~failed[u]
    BY <2>1, <2>2 DEF IInv, ErrorsFollowRoutine
  <2> QED
    BY <2>3, <2>4
<1> QED
  BY <1>1, InvariantHolds, PTL

------------------------------------------------------------------------------
(* The records.                                                            *)

(* A step of u's routine on u itself keeps what its record owes, and does  *)
(* not touch the records of others.                                        *)
OnlyTouches(u) ==
  \A v \in Units : v # u =>
    /\ UNCHANGED <<did[v], reported[v], own[v], tainted[v], v \in lost>>
    /\ <<v, "plan">> \in applied => <<v, "plan">> \in applied'

OwnSteps(u) ==
  \/ BuildFails(u) \/ PrepareFails(u) \/ NothingToRun(u) \/ BeginCommands(u)
  \/ CommandsSucceed(u) \/ CommandsFail(u) \/ CommandsRefused(u)
  \/ OutputsUnknown(u) \/ OutputsLost(u)
  \/ BeginRecord(u) \/ EndRecord(u) \/ MarkFinished(u)

LEMMA RoutineRecords ==
  ASSUME IInv, NEW u \in Units, RecordFollows(u), OwnSteps(u)
  PROVE  RecordFollows(u)' /\ OnlyTouches(u)
<1> USE DEF IInv, TypeOK, Step, RecordFollows, RecordOf, Truthful, Loaded, Removes, Graph, OnlyTouches, marks
<1>1. CASE BuildFails(u)
  BY <1>1 DEF BuildFails
<1>2. CASE PrepareFails(u)
  BY <1>2 DEF PrepareFails, AfterError
<1>3. CASE NothingToRun(u)
  BY <1>3 DEF NothingToRun, Applied
<1>4. CASE BeginCommands(u)
  BY <1>4 DEF BeginCommands
<1>5. CASE CommandsSucceed(u)
  BY <1>5 DEF CommandsSucceed, Applied
<1>6. CASE CommandsFail(u)
  BY <1>6 DEF CommandsFail, Fail
<1>7. CASE CommandsRefused(u)
  BY <1>7 DEF CommandsRefused, Fail
<1>8. CASE OutputsUnknown(u)
  BY <1>8 DEF OutputsUnknown
<1>9. CASE OutputsLost(u)
  BY <1>9 DEF OutputsLost, Applied, AfterError
<1>10. CASE BeginRecord(u)
  BY <1>10 DEF BeginRecord, unitData
<1>11. CASE EndRecord(u)
  BY <1>11 DEF EndRecord, RecordOf, unitData
<1>12. CASE MarkFinished(u)
  BY <1>12 DEF MarkFinished, unitData
<1> QED
  BY <1>1, <1>2, <1>3, <1>4, <1>5, <1>6, <1>7, <1>8, <1>9, <1>10, <1>11, <1>12 DEF OwnSteps

(* A dependency applied by force was not applied before: its routine, if   *)
(* it is over, has reported an error, and its record stays truthful.       *)
LEMMA ForceAppliesRecords ==
  ASSUME IInv, NEW u \in Units, NEW d \in Units, NEW v \in Units, RecordFollows(v),
         ForceApplies(u, d)
  PROVE  RecordFollows(v)'
<1>1. /\ UNCHANGED <<plan, marks, reported, routine, own>>
      /\ applied \subseteq applied' /\ lost \subseteq lost'
      /\ v # d => did'[v] = did[v]
      /\ did'[d] = did[d] \/ (did'[d] = "all" /\ ~Removes(d) /\ <<d, "plan">> \notin applied)
  BY DEF ForceApplies, Unsettle, ForcesOld, Object, Removes, Graph, outcome, IInv, TypeOK
<1> QED
  BY <1>1 DEF RecordFollows, RecordOf, Truthful, Loaded, Removes, Graph, marks

(* When it fails it gets marks, and a record that is the state's object    *)
(* gets them too; the routine that applied it is recorded if it is tainted *)
LEMMA ForceFailsRecords ==
  ASSUME IInv, NEW u \in Units, NEW d \in Units, NEW how \in ForceFailures,
         NEW v \in Units, RecordFollows(v), ForceFails(u, d, how)
  PROVE  RecordFollows(v)'
<1> USE DEF IInv, TypeOK, Step, Graph, Removes
<1>1. /\ UNCHANGED <<plan, applied, did>> /\ lost \subseteq lost'
      /\ d \in plan.forces[u] /\ Object(u, d) \notin applied
      /\ routine[u] = "prepare" /\ reported' = [reported EXCEPT ![u] = TRUE]
      /\ routine' = [routine EXCEPT ![u] = AfterError(u)]
      /\ own' = [own EXCEPT ![d] = IF Removes(u) /\ @ = "old" THEN "tainted" ELSE @]
      /\ tainted' = tainted \/ (~ForcesOld(u, d) /\ tainted' = [tainted EXCEPT ![d] = TRUE])
  BY DEF ForceFails, Unsettle, marks
<1>2. d # u
  BY <1>1, PlansAreBuilt DEF ForcesBelong
<1>3. own'[v] = own[v] \/ (own[v] = "old" /\ own'[v] = "tainted")
  BY <1>1
<1>4. CASE v = u
  <2>1. routine'[u] = AfterError(u) /\ reported'[u] = TRUE /\ tainted'[u] = tainted[u]
        /\ own'[u] = own[u]
    BY <1>1, <1>2
  <2> QED
    BY <1>1, <1>4, <2>1 DEF RecordFollows, RecordOf, Truthful, Loaded, AfterError, RoutinePlaces
<1>5. CASE v # u
  <2>1. routine'[v] = routine[v] /\ reported'[v] = reported[v]
    BY <1>1, <1>5
  <2>2. CASE tainted'[v] = tainted[v]
    BY <1>1, <1>3, <2>1, <2>2 DEF RecordFollows, RecordOf, Truthful, Loaded
  <2>3. CASE v = d /\ ~ForcesOld(u, d) /\ tainted'[v] = TRUE
    <3>1. Removes(v) \/ <<v, "plan">> \notin applied
      BY <1>1, <2>3 DEF Object
    <3> QED
      BY <1>1, <1>3, <2>1, <2>3, <3>1 DEF RecordFollows, RecordOf, Truthful, Loaded
  <2> QED
    BY <1>1, <2>2, <2>3
<1> QED
  BY <1>4, <1>5

LEMMA NextRInv == RInv /\ [Next]_vars => RInv'
<1> SUFFICES ASSUME RInv, [Next]_vars
             PROVE  RInv'
  OBVIOUS
<1>1. IInv /\ IInv'
  BY NextIInv DEF RInv
<1> SUFFICES \A v \in Units : RecordFollows(v)'
  BY <1>1 DEF RInv
<1>2. ASSUME UNCHANGED <<plan, did, tainted, reported, own, applied, lost>>,
             \A v \in Units : \/ routine'[v] = routine[v]
                              \/ routine[v] \in {"prepare", "run"} /\ routine'[v] = "hung"
                              \/ routine[v] = "idle" /\ routine'[v] = "prepare"
                              \/ routine[v] = "send" /\ routine'[v] = "gone"
      PROVE  \A v \in Units : RecordFollows(v)'
  BY <1>2 DEF RInv, RecordFollows, RecordOf, Truthful, Loaded, Removes, Graph
<1>3. ASSUME NEW u \in Units, RoutineStep(u)
      PROVE  \A v \in Units : RecordFollows(v)'
  <2>1. CASE OwnSteps(u)
    <3>1. RecordFollows(u)' /\ OnlyTouches(u)
      BY <1>1, <2>1, RoutineRecords DEF RInv
    <3>2. plan' = plan /\ \A v \in Units : v # u => routine'[v] = routine[v]
      BY <1>1, <1>3, RoutineEffect DEF Touches
    <3>3. \A v \in Units : v # u => RecordFollows(v)'
      BY <3>1, <3>2 DEF RInv, OnlyTouches, RecordFollows, RecordOf, Truthful, Loaded, Removes, Graph
    <3> QED
      BY <3>1, <3>3
  <2>2. ASSUME NEW d \in Units, ForceApplies(u, d)
        PROVE  \A v \in Units : RecordFollows(v)'
    BY <1>1, <2>2, ForceAppliesRecords DEF RInv
  <2>3. ASSUME NEW d \in Units, NEW how \in ForceFailures, ForceFails(u, d, how)
        PROVE  \A v \in Units : RecordFollows(v)'
    BY <1>1, <2>3, ForceFailsRecords DEF RInv
  <2> QED
    BY <1>3, <2>1, <2>2, <2>3 DEF RoutineStep, OwnSteps
<1>4. ASSUME NEW u \in Units, Start(u)
      PROVE  \A v \in Units : RecordFollows(v)'
  <2>1. routine[u] = "idle"
    BY <1>1, <1>4, FrontIsStartable DEF Start, IsFront, Ready, StatusFilter, Loops
  <2> QED
    BY <1>1, <1>2, <1>4, <2>1 DEF Start, unitData, marks, outcome, IInv, TypeOK
<1>5. ASSUME NEW u \in Units, Receive(u) \/ WaitReceive(u)
      PROVE  \A v \in Units : RecordFollows(v)'
  BY <1>1, <1>2, <1>5 DEF Receive, WaitReceive, unitData, marks, outcome, IInv, TypeOK
<1>6. CASE LoopHead \/ Refresh \/ NoStart \/ CheckEmpty \/ CheckWait
  BY <1>2, <1>6 DEF LoopHead, Refresh, NoStart, CheckEmpty, CheckWait, unitData, marks, outcome
<1>7. CASE \E written \in BOOLEAN : Save(written)
  BY <1>2, <1>7 DEF Save, unitData, marks
<1>8. CASE Environment
  BY <1>1, <1>2, <1>8 DEF Environment, Interrupt, Terminate, Panic, MapFault, Dies, Hang,
     unitData, marks, outcome, IInv, TypeOK
<1>9. CASE Exited \/ UNCHANGED vars
  BY <1>2, <1>9 DEF Exited, vars
<1> QED
  BY <1>3, <1>4, <1>5, <1>6, <1>7, <1>8, <1>9 DEF Next, MainStep

(* The state that a command leaves behind tells for every unit what its    *)
(* routine has done, whatever failed, was refused or came too late.        *)
THEOREM RecordsHold == Spec => []RecordsAreTruthful
<1>1. Init => RInv
  BY InitIInv DEF Init, RInv, RecordFollows
<1>2. RInv => RecordsAreTruthful
  <2> SUFFICES ASSUME RInv, main = "end", NEW u \in Units \ lost
               PROVE  Truthful(u)
    BY DEF RecordsAreTruthful
  <2>1. routine[u] \in {"idle", "send", "gone"}
    BY DEF RInv, IInv, TypeOK, WayOut, StatusFollowsRoutine, StatusFollows, InProgress,
       StatusFilter, RoutinePlaces, Working
  <2> QED
    BY <2>1 DEF RInv, RecordFollows, RecordOf, Truthful
<1> QED
  BY <1>1, <1>2, NextRInv, PTL DEF Spec

------------------------------------------------------------------------------
(* The scheduler implements OrderedRun.                                    *)

phase == [u \in Units |-> IF Ended(u) THEN "over"
                          ELSE IF routine[u] = "idle" THEN "pending" ELSE "active"]
bad == {u \in Units : failed[u] /\ Ended(u)}
before == [u \in Units |-> Blockers(Graph, u)]
halted == main \notin Loops

(* The two modules count with the same definition.                         *)
LEMMA SameCardinality ==
  ASSUME NEW S
  PROVE  Ordered!Cardinality(S) = Cardinality(S)
  BY DEF Ordered!Cardinality, Cardinality

(* A start of the scheduler is a begin of the ordered run.                 *)
LEMMA StartIsBegin ==
  ASSUME IInv, NEW u \in Units, Start(u)
  PROVE  Ordered!Begin(u)
<1>1. /\ main = "pick" /\ main' = "loop" /\ status[u] = "ReadyForExec"
      /\ UNCHANGED <<plan, failed>>
      /\ routine' = [routine EXCEPT ![u] = "prepare"]
      /\ Cardinality(InProgress) < MaxParallel
  BY DEF Start, IsFront, Ready, StatusFilter, CanStart, GoTo, unitData, marks
<1>2. /\ routine[u] = "idle" /\ Graph.op[u] # "NotChanged"
      /\ \A v \in Blockers(Graph, u) : v # u /\ Ended(v) /\ ~failed[v]
  BY <1>1, FrontIsStartable DEF Loops
<1>3. /\ routine'[u] = "prepare"
      /\ \A v \in Units : v # u => routine'[v] = routine[v]
  BY <1>1 DEF IInv, TypeOK
<1>4. \A v \in Units : Ended(v)' <=> Ended(v)
  BY <1>1, <1>2, <1>3 DEF Ended, Graph
<1>5. ~halted /\ UNCHANGED halted
  BY <1>1 DEF halted, Loops
<1>6. phase[u] = "pending" /\ \A v \in before[u] : phase[v] = "over" /\ v \notin bad
  BY <1>2 DEF phase, bad, before, Ended, Blockers
<1>7. phase' = [phase EXCEPT ![u] = "active"]
  BY <1>2, <1>3, <1>4 DEF phase, Ended
<1>8. UNCHANGED <<before, bad>>
  BY <1>1, <1>4 DEF before, bad, Graph, Blockers
<1>9. Cardinality(Ordered!Active) < MaxParallel
  <2> DEFINE A == Ordered!Active
  <2>1. A \subseteq InProgress
    BY DEF Ordered!Active, Ended, IInv, TypeOK, StatusFollowsRoutine, StatusFollows, InProgress,
       StatusFilter, RoutinePlaces, Working
  <2>2. Cardinality(A) <= Cardinality(InProgress) /\ IsFiniteSet(A)
    BY <2>1, InProgressIsFinite, FS_Subset
  <2> QED
    BY <2>2, <1>1, InProgressIsFinite, FS_CardinalityType, MaxParallelIsPositive
<1>10. Ordered!Cardinality(Ordered!Active) < MaxParallel
  BY <1>9, SameCardinality
<1> QED
  BY <1>5, <1>6, <1>7, <1>8, <1>10
  DEF Ordered!Begin, phase, bad, before, halted

(* A routine's step is a finish when it reaches its end; else it changes   *)
(* nothing, or it forgets the failure of a dependency applied by force.    *)
LEMMA RoutineIsFinish ==
  ASSUME IInv, NEW u \in Units, RoutineStep(u)
  PROVE  Ordered!Finish(u) \/ Ordered!Forget
<1>1. /\ UNCHANGED <<before, halted>> /\ Graph' = Graph
  BY RoutineEffect DEF Touches, before, halted, Graph, Blockers
<1>2. routine[u] \in Working /\ ~Ended(u) /\ phase[u] = "active"
  BY RoutineEffect DEF Touches, IInv, StatusFollowsRoutine, StatusFollows, Ended, phase, Working
<1>3. \A v \in Units : v # u => /\ Ended(v)' <=> Ended(v)
                               /\ phase'[v] = phase[v]
  BY RoutineEffect, <1>1 DEF Touches, Ended, phase
<1>6. bad' \subseteq bad \cup {u}
  BY <1>3, RoutineEffect DEF Touches, bad
<1>4. CASE routine'[u] = "send"
  <2>1. Ended(u)' /\ phase' = [phase EXCEPT ![u] = "over"]
    BY <1>3, <1>4 DEF Ended, phase
  <2> QED
    BY <1>1, <1>2, <1>6, <2>1 DEF Ordered!Finish, phase, bad, before, halted
<1>5. CASE routine'[u] \in Working
  <2>1. ~Ended(u)' /\ phase'[u] = "active"
    BY <1>1, <1>2, <1>5 DEF Ended, phase, Working
  <2>2. phase' = phase /\ bad' \subseteq bad
    BY <1>2, <1>3, <1>6, <2>1 DEF phase, bad
  <2> QED
    BY <1>1, <2>2 DEF Ordered!Forget, phase, bad, before, halted
<1> QED
  BY <1>4, <1>5, RoutineEffect DEF Touches

(* Every other step leaves the run alone or halts it.                      *)
LEMMA OthersHalt ==
  ASSUME IInv,
         \/ LoopHead \/ Refresh \/ NoStart \/ CheckEmpty \/ CheckWait
         \/ \E written \in BOOLEAN : Save(written)
         \/ \E u \in Units : Receive(u) \/ WaitReceive(u)
         \/ Environment
  PROVE  Ordered!Halt \/ UNCHANGED Ordered!vars
<1>1. UNCHANGED <<plan, failed>>
  BY DEF LoopHead, Refresh, NoStart, CheckEmpty, CheckWait, Save, Receive, WaitReceive,
         Environment, Interrupt, Terminate, Panic, MapFault, Dies, Hang, unitData, marks
<1>2. \A u \in Units : /\ Ended(u)' <=> Ended(u)
                       /\ routine'[u] = "idle" <=> routine[u] = "idle"
  <2>1. CASE UNCHANGED routine
    BY <1>1, <2>1 DEF Ended, Graph
  <2>2. ASSUME NEW u \in Units, Receive(u) \/ WaitReceive(u)
        PROVE  <1>2
    BY <1>1, <2>2 DEF Receive, WaitReceive, Ended, Graph, IInv, TypeOK
  <2>3. ASSUME NEW u \in Units, Hang(u)
        PROVE  <1>2
    BY <1>1, <2>3 DEF Hang, Ended, Graph, IInv, TypeOK
  <2> QED
    BY <2>1, <2>2, <2>3 DEF LoopHead, Refresh, NoStart, CheckEmpty, CheckWait, Save,
         Environment, Interrupt, Terminate, Panic, MapFault, Dies
<1>3. UNCHANGED <<before, phase, bad>>
  BY <1>1, <1>2 DEF before, phase, bad, Graph, Blockers
<1>4. halted' = TRUE \/ UNCHANGED halted
  BY DEF LoopHead, Refresh, NoStart, CheckEmpty, CheckWait, Save, Receive, WaitReceive,
         Environment, Interrupt, Terminate, Panic, MapFault, Dies, Hang, GoTo, LeaveTo, halted,
         Loops, Draining, Died, Over, Running
<1> QED
  BY <1>3, <1>4 DEF Ordered!Halt, Ordered!vars, before, phase, bad, halted

(* Every execution of a plan is an ordered run.                            *)
THEOREM ImplementsOrderedRun == Spec => RunsInOrder
<1>1. Init => Ordered!Init
  BY DEF Init, Ordered!Init, Ended, Blockers, Loops
<1>2. IInv /\ [Next]_vars => [Ordered!Next]_(Ordered!vars)
  <2> SUFFICES ASSUME IInv, [Next]_vars
               PROVE  Ordered!Next \/ UNCHANGED Ordered!vars
    OBVIOUS
  <2>1. CASE UNCHANGED vars \/ Exited
    BY <2>1 DEF Exited, vars, Ordered!vars, Ended, Blockers, Graph
  <2> QED
    BY <2>1, StartIsBegin, RoutineIsFinish, OthersHalt DEF Next, MainStep, Ordered!Next
<1> QED
  BY <1>1, <1>2, InvariantHolds, PTL DEF Spec, Ordered!Spec, RunsInOrder

==============================================================================
