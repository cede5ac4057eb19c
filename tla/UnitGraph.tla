------------------------------ MODULE UnitGraph ------------------------------
(***************************************************************************)
(* The execution of a plan by "cdev apply" and "cdev destroy" after the    *)
(* user's consent: the command's loop, graph.GetNextAsync and graph.Wait   *)
(* in the main goroutine, one applyRoutine or destroyRoutine goroutine per *)
(* started unit, the unbuffered channel between them, the state kept in    *)
(* memory and saved at the end, and the signals that may arrive.           *)
(*                                                                         *)
(* The main goroutine and the routines share the units' ExecStatus without *)
(* a lock. Each scan of the statuses is one step; the routines' steps fall *)
(* between any two of them.                                                *)
(***************************************************************************)
EXTENDS PlanGraph

CONSTANTS Plans,        \* the plans that may be executed
          MaxParallel   \* config.Global.MaxParallel

Commands == {"apply", "destroy"}

(* A plan with its flags; forces[u] are the units with force_apply that u  *)
(* depends on, over however many others (findForceApplyDependencies).      *)
PlanSpace == [cmd : Commands, force : BOOLEAN, ignoreState : BOOLEAN,
              graph : Graphs, forces : [Units -> SUBSET Units]]

(* Dependencies of a project's unit are units of the project, those of a   *)
(* state's unit are units of the state, which has none that is new.        *)
ForcesBelong(p) ==
  \A u \in Units :
    /\ u \notin p.forces[u]
    /\ p.graph.op[u] # "Destroy" => p.forces[u] \subseteq ProjectUnits(p.graph)
    /\ p.graph.op[u] = "Destroy" => \A d \in p.forces[u] : p.graph.op[d] # "Apply"

(* BuildGraph accepted the plan; the destroy command only destroys, and    *)
(* with --ignore-state an apply applies every unit.                        *)
ASSUME PlansAreBuilt ==
  \A p \in Plans :
    /\ p \in PlanSpace
    /\ WellFormed(p.graph) /\ Sequenced(p.graph) /\ ForcesBelong(p)
    /\ p.cmd = "destroy" => \A u \in Units : p.graph.op[u] = "Destroy"
    /\ p.cmd = "apply" /\ p.ignoreState => \A u \in Units : p.graph.op[u] = "Apply"

ASSUME MaxParallelIsPositive == MaxParallel \in Nat \ {0}

VARIABLES
  plan,        \* the plan in execution; chosen once
  status,      \* ExecStatus of every unit
  execErr,     \* ExecErr # nil, read by the scheduler
  tainted,     \* SetTainted(true, _) was called on the unit
  applied,     \* AlreadyApplied, of the plan's and of the state's objects
  reported,    \* finFunc was, or will be, given an error
  did,         \* what the unit's commands have done to the infrastructure
  failed,      \* history: the error is one its own routine has set
  lost,        \* history: changed by another unit's routine behind its record
  routine,     \* where the unit's goroutine is
  main,        \* where the main goroutine is, or how the process died
  exit,        \* the way the command's loop was left
  interrupted, \* config.Interrupted
  own,         \* p.OwnState.Units: the record of every unit in memory
  saved,       \* the records in the backend
  result       \* what the command returned

vars == <<plan, status, execErr, tainted, applied, reported, did, failed, lost,
          routine, main, exit, interrupted, own, saved, result>>

Graph == plan.graph

Removes(u) == Graph.op[u] = "Destroy"

Effects == {"nothing", "partly", "all"}

(* "hung": the trap of a command never comes back from Close.              *)
RoutinePlaces ==
  {"idle", "prepare", "run", "hung", "record", "writing", "mark", "send", "gone"}

(* A routine that has not come to its end yet.                             *)
Working == {"prepare", "run", "hung", "record", "writing", "mark"}

(* A destroyed unit is an object of the state, and what it depends on are  *)
(* such objects too, also where the plan has the project's of that key.    *)
Objects == Units \X {"plan", "state"}

ForcesOld(u, d) == Removes(u) /\ ~Removes(d)

Object(u, d) == <<d, IF ForcesOld(u, d) THEN "state" ELSE "plan">>

(* Every dependency of u that has force_apply was applied.                 *)
Forced(u) == \A d \in plan.forces[u] : Object(u, d) \in applied

Loops == {"loop", "queue", "pick", "empty", "receive"}
Draining == {"wait", "waitReceive"}
Died == {"panicked", "terminated", "faulted"}
Over == {"end"} \cup Died

(* A unit's record: absent, as loaded, as applied now, marked tainted now. *)
Records == {"none", "old", "new", "tainted"}

TypeOK ==
  /\ plan \in Plans
  /\ status \in [Units -> Statuses]
  /\ execErr \in [Units -> BOOLEAN]
  /\ tainted \in [Units -> BOOLEAN]
  /\ applied \subseteq Objects
  /\ reported \in [Units -> BOOLEAN]
  /\ did \in [Units -> Effects]
  /\ failed \in [Units -> BOOLEAN]
  /\ lost \subseteq Units
  /\ routine \in [Units -> RoutinePlaces]
  /\ main \in Loops \cup Draining \cup {"save"} \cup Over
  /\ exit \in {"none", "len", "nil", "error"}
  /\ interrupted \in BOOLEAN
  /\ own \in [Units -> Records]
  /\ saved \in [Units -> Records]
  /\ result \in {"none", "ok", "error"}

(* The records the command starts with: none with --ignore-state.          *)
Loaded ==
  [u \in Units |-> IF plan.ignoreState \/ Graph.op[u] = "Apply" THEN "none" ELSE "old"]

Init ==
  /\ plan \in Plans
  /\ status = [u \in Units |-> IF Graph.op[u] = "NotChanged" THEN "Finished" ELSE "Backlog"]
  /\ execErr = [u \in Units |-> FALSE]
  /\ tainted = [u \in Units |-> FALSE]
  /\ applied = {}
  /\ reported = [u \in Units |-> FALSE]
  /\ did = [u \in Units |-> "nothing"]
  /\ failed = [u \in Units |-> FALSE]
  /\ lost = {}
  /\ routine = [u \in Units |-> "idle"]
  /\ main = "loop"
  /\ exit = "none"
  /\ interrupted = FALSE
  /\ own = Loaded
  /\ saved \in IF plan.ignoreState THEN {own, [u \in Units |-> "old"]} ELSE {own}
  /\ result = "none"

------------------------------------------------------------------------------
(* The main goroutine.                                                     *)

GoTo(place) == main' = place

LeaveTo(place, how) == main' = place /\ exit' = how

marks == <<execErr, tainted, failed>>
unitData == <<marks, applied, reported, did, lost>>
outcome == <<interrupted, own, saved, result>>

(* The head of the loop: the command is done when graph.Len() is 0.        *)
LoopHead ==
  /\ main = "loop"
  /\ IF Live(status) = {} THEN LeaveTo("save", "len") ELSE GoTo("queue") /\ UNCHANGED exit
  /\ UNCHANGED <<plan, status, unitData, routine, outcome>>

(* GetNextAsync: refresh the queue, give up when interrupted.              *)
Refresh ==
  /\ main = "queue"
  /\ status' = UpdateQueue(Graph, status)
  /\ IF interrupted THEN LeaveTo("wait", "error") ELSE GoTo("pick") /\ UNCHANGED exit
  /\ UNCHANGED <<plan, unitData, routine, outcome>>

Ready == StatusFilter(status, {"ReadyForExec"})
InProgress == StatusFilter(status, {"InProgress"})

CanStart == Ready # {} /\ Cardinality(InProgress) < MaxParallel

(* The first ready unit of the list. planDestroy fills the list before the *)
(* project's units; within each part a map's iteration decides the order.  *)
IsFront(u) == u \in Ready /\ (Removes(u) \/ \A v \in Ready : ~Removes(v))

Start(u) ==
  /\ main = "pick"
  /\ CanStart
  /\ IsFront(u)
  /\ status' = UpdateQueue(Graph, [status EXCEPT ![u] = "InProgress"])
  /\ routine' = [routine EXCEPT ![u] = "prepare"]
  /\ GoTo("loop")
  /\ UNCHANGED <<plan, unitData, exit, outcome>>

NoStart ==
  /\ main = "pick"
  /\ ~CanStart
  /\ GoTo("empty")
  /\ UNCHANGED <<plan, status, unitData, routine, exit, outcome>>

(* Seeded fault: units in progress are forgotten.                          *)
CheckEmptyOfReady ==
  /\ main = "empty"
  /\ IF Ready = {} THEN LeaveTo("save", "nil") ELSE GoTo("receive") /\ UNCHANGED exit
  /\ UNCHANGED <<plan, status, unitData, routine, outcome>>

(* Nothing left: GetNextAsync returns a nil unit. Otherwise it blocks.     *)
CheckEmpty ==
  /\ main = "empty"
  /\ IF Live(status) = {} THEN LeaveTo("save", "nil") ELSE GoTo("receive") /\ UNCHANGED exit
  /\ UNCHANGED <<plan, status, unitData, routine, outcome>>

(* Seeded fault: the loop goes on after a failed unit.                     *)
ReceiveAndGoOn(u) ==
  /\ main = "receive"
  /\ routine[u] = "send"
  /\ routine' = [routine EXCEPT ![u] = "gone"]
  /\ status' = UpdateQueue(Graph, [status EXCEPT ![u] = "Finished"])
  /\ GoTo("queue")
  /\ UNCHANGED <<plan, unitData, exit, outcome>>

(* The rendezvous with a routine; the error given to finFunc is dropped,   *)
(* only the unit's ExecErr counts.                                         *)
Receive(u) ==
  /\ main = "receive"
  /\ routine[u] = "send"
  /\ routine' = [routine EXCEPT ![u] = "gone"]
  /\ status' = UpdateQueue(Graph, [status EXCEPT ![u] = "Finished"])
  /\ IF execErr[u] THEN LeaveTo("wait", "error") ELSE GoTo("queue") /\ UNCHANGED exit
  /\ UNCHANGED <<plan, unitData, outcome>>

(* graph.Wait: receive until no unit is in progress.                       *)
CheckWait ==
  /\ main = "wait"
  /\ GoTo(IF InProgress = {} THEN "save" ELSE "waitReceive")
  /\ UNCHANGED <<plan, status, unitData, routine, exit, outcome>>

(* Seeded fault: Wait forgets to finish the unit it received.              *)
WaitReceiveOnly(u) ==
  /\ main = "waitReceive"
  /\ routine[u] = "send"
  /\ routine' = [routine EXCEPT ![u] = "gone"]
  /\ GoTo("wait")
  /\ UNCHANGED <<plan, status, unitData, exit, outcome>>

WaitReceive(u) ==
  /\ main = "waitReceive"
  /\ routine[u] = "send"
  /\ routine' = [routine EXCEPT ![u] = "gone"]
  /\ status' = [status EXCEPT ![u] = "Finished"]
  /\ GoTo("wait")
  /\ UNCHANGED <<plan, unitData, exit, outcome>>

(* SaveState and the return statement of the way out that was taken. Apply *)
(* ignores the error of SaveState after a nil unit; Destroy does not.      *)
ReturnValue(written) ==
  CASE exit = "error" -> "error"
    [] exit = "nil" /\ plan.cmd = "apply" -> "ok"
    [] OTHER -> IF written THEN "ok" ELSE "error"

Save(written) ==
  /\ main = "save"
  /\ saved' = IF written THEN own ELSE saved
  /\ result' = ReturnValue(written)
  /\ GoTo("end")
  /\ UNCHANGED <<plan, status, unitData, routine, exit, interrupted, own>>

------------------------------------------------------------------------------
(* The routine of unit u.                                                  *)

Running == main \notin Over

Step(u, from, to) ==
  /\ Running
  /\ routine[u] = from
  /\ routine' = [routine EXCEPT ![u] = to]
  /\ UNCHANGED <<plan, main, exit, interrupted, saved, result>>

(* Build fails: an error for finFunc that leaves no mark on the unit.      *)
BuildFails(u) ==
  /\ Step(u, "prepare", "send")
  /\ reported' = [reported EXCEPT ![u] = TRUE]
  /\ UNCHANGED <<status, marks, applied, did, lost, own>>

(* After an error of its Apply a unit is recorded if it is tainted, be it  *)
(* by another unit's routine; after an error of Destroy nothing is.        *)
AfterError(u) == IF tainted[u] /\ ~Removes(u) THEN "record" ELSE "send"

(* Apply or Destroy fails without a mark: terraform init, the namespaces,  *)
(* the Build or the init of a forced dependency.                           *)
PrepareFails(u) ==
  /\ Step(u, "prepare", AfterError(u))
  /\ reported' = [reported EXCEPT ![u] = TRUE]
  /\ UNCHANGED <<status, marks, applied, did, lost, own>>

(* What u's routine leaves of the dependency d it applies by force. The    *)
(* state's object applies what was deployed before: it sets back what d's  *)
(* own routine does. Broken off, the project's object leaves a part.       *)
Upsets(u, d, how) ==
  IF Removes(u) THEN how # "refused" /\ routine[d] # "idle" ELSE how = "broken"

Unsettle(u, d, how) == lost' = IF Upsets(u, d, how) THEN lost \cup {d} ELSE lost

(* forceApplyDependencies: Apply of a dependency, which may be finished or *)
(* at work itself. Its mutex is no guard: two calls may make two (see      *)
(* ShellUnit).                                                             *)
ForceApplies(u, d) ==
  /\ d \in plan.forces[u] /\ Object(u, d) \notin applied
  /\ Running /\ routine[u] = "prepare"
  /\ applied' = applied \cup {Object(u, d)}
  /\ did' = [did EXCEPT ![d] = IF ForcesOld(u, d) \/ Graph.op[d] \in {"NotChanged", "Destroy"}
                               THEN @ ELSE "all"]
  /\ Unsettle(u, d, "applied")
  /\ UNCHANGED <<plan, status, marks, reported, routine, main, exit, outcome>>

(* The dependency fails: it is marked, u is not. Its commands were broken  *)
(* off, or refused, or have an unknown parser (SetTainted(true, nil)). A   *)
(* record that is the very object carries the mark at once.                *)
ForceFails(u, d, how) ==
  /\ d \in plan.forces[u] /\ Object(u, d) \notin applied
  /\ Step(u, "prepare", AfterError(u))
  /\ reported' = [reported EXCEPT ![u] = TRUE]
  /\ IF ForcesOld(u, d)
     THEN UNCHANGED marks
     ELSE /\ tainted' = [tainted EXCEPT ![d] = TRUE]
          /\ execErr' = [execErr EXCEPT ![d] = how # "unparsed"]
          /\ failed' = [failed EXCEPT ![d] = @ /\ how # "unparsed"]
  /\ own' = [own EXCEPT ![d] = IF Removes(u) /\ @ = "old" THEN "tainted" ELSE @]
  /\ Unsettle(u, d, how)
  /\ UNCHANGED <<status, applied, did>>

ForceFailures == {"broken", "refused", "unparsed"}

Applied(u) == IF Removes(u) THEN applied ELSE applied \cup {<<u, "plan">>}

(* Nothing is run: there are no commands for the operation, or another     *)
(* routine has applied the unit.                                           *)
NothingToRun(u) ==
  /\ Forced(u)
  /\ Step(u, "prepare", "record")
  /\ did' = [did EXCEPT ![u] = "all"]
  /\ applied' = Applied(u)
  /\ UNCHANGED <<status, marks, reported, lost, own>>

CommandsDue(u) == Forced(u) /\ (Removes(u) \/ <<u, "plan">> \notin applied)

(* The executor starts the commands unless the process is interrupted.     *)
BeginCommands(u) ==
  /\ CommandsDue(u) /\ ~interrupted
  /\ Step(u, "prepare", "run")
  /\ did' = [did EXCEPT ![u] = "partly"]
  /\ lost' = lost \ {u}
  /\ UNCHANGED <<status, marks, applied, reported, own>>

(* Seeded fault: the unit is declared finished before it is recorded.      *)
CommandsSucceedAndFinish(u) ==
  /\ Step(u, "run", "record")
  /\ did' = [did EXCEPT ![u] = "all"]
  /\ applied' = Applied(u)
  /\ status' = [status EXCEPT ![u] = "Finished"]
  /\ UNCHANGED <<marks, reported, lost, own>>

CommandsSucceed(u) ==
  /\ Step(u, "run", "record")
  /\ did' = [did EXCEPT ![u] = "all"]
  /\ applied' = Applied(u)
  /\ UNCHANGED <<status, marks, reported, lost, own>>

(* SetTainted(true, err). A failed apply is recorded next; a unit that is  *)
(* being destroyed is the state's own object, marked here and now.         *)
Fail(u, from) ==
  /\ Step(u, from, IF Removes(u) THEN "send" ELSE "record")
  /\ execErr' = [execErr EXCEPT ![u] = TRUE]
  /\ tainted' = [tainted EXCEPT ![u] = TRUE]
  /\ failed' = [failed EXCEPT ![u] = TRUE]
  /\ reported' = [reported EXCEPT ![u] = TRUE]
  /\ own' = [own EXCEPT ![u] = IF Removes(u) /\ @ = "old" THEN "tainted" ELSE @]
  /\ UNCHANGED <<status, applied, did, lost>>

CommandsFail(u) == Fail(u, "run")

(* Nothing is run: the process is interrupted, or the executor cannot be   *)
(* set up. The unit is marked all the same.                                *)
CommandsRefused(u) == CommandsDue(u) /\ Fail(u, "prepare")

(* An unknown outputs parser: SetTainted(true, nil) and an error.          *)
OutputsUnknown(u) ==
  /\ ~Removes(u)
  /\ Step(u, "run", "record")
  /\ did' = [did EXCEPT ![u] = "all"]
  /\ tainted' = [tainted EXCEPT ![u] = TRUE]
  /\ execErr' = [execErr EXCEPT ![u] = FALSE]
  /\ reported' = [reported EXCEPT ![u] = TRUE]
  /\ UNCHANGED <<status, applied, failed, lost, own>>

(* A printer's "terraform output" fails after its apply succeeded.         *)
OutputsLost(u) ==
  /\ ~Removes(u)
  /\ Step(u, "run", AfterError(u))
  /\ did' = [did EXCEPT ![u] = "all"]
  /\ applied' = Applied(u)
  /\ reported' = [reported EXCEPT ![u] = TRUE]
  /\ UNCHANGED <<status, marks, lost, own>>

(* The write to the map OwnState.Units has a beginning and an end.         *)
(* UpdateUnit holds StateMutex, DeleteUnit takes no lock.                  *)
BeginRecord(u) ==
  /\ Removes(u) \/ \A v \in Units : routine[v] = "writing" => Removes(v)
  /\ Step(u, "record", "writing")
  /\ UNCHANGED <<status, unitData, own>>

(* UpdateUnit keeps the unit with its mark, DeleteUnit removes it.         *)
RecordOf(u) ==
  IF Removes(u) THEN "none" ELSE IF tainted[u] THEN "tainted" ELSE "new"

(* Seeded fault: the record of a failed unit looks like a good one.        *)
EndRecordClean(u) ==
  /\ Step(u, "writing", IF reported[u] THEN "send" ELSE "mark")
  /\ own' = [own EXCEPT ![u] = IF Removes(u) THEN "none" ELSE "new"]
  /\ UNCHANGED <<status, unitData>>

EndRecord(u) ==
  /\ Step(u, "writing", IF reported[u] THEN "send" ELSE "mark")
  /\ own' = [own EXCEPT ![u] = RecordOf(u)]
  /\ UNCHANGED <<status, unitData>>

(* Seeded fault: a status outside the enumeration.                         *)
MarkDone(u) ==
  /\ Step(u, "mark", "send")
  /\ status' = [status EXCEPT ![u] = "Done"]
  /\ UNCHANGED <<unitData, own>>

(* SetExecStatus(Finished), before finFunc hands the unit over.            *)
MarkFinished(u) ==
  /\ Step(u, "mark", "send")
  /\ status' = [status EXCEPT ![u] = "Finished"]
  /\ UNCHANGED <<unitData, own>>

------------------------------------------------------------------------------
(* Signals and faults.                                                     *)

Dies(how) ==
  /\ Running
  /\ GoTo(how)
  /\ UNCHANGED <<plan, status, unitData, routine, exit, outcome>>

(* The signal trap of a running command: it sets config.Interrupted.       *)
Interrupt ==
  /\ Running /\ plan.force /\ ~interrupted
  /\ \E u \in Units : routine[u] \in {"prepare", "run"}
  /\ interrupted' = TRUE
  /\ UNCHANGED <<plan, status, unitData, routine, main, exit, own, saved, result>>

(* Close sends on a channel that nobody reads any more: it never returns   *)
(* if a signal lies in it (Executor).                                      *)
Hang(u) ==
  /\ interrupted /\ Running
  /\ routine[u] \in {"prepare", "run"}
  /\ routine' = [routine EXCEPT ![u] = "hung"]
  /\ UNCHANGED <<plan, status, unitData, main, exit, outcome>>

(* With --force and no command running there is no handler at all.         *)
Terminate == plan.force /\ Dies("terminated")

(* After a prompt the first signal is sent on the closed HupUnlockChan,    *)
(* which is still registered: the runtime panics.                          *)
Panic == ~plan.force /\ Dies("panicked")

(* The runtime may stop the process when a map is written while another    *)
(* routine writes it, or reads it: the Build of a k8s unit does.           *)
MapFault ==
  /\ \E u, v \in Units :
       u # v /\ routine[u] = "writing" /\ routine[v] \in {"writing", "prepare"}
  /\ Dies("faulted")

------------------------------------------------------------------------------

MainStep ==
  \/ LoopHead \/ Refresh \/ NoStart \/ CheckEmpty \/ CheckWait
  \/ \E written \in BOOLEAN : Save(written)
  \/ \E u \in Units : Start(u) \/ Receive(u) \/ WaitReceive(u)

RoutineStep(u) ==
  \/ BuildFails(u) \/ PrepareFails(u) \/ NothingToRun(u) \/ BeginCommands(u)
  \/ \E d \in Units : \/ ForceApplies(u, d)
                     \/ \E how \in ForceFailures : ForceFails(u, d, how)
  \/ CommandsSucceed(u) \/ CommandsFail(u) \/ CommandsRefused(u)
  \/ OutputsUnknown(u) \/ OutputsLost(u)
  \/ BeginRecord(u) \/ EndRecord(u) \/ MarkFinished(u)

Environment == Interrupt \/ Terminate \/ Panic \/ MapFault \/ \E u \in Units : Hang(u)

(* The process is over; a routine that still waits for a receiver goes     *)
(* with it.                                                                *)
Exited == main \in Over /\ UNCHANGED vars

Next == MainStep \/ (\E u \in Units : RoutineStep(u)) \/ Environment \/ Exited

(* The Go scheduler runs every goroutine that can run, and a unit's own    *)
(* commands end; whether Close returns after a signal is left open (Hang). *)
Fairness == WF_vars(MainStep) /\ \A u \in Units : WF_vars(RoutineStep(u))

Spec == Init /\ [][Next]_vars

FairSpec == Spec /\ Fairness

------------------------------------------------------------------------------
(* Properties.                                                             *)

Ended(u) == routine[u] \in {"send", "gone"} \/ Graph.op[u] = "NotChanged"

(* "Max parallel threads for units applying": however the routines'        *)
(* unlocked status writes fall between GetNextAsync's scans, no more than  *)
(* MaxParallel routines are at work (graph.go:135, commands.go:218).       *)
ParallelismBound ==
  Cardinality({u \in Units : routine[u] \in Working}) <= MaxParallel

(* A unit is started only after the routines of everything it waits for    *)
(* are at their end, and never after one of these marked its unit as       *)
(* failed: an apply follows its dependencies, a destroy the dependents. A  *)
(* mark set while another unit applied the dependency by force is not      *)
(* looked at (graph.go:150 reads the error of the unit received).          *)
StartsInOrder ==
  \A u \in Units : routine[u] # "idle" =>
    \A v \in Blockers(Graph, u) : Ended(v) /\ ~failed[v]

(* The state is written only when no routine is at work, although the loop *)
(* may leave before it has received every unit: what a routine does to     *)
(* OwnState comes before it declares its unit finished.                    *)
SavesWhenQuiet ==
  main \in {"save", "end"} => \A u \in Units : routine[u] \notin Working

(* Success is never returned over an error that a unit's own routine set,  *)
(* nor while a unit of the plan was left out, whichever units were also    *)
(* applied, well or not, by the routines of others.                        *)
SuccessIsComplete ==
  result = "ok" =>
    \A u \in Units : Ended(u) /\ ~failed[u]

(* What the record of u says of its own routine: broken off is tainted,    *)
(* done without an error is new or absent, or tainted when another unit's  *)
(* routine failed on it; not begun is what was loaded, or tainted.         *)
Truthful(u) ==
  /\ did[u] = "partly" => own[u] = "tainted" \/ (Removes(u) /\ plan.ignoreState)
  /\ did[u] = "all" /\ routine[u] # "idle" /\ ~reported[u] =>
       own[u] = RecordOf(u)
  /\ did[u] = "nothing" => own[u] \in {Loaded[u], "tainted"}

(* When the command ends, the record of every unit is truthful, whichever  *)
(* routines were interrupted, refused or failed before or after recording; *)
(* of the units that others apply by force, unless one broke off or set    *)
(* back what the record tells (lost: no UpdateUnit, commands.go:203).      *)
RecordsAreTruthful == main = "end" => \A u \in Units \ lost : Truthful(u)

(* The scheduler implements the abstract ordered run.                      *)
Ordered == INSTANCE OrderedRun WITH
  before <- [u \in Units |-> Blockers(Graph, u)],
  phase <- [u \in Units |-> IF Ended(u) THEN "over"
                            ELSE IF routine[u] = "idle" THEN "pending" ELSE "active"],
  bad <- {u \in Units : failed[u] /\ Ended(u)},
  halted <- main \notin Loops

RunsInOrder == Ordered!Spec

(* The command returns or dies, unless a trap hangs in Close after a       *)
(* signal: neither the loop nor Wait stays blocked on the channel, whoever *)
(* has finished or failed in whatever order.                               *)
CommandReturns == <>(main \in Over \/ \E u \in Units : routine[u] = "hung")

(* The inductive invariant behind the theorems of UnitGraphProofs: how the *)
(* status the scheduler reads, which routines write too, follows the place *)
(* of the unit's routine, and what each way out of the loop knows.         *)
StatusFollows(u) ==
  /\ Graph.op[u] = "NotChanged" => routine[u] = "idle" /\ status[u] = "Finished"
  /\ routine[u] = "idle" /\ Graph.op[u] # "NotChanged" =>
       status[u] \in {"Backlog", "ReadyForExec"}
  /\ routine[u] \in Working => status[u] = "InProgress"
  /\ routine[u] = "send" => status[u] \in {"InProgress", "Finished"}
  /\ routine[u] = "gone" => status[u] = "Finished"

StatusFollowsRoutine == \A u \in Units : StatusFollows(u)

ErrorsFollowRoutine ==
  \A u \in Units :
    /\ failed[u] => execErr[u] /\ tainted[u] /\ reported[u]
    /\ failed[u] => routine[u] \in {"record", "writing", "send", "gone"}
    /\ failed[u] /\ status[u] = "Finished" => exit = "error"

ReadyIsUnblocked ==
  \A u \in Units : status[u] = "ReadyForExec" =>
    \A v \in Blockers(Graph, u) : status[v] = "Finished"

WayOut ==
  /\ main \in Loops => exit = "none"
  /\ main \in Draining => exit = "error"
  /\ exit \in {"len", "nil"} => Live(status) = {}
  /\ main \in {"save", "end"} => exit # "none" /\ InProgress = {}
  /\ result # "none" => main = "end"
  /\ result = "ok" => exit # "error"

(* What the record of a unit and the marks on it owe to its routine.       *)
RecordFollows(u) ==
  /\ routine[u] \in {"idle", "prepare"} => did[u] # "partly" /\ ~reported[u]
  /\ routine[u] \in {"run", "mark"} => ~reported[u]
  /\ routine[u] \in {"record", "writing", "mark"} =>
       did[u] = "all" \/ (tainted[u] /\ reported[u] /\ ~Removes(u))
  /\ ~reported[u] /\ ~Removes(u) /\ routine[u] \in {"record", "writing", "mark", "send", "gone"} =>
       <<u, "plan">> \in applied
  /\ routine[u] \in {"mark", "send", "gone"} => u \in lost \/ Truthful(u)
  /\ routine[u] \notin {"mark", "send", "gone"} => own[u] \in {Loaded[u], "tainted"}

IInv ==
  /\ TypeOK /\ StatusFollowsRoutine /\ ErrorsFollowRoutine
  /\ ReadyIsUnblocked /\ StartsInOrder /\ WayOut
  /\ Cardinality(InProgress) <= MaxParallel

RInv == IInv /\ \A u \in Units : RecordFollows(u)

(* docs/cluster-state.md:21, units partially applied due to an aborted     *)
(* process are marked as tainted in the state (commands.go:99).            *)
AbortedUnitsAreTainted ==
  main = "panicked" => \A u \in Units : did[u] = "partly" => saved[u] = "tainted"

(* apply.go:34, "The project was successfully applied": no routine came to *)
(* its end with an error (commands.go:196).                                *)
SuccessMeansNoError == result = "ok" => \A u \in Units : ~reported[u]

==============================================================================
