------------------------------ MODULE ShellUnit ------------------------------
(***************************************************************************)
(* Units at work in parallel: Build, Apply and Destroy of shell units and  *)
(* terraform units (units/shell/common, units/shell/terraform/base), the   *)
(* mutex of a unit, and the dependencies with force_apply that every       *)
(* dependent applies again before its own commands.                        *)
(*                                                                         *)
(* A routine is named after the unit it was started for. Dependencies have *)
(* no circle, so a unit is at most once on the call stack of a routine:    *)
(* the stack is one frame for every unit.                                  *)
(***************************************************************************)
EXTENDS Executor

CONSTANTS Plans,    \* the plans to be executed
          None      \* no unit, no mutex

(* The unit objects, as the graph and the links share them.                *)
Units == Callers

(* What a plan consists of.                                                *)
PlanSpace ==
  [planned : SUBSET Units,            \* the units that get a routine
   operation : {"Apply", "Destroy"},
   deps : [Units -> SUBSET Units],    \* the units that the links point to
   forced : SUBSET Units,             \* force_apply
   terraform : SUBSET Units]          \* with init and output commands

(* All units that u depends on in a plan, directly or through others.      *)
Reaches(p, u) ==
  {v \in Units : \A S \in SUBSET Units :
     (p.deps[u] \subseteq S /\ \A w \in S : p.deps[w] \subseteq S) => v \in S}

(* A project with a circle of dependencies is refused when it is loaded.   *)
NoCircle(p) == \A S \in SUBSET Units : S # {} => \E u \in S : p.deps[u] \cap S = {}

ASSUME PlansAssumption == \A p \in Plans : p \in PlanSpace /\ NoCircle(p)
ASSUME NoneAssumption == None \notin Units

VARIABLES
  plan,        \* chosen once
  frame,       \* the call of every unit that a routine has open
  muxOf,       \* lockedMux: a mutex is named after the routine that made it
  locked,      \* the mutexes that are locked, as pairs of unit and maker
  initLock,    \* the routine that has the project's InitLock
  initDone,    \* the units with InitDone
  done,        \* AlreadyApplied and AlreadyDestroyed, as pairs
  tainted,     \* the units that SetTainted has marked
  made,        \* history: who made a mutex for the unit
  again        \* history: what succeeded although it had succeeded before

unitVars == <<plan, frame, muxOf, locked, initLock, initDone, done, tainted,
              made, again>>
vars == <<execVars, unitVars>>
locks == <<muxOf, locked, initLock, made>>
marks == <<initDone, done, tainted, again>>

(* Between Lock and Unlock.                                                *)
LockedPlaces == {"defer", "check", "forcing", "scan", "run", "unlock"}
(* The routine's own call is over: it succeeded, or it failed and the unit *)
(* carries no error, which frees its dependents all the same, or it failed *)
(* with a marked unit.                                                     *)
Released == {"finished", "unmarked"}
Over == Released \cup {"failed"}

Places == LockedPlaces \cup Over \cup
          {"out", "build", "initCheck", "initWait", "initScan", "initRun", "mux", "create", "lock"}

Frame == [at : Places,
          todo : SUBSET Units,            \* forced dependencies not yet applied
          calls : Units \cup {None},      \* the one that is being applied
          outputs : BOOLEAN,              \* at the output command
          mutex : Units \cup {None},      \* the mutex that Lock is called on
          undo : Units \cup {None},       \* the mutex of the deferred Unlock
          ok : BOOLEAN]

NoFrame == [at |-> "out", todo |-> {}, calls |-> None, outputs |-> FALSE,
            mutex |-> None, undo |-> None, ok |-> TRUE]

TypeOK ==
  /\ ExecTypeOK
  /\ plan \in Plans
  /\ frame \in [Units -> [Units -> Frame]]
  /\ muxOf \in [Units -> Units \cup {None}]
  /\ locked \subseteq Units \X (Units \cup {None})
  /\ initLock \in Units \cup {None}
  /\ initDone \subseteq Units
  /\ done \subseteq Units \X {"Apply", "Destroy"}
  /\ tainted \subseteq Units
  /\ made \in [Units -> SUBSET Units]
  /\ again \subseteq Units \X {"Apply", "Destroy"}

Init ==
  /\ ExecInit
  /\ plan \in Plans
  /\ frame = [r \in Units |-> [u \in Units |-> NoFrame]]
  /\ muxOf = [u \in Units |-> None]
  /\ locked = {} /\ initLock = None
  /\ initDone = {} /\ done = {} /\ tainted = {}
  /\ made = [u \in Units |-> {}]
  /\ again = {}

(* A routine calls its own unit for the plan, and others by force.         *)
Method(r, u) == IF u = r THEN plan.operation ELSE "Apply"

Below(u) == Reaches(plan, u)

(* Seeded fault: only the direct dependencies are looked at.               *)
DirectForcedDependencies(u) == plan.deps[u] \cap plan.forced

(* Seeded fault: a link whose unit was not found is not left out.          *)
UnresolvedForcedDependencies(u) == (Below(u) \cap plan.forced) \cup {None}

(* findForceApplyDependencies                                              *)
ForcedDependencies(u) == Below(u) \cap plan.forced

(* The units that the graph lets end before it starts u.                   *)
Blockers(u) ==
  plan.planned \cap
    (IF plan.operation = "Apply" THEN plan.deps[u]
     ELSE {v \in Units : u \in plan.deps[v]})

At(r, u, place) == Alive /\ frame[r][u].at = place
Becomes(r, u, f) == frame' = [frame EXCEPT ![r][u] = f]
GoTo(r, u, place) == Becomes(r, u, [frame[r][u] EXCEPT !.at = place])

(* The end of a call: the caller goes on, or gives up at the first error.  *)
Left(r, u, ok) ==
  [NoFrame EXCEPT !.at = IF u # r THEN "out"
                         ELSE IF ok THEN "finished"
                         ELSE IF u \in tainted THEN "failed" ELSE "unmarked"]
Resumed(f, u, ok) ==
  IF ok THEN [f EXCEPT !.calls = None, !.todo = f.todo \ {u}]
  ELSE [f EXCEPT !.calls = None, !.ok = FALSE, !.at = "unlock"]
Return(r, u, ok) ==
  frame' = [frame EXCEPT ![r] = [v \in Units |->
    IF v = u THEN Left(r, u, ok)
    ELSE IF frame[r][v].calls = u THEN Resumed(frame[r][v], u, ok)
    ELSE frame[r][v]]]

------------------------------------------------------------------------------
(* applyRoutine and destroyRoutine: Build first.                           *)
Begin(r) ==
  /\ Alive /\ r \in plan.planned /\ frame[r][r].at = "out"
  /\ \A v \in Blockers(r) : frame[v][v].at \in Released
  /\ GoTo(r, r, "build")
  /\ UNCHANGED <<execVars, plan, locks, marks>>

(* Build replaces the markers in the unit, also in its map Env, without    *)
(* the mutex, and writes the code directory.                               *)
Build(r, u) ==
  /\ At(r, u, "build")
  /\ \/ GoTo(r, u, IF u \in plan.terraform THEN "initCheck" ELSE "mux")
     \/ Return(r, u, FALSE)
  /\ UNCHANGED <<execVars, plan, locks, marks>>

(* Scanning writes Env: on a map that another routine is writing the Go    *)
(* runtime may stop the process.                                           *)
Scanning(r, u) == frame[r][u].at \in {"build", "initScan", "scan"}
MapFault(r, u) ==
  /\ Alive /\ Scanning(r, u)
  /\ \E s \in Units \ {r} : Scanning(s, u)
  /\ process' = "faulted"
  /\ UNCHANGED <<cmd, interrupted, signals, unitVars>>

------------------------------------------------------------------------------
(* Terraform units: init, one at a time in the project, and before the     *)
(* unit's mutex is taken. InitDone is read without the lock, and not again *)
(* when the lock is there: two routines may do the init, in turn.          *)
CheckInit(r, u) ==
  /\ At(r, u, "initCheck")
  /\ GoTo(r, u, IF u \in initDone THEN "mux" ELSE "initWait")
  /\ UNCHANGED <<execVars, plan, locks, marks>>

LockInit(r, u) ==
  /\ At(r, u, "initWait") /\ initLock = None
  /\ initLock' = r
  /\ GoTo(r, u, "initScan")
  /\ UNCHANGED <<execVars, plan, muxOf, locked, made, marks>>

(* Seeded fault: an early return keeps InitLock.                           *)
RunInitKeepingLock(r, u) ==
  /\ At(r, u, "initScan")
  /\ \/ GoTo(r, u, "initRun") /\ Call(r)
     \/ Return(r, u, FALSE) /\ UNCHANGED cmd
  /\ UNCHANGED <<interrupted, process, signals, plan, locks, marks>>

(* runCommands: Prepare and NewExecutor may fail, then the command is run. *)
RunInit(r, u) ==
  /\ At(r, u, "initScan")
  /\ \/ GoTo(r, u, "initRun") /\ Call(r) /\ UNCHANGED initLock
     \/ Return(r, u, FALSE) /\ initLock' = None /\ UNCHANGED cmd
  /\ UNCHANGED <<interrupted, process, signals, plan, muxOf, locked, made, marks>>

EndInit(r, u) ==
  /\ At(r, u, "initRun") /\ cmd[r].at = "returned"
  /\ IF cmd[r].ok THEN GoTo(r, u, "mux") /\ initDone' = initDone \cup {u}
     ELSE Return(r, u, FALSE) /\ UNCHANGED initDone
  /\ initLock' = None
  /\ UNCHANGED <<execVars, plan, muxOf, locked, made, done, tainted, again>>

------------------------------------------------------------------------------
(* u.Mux(): looks, makes the mutex if there is none, and looks again.      *)
ReadMux(r, u) ==
  /\ At(r, u, "mux")
  /\ IF muxOf[u] = None THEN GoTo(r, u, "create")
     ELSE Becomes(r, u, [frame[r][u] EXCEPT !.at = "lock", !.mutex = muxOf[u]])
  /\ UNCHANGED <<execVars, plan, locks, marks>>

CreateMux(r, u) ==
  /\ At(r, u, "create")
  /\ muxOf' = [muxOf EXCEPT ![u] = r]
  /\ made' = [made EXCEPT ![u] = @ \cup {r}]
  /\ GoTo(r, u, "mux")
  /\ UNCHANGED <<execVars, plan, locked, initLock, marks>>

(* Seeded fault: the mutex is taken also while it is locked.               *)
LockAnyway(r, u) ==
  /\ At(r, u, "lock")
  /\ locked' = locked \cup {<<u, frame[r][u].mutex>>}
  /\ GoTo(r, u, "defer")
  /\ UNCHANGED <<execVars, plan, muxOf, initLock, made, marks>>

Lock(r, u) ==
  /\ At(r, u, "lock") /\ <<u, frame[r][u].mutex>> \notin locked
  /\ locked' = locked \cup {<<u, frame[r][u].mutex>>}
  /\ GoTo(r, u, "defer")
  /\ UNCHANGED <<execVars, plan, muxOf, initLock, made, marks>>

(* Seeded fault: the deferred call was evaluated before there was a mutex. *)
DeferUnmade(r, u) ==
  /\ At(r, u, "defer")
  /\ GoTo(r, u, "check")
  /\ UNCHANGED <<execVars, plan, locks, marks>>

(* defer u.Mux().Unlock() asks for the mutex a second time, now.           *)
Defer(r, u) ==
  /\ At(r, u, "defer")
  /\ Becomes(r, u, [frame[r][u] EXCEPT !.at = "check", !.undo = muxOf[u]])
  /\ UNCHANGED <<execVars, plan, locks, marks>>

(* Unlocking a mutex that is not locked is fatal in Go.                    *)
Unlock(r, u) ==
  /\ At(r, u, "unlock")
  /\ IF <<u, frame[r][u].undo>> \in locked
     THEN /\ locked' = locked \ {<<u, frame[r][u].undo>>}
          /\ Return(r, u, frame[r][u].ok)
          /\ UNCHANGED process
     ELSE process' = "faulted" /\ UNCHANGED <<locked, frame>>
  /\ UNCHANGED <<cmd, interrupted, signals, plan, muxOf, initLock, made, marks>>

------------------------------------------------------------------------------
(* The locked part of Apply and Destroy.                                   *)

(* Seeded fault: the duplicate is not detected.                            *)
CheckNothing(r, u) ==
  /\ At(r, u, "check")
  /\ Becomes(r, u, [frame[r][u] EXCEPT !.at = "forcing",
                                       !.todo = ForcedDependencies(u)])
  /\ UNCHANGED <<execVars, plan, locks, marks>>

CheckDone(r, u) ==
  /\ At(r, u, "check")
  /\ IF <<u, Method(r, u)>> \in done THEN GoTo(r, u, "unlock")
     ELSE Becomes(r, u, [frame[r][u] EXCEPT !.at = "forcing",
                                            !.todo = ForcedDependencies(u)])
  /\ UNCHANGED <<execVars, plan, locks, marks>>

(* forceApplyDependencies: Build and Apply of the next one, in any order.  *)
ForceApply(r, u, d) ==
  /\ At(r, u, "forcing") /\ frame[r][u].calls = None /\ d \in frame[r][u].todo
  /\ frame' = [frame EXCEPT ![r] =
       [frame[r] EXCEPT ![u] = [frame[r][u] EXCEPT !.calls = d],
                        ![d] = [NoFrame EXCEPT !.at = "build"]]]
  /\ UNCHANGED <<execVars, plan, locks, marks>>

ForcedAll(r, u) ==
  /\ At(r, u, "forcing") /\ frame[r][u].todo = {}
  /\ GoTo(r, u, "scan")
  /\ UNCHANGED <<execVars, plan, locks, marks>>

Fail(r, u) ==
  /\ Becomes(r, u, [frame[r][u] EXCEPT !.at = "unlock", !.ok = FALSE])
  /\ tainted' = tainted \cup {u}
  /\ UNCHANGED <<done, again>>

(* runCommands, for the commands of the method or for the output command.  *)
Run(r, u) ==
  /\ At(r, u, "scan")
  /\ \/ GoTo(r, u, "run") /\ Call(r) /\ UNCHANGED <<done, tainted, again>>
     \/ Fail(r, u) /\ UNCHANGED cmd
  /\ UNCHANGED <<interrupted, process, signals, plan, locks, initDone>>

Succeed(r, u) ==
  /\ GoTo(r, u, "unlock")
  /\ again' = IF <<u, Method(r, u)>> \in done THEN again \cup {<<u, Method(r, u)>>}
              ELSE again
  /\ done' = done \cup {<<u, Method(r, u)>>}
  /\ UNCHANGED tainted

(* Outputs follow an Apply; what is printed may lack an expected output.   *)
EndRun(r, u) ==
  /\ At(r, u, "run") /\ cmd[r].at = "returned"
  /\ LET outputsLeft == /\ u \in plan.terraform /\ Method(r, u) = "Apply"
                        /\ ~frame[r][u].outputs
     IN \/ ~cmd[r].ok /\ Fail(r, u)
        \/ /\ cmd[r].ok /\ outputsLeft
           /\ Becomes(r, u, [frame[r][u] EXCEPT !.at = "scan", !.outputs = TRUE])
           /\ UNCHANGED <<done, tainted, again>>
        \/ cmd[r].ok /\ frame[r][u].outputs /\ Fail(r, u)
        \/ cmd[r].ok /\ ~outputsLeft /\ Succeed(r, u)
  /\ UNCHANGED <<execVars, plan, locks, initDone>>

UnitStep(r, u) ==
  \/ Build(r, u) \/ CheckInit(r, u) \/ LockInit(r, u) \/ RunInit(r, u) \/ EndInit(r, u)
  \/ ReadMux(r, u) \/ CreateMux(r, u) \/ Lock(r, u) \/ Defer(r, u) \/ Unlock(r, u)
  \/ CheckDone(r, u) \/ ForcedAll(r, u) \/ Run(r, u) \/ EndRun(r, u)
  \/ \E d \in Units : ForceApply(r, u, d)

ExecStep(r) == RunStep(r) \/ Exit(r) \/ TrapStep(r)

Next ==
  \/ \E r \in Units : Begin(r) \/ (ExecStep(r) /\ UNCHANGED unitVars)
  \/ Signal /\ UNCHANGED unitVars
  \/ \E r, u \in Units : UnitStep(r, u) \/ MapFault(r, u)

(* Goroutines go on, and a mutex that is unlocked again and again is given *)
(* to everybody who waits for it.                                          *)
Fairness ==
  \A r \in Units : ExecFairness(r) /\ WF_vars(\E u \in Units : UnitStep(r, u))

Spec == Init /\ [][Next]_vars /\ Fairness

------------------------------------------------------------------------------
(* Two routines made a mutex for u, each having found none.                *)
Raced(u) == \E r, s \in made[u] : r # s

(* "Mux return unit mutex to lock apply" (common/unit.go:96): as long as   *)
(* only one mutex was made, no two routines are in the locked part of a    *)
(* unit, however the forced dependencies cross.                            *)
OneAtATime ==
  \A u \in Units : \A r, s \in Units :
    (/\ frame[r][u].at \in LockedPlaces
     /\ frame[s][u].at \in LockedPlaces
     /\ ~Raced(u)) => r = s

(* "A duplicate apply detected ... skip" (common/unit.go:274): whoever     *)
(* asks, a unit whose mutex was made once succeeds only once.              *)
AppliedOnce == \A x \in again : Raced(x[1])

(* The units below u that a destroy keeps until u is over: those that u    *)
(* reaches over planned units. One that stays between them stops the order.*)
KeptFor(u) ==
  LET next(v) == plan.deps[v] \cap plan.planned
  IN  {d \in Units : \A S \in SUBSET Units :
         (next(u) \subseteq S /\ \A v \in S : next(v) \subseteq S) => d \in S}

(* The commands of a unit run only while all its force_apply dependencies, *)
(* near and far, are applied, and while none of them has been destroyed    *)
(* that the order of the plan keeps for the routine at work.               *)
ForcedFirst ==
  \A r, u \in Units :
    frame[r][u].at = "run" =>
      \A d \in Below(u) \cap plan.forced :
        /\ <<d, "Apply">> \in done
        /\ d \in KeptFor(r) => <<d, "Destroy">> \notin done

(* A unit that two routines may call.                                      *)
Calls(r, u) == r = u \/ u \in Below(r) \cap plan.forced
Shared(u) == \E r, s \in plan.planned : r # s /\ Calls(r, u) /\ Calls(s, u)

(* The process only dies of a signal, or of a unit that two routines call. *)
OnlySharingKills ==
  ~Alive => signals > 0 \/ \E u \in Units : Shared(u)

(* When commands end, every routine ends, or the process does, or after a  *)
(* signal some Close waits for ever (executor.go:267): the mutexes and     *)
(* InitLock never leave everybody waiting for everybody. At last nobody is *)
(* under way: who has begun does not go back, who is over stays so.        *)
RoutinesEnd ==
  (\A c \in Callers : []<>(~ChildAtWork(c))) =>
    <>[](\/ \A r \in Units : frame[r][r].at \in {"out"} \cup Over
         \/ ~Alive
         \/ signals > 0 /\ \E c \in Callers : Hung(c))

==============================================================================
