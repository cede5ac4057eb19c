# cluster.dev in TLA+

TLA+ models of `cdev`, the command line tool of cluster.dev: it reads a project
(stacks of *units*), compares it with the state of the last run, and applies or
destroys the units that differ, in parallel and in the order of their
dependencies. The definitions are translated from the Go code; paths below are
relative to `src/`. `PROJECT.json` maps every definition to its lines.

## 1. The system

| component | state | operations | hard behaviour |
|---|---|---|---|
| plan graph and scheduler: `pkg/project/graph.go`, `helpers.go` | list of `UnitPlanningStatus`, `ExecStatus` of every unit, `indexedSlice`, channel `waitUnitDone`, `maxParallel` | `BuildNew`, `checkAndBuildIndexes`, `updateQueueNew`, `GetNextAsync`, `Wait`, `Len`, `Errors` | the main goroutine and the routines share `ExecStatus` without a lock; an unbuffered channel; applies and destroys order each other in opposite directions |
| apply and destroy: `pkg/project/commands.go`, `pkg/cmd/cdev/{apply,destroy}.go` | the loop's place, the prompt, `HupUnlockChan` | `Apply`, `Destroy`, `buildPlan`, `planDestroy(All)`, `applyRoutine`, `destroyRoutine`, `StartSigTrap` | one unit fails while others run; signals; the lock is taken after the state is read |
| state: `pkg/project/state.go`, `pkg/units/shell/common/state.go` | `OwnState.Units`, `UnitLinks`, `ChangedUnits` | `UpdateUnit`, `DeleteUnit`, `SaveState`, `LoadState`, `LockState`, `UnLockState`, `CheckUnitChanges` | saved once at the end of a run; recursive comparison; records refer to records |
| backends: `pkg/backend/{local,s3,gcs,azurerm}` | state object, lock object | `ReadState`, `WriteState`, `LockState`, `UnlockState` | lock is look-then-write; a truncated file; writes and reads whose error is lost |
| state and output commands: `pkg/cmd/cdev/{state,output}.go` | none | `unlock`, `pull`, `update`, `output` | `log.Fatalf` skips deferred calls |
| shell unit: `pkg/units/shell/common` | `Tainted`, `ExecErr`, `ExecStatus`, `Applied`, `SavedState`, `AlreadyApplied`, the mutex | `Build`, `Apply`, `Destroy`, `Prepare`, `SetTainted`, `Mux`, `forceApplyDependencies` | a dependency shared by parallel dependents, applied and marked by their routines; a mutex that is made when first asked for; error paths that mark the unit and those that do not |
| terraform units: `pkg/units/shell/terraform` | as the shell unit, `InitDone` | `Init` under the project's `InitLock`, remote states, outputs | errors that are lost; state read outside the lock |
| kubernetes units: `pkg/units/shell/k8s_manifest` | manifests by key, `createNSList` | `Build`, `kubectl delete` of what the record has and the project has not, `kubectl apply`, `Destroy` | a command that fails between two objects; records that forget what was not deleted; several removed manifests joined into one |
| command executor: `pkg/executor` | `config.Interrupted`, one trap per command | `commandExecCommon(InShell)`, `StartSigTrap`, `SigTrap.Close` | a trap races with the start and the end of its command |
| links and outputs: `ulinks.go`, `pkg/units/shell/common/{links,scanners,parsers}.go` | `UnitLinks` of project and state, `OutputData` | `InitUnitPtr`, `Join`, `JoinWithDataReplace`, `OutputsReplacer`, `ClearULinks` | outputs of units that do not run come from the state, however old they are |
| project loading: `project.go`, `stack.go`, `backend.go`, `project_config.go`, `unit.go`, `dependencies.go` | the project, its objects, backends, stacks, units | `LoadProjectBase`, `LoadProjectFull`, `prepareUnits`, `checkUnitDependencies` | Go maps are walked in any order; records change the backend of a stack |
| templating, markers, secrets: `secret.go`, `template_functions.go`, `pkg/secrets` | secrets by name | `readSecrets`, template functions | a template may be read before the secret it names |
| HCL tools; project generator; configuration, logging, profiler | - | text functions, prompts, flags | none of their own |

`LoadProjectFull` reads the project and the state; the command then locks the
backend, builds the plan (`buildPlan` -> `BuildGraph` -> `checkAndBuildIndexes`),
asks, and loops: `GetNextAsync` either hands out a ready unit, for which a
goroutine is started, or waits on `waitUnitDone` until a goroutine calls
`finFunc`. Goroutines build and run the unit, through one executor with its own
signal trap per command, write its outputs into the links that other units read,
and change the unit's marks and `OwnState`. The loop ends by saving `OwnState`,
and the deferred `UnLockState` removes the lock.

What makes each part correct: units run in the order of their dependencies and
not too many at once; the command ends; its result and the saved records tell
the truth whatever failed; a plan that cannot be worked off is refused; the
state in the backend tells of no change that was not made and forgets none; a
unit is applied once and never by two routines at the same time; units see the
outputs that their dependencies have now; what is loaded depends on the files
and not on the order they are read in; a run that succeeded leaves what was
asked for, also after runs that did not. `PROJECT.json` lists under "hazards"
where each of these could go wrong, with the properties that watch over it.

## 2. The modules

```
PlanGraph ---> UnitGraph --(refines)--> OrderedRun        MCUnitGraph
    |              `--> UnitGraphProofs
    `--------> GraphIndex --> GraphIndexProofs             MCGraphIndex
Executor ----> ShellUnit --> ShellUnitProofs               MCShellUnit
StateLock ---> StateLockProofs                             MCStateLock
KubeUnit ----> KubeUnitProofs                              MCKubeUnit
Reconcile ---> ReconcileProofs                             MCReconcile
Links -------> LinksProofs                                 MCLinks
Loading -----> LoadingProofs                               MCLoading
```

**PlanGraph** - what scheduler and plan check share: operations, statuses,
`Blockers` (an apply waits for its dependencies, a destroy for its dependents)
and `UpdateQueue`, which is `updateQueueNew`.

**UnitGraph** - one execution of a plan. `main` is the place of the main
goroutine in the loop, `GetNextAsync` or `Wait`; `routine[u]` the place of the
unit's goroutine (prepare, run, record, mark, send). Every scan of the statuses
is one step and the routines' steps fall between any two: `LoopHead`, `Refresh`,
`Start`/`NoStart`, `CheckEmpty`, `Receive`, then `CheckWait`/`WaitReceive`,
`Save`. A single scan is one step because each reads a status of a unit once and
the only change a routine makes to it (`SetExecStatus(Finished)`) just moves it
to the end, before or after that read. A routine's steps follow
`applyRoutine`/`destroyRoutine` with `Unit.Apply`/`Destroy`: `BuildFails` and
`PrepareFails` (init) set no mark, `CommandsFail`, `CommandsRefused`, `OutputsUnknown`
and `OutputsLost` differ in what they mark; `BeginRecord`/`EndRecord` are the
write of the map. `plan.forces[u]` are the `force_apply` units that u depends on.
Before its own commands u's routine applies each of them (`ForceApplies`), or fails
on one (`ForceFails`): then the *dependency* gets `SetTainted(true, err)`, whatever its
own routine does or has done, u is not marked, and the only record that may change is the one
that is the marked object itself. An apply's unit is recorded after an error exactly
when it is tainted (`AfterError`), also if another routine did that. What a destroyed unit
depends on are objects of the state (`Object`), which apply what was deployed
before. `failed` tells a unit's own error from a mark that others set, `lost` are
the units that others changed behind their record; both are history. With
`--ignore-state` the records begin empty (`Loaded`), and an apply applies every unit. `Interrupt` sets `config.Interrupted`, after which a command's trap may
hang in `Close` (`Hang`, from the module Executor); `Terminate` and `Panic`
are a signal without and with the trap of the prompt; `MapFault` is the
runtime's fatal error when the map of the state is written by one goroutine and
used by another. `own` and `saved` are records in memory and in the backend.
The code takes the first ready unit of a list: destroys stand before applies, the rest is
in the order of a Go map, so `IsFront` leaves it open.

**OrderedRun** - the abstract promise: a unit begins after everything before it
is over and did not fail in its own run, and nothing begins after a halt. A failure may be
forgotten (`Forget`): a unit that failed is applied again by force and this time
has an unknown parser, which sets its error back to nil.

**GraphIndex** - `checkAndBuildIndexes`: the rounds of the queue that give every
unit its index, or find that the rest is blocked for ever.

**Executor** - the commands that several goroutines run, with the trap that
forwards signals. `cmd[c]` is the place of caller c in `commandExecCommonInShell`,
of its trap goroutine, and the state of its child. The trap's channel holds one
signal. `Forward` before `Start` dereferences a nil process, and `Close` sends on
the channel that nobody reads any more: it hangs (`Hung`) if a signal lies in it.
No caller sets a timeout, so its branch is left out; the banner only logs. The
project's own trap is taken to be stopped, as with `--force`; what the prompt
does to it is UnitGraph's.

**ShellUnit** - what a routine does between its start and its end, down to the
mutex. `frame[r]` is the call stack of routine r: a frame for every unit, because
`forceApplyDependencies` calls `Build` and `Apply` of other units and dependencies
have no circle. `muxOf[u]` is the mutex of u, named after the routine that made it:
`ReadMux` and `CreateMux` are two steps, so two routines can make two, and `Defer`
asks again which it will unlock. A terraform unit reads `InitDone` (`CheckInit`), then takes
`InitLock` (`LockInit`) for its init and does not look again, all before its mutex;
it runs an output command after an apply. Dependents are freed
by a unit that finished, and by one that failed without a mark (`Released`). `MapFault` is the
runtime's fatal error when two routines scan one unit's `Env`. Units that the
plan gets from the state and from the project are different objects with
different mutexes; a plan here has objects of one kind (mixed plans: UnitGraph and
Reconcile, by whose object they apply). Empty command lists and
the limit of parallel routines are left out: both only leave out interleavings.

**StateLock** - several `cdev` processes on one project. A session is a walk
through load, lock, plan, prompt, execution, save, unlock with every error path
of the backend, and `Kill` at any place. What a session changes is one change
named after it; the state is the set of changes it tells of. Backends differ in
whether a write replaces the state in one step (`AtomicWrites`) and whether a
read that breaks off is an error (`ReadsFaithfully`). An `apply` or `destroy` with `--ignore-state`
(`ignoring`) starts from an empty state and saves what comes of it; `forgotten` records
which deployed changes the last such save left out. A lock may be written although `LockState` returns an
error (`LockUnanswered`): nobody then takes the session for the owner, itself included.

**Reconcile** - a project over many runs. The user edits it, runs plan the
difference (`CheckUnitChanges`, `buildPlan`, `planDestroyAll`), with or without
`--ignore-state`, execute it in any order the graph allows,
and succeed, fail, are interrupted, or die before the save. An apply may also
succeed and not be saved (`SucceedUnsaved`), for it drops the error of `SaveState` after the last
unit. A unit is its `spec` (what `GetDiffData` compares of the unit itself), its `deps`
(`depends_on`) and its `force` (`force_apply`, not compared). Of `depends_on`
the plan compares one thing, and of the unit that is depended on: whether there is such a
link (`Linked` in the project, `linked` in the record), because the link has an
output name, the empty one (`common/state.go:71`). A unit is executed in a step for each of its
`force_apply` dependencies (`ForceApply`, `ForceFails`), the ones below first, and
one for its own commands. These dependencies are applied as their object says, the
project's or the state's (`Kind`, `Configs`), whether they are planned or not, each object once
(`applied`), and no record is made of it. `hurt`, `upset`, `behind`, `excused`, `relinked`, `unprepared` only record
history for the properties; no action's guard reads them.

**Links** - the data that flows between units, over many runs: which links the
template functions and `depends_on` enter, what a plan compares (names, not data),
`JoinWithDataReplace` that takes data of the state, the data that an applied unit
parses, Build that puts it into the units, and `UpdateUnit`, `ClearULinks`,
`SaveState`, `LoadState`. An output is the unit's `spec` and what it had been given
itself, so an old output is told from a new one over any number of links. A run is
saved, or dies unsaved (`Crash`), or is an apply that succeeds unsaved
(`SucceedUnsaved`; `lost` are the units it concerns). Every
unit has an outputs configuration; links that are declared in a
stack but used by no unit, printers, and `force_apply` and `--ignore-state` (see Reconcile) are
left out; a unit is executed in one step.

**Loading** - `LoadProjectBase` and `LoadProjectFull`, phase by phase, each file,
object, stack, record and unit in any order. A project is a set of files with
secrets, backends and stacks; `refers` are the secrets that a file's template
names, `applies` those that it gives to a function. `Run` is a run that
succeeds, of any units of the project and the state, and leaves terraform states in the
places of their stacks' backends; `read` is what a run reads of them. What units a
plan selects is Reconcile's. Remote states that destroyed units read are left out.

**KubeUnit** - one `k8s-manifest` unit from edit to edit. The cluster is a set of
objects; `kubectl` is external: it takes one object after another, goes on after an
error, does not delete what is not there, does not apply to a namespace that is
not there, and refuses an object whose namespace contradicts `-n`. Failures stop it
after any subset. Build joins the removed manifests without a separator, since the
counter that would place one is never raised: `kubectl` reads one document, in which the last
manifest's keys count, and deletes one object (`Documents`). With `--ignore-state` there is no
record: nothing is deleted before an apply, and a destroy takes the project's unit.
The state space is finite: no bounds. `--cache` is left out.

Operators named as a "seeded fault" are deliberately wrong versions of the
definition that follows them; nothing refers to them. Substituted for it,
each makes a property fail, which shows that the property can.

## 3. The runs

| run | instance | what it shows |
|---|---|---|
| scheduler | 3 units, 2 at a time: all acyclic plans with at least one link, apply/destroy mixed, `--force`; every pair of the four operations and the destruction of a chain, with and without `--force`; a `force_apply` unit with two that depend on it, side by side or one over an unchanged unit, of all operations but new ones, and all applied or all destroyed with `--ignore-state` | order, quiet saves, no success over a unit whose own routine marked it, truthful records; UnitGraph implements OrderedRun; the command returns, dies, or hangs in `Close` |
| plan_order | every graph of 3 units, circular or not, 3 operations | accepted exactly when free of circles; listed in an order that can be worked off; always decided |
| units | five plans of up to 3 units in which calls meet, 1 signal | `OneAtATime`, `AppliedOnce`, `ForcedFirst`; only shared units or a signal kill the process; `RoutinesEnd`, `SignalsReachChildren` |
| sessions | 3 sessions, 5 commands, with and without `--ignore-state`, all four backends | `NothingInvented`, `NeverForgets`, `SequenceIsExact`, `LockHasOwner`, `OnlyOwnersDeploy` |
| reconcile | 2 units of any dependency and two versions, 2 edits, 3 runs; 2 in a row, 1 edit, 4 runs; 3 in a row, 3 in a row of which 2 have `force_apply`, and 2 beside one another over a `force_apply` unit, each 1 edit, 2 runs | `Converged`, `RecordsMatch`, `NotLeftBehind`, `StateStaysLoadable`, `DestroysFollow`; changes reach units over unchanged ones |
| outputs | 3 units in a chain, the middle one uses the first by output, remote state, or only depends on it; 3 edits, 3 runs, 1 failure | `OutputsAreFresh`, `OutputsAreKept`, `Settles` |
| loading | 20 projects of two to four files, right and wrong ones, 3 edits, 4 loads | `LoadIsExact`, `RemoteStatesAreFound` |
| manifests | 7 forms of a unit, 2 names, 2 namespaces, any number of runs | `Deployed`, `NothingLeftBehind` |

Three units show a chain, a fork and a join, and one that is ready while two run;
two at a time is the smallest bound at which one may be exceeded by a race. Two
sessions suffice for every race of the lock, the third comes in after a theft.
Three runs show a failure, a repair and a run that should find nothing to do;
the fourth in *reconcile* shows a change that is saved by a later run than the one
that broke it off; three edits remove a consumer, change its provider, and bring it back. In *units*
the plans are: two dependents of one forced unit that is itself in the plan
(`BothForce`), forced units in a row (`InARow`), two terraform units that only `InitLock` (`SideBySide`), a forced unit behind one that is not (`Distant`), and a forced
unit that is destroyed below one that stays (`Apart`);
one signal is enough to fill a channel, and a second would only kill or
repeat. Deadlock is not checked in *units*: routines end and a command may hang,
which `RoutinesEnd` speaks of instead. Sessions are interchangeable,
hence the symmetry (no liveness is checked there). The bounds are `MaxEdits`,
`MaxRuns`, `MaxFaults`, `MaxSignals`, in Reconcile the numbers in the records of `Projects`.

Four runs are expected to fail, each on a sentence of the documentation or of a
message of the program that the code does not keep:

| run | what happens |
|---|---|
| success_with_error | the routine's error is dropped by `finFunc`: a failed Build frees the dependents and the command reports success |
| aborted_untainted | after the prompt `HupUnlockChan` is closed but still registered: the first signal panics and nothing is marked tainted |
| lock_stolen | the deferred unlock is registered before the error of the lock is looked at: a refused `apply` removes the owner's lock |
| stale_outputs | a consumer is removed, its provider changed, the consumer brought back: it is deployed with the output of long ago, and the run succeeds |

### Claims that do not hold

One may expect the following; the code does not provide it, and it is not
stated as a property. The models allow for it where it concerns a part they have.

* Lock and state: the lock excludes two sessions (it is looked for and written in
  two steps); a plan starts from the state it holds the lock for (the state is read
  before, `apply.go:18`); success implies a saved state (`commands.go:177`
  drops the error: `apply` says it was applied, and the next plan does it again); with a local backend, a killed save keeps the previous state;
  a read that breaks off is an error (`azurerm.go:211`).
* Records: writes of the state's map exclude each other (`DeleteUnit` takes no
  mutex); the saved state can always be loaded (a record may name a dependency that has no
  record, `LoadState` then fails for every later command); a second run updates the
  dependents that a failed one left behind (`state.go:284` does not look at the
  taint); a file of one line can be compared (`common/state.go:59` indexes a nil
  slice).
* Forced dependencies (`common/unit.go:230`): a unit whose error is remembered stops the run
  (the scheduler reads the error of the unit it received, so a forced
  dependency that failed in another's routine does not: its other dependents are started, and
  the command may return success); what broke off is recorded as tainted (the dependency's record
  stays as it was, unless its own routine comes later or it is an object of the state); what was applied is recorded (a planned
  dependency whose own routine never runs is applied without a record); the other
  dependents are planned (`force_apply` is no difference); destroying a unit leaves others
  alone (it applies the *recorded* version of its forced dependencies, also over one that the same run has
  just updated or destroyed).
* `--ignore-state`: a deployed change is in the state of the next save (it starts from an empty
  one: what the project has no longer is forgotten); a destroy that failed leaves a tainted record (there
  is none).
* Dropping a `depends_on` is no difference of the unit that had it; of its target it is one,
  when it was the last, and in every later plan (the link stays in the state, `state.go:35`).
* Units: the mutex of a unit is one (it is made without synchronisation);
  `InitDone` is read outside `InitLock` (`terraform/base/unit.go:108`: at worst two
  inits, one after the other); `ProcessedUnitsCount++` counts (`commands.go:200`, not
  synchronised, used in a message only); outputs can be read as JSON
  (`common/parsers.go:22` passes its map by value, every output is then missing).
* Loading: a stack that is disabled is left alone (its deployed units are
  destroyed); secrets are `.secrets.` as in `docs/structure-secrets.md` (the key is
  `secret`); a secret with an unknown driver is an error (`secret.go:31` skips it);
  `kind: stack` as in `docs/structure-stack.md` (the code wants `Stack`); after a
  stack's backend changes, its units are read where they are.
* Kubernetes: all removed manifests are deleted (`k8s_manifest/unit.go:330`: only one of
  those that are removed together, and the command succeeds); `create_namespaces` creates them (only when the unit has a record
  already); a change of namespace or kubeconfig is deployed; a delete that
  failed is repeated (the record has forgotten it), and a destroy that failed can
  be (`kubectl` does not find what is gone, and fails again).

### Preconditions

What a property excepts, and why:

* `StartsInOrder`, `SuccessIsComplete`, `RunsInOrder` speak of the errors that a unit's own
  routine set; a mark set by another routine, on a forced dependency, stops
  nothing. `RecordsAreTruthful`: not units that another routine's forced apply left
  broken off or set back (`lost`).
* `NeverForgets`: times at which no two sessions are active together, on s3 and gcs. `SequenceIsExact`
  also sessions that lost no save. Both except what a save with `--ignore-state` left out (`forgotten`).
* `Converged`, `RecordsMatch`: not units that a run changed without saving, unless
  the same command is repeated without an edit in between, nor units that
  `--ignore-state` forgot, nor a `force_apply` dependency that was broken off, or applied as the
  old state has it, in another unit's place (`upset`): no plan knows of that. After a
  success that was not saved, `Converged` speaks of what is deployed and not of the state. Repeating the command repairs what the plan still sees: a
  unit planned only for the change of its dependency, and broken off by a run that
  died, is not repaired once another run has saved that change without getting to the
  unit (`Forgotten`; the next apply plans nothing for it and succeeds). `NotLeftBehind`: not what is above a dependency
  that was applied by force, nor what a run that did not come to its end left. `StateStaysLoadable`, `DestroysFollow`: while no recorded
  dependency is dropped and no preparation failed.
* ShellUnit's plans have no circle. `ForcedFirst`: the commands of a unit run while
  none of its forced dependencies has been destroyed, of those that the order of the plan keeps
  (`KeptFor`). A unit that stays between two that are destroyed breaks that order: its `depends_on` was
  dropped, its record still names the unit below, and that one may be destroyed before the one above, which then applies
  it again.
* `OneAtATime`, `AppliedOnce`: units of which only one mutex was made. `OnlySharingKills`:
  the process may die of a signal or of a unit that two routines call.
* `OutputsAreFresh`, `OutputsAreKept`: not links that the project had ceased to ask for or asked for by the
  other function (`doubtful`), nor units that an unfinished run, or one that was not saved, left behind
  (`excused`, `lost`). `Settles`: not after a success that was not saved (`lost`), not while the state keeps a link that the project has dropped
  (`LeftOver`), nor while an output of a unit is asked for by both functions
  (`AskedOnce`): they make two links of one name. The second, when its provider has no other reason to run,
  is no difference to the plan, is never joined to the state, and every later plan sees it missing.
* `LoadIsExact`: a file that gives a secret to a function may be refused; so may a
  project with two backends of the name that the cdev state is to be kept in, when one of
  them holds a state that names a backend there is none of: the last one read is asked
  for the state (`backend.go:90`).
  `RemoteStatesAreFound`: not stacks with a record of another backend (`Unmoved`),
  backends declared twice (`Ambiguous`), projects that moved the cdev state
  itself (`OneState`), and a `remoteState` of a shell unit: nothing refuses it
  (`terraform/base/scanners.go:34`), and there is no such state.
* `Deployed`: a unit whose record is not true of the cluster, or has another
  namespace, is not repaired by a plan that finds no difference. `NothingLeftBehind`: while
  the namespace is kept, and not what earlier, failed commands left; of manifests that
  are removed together all but one may stay.

### Fairness

`UnitGraph!FairSpec` has weak fairness of the main goroutine and of each
routine: Go's scheduler runs every goroutine that can run. It contains the
assumption that a unit's commands end; one that hangs hangs `cdev`. Whether the trap of a
command returns from `Close` after a signal is left open (`Hang`): a routine that hangs is never asked
to go on, and `CommandReturns` names this way out. ShellUnit has
weak fairness of every routine, of the goroutine that runs its command and of its
trap, and none of the commands themselves: `RoutinesEnd` names their end as its hypothesis, and
`SignalsReachChildren` does without. Go's mutexes serve those who wait in turn, and
a unit's mutex is asked for a bounded number of times, so weak fairness is enough.
No fairness is assumed of signals. `GraphIndex!FairSpec` has weak fairness of a
sequential loop. The other modules state no liveness: their sessions may be
killed, and users may stop. Where deadlock is checked the ends are explicit
(`Exited`, `Returned`, `AllEnded`, `Rest`).

## 4. The proofs

All hold for every finite set of units or sessions and every value of the other
constants that satisfies the modules' named ASSUMEs: plans refer to their own
units, were accepted by `BuildGraph`, `MaxParallel` is positive (UnitGraph,
GraphIndex), and in an apply with `--ignore-state` all are applied (UnitGraph); plans are records of units without circles and no
unit is called `None` (ShellUnit); what a user may write are configurations (Reconcile, Links), a link
has a known target, a kind and a name where its kind has one (Links), bounds are natural numbers (Links, Loading);
in a project a file is one secret or a sequence of objects, a stack has a sequence of
units, the units are finitely many, and `tfmodule` is a type of unit (Loading);
`kubectl` has a default namespace, and forms of the unit are manifests of known
names and versions (KubeUnit).

* `UnitGraphProofs`: `TypeCorrect`; `InvariantHolds` for `IInv`, from which
  `ParallelismHolds`, `OrderHolds`, `QuietSaveHolds`, `CompletenessHolds` follow;
  `RecordsHold` from `RInv`, which adds `RecordFollows`; `ImplementsOrderedRun`.
  The order alone is not inductive: a unit becomes ready in one step and is
  started in another. `IInv` therefore says how the status follows the place of
  the routine (`StatusFollows`), that a ready unit's blockers are finished
  (`ReadyIsUnblocked`), when an error that the unit's own routine set can be seen (`ErrorsFollowRoutine`;
  of the marks that others set it says nothing)
  and what each way out of the loop knows (`WayOut`). Main, routine and environment
  steps each have a lemma; `RoutineEffect` sums up what any routine step may do.
  For the refinement, every step is shown to be Begin, Finish, Halt or a stutter.
* `GraphIndexProofs`: `UpdateQueue` only moves units out of the backlog; `RoundInv` says that every finished unit has an index
  below the level and above its blockers', which gives `IndexesRise`; a round that
  frees nothing leaves a set of units that block one another, a built one leaves
  none: `CirclesRefused`. For `ListsInOrder`, `ListInv` says of each of the three slices that its units follow those
  they wait for (`LaidOut`), and of all three that they hold the finished units, every
  one once.
* `StateLockProofs`: `LInv` (`SessionsTyped`, no invented change, an owner for the lock, and
  what a session at each place knows: `SessionFits`) gives `NothingIsInvented`,
  `LocksAreOwned` and `OwnersDeploy`. For `ChangesAreKept`, `Remembers` adds that
  a session that will write without overlap to a backend that reads faithfully has
  the whole stored state in memory, or ignores it. `SequencesAreExact` rests on `Follows`:
  while sessions follow one another, what is stored and what is deployed differ only by
  what was forgotten and the change that one session is about to save, and that session has in
  memory what `Known` says: all that is deployed, what is not forgotten, or with `--ignore-state` its own
  change.
* `ShellUnitProofs`: `UnitsTyped`; `MutexExcludes` from `MuxInv`: a mutex that
  a frame waits for or will unlock was made by somebody (`MadeInv`), a frame that
  waits for a call is at its forced dependencies, hence locked (`CallInv`), and while
  one mutex was made a frame in the locked part holds it (`HeldInv`). `SucceedsOnce` adds `FirstInv`: a frame past the check
  of a unit that was made one mutex finds it not done. Most steps touch
  neither mutexes nor a frame's locked place; they are "quiet", one lemma shows that
  quiet steps keep everything, and only CreateMux, Lock, Defer, Unlock and the like
  are argued one by one. `ForcesFirst` follows from what a frame has achieved
  (`ForcedInv`: every forced dependency is applied or still to be called), from
  who may call whom (`StackInv`), and from `OrderInv`: a unit is destroyed by its own
  routine only, begun after its blockers ended; `NothingKeptBegun` carries that over the units
  between them. `SharingKills`: a map fault needs two
  routines at one unit, a nil process or a `Close` needs a signal (`MakersInv`,
  `SignalInv`, `FateInv`).
* `KubeUnitProofs`: `KInv` gives `KubeTyped`, `DeploysAll` and `LeavesNothing`.
  The two properties speak of the end of a command; `PlanStands` carries from the
  plan to the end what the plan was made for, and `ClusterKept` what the cluster is
  between delete and apply: nothing was added, and if anything was removed from the record, the
  object of one of these manifests is gone.

* `ReconcileProofs`: one inductive invariant `IInv` for all six results. `Converged` speaks
  of the end of a run and its history variables of all runs before, so the invariant
  says what they mean at every moment: `PlanInv` (the plan is the one made from `Base`,
  the state the run began with, and no run has `upset` units before it begins), `RecordInv` (what was
  done to a unit is what its record says, for each of three places: not got through with, `Kept`; `CarriedOut`;
  `BrokenOff`; the world is excepted where another unit's forced apply upset it),
  `HurtInv` (what unsaved runs may have left of a unit that was neither reached nor upset yet: the
  next plan sees it, or it is as desired), `OrderInv` (nothing an applied unit depends
  on is still to come), `LoadInv` (records name what has a record), `BehindInv` (who was
  passed by a dependency is excused, or planned and not done). `SuccessIsConvergence` and
  `RecordsTellTheWorld` need the first three. `ChangesReachDependents` needs that `Reach` is the
  least closed set of dependencies (`ReachIsLeast`): from a unit that is done,
  `OrderInv` carries "not to come any more" down to every changed dependency.
  `SavedCanBeLoaded` and `DestroysComeLast` rest on `LoadInv` and `DestroyIsLast`, a case split over
  how far each of two units is.

* `LinksProofs`: one inductive invariant `IInv` for all four results. `PlanInv` says that the
  plan is the one made from the stored state, `OwnInv` that what the run's state holds is a
  function of the stored state, the plan and how far each unit is (`RunRecord`, `RunLink`), `LinkInv` that
  a link has joined data until its target runs and then what the target has (`JoinedLink`, `Refreshed`), `OrderInv` that an applied
  unit's dependencies are over, `LostInv` that what an unsaved success lost of a unit it lost of
  all that use it: whoever is not `Left` has providers whose records are good. `Effect` sums up the five ways a unit's
  execution can go, so that the rest is argued once and not five times. On these rest `FreshInv`
  (stored outputs are those of what is deployed: `OutputsAreKept`), `HeldInv` (the links that a
  recorded unit uses are there), `BuiltInv` (what is deployed was built with them) and `DoneInv`
  (what a successful apply leaves: deployed is what was written, saved or not, `AsWritten`, and if
  it was saved the state records it, `Records`: `Settles`). `OutputsAreFresh` compares with
  `Wanted`, a recursive function. That there is one (`SolutionExists`) is
  proved without induction over data: links make no circle, so if not every
  unit had a solution on the units below it (its cone), a least one would not, and the solutions of its
  providers make one. `SolutionsAgree` is the same argument for uniqueness, and shows
  that what is deployed is `Wanted`.

* `LoadingProofs`: `LoadingTyped`, `LoadsAreExact`, `StatesAreFound` from one `IInv`.
  `LoadIsExact` compares what a walk through maps has made with what the files mean, so
  the invariant says what each phase knows of the project once it is over, and forgets
  the order in which it went: `SecretsFit` (secrets are those of the files read so
  far), `Lists` (the list of objects is one to one with the places in the files,
  in some order), `BackendsKnown`, `StacksKnown`, `StateKnown`, `UnitsKnown`. Each phase has
  a lemma (`...Knows`): it goes on with the next of these, or it refuses and one
  part of `Valid` is false. `CirclesAreFound` shows that the walk along chains of dependencies
  refuses exactly the projects with a set of units that each depend on another of it: of such a set,
  a unit with the least set `Chained` behind it (it exists because the units are finitely many)
  would have a dependency with a smaller one. What `RemoteStatesAreFound` says of a run rests on the runs
  before it: `RecordsLead` (a record of a terraform unit names a backend at whose place the
  unit's state is). A state once saved is never empty again, so `OneState` after a run
  implies `OneState` before it (`OneStateLooksBack`).

Every invariant and action property that a passing run checks is also a theorem. Only
model-checked: liveness (`CommandReturns`, `Decides`, `RoutinesEnd`,
`SignalsReachChildren`), which the prover does not do, and the expected violations.

## 5. Not modelled

* Text: HCL tools, the code that terraform, helm and kubernetes units generate,
  template text and the functions that only compute text, YAML. A failure of any of these is
  the failure of a Build or of the load.
* The project generator's prompts, configuration, logging, profiler, usage statistics.
  `--target` is parsed and stored but nothing reads it.
* In Reconcile a plan with a circle (possible only when dependencies were
  turned round) is not refused but never runs; the instances write no circles.
  The state's `ChangedUnits` and the units' `WasApplied` are left out: they are
  set by an execution, and a process plans once, before it executes.
* In ShellUnit, plans that mix units of the state and of the project, which do not
  share mutexes, and the trap of the prompt.

## 6. What could follow

1. In Reconcile, a circle as a refusal in `Plan`.
2. A composition of StateLock with UnitGraph's outcomes, so that the state a session
   saves is the one its execution left, and of Links with UnitGraph, so that Build reads
   links while other routines write theirs.
