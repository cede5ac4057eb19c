--------------------------- MODULE ReconcileProofs ---------------------------
(***************************************************************************)
(* Proofs about Reconcile: for every user, any number of units, edits and  *)
(* runs, however the runs end, what a successful command leaves is what    *)
(* was asked for, the records tell what is deployed, and the stored state  *)
(* can be loaded again.                                                    *)
(***************************************************************************)
EXTENDS Reconcile, TLAPS

(* The state that the run was planned from.                                *)
Base == IF ignore THEN All(NoRecord) ELSE stored

PlanInv ==
  /\ Loadable(desired)
  /\ run = "none" => op = All("None") /\ exe = All("waiting") /\ ~ignore /\ own = stored
  /\ run = "none" => upset = {}
  /\ run = "apply" => \A u \in Units : op[u] = ApplyOperation(Base, u)
  /\ run = "destroy" => \A u \in Units : op[u] = DestroyOperation(Base, ignore, u)
  /\ done # "none" => run = "none"

(* The record that the run started from, with the mark of a failure.       *)
Marked(u) == [Base[u] EXCEPT !.tainted = TRUE]

(* A record that the run has made.                                         *)
Written(u, failed) ==
  own[u].spec = desired[u].spec /\ own[u].deps = desired[u].deps /\ own[u].tainted = failed

(* A unit that the run has not got through with. Only a force_apply        *)
(* dependency that failed has got another record.                          *)
Kept(u) ==
  own[u] = Base[u] \/ (u \in upset /\ u \in Recorded(Base) /\ own[u] = Marked(u))

(* A unit whose commands were carried out. It may have been upset since.   *)
CarriedOut(u) ==
  IF op[u] = "Destroy" THEN own[u] = NoRecord /\ (u \notin upset => world[u] = 0)
  ELSE Written(u, FALSE) /\ (u \notin upset => world[u] = desired[u].spec)

(* A unit whose commands were refused or broken off.                       *)
BrokenOff(u) ==
  IF op[u] # "Destroy" THEN Written(u, TRUE)
  ELSE IF u \in Recorded(Base) THEN own[u] = Marked(u) ELSE own[u] = NoRecord

(* What a run has done to a unit is what its record says.                  *)
RecordInv ==
  \A u \in Units :
    /\ stored[u].spec = 0 => stored[u] = NoRecord
    /\ exe[u] # "waiting" => u \in Planned
    /\ exe[u] \in {"waiting", "begun", "skipped"} => Kept(u)
    /\ exe[u] = "done" => CarriedOut(u)
    /\ exe[u] = "failed" => BrokenOff(u)
    /\ ignore /\ u \in Recorded(stored) => hurt[u] = "any"

(* What the runs that did not save left of a unit, until this run gets to  *)
(* it, or upsets it for another.                                           *)
HurtInv ==
  \A u \in Units :
    exe[u] \notin {"done", "failed"} /\ u \notin upset =>
      /\ hurt[u] = "no" /\ ~stored[u].tainted => world[u] = stored[u].spec
      /\ hurt[u] = "apply" => Changed(stored, u) \/ world[u] = desired[u].spec
      /\ hurt[u] = "destroy" => u \in Recorded(stored) \/ world[u] = 0

(* A unit is applied when nothing that it depends on is still to come.     *)
OrderInv ==
  \A u \in Units :
    exe[u] # "waiting" /\ op[u] # "Destroy" => Waiting \cap desired[u].deps = {}

(* While no dependency was dropped, what is recorded has its dependencies. *)
LoadInv ==
  /\ \A u \in Units : exe[u] = "skipped" => unprepared
  /\ run # "none" /\ ~relinked =>
       \A u \in Present(desired) \cap Recorded(stored) : stored[u].deps \subseteq desired[u].deps
  /\ \A u \in Units : u \notin stored[u].deps
  /\ Regular => StateLoadable
  /\ Regular => \A u, v \in Units :
       exe[u] = "done" /\ op[u] = "Destroy" => u \notin own[v].deps

(* Who is left behind has an excuse, or is still going to be applied after *)
(* the unit that this run has applied.                                     *)
BehindInv ==
  \A u \in behind :
    \/ u \in excused
    \/ /\ u \in Planned /\ exe[u] # "done"
       /\ \E w \in Units : exe[w] = "done" /\ op[w] # "Destroy" /\ u \in Dependents(w)

IInv ==
  /\ TypeOK /\ PlanInv /\ RecordInv /\ HurtInv /\ OrderInv /\ LoadInv /\ BehindInv
  /\ Converged

------------------------------------------------------------------------------
(* Types.                                                                  *)
LEMMA ConfigTypes ==
  /\ \A c \in Config : c.spec \in Nat /\ c.deps \in SUBSET Units /\ c.force \in BOOLEAN
  /\ \A c \in Config : c.spec = 0 => c.deps = {}
  /\ Nothing \in Config /\ NoRecord \in Record
<1>1. Nothing \in Config
  BY DEF Config
<1>2. NoRecord \in Record
  BY DEF NoRecord, Record
<1>3. /\ Nothing.spec \in Nat /\ Nothing.deps \in SUBSET Units /\ Nothing.force \in BOOLEAN
      /\ Nothing.deps = {}
  BY DEF Nothing
<1>4. ASSUME NEW c \in Config
      PROVE  /\ c.spec \in Nat /\ c.deps \in SUBSET Units /\ c.force \in BOOLEAN
             /\ c.spec = 0 => c.deps = {}
  <2>1. CASE c = Nothing
    BY <1>3, <2>1
  <2>2. CASE c \in [spec : Nat \ {0}, deps : SUBSET Units, force : BOOLEAN]
    BY <2>2
  <2> QED
    BY <2>1, <2>2 DEF Config
<1> QED
  BY <1>1, <1>2, <1>4

LEMMA NewRecordTypes ==
  ASSUME TypeOK, NEW u \in Units, NEW failed \in BOOLEAN
  PROVE  NewRecord(u, failed) \in Record
<1>1. own[u].linked \/ Linked(desired, u) \in BOOLEAN
  BY DEF Linked
<1>2. desired[u] \in Config
  BY DEF TypeOK
<1> QED
  BY <1>1, <1>2, ConfigTypes DEF NewRecord, Record

LEMMA TaintedTypes ==
  ASSUME TypeOK, NEW u \in Units
  PROVE  Tainted(u) \in Record
<1>1. own[u] \in Record
  BY DEF TypeOK
<1>2. CASE op[u] # "Destroy"
  <2>1. Tainted(u) = NewRecord(u, TRUE)
    BY <1>2 DEF Tainted
  <2> QED
    BY <2>1, NewRecordTypes
<1>3. CASE op[u] = "Destroy" /\ u \in Recorded(own)
  <2>1. Tainted(u) = [own[u] EXCEPT !.tainted = TRUE]
    BY <1>3 DEF Tainted
  <2> QED
    BY <1>1, <2>1 DEF Record
<1>4. CASE op[u] = "Destroy" /\ u \notin Recorded(own)
  BY <1>4, ConfigTypes DEF Tainted
<1> QED
  BY <1>2, <1>3, <1>4

(* Loading adds links and clears them, and leaves the rest.                *)
LEMMA LoadedRecords ==
  ASSUME TypeOK
  PROVE  /\ Loaded(own) \in [Units -> Record]
         /\ \A u \in Units : /\ Loaded(own)[u].spec = own[u].spec
                             /\ Loaded(own)[u].deps = own[u].deps
                             /\ Loaded(own)[u].tainted = own[u].tainted
                             /\ own[u] = NoRecord => Loaded(own)[u] = NoRecord
         /\ Recorded(Loaded(own)) = Recorded(own)
<1>1. ASSUME NEW u \in Units
      PROVE  /\ Loaded(own)[u] \in Record
             /\ Loaded(own)[u].spec = own[u].spec /\ Loaded(own)[u].deps = own[u].deps
             /\ Loaded(own)[u].tainted = own[u].tainted
             /\ own[u] = NoRecord => Loaded(own)[u] = NoRecord
  <2> DEFINE joined == u \in Recorded(own) /\ (own[u].linked \/ Linked(own, u))
  <2>1. Loaded(own)[u] = [own[u] EXCEPT !.linked = joined]
    BY DEF Loaded
  <2>2. joined \in BOOLEAN /\ (own[u].spec = 0 => ~joined)
    BY DEF Recorded
  <2>3. own[u] \in Record
    BY DEF TypeOK
  <2> HIDE DEF joined
  <2>4. own[u] = NoRecord => Loaded(own)[u] = NoRecord
    <3> SUFFICES ASSUME own[u] = NoRecord PROVE Loaded(own)[u] = NoRecord
      OBVIOUS
    <3>1. own[u].spec = 0 /\ own[u].linked = FALSE
      BY DEF NoRecord
    <3>2. joined = FALSE
      BY <2>2, <3>1
    <3>3. [own[u] EXCEPT !.linked = FALSE] = own[u]
      BY <2>3, <3>1 DEF Record
    <3> QED
      BY <2>1, <3>2, <3>3
  <2> QED
    BY <2>1, <2>2, <2>3, <2>4 DEF Record
<1>2. Loaded(own) = [u \in Units |-> Loaded(own)[u]]
  BY DEF Loaded
<1> QED
  BY <1>1, <1>2 DEF Recorded

(* What the execution of a unit, in whatever way it ends, leaves alone.    *)
Executes(u) == Apply(u) \/ Destroy(u) \/ Fail(u) \/ PrepareFails(u)

LEMMA ExecutionIsLocal ==
  ASSUME TypeOK, NEW u \in Units, Executes(u)
  PROVE  /\ MayRun(u) /\ run # "none" /\ u \in Planned /\ exe[u] \in {"waiting", "begun"}
         /\ UNCHANGED runData
         /\ \A v \in Units : v # u => /\ exe'[v] = exe[v] /\ own'[v] = own[v]
                                      /\ world'[v] = world[v]
                                      /\ v \in upset' <=> v \in upset
         /\ exe' \in [Units -> Progress] /\ applied' \in SUBSET Objects
         /\ own' \in [Units -> Record] /\ world' \in [Units -> Nat]
         /\ upset' \in SUBSET Units
<1> USE DEF TypeOK, Becomes, MayExecute, MayRun, Progress, Objects
<1>1. CASE Apply(u)
  <2>1. NewRecord(u, FALSE) \in Record
    BY NewRecordTypes
  <2>2. desired[u].spec \in Nat
    BY ConfigTypes
  <2>3. applied' \in SUBSET Objects /\ upset' \in SUBSET Units
    BY <1>1 DEF Apply
  <2>4. /\ MayRun(u) /\ run # "none" /\ u \in Planned /\ exe[u] \in {"waiting", "begun"}
        /\ UNCHANGED runData
        /\ \A v \in Units : v # u => (v \in upset' <=> v \in upset)
    BY <1>1 DEF Apply
  <2>5. /\ exe' = [exe EXCEPT ![u] = "done"] /\ own' = [own EXCEPT ![u] = NewRecord(u, FALSE)]
        /\ world' = [world EXCEPT ![u] = desired[u].spec]
    BY <1>1 DEF Apply
  <2> QED
    BY <2>1, <2>2, <2>3, <2>4, <2>5
<1>2. CASE Destroy(u)
  BY <1>2, ConfigTypes DEF Destroy
<1>3. CASE Fail(u)
  <2>1. Tainted(u) \in Record
    BY TaintedTypes
  <2>2. world' = world \/ world' = [world EXCEPT ![u] = Partly]
    BY <1>3 DEF Fail
  <2>3. world' \in [Units -> Nat] /\ \A v \in Units : v # u => world'[v] = world[v]
    BY <2>2 DEF Partly
  <2> QED
    BY <1>3, <2>1, <2>3 DEF Fail
<1>4. CASE PrepareFails(u)
  BY <1>4 DEF PrepareFails
<1> QED
  BY <1>1, <1>2, <1>3, <1>4 DEF Executes

(* The unit itself.                                                        *)
LEMMA ExecutionResult ==
  ASSUME TypeOK, NEW u \in Units, Executes(u)
  PROVE  \/ /\ op[u] # "Destroy" /\ exe'[u] = "done"
            /\ world'[u] = desired[u].spec /\ own'[u] = NewRecord(u, FALSE)
            /\ behind' = (behind \ {u}) \cup Dependents(u) /\ excused' = Excuse(u)
            /\ unprepared' = unprepared
         \/ /\ op[u] = "Destroy" /\ exe'[u] = "done"
            /\ world'[u] = 0 /\ own'[u] = NoRecord
            /\ behind' = behind \ {u} /\ excused' = excused \ {u}
            /\ unprepared' = unprepared
         \/ /\ exe'[u] = "failed" /\ own'[u] = Tainted(u)
            /\ UNCHANGED <<behind, excused, unprepared>>
         \/ /\ exe'[u] = "skipped" /\ own'[u] = own[u] /\ world'[u] = world[u]
            /\ u \in upset' <=> u \in upset
            /\ UNCHANGED <<behind, excused>> /\ unprepared'
<1> USE DEF TypeOK, Becomes
<1>1. CASE Apply(u)
  BY <1>1 DEF Apply
<1>2. CASE Destroy(u)
  BY <1>2 DEF Destroy
<1>3. CASE Fail(u)
  BY <1>3 DEF Fail
<1>4. CASE PrepareFails(u)
  BY <1>4 DEF PrepareFails
<1> QED
  BY <1>1, <1>2, <1>3, <1>4 DEF Executes

(* For a unit its dependency is applied: what that leaves alone.           *)
Forces(u, d) == ForceApply(u, d) \/ ForceFails(u, d)

LEMMA ForcingIsLocal ==
  ASSUME TypeOK, NEW u \in Units, NEW d \in Units, Forces(u, d)
  PROVE  /\ MayRun(u) /\ run # "none" /\ u \in Planned /\ exe[u] \in {"waiting", "begun"}
         /\ u # d /\ UNCHANGED runData
         /\ \A v \in Units : v # u => exe'[v] = exe[v]
         /\ \A v \in Units : v # d => /\ own'[v] = own[v] /\ world'[v] = world[v]
                                      /\ v \in upset' <=> v \in upset
         /\ exe' \in [Units -> Progress] /\ applied' \in SUBSET Objects
         /\ own' \in [Units -> Record] /\ world' \in [Units -> Nat]
         /\ upset' \in SUBSET Units
<1> USE DEF TypeOK, Becomes, Progress, Objects
<1>1. MayForce(u, d)
  BY DEF Forces, ForceApply, ForceFails
<1>2. MayRun(u) /\ run # "none" /\ u \in Planned /\ exe[u] \in {"waiting", "begun"} /\ u # d
  BY <1>1 DEF MayForce, MayRun
<1>3. Kind(u) \in {"project", "state"} /\ Configs(Kind(u))[d].spec \in Nat
  BY ConfigTypes DEF Kind, Configs, Record
<1>4. CASE ForceApply(u, d)
  BY <1>2, <1>3, <1>4 DEF ForceApply
<1>5. CASE ForceFails(u, d)
  <2>1. own' = own \/ own' = [own EXCEPT ![d].tainted = TRUE]
    BY <1>5 DEF ForceFails
  <2>2. own' \in [Units -> Record] /\ \A v \in Units : v # d => own'[v] = own[v]
    <3>1. [own[d] EXCEPT !.tainted = TRUE] \in Record
      <4>1. own[d] \in Record
        OBVIOUS
      <4> QED
        BY <4>1 DEF Record
    <3> QED
      BY <2>1, <3>1
  <2>3. world' = world \/ world' = [world EXCEPT ![d] = Partly]
    BY <1>5 DEF ForceFails
  <2>4. world' \in [Units -> Nat] /\ \A v \in Units : v # d => world'[v] = world[v]
    BY <2>3 DEF Partly
  <2> QED
    BY <1>2, <1>5, <2>2, <2>4 DEF ForceFails
<1> QED
  BY <1>4, <1>5 DEF Forces

LEMMA ForcingResult ==
  ASSUME TypeOK, NEW u \in Units, NEW d \in Units, Forces(u, d)
  PROVE  \/ /\ exe'[u] = "begun" /\ own'[d] = own[d] /\ unprepared' = unprepared
            /\ world'[d] = Configs(Kind(u))[d].spec
            /\ d \in upset' \/ Holds(Kind(u), d)
            /\ behind' = (behind \ {d}) \cup Dependents(d)
            /\ excused' = (excused \ {d}) \cup Dependents(d)
         \/ /\ exe'[u] = "skipped" /\ d \in upset'
            /\ \/ own'[d] = own[d]
               \/ /\ own'[d] = [own[d] EXCEPT !.tainted = TRUE]
                  /\ exe[d] \notin {"done", "failed"} /\ d \in Recorded(own)
            /\ UNCHANGED <<behind, excused>> /\ unprepared'
<1> USE DEF TypeOK, Becomes
<1>1. CASE ForceApply(u, d)
  BY <1>1 DEF ForceApply
<1>2. CASE ForceFails(u, d)
  <2>1. \/ own' = own
        \/ /\ own' = [own EXCEPT ![d].tainted = TRUE]
           /\ exe[d] \notin {"done", "failed"} /\ d \in Recorded(own)
    BY <1>2 DEF ForceFails
  <2> QED
    BY <1>2, <2>1 DEF ForceFails
<1> QED
  BY <1>1, <1>2 DEF Forces

LEMMA NextTypes ==
  ASSUME TypeOK, [Next]_vars
  PROVE  TypeOK'
<1> USE DEF TypeOK
<1>1. project \in Project
  BY ProjectsAssumption
<1>2. project.edits \in Nat /\ project.runs \in Nat
      /\ project.mayWrite \in [Units -> SUBSET Config]
  BY <1>1 DEF Project
<1>3. All(NoRecord) \in [Units -> Record] /\ All("None") \in [Units -> Operations]
      /\ All("waiting") \in [Units -> Progress]
  BY ConfigTypes DEF All, Operations, Progress
<1>4. \A v \in Units : Dependents(v) \in SUBSET Units
  BY DEF Dependents
<1>5. ASSUME NEW u \in Units, Edit(u) PROVE TypeOK'
  <2>1. PICK c \in project.mayWrite[u] \cup {Nothing} : desired' = [desired EXCEPT ![u] = c]
    BY <1>5 DEF Edit
  <2>2. c \in Config
    BY <1>2, ConfigTypes
  <2>3. desired' \in [Units -> Config] /\ \A v \in Units : desired'[v] = IF v = u THEN c ELSE desired[v]
    BY <2>1, <2>2
  <2>4. edits' \in 0..project.edits
    BY <1>2, <1>5 DEF Edit
  <2>5. hurt' \in [Units -> Commands \cup {"no", "any"}]
    BY <1>5 DEF Edit
  <2> QED
    BY <1>5, <2>3, <2>4, <2>5 DEF Edit
<1>6. ASSUME NEW cmd \in Commands, NEW ignoring \in BOOLEAN, Plan(cmd, ignoring) PROVE TypeOK'
  <2>1. \A u \in Units : /\ ApplyOperation(own', u) \in Operations
                         /\ DestroyOperation(own', ignoring, u) \in Operations
    BY DEF ApplyOperation, DestroyOperation, Operations
  <2>2. op' \in [Units -> Operations]
    BY <1>6, <2>1 DEF Plan
  <2>3. runs' \in 0..project.runs
    BY <1>2, <1>6 DEF Plan
  <2>4. own' \in [Units -> Record]
    BY <1>3, <1>6 DEF Plan
  <2>5. hurt' \in [Units -> Commands \cup {"no", "any"}]
    BY <1>6 DEF Plan
  <2>6. relinked' \in BOOLEAN
    BY <1>6 DEF Plan
  <2> QED
    BY <1>6, <2>2, <2>3, <2>4, <2>5, <2>6 DEF Plan
<1>7. ASSUME NEW u \in Units, Executes(u) PROVE TypeOK'
  <2>1. behind' \in SUBSET Units /\ excused' \in SUBSET Units /\ unprepared' \in BOOLEAN
    BY <1>4, <1>7, ExecutionResult DEF Excuse
  <2> QED
    BY <1>7, <2>1, ExecutionIsLocal DEF runData
<1>8. ASSUME NEW u \in Units, NEW d \in Units, Forces(u, d) PROVE TypeOK'
  <2>1. behind' \in SUBSET Units /\ excused' \in SUBSET Units /\ unprepared' \in BOOLEAN
    BY <1>4, <1>8, ForcingResult
  <2> QED
    BY <1>8, <2>1, ForcingIsLocal DEF runData
<1>9. CASE Succeed \/ GiveUp
  <2>1. hurt' \in [Units -> Commands \cup {"no", "any"}]
    <3>1. \A u \in Units : hurt'[u] \in Commands \cup {"no", "any"}
      BY <1>9 DEF Succeed, GiveUp, SaveAll
    <3>2. hurt' = [u \in Units |-> hurt'[u]]
      BY <1>9 DEF Succeed, GiveUp, SaveAll
    <3> QED
      BY <3>1, <3>2
  <2>2. done' \in Commands \cup {"none"}
    BY <1>9 DEF Succeed, GiveUp
  <2>3. excused' \in SUBSET Units
    BY <1>9 DEF Succeed, GiveUp, SaveAll, Planned
  <2> QED
    BY <1>3, <1>9, <2>1, <2>2, <2>3, LoadedRecords DEF Succeed, GiveUp, SaveAll, Reset
<1>10. CASE SucceedUnsaved \/ Crash
  <2>1. \A u \in Units, c \in Commands \cup {"any"} : Blame(u, c) \in Commands \cup {"no", "any"}
    BY DEF Blame
  <2>2. (IF ignore THEN "any" ELSE run) \in Commands \cup {"any"}
    BY <1>10 DEF SucceedUnsaved, AllOver, Crash
  <2>3. hurt' \in [Units -> Commands \cup {"no", "any"}]
    <3>1. Unsaved
      BY <1>10 DEF SucceedUnsaved, Crash
    <3> QED
      BY <2>1, <2>2, <3>1 DEF Unsaved
  <2>4. excused' \in SUBSET Units /\ done' \in Commands \cup {"none"}
    BY <1>4, <1>10 DEF SucceedUnsaved, Crash
  <2> QED
    BY <1>3, <1>10, <2>3, <2>4 DEF SucceedUnsaved, Crash, Unsaved, Reset
<1>11. CASE UNCHANGED vars
  BY <1>11 DEF vars
<1> QED
  BY <1>5, <1>6, <1>7, <1>8, <1>9, <1>10, <1>11 DEF Next, Executes, Forces, Rest

------------------------------------------------------------------------------
(* Dependencies.                                                           *)
LEMMA ReachHoldsDeps ==
  ASSUME TypeOK, NEW u \in Units
  PROVE  /\ desired[u].deps \subseteq Reach(u)
         /\ \A v \in Reach(u) : desired[v].deps \subseteq Reach(u)
         /\ Reach(u) \subseteq Units
<1>1. \A v \in Units : desired[v].deps \in SUBSET Units
  BY ConfigTypes DEF TypeOK
<1> QED
  BY <1>1 DEF Reach, Beneath

LEMMA ReachIsLeast ==
  ASSUME TypeOK, NEW u \in Units, NEW S \in SUBSET Units,
         desired[u].deps \subseteq S, \A w \in S : desired[w].deps \subseteq S
  PROVE  Reach(u) \subseteq S
BY DEF Reach, Beneath

LEMMA ReachIsTransitive ==
  ASSUME TypeOK, NEW u \in Units, NEW v \in Reach(u)
  PROVE  Reach(v) \subseteq Reach(u)
<1>1. v \in Units /\ desired[v].deps \subseteq Reach(u)
      /\ Reach(u) \in SUBSET Units /\ \A w \in Reach(u) : desired[w].deps \subseteq Reach(u)
  BY ReachHoldsDeps
<1> QED
  BY <1>1, ReachIsLeast

(* Only what is in the project has dependencies, and they are in it too.   *)
LEMMA ReachIsPresent ==
  ASSUME TypeOK, Loadable(desired), NEW u \in Units, NEW v \in Reach(u)
  PROVE  u \in Present(desired) /\ v \in Present(desired)
<1>1. Present(desired) \in SUBSET Units /\ \A w \in Units : desired[w].deps \subseteq Present(desired)
  BY DEF Loadable, Present
<1>2. Reach(u) \subseteq Present(desired)
  BY <1>1, ReachIsLeast
<1>3. CASE u \notin Present(desired)
  <2>1. desired[u].deps = {}
    BY <1>3, ConfigTypes DEF Present, TypeOK
  <2>2. Reach(u) \subseteq {}
    BY <2>1, ReachIsLeast
  <2> QED
    BY <2>2
<1> QED
  BY <1>2, <1>3

(* A project that can be loaded has no unit that depends on itself.        *)
LEMMA NotItsOwnDependency ==
  ASSUME TypeOK, Loadable(desired), NEW u \in Units
  PROVE  u \notin Reach(u) /\ u \notin desired[u].deps
<1> DEFINE S == {x \in Units : u \in Reach(x) /\ x \in Reach(u)}
<1> SUFFICES ASSUME u \in Reach(u)
             PROVE  FALSE
  BY ReachHoldsDeps
<1>1. S \in SUBSET Units /\ u \in S
  OBVIOUS
<1>2. PICK x \in S : desired[x].deps \cap S = {}
  BY <1>1 DEF Loadable
<1> DEFINE T == {y \in Reach(x) : u # y /\ u \notin Reach(y)}
<1>3. ASSUME NEW y \in desired[x].deps PROVE y \in T
  <2>1. y \in Units /\ y \in Reach(x) /\ y \in Reach(u)
    BY <1>2, <1>3, ReachHoldsDeps, ReachIsTransitive
  <2>2. u # y
    BY <1>1, <1>2, <1>3
  <2>3. u \notin Reach(y)
    BY <1>2, <1>3, <2>1
  <2> QED
    BY <2>1, <2>2, <2>3
<1>4. ASSUME NEW y \in T PROVE desired[y].deps \subseteq T
  <2> SUFFICES ASSUME NEW z \in desired[y].deps PROVE z \in T
    OBVIOUS
  <2>1. y \in Units /\ z \in Reach(x) /\ z \in Reach(y)
    BY <1>2, <1>4, ReachHoldsDeps
  <2>2. u # z /\ u \notin Reach(z)
    BY <1>4, <2>1, ReachIsTransitive
  <2> QED
    BY <2>1, <2>2
<1>5. Reach(x) \subseteq T
  <2>1. T \in SUBSET Units /\ x \in Units
    BY <1>2, ReachHoldsDeps
  <2> QED
    BY <1>3, <1>4, <2>1, ReachIsLeast
<1> QED
  BY <1>2, <1>5

------------------------------------------------------------------------------
(* Planning.                                                               *)
LEMMA PlannedByApply ==
  ASSUME NEW state, NEW u \in Units
  PROVE  LET o == ApplyOperation(state, u) IN
         /\ o = "Destroy" <=> u \in Recorded(state) /\ u \notin Present(desired)
         /\ o = "NotChanged" <=> /\ u \in Present(desired) /\ u \in Recorded(state)
                                 /\ ~Changed(state, u)
         /\ o = "None" <=> u \notin Recorded(state) /\ u \notin Present(desired)
         /\ o \in Operations
<1> USE DEF ApplyOperation, Operations
<1>1. CASE u \in Present(desired) /\ u \notin Recorded(state)
  BY <1>1
<1>2. CASE u \in Present(desired) /\ u \in Recorded(state) /\ Changed(state, u)
  BY <1>2
<1>3. CASE u \in Present(desired) /\ u \in Recorded(state) /\ ~Changed(state, u)
  BY <1>3
<1>4. CASE u \notin Present(desired) /\ u \in Recorded(state)
  BY <1>4
<1>5. CASE u \notin Present(desired) /\ u \notin Recorded(state)
  BY <1>5
<1> QED
  BY <1>1, <1>2, <1>3, <1>4, <1>5

LEMMA PlannedByDestroy ==
  ASSUME NEW state, NEW ignoring, NEW u \in Units
  PROVE  DestroyOperation(state, ignoring, u) =
           IF (IF ignoring THEN u \in Present(desired) ELSE u \in Recorded(state))
           THEN "Destroy" ELSE "None"
BY DEF DestroyOperation

(* What depends only on the project stays as long as nobody edits it.      *)
LEMMA ProjectKept ==
  ASSUME desired' = desired
  PROVE  /\ \A u \in Units : Reach(u)' = Reach(u) /\ Dependents(u)' = Dependents(u)
         /\ \A u \in Units : Linked(desired, u)' = Linked(desired, u)
         /\ Present(desired)' = Present(desired) /\ Loadable(desired)' = Loadable(desired)
BY DEF Reach, Beneath, Dependents, Present, Loadable, Linked

LEMMA PlanFitsBase ==
  ASSUME desired' = desired, Base' = own'
  PROVE  \A u \in Units :
           /\ ApplyOperation(Base, u)' = ApplyOperation(own', u)
           /\ DestroyOperation(Base, ignore, u)' = DestroyOperation(own', ignore', u)
<1>1. \A u \in Units : Changed(Base, u)' = Changed(own', u)
  BY ProjectKept DEF Changed, Differs, DependencyChanged
<1>2. Recorded(Base)' = Recorded(own') /\ Present(desired)' = Present(desired)
  BY DEF Recorded, Present
<1> QED
  BY <1>1, <1>2 DEF ApplyOperation, DestroyOperation

LEMMA BaseKept ==
  ASSUME UNCHANGED <<desired, stored, ignore>>
  PROVE  /\ Base' = Base /\ Recorded(Base)' = Recorded(Base)
         /\ \A u \in Units :
              /\ Changed(stored, u)' = Changed(stored, u)
              /\ ApplyOperation(Base, u)' = ApplyOperation(Base, u)
              /\ DestroyOperation(Base, ignore, u)' = DestroyOperation(Base, ignore, u)
<1>1. Base' = Base
  BY DEF Base, All
<1>2. \A u \in Units : /\ Changed(Base, u)' = Changed(Base, u)
                       /\ Changed(stored, u)' = Changed(stored, u)
  BY <1>1, ProjectKept DEF Changed, Differs, DependencyChanged
<1>3. Recorded(Base)' = Recorded(Base) /\ Present(desired)' = Present(desired)
  BY <1>1 DEF Recorded, Present
<1> QED
  BY <1>1, <1>2, <1>3 DEF ApplyOperation, DestroyOperation

LEMMA NextPlan ==
  ASSUME TypeOK, PlanInv, [Next]_vars
  PROVE  PlanInv'
<1> USE DEF PlanInv
<1>1. ASSUME NEW u \in Units, Edit(u) PROVE PlanInv'
  <2>1. PICK c : Loadable([desired EXCEPT ![u] = c]) /\ desired' = [desired EXCEPT ![u] = c]
    BY <1>1 DEF Edit
  <2>2. Loadable(desired)'
    BY <2>1 DEF Loadable, Present
  <2> QED
    BY <1>1, <2>2 DEF Edit, Commands
<1>2. ASSUME NEW cmd \in Commands, NEW ignoring \in BOOLEAN, Plan(cmd, ignoring) PROVE PlanInv'
  <2>1. /\ run' = cmd /\ ignore' = ignoring /\ done' = "none" /\ desired' = desired
        /\ own' = Base'
    BY <1>2 DEF Plan, Base, All
  <2>2. \A u \in Units : op'[u] = IF cmd = "apply" THEN ApplyOperation(own', u)
                                  ELSE DestroyOperation(own', ignoring, u)
    BY <1>2 DEF Plan
  <2> QED
    BY <2>1, <2>2, PlanFitsBase, ProjectKept DEF Commands
<1>3. ASSUME run # "none", UNCHANGED runData PROVE PlanInv'
  BY <1>3, BaseKept, ProjectKept DEF runData
<1>4. ASSUME NEW u \in Units, Executes(u) PROVE PlanInv'
  BY <1>3, <1>4, ExecutionIsLocal
<1>5. ASSUME NEW u \in Units, NEW d \in Units, Forces(u, d) PROVE PlanInv'
  BY <1>3, <1>5, ForcingIsLocal
<1>6. CASE Succeed \/ GiveUp \/ SucceedUnsaved \/ Crash
  <2>1. /\ run' = "none" /\ op' = All("None") /\ exe' = All("waiting") /\ ~ignore'
        /\ own' = stored' /\ desired' = desired /\ upset' = {}
    BY <1>6 DEF Succeed, GiveUp, SucceedUnsaved, Crash, SaveAll, Unsaved, Reset
  <2> QED
    BY <2>1, ProjectKept DEF All
<1>7. CASE UNCHANGED vars
  BY <1>7, BaseKept, ProjectKept DEF vars, All
<1> QED
  BY <1>1, <1>2, <1>4, <1>5, <1>6, <1>7 DEF Next, Executes, Forces, Rest

------------------------------------------------------------------------------
(* Records.                                                                *)

(* Only an apply executes anything but Destroy, on units of the project.   *)
LEMMA AppliedIsPresent ==
  ASSUME TypeOK, PlanInv, NEW u \in Planned, op[u] # "Destroy"
  PROVE  /\ run = "apply" /\ u \in Present(desired) /\ desired[u].spec # 0
         /\ Changed(Base, u) \/ u \notin Recorded(Base)
<1>1. u \in Units /\ op[u] \notin {"None", "NotChanged", "Destroy"}
  BY DEF Planned
<1>2. run = "apply"
  <2>1. run # "none"
    BY <1>1 DEF PlanInv, All
  <2>2. run # "destroy"
    BY <1>1, PlannedByDestroy DEF PlanInv
  <2> QED
    BY <2>1, <2>2 DEF TypeOK, Commands
<1>3. op[u] = ApplyOperation(Base, u)
  BY <1>1, <1>2 DEF PlanInv
<1> QED
  BY <1>1, <1>2, <1>3, PlannedByApply DEF Present

(* An apply destroys what the project has not, and the state knows of.     *)
LEMMA DestroyedIsAbsent ==
  ASSUME TypeOK, PlanInv, NEW u \in Units, run = "apply", op[u] = "Destroy"
  PROVE  u \notin Present(desired) /\ u \in Recorded(Base) /\ ~ignore
<1>1. u \notin Present(desired) /\ u \in Recorded(Base)
  BY PlannedByApply DEF PlanInv
<1> QED
  BY <1>1 DEF Base, All, Recorded, NoRecord

(* What the plan of a run stands on while its units are executed.          *)
LEMMA RunKeeps ==
  ASSUME UNCHANGED runData
  PROVE  /\ Base' = Base /\ Planned' = Planned
         /\ UNCHANGED <<stored, op, desired, ignore, hurt, run, relinked, done>>
         /\ Recorded(stored)' = Recorded(stored) /\ Recorded(Base)' = Recorded(Base)
         /\ Present(desired)' = Present(desired)
         /\ \A v \in Units :
              /\ Marked(v)' = Marked(v) /\ Dependents(v)' = Dependents(v)
              /\ Changed(stored, v)' = Changed(stored, v)
<1>1. UNCHANGED <<stored, op, desired, ignore, hurt, run, relinked, done>>
  BY DEF runData
<1>2. Base' = Base /\ Recorded(Base)' = Recorded(Base)
      /\ \A v \in Units : Changed(stored, v)' = Changed(stored, v)
  BY <1>1, BaseKept
<1>3. \A v \in Units : Marked(v)' = Marked(v)
  BY <1>2 DEF Marked
<1>4. Planned' = Planned /\ Recorded(stored)' = Recorded(stored)
  BY <1>1 DEF Planned, Recorded
<1>5. Present(desired)' = Present(desired)
      /\ \A v \in Units : Dependents(v)' = Dependents(v)
  BY <1>1, ProjectKept
<1> QED
  BY <1>1, <1>2, <1>3, <1>4, <1>5

LEMMA FewerWait ==
  ASSUME NEW u \in Units, UNCHANGED runData, u \in Planned, exe[u] \in {"waiting", "begun"},
         \A v \in Units : v # u => exe'[v] = exe[v]
  PROVE  Waiting' \subseteq Waiting
<1>1. Planned' = Planned
  BY RunKeeps
<1> QED
  BY <1>1 DEF Waiting, Planned

LEMMA MarkedRecords ==
  ASSUME TypeOK, NEW u \in Units
  PROVE  /\ Base[u] \in Record /\ Marked(u) \in Record
         /\ Marked(u).spec = Base[u].spec /\ Marked(u).deps = Base[u].deps
         /\ Marked(u).tainted = TRUE
         /\ [Marked(u) EXCEPT !.tainted = TRUE] = Marked(u)
<1>1. Base[u] \in Record
  BY ConfigTypes DEF Base, All, TypeOK
<1> QED
  BY <1>1 DEF Marked, Record

LEMMA KeptRecords ==
  ASSUME TypeOK, NEW u \in Units, Kept(u)
  PROVE  /\ own[u].spec = Base[u].spec /\ own[u].deps = Base[u].deps
         /\ u \in Recorded(own) <=> u \in Recorded(Base)
         /\ [own[u] EXCEPT !.tainted = TRUE] = Marked(u)
         /\ u \notin upset => own[u] = Base[u]
<1>1. own[u] = Base[u] \/ (u \in upset /\ own[u] = Marked(u))
  BY DEF Kept
<1>2. own[u].spec = Base[u].spec /\ own[u].deps = Base[u].deps
  BY <1>1, MarkedRecords
<1>3. [own[u] EXCEPT !.tainted = TRUE] = Marked(u)
  <2>1. CASE own[u] = Base[u]
    BY <2>1 DEF Marked
  <2>2. CASE own[u] = Marked(u)
    BY <2>2, MarkedRecords
  <2> QED
    BY <1>1, <2>1, <2>2
<1> QED
  BY <1>1, <1>2, <1>3 DEF Recorded

(* An empty record is the same as none.                                    *)
LEMMA OwnRecords ==
  ASSUME TypeOK, PlanInv, RecordInv, NEW u \in Units, own[u].spec = 0
  PROVE  own[u] = NoRecord
<1>1. CASE exe[u] \in {"waiting", "begun", "skipped"}
  <2>1. Kept(u) /\ (stored[u].spec = 0 => stored[u] = NoRecord)
    BY <1>1 DEF RecordInv
  <2>2. Base[u].spec = 0 /\ u \notin Recorded(Base)
    BY <2>1, KeptRecords DEF Recorded
  <2>3. own[u] = Base[u]
    BY <2>1, <2>2 DEF Kept
  <2> QED
    BY <2>1, <2>2, <2>3 DEF Base, All
<1>2. CASE exe[u] \in {"done", "failed"} /\ op[u] # "Destroy"
  <2>1. u \in Planned
    BY <1>2 DEF RecordInv
  <2>2. own[u].spec = desired[u].spec
    BY <1>2 DEF RecordInv, CarriedOut, BrokenOff, Written
  <2> QED
    BY <1>2, <2>1, <2>2, AppliedIsPresent
<1>3. CASE exe[u] = "done" /\ op[u] = "Destroy"
  BY <1>3 DEF RecordInv, CarriedOut
<1>4. CASE exe[u] = "failed" /\ op[u] = "Destroy"
  <2>1. (own[u] = Marked(u) /\ u \in Recorded(Base)) \/ own[u] = NoRecord
    BY <1>4 DEF RecordInv, BrokenOff
  <2> QED
    BY <2>1, MarkedRecords DEF Recorded
<1> QED
  BY <1>1, <1>2, <1>3, <1>4 DEF TypeOK, Progress

(* What an execution writes.                                               *)
LEMMA ExecutionWrites ==
  ASSUME TypeOK, RecordInv, NEW u \in Units, Executes(u)
  PROVE  \/ exe'[u] = "done" /\ CarriedOut(u)'
         \/ exe'[u] = "failed" /\ BrokenOff(u)'
         \/ exe'[u] = "skipped" /\ Kept(u)'
<1>1. UNCHANGED runData /\ exe[u] \in {"waiting", "begun"}
  BY ExecutionIsLocal
<1>2. /\ Base' = Base /\ Recorded(Base)' = Recorded(Base) /\ Marked(u)' = Marked(u)
      /\ op' = op /\ desired' = desired
  BY <1>1, RunKeeps
<1>3. Kept(u)
  BY <1>1 DEF RecordInv
<1>4. CASE op[u] # "Destroy" /\ exe'[u] = "done"
  <2>1. own'[u] = NewRecord(u, FALSE) /\ world'[u] = desired[u].spec
    BY <1>4, ExecutionResult
  <2>2. /\ NewRecord(u, FALSE).spec = desired[u].spec /\ NewRecord(u, FALSE).deps = desired[u].deps
        /\ NewRecord(u, FALSE).tainted = FALSE
    BY DEF NewRecord
  <2> QED
    BY <1>2, <1>4, <2>1, <2>2 DEF CarriedOut, Written
<1>5. CASE op[u] = "Destroy" /\ exe'[u] = "done"
  BY <1>2, <1>5, ExecutionResult DEF CarriedOut
<1>6. CASE exe'[u] = "failed"
  <2>1. own'[u] = Tainted(u)
    BY <1>6, ExecutionResult
  <2>2. CASE op[u] # "Destroy"
    <3>1. own'[u] = NewRecord(u, TRUE)
      BY <2>1, <2>2 DEF Tainted
    <3> QED
      BY <1>2, <1>6, <2>2, <3>1 DEF BrokenOff, Written, NewRecord
  <2>3. CASE op[u] = "Destroy"
    <3>1. own'[u] = IF u \in Recorded(Base) THEN Marked(u) ELSE NoRecord
      BY <1>3, <2>1, <2>3, KeptRecords DEF Tainted
    <3> QED
      BY <1>2, <1>6, <2>3, <3>1 DEF BrokenOff
  <2> QED
    BY <2>2, <2>3
<1>7. CASE exe'[u] = "skipped"
  <2>1. own'[u] = own[u] /\ (u \in upset' <=> u \in upset)
    BY <1>7, ExecutionResult
  <2> QED
    BY <1>2, <1>3, <1>7, <2>1 DEF Kept
<1> QED
  BY <1>4, <1>5, <1>6, <1>7, ExecutionResult

(* A step that leaves a unit and its record alone keeps what they tell.    *)
LEMMA OthersKeep ==
  ASSUME NEW v \in Units, UNCHANGED runData, own'[v] = own[v],
         v \notin upset' => world'[v] = world[v],
         v \in upset => v \in upset'
  PROVE  /\ Kept(v) => Kept(v)'
         /\ CarriedOut(v) => CarriedOut(v)'
         /\ BrokenOff(v) => BrokenOff(v)'
<1>1. /\ Base' = Base /\ Recorded(Base)' = Recorded(Base) /\ Marked(v)' = Marked(v)
      /\ op' = op /\ desired' = desired
  BY RunKeeps
<1> QED
  BY <1>1 DEF Kept, CarriedOut, BrokenOff, Written

LEMMA NextRecord ==
  ASSUME TypeOK, PlanInv, RecordInv, [Next]_vars
  PROVE  RecordInv'
<1>1. ASSUME NEW u \in Units, Edit(u) PROVE RecordInv'
  <2>1. /\ exe' = exe /\ exe = All("waiting") /\ own' = own /\ own = stored
        /\ stored' = stored /\ ignore' = ignore /\ ~ignore
    BY <1>1 DEF Edit, PlanInv
  <2> QED
    BY <2>1 DEF RecordInv, All, Base, Kept
<1>2. ASSUME NEW cmd \in Commands, NEW ignoring \in BOOLEAN, Plan(cmd, ignoring) PROVE RecordInv'
  <2>1. /\ exe' = exe /\ exe = All("waiting") /\ own' = Base' /\ stored' = stored
        /\ ignore' = ignoring
    BY <1>2 DEF Plan, PlanInv, Base, All
  <2>2. \A u \in Units : ignore' /\ u \in Recorded(stored)' => hurt'[u] = "any"
    BY <1>2, <2>1 DEF Plan, Recorded
  <2> QED
    BY <2>1, <2>2 DEF RecordInv, All, Kept
<1>3. ASSUME UNCHANGED runData, NEW u \in Units, u \in Planned,
             \A v \in Units : v # u => exe'[v] = exe[v],
             \A v \in Units : /\ exe'[v] \in {"waiting", "begun", "skipped"} => Kept(v)'
                              /\ exe'[v] = "done" => CarriedOut(v)'
                              /\ exe'[v] = "failed" => BrokenOff(v)'
      PROVE  RecordInv'
  <2>1. /\ Planned' = Planned /\ Recorded(stored)' = Recorded(stored)
        /\ UNCHANGED <<stored, ignore, hurt>>
    BY <1>3, RunKeeps
  <2>2. \A v \in Units : exe'[v] # "waiting" => v \in Planned'
    BY <1>3, <2>1 DEF RecordInv
  <2> QED
    BY <1>3, <2>1, <2>2 DEF RecordInv
<1>4. ASSUME NEW u \in Units, Executes(u) PROVE RecordInv'
  <2>1. UNCHANGED runData /\ u \in Planned
    BY <1>4, ExecutionIsLocal
  <2>2. ASSUME NEW v \in Units, v # u
        PROVE  exe'[v] = exe[v] /\ own'[v] = own[v] /\ world'[v] = world[v]
               /\ (v \in upset' <=> v \in upset)
    BY <1>4, <2>2, ExecutionIsLocal
  <2>3. ASSUME NEW v \in Units
        PROVE  /\ exe'[v] \in {"waiting", "begun", "skipped"} => Kept(v)'
               /\ exe'[v] = "done" => CarriedOut(v)'
               /\ exe'[v] = "failed" => BrokenOff(v)'
    <3>1. CASE v = u
      BY <1>4, <3>1, ExecutionWrites
    <3>2. CASE v # u
      <4>1. /\ (Kept(v) => Kept(v)') /\ (CarriedOut(v) => CarriedOut(v)')
            /\ (BrokenOff(v) => BrokenOff(v)')
        BY <2>1, <2>2, <3>2, OthersKeep
      <4> QED
        BY <2>2, <3>2, <4>1 DEF RecordInv
    <3> QED
      BY <3>1, <3>2
  <2> QED
    BY <1>3, <2>1, <2>2, <2>3
<1>5. ASSUME NEW u \in Units, NEW d \in Units, Forces(u, d) PROVE RecordInv'
  <2>1. /\ UNCHANGED runData /\ u \in Planned /\ u # d /\ exe[u] \in {"waiting", "begun"}
        /\ \A v \in Units : v # u => exe'[v] = exe[v]
        /\ \A v \in Units : v # d => /\ own'[v] = own[v] /\ world'[v] = world[v]
                                     /\ v \in upset' <=> v \in upset
    BY <1>5, ForcingIsLocal
  <2>2. ASSUME NEW v \in Units, v # d
        PROVE  /\ (Kept(v) => Kept(v)') /\ (CarriedOut(v) => CarriedOut(v)')
               /\ (BrokenOff(v) => BrokenOff(v)')
    BY <2>1, <2>2, OthersKeep
  <2>3. exe'[u] \in {"begun", "skipped"} /\ Kept(u)'
    <3>1. Kept(u)
      BY <2>1 DEF RecordInv
    <3> QED
      BY <1>5, <2>1, <2>2, <3>1, ForcingResult
  <2>4. /\ exe'[d] \in {"waiting", "begun", "skipped"} => Kept(d)'
        /\ exe'[d] = "done" => CarriedOut(d)'
        /\ exe'[d] = "failed" => BrokenOff(d)'
    <3>1. exe'[d] = exe[d]
      BY <2>1
    <3>2. CASE exe'[u] = "begun"
      <4>1. own'[d] = own[d] /\ (d \in upset' \/ Holds(Kind(u), d))
            /\ (d \in upset => d \in upset')
        BY <1>5, <3>2, ForcingResult DEF Forces, ForceApply, ForceFails
      <4>2. /\ Base' = Base /\ Recorded(Base)' = Recorded(Base) /\ Marked(d)' = Marked(d)
            /\ op' = op /\ desired' = desired
        BY <2>1, RunKeeps
      <4>3. CASE exe[d] \in {"waiting", "begun", "skipped"}
        <5>1. Kept(d)
          BY <4>3 DEF RecordInv
        <5>2. Kept(d)'
          BY <4>1, <4>2, <5>1 DEF Kept
        <5> QED
          BY <3>1, <4>3, <5>2
      <4>4. CASE exe[d] = "done"
        <5>1. d \in Planned /\ CarriedOut(d)
          BY <4>4 DEF RecordInv
        <5>2. ~Holds(Kind(u), d)
          BY <4>4, <5>1 DEF Holds, Planned
        <5>3. CarriedOut(d)'
          BY <4>1, <4>2, <5>1, <5>2 DEF CarriedOut, Written
        <5> QED
          BY <3>1, <4>4, <5>3
      <4>5. CASE exe[d] = "failed"
        <5>1. BrokenOff(d)
          BY <4>5 DEF RecordInv
        <5>2. BrokenOff(d)'
          BY <4>1, <4>2, <5>1 DEF BrokenOff, Written
        <5> QED
          BY <3>1, <4>5, <5>2
      <4> QED
        BY <4>3, <4>4, <4>5 DEF TypeOK, Progress
    <3>3. CASE exe'[u] = "skipped"
      <4>1. d \in upset'
        BY <1>5, <3>3, ForcingResult
      <4>2. CASE own'[d] = own[d]
        BY <2>1, <3>1, <4>1, <4>2, OthersKeep DEF RecordInv
      <4>3. CASE /\ own'[d] = [own[d] EXCEPT !.tainted = TRUE]
                 /\ exe[d] \notin {"done", "failed"} /\ d \in Recorded(own)
        <5>1. Kept(d)
          BY <4>3 DEF RecordInv, TypeOK, Progress
        <5>2. own'[d] = Marked(d) /\ d \in Recorded(Base)
          BY <4>3, <5>1, KeptRecords
        <5>3. Marked(d)' = Marked(d) /\ Recorded(Base)' = Recorded(Base)
          BY <2>1, RunKeeps
        <5>4. Kept(d)'
          BY <4>1, <5>2, <5>3 DEF Kept
        <5> QED
          BY <3>1, <4>3, <5>4
      <4> QED
        BY <1>5, <3>3, <4>2, <4>3, ForcingResult
    <3> QED
      BY <2>3, <3>2, <3>3
  <2>5. ASSUME NEW v \in Units
        PROVE  /\ exe'[v] \in {"waiting", "begun", "skipped"} => Kept(v)'
               /\ exe'[v] = "done" => CarriedOut(v)'
               /\ exe'[v] = "failed" => BrokenOff(v)'
    <3>1. CASE v = u
      BY <2>3, <3>1
    <3>2. CASE v = d
      BY <2>4, <3>2
    <3>3. CASE v # u /\ v # d
      BY <2>1, <2>2, <3>3 DEF RecordInv
    <3> QED
      BY <3>1, <3>2, <3>3
  <2> QED
    BY <1>3, <2>1, <2>5
<1>6. CASE Succeed \/ GiveUp
  <2>1. exe' = All("waiting") /\ ~ignore' /\ own' = Loaded(own) /\ stored' = Loaded(own)
    BY <1>6 DEF Succeed, GiveUp, SaveAll, Reset
  <2>2. \A u \in Units : stored'[u].spec = 0 => stored'[u] = NoRecord
    BY <2>1, OwnRecords, LoadedRecords
  <2> QED
    BY <2>1, <2>2 DEF RecordInv, All, Base, Kept
<1>7. CASE SucceedUnsaved \/ Crash
  <2>1. /\ exe' = All("waiting") /\ ~ignore' /\ own' = stored /\ stored' = stored
    BY <1>7 DEF SucceedUnsaved, Crash, Unsaved, Reset
  <2> QED
    BY <2>1 DEF RecordInv, All, Base, Kept
<1>8. CASE UNCHANGED vars
  <2>1. UNCHANGED runData /\ UNCHANGED <<exe, own, world, upset>>
    BY <1>8 DEF vars, runData
  <2>2. /\ Planned' = Planned /\ Recorded(stored)' = Recorded(stored)
        /\ UNCHANGED <<stored, ignore, hurt>>
    BY <2>1, RunKeeps
  <2>3. ASSUME NEW v \in Units
        PROVE  /\ (Kept(v) => Kept(v)') /\ (CarriedOut(v) => CarriedOut(v)')
               /\ (BrokenOff(v) => BrokenOff(v)')
    BY <2>1, OthersKeep
  <2> QED
    BY <2>1, <2>2, <2>3 DEF RecordInv
<1> QED
  BY <1>1, <1>2, <1>4, <1>5, <1>6, <1>7, <1>8 DEF Next, Executes, Forces, Rest

------------------------------------------------------------------------------
(* What is deployed.                                                       *)

(* What is neither in the project nor in the state is up to date.          *)
LEMMA AbsentIsNotChanged ==
  ASSUME TypeOK, Loadable(desired), NEW state, NEW u \in Units,
         state[u] = NoRecord, u \notin Present(desired)
  PROVE  ~Changed(state, u)
<1>1. Reach(u) = {}
  BY ReachIsPresent
<1>2. Linked(desired, u) = FALSE
  BY DEF Loadable, Linked
<1>3. ~Differs(state, u)
  <2>1. state[u].spec = 0 /\ state[u].linked = FALSE
    BY DEF NoRecord
  <2> QED
    BY <1>2, <2>1 DEF Differs, Present
<1> QED
  BY <1>1, <1>3 DEF Changed, DependencyChanged, NoRecord

(* A unit that a run does not plan, or the run has not got to yet.         *)
LEMMA Untouched ==
  ASSUME TypeOK, PlanInv, RecordInv, NEW u \in Units, u \notin upset,
         hurt[u] # "any", exe[u] \in {"waiting", "begun", "skipped"}
  PROVE  own[u] = stored[u]
<1>1. own[u] = Base[u] /\ (stored[u].spec = 0 => stored[u] = NoRecord)
      /\ (ignore => u \notin Recorded(stored))
  BY DEF RecordInv, Kept
<1> QED
  BY <1>1 DEF Base, All, Recorded

(* What an apply does not plan has its record, or nothing.                 *)
LEMMA Unplanned ==
  ASSUME TypeOK, PlanInv, RecordInv, NEW u \in Units, u \notin Planned, run # "none"
  PROVE  \/ /\ run = "apply" /\ u \in Present(desired) /\ Base = stored
            /\ u \in Recorded(Base) /\ ~Changed(stored, u)
         \/ /\ run = "apply" /\ u \notin Present(desired) /\ Base[u] = NoRecord
         \/ run = "destroy" /\ Base[u] = NoRecord
<1>1. Base[u].spec = 0 => Base[u] = NoRecord
  BY DEF RecordInv, Base, All
<1>2. u \in Recorded(Base) <=> Base[u].spec # 0
  BY DEF Recorded
<1>3. CASE run = "apply"
  <2>1. op[u] = ApplyOperation(Base, u)
    BY <1>3 DEF PlanInv
  <2>2. op[u] \in {"None", "NotChanged"}
    BY <2>1, PlannedByApply DEF Planned, Operations
  <2>3. CASE op[u] = "NotChanged"
    <3>1. u \in Present(desired) /\ u \in Recorded(Base) /\ ~Changed(Base, u)
      BY <2>1, <2>3, PlannedByApply
    <3>2. Base = stored
      BY <3>1 DEF Base, Recorded, All, NoRecord
    <3> QED
      BY <1>3, <3>1, <3>2
  <2>4. CASE op[u] = "None"
    BY <1>1, <1>2, <1>3, <2>1, <2>4, PlannedByApply
  <2> QED
    BY <2>2, <2>3, <2>4
<1>4. CASE run = "destroy"
  <2>1. op[u] # "Destroy" /\ op[u] = DestroyOperation(Base, ignore, u)
    BY <1>4 DEF PlanInv, Planned
  <2>2. ~ignore => u \notin Recorded(Base)
    BY <2>1, PlannedByDestroy
  <2> QED
    BY <1>1, <1>2, <1>4, <2>2 DEF Base, All
<1> QED
  BY <1>3, <1>4 DEF TypeOK, Commands

(* What an apply gets to was changed, and what a destroy gets to recorded. *)
LEMMA PlannedIsChanged ==
  ASSUME TypeOK, PlanInv, NEW u \in Planned, ~ignore
  PROVE  /\ run = "apply" => Changed(stored, u)
         /\ run = "destroy" => u \in Recorded(stored)
<1>1. Base = stored /\ u \in Units
  BY DEF Base, Planned
<1>2. ASSUME run = "apply" PROVE Changed(stored, u)
  <2>1. CASE op[u] = "Destroy"
    <3>1. u \notin Present(desired) /\ u \in Recorded(stored)
      BY <1>1, <1>2, <2>1, DestroyedIsAbsent
    <3> QED
      BY <1>1, <3>1 DEF Changed, Differs, Present, Recorded
  <2>2. CASE op[u] # "Destroy"
    <3>1. u \in Present(desired) /\ (Changed(stored, u) \/ u \notin Recorded(stored))
      BY <1>1, <2>2, AppliedIsPresent
    <3> QED
      BY <1>1, <3>1 DEF Changed, Differs, Present, Recorded
  <2> QED
    BY <2>1, <2>2
<1>3. ASSUME run = "destroy" PROVE u \in Recorded(stored)
  <2>1. op[u] = DestroyOperation(stored, ignore, u) /\ op[u] # "None"
    BY <1>1, <1>3 DEF PlanInv, Planned
  <2> QED
    BY <1>1, <2>1, PlannedByDestroy
<1> QED
  BY <1>2, <1>3

(* A unit that is applied for another by its force_apply, and of which     *)
(* OwnState says the same, is as its record has it.                        *)
LEMMA ForcedAsRecorded ==
  ASSUME TypeOK, PlanInv, NEW u \in Units, NEW d \in Units, run # "none", Holds(Kind(u), d)
  PROVE  Configs(Kind(u))[d].spec = stored[d].spec
<1>1. CASE Kind(u) = "state"
  BY <1>1 DEF Configs
<1>2. CASE Kind(u) # "state"
  <2>1. op[d] = "NotChanged"
    BY <1>2 DEF Holds
  <2>2. run = "apply"
    <3>1. run # "destroy"
      BY <2>1, PlannedByDestroy DEF PlanInv
    <3> QED
      BY <3>1 DEF TypeOK, Commands
  <2>3. d \in Present(desired) /\ d \in Recorded(Base) /\ ~Changed(Base, d)
    BY <2>1, <2>2, PlannedByApply DEF PlanInv
  <2>4. Base = stored
    BY <2>3 DEF Base, Recorded, All, NoRecord
  <2>5. Configs(Kind(u)) = desired
    BY <1>2 DEF Configs
  <2> QED
    BY <2>3, <2>4, <2>5 DEF Changed, Differs
<1> QED
  BY <1>1, <1>2

(* The state that a run ends with: what is left of every unit.             *)
LEMMA SavedHurt ==
  ASSUME TypeOK, PlanInv, RecordInv, HurtInv, SaveAll, run # "none", NEW u \in Units
  PROVE  /\ hurt'[u] = "no" /\ ~own[u].tainted => world[u] = own[u].spec
         /\ hurt'[u] = "apply" => Changed(Loaded(own), u) \/ world[u] = desired[u].spec
         /\ hurt'[u] = "destroy" => u \in Recorded(own) \/ world[u] = 0
<1>1. hurt'[u] = IF u \in upset THEN "any"
                 ELSE IF Settled(u) THEN "no"
                 ELSE IF exe[u] = "failed" \/ Forgotten(u) THEN "any" ELSE hurt[u]
  BY DEF SaveAll
<1>2. CASE u \in upset
  BY <1>1, <1>2
<1>3. CASE u \notin upset /\ exe[u] = "done"
  <2>1. CarriedOut(u)
    BY <1>3 DEF RecordInv
  <2>2. world[u] = own[u].spec
    BY <1>3, <2>1 DEF CarriedOut, Written, NoRecord
  <2> QED
    BY <1>1, <1>3, <2>2 DEF Settled
<1>4. CASE u \notin upset /\ exe[u] = "failed" /\ u \in Recorded(own)
  <2>1. BrokenOff(u) /\ own[u].spec # 0
    BY <1>4 DEF RecordInv, Recorded
  <2>2. own[u] # NoRecord
    BY <2>1 DEF NoRecord
  <2>3. own[u].tainted = TRUE \/ own[u] = Marked(u)
    BY <2>1, <2>2 DEF BrokenOff, Written
  <2>4. own[u].tainted = TRUE
    BY <2>3, MarkedRecords
  <2> QED
    BY <1>1, <1>4, <2>4 DEF Settled
<1>5. CASE u \notin upset /\ exe[u] = "failed" /\ u \notin Recorded(own)
  BY <1>1, <1>5 DEF Settled
<1>6. CASE u \notin upset /\ exe[u] \in {"waiting", "begun", "skipped"}
  <2>1. hurt'[u] = IF Forgotten(u) THEN "any" ELSE hurt[u]
    BY <1>1, <1>6 DEF Settled
  <2> SUFFICES ASSUME hurt'[u] # "any"
               PROVE  /\ hurt[u] = "no" /\ ~own[u].tainted => world[u] = own[u].spec
                      /\ hurt[u] = "apply" => \/ Changed(Loaded(own), u)
                                             \/ world[u] = desired[u].spec
                      /\ hurt[u] = "destroy" => u \in Recorded(own) \/ world[u] = 0
    BY <2>1
  <2>2. hurt[u] = hurt'[u] /\ ~Forgotten(u)
    BY <2>1
  <2>3. own[u] = stored[u] /\ (u \in Recorded(own) <=> u \in Recorded(stored))
    BY <1>6, <2>2, Untouched DEF Recorded
  <2>4. ASSUME hurt[u] = "apply"
        PROVE  Changed(Loaded(own), u) \/ world[u] = desired[u].spec
    <3>1. CASE u \in Planned
      BY <2>2, <2>4, <3>1 DEF Forgotten
    <3>2. CASE ~Changed(stored, u)
      BY <1>6, <2>4, <3>2 DEF HurtInv
    <3>3. CASE u \notin Planned /\ Base[u] = NoRecord
      <4>1. own[u] = NoRecord /\ stored[u] = NoRecord
        BY <1>6, <2>3, <3>3 DEF RecordInv, Kept
      <4>2. CASE u \notin Present(desired)
        <5>1. ~Changed(stored, u)
          BY <4>1, <4>2, AbsentIsNotChanged DEF PlanInv
        <5> QED
          BY <3>2, <5>1
      <4>3. CASE u \in Present(desired)
        <5>1. Loaded(own)[u].spec = 0
          BY <4>1, LoadedRecords DEF NoRecord
        <5> QED
          BY <4>3, <5>1 DEF Changed, Differs, Present
      <4> QED
        BY <4>2, <4>3
    <3> QED
      BY <3>1, <3>2, <3>3, Unplanned
  <2> QED
    BY <1>6, <2>3, <2>4 DEF HurtInv
<1> QED
  BY <1>2, <1>3, <1>4, <1>5, <1>6 DEF TypeOK, Progress

LEMMA NextHurt ==
  ASSUME TypeOK, PlanInv, RecordInv, HurtInv, [Next]_vars
  PROVE  HurtInv'
<1>1. ASSUME NEW u \in Units, Edit(u) PROVE HurtInv'
  <2>1. /\ exe' = exe /\ stored' = stored /\ world' = world /\ upset' = upset
        /\ \A v \in Units : exe[v] = "waiting"
                            /\ hurt'[v] = IF hurt[v] = "no" THEN "no" ELSE "any"
    BY <1>1 DEF Edit, PlanInv, All
  <2> QED
    BY <2>1 DEF HurtInv
<1>2. ASSUME NEW cmd \in Commands, NEW ignoring \in BOOLEAN, Plan(cmd, ignoring) PROVE HurtInv'
  <2>1. /\ UNCHANGED <<exe, stored, world, desired, upset>>
        /\ \A v \in Units : hurt'[v] \in {"any", hurt[v]}
    BY <1>2 DEF Plan
  <2>2. /\ Recorded(stored)' = Recorded(stored)
        /\ \A v \in Units : Changed(stored, v)' = Changed(stored, v)
    BY <2>1, ProjectKept DEF Recorded, Changed, Differs, DependencyChanged
  <2> QED
    BY <2>1, <2>2 DEF HurtInv
<1>3. ASSUME NEW u \in Units, Executes(u) PROVE HurtInv'
  <2>1. /\ UNCHANGED <<stored, desired, hurt>> /\ Recorded(stored)' = Recorded(stored)
        /\ \A v \in Units : Changed(stored, v)' = Changed(stored, v)
    BY <1>3, RunKeeps, ExecutionIsLocal
  <2>2. \A v \in Units : \/ exe'[v] \in {"done", "failed"}
                         \/ /\ world'[v] = world[v] /\ exe[v] \notin {"done", "failed"}
                            /\ v \in upset' <=> v \in upset
    BY <1>3, ExecutionIsLocal, ExecutionResult
  <2> QED
    BY <2>1, <2>2 DEF HurtInv
<1>4. ASSUME NEW u \in Units, NEW d \in Units, Forces(u, d) PROVE HurtInv'
  <2>1. /\ UNCHANGED <<stored, desired, hurt>> /\ Recorded(stored)' = Recorded(stored)
        /\ \A v \in Units : Changed(stored, v)' = Changed(stored, v)
    BY <1>4, RunKeeps, ForcingIsLocal
  <2>2. /\ exe[u] \notin {"done", "failed"} /\ run # "none"
        /\ \A v \in Units : v # u => exe'[v] = exe[v]
        /\ \A v \in Units : v # d => world'[v] = world[v] /\ (v \in upset' <=> v \in upset)
    BY <1>4, ForcingIsLocal
  <2>3. ASSUME d \notin upset'
        PROVE  /\ ~stored[d].tainted => world'[d] = stored[d].spec
               /\ Changed(stored, d) \/ world'[d] = desired[d].spec
               /\ d \in Recorded(stored) \/ world'[d] = 0
    <3>1. world'[d] = Configs(Kind(u))[d].spec /\ Holds(Kind(u), d)
      BY <1>4, <2>3, ForcingResult
    <3>2. world'[d] = stored[d].spec
      BY <2>2, <3>1, ForcedAsRecorded
    <3> QED
      BY <3>2 DEF Changed, Differs, Recorded
  <2> SUFFICES ASSUME NEW v \in Units, exe'[v] \notin {"done", "failed"}, v \notin upset'
               PROVE  /\ hurt[v] = "no" /\ ~stored[v].tainted => world'[v] = stored[v].spec
                      /\ hurt[v] = "apply" => Changed(stored, v) \/ world'[v] = desired[v].spec
                      /\ hurt[v] = "destroy" => v \in Recorded(stored) \/ world'[v] = 0
    BY <2>1 DEF HurtInv
  <2>4. CASE v = d
    BY <2>3, <2>4
  <2>5. CASE v # d
    BY <2>2, <2>5 DEF HurtInv
  <2> QED
    BY <2>4, <2>5
<1>5. CASE Succeed \/ GiveUp
  <2>1. SaveAll /\ run # "none" /\ stored' = Loaded(own) /\ world' = world /\ desired' = desired
    BY <1>5 DEF Succeed, AllOver, GiveUp, SaveAll
  <2>2. /\ Recorded(stored)' = Recorded(own)
        /\ \A v \in Units : /\ Changed(stored, v)' = Changed(Loaded(own), v)
                            /\ stored'[v].spec = own[v].spec
                            /\ stored'[v].tainted = own[v].tainted
    <3>1. Recorded(stored)' = Recorded(Loaded(own))
      BY <2>1 DEF Recorded
    <3>2. \A v \in Units : Changed(stored, v)' = Changed(Loaded(own), v)
      BY <2>1, ProjectKept DEF Changed, Differs, DependencyChanged
    <3> QED
      BY <2>1, <3>1, <3>2, LoadedRecords
  <2> QED
    BY <2>1, <2>2, SavedHurt DEF HurtInv
<1>6. CASE SucceedUnsaved \/ Crash
  <2>1. UNCHANGED <<stored, world, desired>> /\ run # "none" /\ Unsaved
    BY <1>6 DEF SucceedUnsaved, Crash, AllOver, Unsaved
  <2>2. /\ Recorded(stored)' = Recorded(stored)
        /\ \A v \in Units : Changed(stored, v)' = Changed(stored, v)
    BY <2>1, ProjectKept DEF Recorded, Changed, Differs, DependencyChanged
  <2> SUFFICES ASSUME NEW u \in Units
               PROVE  /\ hurt'[u] = "no" /\ ~stored[u].tainted => world[u] = stored[u].spec
                      /\ hurt'[u] = "apply" => Changed(stored, u) \/ world[u] = desired[u].spec
                      /\ hurt'[u] = "destroy" => u \in Recorded(stored) \/ world[u] = 0
    BY <2>1, <2>2 DEF HurtInv
  <2>3. CASE u \in upset
    BY <2>1, <2>3 DEF Unsaved
  <2>4. CASE u \notin upset /\ exe[u] \notin {"done", "failed"}
    BY <2>1, <2>4 DEF Unsaved, HurtInv
  <2>5. CASE u \notin upset /\ exe[u] \in {"done", "failed"}
    <3>1. hurt'[u] \in {"any", IF ignore THEN "any" ELSE run} /\ run \in Commands
      BY <2>1, <2>5 DEF Unsaved, Blame, TypeOK
    <3>2. u \in Planned
      BY <2>5 DEF RecordInv
    <3> QED
      BY <3>1, <3>2, PlannedIsChanged DEF Commands
  <2> QED
    BY <2>3, <2>4, <2>5
<1>7. CASE UNCHANGED vars
  <2>1. /\ Recorded(stored)' = Recorded(stored)
        /\ \A v \in Units : Changed(stored, v)' = Changed(stored, v)
    BY <1>7, BaseKept DEF vars, Recorded
  <2> QED
    BY <1>7, <2>1 DEF vars, HurtInv
<1> QED
  BY <1>1, <1>2, <1>3, <1>4, <1>5, <1>6, <1>7 DEF Next, Executes, Forces, Rest

------------------------------------------------------------------------------
(* The order.                                                              *)
LEMMA NextOrder ==
  ASSUME TypeOK, PlanInv, OrderInv, [Next]_vars
  PROVE  OrderInv'
<1>1. ASSUME \A u \in Units : exe'[u] = "waiting" PROVE OrderInv'
  BY <1>1 DEF OrderInv
<1>2. ASSUME NEW u \in Units, MayRun(u), UNCHANGED runData,
             \A v \in Units : v # u => exe'[v] = exe[v]
      PROVE  OrderInv'
  <2>1. desired' = desired /\ op' = op
    BY <1>2 DEF runData
  <2>2. Waiting' \subseteq Waiting
    <3>1. u \in Planned /\ exe[u] \in {"waiting", "begun"}
      BY <1>2 DEF MayRun
    <3> QED
      BY <1>2, <3>1, FewerWait
  <2>3. op[u] # "Destroy" => Waiting \cap desired[u].deps = {}
    BY <1>2 DEF MayRun, Links, Kind
  <2> QED
    BY <1>2, <2>1, <2>2, <2>3 DEF OrderInv
<1>3. ASSUME NEW u \in Units, Executes(u) PROVE OrderInv'
  BY <1>2, <1>3, ExecutionIsLocal
<1>4. ASSUME NEW u \in Units, NEW d \in Units, Forces(u, d) PROVE OrderInv'
  BY <1>2, <1>4, ForcingIsLocal
<1>5. ASSUME NEW u \in Units, Edit(u) PROVE \A v \in Units : exe'[v] = "waiting"
  BY <1>5 DEF Edit, PlanInv, All
<1>6. ASSUME NEW cmd, NEW ignoring, Plan(cmd, ignoring) PROVE \A v \in Units : exe'[v] = "waiting"
  BY <1>6 DEF Plan, PlanInv, All
<1>7. CASE Succeed \/ GiveUp \/ SucceedUnsaved \/ Crash
  <2>1. Reset
    BY <1>7 DEF Succeed, GiveUp, SucceedUnsaved, Crash, Unsaved
  <2> QED
    BY <1>1, <2>1 DEF Reset, All
<1>8. CASE UNCHANGED vars
  BY <1>8 DEF vars, OrderInv, Waiting, Planned
<1> QED
  BY <1>1, <1>3, <1>4, <1>5, <1>6, <1>7, <1>8 DEF Next, Executes, Forces, Rest

------------------------------------------------------------------------------
(* The recorded dependencies.                                              *)

(* In a regular run a record that is not an applied unit's is an old one.  *)
LEMMA OldDeps ==
  ASSUME TypeOK, PlanInv, RecordInv, NEW u \in Units,
         exe[u] \in {"waiting", "begun"} \/ op[u] = "Destroy", exe[u] # "skipped"
  PROVE  \/ own[u].deps = {}
         \/ own[u].deps = stored[u].deps /\ u \in Recorded(stored) /\ ~ignore
            /\ (exe[u] # "done")
<1>1. stored[u].spec = 0 => stored[u] = NoRecord
  BY DEF RecordInv
<1>2. Base[u] = NoRecord \/ (Base[u] = stored[u] /\ u \in Recorded(stored) /\ ~ignore)
  BY <1>1 DEF Base, All, Recorded
<1>3. CASE exe[u] \in {"waiting", "begun"}
  <2>1. own[u].deps = Base[u].deps
    BY <1>3, KeptRecords DEF RecordInv
  <2> QED
    BY <1>2, <1>3, <2>1 DEF NoRecord
<1>4. CASE exe[u] = "done" /\ op[u] = "Destroy"
  <2>1. own[u] = NoRecord
    BY <1>4 DEF RecordInv, CarriedOut
  <2> QED
    BY <2>1 DEF NoRecord
<1>5. CASE exe[u] = "failed" /\ op[u] = "Destroy"
  <2>1. own[u] = Marked(u) \/ own[u] = NoRecord
    BY <1>5 DEF RecordInv, BrokenOff
  <2>2. own[u].deps = Base[u].deps \/ own[u].deps = {}
    <3>1. Marked(u).deps = Base[u].deps /\ NoRecord.deps = {}
      BY MarkedRecords DEF NoRecord
    <3> QED
      BY <2>1, <3>1
  <2> QED
    BY <1>2, <1>5, <2>2 DEF NoRecord
<1> QED
  BY <1>3, <1>4, <1>5 DEF TypeOK, Progress

(* The record of an applied unit.                                          *)
LEMMA NewDeps ==
  ASSUME TypeOK, PlanInv, RecordInv, NEW u \in Units,
         exe[u] \in {"done", "failed"}, op[u] # "Destroy"
  PROVE  /\ own[u].deps = desired[u].deps /\ own[u].spec = desired[u].spec
         /\ u \in Planned /\ run = "apply" /\ own[u].spec # 0
<1>1. own[u].deps = desired[u].deps /\ own[u].spec = desired[u].spec
  BY DEF RecordInv, CarriedOut, BrokenOff, Written
<1>2. u \in Planned
  BY DEF RecordInv
<1> QED
  BY <1>1, <1>2, AppliedIsPresent

(* While a unit waits to be destroyed, nobody who lasts depends on it.     *)
LEMMA DestroyIsLast ==
  ASSUME TypeOK, PlanInv, RecordInv, OrderInv, LoadInv, Regular,
         NEW d \in Units, MayRun(d), op[d] = "Destroy", NEW v \in Units, v # d
  PROVE  d \notin own[v].deps
<1> SUFFICES ASSUME d \in own[v].deps PROVE FALSE
  OBVIOUS
<1>1. run # "none" /\ d \in Planned
  BY DEF MayRun
<1>2. exe[v] # "skipped" /\ ~relinked /\ StateLoadable
  BY DEF LoadInv, Regular
<1>3. run = "apply" => d \notin Present(desired)
  BY DestroyedIsAbsent
<1>4. \A x \in Units : desired[x].deps \subseteq Present(desired)
  BY DEF PlanInv, Loadable
<1>5. CASE exe[v] \in {"done", "failed"} /\ op[v] # "Destroy"
  BY <1>3, <1>4, <1>5, NewDeps
<1>6. CASE exe[v] \in {"waiting", "begun"} \/ op[v] = "Destroy"
  <2>1. /\ own[v].deps = stored[v].deps /\ v \in Recorded(stored) /\ ~ignore
        /\ exe[v] # "done"
    BY <1>2, <1>6, OldDeps
  <2>2. CASE op[v] = "Destroy"
    <3>1. v \in Waiting
      BY <1>2, <2>1, <2>2 DEF Waiting, Planned, TypeOK, Progress
    <3> QED
      BY <2>1, <2>2, <3>1 DEF MayRun, Links, Kind
  <2>3. CASE op[v] # "Destroy"
    <3>1. run # "destroy"
      <4>1. run = "destroy" => op[v] = DestroyOperation(stored, ignore, v)
        BY <2>1 DEF PlanInv, Base
      <4> QED
        BY <2>1, <2>3, <4>1, PlannedByDestroy
    <3>2. run = "apply"
      BY <1>1, <3>1 DEF TypeOK, Commands
    <3>3. v \in Present(desired)
      BY <2>1, <2>3, <3>2, PlannedByApply DEF PlanInv, Base
    <3>4. stored[v].deps \subseteq desired[v].deps
      BY <1>1, <1>2, <2>1, <3>3 DEF LoadInv
    <3> QED
      BY <1>3, <1>4, <2>1, <3>2, <3>4
  <2> QED
    BY <2>2, <2>3
<1> QED
  BY <1>2, <1>5, <1>6 DEF TypeOK, Progress

(* At any moment of a regular run the state could be saved and loaded.     *)
LEMMA OwnLoadable ==
  ASSUME TypeOK, PlanInv, RecordInv, OrderInv, LoadInv, Regular,
         NEW u \in Units, NEW d \in own[u].deps
  PROVE  d \in Units /\ own[d].spec # 0
<1>1. exe[u] # "skipped" /\ StateLoadable /\ d \in Units
  BY DEF LoadInv, Regular, TypeOK, Record
<1>2. exe[d] # "skipped"
  BY <1>1 DEF LoadInv, Regular
<1>3. ~(exe[d] = "done" /\ op[d] = "Destroy")
  BY <1>1 DEF LoadInv
<1>4. CASE exe[d] \in {"done", "failed"} /\ op[d] # "Destroy"
  BY <1>1, <1>4, NewDeps
<1>5. ASSUME exe[d] \in {"waiting", "begun"} PROVE own[d].spec = Base[d].spec
  BY <1>1, <1>5, KeptRecords DEF RecordInv
<1>6. CASE exe[u] \in {"done", "failed"} /\ op[u] # "Destroy"
  <2>1. d \in desired[u].deps /\ run = "apply"
    BY <1>6, NewDeps
  <2>2. d \in Present(desired)
    BY <2>1 DEF PlanInv, Loadable
  <2>3. d \notin Waiting
    BY <1>6, <2>1 DEF OrderInv
  <2>4. CASE exe[d] \in {"waiting", "begun"}
    <3>1. d \notin Planned
      BY <2>3, <2>4 DEF Waiting
    <3>2. d \in Recorded(Base)
      BY <1>1, <2>1, <2>2, <3>1, Unplanned
    <3> QED
      BY <1>1, <1>5, <2>4, <3>2 DEF Recorded
  <2>5. CASE exe[d] = "failed" /\ op[d] = "Destroy"
    BY <1>1, <2>1, <2>2, <2>5, DestroyedIsAbsent
  <2> QED
    BY <1>1, <1>2, <1>3, <1>4, <2>4, <2>5 DEF TypeOK, Progress
<1>7. CASE exe[u] \in {"waiting", "begun"} \/ op[u] = "Destroy"
  <2>1. own[u].deps = stored[u].deps /\ u \in Recorded(stored) /\ ~ignore
    BY <1>1, <1>7, OldDeps
  <2>2. d \in Recorded(stored)
    BY <2>1 DEF StateLoadable, LoadInv, Regular
  <2>3. stored[d].spec # 0 /\ Base = stored
    BY <2>1, <2>2 DEF Recorded, Base
  <2>4. CASE exe[d] \in {"waiting", "begun"}
    BY <1>1, <1>5, <2>3, <2>4
  <2>5. CASE exe[d] = "failed" /\ op[d] = "Destroy"
    <3>1. own[d] = Marked(d)
      BY <1>1, <2>2, <2>3, <2>5 DEF RecordInv, BrokenOff
    <3> QED
      BY <1>1, <2>3, <3>1, MarkedRecords
  <2> QED
    BY <1>1, <1>2, <1>3, <1>4, <2>4, <2>5 DEF TypeOK, Progress
<1> QED
  BY <1>1, <1>6, <1>7 DEF TypeOK, Progress

LEMMA NotItsOwnRecord ==
  ASSUME TypeOK, PlanInv, RecordInv, LoadInv, NEW u \in Units
  PROVE  u \notin own[u].deps
<1>1. u \notin stored[u].deps /\ u \notin desired[u].deps
  BY NotItsOwnDependency DEF LoadInv, PlanInv
<1>2. CASE exe[u] \in {"done", "failed"} /\ op[u] # "Destroy"
  BY <1>1, <1>2, NewDeps
<1>3. CASE exe[u] \in {"waiting", "begun", "skipped"}
  <2>1. own[u].deps = Base[u].deps
    BY <1>3, KeptRecords DEF RecordInv
  <2> QED
    BY <1>1, <2>1 DEF Base, All, NoRecord
<1>4. CASE exe[u] \in {"done", "failed"} /\ op[u] = "Destroy"
  BY <1>1, <1>4, OldDeps
<1> QED
  BY <1>2, <1>3, <1>4 DEF TypeOK, Progress

LEMMA NextLoad ==
  ASSUME TypeOK, PlanInv, RecordInv, OrderInv, LoadInv, [Next]_vars
  PROVE  LoadInv'
<1>1. ASSUME NEW u \in Units, Edit(u) PROVE LoadInv'
  <2>1. /\ UNCHANGED <<exe, op, run, stored, own, relinked, unprepared>>
        /\ run = "none" /\ exe = All("waiting")
    BY <1>1 DEF Edit, PlanInv
  <2> QED
    BY <2>1 DEF LoadInv, StateLoadable, Regular, All, Recorded
<1>2. ASSUME NEW cmd \in Commands, NEW ignoring \in BOOLEAN, Plan(cmd, ignoring) PROVE LoadInv'
  <2>1. /\ UNCHANGED <<exe, desired, stored, unprepared>> /\ exe = All("waiting")
        /\ relinked' = (relinked \/ \E u \in Present(desired) \cap Recorded(stored) :
                                      ~(stored[u].deps \subseteq desired[u].deps))
    BY <1>2 DEF Plan, PlanInv
  <2>2. Present(desired)' = Present(desired) /\ Recorded(stored)' = Recorded(stored)
    BY <2>1 DEF Present, Recorded
  <2>3. Regular' => Regular
    BY <2>1 DEF Regular
  <2> QED
    BY <2>1, <2>2, <2>3 DEF LoadInv, StateLoadable, All
<1>3. ASSUME NEW u \in Units, Executes(u) PROVE LoadInv'
  <2>1. /\ UNCHANGED <<desired, stored, run, op, relinked, ignore>>
        /\ Present(desired)' = Present(desired) /\ Recorded(stored)' = Recorded(stored)
        /\ MayRun(u) /\ exe[u] \in {"waiting", "begun"} /\ u \in Planned
    BY <1>3, RunKeeps, ExecutionIsLocal
  <2>2. ASSUME NEW v \in Units, v # u PROVE exe'[v] = exe[v] /\ own'[v] = own[v]
    BY <1>3, <2>2, ExecutionIsLocal
  <2>3. (unprepared => unprepared') /\ (exe'[u] = "skipped" => unprepared')
    BY <1>3, ExecutionResult DEF TypeOK
  <2>4. Regular' => Regular /\ exe'[u] # "skipped"
    BY <2>1, <2>3 DEF Regular
  <2>5. ASSUME Regular', NEW d \in Units, NEW v \in Units, exe'[d] = "done", op[d] = "Destroy"
        PROVE  d \notin own'[v].deps
    <3>1. CASE d = u
      <4>1. own'[d] = NoRecord
        BY <1>3, <2>5, <3>1, ExecutionResult
      <4>2. v # u => d \notin own[v].deps
        BY <2>1, <2>4, <2>5, <3>1, DestroyIsLast
      <4> QED
        BY <2>2, <3>1, <4>1, <4>2 DEF NoRecord
    <3>2. CASE d # u
      <4>1. exe[d] = "done" /\ d \notin own[u].deps /\ d \notin own[v].deps
        BY <2>2, <2>4, <2>5, <3>2 DEF LoadInv
      <4>2. CASE v # u
        BY <2>2, <4>1, <4>2
      <4>3. CASE v = u /\ op[u] = "Destroy"
        <5>1. own[u] \in Record
          BY DEF TypeOK
        <5>2. own'[u] = own[u] \/ own'[u] = NoRecord \/ own'[u] = [own[u] EXCEPT !.tainted = TRUE]
          BY <1>3, <4>3, ExecutionResult DEF Tainted
        <5>3. own'[u].deps = own[u].deps \/ own'[u].deps = {}
          BY <5>1, <5>2 DEF Record, NoRecord
        <5> QED
          BY <4>1, <4>3, <5>3
      <4>4. CASE v = u /\ op[u] # "Destroy"
        <5>1. own'[u] = NewRecord(u, FALSE) \/ own'[u] = NewRecord(u, TRUE)
          BY <1>3, <2>4, <2>5, <4>4, ExecutionResult DEF Tainted
        <5>2. own'[u].deps = desired[u].deps
          BY <5>1 DEF NewRecord
        <5>3. d \notin Present(desired)
          BY <2>1, <2>5, <4>4, AppliedIsPresent, DestroyedIsAbsent
        <5> QED
          BY <4>4, <5>2, <5>3 DEF PlanInv, Loadable
      <4> QED
        BY <4>2, <4>3, <4>4
    <3> QED
      BY <3>1, <3>2
  <2>6. \A v \in Units : exe'[v] = "skipped" => unprepared'
    BY <2>2, <2>3 DEF LoadInv
  <2> QED
    BY <2>1, <2>4, <2>5, <2>6 DEF LoadInv, StateLoadable
<1>4. ASSUME NEW u \in Units, NEW d \in Units, Forces(u, d) PROVE LoadInv'
  <2>1. /\ UNCHANGED <<desired, stored, run, op, relinked, ignore>>
        /\ Present(desired)' = Present(desired) /\ Recorded(stored)' = Recorded(stored)
    BY <1>4, RunKeeps, ForcingIsLocal
  <2>2. \A v \in Units : v # u => exe'[v] = exe[v]
    BY <1>4, ForcingIsLocal
  <2>3. \A v \in Units : exe'[v] = "skipped" => unprepared'
    BY <1>4, <2>2, ForcingResult DEF LoadInv
  <2>4. ASSUME Regular'
        PROVE  Regular /\ own' = own /\ exe'[u] = "begun"
    <3>1. exe'[u] = "begun" /\ own'[d] = own[d] /\ unprepared' = unprepared
      BY <1>4, <2>4, ForcingResult DEF Regular
    <3>2. \A v \in Units : own'[v] = own[v]
      BY <1>4, <3>1, ForcingIsLocal
    <3>3. own' = own
      BY <1>4, <3>2, ForcingIsLocal DEF TypeOK
    <3> QED
      BY <2>1, <2>4, <3>1, <3>3 DEF Regular
  <2>5. Regular' => \A x, v \in Units :
          exe'[x] = "done" /\ op[x] = "Destroy" => x \notin own'[v].deps
    BY <2>2, <2>4 DEF LoadInv
  <2> QED
    BY <2>1, <2>3, <2>4, <2>5 DEF LoadInv, StateLoadable
<1>5. CASE Succeed \/ GiveUp
  <2>1. /\ exe' = All("waiting") /\ own' = Loaded(own) /\ stored' = Loaded(own) /\ run' = "none"
        /\ relinked' = relinked /\ unprepared' = unprepared
    BY <1>5 DEF Succeed, GiveUp, SaveAll, Reset
  <2>2. \A u \in Units : stored'[u].deps = own[u].deps /\ own'[u].deps = own[u].deps
                         /\ stored'[u].spec = own[u].spec
    BY <2>1, LoadedRecords
  <2>3. Regular' => StateLoadable'
    <3>1. Regular' => Regular
      BY <2>1 DEF Regular
    <3> QED
      BY <2>2, <3>1, OwnLoadable DEF StateLoadable, Recorded
  <2>4. \A u \in Units : u \notin stored'[u].deps
    BY <2>2, NotItsOwnRecord
  <2> QED
    BY <2>1, <2>3, <2>4 DEF LoadInv, All
<1>6. CASE SucceedUnsaved \/ Crash
  <2>1. /\ exe' = All("waiting") /\ stored' = stored /\ run' = "none"
        /\ relinked' = relinked /\ unprepared' = unprepared
    BY <1>6 DEF SucceedUnsaved, Crash, Unsaved, Reset
  <2>2. (Regular' => Regular) /\ StateLoadable' = StateLoadable
    BY <2>1 DEF Regular, StateLoadable, Recorded
  <2> QED
    BY <2>1, <2>2 DEF LoadInv, All
<1>7. CASE UNCHANGED vars
  <2>1. Regular' = Regular /\ StateLoadable' = StateLoadable
        /\ Present(desired)' = Present(desired) /\ Recorded(stored)' = Recorded(stored)
    BY <1>7 DEF vars, Regular, StateLoadable, Recorded, Present
  <2> QED
    BY <1>7, <2>1 DEF vars, LoadInv
<1> QED
  BY <1>1, <1>2, <1>3, <1>4, <1>5, <1>6, <1>7 DEF Next, Executes, Forces, Rest

------------------------------------------------------------------------------
(* Who is left behind.                                                     *)

(* A unit that is applied because it or a dependency differs has all its   *)
(* dependents planned, and none of them is done before it.                 *)
LEMMA DependentsFollow ==
  ASSUME TypeOK, PlanInv, RecordInv, OrderInv,
         NEW v \in Units, MayRun(v), op[v] # "Destroy", ~Base[v].tainted,
         NEW x \in Dependents(v)
  PROVE  x \in Planned /\ op[x] # "Destroy" /\ exe[x] # "done" /\ x # v
<1> DEFINE Dirty(y) == Differs(Base, y) \/ DependencyChanged(Base, y)
           S == {y \in Reach(x) : Dirty(y) => y \notin Waiting}
<1>1. x \in Units /\ v \in Reach(x) /\ v \in Planned /\ v \in Waiting
  BY DEF Dependents, MayRun, Waiting
<1>2. Loadable(desired)
  BY DEF PlanInv
<1>3. run = "apply" /\ v \in Present(desired) /\ (Changed(Base, v) \/ v \notin Recorded(Base))
  BY <1>1, AppliedIsPresent
<1>4. Dirty(v)
  BY <1>3 DEF Changed, Differs, Present, Recorded
<1>5. ASSUME NEW y \in Units, NEW z \in Reach(y), Dirty(z)
      PROVE  Dirty(y) /\ y \in Planned /\ op[y] # "Destroy"
  <2>1. z \in Units /\ Reach(z) \subseteq Reach(y) /\ y \in Present(desired)
    BY <1>2, <1>5, ReachHoldsDeps, ReachIsTransitive, ReachIsPresent
  <2>2. DependencyChanged(Base, y)
    BY <1>5, <2>1 DEF DependencyChanged
  <2>3. Changed(Base, y)
    BY <2>2 DEF Changed
  <2>4. op[y] = ApplyOperation(Base, y)
    BY <1>3 DEF PlanInv
  <2>5. op[y] \in Operations \ {"Destroy", "NotChanged", "None"}
    BY <2>1, <2>3, <2>4, PlannedByApply
  <2> QED
    BY <2>2, <2>5 DEF Planned, Operations
<1>6. x \in Planned /\ op[x] # "Destroy" /\ x # v
  BY <1>1, <1>2, <1>4, <1>5, NotItsOwnDependency
<1>7. ASSUME exe[x] = "done" PROVE FALSE
  <2>1. Reach(x) \in SUBSET Units /\ S \in SUBSET Units
    BY <1>1, ReachHoldsDeps
  <2>2. desired[x].deps \subseteq S
    <3>1. Waiting \cap desired[x].deps = {}
      BY <1>1, <1>6, <1>7 DEF OrderInv
    <3> QED
      BY <1>1, <3>1, ReachHoldsDeps
  <2>3. ASSUME NEW y \in S, NEW z \in desired[y].deps PROVE z \in S
    <3>1. y \in Units /\ z \in Reach(x) /\ z \in Reach(y)
      BY <1>1, <2>1, <2>3, ReachHoldsDeps
    <3>2. ASSUME Dirty(z) PROVE z \notin Waiting
      <4>1. Dirty(y) /\ y \in Planned /\ op[y] # "Destroy"
        BY <1>5, <3>1, <3>2
      <4>2. y \notin Waiting
        BY <2>3, <4>1
      <4>3. exe[y] # "waiting"
        BY <4>1, <4>2 DEF Waiting
      <4> QED
        BY <2>3, <3>1, <4>1, <4>3 DEF OrderInv
    <3> QED
      BY <3>1, <3>2
  <2>4. Reach(x) \subseteq S
    BY <1>1, <2>1, <2>2, <2>3, ReachIsLeast
  <2> QED
    BY <1>1, <1>4, <2>4
<1> QED
  BY <1>6, <1>7

(* A step that ends no execution keeps who is left behind.                 *)
LEMMA StillBehind ==
  ASSUME BehindInv, NEW u \in Units, exe[u] \in {"waiting", "begun"},
         \A v \in Units : v # u => exe'[v] = exe[v], behind \in SUBSET Units,
         NEW x \in behind, x = u => exe'[u] # "done", NEW later,
         x \in excused => x \in later
  PROVE  \/ x \in later
         \/ /\ x \in Planned /\ exe'[x] # "done"
            /\ \E w \in Units : exe'[w] = "done" /\ op[w] # "Destroy" /\ x \in Dependents(w)
<1> SUFFICES ASSUME x \notin excused
             PROVE  /\ x \in Planned /\ exe'[x] # "done"
                    /\ \E w \in Units : exe'[w] = "done" /\ op[w] # "Destroy"
                                        /\ x \in Dependents(w)
  OBVIOUS
<1>1. /\ x \in Planned /\ exe[x] # "done"
      /\ \E w \in Units : exe[w] = "done" /\ op[w] # "Destroy" /\ x \in Dependents(w)
  BY DEF BehindInv
<1>2. PICK w \in Units : exe[w] = "done" /\ op[w] # "Destroy" /\ x \in Dependents(w)
  BY <1>1
<1>3. w # u
  BY <1>2
<1>4. exe'[w] = "done"
  BY <1>2, <1>3
<1>5. x \in Planned /\ exe'[x] # "done"
  BY <1>1
<1> QED
  BY <1>2, <1>4, <1>5

(* When every execution is over and none was skipped, all are done.        *)
LEMMA AllDone ==
  ASSUME TypeOK, AllOver, ~Some("skipped")
  PROVE  \A x \in Planned : exe[x] = "done"
<1>1. \A x \in Planned : exe[x] \in Progress
  BY DEF Planned, TypeOK
<1> QED
  BY <1>1 DEF AllOver, Some, Progress

LEMMA NextBehind ==
  ASSUME TypeOK, PlanInv, RecordInv, OrderInv, BehindInv, [Next]_vars
  PROVE  BehindInv'
<1>1. run = "none" => behind \subseteq excused
  BY DEF PlanInv, BehindInv, All
<1>2. ASSUME behind' \subseteq excused' PROVE BehindInv'
  BY <1>2 DEF BehindInv
<1>3. ASSUME NEW u \in Units, Edit(u) PROVE BehindInv'
  BY <1>1, <1>2, <1>3 DEF Edit
<1>4. ASSUME NEW cmd, NEW ignoring, Plan(cmd, ignoring) PROVE BehindInv'
  BY <1>1, <1>2, <1>4 DEF Plan
<1>5. ASSUME NEW u \in Units, Executes(u) PROVE BehindInv'
  <2>1. /\ Planned' = Planned /\ op' = op /\ behind \in SUBSET Units
        /\ \A v \in Units : Dependents(v)' = Dependents(v) /\ Dependents(v) \in SUBSET Units
        /\ MayRun(u) /\ u \in Planned /\ exe[u] \in {"waiting", "begun"}
    BY <1>5, RunKeeps, ExecutionIsLocal DEF TypeOK, Dependents
  <2>2. \A v \in Units : v # u => exe'[v] = exe[v]
    BY <1>5, ExecutionIsLocal
  <2> SUFFICES ASSUME NEW x \in behind'
               PROVE  \/ x \in excused'
                      \/ /\ x \in Planned /\ exe'[x] # "done"
                         /\ \E w \in Units : exe'[w] = "done" /\ op[w] # "Destroy"
                                             /\ x \in Dependents(w)
    BY <2>1 DEF BehindInv
  <2>3. ASSUME x \in behind, x = u => exe'[u] # "done",
               x \in excused => x \in excused'
        PROVE  \/ x \in excused'
               \/ /\ x \in Planned /\ exe'[x] # "done"
                  /\ \E w \in Units : exe'[w] = "done" /\ op[w] # "Destroy"
                                      /\ x \in Dependents(w)
    BY <2>1, <2>2, <2>3, StillBehind
  <2>4. CASE op[u] # "Destroy" /\ exe'[u] = "done"
    <3>1. behind' = (behind \ {u}) \cup Dependents(u) /\ excused' = Excuse(u)
      BY <1>5, <2>4, ExecutionResult
    <3>2. CASE x \in behind /\ x # u
      BY <2>3, <3>1, <3>2 DEF Excuse
    <3>3. CASE x \in Dependents(u) /\ stored[u].tainted /\ ~ignore
      BY <3>1, <3>3 DEF Excuse
    <3>4. CASE x \in Dependents(u) /\ ~(stored[u].tainted /\ ~ignore)
      <4>1. ~Base[u].tainted
        BY <3>4 DEF Base, All, NoRecord
      <4>2. x \in Planned /\ exe[x] # "done" /\ x # u /\ x \in Units
        BY <2>1, <2>4, <3>4, <4>1, DependentsFollow
      <4>3. exe'[x] # "done"
        BY <2>2, <4>2
      <4> QED
        BY <2>4, <3>4, <4>2, <4>3
    <3> QED
      BY <3>1, <3>2, <3>3, <3>4
  <2>5. CASE op[u] = "Destroy" /\ exe'[u] = "done"
    <3>1. behind' = behind \ {u} /\ excused' = excused \ {u}
      BY <1>5, <2>5, ExecutionResult
    <3> QED
      BY <2>3, <3>1
  <2>6. CASE exe'[u] # "done"
    <3>1. behind' = behind /\ excused' = excused
      BY <1>5, <2>6, ExecutionResult
    <3> QED
      BY <2>3, <2>6, <3>1
  <2> QED
    BY <2>4, <2>5, <2>6
<1>6. ASSUME NEW u \in Units, NEW d \in Units, Forces(u, d) PROVE BehindInv'
  <2>1. /\ Planned' = Planned /\ op' = op /\ behind \in SUBSET Units
        /\ \A v \in Units : Dependents(v)' = Dependents(v) /\ Dependents(v) \in SUBSET Units
        /\ exe[u] \in {"waiting", "begun"} /\ exe'[u] # "done"
        /\ \A v \in Units : v # u => exe'[v] = exe[v]
    BY <1>6, RunKeeps, ForcingIsLocal, ForcingResult DEF TypeOK, Dependents
  <2> SUFFICES ASSUME NEW x \in behind'
               PROVE  \/ x \in excused'
                      \/ /\ x \in Planned /\ exe'[x] # "done"
                         /\ \E w \in Units : exe'[w] = "done" /\ op[w] # "Destroy"
                                             /\ x \in Dependents(w)
    BY <2>1 DEF BehindInv
  <2>2. x \in excused' \/ (x \in behind /\ (x \in excused => x \in excused'))
    BY <1>6, ForcingResult
  <2> QED
    BY <2>1, <2>2, StillBehind
<1>7. CASE Succeed \/ GiveUp
  <2>1. behind' = behind /\ excused' = excused \cup {u \in Planned : exe[u] # "done"}
    BY <1>7 DEF Succeed, GiveUp, SaveAll
  <2> QED
    BY <1>2, <2>1 DEF BehindInv
<1>8. CASE SucceedUnsaved
  <2>1. behind' = behind /\ excused' = excused
    BY <1>8 DEF SucceedUnsaved, Unsaved
  <2>2. \A x \in Planned : exe[x] = "done"
    BY <1>8, AllDone DEF SucceedUnsaved
  <2> QED
    BY <1>2, <2>1, <2>2 DEF BehindInv
<1>9. CASE Crash
  <2>1. /\ behind' = behind
        /\ excused' = excused \cup
             UNION {Dependents(u) : u \in {v \in Units : exe[v] \in {"done", "failed"}}}
    BY <1>9 DEF Crash, Unsaved
  <2>2. ASSUME NEW x \in behind PROVE x \in excused'
    BY <2>1, <2>2 DEF BehindInv
  <2> QED
    BY <1>2, <2>1, <2>2
<1>10. CASE UNCHANGED vars
  <2>1. Planned' = Planned /\ \A v \in Units : Dependents(v)' = Dependents(v)
    BY <1>10, ProjectKept DEF vars, Planned
  <2> QED
    BY <1>10, <2>1 DEF vars, BehindInv
<1> QED
  BY <1>3, <1>4, <1>5, <1>6, <1>7, <1>8, <1>9, <1>10 DEF Next, Executes, Forces, Rest

------------------------------------------------------------------------------
(* What a successful command leaves.                                       *)

(* What a planned unit's commands have left, when all were carried out.    *)
LEMMA DoneIsTarget ==
  ASSUME TypeOK, PlanInv, RecordInv, NEW u \in Planned, exe[u] = "done", u \notin upset
  PROVE  LET target == IF run = "apply" THEN desired[u].spec ELSE 0
         IN  world[u] = target /\ own[u].spec = target /\ ~own[u].tainted
<1>1. u \in Units
  BY DEF Planned
<1>2. CarriedOut(u)
  BY <1>1 DEF RecordInv
<1>3. CASE op[u] = "Destroy"
  <2>1. run = "apply" => desired[u].spec = 0
    BY <1>1, <1>3, DestroyedIsAbsent DEF Present
  <2> QED
    BY <1>2, <1>3, <2>1 DEF CarriedOut, NoRecord
<1>4. CASE op[u] # "Destroy"
  BY <1>2, <1>4, AppliedIsPresent DEF CarriedOut, Written
<1> QED
  BY <1>3, <1>4

(* A unit that the plan leaves out is already what the command asks for.   *)
LEMMA UnplannedIsTarget ==
  ASSUME TypeOK, PlanInv, RecordInv, HurtInv, run # "none",
         NEW u \in Units, u \notin Planned, u \notin upset, hurt[u] \in {"no", run}
  PROVE  LET target == IF run = "apply" THEN desired[u].spec ELSE 0
         IN  /\ own[u] = stored[u]
             /\ world[u] = target /\ stored[u].spec = target /\ ~stored[u].tainted
<1>1. exe[u] = "waiting" /\ run \in Commands
  BY DEF RecordInv, TypeOK
<1>2. own[u] = stored[u]
  BY <1>1, Untouched DEF Commands
<1>3. CASE Base[u] = NoRecord /\ (run = "apply" => u \notin Present(desired))
  <2>1. own[u] = NoRecord /\ stored[u] = NoRecord
    BY <1>1, <1>2, <1>3 DEF RecordInv, Kept
  <2>2. ~Changed(stored, u) \/ run # "apply"
    BY <1>3, <2>1, AbsentIsNotChanged DEF PlanInv
  <2>3. stored[u].spec = 0 /\ ~stored[u].tainted /\ u \notin Recorded(stored)
    BY <2>1 DEF NoRecord, Recorded
  <2>4. run = "apply" => desired[u].spec = 0
    BY <1>3 DEF Present
  <2>5. world[u] = 0
    BY <1>1, <2>2, <2>3, <2>4 DEF HurtInv, Commands
  <2> QED
    BY <1>2, <2>3, <2>4, <2>5
<1>4. CASE run = "apply" /\ ~Changed(stored, u)
  <2>1. stored[u].spec = desired[u].spec /\ ~stored[u].tainted
    BY <1>4 DEF Changed, Differs
  <2>2. world[u] = desired[u].spec
    BY <1>1, <1>4, <2>1 DEF HurtInv
  <2> QED
    BY <1>2, <1>4, <2>1, <2>2
<1> QED
  BY <1>1, <1>3, <1>4, Unplanned DEF Commands

LEMMA SuccessConverges ==
  ASSUME TypeOK, PlanInv, RecordInv, HurtInv, Succeed
  PROVE  Converged'
<1>1. /\ SaveAll /\ AllOver /\ run # "none" /\ world' = world /\ desired' = desired
      /\ stored' = Loaded(own) /\ done' = IF Some("skipped") THEN "none" ELSE run
  BY DEF Succeed, SaveAll, AllOver
<1> SUFFICES ASSUME NEW u \in Units, done' = run, ~Some("skipped"), hurt'[u] \in {"no", run}
             PROVE  LET target == IF run = "apply" THEN desired[u].spec ELSE 0
                    IN  world[u] = target /\ own[u].spec = target /\ ~own[u].tainted
  BY <1>1, LoadedRecords DEF Converged, Target
<1>2. u \notin upset
  BY <1>1 DEF SaveAll, TypeOK, Commands
<1>3. CASE u \in Planned
  BY <1>1, <1>2, <1>3, AllDone, DoneIsTarget
<1>4. CASE u \notin Planned
  <2>1. exe[u] = "waiting"
    BY <1>4 DEF RecordInv
  <2>2. hurt'[u] = hurt[u]
    BY <1>1, <1>2, <1>4, <2>1 DEF SaveAll, Settled, Forgotten
  <2> QED
    BY <1>1, <1>2, <1>4, <2>2, UnplannedIsTarget
<1> QED
  BY <1>3, <1>4

(* The same when the state could not be written, but for the records.      *)
LEMMA UnsavedConverges ==
  ASSUME TypeOK, PlanInv, RecordInv, HurtInv, SucceedUnsaved
  PROVE  Converged'
<1>1. /\ AllOver /\ run = "apply" /\ ~Some("skipped") /\ Unsaved /\ done' = "apply"
      /\ world' = world /\ desired' = desired /\ stored' = stored
  BY DEF SucceedUnsaved, Unsaved
<1> SUFFICES ASSUME NEW u \in Units, hurt'[u] \in {"no", "apply"}
             PROVE  /\ world[u] = desired[u].spec
                    /\ hurt'[u] = "no" => stored[u].spec = desired[u].spec /\ ~stored[u].tainted
  BY <1>1 DEF Converged, Target
<1>2. u \notin upset
  BY <1>1 DEF Unsaved
<1>3. CASE u \in Planned
  <2>1. exe[u] = "done"
    BY <1>1, <1>3, AllDone
  <2>2. hurt'[u] # "no"
    BY <1>1, <1>2, <2>1 DEF Unsaved, Blame
  <2> QED
    BY <1>1, <1>2, <1>3, <2>1, <2>2, DoneIsTarget
<1>4. CASE u \notin Planned
  <2>1. exe[u] = "waiting"
    BY <1>4 DEF RecordInv
  <2>2. hurt'[u] = hurt[u]
    BY <1>1, <1>2, <2>1 DEF Unsaved
  <2> QED
    BY <1>1, <1>2, <1>4, <2>2, UnplannedIsTarget
<1> QED
  BY <1>3, <1>4

LEMMA NextConverged ==
  ASSUME TypeOK, PlanInv, RecordInv, HurtInv, Converged, [Next]_vars
  PROVE  Converged'
<1>1. ASSUME done' = "none" PROVE Converged'
  BY <1>1 DEF Converged
<1>2. ASSUME NEW u \in Units, Edit(u) PROVE done' = "none"
  BY <1>2 DEF Edit
<1>3. ASSUME NEW cmd, NEW ignoring, Plan(cmd, ignoring) PROVE done' = "none"
  BY <1>3 DEF Plan
<1>4. ASSUME run # "none", UNCHANGED runData PROVE done' = "none"
  BY <1>4 DEF PlanInv, runData
<1>5. ASSUME NEW u \in Units, Executes(u) PROVE done' = "none"
  BY <1>4, <1>5, ExecutionIsLocal
<1>6. ASSUME NEW u \in Units, NEW d \in Units, Forces(u, d) PROVE done' = "none"
  BY <1>4, <1>6, ForcingIsLocal
<1>7. CASE Succeed
  BY <1>7, SuccessConverges
<1>8. CASE SucceedUnsaved
  BY <1>8, UnsavedConverges
<1>9. CASE GiveUp \/ Crash
  BY <1>1, <1>9 DEF GiveUp, Crash
<1>10. CASE UNCHANGED vars
  BY <1>10 DEF vars, Converged, Target
<1> QED
  BY <1>1, <1>2, <1>3, <1>5, <1>6, <1>7, <1>8, <1>9, <1>10 DEF Next, Executes, Forces, Rest

------------------------------------------------------------------------------
(* The theorems.                                                           *)
LEMMA InitInv ==
  ASSUME Init
  PROVE  IInv
<1>1. project \in Project /\ project.mayWrite \in [Units -> SUBSET Config]
      /\ project.edits \in Nat /\ project.runs \in Nat
  BY ProjectsAssumption DEF Init, Project
<1>2. desired \in [Units -> Config]
  <2>1. \A u \in Units : desired[u] \in Config
    BY <1>1, ConfigTypes DEF Init
  <2> QED
    BY <2>1 DEF Init
<1>3. TypeOK
  <2>1. All(NoRecord) \in [Units -> Record] /\ All(0) \in [Units -> Nat]
        /\ All("None") \in [Units -> Operations]
        /\ All("waiting") \in [Units -> Progress]
        /\ All("no") \in [Units -> Commands \cup {"no", "any"}]
    BY ConfigTypes DEF All, Operations, Progress
  <2>2. edits \in 0..project.edits /\ runs \in 0..project.runs
    BY <1>1 DEF Init
  <2>3. \A u \in Units : desired[u] \in project.mayWrite[u] \cup {Nothing}
    BY DEF Init
  <2> QED
    BY <1>2, <2>1, <2>2, <2>3 DEF Init, TypeOK
<1>4. PlanInv
  BY DEF Init, PlanInv
<1>5. RecordInv /\ HurtInv /\ OrderInv /\ BehindInv /\ Converged
  BY DEF Init, RecordInv, HurtInv, OrderInv, BehindInv, Converged, All, Base, NoRecord, Recorded, Kept
<1>6. LoadInv
  <2>1. \A u \in Units : stored[u].deps = {} /\ own[u].deps = {} /\ exe[u] = "waiting"
    BY DEF Init, All, NoRecord
  <2>2. run = "none"
    BY DEF Init
  <2> QED
    BY <2>1, <2>2 DEF LoadInv, StateLoadable
<1> QED
  BY <1>3, <1>4, <1>5, <1>6 DEF IInv

LEMMA NextInv ==
  ASSUME IInv, [Next]_vars
  PROVE  IInv'
BY NextTypes, NextPlan, NextRecord, NextHurt, NextOrder, NextLoad, NextBehind, NextConverged
   DEF IInv

LEMMA InvHolds == Spec => []IInv
BY InitInv, NextInv, PTL DEF Spec

(* Every state of every history of edits and runs is well typed.           *)
THEOREM HistoriesTyped == Spec => []TypeOK
<1>1. IInv => TypeOK
  BY DEF IInv
<1> QED
  BY <1>1, InvHolds, PTL

(* A command that succeeded has made the infrastructure and the stored     *)
(* state what it was asked for, whatever became of the runs before it; a   *)
(* unit that an unsaved run changed is made good by the same command       *)
(* (buildPlan, commands.go:292, CheckUnitChanges and SaveState, state.go). *)
THEOREM SuccessIsConvergence == Spec => []Converged
<1>1. IInv => Converged
  BY DEF IInv
<1> QED
  BY <1>1, InvHolds, PTL

(* Between the runs an untainted record of a unit that no unsaved run has  *)
(* changed tells what is deployed (SaveState, cluster-state.md:21).        *)
THEOREM RecordsTellTheWorld == Spec => []RecordsMatch
<1>1. IInv => RecordsMatch
  BY DEF IInv, PlanInv, HurtInv, RecordsMatch, All
<1> QED
  BY <1>1, InvHolds, PTL

(* After a successful apply, who was applied before one of his             *)
(* dependencies was passed over by a run that did not come to its end      *)
(* (checkUnitChangesRecursive, state.go:284).                              *)
THEOREM ChangesReachDependents == Spec => []NotLeftBehind
<1>1. IInv => NotLeftBehind
  BY DEF IInv, PlanInv, BehindInv, NotLeftBehind, All
<1> QED
  BY <1>1, InvHolds, PTL

(* While no unit drops a recorded dependency and every preparation         *)
(* succeeds, what is saved can be loaded (LoadState, InitUnitPtr).         *)
THEOREM SavedCanBeLoaded == Spec => []StateStaysLoadable
<1>1. IInv => StateStaysLoadable
  BY DEF IInv, LoadInv, StateStaysLoadable
<1> QED
  BY <1>1, InvHolds, PTL

(* Under the same conditions a unit is destroyed only when no record names *)
(* it as a dependency any more (MayRun: the graph's order of destroys).    *)
THEOREM DestroysComeLast == Spec => DestroysFollow
<1>1. ASSUME IInv, IInv', [Next]_vars, NEW u \in Units, NEW v \in Units,
             Regular, op[u] = "Destroy", exe[u] # "done", exe'[u] = "done"
      PROVE  u \notin own[v].deps
  <2>1. TypeOK /\ PlanInv /\ RecordInv /\ OrderInv /\ LoadInv
    BY <1>1 DEF IInv
  <2>2. MayRun(u)
    <3>1. ASSUME NEW w \in Units, Executes(w) PROVE MayRun(u)
      <4>1. w = u
        BY <1>1, <2>1, <3>1, ExecutionIsLocal
      <4> QED
        BY <2>1, <3>1, <4>1, ExecutionIsLocal
    <3>2. ASSUME NEW w \in Units, Edit(w) PROVE FALSE
      BY <1>1, <3>2 DEF Edit
    <3>3. ASSUME NEW cmd, NEW ignoring, Plan(cmd, ignoring) PROVE FALSE
      BY <1>1, <3>3 DEF Plan
    <3>4. ASSUME NEW w \in Units, NEW d \in Units, Forces(w, d) PROVE FALSE
      <4>1. w = u
        BY <1>1, <2>1, <3>4, ForcingIsLocal
      <4> QED
        BY <1>1, <2>1, <3>4, <4>1, ForcingResult
    <3>5. ~(Succeed \/ GiveUp \/ SucceedUnsaved \/ Crash)
      <4>1. ~Reset
        BY <1>1 DEF Reset, All
      <4> QED
        BY <4>1 DEF Succeed, GiveUp, SucceedUnsaved, Crash, Unsaved
    <3>6. ~UNCHANGED vars
      BY <1>1 DEF vars
    <3> QED
      BY <1>1, <3>1, <3>2, <3>3, <3>4, <3>5, <3>6 DEF Next, Executes, Forces, Rest
  <2>3. CASE v = u
    BY <2>1, <2>3, NotItsOwnRecord
  <2>4. CASE v # u
    BY <1>1, <2>1, <2>2, <2>4, DestroyIsLast
  <2> QED
    BY <2>3, <2>4
<1>2. ASSUME IInv, IInv', [Next]_vars
      PROVE  [\A u, v \in Units :
                Regular /\ op[u] = "Destroy" /\ exe[u] # "done" /\ exe'[u] = "done"
                  => u \notin own[v].deps]_vars
  BY <1>1, <1>2
<1> QED
  BY <1>2, InvHolds, PTL DEF Spec, DestroysFollow

====
