--------------------------- MODULE ShellUnitProofs ---------------------------
(***************************************************************************)
(* Proofs about ShellUnit: whatever the plan, the failures and the         *)
(* signals, the mutex of a unit that was made only once excludes all other *)
(* routines, and a unit that is guarded by it succeeds once.               *)
(***************************************************************************)
EXTENDS ShellUnit, TLAPS

(* A mutex that has been read was made; lockedMux is one of those made.    *)
MadeInv ==
  \A u \in Units :
    /\ muxOf[u] = None <=> made[u] = {}
    /\ muxOf[u] # None => muxOf[u] \in made[u]
    /\ \A r \in Units :
         /\ frame[r][u].at \in LockedPlaces \cup {"lock"} => frame[r][u].mutex \in made[u]
         /\ frame[r][u].at \in LockedPlaces \ {"defer"} => frame[r][u].undo \in made[u]

(* Who waits for the call of a dependency is at forceApplyDependencies.    *)
CallFits(f) == f.calls # None => f.at = "forcing" /\ f.calls \in f.todo
CallInv == \A r, u \in Units : CallFits(frame[r][u])

(* Who is between Lock and Unlock holds the only mutex of the unit.        *)
HeldInv ==
  \A u \in Units : ~Raced(u) =>
    \A r \in Units :
      frame[r][u].at \in LockedPlaces => <<u, frame[r][u].mutex>> \in locked

(* What is being done for the first time has not been done.                *)
Working == {"forcing", "scan", "run"}
FirstInv ==
  \A r, u \in Units :
    (frame[r][u].at \in Working /\ ~Raced(u)) =>
      <<u, Method(r, u)>> \notin done

------------------------------------------------------------------------------
(* Types.                                                                  *)
LEMMA ExecTypes ==
  ASSUME ExecTypeOK, NEW c \in Callers, ExecStep(c) \/ Signal
  PROVE  ExecTypeOK'
<1> USE MaxSignalsAssumption
    DEF ExecTypeOK, Command, Steps, Traps, Children, Fates
<1>1. CASE Refuse(c) \/ Check(c) \/ StartSigTrap(c) \/ Unregister(c) \/ Close(c)
  BY <1>1 DEF Refuse, Check, StartSigTrap, Unregister, Close
<1>2. CASE Start(c) \/ Exit(c) \/ StopTrap(c)
  BY <1>2 DEF Start, Exit, StopTrap
<1>3. CASE TakeSignal(c) \/ Forward(c)
  BY <1>3 DEF TakeSignal, Forward
<1>4. CASE Signal
  <2>1. \A d \in Callers : [cmd[d] EXCEPT !.buffered = TRUE] \in Command
    OBVIOUS
  <2>2. cmd' \in [Callers -> Command]
    BY <1>4, <2>1 DEF Signal
  <2> QED
    BY <1>4, <2>2 DEF Signal
<1> QED
  BY <1>1, <1>2, <1>3, <1>4 DEF ExecStep, RunStep, TrapStep

LEMMA CallTypes ==
  ASSUME ExecTypeOK, NEW c \in Callers, Call(c)
  PROVE  cmd' \in [Callers -> Command]
BY DEF ExecTypeOK, Call, Command, Steps, Traps, Children, NoCommand

(* The frames after a call has returned.                                   *)
LEMMA ReturnTypes ==
  ASSUME TypeOK, NEW r \in Units, NEW u \in Units, NEW ok \in BOOLEAN, Return(r, u, ok)
  PROVE  /\ frame' \in [Units -> [Units -> Frame]]
         /\ \A s \in Units \ {r} : frame'[s] = frame[s]
         /\ \A v \in Units : frame'[r][v] = IF v = u THEN Left(r, u, ok)
                                         ELSE IF frame[r][v].calls = u
                                         THEN Resumed(frame[r][v], u, ok)
                                         ELSE frame[r][v]
         /\ Left(r, u, ok).at \notin LockedPlaces \cup {"lock"}
         /\ Left(r, u, ok).calls = None
<1> DEFINE After(v) == IF v = u THEN Left(r, u, ok)
                       ELSE IF frame[r][v].calls = u THEN Resumed(frame[r][v], u, ok)
                       ELSE frame[r][v]
<1>1. frame' = [frame EXCEPT ![r] = [v \in Units |-> After(v)]]
  BY DEF Return
<1>2. frame \in [Units -> [Units -> Frame]]
  BY DEF TypeOK
<1>3. Left(r, u, ok) \in Frame
  BY DEF Left, NoFrame, Frame, Places, LockedPlaces, Over, Released
<1>4. ASSUME NEW f \in Frame PROVE Resumed(f, u, ok) \in Frame
  BY DEF Resumed, Frame, Places, LockedPlaces
<1>5. ASSUME NEW v \in Units PROVE After(v) \in Frame
  BY <1>2, <1>3, <1>4
<1>6. \A v \in Units : frame'[r][v] = After(v)
  BY <1>1, <1>2
<1>7. frame' \in [Units -> [Units -> Frame]]
  BY <1>1, <1>2, <1>5
<1>8. \A s \in Units \ {r} : frame'[s] = frame[s]
  BY <1>1, <1>2
<1>9. Left(r, u, ok).at \notin LockedPlaces \cup {"lock"} /\ Left(r, u, ok).calls = None
  BY DEF Left, NoFrame, LockedPlaces
<1> QED
  BY <1>6, <1>7, <1>8, <1>9

LEMMA BecomesTypes ==
  ASSUME TypeOK, NEW r \in Units, NEW u \in Units, NEW f \in Frame, Becomes(r, u, f)
  PROVE  /\ frame' \in [Units -> [Units -> Frame]]
         /\ \A s \in Units \ {r} : frame'[s] = frame[s]
         /\ \A s, v \in Units : frame'[s][v] = IF s = r /\ v = u THEN f ELSE frame[s][v]
<1>1. frame \in [Units -> [Units -> Frame]]
  BY DEF TypeOK
<1> QED
  BY <1>1 DEF Becomes

(* What the steps make of a frame.                                         *)
LEMMA FrameTypes ==
  ASSUME NEW f \in Frame
  PROVE  /\ \A place \in Places : [f EXCEPT !.at = place] \in Frame
         /\ \A m \in Units : [f EXCEPT !.at = "lock", !.mutex = m] \in Frame
         /\ \A m \in Units \cup {None} : [f EXCEPT !.at = "check", !.undo = m] \in Frame
         /\ \A S \in SUBSET Units : [f EXCEPT !.at = "forcing", !.todo = S] \in Frame
         /\ \A d \in Units : [f EXCEPT !.calls = d] \in Frame
         /\ [f EXCEPT !.at = "unlock", !.ok = FALSE] \in Frame
         /\ [f EXCEPT !.at = "scan", !.outputs = TRUE] \in Frame
         /\ [NoFrame EXCEPT !.at = "build"] \in Frame
<1> USE DEF Frame, Places, LockedPlaces
<1>1. \A place \in Places : [f EXCEPT !.at = place] \in Frame
  OBVIOUS
<1>2. \A m \in Units : [f EXCEPT !.at = "lock", !.mutex = m] \in Frame
  OBVIOUS
<1>3. \A m \in Units \cup {None} : [f EXCEPT !.at = "check", !.undo = m] \in Frame
  OBVIOUS
<1>4. \A S \in SUBSET Units : [f EXCEPT !.at = "forcing", !.todo = S] \in Frame
  OBVIOUS
<1>5. \A d \in Units : [f EXCEPT !.calls = d] \in Frame
  OBVIOUS
<1>6. [f EXCEPT !.at = "unlock", !.ok = FALSE] \in Frame
  OBVIOUS
<1>7. [f EXCEPT !.at = "scan", !.outputs = TRUE] \in Frame
  OBVIOUS
<1>8. [NoFrame EXCEPT !.at = "build"] \in Frame
  BY DEF NoFrame
<1> QED
  BY <1>1, <1>2, <1>3, <1>4, <1>5, <1>6, <1>7, <1>8

LEMMA GoToTypes ==
  ASSUME TypeOK, NEW r \in Units, NEW u \in Units, NEW place \in Places, GoTo(r, u, place)
  PROVE  /\ frame' \in [Units -> [Units -> Frame]]
         /\ \A s \in Units \ {r} : frame'[s] = frame[s]
         /\ \A s, v \in Units : frame'[s][v] = IF s = r /\ v = u
                                            THEN [frame[r][u] EXCEPT !.at = place]
                                            ELSE frame[s][v]
<1>0. frame[r][u] \in Frame
  BY DEF TypeOK
<1>1. [frame[r][u] EXCEPT !.at = place] \in Frame
  BY <1>0, FrameTypes
<1> QED
  BY <1>1, BecomesTypes DEF GoTo

(* A step of a call keeps the types, and moves only frames of its routine. *)
LEMMA CallStepTypes ==
  ASSUME TypeOK, NEW r \in Units, NEW u \in Units, UnitStep(r, u)
  PROVE  TypeOK' /\ \A s \in Units \ {r} : frame'[s] = frame[s]
<1> USE DEF At, locks, marks, execVars, unitVars
<1>0. /\ frame \in [Units -> [Units -> Frame]]
      /\ ExecTypeOK /\ plan \in Plans /\ plan \in PlanSpace
  BY PlansAssumption DEF TypeOK
<1>22. frame[r][u] \in Frame
  BY <1>0
<1>1. \A v \in Units : cmd[v].ok \in BOOLEAN /\ frame[r][v].ok \in BOOLEAN
  BY <1>0 DEF ExecTypeOK, Command, Units, Frame
<1>2. ForcedDependencies(u) \in SUBSET Units /\ Method(r, u) \in {"Apply", "Destroy"}
  BY <1>0 DEF ForcedDependencies, Below, Reaches, Method, PlanSpace
<1>3. ASSUME NEW ok \in BOOLEAN, Return(r, u, ok)
      PROVE  /\ frame' \in [Units -> [Units -> Frame]]
             /\ \A s \in Units \ {r} : frame'[s] = frame[s]
  BY <1>3, ReturnTypes
<1>4. ASSUME NEW place \in Places, GoTo(r, u, place)
      PROVE  /\ frame' \in [Units -> [Units -> Frame]]
             /\ \A s \in Units \ {r} : frame'[s] = frame[s]
  BY <1>4, GoToTypes
<1>20. ASSUME NEW f \in Frame, Becomes(r, u, f)
      PROVE  /\ frame' \in [Units -> [Units -> Frame]]
             /\ \A s \in Units \ {r} : frame'[s] = frame[s]
  BY <1>20, BecomesTypes
<1>5. CASE Build(r, u)
  BY <1>3, <1>4, <1>5 DEF Build, TypeOK, ExecTypeOK, Places
<1>6. CASE CheckInit(r, u) \/ LockInit(r, u)
  BY <1>4, <1>6 DEF CheckInit, LockInit, TypeOK, ExecTypeOK, Places
<1>7. CASE RunInit(r, u)
  <2>1. cmd' \in [Callers -> Command]
    BY <1>0, <1>7, CallTypes DEF RunInit, Units, ExecTypeOK
  <2> QED
    BY <1>3, <1>4, <1>7, <2>1 DEF RunInit, TypeOK, ExecTypeOK, Places
<1>8. CASE EndInit(r, u)
  BY <1>3, <1>4, <1>8 DEF EndInit, TypeOK, ExecTypeOK, Places
<1>9. CASE ReadMux(r, u) \/ Defer(r, u)
  <2>1. muxOf[u] \in Units \cup {None}
    BY DEF TypeOK
  <2>2. /\ muxOf[u] # None => [frame[r][u] EXCEPT !.at = "lock", !.mutex = muxOf[u]] \in Frame
        /\ [frame[r][u] EXCEPT !.at = "check", !.undo = muxOf[u]] \in Frame
    BY <1>22, <2>1, FrameTypes
  <2>3. /\ frame' \in [Units -> [Units -> Frame]]
        /\ \A s \in Units \ {r} : frame'[s] = frame[s]
    BY <1>4, <1>9, <1>20, <2>2 DEF ReadMux, Defer, Places
  <2> QED
    BY <1>9, <2>3 DEF ReadMux, Defer, TypeOK, ExecTypeOK
<1>10. CASE CreateMux(r, u)
  BY <1>4, <1>10 DEF CreateMux, TypeOK, ExecTypeOK, Places
<1>11. CASE Lock(r, u)
  <2>1. frame[r][u].mutex \in Units \cup {None}
    BY <1>22 DEF Frame
  <2> QED
    BY <1>4, <1>11, <2>1 DEF Lock, TypeOK, ExecTypeOK, Places, LockedPlaces
<1>12. CASE Unlock(r, u)
  BY <1>0, <1>1, <1>3, <1>12 DEF Unlock, TypeOK, ExecTypeOK, Fates
<1>13. CASE CheckDone(r, u)
  <2>1. [frame[r][u] EXCEPT !.at = "forcing", !.todo = ForcedDependencies(u)] \in Frame
    BY <1>22, <1>2, FrameTypes
  <2>2. /\ frame' \in [Units -> [Units -> Frame]]
        /\ \A s \in Units \ {r} : frame'[s] = frame[s]
    BY <1>4, <1>13, <1>20, <2>1 DEF CheckDone, Places, LockedPlaces
  <2> QED
    BY <1>13, <2>2 DEF CheckDone, TypeOK, ExecTypeOK
<1>14. CASE ForcedAll(r, u)
  BY <1>4, <1>14 DEF ForcedAll, TypeOK, ExecTypeOK, Places, LockedPlaces
<1>15. ASSUME NEW d \in Units, ForceApply(r, u, d)
       PROVE  TypeOK' /\ \A s \in Units \ {r} : frame'[s] = frame[s]
  <2>1. [NoFrame EXCEPT !.at = "build"] \in Frame
    BY <1>22, FrameTypes
  <2>2. [frame[r][u] EXCEPT !.calls = d] \in Frame
    BY <1>22, FrameTypes
  <2>3. /\ frame' \in [Units -> [Units -> Frame]]
        /\ \A s \in Units \ {r} : frame'[s] = frame[s]
    BY <1>0, <1>15, <2>1, <2>2 DEF ForceApply
  <2> QED
    BY <1>15, <2>3 DEF ForceApply, TypeOK, ExecTypeOK
<1>21. ASSUME Fail(r, u)
       PROVE  /\ frame' \in [Units -> [Units -> Frame]]
              /\ \A s \in Units \ {r} : frame'[s] = frame[s]
  <2>1. [frame[r][u] EXCEPT !.at = "unlock", !.ok = FALSE] \in Frame
    BY <1>22, FrameTypes
  <2> QED
    BY <1>20, <1>21, <2>1 DEF Fail
<1>16. CASE Run(r, u)
  <2>1. cmd' \in [Callers -> Command]
    BY <1>0, <1>16, CallTypes DEF Run, Units, ExecTypeOK
  <2>2. /\ frame' \in [Units -> [Units -> Frame]]
        /\ \A s \in Units \ {r} : frame'[s] = frame[s]
    BY <1>4, <1>16, <1>21 DEF Run, Places, LockedPlaces
  <2> QED
    BY <1>16, <2>1, <2>2 DEF Run, Fail, TypeOK, ExecTypeOK
<1>17. CASE EndRun(r, u)
  <2>1. [frame[r][u] EXCEPT !.at = "scan", !.outputs = TRUE] \in Frame
    BY <1>22, FrameTypes
  <2>2. /\ frame' \in [Units -> [Units -> Frame]]
        /\ \A s \in Units \ {r} : frame'[s] = frame[s]
    BY <1>4, <1>17, <1>20, <1>21, <2>1 DEF EndRun, Succeed, Places, LockedPlaces
  <2>3. /\ tainted' \subseteq Units
        /\ done' \subseteq Units \X {"Apply", "Destroy"}
        /\ again' \subseteq Units \X {"Apply", "Destroy"}
    BY <1>2, <1>17 DEF EndRun, Fail, Succeed, TypeOK
  <2> QED
    BY <1>17, <2>2, <2>3 DEF EndRun, TypeOK, ExecTypeOK
<1> QED
  BY <1>5, <1>6, <1>7, <1>8, <1>9, <1>10, <1>11, <1>12, <1>13, <1>14, <1>15, <1>16, <1>17
     DEF UnitStep

------------------------------------------------------------------------------
(* Most steps neither enter the locked part of a unit nor touch the        *)
(* mutexes of the frames that are in it.                                   *)
QuietFrame(f, g) ==
  /\ g.at \in LockedPlaces =>
       /\ f.at \in LockedPlaces /\ (f.at = "defer" <=> g.at = "defer")
       /\ g.mutex = f.mutex /\ g.undo = f.undo
  /\ g.at = "lock" => f.at = "lock" /\ g.mutex = f.mutex
  /\ g.at \in Working => f.at \in Working
  /\ CallFits(g)
Quiet == \A r, u \in Units : QuietFrame(frame[r][u], frame'[r][u])

(* Frames that do not change are quiet.                                    *)
LEMMA SameQuiet ==
  ASSUME CallInv, NEW r \in Units, NEW u \in Units, frame'[r][u] = frame[r][u]
  PROVE  QuietFrame(frame[r][u], frame'[r][u])
BY DEF CallInv, QuietFrame

LEMMA ReturnQuiet ==
  ASSUME TypeOK, CallInv, NEW r \in Units, NEW u \in Units, NEW ok \in BOOLEAN,
         Return(r, u, ok)
  PROVE  Quiet
<1> SUFFICES ASSUME NEW s \in Units, NEW v \in Units
             PROVE  QuietFrame(frame[s][v], frame'[s][v])
  BY DEF Quiet
<1>1. CASE s # r
  BY <1>1, ReturnTypes, SameQuiet
<1>2. CASE s = r /\ v = u
  BY <1>2, ReturnTypes DEF QuietFrame, CallFits, Working, LockedPlaces
<1>3. CASE s = r /\ v # u /\ frame[r][v].calls # u
  BY <1>3, ReturnTypes, SameQuiet
<1>4. CASE s = r /\ v # u /\ frame[r][v].calls = u
  <2>1. frame'[r][v] = Resumed(frame[r][v], u, ok)
    BY <1>4, ReturnTypes
  <2>2. frame[r][v].at = "forcing" /\ frame[r][v] \in Frame
    BY <1>4, NoneAssumption DEF CallInv, CallFits, TypeOK
  <2> QED
    BY <1>4, <2>1, <2>2 DEF Resumed, QuietFrame, CallFits, Working, LockedPlaces, Frame
<1> QED
  BY <1>1, <1>2, <1>3, <1>4

(* A new value of one frame.                                               *)
LEMMA BecomesQuiet ==
  ASSUME TypeOK, CallInv, NEW r \in Units, NEW u \in Units, NEW f \in Frame,
         Becomes(r, u, f), QuietFrame(frame[r][u], f)
  PROVE  Quiet
<1> SUFFICES ASSUME NEW s \in Units, NEW v \in Units
             PROVE  QuietFrame(frame[s][v], frame'[s][v])
  BY DEF Quiet
<1>1. CASE s = r /\ v = u
  BY <1>1, BecomesTypes
<1>2. CASE ~(s = r /\ v = u)
  BY <1>2, BecomesTypes, SameQuiet
<1> QED
  BY <1>1, <1>2

LEMMA GoToQuiet ==
  ASSUME TypeOK, CallInv, NEW r \in Units, NEW u \in Units, NEW place \in Places,
         GoTo(r, u, place), frame[r][u].calls = None,
         \/ place \notin LockedPlaces \cup {"lock"}
         \/ place \in {"scan", "run"} /\ frame[r][u].at \in Working
         \/ place = "unlock" /\ frame[r][u].at \in Working
  PROVE  Quiet
<1> DEFINE f == frame[r][u]
           g == [frame[r][u] EXCEPT !.at = place]
<1>1. f \in Frame /\ g \in Frame /\ Becomes(r, u, g)
  BY FrameTypes DEF TypeOK, GoTo
<1>2. QuietFrame(f, g)
  BY <1>1 DEF QuietFrame, CallFits, Working, LockedPlaces, Frame
<1> QED
  BY <1>1, <1>2, BecomesQuiet

(* The steps of a call that leave mutexes and locked parts alone.          *)
QuietStep(r, u) ==
  \/ Build(r, u) \/ CheckInit(r, u) \/ LockInit(r, u) \/ RunInit(r, u) \/ EndInit(r, u)
  \/ ForcedAll(r, u) \/ Run(r, u) \/ EndRun(r, u)
  \/ \E d \in Units : ForceApply(r, u, d)

LEMMA QuietSteps ==
  ASSUME TypeOK, CallInv, NEW r \in Units, NEW u \in Units, QuietStep(r, u)
  PROVE  Quiet /\ UNCHANGED <<muxOf, made, locked>>
<1> USE DEF At, locks, marks
<1>1. /\ frame[r][u] \in Frame /\ cmd[r].ok \in BOOLEAN
      /\ frame[r][u].at # "forcing" => frame[r][u].calls = None
  BY DEF TypeOK, ExecTypeOK, Command, Units, CallInv, CallFits
<1>2. ASSUME Fail(r, u), frame[r][u].at \in {"scan", "run"} PROVE Quiet
  <2>1. [frame[r][u] EXCEPT !.at = "unlock", !.ok = FALSE] \in Frame
    BY <1>1, FrameTypes
  <2>2. QuietFrame(frame[r][u], [frame[r][u] EXCEPT !.at = "unlock", !.ok = FALSE])
    BY <1>1, <1>2 DEF QuietFrame, CallFits, Working, LockedPlaces, Frame
  <2> QED
    BY <1>2, <2>1, <2>2, BecomesQuiet DEF Fail
<1>3. CASE Build(r, u)
  BY <1>1, <1>3, ReturnQuiet, GoToQuiet DEF Build, Places, LockedPlaces
<1>4. CASE CheckInit(r, u) \/ LockInit(r, u)
  BY <1>1, <1>4, GoToQuiet DEF CheckInit, LockInit, Places, LockedPlaces
<1>5. CASE RunInit(r, u)
  BY <1>1, <1>5, ReturnQuiet, GoToQuiet DEF RunInit, Places, LockedPlaces
<1>6. CASE EndInit(r, u)
  BY <1>1, <1>6, ReturnQuiet, GoToQuiet DEF EndInit, Places, LockedPlaces
<1>7. CASE ForcedAll(r, u)
  <2>1. frame[r][u].calls = None
    BY <1>7 DEF ForcedAll, CallInv, CallFits
  <2> QED
    BY <1>7, <2>1, GoToQuiet DEF ForcedAll, Places, LockedPlaces, Working
<1>8. CASE Run(r, u)
  BY <1>1, <1>2, <1>8, GoToQuiet DEF Run, Places, LockedPlaces, Working
<1>9. CASE EndRun(r, u)
  <2>1. ASSUME Becomes(r, u, [frame[r][u] EXCEPT !.at = "scan", !.outputs = TRUE])
        PROVE  Quiet
    <3>1. [frame[r][u] EXCEPT !.at = "scan", !.outputs = TRUE] \in Frame
      BY <1>1, FrameTypes
    <3>2. QuietFrame(frame[r][u], [frame[r][u] EXCEPT !.at = "scan", !.outputs = TRUE])
      BY <1>1, <1>9 DEF EndRun, QuietFrame, CallFits, Working, LockedPlaces, Frame
    <3> QED
      BY <2>1, <3>1, <3>2, BecomesQuiet
  <2>2. ASSUME Succeed(r, u) PROVE Quiet
    BY <1>1, <1>9, <2>2, GoToQuiet DEF EndRun, Succeed, Places, LockedPlaces, Working
  <2> QED
    BY <1>2, <1>9, <2>1, <2>2 DEF EndRun
<1>10. ASSUME NEW d \in Units, ForceApply(r, u, d)
       PROVE  Quiet /\ UNCHANGED <<muxOf, made, locked>>
  <2> DEFINE caller == [frame[r][u] EXCEPT !.calls = d]
             called == [NoFrame EXCEPT !.at = "build"]
  <2> SUFFICES ASSUME NEW s \in Units, NEW v \in Units
               PROVE  QuietFrame(frame[s][v], frame'[s][v])
    BY <1>10 DEF ForceApply, Quiet
  <2>1. /\ frame \in [Units -> [Units -> Frame]]
        /\ frame' = [frame EXCEPT ![r] = [frame[r] EXCEPT ![u] = caller, ![d] = called]]
        /\ frame[r][u].at = "forcing" /\ d \in frame[r][u].todo
    BY <1>10 DEF ForceApply, TypeOK
  <2>2. CASE s # r \/ (v # u /\ v # d)
    BY <2>1, <2>2, SameQuiet
  <2>3. CASE s = r /\ v = d
    <3>1. frame'[s][v] = called
      BY <2>1, <2>3
    <3> QED
      BY <3>1 DEF QuietFrame, CallFits, NoFrame, LockedPlaces, Working
  <2>4. CASE s = r /\ v = u /\ v # d
    <3>1. frame'[s][v] = caller
      BY <2>1, <2>4
    <3> QED
      BY <1>1, <2>1, <2>4, <3>1 DEF QuietFrame, CallFits, LockedPlaces, Working, Frame
  <2> QED
    BY <2>2, <2>3, <2>4
<1> QED
  BY <1>3, <1>4, <1>5, <1>6, <1>7, <1>8, <1>9, <1>10
     DEF QuietStep, Build, CheckInit, LockInit, RunInit, EndInit, ForcedAll, Run, EndRun

------------------------------------------------------------------------------
(* The mutexes.                                                            *)
MuxInv == MadeInv /\ CallInv /\ HeldInv /\ OneAtATime

LEMMA QuietKeepsMux ==
  ASSUME MuxInv, Quiet, UNCHANGED <<muxOf, made, locked>>
  PROVE  MuxInv'
<1> USE DEF MuxInv
<1>1. MadeInv'
  <2>1. ASSUME NEW r \in Units, NEW u \in Units
        PROVE  /\ frame'[r][u].at \in LockedPlaces \cup {"lock"} => frame'[r][u].mutex \in made[u]
               /\ frame'[r][u].at \in LockedPlaces \ {"defer"} => frame'[r][u].undo \in made[u]
    <3>1. QuietFrame(frame[r][u], frame'[r][u])
      BY DEF Quiet
    <3> QED
      BY <3>1 DEF QuietFrame, MadeInv, LockedPlaces
  <2> QED
    BY <2>1 DEF MadeInv
<1>2. CallInv'
  BY DEF Quiet, QuietFrame, CallInv
<1>3. \A u \in Units : Raced(u)' <=> Raced(u)
  BY DEF Raced
<1>4. HeldInv'
  <2>1. ASSUME NEW u \in Units, ~Raced(u)', NEW r \in Units, frame'[r][u].at \in LockedPlaces
        PROVE  <<u, frame'[r][u].mutex>> \in locked'
    <3>1. QuietFrame(frame[r][u], frame'[r][u])
      BY DEF Quiet
    <3> QED
      BY <1>3, <2>1, <3>1 DEF QuietFrame, HeldInv
  <2> QED
    BY <2>1 DEF HeldInv
<1>5. OneAtATime'
  <2>1. ASSUME NEW u \in Units, NEW r \in Units, NEW s \in Units, ~Raced(u)',
               frame'[r][u].at \in LockedPlaces, frame'[s][u].at \in LockedPlaces
        PROVE  r = s
    <3>1. QuietFrame(frame[r][u], frame'[r][u]) /\ QuietFrame(frame[s][u], frame'[s][u])
      BY DEF Quiet
    <3> QED
      BY <1>3, <2>1, <3>1 DEF QuietFrame, OneAtATime
  <2> QED
    BY <2>1 DEF OneAtATime
<1> QED
  BY <1>1, <1>2, <1>4, <1>5

(* As long as a unit has one mutex, all its frames name the same one.      *)
LEMMA OneMutex ==
  ASSUME MadeInv, NEW u \in Units, ~Raced(u), NEW r \in Units, NEW s \in Units,
         frame[r][u].at \in LockedPlaces \cup {"lock"},
         frame[s][u].at \in LockedPlaces \cup {"lock"}
  PROVE  /\ frame[r][u].mutex = frame[s][u].mutex
         /\ frame[s][u].at \in LockedPlaces \ {"defer"} => frame[s][u].undo = frame[r][u].mutex
BY DEF MadeInv, Raced

(* One frame is new, and fits the mutexes.                                 *)
LEMMA OneFrameKeepsMux ==
  ASSUME MuxInv, NEW r \in Units, NEW u \in Units, NEW g,
         \A s, v \in Units : frame'[s][v] = IF s = r /\ v = u THEN g ELSE frame[s][v],
         UNCHANGED <<muxOf, made>>, locked \subseteq locked',
         g.at \in LockedPlaces \cup {"lock"} => g.mutex \in made[u],
         g.at \in LockedPlaces \ {"defer"} => g.undo \in made[u],
         g.calls = None,
         (g.at \in LockedPlaces /\ ~Raced(u)) =>
            /\ <<u, g.mutex>> \in locked'
            /\ \A s \in Units : frame[s][u].at \in LockedPlaces => s = r
  PROVE  MuxInv'
<1> USE DEF MuxInv
<1>0. \A v \in Units : Raced(v)' <=> Raced(v)
  BY DEF Raced
<1>1. MadeInv'
  <2>1. ASSUME NEW s \in Units, NEW v \in Units
        PROVE  /\ frame'[s][v].at \in LockedPlaces \cup {"lock"} => frame'[s][v].mutex \in made[v]
               /\ frame'[s][v].at \in LockedPlaces \ {"defer"} => frame'[s][v].undo \in made[v]
    <3>1. CASE s = r /\ v = u
      <4>1. frame'[s][v] = g
        BY <3>1
      <4> QED
        BY <3>1, <4>1
    <3>2. CASE ~(s = r /\ v = u)
      <4>1. frame'[s][v] = frame[s][v]
        BY <3>2
      <4> QED
        BY <4>1 DEF MadeInv
    <3> QED
      BY <3>1, <3>2
  <2> QED
    BY <2>1 DEF MadeInv
<1>2. CallInv'
  BY DEF CallInv, CallFits
<1>3. HeldInv'
  <2>1. ASSUME NEW v \in Units, ~Raced(v), NEW s \in Units, frame'[s][v].at \in LockedPlaces
        PROVE  <<v, frame'[s][v].mutex>> \in locked'
    <3>1. CASE s = r /\ v = u
      BY <2>1, <3>1
    <3>2. CASE ~(s = r /\ v = u)
      BY <2>1, <3>2 DEF HeldInv
    <3> QED
      BY <3>1, <3>2
  <2> QED
    BY <1>0, <2>1 DEF HeldInv
<1>4. OneAtATime'
  <2>1. ASSUME NEW v \in Units, ~Raced(v), NEW s \in Units, NEW t \in Units,
               frame'[s][v].at \in LockedPlaces, frame'[t][v].at \in LockedPlaces
        PROVE  s = t
    <3>1. CASE v # u
      BY <2>1, <3>1 DEF OneAtATime
    <3>2. CASE v = u
      BY <2>1, <3>2 DEF OneAtATime
    <3> QED
      BY <3>1, <3>2
  <2> QED
    BY <1>0, <2>1 DEF OneAtATime
<1> QED
  BY <1>1, <1>2, <1>3, <1>4

(* Steps that make one frame new, in which a mutex is read or taken.       *)
LEMMA MuxSteps ==
  ASSUME TypeOK, MuxInv, NEW r \in Units, NEW u \in Units,
         ReadMux(r, u) \/ CreateMux(r, u) \/ Lock(r, u) \/ Defer(r, u) \/ CheckDone(r, u)
  PROVE  MuxInv'
<1> USE DEF At, locks, marks
<1> DEFINE f == frame[r][u]
<1>0. /\ f \in Frame /\ muxOf[u] \in Units \cup {None}
      /\ f.at # "forcing" => f.calls = None
      /\ muxOf \in [Units -> Units \cup {None}] /\ made \in [Units -> SUBSET Units]
  BY DEF TypeOK, MuxInv, CallInv, CallFits
<1>1. CASE ReadMux(r, u) /\ muxOf[u] = None
  <2>1. Quiet
    BY <1>0, <1>1, GoToQuiet DEF ReadMux, MuxInv, Places, LockedPlaces
  <2> QED
    BY <1>1, <2>1, QuietKeepsMux DEF ReadMux
<1>2. CASE CreateMux(r, u)
  <2>1. Quiet
    BY <1>0, <1>2, GoToQuiet DEF CreateMux, MuxInv, Places, LockedPlaces
  <2>2. /\ made' = [made EXCEPT ![u] = @ \cup {r}] /\ muxOf' = [muxOf EXCEPT ![u] = r]
        /\ UNCHANGED locked
    BY <1>2 DEF CreateMux
  <2>3. \A v \in Units : /\ made[v] \subseteq made'[v] /\ (Raced(v) => Raced(v)')
                         /\ muxOf'[v] = None <=> made'[v] = {}
                         /\ muxOf'[v] # None => muxOf'[v] \in made'[v]
    <3>1. \A v \in Units : made'[v] = IF v = u THEN made[v] \cup {r} ELSE made[v]
      BY <1>0, <2>2
    <3>2. \A v \in Units : muxOf'[v] = IF v = u THEN r ELSE muxOf[v]
      BY <1>0, <2>2
    <3> QED
      BY <3>1, <3>2, NoneAssumption DEF Raced, MuxInv, MadeInv
  <2>4. ASSUME NEW s \in Units, NEW v \in Units
        PROVE  QuietFrame(frame[s][v], frame'[s][v])
    BY <2>1 DEF Quiet
  <2>5. MadeInv'
    <3>1. ASSUME NEW s \in Units, NEW v \in Units
          PROVE  /\ frame'[s][v].at \in LockedPlaces \cup {"lock"}
                      => frame'[s][v].mutex \in made'[v]
                 /\ frame'[s][v].at \in LockedPlaces \ {"defer"}
                      => frame'[s][v].undo \in made'[v]
      BY <2>3, <2>4 DEF QuietFrame, MuxInv, MadeInv, LockedPlaces
    <3> QED
      BY <2>3, <3>1 DEF MadeInv
  <2>6. CallInv'
    BY <2>4 DEF QuietFrame, CallInv
  <2>7. ASSUME NEW v \in Units, ~Raced(v)', NEW s \in Units, frame'[s][v].at \in LockedPlaces
        PROVE  <<v, frame'[s][v].mutex>> \in locked'
    <3>1. ~Raced(v) /\ frame[s][v].at \in LockedPlaces /\ frame'[s][v].mutex = frame[s][v].mutex
      BY <2>3, <2>4, <2>7 DEF QuietFrame
    <3> QED
      BY <2>2, <3>1 DEF MuxInv, HeldInv
  <2>8. OneAtATime'
    BY <2>3, <2>4 DEF QuietFrame, MuxInv, OneAtATime
  <2> QED
    BY <2>5, <2>6, <2>7, <2>8 DEF MuxInv, HeldInv
<1>3. CASE CheckDone(r, u)
  <2>1. ForcedDependencies(u) \in SUBSET Units
    BY PlansAssumption DEF ForcedDependencies, Below, Reaches, TypeOK
  <2>2. [f EXCEPT !.at = "forcing", !.todo = ForcedDependencies(u)] \in Frame
    BY <1>0, <2>1, FrameTypes
  <2> DEFINE g == frame'[r][u]
  <2>3. \/ Becomes(r, u, [f EXCEPT !.at = "forcing", !.todo = ForcedDependencies(u)])
        \/ GoTo(r, u, "unlock")
    BY <1>3 DEF CheckDone
  <2>4. \A s, v \in Units : frame'[s][v] = IF s = r /\ v = u THEN g ELSE frame[s][v]
    <3>1. CASE Becomes(r, u, [f EXCEPT !.at = "forcing", !.todo = ForcedDependencies(u)])
      BY <2>2, <3>1, BecomesTypes
    <3>2. CASE GoTo(r, u, "unlock")
      <4>1. [f EXCEPT !.at = "unlock"] \in Frame /\ Becomes(r, u, [f EXCEPT !.at = "unlock"])
        BY <1>0, <3>2, FrameTypes DEF GoTo, Places, LockedPlaces
      <4> QED
        BY <4>1, BecomesTypes
    <3> QED
      BY <2>3, <3>1, <3>2
  <2>5. \/ g = [f EXCEPT !.at = "forcing", !.todo = ForcedDependencies(u)]
        \/ g = [f EXCEPT !.at = "unlock"]
    <3>1. CASE Becomes(r, u, [f EXCEPT !.at = "forcing", !.todo = ForcedDependencies(u)])
      BY <2>2, <3>1, BecomesTypes
    <3>2. CASE GoTo(r, u, "unlock")
      <4>1. [f EXCEPT !.at = "unlock"] \in Frame /\ Becomes(r, u, [f EXCEPT !.at = "unlock"])
        BY <1>0, <3>2, FrameTypes DEF GoTo, Places, LockedPlaces
      <4> QED
        BY <4>1, BecomesTypes
    <3> QED
      BY <2>3, <3>1, <3>2
  <2>6. /\ g.mutex = f.mutex /\ g.undo = f.undo /\ g.calls = None
        /\ f.at = "check" /\ UNCHANGED <<muxOf, made, locked>>
    BY <1>0, <1>3, <2>5 DEF CheckDone, Frame
  <2>7. f.mutex \in made[u] /\ f.undo \in made[u]
    BY <2>6 DEF MuxInv, MadeInv, LockedPlaces
  <2>8. ~Raced(u) => /\ <<u, f.mutex>> \in locked
                     /\ \A s \in Units : frame[s][u].at \in LockedPlaces => s = r
    BY <2>6 DEF MuxInv, HeldInv, OneAtATime, LockedPlaces
  <2> HIDE DEF g, f
  <2> QED
    BY <2>4, <2>6, <2>7, <2>8, OneFrameKeepsMux
<1>4. CASE ReadMux(r, u) /\ muxOf[u] # None
  <2> DEFINE g == [f EXCEPT !.at = "lock", !.mutex = muxOf[u]]
  <2>1. /\ g \in Frame /\ Becomes(r, u, g) /\ UNCHANGED <<muxOf, made, locked>>
        /\ muxOf[u] \in made[u] /\ f.at = "mux"
    BY <1>0, <1>4, FrameTypes DEF ReadMux, MuxInv, MadeInv
  <2>2. \A s, v \in Units : frame'[s][v] = IF s = r /\ v = u THEN g ELSE frame[s][v]
    BY <2>1, BecomesTypes
  <2>3. g.at = "lock" /\ g.mutex = muxOf[u] /\ g.calls = None
    BY <1>0, <2>1 DEF Frame
  <2>4. UNCHANGED <<muxOf, made>> /\ locked \subseteq locked'
    BY <2>1
  <2>5. /\ g.at \notin LockedPlaces
        /\ ~(g.at \in LockedPlaces \ {"defer"})
    BY <2>3 DEF LockedPlaces
  <2>6. g.mutex \in made[u] /\ g.calls = None
    BY <2>1, <2>3
  <2> HIDE DEF g
  <2>7. g.at \in LockedPlaces \cup {"lock"} => g.mutex \in made[u]
    BY <2>6
  <2>8. g.at \in LockedPlaces \ {"defer"} => g.undo \in made[u]
    BY <2>5
  <2>9. (g.at \in LockedPlaces /\ ~Raced(u)) =>
            /\ <<u, g.mutex>> \in locked'
            /\ \A s \in Units : frame[s][u].at \in LockedPlaces => s = r
    BY <2>5
  <2> HIDE DEF f
  <2> QED
    BY <2>2, <2>4, <2>6, <2>7, <2>8, <2>9, OneFrameKeepsMux
<1>5. CASE Lock(r, u)
  <2> DEFINE g == [f EXCEPT !.at = "defer"]
  <2>1. /\ UNCHANGED <<muxOf, made>> /\ f.at = "lock"
        /\ locked' = locked \cup {<<u, f.mutex>>} /\ <<u, f.mutex>> \notin locked
    BY <1>5 DEF Lock
  <2>2. \A s, v \in Units : frame'[s][v] = IF s = r /\ v = u THEN g ELSE frame[s][v]
    <3>1. g \in Frame /\ Becomes(r, u, g)
      BY <1>0, <1>5, FrameTypes DEF Lock, GoTo, Places, LockedPlaces
    <3> QED
      BY <3>1, BecomesTypes
  <2>3. g.at = "defer" /\ g.mutex = f.mutex /\ g.calls = None
    BY <1>0, <2>1 DEF Frame
  <2>4. f.mutex \in made[u]
    BY <2>1 DEF MuxInv, MadeInv
  <2>5. ASSUME NEW s \in Units, ~Raced(u), frame[s][u].at \in LockedPlaces PROVE FALSE
    <3>1. frame[s][u].mutex = f.mutex /\ <<u, frame[s][u].mutex>> \in locked
      BY <2>1, <2>5, OneMutex DEF MuxInv, HeldInv
    <3> QED
      BY <2>1, <3>1
  <2> HIDE DEF g, f
  <2> QED
    BY <2>1, <2>2, <2>3, <2>4, <2>5, OneFrameKeepsMux
<1>6. CASE Defer(r, u)
  <2> DEFINE g == [f EXCEPT !.at = "check", !.undo = muxOf[u]]
  <2>1. /\ g \in Frame /\ Becomes(r, u, g) /\ UNCHANGED <<muxOf, made, locked>> /\ f.at = "defer"
    BY <1>0, <1>6, FrameTypes DEF Defer
  <2>2. \A s, v \in Units : frame'[s][v] = IF s = r /\ v = u THEN g ELSE frame[s][v]
    BY <2>1, BecomesTypes
  <2>3. g.at = "check" /\ g.mutex = f.mutex /\ g.undo = muxOf[u] /\ g.calls = None
    BY <1>0, <2>1 DEF Frame
  <2>4. f.mutex \in made[u] /\ muxOf[u] \in made[u]
    BY <2>1 DEF MuxInv, MadeInv, LockedPlaces
  <2>5. ~Raced(u) => /\ <<u, f.mutex>> \in locked
                     /\ \A s \in Units : frame[s][u].at \in LockedPlaces => s = r
    BY <2>1 DEF MuxInv, HeldInv, OneAtATime, LockedPlaces
  <2> HIDE DEF g, f
  <2> QED
    BY <2>1, <2>2, <2>3, <2>4, <2>5, OneFrameKeepsMux
<1> QED
  BY <1>1, <1>2, <1>3, <1>4, <1>5, <1>6

(* Unlock frees the frame's own mutex as long as there is only one.        *)
LEMMA UnlockKeepsMux ==
  ASSUME TypeOK, MuxInv, NEW r \in Units, NEW u \in Units, Unlock(r, u)
  PROVE  MuxInv'
<1>1. CASE UNCHANGED <<locked, frame>>
  BY <1>1 DEF Unlock, MuxInv, MadeInv, CallInv, HeldInv, OneAtATime, Raced
<1>2. CASE ~UNCHANGED <<locked, frame>>
  <2>1. /\ frame[r][u].ok \in BOOLEAN /\ Return(r, u, frame[r][u].ok)
        /\ locked' = locked \ {<<u, frame[r][u].undo>>} /\ UNCHANGED <<muxOf, made>>
        /\ frame[r][u].at = "unlock"
    BY <1>2 DEF Unlock, TypeOK, Frame, At
  <2>2. Quiet /\ frame'[r][u].at \notin LockedPlaces
    BY <2>1, ReturnQuiet, ReturnTypes DEF MuxInv
  <2>3. \A v \in Units : Raced(v)' <=> Raced(v)
    BY <2>1 DEF Raced
  <2>4. ASSUME NEW s \in Units, NEW v \in Units
        PROVE  QuietFrame(frame[s][v], frame'[s][v])
    BY <2>2 DEF Quiet
  <2>5. MadeInv'
    <3>1. ASSUME NEW s \in Units, NEW v \in Units
          PROVE  /\ frame'[s][v].at \in LockedPlaces \cup {"lock"}
                      => frame'[s][v].mutex \in made[v]
                 /\ frame'[s][v].at \in LockedPlaces \ {"defer"}
                      => frame'[s][v].undo \in made[v]
      BY <2>4 DEF QuietFrame, MuxInv, MadeInv, LockedPlaces
    <3> QED
      BY <2>1, <3>1 DEF MuxInv, MadeInv
  <2>6. CallInv'
    BY <2>4 DEF QuietFrame, CallInv
  <2>7. OneAtATime'
    <3>1. ASSUME NEW v \in Units, NEW s \in Units, NEW t \in Units, ~Raced(v),
                 frame'[s][v].at \in LockedPlaces, frame'[t][v].at \in LockedPlaces
          PROVE  s = t
      BY <2>4, <3>1 DEF QuietFrame, MuxInv, OneAtATime
    <3> QED
      BY <2>3, <3>1 DEF OneAtATime
  <2>8. ASSUME NEW v \in Units, ~Raced(v), NEW s \in Units, frame'[s][v].at \in LockedPlaces
        PROVE  <<v, frame'[s][v].mutex>> \in locked'
    <3>1. /\ frame[s][v].at \in LockedPlaces /\ frame'[s][v].mutex = frame[s][v].mutex
          /\ <<v, frame[s][v].mutex>> \in locked
      BY <2>4, <2>8 DEF QuietFrame, MuxInv, HeldInv
    <3>2. v # u
      <4>1. CASE v = u
        <5>1. s = r
          BY <2>1, <2>8, <3>1, <4>1 DEF MuxInv, OneAtATime, LockedPlaces
        <5> QED
          BY <2>2, <2>8, <4>1, <5>1
      <4> QED
        BY <4>1
    <3> QED
      BY <2>1, <3>1, <3>2
  <2> QED
    BY <2>3, <2>5, <2>6, <2>7, <2>8 DEF MuxInv, HeldInv
<1> QED
  BY <1>1, <1>2

LEMMA InitMux == Init => TypeOK /\ MuxInv /\ FirstInv /\ AppliedOnce
<1> SUFFICES ASSUME Init PROVE TypeOK /\ MuxInv /\ FirstInv /\ AppliedOnce
  OBVIOUS
<1>1. NoFrame \in Frame /\ NoFrame.at = "out" /\ NoFrame.calls = None
  BY DEF NoFrame, Frame, Places
<1>2. \A r, u \in Units : frame[r][u] = NoFrame
  BY DEF Init
<1>3. ExecTypeOK
  <2>1. NoCommand \in Command
    BY DEF NoCommand, Command, Steps, Traps, Children
  <2>2. 0 \in 0 .. MaxSignals
    BY MaxSignalsAssumption
  <2> QED
    BY <2>1, <2>2 DEF Init, ExecInit, ExecTypeOK, Fates
<1>4. TypeOK
  <2>1. frame \in [Units -> [Units -> Frame]]
    BY <1>1 DEF Init
  <2> QED
    BY <1>3, <2>1 DEF Init, TypeOK
<1>5. MuxInv
  BY <1>1, <1>2 DEF Init, MuxInv, MadeInv, CallInv, CallFits, HeldInv, OneAtATime,
     LockedPlaces
<1>6. FirstInv /\ AppliedOnce
  BY <1>1, <1>2 DEF Init, FirstInv, AppliedOnce, Working
<1> QED
  BY <1>4, <1>5, <1>6

(* Steps that leave the units alone: commands, signals, a fault.           *)
LEMMA NextTypes ==
  ASSUME TypeOK, [Next]_vars
  PROVE  TypeOK'
<1>1. CASE UNCHANGED vars
  BY <1>1 DEF TypeOK, ExecTypeOK, vars, unitVars, execVars
<1>2. ASSUME NEW r \in Units, Begin(r) PROVE TypeOK'
  BY <1>2, GoToTypes DEF Begin, TypeOK, ExecTypeOK, locks, marks, execVars, Places
<1>3. ASSUME NEW r \in Units, ExecStep(r) \/ Signal, UNCHANGED unitVars PROVE TypeOK'
  <2>1. ExecTypeOK'
    BY <1>3, ExecTypes DEF Units, TypeOK
  <2> QED
    BY <1>3, <2>1 DEF TypeOK, unitVars
<1>4. ASSUME Signal, UNCHANGED unitVars PROVE TypeOK'
  <2>1. CASE Units = {}
    BY <1>4, <2>1, MaxSignalsAssumption
       DEF Signal, TypeOK, ExecTypeOK, unitVars, Units, Fates
  <2>2. CASE Units # {}
    BY <1>3, <1>4, <2>2
  <2> QED
    BY <2>1, <2>2
<1>5. ASSUME NEW r \in Units, NEW u \in Units, UnitStep(r, u) PROVE TypeOK'
  BY <1>5, CallStepTypes
<1>6. ASSUME NEW r \in Units, NEW u \in Units, MapFault(r, u) PROVE TypeOK'
  BY <1>6 DEF MapFault, TypeOK, ExecTypeOK, unitVars, Fates
<1> QED
  BY <1>1, <1>2, <1>3, <1>4, <1>5, <1>6 DEF Next

(* Whatever happens keeps the invariant of the mutexes.                    *)
LEMMA NextMux ==
  ASSUME TypeOK, MuxInv, [Next]_vars
  PROVE  MuxInv'
<1>1. ASSUME UNCHANGED unitVars PROVE MuxInv'
  BY <1>1 DEF unitVars, MuxInv, MadeInv, CallInv, HeldInv, OneAtATime, Raced
<1>2. ASSUME NEW r \in Units, Begin(r) PROVE MuxInv'
  <2>1. frame[r][r].calls = None /\ UNCHANGED <<muxOf, made, locked>> /\ GoTo(r, r, "build")
    BY <1>2 DEF Begin, MuxInv, CallInv, CallFits, locks
  <2>2. Quiet
    BY <2>1, GoToQuiet DEF MuxInv, Places, LockedPlaces
  <2> QED
    BY <2>1, <2>2, QuietKeepsMux
<1>3. ASSUME NEW r \in Units, NEW u \in Units, UnitStep(r, u) PROVE MuxInv'
  <2>1. CASE QuietStep(r, u)
    BY <2>1, QuietSteps, QuietKeepsMux DEF MuxInv
  <2>2. CASE Unlock(r, u)
    BY <2>2, UnlockKeepsMux
  <2>3. CASE ReadMux(r, u) \/ CreateMux(r, u) \/ Lock(r, u) \/ Defer(r, u) \/ CheckDone(r, u)
    BY <2>3, MuxSteps
  <2> QED
    BY <1>3, <2>1, <2>2, <2>3 DEF UnitStep, QuietStep
<1> QED
  BY <1>1, <1>2, <1>3 DEF Next, vars, MapFault

------------------------------------------------------------------------------
(* A unit guarded by one mutex succeeds once.                              *)
LEMMA RacedStays ==
  ASSUME TypeOK, [Next]_vars, NEW u \in Units, Raced(u)
  PROVE  Raced(u)'
<1>1. CASE made' = made
  BY <1>1 DEF Raced
<1>2. ASSUME NEW r \in Units, NEW v \in Units, CreateMux(r, v) PROVE Raced(u)'
  <2>1. made[u] \subseteq made'[u]
    BY <1>2 DEF CreateMux, TypeOK
  <2> QED
    BY <2>1 DEF Raced
<1>3. ASSUME NEW r \in Units, NEW v \in Units, UnitStep(r, v), made' # made
      PROVE  CreateMux(r, v)
  BY <1>3 DEF UnitStep, Build, CheckInit, LockInit, RunInit, EndInit, ReadMux, Lock, Defer, Unlock,
     CheckDone, ForceApply, ForcedAll, Run, EndRun, locks
<1> QED
  BY <1>1, <1>2, <1>3 DEF Next, vars, unitVars, Begin, MapFault, locks

LEMMA QuietKeepsFirst ==
  ASSUME FirstInv, AppliedOnce, Quiet, UNCHANGED <<plan, done, again>>,
         \A u \in Units : Raced(u) => Raced(u)', TypeOK
  PROVE  FirstInv' /\ AppliedOnce'
<1>1. ASSUME NEW r \in Units, NEW u \in Units, frame'[r][u].at \in Working, ~Raced(u)'
      PROVE  <<u, Method(r, u)'>> \notin done'
  <2>1. frame[r][u].at \in Working /\ ~Raced(u)
    BY <1>1 DEF Quiet, QuietFrame
  <2>2. Method(r, u)' = Method(r, u)
    BY DEF Method
  <2> QED
    BY <2>1, <2>2 DEF FirstInv
<1>2. AppliedOnce'
  <2>1. \A x \in again : x[1] \in Units
    BY DEF TypeOK
  <2> QED
    BY <2>1 DEF AppliedOnce
<1> QED
  BY <1>1, <1>2 DEF FirstInv

LEMMA EndRunKeepsFirst ==
  ASSUME TypeOK, MuxInv, FirstInv, AppliedOnce, NEW r \in Units, NEW u \in Units,
         EndRun(r, u)
  PROVE  FirstInv' /\ AppliedOnce'
<1>1. Quiet /\ UNCHANGED <<made, plan>>
  BY QuietSteps DEF QuietStep, MuxInv, EndRun
<1>2. \A v \in Units : Raced(v)' <=> Raced(v)
  BY <1>1 DEF Raced
<1>3. CASE UNCHANGED <<done, again>>
  BY <1>1, <1>2, <1>3, QuietKeepsFirst
<1>4. CASE Succeed(r, u)
  <2>1. frame[r][u].at = "run" /\ frame[r][u] \in Frame
    BY DEF EndRun, At, TypeOK
  <2>2. frame'[r][u].at = "unlock"
    <3>1. [frame[r][u] EXCEPT !.at = "unlock"] \in Frame
      BY <2>1, FrameTypes DEF Places, LockedPlaces
    <3>2. frame'[r][u] = [frame[r][u] EXCEPT !.at = "unlock"]
      BY <1>4, <3>1, BecomesTypes DEF Succeed, GoTo
    <3> QED
      BY <2>1, <3>2 DEF Frame
  <2>3. FirstInv'
    <3>1. ASSUME NEW s \in Units, NEW v \in Units, frame'[s][v].at \in Working, ~Raced(v)
          PROVE  <<v, Method(s, v)'>> \notin done'
      <4>1. frame[s][v].at \in Working /\ Method(s, v)' = Method(s, v)
        BY <1>1, <3>1 DEF Quiet, QuietFrame, Method
      <4>2. <<v, Method(s, v)>> \notin done
        BY <3>1, <4>1 DEF FirstInv
      <4>3. v # u
        <5>1. CASE v = u
          <6>1. s = r
            BY <2>1, <3>1, <4>1, <5>1 DEF MuxInv, OneAtATime, Working, LockedPlaces
          <6> QED
            BY <2>2, <3>1, <5>1, <6>1 DEF Working
        <5> QED
          BY <5>1
      <4> QED
        BY <1>4, <4>1, <4>2, <4>3 DEF Succeed
    <3> QED
      BY <1>2, <3>1 DEF FirstInv
  <2>4. AppliedOnce'
    <3>1. \A x \in again : x[1] \in Units /\ Raced(x[1])
      BY DEF TypeOK, AppliedOnce
    <3>2. <<u, Method(r, u)>> \in done => Raced(u)
      BY <2>1 DEF FirstInv, Working
    <3>3. \A x \in again' : x[1] \in Units /\ Raced(x[1])
      BY <1>4, <3>1, <3>2 DEF Succeed
    <3> QED
      BY <1>2, <3>3 DEF AppliedOnce
  <2> QED
    BY <2>3, <2>4
<1> QED
  BY <1>3, <1>4 DEF EndRun, Fail

LEMMA NextFirst ==
  ASSUME TypeOK, MuxInv, FirstInv, AppliedOnce, [Next]_vars
  PROVE  FirstInv' /\ AppliedOnce'
<1>0. \A v \in Units : Raced(v) => Raced(v)'
  BY RacedStays
<1>1. ASSUME UNCHANGED unitVars PROVE FirstInv' /\ AppliedOnce'
  BY <1>1 DEF unitVars, FirstInv, AppliedOnce, Raced, Method
<1>2. ASSUME NEW r \in Units, Begin(r) PROVE FirstInv' /\ AppliedOnce'
  <2>1. frame[r][r].calls = None /\ GoTo(r, r, "build")
    BY <1>2 DEF Begin, MuxInv, CallInv, CallFits
  <2>2. Quiet
    BY <2>1, GoToQuiet DEF MuxInv, Places, LockedPlaces
  <2> QED
    BY <1>0, <1>2, <2>2, QuietKeepsFirst DEF Begin, marks
<1>3. ASSUME NEW r \in Units, NEW u \in Units, UnitStep(r, u)
      PROVE  FirstInv' /\ AppliedOnce'
  <2>1. CASE EndRun(r, u)
    BY <2>1, EndRunKeepsFirst
  <2>2. CASE QuietStep(r, u) /\ ~EndRun(r, u)
    <3>1. Quiet
      BY <2>2, QuietSteps DEF MuxInv
    <3>2. UNCHANGED <<plan, done, again>>
      BY <2>2 DEF QuietStep, Build, CheckInit, LockInit, RunInit, EndInit, ForcedAll, Run, Fail,
         ForceApply, marks
    <3> QED
      BY <1>0, <3>1, <3>2, QuietKeepsFirst
  <2>3. CASE Unlock(r, u)
    <3>1. CASE UNCHANGED frame
      BY <1>0, <2>3, <3>1 DEF Unlock, FirstInv, AppliedOnce, marks, Raced, Method
    <3>2. CASE Return(r, u, frame[r][u].ok)
      <4>1. Quiet
        BY <3>2, ReturnQuiet DEF MuxInv, TypeOK, Frame
      <4> QED
        BY <1>0, <2>3, <4>1, QuietKeepsFirst DEF Unlock, marks
    <3> QED
      BY <2>3, <3>1, <3>2 DEF Unlock
  <2>4. CASE ReadMux(r, u) \/ CreateMux(r, u) \/ Lock(r, u) \/ Defer(r, u) \/ CheckDone(r, u)
    <3>1. ASSUME NEW s \in Units, NEW v \in Units, frame'[s][v].at \in Working, ~Raced(v)'
          PROVE  <<v, Method(s, v)>> \notin done
      <4>1. CASE s = r /\ v = u
        <5>1. frame[r][u] \in Frame /\ muxOf[u] \in Units \cup {None}
              /\ ForcedDependencies(u) \in SUBSET Units
          BY PlansAssumption DEF TypeOK, ForcedDependencies, Below, Reaches
        <5>2. CASE CheckDone(r, u)
          <6>1. CASE <<u, Method(r, u)>> \in done
            <7>1. [frame[r][u] EXCEPT !.at = "unlock"] \in Frame
              BY <5>1, FrameTypes DEF Places, LockedPlaces
            <7>2. frame'[r][u] = [frame[r][u] EXCEPT !.at = "unlock"]
              BY <5>2, <6>1, <7>1, BecomesTypes DEF CheckDone, GoTo
            <7> QED
              BY <3>1, <4>1, <5>1, <7>2 DEF Frame, Working
          <6> QED
            BY <4>1, <6>1
        <5>3. ASSUME NEW place \in Places, GoTo(r, u, place) PROVE frame'[r][u].at = place
          <6>1. [frame[r][u] EXCEPT !.at = place] \in Frame
            BY <5>1, FrameTypes
          <6>2. frame'[r][u] = [frame[r][u] EXCEPT !.at = place]
            BY <5>3, <6>1, BecomesTypes DEF GoTo
          <6> QED
            BY <5>1, <6>2 DEF Frame
        <5>4. CASE CreateMux(r, u) \/ Lock(r, u)
          BY <3>1, <4>1, <5>3, <5>4 DEF CreateMux, Lock, Places, LockedPlaces, Working
        <5>5. CASE Defer(r, u)
          <6>1. [frame[r][u] EXCEPT !.at = "check", !.undo = muxOf[u]] \in Frame
            BY <5>1, FrameTypes
          <6>2. frame'[r][u] = [frame[r][u] EXCEPT !.at = "check", !.undo = muxOf[u]]
            BY <5>5, <6>1, BecomesTypes DEF Defer
          <6> QED
            BY <3>1, <4>1, <5>1, <6>2 DEF Frame, Working
        <5>6. CASE ReadMux(r, u) /\ muxOf[u] # None
          <6>1. [frame[r][u] EXCEPT !.at = "lock", !.mutex = muxOf[u]] \in Frame
            BY <5>1, <5>6, FrameTypes
          <6>2. frame'[r][u] = [frame[r][u] EXCEPT !.at = "lock", !.mutex = muxOf[u]]
            BY <5>6, <6>1, BecomesTypes DEF ReadMux
          <6> QED
            BY <3>1, <4>1, <5>1, <6>2 DEF Frame, Working
        <5>7. CASE ReadMux(r, u) /\ muxOf[u] = None
          BY <3>1, <4>1, <5>3, <5>7 DEF ReadMux, Places, Working
        <5> QED
          BY <2>4, <5>2, <5>4, <5>5, <5>6, <5>7
      <4>2. CASE ~(s = r /\ v = u)
        <5>1. frame'[s][v] = frame[s][v]
          BY <2>4, <4>2 DEF ReadMux, CreateMux, Lock, Defer, CheckDone, GoTo, Becomes, TypeOK
        <5> QED
          BY <1>0, <3>1, <5>1 DEF FirstInv
      <4> QED
        BY <4>1, <4>2
    <3>2. UNCHANGED <<plan, done, again>>
      BY <2>4 DEF ReadMux, CreateMux, Lock, Defer, CheckDone, marks
    <3>3. \A x \in again : x[1] \in Units
      BY DEF TypeOK
    <3> QED
      BY <1>0, <3>1, <3>2, <3>3 DEF FirstInv, AppliedOnce, Method
  <2> QED
    BY <1>3, <2>1, <2>2, <2>3, <2>4 DEF UnitStep, QuietStep
<1> QED
  BY <1>1, <1>2, <1>3 DEF Next, vars, MapFault

------------------------------------------------------------------------------
(* The state of units, routines and commands is type correct for every     *)
(* plan and any number of signals (unit.go:270-424, executor.go).          *)
THEOREM UnitsTyped == Spec => []TypeOK
<1>1. Init => TypeOK
  BY InitMux
<1> QED
  BY <1>1, NextTypes, PTL DEF Spec

(* The invariant of the mutexes, whatever races.                           *)
LEMMA MuxHolds ==
  Spec => [](TypeOK /\ MuxInv /\ FirstInv /\ AppliedOnce)
<1>1. Init => (TypeOK /\ MuxInv /\ FirstInv /\ AppliedOnce)
  BY InitMux
<1>2. (TypeOK /\ MuxInv /\ FirstInv /\ AppliedOnce) /\ [Next]_vars
        => (TypeOK /\ MuxInv /\ FirstInv /\ AppliedOnce)'
  BY NextTypes, NextMux, NextFirst
<1> QED
  BY <1>1, <1>2, PTL DEF Spec

(* For every plan: routines meet in the locked part of a unit only if they *)
(* made two mutexes for it (unit.go:97).                                   *)
THEOREM MutexExcludes == Spec => []OneAtATime
<1>1. TypeOK /\ MuxInv /\ FirstInv /\ AppliedOnce => OneAtATime
  BY DEF MuxInv
<1> QED
  BY <1>1, MuxHolds, PTL

(* For every plan: a unit is applied or destroyed with success a second    *)
(* time only if two mutexes were made for it (unit.go:273, 397).           *)
THEOREM SucceedsOnce == Spec => []AppliedOnce
<1>1. TypeOK /\ MuxInv /\ FirstInv /\ AppliedOnce => AppliedOnce
  OBVIOUS
<1> QED
  BY <1>1, MuxHolds, PTL

------------------------------------------------------------------------------
(* Dependencies.                                                           *)
LEMMA BelowHoldsDeps ==
  ASSUME TypeOK, NEW u \in Units
  PROVE  /\ plan.deps[u] \subseteq Below(u)
         /\ \A v \in Below(u) : plan.deps[v] \subseteq Below(u)
         /\ Below(u) \subseteq Units
<1>1. plan.deps \in [Units -> SUBSET Units]
  BY PlansAssumption DEF TypeOK, PlanSpace
<1> QED
  BY <1>1 DEF Below, Reaches

LEMMA BelowIsLeast ==
  ASSUME TypeOK, NEW u \in Units, NEW S \in SUBSET Units,
         plan.deps[u] \subseteq S, \A w \in S : plan.deps[w] \subseteq S
  PROVE  Below(u) \subseteq S
BY DEF Below, Reaches

LEMMA BelowIsTransitive ==
  ASSUME TypeOK, NEW u \in Units, NEW v \in Below(u)
  PROVE  Below(v) \subseteq Below(u)
<1>1. v \in Units /\ plan.deps[v] \subseteq Below(u)
      /\ Below(u) \in SUBSET Units /\ \A w \in Below(u) : plan.deps[w] \subseteq Below(u)
  BY BelowHoldsDeps
<1> QED
  BY <1>1, BelowIsLeast

(* Without a circle, in any set of units there is one above none of them.  *)
LEMMA SomeUnitIsLowest ==
  ASSUME TypeOK, NEW A \in SUBSET Units, A # {}
  PROVE  \E u \in A : Below(u) \cap A = {}
<1> SUFFICES ASSUME \A u \in A : Below(u) \cap A # {}
             PROVE  FALSE
  OBVIOUS
<1> DEFINE S == {x \in Units : Below(x) \cap A # {}}
<1>1. S \in SUBSET Units /\ S # {} /\ A \subseteq S
  OBVIOUS
<1>2. NoCircle(plan) /\ plan.deps \in [Units -> SUBSET Units]
  BY PlansAssumption DEF TypeOK, PlanSpace
<1>3. PICK u \in S : plan.deps[u] \cap S = {}
  BY <1>1, <1>2 DEF NoCircle
<1> DEFINE D == {y \in Units : y \in plan.deps[u] \/ \E x \in plan.deps[u] : y \in Below(x)}
<1>4. Below(u) \subseteq D
  <2>1. plan.deps[u] \subseteq D
    BY <1>1, <1>2
  <2>2. ASSUME NEW w \in D PROVE plan.deps[w] \subseteq D
    <3>1. CASE w \in plan.deps[u]
      BY <1>2, <2>2, <3>1, BelowHoldsDeps
    <3>2. ASSUME NEW x \in plan.deps[u], w \in Below(x) PROVE plan.deps[w] \subseteq D
      BY <1>1, <1>2, <3>2, BelowHoldsDeps
    <3> QED
      BY <2>2, <3>1, <3>2
  <2> QED
    BY <1>1, <2>1, <2>2, BelowIsLeast
<1>5. PICK y \in A : y \in Below(u)
  OBVIOUS
<1>6. CASE y \in plan.deps[u]
  BY <1>1, <1>3, <1>5, <1>6
<1>7. ASSUME NEW x \in plan.deps[u], y \in Below(x) PROVE FALSE
  <2>1. x \in S
    BY <1>2, <1>5, <1>7
  <2> QED
    BY <1>3, <1>7, <2>1
<1> QED
  BY <1>4, <1>5, <1>6, <1>7

LEMMA NotBelowItself ==
  ASSUME TypeOK, NEW u \in Units
  PROVE  u \notin Below(u)
<1>1. \E v \in {u} : Below(v) \cap {u} = {}
  BY SomeUnitIsLowest
<1> QED
  BY <1>1

------------------------------------------------------------------------------
(* The calls of a routine: one is at work, the others wait for it in turn, *)
(* and all are for the routine's own unit or what that forces.             *)
Active(f) == f.at \notin {"out", "finished", "unmarked", "failed"}

StackOf(r) ==
  /\ \A u \in Units : Active(frame[r][u]) => r \in plan.planned /\ Calls(r, u)
  /\ \A u \in Units : frame[r][u].calls # None =>
       /\ Active(frame[r][frame[r][u].calls])
       /\ frame[r][u].calls \in ForcedDependencies(u)
       /\ frame[r][u].at = "forcing"
       /\ \A v \in Units : frame[r][v].calls = frame[r][u].calls => v = u
  /\ \A u, v \in Units :
       (/\ Active(frame[r][u]) /\ Active(frame[r][v])
        /\ frame[r][u].calls = None /\ frame[r][v].calls = None) => u = v
  /\ ~Active(frame[r][r]) => \A u \in Units : ~Active(frame[r][u])
  /\ frame[r][r].at # "out" => r \in plan.planned
StackInv == \A r \in Units : StackOf(r)

(* What a call has achieved.                                               *)
Achieved(dn, r, u, f) ==
  /\ f.at \in Working =>
       /\ f.todo \subseteq ForcedDependencies(u)
       /\ \A d \in ForcedDependencies(u) : d \in f.todo \/ <<d, "Apply">> \in dn
  /\ f.at \in {"scan", "run"} => f.todo = {}
  /\ f.at = "unlock" /\ f.ok => <<u, Method(r, u)>> \in dn
ForcedInv == \A r, u \in Units : Achieved(done, r, u, frame[r][u])

(* A unit is destroyed by its own routine, begun after the blockers' end.  *)
OrderInv ==
  \A r \in Units :
    /\ <<r, "Destroy">> \in done => plan.operation = "Destroy" /\ frame[r][r].at # "out"
    /\ frame[r][r].at # "out" => \A v \in Blockers(r) : frame[v][v].at \in Released

(* The kinds of steps.                                                     *)
Moves(r, u) ==
  \E f \in Frame : /\ Becomes(r, u, f) /\ Active(f) /\ f.calls = None
                   /\ Achieved(done', r, u, f)
Returns(r, u) ==
  \E ok \in BOOLEAN : Return(r, u, ok) /\ (ok => <<u, Method(r, u)>> \in done')

LEMMA StepKinds ==
  ASSUME TypeOK, CallInv, ForcedInv, NEW r \in Units, NEW u \in Units, UnitStep(r, u)
  PROVE  /\ plan' = plan /\ done \subseteq done'
         /\ \/ frame' = frame
            \/ Active(frame[r][u]) /\ frame[r][u].calls = None /\ (Moves(r, u) \/ Returns(r, u))
            \/ \E d \in Units : ForceApply(r, u, d)
<1> USE DEF At, locks, marks
<1> DEFINE f == frame[r][u]
<1>1. /\ f \in Frame /\ f.ok \in BOOLEAN /\ f.outputs \in BOOLEAN
      /\ f.at # "forcing" => f.calls = None
      /\ Achieved(done, r, u, f)
      /\ muxOf[u] \in Units \cup {None}
      /\ ForcedDependencies(u) \in SUBSET Units
  BY PlansAssumption
     DEF TypeOK, Frame, CallInv, CallFits, ForcedInv, ForcedDependencies, Below, Reaches
<1>2. ASSUME NEW place \in Places, GoTo(r, u, place), f.calls = None, done \subseteq done',
             \/ place \in {"initCheck", "initWait", "initScan", "initRun", "mux", "create", "lock", "defer"}
             \/ place \in {"scan", "run"} /\ f.at \in Working /\ f.todo = {}
             \/ place = "unlock" /\ <<u, Method(r, u)>> \in done'
      PROVE  Moves(r, u)
  <2> DEFINE g == [f EXCEPT !.at = place]
  <2>1. g \in Frame /\ g.at = place /\ g.calls = None /\ g.todo = f.todo /\ g.ok = f.ok
    BY <1>1, <1>2 DEF Frame
  <2>2. Becomes(r, u, g)
    BY <1>2 DEF GoTo
  <2>3. Achieved(done', r, u, g)
    BY <1>1, <1>2, <2>1 DEF Achieved, Working
  <2> HIDE DEF g
  <2> QED
    BY <1>2, <2>1, <2>2, <2>3 DEF Moves, Active
<1>3. ASSUME Return(r, u, FALSE) PROVE Returns(r, u)
  BY <1>3 DEF Returns
<1>4. ASSUME Fail(r, u), f.calls = None PROVE Moves(r, u)
  <2> DEFINE g == [f EXCEPT !.at = "unlock", !.ok = FALSE]
  <2>1. g \in Frame /\ g.at = "unlock" /\ g.calls = None /\ ~g.ok
    <3>1. g \in Frame
      BY <1>1, FrameTypes
    <3> QED
      BY <1>1, <1>4, <3>1 DEF Frame
  <2>2. Becomes(r, u, g) /\ Achieved(done', r, u, g)
    BY <1>4, <2>1 DEF Fail, Achieved, Working
  <2> HIDE DEF g
  <2> QED
    BY <2>1, <2>2 DEF Moves, Active
<1>5. CASE Build(r, u)
  BY <1>1, <1>2, <1>3, <1>5 DEF Build, Active, Places
<1>6. CASE CheckInit(r, u) \/ LockInit(r, u)
  BY <1>1, <1>2, <1>6 DEF CheckInit, LockInit, Active, Places
<1>7. CASE RunInit(r, u)
  BY <1>1, <1>2, <1>3, <1>7 DEF RunInit, Active, Places
<1>8. CASE EndInit(r, u)
  BY <1>1, <1>2, <1>3, <1>8 DEF EndInit, Active, Places
<1>9. CASE ReadMux(r, u)
  <2>1. CASE muxOf[u] = None
    BY <1>1, <1>2, <1>9, <2>1 DEF ReadMux, Active, Places
  <2>2. CASE muxOf[u] # None
    <3> DEFINE g == [f EXCEPT !.at = "lock", !.mutex = muxOf[u]]
    <3>1. g \in Frame /\ g.at = "lock" /\ g.calls = None
      BY <1>1, <1>9, <2>2, FrameTypes DEF ReadMux, Frame
    <3>2. Becomes(r, u, g) /\ Achieved(done', r, u, g)
      BY <1>9, <2>2, <3>1 DEF ReadMux, Achieved, Working
    <3> HIDE DEF g
    <3> QED
      BY <1>1, <1>9, <3>1, <3>2 DEF ReadMux, Moves, Active
  <2> QED
    BY <2>1, <2>2
<1>10. CASE CreateMux(r, u) \/ Lock(r, u)
  BY <1>1, <1>2, <1>10 DEF CreateMux, Lock, Active, Places, LockedPlaces
<1>11. CASE Defer(r, u)
  <2> DEFINE g == [f EXCEPT !.at = "check", !.undo = muxOf[u]]
  <2>1. g \in Frame /\ g.at = "check" /\ g.calls = None
    BY <1>1, <1>11, FrameTypes DEF Defer, Frame
  <2>2. Becomes(r, u, g) /\ Achieved(done', r, u, g)
    BY <1>11, <2>1 DEF Defer, Achieved, Working
  <2> HIDE DEF g
  <2> QED
    BY <1>1, <1>11, <2>1, <2>2 DEF Defer, Moves, Active
<1>12. CASE Unlock(r, u)
  <2>1. CASE Return(r, u, f.ok)
    <3>1. f.ok => <<u, Method(r, u)>> \in done
      BY <1>1, <1>12 DEF Unlock, Achieved
    <3>2. done' = done /\ f.calls = None /\ Active(f) /\ plan' = plan
      BY <1>1, <1>12 DEF Unlock, Active
    <3> QED
      BY <1>1, <2>1, <3>1, <3>2 DEF Returns
  <2> QED
    BY <1>12, <2>1 DEF Unlock
<1>13. CASE CheckDone(r, u)
  <2>1. CASE <<u, Method(r, u)>> \in done
    BY <1>1, <1>2, <1>13, <2>1 DEF CheckDone, Active, Places, LockedPlaces
  <2>2. CASE <<u, Method(r, u)>> \notin done
    <3> DEFINE g == [f EXCEPT !.at = "forcing", !.todo = ForcedDependencies(u)]
    <3>1. g \in Frame /\ g.at = "forcing" /\ g.calls = None /\ g.todo = ForcedDependencies(u)
      BY <1>1, <1>13, FrameTypes DEF CheckDone, Frame
    <3>2. Becomes(r, u, g) /\ Achieved(done', r, u, g)
      BY <1>13, <2>2, <3>1 DEF CheckDone, Achieved, Working
    <3> HIDE DEF g
    <3> QED
      BY <1>1, <1>13, <3>1, <3>2 DEF CheckDone, Moves, Active
  <2> QED
    BY <2>1, <2>2
<1>14. CASE ForcedAll(r, u)
  <2>1. f.calls = None
    BY <1>14 DEF ForcedAll, CallInv, CallFits
  <2> QED
    BY <1>2, <1>14, <2>1 DEF ForcedAll, Active, Places, LockedPlaces, Working
<1>15. CASE Run(r, u)
  <2>1. f.calls = None /\ f.at \in Working /\ f.todo = {} /\ Active(f)
    BY <1>1, <1>15 DEF Run, Achieved, Working, Active
  <2>2. plan' = plan /\ done' = done
    BY <1>15 DEF Run, Fail
  <2> QED
    BY <1>2, <1>4, <1>15, <2>1, <2>2 DEF Run, Places, LockedPlaces
<1>16. CASE EndRun(r, u)
  <2>1. f.calls = None /\ f.at \in Working /\ f.todo = {} /\ Active(f)
    BY <1>1, <1>16 DEF EndRun, Achieved, Working, Active
  <2>2. plan' = plan /\ done \subseteq done'
    BY <1>16 DEF EndRun, Fail, Succeed
  <2>3. ASSUME Becomes(r, u, [f EXCEPT !.at = "scan", !.outputs = TRUE]) PROVE Moves(r, u)
    <3> DEFINE g == [f EXCEPT !.at = "scan", !.outputs = TRUE]
    <3>1. g \in Frame /\ g.at = "scan" /\ g.calls = None /\ g.todo = f.todo
      <4>1. g \in Frame
        BY <1>1, FrameTypes
      <4> QED
        BY <1>1, <2>1, <4>1 DEF Frame
    <3>2. Achieved(done', r, u, g)
      BY <1>1, <2>1, <2>2, <3>1 DEF Achieved, Working
    <3> HIDE DEF g
    <3> QED
      BY <2>3, <3>1, <3>2 DEF Moves, Active, g
  <2>4. ASSUME Succeed(r, u) PROVE Moves(r, u)
    BY <1>2, <2>1, <2>2, <2>4 DEF Succeed, Places, LockedPlaces
  <2> QED
    BY <1>4, <1>16, <2>1, <2>2, <2>3, <2>4 DEF EndRun
<1>17. ASSUME NEW d \in Units, ForceApply(r, u, d)
       PROVE  plan' = plan /\ done' = done
  BY <1>17 DEF ForceApply
<1> QED
  BY <1>5, <1>6, <1>7, <1>8, <1>9, <1>10, <1>11, <1>12, <1>13, <1>14, <1>15, <1>16, <1>17
     DEF UnitStep

(* While a call is at work, nothing that its unit depends on is called.    *)
LEMMA NothingBelowTheTop ==
  ASSUME TypeOK, NEW r \in Units, StackOf(r), NEW u \in Units,
         Active(frame[r][u]), frame[r][u].calls = None
  PROVE  \A w \in Below(u) : ~Active(frame[r][w])
<1> DEFINE A == {w \in Below(u) : Active(frame[r][w])}
<1> SUFFICES ASSUME A # {} PROVE FALSE
  OBVIOUS
<1>1. A \in SUBSET Units
  BY BelowHoldsDeps
<1>2. PICK v \in A : Below(v) \cap A = {}
  BY <1>1, SomeUnitIsLowest
<1>3. v \in Units /\ v # u /\ Active(frame[r][v])
  BY <1>1, <1>2, NotBelowItself
<1>4. frame[r][v].calls # None
  BY <1>3 DEF StackOf
<1> DEFINE c == frame[r][v].calls
<1>5. Active(frame[r][c]) /\ c \in Below(v)
  BY <1>3, <1>4 DEF StackOf, ForcedDependencies
<1>6. Below(v) \subseteq Below(u)
  BY <1>2, BelowIsTransitive
<1> HIDE DEF c
<1> QED
  BY <1>2, <1>5, <1>6

LEMMA PlanKept ==
  ASSUME plan' = plan
  PROVE  \A r, u \in Units :
           /\ Below(u)' = Below(u) /\ ForcedDependencies(u)' = ForcedDependencies(u)
           /\ Method(r, u)' = Method(r, u) /\ Calls(r, u)' = Calls(r, u)
           /\ Blockers(u)' = Blockers(u)
BY DEF Below, Reaches, ForcedDependencies, Method, Calls, Blockers

LEMMA MovesKeepStack ==
  ASSUME TypeOK, NEW r \in Units, StackOf(r), NEW u \in Units, plan' = plan,
         Active(frame[r][u]), frame[r][u].calls = None, Moves(r, u)
  PROVE  StackOf(r)'
<1>1. PICK f \in Frame : Becomes(r, u, f) /\ Active(f) /\ f.calls = None
  BY DEF Moves
<1>2. \A v \in Units : frame'[r][v] = IF v = u THEN f ELSE frame[r][v]
  BY <1>1, BecomesTypes
<1>3. \A v \in Units : /\ Active(frame'[r][v]) <=> Active(frame[r][v])
                       /\ frame'[r][v].calls = frame[r][v].calls
                       /\ frame[r][v].calls # None => frame'[r][v].at = frame[r][v].at
  BY <1>1, <1>2
<1>4. r \in plan.planned
  BY DEF StackOf
<1>5. ASSUME NEW v \in Units, frame'[r][v].calls # None
      PROVE  /\ Active(frame'[r][frame'[r][v].calls])
             /\ frame'[r][v].calls \in ForcedDependencies(v)
             /\ frame'[r][v].at = "forcing"
             /\ \A w \in Units : frame'[r][w].calls = frame'[r][v].calls => w = v
  <2>1. frame'[r][v].calls \in Units
    BY <1>3, <1>5, BelowHoldsDeps DEF StackOf, ForcedDependencies
  <2> QED
    BY <1>3, <1>5, <2>1 DEF StackOf
<1>6. \A v, w \in Units : (/\ Active(frame'[r][v]) /\ Active(frame'[r][w])
                           /\ frame'[r][v].calls = None /\ frame'[r][w].calls = None) => v = w
  BY <1>3 DEF StackOf
<1>7. ~Active(frame'[r][r]) => \A v \in Units : ~Active(frame'[r][v])
  BY <1>3 DEF StackOf
<1>8. \A v \in Units : Active(frame'[r][v]) => Calls(r, v)
  BY <1>3 DEF StackOf
<1> QED
  BY <1>4, <1>5, <1>6, <1>7, <1>8, PlanKept DEF StackOf

LEMMA ReturnKeepsStack ==
  ASSUME TypeOK, NEW r \in Units, StackOf(r), NEW u \in Units, plan' = plan,
         Active(frame[r][u]), frame[r][u].calls = None,
         NEW ok \in BOOLEAN, Return(r, u, ok)
  PROVE  StackOf(r)'
<1> DEFINE Called(v) == frame[r][v].calls = u
<1>1. \A v \in Units : frame'[r][v] = IF v = u THEN Left(r, u, ok)
                                      ELSE IF Called(v) THEN Resumed(frame[r][v], u, ok)
                                      ELSE frame[r][v]
  BY ReturnTypes
<1>2. u # None
  BY NoneAssumption
<1>3. ~Active(frame'[r][u]) /\ frame'[r][u].calls = None
  BY <1>1 DEF Left, NoFrame, Active, Over, Released
<1>4. ASSUME NEW v \in Units, v # u, Called(v)
      PROVE  Active(frame[r][v]) /\ Active(frame'[r][v]) /\ frame'[r][v].calls = None
  <2>1. frame[r][v].at = "forcing" /\ frame[r][v] \in Frame
    BY <1>2, <1>4 DEF StackOf, TypeOK
  <2> QED
    BY <1>1, <1>4, <2>1 DEF Resumed, Active, Frame
<1>5. \A v \in Units : v # u /\ ~Called(v) => frame'[r][v] = frame[r][v]
  BY <1>1
<1> HIDE DEF Called
<1>6. \A v \in Units : Active(frame'[r][v]) => Active(frame[r][v]) /\ v # u
  BY <1>3, <1>4, <1>5
<1>7. ASSUME NEW v \in Units, frame'[r][v].calls # None
      PROVE  /\ Active(frame'[r][frame'[r][v].calls])
             /\ frame'[r][v].calls \in ForcedDependencies(v)
             /\ frame'[r][v].at = "forcing"
             /\ \A w \in Units : frame'[r][w].calls = frame'[r][v].calls => w = v
  <2>1. v # u /\ ~Called(v) /\ frame'[r][v] = frame[r][v]
    BY <1>3, <1>4, <1>5, <1>7
  <2> DEFINE c == frame[r][v].calls
  <2>2. c # None /\ c # u /\ c \in ForcedDependencies(v) /\ c \in Units /\ Active(frame[r][c])
        /\ frame[r][v].at = "forcing"
    BY <1>7, <2>1, BelowHoldsDeps DEF StackOf, ForcedDependencies, Called
  <2>3. Active(frame'[r][c])
    BY <1>4, <1>5, <2>2
  <2>4. ASSUME NEW w \in Units, frame'[r][w].calls = c PROVE w = v
    <3>1. frame'[r][w] = frame[r][w]
      BY <1>3, <1>4, <1>5, <2>2, <2>4
    <3> QED
      BY <2>2, <2>4, <3>1 DEF StackOf
  <2> HIDE DEF c
  <2> QED
    BY <2>1, <2>2, <2>3, <2>4 DEF c
<1>8. ASSUME NEW v \in Units, NEW w \in Units, Active(frame'[r][v]), Active(frame'[r][w]),
             frame'[r][v].calls = None, frame'[r][w].calls = None
      PROVE  v = w
  <2>1. ASSUME NEW x \in Units, Active(frame'[r][x]), frame'[r][x].calls = None PROVE Called(x)
    BY <1>5, <1>6, <2>1 DEF StackOf
  <2>2. Called(v) /\ Called(w)
    BY <1>8, <2>1
  <2> QED
    BY <1>2, <2>2 DEF StackOf, Called
<1>9. ~Active(frame'[r][r]) => \A v \in Units : ~Active(frame'[r][v])
  <2>1. CASE r = u
    <3>1. \A v \in Units : Active(frame[r][v]) => v = u \/ v \in Below(u)
      BY <2>1 DEF StackOf, Calls
    <3> QED
      BY <1>6, <3>1, NothingBelowTheTop
  <2>2. CASE r # u
    <3>1. Active(frame[r][r])
      BY DEF StackOf
    <3> QED
      BY <1>4, <1>5, <2>2, <3>1
  <2> QED
    BY <2>1, <2>2
<1>10. r \in plan.planned /\ \A v \in Units : Active(frame'[r][v]) => Calls(r, v)
  BY <1>6 DEF StackOf
<1> QED
  BY <1>7, <1>8, <1>9, <1>10, PlanKept DEF StackOf

LEMMA ForceApplyKeepsStack ==
  ASSUME TypeOK, ForcedInv, NEW r \in Units, StackOf(r), NEW u \in Units, plan' = plan,
         NEW d \in Units, ForceApply(r, u, d)
  PROVE  StackOf(r)' /\ d # r /\ d # u
<1>1. /\ frame[r][u].at = "forcing" /\ frame[r][u].calls = None /\ Active(frame[r][u])
      /\ d \in frame[r][u].todo /\ frame[r][u] \in Frame /\ frame \in [Units -> [Units -> Frame]]
  BY DEF ForceApply, At, Active, TypeOK
<1>2. d \in ForcedDependencies(u) /\ d \in Below(u) /\ d \in plan.forced
  BY <1>1 DEF ForcedInv, Achieved, Working, ForcedDependencies
<1>3. d # u /\ ~Active(frame[r][d]) /\ frame[r][d].calls = None
  BY <1>1, <1>2, NotBelowItself, NothingBelowTheTop DEF StackOf, Active
<1>4. r \in plan.planned /\ Active(frame[r][r]) /\ Calls(r, u)
  BY <1>1 DEF StackOf
<1>5. d # r
  BY <1>3, <1>4
<1>6. Calls(r, d)
  <2>1. CASE u = r
    BY <1>2, <2>1 DEF Calls
  <2>2. CASE u \in Below(r)
    BY <1>2, <2>2, BelowIsTransitive DEF Calls
  <2> QED
    BY <1>4, <2>1, <2>2 DEF Calls
<1> DEFINE f == [frame[r][u] EXCEPT !.calls = d]
           g == [NoFrame EXCEPT !.at = "build"]
<1>7. /\ f.calls = d /\ f.at = "forcing" /\ Active(f)
      /\ g.calls = None /\ Active(g)
  BY <1>1 DEF Frame, NoFrame, Active
<1>8. \A v \in Units : frame'[r][v] = IF v = d THEN g ELSE IF v = u THEN f ELSE frame[r][v]
  BY <1>1, <1>3 DEF ForceApply
<1> HIDE DEF f, g
<1>9. d # None
  BY NoneAssumption
<1>10. \A v \in Units : Active(frame'[r][v]) <=> (v = d \/ Active(frame[r][v]))
  BY <1>1, <1>7, <1>8
<1>11. \A v \in Units : frame[r][v].calls # d
  BY <1>3, <1>9 DEF StackOf
<1>12. ASSUME NEW v \in Units, frame'[r][v].calls # None
       PROVE  /\ Active(frame'[r][frame'[r][v].calls])
              /\ frame'[r][v].calls \in ForcedDependencies(v)
              /\ frame'[r][v].at = "forcing"
              /\ \A w \in Units : frame'[r][w].calls = frame'[r][v].calls => w = v
  <2>1. CASE v = u
    BY <1>2, <1>3, <1>7, <1>8, <1>9, <1>10, <1>11, <2>1
  <2>2. CASE v # u
    <3> DEFINE c == frame[r][v].calls
    <3>1. v # d /\ frame'[r][v] = frame[r][v]
      BY <1>7, <1>8, <1>12, <2>2
    <3>2. c # None /\ c # d /\ c \in ForcedDependencies(v) /\ c \in Units
          /\ Active(frame[r][c]) /\ frame[r][v].at = "forcing"
      BY <1>11, <1>12, <3>1, BelowHoldsDeps DEF StackOf, ForcedDependencies
    <3>3. ASSUME NEW w \in Units, frame'[r][w].calls = c PROVE w = v
      <4>1. frame'[r][w] = frame[r][w]
        BY <1>7, <1>8, <3>2, <3>3
      <4> QED
        BY <3>2, <3>3, <4>1 DEF StackOf
    <3> HIDE DEF c
    <3> QED
      BY <1>10, <3>1, <3>2, <3>3 DEF c
  <2> QED
    BY <2>1, <2>2
<1>13. \A v \in Units : Active(frame'[r][v]) /\ frame'[r][v].calls = None => v = d
  <2> TAKE v \in Units
  <2>1. CASE v # u /\ v # d
    <3>1. frame'[r][v] = frame[r][v]
      BY <1>8, <2>1
    <3> QED
      BY <1>1, <2>1, <3>1 DEF StackOf
  <2>2. CASE v = u
    BY <1>3, <1>7, <1>8, <1>9, <2>2
  <2> QED
    BY <2>1, <2>2
<1>14. Active(frame'[r][r]) /\ \A v \in Units : Active(frame'[r][v]) => Calls(r, v)
  BY <1>4, <1>6, <1>10 DEF StackOf
<1> QED
  BY <1>3, <1>4, <1>5, <1>12, <1>13, <1>14, PlanKept DEF StackOf

LEMMA BeginKeepsStack ==
  ASSUME TypeOK, CallInv, NEW r \in Units, StackOf(r), plan' = plan, Begin(r)
  PROVE  StackOf(r)'
<1> DEFINE f == [frame[r][r] EXCEPT !.at = "build"]
<1>1. frame[r][r].at = "out" /\ frame[r][r] \in Frame /\ r \in plan.planned
  BY DEF Begin, TypeOK
<1>2. f.at = "build" /\ f.calls = None /\ Active(f)
  BY <1>1 DEF CallInv, CallFits, Frame, Active
<1>3. \A v \in Units : frame'[r][v] = IF v = r THEN f ELSE frame[r][v]
  BY GoToTypes DEF Begin, Places
<1> HIDE DEF f
<1>4. \A v \in Units : ~Active(frame[r][v]) /\ frame[r][v].calls = None
  BY <1>1 DEF StackOf, Active
<1>5. \A v \in Units : frame'[r][v].calls = None /\ (Active(frame'[r][v]) => v = r)
  BY <1>2, <1>3, <1>4
<1>6. Active(frame'[r][r]) /\ Calls(r, r)
  BY <1>2, <1>3 DEF Calls
<1> QED
  BY <1>1, <1>5, <1>6, PlanKept DEF StackOf

LEMMA CallStepKeepsStack ==
  ASSUME TypeOK, CallInv, ForcedInv, StackInv, NEW r \in Units, NEW u \in Units,
         UnitStep(r, u)
  PROVE  StackInv'
<1>1. plan' = plan /\ \A s \in Units \ {r} : frame'[s] = frame[s]
  BY StepKinds, CallStepTypes
<1>2. ASSUME NEW s \in Units, frame'[s] = frame[s] PROVE StackOf(s)'
  BY <1>1, <1>2, PlanKept DEF StackInv, StackOf
<1>3. StackOf(r)'
  <2>1. StackOf(r)
    BY DEF StackInv
  <2>2. CASE frame' = frame
    BY <1>2, <2>2
  <2>3. CASE Active(frame[r][u]) /\ frame[r][u].calls = None /\ Moves(r, u)
    BY <1>1, <2>1, <2>3, MovesKeepStack
  <2>4. CASE Active(frame[r][u]) /\ frame[r][u].calls = None /\ Returns(r, u)
    BY <1>1, <2>1, <2>4, ReturnKeepsStack DEF Returns
  <2>5. ASSUME NEW d \in Units, ForceApply(r, u, d) PROVE StackOf(r)'
    BY <1>1, <2>1, <2>5, ForceApplyKeepsStack
  <2> QED
    BY <2>2, <2>3, <2>4, <2>5, StepKinds
<1> QED
  BY <1>1, <1>2, <1>3 DEF StackInv

(* A call that returns without error to the call that forced it was an     *)
(* Apply: no routine forces its own unit.                                  *)
LEMMA ForcedCallApplies ==
  ASSUME TypeOK, NEW r \in Units, StackOf(r), NEW v \in Units, frame[r][v].calls # None
  PROVE  Method(r, frame[r][v].calls) = "Apply"
<1> DEFINE c == frame[r][v].calls
<1>1. Active(frame[r][v]) /\ c \in Below(v) /\ Calls(r, v)
  BY DEF StackOf, Active, ForcedDependencies
<1>2. c # r
  <2>1. CASE v = r
    BY <1>1, <2>1, NotBelowItself
  <2>2. CASE v \in Below(r)
    BY <1>1, <2>2, BelowIsTransitive, NotBelowItself
  <2> QED
    BY <1>1, <2>1, <2>2 DEF Calls
<1> QED
  BY <1>2 DEF Method

LEMMA CallStepKeepsForced ==
  ASSUME TypeOK, CallInv, ForcedInv, StackInv, NEW r \in Units, NEW u \in Units,
         UnitStep(r, u)
  PROVE  ForcedInv'
<1>1. plan' = plan /\ done \subseteq done' /\ \A s \in Units \ {r} : frame'[s] = frame[s]
  BY StepKinds, CallStepTypes
<1>2. ASSUME NEW s \in Units, NEW v \in Units, frame'[s][v] = frame[s][v]
      PROVE  Achieved(done', s, v, frame'[s][v])
  BY <1>1, <1>2 DEF ForcedInv, Achieved
<1>3. ASSUME NEW v \in Units PROVE Achieved(done', r, v, frame'[r][v])
  <2>1. CASE frame' = frame
    BY <1>2, <2>1
  <2>2. CASE Moves(r, u)
    <3>1. PICK f \in Frame : Becomes(r, u, f) /\ Achieved(done', r, u, f)
      BY <2>2 DEF Moves
    <3>2. frame'[r][v] = IF v = u THEN f ELSE frame[r][v]
      BY <3>1, BecomesTypes
    <3> QED
      BY <1>2, <3>1, <3>2
  <2>3. CASE Returns(r, u)
    <3>1. PICK ok \in BOOLEAN : Return(r, u, ok) /\ (ok => <<u, Method(r, u)>> \in done')
      BY <2>3 DEF Returns
    <3>2. frame'[r][v] = IF v = u THEN Left(r, u, ok)
                         ELSE IF frame[r][v].calls = u THEN Resumed(frame[r][v], u, ok)
                         ELSE frame[r][v]
      BY <3>1, ReturnTypes
    <3>3. CASE v = u
      BY <3>2, <3>3 DEF Left, NoFrame, Achieved, Working
    <3>4. CASE v # u /\ frame[r][v].calls = u
      <4> DEFINE f == frame[r][v]
                 g == Resumed(f, u, ok)
      <4>1. f.at = "forcing" /\ f \in Frame /\ Achieved(done, r, v, f)
            /\ Method(r, u) = "Apply"
        <5>1. StackOf(r) /\ frame[r][v].calls # None
          BY <3>4, NoneAssumption DEF StackInv
        <5>2. Method(r, frame[r][v].calls) = "Apply"
          BY <5>1, ForcedCallApplies
        <5>3. f.at = "forcing" /\ f \in Frame /\ Achieved(done, r, v, f)
          BY <5>1 DEF StackOf, TypeOK, ForcedInv
        <5> QED
          BY <3>4, <5>2, <5>3
      <4>2. CASE ok
        <5>1. g.at = "forcing" /\ g.todo = f.todo \ {u} /\ <<u, "Apply">> \in done'
          BY <3>1, <4>1, <4>2 DEF Resumed, Frame
        <5>2. Achieved(done', r, v, g)
          BY <1>1, <4>1, <5>1 DEF Achieved, Working
        <5> QED
          BY <3>2, <3>4, <5>2
      <4>3. CASE ~ok
        <5>1. g.at = "unlock" /\ ~g.ok
          BY <4>1, <4>3 DEF Resumed, Frame
        <5>2. Achieved(done', r, v, g)
          BY <5>1 DEF Achieved, Working
        <5> QED
          BY <3>2, <3>4, <5>2
      <4> QED
        BY <4>2, <4>3
    <3>5. CASE v # u /\ frame[r][v].calls # u
      BY <1>2, <3>2, <3>5
    <3> QED
      BY <3>3, <3>4, <3>5
  <2>4. ASSUME NEW d \in Units, ForceApply(r, u, d)
        PROVE  Achieved(done', r, v, frame'[r][v])
    <3>0. /\ frame \in [Units -> [Units -> Frame]] /\ frame[r][u].at = "forcing"
      BY <2>4 DEF TypeOK, ForceApply, At
    <3>1. CASE v = d
      <4>1. frame'[r][v] = [NoFrame EXCEPT !.at = "build"]
        BY <2>4, <3>0, <3>1 DEF ForceApply
      <4> QED
        BY <4>1 DEF NoFrame, Achieved, Working
    <3>2. CASE v = u /\ v # d
      <4>1. frame'[r][v] = [frame[r][u] EXCEPT !.calls = d]
        BY <2>4, <3>0, <3>2 DEF ForceApply
      <4>2. /\ frame'[r][v].at = "forcing" /\ frame'[r][v].todo = frame[r][v].todo
        BY <3>0, <3>2, <4>1 DEF Frame
      <4> QED
        BY <1>1, <3>0, <3>2, <4>2 DEF ForcedInv, Achieved, Working
    <3>3. CASE v # u /\ v # d
      BY <1>2, <2>4, <3>0, <3>3 DEF ForceApply
    <3> QED
      BY <3>1, <3>2, <3>3
  <2> QED
    BY <2>1, <2>2, <2>3, <2>4, StepKinds
<1>4. \A s, v \in Units : Achieved(done', s, v, frame'[s][v])
  BY <1>1, <1>2, <1>3
<1> QED
  BY <1>1, <1>4, PlanKept DEF ForcedInv, Achieved

(* A routine that has begun stays begun, one that is released, released.   *)
LEMMA OwnFrames ==
  ASSUME TypeOK, CallInv, ForcedInv, StackInv, NEW r \in Units, NEW u \in Units,
         UnitStep(r, u)
  PROVE  \A s \in Units : /\ frame'[s][s].at = "out" <=> frame[s][s].at = "out"
                          /\ frame[s][s].at \in Released => frame'[s][s].at \in Released
<1>1. \A s \in Units \ {r} : frame'[s] = frame[s]
  BY CallStepTypes
<1> SUFFICES /\ frame'[r][r].at = "out" <=> frame[r][r].at = "out"
             /\ frame[r][r].at \in Released => frame'[r][r].at \in Released
  BY <1>1
<1>2. CASE frame' = frame
  BY <1>2
<1>3. CASE Active(frame[r][u]) /\ Moves(r, u)
  <2>1. PICK f \in Frame : Becomes(r, u, f) /\ Active(f)
    BY <1>3 DEF Moves
  <2>2. frame'[r][r] = IF r = u THEN f ELSE frame[r][r]
    BY <2>1, BecomesTypes
  <2> QED
    BY <1>3, <2>1, <2>2 DEF Active, Released
<1>4. CASE Active(frame[r][u]) /\ Returns(r, u)
  <2>1. PICK ok \in BOOLEAN : Return(r, u, ok)
    BY <1>4 DEF Returns
  <2>2. frame'[r][r] = IF r = u THEN Left(r, u, ok)
                       ELSE IF frame[r][r].calls = u THEN Resumed(frame[r][r], u, ok)
                       ELSE frame[r][r]
    BY <2>1, ReturnTypes
  <2>3. CASE r = u
    BY <1>4, <2>2, <2>3 DEF Left, NoFrame, Active, Over, Released
  <2>4. CASE r # u /\ frame[r][r].calls = u
    <3>1. frame[r][r].at = "forcing" /\ frame[r][r] \in Frame
      BY <2>4, NoneAssumption DEF StackInv, StackOf, TypeOK
    <3> QED
      BY <2>2, <2>4, <3>1 DEF Resumed, Frame, Released
  <2> QED
    BY <2>2, <2>3, <2>4
<1>5. ASSUME NEW d \in Units, ForceApply(r, u, d)
      PROVE  /\ frame'[r][r].at = "out" <=> frame[r][r].at = "out"
             /\ frame[r][r].at \in Released => frame'[r][r].at \in Released
  <2>1. plan' = plan /\ StackOf(r)
    BY StepKinds DEF StackInv
  <2>2. d # r /\ frame \in [Units -> [Units -> Frame]] /\ frame[r][u].at = "forcing"
    BY <1>5, <2>1, ForceApplyKeepsStack DEF TypeOK, ForceApply, At
  <2>3. frame'[r][r] = IF r = u THEN [frame[r][u] EXCEPT !.calls = d] ELSE frame[r][r]
    BY <1>5, <2>2 DEF ForceApply
  <2> QED
    BY <2>2, <2>3 DEF Frame
<1> QED
  BY <1>2, <1>3, <1>4, <1>5, StepKinds

LEMMA DoneGrows ==
  ASSUME NEW r \in Units, NEW u \in Units, UnitStep(r, u)
  PROVE  \/ done' = done
         \/ done' = done \cup {<<u, Method(r, u)>>} /\ frame[r][u].at = "run"
BY DEF UnitStep, Build, CheckInit, LockInit, RunInit, EndInit, ReadMux, CreateMux, Lock, Defer, Unlock,
   CheckDone, ForceApply, ForcedAll, Run, EndRun, Fail, Succeed, marks, At

LEMMA CallStepKeepsOrder ==
  ASSUME TypeOK, CallInv, ForcedInv, StackInv, OrderInv, NEW r \in Units, NEW u \in Units,
         UnitStep(r, u)
  PROVE  OrderInv'
<1>1. plan' = plan
  BY StepKinds
<1>2. ASSUME NEW s \in Units, <<s, "Destroy">> \in done'
      PROVE  plan.operation = "Destroy" /\ frame'[s][s].at # "out"
  <2>1. CASE <<s, "Destroy">> \in done
    BY <2>1, OwnFrames DEF OrderInv
  <2>2. CASE <<s, "Destroy">> \notin done
    <3>1. s = u /\ Method(r, u) = "Destroy" /\ frame[r][u].at = "run"
      BY <1>2, <2>2, DoneGrows
    <3>2. u = r /\ plan.operation = "Destroy"
      BY <3>1 DEF Method
    <3> QED
      BY <3>1, <3>2, OwnFrames
  <2> QED
    BY <2>1, <2>2
<1>3. ASSUME NEW s \in Units, frame'[s][s].at # "out", NEW v \in Blockers(s)
      PROVE  frame'[v][v].at \in Released
  <2>1. v \in Units
    BY PlansAssumption DEF Blockers, TypeOK, PlanSpace
  <2> QED
    BY <1>3, <2>1, OwnFrames DEF OrderInv
<1> QED
  BY <1>1, <1>2, <1>3, PlanKept DEF OrderInv

CallsInv == CallInv /\ StackInv /\ ForcedInv /\ OrderInv

LEMMA InitCalls == Init => CallsInv
<1> SUFFICES ASSUME Init PROVE CallsInv
  OBVIOUS
<1>1. \A r, u \in Units : /\ frame[r][u].at = "out" /\ frame[r][u].calls = None
                          /\ frame[r][u] = NoFrame
  BY DEF Init, NoFrame
<1>2. CallInv /\ StackInv
  BY <1>1 DEF CallInv, CallFits, StackInv, StackOf, Active
<1>3. ForcedInv
  BY <1>1 DEF ForcedInv, Achieved, Working
<1>4. OrderInv
  BY <1>1 DEF Init, OrderInv
<1> QED
  BY <1>2, <1>3, <1>4 DEF CallsInv

LEMMA NextCalls ==
  ASSUME TypeOK, MuxInv, CallsInv, [Next]_vars
  PROVE  CallsInv'
<1> USE DEF CallsInv
<1>0. CallInv'
  BY NextMux DEF MuxInv
<1>1. ASSUME UNCHANGED unitVars PROVE CallsInv'
  <2>1. frame' = frame /\ plan' = plan /\ done' = done
    BY <1>1 DEF unitVars
  <2>2. StackInv'
    BY <2>1, PlanKept DEF StackInv, StackOf
  <2>3. ForcedInv'
    BY <2>1, PlanKept DEF ForcedInv, Achieved
  <2>4. OrderInv'
    BY <2>1, PlanKept DEF OrderInv
  <2> QED
    BY <1>0, <2>2, <2>3, <2>4
<1>2. ASSUME NEW r \in Units, Begin(r) PROVE CallsInv'
  <2>1. /\ plan' = plan /\ done' = done
        /\ GoTo(r, r, "build") /\ frame[r][r].at = "out" /\ frame[r][r] \in Frame
        /\ \A v \in Blockers(r) : frame[v][v].at \in Released
    BY <1>2 DEF Begin, marks, TypeOK
  <2>2. /\ \A s \in Units \ {r} : frame'[s] = frame[s]
        /\ \A v \in Units \ {r} : frame'[r][v] = frame[r][v]
        /\ frame'[r][r].at = "build"
    <3>1. "build" \in Places
      BY DEF Places
    <3>2. \A s, v \in Units : frame'[s][v] = IF s = r /\ v = r
                                            THEN [frame[r][r] EXCEPT !.at = "build"]
                                            ELSE frame[s][v]
      BY <2>1, <3>1, GoToTypes
    <3>3. \A s \in Units \ {r} : frame'[s] = frame[s]
      BY <2>1, <3>1, GoToTypes
    <3> QED
      BY <2>1, <3>2, <3>3 DEF Frame
  <2>3. StackInv'
    <3>1. ASSUME NEW s \in Units \ {r} PROVE StackOf(s)'
      BY <2>1, <2>2, PlanKept DEF StackInv, StackOf
    <3>2. StackOf(r)'
      BY <1>2, <2>1, BeginKeepsStack DEF StackInv
    <3> QED
      BY <3>1, <3>2 DEF StackInv
  <2>4. ForcedInv'
    <3>1. ASSUME NEW s \in Units, NEW v \in Units PROVE Achieved(done', s, v, frame'[s][v])
      <4>1. CASE s = r /\ v = r
        BY <2>2, <4>1 DEF Achieved, Working
      <4>2. CASE ~(s = r /\ v = r)
        BY <2>1, <2>2, <4>2 DEF ForcedInv
      <4> QED
        BY <4>1, <4>2
    <3> QED
      BY <2>1, <3>1, PlanKept DEF ForcedInv, Achieved
  <2>5. OrderInv'
    <3>1. ASSUME NEW s \in Units, frame[s][s].at \in Released PROVE frame'[s][s].at \in Released
      BY <2>1, <2>2, <3>1 DEF Released
    <3>2. \A s \in Units : \A v \in Blockers(s) : v \in Units
      BY PlansAssumption DEF Blockers, TypeOK, PlanSpace
    <3> QED
      BY <2>1, <2>2, <3>1, <3>2, PlanKept DEF OrderInv
  <2> QED
    BY <1>0, <2>3, <2>4, <2>5
<1>3. ASSUME NEW r \in Units, NEW u \in Units, UnitStep(r, u) PROVE CallsInv'
  BY <1>0, <1>3, CallStepKeepsStack, CallStepKeepsForced, CallStepKeepsOrder
<1> QED
  BY <1>1, <1>2, <1>3 DEF Next, vars, MapFault

(* Of what the plan keeps for a unit that is at work nothing has begun.    *)
LEMMA NothingKeptBegun ==
  ASSUME TypeOK, CallsInv, plan.operation = "Destroy", NEW r \in plan.planned,
         Active(frame[r][r])
  PROVE  \A d \in KeptFor(r) : frame[d][d].at = "out"
<1> DEFINE S == {w \in plan.planned : frame[w][w].at = "out"}
<1>1. plan \in PlanSpace /\ plan.deps \in [Units -> SUBSET Units] /\ plan.planned \subseteq Units
  BY PlansAssumption DEF TypeOK, PlanSpace
<1>2. ASSUME NEW w \in plan.planned, frame[w][w].at \notin Released,
             NEW d \in plan.deps[w] \cap plan.planned
      PROVE  d \in S
  <2>1. w \in Blockers(d) /\ d \in Units
    BY <1>1, <1>2 DEF Blockers
  <2> QED
    BY <1>2, <2>1 DEF CallsInv, OrderInv
<1>3. plan.deps[r] \cap plan.planned \subseteq S
  BY <1>1, <1>2 DEF Active, Over, Released
<1>4. ASSUME NEW w \in S PROVE plan.deps[w] \cap plan.planned \subseteq S
  BY <1>2 DEF Released
<1>5. S \in SUBSET Units
  BY <1>1
<1>6. KeptFor(r) \subseteq S
  BY <1>3, <1>4, <1>5 DEF KeptFor
<1> QED
  BY <1>6

LEMMA CallsForceFirst ==
  ASSUME TypeOK, CallsInv
  PROVE  ForcedFirst
<1> SUFFICES ASSUME NEW r \in Units, NEW u \in Units, frame[r][u].at = "run",
                    NEW d \in Below(u) \cap plan.forced
             PROVE  /\ <<d, "Apply">> \in done
                    /\ d \in KeptFor(r) => <<d, "Destroy">> \notin done
  BY DEF ForcedFirst
<1> USE DEF CallsInv
<1>1. <<d, "Apply">> \in done
  BY DEF ForcedInv, Achieved, Working, ForcedDependencies
<1>2. ASSUME d \in KeptFor(r), <<d, "Destroy">> \in done PROVE FALSE
  <2>1. d \in Units
    BY <1>2 DEF KeptFor
  <2>2. plan.operation = "Destroy" /\ frame[d][d].at # "out"
    BY <1>2, <2>1 DEF OrderInv
  <2>3. r \in plan.planned /\ Active(frame[r][r])
    BY DEF StackInv, StackOf, Active, Over, Released
  <2> QED
    BY <1>2, <2>2, <2>3, NothingKeptBegun
<1> QED
  BY <1>1, <1>2

LEMMA CallsHold == Spec => [](TypeOK /\ MuxInv /\ CallsInv)
<1>1. Init => TypeOK /\ MuxInv /\ CallsInv
  BY InitMux, InitCalls
<1>2. (TypeOK /\ MuxInv /\ CallsInv) /\ [Next]_vars => (TypeOK /\ MuxInv /\ CallsInv)'
  BY NextTypes, NextMux, NextCalls
<1> QED
  BY <1>1, <1>2, PTL DEF Spec

(* For every plan without a circle: the commands of a unit run only while  *)
(* everything with force_apply below it is applied, and not destroyed by   *)
(* a plan that keeps it for the routine (common/unit.go:246).              *)
THEOREM ForcesFirst == Spec => []ForcedFirst
<1>1. TypeOK /\ MuxInv /\ CallsInv => ForcedFirst
  BY CallsForceFirst
<1> QED
  BY <1>1, CallsHold, PTL

------------------------------------------------------------------------------
(* How the process ends.                                                   *)
(* Only routines that call a unit make a mutex for it.                     *)
MakersInv == \A u \in Units : \A r \in made[u] : r \in plan.planned /\ Calls(r, u)

(* Without a signal nothing is in a channel, and no trap has taken one.    *)
SignalInv ==
  signals = 0 => \A c \in Callers : ~cmd[c].buffered /\ cmd[c].trap # "forwarding"

FateInv == MakersInv /\ SignalInv /\ OnlySharingKills

(* Two routines that are busy with a unit share it.                        *)
LEMMA BusyShare ==
  ASSUME CallsInv, NEW u \in Units, NEW r \in Units, NEW s \in Units, r # s,
         Active(frame[r][u]), Active(frame[s][u])
  PROVE  Shared(u)
<1>1. r \in plan.planned /\ Calls(r, u) /\ s \in plan.planned /\ Calls(s, u)
  BY DEF CallsInv, StackInv, StackOf
<1> QED
  BY <1>1 DEF Shared

(* The deferred Unlock finds the mutex locked, or the unit is shared.      *)
LEMMA UnlockOfSharedFails ==
  ASSUME MuxInv, MakersInv, NEW r \in Units, NEW u \in Units,
         frame[r][u].at = "unlock", <<u, frame[r][u].undo>> \notin locked
  PROVE  Shared(u)
<1>1. frame[r][u].mutex \in made[u] /\ frame[r][u].undo \in made[u]
  BY DEF MuxInv, MadeInv, LockedPlaces
<1>2. CASE Raced(u)
  BY <1>2 DEF Raced, Shared, MakersInv
<1>3. CASE ~Raced(u)
  <2>1. <<u, frame[r][u].mutex>> \in locked
    BY <1>3 DEF MuxInv, HeldInv, LockedPlaces
  <2>2. frame[r][u].mutex = frame[r][u].undo
    BY <1>1, <1>3 DEF Raced
  <2> QED
    BY <2>1, <2>2
<1> QED
  BY <1>2, <1>3

LEMMA SharedKept ==
  ASSUME plan' = plan
  PROVE  \A u \in Units : Shared(u)' = Shared(u)
BY DEF Shared, Calls, Below, Reaches

(* Commands and signals.                                                   *)
LEMMA ExecKeepsSignals ==
  ASSUME ExecTypeOK, SignalInv, NEW c \in Callers, ExecStep(c)
  PROVE  SignalInv' /\ signals' = signals /\ (process' # process => signals > 0)
<1> USE DEF ExecTypeOK, Command, SignalInv
<1>1. CASE Refuse(c) \/ Check(c) \/ StartSigTrap(c) \/ Unregister(c) \/ Close(c)
  BY <1>1 DEF Refuse, Check, StartSigTrap, Unregister, Close
<1>2. CASE Start(c) \/ Exit(c) \/ StopTrap(c)
  BY <1>2 DEF Start, Exit, StopTrap
<1>3. CASE TakeSignal(c) \/ Forward(c)
  <2>1. signals # 0 /\ signals' = signals
    BY <1>3 DEF TakeSignal, Forward
  <2>2. signals > 0
    BY <2>1, MaxSignalsAssumption
  <2> QED
    BY <2>1, <2>2
<1> QED
  BY <1>1, <1>2, <1>3 DEF ExecStep, RunStep, TrapStep

LEMMA CallKeepsSignals ==
  ASSUME ExecTypeOK, SignalInv, NEW r \in Units, signals' = signals,
         UNCHANGED cmd \/ Call(r)
  PROVE  SignalInv'
BY DEF ExecTypeOK, Command, SignalInv, Call, NoCommand, Units

LEMMA StepEffects ==
  ASSUME NEW r \in Units, NEW u \in Units, UnitStep(r, u)
  PROVE  /\ Alive /\ signals' = signals /\ (UNCHANGED cmd \/ Call(r))
         /\ made' = made \/ CreateMux(r, u)
         /\ process' = process \/ (Unlock(r, u) /\ <<u, frame[r][u].undo>> \notin locked)
BY DEF UnitStep, Build, CheckInit, LockInit, RunInit, EndInit, ReadMux, CreateMux, Lock, Defer, Unlock,
   CheckDone, ForceApply, ForcedAll, Run, EndRun, locks, execVars, At

LEMMA NextFate ==
  ASSUME TypeOK, MuxInv, CallsInv, FateInv, [Next]_vars
  PROVE  FateInv'
<1> USE DEF FateInv
<1>1. plan' = plan
  <2>1. ASSUME NEW r \in Units, NEW u \in Units, UnitStep(r, u) PROVE plan' = plan
    BY <2>1, StepKinds DEF CallsInv
  <2> QED
    BY <2>1 DEF Next, vars, unitVars, Begin, MapFault
<1>2. ASSUME made' = made PROVE MakersInv'
  BY <1>1, <1>2, PlanKept DEF MakersInv, TypeOK
<1>3. ASSUME process' = process, signals' = signals PROVE OnlySharingKills'
  BY <1>1, <1>3, SharedKept DEF OnlySharingKills, Alive
<1>4. ExecTypeOK /\ signals \in Nat
  BY MaxSignalsAssumption DEF TypeOK, ExecTypeOK
<1>5. CASE UNCHANGED vars
  BY <1>2, <1>3, <1>5 DEF vars, unitVars, execVars, SignalInv
<1>6. ASSUME NEW r \in Units, Begin(r) PROVE FateInv'
  BY <1>2, <1>3, <1>6 DEF Begin, locks, execVars, SignalInv
<1>7. ASSUME NEW r \in Units, ExecStep(r), UNCHANGED unitVars PROVE FateInv'
  <2>1. SignalInv' /\ signals' = signals /\ (process' # process => signals > 0)
    BY <1>4, <1>7, ExecKeepsSignals DEF Units
  <2>2. OnlySharingKills'
    BY <1>3, <2>1 DEF OnlySharingKills
  <2> QED
    BY <1>2, <1>7, <2>1, <2>2 DEF unitVars
<1>8. ASSUME Signal, UNCHANGED unitVars PROVE FateInv'
  <2>1. signals' > 0
    BY <1>4, <1>8 DEF Signal
  <2>2. SignalInv' /\ OnlySharingKills'
    BY <1>4, <2>1 DEF SignalInv, OnlySharingKills
  <2> QED
    BY <1>2, <1>8, <2>2 DEF unitVars
<1>9. ASSUME NEW r \in Units, NEW u \in Units, MapFault(r, u) PROVE FateInv'
  <2>1. PICK s \in Units \ {r} : Scanning(s, u)
    BY <1>9 DEF MapFault
  <2>2. Shared(u)
    BY <1>9, <2>1, BusyShare DEF MapFault, Scanning, Active
  <2>3. Shared(u)'
    BY <1>1, <2>2, SharedKept
  <2> QED
    BY <1>2, <1>9, <2>3 DEF MapFault, unitVars, SignalInv, OnlySharingKills
<1>10. ASSUME NEW r \in Units, NEW u \in Units, UnitStep(r, u) PROVE FateInv'
  <2>1. MakersInv'
    <3>1. ASSUME CreateMux(r, u) PROVE MakersInv'
      <4>1. r \in plan.planned /\ Calls(r, u)
        BY <3>1 DEF CreateMux, At, CallsInv, StackInv, StackOf, Active
      <4>2. \A v \in Units : \A s \in made'[v] : s \in made[v] \/ (v = u /\ s = r)
        BY <3>1 DEF CreateMux, TypeOK
      <4>3. \A v \in Units : made'[v] \subseteq Units
        BY <1>10, CallStepTypes DEF TypeOK
      <4> QED
        BY <1>1, <4>1, <4>2, <4>3, PlanKept DEF MakersInv
    <3> QED
      BY <1>2, <1>10, <3>1, StepEffects
  <2>2. SignalInv'
    BY <1>4, <1>10, StepEffects, CallKeepsSignals
  <2>3. CASE process' = process
    BY <1>3, <1>10, <2>1, <2>2, <2>3, StepEffects
  <2>4. CASE Unlock(r, u) /\ <<u, frame[r][u].undo>> \notin locked
    <3>1. Shared(u)
      BY <2>4, UnlockOfSharedFails DEF Unlock, At
    <3>2. Shared(u)'
      BY <1>1, <3>1, SharedKept
    <3> QED
      BY <2>1, <2>2, <3>2 DEF OnlySharingKills
  <2> QED
    BY <1>10, <2>3, <2>4, StepEffects
<1> QED
  BY <1>5, <1>6, <1>7, <1>8, <1>9, <1>10 DEF Next

LEMMA InitFate == Init => FateInv
BY DEF Init, ExecInit, NoCommand, FateInv, MakersInv, SignalInv, OnlySharingKills, Alive

(* For every plan: without a signal the process survives, unless two       *)
(* routines may call the same unit (common/unit.go:97 and 445).            *)
THEOREM SharingKills == Spec => []OnlySharingKills
<1>1. Init => FateInv
  BY InitFate
<1>2. (TypeOK /\ MuxInv /\ CallsInv) /\ FateInv /\ [Next]_vars => FateInv'
  BY NextFate
<1>3. FateInv => OnlySharingKills
  BY DEF FateInv
<1> QED
  BY <1>1, <1>2, <1>3, CallsHold, PTL DEF Spec

==============================================================================
