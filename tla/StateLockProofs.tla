--------------------------- MODULE StateLockProofs ---------------------------
(***************************************************************************)
(* What StateLock promises for any number of sessions, any commands and    *)
(* every backend.                                                          *)
(***************************************************************************)
EXTENDS StateLock, TLAPS

(* What a session holds fits the place it is in.                           *)
Lockless == {"idle", "check", "write"}
Planned == {"plan", "prompt", "run"}
SessionFits(s) ==
  /\ pc[s] \in Lockless => got[s] = "none"
  /\ pc[s] \in Planned => got[s] = "granted" /\ Changes(s)
  /\ pc[s] \in Lockless \cup Planned => s \notin deployed
  /\ own[s] \subseteq deployed
  /\ pc[s] \in {"save", "saving"} /\ Changes(s) => s \in own[s]
  /\ pc[s] = "work" => ~Changes(s)
  /\ s \in ignoring => Changes(s)

LInv ==
  /\ TypeOK
  /\ NothingInvented
  /\ LockHasOwner
  /\ forgotten \subseteq deployed
  /\ \A s \in Sessions : SessionFits(s)

(* The initial states: nobody has the lock, nothing is deployed.           *)
LEMMA InitLocks == Init => LInv
BY KindsAreCommands DEF Init, LInv, TypeOK, NothingInvented, LockHasOwner,
   SessionFits, Lockless, Planned, Places, Ended, Grants

(* Every step keeps the types.                                             *)
LEMMA NextTypes == ASSUME TypeOK, [Next]_vars PROVE TypeOK'
<1> USE DEF TypeOK, GoTo, setting, backend, history, Places, Ended, Grants
<1>1. ASSUME NEW s \in Sessions, Step(s) PROVE TypeOK'
  <2>1. CASE Load(s) \/ LoadUnread(s) \/ LoadFails(s)
    <3>1. Snapshot(s) \in SUBSET Sessions
      BY DEF Snapshot
    <3>2. overlap' \in BOOLEAN
      <4>1. (overlap \/ \E t \in Sessions : Active(t)) \in BOOLEAN
        OBVIOUS
      <4> QED
        BY <2>1, <4>1 DEF Load, LoadUnread, LoadFails
    <3>3. CASE Load(s)
      <4>1. own' \in [Sessions -> SUBSET Sessions]
        BY <3>1, <3>3 DEF Load
      <4>2. pc' \in [Sessions -> Places]
        BY <3>3 DEF Load
      <4> QED
        BY <3>2, <3>3, <4>1, <4>2 DEF Load
    <3> QED
      BY <2>1, <3>2, <3>3 DEF LoadUnread, LoadFails
  <2>2. CASE FindLock(s) \/ LockUnread(s) \/ WriteLock(s) \/ LockUnwritten(s)
             \/ LockUnanswered(s) \/ LockUndelivered(s)
    BY <2>2 DEF FindLock, LockUnread, WriteLock, LockUnwritten,
       LockUnanswered, LockUndelivered, AfterLock, AfterRefusal, Changes, ChangeKinds
  <2>3. CASE Plan(s) \/ Answer(s) \/ Execute(s)
    BY <2>3 DEF Plan, Answer, Execute
  <2>4. CASE Work(s) \/ WorkFails(s) \/ Unlock(s) \/ UnlockFails(s)
    BY <2>4 DEF Work, WorkFails, Unlock, UnlockFails, Gone
  <2>5. CASE Save(s) \/ Truncate(s) \/ Rewrite(s) \/ SaveFails(s)
             \/ SaveUndelivered(s)
    <3>1. Forgets(s) \in SUBSET Sessions
      BY DEF Forgets
    <3> QED
      BY <2>5, <3>1 DEF Save, Truncate, Rewrite, SaveFails, SaveUndelivered, Gone,
         Changes
  <2> QED
    BY <1>1, <2>1, <2>2, <2>3, <2>4, <2>5 DEF Step
<1>2. ASSUME NEW s \in Sessions, Kill(s) PROVE TypeOK'
  BY <1>2 DEF Kill, Gone, Changes
<1>3. CASE UNCHANGED vars
  BY <1>3 DEF vars
<1> QED
  BY <1>1, <1>2, <1>3 DEF Next, AllEnded

(* One session steps: the others keep their place and what they hold.      *)
LEMMA NextLocks == ASSUME LInv, [Next]_vars PROVE LInv'
<1> USE DEF LInv, TypeOK, NothingInvented, LockHasOwner, SessionFits, GoTo,
        setting, backend, history, Lockless, Planned, Changes
<1>1. ASSUME NEW s \in Sessions, Step(s) PROVE LInv'
  <2>0. TypeOK'
    BY <1>1, NextTypes DEF Next
  <2>1. CASE Load(s)
    <3>1. Snapshot(s) \subseteq deployed
      BY DEF Snapshot
    <3> QED
      BY <2>0, <2>1, <3>1 DEF Load
  <2>2. CASE LoadUnread(s) \/ LoadFails(s)
    BY <2>0, <2>2 DEF LoadUnread, LoadFails
  <2>3. CASE FindLock(s) \/ LockUnread(s)
    BY <2>0, <2>3 DEF FindLock, LockUnread, AfterRefusal
  <2>4. CASE WriteLock(s) \/ LockUndelivered(s)
    BY <2>0, <2>4 DEF WriteLock, LockUndelivered, AfterLock
  <2>5. CASE LockUnwritten(s) \/ LockUnanswered(s)
    BY <2>0, <2>5 DEF LockUnwritten, LockUnanswered, AfterRefusal
  <2>6. CASE Plan(s) \/ Answer(s)
    BY <2>0, <2>6 DEF Plan, Answer
  <2>7. CASE Execute(s)
    BY <2>0, <2>7 DEF Execute
  <2>8. CASE Work(s) \/ WorkFails(s)
    BY <2>0, <2>8 DEF Work, WorkFails, Gone
  <2>9. CASE Save(s) \/ Truncate(s) \/ Rewrite(s)
    <3>1. Forgets(s) \subseteq deployed
      BY DEF Forgets
    <3> QED
      BY <2>0, <2>9, <3>1 DEF Save, Truncate, Rewrite
  <2>10. CASE SaveFails(s) \/ SaveUndelivered(s)
    BY <2>0, <2>10 DEF SaveFails, SaveUndelivered, Gone
  <2>11. CASE Unlock(s)
    BY <2>0, <2>11 DEF Unlock
  <2>12. CASE UnlockFails(s)
    BY <2>0, <2>12 DEF UnlockFails, Gone
  <2> QED
    BY <1>1, <2>1, <2>2, <2>3, <2>4, <2>5, <2>6, <2>7, <2>8, <2>9, <2>10,
       <2>11, <2>12 DEF Step
<1>2. ASSUME NEW s \in Sessions, Kill(s) PROVE LInv'
  <2>0. TypeOK'
    BY <1>2, NextTypes DEF Next
  <2> QED
    BY <1>2, <2>0 DEF Kill, Gone, Active
<1>3. CASE UNCHANGED vars
  BY <1>3 DEF vars
<1> QED
  BY <1>1, <1>2, <1>3 DEF Next, AllEnded

LEMMA LocksHold == Spec => []LInv
BY InitLocks, NextLocks, PTL DEF Spec

(* The state of every session, the lock and the backend keeps its types.   *)
THEOREM SessionsTyped == Spec => []TypeOK
<1>1. LInv => TypeOK
  BY DEF LInv
<1> QED
  BY <1>1, LocksHold, PTL

(* Whatever overlaps, dies or steals the lock, the state never tells of a  *)
(* change that was not made.                                               *)
THEOREM NothingIsInvented == Spec => []NothingInvented
<1>1. LInv => NothingInvented
  BY DEF LInv
<1> QED
  BY <1>1, LocksHold, PTL

(* A lock file always has an owner, at work or dead.                       *)
THEOREM LocksAreOwned == Spec => []LockHasOwner
<1>1. LInv => LockHasOwner
  BY DEF LInv
<1> QED
  BY <1>1, LocksHold, PTL

(* A command that was refused the lock changes nothing.                    *)
THEOREM OwnersDeploy == Spec => OnlyOwnersDeploy
<1>1. ASSUME LInv, [Next]_vars
      PROVE  [\A s \in Sessions : s \in deployed' \ deployed => got[s] = "granted"]_vars
  <2>1. ASSUME NEW s \in Sessions, Step(s)
        PROVE  deployed' = deployed
               \/ (got[s] = "granted" /\ deployed' = deployed \cup {s})
    <3>1. CASE Execute(s)
      BY <1>1, <3>1 DEF Execute, LInv, SessionFits, Planned
    <3>2. CASE ~Execute(s)
      BY <2>1, <3>2 DEF Step, Load, LoadUnread, LoadFails, FindLock,
         LockUnread, WriteLock, LockUnwritten, LockUnanswered, LockUndelivered, Plan, Answer,
         Work, WorkFails, Save, Truncate, Rewrite, SaveFails,
         SaveUndelivered, Unlock, UnlockFails
    <3> QED
      BY <3>1, <3>2
  <2>2. ASSUME NEW s \in Sessions, Kill(s) PROVE deployed' = deployed
    BY <2>2 DEF Kill
  <2>3. CASE UNCHANGED vars
    BY <2>3
  <2>4. CASE AllEnded
    BY <2>4 DEF AllEnded
  <2> QED
    BY <1>1, <2>1, <2>2, <2>3, <2>4 DEF Next
<1> QED
  BY <1>1, LocksHold, PTL DEF Spec, OnlyOwnersDeploy

------------------------------------------------------------------------------
(* Nothing is forgotten by a backend that writes the state as a whole and  *)
(* reports that it could not read it.                                      *)

Writes(s) == Changes(s) \/ kind[s] = "update"

(* While no two sessions have been active together, the one that is going  *)
(* to save has in memory all that is stored.                               *)
Remembers ==
  ReadsFaithfully =>
  /\ ~torn
  /\ \A s \in Sessions : pc[s] = "save" => Writes(s)
  /\ \A s \in Sessions : pc[s] # "saving"
  /\ ~overlap =>
       /\ \A s, t \in Sessions : Active(s) /\ Active(t) => s = t
       /\ \A s \in Sessions :
            Active(s) /\ pc[s] # "unlock" /\ Writes(s) /\ s \notin ignoring =>
              stored \subseteq own[s]

MInv == LInv /\ Remembers

LEMMA NextRemembers ==
  ASSUME MInv, [Next]_vars
  PROVE  /\ Remembers'
         /\ ReadsFaithfully /\ ~overlap' => stored \ forgotten' \subseteq stored'
<1> DEFINE Goal == /\ Remembers'
                   /\ ReadsFaithfully /\ ~overlap' => stored \ forgotten' \subseteq stored'
<1> USE DEF MInv, LInv, TypeOK, Remembers, Active, Ended, GoTo, setting,
        backend, history, Writes, Changes, ChangeKinds, AtomicWrites,
        ReadsFaithfully
<1>1. ASSUME NEW s \in Sessions, Step(s) PROVE Goal
  <2>1. CASE Load(s)
    <3>1. ReadsFaithfully /\ Writes(s) /\ s \notin ignoring => stored \subseteq Snapshot(s)
      BY DEF Snapshot, NothingInvented
    <3>2. overlap' \/ (~overlap /\ \A t \in Sessions : ~Active(t))
      BY <2>1 DEF Load
    <3> QED
      BY <2>1, <3>1, <3>2 DEF Load
  <2>2. CASE LoadUnread(s)
    BY <2>2 DEF LoadUnread
  <2>3. CASE LoadFails(s)
    BY <2>3 DEF LoadFails
  <2>4. CASE FindLock(s) \/ LockUnread(s) \/ LockUnwritten(s) \/ LockUnanswered(s)
    BY <2>4 DEF FindLock, LockUnread, LockUnwritten, LockUnanswered, AfterRefusal
  <2>5. CASE WriteLock(s) \/ LockUndelivered(s)
    BY <2>5 DEF WriteLock, LockUndelivered, AfterLock
  <2>6. CASE Plan(s) \/ Answer(s)
    BY <2>6 DEF Plan, Answer
  <2>7. CASE Execute(s)
    BY <2>7 DEF Execute, SessionFits, Planned
  <2>8. CASE Work(s) \/ WorkFails(s)
    BY <2>8 DEF Work, WorkFails, Gone
  <2>9. CASE Save(s) \/ Truncate(s) \/ Rewrite(s)
    <3>1. ReadsFaithfully /\ ~overlap /\ pc[s] = "save" => stored \ Forgets(s) \subseteq own[s]
      BY DEF Forgets, SessionFits, NothingInvented
    <3> QED
      BY <2>9, <3>1 DEF Save, Truncate, Rewrite
  <2>10. CASE SaveFails(s) \/ SaveUndelivered(s)
    BY <2>10 DEF SaveFails, SaveUndelivered, Gone
  <2>11. CASE Unlock(s) \/ UnlockFails(s)
    BY <2>11 DEF Unlock, UnlockFails, Gone
  <2> QED
    BY <1>1, <2>1, <2>2, <2>3, <2>4, <2>5, <2>6, <2>7, <2>8, <2>9, <2>10,
       <2>11 DEF Step
<1>2. ASSUME NEW s \in Sessions, Kill(s) PROVE Goal
  BY <1>2 DEF Kill, Gone
<1>3. CASE UNCHANGED vars
  BY <1>3 DEF vars
<1> QED
  BY <1>1, <1>2, <1>3 DEF Next, AllEnded

(* With such a backend, while no two sessions are active together, the     *)
(* state forgets no change it told of, unless --ignore-state saves one.    *)
THEOREM ChangesAreKept == Spec => NeverForgets
<1>1. Init => MInv
  <2>1. Init => Remembers
    BY DEF Init, Remembers, Active, Ended
  <2> QED
    BY <2>1, InitLocks DEF MInv
<1>2. MInv /\ [Next]_vars => MInv'
  BY NextRemembers, NextLocks DEF MInv
<1>3. MInv /\ [Next]_vars =>
        [ReadsFaithfully /\ ~overlap' => stored \ forgotten' \subseteq stored']_vars
  BY NextRemembers
<1> QED
  BY <1>1, <1>2, <1>3, PTL DEF Spec, NeverForgets

------------------------------------------------------------------------------
(* Sessions one after another.                                             *)

(* What a session that writes has in memory while sessions follow one      *)
(* another: all that is deployed, what is not forgotten, or with           *)
(* --ignore-state its own change.                                          *)
Known(s) ==
  IF s \in ignoring THEN deployed \cap {s}
  ELSE IF kind[s] = "update" THEN deployed ELSE deployed \ forgotten

(* While no two sessions have been active together and nothing was lost,   *)
(* what is stored and what is deployed differ only by the change that one  *)
(* session is going to save, and that session has it in memory.            *)
Follows ==
  /\ \A s \in Sessions : pc[s] \in {"save", "saving"} => Writes(s)
  /\ ~overlap /\ ~lost =>
       /\ \A s, t \in Sessions : Active(s) /\ Active(t) => s = t
       /\ torn => \E s \in Sessions : pc[s] = "saving"
       /\ stored # deployed \ forgotten =>
            \E s \in Sessions : pc[s] \in {"save", "saving"} /\ Changes(s)
       /\ \A s \in Sessions :
            Active(s) /\ pc[s] # "unlock" /\ Writes(s) => own[s] = Known(s)

FInv == LInv /\ Follows

LEMMA NextFollows ==
  ASSUME FInv, [Next]_vars
  PROVE  Follows'
<1> USE DEF FInv, LInv, TypeOK, Follows, Active, Ended, GoTo, setting,
        backend, history, Writes, Changes, ChangeKinds
<1>1. ASSUME NEW s \in Sessions, Step(s) PROVE Follows'
  <2>1. CASE Load(s)
    <3>1. overlap' \/ (~overlap /\ \A t \in Sessions : ~Active(t))
      BY <2>1 DEF Load
    <3>2. ~overlap' /\ ~lost => ~torn /\ stored = deployed \ forgotten
      BY <3>1
    <3>3. s \notin deployed
      BY <2>1 DEF Load, SessionFits, Lockless
    <3>4. ~overlap' /\ ~lost /\ Writes(s) => Snapshot(s) = Known(s)
      <4>1. CASE s \in ignoring
        BY <3>3, <4>1 DEF Snapshot, Known, SessionFits
      <4>2. CASE s \notin ignoring
        BY <3>2, <4>2 DEF Snapshot, Known
      <4> QED
        BY <4>1, <4>2
    <3> QED
      BY <2>1, <3>1, <3>2, <3>4 DEF Load, Known
  <2>2. CASE LoadUnread(s)
    BY <2>2 DEF LoadUnread, Known
  <2>3. CASE LoadFails(s)
    BY <2>3 DEF LoadFails, Known
  <2>4. CASE FindLock(s) \/ LockUnread(s) \/ LockUnwritten(s) \/ LockUnanswered(s)
    <3>1. \A t \in Sessions : Known(t)' = Known(t)
      BY <2>4 DEF FindLock, LockUnread, LockUnwritten, LockUnanswered, Known
    <3> QED
      BY <2>4, <3>1 DEF FindLock, LockUnread, LockUnwritten, LockUnanswered, AfterRefusal
  <2>5. CASE WriteLock(s) \/ LockUndelivered(s)
    <3>1. \A t \in Sessions : Known(t)' = Known(t)
      BY <2>5 DEF WriteLock, LockUndelivered, Known
    <3> QED
      BY <2>5, <3>1 DEF WriteLock, LockUndelivered, AfterLock
  <2>6. CASE Plan(s) \/ Answer(s)
    <3>1. \A t \in Sessions : Known(t)' = Known(t)
      BY <2>6 DEF Plan, Answer, Known
    <3> QED
      BY <2>6, <3>1 DEF Plan, Answer
  <2>7. CASE Execute(s)
    <3>1. s \notin deployed /\ Changes(s)
      BY <2>7 DEF Execute, SessionFits, Planned
    <3>2. ~overlap /\ ~lost => own'[s] = Known(s)'
      BY <2>7, <3>1 DEF Execute, Known
    <3> QED
      BY <2>7, <3>1, <3>2 DEF Execute, Known
  <2>8. CASE Work(s) \/ WorkFails(s)
    BY <2>8 DEF Work, WorkFails, Gone, Known
  <2>9. CASE Save(s) \/ Truncate(s) \/ Rewrite(s)
    <3>1. ~overlap /\ ~lost /\ pc[s] \in {"save", "saving"} => own[s] = deployed \ Forgets(s)
      BY DEF Known, Forgets, SessionFits
    <3>2. CASE Truncate(s)
      <4>1. \A t \in Sessions : Known(t)' = Known(t)
        BY <3>2 DEF Truncate, Known
      <4> QED
        BY <3>2, <4>1 DEF Truncate
    <3>3. CASE Save(s) \/ Rewrite(s)
      <4>1. UNCHANGED <<kind, own, deployed, overlap, lost>> /\ pc'[s] = "unlock"
        BY <3>3 DEF Save, Rewrite
      <4>2. \A t \in Sessions : t # s => pc'[t] = pc[t]
        BY <3>3 DEF Save, Rewrite
      <4>3. stored' = own[s] /\ forgotten' = Forgets(s) /\ pc[s] \in {"save", "saving"}
        BY <3>3 DEF Save, Rewrite
      <4>4. torn' => torn /\ pc[s] = "save"
        BY <3>3 DEF Save, Rewrite
      <4>5. ~overlap /\ ~lost => \A t \in Sessions : ~Active(t)' \/ pc'[t] = "unlock"
        BY <4>1, <4>2, <4>3
      <4> QED
        BY <3>1, <4>1, <4>2, <4>3, <4>4, <4>5
    <3> QED
      BY <2>9, <3>2, <3>3
  <2>10. CASE SaveFails(s) \/ SaveUndelivered(s)
    <3>1. ~lost' => ~lost /\ pc[s] = "save" /\ ~Changes(s)
      BY <2>10 DEF SaveFails, SaveUndelivered
    <3>2. /\ pc'[s] \in {"unlock", "over", "left"}
          /\ \A t \in Sessions : t # s => pc'[t] = pc[t]
      BY <2>10 DEF SaveFails, SaveUndelivered, Gone
    <3>3. UNCHANGED <<kind, ignoring, own, stored, torn, deployed, forgotten, overlap>>
      BY <2>10 DEF SaveFails, SaveUndelivered
    <3>4. ~overlap /\ ~lost' => ~torn /\ stored = deployed \ forgotten
      BY <3>1
    <3>5. \A t \in Sessions : Active(t)' => Active(t)
      BY <2>10, <3>2 DEF SaveFails, SaveUndelivered
    <3> QED
      BY <3>1, <3>2, <3>3, <3>4, <3>5 DEF Known
  <2>11. CASE Unlock(s) \/ UnlockFails(s)
    BY <2>11 DEF Unlock, UnlockFails, Gone, Known
  <2> QED
    BY <1>1, <2>1, <2>2, <2>3, <2>4, <2>5, <2>6, <2>7, <2>8, <2>9, <2>10,
       <2>11 DEF Step
<1>2. ASSUME NEW s \in Sessions, Kill(s) PROVE Follows'
  BY <1>2 DEF Kill, Gone, Known
<1>3. CASE UNCHANGED vars
  BY <1>3 DEF vars, Known
<1> QED
  BY <1>1, <1>2, <1>3 DEF Next, AllEnded

(* Sessions that follow one another and save leave a state that tells of   *)
(* exactly what was deployed since --ignore-state, with every backend.     *)
THEOREM SequencesAreExact == Spec => []SequenceIsExact
<1>1. Init => FInv
  <2>1. Init => Follows
    BY DEF Init, Follows, Active, Ended
  <2> QED
    BY <2>1, InitLocks DEF FInv
<1>2. FInv /\ [Next]_vars => FInv'
  BY NextFollows, NextLocks DEF FInv
<1>3. FInv => SequenceIsExact
  BY DEF FInv, Follows, SequenceIsExact, Active, Ended, Writes
<1> QED
  BY <1>1, <1>2, <1>3, PTL DEF Spec

==============================================================================
