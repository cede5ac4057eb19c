------------------------------ MODULE StateLock ------------------------------
(***************************************************************************)
(* Several cdev processes on one project: how a command loads the state,   *)
(* takes the lock of the state backend, plans, asks, executes, saves and   *)
(* unlocks (cmd/cdev, project/state.go and the backends' LockState,        *)
(* UnlockState, ReadState and WriteState).                                 *)
(*                                                                         *)
(* What a session changes in the infrastructure is one change, named after *)
(* the session; a state is the set of changes its records tell of.         *)
(***************************************************************************)
EXTENDS FiniteSets

CONSTANTS Sessions,     \* the processes
          Kinds,        \* the commands they run
          Backends      \* the providers of the state backend

ChangeKinds == {"apply", "destroy"}
AllKinds == ChangeKinds \cup {"output", "pull", "update", "unlock"}

ASSUME KindsAreCommands == Kinds \subseteq AllKinds
ASSUME BackendsAreKnown == Backends \subseteq {"local", "s3", "gcs", "azurerm"}

VARIABLES
  kind,        \* the command of every session; chosen once
  ignoring,    \* sessions of apply or destroy with --ignore-state; chosen once
  provider,    \* the project's state backend; chosen once
  pc,          \* where the session is
  got,         \* what LockState did for the session, and what it told
  own,         \* OwnState: the state the session loaded, then changed
  lockFile,    \* the lock file or object exists
  stored,      \* the state in the backend
  torn,        \* the state file has been truncated and not yet rewritten
  deployed,    \* the changes made to the infrastructure
  forgotten,   \* history: changes that a state saved by --ignore-state left out
  overlap,     \* two sessions have been active together
  lost         \* a change was not saved, or the state not read or written whole

vars == <<kind, ignoring, provider, pc, got, own, lockFile, stored, torn, deployed,
          forgotten, overlap, lost>>

(* An object is put as a whole; a local file is truncated, then written.   *)
AtomicWrites == provider # "local"

(* The local backend takes every error of a read for a project without a   *)
(* state; azurerm drops the error of a download that breaks off and        *)
(* returns what it has, which may be nothing.                              *)
ReadsFaithfully == provider \in {"s3", "gcs"}

Ended == {"over", "left"}     \* left: ended without removing its lock
Places == {"idle", "check", "write", "plan", "prompt", "run", "work", "save",
           "saving", "unlock"} \cup Ended

(* granted: LockState returned no error; written: it returned one although *)
(* the lock was written.                                                   *)
Grants == {"none", "granted", "written"}

Active(s) == pc[s] \notin {"idle"} \cup Ended
Changes(s) == kind[s] \in ChangeKinds

TypeOK ==
  /\ kind \in [Sessions -> Kinds]
  /\ ignoring \in SUBSET Sessions
  /\ provider \in Backends
  /\ pc \in [Sessions -> Places]
  /\ got \in [Sessions -> Grants]
  /\ own \in [Sessions -> SUBSET Sessions]
  /\ lockFile \in BOOLEAN
  /\ stored \in SUBSET Sessions
  /\ torn \in BOOLEAN
  /\ deployed \in SUBSET Sessions
  /\ forgotten \in SUBSET Sessions
  /\ overlap \in BOOLEAN
  /\ lost \in BOOLEAN

Init ==
  /\ kind \in [Sessions -> Kinds]
  /\ ignoring \in SUBSET {s \in Sessions : Changes(s)}
  /\ provider \in Backends
  /\ pc = [s \in Sessions |-> "idle"]
  /\ got = [s \in Sessions |-> "none"]
  /\ own = [s \in Sessions |-> {}]
  /\ lockFile = FALSE
  /\ stored = {} /\ torn = FALSE
  /\ deployed = {} /\ forgotten = {}
  /\ overlap = FALSE /\ lost = FALSE

GoTo(s, place) == pc' = [pc EXCEPT ![s] = place]

setting == <<kind, ignoring, provider>>
backend == <<lockFile, stored, torn>>
history == <<forgotten, overlap, lost>>

------------------------------------------------------------------------------
(* Loading. LoadState reads the backend; the state commands ignore it, and *)
(* so do apply and destroy with --ignore-state, which start with an empty  *)
(* state. A truncated file reads as an empty state or does not parse.      *)
(* "state update" writes the project's own units: what is deployed, as the *)
(* command's help demands of its user.                                     *)

(* Seeded fault: "state update" takes every unit of the project for        *)
(* deployed.                                                               *)
SnapshotOfProject(s) ==
  CASE kind[s] = "update" -> Sessions
    [] kind[s] \in {"pull", "unlock"} \/ s \in ignoring \/ torn -> {}
    [] OTHER -> stored

(* Seeded fault: the test for --ignore-state is the wrong way round.       *)
SnapshotInverted(s) ==
  CASE kind[s] = "update" -> deployed
    [] kind[s] \in {"pull", "unlock"} \/ s \notin ignoring \/ torn -> {}
    [] OTHER -> stored

Snapshot(s) ==
  CASE kind[s] = "update" -> deployed
    [] kind[s] \in {"pull", "unlock"} \/ s \in ignoring \/ torn -> {}
    [] OTHER -> stored

Load(s) ==
  /\ pc[s] = "idle"
  /\ own' = [own EXCEPT ![s] = Snapshot(s)]
  /\ GoTo(s, IF kind[s] = "unlock" THEN "unlock" ELSE "check")
  /\ overlap' = (overlap \/ \E t \in Sessions : Active(t))
  /\ UNCHANGED <<setting, got, backend, deployed, forgotten, lost>>

(* The state cannot be read and the session goes on without one.           *)
LoadUnread(s) ==
  /\ ~ReadsFaithfully
  /\ pc[s] = "idle"
  /\ kind[s] \in ChangeKinds \cup {"output"} /\ s \notin ignoring
  /\ GoTo(s, "check")
  /\ overlap' = (overlap \/ \E t \in Sessions : Active(t))
  /\ lost' = TRUE
  /\ UNCHANGED <<setting, got, own, backend, deployed, forgotten>>

LoadFails(s) ==
  /\ pc[s] = "idle"
  /\ GoTo(s, "over")
  /\ UNCHANGED <<setting, got, own, backend, deployed, history>>

------------------------------------------------------------------------------
(* LockState: look for the lock, then write it.                            *)

AfterLock(s) == IF Changes(s) THEN "plan" ELSE "work"

(* Seeded fault: apply and destroy go on without the lock.                 *)
AfterRefusalIgnored(s) ==
  CASE Changes(s) -> "plan"
    [] kind[s] = "output" -> "over"
    [] OTHER -> "work"

(* The deferred UnLockState of apply and destroy is registered before the  *)
(* error is looked at; "output" exits at once; "pull" and "update" ignore  *)
(* the error.                                                              *)
AfterRefusal(s) ==
  CASE Changes(s) -> "unlock"
    [] kind[s] = "output" -> "over"
    [] OTHER -> "work"

FindLock(s) ==
  /\ pc[s] = "check"
  /\ GoTo(s, IF lockFile THEN AfterRefusal(s) ELSE "write")
  /\ UNCHANGED <<setting, got, own, backend, deployed, history>>

WriteLock(s) ==
  /\ pc[s] = "write"
  /\ lockFile' = TRUE
  /\ got' = [got EXCEPT ![s] = "granted"]
  /\ GoTo(s, AfterLock(s))
  /\ UNCHANGED <<setting, own, stored, torn, deployed, history>>

(* The lock cannot be read: only s3 tells an error from a missing object,  *)
(* the other backends go on to write the lock.                             *)
LockUnread(s) ==
  /\ pc[s] = "check"
  /\ GoTo(s, IF provider = "s3" THEN AfterRefusal(s) ELSE "write")
  /\ UNCHANGED <<setting, got, own, backend, deployed, history>>

LockUnwritten(s) ==
  /\ pc[s] = "write"
  /\ GoTo(s, AfterRefusal(s))
  /\ UNCHANGED <<setting, got, own, backend, deployed, history>>

(* The lock is written and an error returned all the same: the answer was  *)
(* lost, or the file could not be closed.                                  *)
LockUnanswered(s) ==
  /\ pc[s] = "write"
  /\ lockFile' = TRUE
  /\ got' = [got EXCEPT ![s] = "written"]
  /\ GoTo(s, IF kind[s] = "output" THEN "left" ELSE AfterRefusal(s))
  /\ UNCHANGED <<setting, own, stored, torn, deployed, history>>

(* A gcs writer delivers the object when it is closed, and the error of    *)
(* the deferred Close is dropped.                                          *)
LockUndelivered(s) ==
  /\ provider = "gcs"
  /\ pc[s] = "write"
  /\ got' = [got EXCEPT ![s] = "granted"]
  /\ GoTo(s, AfterLock(s))
  /\ UNCHANGED <<setting, own, backend, deployed, history>>

------------------------------------------------------------------------------
(* apply and destroy.                                                      *)

(* Nothing to do, a prompt, or --force.                                    *)
Plan(s) ==
  /\ pc[s] = "plan"
  /\ \E place \in {"unlock", "prompt", "run"} : GoTo(s, place)
  /\ UNCHANGED <<setting, got, own, backend, deployed, history>>

(* yes, no, or a signal, whose trap unlocks and exits.                     *)
Answer(s) ==
  /\ pc[s] = "prompt"
  /\ \E place \in {"unlock", "run"} : GoTo(s, place)
  /\ UNCHANGED <<setting, got, own, backend, deployed, history>>

(* Seeded fault: the state is saved as it was loaded.                      *)
ExecuteUnrecorded(s) ==
  /\ pc[s] = "run"
  /\ deployed' = deployed \cup {s}
  /\ GoTo(s, "save")
  /\ UNCHANGED <<setting, got, own, backend, history>>

(* The execution of module UnitGraph: whatever its outcome, the infra-     *)
(* structure has changed and the state in memory tells of it.              *)
Execute(s) ==
  /\ pc[s] = "run"
  /\ deployed' = deployed \cup {s}
  /\ own' = [own EXCEPT ![s] = @ \cup {s}]
  /\ GoTo(s, "save")
  /\ UNCHANGED <<setting, got, backend, history>>

------------------------------------------------------------------------------
(* output, pull and update.                                                *)

(* They print, copy or back up the state; log.Fatalf skips the deferred    *)
(* unlock when that fails.                                                 *)
Work(s) ==
  /\ pc[s] = "work"
  /\ GoTo(s, IF kind[s] = "update" THEN "save" ELSE "unlock")
  /\ UNCHANGED <<setting, got, own, backend, deployed, history>>

(* Seeded fault: a place no session can be in.                             *)
GoneWrong(s) == IF got[s] # "none" THEN "killed" ELSE "over"

Gone(s) == IF got[s] # "none" THEN "left" ELSE "over"

WorkFails(s) ==
  /\ pc[s] = "work"
  /\ GoTo(s, Gone(s))
  /\ UNCHANGED <<setting, got, own, backend, deployed, history>>

------------------------------------------------------------------------------
(* WriteState, UnLockState and the end of the process.                     *)

(* What the state leaves out from now on.                                  *)
Forgets(s) ==
  CASE s \in ignoring -> deployed \ {s}
    [] kind[s] = "update" -> {}
    [] OTHER -> forgotten

Save(s) ==
  /\ AtomicWrites
  /\ pc[s] = "save"
  /\ stored' = own[s]
  /\ forgotten' = Forgets(s)
  /\ GoTo(s, "unlock")
  /\ UNCHANGED <<setting, got, own, lockFile, torn, deployed, overlap, lost>>

Truncate(s) ==
  /\ ~AtomicWrites
  /\ pc[s] = "save"
  /\ torn' = TRUE
  /\ GoTo(s, "saving")
  /\ UNCHANGED <<setting, got, own, lockFile, stored, deployed, history>>

Rewrite(s) ==
  /\ pc[s] = "saving"
  /\ stored' = own[s]
  /\ torn' = FALSE
  /\ forgotten' = Forgets(s)
  /\ GoTo(s, "unlock")
  /\ UNCHANGED <<setting, got, own, lockFile, deployed, overlap, lost>>

(* update exits through log.Fatalf, the others return the error.           *)
SaveFails(s) ==
  /\ pc[s] \in {"save", "saving"}
  /\ GoTo(s, IF Changes(s) THEN "unlock" ELSE Gone(s))
  /\ lost' = (lost \/ Changes(s) \/ pc[s] = "saving")
  /\ UNCHANGED <<setting, got, own, backend, deployed, forgotten, overlap>>

SaveUndelivered(s) ==
  /\ provider = "gcs"
  /\ pc[s] = "save"
  /\ GoTo(s, "unlock")
  /\ lost' = TRUE
  /\ UNCHANGED <<setting, got, own, backend, deployed, forgotten, overlap>>

(* Seeded fault: the command returns without its deferred call.            *)
UnlockForgotten(s) ==
  /\ pc[s] = "unlock"
  /\ GoTo(s, "over")
  /\ UNCHANGED <<setting, got, own, backend, deployed, history>>

(* The lock is removed, whoever wrote it.                                  *)
Unlock(s) ==
  /\ pc[s] = "unlock"
  /\ lockFile' = FALSE
  /\ GoTo(s, "over")
  /\ UNCHANGED <<setting, got, own, stored, torn, deployed, history>>

UnlockFails(s) ==
  /\ pc[s] = "unlock"
  /\ GoTo(s, Gone(s))
  /\ UNCHANGED <<setting, got, own, backend, deployed, history>>

(* SIGKILL, a panic, a signal nobody traps, the end of the machine.        *)
Kill(s) ==
  /\ Active(s)
  /\ GoTo(s, Gone(s))
  /\ lost' = (lost \/ pc[s] = "saving" \/ (pc[s] = "save" /\ Changes(s)))
  /\ UNCHANGED <<setting, got, own, backend, deployed, forgotten, overlap>>

------------------------------------------------------------------------------

Step(s) ==
  \/ Load(s) \/ LoadUnread(s) \/ LoadFails(s)
  \/ FindLock(s) \/ LockUnread(s)
  \/ WriteLock(s) \/ LockUnwritten(s) \/ LockUnanswered(s) \/ LockUndelivered(s)
  \/ Plan(s) \/ Answer(s) \/ Execute(s)
  \/ Work(s) \/ WorkFails(s)
  \/ Save(s) \/ Truncate(s) \/ Rewrite(s) \/ SaveFails(s) \/ SaveUndelivered(s)
  \/ Unlock(s) \/ UnlockFails(s)

AllEnded == (\A s \in Sessions : pc[s] \in Ended) /\ UNCHANGED vars

Next == AllEnded \/ \E s \in Sessions : Step(s) \/ Kill(s)

Spec == Init /\ [][Next]_vars

------------------------------------------------------------------------------

(* Sessions that follow one another and save leave a state that tells of   *)
(* exactly what was deployed, less what the last --ignore-state forgot,    *)
(* whichever were refused the lock, declined at the prompt, failed or were *)
(* killed before they changed anything.                                    *)
SequenceIsExact ==
  ~overlap /\ ~lost /\ (\A s \in Sessions : ~Active(s)) => stored = deployed \ forgotten

(* However sessions overlap, die or steal the lock, the state never tells  *)
(* of a change that was not made.                                          *)
NothingInvented == stored \subseteq deployed

(* While no two sessions are active together, a state in s3 or gcs forgets *)
(* no change it told of, unless a session with --ignore-state saves one:   *)
(* not when a command is refused, fails or is killed in the middle of its  *)
(* save. The other backends may: see Truncate and LoadUnread.              *)
NeverForgets ==
  [][ReadsFaithfully /\ ~overlap' => stored \ forgotten' \subseteq stored']_vars

(* A lock file is never without an owner: a session that is still going to *)
(* remove it, or one that died or failed after writing it. Only the latter *)
(* leave a project locked that nobody works on (apply.go:26).              *)
LockHasOwner ==
  lockFile => \E s \in Sessions : got[s] # "none" /\ pc[s] # "over"

(* A command that was refused the lock ends without touching the infra-    *)
(* structure (apply.go:27), however the lock changes hands meanwhile.      *)
OnlyOwnersDeploy ==
  [][\A s \in Sessions : s \in deployed' \ deployed => got[s] = "granted"]_vars

(* s3.go:281, "Use command 'cdev state unlock' to force unlock (unsafe)":  *)
(* nobody but the owner and this command removes a lock (apply.go:26).     *)
OthersLeaveTheLock ==
  [][\A s \in Sessions :
       lockFile /\ ~lockFile' /\ pc[s] = "unlock" /\ pc'[s] # "unlock" =>
         got[s] # "none" \/ kind[s] = "unlock"]_vars

==============================================================================
