------------------------------- MODULE Executor -------------------------------
(***************************************************************************)
(* Shell commands and the signals that are forwarded to them: ShRunner     *)
(* with its signal trap (executor.go). Every caller runs one command at a  *)
(* time. The project's own trap is not at work: it is stopped when the     *)
(* prompt is answered, and never started with --force.                     *)
(*                                                                         *)
(* No caller sets a timeout. The banner goroutine only logs.               *)
(***************************************************************************)
EXTENDS Naturals

CONSTANTS Callers,       \* the goroutines that run commands
          MaxSignals     \* bound: how often the user or the system interrupts

ASSUME MaxSignalsAssumption == MaxSignals \in Nat

VARIABLES
  cmd,           \* what every caller's command is doing
  interrupted,   \* config.Interrupted
  process,       \* how the cdev process fares
  signals        \* the signals sent so far

execVars == <<cmd, interrupted, process, signals>>

Fates == {"alive", "terminated", "panicked", "faulted"}
Steps == {"idle", "called", "checked", "trapped", "waiting", "trapEnded",
          "closing", "returned"}
(* forwarding: the trap has taken a signal and not yet passed it on        *)
Traps == {"none", "listening", "forwarding"}
(* unstartable: Start failed, and cmd.Process stays nil                    *)
Children == {"none", "running", "signalled", "exited", "unstartable"}

Command == [at : Steps, trap : Traps, child : Children,
            registered : BOOLEAN,    \* signal.Notify is in force
            buffered : BOOLEAN,      \* a signal lies in the channel
            ok : BOOLEAN]            \* the error that is returned is nil

NoCommand == [at |-> "idle", trap |-> "none", child |-> "none",
              registered |-> FALSE, buffered |-> FALSE, ok |-> FALSE]

ExecTypeOK ==
  /\ cmd \in [Callers -> Command]
  /\ interrupted \in BOOLEAN
  /\ process \in Fates
  /\ signals \in 0 .. MaxSignals

ExecInit ==
  /\ cmd = [c \in Callers |-> NoCommand]
  /\ interrupted = FALSE
  /\ process = "alive"
  /\ signals = 0

Alive == process = "alive"
ChildAtWork(c) == cmd[c].child \in {"running", "signalled"}

------------------------------------------------------------------------------
(* One command, from commandExecCommonInShell to the return of Close.      *)
Call(c) ==
  /\ cmd[c].at \in {"idle", "returned"}
  /\ cmd' = [cmd EXCEPT ![c] = [NoCommand EXCEPT !.at = "called"]]

Refuse(c) ==
  /\ Alive /\ cmd[c].at = "called" /\ interrupted
  /\ cmd' = [cmd EXCEPT ![c].at = "returned", ![c].ok = FALSE]
  /\ UNCHANGED <<interrupted, process, signals>>

Check(c) ==
  /\ Alive /\ cmd[c].at = "called" /\ ~interrupted
  /\ cmd' = [cmd EXCEPT ![c].at = "checked"]
  /\ UNCHANGED <<interrupted, process, signals>>

(* Notify, and the goroutine that selects between signals and the end.     *)
StartSigTrap(c) ==
  /\ Alive /\ cmd[c].at = "checked"
  /\ cmd' = [cmd EXCEPT ![c].at = "trapped", ![c].trap = "listening",
                        ![c].registered = TRUE]
  /\ UNCHANGED <<interrupted, process, signals>>

(* The error of cmd.Start is dropped; Wait then fails at once.             *)
Start(c) ==
  /\ Alive /\ cmd[c].at = "trapped"
  /\ \E child \in {"running", "unstartable"} :
       cmd' = [cmd EXCEPT ![c].at = "waiting", ![c].child = child]
  /\ UNCHANGED <<interrupted, process, signals>>

(* The command ends, by itself or because of the signal.                   *)
Exit(c) ==
  /\ Alive /\ ChildAtWork(c)
  /\ \E ok \in BOOLEAN :
       cmd' = [cmd EXCEPT ![c].child = "exited", ![c].ok = ok]
  /\ UNCHANGED <<interrupted, process, signals>>

(* Wait has returned: stopChan <- struct{}{} meets the trap's select.      *)
StopTrap(c) ==
  /\ Alive /\ cmd[c].at = "waiting" /\ ~ChildAtWork(c)
  /\ cmd[c].trap = "listening"
  /\ cmd' = [cmd EXCEPT ![c].at = "trapEnded", ![c].trap = "none"]
  /\ UNCHANGED <<interrupted, process, signals>>

(* signal.Stop                                                             *)
Unregister(c) ==
  /\ Alive /\ cmd[c].at = "trapEnded"
  /\ cmd' = [cmd EXCEPT ![c].at = "closing", ![c].registered = FALSE]
  /\ UNCHANGED <<interrupted, process, signals>>

(* *signalChannel <- nil goes through only while the channel is empty.     *)
Close(c) ==
  /\ Alive /\ cmd[c].at = "closing" /\ ~cmd[c].buffered
  /\ cmd' = [cmd EXCEPT ![c].at = "returned"]
  /\ UNCHANGED <<interrupted, process, signals>>

(* Nobody reads the channel any more: Close never returns.                 *)
Hung(c) == cmd[c].at = "closing" /\ cmd[c].buffered

------------------------------------------------------------------------------
(* The trap.                                                               *)
TakeSignal(c) ==
  /\ Alive /\ cmd[c].trap = "listening" /\ cmd[c].buffered
  /\ cmd' = [cmd EXCEPT ![c].trap = "forwarding", ![c].buffered = FALSE]
  /\ interrupted' = TRUE
  /\ UNCHANGED <<process, signals>>

(* Seeded fault: the signal is logged and not passed on.                   *)
ForwardNothing(c) ==
  /\ Alive /\ cmd[c].trap = "forwarding"
  /\ cmd' = [cmd EXCEPT ![c].trap = "listening"]
  /\ UNCHANGED <<interrupted, process, signals>>

(* cmd.Process is nil until Start has succeeded. A command that is already *)
(* gone only makes Signal return an error, which is logged.                *)
Forward(c) ==
  /\ Alive /\ cmd[c].trap = "forwarding"
  /\ IF cmd[c].child \in {"none", "unstartable"}
     THEN process' = "panicked" /\ cmd' = cmd
     ELSE /\ cmd' = [cmd EXCEPT ![c].trap = "listening",
                                ![c].child = IF ChildAtWork(c) THEN "signalled"
                                             ELSE @]
          /\ UNCHANGED process
  /\ UNCHANGED <<interrupted, signals>>

(* SIGTERM or SIGINT: into every registered channel that has room; without *)
(* any, the process ends as it does by default.                            *)
Signal ==
  /\ Alive /\ signals < MaxSignals
  /\ signals' = signals + 1
  /\ IF \E c \in Callers : cmd[c].registered
     THEN /\ cmd' = [c \in Callers |-> IF cmd[c].registered
                                       THEN [cmd[c] EXCEPT !.buffered = TRUE]
                                       ELSE cmd[c]]
          /\ UNCHANGED process
     ELSE process' = "terminated" /\ cmd' = cmd
  /\ UNCHANGED interrupted

RunStep(c) ==
  \/ Refuse(c) \/ Check(c) \/ StartSigTrap(c) \/ Start(c)
  \/ StopTrap(c) \/ Unregister(c) \/ Close(c)

TrapStep(c) == TakeSignal(c) \/ Forward(c)

(* The goroutines go on; whether commands end is left open.                *)
ExecFairness(c) == WF_cmd(RunStep(c)) /\ WF_<<cmd, process>>(TrapStep(c))

------------------------------------------------------------------------------
(* A signal that reached the trap of a command at work is passed on to the *)
(* command before it ends: no interrupt is swallowed (executor.go:248).    *)
SignalsReachChildren ==
  \A c \in Callers :
    (ChildAtWork(c) /\ cmd[c].buffered)
      ~> (cmd[c].child \in {"signalled", "exited"} \/ ~Alive)

==============================================================================
