------------------------------ MODULE StdinCall ------------------------------
(***************************************************************************)
(* One host command with standard input (run_powershell_stdin and          *)
(* drive_stdin_call in src/src/session.rs): a shell, a command, the parts  *)
(* of the input, then its output; a send that fails is followed by a drain *)
(* of the output, the whole call has a time limit, and a guard terminates  *)
(* the command and deletes the shell when the caller goes away.            *)
(*                                                                         *)
(* The input is a number of Send messages.  The shell and its requests     *)
(* belong to the winrm-rs library: a request ends, with an error or        *)
(* without, and one that fails may have reached the host all the same.     *)
(***************************************************************************)
EXTENDS Naturals

CONSTANT MaxParts   \* bound: Send messages of one call

ASSUME StdinAssumption == MaxParts \in Nat \ {0}

VARIABLES
  step,       \* where the call is
  parts,      \* Send messages that are left
  armed,      \* the guard: whether a drop has something to clean up
  errand,     \* the task that the guard spawned
  reachable, reply, command, named, signalled, shell   \* as in WindowCall

moving == <<step, parts, armed, errand, reply, command, named, signalled, shell>>

stdinVars == <<reachable, moving>>

Window == INSTANCE WindowCall

StdinInit ==
  /\ step = "idle" /\ parts = 0 /\ armed = FALSE /\ errand = "none"
  /\ Window!WindowInit

Driven == {"start", "send", "receive", "drain"}

Goes(next) == step' = next

-----------------------------------------------------------------------------
(* The host.                                                               *)

(* The start request, or one that was given up, reaches the host.          *)
HostStarts ==
  /\ command = "none" /\ shell = "open"
  /\ command' = "running"
  /\ UNCHANGED <<step, parts, armed, errand, reply, named, signalled, shell>>

(* At the end of the input, or for a reason of its own.                    *)
HostEnds ==
  /\ command = "running" /\ command' = "ended"
  /\ UNCHANGED <<step, parts, armed, errand, reply, named, signalled, shell>>

(* An input is cut into parts; an empty one is a part, too.                *)
OpenShell ==
  /\ step = "idle"
  /\ \/ /\ Goes("start") /\ parts' \in 1..MaxParts
        /\ armed' = TRUE /\ reply' = "open" /\ shell' = "open"
     \/ /\ Goes("over") /\ reply' = "error" /\ shell' \in {"none", "lost"}
        /\ UNCHANGED <<parts, armed>>
  /\ UNCHANGED <<errand, command, named, signalled>>

-----------------------------------------------------------------------------
(* drive_stdin_call.                                                       *)

(* run_cleanup disarms the guard before its first request.                 *)
Cleanup == Goes("terminate") /\ armed' = FALSE

StartCommand ==
  /\ step = "start"
  /\ \/ command # "none" /\ named' = TRUE /\ Goes("send") /\ UNCHANGED armed
     \/ Cleanup /\ UNCHANGED named
  /\ UNCHANGED <<parts, errand, reply, command, signalled, shell>>

(* A send that fails is no end yet: the command may have an exit code.     *)
Send ==
  /\ step = "send"
  /\ \/ parts' = parts - 1 /\ Goes(IF parts = 1 THEN "receive" ELSE "send")
     \/ Goes("drain") /\ UNCHANGED parts
  /\ UNCHANGED <<armed, errand, reply, command, named, signalled, shell>>

(* The poll that says done; before that, a poll changes nothing.  An error *)
(* of a poll, and too much output, end the call.                           *)
CollectOutput ==
  /\ step = "receive"
  /\ \/ command = "ended" /\ Goes("close") /\ armed' = FALSE
     \/ Cleanup
  /\ UNCHANGED <<parts, errand, reply, command, named, signalled, shell>>

(* Without an exit code, and after the limit of the drain, the error of    *)
(* the send stands.                                                        *)
Drain ==
  /\ step = "drain"
  /\ \/ command = "ended" /\ Goes("close") /\ armed' = FALSE
     \/ Cleanup
  /\ UNCHANGED <<parts, errand, reply, command, named, signalled, shell>>

(* The limit of the whole call.                                            *)
TimeLimit ==
  /\ step \in Driven /\ Cleanup
  /\ UNCHANGED <<parts, errand, reply, command, named, signalled, shell>>

-----------------------------------------------------------------------------
(* The cleanup.  Its requests are best effort.                             *)

(* A host may refuse to delete a shell while its command runs: the code    *)
(* sends the signal first.                                                 *)
DeleteShell ==
  \/ shell' = "deleted"
  \/ (~reachable \/ command = "running") /\ UNCHANGED shell

SignalTerminate ==
  IF named
  THEN /\ signalled' = TRUE
       /\ \/ command' = "ended"
          \/ ~reachable /\ UNCHANGED command
  ELSE UNCHANGED <<signalled, command>>

Close ==
  /\ step = "close" /\ DeleteShell
  /\ Goes("over") /\ reply' = "exit"
  /\ UNCHANGED <<parts, armed, errand, command, named, signalled>>

CleanupTerminates ==
  /\ step = "terminate" /\ SignalTerminate /\ Goes("delete")
  /\ UNCHANGED <<parts, armed, errand, reply, named, shell>>

CleanupDeletes ==
  /\ step = "delete" /\ DeleteShell
  /\ Goes("over") /\ reply' = "error"
  /\ UNCHANGED <<parts, armed, errand, command, named, signalled>>

(* A changed form: the shell is deleted, and the command is forgotten.     *)
DropDeletes ==
  /\ step \notin {"idle", "over"}
  /\ IF armed
     THEN \/ reply' = "gone" /\ errand' = "delete"
          \/ reply' = "left" /\ UNCHANGED errand
     ELSE reply' = "left" /\ UNCHANGED errand
  /\ Goes("over")
  /\ UNCHANGED <<parts, armed, command, named, signalled, shell>>

(* The caller goes away at an await.  The guard spawns a task while it is  *)
(* armed and the runtime works.                                            *)
Drop ==
  /\ step \notin {"idle", "over"}
  /\ IF armed
     THEN \/ reply' = "gone" /\ errand' = IF named THEN "terminate" ELSE "delete"
          \/ reply' = "left" /\ UNCHANGED errand
     ELSE reply' = "left" /\ UNCHANGED errand
  /\ Goes("over")
  /\ UNCHANGED <<parts, armed, command, named, signalled, shell>>

ErrandTerminates ==
  /\ errand = "terminate" /\ SignalTerminate /\ errand' = "delete"
  /\ UNCHANGED <<step, parts, armed, reply, named, shell>>

ErrandDeletes ==
  /\ errand = "delete" /\ DeleteShell /\ errand' = "over"
  /\ UNCHANGED <<step, parts, armed, reply, command, named, signalled>>

(* The server stops and drops the task.                                    *)
ErrandDropped ==
  /\ errand \in {"terminate", "delete"} /\ errand' = "over" /\ reply' = "left"
  /\ UNCHANGED <<step, parts, armed, command, named, signalled, shell>>

-----------------------------------------------------------------------------

Drive == StartCommand \/ Send \/ CollectOutput \/ Drain \/ TimeLimit

Finish == Close \/ CleanupTerminates \/ CleanupDeletes

Errand == ErrandTerminates \/ ErrandDeletes

StdinNext ==
  /\ UNCHANGED reachable
  /\ \/ HostStarts \/ HostEnds \/ OpenShell \/ Drive \/ Finish
     \/ Drop \/ Errand \/ ErrandDropped

(* The time limit fires, each request of the cleanup ends, and a task that *)
(* was spawned runs.  The host command owes nothing.                       *)
StdinFairness == WF_moving(Drive) /\ WF_moving(Finish) /\ WF_moving(Errand)

StdinSpec == StdinInit /\ [][StdinNext]_stdinVars /\ StdinFairness

(* The call keeps what WindowCall promises to the upload: no exit code of  *)
(* a command that runs, no error before the signal, an answer in the end,  *)
(* and no shell that stays, however the end of the command, the failing    *)
(* send, the time limit and a dropped call race.                           *)
CallKeepsPromises == Window!WindowSpec

=============================================================================
