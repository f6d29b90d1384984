----------------------------- MODULE WindowCall -----------------------------
(***************************************************************************)
(* What a caller of run_powershell_stdin (src/src/session.rs) may rely on: *)
(* an exit code belongs to a host command that ended; an error comes after *)
(* the signal that ends the command, when the server knows its name; and   *)
(* the shell goes, unless the call is left in the middle of its cleanup.   *)
(***************************************************************************)
VARIABLES
  reachable,  \* whether every request of a cleanup reaches the host
  reply,      \* none, open, exit, error; gone and left when nobody waits
  command,    \* the host command: none, running, ended
  named,      \* whether the server knows the command
  signalled,  \* whether the signal was sent
  shell       \* none, open, deleted; lost when only the host knows it

windowVars == <<reachable, reply, command, named, signalled, shell>>

WindowInit ==
  /\ reachable \in BOOLEAN
  /\ reply = "none" /\ command = "none" /\ shell = "none"
  /\ named = FALSE /\ signalled = FALSE

WindowOpens ==
  /\ reply = "none"
  /\ \/ reply' = "open" /\ shell' = "open"
     \/ reply' = "error" /\ shell' \in {"none", "lost"}
  /\ UNCHANGED <<command, named, signalled>>

CommandRuns ==
  /\ \/ command = "none" /\ shell = "open" /\ command' = "running" /\ UNCHANGED named
     \/ command = "running" /\ command' = "ended" /\ UNCHANGED named
     \/ command # "none" /\ reply = "open" /\ named' = TRUE /\ UNCHANGED command
  /\ UNCHANGED <<reply, signalled, shell>>

CommandSignalled ==
  /\ named /\ signalled' = TRUE
  /\ command' \in {command, "ended"}
  /\ UNCHANGED <<reply, named, shell>>

Closes == shell = "open" /\ shell' = "deleted"

WindowAnswers ==
  /\ reply = "open"
  /\ \/ reply' = "exit" /\ command = "ended"
     \/ reply' = "error" /\ (named /\ command = "running" => signalled)
  /\ Closes \/ UNCHANGED shell
  /\ UNCHANGED <<command, named, signalled>>

ShellGoes == Closes /\ UNCHANGED <<reply, command, named, signalled>>

CallerGoes ==
  /\ \/ reply = "open" /\ reply' \in {"gone", "left"}
     \/ reply = "gone" /\ reply' = "left"
  /\ UNCHANGED <<command, named, signalled, shell>>

WindowNext ==
  /\ UNCHANGED reachable
  /\ \/ WindowOpens \/ CommandRuns \/ CommandSignalled
     \/ WindowAnswers \/ ShellGoes \/ CallerGoes

(* A call that waits gets an answer.                                       *)
Answered == reply = "open" ~> reply # "open"

(* The shell of a call that is over goes, when the cleanup reaches the     *)
(* host; only a command whose start was never confirmed can hold it.       *)
Released ==
  reachable /\ reply \in {"exit", "error", "gone"} ~>
    shell # "open" \/ reply = "left" \/ (command # "none" /\ ~named)

WindowSpec == WindowInit /\ [][WindowNext]_windowVars /\ Answered /\ Released

=============================================================================
