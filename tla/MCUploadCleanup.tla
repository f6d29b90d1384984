--------------------------- MODULE MCUploadCleanup ---------------------------
(* An instance for TLC of an upload that is cleaned up, and of one of its  *)
(* host commands with standard input.  The two share no state (a lost      *)
(* answer and the end of a command are environment to UploadTransfer), so  *)
(* that a behaviour has steps of one of them.                              *)
EXTENDS MCUploadTransfer, StdinCall

NoUpload == local = <<>> /\ target = Absent /\ session /\ changes = 0
            /\ \A c \in Calls : At(c, "idle")

NoStdinCall == step = "idle"

(* The windows are interchangeable: the source begins with one of them.    *)
First == CHOOSE w \in Windows : TRUE

CleanupInit ==
  /\ Init /\ StdinInit /\ (NoUpload \/ reachable)
  /\ local = <<>> \/ local[1] = First

CleanupNext ==
  \/ NoStdinCall /\ reachable /\ Next /\ UNCHANGED stdinVars
  \/ NoUpload /\ StdinNext /\ UNCHANGED vars

CleanupSpec ==
  /\ CleanupInit /\ [][CleanupNext]_<<vars, stdinVars>>
  /\ Fairness /\ StdinFairness

=============================================================================
