--------------------------- MODULE FilePlacement ---------------------------
(***************************************************************************)
(* What a file transfer of winrig promises about its target file           *)
(* (TR-XFER-04): a call changes the target in one step, to exactly the     *)
(* content its user confirmed, it replaces an existing file only when the  *)
(* user asked for it, and what it reports about the target is true.        *)
(***************************************************************************)
CONSTANTS
  Calls,      \* calls with one common target
  Replacing,  \* the calls with overwrite = true, a subset of Calls
  Contents,   \* what a file can hold
  Absent      \* no file, or nothing confirmed yet; not in Contents

VARIABLES
  target,     \* the file at the target path
  promised,   \* the content each user confirmed
  placed,     \* the calls that have changed the target
  verdict     \* what each call has reported about the target

vars == <<target, promised, placed, verdict>>

Init ==
  /\ target \in Contents \cup {Absent}
  /\ promised = [c \in Calls |-> Absent]
  /\ placed = {}
  /\ verdict = [c \in Calls |-> "open"]

(* The user confirms the digest of the content.                            *)
Promise(c) ==
  /\ promised[c] = Absent
  /\ verdict[c] = "open"
  /\ \E content \in Contents : promised' = [promised EXCEPT ![c] = content]
  /\ UNCHANGED <<target, placed, verdict>>

(* A call that reported an unknown outcome may still place its file.       *)
Place(c) ==
  /\ promised[c] # Absent
  /\ c \notin placed
  /\ verdict[c] \in {"open", "unknown"}
  /\ c \in Replacing \/ target = Absent
  /\ target' = promised[c]
  /\ placed' = placed \cup {c}
  /\ UNCHANGED <<promised, verdict>>

(* A shutdown ends many calls at once.                                     *)
Report ==
  /\ \E told \in [Calls -> {"open", "placed", "untouched", "unknown"}] :
       /\ \A c \in Calls :
            /\ verdict[c] # "open" => told[c] = verdict[c]
            /\ verdict[c] = "open" /\ told[c] = "placed" => c \in placed
            /\ verdict[c] = "open" /\ told[c] = "untouched" => c \notin placed
       /\ verdict' = told
  /\ UNCHANGED <<target, promised, placed>>

(* Somebody else writes or deletes the file.                               *)
Elsewhere ==
  /\ target' \in Contents \cup {Absent}
  /\ UNCHANGED <<promised, placed, verdict>>

Next == Elsewhere \/ Report \/ \E c \in Calls : Promise(c) \/ Place(c)

Spec == Init /\ [][Next]_vars

=============================================================================
