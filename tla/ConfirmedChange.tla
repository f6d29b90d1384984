-------------------------- MODULE ConfirmedChange --------------------------
(***************************************************************************)
(* What a modifying tool promises (DR-5, src/src/server.rs): it changes    *)
(* only what the prompt showed, and only after the agreement of the user   *)
(* or the permanent agreement of the operator.  A refused call never       *)
(* changes anything.                                                       *)
(***************************************************************************)
CONSTANTS
  Askers,  \* the calls of modifying tools
  Places   \* what a call can change

VARIABLES
  shown,   \* the places that a call asks about
  answer,  \* the answer to a call
  changed  \* the places that a call has changed

ccvars == <<shown, answer, changed>>

ConsentInit ==
  /\ shown = [c \in Askers |-> {}]
  /\ answer = [c \in Askers |-> "open"]
  /\ changed = [c \in Askers |-> {}]

(* The scans are done: the prompt is known.                                *)
Show(c) ==
  /\ answer[c] = "open" /\ shown[c] = {}
  /\ shown'[c] \subseteq Places
  /\ shown' = [shown EXCEPT ![c] = shown'[c]]
  /\ UNCHANGED <<answer, changed>>

Agree(c) ==
  /\ answer[c] = "open"
  /\ answer' = [answer EXCEPT ![c] = "agreed"]
  /\ UNCHANGED <<shown, changed>>

Refuse(c) ==
  /\ answer[c] = "open"
  /\ answer' = [answer EXCEPT ![c] = "refused"]
  /\ UNCHANGED <<shown, changed>>

Change(c) ==
  /\ answer[c] = "agreed"
  /\ changed[c] \subseteq changed'[c] /\ changed'[c] \subseteq changed[c] \cup shown[c]
  /\ changed' = [changed EXCEPT ![c] = changed'[c]]
  /\ UNCHANGED <<shown, answer>>

ConsentNext == \E c \in Askers : Show(c) \/ Agree(c) \/ Refuse(c) \/ Change(c)

ConsentSpec == ConsentInit /\ [][ConsentNext]_ccvars

=============================================================================
