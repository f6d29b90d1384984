------------------------- MODULE MCSessionRegistry -------------------------
(* Instances of SessionRegistry for TLC.                                   *)
EXTENDS SessionRegistry, TLC

CONSTANTS p1

(* Every profile decrypts to the password p1.                              *)
MCProfilePassword == [u \in Users |-> p1]

(* Slots and users are interchangeable: every user has the same profile    *)
(* password.  Passwords are not.                                           *)
Symmetry == Permutations(Requests) \cup Permutations(Users)

(* No action reads attempts and row, which only the properties about       *)
(* lockouts do.                                                            *)
WithoutLockouts ==
  <<registry, requests, valid, calls, rotations, rejections, accepted>>

=============================================================================
