---------------------------- MODULE MCStagedSteps ----------------------------
(* Instances of StagedSteps for TLC.                                       *)
EXTENDS StagedSteps, TLC

CONSTANTS w1, w2, s1

=============================================================================
