-------------------------- MODULE MCUploadTransfer --------------------------
(* Instances of UploadTransfer for TLC.                                    *)
EXTENDS UploadTransfer, TLC

CONSTANTS c1, c2

(* The contents of the windows are interchangeable.                        *)
Symmetry == Permutations(Windows)

=============================================================================
