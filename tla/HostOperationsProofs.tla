------------------------ MODULE HostOperationsProofs ------------------------
(***************************************************************************)
(* The three families of confirmed tools together: the specification that  *)
(* the run checks, where a behaviour has calls of one family, and what the *)
(* proofs about each family say of it.                                     *)
(***************************************************************************)
EXTENDS HostFilesProofs, HostChangesProofs, StagedStepsProofs, MCHostOperations

(* A behaviour of the run is one of the file tools, one of the change tools*)
(* and one of the plans, with their fairness, so that what is proved of any*)
(* holds in it: a family that has no call stutters.                        *)
THEOREM OperationsAreEach ==
  OperationsSpec => FairFilesSpec /\ FairChangeSpec /\ FairSpec
<1>1. [OperationsNext]_<<filesVars, changeVars, vars>>
        => [FilesNext]_filesVars /\ [ChangeNext]_changeVars /\ [Next]_vars
  BY DEF OperationsNext
<1>2. OperationsInit => FilesInit /\ ChangeInit /\ Init
  BY DEF OperationsInit
<1>3. QED BY <1>1, <1>2, PTL
     DEF OperationsSpec, FairFilesSpec, FilesSpec, FairChangeSpec, ChangeSpec, FairSpec, Spec

(* The types of the families, for every set of calls, requests, trees,     *)
(* hosts and chunks.                                                       *)
THEOREM OperationsTypeCorrect == OperationsSpec => []OperationsTypeOK
<1>1. FilesTypeOK /\ ChangeTypeOK /\ TypeOK => OperationsTypeOK
  BY DEF OperationsTypeOK
<1>2. QED BY <1>1, OperationsAreEach, FilesTypeCorrect, ChangeTypeCorrect, StagedTypeCorrect, PTL
     DEF FairFilesSpec, FairChangeSpec, FairSpec

=============================================================================
