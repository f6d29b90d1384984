-------------------------- MODULE MCHostOperations --------------------------
(* An instance of the confirmed tools whose work is done by host commands, *)
(* for TLC.  The three families share no state, so that a behaviour has    *)
(* calls of one of them: the other ones stay as they began.                *)
EXTENDS MCHostFiles, MCHostChanges, MCStagedSteps

NoFileCall == \A c \in FileCalls : call[c].pc = "idle"
NoChangeCall == \A c \in ChangeCalls : ask[c].pc = "idle"
NoStagedCall == \A c \in Calls : StagedAt(c, "idle")

(* The second call of a change comes beside one that stops and disables,   *)
(* in the place of an administrator.                                       *)
BesideStop ==
  /\ ask[c1].pc # "idle" /\ AskedFor(c1).tool = "stop_service"
  /\ AskedFor(c1).arg = "disable" /\ AskedFor(c1).target = app
  /\ meddling = 0

(* The two writes come together, a script comes alone.                     *)
WritesOrScripts ==
  (\E c \in Scripts : ~StagedAt(c, "idle")) => \A c \in Writes : StagedAt(c, "idle")

OneTree == CHOOSE t \in Trees : TRUE
OneHost == CHOOSE h \in Hosts : TRUE

OperationsInit ==
  /\ FilesInit /\ ChangeInit /\ Init
  /\ fs = OneTree \/ host = OneHost
  /\ target = Absent \/ (fs = OneTree /\ host = OneHost)

OperationsNext ==
  \/ NoChangeCall /\ NoStagedCall /\ host = OneHost /\ target = Absent
     /\ FilesNext /\ UNCHANGED <<changeVars, vars>>
  \/ NoFileCall /\ NoStagedCall /\ fs = OneTree /\ target = Absent
     /\ ChangeNext /\ UNCHANGED <<filesVars, vars>>
     /\ (ask'[c2].pc # "idle" => BesideStop')
  \/ NoFileCall /\ NoChangeCall /\ fs = OneTree /\ host = OneHost
     /\ Next /\ UNCHANGED <<filesVars, changeVars>>
     /\ WritesOrScripts'

OperationsSpec ==
  /\ OperationsInit
  /\ [][OperationsNext]_<<filesVars, changeVars, vars>>
  /\ FilesFairness /\ ChangeFairness /\ StagedFairness

(* The types of the families; a script or a job runs for an agreed request *)
(* only, a call at its end has one reply, and a call of a plan awaits the  *)
(* process of its own step.                                                *)
OperationsTypeOK == FilesTypeOK /\ ChangeTypeOK /\ TypeOK

FilesAtRest == \A c \in FileCalls : call[c].pc \in {"idle", "over"}
ChangesAtRest == \A c \in ChangeCalls : ask[c].pc \in {"idle", "over"}
PlansAtRest == \A c \in Calls : staged[c].pc \in {"idle", "over"}

(* Every call of a tool that began ends, whatever fails on its way.  A call*)
(* is made once, so that this says: in the end none is under way.          *)
EveryOperationEnds == <>[](FilesAtRest /\ ChangesAtRest /\ PlansAtRest)

=============================================================================
