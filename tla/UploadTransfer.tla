--------------------------- MODULE UploadTransfer ---------------------------
(***************************************************************************)
(* The upload of a file to a host (upload_file in src/src/server.rs, with  *)
(* the host commands of src/src/ps.rs): the confirmed local file goes      *)
(* window by window into a host temp file, the host hashes it and places   *)
(* it at the target, and every way out removes the temp file and writes    *)
(* one audit record.                                                       *)
(*                                                                         *)
(* A file is the sequence of its windows.  Two parties act on their own:   *)
(* the future of the tool call, which a client may drop at every await,    *)
(* and the PowerShell processes on the host, which may outlive the call    *)
(* whose answer was lost.                                                  *)
(***************************************************************************)
EXTENDS Integers, Sequences, FiniteSets

CONSTANTS
  Calls,              \* uploads with one common source and one common target
  Replacing,          \* the calls with overwrite = true
  Windows,            \* contents of one window, told apart by equality only
  MaxWindows,         \* bound: windows of a file
  MaxTransfer,        \* WINRIG_MAX_TRANSFER_BYTES, in windows
  Absent,             \* no file, or nothing confirmed yet
  Foreign,            \* a target content that no call ever confirms

  MaxRemovals,        \* removals a cancelled call tries
  MaxLost,            \* bound: lost answers in one behaviour
  MaxChanges          \* bound: changes by others in one behaviour

Files == UNION {[1 .. n -> Windows] : n \in 0 .. MaxWindows}

ASSUME CallsAssumption == IsFiniteSet(Calls) /\ Replacing \subseteq Calls

ASSUME FilesAssumption ==
  /\ MaxWindows \in Nat /\ MaxTransfer \in Nat
  /\ Absent \notin Files /\ Foreign \notin Files /\ Absent # Foreign

ASSUME LimitsAssumption ==
  MaxRemovals \in Nat /\ MaxLost \in Nat /\ MaxChanges \in Nat

VARIABLES
  local,      \* the source in the transfer directory; its owner may change it
  target,     \* the target on the host
  temp,       \* the temp file of each call; its random name is never shared
  session,    \* whether the session of the calls is open
  call,       \* the tool call of the server
  work,       \* the host process of the last window or placement of a call
  removal,    \* the host process that removes the temp file of a call
  cleanup,    \* removals the cancel guard has left
  audit,      \* the audit record of each call
  proven,     \* calls to which the host proved that the temp file is gone; the
              \* reply of any other failed call says that it may remain
  placed,     \* history: calls that changed the target
  lost,       \* lost answers, counted for the bound
  changes     \* changes by others, counted for the bound

server == <<call, cleanup, audit, proven>>

host == <<target, temp, work, removal, placed>>

bounds == <<lost, changes>>

vars == <<local, session, server, host, bounds>>

-----------------------------------------------------------------------------

NoWork == [kind |-> "none", phase |-> "none", offset |-> 0, bytes |-> <<>>]

Idle == [pc |-> "idle", size |-> 0, plan |-> Absent, sent |-> <<>>, placing |-> FALSE,
         unknown |-> FALSE]

Waiting == {"open", "read", "chunk", "eof", "commit", "remove"}

Work == [kind : {"none", "chunk", "commit"},
         phase : {"none", "start", "open", "hash", "place", "ok", "failed"},
         offset : 0 .. MaxWindows, bytes : Files]

Preparing == {"scan", "hash"}

Call == [pc : Waiting \cup Preparing \cup {"idle", "over"}, size : 0 .. MaxWindows, plan : Files \cup {Absent},
         sent : Files, placing : BOOLEAN, unknown : BOOLEAN]

Running(c) == work[c].phase \in {"start", "open", "hash", "place"}

(* Type correctness.  A call never sends more windows than it confirmed.   *)
TypeOK ==
  /\ local \in Files
  /\ target \in Files \cup {Absent, Foreign}
  /\ temp \in [Calls -> Files \cup {Absent}]
  /\ session \in BOOLEAN
  /\ call \in [Calls -> Call]
  /\ \A c \in Calls : call[c].pc \in Waiting =>
       call[c].plan \in Files /\ Len(call[c].sent) <= Len(call[c].plan)
  /\ work \in [Calls -> Work]
  /\ removal \in [Calls -> {"none", "delete", "test", "orphan", "gone", "remains", "error"}]
  /\ cleanup \in [Calls -> 0 .. MaxRemovals]
  /\ audit \in [Calls -> {"none", "uploaded", "failed", "cancelled", "unknown"}]
  /\ proven \subseteq Calls /\ placed \subseteq Calls
  /\ lost \in 0 .. MaxLost /\ changes \in 0 .. MaxChanges

Init ==
  /\ local \in Files
  /\ target \in {Absent, Foreign}
  /\ temp = [c \in Calls |-> Absent]
  /\ session = TRUE
  /\ call = [c \in Calls |-> Idle]
  /\ work = [c \in Calls |-> NoWork]
  /\ removal = [c \in Calls |-> "none"]
  /\ cleanup = [c \in Calls |-> 0]
  /\ audit = [c \in Calls |-> "none"]
  /\ proven = {} /\ placed = {}
  /\ lost = 0 /\ changes = 0

-----------------------------------------------------------------------------
(* The tool call: steps between two awaits.                                *)

At(c, pc) == call[c].pc = pc

Goto(c, pc) == call' = [call EXCEPT ![c].pc = pc]

(* Nobody waits for the host process any more; it goes on.                 *)
Orphan(c) == IF removal[c] \in {"delete", "test", "orphan"} THEN "orphan" ELSE "none"

(* A failed upload asks the host to remove the temp file and waits; without*)
(* a session the answer is an error at once.                               *)
Fail(c) ==
  /\ Goto(c, "remove")
  /\ removal' = [removal EXCEPT ![c] = IF session THEN "delete" ELSE "error"]

-----------------------------------------------------------------------------
(* Before the confirmation.                                                *)

(* A name is one plain file name, or a path, a reserved device, a short or *)
(* a hidden name; a remote path is absolute or relative, and an absolute   *)
(* one may lie below a protected directory, with an entry or without.  A   *)
(* directory is that of the transfers, or the one of the user in it.  The   *)
(* source is a regular file, nothing, a link, or a file that others share. *)
Asks == [name : {"plain", "path", "device", "short", "hidden"},
         remote : {"free", "permitted", "protected", "relative"},
         directory : {"missing", "private", "link", "shared"},
         source : {"regular", "missing", "link", "shared"}]

DecideTransferName(ask) == ask.name = "plain"

DecideTransferRemotePath(ask) == ask.remote # "relative"

DecideWritePath(ask) == ask.remote # "protected"

PrecheckTransferDir(ask) == ask.directory \notin {"link", "shared"}

DecideTransferSize(size) == size <= MaxTransfer

(* A shared file has a second hard link, another owner or other writers.   *)
OpenUploadSource(ask) == ask.directory = "private" /\ ask.source = "regular"

(* Nothing was confirmed, and nothing is recorded as a transfer.           *)
Refused(c) == call' = [call EXCEPT ![c] = [Idle EXCEPT !.pc = "over"]]

Ask(c) ==
  /\ At(c, "idle")
  /\ \E ask \in Asks :
       IF /\ DecideTransferName(ask) /\ DecideTransferRemotePath(ask) /\ DecideWritePath(ask)
          /\ PrecheckTransferDir(ask) /\ OpenUploadSource(ask)
          /\ DecideTransferSize(Len(local)) /\ session
       THEN call' = [call EXCEPT ![c].pc = "scan", ![c].size = Len(local)]
       ELSE Refused(c)
  /\ UNCHANGED <<local, session, cleanup, audit, proven, host, bounds>>

(* An existing target passes only with overwrite.                          *)
DecideWriteScan(c) == c \in Replacing \/ target = Absent

(* A scan that fails or does not parse, a directory or a link at the       *)
(* target and a lost session refuse the call, too.                         *)
ScanTarget(c) ==
  /\ At(c, "scan")
  /\ \/ session /\ DecideWriteScan(c) /\ Goto(c, "hash")
     \/ Refused(c)
  /\ UNCHANGED <<local, session, cleanup, audit, proven, host, bounds>>

(* The file that was opened has as many bytes as it had then.              *)
HashLocalFile(c) == Len(local) = call[c].size

(* The prompt shows the hash of the local file, and the user agrees or not.*)
Confirm(c) ==
  /\ At(c, "hash")
  /\ \/ /\ HashLocalFile(c)
        /\ call' = [call EXCEPT ![c].pc = "open", ![c].size = 0, ![c].plan = local]
     \/ Refused(c)
  /\ UNCHANGED <<local, session, cleanup, audit, proven, host, bounds>>

-----------------------------------------------------------------------------
(* After the confirmation.                                                 *)

(* send_and_place opens the file again: its size must be the confirmed one;*)
(* and a file that others can write by now does not open.                  *)
OpenSource(c) ==
  /\ At(c, "open")
  /\ \/ Len(local) = Len(call[c].plan) /\ Goto(c, "read") /\ UNCHANGED removal
     \/ Fail(c)
  /\ UNCHANGED <<local, session, cleanup, audit, proven, target, temp,
                 work, placed, bounds>>

(* The bytes of the next window; an empty file has one window without any. *)
NextWindow(c) ==
  LET i == Len(call[c].sent) + 1
  IN IF i > Len(call[c].plan) THEN <<>> ELSE SubSeq(local, i, i)

(* read_exact fails when the file ends early, or does not read; else the   *)
(* window is hashed and sent.                                              *)
ReadWindow(c) ==
  LET i == Len(call[c].sent) + 1
      short == i <= Len(call[c].plan) /\ i > Len(local)
  IN /\ At(c, "read")
     /\ \/ Fail(c) /\ UNCHANGED work
        \/ /\ ~short /\ session
           /\ call' = [call EXCEPT ![c].pc = "chunk", ![c].sent = @ \o NextWindow(c)]
           /\ work' = [work EXCEPT ![c] =
                [kind |-> "chunk", phase |-> "start", offset |-> i - 1,
                 bytes |-> NextWindow(c)]]
           /\ UNCHANGED removal
     /\ UNCHANGED <<local, session, cleanup, audit, proven, target, temp,
                    placed, bounds>>

(* A changed form: the loop ends past the size instead of at it.           *)
ChunkAnsweredLate(c) ==
  LET complete == Len(call[c].sent) > Len(call[c].plan)
      reported == work[c].phase = "ok"
  IN /\ At(c, "chunk")
     /\ ~Running(c)
     /\ \/ reported /\ Goto(c, IF complete THEN "eof" ELSE "read") /\ UNCHANGED removal
        \/ ~reported /\ Fail(c)
     /\ work' = [work EXCEPT ![c] = NoWork]
     /\ UNCHANGED <<local, session, cleanup, audit, proven, target, temp,
                    placed, bounds>>

(* The host reports the length of the temp file after the window.          *)
ChunkAnswered(c) ==
  LET complete == Len(call[c].sent) = Len(call[c].plan)
      reported == work[c].phase = "ok"
  IN /\ At(c, "chunk")
     /\ ~Running(c)
     /\ \/ reported /\ Goto(c, IF complete THEN "eof" ELSE "read") /\ UNCHANGED removal
        \/ ~reported /\ Fail(c)
     /\ work' = [work EXCEPT ![c] = NoWork]
     /\ UNCHANGED <<local, session, cleanup, audit, proven, target, temp,
                    placed, bounds>>

(* CallGuard: terminate and delete the shell.  The host process ends where *)
(* it is, or goes on: a signal that fails is not noticed, a command whose  *)
(* start was never answered gets none, and the task of a dropped call is   *)
(* not ordered with the removal of the temp file.                          *)
Terminated(c) == work' = [work EXCEPT ![c] = NoWork] \/ UNCHANGED work

(* A transport error or the time limit of the call.                        *)
ChunkLost(c) ==
  /\ At(c, "chunk")
  /\ lost < MaxLost
  /\ lost' = lost + 1
  /\ Terminated(c)
  /\ Fail(c)
  /\ UNCHANGED <<local, session, cleanup, audit, proven, target, temp, placed, changes>>

(* at_end_of_file, the comparison with the confirmed digest, and the       *)
(* placement command.  From here the target is not known to be unchanged.  *)
Commit(c) ==
  LET changed == Len(local) > Len(call[c].plan) \/ call[c].sent # call[c].plan
  IN /\ At(c, "eof")
     /\ \/ Fail(c) /\ UNCHANGED work
        \/ /\ ~changed /\ session
           /\ call' = [call EXCEPT ![c].pc = "commit", ![c].placing = TRUE]
           /\ work' = [work EXCEPT ![c] =
                [kind |-> "commit", phase |-> "start", offset |-> 0, bytes |-> <<>>]]
           /\ UNCHANGED removal
        \/ /\ ~changed /\ ~session
           /\ call' = [call EXCEPT ![c].pc = "remove", ![c].placing = TRUE,
                                   ![c].unknown = TRUE]
           /\ removal' = [removal EXCEPT ![c] = "error"]
           /\ UNCHANGED work
     /\ UNCHANGED <<local, session, cleanup, audit, proven, target, temp,
                    placed, bounds>>

Record(c, status) == audit' = [audit EXCEPT ![c] = status]

CommitAnswered(c) ==
  /\ At(c, "commit")
  /\ ~Running(c)
  /\ \/ /\ work[c].phase = "ok"
        /\ Record(c, "uploaded")
        /\ Goto(c, "over")
        /\ UNCHANGED removal
     \/ /\ work[c].phase # "ok"
        /\ Fail(c)
        /\ UNCHANGED audit
  /\ work' = [work EXCEPT ![c] = NoWork]
  /\ UNCHANGED <<local, session, cleanup, proven, target, temp, placed, bounds>>

(* No answer to the placement: nothing ends the host process.              *)
CommitLost(c) ==
  /\ At(c, "commit")
  /\ lost < MaxLost
  /\ lost' = lost + 1
  /\ call' = [call EXCEPT ![c].pc = "remove", ![c].unknown = TRUE]
  /\ removal' = [removal EXCEPT ![c] = IF session THEN "delete" ELSE "error"]
  /\ UNCHANGED <<local, session, cleanup, audit, proven, target, temp,
                 work, placed, changes>>

(* The end of a failed upload: the record, and a reply that names the temp *)
(* file when the host did not prove that it is gone.                       *)
EndFailed(c, removed) ==
  /\ Record(c, IF call[c].unknown THEN "unknown" ELSE "failed")
  /\ Goto(c, "over")
  /\ proven' = IF removed THEN proven \cup {c} ELSE proven

RemovalAnswered(c) ==
  /\ At(c, "remove")
  /\ removal[c] \in {"gone", "remains", "error"}
  /\ EndFailed(c, removal[c] = "gone")
  /\ removal' = [removal EXCEPT ![c] = "none"]
  /\ UNCHANGED <<local, session, cleanup, target, temp, work, placed, bounds>>

RemovalLost(c) ==
  /\ At(c, "remove")
  /\ removal[c] # "error"
  /\ lost < MaxLost
  /\ lost' = lost + 1
  /\ EndFailed(c, FALSE)
  /\ removal' = [removal EXCEPT ![c] = Orphan(c)]
  /\ UNCHANGED <<local, session, cleanup, target, temp, work, placed, changes>>

-----------------------------------------------------------------------------
(* The client drops the future of the call.                                *)

(* UploadGuard: the record is written at once, the removals are left to a  *)
(* task.  A window command is terminated, a placement command goes on.     *)
Cancel(c) ==
  /\ call[c].pc \in Waiting
  /\ Record(c, IF call[c].placing THEN "unknown" ELSE "cancelled")
  /\ Goto(c, "over")
  /\ cleanup' = [cleanup EXCEPT ![c] = MaxRemovals]
  /\ IF At(c, "chunk") THEN Terminated(c) ELSE UNCHANGED work
  /\ removal' = [removal EXCEPT ![c] = Orphan(c)]
  /\ UNCHANGED <<local, session, proven, target, temp, placed, bounds>>

(* Bound: the task starts when the removal of the call itself has ended;   *)
(* two removals at a time would delete the same file twice.                *)
CleanupStarts(c) ==
  /\ At(c, "over")
  /\ cleanup[c] > 0
  /\ removal[c] = "none"
  /\ removal' = [removal EXCEPT ![c] = IF session THEN "delete" ELSE "error"]
  /\ UNCHANGED <<local, session, server, target, temp, work, placed, bounds>>

CleanupAnswered(c) ==
  /\ At(c, "over")
  /\ cleanup[c] > 0
  /\ removal[c] \in {"gone", "remains", "error"}
  /\ cleanup' = [cleanup EXCEPT ![c] = IF removal[c] = "gone" THEN 0 ELSE @ - 1]
  /\ proven' = IF removal[c] = "gone" THEN proven \cup {c} ELSE proven
  /\ removal' = [removal EXCEPT ![c] = "none"]
  /\ UNCHANGED <<local, session, call, audit, target, temp, work, placed, bounds>>

CleanupLost(c) ==
  /\ At(c, "over")
  /\ cleanup[c] > 0
  /\ removal[c] \in {"delete", "test", "gone", "remains"}
  /\ lost < MaxLost
  /\ lost' = lost + 1
  /\ cleanup' = [cleanup EXCEPT ![c] = @ - 1]
  /\ removal' = [removal EXCEPT ![c] = Orphan(c)]
  /\ UNCHANGED <<local, session, call, audit, proven, target, temp, work, placed, changes>>

(* The runtime shuts down: every future is dropped, every task is lost.    *)
Shutdown ==
  /\ \E c \in Calls : call[c].pc \in Waiting \cup Preparing
  /\ audit' = [c \in Calls |->
       IF call[c].pc \notin Waiting THEN audit[c]
       ELSE IF call[c].placing THEN "unknown" ELSE "cancelled"]
  /\ call' = [c \in Calls |-> [call[c] EXCEPT !.pc = "over", !.size = 0]]
  /\ cleanup' = [c \in Calls |-> 0]
  /\ removal' = [c \in Calls |-> Orphan(c)]
  /\ UNCHANGED <<local, session, proven, target, temp, work, placed, bounds>>

-----------------------------------------------------------------------------
(* The host: the PowerShell processes of ps.rs, a step at a time.          *)

Process(c, phase) == work' = [work EXCEPT ![c].phase = phase]

(* upload_chunk opens the temp file: the first window creates it, a later  *)
(* one needs the length the tool expects.                                  *)
ChunkOpens(c) ==
  LET first == work[c].offset = 0
      fits == IF first THEN temp[c] = Absent
              ELSE temp[c] # Absent /\ Len(temp[c]) = work[c].offset
  IN /\ work[c].kind = "chunk" /\ work[c].phase = "start"
     /\ Process(c, IF fits THEN "open" ELSE "failed")
     /\ temp' = [temp EXCEPT ![c] = IF fits /\ first THEN <<>> ELSE @]
     /\ UNCHANGED <<local, session, server, target, removal, placed, bounds>>

(* The handle is shared for deletion: a removed file is written nowhere.   *)
ChunkWrites(c) ==
  /\ work[c].kind = "chunk" /\ work[c].phase = "open"
  /\ temp' = [temp EXCEPT ![c] = IF @ = Absent THEN Absent ELSE @ \o work[c].bytes]
  /\ Process(c, "ok")
  /\ UNCHANGED <<local, session, server, target, removal, placed, bounds>>

(* upload_commit opens the temp file, so that nothing writes or removes it *)
(* while it is hashed, and compares the length.                            *)
CommitOpens(c) ==
  LET fits == temp[c] # Absent /\ Len(temp[c]) = Len(call[c].plan)
  IN /\ work[c].kind = "commit" /\ work[c].phase = "start"
     /\ Process(c, IF fits THEN "hash" ELSE "failed")
     /\ UNCHANGED <<local, session, server, target, temp, removal, placed, bounds>>

(* The digest and the target are checked once the file is closed again.    *)
CommitChecks(c) ==
  LET fits == temp[c] = call[c].plan /\ (c \in Replacing \/ target = Absent)
  IN /\ work[c].kind = "commit" /\ work[c].phase = "hash"
     /\ Process(c, IF fits THEN "place" ELSE "failed")
     /\ UNCHANGED <<local, session, server, target, temp, removal, placed, bounds>>

(* A changed form: the placement always replaces.                          *)
CommitReplaces(c) ==
  LET fits == temp[c] # Absent
  IN /\ work[c].kind = "commit" /\ work[c].phase = "place"
     /\ \/ ~fits /\ Process(c, "failed") /\ UNCHANGED <<target, temp, placed>>
        \/ /\ fits /\ Process(c, "ok")
           /\ target' = temp[c]
           /\ temp' = [temp EXCEPT ![c] = Absent]
           /\ placed' = placed \cup {c}
     /\ UNCHANGED <<local, session, server, removal, bounds>>

(* Move refuses a target that appeared after the check.                    *)
CommitPlaces(c) ==
  LET fits == temp[c] # Absent /\ (c \in Replacing \/ target = Absent)
  IN /\ work[c].kind = "commit" /\ work[c].phase = "place"
     /\ \/ ~fits /\ Process(c, "failed") /\ UNCHANGED <<target, temp, placed>>
        \/ /\ fits /\ Process(c, "ok")
           /\ target' = temp[c]
           /\ temp' = [temp EXCEPT ![c] = Absent]
           /\ placed' = placed \cup {c}
     /\ UNCHANGED <<local, session, server, removal, bounds>>

(* Any statement of a script may throw: no access, no space, a parent that *)
(* became a link, a target that appeared between Exists and Move.          *)
ProcessFails(c) ==
  /\ Running(c)
  /\ Process(c, "failed")
  /\ UNCHANGED <<local, session, server, target, temp, removal, placed, bounds>>

(* upload_remove_temp: a file that a placement hashes cannot be removed.   *)
Deleted(c) ==
  temp' = [temp EXCEPT ![c] = IF work[c].phase = "hash" THEN @ ELSE Absent]

RemovalDeletes(c) ==
  /\ removal[c] = "delete"
  /\ Deleted(c)
  /\ removal' = [removal EXCEPT ![c] = "test"]
  /\ UNCHANGED <<local, session, server, target, work, placed, bounds>>

(* A changed form: the deletion is trusted without the test.               *)
RemovalTrusts(c) ==
  /\ removal[c] = "test"
  /\ removal' = [removal EXCEPT ![c] = "gone"]
  /\ UNCHANGED <<local, session, server, target, temp, work, placed, bounds>>

(* Exit code 0 only when the file is gone.                                 *)
RemovalTests(c) ==
  /\ removal[c] = "test"
  /\ removal' = [removal EXCEPT ![c] = IF temp[c] = Absent THEN "gone" ELSE "remains"]
  /\ UNCHANGED <<local, session, server, target, temp, work, placed, bounds>>

OrphanEnds(c) ==
  /\ removal[c] = "orphan"
  /\ Deleted(c) \/ UNCHANGED temp
  /\ removal' = [removal EXCEPT ![c] = "none"]
  /\ UNCHANGED <<local, session, server, target, work, placed, bounds>>

-----------------------------------------------------------------------------
(* Everybody else.                                                         *)

ChangeLocal ==
  /\ changes < MaxChanges
  /\ changes' = changes + 1
  /\ local' \in Files \ {local}
  /\ UNCHANGED <<session, server, host, lost>>

ForeignWrite ==
  /\ changes < MaxChanges
  /\ changes' = changes + 1
  /\ target' \in {Absent, Foreign} \ {target}
  /\ UNCHANGED <<local, session, server, temp, work, removal, placed, lost>>

(* connect and disconnect of the same user.                                *)
SessionChanges ==
  /\ changes < MaxChanges
  /\ changes' = changes + 1
  /\ session' = ~session
  /\ UNCHANGED <<local, server, host, lost>>

-----------------------------------------------------------------------------

Prepare(c) == Ask(c) \/ ScanTarget(c) \/ Confirm(c)

Progress(c) ==
  \/ OpenSource(c) \/ ReadWindow(c) \/ ChunkAnswered(c) \/ Commit(c)
  \/ CommitAnswered(c) \/ RemovalAnswered(c)

Trouble(c) ==
  ChunkLost(c) \/ CommitLost(c) \/ RemovalLost(c) \/ Cancel(c)

CleanupTask(c) == CleanupStarts(c) \/ CleanupAnswered(c) \/ CleanupLost(c)

HostStep(c) ==
  \/ ChunkOpens(c) \/ ChunkWrites(c) \/ CommitOpens(c) \/ CommitChecks(c)
  \/ CommitPlaces(c) \/ ProcessFails(c)

RemovalStep(c) == RemovalDeletes(c) \/ RemovalTests(c) \/ OrphanEnds(c)

Next ==
  \/ \E c \in Calls :
       \/ Prepare(c) \/ Progress(c) \/ Trouble(c) \/ CleanupTask(c)
       \/ HostStep(c) \/ RemovalStep(c)
  \/ Shutdown \/ ChangeLocal \/ ForeignWrite \/ SessionChanges

Spec == Init /\ [][Next]_vars

(* The runtime goes on polling the future of a call that nobody dropped,   *)
(* and a host process that runs comes to its end.                          *)
Fairness ==
  \A c \in Calls :
    WF_vars(Progress(c)) /\ WF_vars(HostStep(c)) /\ WF_vars(RemovalStep(c))

FairSpec == Spec /\ Fairness

-----------------------------------------------------------------------------

(* What the audit says of the target.                                      *)
Verdict(c) ==
  CASE audit[c] = "none" -> "open"
    [] audit[c] = "uploaded" -> "placed"
    [] audit[c] \in {"failed", "cancelled"} -> "untouched"
    [] audit[c] = "unknown" -> "unknown"

Placement == INSTANCE FilePlacement WITH
  Contents <- Files \cup {Foreign},
  promised <- [c \in Calls |-> call[c].plan],
  verdict <- [c \in Calls |-> Verdict(c)]

(* TR-XFER-04: whatever is lost, cancelled or changed meanwhile, a call    *)
(* changes the target at most once, to exactly the confirmed content and   *)
(* never over a file that the user did not agree to replace, and the audit *)
(* never calls a changed target untouched.                                 *)
PlacementSpec == Placement!Spec

(* A window command that its call left without an answer; the only one     *)
(* that may find no temp file is the first, which creates it.              *)
Left(c) == work[c].kind = "chunk" /\ ~At(c, "chunk")

Revived(c) == Left(c) /\ work[c].offset = 0 /\ temp[c] \in {<<>>, work[c].bytes}

(* The host proved that the temp file of a failed or cancelled call is     *)
(* gone (remove_host_temp), or has moved it to the target: it stays gone,  *)
(* whatever placement, window and removal are still on their way.  One     *)
(* case is left: the first window outlived its call, because no signal     *)
(* ended it, and comes after the removal.                                  *)
ProvenGone ==
  \A c \in Calls :
    /\ c \in proven => temp[c] = Absent \/ Revived(c)
    /\ audit[c] = "uploaded" => temp[c] = Absent

(* Every confirmed call ends with an audit record, also without an answer. *)
EveryCallEnds ==
  \A c \in Calls : (call[c].pc \in Waiting) ~> (audit[c] # "none")

=============================================================================
