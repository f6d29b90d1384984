------------------------ MODULE UploadTransferProofs ------------------------
(***************************************************************************)
(* Proofs about upload_file, for every set of calls, every file size and   *)
(* every number of lost answers: the upload implements FilePlacement, and  *)
(* a proof of the host that a temp file is gone stays true.                *)
(***************************************************************************)
EXTENDS MCUploadCleanup, TLAPS

-----------------------------------------------------------------------------
(* Files are sequences of windows.                                         *)

LEMMA FilesAreSequences ==
  \A file : file \in Files <=> file \in Seq(Windows) /\ Len(file) <= MaxWindows
<1>1. ASSUME NEW file \in Files PROVE file \in Seq(Windows) /\ Len(file) <= MaxWindows
  <2>1. PICK n \in 0 .. MaxWindows : file \in [1 .. n -> Windows]
    BY DEF Files
  <2>2. QED BY <2>1, FilesAssumption
<1>2. ASSUME NEW file \in Seq(Windows), Len(file) <= MaxWindows PROVE file \in Files
  <2>1. Len(file) \in 0 .. MaxWindows /\ file \in [1 .. Len(file) -> Windows]
    BY <1>2, FilesAssumption
  <2>2. QED BY <2>1 DEF Files
<1>3. QED BY <1>1, <1>2

LEMMA FileLength == \A file \in Files : Len(file) \in 0 .. MaxWindows
  BY FilesAreSequences, FilesAssumption

LEMMA EmptyIsFile == <<>> \in Files /\ Len(<<>>) = 0
<1>1. <<>> \in Seq(Windows) /\ Len(<<>>) = 0
  OBVIOUS
<1>2. Len(<<>>) <= MaxWindows
  BY <1>1, FilesAssumption
<1>3. QED BY <1>1, <1>2, FilesAreSequences

(* A window is written behind the ones that are there.                     *)
LEMMA ConcatIsFile ==
  ASSUME NEW a \in Files, NEW b \in Files, Len(a) + Len(b) <= MaxWindows
  PROVE  a \o b \in Files /\ Len(a \o b) = Len(a) + Len(b)
<1>1. a \in Seq(Windows) /\ b \in Seq(Windows)
  BY FilesAreSequences
<1>2. a \o b \in Seq(Windows) /\ Len(a \o b) = Len(a) + Len(b)
  BY <1>1
<1>3. QED BY <1>2, FilesAreSequences

(* One window of a file is a file.                                         *)
LEMMA WindowIsFile ==
  ASSUME NEW file \in Files, NEW i \in 1 .. Len(file)
  PROVE  SubSeq(file, i, i) \in Files /\ Len(SubSeq(file, i, i)) = 1
<1>1. file \in Seq(Windows) /\ Len(file) \in Nat /\ Len(file) <= MaxWindows
  BY FilesAreSequences
<1>2. SubSeq(file, i, i) \in Seq(Windows) /\ Len(SubSeq(file, i, i)) = 1
  BY <1>1
<1>3. Len(SubSeq(file, i, i)) <= MaxWindows
  BY <1>1, <1>2, FilesAssumption
<1>4. QED BY <1>2, <1>3, FilesAreSequences

-----------------------------------------------------------------------------
(* The inductive invariant.                                                *)

Moments == Waiting \cup Preparing \cup {"idle", "over"}

Removals == {"none", "delete", "test", "orphan", "gone", "remains", "error"}

Verdicts == {"none", "uploaded", "failed", "cancelled", "unknown"}

CallsType ==
  /\ call \in [Calls -> Call]
  /\ audit \in [Calls -> Verdicts]
  /\ cleanup \in [Calls -> 0 .. MaxRemovals]
  /\ proven \subseteq Calls

HostType ==
  /\ temp \in [Calls -> Files \cup {Absent}]
  /\ work \in [Calls -> Work]
  /\ removal \in [Calls -> Removals]
  /\ placed \subseteq Calls

OthersType ==
  /\ local \in Files
  /\ target \in Files \cup {Absent, Foreign}
  /\ session \in BOOLEAN
  /\ lost \in 0 .. MaxLost /\ changes \in 0 .. MaxChanges

Shape == CallsType /\ HostType /\ OthersType

Uploading == {"open", "read", "chunk", "eof"}

(* The placement of a call is on its way.                                  *)
Committing(c) == work[c].kind = "commit" /\ Running(c)

(* Nobody will call the target of this call untouched.                     *)
Doubtful(c) == audit[c] = "unknown" \/ (At(c, "remove") /\ call[c].unknown)

(* What the control of a call says of its plan and its record.             *)
ControlInv(c) ==
  /\ call[c].pc \in Preparing \cup {"idle"} =>
       /\ call[c].plan = Absent /\ call[c].sent = <<>> /\ ~call[c].placing
       /\ audit[c] = "none" /\ work[c] = NoWork
  /\ call[c].pc \in Waiting =>
       /\ call[c].plan \in Files /\ Len(call[c].sent) <= Len(call[c].plan)
       /\ audit[c] = "none"
  /\ call[c].pc \in Uploading => ~call[c].placing
  /\ call[c].unknown => call[c].placing

(* A window fits behind what is there; a placement belongs to a plan.      *)
WorkInv(c) ==
  /\ call[c].pc \in {"open", "read", "eof"} => work[c] = NoWork
  /\ At(c, "chunk") => work[c].kind = "chunk"
  /\ At(c, "commit") => work[c].kind = "commit" /\ call[c].placing
  /\ work[c].kind = "chunk" =>
       /\ work[c].offset + Len(work[c].bytes) <= MaxWindows
       /\ work[c].phase = "open" => temp[c] = Absent \/ Len(temp[c]) = work[c].offset
  /\ work[c].kind = "commit" => call[c].plan \in Files /\ call[c].placing

(* A placement that is on its way puts the confirmed content or nothing,   *)
(* and while it may still change the target, no record denies it.          *)
PlacementInv(c) ==
  /\ Committing(c) => c \notin placed /\ (At(c, "commit") \/ Doubtful(c))
  /\ Committing(c) /\ work[c].phase = "place" => temp[c] \in {Absent, call[c].plan}
  /\ work[c].kind = "commit" /\ work[c].phase = "ok" => c \in placed
  /\ c \in placed =>
       /\ call[c].plan \in Files /\ call[c].placing
       /\ \/ audit[c] = "uploaded" \/ Doubtful(c)
          \/ At(c, "commit") /\ work[c].phase = "ok"

CallInv(c) == ControlInv(c) /\ WorkInv(c) /\ PlacementInv(c)

UploadInv == Shape /\ \A c \in Calls : CallInv(c)

-----------------------------------------------------------------------------
(* What the helpers of the actions do to a call and to its host processes. *)

LEMMA PutCall ==
  ASSUME Shape, NEW c \in Calls, NEW q \in Call, call' = [call EXCEPT ![c] = q]
  PROVE  call' \in [Calls -> Call] /\ call'[c] = q
  BY DEF Shape, CallsType

LEMMA GotoEffect ==
  ASSUME Shape, NEW c \in Calls, NEW pc \in Moments, Goto(c, pc)
  PROVE  /\ call' \in [Calls -> Call]
         /\ call'[c].pc = pc /\ call'[c].plan = call[c].plan /\ call'[c].sent = call[c].sent
         /\ call'[c].placing = call[c].placing /\ call'[c].unknown = call[c].unknown
<1> DEFINE q == [call[c] EXCEPT !.pc = pc]
<1>1. call[c] \in Call
  BY DEF Shape, CallsType
<1>2. q \in Call
  BY <1>1 DEF Call, Moments
<1>3. call' \in [Calls -> Call] /\ call'[c] = q
  BY <1>2, PutCall DEF Goto
<1>4. QED BY <1>1, <1>3 DEF Call

LEMMA FailEffect ==
  ASSUME Shape, NEW c \in Calls, Fail(c)
  PROVE  /\ call' \in [Calls -> Call] /\ removal' \in [Calls -> Removals]
         /\ call'[c].pc = "remove" /\ call'[c].plan = call[c].plan
         /\ call'[c].sent = call[c].sent /\ call'[c].placing = call[c].placing
         /\ call'[c].unknown = call[c].unknown /\ removal'[c] \in {"delete", "error"}
<1>1. Goto(c, "remove") /\ "remove" \in Moments
  BY DEF Fail, Moments, Waiting
<1>2. removal' \in [Calls -> Removals] /\ removal'[c] \in {"delete", "error"}
  BY DEF Fail, Shape, HostType, Removals
<1>3. QED BY <1>1, <1>2, GotoEffect

LEMMA RefusedEffect ==
  ASSUME Shape, NEW c \in Calls, Refused(c)
  PROVE  call' \in [Calls -> Call] /\ call'[c] = [Idle EXCEPT !.pc = "over"]
<1>1. 0 \in 0 .. MaxWindows
  BY FilesAssumption
<1>2. [Idle EXCEPT !.pc = "over"] \in Call
  BY <1>1, EmptyIsFile DEF Idle, Call
<1>3. QED BY <1>2, PutCall DEF Refused

LEMMA ProcessEffect ==
  ASSUME Shape, NEW c \in Calls,
         NEW phase \in {"none", "start", "open", "hash", "place", "ok", "failed"},
         Process(c, phase)
  PROVE  /\ work' \in [Calls -> Work]
         /\ work'[c].phase = phase /\ work'[c].kind = work[c].kind
         /\ work'[c].offset = work[c].offset /\ work'[c].bytes = work[c].bytes
<1>1. work[c] \in Work /\ work' = [work EXCEPT ![c] = [work[c] EXCEPT !.phase = phase]]
  BY DEF Shape, HostType, Process
<1>2. [work[c] EXCEPT !.phase = phase] \in Work
  BY <1>1 DEF Work
<1>3. QED BY <1>1, <1>2 DEF Shape, HostType, Work

LEMMA NoWorkIsWork == NoWork \in Work /\ NoWork.kind = "none" /\ NoWork.phase = "none"
  BY EmptyIsFile, FilesAssumption DEF NoWork, Work

LEMMA TerminatedEffect ==
  ASSUME Shape, NEW c \in Calls, Terminated(c)
  PROVE  work' \in [Calls -> Work] /\ work'[c] \in {work[c], NoWork}
  BY NoWorkIsWork DEF Terminated, Shape, HostType

LEMMA OrphanEffect ==
  ASSUME Shape, NEW c \in Calls
  PROVE  Orphan(c) \in {"none", "orphan"}
  BY DEF Orphan

(* The file of a call after a removal of its own.                          *)
LEMMA DeletedEffect ==
  ASSUME Shape, NEW c \in Calls, Deleted(c)
  PROVE  temp' \in [Calls -> Files \cup {Absent}] /\ temp'[c] \in {temp[c], Absent}
  BY DEF Deleted, Shape, HostType

-----------------------------------------------------------------------------
(* The steps before the confirmation.                                      *)

(* A call that is over without a plan owes nothing.                        *)
LEMMA RefusedKeeps ==
  ASSUME Shape, NEW c \in Calls, CallInv(c), call[c].pc \in Preparing \cup {"idle"},
         Refused(c), UNCHANGED <<local, session, cleanup, audit, proven, host, bounds>>
  PROVE  Shape' /\ CallInv(c)'
<1>1. call' \in [Calls -> Call] /\ call'[c] = [Idle EXCEPT !.pc = "over"]
  BY RefusedEffect
<1>2. Shape'
  BY <1>1 DEF Shape, CallsType, HostType, OthersType, host, bounds
<1>3. work[c] = NoWork /\ c \notin placed
  BY DEF CallInv, ControlInv, PlacementInv
<1>4. work' = work /\ placed' = placed
  BY DEF host
<1>5. call'[c].pc = "over" /\ call'[c].unknown = FALSE
  BY <1>1 DEF Idle
<1>6. ControlInv(c)'
  BY <1>5 DEF ControlInv, Preparing, Waiting, Uploading
<1>7. WorkInv(c)'
  BY <1>3, <1>4, <1>5, NoWorkIsWork DEF WorkInv, At
<1>8. PlacementInv(c)'
  BY <1>3, <1>4, <1>5, NoWorkIsWork DEF PlacementInv, Committing
<1>9. QED BY <1>2, <1>6, <1>7, <1>8 DEF CallInv

(* A call that stays without a plan, but for its control.                  *)
LEMMA PreparesKeeps ==
  ASSUME Shape, NEW c \in Calls, CallInv(c), call[c].pc \in Preparing \cup {"idle"},
         call' \in [Calls -> Call], call'[c].pc \in Preparing, call'[c].plan = call[c].plan,
         call'[c].sent = call[c].sent, call'[c].placing = call[c].placing,
         call'[c].unknown = call[c].unknown,
         UNCHANGED <<local, session, cleanup, audit, proven, host, bounds>>
  PROVE  Shape' /\ CallInv(c)'
<1>1. Shape'
  BY DEF Shape, CallsType, HostType, OthersType, host, bounds
<1>2. /\ work[c] = NoWork /\ c \notin placed /\ call[c].plan = Absent /\ call[c].sent = <<>>
      /\ ~call[c].placing /\ ~call[c].unknown /\ audit[c] = "none"
  BY DEF CallInv, ControlInv, PlacementInv
<1>3. work' = work /\ placed' = placed /\ audit' = audit
  BY DEF host
<1>4. ControlInv(c)'
  BY <1>2, <1>3 DEF ControlInv, Preparing, Waiting, Uploading
<1>5. WorkInv(c)'
  BY <1>2, <1>3, NoWorkIsWork DEF WorkInv, At, Preparing
<1>6. PlacementInv(c)'
  BY <1>2, <1>3, NoWorkIsWork DEF PlacementInv, Committing
<1>7. QED BY <1>1, <1>4, <1>5, <1>6 DEF CallInv

LEMMA AskKeeps ==
  ASSUME Shape, NEW c \in Calls, CallInv(c), Ask(c)
  PROVE  Shape' /\ CallInv(c)'
<1>1. At(c, "idle") /\ UNCHANGED <<local, session, cleanup, audit, proven, host, bounds>>
  BY DEF Ask
<1>2. CASE Refused(c)
  BY <1>1, <1>2, RefusedKeeps DEF At
<1>3. CASE call' = [call EXCEPT ![c].pc = "scan", ![c].size = Len(local)]
  <2> DEFINE q == [call[c] EXCEPT !.pc = "scan", !.size = Len(local)]
  <2>1. call[c] \in Call /\ Len(local) \in 0 .. MaxWindows
    BY FileLength DEF Shape, CallsType, OthersType
  <2>2. q \in Call
    BY <2>1 DEF Call, Preparing
  <2>3. call' \in [Calls -> Call] /\ call'[c] = q
    BY <1>3, <2>2, PutCall
  <2>4. /\ call'[c].pc = "scan" /\ call'[c].plan = call[c].plan /\ call'[c].sent = call[c].sent
        /\ call'[c].placing = call[c].placing /\ call'[c].unknown = call[c].unknown
    BY <2>1, <2>3 DEF Call
  <2>5. QED BY <1>1, <2>3, <2>4, PreparesKeeps DEF At, Preparing
<1>4. QED BY <1>2, <1>3 DEF Ask

LEMMA ScanTargetKeeps ==
  ASSUME Shape, NEW c \in Calls, CallInv(c), ScanTarget(c)
  PROVE  Shape' /\ CallInv(c)'
<1>1. At(c, "scan") /\ UNCHANGED <<local, session, cleanup, audit, proven, host, bounds>>
  BY DEF ScanTarget
<1>2. CASE Refused(c)
  BY <1>1, <1>2, RefusedKeeps DEF At, Preparing
<1>3. CASE Goto(c, "hash")
  <2>1. "hash" \in Moments
    BY DEF Moments, Preparing
  <2>2. QED BY <1>1, <1>3, <2>1, GotoEffect, PreparesKeeps DEF At, Preparing
<1>4. QED BY <1>2, <1>3 DEF ScanTarget

LEMMA ConfirmKeeps ==
  ASSUME Shape, NEW c \in Calls, CallInv(c), Confirm(c)
  PROVE  Shape' /\ CallInv(c)'
<1>1. At(c, "hash") /\ UNCHANGED <<local, session, cleanup, audit, proven, host, bounds>>
  BY DEF Confirm
<1>2. CASE Refused(c)
  BY <1>1, <1>2, RefusedKeeps DEF At, Preparing
<1>3. CASE call' = [call EXCEPT ![c].pc = "open", ![c].size = 0, ![c].plan = local]
  <2> DEFINE q == [call[c] EXCEPT !.pc = "open", !.size = 0, !.plan = local]
  <2>1. call[c] \in Call /\ local \in Files /\ 0 \in 0 .. MaxWindows
    BY FilesAssumption DEF Shape, CallsType, OthersType
  <2>2. q \in Call
    <3>1. "open" \in Waiting
      BY DEF Waiting
    <3>2. QED BY <2>1, <3>1 DEF Call
  <2>a. call' = [call EXCEPT ![c] = q]
    BY <1>3, <2>1 DEF Shape, CallsType
  <2>3. call' \in [Calls -> Call] /\ call'[c] = q
    BY <2>a, <2>2, PutCall
  <2>4. /\ call'[c].pc = "open" /\ call'[c].plan = local /\ call'[c].sent = call[c].sent
        /\ call'[c].placing = call[c].placing /\ call'[c].unknown = call[c].unknown
    BY <2>1, <2>3 DEF Call
  <2>5. /\ work[c] = NoWork /\ c \notin placed /\ call[c].sent = <<>>
        /\ ~call[c].placing /\ ~call[c].unknown /\ audit[c] = "none"
    BY <1>1 DEF CallInv, ControlInv, PlacementInv, At, Preparing
  <2>6. work' = work /\ placed' = placed /\ audit' = audit
    BY <1>1 DEF host
  <2>7. Shape'
    BY <1>1, <2>3 DEF Shape, CallsType, HostType, OthersType, host, bounds
  <2>8. Len(call'[c].sent) <= Len(call'[c].plan)
    BY <2>1, <2>4, <2>5, EmptyIsFile, FileLength
  <2>9. ControlInv(c)'
    BY <2>1, <2>4, <2>5, <2>6, <2>8 DEF ControlInv, Preparing
  <2>10. WorkInv(c)'
    BY <2>4, <2>5, <2>6, NoWorkIsWork DEF WorkInv, At
  <2>11. PlacementInv(c)'
    BY <2>5, <2>6, NoWorkIsWork DEF PlacementInv, Committing
  <2>12. QED BY <2>7, <2>9, <2>10, <2>11 DEF CallInv
<1>4. QED BY <1>2, <1>3 DEF Confirm

-----------------------------------------------------------------------------
(* Ways on that several actions share.                                     *)

(* A step of somebody else, or one that at most removes the temp file.     *)
LEMMA SameKeeps ==
  ASSUME NEW c \in Calls, CallInv(c), call'[c] = call[c], work'[c] = work[c],
         audit'[c] = audit[c], c \in placed' <=> c \in placed, temp'[c] \in {temp[c], Absent}
  PROVE  CallInv(c)'
<1>1. ControlInv(c)'
  BY DEF CallInv, ControlInv
<1>2. WorkInv(c)'
  BY DEF CallInv, WorkInv, At
<1>3. PlacementInv(c)'
  BY DEF CallInv, PlacementInv, Committing, Running, Doubtful, At
<1>4. QED BY <1>1, <1>2, <1>3 DEF CallInv

(* A failed upload has not changed the target, and will not.               *)
LEMMA FailKeeps ==
  ASSUME Shape, NEW c \in Calls, CallInv(c), call[c].pc \in Waiting, Fail(c),
         work' \in [Calls -> Work], work'[c] \in {work[c], NoWork},
         work'[c].kind = "commit" => ~Running(c), c \notin placed,
         UNCHANGED <<local, session, cleanup, audit, proven, target, temp, placed>>,
         lost' \in 0 .. MaxLost, changes' = changes
  PROVE  Shape' /\ CallInv(c)'
<1>1. /\ call' \in [Calls -> Call] /\ removal' \in [Calls -> Removals]
      /\ call'[c].pc = "remove" /\ call'[c].plan = call[c].plan
      /\ call'[c].sent = call[c].sent /\ call'[c].placing = call[c].placing
      /\ call'[c].unknown = call[c].unknown
  BY FailEffect
<1>2. Shape'
  BY <1>1 DEF Shape, CallsType, HostType, OthersType
<1>3. ControlInv(c)'
  BY <1>1 DEF CallInv, ControlInv, Waiting, Preparing, Uploading
<1>4. WorkInv(c)'
  BY <1>1, NoWorkIsWork DEF CallInv, WorkInv, At
<1>5. PlacementInv(c)'
  BY <1>1, NoWorkIsWork DEF CallInv, PlacementInv, Committing, Running
<1>6. QED BY <1>2, <1>3, <1>4, <1>5 DEF CallInv

(* The record of a call that ends is true of the target.                   *)
LEMMA EndKeeps ==
  ASSUME Shape, NEW c \in Calls, CallInv(c), call[c].pc \in Waiting, Goto(c, "over"),
         NEW status \in Verdicts \ {"none"}, Record(c, status),
         work' \in [Calls -> Work], work'[c] \in {work[c], NoWork},
         Committing(c)' => status = "unknown",
         c \in placed => status \in {"unknown", "uploaded"},
         cleanup' \in [Calls -> 0 .. MaxRemovals], proven' \subseteq Calls,
         removal' \in [Calls -> Removals],
         UNCHANGED <<local, session, target, temp, placed, changes>>, lost' \in 0 .. MaxLost
  PROVE  Shape' /\ CallInv(c)'
<1>1. /\ call' \in [Calls -> Call]
      /\ call'[c].pc = "over" /\ call'[c].plan = call[c].plan
      /\ call'[c].sent = call[c].sent /\ call'[c].placing = call[c].placing
      /\ call'[c].unknown = call[c].unknown
  BY GotoEffect DEF Moments
<1>2. audit' \in [Calls -> Verdicts] /\ audit'[c] = status
  BY DEF Record, Shape, CallsType
<1>3. Shape'
  BY <1>1, <1>2 DEF Shape, CallsType, HostType, OthersType
<1>4. ControlInv(c)'
  BY <1>1 DEF CallInv, ControlInv, Waiting, Preparing, Uploading
<1>5. WorkInv(c)'
  BY <1>1, NoWorkIsWork DEF CallInv, WorkInv, At
<1>6. PlacementInv(c)'
  BY <1>1, <1>2, NoWorkIsWork DEF CallInv, PlacementInv, Committing, Running, Doubtful
<1>7. QED BY <1>3, <1>4, <1>5, <1>6 DEF CallInv

-----------------------------------------------------------------------------
(* The windows.                                                            *)

(* A call that uploads has no placement yet.                               *)
LEMMA UploadingIsBefore ==
  ASSUME NEW c \in Calls, CallInv(c), call[c].pc \in Uploading
  PROVE  /\ call[c].pc \in Waiting /\ c \notin placed /\ work[c].kind # "commit"
         /\ call[c].plan \in Files /\ Len(call[c].sent) <= Len(call[c].plan)
         /\ audit[c] = "none" /\ ~call[c].placing /\ ~call[c].unknown
  BY DEF CallInv, ControlInv, WorkInv, PlacementInv, Uploading, Waiting

LEMMA OpenSourceKeeps ==
  ASSUME Shape, NEW c \in Calls, CallInv(c), OpenSource(c)
  PROVE  Shape' /\ CallInv(c)'
<1>1. At(c, "open") /\ call[c].pc \in Uploading
  BY DEF OpenSource, At, Uploading
<1>2. UNCHANGED <<local, session, cleanup, audit, proven, target, temp, work, placed, bounds>>
  BY DEF OpenSource
<1>3. CASE Fail(c)
  BY <1>1, <1>2, <1>3, UploadingIsBefore, FailKeeps DEF Shape, HostType, OthersType, bounds
<1>4. CASE Goto(c, "read") /\ UNCHANGED removal
  <2>1. /\ call' \in [Calls -> Call]
        /\ call'[c].pc = "read" /\ call'[c].plan = call[c].plan
        /\ call'[c].sent = call[c].sent /\ call'[c].placing = call[c].placing
        /\ call'[c].unknown = call[c].unknown
    BY <1>4, GotoEffect DEF Moments, Waiting
  <2>2. Shape'
    BY <1>2, <1>4, <2>1 DEF Shape, CallsType, HostType, OthersType, bounds
  <2>3. work[c] = NoWork /\ c \notin placed
    BY <1>1, UploadingIsBefore DEF CallInv, WorkInv, At
  <2>4. ControlInv(c)'
    BY <1>1, <1>2, <2>1, UploadingIsBefore DEF ControlInv, Preparing
  <2>5. WorkInv(c)'
    BY <1>2, <2>1, <2>3, NoWorkIsWork DEF WorkInv, At
  <2>6. PlacementInv(c)'
    BY <1>2, <2>3, NoWorkIsWork DEF PlacementInv, Committing
  <2>7. QED BY <2>2, <2>4, <2>5, <2>6 DEF CallInv
<1>5. QED BY <1>3, <1>4 DEF OpenSource

(* The next window of the file, and what is sent with it, fit the plan.    *)
LEMMA NextWindowFits ==
  ASSUME Shape, NEW c \in Calls, call[c].plan \in Files, Len(call[c].sent) <= Len(call[c].plan),
         Len(call[c].sent) + 1 <= Len(call[c].plan) => Len(call[c].sent) + 1 <= Len(local)
  PROVE  /\ NextWindow(c) \in Files /\ call[c].sent \o NextWindow(c) \in Files
         /\ Len(call[c].sent \o NextWindow(c)) <= Len(call[c].plan)
         /\ Len(call[c].sent) + Len(NextWindow(c)) <= MaxWindows
         /\ Len(call[c].sent) \in 0 .. MaxWindows
<1> DEFINE sent == call[c].sent
           plan == call[c].plan
           n == NextWindow(c)
<1>1. sent \in Files /\ local \in Files /\ plan \in Files
  BY DEF Shape, CallsType, OthersType, Call
<1>2. /\ Len(sent) \in 0 .. MaxWindows /\ Len(plan) \in 0 .. MaxWindows
      /\ Len(local) \in 0 .. MaxWindows
  BY <1>1, FileLength
<1>3. n \in Files /\ Len(sent) + Len(n) <= Len(plan)
  <2>1. CASE Len(sent) + 1 > Len(plan)
    <3>1. n = <<>>
      BY <2>1 DEF NextWindow
    <3>2. QED BY <1>2, <3>1, EmptyIsFile
  <2>2. CASE Len(sent) + 1 <= Len(plan)
    <3>1. Len(sent) + 1 \in 1 .. Len(local) /\ ~(Len(sent) + 1 > Len(plan))
      BY <1>2, <2>2
    <3>2. n = SubSeq(local, Len(sent) + 1, Len(sent) + 1)
      BY <3>1 DEF NextWindow
    <3>3. QED BY <1>1, <1>2, <2>2, <3>1, <3>2, WindowIsFile
  <2>3. QED BY <1>2, <2>1, <2>2
<1>4. Len(sent) + Len(n) <= MaxWindows
  BY <1>2, <1>3, FileLength, FilesAssumption
<1>5. sent \o n \in Files /\ Len(sent \o n) = Len(sent) + Len(n)
  BY <1>1, <1>3, <1>4, ConcatIsFile
<1>6. QED BY <1>2, <1>3, <1>4, <1>5

LEMMA ReadWindowKeeps ==
  ASSUME Shape, NEW c \in Calls, CallInv(c), ReadWindow(c)
  PROVE  Shape' /\ CallInv(c)'
<1>1. At(c, "read") /\ call[c].pc \in Uploading
  BY DEF ReadWindow, At, Uploading
<1>2. UNCHANGED <<local, session, cleanup, audit, proven, target, temp, placed, bounds>>
  BY DEF ReadWindow
<1>3. CASE Fail(c) /\ UNCHANGED work
  BY <1>1, <1>2, <1>3, UploadingIsBefore, FailKeeps DEF Shape, HostType, OthersType, bounds
<1>4. CASE ~(Fail(c) /\ UNCHANGED work)
  <2> DEFINE n == NextWindow(c)
             q == [call[c] EXCEPT !.pc = "chunk", !.sent = call[c].sent \o n]
             w == [kind |-> "chunk", phase |-> "start", offset |-> Len(call[c].sent) + 1 - 1,
                   bytes |-> n]
  <2>a. /\ call' = [call EXCEPT ![c].pc = "chunk", ![c].sent = @ \o n]
        /\ work' = [work EXCEPT ![c] = w] /\ UNCHANGED removal
        /\ ~(Len(call[c].sent) + 1 <= Len(call[c].plan) /\ Len(call[c].sent) + 1 > Len(local))
    BY <1>4 DEF ReadWindow
  <2>b. call' = [call EXCEPT ![c] = q]
    BY <2>a DEF Shape, CallsType, Call
  <2>1. /\ call' = [call EXCEPT ![c] = q] /\ work' = [work EXCEPT ![c] = w]
        /\ UNCHANGED removal
        /\ ~(Len(call[c].sent) + 1 <= Len(call[c].plan) /\ Len(call[c].sent) + 1 > Len(local))
    BY <2>a, <2>b
  <2>2. /\ call[c] \in Call /\ local \in Files /\ call[c].sent \in Files
        /\ call[c].plan \in Files /\ Len(call[c].sent) <= Len(call[c].plan)
    BY <1>1, UploadingIsBefore DEF Shape, CallsType, OthersType, Call
  <2>3. /\ Len(call[c].sent) \in 0 .. MaxWindows /\ Len(local) \in 0 .. MaxWindows
        /\ Len(call[c].plan) \in 0 .. MaxWindows
    BY <2>2, FileLength
  <2>4. /\ n \in Files /\ call[c].sent \o n \in Files
        /\ Len(call[c].sent \o n) <= Len(call[c].plan)
        /\ Len(call[c].sent) + Len(n) <= MaxWindows
    BY <2>1, <2>2, <2>3, NextWindowFits
  <2>5. q \in Call
    BY <2>2, <2>4 DEF Call, Waiting
  <2>6. call' \in [Calls -> Call] /\ call'[c] = q
    BY <2>1, <2>5, PutCall
  <2>7. /\ call'[c].pc = "chunk" /\ call'[c].plan = call[c].plan
        /\ call'[c].sent = call[c].sent \o n /\ call'[c].placing = call[c].placing
        /\ call'[c].unknown = call[c].unknown
    BY <2>2, <2>6 DEF Call
  <2>8. Len(call[c].sent) + 1 - 1 = Len(call[c].sent)
    BY <2>3
  <2>9. w \in Work
    BY <2>3, <2>4, <2>8 DEF Work
  <2>10. work' \in [Calls -> Work] /\ work'[c] = w
    BY <2>1, <2>9 DEF Shape, HostType
  <2>11. Shape'
    BY <1>2, <2>1, <2>6, <2>10 DEF Shape, CallsType, HostType, OthersType, bounds
  <2>12. ControlInv(c)'
    BY <1>1, <1>2, <2>2, <2>4, <2>7, UploadingIsBefore DEF ControlInv, Preparing
  <2>13. WorkInv(c)'
    BY <2>4, <2>7, <2>8, <2>10 DEF WorkInv, At
  <2>14. PlacementInv(c)'
    BY <1>1, <1>2, <2>10, UploadingIsBefore DEF PlacementInv, Committing
  <2>15. QED BY <2>11, <2>12, <2>13, <2>14 DEF CallInv
<1>5. QED BY <1>3, <1>4

LEMMA ChunkAnsweredKeeps ==
  ASSUME Shape, NEW c \in Calls, CallInv(c), ChunkAnswered(c)
  PROVE  Shape' /\ CallInv(c)'
<1>1. At(c, "chunk") /\ call[c].pc \in Uploading
  BY DEF ChunkAnswered, At, Uploading
<1>2. UNCHANGED <<local, session, cleanup, audit, proven, target, temp, placed, bounds>>
  BY DEF ChunkAnswered
<1>3. work' \in [Calls -> Work] /\ work'[c] = NoWork
  BY NoWorkIsWork DEF ChunkAnswered, Shape, HostType
<1>4. CASE Fail(c)
  BY <1>1, <1>2, <1>3, <1>4, NoWorkIsWork, UploadingIsBefore, FailKeeps
  DEF Shape, OthersType, bounds
<1>5. ASSUME NEW pc \in {"eof", "read"}, Goto(c, pc), UNCHANGED removal
      PROVE  Shape' /\ CallInv(c)'
  <2>1. /\ call' \in [Calls -> Call]
        /\ call'[c].pc = pc /\ call'[c].plan = call[c].plan
        /\ call'[c].sent = call[c].sent /\ call'[c].placing = call[c].placing
        /\ call'[c].unknown = call[c].unknown
    BY <1>5, GotoEffect DEF Moments, Waiting
  <2>2. Shape'
    BY <1>2, <1>3, <1>5, <2>1 DEF Shape, CallsType, HostType, OthersType, bounds
  <2>3. ControlInv(c)'
    BY <1>1, <1>2, <2>1, UploadingIsBefore DEF ControlInv, Preparing
  <2>4. WorkInv(c)'
    BY <1>3, <2>1, NoWorkIsWork DEF WorkInv, At
  <2>5. PlacementInv(c)'
    BY <1>1, <1>2, <1>3, NoWorkIsWork, UploadingIsBefore DEF PlacementInv, Committing
  <2>6. QED BY <2>2, <2>3, <2>4, <2>5 DEF CallInv
<1>6. QED BY <1>4, <1>5 DEF ChunkAnswered

LEMMA ChunkLostKeeps ==
  ASSUME Shape, NEW c \in Calls, CallInv(c), ChunkLost(c)
  PROVE  Shape' /\ CallInv(c)'
<1>1. call[c].pc \in Uploading
  BY DEF ChunkLost, At, Uploading
<1>2. work' \in [Calls -> Work] /\ work'[c] \in {work[c], NoWork}
  BY TerminatedEffect DEF ChunkLost
<1>3. lost' \in 0 .. MaxLost /\ changes' = changes
  BY LimitsAssumption DEF ChunkLost, Shape, OthersType
<1>4. QED BY <1>1, <1>2, <1>3, NoWorkIsWork, UploadingIsBefore, FailKeeps DEF ChunkLost

-----------------------------------------------------------------------------
(* The placement and the ends of a call.                                   *)

LEMMA CommitKeeps ==
  ASSUME Shape, NEW c \in Calls, CallInv(c), Commit(c)
  PROVE  Shape' /\ CallInv(c)'
<1>1. At(c, "eof") /\ call[c].pc \in Uploading
  BY DEF Commit, At, Uploading
<1>2. UNCHANGED <<local, session, cleanup, audit, proven, target, temp, placed, bounds>>
  BY DEF Commit
<1>3. call[c] \in Call
  BY DEF Shape, CallsType
<1>4. CASE Fail(c) /\ UNCHANGED work
  BY <1>1, <1>2, <1>4, UploadingIsBefore, FailKeeps DEF Shape, HostType, OthersType, bounds
<1>5. CASE /\ call' = [call EXCEPT ![c].pc = "commit", ![c].placing = TRUE]
           /\ work' = [work EXCEPT ![c] =
                [kind |-> "commit", phase |-> "start", offset |-> 0, bytes |-> <<>>]]
           /\ UNCHANGED removal
  <2> DEFINE q == [call[c] EXCEPT !.pc = "commit", !.placing = TRUE]
             w == [kind |-> "commit", phase |-> "start", offset |-> 0, bytes |-> <<>>]
  <2>1. q \in Call
    BY <1>3 DEF Call, Waiting
  <2>2. call' = [call EXCEPT ![c] = q]
    BY <1>3, <1>5 DEF Shape, CallsType
  <2>3. call' \in [Calls -> Call] /\ call'[c] = q
    BY <2>1, <2>2, PutCall
  <2>4. /\ call'[c].pc = "commit" /\ call'[c].plan = call[c].plan /\ call'[c].placing
        /\ call'[c].sent = call[c].sent /\ call'[c].unknown = call[c].unknown
    BY <1>3, <2>3 DEF Call
  <2>5. 0 \in 0 .. MaxWindows
    BY FilesAssumption
  <2>6. w \in Work
    BY <2>5, EmptyIsFile DEF Work
  <2>7. work' \in [Calls -> Work] /\ work'[c] = w
    BY <1>5, <2>6 DEF Shape, HostType
  <2>8. Shape'
    BY <1>2, <1>5, <2>3, <2>7 DEF Shape, CallsType, HostType, OthersType, bounds
  <2>9. ControlInv(c)'
    BY <1>1, <1>2, <2>4, UploadingIsBefore DEF ControlInv, Preparing, Uploading
  <2>10. WorkInv(c)'
    BY <1>1, <2>4, <2>7, UploadingIsBefore DEF WorkInv, At
  <2>11. PlacementInv(c)'
    BY <1>1, <1>2, <2>4, <2>7, UploadingIsBefore DEF PlacementInv, Committing, At
  <2>12. QED BY <2>8, <2>9, <2>10, <2>11 DEF CallInv
<1>6. CASE /\ call' = [call EXCEPT ![c].pc = "remove", ![c].placing = TRUE, ![c].unknown = TRUE]
           /\ removal' = [removal EXCEPT ![c] = "error"]
           /\ UNCHANGED work
  <2> DEFINE q == [call[c] EXCEPT !.pc = "remove", !.placing = TRUE, !.unknown = TRUE]
  <2>1. q \in Call
    BY <1>3 DEF Call, Waiting
  <2>2. call' = [call EXCEPT ![c] = q]
    BY <1>3, <1>6 DEF Shape, CallsType
  <2>3. call' \in [Calls -> Call] /\ call'[c] = q
    BY <2>1, <2>2, PutCall
  <2>4. /\ call'[c].pc = "remove" /\ call'[c].plan = call[c].plan /\ call'[c].placing
        /\ call'[c].sent = call[c].sent /\ call'[c].unknown
    BY <1>3, <2>3 DEF Call
  <2>5. removal' \in [Calls -> Removals]
    BY <1>6 DEF Shape, HostType, Removals
  <2>6. Shape'
    BY <1>2, <1>6, <2>3, <2>5 DEF Shape, CallsType, HostType, OthersType, bounds
  <2>7. work[c] = NoWork
    BY <1>1 DEF CallInv, WorkInv, At
  <2>8. ControlInv(c)'
    BY <1>1, <1>2, <2>4, UploadingIsBefore DEF ControlInv, Preparing, Uploading
  <2>9. WorkInv(c)'
    BY <1>6, <2>4, <2>7, NoWorkIsWork DEF WorkInv, At
  <2>10. PlacementInv(c)'
    BY <1>1, <1>2, <1>6, <2>7, NoWorkIsWork, UploadingIsBefore DEF PlacementInv, Committing
  <2>11. QED BY <2>6, <2>8, <2>9, <2>10 DEF CallInv
<1>7. QED BY <1>4, <1>5, <1>6 DEF Commit

LEMMA CommitAnsweredKeeps ==
  ASSUME Shape, NEW c \in Calls, CallInv(c), CommitAnswered(c)
  PROVE  Shape' /\ CallInv(c)'
<1>1. At(c, "commit") /\ call[c].pc \in Waiting /\ ~Running(c)
  BY DEF CommitAnswered, At, Waiting
<1>2. UNCHANGED <<local, session, cleanup, proven, target, temp, placed, bounds>>
  BY DEF CommitAnswered
<1>3. work' \in [Calls -> Work] /\ work'[c] = NoWork
  BY NoWorkIsWork DEF CommitAnswered, Shape, HostType
<1>4. CASE work[c].phase = "ok" /\ Record(c, "uploaded") /\ Goto(c, "over") /\ UNCHANGED removal
  <2>1. Committing(c)' <=> FALSE
    BY <1>3, NoWorkIsWork DEF Committing
  <2>2. "uploaded" \in Verdicts \ {"none"}
    BY DEF Verdicts
  <2>3. /\ cleanup' \in [Calls -> 0 .. MaxRemovals] /\ proven' \subseteq Calls
        /\ removal' \in [Calls -> Removals] /\ lost' \in 0 .. MaxLost /\ changes' = changes
    BY <1>2, <1>4 DEF Shape, CallsType, HostType, OthersType, bounds
  <2>4. QED BY <1>1, <1>2, <1>3, <1>4, <2>1, <2>2, <2>3, EndKeeps
<1>5. CASE work[c].phase # "ok" /\ Fail(c) /\ UNCHANGED audit
  <2>1. c \notin placed
    BY <1>1, <1>5 DEF CallInv, ControlInv, PlacementInv, Doubtful, At
  <2>2. QED
    BY <1>1, <1>2, <1>3, <1>5, <2>1, NoWorkIsWork, FailKeeps DEF Shape, OthersType, bounds
<1>6. QED BY <1>4, <1>5 DEF CommitAnswered

LEMMA CommitLostKeeps ==
  ASSUME Shape, NEW c \in Calls, CallInv(c), CommitLost(c)
  PROVE  Shape' /\ CallInv(c)'
<1> DEFINE q == [call[c] EXCEPT !.pc = "remove", !.unknown = TRUE]
<1>1. At(c, "commit") /\ call[c] \in Call
  BY DEF CommitLost, Shape, CallsType
<1>2. UNCHANGED <<local, session, cleanup, audit, proven, target, temp, work, placed, changes>>
  BY DEF CommitLost
<1>3. q \in Call
  BY <1>1 DEF Call, Waiting
<1>4. call' = [call EXCEPT ![c] = q]
  BY DEF CommitLost, Shape, CallsType
<1>5. call' \in [Calls -> Call] /\ call'[c] = q
  BY <1>3, <1>4, PutCall
<1>6. /\ call'[c].pc = "remove" /\ call'[c].plan = call[c].plan /\ call'[c].unknown
      /\ call'[c].sent = call[c].sent /\ call'[c].placing = call[c].placing
  BY <1>1, <1>5 DEF Call
<1>7. removal' \in [Calls -> Removals]
  BY DEF CommitLost, Shape, HostType, Removals
<1>8. lost' \in 0 .. MaxLost
  BY LimitsAssumption DEF CommitLost, Shape, OthersType
<1>9. Shape'
  BY <1>2, <1>5, <1>7, <1>8 DEF Shape, CallsType, HostType, OthersType
<1>10. ControlInv(c)'
  BY <1>1, <1>2, <1>6 DEF CallInv, ControlInv, WorkInv, At, Waiting, Preparing, Uploading
<1>11. WorkInv(c)'
  BY <1>1, <1>2, <1>6 DEF CallInv, WorkInv, At
<1>12. PlacementInv(c)'
  BY <1>1, <1>2, <1>6 DEF CallInv, PlacementInv, Committing, Running, Doubtful, At
<1>13. QED BY <1>9, <1>10, <1>11, <1>12 DEF CallInv

(* Where a call stands that ends while its placement may be on its way.    *)
LEMMA DoubtIsKnown ==
  ASSUME NEW c \in Calls, CallInv(c), call[c].pc \in Waiting
  PROVE  /\ Committing(c) \/ c \in placed => call[c].placing
         /\ At(c, "remove") /\ (Committing(c) \/ c \in placed) => call[c].unknown
  BY DEF CallInv, ControlInv, WorkInv, PlacementInv, Committing, Doubtful, At

LEMMA EndFailedKeeps ==
  ASSUME Shape, NEW c \in Calls, CallInv(c), At(c, "remove"), NEW removed \in BOOLEAN,
         EndFailed(c, removed), removal' \in [Calls -> Removals],
         UNCHANGED <<local, session, cleanup, target, temp, work, placed, changes>>,
         lost' \in 0 .. MaxLost
  PROVE  Shape' /\ CallInv(c)'
<1> DEFINE status == IF call[c].unknown THEN "unknown" ELSE "failed"
<1>1. call[c].pc \in Waiting /\ call[c] \in Call
  BY DEF At, Waiting, Shape, CallsType
<1>2. status \in Verdicts \ {"none"}
  BY DEF Verdicts
<1>3. proven' \subseteq Calls
  BY DEF EndFailed, Shape, CallsType
<1>4. Committing(c)' => status = "unknown"
  BY <1>1, DoubtIsKnown DEF Committing, Running
<1>5. c \in placed => status \in {"unknown", "uploaded"}
  BY <1>1, DoubtIsKnown
<1>6. /\ Record(c, status) /\ Goto(c, "over") /\ work' \in [Calls -> Work]
      /\ cleanup' \in [Calls -> 0 .. MaxRemovals]
  BY DEF EndFailed, Shape, CallsType, HostType
<1> HIDE DEF status
<1>7. QED BY <1>1, <1>2, <1>3, <1>4, <1>5, <1>6, EndKeeps

LEMMA RemovalAnsweredKeeps ==
  ASSUME Shape, NEW c \in Calls, CallInv(c), RemovalAnswered(c)
  PROVE  Shape' /\ CallInv(c)'
<1>1. removal' \in [Calls -> Removals] /\ (removal[c] = "gone") \in BOOLEAN
  BY DEF RemovalAnswered, Shape, HostType, Removals
<1>2. lost' \in 0 .. MaxLost /\ changes' = changes
  BY DEF RemovalAnswered, bounds, Shape, OthersType
<1>3. QED BY <1>1, <1>2, EndFailedKeeps DEF RemovalAnswered

LEMMA RemovalLostKeeps ==
  ASSUME Shape, NEW c \in Calls, CallInv(c), RemovalLost(c)
  PROVE  Shape' /\ CallInv(c)'
<1>1. removal' \in [Calls -> Removals]
  BY OrphanEffect DEF RemovalLost, Shape, HostType, Removals
<1>2. lost' \in 0 .. MaxLost
  BY LimitsAssumption DEF RemovalLost, Shape, OthersType
<1>3. QED BY <1>1, <1>2, EndFailedKeeps DEF RemovalLost

LEMMA CancelKeeps ==
  ASSUME Shape, NEW c \in Calls, CallInv(c), Cancel(c)
  PROVE  Shape' /\ CallInv(c)'
<1> DEFINE status == IF call[c].placing THEN "unknown" ELSE "cancelled"
<1>1. call[c].pc \in Waiting /\ Record(c, status) /\ Goto(c, "over")
  BY DEF Cancel
<1>2. UNCHANGED <<local, session, proven, target, temp, placed, bounds>>
  BY DEF Cancel
<1>3. status \in Verdicts \ {"none"}
  BY DEF Verdicts
<1>4. work' \in [Calls -> Work] /\ work'[c] \in {work[c], NoWork}
  BY TerminatedEffect DEF Cancel, Shape, HostType
<1>5. Committing(c)' => status = "unknown"
  BY <1>1, <1>4, NoWorkIsWork, DoubtIsKnown DEF Committing, Running
<1>6. c \in placed => status \in {"unknown", "uploaded"}
  BY <1>1, DoubtIsKnown
<1>7. /\ cleanup' \in [Calls -> 0 .. MaxRemovals] /\ removal' \in [Calls -> Removals]
      /\ proven' \subseteq Calls /\ lost' \in 0 .. MaxLost /\ changes' = changes
  BY <1>2, OrphanEffect, LimitsAssumption
  DEF Cancel, bounds, Shape, CallsType, HostType, OthersType, Removals
<1> HIDE DEF status
<1>8. QED BY <1>1, <1>2, <1>3, <1>4, <1>5, <1>6, <1>7, EndKeeps

-----------------------------------------------------------------------------
(* The cleanup, and the host processes.                                    *)

LEMMA CleanupKeeps ==
  ASSUME Shape, NEW c \in Calls, CallInv(c), CleanupTask(c)
  PROVE  Shape' /\ CallInv(c)'
<1>1. UNCHANGED <<local, session, call, audit, target, temp, work, placed, changes>>
  BY DEF CleanupTask, CleanupStarts, CleanupAnswered, CleanupLost, server, bounds
<1>2. removal' \in [Calls -> Removals]
  BY OrphanEffect
  DEF CleanupTask, CleanupStarts, CleanupAnswered, CleanupLost, Shape, HostType, Removals
<1>3. cleanup' \in [Calls -> 0 .. MaxRemovals]
  <2>1. cleanup[c] \in 0 .. MaxRemovals /\ cleanup \in [Calls -> 0 .. MaxRemovals]
    BY DEF Shape, CallsType
  <2>2. cleanup[c] > 0 => cleanup[c] - 1 \in 0 .. MaxRemovals /\ 0 \in 0 .. MaxRemovals
    BY <2>1, LimitsAssumption
  <2>3. QED
    BY <2>1, <2>2 DEF CleanupTask, CleanupStarts, CleanupAnswered, CleanupLost, server
<1>4. proven' \subseteq Calls
  BY DEF CleanupTask, CleanupStarts, CleanupAnswered, CleanupLost, server, Shape, CallsType
<1>5. lost' \in 0 .. MaxLost
  BY LimitsAssumption
  DEF CleanupTask, CleanupStarts, CleanupAnswered, CleanupLost, bounds, Shape, OthersType
<1>6. Shape'
  BY <1>1, <1>2, <1>3, <1>4, <1>5 DEF Shape, CallsType, HostType, OthersType
<1>7. CallInv(c)'
  BY <1>1, SameKeeps
<1>8. QED BY <1>6, <1>7

LEMMA RemovalStepKeeps ==
  ASSUME Shape, NEW c \in Calls, CallInv(c), RemovalStep(c)
  PROVE  Shape' /\ CallInv(c)'
<1>1. UNCHANGED <<local, session, server, target, work, placed, bounds>>
  BY DEF RemovalStep, RemovalDeletes, RemovalTests, OrphanEnds
<1>2. temp' \in [Calls -> Files \cup {Absent}] /\ temp'[c] \in {temp[c], Absent}
  <2>1. Deleted(c) \/ UNCHANGED temp
    BY DEF RemovalStep, RemovalDeletes, RemovalTests, OrphanEnds
  <2>2. QED BY <2>1, DeletedEffect DEF Shape, HostType
<1>3. removal' \in [Calls -> Removals]
  BY DEF RemovalStep, RemovalDeletes, RemovalTests, OrphanEnds, Shape, HostType, Removals
<1>4. Shape'
  BY <1>1, <1>2, <1>3 DEF Shape, CallsType, HostType, OthersType, server, bounds
<1>5. CallInv(c)'
  BY <1>1, <1>2, SameKeeps DEF server
<1>6. QED BY <1>4, <1>5

(* A host process that goes on without changing a file.                    *)
LEMMA ProcessKeeps ==
  ASSUME Shape, NEW c \in Calls, CallInv(c), work[c].kind \in {"chunk", "commit"}, Running(c),
         NEW phase \in {"open", "hash", "place", "failed"}, Process(c, phase),
         phase = "place" /\ work[c].kind = "commit" => temp[c] = call[c].plan,
         phase = "open" /\ work[c].kind = "chunk" =>
           temp[c] # Absent /\ Len(temp[c]) = work[c].offset,
         UNCHANGED <<local, session, server, target, temp, removal, placed, bounds>>
  PROVE  Shape' /\ CallInv(c)'
<1>1. /\ work' \in [Calls -> Work] /\ work'[c].phase = phase /\ work'[c].kind = work[c].kind
      /\ work'[c].offset = work[c].offset /\ work'[c].bytes = work[c].bytes
  BY ProcessEffect
<1>2. UNCHANGED <<call, audit>>
  BY DEF server
<1>3. Shape'
  BY <1>1 DEF Shape, CallsType, HostType, OthersType, server, bounds
<1>4. work[c] # NoWork
  BY NoWorkIsWork
<1>5. ControlInv(c)'
  BY <1>2, <1>4 DEF CallInv, ControlInv
<1>6. WorkInv(c)'
  BY <1>1, <1>2, <1>4 DEF CallInv, WorkInv, At
<1>7. PlacementInv(c)'
  BY <1>1, <1>2 DEF CallInv, PlacementInv, Committing, Running, Doubtful, At
<1>8. QED BY <1>3, <1>5, <1>6, <1>7 DEF CallInv

(* A process that fails belongs to a window or to a placement, or to       *)
(* nothing that the invariant speaks of.                                   *)
LEMMA ProcessFailsKeeps ==
  ASSUME Shape, NEW c \in Calls, CallInv(c), ProcessFails(c)
  PROVE  Shape' /\ CallInv(c)'
<1>1. Running(c) /\ Process(c, "failed") /\ work[c] \in Work
  BY DEF ProcessFails, Shape, HostType
<1>2. CASE work[c].kind \in {"chunk", "commit"}
  BY <1>1, <1>2, ProcessKeeps DEF ProcessFails
<1>3. CASE work[c].kind = "none"
  <2>1. /\ work' \in [Calls -> Work] /\ work'[c].kind = "none"
    BY <1>1, <1>3, ProcessEffect
  <2>2. work[c] # NoWork
    BY <1>1, NoWorkIsWork DEF Running
  <2>3. UNCHANGED <<local, session, server, target, temp, removal, placed, bounds>>
    BY DEF ProcessFails
  <2>4. Shape'
    BY <2>1, <2>3 DEF Shape, CallsType, HostType, OthersType, server, bounds
  <2>5. ControlInv(c)'
    BY <2>2, <2>3 DEF CallInv, ControlInv, server
  <2>6. WorkInv(c)'
    BY <1>3, <2>1, <2>2, <2>3 DEF CallInv, WorkInv, At, server
  <2>7. PlacementInv(c)'
    BY <1>3, <2>1, <2>3 DEF CallInv, WorkInv, PlacementInv, Committing, Doubtful, At, server
  <2>8. QED BY <2>4, <2>5, <2>6, <2>7 DEF CallInv
<1>4. QED BY <1>1, <1>2, <1>3 DEF Work

LEMMA ChunkOpensKeeps ==
  ASSUME Shape, NEW c \in Calls, CallInv(c), ChunkOpens(c)
  PROVE  Shape' /\ CallInv(c)'
<1> DEFINE first == work[c].offset = 0
           fits == IF first THEN temp[c] = Absent
                   ELSE temp[c] # Absent /\ Len(temp[c]) = work[c].offset
<1>1. /\ work[c].kind = "chunk" /\ work[c].phase = "start" /\ Running(c)
      /\ Process(c, IF fits THEN "open" ELSE "failed")
      /\ temp' = [temp EXCEPT ![c] = IF fits /\ first THEN <<>> ELSE temp[c]]
      /\ UNCHANGED <<local, session, server, target, removal, placed, bounds>>
  BY DEF ChunkOpens, Running
<1>2. temp \in [Calls -> Files \cup {Absent}]
  BY DEF Shape, HostType
<1>3. CASE ~fits
  <2>1. temp' = temp
    BY <1>1, <1>2, <1>3
  <2>2. QED BY <1>1, <1>3, <2>1, ProcessKeeps
<1>4. CASE fits /\ ~first
  <2>1. temp' = temp
    BY <1>1, <1>2, <1>4
  <2>2. QED BY <1>1, <1>4, <2>1, ProcessKeeps
<1>5. CASE fits /\ first
  <2>1. temp' \in [Calls -> Files \cup {Absent}] /\ temp'[c] = <<>>
    BY <1>1, <1>2, <1>5, EmptyIsFile
  <2>2. /\ work' \in [Calls -> Work] /\ work'[c].phase = "open" /\ work'[c].kind = "chunk"
        /\ work'[c].offset = 0 /\ work'[c].bytes = work[c].bytes
    BY <1>1, <1>5, ProcessEffect
  <2>3. Shape'
    BY <1>1, <2>1, <2>2 DEF Shape, CallsType, HostType, OthersType, server, bounds
  <2>4. work[c] # NoWork
    BY <1>1, NoWorkIsWork
  <2>5. UNCHANGED <<call, audit, placed>>
    BY <1>1 DEF server
  <2>6. ControlInv(c)'
    BY <2>4, <2>5 DEF CallInv, ControlInv
  <2>7. WorkInv(c)'
    BY <1>1, <1>5, <2>1, <2>2, <2>4, <2>5, EmptyIsFile DEF CallInv, WorkInv, At
  <2>8. PlacementInv(c)'
    BY <1>1, <2>2, <2>5 DEF CallInv, PlacementInv, Committing, Doubtful, At
  <2>9. QED BY <2>3, <2>6, <2>7, <2>8 DEF CallInv
<1>6. QED BY <1>3, <1>4, <1>5

LEMMA ChunkWritesKeeps ==
  ASSUME Shape, NEW c \in Calls, CallInv(c), ChunkWrites(c)
  PROVE  Shape' /\ CallInv(c)'
<1>1. /\ work[c].kind = "chunk" /\ work[c].phase = "open" /\ Process(c, "ok")
      /\ temp' = [temp EXCEPT ![c] = IF temp[c] = Absent THEN Absent
                                     ELSE temp[c] \o work[c].bytes]
      /\ UNCHANGED <<local, session, server, target, removal, placed, bounds>>
  BY DEF ChunkWrites
<1>2. temp \in [Calls -> Files \cup {Absent}] /\ work[c] \in Work
  BY DEF Shape, HostType
<1>3. temp' \in [Calls -> Files \cup {Absent}]
  <2>1. CASE temp[c] = Absent
    BY <1>1, <1>2, <2>1
  <2>2. CASE temp[c] # Absent
    <3>1. temp[c] \in Files /\ work[c].bytes \in Files
      BY <1>2, <2>2 DEF Work
    <3>2. Len(temp[c]) + Len(work[c].bytes) <= MaxWindows
      BY <1>1, <2>2 DEF CallInv, WorkInv
    <3>3. temp[c] \o work[c].bytes \in Files
      BY <3>1, <3>2, ConcatIsFile
    <3>4. QED BY <1>1, <1>2, <3>3
  <2>3. QED BY <2>1, <2>2
<1>4. /\ work' \in [Calls -> Work] /\ work'[c].phase = "ok" /\ work'[c].kind = "chunk"
      /\ work'[c].offset = work[c].offset /\ work'[c].bytes = work[c].bytes
  BY <1>1, ProcessEffect
<1>5. Shape'
  BY <1>1, <1>3, <1>4 DEF Shape, CallsType, HostType, OthersType, server, bounds
<1>6. UNCHANGED <<call, audit, placed>> /\ work[c] # NoWork
  BY <1>1, NoWorkIsWork DEF server
<1>7. ControlInv(c)'
  BY <1>6 DEF CallInv, ControlInv
<1>8. WorkInv(c)'
  BY <1>1, <1>4, <1>6 DEF CallInv, WorkInv, At
<1>9. PlacementInv(c)'
  BY <1>1, <1>4, <1>6 DEF CallInv, PlacementInv, Committing, Doubtful, At
<1>10. QED BY <1>5, <1>7, <1>8, <1>9 DEF CallInv

LEMMA CommitPlacesKeeps ==
  ASSUME Shape, NEW c \in Calls, CallInv(c), CommitPlaces(c)
  PROVE  Shape' /\ CallInv(c)'
<1>1. /\ work[c].kind = "commit" /\ work[c].phase = "place" /\ Committing(c)
      /\ UNCHANGED <<local, session, server, removal, bounds>>
  BY DEF CommitPlaces, Committing, Running
<1>2. CASE Process(c, "failed") /\ UNCHANGED <<target, temp, placed>>
  BY <1>1, <1>2, ProcessKeeps DEF Committing
<1>3. CASE /\ temp[c] # Absent /\ Process(c, "ok") /\ target' = temp[c]
           /\ temp' = [temp EXCEPT ![c] = Absent] /\ placed' = placed \cup {c}
  <2>1. /\ work' \in [Calls -> Work] /\ work'[c].phase = "ok" /\ work'[c].kind = "commit"
    BY <1>1, <1>3, ProcessEffect
  <2>2. temp[c] \in Files /\ temp' \in [Calls -> Files \cup {Absent}]
    BY <1>3 DEF Shape, HostType
  <2>3. Shape'
    BY <1>1, <1>3, <2>1, <2>2 DEF Shape, CallsType, HostType, OthersType, server, bounds
  <2>4. UNCHANGED <<call, audit>> /\ work[c] # NoWork
    BY <1>1, NoWorkIsWork DEF server
  <2>5. ControlInv(c)'
    BY <2>4 DEF CallInv, ControlInv
  <2>6. WorkInv(c)'
    BY <1>1, <2>1, <2>4 DEF CallInv, WorkInv, At
  <2>7. c \notin placed /\ (At(c, "commit") \/ Doubtful(c)) /\ call[c].plan \in Files
        /\ call[c].placing
    BY <1>1 DEF CallInv, WorkInv, PlacementInv
  <2>8. PlacementInv(c)'
    BY <1>3, <2>1, <2>4, <2>7 DEF PlacementInv, Committing, Running, Doubtful, At
  <2>9. QED BY <2>3, <2>5, <2>6, <2>8 DEF CallInv
<1>4. QED BY <1>2, <1>3 DEF CommitPlaces

LEMMA HostStepKeeps ==
  ASSUME Shape, NEW c \in Calls, CallInv(c), HostStep(c)
  PROVE  Shape' /\ CallInv(c)'
<1>1. CASE CommitOpens(c)
  <2> DEFINE fits == temp[c] # Absent /\ Len(temp[c]) = Len(call[c].plan)
  <2>1. /\ work[c].kind = "commit" /\ Running(c)
        /\ Process(c, IF fits THEN "hash" ELSE "failed")
        /\ UNCHANGED <<local, session, server, target, temp, removal, placed, bounds>>
    BY <1>1 DEF CommitOpens, Running
  <2>2. (IF fits THEN "hash" ELSE "failed") \in {"hash", "failed"}
    OBVIOUS
  <2> HIDE DEF fits
  <2>3. QED BY <2>1, <2>2, ProcessKeeps
<1>2. CASE CommitChecks(c)
  <2> DEFINE fits == temp[c] = call[c].plan /\ (c \in Replacing \/ target = Absent)
  <2>1. /\ work[c].kind = "commit" /\ Running(c)
        /\ Process(c, IF fits THEN "place" ELSE "failed")
        /\ UNCHANGED <<local, session, server, target, temp, removal, placed, bounds>>
    BY <1>2 DEF CommitChecks, Running
  <2>2. CASE fits
    BY <2>1, <2>2, ProcessKeeps
  <2>3. CASE ~fits
    BY <2>1, <2>3, ProcessKeeps
  <2>4. QED BY <2>2, <2>3
<1>3. QED
  BY <1>1, <1>2, ChunkOpensKeeps, ChunkWritesKeeps, CommitPlacesKeeps, ProcessFailsKeeps
  DEF HostStep

-----------------------------------------------------------------------------
(* Every step keeps the invariant of every call.                           *)

Acts(c) ==
  \/ Prepare(c) \/ Progress(c) \/ Trouble(c) \/ CleanupTask(c)
  \/ HostStep(c) \/ RemovalStep(c)

LEMMA ActsKeeps ==
  ASSUME Shape, NEW c \in Calls, CallInv(c), Acts(c)
  PROVE  Shape' /\ CallInv(c)'
  BY AskKeeps, ScanTargetKeeps, ConfirmKeeps, OpenSourceKeeps, ReadWindowKeeps,
     ChunkAnsweredKeeps, ChunkLostKeeps, CommitKeeps, CommitAnsweredKeeps, CommitLostKeeps,
     RemovalAnsweredKeeps, RemovalLostKeeps, CancelKeeps, CleanupKeeps, HostStepKeeps,
     RemovalStepKeeps
  DEF Acts, Prepare, Progress, Trouble

(* What a step of one call leaves alone: everything of the other calls.    *)
Same(d) ==
  /\ call'[d] = call[d] /\ work'[d] = work[d] /\ temp'[d] = temp[d]
  /\ removal'[d] = removal[d] /\ cleanup'[d] = cleanup[d] /\ audit'[d] = audit[d]
  /\ d \in placed' <=> d \in placed
  /\ d \in proven' <=> d \in proven

LEMMA OthersSame ==
  ASSUME Shape, NEW c \in Calls, NEW d \in Calls \ {c}, Acts(c)
  PROVE  Same(d)
<1>1. CASE Prepare(c)
  BY <1>1 DEF Prepare, Ask, ScanTarget, Confirm, Refused, Goto, host, bounds,
              Same, Shape, CallsType, HostType
<1>2. CASE OpenSource(c) \/ ReadWindow(c)
  BY <1>2 DEF OpenSource, ReadWindow, Fail, Goto, bounds, Same, Shape, CallsType, HostType
<1>3. CASE ChunkAnswered(c) \/ ChunkLost(c)
  BY <1>3 DEF ChunkAnswered, ChunkLost, Terminated, Fail, Goto, bounds,
              Same, Shape, CallsType, HostType
<1>4. CASE Commit(c)
  BY <1>4 DEF Commit, Fail, Goto, bounds, Same, Shape, CallsType, HostType
<1>5. CASE CommitAnswered(c) \/ CommitLost(c)
  BY <1>5 DEF CommitAnswered, CommitLost, Record, Fail, Goto, bounds,
              Same, Shape, CallsType, HostType
<1>6. CASE RemovalAnswered(c) \/ RemovalLost(c)
  BY <1>6 DEF RemovalAnswered, RemovalLost, EndFailed, Record, Goto, bounds,
              Same, Shape, CallsType, HostType
<1>7. CASE Cancel(c)
  BY <1>7 DEF Cancel, Terminated, Record, Goto, bounds, Same, Shape, CallsType, HostType
<1>8. CASE CleanupTask(c)
  BY <1>8 DEF CleanupTask, CleanupStarts, CleanupAnswered, CleanupLost, server, bounds,
              Same, Shape, CallsType, HostType
<1>9. CASE HostStep(c)
  BY <1>9 DEF HostStep, ChunkOpens, ChunkWrites, CommitOpens, CommitChecks, CommitPlaces,
              ProcessFails, Process, server, bounds, Same, Shape, CallsType, HostType
<1>10. CASE RemovalStep(c)
  BY <1>10 DEF RemovalStep, RemovalDeletes, RemovalTests, OrphanEnds, Deleted, server, bounds,
               Same, Shape, CallsType, HostType
<1>11. QED
  BY <1>1, <1>2, <1>3, <1>4, <1>5, <1>6, <1>7, <1>8, <1>9, <1>10
  DEF Acts, Progress, Trouble

Elsewhere == ChangeLocal \/ ForeignWrite \/ SessionChanges

LEMMA ElsewhereKeeps ==
  ASSUME Shape, Elsewhere \/ UNCHANGED vars
  PROVE  Shape' /\ \A d \in Calls : Same(d)
<1>1. UNCHANGED <<server, temp, work, removal, placed>>
  BY DEF Elsewhere, ChangeLocal, ForeignWrite, SessionChanges, vars, host
<1>2. OthersType'
  <2>1. changes < MaxChanges => changes + 1 \in 0 .. MaxChanges
    BY LimitsAssumption DEF Shape, OthersType
  <2>2. CASE ChangeLocal
    BY <2>1, <2>2 DEF ChangeLocal, host, Shape, OthersType
  <2>3. CASE ForeignWrite
    BY <2>1, <2>3 DEF ForeignWrite, Shape, OthersType
  <2>4. CASE SessionChanges
    BY <2>1, <2>4 DEF SessionChanges, host, Shape, OthersType
  <2>5. CASE UNCHANGED vars
    BY <2>5 DEF vars, host, bounds, Shape, OthersType
  <2>6. QED BY <2>2, <2>3, <2>4, <2>5 DEF Elsewhere
<1>3. Shape'
  BY <1>1, <1>2 DEF Shape, CallsType, HostType, server
<1>4. QED BY <1>1, <1>3 DEF Same, server

(* The end of the server for one of its calls.                             *)
LEMMA ShutdownKeeps ==
  ASSUME Shape, Shutdown, \A c \in Calls : CallInv(c)
  PROVE  Shape' /\ \A c \in Calls : CallInv(c)'
<1>1. UNCHANGED <<local, session, proven, target, temp, work, placed, bounds>>
  BY DEF Shutdown
<1>2. ASSUME NEW c \in Calls
      PROVE  /\ call'[c] \in Call
             /\ call'[c].pc = "over" /\ call'[c].plan = call[c].plan
             /\ call'[c].sent = call[c].sent /\ call'[c].placing = call[c].placing
             /\ call'[c].unknown = call[c].unknown
             /\ audit'[c] = IF call[c].pc \notin Waiting THEN audit[c]
                            ELSE IF call[c].placing THEN "unknown" ELSE "cancelled"
  <2>1. call[c] \in Call /\ 0 \in 0 .. MaxWindows
    BY FilesAssumption DEF Shape, CallsType
  <2>2. call'[c] = [call[c] EXCEPT !.pc = "over", !.size = 0]
    BY DEF Shutdown
  <2>3. QED BY <2>1, <2>2 DEF Shutdown, Call
<1>3. call' \in [Calls -> Call] /\ audit' \in [Calls -> Verdicts]
  <2>1. call' = [c \in Calls |-> call'[c]] /\ audit' = [c \in Calls |-> audit'[c]]
    BY DEF Shutdown
  <2>2. QED BY <1>2, <2>1 DEF Shape, CallsType, Verdicts
<1>4. /\ cleanup' \in [Calls -> 0 .. MaxRemovals] /\ removal' \in [Calls -> Removals]
  <2>1. 0 \in 0 .. MaxRemovals
    BY LimitsAssumption
  <2>2. \A c \in Calls : Orphan(c) \in Removals
    BY OrphanEffect DEF Removals
  <2>3. QED BY <2>1, <2>2 DEF Shutdown
<1>5. Shape'
  BY <1>1, <1>3, <1>4 DEF Shape, CallsType, HostType, OthersType, bounds
<1>6. ASSUME NEW c \in Calls PROVE CallInv(c)'
  <2>1. CallInv(c) /\ work'[c] = work[c] /\ temp'[c] = temp[c] /\ placed' = placed
    BY <1>1
  <2>2. ControlInv(c)'
    BY <1>2, <2>1 DEF CallInv, ControlInv, Waiting, Preparing, Uploading
  <2>3. WorkInv(c)'
    BY <1>2, <2>1 DEF CallInv, WorkInv, At
  <2>4. CASE call[c].pc \in Waiting
    <3>1. Committing(c) \/ c \in placed => call[c].placing
      BY <2>1, <2>4, DoubtIsKnown
    <3>2. QED
      BY <1>2, <2>1, <2>2, <2>3, <2>4, <3>1
      DEF CallInv, PlacementInv, Committing, Running, Doubtful
  <2>5. CASE call[c].pc \notin Waiting
    <3>1. ~At(c, "remove") /\ ~At(c, "commit")
      BY <2>5 DEF At, Waiting
    <3>2. QED
      BY <1>2, <2>1, <2>2, <2>3, <2>5, <3>1
      DEF CallInv, PlacementInv, Committing, Running, Doubtful
  <2>6. QED BY <2>4, <2>5
<1>7. QED BY <1>5, <1>6

LEMMA UploadInitially == Init => UploadInv
<1> SUFFICES ASSUME Init PROVE UploadInv
  OBVIOUS
<1>1. 0 \in 0 .. MaxWindows /\ 0 \in 0 .. MaxRemovals /\ 0 \in 0 .. MaxLost /\ 0 \in 0 .. MaxChanges
  BY FilesAssumption, LimitsAssumption
<1>2. Idle \in Call
  BY <1>1, EmptyIsFile DEF Idle, Call
<1>3. Shape
  BY <1>1, <1>2, NoWorkIsWork
  DEF Init, Shape, CallsType, HostType, OthersType, Verdicts, Removals
<1>4. ASSUME NEW c \in Calls PROVE CallInv(c)
  BY NoWorkIsWork DEF Init, Idle, CallInv, ControlInv, WorkInv, PlacementInv, Committing, At,
                      Waiting, Uploading
<1>5. QED BY <1>3, <1>4 DEF UploadInv

LEMMA UploadStep == UploadInv /\ [Next]_vars => UploadInv'
<1> SUFFICES ASSUME UploadInv, [Next]_vars PROVE UploadInv'
  OBVIOUS
<1>1. Shape /\ \A c \in Calls : CallInv(c)
  BY DEF UploadInv
<1>2. ASSUME NEW c \in Calls, Acts(c) PROVE UploadInv'
  <2>1. Shape'
    BY <1>1, <1>2, ActsKeeps
  <2>2. ASSUME NEW d \in Calls PROVE CallInv(d)'
    <3>1. CASE d = c
      BY <1>1, <1>2, <3>1, ActsKeeps
    <3>2. CASE d # c
      BY <1>1, <1>2, <3>2, OthersSame, SameKeeps DEF Same
    <3>3. QED BY <3>1, <3>2
  <2>3. QED BY <2>1, <2>2 DEF UploadInv
<1>3. CASE Elsewhere \/ UNCHANGED vars
  BY <1>1, <1>3, ElsewhereKeeps, SameKeeps DEF UploadInv, Same
<1>4. CASE Shutdown
  BY <1>1, <1>4, ShutdownKeeps DEF UploadInv
<1>5. QED BY <1>2, <1>3, <1>4 DEF Next, Acts, Elsewhere

LEMMA UploadInvariant == Spec => []UploadInv
  BY UploadInitially, UploadStep, PTL DEF Spec

(* Types, for every file size: what is sent fits the confirmed size, and   *)
(* what the host appends to a temp file never makes it longer than a file  *)
(* of the bound (the length that the host command expects is the offset).  *)
THEOREM UploadTypeCorrect == Spec => []TypeOK
<1>1. UploadInv => TypeOK
  BY DEF UploadInv, Shape, CallsType, HostType, OthersType, CallInv, ControlInv, Removals,
         Verdicts, TypeOK
<1>2. QED BY <1>1, UploadInvariant, PTL

-----------------------------------------------------------------------------
(* The upload implements FilePlacement.                                    *)

Told == {"open", "placed", "untouched", "unknown"}

LEMMA VerdictOf ==
  ASSUME Shape, NEW c \in Calls
  PROVE  /\ Verdict(c) \in Told
         /\ Verdict(c) = "open" <=> audit[c] = "none"
         /\ Verdict(c) = "placed" <=> audit[c] = "uploaded"
         /\ Verdict(c) = "untouched" <=> audit[c] \in {"failed", "cancelled"}
         /\ Verdict(c) = "unknown" <=> audit[c] = "unknown"
<1>1. audit[c] \in Verdicts
  BY DEF Shape, CallsType
<1>2. QED BY <1>1 DEF Verdicts, Verdict, Told

LEMMA PlacementInitially == Init => Placement!Init
<1> SUFFICES ASSUME Init PROVE Placement!Init
  OBVIOUS
<1>1. \A c \in Calls : call[c].plan = Absent /\ Verdict(c) = "open"
  BY DEF Init, Idle, Verdict
<1>2. QED BY <1>1 DEF Init, Placement!Init

(* The record of a call does not change, or it is a true report.           *)
TrueRecord(c) ==
  /\ audit[c] # "none" => audit'[c] = audit[c]
  /\ audit[c] = "none" /\ audit'[c] = "uploaded" => c \in placed
  /\ audit[c] = "none" /\ audit'[c] \in {"failed", "cancelled"} => c \notin placed

LEMMA ReportStep ==
  ASSUME Shape, Shape', \A c \in Calls : TrueRecord(c) /\ call'[c].plan = call[c].plan,
         target' = target, placed' = placed
  PROVE  Placement!Next
<1> DEFINE told == [c \in Calls |-> Verdict(c)']
<1>1. \A c \in Calls : Verdict(c)' \in Told
  BY VerdictOf DEF Shape, CallsType, Verdict, Verdicts, Told
<1>2. told \in [Calls -> Told]
  BY <1>1
<1>3. ASSUME NEW c \in Calls
      PROVE  /\ Verdict(c) # "open" => told[c] = Verdict(c)
             /\ Verdict(c) = "open" /\ told[c] = "placed" => c \in placed
             /\ Verdict(c) = "open" /\ told[c] = "untouched" => c \notin placed
  <2>1. audit[c] \in Verdicts /\ audit'[c] \in Verdicts
    BY DEF Shape, CallsType
  <2>2. QED BY <2>1 DEF TrueRecord, Verdict, Verdicts
<1>4. [c \in Calls |-> call[c].plan]' = [c \in Calls |-> call[c].plan]
  OBVIOUS
<1>5. [c \in Calls |-> Verdict(c)]' = told
  OBVIOUS
<1>6. Placement!Report
  BY <1>2, <1>3, <1>4, <1>5 DEF Placement!Report, Told
<1>7. QED BY <1>6 DEF Placement!Next

LEMMA PlaceStep ==
  ASSUME UploadInv, NEW c \in Calls, Committing(c), work[c].phase = "place",
         temp[c] # Absent, c \in Replacing \/ target = Absent,
         target' = temp[c], placed' = placed \cup {c}, call' = call, audit' = audit
  PROVE  Placement!Next
<1>1. Shape /\ CallInv(c)
  BY DEF UploadInv
<1>2. /\ c \notin placed /\ temp[c] = call[c].plan
      /\ At(c, "commit") \/ Doubtful(c)
  BY <1>1 DEF CallInv, PlacementInv
<1>3. audit[c] = "none" \/ audit[c] = "unknown"
  BY <1>1, <1>2 DEF CallInv, ControlInv, Doubtful, At, Waiting
<1>4. Verdict(c) \in {"open", "unknown"}
  BY <1>1, <1>3, VerdictOf
<1>5. [d \in Calls |-> Verdict(d)]' = [d \in Calls |-> Verdict(d)]
  BY DEF Verdict
<1>6. [d \in Calls |-> call[d].plan]' = [d \in Calls |-> call[d].plan]
  OBVIOUS
<1>7. Placement!Place(c)
  BY <1>2, <1>4, <1>5, <1>6 DEF Placement!Place
<1>8. QED BY <1>7 DEF Placement!Next

LEMMA Promised ==
  ASSUME NEW c \in Calls, NEW content, call'[c].plan = content,
         \A d \in Calls : d # c => call'[d] = call[d]
  PROVE  [d \in Calls |-> call[d].plan]'
           = [[d \in Calls |-> call[d].plan] EXCEPT ![c] = content]
  OBVIOUS

(* The user agrees: the content that was hashed is promised.               *)
LEMMA PromiseStep ==
  ASSUME UploadInv, NEW c \in Calls, At(c, "hash"),
         call' = [call EXCEPT ![c].pc = "open", ![c].size = 0, ![c].plan = local],
         UNCHANGED <<target, placed, audit>>
  PROVE  Placement!Next
<1>1. Shape /\ CallInv(c) /\ call[c] \in Call /\ local \in Files
  BY DEF UploadInv, Shape, CallsType, OthersType
<1>2. call[c].plan = Absent /\ audit[c] = "none"
  BY <1>1 DEF CallInv, ControlInv, At, Preparing
<1>3. Verdict(c) = "open"
  BY <1>1, <1>2, VerdictOf
<1>4. /\ call'[c].plan = local
      /\ \A d \in Calls : d # c => call'[d] = call[d]
  BY <1>1 DEF Shape, CallsType, Call
<1>5. [d \in Calls |-> call[d].plan]'
        = [[d \in Calls |-> call[d].plan] EXCEPT ![c] = local]
  BY <1>4, Promised
<1>6. [d \in Calls |-> Verdict(d)]' = [d \in Calls |-> Verdict(d)]
  BY DEF Verdict
<1>7. Placement!Promise(c)
  BY <1>1, <1>2, <1>3, <1>5, <1>6 DEF Placement!Promise
<1>8. QED BY <1>7 DEF Placement!Next

(* A step of one call that neither confirms nor places.                    *)
LEMMA QuietStep ==
  ASSUME UploadInv, UploadInv', NEW c \in Calls, Acts(c), TrueRecord(c),
         call'[c].plan = call[c].plan, target' = target, placed' = placed
  PROVE  Placement!Next
<1>1. ASSUME NEW d \in Calls PROVE TrueRecord(d) /\ call'[d].plan = call[d].plan
  <2>1. CASE d = c
    BY <2>1
  <2>2. CASE d # c
    BY <2>2, OthersSame DEF UploadInv, Same, TrueRecord
  <2>3. QED BY <2>1, <2>2
<1>2. QED BY <1>1, ReportStep DEF UploadInv

LEMMA PrepareMaps ==
  ASSUME UploadInv, UploadInv', NEW c \in Calls, Prepare(c)
  PROVE  Placement!Next
<1>1. Shape /\ CallInv(c)
  BY DEF UploadInv
<1>2. call[c].pc \in Preparing \cup {"idle"} /\ UNCHANGED <<audit, target, placed>>
  BY DEF Prepare, Ask, ScanTarget, Confirm, At, Preparing, host
<1>3. CASE At(c, "hash") /\ call' = [call EXCEPT ![c].pc = "open", ![c].size = 0, ![c].plan = local]
  BY <1>2, <1>3, PromiseStep
<1>4. CASE \/ Refused(c) \/ Goto(c, "hash")
           \/ call' = [call EXCEPT ![c].pc = "scan", ![c].size = Len(local)]
  <2>1. call[c] \in Call
    BY <1>1 DEF Shape, CallsType
  <2>2. call[c].plan = Absent
    BY <1>1, <1>2 DEF CallInv, ControlInv
  <2>3. call'[c].plan = call[c].plan
    BY <1>1, <1>4, <2>1, <2>2 DEF Refused, Idle, Goto, Shape, CallsType, Call
  <2>4. QED BY <1>2, <2>3, QuietStep DEF Acts, TrueRecord
<1>5. QED BY <1>3, <1>4 DEF Prepare, Ask, ScanTarget, Confirm

(* The plan of a call stays once it is made.                               *)
LEMMA PlanStays ==
  ASSUME Shape, NEW c \in Calls, Progress(c) \/ Trouble(c) \/ CleanupTask(c)
  PROVE  call'[c].plan = call[c].plan
<1>1. call[c] \in Call /\ call \in [Calls -> Call]
  BY DEF Shape, CallsType
<1>2. ASSUME NEW pc, Goto(c, pc) PROVE call'[c].plan = call[c].plan
  BY <1>1, <1>2 DEF Goto, Call
<1>3. CASE Progress(c)
  BY <1>1, <1>2, <1>3 DEF Progress, OpenSource, ReadWindow, ChunkAnswered, Commit, CommitAnswered,
                     RemovalAnswered, EndFailed, Fail, Call
<1>4. CASE Trouble(c)
  BY <1>1, <1>2, <1>4 DEF Trouble, ChunkLost, CommitLost, RemovalLost, Cancel, EndFailed, Fail, Call
<1>5. CASE CleanupTask(c)
  BY <1>5 DEF CleanupTask, CleanupStarts, CleanupAnswered, CleanupLost, server
<1>6. QED BY <1>3, <1>4, <1>5

LEMMA ServerMaps ==
  ASSUME UploadInv, UploadInv', NEW c \in Calls, Progress(c) \/ Trouble(c) \/ CleanupTask(c)
  PROVE  Placement!Next
<1>1. Shape /\ CallInv(c) /\ audit \in [Calls -> Verdicts]
  BY DEF UploadInv, Shape, CallsType
<1>2. target' = target /\ placed' = placed
  BY DEF Progress, OpenSource, ReadWindow, ChunkAnswered, Commit, CommitAnswered,
         RemovalAnswered, Trouble, ChunkLost, CommitLost, RemovalLost, Cancel,
         CleanupTask, CleanupStarts, CleanupAnswered, CleanupLost
<1>3. CASE audit' = audit
  BY <1>2, <1>3, PlanStays, QuietStep DEF UploadInv, Acts, TrueRecord
<1>4. CASE CommitAnswered(c) /\ Record(c, "uploaded")
  <2>1. audit[c] = "none" /\ audit'[c] = "uploaded"
    BY <1>1, <1>4 DEF CommitAnswered, At, Waiting, CallInv, ControlInv, Record
  <2>2. At(c, "commit") /\ work[c].phase = "ok"
    BY <1>4, <2>1 DEF CommitAnswered
  <2>3. c \in placed
    BY <1>1, <2>2 DEF At, CallInv, WorkInv, ControlInv, PlacementInv
  <2>4. QED BY <1>2, <1>4, <2>1, <2>3, PlanStays, QuietStep
            DEF UploadInv, Acts, TrueRecord, Progress
<1>5. CASE RemovalAnswered(c) \/ RemovalLost(c)
  <2>1. At(c, "remove") /\ call[c].pc \in Waiting /\ audit[c] = "none"
    BY <1>1, <1>5 DEF RemovalAnswered, RemovalLost, At, Waiting, CallInv, ControlInv
  <2>2. audit'[c] = IF call[c].unknown THEN "unknown" ELSE "failed"
    BY <1>1, <1>5 DEF RemovalAnswered, RemovalLost, EndFailed, Record
  <2>3. TrueRecord(c)
    BY <1>1, <2>1, <2>2, DoubtIsKnown DEF TrueRecord
  <2>4. QED BY <1>2, <1>5, <2>3, PlanStays, QuietStep DEF UploadInv, Acts, Progress, Trouble
<1>6. CASE Cancel(c)
  <2>1. call[c].pc \in Waiting /\ audit[c] = "none"
    BY <1>1, <1>6 DEF Cancel, CallInv, ControlInv
  <2>2. audit'[c] = IF call[c].placing THEN "unknown" ELSE "cancelled"
    BY <1>1, <1>6 DEF Cancel, Record
  <2>3. TrueRecord(c)
    BY <1>1, <2>1, <2>2, DoubtIsKnown DEF TrueRecord
  <2>4. QED BY <1>2, <1>6, <2>3, PlanStays, QuietStep DEF UploadInv, Acts, Trouble
<1>7. QED
  BY <1>3, <1>4, <1>5, <1>6
  DEF Progress, OpenSource, ReadWindow, ChunkAnswered, Commit, CommitAnswered,
      Trouble, ChunkLost, CommitLost, CleanupTask, CleanupStarts, CleanupAnswered,
      CleanupLost, server

LEMMA HostMaps ==
  ASSUME UploadInv, UploadInv', NEW c \in Calls, HostStep(c) \/ RemovalStep(c)
  PROVE  Placement!Next
<1>1. CASE UNCHANGED <<server, target, placed>>
  BY <1>1, QuietStep DEF server, Acts, TrueRecord
<1>2. CASE CommitPlaces(c) /\ ~(UNCHANGED <<target, temp, placed>>)
  BY <1>2, PlaceStep DEF CommitPlaces, Committing, Running, server
<1>3. QED
  BY <1>1, <1>2 DEF HostStep, ChunkOpens, ChunkWrites, CommitOpens, CommitChecks, CommitPlaces,
     ProcessFails, RemovalStep, RemovalDeletes, RemovalTests, OrphanEnds

LEMMA OthersMap ==
  ASSUME UploadInv, UploadInv', Elsewhere \/ Shutdown \/ UNCHANGED vars
  PROVE  Placement!Next
<1>1. CASE UNCHANGED <<server, target, placed>>
  BY <1>1, ReportStep DEF server, TrueRecord, UploadInv
<1>2. CASE ForeignWrite
  <2>1. target' \in {Absent, Foreign} /\ UNCHANGED <<server, placed>>
    BY <1>2 DEF ForeignWrite
  <2>2. [d \in Calls |-> Verdict(d)]' = [d \in Calls |-> Verdict(d)]
    BY <2>1 DEF server, Verdict
  <2>3. [d \in Calls |-> call[d].plan]' = [d \in Calls |-> call[d].plan]
    BY <2>1 DEF server
  <2>4. Placement!Elsewhere
    BY <2>1, <2>2, <2>3 DEF Placement!Elsewhere
  <2>5. QED BY <2>4 DEF Placement!Next
<1>3. CASE Shutdown
  <2>1. target' = target /\ placed' = placed
    BY <1>3 DEF Shutdown
  <2>2. ASSUME NEW d \in Calls PROVE TrueRecord(d) /\ call'[d].plan = call[d].plan
    <3>1. /\ CallInv(d) /\ call[d] \in Call /\ audit[d] \in Verdicts
          /\ audit'[d] = IF call[d].pc \notin Waiting THEN audit[d]
                         ELSE IF call[d].placing THEN "unknown" ELSE "cancelled"
          /\ call'[d] = [call[d] EXCEPT !.pc = "over", !.size = 0]
      BY <1>3 DEF Shutdown, UploadInv, Shape, CallsType
    <3>2. call[d].pc \in Waiting => audit[d] = "none"
      BY <3>1 DEF CallInv, ControlInv
    <3>3. TrueRecord(d)
      BY <3>1, <3>2, DoubtIsKnown DEF TrueRecord
    <3>4. call'[d].plan = call[d].plan
      BY <3>1 DEF Call
    <3>5. QED BY <3>3, <3>4
  <2>3. QED BY <2>1, <2>2, ReportStep DEF UploadInv
<1>4. QED
  BY <1>1, <1>2, <1>3 DEF Elsewhere, ChangeLocal, SessionChanges, host, vars

LEMMA PlacementStep == UploadInv /\ UploadInv' /\ [Next]_vars => Placement!Next
<1> SUFFICES ASSUME UploadInv, UploadInv', [Next]_vars PROVE Placement!Next
  OBVIOUS
<1>1. ASSUME NEW c \in Calls, Acts(c) PROVE Placement!Next
  BY <1>1, PrepareMaps, ServerMaps, HostMaps DEF Acts
<1>2. QED BY <1>1, OthersMap DEF Next, Acts, Elsewhere

(* TR-XFER-04: upload_file keeps every promise of FilePlacement, for any   *)
(* number of calls, windows, lost answers, cancellations and shutdowns:    *)
(* one change of the target at most, to exactly the content that the user  *)
(* confirmed, and an audit record that never denies it, also when the host *)
(* places the file after its call is over.                                 *)
THEOREM UploadsAreWhole == Spec => PlacementSpec
<1>1. UploadInv /\ UploadInv' /\ [Next]_vars => [Placement!Next]_(Placement!vars)
  BY PlacementStep
<1>2. QED BY <1>1, PlacementInitially, UploadInvariant, PTL
          DEF Spec, PlacementSpec, Placement!Spec

-----------------------------------------------------------------------------
(* The proof that a temp file is gone.                                     *)

(* Gone, but for a first window that comes after the removal.              *)
Settled(c) == temp[c] = Absent \/ Revived(c)

CleanInv(c) ==
  /\ work[c].kind = "commit" /\ work[c].phase = "ok" => temp[c] = Absent
  /\ removal[c] # "none" => call[c].pc \in {"remove", "over"}
  /\ removal[c] = "gone" => Settled(c)
  /\ c \in proven => At(c, "over") /\ Settled(c)
  /\ audit[c] = "uploaded" => At(c, "over") /\ temp[c] = Absent /\ work[c].kind # "chunk"

CleanupInv == \A c \in Calls : CleanInv(c)

LEMMA CleanPrepare ==
  ASSUME Shape, NEW c \in Calls, CallInv(c), CleanInv(c), Prepare(c)
  PROVE  CleanInv(c)'
<1>1. call[c].pc \in Preparing \cup {"idle"} /\ UNCHANGED <<cleanup, audit, proven, host>>
  BY DEF Prepare, Ask, ScanTarget, Confirm, At, Preparing
<1>2. work[c] = NoWork /\ audit[c] = "none" /\ removal[c] = "none" /\ c \notin proven
  BY <1>1 DEF CallInv, ControlInv, CleanInv, At, Preparing
<1>3. UNCHANGED <<work, removal, temp>>
  BY <1>1 DEF host
<1>4. QED BY <1>1, <1>2, <1>3, NoWorkIsWork DEF CleanInv

LEMMA CleanWindows ==
  ASSUME Shape, NEW c \in Calls, CallInv(c), CleanInv(c),
         OpenSource(c) \/ ReadWindow(c) \/ ChunkAnswered(c) \/ ChunkLost(c) \/ Commit(c)
  PROVE  CleanInv(c)'
<1>1. call[c].pc \in Uploading /\ UNCHANGED <<cleanup, audit, proven, temp>>
  BY DEF OpenSource, ReadWindow, ChunkAnswered, ChunkLost, Commit, At, Uploading
<1>2. audit[c] = "none" /\ removal[c] = "none" /\ c \notin proven
  BY <1>1, UploadingIsBefore DEF CleanInv, At, Uploading
<1>3. /\ call'[c].pc \in {"read", "chunk", "eof", "commit", "remove"}
      /\ removal'[c] \in {"none", "delete", "error"}
      /\ removal'[c] # "none" => call'[c].pc = "remove"
  <2>1. call \in [Calls -> Call] /\ removal \in [Calls -> Removals]
    BY DEF Shape, CallsType, HostType
  <2>2. QED BY <1>2, <2>1 DEF OpenSource, ReadWindow, ChunkAnswered, ChunkLost, Commit, Fail, Goto, Call
<1>4. ~(work'[c].kind = "commit" /\ work'[c].phase = "ok")
  <2>1. work \in [Calls -> Work] /\ work[c].kind # "commit"
    BY <1>1, UploadingIsBefore DEF Shape, HostType
  <2>2. QED BY <2>1, NoWorkIsWork, TerminatedEffect
            DEF OpenSource, ReadWindow, ChunkAnswered, ChunkLost, Commit
<1>5. QED BY <1>1, <1>2, <1>3, <1>4 DEF CleanInv

LEMMA CleanEnds ==
  ASSUME Shape, NEW c \in Calls, CallInv(c), CleanInv(c),
         CommitAnswered(c) \/ CommitLost(c) \/ RemovalAnswered(c) \/ RemovalLost(c) \/ Cancel(c)
  PROVE  CleanInv(c)'
<1>1. /\ call \in [Calls -> Call] /\ work \in [Calls -> Work] /\ removal \in [Calls -> Removals]
      /\ audit \in [Calls -> Verdicts] /\ cleanup \in [Calls -> 0 .. MaxRemovals]
      /\ temp' = temp
  BY DEF Shape, CallsType, HostType, CommitAnswered, CommitLost, RemovalAnswered, RemovalLost, Cancel
<1>2. call[c].pc \in Waiting /\ audit[c] = "none" /\ c \notin proven
  BY DEF CommitAnswered, CommitLost, RemovalAnswered, RemovalLost, Cancel, At, Waiting,
         CallInv, ControlInv, CleanInv
<1>3. CASE CommitAnswered(c)
  <2>1. /\ At(c, "commit") /\ work'[c] = NoWork /\ proven' = proven /\ removal[c] = "none"
        /\ work[c].kind = "commit"
    BY <1>1, <1>3 DEF CommitAnswered, CleanInv, At, CallInv, WorkInv
  <2>2. \/ /\ audit'[c] = "uploaded" /\ work[c].phase = "ok" /\ call'[c].pc = "over"
           /\ removal'[c] = "none"
        \/ /\ audit'[c] = "none" /\ call'[c].pc = "remove" /\ removal'[c] \in {"delete", "error"}
    BY <1>1, <1>2, <1>3, <2>1 DEF CommitAnswered, Record, Goto, Fail, Call
  <2>3. QED BY <1>1, <1>2, <2>1, <2>2, NoWorkIsWork DEF CleanInv, At
<1>4. CASE CommitLost(c)
  <2>1. /\ call'[c].pc = "remove" /\ removal'[c] \in {"delete", "error"}
        /\ UNCHANGED <<work, audit, proven>>
    BY <1>1, <1>4 DEF CommitLost, Call
  <2>2. QED BY <1>1, <1>2, <2>1 DEF CleanInv
<1>5. CASE RemovalAnswered(c) \/ RemovalLost(c)
  <2>1. /\ At(c, "remove") /\ call'[c].pc = "over" /\ work' = work
        /\ removal'[c] \in {"none", "orphan"} /\ audit'[c] # "uploaded"
        /\ c \in proven' => removal[c] = "gone"
    BY <1>1, <1>2, <1>5
    DEF RemovalAnswered, RemovalLost, EndFailed, Record, Goto, Orphan, Call
  <2>2. removal[c] = "gone" => Settled(c)'
    BY <1>1, <2>1 DEF CleanInv, Settled, Revived, Left, At
  <2>3. QED BY <1>1, <1>2, <2>1, <2>2 DEF CleanInv, At
<1>6. CASE Cancel(c)
  <2>1. /\ call'[c].pc = "over" /\ removal'[c] \in {"none", "orphan"} /\ audit'[c] # "uploaded"
        /\ proven' = proven
    BY <1>1, <1>2, <1>6 DEF Cancel, Record, Goto, Orphan, Call
  <2>2. work'[c] \in {work[c], NoWork}
    BY <1>6, TerminatedEffect DEF Cancel
  <2>3. QED BY <1>1, <1>2, <2>1, <2>2, NoWorkIsWork DEF CleanInv
<1>7. QED BY <1>3, <1>4, <1>5, <1>6

LEMMA CleanTask ==
  ASSUME Shape, NEW c \in Calls, CleanInv(c), CleanupTask(c)
  PROVE  CleanInv(c)'
<1>1. /\ removal \in [Calls -> Removals] /\ cleanup \in [Calls -> 0 .. MaxRemovals]
      /\ UNCHANGED <<call, audit, temp, work>> /\ At(c, "over")
  BY DEF Shape, CallsType, HostType, CleanupTask, CleanupStarts, CleanupAnswered, CleanupLost, server
<1>2. /\ c \in proven' => c \in proven \/ removal[c] = "gone"
      /\ removal'[c] \in {"none", "orphan", "delete", "error"}
  BY <1>1 DEF CleanupTask, CleanupStarts, CleanupAnswered, CleanupLost, Orphan, server
<1>3. QED BY <1>1, <1>2 DEF CleanInv, Settled, Revived, Left, At

(* A window whose call left it creates the file again, or finds none.      *)
LEMMA CleanChunk ==
  ASSUME Shape, NEW c \in Calls, CallInv(c), Left(c), Settled(c), ChunkOpens(c) \/ ChunkWrites(c)
  PROVE  Settled(c)'
<1>1. work[c].kind = "chunk" /\ UNCHANGED call /\ work[c] \in Work /\ temp[c] \in Files \cup {Absent}
  BY DEF ChunkOpens, ChunkWrites, server, Shape, HostType
<1>2. work'[c].kind = "chunk" /\ work'[c].offset = work[c].offset /\ work'[c].bytes = work[c].bytes
  BY <1>1, ProcessEffect DEF ChunkOpens, ChunkWrites
<1>3. Left(c)'
  BY <1>1, <1>2 DEF Left, At
<1>4. CASE ChunkOpens(c)
  <2>1. temp'[c] = temp[c] \/ (work[c].offset = 0 /\ temp'[c] = <<>>)
    BY <1>4 DEF ChunkOpens, Shape, HostType
  <2>2. QED BY <1>2, <1>3, <2>1 DEF Settled, Revived
<1>5. CASE ChunkWrites(c)
  <2>1. temp'[c] = IF temp[c] = Absent THEN Absent ELSE temp[c] \o work[c].bytes
    BY <1>5 DEF ChunkWrites, Shape, HostType
  <2>2. CASE temp[c] = Absent
    BY <2>1, <2>2 DEF Settled
  <2>3. CASE temp[c] # Absent
    <3>1. work[c].offset = 0 /\ temp[c] \in Files
      BY <1>1, <2>3 DEF Settled, Revived
    <3>2. Len(temp[c]) = 0
      BY <1>5, <2>3, <3>1 DEF ChunkWrites, CallInv, WorkInv
    <3>3. temp[c] \in Seq(Windows) /\ work[c].bytes \in Seq(Windows)
      BY <1>1, <3>1, FilesAreSequences DEF Work
    <3>4. temp[c] = <<>>
      BY <3>2, <3>3
    <3>a. temp'[c] = <<>> \o work[c].bytes
      BY <2>1, <2>3, <3>4
    <3>6. temp'[c] = work[c].bytes
      BY <3>3, <3>a
    <3>5. QED BY <1>2, <1>3, <3>1, <3>6 DEF Settled, Revived
  <2>4. QED BY <2>2, <2>3
<1>6. QED BY <1>4, <1>5

LEMMA CleanHost ==
  ASSUME Shape, NEW c \in Calls, CallInv(c), CleanInv(c), HostStep(c)
  PROVE  CleanInv(c)'
<1>1. /\ work \in [Calls -> Work] /\ temp \in [Calls -> Files \cup {Absent}]
      /\ UNCHANGED <<call, audit, cleanup, proven, removal>>
  BY DEF Shape, HostType, HostStep, ChunkOpens, ChunkWrites, CommitOpens, CommitChecks,
         CommitPlaces, ProcessFails, server
<1>2. ASSUME NEW phase \in {"none", "start", "open", "hash", "place", "ok", "failed"},
             Process(c, phase)
      PROVE  /\ work'[c].kind = work[c].kind /\ work'[c].phase = phase
             /\ work'[c].offset = work[c].offset /\ work'[c].bytes = work[c].bytes
  BY <1>2, ProcessEffect
<1>3. CASE ChunkOpens(c) \/ ChunkWrites(c)
  <2>1. work[c].kind = "chunk" /\ work'[c].kind = "chunk"
    BY <1>2, <1>3 DEF ChunkOpens, ChunkWrites
  <2>2. removal[c] = "gone" \/ c \in proven => Left(c) /\ Settled(c)
    BY <2>1 DEF CleanInv, Left, At
  <2>3. removal[c] = "gone" \/ c \in proven => Settled(c)'
    BY <1>3, <2>2, CleanChunk
  <2>4. QED BY <1>1, <2>1, <2>3 DEF CleanInv, At
<1>4. CASE CommitOpens(c) \/ CommitChecks(c)
  <2>1. work[c].kind = "commit" /\ temp' = temp
    BY <1>4 DEF CommitOpens, CommitChecks
  <2>2. work'[c].kind = "commit" /\ work'[c].phase # "ok"
    BY <1>2, <1>4, <2>1 DEF CommitOpens, CommitChecks
  <2>3. QED BY <1>1, <2>1, <2>2 DEF CleanInv, Settled, Revived, Left, At
<1>5. CASE CommitPlaces(c)
  <2>1. /\ work[c].kind = "commit"
        /\ \/ Process(c, "failed") /\ temp' = temp
           \/ Process(c, "ok") /\ temp'[c] = Absent
    BY <1>1, <1>5 DEF CommitPlaces
  <2>2. /\ work'[c].kind = "commit"
        /\ \/ work'[c].phase = "failed" /\ temp' = temp
           \/ temp'[c] = Absent
    BY <1>2, <2>1
  <2>3. QED BY <1>1, <2>1, <2>2 DEF CleanInv, Settled, Revived, Left, At
<1>6. CASE ProcessFails(c)
  <2>1. /\ work'[c].kind = work[c].kind /\ work'[c].phase = "failed" /\ temp' = temp
        /\ work'[c].offset = work[c].offset /\ work'[c].bytes = work[c].bytes
    BY <1>2, <1>6 DEF ProcessFails
  <2>2. QED BY <1>1, <2>1 DEF CleanInv, Settled, Revived, Left, At
<1>7. QED BY <1>3, <1>4, <1>5, <1>6 DEF HostStep

LEMMA CleanRemoval ==
  ASSUME Shape, NEW c \in Calls, CleanInv(c), RemovalStep(c)
  PROVE  CleanInv(c)'
<1>1. /\ removal \in [Calls -> Removals] /\ UNCHANGED <<call, audit, cleanup, proven, work>>
  BY DEF Shape, HostType, RemovalStep, RemovalDeletes, RemovalTests, OrphanEnds, server
<1>2. temp'[c] \in {temp[c], Absent}
  BY DeletedEffect DEF RemovalStep, RemovalDeletes, RemovalTests, OrphanEnds
<1>3. \/ /\ removal[c] = "delete" /\ removal'[c] = "test"
      \/ /\ removal[c] = "test" /\ removal'[c] \in {"gone", "remains"} /\ temp' = temp
         /\ removal'[c] = "gone" => temp[c] = Absent
      \/ /\ removal[c] = "orphan" /\ removal'[c] = "none"
  BY <1>1 DEF RemovalStep, RemovalDeletes, RemovalTests, OrphanEnds
<1>4. QED BY <1>1, <1>2, <1>3 DEF CleanInv, Settled, Revived, Left, At

LEMMA CleanSame ==
  ASSUME NEW d \in Calls, CleanInv(d), Same(d)
  PROVE  CleanInv(d)'
  BY DEF CleanInv, Settled, Revived, Left, At, Same

LEMMA CleanShutdown ==
  ASSUME Shape, NEW c \in Calls, CallInv(c), CleanInv(c), Shutdown
  PROVE  CleanInv(c)'
<1>1. /\ call[c] \in Call /\ UNCHANGED <<proven, temp, work>>
      /\ call'[c].pc = "over" /\ removal'[c] \in {"none", "orphan"}
      /\ call[c].pc \notin Waiting => audit'[c] = audit[c]
      /\ call[c].pc \in Waiting => audit'[c] \in {"unknown", "cancelled"}
  BY OrphanEffect DEF Shutdown, Shape, CallsType, Call
<1>2. QED BY <1>1 DEF CleanInv, Settled, Revived, Left, At

LEMMA CleanStep ==
  ASSUME UploadInv, CleanupInv, [Next]_vars
  PROVE  CleanupInv'
<1>1. Shape /\ \A c \in Calls : CallInv(c) /\ CleanInv(c)
  BY DEF UploadInv, CleanupInv
<1>2. ASSUME NEW c \in Calls, Acts(c), NEW d \in Calls PROVE CleanInv(d)'
  <2>1. CASE d # c
    BY <1>1, <1>2, <2>1, OthersSame, CleanSame
  <2>2. CASE d = c
    BY <1>1, <1>2, <2>2, CleanPrepare, CleanWindows, CleanEnds, CleanTask, CleanHost, CleanRemoval
    DEF Acts, Progress, Trouble
  <2>3. QED BY <2>1, <2>2
<1>3. CASE Elsewhere \/ UNCHANGED vars
  BY <1>1, <1>3, ElsewhereKeeps, CleanSame DEF CleanupInv
<1>4. CASE Shutdown
  BY <1>1, <1>4, CleanShutdown DEF CleanupInv
<1>5. QED BY <1>2, <1>3, <1>4 DEF Next, Acts, Elsewhere, CleanupInv

(* When the host proved that the temp file of a call is gone, or moved it  *)
(* to the target, nothing that is still on its way creates it again, and   *)
(* the reply of upload_file stays true (remove_host_temp, UploadGuard);    *)
(* but for a first window that no signal ended and that comes later.       *)
THEOREM RemovalsStayTrue == Spec => []ProvenGone
<1>1. Init => CleanupInv
  BY NoWorkIsWork DEF Init, Idle, CleanupInv, CleanInv
<1>2. UploadInv /\ CleanupInv /\ [Next]_vars => CleanupInv'
  BY CleanStep
<1>3. CleanupInv => ProvenGone
  BY DEF CleanupInv, CleanInv, Settled, ProvenGone
<1>4. QED BY <1>1, <1>2, <1>3, UploadInvariant, PTL DEF Spec

-----------------------------------------------------------------------------
(* A call goes forward only.                                               *)

(* The moves that a call has before it, at most: two for each window.  An  *)
(* empty file has one window, too.                                         *)
ControlSteps(c) ==
  LET left == Len(call[c].plan) - Len(call[c].sent)
  IN CASE At(c, "scan")   -> 2 * MaxWindows + 9
       [] At(c, "hash")   -> 2 * MaxWindows + 8
       [] At(c, "open")   -> 2 * Len(call[c].plan) + 7
       [] At(c, "read")   -> 2 * left + (IF Len(call[c].plan) = 0 THEN 6 ELSE 4)
       [] At(c, "chunk")  -> 2 * left + 5
       [] At(c, "eof")    -> 4
       [] At(c, "commit") -> 3
       [] At(c, "remove") -> 2
       [] call[c].pc \in {"idle", "over"} -> 0

(* The steps of the removal under way, or of the next try of the task.     *)
RemovalSteps(c) ==
  CASE removal[c] = "orphan" -> 5
    [] removal[c] = "none"   -> IF cleanup[c] > 0 THEN 4 ELSE 0
    [] removal[c] = "delete" -> 3
    [] removal[c] = "test"   -> 2
    [] removal[c] \in {"gone", "remains", "error"} -> 1

(* The steps of the window or the placement on the host.                   *)
WorkSteps(c) ==
  CASE work[c].phase = "start" -> 3
    [] work[c].phase \in {"open", "hash"} -> 2
    [] work[c].phase = "place" -> 1
    [] work[c].phase \in {"none", "ok", "failed"} -> 0

Stirs(c) ==
  call'[c] # call[c] \/ cleanup'[c] # cleanup[c] \/ removal'[c] # removal[c] \/ work'[c] # work[c]

(* Lexicographic: call, tries that are left, removal, process.             *)
Forward(c) ==
  \/ ControlSteps(c)' < ControlSteps(c)
  \/ /\ call'[c] = call[c]
     /\ \/ cleanup'[c] < cleanup[c]
        \/ /\ cleanup'[c] = cleanup[c]
           /\ \/ RemovalSteps(c)' < RemovalSteps(c)
              \/ removal'[c] = removal[c] /\ WorkSteps(c)' < WorkSteps(c)

(* A call that was asked makes a bounded number of moves, and each step of *)
(* it, of its host processes and of its cleanup task makes what is left of *)
(* them less, whatever others do: no window is sent twice, no removal is   *)
(* tried forever, and a call that is over does not come back.              *)
EveryStepGoesForward ==
  /\ [](\A c \in Calls : ControlSteps(c) \in 0 .. 2 * MaxWindows + 9)
  /\ [][\A c \in Calls : ~At(c, "idle") /\ Stirs(c) => Forward(c)]_vars

(* Where a removal may be, and how much was sent, at each place of a call. *)
MoveInv(c) ==
  /\ call[c].pc \in Waiting \cup {"over"} => call[c].size = 0
  /\ call[c].pc \in Preparing \cup Uploading \cup {"idle", "commit"} =>
       removal[c] = "none" /\ cleanup[c] = 0
  /\ At(c, "remove") => removal[c] \notin {"none", "orphan"} /\ cleanup[c] = 0
  /\ At(c, "over") /\ removal[c] \notin {"none", "orphan"} => cleanup[c] > 0
  /\ At(c, "open") => call[c].sent = <<>>
  /\ At(c, "read") => call[c].sent = <<>> \/ Len(call[c].sent) < Len(call[c].plan)

MovesInv == UploadInv /\ \A c \in Calls : MoveInv(c)

LEMMA GotoMoves ==
  ASSUME Shape, NEW c \in Calls, NEW pc, Goto(c, pc)
  PROVE  /\ call'[c].pc = pc /\ call'[c].plan = call[c].plan /\ call'[c].sent = call[c].sent
         /\ call'[c].size = call[c].size
  BY DEF Shape, CallsType, Call, Goto

LEMMA FailMoves ==
  ASSUME Shape, NEW c \in Calls, Fail(c)
  PROVE  /\ call'[c].pc = "remove" /\ call'[c].size = call[c].size
         /\ removal'[c] \in {"delete", "error"}
  BY GotoMoves, FailEffect DEF Fail

(* How much of a plan is left while a call sends it.                       *)
LEMMA PlanLength ==
  ASSUME Shape, NEW c \in Calls, ControlInv(c), call[c].pc \in Waiting
  PROVE  /\ Len(call[c].plan) \in 0 .. MaxWindows /\ Len(call[c].sent) \in 0 .. MaxWindows
         /\ Len(call[c].sent) <= Len(call[c].plan)
<1>1. call[c].sent \in Files /\ call[c].plan \in Files
  BY DEF Shape, CallsType, Call, ControlInv
<1>2. QED BY <1>1, FileLength DEF ControlInv

LEMMA ControlBound ==
  ASSUME Shape, NEW c \in Calls, ControlInv(c)
  PROVE  /\ ControlSteps(c) \in 0 .. 2 * MaxWindows + 9
         /\ call[c].pc \in Waiting => ControlSteps(c) >= 2
<1>1. call[c].pc \in Moments /\ MaxWindows \in Nat
  BY FilesAssumption DEF Shape, CallsType, Call, Moments
<1>2. CASE call[c].pc \in Waiting
  <2>1. /\ Len(call[c].plan) \in 0 .. MaxWindows /\ Len(call[c].sent) \in 0 .. MaxWindows
        /\ Len(call[c].sent) <= Len(call[c].plan)
    BY <1>2, PlanLength
  <2> DEFINE n == Len(call[c].plan)
             m == Len(call[c].sent)
  <2>2. ControlSteps(c) \in {2 * n + 7, 2 * (n - m) + 4, 2 * (n - m) + 5, 2 * (n - m) + 6, 4, 3, 2}
    BY <1>2 DEF ControlSteps, At, Waiting
  <2> HIDE DEF n, m
  <2>3. n \in 0 .. MaxWindows /\ m \in 0 .. MaxWindows /\ m <= n
    BY <2>1 DEF n, m
  <2>4. QED BY <1>1, <2>2, <2>3
<1>3. CASE call[c].pc \notin Waiting
  <2>1. ControlSteps(c) \in {2 * MaxWindows + 9, 2 * MaxWindows + 8, 0}
    BY <1>1, <1>3 DEF ControlSteps, At, Waiting, Moments, Preparing
  <2>2. QED BY <1>1, <1>3, <2>1
<1>4. QED BY <1>2, <1>3

LEMMA OverMoves ==
  ASSUME Shape, NEW c \in Calls, ControlInv(c), ~At(c, "idle"), ~At(c, "over"), At(c, "over")'
  PROVE  ControlSteps(c)' < ControlSteps(c)
<1>1. ControlSteps(c)' = 0
  BY DEF ControlSteps, At
<1>2. CASE call[c].pc \in Waiting
  BY <1>1, <1>2, ControlBound
<1>3. CASE call[c].pc \in Preparing
  <2>1. ControlSteps(c) \in {2 * MaxWindows + 9, 2 * MaxWindows + 8} /\ MaxWindows \in Nat
    BY <1>3, FilesAssumption DEF ControlSteps, At, Preparing
  <2>2. QED BY <1>1, <2>1
<1>4. QED BY <1>2, <1>3 DEF Shape, CallsType, Call, At

LEMMA PrepareMoves ==
  ASSUME Shape, NEW c \in Calls, CallInv(c), MoveInv(c), Prepare(c)
  PROVE  MoveInv(c)' /\ (At(c, "idle") \/ ControlSteps(c)' < ControlSteps(c))
<1>1. /\ call[c].pc \in Preparing \cup {"idle"} /\ UNCHANGED <<cleanup, removal>>
      /\ call[c] \in Call /\ MaxWindows \in Nat
  BY FilesAssumption DEF Prepare, Ask, ScanTarget, Confirm, At, Preparing, host, Shape, CallsType
<1>2. removal[c] = "none" /\ cleanup[c] = 0 /\ call[c].sent = <<>>
  BY <1>1 DEF MoveInv, CallInv, ControlInv
<1>3. CASE Refused(c)
  <2>1. call'[c].pc = "over" /\ call'[c].size = 0
    BY <1>3, RefusedEffect DEF Idle
  <2>2. MoveInv(c)'
    BY <1>1, <1>2, <2>1 DEF MoveInv, At, Waiting, Preparing, Uploading
  <2>3. QED BY <1>1, <2>1, <2>2, OverMoves DEF At, CallInv, Preparing
<1>4. CASE Ask(c) /\ ~Refused(c)
  <2>1. call'[c].pc = "scan" /\ At(c, "idle")
    BY <1>1, <1>4 DEF Ask, Shape, CallsType, Call
  <2>2. QED BY <1>1, <1>2, <2>1 DEF MoveInv, At, Waiting, Preparing, Uploading
<1>5. CASE ScanTarget(c) /\ ~Refused(c)
  <2>1. call'[c].pc = "hash" /\ At(c, "scan")
    BY <1>1, <1>5, GotoMoves DEF ScanTarget
  <2>2. MoveInv(c)'
    BY <1>1, <1>2, <2>1 DEF MoveInv, At, Waiting, Preparing, Uploading
  <2>3. ControlSteps(c)' = 2 * MaxWindows + 8 /\ ControlSteps(c) = 2 * MaxWindows + 9
    BY <2>1 DEF ControlSteps, At
  <2>4. QED BY <1>1, <2>2, <2>3
<1>6. CASE Confirm(c) /\ ~Refused(c)
  <2>1. /\ call'[c].pc = "open" /\ call'[c].size = 0 /\ call'[c].plan = local
        /\ call'[c].sent = <<>> /\ At(c, "hash")
    BY <1>1, <1>2, <1>6 DEF Confirm, Shape, CallsType, Call
  <2>2. MoveInv(c)'
    BY <1>1, <1>2, <2>1 DEF MoveInv, At, Waiting, Preparing, Uploading
  <2>3. Len(local) \in 0 .. MaxWindows
    BY FileLength DEF Shape, OthersType
  <2>4. ControlSteps(c)' = 2 * Len(local) + 7 /\ ControlSteps(c) = 2 * MaxWindows + 8
    BY <2>1 DEF ControlSteps, At
  <2>5. QED BY <1>1, <2>2, <2>3, <2>4
<1>7. QED BY <1>3, <1>4, <1>5, <1>6 DEF Prepare

(* A failure leads to the removal, from every place before the end.        *)
LEMMA FailingMoves ==
  ASSUME Shape, NEW c \in Calls, CallInv(c), MoveInv(c), Fail(c), UNCHANGED cleanup,
         call[c].pc \in Uploading \cup {"commit"}
  PROVE  MoveInv(c)' /\ ControlSteps(c)' < ControlSteps(c)
<1>1. /\ call[c].size = 0 /\ cleanup'[c] = 0 /\ call'[c].pc = "remove" /\ call'[c].size = 0
      /\ removal'[c] \in {"delete", "error"}
  BY FailMoves DEF MoveInv, Uploading, Waiting
<1>2. MoveInv(c)'
  BY <1>1 DEF MoveInv, At, Waiting, Preparing, Uploading
<1>3. ControlSteps(c)' = 2
  BY <1>1 DEF ControlSteps, At
<1>4. ControlSteps(c) > 2
  <2>1. /\ Len(call[c].plan) \in 0 .. MaxWindows /\ Len(call[c].sent) \in 0 .. MaxWindows
        /\ Len(call[c].sent) <= Len(call[c].plan) /\ MaxWindows \in Nat
    BY PlanLength, FilesAssumption DEF CallInv, Uploading, Waiting
  <2> DEFINE n == Len(call[c].plan)
             m == Len(call[c].sent)
  <2>2. ControlSteps(c) \in {2 * n + 7, 2 * (n - m) + 4, 2 * (n - m) + 5, 2 * (n - m) + 6, 4, 3}
    BY DEF ControlSteps, At, Uploading
  <2> HIDE DEF n, m
  <2>3. n \in Nat /\ m \in Nat /\ m <= n
    BY <2>1 DEF n, m
  <2>4. QED BY <2>2, <2>3
<1>5. QED BY <1>2, <1>3, <1>4

LEMMA WindowMoves ==
  ASSUME Shape, NEW c \in Calls, CallInv(c), MoveInv(c),
         OpenSource(c) \/ ReadWindow(c) \/ ChunkAnswered(c) \/ ChunkLost(c)
  PROVE  MoveInv(c)' /\ ControlSteps(c)' < ControlSteps(c)
<1>1. /\ call[c].pc \in Uploading \cap Waiting /\ UNCHANGED cleanup
      /\ call[c].size = 0 /\ removal[c] = "none" /\ cleanup[c] = 0
  BY DEF OpenSource, ReadWindow, ChunkAnswered, ChunkLost, At, Uploading, Waiting, MoveInv
<1>2. /\ Len(call[c].plan) \in 0 .. MaxWindows /\ Len(call[c].sent) \in 0 .. MaxWindows
      /\ Len(call[c].sent) <= Len(call[c].plan) /\ MaxWindows \in Nat
  BY <1>1, PlanLength, FilesAssumption DEF CallInv
<1> DEFINE n == Len(call[c].plan)
           m == Len(call[c].sent)
<1>3. CASE Fail(c)
  BY <1>1, <1>3, FailingMoves
<1>4. CASE OpenSource(c) /\ ~Fail(c)
  <2>1. /\ At(c, "open") /\ UNCHANGED removal /\ call[c].sent = <<>>
        /\ call'[c].pc = "read" /\ call'[c].plan = call[c].plan
        /\ call'[c].sent = call[c].sent /\ call'[c].size = 0
    BY <1>1, <1>4, GotoMoves DEF OpenSource, MoveInv
  <2>2. MoveInv(c)'
    BY <1>1, <2>1 DEF MoveInv, At, Waiting, Preparing, Uploading
  <2>3. /\ ControlSteps(c) = 2 * n + 7 /\ m = 0
        /\ ControlSteps(c)' = 2 * (n - m) + (IF n = 0 THEN 6 ELSE 4)
    BY <2>1, EmptyIsFile DEF ControlSteps, At
  <2> HIDE DEF n, m
  <2>4. n \in Nat
    BY <1>2 DEF n
  <2>5. QED BY <2>2, <2>3, <2>4
<1>5. CASE ReadWindow(c) /\ ~Fail(c)
  <2> DEFINE next == NextWindow(c)
  <2>1. /\ At(c, "read") /\ UNCHANGED removal /\ call[c] \in Call
        /\ call' = [call EXCEPT ![c].pc = "chunk", ![c].sent = @ \o next]
        /\ ~(m + 1 <= n /\ m + 1 > Len(local))
    BY <1>5 DEF ReadWindow, Shape, CallsType
  <2>2. /\ call'[c].pc = "chunk" /\ call'[c].plan = call[c].plan
        /\ call'[c].sent = call[c].sent \o next /\ call'[c].size = 0
    BY <1>1, <2>1 DEF Call, Shape, CallsType
  <2>3. MoveInv(c)'
    BY <1>1, <2>1, <2>2 DEF MoveInv, At, Waiting, Preparing, Uploading
  <2>4. local \in Files /\ call[c].sent \in Files /\ Len(local) \in 0 .. MaxWindows
    BY <2>1, FileLength DEF Shape, OthersType, Call
  <2>5. IF m + 1 > n THEN next = <<>> ELSE next = SubSeq(local, m + 1, m + 1)
    BY DEF NextWindow
  <2>6. m + 1 <= n => next \in Files /\ Len(next) = 1
    <3>1. CASE m + 1 <= n
      <4>1. m + 1 \in 1 .. Len(local) /\ ~(m + 1 > n)
        BY <1>2, <2>1, <2>4, <3>1
      <4>2. next = SubSeq(local, m + 1, m + 1)
        BY <2>5, <4>1
      <4> HIDE DEF next, n, m
      <4>3. QED BY <2>4, <4>1, <4>2, WindowIsFile
    <3>2. QED BY <3>1
  <2>7. next \in Files
    BY <1>2, <2>5, <2>6, EmptyIsFile
  <2>8. m + 1 > n => Len(next) = 0
    BY <2>5
  <2>9. Len(call[c].sent \o next) = m + Len(next)
    BY <1>2, <2>4, <2>6, <2>7, <2>8, ConcatIsFile
  <2>10. m < n \/ (m = 0 /\ n = 0)
    BY <1>2, <2>1, EmptyIsFile DEF MoveInv
  <2>11. ControlSteps(c) = 2 * (n - m) + (IF n = 0 THEN 6 ELSE 4)
    BY <2>1 DEF ControlSteps, At
  <2>12. ControlSteps(c)' = 2 * (n - (m + Len(next))) + 5
    BY <2>2, <2>9 DEF ControlSteps, At
  <2> HIDE DEF next, n, m
  <2>13. n \in Nat /\ m \in Nat /\ m <= n
    BY <1>2 DEF n, m
  <2>14. QED BY <2>3, <2>6, <2>8, <2>10, <2>11, <2>12, <2>13
<1>6. CASE ChunkAnswered(c) /\ ~Fail(c)
  <2>1. /\ At(c, "chunk") /\ UNCHANGED removal
        /\ call'[c].pc = (IF m = n THEN "eof" ELSE "read")
        /\ call'[c].plan = call[c].plan /\ call'[c].sent = call[c].sent /\ call'[c].size = 0
    BY <1>1, <1>6, GotoMoves DEF ChunkAnswered
  <2>2. MoveInv(c)'
    BY <1>1, <1>2, <2>1 DEF MoveInv, At, Waiting, Preparing, Uploading
  <2>3. /\ ControlSteps(c) = 2 * (n - m) + 5
        /\ ControlSteps(c)' = (IF m = n THEN 4 ELSE 2 * (n - m) + (IF n = 0 THEN 6 ELSE 4))
    BY <2>1 DEF ControlSteps, At
  <2> HIDE DEF n, m
  <2>4. n \in Nat /\ m \in Nat /\ m <= n
    BY <1>2 DEF n, m
  <2>5. QED BY <2>2, <2>3, <2>4
<1>7. ~(ChunkLost(c) /\ ~Fail(c))
  BY DEF ChunkLost
<1>8. QED BY <1>3, <1>4, <1>5, <1>6, <1>7

LEMMA EndMoves ==
  ASSUME Shape, NEW c \in Calls, CallInv(c), MoveInv(c),
         \/ Commit(c) \/ CommitAnswered(c) \/ CommitLost(c) \/ RemovalAnswered(c)
         \/ RemovalLost(c) \/ Cancel(c)
  PROVE  MoveInv(c)' /\ ControlSteps(c)' < ControlSteps(c)
<1>1. /\ call[c].pc \in Waiting /\ call[c].size = 0 /\ call[c] \in Call
      /\ cleanup \in [Calls -> 0 .. MaxRemovals] /\ removal \in [Calls -> Removals]
      /\ call \in [Calls -> Call]
  BY DEF Commit, CommitAnswered, CommitLost, RemovalAnswered, RemovalLost, Cancel, At, Waiting,
         MoveInv, Shape, CallsType, HostType
<1>2. CASE (Commit(c) \/ CommitAnswered(c)) /\ Fail(c)
  BY <1>2, FailingMoves DEF Commit, CommitAnswered, At, Uploading
<1>3. CASE Commit(c) /\ ~Fail(c)
  <2>1. /\ At(c, "eof") /\ UNCHANGED cleanup /\ call'[c].size = 0
        /\ \/ call'[c].pc = "commit" /\ UNCHANGED removal
           \/ call'[c].pc = "remove" /\ removal'[c] = "error"
    BY <1>1, <1>3 DEF Commit, Call
  <2>2. MoveInv(c)'
    BY <1>1, <2>1 DEF MoveInv, At, Waiting, Preparing, Uploading
  <2>3. ControlSteps(c) = 4 /\ ControlSteps(c)' \in {2, 3}
    BY <2>1 DEF ControlSteps, At
  <2>4. QED BY <2>2, <2>3
<1>4. CASE CommitAnswered(c) /\ ~Fail(c)
  <2>1. /\ At(c, "commit") /\ UNCHANGED <<cleanup, removal>>
        /\ call'[c].size = 0 /\ call'[c].pc = "over"
    BY <1>1, <1>4, GotoMoves DEF CommitAnswered
  <2>2. MoveInv(c)'
    BY <1>1, <2>1 DEF MoveInv, At, Waiting, Preparing, Uploading
  <2>3. QED BY <2>1, <2>2, OverMoves DEF At, CallInv
<1>5. CASE CommitLost(c)
  <2>1. /\ At(c, "commit") /\ UNCHANGED cleanup /\ call'[c].size = 0 /\ call'[c].pc = "remove"
        /\ removal'[c] \in {"delete", "error"}
    BY <1>1, <1>5 DEF CommitLost, Call
  <2>2. MoveInv(c)'
    BY <1>1, <2>1 DEF MoveInv, At, Waiting, Preparing, Uploading
  <2>3. ControlSteps(c) = 3 /\ ControlSteps(c)' = 2
    BY <2>1 DEF ControlSteps, At
  <2>4. QED BY <2>2, <2>3
<1>6. CASE RemovalAnswered(c) \/ RemovalLost(c)
  <2>1. /\ At(c, "remove") /\ UNCHANGED cleanup /\ call'[c].size = 0 /\ call'[c].pc = "over"
        /\ removal'[c] \in {"none", "orphan"}
    BY <1>1, <1>6, GotoMoves, OrphanEffect DEF RemovalAnswered, RemovalLost, EndFailed
  <2>2. MoveInv(c)'
    BY <1>1, <2>1 DEF MoveInv, At, Waiting, Preparing, Uploading
  <2>3. QED BY <2>1, <2>2, OverMoves DEF At, CallInv
<1>7. CASE Cancel(c)
  <2>1. /\ call'[c].size = 0 /\ call'[c].pc = "over" /\ removal'[c] \in {"none", "orphan"}
    BY <1>1, <1>7, GotoMoves, OrphanEffect DEF Cancel
  <2>2. MoveInv(c)'
    BY <1>1, <2>1 DEF MoveInv, At, Waiting, Preparing, Uploading
  <2>3. ~At(c, "idle") /\ ~At(c, "over")
    BY <1>1 DEF At, Waiting
  <2>4. QED BY <2>1, <2>2, <2>3, OverMoves DEF At, CallInv
<1>8. QED BY <1>2, <1>3, <1>4, <1>5, <1>6, <1>7

(* The cleanup task, the removals and the other host processes leave the   *)
(* call where it is.                                                       *)
LEMMA BesideMoves ==
  ASSUME Shape, NEW c \in Calls, MoveInv(c), CleanupTask(c) \/ RemovalStep(c) \/ HostStep(c)
  PROVE  MoveInv(c)' /\ (Stirs(c) => Forward(c))
<1>1. /\ UNCHANGED call /\ cleanup \in [Calls -> 0 .. MaxRemovals]
      /\ removal \in [Calls -> Removals] /\ work \in [Calls -> Work] /\ MaxRemovals \in Nat
  BY LimitsAssumption DEF Shape, CallsType, HostType, CleanupTask, CleanupStarts, CleanupAnswered,
         CleanupLost, RemovalStep, RemovalDeletes, RemovalTests, OrphanEnds, HostStep, ChunkOpens,
         ChunkWrites, CommitOpens, CommitChecks, CommitPlaces, ProcessFails, server
<1>2. CASE CleanupStarts(c)
  <2>1. /\ At(c, "over") /\ cleanup[c] > 0 /\ UNCHANGED cleanup /\ removal[c] = "none"
        /\ removal'[c] \in {"delete", "error"}
    BY <1>1, <1>2 DEF CleanupStarts, server
  <2>2. MoveInv(c)'
    BY <1>1, <2>1 DEF MoveInv, At, Waiting, Preparing, Uploading
  <2>3. RemovalSteps(c) = 4 /\ RemovalSteps(c)' \in {1, 3}
    BY <2>1 DEF RemovalSteps
  <2>4. QED BY <1>1, <2>1, <2>2, <2>3 DEF Forward
<1>3. CASE CleanupAnswered(c) \/ CleanupLost(c)
  <2>1. /\ At(c, "over") /\ cleanup[c] > 0 /\ cleanup'[c] < cleanup[c]
        /\ removal'[c] \in {"none", "orphan"}
    BY <1>1, <1>3, OrphanEffect DEF CleanupAnswered, CleanupLost
  <2>2. MoveInv(c)'
    BY <1>1, <2>1 DEF MoveInv, At, Waiting, Preparing, Uploading
  <2>3. QED BY <1>1, <2>1, <2>2 DEF Forward
<1>4. CASE RemovalStep(c)
  <2>1. /\ UNCHANGED cleanup
        /\ \/ removal[c] = "delete" /\ removal'[c] = "test"
           \/ removal[c] = "test" /\ removal'[c] \in {"gone", "remains"}
           \/ removal[c] = "orphan" /\ removal'[c] = "none"
    BY <1>1, <1>4 DEF RemovalStep, RemovalDeletes, RemovalTests, OrphanEnds, server
  <2>2. MoveInv(c)'
    BY <1>1, <2>1 DEF MoveInv, At, Waiting, Preparing, Uploading
  <2>3. RemovalSteps(c)' < RemovalSteps(c)
    BY <2>1 DEF RemovalSteps
  <2>4. QED BY <1>1, <2>1, <2>2, <2>3 DEF Forward
<1>5. CASE HostStep(c)
  <2>1. /\ UNCHANGED <<cleanup, removal>>
        /\ \/ work[c].phase = "start" /\ work'[c].phase \in {"open", "hash", "failed"}
           \/ work[c].phase \in {"open", "hash"} /\ work'[c].phase \in {"place", "ok", "failed"}
           \/ work[c].phase = "place" /\ work'[c].phase \in {"ok", "failed"}
    BY <1>1, <1>5, ProcessEffect
    DEF HostStep, ChunkOpens, ChunkWrites, CommitOpens, CommitChecks, CommitPlaces, ProcessFails,
        Running, server
  <2>2. MoveInv(c)'
    BY <1>1, <2>1 DEF MoveInv, At
  <2>3. WorkSteps(c)' < WorkSteps(c)
    BY <2>1 DEF WorkSteps
  <2>4. QED BY <1>1, <2>1, <2>2, <2>3 DEF Forward
<1>6. QED BY <1>2, <1>3, <1>4, <1>5 DEF CleanupTask

LEMMA SameMoves ==
  ASSUME NEW c \in Calls, Same(c), MoveInv(c)
  PROVE  MoveInv(c)' /\ ~Stirs(c)
  BY DEF Same, MoveInv, Stirs, At

LEMMA ShutdownMoves ==
  ASSUME Shape, NEW c \in Calls, CallInv(c), MoveInv(c), Shutdown
  PROVE  MoveInv(c)' /\ (~At(c, "idle") /\ Stirs(c) => Forward(c))
<1>1. /\ call[c] \in Call /\ cleanup \in [Calls -> 0 .. MaxRemovals] /\ MaxRemovals \in Nat
      /\ call'[c] = [call[c] EXCEPT !.pc = "over", !.size = 0]
      /\ cleanup'[c] = 0 /\ removal'[c] = Orphan(c) /\ UNCHANGED work
  BY LimitsAssumption DEF Shape, CallsType, Shutdown
<1>2. call'[c].pc = "over" /\ call'[c].size = 0 /\ removal'[c] \in {"none", "orphan"}
  BY <1>1, OrphanEffect DEF Call
<1>3. MoveInv(c)'
  BY <1>1, <1>2 DEF MoveInv, At, Waiting, Preparing, Uploading
<1>4. CASE ~At(c, "over") /\ ~At(c, "idle")
  BY <1>2, <1>3, <1>4, OverMoves DEF At, CallInv, Forward
<1>5. CASE At(c, "over")
  <2>1. call'[c] = call[c]
    <3>1. call[c].pc = "over" /\ call[c].size = 0
      BY <1>5 DEF MoveInv, At
    <3>2. \A q \in Call : q.pc = "over" /\ q.size = 0 => [q EXCEPT !.pc = "over", !.size = 0] = q
      BY DEF Call
    <3>3. QED BY <1>1, <3>1, <3>2
  <2>2. CASE cleanup[c] > 0
    BY <1>1, <1>3, <2>1, <2>2 DEF Forward
  <2>3. CASE cleanup[c] = 0
    <3>1. removal[c] \in {"none", "orphan"}
      BY <1>5, <2>3 DEF MoveInv
    <3>2. removal'[c] = removal[c]
      BY <1>1, <3>1 DEF Orphan
    <3>3. QED BY <1>1, <1>3, <2>1, <2>3, <3>2 DEF Stirs
  <2>4. QED BY <1>1, <2>2, <2>3
<1>6. QED BY <1>3, <1>4, <1>5

LEMMA MovesInitially == Init => MovesInv
<1>1. ASSUME Init, NEW c \in Calls PROVE MoveInv(c)
  BY <1>1 DEF Init, Idle, MoveInv, At, Waiting, Preparing, Uploading
<1>2. QED BY <1>1, UploadInitially DEF MovesInv

LEMMA MovesStep ==
  ASSUME MovesInv, [Next]_vars, NEW c \in Calls
  PROVE  MoveInv(c)' /\ (~At(c, "idle") /\ Stirs(c) => Forward(c))
<1>1. Shape /\ CallInv(c) /\ MoveInv(c)
  BY DEF MovesInv, UploadInv
<1>2. CASE Acts(c)
  BY <1>1, <1>2, PrepareMoves, WindowMoves, EndMoves, BesideMoves
  DEF Acts, Progress, Trouble, Forward
<1>3. CASE \E d \in Calls : d # c /\ Acts(d)
  BY <1>1, <1>3, OthersSame, SameMoves
<1>4. CASE Elsewhere \/ UNCHANGED vars
  BY <1>1, <1>4, ElsewhereKeeps, SameMoves
<1>5. CASE Shutdown
  BY <1>1, <1>5, ShutdownMoves
<1>6. QED BY <1>2, <1>3, <1>4, <1>5 DEF Next, Acts, Elsewhere

(* Every upload goes forward to its end, for every size of a file and with *)
(* every loss of an answer.                                                *)
THEOREM UploadsGoForward == Spec => EveryStepGoesForward
<1>1. MovesInv /\ [Next]_vars => MovesInv'
  BY MovesStep, UploadStep DEF MovesInv
<1>2. MovesInv => \A c \in Calls : ControlSteps(c) \in 0 .. 2 * MaxWindows + 9
  BY ControlBound DEF MovesInv, UploadInv, CallInv
<1>3. MovesInv /\ [Next]_vars => [\A c \in Calls : ~At(c, "idle") /\ Stirs(c) => Forward(c)]_vars
  BY MovesStep
<1>4. QED BY <1>1, <1>2, <1>3, MovesInitially, PTL DEF Spec, EveryStepGoesForward

-----------------------------------------------------------------------------
(* The transport under the uploads: a host command with standard input     *)
(* implements the safety part of WindowCall, for every number of parts of  *)
(* the input and whether or not the requests of the cleanup reach the      *)
(* host.                                                                   *)

(* What the place in the code tells about the answer, the command and the  *)
(* shell.  An error is only given after the signal, when the command has a *)
(* name.                                                                   *)
StdinInv ==
  /\ step \in Driven \cup {"idle", "close", "terminate", "delete", "over"}
  /\ step = "idle" => reply = "none" /\ shell = "none" /\ command = "none"
  /\ step \in Driven \cup {"close", "terminate", "delete"} => reply = "open" /\ shell = "open"
  /\ step \in {"send", "receive", "drain"} => named
  /\ step = "close" => command = "ended"
  /\ step = "delete" /\ named => signalled
  /\ named \in BOOLEAN /\ (named => command # "none")
  /\ errand \in {"terminate", "delete"} =>
       step = "over" /\ reply \in {"gone", "left"} /\ shell = "open"
  /\ errand = "terminate" => named /\ reply = "gone"
  /\ errand = "delete" => reply = "gone"

LEMMA StdinInvInitially == StdinInit => StdinInv
  BY DEF StdinInit, StdinInv, Window!WindowInit, Driven

LEMMA DriveKept ==
  ASSUME StdinInv, Drive
  PROVE  StdinInv'
<1>1. CASE StartCommand
  <2>1. CASE named' = TRUE /\ step' = "send"
    BY <1>1, <2>1 DEF StartCommand, StdinInv, Driven
  <2>2. CASE UNCHANGED named /\ step' = "terminate"
    BY <1>1, <2>2 DEF StartCommand, StdinInv, Driven
  <2>3. QED BY <1>1, <2>1, <2>2 DEF StartCommand, Cleanup, Goes
<1>2. CASE Send
  BY <1>2 DEF Send, Goes, StdinInv, Driven
<1>3. CASE CollectOutput \/ Drain
  BY <1>3 DEF CollectOutput, Drain, Cleanup, Goes, StdinInv, Driven
<1>4. CASE TimeLimit
  BY <1>4 DEF TimeLimit, Cleanup, Goes, StdinInv, Driven
<1>5. QED BY <1>1, <1>2, <1>3, <1>4 DEF Drive

LEMMA FinishKept ==
  ASSUME StdinInv, Finish
  PROVE  StdinInv'
  BY DEF Finish, Close, CleanupTerminates, CleanupDeletes, SignalTerminate, DeleteShell, Goes,
         StdinInv, Driven

LEMMA ErrandKept ==
  ASSUME StdinInv, Errand \/ ErrandDropped \/ Drop
  PROVE  StdinInv'
<1>1. CASE ErrandTerminates
  BY <1>1 DEF ErrandTerminates, SignalTerminate, StdinInv, Driven
<1>2. CASE ErrandDeletes \/ ErrandDropped
  BY <1>2 DEF ErrandDeletes, ErrandDropped, DeleteShell, StdinInv, Driven
<1>3. CASE Drop
  BY <1>3 DEF Drop, Goes, StdinInv, Driven
<1>4. QED BY <1>1, <1>2, <1>3 DEF Errand

LEMMA HostKept ==
  ASSUME StdinInv, HostStarts \/ HostEnds \/ OpenShell
  PROVE  StdinInv'
  BY DEF HostStarts, HostEnds, OpenShell, Goes, StdinInv, Driven

LEMMA StdinInvKept == StdinInv /\ [StdinNext]_stdinVars => StdinInv'
<1>1. StdinInv /\ UNCHANGED stdinVars => StdinInv'
  BY DEF stdinVars, moving, StdinInv
<1>2. QED BY <1>1, DriveKept, FinishKept, ErrandKept, HostKept DEF StdinNext

THEOREM StdinInvariant == StdinSpec => []StdinInv
  BY StdinInvInitially, StdinInvKept, PTL DEF StdinSpec

-----------------------------------------------------------------------------
(* Every step is one of WindowCall, or stutters.                           *)

LEMMA HostMoves ==
  ASSUME StdinInv, UNCHANGED reachable, HostStarts \/ HostEnds \/ OpenShell
  PROVE  [Window!WindowNext]_(Window!windowVars)
<1>1. CASE HostStarts \/ HostEnds
  <2>1. Window!CommandRuns
    BY <1>1 DEF HostStarts, HostEnds, Window!CommandRuns
  <2>2. QED BY <2>1 DEF Window!WindowNext
<1>2. CASE OpenShell
  <2>1. Window!WindowOpens
    BY <1>2 DEF OpenShell, StdinInv, Window!WindowOpens
  <2>2. QED BY <2>1 DEF Window!WindowNext
<1>3. QED BY <1>1, <1>2

LEMMA DriveStep ==
  ASSUME StdinInv, UNCHANGED reachable, Drive
  PROVE  [Window!WindowNext]_(Window!windowVars)
<1>1. UNCHANGED <<reply, command, signalled, shell>>
  BY DEF Drive, StartCommand, Send, CollectOutput, Drain, TimeLimit
<1>2. CASE UNCHANGED named
  BY <1>1, <1>2 DEF Window!windowVars
<1>3. CASE ~UNCHANGED named
  <2>1. command # "none" /\ named' = TRUE /\ reply = "open"
    BY <1>3 DEF Drive, StartCommand, Send, CollectOutput, Drain, TimeLimit, StdinInv, Driven
  <2>2. Window!CommandRuns
    BY <1>1, <2>1 DEF Window!CommandRuns
  <2>3. QED BY <2>2 DEF Window!WindowNext
<1>4. QED BY <1>2, <1>3

(* The signal, from the call or from the task of the guard.                *)
LEMMA SignalStep ==
  ASSUME SignalTerminate, named \in BOOLEAN, UNCHANGED <<reachable, reply, named, shell>>
  PROVE  [Window!WindowNext]_(Window!windowVars)
<1>1. CASE named
  <2>1. Window!CommandSignalled
    BY <1>1 DEF SignalTerminate, Window!CommandSignalled
  <2>2. QED BY <2>1 DEF Window!WindowNext
<1>2. CASE ~named
  BY <1>2 DEF SignalTerminate, Window!windowVars
<1>3. QED BY <1>1, <1>2

LEMMA FinishStep ==
  ASSUME StdinInv, UNCHANGED reachable, Finish
  PROVE  [Window!WindowNext]_(Window!windowVars)
<1>1. CASE CleanupTerminates
  BY <1>1, SignalStep DEF CleanupTerminates, StdinInv
<1>2. CASE Close \/ CleanupDeletes
  <2>1. Window!WindowAnswers
    BY <1>2 DEF Close, CleanupDeletes, DeleteShell, StdinInv, Driven, Window!WindowAnswers, Window!Closes
  <2>2. QED BY <2>1 DEF Window!WindowNext
<1>3. QED BY <1>1, <1>2 DEF Finish

LEMMA ErrandStep ==
  ASSUME StdinInv, UNCHANGED reachable, Errand \/ ErrandDropped \/ Drop
  PROVE  [Window!WindowNext]_(Window!windowVars)
<1>1. CASE ErrandTerminates
  BY <1>1, SignalStep DEF ErrandTerminates, StdinInv
<1>2. CASE ErrandDeletes
  <2>1. Window!ShellGoes \/ UNCHANGED Window!windowVars
    BY <1>2 DEF ErrandDeletes, DeleteShell, StdinInv, Window!ShellGoes, Window!Closes, Window!windowVars
  <2>2. QED BY <2>1 DEF Window!WindowNext
<1>3. CASE ErrandDropped \/ Drop
  <2>1. Window!CallerGoes
    BY <1>3 DEF ErrandDropped, Drop, StdinInv, Driven, Window!CallerGoes
  <2>2. QED BY <2>1 DEF Window!WindowNext
<1>4. QED BY <1>1, <1>2, <1>3 DEF Errand

LEMMA WindowStep == StdinInv /\ [StdinNext]_stdinVars => [Window!WindowNext]_(Window!windowVars)
<1>1. UNCHANGED stdinVars => UNCHANGED Window!windowVars
  BY DEF stdinVars, moving, Window!windowVars
<1>2. QED BY <1>1, HostMoves, DriveStep, FinishStep, ErrandStep DEF StdinNext

(* The call gives an exit code only for a command that ended, and an error *)
(* only after the signal to a command that it knows, in every order of the *)
(* end of the command, a failing send, the time limit and a dropped call.  *)
THEOREM CallIsSafe == StdinSpec => Window!WindowInit /\ [][Window!WindowNext]_(Window!windowVars)
<1>1. StdinInit => Window!WindowInit
  BY DEF StdinInit
<1>2. QED BY <1>1, WindowStep, StdinInvariant, PTL DEF StdinSpec

-----------------------------------------------------------------------------
(* A call with standard input goes forward only.                           *)

(* The requests that the call and the task of its guard have before them,  *)
(* at most; the polls for output count as one.                             *)
RequestsLeft ==
  (CASE step = "start" -> MaxParts + 4
     [] step = "send"  -> parts + 3
     [] step \in {"receive", "drain"} -> 3
     [] step = "terminate" -> 2
     [] step \in {"close", "delete"} -> 1
     [] step \in {"idle", "over"} -> 0)
  + (CASE errand = "terminate" -> 2 [] errand = "delete" -> 1 [] errand \in {"none", "over"} -> 0)

CallMoves == step' # step \/ parts' # parts \/ errand' # errand

(* A call that began makes a bounded number of requests, the task that     *)
(* cleans up after it included: no part is sent twice, and no signal or    *)
(* deletion is repeated, also when it failed.                              *)
RequestsEnd ==
  /\ [](RequestsLeft \in 0 .. MaxParts + 4)
  /\ [][step # "idle" /\ CallMoves => RequestsLeft' < RequestsLeft]_stdinVars

(* What a drop may leave to a task: nothing, once the cleanup has begun.   *)
RequestsInv ==
  /\ StdinInv
  /\ parts \in 0 .. MaxParts /\ (step \in {"start", "send"} => parts > 0)
  /\ errand \in {"none", "terminate", "delete", "over"}
  /\ step # "over" => errand = "none"
  /\ step \in {"close", "terminate", "delete"} => ~armed

LEMMA DriveRequests ==
  ASSUME RequestsInv, Drive
  PROVE  RequestsInv' /\ RequestsLeft' < RequestsLeft
<1>1. /\ StdinInv' /\ MaxParts \in Nat \ {0} /\ parts \in 0 .. MaxParts
      /\ errand = "none" /\ errand' = "none" /\ step \in Driven
      /\ step \in {"start", "send"} => parts > 0
  BY DriveKept, StdinAssumption
  DEF RequestsInv, Drive, StartCommand, Send, CollectOutput, Drain, TimeLimit, Driven
<1>2. \/ step' \in {"terminate", "close"} /\ armed' = FALSE /\ UNCHANGED parts
      \/ step = "start" /\ step' = "send" /\ UNCHANGED parts
      \/ step = "send" /\ step' = "drain" /\ UNCHANGED parts
      \/ step = "send" /\ parts' = parts - 1 /\ step' = (IF parts = 1 THEN "receive" ELSE "send")
  BY DEF Drive, StartCommand, Send, CollectOutput, Drain, TimeLimit, Cleanup, Goes
<1>3. RequestsInv'
  BY <1>1, <1>2 DEF RequestsInv, Driven
<1>4. RequestsLeft' < RequestsLeft
  BY <1>1, <1>2 DEF RequestsLeft, Driven
<1>5. QED BY <1>3, <1>4

LEMMA FinishRequests ==
  ASSUME RequestsInv, Finish
  PROVE  RequestsInv' /\ RequestsLeft' < RequestsLeft
<1>1. /\ StdinInv' /\ UNCHANGED <<parts, errand, armed>> /\ errand = "none"
      /\ \/ step \in {"close", "delete"} /\ step' = "over"
         \/ step = "terminate" /\ step' = "delete"
  BY FinishKept DEF RequestsInv, Finish, Close, CleanupTerminates, CleanupDeletes, Goes
<1>2. QED BY <1>1 DEF RequestsInv, RequestsLeft

LEMMA ErrandRequests ==
  ASSUME RequestsInv, Errand \/ ErrandDropped \/ Drop
  PROVE  RequestsInv' /\ RequestsLeft' < RequestsLeft
<1>1. StdinInv' /\ MaxParts \in Nat /\ parts \in 0 .. MaxParts
  BY ErrandKept, StdinAssumption DEF RequestsInv
<1>2. CASE Errand \/ ErrandDropped
  <2>1. /\ UNCHANGED <<step, parts, armed>> /\ step = "over"
        /\ \/ errand = "terminate" /\ errand' \in {"delete", "over"}
           \/ errand = "delete" /\ errand' = "over"
    BY <1>2 DEF Errand, ErrandTerminates, ErrandDeletes, ErrandDropped, RequestsInv
  <2>2. QED BY <1>1, <2>1 DEF RequestsInv, RequestsLeft
<1>3. CASE Drop
  <2>1. /\ UNCHANGED <<parts, armed>> /\ step \notin {"idle", "over"} /\ step' = "over"
        /\ errand = "none" /\ errand' \in {"none", "terminate", "delete"}
        /\ step \in {"close", "terminate", "delete"} => errand' = "none"
    BY <1>3 DEF Drop, Goes, RequestsInv
  <2>2. step \in Driven \cup {"close", "terminate", "delete"}
    BY <2>1 DEF RequestsInv, StdinInv
  <2>3. RequestsLeft' \in 0 .. 2 /\ (errand' = "none" => RequestsLeft' = 0)
    BY <2>1 DEF RequestsLeft
  <2>4. CASE step \in Driven
    <3>1. RequestsLeft >= 3
      BY <1>1, <2>1, <2>4 DEF RequestsLeft, Driven
    <3>2. RequestsLeft \in Nat
      BY <1>1, <2>1, <2>4 DEF RequestsLeft, Driven
    <3>3. QED BY <1>1, <2>1, <2>3, <3>1, <3>2 DEF RequestsInv
  <2>5. CASE step \notin Driven
    <3>1. RequestsLeft \in {1, 2} /\ RequestsLeft' = 0
      BY <2>1, <2>2, <2>3, <2>5 DEF RequestsLeft, Driven
    <3>2. QED BY <1>1, <2>1, <3>1 DEF RequestsInv
  <2>6. QED BY <2>4, <2>5
<1>4. QED BY <1>2, <1>3

LEMMA RequestsKept ==
  ASSUME RequestsInv, [StdinNext]_stdinVars
  PROVE  RequestsInv' /\ (step # "idle" /\ CallMoves => RequestsLeft' < RequestsLeft)
<1>1. StdinInv'
  BY StdinInvKept DEF RequestsInv
<1>2. CASE UNCHANGED stdinVars
  BY <1>1, <1>2 DEF stdinVars, moving, RequestsInv, CallMoves
<1>3. CASE HostStarts \/ HostEnds
  BY <1>1, <1>3 DEF HostStarts, HostEnds, RequestsInv, CallMoves
<1>4. CASE OpenShell
  BY <1>1, <1>4, StdinAssumption DEF OpenShell, Goes, RequestsInv
<1>5. QED
  BY <1>2, <1>3, <1>4, DriveRequests, FinishRequests, ErrandRequests DEF StdinNext

LEMMA RequestsBound == RequestsInv => RequestsLeft \in 0 .. MaxParts + 4
<1> SUFFICES ASSUME RequestsInv PROVE RequestsLeft \in 0 .. MaxParts + 4
  OBVIOUS
<1>1. /\ MaxParts \in Nat \ {0} /\ parts \in 0 .. MaxParts
      /\ step \in {"start", "send", "receive", "drain", "idle", "close", "terminate", "delete", "over"}
      /\ errand \in {"none", "terminate", "delete", "over"} /\ (step # "over" => errand = "none")
  BY StdinAssumption DEF RequestsInv, StdinInv, Driven
<1>2. QED BY <1>1 DEF RequestsLeft

(* run_powershell_stdin and its guard (session.rs): a call with standard   *)
(* input only goes forward, for every number of parts of the input, and so *)
(* does the task that it leaves.                                           *)
THEOREM CallsGoForward == StdinSpec => RequestsEnd
<1>1. StdinInit => RequestsInv
  BY StdinInvInitially, StdinAssumption DEF StdinInit, RequestsInv
<1>2. RequestsInv /\ [StdinNext]_stdinVars => RequestsInv'
  BY RequestsKept
<1>3. RequestsInv /\ [StdinNext]_stdinVars =>
        [step # "idle" /\ CallMoves => RequestsLeft' < RequestsLeft]_stdinVars
  BY RequestsKept
<1>4. QED BY <1>1, <1>2, <1>3, RequestsBound, PTL DEF StdinSpec, RequestsEnd

-----------------------------------------------------------------------------
(* The specification that the run of both checks.                          *)

(* A behaviour of it is one of the upload and one of the stdin call, so    *)
(* that what is proved of either holds there.                              *)
THEOREM CleanupIsBoth == CleanupSpec => FairSpec /\ StdinSpec
<1>1. [CleanupNext]_<<vars, stdinVars>> => [Next]_vars /\ [StdinNext]_stdinVars
  BY DEF CleanupNext
<1>2. CleanupInit => Init /\ StdinInit
  BY DEF CleanupInit
<1>3. QED BY <1>1, <1>2, PTL DEF CleanupSpec, FairSpec, Spec, StdinSpec

=============================================================================
