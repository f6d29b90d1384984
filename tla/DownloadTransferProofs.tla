----------------------- MODULE DownloadTransferProofs -----------------------
(***************************************************************************)
(* Proofs about download_file, for every set of calls, every file size and *)
(* every number of rewrites of the source.                                 *)
(***************************************************************************)
EXTENDS DownloadTransfer, TLAPS

-----------------------------------------------------------------------------
(* Files are sequences of windows.                                         *)

LEMMA FilesAreSequences ==
  \A file : file \in Files <=> file \in Seq(Windows) /\ Len(file) <= MaxWindows
<1>1. ASSUME NEW file \in Files PROVE file \in Seq(Windows) /\ Len(file) <= MaxWindows
  <2>1. PICK n \in 0 .. MaxWindows : file \in [1 .. n -> Windows]
    BY DEF Files
  <2>2. QED BY <2>1, DownloadFilesAssumption
<1>2. ASSUME NEW file \in Seq(Windows), Len(file) <= MaxWindows PROVE file \in Files
  <2>1. Len(file) \in 0 .. MaxWindows /\ file \in [1 .. Len(file) -> Windows]
    BY <1>2, DownloadFilesAssumption
  <2>2. QED BY <2>1 DEF Files
<1>3. QED BY <1>1, <1>2

(* A file may be read up to the size that was scanned.                     *)
LEMMA AppendIsFile ==
  ASSUME NEW file \in Files, NEW w \in Windows, Len(file) < MaxWindows
  PROVE  /\ Append(file, w) \in Files /\ Len(Append(file, w)) = Len(file) + 1
         /\ Append(file, w)[Len(file) + 1] = w
         /\ \A i \in 1 .. Len(file) : Append(file, w)[i] = file[i]
<1>1. file \in Seq(Windows) /\ Len(file) \in Nat
  BY FilesAreSequences
<1>2. /\ Append(file, w) \in Seq(Windows) /\ Len(Append(file, w)) = Len(file) + 1
      /\ Append(file, w)[Len(file) + 1] = w
      /\ \A i \in 1 .. Len(file) : Append(file, w)[i] = file[i]
  BY <1>1
<1>3. Len(Append(file, w)) <= MaxWindows
  BY <1>1, <1>2, DownloadFilesAssumption
<1>4. Append(file, w) \in Files
  BY <1>2, <1>3, FilesAreSequences
<1>5. QED BY <1>2, <1>4

LEMMA EmptyIsFile == <<>> \in Files /\ Len(<<>>) = 0
<1>1. <<>> \in Seq(Windows) /\ Len(<<>>) = 0
  OBVIOUS
<1>2. Len(<<>>) <= MaxWindows
  BY <1>1, DownloadFilesAssumption
<1>3. QED BY <1>1, <1>2, FilesAreSequences

LEMMA WindowOfFile ==
  ASSUME NEW file \in Files, NEW i \in 1 .. Len(file)
  PROVE  file[i] \in Windows
  BY FilesAreSequences

-----------------------------------------------------------------------------
(* Type correctness.                                                       *)

LEMMA TypeInitially == Init => TypeOK
<1> SUFFICES ASSUME Init PROVE TypeOK
  OBVIOUS
<1>1. Idle \in Call /\ Checked(Idle)
  BY EmptyIsFile, DownloadFilesAssumption DEF Idle, Call, Checked, AtAwait, Placing
<1>2. CallsType
  BY <1>1 DEF Init, CallsType
<1>3. FilesType
  BY DownloadFilesAssumption DEF Init, FilesType
<1>4. QED BY <1>2, <1>3 DEF TypeOK

(* A step that puts one call into another well-typed state.                *)
LEMMA PutCall ==
  ASSUME TypeOK, NEW c \in Calls, NEW q \in Call, Checked(q), call' = [call EXCEPT ![c] = q]
  PROVE  CallsType'
<1>1. call' \in [Calls -> Call] /\ \A d \in Calls : call'[d] = IF d = c THEN q ELSE call[d]
  BY DEF TypeOK, CallsType
<1>2. \A d \in Calls : Checked(call'[d])
  BY <1>1 DEF TypeOK, CallsType
<1>3. QED BY <1>1, <1>2 DEF CallsType, Checked

LEMMA GotoType ==
  ASSUME TypeOK, NEW c \in Calls, NEW pc \in AtAwait \cup Placing \cup {"over"}, Goto(c, pc),
         pc \in AtAwait => call[c].pc \in AtAwait, pc \in Placing => call[c].pc \in Placing
  PROVE  CallsType'
<1> DEFINE q == [call[c] EXCEPT !.pc = pc]
<1>1. call[c] \in Call /\ Checked(call[c])
  BY DEF TypeOK, CallsType
<1>2. q \in Call
  BY <1>1 DEF Call
<1>3. Checked(q)
  <2>1. /\ q.pc = pc /\ q.size = call[c].size /\ q.seen = call[c].seen
        /\ q.got = call[c].got /\ q.vouched = call[c].vouched
    BY <1>1 DEF Call
  <2>2. pc # "idle"
    BY DEF AtAwait, Placing
  <2>3. QED BY <1>1, <2>1, <2>2 DEF Checked
<1>4. call' = [call EXCEPT ![c] = q]
  BY DEF Goto
<1>5. QED BY <1>2, <1>3, <1>4, PutCall

LEMMA RemoveType ==
  ASSUME TypeOK, NEW c \in Calls, Remove(c)
  PROVE  /\ temp' \in [Calls -> Files \cup {Absent}]
         /\ stale' \subseteq Calls /\ excused' \subseteq Calls
  BY DEF Remove, TypeOK, FilesType

LEMMA EndType ==
  ASSUME TypeOK, NEW c \in Calls, NEW status \in {"failed", "cancelled"}, End(c, status),
         UNCHANGED <<source, target, placed, crashed, versions, rewrites>>
  PROVE  TypeOK'
<1>1. CallsType'
  BY GotoType DEF AtAwait, End, Placing
<1>2. FilesType'
  BY RemoveType DEF End, TypeOK, FilesType
<1>3. QED BY <1>1, <1>2 DEF TypeOK

LEMMA ConfirmType ==
  ASSUME TypeOK, NEW c \in Calls, Confirm(c)
  PROVE  TypeOK'
<1> DEFINE q == [call[c] EXCEPT !.pc = "read", !.size = Len(source)]
<1>1. Len(source) \in 0 .. MaxWindows
  BY FilesAreSequences DEF TypeOK, FilesType
<1>2. call[c] \in Call
  BY DEF TypeOK, CallsType
<1>3. q \in Call
  BY <1>1, <1>2 DEF Call, AtAwait
<1>c. call[c] = Idle
  BY DEF TypeOK, CallsType, Checked, Confirm, At
<1>a. /\ q.pc = "read" /\ q.size = Len(source) /\ q.got = <<>> /\ q.seen = <<>>
      /\ q.vouched = Absent
  BY <1>2, <1>c DEF Idle, Call
<1>b. Checked(q)
  BY <1>1, <1>a, EmptyIsFile DEF Checked, Placing
<1>4. call' = [call EXCEPT ![c] = q]
  BY DEF Confirm
<1>5. CallsType'
  BY <1>3, <1>b, <1>4, PutCall
<1>6. FilesType'
  <2>1. PICK kept \in SUBSET stale : Sweep(c, kept)
    BY DEF Confirm
  <2>2. /\ temp' \in [Calls -> Files \cup {Absent}]
        /\ stale' \subseteq Calls /\ excused' \subseteq Calls
    BY <2>1, EmptyIsFile DEF Sweep, TypeOK, FilesType
  <2>3. QED BY <2>2 DEF Confirm, TypeOK, FilesType
<1>7. QED BY <1>5, <1>6 DEF TypeOK

LEMMA ReadWindowType ==
  ASSUME TypeOK, NEW c \in Calls, temp[c] \in {call[c].got, Absent}, ReadWindow(c)
  PROVE  TypeOK'
<1> DEFINE w == source[Len(call[c].got) + 1]
           q == [call[c] EXCEPT !.got = Append(call[c].got, w)]
<1>1. /\ call[c] \in Call /\ Checked(call[c]) /\ call[c].pc = "read" /\ source \in Files
      /\ Len(call[c].got) + 1 <= call[c].size /\ Len(call[c].got) + 1 <= Len(source)
      /\ call[c].got \in Files
  BY DEF ReadWindow, At, TypeOK, CallsType, FilesType, Call
<1>2. Len(call[c].got) \in Nat /\ Len(source) \in Nat /\ Len(source) <= MaxWindows
  BY <1>1, FilesAreSequences
<1>3. w \in Windows /\ Len(call[c].got) < MaxWindows
  BY <1>1, <1>2, WindowOfFile, DownloadFilesAssumption
<1>4. Append(call[c].got, w) \in Files /\ Len(Append(call[c].got, w)) = Len(call[c].got) + 1
  BY <1>1, <1>3, AppendIsFile
<1>5. q \in Call
  BY <1>1, <1>4 DEF Call
<1>6. /\ q.pc = "read" /\ q.size = call[c].size /\ q.got = Append(call[c].got, w)
      /\ q.seen = call[c].seen /\ q.vouched = call[c].vouched
  BY <1>1 DEF Call
<1>7. Checked(q)
  BY <1>1, <1>4, <1>6 DEF Checked, Placing
<1>8. call' = [call EXCEPT ![c] = q]
  BY DEF ReadWindow
<1>9. CallsType'
  BY <1>5, <1>7, <1>8, PutCall
<1>10. temp' \in [Calls -> Files \cup {Absent}]
  <2>1. temp' = [temp EXCEPT ![c] = IF temp[c] = Absent THEN Absent ELSE Append(call[c].got, w)]
    BY DEF ReadWindow
  <2>2. QED BY <1>4, <2>1 DEF TypeOK, FilesType
<1>11. FilesType'
  BY <1>10 DEF ReadWindow, history, TypeOK, FilesType
<1>12. QED BY <1>9, <1>11 DEF TypeOK

LEMMA HashWindowType ==
  ASSUME TypeOK, NEW c \in Calls, HashWindow(c)
  PROVE  TypeOK'
<1> DEFINE w == source[Len(call[c].seen) + 1]
           q == [call[c] EXCEPT !.seen = Append(call[c].seen, w)]
<1>1. /\ call[c] \in Call /\ Checked(call[c]) /\ call[c].pc = "hash" /\ source \in Files
      /\ Len(call[c].seen) + 1 <= call[c].size /\ Len(call[c].seen) + 1 <= Len(source)
      /\ call[c].seen \in Files /\ call[c].vouched = Absent
  BY DEF HashWindow, At, AtAwait, TypeOK, CallsType, FilesType, Call, Checked
<1>2. Len(call[c].seen) \in Nat /\ Len(source) \in Nat /\ Len(source) <= MaxWindows
  BY <1>1, FilesAreSequences
<1>3. w \in Windows /\ Len(call[c].seen) < MaxWindows
  BY <1>1, <1>2, WindowOfFile, DownloadFilesAssumption
<1>4. Append(call[c].seen, w) \in Files /\ Len(Append(call[c].seen, w)) = Len(call[c].seen) + 1
  BY <1>1, <1>3, AppendIsFile
<1>5. q \in Call
  BY <1>1, <1>4 DEF Call
<1>6. /\ q.pc = "hash" /\ q.size = call[c].size /\ q.seen = Append(call[c].seen, w)
      /\ q.got = call[c].got /\ q.vouched = call[c].vouched
  BY <1>1 DEF Call
<1>7. Checked(q)
  BY <1>1, <1>4, <1>6 DEF Checked, Placing
<1>8. call' = [call EXCEPT ![c] = q]
  BY DEF HashWindow
<1>9. CallsType'
  BY <1>5, <1>7, <1>8, PutCall
<1>10. FilesType'
  BY DEF HashWindow, local, history, TypeOK, FilesType
<1>11. QED BY <1>9, <1>10 DEF TypeOK

LEMMA HashAnsweredType ==
  ASSUME TypeOK, NEW c \in Calls, HashAnswered(c)
  PROVE  TypeOK'
<1> DEFINE q == [call[c] EXCEPT !.pc = "place", !.vouched = call[c].seen]
<1>1. call[c] \in Call /\ Checked(call[c]) /\ call[c].pc = "hash" /\ Len(call[c].seen) = call[c].size
  BY DEF HashAnswered, At, TypeOK, CallsType
<1>2. CASE call[c].seen = call[c].got /\ call' = [call EXCEPT ![c] = q]
           /\ UNCHANGED <<audit, temp, stale, excused>>
  <2>1. q \in Call
    BY <1>1 DEF Call, Placing
  <2>2. /\ q.pc = "place" /\ q.size = call[c].size /\ q.seen = call[c].seen
        /\ q.got = call[c].got /\ q.vouched = call[c].seen
    BY <1>1 DEF Call
  <2>3. Checked(q)
    BY <1>1, <1>2, <2>2 DEF Checked, AtAwait, Placing
  <2>4. CallsType'
    BY <1>2, <2>1, <2>3, PutCall
  <2>5. FilesType'
    BY <1>2 DEF HashAnswered, history, TypeOK, FilesType
  <2>6. QED BY <2>4, <2>5 DEF TypeOK
<1>3. CASE End(c, "failed")
  BY <1>3, EndType DEF HashAnswered, history
<1>4. QED BY <1>2, <1>3 DEF HashAnswered

LEMMA RenameType ==
  ASSUME TypeOK, NEW c \in Calls, call[c].pc \in Placing, Rename(c),
         UNCHANGED <<source, history, rewrites>>
  PROVE  TypeOK'
<1>1. CallsType'
  BY GotoType DEF AtAwait, Rename, Placing
<1>2. FilesType'
  BY DEF Rename, history, TypeOK, FilesType
<1>3. QED BY <1>1, <1>2 DEF TypeOK

LEMMA RefuseType ==
  ASSUME TypeOK, NEW c \in Calls, Refuse(c), UNCHANGED <<source, history, rewrites>>
  PROVE  TypeOK'
  BY EndType DEF Refuse, history

LEMMA PlaceType ==
  ASSUME TypeOK, NEW c \in Calls, Place(c)
  PROVE  TypeOK'
<1>p. call[c].pc \in Placing /\ UNCHANGED <<source, history, rewrites>>
  BY DEF Place, At, Placing
<1>1. CASE Refuse(c)
  BY <1>p, <1>1, RefuseType
<1>2. CASE Rename(c)
  BY <1>p, <1>2, RenameType
<1>3. CASE Link(c)
  <2>1. CallsType'
    BY <1>p, <1>3, GotoType DEF AtAwait, Link, Placing
  <2>2. FilesType'
    BY <1>p, <1>3 DEF Link, history, TypeOK, FilesType
  <2>3. QED BY <2>1, <2>2 DEF TypeOK
<1>4. CASE Goto(c, "rename") /\ UNCHANGED <<local, audit>>
  <2>1. CallsType'
    BY <1>p, <1>4, GotoType DEF AtAwait, Placing
  <2>2. FilesType'
    BY <1>p, <1>4 DEF local, history, TypeOK, FilesType
  <2>3. QED BY <2>1, <2>2 DEF TypeOK
<1>5. QED BY <1>1, <1>2, <1>3, <1>4 DEF Place, FallBack

(* Every step of a call.                                                   *)
Acts(c) == Confirm(c) \/ Progress(c) \/ Trouble(c)

LEMMA ActsType ==
  ASSUME TypeOK, NEW c \in Calls, At(c, "read") => temp[c] \in {call[c].got, Absent}, Acts(c)
  PROVE  TypeOK'
<1>1. CASE Confirm(c)
  BY <1>1, ConfirmType
<1>2. CASE ReadWindow(c)
  BY <1>2, ReadWindowType DEF ReadWindow
<1>3. CASE SourceIsShort(c)
  BY <1>3, EndType DEF SourceIsShort, history
<1>4. CASE StartHash(c)
  <2>1. CallsType'
    BY <1>4, GotoType DEF AtAwait, StartHash, At, Placing
  <2>2. FilesType'
    BY <1>4 DEF StartHash, local, history, TypeOK, FilesType
  <2>3. QED BY <2>1, <2>2 DEF TypeOK
<1>5. CASE HashWindow(c)
  BY <1>5, HashWindowType
<1>6. CASE HashAnswered(c)
  BY <1>6, HashAnsweredType
<1>7. CASE Place(c)
  BY <1>7, PlaceType
<1>8. CASE RenameUnchecked(c)
  <2>1. call[c].pc \in Placing
    BY <1>8 DEF RenameUnchecked, At, Placing
  <2>2. QED BY <1>8, <2>1, RenameType, RefuseType DEF RenameUnchecked
<1>9. CASE Unlink(c)
  <2>1. CallsType'
    BY <1>9, GotoType DEF AtAwait, Unlink, Placing, At
  <2>2. FilesType'
    BY <1>9, RemoveType DEF Unlink, history, TypeOK, FilesType
  <2>3. QED BY <2>1, <2>2 DEF TypeOK
<1>10. CASE Report(c)
  <2>1. CallsType'
    BY <1>10, GotoType DEF AtAwait, Report, Placing
  <2>2. FilesType'
    BY <1>10 DEF Report, local, history, TypeOK, FilesType
  <2>3. QED BY <2>1, <2>2 DEF TypeOK
<1>11. CASE Fails(c)
  BY <1>11, EndType DEF Fails, history
<1>12. CASE Cancel(c)
  BY <1>12, EndType DEF Cancel, history
<1>13. CASE Crash(c)
  <2>1. CallsType'
    BY <1>13, GotoType DEF AtAwait, Crash, Placing
  <2>2. FilesType'
    BY <1>13 DEF Crash, local, TypeOK, FilesType
  <2>3. QED BY <2>1, <2>2 DEF TypeOK
<1>14. QED
  BY <1>1, <1>2, <1>3, <1>4, <1>5, <1>6, <1>7, <1>8, <1>9, <1>10, <1>11, <1>12, <1>13
  DEF Acts, Progress, Trouble

(* Every step of somebody else.                                            *)
Elsewhere == AppendToSource \/ RewriteSource \/ ForeignWrite \/ HourPasses

LEMMA ElsewhereType ==
  ASSUME TypeOK, Elsewhere \/ UNCHANGED vars
  PROVE  TypeOK'
<1>1. CallsType'
  <2>1. call' = call
    BY DEF Elsewhere, AppendToSource, RewriteSource, ForeignWrite, HourPasses, Change, vars
  <2>2. QED BY <2>1 DEF TypeOK, CallsType, Checked
<1> SUFFICES FilesType'
  BY <1>1 DEF TypeOK
<1>2. ASSUME NEW file \in Files, Change(file), rewrites' \in 0 .. MaxRewrites PROVE FilesType'
  BY <1>2 DEF Change, local, TypeOK, FilesType
<1>3. CASE AppendToSource
  <2>1. ASSUME NEW w \in Windows PROVE Append(source, w) \in Files
    BY <1>3, AppendIsFile DEF AppendToSource, TypeOK, FilesType
  <2>2. QED BY <1>2, <1>3, <2>1 DEF AppendToSource, TypeOK, FilesType
<1>4. CASE RewriteSource
  <2>1. rewrites' \in 0 .. MaxRewrites
    BY <1>4, DownloadFilesAssumption DEF RewriteSource, TypeOK, FilesType
  <2>2. QED BY <1>2, <1>4, <2>1 DEF RewriteSource
<1>5. CASE ForeignWrite
  BY <1>5 DEF ForeignWrite, history, TypeOK, FilesType
<1>6. CASE HourPasses
  BY <1>6 DEF HourPasses, history, TypeOK, FilesType
<1>7. CASE UNCHANGED vars
  BY <1>7 DEF vars, local, history, TypeOK, FilesType
<1>8. QED BY <1>1, <1>3, <1>4, <1>5, <1>6, <1>7 DEF Elsewhere

-----------------------------------------------------------------------------
(* The inductive invariant, one call at a time.                            *)

(* The temp file holds what the call read, unless the cleanup of another   *)
(* call took it; a call changed the target exactly when it is beyond its   *)
(* placement, and says so in its record.                                   *)
CallInv(c) ==
  /\ At(c, "read") => call[c].seen = <<>>
  /\ call[c].pc \in AtAwait \cup {"place", "rename", "unlink"} =>
       temp[c] \in {call[c].got, Absent}
  /\ At(c, "idle") => temp[c] = Absent
  /\ call[c].pc \in AtAwait \cup {"idle", "place", "rename"} => c \notin placed
  /\ call[c].pc \in {"unlink", "placed"} => c \in placed
  /\ c \in placed => Len(call[c].got) = call[c].size
  /\ call[c].pc # "over" => audit[c] = "none"
  /\ audit[c] = "downloaded" => c \in placed
  /\ audit[c] \in {"failed", "cancelled"} => c \notin placed
  /\ call[c].pc \in {"placed", "over"} /\ temp[c] # Absent => c \in excused
  /\ At(c, "rename") => c \in Unlinkable

DownloadInv == TypeOK /\ \A c \in Calls : CallInv(c)

(* Nothing of call c changes, but its temp file may be taken away.         *)
Same(c) ==
  /\ temp'[c] \in {temp[c], Absent} /\ call'[c] = call[c] /\ audit'[c] = audit[c]
  /\ c \in placed' <=> c \in placed
  /\ temp'[c] # Absent /\ c \in excused => c \in excused'

LEMMA SameInv ==
  ASSUME NEW c \in Calls, CallInv(c), Same(c)
  PROVE  CallInv(c)'
  BY DEF CallInv, Same, At

(* A step of one call leaves the others alone.                             *)
LEMMA OtherCalls ==
  ASSUME TypeOK, NEW c \in Calls, NEW d \in Calls, d # c, Acts(c)
  PROVE  Same(d)
<1>1. ASSUME NEW status, End(c, status), UNCHANGED placed PROVE Same(d)
  BY <1>1 DEF End, Remove, Goto, Same, TypeOK, CallsType, FilesType
<1>2. CASE Confirm(c)
  BY <1>2 DEF Confirm, Sweep, Same, TypeOK, CallsType, FilesType
<1>3. CASE ReadWindow(c)
  BY <1>3 DEF ReadWindow, history, Same, TypeOK, CallsType, FilesType
<1>4. CASE SourceIsShort(c) \/ Fails(c) \/ Cancel(c)
  BY <1>1, <1>4 DEF SourceIsShort, Fails, Cancel, history
<1>5. CASE StartHash(c) \/ HashWindow(c)
  BY <1>5 DEF StartHash, HashWindow, Goto, local, history, Same, TypeOK, CallsType, FilesType
<1>6. CASE HashAnswered(c)
  BY <1>1, <1>6 DEF HashAnswered, history, Same, TypeOK, CallsType, FilesType
<1>7. ASSUME Rename(c) \/ Link(c) PROVE Same(d)
  BY <1>7 DEF Rename, Link, Goto, Same, TypeOK, CallsType, FilesType
<1>8. CASE Place(c)
  BY <1>1, <1>7, <1>8
  DEF Place, FallBack, Refuse, Goto, local, history, Same, TypeOK, CallsType, FilesType
<1>9. CASE RenameUnchecked(c)
  BY <1>1, <1>7, <1>9 DEF RenameUnchecked, Refuse, history
<1>10. CASE Unlink(c) \/ Report(c) \/ Crash(c)
  BY <1>10 DEF Unlink, Remove, Report, Crash, Goto, local, history, Same, TypeOK, CallsType, FilesType
<1>11. QED
  BY <1>2, <1>3, <1>4, <1>5, <1>6, <1>8, <1>9, <1>10 DEF Acts, Progress, Trouble

-----------------------------------------------------------------------------
(* The steps of a call keep its invariant.                                 *)

LEMMA GotoSelf ==
  ASSUME TypeOK, NEW c \in Calls, NEW pc, Goto(c, pc)
  PROVE  /\ call'[c].pc = pc /\ call'[c].size = call[c].size
         /\ call'[c].got = call[c].got /\ call'[c].seen = call[c].seen
         /\ call'[c].vouched = call[c].vouched
  BY DEF Goto, TypeOK, CallsType, Call

LEMMA EndInv ==
  ASSUME TypeOK, NEW c \in Calls, NEW status \in {"failed", "cancelled"}, End(c, status),
         c \notin placed, placed' = placed
  PROVE  CallInv(c)'
<1>1. /\ call'[c].pc = "over" /\ audit'[c] = status /\ c \notin placed'
      /\ temp'[c] # Absent => c \in excused'
  BY GotoSelf DEF End, Remove, TypeOK, FilesType
<1>2. QED BY <1>1 DEF CallInv, At, AtAwait

LEMMA RenameInv ==
  ASSUME TypeOK, NEW c \in Calls, call[c].pc \in Placing, audit[c] = "none", Rename(c)
  PROVE  CallInv(c)'
<1>1. /\ call'[c].pc = "placed" /\ temp'[c] = Absent /\ audit'[c] = "none" /\ c \in placed'
      /\ Len(call'[c].got) = call'[c].size
  BY GotoSelf DEF Rename, TypeOK, CallsType, FilesType, Checked
<1>2. QED BY <1>1 DEF CallInv, At, AtAwait

LEMMA ActsInv ==
  ASSUME TypeOK, NEW c \in Calls, CallInv(c), Acts(c)
  PROVE  CallInv(c)'
<1>e. ASSUME NEW status \in {"failed", "cancelled"}, End(c, status), placed' = placed,
             call[c].pc \in AtAwait \cup {"place", "rename"}
      PROVE  CallInv(c)'
  BY <1>e, EndInv DEF CallInv
<1>1. CASE Confirm(c)
  <2>1. call[c] = Idle /\ call'[c].pc = "read" /\ call'[c].seen = <<>> /\ call'[c].got = <<>>
    BY <1>1 DEF Confirm, At, TypeOK, CallsType, Checked, Idle, Call
  <2>2. temp'[c] = <<>> /\ audit' = audit /\ placed' = placed
    BY <1>1 DEF Confirm, Sweep
  <2>3. c \notin placed /\ audit[c] = "none"
    BY <2>1 DEF CallInv, Idle
  <2>4. QED BY <2>1, <2>2, <2>3 DEF CallInv, At, AtAwait
<1>2. CASE ReadWindow(c)
  <2>1. At(c, "read") /\ temp[c] \in {call[c].got, Absent} /\ c \notin placed /\ audit[c] = "none"
    BY <1>2 DEF ReadWindow, CallInv, At, AtAwait
  <2>2. /\ call'[c].pc = "read" /\ call'[c].seen = call[c].seen
        /\ temp'[c] \in {call'[c].got, Absent}
    BY <1>2, <2>1 DEF ReadWindow, At, TypeOK, CallsType, FilesType, Call
  <2>3. audit' = audit /\ placed' = placed
    BY <1>2 DEF ReadWindow
  <2>4. QED BY <2>1, <2>2, <2>3 DEF CallInv, At, AtAwait
<1>3. CASE SourceIsShort(c)
  BY <1>3, <1>e DEF SourceIsShort
<1>4. CASE StartHash(c)
  <2>1. /\ At(c, "read") /\ temp[c] \in {call[c].got, Absent} /\ c \notin placed
        /\ audit[c] = "none"
    BY <1>4 DEF StartHash, CallInv, At, AtAwait
  <2>2. call'[c].pc = "hash" /\ call'[c].got = call[c].got
    BY <1>4, GotoSelf DEF StartHash
  <2>3. QED BY <1>4, <2>1, <2>2 DEF StartHash, local, CallInv, At, AtAwait
<1>5. CASE HashWindow(c)
  <2>1. /\ At(c, "hash") /\ temp[c] \in {call[c].got, Absent} /\ c \notin placed
        /\ audit[c] = "none"
    BY <1>5 DEF HashWindow, CallInv, At, AtAwait
  <2>2. call'[c].pc = "hash" /\ call'[c].got = call[c].got
    BY <1>5, <2>1 DEF HashWindow, At, TypeOK, CallsType, Call
  <2>3. QED BY <1>5, <2>1, <2>2 DEF HashWindow, local, CallInv, At, AtAwait
<1>6. CASE HashAnswered(c)
  <2>1. /\ At(c, "hash") /\ temp[c] \in {call[c].got, Absent} /\ c \notin placed
        /\ audit[c] = "none"
    BY <1>6 DEF HashAnswered, CallInv, At, AtAwait
  <2>2. CASE End(c, "failed")
    BY <1>6, <1>e, <2>1, <2>2 DEF HashAnswered, At, AtAwait
  <2>3. CASE /\ call' = [call EXCEPT ![c].pc = "place", ![c].vouched = call[c].seen]
             /\ UNCHANGED <<audit, temp, stale, excused>>
    <3>1. call'[c].pc = "place" /\ call'[c].got = call[c].got
      BY <2>3 DEF TypeOK, CallsType, Call
    <3>2. QED BY <1>6, <2>1, <2>3, <3>1 DEF HashAnswered, CallInv, At, AtAwait
  <2>4. QED BY <1>6, <2>2, <2>3 DEF HashAnswered
<1>7. CASE Place(c)
  <2>1. /\ At(c, "place") /\ temp[c] \in {call[c].got, Absent} /\ c \notin placed
        /\ audit[c] = "none" /\ Len(call[c].got) = call[c].size
    BY <1>7 DEF Place, CallInv, At, Placing, TypeOK, CallsType, Checked
  <2>2. CASE Refuse(c)
    BY <1>e, <2>1, <2>2 DEF Refuse, At
  <2>3. CASE Rename(c)
    BY <2>1, <2>3, RenameInv DEF At, Placing
  <2>4. CASE Link(c)
    <3>1. /\ call'[c].pc = "unlink" /\ call'[c].got = call[c].got
          /\ call'[c].size = call[c].size
      BY <2>4, GotoSelf DEF Link
    <3>2. temp' = temp /\ audit' = audit /\ c \in placed'
      BY <2>4 DEF Link
    <3>3. QED BY <2>1, <3>1, <3>2 DEF CallInv, At, AtAwait
  <2>5. CASE c \in Unlinkable /\ FallBack(c)
    <3>1. call'[c].pc = "rename" /\ call'[c].got = call[c].got
      BY <2>5, GotoSelf DEF FallBack
    <3>2. QED BY <2>1, <2>5, <3>1 DEF FallBack, local, CallInv, At, AtAwait
  <2>6. QED BY <1>7, <2>2, <2>3, <2>4, <2>5 DEF Place
<1>8. CASE RenameUnchecked(c)
  <2>1. call[c].pc = "rename" /\ audit[c] = "none"
    BY <1>8 DEF RenameUnchecked, CallInv, At
  <2>2. CASE Rename(c)
    BY <2>1, <2>2, RenameInv DEF Placing
  <2>3. CASE Refuse(c)
    BY <1>e, <2>1, <2>3 DEF Refuse
  <2>4. QED BY <1>8, <2>2, <2>3 DEF RenameUnchecked
<1>9. CASE Unlink(c)
  <2>1. /\ call'[c].pc = "placed" /\ call'[c].got = call[c].got /\ call'[c].size = call[c].size
        /\ temp'[c] # Absent => c \in excused'
        /\ audit' = audit /\ placed' = placed
    BY <1>9, GotoSelf DEF Unlink, Remove, TypeOK, FilesType
  <2>2. c \in placed /\ audit[c] = "none" /\ Len(call[c].got) = call[c].size
    BY <1>9 DEF Unlink, At, CallInv
  <2>3. QED BY <2>1, <2>2 DEF CallInv, At, AtAwait
<1>10. CASE Report(c)
  <2>1. /\ call'[c].pc = "over" /\ call'[c].got = call[c].got /\ call'[c].size = call[c].size
        /\ temp' = temp /\ excused' = excused /\ audit'[c] = "downloaded" /\ placed' = placed
    BY <1>10, GotoSelf DEF Report, local, TypeOK, FilesType
  <2>2. /\ c \in placed /\ (temp[c] # Absent => c \in excused)
        /\ Len(call[c].got) = call[c].size
    BY <1>10 DEF Report, At, CallInv
  <2>3. QED BY <2>1, <2>2 DEF CallInv, At, AtAwait
<1>11. CASE Fails(c)
  BY <1>11, <1>e DEF Fails
<1>12. CASE Cancel(c)
  BY <1>12, <1>e DEF Cancel
<1>13. CASE Crash(c)
  <2>1. /\ call'[c].pc = "over" /\ call'[c].got = call[c].got /\ call'[c].size = call[c].size
        /\ c \in excused' /\ audit' = audit /\ placed' = placed
    BY <1>13, GotoSelf DEF Crash
  <2>2. audit[c] = "none"
    BY <1>13 DEF Crash, CallInv, AtAwait, Placing
  <2>3. QED BY <2>1, <2>2 DEF CallInv, At, AtAwait
<1>14. QED
  BY <1>1, <1>2, <1>3, <1>4, <1>5, <1>6, <1>7, <1>8, <1>9, <1>10, <1>11, <1>12, <1>13
  DEF Acts, Progress, Trouble

LEMMA DownloadInitially == Init => DownloadInv
<1>1. ASSUME Init, NEW c \in Calls PROVE CallInv(c)
  BY <1>1 DEF Init, Idle, CallInv, At, AtAwait
<1>2. QED BY <1>1, TypeInitially DEF DownloadInv

LEMMA DownloadStep == DownloadInv /\ [Next]_vars => DownloadInv'
<1> SUFFICES ASSUME DownloadInv, [Next]_vars PROVE DownloadInv'
  OBVIOUS
<1>1. TypeOK /\ \A c \in Calls : CallInv(c)
  BY DEF DownloadInv
<1>2. ASSUME NEW c \in Calls, Acts(c) PROVE DownloadInv'
  <2>1. TypeOK'
    BY <1>1, <1>2, ActsType DEF CallInv, At, AtAwait
  <2>2. ASSUME NEW d \in Calls PROVE CallInv(d)'
    BY <1>1, <1>2, ActsInv, OtherCalls, SameInv
  <2>3. QED BY <2>1, <2>2 DEF DownloadInv
<1>3. CASE Elsewhere \/ UNCHANGED vars
  <2>1. TypeOK'
    BY <1>1, <1>3, ElsewhereType
  <2>2. ASSUME NEW d \in Calls PROVE CallInv(d)'
    <3>1. Same(d)
      BY <1>3 DEF Elsewhere, AppendToSource, RewriteSource, ForeignWrite, HourPasses, Change,
                  vars, local, history, Same
    <3>2. QED BY <1>1, <3>1, SameInv
  <2>3. QED BY <2>1, <2>2 DEF DownloadInv
<1>4. QED BY <1>2, <1>3 DEF Next, Acts, Elsewhere

(* The invariant holds in every reachable state.                           *)
THEOREM DownloadInvariant == Spec => []DownloadInv
  BY DownloadInitially, DownloadStep, PTL DEF Spec

(* Type correctness of download_file in every reachable state: it reads no *)
(* more than the scanned size and goes on to place only what both passes   *)
(* have seen.                                                              *)
THEOREM DownloadTypeCorrect == Spec => []TypeOK
<1>1. DownloadInv => TypeOK
  BY DEF DownloadInv
<1>2. QED BY <1>1, DownloadInvariant, PTL

(* Only the death of a server or a removal that the operating system       *)
(* refused leaves a local temp file behind, until the next call that is    *)
(* confirmed an hour later sweeps it or is refused too.                    *)
THEOREM NoLeftover == Spec => []LeftoversExcused
<1>1. DownloadInv => LeftoversExcused
  BY DEF DownloadInv, CallInv, LeftoversExcused, At
<1>2. QED BY <1>1, DownloadInvariant, PTL

-----------------------------------------------------------------------------
(* A download implements FilePlacement.                                    *)

Verdicts == {"open", "placed", "untouched", "unknown"}

LEMMA VerdictType ==
  ASSUME TypeOK, NEW c \in Calls
  PROVE  /\ Verdict(c) \in Verdicts
         /\ Verdict(c) = "open" <=> audit[c] = "none"
         /\ Verdict(c) = "placed" <=> audit[c] = "downloaded"
  BY DEF TypeOK, FilesType, Verdict, Verdicts

LEMMA PlacementInitially == Init => Placement!Init
<1> SUFFICES ASSUME Init PROVE Placement!Init
  OBVIOUS
<1>1. \A c \in Calls : call[c].vouched = Absent /\ Verdict(c) = "open"
  BY DEF Init, Idle, Verdict
<1>2. QED BY <1>1 DEF Init, Placement!Init

(* A step that changes neither the target nor what a call says.            *)
LEMMA Unseen ==
  ASSUME target' = target, placed' = placed, audit' = audit,
         \A c \in Calls : call'[c].vouched = call[c].vouched
  PROVE  UNCHANGED Placement!vars
<1>1. [c \in Calls |-> Verdict(c)]' = [c \in Calls |-> Verdict(c)]
  BY DEF Verdict
<1>2. [c \in Calls |-> call[c].vouched]' = [c \in Calls |-> call[c].vouched]
  OBVIOUS
<1>3. QED BY <1>1, <1>2 DEF Placement!vars

(* A record is a true report.                                              *)
LEMMA ReportStep ==
  ASSUME TypeOK, NEW c \in Calls, audit[c] = "none",
         NEW status \in {"downloaded", "failed", "cancelled"},
         audit' = [audit EXCEPT ![c] = status], target' = target, placed' = placed,
         \A d \in Calls : call'[d].vouched = call[d].vouched,
         status = "downloaded" <=> c \in placed
  PROVE  Placement!Report
<1> DEFINE told == [d \in Calls |-> Verdict(d)']
<1>1. /\ audit'[c] = status
      /\ \A d \in Calls : d # c => audit'[d] = audit[d]
  BY DEF TypeOK, FilesType
<1>2. \A d \in Calls : d # c => Verdict(d)' = Verdict(d)
  BY <1>1 DEF Verdict
<1>3. Verdict(c)' = IF status = "downloaded" THEN "placed" ELSE "untouched"
  BY <1>1 DEF Verdict
<1>4. Verdict(c) = "open"
  BY VerdictType
<1>5. \A d \in Calls : Verdict(d) \in Verdicts
  BY VerdictType
<1>6. told \in [Calls -> Verdicts]
  BY <1>2, <1>3, <1>5 DEF Verdicts
<1>7. \A d \in Calls :
        /\ Verdict(d) # "open" => told[d] = Verdict(d)
        /\ Verdict(d) = "open" /\ told[d] = "placed" => d \in placed
        /\ Verdict(d) = "open" /\ told[d] = "untouched" => d \notin placed
  BY <1>2, <1>3, <1>4
<1>8. [d \in Calls |-> call[d].vouched]' = [d \in Calls |-> call[d].vouched]
  OBVIOUS
<1>9. QED BY <1>6, <1>7, <1>8 DEF Placement!Report, Verdicts

LEMMA PlaceStep ==
  ASSUME DownloadInv, NEW c \in Calls, call[c].pc \in {"place", "rename"},
         temp[c] # Absent, c \in Replacing \cup Unlinkable \/ target = Absent,
         target' = temp[c], placed' = placed \cup {c}, audit' = audit,
         \A d \in Calls : call'[d].vouched = call[d].vouched
  PROVE  Placement!Next
<1>1. TypeOK /\ CallInv(c)
  BY DEF DownloadInv
<1>2. c \notin placed /\ temp[c] = call[c].got /\ audit[c] = "none"
  BY <1>1 DEF CallInv
<1>3. call[c].vouched = call[c].got
  BY <1>1 DEF TypeOK, CallsType, Checked, Placing
<1>4. Verdict(c) = "open"
  BY <1>1, <1>2, VerdictType
<1>5. [d \in Calls |-> Verdict(d)]' = [d \in Calls |-> Verdict(d)]
  BY DEF Verdict
<1>6. [d \in Calls |-> call[d].vouched]' = [d \in Calls |-> call[d].vouched]
  OBVIOUS
<1>7. Placement!Place(c)
  BY <1>2, <1>3, <1>4, <1>5, <1>6 DEF Placement!Place
<1>8. QED BY <1>7 DEF Placement!Next

LEMMA Promised ==
  ASSUME NEW c \in Calls, NEW content, call'[c].vouched = content,
         \A d \in Calls : d # c => call'[d] = call[d]
  PROVE  [d \in Calls |-> call[d].vouched]'
           = [[d \in Calls |-> call[d].vouched] EXCEPT ![c] = content]
  OBVIOUS

(* The digests match: the content is promised.                             *)
LEMMA PromiseStep ==
  ASSUME TypeOK, NEW c \in Calls, At(c, "hash"), audit[c] = "none",
         call' = [call EXCEPT ![c].pc = "place", ![c].vouched = call[c].seen],
         UNCHANGED <<target, placed, audit>>
  PROVE  Placement!Next
<1>1. call[c].vouched = Absent /\ call[c].seen \in Files
  BY DEF TypeOK, CallsType, Checked, Call, At, AtAwait
<1>2. Verdict(c) = "open"
  BY VerdictType
<1>3. /\ call'[c].vouched = call[c].seen
      /\ \A d \in Calls : d # c => call'[d] = call[d]
  BY DEF TypeOK, CallsType, Call
<1>4. [d \in Calls |-> call[d].vouched]'
        = [[d \in Calls |-> call[d].vouched] EXCEPT ![c] = call[c].seen]
  BY <1>3, Promised
<1>5. [d \in Calls |-> Verdict(d)]' = [d \in Calls |-> Verdict(d)]
  BY DEF Verdict
<1>6. Placement!Promise(c)
  BY <1>1, <1>2, <1>4, <1>5 DEF Placement!Promise
<1>7. QED BY <1>6 DEF Placement!Next

LEMMA PlacementStep ==
  ASSUME DownloadInv, [Next]_vars
  PROVE  [Placement!Next]_(Placement!vars)
<1>t. TypeOK /\ \A c \in Calls : CallInv(c)
  BY DEF DownloadInv
<1>g. ASSUME NEW c \in Calls, NEW pc, Goto(c, pc)
      PROVE  \A d \in Calls : call'[d].vouched = call[d].vouched
  BY <1>t, <1>g DEF Goto, TypeOK, CallsType, Call
<1>s. ASSUME NEW c \in Calls, NEW windows,
             \/ call' = [call EXCEPT ![c].got = windows]
             \/ call' = [call EXCEPT ![c].seen = windows]
      PROVE  \A d \in Calls : call'[d].vouched = call[d].vouched
  BY <1>t, <1>s DEF TypeOK, CallsType, Call
<1>e. ASSUME NEW c \in Calls, NEW status \in {"failed", "cancelled"}, End(c, status),
             target' = target, placed' = placed, call[c].pc \in AtAwait \cup {"place", "rename"}
      PROVE  Placement!Next
  <2>1. audit[c] = "none" /\ c \notin placed
    BY <1>t, <1>e DEF CallInv, AtAwait
  <2>2. \A d \in Calls : call'[d].vouched = call[d].vouched
    BY <1>e, <1>g DEF End
  <2>3. Placement!Report
    BY <1>t, <1>e, <2>1, <2>2, ReportStep DEF End
  <2>4. QED BY <2>3 DEF Placement!Next
<1>1. CASE UNCHANGED vars
  BY <1>1, Unseen DEF vars, local
<1>2. CASE AppendToSource \/ RewriteSource \/ HourPasses
  BY <1>2, Unseen DEF AppendToSource, RewriteSource, HourPasses, Change, local
<1>3. CASE ForeignWrite
  <2>1. [d \in Calls |-> Verdict(d)]' = [d \in Calls |-> Verdict(d)]
    BY <1>3 DEF ForeignWrite, Verdict
  <2>2. [d \in Calls |-> call[d].vouched]' = [d \in Calls |-> call[d].vouched]
    BY <1>3 DEF ForeignWrite
  <2>3. Placement!Elsewhere
    BY <1>3, <2>1, <2>2 DEF ForeignWrite, Placement!Elsewhere
  <2>4. QED BY <2>3 DEF Placement!Next
<1>4. ASSUME NEW c \in Calls, Acts(c) PROVE [Placement!Next]_(Placement!vars)
  <2>1. CASE Confirm(c)
    <3>1. \A d \in Calls : call'[d].vouched = call[d].vouched
      BY <1>t, <2>1 DEF Confirm, TypeOK, CallsType, Call
    <3>2. QED BY <2>1, <3>1, Unseen DEF Confirm
  <2>2. CASE ReadWindow(c) \/ HashWindow(c)
    <3>1. CASE ReadWindow(c)
      <4>1. call' = [call EXCEPT ![c].got = Append(call[c].got, source[Len(call[c].got) + 1])]
        BY <3>1 DEF ReadWindow
      <4>2. \A d \in Calls : call'[d].vouched = call[d].vouched
        BY <1>s, <4>1
      <4>3. QED BY <3>1, <4>2, Unseen DEF ReadWindow
    <3>2. CASE HashWindow(c)
      <4>1. call' = [call EXCEPT ![c].seen = Append(call[c].seen, source[Len(call[c].seen) + 1])]
        BY <3>2 DEF HashWindow
      <4>2. \A d \in Calls : call'[d].vouched = call[d].vouched
        BY <1>s, <4>1
      <4>3. QED BY <3>2, <4>2, Unseen DEF HashWindow, local
    <3>3. QED BY <2>2, <3>1, <3>2
  <2>3. CASE SourceIsShort(c) \/ Fails(c) \/ Cancel(c)
    BY <1>e, <2>3 DEF SourceIsShort, Fails, Cancel
  <2>4. CASE StartHash(c) \/ Unlink(c) \/ Crash(c)
    <3>1. \A d \in Calls : call'[d].vouched = call[d].vouched
      BY <1>g, <2>4 DEF StartHash, Unlink, Crash
    <3>2. QED BY <2>4, <3>1, Unseen DEF StartHash, Unlink, Crash, local
  <2>5. CASE HashAnswered(c)
    <3>1. At(c, "hash") /\ audit[c] = "none" /\ target' = target /\ placed' = placed
      BY <1>t, <2>5 DEF HashAnswered, CallInv, At
    <3>2. CASE End(c, "failed")
      BY <1>e, <3>1, <3>2 DEF At, AtAwait
    <3>3. CASE /\ call' = [call EXCEPT ![c].pc = "place", ![c].vouched = call[c].seen]
               /\ UNCHANGED <<audit, temp, stale, excused>>
      BY <1>t, <3>1, <3>3, PromiseStep
    <3>4. QED BY <2>5, <3>2, <3>3 DEF HashAnswered
  <2>6. CASE Place(c)
    <3>1. At(c, "place")
      BY <2>6 DEF Place
    <3>2. CASE Refuse(c)
      BY <1>e, <3>1, <3>2 DEF Refuse, At
    <3>3. CASE temp[c] # Absent /\ c \in Replacing /\ Rename(c)
      BY <1>g, <3>1, <3>3, PlaceStep DEF Rename, At
    <3>4. CASE temp[c] # Absent /\ target = Absent /\ Link(c)
      BY <1>g, <3>1, <3>4, PlaceStep DEF Link, At
    <3>5. CASE FallBack(c)
      <4>1. \A d \in Calls : call'[d].vouched = call[d].vouched
        BY <1>g, <3>5 DEF FallBack
      <4>2. QED BY <3>5, <4>1, Unseen DEF FallBack, local
    <3>6. QED BY <2>6, <3>2, <3>3, <3>4, <3>5 DEF Place
  <2>7. CASE RenameUnchecked(c)
    <3>1. At(c, "rename") /\ c \in Unlinkable
      BY <1>t, <2>7 DEF RenameUnchecked, CallInv
    <3>2. CASE Refuse(c)
      BY <1>e, <3>1, <3>2 DEF Refuse, At
    <3>3. CASE temp[c] # Absent /\ Rename(c)
      BY <1>g, <3>1, <3>3, PlaceStep DEF Rename, At
    <3>4. QED BY <2>7, <3>2, <3>3 DEF RenameUnchecked
  <2>8. CASE Report(c)
    <3>1. audit[c] = "none" /\ c \in placed
      BY <1>t, <2>8 DEF Report, CallInv, At
    <3>2. \A d \in Calls : call'[d].vouched = call[d].vouched
      BY <1>g, <2>8 DEF Report
    <3>3. Placement!Report
      BY <1>t, <2>8, <3>1, <3>2, ReportStep DEF Report, local
    <3>4. QED BY <3>3 DEF Placement!Next
  <2>9. QED
    BY <1>4, <2>1, <2>2, <2>3, <2>4, <2>5, <2>6, <2>7, <2>8 DEF Acts, Progress, Trouble
<1>5. QED BY <1>1, <1>2, <1>3, <1>4 DEF Next, Acts

(* TR-XFER-02: download_file implements FilePlacement, for every number of *)
(* calls: the target changes at most once per call, to the content of both *)
(* passes, the record is true, and a file that was not to be replaced is   *)
(* replaced only by the rename of a file system without hard links.        *)
THEOREM DownloadsAreWhole == Spec => PlacementSpec
<1>1. DownloadInv /\ [Next]_vars => [Placement!Next]_(Placement!vars)
  BY PlacementStep
<1>2. QED BY <1>1, PlacementInitially, DownloadInvariant, PTL
          DEF Spec, PlacementSpec, Placement!Spec

-----------------------------------------------------------------------------
(* No torn content.                                                        *)

PrefixOf(file, whole) == \A i \in 1 .. Len(file) : i <= Len(whole) /\ whole[i] = file[i]

(* One of these versions of the source begins like this file.              *)
Whole(file, vs) == \E v \in vs : PrefixOf(file, v)

(* A rewrite while the call reads is over before the hash pass begins, so  *)
(* the hash pass sees one version; a rewrite during the hash pass came     *)
(* after the call had read one version.                                    *)
TornInv(c) ==
  /\ ~At(c, "idle") => source \in versions
  /\ At(c, "read") /\ rewrites = 0 => PrefixOf(call[c].got, source)
  /\ At(c, "hash") /\ rewrites <= 1 =>
       Whole(call[c].got, versions) \/ (rewrites = 1 /\ PrefixOf(call[c].seen, source))
  /\ (call[c].pc \in Placing \/ c \in placed) /\ rewrites <= 1 =>
       Whole(call[c].got, versions)

ContentInv == DownloadInv /\ \A c \in Calls : TornInv(c)

LEMMA EmptyPrefix == \A whole : PrefixOf(<<>>, whole)
<1>1. 1 .. Len(<<>>) = {}
  OBVIOUS
<1>2. QED BY <1>1 DEF PrefixOf

LEMMA LongerPrefix ==
  ASSUME NEW file \in Files, NEW whole \in Files, PrefixOf(file, whole),
         Len(file) + 1 <= Len(whole)
  PROVE  PrefixOf(Append(file, whole[Len(file) + 1]), whole)
<1>1. file \in Seq(Windows) /\ whole \in Seq(Windows) /\ Len(file) \in Nat /\ Len(whole) \in Nat
  BY FilesAreSequences
<1>2. Len(file) < MaxWindows /\ whole[Len(file) + 1] \in Windows
  BY <1>1, FilesAreSequences, WindowOfFile, DownloadFilesAssumption
<1> DEFINE longer == Append(file, whole[Len(file) + 1])
<1>3. /\ Len(longer) = Len(file) + 1 /\ longer[Len(file) + 1] = whole[Len(file) + 1]
      /\ \A i \in 1 .. Len(file) : longer[i] = file[i]
  BY <1>2, AppendIsFile
<1> HIDE DEF longer
<1>4. ASSUME NEW i \in 1 .. Len(longer) PROVE i <= Len(whole) /\ whole[i] = longer[i]
  <2>1. CASE i = Len(file) + 1
    BY <1>3, <2>1
  <2>2. CASE i \in 1 .. Len(file)
    BY <1>3, <2>2 DEF PrefixOf
  <2>3. QED BY <1>1, <1>3, <2>1, <2>2
<1>5. QED BY <1>4 DEF PrefixOf, longer

LEMMA LongerWhole ==
  ASSUME NEW file \in Files, NEW whole \in Files, NEW w \in Windows,
         Len(whole) < MaxWindows, PrefixOf(file, whole)
  PROVE  PrefixOf(file, Append(whole, w))
<1>1. Len(file) \in Nat /\ Len(whole) \in Nat
  BY FilesAreSequences
<1>2. /\ Len(Append(whole, w)) = Len(whole) + 1
      /\ \A i \in 1 .. Len(whole) : Append(whole, w)[i] = whole[i]
  BY AppendIsFile
<1> HIDE DEF PrefixOf
<1>3. ASSUME NEW i \in 1 .. Len(file)
      PROVE  i <= Len(Append(whole, w)) /\ Append(whole, w)[i] = file[i]
  <2>1. i <= Len(whole) /\ whole[i] = file[i]
    BY DEF PrefixOf
  <2>2. i \in 1 .. Len(whole)
    BY <1>1, <2>1
  <2>3. QED BY <1>1, <1>2, <2>1, <2>2
<1>4. QED BY <1>3 DEF PrefixOf

(* More versions never hurt.                                               *)
LEMMA WholeStays ==
  ASSUME NEW file, NEW vs, NEW us, Whole(file, vs), vs \subseteq us
  PROVE  Whole(file, us)
  BY DEF Whole

(* A step of another call.                                                 *)
LEMMA OtherTorn ==
  ASSUME NEW c \in Calls, TornInv(c), call'[c] = call[c], c \in placed' <=> c \in placed,
         source' = source, rewrites' = rewrites, versions \subseteq versions'
  PROVE  TornInv(c)'
<1>1. Whole(call[c].got, versions) => Whole(call'[c].got, versions')
  BY WholeStays
<1>2. QED BY <1>1 DEF TornInv, At, PrefixOf

(* A step of a call that is not about to read or to hash.                  *)
LEMMA MovedTorn ==
  ASSUME NEW c \in Calls, TornInv(c), ~At(c, "idle"),
         call'[c].pc \in Placing \cup {"over"}, call'[c].got = call[c].got,
         call'[c].pc \in Placing \/ c \in placed' =>
           call[c].pc \in Placing \/ c \in placed,
         source' = source, rewrites' = rewrites, versions' = versions
  PROVE  TornInv(c)'
<1>1. Whole(call[c].got, versions) => Whole(call'[c].got, versions')
  BY WholeStays
<1>2. source' \in versions'
  BY DEF TornInv
<1>3. QED BY <1>1, <1>2 DEF TornInv, At, Placing

LEMMA ActsTorn ==
  ASSUME DownloadInv, NEW c \in Calls, TornInv(c), Acts(c)
  PROVE  TornInv(c)'
<1>t. TypeOK /\ CallInv(c)
  BY DEF DownloadInv
<1>q. /\ call[c] \in Call /\ call[c].got \in Files /\ call[c].seen \in Files /\ source \in Files
  BY <1>t DEF TypeOK, CallsType, FilesType, Call
<1>e. ASSUME NEW status, End(c, status), UNCHANGED <<source, placed, versions, rewrites>>,
             ~At(c, "idle")
      PROVE  TornInv(c)'
  <2>1. call'[c].pc = "over" /\ call'[c].got = call[c].got
    BY <1>t, <1>e, GotoSelf DEF End
  <2>2. QED BY <1>e, <2>1, MovedTorn DEF Placing
<1>1. CASE Confirm(c)
  <2>1. call[c] = Idle /\ c \notin placed
    BY <1>t, <1>1 DEF Confirm, At, TypeOK, CallsType, Checked, CallInv
  <2>2. call'[c].pc = "read" /\ call'[c].got = <<>>
    BY <1>1, <1>t, <2>1 DEF Confirm, At, TypeOK, CallsType, Idle, Call
  <2>3. source' \in versions' /\ c \notin placed'
    BY <1>1, <2>1 DEF Confirm
  <2>4. QED BY <2>2, <2>3, EmptyPrefix DEF TornInv, At, Placing
<1>2. CASE ReadWindow(c)
  <2>1. /\ At(c, "read") /\ c \notin placed /\ Len(call[c].got) + 1 <= Len(source)
        /\ UNCHANGED <<source, placed, versions, rewrites>>
    BY <1>2, <1>t DEF ReadWindow, CallInv, At, AtAwait, history
  <2>2. call'[c].pc = "read" /\ call'[c].got = Append(call[c].got, source[Len(call[c].got) + 1])
    BY <1>2, <1>q, <1>t, <2>1 DEF ReadWindow, At, TypeOK, CallsType, Call
  <2>3. rewrites = 0 => PrefixOf(call'[c].got, source)
    BY <1>q, <2>1, <2>2, LongerPrefix DEF TornInv
  <2>4. rewrites' = 0 => PrefixOf(call'[c].got, source')
    BY <2>1, <2>3
  <2>5. source' \in versions'
    BY <2>1 DEF TornInv, At
  <2>6. QED BY <2>1, <2>2, <2>4, <2>5 DEF TornInv, At, Placing
<1>3. CASE SourceIsShort(c) \/ Fails(c) \/ Cancel(c)
  BY <1>3, <1>e DEF SourceIsShort, Fails, Cancel, history, At, AtAwait
<1>4. CASE StartHash(c)
  <2>1. /\ At(c, "read") /\ c \notin placed /\ call[c].seen = <<>>
        /\ UNCHANGED <<source, placed, versions, rewrites>>
    BY <1>4, <1>t DEF StartHash, CallInv, At, AtAwait, local, history
  <2>2. call'[c].pc = "hash" /\ call'[c].got = call[c].got /\ call'[c].seen = <<>>
    BY <1>4, <1>t, <2>1, GotoSelf DEF StartHash
  <2>3. source' \in versions'
    BY <2>1 DEF TornInv, At
  <2>4. rewrites' <= 1 => Whole(call'[c].got, versions') \/ (rewrites' = 1 /\ PrefixOf(<<>>, source'))
    <3>1. CASE rewrites = 0
      BY <2>1, <2>2, <2>3, <3>1 DEF TornInv, Whole
    <3>2. CASE rewrites = 1
      BY <2>1, <3>2, EmptyPrefix
    <3>3. rewrites \in Nat
      BY <1>t, DownloadFilesAssumption DEF TypeOK, FilesType
    <3>4. QED BY <2>1, <3>1, <3>2, <3>3
  <2>5. QED BY <2>1, <2>2, <2>3, <2>4 DEF TornInv, At, Placing
<1>5. CASE HashWindow(c)
  <2>1. /\ At(c, "hash") /\ c \notin placed /\ Len(call[c].seen) + 1 <= Len(source)
        /\ UNCHANGED <<source, placed, versions, rewrites>>
    BY <1>5, <1>t DEF HashWindow, CallInv, At, AtAwait, local, history
  <2>2. /\ call'[c].pc = "hash" /\ call'[c].got = call[c].got
        /\ call'[c].seen = Append(call[c].seen, source[Len(call[c].seen) + 1])
    BY <1>5, <1>q, <1>t, <2>1 DEF HashWindow, At, TypeOK, CallsType, Call
  <2>3. PrefixOf(call[c].seen, source) => PrefixOf(call'[c].seen, source)
    BY <1>q, <2>1, <2>2, LongerPrefix
  <2>4. Whole(call[c].got, versions) => Whole(call'[c].got, versions')
    BY <2>1, <2>2
  <2>5. source' \in versions'
    BY <2>1 DEF TornInv, At
  <2>6. rewrites' <= 1 =>
          Whole(call'[c].got, versions') \/ (rewrites' = 1 /\ PrefixOf(call'[c].seen, source'))
    BY <2>1, <2>2, <2>3, <2>4 DEF TornInv
  <2>7. QED BY <2>1, <2>2, <2>5, <2>6 DEF TornInv, At, Placing
<1>6. CASE HashAnswered(c)
  <2>1. At(c, "hash") /\ c \notin placed /\ UNCHANGED <<source, placed, versions, rewrites>>
    BY <1>6, <1>t DEF HashAnswered, CallInv, At, AtAwait, history
  <2>2. CASE End(c, "failed")
    BY <1>e, <2>1, <2>2 DEF At
  <2>3. CASE /\ call[c].seen = call[c].got
             /\ call' = [call EXCEPT ![c].pc = "place", ![c].vouched = call[c].seen]
    <3>1. call'[c].pc = "place" /\ call'[c].got = call[c].got
      BY <1>q, <1>t, <2>3 DEF TypeOK, CallsType, Call
    <3>2. source \in versions
      BY <2>1 DEF TornInv, At
    <3>3. rewrites <= 1 => Whole(call[c].got, versions)
      BY <2>1, <2>3, <3>2 DEF TornInv, Whole
    <3>4. rewrites' <= 1 => Whole(call'[c].got, versions')
      BY <2>1, <3>1, <3>3
    <3>5. source' \in versions'
      BY <2>1, <3>2
    <3>6. QED BY <3>1, <3>4, <3>5 DEF TornInv, At, Placing
  <2>4. QED BY <1>6, <2>2, <2>3 DEF HashAnswered
<1>7. ASSUME NEW pc \in Placing \cup {"over"}, Goto(c, pc), call[c].pc \in Placing,
             UNCHANGED <<source, versions, rewrites>>
      PROVE  TornInv(c)'
  <2>1. call'[c].pc = pc /\ call'[c].got = call[c].got
    BY <1>t, <1>7, GotoSelf
  <2>2. QED BY <1>7, <2>1, MovedTorn DEF At, Placing
<1>8. CASE Place(c)
  <2>1. call[c].pc \in Placing /\ UNCHANGED <<source, versions, rewrites>>
    BY <1>8 DEF Place, At, Placing, history
  <2>2. CASE Refuse(c)
    BY <1>e, <2>1, <2>2 DEF Refuse, At, Placing
  <2>3. CASE Goto(c, "placed") \/ Goto(c, "unlink") \/ Goto(c, "rename")
    BY <1>7, <2>1, <2>3 DEF Placing
  <2>4. QED BY <1>8, <2>2, <2>3 DEF Place, Rename, Link, FallBack
<1>9. CASE RenameUnchecked(c)
  <2>1. call[c].pc \in Placing /\ UNCHANGED <<source, versions, rewrites>>
    BY <1>9 DEF RenameUnchecked, At, Placing, history
  <2>2. CASE Refuse(c)
    BY <1>e, <2>1, <2>2 DEF Refuse, At, Placing
  <2>3. CASE Goto(c, "placed")
    BY <1>7, <2>1, <2>3 DEF Placing
  <2>4. QED BY <1>9, <2>2, <2>3 DEF RenameUnchecked, Rename
<1>10. CASE Unlink(c) \/ Report(c)
  BY <1>7, <1>10 DEF Unlink, Report, At, Placing, history
<1>11. CASE Crash(c)
  <2>1. call'[c].pc = "over" /\ call'[c].got = call[c].got
    BY <1>t, <1>11, GotoSelf DEF Crash
  <2>2. QED BY <1>11, <2>1, MovedTorn DEF Crash, local, At, AtAwait, Placing
<1>12. QED
  BY <1>1, <1>2, <1>3, <1>4, <1>5, <1>6, <1>8, <1>9, <1>10, <1>11 DEF Acts, Progress, Trouble

(* A step that leaves the calls alone but may change the source.           *)
LEMMA ElsewhereTorn ==
  ASSUME TypeOK, NEW c \in Calls, TornInv(c), Elsewhere
  PROVE  TornInv(c)'
<1>1. CASE ForeignWrite \/ HourPasses
  BY <1>1, OtherTorn DEF ForeignWrite, HourPasses, history
<1>2. CASE AppendToSource \/ RewriteSource
  <2>1. call' = call /\ placed' = placed
    BY <1>2 DEF AppendToSource, RewriteSource, Change, local
  <2>2. /\ versions \subseteq versions'
        /\ ~At(c, "idle") => source \in versions /\ source' \in versions'
    BY <1>2 DEF AppendToSource, RewriteSource, Change, TornInv
  <2>3. Whole(call[c].got, versions) => Whole(call'[c].got, versions')
    BY <2>1, <2>2, WholeStays
  <2>4. call[c].got \in Files /\ call[c].seen \in Files /\ source \in Files /\ rewrites \in Nat
    BY DownloadFilesAssumption DEF TypeOK, CallsType, FilesType, Call
  <2>5. CASE AppendToSource
    <3>1. PICK w \in Windows : source' = Append(source, w)
      BY <2>5 DEF AppendToSource, Change
    <3>2. ASSUME NEW file \in Files, PrefixOf(file, source) PROVE PrefixOf(file, source')
      BY <2>4, <2>5, <3>1, <3>2, LongerWhole DEF AppendToSource
    <3>3. rewrites' = rewrites
      BY <2>5 DEF AppendToSource
    <3>4. At(c, "read") /\ rewrites' = 0 => PrefixOf(call'[c].got, source')
      BY <2>1, <2>4, <3>2, <3>3 DEF TornInv
    <3>5. At(c, "hash") /\ rewrites' <= 1 =>
            \/ Whole(call'[c].got, versions')
            \/ rewrites' = 1 /\ PrefixOf(call'[c].seen, source')
      BY <2>1, <2>3, <2>4, <3>2, <3>3 DEF TornInv
    <3>6. (call[c].pc \in Placing \/ c \in placed) /\ rewrites' <= 1 =>
            Whole(call'[c].got, versions')
      BY <2>3, <3>3 DEF TornInv
    <3>7. QED BY <2>1, <2>2, <3>4, <3>5, <3>6 DEF TornInv, At
  <2>6. CASE RewriteSource
    <3>1. rewrites' = rewrites + 1
      BY <2>6 DEF RewriteSource
    <3>2. rewrites' # 0 /\ (rewrites' <= 1 => rewrites = 0)
      BY <2>4, <3>1
    <3>3. At(c, "hash") /\ rewrites' <= 1 => Whole(call'[c].got, versions')
      BY <2>3, <3>2 DEF TornInv
    <3>4. (call[c].pc \in Placing \/ c \in placed) /\ rewrites' <= 1 =>
            Whole(call'[c].got, versions')
      BY <2>3, <3>2 DEF TornInv
    <3>5. QED BY <2>1, <2>2, <3>2, <3>3, <3>4 DEF TornInv, At
  <2>7. QED BY <1>2, <2>5, <2>6
<1>3. QED BY <1>1, <1>2 DEF Elsewhere

LEMMA ContentStep == ContentInv /\ [Next]_vars => ContentInv'
<1> SUFFICES ASSUME ContentInv, [Next]_vars PROVE ContentInv'
  OBVIOUS
<1>1. DownloadInv /\ DownloadInv' /\ TypeOK /\ \A c \in Calls : TornInv(c)
  BY DownloadStep DEF ContentInv, DownloadInv
<1>2. ASSUME NEW d \in Calls PROVE TornInv(d)'
  <2>1. CASE UNCHANGED vars
    BY <1>1, <2>1, OtherTorn DEF vars, local, history
  <2>2. CASE Elsewhere
    BY <1>1, <2>2, ElsewhereTorn
  <2>3. ASSUME NEW c \in Calls, Acts(c) PROVE TornInv(d)'
    <3>1. CASE c = d
      BY <1>1, <2>3, <3>1, ActsTorn
    <3>2. CASE c # d
      <4>1. call'[d] = call[d] /\ (d \in placed' <=> d \in placed)
        BY <1>1, <2>3, <3>2, OtherCalls DEF Same
      <4>2. CASE Confirm(c)
        <5>1. source' = source /\ rewrites' = rewrites /\ versions \subseteq versions'
          BY <4>2 DEF Confirm
        <5>2. QED BY <1>1, <4>1, <5>1, OtherTorn
      <4>3. CASE Progress(c) \/ Trouble(c)
        <5>1. source' = source /\ rewrites' = rewrites /\ versions' = versions
          BY <4>3 DEF Progress, Trouble, ReadWindow, SourceIsShort, StartHash, HashWindow,
                      HashAnswered, Place, RenameUnchecked, Unlink, Report, Fails, Cancel,
                      Crash, history
        <5>2. QED BY <1>1, <4>1, <5>1, OtherTorn
      <4>4. QED BY <2>3, <4>2, <4>3 DEF Acts
    <3>3. QED BY <3>1, <3>2
  <2>4. QED BY <2>1, <2>2, <2>3 DEF Next, Acts, Elsewhere
<1>3. QED BY <1>1, <1>2 DEF ContentInv

(* The hash pass: a source that grows, or that is rewritten once at any    *)
(* moment, is never placed as a mixture of two of its versions, whatever   *)
(* the size of the file.                                                   *)
THEOREM NothingTorn == Spec => []NoTornContent
<1>1. Init => ContentInv
  <2>1. ASSUME Init, NEW c \in Calls PROVE TornInv(c)
    BY <2>1 DEF Init, Idle, TornInv, At, Placing
  <2>2. QED BY <2>1, DownloadInitially DEF ContentInv
<1>2. ContentInv => NoTornContent
  <2> SUFFICES ASSUME ContentInv, NEW c \in placed, rewrites <= 1
               PROVE  \E v \in versions : \A i \in 1 .. call[c].size :
                        i <= Len(v) /\ v[i] = call[c].got[i]
    BY DEF NoTornContent
  <2>1. c \in Calls
    BY DEF ContentInv, DownloadInv, TypeOK, FilesType
  <2>2. Len(call[c].got) = call[c].size
    BY <2>1 DEF ContentInv, DownloadInv, CallInv
  <2>3. Whole(call[c].got, versions)
    BY <2>1 DEF ContentInv, TornInv
  <2>4. QED BY <2>2, <2>3 DEF Whole, PrefixOf
<1>3. QED BY <1>1, <1>2, ContentStep, PTL DEF Spec

-----------------------------------------------------------------------------
(* A call goes forward only.                                               *)

(* The windows that are left to the copy and to the hash pass, and the     *)
(* local steps after them.                                                 *)
StepsLeft(c) ==
  LET q == call[c]
  IN CASE q.pc = "idle" -> 2 * MaxWindows + 6
       [] q.pc = "read" -> (q.size - Len(q.got)) + (q.size - Len(q.seen)) + 5
       [] q.pc = "hash" -> (q.size - Len(q.seen)) + 4
       [] q.pc = "place" -> 3
       [] q.pc \in {"rename", "unlink"} -> 2
       [] q.pc = "placed" -> 1
       [] q.pc = "over" -> 0

(* Every step of a call brings it nearer to its end.                       *)
EachStepCounts ==
  /\ [](\A c \in Calls : StepsLeft(c) \in 0 .. 2 * MaxWindows + 6)
  /\ [][\A c \in Calls : call'[c] # call[c] => StepsLeft(c)' < StepsLeft(c)]_vars

LEMMA SizesLeft ==
  ASSUME TypeOK, NEW c \in Calls
  PROVE  /\ call[c] \in Call /\ MaxWindows \in Nat /\ call[c].size \in 0 .. MaxWindows
         /\ Len(call[c].got) \in 0 .. call[c].size /\ Len(call[c].seen) \in 0 .. call[c].size
<1>1. call[c] \in Call /\ Checked(call[c])
  BY DEF TypeOK, CallsType
<1>2. call[c].got \in Seq(Windows) /\ call[c].seen \in Seq(Windows) /\ call[c].size \in 0 .. MaxWindows
  BY <1>1, FilesAreSequences DEF Call
<1>3. Len(call[c].got) \in Nat /\ Len(call[c].seen) \in Nat
  BY <1>2
<1>4. Len(call[c].got) <= call[c].size /\ Len(call[c].seen) <= call[c].size
  BY <1>1 DEF Checked
<1>5. QED BY <1>1, <1>2, <1>3, <1>4, DownloadFilesAssumption

LEMMA StepsLeftType ==
  ASSUME TypeOK, NEW c \in Calls
  PROVE  /\ StepsLeft(c) \in 0 .. 2 * MaxWindows + 6
         /\ call[c].pc \in AtAwait => StepsLeft(c) >= 4
         /\ call[c].pc \in {"place", "rename"} => StepsLeft(c) >= 2
         /\ call[c].pc # "over" => StepsLeft(c) >= 1
<1> DEFINE size == call[c].size
           got == Len(call[c].got)
           seen == Len(call[c].seen)
<1>1. /\ MaxWindows \in Nat /\ size \in 0 .. MaxWindows /\ got \in 0 .. size /\ seen \in 0 .. size
      /\ call[c].pc \in {"read", "hash", "place", "rename", "unlink", "placed", "idle", "over"}
  BY SizesLeft DEF Call, AtAwait, Placing
<1>2. StepsLeft(c) =
        CASE call[c].pc = "idle" -> 2 * MaxWindows + 6
          [] call[c].pc = "read" -> (size - got) + (size - seen) + 5
          [] call[c].pc = "hash" -> (size - seen) + 4
          [] call[c].pc = "place" -> 3
          [] call[c].pc \in {"rename", "unlink"} -> 2
          [] call[c].pc = "placed" -> 1
          [] call[c].pc = "over" -> 0
  BY DEF StepsLeft
<1> HIDE DEF size, got, seen
<1>3. QED BY <1>1, <1>2 DEF AtAwait

LEMMA ActsForward ==
  ASSUME TypeOK, NEW c \in Calls, Acts(c)
  PROVE  StepsLeft(c)' < StepsLeft(c)
<1>1. /\ call \in [Calls -> Call] /\ Checked(call[c])
      /\ StepsLeft(c) \in 0 .. 2 * MaxWindows + 6
      /\ call[c].pc \in AtAwait => StepsLeft(c) >= 4
      /\ call[c].pc \in {"place", "rename"} => StepsLeft(c) >= 2
      /\ call[c].pc # "over" => StepsLeft(c) >= 1
  BY StepsLeftType DEF TypeOK, CallsType
<1>2. ASSUME NEW status, End(c, status), call[c].pc \in AtAwait \cup {"place", "rename"}
      PROVE  StepsLeft(c)' < StepsLeft(c)
  <2>1. call'[c].pc = "over"
    BY <1>2, GotoSelf DEF End
  <2>2. StepsLeft(c) >= 2
    BY <1>1, <1>2
  <2>3. StepsLeft(c)' = 0
    BY <2>1 DEF StepsLeft
  <2>4. QED BY <1>1, <2>2, <2>3
<1>3. CASE Confirm(c)
  <2>1. call[c].pc = "idle" /\ call[c] = Idle
    BY <1>1, <1>3 DEF Confirm, At, Checked
  <2>2. call'[c] = [call[c] EXCEPT !.pc = "read", !.size = Len(source)]
    BY <1>1, <1>3 DEF Confirm
  <2>3. /\ call'[c].pc = "read" /\ call'[c].size = Len(source)
        /\ call'[c].got = <<>> /\ call'[c].seen = <<>>
    BY <2>1, <2>2 DEF Idle
  <2>4. Len(source) \in Nat /\ Len(source) <= MaxWindows /\ Len(<<>>) = 0 /\ MaxWindows \in Nat
    BY FilesAreSequences, EmptyIsFile, DownloadFilesAssumption DEF TypeOK, FilesType
  <2>5. StepsLeft(c)' = (Len(source) - 0) + (Len(source) - 0) + 5
    BY <2>3, <2>4 DEF StepsLeft
  <2>6. StepsLeft(c) = 2 * MaxWindows + 6
    BY <2>1 DEF StepsLeft
  <2> DEFINE n == Len(source)
  <2>7. n \in Nat /\ n <= MaxWindows /\ StepsLeft(c)' = (n - 0) + (n - 0) + 5
    BY <2>4, <2>5
  <2> HIDE DEF n
  <2>8. QED BY <2>4, <2>6, <2>7
<1>4. ASSUME NEW pc \in {"read", "hash"}, call[c].pc = pc,
             NEW i \in 0 .. 1, NEW j \in 0 .. 1, i + j = 1, pc = "hash" => i = 0,
             call'[c].pc = pc, call'[c].size = call[c].size,
             Len(call'[c].got) = Len(call[c].got) + i, Len(call'[c].seen) = Len(call[c].seen) + j
      PROVE  StepsLeft(c)' < StepsLeft(c)
  <2> DEFINE size == call[c].size
             got == Len(call[c].got)
             seen == Len(call[c].seen)
  <2>1. /\ StepsLeft(c) = IF pc = "read" THEN (size - got) + (size - seen) + 5 ELSE (size - seen) + 4
        /\ StepsLeft(c)' = IF pc = "read" THEN (size - (got + i)) + (size - (seen + j)) + 5
                           ELSE (size - (seen + j)) + 4
    BY <1>4 DEF StepsLeft
  <2>2. size \in Nat /\ got \in Nat /\ seen \in Nat
    BY SizesLeft
  <2> HIDE DEF size, got, seen
  <2>3. QED BY <1>4, <2>1, <2>2
<1>5. CASE ReadWindow(c)
  <2> DEFINE w == source[Len(call[c].got) + 1]
  <2>1. call'[c] = [call[c] EXCEPT !.got = Append(call[c].got, w)] /\ call[c].pc = "read"
    BY <1>1, <1>5 DEF ReadWindow, At, Call
  <2>2. call[c].got \in Seq(Windows) /\ w \in Windows /\ call[c].got \in Files
    <3>1. Len(call[c].got) + 1 \in 1 .. Len(source)
      BY <1>5, SizesLeft, FilesAreSequences DEF ReadWindow, TypeOK, FilesType
    <3>2. QED BY <1>1, <3>1, WindowOfFile, FilesAreSequences DEF TypeOK, FilesType, Call
  <2>3. Len(Append(call[c].got, w)) = Len(call[c].got) + 1
    BY <2>2
  <2> HIDE DEF w
  <2>4. /\ call'[c].pc = "read" /\ call'[c].size = call[c].size /\ call'[c].seen = call[c].seen
        /\ call'[c].got = Append(call[c].got, w)
    BY <1>1, <2>1 DEF Call
  <2>5. Len(call[c].seen) + 0 = Len(call[c].seen)
    BY SizesLeft
  <2>6. QED BY <1>4, <2>1, <2>3, <2>4, <2>5
<1>6. CASE HashWindow(c)
  <2> DEFINE w == source[Len(call[c].seen) + 1]
  <2>1. call'[c] = [call[c] EXCEPT !.seen = Append(call[c].seen, w)] /\ call[c].pc = "hash"
    BY <1>1, <1>6 DEF HashWindow, At, Call
  <2>2. call[c].seen \in Seq(Windows) /\ w \in Windows
    <3>1. Len(call[c].seen) + 1 \in 1 .. Len(source)
      BY <1>6, SizesLeft, FilesAreSequences DEF HashWindow, TypeOK, FilesType
    <3>2. QED BY <1>1, <3>1, WindowOfFile, FilesAreSequences DEF TypeOK, FilesType, Call
  <2>3. Len(Append(call[c].seen, w)) = Len(call[c].seen) + 1
    BY <2>2
  <2> HIDE DEF w
  <2>4. /\ call'[c].pc = "hash" /\ call'[c].size = call[c].size /\ call'[c].got = call[c].got
        /\ call'[c].seen = Append(call[c].seen, w)
    BY <1>1, <2>1 DEF Call
  <2>5. Len(call[c].got) + 0 = Len(call[c].got)
    BY SizesLeft
  <2>6. QED BY <1>4, <2>1, <2>3, <2>4, <2>5
<1>7. CASE StartHash(c)
  <2> DEFINE size == call[c].size
             got == Len(call[c].got)
             seen == Len(call[c].seen)
  <2>1. /\ StepsLeft(c) = (size - got) + (size - seen) + 5 /\ StepsLeft(c)' = (size - seen) + 4
        /\ got = size
    BY <1>7, GotoSelf DEF StartHash, At, StepsLeft
  <2>2. size \in Nat /\ got \in Nat /\ seen \in Nat
    BY SizesLeft
  <2> HIDE DEF size, got, seen
  <2>3. QED BY <2>1, <2>2
<1>8. CASE HashAnswered(c)
  <2>1. CASE \E status : End(c, status)
    BY <1>2, <1>8, <2>1 DEF HashAnswered, At, AtAwait
  <2>2. CASE call' = [call EXCEPT ![c].pc = "place", ![c].vouched = call[c].seen]
    <3>1. call'[c].pc = "place"
      BY <1>1, <2>2 DEF Call
    <3>2. StepsLeft(c)' = 3
      BY <3>1 DEF StepsLeft
    <3>3. QED BY <1>1, <1>8, <3>2 DEF HashAnswered, At, AtAwait
  <2>3. QED BY <1>8, <2>1, <2>2 DEF HashAnswered
<1>9. CASE Place(c) \/ RenameUnchecked(c) \/ Unlink(c) \/ Report(c)
  <2>1. CASE Refuse(c) /\ (Place(c) \/ RenameUnchecked(c))
    BY <1>2, <2>1 DEF Place, RenameUnchecked, Refuse, At
  <2>2. CASE ~(Refuse(c) /\ (Place(c) \/ RenameUnchecked(c)))
    <3>1. \/ call[c].pc = "place" /\ call'[c].pc \in {"rename", "unlink", "placed"}
          \/ call[c].pc \in {"rename", "unlink"} /\ call'[c].pc = "placed"
          \/ call[c].pc = "placed" /\ call'[c].pc = "over"
      BY <1>9, <2>2, GotoSelf DEF Place, RenameUnchecked, Unlink, Report, At, Link, Rename, FallBack
    <3>2. QED BY <3>1 DEF StepsLeft
  <2>3. QED BY <2>1, <2>2
<1>10. CASE SourceIsShort(c) \/ Fails(c) \/ Cancel(c)
  BY <1>2, <1>10 DEF SourceIsShort, Fails, Cancel
<1>11. CASE Crash(c)
  <2>1. call'[c].pc = "over" /\ call[c].pc \in AtAwait \cup Placing
    BY <1>11, GotoSelf DEF Crash
  <2>2. StepsLeft(c)' = 0
    BY <2>1 DEF StepsLeft
  <2>3. StepsLeft(c) >= 1
    BY <1>1, <2>1 DEF AtAwait, Placing
  <2>4. QED BY <1>1, <2>2, <2>3
<1>12. QED
  BY <1>3, <1>5, <1>6, <1>7, <1>8, <1>9, <1>10, <1>11 DEF Acts, Progress, Trouble

(* copy_and_hash and the placement (server.rs): a source that grows or is  *)
(* rewritten, for however long, never makes a call read more than twice    *)
(* the scanned size, and no step is taken twice.                           *)
THEOREM DownloadsGoForward == Spec => EachStepCounts
<1>1. TypeOK => \A c \in Calls : StepsLeft(c) \in 0 .. 2 * MaxWindows + 6
  BY StepsLeftType
<1>2. TypeOK /\ [Next]_vars =>
        [\A c \in Calls : call'[c] # call[c] => StepsLeft(c)' < StepsLeft(c)]_vars
  <2> SUFFICES ASSUME TypeOK, Next, NEW d \in Calls, call'[d] # call[d]
               PROVE  StepsLeft(d)' < StepsLeft(d)
    OBVIOUS
  <2>1. PICK c \in Calls : Acts(c)
    BY DEF Next, Acts, AppendToSource, RewriteSource, ForeignWrite, HourPasses, Change
  <2>2. c = d
    BY <2>1, OtherCalls DEF Same
  <2>3. QED BY <2>1, <2>2, ActsForward
<1>3. QED BY <1>1, <1>2, DownloadTypeCorrect, PTL DEF Spec, EachStepCounts

=============================================================================
