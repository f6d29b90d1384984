-------------------------- MODULE DownloadTransfer --------------------------
(***************************************************************************)
(* The download of a host file into the transfer directory (download_file  *)
(* in src/src/server.rs, with the host commands of src/src/ps.rs): the     *)
(* server copies the scanned length window by window into a temp file, a   *)
(* second host pass hashes the same length, and equal digests let the      *)
(* server place the file.                                                  *)
(*                                                                         *)
(* A file is the sequence of its windows, and a host command reads one     *)
(* window at a time from a file that another program holds open.  The      *)
(* local steps after the hash pass have no await: a client cannot cancel   *)
(* them, but other processes of the same user and the death of the server  *)
(* come between them.                                                      *)
(***************************************************************************)
EXTENDS Integers, Sequences, FiniteSets

CONSTANTS
  Calls,        \* downloads of one host file to one local target
  Replacing,    \* the calls with overwrite = true
  Windows,      \* contents of one window, told apart by equality only
  MaxWindows,   \* bound: windows of a file
  Absent,       \* no file, or no digest
  Foreign,      \* a target content that no download yields
  Unlinkable,   \* the calls on a file system without hard links
  MaxRewrites   \* bound: changes of the source that are no appends

Files == UNION {[1 .. n -> Windows] : n \in 0 .. MaxWindows}

ASSUME DownloadCallsAssumption ==
  IsFiniteSet(Calls) /\ Replacing \subseteq Calls /\ Unlinkable \subseteq Calls

ASSUME DownloadFilesAssumption ==
  /\ MaxWindows \in Nat /\ MaxRewrites \in Nat
  /\ Absent \notin Files /\ Foreign \notin Files /\ Absent # Foreign

VARIABLES
  source,     \* the file on the host
  target,     \* the local target
  temp,       \* the temp file of each call, under its random name
  stale,      \* calls whose temp file was not written for an hour
  call,       \* the tool call of the server
  audit,      \* the audit record of each call
  placed,     \* history: calls that changed the target
  crashed,    \* history: calls that ended with the death of the server
  excused,    \* history: calls whose temp file was left by such a death or
              \* by a removal that failed, and not swept since
  versions,   \* history: what the source has been since a call confirmed it
  rewrites    \* changes of the source that are no appends, for the bound

local == <<target, temp, stale, placed, excused>>

history == <<crashed, versions>>

vars == <<source, local, call, audit, history, rewrites>>

-----------------------------------------------------------------------------

Idle == [pc |-> "idle", size |-> 0, got |-> <<>>, seen |-> <<>>, vouched |-> Absent]

AtAwait == {"read", "hash"}

Placing == {"place", "rename", "unlink", "placed"}

Call == [pc : AtAwait \cup Placing \cup {"idle", "over"}, size : 0 .. MaxWindows,
         got : Files, seen : Files, vouched : Files \cup {Absent}]

(* A call reads and hashes no more than the scanned size, and goes on to   *)
(* place only what both passes have seen.                                  *)
Checked(q) ==
  /\ q.pc = "idle" => q = Idle
  /\ Len(q.got) <= q.size /\ Len(q.seen) <= q.size
  /\ q.pc \in AtAwait => q.vouched = Absent
  /\ q.pc \in Placing => Len(q.got) = q.size /\ q.seen = q.got /\ q.vouched = q.got
  /\ q.vouched \in {q.seen, Absent}

CallsType == call \in [Calls -> Call] /\ \A c \in Calls : Checked(call[c])

FilesType ==
  /\ source \in Files
  /\ target \in Files \cup {Absent, Foreign}
  /\ temp \in [Calls -> Files \cup {Absent}]
  /\ stale \subseteq Calls
  /\ audit \in [Calls -> {"none", "downloaded", "failed", "cancelled"}]
  /\ placed \subseteq Calls /\ crashed \subseteq Calls /\ excused \subseteq Calls
  /\ versions \subseteq Files
  /\ rewrites \in 0 .. MaxRewrites

(* Type correctness.  Nothing longer than the scanned size is read, and    *)
(* only a finished hash pass with an equal digest leads to a placement.    *)
TypeOK == CallsType /\ FilesType

Init ==
  /\ source \in Files
  /\ target \in {Absent, Foreign}
  /\ temp = [c \in Calls |-> Absent]
  /\ stale = {}
  /\ call = [c \in Calls |-> Idle]
  /\ audit = [c \in Calls |-> "none"]
  /\ placed = {} /\ crashed = {} /\ excused = {} /\ versions = {}
  /\ rewrites = 0

-----------------------------------------------------------------------------
(* The tool call: steps between two awaits, then steps between two system  *)
(* calls.                                                                  *)

At(c, pc) == call[c].pc = pc

Goto(c, pc) == call' = [call EXCEPT ![c].pc = pc]

(* A removal is a best effort: a failure is ignored, or at most logged.    *)
Remove(c) ==
  \/ /\ temp' = [temp EXCEPT ![c] = Absent]
     /\ stale' = stale \ {c}
     /\ excused' = excused \ {c}
  \/ /\ temp[c] # Absent
     /\ excused' = excused \cup {c}
     /\ UNCHANGED <<temp, stale>>

(* Every way out but the placement closes and removes the temp file and    *)
(* writes the record.                                                      *)
End(c, status) ==
  /\ Goto(c, "over")
  /\ audit' = [audit EXCEPT ![c] = status]
  /\ Remove(c)

(* A changed form: nothing is swept.                                       *)
SweepNothing(c, kept) ==
  /\ temp' = [temp EXCEPT ![c] = <<>>]
  /\ stale' = kept
  /\ excused' = (excused \ stale) \cup kept

(* clean_stale_parts: the temp files that nobody wrote for an hour are     *)
(* removed, all but those whose removal fails, and a new one is created.   *)
Sweep(c, kept) ==
  /\ temp' = [d \in Calls |-> IF d = c THEN <<>>
                              ELSE IF d \in stale \ kept THEN Absent ELSE temp[d]]
  /\ stale' = kept
  /\ excused' = (excused \ stale) \cup kept

(* The scan reports the length and the user confirms it.                   *)
Confirm(c) ==
  /\ At(c, "idle")
  /\ c \in Replacing \/ target = Absent
  /\ call' = [call EXCEPT ![c].pc = "read", ![c].size = Len(source)]
  /\ \E kept \in SUBSET stale : Sweep(c, kept)
  /\ versions' = versions \cup {source}
  /\ UNCHANGED <<source, target, placed, audit, crashed, rewrites>>

(* One window command and its answer.  A write into a file that was        *)
(* removed meanwhile reaches nobody.                                       *)
ReadWindow(c) ==
  LET i == Len(call[c].got) + 1
  IN /\ At(c, "read")
     /\ i <= call[c].size
     /\ i <= Len(source)
     /\ call' = [call EXCEPT ![c].got = Append(@, source[i])]
     /\ temp' = [temp EXCEPT ![c] = IF @ = Absent THEN Absent ELSE Append(@, source[i])]
     /\ stale' = stale \ {c}
     /\ UNCHANGED <<source, target, placed, excused, audit, history, rewrites>>

(* A changed form: the end of the source goes unnoticed.                   *)
SourceIsShortLate(c) ==
  LET reached == IF At(c, "read") THEN call[c].got ELSE call[c].seen
  IN /\ call[c].pc \in AtAwait
     /\ Len(reached) < call[c].size
     /\ Len(reached) > Len(source)
     /\ End(c, "failed")
     /\ UNCHANGED <<source, target, placed, history, rewrites>>

(* The window or the hash pass meets the end of the source too early.      *)
SourceIsShort(c) ==
  LET reached == IF At(c, "read") THEN call[c].got ELSE call[c].seen
  IN /\ call[c].pc \in AtAwait
     /\ Len(reached) < call[c].size
     /\ Len(reached) >= Len(source)
     /\ End(c, "failed")
     /\ UNCHANGED <<source, target, placed, history, rewrites>>

(* A lost session, a transport error, a host error, a full local disk.     *)
Fails(c) ==
  /\ call[c].pc \in AtAwait \cup {"place", "rename"}
  /\ End(c, "failed")
  /\ UNCHANGED <<source, target, placed, history, rewrites>>

StartHash(c) ==
  /\ At(c, "read")
  /\ Len(call[c].got) = call[c].size
  /\ Goto(c, "hash")
  /\ UNCHANGED <<source, local, audit, history, rewrites>>

(* The host hashes exactly the scanned length, window after window.        *)
HashWindow(c) ==
  LET i == Len(call[c].seen) + 1
  IN /\ At(c, "hash")
     /\ i <= call[c].size
     /\ i <= Len(source)
     /\ call' = [call EXCEPT ![c].seen = Append(@, source[i])]
     /\ UNCHANGED <<source, local, audit, history, rewrites>>

(* A changed form: the digests are not compared.                           *)
HashUnchecked(c) ==
  /\ At(c, "hash")
  /\ Len(call[c].seen) = call[c].size
  /\ \/ /\ call' = [call EXCEPT ![c].pc = "place", ![c].vouched = call[c].seen]
        /\ UNCHANGED <<audit, temp, stale, excused>>
     \/ call[c].seen # call[c].got /\ End(c, "failed")
  /\ UNCHANGED <<source, target, placed, history, rewrites>>

(* The two digests must match.                                             *)
HashAnswered(c) ==
  /\ At(c, "hash")
  /\ Len(call[c].seen) = call[c].size
  /\ \/ /\ call[c].seen = call[c].got
        /\ call' = [call EXCEPT ![c].pc = "place", ![c].vouched = call[c].seen]
        /\ UNCHANGED <<audit, temp, stale, excused>>
     \/ call[c].seen # call[c].got /\ End(c, "failed")
  /\ UNCHANGED <<source, target, placed, history, rewrites>>

(* The temp file becomes the target under a second name.                   *)
Link(c) ==
  /\ target' = temp[c]
  /\ placed' = placed \cup {c}
  /\ Goto(c, "unlink")
  /\ UNCHANGED <<temp, stale, excused, audit>>

Rename(c) ==
  /\ target' = temp[c]
  /\ placed' = placed \cup {c}
  /\ temp' = [temp EXCEPT ![c] = Absent]
  /\ stale' = stale \ {c}
  /\ Goto(c, "placed")
  /\ UNCHANGED <<excused, audit>>

Refuse(c) == End(c, "failed") /\ UNCHANGED <<target, placed>>

(* Without hard links a target that is missing is looked for first.        *)
FallBack(c) == Goto(c, "rename") /\ UNCHANGED <<local, audit>>

(* A changed form: every placement is a rename.                            *)
PlaceByRename(c) ==
  /\ At(c, "place")
  /\ IF temp[c] = Absent THEN Refuse(c) ELSE Rename(c)
  /\ UNCHANGED <<source, history, rewrites>>

(* replace_transfer_file: a rename with overwrite, else a hard link, which *)
(* refuses an existing target.                                             *)
Place(c) ==
  /\ At(c, "place")
  /\ \/ temp[c] = Absent /\ Refuse(c)
     \/ temp[c] # Absent /\ c \in Replacing /\ Rename(c)
     \/ temp[c] # Absent /\ c \notin Replacing /\ target # Absent /\ Refuse(c)
     \/ /\ temp[c] # Absent /\ c \notin Replacing /\ target = Absent
        /\ IF c \in Unlinkable THEN FallBack(c) ELSE Link(c)
  /\ UNCHANGED <<source, history, rewrites>>

(* The rename of the fallback: a target that appeared since is replaced.   *)
RenameUnchecked(c) ==
  /\ At(c, "rename")
  /\ IF temp[c] # Absent THEN Rename(c) ELSE Refuse(c)
  /\ UNCHANGED <<source, history, rewrites>>

(* remove_temp_best_effort: whatever comes of it, the placement stands.    *)
Unlink(c) ==
  /\ At(c, "unlink")
  /\ Remove(c)
  /\ Goto(c, "placed")
  /\ UNCHANGED <<source, target, placed, audit, history, rewrites>>

Report(c) ==
  /\ At(c, "placed")
  /\ Goto(c, "over")
  /\ audit' = [audit EXCEPT ![c] = "downloaded"]
  /\ UNCHANGED <<source, local, history, rewrites>>



(* TransferGuard: the client drops the future at an await.                 *)
Cancel(c) ==
  /\ call[c].pc \in AtAwait
  /\ End(c, "cancelled")
  /\ UNCHANGED <<source, target, placed, history, rewrites>>

(* The server process of the call dies.                                    *)
Crash(c) ==
  /\ call[c].pc \in AtAwait \cup Placing
  /\ Goto(c, "over")
  /\ crashed' = crashed \cup {c} /\ excused' = excused \cup {c}
  /\ UNCHANGED <<source, target, temp, stale, placed, audit, versions, rewrites>>

-----------------------------------------------------------------------------
(* Everybody else.                                                         *)

Change(file) ==
  /\ source' = file
  /\ versions' = IF versions = {} THEN {} ELSE versions \cup {file}
  /\ UNCHANGED <<local, call, audit, crashed>>

(* The program that writes a log on the host.                              *)
AppendToSource ==
  /\ Len(source) < MaxWindows
  /\ \E w \in Windows : Change(Append(source, w))
  /\ UNCHANGED rewrites

RewriteSource ==
  /\ rewrites < MaxRewrites
  /\ rewrites' = rewrites + 1
  /\ \E file \in Files \ {source} : Change(file)

ForeignWrite ==
  /\ target' \in {Absent, Foreign} \ {target}
  /\ UNCHANGED <<source, temp, stale, placed, excused, call, audit, history, rewrites>>

(* A command of an hour: its temp file looks like one of a dead server.    *)
HourPasses ==
  /\ stale' = {c \in Calls : temp[c] # Absent}
  /\ stale' # stale
  /\ UNCHANGED <<source, target, temp, placed, excused, call, audit, history, rewrites>>

-----------------------------------------------------------------------------

Progress(c) ==
  \/ ReadWindow(c) \/ SourceIsShort(c) \/ StartHash(c) \/ HashWindow(c)
  \/ HashAnswered(c) \/ Place(c) \/ RenameUnchecked(c) \/ Unlink(c) \/ Report(c)

Trouble(c) == Fails(c) \/ Cancel(c) \/ Crash(c)

Next ==
  \/ \E c \in Calls : Confirm(c) \/ Progress(c) \/ Trouble(c)
  \/ AppendToSource \/ RewriteSource \/ ForeignWrite \/ HourPasses

Spec == Init /\ [][Next]_vars

(* The runtime goes on polling the future of a call that nobody dropped.   *)
FairSpec == Spec /\ \A c \in Calls : WF_vars(Progress(c))

-----------------------------------------------------------------------------

Verdict(c) ==
  CASE audit[c] = "none" -> "open"
    [] audit[c] = "downloaded" -> "placed"
    [] audit[c] \in {"failed", "cancelled"} -> "untouched"

Placement == INSTANCE FilePlacement WITH
  Replacing <- Replacing \cup Unlinkable,
  Contents <- Files \cup {Foreign},
  promised <- [c \in Calls |-> call[c].vouched],
  verdict <- [c \in Calls |-> Verdict(c)]

(* TR-XFER-02: whatever fails, is cancelled, dies or is removed as stale, a*)
(* call changes the target at most once, to exactly the content for which  *)
(* both digests vouch and never over a file that the user did not agree to *)
(* replace; the audit never calls a changed target untouched.  Without hard*)
(* links the rename may replace a target that appeared after the look, as  *)
(* the comment of place_without_replacing accepts.                         *)
PlacementSpec == Placement!Spec

(* The hash pass of copy_and_hash: a source that grows, or that is         *)
(* rewritten once while the call reads it, is never placed as a mixture of *)
(* what it was before and after.  (Two rewrites may slip through.)         *)
NoTornContent ==
  \A c \in placed : rewrites <= 1 =>
    \E v \in versions : \A i \in 1 .. call[c].size :
      i <= Len(v) /\ v[i] = call[c].got[i]

(* No partial file remains but one left by the death of a server or by a   *)
(* removal that the operating system refused; and such a file is swept by  *)
(* the next call that is confirmed an hour later, unless that is refused   *)
(* too.                                                                    *)
LeftoversExcused ==
  \A c \in Calls : At(c, "over") /\ temp[c] # Absent => c \in excused

(* Every confirmed call ends with an audit record, or with its server.     *)
EveryCallEnds ==
  \A c \in Calls :
    (call[c].pc \in AtAwait) ~> (audit[c] # "none" \/ c \in crashed)

=============================================================================
