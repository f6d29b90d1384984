---------------------------- MODULE StagedSteps ----------------------------
(***************************************************************************)
(* write_file and run_script (src/src/server.rs, src/src/session.rs, with  *)
(* the host commands of src/src/ps.rs): a plan of host commands, each one  *)
(* waited for, that sends a content in chunks into a temp file, then       *)
(* replaces the target with it or runs it, and removes it.                 *)
(*                                                                         *)
(* Nothing guards these calls: a client that goes away leaves the plan     *)
(* where it is, and a host process whose answer was lost goes on.          *)
(***************************************************************************)
EXTENDS Integers, Sequences, FiniteSets

CONSTANTS
  Writes,     \* write_file calls with one common target
  Encoded,    \* the writes with an encoding other than utf8
  Scripts,    \* run_script calls
  Chunks,     \* bound: chunks of a content
  Absent,     \* no file
  Foreign,    \* a target content that no call writes
  MaxLost,    \* bound: lost answers in one behaviour
  MaxTampers  \* bound: changes of a staging file by another program

Calls == Writes \cup Scripts

ASSUME StagedCallsAssumption ==
  IsFiniteSet(Calls) /\ Writes \cap Scripts = {} /\ Encoded \subseteq Writes

ASSUME StagedBoundsAssumption ==
  Chunks \in Nat \ {0} /\ MaxLost \in Nat /\ MaxTampers \in Nat

ASSUME AbsentAssumption ==
  Absent \notin Seq(Nat) /\ Absent \notin [by : Writes, chunks : Seq(Nat)]

VARIABLES
  temp,      \* the chunks in the temp file of each call; 0 is a foreign one
  second,    \* the chunks in the second temp file (.enc) of an encoded write
  target,    \* the target of the writes: the call and the chunks it placed
  staged,    \* the tool call of the server
  work,      \* the host process whose answer the call awaits
  orphans,   \* host processes whose answer nobody awaits
  placed,    \* history: calls that changed the target
  ran,       \* history: the calls whose script ran, with what ran
  losses,    \* history: calls that lost an answer or were dropped
  stuck,     \* history: writes with a temp file that was not removed, and
             \* nobody told
  tampers    \* changes of staging files, counted for the bound

disk == <<temp, second, target, placed, ran, stuck>>

vars == <<disk, staged, work, orphans, losses, tampers>>

-----------------------------------------------------------------------------

(* What the user confirmed, as the numbers of its chunks.                  *)
Plan == [i \in 1 .. Chunks |-> i]

Placed(c) == [by |-> c, chunks |-> Plan]

Idle == [pc |-> "idle", step |-> 0, reply |-> "none", staging |-> "none"]

NoWork == [kind |-> "none", step |-> 0, phase |-> "none"]

Process(kind, i) == [kind |-> kind, step |-> i, phase |-> "running"]

StagedAt(c, pc) == staged[c].pc = pc

Underway(c) == work[c].phase = "running"

Awaiting == {"chunk", "final", "cleanup"}

Call == [pc : Awaiting \cup {"idle", "over"}, step : 0 .. Chunks,
         reply : {"none", "written", "failed", "ran", "notrun", "unknown"},
         staging : {"none", "gone", "failed"}]

(* The step of a process is its chunk, or its statement.                   *)
StepNumbers == 0 .. Chunks + 2

Work == [kind : Awaiting \cup {"none"}, step : StepNumbers,
         phase : {"none", "running", "ok", "failed"}]

Orphans ==
  {p \in [call : Calls, kind : Awaiting, step : StepNumbers] : p.kind = "chunk" => p.step <= Chunks}

(* Type correctness.  A call awaits exactly the process of its own step.   *)
TypeOK ==
  /\ temp \in [Calls -> Seq(0 .. Chunks) \cup {Absent}]
  /\ second \in [Calls -> Seq(0 .. Chunks) \cup {Absent}]
  /\ staged \in [Calls -> Call]
  /\ work \in [Calls -> Work]
  /\ \A c \in Calls :
       /\ work[c].kind = IF staged[c].pc \in Awaiting THEN staged[c].pc ELSE "none"
       /\ work[c].kind = "chunk" => work[c].step = staged[c].step
  /\ orphans \subseteq Orphans
  /\ placed \subseteq Writes
  /\ ran \subseteq [call : Scripts, chunks : Seq(0 .. Chunks)]
  /\ losses \subseteq Calls /\ stuck \subseteq Writes
  /\ tampers \in 0 .. MaxTampers

Init ==
  /\ temp = [c \in Calls |-> Absent] /\ second = [c \in Calls |-> Absent]
  /\ target \in {Absent, Foreign}
  /\ staged = [c \in Calls |-> Idle]
  /\ work = [c \in Calls |-> NoWork]
  /\ orphans = {} /\ placed = {} /\ ran = {} /\ losses = {} /\ stuck = {}
  /\ tampers = 0

-----------------------------------------------------------------------------
(* The tool call.                                                          *)



Send(c, kind, i) ==
  /\ staged' = [staged EXCEPT ![c].pc = kind, ![c].step = i]
  /\ work' = [work EXCEPT ![c] = Process(kind, i)]

(* The scan, the whole plan and one confirmation come first.  The scan sees*)
(* the target before the user answers, and nothing looks at it again.      *)
Confirm(c) ==
  /\ StagedAt(c, "idle")
  /\ Send(c, "chunk", 1)
  /\ UNCHANGED <<disk, orphans, losses, tampers>>

(* A changed form: the last chunk is never sent.                           *)
ChunkDoneEarly(c) ==
  /\ StagedAt(c, "chunk")
  /\ work[c].phase = "ok"
  /\ IF staged[c].step + 1 < Chunks THEN Send(c, "chunk", staged[c].step + 1)
                                  ELSE Send(c, "final", 0)
  /\ UNCHANGED <<disk, orphans, losses, tampers>>

ChunkDone(c) ==
  /\ StagedAt(c, "chunk")
  /\ work[c].phase = "ok"
  /\ IF staged[c].step < Chunks THEN Send(c, "chunk", staged[c].step + 1)
                              ELSE Send(c, "final", 0)
  /\ UNCHANGED <<disk, orphans, losses, tampers>>

(* A step without a successful answer ends the plan: what is left to do is *)
(* to remove the temp file and to reply.                                   *)
GiveUp(c, reply) ==
  /\ staged' = [staged EXCEPT ![c].pc = "cleanup", ![c].step = 0, ![c].reply = reply]
  /\ work' = [work EXCEPT ![c] = Process("cleanup", 0)]



ChunkFailed(c) ==
  /\ StagedAt(c, "chunk")
  /\ work[c].phase = "failed"
  /\ GiveUp(c, IF c \in Writes THEN "failed" ELSE "notrun")
  /\ UNCHANGED <<disk, orphans, losses, tampers>>

Over(c, reply, staging) ==
  /\ staged' = [staged EXCEPT ![c] =
       [pc |-> "over", step |-> 0, reply |-> reply, staging |-> staging]]
  /\ work' = [work EXCEPT ![c] = NoWork]

(* The last step of a write: the target was replaced.  A write that failed *)
(* here is reported like one that failed earlier.                          *)
WriteAnswered(c) ==
  /\ c \in Writes /\ StagedAt(c, "final")
  /\ \/ work[c].phase = "ok" /\ Over(c, "written", "none")
     \/ work[c].phase = "failed" /\ GiveUp(c, "failed")
  /\ UNCHANGED <<disk, orphans, losses, tampers>>

(* The run answered with an exit code, or with the marker of a mismatch.   *)
ScriptAnswered(c) ==
  /\ c \in Scripts /\ StagedAt(c, "final")
  /\ \/ work[c].phase = "ok" /\ GiveUp(c, "ran")
     \/ work[c].phase = "failed" /\ GiveUp(c, "notrun")
  /\ UNCHANGED <<disk, orphans, losses, tampers>>

(* The outcome of the removal goes into the reply of run_script only.      *)
CleanupAnswered(c) ==
  /\ StagedAt(c, "cleanup")
  /\ ~Underway(c)
  /\ Over(c, staged[c].reply,
          IF c \in Writes THEN "none" ELSE IF work[c].phase = "ok" THEN "gone" ELSE "failed")
  /\ UNCHANGED <<disk, orphans, losses, tampers>>

(* Nobody awaits the process any more; it may still be at work.            *)
Abandon(c) ==
  orphans' = IF Underway(c)
               THEN orphans \cup {[call |-> c, kind |-> work[c].kind, step |-> work[c].step]}
               ELSE orphans

(* A transport error, or no output for too long.                           *)
AnswerLost(c) ==
  /\ staged[c].pc \in Awaiting
  /\ Cardinality(losses) < MaxLost
  /\ losses' = losses \cup {c}
  /\ Abandon(c)
  /\ \/ StagedAt(c, "chunk") /\ GiveUp(c, IF c \in Writes THEN "failed" ELSE "notrun")
     \/ StagedAt(c, "final") /\ GiveUp(c, IF c \in Writes THEN "failed" ELSE "unknown")
     \/ StagedAt(c, "cleanup") /\ Over(c, staged[c].reply, IF c \in Writes THEN "none" ELSE "failed")
  /\ UNCHANGED <<disk, tampers>>

(* The client drops the future: no guard, no removal, no reply.            *)
Cancel(c) ==
  /\ staged[c].pc \in Awaiting
  /\ losses' = losses \cup {c}
  /\ Abandon(c)
  /\ Over(c, "none", "none")
  /\ UNCHANGED <<disk, tampers>>

-----------------------------------------------------------------------------
(* The host commands.  A statement either has its effect or throws without;*)
(* the replacement of an encoded write has three: the conversion into a    *)
(* second temp file, the replacement, and a removal that fails quietly.    *)

(* WriteAllBytes or CreateNew for the first chunk, Append for a later one, *)
(* which creates a file that is missing.                                   *)
ChunkEffect(c, i) ==
  /\ i = 1 /\ c \in Scripts => temp[c] = Absent
  /\ temp' = [temp EXCEPT ![c] = IF i = 1 \/ @ = Absent THEN <<i>> ELSE Append(@, i)]
  /\ UNCHANGED <<second, target, placed, ran, stuck>>

Places(c, content) ==
  /\ target' = [by |-> c, chunks |-> content]
  /\ placed' = placed \cup {c}

(* utf8: Replace or Move of the temp file.                                 *)
WriteEffect(c) ==
  /\ c \in Writes \ Encoded
  /\ temp[c] # Absent
  /\ Places(c, temp[c])
  /\ temp' = [temp EXCEPT ![c] = Absent]
  /\ UNCHANGED <<second, ran, stuck>>

(* ReadAllBytes and WriteAllText, which replaces a second file.            *)
ConvertEffect(c) ==
  /\ temp[c] # Absent
  /\ second' = [second EXCEPT ![c] = temp[c]]
  /\ UNCHANGED <<temp, target, placed, ran, stuck>>

(* Replace or Move of the second file.                                     *)
ReplaceEffect(c) ==
  /\ second[c] # Absent
  /\ Places(c, second[c])
  /\ second' = [second EXCEPT ![c] = Absent]
  /\ UNCHANGED <<temp, ran, stuck>>

(* Remove-Item with SilentlyContinue: a file that is left is not reported. *)
RemoveEffect(c) ==
  /\ \/ temp' = [temp EXCEPT ![c] = Absent] /\ UNCHANGED stuck
     \/ stuck' = stuck \cup {c} /\ UNCHANGED temp
  /\ UNCHANGED <<second, target, placed, ran>>

EncodedEffect(c, i) ==
  /\ c \in Encoded
  /\ \/ i = 0 /\ ConvertEffect(c)
     \/ i = 1 /\ ReplaceEffect(c)
     \/ i = 2 /\ RemoveEffect(c)

(* A changed form: the digest is not compared.                             *)
RunUnchecked(c) ==
  /\ c \in Scripts
  /\ temp[c] # Absent
  /\ ran' = ran \cup {[call |-> c, chunks |-> temp[c]]}
  /\ UNCHANGED <<temp, second, target, placed, stuck>>

(* The bytes are read once, hashed, compared with the confirmed digest and *)
(* run from memory.                                                        *)
RunEffect(c) ==
  /\ c \in Scripts
  /\ temp[c] = Plan
  /\ ran' = ran \cup {[call |-> c, chunks |-> temp[c]]}
  /\ UNCHANGED <<temp, second, target, placed, stuck>>

(* A changed form: the second temp file is forgotten.                      *)
CleanupOfOne(c) ==
  /\ temp' = [temp EXCEPT ![c] = Absent]
  /\ UNCHANGED <<second, target, placed, ran, stuck>>

(* run_script sees a removal that failed, as an exit code; write_abort     *)
(* removes two files, and leaves any of them without a word.               *)
CleanupEffect(c) ==
  /\ \/ /\ temp' = [temp EXCEPT ![c] = Absent] /\ second' = [second EXCEPT ![c] = Absent]
        /\ UNCHANGED stuck
     \/ /\ c \in Writes /\ stuck' = stuck \cup {c}
        /\ \/ UNCHANGED <<temp, second>>
           \/ temp' = [temp EXCEPT ![c] = Absent] /\ UNCHANGED second
           \/ second' = [second EXCEPT ![c] = Absent] /\ UNCHANGED temp
  /\ UNCHANGED <<target, placed, ran>>

HostEffect(c, kind, i) ==
  \/ kind = "chunk" /\ ChunkEffect(c, i)
  \/ kind = "final" /\ (WriteEffect(c) \/ EncodedEffect(c, i) \/ RunEffect(c))
  \/ kind = "cleanup" /\ CleanupEffect(c)

(* More statements of the command follow.                                  *)
GoesOn(c, kind, i) == kind = "final" /\ c \in Encoded /\ i < 2

(* A removal of a write never throws.                                      *)
Quiet(c, kind, i) ==
  c \in Writes /\ (kind = "cleanup" \/ (kind = "final" /\ c \in Encoded /\ i = 2))

Works(c) ==
  /\ Underway(c)
  /\ HostEffect(c, work[c].kind, work[c].step)
  /\ IF GoesOn(c, work[c].kind, work[c].step)
       THEN work' = [work EXCEPT ![c].step = @ + 1]
       ELSE work' = [work EXCEPT ![c].phase = "ok"]
  /\ UNCHANGED <<staged, orphans, losses, tampers>>

(* A statement throws.  A script that started answers with its own code.   *)
Fails(c) ==
  /\ Underway(c) /\ ~Quiet(c, work[c].kind, work[c].step)
  /\ work' = [work EXCEPT ![c].phase = "failed"]
  /\ UNCHANGED <<disk, staged, orphans, losses, tampers>>

OrphanWorks(p) ==
  /\ HostEffect(p.call, p.kind, p.step)
  /\ orphans' = (orphans \ {p}) \cup
       (IF GoesOn(p.call, p.kind, p.step) THEN {[p EXCEPT !.step = @ + 1]} ELSE {})
  /\ UNCHANGED <<staged, work, losses, tampers>>

OrphanEnds(p) ==
  /\ orphans' = orphans \ {p}
  /\ UNCHANGED <<disk, staged, work, losses, tampers>>

(* Another program of the same account writes into the staging file, or    *)
(* into the target.                                                        *)
Tamper(c) ==
  /\ c \in Scripts
  /\ temp[c] # Absent
  /\ tampers < MaxTampers
  /\ tampers' = tampers + 1
  /\ temp' = [temp EXCEPT ![c] = Append(@, 0)]
  /\ UNCHANGED <<second, target, placed, ran, stuck, staged, work, orphans, losses>>

ForeignWrite ==
  /\ target' \in {Absent, Foreign} \ {target}
  /\ UNCHANGED <<temp, second, placed, ran, stuck, staged, work, orphans, losses, tampers>>

-----------------------------------------------------------------------------

Progress(c) ==
  \/ ChunkDone(c) \/ ChunkFailed(c) \/ WriteAnswered(c) \/ ScriptAnswered(c)
  \/ CleanupAnswered(c)

HostStep(c) == Works(c) \/ Fails(c)

Next ==
  \/ \E c \in Calls :
       \/ Confirm(c) \/ Progress(c) \/ AnswerLost(c) \/ Cancel(c) \/ HostStep(c)
       \/ Tamper(c)
  \/ \E p \in orphans : OrphanWorks(p) \/ OrphanEnds(p)
  \/ ForeignWrite

Spec == Init /\ [][Next]_vars

(* The runtime polls the future, and a host process comes to its end.      *)
StagedFairness == \A c \in Calls : WF_vars(Progress(c)) /\ WF_vars(HostStep(c))

FairSpec == Spec /\ StagedFairness

-----------------------------------------------------------------------------

Verdict(c) == IF staged[c].reply = "written" THEN "placed"
              ELSE IF StagedAt(c, "over") THEN "unknown" ELSE "open"

Placement == INSTANCE FilePlacement WITH
  Calls <- Writes,
  Replacing <- Writes,
  Contents <- {Foreign} \cup {Placed(c) : c \in Writes},
  promised <- [c \in Writes |-> IF StagedAt(c, "idle") THEN Absent ELSE Placed(c)],
  verdict <- [c \in Writes |-> Verdict(c)]

(* TR-FS-05: whatever is lost, dropped or still at work on the host, the   *)
(* target of write_file changes at most once per call and only to the whole*)
(* confirmed content, and "written" is true.                               *)
WholeWrites == Placement!Spec

(* TR-EXE-06: what runs is what the user confirmed, whoever writes into the*)
(* staging file and whichever host process comes late; the reply tells     *)
(* truly whether the script ran.                                           *)
ConfirmedRuns ==
  /\ \A r \in ran : r.chunks = Plan
  /\ \A c \in Scripts :
       /\ staged[c].reply = "ran" => \E r \in ran : r.call = c
       /\ staged[c].reply = "notrun" => \A r \in ran : r.call # c

(* A call that got every answer leaves nothing on the host that the host   *)
(* would remove: whatever step failed, and for each of the two temp files  *)
(* of an encoded write, a file that is left is one whose removal failed.   *)
(* Nobody is told of it by write_file, also where it reports success;      *)
(* run_script tells truly that its staging file is gone.                   *)
NothingLeft ==
  \A c \in Calls : StagedAt(c, "over") /\ c \notin losses =>
    /\ c \in Writes /\ (temp[c] # Absent \/ second[c] # Absent) => c \in stuck
    /\ c \in Scripts /\ staged[c].staging = "gone" => temp[c] = Absent

(* The reply of a failed write: "The tool left the target file unchanged". *)
UnchangedOnFailure ==
  \A c \in Writes : StagedAt(c, "over") /\ staged[c].reply = "failed" => c \notin placed

=============================================================================
