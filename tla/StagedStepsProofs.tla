------------------------- MODULE StagedStepsProofs -------------------------
(***************************************************************************)
(* Proofs about write_file and run_script, for every set of calls, every   *)
(* number of chunks and every number of lost answers.                      *)
(***************************************************************************)
EXTENDS StagedSteps, TLAPS

-----------------------------------------------------------------------------
(* Type correctness.                                                       *)

(* The plan is a sequence of chunk numbers.                                *)
LEMMA PlanType == Plan \in Seq(0 .. Chunks) /\ Len(Plan) = Chunks
  BY StagedBoundsAssumption DEF Plan

(* Numbers of chunks and statements.                                       *)
LEMMA StepsType ==
  0 .. Chunks \subseteq StepNumbers /\ {0, 1, 2} \subseteq StepNumbers /\ 0 \in 0 .. Chunks
  BY StagedBoundsAssumption DEF StepNumbers

LEMMA TypeInitially == Init => TypeOK
<1> SUFFICES ASSUME Init PROVE TypeOK
  OBVIOUS
<1>1. Idle \in Call /\ NoWork \in Work
  BY StepsType DEF Call, Work, Idle, NoWork
<1>2. tampers \in 0 .. MaxTampers
  BY StagedBoundsAssumption DEF Init
<1>3. QED BY <1>1, <1>2 DEF Init, TypeOK, Idle, NoWork, Awaiting

(* Sending a command to the host keeps the types.                          *)
LEMMA SendType ==
  ASSUME TypeOK, NEW c \in Calls, NEW kind \in Awaiting, NEW i \in 0 .. Chunks,
         Send(c, kind, i), UNCHANGED <<disk, orphans, losses, tampers>>
  PROVE  TypeOK'
<1>1. [staged[c] EXCEPT !.pc = kind, !.step = i] \in Call
  BY DEF TypeOK, Call
<1>2. Process(kind, i) \in Work
  BY StepsType DEF Process, Work
<1>3. staged' \in [Calls -> Call] /\ work' \in [Calls -> Work]
  BY <1>1, <1>2 DEF TypeOK, Send
<1>4. \A d \in Calls :
        /\ work'[d].kind = IF staged'[d].pc \in Awaiting THEN staged'[d].pc ELSE "none"
        /\ work'[d].kind = "chunk" => work'[d].step = staged'[d].step
  BY DEF TypeOK, Send, Process, Call
<1>5. QED BY <1>3, <1>4 DEF TypeOK, disk

(* So does giving up.                                                      *)
LEMMA GiveUpType ==
  ASSUME TypeOK, NEW c \in Calls, NEW reply \in {"failed", "ran", "notrun", "unknown"},
         GiveUp(c, reply), orphans' \subseteq Orphans, losses' \subseteq Calls,
         UNCHANGED <<disk, tampers>>
  PROVE  TypeOK'
<1>0. staged[c] \in Call /\ "cleanup" \in Awaiting /\ 0 \in 0 .. Chunks
  BY StagedBoundsAssumption DEF TypeOK, Awaiting
<1>1. [staged[c] EXCEPT !.pc = "cleanup", !.step = 0, !.reply = reply] \in Call
  BY <1>0 DEF Call
<1>2. Process("cleanup", 0) \in Work
  BY StepsType DEF Process, Work, Awaiting
<1>3. staged' \in [Calls -> Call] /\ work' \in [Calls -> Work]
  BY <1>1, <1>2 DEF TypeOK, GiveUp
<1>4. \A d \in Calls :
        /\ work'[d].kind = IF staged'[d].pc \in Awaiting THEN staged'[d].pc ELSE "none"
        /\ work'[d].kind = "chunk" => work'[d].step = staged'[d].step
  BY DEF TypeOK, GiveUp, Process, Call, Awaiting
<1>5. QED BY <1>3, <1>4 DEF TypeOK, disk

(* And ending a call.                                                      *)
LEMMA OverType ==
  ASSUME TypeOK, NEW c \in Calls,
         NEW reply \in {"none", "written", "failed", "ran", "notrun", "unknown"},
         NEW staging \in {"none", "gone", "failed"}, Over(c, reply, staging),
         orphans' \subseteq Orphans, losses' \subseteq Calls, UNCHANGED <<disk, tampers>>
  PROVE  TypeOK'
<1>1. [pc |-> "over", step |-> 0, reply |-> reply, staging |-> staging] \in Call
  BY StagedBoundsAssumption DEF Call
<1>2. NoWork \in Work
  BY StepsType DEF NoWork, Work
<1>3. staged' \in [Calls -> Call] /\ work' \in [Calls -> Work]
  BY <1>1, <1>2 DEF TypeOK, Over
<1>4. \A d \in Calls :
        /\ work'[d].kind = IF staged'[d].pc \in Awaiting THEN staged'[d].pc ELSE "none"
        /\ work'[d].kind = "chunk" => work'[d].step = staged'[d].step
  BY DEF TypeOK, Over, NoWork, Call, Awaiting
<1>5. QED BY <1>3, <1>4 DEF TypeOK, disk

(* An abandoned process becomes an orphan of the right type.               *)
LEMMA AbandonType ==
  ASSUME TypeOK, NEW c \in Calls, staged[c].pc \in Awaiting, Abandon(c)
  PROVE  orphans' \subseteq Orphans
<1>1. work[c] \in Work /\ work[c].kind = staged[c].pc /\ staged[c].step \in 0 .. Chunks
      /\ (work[c].kind = "chunk" => work[c].step = staged[c].step)
  BY DEF TypeOK, Call
<1>2. [call |-> c, kind |-> work[c].kind, step |-> work[c].step] \in Orphans
  BY <1>1, StagedBoundsAssumption DEF Orphans, Work
<1>3. QED BY <1>2 DEF TypeOK, Abandon

(* What a host command changes is well typed.                              *)
LEMMA EffectType ==
  ASSUME TypeOK, NEW c \in Calls, NEW kind, NEW i \in StepNumbers, HostEffect(c, kind, i),
         kind = "chunk" => i \in 0 .. Chunks
  PROVE  /\ temp' \in [Calls -> Seq(0 .. Chunks) \cup {Absent}]
         /\ second' \in [Calls -> Seq(0 .. Chunks) \cup {Absent}]
         /\ placed' \subseteq Writes /\ stuck' \subseteq Writes
         /\ ran' \subseteq [call : Scripts, chunks : Seq(0 .. Chunks)]
<1>1. CASE kind = "chunk" /\ ChunkEffect(c, i)
  <2>1. <<i>> \in Seq(0 .. Chunks)
    BY <1>1
  <2>2. temp[c] # Absent => Append(temp[c], i) \in Seq(0 .. Chunks)
    BY <1>1 DEF TypeOK
  <2>3. QED BY <1>1, <2>1, <2>2 DEF ChunkEffect, TypeOK
<1>2. CASE WriteEffect(c) \/ EncodedEffect(c, i)
  BY <1>2, StagedCallsAssumption
  DEF WriteEffect, EncodedEffect, ConvertEffect, ReplaceEffect, RemoveEffect, Places, TypeOK
<1>3. CASE RunEffect(c)
  BY <1>3, PlanType DEF RunEffect, TypeOK
<1>4. CASE CleanupEffect(c)
  BY <1>4 DEF CleanupEffect, TypeOK
<1>5. QED BY <1>1, <1>2, <1>3, <1>4 DEF HostEffect

LEMMA TypeStep == TypeOK /\ [Next]_vars => TypeOK'
<1> SUFFICES ASSUME TypeOK, [Next]_vars PROVE TypeOK'
  OBVIOUS
<1>1. CASE UNCHANGED vars
  BY <1>1 DEF vars, disk, TypeOK
<1>2. CASE ForeignWrite
  BY <1>2 DEF ForeignWrite, TypeOK
<1>3. ASSUME NEW p \in orphans, OrphanWorks(p) \/ OrphanEnds(p) PROVE TypeOK'
  <2>1. /\ p \in Orphans /\ p.call \in Calls /\ p.step \in StepNumbers
        /\ p.kind = "chunk" => p.step \in 0 .. Chunks
    BY StagedBoundsAssumption DEF TypeOK, Orphans, StepNumbers
  <2>2. CASE OrphanEnds(p)
    BY <2>2 DEF OrphanEnds, disk, TypeOK
  <2>3. CASE OrphanWorks(p)
    <3>1. GoesOn(p.call, p.kind, p.step) => [p EXCEPT !.step = @ + 1] \in Orphans
      BY <2>1, StagedBoundsAssumption DEF GoesOn, Orphans, StepNumbers
    <3>2. orphans' \subseteq Orphans
      BY <2>3, <3>1 DEF OrphanWorks, TypeOK
    <3>3. QED BY <2>1, <2>3, <3>2, EffectType DEF OrphanWorks, TypeOK
  <2>4. QED BY <1>3, <2>2, <2>3
<1>4. ASSUME NEW c \in Calls, Confirm(c) PROVE TypeOK'
  BY <1>4, SendType, StagedBoundsAssumption DEF Confirm, Awaiting
<1>5. ASSUME NEW c \in Calls, ChunkDone(c) PROVE TypeOK'
  <2>1. staged[c].step < Chunks => staged[c].step + 1 \in 0 .. Chunks
    BY StagedBoundsAssumption DEF TypeOK, Call
  <2>2. 0 \in 0 .. Chunks
    BY StagedBoundsAssumption
  <2>3. QED BY <1>5, <2>1, <2>2, SendType DEF ChunkDone, Awaiting
<1>6. ASSUME NEW c \in Calls, ChunkFailed(c) PROVE TypeOK'
  <2>1. orphans' \subseteq Orphans /\ losses' \subseteq Calls
    BY <1>6 DEF ChunkFailed, TypeOK
  <2>2. QED BY <1>6, <2>1, GiveUpType DEF ChunkFailed
<1>7. ASSUME NEW c \in Calls, WriteAnswered(c) \/ ScriptAnswered(c) PROVE TypeOK'
  <2>1. orphans' \subseteq Orphans /\ losses' \subseteq Calls
    BY <1>7 DEF WriteAnswered, ScriptAnswered, TypeOK
  <2>2. QED BY <1>7, <2>1, GiveUpType, OverType DEF WriteAnswered, ScriptAnswered
<1>8. ASSUME NEW c \in Calls, CleanupAnswered(c) PROVE TypeOK'
  <2>1. orphans' \subseteq Orphans /\ losses' \subseteq Calls
    BY <1>8 DEF CleanupAnswered, TypeOK
  <2>2. staged[c].reply \in {"none", "written", "failed", "ran", "notrun", "unknown"}
    BY DEF TypeOK, Call
  <2>3. QED BY <1>8, <2>1, <2>2, OverType DEF CleanupAnswered
<1>9. ASSUME NEW c \in Calls, AnswerLost(c) \/ Cancel(c) PROVE TypeOK'
  <2>1. orphans' \subseteq Orphans
    BY <1>9, AbandonType DEF AnswerLost, Cancel
  <2>2. losses' \subseteq Calls
    BY <1>9 DEF AnswerLost, Cancel, TypeOK
  <2>3. staged[c].reply \in {"none", "written", "failed", "ran", "notrun", "unknown"}
    BY DEF TypeOK, Call
  <2>4. QED BY <1>9, <2>1, <2>2, <2>3, GiveUpType, OverType DEF AnswerLost, Cancel
<1>10. ASSUME NEW c \in Calls, Works(c) PROVE TypeOK'
  <2>1. work[c].step \in StepNumbers /\ (work[c].kind = "chunk" => work[c].step \in 0 .. Chunks)
    BY DEF TypeOK, Work, Call
  <2>2. work' \in [Calls -> Work] /\ \A d \in Calls : work'[d].kind = work[d].kind
          /\ (work[d].kind = "chunk" => work'[d].step = work[d].step)
    <3>1. work[c] \in Work
      BY DEF TypeOK
    <3>2. GoesOn(c, work[c].kind, work[c].step) =>
            /\ [work[c] EXCEPT !.step = @ + 1] \in Work
            /\ work[c].kind # "chunk"
      BY <3>1, StagedBoundsAssumption DEF GoesOn, Work, StepNumbers
    <3>3. [work[c] EXCEPT !.phase = "ok"] \in Work
      BY <3>1 DEF Work
    <3>4. work'[c] = IF GoesOn(c, work[c].kind, work[c].step)
                       THEN [work[c] EXCEPT !.step = @ + 1] ELSE [work[c] EXCEPT !.phase = "ok"]
      <4>1. CASE GoesOn(c, work[c].kind, work[c].step)
        BY <1>10, <4>1 DEF Works, TypeOK
      <4>2. CASE ~GoesOn(c, work[c].kind, work[c].step)
        BY <1>10, <4>2 DEF Works, TypeOK
      <4>3. QED BY <4>1, <4>2
    <3>5. work'[c] \in Work /\ work'[c].kind = work[c].kind
            /\ (work[c].kind = "chunk" => work'[c].step = work[c].step)
      BY <3>1, <3>2, <3>3, <3>4 DEF Work
    <3>6. work' \in [Calls -> Work] /\ \A d \in Calls \ {c} : work'[d] = work[d]
      BY <1>10, <3>4, <3>5 DEF Works, TypeOK
    <3>7. QED BY <3>5, <3>6
  <2>3. QED BY <1>10, <2>1, <2>2, EffectType DEF Works, TypeOK
<1>11. ASSUME NEW c \in Calls, Fails(c) PROVE TypeOK'
  BY <1>11 DEF Fails, TypeOK, Work, disk
<1>12. ASSUME NEW c \in Calls, Tamper(c) PROVE TypeOK'
  <2>1. Append(temp[c], 0) \in Seq(0 .. Chunks)
    BY <1>12, StagedBoundsAssumption DEF Tamper, TypeOK
  <2>2. tampers + 1 \in 0 .. MaxTampers
    BY <1>12, StagedBoundsAssumption DEF Tamper, TypeOK
  <2>3. QED BY <1>12, <2>1, <2>2 DEF Tamper, TypeOK
<1>13. QED
  BY <1>1, <1>2, <1>3, <1>4, <1>5, <1>6, <1>7, <1>8, <1>9, <1>10, <1>11, <1>12
  DEF Next, Progress, HostStep

(* Type correctness of the staged calls: the process a call awaits is      *)
(* always the one of its own step.                                         *)
THEOREM StagedTypeCorrect == Spec => []TypeOK
  BY TypeInitially, TypeStep, PTL DEF Spec

-----------------------------------------------------------------------------
(* The inductive invariant, one call at a time.                            *)

(* The first n chunks.                                                     *)
Prefix(n) == [i \in 1 .. n |-> i]

Undisturbed(c) == \A p \in orphans : p.call # c

Orphaned(c, kind) == \E p \in orphans : p.call = c /\ p.kind = kind

Ran(c) == \E r \in ran : r.call = c

(* Only a call that lost an answer has processes nobody awaits, and such a *)
(* call sends nothing but its cleanup any more.                            *)
OrphanInv(c) ==
  /\ c \notin losses => Undisturbed(c)
  /\ staged[c].pc \in {"idle", "chunk", "final"} => c \notin losses /\ staged[c].reply = "none"
  /\ staged[c].reply = "written" => StagedAt(c, "over") /\ c \notin losses

(* The temp file of a write grows chunk by chunk while the call awaits its *)
(* chunks, is whole when a replacement is under way, even one that nobody  *)
(* awaits any more, and is gone for good after the replacement.            *)
WriteInv(c) ==
  /\ StagedAt(c, "chunk") => work[c].step \in 1 .. Chunks
  /\ StagedAt(c, "chunk") /\ work[c].phase = "ok" => temp[c] = Prefix(work[c].step)
  /\ StagedAt(c, "chunk") /\ Underway(c) /\ work[c].step # 1 => temp[c] = Prefix(work[c].step - 1)
  /\ StagedAt(c, "final") /\ Underway(c) => temp[c] = Plan
  /\ StagedAt(c, "final") /\ work[c].phase = "ok" => c \in placed
  /\ Orphaned(c, "final") => temp[c] \in {Plan, Absent} /\ ~Orphaned(c, "chunk")
  /\ c \in placed => /\ c \notin Encoded => temp[c] = Absent
                     /\ ~Orphaned(c, "chunk")
                     /\ ~StagedAt(c, "idle") /\ ~StagedAt(c, "chunk")
  /\ staged[c].reply = "written" => c \in placed

Finals(c) == {p \in orphans : p.call = c /\ p.kind = "final"}

(* The second temp file of a write is whole when it replaces the target,   *)
(* also in a command that nobody awaits any more; there is one such command*)
(* at most, and its statements come in their order.                        *)
EncodedInv(c) ==
  /\ second[c] \in {Plan, Absent}
  /\ c \notin Encoded => second[c] = Absent
  /\ c \in Encoded /\ StagedAt(c, "final") /\ Underway(c) =>
       /\ work[c].step \in {0, 1, 2}
       /\ work[c].step = 1 => second[c] = Plan
       /\ work[c].step < 2 <=> c \notin placed
  /\ \A p \in Finals(c) :
       /\ c \in Encoded /\ p.step < 2 => c \notin placed
       /\ \A q \in Finals(c) : q = p
  /\ c \in placed => second[c] = Absent

(* What the call knows of the run of its script.                           *)
ScriptInv(c) ==
  /\ Ran(c) => \/ StagedAt(c, "final") /\ work[c].phase = "ok"
               \/ staged[c].reply \in {"ran", "unknown"}
               \/ StagedAt(c, "over") /\ staged[c].reply = "none"
  /\ Orphaned(c, "final") => \/ staged[c].reply = "unknown"
                             \/ StagedAt(c, "over") /\ staged[c].reply = "none"
  /\ StagedAt(c, "final") /\ work[c].phase = "ok" => Ran(c)
  /\ staged[c].reply = "ran" => Ran(c)
  /\ staged[c].reply # "written"

(* Nothing is left but what the host refused to remove.                    *)
Tidy(c) ==
  IF c \in Writes THEN temp[c] # Absent \/ second[c] # Absent => c \in stuck
                  ELSE temp[c] = Absent

(* What is left of the temp files of a call that lost nothing.             *)
LeftInv(c) ==
  c \notin losses =>
    /\ c \in Writes /\ StagedAt(c, "final") /\ work[c].phase = "ok" => Tidy(c)
    /\ StagedAt(c, "cleanup") /\ work[c].phase = "ok" => Tidy(c)
    /\ c \in Writes /\ StagedAt(c, "cleanup") => work[c].phase \in {"running", "ok"}
    /\ StagedAt(c, "over") /\ (c \in Writes \/ staged[c].staging = "gone") => Tidy(c)

CallInv(c) ==
  /\ OrphanInv(c)
  /\ c \in Writes => WriteInv(c) /\ EncodedInv(c)
  /\ c \in Scripts => ScriptInv(c)
  /\ LeftInv(c)

StagedInv == TypeOK /\ \A c \in Calls : CallInv(c)

-----------------------------------------------------------------------------
(* The calls that a step leaves alone.                                     *)

(* Nothing of call c changes.                                              *)
Same(c) ==
  /\ temp'[c] = temp[c] /\ second'[c] = second[c]
  /\ staged'[c] = staged[c] /\ work'[c] = work[c]
  /\ c \in placed' <=> c \in placed
  /\ c \in stuck' <=> c \in stuck
  /\ c \in losses' <=> c \in losses
  /\ \A p \in orphans' : p.call = c => p \in orphans
  /\ \A p \in orphans : p.call = c => p \in orphans'
  /\ \A r \in ran' : r.call = c => r \in ran
  /\ \A r \in ran : r.call = c => r \in ran'

(* The steps of call c and of its host processes.                          *)
Acts(c) ==
  \/ Confirm(c) \/ Progress(c) \/ AnswerLost(c) \/ Cancel(c) \/ HostStep(c) \/ Tamper(c)
  \/ \E p \in orphans : p.call = c /\ (OrphanWorks(p) \/ OrphanEnds(p))

(* The invariant of a call rests on nothing but the call.                  *)
LEMMA SameInv ==
  ASSUME NEW c \in Calls, CallInv(c), Same(c)
  PROVE  CallInv(c)'
<1>1. OrphanInv(c)'
  BY DEF CallInv, OrphanInv, Same, Undisturbed, StagedAt
<1>2. Orphaned(c, "final")' = Orphaned(c, "final")
      /\ Orphaned(c, "chunk")' = Orphaned(c, "chunk")
  BY DEF Same, Orphaned
<1>3. c \in Writes => WriteInv(c)' /\ EncodedInv(c)'
  <2>1. Finals(c)' = Finals(c)
    BY DEF Same, Finals
  <2>2. c \in Writes => WriteInv(c)'
    BY <1>2 DEF CallInv, WriteInv, Same, StagedAt, Underway
  <2>3. c \in Writes => EncodedInv(c)'
    BY <2>1 DEF CallInv, EncodedInv, Same, StagedAt, Underway
  <2>4. QED BY <2>2, <2>3
<1>4. Ran(c)' = Ran(c)
  BY DEF Same, Ran
<1>5. c \in Scripts => ScriptInv(c)'
  BY <1>2, <1>4 DEF CallInv, ScriptInv, Same, StagedAt
<1>6. LeftInv(c)'
  BY DEF CallInv, LeftInv, Tidy, Same, StagedAt
<1>7. QED BY <1>1, <1>3, <1>5, <1>6 DEF CallInv

(* A host command of one call has no effect on another.                    *)
LEMMA EffectOther ==
  ASSUME TypeOK, NEW c \in Calls, NEW d \in Calls, d # c, NEW kind, NEW i,
         HostEffect(c, kind, i)
  PROVE  /\ temp'[d] = temp[d] /\ second'[d] = second[d]
         /\ d \in placed' <=> d \in placed
         /\ d \in stuck' <=> d \in stuck
         /\ \A r \in ran' : r.call = d => r \in ran
         /\ \A r \in ran : r.call = d => r \in ran'
<1>1. CASE WriteEffect(c) \/ EncodedEffect(c, i)
  BY <1>1 DEF WriteEffect, EncodedEffect, ConvertEffect, ReplaceEffect, RemoveEffect, Places, TypeOK
<1>2. CASE ChunkEffect(c, i) \/ RunEffect(c) \/ CleanupEffect(c)
  BY <1>2 DEF ChunkEffect, RunEffect, CleanupEffect, TypeOK
<1>3. QED BY <1>1, <1>2 DEF HostEffect

LEMMA OtherCalls ==
  ASSUME TypeOK, NEW c \in Calls, NEW d \in Calls, d # c, Acts(c)
  PROVE  Same(d)
<1>1. ASSUME NEW kind, NEW i, Send(c, kind, i) PROVE staged'[d] = staged[d] /\ work'[d] = work[d]
  BY <1>1 DEF Send, TypeOK
<1>2. ASSUME NEW reply, GiveUp(c, reply) PROVE staged'[d] = staged[d] /\ work'[d] = work[d]
  BY <1>2 DEF GiveUp, TypeOK
<1>3. ASSUME NEW reply, NEW staging, Over(c, reply, staging)
      PROVE  staged'[d] = staged[d] /\ work'[d] = work[d]
  BY <1>3 DEF Over, TypeOK
<1>4. ASSUME UNCHANGED <<disk, orphans, losses>>, staged'[d] = staged[d], work'[d] = work[d]
      PROVE  Same(d)
  BY <1>4 DEF Same, disk
<1>5. ASSUME Abandon(c), losses' = losses \cup {c}, UNCHANGED disk,
             staged'[d] = staged[d], work'[d] = work[d]
      PROVE  Same(d)
  BY <1>5 DEF Same, Abandon, disk
<1>6. CASE Confirm(c)
  BY <1>1, <1>4, <1>6 DEF Confirm
<1>7. CASE Progress(c)
  BY <1>1, <1>2, <1>3, <1>4, <1>7
  DEF Progress, ChunkDone, ChunkFailed, WriteAnswered, ScriptAnswered, CleanupAnswered
<1>8. CASE AnswerLost(c)
  BY <1>2, <1>3, <1>5, <1>8 DEF AnswerLost
<1>9. CASE Cancel(c)
  BY <1>3, <1>5, <1>9 DEF Cancel
<1>10. CASE Works(c)
  <2>1. work'[d] = work[d] /\ staged'[d] = staged[d]
    BY <1>10 DEF Works, TypeOK
  <2>2. QED BY <1>10, <2>1, EffectOther DEF Works, Same
<1>11. CASE Fails(c)
  BY <1>4, <1>11 DEF Fails, TypeOK
<1>12. CASE Tamper(c)
  BY <1>12 DEF Tamper, Same, TypeOK
<1>13. ASSUME NEW p \in orphans, p.call = c, OrphanWorks(p) \/ OrphanEnds(p) PROVE Same(d)
  <2>1. CASE OrphanEnds(p)
    BY <1>13, <2>1 DEF OrphanEnds, disk, Same
  <2>2. CASE OrphanWorks(p)
    <3>1. p \in Orphans
      BY DEF TypeOK
    <3>2. [p EXCEPT !.step = p.step + 1].call = c
      BY <1>13, <3>1 DEF Orphans
    <3>3. /\ \A q \in orphans' : q.call = d => q \in orphans
          /\ \A q \in orphans : q.call = d => q \in orphans'
      BY <1>13, <2>2, <3>2 DEF OrphanWorks
    <3>4. QED BY <1>13, <2>2, <3>3, EffectOther DEF OrphanWorks, Same
  <2>3. QED BY <1>13, <2>1, <2>2
<1>14. QED
  BY <1>6, <1>7, <1>8, <1>9, <1>10, <1>11, <1>12, <1>13 DEF Acts, HostStep

(* Every step is one of a staged, a foreign write, or none.                  *)
LEMMA Actors ==
  ASSUME TypeOK, [Next]_vars
  PROVE  (\E c \in Calls : Acts(c)) \/ ForeignWrite \/ UNCHANGED vars
<1>1. \A p \in orphans : p.call \in Calls
  BY DEF TypeOK, Orphans
<1>2. QED BY <1>1 DEF Next, Acts

-----------------------------------------------------------------------------
(* The call that acts.                                                     *)

(* What the three ways to go on do to the call itself.                     *)
LEMMA SendSelf ==
  ASSUME TypeOK, NEW c \in Calls, NEW kind, NEW i, Send(c, kind, i)
  PROVE  /\ staged'[c].pc = kind /\ staged'[c].reply = staged[c].reply
         /\ staged'[c].staging = staged[c].staging
         /\ work'[c].step = i /\ work'[c].phase = "running"
<1>1. staged'[c] = [staged[c] EXCEPT !.pc = kind, !.step = i] /\ work'[c] = Process(kind, i)
  BY DEF Send, TypeOK
<1>2. staged[c] \in Call
  BY DEF TypeOK
<1>3. QED BY <1>1, <1>2 DEF Call, Process

LEMMA GiveUpSelf ==
  ASSUME TypeOK, NEW c \in Calls, NEW reply, GiveUp(c, reply)
  PROVE  /\ staged'[c].pc = "cleanup" /\ staged'[c].reply = reply
         /\ staged'[c].staging = staged[c].staging
         /\ work'[c].phase = "running"
<1>1. staged'[c] = [staged[c] EXCEPT !.pc = "cleanup", !.step = 0, !.reply = reply]
      /\ work'[c] = Process("cleanup", 0)
  BY DEF GiveUp, TypeOK
<1>2. staged[c] \in Call
  BY DEF TypeOK
<1>3. QED BY <1>1, <1>2 DEF Call, Process

LEMMA OverSelf ==
  ASSUME TypeOK, NEW c \in Calls, NEW reply, NEW staging, Over(c, reply, staging)
  PROVE  /\ staged'[c].pc = "over" /\ staged'[c].reply = reply
         /\ staged'[c].staging = staging /\ work'[c].phase = "none"
  BY DEF Over, TypeOK, NoWork

(* The answer of a host process changes its phase only.                    *)
LEMMA PhaseSelf ==
  ASSUME TypeOK, NEW c \in Calls, NEW phase, work' = [work EXCEPT ![c].phase = phase]
  PROVE  work'[c].phase = phase /\ work'[c].step = work[c].step /\ work'[c].kind = work[c].kind
<1>1. work[c] \in Work
  BY DEF TypeOK
<1>2. QED BY <1>1 DEF Work, TypeOK

(* A chunk after the first i - 1 gives the first i.                        *)
LEMMA NextPrefix ==
  ASSUME NEW i \in 1 .. Chunks
  PROVE  <<1>> = Prefix(1) /\ (i # 1 => Append(Prefix(i - 1), i) = Prefix(i))
<1>1. Prefix(1) \in Seq(Nat) /\ Len(Prefix(1)) = 1 /\ Prefix(1)[1] = 1
  BY DEF Prefix
<1>2. ASSUME i # 1 PROVE Append(Prefix(i - 1), i) = Prefix(i)
  <2>1. Prefix(i - 1) \in Seq(Nat) /\ Len(Prefix(i - 1)) = i - 1
    BY <1>2, StagedBoundsAssumption DEF Prefix
  <2>2. Prefix(i) \in Seq(Nat) /\ Len(Prefix(i)) = i
    BY StagedBoundsAssumption DEF Prefix
  <2>3. Append(Prefix(i - 1), i) \in Seq(Nat) /\ Len(Append(Prefix(i - 1), i)) = i
    BY <2>1, StagedBoundsAssumption
  <2>4. \A k \in 1 .. i : Append(Prefix(i - 1), i)[k] = Prefix(i)[k]
    BY <2>1, StagedBoundsAssumption DEF Prefix
  <2>5. QED BY <2>2, <2>3, <2>4
<1>3. QED BY <1>1, <1>2

LEMMA PlanIsPrefix == Plan = Prefix(Chunks) /\ Plan # Absent
  BY PlanType, AbsentAssumption, StagedBoundsAssumption DEF Plan, Prefix

(* A call that lost nothing has no orphans of any kind.                    *)
LEMMA NoOrphans ==
  ASSUME NEW c, Undisturbed(c), NEW kind
  PROVE  ~Orphaned(c, kind) /\ Finals(c) = {}
  BY DEF Undisturbed, Orphaned, Finals

LEMMA OrphanedFinals ==
  ASSUME NEW c
  PROVE  Orphaned(c, "final") <=> Finals(c) # {}
  BY DEF Orphaned, Finals

LEMMA ConfirmInv ==
  ASSUME TypeOK, NEW c \in Calls, CallInv(c), Confirm(c)
  PROVE  CallInv(c)'
<1> USE DEF CallInv
<1>1. /\ staged'[c].pc = "chunk" /\ staged'[c].reply = "none" /\ c \notin losses
      /\ work'[c].step = 1 /\ work'[c].phase = "running"
  BY SendSelf DEF Confirm, OrphanInv, StagedAt
<1>2. /\ temp' = temp /\ placed' = placed /\ ran' = ran
      /\ orphans' = orphans /\ losses' = losses
  BY DEF Confirm, disk
<1>3. Undisturbed(c) /\ ~Orphaned(c, "chunk")' /\ ~Orphaned(c, "final")'
  BY <1>1, <1>2, NoOrphans DEF OrphanInv, Orphaned, Undisturbed
<1>4. OrphanInv(c)'
  BY <1>1, <1>2, <1>3 DEF OrphanInv, Undisturbed, StagedAt
<1>5. ASSUME c \in Writes PROVE WriteInv(c)' /\ EncodedInv(c)'
  <2>1. c \notin placed
    BY <1>5 DEF WriteInv, Confirm
  <2>2. WriteInv(c)'
    BY <1>1, <1>2, <1>3, <2>1, StagedBoundsAssumption DEF WriteInv, StagedAt, Underway
  <2>3. Finals(c)' = {} /\ second' = second
    BY <1>3 DEF Finals, Orphaned, Confirm, disk
  <2>4. EncodedInv(c)'
    BY <1>1, <1>2, <1>5, <2>1, <2>3 DEF EncodedInv, StagedAt
  <2>5. QED BY <2>2, <2>4
<1>6. ASSUME c \in Scripts PROVE ScriptInv(c)'
  <2>1. ~Ran(c)
    BY <1>6 DEF ScriptInv, OrphanInv, Confirm, StagedAt
  <2>2. QED BY <1>1, <1>2, <1>3, <2>1 DEF ScriptInv, StagedAt, Ran
<1>7. LeftInv(c)'
  BY <1>1 DEF LeftInv, StagedAt
<1>8. QED BY <1>4, <1>5, <1>6, <1>7

LEMMA ChunkDoneInv ==
  ASSUME TypeOK, NEW c \in Calls, CallInv(c), ChunkDone(c)
  PROVE  CallInv(c)'
<1> USE DEF CallInv
<1>1. /\ temp' = temp /\ placed' = placed /\ ran' = ran
      /\ orphans' = orphans /\ losses' = losses
  BY DEF ChunkDone, disk
<1>2. /\ c \notin losses /\ staged[c].reply = "none" /\ Undisturbed(c)
      /\ work[c].step = staged[c].step /\ staged[c].step \in 0 .. Chunks
  BY DEF ChunkDone, OrphanInv, StagedAt, TypeOK, Awaiting, Call
<1>3. /\ staged'[c].reply = "none" /\ work'[c].phase = "running"
      /\ \/ /\ staged[c].step < Chunks /\ staged'[c].pc = "chunk"
            /\ work'[c].step = staged[c].step + 1
         \/ staged[c].step = Chunks /\ staged'[c].pc = "final"
  BY <1>2, SendSelf, StagedBoundsAssumption DEF ChunkDone
<1>4. ~Orphaned(c, "chunk")' /\ ~Orphaned(c, "final")'
  BY <1>1, <1>2 DEF Orphaned, Undisturbed
<1>5. OrphanInv(c)'
  BY <1>1, <1>2, <1>3 DEF OrphanInv, Undisturbed, StagedAt
<1>6. ASSUME c \in Writes PROVE WriteInv(c)' /\ EncodedInv(c)'
  <2>1. c \notin placed /\ temp[c] = Prefix(staged[c].step) /\ staged[c].step \in 1 .. Chunks
    BY <1>2, <1>6 DEF WriteInv, ChunkDone
  <2>2. Finals(c)' = {} /\ second' = second
    BY <1>4 DEF Finals, Orphaned, ChunkDone, disk
  <2>3. CASE staged[c].step < Chunks /\ staged'[c].pc = "chunk" /\ work'[c].step = staged[c].step + 1
    <3>1. work'[c].step \in 1 .. Chunks /\ work'[c].step - 1 = staged[c].step
      BY <2>1, <2>3, StagedBoundsAssumption
    <3>2. WriteInv(c)'
      BY <1>1, <1>3, <1>4, <2>1, <2>3, <3>1 DEF WriteInv, StagedAt, Underway
    <3>3. EncodedInv(c)'
      BY <1>1, <1>6, <2>1, <2>3, <2>2 DEF EncodedInv, StagedAt
    <3>4. QED BY <3>2, <3>3
  <2>4. CASE staged[c].step = Chunks /\ staged'[c].pc = "final"
    <3>1. WriteInv(c)'
      BY <1>1, <1>3, <1>4, <2>1, <2>4, PlanIsPrefix DEF WriteInv, StagedAt, Underway
    <3>2. work'[c].step = 0
      BY <1>2, <2>4, SendSelf, StagedBoundsAssumption DEF ChunkDone
    <3>3. EncodedInv(c)'
      BY <1>1, <1>6, <2>1, <2>4, <2>2, <3>2 DEF EncodedInv, StagedAt
    <3>4. QED BY <3>1, <3>3
  <2>5. QED BY <1>3, <2>3, <2>4
<1>7. ASSUME c \in Scripts PROVE ScriptInv(c)'
  <2>1. ~Ran(c)
    BY <1>2, <1>7 DEF ScriptInv, ChunkDone, StagedAt
  <2>2. QED BY <1>1, <1>3, <1>4, <2>1 DEF ScriptInv, StagedAt, Ran
<1>8. LeftInv(c)'
  BY <1>3 DEF LeftInv, StagedAt
<1>9. QED BY <1>5, <1>6, <1>7, <1>8

(* Abandoning a call leaves at most the process it awaited.                *)
LEMMA AbandonSelf ==
  ASSUME TypeOK, NEW c \in Calls, staged[c].pc \in Awaiting, Abandon(c), NEW kind
  PROVE  Orphaned(c, kind)' => Orphaned(c, kind) \/ (Underway(c) /\ staged[c].pc = kind)
<1>1. work[c].kind = staged[c].pc
  BY DEF TypeOK
<1>2. QED BY <1>1 DEF Abandon, Orphaned

LEMMA AbandonFinals ==
  ASSUME TypeOK, NEW c \in Calls, staged[c].pc \in Awaiting, Abandon(c), NEW p \in Finals(c)'
  PROVE  \/ p \in Finals(c)
         \/ /\ Underway(c) /\ StagedAt(c, "final")
            /\ p = [call |-> c, kind |-> "final", step |-> work[c].step]
<1>1. work[c].kind = staged[c].pc
  BY DEF TypeOK
<1>2. QED BY <1>1 DEF Abandon, Finals, StagedAt

(* A call that gives up, with an answer or without one.                    *)
LEMMA GiveUpInv ==
  ASSUME TypeOK, NEW c \in Calls, CallInv(c), staged[c].pc \in {"chunk", "final"},
         NEW reply \in {"failed", "ran", "notrun", "unknown"}, GiveUp(c, reply),
         UNCHANGED disk,
         \/ UNCHANGED <<orphans, losses>>
         \/ Abandon(c) /\ losses' = losses \cup {c},
         c \in Scripts => /\ Ran(c) <=> reply = "ran" \/ (reply = "unknown" /\ Ran(c))
                          /\ Orphaned(c, "final")' => reply = "unknown"
  PROVE  CallInv(c)'
<1> USE DEF CallInv
<1>1. temp' = temp /\ placed' = placed /\ ran' = ran
  BY DEF disk
<1>2. staged'[c].pc = "cleanup" /\ staged'[c].reply = reply /\ work'[c].phase = "running"
  BY GiveUpSelf
<1>3. c \notin losses /\ Undisturbed(c) /\ staged[c].reply = "none"
  BY DEF OrphanInv
<1>4. OrphanInv(c)'
  BY <1>2, <1>3 DEF OrphanInv, Undisturbed, StagedAt
<1>5. /\ Orphaned(c, "chunk")' => staged[c].pc = "chunk"
      /\ Orphaned(c, "final")' => staged[c].pc = "final" /\ Underway(c)
  <2>1. CASE UNCHANGED <<orphans, losses>>
    BY <1>3, <2>1 DEF Orphaned, Undisturbed
  <2>2. CASE Abandon(c)
    BY <1>3, <2>2, AbandonSelf, NoOrphans DEF Awaiting
  <2>3. QED BY <2>1, <2>2
<1>6. ASSUME c \in Writes PROVE WriteInv(c)' /\ EncodedInv(c)'
  <2>1. WriteInv(c)'
    BY <1>1, <1>2, <1>5, <1>6 DEF WriteInv, StagedAt, Underway
  <2>2. Finals(c) = {}
    BY <1>3, NoOrphans
  <2>3. \A p \in Finals(c)' : /\ Underway(c) /\ StagedAt(c, "final")
                              /\ p = [call |-> c, kind |-> "final", step |-> work[c].step]
    <3>1. CASE UNCHANGED <<orphans, losses>>
      BY <2>2, <3>1 DEF Finals
    <3>2. CASE Abandon(c)
      BY <2>2, <3>2, AbandonFinals DEF Awaiting
    <3>3. QED BY <3>1, <3>2
  <2>4. \A p \in Finals(c)' : c \in Encoded /\ p.step < 2 => c \notin placed
    BY <1>6, <2>3 DEF EncodedInv
  <2>5. EncodedInv(c)'
    BY <1>1, <1>2, <1>6, <2>3, <2>4 DEF EncodedInv, StagedAt, disk, Plan
  <2>6. QED BY <2>1, <2>5
<1>7. ASSUME c \in Scripts PROVE ScriptInv(c)'
  <2>1. Ran(c)' = Ran(c)
    BY <1>1 DEF Ran
  <2>2. QED BY <1>2, <1>7, <2>1 DEF ScriptInv, StagedAt
<1>8. LeftInv(c)'
  BY <1>2 DEF LeftInv, StagedAt
<1>9. QED BY <1>4, <1>6, <1>7, <1>8

(* A call that ends without an answer.                                     *)
LEMMA DroppedInv ==
  ASSUME TypeOK, NEW c \in Calls, CallInv(c), staged[c].pc \in Awaiting,
         NEW reply, NEW staging, Over(c, reply, staging), UNCHANGED disk,
         Abandon(c), losses' = losses \cup {c},
         reply = "none" \/ (StagedAt(c, "cleanup") /\ reply = staged[c].reply)
  PROVE  CallInv(c)'
<1> USE DEF CallInv
<1>1. temp' = temp /\ placed' = placed /\ ran' = ran /\ c \in losses'
  BY DEF disk
<1>2. staged'[c].pc = "over" /\ staged'[c].reply = reply
  BY OverSelf
<1>3. reply # "written"
  BY DEF OrphanInv, StagedAt
<1>4. OrphanInv(c)'
  BY <1>1, <1>2, <1>3 DEF OrphanInv, StagedAt
<1>5. /\ Orphaned(c, "chunk")' => Orphaned(c, "chunk") \/ staged[c].pc = "chunk"
      /\ Orphaned(c, "final")' => Orphaned(c, "final") \/ (staged[c].pc = "final" /\ Underway(c))
  BY AbandonSelf
<1>6. staged[c].pc \in {"chunk", "final"} => ~Orphaned(c, "chunk") /\ ~Orphaned(c, "final")
  BY NoOrphans DEF OrphanInv
<1>7. ASSUME c \in Writes PROVE WriteInv(c)' /\ EncodedInv(c)'
  <2>1. Orphaned(c, "final")' => temp[c] \in {Plan, Absent} /\ ~Orphaned(c, "chunk")'
    BY <1>5, <1>6, <1>7 DEF WriteInv, StagedAt
  <2>2. c \in placed => (c \notin Encoded => temp[c] = Absent) /\ ~Orphaned(c, "chunk")'
    BY <1>5, <1>7 DEF WriteInv, StagedAt
  <2>3. WriteInv(c)'
    BY <1>1, <1>2, <1>3, <2>1, <2>2 DEF WriteInv, StagedAt, Underway
  <2>4. staged[c].pc \in {"chunk", "final"} => Finals(c) = {}
    BY NoOrphans DEF OrphanInv
  <2>5. \A p \in Finals(c)' :
          \/ p \in Finals(c)
          \/ /\ Finals(c) = {} /\ Underway(c) /\ StagedAt(c, "final")
             /\ p = [call |-> c, kind |-> "final", step |-> work[c].step]
    BY <2>4, AbandonFinals DEF StagedAt
  <2>6. \A p \in Finals(c)' : /\ c \in Encoded /\ p.step < 2 => c \notin placed
                              /\ \A q \in Finals(c)' : q = p
    BY <1>7, <2>5 DEF EncodedInv
  <2>7. EncodedInv(c)'
    BY <1>1, <1>2, <1>7, <2>6 DEF EncodedInv, StagedAt, disk, Plan
  <2>8. QED BY <2>3, <2>7
<1>8. ASSUME c \in Scripts PROVE ScriptInv(c)'
  <2>1. Ran(c)' = Ran(c)
    BY <1>1 DEF Ran
  <2>2. QED BY <1>2, <1>5, <1>6, <1>8, <2>1 DEF ScriptInv, StagedAt
<1>9. LeftInv(c)'
  BY <1>1 DEF LeftInv
<1>10. QED BY <1>4, <1>7, <1>8, <1>9

LEMMA ChunkFailedInv ==
  ASSUME TypeOK, NEW c \in Calls, CallInv(c), ChunkFailed(c)
  PROVE  CallInv(c)'
<1>1. c \in Scripts => ~Ran(c) /\ ~Orphaned(c, "final")'
  BY NoOrphans DEF ChunkFailed, CallInv, OrphanInv, ScriptInv, StagedAt, Orphaned
<1>2. /\ staged[c].pc \in {"chunk", "final"}
      /\ UNCHANGED disk /\ UNCHANGED <<orphans, losses>>
  BY DEF ChunkFailed, StagedAt
<1>3. CASE c \in Writes
  BY <1>2, <1>3, GiveUpInv, StagedCallsAssumption DEF ChunkFailed
<1>4. CASE c \notin Writes
  BY <1>1, <1>2, <1>4, GiveUpInv DEF ChunkFailed
<1>5. QED BY <1>3, <1>4

LEMMA WriteAnsweredInv ==
  ASSUME TypeOK, NEW c \in Calls, CallInv(c), WriteAnswered(c)
  PROVE  CallInv(c)'
<1> USE DEF CallInv
<1>1. /\ c \in Writes /\ c \notin Scripts /\ staged[c].pc = "final"
      /\ UNCHANGED disk /\ UNCHANGED <<orphans, losses>>
  BY StagedCallsAssumption DEF WriteAnswered, StagedAt
<1>2. CASE GiveUp(c, "failed")
  BY <1>1, <1>2, GiveUpInv
<1>3. CASE work[c].phase = "ok" /\ Over(c, "written", "none")
  <2>1. staged'[c].pc = "over" /\ staged'[c].reply = "written" /\ staged'[c].staging = "none"
    BY <1>3, OverSelf
  <2>2. c \notin losses /\ Undisturbed(c) /\ c \in placed
    BY <1>1, <1>3 DEF OrphanInv, WriteInv, StagedAt
  <2>3. OrphanInv(c)'
    BY <1>1, <2>1, <2>2 DEF OrphanInv, Undisturbed, StagedAt
  <2>4. ~Orphaned(c, "chunk")' /\ ~Orphaned(c, "final")'
    BY <1>1, <2>2 DEF Undisturbed, Orphaned
  <2>5. WriteInv(c)' /\ EncodedInv(c)'
    <3>1. WriteInv(c)'
      BY <1>1, <2>1, <2>2, <2>4 DEF WriteInv, StagedAt, Underway, disk
    <3>2. EncodedInv(c)'
      BY <1>1, <2>1, <2>4 DEF EncodedInv, StagedAt, disk, Plan, Finals, Orphaned
    <3>3. QED BY <3>1, <3>2
  <2>6. LeftInv(c)'
    BY <1>1, <1>3, <2>1, <2>2 DEF LeftInv, Tidy, StagedAt, disk
  <2>7. QED BY <1>1, <2>3, <2>5, <2>6
<1>4. QED BY <1>2, <1>3 DEF WriteAnswered

LEMMA ScriptAnsweredInv ==
  ASSUME TypeOK, NEW c \in Calls, CallInv(c), ScriptAnswered(c)
  PROVE  CallInv(c)'
<1>1. /\ c \in Scripts /\ staged[c].pc = "final"
      /\ UNCHANGED disk /\ UNCHANGED <<orphans, losses>>
  BY DEF ScriptAnswered, StagedAt
<1>2. ~Orphaned(c, "final")'
  BY <1>1, NoOrphans DEF CallInv, OrphanInv, Orphaned
<1>3. CASE work[c].phase = "ok" /\ GiveUp(c, "ran")
  <2>1. Ran(c)
    BY <1>1, <1>3 DEF CallInv, ScriptInv, StagedAt
  <2>2. QED BY <1>1, <1>2, <1>3, <2>1, GiveUpInv
<1>4. CASE work[c].phase = "failed" /\ GiveUp(c, "notrun")
  <2>1. ~Ran(c)
    BY <1>1, <1>4 DEF CallInv, OrphanInv, ScriptInv, StagedAt
  <2>2. QED BY <1>1, <1>2, <1>4, <2>1, GiveUpInv
<1>5. QED BY <1>3, <1>4 DEF ScriptAnswered

LEMMA CleanupAnsweredInv ==
  ASSUME TypeOK, NEW c \in Calls, CallInv(c), CleanupAnswered(c)
  PROVE  CallInv(c)'
<1> USE DEF CallInv
<1>1. /\ temp' = temp /\ placed' = placed /\ ran' = ran
      /\ orphans' = orphans /\ losses' = losses /\ staged[c].pc = "cleanup"
  BY DEF CleanupAnswered, disk, StagedAt
<1>2. /\ staged'[c].pc = "over" /\ staged'[c].reply = staged[c].reply
      /\ staged'[c].staging = "gone" => work[c].phase = "ok"
  BY OverSelf DEF CleanupAnswered
<1>3. OrphanInv(c)'
  BY <1>1, <1>2 DEF OrphanInv, Undisturbed, StagedAt
<1>4. \A kind : Orphaned(c, kind)' = Orphaned(c, kind)
  BY <1>1 DEF Orphaned
<1>5. c \in Writes => WriteInv(c)' /\ EncodedInv(c)'
  <2>1. c \in Writes => WriteInv(c)'
    BY <1>1, <1>2, <1>4 DEF WriteInv, OrphanInv, StagedAt, Underway
  <2>2. c \in Writes => EncodedInv(c)'
    BY <1>1, <1>2 DEF EncodedInv, StagedAt, Finals, CleanupAnswered, disk, Plan
  <2>3. QED BY <2>1, <2>2
<1>6. ASSUME c \in Scripts PROVE ScriptInv(c)'
  <2>1. Ran(c)' = Ran(c)
    BY <1>1 DEF Ran
  <2>2. QED BY <1>1, <1>2, <1>4, <1>6, <2>1 DEF ScriptInv, StagedAt
<1>7. LeftInv(c)'
  <2>1. UNCHANGED <<temp, second, stuck, losses>> /\ ~Underway(c)
    BY DEF CleanupAnswered, disk
  <2>2. c \notin losses => (c \in Writes \/ staged'[c].staging = "gone" => Tidy(c))
    BY <1>1, <1>2, <2>1 DEF LeftInv, StagedAt, Underway
  <2>3. Tidy(c)' = Tidy(c)
    BY <2>1 DEF Tidy
  <2>4. QED BY <1>2, <2>1, <2>2, <2>3 DEF LeftInv, StagedAt
<1>8. QED BY <1>3, <1>5, <1>6, <1>7

LEMMA AnswerLostInv ==
  ASSUME TypeOK, NEW c \in Calls, CallInv(c), AnswerLost(c)
  PROVE  CallInv(c)'
<1>1. /\ UNCHANGED disk /\ Abandon(c) /\ losses' = losses \cup {c}
      /\ staged[c].pc \in Awaiting
  BY DEF AnswerLost
<1>2. CASE StagedAt(c, "chunk") /\ GiveUp(c, IF c \in Writes THEN "failed" ELSE "notrun")
  <2>1. c \in Scripts => ~Ran(c) /\ ~Orphaned(c, "final")'
    BY <1>1, <1>2, AbandonSelf, NoOrphans DEF CallInv, OrphanInv, ScriptInv, StagedAt
  <2>2. CASE c \in Writes
    BY <1>1, <1>2, <2>2, GiveUpInv, StagedCallsAssumption DEF StagedAt
  <2>3. CASE c \notin Writes
    BY <1>1, <1>2, <2>1, <2>3, GiveUpInv DEF StagedAt
  <2>4. QED BY <2>2, <2>3
<1>3. CASE StagedAt(c, "final") /\ GiveUp(c, IF c \in Writes THEN "failed" ELSE "unknown")
  <2>1. CASE c \in Writes
    BY <1>1, <1>3, <2>1, GiveUpInv, StagedCallsAssumption DEF StagedAt
  <2>2. CASE c \notin Writes
    BY <1>1, <1>3, <2>2, GiveUpInv DEF StagedAt
  <2>3. QED BY <2>1, <2>2
<1>4. CASE /\ StagedAt(c, "cleanup")
           /\ Over(c, staged[c].reply, IF c \in Writes THEN "none" ELSE "failed")
  BY <1>1, <1>4, DroppedInv
<1>5. QED BY <1>2, <1>3, <1>4 DEF AnswerLost

LEMMA CancelInv ==
  ASSUME TypeOK, NEW c \in Calls, CallInv(c), Cancel(c)
  PROVE  CallInv(c)'
  BY DroppedInv DEF Cancel

(* A script that runs has run.                                             *)
LEMMA RunSelf ==
  ASSUME NEW c \in Calls, RunEffect(c)
  PROVE  c \in Scripts /\ c \notin Writes /\ Ran(c)'
<1>1. c \in Scripts /\ c \notin Writes
  BY StagedCallsAssumption DEF RunEffect
<1>2. [call |-> c, chunks |-> temp[c]] \in ran'
  BY DEF RunEffect
<1>3. QED BY <1>1, <1>2 DEF Ran

(* The process of the call itself does its work.                           *)
LEMMA WorksSelf ==
  ASSUME TypeOK, NEW c \in Calls, Works(c)
  PROVE  /\ work'[c].kind = work[c].kind
         /\ GoesOn(c, work[c].kind, work[c].step) =>
              work'[c].phase = "running" /\ work'[c].step = work[c].step + 1
         /\ ~GoesOn(c, work[c].kind, work[c].step) =>
              work'[c].phase = "ok" /\ work'[c].step = work[c].step
<1>1. work[c] \in Work /\ work[c].phase = "running"
  BY DEF TypeOK, Works, Underway
<1>2. CASE GoesOn(c, work[c].kind, work[c].step)
  BY <1>1, <1>2 DEF Works, TypeOK, Work
<1>3. CASE ~GoesOn(c, work[c].kind, work[c].step)
  BY <1>1, <1>3 DEF Works, TypeOK, Work
<1>4. QED BY <1>2, <1>3

(* What a removal does.                                                    *)
CleanedUp(c) ==
  /\ temp'[c] \in {temp[c], Absent} /\ second'[c] \in {second[c], Absent}
  /\ Tidy(c)'

LEMMA CleanupSelf ==
  ASSUME TypeOK, NEW c \in Calls, CleanupEffect(c)
  PROVE  CleanedUp(c)
<1>1. CASE temp' = [temp EXCEPT ![c] = Absent] /\ second' = [second EXCEPT ![c] = Absent]
  BY <1>1 DEF CleanedUp, Tidy, TypeOK
<1>2. CASE /\ c \in Writes /\ stuck' = stuck \cup {c}
           /\ \/ UNCHANGED <<temp, second>>
              \/ temp' = [temp EXCEPT ![c] = Absent] /\ UNCHANGED second
              \/ second' = [second EXCEPT ![c] = Absent] /\ UNCHANGED temp
  BY <1>2 DEF CleanedUp, Tidy, TypeOK
<1>3. QED BY <1>1, <1>2 DEF CleanupEffect

(* A statement of the replacement of an encoded write.                     *)
LEMMA EncodedWorksInv ==
  ASSUME TypeOK, NEW c \in Calls, CallInv(c), Works(c), work[c].kind = "final",
         EncodedEffect(c, work[c].step)
  PROVE  WriteInv(c)' /\ EncodedInv(c)' /\ LeftInv(c)'
<1> USE DEF CallInv
<1>1. /\ staged' = staged /\ orphans' = orphans /\ losses' = losses /\ Underway(c)
      /\ c \in Writes /\ c \in Encoded /\ staged[c].pc = "final" /\ staged[c].reply # "written"
  BY StagedCallsAssumption DEF Works, EncodedEffect, TypeOK, OrphanInv, StagedAt
<1>2. /\ ~Orphaned(c, "chunk")' /\ ~Orphaned(c, "final")' /\ Finals(c)' = {} /\ temp[c] = Plan
      /\ second[c] \in {Plan, Absent}
  BY <1>1, NoOrphans DEF OrphanInv, WriteInv, EncodedInv, StagedAt, Orphaned, Finals
<1>3. CASE work[c].step = 0 /\ ConvertEffect(c)
  <2>1. work'[c].phase = "running" /\ work'[c].step = 1 /\ c \notin placed
    BY <1>1, <1>3, WorksSelf DEF GoesOn, EncodedInv, StagedAt
  <2>2. temp' = temp /\ placed' = placed /\ second'[c] = Plan
    BY <1>2, <1>3 DEF ConvertEffect, TypeOK
  <2>3. WriteInv(c)'
    BY <1>1, <1>2, <2>1, <2>2 DEF WriteInv, StagedAt, Underway
  <2>4. EncodedInv(c)'
    BY <1>1, <1>2, <2>1, <2>2 DEF EncodedInv, StagedAt, Plan
  <2>5. LeftInv(c)'
    BY <1>1, <2>1 DEF LeftInv, StagedAt
  <2>6. QED BY <2>3, <2>4, <2>5
<1>4. CASE work[c].step = 1 /\ ReplaceEffect(c)
  <2>1. work'[c].phase = "running" /\ work'[c].step = 2
    BY <1>1, <1>4, WorksSelf DEF GoesOn
  <2>2. temp' = temp /\ placed' = placed \cup {c} /\ second'[c] = Absent
    BY <1>4 DEF ReplaceEffect, Places, TypeOK
  <2>3. WriteInv(c)'
    BY <1>1, <1>2, <2>1, <2>2 DEF WriteInv, StagedAt, Underway
  <2>4. EncodedInv(c)'
    BY <1>1, <1>2, <2>1, <2>2 DEF EncodedInv, StagedAt
  <2>5. LeftInv(c)'
    BY <1>1, <2>1 DEF LeftInv, StagedAt
  <2>6. QED BY <2>3, <2>4, <2>5
<1>5. CASE work[c].step = 2 /\ RemoveEffect(c)
  <2>1. work'[c].phase = "ok" /\ c \in placed /\ second[c] = Absent
    BY <1>1, <1>5, WorksSelf DEF GoesOn, EncodedInv, StagedAt
  <2>2. /\ placed' = placed /\ second' = second
        /\ temp'[c] = Absent \/ c \in stuck'
    BY <1>5 DEF RemoveEffect, TypeOK
  <2>3. WriteInv(c)'
    BY <1>1, <1>2, <2>1, <2>2 DEF WriteInv, StagedAt, Underway
  <2>4. EncodedInv(c)'
    BY <1>1, <1>2, <2>1, <2>2 DEF EncodedInv, StagedAt, Underway
  <2>5. LeftInv(c)'
    BY <1>1, <2>1, <2>2 DEF LeftInv, Tidy, StagedAt
  <2>6. QED BY <2>3, <2>4, <2>5
<1>6. QED BY <1>3, <1>4, <1>5 DEF EncodedEffect

LEMMA WorksInv ==
  ASSUME TypeOK, NEW c \in Calls, CallInv(c), Works(c)
  PROVE  CallInv(c)'
<1> USE DEF CallInv
<1>1. /\ staged' = staged /\ orphans' = orphans /\ losses' = losses /\ Underway(c)
      /\ \/ work[c].kind = "final" /\ c \in Encoded
         \/ work'[c].phase = "ok" /\ work'[c].step = work[c].step
  BY WorksSelf DEF Works, GoesOn
<1>0. c \in Scripts => c \notin Encoded
  BY StagedCallsAssumption
<1>2. staged[c].pc = work[c].kind /\ staged[c].pc \in Awaiting
  BY DEF Works, Underway, TypeOK, HostEffect, Awaiting
<1>3. OrphanInv(c)'
  BY <1>1 DEF OrphanInv, Undisturbed, StagedAt
<1>4. \A kind : Orphaned(c, kind)' = Orphaned(c, kind)
  BY <1>1 DEF Orphaned
<1>5. staged[c].pc \in {"chunk", "final"} => ~Orphaned(c, "chunk") /\ ~Orphaned(c, "final")
  BY NoOrphans DEF OrphanInv
<1>11. Finals(c)' = Finals(c) /\ (staged[c].pc \in {"chunk", "final"} => Finals(c) = {})
  BY <1>1, NoOrphans DEF Finals, OrphanInv
<1>6. CASE work[c].kind = "chunk" /\ ChunkEffect(c, work[c].step)
  <2>1. staged[c].pc = "chunk" /\ placed' = placed /\ ran' = ran /\ second' = second
    BY <1>2, <1>6 DEF ChunkEffect
  <2>6. c \in Writes => EncodedInv(c)'
    BY <1>1, <1>11, <2>1 DEF EncodedInv, StagedAt, Plan
  <2>2. ASSUME c \in Writes PROVE WriteInv(c)'
    <3>1. work[c].step \in 1 .. Chunks /\ c \notin placed
      BY <2>1, <2>2 DEF WriteInv, StagedAt
    <3>2. temp'[c] = Prefix(work[c].step)
      <4>1. CASE work[c].step = 1
        BY <1>6, <3>1, <4>1, NextPrefix DEF ChunkEffect, TypeOK
      <4>2. CASE work[c].step # 1
        <5>1. temp[c] = Prefix(work[c].step - 1)
          BY <1>1, <2>1, <2>2, <4>2 DEF WriteInv, StagedAt
        <5>2. Prefix(work[c].step - 1) \in Seq(Nat)
          BY <3>1, StagedBoundsAssumption DEF Prefix
        <5>3. temp'[c] = Append(temp[c], work[c].step)
          BY <1>6, <4>2, <5>1, <5>2, AbsentAssumption DEF ChunkEffect, TypeOK
        <5>4. QED BY <3>1, <4>2, <5>1, <5>3, NextPrefix
      <4>3. QED BY <4>1, <4>2
    <3>3. QED BY <1>1, <1>4, <1>5, <1>6, <2>1, <2>2, <3>1, <3>2 DEF WriteInv, OrphanInv, StagedAt, Underway
  <2>3. ASSUME c \in Scripts PROVE ScriptInv(c)'
    <3>1. Ran(c)' = Ran(c)
      BY <2>1 DEF Ran
    <3>2. QED BY <1>1, <1>4, <2>1, <2>3, <3>1 DEF ScriptInv, StagedAt
  <2>4. LeftInv(c)'
    BY <1>1, <2>1 DEF LeftInv, StagedAt
  <2>5. QED BY <1>3, <2>2, <2>3, <2>4, <2>6
<1>7. CASE work[c].kind = "final" /\ WriteEffect(c)
  <2>1. /\ staged[c].pc = "final" /\ c \in placed' /\ temp'[c] = Absent /\ c \notin Scripts
        /\ c \in Writes /\ c \notin Encoded /\ second' = second /\ second[c] = Absent
    BY <1>2, <1>7, StagedCallsAssumption DEF WriteEffect, Places, TypeOK, EncodedInv
  <2>2. WriteInv(c)'
    BY <1>1, <1>4, <1>5, <2>1 DEF WriteInv, StagedAt, Underway
  <2>5. EncodedInv(c)'
    BY <1>11, <2>1 DEF EncodedInv
  <2>3. LeftInv(c)'
    BY <1>1, <2>1 DEF LeftInv, Tidy, StagedAt
  <2>4. QED BY <1>3, <2>1, <2>2, <2>3, <2>5
<1>12. CASE work[c].kind = "final" /\ EncodedEffect(c, work[c].step)
  <2>1. c \notin Scripts
    BY <1>12, StagedCallsAssumption DEF EncodedEffect
  <2>2. QED BY <1>3, <1>12, <2>1, EncodedWorksInv
<1>8. CASE work[c].kind = "final" /\ RunEffect(c)
  <2>1. staged[c].pc = "final" /\ Ran(c)' /\ c \in Scripts /\ c \notin Writes
    BY <1>2, <1>8, RunSelf
  <2>2. ScriptInv(c)'
    BY <1>0, <1>1, <1>4, <1>5, <2>1 DEF ScriptInv, StagedAt
  <2>3. LeftInv(c)'
    BY <1>1, <2>1 DEF LeftInv, StagedAt
  <2>4. QED BY <1>3, <2>1, <2>2, <2>3
<1>9. CASE work[c].kind = "cleanup" /\ CleanupEffect(c)
  <2>1. staged[c].pc = "cleanup" /\ placed' = placed /\ ran' = ran
    BY <1>2, <1>9 DEF CleanupEffect
  <2>6. CleanedUp(c)
    BY <1>9, CleanupSelf
  <2>2. c \in Writes => WriteInv(c)' /\ EncodedInv(c)'
    <3>1. c \in Writes => WriteInv(c)'
      BY <1>1, <1>4, <2>1, <2>6 DEF WriteInv, StagedAt, Underway, CleanedUp
    <3>2. c \in Writes => EncodedInv(c)'
      BY <1>1, <1>11, <2>1, <2>6 DEF EncodedInv, StagedAt, CleanedUp, Plan
    <3>3. QED BY <3>1, <3>2
  <2>3. ASSUME c \in Scripts PROVE ScriptInv(c)'
    <3>1. Ran(c)' = Ran(c)
      BY <2>1 DEF Ran
    <3>2. QED BY <1>1, <1>4, <2>1, <2>3, <3>1 DEF ScriptInv, StagedAt
  <2>4. LeftInv(c)'
    BY <1>1, <1>9, <2>1, <2>6 DEF LeftInv, StagedAt, CleanedUp
  <2>5. QED BY <1>3, <2>2, <2>3, <2>4
<1>10. QED BY <1>6, <1>7, <1>8, <1>9, <1>12 DEF Works, HostEffect

LEMMA FailsInv ==
  ASSUME TypeOK, NEW c \in Calls, CallInv(c), Fails(c)
  PROVE  CallInv(c)'
<1> USE DEF CallInv
<1>1. /\ staged' = staged /\ orphans' = orphans /\ losses' = losses
      /\ temp' = temp /\ placed' = placed /\ ran' = ran
      /\ work'[c].phase = "failed" /\ work'[c].step = work[c].step /\ Underway(c)
      /\ second' = second /\ ~Quiet(c, work[c].kind, work[c].step)
      /\ work[c].kind = IF staged[c].pc \in Awaiting THEN staged[c].pc ELSE "none"
  BY PhaseSelf DEF Fails, disk, TypeOK
<1>2. OrphanInv(c)'
  BY <1>1 DEF OrphanInv, Undisturbed, StagedAt
<1>3. \A kind : Orphaned(c, kind)' = Orphaned(c, kind)
  BY <1>1 DEF Orphaned
<1>4. c \in Writes => WriteInv(c)' /\ EncodedInv(c)'
  <2>1. c \in Writes => WriteInv(c)'
    BY <1>1, <1>3 DEF WriteInv, StagedAt, Underway
  <2>2. c \in Writes => EncodedInv(c)'
    BY <1>1 DEF EncodedInv, StagedAt, Underway, Finals, Plan
  <2>3. QED BY <2>1, <2>2
<1>5. ASSUME c \in Scripts PROVE ScriptInv(c)'
  <2>1. Ran(c)' = Ran(c)
    BY <1>1 DEF Ran
  <2>2. QED BY <1>1, <1>3, <1>5, <2>1 DEF ScriptInv, StagedAt, Underway
<1>6. LeftInv(c)'
  <2>1. ~(c \in Writes /\ StagedAt(c, "cleanup"))
    BY <1>1 DEF Quiet, StagedAt, Awaiting
  <2>2. Tidy(c)' = Tidy(c)
    BY DEF Fails, disk, Tidy
  <2>3. QED BY <1>1, <2>1, <2>2 DEF LeftInv, StagedAt
<1>7. QED BY <1>2, <1>4, <1>5, <1>6

LEMMA TamperInv ==
  ASSUME TypeOK, NEW c \in Calls, CallInv(c), Tamper(c)
  PROVE  CallInv(c)'
<1> USE DEF CallInv
<1>1. /\ staged' = staged /\ orphans' = orphans /\ losses' = losses
      /\ work' = work /\ ran' = ran /\ temp[c] # Absent
      /\ c \in Scripts /\ c \notin Writes
  BY StagedCallsAssumption DEF Tamper
<1>2. OrphanInv(c)'
  BY <1>1 DEF OrphanInv, Undisturbed, StagedAt
<1>3. ScriptInv(c)'
  <2>1. Ran(c)' = Ran(c) /\ Orphaned(c, "final")' = Orphaned(c, "final")
    BY <1>1 DEF Ran, Orphaned
  <2>2. QED BY <1>1, <2>1 DEF ScriptInv, StagedAt
<1>4. LeftInv(c)'
  BY <1>1 DEF LeftInv, Tidy, StagedAt
<1>5. QED BY <1>1, <1>2, <1>3, <1>4

(* A process nobody awaits executes a statement, or ends without.          *)
LEMMA OrphanWorksInv ==
  ASSUME TypeOK, NEW c \in Calls, CallInv(c), NEW p \in orphans, p.call = c,
         OrphanWorks(p)
  PROVE  CallInv(c)'
<1> USE DEF CallInv
<1> DEFINE q == [p EXCEPT !.step = p.step + 1]
<1>1. /\ staged' = staged /\ work' = work /\ losses' = losses /\ Orphaned(c, p.kind)
      /\ p \in Orphans /\ HostEffect(c, p.kind, p.step)
      /\ orphans' = (orphans \ {p}) \cup
                       (IF GoesOn(c, p.kind, p.step) THEN {q} ELSE {})
  BY DEF OrphanWorks, Orphaned, TypeOK
<1>2. c \in losses /\ staged[c].pc \notin {"idle", "chunk", "final"}
      /\ staged[c].reply # "written"
  BY DEF OrphanInv, Undisturbed
<1>3. OrphanInv(c)'
  BY <1>1, <1>2 DEF OrphanInv, StagedAt
<1>4. q.call = c /\ q.kind = p.kind /\ q.step = p.step + 1
  BY <1>1 DEF Orphans
<1>5. \A kind : Orphaned(c, kind)' => Orphaned(c, kind)
  BY <1>1, <1>4 DEF Orphaned
<1>6. LeftInv(c)'
  BY <1>1, <1>2 DEF LeftInv
<1>7. Finals(c)' \subseteq (Finals(c) \ {p}) \cup {q}
  BY <1>1, <1>4 DEF Finals
<1>8. CASE p.kind = "chunk" /\ ChunkEffect(c, p.step)
  <2>1. placed' = placed /\ ran' = ran /\ second' = second /\ Finals(c)' = Finals(c)
    BY <1>1, <1>4, <1>8 DEF ChunkEffect, GoesOn, Finals
  <2>2. Ran(c)' = Ran(c)
    BY <2>1 DEF Ran
  <2>3. c \in Writes => WriteInv(c)' /\ EncodedInv(c)'
    <3>1. c \in Writes => WriteInv(c)'
      BY <1>1, <1>2, <1>5, <1>8, <2>1 DEF WriteInv, StagedAt, Underway
    <3>2. c \in Writes => EncodedInv(c)'
      BY <1>1, <1>2, <2>1 DEF EncodedInv, StagedAt, Plan
    <3>3. QED BY <3>1, <3>2
  <2>4. c \in Scripts => ScriptInv(c)'
    BY <1>1, <1>5, <2>2 DEF ScriptInv, StagedAt
  <2>5. QED BY <1>3, <1>6, <2>3, <2>4
<1>9. CASE p.kind = "final" /\ WriteEffect(c)
  <2>1. /\ temp'[c] = Absent /\ c \in Writes /\ c \notin Scripts /\ c \notin Encoded
        /\ second' = second /\ Finals(c)' \subseteq Finals(c)
    BY <1>1, <1>9, StagedCallsAssumption DEF WriteEffect, Places, TypeOK, GoesOn, Finals
  <2>2. ~Orphaned(c, "chunk")
    BY <1>1, <1>9, <2>1 DEF WriteInv
  <2>3. WriteInv(c)'
    BY <1>1, <1>2, <1>5, <2>1, <2>2 DEF WriteInv, StagedAt, Underway
  <2>4. EncodedInv(c)'
    BY <1>1, <1>2, <2>1 DEF EncodedInv, StagedAt, Plan
  <2>5. QED BY <1>3, <1>6, <2>1, <2>3, <2>4
<1>10. CASE p.kind = "final" /\ EncodedEffect(c, p.step)
  <2>1. /\ c \in Encoded /\ c \in Writes /\ c \notin Scripts /\ p \in Finals(c)
        /\ Finals(c) = {p} /\ temp[c] \in {Plan, Absent} /\ ~Orphaned(c, "chunk")
        /\ second[c] \in {Plan, Absent}
    <3>1. c \in Encoded /\ c \in Writes /\ c \notin Scripts /\ p \in Finals(c)
      BY <1>10, StagedCallsAssumption DEF EncodedEffect, Finals
    <3>2. Finals(c) = {p}
      BY <3>1 DEF EncodedInv
    <3>3. QED BY <1>1, <1>10, <3>1, <3>2 DEF WriteInv, EncodedInv
  <2>2. CASE p.step = 0 /\ ConvertEffect(c)
    <3>1. temp' = temp /\ placed' = placed /\ second'[c] = Plan /\ c \notin placed
      BY <2>1, <2>2 DEF ConvertEffect, EncodedInv, TypeOK
    <3>2. Finals(c)' \subseteq {q} /\ q.step = 1
      BY <1>4, <1>7, <2>1, <2>2
    <3>3. WriteInv(c)'
      BY <1>1, <1>2, <1>5, <2>1, <3>1 DEF WriteInv, StagedAt, Underway
    <3>4. EncodedInv(c)'
      BY <1>1, <1>2, <2>1, <3>1, <3>2 DEF EncodedInv, StagedAt, Plan
    <3>5. QED BY <1>3, <1>6, <2>1, <3>3, <3>4
  <2>3. CASE p.step = 1 /\ ReplaceEffect(c)
    <3>1. temp' = temp /\ placed' = placed \cup {c} /\ second'[c] = Absent
      BY <2>3 DEF ReplaceEffect, Places, TypeOK
    <3>2. Finals(c)' \subseteq {q} /\ q.step = 2
      BY <1>4, <1>7, <2>1, <2>3
    <3>3. WriteInv(c)'
      BY <1>1, <1>2, <1>5, <2>1, <3>1 DEF WriteInv, StagedAt, Underway
    <3>4. EncodedInv(c)'
      <4>1. \A r \in Finals(c)' : r = q /\ r.step = 2
        BY <3>2
      <4>2. c \in placed' /\ second'[c] = Absent /\ ~(staged'[c].pc = "final")
        BY <1>1, <1>2, <3>1
      <4>3. QED BY <2>1, <4>1, <4>2 DEF EncodedInv, StagedAt
    <3>5. QED BY <1>3, <1>6, <2>1, <3>3, <3>4
  <2>4. CASE p.step = 2 /\ RemoveEffect(c)
    <3>1. temp'[c] \in {temp[c], Absent} /\ placed' = placed /\ second' = second
      BY <2>4 DEF RemoveEffect, TypeOK
    <3>2. Finals(c)' = {}
      BY <1>1, <2>1, <2>4 DEF GoesOn, Finals
    <3>3. WriteInv(c)'
      BY <1>1, <1>2, <1>5, <2>1, <3>1 DEF WriteInv, StagedAt, Underway
    <3>4. EncodedInv(c)'
      BY <1>1, <1>2, <2>1, <3>1, <3>2 DEF EncodedInv, StagedAt, Plan
    <3>5. QED BY <1>3, <1>6, <2>1, <3>3, <3>4
  <2>5. QED BY <1>10, <2>2, <2>3, <2>4 DEF EncodedEffect
<1>11. CASE p.kind = "final" /\ RunEffect(c)
  <2>1. c \in Scripts /\ c \notin Writes /\ Ran(c)'
    BY <1>11, RunSelf
  <2>2. ScriptInv(c)'
    BY <1>1, <1>5, <1>11, <2>1 DEF ScriptInv, StagedAt
  <2>3. QED BY <1>3, <1>6, <2>1, <2>2
<1>12. CASE p.kind = "cleanup" /\ CleanupEffect(c)
  <2>1. placed' = placed /\ ran' = ran /\ Finals(c)' = Finals(c)
    BY <1>1, <1>4, <1>12 DEF CleanupEffect, GoesOn, Finals
  <2>2. Ran(c)' = Ran(c)
    BY <2>1 DEF Ran
  <2>3. CleanedUp(c)
    BY <1>12, CleanupSelf
  <2>4. c \in Writes => WriteInv(c)' /\ EncodedInv(c)'
    <3>1. c \in Writes => WriteInv(c)'
      BY <1>1, <1>2, <1>5, <2>1, <2>3 DEF WriteInv, StagedAt, Underway, CleanedUp
    <3>2. c \in Writes => EncodedInv(c)'
      BY <1>1, <1>2, <2>1, <2>3 DEF EncodedInv, StagedAt, CleanedUp, Plan
    <3>3. QED BY <3>1, <3>2
  <2>5. c \in Scripts => ScriptInv(c)'
    BY <1>1, <1>5, <2>2 DEF ScriptInv, StagedAt
  <2>6. QED BY <1>3, <1>6, <2>4, <2>5
<1>13. QED BY <1>1, <1>8, <1>9, <1>10, <1>11, <1>12 DEF HostEffect

LEMMA OrphanEndsInv ==
  ASSUME TypeOK, NEW c \in Calls, CallInv(c), NEW p \in orphans, p.call = c,
         OrphanEnds(p)
  PROVE  CallInv(c)'
<1> USE DEF CallInv
<1>1. /\ staged' = staged /\ work' = work /\ losses' = losses /\ UNCHANGED disk
      /\ orphans' \subseteq orphans
  BY DEF OrphanEnds
<1>2. c \in losses /\ staged[c].pc \notin {"idle", "chunk", "final"}
      /\ staged[c].reply # "written"
  BY DEF OrphanInv, Undisturbed
<1>3. OrphanInv(c)'
  BY <1>1, <1>2 DEF OrphanInv, StagedAt
<1>4. (\A kind : Orphaned(c, kind)' => Orphaned(c, kind)) /\ Finals(c)' \subseteq Finals(c)
  BY <1>1 DEF Orphaned, Finals
<1>5. LeftInv(c)'
  BY <1>1, <1>2 DEF LeftInv
<1>6. Ran(c)' = Ran(c)
  BY <1>1 DEF disk, Ran
<1>7. c \in Writes => WriteInv(c)'
  BY <1>1, <1>2, <1>4 DEF WriteInv, StagedAt, Underway, disk
<1>8. c \in Writes => EncodedInv(c)'
  BY <1>1, <1>2, <1>4 DEF EncodedInv, StagedAt, disk, Plan
<1>9. c \in Scripts => ScriptInv(c)'
  BY <1>1, <1>4, <1>6 DEF ScriptInv, StagedAt
<1>10. QED BY <1>3, <1>5, <1>7, <1>8, <1>9

LEMMA ActsInv ==
  ASSUME TypeOK, NEW c \in Calls, CallInv(c), Acts(c)
  PROVE  CallInv(c)'
  BY ConfirmInv, ChunkDoneInv, ChunkFailedInv, WriteAnsweredInv, ScriptAnsweredInv,
     CleanupAnsweredInv, AnswerLostInv, CancelInv, WorksInv, FailsInv, TamperInv,
     OrphanWorksInv, OrphanEndsInv
  DEF Acts, Progress, HostStep

-----------------------------------------------------------------------------
(* The invariant holds.                                                    *)

LEMMA StagedInitially == Init => StagedInv
<1> SUFFICES ASSUME Init PROVE StagedInv
  OBVIOUS
<1>1. ASSUME NEW c \in Calls PROVE CallInv(c)
  <2>1. /\ staged[c] = Idle /\ work[c] = NoWork /\ temp[c] = Absent /\ second[c] = Absent
        /\ orphans = {} /\ placed = {} /\ ran = {} /\ losses = {} /\ stuck = {}
    BY DEF Init
  <2>2. QED
    BY <2>1 DEF CallInv, OrphanInv, WriteInv, EncodedInv, ScriptInv, LeftInv, Undisturbed,
                Orphaned, Finals, Ran, StagedAt, Underway, Idle, NoWork
<1>2. QED BY <1>1, TypeInitially DEF StagedInv

LEMMA StagedStep == StagedInv /\ [Next]_vars => StagedInv'
<1> SUFFICES ASSUME StagedInv, [Next]_vars PROVE StagedInv'
  OBVIOUS
<1>1. TypeOK /\ TypeOK'
  BY TypeStep DEF StagedInv
<1>2. ASSUME NEW d \in Calls PROVE CallInv(d)'
  <2>1. CallInv(d)
    BY DEF StagedInv
  <2>2. CASE ForeignWrite \/ UNCHANGED vars
    <3>1. Same(d)
      BY <2>2 DEF ForeignWrite, vars, disk, Same
    <3>2. QED BY <2>1, <3>1, SameInv
  <2>3. ASSUME NEW c \in Calls, Acts(c) PROVE CallInv(d)'
    BY <1>1, <2>1, <2>3, ActsInv, OtherCalls, SameInv
  <2>4. QED BY <1>1, <2>2, <2>3, Actors
<1>3. QED BY <1>1, <1>2 DEF StagedInv

THEOREM StagedInvariant == Spec => []StagedInv
  BY StagedInitially, StagedStep, PTL DEF Spec

-----------------------------------------------------------------------------
(* What runs, and what is left.                                            *)

(* Every script that ran was the confirmed one.                            *)
OnlyPlansRan == \A r \in ran : r.chunks = Plan

LEMMA OnlyPlansStep == OnlyPlansRan /\ [Next]_vars => OnlyPlansRan'
<1> SUFFICES ASSUME OnlyPlansRan, [Next]_vars PROVE OnlyPlansRan'
  OBVIOUS
<1>1. ASSUME NEW c, NEW kind, NEW i, HostEffect(c, kind, i) PROVE OnlyPlansRan'
  BY <1>1
  DEF HostEffect, ChunkEffect, WriteEffect, EncodedEffect, ConvertEffect, ReplaceEffect,
      RemoveEffect, RunEffect, CleanupEffect, OnlyPlansRan
<1>2. CASE ran' = ran
  BY <1>2 DEF OnlyPlansRan
<1>3. QED
  BY <1>1, <1>2
  DEF Next, vars, disk, Progress, HostStep, Confirm, ChunkDone, ChunkFailed, WriteAnswered,
      ScriptAnswered, CleanupAnswered, AnswerLost, Cancel, Works, Fails, Tamper, OrphanWorks,
      OrphanEnds, ForeignWrite

(* Only the confirmed script runs, and the reply tells truly whether it    *)
(* ran, for every number of chunks, calls, lost answers and changes of the *)
(* staging files (TR-EXE-06).                                              *)
THEOREM OnlyConfirmedRuns == Spec => []ConfirmedRuns
<1>1. Init => OnlyPlansRan
  BY DEF Init, OnlyPlansRan
<1>2. StagedInv /\ OnlyPlansRan => ConfirmedRuns
  <2> SUFFICES ASSUME StagedInv, OnlyPlansRan PROVE ConfirmedRuns
    OBVIOUS
  <2>1. ASSUME NEW c \in Scripts
        PROVE  /\ staged[c].reply = "ran" => Ran(c)
               /\ staged[c].reply = "notrun" => ~Ran(c)
    BY DEF StagedInv, Calls, CallInv, OrphanInv, ScriptInv, StagedAt
  <2>2. QED BY <2>1 DEF ConfirmedRuns, OnlyPlansRan, Ran
<1>3. QED BY <1>1, <1>2, OnlyPlansStep, StagedInvariant, PTL DEF Spec

(* Nothing is left on the host by a call whose answers all arrived but     *)
(* what the host refused to remove, for every number of chunks, whatever   *)
(* step failed (TR-FS-05, write_abort, script_cleanup).                    *)
THEOREM NothingIsLeft == Spec => []NothingLeft
<1>1. StagedInv => NothingLeft
  <2> SUFFICES ASSUME StagedInv, NEW c \in Calls, StagedAt(c, "over"), c \notin losses
               PROVE  /\ c \in Writes /\ (temp[c] # Absent \/ second[c] # Absent) => c \in stuck
                      /\ c \in Scripts /\ staged[c].staging = "gone" => temp[c] = Absent
    BY DEF NothingLeft
  <2>1. CallInv(c) /\ (c \in Scripts => c \notin Writes)
    BY StagedCallsAssumption DEF StagedInv
  <2>2. QED BY <2>1 DEF CallInv, LeftInv, Tidy
<1>2. QED BY <1>1, StagedInvariant, PTL

-----------------------------------------------------------------------------
(* The writes implement FilePlacement.                                     *)

(* The abstract view of one write.                                         *)
Promised(c) == IF StagedAt(c, "idle") THEN Absent ELSE Placed(c)

LEMMA PlacementInitially == Init => Placement!Init
<1> SUFFICES ASSUME Init PROVE Placement!Init
  OBVIOUS
<1>1. \A c \in Writes : StagedAt(c, "idle") /\ staged[c].reply = "none"
  BY DEF Init, Calls, StagedAt, Idle
<1>2. \A c \in Writes : Verdict(c) = "open"
  BY <1>1 DEF Verdict, StagedAt
<1>3. QED BY <1>1, <1>2 DEF Init, Placement!Init

(* A step that changes neither the target nor the abstract view of a write.*)
LEMMA Unseen ==
  ASSUME target' = target, placed' = placed,
         \A c \in Writes : Promised(c)' = Promised(c) /\ Verdict(c)' = Verdict(c)
  PROVE  UNCHANGED Placement!vars
<1>1. [c \in Writes |-> Promised(c)]' = [c \in Writes |-> Promised(c)]
  OBVIOUS
<1>2. [c \in Writes |-> Verdict(c)]' = [c \in Writes |-> Verdict(c)]
  OBVIOUS
<1>3. QED BY <1>1, <1>2 DEF Placement!vars, Promised

(* A step of call c that leaves the target alone and goes on or ends is a  *)
(* report, perhaps of nothing.                                             *)
LEMMA ReportStep ==
  ASSUME NEW c \in Calls, target' = target, placed' = placed,
         \A d \in Calls : d # c => staged'[d] = staged[d],
         staged[c].pc \in Awaiting, staged'[c].pc \in Awaiting \cup {"over"},
         staged[c].reply # "written",
         c \in Writes /\ staged'[c].reply = "written" => c \in placed
  PROVE  Placement!Report
<1> DEFINE told == [d \in Writes |-> Verdict(d)']
<1>1. \A d \in Writes : d # c => Verdict(d)' = Verdict(d) /\ Promised(d)' = Promised(d)
  BY DEF Verdict, Promised, Placed, Plan, StagedAt, Calls
<1>2. c \in Writes => Verdict(c) = "open" /\ Promised(c)' = Promised(c)
  BY DEF Verdict, Promised, Placed, Plan, StagedAt, Awaiting
<1>3. c \in Writes => Verdict(c)' \in {"open", "placed", "unknown"}
                       /\ (Verdict(c)' = "placed" => c \in placed)
  BY DEF Verdict
<1>4. \A d \in Writes : Verdict(d) \in {"open", "placed", "unknown"}
  BY DEF Verdict
<1>5. told \in [Writes -> {"open", "placed", "untouched", "unknown"}]
  BY <1>1, <1>3, <1>4
<1>6. \A d \in Writes : \/ told[d] = Verdict(d)
                        \/ /\ Verdict(d) = "open" /\ told[d] # "untouched"
                           /\ told[d] = "placed" => d \in placed
  BY <1>1, <1>2, <1>3
<1>7. [d \in Writes |-> Promised(d)]' = [d \in Writes |-> Promised(d)]
  BY <1>1, <1>2
<1>8. \A d \in Writes :
        /\ Verdict(d) # "open" => told[d] = Verdict(d)
        /\ Verdict(d) = "open" /\ told[d] = "placed" => d \in placed
        /\ Verdict(d) = "open" /\ told[d] = "untouched" => d \notin placed
  BY <1>6
<1>9. QED BY <1>5, <1>7, <1>8 DEF Placement!Report, Promised

(* A confirmation is a promise.                                            *)
LEMMA PromiseStep ==
  ASSUME TypeOK, NEW c \in Calls, CallInv(c), Confirm(c)
  PROVE  [Placement!Next]_(Placement!vars)
<1>1. /\ target' = target /\ placed' = placed /\ staged[c].pc = "idle"
      /\ staged'[c].pc = "chunk" /\ staged[c].reply = "none" /\ staged'[c].reply = "none"
  BY SendSelf DEF Confirm, disk, StagedAt, CallInv, OrphanInv
<1>2. \A d \in Calls : d # c => staged'[d] = staged[d]
  BY DEF Confirm, Send, TypeOK
<1>3. \A d \in Writes : Verdict(d)' = Verdict(d)
  BY <1>1, <1>2 DEF Verdict, StagedAt, Calls
<1>4. \A d \in Writes : d # c => Promised(d)' = Promised(d)
  BY <1>2 DEF Promised, Placed, Plan, StagedAt, Calls
<1>5. CASE c \in Writes
  <2>1. Promised(c) = Absent /\ Promised(c)' = Placed(c) /\ Verdict(c) = "open"
    BY <1>1 DEF Promised, Verdict, Placed, Plan, StagedAt
  <2>2. [d \in Writes |-> Promised(d)]'
          = [[d \in Writes |-> Promised(d)] EXCEPT ![c] = Placed(c)]
    BY <1>4, <1>5, <2>1
  <2>3. [d \in Writes |-> Verdict(d)]' = [d \in Writes |-> Verdict(d)]
    BY <1>3
  <2>4. Placed(c) \in {Foreign} \cup {Placed(d) : d \in Writes}
    BY <1>5
  <2>5. Placement!Promise(c)
    BY <1>1, <1>5, <2>1, <2>2, <2>3, <2>4 DEF Placement!Promise, Promised
  <2>6. QED BY <1>5, <2>5 DEF Placement!Next
<1>6. CASE c \notin Writes
  BY <1>1, <1>3, <1>4, <1>6, Unseen
<1>7. QED BY <1>5, <1>6

(* A replacement, awaited or not, is the one placement of its call.        *)
LEMMA PlaceStep ==
  ASSUME NEW c \in Writes, CallInv(c), Places(c, Plan), c \notin placed, staged' = staged,
         ~StagedAt(c, "idle")
  PROVE  Placement!Next
<1>1. c \in Calls
  BY DEF Calls
<1>2. target' = Placed(c) /\ placed' = placed \cup {c}
  BY DEF Places, Placed
<1>3. Promised(c) = Placed(c) /\ Placed(c) # Absent
  BY <1>1, PlanType, AbsentAssumption DEF Promised, Placed
<1>4. Verdict(c) \in {"open", "unknown"}
  BY <1>1 DEF CallInv, WriteInv, Verdict
<1>5. [d \in Writes |-> Promised(d)]' = [d \in Writes |-> Promised(d)]
      /\ [d \in Writes |-> Verdict(d)]' = [d \in Writes |-> Verdict(d)]
  BY DEF Promised, Verdict, Placed, Plan, StagedAt
<1>6. Placement!Place(c)
  BY <1>1, <1>2, <1>3, <1>4, <1>5 DEF Placement!Place, Promised
<1>7. QED BY <1>1, <1>6 DEF Placement!Next

(* A host command of a call, awaited or not.                                 *)
LEMMA EffectPlaces ==
  ASSUME TypeOK, NEW c \in Calls, CallInv(c), NEW kind, NEW i, HostEffect(c, kind, i),
         staged' = staged, ~StagedAt(c, "idle"),
         c \in Writes /\ kind = "final" =>
           temp[c] \in {Plan, Absent} /\ (c \in Encoded /\ i < 2 => c \notin placed)
  PROVE  [Placement!Next]_(Placement!vars)
<1>1. CASE kind = "final" /\ WriteEffect(c)
  <2>1. c \in Writes /\ Places(c, Plan)
    BY <1>1 DEF WriteEffect
  <2>2. c \notin placed
    BY <1>1, <2>1 DEF WriteEffect, CallInv, WriteInv
  <2>3. QED BY <2>1, <2>2, PlaceStep
<1>2. CASE kind = "final" /\ c \in Encoded /\ i = 1 /\ ReplaceEffect(c)
  <2>1. c \in Writes /\ c \notin placed
    BY <1>2, StagedCallsAssumption
  <2>2. Places(c, Plan)
    BY <1>2, <2>1 DEF ReplaceEffect, CallInv, EncodedInv
  <2>3. QED BY <2>1, <2>2, PlaceStep
<1>3. CASE \/ ChunkEffect(c, i) \/ RunEffect(c) \/ CleanupEffect(c)
           \/ ConvertEffect(c) \/ RemoveEffect(c)
  <2>1. target' = target /\ placed' = placed
    BY <1>3 DEF ChunkEffect, RunEffect, CleanupEffect, ConvertEffect, RemoveEffect
  <2>2. \A d \in Writes : Promised(d)' = Promised(d) /\ Verdict(d)' = Verdict(d)
    BY DEF Promised, Verdict, Placed, Plan, StagedAt
  <2>3. QED BY <2>1, <2>2, Unseen
<1>4. QED BY <1>1, <1>2, <1>3 DEF HostEffect, EncodedEffect

LEMMA PlacementStep ==
  StagedInv /\ [Next]_vars => [Placement!Next]_(Placement!vars)
<1> SUFFICES ASSUME StagedInv, [Next]_vars PROVE [Placement!Next]_(Placement!vars)
  OBVIOUS
<1>1. TypeOK /\ \A c \in Calls : CallInv(c)
  BY DEF StagedInv
<1>2. ASSUME staged' = staged
      PROVE  \A d \in Writes : Promised(d)' = Promised(d) /\ Verdict(d)' = Verdict(d)
  BY <1>2 DEF Promised, Verdict, Placed, Plan, StagedAt
<1>3. CASE UNCHANGED vars
  BY <1>2, <1>3, Unseen DEF vars, disk
<1>4. CASE ForeignWrite
  <2>1. /\ [d \in Writes |-> Promised(d)]' = [d \in Writes |-> Promised(d)]
        /\ [d \in Writes |-> Verdict(d)]' = [d \in Writes |-> Verdict(d)]
    BY <1>2, <1>4 DEF ForeignWrite
  <2>2. Placement!Elsewhere
    BY <1>4, <2>1 DEF ForeignWrite, Placement!Elsewhere, Promised
  <2>3. QED BY <2>2 DEF Placement!Next
<1>5. ASSUME NEW c \in Calls, Acts(c) PROVE [Placement!Next]_(Placement!vars)
  <2>1. /\ CallInv(c) /\ \A d \in Calls : d # c => staged'[d] = staged[d]
        /\ staged[c].pc \in Awaiting => staged[c].reply # "written"
    BY <1>1, <1>5, OtherCalls DEF Same, CallInv, OrphanInv, StagedAt, Awaiting
  <2>2. CASE Confirm(c)
    BY <1>1, <2>1, <2>2, PromiseStep
  <2>3. ASSUME NEW kind \in Awaiting, NEW i, Send(c, kind, i), UNCHANGED disk,
               staged[c].pc \in {"chunk", "final"}
        PROVE  Placement!Next
    <3>1. staged'[c].pc = kind /\ staged'[c].reply = staged[c].reply
      BY <1>1, <2>3, SendSelf
    <3>2. QED BY <2>1, <2>3, <3>1, ReportStep DEF Placement!Next, disk, Awaiting
  <2>4. ASSUME NEW reply, GiveUp(c, reply), UNCHANGED disk, reply # "written",
               staged[c].pc \in Awaiting
        PROVE  Placement!Next
    <3>1. staged'[c].pc = "cleanup" /\ staged'[c].reply = reply
      BY <1>1, <2>4, GiveUpSelf
    <3>2. QED BY <2>1, <2>4, <3>1, ReportStep DEF Placement!Next, disk, Awaiting
  <2>5. ASSUME NEW reply, NEW staging, Over(c, reply, staging), UNCHANGED disk,
               staged[c].pc \in Awaiting, c \in Writes /\ reply = "written" => c \in placed
        PROVE  Placement!Next
    <3>1. staged'[c].pc = "over" /\ staged'[c].reply = reply
      BY <1>1, <2>5, OverSelf
    <3>2. QED BY <2>1, <2>5, <3>1, ReportStep DEF Placement!Next, disk
  <2>6. CASE ChunkDone(c) \/ ChunkFailed(c)
    BY <2>3, <2>4, <2>6 DEF ChunkDone, ChunkFailed, StagedAt, Awaiting
  <2>7. CASE WriteAnswered(c)
    <3>1. work[c].phase = "ok" => c \in placed
      BY <2>1, <2>7 DEF WriteAnswered, CallInv, WriteInv
    <3>2. QED BY <2>4, <2>5, <2>7, <3>1 DEF WriteAnswered, StagedAt, Awaiting
  <2>8. CASE ScriptAnswered(c)
    BY <2>4, <2>8 DEF ScriptAnswered, StagedAt, Awaiting
  <2>9. CASE CleanupAnswered(c)
    BY <2>1, <2>5, <2>9 DEF CleanupAnswered, StagedAt, Awaiting
  <2>10. CASE AnswerLost(c)
    BY <2>1, <2>4, <2>5, <2>10 DEF AnswerLost, StagedAt, Awaiting
  <2>11. CASE Cancel(c)
    BY <2>5, <2>11 DEF Cancel
  <2>12. CASE Works(c)
    <3>1. /\ HostEffect(c, work[c].kind, work[c].step) /\ staged' = staged
          /\ staged[c].pc = work[c].kind /\ Underway(c) /\ ~StagedAt(c, "idle")
      BY <1>1, <2>12 DEF Works, TypeOK, HostEffect, StagedAt
    <3>2. c \in Writes /\ work[c].kind = "final" =>
            temp[c] = Plan /\ (c \in Encoded /\ work[c].step < 2 => c \notin placed)
      BY <2>1, <3>1 DEF CallInv, WriteInv, EncodedInv, StagedAt
    <3>3. QED BY <1>1, <2>1, <3>1, <3>2, EffectPlaces
  <2>13. CASE Fails(c)
    BY <1>2, <2>13, Unseen DEF Fails, disk
  <2>14. CASE Tamper(c)
    BY <1>2, <2>14, Unseen DEF Tamper
  <2>15. ASSUME NEW p \in orphans, p.call = c, OrphanWorks(p) \/ OrphanEnds(p)
         PROVE  [Placement!Next]_(Placement!vars)
    <3>1. staged' = staged /\ ~StagedAt(c, "idle") /\ Orphaned(c, p.kind)
      BY <2>1, <2>15
      DEF OrphanWorks, OrphanEnds, CallInv, OrphanInv, Undisturbed, Orphaned, StagedAt
    <3>2. CASE OrphanEnds(p)
      BY <1>2, <3>1, <3>2, Unseen DEF OrphanEnds, disk
    <3>3. CASE OrphanWorks(p)
      <4>1. HostEffect(c, p.kind, p.step)
        BY <2>15, <3>3 DEF OrphanWorks
      <4>2. p.kind = "final" => p \in Finals(c)
        BY <2>15 DEF Finals
      <4>3. c \in Writes /\ p.kind = "final" =>
              temp[c] \in {Plan, Absent} /\ (c \in Encoded /\ p.step < 2 => c \notin placed)
        BY <2>1, <3>1, <4>2 DEF CallInv, WriteInv, EncodedInv
      <4>4. QED BY <1>1, <2>1, <3>1, <4>1, <4>3, EffectPlaces
    <3>4. QED BY <2>15, <3>2, <3>3
  <2>16. QED
    BY <1>5, <2>2, <2>6, <2>7, <2>8, <2>9, <2>10, <2>11, <2>12, <2>13, <2>14, <2>15
    DEF Acts, Progress, HostStep
<1>6. QED BY <1>1, <1>3, <1>4, <1>5, Actors

(* write_file implements FilePlacement: whatever is lost, dropped or late, *)
(* the target changes at most once per call, as a whole, to the confirmed  *)
(* content, and what is reported of it is true (TR-FS-05).                 *)
THEOREM WritesAreWhole == Spec => WholeWrites
  BY PlacementInitially, PlacementStep, StagedInvariant, PTL
  DEF Spec, WholeWrites, Placement!Spec

-----------------------------------------------------------------------------
(* A call goes forward only.                                               *)

(* The statements left to the command of a call.                           *)
PlanStatements(c) == IF ~Underway(c) THEN 0 ELSE IF StagedAt(c, "final") THEN 3 - work[c].step ELSE 1

(* The steps left to a call: for each command that it still sends its      *)
(* statements and the answer.                                              *)
PlanStepsLeft(c) ==
  PlanStatements(c) +
    CASE StagedAt(c, "idle") -> 2 * Chunks + 7
      [] StagedAt(c, "chunk") -> 2 * (Chunks - staged[c].step) + 7
      [] StagedAt(c, "final") -> 3
      [] StagedAt(c, "cleanup") -> 1
      [] StagedAt(c, "over") -> 0

(* Every step of a call, and of a host process whose answer it awaits,     *)
(* brings it nearer to its end.                                            *)
EachStepCounts ==
  /\ [](\A c \in Calls : PlanStepsLeft(c) \in 0 .. 2 * Chunks + 7)
  /\ [][\A c \in Calls :
          staged'[c] # staged[c] \/ work'[c] # work[c] => PlanStepsLeft(c)' < PlanStepsLeft(c)]_vars

StepInv(c) ==
  /\ StagedAt(c, "chunk") => staged[c].step \in 1 .. Chunks
  /\ StagedAt(c, "final") /\ Underway(c) => work[c].step \in 0 .. 2
  /\ staged[c].pc \in {"idle", "over"} => ~Underway(c)

LEMMA StepsLeftType ==
  ASSUME TypeOK, NEW c \in Calls, StepInv(c)
  PROVE  PlanStepsLeft(c) \in 0 .. 2 * Chunks + 7
<1>1. /\ staged[c].pc \in {"idle", "chunk", "final", "cleanup", "over"}
      /\ staged[c].step \in 0 .. Chunks /\ Chunks \in Nat \ {0}
  BY StagedBoundsAssumption DEF TypeOK, Call, Awaiting
<1>2. CASE StagedAt(c, "idle") \/ StagedAt(c, "over")
  <2>1. ~Underway(c)
    BY <1>2 DEF StepInv, StagedAt
  <2>2. QED BY <1>1, <1>2, <2>1 DEF PlanStepsLeft, PlanStatements, StagedAt
<1>3. CASE StagedAt(c, "chunk")
  <2>1. staged[c].step \in 1 .. Chunks
    BY <1>3 DEF StepInv
  <2>2. PlanStepsLeft(c) = (IF Underway(c) THEN 1 ELSE 0) + (2 * (Chunks - staged[c].step) + 7)
    BY <1>3 DEF PlanStepsLeft, PlanStatements, StagedAt
  <2>3. QED BY <1>1, <2>1, <2>2
<1>4. CASE StagedAt(c, "final") \/ StagedAt(c, "cleanup")
  BY <1>1, <1>4 DEF PlanStepsLeft, PlanStatements, StepInv, StagedAt
<1>5. QED BY <1>1, <1>2, <1>3, <1>4 DEF StagedAt

(* A command is sent, or the call ends.                                    *)
LEMMA SentLeft ==
  ASSUME TypeOK, NEW c \in Calls, NEW kind \in Awaiting, NEW i \in 0 .. Chunks,
         Send(c, kind, i) \/ (kind = "cleanup" /\ i = 0 /\ \E reply : GiveUp(c, reply)),
         IF kind = "chunk" THEN i >= 1 ELSE i = 0
  PROVE  /\ StepInv(c)'
         /\ PlanStepsLeft(c)' = IF kind = "chunk" THEN 2 * (Chunks - i) + 8
                            ELSE IF kind = "final" THEN 6 ELSE 2
<1>1. /\ staged'[c].pc = kind /\ staged'[c].step = i
      /\ work'[c].phase = "running" /\ work'[c].step = i
  <2>1. staged[c] \in Call
    BY DEF TypeOK
  <2>2. CASE Send(c, kind, i)
    BY <2>1, <2>2, SendSelf DEF Send, TypeOK, Call, Process
  <2>3. CASE \E reply : GiveUp(c, reply) /\ kind = "cleanup" /\ i = 0
    <3>1. PICK reply : GiveUp(c, reply)
      BY <2>3
    <3>2. staged'[c] = [staged[c] EXCEPT !.pc = "cleanup", !.step = 0, !.reply = reply]
      BY <3>1 DEF GiveUp, TypeOK
    <3>3. staged'[c].step = 0
      BY <2>1, <3>2 DEF Call
    <3>4. work'[c].step = 0
      BY <3>1 DEF GiveUp, TypeOK, Process
    <3>5. QED BY <2>3, <3>1, <3>3, <3>4, GiveUpSelf
  <2>4. QED BY <2>2, <2>3
<1>2. StepInv(c)'
  BY <1>1 DEF StepInv, StagedAt, Awaiting
<1>3. Chunks \in Nat /\ i \in Nat
  BY StagedBoundsAssumption
<1>4. CASE kind = "chunk"
  <2>1. PlanStepsLeft(c)' = 1 + (2 * (Chunks - i) + 7)
    BY <1>1, <1>4 DEF PlanStepsLeft, PlanStatements, StagedAt, Underway
  <2>2. QED BY <1>2, <1>3, <1>4, <2>1
<1>5. CASE kind # "chunk"
  BY <1>1, <1>2, <1>5 DEF PlanStepsLeft, PlanStatements, StagedAt, Underway, Awaiting
<1>6. QED BY <1>4, <1>5

LEMMA OverLeft ==
  ASSUME TypeOK, NEW c \in Calls, NEW reply, NEW staging, Over(c, reply, staging)
  PROVE  StepInv(c)' /\ PlanStepsLeft(c)' = 0
<1>1. staged'[c].pc = "over" /\ work'[c].phase = "none"
  BY OverSelf
<1>2. QED BY <1>1 DEF StepInv, PlanStepsLeft, PlanStatements, StagedAt, Underway

(* What is left while an answer is awaited.                                *)
LEMMA AwaitedLeft ==
  ASSUME TypeOK, NEW c \in Calls, StepInv(c), staged[c].pc \in Awaiting
  PROVE  /\ PlanStepsLeft(c) >= 1
         /\ staged[c].pc \in {"chunk", "final"} => PlanStepsLeft(c) >= 3
         /\ StagedAt(c, "chunk") => /\ staged[c].step \in 1 .. Chunks
                              /\ PlanStepsLeft(c) >= 2 * (Chunks - staged[c].step) + 7
<1>1. Chunks \in Nat /\ staged[c].step \in 0 .. Chunks
  BY StagedBoundsAssumption DEF TypeOK, Call
<1>2. CASE StagedAt(c, "chunk")
  <2>1. staged[c].step \in 1 .. Chunks
    BY <1>2 DEF StepInv
  <2>2. PlanStepsLeft(c) = (IF Underway(c) THEN 1 ELSE 0) + (2 * (Chunks - staged[c].step) + 7)
    BY <1>2 DEF PlanStepsLeft, PlanStatements, StagedAt
  <2>3. QED BY <1>1, <2>1, <2>2
<1>3. CASE ~StagedAt(c, "chunk")
  BY <1>3 DEF PlanStepsLeft, PlanStatements, StepInv, StagedAt, Awaiting
<1>4. QED BY <1>2, <1>3

LEMMA ActsForward ==
  ASSUME TypeOK, NEW c \in Calls, StepInv(c), Acts(c)
  PROVE  /\ StepInv(c)'
         /\ staged'[c] # staged[c] \/ work'[c] # work[c] => PlanStepsLeft(c)' < PlanStepsLeft(c)
<1>1. Chunks \in Nat \ {0} /\ staged[c] \in Call /\ work[c] \in Work
  BY StagedBoundsAssumption DEF TypeOK
<1>2. PlanStepsLeft(c) \in 0 .. 2 * Chunks + 7
  BY StepsLeftType
<1> DEFINE Good == StepInv(c)' /\ PlanStepsLeft(c)' < PlanStepsLeft(c)
<1>3. ASSUME NEW reply, GiveUp(c, reply), staged[c].pc \in {"chunk", "final"} PROVE Good
  <2>1. StepInv(c)' /\ PlanStepsLeft(c)' = 2
    BY <1>1, <1>3, SentLeft DEF Awaiting
  <2>2. PlanStepsLeft(c) >= 3
    BY <1>3, AwaitedLeft DEF Awaiting
  <2>3. QED BY <1>2, <2>1, <2>2
<1>4. ASSUME NEW reply, NEW staging, Over(c, reply, staging), staged[c].pc \in Awaiting PROVE Good
  <2>1. StepInv(c)' /\ PlanStepsLeft(c)' = 0
    BY <1>4, OverLeft
  <2>2. PlanStepsLeft(c) >= 1
    BY <1>4, AwaitedLeft
  <2>3. QED BY <1>2, <2>1, <2>2
<1>5. CASE Confirm(c)
  <2>1. StagedAt(c, "idle") /\ Send(c, "chunk", 1)
    BY <1>5 DEF Confirm
  <2>2. StepInv(c)' /\ PlanStepsLeft(c)' = 2 * (Chunks - 1) + 8
    BY <1>1, <2>1, SentLeft DEF Awaiting
  <2>3. PlanStepsLeft(c) = 2 * Chunks + 7
    BY <1>1, <2>1 DEF PlanStepsLeft, PlanStatements, StepInv, StagedAt
  <2>4. QED BY <1>1, <2>2, <2>3
<1>6. CASE ChunkDone(c)
  <2>1. StagedAt(c, "chunk") /\ staged[c].pc \in Awaiting
    BY <1>6 DEF ChunkDone, StagedAt, Awaiting
  <2>2. staged[c].step \in 1 .. Chunks /\ PlanStepsLeft(c) >= 2 * (Chunks - staged[c].step) + 7
    BY <2>1, AwaitedLeft
  <2>3. CASE staged[c].step < Chunks
    <3>1. Send(c, "chunk", staged[c].step + 1)
      BY <1>6, <2>3 DEF ChunkDone
    <3>2. staged[c].step + 1 \in 0 .. Chunks /\ staged[c].step + 1 >= 1
      BY <1>1, <2>2, <2>3
    <3>3. StepInv(c)' /\ PlanStepsLeft(c)' = 2 * (Chunks - (staged[c].step + 1)) + 8
      BY <3>1, <3>2, SentLeft DEF Awaiting
    <3>4. QED BY <1>1, <1>2, <2>2, <3>3
  <2>4. CASE ~(staged[c].step < Chunks)
    <3>1. Send(c, "final", 0)
      BY <1>6, <2>4 DEF ChunkDone
    <3>2. StepInv(c)' /\ PlanStepsLeft(c)' = 6
      BY <1>1, <3>1, SentLeft DEF Awaiting
    <3>3. QED BY <1>1, <1>2, <2>2, <3>2
  <2>5. QED BY <2>3, <2>4
<1>7. CASE ChunkFailed(c) \/ WriteAnswered(c) \/ ScriptAnswered(c) \/ CleanupAnswered(c)
  BY <1>3, <1>4, <1>7
  DEF ChunkFailed, WriteAnswered, ScriptAnswered, CleanupAnswered, StagedAt, Awaiting
<1>8. CASE AnswerLost(c) \/ Cancel(c)
  BY <1>3, <1>4, <1>8 DEF AnswerLost, Cancel, StagedAt, Awaiting
<1>9. CASE HostStep(c)
  <2>1. Underway(c) /\ staged'[c] = staged[c]
    BY <1>9 DEF HostStep, Works, Fails
  <2>2. /\ staged[c].pc \in {"chunk", "final", "cleanup"} /\ staged[c].step \in 0 .. Chunks
        /\ staged[c].pc = work[c].kind
    BY <1>1, <2>1 DEF StepInv, Call, Awaiting, TypeOK
  <2>3. CASE ~Underway(c)'
    <3>1. StepInv(c)'
      BY <2>1, <2>3 DEF StepInv, StagedAt
    <3>2. PlanStepsLeft(c)' < PlanStepsLeft(c)
      BY <1>1, <2>1, <2>2, <2>3 DEF PlanStepsLeft, PlanStatements, StepInv, StagedAt
    <3>3. QED BY <3>1, <3>2
  <2>4. CASE Underway(c)'
    <3>1. Works(c) /\ GoesOn(c, work[c].kind, work[c].step)
      <4>1. ~Fails(c)
        BY <2>4, PhaseSelf DEF Fails, Underway
      <4>2. Works(c)
        BY <1>9, <4>1 DEF HostStep
      <4>3. QED BY <2>4, <4>2, WorksSelf DEF Underway
    <3>2. /\ staged[c].pc = "final" /\ work'[c].step = work[c].step + 1
          /\ work[c].step \in {0, 1}
      <4>1. work[c].step \in 0 .. 2 /\ work[c].step < 2
        BY <2>1, <2>2, <3>1 DEF GoesOn, StepInv, StagedAt
      <4>2. QED BY <2>2, <3>1, <4>1, WorksSelf DEF GoesOn
    <3>3. StepInv(c)'
      BY <2>1, <3>2 DEF StepInv, StagedAt
    <3>4. PlanStatements(c)' < PlanStatements(c) /\ PlanStatements(c) \in Nat /\ PlanStatements(c)' \in Nat
      BY <2>1, <2>4, <3>2 DEF PlanStatements, StagedAt
    <3>5. PlanStepsLeft(c)' < PlanStepsLeft(c)
      BY <2>1, <3>2, <3>4 DEF PlanStepsLeft, StagedAt
    <3>6. QED BY <3>3, <3>5
  <2>5. QED BY <2>3, <2>4
<1>10. CASE Tamper(c) \/ \E p \in orphans : OrphanWorks(p) \/ OrphanEnds(p)
  BY <1>10 DEF Tamper, OrphanWorks, OrphanEnds, StepInv, StagedAt, Underway
<1>11. QED BY <1>5, <1>6, <1>7, <1>8, <1>9, <1>10 DEF Acts, Progress

(* The chunks, the final command and the removal (server.rs): no command   *)
(* is sent twice, a failed or lost one ends the plan, and a call has ended *)
(* after at most two steps for each of its Chunks + 2 commands, and two    *)
(* more for the statements of an encoded replacement.                      *)
THEOREM StepsGoForward == Spec => EachStepCounts
<1> DEFINE SInv == \A c \in Calls : StepInv(c)
           Counts == \A c \in Calls :
             staged'[c] # staged[c] \/ work'[c] # work[c] => PlanStepsLeft(c)' < PlanStepsLeft(c)
<1>1. Init => SInv
  BY DEF Init, StepInv, StagedAt, Underway, Idle, NoWork
<1>2. TypeOK /\ SInv /\ [Next]_vars => SInv' /\ [Counts]_vars
  <2> SUFFICES ASSUME TypeOK, SInv, [Next]_vars PROVE SInv' /\ Counts
    OBVIOUS
  <2>1. ASSUME NEW d \in Calls
        PROVE  /\ StepInv(d)'
               /\ staged'[d] # staged[d] \/ work'[d] # work[d] => PlanStepsLeft(d)' < PlanStepsLeft(d)
    <3>1. CASE staged'[d] = staged[d] /\ work'[d] = work[d]
      BY <3>1 DEF StepInv, StagedAt, Underway
    <3>2. CASE Acts(d)
      BY <3>2, ActsForward
    <3>3. ASSUME NEW c \in Calls, Acts(c), c # d PROVE staged'[d] = staged[d] /\ work'[d] = work[d]
      BY <3>3, OtherCalls DEF Same
    <3>4. CASE ForeignWrite \/ UNCHANGED vars
      BY <3>1, <3>4 DEF ForeignWrite, vars
    <3>5. QED BY <3>1, <3>2, <3>3, <3>4, Actors
  <2>2. QED BY <2>1
<1>3. TypeOK /\ SInv => \A c \in Calls : PlanStepsLeft(c) \in 0 .. 2 * Chunks + 7
  BY StepsLeftType
<1> HIDE DEF SInv, Counts
<1>4. Spec => [][Counts]_vars /\ [](\A c \in Calls : PlanStepsLeft(c) \in 0 .. 2 * Chunks + 7)
  BY <1>1, <1>2, <1>3, StagedTypeCorrect, PTL DEF Spec
<1>5. QED BY <1>4, PTL DEF EachStepCounts, Counts

=============================================================================
