------------------------- MODULE HostChangesProofs -------------------------
(***************************************************************************)
(* Proofs about the tools that change services, processes, registry values *)
(* and the DNS cache, for every set of calls, of requests and of services, *)
(* and for every number of changes by others.                              *)
(*                                                                         *)
(* A step belongs to one call, and it is one of six effects (CallEffect).  *)
(***************************************************************************)
EXTENDS HostChanges, TLAPS

-----------------------------------------------------------------------------
(* The invariant: how far a call is, and which steps its command has.      *)

AskFields == {"pc", "request", "reads", "saw", "first", "shown", "answer", "reply"}
JobFields == {"pc", "started", "failed"}

ChangeShape ==
  /\ DOMAIN ask = ChangeCalls /\ DOMAIN job = ChangeCalls
  /\ \A c \in ChangeCalls : DOMAIN ask[c] = AskFields /\ DOMAIN job[c] = JobFields

FreeTools == {"start_service", "kill_process", "set_registry", "flush_dns", "run_command"}

(* The steps of the host command of a request.                             *)
Steps(r) ==
  CASE r.tool = "restart_service" -> {"resolve", "restop", "start", "settle"}
    [] r.tool = "stop_service" ->
         {"resolve", "dependents", "stop", "look"} \cup (IF r.arg = "disable" THEN {"disable"} ELSE {})
    [] r.tool = "set_service_start_type" -> {"resolve", "dependents", "config", "delay", "look"}
    [] r.tool = "start_service" -> {"start", "settle"}
    [] r.tool = "kill_process"  -> {"kill", "settle"}
    [] r.tool = "set_registry"  -> {"key", "write", "settle"}
    [] r.tool = "flush_dns"     -> {"flush", "settle"}
    [] r.tool = "run_command"   -> {"run", "settle"}

FirstJob(r) ==
  CASE r.tool \in Gated         -> "resolve"
    [] r.tool = "start_service" -> "start"
    [] r.tool = "kill_process"  -> "kill"
    [] r.tool = "set_registry"  -> "key"
    [] r.tool = "flush_dns"     -> "flush"
    [] r.tool = "run_command"   -> "run"

Requested(r) == (\E c \in ChangeCalls : r \in ChangeRequests[c]) /\ r.tool \in Gated \cup FreeTools

(* After the resolution the target of a gated tool is an exact name that   *)
(* is not protected.                                                       *)
Resolved(r, pc) ==
  r.tool \in Gated /\ pc # "resolve" => r.form = "name" /\ r.target \notin Protected

AskInv(c) ==
  /\ ask[c].pc \in {"idle", "read"} => ask[c].shown = FALSE
  /\ ask[c].pc \in {"read", "prompt"} => Requested(AskedFor(c)) /\ ask[c].first = FirstJob(AskedFor(c))
  /\ ask[c].pc = "prompt" => ask[c].shown = TRUE
  /\ ask[c].pc \in {"idle", "read", "prompt"} => ask[c].answer = "open" /\ job[c].pc = "none"
  /\ ask[c].pc = "host" => ask[c].answer = "agreed"
  /\ ask[c].pc = "over" => ask[c].answer # "open"

JobInv(c) ==
  job[c].pc # "none" =>
    /\ Requested(AskedFor(c)) /\ ask[c].answer = "agreed" /\ ask[c].shown = TRUE
    /\ job[c].pc \in Steps(AskedFor(c))
    /\ Resolved(AskedFor(c), job[c].pc)

(* A deed belongs to a call that is past its prompt.                       *)
DeedInv ==
  \A d \in deeds :
    /\ d.call \in ChangeCalls /\ ask[d.call].pc \in {"host", "over"}
    /\ ask[d.call].answer = "agreed"
    /\ AskedFor(d.call).tool \in Gated => d.place[2] \notin Protected

ChangeInv ==
  /\ ChangeShape /\ DeedInv
  /\ \A c \in ChangeCalls : ask[c].pc \in {"idle", "read", "prompt", "host", "over"}
  /\ \A c \in ChangeCalls : AskInv(c) /\ JobInv(c)

-----------------------------------------------------------------------------
(* The effects of a step of call c.                                        *)

Only(c) == \A e \in ChangeCalls : e # c => ask'[e] = ask[e] /\ job'[e] = job[e]

SameCall(c) == ask'[c].request = ask[c].request /\ ask'[c].shown = ask[c].shown

AskEffect(c) ==
  /\ ask[c].pc = "idle" /\ Requested(AskedFor(c)') /\ ask'[c].first = FirstJob(AskedFor(c)')
  /\ ask'[c].answer = "open" /\ UNCHANGED <<job, deeds>>
  /\ \/ ask'[c].pc = "read" /\ ask'[c].shown = FALSE
     \/ ask'[c].pc = "prompt" /\ ask'[c].shown = TRUE

RefuseEffect(c) ==
  /\ ask[c].pc = "idle" /\ ask'[c].pc = "over" /\ ask'[c].answer = "refused"
  /\ ask'[c].shown = FALSE /\ UNCHANGED <<job, deeds>>

ReadEffect(c) ==
  /\ ask[c].pc = "read" /\ ask'[c].pc = "prompt" /\ ask'[c].shown = TRUE
  /\ ask'[c].request = ask[c].request /\ ask'[c].first = ask[c].first
  /\ ask'[c].answer = ask[c].answer /\ UNCHANGED <<job, deeds>>

AgreeEffect(c) ==
  /\ ask[c].pc = "prompt" /\ ask'[c].pc = "host" /\ ask'[c].answer = "agreed" /\ SameCall(c)
  /\ job'[c].pc = ask[c].first /\ UNCHANGED deeds

OverEffect(c) ==
  /\ ask[c].pc \in {"prompt", "host"} /\ ask'[c].pc = "over" /\ SameCall(c)
  /\ ask'[c].answer = (IF ask[c].answer = "open" THEN "refused" ELSE ask[c].answer)
  /\ UNCHANGED <<job, deeds>>

(* A step of the host command, which may answer.                           *)
JobEffect(c) ==
  /\ job[c].pc # "none" /\ SameCall(c) /\ ask'[c].answer = ask[c].answer
  /\ ask'[c].pc = ask[c].pc \/ (ask[c].pc = "host" /\ ask'[c].pc = "over")
  /\ \/ job'[c].pc = "none"
     \/ job'[c].pc \in Steps(AskedFor(c)) /\ Resolved(AskedFor(c), job'[c].pc)
  /\ \/ deeds' = deeds
     \/ \E p \in Named(c) : \E what :
          /\ deeds' = deeds \cup {[call |-> c, place |-> p, what |-> what]}
          /\ AskedFor(c).tool \in Gated => p[2] \notin Protected

CallEffect(c) ==
  \/ AskEffect(c) \/ RefuseEffect(c) \/ ReadEffect(c) \/ AgreeEffect(c) \/ OverEffect(c) \/ JobEffect(c)

Result(c) == CallEffect(c) /\ Only(c) /\ ChangeShape'

-----------------------------------------------------------------------------
(* Every step of a call has one of the effects.                            *)

LEMMA RefusedResult ==
  ASSUME ChangeShape, NEW c \in ChangeCalls, NEW r, ask[c].pc = "idle", Refused(c, r),
         UNCHANGED <<job, deeds>>
  PROVE  Result(c)
<1> DEFINE new == [Unasked EXCEPT !.pc = "over", !.request = r, !.answer = "refused", !.reply = "refused"]
<1>1. new.pc = "over" /\ new.answer = "refused" /\ new.shown = FALSE /\ DOMAIN new = AskFields
  BY DEF Unasked, AskFields
<1>2. ask' = [ask EXCEPT ![c] = new]
  BY DEF Refused
<1> HIDE DEF new
<1>3. RefuseEffect(c) /\ Only(c) /\ ChangeShape'
  BY <1>1, <1>2 DEF RefuseEffect, Only, ChangeShape
<1>4. QED BY <1>3 DEF Result, CallEffect

LEMMA BeginResult ==
  ASSUME ChangeShape, NEW c \in ChangeCalls, NEW r \in ChangeRequests[c], NEW reads, NEW first,
         r.tool \in Gated \cup FreeTools, first = FirstJob(r),
         ask[c].pc = "idle", Begin(c, r, reads, first), UNCHANGED <<job, deeds>>
  PROVE  Result(c)
<1> DEFINE new == [Unasked EXCEPT !.request = r, !.reads = reads, !.first = first,
                                  !.pc = IF reads = "nothing" THEN "prompt" ELSE "read",
                                  !.shown = reads = "nothing"]
<1>1. /\ new.request = r /\ new.first = first /\ new.answer = "open" /\ DOMAIN new = AskFields
      /\ \/ new.pc = "read" /\ new.shown = FALSE
         \/ new.pc = "prompt" /\ new.shown = TRUE
  BY DEF Unasked, AskFields
<1>2. ask' = [ask EXCEPT ![c] = new]
  BY DEF Begin
<1> HIDE DEF new
<1>3. ask'[c] = new
  BY <1>2 DEF ChangeShape
<1>4. AskEffect(c)
  BY <1>1, <1>3 DEF AskEffect, AskedFor, Requested
<1>5. Only(c) /\ ChangeShape'
  BY <1>1, <1>2 DEF Only, ChangeShape
<1>6. QED BY <1>4, <1>5 DEF Result, CallEffect

LEMMA AskResult ==
  ASSUME ChangeShape, NEW c \in ChangeCalls, ChangeAsk(c)
  PROVE  Result(c)
<1>1. ask[c].pc = "idle" /\ UNCHANGED <<job, deeds>>
  BY DEF ChangeAsk
<1>2. PICK r \in ChangeRequests[c] :
        \/ RestartService(c, r) \/ StopService(c, r) \/ SetServiceStartType(c, r) \/ StartService(c, r)
        \/ KillProcess(c, r) \/ SetRegistry(c, r) \/ FlushDnsCache(c, r) \/ CommandTool(c, r)
        \/ ChangeRefuse(c, r)
  BY DEF ChangeAsk
<1>3. CASE ChangeRefuse(c, r)
  BY <1>1, <1>3, RefusedResult DEF ChangeRefuse
<1>4. CASE RestartService(c, r) \/ StopService(c, r) \/ SetServiceStartType(c, r)
  <2>1. PICK reads : Begin(c, r, reads, "resolve")
    BY <1>4 DEF RestartService, StopService, SetServiceStartType
  <2>2. r.tool \in Gated
    BY <1>4 DEF RestartService, StopService, SetServiceStartType, Gated
  <2>3. FirstJob(r) = "resolve"
    BY <2>2 DEF FirstJob, Gated
  <2>4. QED BY <1>1, <2>1, <2>2, <2>3, BeginResult
<1>5. CASE StartService(c, r) \/ KillProcess(c, r) \/ SetRegistry(c, r) \/ FlushDnsCache(c, r) \/ CommandTool(c, r)
  <2>1. r.tool \in FreeTools
    BY <1>5 DEF StartService, KillProcess, SetRegistry, FlushDnsCache, CommandTool, FreeTools
  <2>2. PICK reads : Begin(c, r, reads, FirstJob(r))
    BY <1>5 DEF StartService, KillProcess, SetRegistry, FlushDnsCache, CommandTool, FirstJob, Gated
  <2>3. QED BY <1>1, <2>1, <2>2, BeginResult
<1>6. QED BY <1>2, <1>3, <1>4, <1>5

LEMMA OverResult ==
  ASSUME ChangeShape, NEW c \in ChangeCalls, NEW reply, ask[c].pc \in {"prompt", "host"},
         ChangeOver(c, reply), UNCHANGED <<job, deeds>>
  PROVE  Result(c)
<1>1. OverEffect(c) /\ Only(c) /\ ChangeShape'
  BY DEF ChangeOver, OverEffect, SameCall, Only, ChangeShape, AskFields
<1>2. QED BY <1>1 DEF Result, CallEffect

LEMMA ReadResult ==
  ASSUME ChangeShape, NEW c \in ChangeCalls, ReadState(c)
  PROVE  Result(c)
<1>1. PICK saw : ask' = [ask EXCEPT ![c].pc = "prompt", ![c].saw = saw, ![c].shown = TRUE]
  BY DEF ReadState
<1>2. ask[c].pc = "read" /\ UNCHANGED <<job, deeds>>
  BY DEF ReadState
<1>3. ReadEffect(c) /\ Only(c) /\ ChangeShape'
  BY <1>1, <1>2 DEF ReadEffect, Only, ChangeShape, AskFields
<1>4. QED BY <1>3 DEF Result, CallEffect

LEMMA ConfirmResult ==
  ASSUME ChangeShape, NEW c \in ChangeCalls, ChangeConfirm(c)
  PROVE  Result(c)
<1>1. ask[c].pc = "prompt" /\ UNCHANGED deeds
  BY DEF ChangeConfirm
<1>2. CASE ChangeOver(c, "refused") /\ UNCHANGED job
  BY <1>1, <1>2, OverResult
<1>3. CASE /\ ask' = [ask EXCEPT ![c].pc = "host", ![c].answer = "agreed"]
           /\ job' = [job EXCEPT ![c].pc = ask[c].first]
  <2>1. AgreeEffect(c) /\ Only(c) /\ ChangeShape'
    BY <1>1, <1>3 DEF AgreeEffect, SameCall, Only, ChangeShape, AskFields, JobFields
  <2>2. QED BY <2>1 DEF Result, CallEffect
<1>4. QED BY <1>2, <1>3 DEF ChangeConfirm

(* The command goes on, with or without a deed.                            *)
Deed(c) ==
  \/ deeds' = deeds
  \/ \E p \in Named(c) : \E what :
       /\ deeds' = deeds \cup {[call |-> c, place |-> p, what |-> what]}
       /\ AskedFor(c).tool \in Gated => p[2] \notin Protected

Proceeds(c, pc) ==
  /\ DOMAIN job' = ChangeCalls /\ \A e \in ChangeCalls : DOMAIN job'[e] = JobFields
  /\ \A e \in ChangeCalls : e # c => job'[e] = job[e]
  /\ job'[c].pc = pc

LEMMA ProceedsResult ==
  ASSUME ChangeShape, NEW c \in ChangeCalls, NEW pc \in Steps(AskedFor(c)), job[c].pc # "none",
         Resolved(AskedFor(c), pc), Proceeds(c, pc), UNCHANGED ask, Deed(c)
  PROVE  Result(c)
<1>1. JobEffect(c) /\ Only(c) /\ ChangeShape'
  BY DEF JobEffect, SameCall, Deed, Proceeds, Only, ChangeShape
<1>2. QED BY <1>1 DEF Result, CallEffect

LEMMA GoesProceeds ==
  ASSUME ChangeShape, NEW c \in ChangeCalls, NEW pc, Goes(c, pc)
  PROVE  Proceeds(c, pc)
  BY DEF Goes, Proceeds, ChangeShape, JobFields

LEMMA GoesResult ==
  ASSUME ChangeShape, NEW c \in ChangeCalls, NEW pc \in Steps(AskedFor(c)), job[c].pc # "none",
         Resolved(AskedFor(c), pc), Goes(c, pc), UNCHANGED ask, Deed(c)
  PROVE  Result(c)
  BY GoesProceeds, ProceedsResult

LEMMA FinishesResult ==
  ASSUME ChangeShape, NEW c \in ChangeCalls, NEW reply, AskInv(c), job[c].pc # "none",
         Finishes(c, reply), UNCHANGED deeds
  PROVE  Result(c)
<1>1. job' = [job EXCEPT ![c].pc = "none"]
  BY DEF Finishes
<1>2. CASE ask[c].pc = "host"
  <2>1. ask' = [ask EXCEPT ![c].pc = "over", ![c].reply = reply,
                           ![c].answer = IF @ = "open" THEN "refused" ELSE @]
    BY <1>2 DEF Finishes, ChangeOver
  <2>2. ask[c].answer = "agreed"
    BY <1>2 DEF AskInv
  <2>3. JobEffect(c) /\ Only(c) /\ ChangeShape'
    BY <1>1, <1>2, <2>1, <2>2 DEF JobEffect, SameCall, Only, ChangeShape, AskFields, JobFields
  <2>4. QED BY <2>3 DEF Result, CallEffect
<1>3. CASE ask[c].pc # "host"
  <2>1. UNCHANGED ask
    BY <1>3 DEF Finishes
  <2>2. JobEffect(c) /\ Only(c) /\ ChangeShape'
    BY <1>1, <2>1 DEF JobEffect, SameCall, Only, ChangeShape, JobFields
  <2>3. QED BY <2>2 DEF Result, CallEffect
<1>4. QED BY <1>2, <1>3

(* What the place of a step tells about the request.                       *)
LEMMA StepOf ==
  ASSUME NEW c \in ChangeCalls, JobInv(c), job[c].pc # "none"
  PROVE  LET r == AskedFor(c)
             pc == job[c].pc
         IN /\ pc \in {"resolve", "dependents", "disable", "stop", "config", "delay", "restop", "look"}
                 => r.tool \in Gated
            /\ pc \in {"kill", "key", "write", "flush", "run"} => r.tool \notin Gated
            /\ pc = "disable" => r.tool = "stop_service" /\ r.arg = "disable"
            /\ pc = "stop" => r.tool = "stop_service"
            /\ pc = "dependents" => r.tool \in {"stop_service", "set_service_start_type"}
            /\ pc \in {"config", "delay"} => r.tool = "set_service_start_type"
            /\ pc = "restop" => r.tool = "restart_service"
            /\ pc = "start" => r.tool \in {"restart_service", "start_service"}
            /\ pc = "kill" => r.tool = "kill_process"
            /\ pc \in {"key", "write"} => r.tool = "set_registry"
            /\ pc = "flush" => r.tool = "flush_dns"
            /\ pc = "run" => r.tool = "run_command"
            /\ r.tool \in Gated /\ pc # "resolve" => r.form = "name" /\ r.target \notin Protected
<1>1. AskedFor(c).tool \in Gated \cup FreeTools /\ job[c].pc \in Steps(AskedFor(c))
      /\ Resolved(AskedFor(c), job[c].pc)
  BY DEF JobInv, Requested
<1>2. QED BY <1>1 DEF Steps, Gated, FreeTools, Resolved

LEMMA DoesDeed ==
  ASSUME NEW c, NEW p \in Named(c), NEW what, NEW new, Does(c, p, what, new),
         AskedFor(c).tool \in Gated => p[2] \notin Protected
  PROVE  Deed(c)
  BY DEF Does, Deed

LEMMA ChecksDeed == ASSUME NEW c, Checks PROVE Deed(c)
  BY DEF Checks, Deed

-----------------------------------------------------------------------------
(* The steps of the host command.                                          *)

LEMMA ResolveResult ==
  ASSUME ChangeShape, NEW c \in ChangeCalls, AskInv(c), JobInv(c), Resolve(c)
  PROVE  Result(c)
<1> DEFINE r == AskedFor(c)
           next == AfterResolve(r)
<1>1. job[c].pc = "resolve" /\ Checks /\ UNCHANGED deeds
  BY DEF Resolve, Checks
<1>2. r.tool \in Gated
  BY <1>1, StepOf
<1>3. CASE Finishes(c, "error")
  BY <1>1, <1>3, FinishesResult
<1>4. CASE r.form = "name" /\ r.target \notin Protected /\ Goes(c, next) /\ UNCHANGED ask
  <2>1. next \in Steps(r)
    BY <1>2 DEF AfterResolve, Steps, Gated
  <2>2. Resolved(r, next)
    BY <1>4 DEF Resolved
  <2>3. QED BY <1>1, <1>4, <2>1, <2>2, GoesResult, ChecksDeed
<1>5. QED BY <1>3, <1>4 DEF Resolve

LEMMA DependentsResult ==
  ASSUME ChangeShape, NEW c \in ChangeCalls, AskInv(c), JobInv(c), CheckDependents(c)
  PROVE  Result(c)
<1> DEFINE r == AskedFor(c)
           next == IF r.tool # "stop_service" THEN "config"
                   ELSE IF r.arg = "disable" THEN "disable" ELSE "stop"
<1>1. job[c].pc = "dependents" /\ Checks /\ UNCHANGED deeds
  BY DEF CheckDependents, Checks
<1>2. CASE Finishes(c, "error")
  BY <1>1, <1>2, FinishesResult
<1>3. CASE Goes(c, next) /\ UNCHANGED ask
  <2>1. r.tool \in {"stop_service", "set_service_start_type"} /\ Resolved(r, next)
    BY <1>1, StepOf DEF Resolved
  <2>2. next \in Steps(r)
    BY <2>1 DEF Steps
  <2>3. QED BY <1>1, <1>3, <2>1, <2>2, GoesResult, ChecksDeed
<1>4. QED BY <1>2, <1>3 DEF CheckDependents

LEMMA StopServiceResult ==
  ASSUME ChangeShape, NEW c \in ChangeCalls, AskInv(c), JobInv(c), DisableFirst(c) \/ StopTarget(c)
  PROVE  Result(c)
<1> DEFINE r == AskedFor(c)
           next == IF job[c].pc = "disable" THEN "stop" ELSE "look"
<1>1. job[c].pc \in {"disable", "stop"} /\ UNCHANGED ask
  BY DEF DisableFirst, StopTarget
<1>2. /\ r.tool = "stop_service" /\ r.tool \in Gated /\ r.target \notin Protected
      /\ r.form = "name" /\ (job[c].pc = "disable" => r.arg = "disable") /\ ask[c].shown = TRUE
  BY <1>1, StepOf DEF JobInv
<1>3. Proceeds(c, next)
  BY <1>1 DEF DisableFirst, StopTarget, Goes, Proceeds, ChangeShape, JobFields
<1>4. Deed(c)
  <2>1. CASE DisableFirst(c)
    <3>1. <<"start", r.target>> \in Named(c)
      BY <1>2, <2>1 DEF DisableFirst, Named
    <3>2. QED BY <1>2, <2>1, <3>1, DoesDeed DEF DisableFirst
  <2>2. CASE StopTarget(c)
    <3>1. <<"state", r.target>> \in Named(c)
      BY <1>2 DEF Named
    <3>2. QED BY <1>2, <2>2, <3>1, DoesDeed, ChecksDeed DEF StopTarget
  <2>3. QED BY <2>1, <2>2
<1>5. next \in Steps(r) /\ Resolved(r, next)
  BY <1>2 DEF Steps, Resolved
<1>6. QED BY <1>1, <1>3, <1>4, <1>5, ProceedsResult

LEMMA LooksResult ==
  ASSUME ChangeShape, NEW c \in ChangeCalls, AskInv(c), LookAtStop(c) \/ LookAtStart(c) \/ Settle(c) \/ JobThrows(c)
  PROVE  Result(c)
<1>1. job[c].pc # "none" /\ UNCHANGED deeds
  BY DEF LookAtStop, LookAtStart, Settle, JobThrows, Targets, Checks
<1>2. \E reply : Finishes(c, reply)
  BY DEF LookAtStop, LookAtStart, Settle, JobThrows
<1>3. QED BY <1>1, <1>2, FinishesResult

LEMMA StartTypeResult ==
  ASSUME ChangeShape, NEW c \in ChangeCalls, AskInv(c), JobInv(c), ConfigStart(c) \/ SetDelayed(c)
  PROVE  Result(c)
<1> DEFINE r == AskedFor(c)
<1>1. job[c].pc \in {"config", "delay"} /\ UNCHANGED ask
  BY DEF ConfigStart, SetDelayed
<1>2. /\ r.tool = "set_service_start_type" /\ r.tool \in Gated /\ r.target \notin Protected
      /\ r.form = "name" /\ ask[c].shown = TRUE
  BY <1>1, StepOf DEF JobInv
<1>3. PICK pc \in {"delay", "look"} : Goes(c, pc)
  BY DEF ConfigStart, SetDelayed
<1>4. <<"start", r.target>> \in Named(c)
  BY <1>2 DEF Named
<1>5. Deed(c)
  BY <1>2, <1>4, DoesDeed DEF ConfigStart, SetDelayed
<1>6. pc \in Steps(r) /\ Resolved(r, pc)
  BY <1>2 DEF Steps, Resolved
<1>7. QED BY <1>1, <1>3, <1>5, <1>6, GoesResult

LEMMA RestartResult ==
  ASSUME ChangeShape, NEW c \in ChangeCalls, AskInv(c), JobInv(c), RestartStop(c)
  PROVE  Result(c)
<1> DEFINE r == AskedFor(c)
<1>1. job[c].pc = "restop" /\ UNCHANGED ask /\ Goes(c, "start")
  BY DEF RestartStop
<1>2. /\ r.tool = "restart_service" /\ r.tool \in Gated /\ r.target \notin Protected
      /\ r.form = "name" /\ ask[c].shown = TRUE
  BY <1>1, StepOf DEF JobInv
<1>3. <<"state", r.target>> \in Named(c)
  BY <1>2 DEF Named
<1>4. Deed(c)
  BY <1>2, <1>3, DoesDeed DEF RestartStop
<1>5. "start" \in Steps(r) /\ Resolved(r, "start")
  BY <1>2 DEF Steps, Resolved
<1>6. QED BY <1>1, <1>4, <1>5, GoesResult

(* A name with a wildcard starts one service after the other.              *)
LEMMA StartResult ==
  ASSUME ChangeShape, NEW c \in ChangeCalls, AskInv(c), JobInv(c), StartTarget(c)
  PROVE  Result(c)
<1> DEFINE r == AskedFor(c)
           chosen == IF r.form = "pattern" THEN Services ELSE IF r.form = "name" THEN {r.target} ELSE {}
<1>1. job[c].pc = "start" /\ UNCHANGED ask
  BY DEF StartTarget
<1>2. /\ r.tool \in {"restart_service", "start_service"} /\ ask[c].shown = TRUE
      /\ r.tool \in Gated => r.form = "name" /\ r.target \notin Protected
  BY <1>1, StepOf DEF JobInv
<1>3. PICK s \in chosen : \E what, new : Does(c, <<"state", s>>, what, new)
  BY DEF StartTarget
<1>4. <<"state", s>> \in Named(c)
  BY <1>2, <1>3 DEF Named
<1>5. r.tool \in Gated => s \notin Protected
  BY <1>2, <1>3
<1>6. Deed(c)
  BY <1>3, <1>4, <1>5, DoesDeed
<1>7. \E pc \in {"settle", "start"} : Proceeds(c, pc)
  <2>1. CASE Goes(c, "settle")
    BY <2>1, GoesProceeds
  <2>2. CASE UNCHANGED job
    BY <1>1, <2>2 DEF Proceeds, ChangeShape
  <2>3. QED BY <2>1, <2>2 DEF StartTarget
<1>8. \A pc \in {"settle", "start"} : pc \in Steps(r) /\ Resolved(r, pc)
  BY <1>2 DEF Steps, Resolved
<1>9. QED BY <1>1, <1>6, <1>7, <1>8, ProceedsResult

(* The tools without a gate.                                               *)
LEMMA FreeResult ==
  ASSUME ChangeShape, NEW c \in ChangeCalls, AskInv(c), JobInv(c),
         StopProcess(c) \/ CreateKey(c) \/ WriteValue(c) \/ FlushDns(c) \/ RunCommand(c)
  PROVE  Result(c)
<1> DEFINE r == AskedFor(c)
           next == IF job[c].pc = "key" THEN "write" ELSE "settle"
<1>1. job[c].pc \in {"kill", "key", "write", "flush", "run"} /\ UNCHANGED ask /\ Goes(c, next)
  BY DEF StopProcess, CreateKey, WriteValue, FlushDns, RunCommand
<1>2. r.tool \notin Gated /\ ask[c].shown = TRUE
  BY <1>1, StepOf DEF JobInv
<1>3. next \in Steps(r)
  BY <1>1, StepOf DEF Steps
<1>4. Resolved(r, next)
  BY <1>2 DEF Resolved
<1>5. Deed(c)
  <2>1. CASE StopProcess(c)
    <3>1. r.tool = "kill_process"
      BY <2>1, StepOf DEF StopProcess
    <3>2. <<"process", r.target>> \in Named(c)
      BY <1>2, <3>1 DEF Named
    <3>3. QED BY <1>2, <2>1, <3>2, DoesDeed DEF StopProcess
  <2>2. CASE CreateKey(c) \/ WriteValue(c)
    <3>1. r.tool = "set_registry"
      BY <2>2, StepOf DEF CreateKey, WriteValue
    <3>2. <<"registry", "key">> \in Named(c) /\ <<"registry", "value">> \in Named(c)
      BY <1>2, <3>1 DEF Named
    <3>3. QED BY <1>2, <2>2, <3>2, DoesDeed, ChecksDeed DEF CreateKey, WriteValue
  <2>3. CASE FlushDns(c)
    <3>1. r.tool = "flush_dns"
      BY <2>3, StepOf DEF FlushDns
    <3>2. <<"dns", "cache">> \in Named(c)
      BY <1>2, <3>1 DEF Named
    <3>3. QED BY <1>2, <2>3, <3>2, DoesDeed DEF FlushDns
  <2>4. CASE RunCommand(c)
    <3>1. r.tool = "run_command"
      BY <2>4, StepOf DEF RunCommand
    <3>2. <<"command", "text">> \in Named(c)
      BY <1>2, <3>1 DEF Named
    <3>3. QED BY <1>2, <2>4, <3>2, DoesDeed DEF RunCommand
  <2>5. QED BY <2>1, <2>2, <2>3, <2>4
<1>6. QED BY <1>1, <1>3, <1>4, <1>5, GoesResult

CallStep(c) == ChangeAsk(c) \/ AskStep(c) \/ ChangeAnswerLost(c) \/ JobStep(c) \/ JobThrows(c)

LEMMA StepResult ==
  ASSUME ChangeShape, NEW c \in ChangeCalls, AskInv(c), JobInv(c), CallStep(c)
  PROVE  Result(c)
<1>1. CASE ChangeAnswerLost(c)
  BY <1>1, OverResult DEF ChangeAnswerLost
<1>2. CASE AskStep(c)
  BY <1>2, ReadResult, ConfirmResult DEF AskStep
<1>3. CASE JobStep(c)
  BY <1>3, ResolveResult, DependentsResult, StopServiceResult, LooksResult, StartTypeResult,
     RestartResult, StartResult, FreeResult DEF JobStep
<1>4. QED BY <1>1, <1>2, <1>3, AskResult, LooksResult DEF CallStep

-----------------------------------------------------------------------------
(* The invariant is inductive.                                             *)

LEMMA ChangeInvInitially == ChangeInit => ChangeInv
<1> SUFFICES ASSUME ChangeInit PROVE ChangeInv
  OBVIOUS
<1>1. /\ DOMAIN Unasked = AskFields /\ DOMAIN NoJob = JobFields /\ NoJob.pc = "none"
      /\ Unasked.pc = "idle" /\ Unasked.shown = FALSE /\ Unasked.answer = "open"
  BY DEF Unasked, NoJob, AskFields, JobFields
<1>2. ChangeShape /\ \A c \in ChangeCalls : ask[c] = Unasked /\ job[c] = NoJob
  BY <1>1 DEF ChangeInit, ChangeShape
<1>3. QED BY <1>1, <1>2 DEF ChangeInit, ChangeInv, DeedInv, AskInv, JobInv

(* A first step is a step of its tool, and not resolved yet.               *)
LEMMA FirstStepIsStep ==
  ASSUME NEW r, Requested(r)
  PROVE  /\ FirstJob(r) \in Steps(r) /\ Resolved(r, FirstJob(r))
         /\ FirstJob(r) # "none"
<1>1. r.tool \in Gated \cup FreeTools
  BY DEF Requested
<1>2. CASE r.tool \in Gated
  BY <1>2 DEF FirstJob, Steps, Resolved, Gated
<1>3. CASE r.tool \in FreeTools
  BY <1>3 DEF FirstJob, Steps, Resolved, Gated, FreeTools
<1>4. QED BY <1>1, <1>2, <1>3

LEMMA CallKept ==
  ASSUME ChangeInv, NEW c \in ChangeCalls, Result(c)
  PROVE  /\ ask'[c].pc \in {"idle", "read", "prompt", "host", "over"}
         /\ AskInv(c)' /\ JobInv(c)'
<1> USE DEF ChangeInv, Result
<1>1. CASE AskEffect(c)
  BY <1>1 DEF AskEffect, AskInv, JobInv
<1>2. CASE RefuseEffect(c)
  BY <1>2 DEF RefuseEffect, AskInv, JobInv
<1>3. CASE ReadEffect(c)
  BY <1>3 DEF ReadEffect, AskInv, JobInv, AskedFor
<1>4. CASE AgreeEffect(c)
  <2>1. Requested(AskedFor(c)) /\ job'[c].pc = FirstJob(AskedFor(c)) /\ ask[c].shown = TRUE
    BY <1>4 DEF AgreeEffect, AskInv
  <2>2. AskedFor(c)' = AskedFor(c) /\ ask'[c].shown = TRUE
    BY <1>4, <2>1 DEF AgreeEffect, SameCall, AskedFor
  <2>3. JobInv(c)'
    BY <1>4, <2>1, <2>2, FirstStepIsStep DEF AgreeEffect, JobInv
  <2>4. AskInv(c)'
    BY <1>4 DEF AgreeEffect, AskInv
  <2>5. QED BY <1>4, <2>3, <2>4 DEF AgreeEffect
<1>5. CASE OverEffect(c)
  <2>1. AskInv(c)'
    BY <1>5 DEF OverEffect, AskInv
  <2>2. JobInv(c)'
    BY <1>5 DEF OverEffect, AskInv, JobInv, SameCall, AskedFor
  <2>3. QED BY <1>5, <2>1, <2>2 DEF OverEffect
<1>6. CASE JobEffect(c)
  <2>1. JobInv(c)'
    BY <1>6 DEF JobEffect, SameCall, AskedFor, JobInv
  <2>2. ask[c].pc \in {"host", "over"}
    BY <1>6 DEF JobEffect, AskInv
  <2>3. AskInv(c)'
    BY <1>6, <2>1, <2>2 DEF JobEffect, SameCall, AskInv, JobInv
  <2>4. QED BY <1>6, <2>1, <2>2, <2>3 DEF JobEffect
<1>7. QED BY <1>1, <1>2, <1>3, <1>4, <1>5, <1>6 DEF CallEffect

LEMMA DeedsKept ==
  ASSUME ChangeInv, NEW c \in ChangeCalls, Result(c)
  PROVE  DeedInv'
<1> USE DEF ChangeInv, Result
<1>1. \A d \in deeds : /\ ask'[d.call].pc \in {"host", "over"} /\ ask'[d.call].answer = "agreed"
                       /\ AskedFor(d.call)' = AskedFor(d.call)
  <2> SUFFICES ASSUME NEW d \in deeds
               PROVE  /\ ask'[d.call].pc \in {"host", "over"} /\ ask'[d.call].answer = "agreed"
                      /\ AskedFor(d.call)' = AskedFor(d.call)
    OBVIOUS
  <2>1. /\ d.call \in ChangeCalls /\ ask[d.call].pc \in {"host", "over"}
        /\ ask[d.call].answer = "agreed"
    BY DEF DeedInv
  <2>2. CASE d.call # c
    BY <2>1, <2>2 DEF Only, AskedFor
  <2>3. CASE d.call = c
    BY <2>1, <2>3 DEF CallEffect, AskEffect, RefuseEffect, ReadEffect, AgreeEffect, OverEffect,
                      JobEffect, SameCall, AskedFor
  <2>4. QED BY <2>2, <2>3
<1>2. CASE deeds' = deeds
  BY <1>1, <1>2 DEF DeedInv
<1>3. CASE deeds' # deeds
  <2>1. JobEffect(c)
    BY <1>3 DEF CallEffect, AskEffect, RefuseEffect, ReadEffect, AgreeEffect, OverEffect
  <2>2. PICK p \in Named(c) : \E what :
          /\ deeds' = deeds \cup {[call |-> c, place |-> p, what |-> what]}
          /\ AskedFor(c).tool \in Gated => p[2] \notin Protected
    BY <1>3, <2>1 DEF JobEffect
  <2>3. /\ ask'[c].pc \in {"host", "over"} /\ ask'[c].answer = "agreed"
        /\ AskedFor(c)' = AskedFor(c)
    BY <2>1 DEF JobEffect, SameCall, AskedFor, AskInv, JobInv
  <2>4. QED BY <1>1, <2>2, <2>3 DEF DeedInv
<1>4. QED BY <1>2, <1>3

LEMMA ChangeInvKept == ChangeInv /\ [ChangeNext]_changeVars => ChangeInv'
<1> SUFFICES ASSUME ChangeInv, [ChangeNext]_changeVars PROVE ChangeInv'
  OBVIOUS
<1>1. ASSUME NEW c \in ChangeCalls, CallStep(c) PROVE ChangeInv'
  <2>1. Result(c)
    BY <1>1, StepResult DEF ChangeInv
  <2>2. \A e \in ChangeCalls : e # c =>
          /\ ask'[e].pc \in {"idle", "read", "prompt", "host", "over"}
          /\ AskInv(e)' /\ JobInv(e)'
    BY <2>1 DEF Result, Only, ChangeInv, AskInv, JobInv, AskedFor
  <2>3. QED BY <2>1, <2>2, CallKept, DeedsKept DEF ChangeInv, Result
<1>2. CASE UNCHANGED <<ask, job, deeds>>
  BY <1>2 DEF ChangeInv, ChangeShape, DeedInv, AskInv, JobInv, AskedFor
<1>3. CASE ~UNCHANGED <<ask, job, deeds>>
  <2>1. \E c \in ChangeCalls : CallStep(c)
    BY <1>3 DEF ChangeNext, CallStep, Recover, MeddleWithHost, changeVars
  <2>2. QED BY <1>1, <2>1
<1>4. QED BY <1>2, <1>3

THEOREM ChangeInvariant == ChangeSpec => []ChangeInv
  BY ChangeInvInitially, ChangeInvKept, PTL DEF ChangeSpec

(* No call of a gated tool changes a protected service, under whatever     *)
(* name it asks for it and whatever others do meanwhile (TR-SEC-15).       *)
THEOREM ProtectedNeverChanged == ChangeSpec => []ProtectedServicesKept
<1>1. ChangeInv => ProtectedServicesKept
  BY DEF ChangeInv, DeedInv, ProtectedServicesKept
<1>2. QED BY <1>1, ChangeInvariant, PTL

-----------------------------------------------------------------------------
(* The calls implement ConfirmedChange.                                    *)

ChangedPlaces(c) == {d.place : d \in {e \in deeds : e.call = c}}

LEMMA NamedPlaces ==
  ASSUME NEW c, ask'[c].shown = TRUE, Requested(AskedFor(c)')
  PROVE  Named(c)' \subseteq AllPlaces
<1>1. (\E e \in ChangeCalls : AskedFor(c)' \in ChangeRequests[e]) /\ AskedFor(c)'.tool \in Gated \cup FreeTools
  BY DEF Requested
<1>2. QED BY <1>1, RequestAssumption DEF Named, AllPlaces, Gated, FreeTools

LEMMA ConsentInitially == ChangeInit => Consented!ConsentInit
<1> SUFFICES ASSUME ChangeInit PROVE Consented!ConsentInit
  OBVIOUS
<1>1. \A c \in ChangeCalls : ask[c].shown = FALSE /\ ask[c].answer = "open"
  BY DEF ChangeInit, Unasked
<1>2. [c \in ChangeCalls |-> Named(c)] = [c \in ChangeCalls |-> {}]
  BY <1>1 DEF Named
<1>3. [c \in ChangeCalls |-> ask[c].answer] = [c \in ChangeCalls |-> "open"]
  BY <1>1
<1>4. [c \in ChangeCalls |-> {d.place : d \in {e \in deeds : e.call = c}}] = [c \in ChangeCalls |-> {}]
  BY DEF ChangeInit
<1>5. QED BY <1>2, <1>3, <1>4 DEF Consented!ConsentInit

(* What the other calls show, are answered and have changed stays.         *)
LEMMA OthersSame ==
  ASSUME ChangeInv, NEW c \in ChangeCalls, Result(c), NEW e \in ChangeCalls, e # c
  PROVE  /\ Named(e)' = Named(e) /\ ask'[e].answer = ask[e].answer
         /\ ChangedPlaces(e)' = ChangedPlaces(e)
<1>1. ask'[e] = ask[e]
  BY DEF Result, Only
<1>2. Named(e)' = Named(e) /\ ask'[e].answer = ask[e].answer
  BY <1>1 DEF Named, AskedFor
<1>3. deeds' = deeds \/ \E p, what : deeds' = deeds \cup {[call |-> c, place |-> p, what |-> what]}
  BY DEF Result, CallEffect, AskEffect, RefuseEffect, ReadEffect, AgreeEffect, OverEffect, JobEffect
<1>4. {d \in deeds' : d.call = e} = {d \in deeds : d.call = e}
  BY <1>3
<1>5. QED BY <1>2, <1>4 DEF ChangedPlaces

(* A step that shows nothing more and changes nothing is an answer or a    *)
(* stutter.                                                                *)
LEMMA AnswerStep ==
  ASSUME ChangeInv, NEW c \in ChangeCalls, Result(c), Named(c)' = Named(c),
         ChangedPlaces(c)' = ChangedPlaces(c),
         \/ ask'[c].answer = ask[c].answer
         \/ ask[c].answer = "open" /\ ask'[c].answer \in {"agreed", "refused"}
  PROVE  [Consented!ConsentNext]_(Consented!ccvars)
<1>1. \A e \in ChangeCalls : Named(e)' = Named(e) /\ ChangedPlaces(e)' = ChangedPlaces(e)
  BY OthersSame
<1>2. [e \in ChangeCalls |-> Named(e)]' = [e \in ChangeCalls |-> Named(e)]
  BY <1>1
<1>3. [e \in ChangeCalls |-> {d.place : d \in {x \in deeds : x.call = e}}]'
        = [e \in ChangeCalls |-> {d.place : d \in {x \in deeds : x.call = e}}]
  BY <1>1 DEF ChangedPlaces
<1>4. \A e \in ChangeCalls : e # c => ask'[e].answer = ask[e].answer
  BY OthersSame
<1>5. CASE ask'[c].answer = ask[c].answer
  <2>1. [e \in ChangeCalls |-> ask[e].answer]' = [e \in ChangeCalls |-> ask[e].answer]
    BY <1>4, <1>5
  <2>2. QED BY <1>2, <1>3, <2>1 DEF Consented!ccvars
<1>6. CASE ask[c].answer = "open" /\ ask'[c].answer = "agreed"
  <2>1. [e \in ChangeCalls |-> ask[e].answer]'
          = [[e \in ChangeCalls |-> ask[e].answer] EXCEPT ![c] = "agreed"]
    BY <1>4, <1>6
  <2>2. Consented!Agree(c)
    BY <1>2, <1>3, <1>6, <2>1 DEF Consented!Agree
  <2>3. QED BY <2>2 DEF Consented!ConsentNext
<1>7. CASE ask[c].answer = "open" /\ ask'[c].answer = "refused"
  <2>1. [e \in ChangeCalls |-> ask[e].answer]'
          = [[e \in ChangeCalls |-> ask[e].answer] EXCEPT ![c] = "refused"]
    BY <1>4, <1>7
  <2>2. Consented!Refuse(c)
    BY <1>2, <1>3, <1>7, <2>1 DEF Consented!Refuse
  <2>3. QED BY <2>2 DEF Consented!ConsentNext
<1>8. QED BY <1>5, <1>6, <1>7

LEMMA ShowStep ==
  ASSUME ChangeInv, NEW c \in ChangeCalls, Result(c), Named(c) = {}, Named(c)' \subseteq AllPlaces,
         ask[c].answer = "open", ask'[c].answer = "open", deeds' = deeds
  PROVE  Consented!ConsentNext
<1>1. \A e \in ChangeCalls : e # c => Named(e)' = Named(e)
  BY OthersSame
<1>2. \A e \in ChangeCalls : ask'[e].answer = ask[e].answer
  BY OthersSame
<1>3. [e \in ChangeCalls |-> Named(e)]'
        = [[e \in ChangeCalls |-> Named(e)] EXCEPT ![c] = Named(c)']
  BY <1>1
<1>4. [e \in ChangeCalls |-> ask[e].answer]' = [e \in ChangeCalls |-> ask[e].answer]
  BY <1>2
<1>5. Consented!Show(c)
  BY <1>3, <1>4 DEF Consented!Show
<1>6. QED BY <1>5 DEF Consented!ConsentNext

LEMMA ChangeStep ==
  ASSUME ChangeInv, NEW c \in ChangeCalls, Result(c), ask[c].answer = "agreed",
         ask'[c].answer = "agreed", Named(c)' = Named(c), NEW p \in Named(c), NEW what,
         deeds' = deeds \cup {[call |-> c, place |-> p, what |-> what]}
  PROVE  Consented!ConsentNext
<1>1. \A e \in ChangeCalls : Named(e)' = Named(e) /\ ask'[e].answer = ask[e].answer
  BY OthersSame
<1>2. [e \in ChangeCalls |-> Named(e)]' = [e \in ChangeCalls |-> Named(e)]
  BY <1>1
<1>3. [e \in ChangeCalls |-> ask[e].answer]' = [e \in ChangeCalls |-> ask[e].answer]
  BY <1>1
<1>4. ChangedPlaces(c)' = ChangedPlaces(c) \cup {p}
  <2> DEFINE new == [call |-> c, place |-> p, what |-> what]
             mine == {d \in deeds : d.call = c}
  <2>1. new.call = c /\ new.place = p /\ deeds' = deeds \cup {new}
    OBVIOUS
  <2> HIDE DEF new
  <2>2. {d \in deeds' : d.call = c} = mine \cup {new}
    BY <2>1
  <2>3. {d.place : d \in mine \cup {new}} = {d.place : d \in mine} \cup {p}
    BY <2>1
  <2>4. QED BY <2>2, <2>3 DEF ChangedPlaces
<1>5. \A e \in ChangeCalls : e # c => ChangedPlaces(e)' = ChangedPlaces(e)
  BY OthersSame
<1>6. [e \in ChangeCalls |-> ChangedPlaces(e)]'
        = [[e \in ChangeCalls |-> ChangedPlaces(e)] EXCEPT ![c] = ChangedPlaces(c)']
  BY <1>5
<1>7. Consented!Change(c)
  BY <1>2, <1>3, <1>4, <1>6 DEF Consented!Change, ChangedPlaces
<1>8. QED BY <1>7 DEF Consented!ConsentNext

LEMMA ConsentStep ==
  ChangeInv /\ [ChangeNext]_changeVars => [Consented!ConsentNext]_(Consented!ccvars)
<1> SUFFICES ASSUME ChangeInv, [ChangeNext]_changeVars
             PROVE  [Consented!ConsentNext]_(Consented!ccvars)
  OBVIOUS
<1>1. CASE UNCHANGED <<ask, deeds>>
  <2>1. \A c \in ChangeCalls : Named(c)' = Named(c)
    BY <1>1 DEF Named, AskedFor
  <2>2. QED BY <1>1, <2>1 DEF Consented!ccvars
<1>2. ASSUME NEW c \in ChangeCalls, CallStep(c)
      PROVE  [Consented!ConsentNext]_(Consented!ccvars)
  <2>1. Result(c) /\ CallEffect(c) /\ AskInv(c) /\ JobInv(c)
    BY <1>2, StepResult DEF ChangeInv, Result
  <2>2. \A e : ask[e].shown = FALSE => Named(e) = {}
    BY DEF Named
  <2>3. \A e : ask'[e].shown = FALSE => Named(e)' = {}
    BY DEF Named
  <2>4. SameCall(c) => Named(c)' = Named(c)
    BY DEF SameCall, Named, AskedFor
  <2>5. deeds' = deeds => ChangedPlaces(c)' = ChangedPlaces(c)
    BY DEF ChangedPlaces
  <2>6. CASE AskEffect(c)
    <3>1. Named(c) = {} /\ ask[c].answer = "open" /\ ask'[c].answer = "open" /\ deeds' = deeds
      BY <2>1, <2>2, <2>6 DEF AskEffect, AskInv
    <3>2. CASE ask'[c].shown = FALSE
      BY <2>1, <2>3, <2>5, <3>1, <3>2, AnswerStep
    <3>3. CASE ask'[c].shown = TRUE
      <4>1. Named(c)' \subseteq AllPlaces
        BY <2>6, <3>3, NamedPlaces DEF AskEffect
      <4>2. QED BY <2>1, <3>1, <4>1, ShowStep
    <3>4. QED BY <2>6, <3>2, <3>3 DEF AskEffect
  <2>7. CASE RefuseEffect(c)
    <3>1. /\ Named(c) = {} /\ Named(c)' = {} /\ deeds' = deeds
          /\ ask[c].answer = "open" /\ ask'[c].answer = "refused"
      BY <2>1, <2>2, <2>3, <2>7 DEF RefuseEffect, AskInv
    <3>2. QED BY <2>1, <2>5, <3>1, AnswerStep
  <2>8. CASE ReadEffect(c)
    <3>1. Named(c) = {} /\ ask[c].answer = "open" /\ ask'[c].answer = "open" /\ deeds' = deeds
      BY <2>1, <2>2, <2>8 DEF ReadEffect, AskInv
    <3>2. ask'[c].shown = TRUE /\ Requested(AskedFor(c)')
      BY <2>1, <2>8 DEF ReadEffect, AskInv, AskedFor
    <3>3. QED BY <2>1, <3>1, <3>2, NamedPlaces, ShowStep
  <2>9. CASE AgreeEffect(c)
    <3>1. /\ Named(c)' = Named(c) /\ deeds' = deeds
          /\ ask[c].answer = "open" /\ ask'[c].answer = "agreed"
      BY <2>1, <2>4, <2>9 DEF AgreeEffect, AskInv
    <3>2. QED BY <2>1, <2>5, <3>1, AnswerStep
  <2>10. CASE OverEffect(c)
    <3>1. /\ Named(c)' = Named(c) /\ deeds' = deeds
          /\ \/ ask'[c].answer = ask[c].answer
             \/ ask[c].answer = "open" /\ ask'[c].answer = "refused"
      BY <2>4, <2>10 DEF OverEffect
    <3>2. QED BY <2>1, <2>5, <3>1, AnswerStep
  <2>11. CASE JobEffect(c)
    <3>1. /\ Named(c)' = Named(c) /\ ask[c].answer = "agreed" /\ ask'[c].answer = "agreed"
      BY <2>1, <2>4, <2>11 DEF JobEffect, JobInv
    <3>2. CASE deeds' = deeds
      BY <2>1, <2>5, <3>1, <3>2, AnswerStep
    <3>3. CASE deeds' # deeds
      <4>1. PICK p \in Named(c) : \E what : deeds' = deeds \cup {[call |-> c, place |-> p, what |-> what]}
        BY <2>11, <3>3 DEF JobEffect
      <4>2. QED BY <2>1, <3>1, <4>1, ChangeStep
    <3>4. QED BY <3>2, <3>3
  <2>12. QED BY <2>1, <2>6, <2>7, <2>8, <2>9, <2>10, <2>11 DEF CallEffect
<1>3. CASE ~UNCHANGED <<ask, deeds>>
  <2>1. \E c \in ChangeCalls : CallStep(c)
    BY <1>3 DEF ChangeNext, CallStep, Recover, MeddleWithHost, changeVars
  <2>2. QED BY <1>2, <2>1
<1>4. QED BY <1>1, <1>3

(* A call changes only what its prompt named, after an agreement: whatever *)
(* others change between the prompt and the host command, and also when    *)
(* the answer of the command is lost (DR-5).                               *)
THEOREM ChangesAreConsented == ChangeSpec => ChangesConsented
  BY ConsentInitially, ConsentStep, ChangeInvariant, PTL
  DEF ChangeSpec, ChangesConsented, Consented!ConsentSpec

-----------------------------------------------------------------------------
(* What the reply of a stop tells (TR-REL-18).                             *)

(* Places of a host command before its first change.                       *)
Early == {"resolve", "dependents", "disable"}

StartChanged(c) == \E d \in deeds : d.call = c /\ d.place[1] = "start"

KnownStart(r) == r.tool = "set_service_start_type" => r.arg \in StartModes \cup {"AutomaticDelayed"}

(* What a call has replied, and what its command knows of its own deeds.   *)
ReportInv(c) ==
  /\ ask[c].reply \in Replies /\ (ask[c].reply = "none" <=> ask[c].pc # "over")
  /\ job[c].started \in BOOLEAN /\ job[c].failed \in BOOLEAN
  /\ ask[c].pc \in {"idle", "read", "prompt"} => ~job[c].started /\ ~job[c].failed
  /\ ask[c].pc \in {"read", "prompt"} \/ job[c].pc # "none" => KnownStart(AskedFor(c))
  /\ job[c].pc \in Early => ~job[c].started /\ ~job[c].failed /\ \A d \in deeds : d.call # c
  /\ job[c].pc = "stop" => ~job[c].failed
  /\ job[c].pc = "stop" \/ Targets(c, "stop_service", "look") => (job[c].started <=> StartChanged(c))

HalfInv ==
  /\ ChangeInv
  /\ host \in HostStates /\ crossed \subseteq ChangeCalls
  /\ \A c \in ChangeCalls : ReportInv(c)

LEMMA GoesFields ==
  ASSUME ChangeShape, NEW c \in ChangeCalls, NEW pc, Goes(c, pc)
  PROVE  /\ job'[c].pc = pc /\ job'[c].started = job[c].started
         /\ job'[c].failed = job[c].failed
  BY DEF ChangeShape, Goes, JobFields

LEMMA OverFields ==
  ASSUME ChangeShape, NEW c \in ChangeCalls, NEW reply, ChangeOver(c, reply)
  PROVE  /\ ask'[c].pc = "over" /\ ask'[c].reply = reply
         /\ ask'[c].saw = ask[c].saw /\ ask'[c].request = ask[c].request
  BY DEF ChangeShape, ChangeOver, AskFields

LEMMA FinishesFields ==
  ASSUME ChangeShape, NEW c \in ChangeCalls, NEW reply, Finishes(c, reply)
  PROVE  /\ job'[c].pc = "none" /\ job'[c].started = job[c].started
         /\ job'[c].failed = job[c].failed
         /\ IF ask[c].pc = "host" THEN ask'[c].pc = "over" /\ ask'[c].reply = reply
                                  ELSE ask' = ask
         /\ ask'[c].saw = ask[c].saw /\ ask'[c].request = ask[c].request
<1>1. job' = [job EXCEPT ![c].pc = "none"]
  BY DEF Finishes
<1>2. /\ job'[c].pc = "none" /\ job'[c].started = job[c].started
      /\ job'[c].failed = job[c].failed
  BY <1>1 DEF ChangeShape, JobFields
<1>3. CASE ask[c].pc = "host"
  <2>1. ChangeOver(c, reply)
    BY <1>3 DEF Finishes
  <2>2. QED BY <1>2, <1>3, <2>1, OverFields
<1>4. CASE ask[c].pc # "host"
  BY <1>2, <1>4 DEF Finishes
<1>5. QED BY <1>3, <1>4

(* A command that ends keeps the report of its call.                       *)
LEMMA FinishesReport ==
  ASSUME ChangeShape, NEW c \in ChangeCalls, NEW reply \in Replies \ {"none"}, Finishes(c, reply),
         ReportInv(c), AskInv(c), job[c].pc # "none"
  PROVE  ReportInv(c)'
<1>1. ask[c].pc \notin {"idle", "read", "prompt"}
  BY DEF AskInv
<1> USE FinishesFields DEF ReportInv, Targets, Early
<1>2. CASE ask[c].pc = "host"
  BY <1>1, <1>2
<1>3. CASE ask[c].pc # "host"
  BY <1>1, <1>3
<1>4. QED BY <1>2, <1>3

(* The steps of a call before its prompt is answered.                      *)
LEMMA BeginReport ==
  ASSUME ChangeShape, NEW c \in ChangeCalls, NEW r, NEW reads, NEW first, KnownStart(r),
         ask[c].pc = "idle", Begin(c, r, reads, first), UNCHANGED <<job, deeds>>,
         ReportInv(c), AskInv(c)
  PROVE  /\ ReportInv(c)' /\ ask'[c].request = r /\ ask'[c].reads = reads
         /\ ask'[c].pc = (IF reads = "nothing" THEN "prompt" ELSE "read")
<1> DEFINE new == [Unasked EXCEPT !.request = r, !.reads = reads, !.first = first,
                                  !.pc = IF reads = "nothing" THEN "prompt" ELSE "read",
                                  !.shown = reads = "nothing"]
<1>1. /\ new.request = r /\ new.reply = "none" /\ new.reads = reads
      /\ new.pc = IF reads = "nothing" THEN "prompt" ELSE "read"
  BY DEF Unasked
<1>2. ask' = [ask EXCEPT ![c] = new]
  BY DEF Begin
<1> HIDE DEF new
<1>3. ask'[c] = new /\ job[c].pc = "none"
  BY <1>2 DEF ChangeShape, AskInv
<1>4. QED BY <1>1, <1>3 DEF ReportInv, Targets, Early, AskedFor, Replies

LEMMA AskReport ==
  ASSUME ChangeShape, NEW c \in ChangeCalls, ChangeAsk(c), ReportInv(c), AskInv(c)
  PROVE  /\ ReportInv(c)'
         /\ ask'[c].pc \in {"read", "prompt"} /\ AskedFor(c)'.tool = "stop_service" =>
              ask'[c].pc = "read" /\ ask'[c].reads = "start type"
<1>1. ask[c].pc = "idle" /\ UNCHANGED <<job, deeds>>
  BY DEF ChangeAsk
<1>2. PICK r \in ChangeRequests[c] :
        \/ RestartService(c, r) \/ StopService(c, r) \/ SetServiceStartType(c, r) \/ StartService(c, r)
        \/ KillProcess(c, r) \/ SetRegistry(c, r) \/ FlushDnsCache(c, r) \/ CommandTool(c, r)
        \/ ChangeRefuse(c, r)
  BY DEF ChangeAsk
<1>3. CASE ChangeRefuse(c, r)
  <2> DEFINE new == [Unasked EXCEPT !.pc = "over", !.request = r, !.answer = "refused", !.reply = "refused"]
  <2>1. new.pc = "over" /\ new.reply = "refused"
    BY DEF Unasked
  <2>2. ask' = [ask EXCEPT ![c] = new]
    BY <1>3 DEF ChangeRefuse, Refused
  <2> HIDE DEF new
  <2>3. ask'[c] = new /\ job[c].pc = "none"
    BY <1>1, <2>2 DEF ChangeShape, AskInv
  <2>4. QED BY <1>1, <2>1, <2>3 DEF ReportInv, Targets, Early, Replies
<1>4. CASE ~ChangeRefuse(c, r)
  <2>1. KnownStart(r)
    BY <1>2, <1>4, RequestAssumption
    DEF KnownStart, RestartService, StopService, SetServiceStartType, StartService,
        KillProcess, SetRegistry, FlushDnsCache, CommandTool
  <2>2. PICK reads, first : /\ Begin(c, r, reads, first)
                            /\ r.tool = "stop_service" => reads = "start type"
    BY <1>2, <1>4
    DEF RestartService, StopService, SetServiceStartType, StartService,
        KillProcess, SetRegistry, FlushDnsCache, CommandTool
  <2>3. QED BY <1>1, <2>1, <2>2, BeginReport DEF AskedFor
<1>5. QED BY <1>3, <1>4

LEMMA ReadReport ==
  ASSUME ChangeShape, NEW c \in ChangeCalls, ReadState(c), ReportInv(c), AskInv(c)
  PROVE  /\ ReportInv(c)' /\ ask'[c].saw \in {Found(c), NoOne}
         /\ ask'[c].request = ask[c].request
<1>1. PICK saw \in {Found(c), NoOne} :
        ask' = [ask EXCEPT ![c].pc = "prompt", ![c].saw = saw, ![c].shown = TRUE]
  BY DEF ReadState
<1>2. ask[c].pc = "read" /\ UNCHANGED <<job, deeds>>
  BY DEF ReadState
<1>3. /\ ask'[c].pc = "prompt" /\ ask'[c].saw = saw /\ ask'[c].request = ask[c].request
      /\ ask'[c].reply = ask[c].reply
  BY <1>1 DEF ChangeShape, AskFields
<1>4. QED BY <1>2, <1>3 DEF ReportInv, AskInv, Targets, Early, AskedFor

LEMMA ConfirmReport ==
  ASSUME ChangeInv, NEW c \in ChangeCalls, ChangeConfirm(c), ReportInv(c)
  PROVE  /\ ReportInv(c)' /\ ask'[c].saw = ask[c].saw /\ ask'[c].request = ask[c].request
         /\ job'[c].pc \notin {"stop", "look"}
<1> USE DEF ChangeInv
<1>1. ask[c].pc = "prompt" /\ UNCHANGED deeds /\ job[c].pc = "none"
  BY DEF ChangeConfirm, AskInv
<1>2. CASE ChangeOver(c, "refused") /\ UNCHANGED job
  BY <1>1, <1>2, OverFields DEF ReportInv, AskInv, Targets, Early, Replies
<1>3. CASE /\ ask' = [ask EXCEPT ![c].pc = "host", ![c].answer = "agreed"]
           /\ job' = [job EXCEPT ![c].pc = ask[c].first]
  <2>1. /\ ask'[c].pc = "host" /\ ask'[c].saw = ask[c].saw /\ ask'[c].request = ask[c].request
        /\ ask'[c].reply = ask[c].reply
        /\ job'[c].pc = ask[c].first /\ job'[c].started = job[c].started
        /\ job'[c].failed = job[c].failed
    BY <1>3 DEF ChangeShape, AskFields, JobFields
  <2>2. ask[c].first \notin {"stop", "look"}
    BY <1>1 DEF AskInv, FirstJob, Requested, Gated, FreeTools
  <2>3. \A d \in deeds : d.call # c
    BY <1>1 DEF DeedInv
  <2>4. QED BY <1>1, <2>1, <2>2, <2>3 DEF ReportInv, AskInv, Targets, Early, AskedFor
<1>4. QED BY <1>2, <1>3 DEF ChangeConfirm

LEMMA LostReport ==
  ASSUME ChangeShape, NEW c \in ChangeCalls, ChangeAnswerLost(c), ReportInv(c)
  PROVE  /\ ReportInv(c)' /\ ask'[c].saw = ask[c].saw /\ ask'[c].request = ask[c].request
  BY OverFields DEF ChangeAnswerLost, ReportInv, Targets, Early, AskedFor, Replies, StartChanged

(* The steps of the host command.                                          *)
LEMMA GoesReport ==
  ASSUME ChangeShape, NEW c \in ChangeCalls, NEW pc, Goes(c, pc), job[c].pc # "none",
         pc \in Early => job[c].pc \in Early,
         pc = "stop" \/ (pc = "look" /\ AskedFor(c).tool = "stop_service") => job[c].pc \in Early,
         UNCHANGED ask, pc \in Early \cup {"stop", "look"} => UNCHANGED deeds,
         ReportInv(c), AskInv(c)
  PROVE  ReportInv(c)'
<1>1. /\ job'[c].pc = pc /\ job'[c].started = job[c].started
      /\ job'[c].failed = job[c].failed
  BY GoesFields
<1>2. QED BY <1>1 DEF ReportInv, AskInv, Targets, AskedFor, StartChanged, Early

LEMMA CheckReport ==
  ASSUME ChangeInv, NEW c \in ChangeCalls, Resolve(c) \/ CheckDependents(c), ReportInv(c)
  PROVE  /\ ReportInv(c)' /\ UNCHANGED <<host, deeds>> /\ ask'[c].saw = ask[c].saw
         /\ ask'[c].request = ask[c].request
         /\ job[c].pc \in Early
         /\ job'[c].pc \in {"stop", "look"} /\ AskedFor(c).tool = "stop_service" =>
              job'[c].pc = "stop" /\ AskedFor(c).arg # "disable"
         /\ ask'[c].pc # ask[c].pc => ask'[c].reply = "error"
<1> DEFINE r == AskedFor(c)
           next == IF job[c].pc = "resolve" THEN AfterResolve(r)
                   ELSE IF r.tool # "stop_service" THEN "config"
                   ELSE IF r.arg = "disable" THEN "disable" ELSE "stop"
<1>1. /\ job[c].pc \in {"resolve", "dependents"} /\ UNCHANGED <<host, deeds>>
      /\ AskInv(c) /\ JobInv(c) /\ ChangeShape
  BY DEF Resolve, CheckDependents, Checks, ChangeInv
<1>2. r.tool \in Gated
  BY <1>1, StepOf
<1>3. CASE Finishes(c, "error")
  <2>1. ReportInv(c)'
    BY <1>1, <1>3, FinishesReport DEF Replies
  <2>2. QED BY <1>1, <1>3, <2>1, FinishesFields DEF Early
<1>4. CASE Goes(c, next) /\ UNCHANGED ask
  <2>1. /\ next \in Early \cup {"stop", "config", "restop"}
        /\ next = "stop" => r.arg # "disable"
    BY <1>2 DEF AfterResolve, Early, Gated
  <2>2. job[c].pc \in Early
    BY <1>1 DEF Early
  <2> HIDE DEF next
  <2>3. ReportInv(c)'
    BY <1>1, <1>4, <2>1, <2>2, GoesReport DEF Early
  <2>4. job'[c].pc = next
    BY <1>1, <1>4, GoesFields
  <2>5. QED BY <1>1, <1>4, <2>1, <2>2, <2>3, <2>4 DEF Early
<1>5. QED BY <1>3, <1>4 DEF Resolve, CheckDependents

LEMMA DisableReport ==
  ASSUME ChangeInv, NEW c \in ChangeCalls, DisableFirst(c), ReportInv(c)
  PROVE  /\ ReportInv(c)' /\ job'[c].pc = "stop" /\ UNCHANGED ask
         /\ host' = SetMode(AskedFor(c).target, "Disabled")
         /\ \A d \in deeds' : d.call = c => d.what = StartType(AskedFor(c).target)
         /\ job[c].pc \in Early /\ AskedFor(c).form = "name"
<1> DEFINE s == AskedFor(c).target
           deed == [call |-> c, place |-> <<"start", s>>, what |-> StartType(s)]
<1>1. /\ job[c].pc = "disable" /\ UNCHANGED ask /\ AskInv(c) /\ JobInv(c) /\ ChangeShape
      /\ host' = SetMode(s, "Disabled") /\ deeds' = deeds \cup {deed}
      /\ job' = [job EXCEPT ![c].pc = "stop", ![c].started = TRUE]
  BY DEF DisableFirst, Does, ChangeInv
<1>2. /\ job'[c].pc = "stop" /\ job'[c].started = TRUE /\ job'[c].failed = job[c].failed
  BY <1>1 DEF ChangeShape, JobFields
<1>3. deed.call = c /\ deed.place[1] = "start" /\ deed.what = StartType(s)
  OBVIOUS
<1> HIDE DEF deed
<1>4. \A d \in deeds : d.call # c
  BY <1>1 DEF ReportInv, Early
<1>5. ReportInv(c)'
  BY <1>1, <1>2, <1>3 DEF ReportInv, AskInv, Targets, Early, StartChanged, AskedFor
<1>6. AskedFor(c).form = "name"
  BY <1>1, StepOf DEF Gated
<1>7. QED BY <1>1, <1>2, <1>3, <1>4, <1>5, <1>6 DEF Early

LEMMA StopReport ==
  ASSUME ChangeInv, NEW c \in ChangeCalls, StopTarget(c), ReportInv(c)
  PROVE  /\ ReportInv(c)' /\ job[c].pc = "stop" /\ job'[c].pc = "look" /\ UNCHANGED ask
         /\ \A d \in deeds' : d \in deeds \/ d.place[1] # "start"
         /\ \/ host' = SetState(AskedFor(c).target, "stopped")
            \/ host' = host /\ job'[c].failed = TRUE
<1> DEFINE s == AskedFor(c).target
           deed == [call |-> c, place |-> <<"state", s>>, what |-> host.state[s]]
<1>1. /\ job[c].pc = "stop" /\ UNCHANGED ask /\ AskInv(c) /\ JobInv(c) /\ ChangeShape
  BY DEF StopTarget, ChangeInv
<1>2. deed.call = c /\ deed.place[1] # "start"
  OBVIOUS
<1>3. \/ /\ host' = SetState(s, "stopped") /\ deeds' = deeds \cup {deed} /\ Goes(c, "look")
      \/ /\ job' = [job EXCEPT ![c].pc = "look", ![c].failed = TRUE] /\ UNCHANGED <<host, deeds>>
  BY DEF StopTarget, Does, Checks
<1> HIDE DEF deed
<1>4. /\ job'[c].pc = "look" /\ job'[c].started = job[c].started
      /\ job'[c].failed \in BOOLEAN
      /\ \/ host' = SetState(s, "stopped")
         \/ host' = host /\ job'[c].failed = TRUE
  BY <1>1, <1>3 DEF ChangeShape, JobFields, Goes, ReportInv
<1>5. StartChanged(c)' <=> StartChanged(c)
  BY <1>2, <1>3 DEF StartChanged
<1>6. ReportInv(c)'
  BY <1>1, <1>4, <1>5 DEF ReportInv, AskInv, Targets, Early, AskedFor
<1>7. QED BY <1>1, <1>2, <1>3, <1>4, <1>6

LEMMA EndReport ==
  ASSUME ChangeInv, NEW c \in ChangeCalls, ReportInv(c),
         LookAtStop(c) \/ LookAtStart(c) \/ Settle(c) \/ JobThrows(c)
  PROVE  /\ ReportInv(c)' /\ UNCHANGED <<host, deeds>> /\ job'[c].pc = "none"
         /\ ask'[c].saw = ask[c].saw /\ ask'[c].request = ask[c].request
<1>1. PICK reply \in Replies \ {"none"} : Finishes(c, reply)
  BY DEF LookAtStop, LookAtStart, Settle, JobThrows, Replies
<1>2. job[c].pc # "none" /\ UNCHANGED <<host, deeds>>
  BY DEF LookAtStop, LookAtStart, Settle, JobThrows, Checks, Targets
<1>3. ChangeShape /\ AskInv(c)
  BY DEF ChangeInv
<1>4. QED BY <1>1, <1>2, <1>3, FinishesReport, FinishesFields

(* The other steps are of other tools.                                     *)
LEMMA OtherReport ==
  ASSUME ChangeInv, NEW c \in ChangeCalls, ReportInv(c),
         \/ ConfigStart(c) \/ SetDelayed(c) \/ RestartStop(c) \/ StartTarget(c)
         \/ StopProcess(c) \/ CreateKey(c) \/ WriteValue(c) \/ FlushDns(c) \/ RunCommand(c)
  PROVE  ReportInv(c)' /\ AskedFor(c).tool # "stop_service" /\ UNCHANGED ask
<1>1. /\ job[c].pc \notin Early \cup {"none", "stop", "look"} /\ UNCHANGED ask
      /\ AskInv(c) /\ JobInv(c) /\ ChangeShape
  BY DEF ConfigStart, SetDelayed, RestartStop, StartTarget, StopProcess, CreateKey, WriteValue,
         FlushDns, RunCommand, ChangeInv, Early
<1>2. AskedFor(c).tool # "stop_service"
  <2>1. job[c].pc \in {"config", "delay", "restop", "start", "kill", "key", "write", "flush", "run"}
    BY DEF ConfigStart, SetDelayed, RestartStop, StartTarget, StopProcess, CreateKey, WriteValue,
           FlushDns, RunCommand
  <2>2. QED BY <1>1, <2>1, StepOf DEF Gated
<1>3. \/ \E pc \in {"delay", "look", "start", "settle", "write"} : Goes(c, pc)
      \/ UNCHANGED job
  BY DEF ConfigStart, SetDelayed, RestartStop, StartTarget, StopProcess, CreateKey, WriteValue,
         FlushDns, RunCommand
<1>4. /\ job'[c].started = job[c].started /\ job'[c].failed = job[c].failed
      /\ job'[c].pc \notin Early \cup {"none", "stop"}
  BY <1>1, <1>3, GoesFields DEF Early
<1>5. ReportInv(c)'
  BY <1>1, <1>2, <1>4 DEF ReportInv, AskInv, Targets, Early, AskedFor
<1>6. QED BY <1>1, <1>2, <1>5

LEMMA CallReport ==
  ASSUME ChangeInv, NEW c \in ChangeCalls, ReportInv(c), CallStep(c)
  PROVE  ReportInv(c)'
<1>1. ChangeShape /\ AskInv(c)
  BY DEF ChangeInv
<1>2. QED
  BY <1>1, AskReport, ReadReport, ConfirmReport, LostReport, CheckReport, DisableReport, StopReport,
     EndReport, OtherReport DEF CallStep, AskStep, JobStep

(* Every step keeps the host well formed.                                  *)
LEMMA StateKept ==
  ASSUME host \in HostStates, NEW s, NEW state \in {"running", "stopped"}
  PROVE  SetState(s, state) \in HostStates
  BY DEF SetState, HostStates

LEMMA ModeKept ==
  ASSUME host \in HostStates, NEW s, NEW mode \in StartModes
  PROVE  SetMode(s, mode) \in HostStates
  BY DEF SetMode, HostStates

LEMMA HostKeptByCall ==
  ASSUME host \in HostStates, ChangeInv, NEW c \in ChangeCalls, ReportInv(c), CallStep(c)
  PROVE  host' \in HostStates
<1> DEFINE r == AskedFor(c)
           s == r.target
<1>1. CASE UNCHANGED host
  BY <1>1
<1>2. CASE DisableFirst(c) \/ StopTarget(c)
  BY <1>2, <1>1, DisableReport, StopReport, StateKept, ModeKept DEF StartModes
<1>3. CASE ConfigStart(c)
  <2> DEFINE mode == IF r.arg = "AutomaticDelayed" THEN "Automatic" ELSE r.arg
  <2>1. job[c].pc = "config" /\ host' = SetMode(s, mode)
    BY <1>3 DEF ConfigStart, Does
  <2>2. r.tool = "set_service_start_type"
    BY <2>1, StepOf DEF ChangeInv
  <2>3. mode \in StartModes
    BY <2>1, <2>2 DEF ReportInv, KnownStart, StartModes
  <2> HIDE DEF mode
  <2>4. QED BY <2>1, <2>3, ModeKept
<1>4. CASE SetDelayed(c)
  <2>1. host' = [host EXCEPT !.delayed[s] = r.arg = "AutomaticDelayed"]
    BY <1>4 DEF SetDelayed, Does
  <2>2. QED BY <2>1 DEF HostStates
<1>5. CASE RestartStop(c)
  BY <1>5, StateKept DEF RestartStop, Does
<1>6. CASE StartTarget(c)
  <2>1. PICK n : host' = [host EXCEPT !.state = [t \in Services |->
                            IF t = n \/ n \in Dependents(t) THEN "running" ELSE @[t]]]
    BY <1>6 DEF StartTarget, Does
  <2>2. QED BY <2>1 DEF HostStates
<1>7. CASE StopProcess(c)
  <2>1. host' = [host EXCEPT !.process[s] = NoOne]
    BY <1>7 DEF StopProcess, Does
  <2>2. QED BY <2>1 DEF HostStates
<1>8. CASE CreateKey(c) \/ WriteValue(c) \/ FlushDns(c) \/ RunCommand(c)
  <2>1. \/ host' = host \/ host' = [host EXCEPT !.value = "absent"]
        \/ host' = [host EXCEPT !.value = "present"] \/ host' = [host EXCEPT !.dns = "empty"]
    BY <1>8 DEF CreateKey, WriteValue, FlushDns, RunCommand, Does, Checks
  <2>2. QED BY <2>1 DEF HostStates
<1>9. QED
  BY <1>1, <1>2, <1>3, <1>4, <1>5, <1>6, <1>7, <1>8, CheckReport, EndReport
  DEF CallStep, AskStep, JobStep, ChangeAsk, ReadState, ChangeConfirm, ChangeAnswerLost

LEMMA HostKeptByOthers ==
  ASSUME host \in HostStates, Others
  PROVE  host' \in HostStates
<1>1. CASE \E s \in Services : host' = SetState(s, "stopped") \/ host' = SetState(s, "running")
  BY <1>1, StateKept
<1>2. CASE \E s \in Services : \E mode \in StartModes : host' = SetMode(s, mode)
  BY <1>2, ModeKept
<1>3. CASE \E s, t \in Services : host' = [host EXCEPT !.needs = @ \cup {<<s, t>>}]
  <2>1. PICK s \in Services, t \in Services : host' = [host EXCEPT !.needs = @ \cup {<<s, t>>}]
    BY <1>3
  <2> DEFINE needs == host.needs
  <2>2. needs \in SUBSET (Services \X Services) /\ <<s, t>> \in Services \X Services
    BY DEF HostStates
  <2> HIDE DEF needs
  <2>3. needs \cup {<<s, t>>} \in SUBSET (Services \X Services)
    BY <2>2
  <2>4. host' = [host EXCEPT !.needs = needs \cup {<<s, t>>}]
    BY <2>1 DEF needs
  <2>5. QED BY <2>3, <2>4 DEF HostStates
<1>4. CASE \E pid \in Pids : \E p \in Processes \cup {NoOne} : host' = [host EXCEPT !.process[pid] = p]
  <2>1. PICK pid \in Pids, p \in Processes \cup {NoOne} : host' = [host EXCEPT !.process[pid] = p]
    BY <1>4
  <2>2. [host.process EXCEPT ![pid] = p] \in [Pids -> Processes \cup {NoOne}]
    BY DEF HostStates
  <2>3. QED BY <2>1, <2>2 DEF HostStates
<1>5. CASE \E v \in {"no key", "absent", "present"} : host' = [host EXCEPT !.value = v]
  BY <1>5 DEF HostStates
<1>6. QED BY <1>1, <1>2, <1>3, <1>4, <1>5 DEF Others

(* A step of no call.                                                      *)
LEMMA NoCallStep ==
  ASSUME [ChangeNext]_changeVars, ~\E c \in ChangeCalls : CallStep(c)
  PROVE  /\ UNCHANGED <<ask, job, deeds>>
         /\ \/ UNCHANGED <<host, crossed>>
            \/ (\E s \in Services : Recover(s)) /\ UNCHANGED crossed
            \/ Others /\ Crosses({})
<1>1. CASE UNCHANGED changeVars
  BY <1>1 DEF changeVars
<1>2. CASE \E s \in Services : Recover(s)
  BY <1>2 DEF Recover
<1>3. CASE MeddleWithHost
  BY <1>3 DEF MeddleWithHost
<1>4. QED BY <1>1, <1>2, <1>3 DEF ChangeNext, CallStep

(* What a step of a call does to the start types, others are told.         *)
LEMMA CallCrosses ==
  ASSUME NEW c \in ChangeCalls, CallStep(c)
  PROVE  UNCHANGED <<host, crossed>> \/ Crosses({c})
  BY DEF CallStep, AskStep, JobStep, ChangeAsk, ReadState, ChangeConfirm, ChangeAnswerLost,
         Resolve, CheckDependents, DisableFirst, StopTarget, LookAtStop, ConfigStart, SetDelayed,
         LookAtStart, RestartStop, StartTarget, Settle, StopProcess, CreateKey, WriteValue,
         FlushDns, RunCommand, JobThrows, Checks, Does

LEMMA CrossesGrows ==
  ASSUME NEW Own, Crosses(Own), crossed \subseteq ChangeCalls
  PROVE  crossed \subseteq crossed' /\ crossed' \subseteq ChangeCalls
  BY DEF Crosses

(* A step of one call is no step of another.                               *)
LEMMA OthersReport ==
  ASSUME ChangeInv, NEW c \in ChangeCalls, NEW e \in ChangeCalls, e # c, Result(c), ReportInv(e)
  PROVE  ReportInv(e)'
<1>1. ask'[e] = ask[e] /\ job'[e] = job[e]
  BY DEF Result, Only
<1>2. \A d : d.call = e => (d \in deeds' <=> d \in deeds)
  BY DEF Result, CallEffect, AskEffect, RefuseEffect, ReadEffect, AgreeEffect, OverEffect, JobEffect
<1>3. (StartChanged(e)' <=> StartChanged(e)) /\ ((\A d \in deeds' : d.call # e) <=> (\A d \in deeds : d.call # e))
  BY <1>2 DEF StartChanged
<1>4. QED BY <1>1, <1>3 DEF ReportInv, Targets, AskedFor

LEMMA HalfInvInitially == ChangeInit => HalfInv
<1> SUFFICES ASSUME ChangeInit PROVE HalfInv
  OBVIOUS
<1>1. /\ Unasked.pc = "idle" /\ Unasked.reply = "none"
      /\ NoJob.pc = "none" /\ NoJob.started = FALSE /\ NoJob.failed = FALSE
  BY DEF Unasked, NoJob
<1>2. \A c \in ChangeCalls : ask[c] = Unasked /\ job[c] = NoJob
  BY DEF ChangeInit
<1>3. \A c \in ChangeCalls : ReportInv(c)
  BY <1>1, <1>2 DEF ReportInv, Early, Targets, Replies
<1>4. QED BY <1>3, HostAssumption, ChangeInvInitially DEF ChangeInit, HalfInv

LEMMA HalfInvKept == HalfInv /\ [ChangeNext]_changeVars => HalfInv'
<1> SUFFICES ASSUME HalfInv, [ChangeNext]_changeVars PROVE HalfInv'
  OBVIOUS
<1> USE DEF HalfInv
<1>1. ChangeInv'
  BY ChangeInvKept
<1>2. CASE \E c \in ChangeCalls : CallStep(c)
  <2>1. PICK c \in ChangeCalls : CallStep(c)
    BY <1>2
  <2>2. Result(c)
    BY <2>1, StepResult DEF ChangeInv
  <2>3. crossed' \subseteq ChangeCalls
    BY <2>1, CallCrosses, CrossesGrows
  <2>4. QED BY <1>1, <2>1, <2>2, <2>3, CallReport, OthersReport, HostKeptByCall
<1>3. CASE ~\E c \in ChangeCalls : CallStep(c)
  <2>1. UNCHANGED <<ask, job, deeds>> /\ crossed' \subseteq ChangeCalls
    BY <1>3, NoCallStep, CrossesGrows
  <2>2. host' \in HostStates
    BY <1>3, NoCallStep, HostKeptByOthers, StateKept DEF Recover
  <2>3. \A c \in ChangeCalls : ReportInv(c)'
    BY <2>1 DEF ReportInv, Targets, AskedFor, StartChanged
  <2>4. QED BY <1>1, <2>1, <2>2, <2>3
<1>4. QED BY <1>2, <1>3

(* Type correctness, for every set of calls and requests.                  *)
THEOREM ChangeTypeCorrect == ChangeSpec => []ChangeTypeOK
<1>1. HalfInv => ChangeTypeOK
  <2> SUFFICES ASSUME HalfInv PROVE ChangeTypeOK
    OBVIOUS
  <2>1. \A c \in ChangeCalls : \A d \in deeds : d.call = c => ask[c].answer = "agreed"
    BY DEF HalfInv, ChangeInv, DeedInv, AskInv
  <2>2. QED BY <2>1 DEF HalfInv, ChangeInv, ReportInv, JobInv, ChangeTypeOK
<1>2. QED BY <1>1, HalfInvInitially, HalfInvKept, PTL DEF ChangeSpec

-----------------------------------------------------------------------------
(* What stays while nobody else gives the service another start type.      *)

(* The start type that the prompt showed is the one that the command       *)
(* replaces, unless the read failed.                                       *)
SawInv(c) ==
  LET r == AskedFor(c) IN
  c \notin crossed /\ ask[c].pc # "idle" /\ r.tool = "stop_service" =>
    /\ ask[c].pc = "read" => ask[c].reads = "start type"
    /\ ask[c].pc = "prompt" \/ job[c].pc \in Early => ask[c].saw \in {ServiceField(r), NoOne}
    /\ \A d \in deeds : d.call = c /\ d.place[1] = "start" => ask[c].saw \in {d.what, NoOne}

(* A service that was disabled stays disabled, and once stopped it stays   *)
(* stopped: no recovery action and no other call starts it.                *)
StayInv(c) ==
  LET r == AskedFor(c) IN
  c \notin crossed /\ job[c].pc \in {"stop", "look"} /\ r.tool = "stop_service" /\ r.arg = "disable" =>
    /\ host.mode[r.target] = "Disabled"
    /\ job[c].pc = "look" /\ ~job[c].failed => host.state[r.target] = "stopped"

StopInv ==
  /\ HalfInv
  /\ \A c \in ChangeCalls : SawInv(c) /\ StayInv(c)

(* A step that changes neither the host nor the deeds.                     *)
LEMMA QuietStop ==
  ASSUME HalfInv, NEW c \in ChangeCalls, SawInv(c), StayInv(c),
         UNCHANGED <<host, deeds>>, ask'[c].pc # "read", ask[c].pc # "idle",
         ask'[c].request = ask[c].request, ask'[c].saw = ask[c].saw, c \in crossed => c \in crossed',
         ask'[c].pc = "prompt" \/ job'[c].pc \in Early => ask[c].pc = "prompt" \/ job[c].pc \in Early,
         job'[c].pc \in {"stop", "look"} /\ AskedFor(c).tool = "stop_service" => AskedFor(c).arg # "disable"
  PROVE  SawInv(c)' /\ StayInv(c)'
<1>1. AskedFor(c)' = AskedFor(c)
  BY DEF AskedFor
<1>2. ServiceField(AskedFor(c))' = ServiceField(AskedFor(c))
  BY <1>1 DEF ServiceField, StartType
<1>3. QED BY <1>1, <1>2 DEF SawInv, StayInv

LEMMA CallStop ==
  ASSUME HalfInv, NEW c \in ChangeCalls, SawInv(c), StayInv(c), CallStep(c)
  PROVE  SawInv(c)' /\ StayInv(c)'
<1> DEFINE r == AskedFor(c)
<1> USE DEF HalfInv, ChangeInv
<1>u. c \in crossed => c \in crossed'
  BY CallCrosses, CrossesGrows
<1>1. CASE ChangeAsk(c)
  <2>1. ask[c].pc = "idle" /\ UNCHANGED <<host, job, deeds>>
    BY <1>1 DEF ChangeAsk
  <2>2. job[c].pc = "none" /\ \A d \in deeds : d.call # c
    BY <2>1 DEF AskInv, DeedInv
  <2>3. ask'[c].pc \in {"read", "prompt"} /\ AskedFor(c)'.tool = "stop_service" =>
          ask'[c].pc = "read" /\ ask'[c].reads = "start type"
    BY <1>1, AskReport
  <2>4. QED BY <2>1, <2>2, <2>3 DEF SawInv, StayInv, Early
<1>2. CASE ReadState(c)
  <2>1. /\ ask[c].pc = "read" /\ ask'[c].pc = "prompt" /\ UNCHANGED <<host, job, deeds>>
        /\ job[c].pc = "none" /\ \A d \in deeds : d.call # c
    BY <1>2 DEF ReadState, AskFields, ChangeShape, AskInv, DeedInv
  <2>2. ask'[c].saw \in {Found(c), NoOne} /\ r' = r
    BY <1>2, ReadReport DEF AskedFor
  <2>3. ask[c].reads = "start type" => Found(c) = ServiceField(r)
    BY DEF Found
  <2>4. ServiceField(r)' = ServiceField(r)
    BY <2>1, <2>2 DEF ServiceField, StartType
  <2>5. QED BY <1>u, <2>1, <2>2, <2>3, <2>4 DEF SawInv, StayInv
<1>3. CASE ChangeConfirm(c)
  <2>1. /\ ask[c].pc = "prompt" /\ UNCHANGED <<host, deeds>>
    BY <1>3 DEF ChangeConfirm
  <2>2. Result(c) /\ ask'[c].pc \in {"host", "over"}
    BY <2>1, <1>3, ConfirmResult DEF Result, CallEffect, AskEffect, RefuseEffect, ReadEffect,
         AgreeEffect, OverEffect, JobEffect, AskInv
  <2>3. QED BY <1>3, <1>u, <2>1, <2>2, ConfirmReport, QuietStop
<1>4. CASE ChangeAnswerLost(c)
  <2>1. ask[c].pc = "host" /\ UNCHANGED <<host, job, deeds>> /\ ask'[c].pc = "over"
    BY <1>4, OverFields DEF ChangeAnswerLost
  <2>2. ask'[c].saw = ask[c].saw /\ r' = r
    BY <1>4, LostReport DEF AskedFor
  <2>3. ServiceField(r)' = ServiceField(r)
    BY <2>1, <2>2 DEF ServiceField, StartType
  <2>4. QED BY <1>u, <2>1, <2>2, <2>3 DEF SawInv, StayInv
<1>5. ASSUME job[c].pc # "none" PROVE ask[c].pc \in {"host", "over"}
  BY <1>5 DEF AskInv
<1>6. CASE Resolve(c) \/ CheckDependents(c)
  <2>1. ask'[c].pc # "read" /\ ask[c].pc # "idle" /\ ask'[c].pc # "prompt"
    BY <1>6, <1>5, FinishesFields DEF Resolve, CheckDependents
  <2>2. QED BY <1>6, <1>u, <2>1, CheckReport, QuietStop
<1>7. CASE LookAtStop(c) \/ LookAtStart(c) \/ Settle(c) \/ JobThrows(c)
  <2>1. ask'[c].pc # "read" /\ ask[c].pc # "idle" /\ ask'[c].pc # "prompt"
    BY <1>7, <1>5, FinishesFields DEF LookAtStop, LookAtStart, Settle, JobThrows, Targets
  <2>2. QED BY <1>7, <1>u, <2>1, EndReport, QuietStop DEF Early
<1>8. CASE DisableFirst(c)
  <2>1. /\ job[c].pc \in Early /\ job'[c].pc = "stop" /\ UNCHANGED ask /\ r.form = "name"
        /\ host' = SetMode(r.target, "Disabled")
        /\ \A d \in deeds' : d.call = c => d.what = StartType(r.target)
    BY <1>8, DisableReport
  <2>2. r' = r /\ ServiceField(r) = StartType(r.target) /\ ask[c].pc \in {"host", "over"}
    BY <2>1, <1>5 DEF AskedFor, ServiceField, Early
  <2>3. r.target \in Services
    BY <1>8, StepOf, RequestAssumption DEF DisableFirst, JobInv, Requested
  <2>4. host'.mode[r.target] = "Disabled"
    BY <2>1, <2>3 DEF SetMode, HostStates
  <2>5. StayInv(c)'
    BY <2>1, <2>2, <2>4 DEF StayInv
  <2>6. SawInv(c)'
    BY <1>u, <2>1, <2>2 DEF SawInv, Early
  <2>7. QED BY <2>5, <2>6
<1>9. CASE StopTarget(c)
  <2>1. /\ job[c].pc = "stop" /\ job'[c].pc = "look" /\ UNCHANGED ask
        /\ \A d \in deeds' : d \in deeds \/ d.place[1] # "start"
        /\ host' = SetState(r.target, "stopped") \/ (host' = host /\ job'[c].failed = TRUE)
    BY <1>9, StopReport
  <2>2. r' = r /\ ask[c].pc \in {"host", "over"}
    BY <2>1, <1>5 DEF AskedFor
  <2>3. r.target \in Services
    BY <2>1, StepOf, RequestAssumption DEF JobInv, Requested
  <2>4. /\ host'.mode = host.mode
        /\ host'.state[r.target] = "stopped" \/ job'[c].failed = TRUE
    <3>1. CASE host' = SetState(r.target, "stopped")
      BY <2>3, <3>1 DEF SetState, HostStates
    <3>2. CASE host' = host /\ job'[c].failed = TRUE
      BY <3>2
    <3>3. QED BY <2>1, <3>1, <3>2
  <2>5. StayInv(c)'
    BY <1>u, <2>1, <2>2, <2>4 DEF StayInv
  <2>6. SawInv(c)'
    BY <1>u, <2>1, <2>2 DEF SawInv, Early
  <2>7. QED BY <2>5, <2>6
<1>10. CASE \/ ConfigStart(c) \/ SetDelayed(c) \/ RestartStop(c) \/ StartTarget(c)
            \/ StopProcess(c) \/ CreateKey(c) \/ WriteValue(c) \/ FlushDns(c) \/ RunCommand(c)
  BY <1>10, OtherReport DEF SawInv, StayInv, AskedFor
<1>11. QED
  BY <1>1, <1>2, <1>3, <1>4, <1>6, <1>7, <1>8, <1>9, <1>10 DEF CallStep, AskStep, JobStep

(* Somebody else, a call or an administrator, changes the host.  A call    *)
(* whose service keeps its start type, and its state if it was stopped and *)
(* disabled, keeps what it relies on.                                      *)
KeptFor(c) ==
  \A s \in Services : Busy(c) /\ AskedFor(c).target = s /\ c \notin crossed' =>
    /\ c \notin crossed
    /\ StartTypeOn(host', s) = StartType(s)
    /\ host.state[s] = "stopped" /\ host.mode[s] = "Disabled" => host'.state[s] = "stopped"

LEMMA DisabledLabel ==
  ASSUME NEW mode \in StartModes, NEW delayed
  PROVE  Label(mode, delayed) = "Disabled" <=> mode = "Disabled"
  BY DEF StartModes, Label

LEMMA OthersStop ==
  ASSUME HalfInv, HalfInv', NEW c \in ChangeCalls, SawInv(c), StayInv(c), KeptFor(c),
         c \in crossed => c \in crossed',
         ask'[c] = ask[c], job'[c] = job[c],
         \A d : d.call = c => (d \in deeds' <=> d \in deeds)
  PROVE  SawInv(c)' /\ StayInv(c)'
<1> DEFINE r == AskedFor(c)
<1>1. r' = r
  BY DEF AskedFor
<1>2. SUFFICES ASSUME c \notin crossed', r.tool = "stop_service" PROVE SawInv(c)' /\ StayInv(c)'
  BY <1>1 DEF SawInv, StayInv
<1>3. ask[c].pc = "prompt" \/ job[c].pc # "none" => r.target \in Services /\ Busy(c)
  BY <1>2, RequestAssumption DEF HalfInv, ChangeInv, AskInv, JobInv, Requested, Busy
<1>4. ask[c].pc = "prompt" \/ job[c].pc # "none" => ServiceField(r)' = ServiceField(r)
  BY <1>1, <1>2, <1>3 DEF KeptFor, ServiceField, StartType
<1>5. SawInv(c)'
  BY <1>1, <1>2, <1>4 DEF SawInv, Early
<1>6. ASSUME job[c].pc \in {"stop", "look"}, r.arg = "disable"
      PROVE  /\ host'.mode[r.target] = "Disabled"
             /\ job[c].pc = "look" /\ ~job[c].failed => host'.state[r.target] = "stopped"
  <2>1. /\ host.mode[r.target] = "Disabled"
        /\ job[c].pc = "look" /\ ~job[c].failed => host.state[r.target] = "stopped"
    BY <1>2, <1>6 DEF StayInv
  <2>2. r.target \in Services /\ StartTypeOn(host', r.target) = StartType(r.target)
        /\ (host.state[r.target] = "stopped" => host'.state[r.target] = "stopped")
    BY <1>2, <1>3, <1>6, <2>1 DEF KeptFor
  <2>3. host.mode[r.target] \in StartModes /\ host'.mode[r.target] \in StartModes
    BY <2>2 DEF HalfInv, HostStates
  <2>4. QED BY <2>1, <2>2, <2>3, DisabledLabel DEF StartType, StartTypeOn
<1>7. StayInv(c)'
  BY <1>1, <1>6 DEF StayInv
<1>8. QED BY <1>5, <1>7

LEMMA CrossedOrKept ==
  ASSUME HalfInv, NEW c \in ChangeCalls, NEW Own, c \notin Own, Crosses(Own),
         NEW s \in Services, Busy(c), AskedFor(c).target = s, c \notin crossed'
  PROVE  c \notin crossed /\ StartTypeOn(host', s) = StartType(s)
  BY DEF Crosses

LEMMA SetStateSets ==
  ASSUME host \in HostStates, NEW n, NEW state \in {"running", "stopped"}, NEW s \in Services
  PROVE  SetState(n, state).state[s] = IF s = n THEN state ELSE host.state[s]
<1>1. SetState(n, state).state = [host.state EXCEPT ![n] = state]
  BY DEF SetState, HostStates
<1>2. host.state \in [Services -> {"running", "stopped"}]
  BY DEF HostStates
<1>3. QED BY <1>1, <1>2

(* No call starts a service that is disabled.                              *)
LEMMA DisabledNotStarted ==
  ASSUME HalfInv, NEW e \in ChangeCalls, CallStep(e), NEW s \in Services,
         host.state[s] = "stopped", host.mode[s] = "Disabled"
  PROVE  host'.state[s] = "stopped"
<1> DEFINE t == AskedFor(e).target
<1>0. host \in HostStates
  BY DEF HalfInv
<1>1. CASE UNCHANGED host
  BY <1>1
<1>2. CASE DisableFirst(e) \/ ConfigStart(e)
  <2>1. PICK mode : host' = SetMode(t, mode)
    BY <1>2 DEF DisableFirst, ConfigStart, Does
  <2>2. QED BY <2>1 DEF SetMode, HalfInv, HostStates
<1>3. CASE StopTarget(e) \/ RestartStop(e)
  <2>1. host' = SetState(t, "stopped") \/ host' = host
    BY <1>3 DEF StopTarget, RestartStop, Does, Checks
  <2>2. QED BY <1>0, <2>1, SetStateSets
<1>4. CASE SetDelayed(e)
  <2>1. host' = [host EXCEPT !.delayed[t] = AskedFor(e).arg = "AutomaticDelayed"]
    BY <1>4 DEF SetDelayed, Does
  <2>2. QED BY <2>1 DEF HalfInv, HostStates
<1>5. CASE StartTarget(e)
  <2>1. PICK n : /\ StartFits(n) /\ NeedsFit(n)
                 /\ host' = [host EXCEPT !.state = [u \in Services |->
                               IF u = n \/ n \in Dependents(u) THEN "running" ELSE @[u]]]
    BY <1>5 DEF StartTarget, Does
  <2>2. s # n /\ n \notin Dependents(s)
    BY <2>1 DEF StartFits, NeedsFit, Running
  <2>3. host'.state = [u \in Services |->
                         IF u = n \/ n \in Dependents(u) THEN "running" ELSE host.state[u]]
    BY <2>1 DEF HalfInv, HostStates
  <2>4. QED BY <2>2, <2>3
<1>6. CASE StopProcess(e)
  <2>1. host' = [host EXCEPT !.process[t] = NoOne]
    BY <1>6 DEF StopProcess, Does
  <2>2. QED BY <2>1 DEF HalfInv, HostStates
<1>7. CASE CreateKey(e) \/ WriteValue(e) \/ FlushDns(e) \/ RunCommand(e)
  <2>1. \/ host' = host \/ host' = [host EXCEPT !.value = "absent"]
        \/ host' = [host EXCEPT !.value = "present"] \/ host' = [host EXCEPT !.dns = "empty"]
    BY <1>7 DEF CreateKey, WriteValue, FlushDns, RunCommand, Does, Checks
  <2>2. QED BY <2>1 DEF HalfInv, HostStates
<1>8. QED
  BY <1>1, <1>2, <1>3, <1>4, <1>5, <1>6, <1>7, CheckReport, EndReport
  DEF HalfInv, ChangeInv, CallStep, AskStep, JobStep, ChangeAsk, ReadState, ChangeConfirm, ChangeAnswerLost

(* Nor does an administrator or a recovery action.                         *)
LEMMA DisabledNotStartedByOthers ==
  ASSUME HalfInv, Others \/ (\E n \in Services : Recover(n)), NEW s \in Services,
         host.state[s] = "stopped", host.mode[s] = "Disabled"
  PROVE  host'.state[s] = "stopped"
<1>0. host \in HostStates
  BY DEF HalfInv
<1>1. CASE \E n \in Services : \/ host' = SetState(n, "stopped")
                               \/ (StartFits(n) /\ host' = SetState(n, "running"))
  BY <1>0, <1>1, SetStateSets DEF StartFits
<1>2. CASE \E n \in Services : \E mode \in StartModes : host' = SetMode(n, mode)
  BY <1>0, <1>2 DEF SetMode, HostStates
<1>3. CASE \E n, m \in Services : host' = [host EXCEPT !.needs = @ \cup {<<n, m>>}]
  BY <1>0, <1>3 DEF HostStates
<1>4. CASE \E pid \in Pids : \E p \in Processes \cup {NoOne} : host' = [host EXCEPT !.process[pid] = p]
  BY <1>0, <1>4 DEF HostStates
<1>5. CASE \E v \in {"no key", "absent", "present"} : host' = [host EXCEPT !.value = v]
  BY <1>0, <1>5 DEF HostStates
<1>6. CASE \E n \in Services : Recover(n)
  BY <1>1, <1>6 DEF Recover
<1>7. QED BY <1>1, <1>2, <1>3, <1>4, <1>5, <1>6 DEF Others

LEMMA StopInvInitially == ChangeInit => StopInv
<1> SUFFICES ASSUME ChangeInit PROVE StopInv
  OBVIOUS
<1>1. HalfInv
  BY HalfInvInitially
<1>2. Unasked.pc = "idle" /\ NoJob.pc = "none"
  BY DEF Unasked, NoJob
<1>3. \A c \in ChangeCalls : ask[c] = Unasked /\ job[c] = NoJob
  BY DEF ChangeInit
<1>4. QED BY <1>1, <1>2, <1>3 DEF StopInv, SawInv, StayInv

LEMMA StopInvKept == StopInv /\ [ChangeNext]_changeVars => StopInv'
<1> SUFFICES ASSUME StopInv, [ChangeNext]_changeVars PROVE StopInv'
  OBVIOUS
<1>1. HalfInv /\ HalfInv'
  BY HalfInvKept DEF StopInv
<1> SUFFICES ASSUME NEW c \in ChangeCalls PROVE SawInv(c)' /\ StayInv(c)'
  BY <1>1 DEF StopInv
<1>2. SawInv(c) /\ StayInv(c) /\ crossed \subseteq ChangeCalls
  BY <1>1 DEF StopInv, HalfInv
<1>3. CASE CallStep(c)
  BY <1>1, <1>2, <1>3, CallStop
<1>4. CASE \E e \in ChangeCalls : e # c /\ CallStep(e)
  <2>1. PICK e \in ChangeCalls : e # c /\ CallStep(e)
    BY <1>4
  <2>2. Result(e)
    BY <1>1, <2>1, StepResult DEF HalfInv, ChangeInv
  <2>3. ask'[c] = ask[c] /\ job'[c] = job[c]
    BY <2>1, <2>2 DEF Result, Only
  <2>4. \A d : d.call = c => (d \in deeds' <=> d \in deeds)
    BY <2>1, <2>2 DEF Result, CallEffect, AskEffect, RefuseEffect, ReadEffect, AgreeEffect, OverEffect, JobEffect
  <2>5. UNCHANGED <<host, crossed>> \/ Crosses({e})
    BY <2>1, CallCrosses
  <2>6. (c \in crossed => c \in crossed') /\ KeptFor(c)
    BY <1>1, <1>2, <2>1, <2>5, CrossesGrows, CrossedOrKept, DisabledNotStarted DEF KeptFor, StartType
  <2>7. QED BY <1>1, <1>2, <2>3, <2>4, <2>6, OthersStop
<1>5. CASE ~\E e \in ChangeCalls : CallStep(e)
  <2>1. /\ UNCHANGED <<ask, job, deeds>>
        /\ \/ UNCHANGED <<host, crossed>>
           \/ (\E s \in Services : Recover(s)) /\ UNCHANGED crossed
           \/ Others /\ Crosses({})
    BY <1>5, NoCallStep
  <2>2. CASE UNCHANGED <<host, crossed>>
    BY <1>1, <1>2, <2>1, <2>2, OthersStop DEF KeptFor, StartType
  <2>3. CASE (\E s \in Services : Recover(s)) /\ UNCHANGED crossed
    <3>1. PICK s \in Services : host' = SetState(s, "running")
      BY <2>3 DEF Recover
    <3>2. \A t \in Services : StartTypeOn(host', t) = StartType(t)
      BY <1>1, <3>1 DEF SetState, StartType, StartTypeOn, HalfInv, HostStates
    <3>3. KeptFor(c)
      BY <1>1, <2>3, <3>2, DisabledNotStartedByOthers DEF KeptFor
    <3>4. QED BY <1>1, <1>2, <2>1, <2>3, <3>3, OthersStop
  <2>4. CASE Others /\ Crosses({})
    <3>1. (c \in crossed => c \in crossed') /\ KeptFor(c)
      BY <1>1, <1>2, <2>4, CrossesGrows, CrossedOrKept, DisabledNotStartedByOthers DEF KeptFor
    <3>2. QED BY <1>1, <1>2, <2>1, <3>1, OthersStop
  <2>5. QED BY <2>1, <2>2, <2>3, <2>4
<1>6. QED BY <1>3, <1>4, <1>5

(* How a stop ends: a plain error before any change, the half-done reply   *)
(* and the good one after a look at the service.                           *)
LEMMA HowStopEnds ==
  ASSUME HalfInv, NEW c \in ChangeCalls, CallStep(c), Concludes(c),
         AskedFor(c).tool = "stop_service"
  PROVE  /\ UNCHANGED <<deeds, host>> /\ ask'[c].saw = ask[c].saw
         /\ ask'[c].reply = "error" => \A d \in deeds : d.call # c
         /\ ask'[c].reply \in {"half", "ok", "again"} =>
              /\ Targets(c, "stop_service", "look")
              /\ ask'[c].reply = "again" => ~job[c].failed /\ Running(AskedFor(c).target)
<1> USE DEF HalfInv, ChangeInv
<1>0. ask[c].pc = "host" /\ ask'[c].pc = "over"
  BY DEF Concludes
<1>1. CASE ChangeAsk(c) \/ ReadState(c) \/ ChangeConfirm(c)
  BY <1>0, <1>1 DEF ChangeAsk, ReadState, ChangeConfirm
<1>2. CASE ChangeAnswerLost(c)
  BY <1>2, OverFields DEF ChangeAnswerLost
<1>3. CASE Resolve(c) \/ CheckDependents(c)
  <2>1. ask'[c].reply = "error" /\ job[c].pc \in Early
    BY <1>0, <1>3, CheckReport
  <2>2. QED BY <1>3, <2>1, CheckReport DEF ReportInv
<1>4. CASE DisableFirst(c) \/ StopTarget(c) \/ LookAtStart(c) \/ Settle(c)
  <2>1. CASE DisableFirst(c) \/ StopTarget(c)
    BY <1>0, <2>1, DisableReport, StopReport
  <2>2. CASE Settle(c)
    <3>1. job[c].pc = "settle"
      BY <2>2 DEF Settle
    <3>2. QED BY <3>1 DEF JobInv, Steps
  <2>3. CASE LookAtStart(c)
    BY <2>3 DEF LookAtStart, Targets
  <2>4. QED BY <1>4, <2>1, <2>2, <2>3
<1>5. CASE JobThrows(c)
  <2>1. job[c].pc \in Early /\ Finishes(c, "error")
    BY <1>5 DEF JobThrows, Early
  <2>2. ask'[c].reply = "error"
    BY <1>0, <2>1, FinishesFields
  <2>3. QED BY <1>5, <2>1, <2>2, EndReport DEF ReportInv
<1>6. CASE LookAtStop(c)
  <2>1. /\ Targets(c, "stop_service", "look")
        /\ Finishes(c, IF job[c].failed THEN "half"
                       ELSE IF Running(AskedFor(c).target) THEN "again" ELSE "ok")
    BY <1>6 DEF LookAtStop
  <2>2. ask'[c].reply = (IF job[c].failed THEN "half"
                         ELSE IF Running(AskedFor(c).target) THEN "again" ELSE "ok")
    BY <1>0, <2>1, FinishesFields
  <2>3. QED BY <1>6, <2>1, <2>2, EndReport
<1>7. CASE \/ ConfigStart(c) \/ SetDelayed(c) \/ RestartStop(c) \/ StartTarget(c)
           \/ StopProcess(c) \/ CreateKey(c) \/ WriteValue(c) \/ FlushDns(c) \/ RunCommand(c)
  BY <1>7, OtherReport
<1>8. QED
  BY <1>1, <1>2, <1>3, <1>4, <1>5, <1>6, <1>7 DEF CallStep, AskStep, JobStep

(* Only a step of its own concludes a call.                                *)
LEMMA ConcludesItself ==
  ASSUME HalfInv, NEW c \in ChangeCalls, [ChangeNext]_changeVars, Concludes(c)
  PROVE  CallStep(c)
<1>1. ask'[c] # ask[c]
  BY DEF Concludes
<1>2. PICK e \in ChangeCalls : CallStep(e)
  BY <1>1, NoCallStep DEF HalfInv
<1>3. Only(e)
  BY <1>2, StepResult DEF Result, HalfInv, ChangeInv
<1>4. QED BY <1>1, <1>2, <1>3 DEF Only

(* For any number of calls: a plain error means that the call changed      *)
(* nothing, and the other replies say truly whether the start type         *)
(* changed.                                                                *)
LEMMA ReplyOfStop ==
  ASSUME HalfInv, NEW c \in ChangeCalls, [ChangeNext]_changeVars, Concludes(c),
         AskedFor(c).tool = "stop_service"
  PROVE  /\ deeds' = deeds /\ ask'[c].saw = ask[c].saw
         /\ ask'[c].reply = "error" => \A d \in deeds' : d.call # c
         /\ ask'[c].reply \in {"half", "ok"} =>
              (job[c].started <=> \E d \in deeds' : d.call = c /\ d.place[1] = "start")
<1>1. CallStep(c)
  BY ConcludesItself
<1>2. QED BY <1>1, HowStopEnds DEF HalfInv, ReportInv, StartChanged

(* TR-REL-18, for any number of calls and of others: the reply of a stop   *)
(* tells what it changed, and names the start type that it replaced.       *)
THEOREM StopToldTruly == ChangeSpec => HalfDoneTold
<1> DEFINE A == \A c \in ChangeCalls :
       Concludes(c) /\ AskedFor(c).tool = "stop_service" =>
         LET changed == \E d \in deeds' : d.call = c /\ d.place[1] = "start"
         IN /\ ask'[c].reply = "error" => \A d \in deeds' : d.call # c
            /\ ask'[c].reply \in {"half", "ok"} => (job[c].started <=> changed)
            /\ c \notin crossed => \A d \in deeds' :
                 d.call = c /\ d.place[1] = "start" => ask[c].saw \in {d.what, NoOne}
<1>1. StopInv /\ [ChangeNext]_changeVars => [A]_changeVars
  <2> SUFFICES ASSUME StopInv, [ChangeNext]_changeVars, NEW c \in ChangeCalls,
                      Concludes(c), AskedFor(c).tool = "stop_service"
               PROVE  /\ ask'[c].reply = "error" => \A d \in deeds' : d.call # c
                      /\ ask'[c].reply \in {"half", "ok"} =>
                           (job[c].started <=> \E d \in deeds' : d.call = c /\ d.place[1] = "start")
                      /\ c \notin crossed => \A d \in deeds' :
                           d.call = c /\ d.place[1] = "start" => ask[c].saw \in {d.what, NoOne}
    OBVIOUS
  <2>1. HalfInv /\ SawInv(c) /\ ask[c].pc # "idle"
    BY DEF StopInv, Concludes
  <2>2. QED BY <2>1, ReplyOfStop DEF SawInv
<1>2. StopInv /\ [ChangeNext]_changeVars => StopInv'
  BY StopInvKept
<1>3. QED BY <1>1, <1>2, StopInvInitially, PTL DEF ChangeSpec, HalfDoneTold

(* TR-REL-18, for any number of calls: with disable=true the service does  *)
(* not run again when the command looks, unless somebody else gave it      *)
(* another start type.                                                     *)
THEOREM DisabledServicesStay == ChangeSpec => DisabledStays
<1> DEFINE A == \A c \in ChangeCalls :
       /\ Concludes(c) /\ AskedFor(c).tool = "stop_service" /\ AskedFor(c).arg = "disable"
       /\ ask'[c].reply = "again"
       => c \in crossed
<1>1. StopInv /\ [ChangeNext]_changeVars => [A]_changeVars
  <2> SUFFICES ASSUME StopInv, [ChangeNext]_changeVars, NEW c \in ChangeCalls,
                      Concludes(c), AskedFor(c).tool = "stop_service",
                      AskedFor(c).arg = "disable", ask'[c].reply = "again"
               PROVE  c \in crossed
    OBVIOUS
  <2>1. HalfInv /\ StayInv(c)
    BY DEF StopInv
  <2>2. CallStep(c)
    BY <2>1, ConcludesItself
  <2>3. Targets(c, "stop_service", "look") /\ ~job[c].failed /\ Running(AskedFor(c).target)
    BY <2>1, <2>2, HowStopEnds
  <2>4. QED BY <2>1, <2>3 DEF StayInv, Targets, Running
<1>2. StopInv /\ [ChangeNext]_changeVars => StopInv'
  BY StopInvKept
<1>3. QED BY <1>1, <1>2, StopInvInitially, PTL DEF ChangeSpec, DisabledStays

-----------------------------------------------------------------------------
(* A call goes forward only.                                               *)

(* The statements that a host command has before it, at most.              *)
StatementsLeft(pc) ==
  CASE pc = "none" -> 0
    [] pc \in {"look", "settle"} -> 1
    [] pc \in {"stop", "delay", "start", "kill", "write", "flush", "run"} -> 2
    [] pc \in {"disable", "config", "restop", "key"} -> 3
    [] pc = "dependents" -> 4
    [] pc = "resolve" -> 5

StepsLeft(c) ==
  StatementsLeft(job[c].pc) +
    (CASE ask[c].pc = "read" -> 8 [] ask[c].pc = "prompt" -> 7 [] ask[c].pc = "host" -> 1
       [] ask[c].pc \in {"idle", "over"} -> 0)

Moves(c) == ask'[c] # ask[c] \/ job'[c] # job[c]

(* A call that began takes at most eight steps of its own, whatever others *)
(* do to the host in between, and one that is over does nothing any more:  *)
(* no statement is tried again, and nothing is read twice.                 *)
EightSteps ==
  /\ [](\A c \in ChangeCalls : StepsLeft(c) \in 0 .. 8)
  /\ [][\A c \in ChangeCalls : ask[c].pc # "idle" /\ Moves(c) => StepsLeft(c)' < StepsLeft(c)]_changeVars

Statements ==
  {"resolve", "dependents", "disable", "stop", "look", "config", "delay", "restop", "start", "settle",
   "kill", "key", "write", "flush", "run"}

LEMMA StatementsOfJob ==
  ASSUME ChangeInv, NEW c \in ChangeCalls
  PROVE  job[c].pc \in Statements \cup {"none"}
<1>1. JobInv(c)
  BY DEF ChangeInv
<1>2. QED BY <1>1 DEF JobInv, Requested, Steps, Statements, Gated, FreeTools

LEMMA StepsLeftBound ==
  ASSUME ChangeInv, NEW c \in ChangeCalls
  PROVE  StepsLeft(c) \in 0 .. 8
<1>1. /\ ask[c].pc \in {"idle", "read", "prompt", "host", "over"}
      /\ ask[c].pc \in {"idle", "read", "prompt"} => job[c].pc = "none"
  BY DEF ChangeInv, AskInv
<1>2. StatementsLeft(job[c].pc) \in 0 .. 5 /\ (job[c].pc = "none" => StatementsLeft(job[c].pc) = 0)
  BY StatementsOfJob DEF StatementsLeft, Statements
<1>3. QED BY <1>1, <1>2 DEF StepsLeft

(* The end of a host command, and the answer that it may carry.            *)
LEMMA EndForward ==
  ASSUME ChangeInv, NEW c \in ChangeCalls, job[c].pc # "none", NEW reply, Finishes(c, reply)
  PROVE  StepsLeft(c)' < StepsLeft(c)
<1>1. ChangeShape /\ ask[c].pc \in {"host", "over"}
  BY DEF ChangeInv, AskInv
<1>2. job'[c].pc = "none" /\ (ask'[c].pc = ask[c].pc \/ ask'[c].pc = "over")
  BY <1>1, FinishesFields
<1>3. StatementsLeft(job[c].pc) \in 1 .. 5 /\ StatementsLeft(job'[c].pc) = 0
  BY <1>2, StatementsOfJob DEF StatementsLeft, Statements
<1>4. QED BY <1>1, <1>2, <1>3 DEF StepsLeft

LEMMA NextForward ==
  ASSUME ChangeInv, NEW c \in ChangeCalls, UNCHANGED ask, job[c].pc # "none",
         NEW pc, job'[c].pc = pc, pc \in Statements, StatementsLeft(pc) < StatementsLeft(job[c].pc)
  PROVE  StepsLeft(c)' < StepsLeft(c)
<1>1. ask[c].pc \in {"host", "over"}
  BY DEF ChangeInv, AskInv
<1>2. StatementsLeft(job[c].pc) \in 0 .. 5 /\ StatementsLeft(pc) \in 0 .. 5
  BY StatementsOfJob DEF StatementsLeft, Statements
<1>3. QED BY <1>1, <1>2 DEF StepsLeft

LEMMA JobForward ==
  ASSUME ChangeInv, NEW c \in ChangeCalls, JobStep(c) \/ JobThrows(c), Moves(c)
  PROVE  StepsLeft(c)' < StepsLeft(c)
<1>1. ChangeShape /\ JobInv(c) /\ job[c].pc # "none"
  BY DEF ChangeInv, JobStep, Resolve, CheckDependents, DisableFirst, StopTarget, LookAtStop,
         ConfigStart, SetDelayed, LookAtStart, RestartStop, StartTarget, Settle, StopProcess,
         CreateKey, WriteValue, FlushDns, RunCommand, JobThrows, Targets
<1>2. CASE \E reply : Finishes(c, reply)
  BY <1>1, <1>2, EndForward
<1>3. CASE ~\E reply : Finishes(c, reply)
  <2> DEFINE Next(pc, to) == job[c].pc = pc /\ job'[c].pc = to /\ UNCHANGED ask
  <2>1. CASE Resolve(c)
    <3>1. Goes(c, AfterResolve(AskedFor(c))) /\ UNCHANGED ask /\ job[c].pc = "resolve"
      BY <1>3, <2>1 DEF Resolve
    <3>2. AfterResolve(AskedFor(c)) \in {"restop", "dependents", "config"}
      BY DEF AfterResolve
    <3>3. QED BY <1>1, <3>1, <3>2, GoesFields, NextForward DEF Statements, StatementsLeft
  <2>2. CASE CheckDependents(c)
    <3>1. PICK pc \in {"config", "disable", "stop"} :
            Goes(c, pc) /\ UNCHANGED ask /\ job[c].pc = "dependents"
      BY <1>3, <2>2 DEF CheckDependents
    <3>2. QED BY <1>1, <3>1, GoesFields, NextForward DEF Statements, StatementsLeft
  <2>3. CASE DisableFirst(c)
    <3>1. Next("disable", "stop")
      BY <1>1, <2>3 DEF DisableFirst, ChangeShape, JobFields
    <3>2. QED BY <1>1, <3>1, NextForward DEF Statements, StatementsLeft
  <2>4. CASE StopTarget(c)
    <3>1. Next("stop", "look")
      BY <1>1, <2>4, GoesFields DEF StopTarget, ChangeShape, JobFields
    <3>2. QED BY <1>1, <3>1, NextForward DEF Statements, StatementsLeft
  <2>5. CASE ConfigStart(c) \/ SetDelayed(c) \/ RestartStop(c)
    <3>1. Next("config", "delay") \/ Next("delay", "look") \/ Next("restop", "start")
      BY <1>1, <2>5, GoesFields DEF ConfigStart, SetDelayed, RestartStop
    <3>2. QED BY <1>1, <3>1, NextForward DEF Statements, StatementsLeft
  <2>6. CASE StartTarget(c)
    <3>1. Next("start", "settle") \/ UNCHANGED <<ask, job>>
      BY <1>1, <2>6, GoesFields DEF StartTarget
    <3>2. QED BY <1>1, <3>1, NextForward DEF Statements, StatementsLeft, Moves
  <2>7. CASE StopProcess(c) \/ CreateKey(c) \/ WriteValue(c) \/ FlushDns(c) \/ RunCommand(c)
    <3>1. Next("kill", "settle") \/ Next("key", "write") \/ Next("write", "settle")
          \/ Next("flush", "settle") \/ Next("run", "settle")
      BY <1>1, <2>7, GoesFields DEF StopProcess, CreateKey, WriteValue, FlushDns, RunCommand
    <3>2. QED BY <1>1, <3>1, NextForward DEF Statements, StatementsLeft
  <2>8. ~(LookAtStop(c) \/ LookAtStart(c) \/ Settle(c) \/ JobThrows(c))
    BY <1>3 DEF LookAtStop, LookAtStart, Settle, JobThrows
  <2>9. QED BY <2>1, <2>2, <2>3, <2>4, <2>5, <2>6, <2>7, <2>8 DEF JobStep
<1>4. QED BY <1>2, <1>3

LEMMA ServerForward ==
  ASSUME ChangeInv, NEW c \in ChangeCalls, AskStep(c) \/ ChangeAnswerLost(c)
  PROVE  StepsLeft(c)' < StepsLeft(c)
<1>1. ChangeShape /\ AskInv(c)
  BY DEF ChangeInv
<1>2. CASE ReadState(c)
  <2>1. ask[c].pc = "read" /\ job[c].pc = "none" /\ ask'[c].pc = "prompt" /\ UNCHANGED job
    BY <1>1, <1>2 DEF ReadState, AskInv, ChangeShape, AskFields
  <2>2. QED BY <2>1 DEF StepsLeft, StatementsLeft
<1>3. CASE ChangeConfirm(c)
  <2>1. ask[c].pc = "prompt" /\ job[c].pc = "none" /\ ask[c].first \in Statements
    BY <1>1, <1>3 DEF ChangeConfirm, AskInv, Requested, FirstJob, Gated, FreeTools, Statements
  <2>2. \/ ask'[c].pc = "over" /\ UNCHANGED job
        \/ ask'[c].pc = "host" /\ job'[c].pc = ask[c].first
    BY <1>1, <1>3, OverFields DEF ChangeConfirm, ChangeShape, AskFields, JobFields
  <2>3. StatementsLeft(ask[c].first) \in 0 .. 5
    BY <2>1 DEF Statements, StatementsLeft
  <2>4. StatementsLeft("none") = 0
    BY DEF StatementsLeft
  <2>5. StepsLeft(c) = 7
    BY <2>1, <2>4 DEF StepsLeft
  <2>6. StepsLeft(c)' \in 0 .. 6
    BY <2>1, <2>2, <2>3, <2>4 DEF StepsLeft
  <2>7. QED BY <2>5, <2>6
<1>4. CASE ChangeAnswerLost(c)
  <2>1. ask[c].pc = "host" /\ ask'[c].pc = "over" /\ UNCHANGED job
    BY <1>1, <1>4, OverFields DEF ChangeAnswerLost
  <2>2. StatementsLeft(job[c].pc) \in 0 .. 5
    BY StatementsOfJob DEF Statements, StatementsLeft
  <2>3. QED BY <2>1, <2>2 DEF StepsLeft
<1>5. QED BY <1>2, <1>3, <1>4 DEF AskStep

LEMMA Forward ==
  ASSUME ChangeInv, [ChangeNext]_changeVars, NEW c \in ChangeCalls, ask[c].pc # "idle", Moves(c)
  PROVE  StepsLeft(c)' < StepsLeft(c)
<1>1. PICK e \in ChangeCalls : CallStep(e)
  BY NoCallStep DEF Moves
<1>2. Result(e)
  BY <1>1, StepResult DEF ChangeInv
<1>3. e = c
  BY <1>2 DEF Result, Only, Moves
<1>4. QED BY <1>1, <1>3, JobForward, ServerForward DEF CallStep, ChangeAsk

(* The gate, the prompt and the scripts of the change tools (server.rs,    *)
(* ps.rs): a call only goes forward, in at most eight steps of its own.    *)
THEOREM ChangesGoForward == ChangeSpec => EightSteps
<1>1. ChangeInv => \A c \in ChangeCalls : StepsLeft(c) \in 0 .. 8
  BY StepsLeftBound
<1>2. ChangeInv /\ [ChangeNext]_changeVars =>
        [\A c \in ChangeCalls : ask[c].pc # "idle" /\ Moves(c) => StepsLeft(c)' < StepsLeft(c)]_changeVars
  BY Forward
<1>3. QED BY <1>1, <1>2, ChangeInvariant, PTL DEF ChangeSpec, EightSteps

=============================================================================
