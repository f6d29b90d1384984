---------------------------- MODULE HostChanges ----------------------------
(***************************************************************************)
(* The tools that change services, processes, registry values and the DNS  *)
(* cache, and run_command (src/src/server.rs, host commands of             *)
(* src/src/ps.rs): a check by the server, a read for the prompt, the       *)
(* confirmation, and one host command that checks again.                   *)
(*                                                                         *)
(* Administrators and the service control manager change the host between  *)
(* any two steps; a host command goes on when its answer is lost.          *)
(***************************************************************************)
EXTENDS Integers, FiniteSets

CONSTANTS
  ChangeCalls,     \* calls of these tools
  ChangeRequests,  \* what each may ask
  Services,        \* services of the host
  Protected,       \* PROTECTED_SERVICES
  Recovering,      \* services with a recovery action
  Pids,            \* process identifiers
  Processes,       \* programs that run under one
  NoOne,           \* no program, or no answer
  Hosts,           \* the host at first
  Agreement,       \* WINRIG_CONFIRM_FALLBACK
  MaxMeddling      \* bound: changes by others

ASSUME ChangeAssumption ==
  /\ Protected \subseteq Services
  /\ NoOne \notin Processes
  /\ Agreement \in {"refuse", "proceed"}
  /\ MaxMeddling \in Nat

StartModes == {"Automatic", "Manual", "Disabled"}

(* Services, processes, one registry value and the DNS cache.              *)
HostStates ==
  [state : [Services -> {"running", "stopped"}], mode : [Services -> StartModes],
   delayed : [Services -> BOOLEAN], needs : SUBSET (Services \X Services),
   process : [Pids -> Processes \cup {NoOne}], value : {"no key", "absent", "present"},
   dns : {"full", "empty"}]

ASSUME HostAssumption == Hosts \subseteq HostStates

(* A service or a process is asked for by its name or number; a name that  *)
(* is no service has another form.  A valid start type is a known one.     *)
ASSUME RequestAssumption ==
  \A c \in ChangeCalls : \A r \in ChangeRequests[c] :
    /\ r.tool \in {"restart_service", "stop_service", "set_service_start_type", "start_service"}
         => r.target \in Services
    /\ r.tool = "kill_process" => r.target \in Pids
    /\ r.tool = "set_service_start_type" /\ r.valid => r.arg \in StartModes \cup {"AutomaticDelayed"}

VARIABLES
  host,     \* services, processes, registry and DNS cache
  ask,      \* the tool call of the server
  job,      \* its host command
  deeds,    \* history: what host commands changed
  crossed,  \* history: calls whose service others gave another start type
  meddling  \* counted for the bound

changeVars == <<host, ask, job, deeds, crossed, meddling>>

-----------------------------------------------------------------------------

(* The start type: the value Start and the flag DelayedAutostart.          *)
Label(mode, delayed) == IF mode = "Automatic" /\ delayed THEN "AutomaticDelayed" ELSE mode

StartTypeOn(h, s) == Label(h.mode[s], h.delayed[s])

StartType(s) == StartTypeOn(host, s)

(* Every service that needs s, directly or through others.                 *)
Dependents(s) ==
  {t \in Services : \A D \in SUBSET Services :
     (\A n \in host.needs : n[2] \in D \cup {s} => n[1] \in D) => t \in D}

Running(s) == host.state[s] = "running"

StopFits(s) == \A t \in Dependents(s) : ~Running(t)

Gated == {"restart_service", "stop_service", "set_service_start_type"}

Replies == {"none", "refused", "ok", "error", "half", "again", "lost"}

ChangeTypeOK ==
  /\ host \in HostStates /\ crossed \subseteq ChangeCalls
  /\ \A c \in ChangeCalls :
       /\ ask[c].pc \in {"idle", "read", "prompt", "host", "over"}
       /\ ask[c].reply \in Replies
       /\ (ask[c].reply = "none") <=> (ask[c].pc # "over")
       /\ job[c].pc # "none" => ask[c].answer = "agreed"
       /\ \A d \in deeds : d.call = c => ask[c].answer = "agreed"

Unasked == [pc |-> "idle", request |-> NoOne, reads |-> "nothing", saw |-> NoOne,
            first |-> "none", shown |-> FALSE, answer |-> "open", reply |-> "none"]

NoJob == [pc |-> "none", started |-> FALSE, failed |-> FALSE]

ChangeInit ==
  /\ host \in Hosts
  /\ ask = [c \in ChangeCalls |-> Unasked]
  /\ job = [c \in ChangeCalls |-> NoJob]
  /\ deeds = {}
  /\ crossed = {}
  /\ meddling = 0

AskedFor(c) == ask[c].request

Busy(c) == ask[c].pc \notin {"idle", "over"} \/ job[c].pc # "none"

(* A new start type of a service, by a call of Own or by somebody else.    *)
Crosses(Own) ==
  crossed' = crossed \cup
    {c \in ChangeCalls \ Own : Busy(c) /\ \E s \in Services :
       AskedFor(c).target = s /\ StartTypeOn(host', s) # StartType(s)}

-----------------------------------------------------------------------------
(* The tool call, up to the confirmation.                                  *)

ChangeOver(c, reply) ==
  ask' = [ask EXCEPT ![c].pc = "over", ![c].reply = reply,
                     ![c].answer = IF @ = "open" THEN "refused" ELSE @]

Refused(c, r) ==
  ask' = [ask EXCEPT ![c] = [Unasked EXCEPT !.pc = "over", !.request = r,
                               !.answer = "refused", !.reply = "refused"]]

(* A tool reads for its prompt, or prompts at once.                        *)
Begin(c, r, reads, first) ==
  ask' = [ask EXCEPT ![c] =
    [Unasked EXCEPT !.request = r, !.reads = reads, !.first = first,
                    !.pc = IF reads = "nothing" THEN "prompt" ELSE "read",
                    !.shown = reads = "nothing"]]

(* A name in the allowed charset that is not a protected one; a display    *)
(* name passes.                                                            *)
DecideServiceTarget(r) == r.form # "invalid" /\ ~(r.form = "name" /\ r.target \in Protected)

RestartService(c, r) ==
  r.tool = "restart_service" /\ DecideServiceTarget(r) /\ Begin(c, r, "state", "resolve")

(* wait_seconds in its range; the prompt shows the state and the start     *)
(* type.                                                                   *)
StopService(c, r) ==
  r.tool = "stop_service" /\ DecideServiceTarget(r) /\ r.valid /\ Begin(c, r, "start type", "resolve")

(* A known start type.                                                     *)
SetServiceStartType(c, r) ==
  /\ r.tool = "set_service_start_type" /\ DecideServiceTarget(r) /\ r.valid
  /\ Begin(c, r, "start type", "resolve")

(* No gate: a name may hold a wildcard.                                    *)
StartService(c, r) == r.tool = "start_service" /\ Begin(c, r, "state", "start")

KillProcess(c, r) == r.tool = "kill_process" /\ Begin(c, r, "process", "kill")

(* A known value type.                                                     *)
SetRegistry(c, r) == r.tool = "set_registry" /\ r.valid /\ Begin(c, r, "value", "key")

FlushDnsCache(c, r) == r.tool = "flush_dns" /\ Begin(c, r, "nothing", "flush")

(* An allowed prefix, and a length that fits the command line.             *)
CommandTool(c, r) == r.tool = "run_command" /\ r.valid /\ Begin(c, r, "nothing", "run")

(* A refusal of the guards above, or of a session that is not there.       *)
ChangeRefuse(c, r) == Refused(c, r)

ChangeAsk(c) ==
  /\ ask[c].pc = "idle"
  /\ \E r \in ChangeRequests[c] :
       \/ RestartService(c, r) \/ StopService(c, r) \/ SetServiceStartType(c, r) \/ StartService(c, r)
       \/ KillProcess(c, r) \/ SetRegistry(c, r) \/ FlushDnsCache(c, r) \/ CommandTool(c, r)
       \/ ChangeRefuse(c, r)
  /\ UNCHANGED <<host, job, deeds, crossed, meddling>>

ServiceState(r) == IF r.form = "name" THEN host.state[r.target] ELSE NoOne

ServiceField(r) == IF r.form = "name" THEN StartType(r.target) ELSE NoOne

ProcessDetails(r) == host.process[r.target]

(* Whether the value is there, never its data.                             *)
ValuePresence == host.value = "present"

Found(c) ==
  CASE ask[c].reads = "state" -> ServiceState(AskedFor(c))
    [] ask[c].reads = "start type" -> ServiceField(AskedFor(c))
    [] ask[c].reads = "process" -> ProcessDetails(AskedFor(c))
    [] ask[c].reads = "value" -> ValuePresence

(* A read that fails is shown as unknown, and the prompt appears all the   *)
(* same.                                                                   *)
ReadState(c) ==
  /\ ask[c].pc = "read"
  /\ \E saw \in {Found(c), NoOne} :
       ask' = [ask EXCEPT ![c].pc = "prompt", ![c].saw = saw, ![c].shown = TRUE]
  /\ UNCHANGED <<host, job, deeds, crossed, meddling>>

(* A changed form: a refusal of the user is not looked at.                 *)
ChangeUnasked(c) ==
  /\ ask[c].pc = "prompt"
  /\ \E answer \in {"agreed", "refused"} :
       ask' = [ask EXCEPT ![c].pc = "host", ![c].answer = answer]
  /\ job' = [job EXCEPT ![c].pc = ask[c].first]
  /\ UNCHANGED <<host, deeds, crossed, meddling>>

ChangeConfirm(c) ==
  /\ ask[c].pc = "prompt"
  /\ \/ /\ AskedFor(c).client = "form" \/ (AskedFor(c).client = "none" /\ Agreement = "proceed")
        /\ ask' = [ask EXCEPT ![c].pc = "host", ![c].answer = "agreed"]
        /\ job' = [job EXCEPT ![c].pc = ask[c].first]
     \/ ChangeOver(c, "refused") /\ UNCHANGED job
  /\ UNCHANGED <<host, deeds, crossed, meddling>>

ChangeAnswerLost(c) ==
  /\ ask[c].pc = "host"
  /\ ChangeOver(c, "lost")
  /\ UNCHANGED <<host, job, deeds, crossed, meddling>>

-----------------------------------------------------------------------------
(* The host command.                                                       *)

Goes(c, pc) == job' = [job EXCEPT ![c].pc = pc]

Finishes(c, reply) ==
  /\ job' = [job EXCEPT ![c].pc = "none"]
  /\ IF ask[c].pc = "host" THEN ChangeOver(c, reply) ELSE UNCHANGED ask

Checks == UNCHANGED <<host, deeds, crossed, meddling>>

Does(c, place, what, new) ==
  /\ host' = new
  /\ Crosses({c})
  /\ deeds' = deeds \cup {[call |-> c, place |-> place, what |-> what]}
  /\ UNCHANGED meddling

Targets(c, tool, pc) == job[c].pc = pc /\ AskedFor(c).tool = tool

(* A statement that throws ends the command.  stop_service catches the     *)
(* failure of Stop-Service, and nothing throws after it.                   *)
JobThrows(c) ==
  /\ job[c].pc # "none"
  /\ AskedFor(c).tool = "stop_service" => job[c].pc \in {"resolve", "dependents", "disable"}
  /\ Finishes(c, "error")
  /\ Checks

AfterResolve(r) ==
  CASE r.tool = "restart_service" -> "restop"
    [] r.tool = "stop_service" -> "dependents"
    [] OTHER -> IF r.arg = "Disabled" THEN "dependents" ELSE "config"

(* A changed form: a display name is taken for the service it names.       *)
ResolveDisplayName(c) ==
  /\ job[c].pc = "resolve"
  /\ Goes(c, AfterResolve(AskedFor(c))) /\ UNCHANGED ask
  /\ Checks

(* Resolve-WinrigService: an exact match of the name, never a display name,*)
(* and the protected list once more.                                       *)
Resolve(c) ==
  /\ job[c].pc = "resolve"
  /\ LET r == AskedFor(c) IN
       IF r.form = "name" /\ r.target \notin Protected
         THEN Goes(c, AfterResolve(r)) /\ UNCHANGED ask
         ELSE Finishes(c, "error")
  /\ Checks

(* A changed form: the start type is set by another call, after the stop.  *)
CheckDependentsOnly(c) ==
  /\ job[c].pc = "dependents"
  /\ IF Dependents(AskedFor(c).target) \cap Protected # {} THEN Finishes(c, "error")
     ELSE Goes(c, IF AskedFor(c).tool = "stop_service" THEN "stop" ELSE "config") /\ UNCHANGED ask
  /\ Checks

CheckDependents(c) ==
  /\ job[c].pc = "dependents"
  /\ IF Dependents(AskedFor(c).target) \cap Protected # {} THEN Finishes(c, "error")
     ELSE /\ Goes(c, IF AskedFor(c).tool # "stop_service" THEN "config"
                     ELSE IF AskedFor(c).arg = "disable" THEN "disable" ELSE "stop")
          /\ UNCHANGED ask
  /\ Checks

SetMode(s, mode) == [host EXCEPT !.mode[s] = mode]

SetState(s, state) == [host EXCEPT !.state[s] = state]

(* sc.exe config start= disabled, before the stop.                         *)
DisableFirst(c) ==
  /\ job[c].pc = "disable"
  /\ LET s == AskedFor(c).target IN Does(c, <<"start", s>>, StartType(s), SetMode(s, "Disabled"))
  /\ job' = [job EXCEPT ![c].pc = "stop", ![c].started = TRUE]
  /\ UNCHANGED ask

(* A changed form: the failure of the stop is not caught.                  *)
StopUncaught(c) ==
  /\ job[c].pc = "stop"
  /\ LET s == AskedFor(c).target IN
       \/ StopFits(s) /\ Does(c, <<"state", s>>, host.state[s], SetState(s, "stopped"))
            /\ Goes(c, "look") /\ UNCHANGED ask
       \/ Finishes(c, "error") /\ Checks

(* Stop-Service without -Force fails while a dependent runs.               *)
StopTarget(c) ==
  /\ job[c].pc = "stop"
  /\ LET s == AskedFor(c).target IN
       \/ /\ StopFits(s)
          /\ Does(c, <<"state", s>>, host.state[s], SetState(s, "stopped"))
          /\ Goes(c, "look")
       \/ job' = [job EXCEPT ![c].pc = "look", ![c].failed = TRUE] /\ Checks
  /\ UNCHANGED ask

(* A changed form: a wait until the service is stopped, without a limit.   *)
LookAtStopWaits(c) ==
  /\ Targets(c, "stop_service", "look")
  /\ ~Running(AskedFor(c).target)
  /\ Finishes(c, IF job[c].failed THEN "half" ELSE "ok")
  /\ Checks

(* After wait_seconds: the half-done state, or a service that runs again.  *)
LookAtStop(c) ==
  /\ Targets(c, "stop_service", "look")
  /\ Finishes(c, IF job[c].failed THEN "half"
                 ELSE IF Running(AskedFor(c).target) THEN "again" ELSE "ok")
  /\ Checks

(* sc.exe config; the delayed flag may stay as it was.                     *)
ConfigStart(c) ==
  /\ job[c].pc = "config"
  /\ LET s == AskedFor(c).target
         mode == IF AskedFor(c).arg = "AutomaticDelayed" THEN "Automatic" ELSE AskedFor(c).arg
     IN Does(c, <<"start", s>>, StartType(s), SetMode(s, mode))
  /\ Goes(c, "delay") /\ UNCHANGED ask

SetDelayed(c) ==
  /\ job[c].pc = "delay"
  /\ LET s == AskedFor(c).target IN
       Does(c, <<"start", s>>, StartType(s),
            [host EXCEPT !.delayed[s] = AskedFor(c).arg = "AutomaticDelayed"])
  /\ Goes(c, "look") /\ UNCHANGED ask

LookAtStart(c) ==
  /\ Targets(c, "set_service_start_type", "look")
  /\ Finishes(c, IF StartType(AskedFor(c).target) = AskedFor(c).arg THEN "ok" ELSE "error")
  /\ Checks

(* Restart-Service without -Force: a stop that fails while a dependent     *)
(* runs, and a start that fails for a disabled service.                    *)
RestartStop(c) ==
  /\ job[c].pc = "restop"
  /\ LET s == AskedFor(c).target IN
       /\ StopFits(s)
       /\ Does(c, <<"state", s>>, host.state[s], SetState(s, "stopped"))
  /\ Goes(c, "start") /\ UNCHANGED ask

StartFits(s) == host.mode[s] # "Disabled"

(* What the service needs must run, or be such that it can be started.     *)
NeedsFit(s) == \A t \in Services : s \in Dependents(t) => Running(t) \/ StartFits(t)

(* The service control manager starts what the service needs.              *)
StartTarget(c) ==
  /\ job[c].pc = "start"
  /\ LET r == AskedFor(c)
         chosen == IF r.form = "pattern" THEN Services ELSE IF r.form = "name" THEN {r.target} ELSE {}
     IN \E s \in chosen :
          /\ StartFits(s) /\ NeedsFit(s)
          /\ Does(c, <<"state", s>>, host.state[s],
                  [host EXCEPT !.state = [t \in Services |->
                     IF t = s \/ s \in Dependents(t) THEN "running" ELSE @[t]]])
          /\ \/ Goes(c, "settle")
             \/ r.form = "pattern" /\ UNCHANGED job
  /\ UNCHANGED ask

(* The reply carries the state that the command reads at its end.          *)
Settle(c) ==
  /\ job[c].pc = "settle"
  /\ Finishes(c, "ok")
  /\ Checks

(* Stop-Process by the identifier alone.                                   *)
StopProcess(c) ==
  /\ job[c].pc = "kill"
  /\ LET pid == AskedFor(c).target IN
       /\ host.process[pid] # NoOne
       /\ Does(c, <<"process", pid>>, host.process[pid], [host EXCEPT !.process[pid] = NoOne])
  /\ Goes(c, "settle") /\ UNCHANGED ask

(* A missing key may be created first; an error of New-Item ends nothing.  *)
CreateKey(c) ==
  /\ job[c].pc = "key"
  /\ \/ host.value = "no key" /\ Does(c, <<"registry", "key">>, "no key", [host EXCEPT !.value = "absent"])
     \/ Checks
  /\ Goes(c, "write") /\ UNCHANGED ask

WriteValue(c) ==
  /\ job[c].pc = "write"
  /\ host.value # "no key"
  /\ Does(c, <<"registry", "value">>, host.value, [host EXCEPT !.value = "present"])
  /\ Goes(c, "settle") /\ UNCHANGED ask

FlushDns(c) ==
  /\ job[c].pc = "flush"
  /\ Does(c, <<"dns", "cache">>, host.dns, [host EXCEPT !.dns = "empty"])
  /\ Goes(c, "settle") /\ UNCHANGED ask

(* The confirmed text may do anything; only that it runs is modelled.      *)
RunCommand(c) ==
  /\ job[c].pc = "run"
  /\ Does(c, <<"command", "text">>, "run", host)
  /\ Goes(c, "settle") /\ UNCHANGED ask

-----------------------------------------------------------------------------
(* Administrators, and programs that end.                                  *)

Others ==
  \/ \E s \in Services :
       \/ Running(s) /\ StopFits(s) /\ host' = SetState(s, "stopped")
       \/ ~Running(s) /\ StartFits(s) /\ (\A t \in Services : s \in Dependents(t) => Running(t))
            /\ host' = SetState(s, "running")
       \/ \E mode \in StartModes \ {host.mode[s]} : host' = SetMode(s, mode)
       \/ \E t \in Services \ {s} :
            /\ <<s, t>> \notin host.needs /\ t \notin Dependents(s) /\ ~Running(s)
            /\ host' = [host EXCEPT !.needs = @ \cup {<<s, t>>}]
  \/ \E pid \in Pids : \E p \in (Processes \cup {NoOne}) \ {host.process[pid]} :
       host' = [host EXCEPT !.process[pid] = p]
  \/ \E v \in {"no key", "absent", "present"} \ {host.value} : host' = [host EXCEPT !.value = v]

JobsAtWork == \E c \in ChangeCalls : Busy(c)

(* A recovery action starts a service that stopped, unless it is disabled. *)
Recover(s) ==
  /\ JobsAtWork
  /\ s \in Recovering /\ ~Running(s) /\ StartFits(s)
  /\ host' = SetState(s, "running")
  /\ UNCHANGED <<ask, job, deeds, crossed, meddling>>

MeddleWithHost ==
  /\ JobsAtWork
  /\ meddling < MaxMeddling
  /\ Others /\ Crosses({})
  /\ meddling' = meddling + 1
  /\ UNCHANGED <<ask, job, deeds>>

-----------------------------------------------------------------------------

AskStep(c) == ReadState(c) \/ ChangeConfirm(c)

JobStep(c) ==
  \/ Resolve(c) \/ CheckDependents(c) \/ DisableFirst(c) \/ StopTarget(c) \/ LookAtStop(c)
  \/ ConfigStart(c) \/ SetDelayed(c) \/ LookAtStart(c) \/ RestartStop(c) \/ StartTarget(c)
  \/ Settle(c) \/ StopProcess(c) \/ CreateKey(c) \/ WriteValue(c) \/ FlushDns(c) \/ RunCommand(c)

ChangeNext ==
  \/ \E c \in ChangeCalls : ChangeAsk(c) \/ AskStep(c) \/ ChangeAnswerLost(c) \/ JobStep(c) \/ JobThrows(c)
  \/ (\E s \in Services : Recover(s)) \/ MeddleWithHost

ChangeSpec == ChangeInit /\ [][ChangeNext]_changeVars

(* Reads and forms are answered or time out, and a host command ends.      *)
ChangeFairness ==
  \A c \in ChangeCalls :
    WF_changeVars(AskStep(c)) /\ WF_changeVars(JobStep(c) \/ JobThrows(c))

FairChangeSpec == ChangeSpec /\ ChangeFairness

-----------------------------------------------------------------------------

(* What the prompt of a call names.                                        *)
Named(c) ==
  LET r == AskedFor(c) IN
  IF ~ask[c].shown THEN {}
  ELSE CASE r.tool \in {"restart_service", "start_service"} ->
              {<<"state", s>> : s \in IF r.form = "pattern" THEN Services ELSE {r.target}}
         [] r.tool = "stop_service" ->
              {<<"state", r.target>>} \cup (IF r.arg = "disable" THEN {<<"start", r.target>>} ELSE {})
         [] r.tool = "set_service_start_type" -> {<<"start", r.target>>}
         [] r.tool = "kill_process" -> {<<"process", r.target>>}
         [] r.tool = "set_registry" -> {<<"registry", "key">>, <<"registry", "value">>}
         [] r.tool = "flush_dns" -> {<<"dns", "cache">>}
         [] r.tool = "run_command" -> {<<"command", "text">>}

AllPlaces ==
  {<<k, s>> : k \in {"state", "start"}, s \in Services} \cup {<<"process", p>> : p \in Pids}
    \cup {<<"registry", "key">>, <<"registry", "value">>, <<"dns", "cache">>, <<"command", "text">>}

(* DR-5: a call changes only what its prompt named, after an agreement,    *)
(* whatever happens between the prompt and the host command.               *)
Consented == INSTANCE ConfirmedChange WITH
  Askers <- ChangeCalls,
  Places <- AllPlaces,
  shown <- [c \in ChangeCalls |-> Named(c)],
  answer <- [c \in ChangeCalls |-> ask[c].answer],
  changed <- [c \in ChangeCalls |-> {d.place : d \in {e \in deeds : e.call = c}}]

ChangesConsented == Consented!ConsentSpec

(* TR-SEC-15: no call of the three gated tools changes a protected         *)
(* service, under whatever name it asks for it.                            *)
ProtectedServicesKept ==
  \A d \in deeds : AskedFor(d.call).tool \in Gated => d.place[2] \notin Protected

Concludes(c) == ask[c].pc = "host" /\ ask'[c].pc = "over"

(* TR-REL-18: the half-done state of a stop travels in the reply.  A plain *)
(* error means that the call changed nothing, and a half-done one says     *)
(* that the start type changed exactly when the call changed it.  The      *)
(* start type that it names as the earlier one is the one it replaced,     *)
(* unless somebody else changed it or the read failed.                     *)
HalfDoneTold ==
  [][\A c \in ChangeCalls :
       Concludes(c) /\ AskedFor(c).tool = "stop_service" =>
         LET changed == \E d \in deeds' : d.call = c /\ d.place[1] = "start"
         IN /\ ask'[c].reply = "error" => \A d \in deeds' : d.call # c
            /\ ask'[c].reply \in {"half", "ok"} => (job[c].started <=> changed)
            /\ c \notin crossed => \A d \in deeds' :
                 d.call = c /\ d.place[1] = "start" => ask[c].saw \in {d.what, NoOne}]_changeVars

(* TR-REL-18: with disable=true no recovery action and no other call       *)
(* starts the service again: the reply that it runs again needs somebody   *)
(* who enabled it.                                                         *)
DisabledStays ==
  [][\A c \in ChangeCalls :
       /\ Concludes(c) /\ AskedFor(c).tool = "stop_service" /\ AskedFor(c).arg = "disable"
       /\ ask'[c].reply = "again"
       => c \in crossed]_changeVars

(* TR-SEC-15: the server refuses a target on which a protected service     *)
(* depends, in each of the three gated tools.                              *)
DependentsRefused ==
  [][\A c \in ChangeCalls, s \in Services :
       AskedFor(c) # NoOne /\ AskedFor(c).tool \in Gated /\ meddling = 0 =>
         \A d \in deeds' \ deeds :
           d.call = c /\ d.place[2] = s => Dependents(s) \cap Protected = {}]_changeVars

=============================================================================
