--------------------------- MODULE MCHostChanges ---------------------------
(* An instance of HostChanges for TLC.  The protected service needs one    *)
(* service, another service has a dependent of its own.                    *)
EXTENDS HostChanges, TLC

CONSTANTS c1, c2, app, child, base, guard, editor, viewer

AHost(state, mode, process, value) ==
  [state |-> state, mode |-> mode, delayed |-> [s \in Services |-> s = app],
   needs |-> {<<child, app>>, <<guard, base>>}, process |-> [p \in Pids |-> process],
   value |-> value, dns |-> "full"]

AllRun == [s \in Services |-> "running"]
AllAuto == [s \in Services |-> "Automatic"]

MCHosts ==
  {AHost(AllRun, AllAuto, editor, "present"),
   AHost([AllRun EXCEPT ![child] = "stopped"], AllAuto, NoOne, "absent"),
   AHost([s \in Services |-> IF s = base THEN "running" ELSE "stopped"],
         [AllAuto EXCEPT ![app] = "Disabled"], editor, "no key")}

Want(tool, form, target, arg, client) ==
  [tool |-> tool, form |-> form, target |-> target, arg |-> arg, client |-> client, valid |-> TRUE]

FirstChanges ==
  {Want(ta[1], "name", app, ta[2], "form") :
     ta \in {<<"restart_service", "-">>, <<"start_service", "-">>, <<"stop_service", "-">>,
             <<"stop_service", "disable">>, <<"set_service_start_type", "AutomaticDelayed">>,
             <<"set_service_start_type", "Disabled">>}}
  \cup {Want(ta[1], "name", base, ta[2], "form") :
     ta \in {<<"restart_service", "-">>, <<"stop_service", "disable">>,
             <<"set_service_start_type", "Disabled">>}}
  \cup {Want(t, "name", guard, "Manual", "form") : t \in Gated}
  \cup {Want(t, f, guard, "Manual", "form") : t \in Gated, f \in {"display", "invalid"}}
  \cup {Want("start_service", "pattern", app, "-", "form")}
  \cup {Want("kill_process", "name", 7, "-", k) : k \in {"form", "none", "url"}}
  \cup {Want("set_registry", "name", "value", "-", "form"), Want("flush_dns", "name", "-", "-", "form"),
        Want("run_command", "name", "-", "-", "form"),
        [Want("run_command", "name", "-", "-", "form") EXCEPT !.valid = FALSE]}

(* A second call gives the service back its start type, or starts one that *)
(* needs it.                                                               *)
SecondChanges ==
  {Want("set_service_start_type", "name", app, "Automatic", "form"),
   Want("start_service", "name", child, "-", "form")}

MCChangeRequests == c1 :> FirstChanges @@ c2 :> SecondChanges

=============================================================================
