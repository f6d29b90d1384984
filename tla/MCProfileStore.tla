--------------------------- MODULE MCProfileStore ---------------------------
(* An instance of ProfileStore for TLC.  A behaviour belongs to one of     *)
(* three families: writers of one profile with a server, servers with      *)
(* requests, or setup and doctor on the client documents.                  *)
EXTENDS ProfileStore, TLC

CONSTANTS d1, d2, d3, t0

MCNames == {"corp", "lab"}
MCNumerals == "8005" :> 8005 @@ "08005" :> 8005 @@ "8006" :> 8006 @@ "0" :> 0
MCListings == "a,B" :> <<"a", "B">> @@ "b,a" :> <<"b", "a">> @@ "*" :> <<"*">> @@ ".corp" :> <<".corp">>
MCLowered == "B" :> "b" @@ "YES" :> "yes" @@ "Bearer" :> "bearer" @@ "ALICE@corp" :> "alice@corp"
             @@ "Eve" :> "eve" @@ "SRV.corp" :> "srv.corp"
MCJoined == "--profile=corp" :> "corp"
MCBefore == "winrig" :> 3 @@ "work" :> 4 @@ "box" :> 2 @@ "api" :> 1
MCLabels == "srv.corp" :> <<"srv", "corp">> @@ ".corp" :> <<"", "corp">> @@ "corp" :> <<"corp">>
            @@ "localhost" :> <<"localhost">> @@ "evilcorp" :> <<"evilcorp">>

-----------------------------------------------------------------------------
(* Commands.                                                               *)

NoVariables == [v \in {} |-> ""]

Cmd(tool, name) ==
  [tool |-> tool, name |-> name, account |-> "ALICE@corp", password |-> "pw", overwrite |-> TRUE,
   client |-> Absent, scope |-> Absent, entry |-> Absent, hosts |-> Absent,
   key |-> "known", auth |-> "none", env |-> NoVariables]

NoCommand == Cmd("none", Absent)

SetupIn(name, c, scope) == [Cmd("setup", name) EXCEPT !.client = c, !.scope = scope]

Writers ==
  <<Cmd("setup", "corp"), Cmd("rotate", "corp"), Cmd("forget", "corp"),
    [Cmd("setup", "corp") EXCEPT !.overwrite = FALSE]>>

Refusals ==
  {[Cmd("setup", "corp") EXCEPT !.account = "alice"], Cmd("setup", "../corp"),
   [Cmd("setup", "corp") EXCEPT !.scope = "global"], Cmd("rotate", "../corp"), Cmd("list", Absent),
   [Cmd("list", Absent) EXCEPT !.env = "WINRIG_PORT" :> "0"],
   [Cmd("serve", "corp") EXCEPT !.env = "LOG_LEVEL" :> "info"]}

Serve(auth) == [Cmd("serve", "corp") EXCEPT !.auth = auth]

ServerEnv == "WINRIG_ALLOWED_HOSTS" :> ".corp" @@ "WINRIG_ALLOW_FILE_WRITE" :> "YES"

ServerCommands ==
  <<[Serve("other") EXCEPT !.env = ServerEnv], [Serve("other") EXCEPT !.key = "none"],
    Cmd("stdio", Absent), [Cmd("stdio", "corp") EXCEPT !.key = "other"]>>

Plan(a, b, c) == d1 :> a @@ d2 :> b @@ d3 :> c

WriterPlans ==
  UNION {{Plan(Writers[i], Writers[j], Serve("known")) : j \in i..4} : i \in 1..4}
    \cup {Plan(Writers[1], Writers[2], Writers[3])}
    \cup {Plan(a, NoCommand, NoCommand) : a \in Refusals}

ServerPlans ==
  UNION {{Plan(ServerCommands[i], ServerCommands[j], Cmd("rotate", "corp")) : j \in i..4} : i \in 1..4}

ConfigPlans ==
  {Plan(SetupIn("corp", c, scope), SetupIn("lab", c, scope), NoCommand) :
     c \in {"opencode", "claude-code"}, scope \in {"global", "project"}}
    \cup {Plan(a, Cmd("doctor", Absent), NoCommand) :
            a \in {SetupIn("corp", "opencode", "global"), SetupIn("corp", "codex", "project"),
                   [SetupIn("corp", "cursor", "global") EXCEPT !.entry = "box", !.hosts = "b,a"]}}

MCPlans == WriterPlans \cup ServerPlans \cup ConfigPlans

-----------------------------------------------------------------------------
(* Files at first.                                                         *)

Stored == Content("alice@corp", t0)

MCDisks == {[n \in MCNames |-> IF n = "corp" THEN c ELSE Missing] :
              c \in {Stored, Missing, [Stored EXCEPT !.form = "newer"]}}

Launch(profile, vars) ==
  [words |-> <<"winrig", "stdio", "--profile", profile>>, url |-> Absent,
   vars |-> "WINRIG_TOKEN" :> t0 @@ vars]

NoFiles == [path \in ConfigPaths |-> NoDocument]

User(vars) == Document("plain", "work" :> Launch("corp", vars), NoEntry)

Put(path, document) == [NoFiles EXCEPT ![path] = document]

Settled == Put("~/.claude.json", User("WINRIG_PORT" :> "08005" @@ "WINRIG_ALLOWED_HOSTS" :> "a,B"))

MCFolders ==
  {NoFiles, Settled,
   [Settled EXCEPT !["opencode.json"] =
      Document("commented", "box" :> Launch("lab", "WINRIG_ALLOWED_HOSTS" :> "b,a"), NoEntry)],
   [Settled EXCEPT ![".mcp.json"] = User("WINRIG_ALLOWED_HOSTS" :> "b,a"),
                   !["~/.cursor/mcp.json"] = User("WINRIG_ALLOWED_HOSTS" :> "b,a" @@ "WINRIG_PORT" :> "8005")],
   [Settled EXCEPT ![".mcp.json"] = User("WINRIG_PORT" :> "8006"),
                   !["~/.cursor/mcp.json"] = User("WINRIG_ALLOWED_HOSTS" :> "b,a")],
   [Settled EXCEPT !["~/.claude.json"].local =
                      ("work" :> Launch("lab", "WINRIG_PORT" :> "8006")
                        @@ "api" :> [words |-> << >>, url |-> "winrig/mcp", vars |-> NoVariables]),
                   !["~/.cursor/mcp.json"] = User("WINRIG_PORT" :> "8006")],
   [Settled EXCEPT !["~/.codex/config.toml"] = Document("damaged", NoEntry, NoEntry),
                   !["~/opencode.json"].form = "unreadable"],
   Put("~/opencode.json",
       Document("plain",
         "box" :> [Launch("corp", NoVariables) EXCEPT !.words = <<"winrig", "stdio", "--profile=corp">>]
           @@ "api" :> [words |-> <<"winrig", NoText>>, url |-> Absent, vars |-> NoVariables], NoEntry)),
   Put(".mcp.json", User("WINRIG_PORT" :> "0" @@ "OTHER" :> "x"))}

-----------------------------------------------------------------------------
(* Requests: "key" and "auth" are the secrets of the server that gets them.*)

Call(mcp, scheme, bearer, user) ==
  [mcp |-> mcp, scheme |-> scheme, bearer |-> bearer, user |-> user, password |-> Stranger,
   tool |-> "connect", host |-> "SRV.corp", port |-> Absent, verify |-> TRUE]

MCRequests ==
  {Call("key", "", Absent, "Eve"), Call(Absent, "Bearer", "auth", "Eve"),
   Call("auth", "bearer", "key", "Eve"), Call(Absent, "basic", "key", "Eve"),
   Call("auth", "", Absent, "break"),
   [Call("key", "", Absent, Absent) EXCEPT !.tool = "write_file"],
   [Call("auth", "", Absent, "Eve") EXCEPT !.host = "evilcorp"]}

-----------------------------------------------------------------------------

PlannedInit ==
  /\ StoreInit
  /\ LET plan == [d \in Procs |-> Command(d)]
     IN  \/ plan \in WriterPlans /\ configs = NoFiles
         \/ plan \in ServerPlans /\ configs = NoFiles /\ profiles["corp"] = Stored
         \/ plan \in ConfigPlans /\ profiles["corp"] = Missing

MCStoreSpec == PlannedInit /\ [][StoreNext]_storeVars /\ StoreFairness

=============================================================================
