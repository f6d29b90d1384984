---------------------------- MODULE ProfileStore ----------------------------
(***************************************************************************)
(* The winrig processes of one machine and the files they share:           *)
(* setup, rotate, forget, list and doctor, and the servers over HTTP and   *)
(* stdio (src/src/app.rs, src/src/profile.rs, src/src/paths.rs).           *)
(*                                                                         *)
(* Profile files are replaced through a temp file of the process, entries  *)
(* of client configurations are read and written back, and one lock for a  *)
(* profile keeps a second server out.  Nothing else orders the processes.  *)
(* The token that a process generates is fresh: it is written as the       *)
(* process itself, and so is the password that it encrypts.                *)
(***************************************************************************)
EXTENDS ClientConfigs, RequestGate

CONSTANTS
  Procs,         \* processes of winrig
  Names,         \* profile names that are file names
  Plans,         \* the commands that the processes run
  Earlier,       \* tokens of profiles that exist at first
  Stranger,      \* a secret that is no token
  Disks,         \* the profile files at first
  Folders,       \* the client documents at first
  Domained,      \* accounts with a domain
  Requests,      \* requests to a server
  Nobody         \* no process

ASSUME StoreAssumption ==
  /\ Procs \cap Earlier = {} /\ Stranger \notin Procs \cup Earlier
  /\ Absent \notin Procs \cup Earlier \cup Names \cup {Stranger}
  /\ Nobody \notin Procs
  /\ \A disk \in Disks : DOMAIN disk = Names

VARIABLES
  profiles,    \* the profile files
  temps,       \* the temp file of each process
  configs,     \* the client documents
  tokenFiles,  \* the token files of opencode
  locks,       \* who holds the lock of a profile
  proc,        \* the processes
  shown,       \* history: tokens that were handed out
  kept         \* history: profiles that were stored and not forgotten

storeVars == <<profiles, temps, configs, tokenFiles, locks, proc, shown, kept>>

files == <<profiles, temps, kept>>
client == <<configs, tokenFiles>>

-----------------------------------------------------------------------------

(* A profile file that is there is "good", "newer" (the format version of a *)
(* later build) or "corrupt".                                              *)
Missing == [form |-> "missing"]

(* A temp file that was not written to its end.                            *)
Partial == [form |-> "partial"]

Content(account, token) == [form |-> "good", account |-> account, token |-> token]

TokenDirs == {"~"} \cup Names

Idle(command) ==
  [command |-> command, pc |-> "idle", code |-> Absent, key |-> Absent, auth |-> Absent,
   name |-> Absent, content |-> Missing, documents |-> << >>, refused |-> FALSE, ending |-> FALSE,
   input |-> "open", answer |-> Absent]

Command(d) == proc[d].command

AtStep(d, tool, pc) == proc[d].pc = pc /\ Command(d).tool = tool

Servers == {"serve", "stdio"}

Serving(d) == proc[d].pc = "serving" /\ Command(d).tool \in Servers

StoreInit ==
  /\ profiles \in Disks
  /\ temps = [d \in Procs |-> Missing]
  /\ configs \in Folders
  /\ tokenFiles = [dir \in TokenDirs |-> Absent]
  /\ locks = [n \in Names |-> Nobody]
  /\ \E plan \in Plans : proc = [d \in Procs |-> Idle(plan[d])]
  /\ shown = Earlier
  /\ kept = {n \in Names : profiles[n] # Missing}

-----------------------------------------------------------------------------
(* The end of a process.  Its lock and its memory go with it; what it had  *)
(* read stays in view.                                                     *)

(* A changed form: the lock is freed by the name of the profile.           *)
ReleasedByName(d) == [n \in Names |-> IF n = Command(d).name THEN Nobody ELSE locks[n]]

Released(d) == [n \in Names |-> IF locks[n] = d THEN Nobody ELSE locks[n]]

Exit(d, code) ==
  /\ proc' = [proc EXCEPT ![d] = [Idle(@.command) EXCEPT !.pc = "over", !.code = code,
                                    !.name = proc[d].name, !.documents = proc[d].documents]]
  /\ locks' = Released(d)

Usage(d) == Exit(d, 2)
Runtime(d) == Exit(d, 1)

(* A changed form: every end of the service is a normal one.               *)
AlwaysGood(refused) == 0

(* exit_code of the outcome of stdio: whatever ended the service.          *)
StdioOutcome(refused) == IF refused THEN 3 ELSE 0

To(d, pc) == proc' = [proc EXCEPT ![d].pc = pc] /\ UNCHANGED locks

Loads(d) == LoadConfig(Command(d).env) # Bad

Config(d) == LoadConfig(Command(d).env)

-----------------------------------------------------------------------------
(* setup and rotate.                                                       *)

(* Arguments and prompts come before any change.                           *)
SetupFits(c) ==
  /\ c.name # ""
  /\ c.client \in {Absent, "opencode", "claude-code", "codex", "cursor"}
  /\ c.client = Absent <=> c.scope = Absent
  /\ c.account # "" /\ c.password # ""

SetupCommand(d) ==
  /\ AtStep(d, "setup", "idle")
  /\ \/ Loads(d) /\ SetupFits(Command(d)) /\ To(d, "create")
     \/ \E code \in {1, 2} : Exit(d, code)
  /\ UNCHANGED <<files, client, shown>>

CreateProfile(d) ==
  /\ AtStep(d, "setup", "create")
  /\ LET c == Command(d)
         fits == /\ c.name \in Names /\ c.account \in Domained
                 /\ profiles[c.name] = Missing \/ c.overwrite
     IN  IF fits
         THEN /\ proc' = [proc EXCEPT ![d].pc = "write", ![d].name = c.name,
                                      ![d].content = Content(Lower(c.account), d)]
              /\ UNCHANGED locks
         ELSE Usage(d)
  /\ UNCHANGED <<files, client, shown>>

(* The file is looked for before the prompt for the password.              *)
RotateCommand(d) ==
  /\ AtStep(d, "rotate", "idle")
  /\ LET c == Command(d)
         fits == Loads(d) /\ c.name \in Names /\ profiles[c.name] # Missing /\ c.password # ""
     IN  \/ fits /\ To(d, "create")
         \/ \E code \in {1, 2} : Exit(d, code)
  /\ UNCHANGED <<files, client, shown>>

ParseFile(content) == content.form = "good"

(* The account is that of the file, read again.                            *)
RotateProfile(d) ==
  /\ AtStep(d, "rotate", "create")
  /\ LET old == profiles[Command(d).name]
     IN  IF ParseFile(old)
         THEN /\ proc' = [proc EXCEPT ![d].pc = "write", ![d].name = Command(d).name,
                                      ![d].content = Content(old.account, d)]
              /\ UNCHANGED locks
         ELSE Usage(d)
  /\ UNCHANGED <<files, client, shown>>

-----------------------------------------------------------------------------
(* write_atomic: a file system step may fail; the temp file may stay.      *)

WriteTemp(d) ==
  /\ proc[d].pc = "write"
  /\ \/ temps' = [temps EXCEPT ![d] = proc[d].content] /\ To(d, "rename")
     \/ \E left \in {Missing, Partial} : temps' = [temps EXCEPT ![d] = left] /\ Usage(d)
  /\ UNCHANGED <<profiles, kept, client, shown>>

AfterPlacing(d) == IF Command(d).tool = "setup" THEN "placed" ELSE "show"

Moves(d) ==
  /\ profiles' = [profiles EXCEPT ![proc[d].name] = temps[d]]
  /\ temps' = [temps EXCEPT ![d] = Missing]
  /\ kept' = kept \cup {proc[d].name}
  /\ To(d, AfterPlacing(d))

(* When the rename fails, a file that is there is removed; when none is    *)
(* there, the temp file goes.                                              *)
Replace(d) ==
  /\ proc[d].pc = "rename"
  /\ \/ Moves(d)
     \/ /\ profiles[proc[d].name] # Missing
        /\ To(d, "remove") /\ UNCHANGED files
     \/ /\ profiles[proc[d].name] = Missing
        /\ temps' = [temps EXCEPT ![d] = Missing]
        /\ Usage(d) /\ UNCHANGED <<profiles, kept>>
  /\ UNCHANGED <<client, shown>>

(* A changed form: the temp file goes with the old file.                   *)
RemoveBoth(d) ==
  /\ proc[d].pc = "remove"
  /\ profiles' = [profiles EXCEPT ![proc[d].name] = Missing]
  /\ temps' = [temps EXCEPT ![d] = Missing]
  /\ Usage(d)
  /\ UNCHANGED <<kept, client, shown>>

(* A file that another process removed meanwhile is an error, too.         *)
RemoveOld(d) ==
  /\ proc[d].pc = "remove"
  /\ \/ /\ profiles[proc[d].name] # Missing
        /\ profiles' = [profiles EXCEPT ![proc[d].name] = Missing]
        /\ To(d, "again")
     \/ Usage(d) /\ UNCHANGED profiles
  /\ UNCHANGED <<temps, kept, client, shown>>

(* A second failure leaves the temp file.                                  *)
PlaceAgain(d) ==
  /\ proc[d].pc = "again"
  /\ \/ Moves(d)
     \/ Usage(d) /\ UNCHANGED files
  /\ UNCHANGED <<client, shown>>

-----------------------------------------------------------------------------
(* The rest of setup: the entry of a client, and the token.                *)

(* Without a state directory the profile stays, and its token is lost.     *)
StateDir(d) ==
  /\ AtStep(d, "setup", "placed")
  /\ \/ To(d, IF Command(d).client = Absent THEN "show" ELSE "config")
     \/ Usage(d)
  /\ UNCHANGED <<files, client, shown>>

Definition(d) ==
  [profile |-> Command(d).name, token |-> d, name |-> Command(d).entry, hosts |-> Command(d).hosts]

ConfigPath(d) == WrittenPath(Command(d).client, Command(d).scope)

(* The document that will be written back is the one read here.            *)
ReadConfig(d) ==
  /\ AtStep(d, "setup", "config")
  /\ LET document == configs[ConfigPath(d)]
     IN  \/ /\ ReadObject(Command(d).client, document) # Bad
            /\ proc' = [proc EXCEPT ![d].documents = <<document>>,
                          ![d].pc = IF SupportsFileReference(Command(d).client) THEN "token" ELSE "entry"]
            /\ UNCHANGED locks
         \/ Runtime(d)
  /\ UNCHANGED <<files, client, shown>>

(* The file of a failed write may be empty.                                *)
WriteTokenFile(d) ==
  /\ AtStep(d, "setup", "token")
  /\ LET dir == TokenDir(Command(d).scope, Command(d).name)
     IN  \/ tokenFiles' = [tokenFiles EXCEPT ![dir] = d] /\ shown' = shown \cup {d} /\ To(d, "entry")
         \/ tokenFiles' = [tokenFiles EXCEPT ![dir] = Absent] /\ Runtime(d) /\ UNCHANGED shown
         \/ Runtime(d) /\ UNCHANGED <<tokenFiles, shown>>
  /\ UNCHANGED <<files, configs>>

(* What the clients and other processes wrote since the read is lost; a    *)
(* failed write leaves the old document, a part of the new one or nothing. *)
WriteConfig(d) ==
  /\ AtStep(d, "setup", "entry")
  /\ LET c == Command(d)
         path == ConfigPath(d)
     IN  \/ /\ configs' = [configs EXCEPT ![path] =
                             WriteAt(c.client, c.scope, proc[d].documents[1], Definition(d))]
            /\ shown' = shown \cup {d} /\ To(d, "show")
         \/ \E left \in {configs[path]} \cup CutOff :
              configs' = [configs EXCEPT ![path] = left] /\ Runtime(d) /\ UNCHANGED shown
  /\ UNCHANGED <<files, tokenFiles>>

(* The token is shown once; a closed output is an error or a panic, with   *)
(* or without the token.                                                   *)
PrintToken(d) ==
  /\ proc[d].pc = "show"
  /\ \/ shown' = shown \cup {d} /\ Exit(d, 0)
     \/ shown' \in {shown, shown \cup {d}} /\ Exit(d, 101)
  /\ UNCHANGED <<files, client>>

-----------------------------------------------------------------------------
(* forget, list and doctor.                                                *)

(* A missing file is no error.                                             *)
ForgetCommand(d) ==
  /\ AtStep(d, "forget", "idle")
  /\ LET name == Command(d).name
     IN  \/ /\ Loads(d) /\ name \in Names /\ profiles[name] # Missing
            /\ profiles' = [profiles EXCEPT ![name] = Missing] /\ kept' = kept \ {name}
            /\ Exit(d, 0)
         \/ /\ Loads(d) /\ name \in Names /\ profiles[name] = Missing
            /\ Exit(d, 0) /\ UNCHANGED <<profiles, kept>>
         \/ Usage(d) /\ UNCHANGED <<profiles, kept>>
  /\ UNCHANGED <<temps, client, shown>>

(* A file that does not parse is skipped; its version is not looked at.    *)
Summaries ==
  {<<n, profiles[n].account>> : n \in {m \in Names : profiles[m].form \in {"good", "newer"}}}

ListCommand(d) ==
  /\ AtStep(d, "list", "idle")
  /\ IF Loads(d)
     THEN /\ proc' = [proc EXCEPT ![d].pc = "over", ![d].code = 0, ![d].answer = Summaries]
          /\ locks' = Released(d)
     ELSE Usage(d)
  /\ UNCHANGED <<files, client, shown>>

(* One document after another, also while setup writes.                    *)
ReadServers(d) ==
  /\ AtStep(d, "doctor", "idle")
  /\ Len(proc[d].documents) < Len(ConfigFiles)
  /\ LET file == ConfigFiles[Len(proc[d].documents) + 1]
     IN  proc' = [proc EXCEPT ![d].documents = Append(@, configs[file.path])]
  /\ UNCHANGED <<files, client, locks, shown>>

DoctorVerdict(d) ==
  /\ AtStep(d, "doctor", "idle")
  /\ Len(proc[d].documents) = Len(ConfigFiles)
  /\ Exit(d, DoctorCommand(proc[d].documents))
  /\ UNCHANGED <<files, client, shown>>

-----------------------------------------------------------------------------
(* The start of a server.                                                  *)

Choices(kind) ==
  CASE kind = "none"  -> {Absent}
    [] kind = "known" -> shown
    [] OTHER -> {Stranger}

(* The explicit name, or the only profile there is.                        *)
Select(requested) ==
  LET stored == {n \in Names : profiles[n] # Missing}
  IN  IF requested # Absent THEN stored \cap {requested}
      ELSE {n \in stored : stored = {n}}

(* Select, state directory and lock; the directories may fail.             *)
PrepareProfile(d, secrets, next) ==
  \/ \E name \in Select(Command(d).name) :
       /\ locks[name] = Nobody
       /\ locks' = [locks EXCEPT ![name] = d]
       /\ proc' = [proc EXCEPT ![d].name = name, ![d].pc = next,
                     ![d].key = secrets.key, ![d].auth = secrets.auth]
  \/ Usage(d)

(* Without a profile token there is neither a profile nor a lock.          *)
RunServe(d) ==
  /\ AtStep(d, "serve", "idle")
  /\ \E key \in Choices(Command(d).key), auth \in Choices(Command(d).auth) :
       IF ~Loads(d) \/ (key = Absent /\ auth = Absent) THEN Usage(d)
       ELSE IF key = Absent
       THEN /\ proc' = [proc EXCEPT ![d].pc = "log", ![d].auth = auth]
            /\ UNCHANGED locks
       ELSE PrepareProfile(d, [key |-> key, auth |-> auth], "bind")
  /\ UNCHANGED <<files, client, shown>>

RunStdio(d) ==
  /\ AtStep(d, "stdio", "idle")
  /\ IF Loads(d)
     THEN \E key \in Choices(Command(d).key) :
            PrepareProfile(d, [key |-> key, auth |-> Absent], "log")
     ELSE Usage(d)
  /\ UNCHANGED <<files, client, shown>>

(* load: the file parses and the token decrypts it.                        *)
Decrypts(content, token) == ParseFile(content) /\ content.token = token

BindProfile(d) ==
  /\ proc[d].pc = "bind"
  /\ IF Decrypts(profiles[proc[d].name], proc[d].key)
     THEN /\ proc' = [proc EXCEPT ![d].content = profiles[proc[d].name],
                        ![d].pc = IF Command(d).tool = "serve" THEN "check" ELSE "serving"]
          /\ UNCHANGED locks
     ELSE Usage(d)
  /\ UNCHANGED <<files, client, shown>>

(* A changed form: any shared secret will do.                              *)
AuthTokenUnchecked(d) ==
  /\ proc[d].pc = "check"
  /\ To(d, "log")
  /\ UNCHANGED <<files, client, shown>>

(* The file is read a second time.                                         *)
EnsureAuthTokenIsNotProfileKey(d) ==
  /\ proc[d].pc = "check"
  /\ IF proc[d].auth # Absent /\ Decrypts(profiles[proc[d].name], proc[d].auth)
     THEN Usage(d) ELSE To(d, "log")
  /\ UNCHANGED <<files, client, shown>>

(* Logs; then serve listens, and stdio binds its profile.                  *)
SetupLogging(d) ==
  /\ proc[d].pc = "log"
  /\ \/ To(d, IF Command(d).tool = "serve" THEN "serving" ELSE "bind")
     \/ Runtime(d)
  /\ UNCHANGED <<files, client, shown>>

-----------------------------------------------------------------------------
(* A server at work.                                                       *)

GateState(d) ==
  [auth |-> proc[d].auth, key |-> IF proc[d].content = Missing THEN Absent ELSE proc[d].key,
   account |-> IF proc[d].content = Missing THEN Absent ELSE proc[d].content.account,
   password |-> IF proc[d].content = Missing THEN Absent ELSE proc[d].content.token]

Answer(result, identity) == [result |-> result, identity |-> identity]

NoIdentity == [source |-> "none", user |-> Absent, password |-> Absent]

(* A request of the tool connect goes on to the session registry.          *)
ToolAnswer(d, request, identity) ==
  CASE ~Routed(Config(d), request.tool) -> Answer("unknown tool", NoIdentity)
    [] Routed(Config(d), request.tool) /\ request.tool = "connect" /\ ~DecideConnect(Config(d), request) ->
         Answer("denied", identity)
    [] OTHER -> Answer("served", identity)

HttpRequest(d) ==
  /\ Serving(d) /\ Command(d).tool = "serve"
  /\ \E r \in Requests :
       LET headers == [r EXCEPT !.mcp = IF @ = "key" THEN proc[d].key ELSE IF @ = "auth" THEN proc[d].auth ELSE @,
                                !.bearer = IF @ = "key" THEN proc[d].key ELSE IF @ = "auth" THEN proc[d].auth ELSE @]
           mark == Middleware(GateState(d), headers)
       IN  proc' = [proc EXCEPT ![d].answer =
                      [request |-> headers, reply |->
                         IF mark = "rejected" THEN Answer("rejected", NoIdentity)
                         ELSE ToolAnswer(d, r, IdentityFromParts(GateState(d), headers, mark))]]
  /\ UNCHANGED <<files, client, locks, shown>>

StdioRequest(d) ==
  /\ Serving(d) /\ Command(d).tool = "stdio" /\ proc[d].input = "open"
  /\ \E r \in Requests :
       proc' = [proc EXCEPT ![d].answer =
                  [request |-> r, reply |-> ToolAnswer(d, r, LocalIdentity(GateState(d)))]]
  /\ UNCHANGED <<files, client, locks, shown>>

(* The session registry refuses the profile after two rejections.          *)
Refuse(d) ==
  /\ Serving(d) /\ Command(d).tool = "stdio"
  /\ proc' = [proc EXCEPT ![d].refused = TRUE]
  /\ UNCHANGED <<files, client, locks, shown>>

(* The watcher of stdio cancels the service; so does the end of the input, *)
(* and a signal ends serve.                                                *)
Watch(d) ==
  /\ Serving(d) /\ Command(d).tool = "stdio"
  /\ proc[d].refused
  /\ proc' = [proc EXCEPT ![d].ending = TRUE]
  /\ UNCHANGED <<files, client, locks, shown>>

Signal(d) ==
  /\ Serving(d) /\ Command(d).tool = "serve"
  /\ proc' = [proc EXCEPT ![d].ending = TRUE]
  /\ UNCHANGED <<files, client, locks, shown>>

CloseInput(d) ==
  /\ Command(d).tool = "stdio" /\ proc[d].pc \in {"serving", "leaving"}
  /\ proc' = [proc EXCEPT ![d].input = "closed", ![d].ending = proc[d].pc = "serving"]
  /\ UNCHANGED <<files, client, locks, shown>>

(* serve_stdio returns its outcome; the process still drops its runtime.   *)
EndService(d) ==
  /\ Serving(d) /\ proc[d].ending
  /\ IF Command(d).tool = "serve" THEN Exit(d, 0)
     ELSE /\ proc' = [proc EXCEPT ![d] = [Idle(@.command) EXCEPT !.pc = "leaving",
                        !.code = StdioOutcome(proc[d].refused), !.name = proc[d].name,
                        !.refused = proc[d].refused, !.input = proc[d].input]]
          /\ UNCHANGED locks
  /\ UNCHANGED <<files, client, shown>>

(* The drop of the runtime waits for the read of stdin, which returns with *)
(* a line of the client or with the end of the input.                      *)
DropRuntime(d) ==
  /\ proc[d].pc = "leaving"
  /\ Exit(d, proc[d].code)
  /\ UNCHANGED <<files, client, shown>>

(* A process dies; the system frees its lock, its temp file stays.         *)
Crash(d) ==
  /\ proc[d].pc \notin {"idle", "over"}
  /\ Exit(d, Nobody)
  /\ UNCHANGED <<files, client, shown>>

-----------------------------------------------------------------------------

Setup(d) == \/ SetupCommand(d) \/ CreateProfile(d) \/ StateDir(d)
            \/ ReadConfig(d) \/ WriteTokenFile(d) \/ WriteConfig(d)

Rotate(d) == RotateCommand(d) \/ RotateProfile(d)

WriteAtomic(d) == WriteTemp(d) \/ Replace(d) \/ RemoveOld(d) \/ PlaceAgain(d)

Reading(d) == ListCommand(d) \/ ReadServers(d) \/ DoctorVerdict(d)

Starting(d) == \/ RunServe(d) \/ RunStdio(d) \/ BindProfile(d)
               \/ EnsureAuthTokenIsNotProfileKey(d) \/ SetupLogging(d)

Working(d) == \/ HttpRequest(d) \/ StdioRequest(d) \/ Refuse(d)
              \/ Watch(d) \/ Signal(d) \/ CloseInput(d) \/ EndService(d) \/ DropRuntime(d)

ProcessStep(d) == \/ Setup(d) \/ Rotate(d) \/ WriteAtomic(d) \/ PrintToken(d) \/ ForgetCommand(d)
                  \/ Reading(d) \/ Starting(d) \/ Working(d) \/ Crash(d)

StoreNext == \E d \in Procs : ProcessStep(d)

StoreSpec == StoreInit /\ [][StoreNext]_storeVars

(* The watcher polls, a service that is cancelled ends, and a read of an   *)
(* input that is closed returns.  No client has to write or to close.      *)
StoreFairness ==
  \A d \in Procs :
    /\ WF_storeVars(Watch(d)) /\ WF_storeVars(EndService(d))
    /\ WF_storeVars(proc[d].input = "closed" /\ DropRuntime(d))

FairStoreSpec == StoreSpec /\ StoreFairness

-----------------------------------------------------------------------------
(* Properties.                                                             *)

(* A server from its lock to its end, the drop of its runtime included.    *)
Holds(d) ==
  /\ Command(d).tool \in Servers /\ proc[d].name # Absent
  /\ proc[d].pc \in {"bind", "check", "log", "serving", "leaving"}

(* Two servers never have one profile: in whatever order they start, fail  *)
(* to start, end and crash.  (ProcessLock::acquire.)                       *)
OneServerPerProfile ==
  \A d, e \in Procs : Holds(d) /\ Holds(e) /\ proc[d].name = proc[e].name => d = e

(* The whole new content of a profile, in a temp file that stays.          *)
Whole(d, n) ==
  /\ proc[d].name = n /\ proc[d].pc \notin {"write", "rename"}
  /\ temps[d].form = "good"

(* A profile that was stored and not forgotten is there: its file, or, on  *)
(* a system where the rename does not replace, a whole temp file, however  *)
(* setup, rotate and forget take turns, fail and crash.  (write_atomic.)   *)
NoProfileLost ==
  \A n \in kept : profiles[n] = Missing => \E d \in Procs : Whole(d, n)

(* The shared secret of a server with a profile never opens the file of    *)
(* that profile, also when the profile is rotated or replaced between the  *)
(* two reads of the start, or later.                                       *)
(* (ensure_auth_token_is_not_profile_key.)                                 *)
AuthTokenIsNoKey ==
  \A d \in Procs :
    Serving(d) /\ Command(d).tool = "serve" /\ proc[d].name # Absent /\ proc[d].auth # Absent
      => ~Decrypts(profiles[proc[d].name], proc[d].auth)

(* Whose password a request of HTTP gets is decided by the secret that it  *)
(* shows: the profile as it was bound for its token, whatever the headers  *)
(* say and whatever became of the file since; the headers for the shared   *)
(* secret.  (auth_middleware, identity_from_parts.)                        *)
SecretDecidesIdentity ==
  \A d \in Procs : proc[d].answer # Absent /\ Command(d).tool = "serve" =>
    LET presented == PresentedToken(proc[d].answer.request)
        reply == proc[d].answer.reply
        ofProfile == proc[d].content # Missing /\ presented = proc[d].key
    IN  reply.identity.source # "none" =>
          /\ (reply.identity.source = "profile") = ofProfile
          /\ ofProfile => /\ reply.identity.user = proc[d].content.account
                          /\ reply.identity.password = proc[d].key
          /\ ~ofProfile => /\ presented # Absent /\ presented = proc[d].auth
                           /\ reply.identity.password = proc[d].answer.request.password

(* An entry that its client starts: no entry of a narrower scope, nor an   *)
(* earlier one of the same scope, has its key.                             *)
InEffect(documents, s) ==
  /\ s \in Launching(documents, "stdio")
  /\ ~\E t \in Launching(documents, "stdio") :
        /\ SameServer(s, t) /\ t # s
        /\ \/ ConfigFiles[t[1]].scope = "local"
           \/ ConfigFiles[t[1]].scope = "project" /\ ConfigFiles[s[1]].scope = "global"
           \/ ConfigFiles[t[1]].scope = ConfigFiles[s[1]].scope /\ t[1] < s[1]

(* When doctor finds nothing, every two servers that the documents start,  *)
(* as it read them, and that accept their environment run with the same    *)
(* settings, though doctor parses every variable alone.  (doctor_command.) *)
DoctorTrue ==
  \A d \in Procs : Command(d).tool = "doctor" /\ proc[d].code = 0 =>
    LET documents == proc[d].documents
        environments == {StringMap(TableOf(ConfigFiles[s[1]].scope, documents[s[1]])[s[2]].vars) :
                           s \in {t \in Launching(documents, "stdio") : InEffect(documents, t)}}
        accepted == {vars \in environments : LoadConfig(vars) # Bad}
    IN  \A a, b \in accepted : SettingPairs(LoadConfig(a)) = SettingPairs(LoadConfig(b))

(* A stdio server whose profile is refused ends with code 3, whether the   *)
(* watcher or the end of the input comes first; unless it dies, or stands  *)
(* with its code, and its lock, because the client keeps the input open.   *)
(* (serve_stdio, stdio_outcome, run_stdio.)                                *)
RefusedServerEnds ==
  \A d \in Procs :
    proc[d].refused ~> \/ proc[d].pc = "over" /\ proc[d].code \in {3, Nobody}
                       \/ proc[d].pc = "leaving" /\ proc[d].code = 3 /\ proc[d].input = "open"

=============================================================================
