--------------------------- MODULE ClientConfigs ---------------------------
(***************************************************************************)
(* The configuration files of the MCP clients (src/src/client_config.rs):  *)
(* the entry that setup writes, and what doctor (src/src/app.rs) reads and *)
(* compares.  Pure: the steps of the processes are in ProfileStore.        *)
(*                                                                         *)
(* A document is a form and tables of entries by key.  The layout of JSON  *)
(* and TOML is left out; what each reader accepts of it is kept.           *)
(***************************************************************************)
EXTENDS Settings

CONSTANTS
  Mentions,  \* texts that contain "winrig"
  Binaries,  \* those that name its executable
  Joined,    \* the profile of each text of the form --profile=NAME
  Before,    \* the place of each entry key in the order of a document
  NoText     \* a value that is not a string

(* The files, in the order of the check; the home directory is known.      *)
At(client, scope, path) == [client |-> client, scope |-> scope, path |-> path]

ConfigFiles ==
  << At("opencode", "global", "~/opencode.json"),    At("opencode", "global", "~/opencode.jsonc"),
     At("opencode", "project", "opencode.json"),     At("opencode", "project", "opencode.jsonc"),
     At("claude-code", "global", "~/.claude.json"),  At("claude-code", "local", "~/.claude.json"),
     At("claude-code", "project", ".mcp.json"),
     At("codex", "global", "~/.codex/config.toml"),  At("codex", "project", ".codex/config.toml"),
     At("cursor", "global", "~/.cursor/mcp.json"),   At("cursor", "project", ".cursor/mcp.json") >>

ConfigPaths == {ConfigFiles[i].path : i \in DOMAIN ConfigFiles}

NoEntry == [key \in {} |-> Absent]

(* "commented" parses when comments and trailing commas are blanked,       *)
(* "unreadable" is no regular file or not permitted.                       *)
DocumentForms == {"absent", "plain", "commented", "damaged", "unreadable"}

Document(form, servers, local) == [form |-> form, servers |-> servers, local |-> local]

NoDocument == Document("absent", NoEntry, NoEntry)

(* The table that a scope reads: the local scope is a table of its own in  *)
(* the user file.                                                          *)
TableOf(scope, document) == IF scope = "local" THEN document.local ELSE document.servers

-----------------------------------------------------------------------------
(* The launch fields of an entry.                                          *)

IsText(w) == w # NoText

AfterFlag(words, i) == IF i + 1 \in DOMAIN words THEN words[i + 1] ELSE NoText

FirstOf(I) == CHOOSE i \in I : \A j \in I : i =< j

(* Only the split form: the flag, then the profile.                        *)
ProfileAfterFlag(words) ==
  LET flags == {i \in DOMAIN words : words[i] = "--profile"}
  IN  IF flags = {} THEN NoText ELSE AfterFlag(words, FirstOf(flags))

(* Both forms of the flag.                                                 *)
ProfileFrom(words) ==
  LET flags == {i \in DOMAIN words : words[i] = "--profile" \/ words[i] \in DOMAIN Joined}
      i == FirstOf(flags)
  IN  IF flags = {} THEN NoText
      ELSE IF words[i] \in DOMAIN Joined THEN Joined[words[i]] ELSE AfterFlag(words, i)

IsWinrigStdio(words) ==
  words # << >> /\ words[1] \in Binaries /\ \E i \in DOMAIN words : words[i] = "stdio"

MentionsWinrig(e) == e.url \in Mentions \/ \E i \in DOMAIN e.words : e.words[i] \in Mentions

EntryLaunch(e) ==
  CASE ~MentionsWinrig(e) -> "unrelated"
    [] MentionsWinrig(e) /\ ((\E i \in DOMAIN e.words : ~IsText(e.words[i])) \/ ~IsText(e.url)) -> "broken"
    [] OTHER -> IF IsWinrigStdio(e.words) THEN "stdio" ELSE "other"

StringMap(vars) == [v \in {u \in DOMAIN vars : IsText(vars[u])} |-> vars[v]]

-----------------------------------------------------------------------------
(* The entry of setup.  definition is [profile, token, name, hosts], where *)
(* name and hosts may be absent.                                           *)

(* An explicit name; else the entry of the same profile, which is found by *)
(* the split flag only; else "winrig".                                     *)
KeyIn(servers, definition) ==
  LET same == {k \in DOMAIN servers : ProfileAfterFlag(servers[k].words) = definition.profile}
  IN  IF definition.name # Absent THEN definition.name
      ELSE IF same = {} THEN "winrig"
      ELSE CHOOSE k \in same : \A other \in same : Before[k] =< Before[other]

Environment(definition, token) ==
  LET vars == [WINRIG_TOKEN |-> token, WINRIG_PROFILE_DIR |-> "profiles", WINRIG_STATE_DIR |-> "state"]
  IN  IF definition.hosts = Absent THEN vars
      ELSE [v \in DOMAIN vars \cup {"WINRIG_ALLOWED_HOSTS"} |->
              IF v = "WINRIG_ALLOWED_HOSTS" THEN definition.hosts ELSE vars[v]]

SupportsFileReference(client) == client = "opencode"

(* Where the token file of opencode is: beside the user configuration, or  *)
(* in the state directory of the profile.                                  *)
TokenDir(scope, profile) == IF scope = "global" THEN "~" ELSE profile

ServerEntry(client, scope, definition) ==
  [words |-> <<"winrig", "stdio", "--profile", definition.profile>>, url |-> Absent,
   vars |-> Environment(definition,
              IF SupportsFileReference(client) THEN <<"file", TokenDir(scope, definition.profile)>>
              ELSE definition.token)]

GlobalConfigPath(client) ==
  CASE client = "opencode" -> "~/opencode.json"         [] client = "claude-code" -> "~/.claude.json"
    [] client = "codex"    -> "~/.codex/config.toml"    [] client = "cursor" -> "~/.cursor/mcp.json"

ProjectConfigPath(client) ==
  CASE client = "opencode" -> "opencode.json"           [] client = "claude-code" -> ".mcp.json"
    [] client = "codex"    -> ".codex/config.toml"      [] client = "cursor" -> ".cursor/mcp.json"

WrittenPath(client, scope) ==
  IF scope = "global" THEN GlobalConfigPath(client) ELSE ProjectConfigPath(client)

(* What the writer can read: strict JSON, or any lines of a TOML file.     *)
ReadObject(client, document) ==
  IF document.form \in {"absent", "plain"} \/ (client = "codex" /\ document.form = "damaged")
  THEN document ELSE Bad

With(servers, key, entry) ==
  [k \in DOMAIN servers \cup {key} |-> IF k = key THEN entry ELSE servers[k]]

(* The whole entry is replaced, with what the user added to it; a damaged  *)
(* TOML file stays damaged.                                                *)
WriteAt(client, scope, document, definition) ==
  [document EXCEPT
     !.form = IF @ = "damaged" THEN @ ELSE "plain",
     !.servers = With(@, KeyIn(@, definition), ServerEntry(client, scope, definition))]

(* The file is cut off before it is written: what a failed write leaves.   *)
CutOff == {Document(form, NoEntry, NoEntry) : form \in {"plain", "damaged"}}

-----------------------------------------------------------------------------
(* doctor.  documents are the documents as read, by the place in the list. *)

(* A file that is not there is read as one without a table.                *)
ReadConfigText(document) == document.form # "unreadable"

ParseStrict(document) == document.form \in {"absent", "plain"}

(* Comments and trailing commas are blanked before the strict parser.      *)
ParseJsonc(document) == document.form = "commented" \/ ParseStrict(document)

Parses(file, document) ==
  /\ ReadConfigText(document)
  /\ IF file.client = "opencode" THEN ParseJsonc(document) ELSE ParseStrict(document)

Skipped(documents) == {i \in DOMAIN documents : ~Parses(ConfigFiles[i], documents[i])}

Table(documents, i) == IF i \in Skipped(documents) THEN NoEntry
                       ELSE TableOf(ConfigFiles[i].scope, documents[i])

Launching(documents, kind) ==
  UNION {{<<i, key>> : key \in {k \in DOMAIN Table(documents, i) : EntryLaunch(Table(documents, i)[k]) = kind}}
         : i \in DOMAIN documents}

Vars(documents, s) == StringMap(Table(documents, s[1])[s[2]].vars)

Rank(scope) == CASE scope = "local" -> 0 [] scope = "project" -> 1 [] scope = "global" -> 2

(* A changed form: the widest scope wins.                                  *)
WidestFirst(s, t) ==
  LET a == Rank(ConfigFiles[s[1]].scope)
      b == Rank(ConfigFiles[t[1]].scope)
  IN  a > b \/ (a = b /\ s[1] < t[1])

(* s comes before t among the entries of one client and key.               *)
Precedes(s, t) ==
  LET a == Rank(ConfigFiles[s[1]].scope)
      b == Rank(ConfigFiles[t[1]].scope)
  IN  a < b \/ (a = b /\ s[1] < t[1])

SameServer(s, t) == ConfigFiles[s[1]].client = ConfigFiles[t[1]].client /\ s[2] = t[2]

(* One entry for a client and a key: the narrowest scope.                  *)
EffectiveServers(servers) ==
  {s \in servers : \A t \in servers : t # s /\ SameServer(s, t) => Precedes(s, t)}

SettingValue(vars, v) ==
  IF Read(vars, v) = Absent THEN Canonical(v, Default(v)) ELSE CanonicalSetting(v, Read(vars, v))

ServerIdentityVariables ==
  {"WINRIG_TOKEN", "WINRIG_AUTH_TOKEN", "WINRIG_PROFILE", "WINRIG_PROFILE_DIR", "WINRIG_STATE_DIR"}

OtherVariables(environments) == UNION {DOMAIN vars : vars \in environments} \ Known

Raw(vars, v) == IF v \in DOMAIN vars THEN vars[v] ELSE Absent

(* Known settings by their effective values, others by their texts.        *)
DoctorDifferences(environments) ==
  {v \in Known : \E a, b \in environments : SettingValue(a, v) # SettingValue(b, v)}
    \cup {v \in OtherVariables(environments) \ ServerIdentityVariables :
            \E a, b \in environments : Raw(a, v) # Raw(b, v)}

DoctorCommand(documents) ==
  LET servers == EffectiveServers(Launching(documents, "stdio"))
  IN  IF /\ DoctorDifferences({Vars(documents, s) : s \in servers}) = {}
         /\ Skipped(documents) = {}
         /\ Launching(documents, "broken") = {}
      THEN 0 ELSE 1

=============================================================================
