------------------------------ MODULE Settings ------------------------------
(***************************************************************************)
(* The settings of the server (src/src/config.rs): the environment is read *)
(* once at the start, one bad variable refuses the start, and the check of *)
(* the client configurations compares the canonical form of each variable  *)
(* read alone.                                                             *)
(*                                                                         *)
(* A text stands for itself.  What its characters say is given by tables   *)
(* of the instance: its number, its entries, its spelling in lower case.   *)
(***************************************************************************)
EXTENDS Integers, Sequences, FiniteSets

CONSTANTS
  Numerals,   \* the number of each text that is an integer
  Listings,   \* the entries of each text that fits a list grammar
  Lowered,    \* the lower case of each text that has another case
  Blank,      \* texts of spaces only
  Absolute,   \* texts that are absolute paths
  U32Max,     \* u32::MAX
  Absent,     \* no value
  Bad         \* a value that the parser refuses

ASSUME SettingsAssumption ==
  /\ \A t \in DOMAIN Numerals : Numerals[t] \in Int
  /\ U32Max \in Nat
  /\ Absent # Bad

Lower(t) == IF t \in DOMAIN Lowered THEN Lowered[t] ELSE t

(* An environment maps the variables that are set to texts.                *)
Read(env, v) == IF v \in DOMAIN env /\ env[v] \notin Blank THEN env[v] ELSE Absent

-----------------------------------------------------------------------------
(* The variables: the least value and the default of a number, the default *)
(* of a switch, a list, a word.                                            *)

ChunkBytes == 1536

Counts == [WINRIG_PORT                     |-> [least |-> 1, default |-> 8005],
           WINRIG_PASSWORD_TTL_SECONDS     |-> [least |-> 0, default |-> 3600],
           WINRIG_LOG_MAX_BYTES            |-> [least |-> 1, default |-> 10 * 1024 * 1024],
           WINRIG_LOG_BACKUP_COUNT         |-> [least |-> 0, default |-> 5],
           WINRIG_LOCKOUT_ATTEMPTS         |-> [least |-> 1, default |-> 3],
           WINRIG_LOCKOUT_WINDOW_SECONDS   |-> [least |-> 0, default |-> 1800],
           WINRIG_SECRET_REDACT_MIN_LENGTH |-> [least |-> 1, default |-> 4],
           WINRIG_AUDIT_MAX_OUTPUT_CHARS   |-> [least |-> 0, default |-> 2000],
           WINRIG_CONFIRM_TIMEOUT_SECONDS  |-> [least |-> 1, default |-> 300],
           WINRIG_SFTP_CRED_TTL_SECONDS    |-> [least |-> 0, default |-> 3600],
           WINRIG_MAX_WRITE_BYTES          |-> [least |-> ChunkBytes, default |-> 64 * 1024],
           WINRIG_MAX_TRANSFER_BYTES       |-> [least |-> 1, default |-> 256 * 1024 * 1024]]

Most(v) ==
  CASE v = "WINRIG_PORT" -> {65535}
    [] v \in {"WINRIG_LOG_BACKUP_COUNT", "WINRIG_LOCKOUT_ATTEMPTS"} -> {U32Max}
    [] OTHER -> {}

Switches == [WINRIG_ALLOW_INSECURE_TLS  |-> FALSE, WINRIG_AUDIT_LOG_BODY       |-> TRUE,
             WINRIG_ALLOW_FILE_WRITE    |-> FALSE, WINRIG_ALLOW_COMMAND_EXEC   |-> FALSE,
             WINRIG_ALLOW_SCRIPT_EXEC   |-> FALSE, WINRIG_ALLOW_FILE_OPS       |-> FALSE,
             WINRIG_ALLOW_FILE_DOWNLOAD |-> FALSE, WINRIG_ALLOW_FILE_UPLOAD    |-> FALSE]

Lists == {"WINRIG_ALLOWED_HOSTS", "WINRIG_WRITE_ALLOW_PATHS", "WINRIG_ALLOWED_COMMANDS"}

Words == [WINRIG_LOG_LEVEL        |-> "info", WINRIG_CONFIRM_FALLBACK |-> "refuse",
          WINRIG_BIND_HOST        |-> "127.0.0.1"]

Places == {"WINRIG_LOG_DIR", "WINRIG_TRANSFER_DIR"}

(* The known settings; secrets, the profile and the directories of the     *)
(* profiles are read besides.                                              *)
Known == DOMAIN Counts \cup DOMAIN Switches \cup Lists \cup DOMAIN Words \cup Places

RenamedVariables ==
  {"MCP_AUTH_TOKEN", "MCP_BIND_HOST", "MCPO_PORT", "AD_PASSWORD_IDLE_TTL_SECONDS", "LOG_DIR",
   "LOG_LEVEL", "LOG_MAX_BYTES", "LOG_BACKUP_COUNT", "AUDIT_MAX_OUTPUT_CHARS", "AUDIT_LOG_BODY",
   "CONFIRM_TIMEOUT_SECONDS", "AD_LOCKOUT_MAX_ATTEMPTS", "AD_LOCKOUT_WINDOW_SECONDS",
   "SECRET_REDACT_MIN_LENGTH", "ALLOWED_HOSTS", "ALLOW_INSECURE_TLS", "SFTP_CRED_IDLE_TTL_SECONDS"}

-----------------------------------------------------------------------------
(* The parsers.  raw is a text, never blank.                               *)

ReadInt(v, raw) ==
  IF /\ raw \in DOMAIN Numerals
     /\ Numerals[raw] >= Counts[v].least
     /\ \A most \in Most(v) : Numerals[raw] =< most
  THEN Numerals[raw] ELSE Bad

ReadBool(raw) ==
  CASE Lower(raw) \in {"1", "true", "yes", "on"}  -> TRUE
    [] Lower(raw) \in {"0", "false", "no", "off"} -> FALSE
    [] OTHER -> Bad

(* Empty entries are skipped; an entry against the grammar refuses.  The   *)
(* entries of the host list are lowered.                                   *)
ReadList(v, raw) ==
  IF raw \notin DOMAIN Listings THEN Bad
  ELSE IF v = "WINRIG_ALLOWED_HOSTS"
  THEN [i \in DOMAIN Listings[raw] |-> Lower(Listings[raw][i])]
  ELSE Listings[raw]

ReadLogLevel(raw) ==
  IF Lower(raw) \in {"debug", "info", "warning", "error", "critical"} THEN Lower(raw) ELSE Bad

ReadConfirmFallback(raw) == IF Lower(raw) \in {"refuse", "proceed"} THEN Lower(raw) ELSE Bad

ReadTransferDir(raw) == IF raw \in Absolute THEN raw ELSE Bad

Parse(v, raw) ==
  CASE v \in DOMAIN Counts   -> ReadInt(v, raw)
    [] v \in DOMAIN Switches -> ReadBool(raw)
    [] v \in Lists           -> ReadList(v, raw)
    [] v = "WINRIG_LOG_LEVEL"        -> ReadLogLevel(raw)
    [] v = "WINRIG_CONFIRM_FALLBACK" -> ReadConfirmFallback(raw)
    [] v = "WINRIG_TRANSFER_DIR"     -> ReadTransferDir(raw)
    [] OTHER -> raw

Default(v) ==
  CASE v \in DOMAIN Counts   -> Counts[v].default
    [] v \in DOMAIN Switches -> Switches[v]
    [] v \in Lists           -> << >>
    [] v \in DOMAIN Words    -> Words[v]
    [] v \in Places          -> Absent

-----------------------------------------------------------------------------
(* load_config_from: one bad variable, or one of an old name, is enough.   *)

Setting(env, v) == IF Read(env, v) = Absent THEN Default(v) ELSE Parse(v, Read(env, v))

LoadConfig(env) ==
  IF \/ \E old \in RenamedVariables : Read(env, old) # Absent
     \/ \E v \in Known : Setting(env, v) = Bad
  THEN Bad
  ELSE [v \in Known |-> Setting(env, v)]

(* A list sorted: only how often an entry is in it counts.                 *)
Sorted(list) ==
  [e \in {list[i] : i \in DOMAIN list} |-> Cardinality({i \in DOMAIN list : list[i] = e})]

(* Written paths are normalized, which folds their case.                   *)
Canonical(v, value) ==
  CASE v = "WINRIG_WRITE_ALLOW_PATHS" -> Sorted([i \in DOMAIN value |-> Lower(value[i])])
    [] v \in Lists -> Sorted(value)
    [] OTHER -> value

SettingPairs(config) == [v \in Known |-> Canonical(v, config[v])]

(* One variable alone: a bad value of another does not hide it.            *)
CanonicalSetting(v, raw) ==
  LET config == LoadConfig([only \in {v} |-> raw])
  IN  IF config = Bad THEN Bad ELSE SettingPairs(config)[v]

=============================================================================
