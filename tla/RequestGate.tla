---------------------------- MODULE RequestGate ----------------------------
(***************************************************************************)
(* What one HTTP request passes before a tool acts for it: the secrets of  *)
(* src/src/auth.rs, the identity of src/src/identity.rs, the routes of     *)
(* src/src/server.rs and the host policy of src/src/policy.rs.  Pure: a    *)
(* handler maps what the server holds and the request to a result.         *)
(*                                                                         *)
(* Header values are trimmed; one that is missing, blank or no visible     *)
(* ASCII is Absent.                                                        *)
(***************************************************************************)
EXTENDS Settings

CONSTANTS
  Unsafe,    \* user names with a line break
  Loopback,  \* hosts that are loopback literals
  Labels     \* the labels of each host or suffix that is valid

(* x-mcp-token is looked at first, then a bearer in Authorization.         *)
PresentedToken(headers) ==
  IF headers.mcp # Absent THEN headers.mcp
  ELSE IF Lower(headers.scheme) = "bearer" THEN headers.bearer ELSE Absent

(* The identity that the middleware leaves with the request: of the        *)
(* profile, of the headers, or none.  state is [auth, key, account,        *)
(* password]: the shared secret, the token that opened the profile, and    *)
(* what it opened.                                                         *)
Middleware(state, headers) ==
  LET presented == PresentedToken(headers)
  IN  CASE presented = Absent -> "rejected"
        [] presented # Absent /\ state.key # Absent /\ presented = state.key -> "profile"
        [] OTHER -> IF /\ state.auth # Absent /\ presented = state.auth
                       /\ headers.user # Absent /\ headers.user \notin Unsafe
                    THEN "headers" ELSE "rejected"

(* A changed form: the header of a user goes before the mark.              *)
HeadersFirst(state, headers, mark) ==
  IF headers.user = Absent
  THEN [source |-> "profile", user |-> state.account, password |-> state.password]
  ELSE [source |-> "headers", user |-> Lower(headers.user), password |-> headers.password]

(* The mark of the middleware goes before the headers.                     *)
IdentityFromParts(state, headers, mark) ==
  IF mark = "profile"
  THEN [source |-> "profile", user |-> state.account, password |-> state.password]
  ELSE [source |-> "headers", user |-> Lower(headers.user), password |-> headers.password]

(* stdio has no request parts: the identity is the one of the process.     *)
LocalIdentity(state) == [source |-> "profile", user |-> state.account, password |-> state.password]

-----------------------------------------------------------------------------
(* The routes.                                                             *)

Gates == [write_file       |-> "WINRIG_ALLOW_FILE_WRITE",    run_command   |-> "WINRIG_ALLOW_COMMAND_EXEC",
          run_script       |-> "WINRIG_ALLOW_SCRIPT_EXEC",   copy_file     |-> "WINRIG_ALLOW_FILE_OPS",
          move_file        |-> "WINRIG_ALLOW_FILE_OPS",      rename_file   |-> "WINRIG_ALLOW_FILE_OPS",
          create_directory |-> "WINRIG_ALLOW_FILE_OPS",      download_file |-> "WINRIG_ALLOW_FILE_DOWNLOAD",
          upload_file      |-> "WINRIG_ALLOW_FILE_UPLOAD"]

Routed(config, tool) == tool \in DOMAIN Gates => config[Gates[tool]]

-----------------------------------------------------------------------------
(* The policy of connect.                                                  *)

IsValidHost(host) == host \in DOMAIN Labels

EndsWith(labels, suffix) ==
  /\ Len(suffix) =< Len(labels)
  /\ \A i \in DOMAIN suffix : labels[Len(labels) - Len(suffix) + i] = suffix[i]

(* An entry is the star, a suffix such as ".corp.example", or a host.  A   *)
(* suffix covers its apex.                                                 *)
Suffixes == {entry \in DOMAIN Labels : Labels[entry][1] = ""}

EntryCovers(entry, host) ==
  \/ entry = "*" \/ entry = host
  \/ entry \in Suffixes /\ EndsWith(Labels[host], Tail(Labels[entry]))

HostAllowed(written, allowed) ==
  LET host == Lower(written)
  IN  /\ IsValidHost(host) /\ host \notin Suffixes
      /\ IF allowed = << >> THEN host \in Loopback
         ELSE \E i \in DOMAIN allowed : EntryCovers(allowed[i], host)

ValidatePort(port) == port = Absent \/ port \in 1..65535

TlsDecision(verify, insecure) == verify \/ insecure

DecideConnect(config, request) ==
  /\ HostAllowed(request.host, config["WINRIG_ALLOWED_HOSTS"])
  /\ ValidatePort(request.port)
  /\ TlsDecision(request.verify, config["WINRIG_ALLOW_INSECURE_TLS"])

=============================================================================
