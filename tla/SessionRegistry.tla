--------------------------- MODULE SessionRegistry ---------------------------
(***************************************************************************)
(* The session registry of winrig (src/src/session.rs): the password       *)
(* cache, the AD failure counters, the two-lockout rule of a profile and   *)
(* the open sessions, each behind a mutex of its own.                      *)
(*                                                                         *)
(* Tool calls run on a multi-threaded runtime.  A call takes one mutex at  *)
(* a time and gives it back before it takes the next one or awaits the     *)
(* host, so the unit of interleaving is one critical section: every        *)
(* action of a call below is one critical section (with the local code     *)
(* around it) or one answer of the host.                                   *)
(***************************************************************************)
EXTENDS Integers, FiniteSets

CONSTANTS
  Users,            \* canonical user names
  Hosts,            \* session ids: "host" or "host:port"
  Passwords,        \* AD passwords, told apart by equality only
  Requests,         \* slots for tool calls that run at the same time
  None,             \* no user, host or password
  ProfilePassword,  \* the password a profile of the user decrypts to
  MaxAttempts,      \* WINRIG_LOCKOUT_ATTEMPTS
  LockoutWindow,    \* WINRIG_LOCKOUT_WINDOW_SECONDS, in ticks
  PasswordIdleTtl,  \* WINRIG_PASSWORD_TTL_SECONDS, in ticks; 0 is no expiry
  SlowSections,     \* whether a tick may pass between two critical sections
  MaxCalls,         \* bound: tool calls started in one behaviour
  MaxRotations      \* bound: changes of an AD password in one behaviour

ASSUME NoneAssumption == None \notin Users \cup Hosts \cup Passwords

ASSUME ProfileAssumption == ProfilePassword \in [Users -> Passwords]

ASSUME RequestsAssumption == IsFiniteSet(Requests)

ASSUME BoundsAssumption ==
  /\ MaxAttempts \in Nat \ {0}
  /\ LockoutWindow \in Nat
  /\ PasswordIdleTtl \in Nat
  /\ SlowSections \in BOOLEAN
  /\ MaxCalls \in Nat
  /\ MaxRotations \in Nat

VARIABLES
  passwords,        \* the password cache: value and ticks since its last use
  failures,         \* rejected password, count, ticks since first_failure
  lockout_streak,   \* thresholds reached since the last successful connect
  profile_refused,  \* users whose profile is blocked until a restart
  sessions,         \* the password of the target of each open session
  requests,         \* the tool call in each slot
  valid,            \* the host's side: the password AD accepts now
  calls, rotations, \* counters of the bounds
  rejections,       \* history: rejections of each password by AD, as answered
  accepted,         \* history: the passwords AD has accepted
  attempts,         \* history: rejections since the last connect that succeeded
  row               \* history: the connects of a user that were rejected in a
                    \* row with one password, and the ticks since the last one

registry == <<passwords, failures, lockout_streak, profile_refused, sessions>>

history == <<rejections, accepted, attempts, row>>

world == <<valid, calls, rotations, history>>

vars == <<registry, requests, world>>

-----------------------------------------------------------------------------
(* A map entry that is absent is written with None, or with a count of 0.  *)

NoPassword == [value |-> None, idle |-> 0]

NoFailures == [password_hash |-> None, count |-> 0, elapsed |-> 0]

NoRow == [password |-> None, fails |-> 0, elapsed |-> 0]

NoSessions == [h \in Hosts |-> None]

Idle == [pc |-> "idle", user |-> None, host |-> None, origin |-> "headers",
         password |-> None, digest |-> None]

(* The critical sections of connect before and after the host answers.     *)
BeforeHost == {"sync", "drop_changed", "admit", "check_lockout",
               "clear_expired", "cached_password", "drop_expired", "lookup"}

AfterAccept == {"insert", "clear_failures", "clear_streak"}

AfterReject == {"record", "invalidate", "drop_invalid", "threshold",
                "bump_streak", "refuse"}

AtHost == {"probe", "command"}

Control == {"idle"} \cup BeforeHost \cup AtHost \cup AfterAccept \cup AfterReject

Request == [pc : Control, user : Users \cup {None}, host : Hosts \cup {None},
            origin : {"headers", "profile"}, password : Passwords \cup {None},
            digest : Passwords \cup {None}]

RegistryType ==
  /\ passwords \in [Users -> [value : Passwords \cup {None}, idle : Nat]]
  /\ failures \in [Users -> [password_hash : Passwords \cup {None},
                             count : Nat, elapsed : Nat]]
  /\ \A u \in Users : failures[u].count = 0 <=> failures[u].password_hash = None
  /\ lockout_streak \in [Users -> Nat]
  /\ profile_refused \subseteq Users
  /\ sessions \in [Users -> [Hosts -> Passwords \cup {None}]]

SlotType(q) ==
  /\ q \in Request
  /\ q.pc # "idle" => q.user \in Users /\ q.host \in Hosts
  /\ q.pc \notin {"idle", "sync", "admit"} => q.password \in Passwords

SlotsType ==
  /\ requests = [r \in Requests |-> requests[r]]
  /\ \A r \in Requests : SlotType(requests[r])

WorldType ==
  /\ valid \in [Users -> Passwords]
  /\ calls \in Nat /\ rotations \in Nat
  /\ rejections \in [Users -> [Passwords -> Nat]]
  /\ accepted \in [Users -> SUBSET Passwords]
  /\ attempts \in [Users -> [Passwords -> [fails : Nat, elapsed : Nat]]]
  /\ row \in [Users -> [password : Passwords \cup {None}, fails : Nat, elapsed : Nat]]

(* Type correctness.  A call without a password never gets past admission  *)
(* (TR-SEC-13), and an entry of the failure map counts at least one.       *)
TypeOK == RegistryType /\ SlotsType /\ WorldType

Init ==
  /\ passwords = [u \in Users |-> NoPassword]
  /\ failures = [u \in Users |-> NoFailures]
  /\ lockout_streak = [u \in Users |-> 0]
  /\ profile_refused = {}
  /\ sessions = [u \in Users |-> NoSessions]
  /\ requests = [r \in Requests |-> Idle]
  /\ valid \in [Users -> Passwords]
  /\ calls = 0 /\ rotations = 0
  /\ rejections = [u \in Users |-> [p \in Passwords |-> 0]]
  /\ accepted = [u \in Users |-> {}]
  /\ attempts = [u \in Users |-> [p \in Passwords |-> [fails |-> 0, elapsed |-> 0]]]
  /\ row = [u \in Users |-> NoRow]

-----------------------------------------------------------------------------
(* Control of one call.                                                    *)

At(r, pc) == requests[r].pc = pc

Goto(r, pc) == requests' = [requests EXCEPT ![r].pc = pc]

(* The call answers and its slot is free again.                            *)
Reply(r) == requests' = [requests EXCEPT ![r] = Idle]

Start(r, call) ==
  /\ At(r, "idle")
  /\ calls < MaxCalls
  /\ calls' = calls + 1
  /\ requests' = [requests EXCEPT ![r] = call]
  /\ UNCHANGED <<registry, valid, rotations, history>>

(* Mutants of drop_sessions: it forgets to drop, or drops everybody's.     *)
KeepSessions(u) == UNCHANGED sessions

DropAllSessions(u) == sessions' = [v \in Users |-> NoSessions]

(* drop_sessions: one critical section on the sessions map.                *)
DropSessions(u) == sessions' = [sessions EXCEPT ![u] = NoSessions]

IsExpired(u) == PasswordIdleTtl > 0 /\ passwords[u].idle > PasswordIdleTtl

WindowOver(u) == failures[u].elapsed >= LockoutWindow

(* Mutant: the lockout starts one failure late.                            *)
ThresholdReachedLate(u) == failures[u].count > MaxAttempts

ThresholdReached(u) == failures[u].count >= MaxAttempts

-----------------------------------------------------------------------------
(* connect, up to the probe.                                               *)

(* The identity of a call: a header identity carries any password or none, *)
(* a profile identity the password the profile decrypts to.                *)
Connect(r) ==
  \E u \in Users, h \in Hosts :
    \/ \E p \in Passwords \cup {None} :
         Start(r, [Idle EXCEPT !.pc = "sync", !.user = u, !.host = h,
                               !.password = p])
    \/ Start(r, [Idle EXCEPT !.pc = "sync", !.user = u, !.host = h,
                             !.origin = "profile", !.password = ProfilePassword[u]])

(* sync_header_password and the first critical section of cache_password.  *)
SyncHeaderPassword(r) ==
  LET u == requests[r].user
      p == requests[r].password
      changed == passwords[u].value \notin {None, p}
  IN /\ At(r, "sync")
     /\ \/ /\ p = None
           /\ Goto(r, "admit")
           /\ UNCHANGED passwords
        \/ /\ p # None
           /\ passwords' = [passwords EXCEPT ![u] = [value |-> p, idle |-> 0]]
           /\ Goto(r, IF changed THEN "drop_changed" ELSE "admit")
     /\ UNCHANGED <<failures, lockout_streak, profile_refused, sessions, world>>

(* The second critical section of cache_password.                          *)
DropChanged(r) ==
  /\ At(r, "drop_changed")
  /\ DropSessions(requests[r].user)
  /\ Goto(r, "admit")
  /\ UNCHANGED <<passwords, failures, lockout_streak, profile_refused, world>>

(* Mutants of the admission: a call without a password passes, a refused   *)
(* profile passes.                                                         *)
AdmitWithoutPassword(r) ==
  LET refused == requests[r].origin = "profile" /\ requests[r].user \in profile_refused
  IN /\ At(r, "admit")
     /\ IF refused THEN Reply(r) ELSE Goto(r, "check_lockout")
     /\ UNCHANGED <<registry, world>>

AdmitRefused(r) ==
  /\ At(r, "admit")
  /\ IF requests[r].password = None THEN Reply(r) ELSE Goto(r, "check_lockout")
  /\ UNCHANGED <<registry, world>>

(* A refused profile and a call without a password are answered here.      *)
Admit(r) ==
  LET refused == requests[r].origin = "profile" /\ requests[r].user \in profile_refused
  IN /\ At(r, "admit")
     /\ \/ (refused \/ requests[r].password = None) /\ Reply(r)
        \/ ~refused /\ requests[r].password # None /\ Goto(r, "check_lockout")
     /\ UNCHANGED <<registry, world>>

(* check_lockout copies the failure entry and lets go of it.               *)
CheckLockout(r) ==
  LET u == requests[r].user
  IN /\ At(r, "check_lockout")
     /\ \/ ~ThresholdReached(u) /\ Goto(r, "lookup")
        \/ ThresholdReached(u) /\ WindowOver(u) /\ Goto(r, "clear_expired")
        \/ /\ ThresholdReached(u) /\ ~WindowOver(u)
           /\ requests' = [requests EXCEPT ![r].pc = "cached_password",
                                           ![r].digest = failures[u].password_hash]
     /\ UNCHANGED <<registry, world>>

ClearExpired(r) ==
  /\ At(r, "clear_expired")
  /\ failures' = [failures EXCEPT ![requests[r].user] = NoFailures]
  /\ Goto(r, "lookup")
  /\ UNCHANGED <<passwords, lockout_streak, profile_refused, sessions, world>>

(* check_lockout compares the CACHED password with its copy of the entry;  *)
(* without a cached password it reports no lockout.                        *)
CachedPassword(r) ==
  LET u == requests[r].user
      present == passwords[u].value # None
      locked == passwords[u].value = requests[r].digest
  IN /\ At(r, "cached_password")
     /\ \/ ~present /\ Goto(r, "lookup") /\ UNCHANGED passwords
        \/ /\ present /\ IsExpired(u)
           /\ passwords' = [passwords EXCEPT ![u] = NoPassword]
           /\ Goto(r, "drop_expired")
        \/ /\ present /\ ~IsExpired(u)
           /\ passwords' = [passwords EXCEPT ![u].idle = 0]
           /\ IF locked THEN Reply(r) ELSE Goto(r, "lookup")
     /\ UNCHANGED <<failures, lockout_streak, profile_refused, sessions, world>>

DropExpired(r) ==
  /\ At(r, "drop_expired")
  /\ DropSessions(requests[r].user)
  /\ Goto(r, "lookup")
  /\ UNCHANGED <<passwords, failures, lockout_streak, profile_refused, world>>

(* An open session answers already_connected; else the probe is sent.      *)
Lookup(r) ==
  /\ At(r, "lookup")
  /\ IF sessions[requests[r].user][requests[r].host] # None
       THEN Reply(r)
       ELSE Goto(r, "probe")
  /\ UNCHANGED <<registry, world>>
-----------------------------------------------------------------------------
(* The host and Active Directory, as the code in src/ meets them.          *)

(* The count of a password starts again once its window is over, and with  *)
(* a connect that succeeds.                                                *)
Rejected(u, p) ==
  LET a == attempts[u][p]
      over == a.fails >= MaxAttempts /\ a.elapsed >= LockoutWindow
      n == IF over THEN 1 ELSE a.fails + 1
  IN /\ rejections' = [rejections EXCEPT ![u][p] = @ + 1]
     /\ attempts' = [attempts EXCEPT ![u][p] = [fails |-> n, elapsed |-> 0]]
     /\ UNCHANGED accepted

(* One more rejected connect with p, or the first one of a new row.        *)
InRow(u, p) ==
  LET f == row[u]
      over == f.fails >= MaxAttempts /\ f.elapsed >= LockoutWindow
      n == IF f.password = p /\ ~over THEN f.fails + 1 ELSE 1
  IN row' = [row EXCEPT ![u] = [password |-> p, fails |-> n, elapsed |-> 0]]

Accepted(u, p) ==
  /\ accepted' = [accepted EXCEPT ![u] = @ \cup {p}]
  /\ UNCHANGED <<rejections, attempts, row>>

Connected(u, p) ==
  /\ accepted' = [accepted EXCEPT ![u] = @ \cup {p}]
  /\ attempts' = [attempts EXCEPT
                    ![u] = [q \in Passwords |-> [fails |-> 0, elapsed |-> 0]]]
  /\ row' = [row EXCEPT ![u] = NoRow]
  /\ UNCHANGED rejections

(* The probe was accepted and ran with exit code 0.                        *)
ProbeAccepted(r) ==
  LET q == requests[r]
  IN /\ At(r, "probe")
     /\ q.password = valid[q.user]
     /\ Connected(q.user, q.password)
     /\ Goto(r, "insert")
     /\ UNCHANGED <<registry, valid, calls, rotations>>

(* The password was rejected: TransportError::AuthFailed.                  *)
ProbeRejected(r) ==
  LET q == requests[r]
  IN /\ At(r, "probe")
     /\ q.password # valid[q.user]
     /\ Rejected(q.user, q.password)
     /\ InRow(q.user, q.password)
     /\ Goto(r, "record")
     /\ UNCHANGED <<registry, valid, calls, rotations>>

(* The host took the password and the probe ended with a non-zero exit     *)
(* code; or TransportError::Rejected, TransportError::Other or a client    *)
(* that went away, so that the future of the call was dropped.             *)
ProbeFailed(r) ==
  LET q == requests[r]
  IN /\ At(r, "probe")
     /\ \/ q.password = valid[q.user] /\ Accepted(q.user, q.password)
        \/ UNCHANGED history
     /\ Reply(r)
     /\ UNCHANGED <<registry, valid, calls, rotations>>

(* The password of the user is changed in Active Directory.                *)
RotateAdPassword ==
  \E u \in Users, p \in Passwords :
    /\ rotations < MaxRotations
    /\ p # valid[u]
    /\ rotations' = rotations + 1
    /\ valid' = [valid EXCEPT ![u] = p]
    /\ UNCHANGED <<registry, requests, calls, history>>

-----------------------------------------------------------------------------
(* connect, once the host accepted the probe.                              *)

(* Mutant: the session takes the password the cache holds by now.          *)
InsertCached(r) ==
  LET q == requests[r]
  IN /\ At(r, "insert")
     /\ sessions' = [sessions EXCEPT ![q.user][q.host] = passwords[q.user].value]
     /\ Goto(r, "clear_failures")
     /\ UNCHANGED <<passwords, failures, lockout_streak, profile_refused, world>>

(* The session holds the target of the call, with the presented password.  *)
InsertSession(r) ==
  LET q == requests[r]
  IN /\ At(r, "insert")
     /\ sessions' = [sessions EXCEPT ![q.user][q.host] = q.password]
     /\ Goto(r, "clear_failures")
     /\ UNCHANGED <<passwords, failures, lockout_streak, profile_refused, world>>

ClearFailures(r) ==
  /\ At(r, "clear_failures")
  /\ failures' = [failures EXCEPT ![requests[r].user] = NoFailures]
  /\ Goto(r, "clear_streak")
  /\ UNCHANGED <<passwords, lockout_streak, profile_refused, sessions, world>>

ClearLockoutStreak(r) ==
  /\ At(r, "clear_streak")
  /\ lockout_streak' = [lockout_streak EXCEPT ![requests[r].user] = 0]
  /\ Reply(r)
  /\ UNCHANGED <<passwords, failures, profile_refused, sessions, world>>

-----------------------------------------------------------------------------
(* connect, once the host rejected the password.                           *)

(* Mutant: the failures of all passwords are counted together.             *)
RecordAnyFailure(r) ==
  LET u == requests[r].user
  IN /\ At(r, "record")
     /\ failures' = [failures EXCEPT ![u] =
          [password_hash |-> requests[r].password, count |-> @.count + 1, elapsed |-> 0]]
     /\ Goto(r, "invalidate")
     /\ UNCHANGED <<passwords, lockout_streak, profile_refused, sessions, world>>

(* The entry counts one password: another password replaces it.            *)
RecordAuthFailure(r) ==
  LET u == requests[r].user
      p == requests[r].password
      f == failures[u]
      again == f.password_hash = p
      count == IF again THEN f.count + 1 ELSE 1
      restart == ~again \/ count >= MaxAttempts
  IN /\ At(r, "record")
     /\ failures' = [failures EXCEPT ![u] =
          [password_hash |-> p, count |-> count,
           elapsed |-> IF restart THEN 0 ELSE f.elapsed]]
     /\ Goto(r, "invalidate")
     /\ UNCHANGED <<passwords, lockout_streak, profile_refused, sessions, world>>

(* The two critical sections of invalidate_password.                       *)
InvalidatePassword(r) ==
  /\ At(r, "invalidate")
  /\ passwords' = [passwords EXCEPT ![requests[r].user] = NoPassword]
  /\ Goto(r, "drop_invalid")
  /\ UNCHANGED <<failures, lockout_streak, profile_refused, sessions, world>>

DropInvalid(r) ==
  /\ At(r, "drop_invalid")
  /\ DropSessions(requests[r].user)
  /\ IF requests[r].origin = "profile" THEN Goto(r, "threshold") ELSE Reply(r)
  /\ UNCHANGED <<passwords, failures, lockout_streak, profile_refused, world>>

(* Mutants of bump_lockout_streak: the profile is refused after any        *)
(* failure, or after the first lockout.                                    *)
RefuseEveryFailure(r) ==
  /\ At(r, "threshold")
  /\ Goto(r, "refuse")
  /\ UNCHANGED <<registry, world>>

RefuseAtOnce(r) ==
  /\ At(r, "bump_streak")
  /\ lockout_streak' = [lockout_streak EXCEPT ![requests[r].user] = @ + 1]
  /\ Goto(r, "refuse")
  /\ UNCHANGED <<passwords, failures, profile_refused, sessions, world>>

(* The two critical sections of bump_lockout_streak.                       *)
CheckThreshold(r) ==
  /\ At(r, "threshold")
  /\ IF ThresholdReached(requests[r].user)
       THEN Goto(r, "bump_streak")
       ELSE Reply(r)
  /\ UNCHANGED <<registry, world>>

BumpLockoutStreak(r) ==
  LET u == requests[r].user
      streak == lockout_streak[u] + 1
  IN /\ At(r, "bump_streak")
     /\ lockout_streak' = [lockout_streak EXCEPT ![u] = streak]
     /\ IF streak >= 2 THEN Goto(r, "refuse") ELSE Reply(r)
     /\ UNCHANGED <<passwords, failures, profile_refused, sessions, world>>

RefuseProfile(r) ==
  /\ At(r, "refuse")
  /\ profile_refused' = profile_refused \cup {requests[r].user}
  /\ Reply(r)
  /\ UNCHANGED <<passwords, failures, lockout_streak, sessions, world>>

-----------------------------------------------------------------------------
(* The calls that use an open session.                                     *)

(* The target is copied out of the map: the command keeps its password     *)
(* whatever happens to the session until the host answers.                 *)
TakeTarget(r, u, h) ==
  /\ sessions[u][h] # None
  /\ Start(r, [Idle EXCEPT !.pc = "command", !.user = u, !.host = h,
                           !.password = sessions[u][h]])

(* A call without its session, or longer than a WinRS command line, is     *)
(* answered at once and never reaches the host.                            *)
RunPs(r) == \E u \in Users, h \in Hosts : TakeTarget(r, u, h)

(* The same lookup for the commands of a file transfer.                    *)
RunTransferCommand(r) == \E u \in Users, h \in Hosts : TakeTarget(r, u, h)

(* The reply of a command changes nothing in the registry, whether the     *)
(* host ran the command, rejected its password or never answered: run_ps   *)
(* records no failure of a logon, and the session stays open.              *)
CommandAnswered(r) ==
  LET q == requests[r]
  IN /\ At(r, "command")
     /\ \/ q.password = valid[q.user] /\ Accepted(q.user, q.password)
        \/ q.password # valid[q.user] /\ Rejected(q.user, q.password) /\ UNCHANGED row
        \/ UNCHANGED history
     /\ Reply(r)
     /\ UNCHANGED <<registry, valid, calls, rotations>>

Disconnect ==
  \E u \in Users, h \in Hosts :
    /\ sessions[u][h] # None
    /\ sessions' = [sessions EXCEPT ![u][h] = None]
    /\ UNCHANGED <<passwords, failures, lockout_streak, profile_refused, requests, world>>

-----------------------------------------------------------------------------
(* Time.  A clock that has passed its limit tells nothing more, so it      *)
(* stops there.                                                            *)

Later(n, limit) == IF n >= limit THEN n ELSE n + 1

InSection(r) == requests[r].pc \notin AtHost \cup {"idle"}

Tick ==
  /\ SlowSections \/ \A r \in Requests : ~InSection(r)
  /\ passwords' = [u \in Users |->
       IF passwords[u].value = None THEN passwords[u]
       ELSE [passwords[u] EXCEPT !.idle = Later(@, PasswordIdleTtl + 1)]]
  /\ failures' = [u \in Users |->
       IF failures[u].count = 0 THEN failures[u]
       ELSE [failures[u] EXCEPT !.elapsed = Later(@, LockoutWindow)]]
  /\ attempts' = [u \in Users |-> [p \in Passwords |->
       IF attempts[u][p].fails < MaxAttempts THEN attempts[u][p]
       ELSE [attempts[u][p] EXCEPT !.elapsed = Later(@, LockoutWindow)]]]
  /\ row' = [u \in Users |->
       IF row[u].fails < MaxAttempts THEN row[u]
       ELSE [row[u] EXCEPT !.elapsed = Later(@, LockoutWindow)]]
  /\ UNCHANGED <<lockout_streak, profile_refused, sessions, requests, valid,
                 calls, rotations, rejections, accepted>>

-----------------------------------------------------------------------------

ConnectBeforeProbe(r) ==
  \/ Connect(r) \/ SyncHeaderPassword(r) \/ DropChanged(r) \/ Admit(r)
  \/ CheckLockout(r) \/ ClearExpired(r) \/ CachedPassword(r) \/ DropExpired(r)
  \/ Lookup(r)

HostAnswer(r) ==
  ProbeAccepted(r) \/ ProbeRejected(r) \/ ProbeFailed(r) \/ CommandAnswered(r)

ConnectAfterProbe(r) ==
  \/ InsertSession(r) \/ ClearFailures(r) \/ ClearLockoutStreak(r)
  \/ RecordAuthFailure(r) \/ InvalidatePassword(r) \/ DropInvalid(r)
  \/ CheckThreshold(r) \/ BumpLockoutStreak(r) \/ RefuseProfile(r)

Next ==
  \/ \E r \in Requests :
       \/ ConnectBeforeProbe(r) \/ HostAnswer(r) \/ ConnectAfterProbe(r)
       \/ RunPs(r) \/ RunTransferCommand(r)
  \/ Disconnect \/ RotateAdPassword \/ Tick

Spec == Init /\ [][Next]_vars

-----------------------------------------------------------------------------
(* Safety, however the calls interleave.                                   *)

(* The failure entry never counts more than Active Directory rejected:     *)
(* each step of the count stands for one rejected probe with exactly that  *)
(* password (record_auth_failure), so a lockout is never started early.    *)
CountedFailuresWereRejected ==
  \A u \in Users : failures[u].count > 0 =>
    failures[u].count <= rejections[u][failures[u].password_hash]

(* A profile is refused only after some password of its user was rejected  *)
(* as often as the failure threshold (bump_lockout_streak).                *)
NoRefusalBelowThreshold ==
  \A u \in profile_refused : \E p \in Passwords : rejections[u][p] >= MaxAttempts

(* Every open session holds a password that Active Directory accepted for  *)
(* its own user: connect inserts the target it probed with, not what the   *)
(* cache holds by then (TR-SEC-13).                                        *)
SessionsWereAccepted ==
  \A u \in Users, h \in Hosts : sessions[u][h] # None => sessions[u][h] \in accepted[u]

(* What a step may change for one user, the clocks left out.               *)
Entry(u) == <<passwords[u].value, failures[u].password_hash, failures[u].count,
              lockout_streak[u], u \in profile_refused, sessions[u]>>

(* Per-user isolation (DR-3): a step that changes the cache, the counters  *)
(* or the sessions of one user leaves those of every other user alone.     *)
UserIsolation ==
  [][\A u \in Users : Entry(u)' # Entry(u) =>
       \A v \in Users \ {u} : Entry(v)' = Entry(v)]_vars

-----------------------------------------------------------------------------
(* Safety of a client that waits for each answer before its next call.     *)

Presents(r) == requests[r].pc \notin AtHost /\ requests'[r].pc \in AtHost

(* The connects of a user were rejected as often as the threshold, one     *)
(* after the other with the password p, and the window is not over.        *)
LockedByConnects(u, p) ==
  /\ row[u].password = p
  /\ row[u].fails >= MaxAttempts
  /\ row[u].elapsed < LockoutWindow

(* TR-SEC-01 as far as the code keeps it: connect does not present a       *)
(* password that as many connects in a row as the threshold were rejected  *)
(* with, until the window is over or a connect succeeds.  Whatever happens *)
(* in between: other hosts, a call without a password, a connect with      *)
(* another password that fails for other reasons, a password changed in    *)
(* Active Directory.  The two properties below state the rest of it.       *)
LockedPasswordNotPresented ==
  [][\A r \in Requests : Presents(r) /\ requests'[r].pc = "probe" =>
       ~LockedByConnects(requests'[r].user, requests'[r].password)]_vars

(* For Active Directory every rejection counts, that of a command too, and *)
(* in between may be others with other passwords: a password is locked out *)
(* from the one that reached the threshold until the window is over,       *)
(* unless the user connects meanwhile.                                     *)
LockedOut(u, p) ==
  attempts[u][p].fails >= MaxAttempts /\ attempts[u][p].elapsed < LockoutWindow

(* TR-SEC-01, word for word, of connect: the server does not present a     *)
(* rejected password again in the lockout window.                          *)
ConnectKeepsWindow ==
  [][\A r \in Requests : Presents(r) /\ requests'[r].pc = "probe" =>
       ~LockedOut(requests'[r].user, requests'[r].password)]_vars

(* TR-SEC-01, word for word, of the commands of an open session.           *)
CommandKeepsWindow ==
  [][\A r \in Requests : Presents(r) /\ requests'[r].pc = "command" =>
       ~LockedOut(requests'[r].user, requests'[r].password)]_vars

(* AC-PRF-56: a profile is refused after the second threshold in a row, so *)
(* after twice the threshold of rejections of the profile password.        *)
RefusalNeedsTwoThresholds ==
  \A u \in profile_refused : rejections[u][ProfilePassword[u]] >= 2 * MaxAttempts

(* AC-PRF-56: the password of a refused profile is not presented again as  *)
(* a profile password until a restart, even after the lockout window.      *)
RefusedProfileNotPresented ==
  [][\A r \in Requests : Presents(r) /\ requests'[r].origin = "profile" =>
       requests'[r].user \notin profile_refused]_vars

Quiet(u) == \A r \in Requests : requests[r].user # u

(* cache_password drops the sessions of a user when the password changes:  *)
(* between calls every session uses the password the cache holds.          *)
SessionsFollowCache ==
  \A u \in Users : Quiet(u) /\ passwords[u].value # None =>
    \A h \in Hosts : sessions[u][h] \in {None, passwords[u].value}

=============================================================================
