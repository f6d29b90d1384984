----------------------- MODULE SessionRegistryProofs -----------------------
(***************************************************************************)
(* Proofs about the session registry, for every set of users, hosts,       *)
(* passwords and concurrent calls and every value of the limits.           *)
(***************************************************************************)
EXTENDS SessionRegistry, FiniteSetTheorems, TLAPS

-----------------------------------------------------------------------------
(* What the control operators do to the slots.                             *)

(* An idle slot is well typed.                                             *)
LEMMA IdleType == SlotType(Idle)
  BY DEF SlotType, Idle, Request, Control

(* Replacing one slot by a well-typed one keeps the slots well typed.      *)
LEMMA PutSlot ==
  ASSUME SlotsType, NEW r \in Requests, NEW q, SlotType(q),
         requests' = [requests EXCEPT ![r] = q]
  PROVE  SlotsType'
  BY DEF SlotsType

(* A call that goes on to its next critical section is still well typed.   *)
LEMMA GotoSlot ==
  ASSUME SlotsType, NEW r \in Requests, NEW pc \in Control, Goto(r, pc),
         requests[r].pc # "idle",
         pc \notin {"idle", "sync", "admit"} => requests[r].password \in Passwords
  PROVE  SlotsType'
<1>1. SlotType([requests[r] EXCEPT !.pc = pc])
  BY DEF SlotsType, SlotType, Request
<1>2. QED BY <1>1, PutSlot DEF Goto, SlotsType

(* A call that answers leaves an idle slot.                                *)
LEMMA ReplySlot ==
  ASSUME SlotsType, NEW r \in Requests, Reply(r)
  PROVE  SlotsType'
  BY IdleType, PutSlot DEF Reply

-----------------------------------------------------------------------------
(* Type correctness.                                                       *)

LEMMA TypeInitially == Init => TypeOK
<1> SUFFICES ASSUME Init PROVE TypeOK
  OBVIOUS
<1>1. RegistryType
  BY DEF Init, RegistryType, NoPassword, NoFailures, NoSessions
<1>2. SlotsType
  BY IdleType DEF Init, SlotsType
<1>3. WorldType
  BY BoundsAssumption DEF Init, WorldType, NoRow
<1>4. QED BY <1>1, <1>2, <1>3 DEF TypeOK

(* A call that starts with well-typed arguments is well typed.             *)
LEMMA StartStep ==
  ASSUME TypeOK, NEW r \in Requests, NEW call, SlotType(call), Start(r, call)
  PROVE  TypeOK'
<1>1. SlotsType'
  BY PutSlot DEF Start, TypeOK
<1>2. RegistryType' /\ WorldType'
  BY DEF Start, TypeOK, RegistryType, WorldType, registry, history
<1>3. QED BY <1>1, <1>2 DEF TypeOK

(* A call that only moves in its own slot.                                 *)
LEMMA ControlStep ==
  ASSUME TypeOK, SlotsType', UNCHANGED <<registry, world>>
  PROVE  TypeOK'
BY DEF TypeOK, RegistryType, WorldType, registry, world, history

(* A critical section on the registry: what is left to show for its type.  *)
LEMMA SectionStep ==
  ASSUME TypeOK, SlotsType', RegistryType', UNCHANGED world
  PROVE  TypeOK'
BY DEF TypeOK, WorldType, world, history

LEMMA ConnectBeforeProbeType ==
  ASSUME TypeOK, NEW r \in Requests, ConnectBeforeProbe(r)
  PROVE  TypeOK'
<1> DEFINE q == requests[r]
<1>q. SlotType(q) /\ SlotsType /\ RegistryType
  BY DEF TypeOK, SlotsType
<1>1. CASE Connect(r)
  <2>1. ASSUME NEW u \in Users, NEW h \in Hosts, NEW p \in Passwords \cup {None},
               NEW o \in {"headers", "profile"}
        PROVE  SlotType([Idle EXCEPT !.pc = "sync", !.user = u, !.host = h,
                                     !.origin = o, !.password = p])
    BY DEF SlotType, Idle, Request, Control, BeforeHost
  <2>2. ASSUME NEW u \in Users, NEW h \in Hosts, NEW p \in Passwords \cup {None}
        PROVE  SlotType([Idle EXCEPT !.pc = "sync", !.user = u, !.host = h,
                                     !.password = p])
    BY DEF SlotType, Idle, Request, Control, BeforeHost
  <2>3. QED BY <1>1, <2>1, <2>2, StartStep, ProfileAssumption DEF Connect
<1>2. CASE SyncHeaderPassword(r)
  <2>1. SlotsType'
    BY <1>2, <1>q, GotoSlot DEF SyncHeaderPassword, At, Control, BeforeHost, SlotType, Request
  <2>2. q.user \in Users /\ q.password \in Passwords \cup {None}
    BY <1>2, <1>q DEF SyncHeaderPassword, At, SlotType, Request
  <2>f. UNCHANGED <<failures, lockout_streak, profile_refused, sessions>>
    BY <1>2 DEF SyncHeaderPassword
  <2>a. ASSUME UNCHANGED passwords PROVE RegistryType'
    BY <2>f, <2>a, <1>q DEF RegistryType
  <2>b. ASSUME passwords' = [passwords EXCEPT ![q.user] = [value |-> q.password, idle |-> 0]]
        PROVE  RegistryType'
    BY <2>f, <2>b, <1>q, <2>2 DEF RegistryType
  <2>3. QED BY <1>2, <2>1, <2>a, <2>b, SectionStep DEF SyncHeaderPassword
<1>3. CASE DropChanged(r)
  <2>1. SlotsType'
    BY <1>3, <1>q, GotoSlot DEF DropChanged, At, Control, BeforeHost, SlotType
  <2>2. RegistryType'
    BY <1>3, <1>q DEF DropChanged, RegistryType, DropSessions, NoSessions
  <2>3. QED BY <1>3, <2>1, <2>2, SectionStep DEF DropChanged
<1>4. CASE Admit(r)
  <2>1. SlotsType'
    BY <1>4, <1>q, GotoSlot, ReplySlot DEF Admit, At, Control, BeforeHost, SlotType, Request
  <2>2. QED BY <1>4, <2>1, ControlStep DEF Admit
<1>5. CASE CheckLockout(r)
  <2>1. SlotType([q EXCEPT !.pc = "cached_password", !.digest = failures[q.user].password_hash])
    BY <1>5, <1>q DEF CheckLockout, At, SlotType, Request, RegistryType, Control, BeforeHost
  <2>2. CASE requests' = [requests EXCEPT ![r].pc = "cached_password",
                                          ![r].digest = failures[q.user].password_hash]
    <3>1. requests' = [requests EXCEPT
            ![r] = [q EXCEPT !.pc = "cached_password",
                             !.digest = failures[q.user].password_hash]]
      BY <2>2, <1>q DEF SlotsType
    <3>2. SlotsType' BY <3>1, <2>1, <1>q, PutSlot
    <3>3. QED BY <1>5, <3>2, ControlStep DEF CheckLockout
  <2>3. CASE Goto(r, "lookup") \/ Goto(r, "clear_expired")
    <3>1. SlotsType'
      BY <2>3, <1>5, <1>q, GotoSlot DEF CheckLockout, At, Control, BeforeHost, SlotType
    <3>2. QED BY <1>5, <3>1, ControlStep DEF CheckLockout
  <2>4. QED BY <1>5, <2>2, <2>3 DEF CheckLockout
<1>6. CASE ClearExpired(r)
  <2>1. SlotsType'
    BY <1>6, <1>q, GotoSlot DEF ClearExpired, At, Control, BeforeHost, SlotType
  <2>2. RegistryType'
    BY <1>6, <1>q DEF ClearExpired, RegistryType, NoFailures
  <2>3. QED BY <1>6, <2>1, <2>2, SectionStep DEF ClearExpired
<1>7. CASE CachedPassword(r)
  <2>1. SlotsType'
    BY <1>7, <1>q, GotoSlot, ReplySlot DEF CachedPassword, At, Control, BeforeHost, SlotType
  <2>2. q.user \in Users
    BY <1>7, <1>q DEF CachedPassword, At, SlotType
  <2>f. UNCHANGED <<failures, lockout_streak, profile_refused, sessions>>
    BY <1>7 DEF CachedPassword
  <2>a. ASSUME UNCHANGED passwords PROVE RegistryType'
    BY <2>f, <2>a, <1>q DEF RegistryType
  <2>b. ASSUME passwords' = [passwords EXCEPT ![q.user] = NoPassword]
        PROVE  RegistryType'
    BY <2>f, <2>b, <1>q, <2>2 DEF RegistryType, NoPassword
  <2>c. ASSUME passwords' = [passwords EXCEPT ![q.user].idle = 0]
        PROVE  RegistryType'
    BY <2>f, <2>c, <1>q, <2>2 DEF RegistryType
  <2>3. QED BY <1>7, <2>1, <2>a, <2>b, <2>c, SectionStep DEF CachedPassword
<1>8. CASE DropExpired(r)
  <2>1. SlotsType'
    BY <1>8, <1>q, GotoSlot DEF DropExpired, At, Control, BeforeHost, SlotType
  <2>2. RegistryType'
    BY <1>8, <1>q DEF DropExpired, RegistryType, DropSessions, NoSessions
  <2>3. QED BY <1>8, <2>1, <2>2, SectionStep DEF DropExpired
<1>9. CASE Lookup(r)
  <2>1. SlotsType'
    BY <1>9, <1>q, GotoSlot, ReplySlot DEF Lookup, At, Control, AtHost, SlotType
  <2>2. QED BY <1>9, <2>1, ControlStep DEF Lookup
<1>10. QED BY <1>1, <1>2, <1>3, <1>4, <1>5, <1>6, <1>7, <1>8, <1>9 DEF ConnectBeforeProbe

(* The rows of rejected connects, after an answer of the host.             *)
Rows == [Users -> [password : Passwords \cup {None}, fails : Nat, elapsed : Nat]]

LEMMA RowsType ==
  ASSUME TypeOK, NEW u \in Users, NEW p \in Passwords,
         UNCHANGED row \/ row' = [row EXCEPT ![u] = NoRow] \/ InRow(u, p)
  PROVE  row' \in Rows
<1>1. row \in Rows
  BY DEF TypeOK, WorldType, Rows
<1>2. CASE InRow(u, p)
  <2>1. row[u].fails + 1 \in Nat
    BY <1>1 DEF Rows
  <2>2. PICK n \in Nat :
          row' = [row EXCEPT ![u] = [password |-> p, fails |-> n, elapsed |-> 0]]
    BY <1>2, <2>1 DEF InRow
  <2>3. QED BY <1>1, <2>2 DEF Rows
<1>3. QED BY <1>1, <1>2 DEF Rows, NoRow

LEMMA HostAnswerType ==
  ASSUME TypeOK, NEW r \in Requests, HostAnswer(r)
  PROVE  TypeOK'
<1> DEFINE q == requests[r]
<1>q. SlotType(q) /\ SlotsType /\ RegistryType /\ WorldType
  BY DEF TypeOK, SlotsType
<1>t. ASSUME UNCHANGED <<registry, valid, calls, rotations>>, SlotsType',
             \/ Accepted(q.user, q.password) \/ Connected(q.user, q.password)
             \/ Rejected(q.user, q.password) \/ UNCHANGED history,
             \/ UNCHANGED row \/ row' = [row EXCEPT ![q.user] = NoRow]
             \/ InRow(q.user, q.password),
             q.user \in Users, q.password \in Passwords
      PROVE  TypeOK'
  <2>0. row' \in [Users -> [password : Passwords \cup {None}, fails : Nat, elapsed : Nat]]
    BY <1>t, RowsType DEF Rows
  <2>1. RegistryType'
    BY <1>t, <1>q DEF RegistryType, registry
  <2>2. CASE Accepted(q.user, q.password) \/ Connected(q.user, q.password)
    <3>1. /\ accepted' = [accepted EXCEPT ![q.user] = @ \cup {q.password}]
          /\ UNCHANGED rejections
      BY <2>2 DEF Accepted, Connected
    <3>2. accepted' \in [Users -> SUBSET Passwords]
      BY <1>t, <3>1, <1>q DEF WorldType
    <3>3. ASSUME attempts' = [attempts EXCEPT
                   ![q.user] = [p \in Passwords |-> [fails |-> 0, elapsed |-> 0]]]
          PROVE  attempts' \in [Users -> [Passwords -> [fails : Nat, elapsed : Nat]]]
      BY <1>t, <3>3, <1>q DEF WorldType
    <3>4. attempts' \in [Users -> [Passwords -> [fails : Nat, elapsed : Nat]]]
      BY <2>2, <3>3, <1>q DEF Accepted, Connected, WorldType
    <3>5. QED BY <1>t, <2>0, <2>1, <3>1, <3>2, <3>4, <1>q DEF WorldType, TypeOK
  <2>3. CASE Rejected(q.user, q.password)
    <3>1. rejections' \in [Users -> [Passwords -> Nat]]
      BY <1>t, <2>3, <1>q DEF Rejected, WorldType
    <3>2. ASSUME NEW n \in Nat,
                 attempts' = [attempts EXCEPT
                   ![q.user][q.password] = [fails |-> n, elapsed |-> 0]]
          PROVE  attempts' \in [Users -> [Passwords -> [fails : Nat, elapsed : Nat]]]
      BY <3>2, <1>q DEF WorldType
    <3>3. attempts[q.user][q.password].fails + 1 \in Nat
      BY <1>t, <1>q DEF WorldType
    <3>4. PICK n \in Nat : attempts' = [attempts EXCEPT
            ![q.user][q.password] = [fails |-> n, elapsed |-> 0]]
      BY <2>3, <3>3 DEF Rejected
    <3>5. attempts' \in [Users -> [Passwords -> [fails : Nat, elapsed : Nat]]]
      BY <3>2, <3>4
    <3>6. QED BY <1>t, <2>0, <2>1, <2>3, <3>1, <3>5, <1>q DEF Rejected, WorldType, TypeOK
  <2>4. CASE UNCHANGED history
    BY <1>t, <2>0, <2>1, <2>4, <1>q DEF WorldType, TypeOK, history
  <2>5. QED BY <1>t, <2>2, <2>3, <2>4
<1>1. CASE ProbeAccepted(r)
  <2>1. SlotsType' /\ q.user \in Users /\ q.password \in Passwords
    BY <1>1, <1>q, GotoSlot DEF ProbeAccepted, At, Control, AfterAccept, SlotType
  <2>2. QED BY <1>1, <2>1, <1>t DEF ProbeAccepted, Connected
<1>2. CASE ProbeRejected(r)
  <2>1. SlotsType' /\ q.user \in Users /\ q.password \in Passwords
    BY <1>2, <1>q, GotoSlot DEF ProbeRejected, At, Control, AfterReject, SlotType
  <2>2. QED BY <1>2, <2>1, <1>t DEF ProbeRejected
<1>3. CASE ProbeFailed(r)
  <2>1. SlotsType' /\ q.user \in Users /\ q.password \in Passwords
    BY <1>3, <1>q, ReplySlot DEF ProbeFailed, At, SlotType
  <2>2. QED BY <1>3, <2>1, <1>t DEF ProbeFailed, Accepted, history
<1>4. CASE CommandAnswered(r)
  <2>1. SlotsType' /\ q.user \in Users /\ q.password \in Passwords
    BY <1>4, <1>q, ReplySlot DEF CommandAnswered, At, SlotType
  <2>2. QED BY <1>4, <2>1, <1>t DEF CommandAnswered, Accepted, history
<1>5. QED BY <1>1, <1>2, <1>3, <1>4 DEF HostAnswer

LEMMA ConnectAfterProbeType ==
  ASSUME TypeOK, NEW r \in Requests, ConnectAfterProbe(r)
  PROVE  TypeOK'
<1> DEFINE q == requests[r]
<1>q. SlotType(q) /\ SlotsType /\ RegistryType
  BY DEF TypeOK, SlotsType
<1>1. CASE InsertSession(r)
  <2>1. SlotsType' /\ q.user \in Users /\ q.host \in Hosts /\ q.password \in Passwords
    BY <1>1, <1>q, GotoSlot DEF InsertSession, At, Control, AfterAccept, SlotType
  <2>2. RegistryType'
    BY <1>1, <2>1, <1>q DEF InsertSession, RegistryType
  <2>3. QED BY <1>1, <2>1, <2>2, SectionStep DEF InsertSession
<1>2. CASE ClearFailures(r)
  <2>1. SlotsType'
    BY <1>2, <1>q, GotoSlot DEF ClearFailures, At, Control, AfterAccept, SlotType
  <2>2. RegistryType'
    BY <1>2, <1>q DEF ClearFailures, RegistryType, NoFailures
  <2>3. QED BY <1>2, <2>1, <2>2, SectionStep DEF ClearFailures
<1>3. CASE ClearLockoutStreak(r)
  <2>1. SlotsType'
    BY <1>3, <1>q, ReplySlot DEF ClearLockoutStreak
  <2>2. RegistryType'
    BY <1>3, <1>q DEF ClearLockoutStreak, RegistryType
  <2>3. QED BY <1>3, <2>1, <2>2, SectionStep DEF ClearLockoutStreak
<1>4. CASE RecordAuthFailure(r)
  <2>1. SlotsType' /\ q.user \in Users /\ q.password \in Passwords
    BY <1>4, <1>q, GotoSlot DEF RecordAuthFailure, At, Control, AfterReject, SlotType
  <2>2. PICK c \in Nat \ {0}, e \in Nat :
          failures' = [failures EXCEPT ![q.user] =
            [password_hash |-> q.password, count |-> c, elapsed |-> e]]
    <3> DEFINE again == failures[q.user].password_hash = q.password
               c == IF again THEN failures[q.user].count + 1 ELSE 1
               e == IF ~again \/ c >= MaxAttempts THEN 0 ELSE failures[q.user].elapsed
    <3>1. c \in Nat \ {0} /\ e \in Nat
      BY <2>1, <1>q DEF RegistryType
    <3>2. failures' = [failures EXCEPT ![q.user] =
            [password_hash |-> q.password, count |-> c, elapsed |-> e]]
      BY <1>4 DEF RecordAuthFailure
    <3>3. QED BY <3>1, <3>2
  <2>3. RegistryType'
    BY <1>4, <2>1, <2>2, <1>q, NoneAssumption DEF RecordAuthFailure, RegistryType
  <2>4. QED BY <1>4, <2>1, <2>3, SectionStep DEF RecordAuthFailure
<1>5. CASE InvalidatePassword(r)
  <2>1. SlotsType'
    BY <1>5, <1>q, GotoSlot DEF InvalidatePassword, At, Control, AfterReject, SlotType
  <2>2. RegistryType'
    BY <1>5, <1>q DEF InvalidatePassword, RegistryType, NoPassword
  <2>3. QED BY <1>5, <2>1, <2>2, SectionStep DEF InvalidatePassword
<1>6. CASE DropInvalid(r)
  <2>1. SlotsType'
    BY <1>6, <1>q, GotoSlot, ReplySlot DEF DropInvalid, At, Control, AfterReject, SlotType
  <2>2. RegistryType'
    BY <1>6, <1>q DEF DropInvalid, RegistryType, DropSessions, NoSessions
  <2>3. QED BY <1>6, <2>1, <2>2, SectionStep DEF DropInvalid
<1>7. CASE CheckThreshold(r)
  <2>1. SlotsType'
    BY <1>7, <1>q, GotoSlot, ReplySlot DEF CheckThreshold, At, Control, AfterReject, SlotType
  <2>2. QED BY <1>7, <2>1, ControlStep DEF CheckThreshold
<1>8. CASE BumpLockoutStreak(r)
  <2>1. SlotsType' /\ q.user \in Users
    BY <1>8, <1>q, GotoSlot, ReplySlot
       DEF BumpLockoutStreak, At, Control, AfterReject, SlotType
  <2>2. RegistryType'
    BY <1>8, <2>1, <1>q DEF BumpLockoutStreak, RegistryType
  <2>3. QED BY <1>8, <2>1, <2>2, SectionStep DEF BumpLockoutStreak
<1>9. CASE RefuseProfile(r)
  <2>1. SlotsType' /\ q.user \in Users
    BY <1>9, <1>q, ReplySlot DEF RefuseProfile, At, SlotType
  <2>2. RegistryType'
    BY <1>9, <2>1, <1>q DEF RefuseProfile, RegistryType
  <2>3. QED BY <1>9, <2>1, <2>2, SectionStep DEF RefuseProfile
<1>10. QED BY <1>1, <1>2, <1>3, <1>4, <1>5, <1>6, <1>7, <1>8, <1>9 DEF ConnectAfterProbe

(* Every step of the registry keeps its variables in their types.          *)
LEMMA TypeStep == TypeOK /\ [Next]_vars => TypeOK'
<1> SUFFICES ASSUME TypeOK, [Next]_vars PROVE TypeOK'
  OBVIOUS
<1>q. SlotsType /\ RegistryType /\ WorldType
  BY DEF TypeOK
<1>1. ASSUME NEW r \in Requests, RunPs(r) \/ RunTransferCommand(r) PROVE TypeOK'
  <2>1. PICK u \in Users, h \in Hosts : TakeTarget(r, u, h)
    BY <1>1 DEF RunPs, RunTransferCommand
  <2>2. sessions[u][h] \in Passwords
    BY <2>1, <1>q DEF TakeTarget, RegistryType
  <2>3. SlotType([Idle EXCEPT !.pc = "command", !.user = u, !.host = h,
                              !.password = sessions[u][h]])
    BY <2>2 DEF SlotType, Idle, Request, Control, AtHost
  <2>4. QED BY <2>1, <2>3, StartStep DEF TakeTarget
<1>2. CASE Disconnect
  <2>1. SlotsType' BY <1>2, <1>q DEF Disconnect, SlotsType
  <2>2. RegistryType' BY <1>2, <1>q DEF Disconnect, RegistryType
  <2>3. QED BY <1>2, <2>1, <2>2, SectionStep DEF Disconnect
<1>3. CASE RotateAdPassword
  <2>1. SlotsType' BY <1>3, <1>q DEF RotateAdPassword, SlotsType
  <2>2. RegistryType' BY <1>3, <1>q DEF RotateAdPassword, RegistryType, registry
  <2>3. WorldType'
    BY <1>3, <1>q, BoundsAssumption DEF RotateAdPassword, WorldType, history
  <2>4. QED BY <2>1, <2>2, <2>3 DEF TypeOK
<1>4. CASE Tick
  <2>1. SlotsType' BY <1>4, <1>q DEF Tick, SlotsType
  <2>a. /\ LockoutWindow \in Nat /\ PasswordIdleTtl + 1 \in Nat
        /\ \A n, l \in Nat : Later(n, l) \in Nat
    BY BoundsAssumption DEF Later
  <2>2. passwords' \in [Users -> [value : Passwords \cup {None}, idle : Nat]]
    <3>1. ASSUME NEW u \in Users
          PROVE  [passwords[u] EXCEPT !.idle = Later(@, PasswordIdleTtl + 1)]
                   \in [value : Passwords \cup {None}, idle : Nat]
      BY <1>q, <2>a DEF RegistryType
    <3>2. QED BY <3>1, <1>4, <1>q DEF Tick, RegistryType
  <2>3. failures' \in [Users -> [password_hash : Passwords \cup {None},
                                 count : Nat, elapsed : Nat]]
    <3>1. ASSUME NEW u \in Users
          PROVE  [failures[u] EXCEPT !.elapsed = Later(@, LockoutWindow)]
                   \in [password_hash : Passwords \cup {None}, count : Nat, elapsed : Nat]
      BY <1>q, <2>a DEF RegistryType
    <3>2. QED BY <3>1, <1>4, <1>q DEF Tick, RegistryType
  <2>4. \A u \in Users : /\ failures'[u].count = failures[u].count
                         /\ failures'[u].password_hash = failures[u].password_hash
    BY <1>4, <1>q DEF Tick, RegistryType
  <2>5. RegistryType'
    BY <1>4, <1>q, <2>2, <2>3, <2>4 DEF Tick, RegistryType
  <2>6. attempts' \in [Users -> [Passwords -> [fails : Nat, elapsed : Nat]]]
    <3>1. ASSUME NEW u \in Users, NEW p \in Passwords
          PROVE  [attempts[u][p] EXCEPT !.elapsed = Later(@, LockoutWindow)]
                   \in [fails : Nat, elapsed : Nat]
      <4>1. attempts[u][p] \in [fails : Nat, elapsed : Nat]
        BY <1>q DEF WorldType
      <4>2. Later(attempts[u][p].elapsed, LockoutWindow) \in Nat
        BY <2>a, <4>1
      <4>3. QED BY <4>1, <4>2
    <3>2. QED BY <3>1, <1>4, <1>q DEF Tick, WorldType
  <2>7. row' \in [Users -> [password : Passwords \cup {None}, fails : Nat, elapsed : Nat]]
    <3>1. ASSUME NEW u \in Users
          PROVE  [row[u] EXCEPT !.elapsed = Later(@, LockoutWindow)]
                   \in [password : Passwords \cup {None}, fails : Nat, elapsed : Nat]
      BY <1>q, <2>a DEF WorldType
    <3>2. QED BY <3>1, <1>4, <1>q DEF Tick, WorldType
  <2>8. QED BY <1>4, <1>q, <2>1, <2>5, <2>6, <2>7 DEF Tick, WorldType, TypeOK
<1>5. CASE UNCHANGED vars
  BY <1>5, <1>q DEF vars, registry, world, history, TypeOK, SlotsType, RegistryType, WorldType
<1>6. QED
  BY <1>1, <1>2, <1>3, <1>4, <1>5, ConnectBeforeProbeType, HostAnswerType,
     ConnectAfterProbeType DEF Next

(* Type correctness of the registry in every reachable state.              *)
THEOREM TypeCorrect == Spec => []TypeOK
BY TypeInitially, TypeStep, PTL DEF Spec

-----------------------------------------------------------------------------
(* Which actions write what.                                               *)

LEMMA Writers ==
  ASSUME [Next]_vars
  PROVE  /\ UNCHANGED <<accepted, rejections>> \/ \E r \in Requests : HostAnswer(r)
         /\ UNCHANGED lockout_streak
              \/ \E r \in Requests : ClearLockoutStreak(r) \/ BumpLockoutStreak(r)
         /\ UNCHANGED profile_refused \/ \E r \in Requests : RefuseProfile(r)
         /\ UNCHANGED sessions \/ Disconnect
              \/ \E r \in Requests : InsertSession(r) \/ DropChanged(r)
                                     \/ DropExpired(r) \/ DropInvalid(r)
         /\ UNCHANGED failures \/ Tick
              \/ \E r \in Requests : ClearExpired(r) \/ ClearFailures(r)
                                     \/ RecordAuthFailure(r)
<1>1. ASSUME NEW r \in Requests, ConnectBeforeProbe(r)
      PROVE  /\ UNCHANGED <<accepted, rejections, lockout_streak, profile_refused>>
             /\ UNCHANGED sessions \/ DropChanged(r) \/ DropExpired(r)
             /\ UNCHANGED failures \/ ClearExpired(r)
  BY <1>1 DEF ConnectBeforeProbe, Connect, Start, SyncHeaderPassword, DropChanged,
       Admit, CheckLockout, ClearExpired, CachedPassword, DropExpired, Lookup,
       registry, world, history
<1>2. ASSUME NEW r \in Requests, HostAnswer(r)
      PROVE  UNCHANGED registry
  BY <1>2 DEF HostAnswer, ProbeAccepted, ProbeRejected, ProbeFailed, CommandAnswered
<1>3. ASSUME NEW r \in Requests, ConnectAfterProbe(r)
      PROVE  /\ UNCHANGED <<accepted, rejections>>
             /\ UNCHANGED lockout_streak \/ ClearLockoutStreak(r) \/ BumpLockoutStreak(r)
             /\ UNCHANGED profile_refused \/ RefuseProfile(r)
             /\ UNCHANGED sessions \/ InsertSession(r) \/ DropInvalid(r)
             /\ UNCHANGED failures \/ ClearFailures(r) \/ RecordAuthFailure(r)
  BY <1>3 DEF ConnectAfterProbe, InsertSession, ClearFailures, ClearLockoutStreak,
       RecordAuthFailure, InvalidatePassword, DropInvalid, CheckThreshold,
       BumpLockoutStreak, RefuseProfile, registry, world, history
<1>4. ASSUME NEW r \in Requests, RunPs(r) \/ RunTransferCommand(r)
      PROVE  UNCHANGED <<registry, history>>
  BY <1>4 DEF RunPs, RunTransferCommand, TakeTarget, Start
<1>5. CASE Disconnect BY <1>5 DEF Disconnect, world, history
<1>6. CASE RotateAdPassword BY <1>6 DEF RotateAdPassword, registry, history
<1>7. CASE Tick BY <1>7 DEF Tick
<1>8. CASE UNCHANGED vars BY <1>8 DEF vars, registry, world, history
<1>9. QED BY <1>1, <1>2, <1>3, <1>4, <1>5, <1>6, <1>7, <1>8 DEF Next, registry, history

(* Which actions bring a call to the critical sections that matter below.  *)
LEMMA Entering ==
  ASSUME TypeOK, [Next]_vars, NEW s \in Requests, requests'[s] # requests[s]
  PROVE  /\ requests'[s].pc = "insert" => ProbeAccepted(s)
         /\ requests'[s].pc = "record" => ProbeRejected(s)
         /\ requests'[s].pc = "bump_streak" => CheckThreshold(s)
         /\ requests'[s].pc = "refuse" => BumpLockoutStreak(s)
<1> DEFINE watched == {"insert", "record", "bump_streak", "refuse"}
<1>q. SlotsType
  BY DEF TypeOK
<1>p. ASSUME NEW r \in Requests, NEW q, requests' = [requests EXCEPT ![r] = q]
      PROVE  r = s /\ requests'[s] = q
  BY <1>p, <1>q DEF SlotsType
<1>g. ASSUME NEW r \in Requests, NEW pc, Goto(r, pc)
      PROVE  r = s /\ requests'[s].pc = pc
  BY <1>g, <1>p, <1>q DEF Goto, SlotsType, SlotType, Request
<1>i. ASSUME NEW r \in Requests, Reply(r)
      PROVE  r = s /\ requests'[s].pc \notin watched
  BY <1>i, <1>p DEF Reply, Idle
<1>s. ASSUME NEW r \in Requests, NEW call, Start(r, call), call.pc \in {"sync", "command"}
      PROVE  requests'[s].pc \notin watched
  BY <1>s, <1>p DEF Start
<1>1. ASSUME NEW r \in Requests, ConnectBeforeProbe(r)
      PROVE  requests'[s].pc \notin watched
  <2>1. CASE Connect(r)
    <3>1. PICK u \in Users, h \in Hosts :
            \/ \E p \in Passwords \cup {None} :
                 Start(r, [Idle EXCEPT !.pc = "sync", !.user = u, !.host = h,
                                       !.password = p])
            \/ Start(r, [Idle EXCEPT !.pc = "sync", !.user = u, !.host = h,
                          !.origin = "profile", !.password = ProfilePassword[u]])
      BY <2>1, Zenon DEF Connect
    <3>2. ASSUME NEW p,
                 Start(r, [Idle EXCEPT !.pc = "sync", !.user = u, !.host = h,
                                       !.password = p])
          PROVE  requests'[s].pc \notin watched
      BY <3>2, <1>s DEF Idle
    <3>3. ASSUME NEW p,
                 Start(r, [Idle EXCEPT !.pc = "sync", !.user = u, !.host = h,
                                       !.origin = "profile", !.password = p])
          PROVE  requests'[s].pc \notin watched
      BY <3>3, <1>s DEF Idle
    <3>4. QED BY <3>1, <3>2, <3>3
  <2>2. CASE CheckLockout(r)
    <3>1. ASSUME NEW d, requests' = [requests EXCEPT ![r].pc = "cached_password",
                                                     ![r].digest = d]
          PROVE  requests'[s].pc \notin watched
      BY <3>1, <1>q DEF SlotsType, SlotType, Request
    <3>2. QED BY <2>2, <3>1, <1>g DEF CheckLockout
  <2>3. QED
    BY <1>1, <2>1, <2>2, <1>g, <1>i DEF ConnectBeforeProbe, SyncHeaderPassword,
       DropChanged, Admit, ClearExpired, CachedPassword, DropExpired, Lookup
<1>2. ASSUME NEW r \in Requests, HostAnswer(r)
      PROVE  \/ requests'[s].pc \notin watched
             \/ requests'[s].pc = "insert" /\ ProbeAccepted(s)
             \/ requests'[s].pc = "record" /\ ProbeRejected(s)
  BY <1>2, <1>g, <1>i DEF HostAnswer, ProbeAccepted, ProbeRejected, ProbeFailed,
     CommandAnswered
<1>3. ASSUME NEW r \in Requests, ConnectAfterProbe(r)
      PROVE  \/ requests'[s].pc \notin watched
             \/ requests'[s].pc = "bump_streak" /\ CheckThreshold(s)
             \/ requests'[s].pc = "refuse" /\ BumpLockoutStreak(s)
  <2>1. CASE CheckThreshold(r)
    BY <2>1, <1>g, <1>i DEF CheckThreshold
  <2>2. CASE BumpLockoutStreak(r)
    BY <2>2, <1>g, <1>i DEF BumpLockoutStreak
  <2>3. CASE InsertSession(r) \/ ClearFailures(r) \/ ClearLockoutStreak(r)
    BY <2>3, <1>g, <1>i DEF InsertSession, ClearFailures, ClearLockoutStreak
  <2>4. CASE RecordAuthFailure(r) \/ InvalidatePassword(r)
    BY <2>4, <1>g DEF RecordAuthFailure, InvalidatePassword
  <2>5. CASE DropInvalid(r) \/ RefuseProfile(r)
    BY <2>5, <1>g, <1>i DEF DropInvalid, RefuseProfile
  <2>6. QED BY <1>3, <2>1, <2>2, <2>3, <2>4, <2>5 DEF ConnectAfterProbe
<1>4. ASSUME NEW r \in Requests, RunPs(r) \/ RunTransferCommand(r)
      PROVE  requests'[s].pc \notin watched
  <2>1. PICK u \in Users, h \in Hosts : TakeTarget(r, u, h)
    BY <1>4 DEF RunPs, RunTransferCommand
  <2>2. QED BY <2>1, <1>s DEF TakeTarget, Idle
<1>5. ~Disconnect /\ ~RotateAdPassword /\ ~Tick /\ ~UNCHANGED vars
  BY DEF Disconnect, RotateAdPassword, Tick, vars
<1>6. QED BY <1>1, <1>2, <1>3, <1>4, <1>5 DEF Next

(* What Active Directory has accepted or rejected stays on record.         *)
LEMMA HistoryGrows ==
  ASSUME TypeOK, [Next]_vars, NEW u \in Users
  PROVE  /\ accepted[u] \subseteq accepted'[u]
         /\ \A p \in Passwords : rejections'[u][p] >= rejections[u][p]
<1>1. CASE UNCHANGED <<accepted, rejections>>
  BY <1>1 DEF TypeOK, WorldType
<1>2. ASSUME NEW r \in Requests, HostAnswer(r)
      PROVE  /\ accepted[u] \subseteq accepted'[u]
             /\ \A p \in Passwords : rejections'[u][p] >= rejections[u][p]
  <2>1. \/ UNCHANGED history
        \/ \E v, p : Accepted(v, p) \/ Connected(v, p)
        \/ \E v, p : Rejected(v, p)
    BY <1>2 DEF HostAnswer, ProbeAccepted, ProbeRejected, ProbeFailed,
       CommandAnswered, world
  <2>2. ASSUME NEW v, NEW p, Accepted(v, p) \/ Connected(v, p)
        PROVE  /\ accepted[u] \subseteq accepted'[u]
               /\ UNCHANGED rejections
    BY <2>2 DEF Accepted, Connected, TypeOK, WorldType
  <2>3. ASSUME NEW v, NEW p, Rejected(v, p)
        PROVE  /\ UNCHANGED accepted
               /\ \A o \in Passwords : rejections'[u][o] >= rejections[u][o]
    BY <2>3 DEF Rejected, TypeOK, WorldType
  <2>4. \A p \in Passwords : rejections[u][p] \in Nat
    BY DEF TypeOK, WorldType
  <2>5. QED BY <2>1, <2>2, <2>3, <2>4 DEF history
<1>3. QED BY <1>1, <1>2, Writers

-----------------------------------------------------------------------------
(* Sessions hold accepted passwords.                                       *)

(* The inductive invariant: a call about to insert its session carries a   *)
(* password that Active Directory accepted for its user.                   *)
LoggedOn ==
  \A r \in Requests : At(r, "insert") =>
    requests[r].password \in accepted[requests[r].user]

SessionsInv == TypeOK /\ LoggedOn /\ SessionsWereAccepted

LEMMA LoggedOnStep == TypeOK /\ LoggedOn /\ [Next]_vars => LoggedOn'
<1> SUFFICES ASSUME TypeOK, LoggedOn, [Next]_vars, NEW r \in Requests, At(r, "insert")'
             PROVE  (requests[r].password \in accepted[requests[r].user])'
  BY DEF LoggedOn
<1>t. SlotType(requests[r]) /\ SlotType(requests[r])'
  BY TypeStep DEF TypeOK, SlotsType
<1>1. CASE requests'[r] = requests[r]
  <2>1. At(r, "insert") /\ requests[r].user \in Users
    BY <1>1, <1>t DEF At, SlotType
  <2>2. QED BY <1>1, <2>1, HistoryGrows DEF LoggedOn
<1>2. CASE requests'[r] # requests[r]
  <2>1. ProbeAccepted(r)
    BY <1>2, Entering DEF At
  <2>2. requests[r].user \in Users /\ At(r, "probe")
    BY <2>1, <1>t DEF ProbeAccepted, At, SlotType
  <2>3. /\ requests'[r].user = requests[r].user
        /\ requests'[r].password = requests[r].password
    BY <2>1, <1>t DEF ProbeAccepted, Goto, TypeOK, SlotsType, SlotType, Request
  <2>4. requests[r].password \in accepted'[requests[r].user]
    BY <2>1, <2>2 DEF ProbeAccepted, Connected, TypeOK, WorldType
  <2>5. QED BY <2>3, <2>4
<1>3. QED BY <1>1, <1>2

LEMMA SessionsStep == SessionsInv /\ [Next]_vars => SessionsInv'
<1> SUFFICES ASSUME SessionsInv, [Next]_vars
             PROVE  SessionsWereAccepted'
  BY TypeStep, LoggedOnStep DEF SessionsInv
<1>t. TypeOK /\ RegistryType /\ SlotsType
  BY DEF SessionsInv, TypeOK
<1> SUFFICES ASSUME NEW u \in Users, NEW h \in Hosts, sessions'[u][h] # None
             PROVE  sessions'[u][h] \in accepted'[u]
  BY DEF SessionsWereAccepted
<1>1. CASE sessions'[u][h] = sessions[u][h]
  BY <1>1, <1>t, HistoryGrows DEF SessionsInv, SessionsWereAccepted
<1>2. ASSUME NEW r \in Requests, InsertSession(r), sessions'[u][h] # sessions[u][h]
      PROVE  sessions'[u][h] \in accepted'[u]
  <2>1. u = requests[r].user /\ sessions'[u][h] = requests[r].password
    BY <1>2, <1>t DEF InsertSession, RegistryType
  <2>2. QED BY <2>1, <1>2, <1>t, HistoryGrows DEF InsertSession, SessionsInv, LoggedOn
<1>3. CASE Disconnect
  <2>1. sessions'[u][h] \in {None, sessions[u][h]}
    BY <1>3, <1>t DEF Disconnect, RegistryType
  <2>2. QED BY <2>1, <1>1
<1>4. ASSUME NEW v, DropSessions(v)
      PROVE  sessions'[u][h] \in {None, sessions[u][h]}
  BY <1>4, <1>t DEF DropSessions, NoSessions, RegistryType
<1>5. QED
  BY <1>1, <1>2, <1>3, <1>4, Writers DEF DropChanged, DropExpired, DropInvalid

(* Every open session holds a password that Active Directory accepted for  *)
(* its own user, in every reachable state and however the calls interleave.*)
THEOREM SessionsAccepted == Spec => []SessionsWereAccepted
<1>1. Init => SessionsInv
  <2>1. Init => LoggedOn /\ SessionsWereAccepted
    BY DEF Init, LoggedOn, At, Idle, SessionsWereAccepted, NoSessions
  <2>2. QED BY <2>1, TypeInitially DEF SessionsInv
<1>2. SessionsInv => SessionsWereAccepted
  BY DEF SessionsInv
<1>3. QED BY <1>1, <1>2, SessionsStep, PTL DEF Spec

-----------------------------------------------------------------------------
(* The failure entry counts rejections, and a profile is refused only      *)
(* after a threshold of them.                                              *)

(* What the failure entry counts for a password: it counts one at a time.  *)
Counted(u, p) == IF failures[u].password_hash = p THEN failures[u].count ELSE 0

(* Rejected probes that are not counted yet.                               *)
Pending(u, p) == {r \in Requests : /\ At(r, "record")
                                   /\ requests[r].user = u
                                   /\ requests[r].password = p}

(* The inductive invariant: counted and still to be counted, together,     *)
(* never exceed what Active Directory rejected.                            *)
CountsBacked ==
  \A u \in Users, p \in Passwords :
    Counted(u, p) + Cardinality(Pending(u, p)) <= rejections[u][p]

Backed(u) == \E p \in Passwords : rejections[u][p] >= MaxAttempts

(* A call that is about to bump the streak or to refuse the profile has    *)
(* seen the threshold reached.                                             *)
ThresholdsBacked ==
  \A r \in Requests :
    At(r, "bump_streak") \/ At(r, "refuse") => Backed(requests[r].user)

CountInv == TypeOK /\ CountsBacked

RefusalInv == CountInv /\ ThresholdsBacked /\ NoRefusalBelowThreshold

LEMMA PendingFinite ==
  ASSUME NEW u, NEW p
  PROVE  IsFiniteSet(Pending(u, p)) /\ Cardinality(Pending(u, p)) \in Nat
<1>1. Pending(u, p) \in SUBSET Requests
  BY DEF Pending
<1>2. IsFiniteSet(Pending(u, p))
  BY <1>1, RequestsAssumption, FS_Subset
<1>3. QED BY <1>2, FS_CardinalityType

LEMMA CountedType ==
  ASSUME TypeOK, NEW u \in Users, NEW p
  PROVE  Counted(u, p) \in Nat
BY DEF Counted, TypeOK, RegistryType

(* The failure entry is right about its own password.                      *)
LEMMA CountsAreBacked == CountInv => CountedFailuresWereRejected
<1> SUFFICES ASSUME CountInv, NEW u \in Users, failures[u].count > 0
             PROVE  failures[u].count <= rejections[u][failures[u].password_hash]
  BY DEF CountedFailuresWereRejected
<1> DEFINE p == failures[u].password_hash
<1>1. p \in Passwords /\ failures[u].count \in Nat
  BY DEF CountInv, TypeOK, RegistryType
<1>2. Counted(u, p) = failures[u].count
  BY DEF Counted
<1>3. rejections[u][p] \in Nat
  BY <1>1 DEF CountInv, TypeOK, WorldType
<1>4. Counted(u, p) + Cardinality(Pending(u, p)) <= rejections[u][p]
  BY <1>1 DEF CountInv, CountsBacked
<1>5. QED BY <1>1, <1>2, <1>3, <1>4, PendingFinite

(* A step that neither rejects a probe nor counts one.                     *)
LEMMA OtherCounts ==
  ASSUME TypeOK, [Next]_vars, NEW u \in Users, NEW p \in Passwords,
         \A r \in Requests : ~ProbeRejected(r) /\ ~RecordAuthFailure(r)
  PROVE  /\ Counted(u, p)' <= Counted(u, p)
         /\ Pending(u, p)' \in SUBSET Pending(u, p)
<1>t. RegistryType
  BY DEF TypeOK
<1>1. CASE UNCHANGED failures
  <2>1. Counted(u, p)' = Counted(u, p)
    BY <1>1 DEF Counted
  <2>2. Counted(u, p)' <= Counted(u, p)
    BY <2>1, CountedType
  <2>3. QED BY <2>2, Entering DEF Pending, At
<1>2. CASE Tick
  <2>1. /\ failures'[u].count = failures[u].count
        /\ failures'[u].password_hash = failures[u].password_hash
    BY <1>2, <1>t DEF Tick, RegistryType
  <2>2. Counted(u, p)' = Counted(u, p)
    BY <2>1 DEF Counted
  <2>3. Counted(u, p)' <= Counted(u, p)
    BY <2>2, CountedType
  <2>4. QED BY <2>3, Entering DEF Pending, At
<1>3. ASSUME NEW r \in Requests, ClearExpired(r) \/ ClearFailures(r)
      PROVE  Counted(u, p)' <= Counted(u, p)
  <2>1. failures'[u] \in {failures[u], NoFailures}
    BY <1>3, <1>t DEF ClearExpired, ClearFailures, RegistryType
  <2>2. CASE failures'[u] = failures[u]
    <3>1. Counted(u, p)' = Counted(u, p)
      BY <2>2 DEF Counted
    <3>2. QED BY <3>1, CountedType
  <2>3. CASE failures'[u] = NoFailures
    <3>1. Counted(u, p)' = 0
      BY <2>3 DEF Counted, NoFailures
    <3>2. QED BY <3>1, CountedType
  <2>4. QED BY <2>1, <2>2, <2>3
<1>4. Pending(u, p)' \in SUBSET Pending(u, p)
  BY Entering DEF Pending, At
<1>5. QED BY <1>1, <1>2, <1>3, <1>4, Writers

(* record_auth_failure takes a rejection that is pending and counts it.    *)
LEMMA RecordCounts ==
  ASSUME TypeOK, NEW r \in Requests, RecordAuthFailure(r),
         NEW u \in Users, NEW p \in Passwords
  PROVE  /\ Pending(u, p)' = Pending(u, p) \ {r}
         /\ IF r \in Pending(u, p) THEN Counted(u, p)' = Counted(u, p) + 1
                                    ELSE Counted(u, p)' <= Counted(u, p)
<1>t. RegistryType /\ SlotsType /\ SlotType(requests[r])
  BY DEF TypeOK, SlotsType
<1>1. /\ requests'[r].pc = "invalidate"
      /\ \A s \in Requests \ {r} : requests'[s] = requests[s]
  BY <1>t DEF RecordAuthFailure, Goto, SlotsType, SlotType, Request
<1>2. Pending(u, p)' = Pending(u, p) \ {r}
  BY <1>1 DEF Pending, At
<1>3. At(r, "record")
  BY DEF RecordAuthFailure
<1>4. CASE requests[r].user # u
  <2>1. failures'[u] = failures[u]
    BY <1>4, <1>t DEF RecordAuthFailure, RegistryType
  <2>2. Counted(u, p)' = Counted(u, p)
    BY <2>1 DEF Counted
  <2>3. QED BY <1>2, <1>4, <2>2, CountedType DEF Pending
<1>5. CASE requests[r].user = u
  <2>1. /\ failures'[u].password_hash = requests[r].password
        /\ failures'[u].count = IF failures[u].password_hash = requests[r].password
                                  THEN failures[u].count + 1 ELSE 1
    BY <1>5, <1>t DEF RecordAuthFailure, RegistryType
  <2>2. CASE requests[r].password = p
    <3>1. r \in Pending(u, p)
      BY <1>3, <1>5, <2>2 DEF Pending
    <3>2. failures[u].count \in Nat
      BY <1>t DEF RegistryType
    <3>3. Counted(u, p)' = Counted(u, p) + 1
      BY <2>1, <2>2, <3>2 DEF Counted
    <3>4. QED BY <1>2, <3>1, <3>3
  <2>3. CASE requests[r].password # p
    <3>1. r \notin Pending(u, p)
      BY <2>3 DEF Pending
    <3>2. Counted(u, p)' = 0
      BY <2>1, <2>3 DEF Counted
    <3>3. QED BY <1>2, <3>1, <3>2, CountedType
  <2>4. QED BY <2>2, <2>3
<1>6. QED BY <1>4, <1>5

(* A rejected probe is one rejection more, and one more to be counted.     *)
LEMMA RejectionPends ==
  ASSUME TypeOK, NEW r \in Requests, ProbeRejected(r),
         NEW u \in Users, NEW p \in Passwords
  PROVE  /\ Counted(u, p)' = Counted(u, p)
         /\ r \notin Pending(u, p)
         /\ \/ /\ Pending(u, p)' = Pending(u, p) \cup {r}
               /\ rejections'[u][p] = rejections[u][p] + 1
            \/ /\ Pending(u, p)' = Pending(u, p)
               /\ rejections'[u][p] = rejections[u][p]
<1>t. SlotsType /\ SlotType(requests[r]) /\ WorldType
  BY DEF TypeOK, SlotsType
<1>1. At(r, "probe") /\ r \notin Pending(u, p)
  BY DEF ProbeRejected, Pending, At
<1>2. /\ requests'[r] = [requests[r] EXCEPT !.pc = "record"]
      /\ \A s \in Requests \ {r} : requests'[s] = requests[s]
  BY <1>t DEF ProbeRejected, Goto, SlotsType
<1>3. /\ requests'[r].pc = "record" /\ requests'[r].user = requests[r].user
      /\ requests'[r].password = requests[r].password
  BY <1>2, <1>t DEF SlotType, Request
<1>4. Counted(u, p)' = Counted(u, p)
  BY DEF ProbeRejected, registry, Counted
<1>5. rejections' = [rejections EXCEPT ![requests[r].user][requests[r].password] = @ + 1]
  BY DEF ProbeRejected, Rejected
<1>6. CASE requests[r].user = u /\ requests[r].password = p
  <2>1. Pending(u, p)' = Pending(u, p) \cup {r}
    BY <1>2, <1>3, <1>6 DEF Pending, At
  <2>2. rejections'[u][p] = rejections[u][p] + 1
    BY <1>5, <1>6, <1>t DEF WorldType
  <2>3. QED BY <1>1, <1>4, <2>1, <2>2
<1>7. CASE ~(requests[r].user = u /\ requests[r].password = p)
  <2>1. Pending(u, p)' = Pending(u, p)
    BY <1>1, <1>2, <1>3, <1>7 DEF Pending, At
  <2>2. rejections'[u][p] = rejections[u][p]
    BY <1>5, <1>7, <1>t DEF WorldType
  <2>3. QED BY <1>1, <1>4, <2>1, <2>2
<1>8. QED BY <1>6, <1>7

LEMMA CountStep == CountInv /\ [Next]_vars => CountInv'
<1> SUFFICES ASSUME CountInv, [Next]_vars, NEW u \in Users, NEW p \in Passwords
             PROVE  (Counted(u, p) + Cardinality(Pending(u, p)) <= rejections[u][p])'
  BY TypeStep DEF CountInv, CountsBacked
<1> DEFINE n == Cardinality(Pending(u, p))
           n2 == Cardinality(Pending(u, p)')
<1>t. TypeOK /\ TypeOK'
  BY TypeStep DEF CountInv
<1>i. Counted(u, p) + n <= rejections[u][p]
  BY DEF CountInv, CountsBacked
<1>n. /\ Counted(u, p) \in Nat /\ Counted(u, p)' \in Nat
      /\ n \in Nat /\ IsFiniteSet(Pending(u, p))
      /\ rejections[u][p] \in Nat /\ rejections'[u][p] \in Nat
  <2>1. Counted(u, p) \in Nat
    BY <1>t, CountedType
  <2>2. Counted(u, p)' \in Nat
    BY <1>t DEF Counted, TypeOK, RegistryType
  <2>3. QED BY <1>t, <2>1, <2>2, PendingFinite DEF TypeOK, WorldType
<1>g. rejections'[u][p] >= rejections[u][p]
  BY <1>t, HistoryGrows
<1>1. ASSUME NEW r \in Requests, RecordAuthFailure(r)
      PROVE  Counted(u, p)' + n2 <= rejections'[u][p]
  <2>1. /\ Pending(u, p)' = Pending(u, p) \ {r}
        /\ IF r \in Pending(u, p) THEN Counted(u, p)' = Counted(u, p) + 1
                                   ELSE Counted(u, p)' <= Counted(u, p)
    BY <1>1, <1>t, RecordCounts
  <2>2. n2 = IF r \in Pending(u, p) THEN n - 1 ELSE n
    BY <2>1, <1>n, FS_RemoveElement
  <2>3. QED BY <2>1, <2>2, <1>i, <1>n, <1>g
<1>2. ASSUME NEW r \in Requests, ProbeRejected(r)
      PROVE  Counted(u, p)' + n2 <= rejections'[u][p]
  <2>1. /\ Counted(u, p)' = Counted(u, p)
        /\ r \notin Pending(u, p)
        /\ \/ /\ Pending(u, p)' = Pending(u, p) \cup {r}
              /\ rejections'[u][p] = rejections[u][p] + 1
           \/ /\ Pending(u, p)' = Pending(u, p)
              /\ rejections'[u][p] = rejections[u][p]
    BY <1>2, <1>t, RejectionPends
  <2>2. Cardinality(Pending(u, p) \cup {r}) = n + 1
    BY <2>1, <1>n, FS_AddElement
  <2>3. CASE rejections'[u][p] = rejections[u][p] + 1 /\ n2 = n + 1
    BY <2>1, <2>3, <1>i, <1>n
  <2>4. CASE rejections'[u][p] = rejections[u][p] /\ n2 = n
    BY <2>1, <2>4, <1>i, <1>n
  <2>5. QED BY <2>1, <2>2, <2>3, <2>4
<1>3. CASE \A r \in Requests : ~ProbeRejected(r) /\ ~RecordAuthFailure(r)
  <2>1. /\ Counted(u, p)' <= Counted(u, p)
        /\ Pending(u, p)' \in SUBSET Pending(u, p)
    BY <1>3, <1>t, OtherCounts
  <2>2. n2 \in Nat /\ n2 <= n
    BY <2>1, <1>n, FS_Subset, FS_CardinalityType
  <2>3. QED BY <2>1, <2>2, <1>i, <1>n, <1>g
<1>4. Counted(u, p)' + n2 <= rejections'[u][p]
  BY <1>1, <1>2, <1>3
<1>5. QED BY <1>4

LEMMA CountInitially == Init => CountInv
<1> SUFFICES ASSUME Init, NEW u \in Users, NEW p \in Passwords
             PROVE  Counted(u, p) + Cardinality(Pending(u, p)) <= rejections[u][p]
  BY TypeInitially DEF CountInv, CountsBacked
<1>1. Pending(u, p) = {} /\ rejections[u][p] = 0
  BY DEF Init, Pending, At, Idle
<1>2. Counted(u, p) = 0
  BY DEF Init, Counted, NoFailures
<1>3. QED BY <1>1, <1>2, FS_EmptySet

(* The failure entry never counts more than Active Directory rejected.     *)
THEOREM CountsCorrect == Spec => []CountedFailuresWereRejected
BY CountInitially, CountStep, CountsAreBacked, PTL DEF Spec

LEMMA RefusalStep == RefusalInv /\ [Next]_vars => RefusalInv'
<1> SUFFICES ASSUME RefusalInv, [Next]_vars
             PROVE  ThresholdsBacked' /\ NoRefusalBelowThreshold'
  BY CountStep DEF RefusalInv
<1>t. TypeOK /\ TypeOK'
  BY TypeStep DEF RefusalInv, CountInv
<1>b. ASSUME NEW u \in Users, Backed(u) PROVE Backed(u)'
  <2>1. PICK p \in Passwords : rejections[u][p] >= MaxAttempts
    BY <1>b DEF Backed
  <2>2. rejections'[u][p] >= rejections[u][p]
    BY <1>t, HistoryGrows
  <2>3. rejections[u][p] \in Nat /\ rejections'[u][p] \in Nat
    BY <1>t DEF TypeOK, WorldType
  <2>4. rejections'[u][p] >= MaxAttempts
    BY <2>1, <2>2, <2>3, BoundsAssumption
  <2>5. QED BY <2>4 DEF Backed
<1>1. ThresholdsBacked'
  <2> SUFFICES ASSUME NEW r \in Requests, (At(r, "bump_streak") \/ At(r, "refuse"))'
               PROVE  Backed(requests[r].user)'
    BY DEF ThresholdsBacked
  <2>t. SlotType(requests[r]) /\ SlotType(requests[r])'
    BY <1>t DEF TypeOK, SlotsType
  <2>1. CASE requests'[r] = requests[r]
    <3>1. At(r, "bump_streak") \/ At(r, "refuse")
      BY <2>1 DEF At
    <3>2. Backed(requests[r].user) /\ requests[r].user \in Users
      BY <3>1, <2>t DEF RefusalInv, ThresholdsBacked, At, SlotType
    <3>3. QED BY <3>2, <1>b, <2>1 DEF Backed
  <2>2. CASE requests'[r] # requests[r]
    <3>1. CheckThreshold(r) \/ BumpLockoutStreak(r)
      BY <2>2, <1>t, Entering DEF At
    <3>2. requests[r].user \in Users
      BY <3>1, <2>t DEF CheckThreshold, BumpLockoutStreak, At, SlotType
    <3>3. requests'[r].user = requests[r].user
      <4>1. Goto(r, requests'[r].pc)
        BY <3>1, <2>t, <1>t DEF CheckThreshold, BumpLockoutStreak, Goto, Reply, Idle, At,
           TypeOK, SlotsType, SlotType, Request
      <4>2. QED BY <4>1, <2>t, <1>t DEF Goto, TypeOK, SlotsType, SlotType, Request
    <3>4. Backed(requests[r].user)
      <4>1. CASE BumpLockoutStreak(r)
        BY <4>1 DEF BumpLockoutStreak, RefusalInv, ThresholdsBacked
      <4>2. CASE CheckThreshold(r)
        <5> DEFINE u == requests[r].user
        <5>0. ~Reply(r)
          BY <1>t DEF Reply, Idle, At, TypeOK, SlotsType
        <5>1. failures[u].count >= MaxAttempts
          BY <4>2, <5>0 DEF CheckThreshold, ThresholdReached
        <5>2. failures[u].count \in Nat \ {0} /\ failures[u].password_hash \in Passwords
          BY <5>1, <3>2, <1>t, BoundsAssumption DEF TypeOK, RegistryType
        <5>3. failures[u].count <= rejections[u][failures[u].password_hash]
          BY <5>2, <3>2, CountsAreBacked DEF RefusalInv, CountedFailuresWereRejected
        <5>4. rejections[u][failures[u].password_hash] \in Nat
          BY <5>2, <3>2, <1>t DEF TypeOK, WorldType
        <5>5. rejections[u][failures[u].password_hash] >= MaxAttempts
          BY <5>1, <5>2, <5>3, <5>4, BoundsAssumption
        <5>6. QED BY <5>2, <5>5 DEF Backed
      <4>3. QED BY <3>1, <4>1, <4>2
    <3>5. QED BY <3>2, <3>3, <3>4, <1>b DEF Backed
  <2>3. QED BY <2>1, <2>2
<1>2. NoRefusalBelowThreshold'
  <2> SUFFICES ASSUME NEW u \in profile_refused' PROVE Backed(u)'
    BY DEF NoRefusalBelowThreshold, Backed
  <2>1. CASE u \in profile_refused
    <3>1. u \in Users /\ Backed(u)
      BY <2>1, <1>t DEF TypeOK, RegistryType, RefusalInv, NoRefusalBelowThreshold, Backed
    <3>2. QED BY <3>1, <1>b
  <2>2. CASE u \notin profile_refused
    <3>1. PICK r \in Requests : RefuseProfile(r) /\ u = requests[r].user
      BY <2>2, Writers DEF RefuseProfile
    <3>2. u \in Users /\ Backed(u)
      BY <3>1, <1>t DEF RefuseProfile, At, RefusalInv, ThresholdsBacked, TypeOK,
         SlotsType, SlotType
    <3>3. QED BY <3>2, <1>b
  <2>3. QED BY <2>1, <2>2
<1>3. QED BY <1>1, <1>2

(* A profile is refused only after some password of its user was rejected  *)
(* as often as the failure threshold.                                      *)
THEOREM RefusalCorrect == Spec => []NoRefusalBelowThreshold
<1>1. Init => RefusalInv
  <2>1. Init => ThresholdsBacked /\ NoRefusalBelowThreshold
    BY DEF Init, ThresholdsBacked, At, Idle, NoRefusalBelowThreshold
  <2>2. QED BY <2>1, CountInitially DEF RefusalInv
<1>2. RefusalInv => NoRefusalBelowThreshold
  BY DEF RefusalInv
<1>3. QED BY <1>1, <1>2, RefusalStep, PTL DEF Spec

-----------------------------------------------------------------------------
(* A step of one user leaves the other users alone.                        *)

(* Only the entry of w may change.                                         *)
OnlyEntry(w) == \A v \in Users \ {w} : Entry(v)' = Entry(v)

LEMMA OneEntry == TypeOK /\ [Next]_vars => \E w : OnlyEntry(w)
<1> SUFFICES ASSUME TypeOK, [Next]_vars PROVE \E w : OnlyEntry(w)
  OBVIOUS
<1>t. RegistryType
  BY DEF TypeOK
<1>u. ASSUME UNCHANGED registry PROVE \E w : OnlyEntry(w)
  BY <1>u DEF registry, OnlyEntry, Entry
<1>1. ASSUME NEW r \in Requests, ConnectBeforeProbe(r)
      PROVE  \E w : OnlyEntry(w)
  <2> DEFINE w == requests[r].user
  <2>1. CASE Connect(r) \/ Admit(r) \/ CheckLockout(r) \/ Lookup(r)
    BY <2>1, <1>u DEF Connect, Start, Admit, CheckLockout, Lookup
  <2>2. CASE SyncHeaderPassword(r) \/ CachedPassword(r)
    <3>1. \A v \in Users \ {w} : passwords'[v] = passwords[v]
      BY <2>2, <1>t DEF SyncHeaderPassword, CachedPassword, RegistryType
    <3>2. UNCHANGED <<failures, lockout_streak, profile_refused, sessions>>
      BY <2>2 DEF SyncHeaderPassword, CachedPassword
    <3>3. QED BY <3>1, <3>2 DEF OnlyEntry, Entry
  <2>3. CASE DropChanged(r) \/ DropExpired(r)
    BY <2>3, <1>t DEF DropChanged, DropExpired, DropSessions, RegistryType, OnlyEntry, Entry
  <2>4. CASE ClearExpired(r)
    BY <2>4, <1>t DEF ClearExpired, RegistryType, OnlyEntry, Entry
  <2>5. QED BY <1>1, <2>1, <2>2, <2>3, <2>4 DEF ConnectBeforeProbe
<1>2. ASSUME NEW r \in Requests, HostAnswer(r) \/ RunPs(r) \/ RunTransferCommand(r)
      PROVE  \E w : OnlyEntry(w)
  BY <1>2, <1>u DEF HostAnswer, ProbeAccepted, ProbeRejected, ProbeFailed,
     CommandAnswered, RunPs, RunTransferCommand, TakeTarget, Start
<1>3. ASSUME NEW r \in Requests, ConnectAfterProbe(r)
      PROVE  \E w : OnlyEntry(w)
  <2> DEFINE w == requests[r].user
  <2>1. CASE InsertSession(r) \/ DropInvalid(r)
    BY <2>1, <1>t DEF InsertSession, DropInvalid, DropSessions, RegistryType, OnlyEntry, Entry
  <2>2. CASE ClearFailures(r) \/ RecordAuthFailure(r)
    <3>1. \A v \in Users \ {w} : failures'[v] = failures[v]
      BY <2>2, <1>t DEF ClearFailures, RecordAuthFailure, RegistryType
    <3>2. UNCHANGED <<passwords, lockout_streak, profile_refused, sessions>>
      BY <2>2 DEF ClearFailures, RecordAuthFailure
    <3>3. QED BY <3>1, <3>2 DEF OnlyEntry, Entry
  <2>3. CASE ClearLockoutStreak(r) \/ BumpLockoutStreak(r)
    BY <2>3, <1>t DEF ClearLockoutStreak, BumpLockoutStreak, RegistryType, OnlyEntry, Entry
  <2>4. CASE InvalidatePassword(r)
    BY <2>4, <1>t DEF InvalidatePassword, RegistryType, OnlyEntry, Entry
  <2>5. CASE CheckThreshold(r)
    BY <2>5, <1>u DEF CheckThreshold
  <2>6. CASE RefuseProfile(r)
    BY <2>6 DEF RefuseProfile, OnlyEntry, Entry
  <2>7. QED BY <1>3, <2>1, <2>2, <2>3, <2>4, <2>5, <2>6 DEF ConnectAfterProbe
<1>4. CASE Disconnect
  <2>1. PICK w \in Users, h \in Hosts :
          /\ sessions' = [sessions EXCEPT ![w][h] = None]
          /\ UNCHANGED <<passwords, failures, lockout_streak, profile_refused>>
    BY <1>4 DEF Disconnect
  <2>2. OnlyEntry(w)
    BY <2>1, <1>t DEF RegistryType, OnlyEntry, Entry
  <2>3. QED BY <2>2
<1>5. CASE RotateAdPassword \/ UNCHANGED vars
  BY <1>5, <1>u DEF RotateAdPassword, vars
<1>6. CASE Tick
  <2>1. \A v \in Users : /\ passwords'[v].value = passwords[v].value
                         /\ failures'[v].password_hash = failures[v].password_hash
                         /\ failures'[v].count = failures[v].count
    BY <1>6, <1>t DEF Tick, RegistryType
  <2>2. UNCHANGED <<lockout_streak, profile_refused, sessions>>
    BY <1>6 DEF Tick
  <2>3. QED BY <2>1, <2>2 DEF OnlyEntry, Entry
<1>7. QED BY <1>1, <1>2, <1>3, <1>4, <1>5, <1>6 DEF Next

(* Per-user isolation: no step changes the entries of two users.           *)
THEOREM Isolation == Spec => UserIsolation
<1> DEFINE A == \A u \in Users : Entry(u)' # Entry(u) =>
                 \A v \in Users \ {u} : Entry(v)' = Entry(v)
<1>1. TypeOK /\ [Next]_vars => [A]_vars
  BY OneEntry DEF OnlyEntry
<1>2. QED BY <1>1, TypeCorrect, PTL DEF Spec, UserIsolation

-----------------------------------------------------------------------------
(* A client that waits for every answer: one call at a time, and no clock  *)
(* moves between its critical sections.                                    *)

Serial == ~SlowSections /\ \A r, s \in Requests : r = s

(* What the control operators do to the call that moves.                   *)
LEMMA Moves ==
  ASSUME SlotsType, NEW r \in Requests, NEW pc, Goto(r, pc)
  PROVE  /\ requests'[r].pc = pc
         /\ requests'[r].user = requests[r].user
         /\ requests'[r].host = requests[r].host
         /\ requests'[r].origin = requests[r].origin
         /\ requests'[r].password = requests[r].password
         /\ requests'[r].digest = requests[r].digest
<1>1. requests'[r] = [requests[r] EXCEPT !.pc = pc]
  BY DEF SlotsType, Goto
<1>2. requests[r] \in Request
  BY DEF SlotsType, SlotType
<1>3. QED BY <1>1, <1>2 DEF Request

LEMMA Rests ==
  ASSUME SlotsType, NEW r \in Requests, Reply(r)
  PROVE  requests'[r] = Idle /\ requests'[r].pc = "idle"
BY DEF SlotsType, Reply, Idle

LEMMA Starts ==
  ASSUME SlotsType, NEW r \in Requests, NEW call, Start(r, call)
  PROVE  /\ requests[r].pc = "idle"
         /\ requests'[r] = call
         /\ UNCHANGED <<registry, valid, rotations, history>>
BY DEF SlotsType, Start, At

(* A connect begins with its header password, or with that of the profile. *)
LEMMA Begins ==
  ASSUME SlotsType, NEW r \in Requests, Connect(r)
  PROVE  /\ requests[r].pc = "idle"
         /\ requests'[r].pc = "sync"
         /\ requests'[r].user \in Users
         /\ requests'[r].origin = "profile" =>
              requests'[r].password = ProfilePassword[requests'[r].user]
         /\ UNCHANGED <<registry, valid, rotations, history>>
<1>1. PICK u \in Users, h \in Hosts :
        \/ \E p \in Passwords \cup {None} :
             Start(r, [Idle EXCEPT !.pc = "sync", !.user = u, !.host = h,
                                   !.password = p])
        \/ Start(r, [Idle EXCEPT !.pc = "sync", !.user = u, !.host = h,
                      !.origin = "profile", !.password = ProfilePassword[u]])
  BY Zenon DEF Connect
<1>2. CASE Start(r, [Idle EXCEPT !.pc = "sync", !.user = u, !.host = h,
                      !.origin = "profile", !.password = ProfilePassword[u]])
  <2> DEFINE call == [Idle EXCEPT !.pc = "sync", !.user = u, !.host = h,
                      !.origin = "profile", !.password = ProfilePassword[u]]
  <2>1. /\ call.pc = "sync" /\ call.user = u /\ call.origin = "profile"
        /\ call.password = ProfilePassword[u]
    BY DEF Idle
  <2>2. Start(r, call)
    BY <1>2
  <2> HIDE DEF call
  <2>3. QED BY <2>1, <2>2, Starts
<1>3. ASSUME NEW p \in Passwords \cup {None},
             Start(r, [Idle EXCEPT !.pc = "sync", !.user = u, !.host = h,
                                   !.password = p])
      PROVE  /\ requests[r].pc = "idle"
             /\ requests'[r].pc = "sync"
             /\ requests'[r].user = u
             /\ requests'[r].origin = "headers"
             /\ UNCHANGED <<registry, valid, rotations, history>>
  <2> DEFINE call == [Idle EXCEPT !.pc = "sync", !.user = u, !.host = h,
                                  !.password = p]
  <2>1. call.pc = "sync" /\ call.user = u /\ call.origin = "headers"
    BY DEF Idle
  <2>2. Start(r, call)
    BY <1>3
  <2> HIDE DEF call
  <2>3. QED BY <2>1, <2>2, Starts
<1>4. QED BY <1>1, <1>2, <1>3

(* A command begins with the password of its session.                      *)
LEMMA Takes ==
  ASSUME SlotsType, NEW r \in Requests, RunPs(r) \/ RunTransferCommand(r)
  PROVE  /\ requests[r].pc = "idle"
         /\ requests'[r].pc = "command"
         /\ requests'[r].origin = "headers"
         /\ requests'[r].user \in Users
         /\ \E h \in Hosts : /\ requests'[r].password = sessions[requests'[r].user][h]
                             /\ sessions[requests'[r].user][h] # None
         /\ UNCHANGED <<registry, valid, rotations, history>>
<1>1. PICK u \in Users, h \in Hosts : TakeTarget(r, u, h)
  BY DEF RunPs, RunTransferCommand
<1>2. requests'[r] = [Idle EXCEPT !.pc = "command", !.user = u, !.host = h,
                                  !.password = sessions[u][h]]
  BY <1>1, Starts DEF TakeTarget
<1>3. /\ requests'[r].pc = "command" /\ requests'[r].user = u
      /\ requests'[r].origin = "headers"
      /\ requests'[r].password = sessions[u][h]
  BY <1>2 DEF Idle
<1>4. QED BY <1>1, <1>3, Starts DEF TakeTarget

(* The lockout check that goes on to the cached password.                  *)
LEMMA Looks ==
  ASSUME SlotsType, NEW r \in Requests, CheckLockout(r)
  PROVE  /\ requests'[r].user = requests[r].user
         /\ requests'[r].password = requests[r].password
         /\ requests'[r].origin = requests[r].origin
         /\ \/ requests'[r].pc = "lookup" /\ ~ThresholdReached(requests[r].user)
            \/ /\ requests'[r].pc = "clear_expired"
               /\ ThresholdReached(requests[r].user) /\ WindowOver(requests[r].user)
            \/ /\ requests'[r].pc = "cached_password"
               /\ ThresholdReached(requests[r].user)
               /\ requests'[r].digest = failures[requests[r].user].password_hash
<1> DEFINE d == failures[requests[r].user].password_hash
<1>1. CASE requests' = [requests EXCEPT ![r].pc = "cached_password", ![r].digest = d]
  <2>1. requests'[r] = [requests[r] EXCEPT !.pc = "cached_password", !.digest = d]
    BY <1>1 DEF SlotsType
  <2>2. requests[r] \in Request
    BY DEF SlotsType, SlotType
  <2>3. /\ requests'[r].pc = "cached_password" /\ requests'[r].digest = d
        /\ requests'[r].user = requests[r].user
        /\ requests'[r].password = requests[r].password
        /\ requests'[r].origin = requests[r].origin
    BY <2>1, <2>2 DEF Request
  <2>4. QED BY <2>3, <1>1, Moves DEF CheckLockout
<1>2. QED BY <1>1, Moves DEF CheckLockout

-----------------------------------------------------------------------------
(* A serial client: every session uses the password of the cache.          *)

(* A call on its way to the lookup that came with a password.              *)
Carries(q) ==
  \/ q.pc \in {"drop_changed", "check_lockout", "clear_expired",
               "cached_password", "lookup"}
  \/ q.pc = "admit" /\ q.password # None

(* The cache holds the password of the call, fresh from its use, so the    *)
(* password never expires under a call.                                    *)
CacheHeld(r) ==
  LET q == requests[r]
      c == passwords[q.user]
  IN /\ q.pc # "drop_expired"
     /\ Carries(q) \/ q.pc \in {"probe", "insert"} => c.value = q.password
     /\ Carries(q) => c.idle = 0

(* A call is about to drop the sessions of the user.                       *)
Dropping(u) ==
  \E r \in Requests : /\ requests[r].pc \in {"drop_changed", "drop_invalid"}
                      /\ requests[r].user = u

Follows(u) ==
  Dropping(u) \/ \A h \in Hosts : sessions[u][h] \in {None, passwords[u].value}

CacheInv ==
  /\ TypeOK
  /\ \A r \in Requests : CacheHeld(r)
  /\ \A u \in Users : Follows(u)

(* With one call at a time only the call that moves may be dropping.       *)
LEMMA OneDropping ==
  ASSUME Serial, NEW r \in Requests, NEW u
  PROVE  /\ Dropping(u) <=> /\ requests[r].pc \in {"drop_changed", "drop_invalid"}
                            /\ requests[r].user = u
         /\ Dropping(u)' <=> /\ requests'[r].pc \in {"drop_changed", "drop_invalid"}
                             /\ requests'[r].user = u
BY DEF Serial, Dropping

(* A step that leaves the sessions and the cached values alone and neither *)
(* comes from a drop nor goes to one.                                      *)
LEMMA FollowsOn ==
  ASSUME Serial, NEW r \in Requests, NEW u \in Users, Follows(u),
         requests[r].pc \notin {"drop_changed", "drop_invalid"},
         sessions'[u] = sessions[u], passwords'[u].value = passwords[u].value
  PROVE  Follows(u)'
BY OneDropping DEF Follows

(* After a drop there is no session left that could differ.                *)
LEMMA FollowsDrop ==
  ASSUME Serial, CacheInv, NEW r \in Requests, NEW u \in Users,
         DropSessions(requests[r].user), UNCHANGED passwords
  PROVE  Follows(u)'
<1>t. RegistryType
  BY DEF CacheInv, TypeOK
<1>1. CASE u = requests[r].user
  <2>1. \A h \in Hosts : sessions'[u][h] = None
    BY <1>1, <1>t DEF DropSessions, NoSessions, RegistryType
  <2>2. QED BY <2>1 DEF Follows
<1>2. CASE u # requests[r].user
  <2>1. sessions'[u] = sessions[u]
    BY <1>2, <1>t DEF DropSessions, RegistryType
  <2>2. ~Dropping(u)
    BY <1>2, OneDropping
  <2>3. \A h \in Hosts : sessions[u][h] \in {None, passwords[u].value}
    BY <2>2 DEF CacheInv, Follows
  <2>4. QED BY <2>1, <2>3 DEF Follows
<1>3. QED BY <1>1, <1>2

LEMMA CacheBeforeProbe ==
  ASSUME Serial, CacheInv, NEW r \in Requests, ConnectBeforeProbe(r)
  PROVE  CacheHeld(r)' /\ \A u \in Users : Follows(u)'
<1> DEFINE q == requests[r]
<1>t. RegistryType /\ SlotsType /\ SlotType(q)
  BY DEF CacheInv, TypeOK, SlotsType
<1>h. CacheHeld(r) /\ \A u \in Users : Follows(u)
  BY DEF CacheInv
<1>1. CASE Connect(r)
  <2>1. CacheHeld(r)'
    BY <1>1, <1>t, Begins DEF CacheHeld, Carries
  <2>2. QED BY <1>1, <2>1, <1>t, <1>h, Begins, FollowsOn DEF registry
<1>2. CASE SyncHeaderPassword(r)
  <2>u. q.pc = "sync" /\ q.user \in Users
    BY <1>2, <1>t DEF SyncHeaderPassword, At, SlotType
  <2>1. CASE q.password = None
    <3>1. CacheHeld(r)'
      BY <1>2, <1>t, <2>1, Moves DEF SyncHeaderPassword, CacheHeld, Carries
    <3>2. QED BY <1>2, <2>u, <2>1, <3>1, <1>h, FollowsOn DEF SyncHeaderPassword
  <2>2. CASE q.password # None
    <3>1. /\ passwords' = [passwords EXCEPT ![q.user] = [value |-> q.password, idle |-> 0]]
          /\ UNCHANGED sessions
          /\ requests'[r].user = q.user /\ requests'[r].password = q.password
          /\ requests'[r].pc = IF passwords[q.user].value \notin {None, q.password}
                                 THEN "drop_changed" ELSE "admit"
      BY <1>2, <1>t, <2>2, Moves DEF SyncHeaderPassword
    <3>2. CacheHeld(r)'
      BY <3>1, <2>u, <1>t DEF CacheHeld, RegistryType
    <3>3. ASSUME NEW u \in Users PROVE Follows(u)'
      <4>1. CASE u # q.user
        BY <4>1, <3>1, <2>u, <1>t, <1>h, FollowsOn DEF RegistryType
      <4>2. CASE u = q.user /\ passwords[u].value \notin {None, q.password}
        BY <4>2, <3>1, OneDropping DEF Follows
      <4>3. CASE u = q.user /\ passwords[u].value \in {None, q.password}
        <5>1. \A h \in Hosts : sessions[u][h] \in {None, passwords[u].value}
          BY <2>u, <1>h, OneDropping DEF Follows
        <5>2. passwords'[u].value = q.password
          BY <4>3, <3>1, <1>t DEF RegistryType
        <5>3. QED BY <4>3, <5>1, <5>2, <3>1 DEF Follows
      <4>4. QED BY <4>1, <4>2, <4>3
    <3>4. QED BY <3>2, <3>3
  <2>3. QED BY <2>1, <2>2
<1>3. CASE DropChanged(r)
  <2>1. CacheHeld(r)'
    BY <1>3, <1>t, <1>h, Moves DEF DropChanged, At, CacheHeld, Carries
  <2>2. QED BY <1>3, <2>1, FollowsDrop DEF DropChanged
<1>4. CASE Admit(r)
  <2>1. CacheHeld(r)'
    BY <1>4, <1>t, <1>h, Moves, Rests DEF Admit, At, CacheHeld, Carries, registry
  <2>2. QED BY <1>4, <2>1, <1>h, FollowsOn DEF Admit, At, registry
<1>5. CASE CheckLockout(r)
  <2>1. q.pc = "check_lockout" /\ UNCHANGED registry
    BY <1>5 DEF CheckLockout, At
  <2>2. CacheHeld(r)'
    BY <1>5, <2>1, <1>t, <1>h, Looks DEF CacheHeld, Carries, registry
  <2>3. QED BY <2>1, <2>2, <1>h, FollowsOn DEF registry
<1>6. CASE ClearExpired(r)
  <2>1. CacheHeld(r)'
    BY <1>6, <1>t, <1>h, Moves DEF ClearExpired, At, CacheHeld, Carries
  <2>2. QED BY <1>6, <2>1, <1>h, FollowsOn DEF ClearExpired, At
<1>7. CASE CachedPassword(r)
  <2>1. /\ q.pc = "cached_password" /\ q.user \in Users /\ q.password \in Passwords
        /\ UNCHANGED sessions
    BY <1>7, <1>t DEF CachedPassword, At, SlotType
  <2>2. passwords[q.user] = [value |-> q.password, idle |-> 0]
    BY <2>1, <1>t, <1>h DEF CacheHeld, Carries, RegistryType
  <2>3. ~IsExpired(q.user) /\ q.password # None
    BY <2>1, <2>2, BoundsAssumption, NoneAssumption DEF IsExpired
  <2>4. /\ passwords' = [passwords EXCEPT ![q.user].idle = 0]
        /\ Reply(r) \/ Goto(r, "lookup")
    BY <1>7, <2>2, <2>3 DEF CachedPassword
  <2>5. \A u \in Users : passwords'[u].value = passwords[u].value
    BY <2>4, <1>t DEF RegistryType
  <2>6. passwords'[q.user].idle = 0
    BY <2>1, <2>4, <1>t DEF RegistryType
  <2>7. CacheHeld(r)'
    BY <2>1, <2>2, <2>4, <2>5, <2>6, <1>t, Moves, Rests DEF CacheHeld, Carries
  <2>8. QED BY <2>1, <2>5, <2>7, <1>h, FollowsOn
<1>8. CASE DropExpired(r)
  BY <1>8, <1>h DEF DropExpired, At, CacheHeld
<1>9. CASE Lookup(r)
  <2>1. CacheHeld(r)'
    BY <1>9, <1>t, <1>h, Moves, Rests DEF Lookup, At, CacheHeld, Carries, registry
  <2>2. QED BY <1>9, <2>1, <1>h, FollowsOn DEF Lookup, At, registry
<1>10. QED BY <1>1, <1>2, <1>3, <1>4, <1>5, <1>6, <1>7, <1>8, <1>9 DEF ConnectBeforeProbe

LEMMA CacheHostAnswer ==
  ASSUME Serial, CacheInv, NEW r \in Requests, HostAnswer(r)
  PROVE  CacheHeld(r)' /\ \A u \in Users : Follows(u)'
<1>t. SlotsType
  BY DEF CacheInv, TypeOK
<1>h. CacheHeld(r) /\ \A u \in Users : Follows(u)
  BY DEF CacheInv
<1>1. requests[r].pc \in {"probe", "command"} /\ UNCHANGED registry
  BY DEF HostAnswer, ProbeAccepted, ProbeRejected, ProbeFailed, CommandAnswered, At
<1>2. \/ requests'[r].pc \in {"idle", "record"}
      \/ requests[r].pc = "probe" /\ Goto(r, "insert")
  BY <1>t, Moves, Rests DEF HostAnswer, ProbeAccepted, ProbeRejected, ProbeFailed,
     CommandAnswered, At
<1>3. CacheHeld(r)'
  BY <1>1, <1>2, <1>t, <1>h, Moves DEF CacheHeld, Carries, registry
<1>4. QED BY <1>1, <1>3, <1>h, FollowsOn DEF registry

LEMMA CacheAfterProbe ==
  ASSUME Serial, CacheInv, NEW r \in Requests, ConnectAfterProbe(r)
  PROVE  CacheHeld(r)' /\ \A u \in Users : Follows(u)'
<1> DEFINE q == requests[r]
           after == {"idle", "clear_failures", "clear_streak", "invalidate",
                     "drop_invalid", "threshold", "bump_streak", "refuse"}
<1>t. RegistryType /\ SlotsType /\ SlotType(q)
  BY DEF CacheInv, TypeOK, SlotsType
<1>h. CacheHeld(r) /\ \A u \in Users : Follows(u)
  BY DEF CacheInv
<1>1. requests'[r].pc \in after
  <2>1. CASE InsertSession(r) \/ ClearFailures(r) \/ ClearLockoutStreak(r)
    BY <2>1, <1>t, Moves, Rests DEF InsertSession, ClearFailures, ClearLockoutStreak
  <2>2. CASE RecordAuthFailure(r) \/ InvalidatePassword(r)
    BY <2>2, <1>t, Moves DEF RecordAuthFailure, InvalidatePassword
  <2>3. CASE DropInvalid(r) \/ CheckThreshold(r) \/ RefuseProfile(r)
    BY <2>3, <1>t, Moves, Rests DEF DropInvalid, CheckThreshold, RefuseProfile
  <2>4. CASE BumpLockoutStreak(r)
    BY <2>4, <1>t, Moves, Rests DEF BumpLockoutStreak
  <2>5. QED BY <2>1, <2>2, <2>3, <2>4 DEF ConnectAfterProbe
<1>2. CacheHeld(r)'
  BY <1>1 DEF CacheHeld, Carries
<1>3. ASSUME NEW u \in Users PROVE Follows(u)'
  <2>1. CASE InsertSession(r)
    <3>1. /\ q.pc = "insert" /\ q.user \in Users /\ q.host \in Hosts
          /\ sessions' = [sessions EXCEPT ![q.user][q.host] = q.password]
          /\ UNCHANGED passwords
      BY <2>1, <1>t DEF InsertSession, At, SlotType
    <3>2. \A h \in Hosts : sessions[u][h] \in {None, passwords[u].value}
      BY <3>1, <1>h, OneDropping DEF Follows
    <3>3. u = q.user => q.password = passwords[u].value
      BY <3>1, <1>h DEF CacheHeld
    <3>4. \A h \in Hosts : sessions'[u][h] \in {sessions[u][h], passwords[u].value}
      BY <3>1, <3>3, <1>t DEF RegistryType
    <3>5. QED BY <3>1, <3>2, <3>4 DEF Follows
  <2>2. CASE ClearFailures(r) \/ ClearLockoutStreak(r)
    BY <2>2, <1>h, FollowsOn DEF ClearFailures, ClearLockoutStreak, At
  <2>3. CASE RecordAuthFailure(r)
    BY <2>3, <1>h, FollowsOn DEF RecordAuthFailure, At
  <2>4. CASE InvalidatePassword(r)
    <3>1. /\ q.pc = "invalidate" /\ q.user \in Users
          /\ passwords' = [passwords EXCEPT ![q.user] = NoPassword]
          /\ UNCHANGED sessions
          /\ requests'[r].pc = "drop_invalid" /\ requests'[r].user = q.user
      BY <2>4, <1>t, Moves DEF InvalidatePassword, At, SlotType
    <3>2. CASE u = q.user
      BY <3>1, <3>2, OneDropping DEF Follows
    <3>3. CASE u # q.user
      BY <3>1, <3>3, <1>t, <1>h, FollowsOn DEF RegistryType
    <3>4. QED BY <3>2, <3>3
  <2>5. CASE DropInvalid(r)
    BY <2>5, FollowsDrop DEF DropInvalid
  <2>6. CASE CheckThreshold(r) \/ BumpLockoutStreak(r) \/ RefuseProfile(r)
    BY <2>6, <1>h, FollowsOn DEF CheckThreshold, BumpLockoutStreak, RefuseProfile,
       At, registry
  <2>7. QED BY <2>1, <2>2, <2>3, <2>4, <2>5, <2>6 DEF ConnectAfterProbe
<1>4. QED BY <1>2, <1>3

(* A step that no call takes.                                              *)
LEMMA CacheIdleStep ==
  ASSUME CacheInv, Disconnect \/ RotateAdPassword \/ UNCHANGED vars \/
                     (Tick /\ \A r \in Requests : ~InSection(r))
  PROVE  (\A r \in Requests : CacheHeld(r)') /\ (\A u \in Users : Follows(u)')
<1>t. RegistryType
  BY DEF CacheInv, TypeOK
<1>h. (\A r \in Requests : CacheHeld(r)) /\ (\A u \in Users : Follows(u))
  BY DEF CacheInv
<1>1. UNCHANGED requests
  BY DEF Disconnect, RotateAdPassword, Tick, vars
<1>2. \A u \in Users : passwords'[u].value = passwords[u].value
  <2>1. CASE Tick
    BY <2>1, <1>t DEF Tick, RegistryType
  <2>2. CASE ~Tick
    BY <2>2 DEF Disconnect, RotateAdPassword, vars, registry
  <2>3. QED BY <2>1, <2>2
<1>3. \A u \in Users, h \in Hosts : sessions'[u][h] \in {None, sessions[u][h]}
  <2>1. CASE Disconnect
    BY <2>1, <1>t DEF Disconnect, RegistryType
  <2>2. CASE ~Disconnect
    BY <2>2 DEF RotateAdPassword, Tick, vars, registry
  <2>3. QED BY <2>1, <2>2
<1>4. ASSUME NEW u \in Users PROVE Follows(u)'
  <2>1. Dropping(u)' <=> Dropping(u)
    BY <1>1 DEF Dropping
  <2>2. QED BY <2>1, <1>2, <1>3, <1>h DEF Follows
<1>5. ASSUME NEW r \in Requests PROVE CacheHeld(r)'
  <2>t. SlotType(requests[r])
    BY DEF CacheInv, TypeOK, SlotsType
  <2>1. CASE UNCHANGED passwords
    BY <2>1, <1>1, <1>h DEF CacheHeld, Carries
  <2>2. CASE Tick /\ ~InSection(r)
    <3>1. requests[r].pc \in {"idle", "probe", "command"}
      BY <2>2 DEF InSection, AtHost
    <3>2. QED BY <3>1, <1>1, <1>2, <1>h, <2>t DEF CacheHeld, Carries, SlotType
  <2>3. QED BY <2>1, <2>2 DEF Disconnect, RotateAdPassword, vars, registry
<1>6. QED BY <1>4, <1>5

LEMMA CacheStep == ASSUME Serial PROVE CacheInv /\ [Next]_vars => CacheInv'
<1> SUFFICES ASSUME CacheInv, [Next]_vars
             PROVE  (\A r \in Requests : CacheHeld(r)') /\ (\A u \in Users : Follows(u)')
  BY TypeStep DEF CacheInv
<1>t. SlotsType
  BY DEF CacheInv, TypeOK
<1>1. ASSUME NEW r \in Requests, CacheHeld(r)', \A u \in Users : Follows(u)'
      PROVE  (\A s \in Requests : CacheHeld(s)') /\ (\A u \in Users : Follows(u)')
  <2>1. \A s \in Requests : s = r
    BY DEF Serial
  <2>2. QED BY <1>1, <2>1
<1>2. ASSUME NEW r \in Requests, RunPs(r) \/ RunTransferCommand(r)
      PROVE  CacheHeld(r)' /\ \A u \in Users : Follows(u)'
  <2>1. CacheHeld(r)'
    BY <1>2, <1>t, Takes DEF CacheHeld, Carries
  <2>2. QED BY <1>2, <2>1, <1>t, Takes, FollowsOn DEF CacheInv, registry
<1>3. Tick => \A r \in Requests : ~InSection(r)
  BY DEF Tick, Serial
<1>4. QED
  BY <1>1, <1>2, <1>3, CacheBeforeProbe, CacheHostAnswer, CacheAfterProbe,
     CacheIdleStep DEF Next

(* Of a client that waits for every answer: between its calls every        *)
(* session of a user uses the password the cache holds for the user.       *)
THEOREM SerialSessions == Serial => (Spec => []SessionsFollowCache)
<1> SUFFICES ASSUME Serial PROVE Spec => []SessionsFollowCache
  OBVIOUS
<1>1. Init => CacheInv
  <2>1. ASSUME Init
        PROVE  (\A r \in Requests : CacheHeld(r)) /\ (\A u \in Users : Follows(u))
    BY <2>1 DEF Init, CacheHeld, Carries, Idle, Follows, NoSessions
  <2>2. QED BY <2>1, TypeInitially DEF CacheInv
<1>2. CacheInv => SessionsFollowCache
  <2> SUFFICES ASSUME CacheInv, NEW u \in Users, Quiet(u)
               PROVE  \A h \in Hosts : sessions[u][h] \in {None, passwords[u].value}
    BY DEF SessionsFollowCache
  <2>1. ~Dropping(u)
    BY DEF Quiet, Dropping
  <2>2. QED BY <2>1 DEF CacheInv, Follows
<1>3. CacheInv /\ [Next]_vars => CacheInv'
  BY CacheStep
<1>4. QED BY <1>1, <1>2, <1>3, PTL DEF Spec

-----------------------------------------------------------------------------
(* A serial client: a profile is refused after two thresholds.             *)

(* What the streak of a user stands for: rejections of the profile         *)
(* password that are spent on it.                                          *)
Spent(u) == IF lockout_streak[u] = 0 THEN 0
            ELSE IF lockout_streak[u] = 1 THEN MaxAttempts ELSE 2 * MaxAttempts

ProfileRejections(u) == rejections[u][ProfilePassword[u]]

(* The count of the profile password comes on top of what is spent, until  *)
(* it has reached the threshold.                                           *)
OnTop(u) ==
  failures[u].password_hash = ProfilePassword[u] /\ failures[u].count < MaxAttempts =>
    Spent(u) + failures[u].count <= ProfileRejections(u)

Streaks(u) ==
  /\ Spent(u) <= ProfileRejections(u)
  /\ OnTop(u)
  /\ u \in profile_refused => ProfileRejections(u) >= 2 * MaxAttempts

(* A call of a profile presents its password; one that may bump the streak *)
(* has counted that password on top of what is spent.                      *)
ProfileCall(r) ==
  LET q == requests[r]
      f == failures[q.user]
  IN q.origin = "profile" =>
       /\ q.pc # "idle" => q.password = ProfilePassword[q.user]
       /\ q.pc \in {"invalidate", "drop_invalid", "threshold", "bump_streak"} =>
            /\ f.password_hash = q.password
            /\ Spent(q.user) + f.count <= ProfileRejections(q.user)
       /\ q.pc \in {"check_lockout", "clear_expired", "cached_password", "lookup"} =>
            q.user \notin profile_refused

(* What the critical sections of a connect have seen.                      *)
StreakCall(r) ==
  LET q == requests[r]
      f == failures[q.user]
  IN /\ q.pc \in {"threshold", "bump_streak", "refuse"} => q.origin = "profile"
     /\ q.pc = "cached_password" => q.digest = f.password_hash
     /\ q.pc \in {"lookup", "probe"} /\ f.password_hash = q.password =>
          f.count < MaxAttempts
     /\ q.pc = "record" /\ q.password = ProfilePassword[q.user] =>
          Spent(q.user) + Counted(q.user, q.password) + 1 <= ProfileRejections(q.user)
     /\ q.pc = "bump_streak" => f.count >= MaxAttempts
     /\ q.pc = "refuse" => lockout_streak[q.user] >= 2

StreakInv ==
  /\ CacheInv
  /\ \A r \in Requests : ProfileCall(r) /\ StreakCall(r)
  /\ \A u \in Users : Streaks(u)

LEMMA StreakNumbers ==
  ASSUME TypeOK, NEW u \in Users
  PROVE  /\ Spent(u) \in Nat /\ ProfileRejections(u) \in Nat
         /\ failures[u].count \in Nat /\ lockout_streak[u] \in Nat
         /\ MaxAttempts \in Nat \ {0} /\ 2 * MaxAttempts \in Nat
         /\ ProfilePassword[u] \in Passwords /\ ProfilePassword[u] # None
<1>1. ProfilePassword[u] \in Passwords /\ ProfilePassword[u] # None
  BY ProfileAssumption, NoneAssumption
<1>2. MaxAttempts \in Nat \ {0} /\ 2 * MaxAttempts \in Nat
  BY BoundsAssumption
<1>3. lockout_streak[u] \in Nat /\ failures[u].count \in Nat
  BY DEF TypeOK, RegistryType
<1>4. ProfileRejections(u) \in Nat
  BY <1>1 DEF ProfileRejections, TypeOK, WorldType
<1>5. Spent(u) \in Nat
  BY <1>2 DEF Spent
<1>6. QED BY <1>1, <1>2, <1>3, <1>4, <1>5

(* A step that leaves the counters of a user alone, while Active Directory *)
(* may reject once more.                                                   *)
LEMMA StreaksStay ==
  ASSUME TypeOK, [Next]_vars, NEW u \in Users, Streaks(u),
         failures'[u].count = failures[u].count,
         failures'[u].password_hash = failures[u].password_hash,
         lockout_streak'[u] = lockout_streak[u],
         u \in profile_refused' => u \in profile_refused
  PROVE  Streaks(u)' /\ Spent(u)' = Spent(u)
<1>1. TypeOK' BY TypeStep
<1>2. Spent(u)' = Spent(u)
  BY DEF Spent
<1>3. ProfileRejections(u)' >= ProfileRejections(u)
  BY StreakNumbers, HistoryGrows DEF ProfileRejections
<1>4. ProfileRejections(u)' \in Nat
  BY <1>1, ProfileAssumption DEF ProfileRejections, TypeOK, WorldType
<1>5. QED BY <1>2, <1>3, <1>4, StreakNumbers DEF Streaks, OnTop

(* The failures of a user are cleared.                                     *)
LEMMA StreaksClear ==
  ASSUME TypeOK, [Next]_vars, NEW u \in Users, Streaks(u),
         failures'[u] = NoFailures, UNCHANGED <<lockout_streak, profile_refused, rejections>>
  PROVE  Streaks(u)'
BY StreakNumbers DEF Streaks, OnTop, Spent, ProfileRejections, NoFailures

(* A call that has answered, or that no counter is about.                  *)
LEMMA CallAnswered ==
  ASSUME NEW r \in Requests, requests'[r].origin = "headers",
         requests'[r].pc \in {"idle", "sync", "command"}
  PROVE  ProfileCall(r)' /\ StreakCall(r)'
BY DEF ProfileCall, StreakCall

LEMMA CallAnswers ==
  ASSUME SlotsType, NEW r \in Requests, Reply(r)
  PROVE  ProfileCall(r)' /\ StreakCall(r)'
BY Rests, CallAnswered DEF Idle

(* A call that goes where nothing is claimed of it but its password.       *)
LEMMA CallMoves ==
  ASSUME SlotsType, NEW r \in Requests, ProfileCall(r), requests[r].pc # "idle",
         NEW pc, Goto(r, pc),
         pc \in {"drop_changed", "admit", "insert", "clear_failures", "clear_streak"}
  PROVE  ProfileCall(r)' /\ StreakCall(r)'
BY Moves DEF ProfileCall, StreakCall

LEMMA StreakBeforeProbe ==
  ASSUME StreakInv, NEW r \in Requests, ConnectBeforeProbe(r)
  PROVE  ProfileCall(r)' /\ StreakCall(r)' /\ \A u \in Users : Streaks(u)'
<1> DEFINE q == requests[r]
<1>n. [Next]_vars
  BY DEF Next
<1>t. TypeOK /\ RegistryType /\ SlotsType /\ SlotType(q)
  BY DEF StreakInv, CacheInv, TypeOK, SlotsType
<1>h. ProfileCall(r) /\ StreakCall(r) /\ CacheHeld(r) /\ \A u \in Users : Streaks(u)
  BY DEF StreakInv, CacheInv
<1>f. UNCHANGED <<failures, lockout_streak, profile_refused>> =>
        \A u \in Users : Streaks(u)'
  BY <1>n, <1>t, <1>h, StreaksStay
<1>1. CASE Connect(r)
  BY <1>1, <1>f, <1>t, Begins DEF ProfileCall, StreakCall, registry
<1>2. CASE SyncHeaderPassword(r)
  BY <1>2, <1>f, <1>t, <1>h, CallMoves DEF SyncHeaderPassword, At
<1>3. CASE DropChanged(r)
  BY <1>3, <1>f, <1>t, <1>h, CallMoves DEF DropChanged, At
<1>4. CASE Admit(r)
  <2>1. CASE Reply(r)
    BY <1>4, <2>1, <1>f, <1>t, CallAnswers DEF Admit, registry
  <2>2. CASE ~Reply(r)
    <3>1. /\ q.pc = "admit" /\ Goto(r, "check_lockout")
          /\ q.origin = "profile" => q.user \notin profile_refused
          /\ UNCHANGED registry
      BY <1>4, <2>2 DEF Admit, At
    <3>2. ProfileCall(r)' /\ StreakCall(r)'
      BY <3>1, <1>t, <1>h, Moves DEF ProfileCall, StreakCall, registry
    <3>3. QED BY <3>1, <3>2, <1>f DEF registry
  <2>3. QED BY <2>1, <2>2
<1>5. CASE CheckLockout(r)
  <2>1. q.pc = "check_lockout" /\ UNCHANGED registry /\ q.user \in Users
    BY <1>5, <1>t DEF CheckLockout, At, SlotType
  <2>2. ProfileCall(r)'
    BY <1>5, <2>1, <1>t, <1>h, Looks DEF ProfileCall, registry
  <2>3. StreakCall(r)'
    BY <1>5, <2>1, <1>t, Looks, StreakNumbers DEF StreakCall, ThresholdReached, registry
  <2>4. QED BY <2>1, <2>2, <2>3, <1>f DEF registry
<1>6. CASE ClearExpired(r)
  <2>1. /\ q.pc = "clear_expired" /\ q.user \in Users
        /\ failures' = [failures EXCEPT ![q.user] = NoFailures]
        /\ Goto(r, "lookup")
        /\ UNCHANGED <<lockout_streak, profile_refused, rejections>>
    BY <1>6, <1>t DEF ClearExpired, At, SlotType, world, history
  <2>2. failures'[q.user] = NoFailures /\ \A u \in Users \ {q.user} : failures'[u] = failures[u]
    BY <2>1, <1>t DEF RegistryType
  <2>3. ProfileCall(r)' /\ StreakCall(r)'
    BY <2>1, <2>2, <1>t, <1>h, Moves, BoundsAssumption DEF ProfileCall, StreakCall, NoFailures
  <2>4. \A u \in Users : Streaks(u)'
    BY <2>1, <2>2, <1>n, <1>t, <1>h, StreaksStay, StreaksClear
  <2>5. QED BY <2>3, <2>4
<1>7. CASE CachedPassword(r)
  <2>1. q.pc = "cached_password" /\ q.password \in Passwords /\ q.user \in Users
    BY <1>7, <1>t DEF CachedPassword, At, SlotType
  <2>2. passwords[q.user].value = q.password /\ passwords[q.user].idle = 0
    BY <2>1, <1>h DEF CacheHeld, Carries
  <2>3. ~IsExpired(q.user) /\ q.password # None
    BY <2>1, <2>2, BoundsAssumption, NoneAssumption DEF IsExpired
  <2>4. \/ Reply(r)
        \/ Goto(r, "lookup") /\ q.password # failures[q.user].password_hash
    <3>1. q.digest = failures[q.user].password_hash
      BY <2>1, <1>h DEF StreakCall
    <3>2. CASE passwords[q.user].value = q.digest
      BY <1>7, <2>2, <2>3, <3>2 DEF CachedPassword
    <3>3. CASE passwords[q.user].value # q.digest
      BY <1>7, <2>2, <2>3, <3>1, <3>3 DEF CachedPassword
    <3>4. QED BY <3>2, <3>3
  <2>5. UNCHANGED <<failures, lockout_streak, profile_refused>>
    BY <1>7 DEF CachedPassword
  <2>6. ASSUME Goto(r, "lookup"), q.password # failures[q.user].password_hash
        PROVE  ProfileCall(r)' /\ StreakCall(r)'
    BY <2>1, <2>5, <2>6, <1>t, <1>h, Moves DEF ProfileCall, StreakCall
  <2>7. QED BY <2>4, <2>5, <2>6, <1>f, <1>t, CallAnswers
<1>8. CASE DropExpired(r)
  BY <1>8, <1>h DEF DropExpired, At, CacheHeld
<1>9. CASE Lookup(r)
  <2>1. q.pc = "lookup" /\ UNCHANGED registry /\ (Reply(r) \/ Goto(r, "probe"))
    BY <1>9 DEF Lookup, At
  <2>2. ASSUME Goto(r, "probe") PROVE ProfileCall(r)' /\ StreakCall(r)'
    BY <2>1, <2>2, <1>t, <1>h, Moves DEF ProfileCall, StreakCall, registry
  <2>3. QED BY <2>1, <2>2, <1>f, <1>t, CallAnswers DEF registry
<1>10. QED BY <1>1, <1>2, <1>3, <1>4, <1>5, <1>6, <1>7, <1>8, <1>9 DEF ConnectBeforeProbe

(* A rejected probe is one more rejection for the count to come.           *)
LEMMA StreakHostAnswer ==
  ASSUME StreakInv, NEW r \in Requests, HostAnswer(r)
  PROVE  ProfileCall(r)' /\ StreakCall(r)' /\ \A u \in Users : Streaks(u)'
<1> DEFINE q == requests[r]
<1>n. [Next]_vars
  BY DEF Next
<1>t. TypeOK /\ RegistryType /\ SlotsType /\ SlotType(q) /\ WorldType
  BY DEF StreakInv, CacheInv, TypeOK, SlotsType
<1>h. ProfileCall(r) /\ StreakCall(r) /\ \A u \in Users : Streaks(u)
  BY DEF StreakInv
<1>r. UNCHANGED registry
  BY DEF HostAnswer, ProbeAccepted, ProbeRejected, ProbeFailed, CommandAnswered
<1>1. \A u \in Users : Streaks(u)' /\ Spent(u)' = Spent(u)
  BY <1>n, <1>t, <1>h, <1>r, StreaksStay DEF registry
<1>2. CASE ProbeAccepted(r)
  BY <1>1, <1>2, <1>t, <1>h, CallMoves DEF ProbeAccepted, At
<1>3. CASE ProbeRejected(r)
  <2>1. /\ q.pc = "probe" /\ q.user \in Users /\ q.password \in Passwords
        /\ Goto(r, "record")
        /\ rejections' = [rejections EXCEPT ![q.user][q.password] = @ + 1]
    BY <1>3, <1>t DEF ProbeRejected, At, SlotType, Rejected
  <2>2. /\ requests'[r].pc = "record" /\ requests'[r].user = q.user
        /\ requests'[r].password = q.password /\ requests'[r].origin = q.origin
    BY <2>1, <1>t, Moves
  <2>3. ProfileCall(r)'
    BY <2>1, <2>2, <1>h DEF ProfileCall
  <2>4. ASSUME NEW u \in Users, u = q.user, NEW p, p = q.password, p = ProfilePassword[u]
        PROVE  Spent(u)' + Counted(u, p)' + 1 <= ProfileRejections(u)'
    <3>1. ProfileRejections(u)' = ProfileRejections(u) + 1
      BY <2>1, <2>4, <1>t DEF ProfileRejections, WorldType
    <3>2. Counted(u, p)' = Counted(u, p)
      BY <1>r DEF Counted, registry
    <3>3. Spent(u)' = Spent(u)
      BY <1>1
    <3>4. Spent(u) + Counted(u, p) <= ProfileRejections(u)
      <4>1. CASE failures[u].password_hash = p
        <5>1. failures[u].count < MaxAttempts
          BY <2>1, <2>4, <4>1, <1>h DEF StreakCall
        <5>2. QED BY <2>4, <4>1, <5>1, <1>h DEF Streaks, OnTop, Counted
      <4>2. CASE failures[u].password_hash # p
        BY <4>2, <1>h, <1>t, StreakNumbers DEF Streaks, Counted
      <4>3. QED BY <4>1, <4>2
    <3>5. Counted(u, p) \in Nat
      BY <1>t, CountedType
    <3>6. Spent(u) \in Nat /\ ProfileRejections(u) \in Nat
      BY <1>t, StreakNumbers
    <3>7. QED BY <3>1, <3>2, <3>3, <3>4, <3>5, <3>6
  <2>5. StreakCall(r)'
    BY <2>1, <2>2, <2>4 DEF StreakCall
  <2>6. QED BY <1>1, <2>3, <2>5
<1>4. CASE ProbeFailed(r) \/ CommandAnswered(r)
  BY <1>1, <1>4, <1>t, CallAnswers DEF ProbeFailed, CommandAnswered
<1>5. QED BY <1>2, <1>3, <1>4 DEF HostAnswer

LEMMA StreakAfterAccept ==
  ASSUME StreakInv, NEW r \in Requests,
         InsertSession(r) \/ ClearFailures(r) \/ ClearLockoutStreak(r)
  PROVE  ProfileCall(r)' /\ StreakCall(r)' /\ \A u \in Users : Streaks(u)'
<1> DEFINE q == requests[r]
<1>n. [Next]_vars
  BY DEF Next, ConnectAfterProbe
<1>t. TypeOK /\ RegistryType /\ SlotsType /\ SlotType(q)
  BY DEF StreakInv, CacheInv, TypeOK, SlotsType
<1>h. ProfileCall(r) /\ \A u \in Users : Streaks(u)
  BY DEF StreakInv
<1>1. CASE InsertSession(r)
  BY <1>1, <1>n, <1>t, <1>h, CallMoves, StreaksStay DEF InsertSession, At
<1>2. CASE ClearFailures(r)
  <2>1. /\ q.pc = "clear_failures" /\ q.user \in Users
        /\ failures' = [failures EXCEPT ![q.user] = NoFailures]
        /\ Goto(r, "clear_streak")
        /\ UNCHANGED <<lockout_streak, profile_refused, rejections>>
    BY <1>2, <1>t DEF ClearFailures, At, SlotType, world, history
  <2>2. failures'[q.user] = NoFailures /\ \A u \in Users \ {q.user} : failures'[u] = failures[u]
    BY <2>1, <1>t DEF RegistryType
  <2>3. \A u \in Users : Streaks(u)'
    BY <2>1, <2>2, <1>n, <1>t, <1>h, StreaksStay, StreaksClear
  <2>4. QED BY <2>1, <2>3, <1>t, <1>h, CallMoves
<1>3. CASE ClearLockoutStreak(r)
  <2>1. /\ q.user \in Users
        /\ lockout_streak' = [lockout_streak EXCEPT ![q.user] = 0]
        /\ Reply(r)
        /\ UNCHANGED <<failures, profile_refused, rejections>>
    BY <1>3, <1>t DEF ClearLockoutStreak, At, SlotType, world, history
  <2>2. ASSUME NEW u \in Users PROVE Streaks(u)'
    <3>1. CASE u # q.user
      BY <2>1, <3>1, <1>n, <1>t, <1>h, StreaksStay DEF RegistryType
    <3>2. CASE u = q.user
      <4>1. lockout_streak'[u] = 0 /\ ProfileRejections(u)' = ProfileRejections(u)
        BY <2>1, <3>2, <1>t DEF RegistryType, ProfileRejections
      <4>2. Spent(u)' = 0
        BY <4>1 DEF Spent
      <4>3. QED BY <2>1, <4>1, <4>2, <1>h, <1>t, StreakNumbers DEF Streaks, OnTop
    <3>3. QED BY <3>1, <3>2
  <2>3. QED BY <2>1, <2>2, <1>t, CallAnswers
<1>4. QED BY <1>1, <1>2, <1>3

(* The rejection is counted on top of what is spent.                       *)
LEMMA StreakRecord ==
  ASSUME StreakInv, NEW r \in Requests, RecordAuthFailure(r)
  PROVE  ProfileCall(r)' /\ StreakCall(r)' /\ \A u \in Users : Streaks(u)'
<1> DEFINE q == requests[r]
<1>n. [Next]_vars
  BY DEF Next, ConnectAfterProbe
<1>t. TypeOK /\ RegistryType /\ SlotsType /\ SlotType(q)
  BY DEF StreakInv, CacheInv, TypeOK, SlotsType
<1>h. ProfileCall(r) /\ StreakCall(r) /\ \A u \in Users : Streaks(u)
  BY DEF StreakInv
<1>1. q.pc = "record" /\ q.user \in Users /\ q.password \in Passwords
  BY <1>t DEF RecordAuthFailure, At, SlotType
<1>2. /\ requests'[r].pc = "invalidate" /\ requests'[r].user = q.user
      /\ requests'[r].password = q.password /\ requests'[r].origin = q.origin
  BY <1>t, Moves DEF RecordAuthFailure
<1>3. PICK u \in Users, p \in Passwords : u = q.user /\ p = q.password
  BY <1>1
<1>4. UNCHANGED <<lockout_streak, profile_refused, rejections>>
  BY DEF RecordAuthFailure, world, history
<1>5. /\ failures'[u].password_hash = p
      /\ failures'[u].count = Counted(u, p) + 1
  <2>1. failures[u].count = 0 => failures[u].password_hash # p
    BY <1>t, NoneAssumption DEF RegistryType
  <2>2. /\ failures'[u].password_hash = p
        /\ failures'[u].count = IF failures[u].password_hash = p THEN failures[u].count + 1 ELSE 1
    BY <1>3, <1>t DEF RecordAuthFailure, RegistryType
  <2>3. QED BY <2>2 DEF Counted
<1>6. \A v \in Users \ {u} : failures'[v] = failures[v]
  BY <1>3, <1>t DEF RecordAuthFailure, RegistryType
<1>7. Spent(u)' = Spent(u) /\ ProfileRejections(u)' = ProfileRejections(u)
  BY <1>4 DEF Spent, ProfileRejections
<1>8. p = ProfilePassword[u] =>
        Spent(u) + (Counted(u, p) + 1) <= ProfileRejections(u)
  <2>1. p = ProfilePassword[u] =>
          Spent(u) + Counted(u, p) + 1 <= ProfileRejections(u)
    BY <1>1, <1>3, <1>h DEF StreakCall
  <2>2. Spent(u) \in Nat /\ Counted(u, p) \in Nat /\ ProfileRejections(u) \in Nat
    BY <1>t, StreakNumbers, CountedType
  <2>3. QED BY <2>1, <2>2
<1>9. Streaks(u)'
  <2>1. Spent(u)' <= ProfileRejections(u)'
    BY <1>7, <1>h DEF Streaks
  <2>2. OnTop(u)'
    BY <1>5, <1>7, <1>8 DEF OnTop
  <2>3. QED BY <2>1, <2>2, <1>4, <1>7, <1>h DEF Streaks
<1>10. \A v \in Users : Streaks(v)'
  BY <1>4, <1>6, <1>9, <1>n, <1>t, <1>h, StreaksStay
<1>11. ProfileCall(r)'
  <2>1. q.origin = "profile" => p = ProfilePassword[u]
    BY <1>1, <1>3, <1>h DEF ProfileCall
  <2>2. q.origin = "profile" =>
          /\ failures'[u].password_hash = p
          /\ Spent(u)' + failures'[u].count <= ProfileRejections(u)'
    BY <2>1, <1>5, <1>7, <1>8
  <2>3. QED BY <2>1, <2>2, <1>2, <1>3 DEF ProfileCall
<1>12. QED BY <1>2, <1>10, <1>11 DEF StreakCall

LEMMA StreakAfterReject ==
  ASSUME StreakInv, NEW r \in Requests,
         \/ InvalidatePassword(r) \/ DropInvalid(r) \/ CheckThreshold(r)
         \/ BumpLockoutStreak(r) \/ RefuseProfile(r)
  PROVE  ProfileCall(r)' /\ StreakCall(r)' /\ \A u \in Users : Streaks(u)'
<1> DEFINE q == requests[r]
<1>n. [Next]_vars
  BY DEF Next, ConnectAfterProbe
<1>t. TypeOK /\ RegistryType /\ SlotsType /\ SlotType(q)
  BY DEF StreakInv, CacheInv, TypeOK, SlotsType
<1>h. ProfileCall(r) /\ StreakCall(r) /\ \A u \in Users : Streaks(u)
  BY DEF StreakInv
<1>1. PICK u \in Users : u = q.user
  BY <1>t DEF InvalidatePassword, DropInvalid, CheckThreshold, BumpLockoutStreak,
     RefuseProfile, At, SlotType
<1>2. ASSUME UNCHANGED <<failures, lockout_streak, profile_refused, rejections>>
      PROVE  /\ \A v \in Users : Streaks(v)'
             /\ Spent(u)' = Spent(u) /\ ProfileRejections(u)' = ProfileRejections(u)
  BY <1>2, <1>n, <1>t, <1>h, StreaksStay DEF ProfileRejections
<1>3. CASE InvalidatePassword(r)
  <2>1. /\ q.pc = "invalidate" /\ Goto(r, "drop_invalid")
        /\ UNCHANGED <<failures, lockout_streak, profile_refused, rejections>>
    BY <1>3 DEF InvalidatePassword, At, world, history
  <2>2. ProfileCall(r)' /\ StreakCall(r)'
    BY <2>1, <1>1, <1>2, <1>t, <1>h, Moves DEF ProfileCall, StreakCall
  <2>3. QED BY <2>1, <2>2, <1>2
<1>4. CASE DropInvalid(r)
  <2>1. /\ q.pc = "drop_invalid"
        /\ Reply(r) \/ (q.origin = "profile" /\ Goto(r, "threshold"))
        /\ UNCHANGED <<failures, lockout_streak, profile_refused, rejections>>
    BY <1>4 DEF DropInvalid, At, world, history
  <2>2. ASSUME q.origin = "profile", Goto(r, "threshold")
        PROVE  ProfileCall(r)' /\ StreakCall(r)'
    BY <2>1, <2>2, <1>1, <1>2, <1>t, <1>h, Moves DEF ProfileCall, StreakCall
  <2>3. QED BY <2>1, <2>2, <1>2, <1>t, CallAnswers
<1>5. CASE CheckThreshold(r)
  <2>1. /\ q.pc = "threshold"
        /\ Reply(r) \/ (failures[u].count >= MaxAttempts /\ Goto(r, "bump_streak"))
        /\ UNCHANGED <<failures, lockout_streak, profile_refused, rejections>>
    BY <1>5, <1>1 DEF CheckThreshold, ThresholdReached, At, registry, world, history
  <2>2. ASSUME failures[u].count >= MaxAttempts, Goto(r, "bump_streak")
        PROVE  ProfileCall(r)' /\ StreakCall(r)'
    BY <2>1, <2>2, <1>1, <1>2, <1>t, <1>h, Moves DEF ProfileCall, StreakCall
  <2>3. QED BY <2>1, <2>2, <1>2, <1>t, CallAnswers
<1>6. CASE BumpLockoutStreak(r)
  <2>1. /\ q.pc = "bump_streak" /\ q.origin = "profile"
        /\ failures[u].password_hash = ProfilePassword[u]
        /\ failures[u].count >= MaxAttempts
        /\ Spent(u) + failures[u].count <= ProfileRejections(u)
    BY <1>6, <1>1, <1>h DEF BumpLockoutStreak, At, StreakCall, ProfileCall
  <2>2. /\ lockout_streak'[u] = lockout_streak[u] + 1
        /\ \A v \in Users \ {u} : lockout_streak'[v] = lockout_streak[v]
        /\ UNCHANGED <<failures, profile_refused, rejections>>
    BY <1>6, <1>1, <1>t DEF BumpLockoutStreak, RegistryType, world, history
  <2>3. Reply(r) \/ (lockout_streak'[u] >= 2 /\ Goto(r, "refuse"))
    BY <1>6, <1>1, <2>2 DEF BumpLockoutStreak
  <2>4. Spent(u)' <= ProfileRejections(u)' /\ ProfileRejections(u)' = ProfileRejections(u)
    <3>1. ProfileRejections(u)' = ProfileRejections(u)
      BY <2>2 DEF ProfileRejections
    <3>2. Spent(u)' <= Spent(u) + MaxAttempts
      BY <2>2, <1>t, StreakNumbers DEF Spent
    <3>3. Spent(u)' \in Nat
      BY <1>t, StreakNumbers DEF Spent
    <3>4. QED BY <2>1, <3>1, <3>2, <3>3, <1>t, StreakNumbers
  <2>5. Streaks(u)'
    <3>1. ~(failures'[u].count < MaxAttempts)
      BY <2>1, <2>2, <1>t, StreakNumbers
    <3>2. QED BY <2>2, <2>4, <3>1, <1>h DEF Streaks, OnTop
  <2>6. \A v \in Users : Streaks(v)'
    BY <2>2, <2>5, <1>n, <1>t, <1>h, StreaksStay
  <2>7. ASSUME lockout_streak'[u] >= 2, Goto(r, "refuse")
        PROVE  ProfileCall(r)' /\ StreakCall(r)'
    BY <2>1, <2>7, <1>1, <1>t, <1>h, Moves DEF ProfileCall, StreakCall
  <2>8. QED BY <2>3, <2>6, <2>7, <1>t, CallAnswers
<1>7. CASE RefuseProfile(r)
  <2>1. /\ lockout_streak[u] >= 2 /\ Reply(r)
        /\ profile_refused' = profile_refused \cup {u}
        /\ UNCHANGED <<failures, lockout_streak, rejections>>
    BY <1>7, <1>1, <1>h DEF RefuseProfile, At, StreakCall, world, history
  <2>2. ASSUME NEW v \in Users PROVE Streaks(v)'
    <3>1. CASE v = u
      <4>1. Spent(u)' = Spent(u) /\ ProfileRejections(u)' = ProfileRejections(u)
        BY <2>1 DEF Spent, ProfileRejections
      <4>2. Spent(u) = 2 * MaxAttempts
        BY <2>1, <1>t, StreakNumbers DEF Spent
      <4>3. ProfileRejections(u) >= 2 * MaxAttempts
        BY <4>2, <1>h, <1>t, StreakNumbers DEF Streaks
      <4>4. QED BY <2>1, <3>1, <4>1, <4>3, <1>h DEF Streaks, OnTop
    <3>2. CASE v # u
      BY <2>1, <3>2, <1>n, <1>t, <1>h, StreaksStay
    <3>3. QED BY <3>1, <3>2
  <2>3. QED BY <2>1, <2>2, <1>t, CallAnswers
<1>8. QED BY <1>3, <1>4, <1>5, <1>6, <1>7

(* A step that no call takes.                                              *)
LEMMA StreakIdleStep ==
  ASSUME StreakInv, [Next]_vars,
         Disconnect \/ RotateAdPassword \/ Tick \/ UNCHANGED vars
  PROVE  /\ \A r \in Requests : ProfileCall(r)' /\ StreakCall(r)'
         /\ \A u \in Users : Streaks(u)'
<1>t. TypeOK /\ RegistryType /\ SlotsType
  BY DEF StreakInv, CacheInv, TypeOK
<1>h. /\ \A r \in Requests : ProfileCall(r) /\ StreakCall(r)
      /\ \A u \in Users : Streaks(u)
  BY DEF StreakInv
<1>1. UNCHANGED <<requests, lockout_streak, profile_refused, rejections>>
  BY DEF Disconnect, RotateAdPassword, Tick, vars, registry, world, history
<1>2. \A u \in Users : /\ failures'[u].count = failures[u].count
                       /\ failures'[u].password_hash = failures[u].password_hash
  <2>1. CASE Tick
    BY <2>1, <1>t DEF Tick, RegistryType
  <2>2. CASE ~Tick
    BY <2>2 DEF Disconnect, RotateAdPassword, vars, registry
  <2>3. QED BY <2>1, <2>2
<1>3. \A u \in Users : Streaks(u)'
  BY <1>1, <1>2, <1>t, <1>h, StreaksStay
<1>4. \A u \in Users : Spent(u)' = Spent(u) /\ ProfileRejections(u)' = ProfileRejections(u)
  BY <1>1 DEF Spent, ProfileRejections
<1>5. \A u \in Users : \A p : Counted(u, p)' = Counted(u, p)
  BY <1>2 DEF Counted
<1>6. ASSUME NEW r \in Requests PROVE ProfileCall(r)' /\ StreakCall(r)'
  <2>1. SlotType(requests[r])
    BY <1>t DEF SlotsType
  <2>2. CASE requests[r].pc = "idle"
    BY <2>2, <1>1 DEF ProfileCall, StreakCall
  <2>3. CASE requests[r].pc # "idle"
    <3>1. PICK u \in Users : u = requests[r].user
      BY <2>1, <2>3 DEF SlotType
    <3>2. ProfileCall(r)'
      BY <3>1, <1>1, <1>2, <1>4, <1>h DEF ProfileCall
    <3>3. StreakCall(r)'
      BY <3>1, <1>1, <1>2, <1>4, <1>5, <1>h DEF StreakCall
    <3>4. QED BY <3>2, <3>3
  <2>4. QED BY <2>2, <2>3
<1>7. QED BY <1>3, <1>6

LEMMA StreakStep == ASSUME Serial PROVE StreakInv /\ [Next]_vars => StreakInv'
<1> SUFFICES ASSUME StreakInv, [Next]_vars
             PROVE  /\ \A r \in Requests : ProfileCall(r)' /\ StreakCall(r)'
                    /\ \A u \in Users : Streaks(u)'
  BY CacheStep DEF StreakInv
<1>t. TypeOK /\ SlotsType
  BY DEF StreakInv, CacheInv, TypeOK
<1>1. ASSUME NEW r \in Requests, ProfileCall(r)' /\ StreakCall(r)', \A u \in Users : Streaks(u)'
      PROVE  /\ \A s \in Requests : ProfileCall(s)' /\ StreakCall(s)'
             /\ \A u \in Users : Streaks(u)'
  <2>1. \A s \in Requests : s = r
    BY DEF Serial
  <2>2. QED BY <1>1, <2>1
<1>2. ASSUME NEW r \in Requests, RunPs(r) \/ RunTransferCommand(r)
      PROVE  ProfileCall(r)' /\ StreakCall(r)' /\ \A u \in Users : Streaks(u)'
  BY <1>2, <1>t, Takes, CallAnswered, StreaksStay DEF StreakInv, registry
<1>3. ASSUME NEW r \in Requests, ConnectAfterProbe(r)
      PROVE  ProfileCall(r)' /\ StreakCall(r)' /\ \A u \in Users : Streaks(u)'
  BY <1>3, StreakAfterAccept, StreakRecord, StreakAfterReject DEF ConnectAfterProbe
<1>4. QED
  BY <1>1, <1>2, <1>3, StreakBeforeProbe, StreakHostAnswer, StreakIdleStep DEF Next

LEMMA StreakInitially == Init => StreakInv
<1> SUFFICES ASSUME Init PROVE StreakInv
  OBVIOUS
<1>1. TypeOK
  BY TypeInitially
<1>2. \A r \in Requests : requests[r].pc = "idle" /\ requests[r].origin = "headers"
  BY DEF Init, Idle
<1>3. CacheInv
  <2>1. \A r \in Requests : CacheHeld(r)
    BY <1>2 DEF CacheHeld, Carries
  <2>2. \A u \in Users : Follows(u)
    BY DEF Init, Follows, NoSessions
  <2>3. QED BY <1>1, <2>1, <2>2 DEF CacheInv
<1>4. \A r \in Requests : ProfileCall(r) /\ StreakCall(r)
  BY <1>2 DEF ProfileCall, StreakCall
<1>5. ASSUME NEW u \in Users PROVE Streaks(u)
  <2>1. /\ lockout_streak[u] = 0 /\ failures[u].password_hash = None
        /\ profile_refused = {} /\ ProfileRejections(u) = 0
    BY ProfileAssumption DEF Init, NoFailures, ProfileRejections
  <2>2. QED BY <2>1, <1>1, StreakNumbers DEF Streaks, OnTop, Spent
<1>6. QED BY <1>3, <1>4, <1>5 DEF StreakInv

(* Of a client that waits for every answer: a profile is refused only      *)
(* after its own password was rejected twice the threshold, whatever other *)
(* passwords were counted or connects succeeded in between.                *)
THEOREM SerialRefusals == Serial => (Spec => []RefusalNeedsTwoThresholds)
<1> SUFFICES ASSUME Serial PROVE Spec => []RefusalNeedsTwoThresholds
  OBVIOUS
<1>1. StreakInv /\ [Next]_vars => StreakInv'
  BY StreakStep
<1>2. StreakInv => RefusalNeedsTwoThresholds
  <2> SUFFICES ASSUME StreakInv, NEW u \in profile_refused
               PROVE  ProfileRejections(u) >= 2 * MaxAttempts
    BY DEF RefusalNeedsTwoThresholds, ProfileRejections
  <2>1. u \in Users
    BY DEF StreakInv, CacheInv, TypeOK, RegistryType
  <2>2. QED BY <2>1 DEF StreakInv, Streaks
<1>3. QED BY StreakInitially, <1>1, <1>2, PTL DEF Spec

(* A password gets to a host by the probe of a connect, or as that of a    *)
(* session; a profile identity only by the probe.                          *)
LEMMA PresentedBy ==
  ASSUME Serial, SlotsType, [Next]_vars, NEW r \in Requests, Presents(r)
  PROVE  \/ Lookup(r) /\ requests[r].pc = "lookup" /\ Goto(r, "probe")
         \/ RunPs(r) \/ RunTransferCommand(r)
<1>0. requests'[r].pc \in {"probe", "command"} /\ requests[r].pc \notin {"probe", "command"}
  BY DEF Presents, AtHost
<1>s. \A s \in Requests : s = r
  BY DEF Serial
<1>1. ~ConnectBeforeProbe(r) \/ Lookup(r)
  <2>1. ~Connect(r)
    BY <1>0, Begins
  <2>2. ~SyncHeaderPassword(r) /\ ~DropChanged(r) /\ ~Admit(r)
    BY <1>0, Moves, Rests DEF SyncHeaderPassword, DropChanged, Admit
  <2>3. ~CheckLockout(r)
    BY <1>0, Looks
  <2>4. ~ClearExpired(r) /\ ~CachedPassword(r) /\ ~DropExpired(r)
    BY <1>0, Moves, Rests DEF ClearExpired, CachedPassword, DropExpired
  <2>5. QED BY <2>1, <2>2, <2>3, <2>4 DEF ConnectBeforeProbe
<1>2. ~HostAnswer(r)
  BY <1>0 DEF HostAnswer, ProbeAccepted, ProbeRejected, ProbeFailed, CommandAnswered, At
<1>3. ~ConnectAfterProbe(r)
  <2>1. ~InsertSession(r) /\ ~ClearFailures(r) /\ ~ClearLockoutStreak(r)
    BY <1>0, Moves, Rests DEF InsertSession, ClearFailures, ClearLockoutStreak
  <2>2. ~RecordAuthFailure(r) /\ ~InvalidatePassword(r) /\ ~RefuseProfile(r)
    BY <1>0, Moves, Rests DEF RecordAuthFailure, InvalidatePassword, RefuseProfile
  <2>3. ~DropInvalid(r) /\ ~CheckThreshold(r)
    BY <1>0, Moves, Rests DEF DropInvalid, CheckThreshold
  <2>4. ~BumpLockoutStreak(r)
    BY <1>0, Moves, Rests DEF BumpLockoutStreak
  <2>5. QED BY <2>1, <2>2, <2>3, <2>4 DEF ConnectAfterProbe
<1>4. ~(Disconnect \/ RotateAdPassword \/ Tick \/ UNCHANGED vars)
  BY <1>0 DEF Disconnect, RotateAdPassword, Tick, vars
<1>5. Lookup(r) => requests[r].pc = "lookup" /\ Goto(r, "probe")
  BY <1>0, Rests DEF Lookup, At
<1>6. QED BY <1>s, <1>1, <1>2, <1>3, <1>4, <1>5 DEF Next

(* Of a client that waits for every answer: no connect presents the        *)
(* password of a refused profile, also when the lockout window is over.    *)
THEOREM SerialPresentations == Serial => (Spec => RefusedProfileNotPresented)
<1> SUFFICES ASSUME Serial PROVE Spec => RefusedProfileNotPresented
  OBVIOUS
<1> DEFINE A == \A r \in Requests : Presents(r) /\ requests'[r].origin = "profile" =>
                  requests'[r].user \notin profile_refused
<1>1. StreakInv /\ [Next]_vars => StreakInv'
  BY StreakStep
<1>2. StreakInv /\ [Next]_vars => [A]_vars
  <2> SUFFICES ASSUME StreakInv, [Next]_vars, NEW r \in Requests, Presents(r),
                      requests'[r].origin = "profile"
               PROVE  requests'[r].user \notin profile_refused
    OBVIOUS
  <2>1. SlotsType
    BY DEF StreakInv, CacheInv, TypeOK
  <2>2. ~RunPs(r) /\ ~RunTransferCommand(r)
    BY <2>1, Takes
  <2>3. requests[r].pc = "lookup" /\ Goto(r, "probe")
    BY <2>1, <2>2, PresentedBy
  <2>4. QED BY <2>1, <2>3, Moves DEF StreakInv, ProfileCall
<1>3. QED BY StreakInitially, <1>1, <1>2, PTL DEF Spec, RefusedProfileNotPresented

-----------------------------------------------------------------------------
(* A serial client: connect does not present a password that is locked out.*)

(* The failure entry agrees with the row of rejected connects, or it was   *)
(* cleared because the window of the row is over.                          *)
Tally(u) ==
  LET f == failures[u]
      w == row[u]
  IN \/ /\ f.password_hash = w.password
        /\ f.count = w.fails
        /\ w.fails >= MaxAttempts => f.elapsed = w.elapsed
     \/ /\ f.password_hash = None /\ f.count = 0
        /\ w.fails >= MaxAttempts /\ w.elapsed >= LockoutWindow

(* An answer of the host that the failure entry does not know yet.         *)
Settling(r) == requests[r].pc \in {"record", "insert", "clear_failures"}

Tallied(u) == Tally(u) \/ \E r \in Requests : Settling(r) /\ requests[r].user = u

LockCall(r) ==
  LET q == requests[r]
  IN /\ q.pc = "record" =>
          row[q.user] = [password |-> q.password,
                         fails |-> Counted(q.user, q.password) + 1, elapsed |-> 0]
     /\ q.pc \in {"insert", "clear_failures"} => row[q.user] = NoRow
     /\ q.pc = "clear_expired" => ThresholdReached(q.user) /\ WindowOver(q.user)

LockInv ==
  /\ StreakInv
  /\ \A u \in Users : Tallied(u)
  /\ \A r \in Requests : LockCall(r)

LEMMA LockNumbers ==
  ASSUME TypeOK, NEW u \in Users
  PROVE  /\ failures[u].count \in Nat /\ failures[u].elapsed \in Nat
         /\ failures[u].count = 0 <=> failures[u].password_hash = None
         /\ row[u].fails \in Nat /\ row[u].elapsed \in Nat
         /\ row[u] \in [password : Passwords \cup {None}, fails : Nat, elapsed : Nat]
         /\ MaxAttempts \in Nat \ {0} /\ LockoutWindow \in Nat
<1>1. row[u] \in [password : Passwords \cup {None}, fails : Nat, elapsed : Nat]
  BY DEF TypeOK, WorldType
<1>2. /\ failures[u].count \in Nat /\ failures[u].elapsed \in Nat
      /\ failures[u].count = 0 <=> failures[u].password_hash = None
  BY DEF TypeOK, RegistryType
<1>3. QED BY <1>1, <1>2, BoundsAssumption

(* Between two settlements the entry of every user agrees with the row.    *)
LEMMA Settled ==
  ASSUME Serial, LockInv, NEW r \in Requests, ~Settling(r), NEW u \in Users
  PROVE  Tally(u)
BY DEF Serial, LockInv, Tallied

(* A user whose entry and whose row a step leaves alone.                   *)
LEMMA LockStays ==
  ASSUME Serial, LockInv, NEW r \in Requests, ~Settling(r), NEW u \in Users,
         failures'[u] = failures[u], row'[u] = row[u]
  PROVE  Tallied(u)'
<1>1. Tally(u)
  BY Settled
<1>2. Tally(u)'
  BY <1>1 DEF Tally
<1>3. QED BY <1>2 DEF Tallied

LEMMA LockBeforeProbe ==
  ASSUME Serial, LockInv, NEW r \in Requests, ConnectBeforeProbe(r)
  PROVE  LockCall(r)' /\ \A u \in Users : Tallied(u)'
<1> DEFINE q == requests[r]
<1>t. TypeOK /\ RegistryType /\ SlotsType /\ SlotType(q)
  BY DEF LockInv, StreakInv, CacheInv, TypeOK, SlotsType
<1>h. LockCall(r)
  BY DEF LockInv
<1>s. ~Settling(r) /\ UNCHANGED row
  BY <1>t, Begins DEF ConnectBeforeProbe, Settling, SyncHeaderPassword, DropChanged, Admit,
     CheckLockout, ClearExpired, CachedPassword, DropExpired, Lookup, At, world, history
<1>f. ASSUME UNCHANGED failures PROVE \A u \in Users : Tallied(u)'
  BY <1>s, <1>f, LockStays
<1>o. ASSUME requests'[r].pc \notin {"record", "insert", "clear_failures", "clear_expired"}
      PROVE  LockCall(r)'
  BY <1>o DEF LockCall
<1>1. CASE Connect(r)
  BY <1>1, <1>f, <1>o, <1>t, Begins DEF registry
<1>2. CASE SyncHeaderPassword(r) \/ DropChanged(r)
  BY <1>2, <1>f, <1>o, <1>t, Moves DEF SyncHeaderPassword, DropChanged
<1>3. CASE Admit(r)
  BY <1>3, <1>f, <1>o, <1>t, Moves, Rests DEF Admit, registry
<1>4. CASE CheckLockout(r)
  <2>1. UNCHANGED registry /\ q.user \in Users
    BY <1>4, <1>t DEF CheckLockout, At, SlotType
  <2>2. CASE requests'[r].pc \in {"lookup", "cached_password"}
    BY <2>1, <2>2, <1>f, <1>o DEF registry
  <2>3. CASE /\ requests'[r].pc = "clear_expired"
             /\ ThresholdReached(q.user) /\ WindowOver(q.user)
    <3>1. LockCall(r)'
      BY <2>1, <2>3, <1>4, <1>t, Looks DEF LockCall, ThresholdReached, WindowOver, registry
    <3>2. QED BY <2>1, <3>1, <1>f DEF registry
  <2>4. QED BY <2>2, <2>3, <1>4, <1>t, Looks
<1>5. CASE ClearExpired(r)
  <2>1. /\ q.pc = "clear_expired" /\ q.user \in Users
        /\ failures' = [failures EXCEPT ![q.user] = NoFailures]
        /\ Goto(r, "lookup")
    BY <1>5, <1>t DEF ClearExpired, At, SlotType
  <2>2. ThresholdReached(q.user) /\ WindowOver(q.user)
    BY <2>1, <1>h DEF LockCall
  <2>3. LockCall(r)'
    BY <2>1, <1>o, <1>t, Moves
  <2>4. ASSUME NEW u \in Users PROVE Tallied(u)'
    <3>1. CASE u # q.user
      BY <2>1, <3>1, <1>s, <1>t, LockStays DEF RegistryType
    <3>2. CASE u = q.user
      <4>1. failures'[u].password_hash = None /\ failures'[u].count = 0
        BY <2>1, <3>2, <1>t DEF RegistryType, NoFailures
      <4>2. Tally(u)
        BY <1>s, Settled
      <4>3. row[u].fails >= MaxAttempts /\ row[u].elapsed >= LockoutWindow
        BY <2>2, <3>2, <4>2, <1>t, LockNumbers DEF Tally, ThresholdReached, WindowOver
      <4>4. Tally(u)'
        BY <4>1, <4>3, <1>s DEF Tally
      <4>5. QED BY <4>4 DEF Tallied
    <3>3. QED BY <3>1, <3>2
  <2>5. QED BY <2>3, <2>4
<1>6. CASE CachedPassword(r)
  BY <1>6, <1>f, <1>o, <1>t, Moves, Rests DEF CachedPassword
<1>7. CASE DropExpired(r)
  BY <1>7, <1>f, <1>o, <1>t, Moves DEF DropExpired
<1>8. CASE Lookup(r)
  BY <1>8, <1>f, <1>o, <1>t, Moves, Rests DEF Lookup, registry
<1>9. QED BY <1>1, <1>2, <1>3, <1>4, <1>5, <1>6, <1>7, <1>8 DEF ConnectBeforeProbe

(* What the host answers goes into the row before the call goes on.        *)
LEMMA LockHostAnswer ==
  ASSUME Serial, LockInv, NEW r \in Requests, HostAnswer(r)
  PROVE  LockCall(r)' /\ \A u \in Users : Tallied(u)'
<1> DEFINE q == requests[r]
<1>t. TypeOK /\ SlotsType /\ SlotType(q) /\ WorldType
  BY DEF LockInv, StreakInv, CacheInv, TypeOK, SlotsType
<1>h. StreakCall(r)
  BY DEF LockInv, StreakInv
<1>s. ~Settling(r) /\ q.pc \in {"probe", "command"} /\ UNCHANGED failures
  BY DEF HostAnswer, ProbeAccepted, ProbeRejected, ProbeFailed, CommandAnswered,
     Settling, At, registry
<1>1. PICK u \in Users, p \in Passwords : u = q.user /\ p = q.password
  BY <1>s, <1>t DEF SlotType
<1>2. CASE ProbeFailed(r) \/ CommandAnswered(r)
  <2>1. UNCHANGED row /\ Reply(r)
    BY <1>2 DEF ProbeFailed, CommandAnswered, Accepted, history
  <2>2. LockCall(r)'
    BY <2>1, <1>t, Rests DEF LockCall
  <2>3. QED BY <2>1, <2>2, <1>s, LockStays
<1>3. CASE ProbeAccepted(r)
  <2>1. row' = [row EXCEPT ![u] = NoRow] /\ Goto(r, "insert")
    BY <1>1, <1>3 DEF ProbeAccepted, Connected
  <2>2. requests'[r].pc = "insert" /\ requests'[r].user = u
    BY <2>1, <1>1, <1>t, Moves
  <2>3. row'[u] = NoRow /\ \A v \in Users \ {u} : row'[v] = row[v]
    BY <2>1, <1>t DEF WorldType
  <2>4. LockCall(r)'
    BY <2>2, <2>3 DEF LockCall
  <2>5. Tallied(u)'
    BY <2>2 DEF Tallied, Settling
  <2>6. QED BY <2>3, <2>4, <2>5, <1>s, LockStays
<1>4. CASE ProbeRejected(r)
  <2>1. q.pc = "probe" /\ InRow(u, p) /\ Goto(r, "record")
    BY <1>1, <1>4 DEF ProbeRejected, At
  <2>2. /\ requests'[r].pc = "record" /\ requests'[r].user = u
        /\ requests'[r].password = p
    BY <2>1, <1>1, <1>t, Moves
  <2> DEFINE f == row[u]
             over == f.fails >= MaxAttempts /\ f.elapsed >= LockoutWindow
             n == IF f.password = p /\ ~over THEN f.fails + 1 ELSE 1
  <2>3. n = Counted(u, p) + 1
    <3>1. Tally(u)
      BY <1>s, Settled
    <3>2. failures[u].password_hash = p => failures[u].count < MaxAttempts
      BY <2>1, <1>1, <1>h DEF StreakCall
    <3>3. p # None
      BY NoneAssumption
    <3>4. CASE failures[u].password_hash = p
      <4>1. f.password = p /\ f.fails = failures[u].count
        BY <3>1, <3>3, <3>4 DEF Tally
      <4>2. f.fails < MaxAttempts
        BY <3>2, <3>4, <4>1
      <4>3. QED BY <3>4, <4>1, <4>2, <1>t, LockNumbers DEF Counted
    <3>5. CASE failures[u].password_hash # p
      <4>1. f.password # p \/ over
        BY <3>1, <3>5 DEF Tally
      <4>2. QED BY <3>5, <4>1 DEF Counted
    <3>6. QED BY <3>4, <3>5
  <2>4. row' = [row EXCEPT ![u] = [password |-> p, fails |-> n, elapsed |-> 0]]
    BY <2>1 DEF InRow
  <2> HIDE DEF n
  <2>5. /\ row'[u] = [password |-> p, fails |-> n, elapsed |-> 0]
        /\ \A v \in Users \ {u} : row'[v] = row[v]
    BY <2>4, <1>t DEF WorldType
  <2>6. Counted(u, p)' = Counted(u, p)
    BY <1>s DEF Counted
  <2>7. LockCall(r)'
    BY <2>2, <2>3, <2>5, <2>6 DEF LockCall
  <2>8. Tallied(u)'
    BY <2>2 DEF Tallied, Settling
  <2>9. QED BY <2>5, <2>7, <2>8, <1>s, LockStays
<1>5. QED BY <1>2, <1>3, <1>4 DEF HostAnswer

(* The critical sections that settle the answer of the host.               *)
LEMMA LockSettles ==
  ASSUME Serial, LockInv, NEW r \in Requests,
         InsertSession(r) \/ ClearFailures(r) \/ RecordAuthFailure(r)
  PROVE  LockCall(r)' /\ \A u \in Users : Tallied(u)'
<1> DEFINE q == requests[r]
<1>t. TypeOK /\ RegistryType /\ SlotsType /\ SlotType(q)
  BY DEF LockInv, StreakInv, CacheInv, TypeOK, SlotsType
<1>h. LockCall(r)
  BY DEF LockInv
<1>s. Settling(r) /\ UNCHANGED row
  BY DEF InsertSession, ClearFailures, RecordAuthFailure, Settling, At, world, history
<1>1. PICK u \in Users, p \in Passwords : u = q.user /\ p = q.password
  BY <1>s, <1>t DEF SlotType, Settling
<1>o. ASSUME NEW v \in Users, v # u, failures'[v] = failures[v] PROVE Tallied(v)'
  <2>1. Tally(v)
    BY <1>o, <1>1 DEF Serial, LockInv, Tallied
  <2>2. QED BY <2>1, <1>o, <1>s DEF Tallied, Tally
<1>2. CASE InsertSession(r)
  <2>1. q.pc = "insert" /\ Goto(r, "clear_failures") /\ UNCHANGED failures
    BY <1>2 DEF InsertSession, At
  <2>2. requests'[r].pc = "clear_failures" /\ requests'[r].user = u
    BY <2>1, <1>1, <1>t, Moves
  <2>3. LockCall(r)'
    BY <2>1, <2>2, <1>1, <1>h, <1>s DEF LockCall
  <2>4. Tallied(u)'
    BY <2>2 DEF Tallied, Settling
  <2>5. QED BY <2>1, <2>3, <2>4, <1>o
<1>3. CASE ClearFailures(r)
  <2>1. q.pc = "clear_failures" /\ requests'[r].pc = "clear_streak"
    BY <1>3, <1>t, Moves DEF ClearFailures, At
  <2>2. LockCall(r)'
    BY <2>1 DEF LockCall
  <2>3. failures'[u] = NoFailures /\ \A v \in Users \ {u} : failures'[v] = failures[v]
    BY <1>1, <1>3, <1>t DEF ClearFailures, RegistryType
  <2>4. row'[u] = NoRow
    BY <2>1, <1>1, <1>h, <1>s DEF LockCall
  <2>5. Tally(u)'
    BY <2>3, <2>4 DEF Tally, NoRow, NoFailures
  <2>6. QED BY <2>2, <2>3, <2>5, <1>o DEF Tallied
<1>4. CASE RecordAuthFailure(r)
  <2>1. q.pc = "record" /\ requests'[r].pc = "invalidate"
    BY <1>4, <1>t, Moves DEF RecordAuthFailure, At
  <2>2. row'[u] = [password |-> p, fails |-> Counted(u, p) + 1, elapsed |-> 0]
    BY <2>1, <1>1, <1>h, <1>s DEF LockCall
  <2>3. LockCall(r)'
    BY <2>1 DEF LockCall
  <2>4. /\ failures'[u].password_hash = p
        /\ failures'[u].count = Counted(u, p) + 1
        /\ failures'[u].count >= MaxAttempts => failures'[u].elapsed = 0
        /\ \A v \in Users \ {u} : failures'[v] = failures[v]
    <3>1. failures[u].count = 0 => failures[u].password_hash # p
      BY <1>t, NoneAssumption DEF RegistryType
    <3> DEFINE again == failures[u].password_hash = p
               count == IF again THEN failures[u].count + 1 ELSE 1
               restart == ~again \/ count >= MaxAttempts
    <3>2. failures' = [failures EXCEPT ![u] =
            [password_hash |-> p, count |-> count,
             elapsed |-> IF restart THEN 0 ELSE failures[u].elapsed]]
      BY <1>1, <1>4 DEF RecordAuthFailure
    <3>3. count = Counted(u, p) + 1
      BY DEF Counted
    <3> HIDE DEF count
    <3>4. QED BY <3>2, <3>3, <1>t DEF RegistryType
  <2>5. Tally(u)'
    <3> DEFINE n == Counted(u, p) + 1
    <3>1. /\ row'[u].password = p /\ row'[u].fails = n /\ row'[u].elapsed = 0
      BY <2>2
    <3>2. /\ failures'[u].password_hash = p /\ failures'[u].count = n
          /\ n >= MaxAttempts => failures'[u].elapsed = 0
      BY <2>4
    <3> HIDE DEF n
    <3>3. QED BY <3>1, <3>2 DEF Tally
  <2>6. QED BY <2>3, <2>4, <2>5, <1>o DEF Tallied
<1>5. QED BY <1>2, <1>3, <1>4

(* The other critical sections after the answer of the host.               *)
LEMMA LockAfterProbe ==
  ASSUME Serial, LockInv, NEW r \in Requests,
         \/ ClearLockoutStreak(r) \/ InvalidatePassword(r) \/ DropInvalid(r)
         \/ CheckThreshold(r) \/ BumpLockoutStreak(r) \/ RefuseProfile(r)
  PROVE  LockCall(r)' /\ \A u \in Users : Tallied(u)'
<1>t. SlotsType
  BY DEF LockInv, StreakInv, CacheInv, TypeOK
<1>1. ~Settling(r) /\ UNCHANGED <<failures, row>>
  BY DEF ClearLockoutStreak, InvalidatePassword, DropInvalid, CheckThreshold,
     BumpLockoutStreak, RefuseProfile, At, Settling, registry, world, history
<1>2. requests'[r].pc \in {"idle", "drop_invalid", "threshold", "bump_streak", "refuse"}
  <2>1. CASE ClearLockoutStreak(r) \/ InvalidatePassword(r) \/ RefuseProfile(r)
    BY <2>1, <1>t, Moves, Rests DEF ClearLockoutStreak, InvalidatePassword, RefuseProfile
  <2>2. CASE DropInvalid(r) \/ CheckThreshold(r)
    BY <2>2, <1>t, Moves, Rests DEF DropInvalid, CheckThreshold
  <2>3. CASE BumpLockoutStreak(r)
    BY <2>3, <1>t, Moves, Rests DEF BumpLockoutStreak
  <2>4. QED BY <2>1, <2>2, <2>3
<1>3. LockCall(r)'
  BY <1>2 DEF LockCall
<1>4. QED BY <1>1, <1>3, LockStays

(* The clocks of the entry and of the row move together.                   *)
LEMMA LockTick ==
  ASSUME Serial, LockInv, Tick
  PROVE  /\ \A r \in Requests : LockCall(r)'
         /\ \A u \in Users : Tallied(u)'
<1>t. TypeOK /\ RegistryType /\ WorldType
  BY DEF LockInv, StreakInv, CacheInv, TypeOK
<1>1. /\ \A r \in Requests : requests[r].pc \in {"idle", "probe", "command"}
      /\ UNCHANGED requests
  BY DEF Tick, Serial, InSection, AtHost
<1>2. \A r \in Requests : LockCall(r)'
  BY <1>1 DEF LockCall
<1>3. ASSUME NEW u \in Users PROVE Tallied(u)'
  <2>1. /\ failures'[u].password_hash = failures[u].password_hash
        /\ failures'[u].count = failures[u].count
        /\ failures[u].count # 0 =>
             failures'[u].elapsed = Later(failures[u].elapsed, LockoutWindow)
    BY <1>t DEF Tick, RegistryType
  <2>2. /\ row'[u].password = row[u].password
        /\ row'[u].fails = row[u].fails
        /\ row[u].fails >= MaxAttempts =>
             row'[u].elapsed = Later(row[u].elapsed, LockoutWindow)
    <3>1. row'[u] = IF row[u].fails < MaxAttempts THEN row[u]
                    ELSE [row[u] EXCEPT !.elapsed = Later(@, LockoutWindow)]
      BY DEF Tick
    <3>2. QED BY <3>1, <1>t, LockNumbers
  <2>3. Tally(u)
    BY <1>1 DEF LockInv, Tallied, Settling
  <2>4. Tally(u)'
    <3>n. /\ row[u].fails \in Nat /\ row[u].elapsed \in Nat
          /\ MaxAttempts \in Nat \ {0} /\ LockoutWindow \in Nat
      BY <1>t, LockNumbers
    <3>1. CASE /\ failures[u].password_hash = row[u].password
               /\ failures[u].count = row[u].fails
               /\ row[u].fails >= MaxAttempts => failures[u].elapsed = row[u].elapsed
      BY <3>1, <3>n, <2>1, <2>2 DEF Tally
    <3>2. CASE /\ failures[u].password_hash = None /\ failures[u].count = 0
               /\ row[u].fails >= MaxAttempts /\ row[u].elapsed >= LockoutWindow
      <4>1. row'[u].elapsed >= LockoutWindow
        BY <3>2, <3>n, <2>2 DEF Later
      <4>2. QED BY <3>2, <4>1, <2>1, <2>2 DEF Tally
    <3>3. QED BY <3>1, <3>2, <2>3 DEF Tally
  <2>5. QED BY <2>4 DEF Tallied
<1>4. QED BY <1>2, <1>3

LEMMA LockStep == ASSUME Serial PROVE LockInv /\ [Next]_vars => LockInv'
<1> SUFFICES ASSUME LockInv, [Next]_vars
             PROVE  /\ \A r \in Requests : LockCall(r)'
                    /\ \A u \in Users : Tallied(u)'
  BY StreakStep DEF LockInv
<1>t. TypeOK /\ SlotsType
  BY DEF LockInv, StreakInv, CacheInv, TypeOK
<1>1. ASSUME NEW r \in Requests, LockCall(r)', \A u \in Users : Tallied(u)'
      PROVE  /\ \A s \in Requests : LockCall(s)'
             /\ \A u \in Users : Tallied(u)'
  <2>1. \A s \in Requests : s = r
    BY DEF Serial
  <2>2. QED BY <1>1, <2>1
<1>2. ASSUME NEW r \in Requests, RunPs(r) \/ RunTransferCommand(r)
      PROVE  LockCall(r)' /\ \A u \in Users : Tallied(u)'
  <2>1. /\ requests[r].pc = "idle" /\ requests'[r].pc = "command"
        /\ UNCHANGED <<registry, history>>
    BY <1>2, <1>t, Takes
  <2>2. LockCall(r)'
    BY <2>1 DEF LockCall
  <2>3. ~Settling(r) /\ UNCHANGED <<failures, row>>
    BY <2>1 DEF Settling, registry, history
  <2>4. QED BY <2>2, <2>3, LockStays
<1>3. CASE Disconnect \/ RotateAdPassword \/ UNCHANGED vars
  <2>1. UNCHANGED <<requests, failures, row>>
    BY <1>3 DEF Disconnect, RotateAdPassword, vars, registry, world, history
  <2>2. \A r \in Requests : LockCall(r)'
    BY <2>1 DEF LockInv, LockCall, Counted, ThresholdReached, WindowOver
  <2>3. \A u \in Users : Tallied(u)'
    BY <2>1 DEF LockInv, Tallied, Tally, Settling
  <2>4. QED BY <2>2, <2>3
<1>4. ASSUME NEW r \in Requests, ConnectAfterProbe(r)
      PROVE  LockCall(r)' /\ \A u \in Users : Tallied(u)'
  BY <1>4, LockSettles, LockAfterProbe DEF ConnectAfterProbe
<1>5. ASSUME NEW r \in Requests, ConnectBeforeProbe(r) \/ HostAnswer(r)
      PROVE  LockCall(r)' /\ \A u \in Users : Tallied(u)'
  BY <1>5, LockBeforeProbe, LockHostAnswer
<1>6. QED
  BY <1>1, <1>2, <1>3, <1>4, <1>5, LockTick DEF Next

LEMMA LockInitially == Init => LockInv
<1> SUFFICES ASSUME Init PROVE LockInv
  OBVIOUS
<1>1. \A r \in Requests : LockCall(r)
  BY DEF Init, LockCall, Idle
<1>2. \A u \in Users : Tallied(u)
  BY DEF Init, NoFailures, NoRow, Tally, Tallied
<1>3. QED BY StreakInitially, <1>1, <1>2 DEF LockInv

(* TR-SEC-01, of a client that waits for every answer: a password that     *)
(* reached the threshold by connects in a row is not presented by a        *)
(* connect until the window is over or a connect succeeds, with any number *)
(* of passwords, and with passwords that change in Active Directory.       *)
THEOREM SerialLockout == Serial => (Spec => LockedPasswordNotPresented)
<1> SUFFICES ASSUME Serial PROVE Spec => LockedPasswordNotPresented
  OBVIOUS
<1> DEFINE A == \A r \in Requests : Presents(r) /\ requests'[r].pc = "probe" =>
                  ~LockedByConnects(requests'[r].user, requests'[r].password)
<1>1. LockInv /\ [Next]_vars => LockInv'
  BY LockStep
<1>2. LockInv /\ [Next]_vars => [A]_vars
  <2> SUFFICES ASSUME LockInv, [Next]_vars, NEW r \in Requests, Presents(r),
                      requests'[r].pc = "probe"
               PROVE  ~LockedByConnects(requests'[r].user, requests'[r].password)
    OBVIOUS
  <2> DEFINE q == requests[r]
  <2>t. TypeOK /\ SlotsType /\ SlotType(q) /\ StreakCall(r)
    BY DEF LockInv, StreakInv, CacheInv, TypeOK, SlotsType
  <2>1. q.pc = "lookup" /\ Goto(r, "probe")
    BY <2>t, PresentedBy, Takes
  <2>2. /\ requests'[r].user = q.user /\ requests'[r].password = q.password
        /\ q.user \in Users /\ q.password \in Passwords
    BY <2>1, <2>t, Moves DEF SlotType
  <2>3. failures[q.user].password_hash = q.password =>
          failures[q.user].count < MaxAttempts
    BY <2>1, <2>t DEF StreakCall
  <2>4. Tally(q.user)
    BY <2>1, <2>2, Settled DEF Settling
  <2>5. ~LockedByConnects(q.user, q.password)
    BY <2>2, <2>3, <2>4, <2>t, LockNumbers DEF Tally, LockedByConnects
  <2>6. QED BY <2>2, <2>5
<1>3. QED BY LockInitially, <1>1, <1>2, PTL DEF Spec, LockedPasswordNotPresented

=============================================================================
