------------------------- MODULE ProfileStoreProofs -------------------------
(***************************************************************************)
(* Proofs about the processes of one machine, for every set of processes,  *)
(* of profiles, of commands and of files at first.                         *)
(*                                                                         *)
(* What a step of a process does to the files, the locks and the process   *)
(* is one of thirteen effects (StepEffect); the invariants are shown for the *)
(* effects.                                                                *)
(***************************************************************************)
EXTENDS ProfileStore, TLAPS

-----------------------------------------------------------------------------
(* The shape of the state: which functions and records there are.          *)

Fields == {"command", "pc", "code", "key", "auth", "name", "content", "documents", "refused",
           "ending", "input", "answer"}

Shape ==
  /\ DOMAIN profiles = Names /\ DOMAIN temps = Procs /\ DOMAIN locks = Names
  /\ DOMAIN proc = Procs
  /\ \A d \in Procs : DOMAIN proc[d] = Fields

-----------------------------------------------------------------------------
(* The effects of a step of process d.                                     *)

Early == {"idle", "create"}
Placing == {"rename", "remove", "again"}
Service == {"bind", "check", "log", "serving", "leaving"}
Later == {"placed", "config", "token", "entry"}

(* Only d moves, under the same command.                                   *)
Only(d) ==
  /\ \A e \in Procs : e # d => proc'[e] = proc[e] /\ temps'[e] = temps[e]
  /\ proc'[d].command = proc[d].command

Over(d) ==
  /\ proc'[d].pc = "over" /\ proc'[d].name = proc[d].name
  /\ proc'[d].auth \in {Absent, proc[d].auth} /\ locks' = Released(d)

Stays(d) ==
  /\ proc'[d].name = proc[d].name /\ proc'[d].auth = proc[d].auth /\ locks' = locks

(* The service of stdio is over; its process keeps the lock.               *)
Leaves(d) ==
  /\ proc[d].pc = "serving" /\ proc'[d].pc = "leaving" /\ UNCHANGED <<files, locks, shown>>
  /\ Command(d).tool = "stdio" /\ proc'[d].name = proc[d].name /\ proc'[d].auth = Absent

Ends(d) ==
  /\ Over(d) /\ UNCHANGED files
  /\ shown' = shown \/ (proc[d].pc = "show" /\ shown' = shown \cup {d})

EndsWriting(d) ==
  /\ Over(d) /\ UNCHANGED <<profiles, kept, shown>>
  /\ proc[d].pc = "write" \/ (proc[d].pc = "rename" /\ profiles[proc[d].name] = Missing)

Forgets(d) ==
  /\ Over(d) /\ proc[d].pc = "idle" /\ UNCHANGED <<temps, shown>>
  /\ \E n \in Names : profiles' = [profiles EXCEPT ![n] = Missing] /\ kept' = kept \ {n}

BeforeWriting(d) ==
  /\ Stays(d) /\ UNCHANGED <<files, shown>> /\ proc[d].pc \in Early /\ proc'[d].pc \in Early
  /\ Command(d).tool = "rotate" /\ proc'[d].pc = "create" => Command(d).name \in Names

AfterWriting(d) ==
  /\ Stays(d) /\ UNCHANGED files
  /\ proc[d].pc \in Later /\ proc'[d].pc \in Later \cup {"show"}
  /\ shown' \in {shown, shown \cup {d}}

Serves(d) ==
  /\ Stays(d) /\ UNCHANGED <<files, shown>> /\ proc[d].pc \in Service /\ proc'[d].pc \in Service
  /\ proc[d].pc = "leaving" => proc'[d].pc = "leaving"
  /\ Command(d).tool = "serve" /\ proc[d].pc \in {"bind", "check"} /\ proc'[d].pc \in {"log", "serving"}
       => ~(proc[d].auth # Absent /\ Decrypts(profiles[proc[d].name], proc[d].auth))

Begins(d) ==
  /\ proc[d].pc = "create" /\ proc'[d].pc = "write" /\ UNCHANGED <<files, locks, shown>>
  /\ proc'[d].name \in Names /\ proc'[d].auth = proc[d].auth
  /\ proc'[d].content.form = "good" /\ proc'[d].content.token = d

Opens(d) ==
  /\ proc[d].pc = "idle" /\ proc'[d].pc = "log" /\ UNCHANGED <<files, locks, shown>>
  /\ proc'[d].name = proc[d].name /\ proc'[d].auth \in {Absent, Stranger} \cup shown

Locks(d) ==
  /\ proc[d].pc = "idle" /\ UNCHANGED <<files, shown>>
  /\ proc'[d].pc \in {"bind", "log"} /\ (Command(d).tool = "serve" => proc'[d].pc = "bind")
  /\ proc'[d].auth \in {Absent, Stranger} \cup shown
  /\ proc'[d].name \in Names /\ locks[proc'[d].name] = Nobody
  /\ locks' = [locks EXCEPT ![proc'[d].name] = d]

Writes(d) ==
  /\ Stays(d) /\ UNCHANGED <<profiles, kept, shown>> /\ proc[d].pc = "write" /\ proc'[d].pc = "rename"
  /\ temps' = [temps EXCEPT ![d] = proc[d].content]

Moved(d) ==
  /\ Stays(d) /\ UNCHANGED shown /\ proc[d].pc \in Placing /\ proc'[d].pc \in {"placed", "show"}
  /\ profiles' = [profiles EXCEPT ![proc[d].name] = temps[d]]
  /\ temps' = [temps EXCEPT ![d] = Missing]
  /\ kept' = kept \cup {proc[d].name}

Removes(d) ==
  /\ Stays(d) /\ UNCHANGED <<temps, kept, shown>> /\ proc[d].pc \in Placing /\ proc'[d].pc \in Placing
  /\ proc'[d].pc # "rename"
  /\ profiles' \in {profiles, [profiles EXCEPT ![proc[d].name] = Missing]}

Effect(d) ==
  \/ Ends(d) \/ EndsWriting(d) \/ Forgets(d) \/ BeforeWriting(d) \/ AfterWriting(d) \/ Serves(d)
  \/ Begins(d) \/ Opens(d) \/ Locks(d) \/ Writes(d) \/ Moved(d) \/ Removes(d) \/ Leaves(d)

-----------------------------------------------------------------------------
(* Every step has one of the effects.                                      *)

(* The end of a process, whatever its code.                                *)
LEMMA ExitEffect ==
  ASSUME Shape, NEW d \in Procs, NEW code, Exit(d, code)
  PROVE  /\ Over(d) /\ proc'[d].command = proc[d].command
         /\ DOMAIN proc' = Procs /\ \A e \in Procs : DOMAIN proc'[e] = Fields
         /\ DOMAIN locks' = Names
         /\ \A e \in Procs : e # d => proc'[e] = proc[e]
<1> DEFINE new == [Idle(proc[d].command) EXCEPT !.pc = "over", !.code = code, !.name = proc[d].name,
                                               !.documents = proc[d].documents]
<1>1. proc' = [proc EXCEPT ![d] = new] /\ locks' = Released(d)
  BY DEF Exit, Shape
<1>2. /\ DOMAIN new = Fields /\ new.command = proc[d].command /\ new.pc = "over"
      /\ new.name = proc[d].name /\ new.auth = Absent
  BY DEF Idle, Fields
<1> HIDE DEF new
<1>3. proc'[d] = new /\ DOMAIN proc' = Procs /\ \A e \in Procs : e # d => proc'[e] = proc[e]
  BY <1>1 DEF Shape
<1>4. DOMAIN locks' = Names
  BY <1>1 DEF Released
<1>5. QED BY <1>1, <1>2, <1>3, <1>4 DEF Over, Shape

(* A step to another place in the code.                                    *)
LEMMA ToEffect ==
  ASSUME Shape, NEW d \in Procs, NEW pc, To(d, pc)
  PROVE  /\ Stays(d) /\ proc'[d].pc = pc /\ proc'[d].command = proc[d].command
         /\ proc'[d].content = proc[d].content
         /\ DOMAIN proc' = Procs /\ \A e \in Procs : DOMAIN proc'[e] = Fields
         /\ DOMAIN locks' = Names
         /\ \A e \in Procs : e # d => proc'[e] = proc[e]
  BY DEF To, Stays, Shape, Fields

Result(d) == Effect(d) /\ Only(d) /\ Shape'

(* A process that ends leaves the files as they are.                       *)
LEMMA EndsResult ==
  ASSUME Shape, NEW d \in Procs, NEW code, Exit(d, code), UNCHANGED files,
         shown' = shown \/ (proc[d].pc = "show" /\ shown' = shown \cup {d})
  PROVE  Result(d)
<1>1. Ends(d)
  BY ExitEffect DEF Ends
<1>2. Only(d) /\ Shape'
  BY ExitEffect DEF Only, Shape, files
<1>3. QED BY <1>1, <1>2 DEF Result, Effect

(* A step to another place leaves the files as they are.                   *)
LEMMA GoesShape ==
  ASSUME Shape, NEW d \in Procs, NEW pc, To(d, pc), UNCHANGED files
  PROVE  Only(d) /\ Shape'
  BY ToEffect DEF Only, Shape, files

LEMMA BeforeResult ==
  ASSUME Shape, NEW d \in Procs, To(d, "create"), UNCHANGED <<files, shown>>, proc[d].pc = "idle",
         Command(d).tool = "rotate" => Command(d).name \in Names
  PROVE  Result(d)
<1>1. BeforeWriting(d)
  BY ToEffect DEF BeforeWriting, Early
<1>2. QED BY <1>1, GoesShape DEF Result, Effect

LEMMA AfterResult ==
  ASSUME Shape, NEW d \in Procs, NEW pc \in Later \cup {"show"}, To(d, pc), UNCHANGED files,
         proc[d].pc \in Later, shown' \in {shown, shown \cup {d}}
  PROVE  Result(d)
<1>1. AfterWriting(d)
  BY ToEffect DEF AfterWriting
<1>2. QED BY <1>1, GoesShape DEF Result, Effect

(* The new content of setup and of rotate.                                 *)
LEMMA BeginsResult ==
  ASSUME Shape, NEW d \in Procs, NEW name \in Names, NEW account,
         proc[d].pc = "create", UNCHANGED <<files, locks, shown>>,
         proc' = [proc EXCEPT ![d].pc = "write", ![d].name = name, ![d].content = Content(account, d)]
  PROVE  Result(d)
<1> DEFINE content == Content(account, d)
<1>1. content.form = "good" /\ content.token = d
  BY DEF Content
<1> HIDE DEF content
<1>2. proc' = [proc EXCEPT ![d].pc = "write", ![d].name = name, ![d].content = content]
  BY DEF content
<1>3. Begins(d)
  BY <1>1, <1>2 DEF Begins, Shape, Fields, files
<1>4. Only(d) /\ Shape'
  BY <1>2 DEF Only, Shape, Fields, files
<1>5. QED BY <1>3, <1>4 DEF Result, Effect

LEMMA SetupCommandResult == ASSUME Shape, NEW d \in Procs, SetupCommand(d) PROVE Result(d)
<1>1. UNCHANGED <<files, shown>> /\ proc[d].pc = "idle" /\ Command(d).tool = "setup"
  BY DEF SetupCommand, AtStep
<1>2. To(d, "create") \/ \E code : Exit(d, code)
  BY DEF SetupCommand
<1>3. QED BY <1>1, <1>2, BeforeResult, EndsResult

LEMMA CreateProfileResult == ASSUME Shape, NEW d \in Procs, CreateProfile(d) PROVE Result(d)
<1> DEFINE c == Command(d)
           account == Lower(c.account)
<1>1. UNCHANGED <<files, shown>> /\ proc[d].pc = "create"
  BY DEF CreateProfile, AtStep
<1>2. \/ Exit(d, 2)
      \/ /\ c.name \in Names /\ UNCHANGED locks
         /\ proc' = [proc EXCEPT ![d].pc = "write", ![d].name = c.name, ![d].content = Content(account, d)]
  BY DEF CreateProfile, Usage
<1> HIDE DEF c, account
<1>3. QED BY <1>1, <1>2, EndsResult, BeginsResult

LEMMA RotateCommandResult == ASSUME Shape, NEW d \in Procs, RotateCommand(d) PROVE Result(d)
<1>1. UNCHANGED <<files, shown>> /\ proc[d].pc = "idle"
  BY DEF RotateCommand, AtStep
<1>2. (To(d, "create") /\ Command(d).name \in Names) \/ \E code : Exit(d, code)
  BY DEF RotateCommand
<1>3. QED BY <1>1, <1>2, BeforeResult, EndsResult

(* A profile that is rotated has a name that is a file name.               *)
RotateInv == \A d \in Procs : AtStep(d, "rotate", "create") => Command(d).name \in Names

LEMMA RotateProfileResult ==
  ASSUME Shape, RotateInv, NEW d \in Procs, RotateProfile(d)
  PROVE  Result(d)
<1> DEFINE c == Command(d)
           account == profiles[c.name].account
<1>1. UNCHANGED <<files, shown>> /\ proc[d].pc = "create" /\ c.name \in Names
  BY DEF RotateProfile, AtStep, RotateInv
<1>2. \/ Exit(d, 2)
      \/ /\ ParseFile(profiles[c.name]) /\ UNCHANGED locks
         /\ proc' = [proc EXCEPT ![d].pc = "write", ![d].name = c.name, ![d].content = Content(account, d)]
  BY DEF RotateProfile, Usage
<1> HIDE DEF c, account
<1>3. QED BY <1>1, <1>2, EndsResult, BeginsResult

(* The steps of write_atomic.                                              *)
LEMMA WriteTempResult == ASSUME Shape, NEW d \in Procs, WriteTemp(d) PROVE Result(d)
<1>1. UNCHANGED <<profiles, kept, shown>> /\ proc[d].pc = "write"
  BY DEF WriteTemp
<1>2. CASE temps' = [temps EXCEPT ![d] = proc[d].content] /\ To(d, "rename")
  <2>1. Writes(d)
    BY <1>1, <1>2, ToEffect DEF Writes
  <2>2. Only(d) /\ Shape'
    BY <1>1, <1>2, ToEffect DEF Only, Shape
  <2>3. QED BY <2>1, <2>2 DEF Result, Effect
<1>3. CASE \E left \in {Missing, Partial} : temps' = [temps EXCEPT ![d] = left] /\ Usage(d)
  <2>1. EndsWriting(d)
    BY <1>1, <1>3, ExitEffect DEF EndsWriting, Usage
  <2>2. Only(d) /\ Shape'
    BY <1>1, <1>3, ExitEffect DEF Only, Shape, Usage
  <2>3. QED BY <2>1, <2>2 DEF Result, Effect
<1>4. QED BY <1>2, <1>3 DEF WriteTemp

LEMMA MovesResult ==
  ASSUME Shape, NEW d \in Procs, Moves(d), proc[d].pc \in Placing, UNCHANGED shown
  PROVE  Result(d)
<1>1. To(d, AfterPlacing(d)) /\ AfterPlacing(d) \in {"placed", "show"}
  BY DEF Moves, AfterPlacing
<1>2. Moved(d)
  BY <1>1, ToEffect DEF Moved, Moves
<1>3. Only(d) /\ Shape'
  BY <1>1, ToEffect DEF Only, Shape, Moves
<1>4. QED BY <1>2, <1>3 DEF Result, Effect

LEMMA ReplaceResult == ASSUME Shape, NEW d \in Procs, Replace(d) PROVE Result(d)
<1>1. UNCHANGED shown /\ proc[d].pc = "rename" /\ proc[d].pc \in Placing
  BY DEF Replace, Placing
<1>2. CASE Moves(d)
  BY <1>1, <1>2, MovesResult
<1>3. CASE To(d, "remove") /\ UNCHANGED files
  <2>1. Removes(d)
    BY <1>1, <1>3, ToEffect DEF Removes, Placing, files
  <2>2. QED BY <1>3, <2>1, GoesShape DEF Result, Effect
<1>4. CASE /\ profiles[proc[d].name] = Missing /\ temps' = [temps EXCEPT ![d] = Missing]
           /\ Usage(d) /\ UNCHANGED <<profiles, kept>>
  <2>1. EndsWriting(d)
    BY <1>1, <1>4, ExitEffect DEF EndsWriting, Usage
  <2>2. Only(d) /\ Shape'
    BY <1>4, ExitEffect DEF Only, Shape, Usage
  <2>3. QED BY <2>1, <2>2 DEF Result, Effect
<1>5. QED BY <1>2, <1>3, <1>4 DEF Replace

LEMMA RemoveOldResult == ASSUME Shape, NEW d \in Procs, RemoveOld(d) PROVE Result(d)
<1>1. UNCHANGED <<temps, kept, shown>> /\ proc[d].pc = "remove"
  BY DEF RemoveOld
<1>2. CASE profiles' = [profiles EXCEPT ![proc[d].name] = Missing] /\ To(d, "again")
  <2>1. Removes(d)
    BY <1>1, <1>2, ToEffect DEF Removes, Placing
  <2>2. Only(d) /\ Shape'
    BY <1>1, <1>2, ToEffect DEF Only, Shape
  <2>3. QED BY <2>1, <2>2 DEF Result, Effect
<1>3. CASE Usage(d) /\ UNCHANGED profiles
  BY <1>1, <1>3, EndsResult DEF Usage, files
<1>4. QED BY <1>2, <1>3 DEF RemoveOld

LEMMA PlaceAgainResult == ASSUME Shape, NEW d \in Procs, PlaceAgain(d) PROVE Result(d)
  BY MovesResult, EndsResult DEF PlaceAgain, Placing, Usage

(* The rest of setup.                                                      *)
LEMMA StateDirResult == ASSUME Shape, NEW d \in Procs, StateDir(d) PROVE Result(d)
  BY AfterResult, EndsResult DEF StateDir, AtStep, Later, Usage

LEMMA ReadConfigResult == ASSUME Shape, NEW d \in Procs, ReadConfig(d) PROVE Result(d)
<1> DEFINE next == IF SupportsFileReference(Command(d).client) THEN "token" ELSE "entry"
           documents == <<configs[ConfigPath(d)]>>
<1>1. UNCHANGED <<files, shown>> /\ proc[d].pc = "config" /\ next \in {"token", "entry"}
  BY DEF ReadConfig, AtStep
<1>2. CASE proc' = [proc EXCEPT ![d].documents = documents, ![d].pc = next] /\ UNCHANGED locks
  <2> HIDE DEF next, documents
  <2>1. AfterWriting(d)
    BY <1>1, <1>2 DEF AfterWriting, Stays, Shape, Fields, Later
  <2>2. Only(d) /\ Shape'
    BY <1>1, <1>2 DEF Only, Shape, Fields, files
  <2>3. QED BY <2>1, <2>2 DEF Result, Effect
<1>3. CASE Runtime(d)
  BY <1>1, <1>3, EndsResult DEF Runtime
<1>4. QED BY <1>2, <1>3 DEF ReadConfig

LEMMA WriteTokenFileResult == ASSUME Shape, NEW d \in Procs, WriteTokenFile(d) PROVE Result(d)
<1>1. UNCHANGED files /\ proc[d].pc \in Later
  BY DEF WriteTokenFile, AtStep, Later
<1>2. \/ shown' = shown \cup {d} /\ To(d, "entry")
      \/ Runtime(d) /\ UNCHANGED shown
  BY DEF WriteTokenFile
<1>3. QED BY <1>1, <1>2, AfterResult, EndsResult DEF Runtime, Later

LEMMA WriteConfigResult == ASSUME Shape, NEW d \in Procs, WriteConfig(d) PROVE Result(d)
<1>1. UNCHANGED files /\ proc[d].pc \in Later
  BY DEF WriteConfig, AtStep, Later
<1>2. \/ shown' = shown \cup {d} /\ To(d, "show")
      \/ Runtime(d) /\ UNCHANGED shown
  BY DEF WriteConfig
<1>3. QED BY <1>1, <1>2, AfterResult, EndsResult DEF Runtime

LEMMA PrintTokenResult == ASSUME Shape, NEW d \in Procs, PrintToken(d) PROVE Result(d)
  BY EndsResult DEF PrintToken

(* forget, list and doctor.                                                *)
LEMMA ForgetCommandResult == ASSUME Shape, NEW d \in Procs, ForgetCommand(d) PROVE Result(d)
<1> DEFINE name == Command(d).name
<1>1. UNCHANGED <<temps, shown>> /\ proc[d].pc = "idle"
  BY DEF ForgetCommand, AtStep
<1>2. \/ /\ name \in Names /\ Exit(d, 0)
         /\ profiles' = [profiles EXCEPT ![name] = Missing] /\ kept' = kept \ {name}
      \/ \E code : Exit(d, code) /\ UNCHANGED <<profiles, kept>>
  BY DEF ForgetCommand, Usage
<1> HIDE DEF name
<1>3. CASE /\ name \in Names /\ Exit(d, 0)
           /\ profiles' = [profiles EXCEPT ![name] = Missing] /\ kept' = kept \ {name}
  <2>1. Forgets(d)
    BY <1>1, <1>3, ExitEffect DEF Forgets
  <2>2. Only(d) /\ Shape'
    BY <1>1, <1>3, ExitEffect DEF Only, Shape
  <2>3. QED BY <2>1, <2>2 DEF Result, Effect
<1>4. CASE \E code : Exit(d, code) /\ UNCHANGED <<profiles, kept>>
  BY <1>1, <1>4, EndsResult DEF files
<1>5. QED BY <1>2, <1>3, <1>4

LEMMA ListCommandResult == ASSUME Shape, NEW d \in Procs, ListCommand(d) PROVE Result(d)
<1> DEFINE answer == Summaries
<1>1. UNCHANGED <<files, shown>>
  BY DEF ListCommand
<1>2. CASE Usage(d)
  BY <1>1, <1>2, EndsResult DEF Usage
<1>3. CASE /\ proc' = [proc EXCEPT ![d].pc = "over", ![d].code = 0, ![d].answer = answer]
           /\ locks' = Released(d)
  <2> HIDE DEF answer
  <2>1. Ends(d)
    BY <1>1, <1>3 DEF Ends, Over, Shape, Fields
  <2>2. DOMAIN locks' = Names
    BY <1>3 DEF Released
  <2>3. Only(d) /\ Shape'
    BY <1>1, <1>3, <2>2 DEF Only, Shape, Fields, files
  <2>4. QED BY <2>1, <2>3 DEF Result, Effect
<1>4. QED BY <1>2, <1>3 DEF ListCommand

LEMMA ReadServersResult == ASSUME Shape, NEW d \in Procs, ReadServers(d) PROVE Result(d)
<1>1. PICK document : proc' = [proc EXCEPT ![d].documents = Append(@, document)]
  BY DEF ReadServers
<1>2. UNCHANGED <<files, locks, shown>> /\ proc[d].pc = "idle"
  BY DEF ReadServers, AtStep
<1>3. BeforeWriting(d)
  BY <1>1, <1>2 DEF BeforeWriting, Stays, Shape, Fields, Early
<1>4. Only(d) /\ Shape'
  BY <1>1, <1>2 DEF Only, Shape, Fields, files
<1>5. QED BY <1>3, <1>4 DEF Result, Effect

LEMMA ReadingResult == ASSUME Shape, NEW d \in Procs, Reading(d) PROVE Result(d)
<1>1. CASE DoctorVerdict(d)
  <2>1. PICK code : Exit(d, code)
    BY <1>1 DEF DoctorVerdict
  <2>2. QED BY <1>1, <2>1, EndsResult DEF DoctorVerdict
<1>2. QED BY <1>1, ListCommandResult, ReadServersResult DEF Reading

(* The start of a server.                                                  *)
LEMMA PrepareProfileResult ==
  ASSUME Shape, NEW d \in Procs, NEW secrets, NEW next \in {"bind", "log"},
         PrepareProfile(d, secrets, next), proc[d].pc = "idle", UNCHANGED <<files, shown>>,
         secrets.auth \in {Absent, Stranger} \cup shown,
         Command(d).tool = "serve" => next = "bind"
  PROVE  Result(d)
<1>1. CASE Usage(d)
  BY <1>1, EndsResult DEF Usage
<1>2. ASSUME NEW name \in Select(Command(d).name), locks[name] = Nobody,
             locks' = [locks EXCEPT ![name] = d],
             proc' = [proc EXCEPT ![d].name = name, ![d].pc = next,
                        ![d].key = secrets.key, ![d].auth = secrets.auth]
      PROVE  Result(d)
  <2> DEFINE key == secrets.key
             auth == secrets.auth
  <2>1. name \in Names
    BY DEF Select
  <2>2. proc' = [proc EXCEPT ![d].name = name, ![d].pc = next, ![d].key = key, ![d].auth = auth]
    BY <1>2
  <2>3. auth \in {Absent, Stranger} \cup shown
    OBVIOUS
  <2> HIDE DEF key, auth
  <2>4. /\ proc'[d].name = name /\ proc'[d].pc = next /\ proc'[d].auth = auth
        /\ proc'[d].command = proc[d].command
        /\ DOMAIN proc' = Procs /\ \A e \in Procs : DOMAIN proc'[e] = Fields
        /\ \A e \in Procs : e # d => proc'[e] = proc[e]
    BY <2>2 DEF Shape, Fields
  <2>5. Locks(d)
    BY <1>2, <2>1, <2>3, <2>4 DEF Locks
  <2>6. Only(d) /\ Shape'
    BY <1>2, <2>4 DEF Only, Shape, files
  <2>7. QED BY <2>5, <2>6 DEF Result, Effect
<1>3. QED BY <1>1, <1>2 DEF PrepareProfile

LEMMA ChoicesKnown ==
  ASSUME NEW kind PROVE Choices(kind) \subseteq {Absent, Stranger} \cup shown
  BY DEF Choices

LEMMA RunServeResult == ASSUME Shape, NEW d \in Procs, RunServe(d) PROVE Result(d)
<1>1. UNCHANGED <<files, shown>> /\ proc[d].pc = "idle" /\ Command(d).tool = "serve"
  BY DEF RunServe, AtStep
<1>2. PICK key \in Choices(Command(d).key), auth \in Choices(Command(d).auth) :
        \/ Usage(d)
        \/ proc' = [proc EXCEPT ![d].pc = "log", ![d].auth = auth] /\ UNCHANGED locks
        \/ PrepareProfile(d, [key |-> key, auth |-> auth], "bind")
  BY DEF RunServe
<1>3. auth \in {Absent, Stranger} \cup shown
  BY ChoicesKnown
<1>4. CASE Usage(d)
  BY <1>1, <1>4, EndsResult DEF Usage
<1>5. CASE proc' = [proc EXCEPT ![d].pc = "log", ![d].auth = auth] /\ UNCHANGED locks
  <2>1. Opens(d)
    BY <1>1, <1>3, <1>5 DEF Opens, Shape, Fields
  <2>2. Only(d) /\ Shape'
    BY <1>1, <1>5 DEF Only, Shape, Fields, files
  <2>3. QED BY <2>1, <2>2 DEF Result, Effect
<1>6. CASE PrepareProfile(d, [key |-> key, auth |-> auth], "bind")
  BY <1>1, <1>3, <1>6, PrepareProfileResult
<1>7. QED BY <1>2, <1>4, <1>5, <1>6

LEMMA RunStdioResult == ASSUME Shape, NEW d \in Procs, RunStdio(d) PROVE Result(d)
<1>1. UNCHANGED <<files, shown>> /\ proc[d].pc = "idle" /\ Command(d).tool = "stdio"
  BY DEF RunStdio, AtStep
<1>2. \/ Usage(d)
      \/ \E key \in Choices(Command(d).key) : PrepareProfile(d, [key |-> key, auth |-> Absent], "log")
  BY DEF RunStdio
<1>3. CASE Usage(d)
  BY <1>1, <1>3, EndsResult DEF Usage
<1>4. CASE \E key : PrepareProfile(d, [key |-> key, auth |-> Absent], "log")
  BY <1>1, <1>4, PrepareProfileResult
<1>5. QED BY <1>2, <1>3, <1>4

LEMMA BindProfileResult == ASSUME Shape, NEW d \in Procs, BindProfile(d) PROVE Result(d)
<1> DEFINE content == profiles[proc[d].name]
           next == IF Command(d).tool = "serve" THEN "check" ELSE "serving"
<1>1. UNCHANGED <<files, shown>> /\ proc[d].pc = "bind"
  BY DEF BindProfile
<1>2. CASE Usage(d)
  BY <1>1, <1>2, EndsResult DEF Usage
<1>3. CASE proc' = [proc EXCEPT ![d].content = content, ![d].pc = next] /\ UNCHANGED locks
  <2>1. next \in Service /\ (Command(d).tool = "serve" => next = "check")
    BY DEF Service
  <2> HIDE DEF content, next
  <2>2. /\ Stays(d) /\ proc'[d].pc = next /\ proc'[d].command = proc[d].command
        /\ DOMAIN proc' = Procs /\ \A e \in Procs : DOMAIN proc'[e] = Fields
        /\ \A e \in Procs : e # d => proc'[e] = proc[e]
    BY <1>3 DEF Shape, Fields, Stays
  <2>3. Serves(d)
    BY <1>1, <2>1, <2>2 DEF Serves, Service
  <2>4. Only(d) /\ Shape'
    BY <1>1, <1>3, <2>2 DEF Only, Shape, files
  <2>5. QED BY <2>3, <2>4 DEF Result, Effect
<1>4. QED BY <1>2, <1>3 DEF BindProfile

LEMMA CheckResult ==
  ASSUME Shape, NEW d \in Procs, EnsureAuthTokenIsNotProfileKey(d)
  PROVE  Result(d)
<1>1. UNCHANGED <<files, shown>> /\ proc[d].pc = "check"
  BY DEF EnsureAuthTokenIsNotProfileKey
<1>2. CASE Usage(d)
  BY <1>1, <1>2, EndsResult DEF Usage
<1>3. CASE /\ To(d, "log")
           /\ ~(proc[d].auth # Absent /\ Decrypts(profiles[proc[d].name], proc[d].auth))
  <2>1. Serves(d)
    BY <1>1, <1>3, ToEffect DEF Serves, Service
  <2>2. QED BY <1>1, <1>3, <2>1, GoesShape DEF Result, Effect
<1>4. QED BY <1>2, <1>3 DEF EnsureAuthTokenIsNotProfileKey

LEMMA SetupLoggingResult == ASSUME Shape, NEW d \in Procs, SetupLogging(d) PROVE Result(d)
<1>1. UNCHANGED <<files, shown>> /\ proc[d].pc = "log"
  BY DEF SetupLogging
<1>2. CASE Runtime(d)
  BY <1>1, <1>2, EndsResult DEF Runtime
<1>3. CASE \E pc \in {"serving", "bind"} : To(d, pc)
  <2>1. PICK pc \in {"serving", "bind"} : To(d, pc)
    BY <1>3
  <2>2. Serves(d)
    BY <1>1, <2>1, ToEffect DEF Serves, Service
  <2>3. QED BY <1>1, <2>1, <2>2, GoesShape DEF Result, Effect
<1>4. QED BY <1>2, <1>3 DEF SetupLogging

(* A server at work changes only what it answers and whether it ends.      *)
LEMMA WorksResult ==
  ASSUME Shape, NEW d \in Procs, Serving(d), UNCHANGED <<files, locks, shown>>,
         NEW field \in {"answer", "refused", "ending"}, NEW value,
         proc' = [proc EXCEPT ![d][field] = value]
  PROVE  Result(d)
<1>1. /\ Stays(d) /\ proc'[d].pc = "serving" /\ proc'[d].command = proc[d].command
      /\ DOMAIN proc' = Procs /\ \A e \in Procs : DOMAIN proc'[e] = Fields
      /\ \A e \in Procs : e # d => proc'[e] = proc[e]
  BY DEF Serving, Stays, Shape, Fields
<1>2. Serves(d)
  BY <1>1 DEF Serves, Serving, Service
<1>3. Only(d) /\ Shape'
  BY <1>1 DEF Only, Shape, files
<1>4. QED BY <1>2, <1>3 DEF Result, Effect

LEMMA CloseInputResult == ASSUME Shape, NEW d \in Procs, CloseInput(d) PROVE Result(d)
<1> DEFINE ending == proc[d].pc = "serving"
<1>1. /\ proc[d].pc \in {"serving", "leaving"} /\ UNCHANGED <<files, locks, shown>>
      /\ proc' = [proc EXCEPT ![d].input = "closed", ![d].ending = ending]
  BY DEF CloseInput
<1> HIDE DEF ending
<1>2. /\ Stays(d) /\ proc'[d].pc = proc[d].pc /\ proc'[d].command = proc[d].command
      /\ DOMAIN proc' = Procs /\ \A e \in Procs : DOMAIN proc'[e] = Fields
      /\ \A e \in Procs : e # d => proc'[e] = proc[e]
  BY <1>1 DEF Stays, Shape, Fields
<1>3. Serves(d)
  BY <1>1, <1>2 DEF Serves, Service
<1>4. Only(d) /\ Shape'
  BY <1>1, <1>2 DEF Only, Shape, files
<1>5. QED BY <1>3, <1>4 DEF Result, Effect

LEMMA EndServiceResult == ASSUME Shape, NEW d \in Procs, EndService(d) PROVE Result(d)
<1>1. CASE Exit(d, 0)
  BY <1>1, EndsResult DEF EndService
<1>2. CASE ~Exit(d, 0)
  <2> DEFINE new == [Idle(proc[d].command) EXCEPT !.pc = "leaving",
                       !.code = StdioOutcome(proc[d].refused), !.name = proc[d].name,
                       !.refused = proc[d].refused, !.input = proc[d].input]
  <2>1. /\ proc[d].pc = "serving" /\ Command(d).tool = "stdio" /\ UNCHANGED <<files, locks, shown>>
        /\ proc' = [proc EXCEPT ![d] = new]
    BY <1>2 DEF EndService, Serving, Servers, Shape
  <2>2. /\ DOMAIN new = Fields /\ new.command = proc[d].command /\ new.pc = "leaving"
        /\ new.name = proc[d].name /\ new.auth = Absent
    BY DEF Idle, Fields
  <2> HIDE DEF new
  <2>3. Leaves(d)
    BY <2>1, <2>2 DEF Leaves, Shape
  <2>4. Only(d) /\ Shape'
    BY <2>1, <2>2 DEF Only, Shape, files
  <2>5. QED BY <2>3, <2>4 DEF Result, Effect
<1>3. QED BY <1>1, <1>2

LEMMA WorkingResult == ASSUME Shape, NEW d \in Procs, Working(d) PROVE Result(d)
<1>1. CASE DropRuntime(d)
  <2>1. PICK code : Exit(d, code)
    BY <1>1 DEF DropRuntime
  <2>2. QED BY <1>1, <2>1, EndsResult DEF DropRuntime
<1>2. CASE HttpRequest(d)
  <2>1. PICK value : proc' = [proc EXCEPT ![d].answer = value]
    BY <1>2 DEF HttpRequest
  <2>2. QED BY <1>2, <2>1, WorksResult DEF HttpRequest
<1>3. CASE StdioRequest(d)
  <2>1. PICK value : proc' = [proc EXCEPT ![d].answer = value]
    BY <1>3 DEF StdioRequest
  <2>2. QED BY <1>3, <2>1, WorksResult DEF StdioRequest
<1>4. CASE Refuse(d)
  BY <1>4, WorksResult DEF Refuse
<1>5. CASE Watch(d) \/ Signal(d)
  BY <1>5, WorksResult DEF Watch, Signal
<1>6. QED BY <1>1, <1>2, <1>3, <1>4, <1>5, CloseInputResult, EndServiceResult DEF Working

LEMMA StepEffect == ASSUME Shape, RotateInv, NEW d \in Procs, ProcessStep(d) PROVE Result(d)
<1>1. CASE Setup(d)
  BY <1>1, SetupCommandResult, CreateProfileResult, StateDirResult, ReadConfigResult,
     WriteTokenFileResult, WriteConfigResult DEF Setup
<1>2. CASE Rotate(d)
  BY <1>2, RotateCommandResult, RotateProfileResult DEF Rotate
<1>3. CASE WriteAtomic(d)
  BY <1>3, WriteTempResult, ReplaceResult, RemoveOldResult, PlaceAgainResult DEF WriteAtomic
<1>4. CASE Starting(d)
  BY <1>4, RunServeResult, RunStdioResult, BindProfileResult, CheckResult, SetupLoggingResult
  DEF Starting
<1>5. CASE Crash(d)
  BY <1>5, EndsResult DEF Crash
<1>6. QED
  BY <1>1, <1>2, <1>3, <1>4, <1>5, PrintTokenResult, ForgetCommandResult, ReadingResult,
     WorkingResult DEF ProcessStep

-----------------------------------------------------------------------------
(* The inductive invariant.  A process has no profile before it begins; a  *)
(* server that has one holds its lock; what a process writes is whole, and *)
(* its own token; a token that was handed out is no longer written; a      *)
(* shared secret is a stranger or was handed out.                          *)

IdleInv == \A d \in Procs : proc[d].pc \in Early => proc[d].name = Absent

LockInv ==
  \A d \in Procs : Holds(d) => proc[d].name \in Names /\ locks[proc[d].name] = d

WriteInv ==
  \A d \in Procs : proc[d].pc = "write" =>
    proc[d].name \in Names /\ proc[d].content.form = "good" /\ proc[d].content.token = d

PlaceInv ==
  \A d \in Procs : proc[d].pc \in Placing =>
    proc[d].name \in Names /\ temps[d].form = "good" /\ temps[d].token = d

ShownInv == \A d \in Procs : d \in shown => proc[d].pc \notin Early \cup {"write"} \cup Placing

AuthInv == \A d \in Procs : proc[d].auth \in {Absent, Stranger} \cup shown

KeyInv ==
  \A d \in Procs :
    /\ Command(d).tool = "serve" /\ proc[d].name # Absent /\ proc[d].auth # Absent
    /\ proc[d].pc \in {"log", "serving"}
    => ~Decrypts(profiles[proc[d].name], proc[d].auth)

StoreInv ==
  /\ Shape /\ RotateInv /\ IdleInv /\ LockInv /\ WriteInv /\ PlaceInv /\ ShownInv /\ AuthInv /\ KeyInv
  /\ kept \subseteq Names

LEMMA MissingForm == Missing.form = "missing"
  BY DEF Missing

LEMMA StoreInvInitially == StoreInit => StoreInv /\ NoProfileLost
<1> SUFFICES ASSUME StoreInit PROVE StoreInv /\ NoProfileLost
  OBVIOUS
<1>1. PICK plan \in Plans : proc = [d \in Procs |-> Idle(plan[d])]
  BY DEF StoreInit
<1>2. \A c : /\ DOMAIN Idle(c) = Fields /\ Idle(c).pc = "idle" /\ Idle(c).name = Absent
             /\ Idle(c).auth = Absent
  BY DEF Idle, Fields
<1>3. /\ DOMAIN proc = Procs
      /\ \A d \in Procs : /\ DOMAIN proc[d] = Fields /\ proc[d].pc = "idle" /\ proc[d].name = Absent
                          /\ proc[d].auth = Absent
  BY <1>1, <1>2
<1>4. Shape
  BY <1>3, StoreAssumption DEF Shape, StoreInit
<1>5. RotateInv /\ IdleInv /\ LockInv /\ WriteInv /\ PlaceInv /\ AuthInv /\ KeyInv
  BY <1>3 DEF RotateInv, AtStep, IdleInv, LockInv, WriteInv, PlaceInv, AuthInv, KeyInv, Holds, Placing
<1>6. ShownInv
  BY <1>3, StoreAssumption DEF ShownInv, StoreInit
<1>7. kept \subseteq Names /\ NoProfileLost
  BY DEF StoreInit, NoProfileLost
<1>8. QED BY <1>4, <1>5, <1>6, <1>7 DEF StoreInv

(* No step loosens what the names and the locks say.                       *)
LEMMA LocksKept ==
  ASSUME StoreInv, NEW d \in Procs, Result(d)
  PROVE  RotateInv' /\ IdleInv' /\ LockInv'
<1> USE DEF StoreInv
<1>1. \A e \in Procs : e # d => proc'[e] = proc[e]
  BY DEF Result, Only
<1>2. proc'[d].command = proc[d].command
  BY DEF Result, Only
<1>3. IdleInv'
  <2>1. proc'[d].pc \in Early => proc[d].pc \in Early /\ proc'[d].name = proc[d].name
    BY DEF Result, Effect, Ends, EndsWriting, Forgets, BeforeWriting, AfterWriting, Serves, Leaves, Begins,
           Opens, Locks, Writes, Moved, Removes, Over, Stays, Early, Later, Service, Placing
  <2>2. QED BY <1>1, <2>1 DEF IdleInv
<1>4. RotateInv'
  <2>1. proc'[d].pc = "create" /\ Command(d).tool = "rotate" => Command(d).name \in Names
    BY DEF Result, Effect, Ends, EndsWriting, Forgets, BeforeWriting, AfterWriting, Serves, Leaves, Begins,
           Opens, Locks, Writes, Moved, Removes, Over, Stays, Later, Service, Placing
  <2>2. QED BY <1>1, <1>2, <2>1 DEF RotateInv, AtStep, Command
<1>5. \A e \in Procs : e # d => (Holds(e)' <=> Holds(e))
  BY <1>1 DEF Holds, Command
<1>6. CASE locks' = Released(d) /\ proc'[d].pc = "over"
  <2>1. ~Holds(d)'
    BY <1>6 DEF Holds
  <2>2. \A n \in Names : locks[n] # d => locks'[n] = locks[n]
    BY <1>6 DEF Released
  <2>3. QED BY <1>1, <1>3, <1>4, <1>5, <2>1, <2>2 DEF LockInv
<1>7. CASE Locks(d)
  <2>1. \A e \in Procs : e # d /\ Holds(e) => proc[e].name # proc'[d].name
    BY <1>7, StoreAssumption DEF Locks, LockInv
  <2>2. proc'[d].name \in Names /\ locks'[proc'[d].name] = d
    BY <1>7 DEF Locks, Shape
  <2>3. \A n \in Names : n # proc'[d].name => locks'[n] = locks[n]
    BY <1>7 DEF Locks, Shape
  <2>4. QED BY <1>1, <1>3, <1>4, <1>5, <2>1, <2>2, <2>3 DEF LockInv
<1>8. CASE Serves(d)
  <2>1. Holds(d)' => Holds(d)
    BY <1>2, <1>8 DEF Serves, Stays, Holds, Command, Service
  <2>2. QED BY <1>1, <1>3, <1>4, <1>5, <1>8, <2>1 DEF LockInv, Serves, Stays
<1>12. CASE Leaves(d)
  <2>1. Holds(d)' => Holds(d)
    BY <1>2, <1>12 DEF Leaves, Holds, Command
  <2>2. QED BY <1>1, <1>3, <1>4, <1>5, <1>12, <2>1 DEF LockInv, Leaves
<1>9. CASE Opens(d)
  <2>1. ~Holds(d)'
    BY <1>9 DEF Opens, IdleInv, Early, Holds
  <2>2. QED BY <1>1, <1>3, <1>4, <1>5, <1>9, <2>1 DEF LockInv, Opens
<1>10. CASE BeforeWriting(d) \/ AfterWriting(d) \/ Begins(d) \/ Writes(d) \/ Moved(d) \/ Removes(d)
  <2>1. locks' = locks
    BY <1>10 DEF BeforeWriting, AfterWriting, Begins, Writes, Moved, Removes, Stays
  <2>2. proc'[d].pc \notin Service
    BY <1>10 DEF BeforeWriting, AfterWriting, Begins, Writes, Moved, Removes, Early, Later,
                Placing, Service
  <2>3. ~Holds(d)'
    BY <2>2 DEF Holds, Service
  <2>4. QED BY <1>1, <1>3, <1>4, <1>5, <2>1, <2>3 DEF LockInv
<1>11. QED
  BY <1>3, <1>4, <1>6, <1>7, <1>8, <1>9, <1>10, <1>12 DEF Result, Effect, Ends, EndsWriting, Forgets, Over

(* Nor what is written.                                                    *)
LEMMA ContentKept ==
  ASSUME StoreInv, NEW d \in Procs, Result(d)
  PROVE  WriteInv' /\ PlaceInv' /\ (kept \subseteq Names)'
<1> USE DEF StoreInv
<1>1. \A e \in Procs : e # d => proc'[e] = proc[e] /\ temps'[e] = temps[e]
  BY DEF Result, Only
<1>2. proc'[d].pc = "write" =>
        proc'[d].name \in Names /\ proc'[d].content.form = "good" /\ proc'[d].content.token = d
  BY DEF Result, Effect, Ends, EndsWriting, Forgets, BeforeWriting, AfterWriting, Serves, Leaves, Begins,
         Opens, Locks, Writes, Moved, Removes, Over, Stays, Early, Later, Service, Placing
<1>3. proc'[d].pc \in Placing => proc'[d].name \in Names /\ temps'[d].form = "good" /\ temps'[d].token = d
  <2>1. CASE Writes(d)
    BY <2>1 DEF Writes, Stays, WriteInv, Shape
  <2>2. CASE Removes(d)
    BY <2>2 DEF Removes, Stays, PlaceInv
  <2>3. CASE ~Writes(d) /\ ~Removes(d)
    BY <2>3 DEF Result, Effect, Ends, EndsWriting, Forgets, BeforeWriting, AfterWriting, Serves,
                Leaves, Begins, Opens, Locks, Moved, Over, Early, Later, Service, Placing
  <2>4. QED BY <2>1, <2>2, <2>3
<1>4. (kept \subseteq Names)'
  <2>1. CASE Moved(d)
    BY <2>1 DEF Moved, PlaceInv
  <2>2. CASE ~Moved(d)
    BY <2>2 DEF Result, Effect, Ends, EndsWriting, Forgets, BeforeWriting, AfterWriting, Serves,
                Leaves, Begins, Opens, Locks, Writes, Removes, files
  <2>3. QED BY <2>1, <2>2
<1>5. QED BY <1>1, <1>2, <1>3, <1>4 DEF WriteInv, PlaceInv

(* Nor what the secrets say.                                               *)
LEMMA SecretsKept ==
  ASSUME StoreInv, NEW d \in Procs, Result(d)
  PROVE  ShownInv' /\ AuthInv' /\ KeyInv'
<1> USE DEF StoreInv
<1>1. \A e \in Procs : e # d => proc'[e] = proc[e]
  BY DEF Result, Only
<1>2. shown \subseteq shown' /\ shown' \subseteq shown \cup {d}
  BY DEF Result, Effect, Ends, EndsWriting, Forgets, BeforeWriting, AfterWriting, Serves, Leaves, Begins,
         Opens, Locks, Writes, Moved, Removes
<1>3. ShownInv'
  <2>1. d \in shown' => proc'[d].pc \notin Early \cup {"write"} \cup Placing
    BY DEF Result, Effect, Ends, EndsWriting, Forgets, BeforeWriting, AfterWriting, Serves, Leaves, Begins,
           Opens, Locks, Writes, Moved, Removes, Over, ShownInv, Early, Later, Service, Placing
  <2>2. QED BY <1>1, <1>2, <2>1 DEF ShownInv
<1>4. AuthInv'
  <2>1. proc'[d].auth \in {Absent, Stranger} \cup shown
    BY DEF Result, Effect, Ends, EndsWriting, Forgets, BeforeWriting, AfterWriting, Serves, Leaves, Begins,
           Opens, Locks, Writes, Moved, Removes, Over, Stays, AuthInv
  <2>2. QED BY <1>1, <1>2, <2>1 DEF AuthInv
<1>5. KeyInv'
  <2> DEFINE Exposed(e) == /\ Command(e).tool = "serve" /\ proc[e].name # Absent
                           /\ proc[e].auth # Absent /\ proc[e].pc \in {"log", "serving"}
  <2>1. \A e \in Procs : Exposed(e) => proc[e].name \in Names
    BY DEF LockInv, Holds, Servers
  <2>2. \A e \in Procs : e # d => (Exposed(e)' <=> Exposed(e))
    BY <1>1 DEF Command
  <2>3. Exposed(d)' => /\ proc'[d].auth = proc[d].auth /\ proc'[d].name = proc[d].name
                       /\ profiles' = profiles
                       /\ Exposed(d) \/ ~Decrypts(profiles[proc[d].name], proc[d].auth)
    <3>1. proc'[d].command = proc[d].command
      BY DEF Result, Only
    <3>2. CASE Serves(d)
      BY <3>1, <3>2 DEF Serves, Stays, Service, Command, files
    <3>3. CASE Opens(d)
      BY <3>3 DEF Opens, IdleInv, Early
    <3>4. CASE Locks(d)
      BY <3>1, <3>4 DEF Locks, Command
    <3>5. CASE ~Serves(d) /\ ~Opens(d) /\ ~Locks(d)
      <4>1. proc'[d].pc \notin {"log", "serving"}
        BY <3>5 DEF Result, Effect, Ends, EndsWriting, Forgets, BeforeWriting, AfterWriting,
                    Leaves, Begins, Writes, Moved, Removes, Over, Early, Later, Placing
      <4>2. QED BY <4>1
    <3>6. QED BY <3>2, <3>3, <3>4, <3>5
  <2>4. \A n \in Names : \/ profiles'[n] = profiles[n]
                         \/ profiles'[n] = Missing
                         \/ profiles'[n].token = d /\ d \notin shown
    <3>1. CASE Moved(d)
      BY <3>1 DEF Moved, PlaceInv, ShownInv, Shape
    <3>2. CASE Removes(d) \/ Forgets(d)
      BY <3>2 DEF Removes, Forgets, PlaceInv, Shape
    <3>3. CASE ~Moved(d) /\ ~Removes(d) /\ ~Forgets(d)
      BY <3>3 DEF Result, Effect, Ends, EndsWriting, BeforeWriting, AfterWriting, Serves, Leaves, Begins,
                  Opens, Locks, Writes, files
    <3>4. QED BY <3>1, <3>2, <3>3
  <2>5. \A e \in Procs : Exposed(e) => proc[e].auth # d \/ d \in shown
    BY StoreAssumption DEF AuthInv
  <2>6. \A e \in Procs : e # d /\ Exposed(e)' => ~Decrypts(profiles'[proc'[e].name], proc'[e].auth)
    BY <1>1, <2>1, <2>2, <2>4, <2>5, MissingForm DEF KeyInv, Decrypts, ParseFile
  <2>7. Exposed(d)' => ~Decrypts(profiles'[proc'[d].name], proc'[d].auth)
    BY <2>3 DEF KeyInv, Decrypts
  <2>8. \A e \in Procs : Exposed(e)' => ~Decrypts(profiles'[proc'[e].name], proc'[e].auth)
    BY <2>6, <2>7
  <2>9. QED BY <2>8 DEF KeyInv, Decrypts, Command
<1>6. QED BY <1>3, <1>4, <1>5

LEMMA StoreInvKept == StoreInv /\ [StoreNext]_storeVars => StoreInv'
<1> SUFFICES ASSUME StoreInv, [StoreNext]_storeVars PROVE StoreInv'
  OBVIOUS
<1>1. ASSUME NEW d \in Procs, ProcessStep(d) PROVE StoreInv'
  <2>1. Result(d)
    BY <1>1, StepEffect DEF StoreInv
  <2>2. QED BY <2>1, LocksKept, ContentKept, SecretsKept DEF StoreInv, Result
<1>2. CASE UNCHANGED storeVars
  BY <1>2 DEF storeVars, StoreInv, Shape, RotateInv, AtStep, IdleInv, LockInv, WriteInv, PlaceInv, ShownInv, AuthInv,
              KeyInv, Holds, Command, Decrypts
<1>3. QED BY <1>1, <1>2 DEF StoreNext

THEOREM StoreInvariant == StoreSpec => []StoreInv
<1>1. StoreInit => StoreInv
  BY StoreInvInitially
<1>2. QED BY <1>1, StoreInvKept, PTL DEF StoreSpec

-----------------------------------------------------------------------------
(* The properties.                                                         *)

(* Two servers never have one profile, however many processes start, fail, *)
(* end and crash, in whatever order.                                       *)
THEOREM NeverTwoServers == StoreSpec => []OneServerPerProfile
<1>1. StoreInv => OneServerPerProfile
  BY DEF StoreInv, LockInv, OneServerPerProfile
<1>2. QED BY <1>1, StoreInvariant, PTL

(* The shared secret of a server never opens the file of its profile, by   *)
(* whatever files and rotations.                                           *)
THEOREM AuthTokenNeverKey == StoreSpec => []AuthTokenIsNoKey
<1>1. StoreInv => AuthTokenIsNoKey
  BY DEF StoreInv, KeyInv, AuthTokenIsNoKey, Serving
<1>2. QED BY <1>1, StoreInvariant, PTL

(* A step keeps every profile that was stored: it moves a whole temp file  *)
(* onto a profile, removes a profile beside a whole temp file of its own,  *)
(* or forgets it; no other step touches the temp file of a process that    *)
(* stopped with it.                                                        *)
LEMMA ProfilesKept ==
  ASSUME StoreInv, NoProfileLost, NEW d \in Procs, Result(d)
  PROVE  NoProfileLost'
<1> USE DEF StoreInv
<1> SUFFICES ASSUME NEW n \in kept', profiles'[n] = Missing
             PROVE  \E e \in Procs : Whole(e, n)'
  BY DEF NoProfileLost
<1>1. \A e \in Procs : e # d => proc'[e] = proc[e] /\ temps'[e] = temps[e]
  BY DEF Result, Only
<1>2. \A e \in Procs : e # d /\ Whole(e, n) => Whole(e, n)'
  BY <1>1 DEF Whole
<1>3. n \in Names
  BY ContentKept
<1>4. CASE Moved(d)
  <2>1. n # proc[d].name
    BY <1>4, MissingForm DEF Moved, PlaceInv, Shape
  <2>2. n \in kept /\ profiles[n] = Missing /\ ~Whole(d, n)
    BY <1>4, <2>1 DEF Moved, Whole, Shape
  <2>3. QED BY <1>2, <2>2 DEF NoProfileLost
<1>5. CASE Removes(d)
  <2>1. CASE n = proc[d].name
    BY <1>5, <2>1 DEF Removes, Stays, Whole, PlaceInv, Placing
  <2>2. CASE n # proc[d].name
    <3>1. n \in kept /\ profiles[n] = Missing /\ ~Whole(d, n)
      BY <1>5, <2>2 DEF Removes, Whole, Shape
    <3>2. QED BY <1>2, <3>1 DEF NoProfileLost
  <2>3. QED BY <2>1, <2>2
<1>6. CASE Forgets(d)
  <2>1. n \in kept /\ profiles[n] = Missing
    BY <1>6 DEF Forgets, Shape
  <2>2. Whole(d, n) => Whole(d, n)'
    BY <1>6 DEF Forgets, Over, Whole
  <2>3. QED BY <1>2, <2>1, <2>2 DEF NoProfileLost
<1>7. CASE EndsWriting(d)
  <2>1. n \in kept /\ profiles[n] = Missing /\ ~Whole(d, n)
    BY <1>7 DEF EndsWriting, Whole
  <2>2. QED BY <1>2, <2>1 DEF NoProfileLost
<1>8. CASE \/ Ends(d) \/ BeforeWriting(d) \/ AfterWriting(d) \/ Serves(d) \/ Leaves(d)
           \/ Begins(d) \/ Opens(d) \/ Locks(d)
  <2>1. n \in kept /\ profiles[n] = Missing /\ temps' = temps
    BY <1>8 DEF Ends, BeforeWriting, AfterWriting, Serves, Leaves, Begins, Opens, Locks, files
  <2>2. Whole(d, n) => Whole(d, n)'
    <3>1. CASE Ends(d) \/ BeforeWriting(d) \/ AfterWriting(d) \/ Serves(d) \/ Leaves(d) \/ Opens(d)
      BY <2>1, <3>1 DEF Ends, BeforeWriting, AfterWriting, Serves, Leaves, Opens, Over, Stays, Whole,
                        Early, Later, Service
    <3>2. CASE Begins(d) \/ Locks(d)
      <4>1. proc[d].name = Absent
        BY <3>2 DEF Begins, Locks, IdleInv, Early
      <4>2. QED BY <1>3, <4>1, StoreAssumption DEF Whole
    <3>3. QED BY <1>8, <3>1, <3>2
  <2>3. QED BY <1>2, <2>1, <2>2 DEF NoProfileLost
<1>9. CASE Writes(d)
  <2>1. n \in kept /\ profiles[n] = Missing /\ ~Whole(d, n)
    BY <1>9 DEF Writes, Whole
  <2>2. QED BY <1>2, <2>1 DEF NoProfileLost
<1>10. QED BY <1>4, <1>5, <1>6, <1>7, <1>8, <1>9 DEF Result, Effect

(* A profile that was stored and not forgotten is there, as its file or    *)
(* as a whole temp file, whatever fails and whichever process dies.        *)
THEOREM NeverProfileLost == StoreSpec => []NoProfileLost
<1>1. StoreInit => NoProfileLost
  BY StoreInvInitially
<1>2. StoreInv /\ NoProfileLost /\ [StoreNext]_storeVars => NoProfileLost'
  <2> SUFFICES ASSUME StoreInv, NoProfileLost, [StoreNext]_storeVars PROVE NoProfileLost'
    OBVIOUS
  <2>1. ASSUME NEW d \in Procs, ProcessStep(d) PROVE NoProfileLost'
    BY <2>1, StepEffect, ProfilesKept DEF StoreInv
  <2>2. CASE UNCHANGED storeVars
    BY <2>2 DEF storeVars, NoProfileLost, Whole
  <2>3. QED BY <2>1, <2>2 DEF StoreNext
<1>3. QED BY <1>1, <1>2, StoreInvariant, PTL DEF StoreSpec

-----------------------------------------------------------------------------
(* The identity of a request.                                              *)

Secret(s, d) == <<s[d].key, s[d].auth, s[d].content>>

(* What a step does to the secrets and the answer of a server over HTTP.   *)
KeepsSecret(d) ==
  /\ Secret(proc', d) = Secret(proc, d) /\ proc'[d].answer = proc[d].answer
  /\ proc'[d].pc \notin {"idle", "bind"} /\ (proc[d].pc = "serving" => proc'[d].pc = "serving")

DropsSecret(d) ==
  /\ proc'[d].pc = "over" /\ proc'[d].key = Absent
  /\ proc'[d].content = Missing /\ proc'[d].answer = Absent

TakesSecret(d) ==
  /\ proc[d].pc = "idle" /\ proc'[d].pc \in {"bind", "log"} /\ proc'[d].content = proc[d].content
  /\ proc'[d].answer = proc[d].answer /\ (proc'[d].pc = "bind" => proc'[d].key # Absent)

OpensProfile(d) ==
  /\ proc[d].pc = "bind" /\ proc'[d].pc = "check"
  /\ proc'[d].key = proc[d].key /\ proc'[d].content.token = proc[d].key
  /\ proc'[d].answer = proc[d].answer

(* The answer is that of the code for what the server holds.               *)
IsAnswer(answer, state, d) ==
  \E headers, tool :
    LET mark == Middleware(state, headers)
    IN  answer = [request |-> headers, reply |->
                    IF mark = "rejected" THEN Answer("rejected", NoIdentity)
                    ELSE ToolAnswer(d, tool, IdentityFromParts(state, headers, mark))]

AnswersRequest(d) ==
  /\ proc[d].pc = "serving" /\ proc'[d].pc = "serving" /\ Secret(proc', d) = Secret(proc, d)
  /\ IsAnswer(proc'[d].answer, GateState(d), d)

SecretStep(d) ==
  KeepsSecret(d) \/ DropsSecret(d) \/ TakesSecret(d) \/ OpensProfile(d) \/ AnswersRequest(d)

LEMMA ExitDrops ==
  ASSUME Shape, NEW d \in Procs, NEW code, Exit(d, code)
  PROVE  DropsSecret(d)
<1> DEFINE new == [Idle(proc[d].command) EXCEPT !.pc = "over", !.code = code, !.name = proc[d].name,
                                               !.documents = proc[d].documents]
<1>1. proc' = [proc EXCEPT ![d] = new]
  BY DEF Exit, Shape
<1>2. new.pc = "over" /\ new.key = Absent /\ new.content = Missing /\ new.answer = Absent
  BY DEF Idle
<1> HIDE DEF new
<1>3. proc'[d] = new
  BY <1>1 DEF Shape
<1>4. QED BY <1>2, <1>3 DEF DropsSecret

LEMMA ToKeeps ==
  ASSUME Shape, NEW d \in Procs, NEW pc, pc \notin {"idle", "bind"}, To(d, pc), proc[d].pc # "serving"
  PROVE  KeepsSecret(d)
  BY DEF To, KeepsSecret, Secret, Shape, Fields

LEMMA ServeStep ==
  ASSUME Shape, NEW d \in Procs, Command(d).tool = "serve", RunServe(d)
  PROVE  SecretStep(d)
<1>1. PICK key \in Choices(Command(d).key), auth \in Choices(Command(d).auth) :
        \/ Usage(d)
        \/ proc' = [proc EXCEPT ![d].pc = "log", ![d].auth = auth]
        \/ key # Absent /\ PrepareProfile(d, [key |-> key, auth |-> auth], "bind")
  BY DEF RunServe
<1>2. proc[d].pc = "idle"
  BY DEF RunServe, AtStep
<1>3. CASE Usage(d)
  BY <1>3, ExitDrops DEF Usage, SecretStep
<1>4. CASE proc' = [proc EXCEPT ![d].pc = "log", ![d].auth = auth]
  BY <1>2, <1>4 DEF TakesSecret, SecretStep, Shape, Fields
<1>5. ASSUME key # Absent, NEW name,
             proc' = [proc EXCEPT ![d].name = name, ![d].pc = "bind", ![d].key = key, ![d].auth = auth]
      PROVE  SecretStep(d)
  BY <1>2, <1>5 DEF TakesSecret, SecretStep, Shape, Fields
<1>6. QED BY <1>1, <1>3, <1>4, <1>5 DEF PrepareProfile

LEMMA BindStep ==
  ASSUME Shape, NEW d \in Procs, Command(d).tool = "serve", BindProfile(d)
  PROVE  SecretStep(d)
<1> DEFINE content == profiles[proc[d].name]
<1>1. CASE Usage(d)
  BY <1>1, ExitDrops DEF Usage, SecretStep
<1>2. CASE /\ content.token = proc[d].key
           /\ proc' = [proc EXCEPT ![d].content = content, ![d].pc = "check"]
  <2> HIDE DEF content
  <2>1. QED BY <1>2 DEF BindProfile, OpensProfile, SecretStep, Shape, Fields
<1>3. QED BY <1>1, <1>2 DEF BindProfile, Decrypts

LEMMA RequestStep ==
  ASSUME Shape, NEW d \in Procs, Command(d).tool = "serve", HttpRequest(d)
  PROVE  SecretStep(d)
<1> DEFINE state == GateState(d)
           headers(r) == [r EXCEPT !.mcp = IF @ = "key" THEN proc[d].key ELSE IF @ = "auth" THEN proc[d].auth ELSE @,
                                   !.bearer = IF @ = "key" THEN proc[d].key ELSE IF @ = "auth" THEN proc[d].auth ELSE @]
           reply(h, r) == LET mark == Middleware(state, h)
                          IN  [request |-> h, reply |->
                                 IF mark = "rejected" THEN Answer("rejected", NoIdentity)
                                 ELSE ToolAnswer(d, r, IdentityFromParts(state, h, mark))]
<1>p. PICK r \in Requests : proc' = [proc EXCEPT ![d].answer = reply(headers(r), r)]
  BY DEF HttpRequest
<1>a. \A h : IsAnswer(reply(h, r), state, d)
  <2> HIDE DEF state, headers
  <2>1. QED BY DEF IsAnswer
<1> HIDE DEF state, headers, reply
<1>1. PICK answer : proc' = [proc EXCEPT ![d].answer = answer] /\ IsAnswer(answer, GateState(d), d)
  BY <1>p, <1>a DEF state
<1>2. proc'[d].answer = answer /\ proc'[d].pc = proc[d].pc /\ Secret(proc', d) = Secret(proc, d)
  BY <1>1 DEF Shape, Fields, Secret
<1>3. QED BY <1>1, <1>2 DEF HttpRequest, Serving, AnswersRequest, SecretStep

LEMMA ServerSecrets ==
  ASSUME Shape, NEW d \in Procs, Command(d).tool = "serve", ProcessStep(d)
  PROVE  SecretStep(d)
<1>1. ASSUME NEW code, Exit(d, code) PROVE SecretStep(d)
  BY <1>1, ExitDrops DEF SecretStep
<1>2. ASSUME NEW pc, pc \notin {"idle", "bind"}, To(d, pc), proc[d].pc # "serving" PROVE SecretStep(d)
  BY <1>2, ToKeeps DEF SecretStep
<1>3. CASE \/ Setup(d) \/ Rotate(d) \/ Reading(d) \/ ForgetCommand(d) \/ RunStdio(d)
           \/ StdioRequest(d) \/ Refuse(d) \/ Watch(d) \/ CloseInput(d)
  <2>1. CASE ForgetCommand(d)
    BY <2>1 DEF ForgetCommand, AtStep
  <2>2. CASE ~ForgetCommand(d)
    BY <1>3, <2>2 DEF Setup, SetupCommand, CreateProfile, StateDir, ReadConfig, WriteTokenFile, WriteConfig,
       Rotate, RotateCommand, RotateProfile, Reading, ListCommand, ReadServers, DoctorVerdict,
       RunStdio, StdioRequest, Refuse, Watch, CloseInput, AtStep
  <2>3. QED BY <2>1, <2>2
<1>4. CASE WriteAtomic(d)
  <2>1. AfterPlacing(d) \in {"placed", "show"}
    BY DEF AfterPlacing
  <2>2. QED BY <1>1, <1>2, <1>4, <2>1 DEF WriteAtomic, WriteTemp, Replace, RemoveOld, PlaceAgain, Moves, Usage
<1>5. CASE PrintToken(d) \/ Crash(d) \/ EndService(d) \/ DropRuntime(d)
  BY <1>1, <1>5 DEF PrintToken, Crash, EndService, DropRuntime
<1>6. CASE EnsureAuthTokenIsNotProfileKey(d) \/ SetupLogging(d)
  BY <1>1, <1>2, <1>6 DEF EnsureAuthTokenIsNotProfileKey, SetupLogging, Usage, Runtime
<1>7. CASE Signal(d)
  BY <1>7 DEF Signal, Serving, SecretStep, KeepsSecret, Secret, Shape, Fields
<1>8. QED BY <1>3, <1>4, <1>5, <1>6, <1>7, ServeStep, BindStep, RequestStep
          DEF ProcessStep, Starting, Working

(* A server holds a profile that its token opened, and its last answer is  *)
(* the one of the code for what it holds.                                  *)
IdentityInv(d) ==
  Command(d).tool = "serve" =>
    /\ proc[d].pc \in {"idle", "bind"} => proc[d].content = Missing
    /\ proc[d].pc = "bind" => proc[d].key # Absent
    /\ proc[d].content # Missing => proc[d].key # Absent /\ proc[d].content.token = proc[d].key
    /\ proc[d].answer # Absent => proc[d].pc = "serving" /\ IsAnswer(proc[d].answer, GateState(d), d)

(* A process that takes no part in a step.                                 *)
LEMMA IdentityStays ==
  ASSUME NEW e, proc'[e] = proc[e], IdentityInv(e)
  PROVE  IdentityInv(e)'
<1>1. Command(e)' = Command(e) /\ GateState(e)' = GateState(e)
  BY DEF Command, GateState
<1>2. \A answer, state : IsAnswer(answer, state, e)' <=> IsAnswer(answer, state, e)
  BY <1>1 DEF IsAnswer, ToolAnswer, Config
<1>3. QED BY <1>1, <1>2 DEF IdentityInv

LEMMA IdentityStep ==
  ASSUME Shape, RotateInv, NEW d \in Procs, ProcessStep(d), NEW e \in Procs, IdentityInv(e)
  PROVE  IdentityInv(e)'
<1>1. Command(e)' = Command(e)
  BY StepEffect DEF Result, Only, Command
<1>2. CASE e # d
  <2>1. proc'[e] = proc[e]
    BY <1>2, StepEffect DEF Result, Only
  <2>2. QED BY <2>1, IdentityStays
<1>3. CASE e = d /\ Command(e).tool = "serve"
  <2>1. SecretStep(d)
    BY <1>3, ServerSecrets
  <2>2. GateState(d)' = GateState(d) \/ Secret(proc', d) # Secret(proc, d)
    BY DEF GateState, Secret
  <2>3. \A answer, state : IsAnswer(answer, state, d)' <=> IsAnswer(answer, state, d)
    BY <1>1, <1>3 DEF IsAnswer, ToolAnswer, Config
  <2>4. CASE KeepsSecret(d)
    BY <1>3, <2>2, <2>3, <2>4 DEF KeepsSecret, Secret, IdentityInv
  <2>5. CASE DropsSecret(d)
    BY <1>3, <2>5 DEF DropsSecret, IdentityInv
  <2>6. CASE TakesSecret(d)
    BY <1>3, <2>6 DEF TakesSecret, IdentityInv
  <2>7. CASE OpensProfile(d)
    BY <1>3, <2>7 DEF OpensProfile, IdentityInv
  <2>8. CASE AnswersRequest(d)
    BY <1>3, <2>2, <2>3, <2>8 DEF AnswersRequest, Secret, IdentityInv
  <2>9. QED BY <2>1, <2>4, <2>5, <2>6, <2>7, <2>8 DEF SecretStep
<1>4. QED BY <1>1, <1>2, <1>3 DEF IdentityInv

(* The answer names the profile for its token and for nothing else.        *)
LEMMA AnswerIdentity ==
  ASSUME NEW d \in Procs, IdentityInv(d), Command(d).tool = "serve", proc[d].answer # Absent,
         proc[d].answer.reply.identity.source # "none"
  PROVE  LET presented == PresentedToken(proc[d].answer.request)
             reply == proc[d].answer.reply
             ofProfile == proc[d].content # Missing /\ presented = proc[d].key
         IN  /\ (reply.identity.source = "profile") = ofProfile
             /\ ofProfile => /\ reply.identity.user = proc[d].content.account
                             /\ reply.identity.password = proc[d].key
             /\ ~ofProfile => /\ presented # Absent /\ presented = proc[d].auth
                              /\ reply.identity.password = proc[d].answer.request.password
<1> DEFINE state == GateState(d)
<1>1. IsAnswer(proc[d].answer, state, d)
  BY DEF IdentityInv
<1>2. PICK headers, tool :
        LET mark == Middleware(state, headers)
        IN  proc[d].answer = [request |-> headers, reply |->
                    IF mark = "rejected" THEN Answer("rejected", NoIdentity)
                    ELSE ToolAnswer(d, tool, IdentityFromParts(state, headers, mark))]
  BY <1>1 DEF IsAnswer
<1> DEFINE mark == Middleware(state, headers)
           identity == IdentityFromParts(state, headers, mark)
           presented == PresentedToken(headers)
           reply == proc[d].answer.reply
<1>3. /\ proc[d].answer.request = headers
      /\ reply = IF mark = "rejected" THEN Answer("rejected", NoIdentity) ELSE ToolAnswer(d, tool, identity)
  BY <1>2
<1>4. state.auth = proc[d].auth
      /\ state.key = (IF proc[d].content = Missing THEN Absent ELSE proc[d].key)
      /\ (proc[d].content # Missing => /\ state.account = proc[d].content.account
                                       /\ state.password = proc[d].key)
  BY DEF GateState, IdentityInv
<1>5. \A result, i : Answer(result, i).identity = i
  BY DEF Answer
<1>6. mark \in {"rejected", "profile", "headers"}
      /\ (mark = "profile" => presented # Absent /\ state.key # Absent /\ presented = state.key)
      /\ (mark = "headers" => /\ presented # Absent /\ presented = state.auth
                              /\ ~(state.key # Absent /\ presented = state.key))
  <2> HIDE DEF state
  <2>1. CASE presented = Absent
    BY <2>1 DEF Middleware
  <2>2. CASE presented # Absent /\ state.key # Absent /\ presented = state.key
    BY <2>2 DEF Middleware
  <2>3. CASE presented # Absent /\ ~(state.key # Absent /\ presented = state.key)
    BY <2>3 DEF Middleware
  <2>4. QED BY <2>1, <2>2, <2>3
<1> HIDE DEF state, mark
<1>7. mark # "rejected" /\ reply.identity = identity
  <2>1. CASE mark = "rejected"
    BY <1>3, <1>5, <2>1 DEF NoIdentity
  <2>2. CASE mark # "rejected"
    <3>0. ToolAnswer(d, tool, identity) \in
            {Answer("unknown tool", NoIdentity), Answer("denied", identity),
             Answer("served", identity)}
      BY DEF ToolAnswer
    <3>1. reply.identity \in {NoIdentity, identity}
      <4>1. reply = ToolAnswer(d, tool, identity)
        BY <1>3, <2>2
      <4> HIDE DEF reply, identity
      <4>2. QED BY <1>5, <3>0, <4>1
    <3>2. QED BY <2>2, <3>1 DEF NoIdentity
  <2>3. QED BY <2>1, <2>2
<1>8. /\ mark = "profile" => /\ identity.source = "profile" /\ identity.user = state.account
                             /\ identity.password = state.password
      /\ mark # "profile" => identity.source = "headers" /\ identity.password = headers.password
  BY DEF IdentityFromParts
<1>9. proc[d].content # Missing => proc[d].key # Absent
  BY DEF IdentityInv
<1> HIDE DEF identity
<1>10. QED BY <1>3, <1>4, <1>6, <1>7, <1>8, <1>9

(* Whose password a request over HTTP gets is decided by the secret that   *)
(* it shows, whatever its headers say and whatever setup, rotate and forget*)
(* have made of the file since the server read it (auth_middleware,        *)
(* identity_from_parts).                                                   *)
THEOREM SecretDecides == StoreSpec => []SecretDecidesIdentity
<1> DEFINE Inv == \A d \in Procs : IdentityInv(d)
<1>1. StoreInit => Inv
  <2> SUFFICES ASSUME StoreInit, NEW d \in Procs PROVE IdentityInv(d)
    OBVIOUS
  <2>1. PICK plan \in Plans : proc = [e \in Procs |-> Idle(plan[e])]
    BY DEF StoreInit
  <2>2. \A c : Idle(c).pc = "idle" /\ Idle(c).content = Missing /\ Idle(c).answer = Absent
    BY DEF Idle
  <2>3. QED BY <2>1, <2>2 DEF IdentityInv
<1>2. StoreInv /\ Inv /\ [StoreNext]_storeVars => Inv'
  <2> SUFFICES ASSUME StoreInv, Inv, [StoreNext]_storeVars, NEW e \in Procs PROVE IdentityInv(e)'
    OBVIOUS
  <2>1. ASSUME NEW d \in Procs, ProcessStep(d) PROVE IdentityInv(e)'
    BY <2>1, IdentityStep DEF StoreInv
  <2>2. CASE UNCHANGED storeVars
    BY <2>2, IdentityStays DEF storeVars
  <2>3. QED BY <2>1, <2>2 DEF StoreNext
<1>3. Inv => SecretDecidesIdentity
  BY AnswerIdentity DEF SecretDecidesIdentity
<1> HIDE DEF Inv
<1>4. QED BY <1>1, <1>2, <1>3, StoreInvariant, PTL DEF StoreSpec

-----------------------------------------------------------------------------
(* doctor.                                                                 *)

(* The marks for a refused and for a missing value are none of the values  *)
(* that stand beside them: the settings and their defaults, an exit code.  *)
MarksAreNoValues ==
  /\ \A f : [v \in Known |-> f[v]] # Bad
  /\ \A v \in Known : Default(v) # Bad
  /\ Absent # 0

(* A variable of an old name is no setting.                                *)
LEMMA OldNamesAreNoSettings == RenamedVariables \cap Known = {}
  BY DEF RenamedVariables, Known, Counts, Switches, Lists, Words, Places

LEMMA LoadedSettings ==
  ASSUME NEW vars, LoadConfig(vars) # Bad
  PROVE  /\ LoadConfig(vars) = [v \in Known |-> Setting(vars, v)]
         /\ \A v \in Known : Setting(vars, v) # Bad
  BY DEF LoadConfig

(* A variable read alone has the value that it has in an environment that  *)
(* a server accepts.                                                       *)
LEMMA ReadAlone ==
  ASSUME MarksAreNoValues, NEW vars, NEW v \in Known, Setting(vars, v) # Bad
  PROVE  SettingValue(vars, v) = Canonical(v, Setting(vars, v))
<1>1. CASE Read(vars, v) = Absent
  BY <1>1 DEF SettingValue, Setting
<1>2. CASE Read(vars, v) # Absent
  <2> DEFINE raw == Read(vars, v)
             alone == [only \in {v} |-> raw]
  <2>1. raw \notin Blank
    BY <1>2 DEF Read
  <2>2. /\ Read(alone, v) = raw
        /\ \A u : u # v => Read(alone, u) = Absent
    BY <2>1 DEF Read
  <2> HIDE DEF raw, alone
  <2>3. Setting(alone, v) = Setting(vars, v)
    BY <1>2, <2>2 DEF Setting, raw
  <2>4. \A w \in Known : Setting(alone, w) # Bad
    BY <2>2, <2>3 DEF Setting, MarksAreNoValues
  <2>5. \A old \in RenamedVariables : Read(alone, old) = Absent
    BY <2>2, OldNamesAreNoSettings
  <2>6. LoadConfig(alone) = [w \in Known |-> Setting(alone, w)]
    BY <2>4, <2>5 DEF LoadConfig
  <2>7. LoadConfig(alone) # Bad
    <3> DEFINE f == [w \in Known |-> Setting(alone, w)]
    <3>1. f = [w \in Known |-> f[w]]
      OBVIOUS
    <3> HIDE DEF f
    <3>2. f # Bad
      BY <3>1 DEF MarksAreNoValues
    <3>3. QED BY <2>6, <3>2 DEF f
  <2>8. SettingPairs(LoadConfig(alone))[v] = Canonical(v, Setting(alone, v))
    BY <2>6 DEF SettingPairs
  <2>9. CanonicalSetting(v, raw) = SettingPairs(LoadConfig(alone))[v]
    BY <2>7 DEF CanonicalSetting, alone
  <2>10. QED BY <1>2, <2>3, <2>8, <2>9 DEF SettingValue, raw
<1>3. QED BY <1>1, <1>2

LEMMA SettingsAsCompared ==
  ASSUME MarksAreNoValues, NEW vars, LoadConfig(vars) # Bad
  PROVE  SettingPairs(LoadConfig(vars)) = [v \in Known |-> SettingValue(vars, v)]
<1>1. \A v \in Known : SettingValue(vars, v) = Canonical(v, LoadConfig(vars)[v])
  BY LoadedSettings, ReadAlone
<1>2. QED BY <1>1 DEF SettingPairs

(* What each place of the list of files says.                              *)
LEMMA FileScopes ==
  /\ DOMAIN ConfigFiles = 1..11 /\ Len(ConfigFiles) = 11
  /\ \A i \in 1..11 : ConfigFiles[i].scope \in {"local", "project", "global"}
  /\ \A i \in 1..11 : ConfigFiles[i].scope = "local" => i = 6
  BY DEF ConfigFiles, At

LEMMA LaunchingPairs ==
  ASSUME NEW documents, NEW kind, NEW s \in Launching(documents, kind)
  PROVE  s[1] \in DOMAIN documents /\ s = <<s[1], s[2]>>
  BY DEF Launching

(* The documents of all files.                                             *)
AllRead(documents) == DOMAIN documents = DOMAIN ConfigFiles

(* An entry that its client starts is among those that doctor compares.    *)
LEMMA StartedIsCompared ==
  ASSUME NEW documents, AllRead(documents),
         NEW s \in Launching(documents, "stdio"), InEffect(documents, s)
  PROVE  s \in EffectiveServers(Launching(documents, "stdio"))
<1> SUFFICES ASSUME NEW t \in Launching(documents, "stdio"), t # s, SameServer(s, t)
             PROVE  Precedes(s, t)
  BY DEF EffectiveServers
<1>1. s[1] \in 1..11 /\ t[1] \in 1..11 /\ s[1] # t[1]
  BY LaunchingPairs, FileScopes DEF SameServer, AllRead
<1> DEFINE a == ConfigFiles[s[1]].scope
           b == ConfigFiles[t[1]].scope
<1>2. /\ b # "local" /\ ~(b = "project" /\ a = "global") /\ ~(a = b /\ t[1] < s[1])
  BY DEF InEffect
<1>3. a \in {"local", "project", "global"} /\ b \in {"project", "global"}
  BY <1>1, <1>2, FileScopes
<1>4. Rank(a) < Rank(b) \/ (Rank(a) = Rank(b) /\ a = b)
  BY <1>2, <1>3 DEF Rank
<1> HIDE DEF a, b
<1>5. Rank(a) < Rank(b) \/ (Rank(a) = Rank(b) /\ s[1] < t[1])
  BY <1>1, <1>2, <1>4
<1>6. QED BY <1>5 DEF Precedes, a, b

(* The environments of the entries that the clients start.                 *)
Started(documents) ==
  {StringMap(TableOf(ConfigFiles[s[1]].scope, documents[s[1]])[s[2]].vars) :
     s \in {t \in Launching(documents, "stdio") : InEffect(documents, t)}}

Compared(documents) ==
  {Vars(documents, s) : s \in EffectiveServers(Launching(documents, "stdio"))}

LEMMA NothingFound ==
  ASSUME NEW documents, DoctorCommand(documents) = 0
  PROVE  DoctorDifferences(Compared(documents)) = {} /\ Skipped(documents) = {}
<1> DEFINE nothing == /\ DoctorDifferences(Compared(documents)) = {}
                      /\ Skipped(documents) = {}
                      /\ Launching(documents, "broken") = {}
<1>1. ~nothing => DoctorCommand(documents) = 1
  BY Zenon DEF DoctorCommand, Compared
<1>2. QED BY <1>1

LEMMA DoctorAgrees ==
  ASSUME MarksAreNoValues, NEW documents, AllRead(documents), DoctorCommand(documents) = 0,
         NEW a \in Started(documents), NEW b \in Started(documents),
         LoadConfig(a) # Bad, LoadConfig(b) # Bad
  PROVE  SettingPairs(LoadConfig(a)) = SettingPairs(LoadConfig(b))
<1>1. DoctorDifferences(Compared(documents)) = {} /\ Skipped(documents) = {}
  BY NothingFound
<1>2. ASSUME NEW vars \in Started(documents) PROVE vars \in Compared(documents)
  <2>1. PICK s \in Launching(documents, "stdio") :
          /\ InEffect(documents, s)
          /\ vars = StringMap(TableOf(ConfigFiles[s[1]].scope, documents[s[1]])[s[2]].vars)
    BY <1>2 DEF Started
  <2>2. vars = Vars(documents, s)
    BY <1>1, <2>1 DEF Vars, Table
  <2>3. QED BY <2>1, <2>2, StartedIsCompared DEF Compared
<1>3. a \in Compared(documents) /\ b \in Compared(documents)
  BY <1>2
<1>4. \A v \in Known : SettingValue(a, v) = SettingValue(b, v)
  BY <1>1, <1>3 DEF DoctorDifferences
<1>5. [v \in Known |-> SettingValue(a, v)] = [v \in Known |-> SettingValue(b, v)]
  BY <1>4
<1>6. /\ SettingPairs(LoadConfig(a)) = [v \in Known |-> SettingValue(a, v)]
      /\ SettingPairs(LoadConfig(b)) = [v \in Known |-> SettingValue(b, v)]
  BY SettingsAsCompared
<1>7. QED BY <1>5, <1>6

(* doctor reads one document after another; its verdict is about all.      *)
VerdictInv(d) ==
  Command(d).tool = "doctor" =>
    /\ proc[d].pc \in {"idle", "over"} /\ (proc[d].pc = "idle" => proc[d].code = Absent)
    /\ \E S : proc[d].documents \in Seq(S)
    /\ proc[d].code = 0 => /\ Len(proc[d].documents) = Len(ConfigFiles)
                           /\ DoctorCommand(proc[d].documents) = 0

(* Of all steps, doctor takes these two.                                   *)
LEMMA DoctorSteps ==
  ASSUME NEW d \in Procs, Command(d).tool = "doctor", proc[d].pc \in {"idle", "over"}, ProcessStep(d)
  PROVE  ReadServers(d) \/ DoctorVerdict(d)
<1>1. ~Setup(d) /\ ~Rotate(d)
  BY DEF Setup, SetupCommand, CreateProfile, StateDir, ReadConfig, WriteTokenFile, WriteConfig,
         Rotate, RotateCommand, RotateProfile, AtStep
<1>2. ~WriteAtomic(d) /\ ~PrintToken(d) /\ ~ForgetCommand(d) /\ ~ListCommand(d) /\ ~Crash(d)
  BY DEF WriteAtomic, WriteTemp, Replace, RemoveOld, PlaceAgain, PrintToken, ForgetCommand,
         ListCommand, Crash, AtStep
<1>3. ~Starting(d) /\ ~Working(d)
  BY DEF Starting, RunServe, RunStdio, BindProfile, EnsureAuthTokenIsNotProfileKey, SetupLogging,
         Working, HttpRequest, StdioRequest, Refuse, Watch, Signal, CloseInput, EndService,
         DropRuntime, Serving, AtStep
<1>4. QED BY <1>1, <1>2, <1>3 DEF ProcessStep, Reading

LEMMA VerdictStep ==
  ASSUME Shape, MarksAreNoValues, NEW d \in Procs, Command(d).tool = "doctor", VerdictInv(d), ProcessStep(d)
  PROVE  VerdictInv(d)'
<1>1. ReadServers(d) \/ DoctorVerdict(d)
  BY DoctorSteps DEF VerdictInv
<1>2. CASE ReadServers(d)
  <2>1. PICK document : proc' = [proc EXCEPT ![d].documents = Append(@, document)]
    BY <1>2 DEF ReadServers
  <2>2. /\ proc'[d].pc = proc[d].pc /\ proc'[d].code = proc[d].code
        /\ proc'[d].documents = Append(proc[d].documents, document)
    BY <2>1 DEF Shape, Fields
  <2>3. proc[d].pc = "idle"
    BY <1>2 DEF ReadServers, AtStep
  <2>4. PICK S : proc[d].documents \in Seq(S)
    BY DEF VerdictInv
  <2>5. proc[d].documents \in Seq(S \cup {document})
    BY <2>4
  <2>6. proc'[d].documents \in Seq(S \cup {document})
    BY <2>2, <2>5
  <2>7. QED BY <2>2, <2>3, <2>6 DEF VerdictInv, MarksAreNoValues
<1>3. CASE DoctorVerdict(d)
  <2> DEFINE code == DoctorCommand(proc[d].documents)
             new == [Idle(proc[d].command) EXCEPT !.pc = "over", !.code = code, !.name = proc[d].name,
                                                  !.documents = proc[d].documents]
  <2>1. proc' = [proc EXCEPT ![d] = new] /\ Len(proc[d].documents) = Len(ConfigFiles)
    BY <1>3 DEF DoctorVerdict, Exit, Shape
  <2>2. new.pc = "over" /\ new.code = code /\ new.documents = proc[d].documents
    BY DEF Idle
  <2> HIDE DEF new
  <2>3. proc'[d] = new
    BY <2>1 DEF Shape
  <2>4. QED BY <2>1, <2>2, <2>3 DEF VerdictInv
<1>4. QED BY <1>1, <1>2, <1>3

(* When doctor finds nothing, the servers that the documents start and     *)
(* that accept their environment run with the same settings, for every     *)
(* content of the documents and of the tables of texts (doctor_command).   *)
THEOREM DoctorIsRight == MarksAreNoValues => (StoreSpec => []DoctorTrue)
<1> SUFFICES ASSUME MarksAreNoValues PROVE StoreSpec => []DoctorTrue
  OBVIOUS
<1> DEFINE Inv == \A d \in Procs : VerdictInv(d)
<1>1. StoreInit => Inv
  <2> SUFFICES ASSUME StoreInit, NEW d \in Procs PROVE VerdictInv(d)
    OBVIOUS
  <2>1. PICK plan \in Plans : proc = [e \in Procs |-> Idle(plan[e])]
    BY DEF StoreInit
  <2>2. \A c : Idle(c).pc = "idle" /\ Idle(c).code = Absent /\ Idle(c).documents = << >>
    BY DEF Idle
  <2>3. << >> \in Seq({})
    OBVIOUS
  <2>4. QED BY <2>1, <2>2, <2>3 DEF VerdictInv, MarksAreNoValues
<1>2. StoreInv /\ Inv /\ [StoreNext]_storeVars => Inv'
  <2> SUFFICES ASSUME StoreInv, Inv, [StoreNext]_storeVars, NEW e \in Procs PROVE VerdictInv(e)'
    OBVIOUS
  <2>1. ASSUME NEW d \in Procs, ProcessStep(d) PROVE VerdictInv(e)'
    <3>1. Only(d)
      BY <2>1, StepEffect DEF StoreInv, Result
    <3>2. CASE e # d
      BY <3>1, <3>2 DEF Only, VerdictInv, Command
    <3>3. CASE e = d
      BY <2>1, <3>1, <3>3, VerdictStep DEF StoreInv, Only, VerdictInv, Command
    <3>4. QED BY <3>2, <3>3
  <2>2. CASE UNCHANGED storeVars
    BY <2>2 DEF storeVars, VerdictInv, Command
  <2>3. QED BY <2>1, <2>2 DEF StoreNext
<1>3. Inv => DoctorTrue
  <2> SUFFICES ASSUME Inv, NEW d \in Procs, Command(d).tool = "doctor", proc[d].code = 0,
                      NEW a \in Started(proc[d].documents), LoadConfig(a) # Bad,
                      NEW b \in Started(proc[d].documents), LoadConfig(b) # Bad
               PROVE  SettingPairs(LoadConfig(a)) = SettingPairs(LoadConfig(b))
    BY DEF DoctorTrue, Started
  <2>1. DoctorCommand(proc[d].documents) = 0 /\ AllRead(proc[d].documents)
    BY FileScopes DEF VerdictInv, AllRead
  <2>2. QED BY <2>1, DoctorAgrees
<1> HIDE DEF Inv
<1>4. QED BY <1>1, <1>2, <1>3, StoreInvariant, PTL DEF StoreSpec

=============================================================================
