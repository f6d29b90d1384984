----------------------------- MODULE HostFiles -----------------------------
(***************************************************************************)
(* delete_file, delete_directory, copy_file, move_file, rename_file and    *)
(* create_directory (src/src/server.rs), with the host commands of         *)
(* src/src/ps.rs: one or two scans, one confirmation and one host command  *)
(* that looks at the files again before it changes them.                   *)
(*                                                                         *)
(* Other programs and other calls change the same files between any two    *)
(* steps, and a host command goes on when its answer is lost.              *)
(***************************************************************************)
EXTENDS WritePolicy

CONSTANTS
  FileCalls,       \* calls of the file tools
  FileRequests,    \* what each of them may ask
  Trees,           \* the files of the host at first
  Versions,        \* contents of a file
  Part,            \* the content of a copy that broke off
  Fallback,        \* WINRIG_CONFIRM_FALLBACK
  MaxDisturbances  \* bound: changes by others and further calls

ASSUME FileConstantsAssumption ==
  /\ Part \notin Versions
  /\ Fallback \in {"refuse", "proceed"}
  /\ MaxDisturbances \in Nat

VARIABLES
  fs,            \* the files of the host
  call,          \* the tool call of the server
  script,        \* its host command
  changes,       \* history: what each host command changed
  disturbed,     \* history: calls whose paths others changed since the first check
  disturbances   \* counted for the bound

filesVars == <<fs, call, script, changes, disturbed, disturbances>>

-----------------------------------------------------------------------------

Dirs == LexicalDirs \cup HostRoots

(* What is known of the host: PROTECTED_DIRS and the system roots are      *)
(* directories directly below a volume, or in such a one; the random       *)
(* temporary name of a change of case is not the name of one.              *)
ASSUME DirsAssumption ==
  \A d \in Dirs : d[2] \notin FileCalls /\ \E e \in Dirs : Len(e) = 2 /\ Within(d, e)

Objects == [kind : {"file"}, data : Versions \cup {Part}]
             \cup [kind : {"dir", "link"}, data : {Nothing}]

Kind(p) == IF p \notin Paths \/ fs[p] = Nothing THEN Nothing ELSE fs[p].kind

(* At first the files are trees under the roots of the volumes.            *)
ASSUME TreesAssumption ==
  /\ Nothing \notin Objects \cup {"file", "dir", "link"}
  /\ \A f \in Trees :
       /\ f \in [Paths -> Objects \cup {Nothing}]
       /\ \A p \in Paths : IsRoot(p) => f[p] # Nothing /\ f[p].kind = "dir"
       /\ \A p, q \in Paths : f[p] # Nothing /\ Below(p, q) => f[q] # Nothing /\ f[q].kind = "dir"

Subtrees == [p \in Paths |-> {q \in Paths : Within(q, p)}]

Tree(p) == IF p \in Paths THEN Subtrees[p] ELSE {}

Levels == [p \in Paths |-> {q \in Paths : Within(p, q)}]

(* CreateDirectory makes the missing parents of its target, too, and takes *)
(* a directory that is there.                                              *)
MissingLevels(p) == {q \in Levels[p] : fs[q] = Nothing}

Content(p) == {q \in Tree(p) \ {p} : fs[q] # Nothing}

(* The files under p by their place below it.                              *)
Image(p) == {<<SubSeq(q, Len(p) + 1, Len(q)), fs[q]>> : q \in {r \in Tree(p) : fs[r] # Nothing}}

Nested(p) == \E q \in Content(p) : Kind(q) = "link"

Ready == [pc |-> "idle", request |-> Nothing, kind |-> Nothing, mode |-> Nothing,
          from |-> Nothing, to |-> Nothing, levels |-> {}, answer |-> "open", reply |-> "none"]

NoScript == [pc |-> "none", origin |-> {}, seen |-> FALSE, todo |-> {}, wrote |-> FALSE]

(* A host command that has nothing to look at yet.                         *)
Fresh(pc) == [NoScript EXCEPT !.pc = pc]

AtCall(c, pc) == call[c].pc = pc

AtHost(c, mode, pc) == call[c].mode = mode /\ script[c].pc = pc

Request(c) == call[c].request

(* The name that a change of case goes through.                            *)
TempPath(c) == Append(Parent(call[c].from), c)

MakesLevels(c) ==
  call[c].mode = "create" \/ (call[c].mode = "copy" /\ call[c].kind = "dir")

(* The destination of rename_file is a name in the directory of the source.*)
Renaming(r) ==
  LET p == Append(Parent(r.source.ps), r.target.name)
  IN Written("full", p, r.target.upper, p, p)

(* The path that the prompt names as the target: the one that PowerShell   *)
(* resolves.                                                               *)
RequestedTarget(r) ==
  CASE r.tool \in {"delete_file", "delete_directory"} -> r.source.ps
    [] r.tool = "rename_file" -> Renaming(r).ps
    [] OTHER -> r.target.ps

(* What the prompt of a call shows: the objects at its two paths, and the  *)
(* missing levels that create_directory counts.                            *)
Shown(c) ==
  IF call[c].from = Nothing THEN {}
  ELSE (IF call[c].mode = "create" THEN call[c].levels ELSE Tree(call[c].from))
         \cup Tree(RequestedTarget(Request(c)))

(* What a command may change besides: the place that .NET resolves a       *)
(* relative target to, the temporary name of a change of case, and the     *)
(* parents of a directory that it makes: a copy counts none of them, a     *)
(* creation only those that were missing at the scan.                      *)
Unshown(c) ==
  IF call[c].from = Nothing THEN {}
  ELSE (IF call[c].to # RequestedTarget(Request(c)) THEN Tree(call[c].to) ELSE {})
         \cup (IF call[c].mode = "case" THEN Tree(TempPath(c)) ELSE {})
         \cup (IF MakesLevels(c) THEN Levels[call[c].to] ELSE {})

(* The paths that a call works on.                                         *)
Touched(c) == Shown(c) \cup Unshown(c)

(* The files are a tree at all times.                                      *)
IsTree(f) == \A p \in Paths : f[p] # Nothing => IsRoot(p) \/ (f[Parent(p)] # Nothing /\ f[Parent(p)].kind = "dir")

Modes == {"delete", "tree", "copy", "rename", "case", "cross", "create"}

Asked == {"source", "target", "prompt"}

FilesTypeOK ==
  /\ fs \in [Paths -> Objects \cup {Nothing}] /\ IsTree(fs)
  /\ \A c \in FileCalls :
       /\ call[c].pc \in Asked \cup {"idle", "host", "over"}
       /\ call[c].answer \in {"open", "agreed", "refused"}
       /\ call[c].reply \in {"none", "refused", "ok", "warning", "error", "partial", "both", "lost"}
       /\ AtCall(c, "host") => call[c].reply = "none" /\ script[c].pc # "none"
       /\ AtCall(c, "prompt") => call[c].from \in Paths /\ call[c].to \in Paths
       /\ script[c].pc # "none" => call[c].answer = "agreed"
       /\ script[c].todo \subseteq Paths

FilesInit ==
  /\ fs \in Trees
  /\ call = [c \in FileCalls |-> Ready]
  /\ script = [c \in FileCalls |-> NoScript]
  /\ changes = {} /\ disturbed = {} /\ disturbances = 0

-----------------------------------------------------------------------------
(* The tool call, up to the confirmation.                                  *)

FilesOver(c, reply) ==
  call' = [call EXCEPT ![c].pc = "over", ![c].reply = reply,
                       ![c].answer = IF @ = "open" THEN "refused" ELSE @]

(* The new name in the directory of the written path.                      *)
Beside(r) == IF r.source.form = "full" THEN Full(Append(Parent(r.source.ps), r.target.name))
             ELSE r.source

(* A copy or a move, a new name and a new directory stay among the paths   *)
(* of the instance.                                                        *)
ASSUME RequestsAssumption ==
  \A c \in FileCalls : \A r \in FileRequests[c] :
    /\ r.tool \in {"delete_file", "delete_directory", "copy_file", "move_file", "rename_file",
                   "create_directory"}
    /\ r.tool \in {"copy_file", "move_file", "create_directory"} =>
         r.target.ps \in Paths /\ r.target.net \in Paths
    /\ r.tool = "rename_file" /\ DecideNewName(r.target) =>
         Append(Parent(r.source.ps), r.target.name) \in Paths

(* The lexical verdict on every path that the call would change.           *)
LexicallyAllowed(r) ==
  CASE r.tool = "delete_file"      -> DecideWritePath(r.source)
    [] r.tool = "delete_directory" -> DecideDeletePath(r.source)
    [] r.tool = "copy_file"        -> DecideWritePath(r.target)
    [] r.tool = "move_file"        -> DecideWritePath(r.target) /\ DecideWritePath(r.source)
    [] r.tool = "rename_file"      -> /\ DecideNewName(r.target)
                                      /\ DecideWritePath(r.source)
                                      /\ DecideWritePath(Beside(r))
    [] r.tool = "create_directory" -> DecideWritePath(r.target)

(* Asking for a further call counts as a disturbance of the first.         *)
FileAsk(c) ==
  /\ AtCall(c, "idle")
  /\ LET first == \A d \in FileCalls : AtCall(d, "idle")
         count == disturbances + (IF first THEN 0 ELSE 1)
     IN count =< MaxDisturbances /\ disturbances' = count
  /\ \E r \in FileRequests[c] :
       call' = [call EXCEPT ![c] =
         IF LexicallyAllowed(r)
           THEN [Ready EXCEPT !.request = r,
                   !.pc = IF r.tool = "create_directory" THEN "target" ELSE "source"]
           ELSE [Ready EXCEPT !.request = r, !.pc = "over", !.answer = "refused",
                              !.reply = "refused"]]
  /\ UNCHANGED <<fs, script, changes, disturbed>>

(* No session, a scan without a successful answer, an answer that does not *)
(* parse, a command that is too long: nothing runs.                        *)
FileRefuse(c) ==
  /\ call[c].pc \in Asked
  /\ FilesOver(c, "refused")
  /\ UNCHANGED <<fs, script, changes, disturbed, disturbances>>

Prompt(c, kind, mode, from, to) ==
  call' = [call EXCEPT ![c].pc = "prompt", ![c].kind = kind, ![c].mode = mode,
                       ![c].from = from, ![c].to = to,
                       ![c].levels = IF mode = "create" THEN MissingLevels(RequestedTarget(Request(c)))
                                     ELSE {}]

(* Go on to the scan of the target, with the kind of the source.           *)
GoOn(c, kind, allowed) ==
  IF allowed THEN call' = [call EXCEPT ![c].pc = "target", ![c].kind = kind]
  ELSE FilesOver(c, "refused")

DeleteFile(c, kind) ==
  LET r == Request(c) IN
  /\ r.tool = "delete_file"
  /\ IF DecideFileDelete(r.source, kind)
       THEN Prompt(c, kind, "delete", r.source.ps, r.source.ps)
       ELSE FilesOver(c, "refused")

DeleteDirectory(c, kind) ==
  LET r == Request(c)
      p == r.source.ps
  IN /\ r.tool = "delete_directory"
     /\ IF kind # "file" /\ DecideDeleteScan(r.source, kind, Nested(p), Cardinality(Content(p)), r.cap)
          THEN Prompt(c, kind, "tree", p, p)
          ELSE FilesOver(c, "refused")

CopySource(c, kind) ==
  LET r == Request(c) IN
  /\ r.tool = "copy_file"
  /\ GoOn(c, kind, /\ DecideFileOpSource(r.source, kind, kind = "dir" /\ Nested(r.source.ps), FALSE)
                   /\ DecidePathRelation(r.source.name, r.target.name, kind = "dir"))

(* Test-Path looks where PowerShell resolves the target; the command will  *)
(* act where .NET resolves it.                                             *)
CopyTarget(c, to) ==
  LET r == Request(c)
      kind == call[c].kind
  IN /\ r.tool = "copy_file"
     /\ IF DecideFileOpTarget(to, Kind(to.ps), kind = "dir", r.overwrite)
          THEN Prompt(c, kind, "copy", r.source.ps, to.net)
          ELSE FilesOver(c, "refused")

MoveSource(c, kind) ==
  LET r == Request(c) IN
  /\ r.tool = "move_file"
  /\ GoOn(c, kind, /\ DecideFileOpSource(r.source, kind, FALSE, TRUE)
                   /\ \/ IsCaseOnlyChange(r.source, r.target)
                      \/ DecidePathRelation(r.source.name, r.target.name, kind = "dir"))

(* A change of case is a change of one object: its target is not judged.   *)
MoveTarget(c, to) ==
  LET r == Request(c)
      kind == call[c].kind
  IN /\ r.tool = "move_file"
     /\ IF IsCaseOnlyChange(r.source, r.target)
          THEN Prompt(c, kind, "case", r.source.ps, to.net)
        ELSE IF /\ DecideFileOpTarget(to, Kind(to.ps), kind = "dir", r.overwrite)
                /\ DecideMoveVolume(r.source.ps, to.ps, kind = "dir")
          THEN Prompt(c, kind, IF SameVolume(r.source.ps, to.ps) THEN "rename" ELSE "cross",
                      r.source.ps, to.net)
        ELSE FilesOver(c, "refused")

RenameSource(c, kind) ==
  LET r == Request(c)
      from == Full(r.source.ps)
  IN /\ r.tool = "rename_file"
     /\ GoOn(c, kind, /\ DecideFileOpSource(r.source, kind, FALSE, TRUE)
                      /\ \/ IsCaseOnlyChange(from, Renaming(r))
                         \/ DecidePathRelation(from.name, Renaming(r).name, kind = "dir"))

(* The command gets the path that the server put together.                 *)
RenameTarget(c) ==
  LET r == Request(c)
      kind == call[c].kind
      to == Renaming(r)
  IN /\ r.tool = "rename_file"
     /\ IF IsCaseOnlyChange(Full(r.source.ps), to)
          THEN Prompt(c, kind, "case", r.source.ps, to.ps)
        ELSE IF DecideFileOpTarget(to, Kind(to.ps), kind = "dir", r.overwrite)
          THEN Prompt(c, kind, "rename", r.source.ps, to.ps)
        ELSE FilesOver(c, "refused")

TopMissing(p) ==
  LET missing == MissingLevels(p)
  IN IF missing = {} THEN Nothing ELSE CHOOSE q \in missing : \A s \in missing : Len(q) =< Len(s)

CreateDirectory(c, to) ==
  /\ Request(c).tool = "create_directory"
  /\ IF DecideCreateDirectory(to, Kind(to.ps), TopMissing(to.ps))
       THEN Prompt(c, "dir", "create", to.net, to.net)
       ELSE FilesOver(c, "refused")

(* Get-Item fails on a missing path.                                       *)
ScanSource(c) ==
  /\ AtCall(c, "source")
  /\ LET kind == Kind(Request(c).source.ps) IN
       IF kind = Nothing THEN FilesOver(c, "refused")
       ELSE \/ DeleteFile(c, kind) \/ DeleteDirectory(c, kind)
            \/ CopySource(c, kind) \/ MoveSource(c, kind) \/ RenameSource(c, kind)
  /\ UNCHANGED <<fs, script, changes, disturbed, disturbances>>

ScanTarget(c) ==
  /\ AtCall(c, "target")
  /\ LET to == Request(c).target IN
       CopyTarget(c, to) \/ MoveTarget(c, to) \/ RenameTarget(c) \/ CreateDirectory(c, to)
  /\ UNCHANGED <<fs, script, changes, disturbed, disturbances>>

FirstStep(mode) ==
  CASE mode = "delete" -> "remove" [] mode = "tree" -> "links" [] mode = "create" -> "target"
    [] OTHER -> "source"

StartScript(c) ==
  /\ call' = [call EXCEPT ![c].pc = "host", ![c].answer = "agreed"]
  /\ script' = [script EXCEPT ![c] = Fresh(FirstStep(call[c].mode))]

(* A changed form: the outcome of the confirmation is dropped.             *)
FileConfirmDropped(c) ==
  /\ AtCall(c, "prompt")
  /\ \E answer \in {"agreed", "refused"} :
       call' = [call EXCEPT ![c].pc = "host", ![c].answer = answer]
  /\ script' = [script EXCEPT ![c] = Fresh(FirstStep(call[c].mode))]
  /\ UNCHANGED <<fs, changes, disturbed, disturbances>>

(* The user agrees; or there is no channel and the operator agreed for     *)
(* good.  Everything else is a refusal: a no, a cancelled or a timed out   *)
(* form, a client with another channel, an error.                          *)
FileConfirm(c) ==
  /\ AtCall(c, "prompt")
  /\ \/ /\ Request(c).client = "form" \/ (Request(c).client = "none" /\ Fallback = "proceed")
        /\ StartScript(c)
     \/ FilesOver(c, "refused") /\ UNCHANGED script
  /\ UNCHANGED <<fs, changes, disturbed, disturbances>>

(* The transport gives up, the client goes away or the server stops: the   *)
(* host command goes on.                                                   *)
FileAnswerLost(c) ==
  /\ AtCall(c, "host")
  /\ FilesOver(c, "lost")
  /\ UNCHANGED <<fs, script, changes, disturbed, disturbances>>

-----------------------------------------------------------------------------
(* The host command.                                                       *)

Step(c, pc) == script' = [script EXCEPT ![c].pc = pc]

Ends(c, reply) ==
  /\ script' = [script EXCEPT ![c].pc = "none", ![c].todo = {}]
  /\ IF AtCall(c, "host") THEN FilesOver(c, reply) ELSE UNCHANGED call

(* A changed form: every failure is a plain error.                         *)
BlameNothing(c) == "error"

(* What a thrown error says of the files.                                  *)
Blame(c) ==
  CASE call[c].mode = "copy" -> (IF script[c].wrote THEN "partial" ELSE "error")
    [] call[c].mode = "cross" -> (IF script[c].pc \in {"delete", "look"} THEN "both" ELSE "partial")
    [] OTHER -> "error"

Throws(c) == Ends(c, Blame(c))

(* Any statement may throw.                                                *)
HostThrows(c) ==
  /\ script[c].pc # "none"
  /\ Throws(c)
  /\ UNCHANGED <<fs, changes, disturbed, disturbances>>

(* The other calls that work on a path that changes.                       *)
Disturb(c, new) ==
  disturbed' = disturbed \cup
    {d \in FileCalls \ {c} : script[d].origin # {} /\ \E p \in Touched(d) : new[p] # fs[p]}

Changes(c, new) ==
  /\ fs' = new
  /\ changes' = changes \cup
       {[call |-> c, path |-> p, before |-> fs[p], after |-> new[p]] :
          p \in {q \in Paths : new[q] # fs[q]}}
  /\ Disturb(c, new)
  /\ UNCHANGED disturbances

Looks == UNCHANGED <<fs, changes, disturbed, disturbances>>

At(p, object) == [fs EXCEPT ![p] = object]

(* A subtree is given another name.                                        *)
Renamed(p, q) ==
  [s \in Paths |->
     IF Within(s, q) THEN LET old == p \o SubSeq(s, Len(q) + 1, Len(s))
                          IN IF old \in Paths THEN fs[old] ELSE Nothing
     ELSE IF Within(s, p) THEN Nothing ELSE fs[s]]

(* A subtree fits under another name in the instance.                      *)
Fits(p, q) ==
  q \in Paths /\ \A s \in Content(p) : q \o SubSeq(s, Len(p) + 1, Len(s)) \in Paths

ParentIsDir(p) == Kind(Parent(p)) = "dir"

CheckSource(c) ==
  /\ script[c].pc = "source"
  /\ Looks
  /\ LET from == call[c].from IN
       IF Kind(from) # Nothing /\ Kind(from) # "link" /\ Kind(from) = call[c].kind
         THEN /\ script' = [script EXCEPT ![c].pc = "target", ![c].origin = Image(from)]
              /\ UNCHANGED call
         ELSE Throws(c)

(* What the command finds at the target that it may go on with.            *)
TargetPasses(c) ==
  LET to == call[c].to IN
  \/ Kind(to) = Nothing
  \/ call[c].mode = "case" /\ to = call[c].from
  \/ /\ Kind(to) = "file"
     /\ \/ call[c].mode \in {"copy", "rename", "case", "cross"} /\ Request(c).overwrite
        \/ call[c].mode = "rename" /\ call[c].kind = "dir"

NextStep(c) ==
  CASE call[c].mode = "copy" -> (IF call[c].kind = "dir" THEN "walk" ELSE "copy")
    [] call[c].mode = "cross" -> "copy"
    [] call[c].mode = "rename" -> "move"
    [] call[c].mode = "case" -> "away"
    [] call[c].mode = "create" -> "make"

CheckTarget(c) ==
  /\ script[c].pc = "target"
  /\ Looks
  /\ IF TargetPasses(c)
       THEN /\ script' = [script EXCEPT ![c].pc = NextStep(c), ![c].wrote = NextStep(c) = "copy",
                                        ![c].seen = Kind(call[c].to) # Nothing]
            /\ UNCHANGED call
       ELSE Throws(c)

-----------------------------------------------------------------------------
(* Copies.                                                                 *)

(* A changed form: the copy replaces whatever file is there.               *)
MayWriteAny(c, p) == ParentIsDir(p) /\ Kind(p) \in {Nothing, "file"}

(* A file that appeared after the check is replaced by a call that may     *)
(* replace, and is an error for one that may not.                          *)
MayWrite(c, p) ==
  /\ ParentIsDir(p)
  /\ Kind(p) = Nothing \/ (Kind(p) = "file" /\ Request(c).overwrite)

(* File.Copy may break off, with an error or, when the source shrinks or the *)
(* device is full, without one.                                            *)
CopyFile(c) ==
  /\ script[c].pc = "copy"
  /\ LET from == call[c].from
         to == call[c].to
     IN /\ Kind(from) = "file" /\ from # to /\ MayWrite(c, to)
        /\ \E copy \in {fs[from], [kind |-> "file", data |-> Part]} :
             /\ Changes(c, At(to, copy))
             /\ \/ Step(c, "measure") /\ UNCHANGED call
                \/ copy.data = Part /\ Ends(c, "partial")

(* The lengths of two files agree: other contents may have one length, the *)
(* beginning of a file has another one.                                    *)
MayAgree(a, b) == a = b \/ (a # Part /\ b # Part)

Measured(c) == {o.data : o \in {pair[2] : pair \in script[c].origin}}

(* The length of the source is the one of the first look.                  *)
MeasureCopy(c) ==
  /\ script[c].pc = "measure"
  /\ Looks
  /\ LET to == call[c].to IN
       \/ /\ Kind(to) = "file"
          /\ \A d \in Measured(c) : MayAgree(fs[to].data, d)
          /\ IF call[c].mode = "copy" THEN Ends(c, "ok") ELSE Step(c, "delete") /\ UNCHANGED call
       \/ /\ Kind(to) = "file" => \E d \in Measured(c) : fs[to].data # d
          /\ Throws(c)

(* The tree is listed once, before the first write.                        *)
Walk(c) ==
  /\ script[c].pc = "walk"
  /\ Looks
  /\ IF Nested(call[c].from) THEN Throws(c)
     ELSE /\ script' = [script EXCEPT ![c].pc = "make", ![c].todo = Content(call[c].from),
                                      ![c].wrote = TRUE]
          /\ UNCHANGED call



(* A changed form: also below a file.                                      *)
MayMakeAnything(p) == TRUE

MayMake(p) == \A q \in Levels[p] : Kind(q) \in {Nothing, "dir"}

Directory == [kind |-> "dir", data |-> Nothing]

Made(p) == [q \in Paths |-> IF q \in MissingLevels(p) THEN Directory ELSE fs[q]]

MakeTarget(c) ==
  /\ AtHost(c, "copy", "make")
  /\ MayMake(call[c].to)
  /\ Changes(c, Made(call[c].to))
  /\ Step(c, "items") /\ UNCHANGED call

Destination(c, p) == call[c].to \o SubSeq(p, Len(call[c].from) + 1, Len(p))

CopyItem(c, p) ==
  /\ script[c].pc = "items"
  /\ p \in script[c].todo /\ Parent(p) \notin script[c].todo
  /\ LET dst == Destination(c, p) IN
       /\ dst \in Paths
       /\ \/ Kind(p) = "dir" /\ MayMake(dst) /\ Changes(c, Made(dst))
          \/ Kind(p) = "file" /\ MayWrite(c, dst) /\ Changes(c, At(dst, fs[p]))
  /\ script' = [script EXCEPT ![c].todo = @ \ {p}]
  /\ UNCHANGED call

CopiedAll(c) ==
  /\ script[c].pc = "items" /\ script[c].todo = {}
  /\ Looks
  /\ Ends(c, "ok")

-----------------------------------------------------------------------------
(* Moves.                                                                  *)

(* Replace for a file that was seen at the target, Move for the rest: it   *)
(* fails when there is something by now.  A volume has no other name.      *)
MoveItem(c) ==
  /\ script[c].pc = "move"
  /\ LET from == call[c].from
         to == call[c].to
     IN /\ Kind(from) = call[c].kind /\ from # to /\ ~IsRoot(from)
        /\ IF call[c].kind = "file" /\ script[c].seen THEN Kind(to) = "file"
           ELSE Kind(to) = Nothing /\ ParentIsDir(to) /\ ~Within(to, from) /\ Fits(from, to)
        /\ Changes(c, Renamed(from, to))
  /\ Step(c, "look") /\ UNCHANGED call

MoveAway(c) ==
  /\ script[c].pc = "away"
  /\ LET from == call[c].from IN
       /\ Kind(from) = call[c].kind /\ ~IsRoot(from)
       /\ Kind(TempPath(c)) = Nothing /\ Fits(from, TempPath(c))
       /\ Changes(c, Renamed(from, TempPath(c)))
  /\ Step(c, "back") /\ UNCHANGED call

MoveBack(c) ==
  /\ script[c].pc = "back"
  /\ LET to == call[c].to IN
       /\ Kind(TempPath(c)) = call[c].kind
       /\ Kind(to) = Nothing /\ ParentIsDir(to) /\ ~Within(to, TempPath(c)) /\ Fits(TempPath(c), to)
       /\ Changes(c, Renamed(TempPath(c), to))
  /\ Ends(c, "ok")

(* A changed form: the source goes after any copy that did not throw.      *)
DeleteUnmeasured(c) ==
  /\ script[c].pc \in {"measure", "delete"}
  /\ call[c].mode = "cross"
  /\ Kind(call[c].from) \in {"file", Nothing}
  /\ Changes(c, At(call[c].from, Nothing))
  /\ Step(c, "look") /\ UNCHANGED call

(* File.Delete takes a missing file for deleted.                           *)
DeleteSource(c) ==
  /\ script[c].pc = "delete"
  /\ Kind(call[c].from) \in {"file", Nothing}
  /\ Changes(c, At(call[c].from, Nothing))
  /\ Step(c, "look") /\ UNCHANGED call

-----------------------------------------------------------------------------
(* Creation and deletion.                                                  *)

CreateLevels(c) ==
  /\ AtHost(c, "create", "make")
  /\ MayMake(call[c].to)
  /\ Changes(c, Made(call[c].to))
  /\ Step(c, "look") /\ UNCHANGED call

(* Remove-Item without -Recurse, and without a second look at what it is.  *)
RemoveFile(c) ==
  /\ AtHost(c, "delete", "remove")
  /\ Kind(call[c].from) # Nothing /\ Content(call[c].from) = {}
  /\ Changes(c, At(call[c].from, Nothing))
  /\ Step(c, "look") /\ UNCHANGED call

CheckLinks(c) ==
  /\ script[c].pc = "links"
  /\ Looks
  /\ LET from == call[c].from IN
       IF Kind(from) \in {Nothing, "link"} \/ Nested(from) THEN Throws(c)
       ELSE Step(c, "remove") /\ UNCHANGED call

(* One item after the other, from below.                                   *)
RemoveItem(c) ==
  /\ AtHost(c, "tree", "remove")
  /\ \E p \in Tree(call[c].from) :
       /\ Kind(p) # Nothing /\ Content(p) = {}
       /\ Changes(c, At(p, Nothing))
       /\ IF p = call[c].from THEN Step(c, "look") ELSE UNCHANGED script
  /\ UNCHANGED call

(* The last look of a command at what it did.                              *)
LookAgain(c) ==
  /\ script[c].pc = "look"
  /\ Looks
  /\ LET there == Kind(IF call[c].mode = "create" THEN call[c].to ELSE call[c].from) IN
       CASE call[c].mode \in {"rename", "cross"} ->
              (IF there # Nothing THEN Throws(c) ELSE Ends(c, "ok"))
         [] call[c].mode = "create" -> (IF there # "dir" THEN Throws(c) ELSE Ends(c, "ok"))
         [] OTHER -> Ends(c, IF there # Nothing THEN "warning" ELSE "ok")

-----------------------------------------------------------------------------
(* Another program changes a path.  The system directories stay.           *)

OtherObjects(p) ==
  {o \in Objects \cup {Nothing} : o # fs[p] /\ (o = Nothing \/ o.data # Part)}

Meddle(p) ==
  /\ ~IsRoot(p) /\ p \notin Dirs
  /\ ParentIsDir(p) /\ Content(p) = {}
  /\ disturbances < MaxDisturbances
  /\ \E o \in OtherObjects(p) :
       /\ fs' = At(p, o)
       /\ disturbed' = disturbed \cup
            {d \in FileCalls : script[d].origin # {} /\ p \in Touched(d)}
  /\ disturbances' = disturbances + 1
  /\ UNCHANGED <<call, script, changes>>

(* Changes before a call are the trees it begins with.                     *)
AtWork ==
  \E c \in FileCalls : call[c].pc \notin {"idle", "over"} \/ script[c].pc # "none"

-----------------------------------------------------------------------------

ServerStep(c) == ScanSource(c) \/ ScanTarget(c) \/ FileRefuse(c) \/ FileConfirm(c)

HostWorks(c) ==
  \/ CheckSource(c) \/ CheckTarget(c) \/ CopyFile(c) \/ MeasureCopy(c) \/ Walk(c)
  \/ MakeTarget(c) \/ (\E p \in Paths : CopyItem(c, p)) \/ CopiedAll(c)
  \/ MoveItem(c) \/ MoveAway(c) \/ MoveBack(c) \/ DeleteSource(c)
  \/ CreateLevels(c) \/ RemoveFile(c) \/ CheckLinks(c) \/ RemoveItem(c) \/ LookAgain(c)

FilesNext ==
  \/ \E c \in FileCalls :
       FileAsk(c) \/ ServerStep(c) \/ FileAnswerLost(c) \/ HostWorks(c) \/ HostThrows(c)
  \/ \E p \in Paths : AtWork /\ Meddle(p)

FilesSpec == FilesInit /\ [][FilesNext]_filesVars

(* Scans are answered or fail, a form is answered or times out, and a host *)
(* command ends.                                                           *)
FilesFairness ==
  \A c \in FileCalls :
    WF_filesVars(ServerStep(c)) /\ WF_filesVars(HostWorks(c) \/ HostThrows(c))

FairFilesSpec == FilesSpec /\ FilesFairness

-----------------------------------------------------------------------------

(* DR-5: a file changes only after an agreement, and on a path that the    *)
(* prompt showed or on one of the three kinds it leaves out (Unshown); a   *)
(* refused call never changes one, whoever else is at work.                *)
Consent == INSTANCE ConfirmedChange WITH
  Askers <- FileCalls,
  Places <- Paths,
  shown <- [c \in FileCalls |-> Touched(c)],
  answer <- [c \in FileCalls |-> call[c].answer],
  changed <- [c \in FileCalls |-> {e.path : e \in {f \in changes : f.call = c}}]

FilesConsented == Consent!ConsentSpec

(* TR-FS-08: what was at the target before is replaced only by a call with *)
(* overwrite, only when it is a file, and never becomes a directory or a   *)
(* part of one: also when it appeared after the scan or after the check.   *)
NoSilentReplace ==
  \A e \in changes :
    /\ call[e.call].mode \in {"copy", "rename", "cross", "create"}
    /\ Within(e.path, call[e.call].to) /\ e.before # Nothing
    => Request(e.call).overwrite /\ e.before.kind = "file" /\ e.after.kind = "file"

BelowEntry(p) == \E a \in AllowPaths : Below(p, a)

IsProtected(p) == IsRoot(p) \/ \E d \in Dirs : Within(p, d)

(* A missing level, an entry of the allowlist or one above it, that is     *)
(* made on the way to a directory below the entry, and that no verdict was *)
(* about: every parent of a copy, and a parent of a new directory that the *)
(* scan did not count.                                                     *)
UnjudgedLevel(e) ==
  LET to == call[e.call].to IN
  /\ MakesLevels(e.call) /\ e.path \notin call[e.call].levels
  /\ e.before = Nothing /\ e.after = Directory
  /\ \E a \in AllowPaths : Below(to, a) /\ Within(a, e.path)

(* The target of a change of case, which is not judged, where .NET takes a *)
(* relative name elsewhere.                                                *)
UnjudgedTarget(e) ==
  LET k == call[e.call] IN k.mode = "case" /\ k.to # k.from /\ Within(e.path, k.to)

(* DR-6, TR-FS-07: a protected path changes only below an entry of the     *)
(* allowlist, but for the two places that no verdict was about, and never  *)
(* by delete_directory.                                                    *)
ProtectedKept ==
  \A e \in changes :
    IsProtected(e.path) =>
      /\ BelowEntry(e.path) \/ UnjudgedLevel(e) \/ UnjudgedTarget(e)
      /\ call[e.call].mode # "tree"

(* TR-FS-07: "The target must be a strict descendant of the entry", stated *)
(* of every change of a protected path.                                    *)
OnlyBelowEntries == \A e \in changes : IsProtected(e.path) => BelowEntry(e.path)

(* TR-FS-10: a move never loses the object.  While nobody else touches its *)
(* paths, it is whole at the source, at the target or under the temporary  *)
(* name, also when the command broke off.                                  *)
NothingVanishes ==
  \A c \in FileCalls :
    /\ call[c].mode \in {"rename", "case", "cross"} /\ c \notin disturbed
    /\ script[c].origin # {}
    => \E p \in {call[c].from, call[c].to, TempPath(c)} : Image(p) = script[c].origin

(* What a successful command has done.                                     *)
Effect(c) ==
  LET from == call[c].from
      to == call[c].to
  IN CASE call[c].mode = "copy" -> Image(from) = script[c].origin /\ Image(to) = script[c].origin
       [] call[c].mode = "case" -> Image(to) = script[c].origin
       [] call[c].mode \in {"rename", "cross"} -> Image(to) = script[c].origin /\ Kind(from) = Nothing
       [] call[c].mode = "create" -> Kind(to) = "dir"
       [] OTHER -> Kind(from) = Nothing

Untouched(c) == \A e \in changes : e.call # c

(* A directory copied into itself, by names that do not tell: the server   *)
(* compares the names, and the command walks the source once.              *)
SelfCopy(c) ==
  call[c].mode = "copy" /\ call[c].kind = "dir" /\ Within(call[c].to, call[c].from)

TrueReply(c) ==
  /\ call[c].reply = "ok" => Effect(c) \/ SelfCopy(c)
  /\ call[c].reply = "error" /\ call[c].mode = "copy" => Untouched(c)
  /\ call[c].reply = "both" => Image(call[c].to) = script[c].origin

Answers(c) == AtCall(c, "host") /\ AtCall(c, "over")'

(* TR-FS-09, TR-FS-10: while nobody else touches the paths of a call, a    *)
(* success means the whole effect, but for a directory that was copied     *)
(* into itself, a plain error of a copy means that no file changed, and    *)
(* "both copies remain" that the copy is whole.                            *)
FileRepliesTrue ==
  [][\A c \in FileCalls : Answers(c) /\ c \notin disturbed' => TrueReply(c)']_filesVars

=============================================================================
