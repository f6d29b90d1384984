# winrig in TLA+

winrig is an MCP server: a client (an agent) calls tools, and the server runs
PowerShell on Windows hosts over WinRM with the Active Directory account of the
user. This directory holds TLA+ models of the parts of winrig whose state is
shared by concurrent calls, by the server and processes on the host, or by
several processes of one machine; the TLC configurations that check them; and
machine-checked proofs.

File names below are relative to the repository; `server.rs` is
`src/server.rs` of the crate, and so on.

## 1. Inventory

| Component | State | Operations | Interacts with | Modelled in |
|---|---|---|---|---|
| Session registry (`session.rs`) | password cache, failure entries, lockout streaks, refused profiles, sessions; one mutex each | connect, disconnect, run_ps, run_transfer_command, idle expiry | every tool call; the host answers the probe and the commands | `SessionRegistry` |
| WinRM transport (`session.rs`) | one shell per call; a guard that ends a stdin command | run_powershell, run_powershell_stdin, probe | registry; winrm-rs library (external) | `StdinCall`, `WindowCall` |
| Tool server (`server.rs`) | none of its own; one future per call, dropped when the client goes away | about 50 tools: policy, scan, confirmation, command, reply | registry, policy, `ps.rs` | the modules of the tools, `ConfirmedChange` |
| upload_file (`server.rs`, `ps.rs`) | `UploadState`, host temp file, `UploadGuard` | prepare, scan, confirm, send windows, commit, remove, audit | local transfer directory, host processes | `UploadTransfer` |
| download_file (`server.rs`) | local temp file, `TransferGuard` | confirm, read windows, hash, place, audit, stale cleanup | host file that others write, local file system | `DownloadTransfer` |
| write_file, run_script (`server.rs`, `session.rs`, `ps.rs`) | host temp or staging file | a plan of host commands, one awaited after the other | host processes | `StagedSteps` |
| File operations (`server.rs`, `ps.rs`) | host files | delete, copy, move, rename, create | a host command that repeats the checks of the scan | `HostFiles` |
| Services, processes, registry keys (`server.rs`, `ps.rs`) | host state | start, stop, restart, start type, kill, set, flush, run | the same shape | `HostChanges` |
| Policy (`policy.rs`) | none | pure decisions on paths, hosts, commands, services | configuration | `WritePolicy`, `RequestGate` |
| Profile store (`profile.rs`) | one encrypted file per profile | create, rotate, load, list, forget | several processes of the command line | `ProfileStore` |
| Process lock (`paths.rs`) | one locked file per profile | acquire, release by end or death | servers | `ProfileStore` |
| HTTP gate (`auth.rs`, `identity.rs`) | none | check origin, secret, user headers | registry | `RequestGate` |
| Lifecycle (`app.rs`) | listener, stdio watcher | serve, stdio, shut down | everything: a shutdown drops all futures and tasks | `ProfileStore` |
| Configuration (`config.rs`) | none after the start | read and check the environment, canonical form for doctor | every part | `Settings` |
| Client configuration (`client_config.rs`) | files of MCP clients | write an entry, read all entries | setup, doctor | `ClientConfigs` |
| Logging, output limits, private files, command line | files | formatting, writing | - | - |

What is hard here, and what makes each component correct:

* **Registry.** Tool calls run on a multi-threaded runtime, and `connect` takes
  up to five mutexes one after the other, with an await between; every decision
  may be stale when it takes effect. Correct means: a rejected password is not
  presented again in its lockout window (TR-SEC-01), a profile that was rejected
  over two lockouts is refused (AC-PRF-56), sessions follow the password and
  never cross users (DR-3, TR-SEC-13).
* **Transfers.** A call is a chain of awaits, and the client may drop it at each
  one; the host process of a lost answer lives on; local and host files belong
  to other programs too. Correct means: the target changes only as a whole, only
  to what the user confirmed, only over a file the user agreed to replace, and
  the audit never denies a change (TR-XFER-02, TR-XFER-04); temp files go away.
* **Staged writes and scripts.** The same, without a guard and without a digest
  for `write_file`; what runs must be the confirmed script (TR-FS-05, TR-EXE-06).
* **Calls with standard input.** The end of the host command, a send that fails,
  the time limit and a caller that goes away race for one answer and one shell.
  Correct means: an exit code is that of the command, an error comes after the
  signal, the shell goes (TR-XFER-04).
* **Confirmed host operations.** A scan, a prompt and a host command, between
  which other programs and other calls change the host. Correct means: a call
  changes only what its prompt showed and only after an agreement (DR-5); nothing
  is replaced silently (TR-FS-08), no object of a move is lost (TR-FS-10), what
  is protected stays (DR-6, TR-SEC-15), and a half-done stop is told (TR-REL-18).
* **Profile store, lock, start of a server.** Several processes read, change and
  replace one file without a lock, fail at each file system step and die. Correct
  means: one server per profile, no stored profile lost, a shared secret that is
  never the key of the profile (AC-PRF-50), an identity that the secret decides.
* **Settings and doctor.** doctor parses one variable at a time, a server all of
  them; correct means that "no difference" is true.
* **Policy.** Pure functions over paths; hard by their many cases.

The list of concrete hazards with their lines, and the property that covers
each, is in `PROJECT.json`.

## 2. Plan

| Order | Module | Content | State |
|---|---|---|---|
| 1 | `SessionRegistry`, `SessionRegistryProofs` | the registry at the grain of its critical sections | checked, proved |
| 2 | `FilePlacement` | abstract specification: what a transfer promises about its target | - |
| 3 | `UploadTransfer`, `UploadTransferProofs` | upload_file with host processes; implements `FilePlacement` | checked, proved |
| 4 | `DownloadTransfer`, `DownloadTransferProofs` | download_file; implements `FilePlacement` | checked, proved |
| 5 | `StagedSteps`, `StagedStepsProofs` | write_file and run_script; the writes implement `FilePlacement` | checked, proved |
| 6 | `WindowCall`, `StdinCall` | what the upload relies on in the transport, and the call that keeps it | checked, safety proved in `UploadTransferProofs` |
| 7 | `ConfirmedChange`, `WritePolicy`, `HostFiles`, `HostFilesProofs` | consent as an abstract specification; the file tools, which implement it | checked, all but liveness proved |
| 8 | `HostChanges`, `HostChangesProofs` | services, processes, registry; implements `ConfirmedChange` | checked, all but liveness proved |
| 9 | `MCHostOperations`, `HostOperationsProofs` | the file tools, the changes and the plans of host commands in one run | checked, all but liveness proved |
| 10 | `Settings`, `ClientConfigs`, `RequestGate`, `ProfileStore`, `ProfileStoreProofs` | the processes of one machine and their files | checked, all but liveness proved |
| 11 | path normalization | texts of Windows paths against a reference definition | open |

The specifications are written to be proved about: no `RECURSIVE` operator,
parameters with named assumptions, one action per step of the code.

## 3. Modules

### SessionRegistry

One action per critical section of `connect` (`session.rs:730-962`), per lookup
of a command, and per answer of the host. A call lives in a slot of `requests`;
its `pc` names the section it enters next. The maps of the code are functions
with `None` (or a count of 0) for a missing key. Passwords are model values: the
SHA-256 digest of a password is the password itself, since only equality is
used. Instants are kept as ticks since the event, and stop at their limit.
`Tick` may come between two sections when `SlowSections` is TRUE; the runs with
one client keep sections short, because the properties of that client are about
the order of calls and not about a call that takes a whole window.
Active Directory is `valid`: the password it accepts now, which
`RotateAdPassword` changes. `rejections`, `accepted`, `attempts` and `row` are
history. Three properties share what TR-SEC-01 says of the lockout:
`LockedPasswordNotPresented` is what the code keeps, that connect does not present
a password with which connects in a row reached the threshold (`row`). Two
properties, each of a violation run, are the rest of it: `ConnectKeepsWindow`, that
other passwords in between change nothing, and `CommandKeepsWindow`, that commands
of a session do not present a locked password (a command records no failure,
`session.rs:1119-1199`).

Left out: command numbers, audit lines, the reply texts, the truncation of
output. `already_connected` compares the host only, as the model does.

### FilePlacement

The abstract specification of a transfer: promise, place, report. `Place` is the
only step of a call that touches the target, at most once, to exactly the
promised content, and over an existing file only for a call in `Replacing`. A
report may be "placed" only after and "untouched" only without a placement, and
after "untouched" no placement may follow. `Elsewhere` lets other programs
change the target, so that an implementation is not credited with a target that
nobody else touches.

A refinement to it says something although `Elsewhere` exists: `placed` is a
history variable set by exactly the action that moves the temp file, so a step
of a call can only be `Place` or a stutter of the target.

### UploadTransfer

A file is the sequence of its windows. `Ask`, `ScanTarget` and `Confirm` are the
preparation: the local file is hashed while its owner may change it, its size is
compared with the limit, the target is scanned, and the prompt shows both. The
future of the call then moves between awaits (`open`, `read`, `chunk`, `eof`,
`commit`, `remove`); the host processes it starts move on their own: `work` is
the last window or placement command, `removal` the last removal. A cancelled
call leaves its processes running, as WinRM does. `UploadGuard` is `Cancel` and
`CleanupTask`; `remove_host_temp` is the three-step removal (`delete`, `test`,
answer). The signal of `CallGuard` ends a window that its call left, or does not:
its result is ignored (`session.rs:397`), and a start whose answer was lost has no
command to signal. So a window may outlive its call (`Left`), and when it is the
first one it may create the temp file after the removal was proven (`Revived`, the
one exception of `ProvenGone`); a later window finds no file to extend and fails.

Bounds: windows of a file, the transfer limit in windows, one cancelled call's
removals one at a time, `MaxLost` lost answers and `MaxChanges` changes by
others. Abstractions: the hash of the prepared file is taken of one moment; a
window is appended at once; the host process is not killed between the
replacement and its "placed" line (`server.rs:4583` would report such a placement
as failed).

### WindowCall and StdinCall

`WindowCall` is what `UploadTransfer` takes for granted of a host command with
input: it answers in the end, an exit code belongs to a command that ended, an
error comes after the signal when the command has a name, and its shell goes.
`StdinCall` is the code (`session.rs:250-520`): open a shell, start the command,
send the parts, collect the output; after a failed send, drain; at the limit, or
when the future is dropped, terminate and delete. A request may fail and have
reached the host all the same (`HostStarts` without a name). `armed` is the flag
of `CallGuard`; a call dropped while `run_cleanup` is at work has it cleared
already, so that its shell may stay (`reply = "left"`).

That a host may refuse to delete a shell whose command runs is an assumption
about winrm; with it the order of signal and deletion matters. `StdinCall` and
`UploadTransfer` share no variable: what ends a command and which answers are
lost is the environment of the upload. `MCUploadCleanup` therefore checks both in
one run, each in behaviours of its own.

### DownloadTransfer

The server reads the scanned number of windows from a source that other programs
append to or rewrite, hashes its own copy, lets the host hash the same length
and compares; then it places the temp file by rename (`overwrite`) or by hard
link and unlink. Local steps after the hash pass have no await, so a client
cannot cancel them, but `Crash`, other calls (`clean_stale_parts` removes temp
files that were not written for an hour) and other programs come between them.
Without hard links (`Unlinkable` names the calls on such a file system) the code
checks and renames; its comment accepts that race, so that such a call counts as one
that may replace. Every removal of a temp file is best effort, as in the code
(`server.rs:3948`, `3963`, `3999`, `4846-4848`, `4882`, `5012`): it may fail, the
call goes on and a placement is reported as a success. `excused` names the calls
whose temp file stayed because a removal was refused or because the server died, and
that no later call has swept yet.

### StagedSteps

`write_file` and `run_script` send a plan of commands. `work` is the process the
call awaits; when the answer is lost or the client goes away the process moves
to `orphans` and may still have its effect at any later time. A write ends with
Replace or Move; a script ends with a command that reads the staging file once,
compares the digest of what it read with the confirmed one and runs those bytes.
The last command of an encoded write has three statements: it converts the temp
file into a second one (`second`), replaces the target from that and removes the
first with `SilentlyContinue`, so that a success may leave it (`ps.rs:191-208`); the
removal after a failure is as quiet (`ps.rs:268`). `stuck` names the writes that
left a file without a word. A closed session answers like a failed process.

### ConfirmedChange and WritePolicy

`ConfirmedChange` is DR-5 as a specification: a call shows places, is agreed to
or refused once, and changes only places it has shown, only after the agreement.
What others do to the same places is not a step of it: `changed` is a history of
the call's own changes.

`WritePolicy` holds the decisions of `policy.rs` on paths: protected directories,
the allowlist that lifts them, the verdicts on each scan. A path is a volume and
names; a form (`full`, `relative`, `device`, `short`) stands for what its text
looks like, and a relative path may resolve to two places, one for PowerShell and
one for .NET, as in the code. A system root below a plain directory is not told
apart from one at the top.

### HostFiles

`fs` maps the paths of the instance to files, directories and links and is a tree
at all times. A call goes through its scans (`source`, `target`), the prompt and
`host`; then `script` is its host command, one action per statement: checks,
copy, measure, rename, delete. `HostThrows` is a failure of any statement. A lost
answer leaves the script at work. `Meddle` is another program, and a second call
works on the same files. `disturbed` is history: the calls whose paths somebody
else changed, for which a reply may be outdated. `Shown` is what a prompt shows: the
trees at the source and at the target as PowerShell resolves it
(`server.rs:3205-3210`, `3402-3408`), and the missing levels that create_directory
counts. `Unshown` is what a command may change besides: the place where .NET
resolves a relative target to, which is where the command acts (`server.rs:3193`,
`3371-3385`); the temporary name of a change of case; and the missing parents of a
directory that `[IO.Directory]::CreateDirectory` makes (`MakesLevels`), which a copy
counts nowhere (`ps.rs:1023`) and a creation as they were at the scan. DR-5 asks for
consent to what is done, so these three are disagreements with it; `FilesConsented`
says that there are no others. A rename or a move needs that the tree fits under its
new name in the instance (`Fits`), and a volume has no other name.

`ProtectedKept` has two exceptions, the places that no verdict of the code is about:
`UnjudgedLevel`, a missing parent on the way to a place below an allowlist entry, the
entry included, and `UnjudgedTarget`, the target of a change of case where .NET
resolves a relative name elsewhere (`server.rs:3309`). TR-FS-07 has neither:
`OnlyBelowEntries` is the rule without them, and `strict_descendant` shows it
violated. `FileRepliesTrue` excepts one success, `SelfCopy`.

Kept as the code has them: the item cap of `delete_directory` and the kind of
the file of `delete_file` are looked at by the scan only. Left out: links that
appear at a target after the check, audit entries of the allowlist, the counts in
the prompt.

### HostChanges

`host` holds services (state, start type, dependencies), the program of each
process id, a registry value and the DNS cache. The gate, the read for the prompt
and the prompt are `ask`; `job` is the host command, one action per statement.
`Recover` is a recovery action of the service control manager, `MeddleWithHost`
an administrator. A read that fails shows "unknown" and the prompt appears all the
same. `deeds` is history, and so is `crossed`: the calls whose service another call
or an administrator gave another start type while they were at work, for which the
start type in a prompt or a reply may be outdated. `New-Item` of `set_registry` may
fail without an end of the command. `run_command` is one deed: its text was
confirmed. The service control manager starts the services that a service needs
(`NeedsFit`: none of them may be stopped and disabled), so that the start of one
service may start another.

### Settings, ClientConfigs, RequestGate

Pure operators. `Settings`: each variable with its default, limit or grammar,
`LoadConfig` as a whole, `CanonicalSetting` for one variable alone. `ClientConfigs`:
the places of the files, which key an entry gets, what the writer accepts, what
doctor finds. `RequestGate`: tokens and headers to an identity, the registration
of tools and the decision on a connection. Texts stand for themselves; what their
characters say is a table of the instance.

### ProfileStore

The processes of one machine: setup, rotate, forget, list, doctor, serve and
stdio. Each step that touches a file is an action: the temp file, the rename, and
on a system where a rename does not replace, the removal and the second rename
(`profile.rs:462`). `Crash` comes anywhere and frees the lock. A token is named by
the process that made it, so that tokens of different processes differ; the
cipher is "the token of the content". An operator chooses as the shared secret
`Stranger`, or a token that was already handed out (`shown`), never one that does
not exist yet. All processes have one state directory: with two, there are two
locks for one profile, which is why TR-PRF-15 has one root.

### MC modules

The MC modules extend the specifications with model values, requests and files
to begin with, symmetry and, for the registry, a view that leaves out history
variables no checked formula of that run reads. Symmetry is used in runs without
liveness only. `MCHostOperations` and `MCUploadCleanup` put three and two
specifications that share no state into one run: a behaviour moves one of them, so
that the states are a sum and not a product, and nothing that one does could enable
or disable a step of another. That such a behaviour is one of each specification is
proved (`OperationsAreEach`, `CleanupIsBoth`). `MCDownloadTransfer` does the same
with the calls of one specification: two short downloads that meet at one target, or
a long one. The second call of the change tools
comes beside a stop that disables a service, in the place of an administrator
(`BesideStop`): it gives the service back its start type, or starts a service that
needs it. Two writes come together, a script comes alone (`WritesOrScripts`).
`MCProfileStore` gives each behaviour a plan: the commands of its three processes.

## 4. Runs

| Run | Instance | Shows |
|---|---|---|
| `registry_serial` | 1 user, 2 hosts, 3 passwords, 1 slot, 6 calls, 1 change in Active Directory | lockout by connects in a row, two-lockout rule, sessions follow the cache, for a client that waits for each answer |
| `registry_concurrent` | 2 users, 2 slots, 3 calls, slow sections, a changed AD password | counters, refusals and sessions under every interleaving of critical sections |
| `registry_alternate` | 3 passwords, 5 calls | violation: alternating wrong passwords present a locked one |
| `registry_commands` | 2 passwords, 5 calls, 1 change in Active Directory | violation: the commands of a session present a locked password |
| `upload_placement` | 2 calls on one target, one of them with overwrite, 1 window, signals may get lost | `UploadTransfer` implements `FilePlacement` |
| `upload_cleanup` | 1 call, 3 windows with a limit of 2, 2 removals, signals may get lost; a stdin call of 3 parts | a proven removal stays true but for a first window that outlived its call; every call ends; `StdinCall` implements `WindowCall`, liveness included |
| `downloads` | 2 calls on one target, one window, crashes, removals that fail; or 1 call, 3 windows, appends and 1 rewrite, without hard links | `DownloadTransfer` implements `FilePlacement`; leftovers only after a crash or a refused removal, and only until they are swept; no mixture of two versions; every call ends |
| `write_unchanged` | 1 write, 1 lost answer | violation: the reply denies a replacement |
| `host_operations` | 2 file calls and 1 change by others; 1 change call, 4 services, recovery actions, 1 change by an administrator or a second change call; an encoded and a plain write, or a script, of 2 chunks, 2 lost answers, 1 tampering | consent, no silent replacement, protection, moves that lose nothing, true replies, told half-done stops; the writes implement `FilePlacement`, only the confirmed script runs, what is left is what the host refused to remove; every call ends |
| `strict_descendant` | 1 file call | violation: copy_file makes a missing allowlist entry, which is protected and not below an entry |
| `dependents_refused` | 1 change call | violation: restart_service stops a service that a protected one needs |
| `profile_store` | 3 processes, 2 profiles, 9 sets of client files | one server per profile, no profile lost, the shared secret, identities, doctor, the end of a refused server |

Why the bounds are enough: two failures reach the threshold, four reach it
twice, so five or six calls contain both lockouts and what follows; two slots
give every pair of sections that can race, and the sections are per user, with a
second user for isolation. A file of two windows has a first and a last window, a
third one is past the limit; one of three is needed for a torn middle. Two calls
are what can meet at one target; with one window each, two uploads already race
for the scan, the check and the placement. Three parts are a first, a middle and
a last message.

A directory with two files, one of which may be missing or a link, is the
smallest tree that a copy can break off in; the target is missing, a file, a
directory or a link; one volume more makes a move cross volumes; one protected
directory is known by name and one only by the answer of the host; one entry of the
allowlist is there and one is missing, with a place two levels below it. One change by
others falls between any two steps, and a second call counts as such a change.
For services: one that recovers and has a dependent, and one that a protected
service needs. Three processes are two writers and a server, or two servers and a
writer; the plans take every pair of writers and of servers.

The violations are disagreements between the code and what its documents or
comments say; `PROJECT.json` quotes the line of each.

### What a download does not promise

`NoTornContent` speaks of a source that is appended to and rewritten at most
once while a call reads it. With two rewrites the read pass and the hash pass
may each see the same mixture, and equal digests do not notice.

## 5. Fairness

Liveness is stated for single calls: a confirmed call ends. Assumed is weak
fairness of the call's own steps (the runtime polls a future that is ready; no
call holds a lock across an await), and of the processes on the host (a process
ends, or fails; a command without output is ended by a limit of the transport).
A read, a form and a host command of a confirmed operation end with an answer or
a time limit (`confirm_timeout`, the limits of the transport). In `StdinCall` the
call's own limit fires, the requests of a cleanup end and a spawned task runs; the
host command owes nothing. A stdio server polls its watcher (`app.rs:1019`), a
service that is cancelled returns its code, and a read of a closed input returns. The
process itself goes only then: `run_stdio` drops its runtime after `block_on`
(`app.rs:960`), and the drop waits for the pending read of `tokio::io::stdin`
(`app.rs:1025`), which nothing cancels. No client has to close its input, so
`RefusedServerEnds` says that a refused server ends with code 3, dies, or stands with
code 3 and its lock while the client keeps the input open.
`EveryOperationEnds` says that in the end no call is under way; since a call is made
once, this is the same as that each call that began ends.
Nothing is assumed about clients, other programs, lost answers or the session:
none of them has to happen. The registry has no liveness property: each call is
a straight line of critical sections and one answer of the host.

## 6. Proofs

Everything below holds for every value of the constants under the named
assumptions of the modules: finitely many calls, slots and requests, `None`,
`Absent` and `Foreign` outside the sets they are added to, thresholds and limits
that are natural numbers.

**`SessionRegistryProofs`.** The type invariant is inductive as it stands. The
other properties are not: each relates a map of the registry to what a call has
learnt in an earlier critical section, so the invariant has to say what calls
carry from one section to the next.

* `SessionsAccepted`: `LoggedOn` says that a call about to insert a session holds
  a password that Active Directory accepted for its user; history only grows.
* `CountsCorrect`: a rejection is recorded one section after the answer, so
  `CountsBacked` compares the entry plus the calls that still have to record a
  rejection (`Pending`) with the rejections that happened.
* `RefusalCorrect`: `ThresholdsBacked` carries the threshold seen by
  `record_auth_failure` to the section that refuses the profile, however many
  calls race between the two.
* `Isolation`: an action property, by the lemma that every step writes the
  entries of at most one user.

Four more theorems are about a client that waits for each answer (`Serial`: one
slot for calls, and no clock moves inside a call). Each of them fails for two
concurrent calls of one user, and `registry_serial` checks them under the
same hypothesis. Three invariants, each on top of the one before:

* `CacheInv` gives `SerialSessions`: between its cache step and its insertion a
  call finds the password it presents in the cache, so the section that drops an
  expired password is never reached, and a session that does not hold the cached
  password belongs to a user whose sessions the call is about to drop.
* `StreakInv` gives `SerialRefusals` and `SerialPresentations`: the rejections of
  the profile password are at least those that the streak has spent plus those
  that the entry counts, also while one is on its way into the entry; a call that
  carries a profile password beyond the lockout check is of a profile that is not
  refused.
* `LockInv` gives `SerialLockout`: the entry keeps step with the connects in a row
  that were rejected with one password (`row`), except while the answer of a host
  settles. It holds for any number of passwords and of changes in Active Directory.
  What it does not say is shown by two violations: with another password in between
  the entry forgets a lockout (`registry_alternate`), and commands present a locked
  password (`registry_commands`).

**`StagedStepsProofs`.** `StagedInv` is the type invariant and, for each call,
what the processes that nobody awaits can still do (`OrphanInv`), what the two temp
files of a write hold (`WriteInv`, `EncodedInv`), what a script has run and replied
(`ScriptInv`) and when a removal is final or a file is left (`LeftInv`). A step
belongs to one call; `Same` is what the others see of it, and one lemma per action
shows the invariant of the acting call. `OnlyConfirmedRuns` and `NothingIsLeft`
follow, and `WritesAreWhole`: every step of a write is a step of `FilePlacement` or a
stutter. `StepsGoForward` counts, for each command that a call still sends, its
statements and the answer.

**`DownloadTransferProofs`.** `DownloadInv` ties the temp file of a call to what
the call read, `placed` to its program counter and to its record, and a temp file
after the end of a call to `excused`. From it follow `NoLeftover` and
`DownloadsAreWhole`: every step is a step of `FilePlacement` or a stutter, with and
without hard links. `NothingTorn` needs more: `TornInv` splits on when
the one rewrite comes. If it comes while the call reads, the hash pass begins
after it and sees a prefix of one version; if it comes during the hash pass, the
call has already read a prefix of one version; equal digests join the two.
`DownloadsGoForward` counts the windows that are left to both passes.

**`HostChangesProofs`.** `ChangeInv` says what a call carries from its gate to its
host command: `JobInv` ties the statement that runs to the tool that was asked
for, and says that the target of a gated tool was resolved to a service that is
not protected before any statement that changes something; `DeedInv` that a deed
belongs to a call past its prompt. `ProtectedNeverChanged` follows. For
`ChangesAreConsented`, each step of a call is one of few effects on `ask` and
`deeds`, and each effect is a step of `ConfirmedChange` or a stutter. The reply of
a stop rests on `HalfInv`, what a command knows of its own deeds: it has none
before the change of the start type, and `started` says that this one succeeded.
`StopInv` adds what relates the host to the prompt: the start type that the prompt
saw is still there when the command replaces it, and a service that was disabled
stays disabled, and stopped once it was stopped. Another call may change the service
in between, as an administrator may; the invariant says that this puts the call into
`crossed` (`CrossedOrKept`), because every deed of a step is by one call and `Crosses`
looks at all the others that are at work. So `StopToldTruly` and
`DisabledServicesStay` hold for any number of calls, and except only the calls that
were crossed, not all calls of a host that somebody changed. The start of another
service can bring the disabled one up only if that one is not disabled
(`DisabledNotStartedByOthers`, from `NeedsFit`). `ChangesGoForward` counts the
statements left to a command, over `JobInv`: at most eight steps for a call.
Assumed of the constants: a service tool names a service, kill_process an id, a
valid start type is a known one (`RequestAssumption`), and the host at first gives
every service a state and a start type (`HostAssumption`).

**`ProfileStoreProofs`.** One lemma per action shows which of thirteen effects it
has on files, locks and its process (`StepEffect`); the invariants are shown for
the effects. `LockInv` (who holds a profile is the one its lock names) gives
`NeverTwoServers`. `AuthTokenNeverKey` needs more: `WriteInv` and `PlaceInv` say
that what a process is about to place carries its own token, `ShownInv` that a
token handed out is placed already, `AuthInv` that a shared secret is a stranger
or was handed out; so no later placement can turn a secret that passed the check
into the key (`KeyInv`). `NeverProfileLost` follows the temp file through the
removal and the second rename. `SecretDecides` rests on `IdentityInv`: a server
that serves a profile holds what its token opened when it was bound, and its last
answer is the one that the gate computes from what it holds. `DoctorIsRight` rests
on `VerdictInv`: doctor's verdict is about every document it read, and about all of
it. Two lemmas carry it to the documents: the entry that a client starts is among
those that doctor compares (`StartedIsCompared`), and a variable read alone has the
value it has in an environment that a server accepts (`ReadAlone`), so that equal
values say as much as equal settings. Assumed (`MarksAreNoValues`): the marks for a
missing and for a rejected value are no values.

**`UploadTransferProofs`.** `UploadInv` has three parts for each call:
`ControlInv` ties plan, windows sent and record to where the call waits;
`WorkInv` says which host process it started there, and that a window fits behind
what the temp file holds; `PlacementInv` that a placement which checked its digest
moves the confirmed content or nothing, and that while a placement is on its way
no record denies it (`Doubtful`). `UploadsAreWhole` maps each step to
`FilePlacement`. `RemovalsStayTrue` adds `CleanupInv`: a temp file that was proven
gone is gone, or was made by a first window that outlived its call (`Settled`); no
signal has to arrive for that. Assumed of the constants: a bound on
the windows of a file, and `Absent` and `Foreign` that are no files. The module also
has the proofs about `StdinCall`: `StdinInv` says for each place of the code what
holds of answer, command name, signal and shell; `CallIsSafe` is the safety part of
`CallKeepsPromises`, initial states and steps of `WindowCall`; and `CleanupIsBoth`
says that the run of both, `upload_cleanup`, adds no behaviour to either.
`UploadsGoForward` orders the steps of an upload lexicographically: what the call has
before it, the tries left to its cleanup, the removal under way, the host process; a
retry of the removal starts it anew and costs a try. `MoveInv` says where each of these
may be. `CallsGoForward` does the same for the requests of a stdin call and its guard.

**`HostFilesProofs`.** `FilesInv` has five parts: the types; `TreeInv` (above an
object there is a directory, and the volumes stay), which needs that a rename does
not move a tree into itself; `FileCallInv`, what a call carries from its scans to its
prompt; `FileScriptInv`, which statement may follow for which tool (`WorkStages`) and
what the statement relies on (`Legal`: a replacement only with overwrite, a deletion of
the source only when the copy does not contain it); `HistoryInv`. The lemmas about
paths (a name moved from one tree to another, and back) carry the renames.

* `FilesAreConsented`: `ReachedIsShown` bounds what each statement writes; every
  step is a step of `ConfirmedChange` or a stutter.
* `FilesReplacedByConsent`: the check of the command is stale when the statement
  runs; what makes the property true is the flag of the statement itself.
* `ProtectedPathsKept`: `PermitInv` carries the verdicts of the scans to the
  prompt, for a creation also the verdict on the topmost missing level to all levels
  that it counts (`LevelsJudged`). What is left are the two exceptions that the
  property names. It rests on `DirsAssumption`: every protected directory is, or
  lies in, one directly below a volume, as those of `PROTECTED_DIRS`
  (`policy.rs:10-17`) do and as system roots are taken to; and the random temporary
  name of a change of case (`ps.rs:1175`) is no name of one.
* `MovedObjectsStay`: `VanishInv` follows the object along the statements
  (`Trail`: at the source until the rename, under the temporary name between two
  renames, at both places after the copy was measured), by the lemma that a
  rename keeps the image of a tree.
* `FileAnswersTrue`: `ReplyInv` says what a copy has done at each statement
  (`CopyTrail`), for a directory by `Partly`: what is not left to do has its copy at
  its place in the target, and the target holds nothing else; so an empty list
  means an equal image (`CopiedImage`). That the flag of the first write is set
  before anything is written makes the plain error true. All of it is said of copies
  whose target is not in the source, and the property excepts the others by name
  (`SelfCopy`): the server compares written names only (`server.rs:3150`), the
  requests of the instance have such a copy, and its success says nothing of it.
* `FilesGoForward`: a call and its command make at most ten steps, from the scans to
  the end of the script, and the list of a copied tree only becomes shorter. The items
  removed from below a directory are not counted: others may put new ones there.

The assumptions on the constants are `PathsAssumption` (an instance contains every
parent of a path), `TreesAssumption` (the files are trees at first),
`RequestsAssumption` (targets are paths of the instance) and `DirsAssumption`.

**`HostOperationsProofs`.** `OperationsAreEach`: a behaviour of the specification of
`host_operations` is a behaviour of `HostFiles`, of `HostChanges` and of
`StagedSteps`, with the fairness of each; its steps are steps of one family and leave
the variables of the others alone. `OperationsTypeCorrect` then is the type
correctness of the three.

The invariants were checked by TLC on the instances of the runs before they were
proved, as far as TLC can evaluate them. Every safety property of a passing run is
stated by a theorem; of `CallKeepsPromises`, which has two liveness conjuncts, the
safety part. Beyond the assumptions on constants, which TLC evaluates on the
instances, theorems have two hypotheses: `Serial`, one client that waits for each
answer, which is the setting of `registry_serial`; and `MarksAreNoValues`, which is
about every value of a variable and which TLC cannot enumerate.

Model-checked only: liveness, which is out of the prover's reach (`EveryCallEnds`,
`EveryOperationEnds`, `RefusedServerEnds`, the two liveness conjuncts of
`CallKeepsPromises`). Half of the argument for the first two is proved for every value
of the constants: the six theorems whose names end in `GoForward` give each call a
measure, show its bound, and show that every step of the call makes it smaller, whoever
else is at work. So no call goes round in circles, and nothing is sent, asked or tried
again without a limit. That a call which is not over always has a step, and that
fairness makes it take the step, is what TLC checks. The measures were evaluated by TLC
on the instances of the runs, too.

## 7. Not modelled

Read-only tools send one command whose text is not modelled; they have no state
that two actors share. Quoting, base64, prompts and replies, the normalization of
path texts, the grammar of commands, the masking of secrets, the layout of JSON
and TOML, the parsing of arguments, truncation of output, the log files and the
permissions of private files are work on characters or calls of the operating
system. Retries and the protocol of WinRM belong to the winrm-rs library.

Behaviours of the code that the models have, or that were met while reading, and
that no run reports:

* The idle limit ends the cached password on the path of `connect`; a command of
  an open session runs after it (`session.rs:718`), while
  `docs/adr/0006-password-header-and-confirmation.md:29` says that the limit
  closes the sessions.
* Concurrent failures may raise the lockout streak more than once for one
  threshold that was reached, so that a profile is refused early.
* A signal that does not arrive lets the first window command create the temp file
  after a proven removal (`session.rs:397`); `ProvenGone` names this exception.
* A local temp file of a download whose removal fails stays although the reply and
  the audit report a success, and so do the temp files of an encoded `write_file`
  (`ps.rs:207`); for the download this is accepted by a comment and a test
  (`server.rs:4880`), and a later call removes the file. Both are in the models.
* A removal that was left to a task is lost when the server stops, a host temp
  file that is left behind is never looked for again, and a script that the
  client drops leaves its staging file.
* `write_file` without overwrite replaces a file that appears while the user reads
  the prompt; the comment at the scan accepts that. A download on a file system
  without hard links has the same race.
* The prompts of copy, move and create_directory show PowerShell's resolution of the
  target, the command acts on that of .NET; DR-5 asks for consent to what is done.
  `copy_file` of a directory makes the missing parents of its target (`ps.rs:1023`),
  which its prompt does not count; create_directory counts them (TR-FS-11). A change
  of case goes through a temporary name that no prompt shows. These are the three
  exceptions of `FilesConsented` (`Unshown`); the instance has each of them.
* The target of a case-only `move_file` is not judged, and the command acts on
  what .NET resolves it to (`server.rs:3309`); for a relative name that PowerShell
  and .NET resolve to different places, no verdict was given on that place. The
  instance has such a move, and `ProtectedKept` names it as an exception
  (`UnjudgedTarget`); the trace of `strict_descendant` is the other exception, a copy.
* `copy_file` compares the written names of source and target (`server.rs:3150`)
  and no resolutions: a directory may be copied into itself through a relative name
  that .NET resolves to a place below the source, and the success says nothing of
  it, while TR-FS-09 (`docs/REQUIREMENTS.md:43`) has such a copy refused. The instance
  has such a copy, and `FileRepliesTrue` names it as an exception (`SelfCopy`).
* `set_service_start_type` looks at the dependents only for Disabled
  (`ps.rs:2126`), so that it sets a service that a protected one needs to Manual; the
  trace of `dependents_refused` is a restart, the rule that both break is TR-SEC-15.
* A stdio server whose profile is refused keeps its process and the lock of the
  profile for as long as its client keeps the input open (`app.rs:960`, `1025`), while
  AC-PRF-56 (`docs/REQUIREMENTS.md:276`) speaks of an exit with code 3; it calls the
  end-to-end exit unverified, and every test over stdio closes the input.
* The shared secret of the environment is compared with the profile of the disk once,
  at the start (`app.rs:133`). After a rotation between the bind and that look, or
  later, the server goes on with a `WINRIG_AUTH_TOKEN` that equals the token it bound
  and that opens no file any more. `AuthTokenIsNoKey` speaks of the file;
  AC-PRF-50, that the startup refuses such a secret, does not foresee the race.
* `kill_process` shows the program that has the id and then kills by the id alone.
* A call that is dropped inside its own cleanup has no second cleanup, and its
  shell may stay.
* Two processes that rotate one profile: the later replacement wins, also when
  the token of the earlier was printed already. A setup that fails after the
  profile was replaced shows its token nowhere.
* Setup for a second profile without a name takes the key `winrig` and replaces
  the entry of another profile there, while `docs/ROADMAP.md:140` and
  `client_config.rs:4` say that other entries are left alone. In the global scope
  of opencode all profiles have one token file. A write of a client file that is
  cut off leaves it damaged.
* A rotation of the log whose rename fails tries again with each write and shifts
  the backups each time (`logging.rs:76`).
