# A TLA+ model of goadb

goadb (`prife/goadb`) is a Go client of the Android Debug Bridge. It talks to the
local adb server (`host:` services) and, through it, to the daemon of a device
(`shell:`, `shell,v2:`, `sync:`). This directory models the parts of it that are
hard to test, checks the models with TLC, and proves the properties that matter
most with TLAPS. Line numbers are those of `src/`; `PROJECT.json` maps every
definition to its lines and lists the runs, the mutants that show each property
can fail, the hazards and the theorems.

## 1. Inventory

### Components

| component | source | state | operations | what makes it hard | correct when |
|---|---|---|---|---|---|
| device watcher | `device_watcher.go`, `device_state.go` | `lastKnownStates`, `err`, `eventChan`, the connection | dial, request, read a list, publish the differences, report devices lost with the server, restart it; `Err`, `C`, `Shutdown` | the server dies at any point of the exchange, with lists in flight; restarts; another client restarts it | events never carry a stale old state, no device of a dead server survives it, every change is reported, it ends up closed or in step |
| session | `session.go`, `shell_transport.go` | `transport`, `abort`, `handlesToClose`, `errorChan`, the fields `Stdin`, `Stdout`, `Stderr` | `Start`, `Wait`, `Close`, the pipes, `Run`, `Output`, `CombinedOutput`; two goroutines | two goroutines and a concurrent `Close` meet on one unbuffered channel received from once; the connection ends inside or between packets | an exit status is the command's and follows its output; `Wait` returns and releases |
| sync connection | `wire/sync_conn.go`, `sync_file.go`, `sync_dir.go` | the byte stream, `toRead` | `Stat`, `SendList`/`ReadDir`, `Recv`/`PullFile`, `Send`/`PushFile`, `PushDir` | replies carry no identity; refusals arrive late; the stream ends at any byte; local errors in the middle of a transfer | what a call reports is what happened; nothing is left for the next call |
| device calls | `adb.go`, `server.go`, `device.go`, `shell.go` | one connection per call and its read deadline | the host requests of `Adb`, `KillServer`, `RemoveAllForward`; `dialDevice`, `DoForward`, `Forward`, `DoRemoveForward`, `Remount`, `NewSyncConn`, `Stat`, `OpenDirReader`, `OpenFileReader`, `OpenFileWriter`, `RunShellCommand`, `RunCommandTimeout`, `RunCommandCtx` | silent server; deadlines set and cleared by hand; a context that ends under a goroutine | every connection is closed or handed out clean, every call returns, output is whole |
| mkdir and rm in batches | `sync.go`, `device.go` (`prepareCommandLine`) | the command being put together, the errors so far | `MkdirsWithParent`, `Rm` | lengths at the limit, quotes added later, failure between two commands | no path lost or repeated, no command too long, nil means done |
| push of files and directories | `sync.go`, `PushDir` of `wire/sync_conn.go` | a connection, a goroutine and its channel per call; counts and percentages | `PushFileCtx`, `PushDirCtx`, `MakeDirs`, `ListAllSubDirs`, the counting walk, the pushing walk, the handler | three walks over a tree that changes; context against completion; a handler in another goroutine | nil means that every directory and file is there, in `src-dir` if it was asked for; the handler hears the truth; a cancelled push returns and its goroutine ends |
| file modes | `wire/filemode.go` | none | `ParseFileModeFromAdb` | types tested as bit masks | each type parsed as itself |
| reboot | `cmd_linuxcmd.go:346`, `State`, `BootCompleted` | a context per loop | `Reboot` | every error of a query passes for a device that is gone; two queries that belong together; two loops with deadlines | success means it went down and, if asked, booted; it returns |
| process commands | `cmd_process.go` | none | `ListProcesses`, `ListProcessGroup`, `KillPids`, `KillPidGroupOf` | processes start, end and pids are taken again between `ps` and `kill`; output that is cut | a list is complete, a group reported killed is dead, nobody else dies |
| app commands | `cmd_pm.go`, `cmd_am.go` | none | `PmInstall`, `PmUninstall`, `PmClear`, `LaunchAppByMonkey`, `AmStart`, `AmForceStop` | no exit status, so words are judged; commands run on after their call gave up | a success took place |
| server dial and start | `server.go`, `dialer.go` | none | `Dial` with `AutoStart`, `Start` | dial, start, dial again | one retry, and an error of the last attempt |
| wire messages | `wire/conn.go`, `wire/util.go`, `wire/errors.go` | a 4-byte buffer | `SendMessage`, `ReadStatus`, `ReadMessage` | where in a message the stream ends; length limit | the error tells an interrupted message from a finished one |
| host commands | `adb.go`, `device_descriptor.go` | none | version, lists, connect, disconnect, forwards | parsing | one answer per request |
| device info and parsers of text | `device_info.go`, `properties.go`, `cmd_df.go`, the rest of `cmd_linuxcmd.go` | none | one command each, parsed | text | the text is read as it was meant |
| settings and services | `settings.go`, `services/discovery.go` | none | one command each; `Monitor` logs the events of a watcher | none of its own | `Monitor` ends when the channel is closed |
| command line tools | `cmd/adb`, `cmd/demo`, `cmd/raw-adb` | none | the library's calls | order of deferred calls in `push` | a push that reports success has pushed |
| relay | `cmd/relay` | pairs of connections | copy both ways | half-closed pairs, a failed dial | both ends close together |

### How they interact

Everything goes through `server.Dial`, which yields a connection used for one
request and closed, or handed to the caller. `dialDevice` switches it to a device;
`NewSyncConn`, `RunShellCommand` and `NewSession` start from there. The watcher,
a session and a sync connection keep theirs for long; the watcher alone dials again,
and has the server restarted, when it is lost. `PushDirCtx` first makes the directories
(`MakeDirs`, hence `MkdirsWithParent`, hence `RunCommandTimeout`, one connection per
command) and then opens one sync connection for all the files. Process, app and reboot
commands are sequences of such calls, and what makes them hard is what the device does
between two of them. Goroutines share a connection in three places: `Session` (two
goroutines, `Wait` and `Close`), `RunCommandCtx`, and `PushFileCtx`/`PushDirCtx` (one
goroutine, and a deferred `Close` by the caller). They communicate by channels; nothing
is locked.

The models compose as the code does. `PushTree` takes one command of mkdir from what
`Batching` promises and one `PushFile` from what `SyncService` promises, and `SyncConn`
is shown to implement `SyncService`. `Batching`, `Reboot`, `Processes` and `AppCommands`
take a command from `DeviceCall`: it answers, fails, or loses its connection, which for
a shell command looks like its end.

## 2. Plan

Modules were written in the order of what would hurt most: the watcher, which runs
for as long as the program does; the session, with most concurrency; the sync
connection, which moves the user's files; the connections of single calls; the
batches; then what is built from them. Bounded counters are in the guards, and each is
a named constant.

| module | checked | proved |
|---|---|---|
| `DeviceEvents` (abstract), `DeviceWatcher` | done | types, no stale event, no ghosts, nothing missed, refinement |
| `Session` | done | types, exit status, missing exit, release |
| `SyncService` (abstract), `SyncConn` | done, with the refinement | all its invariants, refinement |
| `DeviceCall` | done | all its invariants |
| `Batching` | done | all its invariants |
| `FileMode`, `PushTree` | done | all its invariants |
| `Reboot` | done | all its invariants |
| `Processes` | done | all its invariants, and that the killing is over |
| `AppCommands` | done | all its invariants |

The theorems about a module are in the module named after it, with `Proofs`; those about
`Reboot` and `AppCommands` are together in `CommandProofs`, which extends both. Every
invariant is proved, and both refinements. What would come next: a model of `cmd/relay`,
should the tool be maintained.

## 3. Modules and code

Each module maps one action to one stretch of code between two points at which
something else may happen: a send or receive on a connection or a channel, a
callback, a lock-free read of a shared field. Everything the code does between two
such points is one action. Mutants (`Name_What`) stand before the definition they
replace; no specification uses them.

### DeviceEvents

What `C()` promises: a stream of events in which every event's `OldState` is the
`NewState` of the previous event of that device, old and new differ, and none comes
after the channel is closed.

### DeviceWatcher

`pc` follows `publishDevices` (102-154) through `Dial`, `Start`, `Redial`
(`server.go:108-137`), `SendMessage` and `ReadStatus` (`connectToTrackDevices`),
`ReadMessage`, `PublishEvent`, `Published` (`publishDevicesUntilError`), `ReadError`
and `PublishRemoved` (115-152), and `CloseChan`. `lastKnownStates` and `err` are the
fields of the same name; Go's random order of map iteration is the choice of `s` in
`PublishEvent(s)` and `PublishRemoved(s)`. The consumer is folded into the send on
the unbuffered channel: `view` and `event` are what it has received.

The server is external: `stream` holds what it wrote and the watcher has not read.
`ServerDies` keeps any beginning of it, and the read that follows fails with
`ErrConnectionReset` or, if the cut falls between a message's length and its body,
with a plain EOF (`wire/conn.go:172-208`). Assumed of it: a dial fails only when no
server listens; it never lists a device without a state, nor the same device twice;
and the consumer goes on receiving.

### Session

`pc` has one counter for each of four goroutines: the caller of `Start` and `Wait`,
the goroutine that copies `Stdin`, the one that reads packets, and a caller of
`Close`. A send on `errorChan` is the pair of "report" and `Receive`, since the
channel is unbuffered. `Close` is three steps (`CloseAbort`, `CloseTransport`,
`CloseFiles`), because it reads and writes `transport` and `handlesToClose` while
others do; the panic of a nil transport stops everything. `Drain` is a caller that
reads the pipe of `StdoutPipe` to its end before it calls `Wait`. `Stderr` is handled as
`Stdout` is. Assumed: `Close` is called by another goroutine only once `Start` has
returned, and a write to a `Stdout` that is not a closed pipe succeeds. Any reader given
as `Stdin` may fail at any read (`StdinFails`, `session.go:171`), and `Stdin` that is the
session's own pipe fails once it is closed (`StdinError`). A packet of an unknown type is an
error (`ReadUnexpected`, 222); an exit packet without a payload panics at `msg[0]`
(`ReadBareExit`, 209), which stops everything. Both come in place of the rest of the output
only once nothing else is on its way.

### SyncService and SyncConn

`SyncService` is what a caller may rely on: from the moment a push of a file has begun
until it is reported without an error the file is *exposed*, and the device may commit it
whole or drop it at any time, even after the call failed; a file is *reported* only when
the device has it whole; no other file changes. `ImplementsService` maps the calls of
`SyncConn` to it.

`SyncConn` is one connection, and its owner's calls one after the other. A file is a
sequence of bytes that say where they come from; a chunk the device sends is a header and
single bytes, so that the connection can be lost at any byte that matters. `Walk` is the
loop of `PushDir`, which collects the errors of files and goes on. `ReadPayload` is one
`Read` of `SyncFileReader`, with `toRead`. `Cancel` is the deferred `Close` of `PushFileCtx`
and `PushDirCtx` (`sync.go:207`, `275`) when the context ends. The push of `cmd/adb`, which
drives a `SyncFileWriter` itself, is a call too. A call is made only on a connection that
owes nothing (the caller discards one whose call failed; `PushFileCtx`, which goes on after
a failed `Stat`, `sync.go:210`, does not, and is outside the model). A read of the local
file may fail at any chunk and at its end.

The device is external and modelled as the client relies on it: it answers one
request at a time and in order, may refuse a `SEND` at once and then discards its
data up to `DONE`, commits a file at `DONE`, and hangs up on a request in the middle
of a `SEND`. Bytes that are no header are never taken for one (`garbled`).

### DeviceCall

One call of `Adb` or `Device`, chosen by `op` (the module's head says which methods each
stands for); what differs from call to call is in `Fails`, `SendRequest` and `AfterStatus`,
and in the actions that read an answer: `HostAnswer`, whose parsing may fail, `TripAnswer`,
`StatAnswer`. `SyncRequest` is the request `OpenDirReader`, `OpenFileReader` and
`OpenFileWriter` send before they hand out their connection. `deadline` is the read deadline
of the connection. `Dial` and `Start` are `server.Dial` (`server.go:108-137`): a dial that
fails may start the server and dial once more, and the start, an exec of adb, is waited for
without a limit. `synced` says that `NewSyncConn` has returned a connection. The three
branches of `RunCommandCtx` are the goroutine (`gpc`), its channel of capacity 2 (`chan`)
and the `select` (`CtxDone`, `ChanReady`, both possible when both are ready). The server is
external: it may answer, refuse, break off or say nothing. Writes, which are short, and a
dial, which has its own timeout, do not block. The error of the writer of `RunCommandCtx` is
dropped by the code (`shell.go:129`): `got` counts the pieces the writer was given, whatever
it made of them.

### Batching

`Take` adds a path to the command, `Flush` runs the command and starts the next one
with the path that did not fit, `Finish` runs the last one; `Abandon` is a command
that `prepareCommandLine` or `SendMessage` refuses, or that fails. One command is a
single step here and a whole call in `DeviceCall`. `requestLen` is the length of the
message the command would make, quotes included; `commandsLen` is what the code
counts. Which paths fail on the device, and which exist, is free. Two kinds of mkdir are
modelled, after the transcripts in the comment of `filterFileExistedError` (`sync.go:30-78`):
one that complains of each path it cannot make and goes on (`WentOn`), and that of Android
5.1, which stops at the first with one line (`StoppedAt`). `behind` keeps which paths a
stopped command never came to, and behind which one: when that one existed, its line is
filtered, and `MkdirsWithParent` returns nil with the rest never made. A command whose
connection is lost did what it did, and says nothing (`CutShort`).

### FileMode and PushTree

`FileMode` is `ParseFileModeFromAdb` on the upper four bits of a mode, with the tests in
the order of the code, against the types of `stat.h`.

`PushTree` is one call of `PushFileCtx` or `PushDirCtx`. The local tree is external and
changes between any two steps (files grow, entries come and go); `steady` are the entries
that were there all along, and the properties are about those. Three walks go over it:
`ListEntry` (`ListAllSubDirs`, in the caller), `Count` and then `EnterDir` and `NextFile` in the
goroutine. `filepath.WalkDir` reads a directory when it visits it and visits in the order
of names: `todo` and `Rank`. A place on the device is a base and an entry: `"to"` is the
remote path, `"src"` the directory in it named as the local one, `"above"` what holds the
remote path. `DirBase` is where `MakeDirs` puts directories and `FileBase` where `PushDir`
puts files; the code computes the two differently, and the model keeps both. The handler
is told a percentage by the thresholds of the code (large files at every percent, small
ones at their end), and `late` counts the calls it gets after the push has returned.
`blind` marks a mkdir of which the caller learned too little: its output was cut with its
connection ("lost"), or it stopped at a path that exists, as on Android 5.1 ("halted").
Each local call of the pushing goroutine (the reading of the root, `Lstat`, `Open`, `Read`)
may fail.

### Reboot

The reboot command, the loop that polls `State` until the device is gone (`PollGone`) and
the one that polls `State` and then `sys.boot_completed` (`PollBack`, `BootCompleted`, two
queries with the device free to move between them); `Sleep` is the `select` of each loop.
`step` is where it is, `timer` the timeout of the loop in progress, `ctx` that of the
caller. `Known` is what a query shows of the device as it is, and `Disturbed` what it may
show whatever the device does: `StateInvalid` of a query that failed, `offline` of a link
that was disturbed. `misled` says that the answer which ended the first loop was not one of
`Known`; `seen` is the number of times it had gone down when the boot property was read as
set.

### Processes

`PsAll` and `Ps` are the two commands of `ListProcesses`; `procs` and what happens to it
are the device's. `id` tells apart the processes that had one pid. `snapshot` is what ran
when the `ps` ran, `list` what was read of it: all, or the lines up to one that may be cut
in its name (`cut`). `KillPids` hands a bag of pids to the device (`todo`, since the code may
give one twice), which kills them one at a time while processes start and end;
`grumbled` is output of kill, which the code takes for an error, and `victims` are those killed.

### AppCommands

Calls one after the other on one app. A command prints words: `good` and `bad` are what
the code looks for, `other` is anything else, a word that was cut among it. `Succeeds` is
how each wrapper judges: `pm` wants exactly its word, monkey wants its word anywhere,
`AmStart` the absence of a bad word, `AmForceStop` the absence of output. A call that
returns early leaves its command on the device (`orphans`), which may take effect later.
Assumed of the device: a command that fails prints something, though not always a word the
code looks for (`am` may end with an exception that has no "Error: "), and `pm` and monkey
print their good word only after the effect.

## 4. Runs

| run | configuration | shows |
|---|---|---|
| `device_watcher` | 2 devices, states online, known and unknown to the parser, 3 changes, 2 deaths, 3 messages in flight | the invariants, the refinement of `DeviceEvents` and convergence |
| `device_watcher_death` | 2 devices, 1 death | a finding, see 6 |
| `session` | 2 packets of output, 1 chunk of input, every kind of `Stdin` and `Stdout`, a `Stdin` that fails, packets that are none of the protocol | exit status, release, `Wait` returns, a drained pipe ends |
| `sync_conn` | 2 files of up to 2 bytes, buffers of 1 byte, device chunks of 2, two calls of every kind, losses, cancellation, local errors | pull, push, listing, being in step, every call ends, the refinement of `SyncService` |
| `sync_pull`, `cmd_push` | as above, with pulls or pushes of `cmd/adb` only | findings |
| `device_call` | every kind of call, a server that is there or has to be started, 3 pieces of output | release (but for a failing `NewSyncConn`), deadlines, whole output, calls and goroutine end |
| `batching` | every list of up to 4 of 4 kinds of path, every answer, of both kinds of mkdir | conservation, length, nil means done, or stopped behind a path that exists |
| `push_tree` | a file of 0 or 3 chunks and a directory with a file of 2, every subset of them, one change, every name of the directory, everything that can be in the way on the device | files where their directory was made (for a directory called by its name), directories made, counts, percentages, late reports, place, type; a cancelled push returns, its goroutine ends |
| `reboot` | a device that goes down up to twice | a true boot; the call returns |
| `processes` | 3 processes at first with 3 pids, 4 in all, one line short of 256 bytes | the list, the killed group and nobody else |
| `app_commands` | 3 calls, one word of noise | a success took place |

Every property of a passing run has a mutant of the code in `PROJECT.json` that breaks it.
`TypeOK` is an invariant of the run of `SyncConn` only. That of every module is
proved, and so are `AllRun`, `ExitMissingTrue`, `LateQueries`, `RefusalTrue` and
`KillIsOver`, which no run repeats.

Why the bounds are enough. *Watcher*: two devices are needed for an event of one
while the other waits; two deaths for a restart during the aftermath of another, and
one more change than deaths so that something happens in each life of the server;
three messages in flight hold a status, a list and a change of it. *Session*: one
packet to be written and one behind it, so that an exit can overtake; one chunk of
input passes each branch of the copying loop, which keeps nothing from chunk to
chunk. *Sync*: a file of two bytes in a device chunk of two, read by a buffer of one,
has a header, a first and a last piece; two files are what `PushDir` needs to go on
after an error; the second call is what a reply that was left behind would hurt. `MaxWork`
bounds calls times the longest file, so that two calls are made with files of one byte and
one call with files of two. *Device call*: the third piece of output is the one that could
be written late after one that legally is. *Batching*: four paths fill two commands and
begin a third; 4000, 4096 and the overhead are scaled to 5, 10 and 3, with the same
inequality, which `MCBatching` assumes and TLC evaluates, and with a path longer than the
budget, one with whitespace and one with a quote. *Push*: one file above the directory and
one in it make the walks go down and come back; 3 chunks is a file the handler takes for
large (`LargeSize`, 10 MB in the code), 2 a small one, 0 an empty one; one change falls
between any two steps, and a second meets the same code with fewer steady entries;
`MaxInt` stands for what converting an infinite float yields. *Reboot*: twice down is a
device that goes again while it is waited for. *Processes*: three pids are a process of
the name, its child and a bystander; the fourth process takes a pid again; with one short
line both sides of the 256 bytes are met. *App commands*: three calls are one that is
abandoned, one that succeeds while it runs, and one after. The proofs do not depend on
these numbers.

Deadlock is not checked: each module models calls that end, and goroutines that may
wait for a command that never finishes; that they do not wait for ever when they
should not is what the liveness properties say.

### Fairness

Only steps of the program are fair, with the exceptions named. *Watcher*: weak fairness of
the goroutine (the Go scheduler runs it, its consumer receives) and of
`ServerAnswers`, since a live server answers `host:track-devices` at once. *Session*:
weak fairness of each goroutine, none of the command, its input or its connection:
`WaitReturns` asks for a return only once the command has exited, the connection is
lost, the session was closed, or one of the two goroutines has an error to send, one of
`Stdin` among them. *Sync*: weak fairness of the call in progress and of
the device, whose answers have no deadline in the code. *Device call*: weak fairness
of the caller, of the goroutine and of `Expires`, the timer; none of the server, so
that only deadlines can end a call to a silent one. *Push*: weak fairness of the caller and
of the goroutine; the device need not answer, so that only the context ends a push,
and `CancelReturns` excepts the wait for `Stat`. *Reboot*: weak fairness of the caller,
whose queries have deadlines of their own, and of the timer; none of the device.
*Processes* and *app commands* have safety properties only. No strong fairness is used.

## 5. Proofs

TLAPS checks these for all values of the constants, under the named assumptions of
the modules (bounds are natural numbers; `Blank` and `NotListed` are no listed
states; lengths are positive; the special paths are paths; the local tree is a finite tree; the
files of a connection are finitely many).

*`DeviceWatcherProofs`.* The properties are not inductive: `ViewTracksLastKnown` says
what the consumer knows in terms of `pending`, so the invariant `IInv` adds that every
pending event is a real change (`PendingAreChanges`), that no map holds
`StateDisconnected`, which would make a difference invisible (`NoneDisconnected`),
that nothing is known between a restart and the first list (`NothingKnown`), and that
an error is stored exactly when the goroutine is on its way out (`ErrStored`). For
`CaughtUp` a second invariant, `InFlight`, says that the last list on its way, or else
the last one read, is what the server's devices are now.
Theorems: `TypeCorrect`, `NeverStale`, `GhostFree`, `NothingMissed`, and `Refinement`:
every step is a step of `DeviceEvents` or a stutter.

*`SessionProofs`.* `Account` is the heart: every packet the command produced is written,
in the reader's hand, on its way, or lost with the connection, in that order; an exit
packet is behind all of them. `Reported` says of each error that is on its way to
`errorChan` what must have happened for it. Theorems: `TypeCorrect`, `ExitStatusIsTrue`,
`ExitMissingIsTrue`, `WaitLeavesNothing`.

*`DeviceCallProofs`.* `IInv` ties the place of a call to its connection, result and
goroutine (`Connected`, `Placed`), says that the first request of sync mode is sent
with no deadline set (`Timing`), that a goroutine that reports while the
connection is open has read everything (`Reported`), and that a late write was read
before the return (`Lateness`). Theorems: `TypeCorrect`, `NothingLeftBehind`,
`HandedOutClean`, `OutputComplete`, `FewLateWrites`.

*`BatchingProofs`.* `IInv` adds to `Conserved` how `requestLen` follows `commandsLen` while
a command has no path with whitespace: the two differ by the overhead, and `commandsLen`
exceeds the budget by one space at most, unless a path alone does (`Counted`,
`CountedWhenAny`). `NilIsDone` has an invariant of its own, `Done`: while nothing was
complained of and no output was lost, every path that was run is settled, that is made or
removed, or behind a path that exists when its mkdir stopped there. Theorems: `TypeCorrect`,
`NothingLost`, `EverythingRun`, `NilIsDone`, `BudgetSuffices`, for every list and every
length.

*`SyncConnProofs`.* Neither `InStep` nor the truth of a push or a pull says anything while
a call is under way, so the invariant `IInv` gives an account of everything that is still
on the connection. It has six parts.

* `Typed` and `Phases`: ranges, and which calls can be where, with what in hand; of
  `PushDir`, that no file is pushed twice and every error is of a file that was pushed.
* `Stream`: the requests on their way are, from each `SEND` on, the bytes of one local file
  in order up to its `DONE` (`Adjacent`), and the first of them goes on where the device is
  (`Ahead`, `Taken`). Without it nothing could be said of what the device commits.
* `Exposed`: whatever may still change a file of the device, in `up` or in `dev`, is of a
  file that is exposed. This is what makes a late commit after a failed call harmless.
* `Kept`: what was reported or read stays true: files that were reported are on the device,
  `PulledPrefix` and `ListTrue` hold.
* `Talk`: one predicate for each place of a call, of both directions at once. `QuietTalk` is
  an empty connection; `LstatTalk`, `DentsTalk` and `PullTalk` say that the request is on
  its way, or the rest of the reply is: for a pull there is a function `c` from the items on
  their way to the length the local file has once they are read, and every chunk is whole
  unless the connection was cut (`Chunks`, `Whole`). `PushTalk` is either `Clean` (the file
  in hand was not begun, is being taken, was refused, or is stored and acknowledged) or
  `Tainted`: a push stopped in the middle and `PushDir` went on, so that the next `SEND`
  breaks the exchange (`Broken`) and no `DONE` behind it commits anything (`NoCommit`).

TLC finds `IInv` to hold on instances of the size of the runs, too; no run repeats it.
`Invariance` is the theorem, with one lemma
for each action and each part it can disturb; `TypeCorrect`, `PulledIsPrefix`, `PushIsTrue`,
`ListIsTrue` and `StaysInStep` follow. `Refinement` shows that every step is one of
`SyncService`: the beginning of a call is `Begin`, the opening of each file of `PushDir` is
`Expose`, a status read as OKAY is `Report`, the `DONE` that the device gets is `Commit`, a
write it cannot make, a refusal and a connection it gives up are `Drop`, and everything else
is a stutter. `Exposed` is what a `Commit` or a `Drop` needs, `Clean` and `Answered` what a
`Report` needs. `Arrived` and `Present` are written without recursion for these proofs.

*`PushTreeProofs`.* `Where` follows the one file of `PushFileCtx` to its place. For a
directory, `Walking` is an invariant of all three walks in terms of the set `seen` of
entries that were visited: what is steady is seen, in `todo`, or in a directory that is
not visited yet. That a finished walk has seen everything steady is an induction over the
depth of the tree, which `DepthAssumption` states for the finite tree the model is given
(every set of entries closed under membership is all of them; TLC evaluates it).
`Found` and `Stands` then say that what was seen is on the device. For the counts, `Exactly`
is the same without slack: while the tree does not change, what is seen or to be visited is
what is at the top or in a directory that was seen; and each count is the number of files in
such a set (`Passed`), which `FinitenessAssumption` makes a number. For the percentages,
`Measured` says that no more of a steady file is sent than was found when it was looked at,
`Sending` that its last chunk has been reported when its status is awaited, and `Committed`
that the device has no steady file whose last chunk was not. Theorems:
`TypeCorrect`, `FileIsWhereWanted`, `KindIsTrue`, `EverythingIsPushed`,
`DirectoriesAreMade`, `FewLateReports`, `CountsAreTrue`, `ProgressIsTrue`.

*`ProcessesProofs`.* `Identity` says that running processes have different pids and every
process its own id, `Looked` what the snapshot and the list have in common, `Aimed` that
what kill has before it is the group, `Hunted` that of the group only those still before
it are left. Theorems: `TypeCorrect`, `ListIsTrue`, `GroupIsKilled`, `OnlyTheGroup`,
`KillingIsOver`.

*`CommandProofs`.* Of `AppCommands`: `Unsent` and `Honest` (what a command has printed follows
from what it did). Theorems: `TypeCorrect`, `SuccessIsTrue`, `RefusalIsTrue`. Of
`Reboot`: `Shutting` says that a device that is neither up nor leaving has gone down, so
that an answer in `Known` that is no `online` tells the truth; `Gone` and `Asked` tie the
loop in progress to `downs`, `seen` and `late`.
Theorems: `RebootTypeCorrect`, `BootIsTrue`, `FewLateQueries`.

Only model-checked: all liveness (`Converges`, `WaitReturns`, `DrainEnds`, `CallsEnd`,
`Returns`, `RoutineEnds`, `CancelReturns`), which needs fairness and ENABLED and is beyond
TLAPS.

## 6. Findings

Runs that TLC finds violated, each with the line it contradicts in `PROJECT.json`:

* `device_watcher_death`: a server that dies between the length and the body of a
  list ends the watcher, which promises to restart it (`wire/conn.go:190`).
* `sync_pull`: a pull whose connection ends right after a chunk's header returns nil
  with a short file (`wire/sync_conn.go:391`).
* `cmd_push`: `cmd/adb push` closes the connection before `DONE` and exits with 0
  (`cmd/adb/main.go:284-285`).

Seen while modelling, and followed by the models without a run of their own (where a
property would fail for one of these, it names the exception):

* *Watcher.* `parseDeviceStates` forgets the parse error of any line but the last
  (`device_watcher.go:210`). `Shutdown` has no body (83); the connection of a watcher that
  lost its server is never closed (117); `doc/API.md:32-34` describes online and offline
  transitions the watcher does not limit itself to.
* *Session.* `Wait` may return "failed to copy stdin" for a command that exited with 0
  (`session.go:210`). A reader whose connection is lost before the exit packet blocks on
  `errorChan` without closing the pipe of `StdoutPipe`, so that a caller that drains it
  before `Wait` waits for ever (227; the exception in `DrainEnds`). A goroutine of a session
  that is not waited for, or the second to report, stays blocked (157); an exit packet
  without a payload panics (209); two concurrent `Close` calls may use a nil transport
  (81-82); bytes a `Stdin` returns together with `io.EOF` are dropped (164).
* *Sync.* A pull that fails on the local disk leaves the device's data in the connection,
  where a later push would take the reply of another for its own (`wire/sync_conn.go:401`);
  the model starts calls only where nothing is owed.
* *Device calls.* `NewSyncConn` leaves its connection open when it fails
  (`device.go:307-312`; the exception in `Released`). `Remount`, `DoRemoveForward` and
  `Stat` wait for their answer without a deadline (206, 226, 237), and so does every call
  for `adb start-server` (`server.go:131`; the exceptions in `Returns`). `RunCommandCtx` may
  write to its writer once after it returned (`shell.go:129`), so `RunCommandOutputCtx` may
  read a buffer while it is written: `OneLateWrite` says once. `prepareCommandLine` quotes
  the caller's slice in place (`device.go:365`). `conn.go:60-62` of `wire` says that a read
  of messages goes on to `io.EOF`, but `readHexLength` returns `ErrConnectionReset`;
  messages of up to four bytes alias the buffer the next read overwrites.
* *Batches.* Quotes of paths with whitespace, added later, make a full command of mkdir too
  long (`sync.go:106`). `Rm` fills commands up to 32761 bytes, where `SendMessage` refuses
  more than 4096 (153). The errors of earlier commands are dropped when a later one cannot
  run (109).
* *Push.* For `.` and `..` with `withSrcDir`, `MakeDirs` makes `src-dir` under the name of
  the absolute path and `PushDir` puts the files beside it, under the path as it was given
  (`wire/sync_conn.go:493`). The comment at `sync.go:255-257` says that `withSrcDir` always
  creates `src-dir`, and that only without it the children go straight into the target: the
  model follows the code, and `AllPushed`, which asks for every file in the directory that
  was made for it, is about a directory called by its name. A failed `Stat` is not told from
  an absent path, nor a link to a directory (`/sdcard`) from a file (`sync.go:211`). The
  line "File exists" is dropped also for a file where a directory should be, and lost output
  of mkdir passes (83, 332); the mkdir of Android 5.1 stops at a path that exists, and what
  is behind it is not made (61-66; the exceptions in `DoneTrue` and `DirsMade`). A socket or
  a block device is taken for a directory (`wire/filemode.go:19`). The handler hears 100 %
  before the device's verdict, and of an empty file, or one that has grown, more
  (`wire/sync_conn.go:531`); a `d.Info` that fails is passed over in silence (512); after
  the return it still hears the errors of the remaining files.
* *Reboot.* A single query of `State` that fails right after the command passes for the
  disconnection (`cmd_linuxcmd.go:362`), after which the old boot property is read and
  `Reboot` returns nil for a device that has not gone down, where its comments say "make
  sure adb disconnected" and "wait to boot complete" (358, 377). `TrueBoot` excepts the
  first loops that ended so, and no others. The error of the command is compared with
  `io.EOF`, which never comes unwrapped, so that a connection that breaks with the device
  makes `Reboot` fail. A cancelled context does not keep the command from being sent.
* *Processes.* `make([]string, len(list))` followed by `append` puts empty arguments before
  the pids (`cmd_process.go:192`); no match runs `kill -9` without a pid, and its usage is
  the error. Children forked after `ps`, and grandchildren, survive. A line cut in its name
  gives another name, and a list cut with its connection passes for a whole one, which
  `ListTrue` excepts. On a modern device the fallback `ps` lists its own session only (118).
* *Apps.* `AmStart` and `AmForceStop` take a lost connection for success (`cmd_am.go:126`,
  141), and `AmStart` also a failure told without "Error: ": `SuccessTrue` says nothing of
  `AmStart`, and of `AmForceStop` only while its connection lasts. A warning before
  `Success` makes `pm` a failure (`cmd_pm.go:72`). A command whose call gave up runs on, and
  may undo what a later call did (148).
* *Elsewhere*, read and not modelled. `KillServer` with `AutoStart` starts a server to kill
  it; `SetAccelerometerRotation` ignores what its command printed; `DeviceInfo` asks for the
  serial number and then for the list in which it looks for it (`device.go:101`). The relay
  uses `client` before it looks at the error of `Dial` (`cmd/relay/main.go:78`) and does not
  close both ends. The loop over `ReadDir` in `cmd/demo/demo.go:118` has no way out.

## 7. Not modelled

The parsing of text (properties, disk usage, packages, forward lists, descriptors, the
activity stack) keeps no state and has no control besides the error of its command, and
the formatting of requests and errors is not something a property here is about; the
expression that takes a line of `ps` apart is modelled by what it finds. `newServer` looks
for the adb program and fills in defaults; ports and timeouts of a dial are one failure.
`settings.go` is one command each, and `Monitor` of `services` logs the events of a watcher
until its channel is closed. The relay, the demo and `raw-adb` are aids nothing else uses. A
`ReadDir` abandoned before its end, and a `SyncFileReader` used without `PullFile`, are
calls of a user that `SyncConn` does not make. Permission bits are kept by the code as they
are. What a command receives of the input a session copies is not followed; how the
copying ends is.
