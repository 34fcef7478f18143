# A TLA+ verification of xkp-agent

`xkp-agent` runs as one root process on a processing server. It sends
heartbeats to a management server, long-polls it for commands, executes them
(power-off, training environments in Docker, image deployment, Docker
inventory, file transfer, upgrade, maintenance terminal) and reports each
result; systemd restarts it, and it replaces its own binary when told to upgrade.
The modules beside this file model the part of that program in which order,
failure and restart decide whether it is right.

1. [Inventory](#1-inventory): the components, their state, operations, hard
   behaviours and correctness properties
2. [Modules](#2-modules): which module models what, and how
3. [Runs](#3-runs): what TLC checks, with which bounds, and why they suffice
4. [Fairness](#4-fairness)
5. [Proofs](#5-proofs): what holds for every value of the constants, and why
6. [Findings](#6-findings): where code and documents disagree
7. [What is abstracted or left out](#7-what-is-abstracted-or-left-out)
8. [Plan](#8-plan)

## 1. Inventory

Paths are relative to the repository.

### The process

`cmd/xkp-agent/main.go` enrols if there is no credential, reports what a
previous process left in the terminal recovery record, and runs the agent
until a signal. The agent has two goroutines: the heartbeat loop and the
command loop. A terminal session adds one that awaits its end and one that
relays bytes, and these may outlive the command that started them. systemd
restarts the process whenever it ends.

| Component | State | Operations | Interacts with |
|---|---|---|---|
| Command dispatcher `internal/runtime/command_dispatcher.go`, `docker_inventory.go` | none of its own | `Dispatch` (one handler per command), `RetryPending` | store, client, executors, terminal manager, grant |
| Pending-command store `command_store.go` | `pending-command.json`, one record: lease and, later, result | `Load`, `Save`, `Clear` | dispatcher |
| Command loop `agent.go:137-188` | the decoded batch | retry, refresh grant, poll, dispatch in order | dispatcher, client, heartbeat |
| Heartbeat loop and operation grant `agent.go:82-135`, `operation_grant.go` | next sequence, backoff, grant | `SendOnce` from two goroutines, `Set`, `Valid` | client, collectors; read by the dispatcher |
| API client `internal/client` | none | heartbeat, poll, start, progress, finish, ticket, enrolment, downloads | management server |
| Terminal manager `internal/terminal/manager.go` | the lock (active session), its context, `recoveryPending` | `Start`, `Close`, `RecordStartFailure`, `ClearStartFailure`, `awaitCompletion`, `RetryRecovery` | dispatcher, runner, recovery store, client |
| Terminal runner and relay `manager_linux.go`, `relay.go` | the shell's process group, PTY, WebSocket, byte queue | launch, relay, terminate | manager, kernel, relay server |
| Terminal recovery store `recovery_store.go` | `terminal-recovery.json`, one record | `Save`, `Load`, `Clear` | manager |
| Docker executor `internal/container/docker.go` | none; the containers are the state | create, start, stop, restore, delete with compensation | Docker daemon, MPS |
| Validator, MPS manager, fake `internal/container` | none | checks of a payload; start of the MPS daemon | executor |
| Image deployment `internal/imagedeploy` | a temporary file, Docker images | presence, download, check, load, tag, confirm, report progress | client, Docker |
| Docker inventory `internal/dockerinventory` | Docker images and unmanaged containers | inspect, delete image, delete container | Docker |
| Upgrade `internal/upgrade` | `xkp-agent.new`, `xkp-agent.backup`, the executable | `Prepare`, `Activate` (a detached shell script) | client, systemd |
| File transfer, model workspace `internal/transfer`, `internal/modeldeploy` | files of a workspace | copy, delete, run in a container | Docker, client |
| Power `internal/power` | none | `loginctl poweroff` | systemd |
| Enrolment, identity, configuration | credential file | one-use token, atomic save | client |
| Collectors `internal/collect` | previous network counters | readings | heartbeat |
| Protocol `internal/protocol` | none | validation of envelopes | loop, dispatcher |
| Editor TLS migration `cmd/xkp-editor-tls-migrate` | containers | stop, rename, create, start, remove | Docker |
| `deploy/install.sh`, `uninstall.sh`, `xkp-agent.service` | files of the installation, the service unit | install, enrol, start; restart on failure | operator, systemd, main |

### What is hard, and what makes each part correct

* **Dispatcher and store.** Every exchange with the server may be lost before
  or after it takes effect, every store access may fail before or after it
  changes the file, the process may end between any two statements, the
  server may deliver a lease again or lease the command anew, and the retry of
  the record competes with the redelivery. Correct means: an operation of a
  lease is begun at most once; the server is told nothing that did not happen;
  what was executed is never forgotten; a saved outcome survives until the
  server has it.
* **Command loop.** The first error of a batch drops the rest. Correct means:
  no command begins while the outcome of an earlier one is neither
  acknowledged nor recorded, and a record never blocks the agent for good.
* **Heartbeat.** Two callers overlap: the mutex covers the reading of the
  sequence and the use of the answer, not the exchange. Correct means: the
  server never sees a gap, and the grant ends up with the decision in force.
* **Terminal.** Four threads share the lock, the record and the server; a
  session is replaced by the next one while its shell is dying; the end of a
  shell races the end of its context; reports are lost; the process ends.
  Correct means: the end that is reported is the one that happened, a session
  the server waits for is recorded on disk, the lock has one owner and is
  released, a restart reports what was left.
* **Docker executor.** Any call may fail, also after it took effect; other
  users of the daemon act between two calls; the context may be cancelled.
  Correct means: a failed create, start or stop is undone, a success is true,
  containers of others are not touched, a restore or delete can be repeated.
* **Relay of a session.** Three goroutines share a bounded channel, an atomic
  byte counter kept beside it, a channel of errors that is written without
  blocking, and a time of last activity that two of them set. The writer sends
  into the queue it alone drains. Correct means: the counter is exact, no error
  is lost, an idle timeout means silence, every session returns with its
  goroutines and its shell gone.
* **Image deployment and inventory.** References move and containers appear
  between two calls, and Docker offers no compare-and-untag; a download is cut
  short; an archive may hold several images. Correct means: what is removed is
  what was inspected, an undisturbed deletion is all or nothing, a deployment
  is the image of the archive, containers of the platform stay.
* **Upgrade, enrolment, restarts.** Irreversible steps (the token is used up,
  the executable is replaced) with a crash, a kill or a reboot between any two;
  a script in a process of its own that judges the new binary by one look at
  systemd; a second upgrade while that script waits. Correct means: an
  installation ends enrolled, nothing runs that was not staged, a dead binary
  is rolled back, and to one that has been seen running.

`PROJECT.json` lists every hazard at its line with the properties that would
catch it going wrong, and says for the others why none does; among these are the
cases a property excepts by name.

## 2. Modules

| Module | Models | Kind |
|---|---|---|
| `OnceCommand` | what the agent promises about a stored command | abstract specification |
| `CommandDispatcher` | dispatcher, store, server side of a lease | detailed, open |
| `AgentCommandLoop` | the command goroutine; extends and closes `CommandDispatcher` | composition |
| `AgentHeartbeat` | `SendOnce` with two callers, grant store | detailed |
| `TerminalSession` | what the agent promises about root shells | abstract specification |
| `TerminalManager` | terminal dispatch, manager, recovery store, runner, main thread | detailed composition |
| `RecordFile` | what a store promises about the file of its one record | abstract specification |
| `DurableStore` | `Save` and `Clear` of both stores, call by call of the operating system | detailed |
| `TerminalRelay` | the goroutines of one session: why, when and how it ends | detailed |
| `EnvironmentExecutor` | the Docker executor call by call | detailed |
| `DockerImages` | image deletion, inspection and deployment, deletion of containers | detailed |
| `AgentLifecycle` | install.sh, enrolment, systemd, upgrade and its script | detailed composition |
| `MC...` | kinds of commands, archives and lives of binaries for TLC | instances |
| `...Proofs` (eight; `CommandProofs` is about the dispatcher and the loop) | theorems | proofs |

Operators whose comment begins with "Faulty" are deliberately wrong variants
of the definition they precede. No specification uses them; substituting one
for its definition makes a property fail, which shows that the property
depends on the code.

### CommandDispatcher

`pc` is the statement the running call is about to execute, `cur` the lease it
handles, `result` the result in memory. One action is one exchange, one access
to the store, or the beginning or end of the operation; what the code does
between them touches only local state. Each exchange has three ends: it
succeeds, the server refuses it, or it is lost, and a lost one may have
reached the server. `SaveFails` leaves the old or the new file, because the
final `chmod` follows the rename. `Load` refuses a file of more than 64 KiB
(`Unreadable`), although `Save` wrote it.

The handlers differ in few places, so they share actions and differ in `Kind`:
an image deployment reports RUNNING before it executes (`ReportProgress`);
environments other than a stop may be refused for want of a grant (`Execute`);
file transfer, model workspace and terminal input have no record (`"direct"`);
an upgrade has none either and ignores an error when it reports a failed one
(its activation is a step of `AgentLifecycle`). `OPEN_ROOT_TERMINAL` has its own
protocol, in `TerminalManager`.

The server is what the client's code takes for granted: a lease is startable
while it is the latest and not finished, a result is accepted from the running
latest lease, anything else is a 409, which counts as delivered. `Releasable`
is the set of commands the server may lease again while they run: no document
of the repository decides it. "At most once per command" is stated for the
others; for these, what holds is "at most once per lease".

The module is **open**: `Dispatch` may be called with any lease ever handed
out, in any order, so its properties do not depend on the loop.

`OnceCommand` has two variables, the outcome of each lease and the verdict of
each command. `ImplementsOnce` is the refinement: `outcome` and `verdict` of
the stored commands are mapped to themselves, everything else is hidden.

### AgentCommandLoop

`loop` is the position in `processCommandsOnce`; a step of the goroutine is a
step of the loop or of the call it waits for. The batch is decoded as a whole:
one envelope that is rejected (`Poison`) discards it. Any error starts over.

### AgentHeartbeat

Each caller has a stage, the sequence it sends and the answer it got. `Send`,
`ServerAnswers` and `Succeed` are separate because the lock is released
between them. The later answer of two overlapping exchanges may put
`nextSequence` back. `Restart` is a new boot identifier, for which the server
starts counting afresh. Real time is abstracted: a grant may expire whenever
there is one.

### TerminalManager

`dpc` is the command goroutine in `dispatchTerminal` and the `Start`, `Close`,
`RecordStartFailure` and `ClearStartFailure` it calls; `await` is
`awaitCompletion`; `relay[s]` is the shell of session `s` with its relay
goroutine; `main` is start-up, running and shutdown. `active` is the lock. The
two-way `select` of `awaitCompletion` is a choice between two enabled
disjuncts. A ticket is good for one shell, so `Launch` succeeds only for a
session without one.

`TerminalSession` has two variables, the shell of each session and the verdict
the server has about it: one shell per session and one verdict, no shell opened
beside one that has not been told to stop, and a verdict that claims only what
happened to the shell. `ImplementsSession` is the refinement. `Shell` computes
the abstract shell from `relay[s]` and the state of its context: a shell whose
context is done is told to stop, although nobody has noticed yet.

### DurableStore

The two stores write their file the same way and differ in one point: only the
recovery store syncs the directory. `pc` is the next call of the operating
system; each may fail, and the failures after the temporary file was made lead
to `Discard`. `tmp` is the content of the temporary file, `path` that of the
file, and `onDisk` what the file may be after a loss of power: its content
before and after every change since the last sync of the directory, and `Torn`
for data that was renamed without having been synced. `RecordFile` is the same
file to its callers: one content, replaced or removed at one point of a call,
and for a loss of power the set of earlier contents that may come back, which
is empty after a `Save` that returned nil if the store is durable.
`CommandDispatcher` and `TerminalManager` use the file as `RecordFile` without
its loss of power.

### TerminalRelay

What `TerminalManager` takes for granted of a relay: that it ends at some time
and that its shell is gone then (`RelayStops` and `ShellGone` there). `pc[g]` is
the statement of each of the three goroutines of `relaySession`, `main` that of
the session itself. A message is its size, because size is what the queue
counts; `Bytes` adds them up. `enqueue` is three
steps (`Reserve`, `Enqueue`, `GiveBack`) and the writer's receipt two (`Take`,
`Discount`), since counter and channel change separately. The non-blocking send
to `errs` drops what does not fit. `over` is the context, `open` the WebSocket
and PTY, closed by `Stop`. Frames of the browser, reads of the PTY, refusals by
the rate limits and failures of the network happen at any time. The PTY takes a
frame in parts (`TypePart`, then `Typed` or `TypingFails`), with time passing
between them. `since[g]` is when a reader got what it is passing on, the local
`at` of the code, and `lastIO` is set to it once all of it has been passed on.
Three history variables say what really happened: `io`, when a byte last came
from the shell or went to it, `passed`, when something was last passed on as a
whole, and `stall`, the longest time that took. `Tick` is the session's ticker,
which looks at `lastIO` and the deadline. The end of the shell is four steps:
`AskToEnd` (SIGTERM, which the shell may ignore), `GraceEnds` (two seconds, then
SIGKILL), `KernelKills`, and `Reap`, which waits for the shell and for nothing
else.

### EnvironmentExecutor

Each operation is a table of loops over the components (`Loops`), which reads
like the source; one step of a body is one call of the Docker API or one wait.
A call is done, refused by Docker, or fails with or without effect
(`Errs`). Changes are listed in `changed` and undone last to first (`Undo`),
under the context of the operation. `Interfere` and `Reconfigure` change
containers behind its back.

### DockerImages

`pc` is the next call to the daemon, `found` the identifier that was inspected,
`refs` the references still to be removed. The daemon is the set of images, what
each reference denotes, and the containers with their names. `ImageRemove`
follows Docker without force: it untags, and takes the image with its last
reference unless other images need it; it is refused (`Removable`) for the last
reference of an image in use and for an identifier with several references.
`OthersTag`, `OthersCreate` and `OthersRemove` are another user of the daemon
between any two calls. If an archive has several images under one reference, any
of them may get it. `LoadArchive` and `Loaded` are the parsing of the
output of `docker load`: exactly one image, by reference or by identifier.

### AgentLifecycle

Files are variables (`executable`, `new`, `backup`, `config`, `tokenFile`), and
so are systemd's view of the service (`unit`, `since`, `span`), the command
goroutine as far as it upgrades (`agent`), the script of `Activate` statement by
statement (`helper`), and the installer. Every binary has a `life`, how long its
processes run before they fail; it is chosen once and never changes. `Tick` is a
second and waits for whoever is due: systemd for its `RestartSec`, the script
for its eight seconds. `Kill` and `Reboot` end processes at any point; a reboot
also ends the transient unit with the script. `Torn` is a file that is being
written: `cp` truncates its target and fills it in a second step, with the
service as it may be in between. Every command of the script may fail, and under
`set -eu` that ends it where it is (`Aborts`); a failing `systemctl is-active` is
the condition of an `if` and reads like a service that is down. `unwatched`
records that a script ended between its move and the end of its verdict. The
installer is `main.go -enroll-only` inside `install.sh`, followed
by the start of the service.

## 3. Runs

Sizes are distinct states.

| Run | Instance | Shows |
|---|---|---|
| `dispatcher` (159,129) | an image deployment and an inventory whose result cannot be read back and which may be leased again while it runs; 2 leases each, 2 faults, 1 crash | `AtMostOncePerLease`, `AtMostOncePerCommand`, `TruthfulVerdict`, `ExecutedIsRecorded`, `SavedSurvivesUntilAccepted`, the refinement `ImplementsOnce` |
| `loop` (913,632) | image, environment, upgrade, and an undecodable command; batches of 2; 1 fault, 1 crash | `NothingPendingInBatch`, `StoredAcknowledgedBeforeNext`, `PendingIsCleared`, `LoopIInv` |
| `heartbeat` (34,424) | sequences to 3, 3 decisions, 2 losses, 1 restart | `NeverSkips`, `GrantConverges` |
| `terminal` (2,029,666) | 2 sessions, one of which may be offered again while it runs, 3 faults, 1 crash | `TruthfulEnd`, `ShellIsRecorded`, `LockIsOwned`, the refinement `ImplementsSession` |
| `terminal_live` (732,040) | 2 sessions, 3 faults, 1 crash, fairness | `LockIsReleased`, `RestartReports` |
| `relay` (1,398,663) | a queue of 2 messages and 3 bytes, chunks of 2, pongs of 1, idle 2, absolute 3 | `QueueIsAccounted`, `NoSilentEnd`, `IdleIsQuiet`, `SessionEnds` |
| `store` (2,423) | 3 records, either store, any number of errors, crashes and losses of power | the refinement `ImplementsFile`, `IInv` |
| `environment` (359,279) | 2 components, every initial state, all operations, 2 faults, 1 foreign act, 1 stop | `FailureIsUndone`, `SuccessIsTruthful`, `TouchesOnlyItsOwn`, `RetrySucceeds`, `IInv` |
| `images` (1,476,968) | 2 images, 2 references, 2 containers of 1 name, 4 archives, 1 fault, 2 acts of others | `UndisturbedDeletionIsAtomic`, `DeployedIsTheArchive`, `RemovesOnlyTheInspected`, `ManagedIsKept`, `IInv` |
| `lifecycle` (3,893,897) | 2 upgrades, lives of 0, 1, 3, 9 seconds and for ever, 2 installations, 2 faults, 1 reboot | `InstalledIsEnrolled`, `InstalledWasStaged`, `RollsBackToProven`, `DeadIsRolledBack`, `IInv` |
| `loop_oversize`, `terminal_guard` | the smallest instance with the behaviour | each violated: see [Findings](#6-findings) |

`IInv` and `LoopIInv` contain the type invariant; they are what the proofs show
to be inductive. `LoopIInv` contains the invariant of the dispatcher. The
invariants of the terminal manager and of the relay passed on the same instances
while they were being found; now that they are proved, the runs check what rests
on them.

Why these bounds. The dispatcher holds one record and runs one call, so two
commands are a record and a competitor; two leases are the stale and the
latest one; two faults are a lost report and a failure of its retry, or a
failing Save and a lost exchange; one crash separates two processes. Three
faults of the terminal exhaust the three attempts of a report, in the run for
liveness as well. Two faults of the life cycle are a process killed and a command
of the script that fails, or two commands of one script. Two sessions
are a session and its successor, which is all the manager can hold. A queue of
two messages and three bytes is filled by count and by size, by one sender and
by two; three units of time let an idle timeout of two be early, in time and
overtaken by the deadline. Two components are one that was changed and one that
fails. Two images and two references are the inspected one and what a reference
can be moved to; two container identifiers under one name are a container and
the one that takes its name; two acts of others undo and redo. The lives of
binaries fall into every interval the script distinguishes: dead at once and
within a second, up by chance at the check, gone right after it, sound. Two
callers of `SendOnce` is what the program has; three decisions let a grant be
given, withdrawn and given again. Three records are one before, one being
written and one lost with the power. The proofs remove the bounds from the safety
properties.

Every run checks for deadlock except two: in `relay` a session that has returned
does nothing any more, and in `lifecycle` a host that has used up its offers,
faults and installations is at rest. In the others another poll or retry, the
next heartbeat, or another operation is always possible.

## 4. Fairness

* `FairLoopSpec`: weak fairness of the goroutine as a whole (`AgentStep`).
  Every HTTP exchange has a timeout, every wait in `commandLoop` a timer, and
  an operation runs under deadlines of its own. Nothing is assumed about the
  server's own steps or about crashes.
* `AgentHeartbeat!FairSpec`: the timer of the heartbeat loop fires, and an
  exchange that is not lost is answered. No fairness for the second caller's
  sending: it sends only when the grant is invalid.
* `TerminalManager!FairSpec`: each thread proceeds, the absolute deadline of a
  session passes, and a relay ends and its shell with it. The last of these is
  taken for granted here and shown in `TerminalRelay` by `SessionEnds`. Signals,
  polls, the platform and crashes are not fair.
* `TerminalRelay!FairSpec`: a goroutine that does not wait for the browser or
  the shell goes on, because a write to the WebSocket has a deadline
  (manager_linux.go:153) and because closing the WebSocket and the PTY ends the
  reads and writes on them; the session goes on; the clock goes on; the kernel
  carries out a SIGKILL (`KernelKills`). Nothing is assumed of the shell, which
  may ignore SIGTERM for ever, of the browser, or of the end of the context.
* `EnvironmentExecutor!FairSpec`: a call returns or times out, and the server
  asks again.
* `AgentLifecycle!FairSpec`: time passes, systemd does what the unit file says,
  and the script goes on. Nobody has to install or to upgrade, and no process
  has to fail before its life is over.

Losses, store errors, crashes, reboots and acts of others are finite in number
in all of them: a network that never recovers defeats every retry.

## 5. Proofs

All of them are checked by TLAPS for every value of the constants: any commands
and kinds, leases, sessions, components, images, binaries, timeouts, and any
number of faults, crashes and acts of others. The assumptions are the ASSUMEs of
the modules (types of the constants) and nothing else. TLC checked each inductive
invariant on the instance of section 3 before its proof.

**`CommandProofs`, the dispatcher.** `AtMostOncePerLease`, `TruthfulVerdict` and the
others are not inductive: whether a second execution is possible depends on
what is on disk and on where the running call is. `IInv` adds

* `StoreInv`: the file holds at most one record; its lease was started at the
  server and will not be offered as new; its result is the outcome of the
  operation; a record without outcome belongs to a lease whose outcome was
  never saved;
* `CallInv`: what a call knows at each statement. Before its Save the store is
  empty; from Save to the outcome it holds the bare record; from the outcome
  to the acknowledgement it holds the result in memory; at Clear the server no
  longer waits;
* `ExecutionInv`: an operation under way belongs to the running call; one
  begun or refused has a record as long as its lease can still be started;
* `VerdictInv`: no verdict before the end, and the two properties about it.

One lemma per action proves that it keeps each conjunct; `Invariance` combines
them. From it follow `TypeCorrect`, `AtMostOnce`, `AtMostOnceOverLeases`,
`Truthful`, `ExecutedStaysRecorded`, `SavedSurvives`, and, action by action,
`Refinement`: every step is a step of `OnceCommand` or stutters.

**`CommandProofs`, the loop.** A step of the loop is a step of the open
dispatcher or keeps `IInv` (`LoopIsDispatcher`), so the invariant carries over
and with it the refinement (`LoopImplementsOnce`). `LoopInv` adds that the
store is empty past the retry and that a call returning nil left it empty;
`NothingPending` and `StoredAcknowledged` follow.

**`AgentHeartbeatProofs`.** `NeverSkips` needs that an answer is of a sequence
the server committed (`AnsweredIsCommitted`); with it `SequenceInv` is
inductive, for any bounds and any interleaving of the two callers.

**`TerminalManagerProofs`.** What the three properties say of a session depends
on which thread is responsible for it. `ThreadInv` says who may hold the lock
and that a shell with a live context is the one `awaitCompletion` waits for;
`RecordInv` that the store holds one record, the one of the session the server
waits for, and that for such a session someone is still going to report
(`awaitCompletion`, or `recoveryPending`, or the next start); `VerdictInv` what
the thread about to report knows of the shell. `Recorded`, `Truthful` and
`LockOwned` follow. `Refinement`, action by action: a step of a thread either
leaves shells and verdicts alone or is one step of `TerminalSession`; that a
verdict is justified is `VerdictInv`, that no second shell is opened beside a
live one is `ThreadInv`.

**`DurableStoreProofs`.** Everything the disk may have under the path is whole,
because only a file that was written in full and synced is renamed, and the file
is the target of the call from the rename or the removal on (`IInv`). From it
`Durable`: after a `Save` of the recovery store that returned nil a loss of
power changes nothing. `Refinement`: the calls before the rename stutter, the
rename or removal is the point where the abstract call takes effect, and the end
of a call, of the process or of the power is the same event in both.

**`TerminalRelayProofs`.** `QueueIsAccounted`: the counter is the bytes in the
channel plus what each goroutine has reserved and not yet put or given back, or
has taken and not yet discounted. Each action moves bytes from one of these
places to another, which is abstracted in one predicate per goroutine before the
sum is looked at. `Bytes` is defined by recursion over the length of the
sequence, so what `Append` and `Tail` do to it (`BytesOfAppend`, `BytesOfTail`)
needs induction. The lemma `SetInduction` provides it as a statement about
subsets of the natural numbers, from the least element of a set, and
`TotalsExist` and `TotalsAgree` use it to show that the recursion has one
solution for each sequence. Types and account hold for any sizes
(`Invariance`). `NoticeInv`: a
goroutine that ended before the stop left an error in the channel, which nobody
but the session takes out (a capacity of one would do; the code has four); from
it `NoErrorIsLost`. `ClockInv` (`Clocked`): `lastIO` is behind the time when
something was last passed on as a whole by no more than the longest time that
took, although two goroutines set it and may set it back; and input the PTY
accepted later than that belongs to a frame still being written, or to one whose
writing failed and ended its goroutine. From it `IdleMeansQuiet`, action by
action.

**`EnvironmentExecutorProofs`.** The table of loops is first turned into numbers
(`LoopCount`, `BodyLength`, `TableHolds`, `Moves`), after which the argument is
one for any number of components: `SeenInv` (what has been inspected was
acceptable), `UndoInv` (a changed component is one step from what it was, and
the inverse of that step leads back; an unchanged one is as it was),
`ProgressInv` (which loop has passed a component, and what that means for its
container). `FailureUndone`, `SuccessTruthful` and `OnlyItsOwn` follow.
`OperationEnds` is the safety half of "an operation ends": `Work`, a number of
at most 16 N, decreases with every step of the operation, is not increased by
anybody else, and is zero only when the operation is over. That a step is
always possible stays with TLC, in `RetrySucceeds`.

**`DockerImagesProofs`.** `TargetInv`: before a removal the reference denotes
the inspected image or was moved by others since the check; the container about
to be removed is a given identifier, gone or unmanaged for good. From it
`OnlyTheInspected` and `ManagedStays`, action by action. `DeleteInv` says what an
undisturbed deletion knows at each call: `refs` are the references of the
inspected image, each once (`Remaining`, which rests on the lemma `Enumeration`
about a finite set in some order), no container uses it, and so no removal is
refused halfway (`DeletionIsAtomic`). `DeployInv` follows the one image of the
archive from the output of the load to the target (`DeployedArchive`).

**`AgentLifecycleProofs`.** `EnrolInv` (what each step of the installer may rely
on), `HostInv` (only an installed host upgrades, and the script past its copy
has a backup), `StagedInv` (the file the script is about to move is the one that
was reported, unless a download overtook it), `ProvenInv` (outside the time
between move and verdict the executable is proven, within it the backup is,
unless a script ended there). Each command that may fail is one more case:
before the move nothing depends on the backup, so a copy cut short is harmless
only because the script stops there; after the move a failure sets `unwatched`.
`Enrolled`, `StagedFirst` and `BackupIsProven` follow.

Only model-checked: liveness (`PendingIsCleared`, `GrantConverges`,
`LockIsReleased`, `RestartReports`, `SessionEnds`, `RetrySucceeds`,
`DeadIsRolledBack`), which TLAPS does not treat under fairness. Every other
property of section 3 has its theorem.

## 6. Findings

1. **An oversized inventory result blocks the agent** (`loop_oversize`). Save
   has no size limit, Load has one. After one lost reply every `RetryPending`
   fails, in this process and all later ones, and the loop never polls again.
   README.md:98-101 promises that the saved result is retried.
2. **An unguarded recovery record** (`terminal_guard`). When
   `RecordStartFailure` fails after its rename, `recoveryPending` is not set,
   and the next session overwrites a failure that was never reported.

Met while modelling, and visible in the models:

* The start of a command is acknowledged before the first Save
  (command_dispatcher.go:191). A process that ends in between leaves a command
  RUNNING at the server and unknown to the agent; README.md:101-103 speaks of a
  process that "ended between accepting the command and saving its outcome".
* File transfer, model workspace and terminal input keep no record: one lost
  report loses the result, and the next command begins. The comment "Persist
  and acknowledge each result before processing the next command"
  (agent.go:182) is true of the stored commands only, for which
  `StoredAcknowledgedBeforeNext` states it.
* A result the server rejects with another status than 409 is retried for
  ever, before every poll.
* The limit of one session (README.md:128-129) is one of sessions, not of
  shells: the lock is released when the context ends (manager.go:183), and the
  shell may live up to two more seconds beside the next one. `TerminalSession`
  therefore promises at most one shell that has not been told to stop.
* After three lost reports of a session's end, the terminal refuses sessions
  until the agent is restarted (manager.go:229).
* The input goroutine sets the time of last activity to the arrival of its
  frame, and only once all of the frame is written (manager_linux.go:233,
  243-268). So an idle timeout may come early by as long as the PTY made that
  frame wait, and while the PTY is taking a frame piecemeal, what it takes counts
  for nothing: the "10-minute no-I/O timeout" (README.md:128) may end a session
  in the middle of its input. `IdleIsQuiet` allows for the first and says of the
  second that only an incomplete frame can be the reason.
* A shell that exits ends its relay with an error of the PTY and is reported as
  failed.
* `CreatePair` reports a component that was already running as stopped
  (docker.go:385); `SuccessIsTruthful` excepts it.
* The compensation runs under the operation's context: after a cancellation it
  undoes nothing. A call that took effect and then returned an error is not
  compensated at all. `FailureIsUndone` excepts components with a failed call.
* The executor inspects by name and then acts by name; `TouchesOnlyItsOwn`
  excepts a container that changes hands in between. `RemovesOnlyTheInspected`
  excepts a reference moved between the last check and its removal.
* A deletion that meets an image with children fails after it has removed all
  references (`UndisturbedDeletionIsAtomic` allows for it).
* The script of an upgrade looks at the new process once. A binary that keeps
  failing but happens to run at that moment is accepted; only one that dies
  within a second of every start is certain to be rolled back
  (`DeadIsRolledBack`). A roll-back that finds the new process running again
  cannot write its file and stops. So does, under `set -eu`, a script whose
  `chmod` or `systemctl restart` fails after the move, or whose `cp` fails in the
  roll-back: the new binary, or a part of the old one, stays without a verdict
  (upgrade/manager_linux.go:53-61). These cases are `unwatched`.
* After a roll-back or a failed script the transient unit stays in state
  failed, and systemd-run refuses another of that name: later upgrades are
  reported as staged and never activated. A lost reply to the report of STAGED
  also leaves an upgrade that is not activated.
* A download that begins while the script of the last upgrade still waits
  truncates the file the script is going to move
  (upgrade/manager_linux.go:36, 55); `InstalledWasStaged` excepts it
  (`overtaken`).
* The command store never syncs its directory (command_store.go:83, 91), so a
  loss of power may undo a `Save` or a `Clear` that returned nil. The recovery
  store does, but a `Clear` that is repeated after its sync failed finds no file
  and returns nil without a sync (recovery_store.go:166-168); the record may
  come back with the power. `RecordFile` promises neither.
* A process that ends inside a `Save` leaves its temporary file behind, and
  nothing removes it.
* `install.sh` truncates `agent.yml` on a reinstallation, and `enable --now`
  leaves a running process with its old identity.

## 7. What is abstracted or left out

* Results are success, failure, unknown; messages, details and progress
  percentages are not modelled. The progress reports of a running image
  deployment are part of its operation: losing one cancels it.
* The relay's contents: control frames are told apart only by what they do
  to queue and shell; the rate limits refuse at any time.
* Power loss. `DurableStore` has it, with a disk that keeps what was synced, any
  part of the data that was not, and the changes of a directory up to some
  point. In the other models processes end and hosts reboot in order: what was
  written stays. That `xkp-agent.new` is not synced is outside them. `mv` is a
  rename within one file system.
* `Load` changes nothing; the parents and modes the recovery store looks at
  before it touches the file only add failures to the first call.
* An installation does not run during an upgrade, nor an upgrade during an
  installation.
* Images: a deployment target is a tag (Docker cannot tag a digest), digest
  references are left out, and after the end of a process nothing resumes an
  operation (`AgentCommandLoop` reports its outcome as unknown).
* A failing `Load` of the terminal recovery record at start-up ends the process
  and is retried by systemd, hence a stuttering step.
* The container configuration is its labels; validator and MPS manager only
  add failures to the first step of an operation.
* `InspectPair` has no caller; the fake executor and the non-Linux builds are
  not part of the service.

Not modelled, because nothing in them depends on order, failure or another
actor: the pure validation of `internal/protocol` and `internal/container`
(`validator.go`), the readings of `internal/collect` (no step depends on their
values), `internal/power` (one call), the discovery of the identity and the
validation of the configuration, `uninstall.sh`. File transfer and model
workspace are sequential copies without a record, which to the dispatcher are
the kind `"direct"`. `xkp-editor-tls-migrate` is run by hand, and no document or
test says what it promises after an interruption.

## 8. Plan

Done, in the order of importance: `OnceCommand`, `CommandDispatcher` and
`AgentCommandLoop`, because everything else is a command to them; the concurrent
components, `AgentHeartbeat`, `TerminalManager` and `TerminalRelay`; the
operations with the richest failure handling, `EnvironmentExecutor` and
`DockerImages`; the life of the process on its host, `AgentLifecycle`; the files
under a loss of power, `DurableStore`; the abstract specifications of a session
and of a file; and for each of them the inductive invariant and the theorems
that rest on it.

What is left:

1. The dispatcher and the terminal manager over a `RecordFile` that loses power:
   which of their promises survive a `Save` or `Clear` that is undone.
2. The composition of the command loop with both a stored command and a terminal
   session; the two share the loop, the batch and the server, and each module
   now takes the other for an interruption.
3. The refinement of the manager's relay by `TerminalRelay`.
4. Measures such as `Work` for the image deployment, the calls of the dispatcher
   and the stop of a session, as theorems beside the liveness that is out of the
   prover's reach.
5. `EditorTlsMigrate`, once it is written down what an interrupted migration
   should leave behind.
