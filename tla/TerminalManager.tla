-------------------------- MODULE TerminalManager --------------------------
(***************************************************************************)
(* The maintenance terminal: dispatchTerminal of the command dispatcher,   *)
(* the session manager (internal/terminal/manager.go), its one-record      *)
(* recovery store, the Linux runner with its relay goroutine, and the      *)
(* start-up and shutdown of the process (cmd/xkp-agent/main.go).           *)
(*                                                                         *)
(* Four threads meet here: the main thread, the command goroutine (dpc),   *)
(* the goroutine that awaits the end of the session (await), and the relay *)
(* goroutine of each shell (relay), which may outlive the session that     *)
(* started it.                                                             *)
(***************************************************************************)
EXTENDS Naturals

CONSTANTS
  Sessions,     \* terminal sessions, each with its OPEN_ROOT_TERMINAL command
  Releasable,   \* sessions whose command the server may offer again while it runs
  MaxFaults,    \* bound: lost exchanges and failing store accesses
  MaxCrashes,   \* bound: times the agent process ends
  NoSession

ASSUME SessionsAssumption ==
  /\ NoSession \notin Sessions
  /\ Releasable \subseteq Sessions
  /\ MaxFaults \in Nat
  /\ MaxCrashes \in Nat

(* The recovery record; failure: does it carry a pending start failure? *)
Recovery == [session: Sessions, failure: BOOLEAN]

VARIABLES
  (* The management server. *)
  srv,       \* state of the command of each session
  verdict,   \* the result it holds
  (* The agent's threads. *)
  main,      \* start-up, running, shutdown
  dpc, cmd, code, second,   \* dispatchTerminal; second: after the Close
  await, answer, attempts,  \* awaitCompletion
  (* The Manager. *)
  active,    \* the session that holds the lock
  pending,   \* recoveryPending
  ctx,       \* the context of each launched session
  (* The runner. *)
  relay,     \* the shell of each session and its relay goroutine
  ended,     \* what relaySession returns
  (* The disk and the bounds. *)
  store,     \* terminal-recovery.json: a set of at most one Recovery
  faults,
  crashes

serverVars  == <<srv, verdict>>
callVars    == <<dpc, cmd, code, second>>
awaitVars   == <<await, answer, attempts>>
relayVars   == <<relay, ended>>
boundVars   == <<faults, crashes>>
vars == <<serverVars, main, callVars, awaitVars, active, pending, ctx,
          relayVars, store, boundVars>>

Maybe == Sessions \cup {NoSession}

TypeOK ==
  /\ srv      \in [Sessions -> {"leased", "running", "done"}]
  /\ verdict  \in [Sessions -> {"none", "closed", "failed", "timeout", "refused",
                                "startFailed", "interrupted", "cancelled"}]
  /\ main     \in {"down", "recover", "recoverClear", "up", "closing"}
  /\ dpc      \in {"idle", "ack", "start", "save", "launch", "unlaunch", "close",
                   "closing", "record", "report", "forget"}
  /\ cmd      \in Maybe
  /\ code     \in {"none", "refused", "startFailed"}
  /\ second   \in BOOLEAN
  /\ await    \in {"none", "waiting", "report", "clear", "release"}
  /\ answer   \in {"none", "closed", "failed", "timeout"}
  /\ attempts \in 0..2
  /\ active   \in Maybe
  /\ pending  \in BOOLEAN
  /\ ctx      \in [Sessions -> {"live", "cancelled", "expired"}]
  /\ relay    \in [Sessions -> {"none", "killed", "running", "ending", "gone"}]
  /\ ended    \in [Sessions -> {"none", "ok", "error"}]
  /\ store    \in SUBSET Recovery
  /\ faults   \in 0..MaxFaults
  /\ crashes  \in 0..MaxCrashes

Init ==
  /\ srv     = [s \in Sessions |-> "leased"]
  /\ verdict = [s \in Sessions |-> "none"]
  /\ main = "down"
  /\ dpc = "idle" /\ cmd = NoSession /\ code = "none" /\ second = FALSE
  /\ await = "none" /\ answer = "none" /\ attempts = 0
  /\ active = NoSession /\ pending = FALSE
  /\ ctx   = [s \in Sessions |-> "live"]
  /\ relay = [s \in Sessions |-> "none"]
  /\ ended = [s \in Sessions |-> "none"]
  /\ store = {}
  /\ faults = 0 /\ crashes = 0

-----------------------------------------------------------------------------
(* The server, the faults and the file. *)

Finish(s, r) ==
  /\ srv' = [srv EXCEPT ![s] = "done"]
  /\ verdict' = [verdict EXCEPT ![s] = r]

(* FinishCommand, when it reaches the server; 409 counts as delivered. *)
ServerFinishes(s, r) ==
  \/ srv[s] = "running" /\ Finish(s, r)
  \/ srv[s] # "running" /\ UNCHANGED serverVars

(* The platform closes the session by itself. *)
Terminalize(s) ==
  /\ srv[s] # "done"
  /\ Finish(s, "cancelled")
  /\ UNCHANGED <<main, callVars, awaitVars, active, pending, ctx, relayVars,
                 store, boundVars>>

Fault == faults < MaxFaults /\ faults' = faults + 1 /\ UNCHANGED crashes

File(s, f) == {[session |-> s, failure |-> f]}

(* Save and Clear may fail before or after they change the directory. *)
Writes(file)     == store' = file /\ UNCHANGED boundVars
WriteFails(file) == store' \in {store, file} /\ Fault

-----------------------------------------------------------------------------
(* dispatchTerminal and the Start, Close, RecordStartFailure and           *)
(* ClearStartFailure it calls.  Start holds recoveryMu to its end, but     *)
(* nothing else asks for that lock once the agent is up.                   *)

Goto(stage) == dpc' = stage /\ UNCHANGED <<cmd, code, second>>

Return == dpc' = "idle" /\ cmd' = NoSession /\ code' = "none" /\ second' = FALSE

(* Only TERMINAL_START_FAILED is recorded before it is reported. *)
StartError(c) ==
  /\ code' = c
  /\ dpc' = IF c = "startFailed" THEN "record" ELSE "report"
  /\ UNCHANGED <<cmd, second>>

Dispatch(s) ==
  /\ main = "up" /\ dpc = "idle"
  /\ srv[s] = "running" => s \in Releasable
  /\ dpc' = "ack" /\ cmd' = s /\ UNCHANGED <<code, second>>
  /\ UNCHANGED <<serverVars, main, awaitVars, active, pending, ctx, relayVars,
                 store, boundVars>>

StartCommand ==
  /\ dpc = "ack"
  /\ \/ /\ srv[cmd] # "done"
        /\ srv' = [srv EXCEPT ![cmd] = "running"]
        /\ Goto("start") /\ UNCHANGED boundVars
     \/ srv[cmd] = "done" /\ Return /\ UNCHANGED <<srv, boundVars>>
     \/ /\ srv' \in {srv, [srv EXCEPT ![cmd] = IF @ = "done" THEN @ ELSE "running"]}
        /\ Return /\ Fault
  /\ UNCHANGED <<verdict, main, awaitVars, active, pending, ctx, relayVars, store>>

(* Faulty StartLock: a session whose context has not ended is overlooked.  *)
StartLockBlind ==
  /\ dpc = "start"
  /\ \/ StartError("refused") /\ UNCHANGED active
     \/ ~pending /\ active' = cmd /\ Goto("save")
  /\ UNCHANGED <<serverVars, main, awaitVars, pending, ctx, relayVars, store,
                 boundVars>>

(* The checks of Start under its lock; a deadline may pass at any time. *)
StartLock ==
  /\ dpc = "start"
  /\ \/ StartError("refused") /\ UNCHANGED active
     \/ /\ active # NoSession
        /\ IF second THEN StartError("refused") ELSE Goto("close")
        /\ UNCHANGED active
     \/ active = NoSession /\ pending /\ StartError("refused") /\ UNCHANGED active
     \/ active = NoSession /\ ~pending /\ active' = cmd /\ Goto("save")
  /\ UNCHANGED <<serverVars, main, awaitVars, pending, ctx, relayVars, store,
                 boundVars>>

(* Faulty SaveRecovery: launch the shell although the record is not saved. *)
SaveErrorIgnored ==
  /\ dpc = "save"
  /\ Writes(File(cmd, FALSE)) \/ WriteFails(File(cmd, FALSE))
  /\ Goto("launch") /\ UNCHANGED <<active, pending>>
  /\ UNCHANGED <<serverVars, main, awaitVars, ctx, relayVars>>

SaveRecovery ==
  /\ dpc = "save"
  /\ \/ Writes(File(cmd, FALSE)) /\ Goto("launch") /\ UNCHANGED <<active, pending>>
     \/ /\ WriteFails(File(cmd, FALSE))
        /\ pending' = TRUE /\ active' = NoSession /\ StartError("startFailed")
  /\ UNCHANGED <<serverVars, main, awaitVars, ctx, relayVars>>

(* runner.Start: a ticket is good for one shell; the launch may fail       *)
(* before there is a shell or, when the connection deadline passes, after. *)
Launch ==
  /\ dpc = "launch"
  /\ \/ /\ relay[cmd] = "none"
        /\ relay' = [relay EXCEPT ![cmd] = "running"]
        /\ await' = "waiting" /\ Return
     \/ /\ \/ UNCHANGED relay
           \/ relay[cmd] = "none" /\ relay' = [relay EXCEPT ![cmd] = "killed"]
        /\ Goto("unlaunch") /\ UNCHANGED await
  /\ UNCHANGED <<serverVars, main, answer, attempts, active, pending, ctx, ended,
                 store, boundVars>>

(* Faulty Unlaunch: rollbackStart keeps the lock. *)
UnlaunchLocked ==
  /\ dpc = "unlaunch"
  /\ \/ Writes({}) /\ UNCHANGED pending
     \/ WriteFails({}) /\ pending' = TRUE
  /\ StartError("startFailed")
  /\ UNCHANGED <<serverVars, main, awaitVars, active, ctx, relayVars>>

Unlaunch ==
  /\ dpc = "unlaunch"
  /\ \/ Writes({}) /\ UNCHANGED pending
     \/ WriteFails({}) /\ pending' = TRUE
  /\ active' = NoSession
  /\ StartError("startFailed")
  /\ UNCHANGED <<serverVars, main, awaitVars, ctx, relayVars>>

(* Close of the session that holds the lock, for at most five seconds. *)
CancelActive ==
  /\ dpc = "close"
  /\ ctx' = IF active = NoSession THEN ctx
            ELSE [ctx EXCEPT ![active] = IF @ = "live" THEN "cancelled" ELSE @]
  /\ Goto("closing")
  /\ UNCHANGED <<serverVars, main, awaitVars, active, pending, relayVars, store,
                 boundVars>>

CloseReturns ==
  /\ dpc = "closing"
  /\ \/ active = NoSession /\ dpc' = "start" /\ second' = TRUE /\ UNCHANGED <<cmd, code>>
     \/ active # NoSession /\ StartError("refused")
  /\ UNCHANGED <<serverVars, main, awaitVars, active, pending, ctx, relayVars,
                 store, boundVars>>

RecordStartFailure ==
  /\ dpc = "record"
  /\ \/ Writes(File(cmd, TRUE)) /\ pending' = TRUE /\ Goto("report")
     \/ WriteFails(File(cmd, TRUE)) /\ Return /\ UNCHANGED pending
  /\ UNCHANGED <<serverVars, main, awaitVars, active, ctx, relayVars>>

ReportStartFailure ==
  /\ dpc = "report"
  /\ \/ /\ ServerFinishes(cmd, code)
        /\ IF code = "startFailed" THEN Goto("forget") ELSE Return
        /\ UNCHANGED boundVars
     \/ /\ ServerFinishes(cmd, code) \/ UNCHANGED serverVars
        /\ Return /\ Fault
  /\ UNCHANGED <<main, awaitVars, active, pending, ctx, relayVars, store>>

ClearStartFailure ==
  /\ dpc = "forget"
  /\ \/ Writes({}) /\ pending' = FALSE
     \/ WriteFails({}) /\ UNCHANGED pending
  /\ Return
  /\ UNCHANGED <<serverVars, main, awaitVars, active, ctx, relayVars>>

DispatcherStep ==
  \/ StartCommand \/ StartLock \/ SaveRecovery \/ Launch \/ Unlaunch
  \/ CancelActive \/ CloseReturns
  \/ RecordStartFailure \/ ReportStartFailure \/ ClearStartFailure

-----------------------------------------------------------------------------
(* A launched session. *)

(* The absolute deadline of the session's context passes. *)
Expire(s) ==
  /\ active = s /\ await # "none" /\ ctx[s] = "live"
  /\ ctx' = [ctx EXCEPT ![s] = "expired"]
  /\ UNCHANGED <<serverVars, main, callVars, awaitVars, active, pending, relayVars,
                 store, boundVars>>

(* relaySession leaves its loop: the browser closed (nil), or a failure, a *)
(* timeout or the end of its context (an error).                           *)
RelayStops(s) ==
  /\ relay[s] = "running"
  /\ relay' = [relay EXCEPT ![s] = "ending"]
  /\ \E r \in {"ok", "error"} : ended' = [ended EXCEPT ![s] = r]
  /\ UNCHANGED <<serverVars, main, callVars, awaitVars, active, pending, ctx, store,
                 boundVars>>

(* terminateProcess is through; only now the completion is sent. *)
ShellGone(s) ==
  /\ relay[s] = "ending"
  /\ relay' = [relay EXCEPT ![s] = "gone"]
  /\ UNCHANGED <<serverVars, main, callVars, awaitVars, active, pending, ctx, ended,
                 store, boundVars>>

ContextError == IF ctx[active] = "expired" THEN "timeout" ELSE "failed"

(* The completion is there once the shell is gone.  Faulty: before that. *)
CompletedEarly == relay[active] \in {"ending", "gone"}

Completed == relay[active] = "gone"

(* The select of awaitCompletion takes either channel when both are ready. *)
SessionEnds ==
  /\ await = "waiting"
  /\ \/ /\ Completed
        /\ answer' = IF ended[active] # "ok" THEN "failed"
                     ELSE IF ctx[active] = "live" THEN "closed" ELSE ContextError
     \/ ctx[active] # "live" /\ answer' = ContextError
  /\ await' = "report" /\ attempts' = 0
  /\ UNCHANGED <<serverVars, main, callVars, active, pending, ctx, relayVars, store,
                 boundVars>>

Attempts == attempts < 2

(* Three attempts; after the last, only a restart can report the session. *)
ReportEnd ==
  /\ await = "report"
  /\ \/ /\ ServerFinishes(active, answer)
        /\ await' = "clear" /\ UNCHANGED <<attempts, pending, boundVars>>
     \/ /\ ServerFinishes(active, answer) \/ UNCHANGED serverVars
        /\ Fault
        /\ IF Attempts
             THEN attempts' = attempts + 1 /\ UNCHANGED <<await, pending>>
             ELSE await' = "release" /\ pending' = TRUE /\ UNCHANGED attempts
  /\ UNCHANGED <<main, callVars, answer, active, ctx, relayVars, store>>

ClearEnd ==
  /\ await = "clear"
  /\ \/ Writes({}) /\ pending' = FALSE
     \/ WriteFails({}) /\ pending' = TRUE
  /\ await' = "release"
  /\ UNCHANGED <<serverVars, main, callVars, answer, attempts, active, ctx, relayVars>>

(* Faulty Release: the lock is kept. *)
ReleaseLocked ==
  /\ await = "release"
  /\ await' = "none" /\ answer' = "none" /\ attempts' = 0
  /\ UNCHANGED <<serverVars, main, callVars, pending, active, ctx, relayVars, store,
                 boundVars>>

Release ==
  /\ await = "release"
  /\ await' = "none" /\ active' = NoSession
  /\ answer' = "none" /\ attempts' = 0
  /\ UNCHANGED <<serverVars, main, callVars, pending, ctx, relayVars, store, boundVars>>

AwaitStep == SessionEnds \/ ReportEnd \/ ClearEnd \/ Release

-----------------------------------------------------------------------------
(* The process. *)

(* Faulty Boot: the record is not looked at. *)
BootUnrecovered ==
  /\ main = "down"
  /\ main' = "up" /\ pending' = FALSE
  /\ UNCHANGED <<serverVars, callVars, awaitVars, active, ctx, relayVars, store,
                 boundVars>>

Boot ==
  /\ main = "down"
  /\ pending' = (store # {})
  /\ main' = IF store = {} THEN "up" ELSE "recover"
  /\ UNCHANGED <<serverVars, callVars, awaitVars, active, ctx, relayVars, store,
                 boundVars>>

(* RetryRecovery of main: an error ends the process, which is restarted. *)
Recover ==
  /\ main = "recover"
  /\ \E rec \in store :
       LET r == IF rec.failure THEN "startFailed" ELSE "interrupted" IN
       \/ /\ ServerFinishes(rec.session, r)
          /\ main' = "recoverClear" /\ UNCHANGED boundVars
       \/ /\ ServerFinishes(rec.session, r) \/ UNCHANGED serverVars
          /\ main' = "down" /\ Fault
  /\ UNCHANGED <<callVars, awaitVars, active, pending, ctx, relayVars, store>>

RecoverClear ==
  /\ main = "recoverClear"
  /\ \/ Writes({}) /\ pending' = FALSE /\ main' = "up"
     \/ WriteFails({}) /\ main' = "down" /\ UNCHANGED pending
  /\ UNCHANGED <<serverVars, callVars, awaitVars, active, ctx, relayVars>>

(* A signal: once the loops have returned, the session is closed. *)
Shutdown ==
  /\ main = "up" /\ dpc = "idle" /\ crashes < MaxCrashes
  /\ main' = "closing"
  /\ ctx' = IF active = NoSession THEN ctx
            ELSE [ctx EXCEPT ![active] = IF @ = "live" THEN "cancelled" ELSE @]
  /\ UNCHANGED <<serverVars, callVars, awaitVars, active, pending, relayVars, store,
                 boundVars>>

(* Memory is lost, and the shells lose their terminals and the unit. *)
ProcessEnds ==
  /\ main' = "down"
  /\ Return
  /\ await' = "none" /\ answer' = "none" /\ attempts' = 0
  /\ active' = NoSession /\ pending' = FALSE
  /\ relay' = [s \in Sessions |->
                 IF relay[s] \in {"running", "ending"} THEN "gone" ELSE relay[s]]
  /\ crashes' = crashes + 1
  /\ UNCHANGED <<serverVars, ctx, ended, store, faults>>

(* Close has returned, or its five seconds are over. *)
Exit  == main = "closing" /\ ProcessEnds
Crash == main \notin {"down", "closing"} /\ crashes < MaxCrashes /\ ProcessEnds

MainStep == Boot \/ Recover \/ RecoverClear \/ Exit

Next ==
  \/ DispatcherStep \/ AwaitStep \/ MainStep \/ Shutdown \/ Crash
  \/ \E s \in Sessions :
       Dispatch(s) \/ Expire(s) \/ RelayStops(s) \/ ShellGone(s) \/ Terminalize(s)

Spec == Init /\ [][Next]_vars

(* Every thread goes on; a deadline passes and a shell that is killed      *)
(* dies.  Signals, crashes, polls and the platform are not fair.           *)
FairSpec ==
  /\ Spec
  /\ WF_vars(DispatcherStep) /\ WF_vars(AwaitStep) /\ WF_vars(MainStep)
  /\ \A s \in Sessions :
       WF_vars(Expire(s)) /\ WF_vars(RelayStops(s)) /\ WF_vars(ShellGone(s))

-----------------------------------------------------------------------------
Launched(s)  == relay[s] \in {"running", "ending", "gone"}
HasShell(s)  == relay[s] \in {"running", "ending"}

(* The record of a session that got its shell stays on disk while the      *)
(* server waits for the end of the session: it is neither cleared early    *)
(* nor overwritten by a later session, whatever fails and whenever the     *)
(* process ends (manager.go:87-131, 217-231).                              *)
ShellIsRecorded ==
  \A s \in Sessions :
    Launched(s) /\ srv[s] = "running" => \E rec \in store : rec = [session |-> s, failure |-> FALSE]

(* What the server is told is what happened: "closed" only of a shell that *)
(* is gone after an orderly end, a start failure only if no session of it  *)
(* was launched, an interruption only when the shell is gone, a refusal,   *)
(* unless it was leased twice, only if it never had a shell, a failure or  *)
(* a timeout only of a session that had one, and a timeout only after its  *)
(* deadline (manager.go:176-265).                                          *)
TruthfulEnd ==
  \A s \in Sessions :
    /\ verdict[s] = "closed" => relay[s] = "gone" /\ ended[s] = "ok"
    /\ verdict[s] = "startFailed" => ~Launched(s)
    /\ verdict[s] = "interrupted" => ~HasShell(s)
    /\ verdict[s] = "refused" /\ s \notin Releasable => ~Launched(s)
    /\ verdict[s] \in {"failed", "timeout"} => Launched(s)
    /\ verdict[s] = "timeout" => ctx[s] = "expired"

(* The lock is held by exactly one of the two goroutines that can hold it, *)
(* and of the shells at most the one of the lock holder has a live         *)
(* context: every other one is being stopped.                              *)
LockIsOwned ==
  /\ (await # "none") # (dpc \in {"save", "launch", "unlaunch"} /\ active = cmd)
       <=> active # NoSession
  /\ main # "down" =>
       \A s \in Sessions : HasShell(s) /\ ctx[s] = "live" => active = s

(* The shell and the verdict of a session, without the machinery: a shell  *)
(* whose context has ended is being stopped.                               *)
Shell(s) ==
  IF HasShell(s) THEN (IF ctx[s] = "live" THEN "live" ELSE "stopping")
  ELSE IF relay[s] = "gone" THEN (IF ended[s] = "ok" THEN "left" ELSE "lost")
  ELSE IF relay[s] = "killed" THEN "stillborn" ELSE "none"

Promise == INSTANCE TerminalSession WITH
  Session <- Sessions, Reoffered <- Releasable,
  shell   <- [s \in Sessions |-> Shell(s)]

(* The manager, its lock, its record and its threads implement the promise *)
(* of TerminalSession, whatever fails and whenever the process ends: every *)
(* step is one of its steps or none (manager.go:70-265).                   *)
ImplementsSession == Promise!Spec

-----------------------------------------------------------------------------
(* The inductive invariant: what each thread may rely on.                  *)

Up == main \in {"up", "closing"}

(* The command goroutine holds the lock from Start to the launch. *)
Holding == dpc \in {"save", "launch", "unlaunch"}

(* The server waits for the end of this session. *)
Owed(s) == Launched(s) /\ srv[s] = "running"

ThreadInv ==
  /\ dpc = "idle" <=> cmd = NoSession
  /\ dpc # "idle" => main = "up"
  /\ main = "closing" => crashes < MaxCrashes
  /\ code # "none" <=> dpc \in {"record", "report", "forget"}
  /\ dpc \in {"record", "forget"} => code = "startFailed"
  /\ code = "startFailed" => active = NoSession
  /\ active = NoSession <=> await = "none" /\ ~Holding
  /\ Holding => active = cmd /\ await = "none"
  /\ active # NoSession /\ await # "release" => ~pending
  /\ ~Up => active = NoSession /\ \A s \in Sessions : ~HasShell(s)
  /\ \A s \in Sessions :
       HasShell(s) /\ ctx[s] = "live" => active = s /\ await = "waiting"

RecordInv ==
  /\ ShellIsRecorded
  /\ \A rec1, rec2 \in store : rec1 = rec2
  /\ main = "recoverClear" => \A rec \in store : srv[rec.session] # "running"
  /\ dpc = "launch" => [session |-> cmd, failure |-> FALSE] \in store
  /\ dpc \notin {"idle", "ack"} => srv[cmd] # "leased"
  /\ \A s \in Sessions : Launched(s) => srv[s] # "leased"
  /\ \A s \in Sessions : Owed(s) =>
       /\ ~Holding /\ code # "startFailed"
       /\ ~Up \/ pending \/ (active = s /\ await \in {"waiting", "report"})

VerdictInv ==
  /\ TruthfulEnd
  /\ \A s \in Sessions : srv[s] # "done" => verdict[s] = "none"
  /\ await # "none" => Launched(active)
  /\ answer # "none" => await # "none"
  /\ answer = "closed" => relay[active] = "gone" /\ ended[active] = "ok"
  /\ answer = "timeout" => ctx[active] = "expired"
  /\ await \in {"report", "clear"} => answer # "none"
  /\ \A s \in Sessions : ctx[s] # "live" => Launched(s)
  /\ dpc \in {"start", "close", "closing", "save", "launch"} =>
       verdict[cmd] \in {"none", "cancelled", "closed", "failed", "timeout"}
  /\ dpc # "idle" /\ cmd \notin Releasable =>
       IF dpc = "ack" THEN srv[cmd] # "running" ELSE ~Launched(cmd)

(* Types, threads, the record and the verdicts together: inductive, and    *)
(* the three properties above follow from it (manager.go:70-265).          *)
IInv == TypeOK /\ ThreadInv /\ RecordInv /\ VerdictInv

(* A record that is left on disk blocks further sessions until it has been *)
(* reported: a failed Save "fails closed until recovery is checked"        *)
(* (manager_test.go:144), also that of RecordStartFailure.                 *)
RecordIsGuarded ==
  main = "up" /\ dpc = "idle" /\ active = NoSession /\ store # {} => pending

(* The lock is released in the end, whoever took it: the dispatcher, a     *)
(* session that ends, its deadline or a server that closes it.             *)
LockIsReleased ==
  \A s \in Sessions : active = s ~> active # s

(* A restart reports what the process left behind.                         *)
RestartReports ==
  \A s \in Sessions :
    (main = "down" /\ \E rec \in store : rec.session = s) ~> srv[s] # "running"
=============================================================================
