------------------------- MODULE CommandDispatcher -------------------------
(***************************************************************************)
(* The command dispatcher of the agent                                     *)
(* (internal/runtime/command_dispatcher.go, docker_inventory.go), its      *)
(* one-record file store (command_store.go) and, as its environment, the   *)
(* management server as the HTTP client sees it (internal/client).         *)
(*                                                                         *)
(* The dispatcher is modelled OPEN: whenever no call is running, the       *)
(* caller may call Dispatch with any lease ever handed out, or             *)
(* RetryPending.  Module AgentCommandLoop closes it with the one caller    *)
(* the program has.                                                        *)
(*                                                                         *)
(* A call is a sequence of steps, one for each exchange with the server,   *)
(* each access to the store, and the beginning and the end of the          *)
(* operation itself; the process may be killed between any two.            *)
(***************************************************************************)
EXTENDS Naturals

CONSTANTS
  Commands,        \* command identifiers
  Kind,            \* the kind of each command, see Kinds
  MaxLeases,       \* bound: leases the server grants to one command
  MaxFaults,       \* bound: lost exchanges and failing store accesses
  MaxCrashes,      \* bound: times the agent process ends
  Releasable,      \* commands the server may lease again once they are RUNNING
  Oversize,        \* commands whose encoded result exceeds the 64 KiB of Load
  NoLease          \* no call is running

(***************************************************************************)
(* "direct" stands for file transfer, model workspace and terminal input,  *)
(* whose handlers differ only in the operation they call.                  *)
(***************************************************************************)
StoredKinds == {"shutdown", "environment", "stop", "inventory", "image"}
Kinds       == StoredKinds \cup {"direct", "upgrade"}

Lease == [cmd: Commands, token: 1..MaxLeases]

ASSUME ConstantsAssumption ==
  /\ Kind \in [Commands -> Kinds]
  /\ MaxLeases \in Nat \ {0}
  /\ MaxFaults \in Nat
  /\ MaxCrashes \in Nat
  /\ Releasable \subseteq Commands
  /\ Oversize \subseteq {c \in Commands : Kind[c] = "inventory"}
  /\ NoLease \notin Lease

Outcomes == {"ok", "failed"}              \* what an operation ends with
Results  == Outcomes \cup {"unknown"}     \* what FinishCommand can deliver
Record   == [lease: Lease, result: Results \cup {"none"}]

VARIABLES
  (* The management server. *)
  server,    \* state of each command
  lease,     \* token of the latest lease of each command, 0 if none
  verdict,   \* the result the server holds for each command
  (* The running call. *)
  pc,        \* the statement the call is about to execute
  cur,       \* the lease it handles
  result,    \* the result in memory
  resumed,   \* does it report a record found on disk?
  failed,    \* did the last call return an error?
  (* The disk. *)
  store,     \* pending-command.json: a set of at most one Record
  (* History. *)
  runs,      \* how often the operation of each lease was begun
  outcome,   \* what really became of the operation of each lease
  saved,     \* leases whose outcome reached the disk
  faults,
  crashes

serverVars  == <<server, lease, verdict>>
callVars    == <<pc, cur, result, resumed, failed>>
historyVars == <<runs, outcome, saved>>
boundVars   == <<faults, crashes>>
vars        == <<serverVars, callVars, store, historyVars, boundVars>>

Stored(l)      == Kind[l.cmd] \in StoredKinds
Holds(l)       == \E rec \in store : rec.lease = l
File(l, r)     == {[lease |-> l, result |-> r]}

(* A lease the server has handed out at some time, perhaps more than once. *)
Delivered(l) == l.token <= lease[l.cmd]

(* Load refuses a file of more than 64 KiB, which Save has written. *)
Unreadable ==
  \E rec \in store : rec.lease.cmd \in Oversize /\ rec.result = "ok"

Stages == {"idle", "start", "save", "progress", "execute", "executing",
           "saveResult", "saveUnknown", "report", "clear"}

TypeOK ==
  /\ server  \in [Commands -> {"queued", "leased", "running", "done"}]
  /\ lease   \in [Commands -> 0..MaxLeases]
  /\ verdict \in [Commands -> Results \cup {"none", "cancelled"}]
  /\ pc      \in Stages
  /\ cur     \in Lease \cup {NoLease}
  /\ result  \in Results \cup {"none"}
  /\ resumed \in BOOLEAN
  /\ failed  \in BOOLEAN
  /\ store   \in SUBSET Record
  /\ runs    \in [Lease -> Nat]
  /\ outcome \in [Lease -> Outcomes \cup
                     {"none", "executing", "refused", "interrupted"}]
  /\ saved   \in SUBSET Lease
  /\ faults  \in 0..MaxFaults
  /\ crashes \in 0..MaxCrashes
  /\ pc # "idle" => cur \in Lease

Init ==
  /\ server  = [c \in Commands |-> "queued"]
  /\ lease   = [c \in Commands |-> 0]
  /\ verdict = [c \in Commands |-> "none"]
  /\ pc = "idle" /\ cur = NoLease /\ result = "none"
  /\ resumed = FALSE /\ failed = FALSE
  /\ store = {}
  /\ runs    = [l \in Lease |-> 0]
  /\ outcome = [l \in Lease |-> "none"]
  /\ saved = {}
  /\ faults = 0 /\ crashes = 0

-----------------------------------------------------------------------------
(* The management server. *)

(* A poll hands out a lease; an expired lease is replaced by a new one. *)
GrantLease(c) ==
  /\ \/ server[c] \in {"queued", "leased"}
     \/ server[c] = "running" /\ c \in Releasable
  /\ lease[c] < MaxLeases
  /\ lease'  = [lease EXCEPT ![c] = @ + 1]
  /\ server' = [server EXCEPT ![c] = "leased"]
  /\ UNCHANGED <<verdict, callVars, store, historyVars, boundVars>>

(* The platform ends a command by itself, which the 409 branch allows for. *)
Terminalize(c) ==
  /\ server[c] \in {"leased", "running"}
  /\ server'  = [server EXCEPT ![c] = "done"]
  /\ verdict' = [verdict EXCEPT ![c] = "cancelled"]
  /\ UNCHANGED <<lease, callVars, store, historyVars, boundVars>>

Startable(l) == server[l.cmd] \in {"leased", "running"} /\ lease[l.cmd] = l.token
Accepts(l)   == server[l.cmd] = "running" /\ lease[l.cmd] = l.token

(* POST .../start, when it reaches the server. *)
ServerStarts(l) ==
  /\ Startable(l)
  /\ server' = [server EXCEPT ![l.cmd] = "running"]
  /\ UNCHANGED <<lease, verdict>>

(* POST .../result, when it reaches the server; a refusal is status 409. *)
ServerFinishes(l, r) ==
  \/ /\ Accepts(l)
     /\ server'  = [server EXCEPT ![l.cmd] = "done"]
     /\ verdict' = [verdict EXCEPT ![l.cmd] = r]
     /\ UNCHANGED lease
  \/ /\ ~Accepts(l)
     /\ UNCHANGED serverVars

-----------------------------------------------------------------------------
(* Control of a call. *)

Goto(stage) == pc' = stage /\ UNCHANGED <<cur, resumed, failed>>

Return(err) ==
  /\ pc' = "idle" /\ cur' = NoLease /\ result' = "none"
  /\ resumed' = FALSE /\ failed' = err

Enter(l, stage, r) ==
  /\ pc' = stage /\ cur' = l /\ result' = r
  /\ resumed' = (stage # "start") /\ failed' = FALSE

Fault == faults < MaxFaults /\ faults' = faults + 1 /\ UNCHANGED crashes

(* An atomic replacement of the file; an error of the final chmod comes    *)
(* after the rename, any other error before it.                            *)
SaveSucceeds(l, r) == store' = File(l, r) /\ UNCHANGED boundVars

(* Faulty SaveFails: the file is written in place and may be lost. *)
SaveFailsInPlace(l, r) == store' \in {{}, store, File(l, r)} /\ Fault

SaveFails(l, r)    == store' \in {store, File(l, r)} /\ Fault

(* Faulty ResumeRecord: execute what has no result; forget a saved result. *)
ResumeByExecuting(rec) ==
  IF rec.result = "none" THEN Enter(rec.lease, "execute", "none")
                         ELSE Enter(rec.lease, "report", rec.result)

ResumeAsUnknown(rec) == Enter(rec.lease, "saveUnknown", "none")

(* With a record of this lease on disk both Dispatch and RetryPending      *)
(* report it, as EXECUTION_OUTCOME_UNKNOWN if it has no result.            *)
ResumeRecord(rec) ==
  IF rec.result = "none" THEN Enter(rec.lease, "saveUnknown", "none")
                         ELSE Enter(rec.lease, "report", rec.result)

(* A call that ends at once: a bad record, or another command's record.    *)
Refuse ==
  /\ failed' = TRUE
  /\ UNCHANGED <<pc, cur, result, resumed>>

(* Load fails. *)
LoadFails == Refuse /\ Fault

Dispatch(l) ==
  /\ pc = "idle"
  /\ Delivered(l)
  /\ \/ /\ \/ ~Stored(l) /\ Enter(l, "start", "none")
           \/ Stored(l) /\ store = {} /\ Enter(l, "start", "none")
           \/ /\ Stored(l) /\ ~Unreadable
              /\ \E rec \in store : rec.lease = l /\ ResumeRecord(rec)
           \/ /\ Stored(l)
              /\ Unreadable \/ \E rec \in store : rec.lease # l
              /\ Refuse
        /\ UNCHANGED boundVars
     \/ Stored(l) /\ LoadFails
  /\ UNCHANGED <<serverVars, store, historyVars>>

RetryPending ==
  /\ pc = "idle"
  /\ \/ /\ \/ ~Unreadable /\ \E rec \in store : ResumeRecord(rec)
           \/ Unreadable /\ Refuse
           \/ store = {} /\ failed' = FALSE /\ UNCHANGED <<pc, cur, result, resumed>>
        /\ UNCHANGED boundVars
     \/ LoadFails
  /\ UNCHANGED <<serverVars, store, historyVars>>

-----------------------------------------------------------------------------
(* The steps of a call. *)

(* Faulty StartCommand: go on after a refusal. *)
StartUnacknowledged ==
  /\ pc = "start"
  /\ ServerStarts(cur) \/ (~Startable(cur) /\ UNCHANGED serverVars)
  /\ Goto(IF Stored(cur) THEN "save" ELSE "execute")
  /\ UNCHANGED <<result, boundVars, store, historyVars>>

StartCommand ==
  /\ pc = "start"
  /\ \/ /\ ServerStarts(cur)
        /\ Goto(IF Stored(cur) THEN "save" ELSE "execute")
        /\ UNCHANGED <<result, boundVars>>
     \/ /\ ~Startable(cur) /\ Return(TRUE)
        /\ UNCHANGED <<serverVars, boundVars>>
     \/ /\ ServerStarts(cur) \/ UNCHANGED serverVars
        /\ Return(TRUE) /\ Fault
  /\ UNCHANGED <<store, historyVars>>

SaveStart ==
  /\ pc = "save"
  /\ \/ /\ SaveSucceeds(cur, "none")
        /\ Goto(IF Kind[cur.cmd] = "image" THEN "progress" ELSE "execute")
        /\ UNCHANGED result
     \/ SaveFails(cur, "none") /\ Return(TRUE)
  /\ UNCHANGED <<serverVars, historyVars>>

(* The RUNNING report of an image deployment: it leaves the server's state *)
(* alone, and a refusal (409) counts as delivered.                         *)
ReportProgress ==
  /\ pc = "progress"
  /\ \/ Goto("execute") /\ UNCHANGED <<result, boundVars>>
     \/ Return(TRUE) /\ Fault
  /\ UNCHANGED <<serverVars, store, historyVars>>

(* The operation begins, or an environment command other than a stop is    *)
(* refused because the operation grant is missing, denied or expired.      *)
Execute ==
  /\ pc = "execute"
  /\ \/ /\ runs'    = [runs EXCEPT ![cur] = @ + 1]
        /\ outcome' = [outcome EXCEPT ![cur] = "executing"]
        /\ Goto("executing") /\ UNCHANGED result
     \/ /\ Kind[cur.cmd] = "environment"
        /\ outcome' = [outcome EXCEPT ![cur] = "refused"]
        /\ result' = "failed" /\ Goto("saveResult") /\ UNCHANGED runs
  /\ UNCHANGED <<serverVars, store, saved, boundVars>>

(* The operation ends; "failed" covers a cancelled one and an image        *)
(* deployment stopped because a progress report was lost.                  *)
Complete(r) ==
  /\ pc = "executing"
  /\ outcome' = [outcome EXCEPT ![cur] = r]
  /\ result' = r
  /\ Goto(IF Stored(cur) THEN "saveResult" ELSE "report")
  /\ UNCHANGED <<serverVars, store, runs, saved, boundVars>>

SaveResult ==
  /\ pc = "saveResult"
  /\ \/ SaveSucceeds(cur, result) /\ Goto("report") /\ UNCHANGED result
     \/ SaveFails(cur, result) /\ Return(TRUE)
  /\ saved' = IF store' = File(cur, result) THEN saved \cup {cur} ELSE saved
  /\ UNCHANGED <<serverVars, runs, outcome>>

(* Faulty SaveUnknown: an unknown outcome is taken for a failure. *)
SaveUnknownAsFailed ==
  /\ pc = "saveUnknown"
  /\ SaveSucceeds(cur, "failed") /\ Goto("report") /\ result' = "failed"
  /\ UNCHANGED <<serverVars, historyVars>>

SaveUnknown ==
  /\ pc = "saveUnknown"
  /\ \/ SaveSucceeds(cur, "unknown") /\ Goto("report") /\ result' = "unknown"
     \/ SaveFails(cur, "unknown") /\ Return(TRUE)
  /\ UNCHANGED <<serverVars, historyVars>>

(* FinishCommand with the final result.  A failed upgrade ignores an error *)
(* of this call; an acknowledged one is activated, which starts a helper   *)
(* outside the process (module AgentLifecycle) and may fail.               *)
Report ==
  /\ pc = "report"
  /\ \/ /\ ServerFinishes(cur, result)
        /\ \/ Stored(cur) /\ Goto("clear") /\ UNCHANGED result
           \/ Kind[cur.cmd] = "direct" /\ Return(result # "ok")
           \/ Kind[cur.cmd] = "upgrade" /\ (Return(result # "ok") \/ Return(TRUE))
        /\ UNCHANGED boundVars
     \/ /\ ServerFinishes(cur, result) \/ UNCHANGED serverVars
        /\ Return(TRUE) /\ Fault
  /\ UNCHANGED <<store, historyVars>>

(* A first report returns the operation's own error after the clearing; a  *)
(* resumed one returns nil.                                                *)
Clear ==
  /\ pc = "clear"
  /\ \/ store' = {} /\ Return(~resumed /\ result # "ok") /\ UNCHANGED boundVars
     \/ store' = store /\ Return(TRUE) /\ Fault
  /\ UNCHANGED <<serverVars, historyVars>>

CallStep ==
  \/ StartCommand \/ SaveStart \/ ReportProgress \/ Execute
  \/ \E r \in Outcomes : Complete(r)
  \/ SaveResult \/ SaveUnknown \/ Report \/ Clear

(* The process ends and systemd starts it again: memory is lost.           *)
Crash ==
  /\ crashes < MaxCrashes /\ crashes' = crashes + 1 /\ UNCHANGED faults
  /\ Return(FALSE)
  /\ outcome' = IF pc = "executing"
                  THEN [outcome EXCEPT ![cur] = "interrupted"] ELSE outcome
  /\ UNCHANGED <<serverVars, store, runs, saved>>

ServerStep == \E c \in Commands : GrantLease(c) \/ Terminalize(c)

Next ==
  \/ ServerStep
  \/ \E l \in Lease : Dispatch(l)
  \/ RetryPending
  \/ CallStep
  \/ Crash

Spec == Init /\ [][Next]_vars

-----------------------------------------------------------------------------
(* What the stored commands promise (shutdown, environments, inventory,    *)
(* image).                                                                 *)

StoredLease == {l \in Lease : Stored(l)}

(* The operation of one lease of a stored command is begun at most once,   *)
(* whatever is redelivered, retried, lost or restarted: the record of      *)
(* Dispatch and the check at its head (command_dispatcher.go:173-198,      *)
(* 279-303, 482-506; docker_inventory.go:16-33).                           *)
AtMostOncePerLease == \A l \in StoredLease : runs[l] <= 1

(* Of a command the server never leases again once it is RUNNING, the same *)
(* holds over all leases ("never executes the same power command twice").  *)
AtMostOncePerCommand ==
  \A l, m \in StoredLease :
    l.cmd = m.cmd /\ l.cmd \notin Releasable /\ runs[l] > 0 /\ runs[m] > 0
      => l = m

(* What the server accepted for a stored command is what happened to the   *)
(* lease it holds: SUCCESS only of a completed operation, FAILURE only of  *)
(* a failed or refused one, and EXECUTION_OUTCOME_UNKNOWN never once the   *)
(* outcome had reached the disk (reportStored and the Result = nil         *)
(* branches, command_dispatcher.go:181-189, 584-596).                      *)
TruthfulVerdict ==
  \A l \in StoredLease :
    lease[l.cmd] = l.token =>
      /\ verdict[l.cmd] = "ok" => outcome[l] = "ok"
      /\ verdict[l.cmd] = "failed" => outcome[l] \in {"failed", "refused"}
      /\ verdict[l.cmd] = "unknown" => l \notin saved

(* While the server still waits for the result of a lease whose operation  *)
(* was begun, a call is finishing it or its record is on disk: no crash,   *)
(* lost reply or store error makes the agent forget what it has executed   *)
(* (Save before Execute, Clear only after FinishCommand).                  *)
ExecutedIsRecorded ==
  \A l \in StoredLease : runs[l] > 0 /\ Accepts(l) => Holds(l)

(* A saved outcome stays on disk, unchanged, until the server has it       *)
(* ("saved before upload and cleared only after the management server      *)
(* acknowledges it").                                                      *)
SavedSurvivesUntilAccepted ==
  \A l \in StoredLease :
    l \in saved /\ Accepts(l) =>
      \E rec \in store :
        /\ rec.lease = l
        /\ rec.result = IF outcome[l] = "refused" THEN "failed" ELSE outcome[l]

(* The abstract promise, for the stored commands only. *)
Once == INSTANCE OnceCommand WITH
  Command <- {c \in Commands : Kind[c] \in StoredKinds},
  CLease  <- StoredLease,
  outcome <- [l \in StoredLease |-> outcome[l]],
  verdict <- [c \in {d \in Commands : Kind[d] \in StoredKinds} |-> verdict[c]]

(* The dispatcher, its store and the retries implement OnceCommand: every  *)
(* step of Dispatch, RetryPending or a crash is one of its steps or none.  *)
ImplementsOnce == Once!Spec
-----------------------------------------------------------------------------
(* The inductive invariant behind these properties.                        *)

(* The server has seen the start of lease l, and will not offer l as new.  *)
Started(l) ==
  \/ lease[l.cmd] = l.token /\ server[l.cmd] \in {"running", "done"}
  \/ l.cmd \in Releasable /\ lease[l.cmd] > l.token

Justifies(o, r) ==
  /\ r = "ok"     => o = "ok"
  /\ r = "failed" => o \in {"failed", "refused"}

(* The file holds one record, of a stored command that was started, and    *)
(* its result is the outcome of the operation.                             *)
StoreInv ==
  /\ \A a, b \in store : a = b
  /\ \A rec \in store :
       /\ Stored(rec.lease)
       /\ Started(rec.lease)
       /\ Justifies(outcome[rec.lease], rec.result)
       /\ rec.result \in {"none", "unknown"} => rec.lease \notin saved

(* What a call of a stored command knows at each stage. *)
CallInv ==
  /\ pc \in {"save", "progress", "saveResult", "saveUnknown", "clear"} => Stored(cur)
  /\ pc # "idle" /\ Stored(cur) =>
       /\ pc \in {"start", "save"} => store = {}
       /\ pc \in {"progress", "execute", "executing", "saveResult", "saveUnknown"}
            => store = File(cur, "none")
       /\ pc \in {"report", "clear"} => store = File(cur, result)
       /\ pc # "start" => Started(cur)
       /\ pc \in {"save", "progress", "execute"} => outcome[cur] = "none"
       /\ pc = "saveResult" =>
            /\ result \in Outcomes /\ Justifies(outcome[cur], result)
            /\ outcome[cur] \in {"ok", "failed", "refused"}
       /\ pc \in {"save", "progress", "execute", "executing", "saveResult"} =>
            verdict[cur.cmd] \in {"none", "cancelled"} /\ cur \notin saved
       /\ pc = "report" => result \in Results
       /\ pc = "clear" => ~Accepts(cur)

(* An operation in progress is the one of the running call, and an         *)
(* operation that was begun or refused leaves a record while its lease     *)
(* could still be started.                                                 *)
ExecutionInv ==
  /\ \A l \in StoredLease :
       /\ outcome[l] = "executing" => pc = "executing" /\ cur = l
       /\ runs[l] <= 1
       /\ outcome[l] = "none" => runs[l] = 0 /\ l \notin saved
       /\ outcome[l] # "none" => Started(l)
       /\ outcome[l] # "none" /\ Startable(l) => Holds(l)
  /\ pc = "executing" => outcome[cur] = "executing"

VerdictInv ==
  /\ \A c \in Commands : server[c] # "done" => verdict[c] = "none"
  /\ TruthfulVerdict
  /\ SavedSurvivesUntilAccepted

IInv == TypeOK /\ StoreInv /\ CallInv /\ ExecutionInv /\ VerdictInv
=============================================================================
