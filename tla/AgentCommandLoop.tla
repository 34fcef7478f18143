------------------------- MODULE AgentCommandLoop -------------------------
(***************************************************************************)
(* The command goroutine of the agent (commandLoop and                     *)
(* processCommandsOnce, internal/runtime/agent.go) driving the dispatcher: *)
(* retry what is pending, refresh the grant if it is not valid, poll,      *)
(* decode the whole batch, dispatch it in order, and start over after the  *)
(* first error.                                                            *)
(***************************************************************************)
EXTENDS CommandDispatcher, Sequences

CONSTANTS
  MaxBatch,   \* bound: commands in one poll response
  Poison      \* commands whose envelope DecodeCommand rejects

ASSUME LoopAssumption == MaxBatch \in Nat \ {0} /\ Poison \subseteq Commands

VARIABLES
  loop,   \* where processCommandsOnce is
  batch   \* decoded commands not yet dispatched

loopVars == <<loop, batch>>
allVars  == <<vars, loopVars>>

LoopTypeOK ==
  /\ TypeOK
  /\ loop \in {"retry", "retrying", "grant", "poll", "batch", "dispatching"}
  /\ batch \in Seq(Lease)
  /\ pc # "idle" => loop \in {"retrying", "dispatching"}

LoopInit == Init /\ loop = "retry" /\ batch = <<>>

(* An error of any step waits about a second and starts over. *)
StartOver == loop' = "retry" /\ batch' = <<>>

(* Faulty RetryFirst: poll while the retry runs; never retry. *)
RetryBeside ==
  loop = "retry" /\ RetryPending /\ loop' = "grant" /\ UNCHANGED batch

RetryNever == loop = "retry" /\ loop' = "grant" /\ UNCHANGED <<batch, vars>>

RetryFirst ==
  /\ loop = "retry"
  /\ RetryPending
  /\ loop' = IF pc' # "idle" THEN "retrying" ELSE IF failed' THEN "retry" ELSE "grant"
  /\ UNCHANGED batch

(* Faulty RetryReturned: poll, whatever became of the report. *)
RetryThenPoll ==
  /\ loop = "retrying" /\ pc = "idle"
  /\ loop' = "grant" /\ UNCHANGED <<batch, vars>>

(* retried: no poll in this round, whatever became of the report. *)
RetryReturned ==
  /\ loop = "retrying" /\ pc = "idle"
  /\ StartOver /\ UNCHANGED vars

(* A valid grant needs nothing; otherwise a heartbeat must succeed. *)
RefreshGrant ==
  /\ loop = "grant"
  /\ \/ loop' = "poll" /\ UNCHANGED <<batch, boundVars>>
     \/ StartOver /\ Fault
  /\ UNCHANGED <<serverVars, callVars, store, historyVars>>

(* The server offers the commands it has leased, and may repeat running ones. *)
Offered(l) == server[l.cmd] \in {"leased", "running"} /\ lease[l.cmd] = l.token

Batches == UNION {[1..n -> {l \in Lease : Offered(l)}] : n \in 0..MaxBatch}

PollCommands ==
  /\ loop = "poll"
  /\ \/ /\ \E b \in Batches :
             IF \E i \in DOMAIN b : b[i].cmd \in Poison
               THEN StartOver
               ELSE loop' = "batch" /\ batch' = b
        /\ UNCHANGED boundVars
     \/ StartOver /\ Fault
  /\ UNCHANGED <<serverVars, callVars, store, historyVars>>

DispatchHead ==
  /\ loop = "batch" /\ batch # <<>>
  /\ Dispatch(Head(batch))
  /\ batch' = Tail(batch)
  /\ loop' = "dispatching"

(* Faulty DispatchReturned: go on with the batch after an error. *)
DispatchErrorIgnored ==
  /\ loop = "dispatching" /\ pc = "idle"
  /\ loop' = "batch" /\ UNCHANGED <<batch, vars>>

DispatchReturned ==
  /\ loop = "dispatching" /\ pc = "idle"
  /\ IF failed THEN StartOver ELSE loop' = "batch" /\ UNCHANGED batch
  /\ UNCHANGED vars

BatchDone ==
  /\ loop = "batch" /\ batch = <<>>
  /\ StartOver /\ UNCHANGED vars

LoopCrash == Crash /\ StartOver

(* The goroutine: one step of the loop or of the call it is in. *)
AgentStep ==
  \/ RetryFirst \/ RetryReturned \/ RefreshGrant \/ PollCommands
  \/ DispatchHead \/ DispatchReturned \/ BatchDone
  \/ CallStep /\ UNCHANGED loopVars

LoopNext ==
  \/ AgentStep
  \/ ServerStep /\ UNCHANGED loopVars
  \/ LoopCrash

LoopSpec     == LoopInit /\ [][LoopNext]_allVars

(* The goroutine never blocks for ever: every exchange has a timeout and   *)
(* every wait in commandLoop a timer.  Faults are finitely many: the       *)
(* network and the disk recover.                                           *)
FairLoopSpec == LoopSpec /\ WF_allVars(AgentStep)

---------------------------------------------------------------------------
(* Between two commands of a batch no record is pending, so the refusal    *)
(* "another command result is pending" never hits a command of the loop:   *)
(* every path that leaves a record behind returns an error, and the error  *)
(* drops the rest of the batch (agent.go:157-163, 181-186).                *)
NothingPendingInBatch == loop = "batch" => store = {}

(* When the handling of a command begins, no stored command executed       *)
(* before still waits for its result to be accepted ("Persist and          *)
(* acknowledge each result before processing the next command",            *)
(* agent.go:182).  Of "direct" commands this is not true: they keep no     *)
(* record, and one lost report loses their result.                         *)
StoredAcknowledgedBeforeNext ==
  pc = "start" =>
    \A m \in StoredLease : runs[m] > 0 /\ m.cmd # cur.cmd => ~Accepts(m)

(* The inductive invariant: past the retry the store is empty, and a call  *)
(* that returned nil left it empty.                                        *)
LoopInv ==
  /\ loop \in {"grant", "poll", "batch"} => store = {}
  /\ loop = "retrying" /\ pc # "idle" => Stored(cur)
  /\ loop = "dispatching" /\ pc = "idle" => failed \/ store = {}
  /\ loop = "dispatching" /\ pc # "idle" /\ ~Stored(cur) => store = {}

LoopIInv == IInv /\ LoopTypeOK /\ LoopInv

(* A record never blocks the agent for ever: it is reported and cleared.   *)
PendingIsCleared == store # {} ~> store = {}
============================================================================
