--------------------------- MODULE AgentHeartbeat ---------------------------
(***************************************************************************)
(* The heartbeats of the agent (internal/runtime/agent.go) and its         *)
(* operation grant (operation_grant.go).  SendOnce has two callers that    *)
(* run concurrently: heartbeatLoop, and the command goroutine whenever it  *)
(* finds the grant no longer valid.  SendOnce locks its reading of the     *)
(* sequence and its use of the answer, but not the exchange in between.    *)
(***************************************************************************)
EXTENDS Naturals

CONSTANTS
  MaxSequence,   \* bound: sequence numbers stop growing here
  Policies,      \* bound: the server's decisions are 1..Policies
  Allowing,      \* the decisions that allow environment operations
  MaxFaults,     \* bound: lost or mismatching answers
  MaxCrashes     \* bound: restarts, each with a new boot identifier

ASSUME HeartbeatAssumption ==
  /\ MaxSequence \in Nat \ {0}
  /\ Policies \in Nat \ {0}
  /\ Allowing \subseteq 1..Policies
  /\ MaxFaults \in Nat
  /\ MaxCrashes \in Nat

Callers == {"heartbeatLoop", "commandLoop"}

VARIABLES
  nextSequence, backoff,  \* the Agent, under its mutex; backoff in seconds
  grant,                  \* decision in the grant store, 0 before the first
  expired,                \* has that grant expired?
  stage,                  \* of each caller: "idle", "sent" or "answered"
  sequence,               \* the sequence each caller sends
  answer,                 \* the decision in the answer to each caller
  (* The server. *)
  committed,              \* highest sequence it committed for this boot
  policy,                 \* its present decision
  faults,
  crashes

agentVars == <<nextSequence, backoff, grant, expired>>
callVars  == <<stage, sequence, answer>>
vars == <<agentVars, callVars, committed, policy, faults, crashes>>

TypeOK ==
  /\ nextSequence \in 1..MaxSequence
  /\ backoff   \in {1, 2, 4, 8, 16, 30}
  /\ grant     \in 0..Policies
  /\ expired   \in BOOLEAN
  /\ stage     \in [Callers -> {"idle", "sent", "answered"}]
  /\ sequence  \in [Callers -> 1..MaxSequence]
  /\ answer    \in [Callers -> 0..Policies]
  /\ committed \in 0..MaxSequence
  /\ policy    \in 1..Policies
  /\ faults    \in 0..MaxFaults
  /\ crashes   \in 0..MaxCrashes

Init ==
  /\ nextSequence = 1 /\ backoff = 1
  /\ grant = 0 /\ expired = FALSE
  /\ stage    = [p \in Callers |-> "idle"]
  /\ sequence = [p \in Callers |-> 1]
  /\ answer   = [p \in Callers |-> 0]
  /\ committed = 0 /\ policy = 1
  /\ faults = 0 /\ crashes = 0

Min2(a, b) == IF a < b THEN a ELSE b
Max2(a, b) == IF a > b THEN a ELSE b

Valid == grant \in Allowing /\ ~expired

(* Faulty Send: count when sending; send only without a valid grant. *)
SendAndCount(p) ==
  /\ stage[p] = "idle"
  /\ p = "commandLoop" => ~Valid
  /\ sequence' = [sequence EXCEPT ![p] = nextSequence]
  /\ nextSequence' = Min2(nextSequence + 1, MaxSequence)
  /\ stage' = [stage EXCEPT ![p] = "sent"]
  /\ UNCHANGED <<backoff, grant, expired, answer, committed, policy, faults, crashes>>

SendIfInvalid(p) ==
  /\ stage[p] = "idle" /\ ~Valid
  /\ sequence' = [sequence EXCEPT ![p] = nextSequence]
  /\ stage' = [stage EXCEPT ![p] = "sent"]
  /\ UNCHANGED <<agentVars, answer, committed, policy, faults, crashes>>

(* The timer of heartbeatLoop, or processCommandsOnce before a poll. *)
Send(p) ==
  /\ stage[p] = "idle"
  /\ p = "commandLoop" => ~Valid
  /\ sequence' = [sequence EXCEPT ![p] = nextSequence]
  /\ stage' = [stage EXCEPT ![p] = "sent"]
  /\ UNCHANGED <<agentVars, answer, committed, policy, faults, crashes>>

(* accepted = false of a committed sequence is an answer like any other. *)
ServerAnswers(p) ==
  /\ stage[p] = "sent"
  /\ committed' = Max2(committed, sequence[p])
  /\ answer' = [answer EXCEPT ![p] = policy]
  /\ stage' = [stage EXCEPT ![p] = "answered"]
  /\ UNCHANGED <<agentVars, sequence, policy, faults, crashes>>

Return(p) ==
  /\ stage' = [stage EXCEPT ![p] = "idle"]
  /\ answer' = [answer EXCEPT ![p] = 0]
  /\ UNCHANGED <<sequence, committed, policy, crashes>>

Succeed(p) ==
  /\ stage[p] = "answered"
  /\ grant' = answer[p] /\ expired' = FALSE
  /\ nextSequence' = Min2(sequence[p] + 1, MaxSequence)
  /\ backoff' = 1
  /\ Return(p) /\ UNCHANGED faults

(* The request or its answer is lost, or the answer is an error. *)
Lose(p) ==
  /\ stage[p] # "idle" /\ faults < MaxFaults
  /\ backoff' = Min2(2 * backoff, 30)
  /\ faults' = faults + 1
  /\ Return(p) /\ UNCHANGED <<nextSequence, grant, expired>>

(* An answer for another sequence is an error that leaves the backoff. *)
Mismatch(p) ==
  /\ stage[p] = "answered" /\ faults < MaxFaults
  /\ faults' = faults + 1
  /\ Return(p) /\ UNCHANGED agentVars

Expire ==
  /\ grant # 0 /\ ~expired /\ expired' = TRUE
  /\ UNCHANGED <<nextSequence, backoff, grant, callVars, committed, policy,
                 faults, crashes>>

Decide ==
  /\ policy < Policies /\ policy' = policy + 1
  /\ UNCHANGED <<agentVars, callVars, committed, faults, crashes>>

(* A new boot identifier, under which the server has committed nothing. *)
Restart ==
  /\ crashes < MaxCrashes /\ crashes' = crashes + 1
  /\ nextSequence' = 1 /\ backoff' = 1
  /\ grant' = 0 /\ expired' = FALSE
  /\ stage'    = [p \in Callers |-> "idle"]
  /\ sequence' = [p \in Callers |-> 1]
  /\ answer'   = [p \in Callers |-> 0]
  /\ committed' = 0
  /\ UNCHANGED <<policy, faults>>

Next ==
  \/ \E p \in Callers :
       Send(p) \/ ServerAnswers(p) \/ Succeed(p) \/ Lose(p) \/ Mismatch(p)
  \/ Expire \/ Decide \/ Restart

Spec == Init /\ [][Next]_vars

(* The timers fire and every exchange ends; losses are finitely many. *)
FairSpec ==
  /\ Spec
  /\ WF_vars(Send("heartbeatLoop"))
  /\ \A p \in Callers : WF_vars(ServerAnswers(p)) /\ WF_vars(Succeed(p))

-----------------------------------------------------------------------------
(* The server never sees a gap: whichever caller's answer comes last, and  *)
(* even when it puts the counter back, the next sequence to be sent is one *)
(* the server has committed or the one after (agent.go:82-105).            *)
NeverSkips ==
  /\ nextSequence <= committed + 1
  /\ \A p \in Callers : stage[p] # "idle" => sequence[p] <= committed + 1

(* What makes this inductive: an answer is of a committed sequence.        *)
AnsweredIsCommitted ==
  \A p \in Callers : stage[p] = "answered" => sequence[p] <= committed

SequenceInv == TypeOK /\ NeverSkips /\ AnsweredIsCommitted

(* A late answer may restore a grant that a newer one had withdrawn, but   *)
(* not for good: the store ends up with the decision in force, through     *)
(* losses, restarts and overlapping exchanges.                             *)
GrantConverges == <>[](grant = policy)
=============================================================================
