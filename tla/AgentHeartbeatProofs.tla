------------------------ MODULE AgentHeartbeatProofs ------------------------
(* The sequence of the heartbeats, for any bounds.                         *)
EXTENDS AgentHeartbeat, TLAPS

(* The agent starts, and starts again, with a sequence the server expects. *)
LEMMA InitSequence == Init => SequenceInv
<1> SUFFICES ASSUME Init PROVE SequenceInv
  OBVIOUS
<1>1. TypeOK
  <2>1. 1 \in 1..MaxSequence /\ 1 \in 1..Policies
    BY HeartbeatAssumption
  <2>2. /\ 0 \in 0..Policies /\ 0 \in 0..MaxSequence
        /\ 0 \in 0..MaxFaults /\ 0 \in 0..MaxCrashes
    BY HeartbeatAssumption
  <2>3. QED
    BY <2>1, <2>2 DEF Init, TypeOK
<1>2. \A p \in Callers : stage[p] = "idle"
  BY DEF Init
<1>3. nextSequence <= committed + 1
  BY DEF Init
<1>4. QED
  BY <1>1, <1>2, <1>3 DEF SequenceInv, NeverSkips, AnsweredIsCommitted

(* The backoff doubles up to thirty seconds (agent.go:92-95).              *)
LEMMA BackoffType ==
  ASSUME NEW d \in {1, 2, 4, 8, 16, 30}
  PROVE  Min2(2 * d, 30) \in {1, 2, 4, 8, 16, 30}
BY DEF Min2

(* Every step of a caller, of the server, or a restart keeps the sequence. *)
LEMMA SequenceStep ==
  ASSUME SequenceInv, [Next]_vars
  PROVE  SequenceInv'
<1>1. ASSUME NEW p \in Callers, Send(p) PROVE SequenceInv'
  <2>1. TypeOK'
    BY <1>1 DEF Send, agentVars, SequenceInv, TypeOK
  <2>3. stage'[p] = "sent" /\ sequence'[p] = nextSequence
    BY <1>1 DEF Send, SequenceInv, TypeOK
  <2>4. QED
    BY <1>1, <2>1, <2>3 DEF Send, agentVars, SequenceInv, NeverSkips,
       AnsweredIsCommitted
<1>2. ASSUME NEW p \in Callers, ServerAnswers(p) PROVE SequenceInv'
  <2>1. /\ committed' \in 0..MaxSequence
        /\ committed <= committed' /\ sequence[p] <= committed'
    <3>1. sequence[p] \in 1..MaxSequence /\ committed \in 0..MaxSequence
      BY DEF SequenceInv, TypeOK
    <3>2. committed' = Max2(committed, sequence[p])
      BY <1>2 DEF ServerAnswers
    <3>3. QED
      BY <3>1, <3>2 DEF Max2
  <2>2. TypeOK'
    BY <1>2, <2>1 DEF ServerAnswers, agentVars, SequenceInv, TypeOK
  <2>5. NeverSkips'
    BY <1>2, <2>1 DEF ServerAnswers, agentVars, SequenceInv, TypeOK,
       NeverSkips
  <2>6. AnsweredIsCommitted'
    BY <1>2, <2>1 DEF ServerAnswers, SequenceInv, TypeOK, AnsweredIsCommitted
  <2>7. QED
    BY <2>2, <2>5, <2>6 DEF SequenceInv
<1>3. ASSUME NEW p \in Callers, Succeed(p) PROVE SequenceInv'
  <2>1. nextSequence' \in 1..MaxSequence /\ nextSequence' <= committed + 1
    <3>1. sequence[p] \in 1..MaxSequence /\ committed \in 0..MaxSequence
      BY DEF SequenceInv, TypeOK
    <3>2. sequence[p] <= committed
      BY <1>3 DEF Succeed, SequenceInv, AnsweredIsCommitted
    <3>3. nextSequence' = Min2(sequence[p] + 1, MaxSequence)
      BY <1>3 DEF Succeed
    <3>4. QED
      BY <3>1, <3>2, <3>3, HeartbeatAssumption DEF Min2
  <2>2. TypeOK'
    <3>1. nextSequence' \in 1..MaxSequence /\ backoff' = 1
      BY <1>3, <2>1 DEF Succeed
    <3>2. stage' \in [Callers -> {"idle", "sent", "answered"}]
      BY <1>3 DEF Succeed, Return, SequenceInv, TypeOK
    <3>3. grant' \in 0..Policies /\ answer' \in [Callers -> 0..Policies]
      BY <1>3, HeartbeatAssumption DEF Succeed, Return, SequenceInv, TypeOK
    <3>4. UNCHANGED <<sequence, committed, policy, faults, crashes>> /\ expired' = FALSE
      BY <1>3 DEF Succeed, Return
    <3>5. QED
      BY <3>1, <3>2, <3>3, <3>4 DEF SequenceInv, TypeOK
  <2>3. /\ committed' = committed /\ sequence' = sequence
        /\ \A q \in Callers : stage'[q] \in {"idle", stage[q]}
    BY <1>3 DEF Succeed, Return
  <2>4. QED
    BY <2>1, <2>2, <2>3 DEF SequenceInv, NeverSkips, AnsweredIsCommitted
<1>4. ASSUME NEW p \in Callers, Lose(p) PROVE SequenceInv'
  <2>1. backoff' \in {1, 2, 4, 8, 16, 30}
    BY <1>4, BackoffType DEF Lose, SequenceInv, TypeOK
  <2>2. TypeOK'
    BY <1>4, <2>1, HeartbeatAssumption DEF Lose, Return, SequenceInv, TypeOK
  <2>3. /\ committed' = committed /\ sequence' = sequence
        /\ nextSequence' = nextSequence
        /\ \A q \in Callers : stage'[q] \in {"idle", stage[q]}
    BY <1>4 DEF Lose, Return
  <2>4. QED
    BY <2>2, <2>3 DEF SequenceInv, NeverSkips, AnsweredIsCommitted
<1>5. ASSUME NEW p \in Callers, Mismatch(p) PROVE SequenceInv'
  <2>1. TypeOK'
    BY <1>5, HeartbeatAssumption DEF Mismatch, Return, agentVars, SequenceInv,
       TypeOK
  <2>3. QED
    BY <1>5, <2>1 DEF Mismatch, Return, agentVars, SequenceInv, NeverSkips,
       AnsweredIsCommitted
<1>6. CASE Expire
  BY <1>6 DEF Expire, callVars, SequenceInv, TypeOK, NeverSkips,
     AnsweredIsCommitted
<1>7. CASE Decide
  BY <1>7, HeartbeatAssumption DEF Decide, agentVars, callVars, SequenceInv,
     TypeOK, NeverSkips, AnsweredIsCommitted
<1>8. CASE Restart
  <2>1. TypeOK'
    <3>1. 1 \in 1..MaxSequence /\ 0 \in 0..Policies /\ 0 \in 0..MaxSequence
      BY HeartbeatAssumption
    <3>2. crashes' \in 0..MaxCrashes
      BY <1>8, HeartbeatAssumption DEF Restart, SequenceInv, TypeOK
    <3>3. QED
      BY <1>8, <3>1, <3>2 DEF Restart, SequenceInv, TypeOK
  <2>2. /\ nextSequence' = 1 /\ committed' = 0
        /\ \A p \in Callers : stage'[p] = "idle"
    BY <1>8 DEF Restart
  <2>3. QED
    BY <2>1, <2>2 DEF SequenceInv, NeverSkips, AnsweredIsCommitted
<1>9. CASE UNCHANGED vars
  BY <1>9 DEF vars, agentVars, callVars, SequenceInv, TypeOK, NeverSkips,
     AnsweredIsCommitted
<1>10. QED
  BY <1>1, <1>2, <1>3, <1>4, <1>5, <1>6, <1>7, <1>8, <1>9 DEF Next

(* The invariant of the sequence.                                          *)
THEOREM SequenceInvariance == Spec => []SequenceInv
<1>1. Init => SequenceInv
  BY InitSequence
<1>2. SequenceInv /\ [Next]_vars => SequenceInv'
  BY SequenceStep
<1>3. QED
  BY <1>1, <1>2, PTL DEF Spec

(* The server never sees a gap in the sequence (agent.go:82-105).          *)
THEOREM NoGap == Spec => []NeverSkips
<1>1. SequenceInv => NeverSkips
  BY DEF SequenceInv
<1>2. QED
  BY <1>1, SequenceInvariance, PTL

(* The counters, the grant and the exchanges keep their types.             *)
THEOREM HeartbeatTypes == Spec => []TypeOK
<1>1. SequenceInv => TypeOK
  BY DEF SequenceInv
<1>2. QED
  BY <1>1, SequenceInvariance, PTL
=============================================================================
