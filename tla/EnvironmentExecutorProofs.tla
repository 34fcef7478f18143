---------------------- MODULE EnvironmentExecutorProofs ----------------------
(* Proofs about EnvironmentExecutor, for any number of components, failing  *)
(* calls, acts of others and cancellations.                                *)
EXTENDS EnvironmentExecutor, FiniteSetTheorems, TLAPS

(* The last loop of an operation, and the last step of a body. *)
LastLoop(o) ==
  IF o = "create" THEN 2 ELSE IF o = "start" THEN 4
  ELSE IF o = "stop" THEN 3 ELSE IF o = "restore" THEN 5 ELSE 1

LastStep(o, l) ==
  IF o = "delete" THEN 3 ELSE IF o = "restore" /\ l = 3 THEN 2 ELSE 1

(* The table of loops, as numbers. *)
LEMMA LoopCount == \A o \in AllOps : Len(Loops[o]) = LastLoop(o)
<1> SUFFICES ASSUME NEW o \in AllOps PROVE Len(Loops[o]) = LastLoop(o)
  OBVIOUS
<1> USE DEF Loops, LastLoop
<1>1. CASE o = "create"
  BY <1>1
<1>2. CASE o = "start"
  BY <1>2
<1>3. CASE o = "stop"
  BY <1>3
<1>4. CASE o = "restore"
  BY <1>4
<1>5. CASE o = "delete"
  BY <1>5
<1>6. QED
  BY <1>1, <1>2, <1>3, <1>4, <1>5 DEF AllOps

LEMMA BodyLength ==
  \A o \in AllOps : \A l \in 1..LastLoop(o) : Len(Loops[o][l]) = LastStep(o, l)
<1> SUFFICES ASSUME NEW o \in AllOps, NEW l \in 1..LastLoop(o)
             PROVE  Len(Loops[o][l]) = LastStep(o, l)
  OBVIOUS
<1> USE DEF Loops, LastLoop, LastStep
<1>1. CASE o = "create"
  BY <1>1
<1>2. CASE o = "start"
  BY <1>2
<1>3. CASE o = "stop"
  BY <1>3
<1>4. CASE o = "restore"
  <2>1. l \in {1, 2, 3, 4, 5}
    BY <1>4
  <2>2. CASE l = 3
    BY <1>4, <2>2
  <2>3. CASE l # 3
    BY <1>4, <2>1, <2>3
  <2>4. QED
    BY <2>2, <2>3
<1>5. CASE o = "delete"
  BY <1>5
<1>6. QED
  BY <1>1, <1>2, <1>3, <1>4, <1>5 DEF AllOps

(* What is done at which position. *)
Table ==
  /\ Step = "inspect" => at.loop = IF op = "restore" THEN 4 ELSE 1
  /\ Step = "inspect" => op # "delete"
  /\ Step = "owned" => op \in {"restore", "delete"} /\ at.step = 1 /\ at.loop \in {1, 3}
  /\ Step = "create" => op \in {"create", "restore"} /\ at.loop = LastLoop(op)
  /\ Step = "start" => op = "start" /\ at.loop = 2
  /\ Step = "stop" => IF op = "delete" THEN at.step = 2
                      ELSE op \in {"stop", "restore"} /\ at.loop = 2
  /\ Step = "remove" => op \in {"restore", "delete"} /\ at.step = LastStep(op, at.loop)
                        /\ (op = "restore" => at.loop = 3)
  /\ Step = "final" => op = "stop" /\ at.loop = 3
  /\ Step = "conda" => op = "start" /\ at.loop = 3
  /\ Step = "ready" => op = "start" /\ at.loop = 4
  /\ at.loop = 1 /\ at.step = 1 => Step \in {"inspect", "owned"}
  /\ op = "create" /\ at.loop = 2 => Step = "create"
  /\ op = "start" => /\ at.loop = 2 => Step = "start"
                     /\ at.loop = 3 => Step = "conda"
                     /\ at.loop = 4 => Step = "ready"
  /\ op = "stop" => /\ at.loop = 2 => Step = "stop"
                    /\ at.loop = 3 => Step = "final"
  /\ op = "restore" => /\ at.loop = 2 => Step = "stop"
                       /\ at.loop = 3 => Step = IF at.step = 1 THEN "owned" ELSE "remove"
                       /\ at.loop = 4 => Step = "inspect"
                       /\ at.loop = 5 => Step = "create"
  /\ op = "delete" => /\ at.step = 2 => Step = "stop"
                      /\ at.step = 3 => Step = "remove"

Position ==
  /\ op \in AllOps
  /\ at \in [loop : Nat, comp : Components, step : Nat]
  /\ at.loop \in 1..LastLoop(op) /\ at.step \in 1..LastStep(op, at.loop)

LEMMA TypePosition == TypeOK => Position /\ Len(Body) = LastStep(op, at.loop)
<1> SUFFICES ASSUME TypeOK PROVE Position /\ Len(Body) = LastStep(op, at.loop)
  OBVIOUS
<1>1. op \in AllOps /\ at.loop \in 1..LastLoop(op)
  BY LoopCount DEF TypeOK
<1>2. Len(Body) = LastStep(op, at.loop)
  BY <1>1, BodyLength DEF Body
<1>3. QED
  BY <1>1, <1>2 DEF TypeOK, Position, Body

LEMMA TableHolds == Position => Table
<1> SUFFICES ASSUME Position PROVE Table
  OBVIOUS
<1> USE DEF Position, Table, Step, Body, Loops, LastLoop, LastStep
<1>1. CASE op = "create"
  BY <1>1
<1>2. CASE op = "start"
  BY <1>2
<1>3. CASE op = "stop"
  BY <1>3
<1>4. CASE op = "restore"
  <2>1. at.loop \in {1, 2, 3, 4, 5}
    BY <1>4
  <2>2. CASE at.loop = 3
    BY <1>4, <2>2
  <2>3. CASE at.loop # 3
    BY <1>4, <2>1, <2>3
  <2>4. QED
    BY <2>2, <2>3
<1>5. CASE op = "delete"
  BY <1>5
<1>6. QED
  BY <1>1, <1>2, <1>3, <1>4, <1>5 DEF AllOps

(* The next position. *)
LEMMA Moves ==
  ASSUME TypeOK, Advance
  PROVE  \/ /\ at.step < LastStep(op, at.loop) /\ UNCHANGED phase
            /\ at' = [loop |-> at.loop, comp |-> at.comp, step |-> at.step + 1]
         \/ /\ at.step = LastStep(op, at.loop) /\ at.comp < N /\ UNCHANGED phase
            /\ at' = [loop |-> at.loop, comp |-> at.comp + 1, step |-> 1]
         \/ /\ at.step = LastStep(op, at.loop) /\ at.comp = N /\ at.loop < LastLoop(op) /\ UNCHANGED phase
            /\ at' = [loop |-> at.loop + 1, comp |-> 1, step |-> 1]
         \/ /\ at.step = LastStep(op, at.loop) /\ at.comp = N /\ at.loop = LastLoop(op)
            /\ phase' = "ok" /\ at' = at
<1>1. Position /\ Len(Body) = LastStep(op, at.loop) /\ Len(Loops[op]) = LastLoop(op)
  BY TypePosition, LoopCount DEF TypeOK
<1>2. at \in [loop : Nat, comp : Components, step : Nat]
  BY <1>1 DEF Position
<1>3. ~LastComponent => at.comp < N
  BY <1>2, ExecutorAssumption DEF LastComponent, Components
<1>4. ~(at.loop < LastLoop(op)) => at.loop = LastLoop(op)
  BY <1>1 DEF Position, LastLoop
<1>5. QED
  BY <1>1, <1>2, <1>3, <1>4 DEF Advance, LastComponent, Start

(* The next position is one of the table. *)
LEMMA MovesInTable ==
  ASSUME TypeOK, Advance, UNCHANGED op
  PROVE  /\ at' \in [loop : Nat, comp : Components, step : Nat]
         /\ at'.loop \in 1..Len(Loops[op]) /\ at'.step \in 1..Len(Loops[op][at'.loop])
         /\ phase' \in {phase, "ok"}
<1> USE DEF Position, Components
<1>1. Position
  BY TypePosition
<1>2. LastLoop(op) \in Nat /\ \A l \in 1..LastLoop(op) : LastStep(op, l) \in Nat \ {0}
  BY DEF LastLoop, LastStep
<1>3. at' \in [loop : Nat, comp : Components, step : Nat] /\ at'.loop \in 1..LastLoop(op)
  BY <1>1, <1>2, Moves, ExecutorAssumption
<1>4. at'.step \in 1..LastStep(op, at'.loop)
  BY <1>1, <1>2, <1>3, Moves
<1>5. phase' \in {phase, "ok"}
  BY Moves
<1>6. QED
  BY <1>1, <1>3, <1>4, <1>5, LoopCount, BodyLength

-----------------------------------------------------------------------------
(* Types. *)

LEMMA AfterType ==
  ASSUME NEW s \in Containers, NEW call, Accepts(call, s)
  PROVE  After(call, s) \in Containers
  BY DEF Accepts, After, Containers, Missing

LEMMA FaultType ==
  ASSUME TypeOK, Fault \/ UNCHANGED bounds
  PROVE  faults' \in 0..MaxFaults /\ acts' \in 0..MaxForeign /\ stops' \in 0..MaxStops
  BY ExecutorAssumption DEF TypeOK, Fault, bounds

(* A call of Docker and its failure change one component. *)
LEMMA CallEffect ==
  ASSUME TypeOK, NEW call, NEW c \in Components, Does(call, c) \/ Errs(call, c)
  PROVE  /\ container' \in [Components -> Containers]
         /\ blamed' \subseteq Components /\ blamed \subseteq blamed'
         /\ Fault \/ UNCHANGED bounds
         /\ \A d \in Components : d # c => container'[d] = container[d]
         /\ \/ container'[c] = container[c]
            \/ container'[c] = After(call, container[c])
         /\ container'[c] # container[c] => Accepts(call, container[c])
         /\ c \notin blamed' => container'[c] = After(call, container[c])
                                /\ Accepts(call, container[c])
         /\ \A d \in Components : d # c /\ d \notin blamed => d \notin blamed'
<1>1. container \in [Components -> Containers] /\ blamed \subseteq Components
  BY DEF TypeOK
<1>2. Accepts(call, container[c]) => After(call, container[c]) \in Containers
  BY <1>1, AfterType
<1>3. /\ Fault \/ UNCHANGED bounds
      /\ \/ Does(call, c) /\ UNCHANGED blamed
         \/ blamed' = blamed \cup {c}
      /\ \/ UNCHANGED container
         \/ /\ Accepts(call, container[c])
            /\ container' = [container EXCEPT ![c] = After(call, container[c])]
  BY DEF Does, Errs
<1>4. Does(call, c) => /\ Accepts(call, container[c])
                       /\ container' = [container EXCEPT ![c] = After(call, container[c])]
  BY DEF Does
<1>5. QED
  BY <1>1, <1>2, <1>3, <1>4

(* The rest of a step that the operation does or fails in. *)
LEMMA ControlType ==
  ASSUME TypeOK, Advance \/ Fail, UNCHANGED op
  PROVE  /\ at' \in [loop : Nat, comp : Components, step : Nat]
         /\ at'.loop \in 1..Len(Loops[op']) /\ at'.step \in 1..Len(Loops[op'][at'.loop])
         /\ phase' \in {phase, "ok", "failed", "undoing"}
<1>1. CASE Advance
  BY <1>1, MovesInTable
<1>2. CASE Fail
  BY <1>2 DEF Fail, TypeOK
<1>3. QED
  BY <1>1, <1>2

(* Every step of a running operation, seen from one component. *)
LEMMA RunEffect ==
  ASSUME TypeOK, phase = "running", NEW c \in Components, c = at.comp,
         Inspect(c) \/ Skip(c) \/ Call(c) \/ Prepare(c) \/ CannotPrepare(c)
  PROVE  /\ Advance \/ Fail
         /\ Fault \/ UNCHANGED bounds
         /\ container' \in [Components -> Containers]
         /\ seen' \in [Components -> {"unseen", "missing", "stopped", "running"}]
         /\ changed' \subseteq Components /\ changed \subseteq changed'
         /\ blamed' \subseteq Components
<1>1. CASE Inspect(c)
  BY <1>1 DEF Inspect, Fails, TypeOK, StateOf
<1>2. CASE Skip(c)
  BY <1>2 DEF Skip, TypeOK
<1>3. CASE Call(c)
  <2>1. CASE Does(Step, c) \/ Errs(Step, c)
    BY <1>3, <2>1, CallEffect DEF Call, TypeOK
  <2>2. CASE Fault /\ UNCHANGED <<container, blamed>>
    BY <1>3, <2>2 DEF Call, TypeOK
  <2>3. QED
    BY <1>3, <2>1, <2>2 DEF Call
<1>4. CASE Prepare(c)
  BY <1>4 DEF Prepare, Fails, TypeOK
<1>5. CASE CannotPrepare(c)
  BY <1>5 DEF CannotPrepare, TypeOK
<1>6. QED
  BY <1>1, <1>2, <1>3, <1>4, <1>5

(* Every step keeps the types. *)
LEMMA TypeStep == TypeOK /\ [Next]_vars => TypeOK'
<1> SUFFICES ASSUME TypeOK, [Next]_vars PROVE TypeOK'
  OBVIOUS
<1>1. ASSUME phase = "running", NEW c \in Components, c = at.comp,
             Inspect(c) \/ Skip(c) \/ Call(c) \/ Prepare(c) \/ CannotPrepare(c),
             UNCHANGED <<op, live, before, swapped>>
      PROVE  TypeOK'
  BY <1>1, RunEffect, ControlType, FaultType DEF TypeOK
<1>2. ASSUME NEW c \in Components, Undo(c), UNCHANGED <<op, live, before, swapped>>
      PROVE  TypeOK'
  <2>1. Does(Compensation, c) \/ Errs(Compensation, c)
    BY <1>2 DEF Undo
  <2>2. QED
    BY <1>2, <2>1, CallEffect, FaultType DEF Undo, TypeOK
<1>3. ASSUME NEW o \in Ops, Begin(o) PROVE TypeOK'
  <2>1. o \in AllOps
    BY ExecutorAssumption
  <2>2. at' \in [loop : Nat, comp : Components, step : Nat]
        /\ at'.loop = 1 /\ at'.step = 1
    BY <1>3, ExecutorAssumption DEF Begin, Start, Components
  <2>3. 1 \in 1..Len(Loops[o]) /\ 1 \in 1..Len(Loops[o][1])
    <3>1. 1 \in 1..LastLoop(o) /\ 1 \in 1..LastStep(o, 1)
      BY DEF LastLoop, LastStep
    <3>2. QED
      BY <2>1, <3>1, LoopCount, BodyLength
  <2>4. QED
    BY <1>3, <2>1, <2>2, <2>3 DEF Begin, TypeOK, bounds
<1>4. ASSUME NEW c \in Components, Interfere(c) PROVE TypeOK'
  <2>1. acts' \in 0..MaxForeign
    BY <1>4, ExecutorAssumption DEF Interfere, Act, TypeOK
  <2>2. container' \in [Components -> Containers]
    BY <1>4 DEF Interfere, TypeOK
  <2>3. QED
    BY <1>4, <2>1, <2>2 DEF Interfere, Act, TypeOK
<1>5. CASE Reconfigure
  <2>1. acts' \in 0..MaxForeign
    BY <1>5, ExecutorAssumption DEF Reconfigure, Act, TypeOK
  <2>2. container' \in [Components -> Containers]
    BY <1>5 DEF Reconfigure, TypeOK, Containers, Missing
  <2>3. QED
    BY <1>5, <2>1, <2>2 DEF Reconfigure, Act, TypeOK
<1>6. CASE Cancel \/ Crash
  <2>1. stops' \in 0..MaxStops
    BY <1>6, ExecutorAssumption DEF Cancel, Crash, StopRequest, TypeOK
  <2>2. QED
    BY <1>6, <2>1 DEF Cancel, Crash, StopRequest, TypeOK, history
<1>7. CASE UNCHANGED vars
  BY <1>7 DEF vars, history, bounds, TypeOK
<1>8. QED
  BY <1>1, <1>2, <1>3, <1>4, <1>5, <1>6, <1>7 DEF Next, Execute, TypeOK

-----------------------------------------------------------------------------
(* One step of a running operation: what it does to the component at hand. *)

Running(c) ==
  /\ phase = "running" /\ c \in Components /\ c = at.comp
  /\ Inspect(c) \/ Skip(c) \/ Call(c) \/ Prepare(c) \/ CannotPrepare(c)
  /\ UNCHANGED <<op, live, before, swapped>>

Inspected(c) ==
  /\ Step \in {"inspect", "owned", "final"} /\ Ours(container[c])
  /\ seen' = [seen EXCEPT ![c] = StateOf(container[c])]
  /\ UNCHANGED <<container, changed, blamed>>

Skipped(c) ==
  /\ Step \in {"create", "start", "stop", "remove"} /\ ~Needed(c)
  /\ UNCHANGED <<container, seen, changed, blamed>>

Called(c) ==
  /\ Needed(c) /\ Accepts(Step, container[c])
  /\ container' = [container EXCEPT ![c] = After(Step, container[c])]
  /\ changed' = IF Undoable THEN changed \cup {c} ELSE changed
  /\ UNCHANGED <<seen, blamed>>

Prepared(c) ==
  Step \in {"conda", "ready"} /\ UNCHANGED <<container, seen, changed, blamed>>

(* A step of a running operation goes on or fails. *)
LEMMA RunCases ==
  ASSUME TypeOK, NEW c, Running(c)
  PROVE  \/ Advance /\ (Inspected(c) \/ Skipped(c) \/ Called(c) \/ Prepared(c))
         \/ /\ Fail /\ UNCHANGED changed
            /\ \/ UNCHANGED seen
               \/ /\ UNCHANGED <<container, blamed>>
                  /\ op = "start" /\ Step = "inspect" /\ Ours(container[c])
                  /\ seen' = [seen EXCEPT ![c] = StateOf(container[c])]
            /\ \/ UNCHANGED <<container, blamed>>
               \/ Needed(c) /\ Errs(Step, c)
<1>1. CASE Inspect(c)
  <2>1. CASE /\ live /\ Ours(container[c])
             /\ seen' = [seen EXCEPT ![c] = StateOf(container[c])]
             /\ IF op = "start" /\ container[c].owner = "none" THEN Fail ELSE Advance
    <3>1. op = "start" => Step = "inspect"
      BY <1>1, TypePosition, TableHolds DEF Table, Inspect
    <3>2. QED
      BY <1>1, <2>1, <3>1 DEF Inspect, Inspected
  <2>2. CASE Fail /\ UNCHANGED seen
    BY <1>1, <2>2 DEF Inspect
  <2>3. QED
    BY <1>1, <2>1, <2>2 DEF Inspect
<1>2. CASE Skip(c)
  BY <1>2 DEF Skip, Skipped
<1>3. CASE Call(c)
  BY <1>3 DEF Call, Called, Does
<1>4. CASE Prepare(c)
  BY <1>4 DEF Prepare, Prepared
<1>5. CASE CannotPrepare(c)
  BY <1>5 DEF CannotPrepare
<1>6. QED
  BY <1>1, <1>2, <1>3, <1>4, <1>5 DEF Running

(* Loop k is through with component d, at the latest after this step. *)
Through(d, k) ==
  Passed(d, k) \/ (d = at.comp /\ at.loop = k /\ at.step = LastStep(op, k))

LEMMA PassedMoves ==
  ASSUME TypeOK, Advance, phase = "running", phase' = "running"
  PROVE  /\ \A d \in Components, k \in Nat : Passed(d, k)' => Through(d, k)
         /\ \A d \in Components, k \in Nat : Passed(d, k) => Passed(d, k)'
         /\ at'.loop >= at.loop
         /\ at'.step > 1 => at'.comp = at.comp /\ at'.loop = at.loop
                            /\ at.step < LastStep(op, at.loop)
<1>1. at.loop \in Nat /\ at.comp \in 1..N /\ at.step \in Nat
  BY DEF TypeOK, Components
<1>2. N \in Nat
  BY ExecutorAssumption
<1>3. PICK l \in Nat, m \in 1..N, i \in Nat :
        /\ at' = [loop |-> l, comp |-> m, step |-> i]
        /\ \/ i = at.step + 1 /\ l = at.loop /\ m = at.comp
              /\ at.step < LastStep(op, at.loop)
           \/ i = 1 /\ l = at.loop /\ m = at.comp + 1
              /\ at.step = LastStep(op, at.loop)
           \/ i = 1 /\ l = at.loop + 1 /\ m = 1 /\ at.comp = N
              /\ at.step = LastStep(op, at.loop)
  <2>1. at.comp < N => at.comp + 1 \in 1..N
    BY <1>1, <1>2
  <2>2. 1 \in 1..N
    BY ExecutorAssumption
  <2>3. QED
    BY <1>1, <2>1, <2>2, Moves
<1>4. at'.loop = l /\ at'.comp = m /\ at'.step = i
  BY <1>3
<1>5. \A d \in Components, k \in Nat : Passed(d, k)' => Through(d, k)
  BY <1>1, <1>2, <1>3, <1>4 DEF Passed, Through, Components
<1>6. \A d \in Components, k \in Nat : Passed(d, k) => Passed(d, k)'
  BY <1>1, <1>2, <1>3, <1>4 DEF Passed, Components
<1>7. QED
  BY <1>1, <1>3, <1>4, <1>5, <1>6

(* At the end, every component is through with the last loop. *)
LEMMA EndMoves ==
  ASSUME TypeOK, Advance, phase = "running", phase' = "ok"
  PROVE  \A d \in Components : Through(d, LastLoop(op))
<1>1. at.loop = LastLoop(op) /\ at.comp = N /\ at.step = LastStep(op, at.loop)
  BY Moves
<1>2. QED
  BY <1>1, ExecutorAssumption DEF Through, Passed, Components

-----------------------------------------------------------------------------
(* What a step that goes on achieves for the component at hand. *)

(* ProgressInv and SuccessIsTruthful after the step, at the old position. *)
Reaches(d) ==
  /\ op = "create" /\ Through(d, 2) => StateOf(container'[d]) = "stopped" \/ before[d].up
  /\ op = "start" /\ Through(d, 2) => container'[d].up
  /\ op = "stop" /\ Through(d, 2) => ~container'[d].up
  /\ op = "stop" /\ Through(d, 3) => seen'[d] = StateOf(container'[d])
  /\ op = "delete" /\ Through(d, 1) => container'[d] = Missing
  /\ op = "restore" /\ Through(d, 3) /\ ~Through(d, 5) => container'[d] = Missing
  /\ op = "restore" /\ Through(d, 4) => seen'[d] = "missing"
  /\ op = "restore" /\ Through(d, 5) => container'[d] = After("create", Missing)
  /\ at.step < LastStep(op, at.loop) /\ d = at.comp /\ seen'[d] = "missing" =>
       container'[d] = Missing

LEMMA StateFacts ==
  ASSUME NEW s \in Containers
  PROVE  /\ StateOf(s) \in {"missing", "stopped", "running"}
         /\ StateOf(s) = "running" <=> s.up
         /\ StateOf(s) = "missing" <=> s = Missing
         /\ StateOf(s) = "missing" <=> s.owner = "none"
  BY DEF StateOf, Containers, Missing

LEMMA OtherReaches ==
  ASSUME IInv, NEW c, Running(c), Inspected(c) \/ Skipped(c) \/ Called(c) \/ Prepared(c),
         NEW d \in Components \ swapped, d # c
  PROVE  Reaches(d)
<1>1. container'[d] = container[d] /\ seen'[d] = seen[d]
  BY DEF Inspected, Skipped, Called, Prepared, IInv, TypeOK
<1>2. \A k \in Nat : Through(d, k) => Passed(d, k)
  BY DEF Through, Running
<1>3. \A k \in Nat : Passed(d, k) => Through(d, k)
  BY DEF Through
<1>4. QED
  BY <1>1, <1>2, <1>3 DEF IInv, ProgressInv, Reaches, Running

(* What is known of the component at hand before the step. *)
LEMMA AtHand ==
  ASSUME IInv, NEW c, Running(c)
  PROVE  /\ Position /\ Table
         /\ c \in Components /\ c = at.comp
         /\ container[c] \in Containers /\ before[c] \in Containers
         /\ container' = container \/ container' = [container EXCEPT ![c] = container'[c]]
            => \A d \in Components : d # c => container'[d] = container[d]
         /\ at.loop > 1 \/ at.step > 1 => seen[c] # "unseen"
         /\ \A k \in Nat : Passed(c, k) <=> at.loop > k
         /\ \A k \in Nat : Through(c, k) <=>
              at.loop > k \/ (at.loop = k /\ at.step = LastStep(op, k))
<1>1. Position /\ Table
  BY TypePosition, TableHolds DEF IInv
<1>2. c \in Components /\ c = at.comp
  BY DEF Running
<1>3. container[c] \in Containers /\ before[c] \in Containers
  BY <1>2 DEF IInv, TypeOK
<1>4. c \in Nat
  BY <1>2, ExecutorAssumption DEF Components
<1>5. \A k \in Nat : Passed(c, k) <=> at.loop > k
  BY <1>2, <1>4 DEF Passed
<1>6. at.loop > 1 \/ at.step > 1 => seen[c] # "unseen"
  BY <1>2, <1>5 DEF Running, IInv, SeenInv
<1>7. QED
  BY <1>1, <1>2, <1>3, <1>5, <1>6 DEF Through, IInv, TypeOK

(* Create, start and stop know of a component that nobody touched how it was. *)
LEMMA KnownBefore ==
  ASSUME IInv, NEW c, Running(c), c \notin swapped, op \in {"create", "start", "stop"}
  PROVE  /\ c \notin changed => container[c] = before[c]
         /\ c \in changed => container[c] = After(op, before[c])
         /\ seen[c] # "unseen" /\ (op = "stop" => at.loop < 3) =>
              seen[c] = StateOf(before[c])
         /\ at.loop = 1 => changed = {}
  BY DEF IInv, UndoInv, SeenInv, Busy, Running

LEMMA CreateReaches ==
  ASSUME IInv, NEW c, Running(c), c \notin swapped, op = "create",
         Inspected(c) \/ Skipped(c) \/ Called(c) \/ Prepared(c)
  PROVE  Reaches(c)
<1>1. CASE at.loop = 1
  BY <1>1, AtHand DEF Reaches, LastStep, Position
<1>2. CASE at.loop = 2
  <2>1. Step = "create" /\ seen[c] # "unseen"
    BY <1>2, AtHand DEF Table
  <2>2. CASE Skipped(c)
    BY <1>2, <2>1, <2>2, AtHand, KnownBefore, StateFacts
       DEF Skipped, Needed, Reaches, LastStep, Position, After, StateOf
  <2>3. CASE Called(c)
    <3>1. container'[c] = After("create", container[c])
      BY <2>1, <2>3, AtHand DEF Called, IInv, TypeOK
    <3>2. StateOf(container'[c]) = "stopped"
      BY <3>1 DEF After, StateOf
    <3>3. QED
      BY <1>2, <3>2, AtHand DEF Reaches, LastStep, Position
  <2>4. QED
    BY <2>1, <2>2, <2>3 DEF Inspected, Prepared
<1>3. QED
  BY <1>1, <1>2, AtHand DEF Position, LastLoop

LEMMA StartReaches ==
  ASSUME IInv, NEW c, Running(c), c \notin swapped, op = "start",
         Inspected(c) \/ Skipped(c) \/ Called(c) \/ Prepared(c)
  PROVE  Reaches(c)
<1>1. CASE at.loop = 1
  BY <1>1, AtHand DEF Reaches, LastStep, Position
<1>2. CASE at.loop = 2
  <2>1. Step = "start" /\ seen[c] # "unseen"
    BY <1>2, AtHand DEF Table
  <2>2. CASE Skipped(c)
    <3>1. StateOf(before[c]) = "running"
      BY <1>2, <2>1, <2>2, AtHand, KnownBefore DEF Skipped, Needed
    <3>2. before[c].up /\ After("start", before[c]).up
      BY <3>1, AtHand, StateFacts DEF After
    <3>3. container[c].up
      BY <3>2, KnownBefore
    <3>4. QED
      BY <1>2, <2>2, <3>3, AtHand DEF Skipped, Reaches, LastStep, Position
  <2>3. CASE Called(c)
    <3>1. container'[c] = After("start", container[c])
      BY <2>1, <2>3, AtHand DEF Called, IInv, TypeOK
    <3>2. container'[c].up
      BY <3>1 DEF After
    <3>3. QED
      BY <1>2, <3>2, AtHand DEF Reaches, LastStep, Position
  <2>4. QED
    BY <2>1, <2>2, <2>3 DEF Inspected, Prepared
<1>3. CASE at.loop \in {3, 4}
  <2>1. Step \in {"conda", "ready"}
    BY <1>3, AtHand DEF Table
  <2>2. UNCHANGED <<container, seen>>
    BY <2>1 DEF Inspected, Skipped, Called, Needed, Prepared
  <2>3. Passed(c, 2)
    BY <1>3, AtHand
  <2>4. QED
    BY <1>3, <2>2, <2>3, AtHand DEF Reaches, LastStep, Position, IInv, ProgressInv, Running
<1>4. QED
  BY <1>1, <1>2, <1>3, AtHand DEF Position, LastLoop

LEMMA StopReaches ==
  ASSUME IInv, NEW c, Running(c), c \notin swapped, op = "stop",
         Inspected(c) \/ Skipped(c) \/ Called(c) \/ Prepared(c)
  PROVE  Reaches(c)
<1>1. CASE at.loop = 1
  BY <1>1, AtHand DEF Reaches, LastStep, Position
<1>2. CASE at.loop = 2
  <2>1. Step = "stop" /\ seen[c] # "unseen"
    BY <1>2, AtHand DEF Table
  <2>2. CASE Skipped(c)
    <3>1. StateOf(before[c]) # "running"
      BY <1>2, <2>1, <2>2, AtHand, KnownBefore DEF Skipped, Needed
    <3>2. ~before[c].up /\ ~After("stop", before[c]).up
      BY <3>1, AtHand, StateFacts DEF After
    <3>3. ~container[c].up
      BY <3>2, KnownBefore
    <3>4. QED
      BY <1>2, <2>2, <3>3, AtHand DEF Skipped, Reaches, LastStep, Position
  <2>3. CASE Called(c)
    <3>1. container'[c] = After("stop", container[c])
      BY <2>1, <2>3, AtHand DEF Called, IInv, TypeOK
    <3>2. ~container'[c].up
      BY <3>1 DEF After
    <3>3. QED
      BY <1>2, <3>2, AtHand DEF Reaches, LastStep, Position
  <2>4. QED
    BY <2>1, <2>2, <2>3 DEF Inspected, Prepared
<1>3. CASE at.loop = 3
  <2>1. Step = "final"
    BY <1>3, AtHand DEF Table
  <2>2. Inspected(c)
    BY <2>1 DEF Skipped, Called, Needed, Prepared
  <2>3. ~container[c].up
    BY <1>3, AtHand DEF IInv, ProgressInv, Running
  <2>4. container' = container /\ seen'[c] = StateOf(container[c])
    BY <2>2, AtHand DEF Inspected, IInv, TypeOK
  <2>5. QED
    BY <1>3, <2>3, <2>4, AtHand DEF Reaches, LastStep, Position
<1>4. QED
  BY <1>1, <1>2, <1>3, AtHand DEF Position, LastLoop

LEMMA DeleteReaches ==
  ASSUME IInv, NEW c, Running(c), c \notin swapped, op = "delete",
         Inspected(c) \/ Skipped(c) \/ Called(c) \/ Prepared(c)
  PROVE  Reaches(c)
<1>0. at.loop = 1 /\ at.step \in {1, 2, 3}
  BY AtHand DEF Position, LastLoop, LastStep
<1>1. CASE at.step = 1
  <2>1. Inspected(c)
    BY <1>0, <1>1, AtHand DEF Table, Skipped, Called, Needed, Prepared
  <2>2. container' = container /\ seen'[c] = StateOf(container[c])
    BY <2>1, AtHand DEF Inspected, IInv, TypeOK
  <2>3. QED
    BY <1>0, <1>1, <2>2, AtHand, StateFacts DEF Reaches, LastStep, Position
<1>2. CASE at.step = 2
  <2>1. Step = "stop"
    BY <1>0, <1>2, AtHand DEF Table
  <2>2. UNCHANGED seen /\ (UNCHANGED container \/ seen[c] = "running")
    BY <2>1 DEF Inspected, Skipped, Called, Needed, Prepared
  <2>3. QED
    BY <1>0, <1>2, <2>2, AtHand DEF Reaches, LastStep, Position, IInv, ProgressInv, Running
<1>3. CASE at.step = 3
  <2>1. Step = "remove"
    BY <1>0, <1>3, AtHand DEF Table
  <2>2. container'[c] = Missing
    <3>1. CASE Skipped(c)
      BY <1>3, <2>1, <3>1, AtHand DEF Skipped, Needed, IInv, ProgressInv, Running
    <3>2. CASE Called(c)
      BY <2>1, <3>2, AtHand DEF Called, After, IInv, TypeOK
    <3>3. QED
      BY <2>1, <3>1, <3>2 DEF Inspected, Prepared
  <2>3. QED
    BY <1>0, <1>3, <2>2, AtHand DEF Reaches, LastStep, Position
<1>4. QED
  BY <1>0, <1>1, <1>2, <1>3

LEMMA RestoreReaches ==
  ASSUME IInv, NEW c, Running(c), c \notin swapped, op = "restore",
         Inspected(c) \/ Skipped(c) \/ Called(c) \/ Prepared(c)
  PROVE  Reaches(c)
<1>1. CASE at.loop \in {1, 2}
  BY <1>1, AtHand DEF Reaches, LastStep, Position
<1>2. CASE at.loop = 3 /\ at.step = 1
  <2>1. Inspected(c)
    BY <1>2, AtHand DEF Table, Skipped, Called, Needed, Prepared
  <2>2. container' = container /\ seen'[c] = StateOf(container[c])
    BY <2>1, AtHand DEF Inspected, IInv, TypeOK
  <2>3. QED
    BY <1>2, <2>2, AtHand, StateFacts DEF Reaches, LastStep, Position
<1>3. CASE at.loop = 3 /\ at.step = 2
  <2>1. Step = "remove"
    BY <1>3, AtHand DEF Table
  <2>2. container'[c] = Missing
    <3>1. CASE Skipped(c)
      BY <1>3, <2>1, <3>1, AtHand DEF Skipped, Needed, IInv, ProgressInv, Running
    <3>2. CASE Called(c)
      BY <2>1, <3>2, AtHand DEF Called, After, IInv, TypeOK
    <3>3. QED
      BY <2>1, <3>1, <3>2 DEF Inspected, Prepared
  <2>3. QED
    BY <1>3, <2>2, AtHand DEF Reaches, LastStep, Position
<1>4. CASE at.loop = 4
  <2>1. Inspected(c)
    BY <1>4, AtHand DEF Table, Skipped, Called, Needed, Prepared
  <2>2. container[c] = Missing
    BY <1>4, AtHand DEF IInv, ProgressInv, Running
  <2>3. container' = container /\ seen'[c] = StateOf(container[c])
    BY <2>1, AtHand DEF Inspected, IInv, TypeOK
  <2>4. StateOf(Missing) = "missing"
    BY DEF StateOf, Missing
  <2>5. QED
    BY <1>4, <2>2, <2>3, <2>4, AtHand DEF Reaches, LastStep, Position
<1>5. CASE at.loop = 5
  <2>1. Step = "create" /\ seen[c] = "missing"
    BY <1>5, AtHand DEF Table, IInv, ProgressInv, Running
  <2>2. Called(c)
    BY <2>1 DEF Inspected, Skipped, Needed, Prepared
  <2>3. container'[c] = After("create", Missing) /\ seen' = seen
    BY <2>1, <2>2, AtHand DEF Called, After, IInv, TypeOK
  <2>4. QED
    BY <1>5, <2>1, <2>3, AtHand DEF Reaches, LastStep, Position
<1>6. QED
  BY <1>1, <1>2, <1>3, <1>4, <1>5, AtHand DEF Position, LastLoop, LastStep

LEMMA AllReach ==
  ASSUME IInv, NEW c, Running(c), Inspected(c) \/ Skipped(c) \/ Called(c) \/ Prepared(c)
  PROVE  \A d \in Components \ swapped : Reaches(d)
<1>1. op \in AllOps
  BY DEF IInv, TypeOK
<1>2. c \notin swapped => Reaches(c)
  BY <1>1, CreateReaches, StartReaches, StopReaches, DeleteReaches, RestoreReaches
     DEF AllOps
<1>3. QED
  BY <1>2, OtherReaches

-----------------------------------------------------------------------------
(* The steps of Next, as the proofs below split them. *)

GoesOn(c) ==
  Running(c) /\ Advance /\ (Inspected(c) \/ Skipped(c) \/ Called(c) \/ Prepared(c))

GoesWrong(c) ==
  /\ Running(c) /\ Fail /\ UNCHANGED changed
  /\ \/ UNCHANGED seen
     \/ /\ UNCHANGED <<container, blamed>>
        /\ op = "start" /\ Step = "inspect" /\ Ours(container[c])
        /\ seen' = [seen EXCEPT ![c] = StateOf(container[c])]
  /\ \/ UNCHANGED <<container, blamed>>
     \/ Needed(c) /\ Errs(Step, c)

Undoes(c) == c \in Components /\ Undo(c) /\ UNCHANGED <<op, live, before, swapped>>

LEMMA NextCases ==
  ASSUME TypeOK, [Next]_vars
  PROVE  \/ \E c : GoesOn(c) \/ GoesWrong(c) \/ Undoes(c)
         \/ \E o \in Ops : Begin(o)
         \/ \E c \in Components : Interfere(c)
         \/ Reconfigure \/ Cancel \/ Crash \/ UNCHANGED vars
<1>1. ASSUME Execute PROVE \E c : GoesOn(c) \/ GoesWrong(c) \/ Undoes(c)
  <2>1. CASE \E c \in Components : Undo(c)
    BY <1>1, <2>1 DEF Execute, Undoes
  <2>2. CASE Running(at.comp)
    BY <2>2, RunCases DEF GoesOn, GoesWrong
  <2>3. QED
    BY <1>1, <2>1, <2>2 DEF Execute, Running, TypeOK
<1>2. QED
  BY <1>1 DEF Next

(* The effect of a failing step on the components. *)
LEMMA WrongEffect ==
  ASSUME IInv, NEW c, GoesWrong(c)
  PROVE  /\ Position /\ Table /\ c \in Components /\ c = at.comp
         /\ at' = at /\ changed' = changed
         /\ phase' = IF changed = {} \/ Step = "final" THEN "failed" ELSE "undoing"
         /\ \A d \in Components : d # c =>
              container'[d] = container[d] /\ seen'[d] = seen[d]
         /\ \A d \in Components : d \notin blamed' =>
              d \notin blamed /\ container'[d] = container[d]
         /\ \/ seen'[c] = seen[c]
            \/ /\ container'[c] = container[c] /\ op = "start" /\ Ours(container[c])
               /\ Step = "inspect" /\ seen'[c] = StateOf(container[c])
         /\ \/ container'[c] = container[c]
            \/ container'[c] = After(Step, container[c]) /\ Needed(c) /\ seen' = seen
         /\ Step = "final" => blamed' = {}
<1>1. Position /\ Table /\ c \in Components /\ c = at.comp
  BY AtHand DEF GoesWrong
<1>2. container \in [Components -> Containers] /\ blamed = {}
      /\ seen \in [Components -> {"unseen", "missing", "stopped", "running"}]
  BY DEF IInv, TypeOK, SeenInv, GoesWrong, Running
<1>3. Step = "final" => ~Needed(c)
  BY DEF Needed
<1>4. CASE UNCHANGED <<container, blamed>>
  BY <1>1, <1>2, <1>4 DEF GoesWrong, Fail
<1>5. CASE UNCHANGED seen /\ Needed(c) /\ Errs(Step, c)
  BY <1>1, <1>2, <1>3, <1>5, CallEffect DEF GoesWrong, Fail, Errs, IInv
<1>6. QED
  BY <1>4, <1>5 DEF GoesWrong

(* The effect of a compensating call. *)
LEMMA UndoEffect ==
  ASSUME IInv, NEW c, Undoes(c)
  PROVE  /\ c \in changed /\ changed' = changed \ {c} /\ phase = "undoing"
         /\ phase' = IF changed = {c} THEN "failed" ELSE "undoing"
         /\ at' = at /\ seen' = seen /\ op' = op /\ before' = before /\ swapped' = swapped
         /\ \A d \in Components : d # c => container'[d] = container[d]
         /\ \A d \in Components : d \notin blamed' /\ d # c => d \notin blamed
         /\ c \notin blamed' =>
              c \notin blamed /\ container'[c] = After(Compensation, container[c])
         /\ \/ container'[c] = container[c]
            \/ container'[c] = After(Compensation, container[c])
<1>1. Does(Compensation, c) \/ Errs(Compensation, c)
  BY DEF Undoes, Undo
<1>2. c \in Components /\ TypeOK
  BY DEF Undoes, IInv
<1>3. blamed \subseteq blamed'
  BY <1>1, <1>2, CallEffect
<1>4. QED
  BY <1>1, <1>2, <1>3, CallEffect DEF Undoes, Undo

(* A call keeps a container acceptable. *)
LEMMA AfterAcceptable ==
  ASSUME NEW s, NEW call, Acceptable(s) PROVE Acceptable(After(call, s))
  BY DEF Acceptable, After, Missing

LEMMA SeenStep == IInv /\ [Next]_vars => SeenInv'
<1> SUFFICES ASSUME IInv, [Next]_vars PROVE SeenInv'
  OBVIOUS
<1>1. ASSUME NEW c, GoesOn(c) PROVE SeenInv'
  <2>1. Position /\ Table /\ c \in Components /\ c = at.comp /\ container[c] \in Containers
    BY <1>1, AtHand DEF GoesOn
  <2>2. phase = "running" /\ blamed = {} /\ blamed' = {} /\ op' = op /\ swapped' = swapped
    BY <1>1 DEF GoesOn, Running, IInv, SeenInv, Inspected, Skipped, Called, Prepared
  <2>3. \A d \in Components : d # c => container'[d] = container[d] /\ seen'[d] = seen[d]
    BY <1>1 DEF GoesOn, Inspected, Skipped, Called, Prepared, IInv, TypeOK
  <2>4. at.loop = 1 /\ at.step = 1 => Inspected(c)
    BY <1>1, <2>1 DEF GoesOn, Table, Skipped, Called, Needed, Prepared
  <2>5. Inspected(c) => seen'[c] = StateOf(container[c])
    BY <2>1 DEF Inspected, IInv, TypeOK
  <2>6. Inspected(c) \/ seen'[c] = seen[c]
    BY <1>1 DEF GoesOn, Skipped, Called, Prepared
  <2>7. seen[c] # "unseen" => seen'[c] # "unseen"
    BY <2>1, <2>5, <2>6, StateFacts
  <2>8. seen'[c] # "unseen"
    <3>1. at.loop > 1 \/ at.step > 1 \/ (at.loop = 1 /\ at.step = 1)
      BY <2>1 DEF Position
    <3>2. QED
      BY <1>1, <2>1, <2>4, <2>5, <2>7, <3>1, AtHand, StateFacts DEF GoesOn
  <2>9. \A d \in Components : Through(d, 1) /\ d # c => seen[d] # "unseen"
    BY <2>1, <2>2 DEF Through, IInv, SeenInv
  <2>10. phase' = "running" =>
           \A d \in Components :
             Passed(d, 1)' \/ (d = at'.comp /\ at'.step > 1) => seen'[d] # "unseen"
    BY <1>1, <2>1, <2>2, <2>3, <2>8, <2>9, PassedMoves DEF GoesOn, IInv
  <2>11. \A d \in changed' : seen'[d] # "unseen"
    BY <1>1, <2>2, <2>3, <2>8 DEF GoesOn, Inspected, Skipped, Called, Prepared,
       IInv, SeenInv, Busy, TypeOK
  <2>12. c \notin swapped => Acceptable(container'[c])
    <3>1. CASE Inspected(c)
      BY <2>1, <3>1 DEF Inspected, Ours, Acceptable, Table, Containers, Missing
    <3>2. CASE Skipped(c) \/ Prepared(c)
      <4>1. seen[c] # "unseen" /\ container' = container
        BY <2>8, <3>2 DEF Skipped, Prepared
      <4>2. QED
        BY <2>1, <2>2, <4>1 DEF IInv, SeenInv, Busy
    <3>3. CASE Called(c)
      <4>1. seen[c] # "unseen"
        BY <2>8, <3>3 DEF Called
      <4>2. container'[c] = After(Step, container[c])
        BY <2>1, <3>3 DEF Called, IInv, TypeOK
      <4>3. c \notin swapped => Acceptable(container[c])
        BY <2>1, <2>2, <4>1 DEF IInv, SeenInv, Busy
      <4>4. QED
        BY <4>2, <4>3, AfterAcceptable
    <3>4. QED
      BY <1>1, <3>1, <3>2, <3>3 DEF GoesOn
  <2>13. \A d \in Components \ swapped' : seen'[d] # "unseen" => Acceptable(container'[d])
    BY <2>2, <2>3, <2>12 DEF IInv, SeenInv, Busy
  <2>14. QED
    BY <2>2, <2>10, <2>11, <2>13 DEF SeenInv, Acceptable, Busy
<1>2. ASSUME NEW c, GoesWrong(c) PROVE SeenInv'
  <2>1. phase' # "running" /\ op' = op /\ swapped' = swapped /\ phase = "running"
    BY <1>2, WrongEffect DEF GoesWrong, Running
  <2>2. c \in Components /\ container[c] \in Containers
    BY <1>2, AtHand DEF GoesWrong
  <2>3. \A d \in changed' : seen'[d] # "unseen"
    BY <1>2, <2>1, <2>2, WrongEffect, StateFacts DEF IInv, SeenInv, Busy, TypeOK
  <2>4. Ours(container[c]) /\ Step # "owned" => Acceptable(container[c])
    BY DEF Ours, Acceptable
  <2>5. ASSUME NEW d \in Components \ swapped, seen'[d] # "unseen"
        PROVE  Acceptable(container'[d])
    <3>1. seen[d] # "unseen" => Acceptable(container[d])
      BY <2>1 DEF IInv, SeenInv, Busy
    <3>2. QED
      BY <1>2, <2>4, <2>5, <3>1, WrongEffect, AfterAcceptable
  <2>6. QED
    BY <2>1, <2>3, <2>5 DEF SeenInv, Acceptable, Busy
<1>3. ASSUME NEW c, Undoes(c) PROVE SeenInv'
  <2>1. Busy
    BY <1>3 DEF Undoes, Undo, Busy
  <2>2. ASSUME NEW d \in Components \ swapped, seen[d] # "unseen"
        PROVE  Acceptable(container'[d])
    <3>1. Acceptable(container[d])
      BY <2>1, <2>2 DEF IInv, SeenInv
    <3>2. QED
      BY <1>3, <3>1, UndoEffect, AfterAcceptable
  <2>3. QED
    BY <1>3, <2>1, <2>2, UndoEffect DEF SeenInv, IInv, Acceptable
<1>4. ASSUME NEW o \in Ops, Begin(o) PROVE SeenInv'
  BY <1>4, ExecutorAssumption DEF Begin, SeenInv, Start, Passed, Components
<1>5. ASSUME NEW c \in Components, Interfere(c) PROVE SeenInv'
  <2>1. \A d \in Components \ swapped' : d \notin swapped /\ container'[d] = container[d]
    BY <1>5 DEF Interfere, IInv, TypeOK
  <2>2. QED
    BY <1>5, <2>1 DEF Interfere, SeenInv, IInv, Passed, Acceptable, Busy
<1>6. CASE Reconfigure \/ Crash
  BY <1>6 DEF Reconfigure, Crash, Busy, SeenInv
<1>7. CASE Cancel \/ UNCHANGED vars
  BY <1>7 DEF Cancel, vars, history, SeenInv, IInv, Busy, Passed, Acceptable
<1>8. QED
  BY <1>1, <1>2, <1>3, <1>4, <1>5, <1>6, <1>7, NextCases DEF IInv

(* A completed call of create, start or stop can be undone. *)
LEMMA CallInverts ==
  ASSUME NEW s \in Containers, op \in {"create", "start", "stop"},
         Accepts(op, s), op = "start" => ~s.up, op = "stop" => s.up
  PROVE  s = After(Compensation, After(op, s))
<1>1. CASE op = "create"
  BY <1>1 DEF Accepts, After, Compensation, Containers, Missing
<1>2. CASE op = "start"
  BY <1>2 DEF Accepts, After, Compensation, Containers, Missing
<1>3. CASE op = "stop"
  BY <1>3 DEF Accepts, After, Compensation, Containers, Missing
<1>4. QED
  BY <1>1, <1>2, <1>3

LEMMA CallTwice ==
  ASSUME NEW s, op \in {"create", "start", "stop"}
  PROVE  After(op, After(op, s)) = After(op, s)
<1>1. CASE op = "create"
  BY <1>1 DEF After
<1>2. CASE op = "start"
  BY <1>2 DEF After
<1>3. CASE op = "stop"
  BY <1>3 DEF After
<1>4. QED
  BY <1>1, <1>2, <1>3

LEMMA UndoStep == IInv /\ [Next]_vars => UndoInv'
<1> SUFFICES ASSUME IInv, [Next]_vars PROVE UndoInv'
  OBVIOUS
<1>1. ASSUME NEW c, GoesOn(c) PROVE UndoInv'
  <2> SUFFICES ASSUME Busy', op \in {"create", "start", "stop"} PROVE UndoInv'
    BY <1>1 DEF UndoInv, GoesOn, Running
  <2>1. Position /\ Table /\ c \in Components /\ c = at.comp
        /\ container[c] \in Containers /\ before[c] \in Containers /\ TypeOK
    BY <1>1, AtHand DEF GoesOn, IInv
  <2>2. /\ phase = "running" /\ phase' = "running" /\ blamed = {} /\ blamed' = {}
        /\ op' = op /\ swapped' = swapped /\ before' = before
    BY <1>1, Moves DEF GoesOn, Running, IInv, SeenInv, Inspected, Skipped, Called,
       Prepared, Busy
  <2>3. at'.loop >= at.loop /\ at.loop \in Nat /\ at'.loop \in Nat
    BY <1>1, <2>1, <2>2, PassedMoves, MovesInTable DEF GoesOn, Running, Position
  <2>4. \A d \in Components : d # c =>
          /\ container'[d] = container[d] /\ seen'[d] = seen[d]
          /\ d \in changed' <=> d \in changed
    BY <1>1 DEF GoesOn, Inspected, Skipped, Called, Prepared, IInv, TypeOK
  <2>5. at'.loop = 1 => changed' = {}
    <3>1. at'.loop = 1 => at.loop = 1 /\ at.step = 1
      BY <2>1, <2>2, <2>3 DEF Position, LastLoop, LastStep
    <3>2. at.loop = 1 /\ at.step = 1 => UNCHANGED changed
      BY <1>1, <2>1 DEF GoesOn, Table, Inspected, Skipped, Called, Prepared, Needed
    <3>3. QED
      BY <2>2, <3>1, <3>2 DEF IInv, UndoInv, Busy
  <2>6. ASSUME c \notin swapped
        PROVE  /\ c \notin changed' => container'[c] = before[c]
               /\ c \in changed' => /\ container'[c] = After(op, before[c])
                                    /\ before[c] = After(Compensation, container'[c])
               /\ seen'[c] # "unseen" /\ (op = "stop" => at'.loop < 3) =>
                    seen'[c] = StateOf(before[c])
    <3>1. /\ c \notin changed => container[c] = before[c]
          /\ c \in changed => /\ container[c] = After(op, before[c])
                              /\ before[c] = After(Compensation, container[c])
          /\ seen[c] # "unseen" /\ (op = "stop" => at.loop < 3) =>
               seen[c] = StateOf(before[c])
          /\ at.loop = 1 => changed = {}
      BY <2>1, <2>2, <2>6 DEF IInv, UndoInv, Busy
    <3>2. CASE Inspected(c)
      <4>1. container' = container /\ changed' = changed /\ seen'[c] = StateOf(container[c])
        BY <2>1, <3>2 DEF Inspected, TypeOK
      <4>2. at.loop = 1 \/ (op = "stop" /\ at.loop = 3)
        BY <2>1, <3>2 DEF Inspected, Table
      <4>3. QED
        BY <2>3, <3>1, <4>1, <4>2
    <3>3. CASE Skipped(c) \/ Prepared(c)
      BY <2>3, <3>1, <3>3 DEF Skipped, Prepared
    <3>4. CASE Called(c)
      <4>1. Step = op /\ at.loop = 2 /\ seen' = seen
        BY <2>1, <3>4 DEF Called, Needed, Table, LastLoop
      <4>2. container'[c] = After(op, container[c]) /\ c \in changed'
            /\ Accepts(op, container[c])
        BY <2>1, <3>4, <4>1 DEF Called, Undoable, TypeOK
      <4>3. seen[c] = StateOf(before[c])
        BY <1>1, <2>1, <3>1, <4>1, AtHand DEF GoesOn
      <4>4. (op = "start" => ~before[c].up) /\ (op = "stop" => before[c].up)
        BY <2>1, <3>4, <4>1, <4>3, StateFacts DEF Called, Needed
      <4>5. container'[c] = After(op, before[c])
        BY <3>1, <4>2, CallTwice
      <4>6. Accepts(op, before[c])
        BY <3>1, <4>2 DEF Accepts, After
      <4>7. QED
        BY <2>1, <4>1, <4>2, <4>3, <4>4, <4>5, <4>6, CallInverts
    <3>5. QED
      BY <1>1, <3>2, <3>3, <3>4 DEF GoesOn
  <2>7. ASSUME NEW d \in Components \ swapped, d # c
        PROVE  /\ d \notin changed' => container'[d] = before[d]
               /\ d \in changed' => /\ container'[d] = After(op, before[d])
                                    /\ before[d] = After(Compensation, container'[d])
               /\ seen'[d] # "unseen" /\ (op = "stop" => at'.loop < 3) =>
                    seen'[d] = StateOf(before[d])
    BY <2>2, <2>3, <2>4, <2>7 DEF IInv, UndoInv, Busy
  <2>8. Compensation' = Compensation
    BY <2>2 DEF Compensation
  <2>9. QED
    BY <2>2, <2>5, <2>6, <2>7, <2>8 DEF UndoInv
<1>2. ASSUME NEW c, GoesWrong(c) PROVE UndoInv'
  <2>1. phase = "running" /\ op' = op /\ swapped' = swapped /\ before' = before
        /\ at' = at /\ changed' = changed
    BY <1>2, WrongEffect DEF GoesWrong, Running
  <2>2. Compensation' = Compensation
    BY <2>1 DEF Compensation
  <2>3. \A d \in Components : d \notin blamed' =>
          /\ d \notin blamed /\ container'[d] = container[d]
          /\ seen'[d] = seen[d] \/ (seen'[d] = StateOf(container[d]) /\ at.loop = 1)
    <3>1. op = "start" /\ Step = "inspect" => at.loop = 1
      BY <1>2, WrongEffect DEF Table
    <3>2. QED
      BY <1>2, <3>1, WrongEffect
  <2>4. QED
    BY <2>1, <2>2, <2>3 DEF UndoInv, IInv, Busy
<1>3. ASSUME NEW c, Undoes(c) PROVE UndoInv'
  <2>1. Compensation' = Compensation
    BY <1>3, UndoEffect DEF Compensation
  <2>2. QED
    BY <1>3, <2>1, UndoEffect DEF UndoInv, IInv, Busy, Undoes
<1>4. ASSUME NEW o \in Ops, Begin(o) PROVE UndoInv'
  BY <1>4 DEF Begin, UndoInv, Start, Busy
<1>5. ASSUME NEW c \in Components, Interfere(c) PROVE UndoInv'
  <2>1. \A d \in Components \ swapped' : d \notin swapped /\ container'[d] = container[d]
    BY <1>5 DEF Interfere, IInv, TypeOK
  <2>2. Compensation' = Compensation
    BY <1>5 DEF Interfere, Compensation
  <2>3. QED
    BY <1>5, <2>1, <2>2 DEF Interfere, UndoInv, IInv, Busy
<1>6. CASE Reconfigure \/ Crash
  BY <1>6 DEF Reconfigure, Crash, Busy, UndoInv
<1>7. CASE Cancel \/ UNCHANGED vars
  BY <1>7 DEF Cancel, vars, history, UndoInv, IInv, Busy, Compensation
<1>8. QED
  BY <1>1, <1>2, <1>3, <1>4, <1>5, <1>6, <1>7, NextCases DEF IInv

LEMMA ProgressStep == IInv /\ [Next]_vars => ProgressInv'
<1> SUFFICES ASSUME IInv, [Next]_vars, phase' = "running" PROVE ProgressInv'
  BY DEF ProgressInv
<1>1. ASSUME NEW c, GoesOn(c) PROVE ProgressInv'
  <2>1. /\ op' = op /\ swapped' = swapped /\ before' = before /\ phase = "running"
        /\ TypeOK /\ Advance
    BY <1>1 DEF GoesOn, Running, IInv
  <2>2. \A d \in Components \ swapped : Reaches(d)
    BY <1>1, AllReach DEF GoesOn
  <2>3. \A d \in Components, k \in Nat : Passed(d, k)' => Through(d, k)
    BY <2>1, PassedMoves
  <2>4. at'.step > 1 => at'.comp = at.comp /\ at.step < LastStep(op, at.loop)
    BY <2>1, PassedMoves
  <2>5. ASSUME NEW d \in Components \ swapped
        PROVE  op = "restore" /\ Passed(d, 3)' /\ ~Passed(d, 5)' => container'[d] = Missing
    <3>1. Position
      BY <2>1, TypePosition
    <3>2. Through(d, 5) /\ op = "restore" => Passed(d, 5)'
      BY <2>1, <3>1, Moves, ExecutorAssumption
         DEF Through, Passed, Position, LastLoop, LastStep, Components
    <3>3. QED
      BY <2>2, <2>3, <3>2 DEF Reaches
  <2>6. QED
    BY <2>1, <2>2, <2>3, <2>4, <2>5 DEF ProgressInv, Reaches
<1>2. ASSUME NEW c, GoesWrong(c) \/ Undoes(c) PROVE FALSE
  BY <1>2, WrongEffect, UndoEffect
<1>3. ASSUME NEW o \in Ops, Begin(o) PROVE ProgressInv'
  BY <1>3, ExecutorAssumption DEF Begin, ProgressInv, Start, Passed, Components
<1>4. ASSUME NEW c \in Components, Interfere(c) PROVE ProgressInv'
  <2>1. \A d \in Components \ swapped' : d \notin swapped /\ container'[d] = container[d]
    BY <1>4 DEF Interfere, IInv, TypeOK
  <2>2. QED
    BY <1>4, <2>1 DEF Interfere, ProgressInv, IInv, Passed
<1>5. CASE Reconfigure \/ Crash
  BY <1>5 DEF Reconfigure, Crash, Busy
<1>6. CASE Cancel \/ UNCHANGED vars
  BY <1>6 DEF Cancel, vars, history, ProgressInv, IInv, Passed
<1>7. QED
  BY <1>1, <1>2, <1>3, <1>4, <1>5, <1>6, NextCases DEF IInv

LEMMA FailureStep == IInv /\ [Next]_vars => FailureIsUndone'
<1> SUFFICES ASSUME IInv, [Next]_vars, phase' = "failed",
                    op' \in {"create", "start", "stop"}
             PROVE  FailureIsUndone'
  BY DEF FailureIsUndone
<1>1. ASSUME NEW c, GoesOn(c) PROVE FALSE
  BY <1>1, Moves DEF GoesOn, Running, IInv
<1>2. ASSUME NEW c, GoesWrong(c) PROVE FailureIsUndone'
  <2>1. /\ phase = "running" /\ op' = op /\ swapped' = swapped /\ before' = before
        /\ changed = {} \/ Step = "final"
    BY <1>2, WrongEffect DEF GoesWrong, Running
  <2>2. \A d \in Components : d \notin blamed' =>
          d \notin blamed /\ container'[d] = container[d]
    BY <1>2, WrongEffect
  <2>3. CASE changed = {}
    BY <2>1, <2>2, <2>3 DEF FailureIsUndone, IInv, UndoInv, Busy
  <2>4. CASE Step = "final"
    <3>1. op = "stop" /\ at.loop = 3 /\ blamed' = {}
      BY <1>2, <2>4, WrongEffect DEF Table
    <3>2. \A d \in Components \ swapped : ~container[d].up
      BY <2>1, <3>1 DEF IInv, ProgressInv, Passed
    <3>3. QED
      BY <2>1, <2>2, <3>1, <3>2 DEF FailureIsUndone
  <2>5. QED
    BY <2>1, <2>3, <2>4
<1>3. ASSUME NEW c, Undoes(c) PROVE FailureIsUndone'
  <2>1. changed = {c} /\ op' = op /\ before' = before /\ swapped' = swapped /\ Busy
    BY <1>3, UndoEffect DEF Busy
  <2>2. c \in Components \ (blamed' \cup swapped) => container'[c] = before[c]
    BY <1>3, <2>1, UndoEffect DEF IInv, UndoInv
  <2>3. \A d \in Components \ (blamed' \cup swapped) : d # c => container'[d] = before[d]
    BY <1>3, <2>1, UndoEffect DEF IInv, UndoInv
  <2>4. QED
    BY <2>1, <2>2, <2>3 DEF FailureIsUndone
<1>4. ASSUME NEW c \in Components, Interfere(c) PROVE FailureIsUndone'
  <2>1. \A d \in Components \ swapped' : d \notin swapped /\ container'[d] = container[d]
    BY <1>4 DEF Interfere, IInv, TypeOK
  <2>2. QED
    BY <1>4, <2>1 DEF Interfere, FailureIsUndone, IInv
<1>5. CASE Reconfigure
  BY <1>5 DEF Reconfigure, FailureIsUndone
<1>6. CASE (\E o \in Ops : Begin(o)) \/ Crash \/ Cancel
  BY <1>6 DEF Begin, Crash, Cancel, StopRequest, Busy
<1>7. CASE UNCHANGED vars
  BY <1>7 DEF vars, history, FailureIsUndone, IInv
<1>8. QED
  BY <1>1, <1>2, <1>3, <1>4, <1>5, <1>6, <1>7, NextCases DEF IInv

LEMMA SuccessStep == IInv /\ [Next]_vars => SuccessIsTruthful'
<1> SUFFICES ASSUME IInv, [Next]_vars, phase' = "ok" PROVE SuccessIsTruthful'
  BY DEF SuccessIsTruthful
<1>1. ASSUME NEW c, GoesOn(c) PROVE SuccessIsTruthful'
  <2>1. /\ op' = op /\ swapped' = swapped /\ before' = before /\ phase = "running"
        /\ TypeOK /\ Advance /\ Position
    BY <1>1, AtHand DEF GoesOn, Running, IInv
  <2>2. container' \in [Components -> Containers]
    BY <1>1, TypeStep DEF IInv, TypeOK
  <2>3. \A d \in Components \ swapped : Reaches(d) /\ Through(d, LastLoop(op))
    BY <1>1, <2>1, AllReach, EndMoves DEF GoesOn
  <2>4. ASSUME NEW d \in Components \ swapped, op # "restore", op # "delete"
        PROVE  container'[d].owner \in {"none", "current"}
    <3>1. seen[d] # "unseen"
      <4>1. at.loop > 1
        BY <1>1, <2>1, <2>4, Moves DEF Position, AllOps, LastLoop
      <4>2. QED
        BY <2>1, <4>1 DEF IInv, SeenInv, Passed
    <3>2. Acceptable(container[d])
      BY <2>1, <3>1 DEF IInv, SeenInv, Busy
    <3>3. Acceptable(container'[d])
      BY <1>1, <3>2, AfterAcceptable
         DEF GoesOn, Inspected, Skipped, Called, Prepared, IInv, TypeOK
    <3>4. QED
      BY <2>1, <2>4, <3>3 DEF Acceptable
  <2>5. ASSUME NEW d \in Components \ swapped
        PROVE  /\ StateOf(container'[d]) = Reported(d)' \/ (op = "create" /\ before[d].up)
               /\ container'[d].owner \in {"none", "current"}
    <3>1. CASE op = "create"
      BY <2>1, <2>3, <2>4, <3>1 DEF Reaches, Reported, LastLoop
    <3>2. CASE op = "start"
      <4>1. Through(d, 4)
        BY <2>3, <3>2 DEF LastLoop
      <4>2. at.loop > 2
        BY <2>1, <4>1 DEF Through, Passed, Position
      <4>3. container'[d].up
        BY <2>3, <3>2, <4>2 DEF Reaches, Through, Passed
      <4>4. StateOf(container'[d]) = "running"
        BY <2>2, <4>3, StateFacts
      <4>5. QED
        BY <2>1, <2>4, <3>2, <4>4 DEF Reported
    <3>3. CASE op = "stop"
      BY <2>1, <2>3, <2>4, <3>3 DEF Reaches, Reported, LastLoop
    <3>4. CASE op = "delete"
      BY <2>1, <2>3, <3>4 DEF Reaches, Reported, LastLoop, StateOf, Missing
    <3>5. CASE op = "restore"
      BY <2>1, <2>3, <3>5 DEF Reaches, Reported, LastLoop, StateOf, After
    <3>6. QED
      BY <2>1, <3>1, <3>2, <3>3, <3>4, <3>5 DEF Position, AllOps
  <2>6. QED
    BY <2>1, <2>5 DEF SuccessIsTruthful
<1>2. ASSUME NEW c, GoesWrong(c) \/ Undoes(c) PROVE FALSE
  BY <1>2, WrongEffect, UndoEffect
<1>3. ASSUME NEW c \in Components, Interfere(c) PROVE SuccessIsTruthful'
  <2>1. \A d \in Components \ swapped' : d \notin swapped /\ container'[d] = container[d]
    BY <1>3 DEF Interfere, IInv, TypeOK
  <2>2. QED
    BY <1>3, <2>1 DEF Interfere, SuccessIsTruthful, IInv, Reported
<1>4. CASE Reconfigure
  BY <1>4 DEF Reconfigure, SuccessIsTruthful
<1>5. CASE (\E o \in Ops : Begin(o)) \/ Crash \/ Cancel
  BY <1>5 DEF Begin, Crash, Cancel, StopRequest, Busy
<1>6. CASE UNCHANGED vars
  BY <1>6 DEF vars, history, SuccessIsTruthful, IInv, Reported
<1>7. QED
  BY <1>1, <1>2, <1>3, <1>4, <1>5, <1>6, NextCases DEF IInv

-----------------------------------------------------------------------------
LEMMA InitInvariant == Init => IInv
<1> SUFFICES ASSUME Init PROVE IInv
  OBVIOUS
<1> USE ExecutorAssumption
<1>1. op \in AllOps /\ at = Start /\ at \in [loop : Nat, comp : Components, step : Nat]
  BY DEF Init, Start, Components
<1>2. 1 \in 1..Len(Loops[op]) /\ 1 \in 1..Len(Loops[op][1])
  <2>1. 1 \in 1..LastLoop(op) /\ 1 \in 1..LastStep(op, 1)
    BY DEF LastLoop, LastStep
  <2>2. QED
    BY <1>1, <2>1, LoopCount, BodyLength
<1>3. 0 \in 0..MaxFaults /\ 0 \in 0..MaxForeign /\ 0 \in 0..MaxStops
  OBVIOUS
<1>4. TypeOK
  BY <1>1, <1>2, <1>3 DEF Init, TypeOK, Start
<1>5. SeenInv /\ UndoInv /\ ProgressInv /\ FailureIsUndone /\ SuccessIsTruthful
  BY DEF Init, SeenInv, UndoInv, ProgressInv, FailureIsUndone, SuccessIsTruthful, Busy
<1>6. QED
  BY <1>4, <1>5 DEF IInv

(* The inductive invariant of an operation on the containers. *)
THEOREM Invariance == Spec => []IInv
<1>1. IInv /\ [Next]_vars => IInv'
  BY TypeStep, SeenStep, UndoStep, ProgressStep, FailureStep, SuccessStep DEF IInv
<1>2. QED
  BY <1>1, InitInvariant, PTL DEF Spec

(* A failed create, start or stop is undone, for any number of components
   (docker.go:97, 277, 378). *)
THEOREM FailureUndone == Spec => []FailureIsUndone
<1>1. IInv => FailureIsUndone
  BY DEF IInv
<1>2. QED
  BY <1>1, Invariance, PTL

(* What a successful operation reports is how the containers are
   (docker.go:186-400). *)
THEOREM SuccessTruthful == Spec => []SuccessIsTruthful
<1>1. IInv => SuccessIsTruthful
  BY DEF IInv
<1>2. QED
  BY <1>1, Invariance, PTL

(* No operation changes a container of somebody else (docker_test.go:331). *)
THEOREM OnlyItsOwn == Spec => TouchesOnlyItsOwn
<1>1. ASSUME IInv, [Next]_vars, NEW d \in Components \ swapped',
             container'[d] # container[d]
      PROVE  Acceptable(container[d])
  <2>1. CASE \E c : GoesOn(c) \/ GoesWrong(c)
    <3>1. PICK c : GoesOn(c) \/ GoesWrong(c)
      BY <2>1
    <3>2. Running(c) /\ swapped' = swapped /\ phase = "running"
      BY <3>1 DEF GoesOn, GoesWrong, Running
    <3>3. d = c /\ Needed(c) /\ Accepts(Step, container[c])
      BY <1>1, <3>1, CallEffect
         DEF GoesOn, GoesWrong, Inspected, Skipped, Called, Prepared, Running, IInv, TypeOK
    <3>4. Step = "create" => Acceptable(container[c])
      BY <3>3 DEF Accepts, Acceptable
    <3>5. Step # "create" => seen[c] # "unseen"
      <4>1. Table /\ Position
        BY <1>1, <3>2, AtHand
      <4>2. Step = "start" => at.loop > 1
        BY <4>1 DEF Table
      <4>3. Step = "stop" => seen[c] # "unseen"
        BY <3>3 DEF Needed
      <4>4. Step = "remove" => at.loop > 1 \/ at.step > 1
        BY <4>1 DEF Table, LastStep
      <4>5. QED
        BY <1>1, <3>2, <3>3, <4>1, <4>2, <4>3, <4>4, AtHand DEF Needed
    <3>6. QED
      BY <1>1, <3>2, <3>3, <3>4, <3>5 DEF IInv, SeenInv, Busy
  <2>2. CASE \E c : Undoes(c)
    <3>1. PICK c : Undoes(c)
      BY <2>2
    <3>2. d = c /\ c \in changed /\ Busy /\ swapped' = swapped
      BY <1>1, <3>1, UndoEffect DEF Busy
    <3>3. QED
      BY <1>1, <3>2 DEF IInv, SeenInv
  <2>3. CASE \E c \in Components : Interfere(c)
    BY <1>1, <2>3 DEF Interfere, IInv, TypeOK
  <2>4. CASE (\E o \in Ops : Begin(o)) \/ Reconfigure \/ Cancel \/ Crash \/ UNCHANGED vars
    BY <1>1, <2>4 DEF Begin, Reconfigure, Cancel, Crash, vars
  <2>5. QED
    BY <1>1, <2>1, <2>2, <2>3, <2>4, NextCases DEF IInv
<1>2. IInv /\ [Next]_vars =>
        [\A c \in Components \ swapped' :
            container'[c] # container[c] => Acceptable(container[c])]_vars
  BY <1>1
<1>3. QED
  BY <1>2, Invariance, PTL DEF Spec, TouchesOnlyItsOwn, Acceptable

-----------------------------------------------------------------------------
(* Every operation ends. *)

(* The most steps that are left: five loops over N components with bodies of *)
(* up to three steps, and as many compensations as there are changes.        *)
Ahead(l) ==
  IF l = 1 THEN 12 * N ELSE IF l = 2 THEN 9 * N ELSE IF l = 3 THEN 6 * N
  ELSE IF l = 4 THEN 3 * N ELSE 0

Work ==
  IF phase = "running"
    THEN Ahead(at.loop) + 3 * (N - at.comp) + (3 - at.step) + N + 1
  ELSE IF phase = "undoing" THEN Cardinality(changed) ELSE 0

LEMMA ChangesAreFew ==
  ASSUME TypeOK
  PROVE  IsFiniteSet(changed) /\ Cardinality(changed) \in 0..N
<1>1. IsFiniteSet(1..N) /\ Cardinality(1..N) = N
  <2>1. N \in Int /\ 1 \in Int /\ ~(1 > N) /\ N - 1 + 1 = N
    BY ExecutorAssumption
  <2>2. QED
    BY <2>1, FS_Interval
<1>2. IsFiniteSet(changed) /\ Cardinality(changed) <= N
  <2>1. changed \in SUBSET (1..N)
    BY DEF TypeOK, Components
  <2>2. QED
    BY <1>1, <2>1, FS_Subset
<1>3. Cardinality(changed) \in Nat
  BY <1>2, FS_CardinalityType
<1>4. QED
  BY <1>2, <1>3, ExecutorAssumption

LEMMA WorkIsBounded ==
  ASSUME TypeOK, phase = "undoing" => changed # {}
  PROVE  Work \in 0..16 * N /\ (Busy <=> Work > 0)
<1>1. Position /\ Cardinality(changed) \in 0..N /\ IsFiniteSet(changed)
  BY TypePosition, ChangesAreFew
<1>2. at.loop \in 1..5 /\ at.step \in 1..3 /\ at.comp \in 1..N
  BY <1>1 DEF Position, LastLoop, LastStep, Components
<1>3. Ahead(at.loop) \in 0..12 * N
  BY <1>2, ExecutorAssumption DEF Ahead
<1>4. phase = "undoing" => Cardinality(changed) > 0
  BY <1>1, FS_EmptySet
<1>5. QED
  BY <1>1, <1>2, <1>3, <1>4, ExecutorAssumption DEF Work, Busy

LEMMA MoveIsWork ==
  ASSUME TypeOK, phase = "running", Advance
  PROVE  Work' < Work
<1>1. Position
  BY TypePosition
<1>2. at.loop \in 1..5 /\ at.step \in 1..3 /\ at.comp \in 1..N
  BY <1>1 DEF Position, LastLoop, LastStep, Components
<1>3. Ahead(at.loop) \in Nat /\ (at.loop < 5 => Ahead(at.loop + 1) + 3 * N = Ahead(at.loop))
  BY <1>2, ExecutorAssumption DEF Ahead
<1>4. LastLoop(op) <= 5 /\ LastLoop(op) \in Nat /\ LastStep(op, at.loop) \in 1..3
  BY DEF LastLoop, LastStep
<1>5. CASE phase' = "ok"
  BY <1>2, <1>3, <1>5, ExecutorAssumption DEF Work
<1>6. CASE phase' = "running"
  <2>1. Work' = Ahead(at'.loop) + 3 * (N - at'.comp) + (3 - at'.step) + N + 1
    BY <1>6 DEF Work, Ahead
  <2>2. Work = Ahead(at.loop) + 3 * (N - at.comp) + (3 - at.step) + N + 1
    BY DEF Work
  <2>3. CASE at' = [loop |-> at.loop, comp |-> at.comp, step |-> at.step + 1]
    BY <1>2, <1>3, <2>1, <2>2, <2>3, ExecutorAssumption
  <2>4. CASE at' = [loop |-> at.loop, comp |-> at.comp + 1, step |-> 1]
    BY <1>2, <1>3, <2>1, <2>2, <2>4, ExecutorAssumption
  <2>5. CASE at.loop < 5 /\ at.comp = N /\ at' = [loop |-> at.loop + 1, comp |-> 1, step |-> 1]
    <3>1. Work' = Ahead(at.loop + 1) + 3 * (N - 1) + (3 - 1) + N + 1
      BY <2>1, <2>5
    <3>2. Work = Ahead(at.loop + 1) + 3 * N + (3 - at.step) + N + 1
      BY <1>2, <1>3, <2>2, <2>5, ExecutorAssumption
    <3>3. Ahead(at.loop + 1) \in Nat
      BY <1>2, <2>5, ExecutorAssumption DEF Ahead
    <3>4. QED
      BY <1>2, <3>1, <3>2, <3>3, ExecutorAssumption
  <2>6. QED
    BY <1>2, <1>4, <1>6, <2>3, <2>4, <2>5, Moves
<1>7. QED
  BY <1>5, <1>6, Moves

LEMMA FailureIsWork ==
  ASSUME TypeOK, phase = "running", Fail, UNCHANGED changed
  PROVE  Work' < Work /\ (phase' = "undoing" => changed' # {})
<1>1. Position /\ Cardinality(changed) \in 0..N
  BY TypePosition, ChangesAreFew
<1>2. at.loop \in 1..5 /\ at.step \in 1..3 /\ at.comp \in 1..N
  BY <1>1 DEF Position, LastLoop, LastStep, Components
<1>3. Ahead(at.loop) \in Nat
  BY <1>2, ExecutorAssumption DEF Ahead
<1>4. Work = Ahead(at.loop) + 3 * (N - at.comp) + (3 - at.step) + N + 1
  BY DEF Work
<1>5. Work' = 0 \/ Work' = Cardinality(changed)
  BY DEF Fail, Work
<1>6. Work' < Work
  BY <1>1, <1>2, <1>3, <1>4, <1>5, ExecutorAssumption
<1>7. QED
  BY <1>6 DEF Fail

LEMMA UndoIsWork ==
  ASSUME TypeOK, NEW c \in Components, Undo(c)
  PROVE  Work' < Work /\ (phase' = "undoing" => changed' # {})
<1>1. c \in changed /\ changed' = changed \ {c} /\ phase = "undoing"
      /\ phase' = IF changed = {c} THEN "failed" ELSE "undoing"
  BY DEF Undo
<1>2. Cardinality(changed) \in Nat /\ Cardinality(changed \ {c}) = Cardinality(changed) - 1
      /\ Cardinality(changed) > 0
  <2>1. IsFiniteSet(changed) /\ Cardinality(changed) \in Nat
    BY ChangesAreFew, ExecutorAssumption
  <2>2. Cardinality(changed \ {c}) = Cardinality(changed) - 1
    BY <1>1, <2>1, FS_RemoveElement
  <2>3. Cardinality(changed) # 0
    BY <1>1, <2>1, FS_EmptySet
  <2>4. QED
    BY <2>1, <2>2, <2>3
<1>3. Work = Cardinality(changed) /\ (Work' = 0 \/ Work' = Cardinality(changed \ {c}))
  BY <1>1 DEF Work
<1>4. Work' < Work
  BY <1>2, <1>3
<1>5. phase' = "undoing" => changed' # {}
  BY <1>1
<1>6. QED
  BY <1>4, <1>5

LEMMA ExecuteIsWork ==
  ASSUME TypeOK, Execute
  PROVE  Work' < Work /\ (phase' = "undoing" => changed' # {})
<1>1. CASE \E c \in Components : Undo(c)
  BY <1>1, UndoIsWork
<1>2. CASE Running(at.comp)
  <2>1. CASE Advance
    <3>1. phase' # "undoing"
      BY <1>2, <2>1, Moves DEF Running
    <3>2. QED
      BY <1>2, <2>1, <3>1, MoveIsWork DEF Running
  <2>2. CASE Fail /\ UNCHANGED changed
    BY <1>2, <2>2, FailureIsWork DEF Running
  <2>3. QED
    BY <1>2, <2>1, <2>2, RunCases
<1>3. QED
  BY <1>1, <1>2 DEF Execute, Running, TypeOK

(* Nobody else makes the work of an operation longer. *)
LEMMA OthersAddNoWork ==
  ASSUME TypeOK, [Next]_vars, Busy, ~Execute
  PROVE  Work' <= Work /\ (phase' = "undoing" => phase = "undoing" /\ changed' = changed)
<1>1. \/ phase' = phase /\ at' = at /\ changed' = changed
      \/ phase' = "idle"
  BY DEF Next, vars, Begin, Reconfigure, Cancel, Crash, Interfere
<1>2. Position /\ Cardinality(changed) \in 0..N
  BY TypePosition, ChangesAreFew
<1>3. at.loop \in 1..5 /\ at.step \in 1..3 /\ at.comp \in 1..N
  BY <1>2 DEF Position, LastLoop, LastStep, Components
<1>4. Work \in Nat
  BY <1>2, <1>3, ExecutorAssumption DEF Work, Ahead
<1>5. Work' = Work \/ Work' = 0
  BY <1>1 DEF Work, Ahead
<1>6. QED
  BY <1>1, <1>4, <1>5

(* An operation on N components ends after at most 16 N steps, whatever      *)
(* fails and whoever interferes: Work is bounded, every step of the          *)
(* operation lowers it, no step of others raises it, and it is zero only     *)
(* when the operation is over.  A compensation always has a change left to   *)
(* undo (docker.go:78-400, 540-574).                                         *)
THEOREM OperationEnds ==
  Spec => /\ [](Work \in 0..16 * N /\ (Busy <=> Work > 0))
          /\ [][Busy => IF Execute THEN Work' < Work ELSE Work' <= Work]_vars
<1> DEFINE Inv == TypeOK /\ (phase = "undoing" => changed # {})
<1>1. Init => Inv
  BY InitInvariant DEF IInv, Init
<1>2. Inv /\ [Next]_vars => Inv'
  <2> SUFFICES ASSUME Inv, [Next]_vars PROVE Inv'
    OBVIOUS
  <2>1. TypeOK'
    BY TypeStep
  <2>2. CASE Execute
    BY <2>1, <2>2, ExecuteIsWork
  <2>3. CASE ~Execute /\ Busy
    BY <2>1, <2>3, OthersAddNoWork
  <2>4. CASE ~Execute /\ ~Busy
    <3>1. phase' # "undoing"
      BY <2>4 DEF Next, vars, Busy, Begin, Reconfigure, Cancel, Crash, Interfere
    <3>2. QED
      BY <2>1, <3>1
  <2>5. QED
    BY <2>2, <2>3, <2>4
<1>3. Inv => Work \in 0..16 * N /\ (Busy <=> Work > 0)
  BY WorkIsBounded
<1>4. Inv /\ [Next]_vars => [Busy => IF Execute THEN Work' < Work ELSE Work' <= Work]_vars
  BY ExecuteIsWork, OthersAddNoWork
<1>5. QED
  BY <1>1, <1>2, <1>3, <1>4, PTL DEF Spec

=============================================================================
