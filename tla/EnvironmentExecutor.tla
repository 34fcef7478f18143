------------------------ MODULE EnvironmentExecutor ------------------------
(***************************************************************************)
(* The Docker executor of the environment commands                         *)
(* (internal/container/docker.go): CreatePair, StartPair, StopPair,        *)
(* RestorePair and DeletePair over the containers of one environment, call *)
(* by call, with the compensation of a failure.  The daemon is shared:     *)
(* between two calls somebody else may start, stop, remove or replace a    *)
(* container.                                                              *)
(*                                                                         *)
(* The command loop runs one operation at a time, so two operations never  *)
(* overlap.  The payload passes the validator.                             *)
(***************************************************************************)
EXTENDS Naturals, Sequences

CONSTANTS
  N,            \* components of the environment, in the order of the payload
  Ops,          \* operations the server asks for
  MaxFaults,    \* bound: failing calls
  MaxForeign,   \* bound: acts of others
  MaxStops      \* bound: cancellations of the command and crashes

AllOps == {"create", "start", "stop", "restore", "delete"}

ASSUME ExecutorAssumption ==
  /\ N \in Nat \ {0}
  /\ Ops \subseteq AllOps
  /\ MaxFaults \in Nat /\ MaxForeign \in Nat /\ MaxStops \in Nat

Components == 1..N

(* What carries the name of a component: "current" has the labels of the   *)
(* environment and the fingerprint of the payload, "old" another           *)
(* fingerprint, and "foreign" other labels.                                *)
Missing    == [owner |-> "none", up |-> FALSE]
Containers == {Missing} \cup [owner : {"current", "old", "foreign"}, up : BOOLEAN]

StateOf(s) == IF s.owner = "none" THEN "missing" ELSE IF s.up THEN "running" ELSE "stopped"

(* The loops over payload.Components of each operation, in order, and what *)
(* the body of each does with one component.                               *)
Loops ==
  [create  |-> << <<"inspect">>, <<"create">> >>,
   start   |-> << <<"inspect">>, <<"start">>, <<"conda">>, <<"ready">> >>,
   stop    |-> << <<"inspect">>, <<"stop">>, <<"final">> >>,
   restore |-> << <<"owned">>, <<"stop">>, <<"owned", "remove">>,
                  <<"inspect">>, <<"create">> >>,
   delete  |-> << <<"owned", "stop", "remove">> >>]

VARIABLES
  container,   \* what Docker holds under the name of each component
  (* The operation. *)
  op, phase,
  at,          \* its position: loop, component, step of the body
  seen,        \* the state each component was last inspected in
  changed,     \* started, stopped or created: what a failure undoes
  live,        \* its context is not cancelled
  (* History of the operation. *)
  before,      \* the containers when it began
  blamed,      \* components with a failed call
  swapped,     \* components somebody else touched
  (* Bounds. *)
  faults, acts, stops

history == <<before, blamed, swapped>>
bounds  == <<faults, acts, stops>>
vars == <<container, op, phase, at, seen, changed, live, history, bounds>>

Start == [loop |-> 1, comp |-> 1, step |-> 1]

TypeOK ==
  /\ container \in [Components -> Containers]
  /\ op \in AllOps
  /\ phase \in {"idle", "running", "undoing", "ok", "failed"}
  /\ at \in [loop : Nat, comp : Components, step : Nat]
  /\ at.loop \in 1..Len(Loops[op])
  /\ at.step \in 1..Len(Loops[op][at.loop])
  /\ seen \in [Components -> {"unseen", "missing", "stopped", "running"}]
  /\ changed \subseteq Components
  /\ live \in BOOLEAN
  /\ before \in [Components -> Containers]
  /\ blamed \subseteq Components /\ swapped \subseteq Components
  /\ faults \in 0..MaxFaults /\ acts \in 0..MaxForeign /\ stops \in 0..MaxStops

Init ==
  /\ container \in [Components -> Containers]
  /\ op \in Ops /\ phase = "idle" /\ at = Start
  /\ seen = [c \in Components |-> "unseen"]
  /\ changed = {} /\ live = TRUE
  /\ before = container /\ blamed = {} /\ swapped = {}
  /\ faults = 0 /\ acts = 0 /\ stops = 0

-----------------------------------------------------------------------------
(* The Docker daemon, as the executor sees it. *)

Fault == faults < MaxFaults /\ faults' = faults + 1 /\ UNCHANGED <<acts, stops>>

Accepts(call, s) ==
  IF call = "create" THEN s.owner = "none"
                     ELSE s.owner # "none" /\ (call = "remove" => ~s.up)

After(call, s) ==
  IF call = "create"     THEN [owner |-> "current", up |-> FALSE]
  ELSE IF call = "start" THEN [owner |-> s.owner, up |-> TRUE]
  ELSE IF call = "stop"  THEN [owner |-> s.owner, up |-> FALSE]
                         ELSE Missing                \* remove, force

Does(call, c) ==
  /\ live /\ Accepts(call, container[c])
  /\ container' = [container EXCEPT ![c] = After(call, @)]
  /\ UNCHANGED <<blamed, bounds>>

(* An error: the context is over, Docker refuses, or the call fails, and   *)
(* then it may have been carried out all the same.                         *)
Errs(call, c) ==
  /\ blamed' = blamed \cup {c}
  /\ IF live /\ Accepts(call, container[c])
       THEN /\ Fault
            /\ \/ UNCHANGED container
               \/ container' = [container EXCEPT ![c] = After(call, @)]
       ELSE UNCHANGED <<container, bounds>>

(* A call that changes nothing goes wrong. *)
Fails == (~live /\ UNCHANGED bounds) \/ Fault

-----------------------------------------------------------------------------
(* Control. *)

Body == Loops[op][at.loop]
Step == Body[at.step]

(* Faulty LastComponent: one past the end. *)
PastTheEnd == at.comp > N

LastComponent == at.comp = N

(* The next step of the body, the next component, the next loop, the end. *)
Advance ==
  \/ /\ at.step < Len(Body)
     /\ at' = [at EXCEPT !.step = @ + 1] /\ UNCHANGED phase
  \/ /\ at.step = Len(Body) /\ ~LastComponent
     /\ at' = [at EXCEPT !.comp = @ + 1, !.step = 1] /\ UNCHANGED phase
  \/ /\ at.step = Len(Body) /\ LastComponent
     /\ IF at.loop < Len(Loops[op])
          THEN at' = [Start EXCEPT !.loop = at.loop + 1] /\ UNCHANGED phase
          ELSE phase' = "ok" /\ UNCHANGED at

(* The error is returned once what was changed is undone; the inspection   *)
(* at the end of StopPair comes too late for that.                         *)
Fail ==
  /\ phase' = IF changed = {} \/ Step = "final" THEN "failed" ELSE "undoing"
  /\ UNCHANGED at

(* Faulty Ours: any container of that name; always the fingerprint. *)
OursByName(s) ==
  Step = "owned" \/ s.owner \in {"none", "current"}

OursByFingerprint(s) == s.owner \in {"none", "current"}

Ours(s) ==
  IF Step = "owned" THEN s.owner # "foreign" ELSE s.owner \in {"none", "current"}

(* inspectComponent and inspectOwnedComponent; StartPair needs all.  The   *)
(* first one fails also if the MPS daemon or the workspace does.           *)
Inspect(c) ==
  LET s == container[c] IN
  /\ Step \in {"inspect", "owned", "final"}
  /\ \/ /\ live /\ Ours(s)
        /\ seen' = [seen EXCEPT ![c] = StateOf(s)]
        /\ IF op = "start" /\ s.owner = "none" THEN Fail ELSE Advance
        /\ UNCHANGED bounds
     \/ live /\ ~Ours(s) /\ Fail /\ UNCHANGED <<seen, bounds>>
     \/ Fails /\ Fail /\ UNCHANGED seen
  /\ UNCHANGED <<container, changed, blamed>>

(* Faulty Needed: a component that was running is stopped but not removed. *)
NeededAsInspected(c) ==
  \/ Step = "create" /\ seen[c] = "missing"
  \/ Step = "start"  /\ seen[c] # "running"
  \/ Step = "stop"   /\ seen[c] = "running"
  \/ Step = "remove" /\ seen[c] = "stopped"

(* Is there a call to make for component c at this step? *)
Needed(c) ==
  \/ Step = "create" /\ seen[c] = "missing"
  \/ Step = "start"  /\ seen[c] # "running"
  \/ Step = "stop"   /\ seen[c] = "running"
  \/ Step = "remove" /\ seen[c] # "missing"

Skip(c) ==
  /\ Step \in {"create", "start", "stop", "remove"} /\ ~Needed(c)
  /\ Advance
  /\ UNCHANGED <<container, seen, changed, blamed, bounds>>

(* Faulty Undoable: CreatePair keeps no list of what it creates. *)
UndoableButCreate == Step = "start" \/ op = "stop"

(* RestorePair and DeletePair keep no list of what they stop. *)
Undoable == Step \in {"create", "start"} \/ op = "stop"

Call(c) ==
  /\ Needed(c)
  /\ \/ /\ Does(Step, c) /\ Advance
        /\ changed' = IF Undoable THEN changed \cup {c} ELSE changed
     \/ Errs(Step, c) /\ Fail /\ UNCHANGED changed
     \/ /\ Step = "create" /\ Fault /\ Fail            \* dockerConfigs
        /\ UNCHANGED <<container, changed, blamed>>
  /\ UNCHANGED seen

(* installCondaMPSCompatibility runs a command in the container; waitReady *)
(* and initializeAnnotationAuth need at least the container.               *)
Prepare(c) ==
  /\ \/ Step = "conda" /\ container[c].up
     \/ Step = "ready" /\ container[c].owner # "none"
  /\ \/ live /\ Advance /\ UNCHANGED bounds
     \/ Fails /\ Fail
  /\ UNCHANGED <<container, seen, changed, blamed>>

CannotPrepare(c) ==
  /\ \/ Step = "conda" /\ ~container[c].up
     \/ Step = "ready" /\ container[c].owner = "none"
  /\ Fail
  /\ UNCHANGED <<container, seen, changed, blamed, bounds>>

(* compensateStop, compensateStart and compensateRemove, from the last     *)
(* change to the first, under the context of the operation; an error is    *)
(* ignored.                                                                *)
Compensation == IF op = "start" THEN "stop" ELSE IF op = "stop" THEN "start" ELSE "force"

Undo(c) ==
  /\ phase = "undoing"
  /\ c \in changed /\ \A d \in changed : d <= c
  /\ Does(Compensation, c) \/ Errs(Compensation, c)
  /\ changed' = changed \ {c}
  /\ phase' = IF changed = {c} THEN "failed" ELSE phase
  /\ UNCHANGED <<at, seen>>

Execute ==
  /\ \/ /\ phase = "running"
        /\ \/ Inspect(at.comp) \/ Skip(at.comp) \/ Call(at.comp)
           \/ Prepare(at.comp) \/ CannotPrepare(at.comp)
     \/ \E c \in Components : Undo(c)
  /\ UNCHANGED <<op, live, before, swapped>>

-----------------------------------------------------------------------------
Busy == phase \in {"running", "undoing"}

(* The dispatcher calls the executor (again). *)
Begin(o) ==
  /\ ~Busy
  /\ op' = o /\ phase' = "running" /\ at' = Start
  /\ seen' = [c \in Components |-> "unseen"]
  /\ changed' = {} /\ live' = TRUE
  /\ before' = container /\ blamed' = {} /\ swapped' = {}
  /\ UNCHANGED <<container, bounds>>

Act == acts < MaxForeign /\ acts' = acts + 1 /\ UNCHANGED <<faults, stops>>

(* Another user of the daemon, or its restart policy. *)
Interfere(c) ==
  /\ Act
  /\ \E s \in Containers \ {container[c]} : container' = [container EXCEPT ![c] = s]
  /\ swapped' = swapped \cup {c}
  /\ UNCHANGED <<op, phase, at, seen, changed, live, before, blamed>>

(* The next payload has other fingerprints. *)
Reconfigure ==
  /\ ~Busy /\ Act
  /\ container' = [c \in Components |->
       IF container[c].owner = "current" THEN [container[c] EXCEPT !.owner = "old"]
       ELSE container[c]]
  /\ swapped' = Components
  /\ UNCHANGED <<op, phase, at, seen, changed, live, before, blamed>>

StopRequest == Busy /\ stops < MaxStops /\ stops' = stops + 1 /\ UNCHANGED <<faults, acts>>

(* The agent is told to stop: the context ends, the operation goes on. *)
Cancel ==
  /\ StopRequest /\ live
  /\ live' = FALSE
  /\ UNCHANGED <<container, op, phase, at, seen, changed, history>>

Crash ==
  /\ StopRequest
  /\ phase' = "idle"
  /\ UNCHANGED <<container, op, at, seen, changed, live, history>>

Next ==
  \/ Execute \/ Reconfigure \/ Cancel \/ Crash
  \/ \E o \in Ops : Begin(o)
  \/ \E c \in Components : Interfere(c)

Spec == Init /\ [][Next]_vars

(* Every call returns, the waits have a deadline (docker.go:149, 185, 214), *)
(* and the server asks again.                                              *)
FairSpec ==
  /\ Spec
  /\ WF_vars(Execute)
  /\ WF_vars(\E o \in Ops : Begin(o))

-----------------------------------------------------------------------------
(* A failed create, start or stop is undone (docker.go:97, 378, 277): each *)
(* component is as it was before the operation, except those for which a   *)
(* call failed or which somebody else touched.  StopPair may also fail     *)
(* after its last stop, in the inspection, and then none is running.       *)
FailureIsUndone ==
  phase = "failed" /\ op \in {"create", "start", "stop"} =>
    LET rest == Components \ (blamed \cup swapped) IN
    \/ \A c \in rest : container[c] = before[c]
    \/ op = "stop" /\ blamed = {} /\ \A c \in rest : ~container[c].up

Reported(c) ==
  IF op = "start" THEN "running" ELSE IF op = "delete" THEN "missing"
  ELSE IF op = "stop" THEN seen[c] ELSE "stopped"

(* A success reports each component as it is, unless somebody else touched *)
(* it since the operation began, and leaves it with the asked fingerprint. *)
(* CreatePair is the exception: it reports a component that was running    *)
(* already as stopped (docker.go:385).                                     *)
SuccessIsTruthful ==
  phase = "ok" =>
    \A c \in Components \ swapped :
      /\ \/ StateOf(container[c]) = Reported(c)
         \/ op = "create" /\ before[c].up
      /\ container[c].owner \in {"none", "current"}

Acceptable(s) ==
  \/ s.owner \in {"none", "current"}
  \/ s.owner = "old" /\ op \in {"restore", "delete"}

(* No operation changes a container of somebody else, and only restore and *)
(* delete touch one with an old fingerprint, as long as the container does *)
(* not change hands between the inspection and the call                    *)
(* (docker_test.go:331).                                                   *)
TouchesOnlyItsOwn ==
  [][\A c \in Components \ swapped' :
       container'[c] # container[c] => Acceptable(container[c])]_vars

-----------------------------------------------------------------------------
(* The inductive invariant: what is known of a component that nobody else  *)
(* has touched, from the position of the operation.                        *)

(* Loop k is through with component c. *)
Passed(c, k) == at.loop > k \/ (at.loop = k /\ c < at.comp)

SeenInv ==
  /\ phase = "running" => blamed = {}
  /\ phase = "running" =>
       \A c \in Components :
         Passed(c, 1) \/ (c = at.comp /\ at.step > 1) => seen[c] # "unseen"
  /\ Busy =>
       /\ \A c \in changed : seen[c] # "unseen"
       /\ \A c \in Components \ swapped :
            seen[c] # "unseen" => Acceptable(container[c])

(* Create, start and stop: what is changed, and what would undo it. *)
UndoInv ==
  Busy /\ op \in {"create", "start", "stop"} =>
    /\ at.loop = 1 => changed = {}
    /\ \A c \in Components \ (blamed \cup swapped) :
         /\ c \notin changed => container[c] = before[c]
         /\ c \in changed => /\ container[c] = After(op, before[c])
                            /\ before[c] = After(Compensation, container[c])
         /\ seen[c] # "unseen" /\ (op = "stop" => at.loop < 3) =>
              seen[c] = StateOf(before[c])

(* How far the operation has come with each component. *)
ProgressInv ==
  phase = "running" =>
    \A c \in Components \ swapped :
      /\ op = "create" /\ Passed(c, 2) => StateOf(container[c]) = "stopped" \/ before[c].up
      /\ op = "start" /\ Passed(c, 2) => container[c].up
      /\ op = "stop" /\ Passed(c, 2) => ~container[c].up
      /\ op = "stop" /\ Passed(c, 3) => seen[c] = StateOf(container[c])
      /\ op = "delete" /\ Passed(c, 1) => container[c] = Missing
      /\ op = "restore" /\ Passed(c, 3) /\ ~Passed(c, 5) => container[c] = Missing
      /\ op = "restore" /\ Passed(c, 4) => seen[c] = "missing"
      /\ op = "restore" /\ Passed(c, 5) => container[c] = After("create", Missing)
      /\ at.step > 1 /\ c = at.comp /\ seen[c] = "missing" => container[c] = Missing

(* Types, what has been seen, what can be undone, what has been reached,   *)
(* and the two properties of its end (docker.go:78-400).                   *)
IInv ==
  /\ TypeOK /\ SeenInv /\ UndoInv /\ ProgressInv
  /\ FailureIsUndone /\ SuccessIsTruthful

(* The containers an operation cannot work on: StartPair needs them all,   *)
(* and only RestorePair and DeletePair accept an old fingerprint.          *)
Hopeless(o) ==
  \E c \in Components :
    container[c].owner \notin
      CASE o = "start"               -> {"current"}
        [] o \in {"create", "stop"}  -> {"none", "current"}
        [] OTHER                     -> {"none", "current", "old"}

(* Whatever an earlier attempt, a crash or a failed compensation left      *)
(* behind, an operation that is repeated succeeds in the end, unless a     *)
(* container it does not accept stays in its way.                          *)
RetrySucceeds ==
  \A o \in Ops :
    <>[](op = o) => []<>(phase = "ok") \/ <>[]Hopeless(o)
=============================================================================
