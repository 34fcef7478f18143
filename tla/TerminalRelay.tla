--------------------------- MODULE TerminalRelay ---------------------------
(***************************************************************************)
(* The relay of one terminal session (relaySession,                        *)
(* internal/terminal/manager_linux.go): a goroutine that writes the        *)
(* outbound queue to the WebSocket, one that reads the PTY, one that reads *)
(* the WebSocket, and the session itself, which waits for an error, the    *)
(* end of its context or a limit of time, closes everything, waits for the *)
(* three and kills the shell.  Module TerminalManager takes a session to   *)
(* end at some time; here is why it does.                                  *)
(*                                                                         *)
(* A message is its size.  The rate limits refuse at any time, the network *)
(* fails at any time, and time passes in units in which a computation that *)
(* does not block takes none.                                              *)
(***************************************************************************)
EXTENDS Integers, Sequences

CONSTANTS
  Chunks,       \* sizes of what one read of the PTY returns
  PongSize,     \* size of the answer to a ping of the browser
  MaxBytes,     \* maxOutboundBytes
  MaxMessages,  \* maxOutboundMessages
  Idle,         \* the idle timeout
  Absolute      \* when the session expires; the bound of time as well

ASSUME RelayAssumption ==
  /\ Chunks \subseteq Nat \ {0} /\ PongSize \in Nat
  /\ MaxBytes \in Nat /\ MaxMessages \in Nat \ {0}
  /\ Idle \in Nat \ {0} /\ Absolute \in Nat \ {0}

Goroutines == {"writer", "output", "input"}
Readers    == {"output", "input"}
Sizes      == Chunks \cup {PongSize, 0}       \* a ping of the agent has size 0
Results    == {"ok", "failed", "cancelled", "idle", "absolute"}

VARIABLES
  pc,        \* where each goroutine is
  held,      \* the size of the message it sends or has received
  out,       \* the channel to the writer
  queued,    \* the atomic byte counter of that channel
  errs,      \* the channel of errors
  main,      \* where the session itself is
  result,
  over,      \* its context has ended
  open,      \* stop() has not been called: WebSocket and PTY are open
  shell,     \* the shell runs
  (* Time. *)
  now, lastIO,
  since,     \* when each reader got what it is passing on
  (* History. *)
  io,        \* when a byte last came from the shell or was accepted by its PTY
  passed,    \* the same, for output in the queue and input accepted as a whole
  stall      \* the longest time something took to be passed on

queueVars == <<out, queued>>
mainVars  == <<main, result, over, open>>
historyVars == <<io, passed, stall>>
timeVars  == <<now, lastIO, since, historyVars>>
vars == <<pc, held, queueVars, errs, mainVars, shell, timeVars>>

TypeOK ==
  /\ pc \in [Goroutines -> {"select", "taken", "write", "read", "type",
                            "add", "put", "drop", "ended"}]
  /\ held \in [Goroutines -> Sizes]
  /\ out \in Seq(Sizes) /\ Len(out) <= MaxMessages
  /\ queued \in Int
  /\ errs \in Seq({"eof", "error"})
  /\ main \in {"select", "wait", "kill", "grace", "killed", "returned"}
  /\ result \in Results \cup {"none"}
  /\ over \in BOOLEAN /\ open \in BOOLEAN /\ shell \in BOOLEAN
  /\ now \in 0..Absolute /\ lastIO \in 0..now /\ since \in [Readers -> 0..now]
  /\ io \in 0..now /\ passed \in 0..now /\ stall \in 0..now

Resting(g) == IF g = "writer" THEN "select" ELSE "read"

Init ==
  /\ pc = [g \in Goroutines |-> Resting(g)]
  /\ held = [g \in Goroutines |-> 0]
  /\ out = <<>> /\ queued = 0 /\ errs = <<>>
  /\ main = "select" /\ result = "none" /\ over = FALSE /\ open = TRUE
  /\ shell = TRUE
  /\ now = 0 /\ lastIO = 0 /\ since = [g \in Readers |-> 0]
  /\ io = 0 /\ passed = 0 /\ stall = 0

-----------------------------------------------------------------------------
(* What the goroutines share. *)

Goto(g, stage) == pc' = [pc EXCEPT ![g] = stage]
Release(g)     == held' = [held EXCEPT ![g] = 0]

(* Faulty ErrsCapacity: no buffer, so that an error finds nobody waiting. *)
Unbuffered == 0

ErrsCapacity == 4

(* The goroutine returns after a send to errs that does not block. *)
End(g, e) ==
  /\ Goto(g, "ended")
  /\ errs' = IF Len(errs) < ErrsCapacity THEN Append(errs, e) ELSE errs

(* Once the context is over, an error of a read is not worth telling. *)
EndOfRead(g) ==
  IF over \/ ~open THEN Goto(g, "ended") /\ UNCHANGED errs ELSE End(g, "error")

(* send(m) reserves the bytes, then tries the channel, and gives the bytes *)
(* back when either is full.                                               *)
BeginSend(g, size) ==
  Goto(g, "add") /\ held' = [held EXCEPT ![g] = size]

Reserve(g) ==
  /\ pc[g] = "add"
  /\ queued' = queued + held[g]
  /\ Goto(g, IF queued' > MaxBytes THEN "drop" ELSE "put")
  /\ UNCHANGED <<held, out, errs, timeVars>>

(* History of a reader that passes on what it got. *)
Passed(g) ==
  /\ io' = now /\ passed' = now
  /\ stall' = IF now - since[g] > stall THEN now - since[g] ELSE stall

(* What is passed on is a sign of life, of the time when it arrived. *)
SignOfLife(g) ==
  lastIO' = since[g] /\ since' = [since EXCEPT ![g] = 0] /\ Passed(g)

(* Faulty Enqueue: output is no sign of life; a send that waits for room.   *)
EnqueueUnnoticed(g) ==
  /\ pc[g] = "put"
  /\ IF Len(out) < MaxMessages
       THEN /\ out' = Append(out, held[g])
            /\ Goto(g, Resting(g)) /\ Release(g)
            /\ IF g = "output" THEN Passed(g) ELSE UNCHANGED historyVars
       ELSE Goto(g, "drop") /\ UNCHANGED <<held, out, historyVars>>
  /\ UNCHANGED <<queued, errs, now, lastIO, since>>

EnqueueWaiting(g) ==
  /\ pc[g] = "put" /\ Len(out) < MaxMessages
  /\ out' = Append(out, held[g])
  /\ Goto(g, Resting(g)) /\ Release(g)
  /\ IF g = "output" THEN SignOfLife(g)
                     ELSE UNCHANGED <<lastIO, since, historyVars>>
  /\ UNCHANGED <<queued, errs, now>>

(* Output that was queued counts as a sign of life. *)
Enqueue(g) ==
  /\ pc[g] = "put"
  /\ IF Len(out) < MaxMessages
       THEN /\ out' = Append(out, held[g])
            /\ Goto(g, Resting(g)) /\ Release(g)
            /\ IF g = "output" THEN SignOfLife(g)
                               ELSE UNCHANGED <<lastIO, since, historyVars>>
       ELSE Goto(g, "drop") /\ UNCHANGED <<held, out, lastIO, since, historyVars>>
  /\ UNCHANGED <<queued, errs, now>>

(* Faulty GiveBack: not at all. *)
GiveNothingBack(g) ==
  /\ pc[g] = "drop"
  /\ Release(g) /\ End(g, "error")
  /\ UNCHANGED <<queueVars, timeVars>>

GiveBack(g) ==
  /\ pc[g] = "drop"
  /\ queued' = queued - held[g] /\ Release(g)
  /\ End(g, "error")
  /\ UNCHANGED <<out, timeVars>>

Send(g) == Reserve(g) \/ Enqueue(g) \/ GiveBack(g)

-----------------------------------------------------------------------------
(* The goroutine that writes to the WebSocket. *)

Take ==
  /\ pc["writer"] = "select" /\ out # <<>>
  /\ held' = [held EXCEPT !["writer"] = Head(out)]
  /\ out' = Tail(out)
  /\ Goto("writer", "taken")
  /\ UNCHANGED <<queued, errs, timeVars>>

Discount ==
  /\ pc["writer"] = "taken"
  /\ queued' = queued - held["writer"] /\ Release("writer")
  /\ Goto("writer", "write")
  /\ UNCHANGED <<out, errs, timeVars>>

(* A write has a deadline of ten seconds. *)
Write ==
  /\ pc["writer"] = "write"
  /\ \/ open /\ Goto("writer", "select") /\ UNCHANGED errs
     \/ End("writer", "error")
  /\ UNCHANGED <<held, queueVars, timeVars>>

(* Every twenty seconds. *)
Ping ==
  /\ pc["writer"] = "select"
  /\ BeginSend("writer", 0)
  /\ UNCHANGED <<queueVars, errs, timeVars>>

WriterStops ==
  /\ pc["writer"] = "select" /\ (over \/ ~open)
  /\ Goto("writer", "ended")
  /\ UNCHANGED <<held, queueVars, errs, timeVars>>

Writer == Take \/ Discount \/ Write \/ Ping \/ WriterStops \/ Send("writer")

-----------------------------------------------------------------------------
(* The goroutine that reads the PTY. *)

ReadOutput ==
  /\ pc["output"] = "read" /\ open
  /\ \/ /\ \E n \in Chunks : BeginSend("output", n)
        /\ since' = [since EXCEPT !["output"] = now] /\ UNCHANGED errs
     \/ End("output", "error") /\ UNCHANGED <<held, since>>   \* the rate limit
  /\ UNCHANGED <<queueVars, now, lastIO, historyVars>>

(* The PTY is closed, or its last process has gone. *)
OutputFails ==
  /\ pc["output"] = "read" /\ (~open \/ ~shell)
  /\ EndOfRead("output")
  /\ UNCHANGED <<held, queueVars, timeVars>>

Output == OutputFails \/ Send("output")

-----------------------------------------------------------------------------
(* The goroutine that reads the WebSocket. *)

ReadInput ==
  /\ pc["input"] = "read" /\ open
  /\ \/ /\ Goto("input", "type") /\ since' = [since EXCEPT !["input"] = now]
        /\ UNCHANGED <<held, errs>>
     \/ BeginSend("input", PongSize) /\ UNCHANGED <<errs, since>>
     \/ End("input", "eof") /\ UNCHANGED <<held, since>>     \* close
     \/ End("input", "error") /\ UNCHANGED <<held, since>>   \* rate, control
  /\ UNCHANGED <<queueVars, now, lastIO, historyVars>>

InputFails ==
  /\ pc["input"] = "read"
  /\ EndOfRead("input")
  /\ UNCHANGED <<held, queueVars, timeVars>>

(* The PTY accepts a part of the frame, and the loop goes on with the rest. *)
TypePart ==
  /\ pc["input"] = "type" /\ open
  /\ io' = now
  /\ UNCHANGED <<pc, held, queueVars, errs, now, lastIO, since, passed, stall>>

(* It has accepted the last part, perhaps long after the frame arrived. *)
Typed ==
  /\ pc["input"] = "type" /\ open
  /\ Goto("input", "read") /\ SignOfLife("input")
  /\ UNCHANGED <<held, queueVars, errs, now>>

TypingFails ==
  /\ pc["input"] = "type" /\ (~open \/ ~shell)
  /\ End("input", "error")
  /\ since' = [since EXCEPT !["input"] = 0]
  /\ UNCHANGED <<held, queueVars, now, lastIO, historyVars>>

Input == (~open /\ InputFails) \/ TypingFails \/ Send("input")

Goroutine ==
  /\ \/ Writer \/ Output \/ Input
     \/ ReadOutput \/ ReadInput \/ InputFails \/ TypePart \/ Typed
  /\ UNCHANGED <<mainVars, shell>>

-----------------------------------------------------------------------------
(* The session. *)

Stop(r) == main' = "wait" /\ open' = FALSE /\ result' = r

NoticeError ==
  /\ main = "select" /\ errs # <<>>
  /\ Stop(IF Head(errs) = "eof" THEN "ok" ELSE "failed")
  /\ errs' = Tail(errs)
  /\ UNCHANGED <<pc, held, queueVars, over, shell, timeVars>>

NoticeEnd ==
  /\ main = "select" /\ over
  /\ Stop("cancelled")
  /\ UNCHANGED <<pc, held, queueVars, errs, over, shell, timeVars>>

(* Time passes, and the session looks at its limits.  Once it has stopped, *)
(* time plays no part.                                                     *)
Tick ==
  /\ main = "select"
  /\ now' = now + 1
  /\ \/ now' - lastIO >= Idle /\ Stop("idle")
     \/ now' - lastIO < Idle /\ now' >= Absolute /\ Stop("absolute")
     \/ now' - lastIO < Idle /\ now' < Absolute /\ UNCHANGED <<main, open, result>>
  /\ UNCHANGED <<pc, held, queueVars, errs, over, shell, lastIO, since, historyVars>>

AllEnded == \A g \in Goroutines : pc[g] = "ended"

WaitGroup ==
  /\ main = "wait" /\ AllEnded
  /\ main' = "kill"
  /\ UNCHANGED <<pc, held, queueVars, errs, result, over, open, shell, timeVars>>

(* terminateProcess: SIGTERM, which an interactive shell may ignore, then   *)
(* two seconds for the process to end, then SIGKILL and its end.           *)
AskToEnd ==
  /\ main = "kill" /\ main' = "grace"
  /\ UNCHANGED <<pc, held, queueVars, errs, result, over, open, shell, timeVars>>

GraceEnds ==
  /\ main = "grace" /\ main' = "killed"
  /\ UNCHANGED <<pc, held, queueVars, errs, result, over, open, shell, timeVars>>

Reap ==
  /\ main \in {"grace", "killed"} /\ ~shell
  /\ main' = "returned"
  /\ UNCHANGED <<pc, held, queueVars, errs, result, over, open, shell, timeVars>>

Session == NoticeError \/ NoticeEnd \/ WaitGroup \/ AskToEnd \/ GraceEnds \/ Reap

(* The kernel carries out a SIGKILL. *)
KernelKills ==
  /\ main = "killed" /\ shell /\ shell' = FALSE
  /\ UNCHANGED <<pc, held, queueVars, errs, mainVars, timeVars>>

(* The manager cancels the session, or its context expires. *)
Cancel ==
  /\ ~over /\ over' = TRUE
  /\ UNCHANGED <<pc, held, queueVars, errs, main, result, open, shell, timeVars>>

(* The user leaves the shell, or it obeys SIGTERM or the hangup. *)
ShellExits ==
  /\ shell /\ shell' = FALSE
  /\ UNCHANGED <<pc, held, queueVars, errs, mainVars, timeVars>>

Next == Goroutine \/ Session \/ Tick \/ KernelKills \/ Cancel \/ ShellExits

Spec == Init /\ [][Next]_vars

(* A goroutine that does not wait for the browser or the shell goes on: a   *)
(* write to the WebSocket has a deadline (manager_linux.go:153), and        *)
(* closing the WebSocket and the PTY ends the reads and writes on them.     *)
(* The clock goes on.  Nothing makes a shell obey SIGTERM.                  *)
FairSpec ==
  /\ Spec
  /\ WF_vars(Writer /\ UNCHANGED <<mainVars, shell>>)
  /\ WF_vars(Output /\ UNCHANGED <<mainVars, shell>>)
  /\ WF_vars(Input /\ UNCHANGED <<mainVars, shell>>)
  /\ WF_vars(Session)
  /\ WF_vars(Tick)
  /\ WF_vars(KernelKills)

-----------------------------------------------------------------------------
(* The bytes of a sequence of messages. *)
Bytes(messages) ==
  LET total[k \in 0..Len(messages)] ==
        IF k = 0 THEN 0 ELSE total[k - 1] + messages[k]
  IN  total[Len(messages)]

(* The bytes that goroutine g has reserved, while it is at such a stage.   *)
Reserved(g, stages) == IF pc[g] \in stages THEN held[g] ELSE 0

Pending(stages) ==
  Reserved("writer", stages) + Reserved("output", stages) + Reserved("input", stages)

(* The counter is the bytes of the channel, of the senders and of what the *)
(* writer has just taken, so the channel never holds more than             *)
(* maxOutboundBytes, although three goroutines add to the counter before   *)
(* and subtract from it after they use the channel                         *)
(* (manager_linux.go:128-141, 152).                                        *)
QueueIsAccounted ==
  /\ queued = Bytes(out) + Pending({"put", "drop", "taken"})
  /\ Bytes(out) + Pending({"put"}) <= MaxBytes

(* When a goroutine has ended while its context was not over, the session  *)
(* has an error to notice: none is lost, although errors are sent without  *)
(* blocking and suppressed after the end of the context                    *)
(* (manager_linux.go:160-165, 206-213, 224-231).                           *)
NoSilentEnd ==
  main = "select" /\ ~over /\ (\E g \in Goroutines : pc[g] = "ended") => errs # <<>>

(* An idle timeout means that for that time, less the longest time anything *)
(* took to be passed on, no output was queued and no frame of input was    *)
(* accepted as a whole: lastIO is set to the arrival of what was passed on, *)
(* by two goroutines, and may go back.  Input that the PTY accepted later  *)
(* belongs to a frame that is not complete: it is still being written, or  *)
(* writing it failed and ended the goroutine                               *)
(* (manager_linux.go:188, 204, 233, 243-268, 330).                         *)
IdleIsQuiet ==
  [][result # "idle" /\ result' = "idle" =>
       /\ now' - passed + stall >= Idle
       /\ io > passed => pc["input"] \in {"type", "ended"}]_vars

(* What the properties above rest on; inductive.                           *)
NoticeInv ==
  /\ pc = [g \in Goroutines |-> pc[g]]
  /\ errs \in Seq({"eof", "error"})
  /\ main = "select" => open
  /\ NoSilentEnd

ClockInv ==
  /\ {now, lastIO, io, passed, stall} \subseteq Nat
  /\ since \in [Readers -> Nat]
  /\ lastIO <= now /\ passed <= io /\ io <= now
  /\ \A g \in Readers : since[g] <= now
  /\ passed <= lastIO + stall
  /\ io > passed => pc["input"] \in {"type", "ended"}
  /\ main = "select" => now < Absolute

(* Types, the account, and what is known of errors and times               *)
(* (manager_linux.go:128-339).                                             *)
IInv == TypeOK /\ QueueIsAccounted /\ NoticeInv /\ ClockInv

(* Every session returns, its goroutines ended and its shell gone, though  *)
(* shell and browser may be silent or not read what is sent to them, and   *)
(* the shell may ignore SIGTERM (manager_linux.go:142-143, 312-355).       *)
SessionEnds == <>(main = "returned" /\ AllEnded /\ ~shell)
=============================================================================
