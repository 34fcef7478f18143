-------------------------- MODULE TerminalSession --------------------------
(***************************************************************************)
(* What the agent promises about root shells, without lock, recovery       *)
(* record, goroutines, retries or ends of the process: a session gets at   *)
(* most one shell in its life, and none once the server has been told that *)
(* it did not start; no shell is opened beside one that has not been told  *)
(* to stop; and the server takes one verdict about each session, which     *)
(* claims only what happened to its shell.                                 *)
(***************************************************************************)
CONSTANTS
  Session,
  Reoffered    \* sessions the server may offer again while they run

VARIABLES
  shell,       \* "left": gone after an orderly end; "lost": gone otherwise;
               \* "stillborn": killed before anybody could use it
  verdict

Unborn  == {"none", "stillborn"}
Running == {"live", "stopping"}
Dead    == {"left", "lost"}

Init ==
  /\ shell   = [s \in Session |-> "none"]
  /\ verdict = [s \in Session |-> "none"]

Open(s) ==
  /\ shell[s] = "none" /\ verdict[s] \in {"none", "cancelled"}
  /\ \A t \in Session : shell[t] # "live"
  /\ shell' = [shell EXCEPT ![s] = "live"]
  /\ UNCHANGED verdict

Miscarry(s) ==
  /\ shell[s] = "none"
  /\ shell' = [shell EXCEPT ![s] = "stillborn"]
  /\ UNCHANGED verdict

Stop(s) ==
  /\ shell[s] = "live"
  /\ shell' = [shell EXCEPT ![s] = "stopping"]
  /\ UNCHANGED verdict

Die(s) ==
  /\ shell[s] \in Running
  /\ \E how \in Dead : shell' = [shell EXCEPT ![s] = how]
  /\ UNCHANGED verdict

(* The end of the agent's process takes all shells with it. *)
DieTogether ==
  /\ \E how \in [Session -> Dead] :
       shell' = [s \in Session |-> IF shell[s] \in Running THEN how[s] ELSE shell[s]]
  /\ UNCHANGED verdict

(* What is true of a shell when v is said of it.  A session that is offered *)
(* again may be refused the second time; the platform cancels at any time.  *)
Justified(s, v) ==
  /\ v = "closed" => shell[s] = "left"
  /\ v \in {"failed", "timeout"} => shell[s] \in Running \cup Dead
  /\ v = "startFailed" => shell[s] \in Unborn
  /\ v = "interrupted" => shell[s] \notin Running
  /\ v = "refused" /\ s \notin Reoffered => shell[s] \in Unborn

Decide(s) ==
  /\ verdict[s] = "none"
  /\ \E v \in {"closed", "failed", "timeout", "startFailed", "interrupted",
               "refused", "cancelled"} :
       Justified(s, v) /\ verdict' = [verdict EXCEPT ![s] = v]
  /\ UNCHANGED shell

Next ==
  \/ \E s \in Session : Open(s) \/ Miscarry(s) \/ Stop(s) \/ Die(s) \/ Decide(s)
  \/ DieTogether

Spec == Init /\ [][Next]_<<shell, verdict>>
============================================================================
