---------------------------- MODULE OnceCommand ----------------------------
(***************************************************************************)
(* What the agent promises about a stored command, without store, calls,   *)
(* retries or crashes: under each lease the operation is begun at most     *)
(* once and never begun again after it ended or was cut short, and the     *)
(* server takes one final verdict for the command, which claims success or *)
(* failure only of an operation that really ended so.                      *)
(***************************************************************************)
CONSTANTS Command, CLease

VARIABLES outcome, verdict

Init ==
  /\ outcome = [l \in CLease |-> "none"]
  /\ verdict = [c \in Command |-> "none"]

Become(l, from, to) ==
  /\ outcome[l] = from
  /\ outcome' = [outcome EXCEPT ![l] = to]
  /\ UNCHANGED verdict

Begin(l)  == Become(l, "none", "executing")
Refuse(l) == Become(l, "none", "refused")
End(l)    == \E r \in {"ok", "failed", "interrupted"} : Become(l, "executing", r)

(* The outcomes that justify a verdict; the last two claim nothing. *)
Grounds(v) ==
  CASE v = "ok"     -> {"ok"}
    [] v = "failed" -> {"failed", "refused"}
    [] OTHER        -> {"none", "executing", "ok", "failed", "refused", "interrupted"}

Decide(c) ==
  /\ verdict[c] = "none"
  /\ \E v \in {"ok", "failed", "unknown", "cancelled"} :
       /\ \E l \in CLease : l.cmd = c /\ outcome[l] \in Grounds(v)
       /\ verdict' = [verdict EXCEPT ![c] = v]
  /\ UNCHANGED outcome

Next ==
  \/ \E l \in CLease : Begin(l) \/ Refuse(l) \/ End(l)
  \/ \E c \in Command : Decide(c)

Spec == Init /\ [][Next]_<<outcome, verdict>>
============================================================================
