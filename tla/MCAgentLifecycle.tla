-------------------------- MODULE MCAgentLifecycle --------------------------
(* Instance of AgentLifecycle for TLC. *)
EXTENDS AgentLifecycle

(* Dead at once; dead in a second; up again when the check is made; gone   *)
(* just after it; sound.                                                   *)
SomeLives == {0, 1, 3, 9, Forever}
=============================================================================
