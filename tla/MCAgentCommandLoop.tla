------------------------ MODULE MCAgentCommandLoop ------------------------
(* Instances of AgentCommandLoop for TLC. *)
EXTENDS AgentCommandLoop

CONSTANTS c1, c2, c3, c4

KindsOfTheLoop ==
  [c \in Commands |-> CASE c = c1 -> "image"
                        [] c = c2 -> "environment"
                        [] c = c3 -> "upgrade"
                        [] c = c4 -> "direct"]

KindInventoryShutdown ==
  [c \in Commands |-> IF c = c1 THEN "inventory" ELSE "shutdown"]
===========================================================================
