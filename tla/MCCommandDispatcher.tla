------------------------ MODULE MCCommandDispatcher ------------------------
(* Instances of CommandDispatcher for TLC. *)
EXTENDS CommandDispatcher

CONSTANTS c1, c2

(* A command with a progress report, and one with a large result. *)
KindImageInventory ==
  [c \in Commands |-> IF c = c1 THEN "image" ELSE "inventory"]
============================================================================
