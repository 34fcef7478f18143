--------------------------- MODULE MCDockerImages ---------------------------
(* Instance of DockerImages for TLC. *)
EXTENDS DockerImages

CONSTANTS i1, i2, t1, t2, c1, c2, n1

(* An image under the target's name, under another and under none, and an  *)
(* ambiguous archive.                                                      *)
SomeArchives ==
  { <<[id |-> i1, tag |-> t1]>>, <<[id |-> i1, tag |-> t2]>>,
    <<[id |-> i1, tag |-> None]>>,
    <<[id |-> i1, tag |-> t1], [id |-> i2, tag |-> t2]>> }
=============================================================================
