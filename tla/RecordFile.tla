----------------------------- MODULE RecordFile -----------------------------
(***************************************************************************)
(* What the two stores promise about the file of their one record, without *)
(* temporary files and syncs.  A call replaces or removes the record at    *)
(* one point, if at all; "ok" means that it has; after an end of the       *)
(* process the file is what it was.  A loss of power may bring back an     *)
(* earlier whole content, but not behind a Save that returned "ok", if the *)
(* store is durable.                                                       *)
(***************************************************************************)
CONSTANTS Value, Absent, None    \* a call removes the file if its target is Absent

VARIABLES
  durable,   \* never changes
  file,
  earlier,   \* what a loss of power may bring back instead
  call,      \* the target of the call under way, or None
  answer

Init ==
  /\ durable \in BOOLEAN
  /\ file \in Value \cup {Absent} /\ earlier = {}
  /\ call = None /\ answer = "none"

Begin(v) ==
  /\ call = None /\ call' = v /\ answer' = "none"
  /\ UNCHANGED <<durable, file, earlier>>

TakeEffect ==
  /\ call # None
  /\ file' = call /\ earlier' = (earlier \cup {file}) \ {call}
  /\ UNCHANGED <<durable, call, answer>>

Return(a) ==
  /\ call # None /\ call' = None /\ answer' = a
  /\ earlier' \in {earlier, {}}
  /\ a = "ok" => file = call
  /\ a = "ok" /\ durable /\ call # Absent => earlier' = {}
  /\ UNCHANGED <<durable, file>>

Crash ==
  /\ call' = None /\ answer' = "none"
  /\ UNCHANGED <<durable, file, earlier>>

LosePower ==
  /\ call' = None /\ answer' = "none"
  /\ file' \in earlier \cup {file} /\ earlier' = {}
  /\ UNCHANGED durable

Next ==
  \/ \E v \in Value \cup {Absent} : Begin(v)
  \/ TakeEffect \/ Return("ok") \/ Return("error") \/ Crash \/ LosePower

Spec == Init /\ [][Next]_<<durable, file, earlier, call, answer>>
============================================================================
