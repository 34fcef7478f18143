---------------------------- MODULE DurableStore ----------------------------
(***************************************************************************)
(* The file of the pending command (internal/runtime/command_store.go) and *)
(* of the terminal recovery record (internal/terminal/recovery_store.go),  *)
(* call by call of the operating system, with errors, ends of the process  *)
(* and losses of power.  The stores differ in one point: only the second   *)
(* syncs the directory.                                                    *)
(*                                                                         *)
(* The file system is a cache over a disk.  What was synced is on the      *)
(* disk.  Of what was not, a loss of power keeps any part of the data of a *)
(* file, and the changes of the directory up to some point.                *)
(***************************************************************************)
CONSTANTS
  Record,      \* whole records
  Absent,      \* no file
  Torn,        \* the beginning of a record, or nothing
  None

ASSUME RecordAssumption ==
  /\ Absent \notin Record /\ Torn \notin Record /\ None \notin Record
  /\ Absent # Torn /\ None # Absent

VARIABLES
  store,       \* whose file it is
  pc,          \* the next call of Save or Clear
  target,      \* what the file is to become
  answer,      \* what the last Save or Clear returned
  tmp,         \* the content of the temporary file
  tmpSafe,     \* it is on the disk
  path,        \* the content of the file
  onDisk       \* the contents that the path may have on the disk

vars == <<store, pc, target, answer, tmp, tmpSafe, path, onDisk>>

Whole   == Record \cup {Absent}
Content == Whole \cup {Torn}
Saving  == {"create", "chmod", "write", "sync", "close", "rename"}

TypeOK ==
  /\ store \in {"command", "recovery"}
  /\ pc \in Saving \cup {"idle", "chmodPath", "finish", "discard", "remove"}
  /\ target \in Whole \cup {None}
  /\ answer \in {"none", "ok", "error"}
  /\ tmp \in Content /\ tmpSafe \in BOOLEAN
  /\ path \in Content
  /\ onDisk \in SUBSET Content

Init ==
  /\ store \in {"command", "recovery"}
  /\ pc = "idle" /\ target = None /\ answer = "none"
  /\ tmp = Absent /\ tmpSafe = FALSE
  /\ path \in Whole /\ onDisk = {path}

-----------------------------------------------------------------------------
fileVars == <<path, onDisk>>
tmpVars  == <<tmp, tmpSafe>>

Goto(stage) == pc' = stage /\ UNCHANGED <<target, answer>>
Return(a)   == pc' = "idle" /\ target' = None /\ answer' = a

(* What a file is on the disk, once its name is. *)
Kept(content, safe) == IF safe THEN {content} ELSE {content, Torn}

(* The parameter of Save is valid: an encoding that fails changes nothing. *)
Save(r) ==
  /\ pc = "idle"
  /\ pc' = "create" /\ target' = r /\ answer' = "none"
  /\ UNCHANGED <<store, tmpVars, fileVars>>

(* After the directory was made and, for the recovery record, looked at. *)
CreateTemp ==
  /\ pc = "create"
  /\ \/ tmp' = Torn /\ tmpSafe' = FALSE /\ Goto("chmod")
     \/ Return("error") /\ UNCHANGED tmpVars
  /\ UNCHANGED <<store, fileVars>>

Chmod ==
  /\ pc = "chmod"
  /\ Goto("write") \/ Goto("discard")
  /\ UNCHANGED <<store, tmpVars, fileVars>>

(* Faulty Write: a short write passes for a whole one. *)
WriteShort ==
  /\ pc = "write"
  /\ \/ tmp' \in {target, Torn} /\ Goto("sync")
     \/ Goto("discard") /\ UNCHANGED tmp
  /\ UNCHANGED <<store, tmpSafe, fileVars>>

Write ==
  /\ pc = "write"
  /\ \/ tmp' = target /\ Goto("sync")
     \/ Goto("discard") /\ UNCHANGED tmp
  /\ UNCHANGED <<store, tmpSafe, fileVars>>

Sync ==
  /\ pc = "sync"
  /\ \/ tmpSafe' = TRUE /\ Goto("close")
     \/ Goto("discard") /\ UNCHANGED tmpSafe
  /\ UNCHANGED <<store, tmp, fileVars>>

Close ==
  /\ pc = "close"
  /\ Goto("rename") \/ Goto("discard")
  /\ UNCHANGED <<store, tmpVars, fileVars>>

Rename ==
  /\ pc = "rename"
  /\ \/ /\ path' = tmp /\ onDisk' = onDisk \cup Kept(tmp, tmpSafe)
        /\ tmp' = Absent /\ Goto("chmodPath")
     \/ Goto("discard") /\ UNCHANGED <<tmp, fileVars>>
  /\ UNCHANGED <<store, tmpSafe>>

ChmodPath ==
  /\ pc = "chmodPath"
  /\ Goto("finish") \/ Return("error")
  /\ UNCHANGED <<store, tmpVars, fileVars>>

(* Faulty Finish: neither store syncs the directory. *)
FinishUnsynced ==
  /\ pc = "finish" /\ Return("ok")
  /\ UNCHANGED <<store, tmpVars, fileVars>>

(* The recovery store syncs the directory. *)
Finish ==
  /\ pc = "finish"
  /\ \/ onDisk' = (IF store = "recovery" THEN {path} ELSE onDisk) /\ Return("ok")
     \/ store = "recovery" /\ Return("error") /\ UNCHANGED onDisk
  /\ UNCHANGED <<store, tmpVars, path>>

(* The deferred removal of the temporary file. *)
Discard ==
  /\ pc = "discard"
  /\ tmp' = Absent /\ Return("error")
  /\ UNCHANGED <<store, tmpSafe, fileVars>>

Clear ==
  /\ pc = "idle"
  /\ pc' = "remove" /\ target' = Absent /\ answer' = "none"
  /\ UNCHANGED <<store, tmpVars, fileVars>>

(* There is nothing to sync if there is nothing to remove. *)
Remove ==
  /\ pc = "remove"
  /\ \/ path = Absent /\ Return("ok") /\ UNCHANGED fileVars
     \/ /\ path # Absent /\ Goto("finish")
        /\ path' = Absent /\ onDisk' = onDisk \cup {Absent}
     \/ Return("error") /\ UNCHANGED fileVars
  /\ UNCHANGED <<store, tmpVars>>

(* Temporary files that are left behind are never looked at. *)
Restart ==
  /\ pc' = "idle" /\ target' = None /\ answer' = "none"
  /\ tmp' = Absent /\ tmpSafe' = FALSE
  /\ UNCHANGED store

Crash == Restart /\ UNCHANGED fileVars

LosePower ==
  /\ Restart
  /\ path' \in onDisk /\ onDisk' = {path'}

Next ==
  \/ \E r \in Record : Save(r)
  \/ CreateTemp \/ Chmod \/ Write \/ Sync \/ Close \/ Rename \/ ChmodPath
  \/ Finish \/ Discard \/ Clear \/ Remove \/ Crash \/ LosePower

Spec == Init /\ [][Next]_vars

-----------------------------------------------------------------------------
(* The file of either store is a RecordFile, and that of the recovery store *)
(* a durable one: it is whole at any time and after any loss of power, and  *)
(* no loss of power undoes a Save of the recovery store that returned nil   *)
(* (command_store.go:54-95, recovery_store.go:93-187).                      *)
File == INSTANCE RecordFile WITH
  Value   <- Record,
  durable <- store = "recovery",
  file    <- path,
  earlier <- onDisk \ {path},
  call    <- target

ImplementsFile == File!Spec

(* Once a Save of the recovery store has returned nil, nothing but its      *)
(* record can be found after a loss of power, until the next call           *)
(* (recovery_store.go:148-156).                                             *)
SavedIsDurable ==
  store = "recovery" /\ pc = "idle" /\ answer = "ok" /\ path # Absent => onDisk = {path}

(* What holds between the calls: the content under the path and all that   *)
(* the disk may have there are whole, the temporary file is the record, on *)
(* the disk, when it is renamed, and the file is the target from then on   *)
(* (command_store.go:62-86, recovery_store.go:116-156, 176-186).           *)
IInv ==
  /\ TypeOK
  /\ path \in onDisk /\ onDisk \subseteq Whole
  /\ pc = "idle" <=> target = None
  /\ pc \in Saving \cup {"chmodPath", "discard"} => target \in Record
  /\ pc = "remove" => target = Absent
  /\ pc \in {"sync", "close", "rename"} => tmp = target
  /\ pc \in {"close", "rename"} => tmpSafe
  /\ pc \in {"chmodPath", "finish"} => path = target
  /\ SavedIsDurable
=============================================================================
