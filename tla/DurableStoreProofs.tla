------------------------- MODULE DurableStoreProofs -------------------------
(* Proofs about DurableStore, for any records and any number of calls,     *)
(* errors, ends of the process and losses of power.                        *)
EXTENDS DurableStore, TLAPS

(* What holds between the calls is kept by each of them, whatever it returns. *)
LEMMA InvariantStep == IInv /\ [Next]_vars => IInv'
<1> SUFFICES ASSUME IInv, [Next]_vars PROVE IInv'
  OBVIOUS
<1> USE RecordAssumption DEF IInv, TypeOK, Whole, Content, Saving, fileVars, tmpVars,
        Goto, Return, SavedIsDurable
<1>1. ASSUME NEW r \in Record, Save(r) PROVE IInv'
  BY <1>1 DEF Save
<1>2. CASE CreateTemp
  BY <1>2 DEF CreateTemp
<1>3. CASE Chmod
  BY <1>3 DEF Chmod
<1>4. CASE Write
  BY <1>4 DEF Write
<1>5. CASE Sync
  BY <1>5 DEF Sync
<1>6. CASE Close
  BY <1>6 DEF Close
<1>7. CASE Rename
  <2>1. CASE path' = tmp /\ onDisk' = onDisk \cup Kept(tmp, tmpSafe) /\ tmp' = Absent
             /\ Goto("chmodPath")
    <3>1. Kept(tmp, tmpSafe) = {tmp} /\ tmp = target /\ target \in Record
      BY <1>7 DEF Rename, Kept
    <3>2. QED
      BY <1>7, <2>1, <3>1 DEF Rename
  <2>2. CASE Goto("discard") /\ UNCHANGED <<tmp, fileVars>>
    BY <1>7, <2>2 DEF Rename
  <2>3. QED
    BY <1>7, <2>1, <2>2 DEF Rename
<1>8. CASE ChmodPath
  BY <1>8 DEF ChmodPath
<1>9. CASE Finish
  BY <1>9 DEF Finish
<1>10. CASE Discard
  BY <1>10 DEF Discard
<1>11. CASE Clear
  BY <1>11 DEF Clear
<1>12. CASE Remove
  BY <1>12 DEF Remove
<1>13. CASE Crash
  BY <1>13 DEF Crash, Restart
<1>14. CASE LosePower
  BY <1>14 DEF LosePower, Restart
<1>15. CASE UNCHANGED vars
  BY <1>15 DEF vars
<1>16. QED
  BY <1>1, <1>2, <1>3, <1>4, <1>5, <1>6, <1>7, <1>8, <1>9, <1>10, <1>11, <1>12,
     <1>13, <1>14, <1>15 DEF Next

(* The file is whole at any time, and so is all that a loss of power may
   leave of it (command_store.go:54-95, recovery_store.go:93-187). *)
THEOREM Invariance == Spec => []IInv
<1>1. Init => IInv
  BY RecordAssumption DEF Init, IInv, TypeOK, Whole, Content, Saving, SavedIsDurable
<1>2. QED
  BY <1>1, InvariantStep, PTL DEF Spec

(* A Save of the recovery store that returned nil outlives a loss of power
   (recovery_store.go:148-156). *)
THEOREM Durable == Spec => []SavedIsDurable
  BY Invariance, PTL DEF IInv

-----------------------------------------------------------------------------
(* The refinement of RecordFile.                                           *)

recordVars == <<store = "recovery", path, onDisk \ {path}, target, answer>>

(* A step before the file changes. *)
LEMMA Preparation ==
  ASSUME IInv,
         CreateTemp \/ Chmod \/ Write \/ Sync \/ Close \/ Discard \/ ChmodPath,
         Goto(pc') \/ Return("error")
  PROVE  [File!Next]_recordVars
<1>1. UNCHANGED <<store, path, onDisk>> /\ target # None
  BY DEF CreateTemp, Chmod, Write, Sync, Close, Discard, ChmodPath, fileVars, IInv, Saving
<1>2. CASE Goto(pc')
  BY <1>1, <1>2 DEF Goto, recordVars
<1>3. CASE Return("error")
  <2>1. File!Return("error")
    BY <1>1, <1>3 DEF Return, File!Return
  <2>2. QED
    BY <2>1 DEF File!Next
<1>4. QED
  BY <1>2, <1>3

(* The one step of a call that changes the file. *)
LEMMA Effect ==
  ASSUME IInv, target # None, path' = target, onDisk' = onDisk \cup {target},
         UNCHANGED <<store, target, answer>>
  PROVE  [File!Next]_recordVars
<1>1. onDisk' \ {path'} = ((onDisk \ {path}) \cup {path}) \ {target}
  BY DEF IInv
<1>2. File!TakeEffect
  BY <1>1 DEF File!TakeEffect
<1>3. QED
  BY <1>2 DEF File!Next

LEMMA StepRefines ==
  ASSUME IInv, [Next]_vars
  PROVE  [File!Next]_recordVars
<1> USE DEF fileVars
<1>1. ASSUME NEW r \in Record, Save(r) PROVE [File!Next]_recordVars
  <2>1. File!Begin(r)
    BY <1>1 DEF Save, File!Begin, IInv
  <2>2. QED
    BY <2>1 DEF File!Next
<1>2. CASE CreateTemp \/ Chmod \/ Write \/ Sync \/ Close \/ Discard \/ ChmodPath
  <2>1. Goto(pc') \/ Return("error")
    BY <1>2 DEF CreateTemp, Chmod, Write, Sync, Close, Discard, ChmodPath, Goto, Return
  <2>2. QED
    BY <1>2, <2>1, Preparation
<1>3. CASE Rename
  <2>1. CASE path' = tmp /\ onDisk' = onDisk \cup Kept(tmp, tmpSafe) /\ Goto("chmodPath")
    <3>1. Kept(tmp, tmpSafe) = {target} /\ tmp = target /\ target # None
      BY <1>3 DEF Rename, Kept, IInv, Saving
    <3>2. QED
      BY <1>3, <2>1, <3>1, Effect DEF Rename, Goto
  <2>2. CASE Goto("discard") /\ UNCHANGED <<tmp, fileVars>>
    BY <1>3, <2>2 DEF Rename, Goto, recordVars
  <2>3. QED
    BY <1>3, <2>1, <2>2 DEF Rename
<1>4. CASE Finish
  <2>1. pc = "finish" /\ target # None /\ path = target /\ path \in onDisk
    BY <1>4 DEF Finish, IInv
  <2>2. CASE onDisk' = (IF store = "recovery" THEN {path} ELSE onDisk) /\ Return("ok")
    <3>1. File!Return("ok")
      BY <1>4, <2>1, <2>2 DEF Finish, Return, File!Return
    <3>2. QED
      BY <3>1 DEF File!Next
  <2>3. CASE Return("error") /\ UNCHANGED onDisk
    <3>1. File!Return("error")
      BY <1>4, <2>1, <2>3 DEF Finish, Return, File!Return
    <3>2. QED
      BY <3>1 DEF File!Next
  <2>4. QED
    BY <1>4, <2>2, <2>3 DEF Finish
<1>5. CASE Clear
  <2>1. File!Begin(Absent)
    BY <1>5 DEF Clear, File!Begin, IInv
  <2>2. QED
    BY <2>1 DEF File!Next
<1>6. CASE Remove
  <2>1. target = Absent /\ target # None
    BY <1>6, RecordAssumption DEF Remove, IInv
  <2>2. ASSUME NEW a \in {"ok", "error"}, Return(a), UNCHANGED fileVars,
               a = "ok" => path = Absent
        PROVE  [File!Next]_recordVars
    <3>1. File!Return(a)
      BY <1>6, <2>1, <2>2 DEF Remove, Return, File!Return
    <3>2. QED
      BY <3>1, <2>2 DEF File!Next
  <2>3. CASE path' = Absent /\ onDisk' = onDisk \cup {Absent} /\ Goto("finish")
    BY <1>6, <2>1, <2>3, Effect DEF Remove, Goto
  <2>4. QED
    BY <1>6, <2>2, <2>3 DEF Remove
<1>7. CASE Crash
  <2>1. File!Crash
    BY <1>7 DEF Crash, Restart, File!Crash
  <2>2. QED
    BY <2>1 DEF File!Next
<1>8. CASE LosePower
  <2>1. onDisk = (onDisk \ {path}) \cup {path}
    BY DEF IInv
  <2>2. path' \in (onDisk \ {path}) \cup {path} /\ onDisk' \ {path'} = {}
    BY <1>8, <2>1 DEF LosePower
  <2>3. File!LosePower
    BY <1>8, <2>2 DEF LosePower, Restart, File!LosePower
  <2>4. QED
    BY <2>3 DEF File!Next
<1>9. CASE UNCHANGED vars
  BY <1>9 DEF vars, recordVars
<1>10. QED
  BY <1>1, <1>2, <1>3, <1>4, <1>5, <1>6, <1>7, <1>8, <1>9 DEF Next

(* Each store is a RecordFile, and that of the recovery record a durable one
   (command_store.go:54-95, recovery_store.go:93-187). *)
THEOREM Refinement == Spec => ImplementsFile
<1>1. Init => File!Init
  BY DEF Init, File!Init, Whole
<1>2. IInv /\ [Next]_vars => [File!Next]_recordVars
  BY StepRefines
<1>3. QED
  BY <1>1, <1>2, Invariance, PTL DEF Spec, ImplementsFile, File!Spec, recordVars

=============================================================================
