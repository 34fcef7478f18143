------------------------ MODULE TerminalManagerProofs ------------------------
(* Proofs about TerminalManager, for any number of sessions, faults and    *)
(* ends of the process.                                                    *)
EXTENDS TerminalManager, TLAPS

Stages   == {"leased", "running", "done"}
Verdicts == {"none", "closed", "failed", "timeout", "refused", "startFailed",
             "interrupted", "cancelled"}

(* A fault is counted within its bound. *)
LEMMA FaultType ==
  ASSUME TypeOK, UNCHANGED boundVars \/ Fault
  PROVE  faults' \in 0..MaxFaults /\ crashes' \in 0..MaxCrashes
  BY SessionsAssumption DEF TypeOK, Fault, boundVars

(* The file holds records before and after a Save or Clear. *)
LEMMA WriteType ==
  ASSUME TypeOK, NEW file \in SUBSET Recovery, Writes(file) \/ WriteFails(file)
  PROVE  /\ store' \in SUBSET Recovery
         /\ faults' \in 0..MaxFaults /\ crashes' \in 0..MaxCrashes
<1>1. UNCHANGED boundVars \/ Fault
  BY DEF Writes, WriteFails
<1>2. store' \in {store, file}
  BY DEF Writes, WriteFails
<1>3. QED
  BY <1>1, <1>2, FaultType DEF TypeOK

LEMMA FileType ==
  ASSUME NEW s \in Sessions, NEW f \in BOOLEAN
  PROVE  File(s, f) \in SUBSET Recovery
  BY DEF File, Recovery

(* A report changes the server within its types. *)
LEMMA FinishType ==
  ASSUME TypeOK, NEW s \in Sessions, NEW r \in Verdicts,
         ServerFinishes(s, r) \/ UNCHANGED serverVars
  PROVE  srv' \in [Sessions -> Stages] /\ verdict' \in [Sessions -> Verdicts]
  BY DEF ServerFinishes, Finish, serverVars, TypeOK, Stages, Verdicts

(* Every step keeps the types. *)
LEMMA TypeStep == IInv /\ [Next]_vars => TypeOK'
<1> SUFFICES ASSUME IInv, [Next]_vars PROVE TypeOK'
  OBVIOUS
<1> USE SessionsAssumption DEF IInv, vars, serverVars, callVars, awaitVars,
         relayVars, boundVars
<1>1. CASE StartCommand
  <2>1. faults' \in 0..MaxFaults /\ crashes' \in 0..MaxCrashes
    BY <1>1, FaultType DEF StartCommand
  <2>2. QED
    BY <1>1, <2>1 DEF StartCommand, Goto, Return, TypeOK, Maybe, ThreadInv
<1>2. CASE StartLock
  BY <1>2 DEF Goto, StartError, StartLock, TypeOK, Maybe, Recovery,
     ThreadInv, Up, Holding
<1>3. CASE SaveRecovery
  <2>1. File(cmd, FALSE) \in SUBSET Recovery
    BY <1>3, FileType DEF SaveRecovery, TypeOK, Maybe, ThreadInv
  <2>2. Writes(File(cmd, FALSE)) \/ WriteFails(File(cmd, FALSE))
    BY <1>3 DEF SaveRecovery
  <2>3. /\ store' \in SUBSET Recovery
        /\ faults' \in 0..MaxFaults /\ crashes' \in 0..MaxCrashes
    BY <2>1, <2>2, WriteType
  <2>4. pending' \in BOOLEAN
    BY <1>3 DEF SaveRecovery, TypeOK
  <2>5. QED
    BY <1>3, <2>3, <2>4 DEF SaveRecovery, Goto, StartError, Writes, WriteFails, TypeOK, Maybe
<1>4. CASE Launch
  BY <1>4 DEF Goto, Launch, Return, TypeOK, Maybe, Recovery, ThreadInv, Up,
     Holding
<1>5. CASE Unlaunch
  <2>1. {} \in SUBSET Recovery
    BY <1>5
  <2>2. Writes({}) \/ WriteFails({})
    BY <1>5 DEF Unlaunch
  <2>3. /\ store' \in SUBSET Recovery
        /\ faults' \in 0..MaxFaults /\ crashes' \in 0..MaxCrashes
    BY <2>1, <2>2, WriteType
  <2>4. pending' \in BOOLEAN
    BY <1>5 DEF Unlaunch, TypeOK
  <2>5. QED
    BY <1>5, <2>3, <2>4 DEF Unlaunch, StartError, Writes, WriteFails, TypeOK, Maybe
<1>6. CASE CancelActive
  BY <1>6 DEF CancelActive, Goto, TypeOK, Maybe, Recovery, ThreadInv, Up,
     Holding
<1>7. CASE CloseReturns
  BY <1>7 DEF CloseReturns, Goto, StartError, TypeOK, Maybe, Recovery,
     ThreadInv, Up, Holding
<1>8. CASE RecordStartFailure
  <2>1. File(cmd, TRUE) \in SUBSET Recovery
    BY <1>8, FileType DEF RecordStartFailure, TypeOK, Maybe, ThreadInv
  <2>2. Writes(File(cmd, TRUE)) \/ WriteFails(File(cmd, TRUE))
    BY <1>8 DEF RecordStartFailure
  <2>3. /\ store' \in SUBSET Recovery
        /\ faults' \in 0..MaxFaults /\ crashes' \in 0..MaxCrashes
    BY <2>1, <2>2, WriteType
  <2>4. pending' \in BOOLEAN
    BY <1>8 DEF RecordStartFailure, TypeOK
  <2>5. QED
    BY <1>8, <2>3, <2>4 DEF RecordStartFailure, Goto, Return, Writes, WriteFails, TypeOK, Maybe
<1>9. CASE ReportStartFailure
  <2>1. faults' \in 0..MaxFaults /\ crashes' \in 0..MaxCrashes
    BY <1>9, FaultType DEF ReportStartFailure
  <2>2. cmd \in Sessions /\ code \in {"refused", "startFailed"}
    BY <1>9 DEF ReportStartFailure, TypeOK, Maybe, ThreadInv
  <2>3. ServerFinishes(cmd, code) \/ UNCHANGED serverVars
    BY <1>9 DEF ReportStartFailure
  <2>4. srv' \in [Sessions -> Stages] /\ verdict' \in [Sessions -> Verdicts]
    BY <2>2, <2>3, FinishType DEF Verdicts
  <2>5. QED
    BY <1>9, <2>1, <2>4 DEF ReportStartFailure, Goto, Return, TypeOK, Maybe,
       Stages, Verdicts
<1>10. CASE ClearStartFailure
  <2>1. {} \in SUBSET Recovery
    BY <1>10
  <2>2. Writes({}) \/ WriteFails({})
    BY <1>10 DEF ClearStartFailure
  <2>3. /\ store' \in SUBSET Recovery
        /\ faults' \in 0..MaxFaults /\ crashes' \in 0..MaxCrashes
    BY <2>1, <2>2, WriteType
  <2>4. pending' \in BOOLEAN
    BY <1>10 DEF ClearStartFailure, TypeOK
  <2>5. QED
    BY <1>10, <2>3, <2>4 DEF ClearStartFailure, Return, Writes, WriteFails, TypeOK, Maybe
<1>11. CASE SessionEnds
  BY <1>11 DEF Completed, ContextError, SessionEnds, TypeOK, Maybe,
     Recovery, ThreadInv, Up, Holding
<1>12. CASE ReportEnd
  <2>1. faults' \in 0..MaxFaults /\ crashes' \in 0..MaxCrashes
    BY <1>12, FaultType DEF ReportEnd
  <2>2. active \in Sessions /\ answer \in Verdicts
    BY <1>12 DEF ReportEnd, TypeOK, Maybe, ThreadInv, Verdicts
  <2>3. ServerFinishes(active, answer) \/ UNCHANGED serverVars
    BY <1>12 DEF ReportEnd
  <2>4. srv' \in [Sessions -> Stages] /\ verdict' \in [Sessions -> Verdicts]
    BY <2>2, <2>3, FinishType
  <2>5. attempts' \in 0..2
    BY <1>12 DEF ReportEnd, Attempts, TypeOK
  <2>6. pending' \in BOOLEAN
    BY <1>12 DEF ReportEnd, TypeOK
  <2>7. await' \in {"report", "clear", "release"}
    BY <1>12 DEF ReportEnd
  <2>8. QED
    BY <1>12, <2>1, <2>4, <2>5, <2>6, <2>7 DEF ReportEnd, TypeOK, Maybe, Stages,
       Verdicts
<1>13. CASE ClearEnd
  <2>1. {} \in SUBSET Recovery
    BY <1>13
  <2>2. Writes({}) \/ WriteFails({})
    BY <1>13 DEF ClearEnd
  <2>3. /\ store' \in SUBSET Recovery
        /\ faults' \in 0..MaxFaults /\ crashes' \in 0..MaxCrashes
    BY <2>1, <2>2, WriteType
  <2>4. pending' \in BOOLEAN
    BY <1>13 DEF ClearEnd, TypeOK
  <2>5. QED
    BY <1>13, <2>3, <2>4 DEF ClearEnd, Writes, WriteFails, TypeOK, Maybe
<1>14. CASE Release
  BY <1>14 DEF Release, TypeOK, Maybe, Recovery, ThreadInv, Up, Holding
<1>15. CASE Boot
  BY <1>15 DEF Boot, TypeOK, Maybe, Recovery, ThreadInv, Up, Holding
<1>16. CASE Recover
  BY <1>16 DEF Fault, Finish, Recover, ServerFinishes, TypeOK, Maybe,
     Recovery, ThreadInv, Up, Holding
<1>17. CASE RecoverClear
  <2>1. {} \in SUBSET Recovery
    BY <1>17
  <2>2. Writes({}) \/ WriteFails({})
    BY <1>17 DEF RecoverClear
  <2>3. /\ store' \in SUBSET Recovery
        /\ faults' \in 0..MaxFaults /\ crashes' \in 0..MaxCrashes
    BY <2>1, <2>2, WriteType
  <2>4. pending' \in BOOLEAN
    BY <1>17 DEF RecoverClear, TypeOK
  <2>5. QED
    BY <1>17, <2>3, <2>4 DEF RecoverClear, Writes, WriteFails, TypeOK, Maybe
<1>18. CASE Shutdown
  BY <1>18 DEF Shutdown, TypeOK, Maybe, Recovery, ThreadInv, Up, Holding
<1>19. CASE Exit
  <2>1. crashes' \in 0..MaxCrashes /\ faults' \in 0..MaxFaults
    BY <1>19 DEF Exit, ProcessEnds, TypeOK, ThreadInv
  <2>2. relay' \in [Sessions -> {"none", "killed", "running", "ending", "gone"}]
    BY <1>19 DEF Exit, ProcessEnds, TypeOK
  <2>3. /\ UNCHANGED <<serverVars, ctx, ended, store>>
        /\ main' = "down" /\ await' = "none" /\ answer' = "none" /\ attempts' = 0
        /\ active' = NoSession /\ pending' = FALSE /\ Return
    BY <1>19 DEF Exit, ProcessEnds
  <2>4. attempts' \in 0..2 /\ UNCHANGED <<srv, verdict, ctx, ended, store>>
    BY <2>3
  <2>5. QED
    BY <2>1, <2>2, <2>3, <2>4 DEF Return, TypeOK, Maybe
<1>20. CASE Crash
  <2>1. crashes' \in 0..MaxCrashes /\ faults' \in 0..MaxFaults
    BY <1>20 DEF Crash, ProcessEnds, TypeOK, ThreadInv
  <2>2. relay' \in [Sessions -> {"none", "killed", "running", "ending", "gone"}]
    BY <1>20 DEF Crash, ProcessEnds, TypeOK
  <2>3. /\ UNCHANGED <<serverVars, ctx, ended, store>>
        /\ main' = "down" /\ await' = "none" /\ answer' = "none" /\ attempts' = 0
        /\ active' = NoSession /\ pending' = FALSE /\ Return
    BY <1>20 DEF Crash, ProcessEnds
  <2>4. attempts' \in 0..2 /\ UNCHANGED <<srv, verdict, ctx, ended, store>>
    BY <2>3
  <2>5. QED
    BY <2>1, <2>2, <2>3, <2>4 DEF Return, TypeOK, Maybe
<1>21. ASSUME NEW s \in Sessions, Dispatch(s) PROVE TypeOK'
  BY <1>21 DEF Dispatch, TypeOK, Maybe, Recovery, ThreadInv, Up, Holding
<1>22. ASSUME NEW s \in Sessions, Expire(s) PROVE TypeOK'
  BY <1>22 DEF Expire, TypeOK, Maybe, Recovery, ThreadInv, Up, Holding
<1>23. ASSUME NEW s \in Sessions, RelayStops(s) PROVE TypeOK'
  BY <1>23 DEF RelayStops, TypeOK, Maybe, Recovery, ThreadInv, Up, Holding
<1>24. ASSUME NEW s \in Sessions, ShellGone(s) PROVE TypeOK'
  BY <1>24 DEF ShellGone, TypeOK, Maybe, Recovery, ThreadInv, Up, Holding
<1>25. ASSUME NEW s \in Sessions, Terminalize(s) PROVE TypeOK'
  BY <1>25 DEF Finish, Terminalize, TypeOK, Maybe, Recovery, ThreadInv, Up,
     Holding
<1>26. CASE UNCHANGED vars
  BY <1>26 DEF TypeOK, Maybe, Recovery, ThreadInv, Up, Holding
<1>27. QED
  BY <1>1, <1>2, <1>3, <1>4, <1>5, <1>6, <1>7, <1>8, <1>9, <1>10, <1>11,
     <1>12, <1>13, <1>14, <1>15, <1>16, <1>17, <1>18, <1>19, <1>20, <1>21,
     <1>22, <1>23, <1>24, <1>25, <1>26 DEF Next, DispatcherStep, AwaitStep,
     MainStep

(* Every step keeps what the threads rely on about each other. *)
LEMMA ThreadStep == IInv /\ [Next]_vars => ThreadInv'
<1> SUFFICES ASSUME IInv, [Next]_vars PROVE ThreadInv'
  OBVIOUS
<1> USE SessionsAssumption DEF IInv, vars, serverVars, callVars, awaitVars,
         relayVars, boundVars
<1>1. CASE StartCommand
  BY <1>1 DEF Fault, Goto, Return, StartCommand, TypeOK, Maybe, ThreadInv,
     Up, Holding, HasShell
<1>2. CASE StartLock
  BY <1>2 DEF Goto, StartError, StartLock, TypeOK, Maybe, ThreadInv, Up,
     Holding, HasShell
<1>3. CASE SaveRecovery
  BY <1>3 DEF Fault, File, Goto, SaveRecovery, StartError, WriteFails,
     Writes, TypeOK, Maybe, ThreadInv, Up, Holding, HasShell
<1>4. CASE Launch
  BY <1>4 DEF Goto, Launch, Return, TypeOK, Maybe, ThreadInv, Up, Holding,
     HasShell
<1>5. CASE Unlaunch
  BY <1>5 DEF Fault, StartError, Unlaunch, WriteFails, Writes, TypeOK,
     Maybe, ThreadInv, Up, Holding, HasShell
<1>6. CASE CancelActive
  BY <1>6 DEF CancelActive, Goto, TypeOK, Maybe, ThreadInv, Up, Holding,
     HasShell
<1>7. CASE CloseReturns
  BY <1>7 DEF CloseReturns, Goto, StartError, TypeOK, Maybe, ThreadInv, Up,
     Holding, HasShell
<1>8. CASE RecordStartFailure
  BY <1>8 DEF Fault, File, Goto, RecordStartFailure, Return, WriteFails,
     Writes, TypeOK, Maybe, ThreadInv, Up, Holding, HasShell
<1>9. CASE ReportStartFailure
  BY <1>9 DEF Fault, Finish, Goto, ReportStartFailure, Return,
     ServerFinishes, TypeOK, Maybe, ThreadInv, Up, Holding, HasShell
<1>10. CASE ClearStartFailure
  BY <1>10 DEF ClearStartFailure, Fault, Return, WriteFails, Writes, TypeOK,
     Maybe, ThreadInv, Up, Holding, HasShell
<1>11. CASE SessionEnds
  BY <1>11 DEF Completed, ContextError, SessionEnds, TypeOK, Maybe,
     ThreadInv, Up, Holding, HasShell
<1>12. CASE ReportEnd
  BY <1>12 DEF Attempts, Fault, Finish, ReportEnd, ServerFinishes, TypeOK,
     Maybe, ThreadInv, Up, Holding, HasShell
<1>13. CASE ClearEnd
  BY <1>13 DEF ClearEnd, Fault, WriteFails, Writes, TypeOK, Maybe,
     ThreadInv, Up, Holding, HasShell
<1>14. CASE Release
  BY <1>14 DEF Release, TypeOK, Maybe, ThreadInv, Up, Holding, HasShell
<1>15. CASE Boot
  BY <1>15 DEF Boot, TypeOK, Maybe, ThreadInv, Up, Holding, HasShell
<1>16. CASE Recover
  BY <1>16 DEF Fault, Finish, Recover, ServerFinishes, TypeOK, Maybe,
     ThreadInv, Up, Holding, HasShell
<1>17. CASE RecoverClear
  BY <1>17 DEF Fault, RecoverClear, WriteFails, Writes, TypeOK, Maybe,
     ThreadInv, Up, Holding, HasShell
<1>18. CASE Shutdown
  BY <1>18 DEF Shutdown, TypeOK, Maybe, ThreadInv, Up, Holding, HasShell
<1>19. CASE Exit
  BY <1>19 DEF Exit, ProcessEnds, Return, TypeOK, Maybe, ThreadInv, Up,
     Holding, HasShell
<1>20. CASE Crash
  BY <1>20 DEF Crash, ProcessEnds, Return, TypeOK, Maybe, ThreadInv, Up,
     Holding, HasShell
<1>21. ASSUME NEW s \in Sessions, Dispatch(s) PROVE ThreadInv'
  BY <1>21 DEF Dispatch, TypeOK, Maybe, ThreadInv, Up, Holding, HasShell
<1>22. ASSUME NEW s \in Sessions, Expire(s) PROVE ThreadInv'
  BY <1>22 DEF Expire, TypeOK, Maybe, ThreadInv, Up, Holding, HasShell
<1>23. ASSUME NEW s \in Sessions, RelayStops(s) PROVE ThreadInv'
  BY <1>23 DEF RelayStops, TypeOK, Maybe, ThreadInv, Up, Holding, HasShell
<1>24. ASSUME NEW s \in Sessions, ShellGone(s) PROVE ThreadInv'
  BY <1>24 DEF ShellGone, TypeOK, Maybe, ThreadInv, Up, Holding, HasShell
<1>25. ASSUME NEW s \in Sessions, Terminalize(s) PROVE ThreadInv'
  BY <1>25 DEF Finish, Terminalize, TypeOK, Maybe, ThreadInv, Up, Holding,
     HasShell
<1>26. CASE UNCHANGED vars
  BY <1>26 DEF TypeOK, Maybe, ThreadInv, Up, Holding, HasShell
<1>27. QED
  BY <1>1, <1>2, <1>3, <1>4, <1>5, <1>6, <1>7, <1>8, <1>9, <1>10, <1>11,
     <1>12, <1>13, <1>14, <1>15, <1>16, <1>17, <1>18, <1>19, <1>20, <1>21,
     <1>22, <1>23, <1>24, <1>25, <1>26 DEF Next, DispatcherStep, AwaitStep,
     MainStep

(* Every step keeps the record of the session the server waits for. *)
LEMMA RecordStep == IInv /\ [Next]_vars => RecordInv'
<1> SUFFICES ASSUME IInv, [Next]_vars PROVE RecordInv'
  OBVIOUS
<1> USE SessionsAssumption DEF IInv, vars, serverVars, callVars, awaitVars,
         relayVars, boundVars
<1>1. CASE StartCommand
  BY <1>1 DEF Fault, Goto, Return, StartCommand, TypeOK, Maybe, Recovery,
     ThreadInv, RecordInv, ShellIsRecorded, Launched, HasShell, Up, Holding,
     Owed
<1>2. CASE StartLock
  BY <1>2 DEF Goto, StartError, StartLock, TypeOK, Maybe, Recovery,
     ThreadInv, RecordInv, ShellIsRecorded, Launched, HasShell, Up, Holding,
     Owed
<1>3. CASE SaveRecovery
  BY <1>3 DEF Fault, File, Goto, SaveRecovery, StartError, WriteFails,
     Writes, TypeOK, Maybe, Recovery, ThreadInv, RecordInv, ShellIsRecorded,
     Launched, HasShell, Up, Holding, Owed
<1>4. CASE Launch
  <2>1. UNCHANGED <<srv, store, main, pending>>
    BY <1>4 DEF Launch
  <2>2. cmd \in Sessions /\ srv[cmd] # "leased" /\ active = cmd /\ UNCHANGED active
        /\ \A s \in Sessions : ~Owed(s)
    BY <1>4 DEF Launch, RecordInv, ThreadInv, TypeOK, Maybe, Holding
  <2>3. CASE relay[cmd] = "none" /\ relay' = [relay EXCEPT ![cmd] = "running"]
             /\ await' = "waiting" /\ Return
    <3>1. \A s \in Sessions : Launched(s)' <=> Launched(s) \/ s = cmd
      BY <2>2, <2>3 DEF Launched, TypeOK
    <3>2. store' = store /\ [session |-> cmd, failure |-> FALSE] \in store
      BY <1>4, <2>1 DEF Launch, RecordInv
    <3>3. QED
      BY <2>1, <2>2, <2>3, <3>1, <3>2 DEF Return, TypeOK, RecordInv,
         ShellIsRecorded, Owed, Holding, Up
  <2>4. CASE /\ \/ UNCHANGED relay
                \/ relay[cmd] = "none" /\ relay' = [relay EXCEPT ![cmd] = "killed"]
             /\ Goto("unlaunch") /\ UNCHANGED await
    <3>1. \A s \in Sessions : Launched(s)' <=> Launched(s)
      BY <2>2, <2>4 DEF Launched, TypeOK
    <3>2. QED
      BY <1>4, <2>1, <2>2, <2>4, <3>1 DEF Launch, Goto, TypeOK, RecordInv,
         ShellIsRecorded, Owed, Holding, Up
  <2>5. QED
    BY <1>4, <2>3, <2>4 DEF Launch
<1>5. CASE Unlaunch
  BY <1>5 DEF Fault, StartError, Unlaunch, WriteFails, Writes, TypeOK,
     Maybe, Recovery, ThreadInv, RecordInv, ShellIsRecorded, Launched,
     HasShell, Up, Holding, Owed
<1>6. CASE CancelActive
  BY <1>6 DEF CancelActive, Goto, TypeOK, Maybe, Recovery, ThreadInv,
     RecordInv, ShellIsRecorded, Launched, HasShell, Up, Holding, Owed
<1>7. CASE CloseReturns
  BY <1>7 DEF CloseReturns, Goto, StartError, TypeOK, Maybe, Recovery,
     ThreadInv, RecordInv, ShellIsRecorded, Launched, HasShell, Up, Holding,
     Owed
<1>8. CASE RecordStartFailure
  BY <1>8 DEF Fault, File, Goto, RecordStartFailure, Return, WriteFails,
     Writes, TypeOK, Maybe, Recovery, ThreadInv, RecordInv, ShellIsRecorded,
     Launched, HasShell, Up, Holding, Owed
<1>9. CASE ReportStartFailure
  BY <1>9 DEF Fault, Finish, Goto, ReportStartFailure, Return,
     ServerFinishes, TypeOK, Maybe, Recovery, ThreadInv, RecordInv,
     ShellIsRecorded, Launched, HasShell, Up, Holding, Owed
<1>10. CASE ClearStartFailure
  BY <1>10 DEF ClearStartFailure, Fault, Return, WriteFails, Writes, TypeOK,
     Maybe, Recovery, ThreadInv, RecordInv, ShellIsRecorded, Launched,
     HasShell, Up, Holding, Owed
<1>11. CASE SessionEnds
  BY <1>11 DEF Completed, ContextError, SessionEnds, TypeOK, Maybe,
     Recovery, ThreadInv, RecordInv, ShellIsRecorded, Launched, HasShell,
     Up, Holding, Owed
<1>12. CASE ReportEnd
  BY <1>12 DEF Attempts, Fault, Finish, ReportEnd, ServerFinishes, TypeOK,
     Maybe, Recovery, ThreadInv, RecordInv, ShellIsRecorded, Launched,
     HasShell, Up, Holding, Owed
<1>13. CASE ClearEnd
  BY <1>13 DEF ClearEnd, Fault, WriteFails, Writes, TypeOK, Maybe, Recovery,
     ThreadInv, RecordInv, ShellIsRecorded, Launched, HasShell, Up, Holding,
     Owed
<1>14. CASE Release
  BY <1>14 DEF Release, TypeOK, Maybe, Recovery, ThreadInv, RecordInv,
     ShellIsRecorded, Launched, HasShell, Up, Holding, Owed
<1>15. CASE Boot
  BY <1>15 DEF Boot, TypeOK, Maybe, Recovery, ThreadInv, RecordInv,
     ShellIsRecorded, Launched, HasShell, Up, Holding, Owed
<1>16. CASE Recover
  BY <1>16 DEF Fault, Finish, Recover, ServerFinishes, TypeOK, Maybe,
     Recovery, ThreadInv, RecordInv, ShellIsRecorded, Launched, HasShell,
     Up, Holding, Owed
<1>17. CASE RecoverClear
  BY <1>17 DEF Fault, RecoverClear, WriteFails, Writes, TypeOK, Maybe,
     Recovery, ThreadInv, RecordInv, ShellIsRecorded, Launched, HasShell,
     Up, Holding, Owed
<1>18. CASE Shutdown
  BY <1>18 DEF Shutdown, TypeOK, Maybe, Recovery, ThreadInv, RecordInv,
     ShellIsRecorded, Launched, HasShell, Up, Holding, Owed
<1>19. CASE Exit
  BY <1>19 DEF Exit, ProcessEnds, Return, TypeOK, Maybe, Recovery,
     ThreadInv, RecordInv, ShellIsRecorded, Launched, HasShell, Up, Holding,
     Owed
<1>20. CASE Crash
  BY <1>20 DEF Crash, ProcessEnds, Return, TypeOK, Maybe, Recovery,
     ThreadInv, RecordInv, ShellIsRecorded, Launched, HasShell, Up, Holding,
     Owed
<1>21. ASSUME NEW s \in Sessions, Dispatch(s) PROVE RecordInv'
  BY <1>21 DEF Dispatch, TypeOK, Maybe, Recovery, ThreadInv, RecordInv,
     ShellIsRecorded, Launched, HasShell, Up, Holding, Owed
<1>22. ASSUME NEW s \in Sessions, Expire(s) PROVE RecordInv'
  BY <1>22 DEF Expire, TypeOK, Maybe, Recovery, ThreadInv, RecordInv,
     ShellIsRecorded, Launched, HasShell, Up, Holding, Owed
<1>23. ASSUME NEW s \in Sessions, RelayStops(s) PROVE RecordInv'
  BY <1>23 DEF RelayStops, TypeOK, Maybe, Recovery, ThreadInv, RecordInv,
     ShellIsRecorded, Launched, HasShell, Up, Holding, Owed
<1>24. ASSUME NEW s \in Sessions, ShellGone(s) PROVE RecordInv'
  BY <1>24 DEF ShellGone, TypeOK, Maybe, Recovery, ThreadInv, RecordInv,
     ShellIsRecorded, Launched, HasShell, Up, Holding, Owed
<1>25. ASSUME NEW s \in Sessions, Terminalize(s) PROVE RecordInv'
  BY <1>25 DEF Finish, Terminalize, TypeOK, Maybe, Recovery, ThreadInv,
     RecordInv, ShellIsRecorded, Launched, HasShell, Up, Holding, Owed
<1>26. CASE UNCHANGED vars
  BY <1>26 DEF TypeOK, Maybe, Recovery, ThreadInv, RecordInv,
     ShellIsRecorded, Launched, HasShell, Up, Holding, Owed
<1>27. QED
  BY <1>1, <1>2, <1>3, <1>4, <1>5, <1>6, <1>7, <1>8, <1>9, <1>10, <1>11,
     <1>12, <1>13, <1>14, <1>15, <1>16, <1>17, <1>18, <1>19, <1>20, <1>21,
     <1>22, <1>23, <1>24, <1>25, <1>26 DEF Next, DispatcherStep, AwaitStep,
     MainStep

(* Every step reports only what happened. *)
LEMMA VerdictStep == IInv /\ [Next]_vars => VerdictInv'
<1> SUFFICES ASSUME IInv, [Next]_vars PROVE VerdictInv'
  OBVIOUS
<1> USE SessionsAssumption DEF IInv, vars, serverVars, callVars, awaitVars,
         relayVars, boundVars
<1>1. CASE StartCommand
  BY <1>1 DEF Fault, Goto, Return, StartCommand, TypeOK, Maybe, Recovery,
     ThreadInv, RecordInv, ShellIsRecorded, VerdictInv, TruthfulEnd,
     Launched, HasShell, Up, Holding, Owed
<1>2. CASE StartLock
  BY <1>2 DEF Goto, StartError, StartLock, TypeOK, Maybe, Recovery,
     ThreadInv, RecordInv, ShellIsRecorded, VerdictInv, TruthfulEnd,
     Launched, HasShell, Up, Holding, Owed
<1>3. CASE SaveRecovery
  BY <1>3 DEF Fault, File, Goto, SaveRecovery, StartError, WriteFails,
     Writes, TypeOK, Maybe, Recovery, ThreadInv, RecordInv, ShellIsRecorded,
     VerdictInv, TruthfulEnd, Launched, HasShell, Up, Holding, Owed
<1>4. CASE Launch
  BY <1>4 DEF Goto, Launch, Return, TypeOK, Maybe, Recovery, ThreadInv,
     RecordInv, ShellIsRecorded, VerdictInv, TruthfulEnd, Launched,
     HasShell, Up, Holding, Owed
<1>5. CASE Unlaunch
  BY <1>5 DEF Fault, StartError, Unlaunch, WriteFails, Writes, TypeOK,
     Maybe, Recovery, ThreadInv, RecordInv, ShellIsRecorded, VerdictInv,
     TruthfulEnd, Launched, HasShell, Up, Holding, Owed
<1>6. CASE CancelActive
  BY <1>6 DEF CancelActive, Goto, TypeOK, Maybe, Recovery, ThreadInv,
     RecordInv, ShellIsRecorded, VerdictInv, TruthfulEnd, Launched,
     HasShell, Up, Holding, Owed
<1>7. CASE CloseReturns
  BY <1>7 DEF CloseReturns, Goto, StartError, TypeOK, Maybe, Recovery,
     ThreadInv, RecordInv, ShellIsRecorded, VerdictInv, TruthfulEnd,
     Launched, HasShell, Up, Holding, Owed
<1>8. CASE RecordStartFailure
  BY <1>8 DEF Fault, File, Goto, RecordStartFailure, Return, WriteFails,
     Writes, TypeOK, Maybe, Recovery, ThreadInv, RecordInv, ShellIsRecorded,
     VerdictInv, TruthfulEnd, Launched, HasShell, Up, Holding, Owed
<1>9. CASE ReportStartFailure
  BY <1>9 DEF Fault, Finish, Goto, ReportStartFailure, Return,
     ServerFinishes, TypeOK, Maybe, Recovery, ThreadInv, RecordInv,
     ShellIsRecorded, VerdictInv, TruthfulEnd, Launched, HasShell, Up,
     Holding, Owed
<1>10. CASE ClearStartFailure
  BY <1>10 DEF ClearStartFailure, Fault, Return, WriteFails, Writes, TypeOK,
     Maybe, Recovery, ThreadInv, RecordInv, ShellIsRecorded, VerdictInv,
     TruthfulEnd, Launched, HasShell, Up, Holding, Owed
<1>11. CASE SessionEnds
  BY <1>11 DEF Completed, ContextError, SessionEnds, TypeOK, Maybe,
     Recovery, ThreadInv, RecordInv, ShellIsRecorded, VerdictInv,
     TruthfulEnd, Launched, HasShell, Up, Holding, Owed
<1>12. CASE ReportEnd
  BY <1>12 DEF Attempts, Fault, Finish, ReportEnd, ServerFinishes, TypeOK,
     Maybe, Recovery, ThreadInv, RecordInv, ShellIsRecorded, VerdictInv,
     TruthfulEnd, Launched, HasShell, Up, Holding, Owed
<1>13. CASE ClearEnd
  BY <1>13 DEF ClearEnd, Fault, WriteFails, Writes, TypeOK, Maybe, Recovery,
     ThreadInv, RecordInv, ShellIsRecorded, VerdictInv, TruthfulEnd,
     Launched, HasShell, Up, Holding, Owed
<1>14. CASE Release
  BY <1>14 DEF Release, TypeOK, Maybe, Recovery, ThreadInv, RecordInv,
     ShellIsRecorded, VerdictInv, TruthfulEnd, Launched, HasShell, Up,
     Holding, Owed
<1>15. CASE Boot
  BY <1>15 DEF Boot, TypeOK, Maybe, Recovery, ThreadInv, RecordInv,
     ShellIsRecorded, VerdictInv, TruthfulEnd, Launched, HasShell, Up,
     Holding, Owed
<1>16. CASE Recover
  BY <1>16 DEF Fault, Finish, Recover, ServerFinishes, TypeOK, Maybe,
     Recovery, ThreadInv, RecordInv, ShellIsRecorded, VerdictInv,
     TruthfulEnd, Launched, HasShell, Up, Holding, Owed
<1>17. CASE RecoverClear
  BY <1>17 DEF Fault, RecoverClear, WriteFails, Writes, TypeOK, Maybe,
     Recovery, ThreadInv, RecordInv, ShellIsRecorded, VerdictInv,
     TruthfulEnd, Launched, HasShell, Up, Holding, Owed
<1>18. CASE Shutdown
  BY <1>18 DEF Shutdown, TypeOK, Maybe, Recovery, ThreadInv, RecordInv,
     ShellIsRecorded, VerdictInv, TruthfulEnd, Launched, HasShell, Up,
     Holding, Owed
<1>19. CASE Exit
  BY <1>19 DEF Exit, ProcessEnds, Return, TypeOK, Maybe, Recovery,
     ThreadInv, RecordInv, ShellIsRecorded, VerdictInv, TruthfulEnd,
     Launched, HasShell, Up, Holding, Owed
<1>20. CASE Crash
  BY <1>20 DEF Crash, ProcessEnds, Return, TypeOK, Maybe, Recovery,
     ThreadInv, RecordInv, ShellIsRecorded, VerdictInv, TruthfulEnd,
     Launched, HasShell, Up, Holding, Owed
<1>21. ASSUME NEW s \in Sessions, Dispatch(s) PROVE VerdictInv'
  BY <1>21 DEF Dispatch, TypeOK, Maybe, Recovery, ThreadInv, RecordInv,
     ShellIsRecorded, VerdictInv, TruthfulEnd, Launched, HasShell, Up,
     Holding, Owed
<1>22. ASSUME NEW s \in Sessions, Expire(s) PROVE VerdictInv'
  BY <1>22 DEF Expire, TypeOK, Maybe, Recovery, ThreadInv, RecordInv,
     ShellIsRecorded, VerdictInv, TruthfulEnd, Launched, HasShell, Up,
     Holding, Owed
<1>23. ASSUME NEW s \in Sessions, RelayStops(s) PROVE VerdictInv'
  BY <1>23 DEF RelayStops, TypeOK, Maybe, Recovery, ThreadInv, RecordInv,
     ShellIsRecorded, VerdictInv, TruthfulEnd, Launched, HasShell, Up,
     Holding, Owed
<1>24. ASSUME NEW s \in Sessions, ShellGone(s) PROVE VerdictInv'
  BY <1>24 DEF ShellGone, TypeOK, Maybe, Recovery, ThreadInv, RecordInv,
     ShellIsRecorded, VerdictInv, TruthfulEnd, Launched, HasShell, Up,
     Holding, Owed
<1>25. ASSUME NEW s \in Sessions, Terminalize(s) PROVE VerdictInv'
  BY <1>25 DEF Finish, Terminalize, TypeOK, Maybe, Recovery, ThreadInv,
     RecordInv, ShellIsRecorded, VerdictInv, TruthfulEnd, Launched,
     HasShell, Up, Holding, Owed
<1>26. CASE UNCHANGED vars
  BY <1>26 DEF TypeOK, Maybe, Recovery, ThreadInv, RecordInv,
     ShellIsRecorded, VerdictInv, TruthfulEnd, Launched, HasShell, Up,
     Holding, Owed
<1>27. QED
  BY <1>1, <1>2, <1>3, <1>4, <1>5, <1>6, <1>7, <1>8, <1>9, <1>10, <1>11,
     <1>12, <1>13, <1>14, <1>15, <1>16, <1>17, <1>18, <1>19, <1>20, <1>21,
     <1>22, <1>23, <1>24, <1>25, <1>26 DEF Next, DispatcherStep, AwaitStep,
     MainStep

(* A new host. *)
LEMMA InitInvariant == Init => IInv
<1> SUFFICES ASSUME Init PROVE IInv
  OBVIOUS
<1> USE SessionsAssumption DEF Init
<1>1. 0 \in 0..MaxFaults /\ 0 \in 0..MaxCrashes /\ 0 \in 0..2
  OBVIOUS
<1>2. TypeOK
  BY <1>1 DEF TypeOK, Maybe
<1>3. ThreadInv
  BY DEF ThreadInv, Up, Holding, HasShell
<1>4. RecordInv
  BY DEF RecordInv, ShellIsRecorded, Launched, Owed, Holding, Up
<1>5. VerdictInv
  BY DEF VerdictInv, TruthfulEnd, Launched, HasShell
<1>6. QED
  BY <1>2, <1>3, <1>4, <1>5 DEF IInv

(* The inductive invariant of the four threads, the record and the server. *)
THEOREM Invariance == Spec => []IInv
<1>1. IInv /\ [Next]_vars => IInv'
  BY TypeStep, ThreadStep, RecordStep, VerdictStep DEF IInv
<1>2. QED
  BY <1>1, InitInvariant, PTL DEF Spec

(* The record of a session that got its shell is on disk until the server
   knows how the session ended (manager.go:87-131, 217-231). *)
THEOREM Recorded == Spec => []ShellIsRecorded
<1>1. IInv => ShellIsRecorded
  BY DEF IInv, RecordInv
<1>2. QED
  BY <1>1, Invariance, PTL

(* The server is told no end of a session that did not happen
   (manager.go:233-265, command_dispatcher.go:421-452). *)
THEOREM Truthful == Spec => []TruthfulEnd
<1>1. IInv => TruthfulEnd
  BY DEF IInv, VerdictInv
<1>2. QED
  BY <1>1, Invariance, PTL

(* One goroutine holds the lock, and no other session has a shell with a live
   context (manager.go:70-134, 176-231). *)
THEOREM LockOwned == Spec => []LockIsOwned
<1>1. IInv => LockIsOwned
  BY SessionsAssumption DEF IInv, TypeOK, ThreadInv, LockIsOwned, Holding
<1>2. QED
  BY <1>1, Invariance, PTL

-----------------------------------------------------------------------------
(* The refinement of TerminalSession.                                      *)

shells == [s \in Sessions |-> Shell(s)]
promiseVars == <<shells, verdict>>

(* A step that changes no shell and no verdict is none. *)
LEMMA Stutter ==
  ASSUME UNCHANGED <<verdict, relay, ended, ctx>>
  PROVE  [Promise!Next]_promiseVars
  BY DEF promiseVars, shells, Shell, HasShell

(* A verdict the server takes is justified by the shell. *)
LEMMA VerdictRefines ==
  ASSUME TypeOK, VerdictInv, TruthfulEnd', NEW s \in Sessions, NEW r \in Verdicts \ {"none"},
         \/ verdict' = verdict
         \/ srv[s] # "done" /\ verdict' = [verdict EXCEPT ![s] = r],
         UNCHANGED <<relay, ended, ctx>>
  PROVE  [Promise!Next]_promiseVars
<1>1. CASE verdict' = verdict
  BY <1>1, Stutter
<1>2. CASE srv[s] # "done" /\ verdict' = [verdict EXCEPT ![s] = r]
  <2>1. verdict[s] = "none" /\ verdict'[s] = r
    BY <1>2 DEF TypeOK, VerdictInv
  <2>2. shells' = shells
    BY DEF shells, Shell, HasShell
  <2>3. Promise!Justified(s, r)
    BY <2>1, SessionsAssumption DEF TruthfulEnd, Promise!Justified, Shell, HasShell, Launched,
       Promise!Running, Promise!Dead, Promise!Unborn, TypeOK
  <2>4. r \in {"closed", "failed", "timeout", "startFailed", "interrupted",
               "refused", "cancelled"}
    BY DEF Verdicts
  <2>5. Promise!Decide(s)
    BY <1>2, <2>1, <2>2, <2>3, <2>4 DEF Promise!Decide, shells
  <2>6. QED
    BY <2>5 DEF Promise!Next
<1>3. QED
  BY <1>1, <1>2

(* The end of a context stops a shell that has one. *)
LEMMA StopRefines ==
  ASSUME IInv, NEW s \in Sessions, NEW c \in {"cancelled", "expired"},
         ctx' = [ctx EXCEPT ![s] = IF @ = "live" THEN c ELSE @],
         UNCHANGED <<verdict, relay, ended>>
  PROVE  [Promise!Next]_promiseVars
<1>1. CASE HasShell(s) /\ ctx[s] = "live"
  <2>1. shells[s] = "live" /\ shells' = [shells EXCEPT ![s] = "stopping"]
    BY <1>1 DEF shells, Shell, HasShell, IInv, TypeOK
  <2>2. Promise!Stop(s)
    BY <2>1 DEF Promise!Stop, shells
  <2>3. QED
    BY <2>2 DEF Promise!Next
<1>2. CASE ~(HasShell(s) /\ ctx[s] = "live")
  <2>1. shells' = shells
    BY <1>2 DEF shells, Shell, HasShell, IInv, TypeOK
  <2>2. QED
    BY <2>1 DEF promiseVars
<1>3. QED
  BY <1>1, <1>2

(* What becomes of a new shell. *)
LEMMA LaunchRefines ==
  ASSUME IInv, Launch
  PROVE  [Promise!Next]_promiseVars
<1>1. cmd \in Sessions /\ active = cmd /\ main = "up" /\ await = "none"
      /\ UNCHANGED <<verdict, ctx, ended>>
  BY DEF Launch, IInv, ThreadInv, TypeOK, Maybe, Holding, serverVars
<1>2. CASE relay[cmd] = "none" /\ relay' = [relay EXCEPT ![cmd] = "running"]
  <2>1. ctx[cmd] = "live"
    BY <1>1, <1>2 DEF IInv, VerdictInv, Launched, TypeOK
  <2>2. shells[cmd] = "none" /\ shells' = [shells EXCEPT ![cmd] = "live"]
    BY <1>1, <1>2, <2>1 DEF shells, Shell, HasShell, IInv, TypeOK
  <2>3. \A t \in Sessions : shells[t] # "live"
    BY <1>1 DEF shells, Shell, HasShell, IInv, ThreadInv
  <2>4. verdict[cmd] \in {"none", "cancelled"}
    BY <1>1, <1>2 DEF Launch, IInv, VerdictInv, TruthfulEnd, Launched
  <2>5. Promise!Open(cmd)
    BY <1>1, <2>2, <2>3, <2>4 DEF Promise!Open, shells
  <2>6. QED
    BY <1>1, <2>5 DEF Promise!Next
<1>3. CASE relay[cmd] = "none" /\ relay' = [relay EXCEPT ![cmd] = "killed"]
  <2>1. shells[cmd] = "none" /\ shells' = [shells EXCEPT ![cmd] = "stillborn"]
    BY <1>1, <1>3 DEF shells, Shell, HasShell, IInv, TypeOK
  <2>2. Promise!Miscarry(cmd)
    BY <1>1, <2>1 DEF Promise!Miscarry, shells
  <2>3. QED
    BY <1>1, <2>2 DEF Promise!Next
<1>4. CASE UNCHANGED relay
  BY <1>1, <1>4, Stutter
<1>5. QED
  BY <1>2, <1>3, <1>4 DEF Launch

(* The shell of one session is gone; those of all are. *)
LEMMA GoneRefines ==
  ASSUME IInv, NEW s \in Sessions, ShellGone(s)
  PROVE  [Promise!Next]_promiseVars
<1>1. shells[s] \in Promise!Running
  BY DEF shells, Shell, HasShell, ShellGone, Promise!Running
<1>2. shells' = [shells EXCEPT ![s] = IF ended[s] = "ok" THEN "left" ELSE "lost"]
  BY DEF shells, Shell, HasShell, ShellGone, IInv, TypeOK
<1>3. Promise!Die(s)
  BY <1>1, <1>2 DEF Promise!Die, shells, Promise!Dead, ShellGone, serverVars
<1>4. QED
  BY <1>3 DEF Promise!Next

LEMMA EndRefines ==
  ASSUME IInv, ProcessEnds
  PROVE  [Promise!Next]_promiseVars
<1> DEFINE how == [s \in Sessions |-> IF ended[s] = "ok" THEN "left" ELSE "lost"]
<1>1. how \in [Sessions -> Promise!Dead]
  BY DEF Promise!Dead
<1>2. shells' = [s \in Sessions |-> IF shells[s] \in Promise!Running THEN how[s] ELSE shells[s]]
  <2>1. ASSUME NEW s \in Sessions
        PROVE  Shell(s)' = IF Shell(s) \in Promise!Running THEN how[s] ELSE Shell(s)
    BY DEF Shell, HasShell, ProcessEnds, IInv, TypeOK, Promise!Running
  <2>2. QED
    BY <2>1 DEF shells
<1>3. Promise!DieTogether
  BY <1>1, <1>2 DEF Promise!DieTogether, shells, ProcessEnds, serverVars
<1>4. QED
  BY <1>3 DEF Promise!Next

(* Every step of the manager is a step of TerminalSession or none. *)
LEMMA StepRefines ==
  ASSUME IInv, IInv', [Next]_vars
  PROVE  [Promise!Next]_promiseVars
<1> USE DEF vars, relayVars
<1>1. TypeOK /\ VerdictInv /\ TruthfulEnd'
  BY DEF IInv, VerdictInv
<1>2. CASE \/ StartCommand \/ StartLock \/ SaveRecovery \/ Unlaunch \/ CloseReturns
           \/ RecordStartFailure \/ ClearStartFailure \/ SessionEnds \/ ClearEnd
           \/ Release \/ Boot \/ RecoverClear \/ UNCHANGED vars
  BY <1>2, Stutter DEF StartCommand, StartLock, SaveRecovery, Unlaunch, CloseReturns,
     RecordStartFailure, ClearStartFailure, SessionEnds, ClearEnd, Release, Boot,
     RecoverClear, serverVars
<1>3. CASE \E s \in Sessions : Dispatch(s)
  BY <1>3, Stutter DEF Dispatch, serverVars
<1>4. CASE Launch
  BY <1>4, LaunchRefines
<1>5. CASE CancelActive \/ Shutdown
  <2>1. UNCHANGED <<verdict, relay, ended>>
    BY <1>5 DEF CancelActive, Shutdown, serverVars
  <2>2. CASE active = NoSession
    BY <1>5, <2>1, <2>2, Stutter DEF CancelActive, Shutdown
  <2>3. CASE active # NoSession
    <3>1. active \in Sessions
      BY <1>1, <2>3 DEF TypeOK, Maybe
    <3>2. ctx' = [ctx EXCEPT ![active] = IF @ = "live" THEN "cancelled" ELSE @]
      BY <1>5, <2>3 DEF CancelActive, Shutdown
    <3>3. QED
      BY <2>1, <3>1, <3>2, StopRefines
  <2>4. QED
    BY <2>2, <2>3
<1>6. ASSUME NEW s \in Sessions, Expire(s) PROVE [Promise!Next]_promiseVars
  <2>1. ctx' = [ctx EXCEPT ![s] = IF @ = "live" THEN "expired" ELSE @]
        /\ UNCHANGED <<verdict, relay, ended>>
    BY <1>6, <1>1 DEF Expire, TypeOK, serverVars
  <2>2. QED
    BY <2>1, StopRefines
<1>7. ASSUME NEW s \in Sessions, RelayStops(s) PROVE [Promise!Next]_promiseVars
  <2>1. shells' = shells /\ verdict' = verdict
    BY <1>7, <1>1 DEF RelayStops, serverVars, shells, Shell, HasShell, TypeOK
  <2>2. QED
    BY <2>1 DEF promiseVars
<1>8. ASSUME NEW s \in Sessions, ShellGone(s) PROVE [Promise!Next]_promiseVars
  BY <1>8, GoneRefines
<1>9. CASE Exit \/ Crash
  BY <1>9, EndRefines DEF Exit, Crash
<1>10. CASE ReportStartFailure
  <2>1. cmd \in Sessions /\ code \in Verdicts \ {"none"}
    BY <1>10 DEF ReportStartFailure, IInv, ThreadInv, TypeOK, Maybe, Verdicts
  <2>2. \/ verdict' = verdict
        \/ srv[cmd] # "done" /\ verdict' = [verdict EXCEPT ![cmd] = code]
    BY <1>10 DEF ReportStartFailure, ServerFinishes, Finish, serverVars
  <2>3. UNCHANGED <<relay, ended, ctx>>
    BY <1>10 DEF ReportStartFailure
  <2>4. QED
    BY <1>1, <2>1, <2>2, <2>3, VerdictRefines
<1>11. CASE ReportEnd
  <2>1. active \in Sessions /\ answer \in Verdicts \ {"none"}
    BY <1>11 DEF ReportEnd, IInv, ThreadInv, VerdictInv, TypeOK, Maybe, Verdicts
  <2>2. \/ verdict' = verdict
        \/ srv[active] # "done" /\ verdict' = [verdict EXCEPT ![active] = answer]
    BY <1>11 DEF ReportEnd, ServerFinishes, Finish, serverVars
  <2>3. UNCHANGED <<relay, ended, ctx>>
    BY <1>11 DEF ReportEnd
  <2>4. QED
    BY <1>1, <2>1, <2>2, <2>3, VerdictRefines
<1>12. CASE Recover
  <2>1. PICK rec \in store, r \in {"startFailed", "interrupted"} :
          \/ verdict' = verdict
          \/ srv[rec.session] # "done" /\ verdict' = [verdict EXCEPT ![rec.session] = r]
    BY <1>12 DEF Recover, ServerFinishes, Finish, serverVars
  <2>2. rec.session \in Sessions /\ r \in Verdicts \ {"none"}
    BY <1>1, <2>1 DEF TypeOK, Recovery, Verdicts
  <2>3. UNCHANGED <<relay, ended, ctx>>
    BY <1>12 DEF Recover
  <2>4. QED
    BY <1>1, <2>1, <2>2, <2>3, VerdictRefines
<1>13. ASSUME NEW s \in Sessions, Terminalize(s) PROVE [Promise!Next]_promiseVars
  BY <1>13, <1>1, VerdictRefines DEF Terminalize, Finish, Verdicts
<1>14. QED
  BY <1>2, <1>3, <1>4, <1>5, <1>6, <1>7, <1>8, <1>9, <1>10, <1>11, <1>12, <1>13
     DEF Next, DispatcherStep, AwaitStep, MainStep

(* The manager keeps the promise about every shell and every verdict
   (manager.go:70-265). *)
THEOREM Refinement == Spec => ImplementsSession
<1>1. Init => Promise!Init
  BY DEF Init, Promise!Init, Shell, HasShell
<1>2. IInv /\ IInv' /\ [Next]_vars => [Promise!Next]_promiseVars
  BY StepRefines
<1>3. QED
  BY <1>1, <1>2, Invariance, PTL DEF Spec, ImplementsSession, Promise!Spec,
     promiseVars, shells

=============================================================================
