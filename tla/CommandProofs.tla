--------------------------- MODULE CommandProofs ---------------------------
(***************************************************************************)
(* Proofs about CommandDispatcher and AgentCommandLoop, for every value of *)
(* their constants:                                                        *)
(*   - TypeOK is inductive by itself;                                      *)
(*   - IInv adds what the record on disk means (StoreInv), what a running  *)
(*     call knows at each stage (CallInv), which operations may be under   *)
(*     way (ExecutionInv), and the two properties that concern the server  *)
(*     (VerdictInv); it is kept by each action, one lemma for each;        *)
(*   - the safety properties follow from IInv, and so does the refinement  *)
(*     of OnceCommand, step by step;                                       *)
(*   - the loop only takes steps the open dispatcher allows, so IInv       *)
(*     carries over; LoopInv adds what the loop knows about the store      *)
(*     between two calls.                                                  *)
(***************************************************************************)
EXTENDS AgentCommandLoop, TLAPS

-----------------------------------------------------------------------------
(* The dispatcher.                                                         *)

(* Type correctness. *)

(* A fault is counted up to its bound and no further. *)
LEMMA FaultType ==
  ASSUME faults \in 0..MaxFaults, crashes \in 0..MaxCrashes, Fault \/ UNCHANGED boundVars
  PROVE  faults' \in 0..MaxFaults /\ crashes' \in 0..MaxCrashes
BY ConstantsAssumption DEF Fault, boundVars

(* What Save leaves behind is a well-formed record. *)
LEMMA FileType ==
  ASSUME NEW l \in Lease, NEW r \in Results \cup {"none"}
  PROVE  File(l, r) \in SUBSET Record
BY DEF File, Record

(* Every step of the dispatcher, the server or a crash keeps the types. *)
LEMMA TypeStep ==
  ASSUME TypeOK, [Next]_vars
  PROVE  TypeOK'
<1>b. Fault \/ UNCHANGED boundVars => faults' \in 0..MaxFaults /\ crashes' \in 0..MaxCrashes
  BY FaultType DEF TypeOK
<1>c. \A l \in Lease, r \in Results \cup {"none"} : File(l, r) \in SUBSET Record
  BY FileType
<1>d. \A rec \in store : rec.lease \in Lease /\ rec.result \in Results \cup {"none"}
  BY DEF Record, TypeOK
<1>1. ASSUME NEW c \in Commands, GrantLease(c) PROVE TypeOK'
  BY <1>b, <1>1, ConstantsAssumption DEF GrantLease, callVars, historyVars,
     TypeOK
<1>2. ASSUME NEW c \in Commands, Terminalize(c) PROVE TypeOK'
  BY <1>b, <1>2 DEF Terminalize, callVars, historyVars, TypeOK
<1>3. ASSUME NEW l \in Lease, Dispatch(l) PROVE TypeOK'
  BY <1>b, <1>d, <1>3 DEF Dispatch, Enter, ResumeRecord, Refuse, LoadFails,
     serverVars, historyVars, Stages, TypeOK
<1>4. CASE RetryPending
  BY <1>b, <1>d, <1>4 DEF RetryPending, Enter, ResumeRecord, Refuse,
     LoadFails, serverVars, historyVars, Stages, TypeOK
<1>5. CASE StartCommand
  BY <1>b, <1>5 DEF StartCommand, ServerStarts, Goto, Return, serverVars,
     historyVars, Stages, TypeOK
<1>6. CASE SaveStart
  BY <1>b, <1>c, <1>6 DEF SaveStart, SaveSucceeds, SaveFails, Goto, Return,
     serverVars, historyVars, Stages, TypeOK
<1>7. CASE ReportProgress
  BY <1>b, <1>7 DEF ReportProgress, Goto, Return, serverVars, historyVars,
     Stages, TypeOK
<1>8. CASE Execute
  BY <1>b, <1>8 DEF Execute, Goto, serverVars, Results, Outcomes, Stages,
     TypeOK
<1>9. ASSUME NEW r \in Outcomes, Complete(r) PROVE TypeOK'
  BY <1>b, <1>9 DEF Complete, Goto, serverVars, Results, Stages, TypeOK
<1>10. CASE SaveResult
  BY <1>b, <1>c, <1>10 DEF SaveResult, SaveSucceeds, SaveFails, Goto, Return,
     serverVars, Stages, TypeOK
<1>11. CASE SaveUnknown
  BY <1>b, <1>c, <1>11 DEF SaveUnknown, SaveSucceeds, SaveFails, Goto, Return,
     serverVars, historyVars, Results, Stages, TypeOK
<1>12. CASE Report
  <2>1. /\ server'  \in [Commands -> {"queued", "leased", "running", "done"}]
        /\ lease'   \in [Commands -> 0..MaxLeases]
    BY <1>12 DEF Report, ServerFinishes, serverVars, TypeOK
  <2>2. verdict' \in [Commands -> Results \cup {"none", "cancelled"}]
    <3>2. CASE verdict' = verdict
      BY <3>2 DEF TypeOK
    <3>3. CASE verdict' = [verdict EXCEPT ![cur.cmd] = result]
      BY <3>3 DEF TypeOK
    <3>4. QED
      BY <1>12, <3>2, <3>3 DEF Report, ServerFinishes, serverVars
  <2>3. /\ UNCHANGED <<store, historyVars>>
        /\ faults' \in 0..MaxFaults /\ crashes' \in 0..MaxCrashes
    BY <1>12, <1>b DEF Report
  <2>4. /\ pc' \in Stages /\ result' \in Results \cup {"none"}
        /\ cur' \in Lease \cup {NoLease} /\ (pc' # "idle" => cur' \in Lease)
        /\ resumed' \in BOOLEAN /\ failed' \in BOOLEAN
    BY <1>12 DEF Report, Goto, Return, Stages, TypeOK
  <2>5. QED
    BY <2>1, <2>2, <2>3, <2>4 DEF historyVars, TypeOK
<1>13. CASE Clear
  BY <1>b, <1>13 DEF Clear, Return, serverVars, historyVars, Stages, TypeOK
<1>15. CASE Crash
  <2>1. crashes' \in 0..MaxCrashes /\ faults' = faults
    BY <1>15, ConstantsAssumption DEF Crash, TypeOK
  <2>3. QED
    BY <1>15, <2>1 DEF Crash, Return, serverVars, Stages, TypeOK
<1>16. CASE UNCHANGED vars
  BY <1>16 DEF vars, serverVars, callVars, historyVars, boundVars, TypeOK
<1>17. QED
  BY <1>1, <1>2, <1>3, <1>4, <1>5, <1>6, <1>7, <1>8, <1>9, <1>10, <1>11,
     <1>12, <1>13, <1>15, <1>16 DEF Next, ServerStep, CallStep

----------------------------------------------------------------------------
(* The file and the leases. *)

(* The file identifies its record. *)
LEMMA FileInjective ==
  ASSUME NEW l, NEW m, NEW r, NEW q, File(l, r) = File(m, q)
  PROVE  l = m /\ r = q
<1>2. [lease |-> l, result |-> r] = [lease |-> m, result |-> q]
  BY DEF File
<1>3. [lease |-> l, result |-> r].lease = [lease |-> m, result |-> q].lease
      /\ [lease |-> l, result |-> r].result = [lease |-> m, result |-> q].result
  BY <1>2
<1> QED
  BY <1>3

(* The file holds its record and no other. *)
LEMMA FileHolds ==
  ASSUME NEW l, NEW r
  PROVE  /\ \E rec \in File(l, r) : rec.lease = l /\ rec.result = r
         /\ \A rec \in File(l, r) : rec.lease = l /\ rec.result = r
BY DEF File

(* A lease is its command and its token. *)
LEMMA LeaseExtensional ==
  ASSUME NEW l \in Lease, NEW m \in Lease, l.cmd = m.cmd, l.token = m.token
  PROVE  l = m
BY DEF Lease

----------------------------------------------------------------------------
(* Each action keeps the inductive invariant. *)

(* A new lease: earlier leases stop being startable and acceptable, and
   none becomes so again. *)
LEMMA GrantLeaseStep ==
  ASSUME IInv, TypeOK', NEW c \in Commands, GrantLease(c)
  PROVE  IInv'
<1>0. /\ \A l \in Lease : l.cmd \in Commands /\ l.token \in Nat
      /\ \A rec \in store : rec.lease \in Lease
      /\ pc # "idle" => cur \in Lease
      /\ \A d \in Commands : lease[d] \in Nat
  BY DEF TypeOK, Lease, Record, IInv
<1>1. \A l \in Lease : Started(l) => Started(l)'
  BY <1>0 DEF TypeOK, Started, GrantLease
<1>2. \A l \in Lease : (Startable(l)' /\ Started(l)) => Startable(l)
  BY <1>0 DEF Started, Startable, GrantLease
<1>3. \A l \in Lease : Accepts(l)' => Accepts(l)
  BY DEF TypeOK, Accepts, GrantLease
<1>4. StoreInv'
  BY <1>0, <1>1 DEF StoreInv, IInv, GrantLease, historyVars
<1>5. CallInv'
  BY <1>0, <1>1, <1>3 DEF CallInv, IInv, GrantLease, callVars, historyVars
<1>6. ExecutionInv'
  BY <1>1, <1>2 DEF ExecutionInv, Holds, StoredLease, IInv, GrantLease,
     callVars, historyVars
<1>7. VerdictInv'
  BY <1>3 DEF TypeOK, VerdictInv, TruthfulVerdict, SavedSurvivesUntilAccepted,
     IInv, GrantLease, historyVars
<1>8. QED
  BY <1>4, <1>5, <1>6, <1>7 DEF IInv

(* A platform-side end removes the command from what the server accepts. *)
LEMMA TerminalizeStep ==
  ASSUME IInv, TypeOK', NEW c \in Commands, Terminalize(c)
  PROVE  IInv'
<1>1. StoreInv'
  BY DEF StoreInv, Started, IInv, Terminalize, historyVars
<1>2. CallInv'
  BY DEF CallInv, Started, Accepts, IInv, Terminalize, callVars, historyVars
<1>3. ExecutionInv'
  BY DEF ExecutionInv, Started, Startable, Holds, IInv, Terminalize, callVars,
     historyVars
<1>4. VerdictInv'
  BY DEF TypeOK, VerdictInv, TruthfulVerdict, SavedSurvivesUntilAccepted,
     Accepts, IInv, Terminalize, historyVars
<1>5. QED
  BY <1>1, <1>2, <1>3, <1>4 DEF IInv

(* Dispatch takes over an existing record or starts with an empty store. *)
LEMMA DispatchStep ==
  ASSUME IInv, TypeOK', NEW l \in Lease, Dispatch(l)
  PROVE  IInv'
<1>0. /\ \A m \in Lease : m.cmd \in Commands
      /\ \A rec \in store : rec.lease \in Lease /\ rec.result \in Results \cup {"none"}
      /\ pc # "idle" => cur \in Lease /\ cur.cmd \in Commands
  BY DEF TypeOK, Lease, Record, IInv
<1>1. StoreInv'
  BY DEF StoreInv, Started, IInv, Dispatch, serverVars, historyVars
<1>2. CallInv'
  <2>0. /\ pc = "idle"
        /\ \A rec \in store : rec = [lease |-> rec.lease, result |-> rec.result]
    BY DEF TypeOK, Record, Dispatch
  <2>1. CASE Enter(l, "start", "none") /\ (Stored(l) => store = {})
    BY <2>1 DEF Dispatch, Enter, CallInv
  <2>2. ASSUME NEW rec \in store, ResumeRecord(rec)
        PROVE  CallInv'
    <3>1. store = File(rec.lease, rec.result) /\ Stored(rec.lease) /\ Started(rec.lease)
      BY <2>0 DEF StoreInv, File, IInv
    <3>2. QED
      BY <1>0, <2>2, <3>1 DEF Dispatch, Enter, ResumeRecord, CallInv, Started,
         serverVars
  <2>3. CASE Refuse
    BY <2>3, <2>0 DEF Refuse, CallInv
  <2>4. QED
    BY <2>1, <2>2, <2>3 DEF Dispatch, LoadFails
<1>3. ExecutionInv'
  BY DEF ExecutionInv, Started, Startable, Holds, IInv, Dispatch, Enter,
     ResumeRecord, Refuse, LoadFails, serverVars, historyVars
<1>4. VerdictInv'
  BY DEF VerdictInv, TruthfulVerdict, SavedSurvivesUntilAccepted, Accepts,
     IInv, Dispatch, serverVars, historyVars
<1>5. QED
  BY <1>1, <1>2, <1>3, <1>4 DEF IInv

(* RetryPending takes over the existing record. *)
LEMMA RetryPendingStep ==
  ASSUME IInv, TypeOK', RetryPending
  PROVE  IInv'
<1>0. /\ \A l \in Lease : l.cmd \in Commands
      /\ \A rec \in store : rec.lease \in Lease /\ rec.result \in Results \cup {"none"}
      /\ pc # "idle" => cur \in Lease /\ cur.cmd \in Commands
  BY DEF TypeOK, Lease, Record, IInv
<1>1. StoreInv'
  BY DEF StoreInv, Started, IInv, RetryPending, serverVars, historyVars
<1>2. CallInv'
  <2>0. /\ pc = "idle"
        /\ \A rec \in store : rec = [lease |-> rec.lease, result |-> rec.result]
    BY DEF TypeOK, Record, RetryPending
  <2>1. CASE UNCHANGED <<pc, cur, result, resumed>>
    BY <2>0, <2>1 DEF CallInv
  <2>2. ASSUME NEW rec \in store, ResumeRecord(rec)
        PROVE  CallInv'
    <3>1. store = File(rec.lease, rec.result) /\ Stored(rec.lease) /\ Started(rec.lease)
      BY <2>0 DEF StoreInv, File, IInv
    <3>2. QED
      BY <1>0, <2>2, <3>1 DEF RetryPending, Enter, ResumeRecord, CallInv,
         Started, serverVars
  <2>3. CASE Refuse
    BY <2>3, <2>0 DEF Refuse, CallInv
  <2>4. QED
    BY <2>1, <2>2, <2>3 DEF RetryPending, LoadFails
<1>3. ExecutionInv'
  BY DEF ExecutionInv, Started, Startable, Holds, IInv, RetryPending, Enter,
     ResumeRecord, Refuse, LoadFails, serverVars, historyVars
<1>4. VerdictInv'
  BY DEF VerdictInv, TruthfulVerdict, SavedSurvivesUntilAccepted, Accepts,
     IInv, RetryPending, serverVars, historyVars
<1>5. QED
  BY <1>1, <1>2, <1>3, <1>4 DEF IInv

(* The start makes the lease Started, and only a store that is empty sees it. *)
LEMMA StartCommandStep ==
  ASSUME IInv, TypeOK', StartCommand
  PROVE  IInv'
<1>0. /\ \A l \in Lease : l.cmd \in Commands
      /\ \A rec \in store : rec.lease \in Lease /\ rec.result \in Results \cup {"none"}
      /\ pc # "idle" => cur \in Lease /\ cur.cmd \in Commands
  BY DEF TypeOK, Lease, Record, IInv
<1>1. StoreInv'
  BY <1>0 DEF TypeOK, StoreInv, Started, IInv, StartCommand, ServerStarts,
     Return, serverVars, historyVars
<1>2. CallInv'
  BY <1>0 DEF TypeOK, CallInv, ExecutionInv, VerdictInv, Started, Startable,
     StoredLease, Holds, IInv, StartCommand, ServerStarts, Goto, Return,
     historyVars
<1>3. ExecutionInv'
  BY <1>0 DEF TypeOK, ExecutionInv, Started, Startable, StoredLease, Holds,
     IInv, StartCommand, ServerStarts, Goto, Return, serverVars, historyVars
<1>4. VerdictInv'
  BY <1>0 DEF TypeOK, ExecutionInv, VerdictInv, TruthfulVerdict,
     SavedSurvivesUntilAccepted, Started, Startable, Accepts, IInv,
     StartCommand, ServerStarts, Return, serverVars, historyVars
<1>5. QED
  BY <1>1, <1>2, <1>3, <1>4 DEF IInv

(* The first Save records a lease whose operation was never begun. *)
LEMMA SaveStartStep ==
  ASSUME IInv, TypeOK', SaveStart
  PROVE  IInv'
<1>1. StoreInv'
  BY DEF StoreInv, CallInv, File, Started, Justifies, IInv, SaveStart,
     SaveSucceeds, SaveFails, Return, serverVars, historyVars
<1>2. CallInv'
  BY DEF CallInv, Started, IInv, SaveStart, SaveSucceeds, Goto, Return,
     serverVars, historyVars
<1>3. ExecutionInv'
  BY DEF CallInv, ExecutionInv, Started, Startable, Holds, IInv, SaveStart,
     Goto, Return, serverVars, historyVars
<1>4. VerdictInv'
  BY DEF CallInv, VerdictInv, TruthfulVerdict, SavedSurvivesUntilAccepted,
     Accepts, IInv, SaveStart, serverVars, historyVars
<1>5. QED
  BY <1>1, <1>2, <1>3, <1>4 DEF IInv

(* A progress report changes nothing but the stage. *)
LEMMA ReportProgressStep ==
  ASSUME IInv, TypeOK', ReportProgress
  PROVE  IInv'
<1>1. StoreInv'
  BY DEF StoreInv, Started, IInv, ReportProgress, serverVars, historyVars
<1>2. CallInv'
  BY DEF CallInv, Started, IInv, ReportProgress, Goto, Return, serverVars,
     historyVars
<1>3. ExecutionInv'
  BY DEF ExecutionInv, Started, Startable, Holds, IInv, ReportProgress, Goto,
     Return, serverVars, historyVars
<1>4. VerdictInv'
  BY DEF VerdictInv, TruthfulVerdict, SavedSurvivesUntilAccepted, Accepts,
     IInv, ReportProgress, serverVars, historyVars
<1>5. QED
  BY <1>1, <1>2, <1>3, <1>4 DEF IInv

(* The operation begins, or is refused, for the first time and under its
   record. *)
LEMMA ExecuteStep ==
  ASSUME IInv, TypeOK', Execute
  PROVE  IInv'
<1>0. /\ \A l \in Lease : l.cmd \in Commands
      /\ \A rec \in store : rec.lease \in Lease
  BY DEF TypeOK, Lease, Record, IInv
<1>1. /\ pc = "execute" /\ cur \in Lease /\ cur' = cur /\ saved' = saved /\ store' = store
      /\ UNCHANGED serverVars
      /\ \/ /\ pc' = "executing" /\ outcome' = [outcome EXCEPT ![cur] = "executing"]
            /\ runs' = [runs EXCEPT ![cur] = @ + 1] /\ result' = result
         \/ /\ pc' = "saveResult" /\ outcome' = [outcome EXCEPT ![cur] = "refused"]
            /\ result' = "failed" /\ runs' = runs /\ Stored(cur)
  BY DEF TypeOK, Stored, StoredKinds, Execute, Goto
<1>2. /\ outcome'[cur] \in {"executing", "refused"}
      /\ pc' = "saveResult" => outcome'[cur] = "refused" /\ result' = "failed"
      /\ pc' = "executing" => outcome'[cur] = "executing"
      /\ \A l \in Lease : l # cur => outcome'[l] = outcome[l] /\ runs'[l] = runs[l]
      /\ runs'[cur] \in {runs[cur], runs[cur] + 1} /\ runs[cur] \in Nat
      /\ pc' \in {"executing", "saveResult"}
  BY <1>1 DEF TypeOK, IInv
<1>3. CallInv'
  <2>1. CASE ~Stored(cur)
    BY <1>1, <2>1 DEF CallInv
  <2>2. ASSUME Stored(cur)
        PROVE  /\ store = File(cur, "none") /\ Started(cur) /\ cur \notin saved
               /\ verdict[cur.cmd] \in {"none", "cancelled"}
    BY <1>1, <2>2 DEF CallInv, IInv
  <2>3. CASE Stored(cur)
    <3>1. Stored(cur)' /\ Started(cur)'
      BY <1>1, <2>2, <2>3 DEF Started, serverVars
    <3>2. store' = File(cur, "none")' /\ cur' \notin saved' /\ verdict'[cur'.cmd] \in {"none", "cancelled"}
      BY <1>1, <2>2, <2>3 DEF serverVars
    <3>3. QED
      BY <1>1, <1>2, <3>1, <3>2 DEF CallInv, Justifies, Outcomes
  <2>4. QED
    BY <2>1, <2>3
<1>4. ExecutionInv'
  <2>1. ASSUME NEW l \in StoredLease, l # cur
        PROVE  /\ outcome'[l] = "executing" => (pc' = "executing" /\ cur' = l)
               /\ runs'[l] <= 1
               /\ outcome'[l] = "none" => runs'[l] = 0 /\ l \notin saved'
               /\ outcome'[l] # "none" => Started(l)'
               /\ outcome'[l] # "none" /\ Startable(l)' => Holds(l)'
    BY <1>1, <1>2, <2>1 DEF ExecutionInv, StoredLease, Startable, Holds,
       Started, serverVars, IInv
  <2>2. ASSUME Stored(cur)
        PROVE  /\ outcome'[cur] = "executing" => pc' = "executing"
               /\ runs'[cur] <= 1
               /\ outcome'[cur] # "none"
               /\ Started(cur)'
               /\ Holds(cur)'
    <3>1. outcome[cur] = "none" /\ Started(cur) /\ store = File(cur, "none")
      BY <1>1, <2>2 DEF CallInv, IInv
    <3>2. runs[cur] = 0
      BY <1>1, <2>2, <3>1 DEF ExecutionInv, StoredLease, IInv
    <3>3. Started(cur)' /\ Holds(cur)'
      BY <1>1, <3>1 DEF Started, Holds, File, serverVars
    <3>4. QED
      BY <1>2, <3>2, <3>3
  <2>3. QED
    BY <1>1, <1>2, <2>1, <2>2 DEF ExecutionInv, StoredLease
<1>5. StoreInv' 
  BY <1>0, <1>1, <1>2 DEF StoreInv, CallInv, Started, Justifies, serverVars,
     IInv
<1>6. VerdictInv'
  <2>1. Stored(cur) => verdict[cur.cmd] \in {"none", "cancelled"} /\ cur \notin saved
    BY <1>1 DEF CallInv, IInv
  <2>2. ASSUME NEW l \in StoredLease, l = cur \/ outcome'[l] = outcome[l]
        PROVE  /\ lease[l.cmd] = l.token =>
                    /\ verdict[l.cmd] = "ok" => outcome'[l] = "ok"
                    /\ verdict[l.cmd] = "failed" => outcome'[l] \in {"failed", "refused"}
                    /\ verdict[l.cmd] = "unknown" => l \notin saved
               /\ l \in saved /\ Accepts(l) =>
                    \E rec \in store :
                      /\ rec.lease = l
                      /\ rec.result = IF outcome'[l] = "refused" THEN "failed" ELSE outcome'[l]
    BY <2>1, <2>2 DEF VerdictInv, TruthfulVerdict, SavedSurvivesUntilAccepted,
       StoredLease, IInv
  <2>3. TruthfulVerdict' /\ SavedSurvivesUntilAccepted'
    BY <1>1, <1>2, <2>2 DEF TruthfulVerdict, SavedSurvivesUntilAccepted,
       StoredLease, Accepts, serverVars
  <2>4. QED
    BY <1>1, <2>3 DEF VerdictInv, serverVars, IInv
<1>7. QED
  BY <1>3, <1>4, <1>5, <1>6 DEF IInv

(* The end of the operation fixes the outcome the record will carry. *)
LEMMA CompleteStep ==
  ASSUME IInv, TypeOK', NEW r \in Outcomes, Complete(r)
  PROVE  IInv'
<1>1. StoreInv'
  BY DEF StoreInv, ExecutionInv, Started, Justifies, IInv, Complete,
     serverVars
<1>2. CallInv'
  BY DEF TypeOK, CallInv, Started, Justifies, Outcomes, IInv, Complete, Goto,
     serverVars
<1>3. ExecutionInv'
  BY DEF TypeOK, ExecutionInv, Started, Startable, Outcomes, Holds, IInv,
     Complete, Goto, serverVars
<1>4. VerdictInv'
  BY DEF StoreInv, CallInv, ExecutionInv, VerdictInv, TruthfulVerdict,
     SavedSurvivesUntilAccepted, Accepts, IInv, Complete, serverVars
<1>5. QED
  BY <1>1, <1>2, <1>3, <1>4 DEF IInv

(* Saving the result: the same lease is held before and after, and a lease
   saved earlier cannot be the one on disk. *)
LEMMA SaveResultDeep ==
  ASSUME IInv, TypeOK', SaveResult
  PROVE  ExecutionInv' /\ VerdictInv'
<1>1. /\ pc = "saveResult" /\ cur \in Lease /\ Stored(cur)
      /\ pc' # "executing"
      /\ UNCHANGED <<serverVars, runs, outcome>>
      /\ \/ store' = File(cur, result) /\ saved' = saved \cup {cur}
         \/ store' = store /\ saved' \in {saved, saved \cup {cur}} /\ (store # File(cur, result) => saved' = saved)
  BY DEF SaveResult, SaveSucceeds, SaveFails, Goto, Return, TypeOK, CallInv,
     IInv
<1>2. /\ store = File(cur, "none") /\ Started(cur) /\ cur \notin saved
      /\ result \in Outcomes /\ Justifies(outcome[cur], result)
      /\ outcome[cur] \in {"ok", "failed", "refused"}
      /\ verdict[cur.cmd] \in {"none", "cancelled"}
  BY <1>1 DEF CallInv, IInv
<1>4. \A l \in Lease : Holds(l)' <=> Holds(l)
  <2>1. \A l \in Lease : Holds(l) <=> l = cur
    BY <1>2, FileHolds DEF Holds
  <2>2. \A l \in Lease : Holds(l)' <=> l = cur
    BY <1>1, <1>2, FileHolds DEF Holds
  <2>3. QED
    BY <2>1, <2>2
<1>5. ExecutionInv'
  BY <1>1, <1>2, <1>4 DEF ExecutionInv, StoredLease, Started, Startable,
     serverVars, IInv
<1>6. TruthfulVerdict'
  BY <1>1, <1>2 DEF VerdictInv, TruthfulVerdict, serverVars, IInv
<1>7. SavedSurvivesUntilAccepted'
  <2> SUFFICES ASSUME NEW l \in StoredLease, l \in saved', Accepts(l)'
               PROVE  \E rec \in store' : 
                        /\ rec.lease = l
                        /\ rec.result = IF outcome'[l] = "refused" THEN "failed" ELSE outcome'[l]
    BY DEF SavedSurvivesUntilAccepted
  <2>1. l \in saved => l # cur
    BY <1>2
  <2>2. l \in saved => store # File(cur, "none")
    BY <1>1, <2>1, FileHolds DEF VerdictInv, SavedSurvivesUntilAccepted,
       Accepts, serverVars, IInv
  <2>3. l = cur /\ store' = File(cur, result)
    BY <1>1, <1>2, <2>2
  <2>4. result = IF outcome[cur] = "refused" THEN "failed" ELSE outcome[cur]
    BY <1>2 DEF Outcomes, Justifies
  <2>5. QED
    BY <1>1, <2>3, <2>4, FileHolds
<1>8. QED
  BY <1>1, <1>5, <1>6, <1>7 DEF VerdictInv, serverVars, IInv

(* Saving the result replaces the result-less record by the outcome. *)
LEMMA SaveResultStep ==
  ASSUME IInv, TypeOK', SaveResult
  PROVE  IInv'
<1>1. StoreInv'
  BY DEF StoreInv, CallInv, File, Started, Outcomes, IInv, SaveResult,
     SaveSucceeds, SaveFails, Return, serverVars
<1>2. CallInv'
  BY DEF TypeOK, CallInv, Started, Outcomes, IInv, SaveResult, SaveSucceeds,
     Goto, Return, serverVars
<1>5. QED
  BY <1>1, <1>2, SaveResultDeep DEF IInv

(* Saving EXECUTION_OUTCOME_UNKNOWN keeps the lease, whose outcome was never
   saved. *)
LEMMA SaveUnknownDeep ==
  ASSUME IInv, TypeOK', SaveUnknown
  PROVE  StoreInv' /\ ExecutionInv'
<1>1. /\ pc = "saveUnknown" /\ cur \in Lease /\ Stored(cur)
      /\ pc' # "executing"
      /\ UNCHANGED <<serverVars, historyVars>>
      /\ store' \in {store, File(cur, "unknown")}
  BY DEF SaveUnknown, SaveSucceeds, SaveFails, Goto, Return, TypeOK, CallInv,
     IInv
<1>2. store = File(cur, "none") /\ Started(cur)
  BY <1>1 DEF CallInv, IInv
<1>3. \A l \in Lease : Holds(l)' <=> Holds(l)
  <2>1. \A l \in Lease : Holds(l) <=> l = cur
    BY <1>2, FileHolds DEF Holds
  <2>2. \A l \in Lease : Holds(l)' <=> l = cur
    BY <1>1, <1>2, FileHolds DEF Holds
  <2>3. QED
    BY <2>1, <2>2
<1>4. cur \notin saved
  BY <1>2 DEF StoreInv, File, IInv
<1>5. StoreInv'
  BY <1>1, <1>2, <1>4 DEF StoreInv, File, Started, Justifies, serverVars,
     historyVars
<1>6. ExecutionInv'
  BY <1>1, <1>3 DEF ExecutionInv, StoredLease, Started, Startable, serverVars,
     historyVars, IInv
<1>7. QED
  BY <1>5, <1>6

(* Saving EXECUTION_OUTCOME_UNKNOWN keeps the invariant. *)
LEMMA SaveUnknownStep ==
  ASSUME IInv, TypeOK', SaveUnknown
  PROVE  IInv'
<1>2. CallInv'
  BY DEF TypeOK, CallInv, Started, IInv, SaveUnknown, SaveSucceeds, Goto,
     Return, serverVars
<1>4. VerdictInv'
  BY DEF StoreInv, CallInv, VerdictInv, TruthfulVerdict,
     SavedSurvivesUntilAccepted, File, Accepts, IInv, SaveUnknown, serverVars,
     historyVars
<1>5. QED
  BY <1>2, <1>4, SaveUnknownDeep DEF IInv

(* The server records the result of the lease it holds, which is the one on
   disk. *)
LEMMA ReportDeep ==
  ASSUME IInv, TypeOK', Report
  PROVE  VerdictInv'
<1>1. /\ pc = "report" /\ cur \in Lease /\ cur.cmd \in Commands
      /\ UNCHANGED <<store, historyVars, lease>>
      /\ \/ UNCHANGED serverVars
         \/ /\ Accepts(cur)
            /\ server'  = [server EXCEPT ![cur.cmd] = "done"]
            /\ verdict' = [verdict EXCEPT ![cur.cmd] = result]
  BY DEF Report, ServerFinishes, TypeOK, serverVars, Lease, IInv
<1>2. Stored(cur) => /\ result \in Results
                     /\ Justifies(outcome[cur], result)
                     /\ result = "unknown" => cur \notin saved
  <2>1. Stored(cur) => store = File(cur, result) /\ result \in Results
    BY <1>1 DEF CallInv, IInv
  <2>2. Stored(cur) => \E rec \in store : rec.lease = cur /\ rec.result = result
    BY <2>1, FileHolds
  <2>3. QED
    BY <2>1, <2>2 DEF StoreInv, IInv
<1>3. CASE UNCHANGED serverVars
  BY <1>1, <1>3 DEF VerdictInv, TruthfulVerdict, SavedSurvivesUntilAccepted,
     Accepts, serverVars, historyVars, IInv
<1>4. CASE /\ Accepts(cur)
           /\ server'  = [server EXCEPT ![cur.cmd] = "done"]
           /\ verdict' = [verdict EXCEPT ![cur.cmd] = result]
  <2>1. /\ server'[cur.cmd] = "done" /\ verdict'[cur.cmd] = result /\ lease[cur.cmd] = cur.token
        /\ \A d \in Commands : d # cur.cmd => server'[d] = server[d] /\ verdict'[d] = verdict[d]
    BY <1>4 DEF TypeOK, Accepts
  <2>3. TruthfulVerdict'
    BY <1>1, <1>2, <2>1 DEF VerdictInv, TruthfulVerdict, StoredLease,
       Justifies, historyVars, Lease, IInv
  <2>4. SavedSurvivesUntilAccepted'
    BY <1>1, <2>1 DEF VerdictInv, SavedSurvivesUntilAccepted, StoredLease,
       Accepts, historyVars, Lease, IInv
  <2>5. \A c \in Commands : server'[c] # "done" => verdict'[c] = "none"
    BY <2>1 DEF VerdictInv, IInv
  <2>6. QED
    BY <2>3, <2>4, <2>5 DEF VerdictInv
<1>5. QED
  BY <1>1, <1>3, <1>4

(* FinishCommand delivers what the record says, or nothing. *)
LEMMA ReportStep ==
  ASSUME IInv, TypeOK', Report
  PROVE  IInv'
<1>0. /\ \A l \in Lease : l.cmd \in Commands
      /\ \A rec \in store : rec.lease \in Lease /\ rec.result \in Results \cup {"none"}
      /\ pc # "idle" => cur \in Lease /\ cur.cmd \in Commands
  BY DEF TypeOK, Lease, Record, IInv
<1>1. StoreInv'
  BY <1>0 DEF TypeOK, StoreInv, Started, IInv, Report, ServerFinishes, Return,
     serverVars, historyVars
<1>2. CallInv'
  BY <1>0 DEF TypeOK, CallInv, Started, Accepts, IInv, Report, ServerFinishes,
     Goto, Return, serverVars
<1>3. ExecutionInv'
  BY <1>0 DEF TypeOK, ExecutionInv, Started, Startable, StoredLease, Holds,
     IInv, Report, ServerFinishes, Goto, Return, serverVars, historyVars
<1>5. QED
  BY <1>1, <1>2, <1>3, ReportDeep DEF IInv

(* Clear removes a record only when the server accepts its result no more. *)
LEMMA ClearStep ==
  ASSUME IInv, TypeOK', Clear
  PROVE  IInv'
<1>0. /\ \A l \in Lease : l.cmd \in Commands
      /\ \A rec \in store : rec.lease \in Lease /\ rec.result \in Results \cup {"none"}
      /\ pc # "idle" => cur \in Lease /\ cur.cmd \in Commands
  BY DEF TypeOK, Lease, Record, IInv
<1>1. StoreInv'
  BY DEF StoreInv, File, Started, IInv, Clear, serverVars, historyVars
<1>2. CallInv'
  BY DEF CallInv, Clear, Return
<1>3. ExecutionInv'
  BY <1>0 DEF TypeOK, CallInv, ExecutionInv, File, Started, Startable,
     Accepts, Holds, IInv, Clear, Return, serverVars, historyVars
<1>4. VerdictInv'
  BY DEF CallInv, VerdictInv, TruthfulVerdict, SavedSurvivesUntilAccepted,
     File, Accepts, IInv, Clear, serverVars, historyVars
<1>5. QED
  BY <1>1, <1>2, <1>3, <1>4 DEF IInv

(* A restart loses memory only: the record is still there. *)
LEMMA CrashStep ==
  ASSUME IInv, TypeOK', Crash
  PROVE  IInv'
<1>1. StoreInv'
  BY DEF StoreInv, ExecutionInv, Started, Justifies, IInv, Crash, serverVars
<1>2. CallInv'
  BY DEF CallInv, Crash, Return
<1>3. ExecutionInv'
  BY DEF TypeOK, ExecutionInv, Started, Startable, Holds, IInv, Crash, Return,
     serverVars
<1>4. VerdictInv'
  BY DEF StoreInv, CallInv, ExecutionInv, VerdictInv, TruthfulVerdict,
     SavedSurvivesUntilAccepted, Accepts, IInv, Crash, serverVars
<1>5. QED
  BY <1>1, <1>2, <1>3, <1>4 DEF IInv

----------------------------------------------------------------------------
(* The invariant, and what follows from it. *)

(* A fresh installation is well typed. *)
LEMMA InitType ==
  ASSUME Init
  PROVE  TypeOK
<1>1. /\ faults \in 0..MaxFaults /\ crashes \in 0..MaxCrashes
      /\ lease \in [Commands -> 0..MaxLeases]
      /\ runs \in [Lease -> Nat]
  BY ConstantsAssumption DEF Init
<1>3. QED
  BY <1>1 DEF Init, TypeOK, Stages

(* A fresh installation satisfies the invariant. *)
LEMMA InitInvariant ==
  ASSUME Init
  PROVE  IInv
<1>1. TypeOK
  BY InitType
<1>2. StoreInv /\ CallInv
  BY DEF Init, StoreInv, CallInv
<1>3. ExecutionInv
  BY DEF Init, ExecutionInv, StoredLease
<1>4. VerdictInv
  BY DEF Init, VerdictInv, TruthfulVerdict, SavedSurvivesUntilAccepted,
     StoredLease, Lease
<1>5. QED
  BY <1>1, <1>2, <1>3, <1>4 DEF IInv

(* Every step keeps the invariant. *)
LEMMA StepInvariant ==
  ASSUME IInv, [Next]_vars
  PROVE  IInv'
<1>1. TypeOK'
  BY TypeStep DEF IInv
<1>2. CASE UNCHANGED vars
  BY <1>2 DEF IInv, TypeOK, StoreInv, CallInv, ExecutionInv, VerdictInv,
     TruthfulVerdict, SavedSurvivesUntilAccepted, Started, Startable, Accepts,
     Holds, vars, serverVars, callVars, historyVars, boundVars
<1>3. CASE Next
  BY <1>1, <1>3, GrantLeaseStep, TerminalizeStep, DispatchStep,
     RetryPendingStep, StartCommandStep, SaveStartStep, ReportProgressStep,
     ExecuteStep, CompleteStep, SaveResultStep, SaveUnknownStep, ReportStep,
     ClearStep, CrashStep DEF Next, ServerStep, CallStep
<1>4. QED
  BY <1>2, <1>3

(* Type correctness of the dispatcher, for any commands, kinds and bounds. *)
THEOREM TypeCorrect == Spec => []TypeOK
<1>1. Init => TypeOK
  BY InitInvariant DEF IInv
<1>2. TypeOK /\ [Next]_vars => TypeOK'
  BY TypeStep
<1>3. QED
  BY <1>1, <1>2, PTL DEF Spec

(* The inductive invariant holds in every reachable state. *)
THEOREM Invariance == Spec => []IInv
<1>1. Init => IInv
  BY InitInvariant
<1>2. IInv /\ [Next]_vars => IInv'
  BY StepInvariant
<1>3. QED
  BY <1>1, <1>2, PTL DEF Spec

(* The operation of one lease of a stored command begins at most once, through
   any redeliveries, lost replies, store errors and crashes. *)
THEOREM AtMostOnce == Spec => []AtMostOncePerLease
<1>1. IInv => AtMostOncePerLease
  BY DEF IInv, ExecutionInv, AtMostOncePerLease
<1>2. QED
  BY <1>1, Invariance, PTL

(* If the server never leases a command again once it is RUNNING, the operation
   of that stored command begins at most once over all its leases. *)
THEOREM AtMostOnceOverLeases == Spec => []AtMostOncePerCommand
<1>1. ASSUME IInv, NEW l \in StoredLease, NEW m \in StoredLease,
             l.cmd = m.cmd, l.cmd \notin Releasable, runs[l] > 0, runs[m] > 0
      PROVE  l = m
  <2>1. lease[l.cmd] = l.token /\ lease[m.cmd] = m.token
    BY <1>1 DEF IInv, ExecutionInv, Started
  <2>2. QED
    BY <1>1, <2>1, LeaseExtensional DEF StoredLease
<1>2. IInv => AtMostOncePerCommand
  BY <1>1 DEF AtMostOncePerCommand
<1>3. QED
  BY <1>2, Invariance, PTL

(* The server is told success, failure or unknown of a stored command only as
   what became of its operation allows. *)
THEOREM Truthful == Spec => []TruthfulVerdict
<1>1. IInv => TruthfulVerdict
  BY DEF IInv, VerdictInv
<1>2. QED
  BY <1>1, Invariance, PTL

(* An operation that was begun leaves its record on disk for as long as the
   server waits for its result. *)
THEOREM ExecutedStaysRecorded == Spec => []ExecutedIsRecorded
<1>1. ASSUME IInv, NEW l \in StoredLease, runs[l] > 0, Accepts(l)
      PROVE  Holds(l)
  BY <1>1 DEF IInv, ExecutionInv, Startable, Accepts
<1>2. IInv => ExecutedIsRecorded
  BY <1>1 DEF ExecutedIsRecorded
<1>3. QED
  BY <1>2, Invariance, PTL

(* A saved outcome survives on disk, unchanged, until the server has it. *)
THEOREM SavedSurvives == Spec => []SavedSurvivesUntilAccepted
<1>1. IInv => SavedSurvivesUntilAccepted
  BY DEF IInv, VerdictInv
<1>2. QED
  BY <1>1, Invariance, PTL

----------------------------------------------------------------------------
(* The refinement of OnceCommand. *)

StoredCommand == {d \in Commands : Kind[d] \in StoredKinds}

onceVars == <<[l \in StoredLease |-> outcome[l]], [c \in StoredCommand |-> verdict[c]]>>

(* A change of the outcome of a stored lease is a step of OnceCommand. *)
LEMMA OutcomeStep ==
  ASSUME TypeOK, NEW l \in StoredLease, NEW from, NEW to, outcome[l] = from,
         outcome' = [outcome EXCEPT ![l] = to], verdict' = verdict
  PROVE  Once!Become(l, from, to)
<1>1. l \in Lease /\ StoredLease \subseteq Lease
  BY DEF StoredLease
<1>2. outcome \in [Lease -> Outcomes \cup {"none", "executing", "refused", "interrupted"}]
  BY DEF TypeOK
<1>3. [m \in StoredLease |-> outcome'[m]] = [[m \in StoredLease |-> outcome[m]] EXCEPT ![l] = to]
  BY <1>1, <1>2
<1>4. QED
  BY <1>3 DEF Once!Become

(* A justified first verdict is a step of OnceCommand. *)
LEMMA VerdictStep ==
  ASSUME TypeOK, NEW c \in StoredCommand, NEW l \in StoredLease, l.cmd = c,
         NEW r \in {"ok", "failed", "unknown", "cancelled"},
         verdict[c] = "none", Justifies(outcome[l], r),
         verdict' = [verdict EXCEPT ![c] = r], outcome' = outcome
  PROVE  Once!Decide(c)
<1>1. l \in Lease /\ StoredLease \subseteq Lease /\ StoredCommand \subseteq Commands /\ c \in Commands
  BY DEF StoredLease, StoredCommand
<1>2. [m \in StoredCommand |-> verdict'[m]] = [[m \in StoredCommand |-> verdict[m]] EXCEPT ![c] = r]
  BY <1>1 DEF TypeOK
<1>3. outcome[l] \in Once!Grounds(r)
  BY <1>1 DEF TypeOK, Once!Grounds, Justifies, Outcomes
<1>4. QED
  BY <1>2, <1>3 DEF Once!Decide, StoredCommand

(* Every step of the dispatcher is a step of OnceCommand or none. *)
LEMMA StepRefines ==
  ASSUME IInv, [Next]_vars
  PROVE  [Once!Next]_onceVars
<1>0. /\ \A l \in Lease : l.cmd \in Commands
      /\ pc # "idle" => cur \in Lease /\ cur.cmd \in Commands
      /\ StoredLease \subseteq Lease /\ StoredCommand \subseteq Commands
      /\ \A l \in Lease : Stored(l) <=> l \in StoredLease
      /\ \A l \in Lease : Stored(l) <=> l.cmd \in StoredCommand
  BY DEF TypeOK, Lease, StoredLease, Stored, StoredCommand, IInv
<1>1. CASE UNCHANGED <<outcome, verdict>>
  BY <1>1 DEF onceVars
<1>2. ASSUME NEW l \in Lease, ~Stored(l), NEW to, outcome' = [outcome EXCEPT ![l] = to], verdict' = verdict
      PROVE  UNCHANGED onceVars
  BY <1>0, <1>2 DEF onceVars
<1>3. ASSUME NEW l \in Lease, Stored(l), NEW from, NEW to, outcome[l] = from,
             outcome' = [outcome EXCEPT ![l] = to], verdict' = verdict,
             \/ from = "none" /\ to \in {"executing", "refused"}
             \/ from = "executing" /\ to \in {"ok", "failed", "interrupted"}
      PROVE  Once!Next
  <2>1. l \in StoredLease /\ Once!Become(l, from, to)
    BY <1>0, <1>3, OutcomeStep DEF IInv
  <2>2. Once!Begin(l) \/ Once!Refuse(l) \/ Once!End(l)
    BY <1>3, <2>1 DEF Once!Begin, Once!Refuse, Once!End
  <2>3. QED
    BY <2>1, <2>2 DEF Once!Next
<1>4. CASE Execute
  <2>1. PICK to \in {"executing", "refused"} : outcome' = [outcome EXCEPT ![cur] = to]
    BY <1>4 DEF Execute
  <2>2. cur \in Lease /\ verdict' = verdict /\ (Stored(cur) => outcome[cur] = "none")
    BY <1>0, <1>4 DEF Execute, CallInv, serverVars, IInv
  <2>3. QED
    BY <1>2, <1>3, <2>1, <2>2
<1>5. ASSUME NEW r \in Outcomes, Complete(r)
      PROVE  [Once!Next]_onceVars
  <2>1. /\ outcome' = [outcome EXCEPT ![cur] = r] /\ r \in {"ok", "failed"}
        /\ cur \in Lease /\ verdict' = verdict /\ outcome[cur] = "executing"
    BY <1>0, <1>5 DEF Complete, ExecutionInv, serverVars, Outcomes, IInv
  <2>2. QED
    BY <1>2, <1>3, <2>1
<1>6. CASE Crash
  <2>1. CASE pc = "executing"
    <3>1. /\ outcome' = [outcome EXCEPT ![cur] = "interrupted"]
          /\ cur \in Lease /\ verdict' = verdict /\ outcome[cur] = "executing"
      BY <1>0, <1>6, <2>1 DEF Crash, ExecutionInv, serverVars, IInv
    <3>2. QED
      BY <1>2, <1>3, <3>1
  <2>2. CASE pc # "executing"
    BY <1>1, <1>6, <2>2 DEF Crash, serverVars
  <2>3. QED
    BY <2>1, <2>2
<1>7. ASSUME NEW c \in Commands, Terminalize(c)
      PROVE  [Once!Next]_onceVars
  <2>1. /\ verdict' = [verdict EXCEPT ![c] = "cancelled"] /\ outcome' = outcome
        /\ verdict[c] = "none"
    BY <1>7 DEF Terminalize, VerdictInv, historyVars, IInv
  <2>2. CASE c \in StoredCommand
    <3>1. [cmd |-> c, token |-> 1] \in StoredLease
      BY <2>2, ConstantsAssumption DEF StoredLease, Lease, Stored,
         StoredCommand
    <3>2. Justifies(outcome[[cmd |-> c, token |-> 1]], "cancelled")
      BY DEF Justifies
    <3>3. Once!Decide(c)
      BY <2>1, <2>2, <3>1, <3>2, VerdictStep DEF IInv
    <3>4. QED
      BY <2>2, <3>3 DEF Once!Next, StoredCommand
  <2>3. CASE c \notin StoredCommand
    BY <2>1, <2>3 DEF onceVars
  <2>4. QED
    BY <2>2, <2>3
<1>8. CASE Report
  <2>1. outcome' = outcome /\ cur \in Lease /\ cur.cmd \in Commands
    BY <1>0, <1>8 DEF Report, historyVars
  <2>2. CASE verdict' = verdict
    BY <1>1, <2>1, <2>2
  <2>3. CASE Accepts(cur) /\ verdict' = [verdict EXCEPT ![cur.cmd] = result]
    <3>1. verdict[cur.cmd] = "none"
      BY <2>1, <2>3 DEF VerdictInv, Accepts, IInv
    <3>2. CASE Stored(cur)
      <4>1. store = File(cur, result) /\ result \in {"ok", "failed", "unknown"}
        BY <1>8, <3>2 DEF Report, CallInv, Results, Outcomes, IInv
      <4>2. Justifies(outcome[cur], result)
        BY <4>1 DEF StoreInv, File, IInv
      <4>3. PICK l \in StoredLease, c \in StoredCommand : l = cur /\ c = cur.cmd
        BY <1>0, <2>1, <3>2
      <4>4. Once!Decide(c)
        BY <2>1, <2>3, <3>1, <4>1, <4>2, <4>3, VerdictStep DEF IInv
      <4>5. QED
        BY <4>4 DEF Once!Next, StoredCommand
    <3>3. CASE ~Stored(cur)
      BY <1>0, <2>1, <2>3, <3>3 DEF onceVars
    <3>4. QED
      BY <3>2, <3>3
  <2>4. QED
    BY <1>8, <2>2, <2>3 DEF Report, ServerFinishes, serverVars
<1>9. CASE \/ StartCommand \/ SaveStart \/ ReportProgress \/ SaveResult \/ SaveUnknown \/ Clear
           \/ RetryPending \/ UNCHANGED vars
  BY <1>1, <1>9 DEF StartCommand, ServerStarts, SaveStart, ReportProgress,
     SaveResult, SaveUnknown, Clear, RetryPending, vars, serverVars,
     historyVars
<1>10. ASSUME NEW c \in Commands, GrantLease(c) PROVE UNCHANGED <<outcome, verdict>>
  BY <1>10 DEF GrantLease, historyVars
<1>11. ASSUME NEW l \in Lease, Dispatch(l) PROVE UNCHANGED <<outcome, verdict>>
  BY <1>11 DEF Dispatch, serverVars, historyVars
<1>12. QED
  BY <1>1, <1>4, <1>5, <1>6, <1>7, <1>8, <1>9, <1>10, <1>11 DEF Next,
     ServerStep, CallStep

(* The dispatcher with its store implements the abstract promise OnceCommand. *)
THEOREM Refinement == Spec => ImplementsOnce
<1>1. Init => Once!Init
  BY DEF Init, Once!Init, StoredLease
<1>2. IInv /\ [Next]_vars => [Once!Next]_onceVars
  BY StepRefines
<1>3. QED
  BY <1>1, <1>2, Invariance, PTL DEF Spec, ImplementsOnce, Once!Spec,
     onceVars, StoredCommand

-----------------------------------------------------------------------------
(* The loop.                                                               *)

(* A lost heartbeat or poll keeps the invariant of the dispatcher. *)
LEMMA FaultInvariant ==
  ASSUME IInv, Fault, UNCHANGED <<serverVars, callVars, store, historyVars>>
  PROVE  IInv'
<1>1. TypeOK'
  BY ConstantsAssumption DEF IInv, TypeOK, Fault, serverVars, callVars,
     historyVars
<1>2. StoreInv' /\ CallInv'
  BY DEF IInv, StoreInv, CallInv, Started, Accepts, serverVars, callVars,
     historyVars
<1>3. ExecutionInv' /\ VerdictInv'
  BY DEF IInv, ExecutionInv, VerdictInv, TruthfulVerdict,
     SavedSurvivesUntilAccepted, Started, Startable, Accepts, Holds,
     serverVars, callVars, historyVars
<1>4. QED
  BY <1>1, <1>2, <1>3 DEF IInv

(* The batch stays a sequence of leases. *)
LEMMA BatchType ==
  ASSUME batch \in Seq(Lease), batch' = <<>> \/ batch' = batch \/ batch' \in Batches
  PROVE  batch' \in Seq(Lease)
<1>1. <<>> \in Seq(Lease)
  OBVIOUS
<1>2. \A b \in Batches : b \in Seq(Lease)
  BY DEF Batches
<1>3. QED
  BY <1>1, <1>2

(* Every step of the loop keeps the types. *)
LEMMA LoopTypeStep ==
  ASSUME LoopTypeOK, TypeOK', [LoopNext]_allVars
  PROVE  LoopTypeOK'
<1>1. CASE RetryFirst
  BY <1>1 DEF RetryFirst, LoopTypeOK
<1>2. CASE RetryReturned \/ DispatchReturned \/ BatchDone
  <2>1. pc = "idle" /\ pc' = pc
    BY <1>2 DEF RetryReturned, DispatchReturned, BatchDone, callVars, vars,
       LoopTypeOK
  <2>2. /\ batch' = <<>> \/ batch' = batch
        /\ loop' \in {"retry", "batch"}
    BY <1>2 DEF RetryReturned, DispatchReturned, BatchDone, StartOver
  <2>3. QED
    BY <2>1, <2>2, BatchType DEF LoopTypeOK
<1>3. CASE PollCommands
  <2>2. pc = "idle" /\ pc' = pc
    BY <1>3 DEF PollCommands, callVars, LoopTypeOK
  <2>3. /\ batch' = <<>> \/ batch' \in Batches
        /\ loop' \in {"retry", "batch"}
    BY <1>3 DEF PollCommands, StartOver
  <2>4. QED
    BY <2>2, <2>3, BatchType DEF LoopTypeOK
<1>4. CASE DispatchHead
  BY <1>4 DEF DispatchHead, LoopTypeOK
<1>5. CASE CallStep /\ UNCHANGED loopVars
  <2>1. pc # "idle"
    BY <1>5 DEF CallStep, StartCommand, SaveStart, ReportProgress, Execute,
       Complete, SaveResult, SaveUnknown, Report, Clear
  <2>2. QED
    BY <1>5, <2>1 DEF loopVars, LoopTypeOK
<1>6. CASE ServerStep /\ UNCHANGED loopVars
  BY <1>6 DEF ServerStep, GrantLease, Terminalize, callVars, loopVars,
     LoopTypeOK
<1>7. CASE LoopCrash
  BY <1>7 DEF LoopCrash, Crash, Return, StartOver, LoopTypeOK
<1>8. CASE UNCHANGED allVars
  BY <1>8 DEF allVars, vars, callVars, loopVars, LoopTypeOK
<1>9. CASE RefreshGrant
  <2>1. pc = "idle" /\ pc' = pc
    BY <1>9 DEF RefreshGrant, callVars, LoopTypeOK
  <2>2. /\ batch' = <<>> \/ batch' = batch
        /\ loop' \in {"retry", "poll"}
    BY <1>9 DEF RefreshGrant, StartOver
  <2>3. QED
    BY <2>1, <2>2, BatchType DEF LoopTypeOK
<1>10. QED
  BY <1>1, <1>2, <1>3, <1>4, <1>5, <1>6, <1>7, <1>8, <1>9 DEF LoopNext,
     AgentStep

(* A step of the loop is a step of the open dispatcher, or a lost exchange
   that leaves the dispatcher alone. *)
LEMMA LoopIsDispatcher ==
  ASSUME LoopTypeOK, [LoopNext]_allVars
  PROVE  \/ [Next]_vars
         \/ Fault /\ UNCHANGED <<serverVars, callVars, store, historyVars>>
<1>1. CASE RefreshGrant \/ PollCommands
  BY <1>1 DEF RefreshGrant, PollCommands, vars
<1>2. CASE DispatchHead
  <2>1. Head(batch) \in Lease
    BY <1>2 DEF DispatchHead, LoopTypeOK
  <2>2. QED
    BY <1>2, <2>1 DEF DispatchHead, Next
<1>3. CASE LoopCrash \/ RetryFirst \/ RetryReturned \/ DispatchReturned \/ BatchDone
  BY <1>3 DEF LoopCrash, RetryFirst, RetryReturned, DispatchReturned,
     BatchDone, Next
<1>4. CASE (CallStep \/ ServerStep \/ UNCHANGED allVars)
  BY <1>4 DEF Next, allVars
<1>5. QED
  BY <1>1, <1>2, <1>3, <1>4 DEF LoopNext, AgentStep

(* Every step of the loop keeps LoopInv. *)
LEMMA LoopInvStep ==
  ASSUME IInv, LoopTypeOK, LoopInv, [LoopNext]_allVars
  PROVE  LoopInv'
<1>1. CASE RetryFirst
  <2>1. ASSUME NEW rec \in store, ResumeRecord(rec)
        PROVE  pc' \in {"saveUnknown", "report"} /\ Stored(cur')
    BY <2>1 DEF ResumeRecord, Enter, IInv, StoreInv
  <2>2. CASE Refuse
    BY <1>1, <2>2 DEF RetryFirst, RetryPending, Refuse, LoopInv
  <2>4. QED
    BY <1>1, <2>1, <2>2 DEF RetryFirst, RetryPending, LoadFails, LoopInv
<1>2. CASE RetryReturned \/ RefreshGrant \/ PollCommands
  BY <1>2 DEF RetryReturned, RefreshGrant, PollCommands, StartOver, vars,
     callVars, LoopInv
<1>3. CASE DispatchReturned \/ BatchDone
  BY <1>3 DEF DispatchReturned, BatchDone, StartOver, vars, callVars, LoopInv
<1>4. CASE DispatchHead
  BY <1>4 DEF DispatchHead, Dispatch, LoadFails, Refuse, Enter, LoopInv
<1>5. CASE CallStep /\ UNCHANGED loopVars
  <2>1. /\ pc # "idle"
        /\ loop \in {"retrying", "dispatching"} /\ loop' = loop
        /\ pc' # "idle" => cur' = cur
    BY <1>5 DEF CallStep, StartCommand, SaveStart, ReportProgress, Execute,
       Complete, SaveResult, SaveUnknown, Report, Clear, LoopTypeOK,
       loopVars, Goto, Return
  <2>2. CASE ~Stored(cur)
    <3>1. pc \notin {"save", "progress", "saveResult", "saveUnknown", "clear"}
      BY <2>2 DEF IInv, CallInv
    <3>2. store' = store
      BY <1>5, <3>1 DEF CallStep, StartCommand, SaveStart, ReportProgress,
         Execute, Complete, SaveResult, SaveUnknown, Report, Clear
    <3>3. QED
      BY <2>1, <2>2, <3>2 DEF LoopInv
  <2>3. CASE Stored(cur)
    <3>1. Kind[cur.cmd] \notin {"direct", "upgrade"}
      BY <2>3 DEF Stored, StoredKinds
    <3>2. pc' = "idle" => failed' \/ store' = {}
      <4>1. CASE Report
        BY <3>1, <4>1 DEF Report, Goto, Return
      <4>2. CASE Execute \/ \E r \in Outcomes : Complete(r)
        BY <4>2 DEF Execute, Complete, Goto
      <4>3. QED
        BY <1>5, <4>1, <4>2 DEF CallStep, StartCommand, SaveStart,
           ReportProgress, SaveResult, SaveUnknown, Clear, Goto, Return
    <3>3. QED
      BY <2>1, <2>3, <3>1, <3>2 DEF LoopInv
  <2>4. QED
    BY <2>2, <2>3
<1>6. CASE ServerStep /\ UNCHANGED loopVars
  BY <1>6 DEF ServerStep, GrantLease, Terminalize, callVars, loopVars, LoopInv
<1>7. CASE LoopCrash
  BY <1>7 DEF LoopCrash, StartOver, Crash, Return, LoopInv
<1>8. CASE UNCHANGED allVars
  BY <1>8 DEF allVars, vars, callVars, loopVars, LoopInv
<1>9. QED
  BY <1>1, <1>2, <1>3, <1>4, <1>5, <1>6, <1>7, <1>8 DEF LoopNext, AgentStep

(* The invariants of the dispatcher and of the loop hold in every reachable
   state of the agent. *)
LEMMA LoopParts == LoopSpec => [](IInv /\ LoopTypeOK /\ LoopInv)
<1>1. LoopInit => IInv /\ LoopTypeOK /\ LoopInv
  <2>1. ASSUME LoopInit
        PROVE  IInv /\ LoopTypeOK /\ LoopInv
    <3>1. Init /\ IInv /\ loop = "retry" /\ batch = <<>>
      BY <2>1, InitInvariant DEF LoopInit
    <3>2. QED
      BY <3>1 DEF LoopTypeOK, LoopInv, Init, IInv
  <2>2. QED
    BY <2>1
<1>2. ASSUME IInv, LoopTypeOK, LoopInv, [LoopNext]_allVars
      PROVE  IInv' /\ LoopTypeOK' /\ LoopInv'
  <2>1. IInv'
    BY <1>2, LoopIsDispatcher, StepInvariant, FaultInvariant
  <2>2. QED
    BY <1>2, <2>1, LoopTypeStep, LoopInvStep DEF IInv
<1>3. QED
  BY <1>1, <1>2, PTL DEF LoopSpec

(* The inductive invariant of the command goroutine and what it drives. *)
THEOREM LoopInvariance == LoopSpec => []LoopIInv
BY LoopParts, PTL DEF LoopIInv

(* Type correctness of the command goroutine. *)
THEOREM LoopTypeCorrect == LoopSpec => []LoopTypeOK
BY LoopParts, PTL

(* Between two commands of a batch no record is pending, so Dispatch never
   refuses a command of the loop for another one's record. *)
THEOREM NothingPending == LoopSpec => []NothingPendingInBatch
<1>1. LoopInv => NothingPendingInBatch
  BY DEF LoopInv, NothingPendingInBatch
<1>2. QED
  BY <1>1, LoopParts, PTL

(* When a command begins, no stored command executed before still waits for
   its result to be accepted. *)
THEOREM StoredAcknowledged == LoopSpec => []StoredAcknowledgedBeforeNext
<1>1. ASSUME IInv, LoopTypeOK, LoopInv, pc = "start", NEW m \in StoredLease, runs[m] > 0
      PROVE  ~Accepts(m)
  <2>1. store = {}
    BY <1>1 DEF IInv, CallInv, LoopTypeOK, LoopInv
  <2>2. QED
    BY <1>1, <2>1 DEF IInv, ExecutionInv, Accepts, Startable, Holds
<1>2. IInv /\ LoopTypeOK /\ LoopInv => StoredAcknowledgedBeforeNext
  BY <1>1 DEF StoredAcknowledgedBeforeNext
<1>3. QED
  BY <1>2, LoopParts, PTL

(* The agent as a whole keeps the abstract promise OnceCommand. *)
THEOREM LoopImplementsOnce == LoopSpec => ImplementsOnce
<1>1. LoopInit => Once!Init
  BY DEF LoopInit, Init, Once!Init, StoredLease
<1>2. ASSUME IInv, LoopTypeOK, [LoopNext]_allVars
      PROVE  [Once!Next]_onceVars
  <2>1. CASE [Next]_vars
    BY <1>2, <2>1, StepRefines
  <2>2. CASE UNCHANGED <<serverVars, callVars, store, historyVars>>
    BY <2>2 DEF onceVars, serverVars, historyVars
  <2>3. QED
    BY <1>2, <2>1, <2>2, LoopIsDispatcher
<1>3. QED
  BY <1>1, <1>2, LoopParts, PTL DEF LoopSpec, ImplementsOnce, Once!Spec,
     onceVars, StoredCommand
=============================================================================
