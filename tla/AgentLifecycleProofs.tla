------------------------ MODULE AgentLifecycleProofs ------------------------
(* Proofs about AgentLifecycle, for every set of binaries with any lives,  *)
(* any number of installations, faults and reboots, and any timing.        *)
EXTENDS AgentLifecycle, TLAPS

(* What systemd starts lives for zero, some or all time. *)
LEMMA StartType ==
  ASSUME TypeOK, StartUnit
  PROVE  /\ unit' = "up" /\ since' \in Nat
         /\ span' \in {0, Forever} \cup Lives
         /\ span' # Forever => since' <= span'
         /\ agent' = "poll" /\ wanted' = None /\ offers' = offers
<1>1. span' \in {0, Forever} \cup Lives
  BY LifecycleAssumption DEF TypeOK, StartUnit, SpanOf, Binaries
<1>2. span' # Forever => span' \in Nat
  BY <1>1, LifecycleAssumption
<1>3. QED
  BY <1>1, <1>2 DEF StartUnit

(* Every step keeps the types. *)
LEMMA TypeStep == IInv /\ [Next]_vars => TypeOK'
<1> SUFFICES ASSUME IInv, [Next]_vars PROVE TypeOK'
  OBVIOUS
<1> USE LifecycleAssumption DEF IInv, vars, fileVars, unitVars, agentVars,
         helperVars, enrolVars, historyVars, boundVars, Watching, Moving,
         Binaries, Tokens, Aborts, GoesOn, NoRestart, Fault
<1>1. CASE Systemd
  BY <1>1, StartType DEF Exits, FailUnit, Returns, Systemd, TypeOK,
     EnrolInv, Binaries, Tokens, Watching
<1>2. CASE Kill
  BY <1>2 DEF FailUnit, Fault, Kill, TypeOK, EnrolInv, Binaries, Tokens,
     Watching
<1>3. CASE Tick
  BY <1>3 DEF Ageing, Exits, Returns, Tick, Timed, TypeOK, EnrolInv,
     Binaries, Tokens, Watching
<1>4. CASE Reboot
  BY <1>4, StartType DEF Reboot, TypeOK, EnrolInv, Binaries, Tokens,
     Watching
<1>5. CASE BeginInstall
  BY <1>5 DEF BeginInstall, TypeOK, EnrolInv, Binaries, Tokens, Watching
<1>6. ASSUME Enrol, UNCHANGED <<fileVars, unitVars, agentVars, helperVars,
             life, historyVars>>
      PROVE  TypeOK'
  <2>1. tokenFile \in Tokens
    BY <1>6 DEF Enrol, EnrolInv
  <2>2. /\ registered \subseteq registered' /\ registered' \subseteq Tokens
        /\ {config', identity'} \subseteq {0} \cup registered'
        /\ tokenFile' \in {0} \cup Tokens
        /\ installer' \in {"none", "save"}
    BY <1>6, <2>1 DEF Enrol, EndInstall, TypeOK
  <2>3. installs' = installs /\ reboots' = reboots /\ faults' \in 0..MaxFaults
    BY <1>6 DEF Enrol, EndInstall, Fault, TypeOK
  <2>4. QED
    BY <1>6, <2>1, <2>2, <2>3 DEF TypeOK
<1>7. ASSUME SaveIdentity, UNCHANGED <<fileVars, unitVars, agentVars,
             helperVars, life, historyVars>>
      PROVE  TypeOK'
  BY <1>7 DEF EndInstall, Fault, SaveIdentity, TypeOK, EnrolInv, Binaries,
     Tokens, Watching
<1>8. ASSUME RemoveToken, UNCHANGED <<fileVars, unitVars, agentVars,
             helperVars, life, historyVars>>
      PROVE  TypeOK'
  BY <1>8 DEF EndInstall, Fault, RemoveToken, TypeOK, EnrolInv, Binaries,
     Tokens, Watching
<1>9. CASE StartService
  BY <1>9, StartType DEF StartService, TypeOK, EnrolInv, Binaries, Tokens,
     Watching
<1>10. CASE BeginUpgrade
  <2>1. PICK v \in offers :
          /\ offers' = offers \ {v}
          /\ \/ UNCHANGED <<agent, wanted, new, overtaken>>
             \/ /\ agent' = "download" /\ wanted' = v /\ new' = Torn
                /\ overtaken' = (overtaken \/ helper \in Moving)
    BY <1>10 DEF BeginUpgrade
  <2>2. overtaken' \in BOOLEAN
    BY <2>1 DEF TypeOK
  <2>3. /\ new' \in Versions \cup {None, Torn} /\ wanted' \in Versions \cup {None}
        /\ offers' \subseteq Versions
        /\ agent' \in {"poll", "download", "report", "activate"}
    BY <2>1 DEF TypeOK
  <2>4. QED
    BY <1>10, <2>2, <2>3 DEF BeginUpgrade, AgentStep, TypeOK, Watching
<1>11. CASE Download
  BY <1>11 DEF AgentStep, Download, TypeOK, EnrolInv, Binaries, Tokens,
     Watching
<1>12. CASE Report
  <2>1. staged' \subseteq Versions
    BY <1>12 DEF Report, TypeOK, HostInv
  <2>2. /\ agent' \in {"poll", "activate"}
        /\ wanted' \in Versions \cup {None}
    BY <1>12 DEF Report, TypeOK
  <2>3. QED
    BY <1>12, <2>1, <2>2 DEF Report, AgentStep, TypeOK, Binaries, Watching
<1>13. CASE Activate
  BY <1>13 DEF Activate, TypeOK
<1>14. ASSUME TimerFires, UNCHANGED <<enrolVars, life>>
      PROVE  TypeOK'
  BY <1>14 DEF TimerFires, TypeOK
<1>15. ASSUME Copy, UNCHANGED <<enrolVars, life>>
      PROVE  TypeOK'
  BY <1>15 DEF Copy, TypeOK
<1>16. ASSUME FinishCopy, UNCHANGED <<enrolVars, life>>
      PROVE  TypeOK'
  BY <1>16 DEF FinishCopy, TypeOK
<1>17. ASSUME Move, UNCHANGED <<enrolVars, life>>
      PROVE  TypeOK'
  <2>1. unwatched' \in BOOLEAN
    BY <1>17 DEF Move, TypeOK
  <2>2. slept' \in 0..(Patience + Slack) /\ faults' \in 0..MaxFaults
        /\ installs' = installs /\ reboots' = reboots
    BY <1>17 DEF Move, TypeOK
  <2>3. /\ executable' \in Binaries \cup {None, Torn}
        /\ new' \in Versions \cup {None, Torn} /\ UNCHANGED <<backup, staged, proven, overtaken>>
        /\ helper' \in {"failed"} \cup Watching
    BY <1>17 DEF Move, TypeOK
  <2>4. QED
    BY <1>17, <2>1, <2>2, <2>3 DEF Move, TypeOK
<1>18. ASSUME RestartNew, UNCHANGED <<enrolVars, life>>
      PROVE  TypeOK'
  <2>1. unwatched' \in BOOLEAN
    BY <1>18 DEF RestartNew, TypeOK
  <2>2. slept' \in 0..(Patience + Slack) /\ faults' \in 0..MaxFaults
        /\ installs' = installs /\ reboots' = reboots
    BY <1>18 DEF RestartNew, TypeOK
  <2>3. /\ executable' \in Binaries \cup {None, Torn}
        /\ new' \in Versions \cup {None, Torn} /\ UNCHANGED <<backup, staged, proven, overtaken>>
        /\ helper' \in {"failed"} \cup Watching
    BY <1>18 DEF RestartNew, TypeOK
  <2>4. QED
    BY <1>18, <2>1, <2>2, <2>3, StartType DEF RestartNew, TypeOK
<1>19. ASSUME Check, UNCHANGED <<enrolVars, life>>
      PROVE  TypeOK'
  BY <1>19 DEF Check, TypeOK
<1>20. ASSUME RollBack, UNCHANGED <<enrolVars, life>>
      PROVE  TypeOK'
  <2>1. slept' \in 0..(Patience + Slack)
    BY <1>20 DEF RollBack, TypeOK
  <2>2. unwatched' \in BOOLEAN
    BY <1>20 DEF RollBack, TypeOK
  <2>3. executable' \in Binaries \cup {None, Torn} /\ helper' \in {"failed", "restore"}
    BY <1>20 DEF RollBack, TypeOK
  <2>4. faults' \in 0..MaxFaults /\ installs' = installs /\ reboots' = reboots
    BY <1>20 DEF RollBack, TypeOK
  <2>5. QED
    BY <1>20, <2>1, <2>2, <2>3, <2>4 DEF RollBack, TypeOK
<1>21. ASSUME FinishRollBack, UNCHANGED <<enrolVars, life>>
      PROVE  TypeOK'
  <2>1. unwatched' \in BOOLEAN
    BY <1>21 DEF FinishRollBack, TypeOK
  <2>2. slept' \in 0..(Patience + Slack) /\ faults' \in 0..MaxFaults
        /\ installs' = installs /\ reboots' = reboots
    BY <1>21 DEF FinishRollBack, TypeOK
  <2>3. /\ executable' \in Binaries \cup {None, Torn}
        /\ new' \in Versions \cup {None, Torn} /\ UNCHANGED <<backup, staged, proven, overtaken>>
        /\ helper' \in {"failed"} \cup Watching
    BY <1>21 DEF FinishRollBack, TypeOK
  <2>4. QED
    BY <1>21, <2>1, <2>2, <2>3 DEF FinishRollBack, TypeOK
<1>22. ASSUME RestartOld, UNCHANGED <<enrolVars, life>>
      PROVE  TypeOK'
  BY <1>22, StartType DEF RestartOld, TypeOK
<1>23. ASSUME Clean, UNCHANGED <<enrolVars, life>>
      PROVE  TypeOK'
  BY <1>23 DEF Clean, TypeOK
<1>24. CASE UNCHANGED vars
  BY <1>24 DEF TypeOK, EnrolInv, Binaries, Tokens, Watching
<1>25. QED
  BY <1>1, <1>2, <1>3, <1>4, <1>5, <1>6, <1>7, <1>8, <1>9, <1>10, <1>11,
     <1>12, <1>13, <1>14, <1>15, <1>16, <1>17, <1>18, <1>19, <1>20, <1>21,
     <1>22, <1>23, <1>24 DEF Next, Install, Upgrade, Script

(* Every step of the installer builds on the one before. *)
LEMMA EnrolStep == IInv /\ [Next]_vars => EnrolInv'
<1> SUFFICES ASSUME IInv, [Next]_vars PROVE EnrolInv'
  OBVIOUS
<1> USE LifecycleAssumption DEF IInv, enrolVars
<1>1. CASE BeginInstall
  BY <1>1 DEF BeginInstall, TypeOK, EnrolInv, Tokens
<1>2. CASE Enrol
  BY <1>2 DEF Enrol, EndInstall, EnrolInv
<1>3. CASE SaveIdentity
  BY <1>3 DEF SaveIdentity, EndInstall, EnrolInv
<1>4. CASE RemoveToken
  BY <1>4 DEF RemoveToken, EndInstall, EnrolInv
<1>5. CASE StartService
  BY <1>5 DEF StartService, EnrolInv
<1>6. CASE Reboot
  BY <1>6 DEF Reboot, EnrolInv
<1>7. ASSUME Systemd \/ Kill \/ Tick \/ Upgrade \/ Script \/ UNCHANGED vars
      PROVE  EnrolInv'
  <2>1. UNCHANGED enrolVars
    BY <1>7 DEF Systemd, Kill, Tick, Upgrade, BeginUpgrade, Download, Report,
       Activate, AgentStep, Script, vars
  <2>2. QED
    BY <2>1 DEF EnrolInv
<1>8. QED
  BY <1>1, <1>2, <1>3, <1>4, <1>5, <1>6, <1>7 DEF Next, Install

(* Only an installed host has a service, a command and a script. *)
LEMMA HostStep == IInv /\ [Next]_vars => HostInv'
<1> SUFFICES ASSUME IInv, [Next]_vars PROVE HostInv'
  OBVIOUS
<1> USE LifecycleAssumption DEF IInv, vars, fileVars, unitVars, agentVars,
         helperVars, enrolVars, historyVars, boundVars, Watching, Moving,
         Backed, Binaries, Aborts, GoesOn, NoRestart, Fault
<1>1. CASE Systemd
  BY <1>1 DEF Exits, FailUnit, Returns, StartUnit, Systemd, TypeOK, HostInv
<1>2. CASE Kill
  BY <1>2 DEF FailUnit, Kill, TypeOK, HostInv
<1>3. CASE Tick
  BY <1>3 DEF Ageing, Exits, Returns, Tick, Timed, TypeOK, HostInv
<1>4. CASE Reboot
  BY <1>4 DEF Reboot, StartUnit, TypeOK, HostInv
<1>5. CASE BeginInstall
  BY <1>5 DEF BeginInstall, TypeOK, HostInv
<1>6. ASSUME Enrol \/ SaveIdentity \/ RemoveToken, UNCHANGED <<fileVars,
             unitVars, agentVars, helperVars, life, historyVars>>
      PROVE  HostInv'
  BY <1>6 DEF Enrol, SaveIdentity, RemoveToken, TypeOK, HostInv
<1>7. CASE StartService
  BY <1>7 DEF StartService, StartUnit, TypeOK, HostInv
<1>8. CASE BeginUpgrade
  BY <1>8 DEF AgentStep, BeginUpgrade, TypeOK, HostInv
<1>9. CASE Download
  BY <1>9 DEF AgentStep, Download, TypeOK, HostInv
<1>10. CASE Report
  BY <1>10 DEF AgentStep, Report, TypeOK, HostInv
<1>11. CASE Activate
  BY <1>11 DEF Activate, TypeOK, HostInv
<1>12. ASSUME TimerFires, UNCHANGED <<enrolVars, life>>
      PROVE  HostInv'
  BY <1>12 DEF TimerFires, TypeOK, HostInv
<1>13. ASSUME Copy, UNCHANGED <<enrolVars, life>>
      PROVE  HostInv'
  BY <1>13 DEF Copy, TypeOK, HostInv
<1>14. ASSUME FinishCopy, UNCHANGED <<enrolVars, life>>
      PROVE  HostInv'
  BY <1>14 DEF FinishCopy, TypeOK, HostInv
<1>15. ASSUME Move, UNCHANGED <<enrolVars, life>>
      PROVE  HostInv'
  BY <1>15 DEF Move, TypeOK, HostInv
<1>16. ASSUME RestartNew, UNCHANGED <<enrolVars, life>>
      PROVE  HostInv'
  BY <1>16 DEF RestartNew, StartUnit, TypeOK, HostInv
<1>17. ASSUME Check, UNCHANGED <<enrolVars, life>>
      PROVE  HostInv'
  BY <1>17 DEF Check, TypeOK, HostInv
<1>18. ASSUME RollBack, UNCHANGED <<enrolVars, life>>
      PROVE  HostInv'
  BY <1>18 DEF RollBack, TypeOK, HostInv
<1>19. ASSUME FinishRollBack, UNCHANGED <<enrolVars, life>>
      PROVE  HostInv'
  BY <1>19 DEF FinishRollBack, TypeOK, HostInv
<1>20. ASSUME RestartOld, UNCHANGED <<enrolVars, life>>
      PROVE  HostInv'
  BY <1>20 DEF RestartOld, StartUnit, TypeOK, HostInv
<1>21. ASSUME Clean, UNCHANGED <<enrolVars, life>>
      PROVE  HostInv'
  BY <1>21 DEF Clean, TypeOK, HostInv
<1>22. CASE UNCHANGED vars
  BY <1>22 DEF TypeOK, HostInv
<1>23. QED
  BY <1>1, <1>2, <1>3, <1>4, <1>5, <1>6, <1>7, <1>8, <1>9, <1>10, <1>11,
     <1>12, <1>13, <1>14, <1>15, <1>16, <1>17, <1>18, <1>19, <1>20, <1>21,
     <1>22 DEF Next, Install, Upgrade, Script

(* What the script moves has been reported, unless it was overtaken. *)
LEMMA StagedStep == IInv /\ [Next]_vars => StagedInv'
<1> SUFFICES ASSUME IInv, [Next]_vars PROVE StagedInv'
  OBVIOUS
<1> USE LifecycleAssumption DEF IInv, vars, fileVars, unitVars, agentVars,
         helperVars, enrolVars, historyVars, boundVars, Watching, Moving,
         Backed, Binaries, Aborts, GoesOn, NoRestart, Fault
<1>1. CASE Systemd
  BY <1>1 DEF Exits, FailUnit, Returns, StartUnit, Systemd, TypeOK, HostInv,
     StagedInv, InstalledWasStaged
<1>2. CASE Kill
  BY <1>2 DEF FailUnit, Kill, TypeOK, HostInv, StagedInv, InstalledWasStaged
<1>3. CASE Tick
  BY <1>3 DEF Ageing, Exits, Returns, Tick, Timed, TypeOK, HostInv, StagedInv,
     InstalledWasStaged
<1>4. CASE Reboot
  BY <1>4 DEF Reboot, StartUnit, TypeOK, HostInv, StagedInv,
     InstalledWasStaged
<1>5. CASE BeginInstall
  BY <1>5 DEF BeginInstall, TypeOK, HostInv, StagedInv, InstalledWasStaged
<1>6. ASSUME Enrol \/ SaveIdentity \/ RemoveToken, UNCHANGED <<fileVars,
             unitVars, agentVars, helperVars, life, historyVars>>
      PROVE  StagedInv'
  BY <1>6 DEF Enrol, SaveIdentity, RemoveToken, TypeOK, HostInv, StagedInv,
     InstalledWasStaged
<1>7. CASE StartService
  BY <1>7 DEF StartService, StartUnit, TypeOK, HostInv, StagedInv,
     InstalledWasStaged
<1>8. CASE BeginUpgrade
  <2>1. CASE UNCHANGED <<agent, wanted, new, overtaken>>
    BY <1>8, <2>1 DEF BeginUpgrade, AgentStep, StagedInv, InstalledWasStaged
  <2>2. ASSUME agent' = "download", new' = Torn,
               overtaken' = (overtaken \/ helper \in Moving)
        PROVE  StagedInv'
    <3>1. overtaken' <=> overtaken \/ helper \in Moving
      BY <2>2
    <3>2. QED
      BY <1>8, <2>2, <3>1 DEF BeginUpgrade, AgentStep, StagedInv, InstalledWasStaged
  <2>3. QED
    BY <1>8, <2>1, <2>2 DEF BeginUpgrade
<1>9. CASE Download
  BY <1>9 DEF AgentStep, Download, TypeOK, HostInv, StagedInv,
     InstalledWasStaged
<1>10. CASE Report
  BY <1>10 DEF AgentStep, Report, TypeOK, HostInv, StagedInv,
     InstalledWasStaged
<1>11. CASE Activate
  BY <1>11 DEF Activate, TypeOK, HostInv, StagedInv, InstalledWasStaged
<1>12. ASSUME TimerFires, UNCHANGED <<enrolVars, life>>
      PROVE  StagedInv'
  BY <1>12 DEF TimerFires, TypeOK, HostInv, StagedInv, InstalledWasStaged
<1>13. ASSUME Copy, UNCHANGED <<enrolVars, life>>
      PROVE  StagedInv'
  BY <1>13 DEF Copy, TypeOK, HostInv, StagedInv, InstalledWasStaged
<1>14. ASSUME FinishCopy, UNCHANGED <<enrolVars, life>>
      PROVE  StagedInv'
  BY <1>14 DEF FinishCopy, TypeOK, HostInv, StagedInv, InstalledWasStaged
<1>15. ASSUME Move, UNCHANGED <<enrolVars, life>>
      PROVE  StagedInv'
  BY <1>15 DEF Move, TypeOK, HostInv, StagedInv, InstalledWasStaged
<1>16. ASSUME RestartNew, UNCHANGED <<enrolVars, life>>
      PROVE  StagedInv'
  BY <1>16 DEF RestartNew, StartUnit, TypeOK, HostInv, StagedInv,
     InstalledWasStaged
<1>17. ASSUME Check, UNCHANGED <<enrolVars, life>>
      PROVE  StagedInv'
  BY <1>17 DEF Check, TypeOK, HostInv, StagedInv, InstalledWasStaged
<1>18. ASSUME RollBack, UNCHANGED <<enrolVars, life>>
      PROVE  StagedInv'
  BY <1>18 DEF RollBack, TypeOK, HostInv, StagedInv, InstalledWasStaged
<1>19. ASSUME FinishRollBack, UNCHANGED <<enrolVars, life>>
      PROVE  StagedInv'
  BY <1>19 DEF FinishRollBack, TypeOK, HostInv, StagedInv, InstalledWasStaged
<1>20. ASSUME RestartOld, UNCHANGED <<enrolVars, life>>
      PROVE  StagedInv'
  BY <1>20 DEF RestartOld, StartUnit, TypeOK, HostInv, StagedInv,
     InstalledWasStaged
<1>21. ASSUME Clean, UNCHANGED <<enrolVars, life>>
      PROVE  StagedInv'
  BY <1>21 DEF Clean, TypeOK, HostInv, StagedInv, InstalledWasStaged
<1>22. CASE UNCHANGED vars
  BY <1>22 DEF TypeOK, HostInv, StagedInv, InstalledWasStaged
<1>23. QED
  BY <1>1, <1>2, <1>3, <1>4, <1>5, <1>6, <1>7, <1>8, <1>9, <1>10, <1>11,
     <1>12, <1>13, <1>14, <1>15, <1>16, <1>17, <1>18, <1>19, <1>20, <1>21,
     <1>22 DEF Next, Install, Upgrade, Script

(* Executable or backup is proven at each stage of the script. *)
LEMMA ProvenStep == IInv /\ [Next]_vars => ProvenInv'
<1> SUFFICES ASSUME IInv, [Next]_vars PROVE ProvenInv'
  OBVIOUS
<1> USE LifecycleAssumption DEF IInv, vars, fileVars, unitVars, agentVars,
         helperVars, enrolVars, historyVars, boundVars, Watching, Moving,
         Backed, Binaries, Aborts, GoesOn, NoRestart, Fault
<1>1. CASE Systemd
  BY <1>1 DEF Exits, FailUnit, Returns, StartUnit, Systemd, TypeOK, HostInv,
     ProvenInv
<1>2. CASE Kill
  BY <1>2 DEF FailUnit, Kill, TypeOK, HostInv, ProvenInv
<1>3. CASE Tick
  BY <1>3 DEF Ageing, Exits, Returns, Tick, Timed, TypeOK, HostInv, ProvenInv
<1>4. CASE Reboot
  BY <1>4 DEF Reboot, StartUnit, TypeOK, HostInv, ProvenInv
<1>5. CASE BeginInstall
  BY <1>5 DEF BeginInstall, TypeOK, HostInv, ProvenInv
<1>6. ASSUME Enrol \/ SaveIdentity \/ RemoveToken, UNCHANGED <<fileVars,
             unitVars, agentVars, helperVars, life, historyVars>>
      PROVE  ProvenInv'
  BY <1>6 DEF Enrol, SaveIdentity, RemoveToken, TypeOK, HostInv, ProvenInv
<1>7. CASE StartService
  BY <1>7 DEF StartService, StartUnit, TypeOK, HostInv, ProvenInv
<1>8. CASE BeginUpgrade
  <2>1. UNCHANGED <<executable, backup, helper, slept, proven, unwatched>>
    BY <1>8 DEF BeginUpgrade, AgentStep
  <2>2. QED
    BY <2>1 DEF ProvenInv
<1>9. CASE Download
  BY <1>9 DEF AgentStep, Download, TypeOK, HostInv, ProvenInv
<1>10. CASE Report
  BY <1>10 DEF AgentStep, Report, TypeOK, HostInv, ProvenInv
<1>11. CASE Activate
  BY <1>11 DEF Activate, TypeOK, HostInv, ProvenInv
<1>12. ASSUME TimerFires, UNCHANGED <<enrolVars, life>>
      PROVE  ProvenInv'
  BY <1>12 DEF TimerFires, TypeOK, HostInv, ProvenInv
<1>13. ASSUME Copy, UNCHANGED <<enrolVars, life>>
      PROVE  ProvenInv'
  BY <1>13 DEF Copy, TypeOK, HostInv, ProvenInv
<1>14. ASSUME FinishCopy, UNCHANGED <<enrolVars, life>>
      PROVE  ProvenInv'
  BY <1>14 DEF FinishCopy, TypeOK, HostInv, ProvenInv
<1>15. ASSUME Move, UNCHANGED <<enrolVars, life>>
      PROVE  ProvenInv'
  BY <1>15 DEF Move, TypeOK, HostInv, ProvenInv
<1>16. ASSUME RestartNew, UNCHANGED <<enrolVars, life>>
      PROVE  ProvenInv'
  BY <1>16 DEF RestartNew, StartUnit, TypeOK, HostInv, ProvenInv
<1>17. ASSUME Check, UNCHANGED <<enrolVars, life>>
      PROVE  ProvenInv'
  BY <1>17 DEF Check, TypeOK, HostInv, ProvenInv
<1>18. ASSUME RollBack, UNCHANGED <<enrolVars, life>>
      PROVE  ProvenInv'
  BY <1>18 DEF RollBack, TypeOK, HostInv, ProvenInv
<1>19. ASSUME FinishRollBack, UNCHANGED <<enrolVars, life>>
      PROVE  ProvenInv'
  BY <1>19 DEF FinishRollBack, TypeOK, HostInv, ProvenInv
<1>20. ASSUME RestartOld, UNCHANGED <<enrolVars, life>>
      PROVE  ProvenInv'
  BY <1>20 DEF RestartOld, StartUnit, TypeOK, HostInv, ProvenInv
<1>21. ASSUME Clean, UNCHANGED <<enrolVars, life>>
      PROVE  ProvenInv'
  BY <1>21 DEF Clean, TypeOK, HostInv, ProvenInv
<1>22. CASE UNCHANGED vars
  BY <1>22 DEF TypeOK, HostInv, ProvenInv
<1>23. QED
  BY <1>1, <1>2, <1>3, <1>4, <1>5, <1>6, <1>7, <1>8, <1>9, <1>10, <1>11,
     <1>12, <1>13, <1>14, <1>15, <1>16, <1>17, <1>18, <1>19, <1>20, <1>21,
     <1>22 DEF Next, Install, Upgrade, Script

(* A host before its first installation. *)
LEMMA InitInvariant == Init => IInv
<1> SUFFICES ASSUME Init PROVE IInv
  OBVIOUS
<1> USE LifecycleAssumption DEF Init
<1>1. 0 \in 0..(Patience + Slack) /\ 0 \in 0..MaxInstalls /\ 0 \in 0..MaxFaults
      /\ 0 \in 0..MaxReboots
  OBVIOUS
<1>2. TypeOK
  BY <1>1 DEF TypeOK, Binaries, Watching, Moving
<1>3. EnrolInv /\ HostInv
  BY DEF EnrolInv, HostInv, Backed, Watching
<1>4. StagedInv /\ ProvenInv
  BY DEF StagedInv, InstalledWasStaged, ProvenInv, Moving, Backed, Watching
<1>5. QED
  BY <1>2, <1>3, <1>4 DEF IInv

(* The inductive invariant of installation, upgrade and restart. *)
THEOREM Invariance == Spec => []IInv
<1>1. IInv /\ [Next]_vars => IInv'
  BY TypeStep, EnrolStep, HostStep, StagedStep, ProvenStep DEF IInv
<1>2. QED
  BY <1>1, InitInvariant, PTL DEF Spec

(* When install.sh is done, the host has an identity the server knows, and
   the one-use token is gone (main.go:63-73). *)
THEOREM Enrolled == Spec => []InstalledIsEnrolled
<1>1. IInv => InstalledIsEnrolled
  BY DEF IInv, EnrolInv, InstalledIsEnrolled
<1>2. QED
  BY <1>1, Invariance, PTL

(* No binary of the server is the executable before the server was told that
   it is staged, unless a download overtook the script
   (command_dispatcher.go:394-398). *)
THEOREM StagedFirst == Spec => []InstalledWasStaged
<1>1. IInv => InstalledWasStaged
  BY DEF IInv, StagedInv
<1>2. QED
  BY <1>1, Invariance, PTL

(* Whenever the script may have to go back, it goes back to a binary that has
   been found running (upgrade/manager_linux.go:54-60). *)
THEOREM BackupIsProven == Spec => []RollsBackToProven
<1>1. IInv => RollsBackToProven
  BY DEF IInv, ProvenInv, RollsBackToProven, Backed
<1>2. QED
  BY <1>1, Invariance, PTL

=============================================================================
