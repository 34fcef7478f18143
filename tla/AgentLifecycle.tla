--------------------------- MODULE AgentLifecycle ---------------------------
(***************************************************************************)
(* The agent as a service of its host: installed and enrolled by           *)
(* deploy/install.sh (cmd/xkp-agent/main.go with -enroll-only), started    *)
(* and restarted by systemd (deploy/xkp-agent.service), and replaced by    *)
(* UPGRADE_AGENT: Prepare and Activate of internal/upgrade in the process, *)
(* then a shell script in a transient unit of its own.                     *)
(*                                                                         *)
(* Time is counted in seconds, because the script judges the new binary by *)
(* what systemd says eight seconds after the restart.                      *)
(***************************************************************************)
EXTENDS Naturals

CONSTANTS
  Versions,     \* binaries the server offers
  Old,          \* the binary of the installer
  Lives,        \* how long the processes of a binary may live
  Forever,      \* the life of a binary that does not fail
  RestartSec,   \* pause before systemd restarts a failed service
  Patience,     \* seconds from the restart to the check of the script
  Slack,        \* bound: how late the script may be with its last steps
  MaxInstalls, MaxFaults, MaxReboots,   \* bounds
  None, Torn    \* no file; a file that is not a whole binary

ASSUME LifecycleAssumption ==
  /\ Lives \subseteq Nat \cup {Forever} /\ Forever \notin Nat
  /\ RestartSec \in Nat \ {0} /\ Patience \in Nat /\ Slack \in Nat
  /\ MaxInstalls \in Nat /\ MaxFaults \in Nat /\ MaxReboots \in Nat
  /\ Old \notin Versions /\ {None, Torn} \cap (Versions \cup {Old}) = {}
  /\ None # Torn

Binaries == Versions \cup {Old}

(* Each installation has a token of its own, good for one identity, which  *)
(* gets the token's number.                                                *)
Tokens == 1..MaxInstalls

VARIABLES
  (* Files. *)
  executable, new, backup,
  config,      \* the identity in agent.yml, or 0
  tokenFile,   \* the token in the enrolment token file, or 0
  (* The server. *)
  registered,  \* tokens used up, hence identities
  offers,      \* upgrades it may still ask for
  (* systemd: the service, for how long it has been so, and how long its   *)
  (* process can live.                                                     *)
  unit, since, span,
  (* The command goroutine of the process. *)
  agent, wanted,
  (* The script of Activate and the time since its restart. *)
  helper, slept,
  (* The installer and the identity it holds in memory. *)
  installer, identity,
  life,        \* constant: how long the processes of each binary live
  (* History. *)
  staged,      \* binaries reported as staged
  proven,      \* what a check found running, and the installer's binary
  overtaken,   \* a download began before the script had moved the last one
  unwatched,   \* a script ended between its move and the end of its verdict
  (* Bounds. *)
  installs, faults, reboots

fileVars    == <<executable, new, backup>>
unitVars    == <<unit, since, span>>
agentVars   == <<agent, wanted, offers>>
helperVars  == <<helper, slept>>
enrolVars   == <<config, tokenFile, registered, installer, identity>>
historyVars == <<staged, proven, overtaken, unwatched>>
boundVars   == <<installs, faults, reboots>>
vars == <<fileVars, unitVars, agentVars, helperVars, enrolVars, life,
          historyVars, boundVars>>

(* Before the move; after it, before the verdict has been carried out. *)
Moving   == {"timer", "copy", "copying", "move"}
Watching == {"restart", "sleep", "rollback", "restore", "again"}

TypeOK ==
  /\ executable \in Binaries \cup {None, Torn}
  /\ new \in Versions \cup {None, Torn} /\ backup \in Binaries \cup {None, Torn}
  /\ registered \subseteq Tokens /\ {config, identity} \subseteq {0} \cup registered
  /\ tokenFile \in {0} \cup Tokens
  /\ offers \subseteq Versions /\ wanted \in Versions \cup {None}
  /\ unit \in {"off", "up", "waiting"} /\ since \in Nat
  /\ span \in {0, Forever} \cup Lives
  /\ unit = "waiting" => since <= RestartSec
  /\ unit = "up" /\ span # Forever => since <= span
  /\ agent \in {"poll", "download", "report", "activate"}
  /\ agent # "poll" => unit = "up"
  /\ helper \in {"none", "clean", "failed"} \cup Moving \cup Watching
  /\ slept \in 0..(Patience + Slack)
  /\ installer \in {"none", "enrol", "save", "remove", "start", "done"}
  /\ life \in [Versions -> Lives]
  /\ staged \subseteq Versions /\ proven \subseteq Binaries \cup {None, Torn}
  /\ overtaken \in BOOLEAN /\ unwatched \in BOOLEAN
  /\ installs \in 0..MaxInstalls /\ faults \in 0..MaxFaults /\ reboots \in 0..MaxReboots

Init ==
  /\ executable = None /\ new = None /\ backup = None
  /\ config = 0 /\ tokenFile = 0 /\ registered = {} /\ offers = Versions
  /\ unit = "off" /\ since = 0 /\ span = 0
  /\ agent = "poll" /\ wanted = None
  /\ helper = "none" /\ slept = 0
  /\ installer = "none" /\ identity = 0
  /\ life \in [Versions -> Lives]
  /\ staged = {} /\ proven = {Old} /\ overtaken = FALSE /\ unwatched = FALSE
  /\ installs = 0 /\ faults = 0 /\ reboots = 0

Fault == faults < MaxFaults /\ faults' = faults + 1 /\ UNCHANGED <<installs, reboots>>

-----------------------------------------------------------------------------
(* systemd and the process. *)

(* A file that is not a binary is not executed; main fails at once without *)
(* an identity (main.go:51-54).                                            *)
SpanOf(binary, id) ==
  IF binary \notin Binaries \/ id = 0 THEN 0
  ELSE IF binary = Old THEN Forever ELSE life[binary]

(* Whatever the process of before was doing is over. *)
StartUnit ==
  /\ unit' = "up" /\ since' = 0 /\ span' = SpanOf(executable, config)
  /\ agent' = "poll" /\ wanted' = None /\ UNCHANGED offers

FailUnit ==
  /\ unit' = "waiting" /\ since' = 0 /\ span' = 0
  /\ agent' = "poll" /\ wanted' = None /\ UNCHANGED offers

Exits   == unit = "up" /\ since = span
Returns == unit = "waiting" /\ since = RestartSec

(* "Restart=on-failure", "RestartSec=5s". *)
Systemd ==
  /\ (Exits /\ FailUnit) \/ (Returns /\ StartUnit)
  /\ UNCHANGED <<fileVars, helperVars, enrolVars, life, historyVars, boundVars>>

(* The process is killed. *)
Kill ==
  /\ unit = "up" /\ Fault /\ FailUnit
  /\ UNCHANGED <<fileVars, helperVars, enrolVars, life, historyVars>>

Ageing == unit = "waiting" \/ (unit = "up" /\ span # Forever)
Timed  == helper \in {"sleep", "rollback", "restore", "again"}

Tick ==
  /\ Ageing \/ Timed
  /\ ~Exits /\ ~Returns /\ (Timed => slept < Patience + Slack)
  /\ since' = IF Ageing THEN since + 1 ELSE since
  /\ slept' = IF Timed THEN slept + 1 ELSE slept
  /\ UNCHANGED <<fileVars, unit, span, agentVars, helper, enrolVars, life,
                 historyVars, boundVars>>

(* The host restarts: what is enabled is started; transient units and /run, *)
(* which holds the token file, are gone.                                    *)
Reboot ==
  /\ reboots < MaxReboots /\ reboots' = reboots + 1
  /\ helper' = "none" /\ slept' = 0
  /\ installer' = "none" /\ identity' = 0 /\ tokenFile' = 0
  /\ unwatched' = (unwatched \/ helper \in Watching)
  /\ IF unit = "off" THEN UNCHANGED <<unitVars, agentVars>> ELSE StartUnit
  /\ UNCHANGED <<fileVars, config, registered, life, staged, proven, overtaken,
                 installs, faults>>

-----------------------------------------------------------------------------
(* Installation and enrolment. *)

(* The script lays out the binary, a configuration without an identity and *)
(* the token file.  Nobody installs while an upgrade is at work, or asks   *)
(* for an upgrade during an installation.                                  *)
BeginInstall ==
  /\ installs < MaxInstalls /\ installs' = installs + 1
  /\ installer \in {"none", "done"} /\ helper \in {"none", "failed"} /\ agent = "poll"
  /\ executable' = Old /\ config' = 0 /\ tokenFile' = installs + 1
  /\ installer' = "enrol" /\ identity' = 0
  /\ UNCHANGED <<new, backup, registered, unitVars, agentVars, helperVars, life,
                 historyVars, faults, reboots>>

(* A step of main with -enroll-only fails, or is cut short, and the script *)
(* ends with it.                                                           *)
EndInstall == Fault /\ installer' = "none" /\ identity' = 0

(* Faulty Enrol: the status of the reply is not looked at. *)
EnrolUnconfirmed ==
  /\ installer = "enrol" /\ identity' = tokenFile /\ installer' = "save"
  /\ registered' \in {registered, registered \cup {tokenFile}}
  /\ UNCHANGED <<config, tokenFile, boundVars>>

Enrol ==
  /\ installer = "enrol"
  /\ \/ /\ registered' = registered \cup {tokenFile} /\ identity' = tokenFile
        /\ installer' = "save" /\ UNCHANGED boundVars
     \/ EndInstall /\ registered' \in {registered, registered \cup {tokenFile}}
  /\ UNCHANGED <<config, tokenFile>>

(* Faulty SaveIdentity: errors are ignored. *)
TrySaveIdentity ==
  /\ installer = "save" /\ installer' = "remove"
  /\ \/ config' = identity /\ UNCHANGED boundVars
     \/ Fault /\ UNCHANGED config
  /\ UNCHANGED <<tokenFile, registered, identity>>

(* The rename of Save may have happened when Save fails. *)
SaveIdentity ==
  /\ installer = "save"
  /\ \/ config' = identity /\ installer' = "remove" /\ UNCHANGED <<identity, boundVars>>
     \/ EndInstall /\ config' \in {config, identity}
  /\ UNCHANGED <<tokenFile, registered>>

RemoveToken ==
  /\ installer = "remove"
  /\ \/ /\ tokenFile' = 0 /\ installer' = "start" /\ UNCHANGED <<identity, boundVars>>
     \/ EndInstall /\ UNCHANGED tokenFile
  /\ UNCHANGED <<config, registered>>

(* "enable --now" leaves a running service alone. *)
StartService ==
  /\ installer = "start" /\ installer' = "done" /\ identity' = 0
  /\ IF unit = "up" THEN UNCHANGED <<unitVars, agentVars>> ELSE StartUnit
  /\ UNCHANGED <<fileVars, config, tokenFile, registered, helperVars, life,
                 historyVars, boundVars>>

Install ==
  \/ BeginInstall \/ StartService
  \/ /\ Enrol \/ SaveIdentity \/ RemoveToken
     /\ UNCHANGED <<fileVars, unitVars, agentVars, helperVars, life, historyVars>>

-----------------------------------------------------------------------------
(* UPGRADE_AGENT in the process. *)

AgentStep == unit = "up" /\ UNCHANGED <<unitVars, helper, slept, enrolVars, life>>

(* The command is polled, started and the download requested, which        *)
(* truncates what xkp-agent.new was; or one of these fails.                *)
BeginUpgrade ==
  /\ agent = "poll" /\ installer \in {"none", "done"} /\ AgentStep
  /\ \E v \in offers :
       /\ offers' = offers \ {v}
       /\ \/ UNCHANGED <<agent, wanted, new, overtaken>>
          \/ /\ agent' = "download" /\ wanted' = v /\ new' = Torn
             /\ overtaken' = (overtaken \/ helper \in Moving)
  /\ UNCHANGED <<executable, backup, staged, proven, unwatched, boundVars>>

(* The rest of Prepare.  If the script has moved the file away, the new    *)
(* executable is what is completed, and chmod does not find its file.      *)
Download ==
  /\ agent = "download" /\ AgentStep
  /\ \/ agent' = "poll" /\ wanted' = None /\ new' = None /\ UNCHANGED executable
     \/ new = Torn /\ new' = wanted /\ agent' = "report" /\ UNCHANGED <<wanted, executable>>
     \/ /\ new = None /\ executable' = wanted
        /\ agent' = "poll" /\ wanted' = None /\ UNCHANGED new
  /\ UNCHANGED <<backup, offers, historyVars, boundVars>>

(* Faulty Report: its error is ignored. *)
ReportAnyway ==
  /\ agent = "report" /\ AgentStep
  /\ staged' \in {staged, staged \cup {wanted}}
  /\ agent' = "activate"
  /\ UNCHANGED <<fileVars, wanted, offers, proven, overtaken, unwatched, boundVars>>

(* The report is accepted, or its reply is lost, or it is not accepted.    *)
Report ==
  /\ agent = "report" /\ AgentStep
  /\ \/ staged' = staged \cup {wanted} /\ agent' = "activate" /\ UNCHANGED wanted
     \/ /\ staged' \in {staged, staged \cup {wanted}}
        /\ agent' = "poll" /\ wanted' = None
  /\ UNCHANGED <<fileVars, offers, proven, overtaken, unwatched, boundVars>>

(* systemd-run refuses a second unit of the same name, also next to one    *)
(* that has failed; the script may not be written, or systemd-run fails.   *)
Activate ==
  /\ agent = "activate" /\ unit = "up"
  /\ agent' = "poll" /\ wanted' = None
  /\ \/ /\ helper' = IF helper = "none" THEN "timer" ELSE helper
        /\ UNCHANGED boundVars
     \/ Fault /\ UNCHANGED helper
  /\ UNCHANGED <<fileVars, unitVars, offers, slept, enrolVars, life, historyVars>>

Upgrade == BeginUpgrade \/ Download \/ Report \/ Activate

-----------------------------------------------------------------------------
(* The script of Activate.  With "set -e" a command that fails ends it.    *)

Aborts    == Fault /\ helper' = "failed" /\ slept' = 0
GoesOn    == UNCHANGED <<slept, boundVars>>
NoRestart == UNCHANGED <<unitVars, agentVars>>

TimerFires ==
  /\ helper = "timer" /\ helper' = "copy" /\ GoesOn
  /\ NoRestart /\ UNCHANGED <<fileVars, historyVars>>

(* cp truncates a file, and fills it. *)
Copy ==
  /\ helper = "copy"
  /\ \/ helper' = "copying" /\ backup' = Torn /\ GoesOn
     \/ Aborts /\ UNCHANGED backup
  /\ NoRestart /\ UNCHANGED <<executable, new, historyVars>>

(* Faulty FinishCopy: no "set -e". *)
FinishCopyAnyway ==
  /\ helper = "copying" /\ helper' = "move" /\ UNCHANGED slept
  /\ \/ backup' = executable /\ UNCHANGED boundVars
     \/ Fault /\ UNCHANGED backup
  /\ NoRestart /\ UNCHANGED <<executable, new, historyVars>>

FinishCopy ==
  /\ helper = "copying"
  /\ \/ helper' = "move" /\ backup' = executable /\ GoesOn
     \/ Aborts /\ UNCHANGED backup
  /\ NoRestart /\ UNCHANGED <<executable, new, historyVars>>

(* mv and chmod. *)
Move ==
  /\ helper = "move"
  /\ \/ /\ new # None /\ executable' = new /\ new' = None
        /\ \/ helper' = "restart" /\ GoesOn /\ UNCHANGED unwatched
           \/ Aborts /\ unwatched' = TRUE
     \/ /\ new = None /\ helper' = "failed" /\ GoesOn
        /\ UNCHANGED <<executable, new, unwatched>>
     \/ Aborts /\ UNCHANGED <<executable, new, unwatched>>
  /\ NoRestart /\ UNCHANGED <<backup, staged, proven, overtaken>>

RestartNew ==
  /\ helper = "restart"
  /\ \/ /\ helper' = "sleep" /\ slept' = 0 /\ StartUnit
        /\ UNCHANGED <<unwatched, boundVars>>
     \/ Aborts /\ (StartUnit \/ NoRestart) /\ unwatched' = TRUE
  /\ UNCHANGED <<fileVars, staged, proven, overtaken>>

(* Faulty Check: a service about to be restarted counts as well. *)
CheckLoaded ==
  /\ helper = "sleep" /\ slept >= Patience
  /\ helper' = "clean" /\ slept' = 0 /\ proven' = proven \cup {executable}
  /\ NoRestart /\ UNCHANGED <<fileVars, staged, overtaken, unwatched, boundVars>>

(* A failure of systemctl itself reads like a service that is not active.  *)
Check ==
  /\ helper = "sleep" /\ slept >= Patience
  /\ \/ /\ unit = "up" /\ helper' = "clean" /\ slept' = 0
        /\ proven' = proven \cup {executable} /\ UNCHANGED boundVars
     \/ unit # "up" /\ helper' = "rollback" /\ GoesOn /\ UNCHANGED proven
     \/ Fault /\ helper' = "rollback" /\ UNCHANGED <<slept, proven>>
  /\ NoRestart /\ UNCHANGED <<fileVars, staged, overtaken, unwatched>>

(* cp cannot write to a file that is being executed.                       *)
RollBack ==
  /\ helper = "rollback"
  /\ \/ /\ unit # "up" /\ helper' = "restore" /\ executable' = Torn
        /\ GoesOn /\ UNCHANGED unwatched
     \/ /\ unit = "up" /\ helper' = "failed" /\ slept' = 0 /\ unwatched' = TRUE
        /\ UNCHANGED <<executable, boundVars>>
     \/ Aborts /\ unwatched' = TRUE /\ UNCHANGED executable
  /\ NoRestart /\ UNCHANGED <<new, backup, staged, proven, overtaken>>

(* Until then systemd may try to execute what is there. *)
FinishRollBack ==
  /\ helper = "restore"
  /\ \/ helper' = "again" /\ executable' = backup /\ GoesOn /\ UNCHANGED unwatched
     \/ Aborts /\ unwatched' = TRUE /\ UNCHANGED executable
  /\ NoRestart /\ UNCHANGED <<new, backup, staged, proven, overtaken>>

(* The script ends with an error in any case. *)
RestartOld ==
  /\ helper = "again" /\ helper' = "failed" /\ slept' = 0
  /\ \/ StartUnit /\ UNCHANGED boundVars
     \/ NoRestart /\ Fault
  /\ UNCHANGED <<fileVars, historyVars>>

Clean ==
  /\ helper = "clean"
  /\ \/ helper' = "none" /\ backup' = None /\ GoesOn
     \/ Aborts /\ backup' \in {backup, None}
  /\ NoRestart /\ UNCHANGED <<executable, new, historyVars>>

Script ==
  /\ \/ TimerFires \/ Copy \/ FinishCopy \/ Move \/ RestartNew \/ Check
     \/ RollBack \/ FinishRollBack \/ RestartOld \/ Clean
  /\ UNCHANGED <<enrolVars, life>>

-----------------------------------------------------------------------------
Next == Systemd \/ Kill \/ Tick \/ Reboot \/ Install \/ Upgrade \/ Script

Spec == Init /\ [][Next]_vars

(* Time passes, systemd acts and the script goes on; nobody has to install *)
(* or to upgrade.                                                          *)
FairSpec == Spec /\ WF_vars(Tick) /\ WF_vars(Systemd) /\ WF_vars(Script)

-----------------------------------------------------------------------------
(* When the installer is done, the identity it was given is on disk and    *)
(* its token is not (main.go:63-73; README.md:60-62).                      *)
InstalledIsEnrolled ==
  installer = "done" => config \in registered /\ tokenFile = 0

(* A binary of the server becomes the executable only after the server was *)
(* told that it is staged (command_dispatcher.go:394-398), unless the next *)
(* download overtook the script (manager_linux.go:36, 55).                 *)
InstalledWasStaged ==
  executable \in Versions => executable \in staged \/ overtaken

(* Until the verdict, the binary to go back to is one that has been found  *)
(* running, and not a copy cut short, unless an earlier script ended       *)
(* between its move and its verdict (manager_linux.go:54-60).              *)
RollsBackToProven ==
  helper \in Watching => backup \in proven \/ unwatched

(* A binary that dies within a second of every start, or is torn, does not *)
(* stay, unless a script ended between its move and the end of its verdict: *)
(* by a restart of the host, a busy file or a command that failed          *)
(* (manager_linux.go:53-63).                                               *)
Dead(binary) == binary = Torn \/ (binary \in Versions /\ life[binary] \in 0..1)

DeadIsRolledBack == []<>(~Dead(executable)) \/ <>unwatched
-----------------------------------------------------------------------------
(* The inductive invariant behind the safety properties.                   *)

(* What the installer has reached so far. *)
EnrolInv ==
  /\ installer = "enrol" => tokenFile \in Tokens
  /\ installer = "save" => identity \in registered
  /\ installer \in {"remove", "start", "done"} => config \in registered
  /\ installer \in {"start", "done"} => tokenFile = 0

Backed == {"move"} \cup Watching

(* Only an installed host upgrades. *)
HostInv ==
  /\ executable = None => unit = "off" /\ installer = "none" /\ helper = "none"
  /\ agent # "poll" => wanted \in Versions
  /\ agent = "activate" => wanted \in staged
  /\ agent = "download" /\ new = None =>
       helper = "restart" \/ (helper = "failed" /\ unwatched)
  /\ helper \in Backed => backup # None

(* Without an overtaking download, the file to be moved is the one that    *)
(* was reported.                                                           *)
StagedInv ==
  /\ InstalledWasStaged
  /\ ~overtaken =>
       /\ agent = "download" => new = Torn
       /\ agent \in {"report", "activate"} => new = wanted
       /\ agent # "poll" => helper \notin Moving
       /\ helper \in Moving => new \in staged
       /\ helper \in Backed => backup \in staged \/ backup \notin Versions

(* Outside the time between the move and the verdict, the executable is    *)
(* proven; within it, the backup is.                                       *)
ProvenInv ==
  /\ Old \in proven
  /\ ~unwatched =>
       /\ helper \notin Watching => executable \in proven \cup {None}
       /\ helper \in Backed => backup \in proven
       /\ helper = "again" => executable = backup

IInv == TypeOK /\ EnrolInv /\ HostInv /\ StagedInv /\ ProvenInv
=============================================================================
