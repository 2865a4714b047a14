------------------------ MODULE ClientMachine_proofs ------------------------
(* Proofs about ClientMachine, for any commands and any number of them, and   *)
(* any number of releases.  Every step is sorted twice: by what it does to    *)
(* the files of the executable, and by what it does to the configuration; for *)
(* NoticeTrue a third time, by what it does to the upgrades.                  *)
EXTENDS ClientMachine, TLAPS

(***************************************************************************)
(* Recoverable                                                             *)
(***************************************************************************)

\* While the history is sound one upgrade at a time is under way, and at each of
\* its steps one of the two files is whole.
WholeFiles ==
    /\ \A u, v \in Procs : inst[u] # "idle" /\ inst[v] # "idle" => u = v
    /\ \A u \in Procs : inst[u] \in {"backing", "installed", "done"} => exec \in Versions
    /\ \A u \in Procs :
        inst[u] \in {"backed", "removed", "copying", "restore", "restoring"} => backup \in Versions
    /\ exec \in Versions \/ backup \in Versions

(***************************************************************************)
(* SettingsKept                                                            *)
(***************************************************************************)

\* The daemon edits nothing and logs nobody in.
DaemonStages == {"down", "idle", "prerun", "greet", "notify", "renew", "check",
                 "checked", "decide", "announce", "install", "retract"}

\* Stages from which a process saves.
Saving == {"greet", "notify", "edit", "renew", "checked", "announce", "retract",
           "login", "register"}

\* `roamie upgrade` has not loaded the file and saves nothing.
Keeps(p) == stage[p] \in Holding /\ ~(p = "terminal" /\ stage[p] = "install")

\* What is in the file, and what will be saved by one whose copy is not stale, are
\* the settings that are wanted.
FileWanted ==
    /\ file \in Config => Agrees(file, wanted)
    /\ file = Absent => wanted = Reset

CopiesWanted ==
    \A p \in Procs : Keeps(p) /\ p \notin stale /\ p \notin writing =>
        /\ Agrees(copy[p], wanted)
        /\ stage[p] = "greet" => copy[p].auto

\* One that is writing is alone: nobody can load a torn file, and who loaded it
\* before has a stale copy.
OneWriter ==
    \A p \in writing :
        /\ writing = {p}
        /\ stage[p] \in Saving
        /\ file = Torn
        /\ Agrees(copy[p], Intended(p))
        /\ \A q \in Procs \ {p} : Keeps(q) => q \in stale

SettingsInv == FileWanted /\ CopiesWanted /\ OneWriter

MachineInv ==
    /\ TypeOK
    /\ sound => WholeFiles
    /\ stage["daemon"] \in DaemonStages
    /\ ~disturbed => SettingsInv

(***************************************************************************)
(* The kinds of steps                                                      *)
(***************************************************************************)

\* What p may load: the file, or a default one where there is none.
MayLoad(p, s, c) ==
    /\ stage[p] \in {"prerun", "command", "idle"}
    /\ s \in Stages /\ (p = "daemon" => s \in DaemonStages)
    /\ c \in Config
    /\ \/ s \notin Holding
       \/ file \in Config /\ c = Loaded(file)
       \/ file = Absent /\ c = Default
    /\ s = "greet" => c.auto

\* A step without a load does not make a copy.
MayLeave(p, s) ==
    /\ stage[p] \notin Saving \/ p \notin writing
    /\ s \in Stages \ {"greet"} /\ (p = "daemon" => s \in DaemonStages)
    /\ s \in Holding => Keeps(p) \/ (p = "terminal" /\ s = "install")

\* A killed terminal goes to idle; one that kills was not saving.
MayKill(p, t) ==
    \/ p = "terminal" /\ t = "idle"
    \/ p = "daemon" /\ t = stage["terminal"]
    \/ p = "daemon" /\ stage["terminal"] \in {"command", "restart"} /\ t \in {"idle", "delete"}

\* Begin and SetupDaemon.
Starts ==
    /\ stage["terminal"] \in {"idle", "setup"}
    /\ \E s \in {"prerun", "command"} : stage' = [stage EXCEPT !["terminal"] = s]
    /\ cmd' \in AllCommands
    /\ UNCHANGED config

ConfigStep ==
    \/ \E p \in Procs : BeginSave(p) \/ EndSave(p) \/ Delete(p)
    \/ \E p \in Procs, s \in Stages, c \in Config : MayLoad(p, s, c) /\ Load(p, s, c)
    \/ \E p \in Procs, s \in Stages : MayLeave(p, s) /\ Leave(p, s)
    \/ \E p \in Procs, t \in Stages : MayKill(p, t) /\ Killed(p, t)
    \/ Starts
    \/ UNCHANGED <<config, stage, cmd>>

Download(p) ==
    /\ inst[p] = "checked" /\ To(p, "download")
    /\ UNCHANGED <<files, latest, got, sound>>

BinaryStep ==
    \/ \E p \in Procs : CheckForUpdates(p) \/ Download(p) \/ Upgrade(p) \/ Forget(p)
    \/ Release
    \/ UNCHANGED binary

MachineStep ==
    /\ service' \in BOOLEAN
    /\ running' \in {running, 0} \/ (running' = exec /\ exec \in Versions)
    /\ given' \in 0 .. MaxCommands
    /\ damaged' \in BOOLEAN

-----------------------------------------------------------------------------
\* A loaded configuration is a configuration, and what the file says.
LEMMA LoadedConfig ==
    ASSUME NEW c \in Config
    PROVE  /\ Loaded(c) \in Config
           /\ \A w \in Switches : Agrees(c, w) => Agrees(Loaded(c), w)
BY DEF Loaded, Agrees, Config

\* PreRun: one of the loads, for either process.
LEMMA PreRunLoads ==
    ASSUME TypeOK, NEW p \in Procs, PreRun(p)
    PROVE  \E s \in Stages, c \in Config : MayLoad(p, s, c) /\ Load(p, s, c)
<1>1. CASE file \in Config
  <2> DEFINE c == Loaded(file)
             s == IF ~c.info /\ c.auto THEN "greet" ELSE Notify(p, c)
  <2>1. c \in Config
    BY <1>1, LoadedConfig
  <2>2. Load(p, s, c) /\ stage[p] = "prerun"
    BY <1>1 DEF PreRun
  <2>3. s \in {"greet", "notify", Command(p)} /\ (s = "greet" => c.auto)
    <3>1. Notify(p, c) \in {"notify", Command(p)} /\ Command(p) # "greet"
      BY DEF Notify, Command
    <3>2. CASE ~c.info /\ c.auto
      BY <3>2
    <3>3. CASE ~(~c.info /\ c.auto)
      BY <3>1, <3>3
    <3> QED BY <3>2, <3>3
  <2>4. Command(p) \in Stages \ Holding /\ (p = "daemon" => Command(p) = "idle")
    BY DEF Command, Stages, Holding
  <2>5. s \in Stages /\ (p = "daemon" => s \in DaemonStages)
    BY <2>3, <2>4 DEF Stages, Holding, DaemonStages
  <2> HIDE DEF c, s
  <2>6. c = Loaded(file)
    BY DEF c
  <2> QED BY <1>1, <2>1, <2>2, <2>3, <2>4, <2>5, <2>6 DEF MayLoad
<1>2. CASE file \notin Config
  <2>1. stage[p] = "prerun" /\ Load(p, Command(p), Fresh)
    BY <1>2 DEF PreRun
  <2>2. Command(p) \in Stages \ Holding /\ Command(p) # "greet"
        /\ (p = "daemon" => Command(p) \in DaemonStages)
    BY DEF Command, Stages, Holding, DaemonStages
  <2>3. Fresh \in Config
    BY VersionsAssumption DEF Fresh, Config
  <2> QED BY <2>1, <2>2, <2>3 DEF MayLoad
<1> QED BY <1>1, <1>2

\* What a load, a step to another stage and a kill leave alone.
LEMMA LoadKind ==
    ASSUME TypeOK, NEW p \in Procs, NEW s \in Stages, NEW c \in Config,
           MayLoad(p, s, c), Load(p, s, c)
    PROVE  ConfigStep /\ BinaryStep /\ MachineStep
<1>1. ConfigStep
  BY DEF ConfigStep
<1>2. UNCHANGED binary /\ UNCHANGED machine
  BY DEF Load
<1>3. BinaryStep
  BY <1>2 DEF BinaryStep
<1>4. MachineStep
  BY <1>2 DEF MachineStep, TypeOK, machine
<1> QED BY <1>1, <1>3, <1>4

LEMMA LeaveKind ==
    ASSUME NEW p \in Procs, NEW s \in Stages, MayLeave(p, s), Leave(p, s)
    PROVE  ConfigStep
BY DEF ConfigStep

LEMMA KilledKind ==
    ASSUME TypeOK, NEW p \in Procs, NEW t \in Stages, MayKill(p, t), Killed(p, t),
           service' \in BOOLEAN
    PROVE  ConfigStep /\ BinaryStep /\ MachineStep
<1>1. ConfigStep
  BY DEF ConfigStep
<1>2. Forget(p) /\ running' \in {running, 0} /\ given' = given
  BY DEF Killed
<1>3. damaged' \in BOOLEAN
  <2>1. damaged' = ((damaged \/ p \in writing)
                    \/ (inst[p] \notin {"idle", "checked", "done"}
                        \/ (p = "daemon" /\ stage[p] \in {"install", "retract"} /\ inst[p] # "done")))
    BY DEF Killed
  <2>2. damaged \in BOOLEAN
    BY DEF TypeOK
  <2> QED BY <2>1, <2>2
<1>4. BinaryStep
  BY <1>2 DEF BinaryStep
<1>5. MachineStep
  BY <1>2, <1>3 DEF MachineStep, TypeOK
<1> QED BY <1>1, <1>4, <1>5

\* A step that leaves the executable and the machine alone.
LEMMA QuietKind ==
    ASSUME TypeOK, UNCHANGED <<binary, machine>>
    PROVE  BinaryStep /\ MachineStep
BY DEF BinaryStep, MachineStep, TypeOK, machine

LEMMA SystemctlKind ==
    ASSUME TypeOK, NEW t \in {"idle", "delete"},
           stage["terminal"] \in {"command", "restart"},
           Systemctl(t), service' \in BOOLEAN
    PROVE  ConfigStep /\ BinaryStep /\ MachineStep
<1>1. t \in Stages /\ "daemon" \in Procs /\ "terminal" \in Procs
  BY DEF Stages, Procs
<1>2. CASE Killed("daemon", t)
  <2>1. MayKill("daemon", t)
    BY DEF MayKill
  <2> QED BY <1>1, <1>2, <2>1, KilledKind
<1>3. CASE Leave("terminal", t) /\ UNCHANGED <<binary, running, given, damaged>>
  <2>1. MayLeave("terminal", t)
    BY DEF MayLeave, Saving, Stages, Holding
  <2>2. ConfigStep
    BY <1>1, <1>3, <2>1, LeaveKind
  <2>3. BinaryStep /\ MachineStep
    BY <1>3 DEF BinaryStep, MachineStep, TypeOK
  <2> QED BY <2>2, <2>3
<1> QED BY <1>2, <1>3 DEF Systemctl

-----------------------------------------------------------------------------
\* The actions that both processes have.
LEMMA SharedKind ==
    ASSUME TypeOK, stage["daemon"] \in DaemonStages, NEW p \in Procs,
           PreRun(p) \/ BeginSave(p) \/ EndSave(p) \/ Delete(p) \/ LoadToRenew(p) \/ NoSave(p)
    PROVE  ConfigStep /\ BinaryStep /\ MachineStep
<1>1. CASE PreRun(p)
  BY <1>1, PreRunLoads, LoadKind
<1>2. CASE BeginSave(p) \/ EndSave(p) \/ Delete(p)
  <2>1. ConfigStep
    BY <1>2 DEF ConfigStep
  <2>2. UNCHANGED <<binary, machine>>
    BY <1>2 DEF BeginSave, EndSave, Delete
  <2> QED BY <2>1, <2>2, QuietKind
<1>3. CASE LoadToRenew(p)
  <2>1. Load(p, "renew", Loaded(file)) /\ file \in Config /\ stage[p] \in {"idle", "command"}
    BY <1>3 DEF LoadToRenew
  <2>2. Loaded(file) \in Config /\ "renew" \in Stages
    BY <2>1, LoadedConfig DEF Stages, Holding
  <2>3. MayLoad(p, "renew", Loaded(file))
    BY <2>1, <2>2 DEF MayLoad, DaemonStages
  <2> QED BY <2>1, <2>2, <2>3, LoadKind
<1>4. CASE NoSave(p)
  <2>1. BinaryStep /\ MachineStep
    BY <1>4, QuietKind DEF NoSave
  <2>2. "idle" \in Stages /\ "setup" \in Stages /\ p \notin writing
    BY <1>4 DEF Stages, NoSave
  <2>3. CASE Leave(p, "idle")
    <3>1. MayLeave(p, "idle")
      BY <2>2 DEF MayLeave, Holding, DaemonStages
    <3> QED BY <2>1, <2>2, <2>3, <3>1, LeaveKind
  <2>4. CASE stage[p] = "register" /\ Leave(p, "setup")
    <3>1. p # "daemon"
      BY <2>4 DEF DaemonStages
    <3>2. MayLeave(p, "setup")
      BY <2>2, <3>1 DEF MayLeave, Holding
    <3> QED BY <2>1, <2>2, <2>4, <3>2, LeaveKind
  <2> QED BY <1>4, <2>3, <2>4 DEF NoSave
<1> QED BY <1>1, <1>2, <1>3, <1>4

\* The upgrades of both.
LEMMA UpgradingKind ==
    ASSUME TypeOK, stage["daemon"] \in DaemonStages, NEW p \in Procs,
           Check(p) \/ NoUpdate(p) \/ Install(p) \/ InstallFailed(p) \/ Installed(p)
    PROVE  ConfigStep /\ BinaryStep /\ MachineStep
<1>0. "idle" \in Stages /\ "checked" \in Stages /\ "install" \in Stages
      /\ "retract" \in Stages /\ "restart" \in Stages /\ "daemon" \in Procs /\ "terminal" \in Procs
  BY DEF Stages, Holding, Procs
<1>1. CASE Check(p)
  <2>1. BinaryStep /\ MachineStep
    BY <1>1 DEF Check, BinaryStep, MachineStep, TypeOK, machine
  <2>2. CASE p = "daemon" /\ stage[p] = "check" /\ Leave(p, "checked")
    <3>1. MayLeave(p, "checked")
      BY <1>0, <2>2 DEF MayLeave, Keeps, Saving, Holding, DaemonStages
    <3> QED BY <1>0, <2>1, <2>2, <3>1, LeaveKind
  <2>3. CASE p = "terminal" /\ stage[p] = "command" /\ Leave(p, "install")
    <3>1. MayLeave(p, "install")
      BY <1>0, <2>3 DEF MayLeave, Saving
    <3> QED BY <1>0, <2>1, <2>3, <3>1, LeaveKind
  <2> QED BY <1>1, <2>2, <2>3 DEF Check
<1>2. CASE NoUpdate(p)
  <2>1. BinaryStep /\ MachineStep
    BY <1>2 DEF NoUpdate, BinaryStep, MachineStep, TypeOK, machine
  <2>2. MayLeave(p, "idle") /\ Leave(p, "idle")
    BY <1>0, <1>2 DEF NoUpdate, MayLeave, Saving, Holding, DaemonStages
  <2> QED BY <1>0, <2>1, <2>2, LeaveKind
<1>3. CASE Install(p)
  <2>1. UNCHANGED <<service, running, given, cmd, stage, config>> /\ stage[p] = "install"
    BY <1>3 DEF Install
  <2>2. ConfigStep
    BY <2>1 DEF ConfigStep
  <2>3. CASE inst[p] = "checked" /\ To(p, "download") /\ UNCHANGED <<files, latest, got, sound, damaged>>
    BY <2>1, <2>2, <2>3 DEF BinaryStep, Download, MachineStep, TypeOK
  <2>4. CASE Upgrade(p) /\ damaged' = (damaged \/ RestoreFails(p))
    <3>1. BinaryStep
      BY <2>4 DEF BinaryStep
    <3>2. damaged' \in BOOLEAN
      BY <2>4
    <3>3. MachineStep
      BY <2>1, <3>2 DEF MachineStep, TypeOK
    <3> QED BY <2>2, <3>1, <3>3
  <2> QED BY <1>3, <2>3, <2>4 DEF Install
<1>4. CASE InstallFailed(p)
  <2>1. BinaryStep /\ MachineStep
    BY <1>4 DEF InstallFailed, BinaryStep, MachineStep, TypeOK, machine
  <2> DEFINE t == IF p = "daemon" THEN "retract" ELSE "idle"
  <2>2. MayLeave(p, t) /\ Leave(p, t) /\ t \in Stages
    BY <1>0, <1>4 DEF InstallFailed, MayLeave, Keeps, Saving, Holding, DaemonStages
  <2> QED BY <2>1, <2>2, LeaveKind
<1>5. CASE Installed(p)
  <2>0. service' = service /\ service \in BOOLEAN /\ stage["terminal"] \in Stages
    BY <1>0, <1>5 DEF Installed, TypeOK
  <2>1. CASE p = "daemon" /\ Killed(p, stage["terminal"])
    <3>1. MayKill(p, stage["terminal"])
      BY <2>1 DEF MayKill
    <3> QED BY <2>0, <2>1, <3>1, KilledKind
  <2>2. CASE p = "terminal" /\ Forget(p) /\ Leave(p, "restart") /\ UNCHANGED <<running, given, damaged>>
    <3>1. BinaryStep /\ MachineStep
      BY <1>0, <2>0, <2>2 DEF BinaryStep, MachineStep, TypeOK
    <3>2. MayLeave(p, "restart")
      BY <1>0, <1>5, <2>2 DEF Installed, MayLeave, Saving, Holding
    <3> QED BY <1>0, <2>2, <3>1, <3>2, LeaveKind
  <2> QED BY <1>5, <2>1, <2>2 DEF Installed
<1> QED BY <1>1, <1>2, <1>3, <1>4, <1>5

\* The actions of the daemon alone.
LEMMA DaemonKind ==
    ASSUME TypeOK, stage["daemon"] \in DaemonStages,
           StartDaemon \/ Die("daemon") \/ LoadToUpgrade \/ Announce
    PROVE  ConfigStep /\ BinaryStep /\ MachineStep
<1>0. "prerun" \in Stages /\ "announce" \in Stages /\ "check" \in Stages
      /\ "daemon" \in Procs /\ stage["terminal"] \in Stages
  BY DEF Stages, Holding, Procs, TypeOK
<1>1. CASE StartDaemon
  <2>1. MayLeave("daemon", "prerun") /\ Leave("daemon", "prerun")
    BY <1>0, <1>1 DEF StartDaemon, MayLeave, Saving, Holding, DaemonStages
  <2>2. BinaryStep /\ MachineStep
    BY <1>1 DEF StartDaemon, BinaryStep, MachineStep, TypeOK
  <2> QED BY <1>0, <2>1, <2>2, LeaveKind
<1>2. CASE Die("daemon")
  <2>1. Killed("daemon", stage["terminal"]) /\ service' = service
    BY <1>2 DEF Die
  <2>2. MayKill("daemon", stage["terminal"])
    BY DEF MayKill
  <2> QED BY <1>0, <2>1, <2>2, KilledKind DEF TypeOK
<1>3. CASE LoadToUpgrade
  <2>1. Load("daemon", "check", Loaded(file)) /\ file \in Config /\ stage["daemon"] = "idle"
    BY <1>3 DEF LoadToUpgrade
  <2>2. MayLoad("daemon", "check", Loaded(file)) /\ Loaded(file) \in Config
    BY <1>0, <2>1, LoadedConfig DEF MayLoad, DaemonStages
  <2> QED BY <1>0, <2>1, <2>2, LoadKind
<1>4. CASE Announce
  <2>1. MayLeave("daemon", "announce") /\ Leave("daemon", "announce")
    BY <1>0, <1>4 DEF Announce, MayLeave, Keeps, Saving, Holding, DaemonStages
  <2>2. BinaryStep /\ MachineStep
    BY <1>4, QuietKind DEF Announce
  <2> QED BY <1>0, <2>1, <2>2, LeaveKind
<1> QED BY <1>1, <1>2, <1>3, <1>4

\* The commands of the terminal.
LEMMA CommandKind ==
    ASSUME TypeOK, stage["daemon"] \in DaemonStages,
           LoadSwitches \/ Approved \/ EndCommand \/ Die("terminal")
    PROVE  ConfigStep /\ BinaryStep /\ MachineStep
<1>0. "edit" \in Stages /\ "login" \in Stages /\ "idle" \in Stages /\ "terminal" \in Procs
  BY DEF Stages, Holding, Procs
<1>1. CASE LoadSwitches
  <2>1. PICK c \in {Loaded(file), Default} :
           /\ Load("terminal", "edit", c) /\ stage["terminal"] = "command"
           /\ (file \in Config /\ c = Loaded(file)) \/ (file = Absent /\ c = Default)
    BY <1>1 DEF LoadSwitches
  <2>2. c \in Config
    <3>1. Default \in Config
      BY VersionsAssumption DEF Default, Config
    <3> QED BY <2>1, <3>1, LoadedConfig
  <2>3. MayLoad("terminal", "edit", c)
    BY <1>0, <2>1, <2>2 DEF MayLoad
  <2> QED BY <1>0, <2>1, <2>2, <2>3, LoadKind
<1>2. CASE Approved
  <2>1. MayLeave("terminal", "login") /\ Leave("terminal", "login")
    BY <1>0, <1>2 DEF Approved, MayLeave, Saving, Holding
  <2>2. BinaryStep /\ MachineStep
    BY <1>2, QuietKind DEF Approved
  <2> QED BY <1>0, <2>1, <2>2, LeaveKind
<1>3. CASE EndCommand
  <2>1. stage["terminal"] \notin Saving
    BY <1>3 DEF EndCommand, Saving
  <2>2. MayLeave("terminal", "idle") /\ Leave("terminal", "idle")
    BY <1>0, <1>3, <2>1 DEF EndCommand, MayLeave, Holding
  <2>3. BinaryStep /\ MachineStep
    BY <1>3, QuietKind DEF EndCommand
  <2> QED BY <1>0, <2>2, <2>3, LeaveKind
<1>4. CASE Die("terminal")
  <2>1. Killed("terminal", "idle") /\ service' = service
    BY <1>4 DEF Die
  <2>2. MayKill("terminal", "idle")
    BY DEF MayKill
  <2> QED BY <1>0, <2>1, <2>2, KilledKind DEF TypeOK
<1> QED BY <1>1, <1>2, <1>3, <1>4

\* The commands that act on the service.
LEMMA ServiceKind ==
    ASSUME TypeOK, InstallService \/ UninstallService \/ RestartDaemon \/ StopService
    PROVE  ConfigStep /\ BinaryStep /\ MachineStep
<1>1. PICK t \in {"idle", "delete"} : Systemctl(t)
  BY DEF InstallService, UninstallService, RestartDaemon, StopService
<1>2. stage["terminal"] \in {"command", "restart"} /\ service' \in BOOLEAN
  BY DEF InstallService, UninstallService, RestartDaemon, StopService, TypeOK
<1> QED BY <1>1, <1>2, SystemctlKind

\* The beginning of a command.
LEMMA BeginKind ==
    ASSUME TypeOK, SetupDaemon \/ \E c \in Commands : Begin(c)
    PROVE  ConfigStep /\ BinaryStep /\ MachineStep
<1>1. Starts /\ UNCHANGED <<binary, service, running, damaged>> /\ given' \in 0 .. MaxCommands
  <2>1. CASE SetupDaemon
    BY <2>1 DEF SetupDaemon, Starts, AllCommands, machine, TypeOK
  <2>2. ASSUME NEW c \in Commands, Begin(c)
        PROVE  Starts /\ UNCHANGED <<binary, service, running, damaged>> /\ given' \in 0 .. MaxCommands
    <3>1. c \in AllCommands
      BY MachineAssumption
    <3>2. \E s \in {"prerun", "command"} : stage' = [stage EXCEPT !["terminal"] = s]
      BY <2>2 DEF Begin
    <3>3. given' \in 0 .. MaxCommands
      <4>1. given < MaxCommands /\ given' = given + 1
        BY <2>2 DEF Begin
      <4>2. given \in 0 .. MaxCommands /\ MaxCommands \in Nat
        BY MachineAssumption DEF TypeOK
      <4> QED BY <4>1, <4>2
    <3>4. stage["terminal"] = "idle" /\ cmd' = c /\ UNCHANGED config
      BY <2>2 DEF Begin
    <3>5. Starts
      BY <3>1, <3>2, <3>4 DEF Starts
    <3>6. UNCHANGED <<binary, service, running, damaged>>
      BY <2>2 DEF Begin
    <3> QED BY <3>3, <3>5, <3>6
  <2> QED BY <2>1, <2>2
<1>2. BinaryStep /\ MachineStep
  BY <1>1 DEF BinaryStep, MachineStep, TypeOK
<1> QED BY <1>1, <1>2 DEF ConfigStep

\* Every step is of these kinds.
LEMMA NextKind ==
    ASSUME TypeOK, stage["daemon"] \in DaemonStages, Next
    PROVE  ConfigStep /\ BinaryStep /\ MachineStep
<1>0. "daemon" \in Procs /\ "terminal" \in Procs
  BY DEF Procs
<1>1. CASE Daemon
  <2>1. CASE Serve
    BY <1>0, <2>1, SharedKind, UpgradingKind, DaemonKind DEF Serve
  <2>2. CASE StartDaemon \/ Die("daemon")
    BY <2>2, DaemonKind
  <2> QED BY <1>1, <2>1, <2>2 DEF Daemon
<1>2. CASE Terminal
  <2>1. CASE Perform
    BY <1>0, <2>1, SharedKind, UpgradingKind, CommandKind, ServiceKind, BeginKind DEF Perform
  <2>2. CASE Die("terminal")
    BY <2>2, CommandKind
  <2>3. CASE \E c \in Commands : Begin(c)
    BY <2>3, BeginKind
  <2> QED BY <1>2, <2>1, <2>2, <2>3 DEF Terminal
<1>3. CASE Publish
  <2>1. BinaryStep /\ MachineStep
    BY <1>3 DEF Publish, BinaryStep, MachineStep, TypeOK, machine
  <2>2. ConfigStep
    BY <1>3 DEF Publish, ConfigStep
  <2> QED BY <2>1, <2>2
<1> QED BY <1>1, <1>2, <1>3 DEF Next

-----------------------------------------------------------------------------
\* The executable's files keep their types, ...
LEMMA BinaryTypeKept ==
    ASSUME BinaryTypeOK, BinaryStep
    PROVE  BinaryTypeOK'
<1>0. Upgraders = Procs
  BY MachineAssumption
<1>1. ASSUME NEW p \in Procs, NEW s \in Steps, To(p, s)
      PROVE  inst' \in [Upgraders -> Steps]
  BY <1>0, <1>1 DEF To, BinaryTypeOK
<1>2. ASSUME NEW p \in Procs, CheckForUpdates(p)
      PROVE  BinaryTypeOK'
  <2>1. inst' \in [Upgraders -> Steps]
    BY <1>1, <1>2 DEF CheckForUpdates, Steps
  <2>2. got' \in [Upgraders -> Versions]
    BY <1>0, <1>2 DEF CheckForUpdates, BinaryTypeOK
  <2>3. sound' \in BOOLEAN
    BY <1>2 DEF CheckForUpdates
  <2> QED BY <1>2, <2>1, <2>2, <2>3 DEF CheckForUpdates, BinaryTypeOK, files
<1>3. ASSUME NEW p \in Procs, Download(p) \/ Upgrade(p)
      PROVE  BinaryTypeOK'
  <2>1. inst' \in [Upgraders -> Steps]
    BY <1>1, <1>3 DEF Upgrade, Download, Steps, BeginBackup, EndBackup, GiveUp, RemoveOld,
       BeginCopy, EndCopy, ReplaceFails, BeginRestore, EndRestore, RestoreFails, RemoveBackup
  <2>2. exec' \in Content /\ backup' \in Content
    <3>1. got[p] \in Content /\ exec \in Content /\ backup \in Content
      BY <1>0 DEF BinaryTypeOK, Content
    <3> QED BY <1>3, <3>1 DEF Upgrade, Download, Content, files, BeginBackup, EndBackup, GiveUp,
       RemoveOld, BeginCopy, EndCopy, ReplaceFails, BeginRestore, EndRestore, RestoreFails,
       RemoveBackup
  <2>3. latest' = latest /\ got' = got
    BY <1>3 DEF Upgrade, Download, BeginBackup, EndBackup, GiveUp,
       RemoveOld, BeginCopy, EndCopy, ReplaceFails, BeginRestore, EndRestore, RestoreFails,
       RemoveBackup
  <2>4. sound' \in BOOLEAN
    BY <1>3 DEF Upgrade, Download, BeginBackup, EndBackup, GiveUp, BinaryTypeOK,
       RemoveOld, BeginCopy, EndCopy, ReplaceFails, BeginRestore, EndRestore, RestoreFails,
       RemoveBackup
  <2> QED BY <2>1, <2>2, <2>3, <2>4 DEF BinaryTypeOK
<1>4. ASSUME NEW p \in Procs, Forget(p)
      PROVE  BinaryTypeOK'
  <2>1. inst' \in [Upgraders -> Steps]
    BY <1>1, <1>4 DEF Forget, Steps
  <2>2. got' \in [Upgraders -> Versions]
    BY <1>0, <1>4, VersionsAssumption DEF Forget, BinaryTypeOK, Versions
  <2> QED BY <1>4, <2>1, <2>2 DEF Forget, BinaryTypeOK, files
<1>5. CASE Release
  BY <1>5, VersionsAssumption DEF Release, BinaryTypeOK, files, Versions
<1>6. CASE UNCHANGED binary
  BY <1>6 DEF binary, files, BinaryTypeOK
<1> QED BY <1>2, <1>3, <1>4, <1>5, <1>6 DEF BinaryStep

\* ... and one of them stays whole.
LEMMA WholeKept ==
    ASSUME BinaryTypeOK, sound, WholeFiles, BinaryStep
    PROVE  sound' => WholeFiles'
<1>0. inst \in [Procs -> Steps] /\ got \in [Procs -> Versions] /\ latest \in Versions
      /\ exec \in Versions \cup {Missing, Broken} /\ backup \in Versions \cup {Missing, Broken}
  BY MachineAssumption DEF BinaryTypeOK, Content
<1>1. ASSUME NEW p \in Procs, NEW s \in Steps, To(p, s)
      PROVE  /\ inst'[p] = s
             /\ \A u \in Procs \ {p} : inst'[u] = inst[u]
  BY <1>0, <1>1 DEF To
<1>2. ASSUME NEW p \in Procs, CheckForUpdates(p), sound'
      PROVE  WholeFiles'
  <2>1. inst'[p] = "checked" /\ \A u \in Procs \ {p} : inst'[u] = inst[u]
    BY <1>1, <1>2 DEF CheckForUpdates, Steps
  <2>2. \A u \in Procs \ {p} : inst[u] = "idle"
    BY <1>2, MachineAssumption DEF CheckForUpdates
  <2>3. UNCHANGED files
    BY <1>2 DEF CheckForUpdates
  <2> QED BY <2>1, <2>2, <2>3 DEF WholeFiles, files
<1>3. ASSUME NEW p \in Procs, Forget(p)
      PROVE  WholeFiles'
  <2>1. inst'[p] = "idle" /\ \A u \in Procs \ {p} : inst'[u] = inst[u]
    BY <1>1, <1>3 DEF Forget, Steps
  <2>2. UNCHANGED files
    BY <1>3 DEF Forget
  <2> QED BY <2>1, <2>2 DEF WholeFiles, files
<1>4. ASSUME NEW p \in Procs, Download(p) \/ Upgrade(p), sound'
      PROVE  WholeFiles'
  <2>1. PICK s \in Steps : To(p, s)
    BY <1>4 DEF Upgrade, Download, Steps, BeginBackup, EndBackup, GiveUp, RemoveOld,
       BeginCopy, EndCopy, ReplaceFails, BeginRestore, EndRestore, RestoreFails, RemoveBackup
  <2>2. inst'[p] = s /\ \A u \in Procs \ {p} : inst'[u] = inst[u]
    BY <1>1, <2>1
  <2>3. inst[p] # "idle"
    BY <1>4 DEF Upgrade, Download, BeginBackup, EndBackup, GiveUp, RemoveOld,
       BeginCopy, EndCopy, ReplaceFails, BeginRestore, EndRestore, RestoreFails, RemoveBackup
  <2>4. \A u \in Procs \ {p} : inst[u] = "idle" /\ inst'[u] = "idle"
    BY <2>2, <2>3 DEF WholeFiles
  <2>5. /\ inst'[p] \in {"backing", "installed", "done"} => exec' \in Versions
        /\ inst'[p] \in {"backed", "removed", "copying", "restore", "restoring"} => backup' \in Versions
        /\ exec' \in Versions \/ backup' \in Versions
    <3>1. CASE Download(p) \/ GiveUp(p) \/ ReplaceFails(p) \/ RestoreFails(p)
      BY <1>0, <3>1 DEF WholeFiles, Download, GiveUp, ReplaceFails, RestoreFails, To, files
    <3>2. CASE BeginBackup(p) \/ EndBackup(p)
      BY <1>0, <1>4, <3>2 DEF WholeFiles, BeginBackup, EndBackup, To
    <3>3. CASE RemoveOld(p) \/ BeginCopy(p)
      <4>1. inst'[p] \in {"removed", "copying"} /\ inst[p] \in {"backed", "removed"} /\ backup' = backup
        BY <1>0, <3>3 DEF RemoveOld, BeginCopy, To
      <4> QED BY <4>1 DEF WholeFiles
    <3>5. CASE EndCopy(p)
      <4>1. inst'[p] = "installed" /\ exec' = got[p]
        BY <1>0, <3>5 DEF EndCopy, To
      <4> QED BY <1>0, <4>1
    <3>4. CASE BeginRestore(p) \/ EndRestore(p) \/ RemoveBackup(p)
      BY <1>0, <3>4 DEF WholeFiles, BeginRestore, EndRestore, RemoveBackup, To
    <3> QED BY <1>4, <3>1, <3>2, <3>3, <3>4, <3>5 DEF Upgrade
  <2> QED BY <2>2, <2>4, <2>5 DEF WholeFiles
<1>5. CASE Release \/ UNCHANGED binary
  BY <1>5 DEF Release, binary, files, WholeFiles
<1> QED BY <1>2, <1>3, <1>4, <1>5 DEF BinaryStep

-----------------------------------------------------------------------------
\* What is saved is a configuration, and what is wanted afterwards are switches.
LEMMA EditedConfig ==
    ASSUME TypeOK, NEW p \in Procs
    PROVE  Edited(p) \in Config /\ Intended(p) \in Switches
<1>1. copy[p] \in Config /\ wanted \in Switches
  BY DEF TypeOK
<1>2. got[p] \in 0 .. MaxVersion /\ 0 \in 0 .. MaxVersion
  BY MachineAssumption, VersionsAssumption DEF TypeOK, BinaryTypeOK, Versions
<1>3. \A e \in BOOLEAN : [copy[p] EXCEPT !.switch = e] \in Config
                         /\ [copy[p] EXCEPT !.info = e] \in Config
                         /\ [copy[p] EXCEPT !.auto = e] \in Config
  BY <1>1 DEF Config
<1>4. \A n \in 0 .. MaxVersion : [copy[p] EXCEPT !.notice = n] \in Config
  BY <1>1 DEF Config
<1>5. SwitchedOff(copy[p]) \in Config /\ Fresh \in Config
  BY <1>1, <1>2 DEF SwitchedOff, Fresh, Config
<1>6. Edited(p) \in Config
  BY <1>1, <1>2, <1>3, <1>4, <1>5 DEF Edited
<1>7. Intended(p) \in Switches
  BY <1>1 DEF Intended, Switches, Reset
<1> QED BY <1>6, <1>7

LEMMA AfterSaveStage ==
    ASSUME NEW p \in Procs
    PROVE  /\ AfterSave(p) \in Stages
           /\ p = "daemon" /\ stage[p] \in DaemonStages => AfterSave(p) \in DaemonStages
           /\ AfterSave(p) # "greet"
<1>1. Command(p) \in {"idle", "command"} /\ (p = "daemon" => Command(p) = "idle")
  BY DEF Command
<1>2. Notify(p, copy[p]) \in {"notify", Command(p)}
  BY DEF Notify
<1>3. AfterSave(p) \in {"notify", "idle", "command", "decide", "install", "register", "setup"}
  BY <1>1, <1>2 DEF AfterSave
<1>4. ASSUME p = "daemon", stage[p] \in DaemonStages
      PROVE  AfterSave(p) \in DaemonStages
  <2>1. stage[p] \notin {"login", "register"}
    BY <1>4 DEF DaemonStages
  <2>2. AfterSave(p) \in {"notify", "idle", "decide", "install"}
    BY <1>1, <1>2, <1>4, <2>1 DEF AfterSave
  <2> QED BY <2>2 DEF DaemonStages
<1> QED BY <1>3, <1>4 DEF Stages, Holding

\* The types of the configuration's part of the state.
ConfigTypeOK ==
    /\ file \in Config \cup {Absent, Torn}
    /\ cmd \in AllCommands \cup {"none"}
    /\ stage \in [Procs -> Stages]
    /\ copy \in [Procs -> Config]
    /\ writing \in SUBSET Procs /\ stale \in SUBSET Procs
    /\ disturbed \in BOOLEAN
    /\ wanted \in Switches
    /\ stage["daemon"] \in DaemonStages

LEMMA GoTypes ==
    ASSUME TypeOK, stage["daemon"] \in DaemonStages, NEW p \in Procs, NEW s \in Stages,
           NEW c \in Config, Go(p, s, c), p = "daemon" => s \in DaemonStages
    PROVE  /\ cmd' \in AllCommands \cup {"none"}
           /\ stage' \in [Procs -> Stages]
           /\ copy' \in [Procs -> Config]
           /\ stage'["daemon"] \in DaemonStages
<1>1. Fresh \in Config
  BY VersionsAssumption DEF Fresh, Config
<1>2. stage' = [stage EXCEPT ![p] = s] /\ stage \in [Procs -> Stages]
  BY DEF Go, TypeOK
<1>3. stage' \in [Procs -> Stages]
  BY <1>2
<1>4. stage'["daemon"] \in DaemonStages
  BY <1>2 DEF Procs
<1>5. copy' \in [Procs -> Config]
  BY <1>1 DEF Go, TypeOK
<1>6. cmd' \in AllCommands \cup {"none"}
  BY DEF Go, TypeOK
<1> QED BY <1>3, <1>4, <1>5, <1>6

LEMMA ConfigTypeKept ==
    ASSUME TypeOK, stage["daemon"] \in DaemonStages, ConfigStep
    PROVE  ConfigTypeOK'
<1>0. Fresh \in Config /\ Reset \in Switches /\ "idle" \in Stages /\ "idle" \in DaemonStages
      /\ "down" \in Stages /\ "down" \in DaemonStages
  BY VersionsAssumption DEF Fresh, Config, Reset, Switches, Stages, DaemonStages
<1>1. ASSUME NEW p \in Procs, BeginSave(p)
      PROVE  ConfigTypeOK'
  <2>1. Edited(p) \in Config
    BY EditedConfig
  <2>2. copy' \in [Procs -> Config]
    BY <1>1, <2>1 DEF BeginSave, TypeOK
  <2>3. stage' = stage /\ cmd' = cmd /\ wanted' = wanted /\ file' = Torn
    BY <1>1 DEF BeginSave
  <2>4. writing' \in SUBSET Procs /\ stale' \in SUBSET Procs /\ disturbed' \in BOOLEAN
    BY <1>1 DEF BeginSave, TypeOK, Holders
  <2> QED BY <2>2, <2>3, <2>4 DEF ConfigTypeOK, TypeOK
<1>2. ASSUME NEW p \in Procs, EndSave(p)
      PROVE  ConfigTypeOK'
  <2>1. copy[p] \in Config
    BY DEF TypeOK
  <2>2. Go(p, AfterSave(p), copy[p]) /\ AfterSave(p) \in Stages
        /\ (p = "daemon" => AfterSave(p) \in DaemonStages)
    BY <1>2, AfterSaveStage DEF EndSave
  <2>3. wanted' \in Switches
    BY <1>2, EditedConfig DEF EndSave
  <2>4. file' = copy[p] /\ writing' \in SUBSET Procs /\ stale' = stale /\ disturbed' = disturbed
    BY <1>2 DEF EndSave, TypeOK
  <2> QED BY <2>1, <2>2, <2>3, <2>4, GoTypes DEF ConfigTypeOK, TypeOK
<1>3. ASSUME NEW p \in Procs, Delete(p)
      PROVE  ConfigTypeOK'
  <2>1. Go(p, "idle", Fresh)
    BY <1>3 DEF Delete
  <2>2. stale' \in SUBSET Procs /\ disturbed' \in BOOLEAN /\ writing' = writing
        /\ file' = Absent /\ wanted' = Reset
    BY <1>3 DEF Delete, TypeOK, Holders
  <2> QED BY <1>0, <2>1, <2>2, GoTypes DEF ConfigTypeOK, TypeOK
<1>4. ASSUME NEW p \in Procs, NEW s \in Stages, NEW c \in Config, MayLoad(p, s, c), Load(p, s, c)
      PROVE  ConfigTypeOK'
  <2>1. Go(p, s, c) /\ (p = "daemon" => s \in DaemonStages)
    BY <1>4 DEF MayLoad, Load
  <2>2. UNCHANGED <<file, writing, disturbed, wanted>> /\ stale' \in SUBSET Procs
    BY <1>4 DEF Load, TypeOK
  <2> QED BY <2>1, <2>2, GoTypes DEF ConfigTypeOK, TypeOK
<1>5. ASSUME NEW p \in Procs, NEW s \in Stages, MayLeave(p, s), Leave(p, s)
      PROVE  ConfigTypeOK'
  <2>1. Go(p, s, copy[p]) /\ (p = "daemon" => s \in DaemonStages) /\ copy[p] \in Config
    BY <1>5 DEF MayLeave, Leave, TypeOK
  <2>2. UNCHANGED <<file, writing, disturbed, wanted>> /\ stale' \in SUBSET Procs
    BY <1>5 DEF Leave, TypeOK
  <2> QED BY <2>1, <2>2, GoTypes DEF ConfigTypeOK, TypeOK
<1>6. ASSUME NEW p \in Procs, NEW t \in Stages, MayKill(p, t), Killed(p, t)
      PROVE  ConfigTypeOK'
  <2>1. stage' \in [Procs -> Stages] /\ stage'["daemon"] \in DaemonStages
    BY <1>0, <1>6 DEF Killed, TypeOK, Procs
  <2>2. copy' \in [Procs -> Config]
    BY <1>0, <1>6 DEF Killed, TypeOK
  <2>3. UNCHANGED <<file, disturbed, wanted>> /\ writing' \in SUBSET Procs
        /\ stale' \in SUBSET Procs /\ cmd' \in AllCommands \cup {"none"}
    BY <1>6 DEF Killed, TypeOK
  <2> QED BY <2>1, <2>2, <2>3 DEF ConfigTypeOK, TypeOK
<1>7. CASE Starts
  <2>1. stage' \in [Procs -> Stages] /\ stage'["daemon"] = stage["daemon"]
    BY <1>7 DEF Starts, TypeOK, Stages, Procs
  <2> QED BY <1>7, <2>1 DEF Starts, config, ConfigTypeOK, TypeOK
<1>8. CASE UNCHANGED <<config, stage, cmd>>
  BY <1>8 DEF config, ConfigTypeOK, TypeOK
<1> QED BY <1>1, <1>2, <1>3, <1>4, <1>5, <1>6, <1>7, <1>8 DEF ConfigStep

LEMMA TypeKept ==
    ASSUME TypeOK, stage["daemon"] \in DaemonStages, ConfigStep, BinaryStep, MachineStep
    PROVE  TypeOK' /\ stage'["daemon"] \in DaemonStages
<1>1. BinaryTypeOK'
  BY BinaryTypeKept DEF TypeOK
<1>2. ConfigTypeOK'
  BY ConfigTypeKept
<1>3. running' \in 0 .. MaxVersion
  BY VersionsAssumption DEF MachineStep, TypeOK, Versions
<1> QED BY <1>1, <1>2, <1>3 DEF MachineStep, ConfigTypeOK, TypeOK

-----------------------------------------------------------------------------
(***************************************************************************)
(* The settings                                                            *)
(***************************************************************************)

\* What p's save makes of a copy that agrees with what is wanted agrees with what
\* is wanted afterwards.
LEMMA EditedAgrees ==
    ASSUME TypeOK, NEW p \in Procs, Keeps(p) \/ stage[p] = "login",
           stage[p] # "login" => Agrees(copy[p], wanted),
           stage[p] = "greet" => copy[p].auto
    PROVE  Agrees(Edited(p), Intended(p))
<1>1. copy[p] \in Config /\ wanted \in Switches
  BY DEF TypeOK
<1>2. CASE stage[p] = "login"
  BY <1>2 DEF Edited, Intended, Agrees, Loaded, Fresh, Reset
<1>3. CASE stage[p] = "greet"
  BY <1>1, <1>3 DEF Edited, Intended, Agrees, Loaded, Config, Switches
<1>4. CASE stage[p] = "announce"
  BY <1>1, <1>4 DEF Edited, Intended, Agrees, Loaded, Config, Switches
<1>5. CASE stage[p] \in {"notify", "retract"}
  BY <1>1, <1>5 DEF Edited, Intended, Agrees, Loaded, Config, Switches
<1>6. CASE stage[p] = "register"
  BY <1>1, <1>6 DEF Edited, Intended, Agrees, Loaded, Config, Switches
<1>7. CASE stage[p] = "edit"
  <2>1. CASE cmd = "auto on"
    BY <1>1, <1>7, <2>1 DEF Edited, Intended, Agrees, Loaded, Config, Switches
  <2>2. CASE cmd = "auto off"
    BY <1>1, <1>7, <2>2 DEF Edited, Intended, Agrees, Loaded, Config, Switches, SwitchedOff
  <2>3. CASE cmd \in {"switch on", "switch off"}
    BY <1>1, <1>7, <2>3 DEF Edited, Intended, Agrees, Loaded, Config, Switches
  <2>4. CASE cmd \notin {"auto on", "auto off", "switch on", "switch off"}
    <3>1. Edited(p) = copy[p] /\ Intended(p) = wanted
      BY <1>7, <2>4 DEF Edited, Intended
    <3> QED BY <1>7, <3>1
  <2> QED BY <2>1, <2>2, <2>3, <2>4
<1>8. CASE stage[p] \notin {"login", "greet", "announce", "notify", "retract", "register", "edit"}
  <2>1. Edited(p) = copy[p] /\ Intended(p) = wanted
    BY <1>8 DEF Edited, Intended
  <2> QED BY <1>8, <2>1
<1> QED BY <1>2, <1>3, <1>4, <1>5, <1>6, <1>7, <1>8

\* A save that begins undisturbed: its copy is wanted, and it is alone.
LEMMA BeginSaveSettings ==
    ASSUME TypeOK, SettingsInv, NEW p \in Procs, BeginSave(p), ~disturbed'
    PROVE  SettingsInv'
<1>1. p \notin stale /\ writing = {} /\ p \notin writing
  BY DEF BeginSave
<1>2. /\ file' = Torn /\ writing' = {p} /\ stale' = stale \cup (Holders \ {p})
      /\ UNCHANGED <<cmd, stage, wanted>>
      /\ stage[p] \in Saving
  BY <1>1 DEF BeginSave, Saving
<1>3. copy' = [copy EXCEPT ![p] = Edited(p)] /\ copy \in [Procs -> Config]
  BY DEF BeginSave, TypeOK
<1>4. FileWanted'
  BY <1>2, MachineAssumption DEF FileWanted
<1>5. \A q \in Procs \ {p} : Keeps(q) => q \in stale'
  BY <1>2 DEF Holders, Keeps
<1>6. CopiesWanted'
  BY <1>2, <1>5 DEF CopiesWanted, Keeps
<1>7. OneWriter'
  <2>1. Keeps(p) \/ stage[p] = "login"
    BY <1>2 DEF Saving, Keeps, Holding
  <2>2. stage[p] # "login" => Agrees(copy[p], wanted)
    BY <1>1, <2>1 DEF SettingsInv, CopiesWanted
  <2>3. stage[p] = "greet" => copy[p].auto
    BY <1>1, <2>1 DEF SettingsInv, CopiesWanted
  <2>4. Agrees(Edited(p), Intended(p))
    BY <2>1, <2>2, <2>3, EditedAgrees
  <2>5. copy'[p] = Edited(p) /\ Intended(p)' = Intended(p)
    BY <1>2, <1>3 DEF Intended
  <2>6. Agrees(copy[p], Intended(p))'
    BY <2>4, <2>5 DEF Agrees, Loaded
  <2>7. \A q \in Procs \ {p} : Keeps(q)' => q \in stale'
    BY <1>2, <1>5 DEF Keeps
  <2> QED BY <1>2, <2>6, <2>7 DEF OneWriter
<1> QED BY <1>4, <1>6, <1>7 DEF SettingsInv

\* Its end puts the copy into the file.
LEMMA EndSaveSettings ==
    ASSUME TypeOK, SettingsInv, NEW p \in Procs, EndSave(p)
    PROVE  SettingsInv'
<1>1. /\ writing = {p} /\ Agrees(copy[p], Intended(p))
      /\ \A q \in Procs \ {p} : Keeps(q) => q \in stale
  BY DEF EndSave, SettingsInv, OneWriter
<1>2. /\ file' = copy[p] /\ writing' = {} /\ wanted' = Intended(p) /\ stale' = stale
      /\ Go(p, AfterSave(p), copy[p])
  BY <1>1 DEF EndSave
<1>3. copy[p] \in Config /\ stage \in [Procs -> Stages] /\ copy \in [Procs -> Config]
  BY DEF TypeOK
<1>4. FileWanted'
  BY <1>1, <1>2, <1>3, MachineAssumption DEF FileWanted, Agrees, Loaded
<1>5. ASSUME NEW q \in Procs, Keeps(q)', q \notin stale'
      PROVE  Agrees(copy[q], wanted)' /\ stage'[q] # "greet"
  <2>1. q = p
    BY <1>1, <1>2, <1>3, <1>5 DEF Keeps, Go
  <2>2. stage'[p] = AfterSave(p) /\ AfterSave(p) # "greet"
    BY <1>2, <1>3, AfterSaveStage DEF Go
  <2>3. copy'[p] = copy[p]
    BY <1>2, <1>3, <1>5, <2>1, <2>2 DEF Go, Keeps
  <2> QED BY <1>1, <1>2, <2>1, <2>2, <2>3 DEF Agrees, Loaded
<1>6. CopiesWanted'
  BY <1>5 DEF CopiesWanted
<1>7. OneWriter'
  BY <1>2 DEF OneWriter
<1> QED BY <1>4, <1>6, <1>7 DEF SettingsInv

LEMMA DeleteSettings ==
    ASSUME TypeOK, SettingsInv, NEW p \in Procs, Delete(p), ~disturbed'
    PROVE  SettingsInv'
<1>1. writing' = {} /\ file' = Absent /\ wanted' = Reset /\ stale' = (stale \cup Holders) \ {p}
  BY DEF Delete
<1>2. stage' = [stage EXCEPT ![p] = "idle"] /\ stage \in [Procs -> Stages]
  BY DEF Delete, Go, TypeOK
<1>3. FileWanted'
  BY <1>1, MachineAssumption DEF FileWanted
<1>4. \A q \in Procs : Keeps(q)' => q \in stale'
  BY <1>1, <1>2 DEF Keeps, Holders, Holding
<1>5. CopiesWanted' /\ OneWriter'
  BY <1>1, <1>4 DEF CopiesWanted, OneWriter
<1> QED BY <1>3, <1>5 DEF SettingsInv

\* The settings a save is meant to leave depend on nothing another does.
LEMMA IntendedSame ==
    ASSUME stage["daemon"] \in DaemonStages, NEW w \in Procs,
           stage'[w] = stage[w], wanted' = wanted, w = "terminal" => cmd' = cmd
    PROVE  Intended(w)' = Intended(w)
<1>1. CASE w = "terminal"
  BY <1>1 DEF Intended
<1>2. CASE w = "daemon"
  <2>1. stage[w] \notin {"login", "register", "edit"}
    BY <1>2 DEF DaemonStages
  <2>2. Intended(w) = wanted /\ Intended(w)' = wanted'
    BY <2>1 DEF Intended
  <2> QED BY <2>2
<1> QED BY <1>1, <1>2 DEF Procs

\* Who writes goes on writing, when another does what does not touch the file.
LEMMA WriterGoesOn ==
    ASSUME TypeOK, OneWriter, stage["daemon"] \in DaemonStages, NEW w \in Procs, w \in writing,
           stage'[w] = stage[w], copy'[w] = copy[w], wanted' = wanted, file' = file,
           w = "terminal" => cmd' = cmd, writing' = {w},
           \A q \in Procs \ {w} : Keeps(q)' => q \in stale'
    PROVE  OneWriter'
<1>1. Intended(w)' = Intended(w)
  BY IntendedSame
<1>2. Agrees(copy[w], Intended(w))'
  BY <1>1 DEF OneWriter, Agrees, Loaded
<1> QED BY <1>2 DEF OneWriter

LEMMA LoadSettings ==
    ASSUME TypeOK, SettingsInv, stage["daemon"] \in DaemonStages, NEW p \in Procs,
           NEW s \in Stages, NEW c \in Config, MayLoad(p, s, c), Load(p, s, c)
    PROVE  SettingsInv'
<1>1. /\ UNCHANGED <<file, writing, wanted>> /\ stale' = stale \ {p}
      /\ stage' = [stage EXCEPT ![p] = s]
      /\ copy' = [copy EXCEPT ![p] = IF s \in Holding THEN c ELSE Fresh]
      /\ cmd' = IF p = "terminal" /\ s = "idle" THEN "none" ELSE cmd
      /\ stage \in [Procs -> Stages] /\ copy \in [Procs -> Config]
  BY DEF Load, Go, TypeOK
<1>2. s \in Holding => Agrees(c, wanted)
  <2>1. CASE file \in Config /\ c = Loaded(file)
    <3>1. Agrees(file, wanted) /\ wanted \in Switches
      BY <2>1 DEF SettingsInv, FileWanted, TypeOK
    <3> QED BY <2>1, <3>1, LoadedConfig
  <2>2. CASE file = Absent /\ c = Default
    <3>1. wanted = Reset
      BY <2>2 DEF SettingsInv, FileWanted
    <3>2. Loaded(Default).auto = TRUE
      BY DEF Loaded, Default
    <3>3. Agrees(Default, Reset)
      BY <3>2 DEF Agrees, Default, Reset
    <3> QED BY <2>2, <3>1, <3>3
  <2> QED BY <2>1, <2>2 DEF MayLoad
<1>3. FileWanted'
  BY <1>1 DEF SettingsInv, FileWanted, Agrees, Loaded
<1>4. CopiesWanted'
  <2>1. s \in Holding => Agrees(copy[p], wanted)' /\ (stage'[p] = "greet" => copy'[p].auto)
    BY <1>1, <1>2 DEF MayLoad, Agrees, Loaded
  <2>2. Keeps(p)' => s \in Holding
    BY <1>1 DEF Keeps
  <2>3. ASSUME NEW q \in Procs \ {p}, Keeps(q)', q \notin stale', q \notin writing'
        PROVE  Agrees(copy[q], wanted)' /\ (stage'[q] = "greet" => copy'[q].auto)
    <3>1. stage'[q] = stage[q] /\ copy'[q] = copy[q]
      BY <1>1
    <3>2. Keeps(q) /\ q \notin stale /\ q \notin writing
      BY <1>1, <2>3, <3>1 DEF Keeps
    <3> QED BY <1>1, <3>1, <3>2 DEF SettingsInv, CopiesWanted, Agrees, Loaded
  <2> QED BY <2>1, <2>2, <2>3 DEF CopiesWanted
<1>5. OneWriter'
  <2>1. ASSUME NEW w \in writing
        PROVE  OneWriter'
    <3>1. stage[w] \in Saving /\ file = Torn /\ writing = {w} /\ w \in Procs
      BY DEF SettingsInv, OneWriter, TypeOK
    <3>2. w # p
      BY <3>1 DEF MayLoad, Saving
    <3>3. s \notin Holding
      BY <3>1, MachineAssumption DEF MayLoad
    <3>4. stage'[w] = stage[w] /\ copy'[w] = copy[w] /\ (w = "terminal" => cmd' = cmd)
      BY <1>1, <3>1, <3>2
    <3>5. \A q \in Procs \ {w} : Keeps(q)' => q \in stale'
      <4>1. \A q \in Procs \ {w} : q # p /\ Keeps(q) => q \in stale'
        BY <1>1 DEF SettingsInv, OneWriter
      <4> QED BY <1>1, <3>3, <4>1 DEF Keeps
    <3> QED BY <1>1, <3>1, <3>4, <3>5, WriterGoesOn DEF SettingsInv
  <2> QED BY <1>1, <2>1 DEF OneWriter
<1> QED BY <1>3, <1>4, <1>5 DEF SettingsInv

\* A process that goes on, one that is killed and one that begins touch neither
\* the file nor a copy that is kept.
LEMMA QuietSettings ==
    ASSUME TypeOK, SettingsInv, stage["daemon"] \in DaemonStages,
           UNCHANGED <<file, wanted>>, writing' \subseteq writing,
           \A q \in Procs : Keeps(q)' =>
               /\ Keeps(q) /\ copy'[q] = copy[q] /\ stage'[q] \in {stage[q]} \cup (Stages \ {"greet"})
               /\ q \in stale <=> q \in stale'
               /\ q \in writing => q \in writing',
           \A w \in writing' : /\ stage'[w] = stage[w] /\ copy'[w] = copy[w]
                               /\ w = "terminal" => cmd' = cmd
    PROVE  SettingsInv'
<1>1. FileWanted'
  BY DEF SettingsInv, FileWanted, Agrees, Loaded
<1>2. CopiesWanted'
  BY DEF SettingsInv, CopiesWanted, Agrees, Loaded
<1>3. OneWriter'
  <2>1. ASSUME NEW w \in writing'
        PROVE  OneWriter'
    <3>1. w \in writing /\ writing' = {w} /\ w \in Procs
      BY DEF SettingsInv, OneWriter, TypeOK
    <3>2. \A q \in Procs \ {w} : Keeps(q)' => q \in stale'
      BY <3>1 DEF SettingsInv, OneWriter
    <3> QED BY <3>1, <3>2, WriterGoesOn DEF SettingsInv
  <2> QED BY <2>1 DEF OneWriter
<1> QED BY <1>1, <1>2, <1>3 DEF SettingsInv

LEMMA LeaveSettings ==
    ASSUME TypeOK, SettingsInv, stage["daemon"] \in DaemonStages, NEW p \in Procs,
           NEW s \in Stages, MayLeave(p, s), Leave(p, s)
    PROVE  SettingsInv'
<1>1. /\ UNCHANGED <<file, writing, wanted>>
      /\ stale' = IF s \in Holding THEN stale ELSE stale \ {p}
      /\ stage' = [stage EXCEPT ![p] = s]
      /\ copy' = [copy EXCEPT ![p] = IF s \in Holding THEN copy[p] ELSE Fresh]
      /\ cmd' = IF p = "terminal" /\ s = "idle" THEN "none" ELSE cmd
      /\ stage \in [Procs -> Stages] /\ copy \in [Procs -> Config]
  BY DEF Leave, Go, TypeOK
<1>2. p \notin writing
  BY DEF MayLeave, SettingsInv, OneWriter
<1>3. ASSUME NEW q \in Procs, Keeps(q)'
      PROVE  /\ Keeps(q) /\ copy'[q] = copy[q] /\ stage'[q] \in {stage[q]} \cup (Stages \ {"greet"})
             /\ q \in stale <=> q \in stale'
  <2>1. CASE q = p
    <3>1. s \in Holding /\ ~(p = "terminal" /\ s = "install")
      BY <1>1, <1>3, <2>1 DEF Keeps
    <3> QED BY <1>1, <2>1, <3>1 DEF MayLeave
  <2>2. CASE q # p
    BY <1>1, <1>3, <2>2 DEF Keeps
  <2> QED BY <2>1, <2>2
<1>4. \A w \in writing' : /\ stage'[w] = stage[w] /\ copy'[w] = copy[w]
                          /\ w = "terminal" => cmd' = cmd
  <2>1. \A w \in writing' : w \in Procs \ {p}
    BY <1>1, <1>2 DEF TypeOK
  <2> QED BY <1>1, <2>1 DEF Procs
<1> QED BY <1>1, <1>3, <1>4, QuietSettings

LEMMA KilledSettings ==
    ASSUME TypeOK, SettingsInv, stage["daemon"] \in DaemonStages, NEW p \in Procs,
           NEW t \in Stages, MayKill(p, t), Killed(p, t)
    PROVE  SettingsInv'
<1>1. /\ UNCHANGED <<file, wanted>> /\ writing' = writing \ {p} /\ stale' = stale \ {p}
      /\ stage' = [stage EXCEPT !["terminal"] = t, !["daemon"] = IF p = "daemon" THEN "down" ELSE @]
      /\ copy' = [copy EXCEPT ![p] = Fresh]
      /\ cmd' = IF t = "idle" THEN "none" ELSE cmd
      /\ stage \in [Procs -> Stages] /\ copy \in [Procs -> Config]
  BY DEF Killed, TypeOK
<1>2. ~Keeps(p)'
  BY <1>1 DEF MayKill, Keeps, Holding, Procs
<1>3. ASSUME NEW q \in Procs \ {p}, Keeps(q)'
      PROVE  Keeps(q) /\ stage'[q] = stage[q]
  <2>1. CASE p = "daemon"
    <3>1. q = "terminal" /\ stage'[q] = t
      BY <1>1, <2>1 DEF Procs
    <3>2. t = stage["terminal"]
      BY <1>3, <2>1, <3>1 DEF MayKill, Keeps, Holding
    <3> QED BY <1>3, <3>1, <3>2 DEF Keeps
  <2>2. CASE p = "terminal"
    BY <1>1, <1>3, <2>2 DEF Procs, Keeps
  <2> QED BY <2>1, <2>2 DEF Procs
<1>4. ASSUME NEW w \in writing'
      PROVE  stage'[w] = stage[w] /\ copy'[w] = copy[w] /\ (w = "terminal" => cmd' = cmd)
  <2>1. w \in Procs \ {p} /\ w \in writing /\ stage[w] \in Saving
    BY <1>1 DEF SettingsInv, OneWriter, TypeOK
  <2>2. CASE p = "daemon"
    <3>1. w = "terminal" /\ stage[w] \notin {"command", "restart", "idle"}
      BY <2>1, <2>2 DEF Procs, Saving
    <3> QED BY <1>1, <2>2, <3>1 DEF MayKill, Procs
  <2>3. CASE p = "terminal"
    BY <1>1, <2>1, <2>3 DEF Procs
  <2> QED BY <2>2, <2>3 DEF Procs
<1>5. \A q \in Procs : Keeps(q)' =>
               /\ Keeps(q) /\ copy'[q] = copy[q] /\ stage'[q] = stage[q]
               /\ q \in stale <=> q \in stale'
               /\ q \in writing => q \in writing'
  BY <1>1, <1>2, <1>3
<1> QED BY <1>1, <1>4, <1>5, QuietSettings

LEMMA StartsSettings ==
    ASSUME TypeOK, SettingsInv, stage["daemon"] \in DaemonStages, Starts
    PROVE  SettingsInv'
<1>1. PICK s \in {"prerun", "command"} : stage' = [stage EXCEPT !["terminal"] = s]
  BY DEF Starts
<1>2. UNCHANGED config /\ "terminal" \notin writing
  BY DEF Starts, SettingsInv, OneWriter, Saving
<1>3. stage'["terminal"] = s /\ \A q \in Procs \ {"terminal"} : stage'[q] = stage[q]
  BY <1>1 DEF TypeOK, Procs
<1>4. \A q \in Procs : Keeps(q)' => Keeps(q) /\ stage'[q] = stage[q]
  BY <1>3 DEF Keeps, Holding
<1>5. \A w \in writing' : stage'[w] = stage[w] /\ w # "terminal"
  BY <1>2, <1>3 DEF config, TypeOK
<1> QED BY <1>2, <1>4, <1>5, QuietSettings DEF config

LEMMA SettingsStep ==
    ASSUME TypeOK, SettingsInv, stage["daemon"] \in DaemonStages, ConfigStep, ~disturbed'
    PROVE  SettingsInv'
<1>1. CASE UNCHANGED <<config, stage, cmd>>
  BY <1>1, QuietSettings DEF config, Keeps
<1>2. ASSUME NEW p \in Procs, BeginSave(p) \/ EndSave(p) \/ Delete(p)
      PROVE  SettingsInv'
  BY <1>2, BeginSaveSettings, EndSaveSettings, DeleteSettings
<1> QED BY <1>1, <1>2, LoadSettings, LeaveSettings, KilledSettings, StartsSettings DEF ConfigStep

-----------------------------------------------------------------------------
(***************************************************************************)
(* The theorems                                                            *)
(***************************************************************************)

LEMMA MachineStart ==
    Init => MachineInv
<1> SUFFICES ASSUME Init PROVE MachineInv
  OBVIOUS
<1>0. Procs = {"daemon", "terminal"} /\ "daemon" \in Procs
  BY DEF Procs
<1>1. BinaryTypeOK
  BY VersionsAssumption DEF Init, BinaryInit, BinaryTypeOK, Content, Versions, Steps
<1>2. Fresh \in Config /\ LoggedIn \in Config /\ Reset \in Switches
      /\ [Reset EXCEPT !.switch = TRUE] \in Switches
  <2>1. Fresh \in Config /\ LoggedIn \in Config
    BY VersionsAssumption DEF Fresh, LoggedIn, Config
  <2>2. Reset \in Switches
    BY DEF Reset, Switches
  <2>3. \A r \in Switches : [r EXCEPT !.switch = TRUE] \in Switches
    BY DEF Switches
  <2> QED BY <2>1, <2>2, <2>3
<1>3. stage \in [Procs -> Stages] /\ copy \in [Procs -> Config]
      /\ stage["daemon"] = "down" /\ stage["terminal"] = "idle"
  BY <1>0, <1>2 DEF Init, Stages
<1>4. running \in 0 .. MaxVersion /\ given \in 0 .. MaxCommands
  BY VersionsAssumption, MachineAssumption DEF Init
<1>5. TypeOK
  BY <1>1, <1>2, <1>3, <1>4 DEF Init, TypeOK
<1>6. WholeFiles
  BY MachineAssumption, VersionsAssumption DEF Init, BinaryInit, WholeFiles, Versions
<1>7. FileWanted
  <2>1. Agrees(LoggedIn, [Reset EXCEPT !.switch = TRUE]) /\ LoggedIn # Absent
    <3>1. Loaded(LoggedIn).auto = TRUE
      BY DEF Loaded, LoggedIn
    <3> QED BY <1>2, <3>1, MachineAssumption DEF Agrees, LoggedIn, Reset
  <2> QED BY <2>1, MachineAssumption DEF Init, FileWanted
<1>8. CopiesWanted /\ OneWriter
  BY <1>0, <1>3 DEF Init, CopiesWanted, OneWriter, Keeps, Holding
<1> QED BY <1>3, <1>5, <1>6, <1>7, <1>8 DEF MachineInv, SettingsInv, DaemonStages

LEMMA MachineInductive ==
    MachineInv /\ [Next]_vars => MachineInv'
<1> SUFFICES ASSUME MachineInv, [Next]_vars PROVE MachineInv'
  OBVIOUS
<1>1. CASE Next
  <2>1. sound /\ ~disturbed /\ TypeOK /\ stage["daemon"] \in DaemonStages
    BY <1>1 DEF Next, Undisturbed, MachineInv
  <2>2. ConfigStep /\ BinaryStep /\ MachineStep
    BY <1>1, <2>1, NextKind
  <2>3. TypeOK' /\ stage'["daemon"] \in DaemonStages
    BY <2>1, <2>2, TypeKept
  <2>4. sound' => WholeFiles'
    BY <2>1, <2>2, WholeKept DEF MachineInv, TypeOK
  <2>5. ~disturbed' => SettingsInv'
    BY <2>1, <2>2, SettingsStep DEF MachineInv
  <2> QED BY <2>3, <2>4, <2>5 DEF MachineInv
<1>2. CASE UNCHANGED vars
  <2>1. UNCHANGED <<binary, machine, cmd, stage, config>>
    BY <1>2 DEF vars
  <2>2. UNCHANGED <<exec, backup, latest, inst, got, sound>>
    BY <2>1 DEF binary, files
  <2>3. UNCHANGED <<service, running, given, damaged, file, copy, writing, stale, disturbed, wanted>>
    BY <2>1 DEF machine, config
  <2>4. TypeOK'
    BY <2>1, <2>2, <2>3 DEF MachineInv, TypeOK, BinaryTypeOK
  <2>5. sound' => WholeFiles'
    BY <2>2 DEF MachineInv, WholeFiles
  <2>6. ~disturbed' => SettingsInv'
    BY <2>1, <2>3, QuietSettings DEF MachineInv, Keeps
  <2> QED BY <2>1, <2>4, <2>5, <2>6 DEF MachineInv
<1> QED BY <1>1, <1>2

\* MachineInv holds in every state of every machine.
THEOREM MachineSafe == Spec => []MachineInv
BY MachineStart, MachineInductive, PTL DEF Spec

\* Every value of the model keeps its type: what Load reads and Save writes is a
\* configuration, a truncated file, or nothing, whatever is killed when.
THEOREM TypeCorrect == Spec => []TypeOK
<1>1. MachineInv => TypeOK
  BY DEF MachineInv
<1> QED BY <1>1, MachineSafe, PTL

\* upgrade.go keeps a whole executable, or a whole backup, through any number of
\* releases, failures and kills, as long as no two upgrades overlap and none
\* starts from a broken executable.
THEOREM FilesRecoverable == Spec => []Recoverable
<1>1. MachineInv => Recoverable
  BY DEF MachineInv, WholeFiles, Recoverable
<1> QED BY <1>1, MachineSafe, PTL

\* Until a save overwrites a newer one, the file says of every switch what the
\* last command about it said, for any commands, in any order with the daemon's
\* renewals and upgrades.
THEOREM SwitchesKept == Spec => []SettingsKept
<1>1. MachineInv => SettingsKept
  BY DEF MachineInv, SettingsInv, FileWanted, SettingsKept
<1> QED BY <1>1, MachineSafe, PTL

-----------------------------------------------------------------------------
(***************************************************************************)
(* NoticeTrue                                                              *)
(***************************************************************************)

\* The stages of the daemon's upgrade, from CheckForUpdates to its end.
Upgrading == {"checked", "decide", "announce", "install"}
Unreached == {"checked", "decide", "announce", "retract"}

\* A process is upgrading when its stage says so.
Linked ==
    /\ inst["terminal"] # "idle" <=> stage["terminal"] = "install"
    /\ inst["daemon"] # "idle" <=> stage["daemon"] \in Upgrading
    /\ stage["daemon"] \in Upgrading \ {"install"} => inst["daemon"] = "checked"
    /\ stage["terminal"] \notin Unreached

\* Steps of an upgrade that has a good backup, and of one that may end.
Saved == {"backed", "removed", "copying", "restore", "restoring"}
Settled == {"idle", "checked", "failed", "done"}

\* An upgrade never goes back: what it has saved is no newer than what it installs.
Releases ==
    /\ \A u \in Procs : got[u] <= latest
    /\ (\A u \in Procs : inst[u] = "idle") => exec \in Versions /\ exec <= latest
    /\ \A u \in Procs : inst[u] \in {"checked", "download", "backing", "failed"} =>
        exec \in Versions /\ exec <= got[u]
    /\ \A u \in Procs : inst[u] \in Saved => backup \in Versions /\ backup <= got[u]
    /\ \A u \in Procs : inst[u] \in {"installed", "done"} => exec = got[u]

\* The executable is release n or a later one, or will be unless the daemon's
\* upgrade fails.
Sure(n) ==
    IF stage["daemon"] = "install" THEN n <= got["daemon"]
    ELSE IF inst["terminal"] \in Saved THEN backup \in Versions /\ n <= backup
    ELSE exec \in Versions /\ n <= exec

\* A copy that is to be saved, or is being saved, but for the announcement itself.
Announcing == "daemon" \in writing /\ stage["daemon"] = "announce"
Counts(p) ==
    /\ p \in writing \/ (Keeps(p) /\ p \notin stale)
    /\ p = "daemon" => ~Announcing

\* What the file announces is sure, and so is what will be saved, except while the
\* daemon has an announcement to take back.
NoticeInv ==
    /\ stage["daemon"] # "retract" =>
        /\ file \in Config => Sure(file.notice)
        /\ \A p \in Procs : Counts(p) => Sure(copy[p].notice)
    /\ Announcing => copy["daemon"].notice = got["daemon"]
    /\ "daemon" \in writing /\ stage["daemon"] = "retract" => copy["daemon"].notice = 0

\* Steps on the executable that leave nothing broken.
Harmless ==
    \/ \E p \in Procs : \/ CheckForUpdates(p) \/ Download(p)
                        \/ Upgrade(p) /\ ~RestoreFails(p)
                        \/ Forget(p) /\ inst[p] \in Settled
    \/ Release
    \/ UNCHANGED binary

\* How the daemon comes to `install` and leaves it and `retract`.
DaemonMoves ==
    stage'["daemon"] # stage["daemon"] =>
        /\ stage["daemon"] = "retract" => EndSave("daemon")
        /\ stage'["daemon"] = "install" => EndSave("daemon") /\ stage["daemon"] = "announce"
        /\ stage["daemon"] = "install" => stage'["daemon"] = "retract" \/ inst["daemon"] = "done"

Moves == Harmless /\ Linked' /\ DaemonMoves

-----------------------------------------------------------------------------
\* A step that touches no upgrade.
CalmTerminal ==
    \/ stage'["terminal"] = stage["terminal"]
    \/ {stage["terminal"], stage'["terminal"]} \cap (Unreached \cup {"install"}) = {}
CalmDaemon ==
    \/ stage'["daemon"] = stage["daemon"]
    \/ {stage["daemon"], stage'["daemon"]} \cap (Upgrading \cup {"retract"}) = {}

LEMMA CalmMoves ==
    ASSUME Linked, UNCHANGED binary, CalmTerminal, CalmDaemon
    PROVE  Moves
<1>1. inst' = inst
  BY DEF binary
<1>2. Linked'
  BY <1>1 DEF Linked, CalmTerminal, CalmDaemon
<1>3. DaemonMoves
  BY DEF CalmDaemon, DaemonMoves, Upgrading
<1> QED BY <1>2, <1>3 DEF Moves, Harmless

\* p alone goes to stage s.
LEMMA CalmGo ==
    ASSUME TypeOK, Linked, UNCHANGED binary, NEW p \in Procs, NEW s,
           stage' = [stage EXCEPT ![p] = s],
           stage[p] \notin Upgrading \cup {"retract"}, s \notin Upgrading \cup {"retract"}
    PROVE  Moves
<1>1. stage'[p] = s /\ \A q \in Procs \ {p} : stage'[q] = stage[q]
  BY DEF TypeOK
<1>2. CalmTerminal /\ CalmDaemon
  BY <1>1 DEF CalmTerminal, CalmDaemon, Procs, Upgrading, Unreached
<1> QED BY <1>2, CalmMoves

LEMMA LoadGoes ==
    ASSUME TypeOK, Linked, NEW p \in Procs, NEW s, NEW c, Load(p, s, c),
           stage[p] \notin Upgrading \cup {"retract"}, s \notin Upgrading \cup {"retract"}
    PROVE  Moves
BY CalmGo DEF Load, Go

LEMMA LeaveGoes ==
    ASSUME TypeOK, Linked, NEW p \in Procs, NEW s, Leave(p, s), UNCHANGED binary,
           stage[p] \notin Upgrading \cup {"retract"}, s \notin Upgrading \cup {"retract"}
    PROVE  Moves
BY CalmGo DEF Leave, Go

\* The actions both processes have.
LEMMA SharedMoves ==
    ASSUME MachineInv, ~disturbed, Linked, NEW p \in Procs,
           PreRun(p) \/ BeginSave(p) \/ EndSave(p) \/ Delete(p) \/ LoadToRenew(p) \/ NoSave(p)
    PROVE  Moves
<1> USE DEF MachineInv, Upgrading
<1>1. CASE PreRun(p)
  <2>1. PICK s, c : Load(p, s, c) /\ stage[p] = "prerun" /\ s \in {"greet", "notify", "idle", "command"}
    BY <1>1 DEF PreRun, Notify, Command
  <2> QED BY <2>1, LoadGoes
<1>2. CASE BeginSave(p)
  <2>1. stage' = stage /\ UNCHANGED binary
    BY <1>2 DEF BeginSave
  <2> QED BY <2>1, CalmMoves DEF CalmTerminal, CalmDaemon
<1>3. CASE EndSave(p)
  <2>1. UNCHANGED binary /\ inst' = inst /\ stage' = [stage EXCEPT ![p] = AfterSave(p)]
        /\ stage[p] \in Saving /\ stage \in [Procs -> Stages]
    BY <1>3 DEF EndSave, Go, SettingsInv, OneWriter, TypeOK, binary
  <2>2. CASE stage[p] \notin {"checked", "announce", "retract"}
    <3>1. AfterSave(p) \in {"notify", "idle", "command", "register", "setup"}
      BY <2>1, <2>2 DEF AfterSave, Notify, Command, Saving
    <3>2. stage[p] \notin Upgrading \cup {"retract"}
      BY <2>1, <2>2 DEF Saving
    <3> QED BY <2>1, <3>1, <3>2, CalmGo
  <2>3. CASE stage[p] \in {"checked", "announce", "retract"}
    <3>1. p = "daemon"
      BY <2>3 DEF Linked, Unreached, Procs
    <3>2. stage'["daemon"] = AfterSave(p) /\ stage'["terminal"] = stage["terminal"]
      BY <2>1, <3>1 DEF Procs
    <3>3. /\ stage["daemon"] = "checked" => stage'["daemon"] = "decide"
          /\ stage["daemon"] = "announce" => stage'["daemon"] = "install"
          /\ stage["daemon"] = "retract" => stage'["daemon"] = "idle"
      BY <3>1, <3>2 DEF AfterSave
    <3>4. Linked'
      BY <2>1, <2>3, <3>1, <3>2, <3>3 DEF Linked
    <3>5. DaemonMoves
      BY <1>3, <2>3, <3>1, <3>3 DEF DaemonMoves
    <3> QED BY <2>1, <3>4, <3>5 DEF Moves, Harmless
  <2> QED BY <2>2, <2>3
<1>4. CASE Delete(p)
  <2>1. stage[p] \in {"delete", "renew"} /\ UNCHANGED binary /\ stage' = [stage EXCEPT ![p] = "idle"]
    BY <1>4 DEF Delete, Go
  <2> QED BY <2>1, CalmGo
<1>5. CASE LoadToRenew(p)
  <2>1. stage[p] \in {"command", "idle"} /\ Load(p, "renew", Loaded(file))
    BY <1>5 DEF LoadToRenew
  <2> QED BY <2>1, LoadGoes
<1>6. CASE NoSave(p)
  <2>1. UNCHANGED binary /\ stage[p] \in {"renew", "check", "register"}
        /\ \E s \in {"idle", "setup"} : Leave(p, s)
    BY <1>6 DEF NoSave
  <2> QED BY <2>1, LeaveGoes
<1> QED BY <1>1, <1>2, <1>3, <1>4, <1>5, <1>6

\* A kill that damages nothing.
LEMMA KilledMoves ==
    ASSUME TypeOK, Linked, NEW p \in Procs, NEW t, Killed(p, t), ~damaged',
           \/ p = "terminal" /\ t = "idle"
           \/ p = "daemon" /\ t = stage["terminal"]
           \/ p = "daemon" /\ stage["terminal"] \in {"command", "restart"} /\ t \in {"idle", "delete"}
    PROVE  Moves /\ p \notin writing
<1>1. /\ stage' = [stage EXCEPT !["terminal"] = t, !["daemon"] = IF p = "daemon" THEN "down" ELSE @]
      /\ Forget(p) /\ p \notin writing
      /\ inst[p] \in {"idle", "checked", "done"}
      /\ p = "daemon" /\ stage[p] \in {"install", "retract"} => inst[p] = "done"
  BY DEF Killed
<1>2. /\ stage \in [Procs -> Stages] /\ inst \in [Procs -> Steps] /\ Procs = {"daemon", "terminal"}
  BY MachineAssumption DEF TypeOK, BinaryTypeOK, Procs
<1>3. /\ inst'[p] = "idle" /\ \A q \in Procs \ {p} : inst'[q] = inst[q]
      /\ stage'["terminal"] = t /\ stage'["daemon"] = IF p = "daemon" THEN "down" ELSE stage["daemon"]
  BY <1>1, <1>2 DEF Forget, To
<1>4. Linked'
  <2>1. CASE p = "daemon"
    <3>1. inst'["daemon"] = "idle" /\ inst'["terminal"] = inst["terminal"] /\ stage'["daemon"] = "down"
      BY <1>2, <1>3, <2>1
    <3> QED BY <1>3, <2>1, <3>1 DEF Linked, Upgrading, Unreached
  <2>2. CASE p = "terminal"
    <3>1. inst'["terminal"] = "idle" /\ inst'["daemon"] = inst["daemon"] /\ stage'["daemon"] = stage["daemon"]
      BY <1>2, <1>3, <2>2
    <3> QED BY <1>3, <2>2, <3>1 DEF Linked, Upgrading, Unreached
  <2> QED BY <1>2, <2>1, <2>2
<1>5. DaemonMoves
  <2>1. stage["daemon"] = "retract" => inst["daemon"] = "idle"
    BY DEF Linked, Upgrading
  <2> QED BY <1>1, <1>2, <1>3, <2>1 DEF DaemonMoves
<1>6. Harmless
  BY <1>1 DEF Harmless, Settled
<1> QED BY <1>1, <1>4, <1>5, <1>6 DEF Moves

\* p goes to stage s and its upgrade to step i.
LEMMA UpgradeGoes ==
    ASSUME TypeOK, Linked, NEW p \in Procs, NEW s, NEW i,
           stage' = [stage EXCEPT ![p] = s], To(p, i),
           s \notin Unreached \/ p = "daemon",
           p = "terminal" => (i # "idle" <=> s = "install"),
           p = "daemon" => (i # "idle" <=> s \in Upgrading),
           s \in Upgrading \ {"install"} => i = "checked"
    PROVE  Linked'
<1>1. /\ stage \in [Procs -> Stages] /\ inst \in [Procs -> Steps] /\ Procs = {"daemon", "terminal"}
  BY MachineAssumption DEF TypeOK, BinaryTypeOK, Procs
<1>2. /\ inst'[p] = i /\ stage'[p] = s
      /\ \A q \in Procs \ {p} : inst'[q] = inst[q] /\ stage'[q] = stage[q]
  BY <1>1 DEF To
<1>3. CASE p = "daemon"
  <2>1. inst'["daemon"] = i /\ stage'["daemon"] = s
        /\ inst'["terminal"] = inst["terminal"] /\ stage'["terminal"] = stage["terminal"]
    BY <1>1, <1>2, <1>3
  <2> QED BY <1>3, <2>1 DEF Linked
<1>4. CASE p = "terminal"
  <2>1. inst'["terminal"] = i /\ stage'["terminal"] = s
        /\ inst'["daemon"] = inst["daemon"] /\ stage'["daemon"] = stage["daemon"]
    BY <1>1, <1>2, <1>4
  <2> QED BY <1>4, <2>1 DEF Linked
<1> QED BY <1>1, <1>3, <1>4

LEMMA UpgradingMoves ==
    ASSUME TypeOK, Linked, NEW p \in Procs, ~damaged',
           Check(p) \/ NoUpdate(p) \/ Install(p) \/ InstallFailed(p) \/ Installed(p)
    PROVE  Moves
<1>0. /\ stage \in [Procs -> Stages] /\ inst \in [Procs -> Steps] /\ Procs = {"daemon", "terminal"}
  BY MachineAssumption DEF TypeOK, BinaryTypeOK, Procs
<1>1. CASE Check(p)
  <2>1. PICK s \in {"checked", "install"} :
           /\ Leave(p, s) /\ (s = "checked" <=> p = "daemon")
           /\ stage[p] \in {"check", "command"}
    BY <1>1 DEF Check
  <2>2. CheckForUpdates(p) /\ To(p, "checked") /\ stage' = [stage EXCEPT ![p] = s]
    BY <1>1, <2>1 DEF Check, CheckForUpdates, Leave, Go
  <2>3. Linked'
    BY <2>1, <2>2, UpgradeGoes DEF Upgrading, Unreached
  <2>4. DaemonMoves
    BY <1>0, <2>1, <2>2 DEF DaemonMoves
  <2> QED BY <2>2, <2>3, <2>4 DEF Moves, Harmless
<1>2. CASE NoUpdate(p)
  <2>1. /\ Forget(p) /\ To(p, "idle") /\ stage' = [stage EXCEPT ![p] = "idle"]
        /\ inst[p] = "checked"
        /\ p = "daemon" => stage[p] = "decide"
    BY <1>2 DEF NoUpdate, Forget, Leave, Go, Linked, Upgrading
  <2>2. Linked'
    BY <2>1, UpgradeGoes DEF Upgrading, Unreached
  <2>3. DaemonMoves
    BY <1>0, <2>1 DEF DaemonMoves
  <2> QED BY <2>1, <2>2, <2>3 DEF Moves, Harmless, Settled
<1>3. CASE Install(p)
  <2>1. stage' = stage /\ stage[p] = "install"
    BY <1>3 DEF Install
  <2>2. PICK i \in Steps \ {"idle"} : To(p, i)
    BY <1>3 DEF Install, Upgrade, Steps, BeginBackup, EndBackup, GiveUp, RemoveOld,
       BeginCopy, EndCopy, ReplaceFails, BeginRestore, EndRestore, RestoreFails, RemoveBackup
  <2>3. Linked'
    <3>1. stage' = [stage EXCEPT ![p] = "install"]
      BY <1>0, <2>1
    <3> QED BY <2>2, <3>1, UpgradeGoes DEF Upgrading, Unreached
  <2>4. Harmless
    <3>1. CASE inst[p] = "checked" /\ To(p, "download") /\ UNCHANGED <<files, latest, got, sound, damaged>>
      BY <3>1 DEF Harmless, Download
    <3>2. CASE Upgrade(p) /\ damaged' = (damaged \/ RestoreFails(p))
      BY <3>2 DEF Harmless
    <3> QED BY <1>3, <3>1, <3>2 DEF Install
  <2> QED BY <2>1, <2>3, <2>4 DEF Moves, DaemonMoves
<1>4. CASE InstallFailed(p)
  <2> DEFINE s == IF p = "daemon" THEN "retract" ELSE "idle"
  <2>1. /\ Forget(p) /\ To(p, "idle") /\ stage' = [stage EXCEPT ![p] = s]
        /\ inst[p] = "failed"
    BY <1>4 DEF InstallFailed, Forget, Leave, Go
  <2>2. Linked'
    BY <2>1, UpgradeGoes DEF Upgrading, Unreached
  <2>3. DaemonMoves
    <3>1. stage[p] = "install"
      BY <1>4 DEF InstallFailed
    <3> QED BY <1>0, <2>1, <3>1 DEF DaemonMoves
  <2> QED BY <2>1, <2>2, <2>3 DEF Moves, Harmless, Settled
<1>5. CASE Installed(p)
  <2>1. CASE p = "daemon" /\ Killed(p, stage["terminal"])
    BY <2>1, KilledMoves
  <2>2. CASE p = "terminal" /\ Forget(p) /\ Leave(p, "restart")
    <3>1. To(p, "idle") /\ stage' = [stage EXCEPT ![p] = "restart"] /\ inst[p] = "done"
      BY <1>5, <2>2 DEF Installed, Forget, Leave, Go
    <3>2. Linked'
      BY <2>2, <3>1, UpgradeGoes DEF Unreached, Upgrading
    <3>3. DaemonMoves
      BY <1>0, <2>2, <3>1 DEF DaemonMoves
    <3> QED BY <2>2, <3>1, <3>2, <3>3 DEF Moves, Harmless, Settled
  <2> QED BY <1>5, <2>1, <2>2 DEF Installed
<1> QED BY <1>1, <1>2, <1>3, <1>4, <1>5

LEMMA DaemonAloneMoves ==
    ASSUME TypeOK, Linked, ~damaged', StartDaemon \/ Die("daemon") \/ LoadToUpgrade \/ Announce
    PROVE  Moves
<1>0. "daemon" \in Procs /\ "terminal" \in Procs
  BY DEF Procs
<1>1. CASE StartDaemon
  BY <1>0, <1>1, LeaveGoes DEF StartDaemon, Upgrading
<1>2. CASE Die("daemon")
  BY <1>0, <1>2, KilledMoves DEF Die
<1>3. CASE LoadToUpgrade
  <2>1. Load("daemon", "check", Loaded(file)) /\ stage["daemon"] = "idle"
    BY <1>3 DEF LoadToUpgrade
  <2> QED BY <1>0, <2>1, LoadGoes DEF Upgrading
<1>4. CASE Announce
  <2>1. /\ stage["daemon"] = "decide" /\ stage' = [stage EXCEPT !["daemon"] = "announce"]
        /\ UNCHANGED binary /\ inst' = inst
    BY <1>4 DEF Announce, Leave, Go, binary
  <2>2. stage'["daemon"] = "announce" /\ stage'["terminal"] = stage["terminal"]
    BY <1>0, <2>1 DEF TypeOK
  <2> QED BY <2>1, <2>2 DEF Moves, Linked, Harmless, DaemonMoves, Upgrading
<1> QED BY <1>1, <1>2, <1>3, <1>4

LEMMA TerminalMoves ==
    ASSUME TypeOK, Linked, ~damaged',
           \/ LoadSwitches \/ Approved \/ EndCommand \/ Die("terminal")
           \/ InstallService \/ UninstallService \/ RestartDaemon \/ StopService
           \/ SetupDaemon \/ \E c \in Commands : Begin(c)
    PROVE  Moves
<1>0. "daemon" \in Procs /\ "terminal" \in Procs
  BY DEF Procs
<1>1. CASE LoadSwitches
  <2>1. PICK c : Load("terminal", "edit", c) /\ stage["terminal"] = "command"
    BY <1>1 DEF LoadSwitches
  <2> QED BY <1>0, <2>1, LoadGoes DEF Upgrading
<1>2. CASE Approved \/ EndCommand
  <2>1. PICK s \in {"login", "idle"} : Leave("terminal", s) /\ UNCHANGED binary
                                       /\ stage["terminal"] \in {"command", "setup", "delete"}
    BY <1>2 DEF Approved, EndCommand
  <2> QED BY <1>0, <2>1, LeaveGoes DEF Upgrading
<1>3. CASE Die("terminal")
  BY <1>0, <1>3, KilledMoves DEF Die
<1>4. CASE InstallService \/ UninstallService \/ RestartDaemon \/ StopService
  <2>1. PICK t \in {"idle", "delete"} : Systemctl(t) /\ stage["terminal"] \in {"command", "restart"}
    BY <1>4 DEF InstallService, UninstallService, RestartDaemon, StopService
  <2>2. CASE Killed("daemon", t)
    BY <1>0, <2>1, <2>2, KilledMoves
  <2>3. CASE Leave("terminal", t) /\ UNCHANGED binary
    BY <1>0, <2>1, <2>3, LeaveGoes DEF Upgrading
  <2> QED BY <2>1, <2>2, <2>3 DEF Systemctl
<1>5. CASE SetupDaemon \/ \E c \in Commands : Begin(c)
  <2>1. PICK s \in {"prerun", "command"} : stage' = [stage EXCEPT !["terminal"] = s]
    BY <1>5 DEF SetupDaemon, Begin
  <2>2. stage["terminal"] \in {"setup", "idle"} /\ UNCHANGED binary
    BY <1>5 DEF SetupDaemon, Begin
  <2> QED BY <1>0, <2>1, <2>2, CalmGo DEF Upgrading
<1> QED BY <1>1, <1>2, <1>3, <1>4, <1>5

LEMMA NextMoves ==
    ASSUME MachineInv, Linked, Next, ~damaged'
    PROVE  Moves
<1>0. "daemon" \in Procs /\ "terminal" \in Procs /\ TypeOK /\ ~disturbed
  BY DEF Procs, MachineInv, Next, Undisturbed
<1>1. CASE Daemon
  BY <1>0, <1>1, SharedMoves, UpgradingMoves, DaemonAloneMoves DEF Daemon, Serve
<1>2. CASE Terminal
  <2>1. CASE Perform
    BY <1>0, <2>1, SharedMoves, UpgradingMoves, TerminalMoves DEF Perform
  <2> QED BY <1>0, <1>2, <2>1, TerminalMoves DEF Terminal
<1>3. CASE Publish
  <2>1. Release /\ stage' = stage /\ inst' = inst
    BY <1>3 DEF Publish, Release
  <2> QED BY <2>1 DEF Moves, Harmless, DaemonMoves, Linked
<1> QED BY <1>1, <1>2, <1>3 DEF Next

-----------------------------------------------------------------------------
\* One of the two upgrades, the other being idle.
LEMMA ReleasesKept ==
    ASSUME BinaryTypeOK, sound', WholeFiles, Releases, Harmless
    PROVE  Releases'
<1>0. /\ inst \in [Procs -> Steps] /\ got \in [Procs -> Versions] /\ latest \in Versions
      /\ Procs = {"daemon", "terminal"}
      /\ \A v \in Versions : v \in Nat /\ 1 <= v
      /\ \A u \in Procs : got[u] \in Versions /\ got[u] \in Nat
  BY MachineAssumption, VersionsAssumption DEF BinaryTypeOK, Versions, Procs
<1> DEFINE Of(u) ==
             /\ got[u] <= latest
             /\ inst[u] = "idle" => exec \in Versions /\ exec <= latest
             /\ inst[u] \in {"checked", "download", "backing", "failed"} =>
                    exec \in Versions /\ exec <= got[u]
             /\ inst[u] \in Saved => backup \in Versions /\ backup <= got[u]
             /\ inst[u] \in {"installed", "done"} => exec = got[u]
\* What remains to be shown of one that upgrades alone.
<1>1. ASSUME NEW p \in Procs, \A u \in Procs \ {p} : inst'[u] = "idle" /\ got'[u] <= latest', Of(p)'
      PROVE  Releases'
  BY <1>1 DEF Releases, Saved
<1>2. ASSUME NEW p \in Procs, CheckForUpdates(p)
      PROVE  Releases'
  <2>1. \A u \in Procs : inst[u] = "idle"
    BY <1>2, MachineAssumption DEF CheckForUpdates
  <2>2. /\ inst'[p] = "checked" /\ got'[p] = latest /\ UNCHANGED <<exec, backup, latest>>
        /\ \A u \in Procs \ {p} : inst'[u] = inst[u] /\ got'[u] = got[u]
    BY <1>0, <1>2 DEF CheckForUpdates, To, files
  <2>3. exec \in Versions /\ exec <= latest /\ \A u \in Procs : got[u] <= latest
    BY <2>1 DEF Releases
  <2>4. Of(p)'
    BY <1>0, <2>2, <2>3 DEF Saved
  <2>5. \A u \in Procs \ {p} : inst'[u] = "idle" /\ got'[u] <= latest'
    BY <2>1, <2>2, <2>3
  <2> QED BY <1>1, <2>4, <2>5
<1>3. ASSUME NEW p \in Procs, Download(p) \/ (Upgrade(p) /\ ~RestoreFails(p))
      PROVE  Releases'
  <2>1. UNCHANGED <<got, latest>> /\ \A u \in Procs \ {p} : inst'[u] = inst[u]
    BY <1>0, <1>3 DEF Download, Upgrade, To, BeginBackup, EndBackup, GiveUp, RemoveOld,
       BeginCopy, EndCopy, ReplaceFails, BeginRestore, EndRestore, RestoreFails, RemoveBackup
  <2>2. inst[p] # "idle"
    BY <1>3 DEF Download, Upgrade, BeginBackup, EndBackup, GiveUp, RemoveOld,
       BeginCopy, EndCopy, ReplaceFails, BeginRestore, EndRestore, RestoreFails, RemoveBackup
  <2>3. \A u \in Procs \ {p} : inst'[u] = "idle" /\ got'[u] <= latest'
    BY <2>1, <2>2 DEF WholeFiles, Releases
  <2>4. /\ got[p] <= latest /\ got[p] \in Versions
        /\ inst[p] \in {"checked", "download", "backing", "failed"} => exec \in Versions /\ exec <= got[p]
        /\ inst[p] \in Saved => backup \in Versions /\ backup <= got[p]
        /\ inst[p] \in {"installed", "done"} => exec = got[p]
    BY <1>0 DEF Releases
  <2>5. Of(p)'
    <3>1. CASE Download(p) \/ GiveUp(p) \/ ReplaceFails(p)
      BY <1>0, <2>1, <2>4, <3>1 DEF Download, GiveUp, ReplaceFails, To, files, Saved
    <3>2. CASE BeginBackup(p) \/ EndBackup(p)
      BY <1>0, <2>1, <2>4, <3>2 DEF BeginBackup, EndBackup, To, Saved
    <3>3. CASE RemoveOld(p) \/ BeginCopy(p) \/ EndCopy(p)
      BY <1>0, <2>1, <2>4, <3>3 DEF RemoveOld, BeginCopy, EndCopy, To, Saved
    <3>4. CASE BeginRestore(p) \/ EndRestore(p)
      BY <1>0, <2>1, <2>4, <3>4 DEF BeginRestore, EndRestore, To, Saved
    <3>5. CASE RemoveBackup(p)
      BY <1>0, <2>1, <2>4, <3>5 DEF RemoveBackup, To, Saved
    <3> QED BY <1>3, <3>1, <3>2, <3>3, <3>4, <3>5 DEF Upgrade
  <2> QED BY <1>1, <2>3, <2>5
<1>4. ASSUME NEW p \in Procs, Forget(p), inst[p] \in Settled
      PROVE  Releases'
  <2>1. /\ inst'[p] = "idle" /\ got'[p] = 1 /\ UNCHANGED <<exec, backup, latest>>
        /\ \A u \in Procs \ {p} : inst'[u] = inst[u] /\ got'[u] = got[u]
    BY <1>0, <1>4 DEF Forget, To, files
  <2>2. \A u \in Procs : got'[u] <= latest'
    BY <1>0, <2>1 DEF Releases
  <2>3. CASE inst[p] = "idle"
    BY <1>0, <2>1, <2>2, <2>3 DEF Releases, Saved
  <2>4. CASE inst[p] # "idle"
    <3>1. \A u \in Procs : inst'[u] = "idle"
      BY <2>1, <2>4 DEF WholeFiles
    <3>2. exec \in Versions /\ exec <= got[p] /\ got[p] <= latest /\ got[p] \in Versions
      BY <1>0, <1>4, <2>4 DEF Releases, Settled
    <3>3. exec' \in Versions /\ exec' <= latest'
      BY <1>0, <2>1, <3>2
    <3> QED BY <2>2, <3>1, <3>3 DEF Releases, Saved
  <2> QED BY <2>3, <2>4
<1>5. CASE Release \/ UNCHANGED binary
  <2>1. UNCHANGED <<exec, backup, inst, got>> /\ latest' \in {latest, latest + 1}
    BY <1>5 DEF Release, binary, files
  <2>2. latest <= latest'
    BY <1>0, <2>1
  <2>3. \A u \in Procs : got'[u] <= latest'
    BY <1>0, <2>1, <2>2 DEF Releases
  <2>4. (\A u \in Procs : inst'[u] = "idle") => exec' \in Versions /\ exec' <= latest'
    BY <1>0, <2>1, <2>2 DEF Releases
  <2> QED BY <2>1, <2>3, <2>4 DEF Releases
<1> QED BY <1>2, <1>3, <1>4, <1>5 DEF Harmless

\* A release is remembered for as long as the upgrade lasts.
LEMMA GotKept ==
    ASSUME BinaryTypeOK, Harmless, inst["daemon"] # "idle", inst'["daemon"] # "idle"
    PROVE  got'["daemon"] = got["daemon"]
<1>0. /\ inst \in [Procs -> Steps] /\ got \in [Procs -> Versions] /\ "daemon" \in Procs
  BY MachineAssumption DEF BinaryTypeOK, Procs
<1>1. ASSUME NEW p \in Procs, CheckForUpdates(p) \/ Forget(p)
      PROVE  got'["daemon"] = got["daemon"]
  <2>1. p # "daemon"
    BY <1>0, <1>1 DEF CheckForUpdates, Forget, To
  <2> QED BY <1>0, <1>1, <2>1 DEF CheckForUpdates, Forget
<1>2. ASSUME NEW p \in Procs, Download(p) \/ Upgrade(p)
      PROVE  got' = got
  BY <1>2 DEF Download, Upgrade, BeginBackup, EndBackup, GiveUp, RemoveOld,
     BeginCopy, EndCopy, ReplaceFails, BeginRestore, EndRestore, RestoreFails, RemoveBackup
<1>3. Release \/ UNCHANGED binary => got' = got
  BY DEF Release, binary
<1> QED BY <1>1, <1>2, <1>3 DEF Harmless

-----------------------------------------------------------------------------
\* No announcement is always true.
LEMMA NothingAnnounced ==
    BinaryTypeOK /\ WholeFiles /\ Linked /\ Releases => Sure(0)
<1> SUFFICES ASSUME BinaryTypeOK, WholeFiles, Linked, Releases PROVE Sure(0)
  OBVIOUS
<1>0. /\ inst \in [Procs -> Steps] /\ got \in [Procs -> Versions]
      /\ Procs = {"daemon", "terminal"}
      /\ \A v \in Versions : v \in Nat /\ 0 <= v
      /\ \A u \in Procs : got[u] \in Versions /\ got[u] \in Nat
  BY MachineAssumption, VersionsAssumption DEF BinaryTypeOK, Versions, Procs
<1>1. CASE stage["daemon"] = "install"
  BY <1>0, <1>1 DEF Sure
<1>2. CASE inst["terminal"] \in Saved
  BY <1>0, <1>1, <1>2 DEF Sure, Releases
<1>3. CASE stage["daemon"] # "install" /\ inst["terminal"] \notin Saved
  <2>1. inst["daemon"] \in {"idle", "checked"}
    BY <1>3 DEF Linked, Upgrading
  <2>2. exec \in Versions
    <3>1. CASE inst["terminal"] = "idle"
      BY <1>0, <2>1, <3>1 DEF Releases
    <3>2. CASE inst["terminal"] # "idle"
      BY <1>0, <1>3, <3>2 DEF Releases, Saved, Steps
    <3> QED BY <3>1, <3>2
  <2> QED BY <1>0, <1>3, <2>2 DEF Sure
<1> QED BY <1>1, <1>2, <1>3

\* What is sure stays so while the daemon has nothing to take back.
LEMMA SureKept ==
    ASSUME BinaryTypeOK, WholeFiles, Linked, Releases, Moves,
           stage["daemon"] # "retract", stage'["daemon"] # "retract",
           NEW n \in 0 .. MaxVersion, Sure(n)
    PROVE  Sure(n)'
<1>0. /\ inst \in [Procs -> Steps] /\ got \in [Procs -> Versions]
      /\ Procs = {"daemon", "terminal"} /\ n \in Nat
      /\ \A v \in Versions : v \in Nat /\ 0 <= v
      /\ \A u \in Procs : got[u] \in Versions /\ got[u] \in Nat
  BY MachineAssumption, VersionsAssumption DEF BinaryTypeOK, Versions, Procs
<1>1. Linked' /\ Harmless /\ DaemonMoves
  BY DEF Moves
<1>2. ASSUME NEW p \in Procs, NEW s, To(p, s)
      PROVE  inst'[p] = s /\ \A u \in Procs \ {p} : inst'[u] = inst[u]
  BY <1>0, <1>2 DEF To
\* The daemon's installation goes on.
<1>3. CASE stage["daemon"] = "install" /\ stage'["daemon"] = "install"
  <2>1. inst["daemon"] # "idle" /\ inst'["daemon"] # "idle"
    BY <1>1, <1>3 DEF Linked, Upgrading
  <2>2. got'["daemon"] = got["daemon"]
    BY <1>1, <2>1, GotKept
  <2> QED BY <1>3, <2>2 DEF Sure
\* It begins.
<1>4. CASE stage["daemon"] # "install" /\ stage'["daemon"] = "install"
  <2>1. stage["daemon"] = "announce" /\ UNCHANGED binary
    BY <1>1, <1>4 DEF DaemonMoves, EndSave
  <2>2. inst["daemon"] = "checked"
    BY <2>1 DEF Linked, Upgrading
  <2>3. inst["terminal"] = "idle"
    BY <1>0, <2>2 DEF WholeFiles
  <2>4. n <= exec /\ exec \in Versions /\ exec <= got["daemon"]
    BY <1>0, <1>4, <2>2, <2>3 DEF Sure, Saved, Releases
  <2>5. got'["daemon"] = got["daemon"] /\ got["daemon"] \in Nat
    BY <1>0, <2>1 DEF binary
  <2>6. n <= got["daemon"]
    BY <1>0, <2>4, <2>5
  <2> QED BY <1>4, <2>5, <2>6 DEF Sure
\* It has ended well.
<1>5. CASE stage["daemon"] = "install" /\ stage'["daemon"] # "install"
  <2>1. inst["daemon"] = "done"
    BY <1>1, <1>5 DEF DaemonMoves
  <2>2. inst["terminal"] = "idle" /\ exec = got["daemon"] /\ n <= exec
    BY <1>0, <1>5, <2>1 DEF WholeFiles, Releases, Sure
  <2>3. inst'["daemon"] # "done"
    BY <1>1, <1>5 DEF Linked, Upgrading
  <2>4. Forget("daemon")
    <3>1. ASSUME NEW p \in Procs, CheckForUpdates(p) \/ Download(p) \/ Upgrade(p)
          PROVE  FALSE
      <4>1. inst[p] \notin {"idle", "done"} \/ (inst[p] = "idle" /\ To(p, "checked") /\ p = "terminal")
        BY <1>0, <2>1, <2>2, <3>1 DEF CheckForUpdates, Download, Upgrade, BeginBackup, EndBackup, GiveUp, RemoveOld,
           BeginCopy, EndCopy, ReplaceFails, BeginRestore, EndRestore, RestoreFails, RemoveBackup
      <4>2. p = "terminal" /\ To(p, "checked")
        BY <1>0, <2>1, <2>2, <4>1
      <4> QED BY <1>0, <1>2, <2>1, <2>3, <4>2
    <3>2. ASSUME NEW p \in Procs, Forget(p)
          PROVE  p = "daemon"
      <4>1. To(p, "idle")
        BY <3>2 DEF Forget
      <4>2. p # "daemon" => inst'["daemon"] = inst["daemon"]
        BY <1>0, <1>2, <4>1
      <4> QED BY <2>1, <2>3, <4>2
    <3>3. ~(Release \/ UNCHANGED binary)
      BY <2>1, <2>3 DEF Release, binary
    <3> QED BY <1>1, <3>1, <3>2, <3>3 DEF Harmless
  <2>5. exec' = exec /\ inst'["terminal"] = "idle"
    BY <1>0, <1>2, <2>2, <2>4 DEF Forget, files
  <2> QED BY <1>0, <1>5, <2>2, <2>5 DEF Sure, Saved
\* At most the terminal installs.
<1>6. CASE stage["daemon"] # "install" /\ stage'["daemon"] # "install"
  <2>1. inst["daemon"] \in {"idle", "checked"} /\ inst'["daemon"] \in {"idle", "checked"}
    BY <1>1, <1>6 DEF Linked, Upgrading
  <2>2. /\ inst["terminal"] \in Saved => backup \in Versions /\ n <= backup /\ backup <= got["terminal"]
        /\ inst["terminal"] \notin Saved => exec \in Versions /\ n <= exec
        /\ got["terminal"] \in Versions
    BY <1>0, <1>6 DEF Sure, Releases
  <2> DEFINE Goal == IF inst'["terminal"] \in Saved THEN backup' \in Versions /\ n <= backup'
                     ELSE exec' \in Versions /\ n <= exec'
  <2>3. ASSUME UNCHANGED files, inst'["terminal"] \in Saved <=> inst["terminal"] \in Saved
        PROVE  Goal
    BY <2>2, <2>3 DEF files
  <2>4. ASSUME NEW p \in Procs, CheckForUpdates(p) \/ Download(p) \/ (Forget(p) /\ inst[p] \in Settled)
        PROVE  Goal
    <3>1. UNCHANGED files
      BY <2>4 DEF CheckForUpdates, Download, Forget, files
    <3>2. inst'["terminal"] \in Saved <=> inst["terminal"] \in Saved
      BY <1>0, <1>2, <2>4 DEF CheckForUpdates, Download, Forget, Settled, Saved
    <3> QED BY <2>3, <3>1, <3>2
  <2>5. ASSUME Release \/ UNCHANGED binary
        PROVE  Goal
    <3>1. inst' = inst /\ UNCHANGED files
      BY <2>5 DEF Release, binary, files
    <3> QED BY <2>3, <3>1
  <2>6. ASSUME NEW p \in Procs, Upgrade(p), ~RestoreFails(p)
        PROVE  Goal
    <3>1. p = "terminal"
      BY <1>0, <2>1, <2>6 DEF Upgrade, BeginBackup, EndBackup, GiveUp, RemoveOld,
         BeginCopy, EndCopy, ReplaceFails, BeginRestore, EndRestore, RestoreFails, RemoveBackup
    <3>2. CASE GiveUp(p) \/ ReplaceFails(p)
      BY <1>2, <2>3, <3>1, <3>2 DEF GiveUp, ReplaceFails, Saved
    <3>3. CASE BeginBackup(p) \/ EndBackup(p) \/ RemoveBackup(p)
      BY <1>2, <2>2, <3>1, <3>3 DEF BeginBackup, EndBackup, RemoveBackup, Saved
    <3>4. CASE RemoveOld(p) \/ BeginCopy(p) \/ BeginRestore(p)
      BY <1>2, <2>2, <3>1, <3>4 DEF RemoveOld, BeginCopy, BeginRestore, Saved
    <3>5. CASE EndCopy(p) \/ EndRestore(p)
      <4>1. inst["terminal"] \in Saved /\ inst'["terminal"] \notin Saved
            /\ exec' \in {backup, got["terminal"]}
        BY <1>2, <3>1, <3>5 DEF EndCopy, EndRestore, Saved
      <4>2. exec' \in Versions /\ n <= exec'
        BY <1>0, <2>2, <4>1
      <4> QED BY <4>1, <4>2
    <3> QED BY <2>6, <3>2, <3>3, <3>4, <3>5 DEF Upgrade
  <2>7. Goal
    BY <1>1, <2>4, <2>5, <2>6 DEF Harmless
  <2> QED BY <1>6, <2>7 DEF Sure
<1> QED BY <1>3, <1>4, <1>5, <1>6

\* What p's save makes of a notice, unless it announces.
LEMMA EditedNotice ==
    ASSUME TypeOK, NEW p \in Procs, stage[p] # "announce"
    PROVE  /\ Edited(p).notice \in {0, copy[p].notice}
           /\ stage[p] = "login" => Edited(p).notice = 0
<1>1. copy[p] \in Config
  BY DEF TypeOK
<1>2. CASE stage[p] = "edit"
  BY <1>1, <1>2 DEF Edited, SwitchedOff, Config
<1>3. CASE stage[p] # "edit"
  BY <1>1, <1>3 DEF Edited, Fresh, Config
<1> QED BY <1>2, <1>3

-----------------------------------------------------------------------------
\* Neither a load, nor a step to another stage, nor a kill that damages nothing,
\* makes anything new of an announcement.
LEMMA QuietNotice ==
    ASSUME MachineInv, MachineInv', sound, sound', Linked, Releases, NoticeInv,
           Linked', Releases', Moves, ~EndSave("daemon"),
           UNCHANGED <<file, writing>>,
           \A w \in writing : stage'[w] = stage[w] /\ copy'[w] = copy[w],
           \A q \in Procs : Keeps(q)' /\ q \notin stale' =>
               \/ Keeps(q) /\ q \notin stale /\ copy'[q] = copy[q] /\ q \notin writing
               \/ file \in Config /\ copy'[q].notice = file.notice
               \/ copy'[q].notice = 0
               \/ q \in writing
    PROVE  NoticeInv'
<1>0. TypeOK /\ WholeFiles /\ TypeOK' /\ WholeFiles' /\ BinaryTypeOK /\ BinaryTypeOK'
  BY DEF MachineInv, TypeOK
<1>1. Sure(0)'
  BY <1>0, NothingAnnounced, PTL
<1>2. ASSUME stage'["daemon"] # "retract"
      PROVE  /\ stage["daemon"] # "retract"
             /\ \A n \in 0 .. MaxVersion : Sure(n) => Sure(n)'
  <2>1. stage["daemon"] # "retract"
    BY <1>2 DEF Moves, DaemonMoves
  <2> QED BY <1>0, <1>2, <2>1, SureKept
<1>3. (file \in Config => file.notice \in 0 .. MaxVersion)
      /\ \A q \in Procs : copy[q].notice \in 0 .. MaxVersion
  BY <1>0 DEF TypeOK, Config
<1>4. ASSUME stage'["daemon"] # "retract"
      PROVE  /\ file \in Config => Sure(file.notice)'
             /\ \A p \in Procs : Counts(p)' => Sure(copy[p].notice)'
  <2>1. file \in Config => Sure(file.notice)'
    BY <1>2, <1>3, <1>4 DEF NoticeInv
  <2>2. ASSUME NEW p \in Procs, Counts(p)'
        PROVE  Sure(copy[p].notice)'
    <3>1. CASE p \in writing
      <4>1. Counts(p) /\ copy'[p] = copy[p]
        BY <2>2, <3>1 DEF Counts, Announcing
      <4>2. Sure(copy[p].notice)
        BY <1>2, <1>4, <4>1 DEF NoticeInv
      <4>3. \A n \in 0 .. MaxVersion : Sure(n) => Sure(n)'
        BY <1>2, <1>4
      <4> QED BY <1>3, <4>1, <4>2, <4>3 DEF Sure
    <3>2. CASE p \notin writing /\ Keeps(p) /\ p \notin stale /\ copy'[p] = copy[p]
      <4>1. Counts(p)
        BY <3>2 DEF Counts, Announcing
      <4>2. Sure(copy[p].notice)
        BY <1>2, <1>4, <4>1 DEF NoticeInv
      <4> QED BY <1>2, <1>3, <1>4, <3>2, <4>2 DEF Sure
    <3>3. CASE file \in Config /\ copy'[p].notice = file.notice
      BY <2>1, <3>3 DEF Sure
    <3>4. CASE copy'[p].notice = 0
      BY <1>1, <3>4 DEF Sure
    <3> QED BY <2>2, <3>1, <3>2, <3>3, <3>4 DEF Counts
  <2> QED BY <2>1, <2>2
<1>5. Announcing' => (copy["daemon"].notice = got["daemon"])'
  <2>1. ASSUME Announcing'
        PROVE  (copy["daemon"].notice = got["daemon"])'
    <3>1. Announcing /\ copy'["daemon"] = copy["daemon"]
      BY <2>1 DEF Announcing
    <3>2. got'["daemon"] = got["daemon"]
      <4>1. inst["daemon"] = "checked" /\ inst'["daemon"] = "checked"
        BY <2>1, <3>1 DEF Announcing, Linked, Upgrading
      <4> QED BY <1>0, <4>1, GotKept DEF Moves
    <3> QED BY <3>1, <3>2 DEF NoticeInv
  <2> QED BY <2>1
<1>6. "daemon" \in writing' /\ stage'["daemon"] = "retract" => copy'["daemon"].notice = 0
  BY DEF NoticeInv
<1>7. (file \in Config)' => file \in Config /\ file' = file
  OBVIOUS
<1> QED BY <1>4, <1>5, <1>6, <1>7 DEF NoticeInv

\* A save.  Nobody else has a copy that counts: one that was loaded before is stale.
LEMMA BeginSaveNotice ==
    ASSUME MachineInv, MachineInv', sound, sound', ~disturbed, ~disturbed', Linked, Releases,
           NoticeInv, Linked', Releases', Moves, NEW p \in Procs, BeginSave(p)
    PROVE  NoticeInv'
<1>0. TypeOK /\ WholeFiles /\ TypeOK' /\ WholeFiles' /\ SettingsInv'
  BY DEF MachineInv, TypeOK
<1>1. /\ file' = Torn /\ stage' = stage /\ UNCHANGED binary /\ got' = got /\ p \notin stale
      /\ copy'[p] = Edited(p) /\ stage[p] \in Saving
  BY <1>0 DEF BeginSave, Saving, TypeOK, binary
<1>2. Torn \notin Config
  BY MachineAssumption
<1>3. ASSUME NEW q \in Procs, Counts(q)'
      PROVE  q = p
  BY <1>0, <1>3 DEF Counts, BeginSave, SettingsInv, OneWriter
<1>4. ASSUME Announcing'
      PROVE  (copy["daemon"].notice = got["daemon"])'
  <2>1. p = "daemon" /\ stage[p] = "announce"
    BY <1>0, <1>1, <1>4 DEF Announcing, SettingsInv, OneWriter, BeginSave
  <2> QED BY <1>0, <1>1, <2>1 DEF Edited, TypeOK, Config
<1>5. ASSUME "daemon" \in writing', stage'["daemon"] = "retract"
      PROVE  copy'["daemon"].notice = 0
  <2>1. p = "daemon" /\ stage[p] = "retract"
    BY <1>0, <1>1, <1>5 DEF SettingsInv, OneWriter, BeginSave
  <2> QED BY <1>0, <1>1, <2>1 DEF Edited, TypeOK, Config
<1>6. ASSUME stage["daemon"] # "retract", Counts(p)'
      PROVE  Sure(copy[p].notice)'
  <2>1. ~(p = "daemon" /\ stage[p] = "announce")
    BY <1>1, <1>6 DEF Counts, Announcing, BeginSave
  <2>2. stage[p] # "announce"
    BY <2>1 DEF Linked, Unreached, Procs
  <2>3. copy'[p].notice \in {0, copy[p].notice} /\ (stage[p] = "login" => copy'[p].notice = 0)
    BY <1>0, <1>1, <2>2, EditedNotice
  <2>4. CASE copy'[p].notice = 0
    <3>1. Sure(0)'
      BY <1>0, NothingAnnounced, PTL DEF TypeOK
    <3> QED BY <2>4, <3>1 DEF Sure
  <2>5. CASE copy'[p].notice = copy[p].notice /\ stage[p] # "login"
    <3>1. Keeps(p) /\ Counts(p)
      BY <1>0, <1>1, <2>1, <2>5 DEF Keeps, Saving, Holding, Counts, Announcing
    <3>2. Sure(copy[p].notice)
      BY <1>6, <3>1 DEF NoticeInv
    <3> QED BY <1>1, <2>5, <3>2 DEF Sure, binary
  <2> QED BY <2>3, <2>4, <2>5
<1> QED BY <1>1, <1>2, <1>3, <1>4, <1>5, <1>6 DEF NoticeInv

LEMMA EndSaveNotice ==
    ASSUME MachineInv, MachineInv', sound, sound', ~disturbed, Linked, Releases, NoticeInv,
           Linked', Releases', Moves, NEW p \in Procs, EndSave(p)
    PROVE  NoticeInv'
<1>0. TypeOK /\ WholeFiles /\ TypeOK' /\ WholeFiles' /\ SettingsInv /\ BinaryTypeOK /\ BinaryTypeOK'
  BY DEF MachineInv, TypeOK
<1>1. /\ file' = copy[p] /\ writing' = {} /\ stale' = stale /\ writing = {p}
      /\ stage[p] \in Saving /\ UNCHANGED binary /\ got' = got
      /\ stage' = [stage EXCEPT ![p] = AfterSave(p)]
      /\ copy' = [copy EXCEPT ![p] = IF AfterSave(p) \in Holding THEN copy[p] ELSE Fresh]
      /\ stage \in [Procs -> Stages] /\ copy \in [Procs -> Config]
  BY <1>0 DEF EndSave, Go, SettingsInv, OneWriter, TypeOK, binary
\* Nobody else has a copy that counts.
<1>2. ASSUME NEW q \in Procs, Counts(q)'
      PROVE  q = p /\ copy'[q] = copy[p]
  <2>1. Keeps(q)' /\ q \notin stale
    BY <1>1, <1>2 DEF Counts
  <2>2. q # p => Keeps(q)
    BY <1>1, <2>1 DEF Keeps
  <2>3. q = p
    BY <1>0, <1>1, <2>1, <2>2 DEF SettingsInv, OneWriter
  <2>4. AfterSave(p) \in Holding
    BY <1>1, <2>1, <2>3 DEF Keeps
  <2> QED BY <1>1, <2>3, <2>4
<1>3. PICK n \in 0 .. MaxVersion : n = copy[p].notice
  BY <1>0 DEF TypeOK, Config
<1>4. ASSUME stage'["daemon"] # "retract"
      PROVE  Sure(n)'
  <2>1. CASE p = "daemon" /\ stage[p] = "announce"
    <3>1. stage'["daemon"] = "install"
      BY <1>1, <2>1 DEF AfterSave
    <3>2. n = got'["daemon"]
      BY <1>1, <1>3, <2>1 DEF NoticeInv, Announcing
    <3>3. n <= got'["daemon"]
      BY <1>3, <3>2, VersionsAssumption
    <3> QED BY <3>1, <3>3 DEF Sure
  <2>2. CASE p = "daemon" /\ stage[p] = "retract"
    <3>1. n = 0
      BY <1>1, <1>3, <2>2 DEF NoticeInv
    <3>2. Sure(0)'
      BY <1>0, NothingAnnounced, PTL
    <3> QED BY <3>1, <3>2
  <2>3. CASE ~(p = "daemon" /\ stage[p] \in {"announce", "retract"})
    <3>1. stage["daemon"] # "retract"
      BY <1>1, <1>4, <2>3 DEF Procs
    <3>2. Counts(p)
      BY <1>1, <2>3 DEF Counts, Announcing
    <3>3. Sure(n)
      BY <1>3, <3>1, <3>2 DEF NoticeInv
    <3> QED BY <1>0, <1>4, <3>1, <3>3, SureKept
  <2> QED BY <2>1, <2>2, <2>3
<1>5. ASSUME stage'["daemon"] # "retract", NEW q \in Procs, Counts(q)'
      PROVE  Sure(copy[q].notice)'
  BY <1>2, <1>3, <1>4, <1>5 DEF Sure
<1>6. stage'["daemon"] # "retract" => Sure(file.notice)'
  BY <1>1, <1>3, <1>4 DEF Sure
<1> QED BY <1>1, <1>5, <1>6 DEF NoticeInv, Announcing

\* A deletion leaves no file and no copy that counts.
LEMMA DeleteNotice ==
    ASSUME ~disturbed', NEW p \in Procs, Delete(p), TypeOK
    PROVE  NoticeInv'
<1>1. /\ file' = Absent /\ writing' = {} /\ stale' = (stale \cup Holders) \ {p}
      /\ stage' = [stage EXCEPT ![p] = "idle"] /\ stage \in [Procs -> Stages]
  BY DEF Delete, Go, TypeOK
<1>3. ASSUME NEW q \in Procs
      PROVE  ~Counts(q)'
  <2>1. q # p => stage'[q] = stage[q]
    BY <1>1
  <2>2. Keeps(q)' => q # p /\ q \in Holders
    BY <1>1, <2>1 DEF Keeps, Holders, Holding
  <2> QED BY <1>1, <2>2 DEF Counts
<1> QED BY <1>1, <1>3, MachineAssumption DEF NoticeInv, Announcing

\* A copy that one has after a step counted before, unless it has just been loaded.
LEMMA NoticeStep ==
    ASSUME MachineInv, MachineInv', sound, sound', ~disturbed, ~disturbed', ~damaged', Linked,
           Releases, NoticeInv, Linked', Releases', Moves, ConfigStep
    PROVE  NoticeInv'
<1>0. TypeOK /\ SettingsInv /\ stage \in [Procs -> Stages] /\ copy \in [Procs -> Config]
      /\ Procs = {"daemon", "terminal"} /\ writing \subseteq Procs
  BY DEF MachineInv, TypeOK, Procs
<1>1. ASSUME NEW p \in Procs, BeginSave(p) \/ EndSave(p) \/ Delete(p)
      PROVE  NoticeInv'
  BY <1>0, <1>1, BeginSaveNotice, EndSaveNotice, DeleteNotice
<1>2. ASSUME NEW p \in Procs, NEW s \in Stages, NEW c \in Config, MayLoad(p, s, c), Load(p, s, c)
      PROVE  NoticeInv'
  <2>1. /\ UNCHANGED <<file, writing>> /\ stale' = stale \ {p}
        /\ stage' = [stage EXCEPT ![p] = s]
        /\ copy' = [copy EXCEPT ![p] = IF s \in Holding THEN c ELSE Fresh]
    BY <1>2 DEF Load, Go
  <2>2. p \notin writing
    BY <1>0, <1>2 DEF MayLoad, SettingsInv, OneWriter, Saving
  <2>3. ~EndSave("daemon")
    BY <1>1, <2>1 DEF EndSave
  <2>4. ASSUME NEW q \in Procs, Keeps(q)', q \notin stale'
        PROVE  \/ Keeps(q) /\ q \notin stale /\ copy'[q] = copy[q] /\ q \notin writing
               \/ file \in Config /\ copy'[q].notice = file.notice
               \/ copy'[q].notice = 0
               \/ q \in writing
    <3>1. CASE q = p
      <4>1. s \in Holding /\ copy'[q] = c
        BY <1>0, <2>1, <2>4, <3>1 DEF Keeps
      <4>2. CASE file \in Config /\ c = Loaded(file)
        BY <4>1, <4>2 DEF Loaded, Config
      <4>3. CASE c = Default
        BY <4>1, <4>3 DEF Default
      <4> QED BY <1>2, <4>1, <4>2, <4>3 DEF MayLoad
    <3>2. CASE q # p
      BY <1>0, <2>1, <2>4, <3>2 DEF Keeps
    <3> QED BY <3>1, <3>2
  <2>5. \A w \in writing : stage'[w] = stage[w] /\ copy'[w] = copy[w]
    BY <1>0, <2>1, <2>2
  <2> QED BY <2>1, <2>3, <2>4, <2>5, QuietNotice
<1>3. ASSUME NEW p \in Procs, NEW s \in Stages, MayLeave(p, s), Leave(p, s)
      PROVE  NoticeInv'
  <2>1. /\ UNCHANGED <<file, writing>>
        /\ stale' = IF s \in Holding THEN stale ELSE stale \ {p}
        /\ stage' = [stage EXCEPT ![p] = s]
        /\ copy' = [copy EXCEPT ![p] = IF s \in Holding THEN copy[p] ELSE Fresh]
    BY <1>3 DEF Leave, Go
  <2>2. p \notin writing
    BY <1>0, <1>3 DEF MayLeave, SettingsInv, OneWriter
  <2>3. ~EndSave("daemon")
    BY <2>1 DEF EndSave
  <2>4. ASSUME NEW q \in Procs, Keeps(q)', q \notin stale'
        PROVE  Keeps(q) /\ q \notin stale /\ copy'[q] = copy[q]
    <3>1. CASE q = p
      <4>1. s \in Holding /\ ~(p = "terminal" /\ s = "install")
        BY <1>0, <2>1, <2>4, <3>1 DEF Keeps
      <4> QED BY <1>0, <1>3, <2>1, <2>4, <3>1, <4>1 DEF MayLeave
    <3>2. CASE q # p
      BY <1>0, <2>1, <2>4, <3>2 DEF Keeps
    <3> QED BY <3>1, <3>2
  <2>5. \A w \in writing : stage'[w] = stage[w] /\ copy'[w] = copy[w]
    BY <1>0, <2>1, <2>2
  <2> QED BY <2>1, <2>3, <2>4, <2>5, QuietNotice
<1>4. ASSUME NEW p \in Procs, NEW t \in Stages, MayKill(p, t), Killed(p, t)
      PROVE  NoticeInv'
  <2>1. p \notin writing
    BY <1>0, <1>4, KilledMoves DEF MayKill
  <2>2. /\ UNCHANGED <<file, writing>> /\ stale' = stale \ {p}
        /\ stage' = [stage EXCEPT !["terminal"] = t, !["daemon"] = IF p = "daemon" THEN "down" ELSE @]
        /\ copy' = [copy EXCEPT ![p] = Fresh]
    BY <1>4, <2>1 DEF Killed
  <2>3. ~EndSave("daemon")
    BY <2>2 DEF EndSave
  <2>4. ASSUME NEW q \in Procs, Keeps(q)', q \notin stale'
        PROVE  Keeps(q) /\ q \notin stale /\ copy'[q] = copy[q]
    <3>1. stage'["terminal"] = t /\ (p = "daemon" => stage'["daemon"] = "down")
          /\ (p = "terminal" => stage'["daemon"] = stage["daemon"])
      BY <1>0, <2>2
    <3>2. q # p
      BY <1>4, <2>4, <3>1 DEF MayKill, Keeps, Holding, Procs
    <3>3. stage'[q] = stage[q]
      BY <1>4, <2>4, <3>1, <3>2 DEF MayKill, Keeps, Holding, Procs
    <3> QED BY <1>0, <2>2, <2>4, <3>2, <3>3 DEF Keeps
  <2>5. ASSUME NEW w \in writing
        PROVE  stage'[w] = stage[w] /\ copy'[w] = copy[w]
    <3>1. w \in Procs /\ w # p /\ stage[w] \in Saving
      BY <1>0, <2>1 DEF SettingsInv, OneWriter
    <3>2. CASE p = "daemon"
      <4>1. w = "terminal" /\ t = stage["terminal"]
        BY <1>0, <1>4, <3>1, <3>2 DEF MayKill, Saving
      <4> QED BY <1>0, <2>2, <3>1, <4>1
    <3>3. CASE p = "terminal"
      BY <1>0, <2>2, <3>1, <3>3
    <3> QED BY <1>0, <3>2, <3>3
  <2>6. \A q \in Procs : Keeps(q)' /\ q \notin stale' =>
               \/ Keeps(q) /\ q \notin stale /\ copy'[q] = copy[q] /\ q \notin writing
               \/ q \in writing
    BY <2>4
  <2> QED BY <2>2, <2>3, <2>5, <2>6, QuietNotice
<1>5. CASE Starts \/ UNCHANGED <<config, stage, cmd>>
  <2>1. UNCHANGED <<file, writing, stale, copy>>
    BY <1>5 DEF Starts, config
  <2>2. \A q \in Procs : stage'[q] = stage[q] \/ (stage'[q] \in {"prerun", "command"} /\ stage[q] \notin Saving)
    BY <1>0, <1>5 DEF Starts, Saving
  <2>3. ~EndSave("daemon")
    BY <2>1 DEF EndSave
  <2>4. \A w \in writing : stage'[w] = stage[w]
    BY <1>0, <2>2 DEF SettingsInv, OneWriter
  <2>5. \A q \in Procs : Keeps(q)' => Keeps(q)
    BY <2>2 DEF Keeps, Holding
  <2> QED BY <2>1, <2>3, <2>4, <2>5, QuietNotice
<1> QED BY <1>1, <1>2, <1>3, <1>4, <1>5 DEF ConfigStep

-----------------------------------------------------------------------------
\* Damage is not forgotten.
LEMMA DamageStays ==
    ASSUME TypeOK, Next, ~damaged'
    PROVE  ~damaged
<1>1. ASSUME NEW p, NEW t, Killed(p, t)
      PROVE  ~damaged
  BY <1>1 DEF Killed
<1>2. ASSUME NEW p, NEW s, NEW c, Load(p, s, c)
      PROVE  ~damaged
  BY <1>2 DEF Load, machine
<1>3. ASSUME NEW p, \/ PreRun(p) \/ BeginSave(p) \/ EndSave(p) \/ LoadToRenew(p) \/ NoSave(p)
                    \/ Delete(p) \/ Check(p) \/ NoUpdate(p) \/ Install(p) \/ InstallFailed(p)
                    \/ Installed(p)
      PROVE  ~damaged
  BY <1>1, <1>2, <1>3 DEF PreRun, BeginSave, EndSave, LoadToRenew, NoSave, Delete, Check,
     NoUpdate, Install, InstallFailed, Installed, machine
<1>4. ASSUME \/ StartDaemon \/ Die("daemon") \/ LoadToUpgrade \/ Announce
             \/ LoadSwitches \/ Approved \/ SetupDaemon \/ EndCommand \/ Die("terminal")
             \/ \E c \in Commands : Begin(c)
      PROVE  ~damaged
  BY <1>1, <1>2, <1>4 DEF StartDaemon, Die, LoadToUpgrade, Announce, LoadSwitches, Approved,
     SetupDaemon, EndCommand, Begin, machine
<1>5. ASSUME InstallService \/ UninstallService \/ RestartDaemon \/ StopService
      PROVE  ~damaged
  BY <1>1, <1>5 DEF InstallService, UninstallService, RestartDaemon, StopService, Systemctl
<1>6. ASSUME Publish
      PROVE  ~damaged
  BY <1>6 DEF Publish, machine
<1> QED BY <1>3, <1>4, <1>5, <1>6 DEF Next, Daemon, Terminal, Serve, Perform

\* What holds as long as nothing has been damaged.
NoticeSafe == Undisturbed /\ ~damaged => Linked /\ Releases /\ NoticeInv

LEMMA NoticeStart ==
    Init => NoticeSafe
<1> SUFFICES ASSUME Init PROVE Linked /\ Releases /\ NoticeInv
  BY DEF NoticeSafe
<1>0. Procs = {"daemon", "terminal"} /\ Upgraders = Procs
  BY MachineAssumption DEF Procs
<1>1. /\ stage["daemon"] = "down" /\ stage["terminal"] = "idle"
      /\ \A p \in Procs : inst[p] = "idle" /\ got[p] = 1 /\ exec = 1 /\ latest = 1
      /\ writing = {} /\ file \in {Absent, LoggedIn}
  BY <1>0 DEF Init, BinaryInit
<1>2. Linked
  BY <1>0, <1>1 DEF Linked, Upgrading, Unreached
<1>3. Releases
  BY <1>0, <1>1, VersionsAssumption DEF Releases, Versions, Saved
<1>4. \A p \in Procs : ~Counts(p)
  BY <1>0, <1>1 DEF Counts, Keeps, Holding
<1>5. file \in Config => Sure(file.notice)
  BY <1>0, <1>1, MachineAssumption, VersionsAssumption DEF Sure, LoggedIn, Saved, Versions
<1> QED BY <1>1, <1>2, <1>3, <1>4, <1>5 DEF NoticeInv, Announcing

LEMMA NoticeInductive ==
    MachineInv /\ MachineInv' /\ NoticeSafe /\ [Next]_vars => NoticeSafe'
<1> SUFFICES ASSUME MachineInv, MachineInv', NoticeSafe, [Next]_vars, Undisturbed', ~damaged'
             PROVE  (Linked /\ Releases /\ NoticeInv)'
  BY DEF NoticeSafe
<1>1. CASE Next
  <2>1. TypeOK /\ BinaryTypeOK /\ Undisturbed /\ sound /\ ~disturbed /\ sound' /\ ~disturbed'
        /\ stage["daemon"] \in DaemonStages /\ WholeFiles
    BY <1>1 DEF Next, Undisturbed, MachineInv, TypeOK
  <2>2. ~damaged
    BY <1>1, <2>1, DamageStays
  <2>3. Linked /\ Releases /\ NoticeInv
    BY <2>1, <2>2 DEF NoticeSafe
  <2>4. Moves /\ Linked'
    BY <1>1, <2>3, NextMoves DEF Moves
  <2>5. Releases'
    BY <2>1, <2>3, <2>4, ReleasesKept DEF Moves
  <2>6. ConfigStep
    BY <1>1, <2>1, NextKind
  <2> QED BY <2>1, <2>3, <2>4, <2>5, <2>6, NoticeStep
<1>2. CASE UNCHANGED vars
  <2>1. UNCHANGED <<exec, backup, latest, inst, got, sound, damaged, stage, file, copy, writing, stale, disturbed>>
    BY <1>2 DEF vars, binary, files, machine, config
  <2>2. Linked /\ Releases /\ NoticeInv
    BY <2>1 DEF NoticeSafe, Undisturbed
  <2> QED BY <2>1, <2>2 DEF Linked, Releases, NoticeInv, Sure, Counts, Announcing, Keeps
<1> QED BY <1>1, <1>2

\* An update that the file announces is installed, or is being installed or taken
\* back, as long as no kill and no failed restoration has left an upgrade half done.
THEOREM NoticesTrue == Spec => []NoticeTrue
<1>1. MachineInv /\ NoticeSafe => NoticeTrue
  <2> SUFFICES ASSUME MachineInv, Linked, Releases, NoticeInv, file \in Config, file.notice # 0
               PROVE  AtWork \/ (exec \in Versions /\ exec >= file.notice)
    BY DEF NoticeSafe, NoticeTrue
  <2>1. CASE stage["daemon"] \in {"install", "retract"}
    BY <2>1 DEF AtWork, Procs
  <2>2. CASE inst["terminal"] \in Saved
    BY <2>2 DEF AtWork, Procs, Linked, Saved
  <2>3. CASE stage["daemon"] \notin {"install", "retract"} /\ inst["terminal"] \notin Saved
    <3>1. exec \in Versions /\ file.notice <= exec
      BY <2>3 DEF NoticeInv, Sure
    <3>2. exec \in Int /\ file.notice \in Int
      BY <3>1, VersionsAssumption DEF Versions, Config
    <3> QED BY <3>1, <3>2
  <2> QED BY <2>1, <2>2, <2>3
<1>2. Spec => []NoticeSafe
  BY NoticeStart, NoticeInductive, MachineSafe, PTL DEF Spec
<1> QED BY <1>1, <1>2, MachineSafe, PTL
=============================================================================
