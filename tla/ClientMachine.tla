---------------------------- MODULE ClientMachine ----------------------------
(***************************************************************************)
(* One machine: its configuration file, its daemon, its terminal, and the  *)
(* executable both run.  Every command and every job of the daemon loads   *)
(* the whole file, often talks to the server, and saves the whole file;    *)
(* nothing locks it, and a save truncates it and then writes it.  Every    *)
(* command, `auth daemon` included, first runs PersistentPreRun, which may *)
(* save twice.  The daemon's auto-upgrade saves up to three times around   *)
(* the replacement of the executable (BinaryUpgrade) and restarts it.      *)
(*                                                                         *)
(* Of the file remain what the commands and the pre-run decide on: the     *)
(* auto-upgrade switch with the flag that says it has been announced, one  *)
(* of the plain switches (tunnel_enabled, ssh_sync_enabled, vpn_enabled    *)
(* and ssh_sync_interval, all handled alike), and the update that is still *)
(* to be announced.  The login itself is in DeviceAuth.                    *)
(***************************************************************************)
EXTENDS BinaryUpgrade

CONSTANTS
    Commands,     \* commands given at the terminal
    MaxCommands,  \* bound: how many of them
    Absent, Torn  \* a file that is not there, and one that does not parse

Procs == {"daemon", "terminal"}
AllCommands == {"status", "refresh", "switch on", "switch off", "auto on",
                "auto off", "login", "logout", "upgrade", "setup", "uninstall"}

Config == [auto : BOOLEAN, info : BOOLEAN, switch : BOOLEAN, notice : 0 .. MaxVersion]
Switches == [auto : BOOLEAN, switch : BOOLEAN]

ASSUME MachineAssumption ==
    /\ Commands \subseteq AllCommands
    /\ MaxCommands \in Nat
    /\ Upgraders = Procs
    /\ Absent \notin Config /\ Torn \notin Config /\ Absent # Torn

VARIABLES
    file,      \* config.json
    service,   \* is the daemon installed as a service?
    running,   \* the version the daemon runs, 0 when it is down
    cmd,       \* the command at the terminal
    given,     \* commands given so far
    stage,     \* per process: what it does next
    copy,      \* per process: the configuration it has in memory
    writing,   \* processes that have truncated the file and not yet written it
    stale,     \* history: processes whose copy was loaded before a save of another
    disturbed, \* history: one of them saved, or two saved at once
    damaged,   \* history: a kill during a save or an upgrade, or a failed restoration
    wanted     \* history: the switches as the commands left them

machine == <<service, running, given, damaged>>
config == <<file, copy, writing, stale, disturbed, wanted>>
vars == <<binary, machine, cmd, stage, config>>

Default == [auto |-> TRUE, info |-> FALSE, switch |-> FALSE, notice |-> 0]
Fresh == [auto |-> FALSE, info |-> FALSE, switch |-> FALSE, notice |-> 0]
Reset == [auto |-> TRUE, switch |-> FALSE]

\* Stages in which a process keeps a configuration that it will save, or may.
Holding == {"greet", "notify", "edit", "renew", "check", "checked", "decide",
            "announce", "install", "retract", "register"}
Stages == Holding \cup {"down", "idle", "prerun", "command", "login", "setup", "delete", "restart"}
Holders == {p \in Procs : stage[p] \in Holding}

\* A machine nobody has logged in on, and one after a login.
LoggedIn == [auto |-> TRUE, info |-> TRUE, switch |-> TRUE, notice |-> 0]
Init ==
    /\ BinaryInit
    /\ \/ file = Absent /\ service = FALSE /\ wanted = Reset
       \/ file = LoggedIn /\ service = TRUE /\ wanted = [Reset EXCEPT !.switch = TRUE]
    /\ running = 0 /\ given = 0
    /\ cmd = "none"
    /\ stage = [p \in Procs |-> IF p = "daemon" THEN "down" ELSE "idle"]
    /\ copy = [p \in Procs |-> Fresh]
    /\ writing = {} /\ stale = {}
    /\ disturbed = FALSE /\ damaged = FALSE

(***************************************************************************)
(* The configuration file                                                  *)
(***************************************************************************)

\* Load: auto-upgrade is on until its owner has heard of it.
Loaded(c) == [c EXCEPT !.auto = c.auto \/ ~c.info]

Agrees(c, w) == Loaded(c).auto = w.auto /\ c.switch = w.switch

\* p goes to stage s with c in memory; what it needs no longer is forgotten.
Go(p, s, c) ==
    /\ stage' = [stage EXCEPT ![p] = s]
    /\ copy' = [copy EXCEPT ![p] = IF s \in Holding THEN c ELSE Fresh]
    /\ cmd' = IF p = "terminal" /\ s = "idle" THEN "none" ELSE cmd

\* p goes to stage s having loaded c.
Load(p, s, c) ==
    /\ Go(p, s, c)
    /\ stale' = stale \ {p}
    /\ UNCHANGED <<binary, machine, file, writing, disturbed, wanted>>

\* p goes to stage s without a load or a save.
Leave(p, s) ==
    /\ Go(p, s, copy[p])
    /\ stale' = IF s \in Holding THEN stale ELSE stale \ {p}
    /\ UNCHANGED <<file, writing, disturbed, wanted>>

\* (mutant of SwitchedOff: without the flag the next load switches it on again)
OnlySwitchedOff(c) == [c EXCEPT !.auto = FALSE]

\* auto-upgrade off.
SwitchedOff(c) == [c EXCEPT !.auto = FALSE, !.info = TRUE]

\* What p's save makes of the configuration it has in memory.
Edited(p) ==
    LET c == copy[p]
    IN  CASE stage[p] = "greet" -> [c EXCEPT !.info = TRUE]
          [] stage[p] = "announce" -> [c EXCEPT !.notice = got[p]]
          [] stage[p] \in {"notify", "retract"} -> [c EXCEPT !.notice = 0]
          [] stage[p] = "register" -> [c EXCEPT !.switch = TRUE]
          [] stage[p] = "login" -> Fresh
          [] stage[p] = "edit" /\ cmd = "auto on" -> [c EXCEPT !.auto = TRUE]
          [] stage[p] = "edit" /\ cmd = "auto off" -> SwitchedOff(c)
          [] stage[p] = "edit" /\ cmd \in {"switch on", "switch off"} ->
                [c EXCEPT !.switch = (cmd = "switch on")]
          [] OTHER -> c

\* The switches after p's save, as far as its command was to set them.
Intended(p) ==
    CASE stage[p] = "login" -> Reset
      [] stage[p] = "register" -> [wanted EXCEPT !.switch = TRUE]
      [] stage[p] = "edit" /\ cmd \in {"auto on", "auto off"} ->
            [wanted EXCEPT !.auto = (cmd = "auto on")]
      [] stage[p] = "edit" /\ cmd \in {"switch on", "switch off"} ->
            [wanted EXCEPT !.switch = (cmd = "switch on")]
      [] OTHER -> wanted

\* Save: os.WriteFile truncates, ...
BeginSave(p) ==
    /\ stage[p] \in {"greet", "notify", "edit", "renew", "checked", "announce",
                     "retract", "login", "register"}
    /\ p \notin writing
    /\ file' = Torn
    /\ copy' = [copy EXCEPT ![p] = Edited(p)]
    /\ writing' = writing \cup {p}
    /\ stale' = stale \cup (Holders \ {p})
    /\ disturbed' = (p \in stale \/ writing # {})
    /\ UNCHANGED <<binary, machine, cmd, stage, wanted>>

Command(p) == IF p = "daemon" THEN "idle" ELSE "command"
Notify(p, c) == IF c.notice # 0 THEN "notify" ELSE Command(p)

AfterSave(p) ==
    CASE stage[p] = "greet" -> Notify(p, copy[p])
      [] stage[p] = "notify" -> Command(p)
      [] stage[p] = "checked" -> "decide"
      [] stage[p] = "announce" -> "install"
      [] stage[p] = "login" -> "register"
      [] stage[p] = "register" -> "setup"
      [] OTHER -> "idle"

\* ... and writes.
EndSave(p) ==
    /\ p \in writing
    /\ file' = copy[p]
    /\ writing' = writing \ {p}
    /\ wanted' = Intended(p)
    /\ Go(p, AfterSave(p), copy[p])
    /\ UNCHANGED <<binary, machine, stale, disturbed>>

(***************************************************************************)
(* Commands, and the jobs of the daemon that are like them                 *)
(***************************************************************************)

\* The owner gives a command; the executable has to be there.
Begin(c) ==
    /\ stage["terminal"] = "idle" /\ exec \in Versions
    /\ given < MaxCommands /\ given' = given + 1
    /\ cmd' = c
    /\ stage' = [stage EXCEPT !["terminal"] = IF c \in {"auto on", "auto off"} THEN "command" ELSE "prerun"]
    /\ UNCHANGED <<binary, service, running, damaged, config>>

\* PersistentPreRun: announce auto-upgrade, then an update; each is saved.
PreRun(p) ==
    /\ stage[p] = "prerun"
    /\ \/ /\ file \in Config
          /\ LET c == Loaded(file)
             IN  Load(p, IF ~c.info /\ c.auto THEN "greet" ELSE Notify(p, c), c)
       \/ /\ file \notin Config
          /\ Load(p, Command(p), Fresh)

\* The tunnel, ssh and vpn switches; auto-upgrade, which makes a file if need be.
LoadSwitches ==
    /\ stage["terminal"] = "command"
    /\ \/ /\ cmd \in {"switch on", "switch off", "auto on", "auto off"}
          /\ file \in Config
          /\ Load("terminal", "edit", Loaded(file))
       \/ /\ cmd \in {"auto on", "auto off"}
          /\ file = Absent
          /\ Load("terminal", "edit", Default)

\* auth refresh and the daemon's checkAndRefresh load, ask the server and save.
LoadToRenew(p) ==
    /\ \/ p = "terminal" /\ stage[p] = "command" /\ cmd = "refresh"
       \/ p = "daemon" /\ stage[p] = "idle"
    /\ file \in Config
    /\ Load(p, "renew", Loaded(file))

\* auth login, approved: a fresh configuration whatever the file holds, and a
\* second save when the tunnel has been registered.
Approved ==
    /\ stage["terminal"] = "command" /\ cmd = "login"
    /\ Leave("terminal", "login")
    /\ UNCHANGED <<binary, machine>>

\* autoSetupDaemon runs `roamie setup-daemon -y`, a command like the others.
SetupDaemon ==
    /\ stage["terminal"] = "setup" /\ exec \in Versions
    /\ cmd' = "setup"
    /\ stage' = [stage EXCEPT !["terminal"] = "prerun"]
    /\ UNCHANGED <<binary, machine, config>>

\* A command ends: it changes nothing here, or cannot go on.
EndCommand ==
    /\ \/ /\ stage["terminal"] = "command"
          /\ \/ cmd \in {"status", "login", "refresh", "upgrade", "setup", "uninstall"}
             \/ cmd \in {"switch on", "switch off"} /\ file \notin Config
             \/ cmd \in {"auto on", "auto off"} /\ file = Torn
       \/ stage["terminal"] = "setup" /\ exec \notin Versions
       \/ stage["terminal"] = "delete" /\ file = Absent
    /\ Leave("terminal", "idle")
    /\ UNCHANGED <<binary, machine>>

\* The server refuses, or there is nothing to do: no save follows the load.
NoSave(p) ==
    /\ p \notin writing
    /\ \/ stage[p] \in {"renew", "check"} /\ Leave(p, "idle")
       \/ stage[p] = "register" /\ Leave(p, "setup")
    /\ UNCHANGED <<binary, machine>>

(***************************************************************************)
(* Processes that start and end                                            *)
(***************************************************************************)

\* p is killed; what it has truncated stays so, and its upgrade stops where it
\* is.  When the terminal is the killer it goes to stage t in the same step.
Killed(p, t) ==
    /\ stage' = [stage EXCEPT !["terminal"] = t, !["daemon"] = IF p = "daemon" THEN "down" ELSE @]
    /\ cmd' = IF t = "idle" THEN "none" ELSE cmd
    /\ copy' = [copy EXCEPT ![p] = Fresh]
    /\ writing' = writing \ {p}
    /\ stale' = stale \ {p}
    /\ Forget(p)
    /\ running' = IF p = "daemon" THEN 0 ELSE running
    /\ damaged' = \/ damaged
                  \/ p \in writing
                  \/ inst[p] \notin {"idle", "checked", "done"}
                  \/ p = "daemon" /\ stage[p] \in {"install", "retract"} /\ inst[p] # "done"
    /\ UNCHANGED <<given, file, disturbed, wanted>>

Die(p) ==
    /\ stage[p] # IF p = "daemon" THEN "down" ELSE "idle"
    /\ Killed(p, IF p = "daemon" THEN stage["terminal"] ELSE "idle")
    /\ UNCHANGED service

\* (mutant of StartDaemon: whatever is there is started)
StartDaemonAnyway ==
    /\ service /\ stage["daemon"] = "down"
    /\ running' = exec
    /\ Leave("daemon", "prerun")
    /\ UNCHANGED <<binary, service, given, damaged>>

\* Restart=always (launchd: KeepAlive) starts the daemon whenever it is down.
StartDaemon ==
    /\ service /\ stage["daemon"] = "down" /\ exec \in Versions
    /\ running' = exec
    /\ Leave("daemon", "prerun")
    /\ UNCHANGED <<binary, service, given, damaged>>

\* systemctl ends the daemon, which starts again if the service is there, or
\* fails, which is reported at most.  The terminal goes on to stage t.
Systemctl(t) ==
    \/ Killed("daemon", t)
    \/ Leave("terminal", t) /\ UNCHANGED <<binary, running, given, damaged>>

\* setup-daemon writes and enables the unit and restarts the daemon.
InstallService ==
    /\ stage["terminal"] = "command" /\ cmd = "setup"
    /\ service' = TRUE
    /\ Systemctl("idle")

UninstallService ==
    /\ stage["terminal"] = "command" /\ cmd = "uninstall" /\ service
    /\ service' = FALSE
    /\ Systemctl("idle")

\* After an upgrade the command restarts the daemon unless it is told not to.
RestartDaemon ==
    /\ stage["terminal"] = "restart"
    /\ Systemctl("idle")
    /\ UNCHANGED service

\* auth logout stops and disables the service, ...
StopService ==
    /\ stage["terminal"] = "command" /\ cmd = "logout"
    /\ service' \in {service, FALSE}
    /\ Systemctl("delete")

\* ... and deletes the file; so does a daemon whose device is gone.
Delete(p) ==
    /\ \/ stage[p] = "delete"
       \/ p = "daemon" /\ stage[p] = "renew" /\ p \notin writing
    /\ file # Absent
    /\ file' = Absent
    /\ Go(p, "idle", Fresh)
    /\ stale' = (stale \cup Holders) \ {p}
    /\ disturbed' = (p \in stale \/ writing # {})
    /\ wanted' = Reset
    /\ UNCHANGED <<binary, machine, writing>>

(***************************************************************************)
(* Upgrades                                                                *)
(***************************************************************************)

\* The daemon's upgrade ticker loads the file and looks at the switch.
LoadToUpgrade ==
    /\ stage["daemon"] = "idle" /\ file \in Config /\ Loaded(file).auto
    /\ Load("daemon", "check", Loaded(file))

\* The daemon's check is followed by the save of last_upgrade_check, that of
\* `roamie upgrade` by the upgrade.
Check(p) ==
    /\ \/ p = "daemon" /\ stage[p] = "check" /\ Leave(p, "checked")
       \/ p = "terminal" /\ stage[p] = "command" /\ cmd = "upgrade" /\ Leave(p, "install")
    /\ CheckForUpdates(p)
    /\ UNCHANGED machine

\* (mutant of UpdateAvailable: the version of the executable is compared)
FileOutdated == got["daemon"] # exec

\* Any other version than the one the daemon runs is an update.
UpdateAvailable == got["daemon"] # running

Announce ==
    /\ stage["daemon"] = "decide" /\ UpdateAvailable
    /\ Leave("daemon", "announce")
    /\ UNCHANGED <<binary, machine>>

\* No update, or no executable for this platform.
NoUpdate(p) ==
    /\ \/ p = "daemon" /\ stage[p] = "decide"
       \/ p = "terminal" /\ stage[p] = "install" /\ inst[p] = "checked"
    /\ Forget(p)
    /\ Leave(p, "idle")
    /\ UNCHANGED machine

Install(p) ==
    /\ stage[p] = "install"
    /\ \/ inst[p] = "checked" /\ To(p, "download") /\ UNCHANGED <<files, latest, got, sound, damaged>>
       \/ Upgrade(p) /\ damaged' = (damaged \/ RestoreFails(p))
    /\ UNCHANGED <<service, running, given, cmd, stage, config>>

\* (mutant of InstallFailed: the announcement stays)
InstallFailedQuietly(p) ==
    /\ stage[p] = "install" /\ inst[p] = "failed"
    /\ Forget(p)
    /\ Leave(p, "idle")
    /\ UNCHANGED machine

\* The daemon takes its announcement back and saves; the terminal reports.
InstallFailed(p) ==
    /\ stage[p] = "install" /\ inst[p] = "failed"
    /\ Forget(p)
    /\ Leave(p, IF p = "daemon" THEN "retract" ELSE "idle")
    /\ UNCHANGED machine

\* restartDaemon, or the end of `roamie upgrade`.
Installed(p) ==
    /\ stage[p] = "install" /\ inst[p] = "done"
    /\ \/ p = "daemon" /\ Killed(p, stage["terminal"])
       \/ p = "terminal" /\ Forget(p) /\ Leave(p, "restart") /\ UNCHANGED <<running, given, damaged>>
    /\ UNCHANGED service

\* What the daemon does by itself, and what only the service manager, chance
\* and the owner do.
Serve ==
    \/ PreRun("daemon") \/ BeginSave("daemon") \/ EndSave("daemon")
    \/ LoadToRenew("daemon") \/ NoSave("daemon") \/ Delete("daemon")
    \/ LoadToUpgrade \/ Check("daemon") \/ Announce \/ NoUpdate("daemon")
    \/ Install("daemon") \/ InstallFailed("daemon") \/ Installed("daemon")

Daemon == Serve \/ StartDaemon \/ Die("daemon")

\* A command that has been given goes on.
Perform ==
    \/ PreRun("terminal") \/ BeginSave("terminal") \/ EndSave("terminal")
    \/ LoadSwitches \/ LoadToRenew("terminal") \/ NoSave("terminal")
    \/ Approved \/ SetupDaemon \/ InstallService \/ UninstallService
    \/ RestartDaemon \/ StopService \/ Delete("terminal")
    \/ EndCommand
    \/ Check("terminal") \/ NoUpdate("terminal") \/ Install("terminal")
    \/ InstallFailed("terminal") \/ Installed("terminal")

Terminal == Perform \/ Die("terminal") \/ \E c \in Commands : Begin(c)

Publish == Release /\ UNCHANGED <<machine, cmd, stage, config>>

\* After two saves or two upgrades have disturbed each other the files may hold
\* any mixture of the two: the model stops.
Undisturbed == sound /\ ~disturbed
Next == Undisturbed /\ (Daemon \/ Terminal \/ Publish)

Spec == Init /\ [][Next]_vars

\* The service manager restarts the daemon, jobs and commands come to their end
\* and the upgrade ticker fires again and again as long as the daemon lives.
FairSpec ==
    /\ Spec
    /\ WF_vars(Undisturbed /\ StartDaemon)
    /\ WF_vars(Undisturbed /\ Perform)
    /\ WF_vars(Undisturbed /\ Serve)
    /\ SF_vars(Undisturbed /\ LoadToUpgrade)

(***************************************************************************)
(* Properties                                                              *)
(***************************************************************************)
TypeOK ==
    /\ BinaryTypeOK
    /\ file \in Config \cup {Absent, Torn}
    /\ service \in BOOLEAN
    /\ running \in 0 .. MaxVersion
    /\ given \in 0 .. MaxCommands
    /\ cmd \in AllCommands \cup {"none"}
    /\ stage \in [Procs -> Stages]
    /\ copy \in [Procs -> Config]
    /\ writing \in SUBSET Procs /\ stale \in SUBSET Procs
    /\ disturbed \in BOOLEAN /\ damaged \in BOOLEAN
    /\ wanted \in Switches

\* A switch is where the last command that touched it put it, whatever other
\* commands, the daemon's renewals of the login, the pre-runs and the saves of
\* an auto-upgrade (during whose download minutes pass) wrote since: each saves
\* the whole file as it loaded it.  The exception is the one `disturbed` names,
\* a save over a newer one; an auto-upgrade that fails after its owner has
\* given a command meanwhile is the likely case.
SettingsKept == ~disturbed /\ file \in Config => Agrees(file, wanted)

\* An update that is announced has happened, or is happening.  checkAndAutoUpgrade
\* saves the announcement first and takes it back when Upgrade fails; a kill in
\* between (`damaged`) leaves it.
AtWork == stage["daemon"] = "retract" \/ \E p \in Procs : stage[p] = "install"
NoticeTrue ==
    Undisturbed /\ ~damaged /\ file \in Config /\ file.notice # 0 =>
        AtWork \/ (exec \in Versions /\ exec >= file.notice)

\* With the daemon installed and auto-upgrade left on, the daemon ends up
\* running the latest release, whatever failed before, once nothing fails any
\* more: every failure leaves a machine that tries again, except the accidents
\* that `damaged` and Undisturbed name.
Upgradable == service /\ wanted.auto /\ file # Absent /\ ~damaged /\ Undisturbed
Failure ==
    \/ Die("daemon")
    \/ NoSave("daemon") /\ stage["daemon"] = "check"
    \/ NoUpdate("daemon") /\ UpdateAvailable
    \/ Install("daemon") /\ inst'["daemon"] \in {"failed", "restore"}
UpToDate == <>[]Upgradable /\ <>[][~Failure]_vars => <>[](running = latest)
=============================================================================
