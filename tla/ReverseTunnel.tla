---------------------------- MODULE ReverseTunnel ----------------------------
(***************************************************************************)
(* Reverse SSH tunnels.  A device asks the server for a port; its daemon   *)
(* keeps an SSH connection to the server, which listens on the port and    *)
(* forwards what it accepts to the device.  The tunnel is switched on and  *)
(* off in two places, the device's configuration file and its row on the   *)
(* server; the connection breaks and is made again.                        *)
(*                                                                         *)
(* A device stands for one login of one machine: its row, its tunnel key,  *)
(* its configuration, its daemon.  Logins are DeviceAuth's subject, so     *)
(* every device is logged in at first, and deleted at most once.           *)
(***************************************************************************)
EXTENDS Integers, FiniteSets

CONSTANTS
    Devices,
    StartPort, EndPort,  \* the range of TunnelPortPool
    NoPort, NoDevice,
    Events,              \* [Devices -> SUBSET Event]: what may happen to each
    ServerRestarts       \* may the tunnel server be stopped and started?

Ports == StartPort..EndPort

\* network outage; daemon stopped or crashed; tunnel switched off on the server, or
\* on the device; device deleted; login renewed by the daemon.
Event == {"offline", "daemon", "remote", "local", "delete", "refresh"}

ASSUME TunnelAssumption ==
    /\ StartPort \in Nat /\ EndPort \in Nat
    /\ NoPort \notin Nat
    /\ NoDevice \notin Devices
    /\ Events \in [Devices -> SUBSET Event]
    /\ ServerRestarts \in BOOLEAN

VARIABLES
    rows,       \* devices that have a row
    port,       \* devices.tunnel_port
    keyed,      \* devices whose tunnel_ssh_key is stored
    enabled,    \* devices whose tunnel_enabled is set
    up,         \* is the tunnel server running?
    listener,   \* per port: the device whose session listens on it
    cli,        \* per device: next step of `roamie tunnel register`
    chosen,     \* per device: the port AllocatePort returned
    config,     \* per device: the tunnel in its file: "on", "off", "new" (off, and no
                \* port was ever saved) or "none" (no file)
    daemon,     \* devices whose daemon runs
    renewing,   \* per device: what the file held when the login's renewal read it
    client,     \* per device: state of the daemon's tunnelClient
    tunnelPort, \* per device: tunnelPort of that client
    granted,    \* per device: tunnel_port in the permissions of its connection
    late,       \* per device: the attempt to connect that outlives its client ({} or one)
    offline,    \* devices without a network
    broken      \* devices whose connection is gone without their knowing yet

table == <<rows, port, keyed, enabled>>
server == <<up, listener>>
command == <<cli, chosen>>
local == <<config, daemon, renewing>>
connection == <<client, tunnelPort, granted, late>>
network == <<offline, broken>>
vars == <<rows, port, keyed, enabled, up, listener, cli, chosen, config, daemon,
          renewing, client, tunnelPort, granted, late, offline, broken>>

Reaches(d) == up /\ d \notin offline

\* An attempt goes on for the port of its client; the server has granted it one, and
\* listens, as far as the attempt has come.
Attempt == [port : Ports \cup {NoPort}, granted : Ports \cup {NoPort}, listens : BOOLEAN]

-----------------------------------------------------------------------------
(* `roamie tunnel register`, which a login runs as well: store the key,      *)
(* ask for a port, enable, then switch the tunnel on in the file.            *)

Goto(d, s) == cli' = [cli EXCEPT ![d] = s]

BeginRegister(d) ==
    /\ cli[d] = "idle"
    /\ config[d] # "none"
    /\ Goto(d, "key")
    /\ UNCHANGED <<table, server, chosen, local, connection, network>>

\* Any failure ends the command; so may its user.
Abandon(d) ==
    /\ cli[d] # "idle"
    /\ Goto(d, "idle")
    /\ chosen' = [chosen EXCEPT ![d] = NoPort]
    /\ UNCHANGED <<table, server, local, connection, network>>

RegisterKey(d) ==
    /\ cli[d] = "key"
    /\ Reaches(d) /\ d \in rows
    /\ keyed' = keyed \cup {d}
    /\ Goto(d, "lookup")
    /\ UNCHANGED <<rows, port, enabled, server, chosen, local, connection, network>>

\* (mutant of Lookup: a device that has a port is given another)
LookupAnyway(d) ==
    /\ cli[d] = "lookup"
    /\ Reaches(d) /\ d \in rows
    /\ Goto(d, "allocate")
    /\ UNCHANGED <<table, server, chosen, local, connection, network>>

\* Register: a device that has a port keeps it.
Lookup(d) ==
    /\ cli[d] = "lookup"
    /\ Reaches(d) /\ d \in rows
    /\ Goto(d, IF port[d] = NoPort THEN "allocate" ELSE "enable")
    /\ UNCHANGED <<table, server, chosen, local, connection, network>>

\* AllocatePort: the lowest port that no row holds.
FreePort(p) ==
    /\ p \in Ports
    /\ \A d \in rows : port[d] # p
    /\ \A q \in Ports : q < p => \E d \in rows : port[d] = q

\* (mutant of Allocate: the search begins one too early)
AllocateEarly(d) ==
    /\ cli[d] = "allocate"
    /\ \E p \in StartPort - 1..EndPort :
          /\ \A e \in rows : port[e] # p
          /\ chosen' = [chosen EXCEPT ![d] = p]
    /\ Goto(d, "save")
    /\ UNCHANGED <<table, server, local, connection, network>>

Allocate(d) ==
    /\ cli[d] = "allocate"
    /\ \E p \in Ports :
          /\ FreePort(p)
          /\ chosen' = [chosen EXCEPT ![d] = p]
    /\ Goto(d, "save")
    /\ UNCHANGED <<table, server, local, connection, network>>

\* (mutant of SavePort: no UNIQUE on tunnel_port)
SaveAnyPort(d) ==
    /\ cli[d] = "save"
    /\ port' = [port EXCEPT ![d] = IF d \in rows THEN chosen[d] ELSE @]
    /\ chosen' = [chosen EXCEPT ![d] = NoPort]
    /\ Goto(d, "enable")
    /\ UNCHANGED <<rows, keyed, enabled, server, local, connection, network>>

\* UpdateTunnelPort, unless another row has taken the port; of a row that is gone, it
\* updates nothing.
SavePort(d) ==
    /\ cli[d] = "save"
    /\ \A e \in rows \ {d} : port[e] # chosen[d]
    /\ port' = [port EXCEPT ![d] = IF d \in rows THEN chosen[d] ELSE @]
    /\ chosen' = [chosen EXCEPT ![d] = NoPort]
    /\ Goto(d, "enable")
    /\ UNCHANGED <<rows, keyed, enabled, server, local, connection, network>>

Enable(d) ==
    /\ cli[d] = "enable"
    /\ Reaches(d) /\ d \in rows
    /\ enabled' = enabled \cup {d}
    /\ Goto(d, "config")
    /\ UNCHANGED <<rows, port, keyed, server, chosen, local, connection, network>>

SaveConfig(d) ==
    /\ cli[d] = "config"
    /\ config' = [config EXCEPT ![d] = "on"]
    /\ Goto(d, "idle")
    /\ UNCHANGED <<table, server, chosen, daemon, renewing, connection, network>>

-----------------------------------------------------------------------------
(* Switching the tunnel off and on again, and deleting the device.           *)

\* PATCH .../tunnel/disable and .../tunnel/enable write the row, nothing else.
SwitchOnServer(d) ==
    /\ "remote" \in Events[d]
    /\ d \in rows
    /\ enabled' = IF d \in enabled THEN enabled \ {d} ELSE enabled \cup {d}
    /\ UNCHANGED <<rows, port, keyed, server, command, local, connection, network>>

\* `roamie tunnel disable` and `roamie tunnel enable` write the file, nothing else;
\* without a saved port there is nothing to enable.
SwitchOnDevice(d) ==
    /\ "local" \in Events[d]
    /\ config[d] \in {"off", "on"}
    /\ config' = [config EXCEPT ![d] = IF @ = "on" THEN "off" ELSE "on"]
    /\ UNCHANGED <<table, server, command, daemon, renewing, connection, network>>

\* The row goes, and with it its port; a session of the device stays.
DeleteDevice(d) ==
    /\ "delete" \in Events[d]
    /\ d \in rows
    /\ rows' = rows \ {d}
    /\ port' = [port EXCEPT ![d] = NoPort]
    /\ keyed' = keyed \ {d}
    /\ enabled' = enabled \ {d}
    /\ UNCHANGED <<server, command, local, connection, network>>

-----------------------------------------------------------------------------
(* The daemon.  Its jobs run one after the other; the one that disconnects a *)
(* client waits until the attempt it has left behind is over.                *)

Free(d) == d \in daemon /\ renewing[d] = "none" /\ late[d] = {}

\* The hourly check finds the device deleted and deletes the file.
CleanUp(d) ==
    /\ Free(d)
    /\ d \notin rows /\ config[d] # "none"
    /\ config' = [config EXCEPT ![d] = "none"]
    /\ UNCHANGED <<table, server, command, daemon, renewing, connection, network>>

\* The hourly check renews the login, the daily one looks for a release: each reads
\* the file, calls a server, and writes the file back as it read it.
BeginRenewal(d) ==
    /\ "refresh" \in Events[d]
    /\ Free(d)
    /\ config[d] # "none"
    /\ renewing' = [renewing EXCEPT ![d] = config[d]]
    /\ UNCHANGED <<table, server, command, config, daemon, connection, network>>

EndRenewal(d) ==
    /\ renewing[d] # "none"
    /\ \/ config' = [config EXCEPT ![d] = renewing[d]]
       \/ UNCHANGED config
    /\ renewing' = [renewing EXCEPT ![d] = "none"]
    /\ UNCHANGED <<table, server, command, daemon, connection, network>>

\* The connection, if there is one, is closed, and the client goes on as s; only one that
\* dials again remembers its port.
HangUp(d, s) ==
    /\ client' = [client EXCEPT ![d] = s]
    /\ tunnelPort' = [tunnelPort EXCEPT ![d] = IF s = "dialling" THEN @ ELSE NoPort]
    /\ granted' = [granted EXCEPT ![d] = NoPort]
    /\ broken' = broken \ {d}

\* Disconnect cancels the client and closes the connection it has stored.  The loop looks
\* for the cancellation before it dials and once it listens, so that an attempt in between
\* is left to go on.
Disconnect(d, s) ==
    /\ HangUp(d, s)
    /\ late' = [late EXCEPT ![d] =
          IF client[d] \in {"dialling", "authenticated"} /\ d \notin broken
          THEN {[port |-> tunnelPort[d], granted |-> granted[d], listens |-> FALSE]}
          ELSE {}]

Connected(d) == client[d] \in {"authenticated", "forwarding"}

\* (mutant of ConfigTick: a tunnel switched off is forgotten, not disconnected)
ConfigTickStartsOnly(d) ==
    /\ Free(d)
    /\ config[d] = "on" /\ client[d] = "nil"
    /\ Disconnect(d, "connecting")
    /\ UNCHANGED <<table, server, command, local, offline>>

\* Every ten seconds: start or stop the tunnel as the file says.
ConfigTick(d) ==
    /\ Free(d)
    /\ \/ config[d] = "on" /\ client[d] = "nil" /\ Disconnect(d, "connecting")
       \/ config[d] \in {"new", "off"} /\ client[d] # "nil" /\ Disconnect(d, "nil")
    /\ UNCHANGED <<table, server, command, local, offline>>

\* (mutant of HealthTick: nobody looks whether the tunnel is connected)
HealthTickIdle(d) == FALSE /\ UNCHANGED vars

\* Every thirty seconds: a client that is not connected is stopped and, if the file
\* still says so, replaced.
HealthTick(d) ==
    /\ Free(d)
    /\ client[d] # "nil" /\ ~Connected(d)
    /\ Disconnect(d, IF config[d] = "on" THEN "connecting" ELSE "stopped")
    /\ UNCHANGED <<table, server, command, local, offline>>

StopDaemon(d) ==
    /\ "daemon" \in Events[d]
    /\ d \in daemon
    /\ daemon' = daemon \ {d}
    /\ renewing' = [renewing EXCEPT ![d] = "none"]
    /\ HangUp(d, "nil")
    /\ late' = [late EXCEPT ![d] = {}]
    /\ UNCHANGED <<table, server, command, config, offline>>

StartDaemon(d) ==
    /\ d \notin daemon
    /\ daemon' = daemon \cup {d}
    /\ HangUp(d, IF config[d] = "on" THEN "connecting" ELSE "nil")
    /\ UNCHANGED <<table, server, command, config, renewing, late, offline>>

-----------------------------------------------------------------------------
(* The connection.                                                           *)

\* Connect asks the server for the device's port; without an answer the loop that
\* makes connections is never started.
Connect(d) ==
    /\ client[d] = "connecting" /\ late[d] = {}
    /\ IF Reaches(d) /\ d \in rows /\ port[d] # NoPort
       THEN /\ client' = [client EXCEPT ![d] = "dialling"]
            /\ tunnelPort' = [tunnelPort EXCEPT ![d] = port[d]]
       ELSE /\ client' = [client EXCEPT ![d] = "stopped"]
            /\ UNCHANGED tunnelPort
    /\ UNCHANGED <<table, server, command, local, granted, late, network>>

\* authenticateClient.
Authenticates(d) == Reaches(d) /\ d \in keyed /\ d \in enabled /\ port[d] # NoPort

\* A refused attempt is repeated after a pause.
Dial(d) ==
    /\ client[d] = "dialling"
    /\ Authenticates(d)
    /\ client' = [client EXCEPT ![d] = "authenticated"]
    /\ granted' = [granted EXCEPT ![d] = port[d]]
    /\ UNCHANGED <<table, server, command, local, tunnelPort, late, network>>

\* tcpip-forward: the port must be the one granted, and nobody listening on it; a
\* refusal closes the connection.
Forward(d) ==
    /\ client[d] = "authenticated" /\ d \notin broken
    /\ IF tunnelPort[d] = granted[d] /\ listener[granted[d]] = NoDevice
       THEN /\ client' = [client EXCEPT ![d] = "forwarding"]
            /\ listener' = [listener EXCEPT ![granted[d]] = d]
            /\ UNCHANGED <<tunnelPort, granted, broken>>
       ELSE HangUp(d, "dialling") /\ UNCHANGED listener
    /\ UNCHANGED <<table, up, command, local, late, offline>>

\* What Dial and Forward are to a client, for an attempt left behind.
LateDial(d) ==
    /\ Authenticates(d)
    /\ \E a \in late[d] :
          /\ a.granted = NoPort
          /\ late' = [late EXCEPT ![d] = {[a EXCEPT !.granted = port[d]]}]
    /\ UNCHANGED <<table, server, command, local, client, tunnelPort, granted, network>>

LateForward(d) ==
    /\ \E a \in late[d] :
          /\ a.granted = a.port /\ a.port # NoPort /\ ~a.listens
          /\ listener[a.port] = NoDevice
          /\ listener' = [listener EXCEPT ![a.port] = d]
          /\ late' = [late EXCEPT ![d] = {[a EXCEPT !.listens = TRUE]}]
    /\ UNCHANGED <<table, up, command, local, client, tunnelPort, granted, network>>

\* (mutant of LateEnd: the loop looks for the cancellation before it dials, and not after)
LateEndUnheard(d) ==
    /\ \E a \in late[d] : ~a.listens
    /\ late' = [late EXCEPT ![d] = {}]
    /\ UNCHANGED <<table, server, command, local, client, tunnelPort, granted, network>>

\* The attempt fails, or it listens and finds itself cancelled: it closes its listener, which
\* asks the server to and waits for the answer.
LateEnd(d) ==
    /\ late[d] # {}
    /\ late' = [late EXCEPT ![d] = {}]
    /\ listener' = [p \in Ports |-> IF \E a \in late[d] : a.listens /\ a.port = p
                                    THEN NoDevice ELSE listener[p]]
    /\ UNCHANGED <<table, up, command, local, client, tunnelPort, granted, network>>

\* The keepalive fails, or the connection is reset.
NoticeBreak(d) ==
    /\ d \in broken
    /\ HangUp(d, "dialling")
    /\ UNCHANGED <<table, server, command, local, late, offline>>

\* Is the listener of port p that of a connection which is alive?
Linked(p) ==
    \E d \in Devices :
        /\ listener[p] = d
        /\ \/ client[d] = "forwarding" /\ tunnelPort[d] = p /\ d \notin broken
           \/ \E a \in late[d] : a.listens /\ a.port = p

\* The server learns, in its turn, that the connection is gone, and stops listening.
EndSession(p) ==
    /\ listener[p] # NoDevice /\ ~Linked(p)
    /\ listener' = [listener EXCEPT ![p] = NoDevice]
    /\ UNCHANGED <<table, up, command, local, connection, network>>

\* Of the attempts left behind, only those that have not reached the server yet survive its
\* loss.
Unreached(d) == {a \in late[d] : a.granted = NoPort}

GoOffline(d) ==
    /\ "offline" \in Events[d]
    /\ d \notin offline
    /\ offline' = offline \cup {d}
    /\ broken' = IF Connected(d) THEN broken \cup {d} ELSE broken
    /\ late' = [late EXCEPT ![d] = Unreached(d)]
    /\ UNCHANGED <<table, server, command, local, client, tunnelPort, granted>>

GoOnline(d) ==
    /\ d \in offline
    /\ offline' = offline \ {d}
    /\ UNCHANGED <<table, server, command, local, connection, broken>>

StopServer ==
    /\ ServerRestarts
    /\ up
    /\ up' = FALSE
    /\ listener' = [p \in Ports |-> NoDevice]
    /\ broken' = broken \cup {d \in Devices : Connected(d)}
    /\ late' = [d \in Devices |-> Unreached(d)]
    /\ UNCHANGED <<table, command, local, client, tunnelPort, granted, offline>>

StartServer ==
    /\ ~up
    /\ up' = TRUE
    /\ UNCHANGED <<table, listener, command, local, connection, network>>

-----------------------------------------------------------------------------
Init ==
    /\ rows = Devices
    /\ port = [d \in Devices |-> NoPort]
    /\ keyed = {} /\ enabled = {}
    /\ up = TRUE
    /\ listener = [p \in Ports |-> NoDevice]
    /\ cli = [d \in Devices |-> "idle"]
    /\ chosen = [d \in Devices |-> NoPort]
    /\ config = [d \in Devices |-> "new"]
    /\ daemon = Devices
    /\ renewing = [d \in Devices |-> "none"]
    /\ client = [d \in Devices |-> "nil"]
    /\ tunnelPort = [d \in Devices |-> NoPort]
    /\ granted = [d \in Devices |-> NoPort]
    /\ late = [d \in Devices |-> {}]
    /\ offline = {} /\ broken = {}

Register(d) ==
    \/ BeginRegister(d) \/ Abandon(d)
    \/ RegisterKey(d) \/ Lookup(d) \/ Allocate(d) \/ SavePort(d)
    \/ Enable(d) \/ SaveConfig(d)

Switch(d) == SwitchOnServer(d) \/ SwitchOnDevice(d) \/ DeleteDevice(d)

Daemon(d) ==
    \/ CleanUp(d) \/ BeginRenewal(d) \/ EndRenewal(d)
    \/ ConfigTick(d) \/ HealthTick(d)
    \/ StopDaemon(d) \/ StartDaemon(d)

Connection(d) ==
    \/ Connect(d) \/ Dial(d) \/ Forward(d)
    \/ LateDial(d) \/ LateForward(d) \/ LateEnd(d)
    \/ NoticeBreak(d) \/ GoOffline(d) \/ GoOnline(d)

Next ==
    \/ \E d \in Devices : Register(d) \/ Switch(d) \/ Daemon(d) \/ Connection(d)
    \/ \E p \in Ports : EndSession(p)
    \/ StopServer \/ StartServer

Spec == Init /\ [][Next]_vars

\* Tickers go on ticking while the hourly check or a restarted client keeps them
\* waiting now and then, and a client is restarted less often than it takes to dial
\* (SF); both ends notice a dead connection by its keepalive, and an attempt left
\* behind comes to its end (WF).  Nothing is assumed of users, of the network, or of
\* the server staying up.
Fairness ==
    /\ \A d \in Devices :
          /\ SF_vars(ConfigTick(d)) /\ SF_vars(HealthTick(d)) /\ WF_vars(EndRenewal(d))
          /\ WF_vars(Connect(d)) /\ SF_vars(Dial(d))
          /\ WF_vars(Forward(d) \/ NoticeBreak(d)) /\ WF_vars(LateEnd(d))
    /\ \A p \in Ports : WF_vars(EndSession(p))

FairSpec == Spec /\ Fairness

-----------------------------------------------------------------------------
(* Properties.                                                               *)

Steps == {"idle", "key", "lookup", "allocate", "save", "enable", "config"}
Clients == {"nil", "connecting", "stopped", "dialling", "authenticated", "forwarding"}

\* Every variable keeps its type.
TypeOK ==
    /\ rows \subseteq Devices /\ keyed \subseteq rows /\ enabled \subseteq rows
    /\ port \in [Devices -> Ports \cup {NoPort}]
    /\ up \in BOOLEAN
    /\ listener \in [Ports -> Devices \cup {NoDevice}]
    /\ cli \in [Devices -> Steps]
    /\ chosen \in [Devices -> Ports \cup {NoPort}]
    /\ config \in [Devices -> {"none", "new", "off", "on"}]
    /\ renewing \in [Devices -> {"none", "new", "off", "on"}]
    /\ daemon \subseteq Devices
    /\ client \in [Devices -> Clients]
    /\ tunnelPort \in [Devices -> Ports \cup {NoPort}]
    /\ granted \in [Devices -> Ports \cup {NoPort}]
    /\ late \in [Devices -> SUBSET Attempt]
    /\ offline \subseteq Devices /\ broken \subseteq Devices

\* A connection to a port leads to the device the port belongs to, or to one that
\* has been deleted; never to another device that is still registered.
ReachesOwner ==
    \A p \in Ports : listener[p] \in rows => port[listener[p]] = p

\* Everything a tunnel needs.
Ready(d) ==
    /\ d \in rows /\ d \in enabled /\ d \in keyed /\ port[d] # NoPort
    /\ config[d] = "on" /\ d \in daemon
    /\ Reaches(d)

Serves(d) == port[d] # NoPort /\ listener[port[d]] = d /\ Linked(port[d])

HeldByDeleted(p) == p # NoPort /\ listener[p] \in Devices \ rows

\* "Automatically restarts tunnel when connection is lost": whatever broke before, a
\* device that is ready for good ends up serving its port for good, unless the
\* session of a deleted device holds the port.
TunnelRestored ==
    \A d \in Devices :
        <>[]Ready(d) => <>[](Serves(d) \/ HeldByDeleted(port[d]))

\* "Disable SSH tunnel (daemon will stop it ...)": a tunnel switched off on the device,
\* for good, is not served any more.
DisabledLocally ==
    \A d \in Devices :
        <>[](config[d] \in {"new", "off"}) => <>[](\A p \in Ports : listener[p] # d)
=============================================================================
