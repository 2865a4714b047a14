------------------------ MODULE ReverseTunnel_proofs ------------------------
(* Proofs about ReverseTunnel: types, and whose port a listener is on.       *)
EXTENDS ReverseTunnel, TLAPS

LEMMA PortFacts == NoPort \notin Ports /\ NoDevice \notin Devices
  BY TunnelAssumption DEF TunnelAssumption, Ports

-----------------------------------------------------------------------------
(* Types.                                                                    *)

LEMMA InitTypes == Init => TypeOK
  BY DEF Init, TypeOK, Steps, Clients, Attempt

\* What hanging up leaves of the connections is typed.
LEMMA HangUpTypes ==
  ASSUME TypeOK, NEW d \in Devices, NEW s \in Clients, HangUp(d, s)
  PROVE  /\ client' \in [Devices -> Clients]
         /\ tunnelPort' \in [Devices -> Ports \cup {NoPort}]
         /\ granted' \in [Devices -> Ports \cup {NoPort}]
         /\ broken' \subseteq Devices
  BY DEF TypeOK, HangUp

\* So is what disconnecting leaves behind.
LEMMA DisconnectTypes ==
  ASSUME TypeOK, NEW d \in Devices, NEW s \in Clients, Disconnect(d, s)
  PROVE  HangUp(d, s) /\ late' \in [Devices -> SUBSET Attempt]
  <1>1. [port |-> tunnelPort[d], granted |-> granted[d], listens |-> FALSE] \in Attempt
    BY DEF TypeOK, Attempt
  <1> QED BY <1>1 DEF Disconnect, TypeOK

\* The steps of the registration keep the types.
LEMMA RegisterTypes ==
  ASSUME TypeOK, NEW d \in Devices, Register(d)
  PROVE  TypeOK'
  <1> USE DEF TypeOK, Goto, Steps, table, server, command, local, connection, network
  <1>1. CASE BeginRegister(d) \/ Abandon(d)
    BY <1>1 DEF BeginRegister, Abandon
  <1>2. CASE RegisterKey(d) \/ Lookup(d)
    BY <1>2 DEF RegisterKey, Lookup
  <1>3. CASE Allocate(d)
    BY <1>3 DEF Allocate
  <1>4. CASE SavePort(d)
    BY <1>4 DEF SavePort
  <1>5. CASE Enable(d) \/ SaveConfig(d)
    BY <1>5 DEF Enable, SaveConfig
  <1> QED BY <1>1, <1>2, <1>3, <1>4, <1>5 DEF Register

\* So do the switches.
LEMMA SwitchTypes ==
  ASSUME TypeOK, NEW d \in Devices, Switch(d)
  PROVE  TypeOK'
  <1> USE DEF TypeOK, table, server, command, local, connection, network
  <1>1. CASE SwitchOnServer(d)
    BY <1>1 DEF SwitchOnServer
  <1>2. CASE SwitchOnDevice(d)
    BY <1>2 DEF SwitchOnDevice
  <1>3. CASE DeleteDevice(d)
    BY <1>3 DEF DeleteDevice
  <1> QED BY <1>1, <1>2, <1>3 DEF Switch

\* And the daemon.
LEMMA DaemonTypes ==
  ASSUME TypeOK, NEW d \in Devices, Daemon(d)
  PROVE  TypeOK'
  <1> USE DEF table, server, command, local
  <1>1. CASE CleanUp(d) \/ BeginRenewal(d) \/ EndRenewal(d)
    BY <1>1 DEF TypeOK, CleanUp, BeginRenewal, EndRenewal, connection, network
  <1>2. ASSUME NEW s \in Clients, HangUp(d, s), UNCHANGED <<table, server, command, config, offline>>,
               daemon' \subseteq Devices, renewing' \in [Devices -> {"none", "new", "off", "on"}],
               late' \in [Devices -> SUBSET Attempt]
        PROVE  TypeOK'
    BY <1>2, HangUpTypes DEF TypeOK
  <1>3. CASE ConfigTick(d) \/ HealthTick(d)
    <2>1. PICK s \in {"connecting", "nil", "stopped"} : Disconnect(d, s)
      BY <1>3 DEF ConfigTick, HealthTick
    <2>2. s \in Clients
      BY DEF Clients
    <2>3. HangUp(d, s) /\ late' \in [Devices -> SUBSET Attempt]
      BY <2>1, <2>2, DisconnectTypes
    <2>4. UNCHANGED <<table, server, command, local, offline>>
      BY <1>3 DEF ConfigTick, HealthTick
    <2> QED BY <1>2, <2>2, <2>3, <2>4 DEF TypeOK
  <1>4. CASE StopDaemon(d)
    <2>1. late' \in [Devices -> SUBSET Attempt]
      BY <1>4 DEF StopDaemon, TypeOK
    <2> QED BY <1>2, <1>4, <2>1 DEF StopDaemon, TypeOK, Clients
  <1>5. CASE StartDaemon(d)
    <2>1. PICK s \in {"connecting", "nil"} : HangUp(d, s)
      BY <1>5 DEF StartDaemon
    <2> QED BY <1>2, <1>5, <2>1 DEF StartDaemon, TypeOK, Clients
  <1> QED BY <1>1, <1>3, <1>4, <1>5 DEF Daemon

\* And the connection, at both its ends.
LEMMA ConnectionTypes ==
  ASSUME TypeOK, NEW d \in Devices, Connection(d)
  PROVE  TypeOK'
  <1> USE DEF table, server, command, local
  <1>1. CASE Connect(d)
    BY <1>1 DEF Connect, TypeOK, Clients, network
  <1>2. CASE Dial(d)
    BY <1>2 DEF Dial, TypeOK, Clients, network
  <1>3. CASE Forward(d)
    <2>1. CASE HangUp(d, "dialling") /\ UNCHANGED listener
      <3>1. "dialling" \in Clients
        BY DEF Clients
      <3> QED BY <1>3, <2>1, <3>1, HangUpTypes DEF Forward, TypeOK
    <2>2. CASE /\ client' = [client EXCEPT ![d] = "forwarding"]
               /\ listener' = [listener EXCEPT ![granted[d]] = d]
               /\ UNCHANGED <<tunnelPort, granted, broken>>
      BY <1>3, <2>2 DEF Forward, TypeOK, Clients
    <2> QED BY <1>3, <2>1, <2>2 DEF Forward
  <1>4. CASE NoticeBreak(d)
    <2>1. "dialling" \in Clients
      BY DEF Clients
    <2> QED BY <1>4, <2>1, HangUpTypes DEF NoticeBreak, TypeOK
  <1>5. CASE GoOffline(d) \/ GoOnline(d)
    BY <1>5 DEF GoOffline, GoOnline, TypeOK, connection, Unreached
  <1>6. CASE LateDial(d)
    <2>1. PICK a \in late[d] : late' = [late EXCEPT ![d] = {[a EXCEPT !.granted = port[d]]}]
      BY <1>6 DEF LateDial
    <2>2. [a EXCEPT !.granted = port[d]] \in Attempt
      BY DEF TypeOK, Attempt
    <2> QED BY <1>6, <2>1, <2>2 DEF LateDial, TypeOK, network
  <1>7. CASE LateForward(d)
    <2>1. PICK a \in late[d] :
            /\ a.port # NoPort
            /\ listener' = [listener EXCEPT ![a.port] = d]
            /\ late' = [late EXCEPT ![d] = {[a EXCEPT !.listens = TRUE]}]
      BY <1>7 DEF LateForward
    <2>2. a \in Attempt
      BY DEF TypeOK
    <2>3. [a EXCEPT !.listens = TRUE] \in Attempt
      BY <2>2 DEF Attempt
    <2> QED BY <1>7, <2>1, <2>3 DEF LateForward, TypeOK, network
  <1>8. CASE LateEnd(d)
    <2>1. late' \in [Devices -> SUBSET Attempt] /\ listener' \in [Ports -> Devices \cup {NoDevice}]
      BY <1>8 DEF LateEnd, TypeOK
    <2> QED BY <1>8, <2>1 DEF LateEnd, TypeOK, network
  <1> QED BY <1>1, <1>2, <1>3, <1>4, <1>5, <1>6, <1>7, <1>8 DEF Connection

\* And the server.
LEMMA ServerTypes ==
  ASSUME TypeOK, StopServer \/ StartServer \/ \E p \in Ports : EndSession(p)
  PROVE  TypeOK'
  <1> USE DEF TypeOK, table, command, local, connection, network
  <1>1. CASE StopServer
    BY <1>1 DEF StopServer, Unreached
  <1>2. CASE StartServer
    BY <1>2 DEF StartServer
  <1>3. CASE \E p \in Ports : EndSession(p)
    BY <1>3 DEF EndSession
  <1> QED BY <1>1, <1>2, <1>3

LEMMA TypesKept == TypeOK /\ [Next]_vars => TypeOK'
  <1> SUFFICES ASSUME TypeOK, [Next]_vars PROVE TypeOK'
    OBVIOUS
  <1>1. CASE UNCHANGED vars
    BY <1>1 DEF TypeOK, vars
  <1>2. CASE Next
    BY <1>2, RegisterTypes, SwitchTypes, DaemonTypes, ConnectionTypes, ServerTypes DEF Next
  <1> QED BY <1>1, <1>2

\* Every variable keeps its type, for any devices and any range of ports: devices
\* without a row have neither key nor switch (RegisterKey, Enable, DeleteDevice).
THEOREM TypeCorrect == Spec => []TypeOK
  BY InitTypes, TypesKept, PTL DEF Spec


-----------------------------------------------------------------------------
(* Listeners.  That a listener opens on its device's own port is not         *)
(* inductive.  It rests on what the connection was granted when it was       *)
(* authenticated, be it the client's or an attempt the client has left       *)
(* behind; and that the grant still holds, on a registration moving no       *)
(* device to another port: the device had none when the registration looked, *)
(* and stays so because every device has one registration at a time.         *)

PortlessYet == \A d \in Devices : cli[d] \in {"allocate", "save"} => port[d] = NoPort

GrantHolds ==
    \A d \in Devices :
        /\ granted[d] # NoPort <=> Connected(d)
        /\ d \in rows /\ granted[d] # NoPort => granted[d] = port[d]
        /\ \A a \in late[d] : d \in rows /\ a.granted # NoPort => a.granted = port[d]

PortInv == TypeOK /\ ReachesOwner /\ PortlessYet /\ GrantHolds

LEMMA InitPorts == Init => PortInv
  <1> SUFFICES ASSUME Init PROVE PortInv
    OBVIOUS
  <1>1. TypeOK
    BY InitTypes
  <1> QED BY <1>1, PortFacts DEF Init, PortInv, ReachesOwner, PortlessYet, GrantHolds, Connected

\* Steps that leave rows, ports and listeners alone.
LEMMA SamePorts ==
  ASSUME PortInv, TypeOK',
         UNCHANGED <<rows, port, listener>>,
         PortlessYet', GrantHolds'
  PROVE  PortInv'
  BY DEF PortInv, ReachesOwner

LEMMA RegisterPorts ==
  ASSUME PortInv, NEW d \in Devices, Register(d)
  PROVE  PortInv'
  <1> USE DEF Goto
  <1>0. TypeOK /\ TypeOK'
    BY RegisterTypes DEF PortInv
  <1>1. CASE ~SavePort(d)
    <2>1. UNCHANGED <<rows, port, listener, client, granted, late>>
      BY <1>1 DEF Register, BeginRegister, Abandon, RegisterKey, Lookup, Allocate, Enable,
                  SaveConfig, table, server, connection
    <2>2. GrantHolds'
      BY <2>1 DEF PortInv, GrantHolds, Connected
    <2>3. ASSUME NEW e \in Devices, cli'[e] \in {"allocate", "save"}
          PROVE  port'[e] = NoPort
      <3>1. CASE e # d
        <4>1. cli'[e] = cli[e]
          BY <1>0, <1>1, <3>1 DEF Register, BeginRegister, Abandon, RegisterKey, Lookup,
                                  Allocate, Enable, SaveConfig, TypeOK
        <4> QED BY <2>1, <2>3, <4>1 DEF PortInv, PortlessYet
      <3>2. CASE e = d
        <4>1. port[d] = NoPort
          BY <1>0, <1>1, <2>3, <3>2 DEF Register, BeginRegister, Abandon, RegisterKey, Lookup,
                  Allocate, Enable, SaveConfig, TypeOK, PortInv, PortlessYet
        <4> QED BY <2>1, <3>2, <4>1
      <3> QED BY <3>1, <3>2
    <2> QED BY <1>0, <2>1, <2>2, <2>3, SamePorts DEF PortlessYet
  <1>2. CASE SavePort(d)
    <2>1. /\ UNCHANGED <<rows, listener, client, granted, late>>
          /\ cli' = [cli EXCEPT ![d] = "enable"]
          /\ port' = [port EXCEPT ![d] = IF d \in rows THEN chosen[d] ELSE @]
          /\ port[d] = NoPort
          /\ \A e \in rows \ {d} : port[e] # chosen[d]
      BY <1>2 DEF SavePort, server, connection, PortInv, PortlessYet
    <2>2. \A e \in Devices \ {d} : port'[e] = port[e] /\ cli'[e] = cli[e]
      BY <1>0, <2>1 DEF TypeOK
    <2>3. port'[d] = (IF d \in rows THEN chosen[d] ELSE port[d]) /\ cli'[d] = "enable"
      BY <1>0, <2>1 DEF TypeOK
    <2>5. ReachesOwner'
      BY <1>0, <2>1, <2>2, PortFacts DEF PortInv, ReachesOwner, TypeOK
    <2>6. PortlessYet'
      BY <2>2, <2>3 DEF PortInv, PortlessYet
    <2>7. GrantHolds'
      BY <1>0, <2>1, <2>2, PortFacts DEF PortInv, GrantHolds, Connected
    <2> QED BY <1>0, <2>5, <2>6, <2>7 DEF PortInv
  <1> QED BY <1>1, <1>2

LEMMA SwitchPorts ==
  ASSUME PortInv, NEW d \in Devices, Switch(d)
  PROVE  PortInv'
  <1>0. TypeOK /\ TypeOK'
    BY SwitchTypes DEF PortInv
  <1>1. CASE SwitchOnServer(d) \/ SwitchOnDevice(d)
    BY <1>0, <1>1, SamePorts DEF SwitchOnServer, SwitchOnDevice, PortInv, PortlessYet, GrantHolds,
                                 Connected, table, server, command, connection
  <1>2. CASE DeleteDevice(d)
    <2>1. /\ rows' = rows \ {d} /\ port' = [port EXCEPT ![d] = NoPort]
          /\ UNCHANGED <<listener, cli, client, granted, late>>
      BY <1>2 DEF DeleteDevice, server, command, connection
    <2>2. port'[d] = NoPort /\ \A e \in Devices \ {d} : port'[e] = port[e]
      BY <1>0, <2>1 DEF TypeOK
    <2> QED BY <1>0, <2>1, <2>2 DEF PortInv, ReachesOwner, PortlessYet, GrantHolds, Connected, TypeOK
  <1> QED BY <1>1, <1>2 DEF Switch

\* Hanging up ends the grant of the device that does it.
LEMMA HangUpGrants ==
  ASSUME PortInv, NEW d \in Devices, NEW s \in Clients \ {"authenticated", "forwarding"},
         HangUp(d, s), UNCHANGED <<rows, port>>,
         \A e \in Devices : \A a \in late'[e] :
            a.granted # NoPort => a \in late[e] \/ a.granted = granted[e]
  PROVE  GrantHolds'
  BY DEF PortInv, TypeOK, HangUp, GrantHolds, Connected

LEMMA DaemonPorts ==
  ASSUME PortInv, NEW d \in Devices, Daemon(d)
  PROVE  PortInv'
  <1>0. TypeOK /\ TypeOK'
    BY DaemonTypes DEF PortInv
  <1>1. UNCHANGED <<rows, port, listener, cli>>
    BY DEF Daemon, CleanUp, BeginRenewal, EndRenewal, ConfigTick, HealthTick, StopDaemon,
           StartDaemon, table, server, command
  <1>2. PortlessYet'
    BY <1>1 DEF PortInv, PortlessYet
  <1>3. CASE CleanUp(d) \/ BeginRenewal(d) \/ EndRenewal(d)
    <2>1. GrantHolds'
      BY <1>1, <1>3 DEF CleanUp, BeginRenewal, EndRenewal, connection, PortInv, GrantHolds, Connected
    <2> QED BY <1>0, <1>1, <1>2, <2>1, SamePorts
  <1>4. CASE ~(CleanUp(d) \/ BeginRenewal(d) \/ EndRenewal(d))
    <2>1. PICK s \in {"connecting", "nil", "stopped"} : HangUp(d, s)
      BY <1>4 DEF Daemon, ConfigTick, HealthTick, Disconnect, StopDaemon, StartDaemon
    <2>2. s \in Clients \ {"authenticated", "forwarding"}
      BY DEF Clients
    <2>3. ASSUME NEW e \in Devices, NEW a \in late'[e], a.granted # NoPort
          PROVE  a \in late[e] \/ a.granted = granted[e]
      BY <1>0, <1>4, <2>3 DEF Daemon, ConfigTick, HealthTick, Disconnect, StopDaemon, StartDaemon, TypeOK
    <2>4. GrantHolds'
      BY <1>1, <2>1, <2>2, <2>3, HangUpGrants
    <2> QED BY <1>0, <1>1, <1>2, <2>4, SamePorts
  <1> QED BY <1>3, <1>4

\* A listener that opens for a device on a port granted to it is on the device's own.
LEMMA ListensAtOwn ==
  ASSUME PortInv, UNCHANGED <<rows, port>>, NEW d \in Devices, NEW p \in Ports,
         listener' = [listener EXCEPT ![p] = d],
         d \in rows => p = port[d]
  PROVE  ReachesOwner'
  BY DEF PortInv, ReachesOwner, TypeOK

\* Listeners that close leave the others where they were.
LEMMA ListenersClose ==
  ASSUME PortInv, UNCHANGED <<rows, port>>,
         \A p \in Ports : listener'[p] = listener[p] \/ listener'[p] = NoDevice
  PROVE  ReachesOwner'
  BY PortFacts DEF PortInv, ReachesOwner, TypeOK

\* The steps of the client's own connection.
LEMMA ClientPorts ==
  ASSUME PortInv, NEW d \in Devices, Connect(d) \/ Dial(d) \/ Forward(d) \/ NoticeBreak(d)
  PROVE  GrantHolds' /\ ReachesOwner'
  <1>0. TypeOK
    BY DEF PortInv
  <1>1. UNCHANGED <<rows, port, late>>
    BY DEF Connect, Dial, Forward, NoticeBreak, table
  <1>2. ASSUME UNCHANGED listener PROVE ReachesOwner'
    BY <1>1, <1>2 DEF PortInv, ReachesOwner
  <1>3. ASSUME HangUp(d, "dialling") PROVE GrantHolds'
    <2>1. "dialling" \in Clients \ {"authenticated", "forwarding"}
      BY DEF Clients
    <2> QED BY <1>1, <1>3, <2>1, HangUpGrants
  <1>4. CASE Connect(d)
    BY <1>0, <1>1, <1>2, <1>4 DEF Connect, server, PortInv, GrantHolds, Connected, TypeOK
  <1>5. CASE Dial(d)
    <2>1. granted'[d] = port[d] /\ port[d] # NoPort /\ client'[d] = "authenticated"
      BY <1>0, <1>5 DEF Dial, Authenticates, TypeOK
    <2>2. \A e \in Devices \ {d} : granted'[e] = granted[e] /\ client'[e] = client[e]
      BY <1>0, <1>5 DEF Dial, TypeOK
    <2>3. GrantHolds'
      BY <1>1, <2>1, <2>2 DEF PortInv, GrantHolds, Connected
    <2> QED BY <1>2, <1>5, <2>3 DEF Dial, server
  <1>6. CASE Forward(d)
    <2>1. CASE HangUp(d, "dialling") /\ UNCHANGED listener
      BY <1>2, <1>3, <2>1
    <2>2. CASE /\ client' = [client EXCEPT ![d] = "forwarding"]
               /\ listener' = [listener EXCEPT ![granted[d]] = d]
               /\ UNCHANGED <<tunnelPort, granted, broken>>
      <3>1. granted[d] \in Ports /\ (d \in rows => granted[d] = port[d])
        BY <1>0, <1>6 DEF Forward, PortInv, GrantHolds, Connected, TypeOK
      <3>2. ReachesOwner'
        BY <1>1, <2>2, <3>1, ListensAtOwn
      <3>3. GrantHolds'
        BY <1>0, <1>1, <1>6, <2>2 DEF Forward, PortInv, GrantHolds, Connected, TypeOK
      <3> QED BY <3>2, <3>3
    <2> QED BY <1>6, <2>1, <2>2 DEF Forward
  <1>7. CASE NoticeBreak(d)
    BY <1>2, <1>3, <1>7 DEF NoticeBreak, server
  <1> QED BY <1>4, <1>5, <1>6, <1>7

\* Those of an attempt left behind.
LEMMA LatePorts ==
  ASSUME PortInv, NEW d \in Devices, LateDial(d) \/ LateForward(d) \/ LateEnd(d)
  PROVE  GrantHolds' /\ ReachesOwner'
  <1>0. TypeOK
    BY DEF PortInv
  <1>1. UNCHANGED <<rows, port, client, granted>>
    BY DEF LateDial, LateForward, LateEnd, table
  <1>2. ASSUME \A e \in Devices : \A b \in late'[e] :
                  b.granted # NoPort /\ e \in rows => b.granted = port[e]
        PROVE  GrantHolds'
    BY <1>1, <1>2 DEF PortInv, GrantHolds, Connected
  <1>3. \A e \in Devices : \A b \in late[e] : b.granted # NoPort /\ e \in rows => b.granted = port[e]
    BY DEF PortInv, GrantHolds
  <1>4. CASE LateDial(d)
    <2>1. PICK a \in late[d] : late' = [late EXCEPT ![d] = {[a EXCEPT !.granted = port[d]]}]
      BY <1>4 DEF LateDial
    <2>2. a \in Attempt
      BY <1>0 DEF TypeOK
    <2>3. [a EXCEPT !.granted = port[d]].granted = port[d]
      BY <2>2 DEF Attempt
    <2>4. GrantHolds'
      BY <1>0, <1>2, <1>3, <2>1, <2>3 DEF TypeOK
    <2>5. ReachesOwner'
      BY <1>1, <1>4 DEF LateDial, server, PortInv, ReachesOwner
    <2> QED BY <2>4, <2>5
  <1>5. CASE LateForward(d)
    <2>1. PICK a \in late[d] :
            /\ a.granted = a.port /\ a.port # NoPort
            /\ listener' = [listener EXCEPT ![a.port] = d]
            /\ late' = [late EXCEPT ![d] = {[a EXCEPT !.listens = TRUE]}]
      BY <1>5 DEF LateForward
    <2>2. a \in Attempt
      BY <1>0 DEF TypeOK
    <2>3. [a EXCEPT !.listens = TRUE].granted = a.granted /\ a.port \in Ports
      BY <2>1, <2>2 DEF Attempt
    <2>4. GrantHolds'
      BY <1>0, <1>2, <1>3, <2>1, <2>3 DEF TypeOK
    <2>5. d \in rows => a.port = port[d]
      BY <1>3, <2>1
    <2> QED BY <1>1, <2>1, <2>3, <2>4, <2>5, ListensAtOwn
  <1>6. CASE LateEnd(d)
    <2>1. GrantHolds'
      BY <1>0, <1>2, <1>3, <1>6 DEF LateEnd, TypeOK
    <2>2. \A p \in Ports : listener'[p] = listener[p] \/ listener'[p] = NoDevice
      BY <1>6 DEF LateEnd
    <2> QED BY <1>1, <2>1, <2>2, ListenersClose
  <1> QED BY <1>4, <1>5, <1>6

LEMMA ConnectionPorts ==
  ASSUME PortInv, NEW d \in Devices, Connection(d)
  PROVE  PortInv'
  <1>1. TypeOK'
    BY ConnectionTypes DEF PortInv
  <1>2. UNCHANGED <<rows, port, cli>>
    BY DEF Connection, Connect, Dial, Forward, LateDial, LateForward, LateEnd, NoticeBreak,
           GoOffline, GoOnline, table, command
  <1>3. PortlessYet'
    BY <1>2 DEF PortInv, PortlessYet
  <1>4. CASE GoOffline(d) \/ GoOnline(d)
    <2>1. UNCHANGED <<listener, client, granted>> /\ \A e \in Devices : late'[e] \subseteq late[e]
      BY <1>4 DEF GoOffline, GoOnline, server, connection, Unreached, PortInv, TypeOK
    <2>2. GrantHolds'
      BY <1>2, <2>1 DEF PortInv, GrantHolds, Connected
    <2> QED BY <1>1, <1>2, <1>3, <2>1, <2>2, SamePorts
  <1> QED BY <1>1, <1>3, <1>4, ClientPorts, LatePorts DEF Connection, PortInv

LEMMA ServerPorts ==
  ASSUME PortInv, StopServer \/ StartServer \/ \E p \in Ports : EndSession(p)
  PROVE  PortInv'
  <1>0. TypeOK /\ TypeOK'
    BY ServerTypes DEF PortInv
  <1>1. UNCHANGED <<rows, port, cli, client, granted>> /\ \A d \in Devices : late'[d] \subseteq late[d]
    BY DEF StopServer, StartServer, EndSession, table, command, connection, Unreached
  <1>2. \A q \in Ports : listener'[q] = listener[q] \/ listener'[q] = NoDevice
    BY <1>0 DEF StopServer, StartServer, EndSession, TypeOK
  <1>3. ReachesOwner'
    BY <1>1, <1>2, ListenersClose
  <1> QED BY <1>0, <1>1, <1>3 DEF PortInv, PortlessYet, GrantHolds, Connected

LEMMA PortsKept == PortInv /\ [Next]_vars => PortInv'
  <1> SUFFICES ASSUME PortInv, [Next]_vars PROVE PortInv'
    OBVIOUS
  <1>1. CASE UNCHANGED vars
    BY <1>1 DEF PortInv, TypeOK, ReachesOwner, PortlessYet, GrantHolds, Connected, vars
  <1>2. CASE Next
    BY <1>2, RegisterPorts, SwitchPorts, DaemonPorts, ConnectionPorts, ServerPorts DEF Next
  <1> QED BY <1>1, <1>2

LEMMA PortsInvariant == Spec => []PortInv
  BY InitPorts, PortsKept, PTL DEF Spec

\* A port leads to its device or to one that has been deleted, whatever was registered,
\* disconnected, deleted or restarted between a connection's steps.
THEOREM OwnerReached == Spec => []ReachesOwner
  <1>1. PortInv => ReachesOwner
    BY DEF PortInv
  <1> QED BY <1>1, PortsInvariant, PTL

=============================================================================
