-------------------------- MODULE MCDeviceRegistry --------------------------
(* Instances of DeviceRegistry for TLC.  A /30 network has two usable hosts  *)
(* and a /29 six; the address sets below are cut to what each run needs.     *)
EXTENDS DeviceRegistry, TLC

Rq(u, n, k, h, rb) == [user |-> u, name |-> n, key |-> k, hw |-> h, rollback |-> rb]

\* A registration by an approved challenge, whose device is named after its host.
Approval(u, n, k, h) == Rq(u, n, k, h, FALSE)

\* Two users with a subnet each; the addresses are 10 * user + host.
TwoSubnets == ("ana" :> {12, 13}) @@ ("bo" :> {22, 23})
LimitOneEach == ("ana" :> 1) @@ ("bo" :> 1)
LimitTwo == "ana" :> 2

\* A name the application has made, whose third part is the hardware id, and a host
\* name that happens to have three parts.
ParsedNames == ("linux-ana-h1" :> "h1") @@ ("aws-eu-web" :> "web")

\* Two requests of one user, which may both be after the same name or key, and a
\* second user who may present the same key.
ContendedRequests ==
    [p \in Procs |-> {Rq("ana", "linux-ana-h1", "k1", "h1", TRUE),
                      Rq("ana", "linux-ana-h1", "k2", NoHardware, TRUE),
                      Approval("ana", "aws-eu-web", "k2", "h2"),
                      Rq("bo", "linux-ana-h1", "k1", NoHardware, FALSE)}]

\* Every registration through the API, which rolls back, of four names and three keys by
\* two users.  One name does not parse, and two hosts are one piece of hardware by their
\* names.  The first user runs out of addresses before devices, the second out of devices
\* before addresses.
TwoWebHosts == ParsedNames @@ ("gcp-us-web" :> "web")
ShortSubnet == ("ana" :> {12}) @@ ("bo" :> {22, 23})
LimitTwoOne == ("ana" :> 2) @@ ("bo" :> 1)
EveryRequest ==
    [p \in Procs |-> {Rq(u, n, k, h, TRUE) : u \in Users, n \in Names, k \in Keys,
                                             h \in {"h1", NoHardware}}]

\* Four devices of a user who may have two, two registering with each handler; one of
\* each pair also changes its key.  Handlers never work on the same device.
FourHosts == "ana" :> {12, 13, 14, 15}
ThreeParsed == ParsedNames @@ ("linux-ana-h3" :> "h3")
DistinctDevices ==
    ("p1" :> {Rq("ana", "linux-ana-h1", "k1", "h1", TRUE),
              Rq("ana", "linux-ana-h1", "k2", NoHardware, TRUE),
              Rq("ana", "linux-ana-h3", "k5", "h3", TRUE)})
    @@ ("p2" :> {Approval("ana", "aws-eu-web", "k3", "h2"),
                 Approval("ana", "aws-eu-web", "k4", NoHardware),
                 Approval("ana", "laptop", "k6", "h4")})

\* A user of the default configuration, a subnet of 8 addresses and five devices, of
\* which four are registered; two more register at the same moment.
Pool == INSTANCE SubnetPool WITH SubnetSize <- 8, Ranges <- <<[ip |-> 0, size |-> 16]>>
Slash29 == [ip |-> 8, size |-> 8]
WholeSubnet == "ana" :> Pool!AddressesOf(Slash29)
PoolHosts == "ana" :> Pool!HostsOf(Slash29)
LimitFive == "ana" :> 5
SixNames == [i \in 1..6 |-> i]
FourDevices == {[id |-> i, user |-> "ana", name |-> i, hw |-> i, key |-> i, ip |-> 9 + i]
                  : i \in 1..4}
TwoMore == [p \in Procs |-> {Rq("ana", i, i, i, TRUE) : i \in {5, 6}}]

\* "Calculate last usable IP (broadcast - 1)": a device's address is one that a host of
\* the subnet may have.
UsableAddresses == \A d \in devices : d.ip \in Pool!UsableOf(Slash29)

IdSymmetry == Permutations(Ids)
SwapSymmetry == Permutations(Ids) \cup Permutations(Procs)
=============================================================================
