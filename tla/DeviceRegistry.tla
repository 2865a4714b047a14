--------------------------- MODULE DeviceRegistry ---------------------------
(***************************************************************************)
(* The server's device registry: the Postgres table `devices` and the      *)
(* WireGuard interface that is supposed to mirror it, under concurrent     *)
(* HTTP handlers and admin commands.                                       *)
(*                                                                         *)
(* No handler opens a transaction, so every repository call and every      *)
(* wgctrl call is a step of its own and the steps of different handlers    *)
(* interleave.  A process of Procs is a goroutine serving one request (or  *)
(* one run of the admin binary); it goes back to "idle" when it answers.   *)
(***************************************************************************)
EXTENDS Naturals, FiniteSets

CONSTANTS
    Procs,          \* request handlers that may be in flight together
    Users, Names, HardwareIds, Keys, Ids,
    NoHardware,     \* hardware_id '' : neither parsed nor supplied
    NoPeer,         \* an address no WireGuard peer claims
    Subnet,         \* [Users -> SUBSET Nat]: every address of the user's CIDR
    Hosts,          \* [Users -> SUBSET Nat]: those GetNextAvailableIP may return
    MaxDevices,     \* [Users -> Nat]: users.max_devices
    NameHardware,   \* ParseDeviceName: the hardware id in each name of three parts
    Registrations,  \* [Procs -> SUBSET RegisterRequest]: what each may be asked
    AdminKinds,     \* SUBSET {"delete", "adminDelete", "sync"}: the other operations
    WireGuardFails, \* may a wgctrl call fail?
    RequestsCancelled, \* may the client hang up, cancelling r.Context()?
    InitialDevices  \* the rows found when the behaviour starts

Addresses == UNION {Subnet[u] : u \in Users}

Hardware == HardwareIds \cup {NoHardware}

\* The parameters of RegisterDevice and the caller's rollbackOnError.
RegisterRequest ==
    [user : Users, name : Names, key : Keys, hw : Hardware, rollback : BOOLEAN]

\* What req holds while no registration is being served: never looked at.
NoRequest == CHOOSE r \in RegisterRequest : TRUE

\* models.Device, as far as its rows are told apart.
Device == [id : Ids, user : Users, name : Names, hw : Hardware,
           key : Keys, ip : Addresses]

\* (mutant of Conflicting: no UNIQUE on vpn_ip)
ConflictingButAddress(d, e) ==
    \/ d.id = e.id
    \/ d.key = e.key
    \/ d.user = e.user /\ (d.name = e.name \/ d.hw = e.hw)

\* The UNIQUE constraints of `devices` that a new row d would break
\* (migrations 003 and 010; the columns are the same for every row).
Conflicting(d, e) ==
    \/ d.id = e.id
    \/ d.key = e.key
    \/ d.ip = e.ip
    \/ d.user = e.user /\ (d.name = e.name \/ d.hw = e.hw)

ASSUME RegistryAssumption ==
    /\ IsFiniteSet(Procs) /\ Procs # {}
    /\ RegisterRequest # {}
    /\ NoHardware \notin HardwareIds
    /\ NoPeer \notin Keys
    /\ Subnet \in [Users -> SUBSET Nat]
    /\ Hosts \in [Users -> SUBSET Nat]
    /\ \A u \in Users : Hosts[u] \subseteq Subnet[u]
    /\ MaxDevices \in [Users -> Nat]
    /\ DOMAIN NameHardware \subseteq Names
    /\ \A n \in DOMAIN NameHardware : NameHardware[n] \in Hardware
    /\ Registrations \in [Procs -> SUBSET RegisterRequest]
    /\ InitialDevices \subseteq Device /\ IsFiniteSet(InitialDevices)
    /\ \A d, e \in InitialDevices : d # e => ~Conflicting(d, e)
    /\ \A u \in Users : Cardinality({d \in InitialDevices : d.user = u}) <= MaxDevices[u]

VARIABLES
    devices,   \* the rows of `devices`
    peers,     \* public keys configured on the interface
    route,     \* [Addresses -> Keys \cup {NoPeer}]: whose allowed-ips an address is in
    pc, req,   \* per process: the next step and the request being served
    existing,  \* per process: the row GetByUserAndName returned ({} for nil)
    replacing, \* per process: replacingDevice ({} for nil)
    vpnIP,     \* per process: the address chosen for the new row ({} before)
    target,    \* per process: result.Device, or the row a delete has read
    todo,      \* per process: peers sync-peers has listed and not checked yet
    victim     \* per process: the peer sync-peers is about to remove ({} for none)

db == <<devices>>
wg == <<peers, route>>
local == <<req, existing, replacing, vpnIP, target, todo, victim>>
vars == <<devices, peers, route, pc, req, existing, replacing, vpnIP, target, todo, victim>>

UserDevices(u) == {d \in devices : d.user = u}

\* (mutant of ByName: looks a name up among all users)
ByNameOfAnyone(u, n) == {d \in devices : d.name = n}

ByName(u, n) == {d \in UserDevices(u) : d.name = n}
ByKey(k) == {d \in devices : d.key = k}
InSubnet(d) == d.ip \in Subnet[d.user]

\* The id of a new row is generated by the server, or by the client when it logs in
\* (auth/login.go).  No UUID is ever generated twice: one that nothing refers to is
\* as good as new.
FreshIds == Ids \ {d.id : d \in devices \cup UNION {existing[p] \cup replacing[p]
                                                    \cup target[p] : p \in Procs}}

-----------------------------------------------------------------------------
(* wgctrl on the kernel's interface: an address belongs to at most one peer, *)
(* configuring it on a peer takes it away from any other.                    *)

WgAdd(k, a) ==
    /\ peers' = peers \cup {k}
    /\ route' = [b \in Addresses |-> IF b = a THEN k
                                     ELSE IF route[b] = k THEN NoPeer ELSE route[b]]

WgRemove(k) ==
    /\ peers' = peers \ {k}
    /\ route' = [b \in Addresses |-> IF route[b] = k THEN NoPeer ELSE route[b]]

\* RemovePeer, whose error every caller logs and ignores.
TryRemovePeer(k) == WgRemove(k) \/ (WireGuardFails /\ UNCHANGED wg)

Finish(p) ==
    /\ pc' = [pc EXCEPT ![p] = "idle"]
    /\ existing' = [existing EXCEPT ![p] = {}]
    /\ replacing' = [replacing EXCEPT ![p] = {}]
    /\ vpnIP' = [vpnIP EXCEPT ![p] = {}]
    /\ target' = [target EXCEPT ![p] = {}]
    /\ todo' = [todo EXCEPT ![p] = {}]
    /\ victim' = [victim EXCEPT ![p] = {}]
    /\ req' = [req EXCEPT ![p] = NoRequest]

Goto(p, l) == pc' = [pc EXCEPT ![p] = l]

-----------------------------------------------------------------------------
(* DeviceService.RegisterDevice, then AddDeviceToWireGuard.                  *)

\* GetByID(user), then GetByUserAndName.
BeginRegister(p, r) ==
    /\ pc[p] = "idle"
    /\ req' = [req EXCEPT ![p] = r]
    /\ existing' = [existing EXCEPT ![p] = ByName(r.user, r.name)]
    /\ Goto(p, "match")
    /\ UNCHANGED <<devices, wg, replacing, vpnIP, target, todo, victim>>

\* The same key under the same name: answer with the row there is, unless its
\* address has left the user's subnet.
BypassByName(p) ==
    /\ pc[p] = "match"
    /\ \E e \in existing[p] : /\ e.key = req[p].key
                              /\ InSubnet(e)
    /\ target' = [target EXCEPT ![p] = existing[p]]
    /\ Goto(p, "addPeer")
    /\ UNCHANGED <<devices, wg, req, existing, replacing, vpnIP, todo, victim>>

\* Otherwise look for the same hardware and key among the user's devices (only
\* when the request names its hardware), and settle which row is replaced.
Match(p) ==
    /\ pc[p] = "match"
    /\ LET r    == req[p]
           same == {e \in existing[p] : e.key = r.key}
           twin == IF r.hw = NoHardware \/ same # {} THEN {}
                   ELSE {d \in UserDevices(r.user) : d.hw = r.hw /\ d.key = r.key}
       IN  /\ \A e \in same : ~InSubnet(e)
           /\ IF \E d \in twin : InSubnet(d)
              THEN /\ target' = [target EXCEPT ![p] = twin]
                   /\ Goto(p, "addPeer")
                   /\ UNCHANGED replacing
              ELSE /\ replacing' = [replacing EXCEPT ![p] = IF twin # {} THEN twin
                                                            ELSE existing[p]]
                   /\ Goto(p, "key")
                   /\ UNCHANGED target
    /\ UNCHANGED <<devices, wg, req, existing, vpnIP, todo, victim>>

\* The key may only belong to the row being replaced.
CheckKey(p) ==
    /\ pc[p] = "key"
    /\ IF \A d \in ByKey(req[p].key) : \E e \in replacing[p] : e.id = d.id
       THEN Goto(p, "limit") /\ UNCHANGED local
       ELSE Finish(p)
    /\ UNCHANGED <<devices, wg>>

\* (mutant of CheckLimit: off by one)
CheckLimitLoosely(p) ==
    /\ pc[p] = "limit"
    /\ LET count == Cardinality(UserDevices(req[p].user))
       IN  IF count > MaxDevices[req[p].user] THEN Finish(p)
           ELSE /\ vpnIP' = [vpnIP EXCEPT ![p] = {d.ip : d \in replacing[p]}]
                /\ Goto(p, IF replacing[p] = {} THEN "address" ELSE "deleteOld")
                /\ UNCHANGED <<req, existing, replacing, target, todo, victim>>
    /\ UNCHANGED <<devices, wg>>

\* CountActiveByUser; a replacement keeps the address of the row it replaces.
CheckLimit(p) ==
    /\ pc[p] = "limit"
    /\ LET count == Cardinality(UserDevices(req[p].user))
           limit == MaxDevices[req[p].user]
       IN  IF replacing[p] # {}
           THEN IF count > limit
                THEN Finish(p)
                ELSE /\ vpnIP' = [vpnIP EXCEPT ![p] = {d.ip : d \in replacing[p]}]
                     /\ Goto(p, "deleteOld")
                     /\ UNCHANGED <<req, existing, replacing, target, todo, victim>>
           ELSE IF count >= limit
                THEN Finish(p)
                ELSE Goto(p, "address") /\ UNCHANGED local
    /\ UNCHANGED <<devices, wg>>

\* (mutant of PickAddress: any address nobody holds, whoever's subnet it is in)
PickAnyAddress(p) ==
    /\ pc[p] = "address"
    /\ \E a \in Addresses \ {d.ip : d \in devices} :
          /\ vpnIP' = [vpnIP EXCEPT ![p] = {a}]
          /\ Goto(p, "create")
          /\ UNCHANGED <<req, existing, replacing, target, todo, victim>>
    /\ UNCHANGED <<devices, wg>>

\* GetByUserID and GetNextAvailableIP: the lowest address no device of the
\* user holds.  The addresses other users hold are not consulted.
PickAddress(p) ==
    /\ pc[p] = "address"
    /\ LET free == Hosts[req[p].user] \ {d.ip : d \in UserDevices(req[p].user)}
       IN  \/ /\ free = {}
              /\ Finish(p)
           \/ \E a \in free :
                 /\ \A b \in free : a <= b
                 /\ vpnIP' = [vpnIP EXCEPT ![p] = {a}]
                 /\ Goto(p, "create")
                 /\ UNCHANGED <<req, existing, replacing, target, todo, victim>>
    /\ UNCHANGED <<devices, wg>>

DeleteOld(p) ==
    /\ pc[p] = "deleteOld"
    /\ devices' = {d \in devices : \A e \in replacing[p] : d.id # e.id}
    /\ Goto(p, "create")
    /\ UNCHANGED <<wg, local>>

\* (mutant of NewRow: two columns of the INSERT swapped)
SwappedRow(r, i, a) ==
    [id |-> i, user |-> r.user, name |-> r.key, key |-> r.name, ip |-> a, hw |-> r.hw]

\* The row to insert.  RegisterDevice takes the hardware id of the request, but Create
\* parses the name all the same: what the third part of a name says goes into the row,
\* whatever the request supplied.
NewRow(r, i, a) ==
    [id |-> i, user |-> r.user, name |-> r.name, key |-> r.key, ip |-> a,
     hw |-> IF r.name \in DOMAIN NameHardware THEN NameHardware[r.name] ELSE r.hw]

\* INSERT: refused, with nothing undone, when a UNIQUE constraint stands in the way.
Create(p) ==
    /\ pc[p] = "create"
    /\ \E i \in FreshIds, a \in vpnIP[p] :
          LET row == NewRow(req[p], i, a)
          IN  IF \E e \in devices : Conflicting(row, e)
              THEN Finish(p) /\ UNCHANGED devices
              ELSE /\ devices' = devices \cup {row}
                   /\ target' = [target EXCEPT ![p] = {row}]
                   /\ Goto(p, IF replacing[p] # {} THEN "dropOldPeer" ELSE "addPeer")
                   /\ UNCHANGED <<req, existing, replacing, vpnIP, todo, victim>>
    /\ UNCHANGED wg

DropOldPeer(p) ==
    /\ pc[p] = "dropOldPeer"
    /\ \E e \in replacing[p] : TryRemovePeer(e.key)
    /\ Goto(p, "addPeer")
    /\ UNCHANGED <<devices, local>>

AddPeer(p) ==
    /\ pc[p] = "addPeer"
    /\ \E d \in target[p] : WgAdd(d.key, d.ip)
    /\ Finish(p)
    /\ UNCHANGED devices

\* (mutant of AddPeerFails: never rolls back)
AddPeerFailsQuietly(p) ==
    /\ WireGuardFails
    /\ pc[p] = "addPeer"
    /\ Finish(p)
    /\ UNCHANGED <<devices, wg>>

AddPeerFails(p) ==
    /\ WireGuardFails
    /\ pc[p] = "addPeer"
    /\ IF req[p].rollback THEN Goto(p, "rollback") /\ UNCHANGED local ELSE Finish(p)
    /\ UNCHANGED <<devices, wg>>

\* rollbackOnError: delete result.Device, whether or not this request created it.
Rollback(p) ==
    /\ pc[p] = "rollback"
    /\ devices' = {d \in devices : \A e \in target[p] : d.id # e.id}
    /\ Finish(p)
    /\ UNCHANGED wg

\* The client hangs up: the next database call fails with a cancelled context.
\* The API handler reads the user once more between the insert and WireGuard.
\* Of the deletions only the API's, which rereads the row, has a client.
Cancelled(p) ==
    /\ RequestsCancelled
    /\ \/ pc[p] \in {"match", "key", "limit", "address", "deleteOld", "create", "rollback",
                   "recheck"}
       \/ pc[p] = "dropOldPeer" /\ req[p].rollback
       \/ pc[p] = "addPeer" /\ req[p].rollback /\ replacing[p] = {}
    /\ Finish(p)
    /\ UNCHANGED <<devices, wg>>

-----------------------------------------------------------------------------
(* DELETE /api/devices/{id} and `admin delete-device`: read the row, remove  *)
(* its peer, then (the API only) read the row again, then delete it.         *)

BeginDelete(p, kind) ==
    /\ kind \in AdminKinds \cap {"delete", "adminDelete"}
    /\ pc[p] = "idle"
    /\ \E d \in devices : target' = [target EXCEPT ![p] = {d}]
    /\ Goto(p, IF kind = "delete" THEN "unpeer" ELSE "adminUnpeer")
    /\ UNCHANGED <<devices, wg, req, existing, replacing, vpnIP, todo, victim>>

Unpeer(p) ==
    /\ pc[p] \in {"unpeer", "adminUnpeer"}
    /\ \E d \in target[p] : TryRemovePeer(d.key)
    /\ Goto(p, IF pc[p] = "unpeer" THEN "recheck" ELSE "erase")
    /\ UNCHANGED <<devices, local>>

\* DeviceService.DeleteDevice starts with GetDevice: gone means an error.
Recheck(p) ==
    /\ pc[p] = "recheck"
    /\ IF \E d \in devices, e \in target[p] : d.id = e.id
       THEN Goto(p, "erase") /\ UNCHANGED local
       ELSE Finish(p)
    /\ UNCHANGED <<devices, wg>>

Erase(p) ==
    /\ pc[p] = "erase"
    /\ devices' = {d \in devices : \A e \in target[p] : d.id # e.id}
    /\ Finish(p)
    /\ UNCHANGED wg

-----------------------------------------------------------------------------
(* `admin sync-peers`: list the interface's peers, then look each key up and *)
(* remove the peer when no row has it.                                       *)

BeginSync(p) ==
    /\ "sync" \in AdminKinds
    /\ pc[p] = "idle"
    /\ todo' = [todo EXCEPT ![p] = peers]
    /\ Goto(p, "sync")
    /\ UNCHANGED <<devices, wg, req, existing, replacing, vpnIP, target, victim>>

\* GetByPublicKey for one of them.
CheckPeer(p, k) ==
    /\ pc[p] = "sync"
    /\ k \in todo[p]
    /\ todo' = [todo EXCEPT ![p] = @ \ {k}]
    /\ victim' = [victim EXCEPT ![p] = IF ByKey(k) = {} THEN {k} ELSE {}]
    /\ Goto(p, IF ByKey(k) = {} THEN "orphan" ELSE "sync")
    /\ UNCHANGED <<devices, wg, req, existing, replacing, vpnIP, target>>

RemoveOrphan(p) ==
    /\ pc[p] = "orphan"
    /\ \E k \in victim[p] : TryRemovePeer(k)
    /\ Goto(p, "sync")
    /\ UNCHANGED <<devices, local>>

EndSync(p) ==
    /\ pc[p] = "sync"
    /\ todo[p] = {}
    /\ Finish(p)
    /\ UNCHANGED <<devices, wg>>

-----------------------------------------------------------------------------
Init ==
    /\ devices = InitialDevices
    /\ peers = {d.key : d \in InitialDevices}
    /\ route = [a \in Addresses |-> IF \E d \in InitialDevices : d.ip = a
                                    THEN (CHOOSE d \in InitialDevices : d.ip = a).key
                                    ELSE NoPeer]
    /\ pc = [p \in Procs |-> "idle"]
    /\ req = [p \in Procs |-> NoRequest]
    /\ existing = [p \in Procs |-> {}]
    /\ replacing = [p \in Procs |-> {}]
    /\ vpnIP = [p \in Procs |-> {}]
    /\ target = [p \in Procs |-> {}]
    /\ todo = [p \in Procs |-> {}]
    /\ victim = [p \in Procs |-> {}]

Register(p) ==
    \/ \E r \in Registrations[p] : BeginRegister(p, r)
    \/ BypassByName(p) \/ Match(p)
    \/ CheckKey(p) \/ CheckLimit(p) \/ PickAddress(p)
    \/ DeleteOld(p) \/ Create(p)
    \/ DropOldPeer(p) \/ AddPeer(p) \/ AddPeerFails(p) \/ Rollback(p)
    \/ Cancelled(p)

Delete(p) ==
    \/ \E kind \in AdminKinds : BeginDelete(p, kind)
    \/ Unpeer(p) \/ Recheck(p) \/ Erase(p)

Sync(p) ==
    \/ BeginSync(p)
    \/ \E k \in Keys : CheckPeer(p, k)
    \/ RemoveOrphan(p) \/ EndSync(p)

Next == \E p \in Procs : Register(p) \/ Delete(p) \/ Sync(p)

Spec == Init /\ [][Next]_vars

-----------------------------------------------------------------------------
(* Properties.                                                               *)

Steps == {"idle", "match", "key", "limit", "address", "deleteOld", "create",
          "dropOldPeer", "addPeer", "rollback", "unpeer", "adminUnpeer",
          "recheck", "erase", "sync", "orphan"}

\* Every variable keeps its type.
TypeOK ==
    /\ devices \subseteq Device /\ IsFiniteSet(devices)
    /\ peers \subseteq Keys
    /\ route \in [Addresses -> Keys \cup {NoPeer}]
    /\ pc \in [Procs -> Steps]
    /\ req \in [Procs -> RegisterRequest]
    /\ existing \in [Procs -> SUBSET Device]
    /\ replacing \in [Procs -> SUBSET Device]
    /\ vpnIP \in [Procs -> SUBSET Addresses]
    /\ target \in [Procs -> SUBSET Device]
    /\ todo \in [Procs -> SUBSET Keys]
    /\ victim \in [Procs -> SUBSET Keys]

AllIdle == \A p \in Procs : pc[p] = "idle"

\* The limit is read, then acted on several calls later, so concurrent requests
\* may pass it together; but each request in flight beyond the first adds one
\* device at most, however requests, replacements and deletions interleave.
\* With one process at a time this is the limit itself.
LimitOvershoot ==
    \A u \in Users :
        Cardinality(UserDevices(u)) <= MaxDevices[u] + Cardinality(Procs) - 1

\* The limit users are promised: never more than max_devices devices.
DeviceLimit == \A u \in Users : Cardinality(UserDevices(u)) <= MaxDevices[u]

\* Isolation of tenants in the VPN: an address of a user's subnet is only ever
\* routed to a key that user's own requests (or rows) have presented.
Presented(u, k) ==
    \/ \E p \in Procs : \E r \in Registrations[p] : r.user = u /\ r.key = k
    \/ \E d \in InitialDevices : d.user = u /\ d.key = k

TenantRoutes ==
    \A a \in Addresses :
        route[a] # NoPeer => \E u \in Users : a \in Subnet[u] /\ Presented(u, route[a])

\* A registration, whatever it read and however late it acts on it, removes only
\* rows of its own user that carry the name or the key it registers.
RegistrationRemoves(p, d) ==
    pc[p] \in {"deleteOld", "rollback"} /\ pc'[p] # pc[p] =>
        d.user = req[p].user /\ (d.name = req[p].name \/ d.key = req[p].key)

OnlyOwnRowsRemoved ==
    [][\A d \in devices \ devices' : \A p \in Procs : RegistrationRemoves(p, d)]_vars

\* No request under way: every registered device is reachable at its address.
RegisteredDevicesRouted == AllIdle => \A d \in devices : route[d.ip] = d.key

\* No request under way: addresses are routed exactly as the rows say, none to a
\* device that is gone and none to nobody.
MirrorWhenIdle ==
    AllIdle => \A a \in Addresses : \A k \in Keys :
                  route[a] = k <=> \E d \in devices : d.ip = a /\ d.key = k

=============================================================================
