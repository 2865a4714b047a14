------------------------ MODULE DeviceRegistry_proofs ------------------------
(* What holds of the device registry for any number of requests in flight,   *)
(* users, devices, addresses and any interleaving.                           *)
EXTENDS DeviceRegistry, FiniteSetTheorems, TLAPS

(***************************************************************************)
(* Types.                                                                  *)
(***************************************************************************)
LEMMA RequestType == NoRequest \in RegisterRequest
  BY RegistryAssumption DEF RegistryAssumption, NoRequest

LEMMA NewRowType ==
  ASSUME NEW r \in RegisterRequest, NEW i \in Ids, NEW a \in Addresses
  PROVE  NewRow(r, i, a) \in Device
  BY RegistryAssumption
  DEF RegistryAssumption, NewRow, Device, RegisterRequest, Hardware

LEMMA AddressType ==
  ASSUME NEW u \in Users
  PROVE  Hosts[u] \subseteq Addresses /\ Addresses \subseteq Nat
  BY RegistryAssumption DEF RegistryAssumption, Addresses

LEMMA WgTypes ==
  ASSUME TypeOK, NEW k \in Keys
  PROVE  /\ \A a : WgAdd(k, a) => peers' \subseteq Keys /\ route' \in [Addresses -> Keys \cup {NoPeer}]
         /\ TryRemovePeer(k) => peers' \subseteq Keys /\ route' \in [Addresses -> Keys \cup {NoPeer}]
  BY DEF TypeOK, WgAdd, WgRemove, TryRemovePeer, wg

LEMMA FinishTypes ==
  ASSUME TypeOK, NEW p \in Procs, Finish(p)
  PROVE  /\ pc' \in [Procs -> Steps]
         /\ req' \in [Procs -> RegisterRequest]
         /\ existing' \in [Procs -> SUBSET Device]
         /\ replacing' \in [Procs -> SUBSET Device]
         /\ vpnIP' \in [Procs -> SUBSET Addresses]
         /\ target' \in [Procs -> SUBSET Device]
         /\ todo' \in [Procs -> SUBSET Keys]
         /\ victim' \in [Procs -> SUBSET Keys]
  BY RequestType DEF TypeOK, Finish, Steps

LEMMA InitTypes == Init => TypeOK
<1> SUFFICES ASSUME Init PROVE TypeOK
  OBVIOUS
<1>1. route \in [Addresses -> Keys \cup {NoPeer}]
  <2> SUFFICES ASSUME NEW a \in Addresses, NEW d \in InitialDevices, d.ip = a
               PROVE  (CHOOSE e \in InitialDevices : e.ip = a).key \in Keys
    BY DEF Init
  <2>1. (CHOOSE e \in InitialDevices : e.ip = a) \in Device
    BY RegistryAssumption DEF RegistryAssumption
  <2>2. QED
    BY <2>1 DEF Device
<1>2. peers \subseteq Keys
  BY RegistryAssumption DEF Init, RegistryAssumption, Device
<1>3. QED
  BY <1>1, <1>2, RequestType, RegistryAssumption DEF Init, TypeOK, RegistryAssumption, Steps

LEMMA StepTypes == TypeOK /\ [Next]_vars => TypeOK'
<1> SUFFICES ASSUME TypeOK, [Next]_vars PROVE TypeOK'
  OBVIOUS
<1> USE RegistryAssumption, RequestType DEF TypeOK, Goto, local, wg, Steps
<1>1. ASSUME NEW p \in Procs, NEW r \in Registrations[p], BeginRegister(p, r)
      PROVE  TypeOK'
  BY <1>1 DEF BeginRegister, ByName, UserDevices, RegistryAssumption
<1>2. ASSUME NEW p \in Procs, BypassByName(p) PROVE TypeOK'
  BY <1>2 DEF BypassByName
<1>3. ASSUME NEW p \in Procs, Match(p) PROVE TypeOK'
  BY <1>3 DEF Match, UserDevices
<1>4. ASSUME NEW p \in Procs, CheckKey(p) PROVE TypeOK'
  BY <1>4, FinishTypes DEF CheckKey
<1>5. ASSUME NEW p \in Procs, CheckLimit(p) PROVE TypeOK'
  BY <1>5, FinishTypes DEF CheckLimit, Device
<1>6. ASSUME NEW p \in Procs, PickAddress(p) PROVE TypeOK'
  <2>1. req[p].user \in Users
    BY DEF RegisterRequest
  <2>2. Hosts[req[p].user] \subseteq Addresses
    BY <2>1, AddressType
  <2>3. CASE Finish(p)
    BY <1>6, <2>3, FinishTypes DEF PickAddress
  <2>4. ASSUME NEW a \in Hosts[req[p].user],
               vpnIP' = [vpnIP EXCEPT ![p] = {a}], Goto(p, "create"),
               UNCHANGED <<req, existing, replacing, target, todo, victim>>
        PROVE  TypeOK'
    BY <1>6, <2>2, <2>4 DEF PickAddress
  <2>5. QED
    BY <1>6, <2>3, <2>4 DEF PickAddress
<1>7. ASSUME NEW p \in Procs, DeleteOld(p) PROVE TypeOK'
  <2>1. devices' \subseteq devices
    BY <1>7 DEF DeleteOld
  <2>2. IsFiniteSet(devices')
    BY <2>1, FS_Subset
  <2>3. QED
    BY <1>7, <2>1, <2>2 DEF DeleteOld
<1>8. ASSUME NEW p \in Procs, Create(p) PROVE TypeOK'
  <2>1. CASE Finish(p) /\ UNCHANGED <<devices, wg>>
    BY <2>1, FinishTypes
  <2> SUFFICES ASSUME NEW i \in FreshIds, NEW a \in vpnIP[p],
                      devices' = devices \cup {NewRow(req[p], i, a)},
                      target' = [target EXCEPT ![p] = {NewRow(req[p], i, a)}],
                      pc' \in [Procs -> Steps],
                      UNCHANGED <<req, existing, replacing, vpnIP, todo, victim, wg>>
               PROVE  TypeOK'
    BY <1>8, <2>1 DEF Create
  <2> DEFINE row == NewRow(req[p], i, a)
  <2>1a. i \in Ids
    BY DEF FreshIds
  <2>2. row \in Device
    BY <2>1a, NewRowType
  <2>3. IsFiniteSet(devices \cup {row})
    BY FS_AddElement
  <2>4. QED
    BY <2>2, <2>3
<1>9. ASSUME NEW p \in Procs, DropOldPeer(p) PROVE TypeOK'
  BY <1>9, WgTypes DEF DropOldPeer, Device
<1>10. ASSUME NEW p \in Procs, AddPeer(p) PROVE TypeOK'
  BY <1>10, WgTypes, FinishTypes DEF AddPeer, Device
<1>11. ASSUME NEW p \in Procs, AddPeerFails(p) PROVE TypeOK'
  BY <1>11, FinishTypes DEF AddPeerFails
<1>12. ASSUME NEW p \in Procs, Rollback(p) \/ Erase(p) PROVE TypeOK'
  <2>1. devices' \subseteq devices
    BY <1>12 DEF Rollback, Erase
  <2>2. IsFiniteSet(devices')
    BY <2>1, FS_Subset
  <2>3. QED
    BY <1>12, <2>1, <2>2, FinishTypes DEF Rollback, Erase
<1>13. ASSUME NEW p \in Procs, Cancelled(p) PROVE TypeOK'
  BY <1>13, FinishTypes DEF Cancelled
<1>14. ASSUME NEW p \in Procs, NEW kind \in AdminKinds, BeginDelete(p, kind)
       PROVE  TypeOK'
  BY <1>14 DEF BeginDelete
<1>15. ASSUME NEW p \in Procs, Unpeer(p) PROVE TypeOK'
  BY <1>15, WgTypes DEF Unpeer, Device
<1>16. ASSUME NEW p \in Procs, Recheck(p) PROVE TypeOK'
  BY <1>16, FinishTypes DEF Recheck
<1>17. ASSUME NEW p \in Procs, BeginSync(p) PROVE TypeOK'
  BY <1>17 DEF BeginSync
<1>18. ASSUME NEW p \in Procs, NEW k \in Keys, CheckPeer(p, k) PROVE TypeOK'
  BY <1>18 DEF CheckPeer
<1>19. ASSUME NEW p \in Procs, RemoveOrphan(p) PROVE TypeOK'
  BY <1>19, WgTypes DEF RemoveOrphan
<1>20. ASSUME NEW p \in Procs, EndSync(p) PROVE TypeOK'
  BY <1>20, FinishTypes DEF EndSync
<1>21. CASE UNCHANGED vars
  BY <1>21 DEF vars
<1>22. QED
  BY <1>1, <1>2, <1>3, <1>4, <1>5, <1>6, <1>7, <1>8, <1>9, <1>10, <1>11, <1>12,
     <1>13, <1>14, <1>15, <1>16, <1>17, <1>18, <1>19, <1>20, <1>21
  DEF Next, Register, Delete, Sync

\* Every variable keeps its type.
THEOREM TypeCorrect == Spec => []TypeOK
  BY InitTypes, StepTypes, PTL DEF Spec

-----------------------------------------------------------------------------
(***************************************************************************)
(* Isolation.  The inductive invariant follows an address from the row it  *)
(* is read from to the peer it is configured on: every row a process holds *)
(* lies in its user's subnet and carries a key its user presented, and so  *)
(* does the address chosen for the row to come.                            *)
(***************************************************************************)
RegisterSteps == {"match", "key", "limit", "address", "deleteOld", "create",
                  "dropOldPeer", "addPeer", "rollback"}

Proper(d) == InSubnet(d) /\ Presented(d.user, d.key)

InitialProper == \A d \in InitialDevices : InSubnet(d)

HeldProper ==
    \A p \in Procs :
        /\ \A d \in existing[p] \cup replacing[p] \cup target[p] : Proper(d)
        /\ pc[p] \in RegisterSteps =>
              /\ req[p] \in Registrations[p]
              /\ \A d \in existing[p] : d.user = req[p].user /\ d.name = req[p].name
              /\ \A d \in replacing[p] : d \in existing[p]
              /\ \A d \in target[p] : d.user = req[p].user
                                      /\ (d.name = req[p].name \/ d.key = req[p].key)
              /\ \A a \in vpnIP[p] : a \in Subnet[req[p].user]
        /\ pc[p] \in {"idle", "match"} => replacing[p] = {} /\ vpnIP[p] = {}
        /\ pc[p] \in {"idle", "match", "key", "limit", "address", "deleteOld", "create"}
              => target[p] = {}

IsolationInv ==
    /\ \A d \in devices : Proper(d)
    /\ HeldProper
    /\ TenantRoutes

LEMMA RequestPresented ==
  ASSUME NEW p \in Procs, NEW r \in Registrations[p]
  PROVE  /\ r \in RegisterRequest
         /\ r.user \in Users
         /\ Presented(r.user, r.key)
  BY RegistryAssumption DEF RegistryAssumption, Presented, RegisterRequest

LEMMA WgIsolation ==
  ASSUME TypeOK, IsolationInv
  PROVE  /\ \A d : d \in Device /\ Proper(d) /\ WgAdd(d.key, d.ip) => TenantRoutes'
         /\ \A k : TryRemovePeer(k) => TenantRoutes'
<1>1. ASSUME NEW d \in Device, Proper(d), WgAdd(d.key, d.ip), NEW a \in Addresses,
             route'[a] # NoPeer
      PROVE  \E u \in Users : a \in Subnet[u] /\ Presented(u, route'[a])
  <2>1. CASE a = d.ip
    <3>1. route'[a] = d.key
      BY <1>1, <2>1 DEF WgAdd
    <3>2. d.user \in Users /\ a \in Subnet[d.user] /\ Presented(d.user, route'[a])
      BY <1>1, <2>1, <3>1 DEF Proper, InSubnet, Device
    <3>3. QED
      BY <3>2
  <2>2. CASE a # d.ip
    <3>1. route'[a] = route[a]
      BY <1>1, <2>2 DEF WgAdd
    <3>2. QED
      BY <1>1, <3>1 DEF IsolationInv, TenantRoutes
  <2>3. QED
    BY <2>1, <2>2
<1>2. ASSUME NEW k, TryRemovePeer(k), NEW a \in Addresses, route'[a] # NoPeer
      PROVE  \E u \in Users : a \in Subnet[u] /\ Presented(u, route'[a])
  <2>1. route'[a] = route[a]
    BY <1>2 DEF TryRemovePeer, WgRemove, wg, TypeOK
  <2>2. QED
    BY <1>2, <2>1 DEF IsolationInv, TenantRoutes
<1>3. QED
  BY <1>1, <1>2 DEF TenantRoutes, Presented

LEMMA FinishHeld ==
  ASSUME TypeOK, IsolationInv, NEW p \in Procs, Finish(p)
  PROVE  HeldProper'
  BY DEF IsolationInv, HeldProper, TypeOK, Finish, RegisterSteps, Proper, InSubnet, Presented

LEMMA IsolationHolds == InitialProper /\ Spec => []IsolationInv
<1>1. InitialProper /\ Init => IsolationInv
  <2> SUFFICES ASSUME InitialProper, Init PROVE IsolationInv
    OBVIOUS
  <2>1. \A d \in devices : d \in Device /\ Proper(d)
    BY RegistryAssumption DEF Init, RegistryAssumption, Proper, Presented, InitialProper
  <2>2. HeldProper
    BY DEF Init, HeldProper, RegisterSteps
  <2>3. ASSUME NEW a \in Addresses, route[a] # NoPeer
        PROVE  \E u \in Users : a \in Subnet[u] /\ Presented(u, route[a])
    <3> DEFINE d == CHOOSE e \in InitialDevices : e.ip = a
    <3>1. d \in InitialDevices /\ d.ip = a /\ route[a] = d.key
      BY <2>3 DEF Init
    <3>2. d.user \in Users /\ Proper(d)
      BY <2>1, <3>1 DEF Init, Device
    <3>3. QED
      BY <3>1, <3>2 DEF Proper, InSubnet
  <2>4. QED
    BY <2>1, <2>2, <2>3 DEF IsolationInv, TenantRoutes
<1>2. TypeOK /\ TypeOK' /\ IsolationInv /\ [Next]_vars => IsolationInv'
  <2> SUFFICES ASSUME TypeOK, TypeOK', IsolationInv, [Next]_vars PROVE IsolationInv'
    OBVIOUS
  <2> USE DEF Goto, local, wg
  \* The rows: only Create adds one.
  <2>1. \A d \in devices' : Proper(d)
    <3>1. ASSUME NEW p \in Procs, Create(p) PROVE \A d \in devices' : Proper(d)
      <4>1. CASE Finish(p) /\ UNCHANGED devices
        BY <4>1 DEF IsolationInv
      <4>2. ASSUME NEW i \in FreshIds, NEW a \in vpnIP[p],
                   devices' = devices \cup {NewRow(req[p], i, a)}
            PROVE  \A d \in devices' : Proper(d)
        <5>1. req[p] \in Registrations[p] /\ a \in Subnet[req[p].user]
          BY <3>1, <4>2 DEF Create, IsolationInv, HeldProper, RegisterSteps
        <5>2. Proper(NewRow(req[p], i, a))
          BY <5>1, RequestPresented DEF Proper, InSubnet, NewRow
        <5>3. QED
          BY <4>2, <5>2 DEF IsolationInv
      <4>3. QED
        BY <3>1, <4>1, <4>2 DEF Create
    <3>2. ASSUME devices' \subseteq devices PROVE \A d \in devices' : Proper(d)
      BY <3>2 DEF IsolationInv
    <3>3. QED
      BY <3>1, <3>2 DEF Next, Register, Delete, Sync, vars,
         BeginRegister, BypassByName, Match, CheckKey, CheckLimit, PickAddress,
         DeleteOld, DropOldPeer, AddPeer, AddPeerFails, Rollback, Cancelled,
         BeginDelete, Unpeer, Recheck, Erase, BeginSync, CheckPeer, RemoveOrphan, EndSync
  \* What the processes hold.
  <2>2. HeldProper'
    <3> USE DEF TypeOK, IsolationInv, HeldProper, RegisterSteps
    <3>1. ASSUME NEW p \in Procs, NEW r \in Registrations[p], BeginRegister(p, r)
          PROVE  HeldProper'
      BY <3>1 DEF BeginRegister, ByName, UserDevices
    <3>2. ASSUME NEW p \in Procs, BypassByName(p) PROVE HeldProper'
      BY <3>2 DEF BypassByName
    <3>3. ASSUME NEW p \in Procs, Match(p) PROVE HeldProper'
      BY <3>3 DEF Match, UserDevices, Proper
    <3>4. ASSUME NEW p \in Procs, CheckKey(p) PROVE HeldProper'
      BY <3>4, FinishHeld DEF CheckKey
    <3>5. ASSUME NEW p \in Procs, CheckLimit(p) PROVE HeldProper'
      BY <3>5, FinishHeld DEF CheckLimit, Proper, InSubnet
    <3>6. ASSUME NEW p \in Procs, PickAddress(p) PROVE HeldProper'
      BY <3>6, FinishHeld, RequestPresented, RegistryAssumption
      DEF PickAddress, RegistryAssumption
    <3>7. ASSUME NEW p \in Procs, DeleteOld(p) PROVE HeldProper'
      BY <3>7 DEF DeleteOld
    <3>8. ASSUME NEW p \in Procs, Create(p) PROVE HeldProper'
      BY <2>1, <3>8, FinishHeld DEF Create, NewRow
    <3>9. ASSUME NEW p \in Procs, DropOldPeer(p) PROVE HeldProper'
      BY <3>9 DEF DropOldPeer
    <3>10. ASSUME NEW p \in Procs,
                  \/ AddPeer(p) \/ Rollback(p) \/ Cancelled(p) \/ Erase(p) \/ EndSync(p)
           PROVE  HeldProper'
      BY <3>10, FinishHeld DEF AddPeer, Rollback, Cancelled, Erase, EndSync
    <3>11. ASSUME NEW p \in Procs, AddPeerFails(p) \/ Recheck(p) PROVE HeldProper'
      BY <3>11, FinishHeld DEF AddPeerFails, Recheck
    <3>12. ASSUME NEW p \in Procs, NEW kind \in AdminKinds, BeginDelete(p, kind)
           PROVE  HeldProper'
      BY <3>12 DEF BeginDelete
    <3>13. ASSUME NEW p \in Procs, Unpeer(p) PROVE HeldProper'
      BY <3>13 DEF Unpeer
    <3>14. ASSUME NEW p \in Procs, BeginSync(p) PROVE HeldProper'
      BY <3>14 DEF BeginSync
    <3>15. ASSUME NEW p \in Procs, NEW k \in Keys, CheckPeer(p, k) PROVE HeldProper'
      BY <3>15 DEF CheckPeer
    <3>16. ASSUME NEW p \in Procs, RemoveOrphan(p) PROVE HeldProper'
      BY <3>16 DEF RemoveOrphan
    <3>17. CASE UNCHANGED vars
      BY <3>17 DEF vars
    <3>18. QED
      BY <3>1, <3>2, <3>3, <3>4, <3>5, <3>6, <3>7, <3>8, <3>9, <3>10, <3>11,
         <3>12, <3>13, <3>14, <3>15, <3>16, <3>17
      DEF Next, Register, Delete, Sync
  \* The routes: only wgctrl calls change them.
  <2>3. TenantRoutes'
    <3>1. ASSUME UNCHANGED route PROVE TenantRoutes'
      BY <3>1 DEF IsolationInv, TenantRoutes, Presented
    <3>2. ASSUME NEW k, TryRemovePeer(k) PROVE TenantRoutes'
      BY <3>2, WgIsolation
    <3>3. ASSUME NEW p \in Procs, AddPeer(p) PROVE TenantRoutes'
      <4>1. PICK d \in target[p] : WgAdd(d.key, d.ip)
        BY <3>3 DEF AddPeer
      <4>2. d \in Device /\ Proper(d)
        BY DEF TypeOK, IsolationInv, HeldProper
      <4>3. QED
        BY <4>1, <4>2, WgIsolation
    <3>4. QED
      BY <3>1, <3>2, <3>3 DEF Next, Register, Delete, Sync, vars,
         BeginRegister, BypassByName, Match, CheckKey, CheckLimit, PickAddress,
         DeleteOld, Create, DropOldPeer, AddPeerFails, Rollback, Cancelled,
         BeginDelete, Unpeer, Recheck, Erase, BeginSync, CheckPeer, RemoveOrphan, EndSync
  <2>4. QED
    BY <2>1, <2>2, <2>3 DEF IsolationInv, Proper, InSubnet, Presented
<1>3. QED
  BY <1>1, <1>2, TypeCorrect, PTL DEF Spec

\* An address of a user's subnet is only ever routed to a key that the user's own
\* requests or rows presented, for any interleaving of the handlers, cancelled
\* requests and failing WireGuard calls, when the rows found at start are in their
\* users' subnets.
THEOREM TenantIsolation == InitialProper /\ Spec => []TenantRoutes
<1>1. IsolationInv => TenantRoutes
  BY DEF IsolationInv
<1>2. QED
  BY <1>1, IsolationHolds, PTL

-----------------------------------------------------------------------------
(***************************************************************************)
(* The device limit.  A request that has passed the limit, or that has     *)
(* found a row to replace, is committed: it may still insert a row under   *)
(* its name.  What is bounded is the set of names a user's rows and        *)
(* committed requests occupy: deleting a row that a committed request has  *)
(* read does not free its name, so neither deletions nor inserts enlarge   *)
(* the set, and only a request that finds room below the limit does.       *)
(***************************************************************************)
RowsDistinct == \A d, e \in devices : d # e => ~Conflicting(d, e)

Committed(p) ==
    \/ pc[p] = "match" /\ existing[p] # {}
    \/ pc[p] \in {"key", "limit"} /\ replacing[p] # {}
    \/ pc[p] \in {"address", "deleteOld", "create"}

RowNames(u) == {d.name : d \in UserDevices(u)}
NamesIn(r, S) == {r[p].name : p \in S}
CommittedNames(u) == NamesIn(req, {q \in Procs : Committed(q) /\ req[q].user = u})
Occupied(u) == RowNames(u) \cup CommittedNames(u)

OccupiedBound ==
    \A u \in Users :
        Cardinality(Occupied(u)) <= MaxDevices[u] + Cardinality(Procs) - 1

\* The image of a finite set is no larger, and as large under an injection.
LEMMA NamesBound ==
  ASSUME NEW S, IsFiniteSet(S), NEW f \in [S -> {x.name : x \in S}],
         \A x \in S : f[x] = x.name
  PROVE  /\ IsFiniteSet({x.name : x \in S})
         /\ Cardinality({x.name : x \in S}) <= Cardinality(S)
         /\ (\A x, y \in S : x.name = y.name => x = y)
                => Cardinality(S) = Cardinality({x.name : x \in S})
<1> DEFINE T == {x.name : x \in S}
<1>1. f \in Surjection(S, T)
  BY DEF Surjection
<1>2. (\A x, y \in S : x.name = y.name => x = y) => f \in Injection(S, T)
  BY DEF Injection, IsInjective
<1>3. QED
  BY <1>1, <1>2, FS_Surjection, FS_CardinalityType

LEMMA RowsFacts ==
  ASSUME TypeOK, RowsDistinct, NEW u \in Users
  PROVE  /\ IsFiniteSet(UserDevices(u))
         /\ IsFiniteSet(RowNames(u))
         /\ Cardinality(RowNames(u)) = Cardinality(UserDevices(u))
<1> DEFINE S == UserDevices(u)
           f == [x \in S |-> x.name]
<1>1. IsFiniteSet(S)
  BY FS_Subset DEF UserDevices, TypeOK
<1>2. \A x, y \in S : x.name = y.name => x = y
  BY DEF UserDevices, RowsDistinct, Conflicting
<1>3. f \in [S -> {x.name : x \in S}] /\ \A x \in S : f[x] = x.name
  OBVIOUS
<1> HIDE DEF f, S
<1>4. QED
  BY <1>1, <1>2, <1>3, NamesBound DEF RowNames, S

\* No more names than processes, whichever processes and whatever requests.
LEMMA CommittedFacts ==
  ASSUME NEW S \in SUBSET Procs, NEW r
  PROVE  /\ IsFiniteSet(NamesIn(r, S))
         /\ Cardinality(NamesIn(r, S)) <= Cardinality(Procs)
<1> DEFINE T == NamesIn(r, S)
           f == [p \in S |-> r[p].name]
<1>1. IsFiniteSet(S) /\ Cardinality(S) <= Cardinality(Procs)
  BY FS_Subset, RegistryAssumption DEF RegistryAssumption
<1>2. f \in Surjection(S, T)
  BY DEF Surjection, NamesIn
<1>3. IsFiniteSet(T) /\ Cardinality(T) <= Cardinality(S)
  BY <1>1, <1>2, FS_Surjection
<1>4. Cardinality(S) \in Nat /\ Cardinality(T) \in Nat /\ Cardinality(Procs) \in Nat
  BY <1>1, <1>3, FS_CardinalityType, RegistryAssumption DEF RegistryAssumption
<1>5. QED
  BY <1>1, <1>3, <1>4

LEMMA CommittedFinite == \A u \in Users : IsFiniteSet(CommittedNames(u))
  BY CommittedFacts DEF CommittedNames

\* The UNIQUE constraints stand between the rows throughout: a row is only
\* inserted when it conflicts with none.
LEMMA RowsStayDistinct == Spec => []RowsDistinct
<1>1. Init => RowsDistinct
  BY RegistryAssumption DEF Init, RowsDistinct, RegistryAssumption
<1>2. RowsDistinct /\ [Next]_vars => RowsDistinct'
  <2> SUFFICES ASSUME RowsDistinct, [Next]_vars PROVE RowsDistinct'
    OBVIOUS
  <2>1. ASSUME devices' \subseteq devices PROVE RowsDistinct'
    BY <2>1 DEF RowsDistinct, Conflicting
  <2>2. ASSUME NEW p \in Procs, Create(p) PROVE RowsDistinct'
    <3>1. ASSUME NEW row, \A e \in devices : ~Conflicting(row, e),
                 devices' = devices \cup {row}
          PROVE  RowsDistinct'
      BY <3>1 DEF RowsDistinct, Conflicting
    <3>2. QED
      BY <2>1, <2>2, <3>1 DEF Create
  <2>3. QED
    BY <2>1, <2>2 DEF Next, Register, Delete, Sync, vars, wg, local,
       BeginRegister, BypassByName, Match, CheckKey, CheckLimit, PickAddress,
       DeleteOld, DropOldPeer, AddPeer, AddPeerFails, Rollback, Cancelled,
       BeginDelete, Unpeer, Recheck, Erase, BeginSync, CheckPeer, RemoveOrphan, EndSync
<1>3. QED
  BY <1>1, <1>2, PTL DEF Spec

OthersUntouched(p) ==
    \A q \in Procs \ {p} : /\ pc'[q] = pc[q]
                           /\ req'[q] = req[q]
                           /\ existing'[q] = existing[q]
                           /\ replacing'[q] = replacing[q]

\* What keeps a step of p from occupying a name: rows are removed, or added under
\* the name p is committed to, and p commits only to the name of a row there is.
Modest(p) ==
    /\ OthersUntouched(p)
    /\ pc'[p] # "address"
    /\ \A d \in devices' :
          \/ d \in devices
          \/ Committed(p) /\ d.user = req[p].user /\ d.name = req[p].name
    /\ Committed(p)' =>
          \/ Committed(p) /\ req'[p] = req[p]
          \/ \E d \in devices : d.user = req'[p].user /\ d.name = req'[p].name

\* The one step that is not modest passes the limit.
Passing(p) ==
    /\ devices' = devices /\ req' = req /\ OthersUntouched(p)
    /\ Cardinality(UserDevices(req[p].user)) < MaxDevices[req[p].user]

LEMMA ModestStep ==
  ASSUME NEW p \in Procs, Modest(p), NEW u \in Users
  PROVE  Occupied(u)' \subseteq Occupied(u)
<1>1. ASSUME NEW d \in devices', d.user = u PROVE d.name \in Occupied(u)
  BY <1>1 DEF Modest, Occupied, RowNames, UserDevices, CommittedNames, NamesIn
<1>2. ASSUME NEW q \in Procs, Committed(q)', req'[q].user = u
      PROVE  req'[q].name \in Occupied(u)
  <2>1. CASE q = p
    BY <1>2, <2>1 DEF Modest, Occupied, RowNames, UserDevices, CommittedNames, NamesIn
  <2>2. CASE q # p
    <3>1. Committed(q) /\ req[q] = req'[q]
      BY <1>2, <2>2 DEF Modest, OthersUntouched, Committed
    <3>2. QED
      BY <1>2, <3>1 DEF Occupied, CommittedNames, NamesIn
  <2>3. QED
    BY <2>1, <2>2
<1>3. QED
  BY <1>1, <1>2 DEF Occupied, RowNames, UserDevices, CommittedNames, NamesIn

\* The step that passes the limit: it saw fewer rows than the limit allows, and
\* there are no more committed requests than processes.
LEMMA PassingStep ==
  ASSUME TypeOK, TypeOK', RowsDistinct, OccupiedBound, NEW p \in Procs, NEW u \in Users,
         devices' = devices, OthersUntouched(p), req' = req,
         Cardinality(UserDevices(req[p].user)) < MaxDevices[req[p].user]
  PROVE  Cardinality(Occupied(u)') <= MaxDevices[u] + Cardinality(Procs) - 1
<1> DEFINE R == RowNames(u)
           C == CommittedNames(u)'
<1>1. RowNames(u)' = R
  BY DEF RowNames, UserDevices
<1>2. IsFiniteSet(C) /\ Cardinality(C) <= Cardinality(Procs)
  <2> DEFINE S == {q \in Procs : Committed(q)' /\ req'[q].user = u}
  <2>1. IsFiniteSet(NamesIn(req', S)) /\ Cardinality(NamesIn(req', S)) <= Cardinality(Procs)
    <3> HIDE DEF S
    <3>1. S \in SUBSET Procs
      BY DEF S
    <3>2. QED
      BY <3>1, CommittedFacts
  <2>2. C = NamesIn(req', S)
    BY DEF CommittedNames
  <2>3. QED
    BY <2>1, <2>2
<1>3. IsFiniteSet(R) /\ Cardinality(R) = Cardinality(UserDevices(u))
  BY RowsFacts
<1>4. /\ Cardinality(R) \in Nat /\ Cardinality(C) \in Nat
      /\ Cardinality(Procs) \in Nat /\ MaxDevices[u] \in Nat
  BY <1>2, <1>3, FS_CardinalityType, RegistryAssumption DEF RegistryAssumption
<1>5. CASE u = req[p].user
  <2>1. Cardinality(R \cup C) = Cardinality(R) + Cardinality(C) - Cardinality(R \cap C)
    BY <1>2, <1>3, FS_Union
  <2>2. Cardinality(R \cap C) \in Nat
    BY <1>3, FS_Subset, FS_CardinalityType
  <2>3. Cardinality(R \cup C) <= MaxDevices[u] + Cardinality(Procs) - 1
    <3> HIDE DEF R, C
    <3>1. Cardinality(R) + 1 <= MaxDevices[u]
      BY <1>3, <1>4, <1>5
    <3>2. QED
      BY <1>2, <1>4, <2>1, <2>2, <3>1
  <2>4. QED
    BY <1>1, <2>3 DEF Occupied
<1>6. CASE u # req[p].user
  <2>1. Occupied(u)' \subseteq Occupied(u)
    <3>1. ASSUME NEW q \in Procs, Committed(q)', req'[q].user = u
          PROVE  Committed(q) /\ req[q] = req'[q]
      BY <1>6, <3>1 DEF OthersUntouched, Committed
    <3>2. QED
      BY <1>1, <3>1 DEF Occupied, CommittedNames, NamesIn
  <2>2. IsFiniteSet(Occupied(u))
    <3>1. IsFiniteSet(CommittedNames(u))
      BY CommittedFinite
    <3>2. QED
      BY <1>3, <3>1, FS_Union DEF Occupied
  <2>3. Cardinality(Occupied(u)') <= Cardinality(Occupied(u))
    BY <2>1, <2>2, FS_Subset
  <2>4. Cardinality(Occupied(u)) \in Nat /\ Cardinality(Occupied(u)') \in Nat
    BY <2>1, <2>2, FS_Subset, FS_CardinalityType
  <2>5. QED
    BY <1>4, <2>3, <2>4 DEF OccupiedBound
<1>7. QED
  BY <1>5, <1>6

LEMMA ModestOrPassing ==
  ASSUME TypeOK, IsolationInv, RowsDistinct, [Next]_vars
  PROVE  UNCHANGED vars \/ \E p \in Procs : Modest(p) \/ Passing(p)
<1> USE DEF TypeOK, Goto, local, wg, OthersUntouched, Committed
<1>1. ASSUME NEW p \in Procs, NEW r \in Registrations[p], BeginRegister(p, r)
      PROVE  Modest(p)
  BY <1>1 DEF BeginRegister, ByName, UserDevices, Modest
<1>2. ASSUME NEW p \in Procs, BypassByName(p) PROVE Modest(p)
  BY <1>2 DEF BypassByName, Modest
<1>3. ASSUME NEW p \in Procs, Match(p) PROVE Modest(p)
  BY <1>3 DEF Match, UserDevices, Proper, Modest, IsolationInv, HeldProper
<1>4. ASSUME NEW p \in Procs, Finish(p), devices' \subseteq devices PROVE Modest(p)
  BY <1>4 DEF Finish, Modest
<1>5. ASSUME NEW p \in Procs, CheckKey(p) PROVE Modest(p)
  BY <1>4, <1>5 DEF CheckKey, Modest
<1>6. ASSUME NEW p \in Procs, CheckLimit(p) PROVE Modest(p) \/ Passing(p)
  <2>1. CASE replacing[p] # {} \/ Finish(p)
    BY <1>4, <1>6, <2>1 DEF CheckLimit, Modest
  <2>2. CASE replacing[p] = {} /\ ~Finish(p)
    <3>1. /\ devices' = devices /\ req' = req /\ OthersUntouched(p)
          /\ ~(Cardinality(UserDevices(req[p].user)) >= MaxDevices[req[p].user])
      BY <1>6, <2>2 DEF CheckLimit
    <3>2. req[p].user \in Users
      BY DEF RegisterRequest
    <3>3. /\ Cardinality(UserDevices(req[p].user)) \in Nat
          /\ MaxDevices[req[p].user] \in Nat
      BY <3>2, RowsFacts, FS_CardinalityType, RegistryAssumption DEF RegistryAssumption
    <3>4. QED
      BY <3>1, <3>3 DEF Passing
  <2>3. QED
    BY <2>1, <2>2
<1>7. ASSUME NEW p \in Procs, PickAddress(p) PROVE Modest(p)
  BY <1>4, <1>7 DEF PickAddress, Modest
<1>8. ASSUME NEW p \in Procs, DeleteOld(p) PROVE Modest(p)
  BY <1>8 DEF DeleteOld, Modest
<1>9. ASSUME NEW p \in Procs, Create(p) PROVE Modest(p)
  BY <1>4, <1>9 DEF Create, NewRow, Modest
<1>10. ASSUME NEW p \in Procs, DropOldPeer(p) PROVE Modest(p)
  BY <1>10 DEF DropOldPeer, Modest
<1>11. ASSUME NEW p \in Procs,
              \/ AddPeer(p) \/ Rollback(p) \/ Cancelled(p) \/ Erase(p) \/ EndSync(p)
       PROVE  Modest(p)
  BY <1>4, <1>11 DEF AddPeer, Rollback, Cancelled, Erase, EndSync
<1>12. ASSUME NEW p \in Procs, AddPeerFails(p) \/ Recheck(p) PROVE Modest(p)
  BY <1>4, <1>12 DEF AddPeerFails, Recheck, Modest
<1>13. ASSUME NEW p \in Procs, NEW kind \in AdminKinds, BeginDelete(p, kind)
       PROVE  Modest(p)
  BY <1>13 DEF BeginDelete, Modest
<1>14. ASSUME NEW p \in Procs, Unpeer(p) \/ BeginSync(p) \/ RemoveOrphan(p)
       PROVE  Modest(p)
  BY <1>14 DEF Unpeer, BeginSync, RemoveOrphan, Modest
<1>15. ASSUME NEW p \in Procs, NEW k \in Keys, CheckPeer(p, k) PROVE Modest(p)
  BY <1>15 DEF CheckPeer, Modest
<1>16. QED
  BY <1>1, <1>2, <1>3, <1>5, <1>6, <1>7, <1>8, <1>9, <1>10, <1>11, <1>12, <1>13, <1>14, <1>15
  DEF Next, Register, Delete, Sync

\* A user's devices never exceed the limit by more than the requests in flight
\* beyond the first, for any number of them and any interleaving of their steps.
THEOREM LimitOvershootBounded == InitialProper /\ Spec => []LimitOvershoot
<1>1. Init => RowsDistinct /\ OccupiedBound
  <2> SUFFICES ASSUME Init PROVE RowsDistinct /\ OccupiedBound
    OBVIOUS
  <2>1. TypeOK /\ RowsDistinct
    BY InitTypes, RegistryAssumption DEF Init, RowsDistinct, RegistryAssumption
  <2>2. ASSUME NEW u \in Users
        PROVE  Cardinality(Occupied(u)) <= MaxDevices[u] + Cardinality(Procs) - 1
    <3>1. CommittedNames(u) = {}
      BY DEF Init, CommittedNames, NamesIn, Committed
    <3>2. Cardinality(Occupied(u)) = Cardinality(UserDevices(u))
      BY <2>1, <3>1, RowsFacts DEF Occupied
    <3>3. Cardinality(UserDevices(u)) <= MaxDevices[u]
      BY RegistryAssumption DEF Init, UserDevices, RegistryAssumption
    <3>4. Cardinality(Procs) \in Nat /\ Cardinality(Procs) # 0
      BY FS_CardinalityType, FS_EmptySet, RegistryAssumption DEF RegistryAssumption
    <3>5. MaxDevices[u] \in Nat /\ Cardinality(UserDevices(u)) \in Nat
      BY <2>1, RowsFacts, FS_CardinalityType, RegistryAssumption DEF RegistryAssumption
    <3>6. QED
      BY <3>2, <3>3, <3>4, <3>5
  <2>3. QED
    BY <2>1, <2>2 DEF OccupiedBound
<1>2. TypeOK /\ TypeOK' /\ IsolationInv /\ RowsDistinct /\ OccupiedBound /\ [Next]_vars
        => OccupiedBound'
  <2> SUFFICES ASSUME TypeOK, TypeOK', IsolationInv, RowsDistinct, OccupiedBound, [Next]_vars,
                      NEW u \in Users
               PROVE  Cardinality(Occupied(u)') <= MaxDevices[u] + Cardinality(Procs) - 1
    BY DEF OccupiedBound
  <2>1. ASSUME Occupied(u)' \subseteq Occupied(u)
        PROVE  Cardinality(Occupied(u)') <= MaxDevices[u] + Cardinality(Procs) - 1
    <3>1. IsFiniteSet(CommittedNames(u))
      BY CommittedFinite
    <3>2. IsFiniteSet(Occupied(u))
      BY <3>1, RowsFacts, FS_Union DEF Occupied
    <3>3. Cardinality(Occupied(u)') <= Cardinality(Occupied(u))
      BY <2>1, <3>2, FS_Subset
    <3>4. /\ Cardinality(Occupied(u)) \in Nat /\ Cardinality(Occupied(u)') \in Nat
          /\ Cardinality(Procs) \in Nat /\ MaxDevices[u] \in Nat
      BY <2>1, <3>2, FS_Subset, FS_CardinalityType, RegistryAssumption DEF RegistryAssumption
    <3>5. QED
      BY <3>3, <3>4 DEF OccupiedBound
  <2>2. ASSUME NEW p \in Procs, Modest(p)
        PROVE  Cardinality(Occupied(u)') <= MaxDevices[u] + Cardinality(Procs) - 1
    BY <2>1, <2>2, ModestStep
  <2>3. CASE UNCHANGED vars
    <3>1. Occupied(u)' \subseteq Occupied(u)
      BY <2>3 DEF vars, Occupied, RowNames, UserDevices, CommittedNames, NamesIn, Committed
    <3>2. QED
      BY <2>1, <3>1
  <2>4. QED
    BY <2>2, <2>3, ModestOrPassing, PassingStep DEF Passing
<1>3. TypeOK /\ RowsDistinct /\ OccupiedBound => LimitOvershoot
  <2> SUFFICES ASSUME TypeOK, RowsDistinct, OccupiedBound, NEW u \in Users
               PROVE  Cardinality(UserDevices(u)) <= MaxDevices[u] + Cardinality(Procs) - 1
    BY DEF LimitOvershoot
  <2>1. RowNames(u) \subseteq Occupied(u)
    BY DEF Occupied
  <2>2. IsFiniteSet(CommittedNames(u))
    BY CommittedFinite
  <2>3. IsFiniteSet(Occupied(u))
    BY <2>2, RowsFacts, FS_Union DEF Occupied
  <2>4. Cardinality(UserDevices(u)) <= Cardinality(Occupied(u))
    BY <2>1, <2>3, RowsFacts, FS_Subset
  <2>5. /\ Cardinality(UserDevices(u)) \in Nat /\ Cardinality(Occupied(u)) \in Nat
        /\ Cardinality(Procs) \in Nat /\ MaxDevices[u] \in Nat
    BY <2>3, RowsFacts, FS_CardinalityType, RegistryAssumption DEF RegistryAssumption
  <2>6. QED
    BY <2>4, <2>5 DEF OccupiedBound
<1>4. QED
  BY <1>1, <1>2, <1>3, TypeCorrect, RowsStayDistinct, IsolationHolds, PTL DEF Spec

\* One request at a time keeps the limit that users are promised.
THEOREM LimitKeptAlone ==
  ASSUME Cardinality(Procs) = 1
  PROVE  InitialProper /\ Spec => []DeviceLimit
<1>1. TypeOK /\ RowsDistinct /\ LimitOvershoot => DeviceLimit
  <2> SUFFICES ASSUME TypeOK, RowsDistinct, LimitOvershoot, NEW u \in Users
               PROVE  Cardinality(UserDevices(u)) <= MaxDevices[u]
    BY DEF DeviceLimit
  <2>1. Cardinality(UserDevices(u)) \in Nat /\ MaxDevices[u] \in Nat
    BY RowsFacts, FS_CardinalityType, RegistryAssumption DEF RegistryAssumption
  <2>2. QED
    BY <2>1 DEF LimitOvershoot
<1>2. QED
  BY <1>1, TypeCorrect, RowsStayDistinct, LimitOvershootBounded, PTL

-----------------------------------------------------------------------------
(***************************************************************************)
(* Removals.  A registration removes rows by the id of a row it has read,  *)
(* maybe long before.  What it removes is that very row: an id that the    *)
(* table or a handler refers to is never generated again.                  *)
(***************************************************************************)
Known(d) ==
    d \in devices \/ \E p \in Procs : d \in existing[p] \cup replacing[p] \cup target[p]

IdsAgree == \A d, e \in Device : Known(d) /\ Known(e) /\ d.id = e.id => d = e

LEMMA FreshUnknown ==
  ASSUME NEW i \in FreshIds, NEW d \in Device, Known(d)
  PROVE  d.id # i
  BY DEF FreshIds, Known

\* A handler knows the rows it has read, and forgets them when it ends.
LEMMA FinishForgets ==
  ASSUME TypeOK, NEW p \in Procs, Finish(p), devices' \subseteq devices
  PROVE  \A d \in Device : Known(d)' => Known(d)
  BY DEF TypeOK, Finish, Known

\* Nothing is learnt but rows of the table, and the one that is inserted.
LEMMA KnownStep ==
  ASSUME TypeOK, [Next]_vars,
         ~\E p \in Procs : Create(p)
  PROVE  \A d \in Device : Known(d)' => Known(d)
<1> USE DEF TypeOK, Goto, local
<1>1. ASSUME NEW p \in Procs, NEW r \in Registrations[p], BeginRegister(p, r)
      PROVE  \A d \in Device : Known(d)' => Known(d)
  BY <1>1 DEF BeginRegister, ByName, UserDevices, Known
<1>2. ASSUME NEW p \in Procs, BypassByName(p) PROVE \A d \in Device : Known(d)' => Known(d)
  BY <1>2 DEF BypassByName, Known
<1>3. ASSUME NEW p \in Procs, Match(p) PROVE \A d \in Device : Known(d)' => Known(d)
  BY <1>3 DEF Match, UserDevices, Known
<1>4. ASSUME NEW p \in Procs, CheckKey(p) \/ CheckLimit(p) \/ PickAddress(p)
      PROVE  \A d \in Device : Known(d)' => Known(d)
  BY <1>4, FinishForgets DEF CheckKey, CheckLimit, PickAddress, Known
<1>5. ASSUME NEW p \in Procs, DeleteOld(p) PROVE \A d \in Device : Known(d)' => Known(d)
  BY <1>5 DEF DeleteOld, Known
<1>6. ASSUME NEW p \in Procs, DropOldPeer(p) \/ Unpeer(p) \/ RemoveOrphan(p) \/ BeginSync(p)
      PROVE  \A d \in Device : Known(d)' => Known(d)
  BY <1>6 DEF DropOldPeer, Unpeer, RemoveOrphan, BeginSync, Known
<1>7. ASSUME NEW p \in Procs,
             \/ AddPeer(p) \/ Rollback(p) \/ Cancelled(p) \/ Erase(p) \/ EndSync(p)
      PROVE  \A d \in Device : Known(d)' => Known(d)
  <2>1. Finish(p) /\ devices' \subseteq devices
    BY <1>7 DEF AddPeer, Rollback, Cancelled, Erase, EndSync
  <2>2. QED
    BY <2>1, FinishForgets
<1>8. ASSUME NEW p \in Procs, AddPeerFails(p) \/ Recheck(p)
      PROVE  \A d \in Device : Known(d)' => Known(d)
  BY <1>8, FinishForgets DEF AddPeerFails, Recheck, Known
<1>9. ASSUME NEW p \in Procs, NEW kind \in AdminKinds, BeginDelete(p, kind)
      PROVE  \A d \in Device : Known(d)' => Known(d)
  BY <1>9 DEF BeginDelete, Known
<1>10. ASSUME NEW p \in Procs, NEW k \in Keys, CheckPeer(p, k)
       PROVE  \A d \in Device : Known(d)' => Known(d)
  BY <1>10 DEF CheckPeer, Known
<1>11. CASE UNCHANGED vars
  BY <1>11 DEF vars, Known
<1>12. QED
  BY <1>1, <1>2, <1>3, <1>4, <1>5, <1>6, <1>7, <1>8, <1>9, <1>10, <1>11
  DEF Next, Register, Delete, Sync

LEMMA IdsStayUnique == Spec => []IdsAgree
<1>1. Init => IdsAgree
  BY RegistryAssumption DEF RegistryAssumption, Init, IdsAgree, Known, Conflicting
<1>2. TypeOK /\ IdsAgree /\ [Next]_vars => IdsAgree'
  <2> SUFFICES ASSUME TypeOK, IdsAgree, [Next]_vars PROVE IdsAgree'
    OBVIOUS
  <2>1. ASSUME NEW p \in Procs, Create(p) PROVE IdsAgree'
    <3>1. PICK i \in FreshIds, a \in vpnIP[p] :
             \/ Finish(p) /\ UNCHANGED devices
             \/ /\ devices' = devices \cup {NewRow(req[p], i, a)}
                /\ target' = [target EXCEPT ![p] = {NewRow(req[p], i, a)}]
                /\ UNCHANGED <<existing, replacing>>
      BY <2>1 DEF Create
    <3>2. CASE Finish(p) /\ UNCHANGED devices
      BY <3>2, FinishForgets DEF IdsAgree
    <3>3. CASE /\ devices' = devices \cup {NewRow(req[p], i, a)}
               /\ target' = [target EXCEPT ![p] = {NewRow(req[p], i, a)}]
               /\ UNCHANGED <<existing, replacing>>
      <4>1. \A d \in Device : Known(d)' => Known(d) \/ d = NewRow(req[p], i, a)
        BY <3>3 DEF TypeOK, Known
      <4>2. NewRow(req[p], i, a).id = i
        BY DEF NewRow
      <4>3. QED
        BY <4>1, <4>2, FreshUnknown DEF IdsAgree
    <3>4. QED
      BY <3>1, <3>2, <3>3
  <2>2. QED
    BY <2>1, KnownStep DEF IdsAgree
<1>3. QED
  BY <1>1, <1>2, TypeCorrect, PTL DEF Spec

\* A registration removes only rows of its own user that carry the name or the key it
\* registers, whatever has become of the row it read since.
THEOREM RemovesOwnRows == InitialProper /\ Spec => OnlyOwnRowsRemoved
<1>1. ASSUME TypeOK, IsolationInv, IdsAgree, [Next]_vars,
             NEW d \in devices \ devices', NEW p \in Procs
      PROVE  RegistrationRemoves(p, d)
  <2> SUFFICES ASSUME pc[p] \in {"deleteOld", "rollback"}, pc'[p] # pc[p]
               PROVE  d.user = req[p].user /\ (d.name = req[p].name \/ d.key = req[p].key)
    BY DEF RegistrationRemoves
  \* The step is one of p's, since its pc changes, and it removes d by its id.
  <2>1. \E e \in replacing[p] \cup target[p] : d.id = e.id
    <3>1. PICK q \in Procs : Register(q) \/ Delete(q) \/ Sync(q)
      BY <1>1 DEF Next, vars
    <3>2. q = p
      BY <1>1, <3>1 DEF Register, Delete, Sync, TypeOK, Goto, Finish,
         BeginRegister, BypassByName, Match, CheckKey, CheckLimit, PickAddress, DeleteOld,
         Create, DropOldPeer, AddPeer, AddPeerFails, Rollback, Cancelled, BeginDelete,
         Unpeer, Recheck, Erase, BeginSync, CheckPeer, RemoveOrphan, EndSync
    <3>3. DeleteOld(p) \/ Rollback(p)
      BY <3>1, <3>2 DEF Register, Delete, Sync, BeginRegister, BypassByName, Match, CheckKey,
         CheckLimit, PickAddress, Create, DropOldPeer, AddPeer, AddPeerFails, Cancelled,
         BeginDelete, Unpeer, Recheck, Erase, BeginSync, CheckPeer, RemoveOrphan, EndSync
    <3>4. QED
      BY <1>1, <3>3 DEF DeleteOld, Rollback
  <2>2. PICK e \in replacing[p] \cup target[p] : d.id = e.id
    BY <2>1
  <2>3. d = e
    BY <1>1, <2>2 DEF IdsAgree, Known, TypeOK
  <2>4. QED
    BY <1>1, <2>2, <2>3 DEF IsolationInv, HeldProper, RegisterSteps
<1>2. TypeOK /\ IsolationInv /\ IdsAgree /\ [Next]_vars
        => [\A d \in devices \ devices' : \A p \in Procs : RegistrationRemoves(p, d)]_vars
  BY <1>1
<1>3. QED
  BY <1>2, TypeCorrect, IsolationHolds, IdsStayUnique, PTL DEF Spec, OnlyOwnRowsRemoved
-----------------------------------------------------------------------------
(***************************************************************************)
(* Requests one at a time.  A registered device is reachable at its        *)
(* address but for the one the request under way is settling: the row it   *)
(* has just inserted, or whose peer it has removed, which the steps left   *)
(* configure or delete again.  What keeps the other devices routed is that *)
(* nobody has their keys: the row replaced was in the table, and the key   *)
(* sync-peers removes is in no row.                                        *)
(***************************************************************************)
SettlingSteps == {"dropOldPeer", "addPeer", "rollback", "recheck", "erase"}

Settling(p) == IF pc[p] \in SettlingSteps THEN target[p] ELSE {}

AloneInv(p) ==
    /\ \A d \in devices : route[d.ip] = d.key \/ d \in Settling(p)
    /\ pc[p] = "match" => /\ existing[p] \subseteq devices
                          /\ \A d, e \in existing[p] : d = e
    /\ pc[p] \in {"key", "limit", "address", "deleteOld"} => replacing[p] \subseteq devices
    /\ pc[p] = "address" => replacing[p] = {}
    /\ pc[p] \in {"create", "dropOldPeer"} =>
          \A e \in replacing[p] : \A d \in devices : d.key = e.key => d \in Settling(p)
    /\ pc[p] \in SettlingSteps \cup {"unpeer", "adminUnpeer"} =>
          /\ target[p] \subseteq devices
          /\ \A d, e \in target[p] : d = e
    /\ pc[p] \in RegisterSteps => req[p].rollback
    /\ pc[p] = "orphan" => \A k \in victim[p] : ByKey(k) = {}

\* Every caller of the registration asks for the rollback.
AllRollBack == \A p \in Procs : \A r \in Registrations[p] : r.rollback

\* Configuring or removing a peer leaves alone the address of a row with another key
\* and another address.
LEMMA OthersKeepRoutes ==
  ASSUME TypeOK, RowsDistinct, NEW d \in devices, route[d.ip] = d.key
  PROVE  /\ \A e \in devices : e # d /\ WgAdd(e.key, e.ip) => route'[d.ip] = d.key
         /\ \A k : k # d.key /\ TryRemovePeer(k) => route'[d.ip] = d.key
<1>1. d.ip \in Addresses
  BY DEF TypeOK, Device
<1>2. \A e \in devices : e # d => e.key # d.key /\ e.ip # d.ip
  BY DEF RowsDistinct, Conflicting
<1>3. QED
  BY <1>1, <1>2 DEF WgAdd, TryRemovePeer, WgRemove, wg

LEMMA InitiallyRouted ==
  ASSUME Init, NEW d \in devices
  PROVE  route[d.ip] = d.key
<1>1. d \in InitialDevices /\ d.ip \in Addresses
  BY InitTypes DEF Init, TypeOK, Device
<1> DEFINE e == CHOOSE x \in InitialDevices : x.ip = d.ip
<1>2. e \in InitialDevices /\ e.ip = d.ip
  BY <1>1
<1>3. e = d
  BY <1>1, <1>2, RegistryAssumption DEF RegistryAssumption, Conflicting
<1>4. QED
  BY <1>1, <1>3 DEF Init

LEMMA AloneStep ==
  ASSUME NEW p \in Procs, Procs = {p}, ~RequestsCancelled, AllRollBack,
         TypeOK, RowsDistinct, RowsDistinct', AloneInv(p), [Next]_vars
  PROVE  AloneInv(p)'
<1> USE DEF TypeOK, AloneInv, Settling, SettlingSteps, RegisterSteps, Goto, local, wg
<1>0. ASSUME Finish(p), \A d \in devices' : route'[d.ip] = d.key
      PROVE  AloneInv(p)'
  BY <1>0 DEF Finish
<1>1. ASSUME NEW r \in Registrations[p], BeginRegister(p, r) PROVE AloneInv(p)'
  <2>1. \A d, e \in ByName(r.user, r.name) : d = e
    BY DEF ByName, UserDevices, RowsDistinct, Conflicting
  <2>2. QED
    BY <1>1, <2>1 DEF BeginRegister, ByName, UserDevices, AllRollBack
<1>2. ASSUME BypassByName(p) PROVE AloneInv(p)'
  BY <1>2 DEF BypassByName
<1>3. ASSUME Match(p) PROVE AloneInv(p)'
  <2>1. \A h, k : \A d, e \in {x \in UserDevices(req[p].user) : x.hw = h /\ x.key = k} : d = e
    BY DEF UserDevices, RowsDistinct, Conflicting
  <2>2. QED
    BY <1>3, <2>1 DEF Match, UserDevices
<1>4. ASSUME CheckKey(p) \/ CheckLimit(p) \/ PickAddress(p) PROVE AloneInv(p)'
  <2>1. UNCHANGED <<devices, wg>> /\ pc[p] \in {"key", "limit", "address"}
    BY <1>4 DEF CheckKey, CheckLimit, PickAddress
  <2>2. \A d \in devices' : route'[d.ip] = d.key
    BY <2>1
  <2>3. CASE Finish(p)
    BY <1>0, <2>2, <2>3
  <2>4. CASE ~Finish(p)
    BY <1>4, <2>4 DEF CheckKey, CheckLimit, PickAddress
  <2>5. QED
    BY <2>3, <2>4
<1>5. ASSUME DeleteOld(p) PROVE AloneInv(p)'
  <2>1. \A e \in replacing[p] : \A d \in devices' : d.key # e.key
    BY <1>5 DEF DeleteOld, RowsDistinct, Conflicting
  <2>2. QED
    BY <1>5, <2>1 DEF DeleteOld
<1>6. ASSUME Create(p) PROVE AloneInv(p)'
  BY <1>0, <1>6 DEF Create
<1>7. ASSUME DropOldPeer(p) PROVE AloneInv(p)'
  <2>1. PICK e \in replacing[p] : TryRemovePeer(e.key)
    BY <1>7 DEF DropOldPeer
  <2>2. \A d \in devices : d \in target[p] \/ route'[d.ip] = d.key
    BY <1>7, <2>1, OthersKeepRoutes DEF DropOldPeer
  <2>3. QED
    BY <1>7, <2>2 DEF DropOldPeer
<1>8. ASSUME AddPeer(p) PROVE AloneInv(p)'
  <2>1. PICK e \in target[p] : WgAdd(e.key, e.ip)
    BY <1>8 DEF AddPeer
  <2>2. e \in devices /\ \A d \in target[p] : d = e
    BY <1>8, <2>1 DEF AddPeer
  <2>3. route'[e.ip] = e.key
    BY <2>1, <2>2 DEF WgAdd, Device
  <2>4. \A d \in devices : route'[d.ip] = d.key
    BY <2>1, <2>2, <2>3, OthersKeepRoutes
  <2>5. QED
    BY <1>0, <1>8, <2>4 DEF AddPeer
<1>9. ASSUME AddPeerFails(p) PROVE AloneInv(p)'
  BY <1>9 DEF AddPeerFails
<1>10. ASSUME Rollback(p) \/ Erase(p) PROVE AloneInv(p)'
  <2>1. \A d \in devices' : route'[d.ip] = d.key
    BY <1>10 DEF Rollback, Erase
  <2>2. QED
    BY <1>0, <1>10, <2>1 DEF Rollback, Erase
<1>11. ASSUME NEW kind \in AdminKinds, BeginDelete(p, kind) PROVE AloneInv(p)'
  BY <1>11 DEF BeginDelete
<1>12. ASSUME Unpeer(p) PROVE AloneInv(p)'
  <2>1. PICK e \in target[p] : TryRemovePeer(e.key)
    BY <1>12 DEF Unpeer
  <2>2. \A d \in devices : d # e => d.key # e.key
    BY <1>12, <2>1 DEF Unpeer, RowsDistinct, Conflicting
  <2>3. \A d \in devices : d \in target[p] \/ route'[d.ip] = d.key
    BY <1>12, <2>1, <2>2, OthersKeepRoutes DEF Unpeer
  <2>4. QED
    BY <1>12, <2>3 DEF Unpeer
<1>13. ASSUME Recheck(p) PROVE AloneInv(p)'
  <2>1. CASE Finish(p)
    BY <1>0, <1>13, <2>1 DEF Recheck
  <2>2. CASE ~Finish(p)
    BY <1>13, <2>2 DEF Recheck
  <2>3. QED
    BY <2>1, <2>2
<1>14. ASSUME BeginSync(p) PROVE AloneInv(p)'
  BY <1>14 DEF BeginSync
<1>15. ASSUME NEW k \in Keys, CheckPeer(p, k) PROVE AloneInv(p)'
  BY <1>15 DEF CheckPeer, ByKey
<1>16. ASSUME RemoveOrphan(p) PROVE AloneInv(p)'
  <2>1. PICK k \in victim[p] : TryRemovePeer(k)
    BY <1>16 DEF RemoveOrphan
  <2>2. \A d \in devices : d.key # k
    BY <1>16, <2>1 DEF RemoveOrphan, ByKey
  <2>3. \A d \in devices : route'[d.ip] = d.key
    BY <1>16, <2>1, <2>2, OthersKeepRoutes DEF RemoveOrphan
  <2>4. QED
    BY <1>16, <2>3 DEF RemoveOrphan
<1>17. ASSUME EndSync(p) PROVE AloneInv(p)'
  BY <1>0, <1>17 DEF EndSync
<1>18. CASE UNCHANGED vars
  BY <1>18 DEF vars, ByKey
<1>19. QED
  BY <1>1, <1>2, <1>3, <1>4, <1>5, <1>6, <1>7, <1>8, <1>9, <1>10, <1>11, <1>12,
     <1>13, <1>14, <1>15, <1>16, <1>17, <1>18
  DEF Next, Register, Delete, Sync, Cancelled

\* Requests served one at a time leave every registered device reachable at its
\* address, whatever wgctrl calls fail, when registrations roll back and no client
\* hangs up.
THEOREM RoutedAlone ==
  ASSUME Cardinality(Procs) = 1, AllRollBack, ~RequestsCancelled
  PROVE  Spec => []RegisteredDevicesRouted
<1>1. PICK p : Procs = {p}
  BY FS_Singleton, RegistryAssumption DEF RegistryAssumption
<1>2. Init => AloneInv(p)
  <2> SUFFICES ASSUME Init PROVE AloneInv(p)
    OBVIOUS
  <2>1. \A d \in devices : route[d.ip] = d.key
    BY InitiallyRouted
  <2>2. QED
    BY <1>1, <2>1 DEF Init, AloneInv, Settling, SettlingSteps, RegisterSteps
<1>3. TypeOK /\ RowsDistinct /\ RowsDistinct' /\ AloneInv(p) /\ [Next]_vars => AloneInv(p)'
  BY <1>1, AloneStep
<1>4. AloneInv(p) => RegisteredDevicesRouted
  BY <1>1 DEF AloneInv, Settling, SettlingSteps, RegisteredDevicesRouted, AllIdle
<1>5. QED
  BY <1>2, <1>3, <1>4, TypeCorrect, RowsStayDistinct, PTL DEF Spec

-----------------------------------------------------------------------------
(***************************************************************************)
(* Handlers that work on separate devices.  What a handler has read of the *)
(* rows it concerns stays true until it acts, so a row is without its      *)
(* address only while its handler is about to route it, or, when wgctrl    *)
(* has failed, to remove it.                                               *)
(***************************************************************************)
Concerns(p, d) ==
    \E r \in Registrations[p] : (d.user = r.user /\ d.name = r.name) \/ d.key = r.key

\* No two handlers are ever after the same name or key, and no row found at start
\* concerns two of them.
SeparateDevices ==
    /\ \A p, q \in Procs : p # q =>
          \A r \in Registrations[p], s \in Registrations[q] :
             r.key # s.key /\ ~(r.user = s.user /\ r.name = s.name)
    /\ \A d \in InitialDevices : \A p, q \in Procs :
          Concerns(p, d) /\ Concerns(q, d) => p = q

Coming(p, d) == pc[p] \in {"addPeer", "dropOldPeer", "rollback"} /\ d \in target[p]

RowsRouted == \A d \in devices : route[d.ip] = d.key \/ \E p \in Procs : Coming(p, d)

SeparateRows == \A d \in devices : \A p, q \in Procs : Concerns(p, d) /\ Concerns(q, d) => p = q

ReplaceSteps == {"key", "limit", "address", "deleteOld", "create", "dropOldPeer"}

Proceeds(p) ==
    /\ pc[p] \in RegisterSteps \cup {"idle"}
    /\ pc[p] = "match" => existing[p] = ByName(req[p].user, req[p].name)
    /\ pc[p] \in {"key", "limit", "address", "deleteOld"}
          => replacing[p] = ByName(req[p].user, req[p].name)
    /\ pc[p] \in {"limit", "address", "deleteOld", "create"} => ByKey(req[p].key) = {}
    /\ pc[p] = "create" => ByName(req[p].user, req[p].name) = {}
    /\ pc[p] \in ReplaceSteps =>
          \A e \in replacing[p] : /\ e.key # req[p].key
                                  /\ \A d \in replacing[p] : d = e
                                  /\ \A q \in Procs : Concerns(q, e) => q = p
    /\ pc[p] = "address" => replacing[p] = {}
    /\ pc[p] \in {"deleteOld", "create"} =>
          replacing[p] = {} \/ vpnIP[p] = {d.ip : d \in replacing[p]}
    /\ pc[p] \in {"create", "dropOldPeer"} => \A e \in replacing[p] : ByKey(e.key) = {}
    /\ pc[p] \in {"addPeer", "dropOldPeer", "rollback"} =>
          /\ target[p] \subseteq devices
          /\ \A d, e \in target[p] : d = e

RoutedInv == RowsRouted /\ SeparateRows /\ \A p \in Procs : Proceeds(p)

OthersAside(p) ==
    /\ OthersUntouched(p)
    /\ \A q \in Procs \ {p} : vpnIP'[q] = vpnIP[q] /\ target'[q] = target[q]

\* What a handler holds concerns it.
LEMMA HeldConcerns ==
  ASSUME IsolationInv, NEW p \in Procs, pc[p] \in RegisterSteps
  PROVE  /\ req[p] \in Registrations[p]
         /\ \A d \in existing[p] \cup replacing[p] \cup target[p] : Concerns(p, d)
         /\ \A d : d.user = req[p].user /\ d.name = req[p].name => Concerns(p, d)
         /\ \A d : d.key = req[p].key => Concerns(p, d)
  BY DEF IsolationInv, HeldProper, Concerns

\* Rows that concern p only leave the other handlers where they are.
LEMMA OthersProceed ==
  ASSUME IsolationInv, SeparateRows, SeparateRows', NEW p \in Procs, OthersAside(p),
         \A d \in (devices \ devices') \cup (devices' \ devices) : Concerns(p, d),
         \A d \in devices' \ devices : \E r \in Registrations[p] : d.key = r.key,
         NEW q \in Procs, q # p, Proceeds(q)
  PROVE  Proceeds(q)'
<1>1. \A d \in (devices \ devices') \cup (devices' \ devices) : ~Concerns(q, d)
  BY DEF SeparateRows, Concerns
<1>2. /\ pc'[q] = pc[q] /\ req'[q] = req[q] /\ existing'[q] = existing[q]
      /\ replacing'[q] = replacing[q] /\ vpnIP'[q] = vpnIP[q] /\ target'[q] = target[q]
  BY DEF OthersAside, OthersUntouched
<1>3. CASE pc[q] \in RegisterSteps
  <2>1. ByName(req[q].user, req[q].name)' = ByName(req[q].user, req[q].name)
    BY <1>1, <1>2, <1>3, HeldConcerns DEF ByName, UserDevices
  <2>2. ByKey(req[q].key)' = ByKey(req[q].key)
    BY <1>1, <1>2, <1>3, HeldConcerns DEF ByKey
  <2>3. \A e \in target[q] : e \in devices => e \in devices'
    BY <1>1, <1>3, HeldConcerns
  <2>4. ASSUME pc[q] \in {"create", "dropOldPeer"}, NEW e \in replacing[q]
        PROVE  \A d \in devices' : d.key # e.key
    <3>1. ASSUME NEW d \in devices' \ devices, d.key = e.key PROVE FALSE
      <4>1. Concerns(p, e)
        BY <3>1 DEF Concerns
      <4>2. QED
        BY <2>4, <4>1 DEF Proceeds, ReplaceSteps
    <3>2. QED
      BY <2>4, <3>1 DEF Proceeds, ByKey
  <2>5. \A e \in replacing[q] : pc[q] \in {"create", "dropOldPeer"} => ByKey(e.key)' = {}
    BY <2>4 DEF ByKey
  <2>6. QED
    BY <1>2, <2>1, <2>2, <2>3, <2>5 DEF Proceeds, Concerns
<1>4. CASE pc[q] \notin RegisterSteps
  BY <1>2, <1>4 DEF Proceeds, RegisterSteps, ReplaceSteps
<1>5. QED
  BY <1>3, <1>4

\* A step of p that leaves the rows alone, and the routes of all but what p routes.
LEMMA RoutedQuiet ==
  ASSUME IsolationInv, RoutedInv, NEW p \in Procs, OthersAside(p),
         devices' = devices, Proceeds(p)',
         \A d \in devices : route[d.ip] = d.key => route'[d.ip] = d.key,
         \A d \in devices : Coming(p, d) => Coming(p, d)' \/ route'[d.ip] = d.key
  PROVE  RoutedInv'
<1>1. SeparateRows'
  BY DEF RoutedInv, SeparateRows, Concerns
<1>2. \A q \in Procs : Proceeds(q)'
  BY <1>1, OthersProceed DEF RoutedInv
<1>3. \A q \in Procs \ {p}, d \in devices : Coming(q, d) => Coming(q, d)'
  BY DEF Coming, OthersAside, OthersUntouched
<1>4. \A d \in devices : route'[d.ip] = d.key \/ \E q \in Procs : Coming(q, d)'
  BY <1>3 DEF RoutedInv, RowsRouted
<1>5. QED
  BY <1>1, <1>2, <1>4 DEF RoutedInv, RowsRouted

\* From the first query to the choice of an address.
LEMMA ReadsProceed ==
  ASSUME TypeOK, IsolationInv, RowsDistinct, RoutedInv, NEW p \in Procs,
         \/ \E r \in Registrations[p] : BeginRegister(p, r)
         \/ BypassByName(p) \/ Match(p) \/ CheckKey(p) \/ CheckLimit(p) \/ PickAddress(p)
  PROVE  Proceeds(p)'
<1> USE DEF TypeOK, Goto, local, wg
<1>1. OthersAside(p) /\ UNCHANGED <<devices, route>>
  BY DEF OthersAside, OthersUntouched, BeginRegister, BypassByName, Match, CheckKey, CheckLimit,
     PickAddress, Finish
<1>2. CASE Finish(p)
  BY <1>2 DEF Finish, Proceeds, ReplaceSteps
<1>3. \A u \in Users, n \in Names : \A d, e \in ByName(u, n) : d = e
  BY DEF ByName, UserDevices, RowsDistinct, Conflicting
<1>4. req[p].user \in Users /\ req[p].name \in Names
  BY DEF RegisterRequest
<1>5. CASE ~Finish(p)
  <2> USE DEF Proceeds, RegisterSteps, ReplaceSteps
  <2>1. ASSUME NEW r \in Registrations[p], BeginRegister(p, r) PROVE Proceeds(p)'
    BY <1>1, <2>1 DEF BeginRegister, ByName, UserDevices
  <2>2. ASSUME BypassByName(p) PROVE Proceeds(p)'
    BY <1>1, <1>3, <1>4, <2>2 DEF BypassByName, RoutedInv, ByName, UserDevices
  <2>3. ASSUME Match(p) PROVE Proceeds(p)'
    <3> DEFINE same == {e \in existing[p] : e.key = req[p].key}
               twin == {d \in UserDevices(req[p].user) : d.hw = req[p].hw /\ d.key = req[p].key}
    <3>1. /\ existing[p] = ByName(req[p].user, req[p].name)
          /\ \A d \in devices : InSubnet(d)
          /\ \A e \in existing[p] : e \in devices
      BY <2>3 DEF Match, RoutedInv, IsolationInv, Proper, ByName, UserDevices
    <3>2. same = {}
      BY <2>3, <3>1 DEF Match
    <3>3. twin \subseteq devices /\ \A d, e \in twin : d = e
      BY DEF UserDevices, RowsDistinct, Conflicting
    <3>4. \/ pc'[p] = "addPeer" /\ target'[p] = twin
          \/ pc'[p] = "key" /\ replacing'[p] = existing[p]
      BY <2>3, <3>1, <3>2 DEF Match, UserDevices
    <3>5. CASE pc'[p] = "addPeer" /\ target'[p] = twin
      BY <1>1, <3>3, <3>5
    <3>6. CASE pc'[p] = "key" /\ replacing'[p] = existing[p]
      <4>1. \A e \in existing[p] : /\ e.key # req[p].key
                                   /\ \A d \in existing[p] : d = e
                                   /\ \A q \in Procs : Concerns(q, e) => q = p
        BY <1>3, <1>4, <2>3, <3>1, <3>2, HeldConcerns DEF Match, RoutedInv, SeparateRows
      <4>2. req' = req
        BY <2>3 DEF Match
      <4>3. QED
        BY <1>1, <3>1, <3>6, <4>1, <4>2 DEF ByName, UserDevices, Concerns
    <3>7. QED
      BY <3>4, <3>5, <3>6
  <2>4. ASSUME CheckKey(p) PROVE Proceeds(p)'
    <3>1. ByKey(req[p].key) = {}
      BY <1>5, <2>4 DEF CheckKey, RoutedInv, ByKey, ByName, UserDevices, RowsDistinct, Conflicting
    <3>2. QED
      BY <1>1, <1>5, <2>4, <3>1 DEF CheckKey, RoutedInv, ByKey, ByName, UserDevices
  <2>5. ASSUME CheckLimit(p) PROVE Proceeds(p)'
    BY <1>1, <1>5, <2>5 DEF CheckLimit, RoutedInv, ByKey, ByName, UserDevices
  <2>6. ASSUME PickAddress(p) PROVE Proceeds(p)'
    BY <1>1, <1>5, <2>6 DEF PickAddress, RoutedInv, ByKey, ByName, UserDevices
  <2>7. QED
    BY <1>5, <2>1, <2>2, <2>3, <2>4, <2>5, <2>6
<1>6. QED
  BY <1>2, <1>5

LEMMA RoutedReads ==
  ASSUME TypeOK, IsolationInv, RowsDistinct, RoutedInv, NEW p \in Procs,
         \/ \E r \in Registrations[p] : BeginRegister(p, r)
         \/ BypassByName(p) \/ Match(p) \/ CheckKey(p) \/ CheckLimit(p) \/ PickAddress(p)
  PROVE  RoutedInv'
<1> USE DEF TypeOK, Goto, local, wg
<1>1. OthersAside(p) /\ UNCHANGED <<devices, route>>
  BY DEF OthersAside, OthersUntouched, BeginRegister, BypassByName, Match, CheckKey, CheckLimit,
     PickAddress, Finish
<1>2. \A d \in devices : ~Coming(p, d)
  BY DEF BeginRegister, BypassByName, Match, CheckKey, CheckLimit, PickAddress, Coming
<1>3. QED
  BY <1>1, <1>2, ReadsProceed, RoutedQuiet

\* The row replaced leaves the table.
LEMMA RoutedDelete ==
  ASSUME TypeOK, IsolationInv, RowsDistinct, RoutedInv, NEW p \in Procs, DeleteOld(p)
  PROVE  /\ RoutedInv'
         /\ OthersAside(p) /\ UNCHANGED <<route, req, existing, replacing, vpnIP, target>>
         /\ pc[p] = "deleteOld" /\ pc'[p] = "create"
         /\ devices' = devices \ replacing[p]
         /\ \A q \in Procs, d \in devices : Coming(q, d) => d \in devices' /\ Coming(q, d)'
<1> USE DEF TypeOK, Goto, local, wg
<1>1. /\ OthersAside(p) /\ UNCHANGED <<route, req, existing, replacing, vpnIP, target>>
      /\ pc[p] = "deleteOld" /\ pc'[p] = "create"
  BY DEF DeleteOld, OthersAside, OthersUntouched
<1>2. replacing[p] = ByName(req[p].user, req[p].name)
  BY <1>1 DEF RoutedInv, Proceeds
<1>3. devices' = devices \ replacing[p]
  BY <1>2 DEF DeleteOld, RowsDistinct, Conflicting, ByName, UserDevices
<1>4. SeparateRows'
  BY <1>3 DEF RoutedInv, SeparateRows, Concerns
<1>5. \A e \in replacing[p] : e \in devices /\ Concerns(p, e)
  BY <1>1, <1>2, HeldConcerns DEF RegisterSteps, ByName, UserDevices
<1>6. Proceeds(p)'
  <2>1. \A e \in replacing[p] : ByKey(e.key)' = {}
    BY <1>3, <1>5 DEF ByKey, RowsDistinct, Conflicting
  <2>2. ByKey(req[p].key)' = {} /\ ByName(req[p].user, req[p].name)' = {}
    <3>1. ByKey(req[p].key) = {}
      BY <1>1 DEF RoutedInv, Proceeds
    <3>2. \A d \in devices' : /\ d.key # req[p].key
                             /\ ~(d.user = req[p].user /\ d.name = req[p].name)
      BY <1>2, <1>3, <3>1 DEF ByKey, ByName, UserDevices
    <3>3. QED
      BY <1>1, <3>2 DEF ByKey, ByName, UserDevices
  <2>3. /\ \A e \in replacing[p] : /\ e.key # req[p].key
                                 /\ \A d \in replacing[p] : d = e
                                 /\ \A q \in Procs : Concerns(q, e) => q = p
        /\ replacing[p] = {} \/ vpnIP[p] = {d.ip : d \in replacing[p]}
    BY <1>1 DEF RoutedInv, Proceeds, ReplaceSteps
  <2>4. QED
    BY <1>1, <2>1, <2>2, <2>3 DEF Proceeds, RegisterSteps, Concerns
<1>7. \A q \in Procs : Proceeds(q)'
  BY <1>1, <1>3, <1>4, <1>5, <1>6, OthersProceed DEF RoutedInv
<1>8. ASSUME NEW q \in Procs, NEW d \in devices, Coming(q, d) PROVE d \in devices' /\ Coming(q, d)'
  <2>1. q # p /\ Concerns(q, d)
    BY <1>1, <1>8, HeldConcerns DEF Coming, RegisterSteps
  <2>2. d \notin replacing[p]
    BY <1>5, <2>1 DEF RoutedInv, SeparateRows
  <2>3. QED
    BY <1>1, <1>3, <1>8, <2>1, <2>2 DEF Coming, OthersAside, OthersUntouched
<1>9. \A d \in devices' : route'[d.ip] = d.key \/ \E q \in Procs : Coming(q, d)'
  BY <1>1, <1>3, <1>8 DEF RoutedInv, RowsRouted
<1>10. QED
  BY <1>1, <1>3, <1>4, <1>7, <1>8, <1>9 DEF RoutedInv, RowsRouted

\* The new row is in, its peer still to be configured.
LEMMA RoutedInsert ==
  ASSUME TypeOK, IsolationInv, RoutedInv, SeparateDevices,
         NEW p \in Procs, pc[p] = "create", NEW i \in FreshIds, NEW a \in vpnIP[p],
         devices' = devices \cup {NewRow(req[p], i, a)},
         target' = [target EXCEPT ![p] = {NewRow(req[p], i, a)}],
         pc' = [pc EXCEPT ![p] = IF replacing[p] # {} THEN "dropOldPeer" ELSE "addPeer"],
         UNCHANGED <<route, req, existing, replacing, vpnIP>>
  PROVE  RoutedInv'
<1> USE DEF TypeOK
<1> DEFINE row == NewRow(req[p], i, a)
<1>1. OthersAside(p)
  BY DEF OthersAside, OthersUntouched
<1>2. /\ row.user = req[p].user /\ row.name = req[p].name /\ row.key = req[p].key
      /\ req[p] \in Registrations[p]
  BY HeldConcerns DEF NewRow, RegisterSteps
<1> HIDE DEF row
<1>3. Concerns(p, row)
  BY <1>2 DEF Concerns
<1>4. SeparateRows'
  <2>1. \A q \in Procs : Concerns(q, row) => q = p
    BY <1>2 DEF SeparateDevices, Concerns
  <2>2. QED
    BY <2>1 DEF RoutedInv, SeparateRows, Concerns, row
<1>5. Proceeds(p)'
  <2>1. \A e \in replacing[p] : ByKey(e.key)' = {}
    BY <1>2 DEF RoutedInv, Proceeds, ReplaceSteps, ByKey, row
  <2>2. \A e \in replacing[p] : /\ e.key # req[p].key
                              /\ \A d \in replacing[p] : d = e
                              /\ \A q \in Procs : Concerns(q, e) => q = p
    BY DEF RoutedInv, Proceeds, ReplaceSteps
  <2>3. pc'[p] \in {"addPeer", "dropOldPeer"} /\ target'[p] = {row} /\ row \in devices'
    BY DEF row
  <2>4. QED
    BY <2>1, <2>2, <2>3 DEF Proceeds, RegisterSteps, Concerns
<1>6. \A q \in Procs : Proceeds(q)'
  BY <1>1, <1>2, <1>3, <1>4, <1>5, OthersProceed DEF RoutedInv, row
<1>7. \A q \in Procs, d \in devices : Coming(q, d) => Coming(q, d)'
  BY <1>1 DEF Coming, OthersAside, OthersUntouched
<1>8. Coming(p, row)'
  BY DEF Coming, row
<1>9. \A d \in devices' : route'[d.ip] = d.key \/ \E q \in Procs : Coming(q, d)'
  BY <1>7, <1>8 DEF RoutedInv, RowsRouted, row
<1>10. QED
  BY <1>4, <1>6, <1>9 DEF RoutedInv, RowsRouted

\* A refused insert ends the request; the row it had deleted is gone.
LEMMA RoutedRefused ==
  ASSUME TypeOK, IsolationInv, RoutedInv, NEW p \in Procs, pc[p] = "create", Finish(p),
         UNCHANGED <<devices, route>>
  PROVE  RoutedInv'
<1>1. OthersAside(p) /\ pc'[p] = "idle"
  BY DEF TypeOK, Finish, OthersAside, OthersUntouched
<1>2. Proceeds(p)'
  BY <1>1 DEF Proceeds, ReplaceSteps
<1>3. QED
  BY <1>1, <1>2, RoutedQuiet DEF Coming

\* The peer of the row replaced goes, or stays when the call fails: no row has its key.
LEMMA RoutedDrop ==
  ASSUME TypeOK, IsolationInv, RoutedInv, NEW p \in Procs, DropOldPeer(p)
  PROVE  /\ RoutedInv'
         /\ OthersAside(p) /\ UNCHANGED <<devices, req, existing, replacing, vpnIP, target>>
         /\ pc[p] = "dropOldPeer" /\ pc'[p] = "addPeer"
<1> USE DEF TypeOK, Goto, local, wg
<1>1. /\ OthersAside(p) /\ UNCHANGED <<devices, req, existing, replacing, vpnIP, target>>
      /\ pc[p] = "dropOldPeer" /\ pc'[p] = "addPeer"
  BY DEF DropOldPeer, OthersAside, OthersUntouched
<1>2. PICK e \in replacing[p] : TryRemovePeer(e.key)
  BY DEF DropOldPeer
<1>3. \A d \in devices : d.key # e.key
  BY <1>1, <1>2 DEF RoutedInv, Proceeds, ByKey
<1>4. \A d \in devices : route[d.ip] = d.key => route'[d.ip] = d.key
  BY <1>2, <1>3 DEF TryRemovePeer, WgRemove, Device
<1>5. Proceeds(p)'
  BY <1>1 DEF RoutedInv, Proceeds, RegisterSteps, ReplaceSteps
<1>6. \A d \in devices : Coming(p, d) => Coming(p, d)'
  BY <1>1 DEF Coming
<1>7. QED
  BY <1>1, <1>4, <1>5, <1>6, RoutedQuiet

\* The new peer takes its address over from whoever had it.
LEMMA RoutedAdd ==
  ASSUME TypeOK, IsolationInv, RowsDistinct, RoutedInv, NEW p \in Procs, AddPeer(p)
  PROVE  RoutedInv'
<1> USE DEF TypeOK
<1>1. /\ OthersAside(p) /\ devices' = devices /\ pc[p] = "addPeer" /\ pc'[p] = "idle"
  BY DEF AddPeer, Finish, OthersAside, OthersUntouched
<1>2. PICK e \in target[p] : WgAdd(e.key, e.ip)
  BY DEF AddPeer
<1>3. e \in devices /\ (\A d \in target[p] : d = e) /\ e.ip \in Addresses
  BY <1>1, <1>2 DEF RoutedInv, Proceeds, Device
<1>4. Proceeds(p)'
  BY <1>1 DEF Proceeds, RegisterSteps, ReplaceSteps
<1>5. route'[e.ip] = e.key
  BY <1>2, <1>3 DEF WgAdd
<1>6. \A d \in devices : d # e => d.key # e.key /\ d.ip # e.ip /\ d.ip \in Addresses
  BY <1>3 DEF RowsDistinct, Conflicting, Device
<1>7. \A d \in devices : route[d.ip] = d.key => route'[d.ip] = d.key
  BY <1>2, <1>5, <1>6 DEF WgAdd
<1>8. \A d \in devices : Coming(p, d) => route'[d.ip] = d.key
  BY <1>3, <1>5 DEF Coming
<1>9. QED
  BY <1>1, <1>4, <1>7, <1>8, RoutedQuiet

\* wgctrl fails and the row is removed again, by the handler it concerns.
LEMMA RoutedBack ==
  ASSUME TypeOK, IsolationInv, RowsDistinct, RoutedInv, WireGuardFails => AllRollBack,
         NEW p \in Procs, AddPeerFails(p) \/ Rollback(p)
  PROVE  RoutedInv'
<1> USE DEF TypeOK, Goto, local, wg
<1>1. CASE AddPeerFails(p)
  <2>1. req[p].rollback
    BY <1>1, HeldConcerns DEF AddPeerFails, AllRollBack, RegisterSteps
  <2>2. /\ OthersAside(p) /\ UNCHANGED <<devices, route, target, req, replacing>>
        /\ pc[p] = "addPeer" /\ pc'[p] = "rollback"
    BY <1>1, <2>1 DEF AddPeerFails, OthersAside, OthersUntouched
  <2>3. Proceeds(p)'
    BY <2>2 DEF RoutedInv, Proceeds, RegisterSteps, ReplaceSteps
  <2>4. QED
    BY <2>2, <2>3, RoutedQuiet DEF Coming
<1>2. CASE Rollback(p)
  <2>1. /\ OthersAside(p) /\ UNCHANGED route /\ pc[p] = "rollback" /\ pc'[p] = "idle"
    BY <1>2 DEF Rollback, Finish, OthersAside, OthersUntouched
  <2>2. target[p] \subseteq devices
    BY <2>1 DEF RoutedInv, Proceeds
  <2>3. devices' = devices \ target[p]
    BY <1>2, <2>2 DEF Rollback, RowsDistinct, Conflicting
  <2>4. \A d \in target[p] : Concerns(p, d)
    BY <2>1, HeldConcerns DEF RegisterSteps
  <2>5. SeparateRows'
    BY <2>3 DEF RoutedInv, SeparateRows, Concerns
  <2>6. Proceeds(p)'
    BY <2>1 DEF Proceeds, ReplaceSteps
  <2>7. \A q \in Procs : Proceeds(q)'
    BY <2>1, <2>3, <2>4, <2>5, <2>6, OthersProceed DEF RoutedInv
  <2>8. \A q \in Procs, d \in devices' : Coming(q, d) => Coming(q, d)'
    BY <2>1, <2>3 DEF Coming, OthersAside, OthersUntouched
  <2>9. \A d \in devices' : route'[d.ip] = d.key \/ \E q \in Procs : Coming(q, d)'
    BY <2>1, <2>3, <2>8 DEF RoutedInv, RowsRouted
  <2>10. QED
    BY <2>5, <2>7, <2>9 DEF RoutedInv, RowsRouted
<1>3. QED
  BY <1>1, <1>2

LEMMA RoutedStep ==
  ASSUME SeparateDevices, WireGuardFails => AllRollBack, AdminKinds = {}, ~RequestsCancelled,
         TypeOK, IsolationInv, RowsDistinct, RoutedInv, [Next]_vars
  PROVE  RoutedInv'
<1>1. CASE UNCHANGED vars
  BY <1>1 DEF vars, RoutedInv, RowsRouted, SeparateRows, Proceeds, Coming, Concerns,
     ByKey, ByName, UserDevices
<1>2. ASSUME NEW p \in Procs, Register(p) PROVE RoutedInv'
  <2>1. ASSUME Create(p) PROVE RoutedInv'
    <3>1. CASE Finish(p) /\ UNCHANGED devices
      BY <2>1, <3>1, RoutedRefused DEF Create, wg
    <3>2. CASE \E i \in FreshIds, a \in vpnIP[p] :
                  /\ devices' = devices \cup {NewRow(req[p], i, a)}
                  /\ target' = [target EXCEPT ![p] = {NewRow(req[p], i, a)}]
                  /\ Goto(p, IF replacing[p] # {} THEN "dropOldPeer" ELSE "addPeer")
                  /\ UNCHANGED <<req, existing, replacing, vpnIP, todo, victim>>
      BY <2>1, <3>2, RoutedInsert DEF Create, wg, Goto
    <3>3. QED
      BY <2>1, <3>1, <3>2 DEF Create
  <2>2. QED
    BY <1>2, <2>1, RoutedReads, RoutedDelete, RoutedDrop, RoutedAdd, RoutedBack
    DEF Register, Cancelled
<1>3. \A p \in Procs : ~Delete(p) /\ ~Sync(p)
  BY DEF RoutedInv, Proceeds, RegisterSteps, Delete, Sync, BeginDelete, Unpeer, Recheck, Erase,
     BeginSync, CheckPeer, RemoveOrphan, EndSync
<1>4. QED
  BY <1>1, <1>2, <1>3 DEF Next

LEMMA RoutedAlways ==
  ASSUME SeparateDevices, WireGuardFails => AllRollBack, AdminKinds = {}, ~RequestsCancelled
  PROVE  InitialProper /\ Spec => []RoutedInv
<1>1. Init => RoutedInv
  <2> SUFFICES ASSUME Init PROVE RoutedInv
    OBVIOUS
  <2>1. \A p \in Procs : Proceeds(p)
    BY DEF Init, Proceeds, RegisterSteps, ReplaceSteps
  <2>2. SeparateRows
    BY DEF Init, SeparateRows, SeparateDevices
  <2>3. \A d \in devices : route[d.ip] = d.key
    BY InitiallyRouted
  <2>4. QED
    BY <2>1, <2>2, <2>3 DEF RoutedInv, RowsRouted
<1>2. TypeOK /\ IsolationInv /\ RowsDistinct /\ RoutedInv /\ [Next]_vars => RoutedInv'
  BY RoutedStep
<1>3. QED
  BY <1>1, <1>2, TypeCorrect, IsolationHolds, RowsStayDistinct, PTL DEF Spec

\* Any number of handlers that work on separate devices leave every registered device
\* reachable at its address, whatever WireGuard calls fail, when the registrations that
\* fail are rolled back, no client hangs up and no administrator deletes.
THEOREM RoutedSeparately ==
  ASSUME SeparateDevices, WireGuardFails => AllRollBack, AdminKinds = {}, ~RequestsCancelled
  PROVE  InitialProper /\ Spec => []RegisteredDevicesRouted
<1>1. RoutedInv => RegisteredDevicesRouted
  BY DEF RoutedInv, RowsRouted, Coming, RegisteredDevicesRouted, AllIdle
<1>2. QED
  BY <1>1, RoutedAlways, PTL

-----------------------------------------------------------------------------
(***************************************************************************)
(* The mirror.  When nothing fails, an address routed to a key is routed   *)
(* as a row says, or to the old key of a device that is being replaced (a  *)
(* ghost), until the handler drops that peer.  A handler that deletes the  *)
(* old row and is then refused the new one leaves the ghost behind.  Only  *)
(* the address can make the refusal, since the name, the key and the       *)
(* hardware are the handler's own; and then the row that took the address  *)
(* has taken, or is about to take, the route with it.                      *)
(***************************************************************************)
RowHardware(r) == NewRow(r, 0, 0).hw

\* Devices of one user that go by two names are two pieces of hardware, by the ids their
\* rows really get: no two hosts have names that agree in their third part, and no user a
\* hyphen in the name that is the second.
HardwareNamed ==
    \A p \in Procs : \A r \in Registrations[p] :
       /\ \A q \in Procs : \A s \in Registrations[q] :
             r.user = s.user /\ RowHardware(r) = RowHardware(s) => r.name = s.name
       /\ \A d \in InitialDevices :
             d.user = r.user /\ d.hw = RowHardware(r) => d.name = r.name

HardwareRows ==
    \A d \in devices : \A p \in Procs : \A r \in Registrations[p] :
       d.user = r.user /\ d.hw = RowHardware(r) => d.name = r.name

Ghost(p, a, k) ==
    pc[p] \in {"create", "dropOldPeer"} /\ \E e \in replacing[p] : e.ip = a /\ e.key = k

\* An address routed to a key has a row, with that key or about to take it over, or a ghost.
Covered(a, k) ==
    \/ \E d \in devices : d.ip = a /\ (d.key = k \/ \E p \in Procs : Coming(p, d))
    \/ \E p \in Procs : Ghost(p, a, k)

MirrorInv ==
    /\ \A a \in Addresses : \A k \in Keys : route[a] = k => Covered(a, k)
    /\ HardwareRows
    /\ \A p \in Procs : pc[p] # "rollback"

\* The step of a handler on rows and routes that uncovers nothing: what is covered by it
\* and by the rows it removes is looked at by itself.
LEMMA StaysCovered ==
  ASSUME MirrorInv, NEW p \in Procs, OthersAside(p), NEW a \in Addresses, NEW k \in Keys,
         route[a] = k,
         \A d \in devices : d.ip = a /\ (d.key = k \/ \E q \in Procs : Coming(q, d))
            => Covered(a, k)',
         Ghost(p, a, k) => Covered(a, k)'
  PROVE  Covered(a, k)'
<1>1. \A q \in Procs \ {p} : Ghost(q, a, k) => Ghost(q, a, k)'
  BY DEF Ghost, OthersAside, OthersUntouched
<1>2. QED
  BY <1>1 DEF MirrorInv, Covered

\* A step of p that neither touches the rows nor the routes nor any ghost.
LEMMA MirrorQuiet ==
  ASSUME MirrorInv, NEW p \in Procs, OthersAside(p), UNCHANGED <<devices, route>>,
         pc'[p] # "rollback", \A d \in devices : Coming(p, d) => Coming(p, d)',
         \A a \in Addresses, k \in Keys :
            route[a] = k /\ Ghost(p, a, k) => Covered(a, k)'
  PROVE  MirrorInv'
<1>1. \A q \in Procs, d \in devices : Coming(q, d) => Coming(q, d)'
  BY DEF Coming, OthersAside, OthersUntouched
<1>2. ASSUME NEW a \in Addresses, NEW k \in Keys, route[a] = k PROVE Covered(a, k)'
  <2>1. \A d \in devices : d.ip = a /\ (d.key = k \/ \E q \in Procs : Coming(q, d))
            => Covered(a, k)'
    BY <1>1 DEF Covered
  <2>2. QED
    BY <1>2, <2>1, StaysCovered
<1>3. \A q \in Procs : pc'[q] # "rollback"
  BY DEF MirrorInv, OthersAside, OthersUntouched
<1>4. QED
  BY <1>2, <1>3 DEF MirrorInv, HardwareRows

\* From the first query to the choice of an address.
LEMMA MirrorReads ==
  ASSUME TypeOK, MirrorInv, NEW p \in Procs,
         \/ \E r \in Registrations[p] : BeginRegister(p, r)
         \/ BypassByName(p) \/ Match(p) \/ CheckKey(p) \/ CheckLimit(p) \/ PickAddress(p)
  PROVE  MirrorInv'
<1> USE DEF TypeOK, Goto, local, wg
<1>1. OthersAside(p) /\ UNCHANGED <<devices, route>> /\ pc'[p] # "rollback"
  BY DEF OthersAside, OthersUntouched, BeginRegister, BypassByName, Match, CheckKey, CheckLimit,
     PickAddress, Finish
<1>2. pc[p] \in {"idle", "match", "key", "limit", "address"}
  BY DEF BeginRegister, BypassByName, Match, CheckKey, CheckLimit, PickAddress
<1>3. QED
  BY <1>1, <1>2, MirrorQuiet DEF Coming, Ghost

\* The row replaced leaves the table, and its peer becomes a ghost.
LEMMA MirrorDelete ==
  ASSUME TypeOK, IsolationInv, RowsDistinct, RoutedInv, MirrorInv, NEW p \in Procs, DeleteOld(p)
  PROVE  MirrorInv'
<1>1. /\ OthersAside(p) /\ UNCHANGED <<route, req, existing, replacing, vpnIP, target>>
      /\ pc[p] = "deleteOld" /\ pc'[p] = "create"
      /\ devices' = devices \ replacing[p]
      /\ \A q \in Procs, d \in devices : Coming(q, d) => d \in devices' /\ Coming(q, d)'
  BY RoutedDelete
<1>2. ASSUME NEW a \in Addresses, NEW k \in Keys, route[a] = k PROVE Covered(a, k)'
  <2>1. ASSUME NEW d \in devices, d.ip = a, d.key = k PROVE Covered(a, k)'
    BY <1>1, <2>1 DEF Covered, Ghost
  <2>2. ASSUME NEW d \in devices, d.ip = a, NEW q \in Procs, Coming(q, d) PROVE Covered(a, k)'
    BY <1>1, <2>2 DEF Covered
  <2>3. ~Ghost(p, a, k)
    BY <1>1 DEF Ghost
  <2>4. QED
    BY <1>1, <1>2, <2>1, <2>2, <2>3, StaysCovered
<1>3. \A q \in Procs : pc'[q] # "rollback"
  BY <1>1 DEF MirrorInv, OthersAside, OthersUntouched
<1>4. HardwareRows'
  BY <1>1 DEF MirrorInv, HardwareRows
<1>5. QED
  BY <1>1, <1>2, <1>3, <1>4 DEF MirrorInv

\* A refused insert that had deleted a row first: the row that took its address covers
\* the ghost.
LEMMA MirrorRefused ==
  ASSUME TypeOK, IsolationInv, RoutedInv, MirrorInv,
         NEW p \in Procs, pc[p] = "create", NEW i \in FreshIds, NEW a \in vpnIP[p],
         NEW f \in devices, Conflicting(NewRow(req[p], i, a), f),
         Finish(p), UNCHANGED <<devices, route>>
  PROVE  MirrorInv'
<1> USE DEF TypeOK
<1>1. /\ OthersAside(p) /\ pc'[p] = "idle" /\ \A d \in devices : ~Coming(p, d)
  BY DEF Finish, OthersAside, OthersUntouched, Coming
<1>2. ASSUME NEW b \in Addresses, NEW k \in Keys, route[b] = k, Ghost(p, b, k)
      PROVE  Covered(b, k)'
  <2>1. PICK e \in replacing[p] : e.ip = b /\ e.key = k
    BY <1>2 DEF Ghost
  <2>2. /\ vpnIP[p] = {d.ip : d \in replacing[p]}
        /\ \A d \in replacing[p] : d = e
        /\ ByKey(e.key) = {} /\ ByKey(req[p].key) = {}
        /\ ByName(req[p].user, req[p].name) = {}
    BY <2>1 DEF RoutedInv, Proceeds, ReplaceSteps
  <2>3. a = e.ip /\ Conflicting(NewRow(req[p], i, a), f)
    BY <2>2
  <2>4. f.ip = e.ip
    <3>1. f.id # i
      BY <2>3 DEF FreshIds
    <3>2. f.key # req[p].key /\ ~(f.user = req[p].user /\ f.name = req[p].name)
      BY <2>2 DEF ByKey, ByName, UserDevices
    <3>3. ~(f.user = req[p].user /\ f.hw = NewRow(req[p], i, a).hw)
      <4>1. NewRow(req[p], i, a).hw = RowHardware(req[p])
        BY DEF NewRow, RowHardware
      <4>2. req[p] \in Registrations[p]
        BY HeldConcerns DEF RegisterSteps
      <4>3. QED
        BY <3>2, <4>1, <4>2 DEF MirrorInv, HardwareRows
    <3>4. QED
      BY <2>3, <3>1, <3>2, <3>3 DEF Conflicting, NewRow
  <2>5. route[f.ip] = f.key \/ \E q \in Procs \ {p} : Coming(q, f)
    BY <1>1 DEF RoutedInv, RowsRouted
  <2>6. CASE \E q \in Procs \ {p} : Coming(q, f)
    <3>1. \E q \in Procs : Coming(q, f)'
      BY <1>1, <2>6 DEF Coming, OthersAside, OthersUntouched
    <3>2. QED
      BY <2>1, <2>4, <3>1 DEF Covered
  <2>7. route[f.ip] # f.key
    BY <1>2, <2>1, <2>2, <2>4 DEF ByKey
  <2>8. QED
    BY <2>5, <2>6, <2>7
<1>3. QED
  BY <1>1, <1>2, MirrorQuiet

\* The new row is in, its peer still to be configured.
LEMMA MirrorInsert ==
  ASSUME TypeOK, IsolationInv, MirrorInv, HardwareNamed,
         NEW p \in Procs, pc[p] = "create", NEW i \in FreshIds, NEW a \in vpnIP[p],
         devices' = devices \cup {NewRow(req[p], i, a)},
         target' = [target EXCEPT ![p] = {NewRow(req[p], i, a)}],
         pc' = [pc EXCEPT ![p] = IF replacing[p] # {} THEN "dropOldPeer" ELSE "addPeer"],
         UNCHANGED <<route, req, existing, replacing, vpnIP>>
  PROVE  MirrorInv'
<1> USE DEF TypeOK
<1> DEFINE row == NewRow(req[p], i, a)
<1>1. OthersAside(p)
  BY DEF OthersAside, OthersUntouched
<1>2. /\ row.user = req[p].user /\ row.name = req[p].name
      /\ row.hw = RowHardware(req[p]) /\ req[p] \in Registrations[p]
  BY HeldConcerns DEF NewRow, RowHardware, RegisterSteps
<1>3. devices' = devices \cup {row}
  OBVIOUS
<1> HIDE DEF row
<1>4. HardwareRows'
  <2>1. \A q \in Procs : \A r \in Registrations[q] :
           row.user = r.user /\ row.hw = RowHardware(r) => row.name = r.name
    BY <1>2 DEF HardwareNamed
  <2>2. QED
    BY <1>3, <2>1 DEF MirrorInv, HardwareRows
<1>5. \A q \in Procs, d \in devices : Coming(q, d) => Coming(q, d)'
  BY <1>1 DEF Coming, OthersAside, OthersUntouched
<1>6. \A b \in Addresses, k \in Keys : Ghost(p, b, k) => Ghost(p, b, k)'
  BY DEF Ghost
<1>7. ASSUME NEW b \in Addresses, NEW k \in Keys, route[b] = k PROVE Covered(b, k)'
  <2>1. \A d \in devices : d.ip = b /\ (d.key = k \/ \E q \in Procs : Coming(q, d))
            => Covered(b, k)'
    BY <1>3, <1>5 DEF Covered
  <2>2. Ghost(p, b, k) => Covered(b, k)'
    BY <1>6 DEF Covered
  <2>3. QED
    BY <1>1, <1>7, <2>1, <2>2, StaysCovered
<1>8. \A q \in Procs : pc'[q] # "rollback"
  BY DEF MirrorInv
<1>9. QED
  BY <1>4, <1>7, <1>8 DEF MirrorInv

\* The ghost goes.
LEMMA MirrorDrop ==
  ASSUME TypeOK, IsolationInv, RoutedInv, MirrorInv, ~WireGuardFails,
         NEW p \in Procs, DropOldPeer(p)
  PROVE  MirrorInv'
<1> USE DEF TypeOK
<1>1. /\ OthersAside(p) /\ UNCHANGED <<devices, req, existing, replacing, vpnIP, target>>
      /\ pc[p] = "dropOldPeer" /\ pc'[p] = "addPeer"
  BY RoutedDrop
<1>2. PICK e \in replacing[p] : WgRemove(e.key)
  BY DEF DropOldPeer, TryRemovePeer
<1>3. \A d \in replacing[p] : d = e
  BY <1>1 DEF RoutedInv, Proceeds, ReplaceSteps
<1>4. \A q \in Procs, d \in devices : Coming(q, d) => Coming(q, d)'
  BY <1>1 DEF Coming, OthersAside, OthersUntouched
<1>5. e.key \in Keys
  BY DEF Device
<1>6. ASSUME NEW b \in Addresses, NEW k \in Keys, route'[b] = k PROVE Covered(b, k)'
  <2>1. route[b] = k /\ k # e.key
    BY <1>2, <1>5, <1>6, RegistryAssumption DEF WgRemove, RegistryAssumption
  <2>2. \A d \in devices : d.ip = b /\ (d.key = k \/ \E q \in Procs : Coming(q, d))
            => Covered(b, k)'
    BY <1>1, <1>4 DEF Covered
  <2>3. ~Ghost(p, b, k)
    BY <1>3, <2>1 DEF Ghost
  <2>4. QED
    BY <1>1, <2>1, <2>2, <2>3, StaysCovered
<1>7. \A q \in Procs : pc'[q] # "rollback"
  BY <1>1 DEF MirrorInv, OthersAside, OthersUntouched
<1>8. QED
  BY <1>1, <1>6, <1>7 DEF MirrorInv, HardwareRows

\* The new peer covers its own address, and no other is routed to it any more.
LEMMA MirrorAdd ==
  ASSUME TypeOK, RoutedInv, MirrorInv, NEW p \in Procs, AddPeer(p)
  PROVE  MirrorInv'
<1> USE DEF TypeOK
<1>1. /\ OthersAside(p) /\ devices' = devices /\ pc[p] = "addPeer" /\ pc'[p] = "idle"
  BY DEF AddPeer, Finish, OthersAside, OthersUntouched
<1>2. PICK e \in target[p] : WgAdd(e.key, e.ip)
  BY DEF AddPeer
<1>3. e \in devices /\ (\A d \in target[p] : d = e) /\ e.ip \in Addresses
  BY <1>1, <1>2 DEF RoutedInv, Proceeds, Device
<1>4. \A q \in Procs, d \in devices : d # e /\ Coming(q, d) => Coming(q, d)'
  BY <1>1, <1>3 DEF Coming, OthersAside, OthersUntouched
<1>5. ASSUME NEW b \in Addresses, NEW k \in Keys, route'[b] = k PROVE Covered(b, k)'
  <2>1. CASE b = e.ip
    <3>1. e.key = k
      BY <1>2, <1>3, <1>5, <2>1 DEF WgAdd
    <3>2. QED
      BY <1>1, <1>3, <2>1, <3>1 DEF Covered
  <2>2. CASE b # e.ip
    <3>1. route[b] = k
      BY <1>2, <1>5, <2>2, RegistryAssumption DEF WgAdd, RegistryAssumption
    <3>2. \A d \in devices : d.ip = b /\ (d.key = k \/ \E q \in Procs : Coming(q, d))
              => Covered(b, k)'
      BY <1>1, <1>4, <2>2 DEF Covered
    <3>3. ~Ghost(p, b, k)
      BY <1>1 DEF Ghost
    <3>4. QED
      BY <1>1, <3>1, <3>2, <3>3, StaysCovered
  <2>3. QED
    BY <2>1, <2>2
<1>6. \A q \in Procs : pc'[q] # "rollback"
  BY <1>1 DEF MirrorInv, OthersAside, OthersUntouched
<1>7. QED
  BY <1>1, <1>5, <1>6 DEF MirrorInv, HardwareRows

LEMMA MirrorStep ==
  ASSUME HardwareNamed, AdminKinds = {}, ~WireGuardFails, ~RequestsCancelled,
         TypeOK, IsolationInv, RowsDistinct, RoutedInv, MirrorInv, [Next]_vars
  PROVE  MirrorInv'
<1>1. CASE UNCHANGED vars
  BY <1>1 DEF vars, MirrorInv, Covered, HardwareRows, Coming, Ghost
<1>2. ASSUME NEW p \in Procs, Register(p) PROVE MirrorInv'
  <2>1. ~AddPeerFails(p) /\ ~Rollback(p) /\ ~Cancelled(p)
    BY DEF MirrorInv, AddPeerFails, Rollback, Cancelled
  <2>2. ASSUME Create(p) PROVE MirrorInv'
    <3>1. CASE \E i \in FreshIds, a \in vpnIP[p], f \in devices :
                  Conflicting(NewRow(req[p], i, a), f) /\ Finish(p) /\ UNCHANGED devices
      BY <2>2, <3>1, MirrorRefused DEF Create, wg
    <3>2. CASE \E i \in FreshIds, a \in vpnIP[p] :
                  /\ devices' = devices \cup {NewRow(req[p], i, a)}
                  /\ target' = [target EXCEPT ![p] = {NewRow(req[p], i, a)}]
                  /\ Goto(p, IF replacing[p] # {} THEN "dropOldPeer" ELSE "addPeer")
                  /\ UNCHANGED <<req, existing, replacing, vpnIP, todo, victim>>
      BY <2>2, <3>2, MirrorInsert DEF Create, wg, Goto
    <3>3. QED
      BY <2>2, <3>1, <3>2 DEF Create
  <2>3. QED
    BY <1>2, <2>1, <2>2, MirrorReads, MirrorDelete, MirrorDrop, MirrorAdd DEF Register
<1>3. \A p \in Procs : ~Delete(p) /\ ~Sync(p)
  BY DEF RoutedInv, Proceeds, RegisterSteps, Delete, Sync, BeginDelete, Unpeer, Recheck, Erase,
     BeginSync, CheckPeer, RemoveOrphan, EndSync
<1>4. QED
  BY <1>1, <1>2, <1>3 DEF Next

\* Any number of handlers that work on separate devices leave the addresses routed
\* exactly as the rows say, replaced devices and refused inserts included, when no
\* WireGuard call fails, no client hangs up and no administrator deletes.
THEOREM MirrorKept ==
  ASSUME SeparateDevices, HardwareNamed, AdminKinds = {}, ~WireGuardFails, ~RequestsCancelled
  PROVE  InitialProper /\ Spec => []MirrorWhenIdle
<1>1. Init => MirrorInv
  <2> SUFFICES ASSUME Init PROVE MirrorInv
    OBVIOUS
  <2>1. HardwareRows /\ \A p \in Procs : pc[p] # "rollback"
    BY DEF Init, HardwareRows, HardwareNamed
  <2>2. ASSUME NEW a \in Addresses, NEW k \in Keys, route[a] = k PROVE Covered(a, k)
    <3>1. PICK d \in devices : d.ip = a
      BY <2>2, RegistryAssumption DEF Init, RegistryAssumption
    <3>2. route[d.ip] = d.key
      BY InitiallyRouted
    <3>3. QED
      BY <2>2, <3>1, <3>2 DEF Covered
  <2>3. QED
    BY <2>1, <2>2 DEF MirrorInv
<1>2. TypeOK /\ IsolationInv /\ RowsDistinct /\ RoutedInv /\ MirrorInv /\ [Next]_vars
        => MirrorInv'
  BY MirrorStep
<1>3. TypeOK /\ RoutedInv /\ MirrorInv => MirrorWhenIdle
  <2> SUFFICES ASSUME TypeOK, RoutedInv, MirrorInv, AllIdle,
                      NEW a \in Addresses, NEW k \in Keys
               PROVE  route[a] = k <=> \E d \in devices : d.ip = a /\ d.key = k
    BY DEF MirrorWhenIdle
  <2>1. \A p \in Procs : \A d : ~Coming(p, d) /\ ~Ghost(p, a, k)
    BY DEF AllIdle, Coming, Ghost
  <2>2. QED
    BY <2>1 DEF RoutedInv, RowsRouted, MirrorInv, Covered
<1>4. QED
  BY <1>1, <1>2, <1>3, RoutedAlways, TypeCorrect, IsolationHolds, RowsStayDistinct, PTL DEF Spec

-----------------------------------------------------------------------------
(***************************************************************************)
(* Usable addresses.  GetNextAvailableIP may return addresses no host may  *)
(* have (Hosts has the broadcast address, the highest).  It takes the      *)
(* lowest, so what keeps it from them is that a handler that picks an      *)
(* address finds a usable one free.  The names occupied by anybody but     *)
(* that handler bound the rows it finds: fewer than the limit when it      *)
(* passed, and one more for every other handler at most.                   *)
(***************************************************************************)
Beside(p, u) ==
    RowNames(u) \cup NamesIn(req, {q \in Procs \ {p} : Committed(q) /\ req[q].user = u})

RoomInv ==
    \A p \in Procs : pc[p] = "address" =>
        Cardinality(Beside(p, req[p].user)) <= MaxDevices[req[p].user] + Cardinality(Procs) - 2

\* The usable addresses U come first and suffice for the devices and the handlers that
\* may overshoot the limit.
Suffices(U) ==
    /\ U \in [Users -> SUBSET Nat]
    /\ \A u \in Users :
          /\ IsFiniteSet(U[u])
          /\ \A a \in U[u], b \in Hosts[u] \ U[u] : a < b
          /\ U[u] \subseteq Hosts[u]
          /\ MaxDevices[u] + Cardinality(Procs) - 1 <= Cardinality(U[u])
    /\ \A d \in InitialDevices : d.ip \in U[d.user]

\* The rows, those read to be replaced, and the addresses chosen are usable.
UsableInv(U) ==
    /\ \A d \in devices : d.ip \in U[d.user]
    /\ \A p \in Procs :
          /\ \A d \in existing[p] \cup replacing[p] : d.ip \in U[d.user]
          /\ pc[p] \in RegisterSteps => \A a \in vpnIP[p] : a \in U[req[p].user]

LEMMA BesideFinite ==
  ASSUME TypeOK, RowsDistinct, NEW p \in Procs, NEW u \in Users
  PROVE  IsFiniteSet(Beside(p, u)) /\ Cardinality(Beside(p, u)) \in Nat
<1> DEFINE S == {q \in Procs \ {p} : Committed(q) /\ req[q].user = u}
<1>1. IsFiniteSet(NamesIn(req, S))
  <2> HIDE DEF S
  <2>1. S \in SUBSET Procs
    BY DEF S
  <2>2. QED
    BY <2>1, CommittedFacts
<1>2. IsFiniteSet(Beside(p, u))
  BY <1>1, RowsFacts, FS_Union DEF Beside
<1>3. QED
  BY <1>2, FS_CardinalityType

\* Who finds a user below the limit is followed by one name for each other handler.
LEMMA RoomBelowLimit ==
  ASSUME NEW p \in Procs, NEW S \in SUBSET (Procs \ {p}), NEW r,
         NEW R, IsFiniteSet(R), NEW n \in Nat, Cardinality(R) < n
  PROVE  Cardinality(R \cup NamesIn(r, S)) <= n + Cardinality(Procs) - 2
<1> DEFINE C == NamesIn(r, S)
           f == [q \in S |-> r[q].name]
<1>1. IsFiniteSet(Procs \ {p}) /\ Cardinality(Procs \ {p}) = Cardinality(Procs) - 1
  BY FS_RemoveElement, RegistryAssumption DEF RegistryAssumption
<1>2. IsFiniteSet(S) /\ Cardinality(S) <= Cardinality(Procs) - 1
  BY <1>1, FS_Subset
<1>3. f \in Surjection(S, C)
  BY DEF Surjection, NamesIn
<1>4. IsFiniteSet(C) /\ Cardinality(C) <= Cardinality(S)
  BY <1>2, <1>3, FS_Surjection
<1>5. Cardinality(R \cup C) = Cardinality(R) + Cardinality(C) - Cardinality(R \cap C)
  BY <1>4, FS_Union
<1>6. /\ Cardinality(R) \in Nat /\ Cardinality(C) \in Nat /\ Cardinality(R \cap C) \in Nat
      /\ Cardinality(S) \in Nat /\ Cardinality(Procs) \in Nat
  BY <1>2, <1>4, FS_Subset, FS_CardinalityType, RegistryAssumption DEF RegistryAssumption
<1> HIDE DEF C
<1>7. Cardinality(R \cup C) <= n + Cardinality(Procs) - 2
  BY <1>2, <1>4, <1>5, <1>6
<1>8. QED
  BY <1>7 DEF C

\* A modest step of another handler occupies no name that is not occupied.
LEMMA BesideModest ==
  ASSUME NEW p \in Procs, NEW q \in Procs \ {p}, Modest(q), NEW u \in Users
  PROVE  Beside(p, u)' \subseteq Beside(p, u)
<1>1. ASSUME NEW d \in devices', d.user = u PROVE d.name \in Beside(p, u)
  BY <1>1 DEF Modest, Beside, RowNames, UserDevices, NamesIn
<1>2. ASSUME NEW r \in Procs \ {p}, Committed(r)', req'[r].user = u
      PROVE  req'[r].name \in Beside(p, u)
  <2>1. CASE r = q
    BY <1>2, <2>1 DEF Modest, Beside, RowNames, UserDevices, NamesIn
  <2>2. CASE r # q
    <3>1. Committed(r) /\ req[r] = req'[r]
      BY <1>2, <2>2 DEF Modest, OthersUntouched, Committed
    <3>2. QED
      BY <1>2, <3>1 DEF Beside, NamesIn
  <2>3. QED
    BY <2>1, <2>2
<1>3. QED
  BY <1>1, <1>2 DEF Beside, RowNames, UserDevices, NamesIn

LEMMA RoomStep ==
  ASSUME TypeOK, TypeOK', IsolationInv, RowsDistinct, RowsDistinct', RoomInv, [Next]_vars
  PROVE  RoomInv'
<1> SUFFICES ASSUME NEW p \in Procs, pc'[p] = "address"
             PROVE  Cardinality(Beside(p, req[p].user)')
                      <= MaxDevices[req'[p].user] + Cardinality(Procs) - 2
  BY DEF RoomInv
<1>1. req[p].user \in Users /\ req'[p].user \in Users
  BY DEF TypeOK, RegisterRequest
<1>2. ASSUME req'[p] = req[p], pc[p] = "address",
             Beside(p, req[p].user)' \subseteq Beside(p, req[p].user)
      PROVE  Cardinality(Beside(p, req[p].user)')
               <= MaxDevices[req'[p].user] + Cardinality(Procs) - 2
  <2>1. Cardinality(Beside(p, req[p].user)') <= Cardinality(Beside(p, req[p].user))
    BY <1>1, <1>2, BesideFinite, FS_Subset
  <2>2. /\ Cardinality(Beside(p, req[p].user)') \in Nat
        /\ Cardinality(Beside(p, req[p].user)) \in Nat
        /\ Cardinality(Procs) \in Nat /\ MaxDevices[req[p].user] \in Nat
    BY <1>1, <1>2, BesideFinite, FS_Subset, FS_CardinalityType, RegistryAssumption
    DEF RegistryAssumption
  <2>3. QED
    BY <1>2, <2>1, <2>2 DEF RoomInv
<1>3. CASE UNCHANGED vars
  <2>1. Beside(p, req[p].user)' = Beside(p, req[p].user)
    BY <1>3 DEF vars, Beside, RowNames, UserDevices, NamesIn, Committed
  <2>2. QED
    BY <1>2, <1>3, <2>1 DEF vars
<1>4. ASSUME NEW q \in Procs, Modest(q)
      PROVE  Cardinality(Beside(p, req[p].user)')
               <= MaxDevices[req'[p].user] + Cardinality(Procs) - 2
  <2>1. q # p /\ req'[p] = req[p] /\ pc[p] = "address"
    BY <1>4 DEF Modest, OthersUntouched
  <2>2. Beside(p, req[p].user)' \subseteq Beside(p, req[p].user)
    BY <1>1, <1>4, <2>1, BesideModest DEF Beside
  <2>3. QED
    BY <1>2, <2>1, <2>2
<1>5. ASSUME NEW q \in Procs, Passing(q)
      PROVE  Cardinality(Beside(p, req[p].user)')
               <= MaxDevices[req'[p].user] + Cardinality(Procs) - 2
  <2>1. devices' = devices /\ req' = req
    BY <1>5 DEF Passing
  <2>2. CASE req[q].user = req[p].user
    <3> DEFINE u == req[p].user
               S == {r \in Procs \ {p} : Committed(r)' /\ req'[r].user = u}
    <3>1. /\ IsFiniteSet(RowNames(u)) /\ MaxDevices[u] \in Nat
          /\ Cardinality(RowNames(u)) < MaxDevices[u]
      BY <1>1, <1>5, <2>2, RowsFacts, RegistryAssumption DEF Passing, RegistryAssumption
    <3>2. Beside(p, req[p].user)' = RowNames(u) \cup NamesIn(req', S)
      BY <2>1 DEF Beside, RowNames, UserDevices
    <3> HIDE DEF S
    <3>3. S \in SUBSET (Procs \ {p})
      BY DEF S
    <3>4. Cardinality(RowNames(u) \cup NamesIn(req', S)) <= MaxDevices[u] + Cardinality(Procs) - 2
      BY <3>1, <3>3, RoomBelowLimit
    <3>5. QED
      BY <2>1, <3>2, <3>4
  <2>3. CASE req[q].user # req[p].user
    <3>1. q # p /\ pc[p] = "address"
      BY <1>5, <2>3 DEF Passing, OthersUntouched
    <3>2. Beside(p, req[p].user)' \subseteq Beside(p, req[p].user)
      BY <1>5, <2>1, <2>3 DEF Passing, OthersUntouched, Beside, RowNames, UserDevices,
         NamesIn, Committed
    <3>3. QED
      BY <1>2, <2>1, <3>1, <3>2
  <2>4. QED
    BY <2>2, <2>3
<1>6. QED
  BY <1>3, <1>4, <1>5, ModestOrPassing

\* With room left among the usable addresses, the lowest free one is usable.
LEMMA LowestUsable ==
  ASSUME NEW U, Suffices(U), TypeOK, RowsDistinct, RoomInv,
         NEW p \in Procs, pc[p] = "address",
         NEW a \in Hosts[req[p].user] \ {d.ip : d \in UserDevices(req[p].user)},
         \A b \in Hosts[req[p].user] \ {d.ip : d \in UserDevices(req[p].user)} : a <= b
  PROVE  a \in U[req[p].user]
<1> DEFINE u == req[p].user
           T == {d.ip : d \in UserDevices(u)}
           f == [d \in UserDevices(u) |-> d.ip]
<1>1. u \in Users
  BY DEF TypeOK, RegisterRequest
<1>2. /\ IsFiniteSet(U[u]) /\ U[u] \subseteq Hosts[u] /\ U[u] \subseteq Nat
      /\ \A x \in U[u], b \in Hosts[u] \ U[u] : x < b
      /\ MaxDevices[u] + Cardinality(Procs) - 1 <= Cardinality(U[u])
  BY <1>1 DEF Suffices
<1>3. Cardinality(UserDevices(u)) <= MaxDevices[u] + Cardinality(Procs) - 2
  <2>1. /\ IsFiniteSet(Beside(p, u)) /\ RowNames(u) \subseteq Beside(p, u)
        /\ Cardinality(RowNames(u)) = Cardinality(UserDevices(u))
    BY <1>1, BesideFinite, RowsFacts DEF Beside
  <2>2. Cardinality(UserDevices(u)) <= Cardinality(Beside(p, u))
    BY <2>1, FS_Subset
  <2>3. /\ Cardinality(UserDevices(u)) \in Nat /\ Cardinality(Beside(p, u)) \in Nat
        /\ Cardinality(Procs) \in Nat /\ MaxDevices[u] \in Nat
    BY <1>1, <2>1, RowsFacts, FS_CardinalityType, RegistryAssumption DEF RegistryAssumption
  <2>4. QED
    BY <2>2, <2>3 DEF RoomInv
<1>4. IsFiniteSet(T) /\ Cardinality(T) <= Cardinality(UserDevices(u))
  <2>1. f \in Surjection(UserDevices(u), T)
    BY DEF Surjection
  <2>2. QED
    BY <1>1, <2>1, RowsFacts, FS_Surjection
<1>5. Cardinality(T) < Cardinality(U[u])
  <2>1. /\ Cardinality(T) \in Nat /\ Cardinality(U[u]) \in Nat
        /\ Cardinality(UserDevices(u)) \in Nat
        /\ Cardinality(Procs) \in Nat /\ MaxDevices[u] \in Nat
    BY <1>1, <1>2, <1>4, RowsFacts, FS_CardinalityType, RegistryAssumption
    DEF RegistryAssumption
  <2> HIDE DEF T, u
  <2>2. QED
    BY <1>2, <1>3, <1>4, <2>1
<1>6. PICK b \in U[u] : b \notin T
  <2>1. ~(U[u] \subseteq T)
    <3>1. ASSUME U[u] \subseteq T PROVE FALSE
      <4>1. Cardinality(U[u]) <= Cardinality(T)
        BY <1>4, <3>1, FS_Subset
      <4>2. Cardinality(T) \in Nat /\ Cardinality(U[u]) \in Nat
        BY <1>2, <1>4, FS_CardinalityType
      <4> HIDE DEF T, u
      <4>3. QED
        BY <1>5, <4>1, <4>2
    <3>2. QED
      BY <3>1
  <2>2. QED
    BY <2>1
<1>7. a <= b /\ a \in Nat /\ b \in Nat
  BY <1>1, <1>2, <1>6, RegistryAssumption DEF RegistryAssumption
<1>8. QED
  BY <1>2, <1>6, <1>7

LEMMA FinishUsable ==
  ASSUME NEW U, TypeOK, UsableInv(U), NEW p \in Procs, Finish(p), devices' \subseteq devices
  PROVE  UsableInv(U)'
  BY DEF TypeOK, UsableInv, Finish, RegisterSteps

LEMMA UsableStep ==
  ASSUME NEW U, Suffices(U), TypeOK, IsolationInv, RowsDistinct, RoomInv, UsableInv(U),
         [Next]_vars
  PROVE  UsableInv(U)'
<1> USE DEF TypeOK, Goto, local, wg, UsableInv, RegisterSteps
<1>1. ASSUME NEW p \in Procs, NEW r \in Registrations[p], BeginRegister(p, r)
      PROVE  UsableInv(U)'
  <2>1. vpnIP[p] = {}
    BY <1>1 DEF BeginRegister, IsolationInv, HeldProper
  <2>2. QED
    BY <1>1, <2>1 DEF BeginRegister, ByName, UserDevices
<1>2. ASSUME NEW p \in Procs, BypassByName(p) \/ DeleteOld(p) \/ DropOldPeer(p)
      PROVE  UsableInv(U)'
  BY <1>2 DEF BypassByName, DeleteOld, DropOldPeer
<1>3. ASSUME NEW p \in Procs, Match(p) PROVE UsableInv(U)'
  BY <1>3 DEF Match, UserDevices
<1>4. ASSUME NEW p \in Procs, CheckKey(p) PROVE UsableInv(U)'
  BY <1>4, FinishUsable DEF CheckKey
<1>5. ASSUME NEW p \in Procs, CheckLimit(p) PROVE UsableInv(U)'
  <2>1. \A d \in replacing[p] : d.user = req[p].user
    BY <1>5 DEF CheckLimit, IsolationInv, HeldProper
  <2>2. QED
    BY <1>5, <2>1, FinishUsable DEF CheckLimit
<1>6. ASSUME NEW p \in Procs, PickAddress(p) PROVE UsableInv(U)'
  <2>1. CASE Finish(p) /\ devices' = devices
    BY <2>1, FinishUsable
  <2>2. ASSUME NEW a \in Hosts[req[p].user] \ {d.ip : d \in UserDevices(req[p].user)},
               \A b \in Hosts[req[p].user] \ {d.ip : d \in UserDevices(req[p].user)} : a <= b,
               vpnIP' = [vpnIP EXCEPT ![p] = {a}], Goto(p, "create"),
               UNCHANGED <<devices, req, existing, replacing>>
        PROVE  UsableInv(U)'
    <3>1. a \in U[req[p].user]
      BY <1>6, <2>2, LowestUsable DEF PickAddress
    <3>2. QED
      BY <1>6, <2>2, <3>1 DEF PickAddress
  <2>3. QED
    BY <1>6, <2>1, <2>2 DEF PickAddress
<1>7. ASSUME NEW p \in Procs, Create(p) PROVE UsableInv(U)'
  <2>1. CASE Finish(p) /\ devices' = devices
    BY <2>1, FinishUsable
  <2>2. ASSUME NEW i, NEW a \in vpnIP[p],
               devices' = devices \cup {NewRow(req[p], i, a)},
               UNCHANGED <<req, existing, replacing, vpnIP>>
        PROVE  UsableInv(U)'
    <3>1. NewRow(req[p], i, a).ip = a /\ NewRow(req[p], i, a).user = req[p].user
      BY DEF NewRow
    <3>2. a \in U[req[p].user]
      BY <1>7, <2>2 DEF Create
    <3>3. \A d \in devices' : d.ip \in U[d.user]
      BY <2>2, <3>1, <3>2
    <3>4. \A q \in Procs : pc'[q] \in RegisterSteps => pc[q] \in RegisterSteps
      BY <1>7 DEF Create, Finish
    <3>5. QED
      BY <2>2, <3>3, <3>4
  <2>3. QED
    BY <1>7, <2>1, <2>2 DEF Create
<1>8. ASSUME NEW p \in Procs,
             \/ AddPeer(p) \/ Rollback(p) \/ Cancelled(p) \/ Erase(p) \/ EndSync(p)
      PROVE  UsableInv(U)'
  <2>1. Finish(p) /\ devices' \subseteq devices
    BY <1>8 DEF AddPeer, Rollback, Cancelled, Erase, EndSync
  <2>2. QED
    BY <2>1, FinishUsable
<1>9. ASSUME NEW p \in Procs, AddPeerFails(p) \/ Recheck(p) PROVE UsableInv(U)'
  BY <1>9, FinishUsable DEF AddPeerFails, Recheck
<1>10. ASSUME NEW p \in Procs, NEW kind \in AdminKinds, BeginDelete(p, kind)
       PROVE  UsableInv(U)'
  BY <1>10 DEF BeginDelete
<1>11. ASSUME NEW p \in Procs, Unpeer(p) \/ BeginSync(p) \/ RemoveOrphan(p)
       PROVE  UsableInv(U)'
  BY <1>11 DEF Unpeer, BeginSync, RemoveOrphan
<1>12. ASSUME NEW p \in Procs, NEW k \in Keys, CheckPeer(p, k) PROVE UsableInv(U)'
  BY <1>12 DEF CheckPeer
<1>13. CASE UNCHANGED vars
  BY <1>13 DEF vars
<1>14. QED
  BY <1>1, <1>2, <1>3, <1>4, <1>5, <1>6, <1>7, <1>8, <1>9, <1>10, <1>11, <1>12, <1>13
  DEF Next, Register, Delete, Sync

\* As long as a user's limit leaves a usable address for every handler beyond the first,
\* no device is given an address no host may have, although GetNextAvailableIP may return
\* one.  The default configuration (five devices, five usable addresses in a /29) has room
\* for one handler; two give the last device the broadcast address.
THEOREM UsableAddressesSuffice ==
  ASSUME NEW U, Suffices(U)
  PROVE  InitialProper /\ Spec => [](\A d \in devices : d.ip \in U[d.user])
<1>1. Init => RoomInv /\ UsableInv(U)
  BY DEF Init, RoomInv, UsableInv, Suffices, RegisterSteps
<1>2. TypeOK /\ TypeOK' /\ IsolationInv /\ RowsDistinct /\ RowsDistinct' /\ RoomInv
        /\ UsableInv(U) /\ [Next]_vars
        => RoomInv' /\ UsableInv(U)'
  BY RoomStep, UsableStep
<1>3. UsableInv(U) => \A d \in devices : d.ip \in U[d.user]
  BY DEF UsableInv
<1>4. QED
  BY <1>1, <1>2, <1>3, TypeCorrect, RowsStayDistinct, IsolationHolds, PTL DEF Spec

=============================================================================
