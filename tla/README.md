# Roamie: a TLA+ model of the server and its clients

Roamie builds private WireGuard networks.  The server keeps accounts, devices and
login attempts in Postgres, mirrors the devices as peers of a WireGuard interface,
and runs an SSH server through which devices behind NAT can be reached.  A machine
runs the `roamie` command and a daemon.  This directory models the parts whose
correctness depends on the order in which handlers, daemons, clocks and users act,
checks them with TLC on small instances, and proves the main safety properties with
TLAPS for every instance.

No handler of the server opens a database transaction.  That one fact shapes all
modules: **every call of a repository, and every call of wgctrl, is a step of its
own**, and the steps of different handlers interleave; what keeps the tables
consistent is the UNIQUE constraints, the `WHERE` of an update, and luck.

## 1. Inventory

| component | state | operations | hard behaviours | what makes it correct |
|---|---|---|---|---|
| Device registry (`device_service.go`, `wireguard_helper.go`, `devices.go`, `admin.go`) | rows of `devices`, peers and allowed-ips of the interface | register, replace, revive, delete, rollback, sync-peers | check-then-act on the device limit and on addresses, delete-then-insert, rows and peers changed in separate calls that may fail | device limit, tenant isolation, rows and peers agree, only rightful rows are removed |
| Device authorization (`device_auth_service.go`, `device_auth.go`, `login.go`) | challenges, refresh tokens | request, poll, approve, deny, expire, admin approve-device, delete with cascade | two deciders, a poll between approval and registration, deletion during a poll, ids generated on both sides | one verdict, everything belongs to the approver |
| Daemon login check (`refresh.go`) | the login in the configuration file | hourly validation with retries, renewal of the JWT, local clean-up, logout | grace period, a 404 that is not a deletion, a write-back of a stale login | cleans up when the device is gone or never came, and only then |
| Reverse tunnel (`tunnel/server.go`, `tunnel_port_pool.go`, `tunnel/client.go`, `refresh.go`) | port, key and switch of each row, listeners, sessions, the daemon's tunnel client | allocate a port, authenticate, listen, forward, reconnect, switch on and off in two places | dead sessions that hold a port, a port given to another device, two tickers and a reconnecting client | a port leads to its owner, the tunnel comes back, a tunnel switched off stops |
| Accounts, codes, subnet pool (`auth_service.go`, `subnet_pool.go`, `user_repo.go`) | users with subnets, mail codes, known networks | request and verify a code, log in with Firebase, create an account with a subnet, record a conflict | code read then marked, subnets read then inserted | disjoint subnets clear of known networks, a code logs in once |
| Sudo by telephone (`biometric_auth_service.go`, the PAM script) | requests with a status | create, answer, poll, expire, delete | updates without a condition on the status, an answer racing the time-out | a command runs only with timely consent of its owner |
| Network scanner | known networks | scan, add | input to the subnet pool | – |
| Diagnostics and online status (`diagnostics_service.go`, `diagnostics.go`, `device_cache.go`, `devices.go`) | requests and reports in Firestore, the cache of heartbeats | trigger, fetch, run, upload, heartbeat, expire | every daemon of a user fetches every request; two names for one device; two types for one status | a request is answered |
| SSH key synchronisation (`ssh/manager.go`, `authorized_keys.go`, `ssh_service.go`) | `authorized_keys` with a marked block, a temporary file | fetch, read, write, rename, by the daemon's ticker, a connecting tunnel and the terminal | activities share the block and the temporary file, stale answers, kills half-way, the owner's editor | the owner's lines survive, revoked keys disappear |
| Client configuration (`config.go`, `main.go`) | one JSON file without a lock | load, save, delete, by every command and every job; two saves in the pre-run of each | a save writes back the whole file as it was loaded, a truncated file after a kill | a switch stays where the last command put it |
| Auto-upgrade (`upgrade.go`, `refresh.go`) | the executable, its backup, the announcement in the file | check, announce, back up, replace, restore, restart | a failure or a kill between any two system calls, two upgrades at once, an announcement saved before the fact | the executable survives, an announced update is true, the machine ends up on the latest release |
| Daemon loop and its installation (`service_*.go`) | one goroutine, seven tickers; a unit of the service manager | install, uninstall, restart, start again | a job that fails or ends the process | no failure keeps the daemon from trying again |
| WireGuard configuration, preflight, set-up, backup, firewall, e-mail, UI | – | text and calls of system tools | – | – |

How they interact: an approved challenge *calls* the registry (`RegisterDevice`),
deleting a device *cascades* to its tokens and challenges; the registry takes
addresses from the subnet of the account, which the subnet pool chose; a tunnel
authenticates the key stored in the device's row, and its client reads the
configuration file that the login wrote and the daemon's check may delete or write
back; the daemon's auto-upgrade replaces the executable that the commands run and
that the service manager starts again, and writes to the file they write to.  `AuthorizeConnection`, `DeleteByUserID`, `userRepo.Update` and
`userRepo.Delete` have no caller, so users are never deactivated and tunnels of other
devices are not authorized one by one; neither is modelled.

`PROJECT.json` lists every component with its status, and every hazard with the
line where it bites and the properties that would catch it.

## 2. Modules

| module | what it is |
|---|---|
| `DeviceRegistry` | the registry: one action per database or wgctrl call of RegisterDevice, AddDeviceToWireGuard, DELETE, admin delete-device and sync-peers |
| `ChallengeVerdict` | abstract specification: a challenge gets at most one verdict |
| `DeviceAuth` | login by QR code and the daemon's check; implements `ChallengeVerdict` |
| `ReverseTunnel` | port pool, tunnel server, `roamie tunnel register`, daemon and tunnel client |
| `SubnetPool` | the arithmetic of the pool: overlap, candidates, allocation, hosts |
| `Accounts` | codes, logins, creation of accounts (extends `SubnetPool`) |
| `BiometricAuth` | sudo requests |
| `AuthorizedKeys` | the synchronisation of `~/.ssh/authorized_keys` |
| `BinaryUpgrade` | the replacement of the executable, one action per system call, for several upgraders |
| `ClientMachine` | one machine: the configuration file, commands, the daemon's jobs and the service manager (extends `BinaryUpgrade`) |
| `Diagnostics` | remote diagnostics and heartbeats |
| `AccountApi` | `Accounts` and an instance of `BiometricAuth`, served by the same handlers |
| `MC...` | instances for TLC; `MCDeviceRegistry` also instantiates `SubnetPool` for the addresses of its users |
| `..._proofs` | theorems and proofs of the module they are named after |

Definitions bear the names of the functions they translate where those are short
enough; `map` in `PROJECT.json` gives the lines.

**DeviceRegistry.**  A process is a goroutine that serves one request, or one run of
the admin binary; its locals (`existing`, `replacing`, `vpnIP`, `target`, ...) are
what RegisterDevice and its callers keep between two calls.  `Match` is the three-way
choice between reviving a device under its name, replacing it, and a new one,
`CheckKey`, `CheckLimit`, `PickAddress`, `DeleteOld`, `Create` follow in the code's
order, then the peer is added, or the row rolled back.  `route` is the kernel's
rule that an address is in the allowed-ips of one peer at most.  Names are a small set;
`NameHardware` is what `ParseDeviceName` finds in those of three parts.  `DeviceRepository.Create`
parses the name of every row, so that what a name says overwrites the hardware id of
the request (`NewRow`); a request's own id counts only for a name of fewer parts.

**DeviceAuth.**  Per machine: the challenge it polls, the answer a poll is working on,
the login in its file and the one its daemon has loaded.  Per handler: the decision
or deletion it is in the middle of.  RegisterDevice is one step here (`RegisterAs`), since
`DeviceRegistry` has its steps, and so is its refusal (`RegisterRefused`): by the device limit,
a full subnet or a unique constraint, none of which needs a call to fail, and the last of
which comes when the row to be replaced is gone.  `ApproveChallenge` only logs it, and the
approval stands.  `removed` and `missed` are history variables: the devices whose row has been
deleted, and the approved logins that left no device under the id they poll.

**ReverseTunnel.**  A device stands for one login of one machine, so it is deleted at
most once.  `listener[p]` is the session that listens on port p, `granted` the port
in the permissions of an authenticated connection: between the two lies the time in
which the row can change.  Both ends notice a dead connection separately
(`NoticeBreak`, `EndSession`), which is what makes reconnecting hard.  `Disconnect` cancels a
client and closes the connection it has stored; a dial in flight goes on (`late[d]`): it
may authenticate, listen, and only then find itself cancelled and close its listener
(`LateDial`, `LateForward`, `LateEnd`), while `Disconnect` waits and the daemon with it
(`Free`).  One
`roamie tunnel register` per device runs at a time; the foreground command
`tunnel start` is not modelled.

**SubnetPool, Accounts.**  A network is its first address and its size, which loses
nothing: every subnet and range is aligned, as `net.ParseCIDR` and the pool make
them.  `users` is keyed by nothing but its two UNIQUE constraints.  A Firebase login
has no code.

**BiometricAuth.**  `sudo[r]` is what the PAM script makes of request r; `consent` is
a history of owners' approvals that the server accepted before `expires_at`.  A
request is deleted seven days after it was made, when nothing refers to it.

**AuthorizedKeys.**  A synchronisation is a fetch (`keys`), a read of the lines outside
the block (`others`), the truncation, filling and renaming of the one temporary file.
Lines are sets; backups are left out, since nothing reads them.  `enabled` says that
the machine is logged in with `ssh_sync_enabled`; `wanted` is a history of the owner's
own lines.  The owner's edit is one step, and malformed keys are refused with the
whole block, as `WriteKeys` does.  When two synchronisations are in the temporary file
at once, or an edit falls between a read and its rename, the model sets `disturbed` and
stops: the first may leave any prefix of either content, the second loses the edit,
and both are hazards of the list rather than promises.  `roamie ssh sync` does what
the ticker does at any moment, so the instance has two activities.

**BinaryUpgrade, ClientMachine.**  A file of the machine is its content, or absent, or
torn (`Torn`, `Broken`): what a process leaves that is killed between the truncation and
the write, so `BeginSave` and `EndSave`, `BeginCopy` and `EndCopy` are separate steps.
`inst[u]` is where upgrader u is in `Upgrade`.  `stage[p]` is where the daemon or the
command at the terminal is, `copy[p]` the configuration it holds between a load and its
save; `PreRun` is PersistentPreRun, which every command goes through, the daemon's
included.  Tunnel, ssh and vpn switches are handled alike, so one stands for all; the
login is in `DeviceAuth`; `--force` and the version `dev` are not told apart from an
ordinary upgrade.  Four histories name the accidents: `stale` (a copy loaded before a save
of another process), `disturbed` (such a copy is saved, or two processes write at once),
`sound` (no two upgrades at once, none that backs up a broken executable) and `damaged` (a
kill in the middle of a save or of an upgrade, or a restoration that fails).  When two
saves or two upgrades disturb each other the model stops: from then on the files may
hold any mixture, and both are hazards of the list rather than promises.  `wanted` is the
history of what the commands asked for.

**Diagnostics.**  A document of Firestore is a record under the name it is filed under;
a machine is what the nine checks of the doctor look at.  A status carries the way it is
encoded, because that is what the server's decoder asks.  `work[d]` are the requests the
daemon of d has fetched, `report[d]` the one it uploads.  `online` counts half minutes.

## 3. Runs

Twelve configurations.  Distinct states and times are of one machine with two
workers.

| run | instance | result |
|---|---|---|
| `registry_concurrent` | 2 handlers, 2 users, contended names and keys, a name whose third part is not the hardware id of the request, wgctrl failures, hang-ups, deletions; 642k states, 55 s | `TypeOK`, `TenantRoutes`, `OnlyOwnRowsRemoved` hold |
| `registry_one_at_a_time` | 1 handler, 2 users, every API registration of 4 names (two of one hardware, one that does not parse) and 3 keys, both deletions, sync-peers, wgctrl failures; 128k states | `RegisteredDevicesRouted`, `DeviceLimit` hold |
| `registry_distinct_devices` | 2 handlers, each registering two devices and changing the key of one, a limit of two, nothing fails; 110k states, 20 s | `LimitOvershoot`, `MirrorWhenIdle` hold |
| `registry_broadcast` | default configuration, four devices and two more at once | **violated** `UsableAddresses` |
| `auth_challenges` | 1 machine, 1 challenge, 2 users, 2 handlers, administrators, refused registrations, every call may fail that the code goes on after; 76k states | `TypeOK`, `OnlyTheApprover`, refinement of `ChallengeVerdict`, `CleanupJustified` hold |
| `auth_daemon` | 1 machine that logs in twice, 1 handler, administrators, refused registrations, reliable calls, fairness; 360k states, 90 s | `CleanupJustified`, `DeletedLogsOut` hold |
| `tunnel_ports` | 2 devices, 2 ports, every event, server restarts; 2.0M states, 95 s | `TypeOK`, `ReachesOwner` hold |
| `tunnel_reconnects` | 2 devices, 1 port, outages and switching off at any moment of a dial, fairness; 47k states, 50 s | `TunnelRestored`, `DisabledLocally` hold |
| `account_api` | 2 handlers, 2 persons, a code, Firebase, a sudo request, failing calls; 238k states | `ApiTypeOK`, `SubnetsDisjoint`, `ConflictsAvoided`, `GrantedInTime`, `SpentCodesRefused` hold |
| `keys_synced` | ticker and tunnel of one daemon, one line of the owner, two user keys (one malformed), one tunnel key, fairness; 62k states, 25 s | `TypeOK`, `OwnKeysKept`, `RevokedKeysGo` hold |
| `client_machine` | 2 releases, any 2 of 7 commands against the daemon, a kill or a failure at every step, a machine with and one without a login, fairness; 311k states, 55 s | `TypeOK`, `Recoverable`, `SettingsKept`, `NoticeTrue`, `UpToDate` hold |
| `diagnostics` | 3 devices of 2 users, two of one name, a healthy and a logged-out machine, 1 request, fairness | **violated** `RequestAnswered` |

What the violations show, each against words of the repository (`findings` in
`PROJECT.json` quotes them):

- `registry_broadcast`: the count of devices and the insert are separate
  statements, so two registrations pass the limit together, and the sixth device of
  a /29 is given the broadcast address, because the loop over the hosts is one too
  long.  Two small defects, each hidden by the other in any single-threaded test; that
  it takes two requests at once is a theorem (`UsableAddressesSuffice`).
- `diagnostics`: the server promises that the daemon "will process it within 30
  seconds".  It never does, for two independent reasons: the client sends the status of
  a check as a number and the server decodes a string, so every report is answered 400;
  and the request is fetched under the device's id and looked up under its name, so it
  would be answered 403.  Mending one leaves the other.  With both mended in a copy
  (`Encoded` a string, `GetPendingDiagnostics` handing out the name) the property holds,
  on two devices of one user.

Four more disagreements were found by other instances, which are not kept as runs; each
is a hazard of the list and can be seen again by adding one property to a run:

- An administrator's approval (`admin approve-device`, `admin.go:682`) registers the
  device under an id of the server's; the client keeps its own, its daemon is told 404
  and throws the login away.  An approval by the API whose registration is refused ends
  likewise.  Both are what `missed` stands for: in `auth_daemon`, `CleanupJustified` without
  `missed` is violated, with `AdminApproves = FALSE` too.
- The daemon that is told 404 three times deletes the file, not the login it has validated
  (`refresh.go:290`, `performLocalCleanup`).  Somebody who logs in again while the old login
  is being validated loses the new login.  In `auth_daemon`, that the file deleted holds the
  login validated (`[][\A m \in Machines : ValidateGone(m) /\ loaded'[m] = {} =>
  {l.device : l \in config[m]} \subseteq {l.device : l \in loaded[m]}]_vars`) is violated.
- `DeviceRepository.Create` parses the device's name again (`device_repo.go:22`), so the
  hardware id a request supplies is lost to any name of three parts, and logins are named
  after their host.  Two hosts whose names agree in the third part, or all devices of a user
  with a hyphen in the name, are one piece of hardware to `UNIQUE(user_id, hardware_id)`,
  and the second is refused, although migration 010 (line 40) has the id "Unique per physical
  device".  `registry_one_at_a_time` has two such hosts (`TwoWebHosts`).
- The tunnel's switch on the server (`tunnel.go:319`) is looked at when a connection
  authenticates and never again, while `FLUTTER_INTEGRATION.md` (lines 493 to 496) shows
  the tunnel closed.  In `tunnel_reconnects`, one device and
  `Events <- ("d1" :> {"remote"})`: that a device switched off for good has in the end no
  listener (`\A d : <>[](d \notin enabled) => <>[](\A p \in Ports : listener[p] # d)`) is
  violated.

One more is too small for a run.  The daemon is a command like the others, so its own
pre-run prints the notice of a background update into its log and marks it as shown, right
after the restart that follows the update (`main.go:54`); `CHANGELOG.md:26` has it "shown
on next interactive command".  `ClientMachine` has the step (`PreRun("daemon")`).

Bounds, and why they are enough.  Two handlers suffice for every hazard of the list,
each of which is one handler between two calls of another; the theorems cover more.
Two users, with subnets of one to four addresses, make a user run out of addresses
before devices and the other way round; four names and three keys allow every
combination of name, key and hardware id matching the same or different rows.  In
`auth_challenges` the daemon validates twice instead of three times, which shortens
the runs without merging any: the retries differ in number only.  In `auth_daemon` one handler
is enough, since decisions that meet are the subject of `auth_challenges`; its two logins of
one machine are what a stale load of the daemon takes.  (`CleanupJustified` was checked for
two logins with failing calls as well, 765k states, and is proved.)  The pool has two
ranges, with room for three subnets altogether: more than the two accounts, so that
one candidate is blocked by a known network, one range fills up, and the second may
be blocked as well.  Six /29 hosts are the real number.

`client_machine` has two releases, one before and one after the update, and two commands:
one can overtake the daemon's save, the second shows what becomes of the switch.  Every
command of the seven is of another kind; the four left out (`status`, `switch on`,
`auto on`, `setup`) differ from one of them in a value or run as a part of `login`.  The
theorems are for all commands and any number of them and of releases.  `diagnostics` has
one request, since requests meet nowhere but in the work of a daemon; two devices of one
user, because every daemon fetches for both; and a device of the same name of another user.

`CHECK_DEADLOCK FALSE` appears where the system may really come to rest: every login
decided, no challenge left, every device deleted, every code used, every request made and
every daemon idle, and in `client_machine` also where the model stops, after an accident
that `disturbed` or `sound` names.

### Fairness

`DeviceAuth`: weak fairness of the daemon's grace period and its next step (the
ticker fires hourly; the client's calls to the server time out after ten seconds) and of
handlers that have begun; none of users, administrators or logins.  `GraceEnds` says that
no registration takes longer than the two minutes of grace, so it waits for those under way
of the login in the file and of the older one the daemon may still have loaded: that is the
assumption the code makes when it calls the two minutes enough.  `auth_daemon` excludes
failing calls, because a daemon that reaches nobody for ever cleans nothing up, and lapsed
JWTs, because one of a deleted device is answered 401 for ever.  `CleanupJustified` needs
neither; it does need `LookupFails = FALSE`, in both runs and in the proof: three
database errors in a row look like a deletion.  These are hazards in `PROJECT.json`.

`ReverseTunnel`: strong fairness of the tickers and of a client's next dial (a
ticker may be held up now and then, and the dial is disabled now and then by
restarts), weak fairness of asking for the port, of listening or noticing a dead connection
(keepalives on both sides), and of the end of an attempt that was left behind.  The last
is bounded by the ten seconds `Disconnect` waits.  An attempt that lasts longer is not
modelled: `ssh.Dial` limits the time of the TCP connection only, and a handshake that
outlives the wait would set `connected` on a client that is stopped, which the health check
then takes for a healthy one until the configuration check drops it.
Nothing is assumed of the network, the server or users: the properties say "if the
device is ready for good".  The session of a deleted device may hold the port it had
for as long as its client keeps the connection; `TunnelRestored` names that exception.

`AuthorizedKeys`: the ticker begins again and again (the service manager restarts the
daemon) and, tried for ever, gets through each of its steps (strong fairness: it may be
killed any number of times).  Nothing is assumed of the tunnel, the terminal and the
owner.  `RevokedKeysGo` is about keys that are gone for good while the switch is on for
good and no malformed key is served for good.

`ClientMachine`: weak fairness of the service manager's start (`Restart=always`,
`KeepAlive`), of commands that have been given and of the daemon's next step; strong fairness of the upgrade ticker, which fires every 24 hours as long
as the daemon lives but shares its goroutine with the other jobs.  That the next step comes
is an assumption about the network where the upgrade is concerned: `upgrade.go` calls
`http.Get`, which has no time limit (lines 155, 195, 224), so that a connection which is never
closed would hold the daemon, and all its tickers, for ever.  `UpToDate` is about a
machine where in the end nothing fails any more (`Failure`: kills, a check that gets no
answer, an upgrade that fails) and where none of the named accidents has happened.

`Diagnostics`: strong fairness of polling without a failing device, of the doctor and of
the upload (tickers of 30 seconds, calls that may fail now and then).  The violation needs
no more: the device stays online and its daemon polls for ever.

## 4. Proofs

| theorem | argument |
|---|---|
| `DeviceRegistry_proofs!TypeCorrect` | inductive |
| `DeviceRegistry_proofs!TenantIsolation` | `IsolationInv`: every row, and every row a handler holds in a local, carries an address of its own user's subnet and a key that user has presented.  The locals matter: peers are added for rows read long before.  Assumes `InitialProper`, that the rows found at the start are so |
| `DeviceRegistry_proofs!LimitOvershootBounded` | counts, for a user, the names of its rows and of the registrations that have passed the limit and not inserted yet (`Occupied`); the count of these never exceeds the limit plus the other handlers |
| `DeviceAuth_proofs!TypeCorrect` | inductive |
| `DeviceAuth_proofs!ApproverOnly` | `GrantInv`: devices, tokens, answers, saved logins and jobs each name a user whose approval is on record, or whose row is gone (`Granted`).  What a step may do to the rows is isolated in `RowStep` |
| `DeviceAuth_proofs!OneVerdictEach` | refinement: every step of `DeviceAuth` maps to a step of `ChallengeVerdict` or a stutter under `VerdictMap` |
| `ReverseTunnel_proofs!TypeCorrect` | inductive |
| `ReverseTunnel_proofs!OwnerReached` | `PortInv`: a listener and a granted port belong to the device they name as long as it has a row, and so does the port of an attempt that outlives its client.  A port is never changed while the device has one, which is why a grant cannot go stale while the row lives |
| `DeviceRegistry_proofs!LimitKeptAlone` | from the former: one handler keeps the limit itself |
| `DeviceRegistry_proofs!RemovesOwnRows` | `IdsAgree`: rows with one id, in the table or in a handler's locals, are the same row, since an id that anything refers to is never generated again (`FreshIds`).  So what a registration removes by id is the row it has read, and `IsolationInv` says whose that is |
| `DeviceRegistry_proofs!RoutedAlone` | `AloneInv`: a row without its address on its peer is the row of the one registration that is about to add it (`Settling`), or of a roll-back that is about to remove it.  Assumes one handler, that every failure is rolled back (`AllRollBack`) and that nobody hangs up; each of these is a way to lose a route, and a hazard of the list |
| `DeviceRegistry_proofs!RoutedSeparately` | `RoutedInv`: for any number of handlers that are about separate devices (`SeparateDevices`: names, keys, found rows), wgctrl failing or not, a row without its address on its peer is `Coming`: the handler that inserted or refreshed it is about to route it, or to roll it back.  `Proceeds` says that what a handler has read of the rows it concerns is still so when it acts; a step of another handler does not change it, because no row concerns two (`SeparateRows`, `OthersProceed`).  Assumes that failures are rolled back, no administrator's deletion or `sync-peers`, and that nobody hangs up |
| `DeviceRegistry_proofs!MirrorKept` | `MirrorInv`, on top of `RoutedInv`: an address that is routed to a key is `Covered`, by a row that says so or that is about to take it over, or by a `Ghost`, the peer of a device a handler is replacing and has yet to drop.  A replacement that is refused its insert would leave the ghost; `HardwareRows` and `Proceeds` leave only the address to be refused for (`MirrorRefused`), and then the row that took it takes the route.  Assumes besides that two names of a user are two pieces of hardware by the id that `Create` really stores, which it parses from the name (`HardwareNamed`, `RowHardware`), and that nothing fails: `TryRemovePeer` only logs its failure, and the ghost then stays; `registry_concurrent` shows what becomes of the routes of handlers that meet |
| `DeviceRegistry_proofs!UsableAddressesSuffice` | the counterpart of the violation in `registry_broadcast`: with `max_devices` + handlers − 1 no more than the usable addresses (`Suffices`; five of each and one handler in the default configuration), every device has a usable one.  `RoomInv`: the names occupied by anybody but the handler that picks an address number `max_devices` + handlers − 2 at most, so it finds a usable address free, and the lowest is taken; `UsableInv` follows the address to the row and to the replacement that inherits it.  That the highest host of the pool is the broadcast address, and no other is unusable, is `Accounts_proofs!BroadcastLast` |
| `DeviceAuth_proofs!CleanupIsJustified` | `SureInv`: every approved challenge and saved login is registered, deleted or missed (`Settled`), or on the way, a handler being about to register it under the very id the machine polls; a login that is validated is past that.  Failing calls, refused registrations, administrators and any number of logins of one machine are all in; assumes `~LookupFails` only |
| `Accounts_proofs!DisjointSubnets` | `AccountInv`: every subnet, also those chosen and not yet inserted, is aligned; aligned networks of one size are equal or disjoint (`AlignedApart`), so UNIQUE(subnet) is enough |
| `Accounts_proofs!KnownNetworksAvoided` | `ClearInv`: a subnet that is chosen, and one that is inserted, shares no address with a network known at the start; every allocation has looked at all of them (`AllocationClear`), because conflicts are only added |
| `Accounts_proofs!SpentCodesAreRefused` | `SpentInv`: the row of a code that is served past `MarkCodeUsed`, or that has logged somebody in, is marked or gone; a row that is gone does not come back, because a code is sent once |
| `BiometricAuth_proofs!ConsentGiven` | `ConsentInv`: a row that says approved, and a handler about to write it, have the owner's consent |
| `AuthorizedKeys_proofs!TypeCorrect` | inductive |
| `AuthorizedKeys_proofs!OwnKeysSurvive` | `KeysInv`: while undisturbed, what a synchronisation has read is what the owner wants, one synchronisation at most is in the temporary file, and a filled one holds the owner's lines; so a rename puts back what was there |
| `ClientMachine_proofs!FilesRecoverable` | `WholeFiles`: as long as `sound`, one upgrade is under way and at each of its steps one of the two files is whole |
| `ClientMachine_proofs!SwitchesKept` | `SettingsInv`: the file, and every copy that is held for a save and not stale, agree with what the commands asked for; a process that writes is alone, and whoever loaded before has a stale copy.  `MachineInv` joins it to the types and `WholeFiles`; each action is first sorted by what it does to the executable (`BinaryStep`), to the configuration (`ConfigStep`) and to the rest (`MachineStep`), and each kind is proved once |
| `ClientMachine_proofs!NoticesTrue` | `NoticeInv`: what the file announces, and what a copy that will be saved announces, is `Sure`: at most what the executable is, what its backup holds while the terminal replaces it, or what the daemon is installing; while the daemon is about to take an announcement back nothing is promised.  It needs `Linked` (a stage says which upgrade is under way), `Releases` (an upgrade never goes back to less than it found, as long as it can restore it) and, for who still holds a copy, `OneWriter`; the steps are those of `NextMoves` |
| `ClientMachine_proofs!TypeCorrect` | from `MachineInv` |
| `AccountApi_proofs!ApiTypeCorrect`, `ApiSubnetsDisjoint`, `ApiLoginsSound`, `ApiConsentGiven` | the composition implements both parts, so their theorems hold of it |

The assumptions are the named `ASSUME`s of the modules (`RegistryAssumption`,
`DeviceAuthAssumption`, `TunnelAssumption`, `SubnetPoolAssumption`,
`AccountsAssumption`, `KeysAssumption`, `VersionsAssumption`, `MachineAssumption`): sets and
functions of the right kind, well-formed initial rows, one subnet size for the lifetime of
the database, values for absent and torn files that are no contents, and the daemon and the
terminal as the two upgraders.

Only model-checked: the liveness properties (`DeletedLogsOut`, `TunnelRestored`,
`DisabledLocally`, `RevokedKeysGo`, `UpToDate`), because fairness and ENABLED are outside
the prover.  Every other property of a passing run is a theorem.  The hypotheses of the
theorems that have some are about constants, and the instance of a run satisfies them:
`RoutedAlone` and `LimitKeptAlone` that of `registry_one_at_a_time`, `MirrorKept` and
`RoutedSeparately` that of `registry_distinct_devices`, `CleanupIsJustified` those of
`auth_challenges` and `auth_daemon`; so TLC and the prover speak of the same systems.  `AloneInv`
was model-checked there before it was proved, `RoutedInv` on the first three million states of
`registry_distinct_devices` with failing calls that are rolled back, `RoomInv` and
`UsableInv` on the first 390k states of two handlers of a user with a limit of one.

## 5. What is not modelled, and why

- Text: formatting, parsing of names (taken as a function), JSON, mails, terminal UI.
- System tools: wg-quick, docker, systemd, iptables, package managers, backups.
- Cryptography and tokens: a JWT is the user it names; a key is a value; a code that
  was not sent is never guessed.
- Failures after the last change of state of a handler, which only change the answer.
- A device name whose third part is longer than the eight characters of `hardware_id`, which
  the insert refuses.
- `AuthorizeConnection` with its cache and rate limiter, `CleanupOldRequests` and
  `GetOnlineDevices`, which nothing calls; `GetAllDiagnosticsReports`, which only reads.
- `MigrateFromLegacyStorage`, which runs once over the files of an older program.
- The Windows task, which is started again three times and only after a failure: the
  `os.Exit(0)` after an auto-upgrade (`refresh.go:504`) leaves the daemon down until the next
  log-on.  `UpToDate` is about systemd and launchd.  `restartDaemon`'s own fallback, `roamie
  daemon`, is no command of the program (`refresh.go:501`), so the model has the service
  manager only.
- Which machine a report describes.  Every daemon runs every request of all the user's
  devices on its own machine and the code asks nowhere; the model has it
  (`RunDiagnostics`), and no property can be promised.
- A restart of the server's WireGuard interface, which comes up without peers (a
  hazard of the list).

## 6. Plan

Written so far, in this order: `DeviceRegistry` (everything else hands devices to
it), `DeviceAuth` with `ChallengeVerdict`, `ReverseTunnel`, `Accounts` and
`BiometricAuth` with their composition, `AuthorizedKeys`, `BinaryUpgrade` with
`ClientMachine`, `Diagnostics`.  Next:

1. Server restart in `DeviceRegistry` (interface without peers) and logging in again
   on the same machine in `ReverseTunnel` (a new row, a port released by NULL).
2. A refinement of `DeviceAuth`'s one-step `RegisterAs` by `DeviceRegistry`.
3. The login in the file of `ClientMachine`, composed with `DeviceAuth`'s check.

Runs are kept at twelve: new components join an existing instance, and
`registry_distinct_devices` can be folded into a wider one when room is needed.
Theorem to come: `RegisteredDevicesRouted` with an administrator who deletes devices nobody
is registering.
