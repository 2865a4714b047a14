----------------------------- MODULE Diagnostics -----------------------------
(***************************************************************************)
(* Remote diagnostics.  A user asks the server for a report of a device;   *)
(* the request is a document of Firestore under the device's name, and the *)
(* report is another.  The daemon of every device of the user polls for    *)
(* the requests of all of them, runs the doctor for each and uploads what  *)
(* it finds.  The same goroutine sends the heartbeats that make the server *)
(* show the device as online.  Devices are registered and removed in       *)
(* DeviceRegistry; here they stay.                                         *)
(***************************************************************************)
EXTENDS Integers, FiniteSets

CONSTANTS
    Devices,     \* the id of every device
    Requests,    \* bound: requests that will be made
    DeviceName,  \* the name of each device, unique among those of one user only
    Owner,       \* the user of each device
    Machines,    \* what the doctor may find on a machine: its config (None, or when
                 \* the jwt expires and the settings), the server, WireGuard,
                 \* the daemon, and how its version relates to the last release
    None

VARIABLES
    pending,  \* documents diagnostics_requests/<name>/pending/<id>
    reports,  \* documents diagnostics_reports/<name>/reports/<id>
    asked,    \* per request: the device it was made for
    work,     \* per daemon: requests it has fetched and not yet dealt with
    report,   \* per daemon: the report it is about to upload
    online    \* the server's cache: half minutes a device is online for

vars == <<pending, reports, asked, work, report, online>>

Init ==
    /\ pending = {} /\ reports = {}
    /\ asked = [r \in Requests |-> None]
    /\ work = [d \in Devices |-> {}]
    /\ report = [d \in Devices |-> None]
    /\ online = [d \in Devices |-> 0]

OwnDevices(u) == {d \in Devices : Owner[d] = u}

(***************************************************************************)
(* The doctor                                                              *)
(***************************************************************************)

ConfigLoaded(m) == IF m.config = None THEN "error" ELSE "passed"

JWTValidity(m) ==
    CASE m.config = None -> "error"
      [] m.config # None /\ m.config.jwt = "past" -> "error"
      [] m.config # None /\ m.config.jwt = "soon" -> "warning"
      [] OTHER -> "passed"

ServerReachable(m) == IF m.config = None \/ ~m.server THEN "error" ELSE "passed"

WireGuardInstalled(m) == IF m.wireguard THEN "passed" ELSE "warning"

VPNConfigured(m) ==
    IF m.config # None /\ m.config.vpn /\ m.config.address THEN "passed" ELSE "warning"

DaemonRunning(m) == IF m.daemon THEN "passed" ELSE "warning"

TunnelStatus(m) ==
    IF m.config # None /\ m.config.tunnel /\ m.config.port THEN "passed" ELSE "warning"

AutoUpgrade(m) == IF m.config # None /\ m.config.auto THEN "passed" ELSE "warning"

UpdateAvailable(m) == IF m.release = "same" THEN "passed" ELSE "warning"

DoctorChecks(m) ==
    [config |-> ConfigLoaded(m), jwt |-> JWTValidity(m), server |-> ServerReachable(m),
     wireguard |-> WireGuardInstalled(m), vpn |-> VPNConfigured(m),
     daemon |-> DaemonRunning(m), tunnel |-> TunnelStatus(m), upgrade |-> AutoUpgrade(m),
     updates |-> UpdateAvailable(m)]

\* CheckStatus is an int and has no MarshalJSON: a status travels as a number.
CheckStatus == {"passed", "warning", "error", "info"}
Encoded(status) == [json |-> "number", status |-> status]

RunDoctor(m) ==
    LET found == DoctorChecks(m)
    IN  [checks |-> [c \in DOMAIN found |-> Encoded(found[c])],
         summary |-> [s \in CheckStatus |-> Cardinality({c \in DOMAIN found : found[c] = s})]]

(***************************************************************************)
(* The server's handlers                                                   *)
(***************************************************************************)

\* POST /api/devices/{id}/trigger-doctor, by the owner of d.
TriggerDoctor(r, d) ==
    /\ asked[r] = None
    /\ asked' = [asked EXCEPT ![r] = d]
    /\ pending' = pending \cup {[device |-> DeviceName[d], id |-> r]}
    /\ UNCHANGED <<reports, work, report, online>>

\* The documents under one name, whoever made them.
PendingRequests(name) == {q.id : q \in {p \in pending : p.device = name}}

\* GET /api/devices/diagnostics/pending for user u; Firestore fails for the
\* devices in skipped.  A request is answered with the id of its device.
PendingDiagnostics(u, skipped) ==
    UNION {{[device |-> d, id |-> r] : r \in PendingRequests(DeviceName[d])} :
           d \in OwnDevices(u) \ skipped}

\* CheckResult.Status is a string for the server: encoding/json refuses a number.
Decodes(rep) == \A c \in DOMAIN rep.checks : rep.checks[c].json = "string"

\* The report decodes and is about a device of u, by its name.
Accepted(u, rep) ==
    /\ Decodes(rep)
    /\ rep.device \in {DeviceName[d] : d \in OwnDevices(u)}

\* POST /api/devices/diagnostics/report; the request may outlive its report.
UploadDiagnosticsReport(u, rep) ==
    IF Accepted(u, rep)
    THEN /\ reports' = {x \in reports : <<x.device, x.id>> # <<rep.device, rep.id>>} \cup {rep}
         /\ pending' \in {pending, pending \ {[device |-> rep.device, id |-> rep.id]}}
    ELSE UNCHANGED <<reports, pending>>

\* GET /api/devices/{id}/diagnostics/{request}, by the owner of d.
GetDiagnosticsReport(d, r) == {x \in reports : x.device = DeviceName[d] /\ x.id = r}

IsOnline(d) == online[d] > 0

\* MarkOnline: for the next 90 seconds.
MarkOnline(d) == online' = [online EXCEPT ![d] = 3]

\* Half a minute goes by; entries that have expired are removed.
HalfMinute ==
    /\ \E d \in Devices : online[d] > 0
    /\ online' = [d \in Devices |-> IF online[d] > 0 THEN online[d] - 1 ELSE 0]
    /\ UNCHANGED <<pending, reports, asked, work, report>>

\* The cache is in memory only.
RestartServer ==
    /\ online' = [d \in Devices |-> 0]
    /\ UNCHANGED <<pending, reports, asked, work, report>>

(***************************************************************************)
(* The daemon: one goroutine, one job at a time                            *)
(***************************************************************************)
Free(d) == work[d] = {} /\ report[d] = None

\* POST /api/devices/heartbeat.
SendHeartbeat(d) ==
    /\ Free(d)
    /\ MarkOnline(d)
    /\ UNCHANGED <<pending, reports, asked, work, report>>

\* checkAndRunDiagnostics fetches the requests of all devices of its user, ...
GetPendingDiagnostics(d, skipped) ==
    /\ Free(d)
    /\ PendingDiagnostics(Owner[d], skipped) # {}
    /\ work' = [work EXCEPT ![d] = PendingDiagnostics(Owner[d], skipped)]
    /\ UNCHANGED <<pending, reports, asked, report, online>>

\* ... runs the doctor of its own machine for each, ...
RunDiagnostics(d) ==
    /\ report[d] = None
    /\ \E q \in work[d], m \in Machines :
        /\ work' = [work EXCEPT ![d] = @ \ {q}]
        /\ report' = [report EXCEPT ![d] =
            [device |-> q.device, id |-> q.id,
             checks |-> RunDoctor(m).checks, summary |-> RunDoctor(m).summary]]
    /\ UNCHANGED <<pending, reports, asked, online>>

\* ... and uploads the report; whatever is answered, it goes on with the next.
Upload(d) ==
    /\ report[d] # None
    /\ UploadDiagnosticsReport(Owner[d], report[d])
    /\ report' = [report EXCEPT ![d] = None]
    /\ UNCHANGED <<asked, work, online>>

UploadLost(d) ==
    /\ report[d] # None
    /\ report' = [report EXCEPT ![d] = None]
    /\ UNCHANGED <<pending, reports, asked, work, online>>

\* The daemon dies and the service manager starts it again.
RestartDaemon(d) ==
    /\ ~Free(d)
    /\ work' = [work EXCEPT ![d] = {}]
    /\ report' = [report EXCEPT ![d] = None]
    /\ UNCHANGED <<pending, reports, asked, online>>

Next ==
    \/ \E r \in Requests, d \in Devices : TriggerDoctor(r, d)
    \/ \E d \in Devices :
        \/ SendHeartbeat(d) \/ RunDiagnostics(d)
        \/ Upload(d) \/ UploadLost(d) \/ RestartDaemon(d)
        \/ \E skipped \in SUBSET OwnDevices(Owner[d]) : GetPendingDiagnostics(d, skipped)
    \/ HalfMinute \/ RestartServer

Spec == Init /\ [][Next]_vars

\* The tickers of a daemon that lives fire every 30 seconds, and what fails now
\* does not fail every time.
FairSpec ==
    /\ Spec
    /\ \A d \in Devices :
        /\ SF_vars(GetPendingDiagnostics(d, {}))
        /\ SF_vars(RunDiagnostics(d))
        /\ SF_vars(Upload(d))

(***************************************************************************)
(* What trigger-doctor answers: "Device daemon will process it within 30   *)
(* seconds."  Once a request is accepted and the device stays online, its  *)
(* owner can fetch the report at some time.                                *)
(***************************************************************************)
RequestAnswered ==
    \A r \in Requests, d \in Devices :
        (asked[r] = d /\ <>[]IsOnline(d)) ~> GetDiagnosticsReport(d, r) # {}
=============================================================================
