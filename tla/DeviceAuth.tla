----------------------------- MODULE DeviceAuth -----------------------------
(***************************************************************************)
(* Login by QR code.  A machine without a keyboard for passwords creates a *)
(* challenge and polls it; a user of the mobile application (or an         *)
(* administrator) decides it; an approval registers the machine as a       *)
(* device; the poll that sees the approval hands out a JWT and a refresh   *)
(* token; from then on the machine's daemon asks every hour whether its    *)
(* device still exists and forgets its login when it does not.             *)
(*                                                                         *)
(* Each database call is a step.  RegisterDevice, whose own steps          *)
(* DeviceRegistry models, is one step here.                                *)
(***************************************************************************)
EXTENDS Naturals, FiniteSets

CONSTANTS
    Machines, Users, Challenges,
    MachineOf,         \* [Challenges -> Machines]: whose login attempt it is
    ServerIds,         \* device ids generated by the server
    Procs,             \* handlers of the application and of administrators
    Attempts,          \* validations before the daemon believes its device is gone
    NoUser, NoDevice,
    AdminApproves,     \* may `admin approve-device` be used?
    Unreliable,        \* may a call fail that the code goes on after?
    LookupFails,       \* may the server fail to look a device up that it has?
    Daemons,           \* machines on which the daemon is installed
    JwtLapses          \* may a machine be off for longer than its JWT lives?

ASSUME DeviceAuthAssumption ==
    /\ MachineOf \in [Challenges -> Machines]
    /\ Challenges \cap ServerIds = {}
    /\ NoUser \notin Users
    /\ NoDevice \notin Challenges \cup ServerIds
    /\ Attempts \in Nat \ {0}
    /\ Daemons \subseteq Machines

\* A login generates the id of its device (a UUID) along with its keys, so a
\* challenge names its device_id and its public key as well.
DeviceIds == Challenges \cup ServerIds

Undecided == [id : Challenges, status : {"pending", "expired"}, user : {NoUser},
              wg : DeviceIds \cup {NoDevice}]
Decided == [id : Challenges, status : {"approved", "denied"}, user : Users,
            wg : DeviceIds \cup {NoDevice}]
Challenge == Undecided \cup Decided
Device == [id : DeviceIds, user : Users, machine : Machines, key : Challenges]
Token == [user : Users, device : DeviceIds]
Job == [challenge : Challenges, user : Users, approve : BOOLEAN]
Config == [device : Challenges, token : Token, vpn : BOOLEAN, live : BOOLEAN]

VARIABLES
    challenges,  \* rows of device_auth_challenges
    used,        \* challenges ever created
    lapsed,      \* challenges whose expires_at has passed
    devices,     \* rows of devices
    tokens,      \* rows of refresh_tokens
    pc,          \* per handler: its next step
    job,         \* per handler: what it decides ({} or one Job)
    target,      \* per handler: the device it has registered or is deleting
    waiting,     \* per machine: the challenge it polls ({} or one)
    answer,      \* per machine: the approved challenge a poll has read ({} or one)
    issued,      \* machines whose poll has inserted its refresh token
    config,      \* per machine: the saved login ({} or one)
    fresh,       \* machines whose login is younger than the grace period
    loaded,      \* per machine: the login its daemon is checking ({} or one)
    attempt,     \* per machine: the daemon's next validation
    removed,     \* history: devices whose row has been deleted
    missed       \* history: approved logins that left no device under their id

server == <<challenges, used, lapsed, devices, tokens, removed, missed>>
handlers == <<pc, job, target>>
polls == <<waiting, answer, issued>>
daemons == <<fresh, loaded, attempt>>
vars == <<challenges, used, lapsed, devices, tokens, pc, job, target,
          waiting, answer, issued, config, fresh, loaded, attempt, removed, missed>>

ById(c) == {x \in challenges : x.id = c}
Registered(d, u) == \E e \in devices : e.id = d /\ e.user = u

Finish(p) ==
    /\ pc' = [pc EXCEPT ![p] = "idle"]
    /\ job' = [job EXCEPT ![p] = {}]
    /\ target' = [target EXCEPT ![p] = {}]

Goto(p, l) == pc' = [pc EXCEPT ![p] = l]

\* Rows of devices go, and with them the wg_device_id that refer to them (ON DELETE
\* SET NULL); add is what the same step inserts.
ChangeDevices(gone, add) ==
    /\ devices' = (devices \ gone) \cup add
    /\ removed' = removed \cup {d.id : d \in gone}
    /\ challenges' = {[x EXCEPT !.wg = IF \E d \in gone : d.id = @ THEN NoDevice ELSE @]
                        : x \in challenges}

-----------------------------------------------------------------------------
(* The machine logs in.                                                      *)

\* CreateDeviceRequest.  Logging in again while logged in is allowed.
StartLogin(m, c) ==
    /\ waiting[m] = {}
    /\ c \notin used /\ MachineOf[c] = m
    /\ challenges' = challenges \cup
          {[id |-> c, status |-> "pending", user |-> NoUser, wg |-> NoDevice]}
    /\ used' = used \cup {c}
    /\ waiting' = [waiting EXCEPT ![m] = {c}]
    /\ UNCHANGED <<lapsed, devices, tokens, removed, missed, handlers, answer, issued, config, daemons>>

StopPolling(m) ==
    /\ waiting' = [waiting EXCEPT ![m] = {}]
    /\ answer' = [answer EXCEPT ![m] = {}]
    /\ issued' = issued \ {m}

\* Five minutes without an answer, or Ctrl-C.
GiveUp(m) ==
    /\ waiting[m] # {}
    /\ StopPolling(m)
    /\ UNCHANGED <<server, handlers, config, daemons>>

\* A poll reads the challenge.  Denied or expired (in memory, whatever the row says)
\* ends the login; approved goes on to the token; pending changes nothing.
Poll(m) ==
    /\ answer[m] = {}
    /\ \E c \in waiting[m] : \E x \in ById(c) :
          \/ /\ x.status \in {"denied", "expired"} \/ (x.status = "pending" /\ c \in lapsed)
             /\ StopPolling(m)
          \/ /\ x.status = "approved"
             /\ answer' = [answer EXCEPT ![m] = {x}]
             /\ UNCHANGED <<waiting, issued>>
    /\ UNCHANGED <<server, handlers, config, daemons>>

\* (mutant of TokenDevice: no fallback to the device of the challenge)
TokenRow(x) == x.wg

\* resolveRefreshTokenDeviceID
TokenDevice(x) == IF x.wg # NoDevice THEN x.wg ELSE x.id

IssueToken(m) ==
    /\ m \notin issued
    /\ \E x \in answer[m] :
          tokens' = tokens \cup {[user |-> x.user, device |-> TokenDevice(x)]}
    /\ issued' = issued \cup {m}
    /\ UNCHANGED <<challenges, used, lapsed, devices, removed, missed, handlers,
                   waiting, answer, config, daemons>>

\* GetDeviceByID, the answer, and the login saved by the client, under the device id
\* it generated itself.
Answer(m) ==
    /\ m \in issued
    /\ \E x \in answer[m] :
          config' = [config EXCEPT ![m] =
             {[device |-> x.id, live |-> TRUE,
               token |-> [user |-> x.user, device |-> TokenDevice(x)],
               vpn |-> x.wg # NoDevice /\ \E d \in devices : d.id = x.wg]}]
    /\ fresh' = fresh \cup {m}
    /\ StopPolling(m)
    /\ UNCHANGED <<server, handlers, loaded, attempt>>

\* The poll fails on the way or its answer is lost: the client polls again.
LosePoll(m) ==
    /\ Unreliable
    /\ answer[m] # {}
    /\ answer' = [answer EXCEPT ![m] = {}]
    /\ issued' = issued \ {m}
    /\ UNCHANGED <<server, handlers, waiting, config, daemons>>

-----------------------------------------------------------------------------
(* The decision.                                                             *)

Lapse(c) ==
    /\ c \in used \ lapsed
    /\ lapsed' = lapsed \cup {c}
    /\ UNCHANGED <<challenges, used, devices, tokens, removed, missed, handlers, polls, config, daemons>>

\* (mutant of ExpireOld: UPDATE without "status = 'pending'")
ExpireDecided ==
    /\ \E x \in challenges : x.id \in lapsed
    /\ challenges' = {[x EXCEPT !.status = IF x.id \in lapsed THEN "expired" ELSE @]
                        : x \in challenges}
    /\ UNCHANGED <<used, lapsed, devices, tokens, removed, missed, handlers, polls, config, daemons>>

\* ExpireOldChallenges, before every listing and every two minutes.
ExpireOld ==
    /\ \E x \in challenges : x.status = "pending" /\ x.id \in lapsed
    /\ challenges' = {[x EXCEPT !.status = IF @ = "pending" /\ x.id \in lapsed
                                           THEN "expired" ELSE @] : x \in challenges}
    /\ UNCHANGED <<used, lapsed, devices, tokens, removed, missed, handlers, polls, config, daemons>>

\* ApproveChallenge: whatever is not open for a decision is answered at once.
BeginDecision(p, j) ==
    /\ pc[p] = "idle"
    /\ \E x \in ById(j.challenge) : x.status = "pending" /\ j.challenge \notin lapsed
    /\ job' = [job EXCEPT ![p] = {j}]
    /\ Goto(p, "decide")
    /\ UNCHANGED <<server, target, polls, config, daemons>>

\* The conditional update of the status, which succeeds for one handler only.
Update(j) ==
    challenges' = {IF x.id = j.challenge
                   THEN [id |-> x.id, status |-> IF j.approve THEN "approved" ELSE "denied",
                         user |-> j.user, wg |-> x.wg]
                   ELSE x : x \in challenges}

Open(c) == c \notin lapsed /\ \E x \in ById(c) : x.status = "pending"

\* (mutant of Decide: UPDATE without "AND status = 'pending'")
DecideAgain(p) ==
    /\ pc[p] = "decide"
    /\ \E j \in job[p] :
          /\ Update(j)
          /\ IF j.approve THEN Goto(p, "register") /\ UNCHANGED <<job, target>> ELSE Finish(p)
    /\ UNCHANGED <<used, lapsed, devices, tokens, removed, missed, polls, config, daemons>>

Decide(p) ==
    /\ pc[p] = "decide"
    /\ \E j \in job[p] :
          IF ~Open(j.challenge)
          THEN Finish(p) /\ UNCHANGED challenges
          ELSE /\ Update(j)
               /\ IF j.approve THEN Goto(p, "register") /\ UNCHANGED <<job, target>> ELSE Finish(p)
    /\ UNCHANGED <<used, lapsed, devices, tokens, removed, missed, polls, config, daemons>>

-----------------------------------------------------------------------------
(* The registration that follows an approval, and `admin approve-device`,    *)
(* which registers first and decides afterwards.                             *)

\* The rows the registration of j replaces: the user's device of the same hostname.
Replaced(j) ==
    {d \in devices : d.user = j.user /\ d.machine = MachineOf[j.challenge]}

SameKey(j) == {d \in devices : d.key = j.challenge}

\* RegisterDevice, under the id given.  A key registered already is answered with its row.
RegisterAs(p, j, id, next) ==
    /\ \/ /\ SameKey(j) = {}
          /\ ChangeDevices(Replaced(j), {[id |-> id, user |-> j.user, key |-> j.challenge,
                                          machine |-> MachineOf[j.challenge]]})
          /\ target' = [target EXCEPT ![p] = {id}]
       \/ /\ SameKey(j) # {} /\ SameKey(j) \subseteq Replaced(j)
          /\ target' = [target EXCEPT ![p] = {d.id : d \in SameKey(j)}]
          /\ UNCHANGED <<devices, removed, challenges>>
    /\ Goto(p, next)
    /\ UNCHANGED job

\* The login has no key, or RegisterDevice refuses: the key is another user's, or a new row
\* meets the device limit, a full subnet or a unique constraint (they depend on the user's
\* other devices, which DeviceRegistry has, so any new row may be refused here).  The insert
\* comes last, when the row to be replaced is deleted already.
RegisterRefused(p, j) ==
    /\ Unreliable \/ SameKey(j) = {} \/ ~(SameKey(j) \subseteq Replaced(j))
    /\ \E gone \in {{}, Replaced(j)} : (gone # {} => SameKey(j) = {}) /\ ChangeDevices(gone, {})
    /\ Finish(p)

\* The refusal is logged and the approval stands.
Register(p) ==
    /\ pc[p] = "register"
    /\ \E j \in job[p] :
          /\ RegisterAs(p, j, j.challenge, "bind") \/ RegisterRefused(p, j)
          /\ missed' = IF Registered(j.challenge, j.user)'
                       THEN missed ELSE missed \cup {j.challenge}
    /\ UNCHANGED <<used, lapsed, tokens, polls, config, daemons>>

\* UpdateChallengeDeviceID; a foreign key, so nothing happens when the row is gone.
Bind(p) ==
    /\ pc[p] = "bind"
    /\ \E j \in job[p], i \in target[p] :
          challenges' = {IF x.id = j.challenge /\ \E d \in devices : d.id = i
                         THEN [x EXCEPT !.wg = i] ELSE x : x \in challenges}
    /\ Finish(p)
    /\ UNCHANGED <<used, lapsed, devices, tokens, removed, missed, polls, config, daemons>>

\* approve-device reads the challenge without looking at its status.
BeginAdmin(p, j) ==
    /\ AdminApproves
    /\ pc[p] = "idle"
    /\ ById(j.challenge) # {}
    /\ j.approve
    /\ job' = [job EXCEPT ![p] = {j}]
    /\ Goto(p, "adminRegister")
    /\ UNCHANGED <<server, target, polls, config, daemons>>

\* No device id is passed on, so the server generates one.
AdminRegister(p) ==
    /\ pc[p] = "adminRegister"
    /\ \E j \in job[p], i \in ServerIds \ ({d.id : d \in devices} \cup removed) :
          RegisterAs(p, j, i, "adminDecide") \/ RegisterRefused(p, j)
    /\ UNCHANGED <<used, lapsed, tokens, missed, polls, config, daemons>>

AdminDecide(p) ==
    /\ pc[p] = "adminDecide"
    /\ \E j \in job[p] :
          IF Open(j.challenge)
          THEN /\ Update(j) /\ Goto(p, "bind") /\ UNCHANGED <<job, target>>
               /\ missed' = IF Registered(j.challenge, j.user)
                            THEN missed ELSE missed \cup {j.challenge}
          ELSE Finish(p) /\ UNCHANGED <<challenges, missed>>
    /\ UNCHANGED <<used, lapsed, devices, tokens, removed, polls, config, daemons>>

-----------------------------------------------------------------------------
(* The device is deleted: refresh tokens, then challenges, then the row.     *)

BeginDelete(p, d) ==
    /\ pc[p] = "idle"
    /\ target' = [target EXCEPT ![p] = {d.id}]
    /\ Goto(p, "dropTokens")
    /\ UNCHANGED <<server, job, polls, config, daemons>>

\* `admin delete-device` deletes the row and nothing else.
BeginAdminDelete(p, d) ==
    /\ AdminApproves
    /\ pc[p] = "idle"
    /\ target' = [target EXCEPT ![p] = {d.id}]
    /\ Goto(p, "dropRow")
    /\ UNCHANGED <<server, job, polls, config, daemons>>

\* Failures of the first two deletions are logged, and the third goes ahead.
DropTokens(p) ==
    /\ pc[p] = "dropTokens"
    /\ \/ tokens' = {t \in tokens : t.device \notin target[p]}
       \/ Unreliable /\ UNCHANGED tokens
    /\ Goto(p, "dropChallenges")
    /\ UNCHANGED <<challenges, used, lapsed, devices, removed, missed, job, target, polls, config, daemons>>

DropChallenges(p) ==
    /\ pc[p] = "dropChallenges"
    /\ \/ challenges' = {x \in challenges : x.id \notin target[p]}
       \/ Unreliable /\ UNCHANGED challenges
    /\ Goto(p, "dropRow")
    /\ UNCHANGED <<used, lapsed, devices, tokens, removed, missed, job, target, polls, config, daemons>>

DropRow(p) ==
    /\ pc[p] = "dropRow"
    /\ ChangeDevices({d \in devices : d.id \in target[p]}, {})
    /\ Finish(p)
    /\ UNCHANGED <<used, lapsed, tokens, missed, polls, config, daemons>>

-----------------------------------------------------------------------------
(* The daemon's hourly check.                                                *)

Clear(f, m) == [f EXCEPT ![m] = {}]

\* (mutant of GraceEnds: no grace period)
GraceEndsAtOnce(m) ==
    /\ m \in fresh \cap Daemons
    /\ fresh' = fresh \ {m}
    /\ UNCHANGED <<server, handlers, polls, config, loaded, attempt>>

\* Two minutes are longer than a registration takes.  The login the daemon has loaded is no
\* younger than the one that is saved.
GraceEnds(m) ==
    /\ m \in fresh \cap Daemons
    /\ \A p \in Procs : \A l \in config[m] \cup loaded[m] : \A j \in job[p] :
          pc[p] = "register" => j.challenge # l.device
    /\ fresh' = fresh \ {m}
    /\ UNCHANGED <<server, handlers, polls, config, loaded, attempt>>

\* The login is loaded; within the grace period it is not validated.
BeginCheck(m) ==
    /\ m \in Daemons
    /\ loaded[m] = {} /\ config[m] # {}
    /\ loaded' = [loaded EXCEPT ![m] = config[m]]
    /\ attempt' = [attempt EXCEPT ![m] = IF m \in fresh THEN Attempts + 1 ELSE 1]
    /\ UNCHANGED <<server, handlers, polls, config, fresh>>

Validating(m) == loaded[m] # {} /\ attempt[m] <= Attempts

ValidateOk(m) ==
    /\ Validating(m)
    /\ \E l \in loaded[m] : l.live /\ Registered(l.device, l.token.user)
    /\ attempt' = [attempt EXCEPT ![m] = Attempts + 1]
    /\ UNCHANGED <<server, handlers, polls, config, fresh, loaded>>

\* (mutant of ValidateGone: a 404 is retried forever)
ValidateGoneAgain(m) ==
    /\ Validating(m)
    /\ \E l \in loaded[m] : l.live /\ ~Registered(l.device, l.token.user)
    /\ attempt' = [attempt EXCEPT ![m] = 1]
    /\ UNCHANGED <<server, handlers, polls, config, fresh, loaded>>

\* (mutant of ValidateGone: a 401 or a lost connection counts as a 404)
ValidateGoneOnError(m) ==
    /\ Validating(m)
    /\ Unreliable \/ \E l \in loaded[m] : ~l.live \/ ~Registered(l.device, l.token.user)
    /\ IF attempt[m] < Attempts
       THEN /\ attempt' = [attempt EXCEPT ![m] = @ + 1]
            /\ UNCHANGED <<config, loaded>>
       ELSE /\ config' = Clear(config, m)
            /\ loaded' = Clear(loaded, m)
            /\ attempt' = [attempt EXCEPT ![m] = 1]
    /\ UNCHANGED <<server, handlers, polls, fresh>>

\* 404, which is the answer to any error of the lookup as well: retried, and believed the
\* last time; the file is deleted, whatever login it holds by then.
ValidateGone(m) ==
    /\ Validating(m)
    /\ \E l \in loaded[m] : l.live /\ (LookupFails \/ ~Registered(l.device, l.token.user))
    /\ IF attempt[m] < Attempts
       THEN /\ attempt' = [attempt EXCEPT ![m] = @ + 1]
            /\ UNCHANGED <<config, loaded>>
       ELSE /\ config' = Clear(config, m)
            /\ loaded' = Clear(loaded, m)
            /\ attempt' = [attempt EXCEPT ![m] = 1]
    /\ UNCHANGED <<server, handlers, polls, fresh>>

\* Any other failure (no connection, JWT expired): after the last, go on.
ValidateFails(m) ==
    /\ Validating(m)
    /\ Unreliable \/ \E l \in loaded[m] : ~l.live
    /\ attempt' = [attempt EXCEPT ![m] = @ + 1]
    /\ UNCHANGED <<server, handlers, polls, config, fresh, loaded>>

\* A JWT close to its end is renewed with the refresh token, and the login that was
\* loaded is written back.
Refresh(m) ==
    /\ loaded[m] # {} /\ attempt[m] = Attempts + 1
    /\ \/ \E l \in loaded[m] :
             /\ l.token \in tokens
             /\ config' = [config EXCEPT ![m] = {[l EXCEPT !.live = TRUE]}]
       \/ /\ Unreliable \/ \E l \in loaded[m] : l.live \/ l.token \notin tokens
          /\ UNCHANGED config
    /\ loaded' = Clear(loaded, m)
    /\ attempt' = [attempt EXCEPT ![m] = 1]
    /\ UNCHANGED <<server, handlers, polls, fresh>>

Lapsing(m) ==
    /\ JwtLapses
    /\ loaded[m] = {} /\ \E l \in config[m] : l.live
    /\ config' = [config EXCEPT ![m] = {[l EXCEPT !.live = FALSE] : l \in config[m]}]
    /\ UNCHANGED <<server, handlers, polls, daemons>>

\* `roamie auth logout`, after its request to delete the device: the daemon is
\* stopped and the login deleted.
Logout(m) ==
    /\ config[m] # {}
    /\ config' = Clear(config, m)
    /\ loaded' = Clear(loaded, m)
    /\ attempt' = [attempt EXCEPT ![m] = 1]
    /\ UNCHANGED <<server, handlers, polls, fresh>>

-----------------------------------------------------------------------------
Init ==
    /\ challenges = {} /\ used = {} /\ lapsed = {}
    /\ devices = {} /\ tokens = {} /\ removed = {} /\ missed = {}
    /\ pc = [p \in Procs |-> "idle"]
    /\ job = [p \in Procs |-> {}]
    /\ target = [p \in Procs |-> {}]
    /\ waiting = [m \in Machines |-> {}]
    /\ answer = [m \in Machines |-> {}]
    /\ issued = {}
    /\ config = [m \in Machines |-> {}]
    /\ fresh = {}
    /\ loaded = [m \in Machines |-> {}]
    /\ attempt = [m \in Machines |-> 1]

Login(m) ==
    \/ \E c \in Challenges : StartLogin(m, c)
    \/ GiveUp(m) \/ Poll(m) \/ IssueToken(m) \/ Answer(m) \/ LosePoll(m)

Clock == ExpireOld \/ \E c \in Challenges : Lapse(c)

Handler(p) ==
    \/ \E j \in Job : BeginDecision(p, j) \/ BeginAdmin(p, j)
    \/ Decide(p) \/ Register(p) \/ Bind(p)
    \/ AdminRegister(p) \/ AdminDecide(p)
    \/ \E d \in devices : BeginDelete(p, d) \/ BeginAdminDelete(p, d)
    \/ DropTokens(p) \/ DropChallenges(p) \/ DropRow(p)

Check(m) ==
    \/ BeginCheck(m) \/ ValidateOk(m) \/ ValidateGone(m) \/ ValidateFails(m) \/ Refresh(m)

Next ==
    \/ \E m \in Machines : Login(m) \/ GraceEnds(m) \/ Check(m) \/ Lapsing(m) \/ Logout(m)
    \/ Clock
    \/ \E p \in Procs : Handler(p)

Spec == Init /\ [][Next]_vars

\* The daemon's ticker fires every hour and its calls return; handlers run to the
\* end; time passes.  Nothing is assumed of users, machines or administrators.
Fairness ==
    /\ \A m \in Machines : WF_vars(GraceEnds(m)) /\ WF_vars(Check(m))
    /\ \A p \in Procs : WF_vars(Decide(p) \/ Register(p) \/ Bind(p) \/ AdminRegister(p)
                               \/ AdminDecide(p) \/ DropTokens(p) \/ DropChallenges(p)
                               \/ DropRow(p))

FairSpec == Spec /\ Fairness

-----------------------------------------------------------------------------
(* Properties.                                                               *)

Steps == {"idle", "decide", "register", "bind", "adminRegister", "adminDecide",
          "dropTokens", "dropChallenges", "dropRow"}

\* Every variable keeps its type.
TypeOK ==
    /\ challenges \subseteq Challenge /\ devices \subseteq Device /\ tokens \subseteq Token
    /\ used \subseteq Challenges /\ lapsed \subseteq used /\ removed \subseteq DeviceIds
    /\ missed \subseteq Challenges
    /\ pc \in [Procs -> Steps]
    /\ job \in [Procs -> SUBSET Job] /\ target \in [Procs -> SUBSET DeviceIds]
    /\ waiting \in [Machines -> SUBSET Challenges]
    /\ answer \in [Machines -> SUBSET {x \in Decided : x.status = "approved"}]
    /\ issued \subseteq Machines /\ fresh \subseteq Machines
    /\ config \in [Machines -> SUBSET Config] /\ loaded \in [Machines -> SUBSET Config]
    /\ attempt \in [Machines -> 1..Attempts + 1]

\* The login c is on record as approved by u, or is on record no more.
Approved(c, u) == \A x \in ById(c) : x.status = "approved" /\ x.user = u

\* Whatever two users decide about one challenge at the same moment, only the user
\* whose approval is on record gets a device under the id the machine generated, a
\* refresh token for it, and the machine itself.
OnlyTheApprover ==
    /\ \A d \in devices : Approved(d.id, d.user)
    /\ \A t \in tokens : Approved(t.device, t.user)
    /\ \A m \in Machines : \A l \in config[m] :
          Approved(l.device, l.token.user) /\ MachineOf[l.device] = m

\* The verdict of a challenge as ChallengeVerdict sees it.
VerdictIn(rows, ever, c) ==
    LET row == {x \in rows : x.id = c}
        x   == CHOOSE x \in row : TRUE
    IN  [status |-> IF c \notin ever THEN "new"
                    ELSE IF row = {} THEN "forgotten" ELSE x.status,
         by |-> IF row = {} THEN NoUser ELSE x.user]

VerdictMap == [c \in Challenges |-> VerdictIn(challenges, used, c)]

Abstract == INSTANCE ChallengeVerdict WITH verdict <- VerdictMap

\* A challenge is decided once: the handlers implement ChallengeVerdict.
DecidedOnce == Abstract!Spec

\* A login that a daemon validates and gives up is of a device that has been deleted, or its
\* approval left no device under the id it polls: the registration was refused, or came from
\* an administrator and got an id of the server's.  It is never one whose registration is
\* still to come, nor one whose calls merely failed.
CleanupJustified ==
    [][\A m \in Machines : \A l \in loaded[m] :
          ValidateGone(m) /\ loaded'[m] = {} => l.device \in removed \cup missed]_vars

\* A machine whose device has been deleted is logged out sooner or later.
DeletedLogsOut ==
    \A m \in Machines : \A c \in Challenges :
        (\E l \in config[m] : l.device = c) /\ c \in removed
            ~> ~\E l \in config[m] : l.device = c

=============================================================================
