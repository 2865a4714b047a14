-------------------------- MODULE DeviceAuth_proofs --------------------------
(* Proofs about logins by QR code: types, that only the approver's login is  *)
(* ever acted on, that the handlers implement ChallengeVerdict, and that the *)
(* daemon gives a login up only when its device is gone for good or its      *)
(* approval never left one.                                                  *)
EXTENDS DeviceAuth, TLAPS

-----------------------------------------------------------------------------
(* Types.                                                                    *)

LEMMA InitTypes == Init => TypeOK
  BY DeviceAuthAssumption DEF DeviceAuthAssumption, Init, TypeOK, Steps

LEMMA LoginTypes ==
  ASSUME TypeOK, NEW m \in Machines, Login(m) PROVE TypeOK'
<1> USE DEF TypeOK, StopPolling, server, handlers, daemons
<1>1. ASSUME NEW c \in Challenges, StartLogin(m, c) PROVE TypeOK'
  BY <1>1 DEF StartLogin, Challenge, Undecided
<1>2. CASE GiveUp(m)
  BY <1>2 DEF GiveUp
<1>3. CASE Poll(m)
  <2>1. \A c : \A x \in ById(c) : x.status = "approved" =>
             x \in {y \in Decided : y.status = "approved"}
    BY DEF ById, Challenge, Undecided
  <2>2. QED
    BY <1>3, <2>1 DEF Poll
<1>4. CASE IssueToken(m)
  <2>1. PICK x \in answer[m] :
          tokens' = tokens \cup {[user |-> x.user, device |-> TokenDevice(x)]}
    BY <1>4 DEF IssueToken
  <2>2. [user |-> x.user, device |-> TokenDevice(x)] \in Token
    BY DEF Token, TokenDevice, Decided, DeviceIds
  <2>3. QED
    BY <1>4, <2>1, <2>2 DEF IssueToken
<1>5. CASE Answer(m)
  <2>1. PICK x \in answer[m] :
          config' = [config EXCEPT ![m] =
             {[device |-> x.id, live |-> TRUE,
               token |-> [user |-> x.user, device |-> TokenDevice(x)],
               vpn |-> x.wg # NoDevice /\ \E d \in devices : d.id = x.wg]}]
    BY <1>5 DEF Answer
  <2>2. [user |-> x.user, device |-> TokenDevice(x)] \in Token
    BY DEF Token, TokenDevice, Decided, DeviceIds
  <2>3. x.id \in Challenges
    BY DEF Decided
  <2>4. (x.wg # NoDevice /\ \E d \in devices : d.id = x.wg) \in BOOLEAN
    OBVIOUS
  <2>5. config' \in [Machines -> SUBSET Config]
    BY <2>1, <2>2, <2>3, <2>4 DEF Config
  <2>6. QED
    BY <1>5, <2>5 DEF Answer
<1>6. CASE LosePoll(m)
  BY <1>6 DEF LosePoll
<1>7. QED
  BY <1>1, <1>2, <1>3, <1>4, <1>5, <1>6 DEF Login

LEMMA ClockTypes == ASSUME TypeOK, Clock PROVE TypeOK'
<1> USE DEF TypeOK, handlers, polls, daemons
<1>1. CASE ExpireOld
  <2>1. \A x \in challenges :
          [x EXCEPT !.status = IF @ = "pending" /\ x.id \in lapsed THEN "expired" ELSE @]
            \in Challenge
    BY DEF Challenge, Undecided, Decided
  <2>2. QED
    BY <1>1, <2>1 DEF ExpireOld
<1>2. ASSUME NEW c \in Challenges, Lapse(c) PROVE TypeOK'
  BY <1>2 DEF Lapse
<1>3. QED
  BY <1>1, <1>2 DEF Clock

LEMMA FinishTypes ==
  ASSUME TypeOK, NEW p \in Procs, Finish(p)
  PROVE  /\ pc' \in [Procs -> Steps]
         /\ job' \in [Procs -> SUBSET Job]
         /\ target' \in [Procs -> SUBSET DeviceIds]
  BY DEF TypeOK, Finish, Steps

LEMMA ChangeDevicesTypes ==
  ASSUME TypeOK, NEW gone \in SUBSET devices, NEW add \in SUBSET Device,
         ChangeDevices(gone, add)
  PROVE  challenges' \subseteq Challenge /\ devices' \subseteq Device
         /\ removed' \subseteq DeviceIds
<1>1. \A x \in challenges :
        [x EXCEPT !.wg = IF \E d \in gone : d.id = @ THEN NoDevice ELSE @] \in Challenge
  BY DEF TypeOK, Challenge, Undecided, Decided
<1>2. challenges' \subseteq Challenge
  BY <1>1 DEF ChangeDevices
<1>3. devices' \subseteq Device
  BY DEF TypeOK, ChangeDevices
<1>4. {d.id : d \in gone} \subseteq DeviceIds
  BY DEF TypeOK, Device
<1>5. removed' = removed \cup {d.id : d \in gone}
  BY DEF ChangeDevices
<1>6. removed' \subseteq DeviceIds
  BY <1>4, <1>5 DEF TypeOK
<1>7. QED
  BY <1>2, <1>3, <1>6

LEMMA UpdateTypes ==
  ASSUME TypeOK, NEW j \in Job, Update(j) PROVE challenges' \subseteq Challenge
<1>1. ASSUME NEW x \in challenges
      PROVE  [id |-> x.id, status |-> IF j.approve THEN "approved" ELSE "denied",
              user |-> j.user, wg |-> x.wg] \in Challenge
  BY DEF TypeOK, Job, Challenge, Undecided, Decided
<1>2. QED
  BY <1>1 DEF Update, TypeOK

LEMMA RegisterTypes ==
  ASSUME TypeOK, NEW p \in Procs, NEW j \in job[p], NEW i \in DeviceIds,
         NEW next \in Steps, RegisterAs(p, j, i, next) \/ RegisterRefused(p, j)
  PROVE  /\ challenges' \subseteq Challenge /\ devices' \subseteq Device
         /\ removed' \subseteq DeviceIds
         /\ pc' \in [Procs -> Steps]
         /\ job' \in [Procs -> SUBSET Job]
         /\ target' \in [Procs -> SUBSET DeviceIds]
<1> DEFINE new == [id |-> i, user |-> j.user, key |-> j.challenge,
                   machine |-> MachineOf[j.challenge]]
<1>1. j \in Job
  BY DEF TypeOK
<1>2. new \in Device
  BY <1>1, DeviceAuthAssumption DEF DeviceAuthAssumption, Job, Device
<1>3. Replaced(j) \in SUBSET devices
  BY DEF Replaced
<1>4. CASE RegisterRefused(p, j)
  <2>1. PICK gone \in {{}, Replaced(j)} : ChangeDevices(gone, {})
    BY <1>4 DEF RegisterRefused
  <2>2. Finish(p)
    BY <1>4 DEF RegisterRefused
  <2>3. QED
    BY <1>3, <2>1, <2>2, ChangeDevicesTypes, FinishTypes
<1>5. CASE ChangeDevices(Replaced(j), {new}) /\ target' = [target EXCEPT ![p] = {i}]
           /\ Goto(p, next) /\ UNCHANGED job
  <2>1. challenges' \subseteq Challenge /\ devices' \subseteq Device
        /\ removed' \subseteq DeviceIds
    BY <1>2, <1>3, <1>5, ChangeDevicesTypes
  <2>2. QED
    BY <1>5, <2>1 DEF TypeOK, Goto
<1>6. CASE /\ target' = [target EXCEPT ![p] = {d.id : d \in SameKey(j)}]
           /\ Goto(p, next) /\ UNCHANGED <<job, devices, removed, challenges>>
  <2>1. {d.id : d \in SameKey(j)} \in SUBSET DeviceIds
    BY DEF TypeOK, Device, SameKey
  <2>2. QED
    BY <1>6, <2>1 DEF TypeOK, Goto
<1>7. QED
  BY <1>4, <1>5, <1>6 DEF RegisterAs

LEMMA HandlerTypes ==
  ASSUME TypeOK, NEW p \in Procs, Handler(p) PROVE TypeOK'
<1> USE DEF server, polls, daemons, Goto
<1>1. ASSUME NEW j \in Job, BeginDecision(p, j) \/ BeginAdmin(p, j) PROVE TypeOK'
  BY <1>1 DEF TypeOK, Steps, BeginDecision, BeginAdmin
<1>2. CASE Decide(p)
  BY <1>2, FinishTypes, UpdateTypes DEF TypeOK, Steps, Decide
<1>3. CASE Register(p)
  <2>1. PICK j \in job[p] :
          /\ RegisterAs(p, j, j.challenge, "bind") \/ RegisterRefused(p, j)
          /\ missed' \in {missed, missed \cup {j.challenge}}
    BY <1>3 DEF Register
  <2>2. j.challenge \in Challenges
    BY DEF TypeOK, Job
  <2>3. "bind" \in Steps /\ j.challenge \in DeviceIds
    BY <2>2 DEF Steps, DeviceIds
  <2>4. missed' \subseteq Challenges
    BY <2>1, <2>2 DEF TypeOK
  <2>5. /\ challenges' \subseteq Challenge /\ devices' \subseteq Device
        /\ removed' \subseteq DeviceIds
        /\ pc' \in [Procs -> Steps]
        /\ job' \in [Procs -> SUBSET Job]
        /\ target' \in [Procs -> SUBSET DeviceIds]
    BY <2>1, <2>3, RegisterTypes
  <2>6. QED
    BY <1>3, <2>4, <2>5 DEF Register, TypeOK
<1>4. CASE Bind(p)
  <2>1. PICK j \in job[p], i \in target[p] :
          challenges' = {IF x.id = j.challenge /\ \E d \in devices : d.id = i
                         THEN [x EXCEPT !.wg = i] ELSE x : x \in challenges}
    BY <1>4 DEF Bind
  <2>2. \A x \in challenges : [x EXCEPT !.wg = i] \in Challenge
    BY DEF TypeOK, Challenge, Undecided, Decided
  <2>3. challenges' \subseteq Challenge
    BY <2>1, <2>2 DEF TypeOK
  <2>4. QED
    BY <1>4, <2>3, FinishTypes DEF TypeOK, Bind
<1>5. CASE AdminRegister(p)
  <2>1. PICK j \in job[p], i \in ServerIds :
          RegisterAs(p, j, i, "adminDecide") \/ RegisterRefused(p, j)
    BY <1>5 DEF AdminRegister
  <2>2. i \in DeviceIds /\ "adminDecide" \in Steps
    BY DEF DeviceIds, Steps
  <2>3. /\ challenges' \subseteq Challenge /\ devices' \subseteq Device
        /\ removed' \subseteq DeviceIds
        /\ pc' \in [Procs -> Steps]
        /\ job' \in [Procs -> SUBSET Job]
        /\ target' \in [Procs -> SUBSET DeviceIds]
    BY <2>1, <2>2, RegisterTypes
  <2>4. QED
    BY <1>5, <2>3 DEF AdminRegister, TypeOK
<1>6. CASE AdminDecide(p)
  <2>1. PICK j \in job[p] : missed' \in {missed, missed \cup {j.challenge}}
    BY <1>6 DEF AdminDecide
  <2>2. missed' \subseteq Challenges
    BY <2>1 DEF TypeOK, Job
  <2>3. QED
    BY <1>6, <2>2, FinishTypes, UpdateTypes DEF TypeOK, Steps, AdminDecide
<1>7. ASSUME NEW d \in devices, BeginDelete(p, d) \/ BeginAdminDelete(p, d) PROVE TypeOK'
  BY <1>7 DEF TypeOK, Steps, Device, BeginDelete, BeginAdminDelete
<1>8. CASE DropTokens(p)
  BY <1>8 DEF TypeOK, Steps, DropTokens
<1>9. CASE DropChallenges(p)
  BY <1>9 DEF TypeOK, Steps, DropChallenges
<1>10. CASE DropRow(p)
  <2>1. {d \in devices : d.id \in target[p]} \in SUBSET devices
    OBVIOUS
  <2>2. /\ ChangeDevices({d \in devices : d.id \in target[p]}, {}) /\ Finish(p)
        /\ UNCHANGED <<used, lapsed, tokens, missed, polls, config, daemons>>
    BY <1>10 DEF DropRow
  <2>3. {} \in SUBSET Device
    OBVIOUS
  <2>4. challenges' \subseteq Challenge /\ devices' \subseteq Device
        /\ removed' \subseteq DeviceIds
    BY <2>1, <2>2, <2>3, ChangeDevicesTypes
  <2>5. QED
    BY <2>2, <2>4, FinishTypes DEF TypeOK
<1>11. QED
  BY <1>1, <1>2, <1>3, <1>4, <1>5, <1>6, <1>7, <1>8, <1>9, <1>10 DEF Handler

LEMMA DaemonTypes ==
  ASSUME TypeOK, NEW m \in Machines, GraceEnds(m) \/ Check(m) \/ Lapsing(m) \/ Logout(m)
  PROVE  TypeOK'
<1> USE DeviceAuthAssumption DEF DeviceAuthAssumption, TypeOK, server, handlers, polls, daemons,
    Clear, Validating
<1>1. CASE GraceEnds(m)
  BY <1>1 DEF GraceEnds
<1>2. CASE BeginCheck(m)
  BY <1>2 DEF BeginCheck
<1>3. CASE ValidateOk(m)
  BY <1>3 DEF ValidateOk
<1>4. CASE ValidateGone(m)
  BY <1>4 DEF ValidateGone
<1>5. CASE ValidateFails(m)
  <2>1. attempt[m] + 1 \in 1..Attempts + 1
    BY <1>5 DEF ValidateFails
  <2>2. QED
    BY <1>5, <2>1 DEF ValidateFails
<1>6. CASE Refresh(m)
  <2>1. \A l \in Config : [l EXCEPT !.live = TRUE] \in Config
    BY DEF Config
  <2>2. config' \in [Machines -> SUBSET Config]
    BY <1>6, <2>1 DEF Refresh
  <2>3. 1 \in 1..Attempts + 1
    OBVIOUS
  <2>4. QED
    BY <1>6, <2>2, <2>3 DEF Refresh
<1>7. CASE Lapsing(m)
  <2>1. \A l \in Config : [l EXCEPT !.live = FALSE] \in Config
    BY DEF Config
  <2>2. {[l EXCEPT !.live = FALSE] : l \in config[m]} \subseteq Config
    BY <2>1
  <2>3. config' \in [Machines -> SUBSET Config]
    BY <1>7, <2>2 DEF Lapsing
  <2>4. QED
    BY <1>7, <2>3 DEF Lapsing
<1>8. CASE Logout(m)
  BY <1>8 DEF Logout
<1>9. QED
  BY <1>1, <1>2, <1>3, <1>4, <1>5, <1>6, <1>7, <1>8 DEF Check

LEMMA StepTypes == ASSUME TypeOK, [Next]_vars PROVE TypeOK'
<1>1. CASE UNCHANGED vars
  BY <1>1 DEF TypeOK, vars
<1>2. QED
  BY <1>1, LoginTypes, ClockTypes, HandlerTypes, DaemonTypes DEF Next

\* Every variable keeps its type, whatever the number of machines and handlers.
THEOREM TypeCorrect == Spec => []TypeOK
  BY InitTypes, StepTypes, PTL DEF Spec

-----------------------------------------------------------------------------
(* Only the approver's login is ever acted on.  Everything that names a      *)
(* device and a user - rows, tokens, logins, answers under way, handlers -   *)
(* does so on the strength of an approval that no later step can change.     *)

\* i is a device of u's: the id generated by a login that u approved, or one
\* generated by the server.
Granted(i, u) == (i \in Challenges => i \in used) /\ Approved(i, u)

RowsGranted ==
    /\ \A x \in challenges : x.id \in used
    /\ \A x, y \in challenges : x.id = y.id => x = y
    /\ \A x \in challenges : x.wg # NoDevice => x.status = "approved" /\ Granted(x.wg, x.user)

DevicesGranted == \A d \in devices : Granted(d.id, d.user)

TokensGranted == \A t \in tokens : Granted(t.device, t.user)

AnswersGranted ==
    \A m \in Machines :
        /\ \A c \in waiting[m] : MachineOf[c] = m
        /\ \A x \in answer[m] :
              /\ MachineOf[x.id] = m /\ Granted(x.id, x.user)
              /\ x.wg # NoDevice => Granted(x.wg, x.user)

LoginsGranted ==
    \A m \in Machines : \A l \in config[m] \cup loaded[m] :
        MachineOf[l.device] = m /\ Granted(l.device, l.token.user)

JobFor(p) ==
    \A j \in job[p] :
        /\ \A k \in job[p] : k = j
        /\ pc[p] \in {"adminRegister", "adminDecide"} => j.approve
        /\ pc[p] \in {"register", "bind"} => Granted(j.challenge, j.user)
        /\ pc[p] \in {"bind", "adminDecide"} => \A i \in target[p] : Granted(i, j.user)

JobsGranted == \A p \in Procs : JobFor(p)

GrantInv ==
    /\ TypeOK /\ RowsGranted /\ DevicesGranted /\ TokensGranted
    /\ AnswersGranted /\ LoginsGranted /\ JobsGranted

\* What a step may do to the rows: only an undecided row changes its verdict, ids
\* stay unique, and a wg_device_id is one granted before the step.
RowStep ==
    /\ used \subseteq used'
    /\ \A y \in challenges' :
          \/ y.id \in used' \ used
          \/ \E x \in challenges :
                /\ x.id = y.id
                /\ x.status = "pending" \/ (x.status = y.status /\ x.user = y.user)
    /\ \A y, z \in challenges' : y.id = z.id => y = z
    /\ \A y \in challenges' : y.wg # NoDevice => y.status = "approved" /\ Granted(y.wg, y.user)

LEMMA RowsUnchanged == ASSUME RowsGranted, UNCHANGED <<challenges, used>> PROVE RowStep
  BY DEF RowsGranted, RowStep

LEMMA RowsStart ==
  ASSUME TypeOK, RowsGranted, NEW m \in Machines, NEW c \in Challenges, StartLogin(m, c)
  PROVE  RowStep
  BY DEF RowsGranted, RowStep, StartLogin

LEMMA RowsDropped ==
  ASSUME RowsGranted, challenges' \subseteq challenges, used' = used PROVE RowStep
  BY DEF RowsGranted, RowStep

LEMMA RowsExpire == ASSUME TypeOK, RowsGranted, ExpireOld PROVE RowStep
<1> DEFINE F(x) == [x EXCEPT !.status = IF @ = "pending" /\ x.id \in lapsed
                                        THEN "expired" ELSE @]
<1>1. challenges' = {F(x) : x \in challenges} /\ used' = used
  BY DEF ExpireOld
<1>2. ASSUME NEW x \in challenges
      PROVE  /\ F(x).id = x.id /\ F(x).wg = x.wg /\ F(x).user = x.user
             /\ x.status = "pending" \/ F(x).status = x.status
  BY DEF TypeOK, Challenge, Undecided, Decided
<1>3. \A y \in challenges' : \E x \in challenges : y = F(x)
  BY <1>1
<1> HIDE DEF F
<1>4. \A y, z \in challenges' : y.id = z.id => y = z
  BY <1>2, <1>3 DEF RowsGranted
<1>5. ASSUME NEW y \in challenges', y.wg # NoDevice
      PROVE  y.status = "approved" /\ Granted(y.wg, y.user)
  <2>1. PICK x \in challenges : y = F(x)
    BY <1>3
  <2>2. x.status = "approved" /\ Granted(x.wg, x.user)
    BY <1>2, <1>5, <2>1 DEF RowsGranted
  <2>3. QED
    BY <1>2, <2>1, <2>2
<1>6. QED
  BY <1>1, <1>2, <1>3, <1>4, <1>5 DEF RowStep

LEMMA RowsUpdate ==
  ASSUME TypeOK, RowsGranted, NEW j \in Job, Open(j.challenge), Update(j), used' = used
  PROVE  RowStep /\ (j.approve => Granted(j.challenge, j.user)')
<1> DEFINE G(x) == IF x.id = j.challenge
                   THEN [id |-> x.id, status |-> IF j.approve THEN "approved" ELSE "denied",
                         user |-> j.user, wg |-> x.wg]
                   ELSE x
<1>1. challenges' = {G(x) : x \in challenges}
  BY DEF Update
<1>2. \A x \in challenges : x.id = j.challenge => x.status = "pending" /\ x.wg = NoDevice
  BY DEF Open, ById, RowsGranted
<1>3. j.challenge \in used
  BY DEF Open, ById, RowsGranted
<1>4. ASSUME NEW x \in challenges
      PROVE  /\ G(x).id = x.id /\ G(x).wg = x.wg
             /\ x.id # j.challenge => G(x) = x
             /\ x.id = j.challenge /\ j.approve =>
                    G(x).status = "approved" /\ G(x).user = j.user
  OBVIOUS
<1>5. \A y \in challenges' : \E x \in challenges : y = G(x)
  BY <1>1
<1> HIDE DEF G
<1>6. \A y, z \in challenges' : y.id = z.id => y = z
  BY <1>4, <1>5 DEF RowsGranted
<1>7. ASSUME NEW y \in challenges', y.wg # NoDevice
      PROVE  y.status = "approved" /\ Granted(y.wg, y.user)
  <2>1. PICK x \in challenges : y = G(x)
    BY <1>5
  <2>2. y = x
    BY <1>2, <1>4, <1>7, <2>1
  <2>3. QED
    BY <1>7, <2>2 DEF RowsGranted
<1>8. ASSUME NEW y \in challenges'
      PROVE  \E x \in challenges :
                /\ x.id = y.id
                /\ x.status = "pending" \/ (x.status = y.status /\ x.user = y.user)
  <2>1. PICK x \in challenges : y = G(x)
    BY <1>5
  <2>2. x.id = y.id /\ (x.status = "pending" \/ y = x)
    BY <1>2, <1>4, <2>1
  <2>3. QED
    BY <2>2
<1>9. ASSUME j.approve PROVE Granted(j.challenge, j.user)'
  <2>1. \A y \in challenges' : y.id = j.challenge => y.status = "approved" /\ y.user = j.user
    BY <1>4, <1>5, <1>9
  <2>2. QED
    BY <1>3, <2>1 DEF Granted, Approved, ById
<1>10. QED
  BY <1>6, <1>7, <1>8, <1>9 DEF RowStep

LEMMA RowsChangeDevices ==
  ASSUME RowsGranted, TypeOK, NEW gone, NEW add, ChangeDevices(gone, add), used' = used
  PROVE  RowStep
<1> DEFINE H(x) == [x EXCEPT !.wg = IF \E d \in gone : d.id = @ THEN NoDevice ELSE @]
<1>1. challenges' = {H(x) : x \in challenges}
  BY DEF ChangeDevices
<1>2. ASSUME NEW x \in challenges
      PROVE  /\ H(x).id = x.id /\ H(x).status = x.status /\ H(x).user = x.user
             /\ H(x).wg = x.wg \/ H(x).wg = NoDevice
  BY DEF TypeOK, Challenge, Undecided, Decided
<1>3. \A y \in challenges' : \E x \in challenges : y = H(x)
  BY <1>1
<1> HIDE DEF H
<1>4. \A y, z \in challenges' : y.id = z.id => y = z
  BY <1>2, <1>3 DEF RowsGranted
<1>5. ASSUME NEW y \in challenges', y.wg # NoDevice
      PROVE  y.status = "approved" /\ Granted(y.wg, y.user)
  BY <1>2, <1>3, <1>5 DEF RowsGranted
<1>6. \A y \in challenges' : \E x \in challenges :
         x.id = y.id /\ x.status = y.status /\ x.user = y.user
  BY <1>2, <1>3
<1>7. QED
  BY <1>4, <1>5, <1>6 DEF RowStep

LEMMA RowsBind ==
  ASSUME TypeOK, RowsGranted, JobsGranted, NEW p \in Procs, Bind(p) PROVE RowStep
<1>1. PICK j \in job[p], i \in target[p] :
        challenges' = {IF x.id = j.challenge /\ \E d \in devices : d.id = i
                       THEN [x EXCEPT !.wg = i] ELSE x : x \in challenges}
  BY DEF Bind
<1> DEFINE B(x) == IF x.id = j.challenge /\ \E d \in devices : d.id = i
                   THEN [x EXCEPT !.wg = i] ELSE x
<1>2. Granted(j.challenge, j.user) /\ Granted(i, j.user)
  BY DEF Bind, JobsGranted, JobFor
<1>3. ASSUME NEW x \in challenges
      PROVE  /\ B(x).id = x.id /\ B(x).status = x.status /\ B(x).user = x.user
             /\ B(x).wg = x.wg \/ (B(x).wg = i /\ x.id = j.challenge)
  BY DEF TypeOK, Challenge, Undecided, Decided
<1>4. \A y \in challenges' : \E x \in challenges : y = B(x)
  BY <1>1
<1> HIDE DEF B
<1>5. \A y, z \in challenges' : y.id = z.id => y = z
  BY <1>3, <1>4 DEF RowsGranted
<1>6. ASSUME NEW y \in challenges', y.wg # NoDevice
      PROVE  y.status = "approved" /\ Granted(y.wg, y.user)
  <2>1. PICK x \in challenges : y = B(x)
    BY <1>4
  <2>2. CASE y.wg = x.wg
    BY <1>3, <1>6, <2>1, <2>2 DEF RowsGranted
  <2>3. CASE y.wg = i /\ x.id = j.challenge
    <3>1. x.status = "approved" /\ x.user = j.user
      BY <1>2, <2>3 DEF Granted, Approved, ById
    <3>2. QED
      BY <1>2, <1>3, <2>1, <2>3, <3>1
  <2>4. QED
    BY <1>3, <2>1, <2>2, <2>3
<1>7. \A y \in challenges' : \E x \in challenges :
         x.id = y.id /\ x.status = y.status /\ x.user = y.user
  BY <1>3, <1>4
<1>8. QED
  BY <1>5, <1>6, <1>7 DEF RowStep, Bind

LEMMA RegisterRows ==
  ASSUME TypeOK, RowsGranted, NEW p \in Procs, NEW j \in job[p], NEW i, NEW next,
         RegisterAs(p, j, i, next) \/ RegisterRefused(p, j), used' = used
  PROVE  RowStep
<1>1. ASSUME UNCHANGED challenges PROVE RowStep
  BY <1>1, RowsUnchanged
<1>2. ASSUME NEW gone, NEW add, ChangeDevices(gone, add) PROVE RowStep
  BY <1>2, RowsChangeDevices
<1>3. QED
  BY <1>1, <1>2 DEF RegisterAs, RegisterRefused

LEMMA HandlerRows ==
  ASSUME TypeOK, RowsGranted, JobsGranted, NEW p \in Procs, Handler(p) PROVE RowStep
<1> USE DEF server
<1>1. ASSUME NEW j \in Job, BeginDecision(p, j) \/ BeginAdmin(p, j) PROVE RowStep
  BY <1>1, RowsUnchanged DEF BeginDecision, BeginAdmin
<1>2. CASE Decide(p) \/ AdminDecide(p)
  <2>1. used' = used
    BY <1>2 DEF Decide, AdminDecide
  <2>2. PICK j \in job[p] :
          UNCHANGED challenges \/ (Open(j.challenge) /\ Update(j))
    BY <1>2 DEF Decide, AdminDecide
  <2>3. j \in Job
    BY DEF TypeOK
  <2>4. QED
    BY <2>1, <2>2, <2>3, RowsUnchanged, RowsUpdate
<1>3. CASE Register(p) \/ AdminRegister(p)
  BY <1>3, RegisterRows DEF Register, AdminRegister
<1>4. CASE Bind(p)
  BY <1>4, RowsBind
<1>5. ASSUME NEW d \in devices, BeginDelete(p, d) \/ BeginAdminDelete(p, d) PROVE RowStep
  BY <1>5, RowsUnchanged DEF BeginDelete, BeginAdminDelete
<1>6. CASE DropTokens(p)
  BY <1>6, RowsUnchanged DEF DropTokens
<1>7. CASE DropChallenges(p)
  BY <1>7, RowsDropped DEF DropChallenges
<1>8. CASE DropRow(p)
  BY <1>8, RowsChangeDevices DEF DropRow
<1>9. QED
  BY <1>1, <1>2, <1>3, <1>4, <1>5, <1>6, <1>7, <1>8 DEF Handler

LEMMA NextRows ==
  ASSUME TypeOK, RowsGranted, JobsGranted, [Next]_vars PROVE RowStep
<1>1. CASE UNCHANGED vars
  BY <1>1, RowsUnchanged DEF vars
<1>2. ASSUME NEW m \in Machines, Login(m) PROVE RowStep
  BY <1>2, RowsStart, RowsUnchanged
     DEF Login, server, GiveUp, Poll, IssueToken, Answer, LosePoll
<1>3. CASE ExpireOld
  BY <1>3, RowsExpire
<1>4. ASSUME NEW c \in Challenges, Lapse(c) PROVE RowStep
  BY <1>4, RowsUnchanged DEF Lapse
<1>5. ASSUME NEW p \in Procs, Handler(p) PROVE RowStep
  BY <1>5, HandlerRows
<1>6. ASSUME NEW m \in Machines, GraceEnds(m) \/ Check(m) \/ Lapsing(m) \/ Logout(m)
      PROVE  RowStep
  BY <1>6, RowsUnchanged DEF server, GraceEnds, Check, BeginCheck, ValidateOk, ValidateGone,
     ValidateFails, Refresh, Lapsing, Logout
<1>7. QED
  BY <1>1, <1>2, <1>3, <1>4, <1>5, <1>6 DEF Next, Clock

\* What has been granted stays granted.
LEMMA GrantedStays ==
  ASSUME TypeOK', RowStep, NEW i, NEW u, Granted(i, u) PROVE Granted(i, u)'
<1>1. ASSUME NEW y \in challenges', y.id = i PROVE y.status = "approved" /\ y.user = u
  <2>1. i \in Challenges
    BY <1>1 DEF TypeOK, Challenge, Undecided, Decided
  <2>2. PICK x \in challenges :
          x.id = i /\ (x.status = "pending" \/ (x.status = y.status /\ x.user = y.user))
    BY <1>1, <2>1 DEF RowStep, Granted
  <2>3. x.status = "approved" /\ x.user = u
    BY <2>2 DEF Granted, Approved, ById
  <2>4. QED
    BY <2>2, <2>3
<1>2. QED
  BY <1>1 DEF RowStep, Granted, Approved, ById

LEMMA RowsKeep ==
  ASSUME TypeOK', RowsGranted, RowStep PROVE RowsGranted'
<1>1. \A y \in challenges' : y.id \in used'
  BY DEF RowStep, RowsGranted
<1>2. \A y \in challenges' : y.wg # NoDevice => y.status = "approved" /\ Granted(y.wg, y.user)'
  BY GrantedStays DEF RowStep
<1>3. QED
  BY <1>1, <1>2 DEF RowStep, RowsGranted


LEMMA RegisterDevices ==
  ASSUME TypeOK, NEW p \in Procs, NEW j \in job[p], NEW i, NEW next,
         Granted(i, j.user),
         RegisterAs(p, j, i, next) \/ RegisterRefused(p, j)
  PROVE  \A d \in devices' : d \in devices \/ Granted(d.id, d.user)
  BY DEF RegisterAs, RegisterRefused, ChangeDevices

LEMMA ServerIdGranted ==
  ASSUME TypeOK, NEW i \in ServerIds, NEW u PROVE Granted(i, u)
<1>1. i \notin Challenges
  BY DeviceAuthAssumption DEF DeviceAuthAssumption
<1>2. \A x \in challenges : x.id \in Challenges
  BY DEF TypeOK, Challenge, Undecided, Decided
<1>3. QED
  BY <1>1, <1>2 DEF Granted, Approved, ById

LEMMA NextDevices ==
  ASSUME TypeOK, JobsGranted, [Next]_vars
  PROVE  \A d \in devices' : d \in devices \/ Granted(d.id, d.user)
<1> DEFINE Kept == \A d \in devices' : d \in devices \/ Granted(d.id, d.user)
<1> USE DEF server
<1>1. CASE UNCHANGED vars
  BY <1>1 DEF vars
<1>2. ASSUME NEW m \in Machines, Login(m) PROVE Kept
  BY <1>2 DEF Login, StartLogin, GiveUp, Poll, IssueToken, Answer, LosePoll
<1>3. CASE Clock
  BY <1>3 DEF Clock, ExpireOld, Lapse
<1>4. ASSUME NEW p \in Procs, Handler(p) PROVE Kept
  <2>1. CASE Register(p)
    <3>1. PICK j \in job[p] : RegisterAs(p, j, j.challenge, "bind") \/ RegisterRefused(p, j)
      BY <2>1 DEF Register
    <3>2. Granted(j.challenge, j.user)
      BY <2>1 DEF Register, JobsGranted, JobFor
    <3>3. QED
      BY <3>1, <3>2, RegisterDevices
  <2>2. CASE AdminRegister(p)
    <3>1. PICK j \in job[p], i \in ServerIds :
            RegisterAs(p, j, i, "adminDecide") \/ RegisterRefused(p, j)
      BY <2>2 DEF AdminRegister
    <3>2. QED
      BY <3>1, ServerIdGranted, RegisterDevices
  <2>3. CASE DropRow(p)
    BY <2>3 DEF DropRow, ChangeDevices
  <2>4. QED
    BY <1>4, <2>1, <2>2, <2>3
       DEF Handler, BeginDecision, BeginAdmin, Decide, AdminDecide, Bind, BeginDelete,
           BeginAdminDelete, DropTokens, DropChallenges
<1>5. ASSUME NEW m \in Machines, GraceEnds(m) \/ Check(m) \/ Lapsing(m) \/ Logout(m)
      PROVE  Kept
  BY <1>5 DEF GraceEnds, Check, BeginCheck, ValidateOk, ValidateGone, ValidateFails, Refresh,
     Lapsing, Logout
<1>6. QED
  BY <1>1, <1>2, <1>3, <1>4, <1>5 DEF Next

LEMMA NextTokens ==
  ASSUME AnswersGranted, [Next]_vars
  PROVE  \A t \in tokens' : t \in tokens \/ Granted(t.device, t.user)
<1> DEFINE Kept == \A t \in tokens' : t \in tokens \/ Granted(t.device, t.user)
<1> USE DEF server
<1>1. CASE UNCHANGED vars
  BY <1>1 DEF vars
<1>2. ASSUME NEW m \in Machines, Login(m) PROVE Kept
  <2>1. CASE IssueToken(m)
    <3>1. PICK x \in answer[m] :
            tokens' = tokens \cup {[user |-> x.user, device |-> TokenDevice(x)]}
      BY <2>1 DEF IssueToken
    <3>2. Granted(TokenDevice(x), x.user)
      BY DEF AnswersGranted, TokenDevice
    <3>3. QED
      BY <3>1, <3>2
  <2>2. QED
    BY <1>2, <2>1 DEF Login, StartLogin, GiveUp, Poll, Answer, LosePoll
<1>3. CASE Clock
  BY <1>3 DEF Clock, ExpireOld, Lapse
<1>4. ASSUME NEW p \in Procs, Handler(p) PROVE Kept
  BY <1>4 DEF Handler, BeginDecision, BeginAdmin, Decide, Register, Bind, AdminRegister,
     AdminDecide, BeginDelete, BeginAdminDelete, DropTokens, DropChallenges, DropRow
<1>5. ASSUME NEW m \in Machines, GraceEnds(m) \/ Check(m) \/ Lapsing(m) \/ Logout(m)
      PROVE  Kept
  BY <1>5 DEF GraceEnds, Check, BeginCheck, ValidateOk, ValidateGone, ValidateFails, Refresh,
     Lapsing, Logout
<1>6. QED
  BY <1>1, <1>2, <1>3, <1>4, <1>5 DEF Next

\* What a poll has read was granted when it read it.
AnswerFor(m, x) ==
    /\ MachineOf[x.id] = m /\ Granted(x.id, x.user)
    /\ x.wg # NoDevice => Granted(x.wg, x.user)

LEMMA NextAnswers ==
  ASSUME TypeOK, RowsGranted, AnswersGranted, [Next]_vars, NEW m \in Machines
  PROVE  /\ \A c \in waiting'[m] : MachineOf[c] = m
         /\ \A x \in answer'[m] : AnswerFor(m, x)
<1> DEFINE Kept == /\ \A c \in waiting'[m] : MachineOf[c] = m
                   /\ \A x \in answer'[m] : AnswerFor(m, x)
<1> USE DEF polls
<1>0. ASSUME UNCHANGED polls PROVE Kept
  BY <1>0 DEF AnswersGranted, AnswerFor
<1>1. CASE UNCHANGED vars
  BY <1>0, <1>1 DEF vars
<1>2. ASSUME NEW n \in Machines, Login(n) PROVE Kept
  <2>1. ASSUME NEW c \in Challenges, StartLogin(n, c) PROVE Kept
    BY <2>1 DEF StartLogin, AnswersGranted, AnswerFor, TypeOK
  <2>2. ASSUME StopPolling(n) PROVE Kept
    BY <2>2 DEF StopPolling, AnswersGranted, AnswerFor, TypeOK
  <2>3. ASSUME NEW c \in waiting[n], NEW x \in ById(c), x.status = "approved",
               answer' = [answer EXCEPT ![n] = {x}], UNCHANGED waiting
        PROVE  Kept
    <3>1. x \in challenges /\ x.id = c
      BY DEF ById
    <3>2. Granted(x.id, x.user)
      BY <2>3, <3>1 DEF Granted, Approved, ById, RowsGranted
    <3>3. AnswerFor(n, x)
      BY <3>1, <3>2 DEF AnswerFor, RowsGranted, AnswersGranted
    <3>4. QED
      BY <2>3, <3>3 DEF AnswersGranted, AnswerFor, TypeOK
  <2>4. CASE Poll(n)
    BY <2>2, <2>3, <2>4 DEF Poll
  <2>5. CASE LosePoll(n) \/ IssueToken(n)
    BY <2>5 DEF LosePoll, IssueToken, AnswersGranted, AnswerFor, TypeOK
  <2>6. QED
    BY <1>2, <2>1, <2>2, <2>4, <2>5 DEF Login, GiveUp, Answer
<1>3. CASE Clock
  BY <1>0, <1>3 DEF Clock, ExpireOld, Lapse
<1>4. ASSUME NEW p \in Procs, Handler(p) PROVE Kept
  BY <1>0, <1>4 DEF Handler, BeginDecision, BeginAdmin, Decide, Register, Bind, AdminRegister,
     AdminDecide, BeginDelete, BeginAdminDelete, DropTokens, DropChallenges, DropRow
<1>5. ASSUME NEW n \in Machines, GraceEnds(n) \/ Check(n) \/ Lapsing(n) \/ Logout(n)
      PROVE  Kept
  BY <1>0, <1>5 DEF GraceEnds, Check, BeginCheck, ValidateOk, ValidateGone, ValidateFails,
     Refresh, Lapsing, Logout
<1>6. QED
  BY <1>1, <1>2, <1>3, <1>4, <1>5 DEF Next

\* What a machine has saved was granted to the user it was saved for.
LoginFor(m, l) == MachineOf[l.device] = m /\ Granted(l.device, l.token.user)

LEMMA NextLogins ==
  ASSUME TypeOK, AnswersGranted, LoginsGranted, [Next]_vars, NEW m \in Machines
  PROVE  \A l \in config'[m] \cup loaded'[m] : LoginFor(m, l)
<1> DEFINE Kept == \A l \in config'[m] \cup loaded'[m] : LoginFor(m, l)
<1> USE DEF daemons
<1>0. ASSUME UNCHANGED <<config, loaded>> PROVE Kept
  BY <1>0 DEF LoginsGranted, LoginFor
<1>1. CASE UNCHANGED vars
  BY <1>0, <1>1 DEF vars
<1>2. ASSUME NEW n \in Machines, Login(n) PROVE Kept
  <2>1. CASE Answer(n)
    <3>1. PICK x \in answer[n] :
            config' = [config EXCEPT ![n] =
               {[device |-> x.id, live |-> TRUE,
                 token |-> [user |-> x.user, device |-> TokenDevice(x)],
                 vpn |-> x.wg # NoDevice /\ \E d \in devices : d.id = x.wg]}]
      BY <2>1 DEF Answer
    <3>2. LoginFor(n, [device |-> x.id, live |-> TRUE,
                       token |-> [user |-> x.user, device |-> TokenDevice(x)],
                       vpn |-> x.wg # NoDevice /\ \E d \in devices : d.id = x.wg])
      BY DEF AnswersGranted, LoginFor
    <3>3. UNCHANGED loaded
      BY <2>1 DEF Answer
    <3>4. QED
      BY <3>1, <3>2, <3>3 DEF LoginsGranted, LoginFor, TypeOK
  <2>2. QED
    BY <1>0, <1>2, <2>1 DEF Login, StartLogin, GiveUp, Poll, IssueToken, LosePoll
<1>3. CASE Clock
  BY <1>0, <1>3 DEF Clock, ExpireOld, Lapse
<1>4. ASSUME NEW p \in Procs, Handler(p) PROVE Kept
  BY <1>0, <1>4 DEF Handler, BeginDecision, BeginAdmin, Decide, Register, Bind, AdminRegister,
     AdminDecide, BeginDelete, BeginAdminDelete, DropTokens, DropChallenges, DropRow
<1>5. ASSUME NEW n \in Machines, GraceEnds(n) \/ Check(n) \/ Lapsing(n) \/ Logout(n)
      PROVE  Kept
  <2>1. CASE GraceEnds(n) \/ ValidateOk(n) \/ ValidateFails(n)
    BY <1>0, <2>1 DEF GraceEnds, ValidateOk, ValidateFails
  <2>2. CASE BeginCheck(n)
    BY <2>2 DEF BeginCheck, LoginsGranted, LoginFor, TypeOK
  <2>3. CASE ValidateGone(n) \/ Logout(n)
    BY <2>3 DEF ValidateGone, Logout, Clear, LoginsGranted, LoginFor, TypeOK
  <2>4. ASSUME NEW l \in Config, NEW b PROVE
               [l EXCEPT !.live = b].device = l.device /\ [l EXCEPT !.live = b].token = l.token
    BY DEF Config
  <2>5. CASE Refresh(n)
    <3>1. loaded' = Clear(loaded, n)
      BY <2>5 DEF Refresh
    <3>2. \A l \in loaded'[m] : LoginFor(m, l)
      BY <3>1 DEF Clear, LoginsGranted, LoginFor, TypeOK
    <3>3. ASSUME NEW l \in loaded[n], config' = [config EXCEPT ![n] = {[l EXCEPT !.live = TRUE]}]
          PROVE  \A k \in config'[m] : LoginFor(m, k)
      <4>1. LoginFor(n, [l EXCEPT !.live = TRUE])
        BY <2>4 DEF LoginsGranted, LoginFor, TypeOK
      <4>2. QED
        BY <3>3, <4>1 DEF LoginsGranted, LoginFor, TypeOK
    <3>4. ASSUME UNCHANGED config PROVE \A k \in config'[m] : LoginFor(m, k)
      BY <3>4 DEF LoginsGranted, LoginFor
    <3>5. QED
      BY <2>5, <3>2, <3>3, <3>4 DEF Refresh
  <2>6. CASE Lapsing(n)
    <3>1. \A l \in config[n] : LoginFor(n, [l EXCEPT !.live = FALSE])
      BY <2>4 DEF LoginsGranted, LoginFor, TypeOK
    <3>2. config' = [config EXCEPT ![n] = {[l EXCEPT !.live = FALSE] : l \in config[n]}]
          /\ UNCHANGED loaded
      BY <2>6 DEF Lapsing
    <3>3. \A l \in {[l EXCEPT !.live = FALSE] : l \in config[n]} : LoginFor(n, l)
      BY <3>1
    <3>4. QED
      BY <3>2, <3>3 DEF LoginsGranted, LoginFor, TypeOK
  <2>7. QED
    BY <1>5, <2>1, <2>2, <2>3, <2>5, <2>6 DEF Check
<1>6. QED
  BY <1>1, <1>2, <1>3, <1>4, <1>5 DEF Next


\* A handler that does not step keeps what it acts on.
LEMMA JobStays ==
  ASSUME TypeOK', RowStep, NEW p \in Procs, JobFor(p),
         pc'[p] = pc[p], job'[p] = job[p], target'[p] = target[p]
  PROVE  JobFor(p)'
<1> SUFFICES ASSUME NEW j \in job[p]
             PROVE  /\ \A k \in job[p] : k = j
                    /\ pc[p] \in {"adminRegister", "adminDecide"} => j.approve
                    /\ pc[p] \in {"register", "bind"} => Granted(j.challenge, j.user)'
                    /\ pc[p] \in {"bind", "adminDecide"} =>
                          \A i \in target[p] : Granted(i, j.user)'
  BY DEF JobFor
<1>1. ASSUME pc[p] \in {"register", "bind"} PROVE Granted(j.challenge, j.user)'
  BY <1>1, GrantedStays DEF JobFor
<1>2. ASSUME pc[p] \in {"bind", "adminDecide"}, NEW i \in target[p] PROVE Granted(i, j.user)'
  BY <1>2, GrantedStays DEF JobFor
<1>3. QED
  BY <1>1, <1>2 DEF JobFor

LEMMA RegisterJobs ==
  ASSUME TypeOK, DevicesGranted, NEW p \in Procs, NEW j \in job[p],
         NEW i, Granted(i, j.user), NEW next,
         RegisterAs(p, j, i, next) \/ RegisterRefused(p, j)
  PROVE  \/ job'[p] = {}
         \/ /\ job' = job /\ pc'[p] = next
            /\ \A k \in target'[p] : Granted(k, j.user)
<1>1. CASE Finish(p)
  BY <1>1 DEF TypeOK, Finish
<1>2. CASE target' = [target EXCEPT ![p] = {i}] /\ Goto(p, next) /\ UNCHANGED job
  BY <1>2 DEF TypeOK, Goto
<1>3. CASE /\ SameKey(j) \subseteq Replaced(j)
           /\ target' = [target EXCEPT ![p] = {d.id : d \in SameKey(j)}]
           /\ Goto(p, next) /\ UNCHANGED job
  <2>1. \A d \in SameKey(j) : Granted(d.id, j.user)
    BY <1>3 DEF DevicesGranted, Replaced, SameKey
  <2>2. target'[p] = {d.id : d \in SameKey(j)}
    BY <1>3 DEF TypeOK
  <2>3. QED
    BY <1>3, <2>1, <2>2 DEF TypeOK, Goto
<1>4. QED
  BY <1>1, <1>2, <1>3 DEF RegisterAs, RegisterRefused

LEMMA HandlerJobs ==
  ASSUME TypeOK, TypeOK', RowsGranted, DevicesGranted, JobsGranted, RowStep,
         NEW p \in Procs, Handler(p)
  PROVE  JobFor(p)'
<1>0. JobFor(p)
  BY DEF JobsGranted
<1>1. ASSUME job'[p] = {} PROVE JobFor(p)'
  BY <1>1 DEF JobFor
<1>2. ASSUME Finish(p) PROVE JobFor(p)'
  BY <1>1, <1>2 DEF Finish, TypeOK
<1>3. ASSUME job' = job, pc'[p] \notin {"register", "bind", "adminRegister", "adminDecide"}
      PROVE  JobFor(p)'
  BY <1>0, <1>3 DEF JobFor
<1>4. ASSUME NEW j \in Job, BeginDecision(p, j) \/ BeginAdmin(p, j) PROVE JobFor(p)'
  <2>1. job'[p] = {j} /\ (pc'[p] = "decide" \/ (pc'[p] = "adminRegister" /\ j.approve))
    BY <1>4 DEF BeginDecision, BeginAdmin, Goto, TypeOK
  <2>2. QED
    BY <2>1 DEF JobFor
<1>5. CASE Decide(p)
  <2>1. PICK j \in job[p] : \/ Finish(p)
                            \/ /\ Open(j.challenge) /\ Update(j) /\ j.approve
                               /\ Goto(p, "register") /\ UNCHANGED <<job, target>>
    BY <1>5 DEF Decide
  <2>2. ASSUME Open(j.challenge), Update(j), j.approve, Goto(p, "register"),
               UNCHANGED <<job, target>>
        PROVE  JobFor(p)'
    <3>1. j \in Job /\ used' = used
      BY <1>5 DEF TypeOK, Decide
    <3>2. Granted(j.challenge, j.user)'
      BY <2>2, <3>1, RowsUpdate
    <3>3. pc'[p] = "register"
      BY <2>2 DEF Goto, TypeOK
    <3>4. QED
      BY <1>0, <2>2, <3>2, <3>3 DEF JobFor
  <2>3. QED
    BY <1>2, <2>1, <2>2
<1>6. ASSUME NEW j \in job[p], NEW next, NEW i, Granted(i, j.user),
             \/ next = "bind" /\ Granted(j.challenge, j.user)
             \/ next = "adminDecide" /\ j.approve,
             RegisterAs(p, j, i, next) \/ RegisterRefused(p, j)
      PROVE  JobFor(p)'
  <2>1. CASE job' = job /\ pc'[p] = next /\ \A k \in target'[p] : Granted(k, j.user)
    <3>1. next = "bind" => Granted(j.challenge, j.user)'
      BY <1>6, GrantedStays
    <3>2. \A k \in target'[p] : Granted(k, j.user)'
      BY <2>1, GrantedStays
    <3>3. QED
      BY <1>0, <1>6, <2>1, <3>1, <3>2 DEF JobFor
  <2>2. QED
    BY <1>1, <1>6, <2>1, RegisterJobs
<1>7. CASE Register(p)
  <2>1. PICK j \in job[p] : RegisterAs(p, j, j.challenge, "bind") \/ RegisterRefused(p, j)
    BY <1>7 DEF Register
  <2>2. Granted(j.challenge, j.user)
    BY <1>0, <1>7 DEF Register, JobFor
  <2>3. QED
    BY <1>6, <2>1, <2>2
<1>8. CASE AdminRegister(p)
  <2>1. PICK j \in job[p], i \in ServerIds :
            RegisterAs(p, j, i, "adminDecide") \/ RegisterRefused(p, j)
    BY <1>8 DEF AdminRegister
  <2>2. Granted(i, j.user) /\ j.approve
    BY <1>0, <1>8, ServerIdGranted DEF AdminRegister, JobFor
  <2>3. QED
    BY <1>6, <2>1, <2>2
<1>9. CASE AdminDecide(p)
  <2>1. PICK j \in job[p] : \/ Finish(p)
                            \/ /\ Open(j.challenge) /\ Update(j)
                               /\ Goto(p, "bind") /\ UNCHANGED <<job, target>>
    BY <1>9 DEF AdminDecide
  <2>2. ASSUME Open(j.challenge), Update(j), Goto(p, "bind"), UNCHANGED <<job, target>>
        PROVE  JobFor(p)'
    <3>1. j \in Job /\ used' = used /\ j.approve
      BY <1>0, <1>9 DEF TypeOK, AdminDecide, JobFor
    <3>2. Granted(j.challenge, j.user)'
      BY <2>2, <3>1, RowsUpdate
    <3>3. pc'[p] = "bind"
      BY <2>2 DEF Goto, TypeOK
    <3>4. \A i \in target[p] : Granted(i, j.user)'
      BY <1>0, <1>9, GrantedStays DEF AdminDecide, JobFor
    <3>5. QED
      BY <1>0, <2>2, <3>2, <3>3, <3>4 DEF JobFor
  <2>3. QED
    BY <1>2, <2>1, <2>2
<1>10. ASSUME NEW d \in devices, BeginDelete(p, d) \/ BeginAdminDelete(p, d) PROVE JobFor(p)'
  BY <1>3, <1>10 DEF BeginDelete, BeginAdminDelete, Goto, TypeOK
<1>11. CASE DropTokens(p) \/ DropChallenges(p)
  BY <1>3, <1>11 DEF DropTokens, DropChallenges, Goto, TypeOK
<1>12. CASE Bind(p) \/ DropRow(p)
  BY <1>2, <1>12 DEF Bind, DropRow
<1>13. QED
  BY <1>4, <1>5, <1>7, <1>8, <1>9, <1>10, <1>11, <1>12 DEF Handler

LEMMA NextJobs ==
  ASSUME TypeOK, TypeOK', RowsGranted, DevicesGranted, JobsGranted, RowStep, [Next]_vars
  PROVE  JobsGranted'
<1> USE DEF handlers
<1>1. ASSUME UNCHANGED handlers PROVE JobsGranted'
  BY <1>1, JobStays DEF JobsGranted
<1>2. ASSUME NEW p \in Procs, Handler(p) PROVE JobsGranted'
  <2>1. \A q \in Procs \ {p} : pc'[q] = pc[q] /\ job'[q] = job[q] /\ target'[q] = target[q]
    BY <1>2 DEF TypeOK, Handler, BeginDecision, BeginAdmin, Decide, Register, Bind,
       AdminRegister, AdminDecide, BeginDelete, BeginAdminDelete, DropTokens, DropChallenges,
       DropRow, RegisterAs, RegisterRefused, Finish, Goto
  <2>2. JobFor(p)'
    BY <1>2, HandlerJobs
  <2>3. ASSUME NEW q \in Procs \ {p} PROVE JobFor(q)'
    BY <2>1, JobStays DEF JobsGranted
  <2>4. QED
    BY <2>2, <2>3 DEF JobsGranted
<1>3. ASSUME NEW m \in Machines, Login(m) PROVE JobsGranted'
  BY <1>1, <1>3 DEF Login, StartLogin, GiveUp, Poll, IssueToken, Answer, LosePoll
<1>4. CASE Clock
  BY <1>1, <1>4 DEF Clock, ExpireOld, Lapse
<1>5. ASSUME NEW m \in Machines, GraceEnds(m) \/ Check(m) \/ Lapsing(m) \/ Logout(m)
      PROVE  JobsGranted'
  BY <1>1, <1>5 DEF GraceEnds, Check, BeginCheck, ValidateOk, ValidateGone, ValidateFails,
     Refresh, Lapsing, Logout
<1>6. CASE UNCHANGED vars
  BY <1>1, <1>6 DEF vars
<1>7. QED
  BY <1>2, <1>3, <1>4, <1>5, <1>6 DEF Next

LEMMA GrantInit == Init => GrantInv
<1> SUFFICES ASSUME Init PROVE GrantInv
  OBVIOUS
<1>1. TypeOK
  BY InitTypes
<1>2. QED
  BY <1>1 DEF Init, GrantInv, RowsGranted, DevicesGranted, TokensGranted, AnswersGranted,
     LoginsGranted, JobsGranted, JobFor

LEMMA GrantStep == ASSUME GrantInv, [Next]_vars PROVE GrantInv'
<1> USE DEF GrantInv
<1>1. TypeOK'
  BY StepTypes
<1>2. RowStep
  BY NextRows
<1>3. RowsGranted'
  BY <1>1, <1>2, RowsKeep
<1>4. DevicesGranted'
  BY <1>1, <1>2, NextDevices, GrantedStays DEF DevicesGranted
<1>5. TokensGranted'
  BY <1>1, <1>2, NextTokens, GrantedStays DEF TokensGranted
<1>6. AnswersGranted'
  BY <1>1, <1>2, NextAnswers, GrantedStays DEF AnswersGranted, AnswerFor
<1>7. LoginsGranted'
  BY <1>1, <1>2, NextLogins, GrantedStays DEF LoginsGranted, LoginFor
<1>8. JobsGranted'
  BY <1>1, <1>2, NextJobs
<1>9. QED
  BY <1>1, <1>3, <1>4, <1>5, <1>6, <1>7, <1>8

LEMMA GrantAlways == Spec => []GrantInv
  BY GrantInit, GrantStep, PTL DEF Spec

\* Whatever users, administrators and machines do at the same time, and whatever
\* fails, devices, refresh tokens and logins belong to the user whose approval is on
\* record.
THEOREM ApproverOnly == Spec => []OnlyTheApprover
<1>1. GrantInv => OnlyTheApprover
  BY DEF GrantInv, DevicesGranted, TokensGranted, LoginsGranted, Granted, OnlyTheApprover
<1>2. QED
  BY <1>1, GrantAlways, PTL

-----------------------------------------------------------------------------
(* The handlers implement ChallengeVerdict.                                  *)

\* A deletion under way is of a device that had been granted.
DropsGranted ==
    \A p \in Procs : pc[p] \in {"dropTokens", "dropChallenges"} =>
        \E i \in target[p] : target[p] = {i} /\ \E u \in Users : Granted(i, u)

LEMMA DropStays ==
  ASSUME TypeOK', RowStep, DropsGranted, NEW p \in Procs,
         pc[p] \in {"dropTokens", "dropChallenges"}, target'[p] = target[p]
  PROVE  \E i \in target'[p] : target'[p] = {i} /\ \E u \in Users : Granted(i, u)'
  BY GrantedStays DEF DropsGranted

LEMMA NextDrops ==
  ASSUME GrantInv, GrantInv', RowStep, DropsGranted, [Next]_vars PROVE DropsGranted'
<1> USE DEF handlers
<1> DEFINE DropOk(p) == pc'[p] \in {"dropTokens", "dropChallenges"} =>
             \E i \in target'[p] : target'[p] = {i} /\ \E u \in Users : Granted(i, u)'
<1>0. TypeOK /\ TypeOK' /\ DevicesGranted
  BY DEF GrantInv
<1>1. ASSUME NEW p \in Procs, pc'[p] = pc[p], target'[p] = target[p] PROVE DropOk(p)
  BY <1>0, <1>1, DropStays
<1>2. ASSUME UNCHANGED handlers PROVE \A p \in Procs : DropOk(p)
  BY <1>1, <1>2
<1>3. ASSUME NEW p \in Procs, Handler(p) PROVE \A q \in Procs : DropOk(q)
  <2>1. ASSUME NEW q \in Procs \ {p} PROVE DropOk(q)
    <3>1. pc'[q] = pc[q] /\ target'[q] = target[q]
      BY <1>0, <1>3 DEF TypeOK, Handler, BeginDecision, BeginAdmin, Decide, Register, Bind,
         AdminRegister, AdminDecide, BeginDelete, BeginAdminDelete, DropTokens, DropChallenges,
         DropRow, RegisterAs, RegisterRefused, Finish, Goto
    <3>2. QED
      BY <1>1, <3>1
  <2>2. ASSUME NEW d \in devices, BeginDelete(p, d) PROVE DropOk(p)
    <3>1. Granted(d.id, d.user)' /\ d.user \in Users
      BY <1>0, GrantedStays DEF DevicesGranted, TypeOK, Device
    <3>2. target'[p] = {d.id}
      BY <1>0, <2>2 DEF BeginDelete, TypeOK
    <3>3. QED
      BY <3>1, <3>2
  <2>3. ASSUME DropTokens(p) PROVE DropOk(p)
    BY <1>0, <2>3, DropStays DEF DropTokens
  <2>4. ASSUME pc'[p] \notin {"dropTokens", "dropChallenges"} PROVE DropOk(p)
    BY <2>4
  <2>5. DropOk(p)
    BY <1>0, <1>3, <2>2, <2>3, <2>4
       DEF TypeOK, Handler, BeginDecision, BeginAdmin, Decide, Register, Bind,
         AdminRegister, AdminDecide, BeginAdminDelete, DropChallenges, DropRow, RegisterAs,
         RegisterRefused, Finish, Goto
  <2> HIDE DEF DropOk
  <2>6. QED
    BY <2>1, <2>5
<1>4. ASSUME NEW m \in Machines, Login(m) PROVE \A q \in Procs : DropOk(q)
  BY <1>2, <1>4 DEF Login, StartLogin, GiveUp, Poll, IssueToken, Answer, LosePoll
<1>5. CASE Clock
  BY <1>2, <1>5 DEF Clock, ExpireOld, Lapse, DropsGranted
<1>6. ASSUME NEW m \in Machines, GraceEnds(m) \/ Check(m) \/ Lapsing(m) \/ Logout(m)
      PROVE  \A q \in Procs : DropOk(q)
  BY <1>2, <1>6 DEF GraceEnds, Check, BeginCheck, ValidateOk, ValidateGone, ValidateFails,
     Refresh, Lapsing, Logout
<1>7. CASE UNCHANGED vars
  BY <1>2, <1>7 DEF vars, DropsGranted
<1>8. QED
  BY <1>3, <1>4, <1>5, <1>6, <1>7 DEF Next, DropsGranted

Unique(rows) == \A x, y \in rows : x.id = y.id => x = y

LEMMA VerdictOfRow ==
  ASSUME NEW rows, NEW ever, Unique(rows), NEW x \in rows, x.id \in ever
  PROVE  VerdictIn(rows, ever, x.id) = [status |-> x.status, by |-> x.user]
<1>1. {y \in rows : y.id = x.id} = {x}
  BY DEF Unique
<1>2. (CHOOSE y \in {x} : TRUE) = x
  OBVIOUS
<1>3. QED
  BY <1>1, <1>2 DEF VerdictIn

LEMMA VerdictOfNone ==
  ASSUME NEW rows, NEW ever, NEW c, \A x \in rows : x.id # c
  PROVE  VerdictIn(rows, ever, c) =
           [status |-> IF c \notin ever THEN "new" ELSE "forgotten", by |-> NoUser]
<1>1. {y \in rows : y.id = c} = {}
  OBVIOUS
<1>2. QED
  BY <1>1 DEF VerdictIn

\* A row for c before and after, alike but for its wg_device_id, or none at all.
Alike(c) ==
    /\ c \in used <=> c \in used'
    /\ \A x \in challenges : x.id = c => \E y \in challenges' :
          y.id = c /\ y.status = x.status /\ y.user = x.user
    /\ \A y \in challenges' : y.id = c => \E x \in challenges : x.id = c

LEMMA AlikeVerdict ==
  ASSUME RowsGranted, RowsGranted', NEW c \in Challenges, Alike(c)
  PROVE  VerdictIn(challenges', used', c) = VerdictIn(challenges, used, c)
<1>1. CASE \A x \in challenges : x.id # c
  BY <1>1, VerdictOfNone DEF Alike
<1>2. ASSUME NEW x \in challenges, x.id = c
      PROVE  VerdictIn(challenges', used', c) = VerdictIn(challenges, used, c)
  <2>1. PICK y \in challenges' : y.id = c /\ y.status = x.status /\ y.user = x.user
    BY <1>2 DEF Alike
  <2>2. VerdictIn(challenges, used, x.id) = [status |-> x.status, by |-> x.user]
    BY VerdictOfRow DEF RowsGranted, Unique
  <2>3. VerdictIn(challenges', used', y.id) = [status |-> y.status, by |-> y.user]
    BY VerdictOfRow DEF RowsGranted, Unique
  <2>4. QED
    BY <1>2, <2>1, <2>2, <2>3
<1>3. QED
  BY <1>1, <1>2

LEMMA SameVerdicts ==
  ASSUME RowsGranted, RowsGranted', \A c \in Challenges : Alike(c)
  PROVE  UNCHANGED VerdictMap
<1>1. \A c \in Challenges :
        VerdictIn(challenges', used', c) = VerdictIn(challenges, used, c)
  BY AlikeVerdict
<1>2. QED
  BY <1>1 DEF VerdictMap

\* One challenge gets another verdict.
LEMMA OneVerdict ==
  ASSUME RowsGranted, RowsGranted', NEW c \in Challenges, NEW v,
         VerdictIn(challenges', used', c) = v, \A d \in Challenges \ {c} : Alike(d)
  PROVE  VerdictMap' = [VerdictMap EXCEPT ![c] = v]
<1>1. \A d \in Challenges \ {c} :
        VerdictIn(challenges', used', d) = VerdictIn(challenges, used, d)
  BY AlikeVerdict
<1>2. QED
  BY <1>1 DEF VerdictMap

LEMMA StartRefines ==
  ASSUME GrantInv, GrantInv', NEW m \in Machines, NEW c \in Challenges, StartLogin(m, c)
  PROVE  Abstract!Open(c)
<1> DEFINE x == [id |-> c, status |-> "pending", user |-> NoUser, wg |-> NoDevice]
<1>1. challenges' = challenges \cup {x} /\ used' = used \cup {c} /\ c \notin used
  BY DEF StartLogin
<1>2. RowsGranted /\ RowsGranted' /\ \A y \in challenges : y.id # c
  BY <1>1 DEF GrantInv, RowsGranted
<1>3. VerdictIn(challenges, used, c) = [status |-> "new", by |-> NoUser]
  BY <1>1, <1>2, VerdictOfNone
<1>4. VerdictIn(challenges', used', x.id) = [status |-> x.status, by |-> x.user]
  <2>1. x \in challenges' /\ x.id \in used' /\ Unique(challenges')
    BY <1>1, <1>2 DEF RowsGranted, Unique
  <2> HIDE DEF x
  <2>2. QED
    BY <2>1, VerdictOfRow
<1>5. \A d \in Challenges \ {c} : Alike(d)
  BY <1>1 DEF Alike
<1>6. VerdictMap' = [VerdictMap EXCEPT ![c] = [status |-> "pending", by |-> NoUser]]
  BY <1>2, <1>4, <1>5, OneVerdict
<1>7. QED
  BY <1>3, <1>6 DEF Abstract!Open, Abstract!Unsigned, VerdictMap

LEMMA UpdateRefines ==
  ASSUME GrantInv, GrantInv', NEW j \in Job, Open(j.challenge), Update(j), used' = used
  PROVE  \E s \in {"approved", "denied"} : Abstract!Rule(j.challenge, s, j.user)
<1> DEFINE s == IF j.approve THEN "approved" ELSE "denied"
           c == j.challenge
<1>1. RowsGranted /\ RowsGranted' /\ c \in Challenges /\ s \in {"approved", "denied"}
  BY DEF GrantInv, Job
<1>2. PICK x \in challenges : x.id = c /\ x.status = "pending"
  BY DEF Open, ById
<1>3. x.user = NoUser
  BY <1>2, DeviceAuthAssumption
     DEF GrantInv, TypeOK, Challenge, Undecided, Decided
<1>4. VerdictIn(challenges, used, c) = [status |-> "pending", by |-> NoUser]
  BY <1>1, <1>2, <1>3, VerdictOfRow DEF RowsGranted, Unique
<1> DEFINE y == [id |-> x.id, status |-> s, user |-> j.user, wg |-> x.wg]
<1>5. y \in challenges'
  BY <1>2 DEF Update
<1>6. VerdictIn(challenges', used', c) = [status |-> s, by |-> j.user]
  <2>1. y.id = c /\ y.status = s /\ y.user = j.user
    BY <1>2
  <2> HIDE DEF y, s, c
  <2>2. QED
    BY <1>1, <1>5, <2>1, VerdictOfRow DEF RowsGranted, Unique
<1>7. ASSUME NEW d \in Challenges \ {c} PROVE Alike(d)
  <2>1. \A z \in challenges : z.id = d => z \in challenges'
    BY DEF Update
  <2>2. \A z \in challenges' : z.id = d => z \in challenges
    BY DEF Update
  <2>3. QED
    BY <2>1, <2>2 DEF Alike
<1>8. VerdictMap' = [VerdictMap EXCEPT ![c] = [status |-> s, by |-> j.user]]
  BY <1>1, <1>6, <1>7, OneVerdict
<1>9. VerdictMap[c] = [status |-> "pending", by |-> NoUser]
  BY <1>1, <1>4 DEF VerdictMap
<1>10. Abstract!Rule(c, s, j.user)
  BY <1>8, <1>9 DEF Abstract!Rule, Abstract!Unsigned
<1>11. QED
  BY <1>1, <1>10

LEMMA DropRefines ==
  ASSUME GrantInv, GrantInv', DropsGranted, NEW p \in Procs, DropChallenges(p)
  PROVE  (\E c \in Challenges : Abstract!Forget(c)) \/ UNCHANGED VerdictMap
<1>1. RowsGranted /\ RowsGranted' /\ used' = used
  BY DEF GrantInv, DropChallenges
<1>2. PICK c \in target[p] : target[p] = {c} /\ \E u \in Users : Granted(c, u)
  BY DEF DropChallenges, DropsGranted
<1>3. UNCHANGED challenges \/ challenges' = {x \in challenges : x.id # c}
  BY <1>2 DEF DropChallenges
<1>4. CASE \A x \in challenges : x.id # c
  <2>1. UNCHANGED challenges
    BY <1>3, <1>4
  <2>2. QED
    BY <1>1, <2>1 DEF VerdictMap
<1>5. ASSUME NEW x \in challenges, x.id = c, challenges' = {y \in challenges : y.id # c}
      PROVE  \E d \in Challenges : Abstract!Forget(d)
  <2>1. c \in Challenges /\ c \in used
    BY <1>1, <1>5 DEF GrantInv, TypeOK, RowsGranted, Challenge, Undecided, Decided
  <2>2. x.status = "approved"
    BY <1>2, <1>5 DEF Granted, Approved, ById
  <2>3. VerdictIn(challenges, used, x.id) = [status |-> x.status, by |-> x.user]
    BY <1>1, VerdictOfRow DEF RowsGranted, Unique
  <2>4. VerdictIn(challenges', used', c) = [status |-> "forgotten", by |-> NoUser]
    BY <1>1, <1>5, <2>1, VerdictOfNone
  <2>5. \A d \in Challenges \ {c} : Alike(d)
    BY <1>1, <1>5 DEF Alike
  <2>6. VerdictMap' = [VerdictMap EXCEPT ![c] = [status |-> "forgotten", by |-> NoUser]]
    BY <1>1, <2>1, <2>4, <2>5, OneVerdict
  <2>7. VerdictMap[c].status = "approved"
    BY <1>5, <2>1, <2>2, <2>3 DEF VerdictMap
  <2>8. QED
    BY <2>1, <2>6, <2>7 DEF Abstract!Forget, Abstract!Unsigned
<1>6. CASE UNCHANGED challenges
  BY <1>1, <1>6 DEF VerdictMap
<1>7. QED
  BY <1>3, <1>4, <1>5, <1>6

LEMMA ExpireRefines ==
  ASSUME GrantInv, GrantInv', ExpireOld
  PROVE  \E cs \in SUBSET Challenges : Abstract!Expire(cs)
<1> DEFINE late(x) == x.status = "pending" /\ x.id \in lapsed
           cs == {c \in Challenges : \E x \in challenges : x.id = c /\ late(x)}
           F(x) == [x EXCEPT !.status = IF @ = "pending" /\ x.id \in lapsed
                                        THEN "expired" ELSE @]
<1>1. RowsGranted /\ RowsGranted' /\ used' = used /\ challenges' = {F(x) : x \in challenges}
  BY DEF GrantInv, ExpireOld
<1>2. ASSUME NEW x \in challenges
      PROVE  /\ F(x).id = x.id /\ F(x).user = x.user
             /\ F(x).status = IF late(x) THEN "expired" ELSE x.status
             /\ late(x) => x.user = NoUser
  BY DeviceAuthAssumption DEF GrantInv, TypeOK, Challenge, Undecided, Decided
<1>3. /\ \A x \in challenges : F(x) \in challenges'
      /\ \A y \in challenges' : \E x \in challenges : y = F(x)
  BY <1>1
<1>4. ASSUME NEW c \in cs
      PROVE  /\ VerdictMap[c] = [status |-> "pending", by |-> NoUser]
             /\ VerdictMap'[c] = [status |-> "expired", by |-> NoUser]
  <2>1. PICK x \in challenges : x.id = c /\ late(x)
    OBVIOUS
  <2>2. VerdictIn(challenges, used, x.id) = [status |-> x.status, by |-> x.user]
    BY <1>1, VerdictOfRow DEF RowsGranted, Unique
  <2>3. F(x).id = c /\ F(x).status = "expired" /\ F(x).user = NoUser /\ F(x) \in challenges'
    BY <1>2, <1>3, <2>1
  <2>4. PICK y \in challenges' : y.id = c /\ y.status = "expired" /\ y.user = NoUser
    BY <2>3
  <2>5. VerdictIn(challenges', used', c) = [status |-> "expired", by |-> NoUser]
    BY <1>1, <2>4, VerdictOfRow DEF RowsGranted, Unique
  <2>6. QED
    BY <1>2, <2>1, <2>2, <2>5 DEF VerdictMap
<1>5. ASSUME NEW c \in Challenges \ cs PROVE VerdictMap'[c] = VerdictMap[c]
  <2>1. ASSUME NEW x \in challenges, x.id = c
        PROVE  \E y \in challenges' : y.id = c /\ y.status = x.status /\ y.user = x.user
    <3>1. ~late(x)
      BY <2>1
    <3>2. QED
      BY <1>2, <1>3, <2>1, <3>1
  <2>2. ASSUME NEW y \in challenges', y.id = c PROVE \E x \in challenges : x.id = c
    <3>1. PICK x \in challenges : y = F(x)
      BY <1>3
    <3>2. QED
      BY <1>2, <2>2, <3>1
  <2>3. Alike(c)
    BY <1>1, <2>1, <2>2 DEF Alike
  <2>4. QED
    BY <1>1, <2>3, AlikeVerdict DEF VerdictMap
<1> HIDE DEF cs
<1>6. VerdictMap' = [c \in Challenges |->
                       IF c \in cs THEN [status |-> "expired", by |-> NoUser] ELSE VerdictMap[c]]
  <2>1. VerdictMap' = [c \in Challenges |-> VerdictMap'[c]]
    BY DEF VerdictMap
  <2>2. QED
    BY <1>4, <1>5, <2>1
<1>7. cs \in SUBSET Challenges
  BY DEF cs
<1>8. Abstract!Expire(cs)
  BY <1>4, <1>6 DEF Abstract!Expire, Abstract!Unsigned
<1>9. QED
  BY <1>7, <1>8

\* Rows change their wg_device_id at most.
LEMMA BindingStutters ==
  ASSUME GrantInv, GrantInv', used' = used,
         \/ \E gone, add : ChangeDevices(gone, add)
         \/ \E p \in Procs : Bind(p)
         \/ UNCHANGED challenges
  PROVE  UNCHANGED VerdictMap
<1>0. RowsGranted /\ RowsGranted'
  BY DEF GrantInv
<1>1. CASE UNCHANGED challenges
  BY <1>1 DEF VerdictMap
<1>2. ASSUME NEW gone, NEW add, ChangeDevices(gone, add) PROVE UNCHANGED VerdictMap
  <2> DEFINE H(x) == [x EXCEPT !.wg = IF \E d \in gone : d.id = @ THEN NoDevice ELSE @]
  <2>1. challenges' = {H(x) : x \in challenges}
    BY <1>2 DEF ChangeDevices
  <2>2. \A x \in challenges : H(x).id = x.id /\ H(x).status = x.status /\ H(x).user = x.user
    BY DEF GrantInv, TypeOK, Challenge, Undecided, Decided
  <2>3. /\ \A x \in challenges : H(x) \in challenges'
        /\ \A y \in challenges' : \E x \in challenges : y = H(x)
    BY <2>1
  <2> HIDE DEF H
  <2>4. \A c \in Challenges : Alike(c)
    BY <2>2, <2>3 DEF Alike
  <2>5. QED
    BY <1>0, <2>4, SameVerdicts
<1>3. ASSUME NEW p \in Procs, Bind(p) PROVE UNCHANGED VerdictMap
  <2>1. PICK j \in job[p], i \in target[p] :
          challenges' = {IF x.id = j.challenge /\ \E d \in devices : d.id = i
                         THEN [x EXCEPT !.wg = i] ELSE x : x \in challenges}
    BY <1>3 DEF Bind
  <2> DEFINE B(x) == IF x.id = j.challenge /\ \E d \in devices : d.id = i
                     THEN [x EXCEPT !.wg = i] ELSE x
  <2>2. \A x \in challenges : B(x).id = x.id /\ B(x).status = x.status /\ B(x).user = x.user
    BY DEF GrantInv, TypeOK, Challenge, Undecided, Decided
  <2>3. /\ \A x \in challenges : B(x) \in challenges'
        /\ \A y \in challenges' : \E x \in challenges : y = B(x)
    BY <2>1
  <2> HIDE DEF B
  <2>4. \A c \in Challenges : Alike(c)
    BY <2>2, <2>3 DEF Alike
  <2>5. QED
    BY <1>0, <2>4, SameVerdicts
<1>4. QED
  BY <1>1, <1>2, <1>3

LEMMA HandlerRefines ==
  ASSUME GrantInv, GrantInv', DropsGranted, NEW p \in Procs, Handler(p)
  PROVE  Abstract!Next \/ UNCHANGED VerdictMap
<1> USE DEF server
<1>1. ASSUME used' = used, UNCHANGED challenges PROVE UNCHANGED VerdictMap
  BY <1>1, BindingStutters
<1>2. ASSUME NEW j \in Job, BeginDecision(p, j) \/ BeginAdmin(p, j)
      PROVE  UNCHANGED VerdictMap
  BY <1>1, <1>2 DEF BeginDecision, BeginAdmin
<1>3. CASE Decide(p) \/ AdminDecide(p)
  <2>1. used' = used
    BY <1>3 DEF Decide, AdminDecide
  <2>2. PICK j \in job[p] : UNCHANGED challenges \/ (Open(j.challenge) /\ Update(j))
    BY <1>3 DEF Decide, AdminDecide
  <2>3. j \in Job /\ j.challenge \in Challenges /\ j.user \in Users
    BY DEF GrantInv, TypeOK, Job
  <2>4. ASSUME Open(j.challenge), Update(j) PROVE Abstract!Next
    BY <2>1, <2>3, <2>4, UpdateRefines DEF Abstract!Next
  <2>5. QED
    BY <1>1, <2>1, <2>2, <2>4
<1>4. CASE Register(p) \/ AdminRegister(p)
  <2>1. used' = used /\ \E j \in job[p] : \E i, next :
                             RegisterAs(p, j, i, next) \/ RegisterRefused(p, j)
    BY <1>4 DEF Register, AdminRegister
  <2>2. UNCHANGED challenges \/ \E gone, add : ChangeDevices(gone, add)
    BY <2>1 DEF RegisterAs, RegisterRefused
  <2>3. QED
    BY <2>1, <2>2, BindingStutters
<1>5. CASE Bind(p)
  BY <1>5, BindingStutters DEF Bind
<1>6. ASSUME NEW d \in devices, BeginDelete(p, d) \/ BeginAdminDelete(p, d)
      PROVE  UNCHANGED VerdictMap
  BY <1>1, <1>6 DEF BeginDelete, BeginAdminDelete
<1>7. CASE DropTokens(p)
  BY <1>1, <1>7 DEF DropTokens
<1>8. CASE DropChallenges(p)
  BY <1>8, DropRefines DEF Abstract!Next
<1>9. CASE DropRow(p)
  BY <1>9, BindingStutters DEF DropRow
<1>10. QED
  BY <1>2, <1>3, <1>4, <1>5, <1>6, <1>7, <1>8, <1>9 DEF Handler

LEMMA StepRefines ==
  ASSUME GrantInv, GrantInv', DropsGranted, [Next]_vars
  PROVE  [Abstract!Next]_VerdictMap
<1> USE DEF server
<1>1. ASSUME used' = used, UNCHANGED challenges PROVE UNCHANGED VerdictMap
  BY <1>1, BindingStutters
<1>2. CASE UNCHANGED vars
  BY <1>1, <1>2 DEF vars
<1>3. ASSUME NEW m \in Machines, Login(m) PROVE Abstract!Next \/ UNCHANGED VerdictMap
  <2>1. ASSUME NEW c \in Challenges, StartLogin(m, c) PROVE Abstract!Next
    BY <2>1, StartRefines DEF Abstract!Next
  <2>2. QED
    BY <1>1, <1>3, <2>1 DEF Login, GiveUp, Poll, IssueToken, Answer, LosePoll
<1>4. CASE ExpireOld
  BY <1>4, ExpireRefines DEF Abstract!Next
<1>5. ASSUME NEW c \in Challenges, Lapse(c) PROVE UNCHANGED VerdictMap
  BY <1>1, <1>5 DEF Lapse
<1>6. ASSUME NEW p \in Procs, Handler(p) PROVE Abstract!Next \/ UNCHANGED VerdictMap
  BY <1>6, HandlerRefines
<1>7. ASSUME NEW m \in Machines, GraceEnds(m) \/ Check(m) \/ Lapsing(m) \/ Logout(m)
      PROVE  UNCHANGED VerdictMap
  BY <1>1, <1>7 DEF GraceEnds, Check, BeginCheck, ValidateOk, ValidateGone, ValidateFails,
     Refresh, Lapsing, Logout
<1>8. QED
  BY <1>2, <1>3, <1>4, <1>5, <1>6, <1>7 DEF Next, Clock

LEMMA InitRefines == Init => Abstract!Init
<1> SUFFICES ASSUME Init PROVE Abstract!Init
  OBVIOUS
<1>1. challenges = {} /\ used = {}
  BY DEF Init
<1>2. \A c \in Challenges :
        VerdictIn(challenges, used, c) = [status |-> "new", by |-> NoUser]
  BY <1>1, VerdictOfNone
<1>3. QED
  BY <1>2 DEF VerdictMap, Abstract!Init, Abstract!Unsigned

\* A login by QR code gets at most one verdict, however many people decide it at the
\* same time, whatever the clock says: the handlers implement ChallengeVerdict.
THEOREM OneVerdictEach == Spec => DecidedOnce
<1>1. Init => DropsGranted
  BY DEF Init, DropsGranted
<1>2. ASSUME GrantInv, GrantInv', DropsGranted, [Next]_vars PROVE DropsGranted'
  BY <1>2, NextDrops, NextRows DEF GrantInv
<1>3. Spec => []DropsGranted
  BY <1>1, <1>2, GrantAlways, PTL DEF Spec
<1>4. QED
  BY <1>3, GrantAlways, InitRefines, StepRefines, PTL DEF Spec, DecidedOnce, Abstract!Spec

-----------------------------------------------------------------------------
(* The daemon gives a login up only when its device is gone for good.  An    *)
(* approval comes before the registration, so a login may be saved whose     *)
(* device has never existed: what is invariant is that a login is settled    *)
(* (its device registered, or deleted since, or missed by its approval) or   *)
(* on the way, a handler being about to register it under the very id the    *)
(* machine polls.  The grace period outlives that handler, so a login that   *)
(* is validated is settled.                                                  *)

Settled(i, u) == Registered(i, u) \/ i \in removed \/ i \in missed

OnTheWay(i, u) ==
    \E p \in Procs : pc[p] = "register"
                     /\ \E j \in job[p] : j.challenge = i /\ j.user = u

Sure(i, u) == Settled(i, u) \/ OnTheWay(i, u)

LoginSure(m) ==
    /\ \A x \in answer[m] : Sure(x.id, x.user)
    /\ \A l \in config[m] \cup loaded[m] : Sure(l.device, l.token.user)
    /\ \A k, l \in config[m] : k = l
    /\ \A k, l \in loaded[m] : k = l
    /\ m \notin fresh => \A l \in config[m] \cup loaded[m] : Settled(l.device, l.token.user)
    /\ attempt[m] <= Attempts => \A l \in loaded[m] : Settled(l.device, l.token.user)

SureInv ==
    /\ \A x \in challenges : x.status = "approved" => Sure(x.id, x.user)
    /\ \A m \in Machines : LoginSure(m)

\* Only the handlers' own steps move them.
LEMMA HandlersAside ==
  ASSUME TypeOK, NEW p \in Procs, Handler(p)
  PROVE  /\ \A q \in Procs \ {p} : pc'[q] = pc[q] /\ job'[q] = job[q] /\ target'[q] = target[q]
         /\ UNCHANGED <<used, polls, config, daemons>>
<1> DEFINE Aside == \A q \in Procs \ {p} :
                       pc'[q] = pc[q] /\ job'[q] = job[q] /\ target'[q] = target[q]
<1>1. ASSUME Finish(p) PROVE Aside
  BY <1>1 DEF TypeOK, Finish
<1>2. ASSUME NEW j, NEW i, NEW next, RegisterAs(p, j, i, next) \/ RegisterRefused(p, j)
      PROVE  Aside
  BY <1>1, <1>2 DEF TypeOK, RegisterAs, RegisterRefused, Goto
<1>3. CASE Register(p) \/ AdminRegister(p)
  BY <1>2, <1>3 DEF Register, AdminRegister
<1>4. CASE ~(Register(p) \/ AdminRegister(p))
  <2>1. Aside
    BY <1>1, <1>4 DEF TypeOK, Handler, BeginDecision, BeginAdmin, Decide, Bind, AdminDecide,
       BeginDelete, BeginAdminDelete, DropTokens, DropChallenges, DropRow, Goto
  <2>2. UNCHANGED <<used, polls, config, daemons>>
    BY <1>4 DEF Handler, BeginDecision, BeginAdmin, Decide, Bind, AdminDecide,
       BeginDelete, BeginAdminDelete, DropTokens, DropChallenges, DropRow, server
  <2>3. QED
    BY <2>1, <2>2
<1>5. QED
  BY <1>3, <1>4

LEMMA ServerAside ==
  ASSUME TypeOK, [Next]_vars, ~\E p \in Procs : Handler(p)
  PROVE  /\ UNCHANGED <<handlers, devices, removed, missed>>
         /\ \A y \in challenges' : y.status = "approved" => y \in challenges
<1> USE DEF server, handlers
<1>1. ASSUME NEW m \in Machines, NEW c \in Challenges, StartLogin(m, c)
      PROVE  /\ UNCHANGED <<handlers, devices, removed, missed>>
             /\ \A y \in challenges' : y.status = "approved" => y \in challenges
  BY <1>1 DEF StartLogin
<1>2. CASE ExpireOld
  <2>1. \A x \in challenges :
          LET y == [x EXCEPT !.status = IF @ = "pending" /\ x.id \in lapsed
                                         THEN "expired" ELSE @]
          IN  y.status = "approved" => y = x
    BY DEF TypeOK, Challenge, Undecided, Decided
  <2>2. QED
    BY <1>2, <2>1 DEF ExpireOld
<1>3. CASE UNCHANGED vars
  BY <1>3 DEF vars
<1>4. ASSUME NEW m \in Machines, Login(m), ~\E c \in Challenges : StartLogin(m, c)
      PROVE  UNCHANGED <<handlers, challenges, devices, removed, missed>>
  BY <1>4 DEF Login, GiveUp, Poll, IssueToken, Answer, LosePoll
<1>5. ASSUME NEW m \in Machines, GraceEnds(m) \/ Check(m) \/ Lapsing(m) \/ Logout(m)
      PROVE  UNCHANGED <<handlers, server>>
  BY <1>5 DEF GraceEnds, Check, BeginCheck, ValidateOk, ValidateGone, ValidateFails,
     Refresh, Lapsing, Logout
<1>6. ASSUME NEW c \in Challenges, Lapse(c)
      PROVE  UNCHANGED <<handlers, challenges, devices, removed, missed>>
  BY <1>6 DEF Lapse
<1>7. QED
  BY <1>1, <1>2, <1>3, <1>4, <1>5, <1>6 DEF Next, Clock

\* Rows of devices go only as deleted ones, and nothing is forgotten of what was missed.
LEMMA DevicesStep ==
  ASSUME TypeOK, [Next]_vars
  PROVE  /\ removed \subseteq removed' /\ missed \subseteq missed'
         /\ \A d \in devices : d \in devices' \/ d.id \in removed'
<1> DEFINE Kept == /\ removed \subseteq removed'
                  /\ \A d \in devices : d \in devices' \/ d.id \in removed'
<1>1. missed \subseteq missed'
  <2>1. ASSUME NEW p \in Procs, Handler(p) PROVE missed \subseteq missed'
    BY <2>1 DEF Handler, BeginDecision, BeginAdmin, Decide, Register, Bind, AdminRegister,
       AdminDecide, BeginDelete, BeginAdminDelete, DropTokens, DropChallenges, DropRow, server
  <2>2. QED
    BY <2>1, ServerAside
<1>2. ASSUME NEW gone, NEW add, ChangeDevices(gone, add) PROVE Kept
  BY <1>2 DEF ChangeDevices
<1>3. ASSUME UNCHANGED <<devices, removed>> PROVE Kept
  BY <1>3
<1>4. ASSUME NEW p \in Procs, Register(p) \/ AdminRegister(p) PROVE Kept
  <2>1. \E j, i, next : RegisterAs(p, j, i, next) \/ RegisterRefused(p, j)
    BY <1>4 DEF Register, AdminRegister
  <2>2. QED
    BY <1>2, <1>3, <2>1 DEF RegisterAs, RegisterRefused
<1>5. ASSUME NEW p \in Procs, DropRow(p) PROVE Kept
  BY <1>2, <1>5 DEF DropRow
<1>6. ASSUME NEW p \in Procs, Handler(p), ~Register(p), ~AdminRegister(p), ~DropRow(p)
      PROVE  UNCHANGED <<devices, removed>>
  BY <1>6 DEF Handler, BeginDecision, BeginAdmin, Decide, Bind, AdminDecide,
     BeginDelete, BeginAdminDelete, DropTokens, DropChallenges, server
<1>7. Kept
  BY <1>3, <1>4, <1>5, <1>6, ServerAside
<1>8. QED
  BY <1>1, <1>7

\* A login that is settled stays so, and one that is on the way gets there: registered, or
\* missed.
LEMMA SureStays ==
  ASSUME GrantInv, [Next]_vars, NEW i, NEW u
  PROVE  /\ Settled(i, u) => Settled(i, u)'
         /\ Sure(i, u) => Sure(i, u)'
<1> USE DEF GrantInv
<1>1. Settled(i, u) => Settled(i, u)'
  BY DevicesStep DEF Settled, Registered
<1>2. ASSUME OnTheWay(i, u) PROVE Sure(i, u)'
  <2>1. PICK p \in Procs : pc[p] = "register"
                           /\ \E j \in job[p] : j.challenge = i /\ j.user = u
    BY <1>2 DEF OnTheWay
  <2>2. CASE Register(p)
    <3>1. PICK j \in job[p] :
            missed' = IF Registered(j.challenge, j.user)' THEN missed
                      ELSE missed \cup {j.challenge}
      BY <2>2 DEF Register
    <3>2. j.challenge = i /\ j.user = u
      BY <2>1 DEF JobsGranted, JobFor
    <3>3. QED
      BY <3>1, <3>2 DEF Sure, Settled
  <2>3. CASE ~Register(p)
    <3>1. ~Handler(p)
      BY <2>1, <2>3 DEF Handler, BeginDecision, BeginAdmin, Decide, Bind, AdminRegister,
         AdminDecide, BeginDelete, BeginAdminDelete, DropTokens, DropChallenges, DropRow
    <3>2. pc'[p] = pc[p] /\ job'[p] = job[p]
      BY <3>1, HandlersAside, ServerAside DEF handlers
    <3>3. QED
      BY <2>1, <3>2 DEF Sure, OnTheWay
  <2>4. QED
    BY <2>2, <2>3
<1>3. QED
  BY <1>1, <1>2 DEF Sure

\* A row keeps its verdict unless its challenge is being decided.
LEMMA VerdictKept ==
  ASSUME TypeOK, NEW p \in Procs, Handler(p), ~Decide(p), ~AdminDecide(p)
  PROVE  \A y \in challenges' : \E x \in challenges :
            x.id = y.id /\ x.status = y.status /\ x.user = y.user
<1> DEFINE Kept == \A y \in challenges' : \E x \in challenges :
                      x.id = y.id /\ x.status = y.status /\ x.user = y.user
<1>1. ASSUME NEW gone, NEW add, ChangeDevices(gone, add) PROVE Kept
  <2> DEFINE H(x) == [x EXCEPT !.wg = IF \E d \in gone : d.id = @ THEN NoDevice ELSE @]
  <2>1. \A x \in challenges : H(x).id = x.id /\ H(x).status = x.status /\ H(x).user = x.user
    BY DEF TypeOK, Challenge, Undecided, Decided
  <2>2. \A y \in challenges' : \E x \in challenges : y = H(x)
    BY <1>1 DEF ChangeDevices
  <2> HIDE DEF H
  <2>3. QED
    BY <2>1, <2>2
<1>2. CASE Register(p) \/ AdminRegister(p)
  <2>1. \E j, i, next : RegisterAs(p, j, i, next) \/ RegisterRefused(p, j)
    BY <1>2 DEF Register, AdminRegister
  <2>2. UNCHANGED challenges \/ \E gone, add : ChangeDevices(gone, add)
    BY <2>1 DEF RegisterAs, RegisterRefused
  <2>3. QED
    BY <1>1, <2>2
<1>3. CASE DropRow(p)
  BY <1>1, <1>3 DEF DropRow
<1>4. CASE Bind(p)
  <2>1. PICK j \in job[p], i \in target[p] :
          challenges' = {IF x.id = j.challenge /\ \E d \in devices : d.id = i
                         THEN [x EXCEPT !.wg = i] ELSE x : x \in challenges}
    BY <1>4 DEF Bind
  <2> DEFINE B(x) == IF x.id = j.challenge /\ \E d \in devices : d.id = i
                     THEN [x EXCEPT !.wg = i] ELSE x
  <2>2. \A x \in challenges : B(x).id = x.id /\ B(x).status = x.status /\ B(x).user = x.user
    BY DEF TypeOK, Challenge, Undecided, Decided
  <2>3. \A y \in challenges' : \E x \in challenges : y = B(x)
    BY <2>1
  <2> HIDE DEF B
  <2>4. QED
    BY <2>2, <2>3
<1>5. CASE ~Register(p) /\ ~AdminRegister(p) /\ ~DropRow(p) /\ ~Bind(p)
  BY <1>5 DEF Handler, BeginDecision, BeginAdmin, BeginDelete, BeginAdminDelete, DropTokens,
     DropChallenges, server
<1>6. QED
  BY <1>2, <1>3, <1>4, <1>5

\* Whoever reads an approval, the login it approves is settled or on the way.
LEMMA ApprovedSure ==
  ASSUME GrantInv, SureInv, [Next]_vars, NEW y \in challenges', y.status = "approved"
  PROVE  Sure(y.id, y.user)'
<1> USE DEF GrantInv
<1>1. ASSUME NEW x \in challenges, x.id = y.id, x.status = "approved", x.user = y.user
      PROVE  Sure(y.id, y.user)'
  BY <1>1, SureStays DEF SureInv
<1>2. CASE ~\E p \in Procs : Handler(p)
  BY <1>1, <1>2, ServerAside
<1>3. ASSUME NEW p \in Procs, Handler(p), ~Decide(p), ~AdminDecide(p)
      PROVE  Sure(y.id, y.user)'
  BY <1>1, <1>3, VerdictKept
\* An approval by the application is about to register, one by an administrator has.
<1>4. ASSUME NEW j \in Job, Update(j), j.approve => Sure(j.challenge, j.user)'
      PROVE  Sure(y.id, y.user)'
  BY <1>1, <1>4 DEF Update
<1>5. ASSUME NEW p \in Procs, Decide(p) PROVE Sure(y.id, y.user)'
  <2>1. PICK j \in job[p] :
          \/ UNCHANGED challenges
          \/ Update(j) /\ (j.approve => Goto(p, "register") /\ UNCHANGED job)
    BY <1>5 DEF Decide
  <2>2. ASSUME j.approve, Goto(p, "register"), UNCHANGED job
        PROVE  Sure(j.challenge, j.user)'
    <3>1. pc'[p] = "register" /\ j \in job'[p]
      BY <2>2 DEF Goto, TypeOK
    <3>2. QED
      BY <3>1 DEF Sure, OnTheWay
  <2>3. j \in Job
    BY DEF TypeOK
  <2>4. QED
    BY <1>1, <1>4, <2>1, <2>2, <2>3
<1>6. ASSUME NEW p \in Procs, AdminDecide(p) PROVE Sure(y.id, y.user)'
  <2>1. PICK j \in job[p] :
          \/ UNCHANGED challenges
          \/ Update(j) /\ missed' = IF Registered(j.challenge, j.user) THEN missed
                                    ELSE missed \cup {j.challenge}
    BY <1>6 DEF AdminDecide
  <2>2. devices' = devices /\ j \in Job
    BY <1>6 DEF AdminDecide, TypeOK
  <2>3. ASSUME missed' = IF Registered(j.challenge, j.user) THEN missed
                         ELSE missed \cup {j.challenge}
        PROVE  Sure(j.challenge, j.user)'
    BY <2>2, <2>3 DEF Sure, Settled, Registered
  <2>4. QED
    BY <1>1, <1>4, <2>1, <2>2, <2>3
<1>7. QED
  BY <1>2, <1>3, <1>5, <1>6

LEMMA LoginStays ==
  ASSUME GrantInv, [Next]_vars, NEW m \in Machines, LoginSure(m),
         answer'[m] = answer[m], config'[m] = config[m], loaded'[m] = loaded[m],
         attempt'[m] = attempt[m], m \in fresh => m \in fresh'
  PROVE  LoginSure(m)'
<1>1. /\ \A x \in answer[m] : Sure(x.id, x.user)'
      /\ \A l \in config[m] \cup loaded[m] : Sure(l.device, l.token.user)'
  BY SureStays DEF LoginSure
<1>2. ASSUME NEW l, Settled(l.device, l.token.user) PROVE Settled(l.device, l.token.user)'
  BY <1>2, SureStays
<1>3. m \notin fresh' => \A l \in config[m] \cup loaded[m] : Settled(l.device, l.token.user)'
  BY <1>2 DEF LoginSure
<1>4. attempt[m] <= Attempts => \A l \in loaded[m] : Settled(l.device, l.token.user)'
  BY <1>2 DEF LoginSure
<1>5. QED
  BY <1>1, <1>3, <1>4 DEF LoginSure

\* The steps of m's own login and daemon, none of which touches the rows of devices.
LEMMA OwnLogin ==
  ASSUME GrantInv, GrantInv', SureInv, [Next]_vars, NEW m \in Machines,
         Login(m) \/ GraceEnds(m) \/ Check(m) \/ Lapsing(m) \/ Logout(m)
  PROVE  LoginSure(m)'
<1> USE DEF GrantInv, TypeOK, server, handlers, polls, daemons
<1>0. LoginSure(m)
  BY DEF SureInv
<1>1. \A i, u : (Settled(i, u) => Settled(i, u)') /\ (Sure(i, u) => Sure(i, u)')
  BY SureStays
\* A poll reads nothing but what is on record.
<1>2. ASSUME \A x \in answer'[m] : x \in answer[m] \/ (x \in challenges /\ x.status = "approved"),
             UNCHANGED <<config, daemons>>
      PROVE  LoginSure(m)'
  <2>1. \A x \in answer'[m] : Sure(x.id, x.user)'
    BY <1>0, <1>1, <1>2 DEF LoginSure, SureInv
  <2>2. QED
    BY <1>0, <1>1, <1>2, <2>1 DEF LoginSure
<1>3. CASE (\E c \in Challenges : StartLogin(m, c)) \/ IssueToken(m)
  BY <1>0, <1>3, LoginStays DEF StartLogin, IssueToken
<1>4. CASE GiveUp(m) \/ Poll(m) \/ LosePoll(m)
  <2>1. \A x \in answer'[m] : x \in answer[m] \/ (x \in challenges /\ x.status = "approved")
    BY <1>4 DEF GiveUp, Poll, LosePoll, StopPolling, ById
  <2>2. QED
    BY <1>2, <1>4, <2>1 DEF GiveUp, Poll, LosePoll
<1>5. CASE Answer(m)
  <2>1. PICK x \in answer[m] :
          config' = [config EXCEPT ![m] =
             {[device |-> x.id, live |-> TRUE,
               token |-> [user |-> x.user, device |-> TokenDevice(x)],
               vpn |-> x.wg # NoDevice /\ \E d \in devices : d.id = x.wg]}]
    BY <1>5 DEF Answer
  <2> DEFINE login == [device |-> x.id, live |-> TRUE,
                       token |-> [user |-> x.user, device |-> TokenDevice(x)],
                       vpn |-> x.wg # NoDevice /\ \E d \in devices : d.id = x.wg]
  <2>2. login.device = x.id /\ login.token.user = x.user
    OBVIOUS
  <2>3. config'[m] = {login}
    BY <2>1
  <2> HIDE DEF login
  <2>4. Sure(x.id, x.user)'
    BY <1>0, <1>1 DEF LoginSure
  <2>5. loaded' = loaded /\ attempt' = attempt /\ m \in fresh' /\ answer'[m] = {}
    BY <1>5 DEF Answer, StopPolling
  <2>6. \A l \in config'[m] \cup loaded'[m] : Sure(l.device, l.token.user)'
    BY <1>0, <1>1, <2>2, <2>3, <2>4, <2>5 DEF LoginSure
  <2>7. \A k, l \in config'[m] : k = l
    BY <2>3
  <2>8. QED
    BY <1>0, <1>1, <2>5, <2>6, <2>7 DEF LoginSure
\* The grace period outlives the handlers.
<1>6. CASE GraceEnds(m)
  <2>1. UNCHANGED <<answer, config, loaded, attempt>>
    BY <1>6 DEF GraceEnds
  <2>2. ASSUME NEW l \in config[m] \cup loaded[m] PROVE Settled(l.device, l.token.user)
    <3>1. ~OnTheWay(l.device, l.token.user)
      BY <1>6, <2>2 DEF GraceEnds, OnTheWay
    <3>2. QED
      BY <1>0, <3>1 DEF LoginSure, Sure
  <2>3. QED
    BY <1>0, <1>1, <2>1, <2>2 DEF LoginSure
\* What is checked, validated or written back is a login there was before.
<1>7. ASSUME UNCHANGED <<answer, fresh>>,
             \A l \in config'[m] : \E k \in config[m] \cup loaded[m] :
                l.device = k.device /\ l.token = k.token,
             \A l \in loaded'[m] : l \in config[m] \cup loaded[m],
             \A k, l \in config'[m] : k = l,
             \A k, l \in loaded'[m] : k = l,
             attempt'[m] <= Attempts =>
                \A l \in loaded'[m] : Settled(l.device, l.token.user)
      PROVE  LoginSure(m)'
  <2>1. \A l \in config'[m] \cup loaded'[m] :
           /\ Sure(l.device, l.token.user)
           /\ m \notin fresh => Settled(l.device, l.token.user)
    BY <1>0, <1>7 DEF LoginSure
  <2>2. /\ \A l \in config'[m] \cup loaded'[m] :
              /\ Sure(l.device, l.token.user)'
              /\ m \notin fresh => Settled(l.device, l.token.user)'
        /\ attempt'[m] <= Attempts =>
              \A l \in loaded'[m] : Settled(l.device, l.token.user)'
    BY <1>1, <1>7, <2>1
  <2>3. \A x \in answer[m] : Sure(x.id, x.user)'
    BY <1>0, <1>1 DEF LoginSure
  <2>4. QED
    BY <1>7, <2>2, <2>3 DEF LoginSure
<1>8. Attempts \in Nat
  BY DeviceAuthAssumption DEF DeviceAuthAssumption
<1>9. CASE BeginCheck(m)
  <2>1. /\ UNCHANGED <<answer, fresh, config>> /\ loaded'[m] = config[m]
        /\ attempt'[m] = IF m \in fresh THEN Attempts + 1 ELSE 1
    BY <1>9 DEF BeginCheck
  <2>2. attempt'[m] <= Attempts => m \notin fresh
    BY <1>8, <2>1
  <2>3. QED
    BY <1>0, <1>7, <2>1, <2>2 DEF LoginSure
<1>10. CASE ValidateOk(m) \/ ValidateGone(m) \/ ValidateFails(m)
  <2>1. /\ UNCHANGED <<answer, fresh>>
        /\ config'[m] \in {config[m], {}} /\ loaded'[m] \in {loaded[m], {}}
        /\ attempt[m] <= Attempts
    BY <1>10 DEF ValidateOk, ValidateGone, ValidateFails, Validating, Clear
  <2>2. \A l \in loaded[m] : Settled(l.device, l.token.user)
    BY <1>0, <2>1 DEF LoginSure
  <2>3. QED
    BY <1>0, <1>7, <2>1, <2>2 DEF LoginSure
<1>11. CASE Refresh(m)
  <2> DEFINE Renewed(l) == [l EXCEPT !.live = TRUE]
  <2>1. UNCHANGED <<answer, fresh>> /\ loaded'[m] = {}
    BY <1>11 DEF Refresh, Clear
  <2>2. config'[m] = config[m] \/ \E l \in loaded[m] : config'[m] = {Renewed(l)}
    BY <1>11 DEF Refresh
  <2>3. \A l \in loaded[m] : Renewed(l).device = l.device /\ Renewed(l).token = l.token
    BY DEF Config
  <2> HIDE DEF Renewed
  <2>4. \A l \in config'[m] : \E k \in config[m] \cup loaded[m] :
           l.device = k.device /\ l.token = k.token
    BY <2>2, <2>3
  <2>5. \A k, l \in config'[m] : k = l
    BY <1>0, <2>2 DEF LoginSure
  <2>6. QED
    BY <1>7, <2>1, <2>4, <2>5
<1>12. CASE Lapsing(m)
  <2> DEFINE Stale(l) == [l EXCEPT !.live = FALSE]
  <2>1. /\ UNCHANGED <<answer, fresh, loaded, attempt>>
        /\ config'[m] = {Stale(l) : l \in config[m]}
    BY <1>12 DEF Lapsing
  <2>2. \A l \in config[m] : Stale(l).device = l.device /\ Stale(l).token = l.token
    BY DEF Config
  <2> HIDE DEF Stale
  <2>3. \A l \in config'[m] : \E k \in config[m] \cup loaded[m] :
           l.device = k.device /\ l.token = k.token
    BY <2>1, <2>2
  <2>4. \A k, l \in config'[m] : k = l
    BY <1>0, <2>1 DEF LoginSure
  <2>5. QED
    BY <1>0, <1>7, <2>1, <2>3, <2>4 DEF LoginSure
<1>13. CASE Logout(m)
  <2>1. UNCHANGED <<answer, fresh>> /\ config'[m] = {} /\ loaded'[m] = {}
    BY <1>13 DEF Logout, Clear
  <2>2. QED
    BY <1>7, <2>1
<1>14. QED
  BY <1>3, <1>4, <1>5, <1>6, <1>9, <1>10, <1>11, <1>12, <1>13 DEF Login, Check

LEMMA SureStep ==
  ASSUME GrantInv, GrantInv', SureInv, [Next]_vars
  PROVE  SureInv'
<1> USE DEF server, handlers, polls, daemons
<1>1. ASSUME NEW m \in Machines,
             answer'[m] = answer[m], config'[m] = config[m], loaded'[m] = loaded[m],
             attempt'[m] = attempt[m], m \in fresh => m \in fresh'
      PROVE  LoginSure(m)'
  BY <1>1, LoginStays DEF SureInv
<1>2. CASE UNCHANGED vars \/ Clock \/ \E p \in Procs : Handler(p)
  <2>1. UNCHANGED <<answer, config, loaded, attempt, fresh>>
    <3>1. ASSUME NEW p \in Procs, Handler(p) PROVE UNCHANGED <<polls, config, daemons>>
      BY <3>1, HandlersAside DEF GrantInv
    <3>2. QED
      BY <1>2, <3>1 DEF vars, Clock, ExpireOld, Lapse
  <2>2. QED
    BY <1>1, <2>1, ApprovedSure DEF SureInv
<1>3. ASSUME NEW m \in Machines, Login(m) \/ GraceEnds(m) \/ Check(m) \/ Lapsing(m) \/ Logout(m)
      PROVE  SureInv'
  <2>1. LoginSure(m)'
    BY <1>3, OwnLogin
  <2>2. ASSUME NEW n \in Machines \ {m} PROVE LoginSure(n)'
    <3>1. /\ answer'[n] = answer[n] /\ config'[n] = config[n] /\ loaded'[n] = loaded[n]
          /\ attempt'[n] = attempt[n] /\ (n \in fresh => n \in fresh')
      BY <1>3 DEF GrantInv, TypeOK, Login, StartLogin, GiveUp, Poll, IssueToken, Answer, LosePoll,
         StopPolling, GraceEnds, Check, BeginCheck, ValidateOk, ValidateGone, ValidateFails,
         Refresh, Lapsing, Logout, Clear
    <3>2. QED
      BY <1>1, <3>1
  <2>3. QED
    BY <2>1, <2>2, ApprovedSure DEF SureInv
<1>4. QED
  BY <1>2, <1>3 DEF Next

LEMMA SureAlways == Spec => []SureInv
<1>1. Init => SureInv
  BY DEF Init, SureInv, LoginSure
<1>2. GrantInv /\ GrantInv' /\ SureInv /\ [Next]_vars => SureInv'
  BY SureStep
<1>3. QED
  BY <1>1, <1>2, GrantAlways, PTL DEF Spec

\* For any number of machines, logins of each, users, administrators and handlers, and with
\* failing calls: the login a daemon gives up is of a device that has been deleted or that
\* its approval missed.  A server that answers 404 for a device it has is the one exception.
THEOREM CleanupIsJustified == ASSUME ~LookupFails PROVE Spec => CleanupJustified
<1>1. ASSUME TypeOK, SureInv, NEW m \in Machines, NEW l \in loaded[m], ValidateGone(m)
      PROVE  l.device \in removed \cup missed
  <2>1. ~Registered(l.device, l.token.user) /\ attempt[m] <= Attempts
    BY <1>1 DEF ValidateGone, Validating, SureInv, LoginSure
  <2>2. QED
    BY <1>1, <2>1 DEF SureInv, LoginSure, Settled
<1>2. TypeOK /\ SureInv /\ [Next]_vars =>
        [\A m \in Machines : \A l \in loaded[m] :
            ValidateGone(m) /\ loaded'[m] = {} => l.device \in removed \cup missed]_vars
  BY <1>1
<1>3. QED
  BY <1>2, TypeCorrect, SureAlways, PTL DEF Spec, CleanupJustified

=============================================================================
