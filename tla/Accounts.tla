------------------------------ MODULE Accounts ------------------------------
(***************************************************************************)
(* Accounts: a person logs in with a code sent by mail, or with Firebase,  *)
(* and is given an account and a subnet the first time.  Every call of a   *)
(* repository is a step, and handlers interleave.                          *)
(***************************************************************************)
EXTENDS SubnetPool, FiniteSets

CONSTANTS
    Emails,
    Codes, NoCode,     \* codes that may be sent; a login through Firebase has none
    EmailOf,           \* [Codes -> Emails]: where each is sent
    Procs,             \* handlers that may be in flight together
    Conflicts,         \* networks that may be recorded as conflicts
    InitialUsers, InitialConflicts, \* what the server finds when it starts
    Unreliable         \* may a call fail?

Account == [email : Emails, subnet : Network]
Login == [email : Emails, code : Codes \cup {NoCode}]

\* A network of the size and at a place where the pool puts subnets.
Aligned(n) == n.size = SubnetSize /\ Multiple(n.ip)

ASSUME AccountsAssumption ==
    /\ NoCode \notin Codes
    /\ EmailOf \in [Codes -> Emails]
    /\ Conflicts \subseteq Network
    /\ InitialConflicts \subseteq Conflicts
    /\ InitialUsers \subseteq Account
    /\ \A u \in InitialUsers : Aligned(u.subnet)
    /\ \A u, v \in InitialUsers : u # v => u.email # v.email /\ u.subnet # v.subnet

VARIABLES
    users,      \* rows of users, all of them active
    codes,      \* rows of auth_codes that are left
    used,       \* codes whose row has been marked used
    lapsed,     \* codes whose expires_at has passed
    sent,       \* codes ever sent
    conflicts,  \* rows of network_conflicts
    pc,         \* per handler: its next step
    login,      \* per handler: the login it serves ({} or one)
    taken,      \* per handler: the subnets GetAllSubnets returned
    subnet,     \* per handler: the subnet AllocateSubnet returned ({} or one)
    spent       \* history: codes that have logged somebody in

rows == <<users, codes, used, sent, conflicts>>
local == <<pc, login, taken, subnet>>
accounts == <<users, codes, used, lapsed, sent, conflicts, pc, login, taken, subnet, spent>>

Goto(p, l) == pc' = [pc EXCEPT ![p] = l]

Finish(p) ==
    /\ Goto(p, "idle")
    /\ login' = [login EXCEPT ![p] = {}]
    /\ taken' = [taken EXCEPT ![p] = {}]
    /\ subnet' = [subnet EXCEPT ![p] = {}]

-----------------------------------------------------------------------------
(* Codes.                                                                    *)

\* The row is inserted, then the mail is sent.
RequestCode(c) ==
    /\ c \notin sent
    /\ sent' = sent \cup {c}
    /\ codes' = codes \cup {c}
    /\ UNCHANGED <<users, used, lapsed, conflicts, local, spent>>

Lapse(c) ==
    /\ c \in sent \ lapsed
    /\ lapsed' = lapsed \cup {c}
    /\ UNCHANGED <<rows, local, spent>>

\* Every five minutes: DELETE, used or not, whatever has expired.
CleanupExpiredCodes ==
    /\ codes \cap lapsed # {}
    /\ codes' = codes \ lapsed
    /\ UNCHANGED <<users, used, lapsed, sent, conflicts, local, spent>>

Valid(c) == c \in codes /\ c \notin used /\ c \notin lapsed

\* GetValidCode; whatever is not valid is answered at once.
BeginVerify(p, c) ==
    /\ pc[p] = "idle"
    /\ Valid(c)
    /\ login' = [login EXCEPT ![p] = {[email |-> EmailOf[c], code |-> c]}]
    /\ Goto(p, "mark")
    /\ UNCHANGED <<rows, lapsed, taken, subnet, spent>>

\* (mutant of MarkCodeUsed: left to the clean-up)
LeaveCode(p) ==
    /\ pc[p] = "mark"
    /\ Goto(p, "find")
    /\ UNCHANGED <<rows, lapsed, login, taken, subnet, spent>>

\* An update by id, without a condition.
MarkCodeUsed(p) ==
    /\ pc[p] = "mark"
    /\ used' = used \cup ({l.code : l \in login[p]} \cap codes)
    /\ Goto(p, "find")
    /\ UNCHANGED <<users, codes, sent, conflicts, lapsed, login, taken, subnet, spent>>

-----------------------------------------------------------------------------
(* The account, found or created.                                            *)

\* LoginWithFirebase, once the token of Firebase is verified.
BeginFirebase(p, e) ==
    /\ pc[p] = "idle"
    /\ login' = [login EXCEPT ![p] = {[email |-> e, code |-> NoCode]}]
    /\ Goto(p, "find")
    /\ UNCHANGED <<rows, lapsed, taken, subnet, spent>>

\* (mutant of Answer: a login without a code spends one too)
AnswerSpending(p) ==
    /\ spent' = spent \cup {l.code : l \in login[p]}
    /\ Finish(p)

\* The JWT is issued, and the handler ends.
Answer(p) ==
    /\ spent' = spent \cup ({l.code : l \in login[p]} \ {NoCode})
    /\ Finish(p)

\* GetByEmail
FindUser(p) ==
    /\ pc[p] = "find"
    /\ IF \E l \in login[p], u \in users : u.email = l.email
       THEN Answer(p)
       ELSE Goto(p, "subnets") /\ UNCHANGED <<login, taken, subnet, spent>>
    /\ UNCHANGED <<rows, lapsed>>

\* GetAllSubnets
ReadSubnets(p) ==
    /\ pc[p] = "subnets"
    /\ taken' = [taken EXCEPT ![p] = {u.subnet : u \in users}]
    /\ Goto(p, "allocate")
    /\ UNCHANGED <<rows, lapsed, login, subnet, spent>>

\* GetAllCIDRs, and the search
Allocate(p) ==
    /\ pc[p] = "allocate"
    /\ LET found == Allocation(taken[p], conflicts)
       IN  IF found = {} THEN Finish(p)
           ELSE /\ subnet' = [subnet EXCEPT ![p] = found]
                /\ Goto(p, "create")
                /\ UNCHANGED <<login, taken>>
    /\ UNCHANGED <<rows, lapsed, spent>>

\* (mutant of Create: no UNIQUE on subnet)
CreateAnyway(p) ==
    /\ pc[p] = "create"
    /\ \E l \in login[p], n \in subnet[p] :
          IF \E u \in users : u.email = l.email
          THEN Finish(p) /\ UNCHANGED <<users, spent>>
          ELSE users' = users \cup {[email |-> l.email, subnet |-> n]} /\ Answer(p)
    /\ UNCHANGED <<codes, used, lapsed, sent, conflicts>>

\* INSERT, refused when the mail address or the subnet has an account by now.
Create(p) ==
    /\ pc[p] = "create"
    /\ \E l \in login[p], n \in subnet[p] :
          IF \E u \in users : u.email = l.email \/ u.subnet = n
          THEN Finish(p) /\ UNCHANGED <<users, spent>>
          ELSE users' = users \cup {[email |-> l.email, subnet |-> n]} /\ Answer(p)
    /\ UNCHANGED <<codes, used, lapsed, sent, conflicts>>

\* A call fails (the insert also when another account has the UID of this Firebase
\* login), or the client hangs up: nothing is undone.
Fails(p) ==
    /\ Unreliable
    /\ pc[p] # "idle"
    /\ Finish(p)
    /\ UNCHANGED <<rows, lapsed, spent>>

\* AddManualConflict, or a network ScanNetworks found
AddConflict(n) ==
    /\ n \notin conflicts
    /\ conflicts' = conflicts \cup {n}
    /\ UNCHANGED <<users, codes, used, lapsed, sent, local, spent>>

-----------------------------------------------------------------------------
Init ==
    /\ users = InitialUsers
    /\ codes = {} /\ used = {} /\ lapsed = {} /\ sent = {}
    /\ conflicts = InitialConflicts
    /\ pc = [p \in Procs |-> "idle"]
    /\ login = [p \in Procs |-> {}]
    /\ taken = [p \in Procs |-> {}]
    /\ subnet = [p \in Procs |-> {}]
    /\ spent = {}

Handler(p) ==
    \/ \E c \in Codes : BeginVerify(p, c)
    \/ \E e \in Emails : BeginFirebase(p, e)
    \/ MarkCodeUsed(p)
    \/ FindUser(p) \/ ReadSubnets(p) \/ Allocate(p) \/ Create(p) \/ Fails(p)

Environment ==
    \/ \E c \in Codes : RequestCode(c) \/ Lapse(c)
    \/ CleanupExpiredCodes
    \/ \E n \in Conflicts : AddConflict(n)

Next == Environment \/ \E p \in Procs : Handler(p)

Spec == Init /\ [][Next]_accounts

-----------------------------------------------------------------------------
(* Properties.                                                               *)

Steps == {"idle", "mark", "find", "subnets", "allocate", "create"}

\* Every variable keeps its type.
TypeOK ==
    /\ users \subseteq Account
    /\ codes \subseteq sent /\ used \subseteq sent /\ lapsed \subseteq sent
    /\ sent \subseteq Codes /\ spent \subseteq sent
    /\ conflicts \subseteq Network
    /\ pc \in [Procs -> Steps]
    /\ login \in [Procs -> SUBSET Login]
    /\ taken \in [Procs -> SUBSET Network]
    /\ subnet \in [Procs -> SUBSET Network]

\* Whatever first logins run at the same moment, and whichever range their subnets
\* come from, the subnets of two accounts share no address: the database refuses equal
\* subnets only, and the pool compares the new one with those it has read, for equality.
SubnetsDisjoint ==
    \A u, v \in users : u # v => AddressesOf(u.subnet) \cap AddressesOf(v.subnet) = {}

\* No account created since is given a subnet that overlaps a network the server knew
\* to be in use when it started.
ConflictsAvoided ==
    \A u \in users \ InitialUsers : \A n \in InitialConflicts :
        AddressesOf(u.subnet) \cap AddressesOf(n) = {}

\* "code has already been used": no login begins with a code that has logged somebody
\* in (those that had begun by then may end well).
SpentCodesRefused ==
    [][\A p \in Procs, c \in Codes : BeginVerify(p, c) => c \notin spent]_accounts

=============================================================================
