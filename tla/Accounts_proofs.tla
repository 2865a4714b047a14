-------------------------- MODULE Accounts_proofs --------------------------
(* Proofs about Accounts.  The pool compares subnets for equality only; what *)
(* keeps them disjoint is that each of them starts at a multiple of the one  *)
(* size they all have.                                                       *)
EXTENDS Accounts, TLAPS

-----------------------------------------------------------------------------
(* The pool.                                                                 *)

\* Two multiples of a number that differ, differ by that number at least.
LEMMA MultiplesApart ==
  ASSUME NEW S \in Nat \ {0}, NEW i \in Nat, NEW j \in Nat, i < j
  PROVE  i * S + S <= j * S
<1>1. PICK k \in Nat : j = i + 1 + k
  <2>1. j - i - 1 \in Nat /\ j = i + 1 + (j - i - 1)
    OBVIOUS
  <2> QED BY <2>1
<1>2. j * S = i * S + S + k * S
  BY <1>1
<1>3. k * S \in Nat /\ i * S \in Nat
  OBVIOUS
<1> QED BY <1>2, <1>3

\* Aligned networks are equal or disjoint.
LEMMA AlignedApart ==
  ASSUME NEW m \in Network, NEW n \in Network, Aligned(m), Aligned(n), m # n
  PROVE  AddressesOf(m) \cap AddressesOf(n) = {}
<1>1. PICK i \in 0..m.ip : m.ip = i * SubnetSize
  BY DEF Aligned, Multiple
<1>2. PICK j \in 0..n.ip : n.ip = j * SubnetSize
  BY DEF Aligned, Multiple
<1>3. SubnetSize \in Nat \ {0} /\ m.size = SubnetSize /\ n.size = SubnetSize
  BY SubnetPoolAssumption DEF SubnetPoolAssumption, Aligned
<1>4. m.ip \in Nat /\ n.ip \in Nat /\ i \in Nat /\ j \in Nat
  BY DEF Network
<1>5. m.ip # n.ip
  BY <1>3 DEF Network
<1>6. m.ip + SubnetSize <= n.ip \/ n.ip + SubnetSize <= m.ip
  <2>1. i # j
    BY <1>1, <1>2, <1>5
  <2>2. CASE i < j
    BY <2>2, <1>1, <1>2, <1>3, <1>4, MultiplesApart
  <2>3. CASE j < i
    BY <2>3, <1>1, <1>2, <1>3, <1>4, MultiplesApart
  <2> QED BY <2>1, <2>2, <2>3, <1>4
<1> QED BY <1>3, <1>4, <1>6 DEF AddressesOf

\* GetNextAvailableIP's loop is one too long: what it may return are the usable addresses
\* and, above them all, the broadcast address.
LEMMA BroadcastLast ==
  ASSUME NEW n \in Network, n.size >= 3
  PROVE  /\ HostsOf(n) = UsableOf(n) \cup {n.ip + n.size - 1}
         /\ \A a \in UsableOf(n) : a < n.ip + n.size - 1
<1>1. n.ip \in Nat /\ n.size \in Nat
  BY DEF Network
<1>2. ASSUME NEW a \in HostsOf(n) PROVE a \in UsableOf(n) \cup {n.ip + n.size - 1}
  <2>1. PICK i \in 0..(n.size - 3) : a = n.ip + 2 + i
    BY DEF HostsOf
  <2>2. QED
    BY <1>1, <2>1 DEF UsableOf, AddressesOf
<1>3. ASSUME NEW a \in Nat, n.ip + 2 <= a, a <= n.ip + n.size - 1 PROVE a \in HostsOf(n)
  <2>1. a - n.ip - 2 \in 0..(n.size - 3) /\ a = n.ip + 2 + (a - n.ip - 2)
    BY <1>1, <1>3
  <2>2. QED
    BY <2>1 DEF HostsOf
<1>4. \A a \in UsableOf(n) : a \in Nat /\ n.ip + 2 <= a /\ a < n.ip + n.size - 1
  BY <1>1 DEF UsableOf, AddressesOf
<1>5. n.ip + n.size - 1 \in HostsOf(n)
  BY <1>1, <1>3
<1>6. UsableOf(n) \subseteq HostsOf(n)
  BY <1>1, <1>3, <1>4
<1>7. QED
  BY <1>2, <1>4, <1>5, <1>6

\* What the pool allocates is an aligned network that was not taken.
LEMMA AllocationAligned ==
  ASSUME NEW existing, NEW known, NEW n \in Allocation(existing, known)
  PROVE  n \in Network /\ Aligned(n) /\ n \notin existing
<1>1. PICK k \in DOMAIN Ranges : n \in Free(Ranges[k], existing, known)
  BY DEF Allocation
<1>2. n \in Candidates(Ranges[k]) /\ n \notin existing
  BY <1>1 DEF Free
<1>3. PICK i \in 0..(Ranges[k].size \div SubnetSize) - 1 :
         n = [ip |-> Ranges[k].ip + i * SubnetSize, size |-> SubnetSize]
  BY <1>2 DEF Candidates
<1>4. SubnetSize \in Nat \ {0} /\ Ranges[k] \in Network /\ Multiple(Ranges[k].ip)
  BY SubnetPoolAssumption DEF SubnetPoolAssumption
<1>5. PICK j \in 0..Ranges[k].ip : Ranges[k].ip = j * SubnetSize
  BY <1>4 DEF Multiple
<1>6. i \in Nat /\ j \in Nat
  BY <1>4 DEF Network
<1>7. n.ip = (j + i) * SubnetSize /\ n.ip \in Nat
  BY <1>3, <1>4, <1>5, <1>6
<1>8. j + i \in 0..n.ip
  <2>1. PICK t \in Nat : SubnetSize = 1 + t
    <3>1. SubnetSize - 1 \in Nat /\ SubnetSize = 1 + (SubnetSize - 1)
      BY <1>4
    <3> QED BY <3>1
  <2>2. (j + i) * SubnetSize = (j + i) + (j + i) * t
    BY <1>6, <2>1
  <2>3. (j + i) * t \in Nat
    BY <1>6, <2>1
  <2> QED BY <1>6, <1>7, <2>2, <2>3
<1> QED BY <1>2, <1>3, <1>4, <1>7, <1>8 DEF Aligned, Multiple, Network

-----------------------------------------------------------------------------
(* The invariant.                                                            *)

\* The rows: at most one account for a mail address, at most one for a subnet, and
\* every subnet where the pool puts it.
SubnetsAligned == \A u \in users : Aligned(u.subnet)
RowsUnique == \A u, v \in users : u # v => u.subnet # v.subnet

\* A subnet waiting to be inserted came from the pool.
ChosenAligned == \A p \in Procs : \A n \in subnet[p] : Aligned(n)

\* A code that is being used has been sent.
LoginsSent == \A p \in Procs : \A l \in login[p] : l.code \in sent \cup {NoCode}

AccountInv == TypeOK /\ SubnetsAligned /\ RowsUnique /\ ChosenAligned /\ LoginsSent

LEMMA AccountInit == Init => AccountInv
<1> SUFFICES ASSUME Init PROVE AccountInv
  OBVIOUS
<1>1. TypeOK
  BY AccountsAssumption DEF AccountsAssumption, Init, TypeOK, Steps
<1>2. SubnetsAligned /\ RowsUnique
  BY AccountsAssumption DEF AccountsAssumption, Init, SubnetsAligned, RowsUnique
<1>3. ChosenAligned /\ LoginsSent
  BY DEF Init, ChosenAligned, LoginsSent
<1> QED BY <1>1, <1>2, <1>3 DEF AccountInv

\* A handler that ends leaves nothing behind.
LEMMA FinishTypes ==
  ASSUME AccountInv, NEW p \in Procs, Finish(p), sent' = sent
  PROVE  /\ pc' \in [Procs -> Steps]
         /\ login' \in [Procs -> SUBSET Login]
         /\ taken' \in [Procs -> SUBSET Network]
         /\ subnet' \in [Procs -> SUBSET Network]
         /\ ChosenAligned' /\ LoginsSent'
<1> USE DEF AccountInv, TypeOK, Finish, Goto
<1>1. pc' \in [Procs -> Steps]
  BY DEF Steps
<1>2. login' \in [Procs -> SUBSET Login] /\ LoginsSent'
  BY DEF LoginsSent
<1>3. taken' \in [Procs -> SUBSET Network]
  OBVIOUS
<1>4. subnet' \in [Procs -> SUBSET Network] /\ ChosenAligned'
  BY DEF ChosenAligned
<1> QED BY <1>1, <1>2, <1>3, <1>4

\* The code of a login that is answered has been sent.
LEMMA AnswerSpends ==
  ASSUME AccountInv, NEW p \in Procs, Answer(p)
  PROVE  spent' \subseteq sent
  BY DEF AccountInv, TypeOK, LoginsSent, Answer

LEMMA EnvironmentStep == AccountInv /\ Environment => AccountInv'
<1> SUFFICES ASSUME AccountInv, Environment PROVE AccountInv'
  OBVIOUS
<1> USE DEF AccountInv, TypeOK, SubnetsAligned, RowsUnique, ChosenAligned, LoginsSent, local
<1>1. ASSUME NEW c \in Codes, RequestCode(c) PROVE AccountInv'
  BY <1>1 DEF RequestCode
<1>2. ASSUME NEW c \in Codes, Lapse(c) PROVE AccountInv'
  BY <1>2 DEF Lapse, rows
<1>3. ASSUME CleanupExpiredCodes PROVE AccountInv'
  BY <1>3 DEF CleanupExpiredCodes
<1>4. ASSUME NEW n \in Conflicts, AddConflict(n) PROVE AccountInv'
  BY <1>4, AccountsAssumption DEF AddConflict, AccountsAssumption
<1> QED BY <1>1, <1>2, <1>3, <1>4 DEF Environment

LEMMA BeginVerifyStep ==
  ASSUME AccountInv, NEW p \in Procs, NEW c \in Codes, BeginVerify(p, c)
  PROVE  AccountInv'
<1> USE DEF AccountInv, TypeOK, BeginVerify, Goto, Valid, rows
<1>1. [email |-> EmailOf[c], code |-> c] \in Login /\ c \in sent
  BY AccountsAssumption DEF AccountsAssumption, Login
<1>2. TypeOK'
  BY <1>1 DEF Steps
<1>3. LoginsSent'
  BY <1>1 DEF LoginsSent
<1> QED BY <1>2, <1>3 DEF SubnetsAligned, RowsUnique, ChosenAligned

LEMMA BeginFirebaseStep ==
  ASSUME AccountInv, NEW p \in Procs, NEW e \in Emails, BeginFirebase(p, e)
  PROVE  AccountInv'
<1> USE DEF AccountInv, TypeOK, BeginFirebase, Goto, rows
<1>1. [email |-> e, code |-> NoCode] \in Login
  BY DEF Login
<1>2. TypeOK'
  BY <1>1 DEF Steps
<1>3. LoginsSent'
  BY <1>1 DEF LoginsSent
<1> QED BY <1>2, <1>3 DEF SubnetsAligned, RowsUnique, ChosenAligned

LEMMA MarkCodeUsedStep ==
  ASSUME AccountInv, NEW p \in Procs, MarkCodeUsed(p)
  PROVE  AccountInv'
<1> USE DEF AccountInv, TypeOK, MarkCodeUsed, Goto
<1>1. TypeOK'
  BY DEF Steps
<1> QED BY <1>1 DEF SubnetsAligned, RowsUnique, ChosenAligned, LoginsSent

LEMMA FindUserStep ==
  ASSUME AccountInv, NEW p \in Procs, FindUser(p)
  PROVE  AccountInv'
<1> USE DEF AccountInv, FindUser, rows
<1>1. SubnetsAligned' /\ RowsUnique'
  BY DEF SubnetsAligned, RowsUnique
<1>2. CASE Answer(p)
  <2>1. Finish(p)
    BY <1>2 DEF Answer
  <2> QED BY <1>1, <1>2, <2>1, FinishTypes, AnswerSpends DEF TypeOK
<1>3. CASE Goto(p, "subnets") /\ UNCHANGED <<login, taken, subnet, spent>>
  BY <1>1, <1>3 DEF TypeOK, Goto, Steps, ChosenAligned, LoginsSent
<1> QED BY <1>2, <1>3

LEMMA ReadSubnetsStep ==
  ASSUME AccountInv, NEW p \in Procs, ReadSubnets(p)
  PROVE  AccountInv'
<1> USE DEF AccountInv, TypeOK, ReadSubnets, Goto, rows
<1>1. {u.subnet : u \in users} \subseteq Network
  BY DEF Account
<1>2. TypeOK'
  BY <1>1 DEF Steps
<1> QED BY <1>2 DEF SubnetsAligned, RowsUnique, ChosenAligned, LoginsSent

LEMMA AllocateStep ==
  ASSUME AccountInv, NEW p \in Procs, Allocate(p)
  PROVE  AccountInv'
<1> DEFINE found == Allocation(taken[p], conflicts)
<1>1. \A n \in found : n \in Network /\ Aligned(n)
  BY AllocationAligned
<1>2. /\ IF found = {} THEN Finish(p)
         ELSE /\ subnet' = [subnet EXCEPT ![p] = found]
              /\ Goto(p, "create")
              /\ UNCHANGED <<login, taken>>
      /\ UNCHANGED <<rows, lapsed, spent>>
  BY Zenon DEF Allocate
<1> HIDE DEF found
<1> USE DEF AccountInv, rows
<1>3. SubnetsAligned' /\ RowsUnique'
  BY <1>2 DEF SubnetsAligned, RowsUnique
<1>4. CASE Finish(p)
  BY <1>2, <1>3, <1>4, FinishTypes DEF TypeOK
<1>5. CASE /\ subnet' = [subnet EXCEPT ![p] = found]
           /\ Goto(p, "create")
           /\ UNCHANGED <<login, taken>>
  <2>1. TypeOK'
    BY <1>1, <1>2, <1>5 DEF TypeOK, Goto, Steps
  <2>2. ChosenAligned' /\ LoginsSent'
    BY <1>1, <1>2, <1>5 DEF TypeOK, ChosenAligned, LoginsSent
  <2> QED BY <1>3, <2>1, <2>2
<1> QED BY <1>2, <1>4, <1>5

LEMMA CreateStep ==
  ASSUME AccountInv, NEW p \in Procs, Create(p)
  PROVE  AccountInv'
<1> USE DEF AccountInv
<1>1. PICK l \in login[p], n \in subnet[p] :
         IF \E u \in users : u.email = l.email \/ u.subnet = n
         THEN Finish(p) /\ UNCHANGED <<users, spent>>
         ELSE users' = users \cup {[email |-> l.email, subnet |-> n]} /\ Answer(p)
  BY DEF Create
<1>2. UNCHANGED <<codes, used, lapsed, sent, conflicts>> /\ Finish(p)
  BY <1>1 DEF Create, Answer
<1>3. l \in Login /\ n \in Network /\ Aligned(n)
  BY DEF TypeOK, ChosenAligned
<1>4. CASE \E u \in users : u.email = l.email \/ u.subnet = n
  BY <1>1, <1>2, <1>4, FinishTypes DEF TypeOK, SubnetsAligned, RowsUnique
<1>5. CASE ~\E u \in users : u.email = l.email \/ u.subnet = n
  <2> DEFINE row == [email |-> l.email, subnet |-> n]
  <2>1. users' = users \cup {row} /\ Answer(p)
    BY <1>1, <1>5
  <2>2. row \in Account /\ row.subnet = n
    BY <1>3 DEF Account, Login
  <2>3. TypeOK'
    BY <1>2, <2>1, <2>2, FinishTypes, AnswerSpends DEF TypeOK
  <2>4. SubnetsAligned'
    BY <1>3, <2>1, <2>2 DEF SubnetsAligned
  <2>5. RowsUnique'
    BY <1>5, <2>1, <2>2 DEF RowsUnique
  <2> QED BY <1>2, <2>3, <2>4, <2>5, FinishTypes
<1> QED BY <1>4, <1>5

LEMMA AccountNext == AccountInv /\ [Next]_accounts => AccountInv'
<1> SUFFICES ASSUME AccountInv, [Next]_accounts PROVE AccountInv'
  OBVIOUS
<1>1. CASE Environment
  BY <1>1, EnvironmentStep
<1>2. ASSUME NEW p \in Procs, Handler(p) PROVE AccountInv'
  <2>1. CASE Fails(p)
    BY <2>1, FinishTypes DEF Fails, rows, AccountInv, TypeOK, SubnetsAligned, RowsUnique
  <2> QED BY <1>2, <2>1, BeginVerifyStep, BeginFirebaseStep, MarkCodeUsedStep, FindUserStep,
             ReadSubnetsStep, AllocateStep, CreateStep DEF Handler
<1>3. CASE UNCHANGED accounts
  BY <1>3 DEF accounts, AccountInv, TypeOK, SubnetsAligned, RowsUnique, ChosenAligned,
              LoginsSent
<1> QED BY <1>1, <1>2, <1>3 DEF Next

-----------------------------------------------------------------------------
\* Every variable keeps its type.
THEOREM TypeCorrect == Spec => []TypeOK
<1>1. AccountInv => TypeOK
  BY DEF AccountInv
<1> QED BY <1>1, AccountInit, AccountNext, PTL DEF Spec

\* The subnets of two accounts share no address, for any number of handlers, any ranges
\* and any size of subnet that the ranges are multiples of.
THEOREM DisjointSubnets == Spec => []SubnetsDisjoint
<1>1. AccountInv => SubnetsDisjoint
  BY AlignedApart DEF AccountInv, TypeOK, Account, SubnetsAligned, RowsUnique, SubnetsDisjoint
<1> QED BY <1>1, AccountInit, AccountNext, PTL DEF Spec

-----------------------------------------------------------------------------
(* Networks in use.  Between the choice of a subnet and its insertion more   *)
(* conflicts may be recorded, but none is ever removed: what was known at    *)
(* the start has been looked at by every allocation.                         *)

Clear(n) == \A k \in InitialConflicts : AddressesOf(n) \cap AddressesOf(k) = {}

ClearInv ==
    /\ InitialConflicts \subseteq conflicts
    /\ \A p \in Procs : \A n \in subnet[p] : Clear(n)
    /\ \A u \in users \ InitialUsers : Clear(u.subnet)

\* What the pool allocates overlaps none of the networks it has been told of.
LEMMA AllocationClear ==
  ASSUME NEW existing, NEW known, known \subseteq Network,
         NEW n \in Allocation(existing, known), NEW k \in known
  PROVE  AddressesOf(n) \cap AddressesOf(k) = {}
<1>1. ~Overlap(n, k)
  BY DEF Allocation, Free
<1>2. n.ip \in Nat /\ n.size \in Nat /\ k.ip \in Nat /\ k.size \in Nat
  BY AllocationAligned DEF Network
<1> QED BY <1>1, <1>2 DEF Overlap, Contains, AddressesOf

LEMMA ClearInit == Init => ClearInv
  BY DEF Init, ClearInv

\* A step that inserts nothing, chooses nothing and forgets no conflict.
LEMMA ClearKept ==
  ASSUME AccountInv, ClearInv, users' = users, conflicts \subseteq conflicts',
         subnet' = subnet \/ \E p \in Procs : Finish(p)
  PROVE  ClearInv'
  BY DEF AccountInv, TypeOK, ClearInv, Clear, Finish

LEMMA ClearAllocate ==
  ASSUME AccountInv, ClearInv, NEW p \in Procs, Allocate(p)
  PROVE  ClearInv'
<1> DEFINE found == Allocation(taken[p], conflicts)
<1>1. \A n \in found : Clear(n)
  BY AllocationClear DEF AccountInv, TypeOK, ClearInv, Clear
<1>2. /\ Finish(p) \/ subnet' = [subnet EXCEPT ![p] = found]
      /\ UNCHANGED rows
  BY Zenon DEF Allocate
<1> HIDE DEF found
<1>3. CASE Finish(p)
  BY <1>2, <1>3, ClearKept DEF rows
<1>4. CASE subnet' = [subnet EXCEPT ![p] = found]
  BY <1>1, <1>2, <1>4 DEF AccountInv, TypeOK, ClearInv, Clear, rows
<1> QED BY <1>2, <1>3, <1>4

LEMMA ClearCreate ==
  ASSUME AccountInv, ClearInv, NEW p \in Procs, Create(p)
  PROVE  ClearInv'
<1>1. PICK l \in login[p], n \in subnet[p] :
         users' = users \/ users' = users \cup {[email |-> l.email, subnet |-> n]}
  BY DEF Create
<1>2. Finish(p) /\ conflicts' = conflicts
  BY DEF Create, Answer
<1>3. CASE users' = users
  BY <1>2, <1>3, ClearKept
<1>4. CASE users' = users \cup {[email |-> l.email, subnet |-> n]}
  BY <1>2, <1>4 DEF AccountInv, TypeOK, ClearInv, Clear, Finish
<1> QED BY <1>1, <1>3, <1>4

LEMMA ClearNext == AccountInv /\ ClearInv /\ [Next]_accounts => ClearInv'
<1> SUFFICES ASSUME AccountInv, ClearInv, [Next]_accounts PROVE ClearInv'
  OBVIOUS
<1>1. CASE Environment
  BY <1>1, ClearKept
  DEF Environment, RequestCode, Lapse, CleanupExpiredCodes, AddConflict, rows, local
<1>2. ASSUME NEW p \in Procs, Handler(p) PROVE ClearInv'
  <2>1. CASE FindUser(p)
    BY <2>1, ClearKept DEF FindUser, Answer, rows
  <2>2. CASE Fails(p)
    BY <2>2, ClearKept DEF Fails, rows
  <2>3. CASE MarkCodeUsed(p) \/ ReadSubnets(p)
    BY <2>3, ClearKept DEF MarkCodeUsed, ReadSubnets, rows
  <2>4. ASSUME NEW c \in Codes, BeginVerify(p, c) PROVE ClearInv'
    BY <2>4, ClearKept DEF BeginVerify, rows
  <2>5. ASSUME NEW e \in Emails, BeginFirebase(p, e) PROVE ClearInv'
    BY <2>5, ClearKept DEF BeginFirebase, rows
  <2> QED BY <1>2, <2>1, <2>2, <2>3, <2>4, <2>5, ClearAllocate, ClearCreate DEF Handler
<1>3. CASE UNCHANGED accounts
  BY <1>3, ClearKept DEF accounts
<1> QED BY <1>1, <1>2, <1>3 DEF Next

\* No account created since is given a subnet that shares an address with a network
\* known to be in use when the server started.
THEOREM KnownNetworksAvoided == Spec => []ConflictsAvoided
<1>1. ClearInv => ConflictsAvoided
  BY DEF ClearInv, Clear, ConflictsAvoided
<1> QED BY <1>1, AccountInit, AccountNext, ClearInit, ClearNext, PTL DEF Spec

-----------------------------------------------------------------------------
(* Codes.  The row of a code is marked before the login is answered, and a   *)
(* row that is gone does not come back: a code is sent once.                 *)

Served(l) == l.code = NoCode \/ l.code \notin codes \/ l.code \in used

SpentInv ==
    /\ spent \cap codes \subseteq used
    /\ \A p \in Procs :
          pc[p] \in {"find", "subnets", "allocate", "create"} => \A l \in login[p] : Served(l)

LEMMA SpentInit == Init => SpentInv
  BY DEF Init, SpentInv

\* A step that takes no handler beyond "mark" and answers no login.
LEMMA SpentKept ==
  ASSUME AccountInv, SpentInv, codes' \subseteq codes, used \subseteq used', spent' = spent,
         \A p \in Procs :
            \/ pc'[p] \in {"idle", "mark"}
            \/ /\ login'[p] = login[p]
               /\ pc[p] \in {"find", "subnets", "allocate", "create"}
            \/ pc'[p] = pc[p] /\ login'[p] = login[p]
  PROVE  SpentInv'
  BY DEF SpentInv, Served

\* A handler past "mark" that answers its login.
LEMMA SpentAnswer ==
  ASSUME AccountInv, SpentInv, NEW p \in Procs, Answer(p),
         pc[p] \in {"find", "create"}, codes' = codes, used' = used
  PROVE  SpentInv'
  BY DEF AccountInv, TypeOK, SpentInv, Served, Answer, Finish, Goto

\* The clean-up and new codes, lapsing and conflicts.
LEMMA SpentEnvironment ==
  ASSUME AccountInv, SpentInv, Environment
  PROVE  SpentInv'
<1>1. ASSUME NEW c \in Codes, RequestCode(c) PROVE SpentInv'
  <2>1. spent' \cap codes' \subseteq used'
    BY <1>1 DEF RequestCode, AccountInv, TypeOK, SpentInv
  <2>2. c # NoCode /\ \A p \in Procs : \A l \in login[p] : l.code # c
    BY <1>1, AccountsAssumption DEF RequestCode, AccountInv, LoginsSent, AccountsAssumption
  <2> QED BY <1>1, <2>1, <2>2 DEF RequestCode, local, SpentInv, Served
<1>2. CASE UNCHANGED <<used, local, spent>> /\ codes' \subseteq codes
  BY <1>2, SpentKept DEF local
<1> QED BY <1>1, <1>2 DEF Environment, Lapse, CleanupExpiredCodes, AddConflict, rows, local

LEMMA SpentMark ==
  ASSUME AccountInv, SpentInv, NEW p \in Procs, MarkCodeUsed(p)
  PROVE  SpentInv'
<1> USE DEF MarkCodeUsed, Goto
<1>1. spent' \cap codes' \subseteq used'
  BY DEF SpentInv
<1>2. \A l \in login'[p] : Served(l)'
  BY DEF Served
<1> QED BY <1>1, <1>2 DEF AccountInv, TypeOK, SpentInv, Served

LEMMA SpentNext == AccountInv /\ SpentInv /\ [Next]_accounts => SpentInv'
<1> SUFFICES ASSUME AccountInv, SpentInv, [Next]_accounts PROVE SpentInv'
  OBVIOUS
<1>1. CASE Environment
  BY <1>1, SpentEnvironment
<1>2. ASSUME NEW p \in Procs, Handler(p) PROVE SpentInv'
  <2> USE DEF AccountInv, TypeOK, Goto, rows
  <2>1. ASSUME NEW c \in Codes, BeginVerify(p, c) PROVE SpentInv'
    BY <2>1, SpentKept DEF BeginVerify
  <2>2. ASSUME NEW e \in Emails, BeginFirebase(p, e) PROVE SpentInv'
    BY <2>2 DEF BeginFirebase, SpentInv, Served
  <2>3. CASE FindUser(p)
    BY <2>3, SpentAnswer, SpentKept DEF FindUser
  <2>4. CASE ReadSubnets(p)
    BY <2>4, SpentKept DEF ReadSubnets
  <2>5. CASE Allocate(p)
    <3>1. /\ Finish(p) \/ (Goto(p, "create") /\ UNCHANGED login)
          /\ UNCHANGED <<rows, spent>> /\ pc[p] = "allocate"
      BY <2>5, Zenon DEF Allocate
    <3> QED BY <3>1, SpentKept DEF Finish
  <2>6. CASE Create(p)
    <3>1. Answer(p) \/ (Finish(p) /\ UNCHANGED spent)
      BY <2>6 DEF Create
    <3>2. pc[p] = "create" /\ UNCHANGED <<codes, used>>
      BY <2>6 DEF Create
    <3> QED BY <3>1, <3>2, SpentAnswer, SpentKept DEF Finish
  <2>7. CASE Fails(p)
    BY <2>7, SpentKept DEF Fails, Finish
  <2> QED BY <1>2, <2>1, <2>2, <2>3, <2>4, <2>5, <2>6, <2>7, SpentMark DEF Handler
<1>3. CASE UNCHANGED accounts
  BY <1>3, SpentKept DEF accounts
<1> QED BY <1>1, <1>2, <1>3 DEF Next

\* A code that has logged somebody in begins no other login, whatever handlers were in
\* the middle of one, whatever lapsed and whenever the clean-up ran.
THEOREM SpentCodesAreRefused == Spec => SpentCodesRefused
<1>1. SpentInv => \A p \in Procs, c \in Codes : BeginVerify(p, c) => c \notin spent
  BY DEF SpentInv, BeginVerify, Valid
<1>2. SpentInv => [\A p \in Procs, c \in Codes : BeginVerify(p, c) => c \notin spent]_accounts
  BY <1>1
<1> QED BY <1>2, AccountInit, AccountNext, SpentInit, SpentNext, PTL DEF Spec, SpentCodesRefused
=============================================================================
