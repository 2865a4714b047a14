------------------------ MODULE BiometricAuth_proofs ------------------------
(* Proofs about BiometricAuth.  A grant comes from a row that says approved, *)
(* and such a row from a handler that is about to write it: consent is       *)
(* followed back along these two.                                            *)
EXTENDS BiometricAuth, TLAPS

\* A handler at work is at work on some request.
WritesApproved == \A p \in Procs : step[p] = "approved" => request[p] \subseteq consent

\* A row that says approved was approved in time by its owner.
RowsApproved == \A r \in Requests : status[r] = "approved" => r \in consent

ConsentInv == TypeOK /\ GrantedInTime /\ WritesApproved /\ RowsApproved

-----------------------------------------------------------------------------
\* The initial states satisfy the invariant.
LEMMA ConsentInit == Init => ConsentInv
  BY DEF Init, ConsentInv, TypeOK, GrantedInTime, WritesApproved, RowsApproved,
         Statuses, Answers

\* The steps of a handler.
LEMMA RespondStep ==
  ASSUME ConsentInv, NEW p \in Procs, NEW u \in Users, NEW r \in Requests,
         NEW a \in Answers, Respond(p, u, r, a)
  PROVE  ConsentInv'
<1> USE DEF ConsentInv, Respond, GoWrite, Record, Answers
<1>1. TypeOK'
  BY DEF TypeOK, Statuses
<1>2. GrantedInTime' /\ RowsApproved'
  BY DEF GrantedInTime, RowsApproved
<1>3. WritesApproved'
  <2>1. CASE r \in late
    BY <2>1 DEF WritesApproved, TypeOK
  <2>2. CASE r \notin late
    BY <2>2 DEF WritesApproved, TypeOK
  <2> QED BY <2>1, <2>2
<1> QED BY <1>1, <1>2, <1>3

LEMMA PollLateStep ==
  ASSUME ConsentInv, NEW p \in Procs, NEW r \in Requests, PollLate(p, r)
  PROVE  ConsentInv'
  BY DEF ConsentInv, PollLate, GoWrite, TypeOK, Statuses, Answers, GrantedInTime,
         RowsApproved, WritesApproved

LEMMA UpdateStatusStep ==
  ASSUME ConsentInv, NEW p \in Procs, UpdateStatus(p)
  PROVE  ConsentInv'
<1> USE DEF ConsentInv
<1>1. PICK r \in request[p] :
         /\ status' \in {status, [status EXCEPT ![r] = IF @ = "none" THEN @ ELSE step[p]]}
         /\ sudo' = [sudo EXCEPT ![r] = IF step[p] = "timeout" /\ @ = "waiting"
                                        THEN "refused" ELSE @]
  BY DEF UpdateStatus
<1>2. /\ r \in Requests /\ step[p] \in Answers \cup {"expired", "timeout"}
      /\ UNCHANGED <<late, consent>>
      /\ step' = [step EXCEPT ![p] = "idle"] /\ request' = [request EXCEPT ![p] = {}]
  BY <1>1 DEF TypeOK, UpdateStatus, Finish
<1>3. TypeOK'
  BY <1>1, <1>2 DEF TypeOK, Statuses, Answers
<1>4. GrantedInTime'
  BY <1>1, <1>2 DEF GrantedInTime, TypeOK
<1>5. RowsApproved'
  BY <1>1, <1>2 DEF RowsApproved, WritesApproved, TypeOK
<1>6. WritesApproved'
  BY <1>2 DEF WritesApproved, TypeOK
<1> QED BY <1>3, <1>4, <1>5, <1>6

\* Every other step leaves the handlers and consent alone.
LEMMA OtherSteps ==
  ASSUME ConsentInv, Environment \/ \E r \in Requests : CreateRequest(r)
  PROVE  ConsentInv'
<1> USE DEF ConsentInv, TypeOK, Statuses, Answers, GrantedInTime, RowsApproved, WritesApproved
<1>1. ASSUME NEW r \in Requests, CreateRequest(r) PROVE ConsentInv'
  BY <1>1 DEF CreateRequest
<1>2. ASSUME NEW r \in Requests, BecomesLate(r) PROVE ConsentInv'
  BY <1>2 DEF BecomesLate
<1>3. ASSUME NEW r \in Requests, Poll(r) PROVE ConsentInv'
  BY <1>3 DEF Poll
<1>4. ASSUME NEW r \in Requests, GiveUp(r) PROVE ConsentInv'
  BY <1>4 DEF GiveUp
<1>5. ASSUME NEW r \in Requests, DeleteOld(r) PROVE ConsentInv'
  BY <1>5 DEF DeleteOld
<1>6. ASSUME MarkExpired PROVE ConsentInv'
  BY <1>6 DEF MarkExpired
<1> QED BY <1>1, <1>2, <1>3, <1>4, <1>5, <1>6 DEF Environment

LEMMA ConsentNext == ConsentInv /\ [Next]_requests => ConsentInv'
<1> SUFFICES ASSUME ConsentInv, [Next]_requests PROVE ConsentInv'
  OBVIOUS
<1>1. ASSUME NEW p \in Procs, Handler(p) PROVE ConsentInv'
  BY <1>1, RespondStep, PollLateStep, UpdateStatusStep DEF Handler
<1>2. CASE Environment \/ \E r \in Requests : CreateRequest(r)
  BY <1>2, OtherSteps
<1>3. CASE UNCHANGED requests
  BY <1>3 DEF requests, ConsentInv, TypeOK, GrantedInTime, RowsApproved, WritesApproved
<1> QED BY <1>1, <1>2, <1>3 DEF Next

-----------------------------------------------------------------------------
\* Every variable keeps its type.
THEOREM TypeCorrect == Spec => []TypeOK
<1>1. ConsentInv => TypeOK
  BY DEF ConsentInv
<1> QED BY <1>1, ConsentInit, ConsentNext, PTL DEF Spec

\* A command runs only with its owner's consent, given in time: for any number of
\* requests and handlers, although every update of a request is unconditional.
THEOREM ConsentGiven == Spec => []GrantedInTime
<1>1. ConsentInv => GrantedInTime
  BY DEF ConsentInv
<1> QED BY <1>1, ConsentInit, ConsentNext, PTL DEF Spec
=============================================================================
