--------------------------- MODULE BiometricAuth ---------------------------
(***************************************************************************)
(* sudo by telephone.  A PAM script on the user's machine creates a        *)
(* request and polls it for thirty seconds; the user's applications, of    *)
(* which there may be several, approve or deny it.  The server reads the   *)
(* request and then updates it by id, without a condition on its status.   *)
(***************************************************************************)
EXTENDS FiniteSets

CONSTANTS
    Requests,
    Users,
    OwnerOf,   \* [Requests -> Users]: on whose account the machine asks
    Procs      \* handlers that may be in flight together

Answers == {"approved", "denied"}

VARIABLES
    status,    \* per request: the status of its row ("none" without a row)
    late,      \* requests whose expires_at has passed
    sudo,      \* per request: what the PAM script makes of it
    step,      \* per handler: the status it is about to write ("idle": none)
    request,   \* per handler: the request it is about to update ({} or one)
    consent    \* history: requests their owner approved in time

requests == <<status, late, sudo, step, request, consent>>

Finish(p) ==
    /\ step' = [step EXCEPT ![p] = "idle"]
    /\ request' = [request EXCEPT ![p] = {}]

\* The handler p goes on to write s, the request having been read.
GoWrite(p, s, r) ==
    /\ step' = [step EXCEPT ![p] = s]
    /\ request' = [request EXCEPT ![p] = {r}]

-----------------------------------------------------------------------------
\* CreateRequest
CreateRequest(r) ==
    /\ status[r] = "none" /\ sudo[r] = "none"
    /\ status' = [status EXCEPT ![r] = "pending"]
    /\ sudo' = [sudo EXCEPT ![r] = "waiting"]
    /\ UNCHANGED <<late, step, request, consent>>

\* Thirty seconds after its creation a request has expired.
BecomesLate(r) ==
    /\ status[r] # "none" /\ r \notin late
    /\ late' = late \cup {r}
    /\ UNCHANGED <<status, sudo, step, request, consent>>

\* (history) the answer a of u counts if u owns the request and is not late.
Record(u, r, a) ==
    consent' = IF u = OwnerOf[r] /\ a = "approved" /\ r \notin late
               THEN consent \cup {r} ELSE consent

\* (mutant of Respond: the owner is not compared)
RespondAnyone(p, u, r, a) ==
    /\ step[p] = "idle"
    /\ status[r] = "pending"
    /\ GoWrite(p, IF r \in late THEN "expired" ELSE a, r)
    /\ Record(u, r, a)
    /\ UNCHANGED <<status, late, sudo>>

\* RespondToRequest up to its update: a request that is not the user's, or not
\* pending, is refused; one that is late is marked as expired.
Respond(p, u, r, a) ==
    /\ step[p] = "idle"
    /\ status[r] = "pending" /\ OwnerOf[r] = u
    /\ GoWrite(p, IF r \in late THEN "expired" ELSE a, r)
    /\ Record(u, r, a)
    /\ UNCHANGED <<status, late, sudo>>

\* UpdateStatus, for the application and for the script.  It may fail, and the script
\* is told all the same.
UpdateStatus(p) ==
    /\ step[p] # "idle"
    /\ \E r \in request[p] :
          /\ status' \in {status, [status EXCEPT ![r] = IF @ = "none" THEN @ ELSE step[p]]}
          /\ sudo' = [sudo EXCEPT ![r] = IF step[p] = "timeout" /\ @ = "waiting"
                                         THEN "refused" ELSE @]
    /\ Finish(p)
    /\ UNCHANGED <<late, consent>>

\* PollRequestStatus of a request that is pending though late goes on to an update.
PollLate(p, r) ==
    /\ step[p] = "idle"
    /\ sudo[r] = "waiting"
    /\ status[r] = "pending" /\ r \in late
    /\ GoWrite(p, "timeout", r)
    /\ UNCHANGED <<status, late, sudo, consent>>

\* Every other poll only reads; pending changes nothing.
Poll(r) ==
    /\ sudo[r] = "waiting"
    /\ status[r] \in {"approved", "denied", "expired", "timeout"}
    /\ sudo' = [sudo EXCEPT ![r] = IF status[r] = "approved" THEN "granted" ELSE "refused"]
    /\ UNCHANGED <<status, late, step, request, consent>>

\* The script's own thirty seconds are over, a poll fails, or the user gives up.
GiveUp(r) ==
    /\ sudo[r] = "waiting"
    /\ sudo' = [sudo EXCEPT ![r] = "refused"]
    /\ UNCHANGED <<status, late, step, request, consent>>

\* MarkExpired, before the pending requests of any user are listed.
MarkExpired ==
    /\ \E r \in late : status[r] = "pending"
    /\ status' = [r \in Requests |-> IF status[r] = "pending" /\ r \in late
                                     THEN "expired" ELSE status[r]]
    /\ UNCHANGED <<late, sudo, step, request, consent>>

\* DeleteOld, after seven days, when nothing is under way any more.
DeleteOld(r) ==
    /\ r \in late /\ status[r] # "none" /\ sudo[r] # "waiting"
    /\ \A p \in Procs : r \notin request[p]
    /\ status' = [status EXCEPT ![r] = "none"]
    /\ UNCHANGED <<late, sudo, step, request, consent>>

-----------------------------------------------------------------------------
Init ==
    /\ status = [r \in Requests |-> "none"]
    /\ late = {}
    /\ sudo = [r \in Requests |-> "none"]
    /\ step = [p \in Procs |-> "idle"]
    /\ request = [p \in Procs |-> {}]
    /\ consent = {}

Handler(p) ==
    \/ \E u \in Users, r \in Requests, a \in Answers : Respond(p, u, r, a)
    \/ \E r \in Requests : PollLate(p, r)
    \/ UpdateStatus(p)

Environment ==
    \/ \E r \in Requests : BecomesLate(r) \/ Poll(r) \/ GiveUp(r) \/ DeleteOld(r)
    \/ MarkExpired

Next ==
    \/ \E r \in Requests : CreateRequest(r)
    \/ Environment
    \/ \E p \in Procs : Handler(p)

Spec == Init /\ [][Next]_requests

-----------------------------------------------------------------------------
(* Properties.                                                               *)

Statuses == {"pending", "approved", "denied", "expired", "timeout"}

\* Every variable keeps its type.
TypeOK ==
    /\ status \in [Requests -> Statuses \cup {"none"}]
    /\ late \subseteq Requests
    /\ sudo \in [Requests -> {"none", "waiting", "granted", "refused"}]
    /\ step \in [Procs -> Answers \cup {"expired", "timeout", "idle"}]
    /\ request \in [Procs -> SUBSET Requests]
    /\ consent \subseteq Requests

\* A command runs only if the owner of the account has approved it within the thirty
\* seconds, whatever answers, polls and expiries overwrite each other afterwards.
GrantedInTime == \A r \in Requests : sudo[r] = "granted" => r \in consent

=============================================================================
