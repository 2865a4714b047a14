----------------------------- MODULE AccountApi -----------------------------
(* What the server offers around an account: logging in, which creates it,   *)
(* and the sudo requests of machines that have a login.  A handler serves    *)
(* one request at a time, of either kind.                                    *)
EXTENDS Accounts

CONSTANTS Requests, OwnerOf

VARIABLES status, late, sudo, step, request, consent

Sudo == INSTANCE BiometricAuth WITH Users <- Emails

sudoVars == <<status, late, sudo, step, request, consent>>
apiVars == <<accounts, sudoVars>>

ApiInit == Init /\ Sudo!Init

\* CreateRequest begins with GetByID of the user.
CreateSudoRequest(r) ==
    /\ \E u \in users : u.email = OwnerOf[r]
    /\ Sudo!CreateRequest(r)

ApiHandler(p) ==
    \/ step[p] = "idle" /\ Handler(p) /\ UNCHANGED sudoVars
    \/ pc[p] = "idle" /\ Sudo!Handler(p) /\ UNCHANGED accounts

ApiNext ==
    \/ \E p \in Procs : ApiHandler(p)
    \/ Environment /\ UNCHANGED sudoVars
    \/ Sudo!Environment /\ UNCHANGED accounts
    \/ \E r \in Requests : CreateSudoRequest(r) /\ UNCHANGED accounts

ApiSpec == ApiInit /\ [][ApiNext]_apiVars

-----------------------------------------------------------------------------
\* The variables of both parts keep their types.
ApiTypeOK == TypeOK /\ Sudo!TypeOK

\* A command runs only with the consent of its owner, given in time (BiometricAuth).
GrantedInTime == Sudo!GrantedInTime
=============================================================================
