-------------------------- MODULE AccountApi_proofs --------------------------
(* AccountApi composes its two parts: each keeps its own specification, so   *)
(* what is proved of either part holds of both together.  SudoProofs is the  *)
(* instance Sudo again, with the theorems about it.                          *)
EXTENDS AccountApi, Accounts_proofs

SudoProofs == INSTANCE BiometricAuth_proofs WITH Users <- Emails

\* The accounts of the API behave as Accounts says.
LEMMA AccountsPart == ApiSpec => Spec
<1>1. ApiInit => Init
  BY DEF ApiInit
<1>2. [ApiNext]_apiVars => [Next]_accounts
  BY DEF ApiNext, ApiHandler, Next, apiVars
<1> QED BY <1>1, <1>2, PTL DEF ApiSpec, Spec

\* The two instances of BiometricAuth say the same.
LEMMA SameInit == Sudo!Init <=> SudoProofs!Init
  BY DEF Sudo!Init, SudoProofs!Init

LEMMA SameEnvironment == Sudo!Environment <=> SudoProofs!Environment
  BY DEF Sudo!Environment, SudoProofs!Environment, Sudo!BecomesLate, SudoProofs!BecomesLate,
         Sudo!Poll, SudoProofs!Poll, Sudo!GiveUp, SudoProofs!GiveUp, Sudo!DeleteOld,
         SudoProofs!DeleteOld, Sudo!MarkExpired, SudoProofs!MarkExpired

LEMMA SameHandler ==
  ASSUME NEW p \in Procs PROVE Sudo!Handler(p) <=> SudoProofs!Handler(p)
<1>1. \A u, r, a : Sudo!Respond(p, u, r, a) <=> SudoProofs!Respond(p, u, r, a)
  BY DEF Sudo!Respond, SudoProofs!Respond, Sudo!GoWrite, SudoProofs!GoWrite,
         Sudo!Record, SudoProofs!Record
<1>2. \A r : Sudo!PollLate(p, r) <=> SudoProofs!PollLate(p, r)
  BY DEF Sudo!PollLate, SudoProofs!PollLate, Sudo!GoWrite, SudoProofs!GoWrite
<1>3. Sudo!UpdateStatus(p) <=> SudoProofs!UpdateStatus(p)
  BY DEF Sudo!UpdateStatus, SudoProofs!UpdateStatus, Sudo!Finish, SudoProofs!Finish
<1> QED BY <1>1, <1>2, <1>3
        DEF Sudo!Handler, SudoProofs!Handler, Sudo!Answers, SudoProofs!Answers

\* The sudo requests of the API behave as BiometricAuth says.
LEMMA SudoPart == ApiSpec => SudoProofs!Spec
<1>1. ApiInit => SudoProofs!Init
  BY SameInit DEF ApiInit
<1>2. [ApiNext]_apiVars => [SudoProofs!Next]_(SudoProofs!requests)
  <2>1. ASSUME NEW p \in Procs, ApiHandler(p)
        PROVE  SudoProofs!Next \/ UNCHANGED SudoProofs!requests
    BY <2>1, SameHandler DEF ApiHandler, SudoProofs!Next, SudoProofs!requests, sudoVars
  <2>2. ASSUME NEW r \in Requests, CreateSudoRequest(r) PROVE SudoProofs!Next
    BY <2>2 DEF CreateSudoRequest, SudoProofs!Next, Sudo!CreateRequest, SudoProofs!CreateRequest
  <2>3. CASE UNCHANGED apiVars
    BY <2>3 DEF apiVars, sudoVars, SudoProofs!requests
  <2>4. CASE Environment /\ UNCHANGED sudoVars
    BY <2>4 DEF sudoVars, SudoProofs!requests
  <2>5. CASE Sudo!Environment
    BY <2>5, SameEnvironment DEF SudoProofs!Next
  <2> QED BY <2>1, <2>2, <2>3, <2>4, <2>5 DEF ApiNext
<1> QED BY <1>1, <1>2, PTL DEF ApiSpec, SudoProofs!Spec

\* Every variable of the API keeps its type.
THEOREM ApiTypeCorrect == ApiSpec => []ApiTypeOK
<1>1. TypeOK /\ SudoProofs!TypeOK => ApiTypeOK
  BY DEF ApiTypeOK, Sudo!TypeOK, SudoProofs!TypeOK, Sudo!Statuses, SudoProofs!Statuses,
         Sudo!Answers, SudoProofs!Answers
<1> QED BY <1>1, TypeCorrect, SudoProofs!TypeCorrect, AccountsPart, SudoPart, PTL

\* No two accounts share an address, whatever sudo requests the same handlers serve.
THEOREM ApiSubnetsDisjoint == ApiSpec => []SubnetsDisjoint
  BY DisjointSubnets, AccountsPart, PTL

\* No account is created over a network known at the start, and a code that has logged
\* somebody in begins no other login, whatever sudo requests are served meanwhile.
THEOREM ApiLoginsSound == ApiSpec => []ConflictsAvoided /\ SpentCodesRefused
  BY KnownNetworksAvoided, SpentCodesAreRefused, AccountsPart, PTL

\* Whatever else the server does for the account meanwhile, a command runs only with
\* the consent of its owner, given in time.
THEOREM ApiConsentGiven == ApiSpec => []GrantedInTime
<1>1. SudoProofs!GrantedInTime => GrantedInTime
  BY DEF GrantedInTime, Sudo!GrantedInTime, SudoProofs!GrantedInTime
<1> QED BY <1>1, SudoProofs!ConsentGiven, SudoPart, PTL
=============================================================================
