-------------------------- MODULE ChallengeVerdict --------------------------
(* What a login by QR code promises: a challenge gets at most one verdict,   *)
(* from one user or from the clock, and never another.                       *)

CONSTANTS Challenges, Users, NoUser

VARIABLE verdict  \* [Challenges -> Verdict]

Verdict == [status : {"new", "pending", "approved", "denied", "expired", "forgotten"},
            by : Users \cup {NoUser}]

Unsigned(s) == [status |-> s, by |-> NoUser]

Init == verdict = [c \in Challenges |-> Unsigned("new")]

Open(c) ==
    /\ verdict[c] = Unsigned("new")
    /\ verdict' = [verdict EXCEPT ![c] = Unsigned("pending")]

Rule(c, s, u) ==
    /\ verdict[c] = Unsigned("pending")
    /\ verdict' = [verdict EXCEPT ![c] = [status |-> s, by |-> u]]

\* Time runs out for any number of challenges at once.
Expire(cs) ==
    /\ \A c \in cs : verdict[c] = Unsigned("pending")
    /\ verdict' = [c \in Challenges |-> IF c \in cs THEN Unsigned("expired") ELSE verdict[c]]

\* The record of an approved login goes with the device it admitted.
Forget(c) ==
    /\ verdict[c].status = "approved"
    /\ verdict' = [verdict EXCEPT ![c] = Unsigned("forgotten")]

Next ==
    \/ \E c \in Challenges : Open(c) \/ Forget(c)
    \/ \E c \in Challenges, s \in {"approved", "denied"}, u \in Users : Rule(c, s, u)
    \/ \E cs \in SUBSET Challenges : Expire(cs)

Spec == Init /\ [][Next]_verdict
=============================================================================
