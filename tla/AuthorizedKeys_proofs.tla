----------------------- MODULE AuthorizedKeys_proofs -----------------------
(* Proofs about AuthorizedKeys: the owner's lines are followed from the file *)
(* into a synchronisation, from there into the temporary file, and back.     *)
EXTENDS AuthorizedKeys, TLAPS

\* What a synchronisation has read is what the owner wants.
ReadsWanted ==
    \A s \in Syncs : pc[s] \in {"open", "fill", "rename"} => others[s] = wanted

\* The temporary file has one writer, and holds the owner's lines once it is filled.
OneWriter ==
    /\ \A s, q \in Syncs : pc[s] \in {"fill", "rename"} /\ pc[q] \in {"fill", "rename"}
                             => s = q
    /\ \A s \in Syncs : pc[s] = "rename" => \A c \in tmp : c.own = wanted

KeysInv == TypeOK /\ OwnKeysKept /\ (~disturbed => ReadsWanted /\ OneWriter)

-----------------------------------------------------------------------------
\* The initial states satisfy the invariant.
LEMMA KeysInit == Init => KeysInv
<1> SUFFICES ASSUME Init PROVE KeysInv
  OBVIOUS
<1>1. PICK o \in SUBSET Own : file = [own |-> o, block |-> {}] /\ wanted = o
  BY DEF Init
<1>2. TypeOK
  BY <1>1 DEF Init, TypeOK, Content, Steps
<1>3. OwnKeysKept /\ ReadsWanted /\ OneWriter
  BY <1>1 DEF Init, OwnKeysKept, ReadsWanted, OneWriter
<1> QED BY <1>2, <1>3 DEF KeysInv

\* Types, one step of a synchronisation at a time.
LEMMA SyncTypes ==
  ASSUME TypeOK, NEW s \in Syncs, Sync(s)
  PROVE  TypeOK'
<1> USE DEF TypeOK, Content, Steps, Goto, Finish, local
<1>1. CASE Fetch(s)
  <2>1. Answered(s) \subseteq Keys
    BY DEF Answered
  <2> QED BY <1>1, <2>1 DEF Fetch
<1>2. CASE ReadKeys(s)
  BY <1>2 DEF ReadKeys
<1>3. CASE Refuse(s)
  BY <1>3 DEF Refuse
<1>4. CASE OpenTemp(s)
  BY <1>4 DEF OpenTemp
<1>5. CASE FillTemp(s)
  BY <1>5 DEF FillTemp
<1>6. CASE Rename(s)
  BY <1>6 DEF Rename
<1>7. CASE Fail(s)
  BY <1>7 DEF Fail
<1> QED BY <1>1, <1>2, <1>3, <1>4, <1>5, <1>6, <1>7 DEF Sync

\* The owner's lines, one step of a synchronisation at a time.
LEMMA SyncKeeps ==
  ASSUME KeysInv, ~disturbed, NEW s \in Syncs, Sync(s)
  PROVE  OwnKeysKept' /\ (~disturbed' => ReadsWanted' /\ OneWriter')
<1> USE DEF KeysInv, TypeOK, OwnKeysKept, ReadsWanted, OneWriter, Goto, Finish, local
<1>1. CASE Fetch(s)
  BY <1>1 DEF Fetch
<1>2. CASE ReadKeys(s)
  BY <1>2 DEF ReadKeys
<1>3. CASE Refuse(s)
  BY <1>3 DEF Refuse
<1>4. CASE OpenTemp(s)
  BY <1>4 DEF OpenTemp
<1>5. CASE FillTemp(s)
  BY <1>5 DEF FillTemp
<1>6. CASE Rename(s)
  BY <1>6 DEF Rename
<1>7. CASE Fail(s)
  BY <1>7 DEF Fail
<1> QED BY <1>1, <1>2, <1>3, <1>4, <1>5, <1>6, <1>7 DEF Sync

LEMMA KeysNext == KeysInv /\ [Next]_vars => KeysInv'
<1> SUFFICES ASSUME KeysInv, [Next]_vars PROVE KeysInv'
  OBVIOUS
<1> USE DEF KeysInv
<1>1. ASSUME ~disturbed, NEW s \in Syncs, Sync(s) PROVE KeysInv'
  BY <1>1, SyncTypes, SyncKeeps
<1>2. ASSUME ~disturbed, Edit PROVE KeysInv'
  BY <1>2 DEF Edit, work, TypeOK, Content, OwnKeysKept, ReadsWanted, OneWriter
<1>3. ASSUME ~disturbed, ChangeKeys PROVE KeysInv'
  BY <1>3 DEF ChangeKeys, local, work, TypeOK, OwnKeysKept, ReadsWanted, OneWriter
<1>4. ASSUME ~disturbed, Switch PROVE KeysInv'
  BY <1>4 DEF Switch, local, work, TypeOK, OwnKeysKept, ReadsWanted, OneWriter
<1>5. CASE UNCHANGED vars
  BY <1>5 DEF vars, TypeOK, OwnKeysKept, ReadsWanted, OneWriter
<1> QED BY <1>1, <1>2, <1>3, <1>4, <1>5 DEF Next

-----------------------------------------------------------------------------
\* Every variable keeps its type: keys of the account never become lines of the owner.
THEOREM TypeCorrect == Spec => []TypeOK
<1>1. KeysInv => TypeOK
  BY DEF KeysInv
<1> QED BY <1>1, KeysInit, KeysNext, PTL DEF Spec

\* The owner's lines survive any number of synchronisations, failing or killed
\* anywhere, unless two are in the temporary file at once or an edit is overtaken.
THEOREM OwnKeysSurvive == Spec => []OwnKeysKept
<1>1. KeysInv => OwnKeysKept
  BY DEF KeysInv
<1> QED BY <1>1, KeysInit, KeysNext, PTL DEF Spec
=============================================================================
