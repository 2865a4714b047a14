--------------------------- MODULE AuthorizedKeys ---------------------------
(***************************************************************************)
(* The SSH keys of an account in ~/.ssh/authorized_keys.  Three activities *)
(* of one machine synchronise the file, each by reading it, replacing the  *)
(* block between two markers and keeping every other line: the daemon's    *)
(* ticker and `roamie ssh sync` with the user's keys from Firestore, and a *)
(* tunnel client that connects with the tunnel keys of the user's devices. *)
(* They take no lock and share the name of the temporary file.             *)
(*                                                                         *)
(* Lines are sets: neither their order nor blank lines matter here, and    *)
(* the backups that precede a change are read by nobody.                   *)
(***************************************************************************)
EXTENDS Naturals

CONSTANTS
    Own,          \* lines the machine's owner may keep in the file
    UserKeys,     \* keys the user may have in Firestore
    DeviceKeys,   \* keys the user's devices may have for their tunnels
    Malformed,    \* those of them that are not SSH keys
    Syncs         \* activities, of {"ticker", "tunnel", "terminal"}

Keys == UserKeys \cup DeviceKeys
Content == [own : SUBSET Own, block : SUBSET Keys]

ASSUME KeysAssumption == Malformed \subseteq Keys

VARIABLES
    file,      \* authorized_keys
    tmp,       \* authorized_keys.tmp ({} or one content)
    served,    \* keys the server answers with
    enabled,   \* is the machine logged in, with ssh_sync_enabled?
    pc,        \* per synchronisation: its next step
    keys,      \* per synchronisation: the keys it has fetched
    others,    \* per synchronisation: the lines it has read outside the block
    wanted,    \* history: the owner's lines as the owner left them
    disturbed  \* history: two were in the temporary file, or an edit fell into a window

local == <<file, tmp>>
work == <<pc, keys, others>>
vars == <<file, tmp, served, enabled, pc, keys, others, wanted, disturbed>>

Goto(s, l) == pc' = [pc EXCEPT ![s] = l]

Finish(s) ==
    /\ Goto(s, "idle")
    /\ keys' = [keys EXCEPT ![s] = {}]
    /\ others' = [others EXCEPT ![s] = {}]

\* What the server answers to s: GetSSHKeys or GetTunnelAuthorizedKeys.
Answered(s) == served \cap (IF s = "tunnel" THEN DeviceKeys ELSE UserKeys)

\* SyncKeys and SyncTunnelKeys; only the first looks at the switch.
Fetch(s) ==
    /\ pc[s] = "idle"
    /\ s # "tunnel" => enabled
    /\ keys' = [keys EXCEPT ![s] = Answered(s)]
    /\ Goto(s, "read")
    /\ UNCHANGED <<local, served, enabled, others, wanted, disturbed>>

\* (mutant of ReadKeys: the markers are not recognised)
ReadAllLines(s) ==
    /\ pc[s] = "read"
    /\ others' = [others EXCEPT ![s] = file.own \cup file.block]
    /\ Goto(s, "open")
    /\ UNCHANGED <<local, served, enabled, keys, wanted, disturbed>>

\* ReadKeys: the lines outside the block.
ReadKeys(s) ==
    /\ pc[s] = "read"
    /\ others' = [others EXCEPT ![s] = file.own]
    /\ Goto(s, "open")
    /\ UNCHANGED <<local, served, enabled, keys, wanted, disturbed>>

\* (mutant of OpenTemp: the file itself is truncated and written)
OpenInPlace(s) ==
    /\ pc[s] = "open"
    /\ keys[s] \cap Malformed = {}
    /\ tmp' = {[own |-> {}, block |-> {}]} /\ file' \in tmp'
    /\ disturbed' = (disturbed \/ \E q \in Syncs : pc[q] \in {"fill", "rename"})
    /\ Goto(s, "fill")
    /\ UNCHANGED <<served, enabled, keys, others, wanted>>

\* WriteKeys refuses all keys when one is malformed.
Refuse(s) ==
    /\ pc[s] = "open"
    /\ keys[s] \cap Malformed # {}
    /\ Finish(s)
    /\ UNCHANGED <<local, served, enabled, wanted, disturbed>>

\* os.WriteFile opens the temporary file and truncates it first.
OpenTemp(s) ==
    /\ pc[s] = "open"
    /\ keys[s] \cap Malformed = {}
    /\ tmp' = {[own |-> {}, block |-> {}]}
    /\ disturbed' = (disturbed \/ \E q \in Syncs : pc[q] \in {"fill", "rename"})
    /\ Goto(s, "fill")
    /\ UNCHANGED <<file, served, enabled, keys, others, wanted>>

\* (mutant of FillTemp: keys are added to the block and none is taken away)
FillMore(s) ==
    /\ pc[s] = "fill"
    /\ tmp' = {[own |-> others[s], block |-> keys[s] \cup file.block]}
    /\ Goto(s, "rename")
    /\ UNCHANGED <<file, served, enabled, keys, others, wanted, disturbed>>

FillTemp(s) ==
    /\ pc[s] = "fill"
    /\ tmp' = {[own |-> others[s], block |-> keys[s]]}
    /\ Goto(s, "rename")
    /\ UNCHANGED <<file, served, enabled, keys, others, wanted, disturbed>>

\* A missing temporary file has been renamed by another synchronisation.
Rename(s) ==
    /\ pc[s] = "rename"
    /\ file' \in IF tmp = {} THEN {file} ELSE tmp
    /\ tmp' = {}
    /\ Finish(s)
    /\ UNCHANGED <<served, enabled, wanted, disturbed>>

\* Another error, the end of the daemon or Ctrl-C, wherever it is.  A temporary file
\* stays behind, unless the rename itself was refused.
Fail(s) ==
    /\ pc[s] # "idle"
    /\ tmp' \in IF pc[s] = "rename" THEN {tmp, {}} ELSE {tmp}
    /\ Finish(s)
    /\ UNCHANGED <<file, served, enabled, wanted, disturbed>>

Sync(s) ==
    \/ Fetch(s) \/ ReadKeys(s) \/ Refuse(s) \/ OpenTemp(s) \/ FillTemp(s) \/ Rename(s)
    \/ Fail(s)

\* The owner edits the file, and loses the edit if a synchronisation has read it and
\* will replace it.
Edit ==
    /\ \E o \in SUBSET Own :
          /\ o # file.own
          /\ file' = [file EXCEPT !.own = o]
          /\ wanted' = o
    /\ disturbed' = (disturbed \/ \E s \in Syncs : pc[s] \in {"open", "fill", "rename"})
    /\ UNCHANGED <<tmp, served, enabled, work>>

\* A key is added or taken away in Firestore, or with a device or its tunnel.
ChangeKeys ==
    /\ \E k \in Keys : served' = IF k \in served THEN served \ {k} ELSE served \cup {k}
    /\ UNCHANGED <<local, enabled, work, wanted, disturbed>>

\* `roamie ssh enable` and `disable`, login and logout: none touches the file.
Switch ==
    /\ enabled' = ~enabled
    /\ UNCHANGED <<local, served, work, wanted, disturbed>>

Init ==
    /\ \E o \in SUBSET Own : file = [own |-> o, block |-> {}] /\ wanted = o
    /\ tmp = {}
    /\ served \in SUBSET Keys
    /\ enabled \in BOOLEAN
    /\ pc = [s \in Syncs |-> "idle"]
    /\ keys = [s \in Syncs |-> {}]
    /\ others = [s \in Syncs |-> {}]
    /\ disturbed = FALSE

\* Once disturbed, what the file holds depends on single writes of the operating
\* system: the model stops there.
Next ==
    \/ /\ ~disturbed
       /\ (\E s \in Syncs : Sync(s)) \/ Edit \/ ChangeKeys \/ Switch
    \/ disturbed /\ UNCHANGED vars

Spec == Init /\ [][Next]_vars

\* The daemon is restarted whenever it ends and its ticker fires every few minutes;
\* a synchronisation that is tried again and again gets through.  Nothing is assumed
\* of the tunnel, the terminal and the owner.
FairSpec ==
    /\ Spec
    /\ WF_vars(Fetch("ticker"))
    /\ SF_vars(ReadKeys("ticker")) /\ WF_vars(Refuse("ticker"))
    /\ SF_vars(OpenTemp("ticker")) /\ SF_vars(FillTemp("ticker"))
    /\ SF_vars(Rename("ticker"))

-----------------------------------------------------------------------------
(* Properties.                                                               *)

Steps == {"idle", "read", "open", "fill", "rename"}

\* Every variable keeps its type: keys of the account are never taken for lines of
\* the owner, nor the other way round.
TypeOK ==
    /\ file \in Content /\ tmp \subseteq Content
    /\ served \subseteq Keys /\ enabled \in BOOLEAN
    /\ pc \in [Syncs -> Steps]
    /\ keys \in [Syncs -> SUBSET Keys] /\ others \in [Syncs -> SUBSET Own]
    /\ wanted \subseteq Own /\ disturbed \in BOOLEAN

\* The lines of the owner survive every synchronisation, wherever it fails or is
\* killed and however several overlap, as long as no two are in the temporary file
\* at once and no edit falls between a read and its rename.
OwnKeysKept == ~disturbed => file.own = wanted

\* A key taken away from the account is sooner or later taken out of the file,
\* although answers fetched before may still be written after.  One malformed key of
\* the user stops all this (WriteKeys refuses the whole block).
RevokedKeysGo ==
    \A k \in Keys :
        <>[](enabled /\ k \notin served /\ served \cap UserKeys \cap Malformed = {})
            => <>[](disturbed \/ k \notin file.block)

=============================================================================
