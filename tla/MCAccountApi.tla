---------------------------- MODULE MCAccountApi ----------------------------
(* An instance of AccountApi for TLC.  A subnet has 4 addresses; the base    *)
(* network has room for two, the fallback for one.                           *)
EXTENDS AccountApi, TLC

MCRanges == <<[ip |-> 8, size |-> 8], [ip |-> 0, size |-> 4]>>
MCEmailOf == "c1" :> "ana"
MCOwnerOf == "r1" :> "ana"

\* A network in use that covers part of the first subnet of the base network, and one
\* wider than the fallback network that may be reported later.
Docker == [ip |-> 9, size |-> 1]
Wide == [ip |-> 0, size |-> 8]
MCConflicts == {Docker, Wide}
MCInitialConflicts == {Docker}

Symmetry == Permutations(Procs)
=============================================================================
