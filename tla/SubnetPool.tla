----------------------------- MODULE SubnetPool -----------------------------
(* The arithmetic of services/subnet_pool.go.  A network is its first        *)
(* address and its number of addresses, instead of an address and a prefix.  *)
EXTENDS Integers, Sequences

CONSTANTS
    SubnetSize,  \* addresses of a user's subnet: 2 ^ (32 - WG_SUBNET_SIZE)
    Ranges       \* WG_BASE_NETWORK, then WG_FALLBACK_NETWORKS, in their order

Network == [ip : Nat, size : Nat \ {0}]

Multiple(a) == \E i \in 0..a : a = i * SubnetSize

\* net.ParseCIDR clears the bits beyond the prefix, so a range starts at a multiple of
\* its size; and it is no smaller than a subnet (1 << (subnetSize - baseMask) panics).
ASSUME SubnetPoolAssumption ==
    /\ SubnetSize \in Nat \ {0}
    /\ Ranges \in Seq(Network)
    /\ \A k \in DOMAIN Ranges : Multiple(Ranges[k].ip) /\ Multiple(Ranges[k].size)

Contains(n, a) == n.ip <= a /\ a < n.ip + n.size
AddressesOf(n) == n.ip..(n.ip + n.size - 1)

\* (mutant of Overlap: only one of the two directions)
Inside(m, n) == Contains(n, m.ip)

\* subnetsOverlap
Overlap(m, n) == Contains(m, n.ip) \/ Contains(n, m.ip)

Candidates(r) ==
    {[ip |-> r.ip + i * SubnetSize, size |-> SubnetSize] : i \in 0..(r.size \div SubnetSize) - 1}

\* The candidates of range r that findAvailableSubnet would accept.
Free(r, existing, conflicts) ==
    {c \in Candidates(r) : c \notin existing /\ \A n \in conflicts : ~Overlap(c, n)}

\* AllocateSubnet: the first free candidate of the first range that has one.  At most
\* one network; none when every range is full.
Allocation(existing, conflicts) ==
    {n \in UNION {Free(Ranges[k], existing, conflicts) : k \in DOMAIN Ranges} :
        \E k \in DOMAIN Ranges :
            /\ n \in Free(Ranges[k], existing, conflicts)
            /\ \A c \in Free(Ranges[k], existing, conflicts) : n.ip <= c.ip
            /\ \A j \in DOMAIN Ranges : j < k => Free(Ranges[j], existing, conflicts) = {}}

\* GetNextAvailableIP: from the third address on, maxHosts = size - 2 of them.
HostsOf(n) == {n.ip + 2 + i : i \in 0..(n.size - 3)}

\* What it may return by its comment, "Calculate last usable IP (broadcast - 1)": neither
\* the network's address, nor its gateway, nor its broadcast address.
UsableOf(n) == AddressesOf(n) \ {n.ip, n.ip + 1, n.ip + n.size - 1}
=============================================================================
