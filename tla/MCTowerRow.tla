----------------------------- MODULE MCTowerRow -----------------------------
(* Instances of TowerRow for TLC. *)
EXTENDS TowerRow, TLC
SnmpCycles == {"snmp_online", "snmp_degraded", "snmp_unreachable"}
AllCycles ==
    SnmpCycles \cup {"snmp_unmapped", "comap_online", "comap_unreachable",
                    "neteco_up", "neteco_down", "neteco_failed"}
\* A ComAp cycle writes what an SNMP cycle that stops half-way has written, and a
\* degraded one what an online one does, but for the status.
UnlikeCycles == AllCycles \ {"comap_online", "comap_unreachable", "snmp_degraded"}
Symmetry == Permutations(Collectors) \cup Permutations(Operators)
=============================================================================
