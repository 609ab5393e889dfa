---------------------------- MODULE MCInventory ----------------------------
(* Two crawls, of one cluster or of two, during two days. *)
EXTENDS Inventory, TLC

CONSTANTS n1, n2, l1, l2, p1, p2, s1, c1, c2

MCNamespace == {n1, n2}
MCCluster == {l1, l2}
MCPod == {p1, p2}
MCStatus == {s1}
MCCrawl == {c1, c2}

\* The names are interchangeable.
MCSymmetry ==
    Permutations(MCNamespace) \cup Permutations(MCCluster)
    \cup Permutations(MCPod) \cup Permutations(MCCrawl)
=============================================================================
