--------------------------- MODULE MCClusterConfig ---------------------------
(* Small instances of ClusterConfig for TLC.                                *)
EXTENDS ClusterConfig

CONSTANTS n1, n2, n3, s1, s2

\* n3 has no card.
MCNodes == {n1, n2, n3}
MCCarded == {n1, n2}

For(n, s) == [node |-> n, spec |-> s]

\* Both nodes and one without card; a list that names a node twice.
MCRequests ==
    { <<For(n1, s2), For(n3, s1), For(n2, s1)>>,
      <<For(n1, s1), For(n1, s2)>> }

=============================================================================
