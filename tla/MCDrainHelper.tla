--------------------------- MODULE MCDrainHelper ---------------------------
(* Small instances of DrainHelper for TLC.                                  *)
EXTENDS DrainHelper

CONSTANTS d1, d2, n1, n2

MCDaemons == {d1, d2}
MCNodes == {n1, n2}

\* One daemon on each node.
MCNodeOf == [d \in MCDaemons |-> IF d = d1 THEN n1 ELSE n2]

=============================================================================
