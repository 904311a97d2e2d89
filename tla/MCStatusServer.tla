--------------------------- MODULE MCStatusServer ---------------------------
(* Small instances of StatusServer for TLC.                                *)
EXTENDS StatusServer, TLC

CONSTANTS u1, u2, a1, a2, t1, t2

MCUsers == {u1, u2}
MCAddrs == {a1, a2}
MCThreads == {t1, t2}
MCNames == 1..2
MCObjs == 1..4          \* a node and a handler each hold at most one object
MCCapacities == {0, 1}
MCOneUser == {u1}
MCOneCapacity == {1}

Symmetry == Permutations(MCUsers) \cup Permutations(MCAddrs) \cup Permutations(MCThreads)
=============================================================================
