------------------------------ MODULE MCFriends ------------------------------
(* Small instances of Friends for TLC.                                     *)
EXTENDS Friends

CONSTANTS s1, s2, u1, u2

MCServers == {s1, s2}
MCUsers == {u1, u2}

(* The second server was started without the first in its list of peers.   *)
MCPeers == [s \in MCServers |-> IF s = s1 THEN {s2} ELSE {}]

(* Friends does not distinguish users.  So let u1 be the user whose        *)
(* application waits: the other behaviours are these with the names        *)
(* exchanged.  (TLC does not take symmetry sets together with liveness.)   *)
MCInit == Init /\ pending = {<<u1, u2>>}

MCSpec == MCInit /\ [][Next]_vars /\ Fairness
=============================================================================
