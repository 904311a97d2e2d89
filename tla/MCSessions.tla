----------------------------- MODULE MCSessions -----------------------------
(* Small instances of Sessions for TLC.                                    *)
EXTENDS Sessions

CONSTANTS s1, s2, u1, worker, g1

MCConnections == {s1, s2}
MCUsers == {u1}
MCWorkers == {worker}
MCGrpcThreads == {g1}
=============================================================================
