------------------------------ MODULE MCGrpcPool ------------------------------
EXTENDS ChatGrpcClient, TLC
CONSTANTS t1, t2, t3, t4, s1, s2
MCThreads == {t1, t2, t3, t4}
MCStubs == {s1, s2}
=============================================================================
