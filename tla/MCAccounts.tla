------------------------------- MODULE MCAccounts -------------------------------
(***************************************************************************)
(* An instance with an account at one of two addresses.                    *)
(***************************************************************************)
EXTENDS Accounts, TLC

CONSTANTS e1, e2, p1, p2

MCInit == Init /\ account = (e1 :> p1) @@ (e2 :> None)

(* Calls are alike, and so are threads.                                    *)
Symmetry == Permutations(VerifyCalls) \cup Permutations(Threads)

MCSpec == MCInit /\ [][Next]_vars
=============================================================================
