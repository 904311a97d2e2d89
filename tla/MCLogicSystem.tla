---------------------------- MODULE MCLogicSystem ----------------------------
(* Small instances of LogicSystem for TLC.                                 *)
EXTENDS LogicSystem

CONSTANTS p1, p2, p3, login, unknown

MCPosters == {p1, p2, p3}
MCMessages == {login, unknown}
MCHandled == {login}
=============================================================================
