----------------------------- MODULE ResourcePool -----------------------------
(***************************************************************************)
(* What the connection pools promise their callers: a resource is used by  *)
(* one caller at a time, it is taken only when it is free, and it leaves   *)
(* the pool for good only when a caller loses it or the pool is closed.    *)
(***************************************************************************)
CONSTANTS Callers, Resources, Nobody

VARIABLES
    free,       \* resources nobody uses
    using,      \* caller -> resource, or Nobody
    open        \* FALSE once the pool is closed

vars == <<free, using, open>>

Init ==
    /\ free \subseteq Resources
    /\ using = [c \in Callers |-> Nobody]
    /\ open = TRUE

Take(c) ==
    /\ open /\ using[c] = Nobody
    /\ \E r \in free :
          /\ free' = free \ {r}
          /\ using' = [using EXCEPT ![c] = r]
    /\ UNCHANGED open

GiveBack(c) ==
    /\ using[c] # Nobody
    /\ free' = IF open THEN free \cup {using[c]} ELSE free
    /\ using' = [using EXCEPT ![c] = Nobody]
    /\ UNCHANGED open

Lose(c) ==
    /\ using[c] # Nobody
    /\ using' = [using EXCEPT ![c] = Nobody]
    /\ UNCHANGED <<free, open>>

Close ==
    /\ open
    /\ open' = FALSE
    /\ free' = {}
    /\ UNCHANGED using

Next == Close \/ \E c \in Callers : Take(c) \/ GiveBack(c) \/ Lose(c)

Spec == Init /\ [][Next]_vars
=============================================================================
