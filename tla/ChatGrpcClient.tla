---------------------------- MODULE ChatGrpcClient ----------------------------
(***************************************************************************)
(* How the clients come to their pool.  Most make it in their constructor. *)
(* ChatGrpcClient of StatusServer makes one for each ChatServer when a     *)
(* thread that kicks a user first needs it, and looks it up under          *)
(* _poolMutex in two critical sections with the construction between them. *)
(*                                                                         *)
(* One address is looked at.  The variables of GrpcPool are the first pool *)
(* made for it; what later ones do inside is left out.                     *)
(***************************************************************************)
EXTENDS GrpcPool

VARIABLES
    onDemand,   \* TRUE: ChatGrpcClient
    mapped,     \* the pool in _pools, by number; 0 if there is none
    made,       \* number of pools made so far
    building,   \* threads that found no pool and are making one
    uses        \* thread -> pool its pointer is to; 0 before initPool

clientVars == <<onDemand, mapped, made, building, uses>>
kickVars == <<vars, clientVars>>

KickInit ==
    /\ Init /\ onDemand \in BOOLEAN
    /\ onDemand => idle = Stubs
    /\ mapped = (IF onDemand THEN 0 ELSE 1) /\ made = mapped
    /\ building = {} /\ uses = [t \in Threads |-> mapped]

(* KickUser begins and has not called initPool.                            *)
Begins(t) == onDemand /\ uses[t] = 0 /\ t \notin building

(* Mutant: the pool is made without looking for one.                       *)
BuildAlways(t) ==
    /\ Begins(t) /\ made <= Cardinality(Threads)
    /\ building' = building \cup {t}
    /\ UNCHANGED <<vars, onDemand, mapped, made, uses>>

(* The first critical section of initPool.                                 *)
LookUp(t) ==
    /\ Begins(t)
    /\ IF mapped = 0
       THEN building' = building \cup {t} /\ UNCHANGED uses
       ELSE uses' = [uses EXCEPT ![t] = mapped] /\ UNCHANGED building
    /\ UNCHANGED <<vars, onDemand, mapped, made>>

(* Mutant: the new pool is used and not put into the map.                  *)
StoreForgotten(t) ==
    /\ t \in building
    /\ building' = building \ {t}
    /\ made' = made + 1 /\ made < Cardinality(Threads) + 1
    /\ uses' = [uses EXCEPT ![t] = made']
    /\ UNCHANGED <<vars, mapped, onDemand>>

(* The second one: _pools[key] = std::move(newPool).  A pool that another  *)
(* thread stored meanwhile is destroyed, whoever uses it.                  *)
Store(t) ==
    /\ t \in building
    /\ building' = building \ {t}
    /\ made' = made + 1 /\ mapped' = made'
    /\ uses' = [uses EXCEPT ![t] = mapped']
    /\ IF mapped = 1 /\ ~stop THEN Destroy ELSE UNCHANGED vars
    /\ UNCHANGED onDemand

(* KickUser ends, and its pointer with it.                                 *)
Done(t) == uses' = [uses EXCEPT ![t] = IF onDemand THEN 0 ELSE @]

(* The calls through the first pool.  KickUser hands its stub back before  *)
(* it looks at the status.                                                 *)
Enter(t) ==
    /\ uses[t] = 1 /\ GetConnection(t)
    /\ UNCHANGED clientVars

Wake(t) == (Reacquire(t) \/ SpuriousWakeup(t)) /\ UNCHANGED clientVars

Leave(t) ==
    /\ ReturnConnection(t) \/ (~onDemand /\ CallFailed(t))
    /\ Done(t)
    /\ UNCHANGED <<onDemand, mapped, made, building>>

(* A call through a later pool.                                            *)
CallElsewhere(t) ==
    /\ uses[t] > 1
    /\ Done(t)
    /\ UNCHANGED <<vars, onDemand, mapped, made, building>>

(* The end of the process.                                                 *)
Exit == Destroy /\ UNCHANGED clientVars

KickNext ==
    \/ Exit
    \/ \E t \in Threads :
          \/ LookUp(t) \/ Store(t)
          \/ Enter(t) \/ Wake(t) \/ Leave(t) \/ CallElsewhere(t)

KickFairness ==
    \A t \in Threads : WF_kickVars(Reacquire(t) /\ UNCHANGED clientVars)

KickSpec == KickInit /\ [][KickNext]_kickVars /\ KickFairness

-----------------------------------------------------------------------------
(* The race of initPool is over once there is a pool and nobody makes one: *)
(* from then on the pool for the address is never replaced, so no thread   *)
(* that gets it can lose it to another one (ChatGrpcClient::initPool).     *)
Settled == mapped # 0 /\ building = {}

SettledPoolStays == [][Settled => Settled' /\ mapped' = mapped]_kickVars

(* Every pool was made by a thread that raced with the first one, each     *)
(* thread at most once: the map is not a leak of pools.                    *)
OnePoolPerThread == onDemand => made + Cardinality(building) <= Cardinality(Threads)
=============================================================================
