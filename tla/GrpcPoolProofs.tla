---------------------------- MODULE GrpcPoolProofs ----------------------------
(***************************************************************************)
(* Proofs about GrpcPool and the clients that make a pool on demand, for   *)
(* any number of threads and stubs.                                        *)
(***************************************************************************)
EXTENDS ChatGrpcClient, FiniteSetTheorems, TLAPS

Holders == {t \in Threads : stub[t] # None}

(* The stub a thread holds is its own, and it holds one while it calls.    *)
Exclusive ==
    /\ \A t \in Threads : stub[t] # None <=> pc[t] = "calling"
    /\ \A t \in Threads : stub[t] \notin idle
    /\ stop => idle = {}
    /\ \A s, t \in Threads : stub[s] # None /\ stub[s] = stub[t] => s = t

SafeInv == TypeOK /\ Exclusive

(* What a constructor can leave behind.                                    *)
LEMMA PartlyCreated ==
    ASSUME Init
    PROVE  /\ idle \subseteq Stubs /\ leaked \in Nat
           /\ Cardinality(idle) \in Nat /\ Cardinality(idle) + leaked = Cardinality(Stubs)
<1>1. idle \subseteq Stubs /\ leaked = Cardinality(Stubs) - Cardinality(idle)
  BY DEF Init, Created
<1>2. /\ Cardinality(idle) \in Nat /\ Cardinality(Stubs) \in Nat
      /\ Cardinality(idle) <= Cardinality(Stubs)
  BY <1>1, PoolAssumption, FS_Subset, FS_CardinalityType
<1> QED
  BY <1>1, <1>2

LEMMA SafeInit == Init => SafeInv
<1> SUFFICES ASSUME Init PROVE SafeInv
  OBVIOUS
<1>1. TypeOK
  BY PartlyCreated DEF Init, TypeOK
<1>2. Exclusive
  BY PoolAssumption, PartlyCreated DEF Init, Exclusive
<1> QED
  BY <1>1, <1>2 DEF SafeInv

LEMMA NotifyKeeps ==
  ASSUME NEW p \in [Threads -> {"out", "blocked", "woken", "calling", "null"}],
         NEW q \in NotifyOne(p)
  PROVE  /\ q \in [Threads -> {"out", "blocked", "woken", "calling", "null"}]
         /\ \A t \in Threads : q[t] = "calling" <=> p[t] = "calling"
BY DEF NotifyOne

LEMMA SafeStep == SafeInv /\ [Next]_vars => SafeInv'
<1> SUFFICES ASSUME SafeInv, [Next]_vars PROVE SafeInv'
  OBVIOUS
<1> USE PoolAssumption DEF SafeInv, TypeOK, Exclusive
<1>1. CASE UNCHANGED vars
  BY <1>1 DEF vars
<1>2. CASE Destroy
  BY <1>2 DEF Destroy
<1>3. ASSUME NEW t \in Threads, Take(t), pc[t] # "calling" PROVE SafeInv'
  BY <1>3 DEF Take
<1>4. ASSUME NEW t \in Threads, Sleep(t), pc[t] # "calling" PROVE SafeInv'
  BY <1>4 DEF Sleep
<1>5. ASSUME NEW t \in Threads, TakeNull(t), pc[t] # "calling" PROVE SafeInv'
  BY <1>5 DEF TakeNull
<1>6. ASSUME NEW t \in Threads, SpuriousWakeup(t) PROVE SafeInv'
  BY <1>6 DEF SpuriousWakeup
<1>7. ASSUME NEW t \in Threads, ReturnConnection(t) PROVE SafeInv'
  <2>1. CASE stop
    BY <1>7, <2>1 DEF ReturnConnection
  <2>2. CASE ~stop
    <3>1. /\ pc' \in [Threads -> {"out", "blocked", "woken", "calling", "null"}]
          /\ \A s \in Threads : pc'[s] = "calling" <=> pc[s] = "calling" /\ s # t
      <4>1. PICK p : p = [pc EXCEPT ![t] = "out"]
        OBVIOUS
      <4>2. /\ p \in [Threads -> {"out", "blocked", "woken", "calling", "null"}]
            /\ \A s \in Threads : p[s] = "calling" <=> pc[s] = "calling" /\ s # t
        BY <4>1
      <4>3. pc' \in NotifyOne(p)
        BY <1>7, <2>2, <4>1 DEF ReturnConnection
      <4> QED
        BY <4>2, <4>3, NotifyKeeps
    <3> QED
      BY <1>7, <2>2, <3>1 DEF ReturnConnection, Pushed
  <2> QED
    BY <2>1, <2>2
<1>8. ASSUME NEW t \in Threads, CallFailed(t) PROVE SafeInv'
  BY <1>8 DEF CallFailed
<1> QED
  BY <1>1, <1>2, <1>3, <1>4, <1>5, <1>6, <1>7, <1>8 DEF Next, GetConnection, Reacquire

(* Spec without its fairness.                                              *)
SafeSpec == Init /\ [][Next]_vars

LEMMA SafeInvariant == SafeSpec => []SafeInv
BY SafeInit, SafeStep, PTL DEF SafeSpec

(* A client that makes its pool on demand uses it as the others do: every  *)
(* step of theirs is one of the pool or leaves it alone.                   *)
LEMMA KickStep == [KickNext]_kickVars => [Next]_vars
<1> SUFFICES ASSUME [KickNext]_kickVars PROVE [Next]_vars
  OBVIOUS
<1>1. CASE UNCHANGED kickVars
  BY <1>1 DEF kickVars
<1>2. CASE Exit
  BY <1>2 DEF Exit, Next
<1>3. ASSUME NEW t \in Threads, LookUp(t) \/ CallElsewhere(t) PROVE UNCHANGED vars
  BY <1>3 DEF LookUp, CallElsewhere
<1>4. ASSUME NEW t \in Threads, Store(t) PROVE [Next]_vars
  BY <1>4 DEF Store, Next
<1>5. ASSUME NEW t \in Threads, Enter(t) \/ Wake(t) \/ Leave(t) PROVE Next
  BY <1>5 DEF Enter, Wake, Leave, Next
<1> QED
  BY <1>1, <1>2, <1>3, <1>4, <1>5 DEF KickNext

LEMMA KickSafe == KickSpec => SafeSpec
<1>1. KickInit => Init
  BY DEF KickInit
<1> QED
  BY <1>1, KickStep, PTL DEF KickSpec, SafeSpec

(* The pool's variables are well typed.                                    *)
THEOREM PoolTypeCorrect == (Spec => []TypeOK) /\ (KickSpec => []TypeOK)
<1>1. SafeInv => TypeOK
  BY DEF SafeInv
<1> QED
  BY <1>1, SafeInvariant, KickSafe, PTL DEF Spec, SafeSpec

-----------------------------------------------------------------------------
(* The monitor implements the abstract pool.                               *)

THEOREM PoolRefinement == (Spec => RefinesPool) /\ (KickSpec => RefinesPool)
<1>1. Init => Pool!Init
  BY PartlyCreated DEF Init, Pool!Init
<1>2. SafeInv /\ [Next]_vars => [Pool!Next]_(Pool!vars)
  <2> SUFFICES ASSUME SafeInv, [Next]_vars PROVE [Pool!Next]_(Pool!vars)
    OBVIOUS
  <2> USE PoolAssumption DEF SafeInv, TypeOK, Exclusive, Pool!vars, Pool!Next
  <2>1. CASE UNCHANGED vars
    BY <2>1 DEF vars
  <2>2. CASE Destroy
    BY <2>2 DEF Destroy, Pool!Close
  <2>3. ASSUME NEW t \in Threads, Take(t), pc[t] # "calling" PROVE Pool!Take(t)
    BY <2>3 DEF Take, Pool!Take
  <2>4. ASSUME NEW t \in Threads, Sleep(t) PROVE UNCHANGED Pool!vars
    BY <2>4 DEF Sleep
  <2>5. ASSUME NEW t \in Threads, TakeNull(t) PROVE UNCHANGED Pool!vars
    BY <2>5 DEF TakeNull
  <2>6. ASSUME NEW t \in Threads, SpuriousWakeup(t) PROVE UNCHANGED Pool!vars
    BY <2>6 DEF SpuriousWakeup
  <2>7. ASSUME NEW t \in Threads, ReturnConnection(t) PROVE Pool!GiveBack(t)
    BY <2>7 DEF ReturnConnection, Pushed, Pool!GiveBack
  <2>8. ASSUME NEW t \in Threads, CallFailed(t) PROVE Pool!Lose(t)
    BY <2>8 DEF CallFailed, Pool!Lose
  <2> QED
    BY <2>1, <2>2, <2>3, <2>4, <2>5, <2>6, <2>7, <2>8 DEF Next, GetConnection, Reacquire
<1> QED
  BY <1>1, <1>2, SafeInvariant, KickSafe, PTL DEF Spec, SafeSpec, RefinesPool, Pool!Spec

-----------------------------------------------------------------------------
(* Counting.                                                               *)

LEMMA PoolFinite ==
  ASSUME TypeOK
  PROVE  /\ IsFiniteSet(idle) /\ Cardinality(idle) \in Nat
         /\ IsFiniteSet(Holders) /\ Cardinality(Holders) \in Nat
         /\ IsFiniteSet(Woken) /\ Cardinality(Woken) \in Nat
BY PoolAssumption, FS_Subset, FS_CardinalityType DEF TypeOK, Holders, Woken

LEMMA ConservedStep ==
  SafeInv /\ SafeInv' /\ StubsConserved /\ [Next]_vars => StubsConserved'
<1> SUFFICES ASSUME SafeInv, SafeInv', StubsConserved, [Next]_vars, ~stop'
             PROVE  Cardinality(idle') + Cardinality(Holders') + leaked' = Cardinality(Stubs)
  BY DEF StubsConserved, Holders
<1> USE PoolAssumption
<1>0. /\ leaked \in Nat /\ TypeOK
      /\ ~stop => Cardinality(idle) + Cardinality(Holders) + leaked = Cardinality(Stubs)
  BY DEF SafeInv, TypeOK, StubsConserved, Holders
<1>1. ASSUME UNCHANGED <<stub, idle, stop, leaked>>
      PROVE  Cardinality(idle') + Cardinality(Holders') + leaked' = Cardinality(Stubs)
  <2>1. Holders' = Holders
    BY <1>1 DEF Holders
  <2> QED
    BY <1>0, <1>1, <2>1
<1>2. CASE Destroy
  BY <1>2 DEF Destroy
<1>3. ASSUME NEW t \in Threads, Take(t), pc[t] # "calling"
      PROVE  Cardinality(idle') + Cardinality(Holders') + leaked' = Cardinality(Stubs)
  <2>1. PICK s \in idle : idle' = idle \ {s} /\ stub' = [stub EXCEPT ![t] = s]
    BY <1>3 DEF Take
  <2>2. Holders' = Holders \cup {t} /\ t \notin Holders
    BY <1>3, <2>1 DEF Holders, SafeInv, TypeOK, Exclusive
  <2>3. Cardinality(Holders') = Cardinality(Holders) + 1
    BY <1>0, <2>2, PoolFinite, FS_AddElement
  <2>4. Cardinality(idle') = Cardinality(idle) - 1
    BY <1>0, <2>1, PoolFinite, FS_RemoveElement
  <2> QED
    BY <1>0, <1>3, <2>3, <2>4, PoolFinite DEF Take
<1>4. ASSUME NEW t \in Threads, ReturnConnection(t)
      PROVE  Cardinality(idle') + Cardinality(Holders') + leaked' = Cardinality(Stubs)
  <2>1. idle' = idle \cup {stub[t]} /\ leaked' = leaked /\ ~stop
    BY <1>4 DEF ReturnConnection, Pushed
  <2>2. Holders' = Holders \ {t} /\ t \in Holders /\ stub[t] \notin idle
    BY <1>4 DEF ReturnConnection, Holders, SafeInv, TypeOK, Exclusive
  <2>3. Cardinality(Holders') = Cardinality(Holders) - 1
    BY <1>0, <2>2, PoolFinite, FS_RemoveElement
  <2>4. Cardinality(idle') = Cardinality(idle) + 1
    BY <1>0, <2>1, <2>2, PoolFinite, FS_AddElement
  <2> QED
    BY <1>0, <2>1, <2>3, <2>4, PoolFinite
<1>5. ASSUME NEW t \in Threads, CallFailed(t)
      PROVE  Cardinality(idle') + Cardinality(Holders') + leaked' = Cardinality(Stubs)
  <2>1. Holders' = Holders \ {t} /\ t \in Holders
    BY <1>5 DEF CallFailed, Holders, SafeInv, TypeOK, Exclusive
  <2>2. Cardinality(Holders') = Cardinality(Holders) - 1
    BY <1>0, <2>1, PoolFinite, FS_RemoveElement
  <2>3. idle' = idle /\ leaked' = leaked + 1 /\ ~stop
    BY <1>5 DEF CallFailed
  <2>4. Cardinality(idle) + Cardinality(Holders) + leaked = Cardinality(Stubs)
    BY <1>0, <2>3
  <2>5. Cardinality(idle) \in Nat /\ Cardinality(Holders) \in Nat /\ leaked \in Nat
    BY <1>0, PoolFinite
  <2>6. Cardinality(idle') = Cardinality(idle)
    BY <2>3
  <2> QED
    BY <2>2, <2>3, <2>4, <2>5, <2>6
<1> QED
  BY <1>1, <1>2, <1>3, <1>4, <1>5
     DEF Next, GetConnection, Reacquire, Sleep, TakeNull, SpuriousWakeup, vars

(* As long as the pool is open, its stubs are idle, in use, or lost to the *)
(* failed calls of a client that does not hand its stub back.              *)
THEOREM StubsAreConserved == (Spec => []StubsConserved) /\ (KickSpec => []StubsConserved)
<1>1. Init => StubsConserved
  <2> SUFFICES ASSUME Init PROVE StubsConserved
    OBVIOUS
  <2>1. {t \in Threads : stub[t] # None} = {}
    BY DEF Init
  <2> QED
    <3>1. Cardinality({t \in Threads : stub[t] # None}) = 0
      BY <2>1, FS_EmptySet
    <3> QED
      BY <3>1, PartlyCreated DEF StubsConserved
<1> QED
  BY <1>1, ConservedStep, SafeInvariant, KickSafe, PTL DEF Spec, SafeSpec

-----------------------------------------------------------------------------
(* Wakeups.                                                                *)

LEMMA WakeupStep ==
  SafeInv /\ SafeInv' /\ NoLostWakeup /\ [Next]_vars => NoLostWakeup'
<1> SUFFICES ASSUME SafeInv, SafeInv', NoLostWakeup, [Next]_vars, Blocked' # {}
             PROVE  Cardinality(Woken') >= Cardinality(idle')
  BY DEF NoLostWakeup
<1> USE PoolAssumption
<1>0. TypeOK /\ TypeOK' /\ (Blocked # {} => Cardinality(Woken) >= Cardinality(idle))
  BY DEF SafeInv, NoLostWakeup
<1>1. CASE UNCHANGED vars
  BY <1>0, <1>1 DEF vars, Woken, Blocked
<1>2. CASE Destroy
  BY <1>0, <1>2 DEF Destroy, Blocked
<1>3. ASSUME NEW t \in Threads, Take(t), pc[t] \in {"out", "woken"}
      PROVE  Cardinality(Woken') >= Cardinality(idle')
  <2>1. PICK s \in idle : idle' = idle \ {s}
    BY <1>3 DEF Take
  <2>2. Cardinality(idle') = Cardinality(idle) - 1
    BY <1>0, <2>1, PoolFinite, FS_RemoveElement
  <2>3. Blocked' = Blocked /\ Woken' = Woken \ {t}
    BY <1>0, <1>3 DEF Take, Blocked, Woken, TypeOK
  <2>4. Cardinality(Woken \ {t}) >= Cardinality(Woken) - 1 /\ Cardinality(Woken \ {t}) \in Nat
    <3>1. CASE t \in Woken
      <4>1. Cardinality(Woken \ {t}) = Cardinality(Woken) - 1
        BY <1>0, <3>1, PoolFinite, FS_RemoveElement
      <4>2. Cardinality(Woken \ {t}) \in Nat
        BY <1>0, PoolFinite, FS_RemoveElement, FS_CardinalityType
      <4> QED
        BY <4>1, <4>2, <1>0, PoolFinite
    <3>2. CASE t \notin Woken
      <4>1. Woken \ {t} = Woken
        BY <3>2
      <4> QED
        BY <1>0, <4>1, PoolFinite
    <3> QED
      BY <3>1, <3>2
  <2> QED
    BY <1>0, <2>2, <2>3, <2>4, PoolFinite
<1>4. ASSUME NEW t \in Threads, Sleep(t)
      PROVE  Cardinality(Woken') >= Cardinality(idle')
  <2>1. idle' = {}
    BY <1>4 DEF Sleep
  <2>2. IsFiniteSet(Woken') /\ Cardinality(Woken') \in Nat
    BY FS_Subset, FS_CardinalityType DEF Woken
  <2> QED
    BY <2>1, <2>2, FS_EmptySet
<1>5. ASSUME NEW t \in Threads, TakeNull(t), pc[t] \in {"out", "woken"}
      PROVE  Cardinality(Woken') >= Cardinality(idle')
  <2>1. idle' = {}
    BY <1>5 DEF TakeNull, SafeInv, Exclusive
  <2>2. IsFiniteSet(Woken') /\ Cardinality(Woken') \in Nat
    BY FS_Subset, FS_CardinalityType DEF Woken
  <2> QED
    BY <2>1, <2>2, FS_EmptySet
<1>6. ASSUME NEW t \in Threads, SpuriousWakeup(t)
      PROVE  Cardinality(Woken') >= Cardinality(idle')
  <2>1. Woken' = Woken \cup {t} /\ t \notin Woken /\ t \in Blocked /\ idle' = idle
    BY <1>0, <1>6 DEF SpuriousWakeup, Woken, Blocked, TypeOK
  <2>2. Cardinality(Woken') = Cardinality(Woken) + 1
    BY <1>0, <2>1, PoolFinite, FS_AddElement
  <2> QED
    BY <1>0, <2>1, <2>2, PoolFinite
<1>7. ASSUME NEW t \in Threads, ReturnConnection(t)
      PROVE  Cardinality(Woken') >= Cardinality(idle')
  <2>1. CASE stop
    <3>1. Blocked' = Blocked /\ Woken' = Woken /\ idle' = idle
      BY <1>0, <1>7, <2>1 DEF ReturnConnection, Blocked, Woken, TypeOK
    <3> QED
      BY <1>0, <3>1
  <2>2. CASE ~stop
    <3>1. idle' = idle \cup {stub[t]} /\ stub[t] \notin idle /\ pc[t] = "calling"
      BY <1>7, <2>2 DEF ReturnConnection, Pushed, SafeInv, Exclusive
    <3>2. Cardinality(idle') = Cardinality(idle) + 1
      BY <1>0, <3>1, PoolFinite, FS_AddElement
    <3>3. PICK b \in Blocked : pc' = [pc EXCEPT ![t] = "out", ![b] = "woken"]
      <4>1. PICK p : p = [pc EXCEPT ![t] = "out"]
        OBVIOUS
      <4>2. pc' \in NotifyOne(p) /\ p \in [Threads -> {"out", "blocked", "woken", "calling", "null"}]
        BY <1>0, <1>7, <2>2, <4>1 DEF ReturnConnection, TypeOK
      <4>3. \A s \in Threads : p[s] = "blocked" <=> s \in Blocked
        BY <1>0, <3>1, <4>1 DEF Blocked, TypeOK
      <4>4. CASE \E s \in Threads : p[s] = "blocked"
        BY <4>1, <4>2, <4>3, <4>4 DEF NotifyOne
      <4>5. CASE ~ \E s \in Threads : p[s] = "blocked"
        <5>1. pc' = p
          BY <4>2, <4>5 DEF NotifyOne
        <5> QED
          BY <4>5, <5>1 DEF Blocked
      <4> QED
        BY <4>4, <4>5
    <3>4. Woken' = Woken \cup {b} /\ b \notin Woken
      BY <1>0, <3>1, <3>3 DEF Woken, Blocked, TypeOK
    <3>5. Cardinality(Woken') = Cardinality(Woken) + 1
      BY <1>0, <3>4, PoolFinite, FS_AddElement
    <3> QED
      BY <1>0, <3>2, <3>3, <3>5, PoolFinite
  <2> QED
    BY <2>1, <2>2
<1>8. ASSUME NEW t \in Threads, CallFailed(t)
      PROVE  Cardinality(Woken') >= Cardinality(idle')
  <2>1. Blocked' = Blocked /\ Woken' = Woken /\ idle' = idle
    BY <1>0, <1>8 DEF CallFailed, Blocked, Woken, TypeOK
  <2> QED
    BY <1>0, <2>1
<1> QED
  BY <1>1, <1>2, <1>3, <1>4, <1>5, <1>6, <1>7, <1>8 DEF Next, GetConnection, Reacquire

(* Handing one stub back with notify_one never leaves a thread asleep next *)
(* to a stub that no awakened thread is coming for.                        *)
THEOREM WakeupsSuffice == (Spec => []NoLostWakeup) /\ (KickSpec => []NoLostWakeup)
<1>1. Init => NoLostWakeup
  BY DEF Init, NoLostWakeup, Blocked
<1> QED
  BY <1>1, WakeupStep, SafeInvariant, KickSafe, PTL DEF Spec, SafeSpec

-----------------------------------------------------------------------------
(* Pools made on demand.                                                   *)

KickInv ==
    /\ made \in Nat /\ mapped = made
    /\ building \subseteq Threads
    /\ onDemand /\ mapped # 0 => made + Cardinality(building) <= Cardinality(Threads)

LEMMA BuildingFinite ==
    ASSUME NEW S \in SUBSET Threads
    PROVE  /\ IsFiniteSet(S) /\ Cardinality(S) \in Nat
           /\ Cardinality(Threads) \in Nat /\ Cardinality(S) <= Cardinality(Threads)
  BY PoolAssumption, FS_Subset, FS_CardinalityType

LEMMA KickInvStep == KickInv /\ OnePoolPerThread /\ [KickNext]_kickVars => KickInv'
<1> SUFFICES ASSUME KickInv, OnePoolPerThread, [KickNext]_kickVars PROVE KickInv'
  OBVIOUS
<1>1. ASSUME UNCHANGED <<onDemand, mapped, made, building>> PROVE KickInv'
  BY <1>1 DEF KickInv
<1>2. ASSUME NEW t \in Threads, LookUp(t) PROVE KickInv'
  <2>1. CASE mapped = 0
    BY <1>2, <2>1 DEF LookUp, KickInv
  <2>2. CASE mapped # 0
    BY <1>2, <2>2, <1>1 DEF LookUp
  <2> QED
    BY <2>1, <2>2
<1>3. ASSUME NEW t \in Threads, Store(t) PROVE KickInv'
  <2>1. /\ t \in building /\ building' = building \ {t} /\ made' = made + 1
        /\ mapped' = made' /\ onDemand' = onDemand
    BY <1>3 DEF Store
  <2>2. Cardinality(building') = Cardinality(building) - 1
    BY <2>1, BuildingFinite, FS_RemoveElement DEF KickInv
  <2>3. Cardinality(building) \in Nat /\ Cardinality(Threads) \in Nat
    BY BuildingFinite DEF KickInv
  <2>4. onDemand => made + Cardinality(building) <= Cardinality(Threads)
    BY DEF OnePoolPerThread
  <2> QED
    BY <2>1, <2>2, <2>3, <2>4 DEF KickInv
<1> QED
  BY <1>1, <1>2, <1>3
     DEF KickNext, kickVars, clientVars, Exit, Enter, Wake, Leave, CallElsewhere

LEMMA PoolPerThread == KickInv => OnePoolPerThread
<1> SUFFICES ASSUME KickInv PROVE OnePoolPerThread
  OBVIOUS
<1>1. CASE mapped # 0
  BY <1>1 DEF KickInv, OnePoolPerThread
<1>2. CASE mapped = 0
  BY <1>2, BuildingFinite DEF KickInv, OnePoolPerThread
<1> QED
  BY <1>1, <1>2

(* However many threads kick users of a ChatServer that has no pool yet,   *)
(* each of them makes at most one.                                         *)
THEOREM PoolsOnDemand == KickSpec => []OnePoolPerThread
<1>1. KickInit => KickInv
  <2> SUFFICES ASSUME KickInit PROVE KickInv
    OBVIOUS
  <2>1. building = {} /\ mapped \in {0, 1} /\ made = mapped /\ (onDemand => mapped = 0)
    BY DEF KickInit
  <2> QED
    BY <2>1 DEF KickInv
<1>2. KickInv /\ [KickNext]_kickVars => KickInv'
  BY KickInvStep, PoolPerThread
<1> QED
  BY <1>1, <1>2, PoolPerThread, PTL DEF KickSpec

(* After the race is over the pool of an address is not replaced any more. *)
THEOREM PoolSettles == KickSpec => SettledPoolStays
<1>1. [KickNext]_kickVars => [Settled => Settled' /\ mapped' = mapped]_kickVars
  <2> SUFFICES ASSUME [KickNext]_kickVars, Settled PROVE Settled' /\ mapped' = mapped
    OBVIOUS
  <2> QED
    BY DEF KickNext, kickVars, clientVars, Exit, LookUp, Store, Enter, Wake, Leave,
           CallElsewhere, Settled
<1> QED
  BY <1>1, PTL DEF KickSpec, SettledPoolStays
=============================================================================
