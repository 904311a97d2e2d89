------------------------------- MODULE GrpcPool -------------------------------
(***************************************************************************)
(* The pool of gRPC stubs (GrpcPool.h, the same file in four servers) with *)
(* the clients that use it.  MySQLConPool is the same monitor, but for its *)
(* destructor, which runs at the end of the process.                       *)
(*                                                                         *)
(* A thread runs each critical section on _mutex as one step.  Inside      *)
(* GetConnection it may give the mutex up in _condition.wait: it is then   *)
(* "blocked" until a notify (or a spurious wakeup) makes it "woken", and   *)
(* has to get the mutex back and look at the predicate again.              *)
(***************************************************************************)
EXTENDS Naturals, FiniteSets

CONSTANTS
    Threads,    \* threads that call through the pool
    Stubs,      \* what the constructor is to put into _connections
    None,
    Leaky,      \* TRUE: FriendGrpcClient, which keeps the stub when a call fails
    Partial     \* TRUE: MySQLConPool, which does without what it cannot create

ASSUME PoolAssumption ==
    /\ IsFiniteSet(Threads) /\ IsFiniteSet(Stubs)
    /\ None \notin Stubs
    /\ Leaky \in BOOLEAN /\ Partial \in BOOLEAN

VARIABLES
    pc,         \* thread -> where it is
    stub,       \* thread -> the stub it holds
    idle,       \* _connections; the stubs are interchangeable, so a set
    stop,       \* _b_stop
    leaked      \* number of stubs never created, or destroyed by a failed call

vars == <<pc, stub, idle, stop, leaked>>

Blocked == {t \in Threads : pc[t] = "blocked"}
Woken   == {t \in Threads : pc[t] = "woken"}

(* The constructors: NewStub always succeeds, CreateConnection may not,    *)
(* and is not tried again.                                                 *)
Created == IF Partial THEN SUBSET Stubs ELSE {Stubs}

Init ==
    /\ pc = [t \in Threads |-> "out"]
    /\ stub = [t \in Threads |-> None]
    /\ idle \in Created
    /\ stop = FALSE
    /\ leaked = Cardinality(Stubs) - Cardinality(idle)

(* Mutant: the stub is used and stays in the queue.                        *)
TakeCopy(t) ==
    /\ ~stop
    /\ \E s \in idle : stub' = [stub EXCEPT ![t] = s]
    /\ pc' = [pc EXCEPT ![t] = "calling"]
    /\ UNCHANGED <<idle, stop, leaked>>

(* The predicate of the wait is true and the pool open: take the front.    *)
Take(t) ==
    /\ ~stop
    /\ \E s \in idle :
          /\ idle' = idle \ {s}
          /\ stub' = [stub EXCEPT ![t] = s]
    /\ pc' = [pc EXCEPT ![t] = "calling"]
    /\ UNCHANGED <<stop, leaked>>

(* The predicate is false: release the mutex and sleep.                    *)
Sleep(t) ==
    /\ ~stop /\ idle = {}
    /\ pc' = [pc EXCEPT ![t] = "blocked"]
    /\ UNCHANGED <<stub, idle, stop, leaked>>

(* A stopped pool returns nullptr, which no client tests.                  *)
TakeNull(t) ==
    /\ stop
    /\ pc' = [pc EXCEPT ![t] = "null"]
    /\ UNCHANGED <<stub, idle, stop, leaked>>

GetConnection(t) == pc[t] = "out" /\ (Take(t) \/ Sleep(t) \/ TakeNull(t))

Reacquire(t) == pc[t] = "woken" /\ (Take(t) \/ Sleep(t) \/ TakeNull(t))

SpuriousWakeup(t) ==
    /\ pc[t] = "blocked"
    /\ pc' = [pc EXCEPT ![t] = "woken"]
    /\ UNCHANGED <<stub, idle, stop, leaked>>

(* Mutant: notify only when the queue was empty.                           *)
NotifyIfWasEmpty(p) ==
    IF idle = {} /\ \E t \in Threads : p[t] = "blocked"
    THEN {[p EXCEPT ![t] = "woken"] : t \in {t \in Threads : p[t] = "blocked"}}
    ELSE {p}

(* Mutant: no notify.                                                      *)
NotifyNobody(p) == {p}

(* What notify_one may make of pc.                                         *)
NotifyOne(p) ==
    IF \E t \in Threads : p[t] = "blocked"
    THEN {[p EXCEPT ![t] = "woken"] : t \in {t \in Threads : p[t] = "blocked"}}
    ELSE {p}

(* Mutants: a moved-from pointer is queued; the stub is not queued.        *)
PushedNull(t) == idle \cup {None}
NotPushed(t) == idle

(* _connections.emplace                                                    *)
Pushed(t) == idle \cup {stub[t]}

(* The call on the stub ended and the client hands it back.                *)
ReturnConnection(t) ==
    /\ pc[t] = "calling"
    /\ stub' = [stub EXCEPT ![t] = None]
    /\ \/ /\ stop
          /\ pc' = [pc EXCEPT ![t] = "out"]
          /\ UNCHANGED idle
       \/ /\ ~stop
          /\ idle' = Pushed(t)
          /\ pc' \in NotifyOne([pc EXCEPT ![t] = "out"])
    /\ UNCHANGED <<stop, leaked>>

(* FriendGrpcClient::SendFriend and HandleFriend return on !status.ok()    *)
(* before ReturnConnection: the unique_ptr destroys the stub.              *)
CallFailed(t) ==
    /\ Leaky
    /\ pc[t] = "calling"
    /\ stub' = [stub EXCEPT ![t] = None]
    /\ pc' = [pc EXCEPT ![t] = "out"]
    /\ leaked' = leaked + 1
    /\ UNCHANGED <<idle, stop>>

(* ~GrpcPool: Close under the mutex, then the queue is emptied.            *)
Destroy ==
    /\ ~stop
    /\ stop' = TRUE
    /\ idle' = {}
    /\ pc' = [t \in Threads |-> IF pc[t] = "blocked" THEN "woken" ELSE pc[t]]
    /\ UNCHANGED <<stub, leaked>>

Next ==
    \/ Destroy
    \/ \E t \in Threads :
          \/ GetConnection(t) \/ Reacquire(t) \/ SpuriousWakeup(t)
          \/ ReturnConnection(t) \/ CallFailed(t)

(* The operating system runs a thread that is woken.  A call need not end: *)
(* its ClientContext has no deadline.                                      *)
Fairness == \A t \in Threads : WF_vars(Reacquire(t))

Spec == Init /\ [][Next]_vars /\ Fairness

-----------------------------------------------------------------------------
TypeOK ==
    /\ pc \in [Threads -> {"out", "blocked", "woken", "calling", "null"}]
    /\ stub \in [Threads -> Stubs \cup {None}]
    /\ idle \subseteq Stubs
    /\ stop \in BOOLEAN
    /\ leaked \in Nat

(* Every stub is in the queue, in use, was not created, or was destroyed   *)
(* by a failed call of a leaky client: none is lost otherwise, and none is *)
(* in two places.                                                          *)
StubsConserved ==
    ~stop => Cardinality(idle) + Cardinality({t \in Threads : stub[t] # None}) + leaked
                = Cardinality(Stubs)

(* notify_one is enough: a sleeping thread never faces an idle stub that   *)
(* no awakened thread is on its way to.                                    *)
NoLostWakeup == Blocked # {} => Cardinality(Woken) >= Cardinality(idle)

(* An idle stub and a sleeping thread do not stay beside each other, though *)
(* calls that others have made need never return.                          *)
SleepersAreServed == (idle # {} /\ Blocked # {}) ~> (idle = {} \/ Blocked = {})

(* The monitor does what the abstract pool promises.                       *)
Pool == INSTANCE ResourcePool WITH
            Callers <- Threads, Resources <- Stubs, Nobody <- None,
            free <- idle, using <- stub, open <- ~stop

RefinesPool == Pool!Spec
=============================================================================
