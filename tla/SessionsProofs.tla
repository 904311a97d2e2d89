---------------------------- MODULE SessionsProofs ----------------------------
(***************************************************************************)
(* Proofs about Sessions, for any number of sessions, users and threads.   *)
(***************************************************************************)
EXTENDS Sessions, FiniteSetTheorems, TLAPS

Closing == {"find", "unbind", "erase"}

(* What a thread has at hand at each pc.                                   *)
ThreadOK(t) ==
    /\ pc[t] \in {"push", "pop", "write"} => to[t] \in Connections
    /\ pc[t] = "write" <=> node[t] # None
    /\ pc[t] \in Closing => t \in Connections

ThreadsOK == \A t \in Threads : ThreadOK(t)

TypeInv == TypeOK /\ ThreadsOK

LEMMA TypeInit == Init => TypeInv
<1> SUFFICES ASSUME Init PROVE TypeInv
  OBVIOUS
<1>1. TypeOK
  BY SessionsAssumption DEF Init, TypeOK
<1>2. ThreadsOK
  BY DEF Init, ThreadsOK, ThreadOK, Closing
<1> QED
  BY <1>1, <1>2 DEF TypeInv

LEMMA ConnectionsAreThreads == Connections \subseteq Threads
BY DEF Threads

LEMMA QueueTypes ==
  ASSUME NEW q \in Seq(Messages)
  PROVE  /\ \A m \in Messages : Append(q, m) \in Seq(Messages)
         /\ q # << >> => Tail(q) \in Seq(Messages) /\ Head(q) \in Messages
<1>1. \A m \in Messages : Append(q, m) \in Seq(Messages)
  OBVIOUS
<1>2. q # << >> => Tail(q) \in Seq(Messages) /\ Head(q) \in Messages
  OBVIOUS
<1> QED
  BY <1>1, <1>2

LEMMA TypeStep == TypeInv /\ [Next]_vars => TypeInv'
<1> SUFFICES ASSUME TypeInv, [Next]_vars PROVE TypeInv'
  OBVIOUS
<1> USE ConnectionsAreThreads, SessionsAssumption
        DEF TypeInv, TypeOK, ThreadsOK, ThreadOK, Closing, Goto
<1>1. CASE UNCHANGED vars
  BY <1>1 DEF vars
<1>2. CASE Insert
  BY <1>2 DEF Insert, output
<1>3. ASSUME NEW s \in Connections, Accept(s) PROVE TypeInv'
  BY <1>3 DEF Accept, output
<1>4. ASSUME NEW s \in Connections, Close(s) PROVE TypeInv'
  BY <1>4 DEF Close, output
<1>5. ASSUME NEW s \in Connections, WriteDone(s) PROVE TypeInv'
  BY <1>5 DEF WriteDone, registry
<1>6. ASSUME NEW s \in Connections, WriteFailed(s) PROVE TypeInv'
  <2>1. /\ state' \in [Connections -> {"none", "open", "closed"}]
        /\ pc' = [pc EXCEPT ![s] = "find"] \/ pc' = pc
        /\ pc[s] = "idle"
    <3>1. /\ pc[s] = "idle"
          /\ \/ /\ state' = [state EXCEPT ![s] = "closed"]
                /\ pc' = [pc EXCEPT ![s] = "find"]
             \/ state' = state /\ pc' = pc
      BY <1>6 DEF WriteFailed
    <3>2. [state EXCEPT ![s] = "closed"] \in [Connections -> {"none", "open", "closed"}]
      OBVIOUS
    <3>3. state' \in [Connections -> {"none", "open", "closed"}]
      <4>1. state \in [Connections -> {"none", "open", "closed"}]
        OBVIOUS
      <4>2. state' = [state EXCEPT ![s] = "closed"] \/ state' = state
        BY <3>1, Zenon
      <4> QED
        BY <3>2, <4>1, <4>2, Zenon
    <3>4. pc' = [pc EXCEPT ![s] = "find"] \/ pc' = pc
      BY <3>1
    <3> QED
      BY <3>1, <3>3, <3>4, Zenon
  <2>2. writes' \in [Connections -> SUBSET Messages] /\ done' \subseteq Messages
    BY <1>6 DEF WriteFailed
  <2>3. UNCHANGED <<accepting, sessions, userUid, bound, latest, raced, to, node, queue,
                    messages>>
    BY <1>6 DEF WriteFailed
  <2>4. ThreadsOK'
    BY <2>1, <2>3
  <2>5. pc' \in [Threads -> {"idle", "push", "pop", "write", "find", "unbind", "erase"}]
    <3>1. [pc EXCEPT ![s] = "find"]
            \in [Threads -> {"idle", "push", "pop", "write", "find", "unbind", "erase"}]
      OBVIOUS
    <3> QED
      BY <2>1, <3>1
  <2> QED
    BY <2>1, <2>2, <2>3, <2>4, <2>5
<1>7. ASSUME NEW t \in Threads, Push(t) PROVE TypeInv'
  <2>1. messages' \in Messages /\ messages' \in 0..MaxMessages
    BY <1>7 DEF Push, Messages
  <2>2. to[t] \in Connections
    BY <1>7 DEF Push
  <2>3. queue' \in [Connections -> Seq(Messages)]
    <3>1. Append(queue[to[t]], messages') \in Seq(Messages)
      BY <2>1, <2>2, QueueTypes
    <3> QED
      BY <1>7, <2>2, <3>1 DEF Push
  <2> QED
    BY <1>7, <2>1, <2>3 DEF Push, registry
<1>8. ASSUME NEW t \in Threads, Pop(t) PROVE TypeInv'
  <2>1. to[t] \in Connections
    BY <1>8 DEF Pop
  <2>2. CASE queue[to[t]] # << >>
    <3>1. Tail(queue[to[t]]) \in Seq(Messages) /\ Head(queue[to[t]]) \in Messages
      BY <2>1, <2>2, QueueTypes
    <3>2. /\ node' = [node EXCEPT ![t] = Head(queue[to[t]])]
          /\ queue' = [queue EXCEPT ![to[t]] = Tail(queue[to[t]])]
          /\ pc' = [pc EXCEPT ![t] = "write"]
          /\ UNCHANGED <<registry, to, writes, done, messages>>
      BY <1>8, <2>2 DEF Pop, Taken, Popped
    <3>3. Head(queue[to[t]]) # None
      BY <3>1 DEF Messages
    <3>4. queue' \in [Connections -> Seq(Messages)] /\ node' \in [Threads -> Messages \cup {None}]
      BY <2>1, <3>1, <3>2
    <3>5. ThreadsOK'
      BY <3>2, <3>3, <3>4 DEF registry
    <3> QED
      BY <3>2, <3>4, <3>5 DEF registry
  <2>3. CASE queue[to[t]] = << >>
    <3>1. /\ pc' = [pc EXCEPT ![t] = "idle"]
          /\ UNCHANGED <<registry, to, node, queue, writes, done, messages>>
      BY <1>8, <2>3 DEF Pop, Taken
    <3>2. node[t] = None
      BY <1>8 DEF Pop
    <3> QED
      BY <3>1, <3>2 DEF registry
  <2> QED
    BY <2>2, <2>3
<1>9. ASSUME NEW t \in Threads, StartWrite(t) PROVE TypeInv'
  <2>1. to[t] \in Connections /\ node[t] \in Messages
    BY <1>9 DEF StartWrite
  <2> QED
    BY <1>9, <2>1 DEF StartWrite, registry
<1>10. ASSUME NEW s \in Connections, Find(s) PROVE TypeInv'
  BY <1>10 DEF Find, Lookup, Finds, output
<1>11. ASSUME NEW s \in Connections, Unbind(s) PROVE TypeInv'
  BY <1>11 DEF Unbind, Unbound, output
<1>12. ASSUME NEW s \in Connections, Erase(s) PROVE TypeInv'
  BY <1>12 DEF Erase, Erased, output
<1>13. ASSUME NEW t \in Workers \cup GrpcThreads, NEW u \in Users, Notify(t, u) PROVE TypeInv'
  <2>1. t \in Threads
    BY DEF Threads
  <2> QED
    BY <1>13, <2>1 DEF Notify, registry, output
<1>14. ASSUME NEW t \in Workers \cup GrpcThreads, NEW u \in Users, NEW s \in Connections,
              Login(t, s, u) PROVE TypeInv'
  <2>1. t \in Threads
    BY DEF Threads
  <2>2. /\ userUid' \in [Connections -> Users \cup {None}]
        /\ DOMAIN bound' \subseteq Users /\ bound' \in [DOMAIN bound' -> Connections]
        /\ latest' \in [Users -> Connections \cup {None}]
    BY <1>14 DEF Login
  <2> QED
    BY <1>14, <2>1, <2>2 DEF Login, output
<1> QED
  BY <1>1, <1>2, <1>3, <1>4, <1>5, <1>6, <1>7, <1>8, <1>9, <1>10, <1>11, <1>12, <1>13, <1>14
     DEF Next, ThreadStep

LEMMA TypeInvariant == Spec => []TypeInv
BY TypeInit, TypeStep, PTL DEF Spec

(* The variables of the sessions are well typed.                           *)
THEOREM SessionsTypeCorrect == Spec => []TypeOK
<1>1. TypeInv => TypeOK
  BY DEF TypeInv
<1> QED
  BY TypeInvariant, <1>1, PTL

-----------------------------------------------------------------------------
(* The bindings of users                                                   *)

(* Nothing but a later login changes where a user is bound, whatever the   *)
(* state of the session.                                                   *)
BindingInv == \A u \in Users : latest[u] # None => u \in DOMAIN bound /\ bound[u] = latest[u]

LEMMA BindingStep == TypeInv /\ BindingInv /\ [Next]_vars => BindingInv'
<1> SUFFICES ASSUME TypeInv, BindingInv, [Next]_vars PROVE BindingInv'
  OBVIOUS
<1>1. CASE UNCHANGED <<bound, latest>>
  BY <1>1 DEF BindingInv
<1>2. ASSUME NEW s \in Connections, Unbind(s) PROVE BindingInv'
  <2>1. \A u \in Users : u # s
    BY SessionsAssumption
  <2> QED
    BY <1>2, <2>1 DEF Unbind, Unbound, BindingInv
<1>3. ASSUME NEW t \in Workers \cup GrpcThreads, NEW u \in Users, NEW s \in Connections,
             Login(t, s, u) PROVE BindingInv'
  BY <1>3 DEF Login, BindingInv, TypeInv, TypeOK
<1>4. (\E s \in Connections : Unbind(s))
      \/ (\E t \in Workers \cup GrpcThreads, u \in Users, s \in Connections : Login(t, s, u))
      \/ UNCHANGED <<bound, latest>>
  BY DEF Next, ThreadStep, vars, registry, Insert, Accept, Close, WriteDone, WriteFailed,
         Push, Pop, StartWrite, Find, Erase, Notify
<1> QED
  BY <1>1, <1>2, <1>3, <1>4

(* The session of a user's last login, while it is open, is the one the    *)
(* user is reached through.                                                *)
THEOREM LastLoginWins == Spec => []LatestLoginIsBound
<1>1. Init => BindingInv
  BY DEF Init, BindingInv
<1>2. BindingInv => LatestLoginIsBound
  BY DEF BindingInv, LatestLoginIsBound
<1> QED
  BY TypeInvariant, BindingStep, <1>1, <1>2, PTL DEF Spec

-----------------------------------------------------------------------------
(* The map of sessions                                                     *)

Listed(s) == s \in sessions \/ accepting = s

(* A session is listed, or about to be, from its start to its close; after *)
(* the close only if the search in Close was raced.                        *)
ListOK(s) ==
    /\ state[s] = "none" => ~Listed(s)
    /\ pc[s] \in Closing => state[s] = "closed"
    /\ state[s] = "open" \/ pc[s] = "find" => Listed(s)
    /\ pc[s] \in {"unbind", "erase"} => s \in sessions
    /\ accepting = s => s \notin sessions
    /\ Listed(s) /\ state[s] = "closed" /\ pc[s] \notin Closing => s \in raced

ListInv == \A s \in Connections : ListOK(s)

LEMMA ListInit == Init => ListInv
BY ConnectionsAreThreads, SessionsAssumption DEF Init, ListInv, ListOK, Listed, Closing

LEMMA ListStep == TypeInv /\ ListInv /\ [Next]_vars => ListInv'
<1> SUFFICES ASSUME TypeInv, ListInv, [Next]_vars PROVE ListInv'
  OBVIOUS
<1> USE ConnectionsAreThreads, SessionsAssumption DEF ListInv, ListOK, Listed, Closing, Goto
<1>0. /\ state \in [Connections -> {"none", "open", "closed"}]
      /\ pc \in [Threads -> {"idle", "push", "pop", "write", "find", "unbind", "erase"}]
  BY DEF TypeInv, TypeOK
<1>1. CASE UNCHANGED vars
  BY <1>1 DEF vars
<1>2. CASE Insert
  BY <1>2 DEF Insert, output
<1>3. ASSUME NEW s \in Connections, Accept(s) PROVE ListInv'
  BY <1>0, <1>3 DEF Accept, output
<1>4. ASSUME NEW s \in Connections, Close(s) PROVE ListInv'
  BY <1>0, <1>4 DEF Close, output
<1>5. ASSUME NEW s \in Connections, WriteDone(s) PROVE ListInv'
  BY <1>0, <1>5 DEF WriteDone, registry
<1>6. ASSUME NEW s \in Connections, WriteFailed(s) PROVE ListInv'
  <2>1. \/ /\ state[s] = "open" /\ pc[s] = "idle"
           /\ state' = [state EXCEPT ![s] = "closed"]
           /\ pc' = [pc EXCEPT ![s] = "find"]
        \/ state' = state /\ pc' = pc
    BY <1>6 DEF WriteFailed
  <2>2. UNCHANGED <<accepting, sessions, raced>>
    BY <1>6 DEF WriteFailed
  <2> QED
    BY <1>0, <2>1, <2>2
<1>7. ASSUME NEW t \in Threads, Push(t) \/ Pop(t) \/ StartWrite(t) PROVE ListInv'
  <2>1. /\ pc[t] \notin Closing
        /\ \E where \in {"idle", "pop", "write"} : pc' = [pc EXCEPT ![t] = where]
        /\ UNCHANGED <<state, accepting, sessions, raced>>
    BY <1>7 DEF Push, Pop, StartWrite, registry
  <2> QED
    BY <1>0, <2>1
<1>8. ASSUME NEW s \in Connections, Find(s) PROVE ListInv'
  <2>1. CASE Changing(s)
    BY <1>0, <1>8, <2>1 DEF Find, Lookup, Finds, output
  <2>2. CASE ~Changing(s)
    BY <1>0, <1>8, <2>2 DEF Find, Lookup, Finds, Changing, output
  <2> QED
    BY <2>1, <2>2
<1>9. ASSUME NEW s \in Connections, Unbind(s) PROVE ListInv'
  BY <1>0, <1>9 DEF Unbind, output
<1>10. ASSUME NEW s \in Connections, Erase(s) PROVE ListInv'
  BY <1>0, <1>10 DEF Erase, Erased, output
<1>11. ASSUME NEW t \in Workers \cup GrpcThreads, NEW u \in Users, Notify(t, u) PROVE ListInv'
  <2>1. t \in Threads /\ t \notin Connections
    BY DEF Threads
  <2> QED
    BY <1>0, <1>11, <2>1 DEF Notify, registry
<1>12. ASSUME NEW t \in Workers \cup GrpcThreads, NEW u \in Users, NEW s \in Connections,
              Login(t, s, u) PROVE ListInv'
  <2>1. t \in Threads /\ t \notin Connections
    BY DEF Threads
  <2> QED
    BY <1>0, <1>12, <2>1 DEF Login
<1> QED
  BY <1>1, <1>2, <1>3, <1>4, <1>5, <1>6, <1>7, <1>8, <1>9, <1>10, <1>11, <1>12
     DEF Next, ThreadStep

(* A closed session that stays in _sessions was closed beside a change of  *)
(* the map.                                                                *)
THEOREM ClosedSessionsLeave == Spec => []OnlyRacedStay
<1>1. TypeInv /\ ListInv => OnlyRacedStay
  BY DEF TypeInv, TypeOK, ListInv, ListOK, Listed, Closing, OnlyRacedStay
<1> QED
  BY TypeInvariant, ListInit, ListStep, <1>1, PTL DEF Spec

-----------------------------------------------------------------------------
(* The send queues                                                         *)

Takers(s) == {t \in Threads : pc[t] = "pop" /\ to[t] = s}

LEMMA TakersFinite ==
  /\ IsFiniteSet(Threads)
  /\ \A s : IsFiniteSet(Takers(s)) /\ Cardinality(Takers(s)) \in Nat
<1>1. IsFiniteSet(Threads)
  BY SessionsAssumption, FS_Union DEF Threads
<1>2. \A s : Takers(s) \subseteq Threads
  BY DEF Takers
<1> QED
  BY <1>1, <1>2, FS_Subset, FS_CardinalityType

(* One thread that comes to take: one taker more.                          *)
LEMMA TakerComes ==
  ASSUME NEW S, IsFiniteSet(S), NEW t, t \notin S
  PROVE  Cardinality(S \cup {t}) = Cardinality(S) + 1
BY FS_AddElement

LEMMA TakerGoes ==
  ASSUME NEW S, IsFiniteSet(S), NEW t \in S
  PROVE  Cardinality(S \ {t}) = Cardinality(S) - 1
BY FS_RemoveElement

LEMMA QueueStep == TypeInv /\ QueueHasTakers /\ [Next]_vars => QueueHasTakers'
<1> SUFFICES ASSUME TypeInv, QueueHasTakers, [Next]_vars,
                    NEW s \in Connections
             PROVE  Len(queue'[s]) <= Cardinality(Takers(s)')
  BY DEF QueueHasTakers, Takers
<1>0. /\ pc \in [Threads -> {"idle", "push", "pop", "write", "find", "unbind", "erase"}]
      /\ to \in [Threads -> Connections \cup {None}]
      /\ queue \in [Connections -> Seq(Messages)]
  BY DEF TypeInv, TypeOK
<1>a. Len(queue[s]) <= Cardinality(Takers(s))
  BY DEF QueueHasTakers, Takers
<1>b. IsFiniteSet(Takers(s)) /\ Cardinality(Takers(s)) \in Nat /\ Len(queue[s]) \in Nat
  BY <1>0, TakersFinite
<1>1. CASE queue' = queue /\ Takers(s)' = Takers(s)
  BY <1>1, <1>a
<1>2. ASSUME NEW t \in Threads, t \notin Takers(s), queue' = queue,
             Takers(s)' = Takers(s) \cup {t}
      PROVE  Len(queue'[s]) <= Cardinality(Takers(s)')
  BY <1>2, <1>a, <1>b, TakerComes
<1>3. ASSUME NEW t \in Threads, Push(t)
      PROVE  Len(queue'[s]) <= Cardinality(Takers(s)')
  <2>1. to[t] \in Connections /\ t \notin Takers(s)
    BY <1>3 DEF Push, Takers, TypeInv, ThreadsOK, ThreadOK
  <2>2. CASE to[t] = s
    <3>1. Takers(s)' = Takers(s) \cup {t}
      BY <1>0, <1>3, <2>2 DEF Push, Takers, Goto
    <3>2. queue'[s] = Append(queue[s], messages')
      BY <1>0, <1>3, <2>2 DEF Push
    <3>3. Len(queue'[s]) = Len(queue[s]) + 1
      BY <1>0, <3>2
    <3> QED
      BY <1>a, <1>b, <2>1, <3>1, <3>3, TakerComes
  <2>3. CASE to[t] # s
    <3>1. Takers(s)' = Takers(s)
      BY <1>0, <1>3, <2>1, <2>3 DEF Push, Takers, Goto
    <3>2. queue'[s] = queue[s]
      BY <1>0, <1>3, <2>1, <2>3 DEF Push
    <3> QED
      BY <1>a, <3>1, <3>2
  <2> QED
    BY <2>2, <2>3
<1>4. ASSUME NEW t \in Threads, Pop(t)
      PROVE  Len(queue'[s]) <= Cardinality(Takers(s)')
  <2>1. to[t] \in Connections
    BY <1>4 DEF Pop, TypeInv, ThreadsOK, ThreadOK
  <2>2. /\ \E where \in {"idle", "write"} : pc' = [pc EXCEPT ![t] = where]
        /\ to' = to
    BY <1>4 DEF Pop, Goto
  <2>3. CASE to[t] = s
    <3>1. t \in Takers(s) /\ Takers(s)' = Takers(s) \ {t}
      BY <1>0, <1>4, <2>2, <2>3 DEF Pop, Takers
    <3>2. CASE queue[s] = << >>
      <4>1. queue' = queue
        BY <1>4, <2>3, <3>2 DEF Pop, Taken
      <4>2. Len(queue'[s]) = 0
        BY <3>2, <4>1
      <4>3. Cardinality(Takers(s)') \in Nat
        BY <1>b, <3>1, FS_RemoveElement, FS_CardinalityType
      <4> QED
        BY <4>2, <4>3
    <3>3. CASE queue[s] # << >>
      <4>1. queue'[s] = Tail(queue[s])
        BY <1>0, <1>4, <2>3, <3>3 DEF Pop, Taken, Popped
      <4>2. Len(queue'[s]) = Len(queue[s]) - 1
        BY <1>0, <3>3, <4>1
      <4> QED
        BY <1>a, <1>b, <3>1, <4>2, TakerGoes
    <3> QED
      BY <3>2, <3>3
  <2>4. CASE to[t] # s
    <3>1. Takers(s)' = Takers(s)
      BY <1>0, <2>2, <2>4 DEF Takers
    <3>2. queue'[s] = queue[s]
      BY <1>0, <1>4, <2>1, <2>4 DEF Pop
    <3> QED
      BY <1>a, <3>1, <3>2
  <2> QED
    BY <2>3, <2>4
<1>5. ASSUME NEW r \in Connections, WriteDone(r)
      PROVE  Len(queue'[s]) <= Cardinality(Takers(s)')
  <2>1. /\ pc[r] = "idle" /\ pc' = [pc EXCEPT ![r] = "pop"]
        /\ to' = [to EXCEPT ![r] = r] /\ queue' = queue
        /\ r \in Threads
    BY <1>5, ConnectionsAreThreads DEF WriteDone, Goto
  <2>2. CASE r = s
    <3>1. r \notin Takers(s) /\ Takers(s)' = Takers(s) \cup {r}
      BY <1>0, <2>1, <2>2 DEF Takers
    <3> QED
      BY <1>2, <2>1, <3>1
  <2>3. CASE r # s
    <3>1. Takers(s)' = Takers(s)
      BY <1>0, <2>1, <2>3 DEF Takers
    <3> QED
      BY <1>1, <2>1, <3>1
  <2> QED
    BY <2>2, <2>3
<1>6. ASSUME NEW t \in Threads, pc[t] # "pop", queue' = queue,
             \E where \in {"idle", "push", "find", "unbind", "erase"} :
                 pc' = [pc EXCEPT ![t] = where],
             \A r \in Threads \ {t} : to'[r] = to[r]
      PROVE  Len(queue'[s]) <= Cardinality(Takers(s)')
  <2>1. Takers(s)' = Takers(s)
    BY <1>0, <1>6 DEF Takers
  <2> QED
    BY <1>1, <1>6, <2>1
<1>7. CASE UNCHANGED <<queue, pc, to>>
  <2>1. Takers(s)' = Takers(s)
    BY <1>7 DEF Takers
  <2> QED
    BY <1>1, <1>7, <2>1
<1>8. ASSUME NEW t \in Threads, StartWrite(t)
      PROVE  Len(queue'[s]) <= Cardinality(Takers(s)')
  <2>1. /\ pc[t] # "pop" /\ pc' = [pc EXCEPT ![t] = "idle"]
        /\ to' = to /\ queue' = queue
    BY <1>8 DEF StartWrite, Goto
  <2> QED
    BY <1>6, <2>1
<1>9. ASSUME NEW r \in Connections, Close(r) \/ Find(r) \/ Unbind(r) \/ Erase(r)
      PROVE  Len(queue'[s]) <= Cardinality(Takers(s)')
  <2>1. /\ r \in Threads /\ pc[r] # "pop"
        /\ \E where \in {"idle", "find", "unbind", "erase"} : pc' = [pc EXCEPT ![r] = where]
        /\ to' = to /\ queue' = queue
    BY <1>9, ConnectionsAreThreads DEF Close, Find, Unbind, Erase, Goto, output
  <2> QED
    BY <1>6, <2>1
<1>10. ASSUME NEW r \in Connections, WriteFailed(r)
       PROVE  Len(queue'[s]) <= Cardinality(Takers(s)')
  <2>1. /\ r \in Threads /\ pc[r] # "pop" /\ to' = to /\ queue' = queue
        /\ pc' = [pc EXCEPT ![r] = "find"] \/ pc' = pc
    BY <1>10, ConnectionsAreThreads DEF WriteFailed, Goto
  <2> QED
    BY <1>6, <1>7, <2>1
<1>11. ASSUME NEW t \in Workers \cup GrpcThreads, NEW u \in Users,
              Notify(t, u) \/ \E r \in Connections : Login(t, r, u)
       PROVE  Len(queue'[s]) <= Cardinality(Takers(s)')
  <2>1. t \in Threads
    BY DEF Threads
  <2>2. \E r : to' = [to EXCEPT ![t] = r]
    BY <1>11 DEF Notify, Login
  <2>3. /\ pc[t] # "pop" /\ pc' = [pc EXCEPT ![t] = "push"] /\ queue' = queue
    BY <1>11 DEF Notify, Login, Goto, output
  <2>4. \A r \in Threads \ {t} : to'[r] = to[r]
    BY <1>0, <2>2
  <2> QED
    BY <1>6, <2>1, <2>3, <2>4
<1>12. CASE Insert \/ (\E r \in Connections : Accept(r)) \/ UNCHANGED vars
  BY <1>7, <1>12 DEF Insert, Accept, vars, output
<1> QED
  BY <1>3, <1>4, <1>5, <1>8, <1>9, <1>10, <1>11, <1>12 DEF Next, ThreadStep

(* No message is left in a queue without a thread that is about to take    *)
(* one from it.                                                            *)
THEOREM QueuesAreServed == Spec => []QueueHasTakers
<1>1. Init => QueueHasTakers
  <2> SUFFICES ASSUME Init, NEW s \in Connections
               PROVE  Len(queue[s]) <= Cardinality(Takers(s))
    BY DEF QueueHasTakers, Takers
  <2>1. Len(queue[s]) = 0
    BY DEF Init
  <2> QED
    BY <2>1, TakersFinite
<1> QED
  BY TypeInvariant, QueueStep, <1>1, PTL DEF Spec

-----------------------------------------------------------------------------
(* The messages                                                            *)

Held(t) == node[t] # None

(* Nor is a message in two queues, hands or writes, or twice in one queue. *)
QueuesApart ==
    \A s, r \in Connections : \A i \in 1..Len(queue[s]), j \in 1..Len(queue[r]) :
        queue[s][i] = queue[r][j] => s = r /\ i = j
HandsApart == \A t, r \in Threads : Held(t) /\ node[t] = node[r] => t = r
WritesApart == \A s, r \in Connections : s # r => writes[s] \cap writes[r] = {}

OnceInv == EachMessageOnce /\ QueuesApart /\ HandsApart /\ WritesApart

LEMMA InQueuesDef ==
  \A m : m \in InQueues <=> \E s \in Connections : \E i \in 1..Len(queue[s]) : m = queue[s][i]
BY DEF InQueues

LEMMA InWritesDef == \A m : m \in InWrites <=> \E s \in Connections : m \in writes[s]
BY DEF InWrites

LEMMA InHandsDef == \A m : m \in InHands <=> \E t \in Threads : Held(t) /\ m = node[t]
BY DEF InHands, Held

LEMMA OnceInit == Init => OnceInv
<1> SUFFICES ASSUME Init PROVE OnceInv
  OBVIOUS
<1>1. InQueues = {} /\ InHands = {} /\ InWrites = {} /\ done = {} /\ 1..messages = {}
  BY InQueuesDef, InHandsDef, InWritesDef DEF Init, Held
<1>2. QueuesApart /\ HandsApart /\ WritesApart
  BY DEF Init, QueuesApart, HandsApart, WritesApart, Held
<1> QED
  BY <1>1, <1>2 DEF OnceInv, EachMessageOnce

(* A new message is at the end of a queue.                                 *)
LEMMA OncePush ==
  ASSUME TypeInv, OnceInv, NEW t \in Threads, Push(t)
  PROVE  OnceInv'
<1> DEFINE s == to[t]
           m == messages + 1
<1>1. /\ s \in Connections /\ queue[s] \in Seq(Messages) /\ Len(queue[s]) \in Nat
      /\ \A r \in Connections : queue[r] \in Seq(Messages)
      /\ messages \in Nat
  BY DEF Push, TypeInv, TypeOK, ThreadsOK, ThreadOK
<1>2. /\ queue' = [queue EXCEPT ![s] = Append(@, m)]
      /\ messages' = m /\ UNCHANGED <<node, writes, done>>
  BY DEF Push
<1>3. /\ queue'[s] = Append(queue[s], m)
      /\ \A r \in Connections \ {s} : queue'[r] = queue[r]
  BY <1>1, <1>2 DEF TypeInv, TypeOK
<1>4. /\ Len(queue'[s]) = Len(queue[s]) + 1 /\ queue'[s][Len(queue[s]) + 1] = m
      /\ \A i \in 1..Len(queue[s]) : queue'[s][i] = queue[s][i]
  BY <1>1, <1>3
<1>5. m \notin 1..messages /\ 1..messages' = 1..messages \cup {m}
  BY <1>1, <1>2
<1>6. m \notin InQueues \cup InHands \cup InWrites \cup done
  BY <1>5 DEF OnceInv, EachMessageOnce
<1>7. InQueues' = InQueues \cup {m}
  <2>1. \A x : x \in InQueues' <=>
          \E r \in Connections : \E i \in 1..Len(queue'[r]) : x = queue'[r][i]
    BY DEF InQueues
  <2>2. ASSUME NEW x \in InQueues' PROVE x \in InQueues \cup {m}
    <3>0. PICK r \in Connections : \E i \in 1..Len(queue'[r]) : x = queue'[r][i]
      BY <2>1, <2>2
    <3>1. PICK i \in 1..Len(queue'[r]) : x = queue'[r][i]
      BY <3>0
    <3>2. CASE r # s
      BY <1>3, <3>1, <3>2, InQueuesDef
    <3>3. CASE r = s /\ i = Len(queue[s]) + 1
      BY <1>4, <3>1, <3>3
    <3>4. CASE r = s /\ i \in 1..Len(queue[s])
      BY <1>4, <3>1, <3>4, InQueuesDef
    <3> QED
      BY <1>1, <1>4, <3>1, <3>2, <3>3, <3>4
  <2>3. ASSUME NEW x \in InQueues PROVE x \in InQueues'
    <3>0. PICK r \in Connections : \E i \in 1..Len(queue[r]) : x = queue[r][i]
      BY <2>3, InQueuesDef
    <3>1. PICK i \in 1..Len(queue[r]) : x = queue[r][i]
      BY <3>0
    <3>2. CASE r # s
      BY <1>3, <2>1, <3>1, <3>2
    <3>3. CASE r = s
      <4>1. i \in 1..Len(queue'[s]) /\ x = queue'[s][i]
        BY <1>1, <1>4, <3>1, <3>3
      <4> QED
        BY <1>1, <2>1, <4>1
    <3> QED
      BY <3>2, <3>3
  <2>4. m \in InQueues'
    BY <1>1, <1>4, <2>1
  <2> QED
    BY <2>2, <2>3, <2>4
<1>8. InHands' = InHands /\ InWrites' = InWrites
  BY <1>2 DEF InHands, InWrites
<1>9. EachMessageOnce'
  BY <1>2, <1>5, <1>6, <1>7, <1>8 DEF OnceInv, EachMessageOnce
<1>10. QueuesApart'
  <2> SUFFICES ASSUME NEW r1 \in Connections, NEW r2 \in Connections,
                      NEW i \in 1..Len(queue'[r1]), NEW j \in 1..Len(queue'[r2]),
                      queue'[r1][i] = queue'[r2][j]
               PROVE  r1 = r2 /\ i = j
    BY DEF QueuesApart
  <2>1. ASSUME NEW r \in Connections, NEW k \in 1..Len(queue'[r])
        PROVE  \/ queue'[r][k] = m /\ r = s /\ k = Len(queue[s]) + 1
               \/ k \in 1..Len(queue[r]) /\ queue'[r][k] = queue[r][k] /\ queue[r][k] # m
    <3>1. CASE r = s /\ k = Len(queue[s]) + 1
      BY <1>4, <3>1
    <3>2. CASE ~(r = s /\ k = Len(queue[s]) + 1)
      <4>1. k \in 1..Len(queue[r]) /\ queue'[r][k] = queue[r][k]
        <5>1. CASE r # s
          BY <1>3, <2>1, <5>1
        <5>2. CASE r = s
          <6>1. k \in 1..Len(queue'[s]) /\ k # Len(queue[s]) + 1
            BY <2>1, <3>2, <5>2
          <6>2. k \in 1..Len(queue[s])
            BY <1>1, <1>4, <6>1
          <6> QED
            BY <1>4, <5>2, <6>2
        <5> QED
          BY <5>1, <5>2
      <4> QED
        BY <1>6, <4>1, InQueuesDef
    <3> QED
      BY <3>1, <3>2
  <2> QED
    BY <2>1 DEF OnceInv, QueuesApart
<1> QED
  BY <1>2, <1>9, <1>10 DEF OnceInv, HandsApart, WritesApart, Held

(* The front of a queue goes into the hands of a thread that holds nothing. *)
LEMMA OnceTake ==
  ASSUME TypeInv, OnceInv, NEW t \in Threads, Pop(t), Taken(to[t])
  PROVE  OnceInv'
<1> DEFINE s == to[t]
           m == Head(queue[s])
<1>1. /\ s \in Connections /\ queue[s] \in Seq(Messages) /\ queue[s] # << >>
      /\ \A r \in Connections : queue[r] \in Seq(Messages)
      /\ node \in [Threads -> Messages \cup {None}] /\ node[t] = None
  BY DEF Pop, TypeInv, TypeOK, ThreadsOK, ThreadOK, Taken
<1>2. /\ queue' = [queue EXCEPT ![s] = Tail(@)]
      /\ node' = [node EXCEPT ![t] = m] /\ UNCHANGED <<writes, done, messages>>
  BY DEF Pop, Popped
<1>3. /\ queue'[s] = Tail(queue[s])
      /\ \A r \in Connections \ {s} : queue'[r] = queue[r]
  BY <1>1, <1>2 DEF TypeInv, TypeOK
<1>4. /\ Len(queue[s]) \in Nat /\ Len(queue[s]) > 0 /\ Len(queue'[s]) = Len(queue[s]) - 1
      /\ m = queue[s][1] /\ m \in Messages
      /\ \A i \in 1..Len(queue'[s]) : queue'[s][i] = queue[s][i + 1]
  BY <1>1, <1>3
<1>5. m \in InQueues /\ m # None
  <2>1. 1 \in 1..Len(queue[s])
    BY <1>4
  <2>2. m # None
    BY <1>4, SessionsAssumption DEF Messages
  <2> QED
    BY <1>1, <1>4, <2>1, <2>2, InQueuesDef
<1>6. ASSUME NEW r \in Connections, NEW k \in 1..Len(queue'[r])
      PROVE  \E i \in 1..Len(queue[r]) :
                /\ queue'[r][k] = queue[r][i] /\ queue[r][i] # m
                /\ i = (IF r = s THEN k + 1 ELSE k)
  <2>1. CASE r = s
    <3>1. k + 1 \in 1..Len(queue[s]) /\ k + 1 # 1 /\ 1 \in 1..Len(queue[s])
      BY <1>4, <2>1
    <3>2. queue[s][k + 1] # m
      BY <1>1, <1>4, <3>1 DEF OnceInv, QueuesApart
    <3> QED
      BY <1>4, <2>1, <3>1, <3>2
  <2>2. CASE r # s
    <3>1. queue'[r] = queue[r] /\ 1 \in 1..Len(queue[s])
      BY <1>3, <1>4, <2>2
    <3>2. queue[r][k] # m
      BY <1>1, <1>4, <2>2, <3>1 DEF OnceInv, QueuesApart
    <3> QED
      BY <2>2, <3>1, <3>2
  <2> QED
    BY <2>1, <2>2
<1>7. InQueues' = InQueues \ {m}
  <2>1. \A x : x \in InQueues' <=>
          \E r \in Connections : \E i \in 1..Len(queue'[r]) : x = queue'[r][i]
    BY DEF InQueues
  <2>2. ASSUME NEW x \in InQueues' PROVE x \in InQueues \ {m}
    <3>0. PICK r \in Connections : \E k \in 1..Len(queue'[r]) : x = queue'[r][k]
      BY <2>1, <2>2
    <3>1. PICK k \in 1..Len(queue'[r]) : x = queue'[r][k]
      BY <3>0
    <3>2. PICK i \in 1..Len(queue[r]) : queue'[r][k] = queue[r][i] /\ queue[r][i] # m
      BY <1>6
    <3> QED
      BY <3>1, <3>2, InQueuesDef
  <2>3. ASSUME NEW x \in InQueues, x # m PROVE x \in InQueues'
    <3>0. PICK r \in Connections : \E i \in 1..Len(queue[r]) : x = queue[r][i]
      BY <2>3, InQueuesDef
    <3>1. PICK i \in 1..Len(queue[r]) : x = queue[r][i]
      BY <3>0
    <3>2. CASE r # s
      BY <1>3, <2>1, <3>1, <3>2
    <3>3. CASE r = s
      <4>1. i # 1 /\ i - 1 \in 1..Len(queue'[s]) /\ (i - 1) + 1 = i
        BY <1>4, <2>3, <3>1, <3>3
      <4>2. queue'[s][i - 1] = x
        BY <1>4, <3>1, <3>3, <4>1
      <4> QED
        BY <1>1, <2>1, <4>1, <4>2
    <3> QED
      BY <3>2, <3>3
  <2> QED
    BY <2>2, <2>3
<1>8. /\ \A r \in Threads \ {t} : node'[r] = node[r]
      /\ node'[t] = m
  BY <1>1, <1>2
<1>9. InHands' = InHands \cup {m} /\ InWrites' = InWrites
  <2>1. \A x : x \in InHands' <=> \E r \in Threads : node'[r] # None /\ x = node'[r]
    BY DEF InHands
  <2>2. InHands' = InHands \cup {m}
    BY <1>1, <1>5, <1>8, <2>1, InHandsDef DEF Held
  <2> QED
    BY <1>2, <2>2 DEF InWrites
<1>10. EachMessageOnce'
  BY <1>2, <1>5, <1>7, <1>9 DEF OnceInv, EachMessageOnce
<1>11. QueuesApart'
  <2> SUFFICES ASSUME NEW r1 \in Connections, NEW r2 \in Connections,
                      NEW i \in 1..Len(queue'[r1]), NEW j \in 1..Len(queue'[r2]),
                      queue'[r1][i] = queue'[r2][j]
               PROVE  r1 = r2 /\ i = j
    BY DEF QueuesApart
  <2>1. PICK k \in 1..Len(queue[r1]) :
           queue'[r1][i] = queue[r1][k] /\ k = (IF r1 = s THEN i + 1 ELSE i)
    BY <1>6
  <2>2. PICK l \in 1..Len(queue[r2]) :
           queue'[r2][j] = queue[r2][l] /\ l = (IF r2 = s THEN j + 1 ELSE j)
    BY <1>6
  <2>3. queue[r1][k] = queue[r2][l]
    BY <2>1, <2>2
  <2>4. r1 = r2 /\ k = l
    BY <2>3 DEF OnceInv, QueuesApart
  <2>5. i \in Nat /\ j \in Nat
    OBVIOUS
  <2> QED
    BY <2>1, <2>2, <2>4, <2>5
<1>12. HandsApart'
  <2>1. m \notin InHands
    BY <1>5 DEF OnceInv, EachMessageOnce
  <2> QED
    BY <1>5, <1>8, <2>1, InHandsDef DEF OnceInv, HandsApart, Held
<1> QED
  BY <1>2, <1>10, <1>11, <1>12 DEF OnceInv, WritesApart

LEMMA OnceStartWrite ==
  ASSUME TypeInv, OnceInv, NEW t \in Threads, StartWrite(t)
  PROVE  OnceInv'
<1> DEFINE s == to[t]
           m == node[t]
<1>1. /\ s \in Connections /\ Held(t)
      /\ node \in [Threads -> Messages \cup {None}]
      /\ writes \in [Connections -> SUBSET Messages]
  BY DEF StartWrite, TypeInv, TypeOK, ThreadsOK, ThreadOK, Held
<1>2. /\ writes'[s] = writes[s] \cup {m}
      /\ \A r \in Connections \ {s} : writes'[r] = writes[r]
      /\ node'[t] = None /\ \A r \in Threads \ {t} : node'[r] = node[r]
      /\ UNCHANGED <<queue, done, messages>>
  BY <1>1 DEF StartWrite
<1>3. m \in InHands
  BY <1>1, InHandsDef
<1>4. InHands' = InHands \ {m}
  <2>1. \A x : x \in InHands' <=> \E r \in Threads : node'[r] # None /\ x = node'[r]
    BY DEF InHands
  <2>2. \A x : x \in InHands' <=> \E r \in Threads \ {t} : Held(r) /\ x = node[r]
    BY <1>2, <2>1 DEF Held
  <2>3. \A r \in Threads \ {t} : Held(r) => node[r] # m
    BY <1>1 DEF OnceInv, HandsApart
  <2>4. \A x : x \in InHands \ {m} <=> \E r \in Threads \ {t} : Held(r) /\ x = node[r]
    BY <2>3, InHandsDef
  <2> QED
    BY <2>2, <2>4
<1>5. InWrites' = InWrites \cup {m}
  <2>1. \A x : x \in InWrites' <=> \E r \in Connections : x \in writes'[r]
    BY DEF InWrites
  <2> QED
    BY <1>1, <1>2, <2>1, InWritesDef
<1>6. InQueues' = InQueues
  BY <1>2 DEF InQueues
<1>7. EachMessageOnce'
  BY <1>2, <1>3, <1>4, <1>5, <1>6 DEF OnceInv, EachMessageOnce
<1>8. HandsApart'
  BY <1>2 DEF OnceInv, HandsApart, Held
<1>9. WritesApart'
  <2>1. \A r \in Connections : m \notin writes[r]
    BY <1>3, InWritesDef DEF OnceInv, EachMessageOnce
  <2> QED
    BY <1>2, <2>1 DEF OnceInv, WritesApart
<1> QED
  BY <1>2, <1>7, <1>8, <1>9 DEF OnceInv, QueuesApart

(* A write is over, one way or the other.                                  *)
LEMMA OnceWritten ==
  ASSUME TypeInv, OnceInv, NEW s \in Connections, NEW m \in writes[s],
         writes' = [writes EXCEPT ![s] = @ \ {m}], done' = done \cup {m},
         UNCHANGED <<node, queue, messages>>
  PROVE  OnceInv'
<1>1. /\ writes'[s] = writes[s] \ {m}
      /\ \A r \in Connections \ {s} : writes'[r] = writes[r] /\ m \notin writes[r]
  BY DEF TypeInv, TypeOK, OnceInv, WritesApart
<1>2. m \in InWrites
  BY InWritesDef
<1>3. InWrites' = InWrites \ {m}
  <2>1. \A x : x \in InWrites' <=> \E r \in Connections : x \in writes'[r]
    BY DEF InWrites
  <2> QED
    BY <1>1, <2>1, InWritesDef
<1>4. InQueues' = InQueues /\ InHands' = InHands
  BY DEF InQueues, InHands
<1>5. EachMessageOnce'
  BY <1>2, <1>3, <1>4 DEF OnceInv, EachMessageOnce
<1>6. WritesApart'
  BY <1>1 DEF OnceInv, WritesApart
<1> QED
  BY <1>5, <1>6 DEF OnceInv, QueuesApart, HandsApart, Held

LEMMA OnceStep == TypeInv /\ OnceInv /\ [Next]_vars => OnceInv'
<1> SUFFICES ASSUME TypeInv, OnceInv, [Next]_vars PROVE OnceInv'
  OBVIOUS
<1>1. CASE UNCHANGED output
  <2>1. InQueues' = InQueues /\ InHands' = InHands /\ InWrites' = InWrites
    BY <1>1 DEF output, InQueues, InHands, InWrites
  <2>2. EachMessageOnce'
    BY <1>1, <2>1 DEF output, OnceInv, EachMessageOnce
  <2>3. QueuesApart'
    BY <1>1 DEF output, OnceInv, QueuesApart
  <2>4. HandsApart' /\ WritesApart'
    BY <1>1 DEF output, OnceInv, HandsApart, WritesApart, Held
  <2> QED
    BY <2>2, <2>3, <2>4 DEF OnceInv
<1>2. ASSUME NEW t \in Threads, Push(t) PROVE OnceInv'
  BY <1>2, OncePush
<1>3. ASSUME NEW t \in Threads, Pop(t) PROVE OnceInv'
  <2>1. CASE Taken(to[t])
    BY <1>3, <2>1, OnceTake
  <2>2. CASE ~Taken(to[t])
    BY <1>1, <1>3, <2>2 DEF Pop, output
  <2> QED
    BY <2>1, <2>2
<1>4. ASSUME NEW t \in Threads, StartWrite(t) PROVE OnceInv'
  BY <1>4, OnceStartWrite
<1>5. ASSUME NEW s \in Connections, WriteDone(s) \/ WriteFailed(s) PROVE OnceInv'
  <2>1. /\ \E m \in writes[s] : writes' = [writes EXCEPT ![s] = @ \ {m}] /\ done' = done \cup {m}
        /\ UNCHANGED <<node, queue, messages>>
    BY <1>5 DEF WriteDone, WriteFailed
  <2> QED
    BY <2>1, OnceWritten
<1>6. \/ UNCHANGED output
      \/ \E t \in Threads : Push(t) \/ Pop(t) \/ StartWrite(t)
      \/ \E s \in Connections : WriteDone(s) \/ WriteFailed(s)
  BY DEF Next, ThreadStep, vars, output, Insert, Accept, Close, Find, Unbind, Erase,
         Notify, Login
<1> QED
  BY <1>1, <1>2, <1>3, <1>4, <1>5, <1>6

(* However many threads push to a session and take from its queue, a       *)
(* message is sent once and none is lost on the way (CSession::Send and    *)
(* handleWrite).                                                           *)
THEOREM MessagesAreSentOnce == Spec => []EachMessageOnce
<1>1. OnceInv => EachMessageOnce
  BY DEF OnceInv
<1> QED
  BY TypeInvariant, OnceInit, OnceStep, <1>1, PTL DEF Spec
=============================================================================
