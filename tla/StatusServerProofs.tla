-------------------------- MODULE StatusServerProofs --------------------------
(***************************************************************************)
(* Proofs about StatusServer for every value of its constants.             *)
(***************************************************************************)
EXTENDS StatusServer, FiniteSetTheorems, TLAPS

(* What a handler has in its local variables at each pc.                   *)
CallOK(c) ==
    /\ c \in Call
    /\ c.pc = "idle" => c = Idle
    /\ c.pc \notin {"idle", "setKey", "delKey"} => c.uid # None
    /\ c.pc \in {"setKey", "delKey"} => c.name # None
    /\ c.pc \in {"assign", "persist"} <=> c.node # None
    /\ c.pc \in {"sticky", "offlineDecr", "offlineWrite"} => c.seen # None
    /\ c.pc \in {"onlineRead", "onlineWrite"} => c.req # None

(* Every object a handler refers to is still allocated.                    *)
CallsOK ==
    /\ call = [t \in Threads |-> call[t]]
    /\ \A t \in Threads :
        CallOK(call[t]) /\ (call[t].node # None => heap[call[t].node] # None)

(* So is every object the registry refers to.                              *)
RegistryOK ==
    /\ rrIndex \in Nat
    /\ Registered \subseteq Names /\ nodes \in [Registered -> Objs]
    /\ heap \in [Objs -> NodeInfo \cup {None}]
    /\ nodeList = Rebuilt(nodes)
    /\ \A n \in Registered : heap[nodes[n]] # None

StoreOK ==
    /\ now \in Nat /\ faults \in Nat /\ rpcs \in Nat
    /\ route \in [Users -> Route \cup {None}]
    /\ nodeLoad \in [Names -> Int]
    /\ nodeKeys \subseteq Names
    /\ kicks \subseteq [uid : Users, addr : Addrs]
    /\ answer \in [Users -> Answer \cup {None}]

TypeInv == CallsOK /\ RegistryOK /\ StoreOK

LEMMA IdleOK == CallOK(Idle) /\ Idle.node = None
BY DEF Idle, Call, CallOK

LEMMA TypeInit == Init => TypeInv
<1> SUFFICES ASSUME Init PROVE TypeInv
  OBVIOUS
<1>1. CallsOK
  BY IdleOK DEF Init, CallsOK
<1>2. RegistryOK
  BY DEF Init, RegistryOK, Registered, Rebuilt
<1>3. StoreOK
  BY DEF Init, StoreOK
<1> QED
  BY <1>1, <1>2, <1>3 DEF TypeInv

LEMMA RouteToType ==
  ASSUME RegistryOK, NEW o \in Objs, heap[o] # None, NEW u \in Users
  PROVE  RouteTo(u, o) \in Route
BY DEF RegistryOK, RouteTo, TokenFor, Route, Token, NodeInfo

(* A step of one handler that leaves the registry alone.                   *)
LEMMA CallStep ==
  ASSUME TypeInv, NEW t \in Threads, UNCHANGED registry, CallOK(call'[t]),
         call'[t].node # None => heap[call'[t].node] # None,
         call' = [call EXCEPT ![t] = call'[t]]
  PROVE  CallsOK' /\ RegistryOK'
<1>1. heap' = heap /\ nodes' = nodes /\ nodeList' = nodeList /\ rrIndex' = rrIndex
  BY DEF registry
<1>2. RegistryOK'
  BY <1>1 DEF TypeInv, RegistryOK, Registered, Rebuilt
<1>3. CallsOK'
  BY <1>1 DEF TypeInv, CallsOK
<1> QED
  BY <1>2, <1>3

(* Collecting what nothing refers to.                                      *)
LEMMA CollectKeeps ==
  ASSUME NEW h \in [Objs -> NodeInfo \cup {None}], NEW S
  PROVE  /\ Collect(h, S) \in [Objs -> NodeInfo \cup {None}]
         /\ \A o \in S \cap Objs : Collect(h, S)[o] = h[o]
BY DEF Collect

(* One object gets a new content.                                          *)
LEMMA HeapUpdate ==
  ASSUME RegistryOK, NEW o \in Objs, NEW i \in NodeInfo, heap' = [heap EXCEPT ![o] = i]
  PROVE  /\ heap' \in [Objs -> NodeInfo \cup {None}]
         /\ \A p \in Objs : heap[p] # None => heap'[p] # None
BY ConstantsAssumption DEF RegistryOK

(* The handlers' side of a step that frees nothing they hold.              *)
LEMMA CallsKept ==
  ASSUME CallsOK, NEW t \in Threads, call' = [call EXCEPT ![t] = call'[t]],
         CallOK(call'[t]), call'[t].node # None => heap'[call'[t].node] # None,
         \A s \in Threads : call[s].node # None => heap'[call[s].node] # None
  PROVE  CallsOK'
<1>1. ASSUME NEW s \in Threads
      PROVE  CallOK(call'[s]) /\ (call'[s].node # None => heap'[call'[s].node] # None)
  <2>1. CASE s = t
    BY <2>1
  <2>2. CASE s # t
    <3>1. call'[s] = call[s]
      BY <2>2 DEF CallsOK
    <3> QED
      BY <3>1 DEF CallsOK
  <2> QED
    BY <2>1, <2>2
<1>2. call' = [s \in Threads |-> call'[s]]
  BY DEF CallsOK
<1> QED
  BY <1>1, <1>2 DEF CallsOK

LEMMA TypeStep == TypeInv /\ [Next]_vars => TypeInv'
<1> SUFFICES ASSUME TypeInv, [Next]_vars PROVE TypeInv'
  OBVIOUS
<1> USE ConstantsAssumption
<1>1. CASE UNCHANGED vars
  <2>1. CallsOK'
    BY <1>1 DEF vars, registry, redis, TypeInv, CallsOK
  <2>2. RegistryOK'
    BY <1>1 DEF vars, registry, redis, TypeInv, RegistryOK, Registered, Rebuilt
  <2>3. StoreOK'
    BY <1>1 DEF vars, registry, redis, TypeInv, StoreOK
  <2> QED
    BY <2>1, <2>2, <2>3 DEF TypeInv
<1>2. CASE Tick
  <2>1. CallsOK'
    BY <1>2 DEF Tick, registry, redis, TypeInv, CallsOK
  <2>2. RegistryOK'
    BY <1>2 DEF Tick, registry, redis, TypeInv, RegistryOK, Registered, Rebuilt
  <2>3. StoreOK'
    BY <1>2 DEF Tick, registry, redis, TypeInv, StoreOK
  <2> QED
    BY <2>1, <2>2, <2>3 DEF TypeInv
<1>3. CASE Restart
  <2>1. CallsOK'
    BY <1>3, IdleOK DEF Restart, CallsOK
  <2>2. RegistryOK'
    BY <1>3 DEF Restart, RegistryOK, Registered, Rebuilt
  <2>3. StoreOK'
    BY <1>3 DEF Restart, redis, TypeInv, StoreOK
  <2> QED
    BY <2>1, <2>2, <2>3 DEF TypeInv
<1>4. CASE KickDelivered
  <2>1. CallsOK'
    BY <1>4 DEF KickDelivered, registry, redis, TypeInv, CallsOK
  <2>2. RegistryOK'
    BY <1>4 DEF KickDelivered, registry, redis, TypeInv, RegistryOK, Registered, Rebuilt
  <2>3. StoreOK'
    BY <1>4 DEF KickDelivered, registry, redis, TypeInv, StoreOK
  <2> QED
    BY <2>1, <2>2, <2>3 DEF TypeInv
<1>5. ASSUME NEW a \in Addrs, Heartbeat(a)
      PROVE  TypeInv'
  <2>1. CallsOK'
    <3>1. PICK n \in Registered : heap' = [heap EXCEPT ![nodes[n]].beat = now]
      BY <1>5 DEF Heartbeat
    <3>2. [heap[nodes[n]] EXCEPT !.beat = now] \in NodeInfo
      BY DEF TypeInv, RegistryOK, StoreOK, NodeInfo
    <3>3. \A p \in Objs : heap[p] # None => heap'[p] # None
      BY <3>1, <3>2, HeapUpdate DEF TypeInv, RegistryOK
    <3>4. \A s \in Threads : call[s].node \in Objs \cup {None}
      BY DEF TypeInv, CallsOK, CallOK, Call
    <3> QED
      BY <1>5, <3>3, <3>4 DEF Heartbeat, TypeInv, CallsOK
  <2>2. RegistryOK'
    BY <1>5 DEF Heartbeat, TypeInv, RegistryOK, StoreOK, Registered, Rebuilt, NodeInfo
  <2>3. StoreOK'
    BY <1>5 DEF Heartbeat, redis, TypeInv, StoreOK
  <2> QED
    BY <2>1, <2>2, <2>3 DEF TypeInv
<1>6. ASSUME NEW u \in Users, KickUser(u)
      PROVE  TypeInv'
  <2>1. CallsOK'
    BY <1>6 DEF KickUser, registry, TypeInv, CallsOK
  <2>2. RegistryOK'
    BY <1>6 DEF KickUser, registry, TypeInv, RegistryOK, Registered, Rebuilt
  <2>3. StoreOK'
    BY <1>6 DEF KickUser, redis, TypeInv, StoreOK, Route
  <2> QED
    BY <2>1, <2>2, <2>3 DEF TypeInv
<1>7. ASSUME NEW t \in Threads, NEW n \in Names, NEW a \in Addrs,
             NEW c \in Capacities, RegisterNew(t, n, a, c)
      PROVE  TypeInv'
  <2>1. CallsOK'
    BY <1>7 DEF RegisterNew, Begin, TypeInv, CallsOK, CallOK, Call, Idle, RegistryOK, NodeInfo
  <2>2. RegistryOK'
    BY <1>7 DEF RegisterNew, Begin, TypeInv, RegistryOK, StoreOK, Registered, Rebuilt, NodeInfo
  <2>3. StoreOK'
    BY <1>7 DEF RegisterNew, Begin, redis, TypeInv, StoreOK
  <2> QED
    BY <2>1, <2>2, <2>3 DEF TypeInv
<1>8. ASSUME NEW t \in Threads, NEW n \in Names, NEW a \in Addrs,
             NEW c \in Capacities, RegisterAgain(t, n, a, c)
      PROVE  TypeInv'
  <2>0. /\ nodes[n] \in Objs /\ heap[nodes[n]] \in NodeInfo
        /\ heap' = [heap EXCEPT ![nodes[n]] = Updated(heap[nodes[n]], a, c)]
    BY <1>8 DEF RegisterAgain, TypeInv, RegistryOK
  <2>a. Updated(heap[nodes[n]], a, c) \in NodeInfo
    BY <2>0 DEF Updated, NodeInfo, TypeInv, StoreOK
  <2>b. /\ heap' \in [Objs -> NodeInfo \cup {None}]
        /\ \A p \in Objs : heap[p] # None => heap'[p] # None
    BY <2>0, <2>a, HeapUpdate DEF TypeInv
  <2>1. CallsOK'
    <3>1. CallOK(call'[t]) /\ call'[t].node = None
      BY <1>8 DEF RegisterAgain, Begin, TypeInv, CallsOK, CallOK, Call, Idle
    <3>2. call' = [call EXCEPT ![t] = call'[t]]
      BY <1>8 DEF RegisterAgain, TypeInv, CallsOK
    <3>3. \A s \in Threads : call[s].node # None => heap'[call[s].node] # None
      BY <2>b DEF TypeInv, CallsOK, CallOK, Call
    <3> QED
      BY <3>1, <3>2, <3>3, CallsKept DEF TypeInv
  <2>2. RegistryOK'
    BY <1>8, <2>b DEF RegisterAgain, TypeInv, RegistryOK, Registered, Rebuilt
  <2>3. StoreOK'
    BY <1>8 DEF RegisterAgain, Begin, redis, TypeInv, StoreOK
  <2> QED
    BY <2>1, <2>2, <2>3 DEF TypeInv
<1>9. ASSUME NEW t \in Threads, NEW n \in Names, DeregisterNode(t, n)
      PROVE  TypeInv'
  <2>1. /\ nodes' = Forget(nodes, {n}) /\ nodeList' = Rebuilt(nodes')
        /\ heap' = Collect(heap, Held(nodes', nodeList', call'))
        /\ rrIndex' = rrIndex
    BY <1>9 DEF DeregisterNode
  <2>2. \A s \in Threads : CallOK(call'[s]) /\ call'[s].node = call[s].node
    BY <1>9 DEF DeregisterNode, Begin, TypeInv, CallsOK, CallOK, Call, Idle
  <2>3. call' = [s \in Threads |-> call'[s]]
    BY <1>9 DEF DeregisterNode, TypeInv, CallsOK
  <2>4. \A m \in DOMAIN nodes' : m \in Registered /\ nodes'[m] = nodes[m]
    BY <2>1 DEF Forget, Registered
  <2>5. /\ heap' \in [Objs -> NodeInfo \cup {None}]
        /\ \A o \in Objs \cap Held(nodes', nodeList', call') : heap'[o] = heap[o]
    BY <2>1, CollectKeeps DEF TypeInv, RegistryOK
  <2>6. CallsOK'
    BY <2>2, <2>3, <2>5 DEF Held, TypeInv, CallsOK, CallOK, Call
  <2>7. RegistryOK'
    <3>1. nodes' \in [DOMAIN nodes' -> Objs] /\ DOMAIN nodes' \subseteq Names
      BY <2>1, <2>4 DEF Forget, Registered, TypeInv, RegistryOK
    <3>2. \A m \in DOMAIN nodes' : nodes'[m] \in Objs \cap Held(nodes', nodeList', call')
      BY <3>1 DEF Held
    <3>3. \A m \in DOMAIN nodes' : heap'[nodes'[m]] # None
      BY <2>4, <2>5, <3>2 DEF TypeInv, RegistryOK
    <3> QED
      BY <2>1, <2>5, <3>1, <3>3 DEF Registered, TypeInv, RegistryOK
  <2>8. StoreOK'
    BY <1>9 DEF DeregisterNode, Begin, redis, TypeInv, StoreOK
  <2> QED
    BY <2>6, <2>7, <2>8 DEF TypeInv
<1>10. ASSUME NEW t \in Threads, NEW u \in Users, BeginAllocate(t, u)
      PROVE  TypeInv'
  <2>1. /\ nodes' = Forget(nodes, StaleNames) /\ nodeList' = Rebuilt(nodes')
        /\ heap' = Collect(heap, Held(nodes', nodeList', call'))
        /\ rrIndex' = rrIndex
    BY <1>10 DEF BeginAllocate, ListAfterEviction, Forget, Registered, TypeInv, RegistryOK
  <2>2. \A s \in Threads : CallOK(call'[s]) /\ call'[s].node = call[s].node
    BY <1>10 DEF BeginAllocate, Begin, TypeInv, CallsOK, CallOK, Call, Idle
  <2>3. call' = [s \in Threads |-> call'[s]]
    BY <1>10 DEF BeginAllocate, TypeInv, CallsOK
  <2>4. \A m \in DOMAIN nodes' : m \in Registered /\ nodes'[m] = nodes[m]
    BY <2>1 DEF Forget, Registered
  <2>5. /\ heap' \in [Objs -> NodeInfo \cup {None}]
        /\ \A o \in Objs \cap Held(nodes', nodeList', call') : heap'[o] = heap[o]
    BY <2>1, CollectKeeps DEF TypeInv, RegistryOK
  <2>6. CallsOK'
    BY <2>2, <2>3, <2>5 DEF Held, TypeInv, CallsOK, CallOK, Call
  <2>7. RegistryOK'
    <3>1. nodes' \in [DOMAIN nodes' -> Objs] /\ DOMAIN nodes' \subseteq Names
      BY <2>1, <2>4 DEF Forget, Registered, TypeInv, RegistryOK
    <3>2. \A m \in DOMAIN nodes' : nodes'[m] \in Objs \cap Held(nodes', nodeList', call')
      BY <3>1 DEF Held
    <3>3. \A m \in DOMAIN nodes' : heap'[nodes'[m]] # None
      BY <2>4, <2>5, <3>2 DEF TypeInv, RegistryOK
    <3> QED
      BY <2>1, <2>5, <3>1, <3>3 DEF Registered, TypeInv, RegistryOK
  <2>8. StoreOK'
    BY <1>10 DEF BeginAllocate, Begin, redis, TypeInv, StoreOK
  <2> QED
    BY <2>6, <2>7, <2>8 DEF TypeInv
<1>11. ASSUME NEW t \in Threads, NEW u \in Users, BeginOnline(t, u)
      PROVE  TypeInv'
  <2>1. CallOK(call'[t]) /\ (call'[t].node # None => heap[call'[t].node] # None)
    BY <1>11 DEF BeginOnline, Begin, Call, CallOK, Idle, TypeInv, CallsOK, StoreOK
  <2>2. UNCHANGED registry /\ call' = [call EXCEPT ![t] = call'[t]]
    BY <1>11 DEF BeginOnline, Begin, TypeInv, CallsOK
  <2>3. StoreOK'
    BY <1>11 DEF BeginOnline, Begin, redis, TypeInv, StoreOK
  <2> QED
    BY <2>1, <2>2, <2>3, CallStep DEF TypeInv
<1>12. ASSUME NEW t \in Threads, NEW u \in Users, BeginOffline(t, u)
      PROVE  TypeInv'
  <2>1. CallOK(call'[t]) /\ (call'[t].node # None => heap[call'[t].node] # None)
    BY <1>12 DEF BeginOffline, Begin, Call, CallOK, Idle, TypeInv, CallsOK, StoreOK
  <2>2. UNCHANGED registry /\ call' = [call EXCEPT ![t] = call'[t]]
    BY <1>12 DEF BeginOffline, Begin, TypeInv, CallsOK
  <2>3. StoreOK'
    BY <1>12 DEF BeginOffline, Begin, redis, TypeInv, StoreOK
  <2> QED
    BY <2>1, <2>2, <2>3, CallStep DEF TypeInv
<1>13. ASSUME NEW t \in Threads, HandlerStep(t) PROVE TypeInv'
  <2>0. call[t] \in Call /\ CallOK(call[t])
    BY DEF TypeInv, CallsOK, CallOK
  <2>1. CASE SetNodeKey(t)
    <3>1. CallOK(call'[t]) /\ (call'[t].node # None => heap[call'[t].node] # None)
      BY <2>1, <2>0, IdleOK DEF SetNodeKey, Return, Fault, Call, CallOK, Idle, TypeInv, CallsOK
    <3>2. UNCHANGED registry /\ call' = [call EXCEPT ![t] = call'[t]]
      BY <2>1, <2>0 DEF SetNodeKey, Return, Fault, TypeInv, CallsOK
    <3>3. StoreOK'
      <4>1. call[t].name \in Names
        BY <2>1, <2>0 DEF SetNodeKey, CallOK, Call
      <4>2. nodeKeys' \subseteq Names
        BY <2>1, <4>1 DEF SetNodeKey, TypeInv, StoreOK
      <4> QED
        BY <2>1, <4>2 DEF SetNodeKey, Fault, TypeInv, StoreOK
    <3> QED
      BY <3>1, <3>2, <3>3, CallStep DEF TypeInv
  <2>2. CASE DelNodeKey(t)
    <3>1. CallOK(call'[t]) /\ (call'[t].node # None => heap[call'[t].node] # None)
      BY <2>2, <2>0, IdleOK DEF DelNodeKey, Return, Fault, Call, CallOK, Idle, TypeInv, CallsOK
    <3>2. UNCHANGED registry /\ call' = [call EXCEPT ![t] = call'[t]]
      BY <2>2, <2>0 DEF DelNodeKey, Return, Fault, TypeInv, CallsOK
    <3>3. StoreOK'
      <4>1. call[t].name \in Names
        BY <2>2, <2>0 DEF DelNodeKey, CallOK, Call
      <4>2. nodeKeys' \subseteq Names
        BY <2>2, <4>1 DEF DelNodeKey, TypeInv, StoreOK
      <4> QED
        BY <2>2, <4>2 DEF DelNodeKey, Fault, TypeInv, StoreOK
    <3> QED
      BY <3>1, <3>2, <3>3, CallStep DEF TypeInv
  <2>3. CASE ReadRoute(t)
    <3>1. CallOK(call'[t]) /\ (call'[t].node # None => heap[call'[t].node] # None)
      <4>1. call[t].uid \in Users /\ call[t].node = None /\ call[t].pc = "readRoute"
        BY <2>3, <2>0 DEF ReadRoute, CallOK, Call
      <4>2. route[call[t].uid] \in Route \cup {None}
        BY <4>1 DEF TypeInv, StoreOK
      <4>3. \/ call' = [call EXCEPT ![t].pc = "pick"]
            \/ /\ route[call[t].uid] # None
               /\ call' = [call EXCEPT ![t].pc = "sticky", ![t].seen = route[call[t].uid]]
        BY <2>3 DEF ReadRoute, Goto
      <4> QED
        <5>1. CASE call' = [call EXCEPT ![t].pc = "pick"]
          BY <2>0, <4>1, <5>1 DEF CallOK, Call, TypeInv, CallsOK
        <5>2. CASE /\ route[call[t].uid] # None
                   /\ call' = [call EXCEPT ![t].pc = "sticky", ![t].seen = route[call[t].uid]]
          <6>1. call'[t] = [call[t] EXCEPT !.pc = "sticky", !.seen = route[call[t].uid]]
            BY <5>2 DEF TypeInv, CallsOK
          <6>2. route[call[t].uid] \in Route
            BY <4>2, <5>2
          <6>3. call'[t] \in Call /\ call'[t].node = None /\ call'[t].pc = "sticky"
            BY <2>0, <4>1, <6>1, <6>2 DEF Call
          <6>4. call'[t].uid = call[t].uid /\ call'[t].seen = route[call[t].uid]
            BY <2>0, <6>1 DEF Call
          <6>5. call'[t].uid # None /\ call'[t].seen # None
            BY <4>1, <5>2, <6>4
          <6> QED
            BY <6>3, <6>5 DEF CallOK
        <5> QED
          BY <4>3, <5>1, <5>2
    <3>2. UNCHANGED registry /\ call' = [call EXCEPT ![t] = call'[t]]
      BY <2>3, <2>0 DEF ReadRoute, Goto, Fault, TypeInv, CallsOK
    <3>3. StoreOK'
      BY <2>3, <2>0 DEF ReadRoute, Goto, Fault, redis, TypeInv, StoreOK
    <3> QED
      BY <3>1, <3>2, <3>3, CallStep DEF TypeInv
  <2>4. CASE AnswerSticky(t)
    <3>1. CallOK(call'[t]) /\ (call'[t].node # None => heap[call'[t].node] # None)
      BY <2>4, <2>0, IdleOK DEF AnswerSticky, Return, Call, CallOK, Idle, TypeInv, CallsOK
    <3>2. UNCHANGED registry /\ call' = [call EXCEPT ![t] = call'[t]]
      BY <2>4, <2>0 DEF AnswerSticky, Return, TypeInv, CallsOK
    <3>3. StoreOK'
      BY <2>4, <2>0, IdleOK DEF AnswerSticky, Return, redis, TypeInv, StoreOK, CallsOK, CallOK, Call, RegistryOK, NodeInfo, Answer, Route, Registered
    <3> QED
      BY <3>1, <3>2, <3>3, CallStep DEF TypeInv
  <2>5. CASE StickyNodeGone(t)
    <3>1. CallOK(call'[t]) /\ (call'[t].node # None => heap[call'[t].node] # None)
      BY <2>5, <2>0 DEF StickyNodeGone, Goto, Call, CallOK, Idle, TypeInv, CallsOK
    <3>2. UNCHANGED registry /\ call' = [call EXCEPT ![t] = call'[t]]
      BY <2>5, <2>0 DEF StickyNodeGone, Goto, TypeInv, CallsOK
    <3>3. StoreOK'
      BY <2>5, <2>0 DEF StickyNodeGone, Goto, redis, TypeInv, StoreOK
    <3> QED
      BY <3>1, <3>2, <3>3, CallStep DEF TypeInv
  <2>6. CASE PickLeastLoaded(t)
    <3>1. PICK o \in Rebuilt(nodes) : Reserve(t, o)
      BY <2>6 DEF PickLeastLoaded, LeastLoaded, Fresh, TypeInv, RegistryOK, Rebuilt, Registered
    <3>2. o \in Objs /\ heap[o] # None
      BY DEF Rebuilt, TypeInv, RegistryOK, Registered
    <3>3. call[t].pc = "pick" /\ UNCHANGED <<nodes, nodeList, redis, kicks, answer, faults, rpcs, now>>
      BY <2>6 DEF PickLeastLoaded
    <3>4. CallsOK'
      <4>1. [heap[o] EXCEPT !.load = @ + 1] \in NodeInfo
        BY <3>2 DEF TypeInv, RegistryOK, NodeInfo
      <4>2. \A p \in Objs : heap[p] # None => heap'[p] # None
        BY <3>1, <3>2, <4>1, HeapUpdate DEF Reserve, TypeInv
      <4>3. call' = [call EXCEPT ![t].pc = "assign", ![t].node = o]
        BY <3>1 DEF Reserve
      <4>4. CallOK(call'[t]) /\ call'[t].node = o /\ call' = [call EXCEPT ![t] = call'[t]]
        BY <2>0, <3>2, <3>3, <4>3 DEF Call, CallOK, TypeInv, CallsOK
      <4>5. \A s \in Threads : call[s].node # None => heap'[call[s].node] # None
        BY <4>2 DEF TypeInv, CallsOK, CallOK, Call
      <4> QED
        BY <3>2, <4>2, <4>4, <4>5, CallsKept DEF TypeInv
    <3>5. RegistryOK'
      BY <2>6, <3>1, <3>2, <3>3 DEF PickLeastLoaded, Reserve, TypeInv, RegistryOK, Registered, Rebuilt, NodeInfo
    <3>6. StoreOK'
      BY <3>3 DEF redis, TypeInv, StoreOK
    <3> QED
      BY <3>4, <3>5, <3>6 DEF TypeInv
  <2>7. CASE PickRoundRobin(t)
    <3>1. PICK o \in Rebuilt(nodes) : Reserve(t, o)
      BY <2>7 DEF PickRoundRobin, TypeInv, RegistryOK, Rebuilt, Registered
    <3>2. o \in Objs /\ heap[o] # None
      BY DEF Rebuilt, TypeInv, RegistryOK, Registered
    <3>3. call[t].pc = "pick" /\ UNCHANGED <<nodes, nodeList, redis, kicks, answer, faults, rpcs, now>>
      BY <2>7 DEF PickRoundRobin
    <3>4. CallsOK'
      <4>1. [heap[o] EXCEPT !.load = @ + 1] \in NodeInfo
        BY <3>2 DEF TypeInv, RegistryOK, NodeInfo
      <4>2. \A p \in Objs : heap[p] # None => heap'[p] # None
        BY <3>1, <3>2, <4>1, HeapUpdate DEF Reserve, TypeInv
      <4>3. call' = [call EXCEPT ![t].pc = "assign", ![t].node = o]
        BY <3>1 DEF Reserve
      <4>4. CallOK(call'[t]) /\ call'[t].node = o /\ call' = [call EXCEPT ![t] = call'[t]]
        BY <2>0, <3>2, <3>3, <4>3 DEF Call, CallOK, TypeInv, CallsOK
      <4>5. \A s \in Threads : call[s].node # None => heap'[call[s].node] # None
        BY <4>2 DEF TypeInv, CallsOK, CallOK, Call
      <4> QED
        BY <3>2, <4>2, <4>4, <4>5, CallsKept DEF TypeInv
    <3>5. RegistryOK'
      BY <2>7, <3>1, <3>2, <3>3 DEF PickRoundRobin, Reserve, TypeInv, RegistryOK, Registered, Rebuilt, NodeInfo
    <3>6. StoreOK'
      BY <3>3 DEF redis, TypeInv, StoreOK
    <3> QED
      BY <3>4, <3>5, <3>6 DEF TypeInv
  <2>8. CASE NoNodeAvailable(t)
    <3>1. CallOK(call'[t]) /\ (call'[t].node # None => heap[call'[t].node] # None)
      BY <2>8, <2>0, IdleOK DEF NoNodeAvailable, Return, Call, CallOK, Idle, TypeInv, CallsOK
    <3>2. UNCHANGED registry /\ call' = [call EXCEPT ![t] = call'[t]]
      BY <2>8, <2>0 DEF NoNodeAvailable, Return, TypeInv, CallsOK
    <3>3. StoreOK'
      BY <2>8, <2>0, IdleOK DEF NoNodeAvailable, Return, redis, TypeInv, StoreOK
    <3> QED
      BY <3>1, <3>2, <3>3, CallStep DEF TypeInv
  <2>9. CASE Assign(t)
    <3>1. CallOK(call'[t]) /\ (call'[t].node # None => heap[call'[t].node] # None)
      BY <2>9, <2>0 DEF Assign, Goto, Fault, Call, CallOK, Idle, TypeInv, CallsOK
    <3>2. UNCHANGED registry /\ call' = [call EXCEPT ![t] = call'[t]]
      BY <2>9, <2>0 DEF Assign, Goto, Fault, TypeInv, CallsOK
    <3>3. RouteTo(call[t].uid, call[t].node) \in Route /\ call[t].uid \in Users
      BY <2>9, <2>0, RouteToType DEF Assign, TypeInv, CallsOK, CallOK, Call
    <3>4. StoreOK'
      BY <2>9, <3>3 DEF Assign, Goto, Fault, redis, TypeInv, StoreOK, RunScript, MoveLoad, KickFor, Returned, Route
    <3> QED
      BY <3>1, <3>2, <3>4, CallStep DEF TypeInv
  <2>10. CASE Persist(t)
    <3>1. call' = [call EXCEPT ![t] = Idle] /\ UNCHANGED <<nodes, nodeList, rrIndex>>
      BY <2>10 DEF Persist, Return
    <3>2. /\ heap' \in [Objs -> NodeInfo \cup {None}]
          /\ \A o \in Objs \cap Held(nodes, nodeList, call') : heap'[o] = heap[o]
      BY <2>10, CollectKeeps DEF Persist, TypeInv, RegistryOK
    <3>3. CallsOK'
      <4>1. \A s \in Threads : call'[s] = IF s = t THEN Idle ELSE call[s]
        BY <3>1 DEF TypeInv, CallsOK
      <4>2. ASSUME NEW s \in Threads, call'[s].node # None PROVE heap'[call'[s].node] # None
        <5>1. s # t /\ call'[s] = call[s] /\ call[s].node \in Objs
          BY <4>1, <4>2, IdleOK DEF TypeInv, CallsOK, CallOK, Call
        <5>2. call'[s].node \in Objs \cap Held(nodes, nodeList, call')
          BY <5>1 DEF Held
        <5> QED
          BY <3>2, <4>2, <5>1, <5>2 DEF TypeInv, CallsOK
      <4> QED
        BY <3>1, <4>1, <4>2, IdleOK DEF TypeInv, CallsOK
    <3>4. RegistryOK'
      BY <3>1, <3>2 DEF Held, Registered, Rebuilt, TypeInv, RegistryOK
    <3>5. RouteTo(call[t].uid, call[t].node) \in Route /\ call[t].uid \in Users
      BY <2>10, <2>0, RouteToType DEF Persist, TypeInv, CallsOK, CallOK, Call
    <3>6. StoreOK'
      BY <2>10, <3>5 DEF Persist, Stored, Fault, TypeInv, StoreOK, Route, Answer
    <3> QED
      BY <3>3, <3>4, <3>6 DEF TypeInv
  <2>11. CASE OnlineRead(t)
    <3>1. CallOK(call'[t]) /\ (call'[t].node # None => heap[call'[t].node] # None)
      BY <2>11, <2>0 DEF OnlineRead, Goto, Fault, Call, CallOK, Idle, TypeInv, CallsOK, StoreOK
    <3>2. UNCHANGED registry /\ call' = [call EXCEPT ![t] = call'[t]]
      BY <2>11, <2>0 DEF OnlineRead, Goto, Fault, TypeInv, CallsOK
    <3>3. StoreOK'
      BY <2>11, <2>0 DEF OnlineRead, Goto, Fault, redis, TypeInv, StoreOK
    <3> QED
      BY <3>1, <3>2, <3>3, CallStep DEF TypeInv
  <2>12. CASE OnlineWrite(t)
    <3>1. CallOK(call'[t]) /\ (call'[t].node # None => heap[call'[t].node] # None)
      BY <2>12, <2>0, IdleOK DEF OnlineWrite, ReportedName, Return, Fault, Call, CallOK, Idle, TypeInv, CallsOK
    <3>2. UNCHANGED registry /\ call' = [call EXCEPT ![t] = call'[t]]
      BY <2>12, <2>0 DEF OnlineWrite, ReportedName, Return, Fault, TypeInv, CallsOK
    <3>3. StoreOK'
      <4>1. call[t].uid \in Users /\ call[t].req \in Answer /\ call[t].seen \in Route \cup {None}
        BY <2>12, <2>0 DEF OnlineWrite, ReportedName, CallOK, Call
      <4>2. /\ call[t].req.addr \in Addrs /\ call[t].req.token \in Token
            /\ call[t].req.token.name \in Names
            /\ call[t].seen # None => call[t].seen.name \in Names
        BY <4>1 DEF Answer, Route, Token
      <4>3. [name |-> IF call[t].seen = None THEN call[t].req.token.name ELSE call[t].seen.name,
             addr |-> call[t].req.addr, token |-> call[t].req.token, online |-> TRUE] \in Route
        BY <4>2 DEF Route
      <4>4. route' \in [Users -> Route \cup {None}]
        BY <2>12, <4>1, <4>3 DEF OnlineWrite, ReportedName, Stored, TypeInv, StoreOK
      <4> QED
        BY <2>12, <4>4 DEF OnlineWrite, ReportedName, Fault, TypeInv, StoreOK
    <3> QED
      BY <3>1, <3>2, <3>3, CallStep DEF TypeInv
  <2>13. CASE OfflineRead(t)
    <3>1. CallOK(call'[t]) /\ (call'[t].node # None => heap[call'[t].node] # None)
      <4>1. call[t].uid \in Users /\ call[t].node = None /\ call[t].pc = "offlineRead"
        BY <2>13, <2>0 DEF OfflineRead, CallOK, Call
      <4>2. route[call[t].uid] \in Route \cup {None}
        BY <4>1 DEF TypeInv, StoreOK
      <4>3. \/ call' = [call EXCEPT ![t] = Idle]
            \/ /\ route[call[t].uid] # None
               /\ call' = [call EXCEPT ![t].pc = "offlineDecr", ![t].seen = route[call[t].uid]]
        BY <2>13 DEF OfflineRead, Return
      <4> QED
        <5>1. CASE call' = [call EXCEPT ![t] = Idle]
          BY <5>1, IdleOK DEF TypeInv, CallsOK
        <5>2. CASE /\ route[call[t].uid] # None
                   /\ call' = [call EXCEPT ![t].pc = "offlineDecr", ![t].seen = route[call[t].uid]]
          <6>1. call'[t] = [call[t] EXCEPT !.pc = "offlineDecr", !.seen = route[call[t].uid]]
            BY <5>2 DEF TypeInv, CallsOK
          <6>2. route[call[t].uid] \in Route
            BY <4>2, <5>2
          <6>3. call'[t] \in Call /\ call'[t].node = None /\ call'[t].pc = "offlineDecr"
            BY <2>0, <4>1, <6>1, <6>2 DEF Call
          <6>4. call'[t].uid = call[t].uid /\ call'[t].seen = route[call[t].uid]
            BY <2>0, <6>1 DEF Call
          <6>5. call'[t].uid # None /\ call'[t].seen # None
            BY <4>1, <5>2, <6>4
          <6> QED
            BY <6>3, <6>5 DEF CallOK
        <5> QED
          BY <4>3, <5>1, <5>2
    <3>2. UNCHANGED registry /\ call' = [call EXCEPT ![t] = call'[t]]
      BY <2>13, <2>0 DEF OfflineRead, Return, Goto, Fault, TypeInv, CallsOK
    <3>3. StoreOK'
      BY <2>13, <2>0, IdleOK DEF OfflineRead, Return, Goto, Fault, redis, TypeInv, StoreOK
    <3> QED
      BY <3>1, <3>2, <3>3, CallStep DEF TypeInv
  <2>14. CASE OfflineDecr(t)
    <3>1. CallOK(call'[t]) /\ (call'[t].node # None => heap[call'[t].node] # None)
      BY <2>14, <2>0 DEF OfflineDecr, Goto, Fault, Call, CallOK, Idle, TypeInv, CallsOK
    <3>2. UNCHANGED registry /\ call' = [call EXCEPT ![t] = call'[t]]
      BY <2>14, <2>0 DEF OfflineDecr, Goto, Fault, TypeInv, CallsOK
    <3>3. StoreOK'
      BY <2>14, <2>0 DEF OfflineDecr, Goto, Fault, redis, TypeInv, StoreOK, CallsOK, CallOK, Call, Route
    <3> QED
      BY <3>1, <3>2, <3>3, CallStep DEF TypeInv
  <2>15. CASE OfflineWrite(t)
    <3>1. CallOK(call'[t]) /\ (call'[t].node # None => heap[call'[t].node] # None)
      BY <2>15, <2>0, IdleOK DEF OfflineWrite, Return, Fault, Call, CallOK, Idle, TypeInv, CallsOK
    <3>2. UNCHANGED registry /\ call' = [call EXCEPT ![t] = call'[t]]
      BY <2>15, <2>0 DEF OfflineWrite, Return, Fault, TypeInv, CallsOK
    <3>3. StoreOK'
      <4>1. call[t].uid \in Users /\ call[t].seen \in Route
        BY <2>15, <2>0 DEF OfflineWrite, CallOK, Call
      <4>2. [call[t].seen EXCEPT !.online = FALSE] \in Route
        BY <4>1 DEF Route
      <4>3. route' \in [Users -> Route \cup {None}]
        BY <2>15, <4>1, <4>2 DEF OfflineWrite, Stored, TypeInv, StoreOK
      <4> QED
        BY <2>15, <4>3 DEF OfflineWrite, Fault, TypeInv, StoreOK
    <3> QED
      BY <3>1, <3>2, <3>3, CallStep DEF TypeInv
  <2> QED
    BY <1>13, <2>1, <2>2, <2>3, <2>4, <2>5, <2>6, <2>7, <2>8, <2>9, <2>10, <2>11, <2>12, <2>13, <2>14, <2>15 DEF HandlerStep
<1> QED
  BY <1>1, <1>2, <1>3, <1>4, <1>5, <1>6, <1>7, <1>8, <1>9, <1>10, <1>11, <1>12, <1>13 DEF Next, NodeRpc, UserRpc

LEMMA TypeInvariant == Spec => []TypeInv
BY TypeInit, TypeStep, PTL DEF Spec

(* The state is well typed.                                                *)
THEOREM TypeCorrect == Spec => []TypeOK
<1>1. TypeInv => TypeOK
  BY DEF TypeInv, TypeOK, CallsOK, CallOK, RegistryOK, StoreOK, Rebuilt, Registered
<1> QED
  BY <1>1, TypeInvariant, PTL

(* Registration, removal and eviction keep the round-robin list equal to   *)
(* the registry, and never leave a freed object in it.                     *)
THEOREM NodeListInSync == Spec => []NodeListSync
<1>1. TypeInv => NodeListSync
  BY DEF TypeInv, NodeListSync, RegistryOK, Rebuilt, Registered
<1> QED
  BY <1>1, TypeInvariant, PTL

-----------------------------------------------------------------------------
(* The route and the answer of a user, when callers wait for one call      *)
(* about a user before they make the next.                                 *)

OneCall ==
    \A s, t \in Threads : call[s].uid # None /\ call[s].uid = call[t].uid => s = t

(* What a handler has read is still what Redis holds.                      *)
CallSync(c) ==
    /\ c.pc \in {"sticky", "offlineDecr", "offlineWrite"} => c.seen = route[c.uid]
    /\ c.pc \in {"onlineRead", "onlineWrite"} => c.req = answer[c.uid]
    /\ c.pc = "onlineRead" => c.seen = None
    /\ c.pc \in {"readRoute", "sticky", "pick", "assign", "persist"} => answer[c.uid] = None
    /\ c.pc = "onlineWrite" /\ c.seen # None => c.seen = route[c.uid]
    /\ c.pc = "persist" /\ faults = 0 =>
          route[c.uid] # None /\ route[c.uid].name = heap[c.node].name

Agree(u) ==
    /\ route[u] # None => route[u].token.name = route[u].name
    /\ answer[u] # None => route[u] # None /\ route[u].name = answer[u].token.name

RouteInv ==
    /\ OneCall
    /\ \A t \in Threads : CallSync(call[t])
    /\ faults <= 1 => \A u \in Users : Agree(u)

(* A step of one handler, about user u (or none), disturbs no other call:  *)
(* what it does for its own user is all there is to show.                  *)
LEMMA RouteFrame ==
  ASSUME TypeInv, TypeInv', RouteInv, NEW t \in Threads, NEW u \in Users \cup {None},
         \A s \in Threads \ {t} : /\ call'[s] = call[s]
                                  /\ call[s].uid \in Users => call[s].uid # u,
         \A v \in Users \ {u} : route'[v] = route[v] /\ answer'[v] = answer[v],
         \A s \in Threads \ {t} : call[s].node # None =>
             heap'[call[s].node].name = heap[call[s].node].name,
         faults \in Nat, faults' \in Nat, faults' >= faults,
         call'[t].uid \in {u, None},
         CallSync(call[t])',
         u \in Users /\ faults' <= 1 => Agree(u)'
  PROVE  RouteInv'
<1> USE ConstantsAssumption
<1>1. ASSUME NEW s \in Threads, s # t
      PROVE  CallSync(call[s])'
  <2>1. call'[s] = call[s] /\ CallSync(call[s]) /\ CallOK(call[s])
    BY <1>1 DEF RouteInv, TypeInv, CallsOK
  <2>2. CASE call[s].uid \in Users
    <3>1. route'[call[s].uid] = route[call[s].uid] /\ answer'[call[s].uid] = answer[call[s].uid]
      BY <1>1, <2>2
    <3>2. faults' = 0 => faults = 0
      OBVIOUS
    <3>3. call[s].pc = "persist" => heap'[call[s].node].name = heap[call[s].node].name
      BY <1>1, <2>1 DEF CallOK
    <3> QED
      BY <2>1, <3>1, <3>2, <3>3 DEF CallSync
  <2>3. CASE call[s].uid \notin Users
    <3>1. call[s].pc \in {"idle", "setKey", "delKey"}
      BY <2>1, <2>3 DEF CallOK, Call
    <3> QED
      BY <2>1, <3>1 DEF CallSync
  <2> QED
    BY <2>2, <2>3
<1>2. OneCall'
  <2>1. ASSUME NEW s \in Threads, s # t, call'[s].uid # None, call'[s].uid = call'[t].uid
        PROVE  FALSE
    <3>1. call'[s] = call[s] /\ call[s].uid \in Users
      BY <2>1 DEF TypeInv, CallsOK, CallOK, Call
    <3> QED
      BY <2>1, <3>1
  <2>2. ASSUME NEW r \in Threads, NEW s \in Threads, r # t, s # t,
               call'[r].uid # None, call'[r].uid = call'[s].uid
        PROVE  r = s
    BY <2>2 DEF RouteInv, OneCall
  <2> QED
    BY <2>1, <2>2 DEF OneCall
<1>3. ASSUME faults' <= 1, NEW v \in Users PROVE Agree(v)'
  <2>1. CASE v = u
    BY <1>3, <2>1
  <2>2. CASE v # u
    <3>1. faults <= 1
      BY <1>3
    <3>2. Agree(v) /\ route'[v] = route[v] /\ answer'[v] = answer[v]
      BY <2>2, <3>1 DEF RouteInv
    <3> QED
      BY <3>2 DEF Agree
  <2> QED
    BY <2>1, <2>2
<1> QED
  BY <1>1, <1>2, <1>3 DEF RouteInv

(* The other handlers of a call's step.                                    *)
LEMMA OthersElsewhere ==
  ASSUME TypeInv, OneCall, NEW t \in Threads, call[t].uid \in Users,
         NEW c, call' = [call EXCEPT ![t] = c]
  PROVE  \A s \in Threads \ {t} : /\ call'[s] = call[s]
                                  /\ call[s].uid \in Users => call[s].uid # call[t].uid
BY ConstantsAssumption DEF OneCall, TypeInv, CallsOK

(* A step that leaves route and answer alone.                              *)
LEMMA AgreeKept ==
  ASSUME RouteInv, faults \in Nat, faults' \in Nat, faults' >= faults,
         NEW u \in Users, route' = route, answer' = answer
  PROVE  faults' <= 1 => Agree(u)'
<1>1. faults' <= 1 => faults <= 1
  OBVIOUS
<1>2. Agree(u)' <=> Agree(u)
  BY DEF Agree
<1> QED
  BY <1>1, <1>2 DEF RouteInv

LEMMA RouteInit == Init => RouteInv
BY DEF Init, RouteInv, OneCall, CallSync, Agree, Idle

LEMMA RouteStep ==
  ScriptLoaded /\ Serial /\ TypeInv /\ TypeInv' /\ RouteInv /\ [Next]_vars => RouteInv'
<1> SUFFICES ASSUME ScriptLoaded, Serial, TypeInv, TypeInv', RouteInv, [Next]_vars PROVE RouteInv'
  OBVIOUS
<1> USE ConstantsAssumption
<1>0. faults \in Nat /\ faults' \in Nat
  BY DEF TypeInv, StoreOK
<1>a. \A t \in Threads : CallOK(call[t]) /\ (call[t].node # None => heap[call[t].node] # None)
  BY DEF TypeInv, CallsOK
<1>1. CASE UNCHANGED vars
  BY <1>1 DEF vars, registry, redis, RouteInv, OneCall, CallSync, Agree
<1>2. CASE Tick
  BY <1>2 DEF Tick, registry, redis, RouteInv, OneCall, CallSync, Agree
<1>3. CASE Restart
  BY <1>3 DEF Restart, redis, Idle, RouteInv, OneCall, CallSync, Agree
<1>4. CASE KickDelivered
  BY <1>4 DEF KickDelivered, registry, redis, RouteInv, OneCall, CallSync, Agree
<1>5. ASSUME NEW a \in Addrs, Heartbeat(a) PROVE RouteInv'
  <2>1. \A t \in Threads : call[t].node # None => heap'[call[t].node].name = heap[call[t].node].name
    BY <1>5, <1>a DEF Heartbeat, TypeInv, RegistryOK, NodeInfo, CallOK, Call
  <2>2. \A t \in Threads : call[t].pc = "persist" => call[t].node # None
    BY <1>a DEF CallOK
  <2> QED
    BY <1>5, <2>1, <2>2 DEF Heartbeat, redis, RouteInv, OneCall, CallSync, Agree
<1>6. ASSUME NEW u \in Users, KickUser(u) PROVE RouteInv'
  BY <1>6 DEF KickUser, registry, redis, RouteInv, OneCall, CallSync, Agree
<1>7. ASSUME NEW t \in Threads, NEW n \in Names, NEW a \in Addrs,
             NEW c \in Capacities, RegisterNew(t, n, a, c)
      PROVE  RouteInv'
  <2>2. call'[t].uid = None /\ call'[t].pc \in {"setKey", "delKey"}
    BY <1>7, <1>a DEF RegisterNew, Begin, Idle, TypeInv, CallsOK, CallOK
  <2>3. UNCHANGED <<route, answer, faults>> /\ \A s \in Threads \ {t} : call'[s] = call[s]
    BY <1>7 DEF RegisterNew, redis, TypeInv, CallsOK
  <2>4. CallSync(call[t])'
    BY <2>2 DEF CallSync
  <2>5. \A s \in Threads \ {t} : call[s].node # None =>
             heap'[call[s].node].name = heap[call[s].node].name
    BY <1>7, <1>a DEF RegisterNew, TypeInv, RegistryOK
  <2> QED
    BY <1>0, <2>2, <2>3, <2>4, <2>5, RouteFrame
<1>8. ASSUME NEW t \in Threads, NEW n \in Names, NEW a \in Addrs,
             NEW c \in Capacities, RegisterAgain(t, n, a, c)
      PROVE  RouteInv'
  <2>2. call'[t].uid = None /\ call'[t].pc \in {"setKey", "delKey"}
    BY <1>8, <1>a DEF RegisterAgain, Begin, Idle, TypeInv, CallsOK, CallOK
  <2>3. UNCHANGED <<route, answer, faults>> /\ \A s \in Threads \ {t} : call'[s] = call[s]
    BY <1>8 DEF RegisterAgain, redis, TypeInv, CallsOK
  <2>4. CallSync(call[t])'
    BY <2>2 DEF CallSync
  <2>5. \A s \in Threads \ {t} : call[s].node # None =>
             heap'[call[s].node].name = heap[call[s].node].name
    BY <1>8, <1>a DEF RegisterAgain, Updated, TypeInv, RegistryOK, NodeInfo, CallOK, Call
  <2> QED
    BY <1>0, <2>2, <2>3, <2>4, <2>5, RouteFrame
<1>9. ASSUME NEW t \in Threads, NEW n \in Names, DeregisterNode(t, n)
      PROVE  RouteInv'
  <2>2. call'[t].uid = None /\ call'[t].pc \in {"setKey", "delKey"}
    BY <1>9, <1>a DEF DeregisterNode, Begin, Idle, TypeInv, CallsOK, CallOK
  <2>3. UNCHANGED <<route, answer, faults>> /\ \A s \in Threads \ {t} : call'[s] = call[s]
    BY <1>9 DEF DeregisterNode, redis, TypeInv, CallsOK
  <2>4. CallSync(call[t])'
    BY <2>2 DEF CallSync
  <2>5. \A s \in Threads \ {t} : call[s].node # None =>
             heap'[call[s].node].name = heap[call[s].node].name
    <3>1. heap' = Collect(heap, Held(nodes', nodeList', call'))
      BY <1>9 DEF DeregisterNode
    <3>2. \A s \in Threads \ {t} : call[s].node \in Held(nodes', nodeList', call')
      BY <2>3 DEF Held
    <3>3. \A s \in Threads : call[s].node # None => call[s].node \in Objs
      BY <1>a DEF CallOK, Call
    <3> QED
      BY <3>1, <3>2, <3>3, CollectKeeps DEF TypeInv, RegistryOK
  <2> QED
    BY <1>0, <2>2, <2>3, <2>4, <2>5, RouteFrame
<1>10. ASSUME NEW t \in Threads, NEW u \in Users, BeginAllocate(t, u)
      PROVE  RouteInv'
  <2>1. \A s \in Threads : call[s].uid # u
    BY <1>10 DEF BeginAllocate, UserFree
  <2>2. call[t] = Idle
    BY <1>10, <1>a DEF BeginAllocate, Begin, CallOK
  <2>3. /\ \A s \in Threads \ {t} : call'[s] = call[s]
        /\ route' = route /\ faults' = faults
        /\ \A v \in Users \ {u} : answer'[v] = answer[v]
        /\ call'[t].uid = u
    BY <1>10, <2>2 DEF BeginAllocate, redis, TypeInv, CallsOK, StoreOK, Idle
  <2>4. CallSync(call[t])'
    BY <1>10, <2>2 DEF BeginAllocate, CallSync, Idle, TypeInv, CallsOK, StoreOK
  <2>5. \A s \in Threads \ {t} : call[s].node # None =>
             heap'[call[s].node].name = heap[call[s].node].name
    <3>1. heap' = Collect(heap, Held(nodes', nodeList', call'))
      BY <1>10 DEF BeginAllocate
    <3>2. \A s \in Threads \ {t} : call[s].node \in Held(nodes', nodeList', call')
      BY <2>3 DEF Held
    <3>3. \A s \in Threads : call[s].node # None => call[s].node \in Objs
      BY <1>a DEF CallOK, Call
    <3> QED
      BY <3>1, <3>2, <3>3, CollectKeeps DEF TypeInv, RegistryOK
  <2>6. faults' <= 1 => Agree(u)'
    BY <1>10, <2>3 DEF BeginAllocate, Agree, RouteInv, TypeInv, StoreOK
  <2> QED
    BY <1>0, <2>1, <2>3, <2>4, <2>5, <2>6, RouteFrame
<1>11. ASSUME NEW t \in Threads, NEW u \in Users, BeginOnline(t, u)
      PROVE  RouteInv'
  <2>1. \A s \in Threads : call[s].uid # u
    BY <1>11 DEF BeginOnline, UserFree
  <2>2. call[t] = Idle
    BY <1>11, <1>a DEF BeginOnline, Begin, CallOK
  <2>3. /\ \A s \in Threads \ {t} : call'[s] = call[s]
        /\ route' = route /\ faults' = faults
        /\ \A v \in Users \ {u} : answer'[v] = answer[v]
        /\ call'[t].uid = u
    BY <1>11, <2>2 DEF BeginOnline, redis, TypeInv, CallsOK, StoreOK, Idle
  <2>4. CallSync(call[t])'
    BY <1>11, <2>2 DEF BeginOnline, CallSync, Idle, TypeInv, CallsOK
  <2>5. \A s \in Threads \ {t} : call[s].node # None =>
             heap'[call[s].node].name = heap[call[s].node].name
    BY <1>11 DEF BeginOnline, registry
  <2>6. faults' <= 1 => Agree(u)'
    BY <1>11, <2>3 DEF BeginOnline, Agree, RouteInv, TypeInv, StoreOK
  <2> QED
    BY <1>0, <2>1, <2>3, <2>4, <2>5, <2>6, RouteFrame
<1>12. ASSUME NEW t \in Threads, NEW u \in Users, BeginOffline(t, u)
      PROVE  RouteInv'
  <2>1. \A s \in Threads : call[s].uid # u
    BY <1>12 DEF BeginOffline, UserFree
  <2>2. call[t] = Idle
    BY <1>12, <1>a DEF BeginOffline, Begin, CallOK
  <2>3. /\ \A s \in Threads \ {t} : call'[s] = call[s]
        /\ route' = route /\ faults' = faults
        /\ \A v \in Users \ {u} : answer'[v] = answer[v]
        /\ call'[t].uid = u
    BY <1>12, <2>2 DEF BeginOffline, redis, TypeInv, CallsOK, StoreOK, Idle
  <2>4. CallSync(call[t])'
    BY <1>12, <2>2 DEF BeginOffline, CallSync, Idle, TypeInv, CallsOK
  <2>5. \A s \in Threads \ {t} : call[s].node # None =>
             heap'[call[s].node].name = heap[call[s].node].name
    BY <1>12 DEF BeginOffline, registry
  <2>6. faults' <= 1 => Agree(u)'
    BY <1>12, <2>3 DEF BeginOffline, Agree, RouteInv, TypeInv, StoreOK
  <2> QED
    BY <1>0, <2>1, <2>3, <2>4, <2>5, <2>6, RouteFrame
<1>13. ASSUME NEW t \in Threads, HandlerStep(t) PROVE RouteInv'
  <2>a. CallOK(call[t]) /\ CallSync(call[t])
    BY <1>a DEF RouteInv
  <2>u. PICK u : u = call[t].uid
    OBVIOUS
  <2>b. ASSUME call[t].uid \in Users, NEW c, call' = [call EXCEPT ![t] = c],
               c.uid \in {call[t].uid, None}, faults' >= faults,
               \A v \in Users \ {call[t].uid} : route'[v] = route[v] /\ answer'[v] = answer[v],
               \A s \in Threads \ {t} : call[s].node # None =>
                   heap'[call[s].node].name = heap[call[s].node].name,
               CallSync(c)', faults' <= 1 => Agree(u)'
        PROVE  RouteInv'
    <3>1. \A s \in Threads \ {t} : /\ call'[s] = call[s]
                                    /\ call[s].uid \in Users => call[s].uid # call[t].uid
      BY <2>b, OthersElsewhere DEF RouteInv
    <3>2. call'[t] = c
      BY <2>b DEF TypeInv, CallsOK
    <3> QED
      BY <1>0, <2>b, <2>u, <3>1, <3>2, RouteFrame
  <2>1. CASE SetNodeKey(t)
    <3>1. call' = [call EXCEPT ![t] = Idle] /\ UNCHANGED <<route, answer, heap>>
      BY <2>1 DEF SetNodeKey, Return, registry
    <3>2. faults' >= faults
      BY <1>0, <2>1 DEF SetNodeKey, Fault
    <3>3. /\ call'[t] = Idle /\ \A s \in Threads \ {t} : call'[s] = call[s]
          /\ CallSync(call[t])'
      BY <3>1 DEF CallSync, Idle, TypeInv, CallsOK
    <3> QED
      BY <1>0, <3>1, <3>2, <3>3, RouteFrame DEF Idle
  <2>2. CASE DelNodeKey(t)
    <3>1. call' = [call EXCEPT ![t] = Idle] /\ UNCHANGED <<route, answer, heap>>
      BY <2>2 DEF DelNodeKey, Return, registry
    <3>2. faults' >= faults
      BY <1>0, <2>2 DEF DelNodeKey, Fault
    <3>3. /\ call'[t] = Idle /\ \A s \in Threads \ {t} : call'[s] = call[s]
          /\ CallSync(call[t])'
      BY <3>1 DEF CallSync, Idle, TypeInv, CallsOK
    <3> QED
      BY <1>0, <3>1, <3>2, <3>3, RouteFrame DEF Idle
  <2>3. CASE ReadRoute(t)
    <3>0. call[t].uid \in Users
      BY <2>3, <2>a DEF ReadRoute, CallOK, Call
    <3>a. \/ call' = [call EXCEPT ![t].pc = "pick"]
          \/ call' = [call EXCEPT ![t].pc = "sticky", ![t].seen = route[call[t].uid]]
      BY <2>3 DEF ReadRoute, Goto
    <3>1. PICK c : /\ call' = [call EXCEPT ![t] = c]
                   /\ \/ c = [call[t] EXCEPT !.pc = "pick"]
                      \/ c = [call[t] EXCEPT !.pc = "sticky", !.seen = route[call[t].uid]]
      BY <3>a
    <3>2. c.uid \in {call[t].uid, None}
      BY <3>1, <2>a DEF CallOK, Call
    <3>3. faults' >= faults
      BY <1>0, <2>3 DEF ReadRoute, Fault
    <3>4. \A v \in Users \ {call[t].uid} : route'[v] = route[v] /\ answer'[v] = answer[v]
      BY <2>3 DEF ReadRoute, redis, Stored, RunScript, TypeInv, StoreOK
    <3>5. \A s \in Threads \ {t} : call[s].node # None =>
              heap'[call[s].node].name = heap[call[s].node].name
      BY <2>3 DEF ReadRoute, registry
    <3>6. CallSync(c)'
      BY <2>3, <2>a, <3>0, <3>1 DEF ReadRoute, redis, CallSync, CallOK, Call
    <3>7. faults' <= 1 => Agree(u)'
      BY <1>0, <2>3, <2>u, <3>0, <3>3, AgreeKept DEF ReadRoute, redis
    <3> QED
      BY <2>b, <2>u, <3>0, <3>1, <3>2, <3>3, <3>4, <3>5, <3>6, <3>7
  <2>4. CASE AnswerSticky(t)
    <3>0. call[t].uid \in Users
      BY <2>4, <2>a DEF AnswerSticky, CallOK, Call
    <3>1. PICK c : /\ call' = [call EXCEPT ![t] = c]
                   /\ c = Idle
      BY <2>4 DEF AnswerSticky, Return
    <3>2. c.uid \in {call[t].uid, None}
      BY <3>1, <2>a DEF Idle, CallOK, Call
    <3>3. faults' >= faults
      BY <1>0, <2>4 DEF AnswerSticky, Fault
    <3>4. \A v \in Users \ {call[t].uid} : route'[v] = route[v] /\ answer'[v] = answer[v]
      BY <2>4 DEF AnswerSticky, redis, Stored, RunScript, TypeInv, StoreOK
    <3>5. \A s \in Threads \ {t} : call[s].node # None =>
              heap'[call[s].node].name = heap[call[s].node].name
      BY <2>4 DEF AnswerSticky, registry
    <3>6. CallSync(c)'
      BY <3>1 DEF CallSync, Idle
    <3>7. faults' <= 1 => Agree(u)'
      <4>1. call[t].seen = route[call[t].uid] /\ call[t].seen # None
        BY <2>4, <2>a DEF AnswerSticky, CallSync, CallOK
      <4>2. answer'[call[t].uid].token = route[call[t].uid].token /\ route' = route
        BY <2>4, <3>0, <4>1 DEF AnswerSticky, redis, TypeInv, StoreOK
      <4> QED
        BY <2>4, <2>u, <3>0, <4>1, <4>2 DEF AnswerSticky, Agree, RouteInv
    <3> QED
      BY <2>b, <2>u, <3>0, <3>1, <3>2, <3>3, <3>4, <3>5, <3>6, <3>7
  <2>5. CASE StickyNodeGone(t)
    <3>0. call[t].uid \in Users
      BY <2>5, <2>a DEF StickyNodeGone, CallOK, Call
    <3>1. PICK c : /\ call' = [call EXCEPT ![t] = c]
                   /\ c = [call[t] EXCEPT !.pc = "pick"]
      BY <2>5, <2>a DEF StickyNodeGone, Goto
    <3>2. c.uid \in {call[t].uid, None}
      BY <3>1, <2>a DEF Idle, CallOK, Call
    <3>3. faults' >= faults
      BY <1>0, <2>5 DEF StickyNodeGone, Fault
    <3>4. \A v \in Users \ {call[t].uid} : route'[v] = route[v] /\ answer'[v] = answer[v]
      BY <2>5 DEF StickyNodeGone, redis, Stored, RunScript, TypeInv, StoreOK
    <3>5. \A s \in Threads \ {t} : call[s].node # None =>
              heap'[call[s].node].name = heap[call[s].node].name
      BY <2>5 DEF StickyNodeGone, registry
    <3>6. CallSync(c)'
      BY <2>5, <2>a, <3>1 DEF StickyNodeGone, CallSync, CallOK, Call
    <3>7. faults' <= 1 => Agree(u)'
      BY <1>0, <2>5, <2>u, <3>0, <3>3, AgreeKept DEF StickyNodeGone, redis
    <3> QED
      BY <2>b, <2>u, <3>0, <3>1, <3>2, <3>3, <3>4, <3>5, <3>6, <3>7
  <2>6. CASE PickLeastLoaded(t)
    <3>0. call[t].uid \in Users
      BY <2>6, <2>a DEF PickLeastLoaded, CallOK, Call
    <3>o. PICK o \in Objs : Reserve(t, o) /\ heap[o] # None
      BY <2>6 DEF PickLeastLoaded, TypeInv, RegistryOK, LeastLoaded, Fresh, Registered
    <3>1. PICK c : /\ call' = [call EXCEPT ![t] = c]
                   /\ c = [call[t] EXCEPT !.pc = "assign", !.node = o]
      BY <3>o DEF Reserve
    <3>2. c.uid \in {call[t].uid, None}
      BY <3>1, <2>a DEF Idle, CallOK, Call
    <3>3. faults' >= faults
      BY <1>0, <2>6 DEF PickLeastLoaded, Fault
    <3>4. \A v \in Users \ {call[t].uid} : route'[v] = route[v] /\ answer'[v] = answer[v]
      BY <2>6 DEF PickLeastLoaded, redis, Stored, RunScript, TypeInv, StoreOK
    <3>5. \A s \in Threads \ {t} : call[s].node # None =>
              heap'[call[s].node].name = heap[call[s].node].name
      BY <1>a, <3>o DEF Reserve, TypeInv, RegistryOK, NodeInfo, CallOK, Call
    <3>6. CallSync(c)'
      BY <2>6, <2>a, <3>1 DEF PickLeastLoaded, CallSync, CallOK, Call
    <3>7. faults' <= 1 => Agree(u)'
      BY <1>0, <2>6, <2>u, <3>0, <3>3, AgreeKept DEF PickLeastLoaded, redis
    <3> QED
      BY <2>b, <2>u, <3>0, <3>1, <3>2, <3>3, <3>4, <3>5, <3>6, <3>7
  <2>7. CASE PickRoundRobin(t)
    <3>0. call[t].uid \in Users
      BY <2>7, <2>a DEF PickRoundRobin, CallOK, Call
    <3>o. PICK o \in Objs : Reserve(t, o) /\ heap[o] # None
      BY <2>7 DEF PickRoundRobin, TypeInv, RegistryOK, Rebuilt, Registered
    <3>1. PICK c : /\ call' = [call EXCEPT ![t] = c]
                   /\ c = [call[t] EXCEPT !.pc = "assign", !.node = o]
      BY <3>o DEF Reserve
    <3>2. c.uid \in {call[t].uid, None}
      BY <3>1, <2>a DEF Idle, CallOK, Call
    <3>3. faults' >= faults
      BY <1>0, <2>7 DEF PickRoundRobin, Fault
    <3>4. \A v \in Users \ {call[t].uid} : route'[v] = route[v] /\ answer'[v] = answer[v]
      BY <2>7 DEF PickRoundRobin, redis, Stored, RunScript, TypeInv, StoreOK
    <3>5. \A s \in Threads \ {t} : call[s].node # None =>
              heap'[call[s].node].name = heap[call[s].node].name
      BY <1>a, <3>o DEF Reserve, TypeInv, RegistryOK, NodeInfo, CallOK, Call
    <3>6. CallSync(c)'
      BY <2>7, <2>a, <3>1 DEF PickRoundRobin, CallSync, CallOK, Call
    <3>7. faults' <= 1 => Agree(u)'
      BY <1>0, <2>7, <2>u, <3>0, <3>3, AgreeKept DEF PickRoundRobin, redis
    <3> QED
      BY <2>b, <2>u, <3>0, <3>1, <3>2, <3>3, <3>4, <3>5, <3>6, <3>7
  <2>8. CASE NoNodeAvailable(t)
    <3>0. call[t].uid \in Users
      BY <2>8, <2>a DEF NoNodeAvailable, CallOK, Call
    <3>1. PICK c : /\ call' = [call EXCEPT ![t] = c]
                   /\ c = Idle
      BY <2>8 DEF NoNodeAvailable, Return
    <3>2. c.uid \in {call[t].uid, None}
      BY <3>1, <2>a DEF Idle, CallOK, Call
    <3>3. faults' >= faults
      BY <1>0, <2>8 DEF NoNodeAvailable, Fault
    <3>4. \A v \in Users \ {call[t].uid} : route'[v] = route[v] /\ answer'[v] = answer[v]
      BY <2>8 DEF NoNodeAvailable, redis, Stored, RunScript, TypeInv, StoreOK
    <3>5. \A s \in Threads \ {t} : call[s].node # None =>
              heap'[call[s].node].name = heap[call[s].node].name
      BY <2>8 DEF NoNodeAvailable, registry
    <3>6. CallSync(c)'
      BY <3>1 DEF CallSync, Idle
    <3>7. faults' <= 1 => Agree(u)'
      BY <1>0, <2>8, <2>u, <3>0, <3>3, AgreeKept DEF NoNodeAvailable, redis
    <3> QED
      BY <2>b, <2>u, <3>0, <3>1, <3>2, <3>3, <3>4, <3>5, <3>6, <3>7
  <2>9. CASE Assign(t)
    <3>0. call[t].uid \in Users
      BY <2>9, <2>a DEF Assign, CallOK, Call
    <3>1. PICK c : /\ call' = [call EXCEPT ![t] = c]
                   /\ c = [call[t] EXCEPT !.pc = "persist"]
      BY <2>9, <2>a DEF Assign, Goto
    <3>2. c.uid \in {call[t].uid, None}
      BY <3>1, <2>a DEF Idle, CallOK, Call
    <3>3. faults' >= faults
      BY <1>0, <2>9 DEF Assign, Fault
    <3>4. \A v \in Users \ {call[t].uid} : route'[v] = route[v] /\ answer'[v] = answer[v]
      BY <2>9 DEF Assign, redis, Stored, RunScript, TypeInv, StoreOK
    <3>5. \A s \in Threads \ {t} : call[s].node # None =>
              heap'[call[s].node].name = heap[call[s].node].name
      BY <2>9 DEF Assign, registry
    <3>6. CallSync(c)'
      <4>1. faults' = 0 => route'[call[t].uid] = RouteTo(call[t].uid, call[t].node)
        BY <1>0, <2>9, <3>0 DEF Assign, RunScript, Fault, TypeInv, StoreOK
      <4>2. RouteTo(call[t].uid, call[t].node) \in Route
        BY <1>a, <2>9, <3>0, RouteToType DEF Assign, CallOK, Call, TypeInv
      <4>3. RouteTo(call[t].uid, call[t].node).name = heap'[call[t].node].name
        BY <2>9 DEF Assign, RouteTo, registry
      <4>4. c.pc = "persist" /\ c.uid = call[t].uid /\ c.node = call[t].node
        BY <2>a, <3>1 DEF CallOK, Call
      <4>5. answer'[call[t].uid] = None
        BY <2>9, <2>a DEF Assign, CallSync
      <4> QED
        BY <4>1, <4>2, <4>3, <4>4, <4>5 DEF CallSync
    <3>7. faults' <= 1 => Agree(u)'
      <4>1. answer'[call[t].uid] = None
        BY <2>9, <2>a DEF Assign, CallSync
      <4>2. \/ route' = route
            \/ route'[call[t].uid] = RouteTo(call[t].uid, call[t].node)
        BY <2>9, <3>0 DEF Assign, RunScript, TypeInv, StoreOK
      <4>5. RouteTo(call[t].uid, call[t].node) \in Route
        BY <1>a, <2>9, <3>0, RouteToType DEF Assign, CallOK, Call, TypeInv
      <4>3. route' = route /\ faults' <= 1 => Agree(u)'
        BY <1>0, <2>u, <3>0, <3>3, <4>1 DEF Agree, RouteInv
      <4> QED
        BY <2>u, <4>1, <4>2, <4>3, <4>5 DEF Agree, RouteTo, TokenFor
    <3> QED
      BY <2>b, <2>u, <3>0, <3>1, <3>2, <3>3, <3>4, <3>5, <3>6, <3>7
  <2>10. CASE Persist(t)
    <3>0. call[t].uid \in Users
      BY <2>10, <2>a DEF Persist, CallOK, Call
    <3>1. PICK c : /\ call' = [call EXCEPT ![t] = c]
                   /\ c = Idle
      BY <2>10 DEF Persist, Return
    <3>2. c.uid \in {call[t].uid, None}
      BY <3>1, <2>a DEF Idle, CallOK, Call
    <3>3. faults' >= faults
      BY <1>0, <2>10 DEF Persist, Fault
    <3>4. \A v \in Users \ {call[t].uid} : route'[v] = route[v] /\ answer'[v] = answer[v]
      BY <2>10 DEF Persist, redis, Stored, RunScript, TypeInv, StoreOK
    <3>5. \A s \in Threads \ {t} : call[s].node # None =>
              heap'[call[s].node].name = heap[call[s].node].name
      <4>1. heap' = Collect(heap, Held(nodes, nodeList, call'))
        BY <2>10 DEF Persist
      <4>2. \A s \in Threads \ {t} : call[s].node \in Held(nodes, nodeList, call')
        BY <3>1 DEF Held
      <4>3. \A s \in Threads : call[s].node # None => call[s].node \in Objs
        BY <1>a DEF CallOK, Call
      <4> QED
        BY <4>1, <4>2, <4>3, CollectKeeps DEF TypeInv, RegistryOK
    <3>6. CallSync(c)'
      BY <3>1 DEF CallSync, Idle
    <3>7. faults' <= 1 => Agree(u)'
      <4> DEFINE new == RouteTo(call[t].uid, call[t].node)
      <4>1. new.token.name = new.name /\ new.name = heap[call[t].node].name /\ new \in Route
        BY <1>a, <2>10, <3>0, RouteToType DEF Persist, RouteTo, TokenFor, CallOK, Call, TypeInv
      <4>2. answer'[call[t].uid].token = new.token
        BY <2>10, <3>0 DEF Persist, TypeInv, StoreOK
      <4>3. CASE route'[call[t].uid] = new
        BY <2>u, <4>1, <4>2, <4>3 DEF Agree
      <4>4. CASE route' = route /\ Fault
        <5>1. SUFFICES ASSUME faults' <= 1 PROVE Agree(u)'
          OBVIOUS
        <5>2. faults = 0
          BY <1>0, <4>4, <5>1 DEF Fault
        <5>3. route[call[t].uid] # None /\ route[call[t].uid].name = new.name
          BY <2>10, <2>a, <4>1, <5>2 DEF Persist, CallSync
        <5>4. Agree(call[t].uid)
          BY <3>0, <5>2 DEF RouteInv
        <5> QED
          BY <2>u, <4>1, <4>2, <4>4, <5>3, <5>4 DEF Agree
      <4> QED
        BY <2>10, <3>0, <4>3, <4>4 DEF Persist, Stored, TypeInv, StoreOK
    <3> QED
      BY <2>b, <2>u, <3>0, <3>1, <3>2, <3>3, <3>4, <3>5, <3>6, <3>7
  <2>11. CASE OnlineRead(t)
    <3>0. call[t].uid \in Users
      BY <2>11, <2>a DEF OnlineRead, CallOK, Call
    <3>1. PICK c : /\ call' = [call EXCEPT ![t] = c]
                   /\ \/ c = [call[t] EXCEPT !.pc = "onlineWrite", !.seen = route[call[t].uid]]
                      \/ c = [call[t] EXCEPT !.pc = "onlineWrite"]
      BY <2>11, <2>a DEF OnlineRead, Goto
    <3>2. c.uid \in {call[t].uid, None}
      BY <3>1, <2>a DEF Idle, CallOK, Call
    <3>3. faults' >= faults
      BY <1>0, <2>11 DEF OnlineRead, Fault
    <3>4. \A v \in Users \ {call[t].uid} : route'[v] = route[v] /\ answer'[v] = answer[v]
      BY <2>11 DEF OnlineRead, redis, Stored, RunScript, TypeInv, StoreOK
    <3>5. \A s \in Threads \ {t} : call[s].node # None =>
              heap'[call[s].node].name = heap[call[s].node].name
      BY <2>11 DEF OnlineRead, registry
    <3>6. CallSync(c)'
      BY <2>11, <2>a, <3>0, <3>1 DEF OnlineRead, redis, CallSync, CallOK, Call
    <3>7. faults' <= 1 => Agree(u)'
      BY <1>0, <2>11, <2>u, <3>0, <3>3, AgreeKept DEF OnlineRead, redis
    <3> QED
      BY <2>b, <2>u, <3>0, <3>1, <3>2, <3>3, <3>4, <3>5, <3>6, <3>7
  <2>12. CASE OnlineWrite(t)
    <3>0. call[t].uid \in Users
      BY <2>12, <2>a DEF OnlineWrite, ReportedName, CallOK, Call
    <3>1. PICK c : /\ call' = [call EXCEPT ![t] = c]
                   /\ c = Idle
      BY <2>12 DEF OnlineWrite, ReportedName, Return
    <3>2. c.uid \in {call[t].uid, None}
      BY <3>1, <2>a DEF Idle, CallOK, Call
    <3>3. faults' >= faults
      BY <1>0, <2>12 DEF OnlineWrite, ReportedName, Fault
    <3>4. \A v \in Users \ {call[t].uid} : route'[v] = route[v] /\ answer'[v] = answer[v]
      BY <2>12 DEF OnlineWrite, ReportedName, redis, Stored, RunScript, TypeInv, StoreOK
    <3>5. \A s \in Threads \ {t} : call[s].node # None =>
              heap'[call[s].node].name = heap[call[s].node].name
      BY <2>12 DEF OnlineWrite, ReportedName, registry
    <3>6. CallSync(c)'
      BY <3>1 DEF CallSync, Idle
    <3>7. faults' <= 1 => Agree(u)'
      <4>1. SUFFICES ASSUME faults' <= 1 PROVE Agree(u)'
        OBVIOUS
      <4>2. Agree(call[t].uid)
        BY <1>0, <3>0, <3>3, <4>1 DEF RouteInv
      <4>3. /\ call[t].req = answer[call[t].uid] /\ call[t].req # None
            /\ call[t].seen # None => call[t].seen = route[call[t].uid]
        BY <2>12, <2>a DEF OnlineWrite, ReportedName, CallSync, CallOK
      <4>4. CASE route' = route
        BY <2>12, <2>u, <4>2, <4>4 DEF OnlineWrite, ReportedName, Agree
      <4>5. CASE route' # route
        <5>1. /\ route'[call[t].uid].token = call[t].req.token
              /\ route'[call[t].uid].name =
                    IF call[t].seen = None THEN call[t].req.token.name ELSE call[t].seen.name
              /\ route'[call[t].uid] = [name |-> IF call[t].seen = None THEN call[t].req.token.name ELSE call[t].seen.name,
                    addr |-> call[t].req.addr, token |-> call[t].req.token, online |-> TRUE]
          BY <2>12, <3>0, <4>5 DEF OnlineWrite, ReportedName, Stored, TypeInv, StoreOK
        <5>2. route'[call[t].uid] # None
          <6>1. call[t].req \in Answer /\ call[t].seen \in Route \cup {None}
            BY <2>a, <4>3 DEF CallOK, Call
          <6>2. route'[call[t].uid] \in Route
            BY <5>1, <6>1 DEF Answer, Route, Token
          <6> QED
            BY <6>2
        <5>3. route'[call[t].uid].name = call[t].req.token.name
          BY <4>2, <4>3, <5>1 DEF Agree
        <5> QED
          BY <2>12, <2>u, <4>3, <5>1, <5>2, <5>3 DEF OnlineWrite, ReportedName, Agree
      <4> QED
        BY <4>4, <4>5
    <3> QED
      BY <2>b, <2>u, <3>0, <3>1, <3>2, <3>3, <3>4, <3>5, <3>6, <3>7
  <2>13. CASE OfflineRead(t)
    <3>0. call[t].uid \in Users
      BY <2>13, <2>a DEF OfflineRead, CallOK, Call
    <3>1. PICK c : /\ call' = [call EXCEPT ![t] = c]
                   /\ \/ c = [call[t] EXCEPT !.pc = "offlineDecr", !.seen = route[call[t].uid]]
                      \/ c = Idle
      <4>1. \/ call' = [call EXCEPT ![t] =
                   [call[t] EXCEPT !.pc = "offlineDecr", !.seen = route[call[t].uid]]]
            \/ call' = [call EXCEPT ![t] = Idle]
        BY <2>13 DEF OfflineRead, Return, TypeInv, CallsOK
      <4> QED
        BY <4>1
    <3>2. c.uid \in {call[t].uid, None}
      <4>1. CASE c = Idle
        BY <4>1 DEF Idle
      <4>2. CASE c = [call[t] EXCEPT !.pc = "offlineDecr", !.seen = route[call[t].uid]]
        BY <4>2, <2>a DEF CallOK, Call
      <4> QED
        BY <3>1, <4>1, <4>2
    <3>3. faults' >= faults
      BY <1>0, <2>13 DEF OfflineRead, Fault
    <3>4. \A v \in Users \ {call[t].uid} : route'[v] = route[v] /\ answer'[v] = answer[v]
      BY <2>13 DEF OfflineRead, redis, Stored, RunScript, TypeInv, StoreOK
    <3>5. \A s \in Threads \ {t} : call[s].node # None =>
              heap'[call[s].node].name = heap[call[s].node].name
      BY <2>13 DEF OfflineRead, registry
    <3>6. CallSync(c)'
      <4>1. CASE c = Idle
        BY <4>1 DEF CallSync, Idle
      <4>2. CASE c = [call[t] EXCEPT !.pc = "offlineDecr", !.seen = route[call[t].uid]]
        BY <2>13, <2>a, <4>2 DEF OfflineRead, redis, CallSync, CallOK, Call
      <4> QED
        BY <3>1, <4>1, <4>2
    <3>7. faults' <= 1 => Agree(u)'
      BY <1>0, <2>13, <2>u, <3>0, <3>3, AgreeKept DEF OfflineRead, redis
    <3> QED
      BY <2>b, <2>u, <3>0, <3>1, <3>2, <3>3, <3>4, <3>5, <3>6, <3>7
  <2>14. CASE OfflineDecr(t)
    <3>0. call[t].uid \in Users
      BY <2>14, <2>a DEF OfflineDecr, CallOK, Call
    <3>1. PICK c : /\ call' = [call EXCEPT ![t] = c]
                   /\ c = [call[t] EXCEPT !.pc = "offlineWrite"]
      BY <2>14, <2>a DEF OfflineDecr, Goto
    <3>2. c.uid \in {call[t].uid, None}
      BY <3>1, <2>a DEF Idle, CallOK, Call
    <3>3. faults' >= faults
      BY <1>0, <2>14 DEF OfflineDecr, Fault
    <3>4. \A v \in Users \ {call[t].uid} : route'[v] = route[v] /\ answer'[v] = answer[v]
      BY <2>14 DEF OfflineDecr, redis, Stored, RunScript, TypeInv, StoreOK
    <3>5. \A s \in Threads \ {t} : call[s].node # None =>
              heap'[call[s].node].name = heap[call[s].node].name
      BY <2>14 DEF OfflineDecr, registry
    <3>6. CallSync(c)'
      BY <2>14, <2>a, <3>0, <3>1 DEF OfflineDecr, CallSync, CallOK, Call
    <3>7. faults' <= 1 => Agree(u)'
      BY <1>0, <2>14, <2>u, <3>0, <3>3, AgreeKept DEF OfflineDecr, redis
    <3> QED
      BY <2>b, <2>u, <3>0, <3>1, <3>2, <3>3, <3>4, <3>5, <3>6, <3>7
  <2>15. CASE OfflineWrite(t)
    <3>0. call[t].uid \in Users
      BY <2>15, <2>a DEF OfflineWrite, CallOK, Call
    <3>1. PICK c : /\ call' = [call EXCEPT ![t] = c]
                   /\ c = Idle
      BY <2>15 DEF OfflineWrite, Return
    <3>2. c.uid \in {call[t].uid, None}
      BY <3>1, <2>a DEF Idle, CallOK, Call
    <3>3. faults' >= faults
      BY <1>0, <2>15 DEF OfflineWrite, Fault
    <3>4. \A v \in Users \ {call[t].uid} : route'[v] = route[v] /\ answer'[v] = answer[v]
      BY <2>15 DEF OfflineWrite, redis, Stored, RunScript, TypeInv, StoreOK
    <3>5. \A s \in Threads \ {t} : call[s].node # None =>
              heap'[call[s].node].name = heap[call[s].node].name
      BY <2>15 DEF OfflineWrite, registry
    <3>6. CallSync(c)'
      BY <3>1 DEF CallSync, Idle
    <3>7. faults' <= 1 => Agree(u)'
      <4>1. call[t].seen = route[call[t].uid] /\ call[t].seen \in Route
        BY <2>15, <2>a DEF OfflineWrite, CallSync, CallOK, Call
      <4>2. [call[t].seen EXCEPT !.online = FALSE] \in Route
        BY <4>1 DEF Route
      <4>3. \/ route' = route
            \/ route'[call[t].uid] = [call[t].seen EXCEPT !.online = FALSE]
        BY <2>15, <3>0 DEF OfflineWrite, Stored, TypeInv, StoreOK
      <4>4. answer' = answer
        BY <2>15 DEF OfflineWrite
      <4>5. faults' <= 1 => Agree(call[t].uid)
        BY <1>0, <3>0, <3>3 DEF RouteInv
      <4> QED
        BY <2>u, <4>1, <4>2, <4>3, <4>4, <4>5 DEF Agree, Route
    <3> QED
      BY <2>b, <2>u, <3>0, <3>1, <3>2, <3>3, <3>4, <3>5, <3>6, <3>7
  <2> QED
    BY <1>13, <2>1, <2>2, <2>3, <2>4, <2>5, <2>6, <2>7, <2>8, <2>9, <2>10, <2>11, <2>12, <2>13, <2>14, <2>15 DEF HandlerStep
<1> QED
  BY <1>1, <1>2, <1>3, <1>4, <1>5, <1>6, <1>7, <1>8, <1>9, <1>10, <1>11, <1>12, <1>13 DEF Next, NodeRpc, UserRpc

LEMMA RouteInvariant ==
  ASSUME Serial, ScriptLoaded
  PROVE  Spec => []RouteInv
<1>1. Init => RouteInv
  BY RouteInit
<1>2. TypeInv /\ TypeInv' /\ RouteInv /\ [Next]_vars => RouteInv'
  BY RouteStep
<1> QED
  BY <1>1, <1>2, TypeInvariant, PTL DEF Spec

(* Where the script is loaded and calls about one user follow each other,  *)
(* the stored route names the server the user was last sent to, one Redis  *)
(* failure notwithstanding.                                                *)
THEOREM RouteAgreesWithAnswer ==
  ASSUME Serial, ScriptLoaded
  PROVE  Spec => []RouteMatchesAnswer
<1>1. RouteInv => RouteMatchesAnswer
  BY DEF RouteInv, RouteMatchesAnswer, Agree
<1> QED
  BY <1>1, RouteInvariant, PTL

-----------------------------------------------------------------------------
(* The reservations of the allocations in flight.                          *)

Holders(o) == {t \in Threads : call[t].node = o}

LEMMA HoldersFinite ==
  ASSUME NEW o \in Objs
  PROVE  IsFiniteSet(Holders(o)) /\ Cardinality(Holders(o)) \in Nat
BY ConstantsAssumption, FS_Subset, FS_CardinalityType DEF Holders

(* A step that gives o no new holder and takes nothing off its load.       *)
LEMMA ReservedFrame ==
  ASSUME NEW o \in Objs, TypeInv, TypeInv', InflightReserved, heap[o] # None, heap'[o] # None,
         heap'[o].load >= heap[o].load,
         \A t \in Threads : call'[t].node = o => call[t].node = o
  PROVE  heap'[o].load >= Cardinality(Holders(o)')
<1>1. Holders(o)' \subseteq Holders(o)
  BY DEF Holders
<1>2. Cardinality(Holders(o)') <= Cardinality(Holders(o)) /\ Cardinality(Holders(o)') \in Nat
  BY <1>1, HoldersFinite, FS_Subset, FS_CardinalityType
<1>3. heap[o].load >= Cardinality(Holders(o))
  BY DEF InflightReserved, Holders
<1>4. heap[o].load \in Nat /\ heap'[o].load \in Nat
  BY DEF TypeInv, RegistryOK, NodeInfo
<1> QED
  BY <1>2, <1>3, <1>4, HoldersFinite

LEMMA ReservedStep ==
  TypeInv /\ TypeInv' /\ InflightReserved /\ [Next]_vars => InflightReserved'
<1> SUFFICES ASSUME TypeInv, TypeInv', InflightReserved, [Next]_vars,
                    NEW o \in Objs, heap'[o] # None
             PROVE  heap'[o].load >= Cardinality(Holders(o)')
  BY DEF InflightReserved, Holders
<1> USE ConstantsAssumption
<1>a. /\ \A t \in Threads : CallOK(call[t]) /\ (call[t].node # None => heap[call[t].node] # None)
      /\ \A p \in Objs : heap[p] # None => heap[p] \in NodeInfo
  BY DEF TypeInv, CallsOK, RegistryOK
<1>b. \A p \in Objs : heap[p] # None => heap[p].load \in Nat
  BY <1>a DEF NodeInfo
<1>1. CASE UNCHANGED vars
  BY <1>1, <1>b, ReservedFrame DEF vars, registry
<1>2. CASE Tick
  BY <1>2, <1>b, ReservedFrame DEF Tick, registry
<1>3. CASE Restart
  BY <1>3 DEF Restart
<1>4. CASE KickDelivered
  BY <1>4, <1>b, ReservedFrame DEF KickDelivered, registry
<1>5. ASSUME NEW a \in Addrs, Heartbeat(a)
      PROVE  heap'[o].load >= Cardinality(Holders(o)')
  <2>1. heap[o] # None /\ heap'[o].load = heap[o].load
    BY <1>5, <1>a DEF Heartbeat, TypeInv, RegistryOK, NodeInfo
  <2> QED
    BY <1>5, <1>b, <2>1, ReservedFrame DEF Heartbeat
<1>6. ASSUME NEW u \in Users, KickUser(u)
      PROVE  heap'[o].load >= Cardinality(Holders(o)')
  BY <1>6, <1>b, ReservedFrame DEF KickUser, registry
<1>7. ASSUME NEW t \in Threads, NEW n \in Names, NEW a \in Addrs,
             NEW c \in Capacities, RegisterNew(t, n, a, c)
      PROVE  heap'[o].load >= Cardinality(Holders(o)')
  <2>n. \A s \in Threads : call'[s].node = o => call[s].node = o
    BY <1>7, <1>a DEF RegisterNew, Begin, CallOK, Call, Idle, TypeInv, CallsOK
  <2>1. CASE heap[o] = None
    <3>1. Holders(o)' = {}
      BY <1>a, <2>1, <2>n DEF Holders
    <3>2. heap'[o].load \in Nat
      BY DEF TypeInv, RegistryOK, NodeInfo
    <3> QED
      BY <3>1, <3>2, FS_EmptySet
  <2>2. CASE heap[o] # None
    <3>1. heap'[o] = heap[o]
      BY <1>7, <2>2 DEF RegisterNew, TypeInv, RegistryOK
    <3> QED
      BY <1>b, <2>2, <2>n, <3>1, ReservedFrame
  <2> QED
    BY <2>1, <2>2
<1>8. ASSUME NEW t \in Threads, NEW n \in Names, NEW a \in Addrs,
             NEW c \in Capacities, RegisterAgain(t, n, a, c)
      PROVE  heap'[o].load >= Cardinality(Holders(o)')
  <2>n. \A s \in Threads : call'[s].node = o => call[s].node = o
    BY <1>8, <1>a DEF RegisterAgain, Begin, CallOK, Call, Idle, TypeInv, CallsOK
  <2>1. heap[o] # None /\ heap'[o].load = heap[o].load
    BY <1>8, <1>a DEF RegisterAgain, Updated, TypeInv, RegistryOK, NodeInfo
  <2> QED
    BY <1>b, <2>1, <2>n, ReservedFrame
<1>9. ASSUME NEW t \in Threads, NEW n \in Names, DeregisterNode(t, n)
      PROVE  heap'[o].load >= Cardinality(Holders(o)')
  <2>n. \A s \in Threads : call'[s].node = o => call[s].node = o
    BY <1>9, <1>a DEF DeregisterNode, Begin, CallOK, Call, Idle, TypeInv, CallsOK
  <2>1. heap[o] # None /\ heap'[o] = heap[o]
    BY <1>9 DEF DeregisterNode, Collect
  <2> QED
    BY <1>b, <2>1, <2>n, ReservedFrame
<1>10. ASSUME NEW t \in Threads, NEW u \in Users, BeginAllocate(t, u)
      PROVE  heap'[o].load >= Cardinality(Holders(o)')
  <2>n. \A s \in Threads : call'[s].node = o => call[s].node = o
    BY <1>10, <1>a DEF BeginAllocate, Begin, CallOK, Call, Idle, TypeInv, CallsOK
  <2>1. heap[o] # None /\ heap'[o] = heap[o]
    BY <1>10 DEF BeginAllocate, Collect
  <2> QED
    BY <1>b, <2>1, <2>n, ReservedFrame
<1>11. ASSUME NEW t \in Threads, NEW u \in Users, BeginOnline(t, u)
      PROVE  heap'[o].load >= Cardinality(Holders(o)')
  <2>n. \A s \in Threads : call'[s].node = o => call[s].node = o
    BY <1>11, <1>a DEF BeginOnline, Begin, CallOK, Call, Idle, TypeInv, CallsOK
  <2>1. heap' = heap
    BY <1>11 DEF BeginOnline, registry
  <2> QED
    BY <1>b, <2>n, <2>1, ReservedFrame
<1>12. ASSUME NEW t \in Threads, NEW u \in Users, BeginOffline(t, u)
      PROVE  heap'[o].load >= Cardinality(Holders(o)')
  <2>n. \A s \in Threads : call'[s].node = o => call[s].node = o
    BY <1>12, <1>a DEF BeginOffline, Begin, CallOK, Call, Idle, TypeInv, CallsOK
  <2>1. heap' = heap
    BY <1>12 DEF BeginOffline, registry
  <2> QED
    BY <1>b, <2>n, <2>1, ReservedFrame
<1>13. ASSUME NEW t \in Threads, HandlerStep(t)
       PROVE  heap'[o].load >= Cardinality(Holders(o)')
  <2>a. CallOK(call[t])
    BY <1>a
  <2>1. CASE SetNodeKey(t)
    <3>1. \A s \in Threads : call'[s].node = o => call[s].node = o
      BY <2>1, <2>a DEF SetNodeKey, Return, Goto, Idle, TypeInv, CallsOK, CallOK, Call
    <3> QED
      BY <2>1, <1>b, <3>1, ReservedFrame DEF SetNodeKey, registry
  <2>2. CASE DelNodeKey(t)
    <3>1. \A s \in Threads : call'[s].node = o => call[s].node = o
      BY <2>2, <2>a DEF DelNodeKey, Return, Goto, Idle, TypeInv, CallsOK, CallOK, Call
    <3> QED
      BY <2>2, <1>b, <3>1, ReservedFrame DEF DelNodeKey, registry
  <2>3. CASE ReadRoute(t)
    <3>1. \A s \in Threads : call'[s].node = o => call[s].node = o
      BY <2>3, <2>a DEF ReadRoute, Return, Goto, Idle, TypeInv, CallsOK, CallOK, Call
    <3> QED
      BY <2>3, <1>b, <3>1, ReservedFrame DEF ReadRoute, registry
  <2>4. CASE AnswerSticky(t)
    <3>1. \A s \in Threads : call'[s].node = o => call[s].node = o
      BY <2>4, <2>a DEF AnswerSticky, Return, Goto, Idle, TypeInv, CallsOK, CallOK, Call
    <3> QED
      BY <2>4, <1>b, <3>1, ReservedFrame DEF AnswerSticky, registry
  <2>5. CASE StickyNodeGone(t)
    <3>1. \A s \in Threads : call'[s].node = o => call[s].node = o
      BY <2>5, <2>a DEF StickyNodeGone, Return, Goto, Idle, TypeInv, CallsOK, CallOK, Call
    <3> QED
      BY <2>5, <1>b, <3>1, ReservedFrame DEF StickyNodeGone, registry
  <2>6. CASE PickLeastLoaded(t)
    <3>1. PICK p \in Objs : Reserve(t, p) /\ heap[p] # None
      BY <2>6 DEF PickLeastLoaded, TypeInv, RegistryOK, LeastLoaded, Fresh, Registered
    <3>2. call[t].node = None
      BY <2>6, <2>a DEF PickLeastLoaded, CallOK
    <3>3. \A s \in Threads : call'[s].node = IF s = t THEN p ELSE call[s].node
      BY <3>1 DEF Reserve, TypeInv, CallsOK, CallOK, Call
    <3>4. CASE o = p
      <4>1. Holders(o)' = Holders(o) \cup {t} /\ t \notin Holders(o)
        BY <3>2, <3>3, <3>4 DEF Holders
      <4>2. Cardinality(Holders(o)') = Cardinality(Holders(o)) + 1
        BY <4>1, HoldersFinite, FS_AddElement
      <4>3. heap'[o].load = heap[o].load + 1
        BY <1>a, <3>1, <3>4 DEF Reserve, TypeInv, RegistryOK, NodeInfo
      <4>4. heap[o].load >= Cardinality(Holders(o)) /\ heap[o].load \in Nat
        BY <1>b, <3>1, <3>4 DEF InflightReserved, Holders
      <4> QED
        BY <4>2, <4>3, <4>4, HoldersFinite
    <3>5. CASE o # p
      <4>1. heap'[o] = heap[o]
        BY <3>1, <3>5 DEF Reserve, TypeInv, RegistryOK
      <4> QED
        BY <1>b, <3>3, <3>5, <4>1, ReservedFrame
    <3> QED
      BY <3>4, <3>5
  <2>7. CASE PickRoundRobin(t)
    <3>1. PICK p \in Objs : Reserve(t, p) /\ heap[p] # None
      BY <2>7 DEF PickRoundRobin, TypeInv, RegistryOK, Rebuilt, Registered
    <3>2. call[t].node = None
      BY <2>7, <2>a DEF PickRoundRobin, CallOK
    <3>3. \A s \in Threads : call'[s].node = IF s = t THEN p ELSE call[s].node
      BY <3>1 DEF Reserve, TypeInv, CallsOK, CallOK, Call
    <3>4. CASE o = p
      <4>1. Holders(o)' = Holders(o) \cup {t} /\ t \notin Holders(o)
        BY <3>2, <3>3, <3>4 DEF Holders
      <4>2. Cardinality(Holders(o)') = Cardinality(Holders(o)) + 1
        BY <4>1, HoldersFinite, FS_AddElement
      <4>3. heap'[o].load = heap[o].load + 1
        BY <1>a, <3>1, <3>4 DEF Reserve, TypeInv, RegistryOK, NodeInfo
      <4>4. heap[o].load >= Cardinality(Holders(o)) /\ heap[o].load \in Nat
        BY <1>b, <3>1, <3>4 DEF InflightReserved, Holders
      <4> QED
        BY <4>2, <4>3, <4>4, HoldersFinite
    <3>5. CASE o # p
      <4>1. heap'[o] = heap[o]
        BY <3>1, <3>5 DEF Reserve, TypeInv, RegistryOK
      <4> QED
        BY <1>b, <3>3, <3>5, <4>1, ReservedFrame
    <3> QED
      BY <3>4, <3>5
  <2>8. CASE NoNodeAvailable(t)
    <3>1. \A s \in Threads : call'[s].node = o => call[s].node = o
      BY <2>8, <2>a DEF NoNodeAvailable, Return, Goto, Idle, TypeInv, CallsOK, CallOK, Call
    <3> QED
      BY <2>8, <1>b, <3>1, ReservedFrame DEF NoNodeAvailable, registry
  <2>9. CASE Assign(t)
    <3>1. \A s \in Threads : call'[s].node = o => call[s].node = o
      BY <2>9, <2>a DEF Assign, Return, Goto, Idle, TypeInv, CallsOK, CallOK, Call
    <3> QED
      BY <2>9, <1>b, <3>1, ReservedFrame DEF Assign, registry
  <2>10. CASE Persist(t)
    <3>1. heap[o] # None /\ heap'[o] = heap[o]
      BY <2>10 DEF Persist, Collect
    <3>2. \A s \in Threads : call'[s].node = o => call[s].node = o
      BY <2>10 DEF Persist, Return, Idle, TypeInv, CallsOK
    <3> QED
      BY <1>b, <3>1, <3>2, ReservedFrame
  <2>11. CASE OnlineRead(t)
    <3>1. \A s \in Threads : call'[s].node = o => call[s].node = o
      BY <2>11, <2>a DEF OnlineRead, Return, Goto, Idle, TypeInv, CallsOK, CallOK, Call
    <3> QED
      BY <2>11, <1>b, <3>1, ReservedFrame DEF OnlineRead, registry
  <2>12. CASE OnlineWrite(t)
    <3>1. \A s \in Threads : call'[s].node = o => call[s].node = o
      BY <2>12, <2>a DEF OnlineWrite, ReportedName, Return, Goto, Idle, TypeInv, CallsOK, CallOK, Call
    <3> QED
      BY <2>12, <1>b, <3>1, ReservedFrame DEF OnlineWrite, ReportedName, registry
  <2>13. CASE OfflineRead(t)
    <3>1. \A s \in Threads : call'[s].node = o => call[s].node = o
      BY <2>13, <2>a DEF OfflineRead, Return, Goto, Idle, TypeInv, CallsOK, CallOK, Call
    <3> QED
      BY <2>13, <1>b, <3>1, ReservedFrame DEF OfflineRead, registry
  <2>14. CASE OfflineDecr(t)
    <3>1. \A s \in Threads : call'[s].node = o => call[s].node = o
      BY <2>14, <2>a DEF OfflineDecr, Return, Goto, Idle, TypeInv, CallsOK, CallOK, Call
    <3> QED
      BY <2>14, <1>b, <3>1, ReservedFrame DEF OfflineDecr, registry
  <2>15. CASE OfflineWrite(t)
    <3>1. \A s \in Threads : call'[s].node = o => call[s].node = o
      BY <2>15, <2>a DEF OfflineWrite, Return, Goto, Idle, TypeInv, CallsOK, CallOK, Call
    <3> QED
      BY <2>15, <1>b, <3>1, ReservedFrame DEF OfflineWrite, registry
  <2> QED
    BY <1>13, <2>1, <2>2, <2>3, <2>4, <2>5, <2>6, <2>7, <2>8, <2>9, <2>10, <2>11, <2>12, <2>13, <2>14, <2>15 DEF HandlerStep
<1> QED
  BY <1>1, <1>2, <1>3, <1>4, <1>5, <1>6, <1>7, <1>8, <1>9, <1>10, <1>11, <1>12, <1>13 DEF Next, NodeRpc, UserRpc

(* The load of a NodeInfo object counts at least the allocations that have *)
(* picked this object and have not answered, over registrations of the     *)
(* known node, heartbeats, and its removal while they hold it.  It says    *)
(* nothing of a new object the same node gets when it registers again.     *)
THEOREM ReservationsCounted == Spec => []InflightReserved
<1>1. Init => InflightReserved
  BY DEF Init, InflightReserved
<1>2. TypeInv /\ TypeInv' /\ InflightReserved /\ [Next]_vars => InflightReserved'
  BY ReservedStep
<1> QED
  BY <1>1, <1>2, TypeInvariant, PTL DEF Spec
-----------------------------------------------------------------------------
(* Steps while Redis answers, when callers wait for their answers.         *)

(* The route of u comes, goes or changes its server_name with no step but  *)
(* the script's.                                                           *)
SameServer(u) ==
    /\ route'[u] # None <=> route[u] # None
    /\ route[u] # None => route'[u].name = route[u].name

QuietStep == nodeLoad' = nodeLoad /\ \A u \in Users : SameServer(u)

DecrStep(t) ==
    /\ Leaves(t, "offlineDecr")
    /\ route' = route
    /\ call[t].seen.name \in Names
    /\ nodeLoad' = [nodeLoad EXCEPT ![call[t].seen.name] = @ - 1]

ScriptStep(t) ==
    LET u == call[t].uid
        new == RouteTo(u, call[t].node)
    IN
    /\ Leaves(t, "assign")
    /\ u \in Users /\ new \in Route
    /\ RunScript(u, new)
    /\ kicks' = kicks \cup KickFor(u, new)

LEMMA UnchangedIsQuiet ==
  ASSUME route' = route, nodeLoad' = nodeLoad
  PROVE  QuietStep
BY DEF QuietStep, SameServer

(* A SET that leaves the server_name.                                      *)
LEMMA StoredIsQuiet ==
  ASSUME TypeInv, NEW u \in Users, NEW r \in Route, route[u] # None,
         r.name = route[u].name, nodeLoad' = nodeLoad,
         route' = Stored(u, r) \/ route' = route
  PROVE  QuietStep
BY ConstantsAssumption DEF QuietStep, SameServer, Stored, TypeInv, StoreOK

LEMMA StepsWithoutFaults ==
  ASSUME TypeInv, TypeInv', RouteInv, [Next]_vars, faults' = 0
  PROVE  \/ QuietStep
         \/ \E t \in Threads : DecrStep(t) \/ ScriptStep(t)
<1> USE ConstantsAssumption
<1>0. faults \in Nat /\ faults' \in Nat
  BY DEF TypeInv, StoreOK
<1>1. CASE UNCHANGED vars
  BY <1>1, UnchangedIsQuiet DEF vars, redis
<1>2. CASE Tick
  BY <1>2, UnchangedIsQuiet DEF Tick, redis
<1>3. CASE Restart
  BY <1>3, UnchangedIsQuiet DEF Restart, redis
<1>4. CASE KickDelivered
  BY <1>4, UnchangedIsQuiet DEF KickDelivered, redis
<1>5. ASSUME NEW a \in Addrs, Heartbeat(a) PROVE QuietStep
  BY <1>5, UnchangedIsQuiet DEF Heartbeat, redis
<1>6. ASSUME NEW u \in Users, KickUser(u) PROVE QuietStep
  BY <1>6, UnchangedIsQuiet DEF KickUser, redis
<1>7. ASSUME NEW t \in Threads, NodeRpc(t) PROVE QuietStep
  BY <1>7, UnchangedIsQuiet DEF NodeRpc, RegisterNew, RegisterAgain, DeregisterNode, redis
<1>8. ASSUME NEW t \in Threads, UserRpc(t) PROVE QuietStep
  BY <1>8, UnchangedIsQuiet DEF UserRpc, BeginAllocate, BeginOnline, BeginOffline, redis
<1>9. ASSUME NEW t \in Threads, HandlerStep(t)
      PROVE  QuietStep \/ DecrStep(t) \/ ScriptStep(t)
  <2>0. /\ CallOK(call[t]) /\ CallSync(call[t]) /\ call[t] \in Call
        /\ call[t].node # None => heap[call[t].node] # None
    BY DEF TypeInv, CallsOK, CallOK, RouteInv
  <2>1. CASE \/ SetNodeKey(t) \/ DelNodeKey(t) \/ ReadRoute(t) \/ AnswerSticky(t)
             \/ StickyNodeGone(t) \/ PickLeastLoaded(t) \/ PickRoundRobin(t)
             \/ NoNodeAvailable(t) \/ OnlineRead(t) \/ OfflineRead(t)
    BY <2>1, UnchangedIsQuiet
    DEF SetNodeKey, DelNodeKey, ReadRoute, AnswerSticky, StickyNodeGone, PickLeastLoaded,
        PickRoundRobin, NoNodeAvailable, OnlineRead, OfflineRead, redis
  <2>2. CASE Assign(t)
    <3>1. /\ RunScript(call[t].uid, RouteTo(call[t].uid, call[t].node))
          /\ kicks' = kicks \cup KickFor(call[t].uid, RouteTo(call[t].uid, call[t].node))
      BY <1>0, <2>2 DEF Assign, Fault
    <3>2. call[t].uid \in Users /\ call[t].node \in Objs /\ call[t].node # None
      BY <2>0, <2>2 DEF Assign, CallOK, Call
    <3>3. RouteTo(call[t].uid, call[t].node) \in Route
      BY <2>0, <3>2, RouteToType DEF TypeInv
    <3>4. Leaves(t, "assign")
      BY <2>0, <2>2 DEF Assign, Goto, Leaves, Call, TypeInv, CallsOK
    <3> QED
      BY <3>1, <3>2, <3>3, <3>4 DEF ScriptStep
  <2>3. CASE Persist(t)
    <3>1. call[t].uid \in Users /\ call[t].node \in Objs /\ call[t].node # None
      BY <2>0, <2>3 DEF Persist, CallOK, Call
    <3>2. RouteTo(call[t].uid, call[t].node) \in Route
      BY <2>0, <3>1, RouteToType DEF TypeInv
    <3>3. faults = 0 /\ call[t].pc = "persist" /\ nodeLoad' = nodeLoad
          /\ route' = Stored(call[t].uid, RouteTo(call[t].uid, call[t].node))
      BY <1>0, <2>3 DEF Persist, Fault
    <3>4. /\ route[call[t].uid] # None
          /\ route[call[t].uid].name = heap[call[t].node].name
      BY <2>0, <3>3 DEF CallSync
    <3>5. RouteTo(call[t].uid, call[t].node).name = heap[call[t].node].name
      BY DEF RouteTo
    <3> QED
      BY <3>1, <3>2, <3>3, <3>4, <3>5, StoredIsQuiet
  <2>4. CASE OnlineWrite(t)
    <3>1. /\ call[t].uid \in Users /\ call[t].req # None
          /\ call[t].req \in Answer /\ call[t].req = answer[call[t].uid]
      BY <2>0, <2>4 DEF OnlineWrite, CallOK, CallSync, Call
    <3>2. faults = 0 /\ nodeLoad' = nodeLoad /\ call[t].pc = "onlineWrite"
          /\ route' = Stored(call[t].uid,
                 [name |-> ReportedName(call[t]), addr |-> call[t].req.addr,
                  token |-> call[t].req.token, online |-> TRUE])
      BY <1>0, <2>4 DEF OnlineWrite, Fault
    <3>3. Agree(call[t].uid)
      BY <3>1, <3>2 DEF RouteInv
    <3>4. route[call[t].uid] # None /\ ReportedName(call[t]) = route[call[t].uid].name
      BY <2>0, <3>1, <3>2, <3>3 DEF Agree, CallSync, ReportedName
    <3>5. [name |-> ReportedName(call[t]), addr |-> call[t].req.addr,
           token |-> call[t].req.token, online |-> TRUE] \in Route
      BY <3>1, <3>4 DEF Answer, Route, TypeInv, StoreOK
    <3> QED
      BY <3>1, <3>2, <3>4, <3>5, StoredIsQuiet
  <2>5. CASE OfflineDecr(t)
    <3>1. call[t].seen # None /\ call[t].seen \in Route
      BY <2>0, <2>5 DEF OfflineDecr, CallOK, Call
    <3>2. /\ nodeLoad' = [nodeLoad EXCEPT ![call[t].seen.name] = @ - 1]
          /\ route' = route
      BY <1>0, <2>5 DEF OfflineDecr, Fault
    <3>3. Leaves(t, "offlineDecr")
      BY <2>0, <2>5 DEF OfflineDecr, Goto, Leaves, Call, TypeInv, CallsOK
    <3> QED
      BY <3>1, <3>2, <3>3 DEF DecrStep, Route
  <2>6. CASE OfflineWrite(t)
    <3>1. /\ call[t].uid \in Users /\ call[t].seen # None
          /\ call[t].seen \in Route /\ call[t].seen = route[call[t].uid]
      BY <2>0, <2>6 DEF OfflineWrite, CallOK, CallSync, Call
    <3> DEFINE r == [call[t].seen EXCEPT !.online = FALSE]
    <3>2. r \in Route /\ r.name = route[call[t].uid].name
      BY <3>1 DEF Route
    <3>3. nodeLoad' = nodeLoad /\ route' = Stored(call[t].uid, r)
      BY <1>0, <2>6 DEF OfflineWrite, Fault
    <3> HIDE DEF r
    <3> QED
      BY <3>1, <3>2, <3>3, StoredIsQuiet
  <2> QED
    BY <1>9, <2>1, <2>2, <2>3, <2>4, <2>5, <2>6 DEF HandlerStep
<1> QED
  BY <1>1, <1>2, <1>3, <1>4, <1>5, <1>6, <1>7, <1>8, <1>9 DEF Next

(* The users whose route names n.                                          *)
RoutedTo(n) == {u \in Users : route[u] # None /\ route[u].name = n}

LEMMA RoutedFinite ==
  ASSUME IsFiniteSet(Users), NEW n
  PROVE  IsFiniteSet(RoutedTo(n)) /\ Cardinality(RoutedTo(n)) \in Nat
BY FS_Subset, FS_CardinalityType DEF RoutedTo

LEMMA RoutedFinitePrime ==
  ASSUME IsFiniteSet(Users), NEW n
  PROVE  IsFiniteSet(RoutedTo(n)') /\ Cardinality(RoutedTo(n)') \in Nat
BY FS_Subset, FS_CardinalityType DEF RoutedTo

(* One route changes: the users routed to a node are those before, with or *)
(* without its user.                                                       *)
LEMMA RoutedAfterScript ==
  ASSUME IsFiniteSet(Users), TypeInv, NEW u \in Users, NEW new \in Route, NEW n \in Names,
         route' = [route EXCEPT ![u] = new]
  PROVE  Cardinality(RoutedTo(n)') = Cardinality(RoutedTo(n))
             + (IF n = new.name THEN 1 ELSE 0)
             - (IF route[u] # None /\ route[u].name = n THEN 1 ELSE 0)
<1> USE ConstantsAssumption
<1>1. RoutedTo(n)' = IF n = new.name THEN RoutedTo(n) \cup {u} ELSE RoutedTo(n) \ {u}
  BY DEF RoutedTo, TypeInv, StoreOK
<1>2. u \in RoutedTo(n) <=> route[u] # None /\ route[u].name = n
  BY DEF RoutedTo
<1>3. CASE n = new.name
  <2>1. Cardinality(RoutedTo(n) \cup {u}) =
          IF u \in RoutedTo(n) THEN Cardinality(RoutedTo(n)) ELSE Cardinality(RoutedTo(n)) + 1
    BY RoutedFinite, FS_AddElement
  <2> QED
    BY <1>1, <1>2, <1>3, <2>1, RoutedFinite
<1>4. CASE n # new.name
  <2>1. Cardinality(RoutedTo(n) \ {u}) =
          IF u \in RoutedTo(n) THEN Cardinality(RoutedTo(n)) - 1 ELSE Cardinality(RoutedTo(n))
    BY RoutedFinite, FS_RemoveElement
  <2> QED
    BY <1>1, <1>2, <1>4, <2>1, RoutedFinite
<1> QED
  BY <1>3, <1>4

LEMMA DriftIs ==
  ASSUME NEW n \in Names
  PROVE  /\ Drift(n) = nodeLoad[n] - Cardinality(RoutedTo(n))
         /\ Drift(n)' = nodeLoad'[n] - Cardinality(RoutedTo(n)')
BY DEF Drift, RoutedTo

LEMMA QuietKeepsDrift ==
  ASSUME QuietStep, NEW n \in Names
  PROVE  Drift(n)' = Drift(n)
<1>1. RoutedTo(n)' = RoutedTo(n)
  BY DEF QuietStep, SameServer, RoutedTo
<1> QED
  BY <1>1, DriftIs DEF QuietStep

LEMMA DecrDrift ==
  ASSUME IsFiniteSet(Users), TypeInv, NEW t \in Threads, DecrStep(t), NEW n \in Names,
         Drift(n)' # Drift(n)
  PROVE  Drift(n)' = Drift(n) - 1
<1>1. RoutedTo(n)' = RoutedTo(n)
  BY DEF DecrStep, RoutedTo
<1>2. nodeLoad[n] \in Int /\ nodeLoad'[n] \in {nodeLoad[n], nodeLoad[n] - 1}
  BY DEF DecrStep, TypeInv, StoreOK
<1> QED
  BY <1>1, <1>2, DriftIs, RoutedFinite

LEMMA ScriptDrift ==
  ASSUME ScriptLoaded, IsFiniteSet(Users), TypeInv, NEW t \in Threads, ScriptStep(t), NEW n \in Names,
         Drift(n)' # Drift(n)
  PROVE  /\ Drift(n)' = Drift(n) + 1
         /\ route[call[t].uid] # None /\ route[call[t].uid].name = n
         /\ route'[call[t].uid].name = n
<1> DEFINE u == call[t].uid
           new == RouteTo(u, call[t].node)
<1>1. /\ u \in Users /\ new \in Route
      /\ nodeLoad' = MoveLoad(route[u], new.name)
      /\ route' = [route EXCEPT ![u] = new]
  BY DEF ScriptStep, RunScript
<1>2. nodeLoad[n] \in Int /\ route'[u] = new
  BY <1>1 DEF TypeInv, StoreOK
<1> HIDE DEF new
<1>3. nodeLoad'[n] = nodeLoad[n] + (IF n = new.name THEN 1 ELSE 0)
          - (IF route[u] # None /\ route[u].name # new.name /\ n = route[u].name THEN 1 ELSE 0)
  BY <1>1 DEF MoveLoad
<1>4. Cardinality(RoutedTo(n)') = Cardinality(RoutedTo(n))
          + (IF n = new.name THEN 1 ELSE 0)
          - (IF route[u] # None /\ route[u].name = n THEN 1 ELSE 0)
  BY <1>1, RoutedAfterScript
<1>5. Drift(n)' - Drift(n) =
          IF route[u] # None /\ route[u].name = n /\ n = new.name THEN 1 ELSE 0
  BY <1>2, <1>3, <1>4, DriftIs, RoutedFinite
<1>6. Drift(n) \in Int /\ Drift(n)' \in Int
  BY <1>2, <1>3, <1>4, DriftIs, RoutedFinite
<1> QED
  BY <1>2, <1>5, <1>6

(* Where the script is loaded, calls about one user follow each other and  *)
(* Redis answers, a user who is online on one server is kicked there by    *)
(* the very step that moves the route to another (AllocateServer): no SET  *)
(* of a report or of the allocation moves it behind the script's back.     *)
THEOREM MovedUsersAreKicked ==
  ASSUME Serial, ScriptLoaded
  PROVE  Spec => MovedOnlineUserIsKicked
<1>1. TypeInv /\ TypeInv' /\ RouteInv /\ [Next]_vars =>
        [\A u \in Users :
            /\ route[u] # None /\ route[u].online
            /\ route'[u].name # route[u].name
            /\ faults' = 0
            => [uid |-> u, addr |-> route[u].addr] \in kicks']_vars
  <2> SUFFICES ASSUME TypeInv, TypeInv', RouteInv, [Next]_vars, NEW u \in Users,
                      route[u] # None, route[u].online,
                      route'[u].name # route[u].name, faults' = 0
               PROVE  [uid |-> u, addr |-> route[u].addr] \in kicks'
    OBVIOUS
  <2>1. PICK t \in Threads : DecrStep(t) \/ ScriptStep(t)
    BY StepsWithoutFaults DEF QuietStep, SameServer
  <2>2. ScriptStep(t)
    BY <2>1 DEF DecrStep
  <2>3. call[t].uid = u /\ route'[u] = RouteTo(u, call[t].node)
    BY <2>2 DEF ScriptStep, RunScript, TypeInv, StoreOK
  <2>4. [uid |-> u, addr |-> route[u].addr] \in KickFor(u, RouteTo(u, call[t].node))
    BY <2>3 DEF KickFor, Returned
  <2> QED
    BY <2>2, <2>3, <2>4 DEF ScriptStep
<1> QED
  BY <1>1, TypeInvariant, RouteInvariant, PTL DEF Spec, MovedOnlineUserIsKicked

(* Where the script is loaded, calls about one user follow each other and  *)
(* Redis answers, the counter of a node and the number of routes to it     *)
(* come apart only where ReportOffline decrements, or where a user is      *)
(* assigned anew to the server the route already names.                    *)
THEOREM LoadsFollowRoutes ==
  ASSUME Serial, ScriptLoaded, IsFiniteSet(Users)
  PROVE  Spec => LoadFollowsRoutes
<1>1. TypeInv /\ TypeInv' /\ RouteInv /\ [Next]_vars =>
        [\A n \in Names : Drift(n)' # Drift(n) /\ faults' = 0 =>
          \E t \in Threads :
              \/ Leaves(t, "offlineDecr") /\ Drift(n)' = Drift(n) - 1
              \/ /\ Leaves(t, "assign") /\ Drift(n)' = Drift(n) + 1
                 /\ route[call[t].uid] # None /\ route[call[t].uid].name = n
                 /\ route'[call[t].uid].name = n]_vars
  <2> SUFFICES ASSUME TypeInv, TypeInv', RouteInv, [Next]_vars, NEW n \in Names,
                      Drift(n)' # Drift(n), faults' = 0
               PROVE  \E t \in Threads :
                        \/ Leaves(t, "offlineDecr") /\ Drift(n)' = Drift(n) - 1
                        \/ /\ Leaves(t, "assign") /\ Drift(n)' = Drift(n) + 1
                           /\ route[call[t].uid] # None /\ route[call[t].uid].name = n
                           /\ route'[call[t].uid].name = n
    OBVIOUS
  <2>1. PICK t \in Threads : DecrStep(t) \/ ScriptStep(t)
    BY StepsWithoutFaults, QuietKeepsDrift
  <2>2. CASE DecrStep(t)
    BY <2>2, DecrDrift DEF DecrStep
  <2>3. CASE ScriptStep(t)
    BY <2>3, ScriptDrift DEF ScriptStep
  <2> QED
    BY <2>1, <2>2, <2>3
<1> QED
  BY <1>1, TypeInvariant, RouteInvariant, PTL DEF Spec, LoadFollowsRoutes

-----------------------------------------------------------------------------
(* The tokens of a user, whether or not callers wait for their answers.    *)

CallTokens(c) ==
    /\ c.seen # None => c.seen.token.uid = c.uid
    /\ c.req # None => c.req.token.uid = c.uid

TokensStay ==
    \A u \in Users :
        /\ route[u] # None => route[u].token.uid = u
        /\ answer[u] # None => answer[u].token.uid = u

TokenInv == TokensStay /\ \A t \in Threads : CallTokens(call[t])

LEMMA OneCallsTokens ==
  ASSUME TypeInv, TokenInv, NEW t \in Threads, NEW c,
         call' = [call EXCEPT ![t] = c], CallTokens(c), TokensStay'
  PROVE  TokenInv'
<1>1. ASSUME NEW s \in Threads PROVE CallTokens(call'[s])
  BY DEF TokenInv, TypeInv, CallsOK
<1> QED
  BY <1>1 DEF TokenInv, CallTokens

LEMMA NewRoutesToken ==
  ASSUME TypeInv, NEW t \in Threads, call[t].pc \in {"assign", "persist"}
  PROVE  /\ call[t].uid \in Users
         /\ RouteTo(call[t].uid, call[t].node) # None
         /\ RouteTo(call[t].uid, call[t].node).token.uid = call[t].uid
<1>1. /\ call[t].uid \in Users /\ call[t].node \in Objs
      /\ heap[call[t].node] # None
  BY ConstantsAssumption DEF TypeInv, CallsOK, CallOK, Call
<1>2. RouteTo(call[t].uid, call[t].node) \in Route
  BY <1>1, RouteToType DEF TypeInv
<1> QED
  BY <1>1, <1>2, ConstantsAssumption DEF RouteTo, TokenFor

LEMMA TokenInit == Init => TokenInv
BY DEF Init, Idle, TokenInv, TokensStay, CallTokens

LEMMA TokenStep == TypeInv /\ TokenInv /\ [Next]_vars => TokenInv'
<1> SUFFICES ASSUME TypeInv, TokenInv, [Next]_vars PROVE TokenInv'
  OBVIOUS
<1> USE ConstantsAssumption
<1>a. ASSUME NEW t \in Threads
      PROVE  CallOK(call[t]) /\ CallTokens(call[t]) /\ call \in [Threads -> Call]
  BY DEF TypeInv, CallsOK, CallOK, TokenInv
<1>b. ASSUME UNCHANGED <<call, route, answer>> PROVE TokenInv'
  BY <1>b DEF TokenInv, TokensStay, CallTokens
<1>c. ASSUME UNCHANGED <<route, answer>> PROVE TokensStay'
  BY <1>c DEF TokenInv, TokensStay
<1>1. CASE UNCHANGED vars \/ Tick \/ KickDelivered
  BY <1>1, <1>b DEF vars, redis, Tick, KickDelivered
<1>2. CASE Restart
  BY <1>2, <1>c DEF Restart, redis, Idle, TokenInv, CallTokens
<1>3. ASSUME NEW a \in Addrs, Heartbeat(a) PROVE TokenInv'
  BY <1>3, <1>b DEF Heartbeat, redis
<1>4. ASSUME NEW u \in Users, KickUser(u) PROVE TokenInv'
  BY <1>4, <1>b DEF KickUser, redis
<1>5. ASSUME NEW t \in Threads, NodeRpc(t) PROVE TokenInv'
  <2>1. PICK n \in Names, pc \in {"setKey", "delKey"} :
             /\ call[t].pc = "idle"
             /\ call' = [call EXCEPT ![t].pc = pc, ![t].name = n]
             /\ UNCHANGED <<route, answer>>
    BY <1>5 DEF NodeRpc, RegisterNew, RegisterAgain, DeregisterNode, Begin, redis
  <2>2. CallTokens([call[t] EXCEPT !.pc = pc, !.name = n])
    BY <1>a, <2>1 DEF CallTokens, CallOK, Idle
  <2> QED
    BY <1>a, <1>c, <2>1, <2>2, OneCallsTokens
<1>6. ASSUME NEW t \in Threads, NEW u \in Users, BeginAllocate(t, u) PROVE TokenInv'
  <2>1. /\ call[t] = Idle
        /\ call' = [call EXCEPT ![t].pc = "readRoute", ![t].uid = u]
    BY <1>6, <1>a DEF BeginAllocate, Begin, CallOK
  <2>2. TokensStay'
    BY <1>6 DEF BeginAllocate, redis, TypeInv, StoreOK, TokenInv, TokensStay
  <2>3. CallTokens([call[t] EXCEPT !.pc = "readRoute", !.uid = u])
    BY <2>1 DEF CallTokens, Idle
  <2> QED
    BY <1>a, <2>1, <2>2, <2>3, OneCallsTokens
<1>7. ASSUME NEW t \in Threads, NEW u \in Users, BeginOnline(t, u) PROVE TokenInv'
  <2>1. /\ call[t] = Idle /\ UNCHANGED <<route, answer>>
        /\ call' = [call EXCEPT ![t].pc = "onlineRead", ![t].uid = u, ![t].req = answer[u]]
    BY <1>7, <1>a DEF BeginOnline, Begin, CallOK, redis
  <2>2. CallTokens([call[t] EXCEPT !.pc = "onlineRead", !.uid = u, !.req = answer[u]])
    BY <2>1 DEF CallTokens, Idle, TokenInv, TokensStay
  <2> QED
    BY <1>a, <1>c, <2>1, <2>2, OneCallsTokens
<1>8. ASSUME NEW t \in Threads, NEW u \in Users, BeginOffline(t, u) PROVE TokenInv'
  <2>1. /\ call[t] = Idle /\ UNCHANGED <<route, answer>>
        /\ call' = [call EXCEPT ![t].pc = "offlineRead", ![t].uid = u]
    BY <1>8, <1>a DEF BeginOffline, Begin, CallOK, redis
  <2>2. CallTokens([call[t] EXCEPT !.pc = "offlineRead", !.uid = u])
    BY <2>1 DEF CallTokens, Idle
  <2> QED
    BY <1>a, <1>c, <2>1, <2>2, OneCallsTokens
<1>9. ASSUME NEW t \in Threads, HandlerStep(t) PROVE TokenInv'
  <2>u. call[t].pc \notin {"idle", "setKey", "delKey"} => call[t].uid \in Users
    BY <1>a DEF CallOK, Call
  <2>i. CallTokens(Idle)
    BY DEF CallTokens, Idle
  <2>g. ASSUME NEW pc, call' = [call EXCEPT ![t].pc = pc], UNCHANGED <<route, answer>>
        PROVE  TokenInv'
    <3>1. CallTokens([call[t] EXCEPT !.pc = pc])
      BY <1>a DEF CallTokens, Call
    <3> QED
      BY <1>a, <1>c, <2>g, <3>1, OneCallsTokens
  <2>r. ASSUME Return(t), TokensStay' PROVE TokenInv'
    BY <2>i, <2>r, OneCallsTokens DEF Return
  <2>s. ASSUME NEW pc, call[t].uid \in Users, UNCHANGED <<route, answer>>,
               call' = [call EXCEPT ![t].pc = pc, ![t].seen = route[call[t].uid]]
        PROVE  TokenInv'
    <3>1. CallTokens([call[t] EXCEPT !.pc = pc, !.seen = route[call[t].uid]])
      BY <1>a, <2>s DEF CallTokens, Call, TokenInv, TokensStay
    <3> QED
      BY <1>a, <1>c, <2>s, <3>1, OneCallsTokens
  <2>1. CASE SetNodeKey(t) \/ DelNodeKey(t)
    BY <2>1, <1>c, <2>r DEF SetNodeKey, DelNodeKey
  <2>2. CASE ReadRoute(t) \/ OnlineRead(t) \/ OfflineRead(t)
    <3>1. UNCHANGED <<route, answer>> /\ call[t].uid \in Users
      BY <2>2, <2>u DEF ReadRoute, OnlineRead, OfflineRead, redis
    <3>2. \/ \E pc \in {"sticky", "onlineWrite", "offlineDecr"} :
                call' = [call EXCEPT ![t].pc = pc, ![t].seen = route[call[t].uid]]
          \/ \E pc \in {"pick", "onlineWrite"} : call' = [call EXCEPT ![t].pc = pc]
          \/ Return(t)
      BY <2>2 DEF ReadRoute, OnlineRead, OfflineRead, Goto
    <3> QED
      BY <1>c, <2>g, <2>r, <2>s, <3>1, <3>2
  <2>3. CASE AnswerSticky(t)
    <3>1. call[t].uid \in Users /\ call[t].seen # None /\ Return(t) /\ route' = route
      BY <2>3, <2>u, <1>a DEF AnswerSticky, CallOK, redis
    <3>2. call[t].seen.token.uid = call[t].uid
      BY <1>a, <3>1 DEF CallTokens
    <3>3. PICK a : answer' = [answer EXCEPT ![call[t].uid] =
                                 [addr |-> a, token |-> call[t].seen.token]]
      BY <2>3 DEF AnswerSticky
    <3>4. TokensStay'
      BY <3>1, <3>2, <3>3 DEF TokenInv, TokensStay, TypeInv, StoreOK
    <3> QED
      BY <2>r, <3>1, <3>4
  <2>4. CASE StickyNodeGone(t) \/ OfflineDecr(t)
    BY <2>4, <2>g DEF StickyNodeGone, OfflineDecr, Goto, redis
  <2>5. CASE NoNodeAvailable(t)
    BY <2>5, <1>c, <2>r DEF NoNodeAvailable, redis
  <2>6. CASE PickLeastLoaded(t) \/ PickRoundRobin(t)
    <3>1. PICK o : /\ call' = [call EXCEPT ![t].pc = "assign", ![t].node = o]
                   /\ UNCHANGED <<route, answer>>
      BY <2>6 DEF PickLeastLoaded, PickRoundRobin, Reserve, redis
    <3>2. CallTokens([call[t] EXCEPT !.pc = "assign", !.node = o])
      BY <1>a DEF CallTokens, Call
    <3> QED
      BY <1>a, <1>c, <3>1, <3>2, OneCallsTokens
  <2>7. CASE Assign(t)
    <3>1. call[t].pc = "assign" /\ answer' = answer
      BY <2>7 DEF Assign
    <3>2. \/ route' = route
          \/ route' = [route EXCEPT ![call[t].uid] = RouteTo(call[t].uid, call[t].node)]
      BY <2>7 DEF Assign, RunScript
    <3>3. TokensStay'
      BY <3>1, <3>2, NewRoutesToken DEF TokenInv, TokensStay, TypeInv, StoreOK
    <3>4. call' = [call EXCEPT ![t].pc = "persist"]
      BY <2>7 DEF Assign, Goto
    <3>5. CallTokens([call[t] EXCEPT !.pc = "persist"])
      BY <1>a DEF CallTokens, Call
    <3> QED
      BY <1>a, <3>3, <3>4, <3>5, OneCallsTokens
  <2>8. CASE Persist(t)
    <3> DEFINE new == RouteTo(call[t].uid, call[t].node)
    <3>1. call[t].pc = "persist" /\ Return(t)
      BY <2>8 DEF Persist
    <3>2. /\ route' = route \/ route' = [route EXCEPT ![call[t].uid] = new]
          /\ answer' = [answer EXCEPT ![call[t].uid] = [addr |-> new.addr, token |-> new.token]]
      BY <2>8 DEF Persist, Stored
    <3>3. TokensStay'
      BY <3>1, <3>2, NewRoutesToken DEF TokenInv, TokensStay, TypeInv, StoreOK
    <3> QED
      BY <2>r, <3>1, <3>3
  <2>9. CASE OnlineWrite(t)
    <3>1. /\ call[t].uid \in Users /\ Return(t) /\ answer' = answer
          /\ call[t].req.token.uid = call[t].uid
      BY <2>9, <2>u, <1>a DEF OnlineWrite, CallOK, CallTokens
    <3> DEFINE r == [name |-> ReportedName(call[t]), addr |-> call[t].req.addr,
                     token |-> call[t].req.token, online |-> TRUE]
    <3>2. route' = route \/ route' = [route EXCEPT ![call[t].uid] = r]
      BY <2>9 DEF OnlineWrite, Stored
    <3>3. r.token.uid = call[t].uid
      BY <3>1
    <3> HIDE DEF r
    <3>4. TokensStay'
      BY <3>1, <3>2, <3>3 DEF TokenInv, TokensStay, TypeInv, StoreOK
    <3> QED
      BY <2>r, <3>1, <3>4
  <2>10. CASE OfflineWrite(t)
    <3>1. /\ call[t].uid \in Users /\ Return(t) /\ answer' = answer
          /\ call[t].seen \in Route /\ call[t].seen.token.uid = call[t].uid
      BY <2>10, <2>u, <1>a DEF OfflineWrite, CallOK, Call, CallTokens
    <3>2. \/ route' = route
          \/ route' = [route EXCEPT ![call[t].uid] = [call[t].seen EXCEPT !.online = FALSE]]
      BY <2>10 DEF OfflineWrite, Stored
    <3>3. [call[t].seen EXCEPT !.online = FALSE].token = call[t].seen.token
      BY <3>1 DEF Route
    <3>4. TokensStay'
      BY <3>1, <3>2, <3>3 DEF TokenInv, TokensStay, TypeInv, StoreOK
    <3> QED
      BY <2>r, <3>1, <3>4
  <2> QED
    BY <1>9, <2>1, <2>2, <2>3, <2>4, <2>5, <2>6, <2>7, <2>8, <2>9, <2>10 DEF HandlerStep
<1> QED
  BY <1>1, <1>2, <1>3, <1>4, <1>5, <1>6, <1>7, <1>8, <1>9 DEF Next, UserRpc

(* However calls about users interleave, restarts and failures of Redis    *)
(* included, the token a user is answered with, and the one in the user's  *)
(* route, were made for that user: a sticky answer, a report and a script  *)
(* never hand on what belongs to another (AllocateServer, ReportOnline).   *)
THEOREM TokensAreTheUsersOwn == Spec => []TokensStay
<1>1. Spec => []TokenInv
  BY TokenInit, TokenStep, TypeInvariant, PTL DEF Spec
<1>2. TokenInv => TokensStay
  BY DEF TokenInv
<1> QED
  BY <1>1, <1>2, PTL
=============================================================================
