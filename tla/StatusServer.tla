----------------------------- MODULE StatusServer -----------------------------
(***************************************************************************)
(* The status server (StatusServer/StatusServerImpl.cpp): the registry of  *)
(* chat servers it keeps in memory, and the user routes and counters it    *)
(* keeps in Redis.                                                         *)
(*                                                                         *)
(* gRPC runs the handlers on a pool of threads.  A thread is here a record *)
(* in `call`; each critical section on _nodesMutex and each Redis command  *)
(* is one action, and a handler is the chain of those actions its `pc`     *)
(* walks through.  What a handler holds in local variables between two of  *)
(* them is in the other fields of the record.                              *)
(***************************************************************************)
EXTENDS Integers, FiniteSets

CONSTANTS
    Users,              \* the uids
    Names,              \* chat server names, numbered in the order of std::string
    Addrs,              \* host:port pairs
    Capacities,         \* values of RegisterNodeReq.capacity
    Threads,            \* gRPC handler threads
    Objs,               \* memory for NodeInfo objects
    None,               \* absent value
    StaleAfter,         \* NODE_STALE_THRESHOLD_SEC
    DefaultCapacity,    \* NodeInfo.capacity
    Serial,             \* TRUE: callers wait for one call about a user, or about
                        \* a node, before they make the next one about it
    ScriptLoaded,       \* FALSE: atomic_assign_session.lua could not be read,
                        \* _atomicAssignScript is empty
    MaxTime, MaxRpcs, MaxFaults     \* bounds of the checked instances

Token == [uid : Users, name : Names]

Route == [name : Names, addr : Addrs, token : Token, online : BOOLEAN]

(* What AllocateServer returns and GateServer hands to the client.         *)
Answer == [addr : Addrs, token : Token]

NodeInfo == [name : Names, addr : Addrs, capacity : Nat, load : Nat, beat : Nat]

ASSUME ConstantsAssumption ==
    /\ Names \subseteq Nat
    /\ IsFiniteSet(Names)
    /\ Objs \subseteq Nat
    /\ Capacities \subseteq Nat
    /\ IsFiniteSet(Threads)
    /\ StaleAfter \in Nat
    /\ DefaultCapacity \in Nat \ {0}
    /\ Serial \in BOOLEAN /\ ScriptLoaded \in BOOLEAN
    /\ MaxTime \in Nat /\ MaxRpcs \in Nat /\ MaxFaults \in Nat
    /\ None \notin Users \cup Names \cup Objs
    /\ None \notin Route
    /\ None \notin Answer
    /\ None \notin NodeInfo

VARIABLES
    now,        \* system clock, in seconds
    nodes,      \* _nodes: name -> object
    nodeList,   \* _nodeList: the objects; it is kept sorted by name, so that
                \* the set and a rank say the same as the vector and an index
    rrIndex,    \* _rrIndex
    heap,       \* the NodeInfo objects, None where nothing refers to one
    call,       \* what each handler thread is doing
    route,      \* Redis: status_user:<uid>
    nodeLoad,   \* Redis: status_node_load:<name>
    nodeKeys,   \* Redis: the names with a status_node:<name> key
    kicks,      \* kick requests on their way to a chat server
    answer,     \* the last answer each user's login received
    faults,     \* Redis commands that have failed
    rpcs        \* calls made so far

registry == <<nodes, nodeList, rrIndex, heap>>
redis    == <<route, nodeLoad, nodeKeys>>
vars     == <<now, registry, call, redis, kicks, answer, faults, rpcs>>

Idle == [pc |-> "idle", uid |-> None, name |-> None, node |-> None,
         seen |-> None, req |-> None]

Call == [pc   : {"idle", "readRoute", "sticky", "pick", "assign", "persist",
                 "onlineRead", "onlineWrite",
                 "offlineRead", "offlineDecr", "offlineWrite",
                 "setKey", "delKey"},
         uid  : Users \cup {None},   \* the user the call is about
         name : Names \cup {None},   \* or the node
         node : Objs \cup {None},    \* shared_ptr chosen
         seen : Route \cup {None},   \* the route the call has read
         req  : Answer \cup {None}]  \* address and token in an OnlineReportReq

-----------------------------------------------------------------------------
(* Helpers.                                                                *)

Registered == DOMAIN nodes

(* rebuildNodeListLocked                                                   *)
Rebuilt(ns) == {ns[n] : n \in DOMAIN ns}

(* Position in _nodeList, from 0                                           *)
Rank(o) == Cardinality({p \in nodeList : heap[p].name < heap[o].name})

(* What the shared_ptrs of the registry and of the handlers refer to.      *)
Held(ns, list, cs) ==
    {ns[n] : n \in DOMAIN ns} \cup list \cup {cs[t].node : t \in Threads}

Collect(h, held) == [o \in Objs |-> IF o \in held THEN h[o] ELSE None]

Forget(ns, names) == [n \in DOMAIN ns \ names |-> ns[n]]

Stale(o) == now - heap[o].beat > StaleAfter

StaleNames == {n \in Registered : Stale(nodes[n])}

Fresh == {nodes[n] : n \in Registered \ StaleNames}

AtMost(x, y) == IF x > y THEN x ELSE y

(* ratio(o) < ratio(p) in AllocateServer, without the division             *)
LessLoaded(o, p) ==
    heap[o].load * AtMost(1, heap[p].capacity) < heap[p].load * AtMost(1, heap[o].capacity)

(* _nodes is unordered and the comparison strict: the first of the best    *)
LeastLoaded(S) == {o \in S : \A p \in S : ~LessLoaded(p, o)}

(* Mutant: only the map loses the stale nodes.                             *)
ListKept(ns) == nodeList

(* evictStaleNodes rebuilds the list only if it evicted a node             *)
ListAfterEviction(ns) == IF StaleNames = {} THEN nodeList ELSE Rebuilt(ns)

(* Mutant: a node that registers again starts with no load.                *)
Reset(info, a, c) ==
    [info EXCEPT !.addr = a, !.capacity = IF c > 0 THEN c ELSE @, !.beat = now, !.load = 0]

(* What addOrUpdateNode makes of the object of a node it knows             *)
Updated(info, a, c) ==
    [info EXCEPT !.addr = a, !.capacity = IF c > 0 THEN c ELSE @, !.beat = now]

TokenFor(u, n) == [uid |-> u, name |-> n]

RouteTo(u, o) ==
    [name |-> heap[o].name, addr |-> heap[o].addr,
     token |-> TokenFor(u, heap[o].name), online |-> FALSE]

(* The calls about a user or a node come one after the other if `Serial`.  *)
UserFree(u) == Serial => \A t \in Threads : call[t].uid # u
NodeFree(n) == Serial => \A t \in Threads : call[t].name # n

Begin(t) ==
    /\ call[t].pc = "idle"
    /\ rpcs < MaxRpcs
    /\ rpcs' = rpcs + 1

(* A Redis command that throws.                                            *)
Fault == faults < MaxFaults /\ faults' = faults + 1

Goto(t, pc) == call' = [call EXCEPT ![t].pc = pc]
Return(t)   == call' = [call EXCEPT ![t] = Idle]

-----------------------------------------------------------------------------
Init ==
    /\ now = 0
    /\ nodes = << >> /\ nodeList = {} /\ rrIndex = 0
    /\ heap = [o \in Objs |-> None]
    /\ call = [t \in Threads |-> Idle]
    /\ route = [u \in Users |-> None]
    /\ nodeLoad = [n \in Names |-> 0]
    /\ nodeKeys = {}
    /\ kicks = {}
    /\ answer = [u \in Users |-> None]
    /\ faults = 0 /\ rpcs = 0

Tick ==
    /\ now < MaxTime
    /\ now' = now + 1
    /\ UNCHANGED <<registry, call, redis, kicks, answer, faults, rpcs>>

(* Mutant: the route is not stored again after the script.                 *)
NotStored(u, r) == route

(* What persistUserRouteToRedis leaves in Redis                            *)
Stored(u, r) == [route EXCEPT ![u] = r]

-----------------------------------------------------------------------------
(* RegisterNode, DeregisterNode, Heartbeat                                 *)

(* addOrUpdateNode, first branch: a new object                             *)
RegisterNew(t, n, a, c) ==
    /\ Begin(t) /\ NodeFree(n)
    /\ n \notin Registered
    /\ \E o \in Objs :
          /\ heap[o] = None
          /\ \A p \in Objs : heap[p] = None => o <= p
          /\ heap' = [heap EXCEPT ![o] =
                        [name |-> n, addr |-> a, load |-> 0, beat |-> now,
                         capacity |-> IF c > 0 THEN c ELSE DefaultCapacity]]
          /\ nodes' = [m \in Registered \cup {n} |-> IF m = n THEN o ELSE nodes[m]]
    /\ nodeList' = Rebuilt(nodes')
    /\ call' = [call EXCEPT ![t].pc = "setKey", ![t].name = n]
    /\ UNCHANGED <<now, rrIndex, redis, kicks, answer, faults>>

(* addOrUpdateNode, second branch: the object is shared with the handlers  *)
(* that hold it; its load stays                                            *)
RegisterAgain(t, n, a, c) ==
    /\ Begin(t) /\ NodeFree(n)
    /\ n \in Registered
    /\ heap' = [heap EXCEPT ![nodes[n]] = Updated(@, a, c)]
    /\ nodeList' = Rebuilt(nodes)
    /\ call' = [call EXCEPT ![t].pc = "setKey", ![t].name = n]
    /\ UNCHANGED <<now, nodes, rrIndex, redis, kicks, answer, faults>>

SetNodeKey(t) ==
    /\ call[t].pc = "setKey"
    /\ \/ /\ nodeKeys' = nodeKeys \cup {call[t].name}
          /\ UNCHANGED faults
       \/ /\ Fault
          /\ UNCHANGED nodeKeys
    /\ Return(t)
    /\ UNCHANGED <<now, registry, route, nodeLoad, kicks, answer, rpcs>>

DeregisterNode(t, n) ==
    /\ Begin(t) /\ NodeFree(n)
    /\ nodes' = Forget(nodes, {n})
    /\ nodeList' = Rebuilt(nodes')
    /\ call' = [call EXCEPT ![t].pc = "delKey", ![t].name = n]
    /\ heap' = Collect(heap, Held(nodes', nodeList', call'))
    /\ UNCHANGED <<now, rrIndex, redis, kicks, answer, faults>>

DelNodeKey(t) ==
    /\ call[t].pc = "delKey"
    /\ \/ /\ nodeKeys' = nodeKeys \ {call[t].name}
          /\ UNCHANGED faults
       \/ /\ Fault
          /\ UNCHANGED nodeKeys
    /\ Return(t)
    /\ UNCHANGED <<now, registry, route, nodeLoad, kicks, answer, rpcs>>

(* One critical section; the first node with the address is refreshed, a   *)
(* heartbeat from an unknown address changes nothing                       *)
Heartbeat(a) ==
    /\ rpcs < MaxRpcs /\ rpcs' = rpcs + 1
    /\ \E n \in Registered :
          /\ heap[nodes[n]].addr = a
          /\ heap' = [heap EXCEPT ![nodes[n]].beat = now]
    /\ UNCHANGED <<now, nodes, nodeList, rrIndex, call, redis, kicks, answer, faults>>

-----------------------------------------------------------------------------
(* AllocateServer                                                          *)

(* evictStaleNodes                                                         *)
BeginAllocate(t, u) ==
    /\ Begin(t) /\ UserFree(u)
    /\ nodes' = Forget(nodes, StaleNames)
    /\ nodeList' = ListAfterEviction(nodes')
    /\ call' = [call EXCEPT ![t].pc = "readRoute", ![t].uid = u]
    /\ heap' = Collect(heap, Held(nodes', nodeList', call'))
    /\ answer' = [answer EXCEPT ![u] = None]
    /\ UNCHANGED <<now, rrIndex, redis, kicks, faults>>

(* readUserRouteFromRedis; an exception counts as no route                 *)
ReadRoute(t) ==
    LET r == route[call[t].uid] IN
    /\ call[t].pc = "readRoute"
    /\ \/ /\ r # None
          /\ call' = [call EXCEPT ![t].pc = "sticky", ![t].seen = r]
          /\ UNCHANGED faults
       \/ /\ r = None
          /\ Goto(t, "pick")
          /\ UNCHANGED faults
       \/ /\ Fault
          /\ Goto(t, "pick")
    /\ UNCHANGED <<now, registry, redis, kicks, answer, rpcs>>

AnswerSticky(t) ==
    LET r == call[t].seen IN
    /\ call[t].pc = "sticky"
    /\ r.name \in Registered
    /\ answer' = [answer EXCEPT ![call[t].uid] =
                    [addr |-> heap[nodes[r.name]].addr, token |-> r.token]]
    /\ Return(t)
    /\ UNCHANGED <<now, registry, redis, kicks, faults, rpcs>>

StickyNodeGone(t) ==
    /\ call[t].pc = "sticky"
    /\ call[t].seen.name \notin Registered
    /\ Goto(t, "pick")
    /\ UNCHANGED <<now, registry, redis, kicks, answer, faults, rpcs>>

(* "reserve slot": the load is raised before the lock is released          *)
Reserve(t, o) ==
    /\ heap' = [heap EXCEPT ![o].load = @ + 1]
    /\ call' = [call EXCEPT ![t].pc = "assign", ![t].node = o]

PickLeastLoaded(t) ==
    /\ call[t].pc = "pick"
    /\ \E o \in LeastLoaded(Fresh) : Reserve(t, o)
    /\ UNCHANGED <<now, nodes, nodeList, rrIndex, redis, kicks, answer, faults, rpcs>>

PickRoundRobin(t) ==
    /\ call[t].pc = "pick"
    /\ Fresh = {}
    /\ \E o \in nodeList :
          /\ Rank(o) = rrIndex % Cardinality(nodeList)
          /\ Reserve(t, o)
    /\ rrIndex' = rrIndex + 1
    /\ UNCHANGED <<now, nodes, nodeList, redis, kicks, answer, faults, rpcs>>

(* error 2                                                                 *)
NoNodeAvailable(t) ==
    /\ call[t].pc = "pick"
    /\ Fresh = {} /\ nodeList = {}
    /\ Return(t)
    /\ UNCHANGED <<now, registry, redis, kicks, answer, faults, rpcs>>

(* Mutant: the previous node keeps the user in its count.                  *)
MoveNoDecr(prev, n) == [m \in Names |-> nodeLoad[m] + (IF m = n THEN 1 ELSE 0)]

(* atomic_assign_session.lua: the counters                                 *)
MoveLoad(prev, n) ==
    [m \in Names |-> nodeLoad[m]
        + (IF m = n THEN 1 ELSE 0)
        - (IF prev # None /\ prev.name # n /\ m = prev.name THEN 1 ELSE 0)]

(* The empty script, which Redis accepts, touches nothing.                 *)
RunScript(u, new) ==
    /\ nodeLoad' = IF ScriptLoaded THEN MoveLoad(route[u], new.name) ELSE nodeLoad
    /\ route' = IF ScriptLoaded THEN [route EXCEPT ![u] = new] ELSE route

(* The session the script returns: nil after the first assignment and from *)
(* the empty script, prevOpt.value() then throws and the handler goes on   *)
Returned(u) == IF ScriptLoaded THEN {route[u]} \ {None} ELSE {}

(* Mutant: the kick goes to the server the user has been moved to.         *)
KickAtNew(u, new) ==
    {[uid |-> u, addr |-> new.addr] :
        r \in {r \in Returned(u) : r.online /\ r.name # new.name}}

(* The detached thread that asks the previous server to drop the session   *)
KickFor(u, new) ==
    {[uid |-> u, addr |-> r.addr] :
        r \in {r \in Returned(u) : r.online /\ r.name # new.name}}

(* EVAL; it may throw before the script ran or when its reply is lost, and *)
(* the handler goes on all the same                                        *)
Assign(t) ==
    LET u == call[t].uid
        new == RouteTo(u, call[t].node)
    IN
    /\ call[t].pc = "assign"
    /\ \/ /\ RunScript(u, new)
          /\ kicks' = kicks \cup KickFor(u, new)
          /\ UNCHANGED faults
       \/ /\ Fault
          /\ RunScript(u, new)
          /\ UNCHANGED kicks
       \/ /\ Fault
          /\ UNCHANGED <<route, nodeLoad, kicks>>
    /\ Goto(t, "persist")
    /\ UNCHANGED <<now, registry, nodeKeys, answer, rpcs>>

(* persistUserRouteToRedis, then error 0 whatever happened                 *)
Persist(t) ==
    LET u == call[t].uid
        new == RouteTo(u, call[t].node)
    IN
    /\ call[t].pc = "persist"
    /\ \/ /\ route' = Stored(u, new)
          /\ UNCHANGED faults
       \/ /\ Fault
          /\ UNCHANGED route
    /\ answer' = [answer EXCEPT ![u] = [addr |-> new.addr, token |-> new.token]]
    /\ Return(t)
    /\ heap' = Collect(heap, Held(nodes, nodeList, call'))
    /\ UNCHANGED <<now, nodes, nodeList, rrIndex, nodeLoad, nodeKeys, kicks, rpcs>>

-----------------------------------------------------------------------------
(* ReportOnline, ReportOffline: read, change and write back the route      *)

(* No program of the repository calls the reports; the handler would take  *)
(* any name and token.  Assumed of the caller: it is the chat server the   *)
(* user's client came to, and reports what the client was last given.      *)
BeginOnline(t, u) ==
    /\ Begin(t) /\ UserFree(u)
    /\ answer[u] # None
    /\ call' = [call EXCEPT ![t].pc = "onlineRead", ![t].uid = u, ![t].req = answer[u]]
    /\ UNCHANGED <<now, registry, redis, kicks, answer, faults>>

OnlineRead(t) ==
    /\ call[t].pc = "onlineRead"
    /\ \/ /\ call' = [call EXCEPT ![t].pc = "onlineWrite",
                                  ![t].seen = route[call[t].uid]]
          /\ UNCHANGED faults
       \/ /\ Fault
          /\ Goto(t, "onlineWrite")
    /\ UNCHANGED <<now, registry, redis, kicks, answer, rpcs>>

(* Mutant: a route that ReportOnline has to make up gets no server_name.   *)
ReportedNothing(c) == IF c.seen = None THEN None ELSE c.seen.name

(* server_name is set only when no route was read                          *)
ReportedName(c) == IF c.seen = None THEN c.req.token.name ELSE c.seen.name

OnlineWrite(t) ==
    LET c == call[t]
        name == ReportedName(c)
    IN
    /\ c.pc = "onlineWrite"
    /\ \/ /\ route' = Stored(c.uid, [name |-> name, addr |-> c.req.addr,
                                     token |-> c.req.token, online |-> TRUE])
          /\ UNCHANGED faults
       \/ /\ Fault
          /\ UNCHANGED route
    /\ Return(t)
    /\ UNCHANGED <<now, registry, nodeLoad, nodeKeys, kicks, answer, rpcs>>

BeginOffline(t, u) ==
    /\ Begin(t) /\ UserFree(u)
    /\ call' = [call EXCEPT ![t].pc = "offlineRead", ![t].uid = u]
    /\ UNCHANGED <<now, registry, redis, kicks, answer, faults>>

OfflineRead(t) ==
    LET r == route[call[t].uid] IN
    /\ call[t].pc = "offlineRead"
    /\ \/ /\ r # None
          /\ call' = [call EXCEPT ![t].pc = "offlineDecr", ![t].seen = r]
          /\ UNCHANGED faults
       \/ /\ r = None
          /\ Return(t)
          /\ UNCHANGED faults
       \/ /\ Fault
          /\ Return(t)
    /\ UNCHANGED <<now, registry, redis, kicks, answer, rpcs>>

OfflineDecr(t) ==
    /\ call[t].pc = "offlineDecr"
    /\ \/ /\ nodeLoad' = [nodeLoad EXCEPT ![call[t].seen.name] = @ - 1]
          /\ UNCHANGED faults
       \/ /\ Fault
          /\ UNCHANGED nodeLoad
    /\ Goto(t, "offlineWrite")
    /\ UNCHANGED <<now, registry, route, nodeKeys, kicks, answer, rpcs>>

OfflineWrite(t) ==
    LET c == call[t] IN
    /\ c.pc = "offlineWrite"
    /\ \/ /\ route' = Stored(c.uid, [c.seen EXCEPT !.online = FALSE])
          /\ UNCHANGED faults
       \/ /\ Fault
          /\ UNCHANGED route
    /\ Return(t)
    /\ UNCHANGED <<now, registry, nodeLoad, nodeKeys, kicks, answer, rpcs>>

-----------------------------------------------------------------------------
(* KickUser: one read, then the request goes to the address of the route   *)
KickUser(u) ==
    /\ rpcs < MaxRpcs /\ rpcs' = rpcs + 1
    /\ route[u] # None
    /\ kicks' = kicks \cup {[uid |-> u, addr |-> route[u].addr]}
    /\ UNCHANGED <<now, registry, call, redis, answer, faults>>

(* ChatGrpcClient::KickUser returns, with or without success               *)
KickDelivered ==
    /\ \E k \in kicks : kicks' = kicks \ {k}
    /\ UNCHANGED <<now, registry, call, redis, answer, faults, rpcs>>

(* The process ends and starts again: memory is gone, Redis stays          *)
Restart ==
    /\ rpcs < MaxRpcs /\ rpcs' = rpcs + 1
    /\ nodes' = << >> /\ nodeList' = {} /\ rrIndex' = 0
    /\ heap' = [o \in Objs |-> None]
    /\ call' = [t \in Threads |-> Idle]
    /\ kicks' = {}
    /\ UNCHANGED <<now, redis, answer, faults>>

-----------------------------------------------------------------------------
NodeRpc(t) ==
    \E n \in Names :
        \/ \E a \in Addrs, c \in Capacities : RegisterNew(t, n, a, c) \/ RegisterAgain(t, n, a, c)
        \/ DeregisterNode(t, n)

UserRpc(t) ==
    \E u \in Users : BeginAllocate(t, u) \/ BeginOnline(t, u) \/ BeginOffline(t, u)

HandlerStep(t) ==
    \/ SetNodeKey(t) \/ DelNodeKey(t)
    \/ ReadRoute(t) \/ AnswerSticky(t) \/ StickyNodeGone(t)
    \/ PickLeastLoaded(t) \/ PickRoundRobin(t) \/ NoNodeAvailable(t)
    \/ Assign(t) \/ Persist(t)
    \/ OnlineRead(t) \/ OnlineWrite(t)
    \/ OfflineRead(t) \/ OfflineDecr(t) \/ OfflineWrite(t)

Next ==
    \/ Tick \/ Restart \/ KickDelivered
    \/ \E a \in Addrs : Heartbeat(a)
    \/ \E u \in Users : KickUser(u)
    \/ \E t \in Threads : NodeRpc(t) \/ UserRpc(t) \/ HandlerStep(t)

Spec == Init /\ [][Next]_vars

-----------------------------------------------------------------------------
(* Properties                                                              *)

TypeOK ==
    /\ now \in Nat /\ rrIndex \in Nat /\ faults \in Nat /\ rpcs \in Nat
    /\ Registered \subseteq Names /\ nodes \in [Registered -> Objs]
    /\ nodeList \subseteq Objs
    /\ heap \in [Objs -> NodeInfo \cup {None}]
    /\ call \in [Threads -> Call]
    /\ route \in [Users -> Route \cup {None}]
    /\ nodeLoad \in [Names -> Int]
    /\ nodeKeys \subseteq Names
    /\ kicks \subseteq [uid : Users, addr : Addrs]
    /\ answer \in [Users -> Answer \cup {None}]

(* Whenever the lock is free, the list the round-robin indexes holds       *)
(* exactly the registered nodes: the rebuilds of registration, removal and *)
(* eviction (which skips it when nothing was evicted) never leave it       *)
(* behind the map, and what it holds is still allocated.                   *)
NodeListSync ==
    /\ nodeList = Rebuilt(nodes)
    /\ \A o \in nodeList : heap[o] # None

(* "reserve slot": the current_load of a NodeInfo object counts every      *)
(* allocation that holds the object between its pick and its answer.  A    *)
(* registration of a known node and a heartbeat write to the object while  *)
(* allocations hold it and must not lower the load.  The count is the      *)
(* object's: a node that is removed, or evicted, and registers again has a *)
(* new object with load 0, in which the next pick does not see the         *)
(* allocations that still hold the old one.                                *)
InflightReserved ==
    \A o \in Objs : heap[o] # None =>
        heap[o].load >= Cardinality({t \in Threads : call[t].node = o})

UserIdle(u) == \A t \in Threads : call[t].uid # u

(* Where no call about a user is running, the stored route names the       *)
(* server the user was last sent to, one failed Redis command              *)
(* notwithstanding: the script and the later SET back each other up.       *)
RouteMatchesAnswer ==
    \A u \in Users :
        UserIdle(u) /\ answer[u] # None /\ faults <= 1 =>
            route[u] # None /\ route[u].name = answer[u].token.name

(* A user who is online on one server and is moved to another is kicked    *)
(* from the address the old route gave, as long as Redis answers.          *)
MovedOnlineUserIsKicked ==
    [][\A u \in Users :
          /\ route[u] # None /\ route[u].online
          /\ route'[u].name # route[u].name
          /\ faults' = 0
          => [uid |-> u, addr |-> route[u].addr] \in kicks']_vars

(* How far a Redis counter is from the number of routes to the node        *)
Drift(n) == nodeLoad[n] - Cardinality({u \in Users : route[u] # None /\ route[u].name = n})

Leaves(t, pc) == call[t].pc = pc /\ call'[t].pc # pc

(* The counters move together with the routes, over the script, the SET    *)
(* after it and the reports: only ReportOffline, and an assignment to the  *)
(* server the route already names (it left the registry and came back      *)
(* while the call was looking), change the difference.                     *)
LoadFollowsRoutes ==
    [][\A n \in Names : Drift(n)' # Drift(n) /\ faults' = 0 =>
          \E t \in Threads :
              \/ Leaves(t, "offlineDecr") /\ Drift(n)' = Drift(n) - 1
              \/ /\ Leaves(t, "assign") /\ Drift(n)' = Drift(n) + 1
                 /\ route[call[t].uid] # None /\ route[call[t].uid].name = n
                 /\ route'[call[t].uid].name = n]_vars

(* status.proto, NodeInfo.current_load: "number of assigned users".  The    *)
(* Redis counter of the node, which ReportOffline decrements "assigned      *)
(* node load", counts the same users: where no call runs they agree.        *)
CurrentLoadIsAssignedUsers ==
    (\A t \in Threads : call[t].pc = "idle") =>
        \A n \in Registered : heap[nodes[n]].load = nodeLoad[n]
=============================================================================
