---------------------------- MODULE FriendsProofs ----------------------------
(***************************************************************************)
(* Theorems about Friends.                                                 *)
(*                                                                         *)
(* A step of a handler changes one entry of worker: Becomes says to what,  *)
(* with one lemma for each way of Friends to write it.  The invariants are *)
(* then followed action by action from those facts.                        *)
(***************************************************************************)
EXTENDS Friends, TLAPS

(* What the place of a handler says of its local variables.                *)
PlaceOK ==
    \A s \in Servers :
        /\ worker[s].pc # "idle" =>
              /\ worker[s].op \in {"login", "apply", "approve"} /\ worker[s].me \in Users
              /\ worker[s].op # "login" => worker[s].to \in Users
        /\ worker[s].pc \in {"apply", "approve"} => worker[s].op = worker[s].pc
        /\ worker[s].pc \in {"route", "notify", "call", "reply"} => worker[s].op # "login"
        /\ worker[s].pc \in {"call", "reply"} => worker[s].at \in Servers

(* Every stub is in its pool, lost, or held by the handler that calls.     *)
OnCall(s, r) == IF worker[s].pc \in {"call", "reply"} /\ worker[s].at = r THEN 1 ELSE 0

StubsAccounted ==
    \A s, r \in Servers : (stubs[s][r] + leaked[s][r]) + OnCall(s, r) = PoolSize

Pools == [Servers -> [Servers -> 0..PoolSize]]

(* TypeOK in three parts.                                                  *)
WorkersOK == worker \in [Servers -> Handler] /\ PlaceOK

StubsOK ==
    /\ stubs \in Pools /\ leaked \in Pools
    /\ StubsAccounted

DataOK ==
    /\ up \in [Servers -> {"up", "down", "ended"}]
    /\ route \in [Users -> Servers \cup {None}] /\ cached \subseteq Users
    /\ pending \subseteq Users \X Users /\ friends \subseteq SUBSET Users
    /\ ticket \in [Users -> Servers \cup {None}]
    /\ online \in [Users -> Servers \cup {None}]
    /\ bound \in [Users -> Servers \cup {None}]
    /\ known \in [Users -> SUBSET Users] /\ told \in [Users -> SUBSET Users]
    /\ storedBy \in [Users \X Users -> Servers \cup {None}]
    /\ warned \subseteq Users \X Users
    /\ requests \in 0..MaxRequests /\ moves \in 0..MaxMoves /\ faults \in 0..MaxFaults

TInv == WorkersOK /\ StubsOK /\ DataOK

-----------------------------------------------------------------------------
(* The worker after a step                                                 *)

Becomes(s, x) ==
    /\ worker' \in [Servers -> Handler]
    /\ worker'[s].pc = x
    /\ \A r \in Servers \ {s} : worker'[r] = worker[r]

SameUsers(s) ==
    worker'[s].op = worker[s].op /\ worker'[s].me = worker[s].me /\ worker'[s].to = worker[s].to

LEMMA GotoBecomes ==
    ASSUME WorkersOK, NEW s \in Servers, NEW x \in Places, Goto(s, x)
    PROVE  Becomes(s, x) /\ SameUsers(s) /\ worker'[s].seen = worker[s].seen
BY DEF WorkersOK, Goto, Becomes, SameUsers, Handler

LEMMA GotoWithServerBecomes ==
    ASSUME WorkersOK, NEW s \in Servers, NEW x \in Places, NEW r \in Servers \cup {None},
           GotoWithServer(s, x, r)
    PROVE  Becomes(s, x) /\ SameUsers(s) /\ worker'[s].seen = worker[s].seen
BY DEF WorkersOK, GotoWithServer, Becomes, SameUsers, Handler

LEMMA GotoWithListBecomes ==
    ASSUME WorkersOK, NEW s \in Servers, NEW x \in Places, NEW l \in SUBSET Users,
           GotoWithList(s, x, l)
    PROVE  Becomes(s, x) /\ SameUsers(s) /\ worker'[s].seen = l
BY DEF WorkersOK, GotoWithList, Becomes, SameUsers, Handler

LEMMA IdleIsHandler == Idle \in Handler
BY DEF Idle, Handler, Places

LEMMA ReturnBecomes ==
    ASSUME WorkersOK, NEW s \in Servers, Return(s)
    PROVE  Becomes(s, "idle") /\ worker'[s] = Idle
BY IdleIsHandler DEF WorkersOK, Return, Becomes, Idle

LEMMA BeginBecomes ==
    ASSUME WorkersOK, NEW s \in Servers, NEW x \in Places,
           NEW op \in {"login", "apply", "approve"},
           NEW u \in Users, NEW v \in Users \cup {None}, Begin(s, op, u, v, x)
    PROVE  /\ Becomes(s, x)
           /\ worker'[s].op = op /\ worker'[s].me = u /\ worker'[s].to = v
           /\ worker'[s].seen = {}
BY DEF WorkersOK, Begin, Becomes, Handler, Idle

-----------------------------------------------------------------------------
(* What such a step means for the invariant                                *)

Fits(x, op) ==
    /\ x # "idle"
    /\ x \in {"apply", "approve"} => op = x
    /\ x \in {"route", "notify", "call", "reply"} => op # "login"

LEMMA MoveOK ==
    ASSUME WorkersOK, NEW s \in Servers, NEW x \in Places,
           Becomes(s, x), SameUsers(s), worker[s].pc # "idle", Fits(x, worker[s].op),
           x \in {"call", "reply"} => worker'[s].at \in Servers
    PROVE  WorkersOK'
BY DEF WorkersOK, PlaceOK, Becomes, SameUsers, Fits

LEMMA ReturnOK ==
    ASSUME WorkersOK, NEW s \in Servers, Becomes(s, "idle")
    PROVE  WorkersOK'
BY DEF WorkersOK, PlaceOK, Becomes

LEMMA StubsKept ==
    ASSUME StubsOK, NEW s \in Servers, NEW x, Becomes(s, x), UNCHANGED <<stubs, leaked>>,
           x \in {"call", "reply"} <=> worker[s].pc \in {"call", "reply"},
           x \in {"call", "reply"} => worker'[s].at = worker[s].at
    PROVE  StubsOK'
<1>1. \A q, r \in Servers : OnCall(q, r)' = OnCall(q, r)
    BY DEF OnCall, Becomes
<1> QED BY <1>1 DEF StubsOK, StubsAccounted

(* One count of one pool changes, and with it what is on call.             *)
LEMMA StubsMove ==
    ASSUME StubsOK, FriendsAssumption, NEW s \in Servers, NEW x, Becomes(s, x),
           NEW r \in Servers, worker[s].at = r,
           x \in {"call", "reply"} => worker'[s].at = r,
           NEW n \in 0..PoolSize, NEW l \in 0..PoolSize,
           stubs' = [stubs EXCEPT ![s][r] = n], leaked' = [leaked EXCEPT ![s][r] = l],
           (n + l) + (IF x \in {"call", "reply"} THEN 1 ELSE 0) = PoolSize
    PROVE  StubsOK'
<1>1. stubs' \in Pools /\ leaked' \in Pools
    BY DEF StubsOK, Pools
<1>2. ASSUME NEW q \in Servers, NEW v \in Servers
      PROVE  (stubs'[q][v] + leaked'[q][v]) + OnCall(q, v)' = PoolSize
    <2>1. CASE q = s /\ v = r
        <3>1. stubs'[q][v] = n /\ leaked'[q][v] = l
            BY <2>1 DEF StubsOK, Pools
        <3>2. OnCall(q, v)' = IF x \in {"call", "reply"} THEN 1 ELSE 0
            BY <2>1 DEF OnCall, Becomes
        <3> QED BY <3>1, <3>2
    <2>2. CASE ~(q = s /\ v = r)
        <3>1. stubs'[q][v] = stubs[q][v] /\ leaked'[q][v] = leaked[q][v]
            BY <2>2 DEF StubsOK, Pools
        <3>2. OnCall(q, v)' = OnCall(q, v)
            BY <2>2 DEF OnCall, Becomes
        <3> QED BY <3>1, <3>2 DEF StubsOK, StubsAccounted
    <2> QED BY <2>1, <2>2
<1> QED BY <1>1, <1>2 DEF StubsOK, StubsAccounted

LEMMA DownOK ==
    ASSUME TInv, NEW s \in Servers, NEW how \in {"down", "ended"}, Down(s, how)
    PROVE  /\ WorkersOK' /\ StubsOK' /\ worker'[s] = Idle /\ Becomes(s, "idle")
           /\ up' \in [Servers -> {"up", "down", "ended"}]
           /\ online' \in [Users -> Servers \cup {None}]
           /\ bound' \in [Users -> Servers \cup {None}]
<1>1. Return(s)
    BY DEF Down, Return
<1>2. Becomes(s, "idle") /\ worker'[s] = Idle
    BY <1>1, ReturnBecomes DEF TInv
<1>3. WorkersOK'
    BY <1>2, ReturnOK DEF TInv
<1>4. StubsOK'
    <2>1. stubs' = [stubs EXCEPT ![s] = FullPool] /\ leaked' = [leaked EXCEPT ![s] = NoLoss]
        BY DEF Down
    <2>2. stubs \in Pools /\ leaked \in Pools /\ StubsAccounted
        BY DEF TInv, StubsOK
    <2>3. stubs' \in Pools /\ leaked' \in Pools
        BY <2>1, <2>2, FriendsAssumption DEF Pools, FullPool, NoLoss
    <2>4. ASSUME NEW q \in Servers, NEW r \in Servers
          PROVE  (stubs'[q][r] + leaked'[q][r]) + OnCall(q, r)' = PoolSize
        <3>1. CASE q = s
            <4>1. stubs'[q][r] = PoolSize /\ leaked'[q][r] = 0
                BY <2>1, <2>2, <3>1 DEF Pools, FullPool, NoLoss
            <4>2. OnCall(q, r)' = 0
                BY <1>2, <3>1 DEF OnCall, Idle
            <4> QED BY <4>1, <4>2, FriendsAssumption
        <3>2. CASE q # s
            <4>1. stubs'[q][r] = stubs[q][r] /\ leaked'[q][r] = leaked[q][r]
                BY <2>1, <2>2, <3>2 DEF Pools
            <4>2. OnCall(q, r)' = OnCall(q, r)
                BY <1>2, <3>2 DEF OnCall, Becomes
            <4> QED BY <2>2, <4>1, <4>2 DEF StubsAccounted
        <3> QED BY <3>1, <3>2
    <2> QED BY <2>3, <2>4 DEF StubsOK, StubsAccounted
<1>5. /\ up' \in [Servers -> {"up", "down", "ended"}]
      /\ online' \in [Users -> Servers \cup {None}]
      /\ bound' \in [Users -> Servers \cup {None}]
    BY DEF TInv, DataOK, Down
<1> QED
    BY <1>2, <1>3, <1>4, <1>5

(* An error answer returns, whatever it was about.                         *)
LEMMA ReturnErrorOK ==
    ASSUME TInv, NEW s \in Servers, worker[s].pc # "idle", ReturnError(s)
    PROVE  Becomes(s, "idle") /\ worker'[s] = Idle /\ WorkersOK' /\ warned' \subseteq Users \X Users
<1>1. Becomes(s, "idle") /\ worker'[s] = Idle
    BY ReturnBecomes DEF TInv, ReturnError
<1>2. WorkersOK'
    BY <1>1, ReturnOK DEF TInv
<1>3. worker[s].op = "apply" => Pair(s) \in Users \X Users
    BY DEF TInv, WorkersOK, PlaceOK, Pair
<1> QED
    BY <1>1, <1>2, <1>3 DEF ReturnError, TInv, DataOK

-----------------------------------------------------------------------------
(* Types                                                                   *)

LEMMA InitTInv == Init => TInv
BY FriendsAssumption, IdleIsHandler
   DEF Init, TInv, WorkersOK, StubsOK, DataOK, PlaceOK, StubsAccounted, OnCall, Idle,
       Pools, FullPool, NoLoss

LEMMA TInvTypes == TInv => TypeOK
BY DEF TInv, WorkersOK, StubsOK, Pools, DataOK, TypeOK

(* Without a session in Redis a handler, or its server, ends.              *)
LEMMA NoRouteTInv ==
    ASSUME TInv, NEW s \in Servers, NoRoute(s), worker[s].pc \notin {"idle", "call", "reply"},
           UNCHANGED <<redis, mysql, requests, faults>>
    PROVE  TInv'
<1>1. CASE EmptyWhenMissing
    <2>1. ReturnError(s) /\ UNCHANGED <<servers, clients>>
        BY <1>1 DEF NoRoute
    <2>2. Becomes(s, "idle") /\ WorkersOK' /\ warned' \subseteq Users \X Users
        BY <2>1, ReturnErrorOK
    <2>3. StubsOK'
        BY <2>1, <2>2, StubsKept DEF TInv, servers
    <2>4. DataOK'
        BY <2>1, <2>2 DEF TInv, DataOK, servers, redis, mysql, clients
    <2> QED BY <2>2, <2>3, <2>4 DEF TInv
<1>2. CASE ~EmptyWhenMissing
    <2>1. Down(s, "ended") /\ UNCHANGED <<warned, ticket, known, told, moves>>
        BY <1>2 DEF NoRoute
    <2>2. DataOK'
        BY <2>1, DownOK DEF TInv, DataOK, redis, mysql
    <2> QED BY <2>1, <2>2, DownOK DEF TInv
<1> QED BY <1>1, <1>2

LEMMA LoginTInv == 
    ASSUME TInv, NEW s \in Servers, LoginStep(s)
    PROVE  TInv'
<1> USE FriendsAssumption DEF TInv
<1>1. CASE ReadSession(s)
    <2>1. worker[s].pc = "session" /\ UNCHANGED <<redis, mysql, requests, faults>>
        BY <1>1 DEF ReadSession, At
    <2>2. CASE Goto(s, "info") /\ UNCHANGED <<servers, clients, warned>>
        <3>1. Becomes(s, "info") /\ SameUsers(s) /\ Fits("info", worker[s].op)
            BY <2>1, <2>2, GotoBecomes DEF Fits, Places
        <3>2. DataOK'
            BY <2>1, <2>2 DEF DataOK, servers, redis, mysql, clients
        <3> QED BY <2>1, <2>2, <3>1, <3>2, MoveOK, StubsKept DEF Places, servers
    <2>3. CASE ReturnError(s) /\ UNCHANGED <<servers, clients>>
        <3>1. Becomes(s, "idle") /\ WorkersOK' /\ warned' \subseteq Users \X Users
            BY <2>1, <2>3, ReturnErrorOK
        <3>2. DataOK'
            BY <2>1, <2>3, <3>1 DEF DataOK, servers, redis, mysql, clients
        <3> QED BY <2>1, <2>3, <3>1, <3>2, StubsKept DEF servers
    <2>4. CASE NoRoute(s)
        BY <2>1, <2>4, NoRouteTInv
    <2> QED BY <1>1, <2>2, <2>3, <2>4 DEF ReadSession
<1>2. CASE ReadApplyList(s)
    <2>1. Becomes(s, "store") /\ SameUsers(s) /\ worker[s].pc # "idle" /\ Fits("store", worker[s].op)
        <3>1. Applicants(worker[s].me) \in SUBSET Users
            BY DEF Applicants
        <3> QED BY <1>2, <3>1, GotoBecomes, GotoWithListBecomes DEF ReadApplyList, At, Fits, Places
    <2>2. WorkersOK'
        BY <2>1, MoveOK DEF Places
    <2>3. StubsOK'
        BY <1>2, <2>1, StubsKept DEF ReadApplyList, At, servers
    <2>4. DataOK'
        BY <1>2 DEF ReadApplyList, Fault, DataOK, servers, redis, mysql, clients
    <2> QED BY <2>2, <2>3, <2>4
<1>3. CASE StoreSession(s)
    <2>1. Becomes(s, "bind") /\ SameUsers(s) /\ worker[s].pc # "idle" /\ Fits("bind", worker[s].op)
        BY <1>3, GotoBecomes DEF StoreSession, At, Fits, Places, WorkersOK, PlaceOK
    <2>2. WorkersOK'
        BY <2>1, MoveOK DEF Places
    <2>3. StubsOK'
        BY <1>3, <2>1, StubsKept DEF StoreSession, At, servers, redis, mysql, clients
    <2>4. DataOK'
        BY <1>3 DEF StoreSession, At, DataOK, WorkersOK, PlaceOK, Handler, servers, redis, mysql, clients
    <2> QED BY <2>2, <2>3, <2>4
<1>4. CASE Bind(s)
    <2>1. Becomes(s, "lists") /\ SameUsers(s) /\ worker[s].pc # "idle" /\ Fits("lists", worker[s].op)
        BY <1>4, GotoBecomes DEF Bind, At, Fits, Places, WorkersOK, PlaceOK
    <2>2. WorkersOK'
        BY <2>1, MoveOK DEF Places
    <2>3. StubsOK'
        BY <1>4, <2>1, StubsKept DEF Bind, At, servers, redis, mysql, clients
    <2>4. DataOK'
        BY <1>4 DEF Bind, At, DataOK, WorkersOK, PlaceOK, Handler, servers, redis, mysql, clients
    <2> QED BY <2>2, <2>3, <2>4
<1>5. CASE AnswerLogin(s)
    <2>1. Becomes(s, "idle") /\ WorkersOK'
        BY <1>5, ReturnBecomes, ReturnOK DEF AnswerLogin
    <2>2. StubsOK'
        BY <1>5, <2>1, StubsKept DEF AnswerLogin, At, servers, redis, mysql, clients
    <2>3. DataOK'
        BY <1>5 DEF AnswerLogin, At, DataOK, WorkersOK, PlaceOK, Handler, servers, redis, mysql, clients
    <2> QED BY <2>1, <2>2, <2>3
<1> QED BY <1>1, <1>2, <1>3, <1>4, <1>5 DEF LoginStep

LEMMA FriendTInv ==
    ASSUME TInv, NEW s \in Servers, FriendStep(s)
    PROVE  TInv'
<1> USE FriendsAssumption DEF TInv
<1>1. CASE AddFriend(s)
    <2>0. worker[s].pc \notin {"idle", "call", "reply"} /\ Pair(s) \in Users \X Users
          /\ worker[s].me \in Users /\ worker[s].to \in Users /\ UNCHANGED <<stubs, leaked>>
        BY <1>1 DEF AddFriend, At, Pair, WorkersOK, PlaceOK, servers
    <2>1. DataOK'
        BY <1>1, <2>0 DEF AddFriend, Store, Fault, DataOK, servers, redis, mysql, clients
    <2>2. CASE Goto(s, "route")
        <3>1. Becomes(s, "route") /\ SameUsers(s) /\ Fits("route", worker[s].op)
            BY <1>1, <2>2, GotoBecomes DEF AddFriend, At, Fits, Places, WorkersOK, PlaceOK
        <3> QED BY <2>0, <2>1, <3>1, MoveOK, StubsKept DEF Places
    <2>3. CASE Return(s)
        <3>1. Becomes(s, "idle")
            BY <2>3, ReturnBecomes
        <3> QED BY <2>0, <2>1, <3>1, ReturnOK, StubsKept
    <2> QED BY <1>1, <2>2, <2>3 DEF AddFriend, Unsuccessful
<1>2. CASE UpdateFriendStatus(s)
    <2>0. worker[s].pc \notin {"idle", "call", "reply"} /\ Pair(s) \in Users \X Users
          /\ worker[s].me \in Users /\ worker[s].to \in Users /\ UNCHANGED <<stubs, leaked>>
        BY <1>2 DEF UpdateFriendStatus, At, Pair, WorkersOK, PlaceOK, servers
    <2>1. DataOK'
        <3>1. CASE UNCHANGED mysql
            BY <1>2, <3>1 DEF UpdateFriendStatus, Fault, DataOK, servers, redis, mysql, clients
        <3>2. CASE Befriend(s)
            <4>1. pending' \subseteq Users \X Users
                BY <3>2 DEF Befriend, DataOK
            <4>2. friends' \subseteq SUBSET Users
                <5>1. {worker[s].to, worker[s].me} \in SUBSET Users
                    BY <2>0
                <5>2. friends' = friends \cup {{worker[s].to, worker[s].me}}
                    BY <3>2 DEF Befriend
                <5> QED BY <5>1, <5>2 DEF DataOK
            <4> QED BY <1>2, <3>2, <4>1, <4>2
                    DEF UpdateFriendStatus, Befriend, Fault, DataOK, servers, redis, clients
        <3> QED BY <1>2, <3>1, <3>2 DEF UpdateFriendStatus, mysql
    <2>2. CASE Goto(s, "info")
        <3>1. Becomes(s, "info") /\ SameUsers(s) /\ Fits("info", worker[s].op)
            BY <1>2, <2>2, GotoBecomes DEF UpdateFriendStatus, At, Fits, Places, WorkersOK, PlaceOK
        <3> QED BY <2>0, <2>1, <3>1, MoveOK, StubsKept DEF Places
    <2>3. CASE Return(s)
        <3>1. Becomes(s, "idle")
            BY <2>3, ReturnBecomes
        <3> QED BY <2>0, <2>1, <3>1, ReturnOK, StubsKept
    <2> QED BY <1>2, <2>2, <2>3 DEF UpdateFriendStatus
<1>3. CASE ReadRoute(s)
    <2> DEFINE r == route[worker[s].to]
    <2> DEFINE x == IF worker[s].op = "apply" THEN "info" ELSE "notify"
    <2>1. CASE r # None
        <3>1. r \in Servers \cup {None}
            BY <1>3 DEF ReadRoute, At, DataOK, WorkersOK, PlaceOK
        <3>2. Becomes(s, x) /\ SameUsers(s) /\ worker[s].pc # "idle" /\ Fits(x, worker[s].op)
            BY <1>3, <2>1, <3>1, GotoWithServerBecomes DEF ReadRoute, At, Fits, Places, WorkersOK, PlaceOK
        <3>3. WorkersOK'
            BY <3>2, MoveOK DEF Places
        <3>4. StubsOK'
            BY <1>3, <2>1, <3>2, StubsKept DEF ReadRoute, At, servers
        <3>5. DataOK'
            BY <1>3, <2>1 DEF ReadRoute, DataOK, servers, redis, mysql, clients
        <3> QED BY <3>3, <3>4, <3>5
    <2>2. CASE r = None
        <3>1. /\ NoRoute(s) /\ worker[s].pc \notin {"idle", "call", "reply"}
              /\ UNCHANGED <<redis, mysql, requests, faults>>
            BY <1>3, <2>2 DEF ReadRoute, At
        <3> QED BY <3>1, NoRouteTInv
    <2> QED BY <2>1, <2>2
<1> QED BY <1>1, <1>2, <1>3 DEF FriendStep

(* Where a handler goes on once it has the profile.                        *)
LEMMA AfterInfoFits ==
    ASSUME WorkersOK, NEW s \in Servers, worker[s].pc \in {"info", "fetch"}
    PROVE  /\ AfterInfo(s) \in Places \ {"idle", "call", "reply"} /\ Fits(AfterInfo(s), worker[s].op)
           /\ InfoOf(s) \in Users
BY DEF WorkersOK, PlaceOK, AfterInfo, Fits, Places, InfoOf

LEMMA GoOnOK ==
    ASSUME WorkersOK, StubsOK, NEW s \in Servers, NEW x \in Places \ {"idle", "call", "reply"},
           Fits(x, worker[s].op), worker[s].pc \notin {"idle", "call", "reply"},
           Goto(s, x), UNCHANGED <<stubs, leaked>>
    PROVE  WorkersOK' /\ StubsOK'
<1>1. Becomes(s, x) /\ SameUsers(s)
    BY GotoBecomes
<1>2. WorkersOK'
    BY <1>1, MoveOK
<1>3. StubsOK'
    BY <1>1, StubsKept
<1> QED BY <1>2, <1>3

LEMMA InfoTInv ==
    ASSUME TInv, NEW s \in Servers, InfoStep(s)
    PROVE  TInv'
<1> USE FriendsAssumption DEF TInv
<1>1. CASE ReadInfo(s)
    <2>1. worker[s].pc = "info" /\ UNCHANGED <<redis, mysql, warned, requests, faults>>
        BY <1>1 DEF ReadInfo, At
    <2>2. CASE Goto(s, AfterInfo(s)) /\ UNCHANGED <<servers, clients>>
        <3>1. DataOK'
            BY <2>1, <2>2 DEF DataOK, servers, redis, mysql, clients
        <3> QED BY <2>1, <2>2, <3>1, AfterInfoFits, GoOnOK DEF servers
    <2>3. CASE Goto(s, "fetch") /\ UNCHANGED <<servers, clients>>
        <3>1. DataOK'
            BY <2>1, <2>3 DEF DataOK, servers, redis, mysql, clients
        <3>2. "fetch" \in Places \ {"idle", "call", "reply"} /\ Fits("fetch", worker[s].op)
            BY DEF Places, Fits
        <3> QED BY <2>1, <2>3, <3>1, <3>2, GoOnOK DEF servers
    <2>4. CASE Down(s, "ended") /\ UNCHANGED <<ticket, known, told, moves>>
        <3>1. DataOK'
            BY <2>1, <2>4, DownOK DEF DataOK, redis, mysql
        <3> QED BY <2>4, <3>1, DownOK
    <2> QED BY <1>1, <2>2, <2>3, <2>4 DEF ReadInfo
<1>2. CASE FetchInfo(s)
    <2>1. worker[s].pc = "fetch" /\ UNCHANGED <<stubs, leaked>> /\ Goto(s, AfterInfo(s))
        BY <1>2 DEF FetchInfo, At, servers
    <2>2. DataOK'
        BY <1>2, <2>1, AfterInfoFits DEF FetchInfo, DataOK, servers, redis, mysql, clients
    <2> QED BY <2>1, <2>2, AfterInfoFits, GoOnOK
<1>3. CASE FetchFails(s)
    <2>1. worker[s].pc = "fetch" /\ UNCHANGED <<stubs, leaked>>
        BY <1>3 DEF FetchFails, At, servers
    <2>2. CASE Goto(s, AfterInfo(s)) /\ UNCHANGED warned
        <3>1. DataOK'
            BY <1>3, <2>2 DEF FetchFails, Fault, DataOK, servers, redis, mysql, clients
        <3> QED BY <2>1, <2>2, <3>1, AfterInfoFits, GoOnOK
    <2>3. CASE ReturnError(s)
        <3>1. Becomes(s, "idle") /\ WorkersOK' /\ warned' \subseteq Users \X Users
            BY <2>1, <2>3, ReturnErrorOK
        <3>2. DataOK'
            BY <1>3, <3>1 DEF FetchFails, Fault, DataOK, servers, redis, mysql, clients
        <3> QED BY <2>1, <3>1, <3>2, StubsKept
    <2> QED BY <1>3, <2>2, <2>3 DEF FetchFails
<1> QED BY <1>1, <1>2, <1>3 DEF InfoStep

(* A notification names a user and goes to a user.                         *)
LEMMA DeliveredOK ==
    ASSUME DataOK, NEW s \in Servers, NEW u \in Users, NEW r, NEW who \in Users,
           Delivered(s, u, r, who)
    PROVE  known' \in [Users -> SUBSET Users] /\ told' \in [Users -> SUBSET Users]
BY DEF DataOK, Delivered

LEMMA NotifyTInv ==
    ASSUME TInv, NEW s \in Servers, NotifyStep(s)
    PROVE  TInv'
<1> USE FriendsAssumption DEF TInv
<1>0. worker[s].pc \in {"notify", "call", "reply"} =>
         worker[s].op \in {"apply", "approve"} /\ worker[s].me \in Users /\ worker[s].to \in Users
    BY DEF WorkersOK, PlaceOK
<1>1. CASE NotifyHere(s)
    <2>1. worker[s].pc = "notify" /\ Return(s) /\ UNCHANGED <<stubs, leaked>>
        BY <1>1 DEF NotifyHere, At, servers
    <2>2. Becomes(s, "idle")
        BY <2>1, ReturnBecomes
    <2>3. known' \in [Users -> SUBSET Users] /\ told' \in [Users -> SUBSET Users]
        BY <1>0, <1>1, <2>1, DeliveredOK DEF NotifyHere, Recipient, InfoOf
    <2>4. DataOK'
        BY <1>1, <2>3 DEF NotifyHere, DataOK, servers, redis, mysql
    <2> QED BY <2>1, <2>2, <2>4, ReturnOK, StubsKept
<1>2. CASE TakeStub(s)
    <2> DEFINE r == worker[s].at
    <2>1. worker[s].pc = "notify" /\ Goto(s, "call") /\ r \in Servers /\ stubs[s][r] > 0
          /\ stubs' = [stubs EXCEPT ![s][r] = @ - 1] /\ leaked' = leaked
        BY <1>2 DEF TakeStub, At, StubIdle
    <2>2. /\ Becomes(s, "call") /\ SameUsers(s) /\ Fits("call", worker[s].op)
          /\ worker'[s].at = r
        BY <1>0, <2>1, GotoBecomes DEF Places, Fits, Goto, WorkersOK, Handler
    <2>3. WorkersOK'
        BY <2>1, <2>2, MoveOK DEF Places
    <2>4. StubsOK'
        <3> DEFINE n == stubs[s][r] - 1
                   l == leaked[s][r]
        <3>0. OnCall(s, r) = 0
            BY <2>1 DEF OnCall
        <3>a. stubs[s][r] \in 0..PoolSize /\ leaked[s][r] \in 0..PoolSize
            BY <2>1 DEF StubsOK, Pools
        <3>b. (stubs[s][r] + leaked[s][r]) + 0 = PoolSize
            BY <2>1, <3>0 DEF StubsOK, StubsAccounted
        <3>1. stubs[s][r] \in 0..PoolSize /\ l \in 0..PoolSize /\ (stubs[s][r] + l) + 0 = PoolSize
            BY <3>a, <3>b
        <3>2. n \in 0..PoolSize /\ (n + l) + 1 = PoolSize
            BY <2>1, <3>1
        <3>3. stubs' = [stubs EXCEPT ![s][r] = n] /\ leaked' = [leaked EXCEPT ![s][r] = l]
            BY <2>1 DEF StubsOK, Pools
        <3> HIDE DEF n, l
        <3> QED BY <2>1, <2>2, <3>1, <3>2, <3>3, StubsMove
    <2>5. DataOK'
        BY <1>2 DEF TakeStub, DataOK, redis, mysql, clients
    <2> QED BY <2>3, <2>4, <2>5
<1>3. CASE Serve(s)
    <2>1. worker[s].pc = "call" /\ Goto(s, "reply") /\ UNCHANGED <<stubs, leaked>>
        BY <1>3 DEF Serve, At, servers
    <2>2. /\ Becomes(s, "reply") /\ SameUsers(s) /\ Fits("reply", worker[s].op)
          /\ worker'[s].at = worker[s].at /\ worker[s].at \in Servers
        BY <1>0, <2>1, GotoBecomes DEF Places, Fits, Goto, WorkersOK, PlaceOK, Handler
    <2>3. known' \in [Users -> SUBSET Users] /\ told' \in [Users -> SUBSET Users]
        <3>1. CASE Delivered(s, worker[s].to, worker[s].at, worker[s].me)
            BY <1>0, <2>1, <3>1, DeliveredOK
        <3>2. CASE UNCHANGED <<known, told>>
            BY <3>2 DEF DataOK
        <3> QED BY <1>3, <3>1, <3>2 DEF Serve
    <2>4. cached' \subseteq Users /\ faults' \in 0..MaxFaults
        BY <1>0, <1>3, <2>1 DEF Serve, Fault, DataOK
    <2>5. DataOK'
        BY <1>3, <2>3, <2>4 DEF Serve, DataOK, servers, mysql
    <2> QED BY <2>1, <2>2, <2>5, MoveOK, StubsKept DEF Places
<1>4. CASE Reply(s) \/ CallFails(s)
    <2> DEFINE r == worker[s].at
    <2>1. worker[s].pc \in {"call", "reply"} /\ Return(s)
        BY <1>4 DEF Reply, CallFails, At
    <2>2. Becomes(s, "idle")
        BY <2>1, ReturnBecomes
    <2>3. r \in Servers
        BY <2>1 DEF WorkersOK, PlaceOK
    <2>4. /\ stubs[s][r] \in 0..PoolSize /\ leaked[s][r] \in 0..PoolSize
          /\ (stubs[s][r] + leaked[s][r]) + 1 = PoolSize
        BY <2>1, <2>3 DEF StubsOK, Pools, StubsAccounted, OnCall
    <2>5. StubsOK'
        <3>1. CASE Reply(s)
            <4> DEFINE n == stubs[s][r] + 1
                       l == leaked[s][r]
            <4>1. /\ n \in 0..PoolSize /\ l \in 0..PoolSize
                  /\ (n + l) + (IF "idle" \in {"call", "reply"} THEN 1 ELSE 0) = PoolSize
                BY <2>4
            <4>2. stubs' = [stubs EXCEPT ![s][r] = n] /\ leaked' = [leaked EXCEPT ![s][r] = l]
                BY <3>1 DEF Reply, Returned, StubsOK, Pools
            <4> HIDE DEF n, l
            <4>3. "idle" \in {"call", "reply"} => worker'[s].at = r
                OBVIOUS
            <4> QED BY <2>2, <2>3, <4>1, <4>2, <4>3, StubsMove
        <3>2. CASE CallFails(s)
            <4> DEFINE n == stubs[s][r]
                       l == leaked[s][r] + 1
            <4>1. /\ n \in 0..PoolSize /\ l \in 0..PoolSize
                  /\ (n + l) + (IF "idle" \in {"call", "reply"} THEN 1 ELSE 0) = PoolSize
                BY <2>4
            <4>2. stubs' = [stubs EXCEPT ![s][r] = n] /\ leaked' = [leaked EXCEPT ![s][r] = l]
                BY <3>2 DEF CallFails, StubsOK, Pools
            <4> HIDE DEF n, l
            <4>3. "idle" \in {"call", "reply"} => worker'[s].at = r
                OBVIOUS
            <4> QED BY <2>2, <2>3, <4>1, <4>2, <4>3, StubsMove
        <3> QED BY <1>4, <3>1, <3>2
    <2>6. DataOK'
        BY <1>4 DEF Reply, CallFails, Fault, DataOK, redis, mysql, clients
    <2> QED BY <2>2, <2>5, <2>6, ReturnOK
<1>5. CASE NoPool(s)
    <2>1. worker[s].pc = "notify" /\ Return(s) /\ UNCHANGED <<stubs, leaked>>
        BY <1>5 DEF NoPool, At, servers
    <2>2. Becomes(s, "idle")
        BY <2>1, ReturnBecomes
    <2>3. DataOK'
        BY <1>5 DEF NoPool, DataOK, servers, redis, mysql, clients
    <2> QED BY <2>1, <2>2, <2>3, ReturnOK, StubsKept
<1> QED BY <1>1, <1>2, <1>3, <1>4, <1>5 DEF NotifyStep

(* The clients and the surroundings.                                       *)
LEMMA BeginTInv ==
    ASSUME TInv, NEW s \in Servers, NEW op \in {"login", "apply", "approve"},
           NEW x \in Places \ {"idle", "call", "reply"}, Fits(x, op), NEW u \in Users,
           NEW v \in Users \cup {None}, op # "login" => v \in Users,
           At(s, "idle"), Begin(s, op, u, v, x), DataOK', UNCHANGED servers
    PROVE  TInv'
<1>1. /\ Becomes(s, x) /\ worker'[s].op = op /\ worker'[s].me = u /\ worker'[s].to = v
    BY BeginBecomes DEF TInv
<1>2. WorkersOK'
    BY <1>1 DEF TInv, WorkersOK, PlaceOK, Becomes, Fits
<1>3. StubsOK'
    BY <1>1, StubsKept DEF TInv, At, servers
<1> QED BY <1>2, <1>3 DEF TInv

LEMMA NextTInv ==
    ASSUME TInv, [Next]_vars
    PROVE  TInv'
<1> USE FriendsAssumption DEF TInv
<1>1. ASSUME NEW s \in Servers, HandlerStep(s) PROVE TInv'
    BY <1>1, LoginTInv, FriendTInv, InfoTInv, NotifyTInv DEF HandlerStep
<1>2. ASSUME NEW s \in Servers, NEW u \in Users, BeginLogin(s, u) PROVE TInv'
    <2>1. DataOK'
        BY <1>2 DEF BeginLogin, DataOK, servers, redis, mysql
    <2>2. Fits("session", "login") /\ "session" \in Places \ {"idle", "call", "reply"}
        BY DEF Fits, Places
    <2> QED BY <1>2, <2>1, <2>2, BeginTInv DEF BeginLogin
<1>3. ASSUME NEW s \in Servers, NEW a \in Users, NEW b \in Users, NEW op \in {"apply", "approve"},
             BeginFriend(s, op, a, b)
      PROVE  TInv'
    <2>1. DataOK'
        BY <1>3 DEF BeginFriend, DataOK, servers, redis, mysql, clients
    <2>2. Fits(op, op) /\ op \in Places \ {"idle", "call", "reply"}
        BY DEF Fits, Places
    <2> QED BY <1>3, <2>1, <2>2, BeginTInv DEF BeginFriend
<1>4. ASSUME NEW s \in Servers, Crash(s) PROVE TInv'
    <2>1. DataOK'
        BY <1>4, DownOK DEF Crash, Fault, DataOK, redis, mysql
    <2> QED BY <1>4, <2>1, DownOK DEF Crash
<1>5. ASSUME UNCHANGED <<worker, stubs, leaked>> PROVE WorkersOK' /\ StubsOK'
    BY <1>5 DEF WorkersOK, PlaceOK, StubsOK, StubsAccounted, OnCall
<1>6. ASSUME NEW s \in Servers, Start(s) PROVE TInv'
    BY <1>5, <1>6 DEF Start, DataOK, redis, mysql, clients
<1>7. ASSUME NEW s \in Servers, NEW u \in Users, Allocate(u, s) PROVE TInv'
    BY <1>5, <1>7 DEF Allocate, Move, DataOK, servers, mysql
<1>8. ASSUME NEW u \in Users, Expire(u) PROVE TInv'
    BY <1>5, <1>8 DEF Expire, Fault, DataOK, servers, mysql, clients
<1>9. ASSUME NEW u \in Users, Disconnect(u) PROVE TInv'
    BY <1>5, <1>9 DEF Disconnect, Move, DataOK, servers, redis, mysql
<1>10. CASE UNCHANGED vars
    BY <1>5, <1>10 DEF vars, DataOK
<1> QED BY <1>1, <1>2, <1>3, <1>4, <1>6, <1>7, <1>8, <1>9, <1>10 DEF Next

THEOREM TInvHolds == Spec => []TInv
<1>1. Init => TInv
    BY InitTInv
<1>2. TInv /\ [Next]_vars => TInv'
    BY NextTInv
<1> QED BY <1>1, <1>2, PTL DEF Spec

(* The variables of the chat servers, their clients and the database keep  *)
(* their types; no more stubs come back to a pool than were taken.         *)
THEOREM FriendsTypeCorrect == Spec => []TypeOK
BY TInvHolds, TInvTypes, PTL

(* A worker that comes to a pool finds a stub, unless failed calls have    *)
(* lost all stubs of that pool: there is no other way to wait for one for  *)
(* ever (ChatConPool::GetConnection in FriendGrpcClient.cpp).              *)
StubsLastUntilLost ==
    \A s, r \in Servers : worker[s].pc \notin {"call", "reply"} =>
        stubs[s][r] > 0 \/ leaked[s][r] = PoolSize

(* FriendGrpcClient: only lost stubs keep a worker waiting for one.        *)
THEOREM OnlyLostStubsAreAwaited == Spec => []StubsLastUntilLost
<1>1. TInv => StubsLastUntilLost
    <2> SUFFICES ASSUME TInv, NEW s \in Servers, NEW r \in Servers,
                        worker[s].pc \notin {"call", "reply"}
                 PROVE  stubs[s][r] > 0 \/ leaked[s][r] = PoolSize
        BY DEF StubsLastUntilLost
    <2>1. stubs[s][r] \in 0..PoolSize /\ leaked[s][r] \in 0..PoolSize
        BY DEF TInv, StubsOK, Pools
    <2>2. (stubs[s][r] + leaked[s][r]) + 0 = PoolSize
        BY DEF TInv, StubsOK, StubsAccounted, OnCall
    <2> QED BY <2>1, <2>2, FriendsAssumption
<1> QED BY <1>1, TInvHolds, PTL

-----------------------------------------------------------------------------
(* What clients are told is stored                                         *)

(* a has applied to u, or is a friend of u by now.                         *)
Stored(a, u) == <<a, u>> \in pending \/ {a, u} \in friends

(* What a handler has read or stored stays in the database.                *)
Agrees(s) ==
    worker[s].pc # "idle" =>
        /\ \A a \in worker[s].seen : Stored(a, worker[s].me)
        /\ worker[s].op = "apply" /\ worker[s].pc # "apply" =>
              Stored(worker[s].me, worker[s].to)
        /\ worker[s].op = "approve" /\ worker[s].pc # "approve" =>
              {worker[s].me, worker[s].to} \in friends

HandlersAgree == \A s \in Servers : Agrees(s)

FInv == TInv /\ HandlersAgree /\ ToldIsStored

(* Applications only become friendships, and those stay.                   *)
Grows ==
    /\ \A a, u \in Users : Stored(a, u) => Stored(a, u)'
    /\ friends \subseteq friends'

LEMMA SameGrows == ASSUME UNCHANGED mysql PROVE Grows
BY DEF mysql, Grows, Stored

LEMMA StoreGrows == ASSUME NEW s \in Servers, Store(s) PROVE Grows
BY DEF Store, Grows, Stored

LEMMA BefriendGrows == ASSUME NEW s \in Servers, Befriend(s) PROVE Grows
<1>1. friends \subseteq friends'
    BY DEF Befriend
<1>2. ASSUME NEW a \in Users, NEW u \in Users, Stored(a, u) PROVE Stored(a, u)'
    <2>1. CASE {a, u} \in friends
        BY <1>1, <2>1 DEF Stored
    <2>2. CASE <<a, u>> \in pending /\ <<a, u>> # <<worker[s].to, worker[s].me>>
        BY <2>2 DEF Stored, Befriend
    <2>3. CASE <<a, u>> = <<worker[s].to, worker[s].me>>
        BY <2>3 DEF Stored, Befriend
    <2> QED BY <1>2, <2>1, <2>2, <2>3 DEF Stored
<1> QED BY <1>1, <1>2 DEF Grows

LEMMA ToldKept ==
    ASSUME TInv, ToldIsStored, Grows, UNCHANGED <<known, told>>
    PROVE  ToldIsStored'
<1>1. ASSUME NEW u \in Users, NEW a \in known[u] PROVE Stored(a, u)'
    BY DEF TInv, DataOK, ToldIsStored, Grows, Stored
<1>2. ASSUME NEW u \in Users, NEW a \in told[u] \ {u} PROVE {a, u} \in friends'
    BY DEF TInv, DataOK, ToldIsStored, Grows
<1> QED BY <1>1, <1>2 DEF ToldIsStored, Stored

(* The other handlers are not disturbed.                                   *)
LEMMA OthersAgree ==
    ASSUME TInv, HandlersAgree, Grows, NEW s \in Servers, NEW x, Becomes(s, x), Agrees(s)'
    PROVE  HandlersAgree'
<1>1. ASSUME NEW r \in Servers \ {s} PROVE Agrees(r)'
    <2>1. worker'[r] = worker[r] /\ Agrees(r) /\ worker[r] \in Handler
        BY DEF Becomes, HandlersAgree, TInv, WorkersOK
    <2>2. worker[r].pc # "idle" =>
             /\ worker[r].me \in Users /\ worker[r].seen \subseteq Users
             /\ worker[r].op # "login" => worker[r].to \in Users
        BY <2>1 DEF TInv, WorkersOK, PlaceOK, Handler
    <2> QED BY <2>1, <2>2 DEF Agrees, Grows
<1> QED BY <1>1 DEF HandlersAgree

LEMMA IdleAgrees ==
    ASSUME TInv, HandlersAgree, Grows, NEW s \in Servers, Becomes(s, "idle")
    PROVE  HandlersAgree'
<1>1. Agrees(s)'
    BY DEF Becomes, Agrees
<1> QED BY <1>1, OthersAgree

(* A handler goes on with what it had.                                     *)
LEMMA MoveAgrees ==
    ASSUME TInv, HandlersAgree, Grows, NEW s \in Servers, NEW x, Becomes(s, x), SameUsers(s),
           worker'[s].seen = worker[s].seen, worker[s].pc \notin {"idle", "apply", "approve"}
    PROVE  HandlersAgree'
<1>1. Agrees(s) /\ worker[s] \in Handler /\ worker[s].me \in Users
      /\ (worker[s].op # "login" => worker[s].to \in Users) /\ worker[s].seen \subseteq Users
    BY DEF HandlersAgree, TInv, WorkersOK, PlaceOK, Handler
<1>2. Agrees(s)'
    BY <1>1 DEF Agrees, Grows, SameUsers
<1> QED BY <1>2, OthersAgree

LEMMA GotoAgrees ==
    ASSUME TInv, HandlersAgree, Grows, NEW s \in Servers, NEW x \in Places, Goto(s, x),
           worker[s].pc \notin {"idle", "apply", "approve"}
    PROVE  HandlersAgree'
BY GotoBecomes, MoveAgrees DEF TInv

LEMMA ReturnAgrees ==
    ASSUME TInv, HandlersAgree, Grows, NEW s \in Servers, Return(s)
    PROVE  HandlersAgree'
BY ReturnBecomes, IdleAgrees DEF TInv

LEMMA InitFInv == Init => FInv
<1>1. Init => HandlersAgree /\ ToldIsStored
    BY DEF Init, Idle, HandlersAgree, Agrees, ToldIsStored
<1> QED BY <1>1, InitTInv DEF FInv

(* Steps that neither touch the applications nor tell a client anything.   *)
LEMMA QuietAgrees ==
    ASSUME FInv, NEW s \in Servers, UNCHANGED <<mysql, known, told>>,
           \/ Return(s)
           \/ \E x \in Places : Goto(s, x) /\ worker[s].pc \notin {"idle", "apply", "approve"}
    PROVE  HandlersAgree' /\ ToldIsStored'
<1>1. Grows
    BY SameGrows
<1>2. ToldIsStored'
    BY <1>1, ToldKept DEF FInv
<1>3. HandlersAgree'
    BY <1>1, GotoAgrees, ReturnAgrees DEF FInv
<1> QED BY <1>2, <1>3

LEMMA DownAgrees ==
    ASSUME FInv, NEW s \in Servers, NEW how \in {"down", "ended"}, Down(s, how),
           UNCHANGED <<mysql, known, told>>
    PROVE  HandlersAgree' /\ ToldIsStored'
<1>1. Return(s)
    BY DEF Down, Return
<1> QED BY <1>1, QuietAgrees

LEMMA NoRouteAgrees ==
    ASSUME FInv, NEW s \in Servers, NoRoute(s), UNCHANGED mysql
    PROVE  HandlersAgree' /\ ToldIsStored'
<1>1. CASE EmptyWhenMissing
    <2>1. Return(s) /\ UNCHANGED <<known, told>>
        BY <1>1 DEF NoRoute, ReturnError, clients
    <2> QED BY <2>1, QuietAgrees
<1>2. CASE ~EmptyWhenMissing
    <2>1. Down(s, "ended") /\ UNCHANGED <<known, told>>
        BY <1>2 DEF NoRoute
    <2> QED BY <2>1, DownAgrees
<1> QED BY <1>1, <1>2

LEMMA RouteAgrees ==
    ASSUME FInv, NEW s \in Servers, NEW x \in Places, NEW r \in Servers \cup {None},
           GotoWithServer(s, x, r), UNCHANGED <<mysql, known, told>>,
           worker[s].pc \notin {"idle", "apply", "approve"}
    PROVE  HandlersAgree' /\ ToldIsStored'
<1>1. Grows
    BY SameGrows
<1>2. ToldIsStored'
    BY <1>1, ToldKept DEF FInv
<1>3. HandlersAgree'
    BY <1>1, GotoWithServerBecomes, MoveAgrees DEF FInv, TInv
<1> QED BY <1>2, <1>3

LEMMA LoginAgrees ==
    ASSUME FInv, NEW s \in Servers, LoginStep(s)
    PROVE  HandlersAgree' /\ ToldIsStored'
<1> USE DEF FInv
<1>1. CASE ReadSession(s)
    <2>1. worker[s].pc = "session" /\ "info" \in Places /\ UNCHANGED mysql
        BY <1>1 DEF ReadSession, At, Places
    <2>2. CASE Goto(s, "info") /\ UNCHANGED clients
        BY <2>1, <2>2, QuietAgrees DEF clients
    <2>3. CASE ReturnError(s) /\ UNCHANGED clients
        BY <2>1, <2>3, QuietAgrees DEF ReturnError, clients
    <2>4. CASE NoRoute(s)
        BY <2>1, <2>4, NoRouteAgrees
    <2> QED BY <1>1, <2>2, <2>3, <2>4 DEF ReadSession
<1>2. CASE ReadApplyList(s)
    <2>1. worker[s].pc = "applies" /\ worker[s].me \in Users /\ "store" \in Places
          /\ UNCHANGED <<mysql, known, told>>
        BY <1>2 DEF ReadApplyList, At, TInv, WorkersOK, PlaceOK, Places, clients
    <2>2. CASE Goto(s, "store")
        BY <2>1, <2>2, QuietAgrees
    <2>3. CASE GotoWithList(s, "store", Applicants(worker[s].me))
        <3>1. Grows
            BY <2>1, SameGrows
        <3>2. Applicants(worker[s].me) \in SUBSET Users
            BY DEF Applicants
        <3>3. Becomes(s, "store") /\ SameUsers(s) /\ worker'[s].seen = Applicants(worker[s].me)
            BY <2>1, <2>3, <3>2, GotoWithListBecomes DEF TInv
        <3>4. worker'[s].me = worker[s].me /\ UNCHANGED <<pending, friends>>
            BY <2>1, <3>3 DEF SameUsers, mysql
        <3>5. Agrees(s)'
            <4>1. Agrees(s)
                BY DEF HandlersAgree
            <4>2. ASSUME NEW a \in worker'[s].seen PROVE <<a, worker'[s].me>> \in pending'
                BY <3>3, <3>4, <4>2 DEF Applicants
            <4>3. worker'[s].op = worker[s].op /\ worker'[s].to = worker[s].to
                BY <3>3 DEF SameUsers
            <4>4. worker'[s].op = "apply" => Stored(worker[s].me, worker[s].to)'
                BY <2>1, <3>4, <4>1, <4>3 DEF Agrees, Stored
            <4>5. worker'[s].op = "approve" => {worker'[s].me, worker'[s].to} \in friends'
                BY <2>1, <3>4, <4>1, <4>3 DEF Agrees
            <4> QED BY <4>2, <4>4, <4>5 DEF Agrees, Stored
        <3>6. HandlersAgree'
            BY <3>1, <3>3, <3>5, OthersAgree
        <3> QED BY <2>1, <3>1, <3>6, ToldKept
    <2> QED BY <1>2, <2>2, <2>3 DEF ReadApplyList
<1>3. CASE StoreSession(s)
    BY <1>3, QuietAgrees DEF StoreSession, At, Places, clients
<1>4. CASE Bind(s)
    BY <1>4, QuietAgrees DEF Bind, At, Places
<1>5. CASE AnswerLogin(s)
    <2>1. worker[s].pc = "lists" /\ worker[s].me \in Users /\ Return(s)
          /\ UNCHANGED <<mysql, told>>
        BY <1>5 DEF AnswerLogin, At, TInv, WorkersOK, PlaceOK
    <2>2. Grows
        BY <2>1, SameGrows
    <2>3. ASSUME NEW u \in Users, NEW a \in known'[u] PROVE Stored(a, u)'
        <3>1. a \in known[u] \/ (u = worker[s].me /\ a \in worker[s].seen)
            <4>1. CASE u # worker[s].me
                BY <1>5, <2>3, <4>1 DEF AnswerLogin, TInv, DataOK
            <4>2. CASE u = worker[s].me
                <5>1. known'[u] \subseteq known[u] \cup worker[s].seen
                    BY <1>5, <4>2 DEF AnswerLogin, TInv, DataOK
                <5> QED BY <2>3, <4>2, <5>1
            <4> QED BY <4>1, <4>2
        <3>2. Stored(a, u)
            BY <2>1, <3>1 DEF ToldIsStored, Stored, HandlersAgree, Agrees
        <3> QED BY <2>1, <3>2 DEF Stored, mysql
    <2>4. ToldIsStored'
        BY <2>1, <2>3 DEF ToldIsStored, Stored, mysql
    <2> QED BY <2>1, <2>2, <2>4, ReturnAgrees
<1> QED BY <1>1, <1>2, <1>3, <1>4, <1>5 DEF LoginStep

LEMMA FriendAgrees ==
    ASSUME FInv, NEW s \in Servers, FriendStep(s)
    PROVE  HandlersAgree' /\ ToldIsStored'
<1> USE DEF FInv
<1>1. CASE AddFriend(s)
    <2>1. /\ worker[s].pc = "apply" /\ worker[s].op = "apply" /\ "route" \in Places
          /\ worker[s].me \in Users /\ worker[s].to \in Users /\ worker[s].seen \subseteq Users
          /\ UNCHANGED <<known, told>>
        BY <1>1 DEF AddFriend, At, TInv, WorkersOK, PlaceOK, Places, Handler, clients
    <2>2. Grows
        BY <1>1, SameGrows, StoreGrows DEF AddFriend
    <2>3. CASE Return(s)
        BY <2>1, <2>2, <2>3, ReturnAgrees, ToldKept
    <2>4. CASE Store(s) /\ Goto(s, "route")
        <3>1. Becomes(s, "route") /\ SameUsers(s) /\ worker'[s].seen = worker[s].seen
            BY <2>1, <2>4, GotoBecomes DEF TInv
        <3>2. Stored(worker[s].me, worker[s].to)'
            BY <2>4, <3>1 DEF Store, Pair, Stored, SameUsers
        <3>3. Agrees(s)'
            BY <2>1, <2>2, <3>1, <3>2 DEF Agrees, HandlersAgree, SameUsers, Grows
        <3> QED BY <2>1, <2>2, <3>1, <3>3, OthersAgree, ToldKept
    <2> QED BY <1>1, <2>3, <2>4 DEF AddFriend, Unsuccessful
<1>2. CASE UpdateFriendStatus(s)
    <2>1. /\ worker[s].pc = "approve" /\ worker[s].op = "approve" /\ "info" \in Places
          /\ worker[s].me \in Users /\ worker[s].to \in Users /\ worker[s].seen \subseteq Users
          /\ UNCHANGED <<known, told>>
        BY <1>2 DEF UpdateFriendStatus, At, TInv, WorkersOK, PlaceOK, Places, Handler, clients
    <2>2. Grows
        BY <1>2, SameGrows, BefriendGrows DEF UpdateFriendStatus
    <2>3. CASE Return(s)
        BY <2>1, <2>2, <2>3, ReturnAgrees, ToldKept
    <2>4. CASE Befriend(s) /\ Goto(s, "info")
        <3>1. Becomes(s, "info") /\ SameUsers(s) /\ worker'[s].seen = worker[s].seen
            BY <2>1, <2>4, GotoBecomes DEF TInv
        <3>2. {worker[s].me, worker[s].to} \in friends'
            <4>1. {worker[s].to, worker[s].me} \in friends'
                BY <2>4 DEF Befriend
            <4>2. {worker[s].to, worker[s].me} = {worker[s].me, worker[s].to}
                OBVIOUS
            <4> QED BY <4>1, <4>2
        <3>3. Agrees(s)'
            BY <2>1, <2>2, <3>1, <3>2 DEF Agrees, HandlersAgree, SameUsers, Grows
        <3> QED BY <2>1, <2>2, <3>1, <3>3, OthersAgree, ToldKept
    <2> QED BY <1>2, <2>3, <2>4 DEF UpdateFriendStatus
<1>3. CASE ReadRoute(s)
    <2> DEFINE x == IF worker[s].op = "apply" THEN "info" ELSE "notify"
    <2>1. worker[s].pc = "route" /\ worker[s].to \in Users /\ x \in Places /\ UNCHANGED mysql
        BY <1>3 DEF ReadRoute, At, TInv, WorkersOK, PlaceOK, Places
    <2>2. route[worker[s].to] \in Servers \cup {None}
        BY <2>1 DEF TInv, DataOK
    <2>3. CASE GotoWithServer(s, x, route[worker[s].to]) /\ UNCHANGED clients
        BY <2>1, <2>2, <2>3, RouteAgrees DEF clients
    <2>4. CASE NoRoute(s)
        BY <2>1, <2>4, NoRouteAgrees
    <2> QED BY <1>3, <2>3, <2>4 DEF ReadRoute
<1> QED BY <1>1, <1>2, <1>3 DEF FriendStep

LEMMA InfoAgrees ==
    ASSUME FInv, NEW s \in Servers, InfoStep(s)
    PROVE  HandlersAgree' /\ ToldIsStored'
<1> USE DEF FInv
<1>1. worker[s].pc \in {"info", "fetch"} /\ UNCHANGED mysql
    BY DEF InfoStep, ReadInfo, FetchInfo, FetchFails, At
<1>2. AfterInfo(s) \in Places /\ "fetch" \in Places
    BY <1>1, AfterInfoFits DEF TInv, Places
<1>3. CASE Goto(s, AfterInfo(s)) /\ UNCHANGED clients
    BY <1>1, <1>2, <1>3, QuietAgrees DEF clients
<1>4. CASE Goto(s, "fetch") /\ UNCHANGED clients
    BY <1>1, <1>2, <1>4, QuietAgrees DEF clients
<1>5. CASE ReturnError(s) /\ UNCHANGED clients
    BY <1>1, <1>5, QuietAgrees DEF ReturnError, clients
<1>6. CASE Down(s, "ended") /\ UNCHANGED <<known, told>>
    BY <1>1, <1>6, DownAgrees
<1> QED BY <1>3, <1>4, <1>5, <1>6 DEF InfoStep, ReadInfo, FetchInfo, FetchFails

(* A notification of handler s tells what s has stored.                    *)
LEMMA DeliveredIsStored ==
    ASSUME FInv, NEW s \in Servers, NEW r, NEW who \in {worker[s].me, worker[s].to},
           Delivered(s, worker[s].to, r, who), UNCHANGED mysql,
           worker[s].op = "apply" => who = worker[s].me,
           worker[s].pc \in {"notify", "call"}
    PROVE  ToldIsStored'
<1>1. /\ worker[s].op \in {"apply", "approve"} /\ worker[s].me \in Users /\ worker[s].to \in Users
      /\ worker[s].op = "apply" => Stored(worker[s].me, worker[s].to)
      /\ worker[s].op = "approve" => {worker[s].me, worker[s].to} \in friends
    BY DEF FInv, TInv, WorkersOK, PlaceOK, HandlersAgree, Agrees
<1>2. ASSUME NEW u \in Users, NEW a \in known'[u] PROVE Stored(a, u)'
    <2>1. a \in known[u] \/ (worker[s].op = "apply" /\ u = worker[s].to /\ a = worker[s].me)
        BY <1>2 DEF Delivered, FInv, TInv, DataOK
    <2>2. Stored(a, u)
        BY <1>1, <2>1 DEF FInv, ToldIsStored, Stored
    <2> QED BY <2>2 DEF Stored, mysql
<1>3. ASSUME NEW u \in Users, NEW a \in told'[u] \ {u} PROVE {a, u} \in friends'
    <2>1. a \in told[u] \/ (worker[s].op # "apply" /\ u = worker[s].to /\ a = who)
        BY <1>3 DEF Delivered, FInv, TInv, DataOK
    <2>2. CASE a \in told[u]
        BY <1>3, <2>2 DEF FInv, ToldIsStored, mysql
    <2>3. CASE worker[s].op # "apply" /\ u = worker[s].to /\ a = who
        <3>1. a = worker[s].me
            BY <1>3, <2>3
        <3> QED BY <1>1, <2>3, <3>1 DEF mysql
    <2> QED BY <2>1, <2>2, <2>3
<1> QED BY <1>2, <1>3 DEF ToldIsStored, Stored

LEMMA NotifyAgrees ==
    ASSUME FInv, NEW s \in Servers, NotifyStep(s)
    PROVE  HandlersAgree' /\ ToldIsStored'
<1> USE DEF FInv
<1>1. UNCHANGED mysql
    BY DEF NotifyStep, NotifyHere, TakeStub, NoPool, Serve, Reply, CallFails
<1>2. Grows
    BY <1>1, SameGrows
<1>3. CASE NotifyHere(s)
    <2>1. ToldIsStored'
        BY <1>1, <1>3, DeliveredIsStored DEF NotifyHere, At, Recipient, InfoOf
    <2> QED BY <1>2, <1>3, <2>1, ReturnAgrees DEF NotifyHere
<1>4. CASE Serve(s)
    <2>1. ToldIsStored'
        <3>1. CASE Delivered(s, worker[s].to, worker[s].at, worker[s].me)
            BY <1>1, <1>4, <3>1, DeliveredIsStored DEF Serve, At
        <3>2. CASE UNCHANGED <<known, told>>
            BY <1>1, <3>2 DEF ToldIsStored, mysql
        <3> QED BY <1>4, <3>1, <3>2 DEF Serve
    <2>2. worker[s].pc = "call" /\ Goto(s, "reply") /\ "reply" \in Places
        BY <1>4 DEF Serve, At, Places
    <2> QED BY <1>2, <2>1, <2>2, GotoAgrees
<1>5. CASE TakeStub(s)
    BY <1>1, <1>5, QuietAgrees DEF TakeStub, At, Places, clients
<1>6. CASE Reply(s)
    BY <1>1, <1>6, QuietAgrees DEF Reply, clients
<1>7. CASE CallFails(s)
    BY <1>1, <1>7, QuietAgrees DEF CallFails, clients
<1>8. CASE NoPool(s)
    BY <1>1, <1>8, QuietAgrees DEF NoPool, clients
<1> QED BY <1>3, <1>4, <1>5, <1>6, <1>7, <1>8 DEF NotifyStep

(* A handler begins with nothing seen or stored.                           *)
LEMMA BeginAgrees ==
    ASSUME FInv, NEW s \in Servers, NEW op \in {"login", "apply", "approve"},
           NEW x \in Places, op # "login" => x = op, NEW u \in Users,
           NEW v \in Users \cup {None}, Begin(s, op, u, v, x), UNCHANGED mysql
    PROVE  HandlersAgree'
<1>1. Becomes(s, x) /\ worker'[s].op = op /\ worker'[s].seen = {}
    BY BeginBecomes DEF FInv, TInv
<1>2. Agrees(s)'
    BY <1>1 DEF Agrees, Becomes
<1> QED BY <1>1, <1>2, SameGrows, OthersAgree DEF FInv

LEMMA NextFInv == ASSUME FInv, [Next]_vars PROVE FInv'
<1> USE DEF FInv
<1>1. TInv'
    BY NextTInv
<1>2. ASSUME NEW s \in Servers, HandlerStep(s) PROVE HandlersAgree' /\ ToldIsStored'
    BY <1>2, LoginAgrees, FriendAgrees, InfoAgrees, NotifyAgrees DEF HandlerStep
<1>3. ASSUME NEW s \in Servers, NEW u \in Users, BeginLogin(s, u)
      PROVE  HandlersAgree' /\ ToldIsStored'
    <2>1. HandlersAgree'
        BY <1>3, BeginAgrees DEF BeginLogin, Places
    <2>2. ToldIsStored'
        BY <1>3 DEF BeginLogin, ToldIsStored, TInv, DataOK, mysql
    <2> QED BY <2>1, <2>2
<1>4. ASSUME NEW s \in Servers, NEW a \in Users, NEW b \in Users, NEW op \in {"apply", "approve"},
             BeginFriend(s, op, a, b)
      PROVE  HandlersAgree' /\ ToldIsStored'
    <2>1. op \in Places
        BY DEF Places
    <2> QED BY <1>4, <2>1, BeginAgrees, SameGrows, ToldKept DEF BeginFriend, clients
<1>5. ASSUME NEW s \in Servers, Crash(s) PROVE HandlersAgree' /\ ToldIsStored'
    BY <1>5, DownAgrees DEF Crash
<1>6. ASSUME UNCHANGED <<worker, pending, friends, known, told>>
      PROVE  HandlersAgree' /\ ToldIsStored'
    BY <1>6 DEF HandlersAgree, Agrees, ToldIsStored, Stored
<1>7. ASSUME NEW s \in Servers, NEW u \in Users, Allocate(u, s) PROVE HandlersAgree' /\ ToldIsStored'
    BY <1>6, <1>7 DEF Allocate, mysql
<1>8. ASSUME NEW s \in Servers, Start(s) PROVE HandlersAgree' /\ ToldIsStored'
    BY <1>6, <1>8 DEF Start, mysql, clients
<1>9. ASSUME NEW u \in Users, Expire(u) \/ Disconnect(u) PROVE HandlersAgree' /\ ToldIsStored'
    BY <1>6, <1>9 DEF Expire, Disconnect, mysql, clients
<1>10. CASE UNCHANGED vars
    <2>1. UNCHANGED <<worker, pending, friends, known, told>>
        BY <1>10 DEF vars
    <2> QED BY <1>1, <1>6, <2>1
<1> QED BY <1>1, <1>2, <1>3, <1>4, <1>5, <1>7, <1>8, <1>9, <1>10 DEF Next

(* Whom a client shows as applicant has applied or is a friend by now, and *)
(* whom an approval names is a friend, or the recipient itself: whatever   *)
(* fails or ends between the steps of the handlers that tell it.           *)
THEOREM ToldIsAlwaysStored == Spec => []ToldIsStored
<1>1. Init => FInv
    BY InitFInv
<1>2. FInv /\ [Next]_vars => FInv'
    BY NextFInv
<1>3. FInv => ToldIsStored
    BY DEF FInv
<1> QED BY <1>1, <1>2, <1>3, PTL DEF Spec

(* A stub is in its server's pool, lost to a failed call, or with the one  *)
(* handler that calls.                                                     *)
THEOREM StubsAreAccounted == Spec => []StubsAccounted
<1>1. TInv => StubsAccounted
    BY DEF TInv, StubsOK
<1> QED BY <1>1, TInvHolds, PTL

-----------------------------------------------------------------------------
(* Applications stored where the recipient is                              *)

Prelogin == {"session", "info", "fetch", "applies", "store", "bind"}

StoredHere(a, b, s) == <<a, b>> \in pending /\ storedBy[<<a, b>>] = s

(* The client of b is owed a notification by server s, ...                 *)
Due(s, a, b) ==
    StoredHere(a, b, s) /\ bound[b] = s /\ route[b] = s /\ <<a, b>> \notin warned

(* ... which is on its way, or the list of the login is.                   *)
Telling(s, a, b) ==
    /\ worker[s].op = "apply" /\ Pair(s) = <<a, b>>
    /\ worker[s].pc = "route" \/ (worker[s].pc \in {"info", "fetch", "notify"} /\ worker[s].at = s)

Listing(s, b) == worker[s].op = "login" /\ worker[s].pc = "lists" /\ worker[s].me = b

LoginPlaces(s) ==
    worker[s].pc \in {"session", "applies", "store", "bind", "lists"} => worker[s].op = "login"

(* A user who logs in is not bound here before.                            *)
NotBoundYet(s) ==
    worker[s].op = "login" /\ worker[s].pc \in Prelogin => bound[worker[s].me] # s

(* No application is stored here between reading the list and sending it.  *)
ListComplete(s) ==
    worker[s].op = "login" /\ worker[s].pc \in {"store", "bind", "lists"} =>
        \A a \in Users : StoredHere(a, worker[s].me, s) => a \in worker[s].seen

NoneMissed(s) ==
    \A a, b \in Users : Due(s, a, b) => a \in known[b] \/ Telling(s, a, b) \/ Listing(s, b)

ServerOK(s) ==
    LoginPlaces(s) /\ NotBoundYet(s) /\ (faults = 0 => ListComplete(s) /\ NoneMissed(s))

BoundIsOnline == \A u \in Users : bound[u] # None => bound[u] = online[u]

MInv == TInv /\ BoundIsOnline /\ \A s \in Servers : ServerOK(s)

(* A step after which server r owes nothing it did not owe before.         *)
Calm(r) ==
    /\ \A a, b \in Users : StoredHere(a, b, r)' => StoredHere(a, b, r)
    /\ \A u \in Users : bound'[u] = r =>
           bound[u] = r /\ known[u] \subseteq known'[u] /\ (route'[u] = r => route[u] = r)
    /\ warned \subseteq warned'
    /\ faults' = 0 => faults = 0

LEMMA FaultSpends == ASSUME TInv, Fault PROVE faults' # 0
BY DEF TInv, DataOK, Fault

LEMMA SpentOrSame ==
    ASSUME TInv, UNCHANGED faults \/ Fault
    PROVE  faults' = 0 => faults = 0
BY FaultSpends

LEMMA CalmDue ==
    ASSUME NEW r \in Servers, Calm(r), NEW a \in Users, NEW b \in Users, Due(r, a, b)'
    PROVE  Due(r, a, b) /\ known[b] \subseteq known'[b]
BY DEF Calm, Due

(* Nothing is stored, nobody is bound: calm for all servers.               *)
LEMMA AllCalm ==
    ASSUME TInv, pending' \subseteq pending, UNCHANGED storedBy, warned \subseteq warned',
           UNCHANGED faults \/ Fault,
           \A u \in Users : /\ bound'[u] \in {bound[u], None} /\ route'[u] \in {route[u], None}
                            /\ known[u] \subseteq known'[u]
    PROVE  \A r \in Servers : Calm(r)
BY SpentOrSame, FriendsAssumption DEF Calm, StoredHere

LEMMA DownIsCalm ==
    ASSUME TInv, NEW s \in Servers, NEW how, Down(s, how),
           UNCHANGED <<redis, mysql, known>>, warned \subseteq warned', UNCHANGED faults \/ Fault
    PROVE  \A r \in Servers : Calm(r)
<1>1. \A u \in Users : bound'[u] \in {bound[u], None}
    BY DEF Down
<1> QED BY <1>1, AllCalm DEF redis, mysql

(* The servers whose worker does nothing.                                  *)
LEMMA OthersOK ==
    ASSUME MInv, NEW r \in Servers, Calm(r), worker'[r] = worker[r]
    PROVE  ServerOK(r)'
<1>1. ServerOK(r) /\ (worker[r].op = "login" /\ worker[r].pc \in Prelogin \cup {"lists"}
                        => worker[r].me \in Users)
    BY DEF MInv, TInv, WorkersOK, PlaceOK, Prelogin
<1>2. LoginPlaces(r)' /\ NotBoundYet(r)'
    BY <1>1 DEF ServerOK, LoginPlaces, NotBoundYet, Calm
<1>3. ASSUME faults' = 0 PROVE ListComplete(r)'
    BY <1>1, <1>3 DEF ServerOK, ListComplete, Calm, Prelogin
<1>4. ASSUME faults' = 0, NEW a \in Users, NEW b \in Users, Due(r, a, b)'
      PROVE  a \in known'[b] \/ Telling(r, a, b)' \/ Listing(r, b)'
    <2>1. Due(r, a, b) /\ known[b] \subseteq known'[b] /\ faults = 0
        BY <1>4, CalmDue DEF Calm
    <2>2. a \in known[b] \/ Telling(r, a, b) \/ Listing(r, b)
        BY <1>1, <2>1 DEF ServerOK, NoneMissed
    <2> QED BY <2>1, <2>2 DEF Telling, Listing, Pair
<1> QED BY <1>2, <1>3, <1>4 DEF ServerOK, NoneMissed

LEMMA OneServer ==
    ASSUME MInv, NEW s \in Servers, NEW x, Becomes(s, x), ServerOK(s)',
           \A r \in Servers \ {s} : Calm(r)
    PROVE  \A r \in Servers : ServerOK(r)'
BY OthersOK DEF Becomes

(* A handler ends: it had told whom it had to tell.                        *)
LEMMA EndOK ==
    ASSUME MInv, NEW s \in Servers, worker'[s] = Idle, Calm(s),
           \A a, b \in Users :
               faults' = 0 /\ Due(s, a, b)' /\ (Telling(s, a, b) \/ Listing(s, b))
                   => a \in known'[b]
    PROVE  ServerOK(s)'
<1>1. worker'[s].op = None /\ worker'[s].pc = "idle"
    BY DEF Idle
<1>2. LoginPlaces(s)' /\ NotBoundYet(s)' /\ ListComplete(s)'
    BY <1>1 DEF LoginPlaces, NotBoundYet, ListComplete, Prelogin
<1>3. ASSUME faults' = 0, NEW a \in Users, NEW b \in Users, Due(s, a, b)'
      PROVE  a \in known'[b]
    <2>1. Due(s, a, b) /\ known[b] \subseteq known'[b] /\ faults = 0
        BY <1>3, CalmDue DEF Calm
    <2>2. a \in known[b] \/ Telling(s, a, b) \/ Listing(s, b)
        BY <2>1 DEF MInv, ServerOK, NoneMissed
    <2> QED BY <1>3, <2>1, <2>2
<1> QED BY <1>2, <1>3 DEF ServerOK, NoneMissed

LEMMA ReturnEndOK ==
    ASSUME MInv, NEW s \in Servers, Return(s), \A r \in Servers : Calm(r),
           \A a, b \in Users :
               faults' = 0 /\ Due(s, a, b)' /\ (Telling(s, a, b) \/ Listing(s, b))
                   => a \in known'[b]
    PROVE  \A r \in Servers : ServerOK(r)'
<1>1. Becomes(s, "idle") /\ worker'[s] = Idle
    BY ReturnBecomes DEF MInv, TInv
<1> QED BY <1>1, EndOK, OneServer

LEMMA DownEndOK ==
    ASSUME MInv, NEW s \in Servers, NEW how, Down(s, how),
           UNCHANGED <<redis, mysql, known>>, warned \subseteq warned', UNCHANGED faults \/ Fault
    PROVE  \A r \in Servers : ServerOK(r)'
<1>1. \A r \in Servers : Calm(r)
    BY DownIsCalm DEF MInv
<1>2. \A b \in Users : bound'[b] # s
    BY FriendsAssumption DEF Down
<1>3. Return(s)
    BY DEF Down, Return
<1> QED BY <1>1, <1>2, <1>3, ReturnEndOK DEF Due

(* A handler goes on, with the server name it has read or another.         *)
Continues(s, x) ==
    /\ Becomes(s, x) /\ SameUsers(s) /\ worker'[s].seen = worker[s].seen
    /\ worker[s].pc # "idle"

LEMMA GotoContinues ==
    ASSUME TInv, NEW s \in Servers, NEW x \in Places, Goto(s, x), worker[s].pc # "idle"
    PROVE  Continues(s, x) /\ worker'[s].at = worker[s].at
<1>1. worker'[s].at = worker[s].at
    BY DEF Goto, TInv, WorkersOK, Handler
<1> QED BY <1>1, GotoBecomes DEF Continues, TInv

LEMMA ContinueOK ==
    ASSUME MInv, NEW s \in Servers, NEW x \in Places, Continues(s, x), Calm(s),
           x \in {"session", "applies", "store", "bind", "lists"} => worker[s].op = "login",
           worker[s].op = "login" /\ x \in Prelogin => worker[s].pc \in Prelogin,
           x \in {"store", "bind", "lists"} => worker[s].pc \in {"store", "bind", "lists"},
           \A a, b \in Users :
               faults' = 0 /\ Due(s, a, b)' /\ (Telling(s, a, b) \/ Listing(s, b))
                   => a \in known'[b] \/ Telling(s, a, b)'
    PROVE  ServerOK(s)'
<1>1. /\ worker'[s].pc = x /\ worker'[s].op = worker[s].op /\ worker'[s].me = worker[s].me
      /\ worker'[s].seen = worker[s].seen /\ worker[s].me \in Users /\ ServerOK(s)
    BY DEF Continues, Becomes, SameUsers, MInv, TInv, WorkersOK, PlaceOK
<1>2. LoginPlaces(s)'
    BY <1>1 DEF LoginPlaces
<1>3. NotBoundYet(s)'
    BY <1>1 DEF NotBoundYet, ServerOK, Calm
<1>4. ASSUME faults' = 0 PROVE ListComplete(s)'
    BY <1>1, <1>4 DEF ListComplete, ServerOK, Calm
<1>5. ASSUME faults' = 0, NEW a \in Users, NEW b \in Users, Due(s, a, b)'
      PROVE  a \in known'[b] \/ Telling(s, a, b)'
    <2>1. Due(s, a, b) /\ known[b] \subseteq known'[b] /\ faults = 0
        BY <1>5, CalmDue DEF Calm
    <2>2. a \in known[b] \/ Telling(s, a, b) \/ Listing(s, b)
        BY <1>1, <2>1 DEF ServerOK, NoneMissed
    <2> QED BY <1>5, <2>1, <2>2
<1> QED BY <1>2, <1>3, <1>4, <1>5 DEF ServerOK, NoneMissed

(* Nobody was to be told by this step.                                     *)
Quiet(s) == worker[s].pc \notin {"route", "info", "fetch", "notify", "lists"}

LEMMA QuietTellsNobody ==
    ASSUME NEW s, Quiet(s) \/ (worker[s].op # "apply" /\ worker[s].pc # "lists")
    PROVE  \A a, b : ~Telling(s, a, b) /\ ~Listing(s, b)
BY DEF Quiet, Telling, Listing

(* Without a session in Redis.                                             *)
LEMMA NoRouteOK ==
    ASSUME MInv, NEW s \in Servers, NoRoute(s), worker[s].pc \in {"session", "route"},
           UNCHANGED <<redis, mysql, faults>>
    PROVE  \A r \in Servers : ServerOK(r)'
<1>1. CASE EmptyWhenMissing
    <2>1. /\ Return(s) /\ UNCHANGED <<bound, known>> /\ warned \subseteq warned'
          /\ worker[s].op = "apply" => Pair(s) \in warned'
        BY <1>1 DEF NoRoute, ReturnError, clients
    <2>2. \A r \in Servers : Calm(r)
        BY <2>1, AllCalm DEF MInv, redis, mysql
    <2>3. \A a, b \in Users : ~(Due(s, a, b)' /\ (Telling(s, a, b) \/ Listing(s, b)))
        BY <2>1 DEF Due, Telling, Listing
    <2> QED BY <2>1, <2>2, <2>3, ReturnEndOK
<1>2. CASE ~EmptyWhenMissing
    <2>1. Down(s, "ended") /\ UNCHANGED <<warned, known>>
        BY <1>2 DEF NoRoute
    <2> QED BY <2>1, DownEndOK
<1> QED BY <1>1, <1>2

(* Steps of a handler that leave all clients and applications alone.       *)
LEMMA GotoQuietOK ==
    ASSUME MInv, NEW s \in Servers, NEW x \in Places, Goto(s, x), worker[s].pc # "idle",
           Quiet(s), UNCHANGED <<bound, known, warned, route, pending, storedBy>>,
           UNCHANGED faults \/ Fault,
           x \in {"session", "applies", "store", "bind", "lists"} => worker[s].op = "login",
           worker[s].op = "login" /\ x \in Prelogin => worker[s].pc \in Prelogin,
           x \in {"store", "bind", "lists"} => worker[s].pc \in {"store", "bind", "lists"}
    PROVE  \A r \in Servers : ServerOK(r)'
<1>1. \A r \in Servers : Calm(r)
    BY AllCalm DEF MInv
<1>2. Continues(s, x)
    BY GotoContinues DEF MInv
<1>3. ServerOK(s)'
    BY <1>1, <1>2, ContinueOK, QuietTellsNobody
<1> QED BY <1>1, <1>2, <1>3, OneServer DEF Continues

LEMMA ReturnQuietOK ==
    ASSUME MInv, NEW s \in Servers, Return(s), Quiet(s), pending' \subseteq pending,
           warned \subseteq warned', UNCHANGED <<bound, known, route, storedBy>>,
           UNCHANGED faults \/ Fault
    PROVE  \A r \in Servers : ServerOK(r)'
<1>1. \A r \in Servers : Calm(r)
    BY AllCalm DEF MInv
<1> QED BY <1>1, ReturnEndOK, QuietTellsNobody

LEMMA ReadSessionOK ==
    ASSUME MInv, NEW s \in Servers, ReadSession(s)
    PROVE  \A r \in Servers : ServerOK(r)'
<1>1. worker[s].pc = "session" /\ Quiet(s) /\ UNCHANGED <<redis, mysql, faults>>
    BY DEF ReadSession, At, Quiet
<1>2. CASE Goto(s, "info") /\ UNCHANGED <<clients, warned>>
    BY <1>1, <1>2, GotoQuietOK DEF Places, Prelogin, clients, redis, mysql
<1>3. CASE ReturnError(s) /\ UNCHANGED clients
    BY <1>1, <1>3, ReturnQuietOK DEF ReturnError, clients, redis, mysql
<1>4. CASE NoRoute(s)
    BY <1>1, <1>4, NoRouteOK
<1> QED BY <1>2, <1>3, <1>4 DEF ReadSession

LEMMA ReadApplyListOK ==
    ASSUME MInv, NEW s \in Servers, ReadApplyList(s)
    PROVE  \A r \in Servers : ServerOK(r)'
<1>1. /\ worker[s].pc = "applies" /\ worker[s].op = "login" /\ worker[s].me \in Users
      /\ bound[worker[s].me] # s
      /\ UNCHANGED <<bound, known, warned, route, pending, storedBy>>
    BY DEF ReadApplyList, At, MInv, TInv, WorkersOK, PlaceOK, ServerOK, LoginPlaces,
           NotBoundYet, Prelogin, redis, mysql, clients
<1>2. \A r \in Servers : Calm(r)
    BY <1>1, AllCalm DEF ReadApplyList, MInv
<1>3. CASE Goto(s, "store") /\ Fault
    <2>1. Continues(s, "store")
        BY <1>1, <1>3, GotoContinues DEF MInv, Places
    <2>2. worker'[s].pc = "store" /\ worker'[s].op = "login" /\ worker'[s].me = worker[s].me
        BY <1>1, <2>1 DEF Continues, Becomes, SameUsers
    <2>3. faults' # 0
        BY <1>3, FaultSpends DEF MInv
    <2>4. ServerOK(s)'
        BY <1>1, <2>2, <2>3 DEF ServerOK, LoginPlaces, NotBoundYet
    <2> QED BY <1>2, <2>1, <2>4, OneServer DEF Continues
<1>4. CASE GotoWithList(s, "store", Applicants(worker[s].me))
    <2>1. Applicants(worker[s].me) \in SUBSET Users
        BY DEF Applicants
    <2>2. /\ Becomes(s, "store") /\ SameUsers(s)
          /\ worker'[s].seen = Applicants(worker[s].me)
        BY <1>4, <2>1, GotoWithListBecomes DEF MInv, TInv, Places
    <2>3. worker'[s].pc = "store" /\ worker'[s].op = "login" /\ worker'[s].me = worker[s].me
        BY <1>1, <2>2 DEF Becomes, SameUsers
    <2>4. LoginPlaces(s)' /\ NotBoundYet(s)'
        BY <1>1, <2>3 DEF LoginPlaces, NotBoundYet
    <2>5. ListComplete(s)'
        BY <1>1, <2>2, <2>3 DEF ListComplete, StoredHere, Applicants
    <2>6. ASSUME faults' = 0, NEW a \in Users, NEW b \in Users, Due(s, a, b)'
          PROVE  a \in known'[b]
        <3>1. Due(s, a, b) /\ faults = 0
            BY <1>2, <2>6, CalmDue DEF Calm
        <3>2. ~Telling(s, a, b) /\ ~Listing(s, b)
            BY <1>1 DEF Telling, Listing
        <3> QED BY <1>1, <3>1, <3>2 DEF MInv, ServerOK, NoneMissed
    <2>7. ServerOK(s)'
        BY <2>4, <2>5, <2>6 DEF ServerOK, NoneMissed
    <2> QED BY <1>2, <2>2, <2>7, OneServer
<1> QED BY <1>3, <1>4 DEF ReadApplyList

(* The session is written under the name of this server, to which the user *)
(* is not bound yet.                                                       *)
LEMMA StoreSessionOK ==
    ASSUME MInv, NEW s \in Servers, StoreSession(s)
    PROVE  \A r \in Servers : ServerOK(r)'
<1>1. /\ worker[s].pc = "store" /\ worker[s].op = "login" /\ worker[s].me \in Users
      /\ bound[worker[s].me] # s
      /\ Goto(s, "bind") /\ UNCHANGED <<bound, known, warned, pending, storedBy, faults>>
      /\ route' = [route EXCEPT ![worker[s].me] = s]
    BY DEF StoreSession, At, MInv, TInv, WorkersOK, PlaceOK, ServerOK, LoginPlaces,
           NotBoundYet, Prelogin, mysql, clients
<1>2. \A u \in Users : route'[u] = IF u = worker[s].me THEN s ELSE route[u]
    BY <1>1 DEF MInv, TInv, DataOK
<1>3. \A r \in Servers : Calm(r)
    BY <1>1, <1>2 DEF Calm, StoredHere
<1>4. Continues(s, "bind")
    BY <1>1, GotoContinues DEF MInv, Places
<1>5. ServerOK(s)'
    BY <1>1, <1>3, <1>4, ContinueOK DEF Places, Prelogin, Telling, Listing
<1> QED BY <1>3, <1>4, <1>5, OneServer DEF Continues

LEMMA BindOK ==
    ASSUME MInv, NEW s \in Servers, Bind(s)
    PROVE  \A r \in Servers : ServerOK(r)'
<1> DEFINE u == worker[s].me
<1>1. /\ worker[s].pc = "bind" /\ worker[s].op = "login" /\ u \in Users
      /\ Goto(s, "lists") /\ UNCHANGED <<route, known, warned, pending, storedBy, faults>>
    BY DEF Bind, At, MInv, TInv, WorkersOK, PlaceOK, ServerOK, LoginPlaces, redis, mysql
<1>2. \A v \in Users : bound'[v] = IF v = u /\ online[u] = s THEN s ELSE bound[v]
    BY DEF Bind, MInv, TInv, DataOK
<1>3. \A r \in Servers \ {s} : Calm(r)
    BY <1>1, <1>2 DEF Calm, StoredHere
<1>4. Continues(s, "lists")
    BY <1>1, GotoContinues DEF MInv, Places
<1>5. /\ worker'[s].pc = "lists" /\ worker'[s].op = "login" /\ worker'[s].me = u
      /\ worker'[s].seen = worker[s].seen
    BY <1>1, <1>4 DEF Continues, Becomes, SameUsers
<1>6. LoginPlaces(s)' /\ NotBoundYet(s)'
    BY <1>5 DEF LoginPlaces, NotBoundYet, Prelogin
<1>7. ASSUME faults' = 0 PROVE ListComplete(s)'
    BY <1>1, <1>5, <1>7 DEF MInv, ServerOK, ListComplete, StoredHere
<1>8. ASSUME faults' = 0, NEW a \in Users, NEW b \in Users, Due(s, a, b)'
      PROVE  a \in known'[b] \/ Listing(s, b)'
    <2>1. CASE b = u
        BY <1>5, <2>1 DEF Listing
    <2>2. CASE b # u
        <3>1. Due(s, a, b) /\ ~Telling(s, a, b) /\ ~Listing(s, b)
            BY <1>1, <1>2, <1>8, <2>2 DEF Due, StoredHere, Telling, Listing
        <3> QED BY <1>1, <1>8, <3>1 DEF MInv, ServerOK, NoneMissed
    <2> QED BY <2>1, <2>2
<1>9. ServerOK(s)'
    BY <1>6, <1>7, <1>8 DEF ServerOK, NoneMissed
<1> QED BY <1>3, <1>4, <1>9, OneServer DEF Continues

LEMMA AnswerLoginOK ==
    ASSUME MInv, NEW s \in Servers, AnswerLogin(s)
    PROVE  \A r \in Servers : ServerOK(r)'
<1> DEFINE u == worker[s].me
<1>1. /\ worker[s].pc = "lists" /\ worker[s].op = "login" /\ u \in Users
      /\ Return(s) /\ UNCHANGED <<route, bound, warned, pending, storedBy, faults>>
    BY DEF AnswerLogin, At, MInv, TInv, WorkersOK, PlaceOK, ServerOK, LoginPlaces, redis, mysql
<1>2. \A v \in Users : known'[v] = IF v = u /\ bound[u] = s THEN known[v] \cup worker[s].seen
                                   ELSE known[v]
    BY DEF AnswerLogin, MInv, TInv, DataOK
<1>3. \A r \in Servers : Calm(r)
    BY <1>1, <1>2, AllCalm DEF MInv
<1>4. ASSUME NEW a \in Users, NEW b \in Users, faults' = 0, Due(s, a, b)',
             Telling(s, a, b) \/ Listing(s, b)
      PROVE  a \in known'[b]
    <2>1. b = u /\ StoredHere(a, b, s) /\ bound[b] = s /\ faults = 0
        BY <1>1, <1>4 DEF Telling, Listing, Due, StoredHere
    <2>2. a \in worker[s].seen
        BY <1>1, <2>1 DEF MInv, ServerOK, ListComplete
    <2> QED BY <1>2, <2>1, <2>2
<1> QED BY <1>1, <1>3, <1>4, ReturnEndOK

LEMMA AddFriendOK ==
    ASSUME MInv, NEW s \in Servers, AddFriend(s)
    PROVE  \A r \in Servers : ServerOK(r)'
<1> DEFINE p == Pair(s)
<1>1. /\ worker[s].pc = "apply" /\ worker[s].op = "apply" /\ Quiet(s) /\ p \in Users \X Users
      /\ UNCHANGED <<bound, known, warned, route>> /\ (UNCHANGED faults \/ Fault)
    BY DEF AddFriend, At, Pair, Quiet, MInv, TInv, WorkersOK, PlaceOK, redis, clients
<1>2. CASE Return(s) /\ UNCHANGED mysql
    BY <1>1, <1>2, ReturnQuietOK DEF mysql
<1>3. ASSUME Store(s)
      PROVE  /\ pending' = pending \cup {p} /\ storedBy'[p] = s
             /\ \A q \in Users \X Users : q # p => storedBy'[q] = storedBy[q]
    BY <1>1, <1>3 DEF Store, MInv, TInv, DataOK
<1>4. ASSUME Store(s) PROVE \A r \in Servers \ {s} : Calm(r)
    <2> SUFFICES ASSUME NEW r \in Servers \ {s} PROVE Calm(r)
        OBVIOUS
    <2>1. ASSUME NEW a \in Users, NEW b \in Users, StoredHere(a, b, r)'
          PROVE  StoredHere(a, b, r)
        <3>1. <<a, b>> \in Users \X Users
            OBVIOUS
        <3>2. <<a, b>> # p
            BY <1>3, <1>4, <2>1 DEF StoredHere
        <3> QED BY <1>3, <1>4, <2>1, <3>1, <3>2 DEF StoredHere
    <2> QED BY <1>1, <2>1, SpentOrSame DEF Calm, MInv
<1>5. CASE Store(s) /\ Goto(s, "route")
    <2>1. Continues(s, "route")
        BY <1>1, <1>5, GotoContinues DEF MInv, Places
    <2>2. /\ worker'[s].pc = "route" /\ worker'[s].op = "apply" /\ Pair(s)' = p
        BY <1>1, <2>1 DEF Continues, Becomes, SameUsers, Pair
    <2>3. LoginPlaces(s)' /\ NotBoundYet(s)' /\ ListComplete(s)'
        BY <2>2 DEF LoginPlaces, NotBoundYet, ListComplete
    <2>4. ASSUME faults' = 0, NEW a \in Users, NEW b \in Users, Due(s, a, b)'
          PROVE  a \in known'[b] \/ Telling(s, a, b)'
        <3>1. CASE <<a, b>> = p
            BY <2>2, <3>1 DEF Telling
        <3>2. CASE <<a, b>> # p
            <4>1. <<a, b>> \in Users \X Users
                OBVIOUS
            <4>2. Due(s, a, b) /\ faults = 0
                BY <1>1, <1>3, <1>5, <2>4, <3>2, <4>1, SpentOrSame DEF Due, StoredHere, MInv
            <4>3. ~Telling(s, a, b) /\ ~Listing(s, b)
                BY <1>1, QuietTellsNobody
            <4> QED BY <1>1, <4>2, <4>3 DEF MInv, ServerOK, NoneMissed
        <3> QED BY <3>1, <3>2
    <2>5. ServerOK(s)'
        BY <2>3, <2>4 DEF ServerOK, NoneMissed
    <2> QED BY <1>4, <1>5, <2>1, <2>5, OneServer DEF Continues
<1>6. CASE Store(s) /\ Return(s) /\ Fault
    <2>1. Becomes(s, "idle") /\ worker'[s].pc = "idle" /\ worker'[s].op = None
        BY <1>6, ReturnBecomes DEF MInv, TInv, Idle
    <2>2. faults' # 0
        BY <1>6, FaultSpends DEF MInv
    <2>3. ServerOK(s)'
        BY <2>1, <2>2 DEF ServerOK, LoginPlaces, NotBoundYet, Prelogin
    <2> QED BY <1>4, <1>6, <2>1, <2>3, OneServer
<1> QED BY <1>2, <1>5, <1>6 DEF AddFriend, Unsuccessful

LEMMA UpdateFriendStatusOK ==
    ASSUME MInv, NEW s \in Servers, UpdateFriendStatus(s)
    PROVE  \A r \in Servers : ServerOK(r)'
<1>1. /\ worker[s].pc = "approve" /\ worker[s].op = "approve" /\ Quiet(s)
      /\ UNCHANGED <<bound, known, warned, route, storedBy>> /\ (UNCHANGED faults \/ Fault)
      /\ pending' \subseteq pending
    BY DEF UpdateFriendStatus, Befriend, At, Quiet, MInv, TInv, WorkersOK, PlaceOK, redis,
           mysql, clients
<1>2. CASE Return(s)
    BY <1>1, <1>2, ReturnQuietOK
<1>3. CASE Goto(s, "info")
    <2>1. \A r \in Servers : Calm(r)
        BY <1>1, AllCalm DEF MInv
    <2>2. Continues(s, "info")
        BY <1>1, <1>3, GotoContinues DEF MInv, Places
    <2>3. ServerOK(s)'
        BY <1>1, <2>1, <2>2, ContinueOK, QuietTellsNobody DEF Places
    <2> QED BY <2>1, <2>2, <2>3, OneServer DEF Continues
<1> QED BY <1>2, <1>3 DEF UpdateFriendStatus

(* Who is on this server will be told, or is not on this server.           *)
LEMMA ReadRouteOK ==
    ASSUME MInv, NEW s \in Servers, ReadRoute(s)
    PROVE  \A r \in Servers : ServerOK(r)'
<1> DEFINE h == route[worker[s].to]
           x == IF worker[s].op = "apply" THEN "info" ELSE "notify"
<1>1. /\ worker[s].pc = "route" /\ worker[s].op # "login" /\ worker[s].to \in Users
      /\ h \in Servers \cup {None} /\ UNCHANGED <<redis, mysql, faults>>
    BY DEF ReadRoute, At, MInv, TInv, WorkersOK, PlaceOK, DataOK
<1>2. CASE GotoWithServer(s, x, h) /\ UNCHANGED <<clients, warned>>
    <2>1. \A r \in Servers : Calm(r)
        BY <1>1, <1>2, AllCalm DEF MInv, clients, redis, mysql
    <2>2. Continues(s, x)
        BY <1>1, <1>2, GotoWithServerBecomes DEF MInv, TInv, Places, Continues
    <2>3. worker'[s].at = h
        BY <1>2 DEF GotoWithServer, MInv, TInv, WorkersOK, Handler
    <2>4. ASSUME NEW a \in Users, NEW b \in Users, Due(s, a, b)',
                 Telling(s, a, b) \/ Listing(s, b)
          PROVE  Telling(s, a, b)'
        <3>1. worker[s].op = "apply" /\ Pair(s) = <<a, b>> /\ x = "info"
            BY <1>1, <2>4 DEF Telling, Listing
        <3>2. h = s
            BY <1>1, <2>4, <3>1 DEF Due, Pair, redis
        <3>3. worker'[s].pc = "info" /\ worker'[s].op = "apply" /\ Pair(s)' = <<a, b>>
            BY <2>2, <3>1 DEF Continues, Becomes, SameUsers, Pair
        <3> QED BY <2>3, <3>2, <3>3 DEF Telling
    <2>5. x \in Places /\ x \notin {"session", "applies", "store", "bind", "lists"}
        BY DEF Places
    <2>6. ServerOK(s)'
        BY <1>1, <2>1, <2>2, <2>4, <2>5, ContinueOK
    <2> QED BY <2>1, <2>2, <2>6, OneServer DEF Continues
<1>3. CASE NoRoute(s)
    BY <1>1, <1>3, NoRouteOK
<1> QED BY <1>2, <1>3 DEF ReadRoute

LEMMA InfoOK ==
    ASSUME MInv, NEW s \in Servers, InfoStep(s)
    PROVE  \A r \in Servers : ServerOK(r)'
<1>1. /\ worker[s].pc \in {"info", "fetch"} /\ worker[s].op \in {"login", "apply", "approve"}
      /\ UNCHANGED <<route, pending, storedBy>> /\ (UNCHANGED faults \/ Fault)
    BY DEF InfoStep, ReadInfo, FetchInfo, FetchFails, At, MInv, TInv, WorkersOK, PlaceOK,
           redis, mysql
<1>2. ASSUME NEW x \in {"fetch", AfterInfo(s)}, Goto(s, x), UNCHANGED <<clients, warned>>
      PROVE  \A r \in Servers : ServerOK(r)'
    <2>1. /\ x \in Places
          /\ worker[s].op = "login" => x \in {"fetch", "applies"}
          /\ worker[s].op = "apply" => x \in {"fetch", "notify"}
          /\ worker[s].op = "approve" => x \in {"fetch", "route"}
        BY <1>1 DEF AfterInfo, Places
    <2>2. \A r \in Servers : Calm(r)
        BY <1>1, <1>2, AllCalm DEF MInv, clients
    <2>3. Continues(s, x) /\ worker'[s].at = worker[s].at
        BY <1>1, <1>2, <2>1, GotoContinues DEF MInv
    <2>4. ASSUME NEW a \in Users, NEW b \in Users, Telling(s, a, b) \/ Listing(s, b)
          PROVE  Telling(s, a, b)'
        <3>1. /\ worker[s].op = "apply" /\ Pair(s) = <<a, b>> /\ worker[s].at = s
              /\ x \in {"fetch", "notify"}
            BY <1>1, <2>1, <2>4 DEF Telling, Listing
        <3>2. worker'[s].pc = x /\ worker'[s].op = "apply" /\ Pair(s)' = <<a, b>>
            BY <2>3, <3>1 DEF Continues, Becomes, SameUsers, Pair
        <3> QED BY <2>3, <3>1, <3>2 DEF Telling
    <2>5. ServerOK(s)'
        <3>1. /\ x \in {"session", "applies", "store", "bind", "lists"} => worker[s].op = "login"
              /\ x \notin {"store", "bind", "lists"} /\ worker[s].pc \in Prelogin
            BY <1>1, <2>1 DEF Prelogin
        <3> QED BY <2>1, <2>2, <2>3, <2>4, <3>1, ContinueOK
    <2> QED BY <2>2, <2>3, <2>5, OneServer DEF Continues
<1>3. CASE ReturnError(s) /\ Fault /\ worker[s].op # "apply" /\ UNCHANGED clients
    <2>1. \A r \in Servers : Calm(r)
        BY <1>1, <1>3, AllCalm DEF MInv, ReturnError, clients
    <2> QED BY <1>1, <1>3, <2>1, ReturnEndOK, QuietTellsNobody DEF ReturnError
<1>4. CASE Down(s, "ended") /\ UNCHANGED <<warned, known, redis, mysql, faults>>
    BY <1>4, DownEndOK
<1> QED BY <1>2, <1>3, <1>4 DEF InfoStep, ReadInfo, FetchInfo, FetchFails, clients

(* A notification: the recipient's client knows more than before.          *)
LEMMA DeliveredMore ==
    ASSUME TInv, NEW s \in Servers, NEW v \in Users, NEW r, NEW who, Delivered(s, v, r, who)
    PROVE  /\ \A u \in Users : known[u] \subseteq known'[u]
           /\ bound[v] = r /\ worker[s].op = "apply" => who \in known'[v]
BY DEF Delivered, TInv, DataOK

LEMMA NotifyOK ==
    ASSUME MInv, NEW s \in Servers, NotifyStep(s)
    PROVE  \A r \in Servers : ServerOK(r)'
<1>1. CASE NotifyHere(s)
    <2>1. /\ worker[s].pc = "notify" /\ worker[s].to \in Users
          /\ Delivered(s, worker[s].to, s, InfoOf(s))
          /\ Return(s) /\ UNCHANGED <<route, bound, warned, pending, storedBy, faults>>
        BY <1>1 DEF NotifyHere, At, Recipient, MInv, TInv, WorkersOK, PlaceOK, redis, mysql
    <2>2. \A r \in Servers : Calm(r)
        BY <2>1, AllCalm, DeliveredMore DEF MInv
    <2>3. ASSUME NEW a \in Users, NEW b \in Users, Due(s, a, b)',
                 Telling(s, a, b) \/ Listing(s, b)
          PROVE  a \in known'[b]
        <3>1. b = worker[s].to /\ a = InfoOf(s) /\ bound[b] = s /\ worker[s].op = "apply"
            BY <2>1, <2>3 DEF Telling, Listing, Pair, InfoOf, Due
        <3> QED BY <2>1, <3>1, DeliveredMore DEF MInv
    <2> QED BY <2>1, <2>2, <2>3, ReturnEndOK
<1>2. CASE TakeStub(s)
    <2>1. /\ worker[s].pc = "notify" /\ worker[s].at # s /\ Goto(s, "call")
          /\ UNCHANGED <<route, bound, known, warned, pending, storedBy, faults>>
        BY <1>2 DEF TakeStub, At, redis, mysql, clients
    <2>2. \A r \in Servers : Calm(r)
        BY <2>1, AllCalm DEF MInv
    <2>3. Continues(s, "call")
        BY <2>1, GotoContinues DEF MInv, Places
    <2>4. \A a, b : ~Telling(s, a, b) /\ ~Listing(s, b)
        BY <2>1 DEF Telling, Listing
    <2>5. ServerOK(s)'
        BY <2>2, <2>3, <2>4, ContinueOK DEF Places, Prelogin
    <2> QED BY <2>2, <2>3, <2>5, OneServer DEF Continues
<1>3. CASE Serve(s)
    <2>1. /\ worker[s].pc = "call" /\ worker[s].to \in Users
          /\ \/ Delivered(s, worker[s].to, worker[s].at, worker[s].me)
             \/ UNCHANGED <<known, told>>
          /\ Goto(s, "reply") /\ UNCHANGED <<route, bound, warned, pending, storedBy>>
          /\ UNCHANGED faults \/ Fault
        BY <1>3 DEF Serve, At, MInv, TInv, WorkersOK, PlaceOK, mysql
    <2>2. \A r \in Servers : Calm(r)
        <3>1. \A u \in Users : known[u] \subseteq known'[u]
            BY <2>1, DeliveredMore DEF MInv
        <3> QED BY <2>1, <3>1, AllCalm DEF MInv
    <2>3. Continues(s, "reply")
        BY <2>1, GotoContinues DEF MInv, Places
    <2>4. \A a, b : ~Telling(s, a, b) /\ ~Listing(s, b)
        BY <2>1 DEF Telling, Listing
    <2>5. ServerOK(s)'
        BY <2>2, <2>3, <2>4, ContinueOK DEF Places, Prelogin
    <2> QED BY <2>2, <2>3, <2>5, OneServer DEF Continues
<1>4. CASE Reply(s) \/ CallFails(s)
    BY <1>4, ReturnQuietOK DEF Reply, CallFails, At, Quiet, redis, mysql, clients
<1>5. CASE NoPool(s)
    <2>1. /\ worker[s].pc = "notify" /\ worker[s].at # s /\ Return(s)
          /\ UNCHANGED <<route, bound, known, warned, pending, storedBy, faults>>
        BY <1>5 DEF NoPool, At, redis, mysql, clients
    <2>2. \A r \in Servers : Calm(r)
        BY <2>1, AllCalm DEF MInv
    <2>3. \A a, b : ~Telling(s, a, b) /\ ~Listing(s, b)
        BY <2>1 DEF Telling, Listing
    <2> QED BY <2>1, <2>2, <2>3, ReturnEndOK
<1> QED BY <1>1, <1>2, <1>3, <1>4, <1>5 DEF NotifyStep

(* A worker that begins had nothing to tell.                               *)
LEMMA BeginOK ==
    ASSUME MInv, NEW s \in Servers, worker[s].pc = "idle", NEW x \in Places,
           NEW op \in {"login", "apply", "approve"}, NEW u \in Users, NEW v \in Users \cup {None},
           Begin(s, op, u, v, x), \A r \in Servers : Calm(r),
           \/ op = "login" /\ x = "session" /\ bound'[u] # s
           \/ op # "login" /\ x = op
    PROVE  \A r \in Servers : ServerOK(r)'
<1>1. /\ Becomes(s, x) /\ worker'[s].pc = x /\ worker'[s].op = op /\ worker'[s].me = u
    BY BeginBecomes DEF MInv, TInv, Becomes
<1>2. LoginPlaces(s)' /\ NotBoundYet(s)' /\ ListComplete(s)'
    BY <1>1 DEF LoginPlaces, NotBoundYet, ListComplete, Prelogin
<1>3. ASSUME faults' = 0, NEW a \in Users, NEW b \in Users, Due(s, a, b)' PROVE a \in known'[b]
    <2>1. Due(s, a, b) /\ known[b] \subseteq known'[b] /\ faults = 0
        BY <1>3, CalmDue DEF Calm
    <2>2. ~Telling(s, a, b) /\ ~Listing(s, b)
        BY QuietTellsNobody DEF Quiet
    <2> QED BY <2>1, <2>2 DEF MInv, ServerOK, NoneMissed
<1>4. ServerOK(s)'
    BY <1>2, <1>3 DEF ServerOK, NoneMissed
<1> QED BY <1>1, <1>4, OneServer

(* Nothing happens in a worker.                                            *)
LEMMA IdleStepOK ==
    ASSUME MInv, UNCHANGED worker, \A r \in Servers : Calm(r)
    PROVE  \A r \in Servers : ServerOK(r)'
BY OthersOK

LEMMA NextServers == ASSUME MInv, [Next]_vars PROVE \A r \in Servers : ServerOK(r)'
<1>1. ASSUME NEW s \in Servers, HandlerStep(s) PROVE \A r \in Servers : ServerOK(r)'
    BY <1>1, ReadSessionOK, ReadApplyListOK, StoreSessionOK, BindOK, AnswerLoginOK,
       AddFriendOK, UpdateFriendStatusOK, ReadRouteOK, InfoOK, NotifyOK
       DEF HandlerStep, LoginStep, FriendStep
<1>2. ASSUME NEW s \in Servers, NEW u \in Users, BeginLogin(s, u)
      PROVE  \A r \in Servers : ServerOK(r)'
    <2>1. bound[u] = None /\ u # None
        BY <1>2, FriendsAssumption DEF BeginLogin, MInv, BoundIsOnline
    <2>2. /\ worker[s].pc = "idle" /\ Begin(s, "login", u, None, "session")
          /\ UNCHANGED <<route, bound, warned, pending, storedBy, faults>>
          /\ \A v \in Users \ {u} : known'[v] = known[v]
        BY <1>2 DEF BeginLogin, At, redis, mysql, MInv, TInv, DataOK
    <2>3. \A r \in Servers : Calm(r)
        BY <2>1, <2>2, FriendsAssumption DEF Calm, StoredHere
    <2>4. bound'[u] # s
        BY <2>1, <2>2, FriendsAssumption
    <2> QED BY <2>2, <2>3, <2>4, BeginOK DEF Places
<1>3. ASSUME NEW s \in Servers, NEW a \in Users, NEW b \in Users, NEW op \in {"apply", "approve"},
             BeginFriend(s, op, a, b)
      PROVE  \A r \in Servers : ServerOK(r)'
    <2>1. /\ worker[s].pc = "idle" /\ Begin(s, op, a, b, op)
          /\ UNCHANGED <<route, bound, known, warned, pending, storedBy, faults>>
        BY <1>3 DEF BeginFriend, At, redis, mysql, clients
    <2>2. \A r \in Servers : Calm(r)
        BY <2>1, AllCalm DEF MInv
    <2> QED BY <2>1, <2>2, BeginOK DEF Places
<1>4. ASSUME NEW s \in Servers, Crash(s) PROVE \A r \in Servers : ServerOK(r)'
    BY <1>4, DownEndOK DEF Crash
<1>5. ASSUME UNCHANGED worker, pending' = pending, UNCHANGED <<storedBy, warned, known>>,
             UNCHANGED faults \/ Fault,
             \A u \in Users : bound'[u] \in {bound[u], None} /\ route'[u] \in {route[u], None}
      PROVE  \A r \in Servers : ServerOK(r)'
    BY <1>5, AllCalm, IdleStepOK DEF MInv
<1>6. ASSUME NEW s \in Servers, NEW u \in Users, Allocate(u, s)
      PROVE  \A r \in Servers : ServerOK(r)'
    <2>1. bound[u] = None
        BY <1>6 DEF Allocate, MInv, BoundIsOnline
    <2>2. /\ UNCHANGED <<worker, bound, known, warned, pending, storedBy, faults>>
          /\ \A v \in Users \ {u} : route'[v] = route[v]
        BY <1>6 DEF Allocate, mysql, MInv, TInv, DataOK
    <2>3. \A r \in Servers : Calm(r)
        BY <2>1, <2>2, FriendsAssumption DEF Calm, StoredHere
    <2> QED BY <2>2, <2>3, IdleStepOK
<1>7. ASSUME NEW s \in Servers, Start(s) PROVE \A r \in Servers : ServerOK(r)'
    BY <1>5, <1>7 DEF Start, redis, mysql, clients
<1>8. ASSUME NEW u \in Users, Expire(u) PROVE \A r \in Servers : ServerOK(r)'
    BY <1>5, <1>8 DEF Expire, mysql, clients, MInv, TInv, DataOK
<1>9. ASSUME NEW u \in Users, Disconnect(u) PROVE \A r \in Servers : ServerOK(r)'
    BY <1>5, <1>9 DEF Disconnect, redis, mysql, MInv, TInv, DataOK
<1>10. CASE UNCHANGED vars
    BY <1>5, <1>10 DEF vars
<1> QED BY <1>1, <1>2, <1>3, <1>4, <1>6, <1>7, <1>8, <1>9, <1>10 DEF Next

(* Who is connected, and bound, changes in four actions and at an end.     *)
LEMMA OnlineChanges ==
  ASSUME [Next]_vars
  PROVE  \/ UNCHANGED <<bound, online>>
         \/ \E s \in Servers : Bind(s) \/ \E how : Down(s, how)
         \/ \E s \in Servers, u \in Users : BeginLogin(s, u)
         \/ \E u \in Users : Disconnect(u)
<1>1. ASSUME NEW s \in Servers, HandlerStep(s)
      PROVE  UNCHANGED <<bound, online>> \/ Bind(s) \/ \E how : Down(s, how)
    <2>1. NoRoute(s) => UNCHANGED <<bound, online>> \/ \E how : Down(s, how)
        BY DEF NoRoute, clients
    <2>2. CASE LoginStep(s)
        BY <2>1, <2>2 DEF LoginStep, ReadSession, ReadApplyList, StoreSession, AnswerLogin, clients
    <2>3. CASE FriendStep(s)
        BY <2>1, <2>3 DEF FriendStep, AddFriend, UpdateFriendStatus, ReadRoute, clients
    <2>4. CASE InfoStep(s)
        BY <2>4 DEF InfoStep, ReadInfo, FetchInfo, FetchFails, clients
    <2>5. CASE NotifyStep(s)
        BY <2>5 DEF NotifyStep, NotifyHere, TakeStub, NoPool, Serve, Reply, CallFails, clients
    <2> QED BY <1>1, <2>2, <2>3, <2>4, <2>5 DEF HandlerStep
<1>2. ASSUME NEW s \in Servers, Crash(s) \/ Start(s)
      PROVE  UNCHANGED <<bound, online>> \/ \E how : Down(s, how)
    BY <1>2 DEF Crash, Start, clients
<1>3. ASSUME NEW s \in Servers, NEW a \in Users, NEW b \in Users, NEW op, BeginFriend(s, op, a, b)
      PROVE  UNCHANGED <<bound, online>>
    BY <1>3 DEF BeginFriend, clients
<1>4. ASSUME NEW s \in Servers, NEW u \in Users, Allocate(u, s)
      PROVE  UNCHANGED <<bound, online>>
    BY <1>4 DEF Allocate
<1>5. ASSUME NEW u \in Users, Expire(u)
      PROVE  UNCHANGED <<bound, online>>
    BY <1>5 DEF Expire, clients
<1>6. CASE UNCHANGED vars
    BY <1>6 DEF vars, clients
<1> QED BY <1>1, <1>2, <1>3, <1>4, <1>5, <1>6 DEF Next

LEMMA NextOnline == ASSUME MInv, [Next]_vars PROVE BoundIsOnline'
<1> USE DEF MInv, TInv, DataOK, BoundIsOnline
<1>1. CASE UNCHANGED <<bound, online>>
    BY <1>1
<1>2. ASSUME NEW s \in Servers, Bind(s) PROVE BoundIsOnline'
    BY <1>2 DEF Bind
<1>3. ASSUME NEW s \in Servers, NEW u \in Users, BeginLogin(s, u) PROVE BoundIsOnline'
    BY <1>3 DEF BeginLogin
<1>4. ASSUME NEW u \in Users, Disconnect(u) PROVE BoundIsOnline'
    BY <1>4 DEF Disconnect
<1>5. ASSUME NEW s \in Servers, NEW how, Down(s, how) PROVE BoundIsOnline'
    BY <1>5 DEF Down
<1>6. \/ UNCHANGED <<bound, online>>
      \/ \E s \in Servers : Bind(s) \/ \E how : Down(s, how)
      \/ \E s \in Servers, u \in Users : BeginLogin(s, u)
      \/ \E u \in Users : Disconnect(u)
    BY OnlineChanges
<1> QED BY <1>1, <1>2, <1>3, <1>4, <1>5, <1>6

LEMMA InitMInv == Init => MInv
<1> SUFFICES ASSUME Init PROVE MInv
    OBVIOUS
<1>1. \A s \in Servers : worker[s].pc = "idle" /\ worker[s].op = None
    BY DEF Init, Idle
<1>2. \A s \in Servers : LoginPlaces(s) /\ NotBoundYet(s) /\ ListComplete(s)
    BY <1>1 DEF LoginPlaces, NotBoundYet, ListComplete, Prelogin
<1>3. \A s \in Servers, a, b \in Users : ~Due(s, a, b)
    BY FriendsAssumption DEF Init, Due
<1> QED BY <1>2, <1>3, InitTInv DEF Init, MInv, BoundIsOnline, ServerOK, NoneMissed

(* An application stored by the server its recipient is connected to       *)
(* reaches the recipient's client, whatever the order of the recipient's   *)
(* login and the application: one worker runs both.                        *)
THEOREM NothingIsMissedHere == Spec => []NothingMissedHere
<1>1. MInv => NothingMissedHere
    BY DEF MInv, ServerOK, NoneMissed, NothingMissedHere, Due, StoredHere, Telling, Listing
<1>2. MInv /\ [Next]_vars => MInv'
    BY NextServers, NextOnline, NextTInv DEF MInv
<1> QED BY InitMInv, <1>1, <1>2, PTL DEF Spec
=============================================================================
