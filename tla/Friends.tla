-------------------------------- MODULE Friends --------------------------------
(***************************************************************************)
(* Logins and friend requests on several chat servers (the handlers of     *)
(* ChatServer/LogicSystem.cpp, with FriendGrpcClient, FriendServerImpl and *)
(* the DAOs they call).                                                    *)
(*                                                                         *)
(* Each server has one worker, which runs one handler at a time and does   *)
(* nothing else until it returns.  An action is one access to Redis or     *)
(* MySQL, one call to another server, or what the worker does in between   *)
(* with sessions.  The servers share Redis and MySQL only.                 *)
(*                                                                         *)
(* Nothing bounds such an access: the calls have no deadline, and the wait *)
(* for a connection of a pool, which is part of the access, has none       *)
(* either.  So each of these actions may be taken late, or never.          *)
(*                                                                         *)
(* The stored procedures, and the program that writes user_session_<uid>,  *)
(* are not in the repository: they are modelled from their use.            *)
(***************************************************************************)
EXTENDS Naturals, FiniteSets

CONSTANTS
    Servers,
    Users,              \* the uids; all of them are in MySQL
    None,
    Peers,              \* server -> the servers it has a pool of stubs for
    PoolSize,           \* stubs in each of these pools
    EmptyWhenMissing,   \* which Optional redis++ was built with: value() of a
                        \* missing key is "" (TRUE) or throws (FALSE)
    MaxRequests,        \* bounds of the checked instances: messages of clients,
    MaxMoves,           \* allocations to a server and disconnections,
    MaxFaults           \* failing calls and commands, and ends of a server

ASSUME FriendsAssumption ==
    /\ None \notin Servers \cup Users
    /\ Peers \in [Servers -> SUBSET Servers]
    /\ PoolSize \in Nat \ {0} /\ EmptyWhenMissing \in BOOLEAN
    /\ {MaxRequests, MaxMoves, MaxFaults} \subseteq Nat

VARIABLES
    up,         \* server -> "up", "down", or "ended": by an exception of its own
    worker,     \* server -> the handler its worker runs, with its local variables
    stubs,      \* server -> peer -> number of stubs in the pool
    leaked,     \* server -> peer -> number of stubs lost to failed calls
    route,      \* Redis, user_session_<uid>: the server_name in it
    cached,     \* Redis: the users with user_info_<uid>
    pending,    \* MySQL: pairs of applicant and recipient, NotConsent
    friends,    \* MySQL: sets of two users, MutualFriend
    ticket,     \* user -> the server the client was sent to
    online,     \* user -> the server the client is connected to
    bound,      \* user -> the server whose _uidToSession has that connection
    known,      \* user -> applicants the client shows, from the list or notified
    told,       \* user -> uids named in approvals the client was notified of
    storedBy,   \* history: pair -> server whose handler stored the application
    warned,     \* history: pairs whose application ended with an error
    requests, moves, faults

vars == <<up, worker, stubs, leaked, route, cached, pending, friends, ticket, online,
          bound, known, told, storedBy, warned, requests, moves, faults>>

servers == <<up, stubs, leaked>>
redis   == <<route, cached>>
mysql   == <<pending, friends, storedBy>>
clients == <<ticket, online, bound, known, told, moves>>

FullPool == [r \in Servers |-> PoolSize]
NoLoss   == [r \in Servers |-> 0]

Idle == [pc |-> "idle", op |-> None, me |-> None, to |-> None, at |-> None, seen |-> {}]

(* Every client has been to the gate once, and one application waits from  *)
(* an earlier day.                                                         *)
Init ==
    /\ up = [s \in Servers |-> "up"]
    /\ worker = [s \in Servers |-> Idle]
    /\ stubs = [s \in Servers |-> FullPool]
    /\ leaked = [s \in Servers |-> NoLoss]
    /\ ticket \in [Users -> Servers]
    /\ route = ticket /\ cached = {}
    /\ \E a, b \in Users : a # b /\ pending = {<<a, b>>}
    /\ friends = {}
    /\ storedBy = [p \in Users \X Users |-> None] /\ warned = {}
    /\ online = [u \in Users |-> None]
    /\ bound = [u \in Users |-> None]
    /\ known = [u \in Users |-> {}] /\ told = [u \in Users |-> {}]
    /\ requests = 0 /\ moves = 0 /\ faults = 0

-----------------------------------------------------------------------------
(* Steps of a worker                                                       *)

At(s, where)   == up[s] = "up" /\ worker[s].pc = where
Goto(s, where) == worker' = [worker EXCEPT ![s] = [@ EXCEPT !.pc = where]]
Return(s)      == worker' = [worker EXCEPT ![s] = Idle]
Begin(s, op, u, v, where) ==
    worker' = [worker EXCEPT ![s] = [Idle EXCEPT !.pc = where, !.op = op, !.me = u, !.to = v]]
GotoWithServer(s, where, r) ==
    worker' = [worker EXCEPT ![s] = [@ EXCEPT !.pc = where, !.at = r]]
GotoWithList(s, where, list) ==
    worker' = [worker EXCEPT ![s] = [@ EXCEPT !.pc = where, !.seen = list]]
Pair(s)        == <<worker[s].me, worker[s].to>>
Fault          == faults < MaxFaults /\ faults' = faults + 1
Move           == moves < MaxMoves /\ moves' = moves + 1

(* The process of server s ends, its memory and connections with it.       *)
Down(s, how) ==
    /\ up' = [up EXCEPT ![s] = how]
    /\ worker' = [worker EXCEPT ![s] = Idle]
    /\ stubs' = [stubs EXCEPT ![s] = FullPool]
    /\ leaked' = [leaked EXCEPT ![s] = NoLoss]
    /\ online' = [u \in Users |-> IF online[u] = s THEN None ELSE online[u]]
    /\ bound' = [u \in Users |-> IF bound[u] = s THEN None ELSE bound[u]]

(* An error answer; an application that was stored before it is on record. *)
ReturnError(s) ==
    /\ Return(s)
    /\ warned' = IF worker[s].op = "apply" THEN warned \cup {Pair(s)} ELSE warned

(* get(user_session_<uid>).value(): "" is no JSON, and bad_optional_access *)
(* is caught by nobody                                                     *)
NoRoute(s) ==
    IF EmptyWhenMissing
    THEN ReturnError(s) /\ UNCHANGED <<servers, clients>>
    ELSE /\ Down(s, "ended")
         /\ UNCHANGED <<warned, ticket, known, told, moves>>

-----------------------------------------------------------------------------
(* GetUserInfo, called by all three handlers                               *)

InfoOf(s) == IF worker[s].op = "approve" THEN worker[s].to ELSE worker[s].me

AfterInfo(s) ==
    CASE worker[s].op = "login"   -> "applies"
      [] worker[s].op = "apply"   -> "notify"
      [] worker[s].op = "approve" -> "route"

ReadInfo(s) ==
    /\ At(s, "info")
    /\ IF InfoOf(s) \in cached
       THEN Goto(s, AfterInfo(s)) /\ UNCHANGED <<servers, clients>>
       ELSE IF EmptyWhenMissing
            THEN Goto(s, "fetch") /\ UNCHANGED <<servers, clients>>
            ELSE Down(s, "ended") /\ UNCHANGED <<ticket, known, told, moves>>
    /\ UNCHANGED <<redis, mysql, warned, requests, faults>>

(* MySQL has the user, whose profile is then cached                        *)
FetchInfo(s) ==
    /\ At(s, "fetch")
    /\ cached' = cached \cup {InfoOf(s)}
    /\ Goto(s, AfterInfo(s))
    /\ UNCHANGED <<servers, route, mysql, clients, warned, requests, faults>>

(* MySQL fails: only the notification of an application does without       *)
FetchFails(s) ==
    /\ At(s, "fetch") /\ Fault
    /\ IF worker[s].op = "apply"
       THEN Goto(s, AfterInfo(s)) /\ UNCHANGED warned
       ELSE ReturnError(s)
    /\ UNCHANGED <<servers, redis, mysql, clients, requests>>

-----------------------------------------------------------------------------
(* LoginHandler                                                            *)

(* A client connects where it was sent and logs in with its token          *)
BeginLogin(s, u) ==
    /\ At(s, "idle") /\ requests < MaxRequests
    /\ ticket[u] = s /\ online[u] = None
    /\ requests' = requests + 1
    /\ online' = [online EXCEPT ![u] = s]
    /\ known' = [known EXCEPT ![u] = {}]
    /\ Begin(s, "login", u, None, "session")
    /\ UNCHANGED <<servers, redis, mysql, ticket, bound, told, warned, moves, faults>>

(* The session is the one the client was sent here with, or a newer one,   *)
(* which has another token.                                                *)
ReadSession(s) ==
    LET r == route[worker[s].me] IN
    /\ At(s, "session")
    /\ \/ r = s /\ Goto(s, "info") /\ UNCHANGED <<servers, clients, warned>>
       \/ r \notin {s, None} /\ ReturnError(s) /\ UNCHANGED <<servers, clients>>
       \/ r = None /\ NoRoute(s)
    /\ UNCHANGED <<redis, mysql, requests, faults>>

Applicants(u) == {a \in Users : <<a, u>> \in pending}

(* A list that cannot be read is empty.                                    *)
ReadApplyList(s) ==
    /\ At(s, "applies")
    /\ \/ GotoWithList(s, "store", Applicants(worker[s].me)) /\ UNCHANGED faults
       \/ Goto(s, "store") /\ Fault
    /\ UNCHANGED <<servers, redis, mysql, clients, warned, requests>>

(* setex writes back the session that was read                             *)
StoreSession(s) ==
    /\ At(s, "store")
    /\ route' = [route EXCEPT ![worker[s].me] = s]
    /\ Goto(s, "bind")
    /\ UNCHANGED <<servers, cached, mysql, clients, warned, requests, faults>>

(* setUserSession, and the deferred Send of the lists                      *)
Bind(s) ==
    LET u == worker[s].me IN
    /\ At(s, "bind")
    /\ bound' = [bound EXCEPT ![u] = IF online[u] = s THEN s ELSE @]
    /\ Goto(s, "lists")
    /\ UNCHANGED <<servers, redis, mysql, ticket, online, known, told, warned, moves, requests, faults>>

AnswerLogin(s) ==
    LET u == worker[s].me IN
    /\ At(s, "lists")
    /\ known' = [known EXCEPT ![u] = IF bound[u] = s THEN @ \cup worker[s].seen ELSE @]
    /\ Return(s)
    /\ UNCHANGED <<servers, redis, mysql, ticket, online, bound, told, warned, moves, requests, faults>>

-----------------------------------------------------------------------------
(* ApplyFriendHandler and ApprovalFriendHandler, up to the notification    *)

(* The handler takes the uid in "self" for the sender's, whatever user the *)
(* session has logged in, if any.  (A message whose sender left before the *)
(* worker came to it is left out: it is as one that came in time.)         *)
BeginFriend(s, op, a, b) ==
    /\ At(s, "idle") /\ requests < MaxRequests
    /\ a # b /\ \E u \in Users : online[u] = s
    /\ requests' = requests + 1
    /\ Begin(s, op, a, b, op)
    /\ UNCHANGED <<servers, redis, mysql, clients, warned, faults>>

(* Mutant: the handler goes on after a failed insert.                      *)
GoesOnAnyway(s, where) == Goto(s, "route")

(* A failed insert is answered with SUCCESS, a failed update with nothing. *)
Unsuccessful(s, where) == Return(s)

(* sp_insert_friend: one row for an applicant and a recipient              *)
Store(s) ==
    /\ <<worker[s].me, worker[s].to>> \notin pending
    /\ {worker[s].me, worker[s].to} \notin friends
    /\ pending' = pending \cup {Pair(s)}
    /\ storedBy' = [storedBy EXCEPT ![Pair(s)] = s]
    /\ UNCHANGED friends

(* AddFriend may fail, with nothing stored, or only in SELECT @success     *)
AddFriend(s) ==
    /\ At(s, "apply")
    /\ \/ Store(s) /\ Goto(s, "route") /\ UNCHANGED faults
       \/ /\ Pair(s) \in pending \/ {worker[s].me, worker[s].to} \in friends
          /\ Unsuccessful(s, "route")
          /\ UNCHANGED <<mysql, faults>>
       \/ Fault /\ Unsuccessful(s, "route") /\ (Store(s) \/ UNCHANGED mysql)
    /\ UNCHANGED <<servers, redis, clients, warned, requests>>

(* sp_update_friend: the application becomes a friendship                  *)
Befriend(s) ==
    LET p == <<worker[s].to, worker[s].me>> IN
    /\ p \in pending
    /\ pending' = pending \ {p}
    /\ friends' = friends \cup {{p[1], p[2]}}
    /\ UNCHANGED storedBy

UpdateFriendStatus(s) ==
    /\ At(s, "approve")
    /\ \/ Befriend(s) /\ Goto(s, "info") /\ UNCHANGED faults
       \/ /\ <<worker[s].to, worker[s].me>> \notin pending
          /\ Return(s)
          /\ UNCHANGED <<mysql, faults>>
       \/ Fault /\ Return(s) /\ (Befriend(s) \/ UNCHANGED mysql)
    /\ UNCHANGED <<servers, redis, clients, warned, requests>>

(* Where the other user is                                                 *)
ReadRoute(s) ==
    LET r == route[worker[s].to] IN
    /\ At(s, "route")
    /\ \/ /\ r # None
          /\ GotoWithServer(s, IF worker[s].op = "apply" THEN "info" ELSE "notify", r)
          /\ UNCHANGED <<servers, clients, warned>>
       \/ r = None /\ NoRoute(s)
    /\ UNCHANGED <<redis, mysql, requests, faults>>

-----------------------------------------------------------------------------
(* Notifications                                                           *)

(* Mutant: the session of the user who asked.                              *)
Asker(s) == worker[s].me

Recipient(s) == worker[s].to

(* Send on the session of u at server r: it arrives if that connection is  *)
(* still open.  An application names the applicant, an approval: who.      *)
Delivered(s, u, r, who) ==
    IF bound[u] = r
    THEN IF worker[s].op = "apply"
         THEN known' = [known EXCEPT ![u] = @ \cup {who}] /\ UNCHANGED told
         ELSE told' = [told EXCEPT ![u] = @ \cup {who}] /\ UNCHANGED known
    ELSE UNCHANGED <<known, told>>

(* The user is on this server.  An approval is sent with what GetUserInfo  *)
(* found of its recipient.                                                 *)
NotifyHere(s) ==
    /\ At(s, "notify") /\ worker[s].at = s
    /\ Delivered(s, Recipient(s), s, InfoOf(s))
    /\ Return(s)
    /\ UNCHANGED <<servers, redis, mysql, ticket, online, bound, warned, moves, requests, faults>>

(* Mutant: GetConnection does not wait.                                    *)
Always(s) == TRUE

StubIdle(s) == stubs[s][worker[s].at] > 0

(* ... or on a peer: wait for a stub                                       *)
TakeStub(s) ==
    /\ At(s, "notify") /\ worker[s].at \in Peers[s] \ {s}
    /\ StubIdle(s)
    /\ stubs' = [stubs EXCEPT ![s][worker[s].at] = @ - 1]
    /\ Goto(s, "call")
    /\ UNCHANGED <<up, leaked, redis, mysql, clients, warned, requests, faults>>

(* ... or on a server without a pool: the response is as of a call that    *)
(* was served                                                              *)
NoPool(s) ==
    /\ At(s, "notify") /\ worker[s].at \notin Peers[s] \cup {s}
    /\ Return(s)
    /\ UNCHANGED <<servers, redis, mysql, clients, warned, requests, faults>>

(* The peer reads the profile of the user who approved, for the session of *)
(* the recipient, and Redis does not have it                               *)
ProfileMissing(s) ==
    /\ worker[s].op = "approve" /\ bound[worker[s].to] = worker[s].at
    /\ worker[s].me \notin cached

(* FriendServerImpl on the peer.  A profile that neither Redis nor MySQL   *)
(* gives makes a notification with an error that names nobody.             *)
Serve(s) ==
    LET r == worker[s].at IN
    /\ At(s, "call") /\ up[r] = "up"
    /\ IF ProfileMissing(s)
       THEN /\ EmptyWhenMissing
            /\ \/ /\ Delivered(s, worker[s].to, r, worker[s].me)
                  /\ cached' = cached \cup {worker[s].me} /\ UNCHANGED faults
               \/ Fault /\ UNCHANGED <<cached, known, told>>
       ELSE Delivered(s, worker[s].to, r, worker[s].me) /\ UNCHANGED <<cached, faults>>
    /\ Goto(s, "reply")
    /\ UNCHANGED <<servers, route, mysql, ticket, online, bound, warned, moves, requests>>

(* Mutant: the stub is not given back.                                     *)
Kept(n) == n

Returned(n) == n + 1

Reply(s) ==
    /\ At(s, "reply")
    /\ stubs' = [stubs EXCEPT ![s][worker[s].at] = Returned(@)]
    /\ Return(s)
    /\ UNCHANGED <<up, leaked, redis, mysql, clients, warned, requests, faults>>

(* The peer is down, or its handler throws as in NoRoute, which gRPC       *)
(* answers with an error                                                   *)
Unserved(s) ==
    \/ up[worker[s].at] # "up"
    \/ At(s, "call") /\ ProfileMissing(s) /\ ~EmptyWhenMissing

(* A call fails, served or not, and returns without its stub.  The answer  *)
(* to the client stays SUCCESS.                                            *)
CallFails(s) ==
    /\ At(s, "call") \/ At(s, "reply")
    /\ \/ Unserved(s) /\ UNCHANGED faults
       \/ Fault
    /\ leaked' = [leaked EXCEPT ![s][worker[s].at] = @ + 1]
    /\ Return(s)
    /\ UNCHANGED <<up, stubs, redis, mysql, clients, warned, requests>>

-----------------------------------------------------------------------------
(* The surroundings                                                        *)

(* The client of a user who is not connected logs in at the gate: it is    *)
(* sent to a server, and the session of the user is stored                 *)
Allocate(u, s) ==
    /\ online[u] = None
    /\ Move
    /\ ticket[u] # s \/ route[u] # s
    /\ ticket' = [ticket EXCEPT ![u] = s]
    /\ route' = [route EXCEPT ![u] = s]
    /\ UNCHANGED <<servers, worker, cached, mysql, online, bound, known, told, warned,
                   requests, faults>>

(* The session in Redis has a time to live                                 *)
Expire(u) ==
    /\ route[u] # None
    /\ Fault
    /\ route' = [route EXCEPT ![u] = None]
    /\ UNCHANGED <<servers, worker, cached, mysql, clients, warned, requests>>

Disconnect(u) ==
    /\ online[u] # None
    /\ Move
    /\ online' = [online EXCEPT ![u] = None]
    /\ bound' = [bound EXCEPT ![u] = None]
    /\ UNCHANGED <<servers, worker, redis, mysql, ticket, known, told, warned, requests, faults>>

(* A Redis command of a handler throws, or the process is ended            *)
Crash(s) ==
    /\ up[s] = "up"
    /\ Fault
    /\ Down(s, "down")
    /\ UNCHANGED <<redis, mysql, ticket, known, told, warned, moves, requests>>

Start(s) ==
    /\ up[s] = "down"
    /\ up' = [up EXCEPT ![s] = "up"]
    /\ UNCHANGED <<worker, stubs, leaked, redis, mysql, clients, warned,
                   requests, faults>>

-----------------------------------------------------------------------------
LoginStep(s)  == ReadSession(s) \/ ReadApplyList(s) \/ StoreSession(s) \/ Bind(s) \/ AnswerLogin(s)
FriendStep(s) == AddFriend(s) \/ UpdateFriendStatus(s) \/ ReadRoute(s)
InfoStep(s)   == ReadInfo(s) \/ FetchInfo(s) \/ FetchFails(s)
NotifyStep(s) ==
    NotifyHere(s) \/ TakeStub(s) \/ NoPool(s) \/ Serve(s) \/ Reply(s) \/ CallFails(s)

HandlerStep(s) == LoginStep(s) \/ FriendStep(s) \/ InfoStep(s) \/ NotifyStep(s)

Next ==
    \/ \E s \in Servers : HandlerStep(s) \/ Crash(s) \/ Start(s)
    \/ \E s \in Servers, a, b \in Users :
          BeginFriend(s, "apply", a, b) \/ BeginFriend(s, "approve", a, b)
    \/ \E s \in Servers, u \in Users : BeginLogin(s, u) \/ Allocate(u, s)
    \/ \E u \in Users : Expire(u) \/ Disconnect(u)

(* The steps a handler takes by itself, with nothing to wait for but a     *)
(* stub of its own server's pools                                          *)
LocalStep(s) == Bind(s) \/ AnswerLogin(s) \/ NotifyHere(s) \/ TakeStub(s) \/ NoPool(s)

(* A worker that can go on by itself does.  Redis, MySQL and the peers     *)
(* need not answer.                                                        *)
Fairness == \A s \in Servers : WF_vars(LocalStep(s))

Spec == Init /\ [][Next]_vars /\ Fairness

-----------------------------------------------------------------------------
(* Properties                                                              *)

Places ==
    {"idle", "session", "info", "fetch", "applies", "store", "bind", "lists",
     "apply", "approve", "route", "notify", "call", "reply"}

Handler ==
    [pc : Places,
     op : {"login", "apply", "approve", None}, me : Users \cup {None},
     to : Users \cup {None}, at : Servers \cup {None}, seen : SUBSET Users]

TypeOK ==
    /\ up \in [Servers -> {"up", "down", "ended"}]
    /\ worker \in [Servers -> Handler]
    /\ stubs \in [Servers -> [Servers -> 0..PoolSize]]
    /\ leaked \in [Servers -> [Servers -> 0..PoolSize]]
    /\ route \in [Users -> Servers \cup {None}] /\ cached \subseteq Users
    /\ pending \subseteq Users \X Users /\ friends \subseteq SUBSET Users
    /\ ticket \in [Users -> Servers \cup {None}]
    /\ online \in [Users -> Servers \cup {None}]
    /\ bound \in [Users -> Servers \cup {None}]
    /\ known \in [Users -> SUBSET Users] /\ told \in [Users -> SUBSET Users]
    /\ storedBy \in [Users \X Users -> Servers \cup {None}]
    /\ warned \subseteq Users \X Users
    /\ requests \in 0..MaxRequests /\ moves \in 0..MaxMoves /\ faults \in 0..MaxFaults

(* What a client is told is in the database: whom it shows as applicant    *)
(* has applied, or is a friend by now; whom an approval names is a friend  *)
(* (or the recipient itself: see ApprovalNamesApprover).                   *)
ToldIsStored ==
    \A u \in Users :
        /\ \A a \in known[u] : <<a, u>> \in pending \/ {a, u} \in friends
        /\ \A a \in told[u] \ {u} : {a, u} \in friends

(* An application stored by the server the recipient is connected to is    *)
(* known to the recipient's client, from the list of its login or by a     *)
(* notification, whatever the order of the two: one worker runs both       *)
(* handlers.  Not so while the handler is running, when the applicant got  *)
(* an error, after a fault, and if the session in Redis names another      *)
(* server.  (Between two servers the notification may fall between the     *)
(* reading of the list and the binding of the session.)                    *)
NothingMissedHere ==
    \A a, b \in Users : \A s \in Servers :
        (/\ <<a, b>> \in pending /\ storedBy[<<a, b>>] = s
         /\ bound[b] = s /\ route[b] = s
         /\ worker[s].me # b /\ Pair(s) # <<a, b>>
         /\ <<a, b>> \notin warned /\ faults = 0)
        => a \in known[b]

(* In an access to Redis or MySQL, or in a call                            *)
AwaitsAnswer(s) ==
    worker[s].pc \in {"session", "info", "fetch", "applies", "store", "apply", "approve",
                      "route", "call", "reply"}

(* At a pool whose stubs failed calls have lost, all of them               *)
AwaitsLostStub(s) ==
    worker[s].pc = "notify" /\ leaked[s][worker[s].at] = PoolSize

(* A handler ends, and only two things can stop it, then for ever and the  *)
(* worker with it: one answer that does not come, or the pool of a peer of *)
(* which every stub was lost.  A stub is never missing otherwise.          *)
HandlersEnd ==
    \A s \in Servers : worker[s].pc # "idle" ~>
        worker[s].pc = "idle" \/ [](AwaitsAnswer(s)) \/ [](AwaitsLostStub(s))

(* An approval names who approved.  It does not hold: NotifyHere.          *)
ApprovalNamesApprover == \A u \in Users : u \notin told[u]
=============================================================================
