------------------------------- MODULE Sessions -------------------------------
(***************************************************************************)
(* The sessions of a chat server: how they are accepted, bound to users,   *)
(* written to and closed (ChatServer/CServer.cpp, UserManager.cpp, and     *)
(* CSession.cpp without the parsing of what is received).                  *)
(*                                                                         *)
(* Four kinds of threads meet here: the main thread, which accepts; the    *)
(* io threads, one of which runs all handlers of a session; the worker of  *)
(* LogicSystem; and the threads of the gRPC server, which deliver what     *)
(* another chat server sends.  A critical section is one step.             *)
(*                                                                         *)
(* A message stands for its SendNode: done are those whose write is over.  *)
(* Bytes are not modelled, neither what two writes under way at once, nor  *)
(* what a write that outlives its SendNode puts on the wire.               *)
(***************************************************************************)
EXTENDS Naturals, Sequences, FiniteSets

CONSTANTS
    Connections,    \* the sessions, known by their uuid
    Users,          \* the uids
    Workers,        \* LogicSystem's worker
    GrpcThreads,    \* threads that run FriendServerImpl
    None,
    MaxMessages     \* bound of the checked instances

ASSUME SessionsAssumption ==
    /\ IsFiniteSet(Connections) /\ IsFiniteSet(Workers) /\ IsFiniteSet(GrpcThreads)
    /\ Connections \cap Users = {}
    /\ Connections \cap (Workers \cup GrpcThreads) = {}
    /\ None \notin Connections \cup Users \cup Nat
    /\ MaxMessages \in Nat

(* The io thread of a session goes by the session.                         *)
Threads == Connections \cup Workers \cup GrpcThreads

Messages == 1..MaxMessages

VARIABLES
    state,      \* connection -> "none", "open" or "closed" (_b_close)
    accepting,  \* the session handlerAccept has started and not inserted
    sessions,   \* CServer::_sessions
    userUid,    \* connection -> _userUid
    bound,      \* UserManager::_uidToSession, a partial function
    pc,         \* thread -> what it does next
    to,         \* thread -> the session it does it with
    node,       \* thread -> the message it has taken from the queue
    queue,      \* connection -> _sendQueue
    writes,     \* connection -> messages of the async_writes under way
    done,       \* history: messages written, or lost with their session
    messages,   \* history: number of messages sent so far
    latest,     \* history: user -> the session of the last login
    raced       \* history: sessions whose Close searched _sessions as it was changed

vars == <<state, accepting, sessions, userUid, bound, pc, to, node, queue, writes,
          done, messages, latest, raced>>

registry == <<state, accepting, sessions, userUid, bound, latest, raced>>
output   == <<node, queue, writes, done, messages>>

Init ==
    /\ state = [s \in Connections |-> "none"]
    /\ accepting = None
    /\ sessions = {}
    /\ userUid = [s \in Connections |-> None]
    /\ bound = << >>
    /\ pc = [t \in Threads |-> "idle"]
    /\ to = [t \in Threads |-> None]
    /\ node = [t \in Threads |-> None]
    /\ queue = [s \in Connections |-> << >>]
    /\ writes = [s \in Connections |-> {}]
    /\ done = {} /\ messages = 0
    /\ latest = [u \in Users |-> None]
    /\ raced = {}

Goto(t, where) == pc' = [pc EXCEPT ![t] = where]

-----------------------------------------------------------------------------
(* CServer, main thread: handlerAccept starts the session, then inserts it *)

Accept(s) ==
    /\ accepting = None
    /\ state[s] = "none"
    /\ state' = [state EXCEPT ![s] = "open"]
    /\ accepting' = s
    /\ UNCHANGED <<sessions, userUid, bound, latest, raced, pc, to, output>>

Insert ==
    /\ accepting # None
    /\ sessions' = sessions \cup {accepting}
    /\ accepting' = None
    /\ UNCHANGED <<state, userUid, bound, latest, raced, pc, to, output>>

-----------------------------------------------------------------------------
(* CSession::Close and CServer::clearSession, on the io thread             *)

(* handleRead or handleWrite with an error; _b_close is set first          *)
Close(s) ==
    /\ pc[s] = "idle"
    /\ state[s] = "open"
    /\ state' = [state EXCEPT ![s] = "closed"]
    /\ Goto(s, "find")
    /\ UNCHANGED <<accepting, sessions, userUid, bound, latest, raced, to, output>>

(* Another thread is in a critical section that changes _sessions.         *)
Changing(s) == accepting # None \/ \E r \in Connections \ {s} : pc[r] = "erase"

(* _sessions.find takes no lock: beside a change it may miss what is there *)
Finds(s) == {s \in sessions} \cup (IF Changing(s) THEN {FALSE} ELSE {})

(* Mutant: operator[] in place of find.                                    *)
LookupInserts(s) == IF s \in sessions THEN sessions ELSE sessions \cup {None}

(* _sessions after the find                                                *)
Lookup(s) == sessions

Find(s) ==
    /\ pc[s] = "find"
    /\ sessions' = Lookup(s)
    /\ raced' = IF Changing(s) THEN raced \cup {s} ELSE raced
    /\ \E found \in Finds(s) : Goto(s, IF found THEN "unbind" ELSE "idle")
    /\ UNCHANGED <<state, accepting, userUid, bound, latest, to, output>>

(* Mutant: the entry of the user goes, whoever it points to.               *)
UnboundUser(s) == [k \in DOMAIN bound \ {userUid[s]} |-> bound[k]]

(* removeUserSession: it erases by the uuid of the session                 *)
Unbound(s) == [k \in DOMAIN bound \ {s} |-> bound[k]]

Unbind(s) ==
    /\ pc[s] = "unbind"
    /\ bound' = Unbound(s)
    /\ Goto(s, "erase")
    /\ UNCHANGED <<state, accepting, sessions, userUid, latest, raced, to, output>>

(* Mutant: the erase uses the uid.                                         *)
NotErased(s) == sessions \ {userUid[s]}

Erased(s) == sessions \ {s}

Erase(s) ==
    /\ pc[s] = "erase"
    /\ sessions' = Erased(s)
    /\ Goto(s, "idle")
    /\ UNCHANGED <<state, accepting, userUid, bound, latest, raced, to, output>>

-----------------------------------------------------------------------------
(* LogicSystem's worker and FriendServerImpl: who is bound, who is told    *)

(* Bound of the checked instances, the messages about to be sent included. *)
MaySend == messages + Cardinality({t \in Threads : pc[t] = "push"}) < MaxMessages

(* LoginHandler, for a message its session posted: SetUserUid and          *)
(* setUserSession, then the response                                       *)
Login(t, s, u) ==
    /\ t \in Workers /\ pc[t] = "idle"
    /\ state[s] # "none"
    /\ MaySend
    /\ userUid' = [userUid EXCEPT ![s] = u]
    /\ bound' = [k \in DOMAIN bound \cup {u} |-> IF k = u THEN s ELSE bound[k]]
    /\ latest' = [latest EXCEPT ![u] = s]
    /\ Goto(t, "push")
    /\ to' = [to EXCEPT ![t] = s]
    /\ UNCHANGED <<state, accepting, sessions, raced, output>>

(* A notification: GetSession, then Send on what it returned               *)
Notify(t, u) ==
    /\ t \in Workers \cup GrpcThreads /\ pc[t] = "idle"
    /\ u \in DOMAIN bound
    /\ MaySend
    /\ Goto(t, "push")
    /\ to' = [to EXCEPT ![t] = bound[u]]
    /\ UNCHANGED <<registry, output>>

-----------------------------------------------------------------------------
(* CSession::Send and handleWrite                                          *)

Push(t) ==
    /\ pc[t] = "push"
    /\ messages < MaxMessages      \* so it is: see MaySend
    /\ messages' = messages + 1
    /\ queue' = [queue EXCEPT ![to[t]] = Append(@, messages')]
    /\ Goto(t, "pop")
    /\ UNCHANGED <<registry, to, node, writes, done>>

(* Mutant: no message is taken while a write is under way.                 *)
TakenIfFree(s) == queue[s] # << >> /\ writes[s] = {}

Taken(s) == queue[s] # << >>

(* Mutant: the front stays.                                                *)
NotPopped(q) == q

Popped(q) == Tail(q)

(* handleWrite: take the front under the lock, or return                   *)
Pop(t) ==
    LET s == to[t] IN
    /\ pc[t] = "pop"
    /\ IF Taken(s)
       THEN /\ node' = [node EXCEPT ![t] = Head(queue[s])]
            /\ queue' = [queue EXCEPT ![s] = Popped(@)]
            /\ Goto(t, "write")
       ELSE /\ Goto(t, "idle")
            /\ UNCHANGED <<node, queue>>
    /\ UNCHANGED <<registry, to, writes, done, messages>>

(* async_write, after the lock was released; node goes out of scope        *)
StartWrite(t) ==
    LET s == to[t] IN
    /\ pc[t] = "write"
    /\ writes' = [writes EXCEPT ![s] = @ \cup {node[t]}]
    /\ node' = [node EXCEPT ![t] = None]
    /\ Goto(t, "idle")
    /\ UNCHANGED <<registry, to, queue, done, messages>>

(* A write completes: handleWrite takes the next                           *)
WriteDone(s) ==
    /\ pc[s] = "idle"
    /\ \E m \in writes[s] :
          /\ writes' = [writes EXCEPT ![s] = @ \ {m}]
          /\ done' = done \cup {m}
    /\ Goto(s, "pop")
    /\ to' = [to EXCEPT ![s] = s]
    /\ UNCHANGED <<registry, node, queue, messages>>

(* A write fails: Close, which does nothing the second time                *)
WriteFailed(s) ==
    /\ pc[s] = "idle"
    /\ \E m \in writes[s] :
          /\ writes' = [writes EXCEPT ![s] = @ \ {m}]
          /\ done' = done \cup {m}
    /\ \/ /\ state[s] = "open"
          /\ state' = [state EXCEPT ![s] = "closed"]
          /\ Goto(s, "find")
       \/ /\ state[s] = "closed"
          /\ UNCHANGED <<state, pc>>
    /\ UNCHANGED <<accepting, sessions, userUid, bound, latest, raced, to, node, queue,
                   messages>>

-----------------------------------------------------------------------------
ThreadStep(t) ==
    \/ Push(t) \/ Pop(t) \/ StartWrite(t)
    \/ t \in Connections /\ (Find(t) \/ Unbind(t) \/ Erase(t))

Next ==
    \/ Insert
    \/ \E s \in Connections : Accept(s) \/ Close(s) \/ WriteDone(s) \/ WriteFailed(s)
    \/ \E t \in Threads : ThreadStep(t)
    \/ \E t \in Workers \cup GrpcThreads, u \in Users :
          Notify(t, u) \/ \E s \in Connections : Login(t, s, u)

(* Threads finish what they have begun.                                    *)
Spec == Init /\ [][Next]_vars /\ WF_vars(Insert) /\ \A t \in Threads : WF_vars(ThreadStep(t))

-----------------------------------------------------------------------------
(* Properties                                                              *)

TypeOK ==
    /\ state \in [Connections -> {"none", "open", "closed"}]
    /\ accepting \in Connections \cup {None}
    /\ sessions \subseteq Connections
    /\ userUid \in [Connections -> Users \cup {None}]
    /\ DOMAIN bound \subseteq Users /\ bound \in [DOMAIN bound -> Connections]
    /\ pc \in [Threads -> {"idle", "push", "pop", "write", "find", "unbind", "erase"}]
    /\ to \in [Threads -> Connections \cup {None}]
    /\ node \in [Threads -> Messages \cup {None}]
    /\ queue \in [Connections -> Seq(Messages)]
    /\ writes \in [Connections -> SUBSET Messages]
    /\ done \subseteq Messages /\ messages \in 0..MaxMessages
    /\ latest \in [Users -> Connections \cup {None}]
    /\ raced \subseteq Connections

(* While the session of a user's last login is open, the user is reached   *)
(* through it, though sessions the user had before are closed meanwhile:   *)
(* the close of an old session does not unbind the new one.                *)
LatestLoginIsBound ==
    \A u \in Users : latest[u] # None /\ state[latest[u]] = "open" =>
        u \in DOMAIN bound /\ bound[u] = latest[u]

(* A closed session stays in _sessions, its Close over, only if the search *)
(* in Close ran while another thread was changing the map, be it to insert *)
(* this very session: without that race every session that is closed       *)
(* leaves the map.                                                         *)
OnlyRacedStay ==
    \A s \in sessions : state[s] = "closed" /\ pc[s] \notin {"find", "unbind", "erase"}
        => s \in raced

(* Every message in a send queue has a thread that is about to take it, be *)
(* it not the one that pushed it: a queue nobody serves is empty.          *)
QueueHasTakers ==
    \A s \in Connections :
        Len(queue[s]) <= Cardinality({t \in Threads : pc[t] = "pop" /\ to[t] = s})

InQueues == UNION {{queue[s][i] : i \in 1..Len(queue[s])} : s \in Connections}
InHands  == {node[t] : t \in Threads} \ {None}
InWrites == UNION {writes[s] : s \in Connections}

(* A message is in one queue, in the hands of one thread, in one write, or *)
(* done: with two threads at a queue none is sent twice and none dropped.  *)
EachMessageOnce ==
    /\ 1..messages = InQueues \cup InHands \cup InWrites \cup done
    /\ InQueues \cap (InHands \cup InWrites \cup done) = {}
    /\ InHands \cap (InWrites \cup done) = {}
    /\ InWrites \cap done = {}

(* A queued message is given to the socket, though whoever pushed it may   *)
(* find the queue empty when it comes to take it, and though earlier       *)
(* writes to the session need not complete.                                *)
EveryMessageIsTaken == \A m \in Messages : m \in InQueues ~> m \notin InQueues
=============================================================================
