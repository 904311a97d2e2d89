----------------------------- MODULE HttpConnection -----------------------------
(***************************************************************************)
(* The HTTP side of GateServer: CServer accepts on the thread of main, and *)
(* each HttpConnection lives on one of the io_contexts of IOContextPool,   *)
(* which is run by one thread.  The handlers of LogicSystem call the other *)
(* servers on that thread and keep it until they return, for ever if the   *)
(* server does not answer: the calls have no deadline.                     *)
(*                                                                         *)
(* A connection object is there as long as a handler that refers to it is  *)
(* pending or running.  Its place in con is then used for another one.     *)
(***************************************************************************)
EXTENDS Naturals

CONSTANTS
    Conns,      \* places for connection objects
    Contexts,   \* number of io_contexts, and of threads
    None

ASSUME GateAssumption ==
    /\ Contexts \in Nat \ {0}
    /\ Conns # {} /\ None \notin Conns

VARIABLES
    con,            \* connection -> its state
    busy,           \* io_context -> the connection whose handler is in a call
    accepting,      \* the connection async_accept has
    nextIOContext,  \* _nextIOContext
    stopping,       \* a signal has ended main's loop: IOContextPool::Stop
    ended           \* the io_contexts whose thread has ended

vars == <<con, busy, accepting, nextIOContext, stopping, ended>>

Pool == 0 .. Contexts - 1

(* What a client may ask for: a URL with a handler, a URL without one, a   *)
(* method that is neither GET nor POST, a body whose fields are missing or *)
(* have not the type the handler takes out of it.                          *)
Requests == {"known", "unknown", "method", "fields"}

(* late: 60 seconds went by since the constructor made _deadline; wait:    *)
(* the async_wait on it; write: the async_write of the response.           *)
Free == [phase |-> "free", at |-> 0, request |-> "none", client |-> TRUE,
         late |-> FALSE, write |-> "none", wait |-> "off"]

(* What becomes of the object when a handler of it ends: no pending one    *)
(* refers to it any more.                                                  *)
Settled(r) ==
    IF r.wait = "done" /\ r.write \in {"none", "answered", "cut"} THEN Free ELSE r

Set(c, r) == con' = [con EXCEPT ![c] = Settled(r)]

(* The thread of the connection is in its loop, not in a handler.          *)
Runs(c) == ~stopping /\ busy[con[c].at] = None

-----------------------------------------------------------------------------
(* CServer and main                                                        *)

New(i) == [Free EXCEPT !.phase = "accepting", !.at = i]

(* Mutant: the index does not start over.                                  *)
NeverOver(i) == i + 1

(* getIOContext                                                            *)
Following(i) == IF i + 1 = Contexts THEN 0 ELSE i + 1

Init ==
    /\ accepting = CHOOSE c \in Conns : TRUE
    /\ con = [c \in Conns |-> IF c = accepting THEN New(0) ELSE Free]
    /\ nextIOContext = Following(0)
    /\ busy = [i \in Pool |-> None]
    /\ stopping = FALSE /\ ended = {}

(* The handler of async_accept starts the read and accepts the next one.   *)
(* One free place is as good as another.                                   *)
Vacant == {c \in Conns : con[c].phase = "free"}

Accept(c) ==
    /\ ~stopping /\ accepting = c /\ Vacant # {}
    /\ accepting' = CHOOSE d \in Vacant : TRUE
    /\ con' = [con EXCEPT ![c].phase = "reading", ![accepting'] = New(nextIOContext)]
    /\ nextIOContext' = Following(nextIOContext)
    /\ UNCHANGED <<busy, stopping, ended>>

(* The object that could not be used is dropped for a new one.             *)
AcceptFails(c) ==
    /\ ~stopping /\ accepting = c
    /\ Set(c, New(nextIOContext)) /\ nextIOContext' = Following(nextIOContext)
    /\ UNCHANGED <<busy, accepting, stopping, ended>>

Calling == {c \in Conns : con[c].phase = "calling"}

(* Mutant: the work guards are reset and the contexts not stopped.         *)
ResetWork ==
    /\ ~stopping /\ stopping' = TRUE
    /\ UNCHANGED <<con, busy, accepting, nextIOContext, ended>>

(* SIGINT or SIGTERM: ioc.stop, the end of main, IOContextPool::Stop, as   *)
(* one step; what the contexts still run between the first and the last is *)
(* what they would have run before the signal, without the accepts.        *)
(* The stopped contexts run no handler more, so what they had pending is   *)
(* of no use; a handler that is running goes on.                           *)
Signal ==
    /\ ~stopping /\ stopping' = TRUE
    /\ con' = [c \in Conns |-> IF c \in Calling THEN con[c] ELSE Free]
    /\ UNCHANGED <<busy, accepting, nextIOContext, ended>>

(* run returns on a context without work, and Stop joins the thread.       *)
ThreadEnds(i) ==
    /\ stopping /\ i \notin ended
    /\ \A c \in Conns : con[c].phase = "free" \/ con[c].at # i
    /\ ended' = ended \cup {i}
    /\ UNCHANGED <<con, busy, accepting, nextIOContext, stopping>>

-----------------------------------------------------------------------------
(* The clients, the network and the clock.                                 *)

Connected(c) ==
    con[c].phase \notin {"free", "accepting"} /\ con[c].client

Elsewhere == UNCHANGED <<busy, accepting, nextIOContext, stopping, ended>>

(* The whole of a request was read, its completion is queued.              *)
SendRequest(c, k) ==
    /\ Connected(c) /\ con[c].phase = "reading"
    /\ con' = [con EXCEPT ![c].phase = "request", ![c].request = k]
    /\ Elsewhere

(* The kernel takes the response.                                          *)
TakeResponse(c) ==
    /\ Connected(c) /\ con[c].write = "busy"
    /\ con' = [con EXCEPT ![c].write = "sent"]
    /\ Elsewhere

LeaveClient(c) ==
    /\ Connected(c)
    /\ con' = [con EXCEPT ![c].client = FALSE,
                          ![c].write = IF @ = "busy" THEN "failed" ELSE @]
    /\ Elsewhere

(* The timer counts from the constructor, which is before the accept.      *)
DeadlinePasses(c) ==
    /\ con[c].phase # "free" /\ ~con[c].late
    /\ con' = [con EXCEPT ![c].late = TRUE,
                          ![c].wait = IF @ = "armed" THEN "due" ELSE @]
    /\ Elsewhere

-----------------------------------------------------------------------------
(* HttpConnection                                                          *)

(* async_read ended with an error because the client has left: the last    *)
(* reference goes.                                                         *)
ReadFails(c) ==
    /\ Runs(c) /\ con[c].phase = "reading" /\ ~con[c].client
    /\ con' = [con EXCEPT ![c] = Free]
    /\ Elsewhere

(* The client is there and has sent what is not a request, or one that is  *)
(* larger than Beast reads.  No client has to.                             *)
ReadRejected(c) ==
    /\ Runs(c) /\ con[c].phase = "reading" /\ con[c].client
    /\ con' = [con EXCEPT ![c] = Free]
    /\ Elsewhere

(* CheckDeadline: a wait on a timer that has expired is due at once.       *)
CheckDeadline(r) == [r EXCEPT !.phase = "handled",
                              !.wait = IF r.late THEN "due" ELSE "armed"]

(* Mutant: the request is handled and no deadline is armed.                *)
WriteOnly(r) == [r EXCEPT !.phase = "handled", !.wait = "done",
                          !.write = IF r.client THEN "busy" ELSE "failed"]

(* WriteResponse, then CheckDeadline.                                      *)
Respond(r) ==
    CheckDeadline([r EXCEPT !.write = IF r.client THEN "busy" ELSE "failed"])

(* Mutant: the response of an unknown URL is made and not written.         *)
UnknownForgotten(c) ==
    /\ con[c].request = "unknown"
    /\ Set(c, CheckDeadline(con[c]))
    /\ Elsewhere

(* LogicSystem has no handler for the URL: 404.                            *)
HandleUnknown(c) ==
    /\ con[c].request = "unknown"
    /\ Set(c, Respond(con[c]))
    /\ Elsewhere

(* The handler calls UserServer, StatusServer or VerifyServer.             *)
HandleKnown(c) ==
    /\ con[c].request = "known"
    /\ con' = [con EXCEPT ![c].phase = "calling"]
    /\ busy' = [busy EXCEPT ![con[c].at] = c]
    /\ UNCHANGED <<accepting, nextIOContext, stopping, ended>>

(* Neither GET nor POST: HandleRequest does nothing.                       *)
HandleMethod(c) ==
    /\ con[c].request = "method"
    /\ Set(c, CheckDeadline(con[c]))
    /\ Elsewhere

(* The handler catches parse_error only.  A type_error passes WriteResponse *)
(* and CheckDeadline, and the lambda of async_read ends with the object.   *)
HandleFields(c) ==
    /\ con[c].request = "fields"
    /\ con' = [con EXCEPT ![c] = Free]
    /\ Elsewhere

HandleRequest(c) ==
    /\ Runs(c) /\ con[c].phase = "request"
    /\ HandleUnknown(c) \/ HandleKnown(c) \/ HandleMethod(c) \/ HandleFields(c)

(* The call returned, with an answer or an error; both are put in the      *)
(* response.  It need not return: no ClientContext has a deadline, and     *)
(* CheckDeadline is armed after HandleRequest only.                        *)
(* In a stopped context the write it starts never completes.    *)
CallReturns(c) ==
    /\ con[c].phase = "calling"
    /\ Set(c, IF stopping THEN Free ELSE Respond(con[c]))
    /\ busy' = [busy EXCEPT ![con[c].at] = None]
    /\ UNCHANGED <<accepting, nextIOContext, stopping, ended>>

(* The handler of async_write: _deadline.cancel does not reach a wait      *)
(* whose handler is queued already.                                        *)
WriteEnds(c) ==
    /\ Runs(c) /\ con[c].write \in {"sent", "failed"}
    /\ Set(c, [con[c] EXCEPT !.write = IF @ = "sent" THEN "answered" ELSE "cut",
                             !.wait = IF @ = "armed" THEN "done" ELSE @])
    /\ Elsewhere

(* The handler of the deadline closes the socket: a running write fails.   *)
DeadlineReached(c) ==
    /\ Runs(c) /\ con[c].wait = "due"
    /\ Set(c, [con[c] EXCEPT !.wait = "done",
                             !.write = IF @ = "busy" THEN "failed" ELSE @])
    /\ Elsewhere

RunHandler(c) == ReadFails(c) \/ HandleRequest(c) \/ WriteEnds(c) \/ DeadlineReached(c)

Next ==
    \/ Signal
    \/ \E i \in Pool : ThreadEnds(i)
    \/ \E c \in Conns :
          \/ Accept(c) \/ AcceptFails(c)
          \/ \E k \in Requests : SendRequest(c, k)
          \/ TakeResponse(c) \/ LeaveClient(c) \/ DeadlinePasses(c)
          \/ RunHandler(c) \/ ReadRejected(c) \/ CallReturns(c)

(* A thread that can end does, time passes, and a context takes its        *)
(* handlers in the order they were queued, so none waits while others run  *)
(* for ever.  No client has to do anything, and no server to answer.       *)
Fairness ==
    /\ \A i \in Pool : WF_vars(ThreadEnds(i))
    /\ \A c \in Conns :
          /\ WF_vars(DeadlinePasses(c))
          /\ SF_vars(RunHandler(c))

Spec == Init /\ [][Next]_vars /\ Fairness

-----------------------------------------------------------------------------
ConState ==
    [phase : {"free", "accepting", "reading", "request", "calling", "handled"},
     at : Pool, request : Requests \cup {"none"}, client : BOOLEAN, late : BOOLEAN,
     write : {"none", "busy", "sent", "failed", "answered", "cut"},
     wait : {"off", "armed", "due", "done"}]

TypeOK ==
    /\ con \in [Conns -> ConState]
    /\ busy \in [Pool -> Conns \cup {None}]
    /\ accepting \in Conns
    /\ nextIOContext \in Pool
    /\ stopping \in BOOLEAN
    /\ ended \subseteq Pool

(* While the server runs, the object of a request that has an answer goes  *)
(* only when the response was sent, or could not be because the client     *)
(* left or the 60 seconds were over: no path of HandleRequest, and no      *)
(* order of the handlers of the write and of the deadline, drops it        *)
(* (HttpConnection::HandleRequest, WriteResponse, CheckDeadline).          *)
AnsweredOrCut ==
    [][\A c \in Conns :
          /\ con[c].phase \in {"request", "calling", "handled"}
          /\ con[c].request \in {"known", "unknown"}
          /\ con'[c].phase = "free" /\ ~stopping'
          => \/ con[c].write \in {"sent", "answered"}
             \/ con[c].write \in {"failed", "cut"} /\ (con[c].late \/ ~con[c].client)]_vars

(* A connection that sent a request does not stay, whatever its client     *)
(* does then: the deadline frees a response nobody takes and a request     *)
(* without one (HttpConnection::CheckDeadline).  One call that never       *)
(* returns stops that for the connections of its own context, and for no   *)
(* other.                                                                  *)
RequestsEnd ==
    \A c \in Conns : con[c].phase = "request" ~>
        \/ con[c].phase = "free" \/ stopping
        \/ [](busy[con[c].at] # None)

(* After a signal every thread of the pool that is not in a call for ever  *)
(* ends, however many clients are connected: the joins of                  *)
(* IOContextPool::Stop wait for calls and for nothing else.                *)
ShutdownEnds ==
    stopping ~> \A i \in Pool : i \in ended \/ [](busy[i] # None)
=============================================================================
