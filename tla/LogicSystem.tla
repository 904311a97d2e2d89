----------------------------- MODULE LogicSystem -----------------------------
(***************************************************************************)
(* The message queue of a chat server (ChatServer/LogicSystem.cpp): the    *)
(* threads of the io contexts post what they have read from the sessions,  *)
(* one worker thread serves it, and the destructor stops the worker when   *)
(* the process ends.                                                       *)
(*                                                                         *)
(* `worker` is the point DealMessage has reached:                          *)
(*   "lock"     at the mutex, at the top of the loop or after a wake-up;   *)
(*   "asleep"   in _consume.wait, the mutex released;                      *)
(*   "test"     the mutex taken, before the test of the loop;              *)
(*   "wait"     the test said wait: the mutex taken, not asleep yet;       *)
(*   "handle"   in the handler of the message at the front, the mutex      *)
(*              taken;                                                     *)
(*   "drain"    in the loop that empties the queue at the end;             *)
(*   "finish"   in a handler that this loop has called;                    *)
(*   "done"     returned;                                                  *)
(*   "crashed"  a handler has thrown past DealMessage: the process is gone.*)
(*                                                                         *)
(* A handler need not return: it waits for Redis, MySQL, their connections *)
(* and the other chat servers, and none of these waits has a deadline.     *)
(***************************************************************************)
EXTENDS Naturals, Sequences

CONSTANTS
    Posters,        \* the threads of the io contexts
    Messages,       \* what can be posted
    Handled,        \* the messages whose id has a callback
    None,           \* absent value
    MaxPosts        \* bound of the checked instances

ASSUME LogicAssumption ==
    /\ Handled \subseteq Messages
    /\ None \notin Messages
    /\ MaxPosts \in Nat

VARIABLES
    queue,          \* _messageQueue
    worker,         \* where DealMessage is
    poster,         \* per poster: "idle", or "notify" after it has unlocked
    stop,           \* _b_stop
    destructor,     \* "idle", "notify", "join", "joined"
    posted,         \* history: all messages pushed
    served          \* history: all messages popped

vars == <<queue, worker, poster, stop, destructor, posted, served>>

InHandler == {"handle", "finish"}

Working == {"test", "wait", "drain"} \cup InHandler

Alive == worker # "crashed"

(* _mutex is taken by the worker in these places, by others only within    *)
(* one step                                                                *)
MutexFree == worker \notin Working /\ Alive

-----------------------------------------------------------------------------
(* Mutant: the size is tested as if it were taken before the push.         *)
NeverDue(q) == Len(q) = 0

(* PostMessageToQueue notifies when the queue was empty                    *)
NotifyDue(q) == Len(q) = 1

(* Mutant: the shared_ptr was moved from before the push.                  *)
PushedNull(q, m) == Append(q, None)

Pushed(q, m) == Append(q, m)

(* Mutant: the front stays in the queue.                                   *)
NotPopped(q) == q

Popped(q) == Tail(q)

(* notify_one                                                              *)
Wake == worker' = IF worker = "asleep" THEN "lock" ELSE worker

Init ==
    /\ queue = << >>
    /\ worker = "lock"
    /\ poster = [p \in Posters |-> "idle"]
    /\ stop = FALSE
    /\ destructor = "idle"
    /\ posted = << >> /\ served = << >>

-----------------------------------------------------------------------------
(* PostMessageToQueue                                                      *)

Post(p, m) ==
    /\ poster[p] = "idle"
    /\ MutexFree
    /\ Len(posted) < MaxPosts
    /\ queue' = Pushed(queue, m)
    /\ posted' = Append(posted, m)
    /\ poster' = [poster EXCEPT ![p] = IF NotifyDue(queue') THEN "notify" ELSE "idle"]
    /\ UNCHANGED <<worker, stop, destructor, served>>

Notify(p) ==
    /\ poster[p] = "notify"
    /\ Alive
    /\ Wake
    /\ poster' = [poster EXCEPT ![p] = "idle"]
    /\ UNCHANGED <<queue, stop, destructor, posted, served>>

-----------------------------------------------------------------------------
(* DealMessage                                                             *)

Lock ==
    /\ worker = "lock"
    /\ worker' = "test"
    /\ UNCHANGED <<queue, poster, stop, destructor, posted, served>>

TestSaysWait ==
    /\ worker = "test"
    /\ queue = << >> /\ ~stop
    /\ worker' = "wait"
    /\ UNCHANGED <<queue, poster, stop, destructor, posted, served>>

Sleep ==
    /\ worker = "wait"
    /\ worker' = "asleep"
    /\ UNCHANGED <<queue, poster, stop, destructor, posted, served>>

SpuriousWakeup ==
    /\ worker = "asleep"
    /\ worker' = "lock"
    /\ UNCHANGED <<queue, poster, stop, destructor, posted, served>>

CallHandler ==
    /\ worker = "test"
    /\ queue # << >> /\ ~stop
    /\ Head(queue) \in Handled
    /\ worker' = "handle"
    /\ UNCHANGED <<queue, poster, stop, destructor, posted, served>>

Pop ==
    /\ queue' = Popped(queue)
    /\ served' = Append(served, Head(queue))
    /\ UNCHANGED <<poster, stop, destructor, posted>>

HandlerReturns ==
    /\ worker \in InHandler
    /\ Pop
    /\ worker' = IF worker = "handle" THEN "lock" ELSE "drain"

(* The handlers catch json::parse_error and nothing else: the value() of   *)
(* an answer that Redis did not give, or a field of another type, throws   *)
(* out of the thread and ends the process                                  *)
HandlerThrows ==
    /\ worker \in InHandler
    /\ worker' = "crashed"
    /\ UNCHANGED <<queue, poster, stop, destructor, posted, served>>

NoHandler ==
    /\ worker = "test"
    /\ queue # << >> /\ ~stop
    /\ Head(queue) \notin Handled
    /\ Pop
    /\ worker' = "lock"

SeeStop ==
    /\ worker = "test"
    /\ stop
    /\ worker' = "drain"
    /\ UNCHANGED <<queue, poster, stop, destructor, posted, served>>

(* Mutant: the worker leaves at once.                                      *)
Abandon ==
    /\ worker = "drain"
    /\ worker' = "done"
    /\ UNCHANGED <<queue, poster, stop, destructor, posted, served>>

(* Handlers run here too, and messages without one are dropped; the mutex  *)
(* is never released                                                       *)
Drain ==
    /\ worker = "drain"
    /\ \/ /\ queue # << >> /\ Head(queue) \in Handled
          /\ worker' = "finish"
          /\ UNCHANGED <<queue, poster, stop, destructor, posted, served>>
       \/ /\ queue # << >> /\ Head(queue) \notin Handled
          /\ Pop
          /\ UNCHANGED worker
       \/ /\ queue = << >>
          /\ worker' = "done"
          /\ UNCHANGED <<queue, poster, stop, destructor, posted, served>>

(* What the worker does by itself, outside of the handlers                 *)
WorkerStep ==
    \/ Lock \/ TestSaysWait \/ Sleep \/ CallHandler \/ NoHandler
    \/ SeeStop \/ Drain

-----------------------------------------------------------------------------
(* ~LogicSystem, which takes no lock                                       *)

SetStop ==
    /\ destructor = "idle"
    /\ Alive
    /\ stop' = TRUE
    /\ destructor' = "notify"
    /\ UNCHANGED <<queue, worker, poster, posted, served>>

NotifyStop ==
    /\ destructor = "notify"
    /\ Alive
    /\ Wake
    /\ destructor' = "join"
    /\ UNCHANGED <<queue, poster, stop, posted, served>>

Joined ==
    /\ destructor = "join"
    /\ worker = "done"
    /\ destructor' = "joined"
    /\ UNCHANGED <<queue, worker, poster, stop, posted, served>>

-----------------------------------------------------------------------------
Next ==
    \/ WorkerStep \/ SpuriousWakeup
    \/ HandlerReturns \/ HandlerThrows
    \/ \E p \in Posters : Notify(p) \/ \E m \in Messages : Post(p, m)
    \/ SetStop \/ NotifyStop \/ Joined

(* Threads that can run do: the worker outside of the handlers, a poster   *)
(* that has pushed, the destructor once it runs.  Nobody is obliged to     *)
(* post, to end the process, to wake up without a reason, or to return     *)
(* from a handler.                                                         *)
Fairness ==
    /\ WF_vars(WorkerStep)
    /\ \A p \in Posters : WF_vars(Notify(p))
    /\ WF_vars(NotifyStop) /\ WF_vars(Joined)

Spec == Init /\ [][Next]_vars /\ Fairness

-----------------------------------------------------------------------------
(* Properties                                                              *)

TypeOK ==
    /\ queue \in Seq(Messages)
    /\ worker \in Working \cup {"lock", "asleep", "done", "crashed"}
    /\ poster \in [Posters -> {"idle", "notify"}]
    /\ stop \in BOOLEAN
    /\ destructor \in {"idle", "notify", "join", "joined"}
    /\ posted \in Seq(Messages) /\ served \in Seq(Messages)

(* A worker that sleeps although there are messages is about to be woken   *)
(* by the poster that found the queue empty: to notify only at size one,   *)
(* and only after the unlock, loses no message.                            *)
NoLostWakeup ==
    worker = "asleep" /\ queue # << >> => \E p \in Posters : poster[p] = "notify"

(* One handler never returns, and the worker is in it for ever.            *)
StuckInHandler == <>[](worker \in InHandler)

(* What was posted before the process began to end is served, whether the  *)
(* worker gets to it before it sees _b_stop or in the loop that drains.    *)
(* Two things can keep it from that, and no third: one handler that never  *)
(* returns, since a single thread runs them all, and one that throws.      *)
PostedBeforeStopIsServed ==
    \/ StuckInHandler
    \/ \A k \in 1..MaxPosts :
          (Len(posted) >= k /\ ~stop) ~> (Len(served) >= k \/ ~Alive)

(* Messages are served in the order of the pushes, none twice, none        *)
(* skipped: the queue is read at its front, and popped after the handler.  *)
Box == INSTANCE Mailbox WITH sent <- posted
RefinesMailbox == Box!Spec

(* main.cpp and the destructor announce a graceful shutdown: "Worker       *)
(* thread joined successfully".  A handler that never returns or throws    *)
(* would be the handler's fault, and is not counted.                       *)
StopIsJoined ==
    \/ StuckInHandler
    \/ destructor = "join" ~> (destructor = "joined" \/ ~Alive)
=============================================================================
