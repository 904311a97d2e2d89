-------------------------- MODULE LogicSystemProofs --------------------------
(***************************************************************************)
(* Proofs about LogicSystem, for any number of posters and messages.       *)
(***************************************************************************)
EXTENDS LogicSystem, SequenceTheorems, TLAPS

(* What the worker knows of the queue while it holds the mutex             *)
WorkerKnows ==
    /\ worker \in InHandler => queue # << >>
    /\ worker = "wait" => queue = << >>

Order == posted = served \o queue

Inv == TypeOK /\ WorkerKnows /\ NoLostWakeup /\ Order

-----------------------------------------------------------------------------
LEMMA PushAtEnd ==
  ASSUME NEW s \in Seq(Messages), NEW q \in Seq(Messages), NEW m \in Messages
  PROVE  Append(s \o q, m) = s \o Append(q, m)
<1> DEFINE l == Append(s \o q, m)
           r == s \o Append(q, m)
<1>1. l \in Seq(Messages) /\ r \in Seq(Messages)
  OBVIOUS
<1>2. Len(l) = Len(r) /\ Len(l) = Len(s) + Len(q) + 1
  OBVIOUS
<1>3. ASSUME NEW i \in 1..Len(l) PROVE l[i] = r[i]
  BY <1>2
<1> QED
  BY <1>1, <1>2, <1>3, SeqEqual

LEMMA PopAtFront ==
  ASSUME NEW s \in Seq(Messages), NEW q \in Seq(Messages), q # << >>
  PROVE  /\ s \o q = Append(s, Head(q)) \o Tail(q)
         /\ Head(q) = (s \o q)[Len(s) + 1]
         /\ Len(s) < Len(s \o q)
         /\ Head(q) \in Messages
         /\ Tail(q) \in Seq(Messages)
<1> DEFINE l == s \o q
           r == Append(s, Head(q)) \o Tail(q)
<1>0. Len(q) > 0 /\ Head(q) = q[1] /\ Head(q) \in Messages
      /\ Tail(q) \in Seq(Messages) /\ Len(Tail(q)) = Len(q) - 1
  BY EmptySeq
<1>1. l \in Seq(Messages) /\ r \in Seq(Messages)
  BY <1>0
<1>2. Len(l) = Len(r) /\ Len(l) = Len(s) + Len(q)
  BY <1>0
<1>3. ASSUME NEW i \in 1..Len(l) PROVE l[i] = r[i]
  <2>1. CASE i \in 1..Len(s)
    BY <2>1, <1>0
  <2>2. CASE i = Len(s) + 1
    BY <2>2, <1>0
  <2>3. CASE i > Len(s) + 1
    BY <2>3, <1>0, <1>2
  <2> QED
    BY <2>1, <2>2, <2>3, <1>2
<1>4. l[Len(s) + 1] = Head(q)
  BY <1>0
<1> HIDE DEF l, r
<1>5. l = r
  BY <1>1, <1>2, <1>3, SeqEqual
<1> QED
  BY <1>0, <1>2, <1>4, <1>5 DEF l, r

-----------------------------------------------------------------------------
LEMMA InvInit == Init => Inv
<1> SUFFICES ASSUME Init PROVE Inv
  OBVIOUS
<1>1. << >> \in Seq(Messages) /\ << >> = << >> \o << >>
  OBVIOUS
<1> QED
  BY <1>1 DEF Init, Inv, TypeOK, WorkerKnows, NoLostWakeup, Order, Working, InHandler

(* Every pop, in whichever of the three places, moves the front.           *)
LEMMA PopKeeps ==
  ASSUME Inv, Pop, queue # << >>
  PROVE  /\ queue' \in Seq(Messages) /\ served' \in Seq(Messages)
         /\ Order'
         /\ Box!Serve
<1>1. /\ posted = Append(served, Head(queue)) \o Tail(queue)
      /\ Head(queue) = posted[Len(served) + 1]
      /\ Len(served) < Len(posted)
      /\ Head(queue) \in Messages
      /\ Tail(queue) \in Seq(Messages)
  BY PopAtFront DEF Inv, TypeOK, Order
<1>2. queue' = Tail(queue) /\ served' = Append(served, Head(queue)) /\ posted' = posted
  BY DEF Pop, Popped
<1>3. served' \in Seq(Messages)
  BY <1>1, <1>2 DEF Inv, TypeOK
<1> QED
  BY <1>1, <1>2, <1>3 DEF Order, Box!Serve

LEMMA InvStep == Inv /\ [Next]_vars => Inv'
<1> SUFFICES ASSUME Inv, [Next]_vars PROVE Inv'
  OBVIOUS
<1> USE DEF Inv
<1>1. CASE UNCHANGED vars
  BY <1>1 DEF vars, TypeOK, WorkerKnows, NoLostWakeup, Order
<1>2. ASSUME NEW p \in Posters, NEW m \in Messages, Post(p, m) PROVE Inv'
  <2>1. /\ queue' = Append(queue, m) /\ posted' = Append(posted, m) /\ served' = served
        /\ worker' = worker /\ worker \notin Working
    BY <1>2 DEF Post, Pushed, MutexFree, Alive
  <2>2. TypeOK'
    BY <1>2, <2>1 DEF Post, TypeOK
  <2>3. WorkerKnows'
    BY <2>1 DEF WorkerKnows, Working, InHandler
  <2>4. NoLostWakeup'
    <3>1. poster' = [poster EXCEPT ![p] = IF Len(queue') = 1 THEN "notify" ELSE "idle"]
          /\ poster[p] = "idle"
      BY <1>2 DEF Post, NotifyDue
    <3>2. CASE queue = << >>
      <4>1. Len(queue') = 1
        BY <2>1, <3>2
      <4> QED
        BY <3>1, <4>1 DEF NoLostWakeup, TypeOK
    <3>3. CASE queue # << >>
      BY <3>1, <3>3, <2>1 DEF NoLostWakeup, TypeOK
    <3> QED
      BY <3>2, <3>3
  <2>5. Order'
    BY <2>1, PushAtEnd DEF TypeOK, Order
  <2> QED
    BY <2>2, <2>3, <2>4, <2>5
<1>3. ASSUME NEW p \in Posters, Notify(p) PROVE Inv'
  <2>1. TypeOK' /\ WorkerKnows' /\ Order'
    BY <1>3 DEF Notify, Wake, TypeOK, WorkerKnows, Order, Working, InHandler
  <2>2. worker' # "asleep"
    BY <1>3 DEF Notify, Wake
  <2> QED
    BY <2>1, <2>2 DEF NoLostWakeup
<1>4. CASE Lock \/ TestSaysWait \/ SpuriousWakeup \/ CallHandler \/ SeeStop \/ HandlerThrows
  BY <1>4 DEF Lock, TestSaysWait, SpuriousWakeup, CallHandler, SeeStop, HandlerThrows,
              TypeOK, WorkerKnows, NoLostWakeup, Order, Working, InHandler
<1>5. CASE Sleep
  BY <1>5 DEF Sleep, TypeOK, WorkerKnows, NoLostWakeup, Order, Working, InHandler
<1>6. CASE HandlerReturns \/ NoHandler
  <2>1. Pop /\ queue # << >> /\ worker' \in {"lock", "drain"}
    BY <1>6 DEF HandlerReturns, NoHandler, WorkerKnows
  <2> QED
    BY <2>1, PopKeeps DEF Pop, TypeOK, WorkerKnows, NoLostWakeup, Working, InHandler
<1>7. CASE Drain
  <2>1. CASE queue # << >> /\ Pop /\ worker' = worker /\ worker = "drain"
    BY <2>1, PopKeeps DEF Pop, TypeOK, WorkerKnows, NoLostWakeup, Working, InHandler
  <2>2. CASE /\ queue # << >> /\ worker' = "finish"
             /\ UNCHANGED <<queue, poster, stop, destructor, posted, served>>
    BY <2>2 DEF TypeOK, WorkerKnows, NoLostWakeup, Order, Working, InHandler
  <2>3. CASE worker' = "done" /\ UNCHANGED <<queue, poster, stop, destructor, posted, served>>
    BY <2>3 DEF TypeOK, WorkerKnows, NoLostWakeup, Order, Working, InHandler
  <2> QED
    BY <1>7, <2>1, <2>2, <2>3 DEF Drain
<1>8. CASE SetStop \/ NotifyStop \/ Joined
  BY <1>8 DEF SetStop, NotifyStop, Joined, Wake,
              TypeOK, WorkerKnows, NoLostWakeup, Order, Working, InHandler
<1> QED
  BY <1>1, <1>2, <1>3, <1>4, <1>5, <1>6, <1>7, <1>8 DEF Next, WorkerStep

-----------------------------------------------------------------------------
(* The types of all variables hold in every reachable state.               *)
THEOREM QueueTypeCorrect == Spec => []TypeOK
<1>1. Spec => []Inv
  BY InvInit, InvStep, PTL DEF Spec
<1>2. Inv => TypeOK
  BY DEF Inv
<1> QED
  BY <1>1, <1>2, PTL

(* The worker never sleeps on a message that nobody will wake it for.      *)
THEOREM NoWakeupIsLost == Spec => []NoLostWakeup
<1>1. Spec => []Inv
  BY InvInit, InvStep, PTL DEF Spec
<1>2. Inv => NoLostWakeup
  BY DEF Inv
<1> QED
  BY <1>1, <1>2, PTL

(* What was served is what was posted, in that order, up to the messages   *)
(* still in the queue.                                                     *)
THEOREM ServedInOrder == Spec => []Order
<1>1. Spec => []Inv
  BY InvInit, InvStep, PTL DEF Spec
<1>2. Inv => Order
  BY DEF Inv
<1> QED
  BY <1>1, <1>2, PTL

(* The queue and its worker implement the mailbox: a post is a send, a pop *)
(* is a serve, everything else is invisible.                               *)
THEOREM QueueRefinement == Spec => RefinesMailbox
<1>1. Init => Box!Init
  BY DEF Init, Box!Init
<1>2. Inv /\ [Next]_vars => [Box!Next]_<<posted, served>>
  <2> SUFFICES ASSUME Inv, [Next]_vars PROVE [Box!Next]_<<posted, served>>
    OBVIOUS
  <2>1. CASE UNCHANGED vars
    BY <2>1 DEF vars
  <2>2. ASSUME NEW p \in Posters, NEW m \in Messages, Post(p, m)
        PROVE  [Box!Next]_<<posted, served>>
    BY <2>2 DEF Post, Box!Next, Box!Send
  <2>3. CASE HandlerReturns \/ NoHandler \/ (Drain /\ Pop /\ queue # << >>)
    <3>1. Pop /\ queue # << >>
      BY <2>3 DEF HandlerReturns, NoHandler, Drain, WorkerKnows, Inv
    <3> QED
      BY <3>1, PopKeeps DEF Box!Next
  <2>4. CASE Drain /\ ~(Pop /\ queue # << >>)
    BY <2>4 DEF Drain
  <2>5. CASE \/ Lock \/ TestSaysWait \/ Sleep \/ SpuriousWakeup \/ CallHandler \/ SeeStop
             \/ HandlerThrows \/ SetStop \/ NotifyStop \/ Joined
             \/ \E p \in Posters : Notify(p)
    BY <2>5 DEF Lock, TestSaysWait, Sleep, SpuriousWakeup, CallHandler, SeeStop,
                HandlerThrows, SetStop, NotifyStop, Joined, Notify
  <2> QED
    BY <2>1, <2>2, <2>3, <2>4, <2>5 DEF Next, WorkerStep
<1> QED
  BY <1>1, <1>2, InvInit, InvStep, PTL DEF Spec, RefinesMailbox, Box!Spec

-----------------------------------------------------------------------------
(* The worker returns only from the loop that drains, and leaves nothing   *)
(* behind: all that was posted has been served by then (DealMessage).      *)
WorkerLeavesNothing == [][worker # "done" /\ worker' = "done" => served' = posted']_vars

(* LogicSystem::DealMessage returns with everything posted served.         *)
THEOREM WorkerServesAll == Spec => WorkerLeavesNothing
<1>1. ASSUME Inv, [Next]_vars, worker # "done", worker' = "done" PROVE served' = posted'
  <2>1. CASE Drain
    <3>1. queue = << >> /\ served' = served /\ posted' = posted
      BY <1>1, <2>1 DEF Drain
    <3>2. served \in Seq(Messages) /\ posted = served \o << >>
      BY <1>1, <3>1 DEF Inv, TypeOK, Order
    <3> QED
      BY <3>1, <3>2
  <2>2. CASE ~Drain
    BY <1>1, <2>2 DEF Next, WorkerStep, vars, Lock, TestSaysWait, Sleep, SpuriousWakeup,
         CallHandler, HandlerReturns, HandlerThrows, NoHandler, SeeStop, SetStop, NotifyStop, Joined,
         Notify, Post, Wake
  <2> QED
    BY <2>1, <2>2
<1>2. Inv /\ [Next]_vars => [worker # "done" /\ worker' = "done" => served' = posted']_vars
  BY <1>1
<1> QED
  BY <1>2, InvInit, InvStep, PTL DEF Spec, WorkerLeavesNothing
=============================================================================
