------------------------- MODULE HttpConnectionProofs -------------------------
(***************************************************************************)
(* Type correctness of the HTTP front end, that a request which has an     *)
(* answer is answered unless its client left or its time was over, that    *)
(* none is forgotten, and that a shutdown waits for the calls that run,    *)
(* for any number of connections and io_contexts.                          *)
(***************************************************************************)
EXTENDS HttpConnection, TLAPS

Answerable == {"known", "unknown"}

(* What one object is like in every state: its write starts when it is     *)
(* handled, only an early client or a late server makes it fail, and a     *)
(* deadline watches it while it runs.                                      *)
Sound(r) ==
    /\ r.phase # "handled" => r.write = "none" /\ r.wait = "off"
    /\ r.phase = "handled" /\ r.request \in Answerable => r.write # "none"
    /\ r.write \in {"failed", "cut"} => r.late \/ ~r.client
    /\ r.wait = "due" => r.late
    /\ r.wait = "armed" => ~r.late
    /\ r.phase = "handled" => r.wait # "off"
    /\ r.write = "busy" => r.wait # "done"

IInv ==
    /\ TypeOK
    /\ \A c \in Conns : Sound(con[c])
    /\ ~stopping => con[accepting].phase = "accepting"

(* What the property says of one object and what becomes of it.            *)
Kept(r, s) ==
    r.phase \in {"request", "calling", "handled"} /\ r.request \in Answerable
    /\ s.phase = "free"
    => \/ r.write \in {"sent", "answered"}
       \/ r.write \in {"failed", "cut"} /\ (r.late \/ ~r.client)

-----------------------------------------------------------------------------
(* The objects                                                             *)

LEMMA FreeSound == Free \in ConState /\ Sound(Free)
  BY GateAssumption DEF Free, ConState, Sound, Answerable, Pool, Requests

LEMMA NewSound ==
    ASSUME NEW i \in Pool
    PROVE  New(i) \in ConState /\ Sound(New(i)) /\ New(i).phase = "accepting"
  BY GateAssumption DEF New, Free, ConState, Sound, Answerable, Pool, Requests

LEMMA FollowingInPool == ASSUME NEW i \in Pool PROVE Following(i) \in Pool
  BY GateAssumption DEF Following, Pool

LEMMA SettledSound ==
    ASSUME NEW r \in ConState, Sound(r)
    PROVE  Settled(r) \in ConState /\ Sound(Settled(r))
  BY FreeSound DEF Settled

LEMMA RespondSound ==
    ASSUME NEW r \in ConState, Sound(r)
    PROVE  Respond(r) \in ConState /\ Sound(Respond(r)) /\ Settled(Respond(r)).phase # "free"
  BY DEF Respond, CheckDeadline, ConState, Sound, Answerable, Settled

LEMMA CheckDeadlineSound ==
    ASSUME NEW r \in ConState, Sound(r), r.request \notin Answerable
    PROVE  CheckDeadline(r) \in ConState /\ Sound(CheckDeadline(r))
  BY DEF CheckDeadline, ConState, Sound, Answerable

(* The state of one place changes and stays sound.                         *)
LEMMA SetSound ==
    ASSUME IInv, NEW c \in Conns, NEW r \in ConState, Sound(r),
           con' = [con EXCEPT ![c] = r]
    PROVE  /\ con' \in [Conns -> ConState] /\ \A d \in Conns : Sound(con'[d])
           /\ Kept(con[c], r) => \A d \in Conns : Kept(con[d], con'[d])
<1>1. con \in [Conns -> ConState] /\ \A d \in Conns : Sound(con[d])
  BY DEF IInv, TypeOK
<1>2. con'[c] = r /\ \A d \in Conns \ {c} : con'[d] = con[d]
  BY <1>1
<1>3. \A d \in Conns : con[d].phase = "free" => Kept(con[d], con[d])
  BY DEF Kept
<1>4. \A d \in Conns : con[d].phase # "free" => Kept(con[d], con[d])
  BY DEF Kept
<1> QED
  BY <1>1, <1>2, <1>3, <1>4

-----------------------------------------------------------------------------
(* One step                                                                *)

Keeps == stopping' \/ \A c \in Conns : Kept(con[c], con'[c])

(* A step of a connection that leaves all but con alone.                   *)
LEMMA OneChange ==
    ASSUME IInv, NEW c \in Conns, NEW r \in ConState, Sound(r), Kept(con[c], r),
           con[c].phase = "accepting" => r.phase = "accepting",
           con' = [con EXCEPT ![c] = r], Elsewhere
    PROVE  IInv' /\ Keeps
<1>1. con' \in [Conns -> ConState] /\ \A d \in Conns : Sound(con'[d])
  BY SetSound
<1>2. \A d \in Conns : Kept(con[d], con'[d])
  BY SetSound
<1>3. \A d \in Conns : con'[d] = IF d = c THEN r ELSE con[d]
  BY DEF IInv, TypeOK
<1> QED
  BY <1>1, <1>2, <1>3 DEF IInv, TypeOK, Elsewhere, Keeps

LEMMA InitInv == Init => IInv
<1> SUFFICES ASSUME Init PROVE IInv
  OBVIOUS
<1>1. 0 \in Pool
  BY GateAssumption DEF Pool
<1>2. accepting \in Conns
  BY GateAssumption DEF Init
<1> QED
  BY <1>1, <1>2, FreeSound, NewSound, FollowingInPool DEF Init, IInv, TypeOK

LEMMA AcceptInv == ASSUME IInv, NEW c \in Conns, Accept(c) PROVE IInv' /\ Keeps
<1> DEFINE r == [con[c] EXCEPT !.phase = "reading"]
           n == New(nextIOContext)
<1>0. nextIOContext \in Pool /\ con[c] \in ConState /\ Sound(con[c])
  BY DEF IInv, TypeOK
<1>1. PICK d \in Conns : d = accepting' /\ con[d].phase = "free"
  BY DEF Accept, Vacant
<1>2. con' = [con EXCEPT ![c].phase = "reading", ![d] = n]
  BY <1>1 DEF Accept
<1>3. \A e \in Conns : con'[e] = IF e = d THEN n ELSE IF e = c THEN r ELSE con[e]
  BY <1>2 DEF IInv, TypeOK
<1>4. con' = [e \in Conns |-> IF e = d THEN n ELSE IF e = c THEN r ELSE con[e]]
  BY <1>2 DEF IInv, TypeOK
<1>5. con[c].phase = "accepting"
  BY DEF Accept, IInv
<1>6. r \in ConState /\ Sound(r)
  BY <1>0, <1>5 DEF ConState, Sound
<1>7. n \in ConState /\ Sound(n) /\ n.phase = "accepting"
  BY <1>0, NewSound
<1>8. con' \in [Conns -> ConState] /\ \A e \in Conns : Sound(con'[e])
  BY <1>3, <1>4, <1>6, <1>7 DEF IInv, TypeOK
<1>9. \A e \in Conns : con'[e].phase = "free" => con[e].phase = "free"
  BY <1>0, <1>3, <1>7 DEF ConState
<1>10. nextIOContext' \in Pool
  BY <1>0, FollowingInPool DEF Accept
<1>11. con'[accepting'].phase = "accepting"
  BY <1>1, <1>3, <1>7
<1>12. Keeps
  BY <1>9 DEF Keeps, Kept
<1> QED
  BY <1>1, <1>8, <1>10, <1>11, <1>12 DEF IInv, TypeOK, Accept

LEMMA AcceptFailsInv == ASSUME IInv, NEW c \in Conns, AcceptFails(c) PROVE IInv' /\ Keeps
<1> DEFINE n == New(nextIOContext)
<1>1. n \in ConState /\ Sound(n) /\ n.phase = "accepting" /\ Settled(n) = n
  BY NewSound DEF IInv, TypeOK, Settled, New, Free
<1>2. con' = [con EXCEPT ![c] = n]
  BY <1>1 DEF AcceptFails, Set
<1>3. con' \in [Conns -> ConState] /\ \A d \in Conns : Sound(con'[d])
  BY <1>1, <1>2, SetSound
<1>4. Keeps
  BY <1>1, <1>2, SetSound DEF Keeps, Kept
<1>5. con'[c] = n
  BY <1>2 DEF IInv, TypeOK
<1>6. nextIOContext' \in Pool
  BY FollowingInPool DEF AcceptFails, IInv, TypeOK
<1> QED
  BY <1>1, <1>3, <1>4, <1>5, <1>6 DEF IInv, TypeOK, AcceptFails

LEMMA SignalInv == ASSUME IInv, Signal PROVE IInv' /\ Keeps
<1>1. con' \in [Conns -> ConState] /\ \A c \in Conns : Sound(con'[c])
  BY FreeSound DEF Signal, IInv, TypeOK
<1> QED
  BY <1>1 DEF Signal, IInv, TypeOK, Keeps

LEMMA ThreadEndsInv == ASSUME IInv, NEW i \in Pool, ThreadEnds(i) PROVE IInv' /\ Keeps
  BY DEF IInv, TypeOK, ThreadEnds, Keeps

LEMMA SendRequestInv ==
    ASSUME IInv, NEW c \in Conns, NEW k \in Requests, SendRequest(c, k)
    PROVE  IInv' /\ Keeps
<1> DEFINE r == [con[c] EXCEPT !.phase = "request", !.request = k]
<1>1. con[c] \in ConState /\ Sound(con[c])
  BY DEF IInv, TypeOK
<1>2. con[c].phase = "reading" /\ con' = [con EXCEPT ![c] = r] /\ Elsewhere
  BY DEF SendRequest, IInv, TypeOK
<1>3. r \in ConState /\ Sound(r) /\ Kept(con[c], r)
  BY <1>1, <1>2 DEF ConState, Sound, Kept, Answerable
<1> QED
  BY <1>2, <1>3, OneChange

LEMMA TakeResponseInv ==
    ASSUME IInv, NEW c \in Conns, TakeResponse(c) PROVE IInv' /\ Keeps
<1> DEFINE r == [con[c] EXCEPT !.write = "sent"]
<1>1. con[c] \in ConState /\ Sound(con[c])
  BY DEF IInv, TypeOK
<1>2. /\ con[c].phase \notin {"free", "accepting"} /\ con[c].write = "busy"
      /\ con' = [con EXCEPT ![c] = r] /\ Elsewhere
  BY DEF TakeResponse, Connected, IInv, TypeOK
<1>3. r \in ConState /\ Sound(r) /\ Kept(con[c], r)
  BY <1>1, <1>2 DEF ConState, Sound, Kept, Answerable
<1> QED
  BY <1>2, <1>3, OneChange

LEMMA LeaveClientInv ==
    ASSUME IInv, NEW c \in Conns, LeaveClient(c) PROVE IInv' /\ Keeps
<1> DEFINE r == [con[c] EXCEPT !.client = FALSE,
                               !.write = IF @ = "busy" THEN "failed" ELSE @]
<1>1. con[c] \in ConState /\ Sound(con[c])
  BY DEF IInv, TypeOK
<1>2. /\ con[c].phase \notin {"free", "accepting"}
      /\ con' = [con EXCEPT ![c] = r] /\ Elsewhere
  BY DEF LeaveClient, Connected, IInv, TypeOK
<1>3. r \in ConState /\ Sound(r) /\ Kept(con[c], r)
  BY <1>1, <1>2 DEF ConState, Sound, Kept, Answerable
<1> QED
  BY <1>2, <1>3, OneChange

LEMMA DeadlinePassesInv ==
    ASSUME IInv, NEW c \in Conns, DeadlinePasses(c) PROVE IInv' /\ Keeps
<1> DEFINE r == [con[c] EXCEPT !.late = TRUE,
                               !.wait = IF @ = "armed" THEN "due" ELSE @]
<1>1. con[c] \in ConState /\ Sound(con[c])
  BY DEF IInv, TypeOK
<1>2. con[c].phase # "free" /\ con' = [con EXCEPT ![c] = r] /\ Elsewhere
  BY DEF DeadlinePasses, IInv, TypeOK
<1>3. r \in ConState /\ Sound(r) /\ Kept(con[c], r) /\ r.phase = con[c].phase
  BY <1>1, <1>2 DEF ConState, Sound, Kept, Answerable
<1> QED
  BY <1>2, <1>3, OneChange

LEMMA ReadFailsInv ==
    ASSUME IInv, NEW c \in Conns, ReadFails(c) \/ ReadRejected(c) PROVE IInv' /\ Keeps
<1>1. con[c].phase = "reading" /\ con' = [con EXCEPT ![c] = Free] /\ Elsewhere
  BY DEF ReadFails, ReadRejected
<1>2. Kept(con[c], Free)
  BY <1>1 DEF Kept
<1> QED
  BY <1>1, <1>2, FreeSound, OneChange

LEMMA HandleRequestInv ==
    ASSUME IInv, NEW c \in Conns, HandleRequest(c) PROVE IInv' /\ Keeps
<1>0. con[c].phase = "request" /\ con[c] \in ConState /\ Sound(con[c])
  BY DEF HandleRequest, IInv, TypeOK
<1>1. CASE HandleUnknown(c)
  <2>1. con' = [con EXCEPT ![c] = Settled(Respond(con[c]))] /\ Elsewhere
    BY <1>1 DEF HandleUnknown, Set
  <2>2. /\ Settled(Respond(con[c])) \in ConState /\ Sound(Settled(Respond(con[c])))
        /\ Settled(Respond(con[c])).phase # "free"
    BY <1>0, RespondSound, SettledSound
  <2>3. Kept(con[c], Settled(Respond(con[c])))
    BY <2>2 DEF Kept
  <2> QED
    BY <1>0, <2>1, <2>2, <2>3, OneChange
<1>2. CASE HandleKnown(c)
  <2> DEFINE r == [con[c] EXCEPT !.phase = "calling"]
  <2>1. con' = [con EXCEPT ![c] = r]
    BY <1>2 DEF HandleKnown, IInv, TypeOK
  <2>2. r \in ConState /\ Sound(r) /\ Kept(con[c], r)
    BY <1>0 DEF ConState, Sound, Kept
  <2>3. con' \in [Conns -> ConState] /\ \A d \in Conns : Sound(con'[d])
    BY <2>1, <2>2, SetSound
  <2>4. Keeps
    BY <2>1, <2>2, SetSound DEF Keeps
  <2>5. ~stopping => con'[accepting].phase = "accepting"
    BY <1>0, <2>1 DEF IInv, TypeOK
  <2>6. busy' \in [Pool -> Conns \cup {None}]
    BY <1>2 DEF HandleKnown, IInv, TypeOK
  <2> QED
    BY <1>2, <2>3, <2>4, <2>5, <2>6 DEF HandleKnown, IInv, TypeOK
<1>3. CASE HandleMethod(c)
  <2>1. con' = [con EXCEPT ![c] = Settled(CheckDeadline(con[c]))] /\ Elsewhere
    BY <1>3 DEF HandleMethod, Set
  <2>2. con[c].request \notin Answerable
    BY <1>3 DEF HandleMethod, Answerable
  <2>3. /\ Settled(CheckDeadline(con[c])) \in ConState
        /\ Sound(Settled(CheckDeadline(con[c])))
    BY <1>0, <2>2, CheckDeadlineSound, SettledSound
  <2>4. Kept(con[c], Settled(CheckDeadline(con[c])))
    BY <2>2 DEF Kept
  <2> QED
    BY <1>0, <2>1, <2>3, <2>4, OneChange
<1>4. CASE HandleFields(c)
  <2>1. con' = [con EXCEPT ![c] = Free] /\ Elsewhere /\ con[c].request \notin Answerable
    BY <1>4 DEF HandleFields, Answerable
  <2>2. Kept(con[c], Free)
    BY <2>1 DEF Kept
  <2> QED
    BY <1>0, <2>1, <2>2, FreeSound, OneChange
<1> QED
  BY <1>1, <1>2, <1>3, <1>4 DEF HandleRequest

LEMMA CallReturnsInv ==
    ASSUME IInv, NEW c \in Conns, CallReturns(c) PROVE IInv' /\ Keeps
<1> DEFINE r == Settled(IF stopping THEN Free ELSE Respond(con[c]))
<1>1. con[c].phase = "calling" /\ con[c] \in ConState /\ Sound(con[c])
  BY DEF CallReturns, IInv, TypeOK
<1>2. con' = [con EXCEPT ![c] = r]
  BY DEF CallReturns, Set
<1>3. r \in ConState /\ Sound(r) /\ (~stopping => r.phase # "free")
  BY <1>1, FreeSound, RespondSound, SettledSound
<1>4. con' \in [Conns -> ConState] /\ \A d \in Conns : Sound(con'[d])
  BY <1>2, <1>3, SetSound
<1>5. CASE stopping
  BY <1>4, <1>5 DEF CallReturns, IInv, TypeOK, Keeps
<1>6. CASE ~stopping
  <2>1. Kept(con[c], r)
    BY <1>3, <1>6 DEF Kept
  <2>2. Keeps
    BY <1>2, <1>3, <2>1, SetSound DEF Keeps
  <2>3. con'[accepting].phase = "accepting"
    BY <1>1, <1>2, <1>6 DEF IInv, TypeOK
  <2> QED
    BY <1>4, <2>2, <2>3 DEF CallReturns, IInv, TypeOK
<1> QED
  BY <1>5, <1>6

LEMMA WriteEndsInv == ASSUME IInv, NEW c \in Conns, WriteEnds(c) PROVE IInv' /\ Keeps
<1> DEFINE r == [con[c] EXCEPT !.write = IF @ = "sent" THEN "answered" ELSE "cut",
                               !.wait = IF @ = "armed" THEN "done" ELSE @]
<1>1. /\ con[c].write \in {"sent", "failed"} /\ con[c] \in ConState /\ Sound(con[c])
      /\ con' = [con EXCEPT ![c] = Settled(r)] /\ Elsewhere
  BY DEF WriteEnds, Set, IInv, TypeOK
<1>2. con[c].phase = "handled"
  BY <1>1 DEF Sound
<1>3. r \in ConState /\ Sound(r)
  BY <1>1, <1>2 DEF ConState, Sound, Answerable
<1>4. Kept(con[c], Settled(r))
  BY <1>1 DEF Kept, Sound
<1> QED
  BY <1>1, <1>2, <1>3, <1>4, SettledSound, OneChange

LEMMA DeadlineReachedInv ==
    ASSUME IInv, NEW c \in Conns, DeadlineReached(c) PROVE IInv' /\ Keeps
<1> DEFINE r == [con[c] EXCEPT !.wait = "done",
                               !.write = IF @ = "busy" THEN "failed" ELSE @]
<1>1. /\ con[c].wait = "due" /\ con[c] \in ConState /\ Sound(con[c])
      /\ con' = [con EXCEPT ![c] = Settled(r)] /\ Elsewhere
  BY DEF DeadlineReached, Set, IInv, TypeOK
<1>2. con[c].phase = "handled" /\ con[c].late
  BY <1>1 DEF Sound
<1>3. r \in ConState /\ Sound(r)
  BY <1>1, <1>2 DEF ConState, Sound, Answerable
<1>4. Kept(con[c], Settled(r))
  <2> SUFFICES ASSUME Settled(r).phase = "free", con[c].request \in Answerable
               PROVE  con[c].write \in {"sent", "answered", "failed", "cut"}
    BY <1>2 DEF Kept
  <2>1. r.phase = "handled"
    BY <1>1, <1>2 DEF ConState
  <2>2. r.write \in {"none", "answered", "cut"}
    BY <2>1 DEF Settled
  <2>3. con[c].write # "busy"
    BY <1>1, <2>2 DEF ConState
  <2> QED
    BY <1>1, <1>2, <2>3 DEF ConState, Sound
<1> QED
  BY <1>1, <1>2, <1>3, <1>4, SettledSound, OneChange

LEMMA StutterInv == ASSUME IInv, UNCHANGED vars PROVE IInv' /\ Keeps
<1>1. \A c \in Conns : Kept(con[c], con'[c])
  BY DEF vars, Kept
<1> QED
  BY <1>1 DEF vars, IInv, TypeOK, Keeps

LEMMA StepInv == IInv /\ [Next]_vars => IInv' /\ Keeps
<1> SUFFICES ASSUME IInv, [Next]_vars PROVE IInv' /\ Keeps
  OBVIOUS
<1>1. CASE Signal
  BY <1>1, SignalInv
<1>2. ASSUME NEW i \in Pool, ThreadEnds(i) PROVE IInv' /\ Keeps
  BY <1>2, ThreadEndsInv
<1>3. ASSUME NEW c \in Conns, Accept(c) \/ AcceptFails(c) PROVE IInv' /\ Keeps
  BY <1>3, AcceptInv, AcceptFailsInv
<1>4. ASSUME NEW c \in Conns, NEW k \in Requests, SendRequest(c, k)
      PROVE  IInv' /\ Keeps
  BY <1>4, SendRequestInv
<1>5. ASSUME NEW c \in Conns, TakeResponse(c) \/ LeaveClient(c) \/ DeadlinePasses(c)
      PROVE  IInv' /\ Keeps
  BY <1>5, TakeResponseInv, LeaveClientInv, DeadlinePassesInv
<1>6. ASSUME NEW c \in Conns, RunHandler(c) PROVE IInv' /\ Keeps
  BY <1>6, ReadFailsInv, HandleRequestInv, WriteEndsInv, DeadlineReachedInv DEF RunHandler
<1>7. ASSUME NEW c \in Conns, ReadRejected(c) \/ CallReturns(c) PROVE IInv' /\ Keeps
  BY <1>7, ReadFailsInv, CallReturnsInv
<1>8. CASE UNCHANGED vars
  BY <1>8, StutterInv
<1> QED
  BY <1>1, <1>2, <1>3, <1>4, <1>5, <1>6, <1>7, <1>8 DEF Next

LEMMA InvHolds == Spec => []IInv
<1>1. Init => IInv
  BY InitInv
<1>2. IInv /\ [Next]_vars => IInv'
  BY StepInv
<1> QED
  BY <1>1, <1>2, PTL DEF Spec

-----------------------------------------------------------------------------
(* The variables have the values the model gives them, and the index of    *)
(* the next io_context stays in the pool (IOContextPool::getIOContext).    *)
THEOREM TypeCorrect == Spec => []TypeOK
<1>1. IInv => TypeOK
  BY DEF IInv
<1> QED
  BY <1>1, InvHolds, PTL

(* A request that has an answer is dropped without one only for the sake   *)
(* of a client that left or of a deadline that passed, whatever the order  *)
(* in which the handlers of the write and of the timer run                 *)
(* (HttpConnection::WriteResponse, CheckDeadline).                         *)
THEOREM RequestsAnswered == Spec => AnsweredOrCut
<1>1. IInv /\ [Next]_vars =>
        [\A c \in Conns :
            /\ con[c].phase \in {"request", "calling", "handled"}
            /\ con[c].request \in {"known", "unknown"}
            /\ con'[c].phase = "free" /\ ~stopping'
            => \/ con[c].write \in {"sent", "answered"}
               \/ con[c].write \in {"failed", "cut"} /\ (con[c].late \/ ~con[c].client)]_vars
  BY StepInv DEF Keeps, Kept, Answerable
<1> QED
  BY <1>1, InvHolds, PTL DEF Spec, AnsweredOrCut

(* The server always has an object to accept the next connection with,     *)
(* after an accept, a failed one, and whatever the connections do          *)
(* (CServer::Start).                                                       *)
THEOREM AlwaysAccepting == Spec => [](~stopping => con[accepting].phase = "accepting")
<1>1. IInv => (~stopping => con[accepting].phase = "accepting")
  BY DEF IInv
<1> QED
  BY <1>1, InvHolds, PTL

-----------------------------------------------------------------------------
(* Calls, contexts and the shutdown                                        *)

(* An object no handler refers to any more is gone.                        *)
Lasts(r) == ~(r.wait = "done" /\ r.write \in {"none", "answered", "cut"})

(* A context is in the call of one connection at most, and its own.        *)
CallsOK ==
    /\ \A c \in Conns : con[c].phase = "calling" => busy[con[c].at] = c
    /\ \A i \in Pool : busy[i] # None => con[busy[i]].phase = "calling" /\ con[busy[i]].at = i

(* After the signal only the calls that were running go on.                *)
StopOK ==
    /\ stopping => \A c \in Conns : con[c].phase \in {"free", "calling"}
    /\ ended # {} => stopping
    /\ \A i \in ended, c \in Conns : con[c].phase = "free" \/ con[c].at # i

CInv == CallsOK /\ StopOK /\ \A c \in Conns : Lasts(con[c])

LEMMA SettledLasts == \A r : Lasts(Settled(r))
  BY DEF Settled, Lasts, Free

(* A step of a connection that begins and ends no call.                    *)
LEMMA OneChangeC ==
    ASSUME IInv, CInv, NEW c \in Conns, NEW r, Lasts(r),
           con' = [con EXCEPT ![c] = r], Elsewhere,
           \/ r.phase = con[c].phase /\ r.at = con[c].at
           \/ ~stopping /\ con[c].phase # "calling" /\ r.phase # "calling"
    PROVE  CInv'
<1>1. con'[c] = r /\ \A d \in Conns \ {c} : con'[d] = con[d]
  BY DEF IInv, TypeOK
<1>2. \A d \in Conns : \/ con'[d].phase = con[d].phase /\ con'[d].at = con[d].at
                       \/ ~stopping /\ con[d].phase # "calling" /\ con'[d].phase # "calling"
  BY <1>1
<1>3. /\ busy' = busy /\ stopping' = stopping /\ ended' = ended
  BY DEF Elsewhere
<1>4. CallsOK'
  <2>1. ASSUME NEW d \in Conns, con'[d].phase = "calling" PROVE busy'[con'[d].at] = d
    BY <1>2, <1>3, <2>1 DEF CInv, CallsOK
  <2>2. ASSUME NEW i \in Pool, busy'[i] # None
        PROVE  con'[busy'[i]].phase = "calling" /\ con'[busy'[i]].at = i
    <3>1. busy[i] \in Conns /\ con[busy[i]].phase = "calling" /\ con[busy[i]].at = i
      BY <1>3, <2>2 DEF CInv, CallsOK, IInv, TypeOK
    <3> QED
      BY <1>2, <1>3, <3>1
  <2> QED
    BY <2>1, <2>2 DEF CallsOK
<1>5. StopOK'
  <2>1. CASE stopping
    BY <1>2, <1>3, <2>1 DEF CInv, StopOK
  <2>2. CASE ~stopping
    <3>1. ended = {}
      BY <2>2 DEF CInv, StopOK
    <3> QED
      BY <1>3, <2>2, <3>1 DEF StopOK
  <2> QED
    BY <2>1, <2>2
<1>6. \A d \in Conns : Lasts(con'[d])
  BY <1>1 DEF CInv
<1> QED
  BY <1>4, <1>5, <1>6 DEF CInv

LEMMA InitC == Init => CInv
<1> SUFFICES ASSUME Init PROVE CInv
  OBVIOUS
<1>1. \A c \in Conns : con[c].phase \in {"free", "accepting"} /\ Lasts(con[c])
  BY DEF Init, New, Free, Lasts
<1>2. /\ stopping = FALSE /\ ended = {} /\ \A i \in Pool : busy[i] = None
  BY DEF Init
<1> QED
  BY <1>1, <1>2 DEF CInv, CallsOK, StopOK

(* An accept uses two places, none of which is in a call.                  *)
LEMMA AcceptC ==
    ASSUME IInv, CInv, NEW c \in Conns, Accept(c) \/ AcceptFails(c) PROVE CInv'
<1>1. /\ ~stopping /\ stopping' = stopping /\ ended' = ended /\ busy' = busy
      /\ con[c].phase = "accepting"
  BY DEF Accept, AcceptFails, IInv
<1>2. ended = {}
  BY <1>1 DEF CInv, StopOK
<1>3. \A d \in Conns :
         \/ con'[d] = con[d]
         \/ con[d].phase # "calling" /\ con'[d].phase # "calling" /\ Lasts(con'[d])
  <2>1. CASE Accept(c)
    <3> DEFINE r == [con[c] EXCEPT !.phase = "reading"]
               n == New(nextIOContext)
    <3>1. accepting' \in Conns /\ con[accepting'].phase = "free"
      BY <2>1 DEF Accept, Vacant
    <3>2. \A d \in Conns : con'[d] = IF d = accepting' THEN n ELSE IF d = c THEN r ELSE con[d]
      BY <2>1, <3>1 DEF Accept, IInv, TypeOK
    <3>3. r.phase = "reading" /\ r.wait = con[c].wait
      BY DEF IInv, TypeOK, ConState
    <3>4. con[c].wait = "off"
      BY <1>1 DEF IInv, Sound
    <3>5. n.phase = "accepting" /\ Lasts(n) /\ Lasts(r)
      BY <3>3, <3>4 DEF New, Free, Lasts
    <3> QED
      BY <1>1, <3>1, <3>2, <3>3, <3>5
  <2>2. CASE AcceptFails(c)
    <3>1. Settled(New(nextIOContext)) = New(nextIOContext)
      BY DEF Settled, New, Free
    <3>2. con' = [con EXCEPT ![c] = New(nextIOContext)]
      BY <2>2, <3>1 DEF AcceptFails, Set
    <3>3. New(nextIOContext).phase = "accepting" /\ Lasts(New(nextIOContext))
      BY DEF New, Free, Lasts
    <3> QED
      BY <1>1, <3>2, <3>3 DEF IInv, TypeOK
  <2> QED
    BY <2>1, <2>2
<1>4. CallsOK'
  <2>1. ASSUME NEW d \in Conns, con'[d].phase = "calling" PROVE busy'[con'[d].at] = d
    BY <1>1, <1>3, <2>1 DEF CInv, CallsOK
  <2>2. ASSUME NEW i \in Pool, busy'[i] # None
        PROVE  con'[busy'[i]].phase = "calling" /\ con'[busy'[i]].at = i
    <3>1. busy[i] \in Conns /\ con[busy[i]].phase = "calling" /\ con[busy[i]].at = i
      BY <1>1, <2>2 DEF CInv, CallsOK, IInv, TypeOK
    <3> QED
      BY <1>1, <1>3, <3>1
  <2> QED
    BY <2>1, <2>2 DEF CallsOK
<1>5. StopOK'
  BY <1>1, <1>2 DEF StopOK
<1>6. \A d \in Conns : Lasts(con'[d])
  BY <1>3 DEF CInv
<1> QED
  BY <1>4, <1>5, <1>6 DEF CInv

LEMMA SignalC == ASSUME IInv, CInv, Signal PROVE CInv'
<1>1. /\ stopping' /\ ~stopping /\ busy' = busy /\ ended' = ended
      /\ \A c \in Conns : con'[c] = IF con[c].phase = "calling" THEN con[c] ELSE Free
  BY DEF Signal, Calling
<1>2. ended = {}
  BY <1>1 DEF CInv, StopOK
<1>3. Free.phase = "free" /\ Lasts(Free)
  BY DEF Free, Lasts
<1>4. CallsOK'
  <2>1. ASSUME NEW d \in Conns, con'[d].phase = "calling" PROVE busy'[con'[d].at] = d
    BY <1>1, <1>3, <2>1 DEF CInv, CallsOK
  <2>2. ASSUME NEW i \in Pool, busy'[i] # None
        PROVE  con'[busy'[i]].phase = "calling" /\ con'[busy'[i]].at = i
    <3>1. busy[i] \in Conns /\ con[busy[i]].phase = "calling" /\ con[busy[i]].at = i
      BY <1>1, <2>2 DEF CInv, CallsOK, IInv, TypeOK
    <3> QED
      BY <1>1, <3>1
  <2> QED
    BY <2>1, <2>2 DEF CallsOK
<1>5. StopOK'
  BY <1>1, <1>2, <1>3 DEF StopOK
<1>6. \A d \in Conns : Lasts(con'[d])
  BY <1>1, <1>3 DEF CInv
<1> QED
  BY <1>4, <1>5, <1>6 DEF CInv

LEMMA ThreadEndsC == ASSUME IInv, CInv, NEW i \in Pool, ThreadEnds(i) PROVE CInv'
<1>1. /\ stopping /\ stopping' = stopping /\ con' = con /\ busy' = busy
      /\ ended' = ended \cup {i}
      /\ \A c \in Conns : con[c].phase = "free" \/ con[c].at # i
  BY DEF ThreadEnds
<1>2. StopOK'
  BY <1>1 DEF CInv, StopOK
<1> QED
  BY <1>1, <1>2 DEF CInv, CallsOK

(* A handler goes into its call.                                           *)
LEMMA HandleKnownC ==
    ASSUME IInv, CInv, NEW c \in Conns, Runs(c), con[c].phase = "request", HandleKnown(c)
    PROVE  CInv'
<1> DEFINE r == [con[c] EXCEPT !.phase = "calling"]
           i == con[c].at
<1>1. con[c] \in ConState /\ i \in Pool /\ ~stopping /\ busy[i] = None
  BY DEF IInv, TypeOK, ConState, Runs
<1>2. /\ r.phase = "calling" /\ r.at = i /\ r.wait = con[c].wait /\ r.write = con[c].write
  BY <1>1 DEF ConState
<1>3. con'[c] = r /\ \A d \in Conns \ {c} : con'[d] = con[d]
  BY DEF HandleKnown, IInv, TypeOK
<1>4. busy'[i] = c /\ \A j \in Pool \ {i} : busy'[j] = busy[j]
  BY <1>1 DEF HandleKnown, IInv, TypeOK
<1>5. ended = {} /\ ended' = ended /\ stopping' = stopping
  BY <1>1 DEF HandleKnown, CInv, StopOK
<1> HIDE DEF r, i
<1>6. CallsOK'
  <2>1. ASSUME NEW d \in Conns, con'[d].phase = "calling" PROVE busy'[con'[d].at] = d
    <3>1. CASE d = c
      BY <1>2, <1>3, <1>4, <3>1
    <3>2. CASE d # c
      <4>1. con'[d] = con[d] /\ busy[con[d].at] = d /\ con[d].at \in Pool
        BY <1>3, <2>1, <3>2 DEF CInv, CallsOK, IInv, TypeOK, ConState
      <4>2. d # None
        BY GateAssumption
      <4>3. con[d].at # i
        BY <1>1, <4>1, <4>2
      <4> QED
        BY <1>4, <4>1, <4>3
    <3> QED
      BY <3>1, <3>2
  <2>2. ASSUME NEW j \in Pool, busy'[j] # None
        PROVE  con'[busy'[j]].phase = "calling" /\ con'[busy'[j]].at = j
    <3>1. CASE j = i
      BY <1>2, <1>3, <1>4, <3>1
    <3>2. CASE j # i
      <4>1. busy'[j] = busy[j] /\ busy[j] \in Conns
        BY <1>4, <2>2, <3>2 DEF IInv, TypeOK
      <4>2. con[busy[j]].phase = "calling" /\ con[busy[j]].at = j
        BY <2>2, <4>1 DEF CInv, CallsOK
      <4>3. busy[j] # c
        BY <4>2
      <4> QED
        BY <1>3, <4>1, <4>2, <4>3
    <3> QED
      BY <3>1, <3>2
  <2> QED
    BY <2>1, <2>2 DEF CallsOK
<1>7. StopOK'
  BY <1>1, <1>5 DEF StopOK
<1>8. \A d \in Conns : Lasts(con'[d])
  BY <1>2, <1>3 DEF CInv, Lasts
<1> QED
  BY <1>6, <1>7, <1>8 DEF CInv

LEMMA CallReturnsC == ASSUME IInv, CInv, NEW c \in Conns, CallReturns(c) PROVE CInv'
<1> DEFINE r == Settled(IF stopping THEN Free ELSE Respond(con[c]))
           i == con[c].at
<1>1. /\ con[c].phase = "calling" /\ con[c] \in ConState /\ i \in Pool /\ busy[i] = c
  BY DEF CallReturns, IInv, TypeOK, ConState, CInv, CallsOK
<1>2. /\ con' = [con EXCEPT ![c] = r] /\ busy' = [busy EXCEPT ![i] = None]
      /\ stopping' = stopping /\ ended' = ended
  BY DEF CallReturns, Set
<1>3. Lasts(r) /\ r.phase # "calling" /\ (stopping => r.phase = "free")
  BY SettledLasts, <1>1 DEF Settled, Respond, CheckDeadline, Free, ConState
<1>4. con'[c] = r /\ \A d \in Conns \ {c} : con'[d] = con[d]
  BY <1>2 DEF IInv, TypeOK
<1>5. busy'[i] = None /\ \A j \in Pool \ {i} : busy'[j] = busy[j]
  BY <1>1, <1>2 DEF IInv, TypeOK
<1> HIDE DEF r, i
<1>6. CallsOK'
  <2>1. ASSUME NEW d \in Conns, con'[d].phase = "calling" PROVE busy'[con'[d].at] = d
    <3>1. d # c /\ con'[d] = con[d]
      BY <1>3, <1>4, <2>1
    <3>2. busy[con[d].at] = d /\ con[d].at \in Pool
      BY <2>1, <3>1 DEF CInv, CallsOK, IInv, TypeOK, ConState
    <3>3. con[d].at # i
      BY <1>1, <3>1, <3>2
    <3> QED
      BY <1>5, <3>1, <3>2, <3>3
  <2>2. ASSUME NEW j \in Pool, busy'[j] # None
        PROVE  con'[busy'[j]].phase = "calling" /\ con'[busy'[j]].at = j
    <3>1. j # i /\ busy'[j] = busy[j] /\ busy[j] \in Conns
      BY <1>5, <2>2 DEF IInv, TypeOK
    <3>2. con[busy[j]].phase = "calling" /\ con[busy[j]].at = j
      BY <2>2, <3>1 DEF CInv, CallsOK
    <3>3. busy[j] # c
      BY <3>1, <3>2 DEF i
    <3> QED
      BY <1>4, <3>1, <3>2, <3>3
  <2> QED
    BY <2>1, <2>2 DEF CallsOK
<1>7. StopOK'
  <2>1. CASE stopping
    BY <1>2, <1>3, <1>4, <2>1 DEF CInv, StopOK
  <2>2. CASE ~stopping
    <3>1. ended = {}
      BY <2>2 DEF CInv, StopOK
    <3> QED
      BY <1>2, <2>2, <3>1 DEF StopOK
  <2> QED
    BY <2>1, <2>2
<1>8. \A d \in Conns : Lasts(con'[d])
  BY <1>3, <1>4 DEF CInv
<1> QED
  BY <1>6, <1>7, <1>8 DEF CInv

(* What clients, the network and the clock do to a connection              *)
LEMMA ClientC ==
    ASSUME IInv, CInv, NEW c \in Conns,
           \/ \E k \in Requests : SendRequest(c, k)
           \/ TakeResponse(c) \/ LeaveClient(c) \/ DeadlinePasses(c)
    PROVE  CInv'
<1>0. con[c] \in ConState /\ Lasts(con[c])
  BY DEF IInv, TypeOK, CInv
<1>1. ASSUME NEW k \in Requests, SendRequest(c, k) PROVE CInv'
  <2> DEFINE r == [con[c] EXCEPT !.phase = "request", !.request = k]
  <2>1. con[c].phase = "reading" /\ con' = [con EXCEPT ![c] = r] /\ Elsewhere
    BY <1>1 DEF SendRequest, IInv, TypeOK
  <2>2. ~stopping
    BY <2>1 DEF CInv, StopOK
  <2>3. r.phase = "request" /\ Lasts(r)
    BY <1>0 DEF ConState, Lasts
  <2> QED
    BY <2>1, <2>2, <2>3, OneChangeC
<1>2. CASE TakeResponse(c)
  <2> DEFINE r == [con[c] EXCEPT !.write = "sent"]
  <2>1. con' = [con EXCEPT ![c] = r] /\ Elsewhere
    BY <1>2 DEF TakeResponse, IInv, TypeOK
  <2>2. r.phase = con[c].phase /\ r.at = con[c].at /\ Lasts(r)
    BY <1>0 DEF ConState, Lasts
  <2> QED
    BY <2>1, <2>2, OneChangeC
<1>3. CASE LeaveClient(c)
  <2> DEFINE r == [con[c] EXCEPT !.client = FALSE,
                                 !.write = IF @ = "busy" THEN "failed" ELSE @]
  <2>1. con' = [con EXCEPT ![c] = r] /\ Elsewhere
    BY <1>3 DEF LeaveClient, IInv, TypeOK
  <2>2. r.phase = con[c].phase /\ r.at = con[c].at /\ Lasts(r)
    BY <1>0 DEF ConState, Lasts
  <2> QED
    BY <2>1, <2>2, OneChangeC
<1>4. CASE DeadlinePasses(c)
  <2> DEFINE r == [con[c] EXCEPT !.late = TRUE,
                                 !.wait = IF @ = "armed" THEN "due" ELSE @]
  <2>1. con' = [con EXCEPT ![c] = r] /\ Elsewhere
    BY <1>4 DEF DeadlinePasses, IInv, TypeOK
  <2>2. r.phase = con[c].phase /\ r.at = con[c].at /\ Lasts(r)
    BY <1>0 DEF ConState, Lasts
  <2> QED
    BY <2>1, <2>2, OneChangeC
<1> QED
  BY <1>1, <1>2, <1>3, <1>4

LEMMA RunHandlerC ==
    ASSUME IInv, CInv, NEW c \in Conns, RunHandler(c) \/ ReadRejected(c) PROVE CInv'
<1>0. con[c] \in ConState /\ Sound(con[c])
  BY DEF IInv, TypeOK
<1>1. CASE HandleRequest(c) /\ HandleKnown(c)
  BY <1>1, HandleKnownC DEF HandleRequest
<1>2. ASSUME NEW r, con' = [con EXCEPT ![c] = Settled(r)], Elsewhere, Runs(c),
             con[c].phase # "calling", r.phase # "calling"
      PROVE  CInv'
  <2>1. Settled(r).phase # "calling" /\ Lasts(Settled(r))
    BY <1>2, SettledLasts DEF Settled, Free
  <2> QED
    BY <1>2, <2>1, OneChangeC DEF Runs
<1>f. Settled(Free) = Free /\ Free.phase # "calling"
  BY DEF Settled, Free
<1>3. CASE HandleRequest(c) /\ HandleUnknown(c)
  <2>1. Respond(con[c]).phase # "calling"
    BY <1>0 DEF Respond, CheckDeadline, ConState
  <2> QED
    BY <1>2, <1>3, <2>1 DEF HandleRequest, HandleUnknown, Set
<1>4. CASE HandleRequest(c) /\ HandleMethod(c)
  <2>1. CheckDeadline(con[c]).phase # "calling"
    BY <1>0 DEF CheckDeadline, ConState
  <2> QED
    BY <1>2, <1>4, <2>1 DEF HandleRequest, HandleMethod, Set
<1>5. CASE (HandleRequest(c) /\ HandleFields(c)) \/ ReadFails(c) \/ ReadRejected(c)
  BY <1>2, <1>5, <1>f DEF HandleRequest, HandleFields, ReadFails, ReadRejected
<1>6. CASE WriteEnds(c)
  <2> DEFINE r == [con[c] EXCEPT !.write = IF @ = "sent" THEN "answered" ELSE "cut",
                                 !.wait = IF @ = "armed" THEN "done" ELSE @]
  <2>1. con' = [con EXCEPT ![c] = Settled(r)] /\ Elsewhere /\ Runs(c)
    BY <1>6 DEF WriteEnds, Set
  <2>2. con[c].phase = "handled"
    BY <1>0, <1>6 DEF WriteEnds, Sound
  <2>3. r.phase = "handled"
    BY <1>0, <2>2 DEF ConState
  <2> HIDE DEF r
  <2> QED
    BY <1>2, <2>1, <2>2, <2>3
<1>7. CASE DeadlineReached(c)
  <2> DEFINE r == [con[c] EXCEPT !.wait = "done",
                                 !.write = IF @ = "busy" THEN "failed" ELSE @]
  <2>1. con' = [con EXCEPT ![c] = Settled(r)] /\ Elsewhere /\ Runs(c)
    BY <1>7 DEF DeadlineReached, Set
  <2>2. con[c].phase = "handled"
    BY <1>0, <1>7 DEF DeadlineReached, Sound
  <2>3. r.phase = "handled"
    BY <1>0, <2>2 DEF ConState
  <2> HIDE DEF r
  <2> QED
    BY <1>2, <2>1, <2>2, <2>3
<1> QED
  BY <1>1, <1>3, <1>4, <1>5, <1>6, <1>7 DEF RunHandler, HandleRequest

LEMMA StepC == IInv /\ CInv /\ [Next]_vars => CInv'
<1> SUFFICES ASSUME IInv, CInv, [Next]_vars PROVE CInv'
  OBVIOUS
<1>1. CASE Signal
  BY <1>1, SignalC
<1>2. ASSUME NEW i \in Pool, ThreadEnds(i) PROVE CInv'
  BY <1>2, ThreadEndsC
<1>3. ASSUME NEW c \in Conns, Accept(c) \/ AcceptFails(c) PROVE CInv'
  BY <1>3, AcceptC
<1>4. ASSUME NEW c \in Conns,
             \/ \E k \in Requests : SendRequest(c, k)
             \/ TakeResponse(c) \/ LeaveClient(c) \/ DeadlinePasses(c)
      PROVE  CInv'
  BY <1>4, ClientC
<1>5. ASSUME NEW c \in Conns, RunHandler(c) \/ ReadRejected(c) PROVE CInv'
  BY <1>5, RunHandlerC
<1>6. ASSUME NEW c \in Conns, CallReturns(c) PROVE CInv'
  BY <1>6, CallReturnsC
<1>7. CASE UNCHANGED vars
  BY <1>7 DEF vars, CInv, CallsOK, StopOK
<1> QED
  BY <1>1, <1>2, <1>3, <1>4, <1>5, <1>6, <1>7 DEF Next

LEMMA CHolds == Spec => []CInv
<1>1. IInv /\ CInv /\ [Next]_vars => CInv'
  BY StepC
<1> QED
  BY <1>1, InitC, InvHolds, PTL DEF Spec

(* No request that was handled stays for want of an event: its write is    *)
(* over and the completion queued, or its deadline is, or time brings the  *)
(* deadline.  So a client that takes nothing is cut, whatever the order of *)
(* the two handlers, of which the first must not take the other away       *)
(* (HttpConnection::WriteResponse, CheckDeadline).                         *)
EventsAreDue ==
    \A c \in Conns : con[c].phase = "handled" =>
        \/ con[c].write \in {"sent", "failed"}
        \/ con[c].wait = "due"
        \/ con[c].wait = "armed" /\ ~con[c].late

(* HttpConnection: an event that ends it is due for every handled request. *)
THEOREM NoRequestIsForgotten == Spec => []EventsAreDue
<1>1. IInv /\ CInv => EventsAreDue
  <2> SUFFICES ASSUME IInv, CInv, NEW c \in Conns, con[c].phase = "handled"
               PROVE  \/ con[c].write \in {"sent", "failed"}
                      \/ con[c].wait = "due"
                      \/ con[c].wait = "armed" /\ ~con[c].late
    BY DEF EventsAreDue
  <2>1. con[c] \in ConState /\ Sound(con[c]) /\ Lasts(con[c])
    BY DEF IInv, TypeOK, CInv
  <2>2. /\ con[c].write \in {"none", "busy", "sent", "failed", "answered", "cut"}
        /\ con[c].wait \in {"off", "armed", "due", "done"}
    BY <2>1 DEF ConState
  <2> QED
    BY <2>1, <2>2 DEF Sound, Lasts
<1> QED
  BY <1>1, InvHolds, CHolds, PTL

(* A context whose thread was joined runs no handler and has no connection *)
(* left, though a handler may be in its call when the signal comes, and    *)
(* no context is in two calls (IOContextPool::Stop).                       *)
JoinedContextsAreIdle ==
    /\ \A i \in ended : busy[i] = None /\ \A c \in Conns : con[c].phase = "free" \/ con[c].at # i
    /\ \A c, d \in Calling : con[c].at = con[d].at => c = d

(* IOContextPool::Stop joins no thread beside a handler of its context.    *)
THEOREM StopWaitsForCalls == Spec => []JoinedContextsAreIdle
<1>1. IInv /\ CInv => JoinedContextsAreIdle
  <2> SUFFICES ASSUME IInv, CInv PROVE JoinedContextsAreIdle
    OBVIOUS
  <2>1. ASSUME NEW i \in ended
        PROVE  busy[i] = None /\ \A c \in Conns : con[c].phase = "free" \/ con[c].at # i
    <3>1. \A c \in Conns : con[c].phase = "free" \/ con[c].at # i
      BY DEF CInv, StopOK
    <3>2. i \in Pool
      BY DEF IInv, TypeOK
    <3>3. ASSUME busy[i] # None PROVE FALSE
      <4>1. busy[i] \in Conns /\ con[busy[i]].phase = "calling" /\ con[busy[i]].at = i
        BY <3>2, <3>3 DEF CInv, CallsOK, IInv, TypeOK
      <4> QED
        BY <3>1, <4>1
    <3> QED
      BY <3>1, <3>3
  <2>2. ASSUME NEW c \in Calling, NEW d \in Calling, con[c].at = con[d].at PROVE c = d
    BY <2>2 DEF Calling, CInv, CallsOK
  <2> QED
    BY <2>1, <2>2 DEF JoinedContextsAreIdle
<1> QED
  BY <1>1, InvHolds, CHolds, PTL
=============================================================================
