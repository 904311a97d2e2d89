---------------------------- MODULE SessionReader ----------------------------
(***************************************************************************)
(* How a chat session cuts the bytes it receives into messages             *)
(* (ChatServer/CSession.cpp, handleRead).                                  *)
(*                                                                         *)
(* The client writes frames, a header of HeaderLength bytes and a body,    *)
(* and TCP hands them over in pieces of any size.  A byte is known by its  *)
(* frame and its place in it; what the memcpy's copy is a sequence of      *)
(* bytes, so that a reader that lost its place would be seen to mix        *)
(* frames.  One step is one run through the loop over the buffer; all of   *)
(* them happen on the one thread of the session's io context.              *)
(***************************************************************************)
EXTENDS Naturals, Sequences

CONSTANTS
    HeaderLength,       \* HEADER_TOTAL_LENGTH
    MaxLength,          \* MAX_LENGTH
    BufferSize,         \* BUFFER_SIZE
    Lengths,            \* lengths of bodies clients send
    MaxFrames           \* bound of the checked instances

ASSUME ReaderAssumption ==
    /\ HeaderLength \in Nat \ {0} /\ MaxLength \in Nat /\ BufferSize \in Nat \ {0}
    /\ Lengths \subseteq Nat
    /\ MaxFrames \in Nat

VARIABLES
    frames,     \* lengths of the bodies of the frames sent so far
    wire,       \* bytes on their way
    buffer,     \* bytes of _buffer not processed yet
    state,      \* "read": async_read_some is under way; "parse": in the loop; "closed"
    headParse,  \* _b_head_parse
    head,       \* _receiveHeadNode: the bytes it holds
    body,       \* _receiveMessageNode: the bytes it holds
    total,      \* _receiveMessageNode->_totalLength
    posted      \* the bodies given to PostMessageToQueue

vars == <<frames, wire, buffer, state, headParse, head, body, total, posted>>

parser == <<buffer, state, headParse, head, body, total, posted>>

Byte(k, i) == [frame |-> k, at |-> i]

Bytes == [frame : 1..MaxFrames, at : Nat \ {0}]

Frame(k, n) == [i \in 1..(HeaderLength + n) |-> Byte(k, i)]

BodyOf(k, n) == [i \in 1..n |-> Byte(k, HeaderLength + i)]

Body(k) == BodyOf(k, frames[k])

AtMost(m, n) == IF m < n THEN m ELSE n

(* The two bytes of the length that network_to_host_short keeps of the     *)
(* word read there: what the client wrote if this is a header, any length  *)
(* if it is not.  The word is eight bytes wide and reaches past the block  *)
(* of five, which the build has to allow; its conversion to unsigned short *)
(* drops every byte from outside, so that none of them is in the value.    *)
Decoded(h) ==
    IF \E k \in 1..Len(frames) : h = SubSeq(Frame(k, 0), 1, HeaderLength)
    THEN {frames[h[1].frame]}
    ELSE Lengths

Init ==
    /\ frames = << >> /\ wire = << >>
    /\ buffer = << >> /\ state = "read"
    /\ headParse = TRUE
    /\ head = << >> /\ body = << >> /\ total = 0
    /\ posted = << >>

-----------------------------------------------------------------------------
(* The client and the network                                              *)

ClientSends(n) ==
    /\ Len(frames) < MaxFrames
    /\ state # "closed"
    /\ frames' = Append(frames, n)
    /\ wire' = wire \o Frame(Len(frames) + 1, n)
    /\ UNCHANGED parser

(* async_read_some completes with the next n bytes                         *)
Receive(n) ==
    /\ state = "read"
    /\ n <= Len(wire)
    /\ buffer' = SubSeq(wire, 1, n)
    /\ wire' = SubSeq(wire, n + 1, Len(wire))
    /\ state' = "parse"
    /\ UNCHANGED <<frames, headParse, head, body, total, posted>>

(* ... or with an error: Close                                             *)
ReadError ==
    /\ state = "read"
    /\ state' = "closed"
    /\ UNCHANGED <<frames, wire, buffer, headParse, head, body, total, posted>>

-----------------------------------------------------------------------------
(* handleRead                                                              *)

(* Mutant: all that is there is copied.                                    *)
CopyAll(remain) == Len(buffer)

(* bytesToCopy                                                             *)
BytesToCopy(remain) == AtMost(remain, Len(buffer))

Copied(n)  == SubSeq(buffer, 1, n)
Left(n)    == SubSeq(buffer, n + 1, Len(buffer))

HeadIncomplete ==
    LET n == BytesToCopy(HeaderLength - Len(head)) IN
    /\ state = "parse" /\ buffer # << >> /\ headParse
    /\ head' = head \o Copied(n)
    /\ buffer' = Left(n)
    /\ Len(head') # HeaderLength
    /\ UNCHANGED <<frames, wire, state, headParse, body, total, posted>>

(* A new message node for the body, or Close if it would be too long       *)
HeadComplete ==
    LET n == BytesToCopy(HeaderLength - Len(head)) IN
    /\ state = "parse" /\ buffer # << >> /\ headParse
    /\ head' = head \o Copied(n)
    /\ buffer' = Left(n)
    /\ Len(head') = HeaderLength
    /\ \E len \in Decoded(head') :
          \/ /\ len > MaxLength
             /\ state' = "closed"
             /\ UNCHANGED <<headParse, body, total>>
          \/ /\ len <= MaxLength
             /\ total' = len
             /\ body' = << >>
             /\ headParse' = FALSE
             /\ UNCHANGED state
    /\ UNCHANGED <<frames, wire, posted>>

BodyIncomplete ==
    LET n == BytesToCopy(total - Len(body)) IN
    /\ state = "parse" /\ buffer # << >> /\ ~headParse
    /\ body' = body \o Copied(n)
    /\ buffer' = Left(n)
    /\ Len(body') # total
    /\ UNCHANGED <<frames, wire, state, headParse, head, total, posted>>

(* Mutant: the header is not cleared after a message.                      *)
Kept(h) == h

(* _receiveHeadNode->Clear()                                               *)
Cleared(h) == << >>

(* Mutant: one message per read, the rest of the buffer is left.           *)
LeftNothing(n) == << >>

AfterPost(n) == Left(n)

BodyComplete ==
    LET n == BytesToCopy(total - Len(body)) IN
    /\ state = "parse" /\ buffer # << >> /\ ~headParse
    /\ body' = body \o Copied(n)
    /\ buffer' = AfterPost(n)
    /\ Len(body') = total
    /\ posted' = Append(posted, body')
    /\ head' = Cleared(head)
    /\ headParse' = TRUE
    /\ UNCHANGED <<frames, wire, state, total>>


(* The buffer is done: the next async_read_some                            *)
ReadAgain ==
    /\ state = "parse" /\ buffer = << >>
    /\ state' = "read"
    /\ UNCHANGED <<frames, wire, buffer, headParse, head, body, total, posted>>

HandleRead ==
    HeadIncomplete \/ HeadComplete \/ BodyIncomplete \/ BodyComplete \/ ReadAgain

-----------------------------------------------------------------------------
Network == \E n \in 1..BufferSize : Receive(n)

Next ==
    \/ \E n \in Lengths : ClientSends(n)
    \/ Network \/ ReadError \/ HandleRead

(* Bytes that were sent arrive, and the io context runs its handlers.      *)
Spec == Init /\ [][Next]_vars /\ WF_vars(Network) /\ WF_vars(HandleRead)

-----------------------------------------------------------------------------
(* Properties                                                              *)

(* The types, and the bounds of the two heap blocks the loop copies to     *)
TypeOK ==
    /\ frames \in Seq(Lengths) /\ Len(frames) <= MaxFrames
    /\ wire \in Seq(Bytes) /\ buffer \in Seq(Bytes) /\ Len(buffer) <= BufferSize
    /\ state \in {"read", "parse", "closed"} /\ headParse \in BOOLEAN
    /\ head \in Seq(Bytes) /\ Len(head) <= HeaderLength
    /\ total \in Nat /\ (~headParse => total <= MaxLength)
    /\ body \in Seq(Bytes) /\ Len(body) <= total
    /\ posted \in Seq(Seq(Bytes))

(* However the bytes are cut into reads, the messages posted are the       *)
(* bodies the client sent: whole, in order, none twice, nothing of one in  *)
(* another.                                                                *)
Box == INSTANCE Mailbox WITH
           Messages <- {BodyOf(k, n) : k \in 1..MaxFrames, n \in Lengths},
           sent <- [k \in 1..Len(frames) |-> Body(k)],
           served <- posted

RefinesMailbox == Box!Spec

(* A session that waits for bytes and has had all there are has posted     *)
(* every message.  Only an empty body is behind: the loop ends with the    *)
(* last byte of its header, and it is posted when something else arrives.  *)
NothingHeldBack ==
    (state = "read" /\ wire = << >>) =>
        Len(posted) = Len(frames) - (IF frames # << >> /\ frames[Len(frames)] = 0 THEN 1 ELSE 0)

=============================================================================
