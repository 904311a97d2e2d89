------------------------------- MODULE Mailbox -------------------------------
(***************************************************************************)
(* What the message queue of the chat server promises: every message that  *)
(* was sent is served once at most, and in the order of sending.           *)
(***************************************************************************)
EXTENDS Naturals, Sequences

CONSTANT Messages

VARIABLES
    sent,       \* all messages, in the order they were sent
    served      \* the messages that were served, in the order they were

Init == sent = << >> /\ served = << >>

Send(m) == sent' = Append(sent, m) /\ UNCHANGED served

Serve ==
    /\ Len(served) < Len(sent)
    /\ served' = Append(served, sent[Len(served) + 1])
    /\ UNCHANGED sent

Next == Serve \/ \E m \in Messages : Send(m)

Spec == Init /\ [][Next]_<<sent, served>>
=============================================================================
