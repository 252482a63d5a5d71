------------------------------ MODULE Channel ------------------------------
(***************************************************************************)
(* What one direction of a connection promises: messages arrive whole, as  *)
(* they were sent, in order and once.                                      *)
(***************************************************************************)
EXTENDS Sequences, Naturals

CONSTANT Message

VARIABLES
    sent,  \* the messages accepted for sending, in order
    got    \* the messages handed to the receiver, in order

channelVars == <<sent, got>>

Init == sent = <<>> /\ got = <<>>

Send(msg) == sent' = Append(sent, msg) /\ UNCHANGED got

\* one read can complete several messages
Deliver ==
    \E k \in Len(got) + 1..Len(sent) : got' = SubSeq(sent, 1, k) /\ UNCHANGED sent

Next == Deliver \/ \E msg \in Message : Send(msg)

Spec == Init /\ [][Next]_channelVars
=============================================================================
