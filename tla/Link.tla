-------------------------------- MODULE Link --------------------------------
(***************************************************************************)
(* One direction of the connection between a hub and a unit: cobs_send     *)
(* (util.cpp), TCP, which delivers the bytes in chunks of any size, and    *)
(* the cobs_receiver of the other side (util.hpp).                         *)
(***************************************************************************)
EXTENDS Cobs, FiniteSets

CONSTANTS
    Message,   \* the messages that are sent, as sequences of bytes
    MaxSent,   \* how many
    Capacity,  \* the size of rx_buffer
    Chunk      \* the most that one read returns: 65536 in libuv

ASSUME MessageAssumption == Message \subseteq Seq(0..Limit)
ASSUME SizesAssumption == Capacity \in Nat /\ Chunk \in Nat \ {0}

VARIABLES
    sent,  \* the messages that uv_write accepted
    wire,  \* the bytes on their way
    rx,    \* rx_buffer up to rx_used
    got,   \* the messages passed to recv_src
    up,    \* FALSE: the receiver has called std::abort
    error  \* TRUE: a cobs_send has returned ENCODING_ERROR

vars == <<sent, wire, rx, got, up, error>>

Byte == 0..Limit

TypeOK ==
    /\ sent \in Seq(Message)
    /\ got \in Seq(Seq(Byte))
    /\ wire \in Seq(Byte)
    /\ rx \in Seq(1..Limit) /\ Len(rx) <= Capacity
    /\ up \in BOOLEAN
    /\ error \in BOOLEAN

Init ==
    /\ sent = <<>>
    /\ wire = <<>>
    /\ rx = <<>>
    /\ got = <<>>
    /\ up = TRUE
    /\ error = FALSE

\* defect: the zero behind a frame is not sent
SendUnended(msg) ==
    /\ Len(sent) < MaxSent
    /\ wire' = wire \o Encode(msg).frame
    /\ sent' = Append(sent, msg)
    /\ UNCHANGED <<rx, got, up, error>>

\* cobs_send.  The byte behind the frame is zero because make_span has cleared
\* it.  A message that is not encoded is not sent.
Send(msg) ==
    /\ Len(sent) < MaxSent
    /\ IF Encode(msg).ok
       THEN /\ wire' = wire \o Append(Encode(msg).frame, 0)
            /\ sent' = Append(sent, msg)
            /\ UNCHANGED error
       ELSE error' = TRUE /\ UNCHANGED <<wire, sent>>
    /\ UNCHANGED <<rx, got, up>>

Ends(buff) == {i \in 1..Len(buff) : buff[i] = 0}

\* the place of the i-th zero in a buffer, 0 for none
End(buff, i) ==
    IF i = 0 THEN 0
    ELSE CHOOSE e \in Ends(buff) : Cardinality({k \in Ends(buff) : k <= e}) = i

\* the i-th complete frame in a buffer
Frame(buff, i) == SubSeq(buff, End(buff, i - 1) + 1, End(buff, i) - 1)

Frames(buff) == [i \in 1..Cardinality(Ends(buff)) |-> Frame(buff, i)]

\* defect: the bytes of a frame stay in the buffer
RestKept(buff) == SelectSeq(buff, LAMBDA b : b # 0)

Rest(buff) == SubSeq(buff, End(buff, Cardinality(Ends(buff))) + 1, Len(buff))

\* every complete frame is decoded and passed on, the rest moves to the front
Deliver(buff) ==
    /\ got' = got \o [i \in DOMAIN Frames(buff) |-> Decode(Frames(buff)[i])]
    /\ rx' = Rest(buff)

\* _handle_rx: a chunk that does not fit into what is left of rx_buffer ends
\* the program
Read(n) ==
    /\ up
    /\ n <= Len(wire)
    /\ wire' = SubSeq(wire, n + 1, Len(wire))
    /\ IF n > Capacity - Len(rx)
       THEN up' = FALSE /\ UNCHANGED <<rx, got>>
       ELSE Deliver(rx \o SubSeq(wire, 1, n)) /\ UNCHANGED up
    /\ UNCHANGED <<sent, error>>

Next ==
    \/ \E msg \in Message : Send(msg)
    \/ \E n \in 1..Chunk : Read(n)

Spec == Init /\ [][Next]_vars

\* what is on its way arrives and is read
FairSpec == Spec /\ WF_vars(\E n \in 1..Chunk : Read(n))

-----------------------------------------------------------------------------
\* However messages are cut up and joined on their way, the receiver is given
\* the same messages in the same order (cobs.hpp:26-131, util.hpp:104-121).
Promise == INSTANCE Channel
ChannelSpec == Promise!Spec

\* cobs_send provides room for every message, and its frame has no zero
\* (util.cpp:50-60).
EncodingFits ==
    /\ ~error
    /\ \A i \in 1..Len(sent) : Ends(Encode(sent[i]).frame) = {}

\* The receiver gives up only if its peer has more bytes on their way than
\* rx_buffer holds, not counting what it has handed on (util.hpp:93-99).
Waiting(from) ==
    LET sum[n \in 0..Len(sent)] ==
          IF n < from THEN 0 ELSE sum[n - 1] + Len(Encode(sent[n]).frame) + 1
    IN  sum[Len(sent)]

AbortsOnBurstOnly == [][up /\ ~up' => Waiting(Len(got) + 1) > Capacity]_vars

\* Every message arrives, unless the receiver has given up (util.hpp:102-121).
EverythingArrives ==
    \A n \in 1..MaxSent : Len(sent) = n ~> Len(got) >= n \/ ~up
=============================================================================
