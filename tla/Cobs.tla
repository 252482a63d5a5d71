-------------------------------- MODULE Cobs --------------------------------
(***************************************************************************)
(* Consistent overhead byte stuffing (cobs.hpp): a message becomes a frame *)
(* without zeros, cut into blocks that each start with a code byte, so     *)
(* that a zero can mark where the frame ends.                              *)
(***************************************************************************)
EXTENDS Naturals, Sequences

CONSTANT Limit  \* the code of a full block, and the largest byte: 255

ASSUME LimitAssumption == Limit \in Nat \ {0, 1}

\* The encoder: what is before its pointer p, and the place and the value of
\* the code that is still open.
Encoder == [out |-> <<0>>, last |-> 1, count |-> 1]

\* the open code gets its value, and the next byte is the place of a new one
Close(e, code) ==
    [out |-> Append([e.out EXCEPT ![e.last] = code], 0),
     last |-> Len(e.out) + 1, count |-> 1]

Take(e, b) ==
    IF b # 0 THEN [out |-> Append(e.out, b), last |-> e.last, count |-> e.count + 1]
    ELSE Close(e, e.count)

\* a block of Limit - 1 bytes is closed at once
Insert(e, b) ==
    LET next == Take(e, b)
    IN  IF next.count = Limit THEN Close(next, Limit) ELSE next

\* what insert returns: neither write has reached the end of the target
Fits(e, b, size) == Len(Take(e, b).out) # size /\ Len(Insert(e, b).out) # size

\* the encoder after each byte of a message
Encoding(msg) ==
    LET e[n \in 0..Len(msg)] == IF n = 0 THEN Encoder ELSE Insert(e[n - 1], msg[n])
    IN  e

\* encode_cobs into a target of the given size
EncodeInto(msg, size) ==
    LET e == Encoding(msg)
        done == e[Len(msg)]
    IN  [ok    |-> \A n \in 1..Len(msg) : Fits(e[n - 1], msg[n], size),
         frame |-> [done.out EXCEPT ![done.last] = done.count]]

\* defect: room for the code bytes, and none behind the last byte
TargetTight(n) == 1 + n + n \div (Limit - 1)

\* the size that cobs_send provides, without the zero at the end
TargetSize(n) == 2 + (n * (Limit + 3)) \div Limit

Encode(msg) == EncodeInto(msg, TargetSize(Len(msg)))

\* The decoder after a code byte: the value bytes up to the next code, and
\* whether a zero of the message is there.
Decoder(code) == [offset |-> code, nonzero |-> code = Limit, out |-> <<>>]

\* defect: a full block is followed by a zero like any other
IterZero(d, b) ==
    IF d.offset = 1
    THEN [Decoder(b) EXCEPT !.out = Append(d.out, 0)]
    ELSE [d EXCEPT !.offset = @ - 1, !.out = Append(@, b)]

Iter(d, b) ==
    IF d.offset = 1
    THEN [Decoder(b) EXCEPT !.out = IF d.nonzero THEN d.out ELSE Append(d.out, 0)]
    ELSE [d EXCEPT !.offset = @ - 1, !.out = Append(@, b)]

\* the decoder after each byte of a frame
Decoding(frame) ==
    LET d[i \in 1..Len(frame)] ==
          IF i = 1 THEN Decoder(frame[1]) ELSE Iter(d[i - 1], frame[i])
    IN  d

\* A frame of no bytes is decoded to a message of none: the code that is read
\* is the zero behind the frame and does not matter.
\* The message is shorter than its frame, where it is written, so that the end
\* of the decoder for a target that is full is left out.
Decode(frame) == IF frame = <<>> THEN <<>> ELSE Decoding(frame)[Len(frame)].out
=============================================================================
