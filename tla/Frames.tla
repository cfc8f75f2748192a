------------------------------- MODULE Frames -------------------------------
(***************************************************************************)
(* The bytes on the vsock between the host and fendd: the frame codec and  *)
(* base64 of fendd/src/protocol.rs, linux/src/smoke.rs and                 *)
(* linux/src/session.rs.                                                   *)
(*                                                                         *)
(* A byte is a number, a base64 character its index in the alphabet, and   *)
(* the JSON object of a message the sequence of its fields, each a byte,   *)
(* with a text at the end.  An optional result is <<>> or <<value>>.       *)
(***************************************************************************)
EXTENDS Integers, Sequences

CONSTANT MAX_PAYLOAD       \* largest payload a reader accepts, in bytes

ASSUME MaxPayloadAssumption == MAX_PAYLOAD \in Nat

None == <<>>
Some(x) == <<x>>

\* The sequences of s up to the n-th, one after the other, for every n.
Joined(s) ==
    LET upto[n \in 0..Len(s)] == IF n = 0 THEN <<>> ELSE upto[n - 1] \o s[n]
    IN upto

Concat(s) == Joined(s)[Len(s)]

IsPrefix(s, t) == Len(s) <= Len(t) /\ s = SubSeq(t, 1, Len(s))

\* MessageType of fendd/src/protocol.rs; the host has the same numbers.
MessageType ==
    [ExecuteCommand |-> 1, ForwardSignal |-> 2, OutputData |-> 3,
     ExitStatus |-> 4, PortEvent |-> 5, Ready |-> 6, InputData |-> 7,
     WindowSize |-> 8, NetworkEvent |-> 9]

HeaderSize == 5

\* The length of a payload that is written fits its four bytes of the header.
MaxLength == 2147483647

\* The type, the length in four bytes (big endian) and the payload.
Header(kind, n) ==
    <<kind, (n \div 16777216) % 256, (n \div 65536) % 256, (n \div 256) % 256, n % 256>>
write_frame(kind, payload) == Header(kind, Len(payload)) \o payload

\* The length in the header of a frame.
PayloadLen(header) ==
    header[2] * 16777216 + header[3] * 65536 + header[4] * 256 + header[5]

TooLarge(bytes) == Len(bytes) = HeaderSize /\ PayloadLen(bytes) > MAX_PAYLOAD

\* bytes is what both read_exact calls of read_frame asked for.
Complete(bytes) ==
    Len(bytes) >= HeaderSize /\ Len(bytes) = HeaderSize + PayloadLen(bytes)

Frame(bytes) ==
    [kind |-> bytes[1], payload |-> SubSeq(bytes, HeaderSize + 1, Len(bytes))]

\* read_frame of fendd: it also refuses types it does not know.
guest_read_frame(bytes) ==
    IF /\ Complete(bytes)
       /\ PayloadLen(bytes) <= MAX_PAYLOAD
       /\ \E name \in DOMAIN MessageType : MessageType[name] = bytes[1]
    THEN Some(Frame(bytes)) ELSE None

-----------------------------------------------------------------------------

Pad == 64          \* the character '='
Space == 65        \* white space
Digits == 0..63    \* the characters for which val is not None

\* Three bytes become four characters, the missing ones of the last three '='.
Quad(input, i) ==
    LET k == 3 * i - 2
        ByteAt(j) == IF j > Len(input) THEN 0 ELSE input[j]
        n == ByteAt(k) * 65536 + ByteAt(k + 1) * 256 + ByteAt(k + 2)
    IN <<n \div 262144, (n \div 4096) % 64,
         IF k + 1 > Len(input) THEN Pad ELSE (n \div 64) % 64,
         IF k + 2 > Len(input) THEN Pad ELSE n % 64>>

base64_encode(input) == Concat([i \in 1..((Len(input) + 2) \div 3) |-> Quad(input, i)])

\* base64_decode of the host: white space is skipped, characters are taken four
\* by four, and text that is left over is refused.
Visible(input) ==
    Concat([i \in DOMAIN input |-> IF input[i] = Space THEN <<>> ELSE <<input[i]>>])

Valid(q) == {q[1], q[2]} \subseteq Digits /\ {q[3], q[4]} \subseteq Digits \union {Pad}

Triple(q) ==
    LET Value(c) == IF c = Pad THEN 0 ELSE c
        n == q[1] * 262144 + q[2] * 4096 + Value(q[3]) * 64 + Value(q[4])
        pad == (IF q[3] = Pad THEN 1 ELSE 0) + (IF q[4] = Pad THEN 1 ELSE 0)
    IN SubSeq(<<n \div 65536, (n \div 256) % 256, n % 256>>, 1, 3 - pad)

host_base64_decode(input) ==
    LET text == Visible(input)
        quads == [k \in 1..(Len(text) \div 4) |-> SubSeq(text, 4 * k - 3, 4 * k)]
    IN IF Len(text) % 4 = 0 /\ \A k \in DOMAIN quads : Valid(quads[k])
       THEN Some(Concat([k \in DOMAIN quads |-> Triple(quads[k])])) ELSE None

-----------------------------------------------------------------------------

\* The JSON objects of fendd, and what the host reads from them.
OutputData(id, stream, bytes) == <<id, stream>> \o base64_encode(bytes)

parse_output_data(payload) ==
    IF Len(payload) < 2 THEN None
    ELSE Some([id |-> payload[1], stream |-> payload[2],
               data |-> SubSeq(payload, 3, Len(payload))])

ExitStatus(id, code) == <<id, code>>

parse_exit_status(payload) ==
    IF Len(payload) # 2 THEN None
    ELSE Some([id |-> payload[1], code |-> payload[2]])

=============================================================================
