------------------------------ MODULE CotStreams ------------------------------
(***************************************************************************)
(* How messages are cut out of a TCP connection: _read_one_xml_event of    *)
(* services/gateway/listeners.py for CoT XML, try_decode_frame of          *)
(* normalizers/cot_pb.py with the loop of CoTPbTcpListener for protobuf.   *)
(*                                                                         *)
(* A client sends messages and perhaps something else after them, TCP      *)
(* delivers that in chunks of any size, and the client may hang up         *)
(* anywhere.  What becomes of a message afterwards is in Gateway.          *)
(***************************************************************************)
EXTENDS Naturals, Sequences, SequencesExt, FiniteSetsExt

CONSTANTS
    Wire,       \* what clients send: [proto, msgs, junk]
    GroupSize,  \* the values of a varint group: 2^7 in the code
    MaxGroups,  \* the groups after which a varint is too long: 6 in the code
    Magic       \* 0xBF: a byte with the continuation bit

ASSUME StreamAssumption ==
    /\ GroupSize \in Nat \ {0, 1} /\ MaxGroups \in Nat \ {0}
    /\ Magic \in GroupSize .. 2 * GroupSize - 1

VARIABLES
    wire,       \* what this client sends
    sent,       \* how much of it has been read
    buf,        \* buf, or _xml_buf: read and not consumed
    delivered,  \* the payloads handed to _handle_message
    phase       \* "open", "ended" by the client, "error": closed by the gateway

streamVars == <<wire, sent, buf, delivered, phase>>

\* What a decoder says of a buffer.
Incomplete == [got |-> "nothing", payload |-> <<>>, used |-> 0]
Malformed == [Incomplete EXCEPT !.got = "error"]
Got(payload, used) == [got |-> "message", payload |-> payload, used |-> used]

-----------------------------------------------------------------------------
(* Protobuf: magic, varint of the length, magic, payload.  A byte is a      *)
(* number below 2 * GroupSize, its upper half meaning that more follow.     *)
Byte == 0 .. 2 * GroupSize - 1

Varint(n) ==
    LET varint[k \in 0 .. n] ==
            IF k < GroupSize THEN <<k>>
            ELSE <<GroupSize + (k % GroupSize)>> \o varint[k \div GroupSize]
    IN  varint[n]

EncodeFrame(payload) == <<Magic>> \o Varint(Len(payload)) \o <<Magic>> \o payload

GroupsValue(bytes) ==
    FoldRight(LAMBDA b, value : (b % GroupSize) + GroupSize * value, bytes, 0)

FirstFinal(b) == SelectInSubSeq(b, 2, Len(b), LAMBDA byte : byte < GroupSize)

TryDecode(b) ==
    LET last == FirstFinal(b)
        end == last + 1 + GroupsValue(SubSeq(b, 2, last))
        continued == IF last = 0 THEN Len(b) - 1 ELSE last - 2
    IN  IF b = <<>> THEN Incomplete
        ELSE IF b[1] # Magic \/ continued >= MaxGroups THEN Malformed
        ELSE IF last \in {0, Len(b)} THEN Incomplete
        ELSE IF b[last + 1] # Magic THEN Malformed
        ELSE IF Len(b) < end THEN Incomplete
        ELSE Got(SubSeq(b, last + 2, end), end)

-----------------------------------------------------------------------------
(* XML: the text is made of the pieces "decl" (<?xml ...?>), "sp" (white    *)
(* space), "</event" and ">", and everything else of an event in one piece. *)
Event == {"ev1", "ev2"}

Leading(b) ==
    LET first == SelectInSubSeq(b, 1, Len(b), LAMBDA piece : piece # "sp")
    IN  IF first = 0 THEN Len(b) ELSE first - 1
Strip(b) == SubSeq(b, Leading(b) + 1, Len(b))

\* ET.fromstring: a declaration may only come first.
IsEvent(text) ==
    Strip(IF text[1] = "decl" THEN Tail(text) ELSE text) \in {<<e, "</event", ">">> : e \in Event}

ReadEvent(b) ==
    LET ends == {i \in 2 .. Len(b) : b[i - 1] = "</event" /\ b[i] = ">"}
        text == SubSeq(b, 1, Min(ends))
    IN  IF ends = {} THEN Incomplete
        ELSE IF ~IsEvent(text) THEN Malformed
        ELSE Got(text, Len(text) + Leading(SubSeq(b, Len(text) + 1, Len(b))))

-----------------------------------------------------------------------------
(* What a client sends: messages, and behind them something that no reader  *)
(* takes for a message, whichever part of it has arrived.                   *)
PbWire ==
    {w \in [proto : {"pb"}, msgs : Seq(Seq(Byte)), junk : Seq(Byte)] :
        /\ \A i \in DOMAIN w.msgs : Len(Varint(Len(w.msgs[i]))) <= MaxGroups
        /\ \A n \in 0 .. Len(w.junk) : TryDecode(SubSeq(w.junk, 1, n)).got # "message"}

XmlWire ==
    {w \in [proto : {"xml"}, msgs : Seq(Seq(STRING)), junk : Seq(STRING)] :
        /\ \A i \in DOMAIN w.msgs : Strip(w.msgs[i]) # <<>> /\ IsEvent(Strip(w.msgs[i]))
        /\ \A i \in 0 .. Leading(w.junk) : \A n \in i .. Len(w.junk) :
               ReadEvent(SubSeq(w.junk, i + 1, n)).got # "message"}

ASSUME WireAssumption == Wire \subseteq PbWire \cup XmlWire

-----------------------------------------------------------------------------
Encode(m) == IF wire.proto = "pb" THEN EncodeFrame(m) ELSE m
Encoded(n) == FlattenSeq([i \in 1 .. n |-> Encode(wire.msgs[i])])
Input == Encoded(Len(wire.msgs)) \o wire.junk

Answer == IF wire.proto = "pb" THEN TryDecode(buf) ELSE ReadEvent(buf)

StreamInit ==
    /\ wire \in Wire
    /\ sent = 0 /\ buf = <<>> /\ delivered = <<>>
    /\ phase = "open"

(* reader.read(4096), which the gateway awaits when it can go on no further. *)
Read(n) ==
    /\ phase = "open" /\ Answer.got = "nothing"
    /\ sent + n <= Len(Input)
    /\ sent' = sent + n
    /\ buf' = buf \o SubSeq(Input, sent + 1, sent + n)
    /\ UNCHANGED <<wire, delivered, phase>>

\* Mutant of Deliver: the buffer is cleared.
Deliver_Clear ==
    /\ phase = "open" /\ Answer.got = "message"
    /\ delivered' = Append(delivered, Answer.payload)
    /\ buf' = <<>>
    /\ UNCHANGED <<wire, sent, phase>>
Deliver ==
    /\ phase = "open" /\ Answer.got = "message"
    /\ delivered' = Append(delivered, Answer.payload)
    /\ buf' = SubSeq(buf, Answer.used + 1, Len(buf))
    /\ UNCHANGED <<wire, sent, phase>>

\* Counted as a parse error, and the connection is closed.
Reject ==
    /\ phase = "open" /\ Answer.got = "error"
    /\ phase' = "error"
    /\ UNCHANGED <<wire, sent, buf, delivered>>

(* The client hangs up: half an event is an error, half a frame is dropped. *)
HangUp ==
    /\ phase = "open" /\ Answer.got = "nothing"
    /\ phase' = IF wire.proto = "xml" /\ Strip(buf) # <<>> THEN "error" ELSE "ended"
    /\ UNCHANGED <<wire, sent, buf, delivered>>

StreamNext ==
    \/ \E n \in 1 .. Len(Input) : Read(n)
    \/ Deliver \/ Reject \/ HangUp

-----------------------------------------------------------------------------
(* What is delivered does not depend on how TCP cuts the stream: it is the  *)
(* messages the client sent, each once it is whole and none before, and     *)
(* none is missing when the connection ends; a connection whose client      *)
(* sends only messages is not closed.  Not so for an event whose XML        *)
(* declaration comes after white space: that is stripped only if it came    *)
(* with the chunk that ended the event before, and does not parse if not.   *)
Arrived == Max({n \in 0 .. Len(wire.msgs) : Len(Encoded(n)) <= sent})
Spaced == wire.proto = "xml" /\ \E i \in 1 .. Len(Input) - 1 : Input[i] = "sp" /\ Input[i + 1] = "decl"
Text(m) == IF wire.proto = "pb" THEN m ELSE Strip(m)

MessagesExact ==
    /\ Len(delivered) <= Arrived
    /\ \A i \in DOMAIN delivered : Text(delivered[i]) = Text(wire.msgs[i])
    /\ phase # "open" /\ ~Spaced => Len(delivered) = Arrived
    /\ phase = "error" /\ ~Spaced =>
           \/ sent > Len(Encoded(Len(wire.msgs)))
           \/ wire.proto = "xml" /\ Len(Encoded(Arrived)) < sent

=============================================================================
