------------------------------ MODULE RespCodec ------------------------------
(* protocol::RESP2Codec and RESP3Codec, client side: decodeResponse() is fed   *)
(* the stream of replies in chunks cut anywhere and keeps what it has parsed   *)
(* in resp_packet_.  A byte is a string; a number in the stream is one byte.   *)
EXTENDS Integers, Sequences, SequencesExt, TLC

CONSTANTS ReplyStreams, Junk, MaxChunk, PROTO_RESP_INLINE_MAX_SIZE

VARIABLES
    resp3,      \* the codec is a RESP3Codec
    replies,    \* the replies the server sends
    netStream,  \* the bytes on their way
    buf,        \* the connection's input buffer
    frames,     \* resp_packet_ and, inside it, the curr_parse_packet_ of each aggregate
    size_,      \* the bytes resp_packet_ has consumed: packet_size_
    decoded,    \* the packets decodeResponse() has returned, with their size
    decodeErr   \* it has returned ERROR: the client gives the connection up

respVars == <<resp3, replies, netStream, buf, frames, size_, decoded, decodeErr>>

CRLF == <<"\r", "\n">>
Packet(m, v) == [m |-> m, v |-> v, nil |-> FALSE]
Nil(m) == [m |-> m, v |-> <<>>, nil |-> TRUE]      \* PacketType::TYPE_NULL
NOT_SET_SIZE == -2
NumberText == ("-1" :> -1) @@ ("0" :> 0) @@ ("1" :> 1) @@ ("2" :> 2) @@ ("3" :> 3) @@ ("4" :> 4) @@ ("5" :> 5)
Text(n) == CHOOSE t \in DOMAIN NumberText : NumberText[t] = n

LinePackets == {"+", "-", ":", ",", "(", "#", "_"}
BulkPackets == {"$", "=", "!"}
PairPackets == {"%", "|"}
ArrayPackets == {"*", "~", ">"}
Resp2Packets == {"+", "-", ":", "$", "*"}

(***************************************************************************)
(* encodeRESP3() (and encodeRESP2() for the packets RESP2 has)              *)
(***************************************************************************)
EncodeBulk(p) == <<p.m, Text(Len(p.v))>> \o CRLF \o p.v \o CRLF

RECURSIVE Encode(_)
EncodeAll(ps) == FlattenSeq([i \in DOMAIN ps |-> Encode(ps[i])])
EncodeMap(p) == <<p.m, Text(Len(p.v) \div 2)>> \o CRLF \o EncodeAll(p.v)
Encode(p) ==
    IF p.m \in LinePackets THEN <<p.m>> \o p.v \o CRLF
    ELSE IF p.nil THEN <<p.m, "-1">> \o CRLF
    ELSE IF p.m \in BulkPackets THEN EncodeBulk(p)
    ELSE IF p.m \in PairPackets THEN EncodeMap(p)
    ELSE <<p.m, Text(Len(p.v))>> \o CRLF \o EncodeAll(p.v)

RespInit ==
    /\ resp3 \in BOOLEAN /\ replies \in ReplyStreams
    /\ netStream \in IF replies = <<>> THEN Junk ELSE {EncodeAll(replies)}
    /\ buf = <<>> /\ frames = <<>> /\ size_ = 0 /\ decoded = <<>> /\ decodeErr = FALSE

(***************************************************************************)
(* One step of decode(): its outcome is AGAIN, ERROR or the new frames, the  *)
(* bytes skipped and the packet that is complete.                            *)
(***************************************************************************)
Again == [out |-> "again"]
Error == [out |-> "error"]
Goes(f, n) == [out |-> "on", frames |-> f, skip |-> n]

\* A packet is complete: the aggregate around it takes it, or it is returned.
Completes(p, outer, n) ==
    IF outer = <<>> THEN [out |-> "packet", packet |-> p, skip |-> n]
    ELSE Goes([outer EXCEPT ![Len(outer)].v = Append(@, p), ![Len(outer)].n = @ - 1], n)

\* findCRLF() from the byte after the magic; 0 if there is none.
FindCRLF == SelectInSeq([i \in 1 .. Len(buf) - 1 |-> i > 1 /\ SubSeq(buf, i, i + 1) = CRLF], LAMBDA b : b)

\* RESPPacketFactory::createPacket() on the first byte of a packet.
CreatePacket ==
    IF buf[1] \notin LinePackets \cup BulkPackets \cup PairPackets \cup ArrayPackets THEN Error
    ELSE IF ~resp3 /\ buf[1] \notin Resp2Packets THEN Error
    ELSE Goes(Append(frames, [m |-> buf[1], n |-> NOT_SET_SIZE, v |-> <<>>]), 0)

\* The packets of one line: its text, once the line end is there.
TextLine == SubSeq(buf, 2, FindCRLF - 1)
DecodeSimpleString(top, outer) ==
    IF FindCRLF = 0 THEN Again ELSE Completes(Packet(top.m, TextLine), outer, FindCRLF + 1)

DecodeInteger(top, outer) ==
    IF FindCRLF # 0 /\ (Len(TextLine) # 1 \/ buf[2] \notin DOMAIN NumberText) THEN Error ELSE DecodeSimpleString(top, outer)
DecodeDouble(top, outer) ==
    IF FindCRLF # 0 /\ (Len(TextLine) # 1 \/ buf[2] \notin DOMAIN NumberText \cup {"inf", "-inf"}) THEN Error
    ELSE DecodeSimpleString(top, outer)
DecodeBigNumber(top, outer) == IF FindCRLF # 0 /\ TextLine = <<>> THEN Error ELSE DecodeSimpleString(top, outer)

\* Null and Boolean have a fixed size and do not look further.
DecodeNull(top, outer) ==
    IF Len(buf) < 3 THEN Again
    ELSE IF SubSeq(buf, 2, 3) # CRLF THEN Error ELSE Completes(Packet(top.m, <<>>), outer, 3)
DecodeBoolean(top, outer) ==
    IF Len(buf) < 4 THEN Again
    ELSE IF buf[2] \notin {"t", "f"} \/ SubSeq(buf, 3, 4) # CRLF THEN Error ELSE Completes(Packet(top.m, <<buf[2]>>), outer, 4)

DecodeLine(top, outer) ==
    CASE top.m = ":" -> DecodeInteger(top, outer)
      [] top.m = "," -> DecodeDouble(top, outer)
      [] top.m = "(" -> DecodeBigNumber(top, outer)
      [] top.m = "_" -> DecodeNull(top, outer)
      [] top.m = "#" -> DecodeBoolean(top, outer)
      [] OTHER       -> DecodeSimpleString(top, outer)

\* The count of a bulk or an aggregate: -1 is a null, which only bulk strings
\* and arrays may be; a map's is the number of pairs.
DecodeSize(top, outer) ==
    LET n == NumberText[buf[2]] IN
    IF FindCRLF = 0 THEN IF Len(buf) > PROTO_RESP_INLINE_MAX_SIZE THEN Error ELSE Again
    ELSE IF FindCRLF # 3 \/ buf[2] \notin DOMAIN NumberText THEN Error
    ELSE IF n = -1 /\ top.m \notin {"$", "*"} THEN Error
    ELSE IF n = -1 THEN Completes(Nil(top.m), outer, FindCRLF + 1)
    ELSE Goes([frames EXCEPT ![Len(frames)].n = IF top.m \in PairPackets THEN 2 * n ELSE n], FindCRLF + 1)

\* Mutant of DecodeBulk: the bytes are taken when they are there, without
\* waiting for the line end after them.
DecodeBulkEarly(top, outer) ==
    IF Len(buf) < top.n THEN Again
    ELSE Completes(Packet(top.m, SubSeq(buf, 1, top.n)), outer, top.n + (IF Len(buf) < top.n + 2 THEN 0 ELSE 2))

\* The bytes of a bulk string and the line end after them; a verbatim string
\* begins with the four bytes of its format.
DecodeBulk(top, outer) ==
    IF Len(buf) < top.n + 2 THEN Again
    ELSE IF top.m = "=" /\ top.n < 4 THEN Error
    ELSE Completes(Packet(top.m, SubSeq(buf, 1, top.n)), outer, top.n + 2)

DecodeOnce ==
    LET top == Last(frames)
        outer == Front(frames)
    IN  IF frames # <<>> /\ top.n = 0 /\ top.m \notin BulkPackets
        THEN Completes(Packet(top.m, top.v), outer, 0)          \* the while loop is over
        ELSE IF buf = <<>> THEN Again
        ELSE IF frames = <<>> THEN CreatePacket
        ELSE IF top.m \in LinePackets THEN DecodeLine(top, outer)
        ELSE IF top.n = NOT_SET_SIZE THEN DecodeSize(top, outer)
        ELSE IF top.m \in BulkPackets THEN DecodeBulk(top, outer)
        ELSE CreatePacket

\* decodeResponse() goes on until it needs more bytes, fails or has a packet.
DecodeResponse ==
    LET r == DecodeOnce IN
    /\ ~decodeErr /\ r.out # "again"
    /\ decodeErr' = (r.out = "error")
    /\ IF r.out = "error" THEN UNCHANGED <<buf, frames, size_, decoded>>
       ELSE /\ buf' = SubSeq(buf, r.skip + 1, Len(buf))
            /\ IF r.out = "packet"
               THEN decoded' = Append(decoded, <<r.packet, size_ + r.skip>>) /\ size_' = 0 /\ frames' = <<>>
               ELSE frames' = r.frames /\ size_' = size_ + r.skip /\ UNCHANGED decoded
    /\ UNCHANGED <<resp3, replies, netStream>>

\* The next bytes arrive when decodeResponse() has returned AGAIN.
ReadChunk ==
    /\ ~decodeErr /\ netStream # <<>> /\ DecodeOnce.out = "again"
    /\ \E k \in 1 .. MaxChunk :
          /\ k <= Len(netStream)
          /\ buf' = buf \o SubSeq(netStream, 1, k) /\ netStream' = SubSeq(netStream, k + 1, Len(netStream))
    /\ UNCHANGED <<resp3, replies, frames, size_, decoded, decodeErr>>

RespNext == DecodeResponse \/ ReadChunk

(***************************************************************************)
(* Properties                                                               *)
(***************************************************************************)
RECURSIVE Packets(_)
Packets(p) == {p.m} \cup (IF p.m \in PairPackets \cup ArrayPackets
                          THEN UNION {Packets(p.v[i]) : i \in DOMAIN p.v} ELSE {})
Understood == \A i \in DOMAIN replies : resp3 \/ Packets(replies[i]) \subseteq Resp2Packets

\* Wherever the stream is cut, the packets decoded are the replies sent, in
\* order, each with the size of its encoding.
DecodesWhatWasSent ==
    IsPrefix(decoded, [i \in DOMAIN replies |-> <<replies[i], Len(Encode(replies[i]))>>])

\* A well-formed stream is decoded to its end without an error, and leaves
\* nothing behind in the buffer or in a half-parsed packet.
NothingIsLeftOver ==
    /\ replies # <<>> /\ Understood => ~decodeErr
    /\ replies # <<>> /\ Understood /\ netStream = <<>> /\ DecodeOnce.out = "again" =>
          buf = <<>> /\ frames = <<>> /\ Len(decoded) = Len(replies)

\* What is not a reply is refused, never taken for one.
JunkIsRefused ==
    replies = <<>> => decoded = <<>> /\ (netStream = <<>> => DecodeOnce.out # "again")
=============================================================================
