------------------------------ MODULE TairReply ------------------------------
(* What a reply packet becomes on its way to the caller's callback:         *)
(* TairResultHelper and the casts of RESPPacketHelper.  The payload of a     *)
(* string or an integer is abstracted to a natural number.                   *)
EXTENDS Integers, Sequences, SequencesExt

(***************************************************************************)
(* Packets of the RESP2 codec.  A null array or a null bulk string is a     *)
(* packet of that class whose type_ is TYPE_NULL.                           *)
(***************************************************************************)
Packet(class, null, value, elems) ==
    [class |-> class, null |-> null, value |-> value, elems |-> elems]

EmptyString == -1
IntegerPacket(n) == Packet("integer", FALSE, n, <<>>)
SimpleStringPacket == Packet("simple", FALSE, 1, <<>>)
ErrorPacket == Packet("error", FALSE, 1, <<>>)
BulkStringPacket(n) == Packet("bulk", FALSE, n, <<>>)
NullBulk == Packet("bulk", TRUE, EmptyString, <<>>)
ArrayPacket(elems) == Packet("array", FALSE, 0, elems)
NullArray == Packet("array", TRUE, 0, <<>>)
\* The null PacketPtr a broken connection hands to every pending callback.
NoPacket == Packet("none", TRUE, 0, <<>>)

(***************************************************************************)
(* TairResult: a value, here the payloads it carries in order (NullPtr for  *)
(* a null pointer), or an error text; Crash is a failed runtimeAssert or a  *)
(* null dereference.                                                        *)
(***************************************************************************)
NullPtr == -2
Value(payloads) == [kind |-> "value", payloads |-> payloads, err |-> ""]
Err(text) == [kind |-> "err", payloads |-> <<>>, err |-> text]
Crash == [kind |-> "crash", payloads |-> <<>>, err |-> ""]

IsClass(p, class) == p.class = class
AllOf(elems, class) == \A i \in DOMAIN elems : IsClass(elems[i], class)
Payloads(elems) == [i \in DOMAIN elems |-> elems[i].value]
PayloadOrNull(p) == IF p.null THEN NullPtr ELSE p.value

\* The longest prefix of common bulk strings: what moveBulks has moved when it
\* stops, with its return value.
MoveBulks(elems) ==
    LET bad == {i \in DOMAIN elems : elems[i].class # "bulk" \/ elems[i].null}
        stop == CHOOSE i \in bad : \A j \in bad : i <= j
    IN  IF bad = {} THEN [ok |-> TRUE, moved |-> Payloads(elems)]
        ELSE [ok |-> FALSE, moved |-> Payloads(SubSeq(elems, 1, stop - 1))]

MoveIntegers(elems) == [ok |-> AllOf(elems, "integer"), moved |-> Payloads(elems)]

(***************************************************************************)
(* The builders, one per shape of result.                                   *)
(***************************************************************************)
VectorStringBuilder(ap) ==
    LET m == MoveBulks(ap.elems)
    IN  IF m.ok THEN Value(m.moved) ELSE Err("decode vector string failed")

VectorIntegerBuilder(ap) ==
    LET m == MoveIntegers(ap.elems)
    IN  IF m.ok THEN Value(m.moved) ELSE Err("decode vector integer failed")

VectorIntegerPtrBuilder(ap) ==
    IF \A i \in DOMAIN ap.elems :
          IsClass(ap.elems[i], "integer") \/ (IsClass(ap.elems[i], "bulk") /\ ap.elems[i].null)
    THEN Value([i \in DOMAIN ap.elems |-> PayloadOrNull(ap.elems[i])])
    ELSE Crash

VectorStringPtrBuilder(ap) ==
    IF AllOf(ap.elems, "bulk")
    THEN Value([i \in DOMAIN ap.elems |-> PayloadOrNull(ap.elems[i])])
    ELSE Crash

StringPtrBuilder(p) == Value(<<PayloadOrNull(p)>>)

\* The cursor, then what moveBulks could move: its result is not looked at.
ScanResultBuilder(ap) ==
    IF Len(ap.elems) # 2 THEN Crash
    ELSE IF IsClass(ap.elems[1], "bulk") /\ IsClass(ap.elems[2], "array")
         THEN Value(<<ap.elems[1].value>> \o MoveBulks(ap.elems[2].elems).moved)
         ELSE Err("decode scan result failed")

GeoposResultBuilder(ap) ==
    LET Pos(p) == IF IsClass(p, "array") /\ ~p.null THEN Payloads(SubSeq(p.elems, 1, 2)) ELSE <<NullPtr>>
        Known(p) == IsClass(p, "array") /\ ~p.null
    IN  IF \E i \in DOMAIN ap.elems : Known(ap.elems[i]) /\ Len(ap.elems[i].elems) < 2 THEN Crash
        ELSE IF \E i \in DOMAIN ap.elems : Known(ap.elems[i]) /\ ~AllOf(SubSeq(ap.elems[i].elems, 1, 2), "bulk")
             THEN Err("decode geopos result failed")
             ELSE Value(FlattenSeq([i \in DOMAIN ap.elems |-> Pos(ap.elems[i])]))

\* The casts are not checked: a reply of another shape is a null dereference.
XpendingResultBuilder(ap) ==
    LET e == ap.elems
        Pair(p) == Payloads(SubSeq(p.elems, 1, 2))
    IN  IF Len(e) # 4 \/ ~IsClass(e[1], "integer") THEN Crash
        ELSE IF e[1].value = 0 THEN Value(<<0>>)
        ELSE IF /\ IsClass(e[2], "bulk") /\ IsClass(e[3], "bulk") /\ IsClass(e[4], "array")
                /\ AllOf(e[4].elems, "array")
                /\ \A i \in DOMAIN e[4].elems : /\ Len(e[4].elems[i].elems) >= 2
                                                /\ AllOf(SubSeq(e[4].elems[i].elems, 1, 2), "bulk")
             THEN Value(<<e[1].value, e[2].value, e[3].value>>
                        \o FlattenSeq([i \in DOMAIN e[4].elems |-> Pair(e[4].elems[i])]))
             ELSE Crash

\* An entry of a stream: an array of its id and an array of its fields.
IsEntry(p) == IsClass(p, "array") /\ Len(p.elems) >= 2 /\ IsClass(p.elems[1], "bulk") /\ IsClass(p.elems[2], "array")
EntryPayloads(p) == <<p.elems[1].value>> \o MoveBulks(p.elems[2].elems).moved

XrangeResultBuilder(ap) ==
    IF \E i \in DOMAIN ap.elems : ~IsClass(ap.elems[i], "array") \/ Len(ap.elems[i].elems) < 2 THEN Crash
    ELSE IF \E i \in DOMAIN ap.elems : ~IsEntry(ap.elems[i]) THEN Err("decode xrange result failed")
    ELSE Value(FlattenSeq([i \in DOMAIN ap.elems |-> EntryPayloads(ap.elems[i])]))

\* Only the first entry of each stream, sinfo[0], is kept.
XreadResultBuilder(ap) ==
    LET Stream(p) == <<p.elems[1].value>>
                     \o (IF p.elems[2].elems = <<>> THEN <<>> ELSE EntryPayloads(p.elems[2].elems[1]))
        Fine(p) == /\ IsEntry(p)
                   /\ p.elems[2].elems # <<>> => IsEntry(p.elems[2].elems[1])
    IN  IF ap.null THEN Value(<<>>)
        ELSE IF \E i \in DOMAIN ap.elems : ~Fine(ap.elems[i]) THEN Crash
        ELSE Value(FlattenSeq([i \in DOMAIN ap.elems |-> Stream(ap.elems[i])]))

(***************************************************************************)
(* The three ways from a PacketPtr to a result.                             *)
(***************************************************************************)
Refused(p) ==
    IF p = NoPacket THEN Err("connection error, response is null")
    ELSE IF IsClass(p, "error") THEN Err("error of the server") ELSE Err("unknown return type")

DoCallbackOneResult(class, p) == IF IsClass(p, class) THEN Value(<<p.value>>) ELSE Refused(p)

DoCallbackByBuilder(class, built, p) == IF IsClass(p, class) THEN built ELSE Refused(p)

\* No test for a null response, and anything but an integer is a null pointer.
DoIntegerPtrCallback(p) ==
    IF p = NoPacket THEN Crash
    ELSE Value(<<IF IsClass(p, "integer") THEN p.value ELSE NullPtr>>)

\* The result a method's helper makes of a reply; Raw hands the packet over.
Decode(helper, p) ==
    CASE helper = "Integer"     -> DoCallbackOneResult("integer", p)
      [] helper = "Status"      -> DoCallbackOneResult("simple", p)
      [] helper = "Bulk"        -> DoCallbackOneResult("bulk", p)
      [] helper = "StringPtr"   -> DoCallbackByBuilder("bulk", StringPtrBuilder(p), p)
      [] helper = "Strings"     -> DoCallbackByBuilder("array", VectorStringBuilder(p), p)
      [] helper = "StringPtrs"  -> DoCallbackByBuilder("array", VectorStringPtrBuilder(p), p)
      [] helper = "Integers"    -> DoCallbackByBuilder("array", VectorIntegerBuilder(p), p)
      [] helper = "IntegerPtrs" -> DoCallbackByBuilder("array", VectorIntegerPtrBuilder(p), p)
      [] helper = "IntegerPtr"  -> DoIntegerPtrCallback(p)
      [] helper = "Scan"        -> DoCallbackByBuilder("array", ScanResultBuilder(p), p)
      [] helper = "Geopos"      -> DoCallbackByBuilder("array", GeoposResultBuilder(p), p)
      [] helper = "XPending"    -> DoCallbackByBuilder("array", XpendingResultBuilder(p), p)
      [] helper = "XRange"      -> DoCallbackByBuilder("array", XrangeResultBuilder(p), p)
      [] helper = "Xread"       -> DoCallbackByBuilder("array", XreadResultBuilder(p), p)
      [] helper = "Raw"         -> IF p = NoPacket THEN Err("null packet") ELSE Value(<<p.value>>)

(***************************************************************************)
(* The payloads of a reply, in order, arrays within arrays.                 *)
(***************************************************************************)
Flattened(P(_), p) ==
    IF p.null THEN <<>>
    ELSE IF IsClass(p, "array") THEN FlattenSeq([i \in DOMAIN p.elems |-> P(p.elems[i])])
    ELSE <<p.value>>
Twice(P(_), p) == Flattened(LAMBDA q : Flattened(P, q), p)
\* Six arrays deep; a stream of entries is five.
PayloadsOf(p) ==
    LET Leaf(q) == IF q.null THEN <<>> ELSE <<q.value>>
    IN  Twice(LAMBDA q : Twice(LAMBDA r : Twice(Leaf, r), q), p)

Delivered(r) == SelectSeq(r.payloads, LAMBDA v : v # NullPtr)
=============================================================================
