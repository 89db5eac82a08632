---------------------------- MODULE MemcachedCodec ----------------------------
(* MemcachedCodec: the request decoder of the memcached text and binary        *)
(* protocols.  The buffer is a sequence of units: a word, a separator or a     *)
(* byte of a value in the text protocol; in the binary one the flag byte, the   *)
(* rest of the header, a field of the extras and a byte of a key or a value.    *)
EXTENDS Integers, Sequences, SequencesExt

CONSTANTS MemStreams,          \* the request streams of the instance
          KEY_MAX_LENGTH,      \* PROTO_MEMCACHED_KEY_MAX_LENGTH
          max_item_size,       \* memcached_max_item_size
          MaxPiece,            \* the most units that arrive at once
          LENGTH_MOD           \* lengths of a header are computed modulo this: 2^32 in the code

VARIABLES requests,  \* what the peer sends
          arrived,   \* how many units of the request being sent have arrived
          sent,      \* how many requests have arrived completely
          mbuf,      \* the input buffer
          mout,      \* the packets decoded
          mstate     \* "open", "ERROR", or "assert" and "undefined" after a fault

memVars == <<requests, arrived, sent, mbuf, mout, mstate>>

(***************************************************************************)
(* The text protocol                                                        *)
(***************************************************************************)
Storage == {"set", "add", "replace", "append", "prepend", "cas"}
WithVersion == (Storage \ {"cas"}) \cup {"incr", "decr", "delete"}
MemAgain == [st |-> "AGAIN"]
Fails(why) == [st |-> why]
Packed(n, argv, quiet, op) == [st |-> "SUCCESS", n |-> n, packet |-> [argv |-> argv, quiet |-> quiet, op |-> op]]

\* The end of the line at or after unit i, 0 when there is none.
FindEOL(i) ==
    LET eols == {k \in i .. Len(mbuf) : mbuf[k] = "\n"}
    IN  IF eols = {} THEN 0 ELSE CHOOSE k \in eols : \A l \in eols : k <= l

\* splitArgs(): a word counts once a blank or the carriage return follows it.
SplitArgs(line) ==
    FoldLeft(LAMBDA a, c : IF c \notin {" ", "\r"} THEN [a EXCEPT !.word = @ \o c]
                           ELSE IF a.word = "" THEN a
                           ELSE [args |-> Append(a.args, a.word), word |-> ""],
             [args |-> <<>>, word |-> ""], line).args

\* A word that is no number counts as a negative one: both are refused.
Atoi(w) == CASE w = "0" -> 0 [] w = "1" -> 1 [] w = "2" -> 2 [] w = "3" -> 3 [] OTHER -> -1

\* The data block behind the line, for a command that says its size in sizeArg.
DataBlock(newline, sizeArg, limit) ==
    LET bytes == Atoi(sizeArg)
        dataline == FindEOL(newline + 2)
    IN  CASE bytes < 0 -> Fails("ERROR")
          [] newline + 2 > Len(mbuf) + 1 -> Fails("assert")
          [] dataline = 0 -> MemAgain
          [] dataline - newline - 3 # bytes \/ bytes > limit -> Fails("ERROR")
          [] OTHER -> [st |-> "SUCCESS", value |-> SubSeq(mbuf, newline + 2, newline + 1 + bytes)]

\* processText(): two more units are skipped, the line feed of a data block;
\* a command without one loses two units of what follows it.
ProcessText ==
    LET eol == FindEOL(1)
        newline == IF eol > 1 /\ mbuf[eol - 1] = "\r" THEN eol - 1 ELSE eol
        argv == SplitArgs(SubSeq(mbuf, 1, newline))
        cmd == argv[1]
        block == CASE cmd \in Storage /\ Len(argv) < 5 -> Fails("ERROR")
                   [] cmd \in Storage /\ Len(argv) >= 5 -> DataBlock(newline, argv[5], max_item_size)
                   [] cmd = "mscan" /\ Len(argv) < 6 -> Fails("undefined")
                   [] cmd = "mscan" /\ Len(argv) >= 6 -> DataBlock(newline, argv[6], Len(mbuf))
                   [] OTHER -> [st |-> "SUCCESS", value |-> <<>>]
        more == (IF cmd \in Storage \cup {"mscan"} THEN <<block.value>>
                 ELSE IF cmd \in {"incr", "decr"} THEN <<"0", "0">> ELSE <<>>)
                \o (IF cmd \in WithVersion THEN <<"-1">> ELSE <<>>)
    IN  IF eol = 0 THEN MemAgain
        ELSE IF argv = <<>> THEN Fails("ERROR")
        ELSE IF Len(argv) >= 2 /\ Len(argv[2]) > KEY_MAX_LENGTH THEN Fails("ERROR")
        ELSE IF block.st # "SUCCESS" THEN block
        ELSE Packed(newline - 1 + (eol - newline + 1) + Len(block.value) + 2,
                    <<"memcache_" \o cmd>> \o Tail(argv) \o more, FALSE, "text")

(***************************************************************************)
(* The binary protocol                                                      *)
(***************************************************************************)
BINARY_REQ_FLAG == "0x80"
HEADER_LEN == 2
Quiet == [setq |-> "set", addq |-> "add", replaceq |-> "replace", deleteq |-> "delete", incrq |-> "incr", decrq |-> "decr",
          quitq |-> "quit", flushq |-> "flush", appendq |-> "append", prependq |-> "prepend", getq |-> "get", getkq |-> "getk",
          gatq |-> "gat"]

\* bodylen - keylen - extlen, unsigned: what the body leaves for the value.
Remaining(h) == (h.body - h.key - h.ext) % LENGTH_MOD
TakesRest == {"append", "prepend", "sasl_auth", "sasl_step"}

\* The header check of each command.
GoodHeader(op, ext, key, body) ==
    CASE op \in {"version", "quit", "noop", "sasl_list_mechs"} -> ext = 0 /\ key = 0 /\ body = 0
      [] op = "flush" -> ext = 1 /\ key = 0 /\ body = 1
      [] op \in {"set", "add", "replace"} -> ext = 2 /\ key # 0
      [] op \in TakesRest -> key > 0 /\ ext = 0
      [] op \in {"delete", "get", "getk"} -> ext = 0 /\ body = key /\ key > 0
      [] op \in {"incr", "decr"} -> key > 0 /\ ext = 3 /\ body = key + ext
      [] op \in {"touch", "gat"} -> ext = 1 /\ key > 0 /\ ext + key = body
      [] OTHER -> FALSE

\* The arguments behind the name, from the extras, the key and the value.
BinaryArgs(op, e, key, value, cas) ==
    CASE op = "flush" -> IF e[1] = "0" THEN <<>> ELSE <<e[1]>>
      [] op \in {"set", "add", "replace"} -> <<key, e[1], e[2], Len(value), value, cas>>
      [] op \in {"append", "prepend"} -> <<key, "0", "0", Len(value), value, cas>>
      [] op = "delete" -> <<key, cas>>
      [] op \in {"get", "getk"} -> <<key>>
      [] op \in {"incr", "decr"} -> <<key, e[1], e[2], e[3], cas>>
      [] op \in {"sasl_auth", "sasl_step"} -> <<key, value>>
      [] op \in {"touch", "gat"} -> <<key, e[1]>>
      [] OTHER -> <<>>

\* processBinary(): the whole frame is consumed, whatever of it the command
\* used.  A value longer than the frame is read from behind the buffer.
ProcessBinary ==
    LET h == mbuf[2]
        op == IF h.op \in DOMAIN Quiet THEN Quiet[h.op] ELSE h.op
        ext == SubSeq(mbuf, HEADER_LEN + 1, HEADER_LEN + h.ext)
        key == SubSeq(mbuf, HEADER_LEN + h.ext + 1, HEADER_LEN + h.ext + h.key)
        value == SubSeq(mbuf, HEADER_LEN + h.ext + h.key + 1, HEADER_LEN + h.body)
    IN  CASE Len(mbuf) < HEADER_LEN -> MemAgain
          [] Len(mbuf) >= HEADER_LEN /\ h.key > KEY_MAX_LENGTH -> Fails("ERROR")
          [] Len(mbuf) >= HEADER_LEN /\ h.key <= KEY_MAX_LENGTH /\ Len(mbuf) < HEADER_LEN + h.body -> MemAgain
          [] OTHER -> IF ~GoodHeader(op, h.ext, h.key, h.body) THEN Fails("ERROR")
                      ELSE IF op \in {"set", "add", "replace"} /\ Remaining(h) > max_item_size THEN Fails("ERROR")
                      ELSE IF op \in TakesRest /\ Remaining(h) > h.body THEN Fails("undefined")
                      ELSE Packed(HEADER_LEN + h.body, <<"memcache_" \o op>> \o BinaryArgs(op, ext, key, value, h.cas),
                                  h.op \in DOMAIN Quiet, h.op)

(***************************************************************************)
(* decodeRequest(), called until it wants more or fails                     *)
(***************************************************************************)
Decoded == IF mbuf = <<>> THEN MemAgain ELSE IF mbuf[1] = BINARY_REQ_FLAG THEN ProcessBinary ELSE ProcessText

DecodeRequest ==
    /\ mstate = "open"
    /\ Decoded.st # "AGAIN"
    /\ IF Decoded.st = "SUCCESS"
       THEN /\ mout' = Append(mout, Decoded.packet)
            /\ mbuf' = SubSeq(mbuf, Decoded.n + 1, Len(mbuf))
            /\ UNCHANGED mstate
       ELSE mstate' = Decoded.st /\ UNCHANGED <<mbuf, mout>>
    /\ UNCHANGED <<requests, arrived, sent>>

\* A request of the peer, with the arguments it means.  A text request has
\* words and, with a data block, a value; a binary one extras, a key and a value,
\* which its header counts, perhaps wrongly.
Malformed == <<>>
Joined(words) ==
    FoldLeft(LAMBDA line, w : line \o (IF line = <<>> THEN <<>> ELSE <<" ">>) \o w, <<>>, words)
Units(r) ==
    IF r.kind = "text"
    THEN Joined(r.words) \o <<"\r", "\n">> \o (IF r.block THEN r.value \o <<"\r", "\n">> ELSE <<>>)
    ELSE <<BINARY_REQ_FLAG, [op |-> r.op, ext |-> Len(r.ext), key |-> Len(r.key), cas |-> "cas",
                  body |-> r.body]>> \o r.ext \o r.key \o r.value

\* Some more units arrive.  The peer waits for the answer to a text command
\* that has no data block before it sends the next one.
Arrive ==
    /\ mstate = "open"
    /\ sent < Len(requests)
    /\ sent > 0 /\ arrived = 0 /\ requests[sent].kind = "text" /\ ~requests[sent].block => Len(mout) = sent
    /\ LET r == Units(requests[sent + 1])
       IN  \E n \in 1 .. MaxPiece :
             /\ arrived + n <= Len(r)
             /\ mbuf' = mbuf \o SubSeq(r, arrived + 1, arrived + n)
             /\ IF arrived + n = Len(r) THEN arrived' = 0 /\ sent' = sent + 1
                ELSE arrived' = arrived + n /\ UNCHANGED sent
    /\ UNCHANGED <<requests, mout, mstate>>

MemInit ==
    /\ requests \in MemStreams
    /\ arrived = 0 /\ sent = 0 /\ mbuf = <<>> /\ mout = <<>> /\ mstate = "open"

MemNext == Arrive \/ DecodeRequest

(***************************************************************************)
(* Properties                                                               *)
(***************************************************************************)
\* Two faults of the code: findEOL() takes a line feed inside a value for its
\* end, and nobody compares the length of a body with that of its key.
HoldsLineFeed(r) == r.kind = "text" /\ r.block /\ "\n" \in ToSet(r.value)
BodyShorterThanKey(r) == r.kind = "binary" /\ r.op \in TakesRest /\ r.body < Len(r.key)

\* The packets are the requests that were sent, in their order, however they
\* were cut into pieces; a request is refused only when it is malformed, or well
\* formed with a line feed in its value, and then nothing is made of what
\* follows it; only a body shorter than its key makes the decoder read outside
\* its buffer; and once everything has arrived nothing is left in the buffer
\* (MemcachedCodec::processText(), processBinary()).
RequestsAreReadBack ==
    /\ Len(mout) <= Len(requests)
    /\ \A i \in DOMAIN mout : requests[i].means # Malformed /\ mout[i].argv = requests[i].means
    /\ mstate # "open" => LET r == requests[Len(mout) + 1]
                         IN  \/ mstate = "ERROR" /\ (r.means = Malformed \/ HoldsLineFeed(r))
                             \/ mstate = "undefined" /\ BodyShorterThanKey(r)
    /\ mstate = "open" /\ sent = Len(requests) /\ Decoded.st = "AGAIN" => mbuf = <<>> /\ Len(mout) = sent
=============================================================================
