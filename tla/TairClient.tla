------------------------------ MODULE TairClient ------------------------------
(* A TairClient from init() to destroy(): the facade, the standalone and the  *)
(* cluster client below it, and one command at a time travelling down through *)
(* the layers and its reply back up.  Interleavings of several commands on    *)
(* one connection are TairBaseClient's subject; here every reply, an error    *)
(* and a lost connection may answer each command.                             *)
EXTENDS TairRoutes

CONSTANTS
    Nodes,        \* addresses of cluster nodes; also the standalone server's
    NodesReplies, \* the answers to CLUSTER NODES considered, sequences of lines
    RawArgvs,     \* the argvs given to sendCommand
    MaxList,      \* the longest list argument
    MaxAddrs,     \* the longest list of server_addrs
    SLOTS_NUM,    \* the number of slots, 16384 in KeyHash
    KeySlot(_)    \* KeyHash.keyHashSlot of a word of a raw command

Slots == 0 .. SLOTS_NUM - 1
NoClient == "null"

VARIABLES
    itair_,           \* "null", "standalone" or "cluster"
    tcp,              \* the standalone client: "none" (no tcp_client_), "refused"
                      \* (tcp_client_ but no codec_ yet) or "up" (once connected)
    slot_to_clients_, \* the cluster client's table, slot -> node or NoClient
    client_map_,      \* the nodes the cluster client keeps a client for
    addrs,            \* server_addrs the running init() has still to try
    ready,            \* the last init() of this client returned a value
    stale,            \* an earlier attempt of this client emptied client_map_ and
                      \* left slots with a client behind
    parse,            \* what an attempt has still to parse of the answer to CLUSTER
                      \* NODES: lines, and the slot items of the master addr
    call              \* the command under way

vars == <<itair_, tcp, slot_to_clients_, client_map_, addrs, ready, stale, parse, call>>

\* An address as a string, which may be empty.
Addresses == Nodes \cup {""}
Items == [kind : {"range", "migrating", "bad"}, lo : Nat, hi : Nat]
Lines == [fields : Nat, master : BOOLEAN, addr : Addresses, items : Seq(Items)]
ASSUME ClientAssumption ==
    /\ NoClient \notin Nodes /\ "" \notin Nodes
    /\ MaxList \in Nat /\ MaxAddrs \in Nat /\ SLOTS_NUM \in Nat \ {0}
    /\ NodesReplies \subseteq Seq(Lines)
    /\ \A argv \in RawArgvs : \A i \in DOMAIN argv : KeySlot(argv[i]) \in Slots

NoParse == [on |-> FALSE, lines |-> <<>>, addr |-> "", items |-> <<>>]

NoResult == Err("")
NewCall(m, keys, n) ==
    [phase |-> "sent", m |-> m, keys |-> keys, n |-> n, node |-> NoClient,
     reply |-> NoPacket, result |-> NoResult, calls |-> 0]
Idle == [NewCall(<<"", "">>, <<>>, 0) EXCEPT !.phase = "idle"]

Init ==
    /\ itair_ = "null" /\ tcp = "none" /\ addrs = <<>> /\ ready = FALSE /\ stale = FALSE
    /\ slot_to_clients_ = [s \in Slots |-> NoClient] /\ client_map_ = {}
    /\ parse = NoParse /\ call = Idle

TypeOK ==
    /\ itair_ \in {"null", "standalone", "cluster"} /\ tcp \in {"none", "refused", "up"}
    /\ slot_to_clients_ \in [Slots -> Nodes \cup {NoClient}] /\ client_map_ \subseteq Nodes
    /\ addrs \in Seq(Addresses) /\ ready \in BOOLEAN /\ stale \in BOOLEAN
    /\ parse \in [on : BOOLEAN, lines : Seq(Lines), addr : Addresses, items : Seq(Items)]
    /\ call.phase \in {"idle", "sent", "done"}

(***************************************************************************)
(* TairClient.init() and destroy()                                          *)
(***************************************************************************)
\* itair_ is overwritten: the client of an earlier init() is never destroyed.
NewClient(type) ==
    /\ itair_' = type /\ tcp' = "none"
    /\ slot_to_clients_' = [s \in Slots |-> NoClient] /\ client_map_' = {}
    /\ ready' = FALSE /\ stale' = FALSE

\* init(uri): a list of addresses may be empty, and an address empty.
StartInit(type, list) ==
    /\ call = Idle /\ addrs = <<>>
    /\ IF type = "sentinel"
       THEN UNCHANGED <<itair_, tcp, slot_to_clients_, client_map_, addrs, ready, stale>>
       ELSE /\ NewClient(type)
            /\ addrs' = IF type = "standalone" /\ Len(list) # 1 THEN <<>> ELSE list
    /\ UNCHANGED <<parse, call>>

\* The loop over server_addrs: the next address, or the end of init().
NextAddr(ok) == ready' = ok /\ addrs' = IF ok THEN <<>> ELSE Tail(addrs)

InitEmptyAddr ==
    /\ addrs # <<>> /\ Head(addrs) = ""
    /\ addrs' = <<>> /\ ready' = FALSE
    /\ UNCHANGED <<itair_, tcp, slot_to_clients_, client_map_, stale, parse, call>>

\* Mutant of InitStandalone: a refused connection counts as a success.
InitStandaloneUnchecked ==
    /\ addrs # <<>> /\ Head(addrs) # "" /\ itair_ = "standalone"
    /\ tcp' \in {"refused", "up"} /\ NextAddr(TRUE)
    /\ UNCHANGED <<itair_, slot_to_clients_, client_map_, stale, parse, call>>

\* connect().get(): refused, connected but not authenticated, or ready.
InitStandalone ==
    /\ addrs # <<>> /\ Head(addrs) # "" /\ itair_ = "standalone"
    /\ \/ tcp' = "refused" /\ NextAddr(FALSE)
       \/ tcp' = "up" /\ \E authenticated \in BOOLEAN : NextAddr(authenticated)
    /\ UNCHANGED <<itair_, slot_to_clients_, client_map_, stale, parse, call>>

(***************************************************************************)
(* TairClusterAsyncClient.init(): one step up to the answer to CLUSTER      *)
(* NODES, one for each line of it and each slot item of a master's line,    *)
(* and the check at the end.                                                *)
(***************************************************************************)
\* Mutant of CreateClient: the new client is not put into client_map_.
CreateClientForgets(addr) == {[ok |-> TRUE, map |-> client_map_], [ok |-> (addr \in client_map_), map |-> client_map_]}

\* The client that is known, or a new one if it connects.
CreateClient(addr) ==
    IF addr \in client_map_ THEN {[ok |-> TRUE, map |-> client_map_]}
    ELSE {[ok |-> TRUE, map |-> client_map_ \cup {addr}], [ok |-> FALSE, map |-> client_map_]}

CheckSlotToClients == \A s \in Slots : slot_to_clients_[s] # NoClient

\* A failure after the first connection: client_map_ is emptied, the slots stay.
AttemptFails ==
    /\ NextAddr(FALSE) /\ client_map_' = {} /\ parse' = NoParse
    /\ stale' = (stale \/ \E s \in Slots : slot_to_clients_[s] # NoClient)

InitCluster ==
    /\ addrs # <<>> /\ Head(addrs) # "" /\ itair_ = "cluster" /\ ~parse.on
    /\ \E seed \in CreateClient(Head(addrs)) :
          \/ ~seed.ok /\ NextAddr(FALSE) /\ UNCHANGED <<client_map_, stale, parse>>
          \/ seed.ok /\ AttemptFails
          \/ /\ seed.ok /\ client_map_' = seed.map
             /\ \E lines \in NodesReplies : parse' = [NoParse EXCEPT !.on = TRUE, !.lines = lines]
             /\ UNCHANGED <<addrs, ready, stale>>
    /\ UNCHANGED <<itair_, tcp, slot_to_clients_, call>>

\* A line: too short, no master, no address, or a master with its slots.
ParseLine ==
    /\ parse.on /\ parse.items = <<>> /\ parse.lines # <<>>
    /\ LET line == Head(parse.lines)
           used == line.fields >= 9 /\ line.master
       IN  \/ /\ ~used /\ parse' = [parse EXCEPT !.lines = Tail(parse.lines)]
              /\ UNCHANGED <<client_map_, addrs, ready, stale>>
           \/ used /\ line.addr = "" /\ AttemptFails
           \/ /\ used /\ line.addr # ""
              /\ \E c \in CreateClient(line.addr) :
                    \/ ~c.ok /\ AttemptFails
                    \/ /\ c.ok /\ client_map_' = c.map
                       /\ parse' = [parse EXCEPT !.lines = Tail(parse.lines), !.addr = line.addr, !.items = line.items]
                       /\ UNCHANGED <<addrs, ready, stale>>
    /\ UNCHANGED <<itair_, tcp, slot_to_clients_, call>>

\* A slot item: "[" ends the line, a bad item the parse, a range gets the client.
ParseItem ==
    /\ parse.items # <<>>
    /\ LET item == Head(parse.items)
       IN  \/ /\ item.kind = "migrating" /\ parse' = [parse EXCEPT !.items = <<>>]
              /\ UNCHANGED <<slot_to_clients_, client_map_, addrs, ready, stale>>
           \/ item.kind = "bad" /\ AttemptFails /\ UNCHANGED slot_to_clients_
           \/ /\ item.kind = "range" /\ parse' = [parse EXCEPT !.items = Tail(parse.items)]
              /\ slot_to_clients_' = [s \in Slots |-> IF s \in item.lo .. item.hi THEN parse.addr ELSE slot_to_clients_[s]]
              /\ UNCHANGED <<client_map_, addrs, ready, stale>>
    /\ UNCHANGED <<itair_, tcp, call>>

ParseEnds ==
    /\ parse.on /\ parse.lines = <<>> /\ parse.items = <<>>
    /\ NextAddr(CheckSlotToClients) /\ parse' = NoParse
    /\ UNCHANGED <<itair_, tcp, slot_to_clients_, client_map_, stale, call>>

\* The Connector's retry after a refusal.
ConnectLater ==
    /\ tcp = "refused" /\ call = Idle /\ tcp' = "up"
    /\ UNCHANGED <<itair_, slot_to_clients_, client_map_, addrs, ready, stale, parse, call>>

Discard ==
    /\ itair_' = "null" /\ tcp' = "none" /\ ready' = FALSE /\ stale' = FALSE
    /\ client_map_' = {} /\ slot_to_clients_' = [s \in Slots |-> NoClient]

Destroy ==
    /\ call = Idle /\ addrs = <<>> /\ itair_ # "null"
    /\ Discard /\ UNCHANGED <<addrs, parse, call>>

(***************************************************************************)
(* A command on its way down.  Outcomes of a layer: hand the command to a   *)
(* node's client, or end the call with the callback called calls times.     *)
(***************************************************************************)
Ended(c, result, calls) == [c EXCEPT !.phase = "done", !.result = result, !.calls = calls]
SendTo(c, node) == call' = IF node = NoClient THEN Ended(c, Crash, 0) ELSE [c EXCEPT !.node = node]
Answer(c, result) == call' = Ended(c, result, 1)
Dropped(c) == call' = Ended(c, NoResult, 0)

\* Mutant of StandaloneCall: no return after the callback with a null packet.
StandaloneCallGoesOn(c) ==
    IF tcp = "up" THEN \E s \in Nodes : SendTo(c, s) ELSE call' = [c EXCEPT !.calls = 1]

\* sendCommandInLoop: without tcp_client_ the callback gets a null packet; with
\* it but no codec_ the encoding dereferences null.
StandaloneCall(c) ==
    IF tcp = "up" THEN \E s \in Nodes : SendTo(c, s)
    ELSE IF tcp = "none" THEN call' = c
    ELSE call' = Ended(c, Crash, 0)

CheckKeyInSameSlot(keys) == \A i \in DOMAIN keys : keys[i] = keys[1]
GetClientByKey(key) == slot_to_clients_[key]

\* The whole fan-out ends with one call of the callback; what it may miss is
\* ClusterFanout's subject.
ClusterCall(c) ==
    LET route == ClusterRoute[c.m]
    IN  \/ route \in {"byKey", "firstKey"} /\ SendTo(c, GetClientByKey(c.keys[1]))
        \/ /\ route = "checked"
           /\ IF CheckKeyInSameSlot(c.keys) THEN SendTo(c, GetClientByKey(c.keys[1]))
              ELSE Answer(c, Err("not in same slot"))
        \/ route = "any" /\ \E s \in Slots : SendTo(c, slot_to_clients_[s])
        \/ /\ route = "checkedAny"
           /\ IF CheckKeyInSameSlot(c.keys) THEN \E s \in Slots : SendTo(c, slot_to_clients_[s])
              ELSE Answer(c, Err("null packet"))
        \/ route = "refused" /\ Answer(c, Err("not supported in cluster mode"))
        \/ route \in {"latched", "unlatched"} /\ \E r \in {Value(<<1>>), Err("fan-out failed")} : Answer(c, r)
        \/ route = "todo" /\ Dropped(c)

\* The key arguments a method may be called with.
KeyArgs(row, n) ==
    CASE row.keys = "none" -> {<<>>}
      [] row.keys = "key"  -> [1..1 -> Slots]
      [] row.keys = "two"  -> [1..2 -> Slots]
      [] row.keys = "keys" -> [1..n -> Slots]
      [] row.keys = "dest" -> [1..(n + 1) -> Slots]

\* The facade's test of the list argument.
Enough(m, n) == AsyncCommands[m].list => n >= FacadeMin[m]

\* A call of the wrapper's method m, whose future is the promise the callback
\* sets, or of the facade's method.
Invoke(m) ==
    /\ call = Idle /\ addrs = <<>>
    /\ \E n \in IF AsyncCommands[m].list THEN 0..MaxList ELSE {0} :
       \E keys \in KeyArgs(AsyncCommands[m], n) :
          LET c == NewCall(WrapperCalls[m], keys, n)
          IN  \/ itair_ = "null" /\ Answer(c, Err("not init"))
              \/ itair_ # "null" /\ ~Enough(m, n) /\ Answer(c, Err("params empty"))
              \/ /\ itair_ # "null" /\ Enough(m, n)
                 /\ \/ itair_ = "standalone" /\ StandaloneCall(c)
                    \/ itair_ = "cluster" /\ ClusterCall(c)
    /\ UNCHANGED <<itair_, tcp, slot_to_clients_, client_map_, addrs, ready, stale, parse>>

\* calcCommandSlot: the position of the key of a raw command, or no slot (-1).
CalcCommandSlot(argv) ==
    LET cmdIndex == IF argv[1] = "ars" THEN 3 ELSE 1
        streams == {i \in (cmdIndex + 1)..(Len(argv) - 1) : argv[i] = "streams"}
        keyIndex == IF argv[cmdIndex] \in {"bitop", "xgroup"} THEN cmdIndex + 2
                    ELSE IF argv[cmdIndex] \in {"xread", "xreadgroup"}
                    THEN IF streams = {} THEN Len(argv) + 1
                         ELSE 1 + (CHOOSE i \in streams : \A j \in streams : i <= j)
                    ELSE cmdIndex + 1
    IN  IF keyIndex > Len(argv) THEN -1 ELSE KeySlot(argv[keyIndex])

RawMethod == <<"sendCommand", "">>

\* sendCommand(argv): there is no return after callback(nullptr, ...).
SendCommand(argv) ==
    /\ call = Idle /\ addrs = <<>>
    /\ LET c == NewCall(RawMethod, <<>>, 0)
           slot == CalcCommandSlot(argv)
       IN  \/ itair_ = "null" /\ Answer(c, Err("null packet"))
           \/ itair_ = "standalone" /\ StandaloneCall(c)
           \/ /\ itair_ = "cluster"
              /\ IF slot = -1 \/ slot_to_clients_[IF slot = -1 THEN 0 ELSE slot] = NoClient
                 THEN call' = Ended(c, Crash, 1)
                 ELSE SendTo(NewCall(RawMethod, <<slot>>, 0), slot_to_clients_[slot])
    /\ UNCHANGED <<itair_, tcp, slot_to_clients_, client_map_, addrs, ready, stale, parse>>

(***************************************************************************)
(* The server (external): the shapes of a successful reply to a command,    *)
(* and the number of words it insists on.                                   *)
(***************************************************************************)
B(n) == BulkStringPacket(n)
Entry(id) == ArrayPacket(<<B(id), ArrayPacket(<<B(1), B(2)>>)>>)
StringList == {ArrayPacket(<<>>), ArrayPacket(<<B(1), B(2)>>)}
Shapes(kind) ==
    CASE kind = "Integer" -> {IntegerPacket(0), IntegerPacket(3)}
      [] kind = "Status" -> {SimpleStringPacket}
      [] kind = "Bulk" -> {B(1)}
      [] kind = "StringPtr" -> {B(1), NullBulk}
      [] kind = "Strings" -> StringList
      [] kind = "StringPtrs" -> {ArrayPacket(<<B(1), NullBulk, B(2)>>)}
      [] kind = "Integers" -> {ArrayPacket(<<IntegerPacket(1), IntegerPacket(0)>>)}
      [] kind = "IntegerPtrs" -> {ArrayPacket(<<IntegerPacket(1), NullBulk>>)}
      [] kind = "IntegerPtr" -> {IntegerPacket(2), NullBulk}
      [] kind = "Scan" -> {ArrayPacket(<<B(7), l>>) : l \in StringList}
      [] kind = "Geopos" -> {ArrayPacket(<<ArrayPacket(<<B(1), B(2)>>), NullArray>>)}
      [] kind = "XPending" -> {ArrayPacket(<<IntegerPacket(0), NullBulk, NullBulk, NullArray>>),
                                 ArrayPacket(<<IntegerPacket(2), B(1), B(2), ArrayPacket(<<ArrayPacket(<<B(3), B(4)>>)>>)>>)}
      [] kind = "XRange" -> {ArrayPacket(<<Entry(1), Entry(2)>>)}
      [] kind = "Xread" -> {NullArray, ArrayPacket(<<ArrayPacket(<<B(9), ArrayPacket(<<Entry(1)>>)>>)>>),
                              ArrayPacket(<<ArrayPacket(<<B(9), ArrayPacket(<<Entry(1), Entry(2)>>)>>)>>)}
      [] kind = "Raw" -> {B(1), IntegerPacket(1)}

\* The kind of reply the server's documentation gives for a method's command.
ReplyKind(m) ==
    LET cmd == AsyncCommands[m].cmd
    IN  CASE m[2] = "count" -> "Strings"
          [] cmd \in {"restore", "rename", "type", "set", "mset", "psetex", "setex", "lset", "ltrim", "pfmerge",
                      "xgroup create", "xgroup setid", "xsetid", "script flush", "script kill", "auth", "quit",
                      "flushall"} -> "Status"
          [] cmd \in {"getrange", "incrbyfloat", "hincrbyfloat", "zincrby", "xadd", "script load", "cluster nodes"} -> "Bulk"
          [] cmd \in {"dump", "randomkey", "getset", "get", "getdel", "getex", "brpoplpush", "lindex", "lpop", "rpop",
                      "rpoplpush", "lmove", "blmove", "spop", "srandmember", "hget", "hrandfield", "zscore",
                      "zrandmember", "geodist"} -> "StringPtr"
          [] cmd \in {"keys", "lrange", "smembers", "sdiff", "sinter", "sunion", "hgetall", "hkeys", "hvals", "zrange",
                      "zinter", "zunion", "zdiff", "georadius", "georadiusbymember", "blpop", "brpop", "bzpopmax",
                      "bzpopmin"} -> "Strings"
          [] cmd \in {"sort", "mget", "hmget", "zmscore", "geohash"} -> "StringPtrs"
          [] cmd \in {"smismember", "script exists"} -> "Integers"
          [] cmd \in {"bitfield", "bitfield_ro"} -> "IntegerPtrs"
          [] cmd \in {"zrank", "zrevrank"} -> "IntegerPtr"
          [] cmd \in {"scan", "sscan", "hscan", "zscan"} -> "Scan"
          [] cmd = "geopos" -> "Geopos"
          [] cmd = "xpending" -> "XPending"
          [] cmd \in {"xrange", "xrevrange"} -> "XRange"
          [] cmd \in {"xread", "xreadgroup"} -> "Xread"
          [] cmd \in {"eval", "eval_ro", "evalsha", "evalsha_ro"} -> "Raw"
          [] OTHER -> "Integer"

\* Replies that are not of the shape the command usually has: a condition of
\* SET not met, a pop that timed out or found no key.
SpecialReplies(m) ==
    CASE m = <<"set", "params">> -> {NullBulk}
      [] m \in Plain({"blpop", "brpop", "brpoplpush", "blmove", "bzpopmax", "bzpopmin"}) -> {NullArray}
      [] m \in {"lpop", "rpop"} \X {"count"} -> {NullArray}
      [] OTHER -> {}

\* The least number of words of a command's argv (the server's command table).
MinWords(row) ==
    CASE row.cmd \in {"xadd", "geoadd", "xgroup setid", "xgroup create", "xgroup createconsumer",
                      "xgroup delconsumer", "linsert", "lmove", "zrangestore", "clusterpublish", "georadiusbymember"} -> 5
      [] row.cmd \in {"blmove", "georadius"} -> 6
      [] row.cmd \in {"zadd", "hset", "setbit", "getrange", "setrange", "psetex", "setex", "restore", "lrange", "lrem",
                      "lset", "ltrim", "smove", "hincrby", "hsetnx", "hincrbyfloat", "zincrby", "zcount", "zlexcount",
                      "zrange", "zremrange", "zinterstore", "zunionstore", "zdiffstore", "bitop", "xack", "xrange",
                      "xrevrange", "xread", "xtrim", "brpoplpush", "sort store", "geodist", "xgroup destroy"} -> 4
      [] row.cmd \in {"randomkey", "quit", "flushall"} -> 1
      [] row.cmd \in {"expire", "expireat", "pexpire", "pexpireat", "move", "rename", "renamenx", "copy", "append", "bitpos",
                      "getbit", "decrby", "getset", "set", "incrby", "setnx", "incrbyfloat", "mset", "msetnx", "blpop",
                      "brpop", "lindex", "lpush", "lpushx", "rpush", "rpushx", "rpoplpush", "sadd", "srem", "sismember",
                      "sdiffstore", "sinterstore", "sunionstore", "sscan", "smismember", "hdel", "hexists", "hstrlen",
                      "hget", "hmget", "hscan", "zscore", "zrank", "zrevrank", "bzpopmax", "bzpopmin", "zrem", "zinter",
                      "zunion", "zdiff", "zmscore", "zscan", "xdel", "xpending", "xsetid", "eval", "evalsha", "eval_ro",
                      "evalsha_ro", "script load", "script exists", "publish"} -> 3
      [] OTHER -> 2

\* A member of geoadd's list is three words, of any other list one.
Words(m, n) == AsyncCommands[m].words + (IF AsyncCommands[m].cmd = "geoadd" THEN 3 * n
                                         ELSE IF AsyncCommands[m].list THEN n ELSE 0)
IsRaw(m) == m[1] = "sendCommand"
\* ZDIFFSTORE has no WITHSCORES: the server refuses it.
Accepted(c) ==
    \/ IsRaw(c.m)
    \/ /\ Words(c.m, c.n) >= MinWords(AsyncCommands[c.m])
       /\ AsyncCommands[c.m].cmd # "zdiffstore withscores"
HelperOf(m) == IF IsRaw(m) THEN "Raw" ELSE AsyncCommands[m].helper
Answers(m) == Shapes(IF IsRaw(m) THEN "Raw" ELSE ReplyKind(m)) \cup SpecialReplies(m)
Replies(c) ==
    IF c.node = NoClient THEN {NoPacket}
    ELSE {ErrorPacket, NoPacket} \cup (IF Accepted(c) THEN Answers(c.m) ELSE {})

\* What a method may make of a packet: zrank and zrevrank crash on a lost
\* connection, and doIntegerPtrCallback turns an error into a null pointer; a
\* reply is a value with all its payloads, except the null replies of a
\* conditional SET and of brpoplpush and blmove, and the entries after the first
\* of a stream read.
Success(p) == p.class \notin {"error", "none"}
MayCrash(m, p) == HelperOf(m) = "IntegerPtr" /\ p = NoPacket
Reports(m, r) == r.kind = "err" \/ HelperOf(m) \in {"IntegerPtr", "Raw"}
Delivers(m, p, r) ==
    \/ r.kind = "value" /\ Delivered(r) = PayloadsOf(p)
    \/ HelperOf(m) \in {"Xread", "Raw"} /\ r.kind = "value"
    \/ p.null /\ m \in {<<"set", "params">>, <<"brpoplpush", "">>, <<"blmove", "">>}

\* The decoders on every reply of the tables.
ASSUME DecodersAssumption ==
    \A m \in Methods \cup {RawMethod} : \A p \in {ErrorPacket, NoPacket} \cup Answers(m) :
       LET r == Decode(HelperOf(m), p)
       IN  /\ r = Crash => MayCrash(m, p)
           /\ r # Crash => IF Success(p) THEN Delivers(m, p, r) ELSE Reports(m, r)

\* What the facade lets through of a list of n has words enough for the server.
Suffices(m, n) ==
    \/ Enough(m, n) => Words(m, n) >= MinWords(AsyncCommands[m])
    \/ m \in Plain({"geoadd", "scriptExists"}) \cup Params({"geoadd"}) /\ n = 0
    \/ m = <<"xadd", "">> /\ n < 2
    \/ m = <<"xgroupSetID", "">>

\* What the tables of the methods have in common.
ASSUME CommandsAssumption ==
    \A m \in Methods :
       LET row == AsyncCommands[m]
       IN  /\ WrapperCalls[m] = m /\ ~IsRaw(m)
           /\ row.words \in Nat /\ row.list \in BOOLEAN /\ MinWords(row) \in 1 .. 6
           /\ row.cmd = "zdiffstore withscores" => m = <<"zdiffstoreWithScores", "">>
           /\ \A n \in 0 .. 5 : (~row.list => n = 0) => Suffices(m, n)
           /\ row.keys \in {"none", "key", "two", "keys", "dest"}
           /\ ClusterRoute[m] = "byKey" => row.keys = "key"
           /\ ClusterRoute[m] = "any" => row.keys = "none"
           /\ ClusterRoute[m] \in {"firstKey", "checked"} =>
                 row.keys \in {"two", "dest"} \/ (row.keys = "keys" /\ row.list /\ FacadeMin[m] > 0)
           /\ FacadeMin[m] \in 0 .. 2

(***************************************************************************)
(* The reply on its way up, and the next command.                           *)
(***************************************************************************)
RecvReply ==
    /\ call.phase = "sent"
    /\ \E p \in Replies(call) :
          LET r == Decode(HelperOf(call.m), p)
          IN  call' = [call EXCEPT !.phase = "done", !.reply = p, !.result = r,
                                   !.calls = IF r = Crash THEN @ ELSE @ + 1]
    /\ UNCHANGED <<itair_, tcp, slot_to_clients_, client_map_, addrs, ready, stale, parse>>

Return ==
    /\ call.phase = "done" /\ call.result # Crash /\ call' = Idle
    /\ UNCHANGED <<itair_, tcp, slot_to_clients_, client_map_, addrs, ready, stale, parse>>

\* After a crash: a new process with a new TairClient.
Restart ==
    /\ call.phase = "done" /\ call.result = Crash /\ call' = Idle
    /\ Discard /\ addrs' = <<>> /\ parse' = NoParse

AddrLists == UNION {[1 .. k -> Addresses] : k \in 0 .. MaxAddrs}

Next ==
    \/ \E type \in {"standalone", "cluster", "sentinel"}, list \in AddrLists : StartInit(type, list)
    \/ InitEmptyAddr \/ InitStandalone
    \/ InitCluster \/ ParseLine \/ ParseItem \/ ParseEnds \/ ConnectLater \/ Destroy
    \/ \E m \in Methods : Invoke(m)
    \/ \E argv \in RawArgvs : SendCommand(argv)
    \/ RecvReply \/ Return \/ Restart

Spec == Init /\ [][Next]_vars

(***************************************************************************)
(* Properties                                                               *)
(***************************************************************************)
Done == call.phase = "done"
NotWritten(c) == ~IsRaw(c.m) /\ Enough(c.m, c.n) /\ ClusterRoute[c.m] = "todo"

\* Every call ends with exactly one call of its callback, so that the future of
\* the wrapper is set once: the exceptions are the cluster methods that are not
\* written yet (their future breaks its promise) and a crash.
CallbackCalledOnce ==
    Done /\ call.result # Crash =>
        call.calls = IF itair_ = "cluster" /\ NotWritten(call) THEN 0 ELSE 1

\* After a successful init() no command method of any layer brings the process
\* down, except zrank and zrevrank when the connection is lost, and sendCommand
\* of a command that has no key.
NoCrashOnceReady ==
    Done /\ ready /\ call.result = Crash =>
        \/ MayCrash(call.m, call.reply)
        \/ IsRaw(call.m) /\ itair_ = "cluster"

\* An error of the server and a lost connection reach the caller as an error;
\* doIntegerPtrCallback turns them into a null pointer.
ErrorsAreReported ==
    Done /\ call.node # NoClient /\ call.result # Crash /\ ~Success(call.reply) => Reports(call.m, call.result)

\* What the server answered is what the caller gets: no reply the server can
\* give to a method is refused as unknown, and nothing in it is lost, but for
\* the exceptions of Delivers.
RepliesAreDelivered ==
    Done /\ call.result # Crash /\ Success(call.reply) => Delivers(call.m, call.reply, call.result)

\* A cluster command with keys goes to the node of every one of its keys; not
\* so the lists routed by their first key and the scripts sent to any node.
RoutedToOwner ==
    call.phase # "idle" /\ itair_ = "cluster" =>
        \/ call.node = NoClient
        \/ \A i \in DOMAIN call.keys : slot_to_clients_[call.keys[i]] = call.node
        \/ ClusterRoute[call.m] \in {"firstKey", "checkedAny"}

\* The length tests of the facade are the server's: what they let through has
\* enough words, except an xadd of one element, a geoadd of none, a
\* scriptExists of none and the xgroupSetID that has no id to send.
EnoughWords ==
    call.phase # "idle" /\ call.node # NoClient /\ ~Accepted(call) =>
        \/ call.m \in Plain({"geoadd", "scriptExists"}) \cup Params({"geoadd"}) /\ call.n = 0
        \/ call.m = <<"xadd", "">> /\ call.n < 2
        \/ call.m \in Plain({"xgroupSetID", "zdiffstoreWithScores"})

\* A cluster client that says it is ready has a client for every slot, and
\* destroy(), keys() and the other fan-outs reach all of them through
\* client_map_, unless an earlier attempt of init() left slots behind.
ReadyClusterIsWhole ==
    ready /\ itair_ = "cluster" =>
        /\ \A s \in Slots : slot_to_clients_[s] # NoClient
        /\ ~stale => \A s \in Slots : slot_to_clients_[s] \in client_map_

\* The answer of the server arrives at the caller through every layer: as the
\* value it is or as the error it is, and never as a crash.
AnswersArrive == NoCrashOnceReady /\ ErrorsAreReported /\ RepliesAreDelivered

\* A client that says it is ready sends each command to the node that owns its
\* keys, with enough words for the server, and knows a node for every slot.
RequestsReachTheirNode == TypeOK /\ ReadyClusterIsWhole /\ RoutedToOwner /\ EnoughWords
=============================================================================
