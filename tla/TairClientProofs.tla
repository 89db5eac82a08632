-------------------------- MODULE TairClientProofs --------------------------
(* Proofs about the client from the facade down: for every cluster, every     *)
(* number of slots, every list of addresses and every answer to CLUSTER NODES,*)
(* each call ends as it should.                                               *)
EXTENDS TairClient, SequenceTheorems, TLAPS

(***************************************************************************)
(* The inductive invariant: what holds of a call c, given the client, ready  *)
(* and the slots; and of the client between its calls.                       *)
(***************************************************************************)
IsCall(c) ==
    c \in [phase : {"idle", "sent", "done"}, m : {c.m}, keys : {c.keys}, n : {c.n}, node : {c.node},
           reply : {c.reply}, result : {c.result}, calls : Nat]

\* What the callback has got.
Told(c, type, ok) ==
    /\ c.phase = "sent" => c.calls = 0 /\ (type = "cluster" => ~NotWritten(c))
    /\ c.phase = "done" /\ c.result # Crash => c.calls = IF type = "cluster" /\ NotWritten(c) THEN 0 ELSE 1
    /\ c.phase = "done" /\ c.result = Crash /\ ok => MayCrash(c.m, c.reply) \/ (IsRaw(c.m) /\ type = "cluster")
    /\ c.phase = "done" /\ c.result # Crash /\ c.node # NoClient /\ ~Success(c.reply) => Reports(c.m, c.result)
    /\ c.phase = "done" /\ c.result # Crash /\ Success(c.reply) => Delivers(c.m, c.reply, c.result)

\* The command has words enough, or is one that may not.
HasWords(c) ==
    \/ Accepted(c)
    \/ c.m \in Plain({"geoadd", "scriptExists"}) \cup Params({"geoadd"}) /\ c.n = 0
    \/ c.m = <<"xadd", "">> /\ c.n < 2
    \/ c.m \in Plain({"xgroupSetID", "zdiffstoreWithScores"})

\* Where the command went, and with how many words.
Went(c, type, slots) ==
    /\ type = "cluster" =>
          \/ c.node = NoClient
          \/ \A i \in DOMAIN c.keys : slots[c.keys[i]] = c.node
          \/ ClusterRoute[c.m] \in {"firstKey", "checkedAny"}
    /\ c.node # NoClient => HasWords(c)

CallHolds(c, type, ok, slots) ==
    /\ IsCall(c)
    /\ c.phase # "idle" => /\ c.m \in Methods \cup {RawMethod}
                           /\ Told(c, type, ok) /\ Went(c, type, slots)

\* One attempt of init() at a time, before any call; a slot's client is one of
\* client_map_ unless an attempt left it behind.
InitHolds ==
    /\ addrs # <<>> => call.phase = "idle" /\ ~ready
    /\ parse.on => addrs # <<>> /\ Head(addrs) # "" /\ itair_ = "cluster"
    /\ parse.items # <<>> => parse.on /\ parse.addr \in client_map_
    /\ itair_ = "cluster" /\ ~stale => \A s \in Slots : slot_to_clients_[s] \in client_map_ \cup {NoClient}
    /\ ready /\ itair_ = "standalone" => tcp = "up"
    /\ ready /\ itair_ = "cluster" => CheckSlotToClients

ClientInv == TypeOK /\ InitHolds /\ CallHolds(call, itair_, ready, slot_to_clients_)

(***************************************************************************)
(* A call and what may become of it                                        *)
(***************************************************************************)
\* A call that starts.
LEMMA NewCallFields ==
    ASSUME NEW m, NEW keys, NEW n, NEW c, c = NewCall(m, keys, n)
    PROVE  /\ IsCall(c) /\ c.phase = "sent" /\ c.m = m /\ c.keys = keys /\ c.n = n /\ c.node = NoClient
           /\ c.reply = NoPacket /\ c.result = NoResult /\ c.calls = 0
  BY DEF NewCall, IsCall

\* No call.
LEMMA IdleFields == IsCall(Idle) /\ Idle.phase = "idle"
<1> DEFINE c == NewCall(<<"", "">>, <<>>, 0)
<1>1. IsCall(c)
  BY NewCallFields
<1>2. Idle = [c EXCEPT !.phase = "idle"]
  BY DEF Idle
<1> HIDE DEF c
<1> QED BY <1>1, <1>2 DEF IsCall

\* A lost connection is not a success, and an error is not a crash.
LEMMA Distinct == ~Success(NoPacket) /\ NoResult # Crash /\ \A e : Err(e) # Crash
  BY DEF Success, NoPacket, Packet, NoResult, Err, Crash

\* The end of a call.
LEMMA EndedFields ==
    ASSUME NEW c, IsCall(c), NEW r, NEW k \in Nat, NEW y, y = Ended(c, r, k)
    PROVE  /\ IsCall(y) /\ y.phase = "done" /\ y.result = r /\ y.calls = k
           /\ y.m = c.m /\ y.keys = c.keys /\ y.n = c.n /\ y.node = c.node /\ y.reply = c.reply
<1> DEFINE M == {c.m}
           K == {c.keys}
           N == {c.n}
           D == {c.node}
           P == {c.reply}
           R == {c.result, r}
           Calls == [phase : {"idle", "sent", "done"}, m : M, keys : K, n : N, node : D, reply : P, result : R, calls : Nat]
<1>1. c \in Calls /\ r \in R
  BY DEF IsCall
<1> HIDE DEF M, K, N, D, P, R
<1>2. /\ y \in Calls /\ y.phase = "done" /\ y.result = r /\ y.calls = k
      /\ y.m = c.m /\ y.keys = c.keys /\ y.n = c.n /\ y.node = c.node /\ y.reply = c.reply
  BY <1>1 DEF Ended
<1>3. y \in [phase : {"idle", "sent", "done"}, m : {y.m}, keys : {y.keys}, n : {y.n}, node : {y.node}, reply : {y.reply},
            result : {y.result}, calls : Nat]
  BY <1>2
<1> QED BY <1>2, <1>3 DEF IsCall

\* A node gets the command.
LEMMA NodeFields ==
    ASSUME NEW c, IsCall(c), NEW node, NEW y, y = [c EXCEPT !.node = node]
    PROVE  /\ IsCall(y) /\ y.phase = c.phase /\ y.result = c.result /\ y.calls = c.calls
           /\ y.m = c.m /\ y.keys = c.keys /\ y.n = c.n /\ y.node = node /\ y.reply = c.reply
  BY DEF IsCall

\* A call that ends before it is sent, with one callback or, of a method that is
\* not written, with none; or by a crash.
LEMMA EndHolds ==
    ASSUME NEW m \in Methods \cup {RawMethod}, NEW keys, NEW n, NEW c, c = NewCall(m, keys, n),
           NEW type, NEW ok, NEW slots, NEW r, NEW k \in Nat, NEW y, y = Ended(c, r, k),
           r # Crash => k = IF type = "cluster" /\ NotWritten(c) THEN 0 ELSE 1,
           r = Crash /\ ok => IsRaw(m) /\ type = "cluster"
    PROVE  CallHolds(y, type, ok, slots)
<1>1. /\ IsCall(c) /\ c.m = m /\ c.n = n /\ c.node = NoClient /\ c.reply = NoPacket /\ c.calls = 0
  BY NewCallFields
<1>2. /\ IsCall(y) /\ y.phase = "done" /\ y.result = r /\ y.calls = k /\ y.m = m /\ y.n = n /\ y.node = NoClient
      /\ y.reply = NoPacket
  BY <1>1, EndedFields
<1>3. NotWritten(y) <=> NotWritten(c)
  BY <1>1, <1>2 DEF NotWritten
<1>4. Told(y, type, ok)
  <2>1. y.result # Crash => y.calls = IF type = "cluster" /\ NotWritten(y) THEN 0 ELSE 1
    BY <1>2, <1>3
  <2>2. y.result = Crash /\ ok => IsRaw(y.m) /\ type = "cluster"
    BY <1>2
  <2> QED BY <1>2, <2>1, <2>2, Distinct DEF Told
<1>5. Went(y, type, slots)
  BY <1>2 DEF Went
<1> QED BY <1>2, <1>4, <1>5 DEF CallHolds

\* A call on its way to a node, or without a connection.
LEMMA SentHolds ==
    ASSUME NEW m \in Methods \cup {RawMethod}, NEW keys, NEW n, NEW c, c = NewCall(m, keys, n),
           NEW type, NEW ok, NEW slots, NEW node, NEW y, y = [c EXCEPT !.node = node],
           type = "cluster" => ~NotWritten(c), Went(y, type, slots)
    PROVE  CallHolds(y, type, ok, slots)
<1>1. /\ IsCall(c) /\ c.phase = "sent" /\ c.m = m /\ c.n = n /\ c.calls = 0
  BY NewCallFields
<1>2. /\ IsCall(y) /\ y.phase = "sent" /\ y.calls = 0 /\ y.m = m /\ y.n = n
  BY <1>1, NodeFields
<1>3. NotWritten(y) <=> NotWritten(c)
  BY <1>1, <1>2 DEF NotWritten
<1>4. Told(y, type, ok)
  BY <1>2, <1>3 DEF Told
<1> QED BY <1>2, <1>4 DEF CallHolds

\* A command without a connection waits for the null packet.
LEMMA WaitHolds ==
    ASSUME NEW m \in Methods \cup {RawMethod}, NEW keys, NEW n, NEW c, c = NewCall(m, keys, n),
           NEW type, NEW ok, NEW slots, type # "cluster"
    PROVE  CallHolds(c, type, ok, slots)
<1>1. /\ IsCall(c) /\ c.phase = "sent" /\ c.m = m /\ c.calls = 0 /\ c.node = NoClient
  BY NewCallFields
<1>2. Told(c, type, ok) /\ Went(c, type, slots)
  BY <1>1 DEF Told, Went
<1> QED BY <1>1, <1>2 DEF CallHolds

\* The client of a slot, if there is one.
LEMMA SendToHolds ==
    ASSUME NEW m \in Methods \cup {RawMethod}, NEW keys, NEW n, NEW c, c = NewCall(m, keys, n),
           NEW type, NEW ok, NEW slots, NEW node, SendTo(c, node),
           type = "cluster" => ~NotWritten(c),
           node = NoClient /\ ok => IsRaw(m) /\ type = "cluster",
           type = "cluster" => \/ \A i \in DOMAIN keys : slots[keys[i]] = node
                                \/ ClusterRoute[m] \in {"firstKey", "checkedAny"},
           HasWords(c)
    PROVE  CallHolds(call', type, ok, slots)
<1>0. c = NewCall(m, keys, n)
  OBVIOUS
<1>1. CASE node = NoClient
  <2>1. call' = Ended(c, Crash, 0)
    BY <1>1 DEF SendTo
  <2> QED BY <1>1, <2>1, EndHolds
<1>2. CASE node # NoClient
  <2>1. PICK y : y = call'
    OBVIOUS
  <2>2. y = [c EXCEPT !.node = node]
    BY <1>2, <2>1 DEF SendTo
  <2>3. IsCall(c) /\ c.m = m /\ c.n = n /\ c.keys = keys
    BY ONLY <1>0, NewCallFields
  <2>4. y.m = m /\ y.n = n /\ y.keys = keys /\ y.node = node
    BY ONLY <2>2, <2>3, NodeFields
  <2>5. HasWords(y) <=> HasWords(c)
    BY <2>3, <2>4 DEF HasWords, Accepted
  <2>6. Went(y, type, slots)
    BY <2>4, <2>5 DEF Went
  <2>7. CallHolds(y, type, ok, slots)
    BY <2>2, <2>6, SentHolds
  <2> QED BY <2>1, <2>7
<1> QED BY <1>1, <1>2

\* The reply on its way up: the decoders do on it what DecodersAssumption says.
LEMMA ReplyHolds ==
    ASSUME NEW c, NEW type, NEW ok, NEW slots, CallHolds(c, type, ok, slots), c.phase = "sent",
           NEW p \in Replies(c), NEW r, r = Decode(HelperOf(c.m), p), NEW k, k = IF r = Crash THEN 0 ELSE 1,
           NEW y, y = [c EXCEPT !.phase = "done", !.reply = p, !.result = r, !.calls = k]
    PROVE  CallHolds(y, type, ok, slots)
<1>1. /\ IsCall(c) /\ c.m \in Methods \cup {RawMethod} /\ Went(c, type, slots)
      /\ (type = "cluster" => ~NotWritten(c)) /\ k \in Nat
  BY DEF CallHolds, Told
<1> DEFINE M == {c.m}
           K == {c.keys}
           N == {c.n}
           D == {c.node}
           P == {c.reply, p}
           R == {c.result, r}
           Calls == [phase : {"idle", "sent", "done"}, m : M, keys : K, n : N, node : D, reply : P, result : R, calls : Nat]
<1>2. c \in Calls /\ r \in R /\ p \in P
  BY <1>1 DEF IsCall
<1> HIDE DEF M, K, N, D, P, R
<1>3. /\ y \in Calls /\ y.phase = "done" /\ y.result = r /\ y.calls = k
      /\ y.m = c.m /\ y.keys = c.keys /\ y.n = c.n /\ y.node = c.node /\ y.reply = p
  BY <1>1, <1>2
<1>4. IsCall(y)
  <2>1. y \in [phase : {"idle", "sent", "done"}, m : {y.m}, keys : {y.keys}, n : {y.n}, node : {y.node}, reply : {y.reply},
              result : {y.result}, calls : Nat]
    BY <1>3
  <2> QED BY <2>1 DEF IsCall
<1>5. p \in {ErrorPacket, NoPacket} \cup Answers(c.m)
  BY DEF Replies
<1>6. /\ r = Crash => MayCrash(c.m, p)
      /\ r # Crash => IF Success(p) THEN Delivers(c.m, p, r) ELSE Reports(c.m, r)
  BY <1>1, <1>5, DecodersAssumption
<1>7. (NotWritten(y) <=> NotWritten(c)) /\ (HasWords(y) <=> HasWords(c))
  BY <1>3 DEF NotWritten, HasWords, Accepted
<1>8. Told(y, type, ok)
  BY <1>1, <1>3, <1>6, <1>7 DEF Told
<1>9. Went(y, type, slots)
  BY <1>1, <1>3, <1>7 DEF Went
<1> QED BY <1>1, <1>3, <1>4, <1>8, <1>9 DEF CallHolds

(***************************************************************************)
(* The tables                                                              *)
(***************************************************************************)
\* The facade's length tests leave words enough: beyond six a list has them.
LEMMA WordsSuffice ==
    ASSUME NEW m \in Methods, NEW n \in Nat, ~AsyncCommands[m].list => n = 0, Enough(m, n),
           NEW c, c.m = m, c.n = n
    PROVE  HasWords(c)
<1> DEFINE row == AsyncCommands[m]
           w == Words(m, n)
           least == MinWords(row)
<1>0. n \in Nat
  OBVIOUS
<1>1. /\ row.words \in Nat /\ row.list \in BOOLEAN /\ least \in 1 .. 6 /\ FacadeMin[m] \in 0 .. 2
      /\ row.cmd = "zdiffstore withscores" => m = <<"zdiffstoreWithScores", "">>
      /\ \A i \in 0 .. 5 : (~row.list => i = 0) => Suffices(m, i)
  BY CommandsAssumption
<1>2. CASE m = <<"zdiffstoreWithScores", "">>
  <2>1. <<"zdiffstoreWithScores", "">> \in Plain({"xgroupSetID", "zdiffstoreWithScores"})
    BY DEF Plain
  <2> QED BY <1>2, <2>1 DEF HasWords
<1>3. CASE n \in 0 .. 5 /\ m # <<"zdiffstoreWithScores", "">>
  <2>1. Suffices(m, n)
    BY <1>1, <1>3
  <2>2. CASE w >= least
    BY <1>1, <1>3, <2>2 DEF Accepted, HasWords
  <2>3. CASE ~(w >= least)
    <3>1. \/ m \in Plain({"geoadd", "scriptExists"}) \cup Params({"geoadd"}) /\ n = 0
          \/ m = <<"xadd", "">> /\ n < 2
          \/ m = <<"xgroupSetID", "">>
      BY <2>1, <2>3 DEF Suffices
    <3>2. <<"xgroupSetID", "">> \in Plain({"xgroupSetID", "zdiffstoreWithScores"})
      BY DEF Plain
    <3> QED BY <3>1, <3>2 DEF HasWords
  <2> QED BY <2>2, <2>3
<1>4. CASE ~(n \in 0 .. 5) /\ m # <<"zdiffstoreWithScores", "">>
  <2>0. ~(n \in 0 .. 5)
    BY <1>4
  <2>1. n >= 6 /\ n # 0
    BY ONLY <1>0, <2>0
  <2>2. row.list /\ row.cmd # "zdiffstore withscores"
    BY <1>1, <1>4, <2>1
  <2>3. w = row.words + (IF row.cmd = "geoadd" THEN 3 * n ELSE n)
    BY <2>2 DEF Words
  <2> DEFINE words == row.words
  <2>4. words \in Nat /\ (w = words + 3 * n \/ w = words + n) /\ least \in 1 .. 6
    BY <1>1, <2>3
  <2> HIDE DEF w, least, words
  <2>5. w >= least
    BY ONLY <1>0, <2>1, <2>4
  <2> QED BY <2>2, <2>5 DEF HasWords, Accepted, w, least
<1> QED BY <1>2, <1>3, <1>4

\* A method that is routed by its keys has a first one.
LEMMA FirstKey ==
    ASSUME NEW m \in Methods, NEW n \in Nat, Enough(m, n), NEW keys \in KeyArgs(AsyncCommands[m], n),
           ClusterRoute[m] \in {"byKey", "firstKey", "checked"}
    PROVE  keys[1] \in Slots /\ (ClusterRoute[m] = "byKey" => DOMAIN keys = {1})
<1> DEFINE row == AsyncCommands[m]
<1>1. /\ ClusterRoute[m] = "byKey" => row.keys = "key"
      /\ ClusterRoute[m] \in {"firstKey", "checked"} =>
            row.keys \in {"two", "dest"} \/ (row.keys = "keys" /\ row.list /\ FacadeMin[m] > 0)
      /\ FacadeMin[m] \in 0 .. 2
  BY CommandsAssumption
<1>2. CASE row.keys = "key"
  <2>1. keys \in [1 .. 1 -> Slots]
    BY <1>2 DEF KeyArgs
  <2> QED BY <2>1
<1>3. CASE row.keys = "two"
  <2>1. keys \in [1 .. 2 -> Slots]
    BY <1>3 DEF KeyArgs
  <2> QED BY <1>1, <1>3, <2>1
<1>4. CASE row.keys = "dest"
  <2>1. keys \in [1 .. (n + 1) -> Slots]
    BY <1>4 DEF KeyArgs
  <2> QED BY <1>1, <1>4, <2>1
<1>5. CASE row.keys = "keys"
  <2>1. keys \in [1 .. n -> Slots]
    BY <1>5 DEF KeyArgs
  <2>2. ClusterRoute[m] # "byKey" /\ n >= 1
    BY <1>1, <1>5 DEF Enough
  <2> QED BY <2>1, <2>2
<1> QED BY <1>1, <1>2, <1>3, <1>4, <1>5

\* A method that goes to any node has no key.
LEMMA NoKey ==
    ASSUME NEW m \in Methods, NEW n, NEW keys \in KeyArgs(AsyncCommands[m], n), ClusterRoute[m] = "any"
    PROVE  DOMAIN keys = {}
<1>1. AsyncCommands[m].keys = "none"
  BY CommandsAssumption
<1>2. keys = <<>>
  BY <1>1 DEF KeyArgs
<1> QED BY <1>2

(***************************************************************************)
(* The steps of init()                                                      *)
(***************************************************************************)
\* Between two calls nothing is said of a call.
LEMMA IdleHolds ==
    ASSUME NEW c, IsCall(c), c.phase = "idle", NEW type, NEW ok, NEW slots
    PROVE  CallHolds(c, type, ok, slots)
  BY DEF CallHolds

\* No parse is under way.
LEMMA NoParseFields ==
    /\ NoParse \in [on : BOOLEAN, lines : Seq(Lines), addr : Addresses, items : Seq(Items)]
    /\ NoParse.on = FALSE /\ NoParse.items = <<>>
<1>1. "" \in Addresses
  BY DEF Addresses
<1>2. <<>> \in Seq(Lines) /\ <<>> \in Seq(Items)
  OBVIOUS
<1> QED BY <1>1, <1>2 DEF NoParse

\* No address is left.
LEMMA NoAddrs == <<>> \in Seq(Addresses)
  OBVIOUS

\* The bounds of the instance.
LEMMA Bounds == MaxList \in Nat /\ MaxAddrs \in Nat
  BY ClientAssumption

\* No node is null, and the answers to CLUSTER NODES are lines.
LEMMA Inputs == NoClient \notin Nodes /\ NodesReplies \subseteq Seq(Lines)
  BY ClientAssumption

\* The list of a URI.
LEMMA AddrListType == ASSUME NEW list \in AddrLists PROVE list \in Seq(Addresses)
<1>1. PICK i \in 0 .. MaxAddrs : list \in [1 .. i -> Addresses]
  BY DEF AddrLists
<1>2. MaxAddrs \in Nat
  BY Bounds
<1>3. i \in Nat
  BY <1>2
<1> QED BY <1>1, <1>3, SeqDef

\* A new TairClient.
LEMMA InitInv == Init => ClientInv
<1> SUFFICES ASSUME Init PROVE ClientInv
  OBVIOUS
<1>1. TypeOK
  BY NoParseFields, NoAddrs, IdleFields DEF Init, TypeOK
<1>2. InitHolds
  BY NoParseFields DEF Init, InitHolds
<1>3. CallHolds(call, itair_, ready, slot_to_clients_)
  BY IdleFields, IdleHolds DEF Init
<1> QED BY <1>1, <1>2, <1>3 DEF ClientInv

\* The first element and the rest.
LEMMA HeadAndTail == ASSUME NEW S, NEW q \in Seq(S), q # <<>> PROVE Head(q) \in S /\ Tail(q) \in Seq(S)
  OBVIOUS

\* The rest of the addresses are addresses.
LEMMA NextAddrType ==
    ASSUME TypeOK, addrs # <<>>, NEW ok \in BOOLEAN, NextAddr(ok)
    PROVE  addrs' \in Seq(Addresses) /\ ready' = ok /\ (ok => addrs' = <<>>)
<1>1. addrs \in Seq(Addresses)
  BY DEF TypeOK
<1>2. Tail(addrs) \in Seq(Addresses)
  BY <1>1
<1>3. <<>> \in Seq(Addresses)
  OBVIOUS
<1> QED BY <1>2, <1>3 DEF NextAddr

\* An attempt that fails after the first connection.
LEMMA AttemptFailsKeeps ==
    ASSUME ClientInv, addrs # <<>>, AttemptFails, UNCHANGED <<itair_, tcp, slot_to_clients_, call>>
    PROVE  ClientInv'
<1>1. /\ TypeOK /\ IsCall(call) /\ call.phase = "idle"
  BY DEF ClientInv, InitHolds, CallHolds
<1>2. addrs' \in Seq(Addresses) /\ ready' = FALSE
  BY <1>1, NextAddrType DEF AttemptFails
<1>3. stale' \in BOOLEAN /\ (~stale' => \A s \in Slots : slot_to_clients_[s] = NoClient)
  BY Zenon DEF AttemptFails
<1>4. TypeOK'
  BY <1>1, <1>2, <1>3, NoParseFields DEF TypeOK, AttemptFails
<1>5. InitHolds'
  BY <1>1, <1>2, <1>3, NoParseFields DEF InitHolds, AttemptFails
<1>6. CallHolds(call, itair_', ready', slot_to_clients_')
  BY <1>1, IdleHolds
<1> QED BY <1>4, <1>5, <1>6 DEF ClientInv

\* init() with a new client, or in sentinel mode with none.
LEMMA StartInitKeeps ==
    ASSUME ClientInv, NEW type \in {"standalone", "cluster", "sentinel"}, NEW list \in AddrLists, StartInit(type, list)
    PROVE  ClientInv'
<1>1. /\ TypeOK /\ InitHolds /\ IsCall(call) /\ call.phase = "idle" /\ addrs = <<>> /\ parse' = parse /\ call' = call
  BY IdleFields DEF ClientInv, CallHolds, StartInit
<1>2. CallHolds(call, itair_', ready', slot_to_clients_')
  BY <1>1, IdleHolds
<1>3. CASE type = "sentinel"
  <2>1. UNCHANGED <<itair_, tcp, slot_to_clients_, client_map_, addrs, ready, stale>>
    BY <1>3 DEF StartInit
  <2> QED BY <1>1, <1>2, <2>1 DEF ClientInv, TypeOK, InitHolds, CheckSlotToClients
<1>4. CASE type # "sentinel"
  <2>1. NewClient(type) /\ (addrs' = <<>> \/ addrs' = list)
    BY <1>4 DEF StartInit
  <2>2. list \in Seq(Addresses)
    BY AddrListType
  <2>3. addrs' \in Seq(Addresses)
    BY <2>1, <2>2, NoAddrs
  <2>4. TypeOK'
    BY <1>1, <1>4, <2>1, <2>3 DEF TypeOK, NewClient
  <2>5. ~parse.on /\ parse.items = <<>>
    BY <1>1 DEF InitHolds
  <2>6. InitHolds'
    BY <1>1, <2>1, <2>5 DEF InitHolds, NewClient
  <2> QED BY <1>1, <1>2, <2>4, <2>6 DEF ClientInv
<1> QED BY <1>3, <1>4

\* An empty address ends init().
LEMMA InitEmptyAddrKeeps ==
    ASSUME ClientInv, InitEmptyAddr PROVE ClientInv'
<1>1. TypeOK /\ InitHolds /\ IsCall(call) /\ call.phase = "idle" /\ addrs # <<>> /\ addrs' = <<>> /\ ready' = FALSE
  BY DEF ClientInv, InitHolds, CallHolds, InitEmptyAddr
<1>2. UNCHANGED <<itair_, tcp, slot_to_clients_, client_map_, stale, parse, call>>
  BY DEF InitEmptyAddr
<1>3. TypeOK'
  BY <1>1, <1>2, NoAddrs DEF TypeOK
<1>3a. ~parse.on /\ parse.items = <<>>
  BY <1>1 DEF InitHolds, InitEmptyAddr
<1>4. InitHolds'
  BY <1>1, <1>2, <1>3a DEF InitHolds, CheckSlotToClients
<1>5. CallHolds(call, itair_', ready', slot_to_clients_')
  BY <1>1, IdleHolds
<1> QED BY <1>2, <1>3, <1>4, <1>5 DEF ClientInv

\* connect() of the standalone client.
LEMMA InitStandaloneKeeps ==
    ASSUME ClientInv, InitStandalone PROVE ClientInv'
<1>1. TypeOK /\ InitHolds /\ IsCall(call) /\ call.phase = "idle" /\ addrs # <<>> /\ itair_ = "standalone"
  BY DEF ClientInv, InitHolds, CallHolds, InitStandalone
<1>2. UNCHANGED <<itair_, slot_to_clients_, client_map_, stale, parse, call>>
  BY DEF InitStandalone
<1>3. PICK ok \in BOOLEAN : NextAddr(ok) /\ tcp' \in {"refused", "up"} /\ (ok => tcp' = "up")
  BY DEF InitStandalone
<1>4. addrs' \in Seq(Addresses) /\ ready' = ok /\ (ok => addrs' = <<>>)
  BY <1>1, <1>3, NextAddrType
<1>5. TypeOK'
  BY <1>1, <1>2, <1>3, <1>4 DEF TypeOK
<1>6. ~parse.on /\ parse.items = <<>>
  BY <1>1 DEF InitHolds
<1>7. InitHolds'
  BY <1>1, <1>2, <1>3, <1>4, <1>6 DEF InitHolds
<1>8. CallHolds(call, itair_', ready', slot_to_clients_')
  BY <1>1, IdleHolds
<1> QED BY <1>2, <1>5, <1>7, <1>8 DEF ClientInv

\* What createClient() may return.
LEMMA CreateClientFields ==
    ASSUME TypeOK, NEW addr \in Nodes, NEW c \in CreateClient(addr)
    PROVE  c.ok \in BOOLEAN /\ c.map \subseteq Nodes /\ client_map_ \subseteq c.map /\ (c.ok => addr \in c.map)
<1>1. client_map_ \subseteq Nodes
  BY DEF TypeOK
<1>2. CASE c = [ok |-> TRUE, map |-> client_map_] /\ addr \in client_map_
  BY <1>1, <1>2
<1>3. CASE c = [ok |-> TRUE, map |-> client_map_ \cup {addr}]
  BY <1>1, <1>3
<1>4. CASE c = [ok |-> FALSE, map |-> client_map_]
  BY <1>1, <1>4
<1> QED BY <1>2, <1>3, <1>4 DEF CreateClient

\* The parse goes on: nothing changes but the client map and what is left of the
\* answer.
LEMMA ParseGoesOn ==
    ASSUME ClientInv, addrs # <<>>, Head(addrs) # "", itair_ = "cluster",
           UNCHANGED <<itair_, tcp, slot_to_clients_, addrs, ready, stale, call>>,
           client_map_' \subseteq Nodes, client_map_ \subseteq client_map_',
           parse' \in [on : BOOLEAN, lines : Seq(Lines), addr : Addresses, items : Seq(Items)],
           parse'.on, parse'.items # <<>> => parse'.addr \in client_map_'
    PROVE  ClientInv'
<1>1. TypeOK /\ InitHolds /\ IsCall(call) /\ call.phase = "idle" /\ ~ready
  BY DEF ClientInv, InitHolds, CallHolds
<1>2. TypeOK'
  BY <1>1 DEF TypeOK
<1>3. InitHolds'
  BY <1>1 DEF InitHolds
<1>4. CallHolds(call, itair_', ready', slot_to_clients_')
  BY <1>1, IdleHolds
<1> QED BY <1>2, <1>3, <1>4 DEF ClientInv

\* The first connection and the answer to CLUSTER NODES.
LEMMA InitClusterKeeps ==
    ASSUME ClientInv, InitCluster PROVE ClientInv'
<1>1. TypeOK /\ InitHolds /\ IsCall(call) /\ call.phase = "idle" /\ addrs # <<>> /\ Head(addrs) # "" /\ itair_ = "cluster"
      /\ ~parse.on
  BY DEF ClientInv, InitHolds, CallHolds, InitCluster
<1>2. UNCHANGED <<itair_, tcp, slot_to_clients_, call>>
  BY DEF InitCluster
<1>3. Head(addrs) \in Nodes
  <2>1. addrs \in Seq(Addresses)
    BY <1>1 DEF TypeOK
  <2>2. Head(addrs) \in Addresses
    BY <1>1, <2>1, HeadAndTail
  <2> QED BY <1>1, <2>2 DEF Addresses
<1>4. PICK seed \in CreateClient(Head(addrs)) :
          \/ ~seed.ok /\ NextAddr(FALSE) /\ UNCHANGED <<client_map_, stale, parse>>
          \/ seed.ok /\ AttemptFails
          \/ /\ seed.ok /\ client_map_' = seed.map
             /\ \E lines \in NodesReplies : parse' = [NoParse EXCEPT !.on = TRUE, !.lines = lines]
             /\ UNCHANGED <<addrs, ready, stale>>
  BY DEF InitCluster
<1>5. CASE ~seed.ok /\ NextAddr(FALSE) /\ UNCHANGED <<client_map_, stale, parse>>
  <2>1. addrs' \in Seq(Addresses) /\ ready' = FALSE
    BY <1>1, <1>5, NextAddrType
  <2>2. TypeOK'
    BY <1>1, <1>2, <1>5, <2>1 DEF TypeOK
  <2>3. parse.items = <<>>
    BY <1>1 DEF InitHolds
  <2>4. InitHolds'
    BY <1>1, <1>2, <1>5, <2>1, <2>3 DEF InitHolds
  <2>5. CallHolds(call, itair_', ready', slot_to_clients_')
    BY <1>1, IdleHolds
  <2> QED BY <1>2, <2>2, <2>4, <2>5 DEF ClientInv
<1>6. CASE seed.ok /\ AttemptFails
  BY <1>1, <1>2, <1>6, AttemptFailsKeeps
<1>7. CASE /\ seed.ok /\ client_map_' = seed.map
           /\ \E lines \in NodesReplies : parse' = [NoParse EXCEPT !.on = TRUE, !.lines = lines]
           /\ UNCHANGED <<addrs, ready, stale>>
  <2>1. PICK lines \in NodesReplies : parse' = [NoParse EXCEPT !.on = TRUE, !.lines = lines]
    BY <1>7
  <2>2. lines \in Seq(Lines)
    BY Inputs
  <2>3. /\ parse' \in [on : BOOLEAN, lines : Seq(Lines), addr : Addresses, items : Seq(Items)]
        /\ parse'.on /\ parse'.items = <<>>
    BY <2>1, <2>2, NoParseFields
  <2>4. client_map_' \subseteq Nodes /\ client_map_ \subseteq client_map_'
    BY <1>1, <1>3, <1>4, <1>7, CreateClientFields
  <2> QED BY <1>1, <1>2, <1>7, <2>3, <2>4, ParseGoesOn
<1> QED BY <1>4, <1>5, <1>6, <1>7

\* The fields of what is left to parse.
LEMMA ParseFields ==
    ASSUME TypeOK
    PROVE  /\ parse.lines \in Seq(Lines) /\ parse.addr \in Addresses /\ parse.items \in Seq(Items)
           /\ parse \in [on : BOOLEAN, lines : Seq(Lines), addr : Addresses, items : Seq(Items)]
  BY DEF TypeOK

\* A line of the answer.
LEMMA ParseLineKeeps ==
    ASSUME ClientInv, ParseLine PROVE ClientInv'
<1>1. TypeOK /\ InitHolds /\ addrs # <<>> /\ Head(addrs) # "" /\ itair_ = "cluster"
      /\ parse.on /\ parse.items = <<>> /\ parse.lines # <<>>
  BY DEF ClientInv, InitHolds, ParseLine
<1>2. UNCHANGED <<itair_, tcp, slot_to_clients_, call>>
  BY DEF ParseLine
<1> DEFINE line == Head(parse.lines)
           rest == Tail(parse.lines)
<1>3. line \in Lines /\ rest \in Seq(Lines)
  BY <1>1, ParseFields, HeadAndTail
<1>4. line.addr \in Addresses /\ line.items \in Seq(Items)
  BY <1>3 DEF Lines
<1>5. \/ /\ parse' = [parse EXCEPT !.lines = rest]
         /\ UNCHANGED <<client_map_, addrs, ready, stale>>
      \/ AttemptFails
      \/ /\ line.addr # ""
         /\ \E c \in CreateClient(line.addr) :
               /\ c.ok /\ client_map_' = c.map
               /\ parse' = [parse EXCEPT !.lines = rest, !.addr = line.addr, !.items = line.items]
               /\ UNCHANGED <<addrs, ready, stale>>
  BY DEF ParseLine
<1> HIDE DEF line, rest
<1>6. CASE /\ parse' = [parse EXCEPT !.lines = rest]
           /\ UNCHANGED <<client_map_, addrs, ready, stale>>
  <2>1. /\ parse' \in [on : BOOLEAN, lines : Seq(Lines), addr : Addresses, items : Seq(Items)]
        /\ parse'.on /\ parse'.items = <<>>
    BY <1>1, <1>3, <1>6, ParseFields
  <2>2. client_map_' \subseteq Nodes /\ client_map_ \subseteq client_map_'
    BY <1>1, <1>6 DEF TypeOK
  <2> QED BY <1>1, <1>2, <1>6, <2>1, <2>2, ParseGoesOn
<1>7. CASE AttemptFails
  BY <1>1, <1>2, <1>7, AttemptFailsKeeps
<1>8. ASSUME line.addr # "", NEW c \in CreateClient(line.addr), c.ok, client_map_' = c.map,
             parse' = [parse EXCEPT !.lines = rest, !.addr = line.addr, !.items = line.items],
             UNCHANGED <<addrs, ready, stale>>
      PROVE  ClientInv'
  <2>1. line.addr \in Nodes
    BY <1>4, <1>8 DEF Addresses
  <2>2. client_map_' \subseteq Nodes /\ client_map_ \subseteq client_map_' /\ line.addr \in client_map_'
    BY <1>1, <1>8, <2>1, CreateClientFields
  <2>3. /\ parse' \in [on : BOOLEAN, lines : Seq(Lines), addr : Addresses, items : Seq(Items)]
        /\ parse'.on /\ parse'.addr = line.addr
    BY <1>1, <1>3, <1>4, <1>8, ParseFields
  <2> QED BY <1>1, <1>2, <1>8, <2>2, <2>3, ParseGoesOn
<1> QED BY <1>5, <1>6, <1>7, <1>8

\* A slot item: the client of the line is in client_map_.
LEMMA ParseItemKeeps ==
    ASSUME ClientInv, ParseItem PROVE ClientInv'
<1>1. TypeOK /\ InitHolds /\ addrs # <<>> /\ Head(addrs) # "" /\ itair_ = "cluster" /\ ~ready /\ IsCall(call)
      /\ call.phase = "idle" /\ parse.on /\ parse.items # <<>> /\ parse.addr \in client_map_
  BY DEF ClientInv, InitHolds, ParseItem, CallHolds
<1>2. UNCHANGED <<itair_, tcp, call>>
  BY DEF ParseItem
<1> DEFINE item == Head(parse.items)
           rest == Tail(parse.items)
<1>3. item \in Items /\ rest \in Seq(Items)
  BY <1>1, ParseFields, HeadAndTail
<1>e. <<>> \in Seq(Items)
  OBVIOUS
<1>4. client_map_ \subseteq Nodes
  BY <1>1 DEF TypeOK
<1>5. CASE /\ parse' = [parse EXCEPT !.items = <<>>]
           /\ UNCHANGED <<slot_to_clients_, client_map_, addrs, ready, stale>>
  <2>1. /\ parse' \in [on : BOOLEAN, lines : Seq(Lines), addr : Addresses, items : Seq(Items)]
        /\ parse'.on /\ parse'.items = <<>>
    BY <1>1, <1>e, <1>5, ParseFields
  <2> QED BY <1>1, <1>2, <1>4, <1>5, <2>1, ParseGoesOn
<1>6. CASE AttemptFails /\ UNCHANGED slot_to_clients_
  BY <1>1, <1>2, <1>6, AttemptFailsKeeps
<1>7. CASE /\ parse' = [parse EXCEPT !.items = rest]
           /\ slot_to_clients_' = [s \in Slots |-> IF s \in item.lo .. item.hi THEN parse.addr ELSE slot_to_clients_[s]]
           /\ UNCHANGED <<client_map_, addrs, ready, stale>>
  <2>1. /\ parse' \in [on : BOOLEAN, lines : Seq(Lines), addr : Addresses, items : Seq(Items)]
        /\ parse'.on /\ parse'.addr = parse.addr
    BY <1>1, <1>3, <1>7, ParseFields
  <2>2. ASSUME NEW s \in Slots
        PROVE  slot_to_clients_'[s] = parse.addr \/ slot_to_clients_'[s] = slot_to_clients_[s]
    BY <1>7
  <2>3. slot_to_clients_' \in [Slots -> Nodes \cup {NoClient}]
    BY <1>1, <1>4, <1>7 DEF TypeOK
  <2>4. TypeOK'
    BY <1>1, <1>2, <1>7, <2>1, <2>3 DEF TypeOK
  <2>5. InitHolds'
    BY <1>1, <1>2, <1>7, <2>1, <2>2 DEF InitHolds
  <2>6. CallHolds(call, itair_', ready', slot_to_clients_')
    BY <1>1, IdleHolds
  <2> QED BY <1>2, <2>4, <2>5, <2>6 DEF ClientInv
<1> QED BY <1>5, <1>6, <1>7 DEF ParseItem

\* The end of the parse: every slot has a client, or the next address is tried.
LEMMA ParseEndsKeeps ==
    ASSUME ClientInv, ParseEnds PROVE ClientInv'
<1>1. TypeOK /\ InitHolds /\ IsCall(call) /\ call.phase = "idle" /\ addrs # <<>> /\ itair_ = "cluster"
  BY DEF ClientInv, InitHolds, CallHolds, ParseEnds
<1>2. UNCHANGED <<itair_, tcp, slot_to_clients_, client_map_, stale, call>> /\ parse' = NoParse
  BY DEF ParseEnds
<1> DEFINE ok == CheckSlotToClients
<1>3. ok \in BOOLEAN
  BY DEF CheckSlotToClients
<1>4. addrs' \in Seq(Addresses) /\ ready' = ok /\ (ok => addrs' = <<>>)
  BY <1>1, <1>3, NextAddrType DEF ParseEnds
<1>5. TypeOK'
  BY <1>1, <1>2, <1>3, <1>4, NoParseFields DEF TypeOK
<1>6. ready' => CheckSlotToClients'
  BY <1>2, <1>4 DEF CheckSlotToClients
<1>7. InitHolds'
  BY <1>1, <1>2, <1>4, <1>6, NoParseFields DEF InitHolds
<1>8. CallHolds(call, itair_', ready', slot_to_clients_')
  BY <1>1, IdleHolds
<1> QED BY <1>2, <1>5, <1>7, <1>8 DEF ClientInv

\* A connection that is made later.
LEMMA ConnectLaterKeeps ==
    ASSUME ClientInv, ConnectLater PROVE ClientInv'
<1>1. /\ UNCHANGED <<itair_, slot_to_clients_, client_map_, addrs, ready, stale, parse, call>> /\ tcp' = "up"
  BY DEF ConnectLater
<1>2. TypeOK'
  BY <1>1 DEF ClientInv, TypeOK
<1>3. InitHolds'
  BY <1>1 DEF ClientInv, InitHolds, CheckSlotToClients
<1> QED BY <1>1, <1>2, <1>3 DEF ClientInv

\* No client any more: nothing is left of it.
LEMMA DiscardKeeps ==
    ASSUME ClientInv, Discard, addrs' = <<>>, parse' = NoParse \/ (parse' = parse /\ addrs = <<>>), call' = Idle
    PROVE  ClientInv'
<1>1. TypeOK /\ InitHolds
  BY DEF ClientInv
<1>2. parse' \in [on : BOOLEAN, lines : Seq(Lines), addr : Addresses, items : Seq(Items)] /\ ~parse'.on /\ parse'.items = <<>>
  <2>1. CASE parse' = NoParse
    BY <2>1, NoParseFields
  <2>2. CASE parse' = parse /\ addrs = <<>>
    BY <1>1, <2>2, ParseFields DEF InitHolds
  <2> QED BY <2>1, <2>2
<1>3. TypeOK'
  BY <1>1, <1>2, NoAddrs, IdleFields DEF TypeOK, Discard
<1>4. InitHolds'
  BY <1>2 DEF InitHolds, Discard
<1>5. CallHolds(Idle, itair_', ready', slot_to_clients_')
  BY IdleFields, IdleHolds
<1> QED BY <1>3, <1>4, <1>5 DEF ClientInv

(***************************************************************************)
(* The steps of a call                                                      *)
(***************************************************************************)
\* A step that leaves the client alone keeps what holds between its calls.
LEMMA CallStepKeeps ==
    ASSUME ClientInv, addrs = <<>>, UNCHANGED <<itair_, tcp, slot_to_clients_, client_map_, addrs, ready, stale, parse>>,
           CallHolds(call', itair_, ready, slot_to_clients_)
    PROVE  ClientInv'
<1>1. IsCall(call')
  BY DEF CallHolds
<1>2. call'.phase \in {"idle", "sent", "done"}
  BY <1>1 DEF IsCall
<1>3. TypeOK'
  BY <1>2 DEF ClientInv, TypeOK
<1>4. InitHolds'
  BY DEF ClientInv, InitHolds, CheckSlotToClients
<1>5. CallHolds(call', itair_', ready', slot_to_clients_')
  OBVIOUS
<1> QED BY <1>3, <1>4, <1>5 DEF ClientInv

\* What a standalone client does with a command.
LEMMA StandaloneHolds ==
    ASSUME ClientInv, itair_ = "standalone",
           NEW m \in Methods \cup {RawMethod}, NEW keys, NEW n, NEW c, c = NewCall(m, keys, n), StandaloneCall(c),
           HasWords(c)
    PROVE  CallHolds(call', itair_, ready, slot_to_clients_)
<1>1. CASE tcp = "up"
  <2>1. PICK s \in Nodes : SendTo(c, s)
    BY <1>1 DEF StandaloneCall
  <2>2. s # NoClient
    BY Inputs
  <2> QED BY <2>1, <2>2, SendToHolds
<1>2. CASE tcp = "none"
  <2>1. call' = c
    BY <1>2 DEF StandaloneCall
  <2> QED BY <2>1, WaitHolds
<1>3. CASE tcp # "up" /\ tcp # "none"
  <2>1. call' = Ended(c, Crash, 0)
    BY <1>3 DEF StandaloneCall
  <2>2. ~ready
    BY <1>3 DEF ClientInv, InitHolds
  <2> QED BY <2>1, <2>2, EndHolds
<1> QED BY <1>1, <1>2, <1>3

\* What a cluster client does with a command.
LEMMA ClusterHolds ==
    ASSUME ClientInv, itair_ = "cluster",
           NEW m \in Methods, NEW n \in Nat, ~AsyncCommands[m].list => n = 0, Enough(m, n),
           NEW keys \in KeyArgs(AsyncCommands[m], n), NEW c, c = NewCall(m, keys, n), ClusterCall(c)
    PROVE  CallHolds(call', itair_, ready, slot_to_clients_)
<1> DEFINE route == ClusterRoute[m]
           slots == slot_to_clients_
<1>0. c.m = m /\ c.keys = keys /\ c.n = n /\ m \in Methods \cup {RawMethod}
  BY NewCallFields
<1>1. ~IsRaw(m)
  BY CommandsAssumption
<1>2. NotWritten(c) <=> route = "todo"
  BY <1>0, <1>1 DEF NotWritten
<1>3. ready => \A s \in Slots : slots[s] # NoClient
  BY DEF ClientInv, InitHolds, CheckSlotToClients
<1>4. HasWords(c)
  BY <1>0, WordsSuffice
<1>5. CASE route \in {"byKey", "firstKey"} /\ SendTo(c, GetClientByKey(c.keys[1]))
  <2>1. keys[1] \in Slots /\ (route = "byKey" => DOMAIN keys = {1})
    BY <1>5, FirstKey
  <2> DEFINE node == slots[keys[1]]
  <2>2. SendTo(c, node)
    BY <1>0, <1>5 DEF GetClientByKey
  <2>3. \/ \A i \in DOMAIN keys : slots[keys[i]] = node
        \/ ClusterRoute[m] \in {"firstKey", "checkedAny"}
    BY <1>5, <2>1
  <2>4. ready => node # NoClient
    BY <1>3, <2>1
  <2>5. ~NotWritten(c)
    BY <1>2, <1>5
  <2> HIDE DEF node
  <2> QED BY <1>0, <1>4, <2>2, <2>3, <2>4, <2>5, SendToHolds
<1>6. CASE route = "checked" /\ CheckKeyInSameSlot(c.keys) /\ SendTo(c, GetClientByKey(c.keys[1]))
  <2>1. keys[1] \in Slots
    BY <1>6, FirstKey
  <2> DEFINE node == slots[keys[1]]
  <2>2. SendTo(c, node)
    BY <1>0, <1>6 DEF GetClientByKey
  <2>3. \A i \in DOMAIN keys : slots[keys[i]] = node
    BY <1>0, <1>6 DEF CheckKeyInSameSlot
  <2>4. ready => node # NoClient
    BY <1>3, <2>1
  <2> HIDE DEF node
  <2> QED BY <1>0, <1>2, <1>4, <1>6, <2>2, <2>3, <2>4, SendToHolds
<1>7. ASSUME route \in {"any", "checkedAny"}, NEW s \in Slots, SendTo(c, slots[s])
      PROVE  CallHolds(call', itair_, ready, slot_to_clients_)
  <2>1. \/ \A i \in DOMAIN keys : slots[keys[i]] = slots[s]
        \/ ClusterRoute[m] \in {"firstKey", "checkedAny"}
    BY <1>7, NoKey
  <2>2. ready => slots[s] # NoClient
    BY <1>3
  <2> QED BY <1>0, <1>2, <1>4, <1>7, <2>1, <2>2, SendToHolds
<1>8. ASSUME route # "todo", NEW r, r # Crash, Answer(c, r)
      PROVE  CallHolds(call', itair_, ready, slot_to_clients_)
  <2>1. call' = Ended(c, r, 1)
    BY <1>8 DEF Answer
  <2> QED BY <1>0, <1>2, <1>8, <2>1, EndHolds
<1>9. CASE route = "todo" /\ Dropped(c)
  <2>1. call' = Ended(c, NoResult, 0)
    BY <1>9 DEF Dropped
  <2> QED BY <1>0, <1>2, <1>9, <2>1, EndHolds, Distinct
<1>10. Value(<<1>>) # Crash /\ \A e : Err(e) # Crash
  BY Distinct DEF Value, Crash
<1>11. CASE route = "checked" /\ ~CheckKeyInSameSlot(c.keys) /\ Answer(c, Err("not in same slot"))
  BY <1>8, <1>10, <1>11
<1>12. CASE route = "any" /\ \E s \in Slots : SendTo(c, slot_to_clients_[s])
  BY <1>7, <1>12
<1>13. CASE route = "checkedAny" /\ \E s \in Slots : SendTo(c, slot_to_clients_[s])
  BY <1>7, <1>13
<1>14. CASE route = "checkedAny" /\ Answer(c, Err("null packet"))
  BY <1>8, <1>10, <1>14
<1>15. CASE route = "refused" /\ Answer(c, Err("not supported in cluster mode"))
  BY <1>8, <1>10, <1>15
<1>16. CASE route \in {"latched", "unlatched"} /\ \E r \in {Value(<<1>>), Err("fan-out failed")} : Answer(c, r)
  BY <1>8, <1>10, <1>16
<1> QED
  BY <1>0, <1>5, <1>6, <1>9, <1>11, <1>12, <1>13, <1>14, <1>15, <1>16 DEF ClusterCall

\* A call of a method.
LEMMA InvokeKeeps ==
    ASSUME ClientInv, NEW m \in Methods, Invoke(m) PROVE ClientInv'
<1>1. addrs = <<>> /\ UNCHANGED <<itair_, tcp, slot_to_clients_, client_map_, addrs, ready, stale, parse>>
  BY DEF Invoke
<1>2. WrapperCalls[m] = m /\ ~IsRaw(m) /\ AsyncCommands[m].list \in BOOLEAN
  BY CommandsAssumption
<1>3. PICK n \in IF AsyncCommands[m].list THEN 0..MaxList ELSE {0} :
      \E keys \in KeyArgs(AsyncCommands[m], n) :
          LET c == NewCall(WrapperCalls[m], keys, n)
          IN  \/ itair_ = "null" /\ Answer(c, Err("not init"))
              \/ itair_ # "null" /\ ~Enough(m, n) /\ Answer(c, Err("params empty"))
              \/ /\ itair_ # "null" /\ Enough(m, n)
                 /\ \/ itair_ = "standalone" /\ StandaloneCall(c)
                    \/ itair_ = "cluster" /\ ClusterCall(c)
  BY DEF Invoke
<1>4. PICK keys \in KeyArgs(AsyncCommands[m], n) :
          LET c == NewCall(WrapperCalls[m], keys, n)
          IN  \/ itair_ = "null" /\ Answer(c, Err("not init"))
              \/ itair_ # "null" /\ ~Enough(m, n) /\ Answer(c, Err("params empty"))
              \/ /\ itair_ # "null" /\ Enough(m, n)
                 /\ \/ itair_ = "standalone" /\ StandaloneCall(c)
                    \/ itair_ = "cluster" /\ ClusterCall(c)
  BY <1>3
<1>5. n \in Nat /\ (~AsyncCommands[m].list => n = 0)
  <2>1. CASE AsyncCommands[m].list
    <3>1. n \in 0 .. MaxList
      BY <1>3, <2>1
    <3>2. MaxList \in Nat
      BY Bounds
    <3>3. n \in Nat
      BY <3>1, <3>2
    <3> QED BY <2>1, <3>3
  <2>2. CASE ~AsyncCommands[m].list
    <3>1. n = 0
      BY <1>3, <2>2
    <3> QED BY <3>1
  <2> QED BY <2>1, <2>2
<1> DEFINE c == NewCall(m, keys, n)
<1>6. c.m = m /\ c.n = n /\ m \in Methods \cup {RawMethod}
  BY NewCallFields
<1>7. \/ itair_ = "null" /\ Answer(c, Err("not init"))
      \/ itair_ # "null" /\ ~Enough(m, n) /\ Answer(c, Err("params empty"))
      \/ Enough(m, n) /\ itair_ = "standalone" /\ StandaloneCall(c)
      \/ Enough(m, n) /\ itair_ = "cluster" /\ ClusterCall(c)
  BY <1>2, <1>4
<1>8. c = NewCall(m, keys, n)
  OBVIOUS
<1> HIDE DEF c
<1>9. CASE itair_ = "null" /\ Answer(c, Err("not init"))
  <2>1. call' = Ended(c, Err("not init"), 1) /\ Err("not init") # Crash
    BY <1>9, Distinct DEF Answer
  <2>2. CallHolds(call', itair_, ready, slot_to_clients_)
    BY <1>6, <1>8, <1>9, <2>1, EndHolds
  <2> QED BY <1>1, <2>2, CallStepKeeps
<1>10. CASE ~Enough(m, n) /\ Answer(c, Err("params empty"))
  <2>1. call' = Ended(c, Err("params empty"), 1) /\ Err("params empty") # Crash
    BY <1>10, Distinct DEF Answer
  <2>2. ~NotWritten(c)
    BY <1>6, <1>10 DEF NotWritten
  <2>3. CallHolds(call', itair_, ready, slot_to_clients_)
    BY <1>6, <1>8, <2>1, <2>2, EndHolds
  <2> QED BY <1>1, <2>3, CallStepKeeps
<1>11. CASE Enough(m, n) /\ itair_ = "standalone" /\ StandaloneCall(c)
  <2>1. HasWords(c)
    BY <1>5, <1>6, <1>11, WordsSuffice
  <2>2. CallHolds(call', itair_, ready, slot_to_clients_)
    BY <1>6, <1>8, <1>11, <2>1, StandaloneHolds
  <2> QED BY <1>1, <2>2, CallStepKeeps
<1>12. CASE Enough(m, n) /\ itair_ = "cluster" /\ ClusterCall(c)
  <2>1. CallHolds(call', itair_, ready, slot_to_clients_)
    BY <1>4, <1>5, <1>8, <1>12, ClusterHolds
  <2> QED BY <1>1, <2>1, CallStepKeeps
<1> QED BY <1>7, <1>9, <1>10, <1>11, <1>12

\* sendCommand() of any words.
LEMMA SendCommandKeeps ==
    ASSUME ClientInv, NEW argv \in RawArgvs, SendCommand(argv) PROVE ClientInv'
<1>1. addrs = <<>> /\ UNCHANGED <<itair_, tcp, slot_to_clients_, client_map_, addrs, ready, stale, parse>>
  BY DEF SendCommand
<1> DEFINE m == RawMethod
           c == NewCall(m, <<>>, 0)
           slot == CalcCommandSlot(argv)
           keys == <<slot>>
           node == slot_to_clients_[slot]
<1>2. IsRaw(m)
  BY DEF IsRaw, RawMethod
<1>3. m \in Methods \cup {RawMethod} /\ c.m = m
  BY NewCallFields
<1>4. \/ itair_ = "null" /\ Answer(c, Err("null packet"))
      \/ itair_ = "standalone" /\ StandaloneCall(c)
      \/ itair_ = "cluster" /\ call' = Ended(c, Crash, 1)
      \/ itair_ = "cluster" /\ node # NoClient /\ SendTo(NewCall(m, keys, 0), node)
  BY DEF SendCommand
<1>5. c = NewCall(m, <<>>, 0) /\ keys = <<slot>> /\ node = slot_to_clients_[slot]
  OBVIOUS
<1> HIDE DEF c, m, keys, node, slot
<1>6. CASE itair_ = "null" /\ Answer(c, Err("null packet"))
  <2>1. call' = Ended(c, Err("null packet"), 1) /\ Err("null packet") # Crash
    BY <1>6, Distinct DEF Answer
  <2>2. CallHolds(call', itair_, ready, slot_to_clients_)
    BY <1>3, <1>5, <1>6, <2>1, EndHolds
  <2> QED BY <1>1, <2>2, CallStepKeeps
<1>7. CASE itair_ = "standalone" /\ StandaloneCall(c)
  <2>1. HasWords(c)
    BY <1>2, <1>3 DEF Accepted, HasWords
  <2>2. CallHolds(call', itair_, ready, slot_to_clients_)
    BY <1>3, <1>5, <1>7, <2>1, StandaloneHolds
  <2> QED BY <1>1, <2>2, CallStepKeeps
<1>8. CASE itair_ = "cluster" /\ call' = Ended(c, Crash, 1)
  <2>1. CallHolds(call', itair_, ready, slot_to_clients_)
    BY <1>2, <1>3, <1>5, <1>8, EndHolds
  <2> QED BY <1>1, <2>1, CallStepKeeps
<1>9. CASE itair_ = "cluster" /\ node # NoClient /\ SendTo(NewCall(m, keys, 0), node)
  <2> DEFINE d == NewCall(m, keys, 0)
  <2>1. d.m = m
    BY NewCallFields
  <2>2. HasWords(d) /\ ~NotWritten(d)
    BY <1>2, <2>1 DEF Accepted, HasWords, NotWritten
  <2>3. \A i \in DOMAIN keys : slot_to_clients_[keys[i]] = node
    BY <1>5
  <2>4. d = NewCall(m, keys, 0) /\ SendTo(d, node)
    BY <1>9
  <2> HIDE DEF d
  <2>5. itair_ = "cluster" /\ node # NoClient
    BY <1>9
  <2>6. CallHolds(call', itair_, ready, slot_to_clients_)
    BY <1>3, <2>2, <2>3, <2>4, <2>5, SendToHolds
  <2> QED BY <1>1, <2>6, CallStepKeeps
<1> QED BY <1>4, <1>6, <1>7, <1>8, <1>9

\* The reply.
LEMMA RecvReplyKeeps ==
    ASSUME ClientInv, RecvReply PROVE ClientInv'
<1>1. /\ UNCHANGED <<itair_, tcp, slot_to_clients_, client_map_, addrs, ready, stale, parse>> /\ call.phase = "sent"
      /\ CallHolds(call, itair_, ready, slot_to_clients_)
  BY DEF RecvReply, ClientInv
<1>2. addrs = <<>> /\ call.calls = 0
  BY <1>1 DEF ClientInv, InitHolds, CallHolds, Told
<1>3. PICK p \in Replies(call) :
          LET r == Decode(HelperOf(call.m), p)
          IN  call' = [call EXCEPT !.phase = "done", !.reply = p, !.result = r,
                                   !.calls = IF r = Crash THEN call.calls ELSE call.calls + 1]
  BY DEF RecvReply
<1> DEFINE r == Decode(HelperOf(call.m), p)
           k == IF r = Crash THEN 0 ELSE 1
<1>4. call' = [call EXCEPT !.phase = "done", !.reply = p, !.result = r, !.calls = k]
  <2>1. (IF r = Crash THEN call.calls ELSE call.calls + 1) = k
    BY <1>2
  <2> QED BY <1>3, <2>1
<1>5. r = Decode(HelperOf(call.m), p) /\ k = IF r = Crash THEN 0 ELSE 1
  OBVIOUS
<1> HIDE DEF r, k
<1>6. CallHolds(call', itair_, ready, slot_to_clients_)
  BY <1>1, <1>4, <1>5, ReplyHolds
<1> QED BY <1>1, <1>2, <1>6, CallStepKeeps

(***************************************************************************)
(* The theorems                                                             *)
(***************************************************************************)
\* Every step keeps the invariant.
LEMMA NextInv == ClientInv /\ [Next]_vars => ClientInv'
<1> SUFFICES ASSUME ClientInv, [Next]_vars PROVE ClientInv'
  OBVIOUS
<1>1. CASE Return
  <2>1. UNCHANGED <<itair_, tcp, slot_to_clients_, client_map_, addrs, ready, stale, parse>> /\ call' = Idle
        /\ call.phase = "done"
    BY <1>1 DEF Return
  <2>2. addrs = <<>>
    BY <2>1 DEF ClientInv, InitHolds
  <2>3. CallHolds(call', itair_, ready, slot_to_clients_)
    BY <2>1, IdleFields, IdleHolds
  <2> QED BY <2>1, <2>2, <2>3, CallStepKeeps
<1>2. CASE Restart
  BY <1>2, DiscardKeeps DEF Restart
<1>3. CASE Destroy
  BY <1>3, DiscardKeeps DEF Destroy
<1>4. CASE UNCHANGED vars
  BY <1>4 DEF vars, ClientInv, TypeOK, InitHolds, CheckSlotToClients
<1>5. CASE \E type \in {"standalone", "cluster", "sentinel"}, list \in AddrLists : StartInit(type, list)
  BY <1>5, StartInitKeeps
<1>6. CASE \E m \in Methods : Invoke(m)
  BY <1>6, InvokeKeeps
<1>7. CASE \E argv \in RawArgvs : SendCommand(argv)
  BY <1>7, SendCommandKeeps
<1> QED
  BY <1>1, <1>2, <1>3, <1>4, <1>5, <1>6, <1>7, InitEmptyAddrKeeps, InitStandaloneKeeps, InitClusterKeeps, ParseLineKeeps,
     ParseItemKeeps, ParseEndsKeeps, ConnectLaterKeeps, RecvReplyKeeps DEF Next

\* What the invariant says of the client and of the call under way.
LEMMA InvHolds == ClientInv => CallbackCalledOnce /\ AnswersArrive /\ RequestsReachTheirNode
<1> SUFFICES ASSUME ClientInv PROVE CallbackCalledOnce /\ AnswersArrive /\ RequestsReachTheirNode
  OBVIOUS
<1>1. TypeOK /\ InitHolds /\ CallHolds(call, itair_, ready, slot_to_clients_)
  BY DEF ClientInv
<1>2. call.phase # "idle" => Told(call, itair_, ready) /\ Went(call, itair_, slot_to_clients_)
  BY <1>1 DEF CallHolds
<1>3. CallbackCalledOnce
  BY <1>2 DEF CallbackCalledOnce, Done, Told
<1>4. NoCrashOnceReady
  BY <1>2 DEF NoCrashOnceReady, Done, Told
<1>5. ErrorsAreReported
  BY <1>2 DEF ErrorsAreReported, Done, Told
<1>6. RepliesAreDelivered
  BY <1>2 DEF RepliesAreDelivered, Done, Told
<1>7. RoutedToOwner /\ EnoughWords
  BY <1>2 DEF RoutedToOwner, EnoughWords, Went, HasWords
<1>8. ReadyClusterIsWhole
  BY <1>1 DEF ReadyClusterIsWhole, InitHolds, CheckSlotToClients
<1> QED BY <1>1, <1>3, <1>4, <1>5, <1>6, <1>7, <1>8 DEF AnswersArrive, RequestsReachTheirNode

\* In every state of every client, whatever its addresses, its attempts of init(),
\* the answers to CLUSTER NODES and the replies: a call that has ended called its
\* callback once, but for the methods that are not written and a crash.
THEOREM CallsBackOnce == Spec => []CallbackCalledOnce
<1>1. ClientInv => CallbackCalledOnce
  BY InvHolds
<1> QED BY <1>1, InitInv, NextInv, PTL DEF Spec

\* A command goes to the node that owns its keys with words enough for the server,
\* and a client that says it is ready knows a client for every slot, which is in
\* client_map_ unless an attempt before left it behind.
THEOREM RequestsAreRouted == Spec => []RequestsReachTheirNode
<1>1. ClientInv => RequestsReachTheirNode
  BY InvHolds
<1> QED BY <1>1, InitInv, NextInv, PTL DEF Spec

\* The answer arrives: a client that says it is ready does not crash on a method,
\* errors are reported and replies delivered whole, with the exceptions MayCrash,
\* Reports and Delivers name.
THEOREM AnswersAreDelivered == Spec => []AnswersArrive
<1>1. ClientInv => AnswersArrive
  BY InvHolds
<1> QED BY <1>1, InitInv, NextInv, PTL DEF Spec
=============================================================================
