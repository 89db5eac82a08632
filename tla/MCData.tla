------------------------------- MODULE MCData -------------------------------
(* TLC instance of the parts that only work on their own data: the codec, the *)
(* buffer, the option objects, TLS, channels, name resolution and the         *)
(* structures and algorithms of common/.  They share no state, so one of them *)
(* is chosen in the initial state and the others stand still.                  *)
EXTENDS RespCodec, NetworkObjects, CommandParams, BlockingQueue, LRUMap,
        TokenBucket, ConcurrentHashMap, SlotsBitset, CidrTrieTree, StringMatch, Stralgo,
        NumberParse, MemcachedCodec

VARIABLE part

(***************************************************************************)
(* The data of the instance                                                 *)
(***************************************************************************)
MCLeaves ==
    {Packet(":", <<"2">>), Packet("+", <<>>), Packet("$", <<"\r", "\n">>), Packet("$", <<>>), Nil("$"), Nil("*"),
     Packet("#", <<"t">>), Packet("_", <<>>), Packet("=", <<"t", "x", "t", ":", "a">>), Packet("!", <<"e">>),
     Packet("-", <<"e">>), Packet(",", <<"inf">>), Packet("(", <<"9">>)}
MCAggregates ==
    {Packet("*", <<>>), Packet("*", <<Packet("$", <<"a">>), Packet("*", <<Packet(":", <<"1">>)>>)>>),
     Packet("*", <<Packet("*", <<>>), Nil("$")>>), Packet("%", <<Packet("+", <<"k">>), Packet("*", <<>>)>>),
     Packet("~", <<Packet("+", <<"k">>)>>), Packet(">", <<Packet("%", <<>>)>>),
     Packet("|", <<Packet("+", <<>>), Packet("_", <<>>)>>)}
MCReplyStreams == {<<>>} \cup {<<p, q>> : p \in MCLeaves \cup MCAggregates, q \in MCAggregates \cup {Packet(":", <<"2">>)}}
\* Streams no server sends: an unknown marker, lines without their number, a
\* null of a type that has none, a line that does not end.
MCJunk ==
    {<<"?">>, <<"$", "x", "\r", "\n">>, <<":", "\r", "\n">>, <<"*", "\r", "\n">>, <<"~", "-1", "\r", "\n">>,
     <<"#", "x", "t", "\r", "\n">>, <<"=", "1", "\r", "\n", "a", "\r", "\n">>, <<"$">> \o [i \in 1 .. 14 |-> "1"]}
MCSlotTexts ==
    {<<>>, <<<<NaN>>>>, <<<<SLOTS_NUM>>>>, <<<<2, 1>>>>, <<<<0, 1, 2>>>>, <<<<0, 1>>, <<1>>>>, <<<<0, 1>>, <<NaN>>>>,
     <<<<3>>, <<0, 1>>>>}
\* "", "a", "ab", "bab", "aab" and "-B".
MCMatchTexts == {<<>>, <<97>>, <<97, 98>>, <<98, 97, 98>>, <<97, 97, 98>>, <<45, 66>>}
\* Requests of the memcached protocols: text ones with and without a data
\* block, binary ones, and malformed ones of both.
LineReq(words, means) == [kind |-> "text", words |-> words, block |-> FALSE, value |-> <<>>, means |-> means]
BlockReq(words, value, means) == [kind |-> "text", words |-> words, block |-> TRUE, value |-> value, means |-> means]
BinaryReq(op, ext, key, value, means) ==
    [kind |-> "binary", op |-> op, ext |-> ext, key |-> key, value |-> value, means |-> means,
     body |-> Len(ext) + Len(key) + Len(value)]
\* A header that counts fewer bytes than its parts have.
ShortReq(op, ext, key) == [BinaryReq(op, ext, key, <<>>, Malformed) EXCEPT !.body = Len(ext)]
Stored(cmd, n, value, more) == BlockReq(<<<<cmd>>, <<"k">>, <<"0">>, <<"0">>, <<n>>>>, value, <<"memcache_" \o cmd, "k", "0", "0", n, value>> \o more)
Broken(cmd, n, value) == [Stored(cmd, n, value, <<>>) EXCEPT !.means = Malformed]
MCTexts ==
    {Stored("set", "2", <<"v", "w">>, <<"-1">>), Stored("append", "0", <<>>, <<"-1">>), Stored("cas", "1", <<"\r">>, <<>>),
     LineReq(<<<<"get">>, <<"k">>>>, <<"memcache_get", "k">>), LineReq(<<<<"incr">>, <<"k">>, <<"2">>>>, <<"memcache_incr", "k", "2", "0", "0", "-1">>),
     LineReq(<<<<"delete">>, <<"k">>>>, <<"memcache_delete", "k", "-1">>),
     BlockReq(<<<<"mscan">>, <<"0">>, <<"k">>, <<"0">>, <<"0">>, <<"1">>>>, <<"v">>, <<"memcache_mscan", "0", "k", "0", "0", "1", <<"v">>>>)}
MCBadTexts ==
    {Broken("set", "1", <<"v", "w">>), Broken("set", "3", <<"u", "v", "w">>), Broken("set", "x", <<>>),
     LineReq(<<<<"set">>, <<"k">>, <<"0">>, <<"2">>>>, Malformed), LineReq(<<<<"get">>, <<"k", "k", "k">>>>, Malformed), LineReq(<<>>, Malformed)}
\* Well formed, and refused all the same.
MCLineFeeds == {Stored("set", "2", <<"\n", "w">>, <<"-1">>), Stored("append", "1", <<"\n">>, <<"-1">>)}
MCBinaries ==
    {BinaryReq("setq", <<"1", "9">>, <<"k">>, <<"v">>, <<"memcache_set", <<"k">>, "1", "9", 1, <<"v">>, "cas">>),
     BinaryReq("append", <<>>, <<"k">>, <<"v", "w">>, <<"memcache_append", <<"k">>, "0", "0", 2, <<"v", "w">>, "cas">>),
     BinaryReq("get", <<>>, <<"k", "l">>, <<>>, <<"memcache_get", <<"k", "l">>>>), BinaryReq("noop", <<>>, <<>>, <<>>, <<"memcache_noop">>),
     BinaryReq("flush", <<"9">>, <<>>, <<>>, <<"memcache_flush", "9">>), BinaryReq("deleteq", <<>>, <<"k">>, <<>>, <<"memcache_delete", <<"k">>, "cas">>),
     BinaryReq("incr", <<"2", "1", "9">>, <<"k">>, <<>>, <<"memcache_incr", <<"k">>, "2", "1", "9", "cas">>),
     BinaryReq("sasl_auth", <<>>, <<"k">>, <<"v">>, <<"memcache_sasl_auth", <<"k">>, <<"v">>>>),
     BinaryReq("gatq", <<"9">>, <<"k">>, <<>>, <<"memcache_gat", <<"k">>, "9">>)}
MCBadBinaries ==
    {BinaryReq("set", <<"1">>, <<"k">>, <<"v">>, Malformed), BinaryReq("set", <<"1", "9">>, <<"k">>, <<"u", "v", "w">>, Malformed),
     BinaryReq("get", <<>>, <<"k">>, <<"v">>, Malformed), BinaryReq("get", <<>>, <<"k", "k", "k">>, <<>>, Malformed),
     BinaryReq("noop", <<>>, <<>>, <<"v">>, Malformed), BinaryReq("stat", <<>>, <<>>, <<>>, Malformed),
     ShortReq("set", <<"1", "9">>, <<"k">>), ShortReq("append", <<>>, <<"k">>), ShortReq("sasl_auth", <<>>, <<"k">>),
     ShortReq("get", <<>>, <<"k">>), ShortReq("incr", <<"2", "1", "9">>, <<"k">>)}
MCMemStreams ==
    {<<>>} \cup {<<p, q>> : p \in MCTexts \cup MCBadTexts \cup MCLineFeeds, q \in MCTexts} \cup {<<p, q>> : p \in MCBinaries \cup MCBadBinaries, q \in MCBinaries}
MCLcsStrings == UNION {[1 .. n -> {"x", "y"}] : n \in 0 .. 4}

(***************************************************************************)
(* The specification                                                        *)
(***************************************************************************)
netVars == <<respVars, memVars, bufferVars, tlsVars, channelVars, dnsVars, paramVars>>
structVars == <<bqVars, lruVars, tokenVars, mapVars, bitset_, trieVars>>
algVars == <<matchVars, lcsVars, digits>>
vars == <<part, netVars, structVars, algVars>>

Parts == {"resp", "buffer", "tls", "channel", "dns", "params", "queue", "lru", "tokens", "map", "slots", "trie", "match", "lcs", "digits",
          "memcached"}

Init ==
    /\ part \in Parts
    /\ RespInit /\ (part # "resp" => ~resp3 /\ replies = <<Packet("*", <<>>), Packet("*", <<>>)>>)
    /\ TlsInit /\ (part # "tls" => t.type = "client")
    /\ ChannelInit /\ (part # "channel" => ch.loop_ = CHOOSE l \in ChannelLoops : TRUE)
    /\ ParamsInit /\ (part # "params" => cls = "Set")
    /\ MatchInit /\ (part # "match" => text = <<>> /\ ~nocase)
    /\ (part = "memcached" \/ requests = <<>>) /\ MemInit
    /\ (part = "lcs" \/ (sa = <<>> /\ sb = <<>> /\ minmatchlen = 0)) /\ LcsInit
    /\ BufferInit /\ DnsInit /\ BqInit /\ LruInit /\ TokenInit /\ MapInit /\ SlotsInit /\ TrieInit
    /\ DigitsInit

InNet(p, A) == part = p /\ A /\ UNCHANGED <<part, structVars, algVars>>
InStruct(p, A) == part = p /\ A /\ UNCHANGED <<part, netVars, algVars>>
InAlg(p, A) == part = p /\ A /\ UNCHANGED <<part, netVars, structVars>>

InResp(A) == InNet("resp", A) /\ UNCHANGED <<memVars, bufferVars, tlsVars, channelVars, dnsVars, paramVars>>
InBuffer(A) == InNet("buffer", A) /\ UNCHANGED <<respVars, memVars, tlsVars, channelVars, dnsVars, paramVars>>
InTls(A) == InNet("tls", A) /\ UNCHANGED <<respVars, memVars, bufferVars, channelVars, dnsVars, paramVars>>
InChannel(A) == InNet("channel", A) /\ UNCHANGED <<respVars, memVars, bufferVars, tlsVars, dnsVars, paramVars>>
InDns(A) == InNet("dns", A) /\ UNCHANGED <<respVars, memVars, bufferVars, tlsVars, channelVars, paramVars>>
InParams(A) == InNet("params", A) /\ UNCHANGED <<respVars, memVars, bufferVars, tlsVars, channelVars, dnsVars>>
InMemcached(A) == InNet("memcached", A) /\ UNCHANGED <<respVars, bufferVars, tlsVars, channelVars, dnsVars, paramVars>>

Next ==
    \/ InResp(RespNext) \/ InBuffer(BufferNext) \/ InTls(TlsNext) \/ InChannel(ChannelNext) \/ InDns(DnsNext)
    \/ InParams(AddParams) \/ InMemcached(MemNext)
    \/ InStruct("queue", BqNext) /\ UNCHANGED <<lruVars, tokenVars, mapVars, bitset_, trieVars>>
    \/ InStruct("lru", LruNext) /\ UNCHANGED <<bqVars, tokenVars, mapVars, bitset_, trieVars>>
    \/ InStruct("tokens", TokenNext) /\ UNCHANGED <<bqVars, lruVars, mapVars, bitset_, trieVars>>
    \/ InStruct("map", MapNext) /\ UNCHANGED <<bqVars, lruVars, tokenVars, bitset_, trieVars>>
    \/ InStruct("slots", SlotsNext) /\ UNCHANGED <<bqVars, lruVars, tokenVars, mapVars, trieVars>>
    \/ InStruct("trie", TrieNext) /\ UNCHANGED <<bqVars, lruVars, tokenVars, mapVars, bitset_>>
    \/ InAlg("match", MatchNext) /\ UNCHANGED <<lcsVars, digits>>
    \/ InAlg("lcs", LcsNext) /\ UNCHANGED <<matchVars, digits>>
    \/ InAlg("digits", DigitsNext) /\ UNCHANGED <<matchVars, lcsVars>>

\* The loop runs what is ready on it; the peer ends a handshake and the socket
\* drains.
Fairness ==
    /\ WF_vars(InTls(Attach)) /\ WF_vars(InTls(ReadEvent)) /\ WF_vars(InTls(WriteEvent)) /\ WF_vars(InTls(RunFunctor))
    /\ WF_vars(InTls(PeerShakes)) /\ WF_vars(InTls(SocketDrains))
    /\ WF_vars(InDns(DnsLoop))

Spec == Init /\ [][Next]_vars /\ Fairness

\* What a TLS connection holds is delivered, and every resolution answered.
NetworkFinishes == TlsDrains /\ EveryStartIsAnswered

\* Encoder and decoder agree, in whatever pieces the bytes arrive: replies of
\* both RESP versions, requests of both memcached protocols, the options of
\* the commands; and what no peer sends is refused.
CodecsAgree ==
    /\ JunkIsRefused /\ DecodesWhatWasSent /\ NothingIsLeftOver
    /\ RequestsAreReadBack /\ ServerReadsWhatWasSet

\* The structures and algorithms of common/ compute what they are meant to,
\* at the limits of their types and sizes too.
ComputesAsDefined ==
    /\ KeepsTheLastUsed /\ GrantedWithinRate /\ TextIsReadBack /\ RangesAreTheRuns /\ SearchFindsTheWidest
    /\ MatchesAsMeant /\ LongestCommonSubsequence /\ RangesSpellTheMatch /\ ParsesExactly
=============================================================================
