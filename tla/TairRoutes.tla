------------------------------ MODULE TairRoutes ------------------------------
(* The layers above TairAsyncClient, method by method: the TairClientWrapper  *)
(* (futures), the TairClient facade (is there a client, are there arguments)  *)
(* and the TairClusterAsyncClient (which node gets the command).              *)
EXTENDS TairCommands

(***************************************************************************)
(* TairClusterAsyncClient: where a method goes.                             *)
(*   byKey     the client of the slot of the (first) single key             *)
(*   checked   all keys must be in one slot, then the client of that slot   *)
(*   firstKey  the client of the first key of the list, nothing checked     *)
(*   any       getClientRandom: the slot named by the clock                 *)
(*   checkedAny  all keys in one slot, then getClientRandom                 *)
(*   refused   the callback gets E_CLUSTER_NOT_SUPPORT_COMMAND              *)
(*   latched   every node, the caller waits for a latch                     *)
(*   unlatched every node, the caller does not wait                         *)
(*   todo      an empty body: nothing is sent, nobody is called             *)
(***************************************************************************)
Routed(family, exceptions) == exceptions @@ [m \in DOMAIN family |-> "byKey"]
Goes(S, route) == [m \in S |-> route]

ClusterGeneric1 ==
    Routed(GenericCommands1, Goes({<<"del", "list">>}, "refused")
                             @@ Goes({"unlink", "exists"} \X {"list"}, "firstKey"))
ClusterGeneric2 ==
    Routed(GenericCommands2,
           Goes(Plain({"touch"}), "firstKey") @@ Goes(Plain({"keys"}), "latched")
           @@ Goes(Plain({"randomkey"}), "any") @@ Goes(Params({"scan"}), "todo")
           @@ Goes(Plain({"rename", "renamenx"}) \cup Params({"sortStore", "copy"}), "checked"))
ClusterString == Routed(StringCommands1 @@ StringCommands2,
                        Goes(Plain({"bitop"}), "checked") @@ Goes(Plain({"mget", "mset", "msetnx"}), "refused"))
ClusterList == Routed(ListCommands1 @@ ListCommands2,
                      Goes(Plain({"blpop", "brpop", "brpoplpush", "rpoplpush", "lmove", "blmove"}), "checked"))
ClusterSet == Routed(SetCommands1 @@ SetCommands2,
                     Goes(Plain({"smove", "sdiff", "sinter", "sunion", "sdiffstore", "sinterstore", "sunionstore"}), "todo"))
ClusterHash == Routed(HashCommands, <<>>)
ClusterZset1 == Routed(ZsetCommands1, Goes(Plain({"bzpopmax", "bzpopmin"}), "checked"))
ClusterZset2 ==
    Routed(ZsetCommands2, Goes(Params({"zrangestore"}), "checked")
                          @@ Goes(Params({"zinter", "zinterstore", "zunion", "zunionstore"}), "todo"))
ClusterZset3 ==
    Routed(ZsetCommands3, Goes(Plain({"zdiff", "zdiffWithScores", "zdiffstore", "zdiffstoreWithScores"}), "todo"))
ClusterHllGeo == Routed(HllGeoCommands, Goes(Plain({"pfcount", "pfmerge"}), "checked"))
ClusterStream == Routed(StreamCommands, Goes(Plain({"xread", "xreadgroup"}), "checked"))
ClusterScript ==
       Goes(Plain({"eval", "evalRo", "evalsha", "evalshaRo"}), "checkedAny")
    @@ Goes(Plain({"scriptLoad", "scriptFlush", "scriptKill"}), "unlatched")
    @@ Goes(Plain({"scriptExists"}), "any")
ClusterOther ==
       Goes({"auth"} \X {"", "user"}, "any") @@ Goes(Plain({"clusterNodes"}), "any")
    @@ Goes(Plain({"quit", "flushall"}), "unlatched")
    @@ Goes(Plain({"publish", "clusterPublish"}), "byKey")

ClusterRoute ==
    ClusterGeneric1 @@ ClusterGeneric2 @@ ClusterString @@ ClusterList @@ ClusterSet @@ ClusterHash
    @@ ClusterZset1 @@ ClusterZset2 @@ ClusterZset3 @@ ClusterHllGeo @@ ClusterStream
    @@ ClusterScript @@ ClusterOther

(***************************************************************************)
(* TairClient: the shortest list argument a method lets through, 0 where it *)
(* does not look.  Every method first tests that there is a client.         *)
(***************************************************************************)
Needs(family, one, two) ==
    [m \in DOMAIN family |-> IF m \in Plain(one) THEN 1 ELSE IF m \in Plain(two) THEN 2 ELSE 0]

FacadeGeneric1 == Goes({"del", "unlink", "exists"} \X {"list"}, 1) @@ Needs(GenericCommands1, {}, {})
FacadeGeneric2 == Needs(GenericCommands2, {"touch"}, {})
FacadeString1 == Needs(StringCommands1, {}, {"bitop"})
FacadeString2 == Needs(StringCommands2, {"mget"}, {"mset", "msetnx"})
FacadeList1 == Needs(ListCommands1, {"blpop", "brpop", "lpush", "lpushx"}, {})
FacadeList2 == Needs(ListCommands2, {"rpush", "rpushx"}, {})
FacadeSet1 == Needs(SetCommands1, {"sadd", "srem"}, {})
FacadeSet2 == Needs(SetCommands2, {"sdiff", "sinter", "sunion", "sdiffstore", "sinterstore",
                                   "sunionstore", "smismember"}, {})
FacadeHash == Goes({<<"hset", "list">>}, 2) @@ Needs(HashCommands, {"hdel", "hmget"}, {})
FacadeZset1 == Goes(Params({"zadd"}), 2) @@ Needs(ZsetCommands1, {"bzpopmax", "bzpopmin"}, {})
FacadeZset2 == Goes(Params({"zinter", "zinterstore", "zunion", "zunionstore"}), 2)
               @@ Needs(ZsetCommands2, {"zrem"}, {})
FacadeZset3 == Needs(ZsetCommands3, {"zmscore"}, {"zdiff", "zdiffWithScores", "zdiffstore", "zdiffstoreWithScores"})
FacadeHllGeo == Needs(HllGeoCommands, {"pfadd", "pfcount", "pfmerge", "geohash", "geopos"}, {})
FacadeStream == Needs(StreamCommands, {"xadd", "xdel", "xack", "xread", "xreadgroup"}, {})
FacadeScript == Needs(ScriptCommands, {}, {})

FacadeMin ==
    FacadeGeneric1 @@ FacadeGeneric2 @@ FacadeString1 @@ FacadeString2 @@ FacadeList1 @@ FacadeList2
    @@ FacadeSet1 @@ FacadeSet2 @@ FacadeHash @@ FacadeZset1 @@ FacadeZset2 @@ FacadeZset3
    @@ FacadeHllGeo @@ FacadeStream @@ FacadeScript

(***************************************************************************)
(* TairClientWrapper: the facade method each future-returning method calls  *)
(* (FUTURE_CALL with its own name and arguments).                           *)
(***************************************************************************)
Forwards(family) == [m \in DOMAIN family |-> m]

WrapperGeneric == Forwards(GenericCommands1 @@ GenericCommands2)
WrapperString == Forwards(StringCommands1 @@ StringCommands2)
WrapperList == Forwards(ListCommands1 @@ ListCommands2)
WrapperSet == Forwards(SetCommands1 @@ SetCommands2)
WrapperHash == Forwards(HashCommands)
WrapperZset == Forwards(ZsetCommands1 @@ ZsetCommands2 @@ ZsetCommands3)
WrapperHllGeoStream == Forwards(HllGeoCommands @@ StreamCommands)
WrapperScript == Forwards(ScriptCommands)

WrapperCalls ==
    WrapperGeneric @@ WrapperString @@ WrapperList @@ WrapperSet @@ WrapperHash @@ WrapperZset
    @@ WrapperHllGeoStream @@ WrapperScript
=============================================================================
