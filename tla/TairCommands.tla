----------------------------- MODULE TairCommands -----------------------------
(* The command methods of TairAsyncClient, one row per method: the command    *)
(* it sends, how many fixed words its argv has, which arguments are keys and   *)
(* which helper turns the reply into a result.  A method is <<name, variant>>: *)
(* the variant tells overloads apart ("params" appends a Params object, "list" *)
(* takes a list instead of one key or pair, "count" asks for several).         *)
EXTENDS TairReply, FiniteSets, TLC

Row(cmd, words, keys, list, helper) ==
    [cmd |-> cmd, words |-> words, keys |-> keys, list |-> list, helper |-> helper]

\* keys: "none", "key" (one), "two", "keys" (the list argument) or "dest" (one
\* key and the list).  Sends: methods whose argv has a fixed length; SendsList:
\* methods that append a list argument to the fixed words.
Sends(S, words, keys, helper) == [m \in S |-> Row(m[1], words, keys, FALSE, helper)]
SendsList(S, words, keys, helper) == [m \in S |-> Row(m[1], words, keys, TRUE, helper)]
SendsAs(m, cmd, words, keys, helper) == m :> Row(cmd, words, keys, FALSE, helper)
SendsListAs(m, cmd, words, keys, helper) == m :> Row(cmd, words, keys, TRUE, helper)

Plain(S) == S \X {""}
Params(S) == S \X {"", "params"}

(***************************************************************************)
(* Generic                                                                  *)
(***************************************************************************)
GenericCommands1 ==
       Sends(Plain({"del", "unlink", "exists", "persist", "ttl", "pttl"}), 2, "key", "Integer")
    @@ SendsList({"del", "unlink", "exists"} \X {"list"}, 1, "keys", "Integer")
    @@ Sends(Params({"expire", "expireat", "pexpire", "pexpireat"}), 3, "key", "Integer")

GenericCommands2 ==
       SendsList(Plain({"touch"}), 1, "keys", "Integer")
    @@ Sends(Plain({"dump"}), 2, "key", "StringPtr")
    @@ Sends(Params({"restore"}), 4, "key", "Status")
    @@ Sends(Plain({"keys"}), 2, "none", "Strings")
    @@ Sends(Plain({"move"}), 3, "key", "Integer")
    @@ Sends(Plain({"randomkey"}), 1, "none", "StringPtr")
    @@ Sends(Plain({"rename"}), 3, "two", "Status")
    @@ Sends(Plain({"renamenx"}), 3, "two", "Integer")
    @@ Sends(Plain({"type"}), 2, "key", "Status")
    @@ Sends(Params({"scan"}), 2, "none", "Scan")
    @@ Sends(Params({"sort"}), 2, "key", "StringPtrs")
    @@ SendsAs(<<"sortStore", "">>, "sort store", 4, "two", "Integer")
    @@ SendsAs(<<"sortStore", "params">>, "sort store", 4, "two", "Integer")
    @@ Sends(Params({"copy"}), 3, "two", "Integer")

(***************************************************************************)
(* String                                                                   *)
(***************************************************************************)
StringCommands1 ==
       Sends(Plain({"append"}), 3, "key", "Integer")
    @@ Sends(Params({"bitcount"}), 2, "key", "Integer")
    @@ SendsList(Plain({"bitfield"}), 2, "key", "IntegerPtrs")
    @@ SendsListAs(<<"bitfieldRo", "">>, "bitfield_ro", 2, "key", "IntegerPtrs")
    @@ SendsList(Plain({"bitop"}), 2, "keys", "Integer")
    @@ Sends(Params({"bitpos"}), 3, "key", "Integer")
    @@ Sends(Plain({"setbit"}), 4, "key", "Integer")
    @@ Sends(Plain({"getbit", "decrby"}), 3, "key", "Integer")
    @@ Sends(Plain({"decr"}), 2, "key", "Integer")
    @@ Sends(Plain({"getrange"}), 4, "key", "Bulk")
    @@ Sends(Plain({"getset"}), 3, "key", "StringPtr")
    @@ Sends(Params({"set"}), 3, "key", "Status")
    @@ Sends(Plain({"get"}), 2, "key", "StringPtr")

StringCommands2 ==
       Sends(Plain({"incr", "strlen"}), 2, "key", "Integer")
    @@ Sends(Plain({"incrby", "setnx"}), 3, "key", "Integer")
    @@ Sends(Plain({"incrbyfloat"}), 3, "key", "Bulk")
    @@ SendsList(Plain({"mget"}), 1, "keys", "StringPtrs")
    @@ SendsList(Plain({"mset"}), 1, "keys", "Status")
    @@ SendsList(Plain({"msetnx"}), 1, "keys", "Integer")
    @@ Sends(Plain({"psetex", "setex"}), 4, "key", "Status")
    @@ Sends(Plain({"setrange"}), 4, "key", "Integer")
    @@ Sends(Plain({"getdel"}), 2, "key", "StringPtr")
    @@ Sends({<<"getex", "params">>}, 2, "key", "StringPtr")

(***************************************************************************)
(* List.  The timeout of a blocking command is its last word.               *)
(***************************************************************************)
ListCommands1 ==
       SendsList(Plain({"blpop", "brpop"}), 2, "keys", "Strings")
    @@ Sends(Plain({"brpoplpush"}), 4, "two", "StringPtr")
    @@ Sends(Plain({"lindex"}), 3, "key", "StringPtr")
    @@ Sends(Plain({"linsert"}), 5, "key", "Integer")
    @@ Sends(Plain({"llen"}), 2, "key", "Integer")
    @@ Sends(Plain({"lpop"}), 2, "key", "StringPtr")
    @@ Sends({<<"lpop", "count">>}, 3, "key", "Strings")
    @@ SendsList(Plain({"lpush", "lpushx"}), 2, "key", "Integer")

ListCommands2 ==
       Sends(Plain({"lrange"}), 4, "key", "Strings")
    @@ Sends(Plain({"lrem"}), 4, "key", "Integer")
    @@ Sends(Plain({"lset", "ltrim"}), 4, "key", "Status")
    @@ Sends(Plain({"rpop"}), 2, "key", "StringPtr")
    @@ Sends({<<"rpop", "count">>}, 3, "key", "Strings")
    @@ Sends(Plain({"rpoplpush"}), 3, "two", "StringPtr")
    @@ SendsList(Plain({"rpush", "rpushx"}), 2, "key", "Integer")
    @@ Sends(Plain({"lmove"}), 5, "two", "StringPtr")
    @@ Sends(Plain({"blmove"}), 6, "two", "StringPtr")

(***************************************************************************)
(* Set                                                                      *)
(***************************************************************************)
SetCommands1 ==
       SendsList(Plain({"sadd", "srem"}), 2, "key", "Integer")
    @@ Sends(Plain({"scard"}), 2, "key", "Integer")
    @@ Sends(Plain({"sismember"}), 3, "key", "Integer")
    @@ Sends(Plain({"smembers"}), 2, "key", "Strings")
    @@ Sends(Plain({"smove"}), 4, "two", "Integer")
    @@ Sends(Plain({"spop", "srandmember"}), 2, "key", "StringPtr")
    @@ Sends({"spop", "srandmember"} \X {"count"}, 3, "key", "Strings")

SetCommands2 ==
       SendsList(Plain({"sdiff", "sinter", "sunion"}), 1, "keys", "Strings")
    @@ SendsList(Plain({"sdiffstore", "sinterstore", "sunionstore"}), 2, "dest", "Integer")
    @@ Sends(Params({"sscan"}), 3, "key", "Scan")
    @@ SendsList(Plain({"smismember"}), 2, "key", "Integers")

(***************************************************************************)
(* Hash                                                                     *)
(***************************************************************************)
HashCommands ==
       SendsList(Plain({"hdel"}), 2, "key", "Integer")
    @@ Sends(Plain({"hexists", "hstrlen"}), 3, "key", "Integer")
    @@ Sends(Plain({"hget"}), 3, "key", "StringPtr")
    @@ Sends(Plain({"hgetall", "hkeys", "hvals"}), 2, "key", "Strings")
    @@ Sends(Plain({"hincrby", "hset", "hsetnx"}), 4, "key", "Integer")
    @@ Sends(Plain({"hincrbyfloat"}), 4, "key", "Bulk")
    @@ Sends(Plain({"hlen"}), 2, "key", "Integer")
    @@ SendsList(Plain({"hmget"}), 2, "key", "StringPtrs")
    @@ SendsList({<<"hset", "list">>}, 2, "key", "Integer")
    @@ Sends(Params({"hscan"}), 3, "key", "Scan")
    @@ Sends(Plain({"hrandfield"}), 2, "key", "StringPtr")
    @@ Sends({<<"hrandfield", "count">>}, 3, "key", "Strings")

(***************************************************************************)
(* Zset.  zinter, zunion and zdiff send the number of keys as a word.       *)
(***************************************************************************)
ZsetCommands1 ==
       SendsList(Params({"zadd"}), 2, "key", "Integer")
    @@ Sends(Plain({"zincrby"}), 4, "key", "Bulk")
    @@ Sends(Plain({"zscore"}), 3, "key", "StringPtr")
    @@ Sends(Plain({"zrank", "zrevrank"}), 3, "key", "IntegerPtr")
    @@ Sends(Plain({"zcard"}), 2, "key", "Integer")
    @@ Sends(Plain({"zcount", "zlexcount"}), 4, "key", "Integer")
    @@ Sends({"zpopmax", "zpopmin"} \X {"count"}, 3, "key", "Strings")
    @@ SendsList(Plain({"bzpopmax", "bzpopmin"}), 2, "keys", "Strings")

ZsetCommands2 ==
       Sends(Params({"zrange"}), 4, "key", "Strings")
    @@ Sends(Params({"zrangestore"}), 5, "two", "Integer")
    @@ SendsList(Plain({"zrem"}), 2, "key", "Integer")
    @@ Sends(Plain({"zremrange"}), 4, "key", "Integer")
    @@ SendsList(Params({"zinter", "zunion"}), 2, "keys", "Strings")
    @@ SendsList(Params({"zinterstore", "zunionstore"}), 3, "dest", "Integer")

ZsetCommands3 ==
       SendsList(Plain({"zdiff"}), 2, "keys", "Strings")
    @@ SendsListAs(<<"zdiffWithScores", "">>, "zdiff", 3, "keys", "Strings")
    @@ SendsList(Plain({"zdiffstore"}), 3, "dest", "Integer")
    @@ SendsListAs(<<"zdiffstoreWithScores", "">>, "zdiffstore withscores", 4, "dest", "Integer")
    @@ SendsList(Plain({"zmscore"}), 2, "key", "StringPtrs")
    @@ Sends(Plain({"zrandmember"}), 2, "key", "StringPtr")
    @@ Sends({<<"zrandmember", "count">>}, 3, "key", "Strings")
    @@ Sends(Params({"zscan"}), 3, "key", "Scan")

(***************************************************************************)
(* HyperLogLog and Geo.  A geo member of the list is three words.           *)
(***************************************************************************)
HllGeoCommands ==
       SendsList(Plain({"pfadd"}), 2, "key", "Integer")
    @@ SendsList(Plain({"pfcount"}), 1, "keys", "Integer")
    @@ SendsList(Plain({"pfmerge"}), 2, "dest", "Status")
    @@ SendsList(Params({"geoadd"}), 2, "key", "Integer")
    @@ Sends(Plain({"geodist"}), 5, "key", "StringPtr")
    @@ SendsList(Plain({"geohash"}), 2, "key", "StringPtrs")
    @@ SendsList(Plain({"geopos"}), 2, "key", "Geopos")
    @@ Sends(Plain({"georadius"}), 6, "key", "Strings")
    @@ Sends(Plain({"georadiusbymember"}), 5, "key", "Strings")

(***************************************************************************)
(* Stream.  xread and xreadgroup take a second list, the ids.               *)
(***************************************************************************)
StreamCommands ==
       SendsList(Plain({"xadd"}), 3, "key", "Bulk")
    @@ Sends(Plain({"xlen"}), 2, "key", "Integer")
    @@ SendsList(Plain({"xdel"}), 2, "key", "Integer")
    @@ SendsList(Plain({"xack"}), 3, "key", "Integer")
    @@ SendsAs(<<"xgroupCreate", "">>, "xgroup create", 5, "key", "Status")
    @@ SendsAs(<<"xgroupCreateConsumer", "">>, "xgroup createconsumer", 5, "key", "Integer")
    @@ SendsAs(<<"xgroupDelConsumer", "">>, "xgroup delconsumer", 5, "key", "Integer")
    @@ SendsAs(<<"xgroupDestroy", "">>, "xgroup destroy", 4, "key", "Integer")
    @@ SendsAs(<<"xgroupSetID", "">>, "xgroup setid", 4, "key", "Status")
    @@ Sends(Plain({"xpending"}), 3, "key", "XPending")
    @@ Sends(Plain({"xrange", "xrevrange"}), 4, "key", "XRange")
    @@ SendsList(Plain({"xread"}), 4, "keys", "Xread")
    @@ SendsList(Plain({"xreadgroup"}), 5, "keys", "Xread")
    @@ Sends(Plain({"xtrim"}), 4, "key", "Integer")
    @@ Sends(Plain({"xsetid"}), 3, "key", "Status")

(***************************************************************************)
(* Script, Connection, Server, Pubsub, Cluster                              *)
(***************************************************************************)
ScriptCommands ==
       SendsList(Plain({"eval", "evalsha"}), 3, "keys", "Raw")
    @@ SendsListAs(<<"evalRo", "">>, "eval_ro", 3, "keys", "Raw")
    @@ SendsListAs(<<"evalshaRo", "">>, "evalsha_ro", 3, "keys", "Raw")
    @@ SendsAs(<<"scriptLoad", "">>, "script load", 3, "none", "Bulk")
    @@ SendsAs(<<"scriptFlush", "">>, "script flush", 2, "none", "Status")
    @@ SendsAs(<<"scriptKill", "">>, "script kill", 2, "none", "Status")
    @@ SendsListAs(<<"scriptExists", "">>, "script exists", 2, "none", "Integers")
    @@ Sends(Plain({"auth"}), 2, "none", "Status")
    @@ Sends({<<"auth", "user">>}, 3, "none", "Status")
    @@ Sends(Plain({"quit", "flushall"}), 1, "none", "Status")
    @@ Sends(Plain({"publish"}), 3, "key", "Integer")
    @@ SendsAs(<<"clusterPublish", "">>, "clusterpublish", 5, "key", "Integer")
    @@ SendsAs(<<"clusterNodes", "">>, "cluster nodes", 2, "none", "Bulk")

AsyncCommands ==
    GenericCommands1 @@ GenericCommands2 @@ StringCommands1 @@ StringCommands2
    @@ ListCommands1 @@ ListCommands2 @@ SetCommands1 @@ SetCommands2 @@ HashCommands
    @@ ZsetCommands1 @@ ZsetCommands2 @@ ZsetCommands3 @@ HllGeoCommands
    @@ StreamCommands @@ ScriptCommands

Methods == DOMAIN AsyncCommands
=============================================================================
