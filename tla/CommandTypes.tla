------------------------------ MODULE CommandTypes ------------------------------
(***************************************************************************)
(* The calls that the interface RedisCommands (command.ts) declares: for   *)
(* every method its overloads, each with the parameters it requires, in    *)
(* order, and the optional ones, the fields of an options object included. *)
(* Positional parameters have the names redis.ts gives them; a list of     *)
(* pairs is one parameter, as is a record or a Map of them.                *)
(***************************************************************************)
EXTENDS Sequences, TLC

With(required, optional) == {[req |-> required, opt |-> optional]}
Of(required) == With(required, {})

---------------------------------------------------------------------------
(* Options objects *)

BitfieldOpts == {"get", "set", "incrby"}
ClientKillOpts == {"addr", "laddr", "id", "type", "user", "skipme"}
ClientListOpts == {"type", "ids"}
ClientTrackingOpts == {"redirect", "prefixes", "bcast", "optIn", "optOut", "noLoop"}
MigrateOpts == {"copy", "replace", "auth", "keys"}
RestoreOpts == {"replace", "absttl", "idletime", "freq"}
StralgoOpts == {"idx", "len", "minmatchlen", "withmatchlen"}
SetOpts == {"ex", "px", "keepttl"}
GeoRadiusOpts == {"withCoord", "withDist", "withHash", "count", "sort", "store", "storeDist"}
BaseScanOpts == {"pattern", "count"}
ScanOpts == BaseScanOpts \cup {"type"}
ZAddOpts == {"mode", "ch"}
ZStoreOpts == {"aggregate"}
ZInterstoreOpts == ZStoreOpts
ZUnionstoreOpts == ZStoreOpts
ZRangeOpts == {"withScore"}
ZInterOpts == ZRangeOpts \cup ZStoreOpts
ZRangeByLexOpts == {"limit"}
ZRangeByScoreOpts == ZRangeOpts \cup ZRangeByLexOpts
BaseLPosOpts == {"rank", "maxlen"}
MemoryUsageOpts == {"samples"}
SortOpts == {"by", "limit", "patterns", "order", "alpha"}
XReadOpts == {"count", "block"}
XClaimOpts == {"idle", "time", "retryCount", "force", "justXId"}

\* Parameters of type boolean.
Flags == {"bcast", "optIn", "optOut", "noLoop", "copy", "replace", "absttl", "idx", "len",
    "withmatchlen", "keepttl", "withCoord", "withDist", "withHash", "ch", "withScore", "alpha",
    "async", "mkstream", "approx", "force", "justXId"}

\* Arrays and rest parameters.
Lists == {"args", "channels", "commandNames", "elements", "fieldValues", "fields", "ids", "keys",
    "members", "params", "patterns", "prefixes", "rules", "scoreMembers", "sha1s", "slots",
    "sourcekeys", "usernames", "weights", "xids"}

\* Parameters that are one of a few words, or an object: never falsy.
Enums == {"mode", "type", "skipme", "unit", "sort", "aggregate", "order", "overflow", "behaviour",
    "operation", "loc", "subcommand", "algorithm", "target", "get", "set", "incrby", "limit",
    "startEndCount"}

\* Parameters that hold any text, whose bytes may outnumber its characters.
Texts == {"key", "value", "message", "member", "element", "field", "keys", "members", "elements",
    "fieldValues", "params", "args", "script", "pattern", "channel"}

---------------------------------------------------------------------------
(* The sections of the interface *)

ConnectionCommands ==
  [auth |-> Of(<<"param1">>) \cup Of(<<"param1", "param2">>), echo |-> Of(<<"message">>),
   ping |-> Of(<<>>) \cup Of(<<"message">>), quit |-> Of(<<>>), select |-> Of(<<"index">>)]

KeysCommands ==
  [del |-> Of(<<"keys">>), dump |-> Of(<<"key">>), exists |-> Of(<<"keys">>),
   expire |-> Of(<<"key", "seconds">>), expireat |-> Of(<<"key", "timestamp">>), keys |-> Of(<<"pattern">>),
   migrate |-> With(<<"host", "port", "key", "destinationDB", "timeout">>, MigrateOpts),
   move |-> Of(<<"key", "db">>), objectRefCount |-> Of(<<"key">>), objectEncoding |-> Of(<<"key">>),
   objectIdletime |-> Of(<<"key">>), objectFreq |-> Of(<<"key">>), objectHelp |-> Of(<<>>),
   persist |-> Of(<<"key">>), pexpire |-> Of(<<"key", "milliseconds">>),
   pexpireat |-> Of(<<"key", "millisecondsTimestamp">>), pttl |-> Of(<<"key">>), randomkey |-> Of(<<>>),
   rename |-> Of(<<"key", "newkey">>), renamenx |-> Of(<<"key", "newkey">>),
   restore |-> With(<<"key", "ttl", "serializedValue">>, RestoreOpts), scan |-> With(<<"cursor">>, ScanOpts),
   sort |-> With(<<"key">>, SortOpts) \cup With(<<"key", "destination">>, SortOpts), touch |-> Of(<<"keys">>),
   ttl |-> Of(<<"key">>), type |-> Of(<<"key">>), unlink |-> Of(<<"keys">>),
   wait |-> Of(<<"numreplicas", "timeout">>)]

StringCommands ==
  [append |-> Of(<<"key", "value">>), bitcount |-> Of(<<"key">>) \cup Of(<<"key", "start", "end">>),
   bitfield |-> With(<<"key">>, BitfieldOpts) \cup With(<<"key", "overflow">>, BitfieldOpts),
   bitop |-> Of(<<"operation", "destkey", "keys">>),
   bitpos |-> Of(<<"key", "bit">>) \cup Of(<<"key", "bit", "start">>) \cup Of(<<"key", "bit", "start", "end">>),
   decr |-> Of(<<"key">>), decrby |-> Of(<<"key", "decrement">>), get |-> Of(<<"key">>),
   getbit |-> Of(<<"key", "offset">>), getrange |-> Of(<<"key", "start", "end">>),
   getset |-> Of(<<"key", "value">>), incr |-> Of(<<"key">>), incrby |-> Of(<<"key", "increment">>),
   incrbyfloat |-> Of(<<"key", "increment">>), mget |-> Of(<<"keys">>), mset |-> Of(<<"params">>),
   msetnx |-> Of(<<"params">>), psetex |-> Of(<<"key", "milliseconds", "value">>),
   set |-> With(<<"key", "value">>, SetOpts) \cup With(<<"key", "value", "mode">>, SetOpts),
   setbit |-> Of(<<"key", "offset", "value">>), setex |-> Of(<<"key", "seconds", "value">>),
   setnx |-> Of(<<"key", "value">>), setrange |-> Of(<<"key", "offset", "value">>),
   stralgo |-> With(<<"algorithm", "target", "a", "b">>, StralgoOpts), strlen |-> Of(<<"key">>)]

GeoCommands ==
  [geoadd |-> Of(<<"key", "params">>), geohash |-> Of(<<"key", "members">>),
   geopos |-> Of(<<"key", "members">>), geodist |-> With(<<"key", "member1", "member2">>, {"unit"}),
   georadius |-> With(<<"key", "longitude", "latitude", "radius", "unit">>, GeoRadiusOpts),
   georadiusbymember |-> With(<<"key", "member", "radius", "unit">>, GeoRadiusOpts)]

HashCommands ==
  [hdel |-> Of(<<"key", "fields">>), hexists |-> Of(<<"key", "field">>), hget |-> Of(<<"key", "field">>),
   hgetall |-> Of(<<"key">>), hincrby |-> Of(<<"key", "field", "increment">>),
   hincrbyfloat |-> Of(<<"key", "field", "increment">>), hkeys |-> Of(<<"key">>), hlen |-> Of(<<"key">>),
   hmget |-> Of(<<"key", "fields">>), hmset |-> Of(<<"key", "params">>),
   hscan |-> With(<<"key", "cursor">>, BaseScanOpts), hset |-> Of(<<"key", "params">>),
   hsetnx |-> Of(<<"key", "field", "value">>), hstrlen |-> Of(<<"key", "field">>), hvals |-> Of(<<"key">>)]

ListCommands ==
  [blpop |-> Of(<<"timeout", "keys">>), brpop |-> Of(<<"timeout", "keys">>),
   brpoplpush |-> Of(<<"source", "destination", "timeout">>), lindex |-> Of(<<"key", "index">>),
   linsert |-> Of(<<"key", "loc", "pivot", "value">>), llen |-> Of(<<"key">>), lpop |-> Of(<<"key">>),
   lpos |-> With(<<"key", "element">>, BaseLPosOpts) \cup With(<<"key", "element", "count">>, BaseLPosOpts),
   lpush |-> Of(<<"key", "elements">>), lpushx |-> Of(<<"key", "elements">>),
   lrange |-> Of(<<"key", "start", "stop">>), lrem |-> Of(<<"key", "count", "element">>),
   lset |-> Of(<<"key", "index", "element">>), ltrim |-> Of(<<"key", "start", "stop">>),
   rpop |-> Of(<<"key">>), rpoplpush |-> Of(<<"source", "destination">>), rpush |-> Of(<<"key", "elements">>),
   rpushx |-> Of(<<"key", "elements">>)]

HyperLogLogCommands ==
  [pfadd |-> Of(<<"key", "elements">>), pfcount |-> Of(<<"keys">>),
   pfmerge |-> Of(<<"destkey", "sourcekeys">>)]

PubSubCommands ==
  [psubscribe |-> Of(<<"patterns">>), pubsubChannels |-> With(<<>>, {"pattern"}),
   pubsubNumsub |-> Of(<<"channels">>), pubsubNumpat |-> Of(<<>>), publish |-> Of(<<"channel", "message">>),
   subscribe |-> Of(<<"channels">>)]

SetCommands ==
  [sadd |-> Of(<<"key", "members">>), scard |-> Of(<<"key">>), sdiff |-> Of(<<"keys">>),
   sdiffstore |-> Of(<<"destination", "keys">>), sinter |-> Of(<<"keys">>),
   sinterstore |-> Of(<<"destination", "keys">>), sismember |-> Of(<<"key", "member">>),
   smembers |-> Of(<<"key">>), smove |-> Of(<<"source", "destination", "member">>),
   spop |-> Of(<<"key">>) \cup Of(<<"key", "count">>),
   srandmember |-> Of(<<"key">>) \cup Of(<<"key", "count">>), srem |-> Of(<<"key", "members">>),
   sscan |-> With(<<"key", "cursor">>, BaseScanOpts), sunion |-> Of(<<"keys">>),
   sunionstore |-> Of(<<"destination", "keys">>)]

StreamWrites ==
  [xack |-> Of(<<"key", "group", "xids">>),
   xadd |-> Of(<<"key", "xid", "fieldValues">>) \cup With(<<"key", "xid", "fieldValues", "maxlen">>, {"approx"}),
   xclaim |-> With(<<"key", "group", "consumer", "minIdleTime", "xids">>, XClaimOpts)]

StreamGroups ==
  [xdel |-> Of(<<"key", "xids">>), xgroupCreate |-> With(<<"key", "groupName", "xid">>, {"mkstream"}),
   xgroupDelConsumer |-> Of(<<"key", "groupName", "consumerName">>),
   xgroupDestroy |-> Of(<<"key", "groupName">>), xgroupHelp |-> Of(<<>>),
   xgroupSetID |-> Of(<<"key", "groupName", "xid">>)]

StreamInfo ==
  [xinfoStream |-> Of(<<"key">>), xinfoStreamFull |-> With(<<"key">>, {"count"}),
   xinfoGroups |-> Of(<<"key">>), xinfoConsumers |-> Of(<<"key", "group">>), xlen |-> Of(<<"key">>),
   xpending |-> Of(<<"key", "group">>),
   xpendingCount |-> With(<<"key", "group", "startEndCount">>, {"consumer"})]

StreamReads ==
  [xrange |-> With(<<"key", "start", "end">>, {"count"}),
   xrevrange |-> With(<<"key", "start", "end">>, {"count"}),
   xread |-> With(<<"theKeys", "theXIds">>, XReadOpts),
   xreadgroup |-> With(<<"theKeys", "theXIds", "group", "consumer">>, XReadOpts),
   xtrim |-> With(<<"key", "maxlen">>, {"approx"})]

SortedSetCommands ==
  [bzpopmin |-> Of(<<"timeout", "keys">>), bzpopmax |-> Of(<<"timeout", "keys">>),
   zadd |-> With(<<"key", "scoreMembers">>, ZAddOpts),
   zaddIncr |-> With(<<"key", "score", "member">>, ZAddOpts), zcard |-> Of(<<"key">>),
   zcount |-> Of(<<"key", "min", "max">>), zincrby |-> Of(<<"key", "increment", "member">>),
   zinter |-> With(<<"keys">>, ZInterOpts) \cup With(<<"keys", "weights">>, ZInterOpts),
   zinterstore |-> With(<<"destination", "keys">>, ZStoreOpts) \cup With(<<"destination", "keys", "weights">>, ZStoreOpts),
   zlexcount |-> Of(<<"key", "min", "max">>), zpopmax |-> With(<<"key">>, {"count"}),
   zpopmin |-> With(<<"key">>, {"count"}), zrange |-> With(<<"key", "start", "stop">>, ZRangeOpts),
   zrangebylex |-> With(<<"key", "min", "max">>, ZRangeByLexOpts),
   zrangebyscore |-> With(<<"key", "min", "max">>, ZRangeByScoreOpts), zrank |-> Of(<<"key", "member">>),
   zrem |-> Of(<<"key", "members">>), zremrangebylex |-> Of(<<"key", "min", "max">>),
   zremrangebyrank |-> Of(<<"key", "start", "stop">>), zremrangebyscore |-> Of(<<"key", "min", "max">>),
   zrevrange |-> With(<<"key", "start", "stop">>, ZRangeOpts),
   zrevrangebylex |-> With(<<"key", "max", "min">>, ZRangeByLexOpts),
   zrevrangebyscore |-> With(<<"key", "max", "min">>, ZRangeByScoreOpts), zrevrank |-> Of(<<"key", "member">>),
   zscan |-> With(<<"key", "cursor">>, BaseScanOpts), zscore |-> Of(<<"key", "member">>),
   zunionstore |-> With(<<"destination", "keys">>, ZStoreOpts) \cup With(<<"destination", "keys", "weights">>, ZStoreOpts)]

ClientCommands ==
  [clientCaching |-> Of(<<"mode">>), clientGetName |-> Of(<<>>), clientGetRedir |-> Of(<<>>),
   clientID |-> Of(<<>>), clientInfo |-> Of(<<>>), clientKill |-> With(<<>>, ClientKillOpts),
   clientList |-> With(<<>>, ClientListOpts), clientPause |-> With(<<"timeout">>, {"mode"}),
   clientSetName |-> Of(<<"connectionName">>), clientTracking |-> With(<<"mode">>, ClientTrackingOpts),
   clientTrackingInfo |-> Of(<<>>), clientUnblock |-> With(<<"id">>, {"behaviour"}),
   clientUnpause |-> Of(<<>>)]

ClusterCommands ==
  [asking |-> Of(<<>>), clusterAddSlots |-> Of(<<"slots">>), clusterCountFailureReports |-> Of(<<"nodeId">>),
   clusterCountKeysInSlot |-> Of(<<"slot">>), clusterDelSlots |-> Of(<<"slots">>),
   clusterFailover |-> With(<<>>, {"mode"}), clusterFlushSlots |-> Of(<<>>),
   clusterForget |-> Of(<<"nodeId">>), clusterGetKeysInSlot |-> Of(<<"slot", "count">>),
   clusterInfo |-> Of(<<>>), clusterKeySlot |-> Of(<<"key">>), clusterMeet |-> Of(<<"ip", "port">>),
   clusterMyID |-> Of(<<>>), clusterNodes |-> Of(<<>>), clusterReplicas |-> Of(<<"nodeId">>),
   clusterReplicate |-> Of(<<"nodeId">>), clusterReset |-> With(<<>>, {"mode"}),
   clusterSaveConfig |-> Of(<<>>), clusterSetSlot |-> With(<<"slot", "subcommand">>, {"nodeId"}),
   clusterSlaves |-> Of(<<"nodeId">>), clusterSlots |-> Of(<<>>), readonly |-> Of(<<>>),
   readwrite |-> Of(<<>>)]

ServerCommands ==
  [aclCat |-> With(<<>>, {"categoryname"}), aclDelUser |-> Of(<<"usernames">>),
   aclGenPass |-> With(<<>>, {"bits"}), aclGetUser |-> Of(<<"username">>), aclHelp |-> Of(<<>>),
   aclList |-> Of(<<>>), aclLoad |-> Of(<<>>), aclLog |-> Of(<<"param">>), aclSave |-> Of(<<>>),
   aclSetUser |-> Of(<<"username", "rules">>), aclUsers |-> Of(<<>>), aclWhoami |-> Of(<<>>),
   bgrewriteaof |-> Of(<<>>), bgsave |-> Of(<<>>), command |-> Of(<<>>), commandCount |-> Of(<<>>),
   commandGetKeys |-> Of(<<>>), commandInfo |-> Of(<<"commandNames">>), configGet |-> Of(<<"parameter">>),
   configResetStat |-> Of(<<>>), configRewrite |-> Of(<<>>), configSet |-> Of(<<"parameter", "value">>),
   dbsize |-> Of(<<>>), debugObject |-> Of(<<"key">>), debugSegfault |-> Of(<<>>),
   flushall |-> With(<<>>, {"async"}), flushdb |-> With(<<>>, {"async"}), info |-> With(<<>>, {"section"}),
   lastsave |-> Of(<<>>), memoryDoctor |-> Of(<<>>), memoryHelp |-> Of(<<>>), memoryMallocStats |-> Of(<<>>),
   memoryPurge |-> Of(<<>>), memoryStats |-> Of(<<>>), memoryUsage |-> With(<<"key">>, MemoryUsageOpts),
   moduleList |-> Of(<<>>), moduleLoad |-> Of(<<"path", "args">>), moduleUnload |-> Of(<<"name">>),
   replicaof |-> Of(<<"host", "port">>), replicaofNoOne |-> Of(<<>>), role |-> Of(<<>>), save |-> Of(<<>>),
   shutdown |-> With(<<>>, {"mode"}), slaveof |-> Of(<<"host", "port">>), slaveofNoOne |-> Of(<<>>),
   slowlog |-> Of(<<"subcommand", "args">>), swapdb |-> Of(<<"index1", "index2">>), time |-> Of(<<>>), monitor |-> Of(<<>>), sync |-> Of(<<>>)]

ScriptingCommands ==
  [eval |-> Of(<<"script", "keys", "args">>), evalsha |-> Of(<<"sha1", "keys", "args">>),
   scriptDebug |-> Of(<<"mode">>), scriptExists |-> Of(<<"sha1s">>), scriptFlush |-> Of(<<>>),
   scriptKill |-> Of(<<>>), scriptLoad |-> Of(<<"script">>)]

TransactionCommands ==
  [discard |-> Of(<<>>), exec |-> Of(<<>>), multi |-> Of(<<>>), unwatch |-> Of(<<>>), watch |-> Of(<<"keys">>)]

Declared ==
    ConnectionCommands @@ KeysCommands @@ StringCommands @@ GeoCommands @@
    HashCommands @@ ListCommands @@ HyperLogLogCommands @@ PubSubCommands @@
    SetCommands @@ StreamWrites @@ StreamGroups @@ StreamInfo @@ StreamReads
    @@ SortedSetCommands @@ ClientCommands @@ ClusterCommands @@
    ServerCommands @@ ScriptingCommands @@ TransactionCommands
===============================================================================
