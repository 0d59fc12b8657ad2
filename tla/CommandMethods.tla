----------------------------- MODULE CommandMethods -----------------------------
(***************************************************************************)
(* The requests that the methods of RedisImpl (redis.ts) build from their  *)
(* arguments: one entry per method, in the order of the file.  What a      *)
(* method does with the reply is not part of it (StreamReplies has the     *)
(* conversions of the stream commands).                                    *)
(*                                                                         *)
(* An upper-case string is a word of the request, any other string the     *)
(* parameter of that name; a list parameter stands for its elements, and   *)
(* a pair (field and value, score and member) for its two halves, in the   *)
(* order Redis wants them.  "#keys" is the number of keys.                 *)
(***************************************************************************)
EXTENDS Sequences, TLC

Part(when, of, unless, each, items) ==
    <<[when |-> when, of |-> of, unless |-> unless, each |-> each, items |-> items]>>

\* Sent by every call.
Cmd(items) == Part("always", {}, {}, FALSE, items)

\* The slip: if (opts.x) where the code writes if (opts.x !== undefined).
Given_Truthy(ps, items) == Part("truthy", ps, {}, FALSE, items)

\* Sent when the parameters are there:  if (x !== undefined).
Given(ps, items) == Part("given", ps, {}, FALSE, items)

\* Sent when they are truthy:  if (x).
Truthy(ps, items) == Part("truthy", ps, {}, FALSE, items)

\* Sent when the first are absent and the others there:  else if.
Otherwise(qs, ps, items) == Part("given", ps, qs, FALSE, items)

\* A word before each element of a list:  prefixes.forEach.
EachOf(p, word) == Part("truthy", {p}, {}, TRUE, <<word, p>>)

---------------------------------------------------------------------------
(* The options that several methods share *)

pushGeoRadiusOpts ==
    Truthy({"withCoord"}, <<"WITHCOORD">>) \o Truthy({"withDist"}, <<"WITHDIST">>)
    \o Truthy({"withHash"}, <<"WITHHASH">>) \o Given({"count"}, <<"count">>)
    \o Truthy({"sort"}, <<"sort">>) \o Given({"store"}, <<"store">>)
    \o Given({"storeDist"}, <<"storeDist">>)

pushZAddOpts == Truthy({"mode"}, <<"mode">>) \o Truthy({"ch"}, <<"CH">>)

pushZStoreArgs ==
    Cmd(<<"#keys", "keys">>) \o Given({"weights"}, <<"WEIGHTS", "weights">>)
    \o Truthy({"aggregate"}, <<"AGGREGATE", "aggregate">>)

pushZRangeOpts ==
    Truthy({"withScore"}, <<"WITHSCORES">>) \o Truthy({"limit"}, <<"LIMIT", "limit">>)

\* The slip: a keyword copied from the option before.
pushScanOpts_CopyPaste ==
    Given({"pattern"}, <<"MATCH", "pattern">>) \o Given({"count"}, <<"MATCH", "count">>)
    \o Given({"type"}, <<"TYPE", "type">>)

pushScanOpts ==
    Given({"pattern"}, <<"MATCH", "pattern">>) \o Given({"count"}, <<"COUNT", "count">>)
    \o Given({"type"}, <<"TYPE", "type">>)

---------------------------------------------------------------------------
(* The methods *)

AclMethods ==
  [aclCat |-> Cmd(<<"ACL", "CAT">>) \o Given({"categoryname"}, <<"categoryname">>),
   aclDelUser |-> Cmd(<<"ACL", "DELUSER", "usernames">>),
   aclGenPass |-> Cmd(<<"ACL", "GENPASS">>) \o Given({"bits"}, <<"bits">>),
   aclGetUser |-> Cmd(<<"ACL", "GETUSER", "username">>), aclHelp |-> Cmd(<<"ACL", "HELP">>),
   aclList |-> Cmd(<<"ACL", "LIST">>), aclLoad |-> Cmd(<<"ACL", "LOAD">>),
   aclLog |-> Cmd(<<"ACL", "LOG", "param">>), aclSave |-> Cmd(<<"ACL", "SAVE">>),
   aclSetUser |-> Cmd(<<"ACL", "SETUSER", "username", "rules">>), aclUsers |-> Cmd(<<"ACL", "USERS">>),
   aclWhoami |-> Cmd(<<"ACL", "WHOAMI">>)]

AppendToBlockingPop ==
  [append |-> Cmd(<<"APPEND", "key", "value">>),
   auth |-> Cmd(<<"AUTH", "param1">>) \o Given({"param2"}, <<"param2">>),
   bgrewriteaof |-> Cmd(<<"BGREWRITEAOF">>), bgsave |-> Cmd(<<"BGSAVE">>),
   bitcount |-> Cmd(<<"BITCOUNT", "key">>) \o Given({"start", "end"}, <<"start", "end">>),
   bitfield |-> Cmd(<<"BITFIELD", "key">>) \o Truthy({"get"}, <<"GET", "get">>) \o Truthy({"set"}, <<"SET", "set">>)
       \o Truthy({"incrby"}, <<"INCRBY", "incrby">>) \o Truthy({"overflow"}, <<"OVERFLOW", "overflow">>),
   bitop |-> Cmd(<<"BITOP", "operation", "destkey", "keys">>),
   bitpos |-> Cmd(<<"BITPOS", "key", "bit">>) \o Given({"start"}, <<"start">>) \o Given({"start", "end"}, <<"end">>),
   blpop |-> Cmd(<<"BLPOP", "keys", "timeout">>), brpop |-> Cmd(<<"BRPOP", "keys", "timeout">>),
   brpoplpush |-> Cmd(<<"BRPOPLPUSH", "source", "destination", "timeout">>),
   bzpopmin |-> Cmd(<<"BZPOPMIN", "keys", "timeout">>), bzpopmax |-> Cmd(<<"BZPOPMAX", "keys", "timeout">>)]

ClientMethods ==
  [clientCaching |-> Cmd(<<"CLIENT", "CACHING", "mode">>), clientGetName |-> Cmd(<<"CLIENT", "GETNAME">>),
   clientGetRedir |-> Cmd(<<"CLIENT", "GETREDIR">>), clientID |-> Cmd(<<"CLIENT", "ID">>),
   clientInfo |-> Cmd(<<"CLIENT", "INFO">>),
   clientKill |-> Cmd(<<"CLIENT", "KILL">>) \o Truthy({"addr"}, <<"ADDR", "addr">>) \o Truthy({"laddr"}, <<"LADDR", "laddr">>)
       \o Truthy({"id"}, <<"ID", "id">>) \o Truthy({"type"}, <<"TYPE", "type">>)
       \o Truthy({"user"}, <<"USER", "user">>) \o Truthy({"skipme"}, <<"SKIPME", "skipme">>),
   clientList |-> Cmd(<<"CLIENT", "LIST">>) \o Truthy({"type"}, <<"TYPE", "type">>) \o Truthy({"ids"}, <<"ID", "ids">>),
   clientPause |-> Cmd(<<"CLIENT", "PAUSE", "timeout">>) \o Truthy({"mode"}, <<"mode">>),
   clientSetName |-> Cmd(<<"CLIENT", "SETNAME", "connectionName">>),
   clientTracking |-> Cmd(<<"CLIENT", "TRACKING", "mode">>) \o Truthy({"redirect"}, <<"REDIRECT", "redirect">>)
       \o EachOf("prefixes", "PREFIX") \o Truthy({"bcast"}, <<"BCAST">>) \o Truthy({"optIn"}, <<"OPTIN">>)
       \o Truthy({"optOut"}, <<"OPTOUT">>) \o Truthy({"noLoop"}, <<"NOLOOP">>),
   clientTrackingInfo |-> Cmd(<<"CLIENT", "TRACKINGINFO">>),
   clientUnblock |-> Cmd(<<"CLIENT", "UNBLOCK", "id">>) \o Truthy({"behaviour"}, <<"behaviour">>),
   clientUnpause |-> Cmd(<<"CLIENT", "UNPAUSE">>)]

ClusterToConfig ==
  [asking |-> Cmd(<<"ASKING">>), clusterAddSlots |-> Cmd(<<"CLUSTER", "ADDSLOTS", "slots">>),
   clusterCountFailureReports |-> Cmd(<<"CLUSTER", "COUNT-FAILURE-REPORTS", "nodeId">>),
   clusterCountKeysInSlot |-> Cmd(<<"CLUSTER", "COUNTKEYSINSLOT", "slot">>),
   clusterDelSlots |-> Cmd(<<"CLUSTER", "DELSLOTS", "slots">>),
   clusterFailover |-> Cmd(<<"CLUSTER", "FAILOVER">>) \o Truthy({"mode"}, <<"mode">>),
   clusterFlushSlots |-> Cmd(<<"CLUSTER", "FLUSHSLOTS">>),
   clusterForget |-> Cmd(<<"CLUSTER", "FORGET", "nodeId">>),
   clusterGetKeysInSlot |-> Cmd(<<"CLUSTER", "GETKEYSINSLOT", "slot", "count">>),
   clusterInfo |-> Cmd(<<"CLUSTER", "INFO">>), clusterKeySlot |-> Cmd(<<"CLUSTER", "KEYSLOT", "key">>),
   clusterMeet |-> Cmd(<<"CLUSTER", "MEET", "ip", "port">>), clusterMyID |-> Cmd(<<"CLUSTER", "MYID">>),
   clusterNodes |-> Cmd(<<"CLUSTER", "NODES">>), clusterReplicas |-> Cmd(<<"CLUSTER", "REPLICAS", "nodeId">>),
   clusterReplicate |-> Cmd(<<"CLUSTER", "REPLICATE", "nodeId">>),
   clusterReset |-> Cmd(<<"CLUSTER", "RESET">>) \o Truthy({"mode"}, <<"mode">>),
   clusterSaveConfig |-> Cmd(<<"CLUSTER", "SAVECONFIG">>),
   clusterSetSlot |-> Cmd(<<"CLUSTER", "SETSLOT", "slot", "subcommand">>) \o Given({"nodeId"}, <<"nodeId">>),
   clusterSlaves |-> Cmd(<<"CLUSTER", "SLAVES", "nodeId">>), clusterSlots |-> Cmd(<<"CLUSTER", "SLOTS">>),
   command |-> Cmd(<<"COMMAND">>), commandCount |-> Cmd(<<"COMMAND", "COUNT">>),
   commandGetKeys |-> Cmd(<<"COMMAND", "GETKEYS">>),
   commandInfo |-> Cmd(<<"COMMAND", "INFO", "commandNames">>),
   configGet |-> Cmd(<<"CONFIG", "GET", "parameter">>), configResetStat |-> Cmd(<<"CONFIG", "RESETSTAT">>),
   configRewrite |-> Cmd(<<"CONFIG", "REWRITE">>),
   configSet |-> Cmd(<<"CONFIG", "SET", "parameter", "value">>)]

DbsizeToFlushdb ==
  [dbsize |-> Cmd(<<"DBSIZE">>), debugObject |-> Cmd(<<"DEBUG", "OBJECT", "key">>),
   debugSegfault |-> Cmd(<<"DEBUG", "SEGFAULT">>), decr |-> Cmd(<<"DECR", "key">>),
   decrby |-> Cmd(<<"DECRBY", "key", "decrement">>), del |-> Cmd(<<"DEL", "keys">>),
   discard |-> Cmd(<<"DISCARD">>), dump |-> Cmd(<<"DUMP", "key">>), echo |-> Cmd(<<"ECHO", "message">>),
   eval |-> Cmd(<<"EVAL", "script", "#keys", "keys", "args">>),
   evalsha |-> Cmd(<<"EVALSHA", "sha1", "#keys", "keys", "args">>), exec |-> Cmd(<<"EXEC">>),
   exists |-> Cmd(<<"EXISTS", "keys">>), expire |-> Cmd(<<"EXPIRE", "key", "seconds">>),
   expireat |-> Cmd(<<"EXPIREAT", "key", "timestamp">>),
   flushall |-> Cmd(<<"FLUSHALL">>) \o Truthy({"async"}, <<"ASYNC">>),
   flushdb |-> Cmd(<<"FLUSHDB">>) \o Truthy({"async"}, <<"ASYNC">>)]

GeoMethods ==
  [geoadd |-> Cmd(<<"GEOADD", "key", "params">>), geohash |-> Cmd(<<"GEOHASH", "key", "members">>),
   geopos |-> Cmd(<<"GEOPOS", "key", "members">>),
   geodist |-> Cmd(<<"GEODIST", "key", "member1", "member2">>) \o Truthy({"unit"}, <<"unit">>),
   georadius |-> Cmd(<<"GEORADIUS", "key", "longitude", "latitude", "radius", "unit">>) \o pushGeoRadiusOpts,
   georadiusbymember |-> Cmd(<<"GEORADIUSBYMEMBER", "key", "member", "radius", "unit">>) \o pushGeoRadiusOpts]

GetToHvals ==
  [get |-> Cmd(<<"GET", "key">>), getbit |-> Cmd(<<"GETBIT", "key", "offset">>),
   getrange |-> Cmd(<<"GETRANGE", "key", "start", "end">>), getset |-> Cmd(<<"GETSET", "key", "value">>),
   hdel |-> Cmd(<<"HDEL", "key", "fields">>), hexists |-> Cmd(<<"HEXISTS", "key", "field">>),
   hget |-> Cmd(<<"HGET", "key", "field">>), hgetall |-> Cmd(<<"HGETALL", "key">>),
   hincrby |-> Cmd(<<"HINCRBY", "key", "field", "increment">>),
   hincrbyfloat |-> Cmd(<<"HINCRBYFLOAT", "key", "field", "increment">>), hkeys |-> Cmd(<<"HKEYS", "key">>),
   hlen |-> Cmd(<<"HLEN", "key">>), hmget |-> Cmd(<<"HMGET", "key", "fields">>),
   hmset |-> Cmd(<<"HMSET", "key", "params">>), hset |-> Cmd(<<"HSET", "key", "params">>),
   hsetnx |-> Cmd(<<"HSETNX", "key", "field", "value">>), hstrlen |-> Cmd(<<"HSTRLEN", "key", "field">>),
   hvals |-> Cmd(<<"HVALS", "key">>)]

IncrToLtrim ==
  [incr |-> Cmd(<<"INCR", "key">>), incrby |-> Cmd(<<"INCRBY", "key", "increment">>),
   incrbyfloat |-> Cmd(<<"INCRBYFLOAT", "key", "increment">>),
   info |-> Cmd(<<"INFO">>) \o Given({"section"}, <<"section">>), keys |-> Cmd(<<"KEYS", "pattern">>),
   lastsave |-> Cmd(<<"LASTSAVE">>), lindex |-> Cmd(<<"LINDEX", "key", "index">>),
   linsert |-> Cmd(<<"LINSERT", "key", "loc", "pivot", "value">>), llen |-> Cmd(<<"LLEN", "key">>),
   lpop |-> Cmd(<<"LPOP", "key">>),
   lpos |-> Cmd(<<"LPOS", "key", "element">>) \o Given({"rank"}, <<"RANK", "rank">>)
       \o Given({"count"}, <<"COUNT", "count">>) \o Given({"maxlen"}, <<"MAXLEN", "maxlen">>),
   lpush |-> Cmd(<<"LPUSH", "key", "elements">>), lpushx |-> Cmd(<<"LPUSHX", "key", "elements">>),
   lrange |-> Cmd(<<"LRANGE", "key", "start", "stop">>), lrem |-> Cmd(<<"LREM", "key", "count", "element">>),
   lset |-> Cmd(<<"LSET", "key", "index", "element">>), ltrim |-> Cmd(<<"LTRIM", "key", "start", "stop">>)]

MemoryToMulti ==
  [memoryDoctor |-> Cmd(<<"MEMORY", "DOCTOR">>), memoryHelp |-> Cmd(<<"MEMORY", "HELP">>),
   memoryMallocStats |-> Cmd(<<"MEMORY", "MALLOC", "STATS">>), memoryPurge |-> Cmd(<<"MEMORY", "PURGE">>),
   memoryStats |-> Cmd(<<"MEMORY", "STATS">>),
   memoryUsage |-> Cmd(<<"MEMORY", "USAGE", "key">>) \o Given({"samples"}, <<"SAMPLES", "samples">>),
   mget |-> Cmd(<<"MGET", "keys">>),
   migrate |-> Cmd(<<"MIGRATE", "host", "port", "key", "destinationDB", "timeout">>) \o Truthy({"copy"}, <<"COPY">>)
       \o Truthy({"replace"}, <<"REPLACE">>) \o Given({"auth"}, <<"AUTH", "auth">>) \o Truthy({"keys"}, <<"KEYS", "keys">>),
   moduleList |-> Cmd(<<"MODULE", "LIST">>), moduleLoad |-> Cmd(<<"MODULE", "LOAD", "path", "args">>),
   moduleUnload |-> Cmd(<<"MODULE", "UNLOAD", "name">>), move |-> Cmd(<<"MOVE", "key", "db">>),
   mset |-> Cmd(<<"MSET", "params">>), msetnx |-> Cmd(<<"MSETNX", "params">>), multi |-> Cmd(<<"MULTI">>)]

ObjectToRandomkey ==
  [objectEncoding |-> Cmd(<<"OBJECT", "ENCODING", "key">>), objectFreq |-> Cmd(<<"OBJECT", "FREQ", "key">>),
   objectHelp |-> Cmd(<<"OBJECT", "HELP">>), objectIdletime |-> Cmd(<<"OBJECT", "IDLETIME", "key">>),
   objectRefCount |-> Cmd(<<"OBJECT", "REFCOUNT", "key">>), persist |-> Cmd(<<"PERSIST", "key">>),
   pexpire |-> Cmd(<<"PEXPIRE", "key", "milliseconds">>),
   pexpireat |-> Cmd(<<"PEXPIREAT", "key", "millisecondsTimestamp">>),
   pfadd |-> Cmd(<<"PFADD", "key", "elements">>), pfcount |-> Cmd(<<"PFCOUNT", "keys">>),
   pfmerge |-> Cmd(<<"PFMERGE", "destkey", "sourcekeys">>),
   ping |-> Cmd(<<"PING">>) \o Truthy({"message"}, <<"message">>),
   psetex |-> Cmd(<<"PSETEX", "key", "milliseconds", "value">>),
   publish |-> Cmd(<<"PUBLISH", "channel", "message">>), subscribe |-> Cmd(<<"SUBSCRIBE", "channels">>),
   psubscribe |-> Cmd(<<"PSUBSCRIBE", "patterns">>),
   pubsubChannels |-> Cmd(<<"PUBSUB", "CHANNELS">>) \o Given({"pattern"}, <<"pattern">>),
   pubsubNumpat |-> Cmd(<<"PUBSUB", "NUMPAT">>), pubsubNumsub |-> Cmd(<<"PUBSUB", "NUMSUB", "channels">>),
   pttl |-> Cmd(<<"PTTL", "key">>), quit |-> Cmd(<<"QUIT">>), randomkey |-> Cmd(<<"RANDOMKEY">>)]

ReadonlyToSelect ==
  [readonly |-> Cmd(<<"READONLY">>), readwrite |-> Cmd(<<"READWRITE">>),
   rename |-> Cmd(<<"RENAME", "key", "newkey">>), renamenx |-> Cmd(<<"RENAMENX", "key", "newkey">>),
   restore |-> Cmd(<<"RESTORE", "key", "ttl", "serializedValue">>) \o Truthy({"replace"}, <<"REPLACE">>)
       \o Truthy({"absttl"}, <<"ABSTTL">>) \o Given({"idletime"}, <<"IDLETIME", "idletime">>) \o Given({"freq"}, <<"FREQ", "freq">>),
   role |-> Cmd(<<"ROLE">>), rpop |-> Cmd(<<"RPOP", "key">>),
   rpoplpush |-> Cmd(<<"RPOPLPUSH", "source", "destination">>), rpush |-> Cmd(<<"RPUSH", "key", "elements">>),
   rpushx |-> Cmd(<<"RPUSHX", "key", "elements">>), sadd |-> Cmd(<<"SADD", "key", "members">>),
   save |-> Cmd(<<"SAVE">>), scard |-> Cmd(<<"SCARD", "key">>),
   scriptDebug |-> Cmd(<<"SCRIPT", "DEBUG", "mode">>), scriptExists |-> Cmd(<<"SCRIPT", "EXISTS", "sha1s">>),
   scriptFlush |-> Cmd(<<"SCRIPT", "FLUSH">>), scriptKill |-> Cmd(<<"SCRIPT", "KILL">>),
   scriptLoad |-> Cmd(<<"SCRIPT", "LOAD", "script">>), sdiff |-> Cmd(<<"SDIFF", "keys">>),
   sdiffstore |-> Cmd(<<"SDIFFSTORE", "destination", "keys">>), select |-> Cmd(<<"SELECT", "index">>)]

SetToSmove ==
  [set |-> Cmd(<<"SET", "key", "value">>) \o Given({"ex"}, <<"EX", "ex">>) \o Otherwise({"ex"}, {"px"}, <<"PX", "px">>)
       \o Truthy({"keepttl"}, <<"KEEPTTL">>) \o Truthy({"mode"}, <<"mode">>),
   setbit |-> Cmd(<<"SETBIT", "key", "offset", "value">>),
   setex |-> Cmd(<<"SETEX", "key", "seconds", "value">>), setnx |-> Cmd(<<"SETNX", "key", "value">>),
   setrange |-> Cmd(<<"SETRANGE", "key", "offset", "value">>),
   shutdown |-> Cmd(<<"SHUTDOWN">>) \o Truthy({"mode"}, <<"mode">>), sinter |-> Cmd(<<"SINTER", "keys">>),
   sinterstore |-> Cmd(<<"SINTERSTORE", "destination", "keys">>),
   sismember |-> Cmd(<<"SISMEMBER", "key", "member">>), slaveof |-> Cmd(<<"SLAVEOF", "host", "port">>),
   slaveofNoOne |-> Cmd(<<"SLAVEOF", "NO ONE">>), replicaof |-> Cmd(<<"REPLICAOF", "host", "port">>),
   replicaofNoOne |-> Cmd(<<"REPLICAOF", "NO ONE">>), slowlog |-> Cmd(<<"SLOWLOG", "subcommand", "args">>),
   smembers |-> Cmd(<<"SMEMBERS", "key">>), smove |-> Cmd(<<"SMOVE", "source", "destination", "member">>)]

SortToWatch ==
  [sort |-> Cmd(<<"SORT", "key">>) \o Given({"by"}, <<"BY", "by">>) \o Truthy({"limit"}, <<"LIMIT", "limit">>)
       \o Truthy({"patterns"}, <<"GET", "patterns">>) \o Truthy({"order"}, <<"order">>) \o Truthy({"alpha"}, <<"ALPHA">>)
       \o Given({"destination"}, <<"STORE", "destination">>),
   spop |-> Cmd(<<"SPOP", "key">>) \o Given({"count"}, <<"count">>),
   srandmember |-> Cmd(<<"SRANDMEMBER", "key">>) \o Given({"count"}, <<"count">>),
   srem |-> Cmd(<<"SREM", "key", "members">>),
   stralgo |-> Cmd(<<"STRALGO", "algorithm", "target", "a", "b">>) \o Truthy({"idx"}, <<"IDX">>) \o Truthy({"len"}, <<"LEN">>)
       \o Truthy({"withmatchlen"}, <<"WITHMATCHLEN">>) \o Truthy({"minmatchlen"}, <<"MINMATCHLEN", "minmatchlen">>),
   strlen |-> Cmd(<<"STRLEN", "key">>), sunion |-> Cmd(<<"SUNION", "keys">>),
   sunionstore |-> Cmd(<<"SUNIONSTORE", "destination", "keys">>),
   swapdb |-> Cmd(<<"SWAPDB", "index1", "index2">>), time |-> Cmd(<<"TIME">>),
   touch |-> Cmd(<<"TOUCH", "keys">>), ttl |-> Cmd(<<"TTL", "key">>), type |-> Cmd(<<"TYPE", "key">>),
   unlink |-> Cmd(<<"UNLINK", "keys">>), unwatch |-> Cmd(<<"UNWATCH">>),
   wait |-> Cmd(<<"WAIT", "numreplicas", "timeout">>), watch |-> Cmd(<<"WATCH", "keys">>)]

XackToXclaim ==
  [xack |-> Cmd(<<"XACK", "key", "group", "xids">>),
   xadd |-> Cmd(<<"XADD", "key">>) \o Given({"maxlen"}, <<"MAXLEN">>) \o Truthy({"approx"}, <<"~">>)
       \o Given({"maxlen"}, <<"maxlen">>) \o Cmd(<<"xid", "fieldValues">>),
   xclaim |-> Cmd(<<"XCLAIM", "key", "group", "consumer", "minIdleTime", "xids">>) \o Truthy({"idle"}, <<"IDLE", "idle">>)
       \o Truthy({"time"}, <<"TIME", "time">>) \o Truthy({"retryCount"}, <<"RETRYCOUNT", "retryCount">>)
       \o Truthy({"force"}, <<"FORCE">>) \o Truthy({"justXId"}, <<"JUSTID">>)]

XdelToXgroup ==
  [xdel |-> Cmd(<<"XDEL", "key", "xids">>), xlen |-> Cmd(<<"XLEN", "key">>),
   xgroupCreate |-> Cmd(<<"XGROUP", "CREATE", "key", "groupName", "xid">>) \o Truthy({"mkstream"}, <<"MKSTREAM">>),
   xgroupDelConsumer |-> Cmd(<<"XGROUP", "DELCONSUMER", "key", "groupName", "consumerName">>),
   xgroupDestroy |-> Cmd(<<"XGROUP", "DESTROY", "key", "groupName">>),
   xgroupHelp |-> Cmd(<<"XGROUP", "HELP">>),
   xgroupSetID |-> Cmd(<<"XGROUP", "SETID", "key", "groupName", "xid">>)]

XinfoToXpending ==
  [xinfoStream |-> Cmd(<<"XINFO", "STREAM", "key">>),
   xinfoStreamFull |-> Cmd(<<"XINFO", "STREAM", "key", "FULL">>) \o Truthy({"count"}, <<"COUNT", "count">>),
   xinfoGroups |-> Cmd(<<"XINFO", "GROUPS", "key">>),
   xinfoConsumers |-> Cmd(<<"XINFO", "CONSUMERS", "key", "group">>),
   xpending |-> Cmd(<<"XPENDING", "key", "group">>),
   xpendingCount |-> Cmd(<<"XPENDING", "key", "group", "startEndCount">>) \o Truthy({"consumer"}, <<"consumer">>)]

XrangeToXtrim ==
  [xrange |-> Cmd(<<"XRANGE", "key", "start", "end">>) \o Truthy({"count"}, <<"COUNT", "count">>),
   xrevrange |-> Cmd(<<"XREVRANGE", "key", "start", "end">>) \o Truthy({"count"}, <<"COUNT", "count">>),
   xread |-> Cmd(<<"XREAD">>) \o Truthy({"count"}, <<"COUNT", "count">>) \o Truthy({"block"}, <<"BLOCK", "block">>)
       \o Cmd(<<"STREAMS", "theKeys", "theXIds">>),
   xreadgroup |-> Cmd(<<"XREADGROUP", "GROUP", "group", "consumer">>) \o Truthy({"count"}, <<"COUNT", "count">>)
       \o Truthy({"block"}, <<"BLOCK", "block">>) \o Cmd(<<"STREAMS", "theKeys", "theXIds">>),
   xtrim |-> Cmd(<<"XTRIM", "key", "MAXLEN">>) \o Truthy({"approx"}, <<"~">>) \o Cmd(<<"maxlen">>)]

ZaddToZpop ==
  [zadd |-> Cmd(<<"ZADD", "key">>) \o pushZAddOpts \o Cmd(<<"scoreMembers">>),
   zaddIncr |-> Cmd(<<"ZADD", "key">>) \o pushZAddOpts \o Cmd(<<"INCR", "score", "member">>),
   zcard |-> Cmd(<<"ZCARD", "key">>), zcount |-> Cmd(<<"ZCOUNT", "key", "min", "max">>),
   zincrby |-> Cmd(<<"ZINCRBY", "key", "increment", "member">>),
   zinter |-> Cmd(<<"ZINTER">>) \o pushZStoreArgs \o Truthy({"withScore"}, <<"WITHSCORES">>),
   zinterstore |-> Cmd(<<"ZINTERSTORE", "destination">>) \o pushZStoreArgs,
   zunionstore |-> Cmd(<<"ZUNIONSTORE", "destination">>) \o pushZStoreArgs,
   zlexcount |-> Cmd(<<"ZLEXCOUNT", "key", "min", "max">>),
   zpopmax |-> Cmd(<<"ZPOPMAX", "key">>) \o Given({"count"}, <<"count">>),
   zpopmin |-> Cmd(<<"ZPOPMIN", "key">>) \o Given({"count"}, <<"count">>)]

ZrangeToZscore ==
  [zrange |-> Cmd(<<"ZRANGE", "key", "start", "stop">>) \o pushZRangeOpts,
   zrangebylex |-> Cmd(<<"ZRANGEBYLEX", "key", "min", "max">>) \o pushZRangeOpts,
   zrangebyscore |-> Cmd(<<"ZRANGEBYSCORE", "key", "min", "max">>) \o pushZRangeOpts,
   zrank |-> Cmd(<<"ZRANK", "key", "member">>), zrem |-> Cmd(<<"ZREM", "key", "members">>),
   zremrangebylex |-> Cmd(<<"ZREMRANGEBYLEX", "key", "min", "max">>),
   zremrangebyrank |-> Cmd(<<"ZREMRANGEBYRANK", "key", "start", "stop">>),
   zremrangebyscore |-> Cmd(<<"ZREMRANGEBYSCORE", "key", "min", "max">>),
   zrevrange |-> Cmd(<<"ZREVRANGE", "key", "start", "stop">>) \o pushZRangeOpts,
   zrevrangebylex |-> Cmd(<<"ZREVRANGEBYLEX", "key", "max", "min">>) \o pushZRangeOpts,
   zrevrangebyscore |-> Cmd(<<"ZREVRANGEBYSCORE", "key", "max", "min">>) \o pushZRangeOpts,
   zrevrank |-> Cmd(<<"ZREVRANK", "key", "member">>), zscore |-> Cmd(<<"ZSCORE", "key", "member">>)]

\* The slip: the cursor of HSCAN before its key.
ScanMethods_Swapped ==
  [scan |-> Cmd(<<"SCAN", "cursor">>) \o pushScanOpts,
   sscan |-> Cmd(<<"SSCAN", "key", "cursor">>) \o pushScanOpts,
   hscan |-> Cmd(<<"HSCAN", "cursor", "key">>) \o pushScanOpts,
   zscan |-> Cmd(<<"ZSCAN", "key", "cursor">>) \o pushScanOpts]

ScanMethods ==
  [scan |-> Cmd(<<"SCAN", "cursor">>) \o pushScanOpts,
   sscan |-> Cmd(<<"SSCAN", "key", "cursor">>) \o pushScanOpts,
   hscan |-> Cmd(<<"HSCAN", "key", "cursor">>) \o pushScanOpts,
   zscan |-> Cmd(<<"ZSCAN", "key", "cursor">>) \o pushScanOpts]

Methods ==
    AclMethods @@ AppendToBlockingPop @@ ClientMethods @@ ClusterToConfig @@
    DbsizeToFlushdb @@ GeoMethods @@ GetToHvals @@ IncrToLtrim @@
    MemoryToMulti @@ ObjectToRandomkey @@ ReadonlyToSelect @@ SetToSmove @@
    SortToWatch @@ XackToXclaim @@ XdelToXgroup @@ XinfoToXpending @@
    XrangeToXtrim @@ ZaddToZpop @@ ZrangeToZscore @@ ScanMethods
=============================================================================
