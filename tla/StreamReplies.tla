--------------------------- MODULE StreamReplies ---------------------------
(***************************************************************************)
(* What the client makes of the replies about a stream (stream.ts and the  *)
(* x* methods of redis.ts): a reader that passes the last id it was given  *)
(* to the next xread(), and a worker of a consumer group that reads, acks, *)
(* claims, crashes and reads its history.  The stream and its group are    *)
(* the server's (Redis 7, the image of docker-compose.yml); other clients  *)
(* delete entries and read the group as well.                              *)
(***************************************************************************)
EXTENDS Integers, FiniteSets, SequencesExt, FiniteSetsExt

CONSTANTS
    Ids,        \* the ids <<milliseconds, sequence number>> the server may give
    Starts,     \* the ids a reader may start after
    Bodies,     \* what an entry may hold: names and values in turn
    Safe,       \* stands for Number.MAX_SAFE_INTEGER
    Orders,     \* by how many the fields of an XINFO reply are shifted
    Mine,       \* this worker, and another one of the group
    Other,
    MaxCount,   \* bound: the COUNT of a read
    MaxTaken,   \* bound: entries a reader takes, the repeated ones included
    MaxCrashes  \* bound: crashes of the worker

ASSUME StreamAssumption ==
    /\ Safe \in Nat /\ Safe % 4 = 3
    /\ Ids \subseteq Nat \X Nat /\ Starts \subseteq Nat \X Nat
    /\ \A body \in Bodies : body \in Seq(ToSet(body)) /\ Len(body) % 2 = 0
    /\ Orders \subseteq 0..4
    /\ Mine # Other
    /\ MaxCount \in Nat

VARIABLES
    stream,     \* the entries: id to body
    added,      \* every id there has been an entry for
    delivered,  \* the group's last delivered id
    pel,        \* its pending entries: id to owner
    since,      \* history: where the reader started
    cursor,     \* the id argument of its next xread()
    taken,      \* the xids it was given
    held,       \* the xids the worker has and did not acknowledge
    crashes,
    torn        \* history: a pending entry was deleted from the stream

readerVars == <<since, cursor, taken>>
workerVars == <<held, crashes>>
serverVars == <<stream, added, delivered, pel, torn>>
vars == <<serverVars, readerVars, workerVars>>

-----------------------------------------------------------------------------
(* Raw replies, as readReply() returns them.  A text is a tuple, so that   *)
(* an id, a decimal number and a word are told apart.                      *)

Str(text) == [is |-> "string", got |-> text]
Word(w) == Str(<<w>>)
Decimal(n) == Str(<<"decimal", n>>)
IdText(id) == <<"id", id[1], id[2]>>
IdStr(id) == Str(IdText(id))
Num(n) == [is |-> "number", got |-> n]
Arr(s) == [is |-> "array", got |-> s]
Nil == [is |-> "nil", got |-> <<>>]

isString(raw) == raw.is = "string"
isNumber(raw) == raw.is = "number"
isCondArray(raw) == raw.is \in {"array", "string"}

Throws(e) == [is |-> "throws", got |-> e]
Gives(v) == [is |-> "value", got |-> v]

-----------------------------------------------------------------------------
(* Conversions *)

\* parseInt() to a double: beyond 2^53 only the even numbers are left, a tie goes to
\* the multiple of four.
parseInt(n) ==
    IF n <= Safe + 1 \/ n % 2 = 0 THEN n ELSE IF n % 4 = 1 THEN n - 1 ELSE n + 1

parseXId(text) == [unixMs |-> parseInt(text[2]), seqNo |-> parseInt(text[3])]

\* XIdInput: an XId, a pair or the milliseconds alone.
AsXId(ms, sn) == [form |-> "xid", xid |-> [unixMs |-> ms, seqNo |-> sn]]
AsPair(ms, sn) == [form |-> "pair", pair |-> <<ms, sn>>]
AsNumber(ms) == [form |-> "number", number |-> ms]
Forms(id) ==
    {AsXId(id[1], id[2]), AsPair(id[1], id[2])}
    \cup (IF id[2] = 0 THEN {AsNumber(id[1])} ELSE {})

\* Slip: the sequence number is left out.
xidstr_NoSeq(input) ==
    CASE input.form = "number" -> <<"id", input.number, 0>>
      [] input.form = "pair" -> <<"id", input.pair[1], 0>>
      [] input.form = "xid" -> <<"id", input.xid.unixMs, 0>>

xidstr(input) ==
    CASE input.form = "number" -> <<"id", input.number, 0>>
      [] input.form = "pair" -> <<"id", input.pair[1], input.pair[2]>>
      [] input.form = "xid" -> <<"id", input.xid.unixMs, input.xid.seqNo>>

IdOf(text) == <<text[2], text[3]>>

\* map.set(key, value)
Set(map, key, value) ==
    [k \in DOMAIN map \cup {key} |-> IF k = key THEN value ELSE map[k]]

\* Slip: the first value of a repeated name stays.
FieldValues_First(body) ==
    LET fields[m \in 0..Len(body)] ==
            IF m = 0 THEN <<>>
            ELSE IF \/ m % 2 = 1 \/ body[m - 1].got = <<"">>
                    \/ body[m - 1].got \in DOMAIN fields[m - 1]
                 THEN fields[m - 1]
            ELSE Set(fields[m - 1], body[m - 1].got, body[m].got)
    IN  fields[Len(body)]

\* The loop of parseXMessage(): names and values in turn; an empty name is falsy.
FieldValues(body) ==
    LET fields[m \in 0..Len(body)] ==
            IF m = 0 THEN <<>>
            ELSE IF m % 2 = 1 \/ body[m - 1].got = <<"">> THEN fields[m - 1]
            ELSE Set(fields[m - 1], body[m - 1].got, body[m].got)
    IN  fields[Len(body)]

\* raw[1] of null, and the iteration of null, are TypeErrors.
parseXMessage(raw) ==
    IF raw.is = "nil" \/ raw.got[2].is = "nil" THEN Throws("TypeError")
    ELSE Gives([xid |-> parseXId(raw.got[1].got), fieldValues |-> FieldValues(raw.got[2].got)])

\* map(parse): the first error ends it.
Each(parse(_), raws) ==
    LET outs == [i \in DOMAIN raws |-> parse(raws[i])]
    IN  IF \E i \in DOMAIN outs : outs[i].is = "throws"
        THEN outs[CHOOSE i \in DOMAIN outs : outs[i].is = "throws"]
        ELSE Gives([i \in DOMAIN outs |-> outs[i].got])

\* The reply names one stream, and is null when there is nothing to read.
parseXReadReply(raw) ==
    IF raw.is = "nil" THEN Gives(<<>>) ELSE Each(parseXMessage, raw.got[1].got[2].got)

\* The loop of convertMap(): a text at an even place (counted from zero) is the name f of
\* the values after it.
MapStep(loop, m, data) ==
    IF m % 2 = 1
    THEN IF isString(data) THEN [loop EXCEPT !.f = data.got] ELSE loop
    ELSE IF loop.f = <<"">> THEN loop
    ELSE [loop EXCEPT !.map = Set(loop.map, loop.f, data)]

\* Slip: the loop ends one element early.
convertMap_EndsEarly(raw) ==
    LET loop[m \in 0..Len(raw)] ==
            IF m = 0 THEN [f |-> <<"">>, map |-> <<>>] ELSE MapStep(loop[m - 1], m, raw[m])
    IN  loop[Len(raw) - 1].map

convertMap(raw) ==
    LET loop[m \in 0..Len(raw)] ==
            IF m = 0 THEN [f |-> <<"">>, map |-> <<>>] ELSE MapStep(loop[m - 1], m, raw[m])
    IN  loop[Len(raw)].map

\* A loop that pushes the elements that pass a test.
Pushed(raws, passes) ==
    LET pushed[n \in 0..Len(raws)] ==
            IF n = 0 THEN <<>>
            ELSE IF passes[n] THEN Append(pushed[n - 1], raws[n]) ELSE pushed[n - 1]
    IN  pushed[Len(raws)]

\* data.get(name) ?? null
Get(map, name) == IF <<name>> \in DOMAIN map THEN map[<<name>>] ELSE Nil
rawnum(raw) == IF raw.is = "nil" THEN 0 ELSE raw.got
rawstr(raw) == IF raw.is = "nil" THEN <<"">> ELSE raw.got

-----------------------------------------------------------------------------
(* The server's side                                                       *)

Before(x, y) == x[1] < y[1] \/ (x[1] = y[1] /\ x[2] < y[2])
InOrder(S) ==
    CHOOSE s \in [1..Cardinality(S) -> S] : \A i, j \in DOMAIN s : i < j => Before(s[i], s[j])
Newest(S) == IF S = {} THEN <<0, 0>> ELSE CHOOSE x \in S : \A y \in S : ~ Before(x, y)
Upto(s, n) == SubSeq(s, 1, IF n < Len(s) THEN n ELSE Len(s))
Owned(c) == {id \in DOMAIN pel : pel[id] = c}

\* An entry; of one that was deleted, its id and null.
RawEntry(id) ==
    Arr(<<IdStr(id), IF id \in DOMAIN stream THEN Arr(stream[id]) ELSE Nil>>)
RawEntries(ids) == [i \in DOMAIN ids |-> RawEntry(ids[i])]
RawStream(ids) == Arr(<<Arr(<<Word("key"), Arr(RawEntries(ids))>>)>>)

\* A map of fields <<name, value>>, which may come in any order and be more than the client
\* knows: names and values in turn, from the field after the k-th.
From(k, fields) ==
    LET turned == SubSeq(fields, k + 1, Len(fields)) \o SubSeq(fields, 1, k)
    IN  [i \in 1 .. 2 * Len(turned) |->
            IF i % 2 = 1 THEN Word(turned[(i + 1) \div 2][1]) ELSE turned[i \div 2][2]]

EntryOrNil(id) == IF DOMAIN stream = {} THEN Nil ELSE RawEntry(id)

RawInfo == <<
    <<"length", Num(Cardinality(DOMAIN stream))>>,
    <<"radix-tree-keys", Num(1)>>, <<"radix-tree-nodes", Num(2)>>,
    <<"unknown", Word("length")>>,
    <<"last-generated-id", IdStr(Newest(added))>>, <<"groups", Num(1)>>,
    <<"first-entry", EntryOrNil(Head(InOrder(DOMAIN stream)))>>,
    <<"last-entry", EntryOrNil(Last(InOrder(DOMAIN stream)))>> >>

RawPending(id) == Arr(<<IdStr(id), Word(pel[id]), Num(0), Num(1)>>)
RawPendingOf(id) == Arr(<<IdStr(id), Num(0), Num(1)>>)
RawConsumer(c) == <<
    <<"name", Word(c)>>, <<"seen-time", Num(0)>>,
    <<"pel-count", Num(Cardinality(Owned(c)))>>,
    <<"pending", Arr([i \in DOMAIN InOrder(Owned(c)) |-> RawPendingOf(InOrder(Owned(c))[i])])>> >>
RawPendings == [i \in DOMAIN InOrder(DOMAIN pel) |-> RawPending(InOrder(DOMAIN pel)[i])]
RawGroup(k) == <<
    <<"name", Word("group")>>, <<"last-delivered-id", IdStr(delivered)>>,
    <<"entries-read", Nil>>, <<"pel-count", Num(Cardinality(DOMAIN pel))>>,
    <<"pending", Arr(RawPendings)>>,
    <<"consumers", Arr(<<Arr(From(k, RawConsumer(Mine))), Arr(From(k, RawConsumer(Other)))>>)>> >>
RawInfoFull(k) == <<
    <<"length", Num(Cardinality(DOMAIN stream))>>,
    <<"radix-tree-keys", Num(1)>>, <<"radix-tree-nodes", Num(2)>>,
    <<"last-generated-id", IdStr(Newest(added))>>,
    <<"entries", Arr(RawEntries(InOrder(DOMAIN stream)))>>,
    <<"groups", Arr(<<Arr(From(k, RawGroup(k)))>>)>> >>

\* XINFO GROUPS and XINFO CONSUMERS.
RawGroupInfo == <<
    <<"name", Word("group")>>, <<"consumers", Num(2)>>,
    <<"pending", Num(Cardinality(DOMAIN pel))>>,
    <<"last-delivered-id", IdStr(delivered)>>, <<"lag", Nil>> >>
RawConsumerInfo(c) == <<
    <<"name", Word(c)>>, <<"pending", Num(Cardinality(Owned(c)))>>,
    <<"idle", Num(0)>>, <<"inactive", Num(0)>> >>

\* XPENDING key group: a group that waits for nothing is [0, null, null, null].
RawSummary ==
    LET ids == InOrder(DOMAIN pel)
        busy == Pushed(<<Mine, Other>>, <<Owned(Mine) # {}, Owned(Other) # {}>>)
    IN  IF ids = <<>> THEN <<Num(0), Nil, Nil, Nil>>
        ELSE <<Num(Len(ids)), IdStr(Head(ids)), IdStr(Last(ids)),
               Arr([i \in DOMAIN busy |->
                       Arr(<<Word(busy[i]), Decimal(Cardinality(Owned(busy[i])))>>)])>>

-----------------------------------------------------------------------------
(* What the methods make of those replies                                  *)

infoStream(raw) ==
    LET data == convertMap(raw)
        ends == Each(parseXMessage, <<Get(data, "first-entry"), Get(data, "last-entry")>>)
    IN  IF ends.is = "throws" THEN ends
        ELSE Gives([length |-> rawnum(Get(data, "length")),
                    radixTreeKeys |-> rawnum(Get(data, "radix-tree-keys")),
                    radixTreeNodes |-> rawnum(Get(data, "radix-tree-nodes")),
                    groups |-> rawnum(Get(data, "groups")),
                    lastGeneratedId |-> parseXId(rawstr(Get(data, "last-generated-id"))),
                    firstEntry |-> ends.got[1], lastEntry |-> ends.got[2]])

parseXPendingCounts(raws) ==
    LET passes == [i \in DOMAIN raws |->
                      /\ isCondArray(raws[i])
                      /\ isString(raws[i].got[1]) /\ isString(raws[i].got[2])
                      /\ isNumber(raws[i].got[3]) /\ isNumber(raws[i].got[4])]
        fit == Pushed(raws, passes)
    IN  [i \in DOMAIN fit |-> [xid |-> parseXId(fit[i].got[1].got), owner |-> fit[i].got[2].got[1],
                               lastDeliveredMs |-> fit[i].got[3].got,
                               timesDelivered |-> fit[i].got[4].got]]

parseXConsumerDetail(raws) ==
    [i \in DOMAIN raws |->
        LET data == convertMap(raws[i].got)
            ps == Get(data, "pending").got
        IN  [name |-> rawstr(Get(data, "name"))[1],
             seenTime |-> rawnum(Get(data, "seen-time")),
             pelCount |-> rawnum(Get(data, "pel-count")),
             pending |-> [j \in DOMAIN ps |->
                 [xid |-> parseXId(rawstr(ps[j].got[1])),
                  lastDeliveredMs |-> rawnum(ps[j].got[2]),
                  timesDelivered |-> rawnum(ps[j].got[3])]]]]

parseXGroupDetail(raws) ==
    LET fit == Pushed(raws, [i \in DOMAIN raws |-> isCondArray(raws[i])])
    IN  [i \in DOMAIN fit |->
            LET data == convertMap(fit[i].got)
            IN  [name |-> rawstr(Get(data, "name"))[1],
                 lastDeliveredId |-> parseXId(rawstr(Get(data, "last-delivered-id"))),
                 pelCount |-> rawnum(Get(data, "pel-count")),
                 pending |-> parseXPendingCounts(Get(data, "pending").got),
                 consumers |-> parseXConsumerDetail(Get(data, "consumers").got)]]

infoStreamFull(raw) ==
    LET data == convertMap(raw)
        entries == Each(parseXMessage, Get(data, "entries").got)
    IN  IF entries.is = "throws" THEN entries
        ELSE Gives([length |-> rawnum(Get(data, "length")),
                    radixTreeKeys |-> rawnum(Get(data, "radix-tree-keys")),
                    radixTreeNodes |-> rawnum(Get(data, "radix-tree-nodes")),
                    lastGeneratedId |-> parseXId(rawstr(Get(data, "last-generated-id"))),
                    entries |-> entries.got,
                    groups |-> parseXGroupDetail(Get(data, "groups").got)])

infoGroups(raws) ==
    [i \in DOMAIN raws |->
        LET data == convertMap(raws[i].got)
        IN  [name |-> rawstr(Get(data, "name"))[1],
             consumers |-> rawnum(Get(data, "consumers")),
             pending |-> rawnum(Get(data, "pending")),
             lastDeliveredId |-> parseXId(rawstr(Get(data, "last-delivered-id")))]]

infoConsumers(raws) ==
    [i \in DOMAIN raws |->
        LET data == convertMap(raws[i].got)
        IN  [name |-> rawstr(Get(data, "name"))[1],
             pending |-> rawnum(Get(data, "pending")), idle |-> rawnum(Get(data, "idle"))]]

parseXPendingConsumers(raws) ==
    LET passes == [i \in DOMAIN raws |->
                      isCondArray(raws[i]) /\ isString(raws[i].got[1]) /\ isString(raws[i].got[2])]
        fit == Pushed(raws, passes)
    IN  [i \in DOMAIN fit |-> [name |-> fit[i].got[1].got[1], pending |-> parseInt(fit[i].got[2].got[2])]]

\* Slip: the reply of an idle group is converted like any other.
pending_NoCheck(raw) ==
    Gives([count |-> raw[1].got, startId |-> <<>>, endId |-> <<>>, consumers |-> <<>>])

pending(raw) ==
    IF isNumber(raw[1]) /\ isString(raw[2]) /\ isString(raw[3]) /\ isCondArray(raw[4])
    THEN Gives([count |-> raw[1].got,
                startId |-> parseXId(raw[2].got), endId |-> parseXId(raw[3].got),
                consumers |-> parseXPendingConsumers(raw[4].got)])
    ELSE Throws("parse err")

\* Slip: the ids of a JUSTID reply are passed over.
claimed_EntriesOnly(raws, justXId) ==
    Each(parseXMessage, Pushed(raws, [i \in DOMAIN raws |-> ~ isString(raws[i])]))

\* With JUSTID the reply holds ids, otherwise entries.
claimed(raws, justXId) ==
    IF justXId
    THEN LET ids == Pushed(raws, [i \in DOMAIN raws |-> isString(raws[i])])
         IN  Gives([i \in DOMAIN ids |-> [xid |-> parseXId(ids[i].got)]])
    ELSE Each(parseXMessage, Pushed(raws, [i \in DOMAIN raws |-> ~ isString(raws[i])]))

XidsOf(out) ==
    IF out.is = "throws" THEN <<>> ELSE [i \in DOMAIN out.got |-> out.got[i].xid]

-----------------------------------------------------------------------------
(* Behaviour.  A call that only asks is an operator: what it resolves to.  *)

xinfoStream(k) == infoStream(From(k, RawInfo))
xinfoStreamFull(k) == infoStreamFull(From(k, RawInfoFull(k)))
xinfoGroups(k) == infoGroups(<<Arr(From(k, RawGroupInfo))>>)
xinfoConsumers(k) ==
    infoConsumers(<<Arr(From(k, RawConsumerInfo(Mine))), Arr(From(k, RawConsumerInfo(Other)))>>)
xpending == pending(RawSummary)
xpendingCount == parseXPendingCounts(RawPendings)
xrange == Each(parseXMessage, RawEntries(InOrder(DOMAIN stream)))
xrevrange == Each(parseXMessage, RawEntries(Reverse(InOrder(DOMAIN stream))))

\* The entries after the id `from`, count at most.
Following(from, count) == Upto(InOrder({x \in DOMAIN stream : Before(from, x)}), count)
RawFollowing(ids) == IF ids = <<>> THEN Nil ELSE RawStream(ids)
xread(count) == parseXReadReply(RawFollowing(Following(IdOf(xidstr(cursor)), count)))
xreadgroupNew(count) == parseXReadReply(RawFollowing(Following(delivered, count)))
RawHistory == RawStream(InOrder(Owned(Mine)))
xreadgroupHistory == parseXReadReply(RawHistory)

Init ==
    /\ stream = <<>> /\ added = {} /\ delivered = <<0, 0>> /\ pel = <<>>
    /\ since \in Starts
    /\ cursor \in Forms(since)
    /\ taken = <<>>
    /\ held = {} /\ crashes = 0 /\ torn = FALSE

\* XADD, with the id "*" or one of the caller's.
Add(id, body) ==
    /\ \A x \in added : Before(x, id)
    /\ stream' = [x \in DOMAIN stream \cup {id} |-> IF x = id THEN body ELSE stream[x]]
    /\ added' = added \cup {id}
    /\ UNCHANGED <<delivered, pel, torn, readerVars, workerVars>>

\* XDEL or XTRIM takes an entry out of the stream, not out of the pending list.
Delete(id) ==
    /\ id \in DOMAIN stream
    /\ stream' = [x \in DOMAIN stream \ {id} |-> stream[x]]
    /\ torn' = (torn \/ id \in DOMAIN pel)
    /\ UNCHANGED <<added, delivered, pel, readerVars, workerVars>>

\* The reader passes the xid of the last entry it was given.
Read(count) ==
    LET xids == XidsOf(xread(count)) IN
    /\ xids # <<>> /\ Len(taken) + Len(xids) <= MaxTaken
    /\ taken' = taken \o xids
    /\ cursor' = [form |-> "xid", xid |-> Last(xids)]
    /\ UNCHANGED <<serverVars, since, workerVars>>

\* The server gives consumer c the next entries of the group.
Deliver(c, ids) ==
    /\ ids # <<>>
    /\ delivered' = Last(ids)
    /\ pel' = [x \in DOMAIN pel \cup ToSet(ids) |-> IF x \in ToSet(ids) THEN c ELSE pel[x]]
    /\ UNCHANGED <<stream, added, torn>>

OtherReads ==
    /\ Deliver(Other, Following(delivered, 1))
    /\ UNCHANGED <<readerVars, workerVars>>

\* xreadgroup() from ">".
ReadNew(count) ==
    /\ Deliver(Mine, Following(delivered, count))
    /\ held' = held \cup ToSet(XidsOf(xreadgroupNew(count)))
    /\ UNCHANGED <<readerVars, crashes>>

\* xreadgroup() from 0: what this worker has pending, as after a crash.
ReadHistory ==
    /\ \E raw \in {RawHistory} : \E out \in {parseXReadReply(raw)} :
           held' = held \cup ToSet(XidsOf(out))
    /\ UNCHANGED <<serverVars, readerVars, crashes>>

Ack(xid) ==
    /\ xid \in held
    /\ LET id == IdOf(xidstr([form |-> "xid", xid |-> xid]))
       IN  pel' = [x \in DOMAIN pel \ {id} |-> pel[x]]
    /\ held' = held \ {xid}
    /\ UNCHANGED <<stream, added, delivered, torn, readerVars, crashes>>

\* An id as xpendingCount() gives it; the server takes a deleted entry off the list.
Claim(id, justXId) ==
    LET asked == IdOf(xidstr([form |-> "xid", xid |-> parseXId(IdText(id))]))
        found == asked \in Owned(Other) /\ asked \in DOMAIN stream
        raws == IF ~ found THEN <<>> ELSE <<IF justXId THEN IdStr(asked) ELSE RawEntry(asked)>>
    IN  /\ id \in Owned(Other)
        /\ pel' = IF found THEN [pel EXCEPT ![asked] = Mine]
                  ELSE [x \in DOMAIN pel \ ({asked} \cap Owned(Other)) |-> pel[x]]
        /\ held' = held \cup ToSet(XidsOf(claimed(raws, justXId)))
        /\ UNCHANGED <<stream, added, delivered, torn, readerVars, crashes>>

\* The worker starts again, and has only what the group remembers.
Crash ==
    /\ crashes < MaxCrashes
    /\ crashes' = crashes + 1
    /\ held' = {}
    /\ UNCHANGED <<serverVars, readerVars>>

Next ==
    \/ \E id \in Ids, body \in Bodies : Add(id, body)
    \/ \E id \in Ids : Delete(id)
    \/ \E id \in Ids, j \in BOOLEAN : Claim(id, j)
    \/ \E n \in 1..MaxCount : Read(n) \/ ReadNew(n)
    \/ OtherReads \/ ReadHistory \/ Crash
    \/ \E xid \in held : Ack(xid)

\* A worker that goes on reading its history and acknowledging what it holds.
Fairness ==
    /\ WF_vars(ReadHistory)
    /\ WF_vars(\E xid \in held : Ack(xid))

Spec == Init /\ [][Next]_vars
FairSpec == Spec /\ Fairness

-----------------------------------------------------------------------------

Exact(id) == parseInt(id[1]) = id[1] /\ parseInt(id[2]) = id[2]
AllExact == \A id \in added : Exact(id)
AsId(xid) == <<xid.unixMs, xid.seqNo>>

\* A reader that passes on the last xid it was given (stream.ts, parseXId() and
\* xidstr()) gets every entry after its start once and in order, whatever the COUNT
\* and whatever is deleted, as long as no number of an id is beyond a double.
EveryEntryOnce ==
    AllExact =>
        /\ \A i, j \in DOMAIN taken : i < j => Before(AsId(taken[i]), AsId(taken[j]))
        /\ \A id \in DOMAIN stream :
               Before(since, id) /\ ~ Before(IdOf(xidstr(cursor)), id)
                   => \E i \in DOMAIN taken : AsId(taken[i]) = id
        /\ \A i \in DOMAIN taken : Before(since, AsId(taken[i]))

\* What the worker holds is what the group has pending for it, but for what a crash
\* took from it: an acknowledgement never settles another entry (xack(), xidstr()),
\* and no entry is delivered or claimed without the worker knowing.
HeldIsPending ==
    AllExact =>
        /\ {AsId(x) : x \in held} \subseteq Owned(Mine)
        /\ crashes = 0 => {AsId(x) : x \in held} = Owned(Mine)

\* The messages out stands for are the entries ids, in their order; each carries, for
\* every name but the empty one, the value given last.
FieldsOf(body) ==
    LET names == {k \in DOMAIN body : k % 2 = 1 /\ body[k].got # <<"">>}
    IN  {<<body[k].got, body[k + 1].got>> : k \in {n \in names :
            \A m \in names : m > n => body[m].got # body[n].got}}

MessageOf(m, id) ==
    /\ m.xid = parseXId(IdText(id))
    /\ {<<f, m.fieldValues[f]>> : f \in DOMAIN m.fieldValues} = FieldsOf(stream[id])

Messages(out, ids) ==
    /\ out.is = "value" /\ Len(out.got) = Len(ids)
    /\ \A i \in DOMAIN ids : MessageOf(out.got[i], ids[i])

\* What xread(), xreadgroup(), xrange() and xrevrange() resolve to (redis.ts:1841-1951):
\* the entries of the reply with their last values, and [] when the reply is null.
EntriesArrive ==
    /\ \A n \in 1..MaxCount :
           /\ Messages(xread(n), Following(IdOf(xidstr(cursor)), n))
           /\ Messages(xreadgroupNew(n), Following(delivered, n))
    /\ Messages(xrange, InOrder(DOMAIN stream))
    /\ Messages(xrevrange, Reverse(InOrder(DOMAIN stream)))

\* The fields of an XINFO or XPENDING reply (redis.ts:1700-1839) are found by their
\* names: by however many places they are shifted, and with others beside them that the
\* client does not know.
PendingXids(ids) == [i \in DOMAIN InOrder(ids) |-> parseXId(IdText(InOrder(ids)[i]))]
Xids(infos) == [i \in DOMAIN infos |-> infos[i].xid]

InfoByName ==
    /\ \A k \in Orders :
        /\ stream # <<>> =>
              LET o == xinfoStream(k).got IN
              /\ xinfoStream(k).is = "value"
              /\ o.length = Cardinality(DOMAIN stream) /\ o.groups = 1
              /\ o.lastGeneratedId = parseXId(IdText(Newest(added)))
              /\ MessageOf(o.lastEntry, Newest(DOMAIN stream))
        /\ LET o == xinfoStreamFull(k).got
               g == o.groups[1]
           IN
              /\ Messages(Gives(o.entries), InOrder(DOMAIN stream))
              /\ Len(o.groups) = 1
              /\ g.name = "group" /\ g.lastDeliveredId = parseXId(IdText(delivered))
              /\ Xids(g.pending) = PendingXids(DOMAIN pel)
              /\ \A i \in DOMAIN g.consumers :
                     Xids(g.consumers[i].pending) = PendingXids(Owned(g.consumers[i].name))
        /\ LET g == xinfoGroups(k)[1] IN
              /\ g.pending = Cardinality(DOMAIN pel) /\ g.consumers = 2
              /\ g.lastDeliveredId = parseXId(IdText(delivered))
        /\ \A i \in 1..2 : LET c == xinfoConsumers(k)[i] IN
              c.pending = Cardinality(Owned(c.name))
    /\ \A i \in DOMAIN xpendingCount :
           xpendingCount[i].owner = pel[InOrder(DOMAIN pel)[i]]
    /\ pel # <<>> =>
           LET o == xpending.got IN
           /\ o.count = Cardinality(DOMAIN pel)
           /\ \A i \in DOMAIN o.consumers :
              o.count <= Safe =>
                  o.consumers[i].pending = Cardinality(Owned(o.consumers[i].name))

\* Well-formed replies that a conversion cannot take, and no others: the history of a
\* worker whose pending entry was deleted (stream.ts:217), XINFO STREAM of an empty
\* stream (redis.ts:1708), XPENDING of a group that waits for nothing (redis.ts:1817).
ThrowsOnlyFor ==
    /\ xreadgroupHistory.is = "throws" <=> ~ (Owned(Mine) \subseteq DOMAIN stream)
    /\ xpending.is = "throws" <=> pel = <<>>
    /\ \A k \in Orders :
           /\ xinfoStream(k).is = "throws" <=> stream = <<>>
           /\ xinfoStreamFull(k).is = "value"

\* A worker that reads its history after a crash and acknowledges what it holds
\* gets rid of every entry, unless one it has pending was deleted.
HistoryRecovers ==
    \A id \in Ids : id \in Owned(Mine) ~> (id \notin Owned(Mine) \/ torn \/ ~ AllExact)
=============================================================================
