# deno-redis: verification project

TLA+ models of the Redis client for Deno in `src/`, TLC configurations that
check them on small instances, and proofs, checked by TLAPS, of the client's
main safety properties for instances of any size.

Contents: [the system](#1-the-system), [the modules and the
code](#2-the-modules-and-the-code), [the runs](#3-the-runs), [fairness and
bounds](#4-fairness-and-bounds), [what is proved](#5-what-is-proved),
[findings](#6-findings), [what is not modelled](#7-what-is-not-modelled),
[plan](#8-plan).

## 1. The system

A program obtains a client with `connect()` or `createLazyClient()`
(`redis.ts`), calls one of about 300 command methods, and awaits the reply.
Everything runs in one JavaScript thread; concurrency comes from `await`: a
chain of awaits (called a *fibre* here) runs from one `await` to the next
without interruption, and any other fibre may run in between.

| component | state | operations | interacts with |
|---|---|---|---|
| Connection, `connection.ts` | the socket in use (`closer`, `reader`, `writer`), `_isClosed`, `_isConnected`, `retryCount` | `connect()` (dial, AUTH, SELECT, CLIENT SETNAME, retry with backoff), `reconnect()` (PING, close, connect, PING), `close()` | dials sockets; its flags are read by the executor and by `receive()` |
| Executor, `executor.ts` | `queue`, `isProcessing` | `exec()`, `dequeue()`, `close()` | one fibre sends the head, waits, settles its promise, or calls `reconnect()` and sends it again |
| Requests, `protocol/command.ts` | the locks of the two streams | `writeRequest()`, `sendCommand()`, `sendCommands()` | called by the connection, the executor and pipelines on the same streams |
| Reply decoder, `protocol/reply.ts` | one `StreamBuffer` per reply | `readReply()` and one reader per reply type | takes chunks from the socket |
| Pipelines, `pipeline.ts` | `commands` | `exec()`, `flush()` | bypasses the queue: `sendCommands()` on the connection's streams |
| Publish/subscribe, `pubsub.ts` | `channels`, `patterns` | `subscribe()`, `unsubscribe()`, `receive()`, `close()` | commands through the executor; `receive()` reads the stream itself, reconnects and subscribes again |
| Clients, `redis.ts` | the executor; a lazy client makes it on first use | `connect()`, `createLazyClient()`, `tx()`, `pipeline()` | wires the parts together |
| Command methods, `redis.ts`, `command.ts` | none | one method per command: from arguments to a request | call `exec()` |
| Stream replies, `stream.ts`, `redis.ts` | none; the caller keeps the ids | conversions of ids and of the replies to X* commands | a reader passes the ids it was given to its next call |
| Options, `redis.ts`, `utils.ts`, `backoff.ts` | none | `parseURL()`, `parsePortLike()`, `exponentialBackoff()` | decide the dial, the handshake and the delays |

**What is hard here.** Nothing ties a reply to its request but the order of
bytes on a socket, and a socket may be replaced at any `await`. The queue, the
pipelines and `receive()` use the same two streams without a common lock: the
streams' own locks throw, they do not wait. `close()` may come at any time.
`reconnect()` calls `close()` itself, so one flag stands for "the user closed
it" and for "being replaced". A failed write or read may leave the server with
a command it has executed and the client with none of the reply. A lazy client
starts to execute before it has connected. A request announces its lengths
before its bytes, so one miscounted argument desynchronises every later
command; and some 250 requests are put together by hand.

**What makes each part correct.**

- *Connection*: one open socket at most and none leaked; a bounded number of
  dials, from a full budget each time; no caller's command before the handshake.
- *Executor*: own reply or error, once, in order, for every command; a command
  is sent again only after its socket is dead; after `close()` none is accepted.
- *Requests*: the announced counts are those of what follows; every argument
  arrives, once, in its place; different calls are different requests.
- *Decoder*: whatever the chunks, the reply that was sent, and none of its bytes
  left; no wait for a byte beyond it; nothing made of a reply that is cut.
- *Pipelines*: each command runs once at most, those of a transaction inside its
  MULTI; each result at the place of its command; every `flush()` ends.
- *Publish/subscribe*: messages in order and none twice; the server knows the
  recorded channels whenever `receive()` reads; no message lost on a connection
  that stays up; no stream that goes on being used is left locked.
- *Lazy client*: its first command waits for the connection and then behaves
  like any other; whatever happens, it settles.
- *Stream replies*: an id that comes back from a caller names the entry it came
  with; a consumer loses no entry, also when its process restarts.
- *Options*: what a URL says is what the server is told; the delays begin with the
  minimum, go the way of the multiplier, and never exceed the maximum.

Every hazard, with its line and the properties that watch it, is listed in
`PROJECT.json` under `hazards`.

## 2. The modules and the code

```
RedisReply ── Wire ── Connection ── MuxExecutor ─┬─ Client ── Transaction
CommandQueue (abstract) ....implemented by.......│....Client
                                                 ├─ PipelineClient
                                                 ├─ PubSub
ConnectOptions ──────────────────────────────────┴─ LazyClient

ReplyDecoder      CommandTypes, CommandMethods ── MethodCall      StreamReplies

proofs:  MuxExecutor ── TurnProofs ─┬─ ClientProofs ── TransactionProofs
                                    ├─ PipelineProofs
                                    ├─ LazyProofs
                                    └─ PubSubProofs
         StreamReplies ── StreamProofs          ReplyDecoder ── DecoderProofs
```

The `MC*` modules give the constants their values. Operators named
`X_Something` under a comment "Slip" are variants of `X` with a plausible
programming error; no specification uses them, they document that each
property fails when the code is wrong in that way.

- **RedisReply** — what a promise settles with. A payload is abstracted to *the
  request it answers*: own and foreign replies differ, nothing else does.
  `Torn(r)` was decoded from a part of its bytes: a line cut by the end of the
  stream, which `StreamBuffer.readLine` accepts as whole, or a fragment in the
  middle of it. `Fault(e)` is an exception.
- **Wire** — `sendCommand()` and what is below it. `call[f]` is fibre `f`'s
  current call: `Send` (lock the writer or throw), `WriteOk`/`WriteFails`,
  `StartRead` (unlock, lock the reader or throw), `ReadReply`/`ReadFails`,
  `FinishRead` (unlock; `receive()`, which reads without having sent a request,
  unlocks after a reply only). One action per stretch between two awaits. `rid` is the
  Deno resource of a socket, `link` the TCP connection under it, `out` the
  requests the server has received, `inb` the replies the client has not read.
  `ReadReply` takes a chunk and returns the first reply in it; the rest of the
  chunk dies with its `StreamBuffer`. A chunk may end anywhere (`AfterChunk`): after
  a reply, or inside one, of which `Part(r, n)` is then left on the socket. The
  next read starts in the middle of that reply and makes of it what its bytes
  allow (`Fragments`): an `InvalidStateError` although the socket is well
  (`reply.ts:146`), something that reads like a value or an error reply, each
  taking another piece of the rest, until all of it is gone. `CutShort` is what a
  read makes of a reply in which the stream ends. The server (`ServerExec`) and the network
  (`LinkCut`) are external; their behaviour is what `src/` relies on: TCP order,
  one reply per request.
- **Connection** — `task[f]` is fibre `f`'s activation of `connect()` or
  `reconnect()`; `cur` is the socket that `closer`, `reader` and `writer` belong
  to (they are always assigned together). `DialOk` sets the flags *before* the
  handshake and `HelloStep` sends to the socket the connection has *now*, both
  as in the code.
- **MuxExecutor** — `exec()` (`Exec`, `ExecRefused`) and `dequeue()` cut at its
  awaits: `Resolve`, `Reject`, `Retry` (catch), `Resume`, `GiveUp` (after
  `reconnect()`); each includes the `finally` block, that is the start of the
  next command.
- **Client** — `connect()` of `redis.ts` from the first dial (`phase = "boot"`),
  then callers who call `exec()` and `close()` whenever they like.
- **CommandQueue** — the promise to callers: commands are taken in order, each
  settles once and in that order, with its own reply or an error that is no
  caller's reply, and none stays pending. `Client` implements it under
  `pending <- queue, outcome <- settled`.
- **Transaction** — a caller that awaits `multi()`, a command and `exec()` in
  turn through the executor, and a server that keeps MULTI per connection.
- **PipelineClient** — pipelines and transactions (`tx()`) next to the executor.
  Each call of `flush()` is a fibre (`Flushes`, `PipeOf`), and nothing keeps it from
  the streams while the executor or another `flush()`, of the same pipeline too,
  is at work: as in the code, what it meets is a locked stream, or a reply to
  somebody else. `Flush` takes the commands from the pipeline before it awaits;
  `PipeCollects` gathers replies and error replies and goes on with the streams
  it was started with, `PipeThrows` ends the flush on any other exception. The
  server knows per socket whether it is inside MULTI and what waits there for
  EXEC (`multi`, `inside`). `overlapped`, `crossed` and `loose` are histories that
  the properties read. Its client starts connected; the boot is `Client`'s subject.
- **PubSub** — one subscription. `receive()` is fibre `Recv`; `loop` says where
  it is. `RecvForces` is the `InvalidStateError` path that sets `forceReconnect`,
  `RecvReconnected` and `RecvResubscribed` are its finally block, `RecvIgnores` an
  array that is no message, `RecvBreaks` the `BadResource` path, `RecvThrows`
  everything else (`"refused"`: an error reply). Channels stand for
  patterns as well, which the code treats alike. The callers' `subscribe()`,
  `unsubscribe()` and ordinary commands run through the executor of the same
  client, so that two fibres read, and reconnect, at once; `moved` records that
  the executor has replaced the socket behind `receive()`'s back. `Record` is the
  continuation of `subscribe()`: in `Spec` it may come as late as it likes, in
  `PromptSpec` not after `receive()` has a new socket (section 5).
- **ConnectOptions** — the pure path from a URL to a handshake and a dial:
  `parseURL`, the constructor's defaults (`createRedisConnection`), `Handshake`,
  `parsePortLike`; and `exponentialBackoff` in arithmetic that is rounded,
  overflows to Infinity and makes NaN of 0 × Infinity. Its numbers are counted in
  fractions of `One`, so that a multiplier may be 0.5; a power is a product taken
  factor by factor and rounded each time.
- **LazyClient** — `createLazyClient(parseURL(url))`. `FirstExec` sets the
  executor and then awaits `connect()` in a fibre of its own (`Boot`), as
  `redis.ts:2381` does; `LaterExec` finds an executor and goes straight to it,
  whatever became of `connect()`; `FirstGoesOn` and `FirstFails` end the wait.
- **ReplyDecoder** — `readReply()` over bytes, `Symbols`. `Replies` are the
  replies there are, elements included, `Depth` says how deep each nests; `Safe`
  bounds integers and sizes: a double holds them exactly and `new Array()` takes
  them; `NaN` is what `parseInt()` makes of a line without digits. `Fill` is a `read()` that returns
  any prefix of what is under way, `Ended` one that says done; `Peek`,
  `ReadSimple`, `ReadBulkSize`, `ReadBulk`, `ReadArraySize` are the calls of
  `StreamBuffer` in their order, and `ArrayDone` the end of the loop of
  `readArrayReplyBody()`. `Encode` is a server's encoding, `ValueOf` the value a
  caller should get: `DecodesWhatWasSent` relates the two.
- **CommandTypes**, **CommandMethods** — two tables with one line per method:
  the parameters each overload of `command.ts` declares (required in order,
  optional), and the parts of the request each method of `redis.ts` puts
  together, with the condition of every `if`. An argument stands for itself: a
  value has no characters, only a name, a place in its list, and whether it is
  falsy or has more bytes than characters.
- **MethodCall** — one call: `BuildRequest` interprets the table,
  `WriteRequest` is `_writeCommand()`: it drops undefined arguments, announces
  the count and each length.
- **StreamReplies** — a server with one stream and one group, a reader that goes
  through the stream with `xread()`, a worker that uses `xreadgroup()`,
  `xack()`, `xclaim()` and may crash, and every conversion of `stream.ts` and of
  the `x*` methods applied to that server's replies. An id is a pair of
  integers, and a text or a parsed pair on the client's side; the integers that
  a double cannot hold are those above `Safe`.

## 3. The runs

| run | configuration | shows |
|---|---|---|
| `client` | 2 commands, 3 sockets, AUTH+SELECT, 2 retries; error replies to AUTH, SELECT, PING and a command | the safety properties of executor and connection together |
| `client_live` | 2 commands, 2 sockets, SELECT, 1 retry, fair | every command settles; the client implements `CommandQueue`, its liveness included |
| `transaction` | MULTI, body, EXEC; no retries | the body never leaves its transaction; nothing runs twice |
| `pipeline` | executor command, pipeline, transaction of two commands flushed from two places; any two of these, one after the other or at once; 2 sockets, a link that fails, fair | a command runs once at most, and in its MULTI unless two transactions overlap; where nothing overlaps: results at their places, all or nothing of a transaction, no foreign reply, every flush ends |
| `pubsub` | two SUBSCRIBEs on two channels, an UNSUBSCRIBE, an ordinary command (any two of these), two messages, 2 sockets, a link that fails; `PromptSpec` (section 5) | order, the subscriptions restored before the loop reads, whichever is under way when the socket changes; a live stream is left locked only until it is closed, or by an error reply; chunks that end inside a message |
| `lazy` | 2 commands, 1152 URLs, 24 backoffs; 2 sockets, SELECT, 1 retry, fair | the first command waits and all settle; the handshake is the URL's; the delays |
| `reply_decoder` | 15 replies of every type, nested, with sizes of one and two digits; alone or with a second reply behind; every chunking; every place the stream may end | the reply that was sent and all of its bytes; what becomes of those that follow |
| `requests` | every method of `command.ts`, every combination of its optional parameters, lists of 0 to 2 elements, one falsy argument | the framing and the contents of every request |
| `streams` | 3 ids (one beyond a double), 2 bodies, COUNT 1 and 2, one crash, two orders of fields; fair | reading, acknowledging, claiming, recovering, the XINFO and XPENDING replies |

Three more runs refute what the repository says of itself: section 6.

The properties (besides `Client`'s type invariant, which is not inductive by
itself: that `retryCount` stays below `maxRetryCount` depends on the rest):

- `NoForeignReply` — no promise is fulfilled with another command's reply. Needs
  every failure path to leave the socket dead or empty.
- `AnsweredIffExecuted` — an answered command ran; a refused one never does.
- `DuplicatesNeedRetries` — a command runs at most once more per reconnection
  its own failure caused. `NoRetryIfDisabled`: at most once without retries.
- `RetryOnlyOnDeadSocket` — when `dequeue()` asks for a reconnection, the socket
  of the failed attempt is dead, so its late reply can reach nobody.
- `NoSocketLeak`, `DialBudget`, `CommandsAfterHandshake`, `NoStrandedCommand` —
  the connection's and the queue's bookkeeping across failures.
- `SettledOnceInOrder` — action property: only the head settles, once.
- `EveryCommandSettles`, `ImplementsCommandQueue`, `EveryFlushSettles`,
  `EveryCallSettles` — liveness and refinement.
- `EachCommandOnce` — a command of a pipeline runs at most once, whatever overlaps
  and fails: also when `flush()` is called again during a `flush()`. `TxIsAtomic` — a
  command of a transaction never runs outside its MULTI, whatever the executor,
  other pipelines and reconnections do in between, unless two transactions are
  flushed at once; and while nothing overlaps, all of them run or none.
- `ResultsMatchCommands`, `NoForeignReply` (in `PipelineClient`) — whose reply is
  whose, while no `flush()` has overlapped with another or with the executor. When
  they do, replies reach the wrong side (section 6): nothing is claimed then.
- `BodyStaysInTransaction` — with retries disabled; with retries it fails.
- `DeliveredInOrder`, `SubscriptionsSurviveReconnect` (unless the executor moved
  the socket), `LiveLockIsGivenUp` — subscriptions. `receive()` keeps its reader
  when `readReply()` throws, on a live socket as well, after a chunk that ended
  inside a message. The last one says that it closes that socket before it goes on,
  through the PING that fails on its own lock; an error reply, which ends the loop
  and leaves the lock for good, is the exception.
- `OwnReplyInTurn`, `HandshakeFirstInTurn` — lazy client, for callers who wait
  for the first command; for others they fail, `overtaken` tells them apart.
- `HandshakeOfTheURL`, `DelaysFollowTheOptions` — options. The delays never shrink
  with a multiplier of 1 or more, and never grow with one of 1 or less.
- `DecodesWhatWasSent`, `NeverWaitsForMore`, `TornOnlyInLastLine` — decoder. The
  first says what becomes of every byte that follows the reply as well: those that
  came in its last chunk are dropped with the `StreamBuffer`, the others are on the
  socket.
- `WellFramed`, `ArgumentsArrive`, `ArgumentsInOrder`, `CallsToldApart` —
  requests; the last one holds every request against every other one that
  starts with the same word: a slip such as an option word copied from the line
  above makes two calls look alike.
- `EveryEntryOnce`, `HeldIsPending`, `HistoryRecovers` — what the ids are for,
  across calls and a crash; `EntriesArrive`, `InfoByName`, `ThrowsOnlyFor` — the
  conversions against the server's state, with the fields of a map shifted.

`CHECK_DEADLOCK FALSE` is set where the modelled callers run out of things to
do. In `client` and `client_live` the deadlock check stays on: `Finished` is the
only way to stop, and it requires that every command has settled. It also stays
on in `streams`, where the worker can always read its history.

## 4. Fairness and bounds

**Fairness.** `WF(Fibre)`, and in `LazyClient` `WF(BootFibre)` and
`WF(MuxFibre)`: the event loop eventually runs a chain of awaits that is not
blocked; it serves every fibre, so each has a condition of its own.
`WF(link up /\ Exchange(s))`: a server that is connected answers. No fairness is
assumed for callers, `close()` or link failures. A link that is cut is
eventually noticed, because the read under way ends: a peer that
disappears without FIN or RST is outside this assumption (the code has no
timeout; `hazards`). Dials either succeed or fail; they do not hang. In
`StreamReplies` the fairness is that of the worker the README of the repository
shows, which goes on reading what it has pending and acknowledging what it
holds; the group, the other consumer and the crashes are not fair.

**Bounds.**

- `MaxSockets` bounds how often the server accepts a connection, not how often
  the client dials: further dials are refused, which is also how the retry
  budget runs out. Two commands are enough for one to be queued behind the
  other and to meet its leftovers; three sockets allow a reconnection, a failure
  in its handshake, and another one. Callers issue each command once: a command
  stands for one call of `exec()`. For the client's safety properties these
  bounds do not matter: they are proved for all values.
- `Wire`: `MaxPieces` = 1 in every run: what a chunk has left of a reply comes in
  one more read, so a read may start inside a reply once and be done with it; a
  second piece is met like the first. The proofs hold for any `MaxPieces`.
- `PipelineClient`: `MaxCalls` = 2 activities on the connection, of a plain pipeline,
  two calls for the same transaction and a command of the executor: every pair of
  them overlaps in every way. `MCView` leaves out histories that no property of the
  run reads and, once something has overlapped, whose reply a reply is: the
  properties claim nothing about that then, and no guard depends on it.
- `PubSub`: `MaxCuts`, `MaxCalls` and `Resubs` bound the links that fail, the
  commands of the callers and the subscriptions `receive()` issues. A link
  fails once in `pubsub`: the executor and `receive()` both meet that failure, and
  `receive()` also reconnects when it reads a reply that is none of its own, so the
  one socket that is left may fail while it subscribes again. `MCView` leaves out
  what a promise settled with beyond success or failure, the error and the number
  of dials of a `connect()`, how often an acknowledged request ran, and `sent`,
  which only `NoMessageLost` reads: no guard and no property of these runs reads
  more. The two messages are published on one channel and are alike (`MCAlike`).
- `ReplyDecoder`: the set of replies has each type alone, a payload with CRLF
  inside, empty and nil ones, arrays in arrays, an error inside an array, a string
  and an array of ten, whose size has two digits: cut between them it reads as 1.
  The proofs hold for all replies.
- `MethodCall`: lists have up to `MaxList` = 2 elements: none, one, and a second
  that could be lost or swapped with the first. At most one argument is falsy at
  a time, since every condition in `redis.ts` looks at one for its truth.
- `StreamReplies`: `Safe = 3` stands for 2^53 - 1, and one of the ids lies beyond
  it. `MaxCount` = 2 lets a reader take fewer entries than there are, `MaxTaken`
  bounds its history, one crash is enough to lose what is held. `Orders` = {0, 3}
  rotates the fields of a map: not at all, and so that the first of them come last.
- `LazyClient`: `Huge` and `Inf` stand for the greatest double and Infinity, `One` = 2
  counts in halves: the multipliers are 0, 0.5, 1 and 1.5, and twelve attempts
  reach Infinity with the last and 0 with 0.5. The first command, one
  behind it and two sockets let both fibres dial.

## 5. What is proved

All theorems hold for any set of commands and requests, any handshake, any
`maxRetryCount`, any number of sockets and any behaviour of server, network and
callers that the specification allows.

| theorem | module | statement |
|---|---|---|
| `Invariance` | ClientProofs | `Spec => []IInv` |
| `TypeCorrect` | ClientProofs | `Spec => []TypeOK` |
| `OwnReply` | ClientProofs | `Spec => []NoForeignReply` |
| `NothingStranded` | ClientProofs | `Spec => []NoStrandedCommand` |
| `BoundedDials` | ClientProofs | `Spec => []DialBudget` |
| `NoLeak` | ClientProofs | `Spec => []NoSocketLeak` |
| `HandshakeFirst` | ClientProofs | `Spec => []CommandsAfterHandshake` |
| `History` | ClientProofs | `Spec => []HInv` |
| `RetryNeedsDeadSocket` | ClientProofs | `Spec => []RetryOnlyOnDeadSocket` |
| `BoundedDuplicates` | ClientProofs | `Spec => []DuplicatesNeedRetries` |
| `NoDuplicates` | ClientProofs | `Spec => []NoRetryIfDisabled` |
| `AnswersAreExecuted` | ClientProofs | `Spec => []AnsweredIffExecuted` |
| `InOrder` | ClientProofs | `Spec => SettledOnceInOrder` |
| `ImplementsQueue` | ClientProofs | the initial states of `Client` are those of `CommandQueue`, each step one of its steps or a stutter |
| `TransactionIsAtomic` | TransactionProofs | `MaxRetryCount = 0` implies `TSpec => []BodyStaysInTransaction` |
| `PipelinesTakeTurns` | PipelineProofs | `Spec => [](overlapped \/ PipeInv)` |
| `PipelineResultsMatch` | PipelineProofs | `Spec => []ResultsMatchCommands` |
| `PipelineNoForeignReply` | PipelineProofs | `Spec => []NoForeignReply` |
| `CommandsRunOnce` | PipelineProofs | `Spec => []EachCommandOnce`, whatever overlaps |
| `ReceiveInvariance` | PubSubProofs | `Spec => []SubInv` |
| `ReceivesInOrder` | PubSubProofs | `Spec => []DeliveredInOrder` |
| `LocksInvariance` | PubSubProofs | `Spec => []LockInv` |
| `LiveLocksGivenUp` | PubSubProofs | `Spec => []LiveLockIsGivenUp` |
| `PromptInvariance` | PubSubProofs | `PromptSpec => [](SubInv /\ LockInv /\ RestoreInv)` |
| `SubscriptionsRestored` | PubSubProofs | `PromptSpec => []SubscriptionsSurviveReconnect` |
| `OneSubscriptionRestored` | PubSubProofs | `OneSubscribe` implies `Spec => []SubscriptionsSurviveReconnect` |
| `LazyTakesTurns` | LazyProofs | `Spec => []LazyInv` |
| `LazyOwnReply` | LazyProofs | `Spec => []OwnReplyInTurn` |
| `LazyHandshakeFirst` | LazyProofs | `Spec => []HandshakeFirstInTurn` |
| `URLReachesServer` | LazyProofs | `Spec => []HandshakeOfTheURL`, for any URLs |
| `DelaysAreAsConfigured` | LazyProofs | `Spec => []DelaysFollowTheOptions`, for any options that are not negative and any number of attempts |
| `WorkerHoldsWhatIsPending` | StreamProofs | `Spec => []HeldIsPending`, for any ids, entries and counts |
| `ReaderTakesEveryEntryOnce` | StreamProofs | `Spec => []EveryEntryOnce`, for any ids, entries and counts |
| `ReplyTypes` | StreamProofs | `Spec => []ReplyInv` |
| `DecoderInvariance` | DecoderProofs | `Spec => []IInv` |
| `DecodedAsSent` | DecoderProofs | `Spec => []DecodesWhatWasSent`, for replies of any length and depth |
| `NeverWaits` | DecoderProofs | `Spec => []NeverWaitsForMore`, for the same |
| `TornAtTheEndOnly` | DecoderProofs | `Spec => []TornOnlyInLastLine`, for the same |
| `EntriesComeComplete` | StreamProofs | `Spec => []EntriesArrive`, for any ids, bodies and counts |
| `InfoFoundByName` | StreamProofs | `Spec => []InfoByName`, for any ids, bodies and shifts of the fields |
| `ThrowsOnlyForThose` | StreamProofs | `Spec => []ThrowsOnlyFor`, for any ids and bodies |

So every safety property of the runs `client`, `transaction`, `pubsub`,
`lazy`, `reply_decoder` and `streams` is a theorem, and of the run `pipeline` all but
`TxIsAtomic`. `OneSubscribe`
says that the callers issue one SUBSCRIBE; `receive()` may issue any number.

**Assumptions.** The named `ASSUME`s: at least one socket; commands are requests
and none has the name of an exception; AUTH, SELECT, SETNAME and PING are
requests that no caller makes; `None` is neither a fibre nor an outcome; the
executor's fibre is none of `Receivers`, those that keep their reader locked on
an error. For subscriptions: there are finitely many channels, messages have
other names than requests, `None` is no set of channels, and no command is two of
SUBSCRIBE, UNSUBSCRIBE and the SUBSCRIBE of `receive()`. For URLs: `new URL()` gives texts, a port is a number
or empty, and the texts that name numbers name integers. For delays: the options are numbers that
are not negative, up to the greatest double (the minimum) or Infinity. For streams: ids are pairs of naturals, an entry holds a
value for each name, an XINFO reply is shifted by at most four fields (the fewest
that one has), the worker is not the other consumer, and the greatest exact integer
is 3 modulo 4, as 2^53 - 1 is. For the decoder (`ReplyAssumption`): every reply is
of finite depth, a line holds neither CR nor LF, integers and sizes are within
`Safe`; NaN is no integer.
The naming assumptions are about the model values only.

**The inductive invariant: whose turn it is.** None of the properties is
inductive alone, and not even `TypeOK` is. That a reply is the caller's own
depends on what is on the wire when the call starts, which depends on how the
last call ended, which depends on who else reads. `TurnProofs` says what holds as
long as one fibre at a time is inside `sendCommand()`, `connect()` or
`reconnect()`. `InTurn(f)`, it is `f`'s turn, is the conjunction of:

- `Others` — every other fibre rests: it makes no call and dials nothing;
- `CallOf` — a call under way has a socket and a request, a finished one a
  result;
- `TaskOf` — in each state of `connect()` and `reconnect()`, which request the
  fibre waits for;
- `BudgetOf` — the shared `retryCount` counts the dials of the one `connect()`
  that runs;
- `SocketsOf` — only the current socket is open, none while about to dial;
- `LocksOf` — only the fibre's own call holds a lock, and of the socket it uses;
- `WireOf` — the heart: an open socket carries at most one request *or* one
  reply, that of the call under way, and nothing between two calls;
- `QueueWorks` — `isProcessing` iff the queue holds a command; outside of a
  reconnection the executor's call is the head's;
- `OwnReplies`, `ErrorsOf` — promises settle with their own reply, and the error
  a failed `connect()` passes on is no caller's reply.

Each step of a call, of `connect()`, of `reconnect()` and of the executor keeps
`InTurn(f)` for the fibre `f` that takes it: one lemma per action, which hold for
every client. Three clients use them, and each adds who hands the turn to whom:

- `IInv` (`Client`): the one fibre always has the turn, and before the client
  exists only `connect()` is at work (`PhaseShape`);
- `PipeInv` (`PipelineClient`): the turn is the executor's while its queue holds
  a command, and else may pass to any `flush()` (`OneTurn`); pipelines never
  dial, and a `flush()` waits for the first request without a result
  (`Progress`). It holds until something overlaps, and nothing is claimed of whose
  reply is whose from there on;
- `LazyInv` (`LazyClient`): until the first `connect()` has returned the turn is
  its fibre's, although the executor exists already; then it is the executor's
  (`Waits`). Nothing is claimed once a caller has overtaken the first command.

**What happened, and how often.** `HInv` adds to `IInv` what relates a state to
the past:

- `SendShape` — every call is made on the current socket, and one that ended
  with an exception that is retried has found its socket dead;
- `OrderShape` — the queue holds each command once, and no settled one;
- `CopiesShape` — the accounts: executions of a command, plus its copies still
  on the way to a server, plus one if it may still be sent, are at most one more
  than the reconnections it has caused. The copies must be counted, for a server
  may execute what it received on a socket that the client has given up;
- `AnswerShape` — a reply on the wire or in hand means an execution; a refused
  command has no copy anywhere.

`ImplementsQueue` follows step by step: what callers see of a step is that of
the queue's `Submit`, `Refuse` or `Settle`, or nothing.

**Once, whatever overlaps.** `CommandsRunOnce` assumes no turns, so it cannot use
`InTurn`: any fibre may read any reply. `OnceInv` follows a command of a pipeline
instead of the replies. It is in one place at most (`Placed`): waiting in its
pipeline, or at one place of the list of one `flush()`. It has been handed to a
socket (`Sent`) when its `flush()` is past its place, or at it with the write done
(`Reached`, `Handed`): a `flush()` never goes back. And the server has it at most once
(`Arrived`): on its way to one socket, or waiting inside the MULTI of one, or
executed, and not without having been sent. The executor writes none of them
(`MuxWrites`).

**Transactions.** `TInv` adds to `HInv` that without retries there is only one
socket (`OneSocket`), that the caller takes its turns (`Turns`), and that the
server is inside the transaction from the execution of MULTI to that of EXEC,
which cannot come while a copy of the body is on its way (`Inside`). The last is
why `CopiesShape` is needed: a body whose reply was lost may still be executed.

**Subscriptions.** `receive()` and the executor take no turns: both read the same
stream, and both reconnect. Replies may land in either fibre, so what is
left to prove is what holds whoever reads. `SubInv` has two parts:

- `SocketShape` — a socket that `receive()` goes on reading after another one was
  dialled, or that the executor is about to replace, is `Clean`: it has no
  subscription, no message on it and no command on its way to it, so all messages
  come from the current socket. For the executor closes the current socket before
  it dials; if `receive()` dials another one in the meantime, that one carries
  nothing but a handshake, since only the executor sends commands and it is
  dialling;
- `OrderShape` — what is published is published once; the messages on the current
  socket are in the order of publication and later than the one `receive()`
  holds, which is later than those it has yielded.

`LockInv` adds where `receive()` may be when the connection's own stream is locked by
a reader that it does not read with (`LocksLeft`): the stream is dead, an error reply
has ended the loop, an error of `readReply()` is in its hands, or its `reconnect()` is at
the PING, which writes on the current socket and then cannot get the reader
(`Pinging`). That the loop cannot leave that PING with an answer, nor the executor dial a
socket with the lock still on it, needs that only the loop reads without a request
(`RecvShape`), that a socket which was never open has no reader (`UsedShape`), and that
a connection which says it is closed has closed its socket (`ClosedShape`).

`RestoreInv` follows the channels to the new socket. `Covered[s]` is what socket `s`
has on the server, or is about to get, or what an UNSUBSCRIBE gave up; of a socket
that nobody can read any more nothing is missing. Unless the executor has moved the
socket:

- `OneSocket` — only the current socket is open, and not that while `receive()`
  dials;
- `InFlight` — the channels of the SUBSCRIBE in hand are covered on its socket from
  the moment its request is written, and on the current one when its answer is there:
  an answer is read from an open socket, and only one is open;
- `Acked` — so are those of a SUBSCRIBE that was answered and not noted yet;
- `ChannelsThere` — `channels` is covered while `receive()` reads or is suspended; and
  while the SUBSCRIBE of its finally block is under way, all but the channels that
  this one names (`IssueShape`: there is one at a time).

A new socket starts with nothing, so the dial of `receive()` is where this could
break. `ChannelsThere` asks for nothing while it reconnects; what is in hand was
written to the old socket. But a SUBSCRIBE that was answered on the old socket and is
not noted yet would be noted afterwards, and never asked for again: with two
SUBSCRIBEs and `Spec`, TLC finds that. In the program it cannot happen: from
the bytes of the acknowledgement to the note there are only continuations of
promises (`reply.ts`, `executor.ts:84`, `pubsub.ts:60`), which the event loop runs
before it completes the next `Deno.connect()`. `Prompt` says that and no more:
a step in which `receive()` changes the socket finds no SUBSCRIBE of a caller that is
answered and not noted. `SubscriptionsRestored` is about `PromptSpec`. With one
SUBSCRIBE nothing needs to be assumed (`OneSubscriptionRestored`): before it is
noted `receive()` has not started (`NotedInv`), so every behaviour of `Spec` is prompt
already (`OnePrompt`).

**URLs.** `SetupShape` says that the connection is the one its URL describes; the
rest is a lemma on the three optional parts of the handshake (`ThreeParts`).

**Induction without an induction theorem.** The library's induction theorems take
an operator as a parameter, which the provers cannot instantiate. `LazyProofs`, `StreamProofs`
and `DecoderProofs` get by with a set: if a subset of the naturals holds 0 and the
successor of each of its members, it is all of them, since the least number
outside of it would contradict this (`LeastCounterexample`, from the
well-foundedness of `<`). They use it with the set of the numbers for which a
lemma holds.

**Delays.** The powers of a multiplier of 1 or more never shrink until they are
Infinity, and stay there; those of one of 1 or less never grow. A product with a
positive minimum keeps that order, rounded or not, and the minimum with
`maxInterval` cuts it. With a minimum of 0 the product is 0, then NaN.

**Streams.** A set of ids has one sequence in its order (`InOrderIs`), what the
server gives after an id leaves no entry out before its last one (`FollowingIs`),
and the conversions give an xid for each entry, which is sent back as the same id
as long as a double holds it (`RoundTrip`, `SentBack`). `WorkerInv` adds to
`HeldIsPending` that a pending entry was added once and does not come after the
last delivered id (`ServerTypes`): a new delivery is none that is pending already.
`ReaderInv` adds to `EveryEntryOnce` that the next read goes on after the last
entry taken, which is one that was added: later entries come after it.

**Loops.** What `FieldValues`, `convertMap` and `Pushed` compute is a recursive
function, which exists since each of its values stays in a set (`LoopExists`, from
`LeastCounterexample`). An invariant of each loop then says what it has made of the
elements it has passed: the last value of every name (`FieldValuesAre`), the value
behind the last text at an even place (`MapHolds`), all the elements or none
(`PushedAll`, `PushedNone`). A field that has a name of its own is found wherever the
shift has put it (`FieldFound`), and one lemma per reply names its fields.
`ReplyInv` joins the two invariants above with what makes a reply well formed: the
server's maps are functions and every entry is one of the bodies (`Contents`).

**The decoder.** `Numeral`, `Encode`, `ValueOf`, `Inside` and `LastLine` are
recursive functions. That they satisfy their equations is shown by induction: over
a number for the first (`NumeralIs`), over the depth of a reply for the others, all
four at once (`RepliesAre`). Then `parseInt()` reads a numeral back (`ReadsBack`),
and makes of a beginning of one no number, or one that is 0 only if the whole is
(`TornNumber`), so that a size that was cut is never that of an empty reply;
`readLine()` finds the end of a line exactly at its end (`LineFound`). The
invariant, `IInv`, relates the decoder's stack to the reply that was sent through a
sequence `fr`, ghost of the stack: for each array on it, the array of the reply that
it stands for and the bytes behind that array (`Linked`). Either

- `Live` — every array is a beginning of its counterpart, and buffer, socket and the
  bytes that never arrive are together what is left from the decoder's place on; one
  case for each call of `StreamBuffer` (`AtPeek`, `AtLine`, `AtBody`, `AtCRLF`); or
- `Drained` — a line was taken although the stream ended in it: the buffer is empty
  and every further read throws, unless the array is complete, whose last element
  was then cut in its last line (`Excused`);

and, when `readReply()` has returned, `Final`, which has the two properties of its
result in it. `NeverWaitsForMore` follows from `Live`: what a call still lacks is
part of the reply (`StillComing`).

**Only model-checked.** `TxIsAtomic`; liveness, and the refinement with its fairness (temporal
reasoning with fairness is out of the prover's reach); and the requests of the
methods (`WellFramed`, `ArgumentsArrive`, `ArgumentsInOrder`, `CallsToldApart`), for
which TLC looks at every entry of the tables, with lists of up to `MaxList`
elements: the tables are joined with `@@` and the undefined items left out with
`SelectSeq`, two operators of which the prover knows no definition.

## 6. Findings

Each of the first three is a run whose only property states what the repository
says, and a counterexample that the code allows.

- `use_after_close` — `close()` during a reconnection is undone when the dial
  succeeds (`connection.ts:129`); `exec()` accepts commands again
  (`connection_test.ts:109` says they fail).
- `transaction_retry` — after a reconnection inside MULTI the retried command
  runs at once, outside the transaction (`README.md:209` says atomically).
- `pubsub_lost` — a message in the same chunk as the reply before it is dropped
  with that reply's buffer (`reply.ts:121`; `pubsub_test.ts:151` expects all).

Other differences that appeared while modelling. They are part of the models;
the properties say where they make an exception for them.

- *Connection.* `executor.ts:29` takes `isClosed` for "explicitly closed", but
  `reconnect()` sets it too, and a failed reconnection leaves it set: the
  commands behind the failed one are rejected without a retry though nobody
  closed. `reconnect()` sets `isConnected` after its PING (`connection.ts:180`)
  although `close()` came in between: closed and connected at once.
- *Pipelines.* Another caller's command runs between two commands of a
  `flush()`; the README's comment says atomically (`README.md:166`). `flush()` and the
  executor, or two `flush()`, share the streams without a queue: when they overlap,
  one of them throws on a locked stream (which the comment at `command.ts:90` means
  to avoid), or takes the other's reply. A `flush()` of a transaction that throws in
  its middle leaves the socket inside MULTI: later commands are queued instead of
  executed, and the EXEC of a second `flush()` then executes a part of the first
  transaction. `TxIsAtomic` makes its exceptions for these.
- *Subscriptions.* When the executor reconnects while `receive()` is suspended at
  a yield, the new socket has no subscription and `receive()` waits for ever. A
  chunk that ends inside a message makes the next `readReply()` throw on a socket
  that is well (`reply.ts:146`); `receive()` then reconnects, and what was published
  in between is lost. A reader that failed stays locked (`pubsub.ts:95`): after such
  an error until `reconnect()` has closed the socket, after an error reply for good. When callers use the client of a running
  `receive()`, the acknowledgement of a second subscription may be taken by the
  wrong fibre.
- *Lazy client.* A command issued while the first one connects fails on
  undefined streams or overtakes the handshake; when `connect()` fails, the
  executor stays and never connects again by itself. An invalid port throws
  inside the `try` of `connect()` and is retried with backoff.
- *Decoder.* A status or an integer cut by the end of the stream is returned as
  whole. An error element inside an array (EXEC of a command that failed)
  throws and leaves the rest of the array on the stream. The executor rejects
  the command and keeps the socket: bytes that arrive later answer the next
  command.
- *Requests.* Options tested for their truth drop a zero or an empty text: COUNT
  0 and BLOCK 0 of XREAD and XREADGROUP (which then do not block), IDLE, TIME
  and RETRYCOUNT 0 of XCLAIM, COUNT 0 of XRANGE, ID 0 of CLIENT KILL, REDIRECT 0
  of CLIENT TRACKING, MINMATCHLEN 0 of STRALGO, PING with "". SET sends no PX
  beside EX. GEORADIUS and GEORADIUSBYMEMBER send the values of COUNT, STORE and
  STOREDIST without these words (`redis.ts:756-782`). BITFIELD sends OVERFLOW
  after INCRBY, SORT one GET before several patterns, REPLICAOF and SLAVEOF "NO
  ONE" as one argument. `clientKill()` declares its options optional
  (`command.ts:1066`) and reads them (`redis.ts:369`). `_writeCommand()` counts
  the characters of a command's name but sends its bytes.
- *Stream replies.* A history with a deleted entry, XINFO STREAM of an empty
  stream and XPENDING of a group that waits for nothing throw; fields with an
  empty name are dropped; ids beyond 2^53 come back as other ids. In a pipeline
  the conversions of the `x*` methods meet the placeholder "OK" and reject.
  An entry field named `__proto__` is lost: the fields go into a plain object
  (`stream.ts:213`), where the model has a map.
- *Options.* `README.md:384` shows `backoff` as an object; the code calls it. With a
  multiplier below 1 the delays fall under the "minimum backoff interval" of
  `backoff.ts:19`.
  User and password of a URL stay percent-encoded.

## 7. What is not modelled

- TLS, logging, the silence of a peer that is gone (no timeout exists), and the
  time that passes: a delay between two dials is arbitrary in `Connection`, its
  length is `ConnectOptions`' subject.
- Negative options of a backoff. The powers are rounded factor by factor, `**` rounds
  once: the order of the delays does not depend on it.
- What a read finds that starts in the middle of a reply is any outcome that its
  first byte allows but two: the beginning of an array, or a size without digits,
  which would have to be part of a payload (`Fragments`).
- The contents of payloads. The client models know replies by the request they
  answer, the requests by the argument's name; only the decoder has bytes.
- An array reply with an error inside, outside of `ReplyDecoder`: `Wire` lets a
  server send one reply per request that the decoder takes whole, so
  `NoForeignReply` is about servers that send no such array.
- What the accessors of a reply (`value()`, `string()`, `buffer()`, ...) and the
  plain casts of the command methods make of it; only the conversions of stream
  replies are modelled.
- `return()` on the iterator of `receive()`: a consumer asks for the next
  message or stops.
- What `new URL()` does, and the servers: external, modelled from the way the
  code uses them.
- Tests, examples, docker and build files, which hold no logic of the program.

## 8. Plan

Done: the connection and the executor with their proofs and the refinement of
`CommandQueue`; transactions; pipelines; subscriptions beside a busy executor;
the lazy client; the decoder; the requests of every method; stream replies;
backoff and URLs. Proved: all safety properties of the executor, of transactions,
of pipelines (but `TxIsAtomic`) and of lazy clients, of the decoder, of the stream
replies, and of `receive()`.

Left, in the order of what they would add:

1. Arrays with an error inside in `Wire`, and with them the weaker form of
   `NoForeignReply` that the code keeps.
2. A proof of `TxIsAtomic`: `OnceInv` with what each socket has of a transaction.
3. Several `receive()` loops on one client, and `return()` of their iterators.
