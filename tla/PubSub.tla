------------------------------- MODULE PubSub -------------------------------
(***************************************************************************)
(* pubsub.ts: one subscription of a client.  subscribe() and unsubscribe() *)
(* are commands of the client's executor; receive() is a second fibre,     *)
(* Recv, that reads the connection's stream itself, reconnects by itself   *)
(* and then subscribes again through the executor.  Channels stand for     *)
(* channels and patterns, which the code treats alike.                     *)
(***************************************************************************)
EXTENDS MuxExecutor, FiniteSets

CONSTANTS
    Recv,        \* the fibre of receive()
    Channels,
    Messages,    \* what publishers send, each once
    ChannelOf,   \* the channel each message is published to
    Adds,        \* the callers' SUBSCRIBE commands and the channels they name
    Drops,       \* the callers' UNSUBSCRIBE commands and theirs
    Resubs,      \* bound: the SUBSCRIBE commands receive() itself may issue
    MaxCuts,     \* bound: how many links fail
    MaxCalls,    \* bound: how many of their commands the callers issue
    TalksWhileReceiving   \* FALSE: callers use the client for nothing else
                          \* while receive() runs

Subscribes == DOMAIN Adds
Unsubscribes == DOMAIN Drops
CallerCommands == Commands \ Resubs

ASSUME PubSubAssumption ==
    /\ Recv \in Receivers /\ Recv # Mux /\ None \notin Requests
    /\ Messages \subseteq Requests \ (Commands \cup {"AUTH", "SELECT", "SETNAME", "PING"})
    /\ IsFiniteSet(Channels) /\ (\A C \in SUBSET Channels : C # None)
    /\ ChannelOf \in [Messages -> Channels]
    /\ Subscribes \cup Unsubscribes \cup Resubs \subseteq Commands
    /\ Subscribes \cap Unsubscribes = {} /\ (Subscribes \cup Unsubscribes) \cap Resubs = {}
    /\ Adds \in [Subscribes -> SUBSET Channels]
    /\ Drops \in [Unsubscribes -> SUBSET Channels]
    /\ MaxCuts \in Nat /\ MaxCalls \in Nat
    /\ TalksWhileReceiving \in BOOLEAN

VARIABLES
    channels,    \* this.channels and this.patterns
    recorded,    \* the subscribe()/unsubscribe() calls that have returned
    loop,        \* where receive() is
    resub,       \* the channels each command of Resubs names
    subs,        \* the server: the channels each socket is subscribed to
    published,   \* history: the messages published, in order
    sent,        \* history: the sockets a message was sent to while receive() ran
    yielded,     \* history: the messages receive() has yielded, in order
    moved        \* history: the executor has dialled a socket of its own

subVars == <<channels, recorded, loop, resub, subs, published, sent, yielded, moved>>
vars == <<wireVars, connVars, muxVars, subVars>>

\* Reading the stream; suspended at a yield; in reconnect(); in the subscribe()
\* of its finally block; over, by its loop condition, by an error reply, or by another
\* exception.
LoopStates == {"off", "reading", "suspended", "reconnecting", "resubscribing",
               "ended", "refused", "thrown"}

\* The client of redis.ts connect(): the first socket is up.
Init ==
    /\ MuxInit
    /\ rid = [s \in Sockets |-> IF s = 1 THEN "open" ELSE "unused"]
    /\ link = [s \in Sockets |-> "up"]
    /\ out = [s \in Sockets |-> <<>>] /\ inb = [s \in Sockets |-> <<>>]
    /\ wlock = [s \in Sockets |-> None] /\ rlock = [s \in Sockets |-> None]
    /\ call = [f \in Fibers |-> NoCall] /\ runs = [c \in Commands |-> 0]
    /\ cur = 1 /\ isClosed = FALSE /\ isConnected = TRUE /\ retryCount = 0
    /\ task = [f \in Fibers |-> NoTask]
    /\ channels = {} /\ recorded = {} /\ loop = "off"
    /\ resub = [c \in Resubs |-> None]
    /\ subs = [s \in Sockets |-> {}]
    /\ published = <<>> /\ sent = [m \in Messages |-> {}] /\ yielded = <<>>
    /\ moved = FALSE

\* receive() is under way.
Receiving == loop \in {"reading", "suspended", "reconnecting", "resubscribing"}

-----------------------------------------------------------------------------
(* The server.                                                             *)

Names(r) == CASE r \in Subscribes -> Adds[r]
              [] r \in Unsubscribes -> Drops[r]
              [] r \in Resubs /\ resub[r] # None -> resub[r]
              [] OTHER -> {}

IsSubscription(r) == r \in Subscribes \cup Unsubscribes \cup Resubs

\* One acknowledgement per channel named; any other command of a caller is an
\* error while the socket is subscribed to something.
Acknowledge(s, r) ==
    IF IsSubscription(r) THEN [i \in 1 .. Cardinality(Names(r)) |-> Value(r)]
    ELSE IF subs[s] # {} /\ r # "PING" THEN <<ErrorReply(r)>> ELSE <<Value(r)>>

Serve(s) ==
    LET r == Head(out[s]) IN
    /\ out[s] # <<>>
    /\ out' = [out EXCEPT ![s] = Tail(@)]
    /\ runs' = [c \in Commands |-> IF c = r THEN runs[c] + 1 ELSE runs[c]]
    /\ inb' = IF link[s] = "up" /\ rid[s] = "open"
              THEN [inb EXCEPT ![s] = @ \o Acknowledge(s, r)] ELSE inb
    /\ subs' = [subs EXCEPT ![s] = IF r \in Unsubscribes THEN @ \ Names(r)
                                                        ELSE @ \cup Names(r)]
    /\ UNCHANGED <<rid, link, wlock, rlock, call, connVars, muxVars,
                   channels, recorded, loop, resub, published, sent, yielded, moved>>

\* A publisher's message goes to every socket subscribed to its channel.
Publish(m) ==
    /\ \A i \in DOMAIN published : published[i] # m
    /\ published' = Append(published, m)
    /\ LET to == {s \in Sockets : rid[s] = "open" /\ link[s] = "up"
                                      /\ ChannelOf[m] \in subs[s]}
       IN  /\ sent' = [sent EXCEPT ![m] = IF Receiving THEN to ELSE {}]
           /\ inb' = [s \in Sockets |-> IF s \in to THEN Append(inb[s], Value(m))
                                                      ELSE inb[s]]
    /\ UNCHANGED <<rid, link, out, wlock, rlock, call, runs, connVars, muxVars,
                   channels, recorded, loop, resub, subs, yielded, moved>>

Cut(s) ==
    /\ Cardinality({t \in Sockets : link[t] = "cut"}) < MaxCuts
    /\ LinkCut(s)
    /\ UNCHANGED <<connVars, muxVars, subVars>>

-----------------------------------------------------------------------------
(* The callers.                                                            *)

\* Slip: subscribe() notes the channels before they are acknowledged.
UserExec_NotesEarly(c) ==
    /\ TalksWhileReceiving \/ loop \in {"off", "suspended"}
    /\ c \in Unsubscribes => recorded # {}
    /\ Cardinality({x \in CallerCommands : Issued(x)}) < MaxCalls
    /\ Exec(c) \/ ExecRefused(c)
    /\ channels' = IF c \in Subscribes THEN channels \cup Adds[c] ELSE channels
    /\ UNCHANGED <<recorded, loop, resub, subs, published, sent, yielded, moved>>

\* A caller issues a command: its own, or a subscribe(), or an unsubscribe() of
\* the subscription that the first subscribe() returned.
UserExec(c) ==
    /\ TalksWhileReceiving \/ loop \in {"off", "suspended"}
    /\ c \in Subscribes \cup Unsubscribes \/ TalksWhileReceiving
    /\ c \in Unsubscribes => recorded # {}
    /\ Cardinality({x \in CallerCommands : Issued(x)}) < MaxCalls
    /\ Exec(c) \/ ExecRefused(c)
    /\ UNCHANGED subVars

\* subscribe() and unsubscribe() note the channels when their command resolves.
Record(c) ==
    /\ c \in Subscribes \cup Unsubscribes /\ c \notin recorded
    /\ settled[c] # None /\ IsAnswer(settled[c])
    /\ recorded' = recorded \cup {c}
    /\ channels' = IF c \in Subscribes THEN channels \cup Adds[c] ELSE channels \ Drops[c]
    /\ UNCHANGED <<wireVars, connVars, muxVars, loop, resub, subs, published, sent, yielded, moved>>

UserClose ==
    /\ CloseNow
    /\ UNCHANGED <<link, out, wlock, rlock, call, runs, cur, retryCount, task, muxVars, subVars>>

-----------------------------------------------------------------------------
(* receive().                                                              *)

\* The loop condition, then getReader(): a TypeError when the stream is locked.
LoopTop ==
    IF ~ isConnected
    THEN loop' = "ended" /\ UNCHANGED <<call, rlock>>
    ELSE IF cur = NoSocket \/ rlock[cur] # None
    THEN loop' = "thrown" /\ UNCHANGED <<call, rlock>>
    ELSE /\ loop' = "reading"
         /\ rlock' = [rlock EXCEPT ![cur] = Recv]
         /\ call' = [call EXCEPT ![Recv] =
                       [st |-> "reading", sock |-> cur, req |-> None, res |-> None]]

\* The consumer asks for the first or the next message.
NextMessage ==
    /\ loop = "suspended" \/ (loop = "off" /\ recorded # {})
    /\ TalksWhileReceiving \/ queue = <<>>
    /\ LoopTop
    /\ UNCHANGED <<rid, link, out, inb, wlock, runs, connVars, muxVars,
                   channels, recorded, resub, subs, published, sent, yielded, moved>>

\* readReply() has returned or thrown in the loop.
Back == loop = "reading" /\ CallDone(Recv)

RecvMessage ==
    /\ Back /\ call[Recv].res.kind = "value" /\ call[Recv].res.of \in Messages
    /\ yielded' = Append(yielded, call[Recv].res.of)
    /\ loop' = "suspended"
    /\ EndCall(Recv)
    /\ UNCHANGED <<rid, link, out, inb, rlock, runs, connVars, muxVars,
                   channels, recorded, resub, subs, published, sent, moved>>

\* Requests of connect(): their replies are a status, never an array.
Handshakes == {"AUTH", "SELECT", "SETNAME"}

\* An array that is no message is ignored: an acknowledgement, the reply to PING on a
\* subscribed socket, or that of a caller's command.
RecvIgnores ==
    /\ Back /\ IsAnswer(call[Recv].res)
    /\ call[Recv].res.of \notin Messages \cup Handshakes
    /\ LoopTop
    /\ UNCHANGED <<rid, link, out, inb, wlock, runs, connVars, muxVars,
                   channels, recorded, resub, subs, published, sent, yielded, moved>>

\* Slip: the error is swallowed, and the loop goes on.
RecvForces_GoesOn ==
    /\ Back
    /\ \/ call[Recv].res = Fault("InvalidState")
       \/ call[Recv].res.kind = "torn"
       \/ /\ call[Recv].res.kind = "value"
          /\ call[Recv].res.of \notin Messages /\ ~ IsSubscription(call[Recv].res.of)
    /\ LoopTop
    /\ UNCHANGED <<rid, link, out, inb, wlock, runs, connVars, muxVars,
                   channels, recorded, resub, subs, published, sent, yielded, moved>>

\* A reply that is no array, or no reply at all where one should begin: an
\* InvalidStateError, which sets forceReconnect.  The finally block calls reconnect().
RecvForces ==
    /\ Back
    /\ \/ call[Recv].res = Fault("InvalidState")
       \/ call[Recv].res.kind = "torn"
       \/ /\ call[Recv].res.kind = "value"
          /\ call[Recv].res.of \notin Messages /\ ~ IsSubscription(call[Recv].res.of)
    /\ loop' = "reconnecting"
    /\ StartReconnect(Recv)
    /\ UNCHANGED <<cur, isClosed, isConnected, retryCount, rid, link, out, inb, rlock, runs,
                   muxVars, channels, recorded, resub, subs, published, sent, yielded, moved>>

\* The resource is closed: the loop closes the connection and breaks.
RecvBreaks ==
    /\ Back /\ call[Recv].res = Fault("BadResource")
    /\ CloseNow
    /\ loop' = "ended"
    /\ EndCall(Recv)
    /\ UNCHANGED <<link, out, rlock, runs, cur, retryCount, task, muxVars,
                   channels, recorded, resub, subs, published, sent, yielded, moved>>

\* Any other exception leaves the generator: EOF and ConnectionReset as well, and the
\* TypeError when a command's reply is the null array.
RecvThrows ==
    /\ Back
    /\ \/ call[Recv].res.kind = "errorReply"
       \/ call[Recv].res.kind = "fault" /\ call[Recv].res.of \notin {"InvalidState", "BadResource"}
       \/ call[Recv].res.kind = "value" /\ call[Recv].res.of \in CallerCommands
            /\ ~ IsSubscription(call[Recv].res.of)
    /\ loop' = IF call[Recv].res.kind = "errorReply" THEN "refused" ELSE "thrown"
    /\ EndCall(Recv)
    /\ UNCHANGED <<rid, link, out, inb, rlock, runs, connVars, muxVars,
                   channels, recorded, resub, subs, published, sent, yielded, moved>>

\* Slip: receive() reads on without subscribing again.
RecvReconnected_NoResubscribe ==
    /\ loop = "reconnecting" /\ task[Recv].pc = "ok"
    /\ task' = [task EXCEPT ![Recv] = NoTask]
    /\ LoopTop
    /\ UNCHANGED <<cur, isClosed, isConnected, retryCount, rid, link, out, inb, wlock, runs,
                   muxVars, channels, recorded, resub, subs, published, sent, yielded, moved>>

\* reconnect() resolved: subscribe again, through the executor, or go on.
RecvReconnected ==
    /\ loop = "reconnecting" /\ task[Recv].pc = "ok"
    /\ task' = [task EXCEPT ![Recv] = NoTask]
    /\ IF channels = {}
       THEN /\ LoopTop
            /\ UNCHANGED <<wlock, muxVars, resub>>
       ELSE /\ \E c \in Resubs :
                 /\ resub[c] = None /\ resub' = [resub EXCEPT ![c] = channels]
                 /\ IF isClosed
                    THEN /\ settled' = [settled EXCEPT ![c] = Fault("ConnectionClosed")]
                         /\ UNCHANGED <<queue, isProcessing, retries, call, wlock>>
                    ELSE /\ queue' = Append(queue, c)
                         /\ IF isProcessing THEN UNCHANGED <<isProcessing, call, wlock>>
                                            ELSE Dequeue(queue')
                         /\ UNCHANGED <<settled, retries>>
            /\ loop' = "resubscribing"
            /\ UNCHANGED rlock
    /\ UNCHANGED <<cur, isClosed, isConnected, retryCount, rid, link, out, inb, runs,
                   channels, recorded, subs, published, sent, yielded, moved>>

RecvReconnectFails ==
    /\ loop = "reconnecting" /\ task[Recv].pc = "failed"
    /\ task' = [task EXCEPT ![Recv] = NoTask]
    /\ loop' = "thrown"
    /\ UNCHANGED <<wireVars, cur, isClosed, isConnected, retryCount, muxVars,
                   channels, recorded, resub, subs, published, sent, yielded, moved>>

\* The SUBSCRIBE of the finally block has settled.
RecvResubscribed ==
    /\ loop = "resubscribing"
    /\ \E c \in Resubs :
         /\ resub[c] # None /\ c \notin recorded /\ settled[c] # None
         /\ recorded' = recorded \cup {c}
         /\ IF IsAnswer(settled[c])
            THEN channels' = channels \cup resub[c] /\ LoopTop
            ELSE loop' = "thrown" /\ UNCHANGED <<channels, call, rlock>>
    /\ UNCHANGED <<rid, link, out, inb, wlock, runs, connVars, muxVars,
                   resub, subs, published, sent, yielded, moved>>

RecvStep ==
    \/ RecvMessage \/ RecvIgnores \/ RecvForces \/ RecvBreaks \/ RecvThrows
    \/ RecvReconnected \/ RecvReconnectFails \/ RecvResubscribed

-----------------------------------------------------------------------------

Fibre ==
    \/ \E f \in {Mux, Recv} : CallStep(f) /\ UNCHANGED <<connVars, muxVars, subVars>>
    \/ ConnStep(Recv) /\ UNCHANGED <<muxVars, subVars>>
    \/ /\ ConnStep(Mux)
       /\ moved' = (moved \/ cur' # cur)
       /\ UNCHANGED <<muxVars, channels, recorded, loop, resub, subs, published, sent, yielded>>
    \/ MuxStep /\ UNCHANGED subVars
    \/ RecvStep
    \/ \E c \in CallerCommands : Record(c)

Next ==
    \/ Fibre
    \/ NextMessage
    \/ UserClose
    \/ \E c \in CallerCommands : UserExec(c)
    \/ \E m \in Messages : Publish(m)
    \/ \E s \in Sockets : Serve(s) \/ Cut(s)

Spec == Init /\ [][Next]_vars

\* The event loop runs the jobs of a promise before it hands the next socket over:
\* between the acknowledgement that was read and subscribe()'s note of it, receive()
\* does not come to use another one.
Prompt ==
    cur' # cur /\ ~ moved' =>
        \A c \in Subscribes \ recorded :
            /\ ~ (settled[c] # None /\ IsAnswer(settled[c]))
            /\ ~ (CallDone(Mux) /\ call[Mux].req = c /\ IsAnswer(call[Mux].res))

PromptSpec == Init /\ [][Next /\ Prompt]_vars

-----------------------------------------------------------------------------

Position(m) == CHOOSE i \in DOMAIN published : published[i] = m

\* receive() yields messages in the order they were published and none twice,
\* on whichever sockets it reads them.
DeliveredInOrder ==
    \A i, j \in DOMAIN yielded : i < j => Position(yielded[i]) < Position(yielded[j])

\* While receive() reads a connection that is up, the server has all the channels
\* the subscription has recorded, or is about to: the SUBSCRIBE of the finally block
\* (pubsub.ts:142) restores them on a new socket before the loop reads again.  Only
\* the executor's own reconnect() takes them away unseen.
Dropping == UNION {Drops[c] : c \in {u \in Unsubscribes : runs[u] > 0}}
Coming(s) == UNION {Names(out[s][i]) : i \in DOMAIN out[s]}

SubscriptionsSurviveReconnect ==
    loop = "reading" /\ call[Recv].st = "reading" /\ ~ moved
    /\ rid[cur] = "open" /\ link[cur] = "up"
        => channels \ Dropping \subseteq subs[cur] \cup Coming(cur)

\* receive() has an error of readReply() in its hands, or its reconnect() is at the PING
\* that cannot get the reader and has the connection closed.
GivingUp ==
    \/ Back /\ (call[Recv].res = Fault("InvalidState") \/ call[Recv].res.kind = "errorReply")
    \/ /\ loop = "reconnecting" /\ task[Recv].pc = "ping"
       /\ call[Recv].st \in {"writing", "written"} \/ (CallDone(Recv) /\ ~ IsAnswer(call[Recv].res))

\* receive() does not release its reader when readReply() throws (pubsub.ts:95), and
\* readReply() throws on a socket that is well: an error reply, or an InvalidStateError
\* after a chunk that ended inside a reply (reply.ts:146).  The stream the connection
\* holds stays locked, then, only while receive() is about to close it, or when an error
\* reply has ended the loop: no command or loop that goes on meets the lock for good.
LiveLockIsGivenUp ==
    LET mine == call[Recv].st = "reading" /\ call[Recv].sock = cur IN
    cur # NoSocket /\ rlock[cur] = Recv /\ ~ mine /\ rid[cur] = "open" /\ link[cur] = "up"
        => GivingUp \/ loop = "refused"

\* pubsub_test.ts:151, "Check that all messages were received": a message that
\* the server sent to receive() on a connection that is up is on its way, at the
\* latest in the hands of the loop, or was yielded.
NoMessageLost ==
    \A m \in Messages : \A s \in sent[m] :
        rid[s] = "open" /\ link[s] = "up" =>
            \/ \E i \in DOMAIN yielded : yielded[i] = m
            \/ \E i \in DOMAIN inb[s] : inb[s][i] = Value(m)
            \/ CallDone(Recv) /\ call[Recv].res = Value(m)
=============================================================================
