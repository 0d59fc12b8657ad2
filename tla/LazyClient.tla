----------------------------- MODULE LazyClient -----------------------------
(***************************************************************************)
(* The client createLazyClient() returns (redis.ts, createLazyExecutor):   *)
(* the first command creates the executor and awaits connect(); every      *)
(* later one finds an executor and goes straight to it, whether connect()  *)
(* has returned by then, is still at work, or has failed.  The options the *)
(* client is created with come from a URL, by parseURL().                  *)
(***************************************************************************)
EXTENDS MuxExecutor, ConnectOptions

CONSTANTS
    Boot,         \* the fibre of the first exec(), until connect() returns
    URLs,         \* the URLs a client may be created from
    Backoffs,     \* the options its exponentialBackoff() may have
    MaxAttempts   \* bound: the attempts whose delays are looked at

\* `new URL()` gives texts, and a port that is a number or empty; the options of a
\* backoff are numbers, fractions included, that are not negative.
ASSUME LazyAssumption ==
    /\ Boot \in Fibers \ (Receivers \cup {Mux})
    /\ None \notin Commands
    /\ \A url \in URLs :
         /\ Undefined \notin {url.username, url.password, url.path}
         /\ url.port \in DOMAIN Numbers \cup {""}
    /\ \A b \in Backoffs :
         /\ b.multiplier \in 0..Huge \cup {Inf} /\ b.minInterval \in 0..Huge
         /\ b.maxInterval \in 0..Huge \cup {Inf}
    /\ MaxAttempts \in Nat

VARIABLES
    setup,        \* what there is of the client: a URL, a connection, all of it
    hasExecutor,  \* executor is not null
    first,        \* the command whose exec() awaits connect()
    overtaken     \* history: a command was given to the executor meanwhile

execVars == <<hasExecutor, first, overtaken>>
lazyVars == <<setup, execVars>>
vars == <<wireVars, connVars, muxVars, lazyVars>>

Init ==
    /\ WireInit /\ ConnInit /\ MuxInit
    /\ \E url \in URLs : setup = [stage |-> "url", url |-> url]
    /\ hasExecutor = FALSE /\ first = None
    /\ overtaken = FALSE

\* The caller of c has its promise.
Called(c) == Issued(c) \/ first = c

\* createLazyClient(): the connection object, which dials nothing yet.
CreateConnection(backoff) ==
    /\ setup.stage = "url"
    /\ setup' = [stage |-> "connection", url |-> setup.url,
                 conn |-> createRedisConnection(parseURL(setup.url), backoff)]
    /\ UNCHANGED <<wireVars, connVars, muxVars, execVars>>

\* The instance goes on with the connections whose handshake is Hello.
CreateClient ==
    /\ setup.stage = "connection"
    /\ [i \in DOMAIN Handshake(setup.conn) |-> Handshake(setup.conn)[i][1]] = Hello
    /\ setup' = [stage |-> "client"]
    /\ UNCHANGED <<wireVars, connVars, muxVars, execVars>>

\* exec() of the client that has no executor yet.
FirstExec(c) ==
    /\ setup.stage = "client"
    /\ ~ hasExecutor /\ ~ Called(c)
    /\ hasExecutor' = TRUE
    /\ first' = c
    /\ StartConnect(Boot, "connect")
    /\ UNCHANGED <<wireVars, muxVars, cur, isClosed, isConnected, retryCount,
                   setup, overtaken>>

\* Slip: the command is dropped, not executed, once connect() has returned.
FirstGoesOn_Forgets ==
    /\ first # None /\ task[Boot].pc = "ok"
    /\ first' = None
    /\ UNCHANGED <<wireVars, connVars, muxVars, setup, hasExecutor, overtaken>>

\* Slip: connect() is called but not awaited.
FirstGoesOn_NoAwait ==
    /\ first # None
    /\ Exec(first) \/ ExecRefused(first)
    /\ first' = None
    /\ UNCHANGED <<setup, hasExecutor, overtaken>>

\* connect() has returned: that first command is a command like any other.
FirstGoesOn ==
    /\ first # None /\ task[Boot].pc = "ok"
    /\ Exec(first) \/ ExecRefused(first)
    /\ first' = None
    /\ UNCHANGED <<setup, hasExecutor, overtaken>>

\* connect() has thrown: so does exec().  The executor stays.
FirstFails ==
    /\ first # None /\ task[Boot].pc = "failed"
    /\ settled' = [settled EXCEPT ![first] = task[Boot].err]
    /\ first' = None
    /\ UNCHANGED <<wireVars, connVars, queue, isProcessing, retries,
                   setup, hasExecutor, overtaken>>

\* exec() of a client that has an executor.
LaterExec(c) ==
    /\ hasExecutor /\ first # c
    /\ Exec(c) \/ ExecRefused(c)
    /\ overtaken' = (overtaken \/ first # None)
    /\ UNCHANGED <<setup, hasExecutor, first>>

\* close() does nothing before the first command.
UserClose ==
    /\ hasExecutor
    /\ CloseNow
    /\ UNCHANGED <<link, out, wlock, rlock, call, runs, cur, retryCount, task, muxVars,
                   lazyVars>>

BootFibre ==
    \/ CallStep(Boot) /\ UNCHANGED <<connVars, muxVars, lazyVars>>
    \/ ConnStep(Boot) /\ UNCHANGED <<muxVars, lazyVars>>
    \/ FirstGoesOn \/ FirstFails

MuxFibre ==
    \/ CallStep(Mux) /\ UNCHANGED <<connVars, muxVars, lazyVars>>
    \/ ConnStep(Mux) /\ UNCHANGED <<muxVars, lazyVars>>
    \/ MuxStep /\ UNCHANGED lazyVars

Exchange(s) == ServerExec(s) /\ UNCHANGED <<connVars, muxVars, lazyVars>>

Cut(s) == LinkCut(s) /\ UNCHANGED <<connVars, muxVars, lazyVars>>

Next ==
    \/ BootFibre \/ MuxFibre \/ UserClose
    \/ CreateClient
    \/ \E b \in Backoffs : CreateConnection(b)
    \/ \E c \in Commands : FirstExec(c) \/ LaterExec(c)
    \/ \E s \in Sockets : Exchange(s) \/ Cut(s)

\* The event loop runs both fibres, and a connected server answers.
Fairness ==
    /\ WF_vars(BootFibre)
    /\ WF_vars(MuxFibre)
    /\ \A s \in Sockets : WF_vars(link[s] = "up" /\ Exchange(s))

Spec == Init /\ [][Next]_vars
FairSpec == Spec /\ Fairness

-----------------------------------------------------------------------------

\* A caller who waits for the first command before issuing another gets its own
\* replies, although connect() and dequeue() read the same streams.
OwnReplyInTurn ==
    ~ overtaken =>
        \A c \in Commands : settled[c] # None =>
            \/ settled[c].kind = "fault"
            \/ settled[c].of = c
            \/ settled[c].kind = "errorReply" /\ settled[c].of \notin Commands

\* And none of its commands is on the wire before the handshake is over.
HandshakeFirstInTurn ==
    ~ overtaken /\ call[Mux].st # "idle" /\ call[Mux].req \in Commands =>
        task[Boot].pc \in {"ok", "failed"} /\ task[Mux].pc = "idle"

\* Whoever waits for the first command gets an outcome for every command.
EveryCallSettles ==
    \A c \in Commands : Called(c) ~> (settled[c] # None \/ overtaken)

\* What the URL of the client says reaches the server, in an order it accepts: the
\* password of either place, before anything else; the database the path names, or
\* else the query, if it is a number (one that is not, and 0, need no SELECT).
HandshakeOfTheURL ==
    setup.stage = "connection" =>
        LET url == setup.url
            hello == Handshake(setup.conn)
            Sent(name) == {i \in DOMAIN hello : hello[i][1] = name}
            password == {url.password, url.queryPassword} \ {"", Undefined}
            named == IF url.path # "" THEN url.path ELSE url.queryDb
        IN  /\ password # {} => 1 \in Sent("AUTH")
            /\ url.password = "" /\ url.queryPassword = Undefined => Sent("AUTH") = {}
            /\ \A i \in Sent("AUTH") :
                   /\ i = 1
                   /\ password # {} => hello[i][Len(hello[i])] \in password
                   /\ Len(hello[i]) = 3 <=> (url.username # "" /\ password # {})
            /\ Sent("SELECT") # {} <=> named \in {t \in DOMAIN Numbers : Numbers[t] # 0}
            /\ \A i \in Sent("SELECT") : hello[i][2] = Numbers[named]
            /\ Sent("SETNAME") # {} <=> url.username # ""
            /\ parsePortLike(setup.conn.port) =
                   IF url.port = "" THEN DefaultPort ELSE Numbers[url.port]

\* The delays of backoff.ts:31 begin with the minimum and never exceed the maximum,
\* also when the power of the multiplier has become Infinity.  A multiplier of 1 or
\* more never lets them shrink; one below 1, which the code takes as well, never lets
\* them grow, and they fall below the minimum.  From a minimum of 0 they are 0, and NaN
\* when the power is Infinity.
DelaysFollowTheOptions ==
    setup.stage = "connection" =>
        LET b == setup.conn.backoff
            D(n) == exponentialBackoff(b, n)
        IN  IF b.minInterval = 0
            THEN \A n \in 1..MaxAttempts : D(n) \in {0, NaN}
            ELSE /\ D(1) = LeastOf(b.minInterval, b.maxInterval)
                 /\ \A n \in 1..MaxAttempts : D(n) \in 0..b.maxInterval
                 /\ \A n \in 2..MaxAttempts :
                        /\ b.multiplier >= One => D(n) >= D(n - 1)
                        /\ b.multiplier <= One => D(n) <= D(n - 1)
=============================================================================
