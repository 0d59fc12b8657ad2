------------------------------- MODULE Client -------------------------------
(***************************************************************************)
(* The client redis.ts connect() returns: connect() runs to its end before *)
(* the executor exists; then callers issue commands and may close the      *)
(* client, while the executor's fibre works through the queue and the      *)
(* server and the network do what they do.                                 *)
(***************************************************************************)
EXTENDS MuxExecutor

VARIABLES
    phase,       \* "boot": in redis.ts connect(); "ready": the client exists
    userClosed   \* history: the user has called close()

userVars == <<phase, userClosed>>
vars == <<wireVars, connVars, muxVars, userVars>>

Init ==
    /\ WireInit /\ MuxInit
    /\ cur = NoSocket /\ isClosed = FALSE /\ isConnected = FALSE /\ retryCount = 0
    /\ task = [f \in Fibers |-> IF f = Mux THEN [NoTask EXCEPT !.pc = "dialing", !.dials = 1]
                                           ELSE NoTask]
    /\ phase = "boot" /\ userClosed = FALSE

\* `await connection.connect()` returns, the executor and the client are made.
BootOk ==
    /\ phase = "boot" /\ task[Mux].pc = "ok"
    /\ phase' = "ready"
    /\ task' = [task EXCEPT ![Mux] = NoTask]
    /\ UNCHANGED <<wireVars, cur, isClosed, isConnected, retryCount, muxVars, userClosed>>

\* It throws: there is no client.
BootFails ==
    /\ phase = "boot" /\ task[Mux].pc = "failed"
    /\ phase' = "failed"
    /\ task' = [task EXCEPT ![Mux] = NoTask]
    /\ UNCHANGED <<wireVars, cur, isClosed, isConnected, retryCount, muxVars, userClosed>>

UserExec(c) == phase = "ready" /\ (Exec(c) \/ ExecRefused(c)) /\ UNCHANGED userVars

UserClose ==
    /\ phase = "ready"
    /\ userClosed' = TRUE
    /\ CloseNow
    /\ UNCHANGED <<link, out, wlock, rlock, call, runs, cur, retryCount, task, muxVars, phase>>

Fibre ==
    \/ (CallStep(Mux) /\ UNCHANGED <<connVars, muxVars, userVars>>)
    \/ (ConnStep(Mux) /\ UNCHANGED <<muxVars, userVars>>)
    \/ (MuxStep /\ UNCHANGED userVars)
    \/ BootOk \/ BootFails

Exchange(s) == ServerExec(s) /\ UNCHANGED <<connVars, muxVars, userVars>>

Cut(s) == LinkCut(s) /\ UNCHANGED <<connVars, muxVars, userVars>>

\* Nothing is left to do: connect() has failed, or every command has settled.
Finished ==
    /\ phase = "failed" \/ \A c \in Commands : settled[c] # None
    /\ UNCHANGED vars

Next ==
    \/ Fibre
    \/ UserClose
    \/ \E c \in Commands : UserExec(c)
    \/ \E s \in Sockets : Exchange(s) \/ Cut(s)
    \/ Finished

\* The event loop runs every fibre that can run; a server that is connected
\* executes what it is sent; nobody has to issue a command, close or fail.
Fairness ==
    /\ WF_vars(Fibre)
    /\ \A s \in Sockets : WF_vars(link[s] = "up" /\ Exchange(s))

Spec == Init /\ [][Next]_vars
FairSpec == Spec /\ Fairness

-----------------------------------------------------------------------------

TypeOK ==
    /\ WireTypeOK /\ ConnTypeOK /\ MuxTypeOK
    /\ phase \in {"boot", "ready", "failed"}
    /\ userClosed \in BOOLEAN

\* A promise is fulfilled with the reply to its own command, never with the
\* reply to another one: the single reader of dequeue() must leave no reply
\* unread on a socket it goes on using, reconnections included.  (It may be
\* rejected with the error reply to a command of the reconnection.)
NoForeignReply ==
    \A c \in Commands : settled[c] # None =>
        \/ settled[c].kind = "fault"
        \/ settled[c].of = c
        \/ settled[c].kind = "errorReply" /\ settled[c].of \notin Commands

\* A command that was answered was executed, and a command that exec() refused
\* never reaches the server, however often the connection was replaced.
AnsweredIffExecuted ==
    \A c \in Commands : settled[c] # None =>
        /\ settled[c].of = c => runs[c] > 0
        /\ settled[c] = Fault("ConnectionClosed") => runs[c] = 0

\* The server executes a command at most once for each time it was sent: once,
\* and once more for each reconnection its own failure caused.
DuplicatesNeedRetries ==
    \A c \in Commands : runs[c] <= 1 + retries[c]

\* With maxRetryCount = 0 nothing is ever sent twice.
NoRetryIfDisabled ==
    MaxRetryCount = 0 => \A c \in Commands : runs[c] <= 1

\* Every socket but the current one is closed: connect() and reconnect() never
\* abandon an open resource (the flags and the socket are replaced together).
NoSocketLeak ==
    \A s \in Sockets : rid[s] = "open" => s = cur /\ ~ isClosed

\* The queue never stalls: when it holds a command, dequeue() is at work on its
\* head, and when dequeue() is not at work, it is empty.
NoStrandedCommand ==
    /\ isProcessing <=> queue # <<>>
    /\ isProcessing => \/ call[Mux].req = Head(queue) /\ task[Mux].pc = "idle"
                       \/ task[Mux].pc # "idle"

\* connect() gives up after maxRetryCount retries and starts every time from a
\* full budget: the shared counter is zero whenever no connect() runs.
DialBudget ==
    /\ task[Mux].dials <= MaxRetryCount + 1
    /\ task[Mux].pc \notin {"dialing", "hello", "delay"} => retryCount = 0

\* No caller's command is written before the handshake of its socket is over:
\* it would run unauthenticated or on database 0.
CommandsAfterHandshake ==
    call[Mux].st # "idle" /\ call[Mux].req \in Commands => task[Mux].pc = "idle"

\* The head is sent again only on another socket: when dequeue() asks for a
\* reconnection the socket of the failed attempt is dead, so the reply to the
\* first attempt cannot be taken for the reply to the second.
RetryOnlyOnDeadSocket ==
    task[Mux].pc = "ping" => rid[cur] \notin {"unused", "open"}

\* A promise that has settled keeps its outcome, and promises settle in the
\* order of the queue: only its head may, and only one at a time.
SettledOnceInOrder ==
    [][\A c \in Commands :
         settled'[c] # settled[c] =>
             /\ settled[c] = None
             /\ \/ queue # <<>> /\ c = Head(queue) /\ queue' = Tail(queue)
                \/ isClosed /\ UNCHANGED queue]_vars

\* Every command issued settles: dequeue() goes on after every reply, error,
\* reconnection and close().
EveryCommandSettles ==
    \A c \in Commands : Issued(c) ~> settled[c] # None

\* connection_test.ts:109: "Trying to send command to closed connection should
\* fail": after close(), exec() takes no command.  A dial or a handshake that is
\* under way reopens the connection.
CommandAfterCloseFails ==
    [][\A c \in Commands : userClosed /\ ~ Issued(c) => ~ Waiting(c)']_vars

\* The client is the queue it promises to be.
Promise == INSTANCE CommandQueue WITH pending <- queue, outcome <- settled
ImplementsCommandQueue == Promise!Spec
=============================================================================
