----------------------------- MODULE Connection -----------------------------
(***************************************************************************)
(* connection.ts: the socket a client uses now, the flags other code reads *)
(* to decide what to do, and the connect()/reconnect() loops that replace  *)
(* the socket.  Any fibre may be inside connect() or reconnect(); the      *)
(* retry counter and the socket are fields of the one connection object.   *)
(***************************************************************************)
EXTENDS Wire

CONSTANTS
    Hello,           \* the handshake connect() runs: a part of AUTH, SELECT, SETNAME
    MaxRetryCount    \* options.maxRetryCount

ASSUME ConnectionAssumption ==
    /\ MaxRetryCount \in Nat
    /\ Hello \in Seq({"AUTH", "SELECT", "SETNAME"})
    /\ {"AUTH", "SELECT", "SETNAME", "PING"} \subseteq Requests \ Commands

VARIABLES
    cur,           \* this.closer, this.reader, this.writer: always of one socket
    isClosed,      \* this._isClosed
    isConnected,   \* this._isConnected
    retryCount,    \* this.retryCount
    task           \* each fibre's activation of connect() or reconnect()

connVars == <<cur, isClosed, isConnected, retryCount, task>>

(* A fibre's activation: where it is (pc), whether reconnect() called       *)
(* connect() (mode), the handshake command it waits for (step), the error   *)
(* it ended with (err), and how often this connect() has dialled (dials, a  *)
(* history: the code counts in the shared retryCount).                      *)
TaskStates == {"idle", "dialing", "hello", "delay", "ping", "reping", "ok", "failed"}

NoTask == [pc |-> "idle", mode |-> "connect", step |-> 0, err |-> None, dials |-> 0]

Tasks == [pc : TaskStates, mode : {"connect", "reconnect"}, step : 0 .. Len(Hello),
          err : Outcomes(Requests) \cup {None}, dials : Nat]

ConnTypeOK ==
    /\ cur \in Sockets \cup {NoSocket}
    /\ isClosed \in BOOLEAN
    /\ isConnected \in BOOLEAN
    /\ retryCount \in 0 .. MaxRetryCount
    /\ task \in [Fibers -> Tasks]

ConnInit ==
    /\ cur = NoSocket
    /\ isClosed = FALSE
    /\ isConnected = FALSE
    /\ retryCount = 0
    /\ task = [f \in Fibers |-> NoTask]

-----------------------------------------------------------------------------

\* close(): flags first, then the current socket, whoever dialled it.
CloseNow ==
    /\ isClosed' = TRUE
    /\ isConnected' = FALSE
    /\ CloseSocket(cur)

\* The synchronous part of connect(): a dial is under way.
StartConnect(f, m) ==
    task' = [task EXCEPT ![f] = [NoTask EXCEPT !.pc = "dialing", !.mode = m, !.dials = 1]]

\* Slip: `this.retryCount = 0` is missing after a successful handshake.
Connected_KeepsCount(f, s, locks) ==
    /\ UNCHANGED retryCount
    /\ IF task[f].mode = "reconnect"
       THEN /\ task' = [task EXCEPT ![f].pc = "reping"]
            /\ Send(f, s, "PING", locks)
       ELSE /\ task' = [task EXCEPT ![f].pc = "ok"]
            /\ call' = [call EXCEPT ![f] = NoCall]
            /\ wlock' = locks

\* connect() returns.  reconnect() then proves the new socket with a PING.
Connected(f, s, locks) ==
    /\ retryCount' = 0
    /\ IF task[f].mode = "reconnect"
       THEN /\ task' = [task EXCEPT ![f].pc = "reping"]
            /\ Send(f, s, "PING", locks)
       ELSE /\ task' = [task EXCEPT ![f].pc = "ok"]
            /\ call' = [call EXCEPT ![f] = NoCall]
            /\ wlock' = locks

\* Slip: `>` for `>=` when the retry budget is compared.
ConnectCatches_OneMore(f, o) ==
    LET refused == o = Fault("Authentication")
        giveUp == refused \/ retryCount > MaxRetryCount
    IN  /\ retryCount' = IF giveUp THEN 0 ELSE retryCount + 1
        /\ task' = [task EXCEPT ![f] =
                      IF giveUp THEN [@ EXCEPT !.pc = "failed", !.err = o]
                                ELSE [@ EXCEPT !.pc = "delay"]]
        /\ call' = [call EXCEPT ![f] = NoCall]

\* The catch of connect(): give up at once when the password is refused, after
\* maxRetryCount retries otherwise; the counter is reset either way.
ConnectCatches(f, o) ==
    LET refused == o = Fault("Authentication")
        giveUp == refused \/ retryCount >= MaxRetryCount
    IN  /\ retryCount' = IF giveUp THEN 0 ELSE retryCount + 1
        /\ task' = [task EXCEPT ![f] =
                      IF giveUp THEN [@ EXCEPT !.pc = "failed", !.err = o]
                                ELSE [@ EXCEPT !.pc = "delay"]]
        /\ call' = [call EXCEPT ![f] = NoCall]

\* Deno.connect() resolves: the flags say connected before the handshake.
DialOk(f) ==
    /\ task[f].pc = "dialing"
    /\ \E s \in Sockets :
         /\ IsFresh(s)
         /\ rid' = [rid EXCEPT ![s] = "open"]
         /\ cur' = s
         /\ IF Hello = <<>>
            THEN Connected(f, s, wlock)
            ELSE /\ task' = [task EXCEPT ![f].pc = "hello", ![f].step = 1]
                 /\ Send(f, s, Hello[1], wlock)
                 /\ UNCHANGED retryCount
    /\ isClosed' = FALSE
    /\ isConnected' = TRUE
    /\ UNCHANGED <<link, out, inb, rlock, runs>>

\* Deno.connect() rejects.
DialFails(f) ==
    /\ task[f].pc = "dialing"
    /\ ConnectCatches(f, Fault("ConnectionRefused"))
    /\ UNCHANGED <<cur, isClosed, isConnected, rid, link, out, inb, wlock, rlock, runs>>

\* A handshake command is answered: the next one goes to the streams the
\* connection holds NOW.
HelloStep(f) ==
    /\ task[f].pc = "hello" /\ CallDone(f) /\ IsAnswer(call[f].res)
    /\ IF task[f].step < Len(Hello)
       THEN /\ task' = [task EXCEPT ![f].step = @ + 1]
            /\ Send(f, cur, Hello[task[f].step + 1], wlock)
            /\ UNCHANGED retryCount
       ELSE Connected(f, cur, wlock)
    /\ UNCHANGED <<cur, isClosed, isConnected, rid, link, out, inb, rlock, runs>>

\* Slip: connect() does not close the socket whose handshake has failed.
HelloFails_NoClose(f) ==
    /\ task[f].pc = "hello" /\ CallDone(f) /\ ~ IsAnswer(call[f].res)
    /\ ConnectCatches(f, IF call[f].res.kind = "errorReply" /\ Hello[task[f].step] = "AUTH"
                         THEN Fault("Authentication") ELSE call[f].res)
    /\ UNCHANGED <<cur, isClosed, isConnected, rid, inb, link, out, wlock, rlock, runs>>

\* A handshake command fails: connect() closes the connection and catches.  An
\* error reply to AUTH becomes an AuthenticationError.
HelloFails(f) ==
    /\ task[f].pc = "hello" /\ CallDone(f) /\ ~ IsAnswer(call[f].res)
    /\ CloseNow
    /\ ConnectCatches(f, IF call[f].res.kind = "errorReply" /\ Hello[task[f].step] = "AUTH"
                         THEN Fault("Authentication") ELSE call[f].res)
    /\ UNCHANGED <<cur, link, out, wlock, rlock, runs>>

\* The backoff is over: connect() calls itself.
DelayOver(f) ==
    /\ task[f].pc = "delay"
    /\ task' = [task EXCEPT ![f] = [task[f] EXCEPT !.pc = "dialing", !.dials = @ + 1]]
    /\ UNCHANGED <<cur, isClosed, isConnected, retryCount, wireVars>>

\* The synchronous part of reconnect().
StartReconnect(f) ==
    IF isClosed
    THEN /\ task' = [task EXCEPT ![f] = [NoTask EXCEPT !.pc = "failed",
                                          !.err = Fault("ClientIsClosed")]]
         /\ EndCall(f)
    ELSE /\ task' = [task EXCEPT ![f] = [NoTask EXCEPT !.pc = "ping", !.mode = "reconnect"]]
         /\ Send(f, cur, "PING", wlock)

\* The connection still answers: reconnect() keeps it.
PingOk(f) ==
    /\ task[f].pc = "ping" /\ CallDone(f) /\ IsAnswer(call[f].res)
    /\ isConnected' = TRUE
    /\ task' = [task EXCEPT ![f].pc = "ok"]
    /\ EndCall(f)
    /\ UNCHANGED <<cur, isClosed, retryCount, rid, link, out, inb, rlock, runs>>

\* It does not: reconnect() closes it and calls connect().
PingFails(f) ==
    /\ task[f].pc = "ping" /\ CallDone(f) /\ ~ IsAnswer(call[f].res)
    /\ CloseNow
    /\ StartConnect(f, "reconnect")
    /\ EndCall(f)
    /\ UNCHANGED <<cur, retryCount, link, out, rlock, runs>>

\* The PING on the new socket decides whether reconnect() resolves.
RePing(f) ==
    /\ task[f].pc = "reping" /\ CallDone(f)
    /\ task' = [task EXCEPT ![f] = IF IsAnswer(call[f].res)
                                     THEN [@ EXCEPT !.pc = "ok"]
                                     ELSE [@ EXCEPT !.pc = "failed", !.err = call[f].res]]
    /\ EndCall(f)
    /\ UNCHANGED <<cur, isClosed, isConnected, retryCount, rid, link, out, inb, rlock, runs>>

ConnStep(f) ==
    DialOk(f) \/ DialFails(f) \/ HelloStep(f) \/ HelloFails(f) \/ DelayOver(f)
        \/ PingOk(f) \/ PingFails(f) \/ RePing(f)
=============================================================================
