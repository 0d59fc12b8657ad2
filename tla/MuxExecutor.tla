---------------------------- MODULE MuxExecutor ----------------------------
(***************************************************************************)
(* executor.ts: the queue that lets many callers share one connection.     *)
(* One fibre, Mux, runs dequeue(): send the head, wait for one reply,      *)
(* settle the head and go on; or reconnect and send the same head again.   *)
(* A command identifies the QueuedCommand it is in, so each is issued      *)
(* once.                                                                   *)
(***************************************************************************)
EXTENDS Connection

CONSTANT Mux      \* the fibre of dequeue()

ASSUME MuxAssumption == Mux \in Fibers \ Receivers

VARIABLES
    queue,          \* this.queue
    isProcessing,   \* this.isProcessing
    settled,        \* how the promise exec() returned has settled
    retries         \* history: how often each command's failure led to a reconnect

muxVars == <<queue, isProcessing, settled, retries>>

MuxTypeOK ==
    /\ queue \in Seq(Commands)
    /\ isProcessing \in BOOLEAN
    /\ settled \in [Commands -> Outcomes(Requests) \cup {None}]
    /\ retries \in [Commands -> Nat]

MuxInit ==
    /\ queue = <<>>
    /\ isProcessing = FALSE
    /\ settled = [c \in Commands |-> None]
    /\ retries = [c \in Commands |-> 0]

\* A command that was passed to exec().
Waiting(c) == \E i \in DOMAIN queue : queue[i] = c
Issued(c) == settled[c] # None \/ Waiting(c)

\* Slip: dequeue() returns on an empty queue without resetting isProcessing.
Dequeue_StaysBusy(q) ==
    /\ isProcessing' = TRUE
    /\ IF q = <<>> THEN EndCall(Mux) ELSE Send(Mux, cur, Head(q), wlock)

\* dequeue() up to its first await.
Dequeue(q) ==
    IF q = <<>>
    THEN /\ isProcessing' = FALSE
         /\ EndCall(Mux)
    ELSE /\ isProcessing' = TRUE
         /\ Send(Mux, cur, Head(q), wlock)

\* The reply or error of the head's sendCommand() is there.
HeadIsBack == isProcessing /\ task[Mux].pc = "idle" /\ CallDone(Mux)

\* Slip: pop() for shift(): the promise of the newest command settles.
SettleHead_Pops(o) ==
    /\ settled' = [settled EXCEPT ![queue[Len(queue)]] = o]
    /\ queue' = SubSeq(queue, 1, Len(queue) - 1)
    /\ Dequeue(SubSeq(queue, 1, Len(queue) - 1))

\* Slip: the shift() is missing: the head is sent once more.
SettleHead_NoShift(o) ==
    /\ settled' = [settled EXCEPT ![Head(queue)] = o]
    /\ queue' = queue
    /\ Dequeue(queue)

\* Slip: dequeue() does not call itself in its finally block.
SettleHead_Stops(o) ==
    /\ settled' = [settled EXCEPT ![Head(queue)] = o]
    /\ queue' = Tail(queue)
    /\ Dequeue(<<>>)

\* Slip: an exception removes the head without rejecting its promise.
SettleHead_DropsErrors(o) ==
    /\ settled' = IF o.kind = "fault" THEN settled ELSE [settled EXCEPT ![Head(queue)] = o]
    /\ queue' = Tail(queue)
    /\ Dequeue(Tail(queue))

\* The head's promise settles, the head leaves, the next command goes out.
SettleHead(o) ==
    /\ settled' = [settled EXCEPT ![Head(queue)] = o]
    /\ queue' = Tail(queue)
    /\ Dequeue(Tail(queue))

\* Slip: every error is retried.
isRetriableError_Any(o) == ~ isClosed

isRetriableError(o) == ~ isClosed /\ o.kind = "fault" /\ o.of \in RetriableFaults

\* Slip: the test of maxRetryCount is missing.
Retriable_Always(o) == isRetriableError(o)

Retriable(o) == MaxRetryCount > 0 /\ isRetriableError(o)

-----------------------------------------------------------------------------

\* Slip: exec() rejects but goes on to queue the command.
ExecRefused_Queues(c) ==
    /\ ~ Issued(c) /\ isClosed
    /\ settled' = [settled EXCEPT ![c] = Fault("ConnectionClosed")]
    /\ queue' = Append(queue, c)
    /\ IF isProcessing THEN UNCHANGED <<isProcessing, call, wlock>>
                       ELSE Dequeue(queue')
    /\ UNCHANGED <<retries, connVars, rid, link, out, inb, rlock, runs>>

\* exec(c) on a connection that is closed.
ExecRefused(c) ==
    /\ ~ Issued(c) /\ isClosed
    /\ settled' = [settled EXCEPT ![c] = Fault("ConnectionClosed")]
    /\ UNCHANGED <<queue, isProcessing, retries, connVars, wireVars>>

\* Slip: exec() starts dequeue() although one is at work.
Exec_AlwaysDequeues(c) ==
    /\ ~ Issued(c) /\ ~ isClosed
    /\ queue' = Append(queue, c)
    /\ Dequeue(queue')
    /\ UNCHANGED <<settled, retries, connVars, rid, link, out, inb, rlock, runs>>

\* exec(c): queue it, and start dequeue() unless it runs.
Exec(c) ==
    /\ ~ Issued(c) /\ ~ isClosed
    /\ queue' = Append(queue, c)
    /\ IF isProcessing THEN UNCHANGED <<isProcessing, call, wlock>>
                       ELSE Dequeue(queue')
    /\ UNCHANGED <<settled, retries, connVars, rid, link, out, inb, rlock, runs>>

\* sendCommand() resolved.
Resolve ==
    /\ HeadIsBack /\ IsAnswer(call[Mux].res)
    /\ SettleHead(call[Mux].res)
    /\ UNCHANGED <<retries, connVars, rid, link, out, inb, rlock, runs>>

\* It threw something that is not retried.
Reject ==
    /\ HeadIsBack /\ ~ IsAnswer(call[Mux].res) /\ ~ Retriable(call[Mux].res)
    /\ SettleHead(call[Mux].res)
    /\ UNCHANGED <<retries, connVars, rid, link, out, inb, rlock, runs>>

\* It threw something that is: reconnect() and keep the head.
Retry ==
    /\ HeadIsBack /\ ~ IsAnswer(call[Mux].res) /\ Retriable(call[Mux].res)
    /\ retries' = [retries EXCEPT ![Head(queue)] = @ + 1]
    /\ StartReconnect(Mux)
    /\ UNCHANGED <<queue, isProcessing, settled, cur, isClosed, isConnected, retryCount,
                   rid, link, out, inb, rlock, runs>>

\* reconnect() resolved: the same head again.
Resume ==
    /\ isProcessing /\ task[Mux].pc = "ok"
    /\ task' = [task EXCEPT ![Mux] = NoTask]
    /\ Dequeue(queue)
    /\ UNCHANGED <<queue, settled, retries, cur, isClosed, isConnected, retryCount,
                   rid, link, out, inb, rlock, runs>>

\* reconnect() rejected: so does the head, with that error.
GiveUp ==
    /\ isProcessing /\ task[Mux].pc = "failed"
    /\ task' = [task EXCEPT ![Mux] = NoTask]
    /\ SettleHead(task[Mux].err)
    /\ UNCHANGED <<retries, cur, isClosed, isConnected, retryCount,
                   rid, link, out, inb, rlock, runs>>

MuxStep == Resolve \/ Reject \/ Retry \/ Resume \/ GiveUp
=============================================================================
