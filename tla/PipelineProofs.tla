--------------------------- MODULE PipelineProofs ---------------------------
(***************************************************************************)
(* While nothing overlaps on the connection, the executor and the calls of *)
(* flush() take turns on its streams, and the results of a flush() are the *)
(* replies to its commands.  Whatever overlaps, a command given to a       *)
(* pipeline is sent once.  Proved for every number of pipelines, commands, *)
(* sockets and retries.                                                    *)
(***************************************************************************)
EXTENDS PipelineClient, TurnProofs

PipeTypeOK ==
    /\ commands \in [Pipes -> Seq(Commands)]
    /\ given \subseteq Commands
    /\ batch \in [Flushes -> Seq(Requests)]
    /\ results \in [Flushes -> Seq(Outcomes(Requests))]

\* The turn is the executor's or a flush()'s, and the executor's while its
\* queue holds a command.
OneTurn == \E f \in {Mux} \cup Flushes : InTurn(f) /\ (isProcessing => f = Mux)

\* No flush() is ever inside connect() or reconnect().
FlushesNeverDial == \A f \in Flushes : task[f].pc = "idle"

\* The connection was established, so that there are streams to send on.
Streams ==
    /\ cur \in Sockets
    /\ \A f \in Fibers : call[f].st # "idle" => call[f].sock \in Sockets

\* No fibre finds a stream locked.
NoLockIssues == \A f \in Fibers : call[f].res # Fault("TypeError")

\* A flush() waits for the first request of its list that has no result yet.
Progress(f) ==
    Flushing(f) =>
        /\ Len(results[f]) < Len(batch[f])
        /\ call[f].req = batch[f][Len(results[f]) + 1]
        /\ \A i \in DOMAIN results[f] : results[f][i].kind # "fault"

\* A result answers the request at its place, and an exception is the last one.
Matching(f) ==
    \A i \in DOMAIN results[f] :
        /\ i <= Len(batch[f])
        /\ results[f][i].kind = "fault" \/ results[f][i].of = batch[f][i]
        /\ results[f][i].kind = "fault" => i = Len(results[f])

PipeInv ==
    /\ PipeTypeOK /\ OneTurn /\ MuxRests /\ FlushesNeverDial /\ Streams /\ NoLockIssues
    /\ \A f \in Flushes : Progress(f) /\ Matching(f)

-----------------------------------------------------------------------------
(* Whose turn it is.                                                        *)

LEMMA FlushesAreFibers ==
    /\ Mux \in Fibers \ Receivers
    /\ \A f \in Flushes : f \in Fibers \ {Mux} /\ f \notin Receivers
    /\ \A f \in {Mux} \cup Flushes : f \in Fibers \ Receivers
  BY PipelineAssumption, MuxAssumption

\* A fibre that is at work has the turn.
LEMMA TurnOfBusy ==
    ASSUME PipeInv, NEW f \in {Mux} \cup Flushes,
           call[f].st # "idle" \/ task[f].pc \notin {"idle", "ok", "failed"}
                \/ (f = Mux /\ isProcessing)
    PROVE  InTurn(f)
  <1>1. PICK g \in {Mux} \cup Flushes : InTurn(g) /\ (isProcessing => g = Mux)
    BY DEF PipeInv, OneTurn
  <1>2. CASE f = Mux /\ isProcessing
    BY <1>1, <1>2
  <1>3. CASE ~ Rests(f)
    <2>1. f = g
      BY <1>1, <1>3, FlushesAreFibers DEF InTurn, Others
    <2> QED
      BY <1>1, <2>1
  <1> QED
    BY <1>2, <1>3 DEF Rests

\* While a flush() is under way the executor has nothing to do.
LEMMA FlushIsAlone ==
    ASSUME PipeInv, NEW f \in Flushes, Flushing(f)
    PROVE  /\ InTurn(f) /\ ~ isProcessing
           /\ \A g \in Flushes \ {f} : ~ Flushing(g)
  <1>1. PICK g \in {Mux} \cup Flushes : InTurn(g) /\ (isProcessing => g = Mux)
    BY DEF PipeInv, OneTurn
  <1>2. g = f
    BY <1>1, FlushesAreFibers DEF InTurn, Others, Rests, Flushing
  <1> QED
    BY <1>1, <1>2, FlushesAreFibers DEF InTurn, Others, Rests, Flushing

\* When nothing is at work, anyone may begin.
LEMMA AnyonesTurn ==
    ASSUME PipeInv, ~ isProcessing, ~ SomeFlush
    PROVE  \A f \in {Mux} \cup Flushes : InTurn(f) /\ call[f].st = "idle"
  <1>1. PICK g \in {Mux} \cup Flushes : InTurn(g)
    BY DEF PipeInv, OneTurn
  <1>2. \A f \in Flushes : call[f].st = "idle"
    BY DEF SomeFlush, Flushing
  <1>3. \A f \in {Mux} \cup Flushes : call[f].st = "idle" /\ task[f].pc = "idle"
    BY <1>2 DEF PipeInv, MuxRests, FlushesNeverDial
  <1>4. Rests(g)
    BY <1>1, <1>3 DEF InTurn, BudgetOf, Rests
  <1>5. \A f \in {Mux} \cup Flushes : ErrorsOf(f)
    BY <1>3 DEF ErrorsOf
  <1> QED
    BY <1>1, <1>3, <1>4, <1>5, FlushesAreFibers, TurnPasses

-----------------------------------------------------------------------------
(* The steps of the executor leave the pipelines alone.                     *)

LEMMA InitPipeInv ==
    ASSUME Init
    PROVE  PipeInv
  <1>1. 1 \in Sockets /\ 0 \in 0 .. MaxRetryCount /\ NoSocket \notin Sockets
    BY WireAssumption, ConnectionAssumption DEF Sockets, NoSocket
  <1>2. NoCall \in Calls /\ NoCall.st = "idle" /\ NoCall.res # Fault("TypeError")
    BY NoCallType, OtherFaults
  <1>3. NoTask \in Tasks /\ NoTask.pc = "idle" /\ NoTask.dials = 0
    BY NoTaskType
  <1>4. /\ cur = 1 /\ isClosed = FALSE /\ retryCount = 0
        /\ queue = <<>> /\ isProcessing = FALSE
        /\ \A c \in Commands : settled[c] = None
        /\ \A f \in Fibers : call[f] = NoCall /\ task[f] = NoTask
        /\ \A s \in Sockets : /\ rid[s] = "open" => s = 1
                              /\ out[s] = <<>> /\ inb[s] = <<>>
                              /\ rlock[s] = None /\ wlock[s] = None
    BY DEF Init, MuxInit
  <1>5. TypesOK
    <2>1. WireTypeOK
      BY <1>2, EmptyType DEF Init, WireTypeOK
    <2>2. ConnTypeOK
      BY <1>1, <1>3 DEF Init, ConnTypeOK
    <2>3. MuxTypeOK
      <3>1. <<>> \in Seq(Commands) /\ FALSE \in BOOLEAN /\ 0 \in Nat
        OBVIOUS
      <3> QED
        BY <3>1 DEF Init, MuxInit, MuxTypeOK
    <2> QED
      BY <2>1, <2>2, <2>3 DEF TypesOK
  <1>6. CallOf(Mux) /\ TaskOf(Mux) /\ BudgetOf(Mux)
    BY <1>2, <1>3, <1>4, FlushesAreFibers, ConnectionAssumption DEF CallOf, TaskOf, BudgetOf
  <1>7. SocketsOf(Mux) /\ LocksOf(Mux) /\ WireOf(Mux)
    BY <1>2, <1>3, <1>4, FlushesAreFibers DEF SocketsOf, LocksOf, WireOf
  <1>8. Others(Mux)
    BY <1>2, <1>3, <1>4, FlushesAreFibers, ConnectionAssumption DEF Others, Rests
  <1>9. ErrorsOf(Mux) /\ QueueWorks /\ OwnReplies /\ MuxRests
    BY <1>2, <1>3, <1>4, FlushesAreFibers DEF ErrorsOf, QueueWorks, OwnReplies, MuxRests
  <1>10. InTurn(Mux)
    BY <1>5, <1>6, <1>7, <1>8, <1>9 DEF InTurn
  <1>11. PipeTypeOK
    <2>1. <<>> \in Seq(Commands) /\ <<>> \in Seq(Outcomes(Requests))
      OBVIOUS
    <2> QED
      BY <2>1, EmptyType DEF Init, PipeTypeOK
  <1>12. FlushesNeverDial /\ Streams /\ NoLockIssues
    BY <1>1, <1>2, <1>3, <1>4, FlushesAreFibers DEF FlushesNeverDial, Streams, NoLockIssues
  <1>13. \A f \in Flushes : Progress(f)
    BY <1>2, <1>4, FlushesAreFibers DEF Progress, Flushing
  <1>14. \A f \in Flushes : Matching(f)
    BY DEF Init, Matching
  <1> QED
    BY <1>9, <1>10, <1>11, <1>12, <1>13, <1>14 DEF PipeInv, OneTurn

\* The rest of the invariant follows from where the pipelines are.
LEMMA FlushesStay ==
    ASSUME PipeInv, \A f \in Flushes : call'[f] = call[f] /\ task'[f] = task[f],
           UNCHANGED <<batch, results>>
    PROVE  FlushesNeverDial' /\ \A f \in Flushes : Progress(f)' /\ Matching(f)'
  BY DEF PipeInv, FlushesNeverDial, Matching, Progress, Flushing

\* A step of the executor's fibre.
LEMMA MuxKeepsFlushes ==
    ASSUME PipeInv, InTurn(Mux)', MuxRests', SameCalls(Mux), SameTasks(Mux),
           NoTypeError(Mux)', cur' \in Sockets,
           call'[Mux].st # "idle" => call'[Mux].sock \in Sockets,
           UNCHANGED <<pipeVars>>
    PROVE  PipeInv'
  <1>1. \A f \in Flushes : call'[f] = call[f] /\ task'[f] = task[f]
    BY FlushesAreFibers DEF SameCalls, SameTasks
  <1>2. Streams' /\ NoLockIssues'
    BY DEF PipeInv, Streams, NoLockIssues, SameCalls, NoTypeError
  <1>3. PipeTypeOK'
    BY DEF PipeInv, PipeTypeOK, pipeVars
  <1>4. OneTurn'
    BY DEF OneTurn
  <1> QED
    BY <1>1, <1>2, <1>3, <1>4, FlushesStay DEF PipeInv, pipeVars

\* The request goes to streams that exist and that nobody has locked.
LEMMA MuxSends ==
    ASSUME PipeInv, InTurn(Mux), call[Mux].st \in {"idle", "done"},
           NEW s \in Sockets, NEW r \in Requests,
           Send(Mux, s, r, wlock) \/ call' = [call EXCEPT ![Mux] = NoCall]
    PROVE  /\ SameCalls(Mux) /\ NoTypeError(Mux)'
           /\ call'[Mux].st # "idle" => call'[Mux].sock \in Sockets
  BY FlushesAreFibers, SendNoTypeError, EndNoTypeError

LEMMA CallStepSocket ==
    ASSUME NEW f \in Fibers, InTurn(f), CallStep(f)
    PROVE  /\ call[f].st # "idle" /\ call'[f].st # "idle"
           /\ call'[f].sock = call[f].sock /\ call'[f].req = call[f].req
  <1>1. call \in [Fibers -> Calls]
    BY FibreTypes
  <1>2. \A o : /\ Done(f, o).st = "done" /\ Done(f, o).sock = call[f].sock
               /\ Done(f, o).req = call[f].req
    BY <1>1 DEF Done, Calls
  <1>3. CASE WriteOk(f) \/ StartRead(f)
    BY <1>1, <1>2, <1>3 DEF WriteOk, StartRead, Calls
  <1>4. CASE WriteFails(f)
    BY <1>1, <1>2, <1>4 DEF WriteFails
  <1>5. ASSUME NEW o, FinishRead(f, o), call[f].st = "reading"
        PROVE  /\ call[f].st # "idle" /\ call'[f].st # "idle"
               /\ call'[f].sock = call[f].sock /\ call'[f].req = call[f].req
    BY <1>1, <1>2, <1>5 DEF FinishRead
  <1>6. CASE ReadReply(f)
    BY <1>5, <1>6 DEF ReadReply
  <1>7. CASE ReadFails(f)
    BY <1>5, <1>7 DEF ReadFails
  <1> QED
    BY <1>3, <1>4, <1>6, <1>7 DEF CallStep

LEMMA MuxCallStepInv ==
    ASSUME PipeInv, CallStep(Mux), UNCHANGED <<connVars, muxVars, pipeVars>>
    PROVE  PipeInv'
  <1>1. call[Mux].st # "idle"
    BY DEF CallStep, WriteOk, WriteFails, StartRead, ReadReply, ReadFails
  <1>2. InTurn(Mux) /\ NoTypeError(Mux) /\ isProcessing
    BY <1>1, TurnOfBusy, FlushesAreFibers DEF PipeInv, NoLockIssues, NoTypeError, MuxRests
  <1>3. InTurn(Mux)' /\ NoTypeError(Mux)' /\ SameCalls(Mux)
    BY <1>2, FlushesAreFibers, CallStepTurn, CallStepNoTypeError
  <1>4. call'[Mux].sock \in Sockets
    BY <1>1, <1>2, FlushesAreFibers, CallStepSocket DEF PipeInv, Streams
  <1>5. MuxRests' /\ SameTasks(Mux) /\ cur' \in Sockets
    BY <1>2 DEF MuxRests, SameTasks, connVars, muxVars, PipeInv, Streams
  <1> QED
    BY <1>3, <1>4, <1>5, MuxKeepsFlushes

LEMMA MuxConnStepInv ==
    ASSUME PipeInv, ConnStep(Mux), UNCHANGED <<muxVars, pipeVars>>
    PROVE  PipeInv'
  <1>1. task[Mux].pc \in {"dialing", "hello", "delay", "ping", "reping"}
    BY DEF ConnStep, DialOk, DialFails, HelloStep, HelloFails, DelayOver, PingOk, PingFails,
           RePing
  <1>2. InTurn(Mux) /\ isProcessing
    BY <1>1, TurnOfBusy, FlushesAreFibers DEF PipeInv, MuxRests
  <1>3. InTurn(Mux)' /\ MuxRests'
    BY <1>2, FlushesAreFibers, ConnStepTurn DEF MuxRests, muxVars
  <1>4. cur \in Sockets /\ Mux \in Fibers /\ task \in [Fibers -> Tasks]
        /\ NoTypeError(Mux) /\ (call[Mux].st # "idle" => call[Mux].sock \in Sockets)
    BY <1>2, FlushesAreFibers, FibreTypes DEF PipeInv, Streams, NoLockIssues, NoTypeError
  <1>5. "PING" \in Requests /\ \A i \in 1 .. Len(Hello) : Hello[i] \in Requests
    BY InternalRequests
  <1>6. ASSUME NEW s \in Sockets, Connected(Mux, s, wlock), call[Mux].st \in {"idle", "done"}
        PROVE  /\ SameCalls(Mux) /\ NoTypeError(Mux)' /\ SameTasks(Mux)
               /\ call'[Mux].st # "idle" => call'[Mux].sock \in Sockets
    <2>1. Send(Mux, s, "PING", wlock) \/ call' = [call EXCEPT ![Mux] = NoCall]
      BY <1>6 DEF Connected
    <2>2. SameTasks(Mux)
      BY <1>4, <1>6 DEF Connected, SameTasks
    <2> QED
      BY <1>2, <1>5, <1>6, <2>1, <2>2, MuxSends
  <1>7. /\ SameCalls(Mux) /\ NoTypeError(Mux)' /\ SameTasks(Mux) /\ cur' \in Sockets
        /\ call'[Mux].st # "idle" => call'[Mux].sock \in Sockets
    <2>1. CASE DialOk(Mux)
      <3>1. call[Mux].st = "idle"
        BY <1>2, <2>1 DEF DialOk, InTurn, TaskOf
      <3>2. PICK s \in Sockets :
              /\ cur' = s
              /\ IF Hello = <<>>
                 THEN Connected(Mux, s, wlock)
                 ELSE /\ task' = [task EXCEPT ![Mux].pc = "hello", ![Mux].step = 1]
                      /\ Send(Mux, s, Hello[1], wlock)
        BY <2>1 DEF DialOk
      <3>3. CASE Hello = <<>>
        BY <1>6, <3>1, <3>2, <3>3
      <3>4. CASE Hello # <<>>
        <4>1. SameTasks(Mux)
          BY <1>4, <3>2, <3>4 DEF SameTasks
        <4>2. Hello[1] \in Requests
          BY <3>4, InternalRequests
        <4> QED
          BY <1>2, <3>1, <3>2, <3>4, <4>1, <4>2, MuxSends
      <3> QED
        BY <3>3, <3>4
    <2>2. CASE DialFails(Mux) \/ HelloFails(Mux)
      <3>1. call' = [call EXCEPT ![Mux] = NoCall] /\ cur' = cur /\ SameTasks(Mux)
        BY <1>4, <2>2 DEF DialFails, HelloFails, ConnectCatches, SameTasks
      <3> QED
        BY <1>2, <1>4, <3>1, EndNoTypeError
    <2>3. CASE HelloStep(Mux)
      <3>1. call[Mux].st = "done" /\ cur' = cur
        BY <2>3 DEF HelloStep, CallDone
      <3>2. CASE task[Mux].step < Len(Hello)
        <4>1. Hello[task[Mux].step + 1] \in Requests
          <5>1. task[Mux].step \in 1 .. Len(Hello)
            BY <1>2, <2>3 DEF HelloStep, InTurn, TaskOf
          <5>2. task[Mux].step + 1 \in 1 .. Len(Hello)
            BY <3>2, <5>1, InternalRequests
          <5> QED
            BY <1>5, <5>2
        <4>2. Send(Mux, cur, Hello[task[Mux].step + 1], wlock) /\ SameTasks(Mux)
          BY <1>4, <2>3, <3>2 DEF HelloStep, SameTasks
        <4> QED
          BY <1>2, <1>4, <3>1, <4>1, <4>2, MuxSends
      <3>3. CASE ~ (task[Mux].step < Len(Hello))
        BY <1>4, <1>6, <2>3, <3>1, <3>3 DEF HelloStep
      <3> QED
        BY <3>2, <3>3
    <2>4. CASE DelayOver(Mux)
      BY <1>4, <2>4 DEF DelayOver, wireVars, SameCalls, SameTasks, NoTypeError
    <2>5. CASE PingOk(Mux) \/ PingFails(Mux) \/ RePing(Mux)
      <3>1. call' = [call EXCEPT ![Mux] = NoCall] /\ cur' = cur /\ SameTasks(Mux)
        BY <1>4, <2>5 DEF PingOk, PingFails, RePing, EndCall, StartConnect, SameTasks
      <3> QED
        BY <1>2, <1>4, <3>1, EndNoTypeError
    <2> QED
      BY <2>1, <2>2, <2>3, <2>4, <2>5 DEF ConnStep
  <1> QED
    BY <1>3, <1>7, MuxKeepsFlushes

LEMMA MuxStepInv ==
    ASSUME PipeInv, MuxStep, UNCHANGED <<pipeVars>>
    PROVE  PipeInv'
  <1>1. isProcessing
    BY DEF MuxStep, Resolve, Reject, Retry, Resume, GiveUp, HeadIsBack
  <1>2. InTurn(Mux)
    BY <1>1, TurnOfBusy
  <1>3. InTurn(Mux)' /\ MuxRests'
    BY <1>2, MuxStepTurn
  <1>4. /\ cur \in Sockets /\ cur' = cur
        /\ call[Mux].st \in {"idle", "done"}
        /\ Mux \in Fibers /\ task \in [Fibers -> Tasks]
        /\ queue \in Seq(Commands) /\ queue # <<>>
    <2>1. call[Mux].st \in {"idle", "done"}
      BY <1>2 DEF MuxStep, Resolve, Reject, Retry, Resume, GiveUp, HeadIsBack, CallDone,
                  InTurn, TaskOf
    <2>2. cur' = cur
      BY DEF MuxStep, Resolve, Reject, Retry, Resume, GiveUp, connVars
    <2> QED
      BY <1>1, <1>2, <2>1, <2>2, FlushesAreFibers, FibreTypes
      DEF PipeInv, Streams, InTurn, TypesOK, MuxTypeOK, QueueWorks
  <1>5. ASSUME NEW q \in Seq(Commands), Dequeue(q)
        PROVE  \/ call' = [call EXCEPT ![Mux] = NoCall]
               \/ \E r \in Requests : Send(Mux, cur, r, wlock)
    <2>1. CASE q = <<>>
      BY <1>5, <2>1 DEF Dequeue, EndCall
    <2>2. CASE q # <<>>
      <3>1. Head(q) \in Requests
        BY <1>5, <2>2, WireAssumption
      <3> QED
        BY <1>5, <2>2, <3>1 DEF Dequeue
    <2> QED
      BY <2>1, <2>2
  <1>6. \/ call' = [call EXCEPT ![Mux] = NoCall]
        \/ \E r \in Requests : Send(Mux, cur, r, wlock)
    <2>1. Tail(queue) \in Seq(Commands)
      BY <1>4
    <2>2. CASE Resolve \/ Reject \/ GiveUp
      BY <1>5, <2>1, <2>2 DEF Resolve, Reject, GiveUp, SettleHead
    <2>3. CASE Retry
      BY <2>3, InternalRequests DEF Retry, StartReconnect, EndCall
    <2>4. CASE Resume
      BY <1>4, <1>5, <2>4 DEF Resume
    <2> QED
      BY <2>2, <2>3, <2>4 DEF MuxStep
  <1>7. SameTasks(Mux)
    BY <1>4 DEF MuxStep, Resolve, Reject, Retry, StartReconnect, Resume, GiveUp, SameTasks,
                connVars
  <1>8. /\ SameCalls(Mux) /\ NoTypeError(Mux)'
        /\ call'[Mux].st # "idle" => call'[Mux].sock \in Sockets
    BY <1>2, <1>4, <1>6, InternalRequests, MuxSends
  <1> QED
    BY <1>3, <1>4, <1>7, <1>8, MuxKeepsFlushes

LEMMA UserExecInv ==
    ASSUME PipeInv, NEW c \in Commands, Exec(c), ~ SomeFlush, UNCHANGED pipeVars
    PROVE  PipeInv'
  <1>1. InTurn(Mux)
    <2>1. CASE isProcessing
      BY <2>1, TurnOfBusy
    <2>2. CASE ~ isProcessing
      BY <2>2, AnyonesTurn
    <2> QED
      BY <2>1, <2>2
  <1>2. cur \in Sockets /\ NoTypeError(Mux) /\ MuxRests /\ Mux \in Fibers
        /\ (call[Mux].st # "idle" => call[Mux].sock \in Sockets)
    BY FlushesAreFibers DEF PipeInv, Streams, NoLockIssues, NoTypeError
  <1>3. InTurn(Mux)' /\ MuxRests'
    BY <1>1, <1>2, ExecTurn
  <1>4. queue' = Append(queue, c) /\ UNCHANGED connVars
    BY DEF Exec
  <1>5. SameTasks(Mux) /\ cur' \in Sockets
    BY <1>2, <1>4 DEF SameTasks, connVars
  <1>6. CASE isProcessing
    <2>1. UNCHANGED call
      BY <1>6 DEF Exec
    <2> QED
      BY <1>2, <1>3, <1>5, <2>1, MuxKeepsFlushes DEF SameCalls, NoTypeError
  <1>7. CASE ~ isProcessing
    <2>1. queue' # <<>> /\ Head(queue') \in Requests
      <3>1. queue' \in Seq(Commands) /\ queue' # <<>>
        BY <1>1, <1>4, AppendProperties DEF InTurn, TypesOK, MuxTypeOK
      <3> QED
        BY <3>1, WireAssumption
    <2>2. Send(Mux, cur, Head(queue'), wlock) /\ call[Mux].st = "idle"
      BY <1>2, <1>7, <2>1 DEF Exec, Dequeue, MuxRests
    <2> QED
      BY <1>1, <1>2, <1>3, <1>5, <2>1, <2>2, MuxSends, MuxKeepsFlushes
  <1> QED
    BY <1>6, <1>7

-----------------------------------------------------------------------------
(* The steps of a flush().                                                  *)

\* What is left to show of a step of f in its turn.
LEMMA PipeKeepsOthers ==
    ASSUME PipeInv, NEW f \in Flushes, InTurn(f)', ~ isProcessing, MuxRests',
           SameCalls(f), NoTypeError(f)',
           call'[f].st # "idle" => call'[f].sock \in Sockets,
           batch' \in [Flushes -> Seq(Requests)], results' \in [Flushes -> Seq(Outcomes(Requests))],
           commands' \in [Pipes -> Seq(Commands)],
           \A g \in Flushes \ {f} : batch'[g] = batch[g] /\ results'[g] = results[g],
           Progress(f)', Matching(f)', UNCHANGED <<connVars, muxVars, given>>
    PROVE  PipeInv'
  <1>1. f \in Fibers /\ \A g \in Flushes \ {f} : g \in Fibers \ {f} /\ call'[g] = call[g]
    BY FlushesAreFibers DEF SameCalls
  <1>2. Streams' /\ NoLockIssues' /\ FlushesNeverDial'
    BY <1>1 DEF PipeInv, Streams, NoLockIssues, FlushesNeverDial, SameCalls, NoTypeError, connVars
  <1>3. PipeTypeOK'
    BY DEF PipeInv, PipeTypeOK
  <1>4. OneTurn'
    BY DEF OneTurn, muxVars
  <1>5. ASSUME NEW g \in Flushes \ {f}
        PROVE  Progress(g)' /\ Matching(g)'
    <2>1. Progress(g) /\ Matching(g)
      BY DEF PipeInv
    <2>2. call'[g] = call[g] /\ batch'[g] = batch[g] /\ results'[g] = results[g]
      BY <1>1
    <2> QED
      BY <2>1, <2>2 DEF Progress, Matching, Flushing
  <1> QED
    BY <1>2, <1>3, <1>4, <1>5 DEF PipeInv

\* What a step of a flush() finds.
LEMMA FlushTypes ==
    ASSUME PipeInv, NEW f \in Flushes, Flushing(f)
    PROVE  /\ f \in Fibers \ {Mux} /\ InTurn(f) /\ ~ isProcessing /\ task[f].pc = "idle"
           /\ call[f].sock \in Sockets /\ NoTypeError(f)
           /\ call \in [Fibers -> Calls] /\ call[f] \in Calls
           /\ batch[f] \in Seq(Requests) /\ results[f] \in Seq(Outcomes(Requests))
           /\ Len(results[f]) \in Nat /\ Len(batch[f]) \in Nat
           /\ Len(results[f]) < Len(batch[f])
           /\ call[f].req = batch[f][Len(results[f]) + 1]
  <1>1. f \in Fibers \ {Mux} /\ InTurn(f) /\ ~ isProcessing /\ task[f].pc = "idle"
    BY FlushesAreFibers, FlushIsAlone DEF PipeInv, FlushesNeverDial
  <1>2. call[f].sock \in Sockets /\ NoTypeError(f)
    BY <1>1 DEF PipeInv, Streams, Flushing, NoLockIssues, NoTypeError
  <1>3. batch[f] \in Seq(Requests) /\ results[f] \in Seq(Outcomes(Requests))
    BY DEF PipeInv, PipeTypeOK
  <1>4. Len(results[f]) < Len(batch[f]) /\ call[f].req = batch[f][Len(results[f]) + 1]
    BY DEF PipeInv, Progress
  <1> QED
    BY <1>1, <1>2, <1>3, <1>4, FibreTypes

LEMMA PipeCallStepInv ==
    ASSUME PipeInv, NEW f \in Flushes, CallStep(f),
           UNCHANGED <<connVars, muxVars, pipeVars>>
    PROVE  PipeInv'
  <1>1. Flushing(f)
    BY DEF Flushing, CallStep, WriteOk, WriteFails, StartRead, ReadReply, ReadFails
  <1>2. InTurn(f)' /\ NoTypeError(f)' /\ SameCalls(f)
    BY <1>1, FlushTypes, CallStepTurn, CallStepNoTypeError
  <1>3. call'[f].sock = call[f].sock /\ call'[f].req = call[f].req
    BY <1>1, FlushTypes, CallStepSocket
  <1>4. MuxRests'
    BY <1>1, <1>2, FlushTypes, FlushesAreFibers
    DEF PipeInv, MuxRests, SameCalls, connVars, muxVars
  <1>5. Progress(f)'
    BY <1>1, <1>3 DEF PipeInv, Progress, pipeVars
  <1> QED
    BY <1>1, <1>2, <1>3, <1>4, <1>5, FlushTypes, PipeKeepsOthers
    DEF PipeInv, PipeTypeOK, Matching, pipeVars

\* What flush() has collected once the call of f is done.
LEMMA CollectedResults ==
    ASSUME PipeInv, NEW f \in Flushes, CallDone(f),
           results' = [results EXCEPT ![f] = Append(@, call[f].res)], UNCHANGED batch
    PROVE  /\ Flushing(f) /\ call[f].res \in Outcomes(Requests)
           /\ call[f].res.kind = "fault" \/ call[f].res.of = batch[f][Len(results[f]) + 1]
           /\ results' \in [Flushes -> Seq(Outcomes(Requests))]
           /\ Len(results'[f]) = Len(results[f]) + 1
           /\ results'[f][Len(results[f]) + 1] = call[f].res
           /\ \A i \in DOMAIN results[f] : i \in DOMAIN results'[f] /\ results'[f][i] = results[f][i]
           /\ DOMAIN results'[f] = DOMAIN results[f] \cup {Len(results[f]) + 1}
           /\ \A g \in Flushes \ {f} : results'[g] = results[g]
           /\ Matching(f)'
  <1>1. Flushing(f) /\ call[f].st = "done"
    BY DEF CallDone, Flushing
  <1>2. /\ call[f].res \in Outcomes(Requests)
        /\ call[f].res.kind = "fault" \/ call[f].res.of = batch[f][Len(results[f]) + 1]
    BY <1>1, FlushTypes DEF InTurn, CallOf, WireOf
  <1> DEFINE old == results[f]
  <1>3. old \in Seq(Outcomes(Requests)) /\ results \in [Flushes -> Seq(Outcomes(Requests))]
    BY DEF PipeInv, PipeTypeOK
  <1>4. results'[f] = Append(old, call[f].res)
    BY <1>3
  <1>5. /\ Append(old, call[f].res) \in Seq(Outcomes(Requests))
        /\ Len(Append(old, call[f].res)) = Len(old) + 1
        /\ \A i \in 1 .. Len(old) : Append(old, call[f].res)[i] = old[i]
        /\ Append(old, call[f].res)[Len(old) + 1] = call[f].res
    BY <1>2, <1>3, AppendProperties
  <1>6. Len(old) \in Nat /\ DOMAIN old = 1 .. Len(old)
    BY <1>3
  <1>7. DOMAIN Append(old, call[f].res) = 1 .. Len(old) + 1
    BY <1>5, <1>6
  <1>8. /\ results' \in [Flushes -> Seq(Outcomes(Requests))]
        /\ \A g \in Flushes \ {f} : results'[g] = results[g]
    BY <1>3, <1>5
  <1>9. \A i \in DOMAIN results'[f] : i \in DOMAIN old \/ i = Len(old) + 1
    BY <1>4, <1>6, <1>7
  <1>10. \A i \in DOMAIN old : old[i].kind # "fault" /\ old[i].of = batch[f][i] /\ i <= Len(batch[f])
    BY <1>1 DEF PipeInv, Progress, Matching
  <1>11. Len(old) + 1 <= Len(batch[f])
    BY <1>1, FlushTypes
  <1> QED
    BY <1>1, <1>2, <1>4, <1>5, <1>6, <1>7, <1>8, <1>9, <1>10, <1>11 DEF Matching

LEMMA PipeCollectsInv ==
    ASSUME PipeInv, NEW f \in Flushes, PipeCollects(f)
    PROVE  PipeInv'
  <1>1. /\ CallDone(f) /\ call[f].res.kind # "fault"
        /\ results' = [results EXCEPT ![f] = Append(@, call[f].res)]
        /\ UNCHANGED <<rid, link, out, inb, rlock, runs, connVars, muxVars, commands, given,
                       batch>>
    BY DEF PipeCollects
  <1>2. Flushing(f) /\ call[f].st = "done"
    BY <1>1 DEF CallDone, Flushing
  <1> DEFINE n == Len(results[f]) + 1
  <1>3. Len(results'[f]) = n /\ n \in Nat /\ Len(batch[f]) \in Nat /\ batch[f] \in Seq(Requests)
    <2>1. Len(results'[f]) = Len(results[f]) + 1
      BY <1>1, <1>2, CollectedResults
    <2> QED
      BY <1>2, <2>1, FlushTypes
  <1>4. CASE n < Len(batch[f])
    <2>1. batch[f][n + 1] \in Requests
      <3>1. n + 1 \in 1 .. Len(batch[f])
        BY <1>3, <1>4
      <3> QED
        BY <1>3, <3>1, ElementOfSeq
    <2>2. Send(f, call[f].sock, batch[f][n + 1], wlock)
      BY <1>3, <1>4 DEF PipeCollects
    <2>3. InTurn(f)' /\ MuxRests'
      BY <1>1, <1>2, <2>1, <2>2, FlushTypes, FibreSends DEF PipeInv
    <2>4. NoTypeError(f)' /\ SameCalls(f) /\ call'[f].sock = call[f].sock
      BY <1>2, <2>1, <2>2, FlushTypes, SendNoTypeError
    <2>5. call'[f].req = batch[f][n + 1]
      BY <2>2, <1>2, FlushTypes DEF Send
    <2>6. \A i \in DOMAIN results'[f] : results'[f][i].kind # "fault"
      BY <1>1, <1>2, CollectedResults DEF PipeInv, Progress
    <2>7. Progress(f)'
      BY <1>1, <1>3, <1>4, <2>5, <2>6 DEF Progress
    <2> QED
      BY <1>1, <1>2, <2>3, <2>4, <2>7, FlushTypes, CollectedResults, PipeKeepsOthers
      DEF PipeInv, PipeTypeOK
  <1>5. CASE ~ (n < Len(batch[f]))
    <2>1. EndCall(f)
      BY <1>3, <1>5 DEF PipeCollects
    <2>2. InTurn(f)' /\ MuxRests'
      BY <1>1, <1>2, <2>1, FlushTypes, FibreEnds DEF PipeInv
    <2>3. NoTypeError(f)' /\ SameCalls(f) /\ call'[f].st = "idle"
      BY <1>2, <2>1, FlushTypes, EndNoTypeError DEF EndCall
    <2>4. Progress(f)'
      BY <2>3 DEF Progress, Flushing
    <2> QED
      BY <1>1, <1>2, <2>2, <2>3, <2>4, FlushTypes, CollectedResults, PipeKeepsOthers
      DEF PipeInv, PipeTypeOK
  <1> QED
    BY <1>4, <1>5

LEMMA PipeThrowsInv ==
    ASSUME PipeInv, NEW f \in Flushes, PipeThrows(f)
    PROVE  PipeInv'
  <1>1. /\ CallDone(f) /\ EndCall(f)
        /\ results' = [results EXCEPT ![f] = Append(@, call[f].res)]
        /\ UNCHANGED <<rid, link, out, inb, rlock, runs, connVars, muxVars, commands, given,
                       batch>>
    BY DEF PipeThrows
  <1>2. Flushing(f) /\ call[f].st = "done"
    BY <1>1 DEF CallDone, Flushing
  <1>3. InTurn(f)' /\ MuxRests'
    BY <1>1, <1>2, FlushTypes, FibreEnds DEF PipeInv
  <1>4. NoTypeError(f)' /\ SameCalls(f) /\ call'[f].st = "idle"
    BY <1>1, <1>2, FlushTypes, EndNoTypeError DEF EndCall
  <1>5. Progress(f)'
    BY <1>4 DEF Progress, Flushing
  <1> QED
    BY <1>1, <1>2, <1>3, <1>4, <1>5, FlushTypes, CollectedResults, PipeKeepsOthers
    DEF PipeInv, PipeTypeOK

LEMMA ToFlushType ==
    ASSUME NEW p \in Pipes, commands \in [Pipes -> Seq(Commands)]
    PROVE  ToFlush(p) \in Seq(Requests)
  <1>1. commands[p] \in Seq(Requests)
    <2>1. commands[p] \in Seq(Commands)
      OBVIOUS
    <2> QED
      BY <2>1, SeqMonotonic, WireAssumption
  <1>2. <<"MULTI">> \in Seq(Requests) /\ <<"EXEC">> \in Seq(Requests)
    BY PipelineAssumption
  <1>3. <<"MULTI">> \o commands[p] \in Seq(Requests)
    BY <1>1, <1>2, ConcatProperties
  <1>4. <<"MULTI">> \o commands[p] \o <<"EXEC">> \in Seq(Requests)
    BY <1>2, <1>3, ConcatProperties
  <1> QED
    BY <1>1, <1>4 DEF ToFlush

LEMMA FlushStepInv ==
    ASSUME PipeInv, NEW f \in Flushes, Flush(f), ~ isProcessing, ~ SomeFlush
    PROVE  PipeInv'
  <1> DEFINE list == ToFlush(PipeOf[f])
  <1>1. /\ list # <<>>
        /\ batch' = [batch EXCEPT ![f] = list]
        /\ results' = [results EXCEPT ![f] = <<>>]
        /\ commands' = [commands EXCEPT ![PipeOf[f]] = <<>>]
        /\ Send(f, cur, Head(list), wlock)
        /\ UNCHANGED <<rid, link, out, inb, rlock, runs, connVars, muxVars, given>>
    BY DEF Flush
  <1>2. /\ InTurn(f) /\ call[f].st = "idle" /\ PipeOf[f] \in Pipes
        /\ f \in Fibers \ {Mux} /\ task[f].pc = "idle" /\ cur \in Sockets /\ MuxRests
    BY AnyonesTurn, FlushesAreFibers, PipelineAssumption DEF PipeInv, FlushesNeverDial, Streams
  <1>3. /\ batch \in [Flushes -> Seq(Requests)] /\ commands \in [Pipes -> Seq(Commands)]
        /\ results \in [Flushes -> Seq(Outcomes(Requests))]
    BY DEF PipeInv, PipeTypeOK
  <1>4. list \in Seq(Requests) /\ Len(list) \in Nat /\ Len(list) # 0 /\ Head(list) = list[1]
    <2>1. list \in Seq(Requests)
      BY <1>2, <1>3, ToFlushType
    <2> QED
      BY <1>1, <2>1, EmptySeq
  <1>5. Head(list) \in Requests
    BY <1>4, ElementOfSeq
  <1>6. InTurn(f)' /\ MuxRests'
    BY <1>1, <1>2, <1>5, FibreSends
  <1>7. NoTypeError(f)' /\ SameCalls(f) /\ call'[f].sock = cur
    BY <1>1, <1>2, <1>5, SendNoTypeError
  <1>8. results'[f] = <<>> /\ batch'[f] = list
    BY <1>1, <1>3
  <1>9. call'[f].req = list[1]
    BY <1>1, <1>2, <1>4, FibreTypes DEF Send
  <1>10. Len(results'[f]) = 0 /\ DOMAIN results'[f] = {}
    BY <1>8
  <1>11. Progress(f)' /\ Matching(f)'
    <2>1. Matching(f)'
      BY <1>10 DEF Matching
    <2> QED
      BY <1>4, <1>8, <1>9, <1>10, <2>1 DEF Progress
  <1>12. /\ batch' \in [Flushes -> Seq(Requests)] /\ commands' \in [Pipes -> Seq(Commands)]
         /\ results' \in [Flushes -> Seq(Outcomes(Requests))]
    <2>1. <<>> \in Seq(Commands) /\ <<>> \in Seq(Outcomes(Requests))
      OBVIOUS
    <2>2. batch' \in [Flushes -> Seq(Requests)]
      BY <1>1, <1>3, <1>4
    <2>3. commands' \in [Pipes -> Seq(Commands)]
      BY <1>1, <1>3, <2>1
    <2>4. results' \in [Flushes -> Seq(Outcomes(Requests))]
      BY <1>1, <1>3, <2>1
    <2> QED
      BY <2>2, <2>3, <2>4
  <1>13. \A g \in Flushes \ {f} : batch'[g] = batch[g] /\ results'[g] = results[g]
    BY <1>1, <1>3
  <1> QED
    BY <1>1, <1>2, <1>6, <1>7, <1>11, <1>12, <1>13, PipeKeepsOthers

-----------------------------------------------------------------------------
(* The steps around the fibres, and the theorems.                           *)

LEMMA ExchangeTurn ==
    ASSUME NEW f \in Fibers, InTurn(f), NEW s \in Sockets, Exchange(s)
    PROVE  InTurn(f)' /\ UNCHANGED call
  <1> DEFINE r == Head(out[s])
  <1>1. out[s] # <<>> /\ r \in Requests /\ UNCHANGED <<connVars, muxVars>>
    <2>1. out[s] \in Seq(Requests) /\ out[s] # <<>>
      BY DEF Exchange, InTurn, TypesOK, WireTypeOK
    <2> QED
      BY <2>1 DEF Exchange
  <1>2. /\ Value(r) \in Replies(Requests) /\ Value(r).of = r
        /\ ErrorReply(r) \in Replies(Requests) /\ ErrorReply(r).of = r
    BY <1>1, OutcomeType DEF Value, ErrorReply
  <1>3. \A a \in Answers(r) : a \in Replies(Requests) /\ a.of = r
    BY <1>2 DEF Answers
  <1>4. CASE ServeNow(s)
    BY <1>1, <1>4, ServerTurn DEF ServeNow, ServerExec, Serves
  <1>5. CASE ServeMulti(s) \/ ServeQueued(s) \/ ServeExec(s)
    <2>1. \E ran, a : a \in Replies(Requests) /\ a.of = r /\ Serves(s, ran, a)
      BY <1>2, <1>3, <1>5 DEF ServeMulti, ServeQueued, ServeExec
    <2> QED
      BY <1>1, <2>1, ServesTurn DEF Serves
  <1> QED
    BY <1>4, <1>5 DEF Exchange

\* What happens around the fibres leaves the turn where it is.
LEMMA AroundInv ==
    ASSUME PipeInv,
           \/ UserClose
           \/ \E c \in Commands : ExecRefused(c) /\ UNCHANGED pipeVars
           \/ \E s \in Sockets : Exchange(s) \/ Cut(s)
    PROVE  PipeInv'
  <1>1. PICK g \in {Mux} \cup Flushes : InTurn(g) /\ (isProcessing => g = Mux)
    BY DEF PipeInv, OneTurn
  <1>2. g \in Fibers
    BY FlushesAreFibers
  <1>3. /\ InTurn(g)' /\ UNCHANGED <<call, cur, task, queue, isProcessing, pipeVars>>
    <2>1. CASE UserClose
      BY <1>1, <1>2, <2>1, CloseTurn DEF UserClose, muxVars
    <2>2. ASSUME NEW c \in Commands, ExecRefused(c), UNCHANGED pipeVars
          PROVE  InTurn(g)' /\ UNCHANGED <<call, cur, task, queue, isProcessing, pipeVars>>
      BY <1>1, <1>2, <2>2, ExecRefusedTurn DEF ExecRefused, connVars, wireVars
    <2>3. ASSUME NEW s \in Sockets, Exchange(s)
          PROVE  InTurn(g)' /\ UNCHANGED <<call, cur, task, queue, isProcessing, pipeVars>>
      BY <1>1, <1>2, <2>3, ExchangeTurn DEF Exchange, connVars, muxVars
    <2>4. ASSUME NEW s \in Sockets, Cut(s)
          PROVE  InTurn(g)' /\ UNCHANGED <<call, cur, task, queue, isProcessing, pipeVars>>
      BY <1>1, <1>2, <2>4, LinkCutTurn DEF Cut, LinkCut, connVars, muxVars
    <2> QED
      BY <2>1, <2>2, <2>3, <2>4
  <1>4. OneTurn'
    BY <1>1, <1>3 DEF OneTurn
  <1>5. PipeTypeOK' /\ MuxRests' /\ Streams' /\ NoLockIssues'
    BY <1>3 DEF PipeInv, PipeTypeOK, MuxRests, Streams, NoLockIssues, pipeVars
  <1> QED
    BY <1>3, <1>4, <1>5, FlushesStay DEF PipeInv, pipeVars

LEMMA SameInv ==
    ASSUME PipeInv, UNCHANGED <<wireVars, connVars, muxVars, batch, results>>, PipeTypeOK'
    PROVE  PipeInv'
  <1>1. PICK g \in {Mux} \cup Flushes : InTurn(g) /\ (isProcessing => g = Mux)
    BY DEF PipeInv, OneTurn
  <1>2. TypesOK' /\ Others(g)' /\ CallOf(g)' /\ TaskOf(g)' /\ BudgetOf(g)'
    BY <1>1 DEF InTurn, TypesOK, WireTypeOK, ConnTypeOK, MuxTypeOK, Others, Rests, CallOf, TaskOf,
                BudgetOf, wireVars, connVars, muxVars
  <1>3. SocketsOf(g)' /\ LocksOf(g)' /\ WireOf(g)' /\ ErrorsOf(g)' /\ QueueWorks' /\ OwnReplies'
    BY <1>1 DEF InTurn, SocketsOf, LocksOf, WireOf, ErrorsOf, QueueWorks, OwnReplies,
                wireVars, connVars, muxVars
  <1>4. OneTurn'
    BY <1>1, <1>2, <1>3 DEF OneTurn, InTurn, muxVars
  <1>5. MuxRests' /\ Streams' /\ NoLockIssues'
    BY DEF PipeInv, MuxRests, Streams, NoLockIssues, wireVars, connVars, muxVars
  <1> QED
    BY <1>4, <1>5, FlushesStay DEF PipeInv, wireVars, connVars

LEMMA PipeExecInv ==
    ASSUME PipeInv, NEW p \in Pipes, NEW c \in Commands, PipeExec(p, c)
    PROVE  PipeInv'
  <1>1. /\ given' = given \cup {c} /\ commands' = [commands EXCEPT ![p] = Append(@, c)]
        /\ UNCHANGED <<wireVars, connVars, muxVars, batch, results>>
    BY DEF PipeExec
  <1>2. PipeTypeOK'
    BY <1>1 DEF PipeInv, PipeTypeOK
  <1> QED
    BY <1>1, <1>2, SameInv

LEMMA NextPipeInv ==
    ASSUME overlapped \/ PipeInv, [Next]_vars
    PROVE  (overlapped \/ PipeInv)'
  <1>1. CASE Fibre
    <2>1. UNCHANGED overlapped
      BY <1>1 DEF Fibre, PipeStep, PipeCollects, PipeThrows, histories
    <2>2. ASSUME PipeInv
          PROVE  PipeInv'
      <3>1. CASE \E f \in Flushes : PipeStep(f)
        BY <2>2, <3>1, PipeCallStepInv, PipeCollectsInv, PipeThrowsInv DEF PipeStep
      <3> QED
        BY <1>1, <2>2, <3>1, MuxCallStepInv, MuxConnStepInv, MuxStepInv DEF Fibre
    <2> QED
      BY <2>1, <2>2
  <1>2. CASE UserClose \/ \E s \in Sockets : Exchange(s) \/ Cut(s)
    <2>1. UNCHANGED overlapped
      BY <1>2 DEF UserClose, Exchange, Cut, histories
    <2> QED
      BY <1>2, <2>1, AroundInv
  <1>3. ASSUME NEW c \in Commands, UserExec(c)
        PROVE  (overlapped \/ PipeInv)'
    <2>1. /\ UNCHANGED pipeVars
          /\ \/ Exec(c) /\ overlapped' = (overlapped \/ SomeFlush)
             \/ ExecRefused(c) /\ UNCHANGED overlapped
      BY <1>3 DEF UserExec
    <2> QED
      BY <2>1, AroundInv, UserExecInv
  <1>4. ASSUME NEW p \in Pipes, NEW c \in Commands, PipeExec(p, c)
        PROVE  (overlapped \/ PipeInv)'
    BY <1>4, PipeExecInv DEF PipeExec, histories
  <1>5. ASSUME NEW f \in Flushes, Flush(f)
        PROVE  (overlapped \/ PipeInv)'
    <2>1. overlapped' = (overlapped \/ isProcessing \/ SomeFlush)
      BY <1>5 DEF Flush
    <2> QED
      BY <1>5, <2>1, FlushStepInv
  <1>6. CASE UNCHANGED vars
    BY <1>6, SameInv DEF vars, PipeInv, PipeTypeOK, pipeVars, histories
  <1> QED
    BY <1>1, <1>2, <1>3, <1>4, <1>5, <1>6 DEF Next

\* Until a flush() is made while something else uses the connection, or something else
\* is begun during one, the executor and the calls of flush() take turns.
THEOREM PipelinesTakeTurns == Spec => [](overlapped \/ PipeInv)
  <1>1. Init => overlapped \/ PipeInv
    BY InitPipeInv
  <1>2. (overlapped \/ PipeInv) /\ [Next]_vars => (overlapped \/ PipeInv)'
    BY NextPipeInv
  <1> QED
    BY <1>1, <1>2, PTL DEF Spec

\* pipeline.ts, sendCommands(): as long as nothing has overlapped, the results of a
\* flush() are the replies to its commands in their order, up to the first exception,
\* however often the connection fails and whatever the executor has reconnected.
THEOREM PipelineResultsMatch == Spec => []ResultsMatchCommands
  <1>1. overlapped \/ PipeInv => ResultsMatchCommands
    BY DEF PipeInv, Matching, ResultsMatchCommands
  <1> QED
    BY <1>1, PipelinesTakeTurns, PTL

\* executor.ts: as long as nothing has overlapped, a promise of the executor never
\* settles with the reply to a request of a pipeline on the same streams.
THEOREM PipelineNoForeignReply == Spec => []NoForeignReply
  <1>1. Internal \subseteq {"PING", "AUTH", "SELECT", "SETNAME"}
    BY ConnectionAssumption DEF Internal
  <1>2. overlapped \/ PipeInv => NoForeignReply
    BY <1>1 DEF PipeInv, OneTurn, InTurn, OwnReplies, OwnOutcome, NoForeignReply
  <1> QED
    BY <1>2, PipelinesTakeTurns, PTL

-----------------------------------------------------------------------------
(* Whatever overlaps: a command of a pipeline is handed to a socket once.   *)

Owned == {c \in Commands : OwnerOf[c] # None}

\* Calls and activations are records; what else they hold does not matter here.
CallsIn(S) == [st : S, sock : S, req : S, res : S]
TasksIn(S) == [pc : S, mode : S, step : Nat, err : S, dials : S]

Shaped ==
    /\ \E S : call \in [Fibers -> CallsIn(S)]
    /\ \E S : task \in [Fibers -> TasksIn(S)]
    /\ \E S : results \in [Flushes -> Seq(S)]
    /\ commands \in [Pipes -> Seq(Commands)] /\ given \subseteq Commands
    /\ batch \in [Flushes -> Seq(Requests)] /\ queue \in Seq(Commands)
    /\ out \in [Sockets -> Seq(Requests)] /\ runs \in [Commands -> Nat]
    /\ inside \in [Sockets -> SUBSET Requests]

\* The executor's fibre writes none of them.
MuxWrites ==
    /\ call[Mux].st = "writing" => call[Mux].req \in Requests \ Owned
    /\ \A i \in DOMAIN queue : queue[i] \notin Owned
    /\ isProcessing => queue # <<>>

\* A flush() that is under way is at the first request without a result.
Reached(f) ==
    Flushing(f) =>
        Len(results[f]) < Len(batch[f]) /\ call[f].req = batch[f][Len(results[f]) + 1]

\* Each is in one place at most: waiting in its pipeline, or in the list of one flush().
Placed ==
    /\ \A p \in Pipes : \A i, j \in DOMAIN commands[p] :
         /\ commands[p][i] \in given /\ OwnerOf[commands[p][i]] = p
         /\ commands[p][i] = commands[p][j] => i = j
    /\ \A f \in Flushes : \A i \in DOMAIN batch[f] : batch[f][i] \in Owned =>
         /\ batch[f][i] \in given
         /\ \A p \in Pipes : \A j \in DOMAIN commands[p] : commands[p][j] # batch[f][i]
         /\ \A g \in Flushes : \A j \in DOMAIN batch[g] :
               batch[g][j] = batch[f][i] => g = f /\ j = i

\* The i-th request of a flush() has been handed to its socket, or thrown.
Handed(f, i) ==
    \/ i <= Len(results[f])
    \/ i = Len(results[f]) + 1 /\ call[f].st \in {"written", "reading", "done"}

Sent(c) == \E f \in Flushes : \E i \in DOMAIN batch[f] : batch[f][i] = c /\ Handed(f, i)

\* What the server has of them: nothing twice, and nothing that was not sent.
Arrived(c) ==
    /\ runs[c] <= 1 /\ (runs[c] > 0 => Sent(c))
    /\ \A s \in Sockets : \A i \in DOMAIN out[s] : out[s][i] = c =>
         /\ Sent(c) /\ runs[c] = 0
         /\ \A t \in Sockets : \A j \in DOMAIN out[t] : out[t][j] = c => t = s /\ j = i
         /\ \A t \in Sockets : c \notin inside[t]
    /\ \A s \in Sockets : c \in inside[s] =>
         /\ Sent(c) /\ runs[c] = 0
         /\ \A t \in Sockets : c \in inside[t] => t = s

OnceInv ==
    /\ Shaped /\ MuxWrites /\ Placed
    /\ \A f \in Flushes : Reached(f)
    /\ \A c \in Owned : Arrived(c)

-----------------------------------------------------------------------------

LEMMA InitOnce ==
    ASSUME Init
    PROVE  OnceInv
  <1>1. /\ \A f \in Fibers : call[f] = NoCall /\ task[f] = NoTask
        /\ NoCall.st = "idle" /\ \A f \in Flushes \cup {Mux} : f \in Fibers
        /\ queue = <<>> /\ given = {} /\ isProcessing = FALSE
        /\ \A p \in Pipes : commands[p] = <<>>
        /\ \A f \in Flushes : batch[f] = <<>> /\ results[f] = <<>>
        /\ \A s \in Sockets : out[s] = <<>> /\ inside[s] = {}
        /\ \A c \in Commands : runs[c] = 0
    BY FlushesAreFibers DEF Init, MuxInit, NoCall
  <1>2. Shaped
    <2>1. NoCall \in CallsIn({"idle", NoSocket, None})
      BY DEF NoCall, CallsIn
    <2>2. NoTask \in TasksIn({"idle", "connect", None, 0})
      BY DEF NoTask, TasksIn
    <2>3. call \in [Fibers -> CallsIn({"idle", NoSocket, None})]
      BY <2>1 DEF Init
    <2>4. task \in [Fibers -> TasksIn({"idle", "connect", None, 0})]
      BY <2>2 DEF Init
    <2>5. /\ <<>> \in Seq(Commands) /\ <<>> \in Seq(Requests) /\ <<>> \in Seq({})
      OBVIOUS
    <2>6. results \in [Flushes -> Seq({})]
      BY <2>5 DEF Init
    <2>7. /\ commands \in [Pipes -> Seq(Commands)] /\ given \subseteq Commands
          /\ batch \in [Flushes -> Seq(Requests)] /\ queue \in Seq(Commands)
      BY <2>5 DEF Init, MuxInit
    <2>8. /\ out \in [Sockets -> Seq(Requests)] /\ runs \in [Commands -> Nat]
          /\ inside \in [Sockets -> SUBSET Requests]
      BY <2>5 DEF Init
    <2> QED
      BY <2>3, <2>4, <2>6, <2>7, <2>8 DEF Shaped
  <1>3. MuxWrites /\ Placed /\ \A f \in Flushes : Reached(f)
    BY <1>1 DEF MuxWrites, Placed, Reached, Flushing
  <1>4. \A c \in Owned : Arrived(c)
    BY <1>1 DEF Arrived, Owned
  <1> QED
    BY <1>2, <1>3, <1>4 DEF OnceInv

\* A call of f becomes another record.
LEMMA CallBecomes ==
    ASSUME Shaped, NEW f \in Fibers, NEW T, NEW x \in CallsIn(T), call' = [call EXCEPT ![f] = x]
    PROVE  (\E S : call' \in [Fibers -> CallsIn(S)]) /\ call'[f] = x /\ SameCalls(f)
  <1>1. PICK S : call \in [Fibers -> CallsIn(S)]
    BY DEF Shaped
  <1>2. \A y : y \in CallsIn(S) \/ y \in CallsIn(T) => y \in CallsIn(S \cup T)
    BY DEF CallsIn
  <1>3. call' \in [Fibers -> CallsIn(S \cup T)]
    BY <1>1, <1>2
  <1> QED
    BY <1>1, <1>3 DEF SameCalls

LEMMA SendBecomes ==
    ASSUME Shaped, NEW f \in Fibers, NEW s, NEW r, Send(f, s, r, wlock)
    PROVE  /\ \E S : call' \in [Fibers -> CallsIn(S)]
           /\ SameCalls(f) /\ call'[f].req = r /\ call'[f].st \in {"writing", "done"}
  <1> DEFINE ok == s # NoSocket /\ wlock[s] = None
             x == [st |-> IF ok THEN "writing" ELSE "done", sock |-> s, req |-> r,
                   res |-> IF ok THEN None ELSE Fault("TypeError")]
  <1>1. call' = [call EXCEPT ![f] = x]
    BY DEF Send
  <1>2. x \in CallsIn({"writing", "done", s, r, None, Fault("TypeError")})
    BY DEF CallsIn
  <1>3. x.req = r /\ x.st \in {"writing", "done"}
    OBVIOUS
  <1> HIDE DEF x
  <1> QED
    BY <1>1, <1>2, <1>3, CallBecomes

LEMMA EndBecomes ==
    ASSUME Shaped, NEW f \in Fibers, call' = [call EXCEPT ![f] = NoCall]
    PROVE  /\ \E S : call' \in [Fibers -> CallsIn(S)]
           /\ SameCalls(f) /\ call'[f].st = "idle"
  <1>1. NoCall \in CallsIn({"idle", NoSocket, None}) /\ NoCall.st = "idle"
    BY DEF NoCall, CallsIn
  <1> QED
    BY <1>1, CallBecomes

\* A step inside sendCommand(): only a write that succeeds hands anything over.
LEMMA CallStepBecomes ==
    ASSUME Shaped, NEW f \in Fibers, CallStep(f)
    PROVE  /\ \E S : call' \in [Fibers -> CallsIn(S)]
           /\ SameCalls(f) /\ call'[f].req = call[f].req /\ runs' = runs
           /\ call[f].st \in {"writing", "written", "reading"}
           /\ call'[f].st \in {"written", "reading", "done"}
           /\ \/ out' = out
              \/ /\ call[f].st = "writing"
                 /\ out' = [out EXCEPT ![call[f].sock] = Append(@, call[f].req)]
  <1>1. PICK S : call \in [Fibers -> CallsIn(S)]
    BY DEF Shaped
  <1>2. ASSUME NEW st
        PROVE  LET x == [call[f] EXCEPT !.st = st]
               IN  x \in CallsIn(S \cup {st}) /\ x.st = st /\ x.req = call[f].req
    BY <1>1 DEF CallsIn
  <1>3. ASSUME NEW o
        PROVE  /\ Done(f, o) \in CallsIn(S \cup {"done", o})
               /\ Done(f, o).st = "done" /\ Done(f, o).req = call[f].req
    BY <1>1 DEF Done, CallsIn
  <1>4. ASSUME NEW st, call' = [call EXCEPT ![f].st = st]
        PROVE  /\ \E T : call' \in [Fibers -> CallsIn(T)]
               /\ SameCalls(f) /\ call'[f].req = call[f].req /\ call'[f].st = st
    <2> DEFINE x == [call[f] EXCEPT !.st = st]
    <2>1. call' = [call EXCEPT ![f] = x]
      BY <1>1, <1>4
    <2>2. x \in CallsIn(S \cup {st}) /\ x.st = st /\ x.req = call[f].req
      BY <1>2
    <2> HIDE DEF x
    <2> QED
      BY <2>1, <2>2, CallBecomes
  <1>5. ASSUME NEW o, call' = [call EXCEPT ![f] = Done(f, o)]
        PROVE  /\ \E T : call' \in [Fibers -> CallsIn(T)]
               /\ SameCalls(f) /\ call'[f].req = call[f].req /\ call'[f].st = "done"
    BY <1>3, <1>5, CallBecomes
  <1>6. CASE WriteOk(f)
    BY <1>4, <1>6 DEF WriteOk
  <1>7. CASE StartRead(f)
    BY <1>4, <1>5, <1>7 DEF StartRead
  <1>8. CASE WriteFails(f)
    BY <1>5, <1>8 DEF WriteFails
  <1>9. ASSUME NEW o, FinishRead(f, o)
        PROVE  /\ \E T : call' \in [Fibers -> CallsIn(T)]
               /\ SameCalls(f) /\ call'[f].req = call[f].req /\ call'[f].st = "done"
               /\ out' = out /\ runs' = runs
    BY <1>5, <1>9 DEF FinishRead
  <1>10. CASE ReadReply(f)
    BY <1>9, <1>10 DEF ReadReply
  <1>11. CASE ReadFails(f)
    BY <1>9, <1>11 DEF ReadFails
  <1> QED
    BY <1>6, <1>7, <1>8, <1>10, <1>11 DEF CallStep

-----------------------------------------------------------------------------
(* The executor's steps.                                                    *)

LEMMA ServerStill ==
    ASSUME NEW c \in Owned, Arrived(c), Sent(c) => Sent(c)', UNCHANGED <<out, runs, inside>>
    PROVE  Arrived(c)'
  BY DEF Arrived

\* What is left to show of a step that moves no flush() and nothing at the server.
LEMMA FlushesKept ==
    ASSUME OnceInv, Shaped', MuxWrites', \A f \in Flushes : call'[f] = call[f],
           UNCHANGED <<out, runs, inside, pipeVars>>
    PROVE  OnceInv'
  <1>1. Placed' /\ \A f \in Flushes : Reached(f)'
    BY DEF OnceInv, Placed, Reached, Flushing, pipeVars
  <1>2. \A c : Sent(c)' <=> Sent(c)
    BY DEF Sent, Handed, pipeVars
  <1>3. \A c \in Owned : Arrived(c)'
    BY <1>2, ServerStill DEF OnceInv
  <1> QED
    BY <1>1, <1>3 DEF OnceInv

LEMMA TaskBecomes ==
    ASSUME Shaped, NEW f \in Fibers, NEW T, NEW x \in TasksIn(T), task' = [task EXCEPT ![f] = x]
    PROVE  \E S : task' \in [Fibers -> TasksIn(S)]
  <1>1. PICK S : task \in [Fibers -> TasksIn(S)]
    BY DEF Shaped
  <1>2. \A y : y \in TasksIn(S) \/ y \in TasksIn(T) => y \in TasksIn(S \cup T)
    BY DEF TasksIn
  <1>3. task' \in [Fibers -> TasksIn(S \cup T)]
    BY <1>1, <1>2
  <1> QED
    BY <1>3

\* The steps of connect() and reconnect() change some fields of the activation.
LEMMA TaskChanges ==
    ASSUME Shaped, NEW f \in Fibers, NEW a, NEW b
    PROVE  /\ task' = [task EXCEPT ![f].pc = a] => \E S : task' \in [Fibers -> TasksIn(S)]
           /\ task' = [task EXCEPT ![f] = [@ EXCEPT !.pc = a, !.err = b]]
                => \E S : task' \in [Fibers -> TasksIn(S)]
  <1>1. PICK S : task \in [Fibers -> TasksIn(S)]
    BY DEF Shaped
  <1>2. /\ [task[f] EXCEPT !.pc = a] \in TasksIn(S \cup {a, b})
        /\ [task[f] EXCEPT !.pc = a, !.err = b] \in TasksIn(S \cup {a, b})
    BY <1>1 DEF TasksIn
  <1>3. /\ task' = [task EXCEPT ![f].pc = a] => task' = [task EXCEPT ![f] = [task[f] EXCEPT !.pc = a]]
        /\ task' = [task EXCEPT ![f] = [@ EXCEPT !.pc = a, !.err = b]]
             => task' = [task EXCEPT ![f] = [task[f] EXCEPT !.pc = a, !.err = b]]
    BY <1>1
  <1> QED
    BY <1>2, <1>3, TaskBecomes

\* The executor's fibre after a step: it writes no command of a pipeline.
MuxIsShaped ==
    /\ (\E S : call' \in [Fibers -> CallsIn(S)]) /\ (\E S : task' \in [Fibers -> TasksIn(S)])
    /\ SameCalls(Mux)
    /\ call'[Mux].st = "writing" => call'[Mux].req \in Requests \ Owned

LEMMA MuxCalls ==
    ASSUME Shaped
    PROVE  /\ \A s : \A r \in Requests \ Owned : Send(Mux, s, r, wlock) =>
                /\ (\E S : call' \in [Fibers -> CallsIn(S)]) /\ SameCalls(Mux)
                /\ call'[Mux].req \in Requests \ Owned
           /\ call' = [call EXCEPT ![Mux] = NoCall] =>
                /\ (\E S : call' \in [Fibers -> CallsIn(S)]) /\ SameCalls(Mux)
                /\ call'[Mux].st # "writing"
  <1>1. Mux \in Fibers
    BY FlushesAreFibers
  <1> QED
    BY <1>1, SendBecomes, EndBecomes

LEMMA NotOwned ==
    "PING" \in Requests \ Owned /\ \A i \in 1 .. Len(Hello) : Hello[i] \in Requests \ Owned
  BY InternalRequests DEF Owned

LEMMA ConnectedShape ==
    ASSUME Shaped, NEW s, Connected(Mux, s, wlock)
    PROVE  MuxIsShaped
  <1>1. CASE task[Mux].mode = "reconnect"
    <2>1. task' = [task EXCEPT ![Mux].pc = "reping"] /\ Send(Mux, s, "PING", wlock)
      BY <1>1 DEF Connected
    <2>2. \E S : task' \in [Fibers -> TasksIn(S)]
      BY <2>1, TaskChanges, FlushesAreFibers
    <2> QED
      BY <2>1, <2>2, NotOwned, MuxCalls DEF MuxIsShaped
  <1>2. CASE task[Mux].mode # "reconnect"
    <2>1. task' = [task EXCEPT ![Mux].pc = "ok"] /\ call' = [call EXCEPT ![Mux] = NoCall]
      BY <1>2 DEF Connected
    <2>2. \E S : task' \in [Fibers -> TasksIn(S)]
      BY <2>1, TaskChanges, FlushesAreFibers
    <2> QED
      BY <2>1, <2>2, MuxCalls DEF MuxIsShaped
  <1> QED
    BY <1>1, <1>2

LEMMA CatchShape ==
    ASSUME Shaped, NEW o, ConnectCatches(Mux, o)
    PROVE  MuxIsShaped
  <1>1. \/ task' = [task EXCEPT ![Mux] = [@ EXCEPT !.pc = "failed", !.err = o]]
        \/ task' = [task EXCEPT ![Mux].pc = "delay"]
    <2>1. PICK S : task \in [Fibers -> TasksIn(S)]
      BY DEF Shaped
    <2> QED
      BY <2>1 DEF ConnectCatches
  <1>2. \E S : task' \in [Fibers -> TasksIn(S)]
    BY <1>1, TaskChanges, FlushesAreFibers
  <1>3. call' = [call EXCEPT ![Mux] = NoCall]
    BY DEF ConnectCatches
  <1> QED
    BY <1>2, <1>3, MuxCalls DEF MuxIsShaped

LEMMA ConnShape ==
    ASSUME OnceInv, ConnStep(Mux)
    PROVE  MuxIsShaped
  <1>0. Shaped /\ Mux \in Fibers /\ (call[Mux].st = "writing" => call[Mux].req \in Requests \ Owned)
    BY FlushesAreFibers DEF OnceInv, MuxWrites
  <1>1. PICK S : task \in [Fibers -> TasksIn(S)]
    BY <1>0 DEF Shaped
  <1>2. ASSUME NEW x \in TasksIn(S \cup {"hello", "dialing", "connect", "reconnect", None, 1}
                                    \cup Nat),
               task' = [task EXCEPT ![Mux] = x]
        PROVE  \E T : task' \in [Fibers -> TasksIn(T)]
    BY <1>0, <1>2, TaskBecomes
  <1>3. CASE DialOk(Mux)
    <2>1. PICK s \in Sockets :
            IF Hello = <<>>
            THEN Connected(Mux, s, wlock)
            ELSE /\ task' = [task EXCEPT ![Mux].pc = "hello", ![Mux].step = 1]
                 /\ Send(Mux, s, Hello[1], wlock)
      BY <1>3 DEF DialOk
    <2>2. CASE Hello = <<>>
      BY <1>0, <2>1, <2>2, ConnectedShape
    <2>3. CASE Hello # <<>>
      <3> DEFINE x == [task[Mux] EXCEPT !.pc = "hello", !.step = 1]
      <3>1. task' = [task EXCEPT ![Mux] = x]
        BY <1>0, <1>1, <2>1, <2>3
      <3>2. x \in TasksIn(S \cup {"hello", "dialing", "connect", "reconnect", None, 1} \cup Nat)
        BY <1>0, <1>1 DEF TasksIn
      <3> HIDE DEF x
      <3>3. \E T : task' \in [Fibers -> TasksIn(T)]
        BY <1>2, <3>1, <3>2
      <3>4. Hello[1] \in Requests \ Owned
        BY <2>3, NotOwned, InternalRequests
      <3> QED
        BY <1>0, <2>1, <2>3, <3>3, <3>4, MuxCalls DEF MuxIsShaped
    <2> QED
      BY <2>2, <2>3
  <1>4. CASE DialFails(Mux) \/ HelloFails(Mux)
    BY <1>0, <1>4, CatchShape DEF DialFails, HelloFails
  <1>5. CASE HelloStep(Mux)
    <2>1. CASE task[Mux].step < Len(Hello)
      <3> DEFINE n == task[Mux].step + 1
                 x == [task[Mux] EXCEPT !.step = n]
      <3>1. n \in Nat /\ task' = [task EXCEPT ![Mux] = x] /\ Send(Mux, cur, Hello[n], wlock)
        BY <1>0, <1>1, <1>5, <2>1 DEF HelloStep, TasksIn
      <3>2. x \in TasksIn(S \cup {"hello", "dialing", "connect", "reconnect", None, 1} \cup Nat)
        BY <1>0, <1>1, <3>1 DEF TasksIn
      <3>3. n \in 1 .. Len(Hello)
        BY <1>0, <1>1, <2>1, InternalRequests DEF TasksIn
      <3> HIDE DEF x, n
      <3>4. \E T : task' \in [Fibers -> TasksIn(T)]
        BY <1>2, <3>1, <3>2
      <3>5. Hello[n] \in Requests \ Owned
        BY <3>3, NotOwned
      <3> QED
        BY <1>0, <3>1, <3>4, <3>5, MuxCalls DEF MuxIsShaped
    <2>2. CASE ~ (task[Mux].step < Len(Hello))
      BY <1>0, <1>5, <2>2, ConnectedShape DEF HelloStep
    <2> QED
      BY <2>1, <2>2
  <1>6. CASE DelayOver(Mux)
    <2> DEFINE x == [task[Mux] EXCEPT !.pc = "dialing", !.dials = @ + 1]
    <2>1. task' = [task EXCEPT ![Mux] = x] /\ UNCHANGED call
      BY <1>6 DEF DelayOver, wireVars
    <2>2. x \in TasksIn(S \cup {"dialing", task[Mux].dials + 1})
      BY <1>0, <1>1 DEF TasksIn
    <2> HIDE DEF x
    <2>3. \E T : task' \in [Fibers -> TasksIn(T)]
      BY <1>0, <2>1, <2>2, TaskBecomes
    <2> QED
      BY <1>0, <2>1, <2>3 DEF MuxIsShaped, SameCalls, Shaped
  <1>7. CASE PingOk(Mux)
    <2>1. task' = [task EXCEPT ![Mux].pc = "ok"] /\ call' = [call EXCEPT ![Mux] = NoCall]
      BY <1>7 DEF PingOk, EndCall
    <2>2. \E T : task' \in [Fibers -> TasksIn(T)]
      BY <1>0, <2>1, TaskChanges
    <2> QED
      BY <1>0, <2>1, <2>2, MuxCalls DEF MuxIsShaped
  <1>8. CASE PingFails(Mux)
    <2> DEFINE x == [NoTask EXCEPT !.pc = "dialing", !.mode = "reconnect", !.dials = 1]
    <2>1. task' = [task EXCEPT ![Mux] = x] /\ call' = [call EXCEPT ![Mux] = NoCall]
      BY <1>8 DEF PingFails, EndCall, StartConnect
    <2>2. x \in TasksIn({"dialing", "reconnect", None, 1})
      BY DEF TasksIn, NoTask
    <2> HIDE DEF x
    <2>3. \E T : task' \in [Fibers -> TasksIn(T)]
      BY <1>0, <2>1, <2>2, TaskBecomes
    <2> QED
      BY <1>0, <2>1, <2>3, MuxCalls DEF MuxIsShaped
  <1>9. CASE RePing(Mux)
    <2>1. /\ \/ task' = [task EXCEPT ![Mux].pc = "ok"]
             \/ task' = [task EXCEPT ![Mux] = [@ EXCEPT !.pc = "failed", !.err = call[Mux].res]]
          /\ call' = [call EXCEPT ![Mux] = NoCall]
      BY <1>1, <1>9 DEF RePing, EndCall
    <2>2. \E T : task' \in [Fibers -> TasksIn(T)]
      BY <1>0, <2>1, TaskChanges
    <2> QED
      BY <1>0, <2>1, <2>2, MuxCalls DEF MuxIsShaped
  <1> QED
    BY <1>3, <1>4, <1>5, <1>6, <1>7, <1>8, <1>9 DEF ConnStep

\* dequeue() takes a command of its own queue.
LEMMA DequeueCalls ==
    ASSUME Shaped, NEW q \in Seq(Commands), \A i \in DOMAIN q : q[i] \notin Owned, Dequeue(q)
    PROVE  /\ (\E S : call' \in [Fibers -> CallsIn(S)]) /\ SameCalls(Mux)
           /\ call'[Mux].st = "writing" => call'[Mux].req \in Requests \ Owned
           /\ isProcessing' => q # <<>>
  <1>1. CASE q = <<>>
    BY <1>1, MuxCalls DEF Dequeue, EndCall
  <1>2. CASE q # <<>>
    <2>1. Head(q) = q[1] /\ 1 \in DOMAIN q /\ q[1] \in Commands
      BY <1>2
    <2>2. Head(q) \in Requests \ Owned
      BY <2>1, WireAssumption
    <2> QED
      BY <1>2, <2>2, MuxCalls DEF Dequeue
  <1> QED
    BY <1>1, <1>2

LEMMA TailUnowned ==
    ASSUME Shaped, \A i \in DOMAIN queue : queue[i] \notin Owned, queue # <<>>
    PROVE  /\ Tail(queue) \in Seq(Commands)
           /\ \A i \in DOMAIN Tail(queue) : Tail(queue)[i] \notin Owned
  <1>1. queue \in Seq(Commands) /\ Len(queue) \in Nat
    BY DEF Shaped
  <1>2. /\ Tail(queue) \in Seq(Commands)
        /\ \A i \in DOMAIN Tail(queue) : i + 1 \in DOMAIN queue /\ Tail(queue)[i] = queue[i + 1]
    BY <1>1
  <1> QED
    BY <1>2

LEMMA MuxStepOnce ==
    ASSUME OnceInv, MuxStep, UNCHANGED <<pipeVars, inside>>
    PROVE  OnceInv'
  <1>0. /\ Shaped /\ Mux \in Fibers
        /\ queue \in Seq(Commands) /\ \A i \in DOMAIN queue : queue[i] \notin Owned
        /\ isProcessing /\ queue # <<>>
    BY FlushesAreFibers DEF OnceInv, MuxWrites, Shaped, MuxStep, Resolve, Reject, Retry, Resume,
                            GiveUp, HeadIsBack
  <1>1. PICK S : task \in [Fibers -> TasksIn(S)]
    BY <1>0 DEF Shaped
  <1>2. ASSUME NEW T, NEW x \in TasksIn(T), task' = [task EXCEPT ![Mux] = x]
        PROVE  \E U : task' \in [Fibers -> TasksIn(U)]
    BY <1>0, <1>2, TaskBecomes
  <1>3. NoTask \in TasksIn({"idle", "connect", None, 0})
    BY DEF NoTask, TasksIn
  <1>4. ASSUME NEW o, SettleHead(o)
        PROVE  /\ queue' \in Seq(Commands) /\ \A i \in DOMAIN queue' : queue'[i] \notin Owned
               /\ (\E U : call' \in [Fibers -> CallsIn(U)]) /\ SameCalls(Mux)
               /\ call'[Mux].st = "writing" => call'[Mux].req \in Requests \ Owned
               /\ isProcessing' => queue' # <<>>
    <2>1. queue' = Tail(queue) /\ Dequeue(Tail(queue))
      BY <1>4 DEF SettleHead
    <2> QED
      BY <1>0, <2>1, TailUnowned, DequeueCalls
  <1>5. /\ MuxIsShaped /\ queue' \in Seq(Commands)
        /\ \A i \in DOMAIN queue' : queue'[i] \notin Owned
        /\ isProcessing' => queue' # <<>>
    <2>1. CASE Resolve \/ Reject
      <3>1. task' = task
        BY <2>1 DEF Resolve, Reject, connVars
      <3>2. SettleHead(call[Mux].res)
        BY <2>1 DEF Resolve, Reject
      <3> QED
        BY <1>0, <1>4, <3>1, <3>2 DEF MuxIsShaped, Shaped
    <2>2. CASE GiveUp
      <3>1. task' = [task EXCEPT ![Mux] = NoTask] /\ SettleHead(task[Mux].err)
        BY <2>2 DEF GiveUp
      <3> QED
        BY <1>2, <1>3, <1>4, <3>1 DEF MuxIsShaped
    <2>3. CASE Resume
      <3>1. task' = [task EXCEPT ![Mux] = NoTask] /\ Dequeue(queue) /\ queue' = queue
        BY <2>3 DEF Resume
      <3>2. \E U : task' \in [Fibers -> TasksIn(U)]
        BY <1>2, <1>3, <3>1
      <3> QED
        BY <1>0, <3>1, <3>2, DequeueCalls DEF MuxIsShaped
    <2>4. CASE Retry
      <3>1. StartReconnect(Mux) /\ UNCHANGED <<queue, isProcessing>>
        BY <2>4 DEF Retry
      <3>2. CASE isClosed
        <4> DEFINE x == [NoTask EXCEPT !.pc = "failed", !.err = Fault("ClientIsClosed")]
        <4>1. task' = [task EXCEPT ![Mux] = x] /\ call' = [call EXCEPT ![Mux] = NoCall]
          BY <3>1, <3>2 DEF StartReconnect, EndCall
        <4>2. x \in TasksIn({"failed", "connect", Fault("ClientIsClosed"), 0})
          BY DEF TasksIn, NoTask
        <4> HIDE DEF x
        <4> QED
          BY <1>0, <1>2, <3>1, <4>1, <4>2, MuxCalls DEF MuxIsShaped
      <3>3. CASE ~ isClosed
        <4> DEFINE x == [NoTask EXCEPT !.pc = "ping", !.mode = "reconnect"]
        <4>1. task' = [task EXCEPT ![Mux] = x] /\ Send(Mux, cur, "PING", wlock)
          BY <3>1, <3>3 DEF StartReconnect
        <4>2. x \in TasksIn({"ping", "reconnect", None, 0})
          BY DEF TasksIn, NoTask
        <4> HIDE DEF x
        <4> QED
          BY <1>0, <1>2, <3>1, <4>1, <4>2, NotOwned, MuxCalls DEF MuxIsShaped
      <3> QED
        BY <3>2, <3>3
    <2> QED
      BY <2>1, <2>2, <2>3, <2>4 DEF MuxStep
  <1>6. UNCHANGED <<out, runs, inside>>
    BY DEF MuxStep, Resolve, Reject, Retry, Resume, GiveUp
  <1>7. \A f \in Flushes : call'[f] = call[f]
    BY <1>5, FlushesAreFibers DEF MuxIsShaped, SameCalls
  <1>8. Shaped' /\ MuxWrites'
    BY <1>0, <1>5, <1>6 DEF Shaped, MuxWrites, MuxIsShaped, pipeVars
  <1> QED
    BY <1>6, <1>7, <1>8, FlushesKept

LEMMA MuxConnOnce ==
    ASSUME OnceInv, ConnStep(Mux), UNCHANGED <<muxVars, pipeVars, inside>>
    PROVE  OnceInv'
  <1>1. MuxIsShaped
    BY ConnShape
  <1>2. UNCHANGED <<out, runs>>
    BY DEF ConnStep, DialOk, DialFails, HelloStep, HelloFails, DelayOver, PingOk, PingFails,
           RePing, wireVars
  <1>3. \A f \in Flushes : call'[f] = call[f]
    BY <1>1, FlushesAreFibers DEF MuxIsShaped, SameCalls
  <1>4. Shaped' /\ MuxWrites'
    BY <1>1, <1>2 DEF OnceInv, Shaped, MuxWrites, MuxIsShaped, muxVars, pipeVars
  <1> QED
    BY <1>2, <1>3, <1>4, FlushesKept

LEMMA ExecOnce ==
    ASSUME OnceInv, NEW c \in Commands, OwnerOf[c] = None, Exec(c), UNCHANGED <<pipeVars, inside>>
    PROVE  OnceInv'
  <1>0. /\ Shaped /\ MuxWrites /\ Mux \in Fibers /\ c \notin Owned /\ queue \in Seq(Commands)
        /\ \A i \in DOMAIN queue : queue[i] \notin Owned
    BY FlushesAreFibers DEF OnceInv, MuxWrites, Shaped, Owned
  <1>1. queue' = Append(queue, c) /\ UNCHANGED <<connVars, out, runs>>
    BY DEF Exec
  <1>2. queue' \in Seq(Commands) /\ \A i \in DOMAIN queue' : queue'[i] \notin Owned
    <2>1. /\ queue' \in Seq(Commands) /\ Len(queue') = Len(queue) + 1 /\ Len(queue) \in Nat
          /\ \A i \in 1 .. Len(queue) : queue'[i] = queue[i]
          /\ queue'[Len(queue) + 1] = c
      BY <1>0, <1>1, AppendProperties
    <2>2. DOMAIN queue' = 1 .. Len(queue) + 1 /\ DOMAIN queue = 1 .. Len(queue)
      BY <1>0, <2>1
    <2> QED
      BY <1>0, <2>1, <2>2
  <1>3. /\ (\E U : call' \in [Fibers -> CallsIn(U)]) /\ SameCalls(Mux)
        /\ call'[Mux].st = "writing" => call'[Mux].req \in Requests \ Owned
        /\ isProcessing' => queue' # <<>>
    <2>1. CASE isProcessing
      <3>1. UNCHANGED <<call, isProcessing>> /\ queue' # <<>>
        BY <1>0, <1>1, <2>1, AppendProperties DEF Exec
      <3> QED
        BY <1>0, <3>1 DEF Shaped, SameCalls, MuxWrites
    <2>2. CASE ~ isProcessing
      <3>1. Dequeue(queue')
        BY <2>2 DEF Exec
      <3> QED
        BY <1>0, <1>2, <3>1, DequeueCalls
    <2> QED
      BY <2>1, <2>2
  <1>4. \A f \in Flushes : call'[f] = call[f]
    BY <1>3, FlushesAreFibers DEF SameCalls
  <1>5. Shaped' /\ MuxWrites'
    BY <1>0, <1>1, <1>2, <1>3 DEF Shaped, MuxWrites, pipeVars, connVars
  <1> QED
    BY <1>1, <1>4, <1>5, FlushesKept

-----------------------------------------------------------------------------
(* The steps of a flush().                                                  *)

\* Nothing is handed over that had been before: what is written is not at the server.
LEMMA WriteArrives ==
    ASSUME OnceInv, NEW r \in Requests, NEW u, r \in Owned => ~ Sent(r) /\ Sent(r)',
           \A c \in Owned : Sent(c) => Sent(c)',
           out' = [out EXCEPT ![u] = Append(@, r)], UNCHANGED <<runs, inside>>
    PROVE  out' \in [Sockets -> Seq(Requests)] /\ \A c \in Owned : Arrived(c)'
  <1>1. out \in [Sockets -> Seq(Requests)] /\ \A c \in Owned : Arrived(c) /\ runs[c] \in Nat
    BY DEF OnceInv, Shaped, Owned
  <1>2. CASE u \notin Sockets
    <2>1. out' = out
      BY <1>1, <1>2
    <2> QED
      BY <1>1, <2>1, ServerStill
  <1>3. CASE u \in Sockets
    <2> DEFINE n == Len(out[u])
    <2>1. /\ out' \in [Sockets -> Seq(Requests)] /\ n \in Nat
          /\ DOMAIN out[u] = 1 .. n /\ DOMAIN out'[u] = 1 .. n + 1 /\ out'[u][n + 1] = r
          /\ \A i \in 1 .. n : out'[u][i] = out[u][i]
          /\ \A t \in Sockets \ {u} : out'[t] = out[t]
      <3>1. out[u] \in Seq(Requests) /\ out'[u] = Append(out[u], r)
        BY <1>1, <1>3
      <3>2. /\ Append(out[u], r) \in Seq(Requests) /\ Len(Append(out[u], r)) = n + 1 /\ n \in Nat
            /\ \A i \in 1 .. n : Append(out[u], r)[i] = out[u][i]
            /\ Append(out[u], r)[n + 1] = r
        BY <3>1, AppendProperties
      <3>3. DOMAIN out[u] = 1 .. n /\ DOMAIN Append(out[u], r) = 1 .. n + 1
        BY <3>1, <3>2
      <3> QED
        BY <1>1, <3>1, <3>2, <3>3
    <2> HIDE DEF n
    <2>2. ASSUME NEW t \in Sockets, NEW i \in DOMAIN out'[t]
          PROVE  \/ i \in DOMAIN out[t] /\ out'[t][i] = out[t][i]
                 \/ t = u /\ i = n + 1 /\ out'[t][i] = r
      BY <2>1, <2>2
    <2>3. ASSUME NEW c \in Owned
          PROVE  Arrived(c)'
      <3>1. CASE c # r
        <4>1. \A t \in Sockets : \A i \in DOMAIN out'[t] :
                out'[t][i] = c => i \in DOMAIN out[t] /\ out[t][i] = c
          BY <2>2, <3>1
        <4> QED
          BY <1>1, <4>1 DEF Arrived
      <3>2. CASE c = r
        <4>1. ~ Sent(c) /\ Sent(c)' /\ ~ (runs[c] > 0)
              /\ \A s \in Sockets : c \notin inside[s] /\ \A i \in DOMAIN out[s] : out[s][i] # c
          BY <1>1, <3>2 DEF Arrived
        <4>2. \A t \in Sockets : \A i \in DOMAIN out'[t] : out'[t][i] = c => t = u /\ i = n + 1
          BY <2>2, <4>1
        <4> QED
          BY <1>1, <4>1, <4>2 DEF Arrived
      <3> QED
        BY <3>1, <3>2
    <2> QED
      BY <2>1, <2>3
  <1> QED
    BY <1>2, <1>3

LEMMA MuxCallOnce ==
    ASSUME OnceInv, CallStep(Mux), UNCHANGED <<connVars, muxVars, pipeVars, inside>>
    PROVE  OnceInv'
  <1>0. Shaped /\ MuxWrites /\ Mux \in Fibers
    BY FlushesAreFibers DEF OnceInv
  <1>1. /\ \E S : call' \in [Fibers -> CallsIn(S)]
        /\ SameCalls(Mux) /\ runs' = runs
        /\ call'[Mux].st \in {"written", "reading", "done"}
        /\ \/ out' = out
           \/ /\ call[Mux].st = "writing"
              /\ out' = [out EXCEPT ![call[Mux].sock] = Append(@, call[Mux].req)]
    BY <1>0, CallStepBecomes
  <1>2. \A f \in Flushes : call'[f] = call[f]
    BY <1>1, FlushesAreFibers DEF SameCalls
  <1>3. MuxWrites'
    BY <1>0, <1>1 DEF MuxWrites, muxVars
  <1>4. CASE out' = out
    <2>1. Shaped'
      BY <1>0, <1>1, <1>4 DEF Shaped, connVars, muxVars, pipeVars
    <2> QED
      BY <1>1, <1>2, <1>3, <1>4, <2>1, FlushesKept
  <1>5. CASE out' # out
    <2>1. /\ call[Mux].req \in Requests \ Owned
          /\ out' = [out EXCEPT ![call[Mux].sock] = Append(@, call[Mux].req)]
      BY <1>0, <1>1, <1>5 DEF MuxWrites
    <2>2. \A c : Sent(c) <=> Sent(c)'
      BY <1>2 DEF Sent, Handed, pipeVars
    <2>3. out' \in [Sockets -> Seq(Requests)] /\ \A c \in Owned : Arrived(c)'
      BY <1>1, <2>1, <2>2, WriteArrives
    <2>4. Shaped'
      BY <1>0, <1>1, <2>3 DEF Shaped, connVars, muxVars, pipeVars
    <2>5. Placed' /\ \A f \in Flushes : Reached(f)'
      BY <1>2 DEF OnceInv, Placed, Reached, Flushing, pipeVars
    <2> QED
      BY <1>3, <2>3, <2>4, <2>5 DEF OnceInv
  <1> QED
    BY <1>4, <1>5

\* What a flush() has handed over stays so.
LEMMA SentStays ==
    ASSUME UNCHANGED batch, \A f \in Flushes : \A i \in DOMAIN batch[f] : Handed(f, i) => Handed(f, i)'
    PROVE  \A c : Sent(c) => Sent(c)'
  BY DEF Sent

LEMMA SentNow ==
    ASSUME NEW c, NEW f \in Flushes, NEW i \in DOMAIN batch'[f], batch'[f][i] = c,
           \/ i <= Len(results'[f])
           \/ i = Len(results'[f]) + 1 /\ call'[f].st \in {"written", "reading", "done"}
    PROVE  Sent(c)'
  BY DEF Sent, Handed

LEMMA FlushCallOnce ==
    ASSUME OnceInv, NEW f \in Flushes, CallStep(f),
           UNCHANGED <<connVars, muxVars, pipeVars, inside>>
    PROVE  OnceInv'
  <1>0. /\ Shaped /\ MuxWrites /\ Placed /\ Reached(f) /\ f \in Fibers /\ f # Mux /\ Mux \in Fibers
        /\ batch \in [Flushes -> Seq(Requests)]
    BY FlushesAreFibers DEF OnceInv, Shaped
  <1>1. /\ \E S : call' \in [Fibers -> CallsIn(S)]
        /\ SameCalls(f) /\ call'[f].req = call[f].req /\ runs' = runs
        /\ call[f].st \in {"writing", "written", "reading"}
        /\ call'[f].st \in {"written", "reading", "done"}
        /\ \/ out' = out
           \/ /\ call[f].st = "writing"
              /\ out' = [out EXCEPT ![call[f].sock] = Append(@, call[f].req)]
    BY <1>0, CallStepBecomes
  <1> DEFINE n == Len(results[f]) + 1
  <1>2. Len(results[f]) \in Nat /\ n \in DOMAIN batch[f] /\ call[f].req = batch[f][n]
    <2>1. PICK S : results \in [Flushes -> Seq(S)]
      BY <1>0 DEF Shaped
    <2>2. Len(results[f]) \in Nat /\ Len(batch[f]) \in Nat /\ DOMAIN batch[f] = 1 .. Len(batch[f])
      BY <1>0, <2>1
    <2>3. Len(results[f]) < Len(batch[f]) /\ call[f].req = batch[f][n]
      BY <1>0, <1>1 DEF Reached, Flushing
    <2> QED
      BY <2>2, <2>3
  <1>3. \A g \in Flushes \ {f} : call'[g] = call[g]
    BY <1>1, FlushesAreFibers DEF SameCalls
  <1>4. \A g \in Flushes : \A i \in DOMAIN batch[g] : Handed(g, i) => Handed(g, i)'
    BY <1>1, <1>3 DEF Handed, pipeVars
  <1>5. \A c : Sent(c) => Sent(c)'
    BY <1>4, SentStays DEF pipeVars
  <1>6. MuxWrites' /\ Placed'
    BY <1>0, <1>1 DEF MuxWrites, Placed, SameCalls, muxVars, pipeVars
  <1>7. \A g \in Flushes : Reached(g)'
    BY <1>1, <1>3 DEF OnceInv, Reached, Flushing, pipeVars
  <1>8. out' \in [Sockets -> Seq(Requests)] /\ \A c \in Owned : Arrived(c)'
    <2>1. CASE out' = out
      BY <1>0, <1>1, <1>5, <2>1, ServerStill DEF OnceInv, Shaped
    <2>2. CASE out' # out
      <3>1. PICK r, k : r = call[f].req /\ k = n
        OBVIOUS
      <3>2. /\ call[f].st = "writing" /\ r \in Requests /\ k \in DOMAIN batch[f] /\ batch[f][k] = r
            /\ out' = [out EXCEPT ![call[f].sock] = Append(@, r)]
        BY <1>0, <1>1, <1>2, <2>2, <3>1, ElementOfSeq
      <3>3. Sent(r)'
        BY <1>1, <3>1, <3>2, SentNow DEF pipeVars
      <3>4. ASSUME r \in Owned
            PROVE  ~ Sent(r)
        <4>1. \A g \in Flushes : \A j \in DOMAIN batch[g] : batch[g][j] = r => g = f /\ j = k
          BY <1>0, <3>2, <3>4 DEF Placed
        <4>2. ~ Handed(f, k)
          BY <1>1, <1>2, <3>1, <3>2 DEF Handed
        <4> QED
          BY <4>1, <4>2 DEF Sent
      <3> QED
        BY <1>1, <1>5, <3>2, <3>3, <3>4, WriteArrives
    <2> QED
      BY <2>1, <2>2
  <1>9. Shaped'
    BY <1>0, <1>1, <1>8 DEF Shaped, connVars, muxVars, pipeVars
  <1> QED
    BY <1>6, <1>7, <1>8, <1>9 DEF OnceInv

\* A reply or an exception is collected, and the call goes on or ends.
LEMMA CollectsOnce ==
    ASSUME OnceInv, NEW f \in Flushes, CallDone(f),
           results' = [results EXCEPT ![f] = Append(@, call[f].res)],
           \E S : call' \in [Fibers -> CallsIn(S)], SameCalls(f),
           Flushing(f)' => /\ Len(results'[f]) < Len(batch[f])
                           /\ call'[f].req = batch[f][Len(results'[f]) + 1],
           UNCHANGED <<connVars, muxVars, commands, given, batch, out, runs, inside>>
    PROVE  OnceInv'
  <1>0. Shaped /\ MuxWrites /\ Placed /\ f \in Fibers \ {Mux} /\ Mux \in Fibers
    BY FlushesAreFibers DEF OnceInv
  <1>1. PICK S : results \in [Flushes -> Seq(S)]
    BY <1>0 DEF Shaped
  <1> DEFINE T == S \cup {call[f].res}
  <1>2. \A g \in Flushes : results[g] \in Seq(T)
    BY <1>1, SeqMonotonic
  <1>3. /\ Append(results[f], call[f].res) \in Seq(T)
        /\ Len(Append(results[f], call[f].res)) = Len(results[f]) + 1 /\ Len(results[f]) \in Nat
    BY <1>2, AppendProperties
  <1>4. /\ results' \in [Flushes -> Seq(T)] /\ Len(results'[f]) = Len(results[f]) + 1
        /\ \A g \in Flushes \ {f} : results'[g] = results[g]
    BY <1>1, <1>2, <1>3
  <1>5. \A g \in Flushes \ {f} : call'[g] = call[g]
    BY FlushesAreFibers DEF SameCalls
  <1>6. Shaped'
    BY <1>0, <1>4 DEF Shaped, connVars, muxVars
  <1>7. MuxWrites' /\ Placed'
    BY <1>0 DEF MuxWrites, Placed, SameCalls, muxVars
  <1>8. \A g \in Flushes : Reached(g)'
    BY <1>4, <1>5 DEF OnceInv, Reached, Flushing
  <1>9. \A g \in Flushes : \A i \in DOMAIN batch[g] : Handed(g, i) => Handed(g, i)'
    <2>1. ASSUME NEW g \in Flushes \ {f}, NEW i
          PROVE  Handed(g, i) => Handed(g, i)'
      BY <1>4, <1>5 DEF Handed
    <2>2. DOMAIN batch[f] \subseteq Nat
      BY <1>0 DEF Shaped
    <2>3. ASSUME NEW i \in DOMAIN batch[f], Handed(f, i)
          PROVE  Handed(f, i)'
      <3>1. i \in Nat /\ i <= Len(results[f]) + 1
        BY <1>3, <2>2, <2>3 DEF Handed
      <3> QED
        BY <1>4, <3>1 DEF Handed
    <2> QED
      BY <2>1, <2>3
  <1>10. \A c \in Owned : Arrived(c)'
    BY <1>9, SentStays, ServerStill DEF OnceInv
  <1> QED
    BY <1>6, <1>7, <1>8, <1>10 DEF OnceInv

LEMMA PipeCollectsOnce ==
    ASSUME OnceInv, NEW f \in Flushes, PipeCollects(f) \/ PipeThrows(f)
    PROVE  OnceInv'
  <1>0. Shaped /\ f \in Fibers /\ batch' = batch
    BY FlushesAreFibers DEF OnceInv, PipeCollects, PipeThrows
  <1>1. /\ CallDone(f) /\ results' = [results EXCEPT ![f] = Append(@, call[f].res)]
        /\ UNCHANGED <<connVars, muxVars, commands, given, batch, out, runs, inside>>
    BY DEF PipeCollects, PipeThrows, serverVars
  <1>2. CASE EndCall(f)
    <2>1. (\E S : call' \in [Fibers -> CallsIn(S)]) /\ SameCalls(f) /\ call'[f].st = "idle"
      BY <1>0, <1>2, EndBecomes DEF EndCall
    <2> QED
      BY <1>1, <2>1, CollectsOnce DEF Flushing
  <1>3. CASE ~ EndCall(f)
    <2>1. /\ Len(results'[f]) < Len(batch[f])
          /\ Send(f, call[f].sock, batch[f][Len(results'[f]) + 1], wlock)
      BY <1>3 DEF PipeCollects, PipeThrows
    <2>2. PICK r : r = batch[f][Len(results'[f]) + 1]
      OBVIOUS
    <2>3. (\E S : call' \in [Fibers -> CallsIn(S)]) /\ SameCalls(f) /\ call'[f].req = r
      BY <1>0, <2>1, <2>2, SendBecomes
    <2> QED
      BY <1>1, <2>1, <2>2, <2>3, CollectsOnce
  <1> QED
    BY <1>2, <1>3

\* MULTI and EXEC are nobody's command, so the list of a flush() names each command once.
LEMMA ListOf ==
    ASSUME commands \in [Pipes -> Seq(Commands)], NEW p \in Pipes,
           \A i, j \in DOMAIN commands[p] : commands[p][i] = commands[p][j] => i = j
    PROVE  \A i \in DOMAIN ToFlush(p) : ToFlush(p)[i] \in Owned =>
              /\ \E j \in DOMAIN commands[p] : commands[p][j] = ToFlush(p)[i]
              /\ \A k \in DOMAIN ToFlush(p) : ToFlush(p)[k] = ToFlush(p)[i] => k = i
  <1>1. CASE p \notin Txs
    BY <1>1 DEF ToFlush
  <1>2. CASE p \in Txs
    <2> DEFINE c == commands[p]
               m == <<"MULTI">>
               e == <<"EXEC">>
               n == Len(c)
    <2>1. c \in Seq(Requests) /\ n = Len(c) /\ n \in Nat /\ DOMAIN c = 1 .. n
      <3>1. c \in Seq(Commands)
        OBVIOUS
      <3> QED
        BY <3>1, SeqMonotonic, WireAssumption
    <2>2. /\ m \in Seq(Requests) /\ Len(m) = 1 /\ m[1] = "MULTI"
          /\ e \in Seq(Requests) /\ Len(e) = 1 /\ e[1] = "EXEC"
      BY PipelineAssumption
    <2> HIDE DEF m, e, c, n
    <2>3. /\ m \o c \in Seq(Requests) /\ Len(m \o c) = n + 1
          /\ \A i \in 1 .. n + 1 : (m \o c)[i] = IF i <= 1 THEN m[i] ELSE c[i - 1]
      <3>0. m \in Seq(Requests) /\ c \in Seq(Requests)
        BY <2>1, <2>2
      <3>1. /\ m \o c \in Seq(Requests) /\ Len(m \o c) = Len(m) + Len(c)
            /\ \A i \in 1 .. Len(m) + Len(c) :
                  (m \o c)[i] = IF i <= Len(m) THEN m[i] ELSE c[i - Len(m)]
        BY <3>0, ConcatProperties
      <3> QED
        BY <2>1, <2>2, <3>1
    <2> DEFINE mc == m \o c
    <2> HIDE DEF mc
    <2>4. /\ mc \o e \in Seq(Requests) /\ Len(mc \o e) = n + 2
          /\ \A i \in 1 .. n + 2 : (mc \o e)[i] = IF i <= n + 1 THEN mc[i] ELSE e[i - (n + 1)]
      BY <2>1, <2>2, <2>3, ConcatProperties DEF mc
    <2>5. ToFlush(p) = mc \o e /\ DOMAIN ToFlush(p) = 1 .. n + 2
      <3>1. ToFlush(p) = mc \o e
        BY <1>2 DEF ToFlush, m, e, mc, c
      <3> QED
        BY <2>4, <3>1
    <2>6. "MULTI" \notin Owned /\ "EXEC" \notin Owned
      BY PipelineAssumption DEF Owned
    <2>7. ASSUME NEW i \in 1 .. n + 2, ToFlush(p)[i] \in Owned
          PROVE  i - 1 \in 1 .. n /\ ToFlush(p)[i] = c[i - 1]
      <3>1. i # 1
        BY <2>1, <2>2, <2>3, <2>4, <2>5, <2>6, <2>7 DEF mc
      <3>2. i # n + 2
        BY <2>1, <2>2, <2>4, <2>5, <2>6, <2>7
      <3>3. i \in 2 .. n + 1
        BY <2>1, <3>1, <3>2
      <3>4. (mc \o e)[i] = mc[i] /\ mc[i] = c[i - 1]
        BY <2>1, <2>3, <2>4, <3>3 DEF mc
      <3> QED
        BY <2>1, <2>5, <3>3, <3>4
    <2>8. ASSUME NEW i \in 1 .. n + 2, NEW k \in 1 .. n + 2, ToFlush(p)[i] \in Owned,
                 ToFlush(p)[k] = ToFlush(p)[i]
          PROVE  k = i
      <3>1. i - 1 \in DOMAIN c /\ k - 1 \in DOMAIN c /\ c[i - 1] = c[k - 1]
        BY <2>1, <2>7, <2>8
      <3>2. i - 1 = k - 1
        BY <3>1 DEF c
      <3> QED
        BY <2>1, <3>2
    <2> QED
      BY <2>1, <2>5, <2>7, <2>8 DEF c
  <1> QED
    BY <1>1, <1>2

LEMMA FlushOnce ==
    ASSUME OnceInv, NEW f \in Flushes, Flush(f)
    PROVE  OnceInv'
  <1> DEFINE list == ToFlush(PipeOf[f])
  <1>1. /\ batch[f] = <<>> /\ list # <<>>
        /\ batch' = [batch EXCEPT ![f] = list]
        /\ results' = [results EXCEPT ![f] = <<>>]
        /\ commands' = [commands EXCEPT ![PipeOf[f]] = <<>>]
        /\ Send(f, cur, Head(list), wlock)
        /\ UNCHANGED <<connVars, muxVars, given, out, runs, inside>>
    BY DEF Flush, NextCall, serverVars
  <1>2. PICK p \in Pipes : p = PipeOf[f]
    BY PipelineAssumption
  <1>3. /\ Shaped /\ MuxWrites /\ Placed /\ f \in Fibers \ {Mux} /\ Mux \in Fibers
        /\ commands \in [Pipes -> Seq(Commands)] /\ batch \in [Flushes -> Seq(Requests)]
    BY FlushesAreFibers DEF OnceInv, Shaped
  <1>4. list \in Seq(Requests) /\ Len(list) \in Nat /\ Len(list) # 0 /\ Head(list) = list[1]
        /\ list = ToFlush(p)
    <2>1. list \in Seq(Requests)
      BY <1>2, <1>3, ToFlushType
    <2> QED
      BY <1>1, <1>2, <2>1, EmptySeq
  <1> HIDE DEF list
  <1>5. /\ batch'[f] = list /\ results'[f] = <<>> /\ commands'[p] = <<>>
        /\ \A g \in Flushes \ {f} : batch'[g] = batch[g] /\ results'[g] = results[g]
        /\ \A q \in Pipes \ {p} : commands'[q] = commands[q]
    BY <1>1, <1>2, <1>3 DEF Shaped
  <1>6. /\ (\E S : call' \in [Fibers -> CallsIn(S)]) /\ SameCalls(f) /\ call'[f].req = list[1]
    <2>1. PICK r : r = Head(list)
      OBVIOUS
    <2> QED
      BY <1>1, <1>3, <1>4, <2>1, SendBecomes
  <1>7. \A g \in Flushes \ {f} : call'[g] = call[g]
    BY <1>6, FlushesAreFibers DEF SameCalls
  <1>8. Shaped'
    <2>1. <<>> \in Seq(Commands)
      OBVIOUS
    <2>2. batch' \in [Flushes -> Seq(Requests)]
      BY <1>1, <1>3, <1>4
    <2>3. commands' \in [Pipes -> Seq(Commands)]
      BY <1>1, <1>3, <2>1
    <2>4. \E S : results' \in [Flushes -> Seq(S)]
      <3>1. PICK S : results \in [Flushes -> Seq(S)]
        BY <1>3 DEF Shaped
      <3>2. <<>> \in Seq(S)
        OBVIOUS
      <3>3. results' \in [Flushes -> Seq(S)]
        BY <1>1, <3>1, <3>2
      <3> QED
        BY <3>3
    <2> QED
      BY <1>1, <1>3, <1>6, <2>2, <2>3, <2>4 DEF Shaped, connVars, muxVars
  <1>9. MuxWrites'
    BY <1>1, <1>3, <1>6 DEF MuxWrites, SameCalls, muxVars
  <1>10. \A g \in Flushes : Reached(g)'
    <2>1. Len(results'[f]) = 0
      BY <1>5
    <2>2. Reached(f)'
      BY <1>4, <1>5, <1>6, <2>1 DEF Reached
    <2> QED
      BY <1>5, <1>7, <2>2 DEF OnceInv, Reached, Flushing
  <1>11. \A i \in DOMAIN list : list[i] \in Owned =>
              /\ \E j \in DOMAIN commands[p] : commands[p][j] = list[i]
              /\ \A k \in DOMAIN list : list[k] = list[i] => k = i
    BY <1>3, <1>4, ListOf DEF Placed
  <1>12. Placed'
    <2>1. ASSUME NEW q \in Pipes, NEW i \in DOMAIN commands'[q], NEW j \in DOMAIN commands'[q]
          PROVE  /\ commands'[q][i] \in given' /\ OwnerOf[commands'[q][i]] = q
                 /\ commands'[q][i] = commands'[q][j] => i = j
      <3>1. q # p
        BY <1>5, <2>1
      <3> QED
        BY <1>1, <1>3, <1>5, <2>1, <3>1 DEF Placed
    <2>2. ASSUME NEW g \in Flushes, NEW i \in DOMAIN batch'[g], batch'[g][i] \in Owned
          PROVE  /\ batch'[g][i] \in given'
                 /\ \A q \in Pipes : \A j \in DOMAIN commands'[q] : commands'[q][j] # batch'[g][i]
                 /\ \A h \in Flushes : \A j \in DOMAIN batch'[h] :
                       batch'[h][j] = batch'[g][i] => h = g /\ j = i
      <3>1. CASE g # f
        <4>1. batch'[g] = batch[g] /\ i \in DOMAIN batch[g]
          BY <1>5, <2>2, <3>1
        <4>2. /\ batch[g][i] \in given
              /\ \A q \in Pipes : \A j \in DOMAIN commands[q] : commands[q][j] # batch[g][i]
              /\ \A h \in Flushes : \A j \in DOMAIN batch[h] :
                    batch[h][j] = batch[g][i] => h = g /\ j = i
          BY <1>3, <2>2, <4>1 DEF Placed
        <4>3. \A j \in DOMAIN list : list[j] # batch[g][i]
          BY <1>11, <2>2, <4>1, <4>2
        <4>4. \A q \in Pipes : \A j \in DOMAIN commands'[q] :
                 j \in DOMAIN commands[q] /\ commands'[q][j] = commands[q][j]
          BY <1>5
        <4> QED
          BY <1>1, <1>5, <4>1, <4>2, <4>3, <4>4
      <3>2. CASE g = f
        <4>1. batch'[g] = list /\ i \in DOMAIN list
          BY <1>5, <2>2, <3>2
        <4>2. PICK k \in DOMAIN commands[p] : commands[p][k] = list[i]
          BY <1>11, <2>2, <4>1
        <4>3. list[i] \in given /\ OwnerOf[list[i]] = p
          BY <1>3, <4>2 DEF Placed
        <4>4. \A q \in Pipes : \A j \in DOMAIN commands'[q] : commands'[q][j] # list[i]
          <5>1. ASSUME NEW q \in Pipes, NEW j \in DOMAIN commands'[q], commands'[q][j] = list[i]
                PROVE  FALSE
            <6>1. q # p
              BY <1>5, <5>1
            <6>2. OwnerOf[commands[q][j]] = q /\ commands[q][j] = list[i]
              BY <1>3, <1>5, <5>1, <6>1 DEF Placed
            <6> QED
              BY <4>3, <6>1, <6>2
          <5> QED
            BY <5>1
        <4>5. \A h \in Flushes \ {f} : \A j \in DOMAIN batch[h] : batch[h][j] # list[i]
          <5>1. ASSUME NEW h \in Flushes \ {f}, NEW j \in DOMAIN batch[h], batch[h][j] = list[i]
                PROVE  FALSE
            <6>1. commands[p][k] # batch[h][j]
              BY <1>3, <2>2, <4>1, <5>1 DEF Placed
            <6> QED
              BY <4>2, <5>1, <6>1
          <5> QED
            BY <5>1
        <4>6. \A j \in DOMAIN list : list[j] = list[i] => j = i
          BY <1>11, <2>2, <4>1
        <4> QED
          BY <1>1, <1>5, <3>2, <4>1, <4>3, <4>4, <4>5, <4>6
      <3> QED
        BY <3>1, <3>2
    <2> QED
      BY <2>1, <2>2 DEF Placed
  <1>13. \A c : Sent(c) => Sent(c)'
    <2>1. ASSUME NEW c, NEW g \in Flushes, NEW i \in DOMAIN batch[g],
                 batch[g][i] = c, Handed(g, i)
          PROVE  Sent(c)'
      <3>1. g # f
        BY <1>1, <2>1
      <3> QED
        BY <1>5, <1>7, <2>1, <3>1, SentNow DEF Handed
    <2> QED
      BY <2>1 DEF Sent
  <1>14. \A c \in Owned : Arrived(c)'
    BY <1>1, <1>13, ServerStill DEF OnceInv
  <1> QED
    BY <1>8, <1>9, <1>10, <1>12, <1>14 DEF OnceInv

LEMMA PipeExecOnce ==
    ASSUME OnceInv, NEW p \in Pipes, NEW c \in Commands, PipeExec(p, c)
    PROVE  OnceInv'
  <1>1. /\ OwnerOf[c] = p /\ c \notin given /\ given' = given \cup {c}
        /\ commands' = [commands EXCEPT ![p] = Append(@, c)]
        /\ UNCHANGED <<wireVars, connVars, muxVars, batch, results, inside>>
    BY DEF PipeExec, serverVars
  <1>2. /\ Shaped /\ MuxWrites /\ Placed /\ commands \in [Pipes -> Seq(Commands)]
    BY DEF OnceInv, Shaped
  <1> DEFINE n == Len(commands[p])
  <1>3. /\ Append(commands[p], c) \in Seq(Commands) /\ n \in Nat
        /\ Len(Append(commands[p], c)) = n + 1 /\ Append(commands[p], c)[n + 1] = c
        /\ \A i \in 1 .. n : Append(commands[p], c)[i] = commands[p][i]
    BY <1>2, AppendProperties
  <1>4. /\ commands' \in [Pipes -> Seq(Commands)] /\ commands'[p] = Append(commands[p], c)
        /\ \A q \in Pipes \ {p} : commands'[q] = commands[q]
    BY <1>1, <1>2, <1>3
  <1>5. DOMAIN commands[p] = 1 .. n /\ DOMAIN commands'[p] = 1 .. n + 1
    BY <1>2, <1>3, <1>4
  <1> HIDE DEF n
  <1>6. Shaped' /\ MuxWrites' /\ \A f \in Flushes : Reached(f)'
    BY <1>1, <1>2, <1>4 DEF OnceInv, Shaped, MuxWrites, Reached, Flushing, wireVars, connVars,
                            muxVars
  <1>7. \A i \in 1 .. n : commands[p][i] \in given /\ OwnerOf[commands[p][i]] = p
    BY <1>2, <1>5 DEF Placed
  <1>8. Placed'
    <2>1. ASSUME NEW q \in Pipes, NEW i \in DOMAIN commands'[q], NEW j \in DOMAIN commands'[q]
          PROVE  /\ commands'[q][i] \in given' /\ OwnerOf[commands'[q][i]] = q
                 /\ commands'[q][i] = commands'[q][j] => i = j
      <3>1. CASE q # p
        BY <1>1, <1>2, <1>4, <2>1, <3>1 DEF Placed
      <3>2. CASE q = p
        <4>1. \A a, b \in 1 .. n : commands[p][a] = commands[p][b] => a = b
          <5>1. \A a, b \in DOMAIN commands[p] : commands[p][a] = commands[p][b] => a = b
            BY <1>2 DEF Placed
          <5> QED
            BY <1>5, <5>1
        <4>2. i \in 1 .. n + 1 /\ j \in 1 .. n + 1
          BY <1>5, <2>1, <3>2
        <4>3. \A a \in 1 .. n + 1 : a \in 1 .. n \/ a = n + 1
          BY <1>3
        <4> QED
          BY <1>1, <1>3, <1>4, <1>7, <3>2, <4>1, <4>2, <4>3
      <3> QED
        BY <3>1, <3>2
    <2>2. ASSUME NEW g \in Flushes, NEW i \in DOMAIN batch[g], batch[g][i] \in Owned
          PROVE  /\ batch[g][i] \in given'
                 /\ \A q \in Pipes : \A j \in DOMAIN commands'[q] : commands'[q][j] # batch[g][i]
                 /\ \A h \in Flushes : \A j \in DOMAIN batch[h] :
                       batch[h][j] = batch[g][i] => h = g /\ j = i
      <3>1. /\ batch[g][i] \in given
            /\ \A q \in Pipes : \A j \in DOMAIN commands[q] : commands[q][j] # batch[g][i]
            /\ \A h \in Flushes : \A j \in DOMAIN batch[h] :
                  batch[h][j] = batch[g][i] => h = g /\ j = i
        BY <1>2, <2>2 DEF Placed
      <3>2. \A j \in DOMAIN commands'[p] : commands'[p][j] # batch[g][i]
        <4>1. \A a \in 1 .. n + 1 : a \in 1 .. n \/ a = n + 1
          BY <1>3
        <4> QED
          BY <1>1, <1>3, <1>4, <1>5, <3>1, <4>1
      <3> QED
        BY <1>1, <1>4, <3>1, <3>2
    <2> QED
      BY <1>1, <2>1, <2>2 DEF Placed
  <1>9. \A d : Sent(d) <=> Sent(d)'
    BY <1>1 DEF Sent, Handed, wireVars
  <1>10. \A d \in Owned : Arrived(d)'
    BY <1>1, <1>9, ServerStill DEF OnceInv, wireVars
  <1> QED
    BY <1>6, <1>8, <1>10 DEF OnceInv

-----------------------------------------------------------------------------
(* The server's steps, and the theorem.                                     *)

\* The server takes the first request of a socket; the others move up.
LEMMA Taken ==
    ASSUME out \in [Sockets -> Seq(Requests)], NEW s \in Sockets, out[s] # <<>>,
           out' = [out EXCEPT ![s] = Tail(@)]
    PROVE  /\ out' \in [Sockets -> Seq(Requests)] /\ Head(out[s]) \in Requests
           /\ 1 \in DOMAIN out[s] /\ out[s][1] = Head(out[s])
           /\ \A t \in Sockets \ {s} : out'[t] = out[t]
           /\ \A i \in DOMAIN out'[s] :
                /\ i \in Nat \ {0} /\ i + 1 \in DOMAIN out[s]
                /\ out'[s][i] = out[s][i + 1]
  <1>1. out[s] \in Seq(Requests) /\ out'[s] = Tail(out[s])
    OBVIOUS
  <1>2. /\ Head(out[s]) \in Requests /\ Tail(out[s]) \in Seq(Requests)
        /\ Len(Tail(out[s])) = Len(out[s]) - 1
        /\ \A i \in 1 .. Len(Tail(out[s])) : Tail(out[s])[i] = out[s][i + 1]
    BY <1>1, HeadTailProperties
  <1>3. DOMAIN Tail(out[s]) = 1 .. Len(out[s]) - 1 /\ DOMAIN out[s] = 1 .. Len(out[s])
    BY <1>1, <1>2
  <1>4. Len(out[s]) \in Nat \ {0} /\ out[s][1] = Head(out[s])
    BY <1>1
  <1> QED
    BY <1>1, <1>2, <1>3, <1>4

\* What may become of a command when the server serves a request of s: it is where it
\* was, or dropped; EXEC executes it; it is the request and executed; it is the request
\* and queued for EXEC.
LEMMA ServedOnce ==
    ASSUME NEW c \in Owned, Arrived(c), runs[c] \in Nat, Sent(c) => Sent(c)',
           out \in [Sockets -> Seq(Requests)], NEW s \in Sockets, out[s] # <<>>,
           out' = [out EXCEPT ![s] = Tail(@)],
           \/ /\ runs'[c] = runs[c]
              /\ \A t \in Sockets : c \in inside'[t] => c \in inside[t]
           \/ /\ c \in inside[s] /\ runs'[c] = runs[c] + 1
              /\ \A t \in Sockets : c \in inside'[t] => c \in inside[t] /\ t # s
           \/ /\ c = Head(out[s]) /\ runs'[c] = runs[c] + 1
              /\ \A t \in Sockets : c \in inside'[t] => c \in inside[t]
           \/ /\ c = Head(out[s]) /\ runs'[c] = runs[c]
              /\ \A t \in Sockets : c \in inside'[t] => c \in inside[t] \/ t = s
    PROVE  Arrived(c)'
  <1> DEFINE At(t, i) == IF t = s THEN i + 1 ELSE i
  <1>1. /\ 1 \in DOMAIN out[s] /\ out[s][1] = Head(out[s])
        /\ \A t \in Sockets \ {s} : out'[t] = out[t]
        /\ \A i \in DOMAIN out'[s] :
             /\ i \in Nat \ {0} /\ i + 1 \in DOMAIN out[s]
             /\ out'[s][i] = out[s][i + 1]
    BY Taken
  <1>2. ASSUME NEW t \in Sockets, NEW i \in DOMAIN out'[t], out'[t][i] = c
        PROVE  At(t, i) \in DOMAIN out[t] /\ out[t][At(t, i)] = c /\ (t = s => At(t, i) # 1)
    BY <1>1, <1>2
  <1>3. ASSUME NEW t \in Sockets, NEW i \in DOMAIN out'[t], out'[t][i] = c,
               NEW u \in Sockets, NEW j \in DOMAIN out'[u], out'[u][j] = c
        PROVE  t = u /\ i = j
    <2>1. t = u /\ At(t, i) = At(u, j)
      BY <1>2, <1>3 DEF Arrived
    <2>2. CASE t = s
      BY <1>1, <1>3, <2>1, <2>2
    <2>3. CASE t # s
      BY <2>1, <2>3
    <2> QED
      BY <2>2, <2>3
  <1>4. ASSUME NEW t \in Sockets, NEW i \in DOMAIN out'[t], out'[t][i] = c
        PROVE  /\ Sent(c) /\ runs[c] = 0 /\ c # Head(out[s])
               /\ \A u \in Sockets : c \notin inside[u]
    <2>1. /\ Sent(c) /\ runs[c] = 0 /\ \A u \in Sockets : c \notin inside[u]
          /\ \A u \in Sockets : \A j \in DOMAIN out[u] : out[u][j] = c => u = t /\ j = At(t, i)
      BY <1>2, <1>4 DEF Arrived
    <2>2. c # Head(out[s])
      BY <1>1, <1>2, <1>4, <2>1
    <2> QED
      BY <2>1, <2>2
  <1>5. c = Head(out[s]) => Sent(c) /\ runs[c] = 0 /\ \A u \in Sockets : c \notin inside[u]
    BY <1>1 DEF Arrived
  <1>6. \A t \in Sockets : c \in inside[t] =>
          Sent(c) /\ runs[c] = 0 /\ \A u \in Sockets : c \in inside[u] => u = t
    BY DEF Arrived
  <1>7. runs'[c] <= 1 /\ (runs'[c] > 0 => Sent(c)')
    BY <1>5, <1>6 DEF Arrived
  <1>8. \A t \in Sockets : \A i \in DOMAIN out'[t] : out'[t][i] = c =>
          Sent(c)' /\ runs'[c] = 0 /\ \A u \in Sockets : c \notin inside'[u]
    BY <1>4
  <1>9. \A t \in Sockets : c \in inside'[t] =>
          Sent(c)' /\ runs'[c] = 0 /\ \A u \in Sockets : c \in inside'[u] => u = t
    <2>1. CASE /\ runs'[c] = runs[c]
               /\ \A t \in Sockets : c \in inside'[t] => c \in inside[t]
      BY <1>6, <2>1
    <2>2. CASE /\ c \in inside[s] /\ runs'[c] = runs[c] + 1
               /\ \A t \in Sockets : c \in inside'[t] => c \in inside[t] /\ t # s
      BY <1>6, <2>2
    <2>3. CASE /\ c = Head(out[s]) /\ runs'[c] = runs[c] + 1
               /\ \A t \in Sockets : c \in inside'[t] => c \in inside[t]
      BY <1>5, <2>3
    <2>4. CASE /\ c = Head(out[s]) /\ runs'[c] = runs[c]
               /\ \A t \in Sockets : c \in inside'[t] => c \in inside[t] \/ t = s
      BY <1>5, <2>4
    <2> QED
      BY <2>1, <2>2, <2>3, <2>4
  <1> QED
    BY <1>3, <1>7, <1>8, <1>9 DEF Arrived

LEMMA ExchangeOnce ==
    ASSUME OnceInv, NEW s \in Sockets, Exchange(s)
    PROVE  OnceInv'
  <1> DEFINE r == Head(out[s])
  <1>1. /\ Shaped /\ MuxWrites /\ Placed /\ \A f \in Flushes : Reached(f)
        /\ \A c \in Owned : Arrived(c) /\ c \in Commands /\ runs[c] \in Nat
    BY DEF OnceInv, Shaped, Owned
  <1>2. /\ out[s] # <<>> /\ UNCHANGED <<connVars, muxVars, pipeVars>>
        /\ ServeMulti(s) \/ ServeQueued(s) \/ ServeExec(s) \/ ServeNow(s)
    BY DEF Exchange
  <1>3. /\ out' = [out EXCEPT ![s] = Tail(@)] /\ UNCHANGED call
        /\ \E ran : runs' = [c \in Commands |-> IF c \in ran THEN runs[c] + 1 ELSE runs[c]]
    <2>1. \E ran, a : Serves(s, ran, a)
      BY <1>2 DEF ServeMulti, ServeQueued, ServeExec, ServeNow, ServerExec
    <2> QED
      BY <2>1 DEF Serves
  <1>4. /\ out \in [Sockets -> Seq(Requests)] /\ runs \in [Commands -> Nat]
        /\ inside \in [Sockets -> SUBSET Requests]
    BY <1>1 DEF Shaped
  <1>5. out' \in [Sockets -> Seq(Requests)] /\ r \in Requests
    BY <1>2, <1>3, <1>4, Taken
  <1> HIDE DEF r
  <1>6. runs' \in [Commands -> Nat]
    BY <1>3, <1>4
  <1>7. inside' \in [Sockets -> SUBSET Requests]
    BY <1>2, <1>4, <1>5 DEF ServeMulti, ServeQueued, ServeExec, ServeNow, serverVars, r
  <1>8. Shaped' /\ MuxWrites' /\ Placed' /\ \A f \in Flushes : Reached(f)'
    BY <1>1, <1>2, <1>3, <1>5, <1>6, <1>7
       DEF Shaped, MuxWrites, Placed, Reached, Flushing, connVars, muxVars, pipeVars
  <1>9. \A c : Sent(c)' <=> Sent(c)
    BY <1>2, <1>3 DEF Sent, Handed, pipeVars
  <1>10. ASSUME NEW c \in Owned
         PROVE  \/ /\ runs'[c] = runs[c]
                   /\ \A t \in Sockets : c \in inside'[t] => c \in inside[t]
                \/ /\ c \in inside[s] /\ runs'[c] = runs[c] + 1
                   /\ \A t \in Sockets : c \in inside'[t] => c \in inside[t] /\ t # s
                \/ /\ c = r /\ runs'[c] = runs[c] + 1
                   /\ \A t \in Sockets : c \in inside'[t] => c \in inside[t]
                \/ /\ c = r /\ runs'[c] = runs[c]
                   /\ \A t \in Sockets : c \in inside'[t] => c \in inside[t] \/ t = s
    <2>1. CASE ServeMulti(s)
      BY <1>1, <2>1 DEF ServeMulti, Serves
    <2>2. CASE ServeQueued(s)
      <3>1. runs'[c] = runs[c]
        BY <1>1, <2>2 DEF ServeQueued, Serves
      <3>2. inside' = inside \/ inside' = [inside EXCEPT ![s] = @ \cup {r}]
        BY <2>2 DEF ServeQueued, r
      <3> QED
        BY <1>4, <3>1, <3>2
    <2>3. CASE ServeExec(s)
      <3>1. inside' = [inside EXCEPT ![s] = {}]
        BY <2>3 DEF ServeExec
      <3>2. runs'[c] = runs[c] \/ (c \in inside[s] /\ runs'[c] = runs[c] + 1)
        BY <1>1, <2>3 DEF ServeExec, Serves
      <3> QED
        BY <1>4, <3>1, <3>2
    <2>4. CASE ServeNow(s)
      <3>1. UNCHANGED inside
        BY <2>4 DEF ServeNow, serverVars
      <3>2. runs'[c] = IF c \in {r} THEN runs[c] + 1 ELSE runs[c]
        BY <1>1, <2>4 DEF ServeNow, ServerExec, Serves, r
      <3> QED
        BY <3>1, <3>2
    <2> QED
      BY <1>2, <2>1, <2>2, <2>3, <2>4
  <1>11. \A c \in Owned : Arrived(c)'
    BY <1>1, <1>2, <1>3, <1>4, <1>9, <1>10, ServedOnce DEF r
  <1> QED
    BY <1>8, <1>11 DEF OnceInv

LEMMA NextOnce ==
    ASSUME OnceInv, [Next]_vars
    PROVE  OnceInv'
  <1>1. CASE Fibre
    <2>1. CASE CallStep(Mux) /\ UNCHANGED <<connVars, muxVars, pipeVars, serverVars, histories>>
      BY <2>1, MuxCallOnce DEF serverVars
    <2>2. CASE ConnStep(Mux) /\ UNCHANGED <<muxVars, pipeVars, serverVars, histories>>
      BY <2>2, MuxConnOnce DEF serverVars
    <2>3. CASE MuxStep /\ UNCHANGED <<pipeVars, serverVars, histories>>
      BY <2>3, MuxStepOnce DEF serverVars
    <2>4. ASSUME NEW f \in Flushes, PipeStep(f)
          PROVE  OnceInv'
      BY <2>4, FlushCallOnce, PipeCollectsOnce DEF PipeStep, serverVars
    <2> QED
      BY <1>1, <2>1, <2>2, <2>3, <2>4 DEF Fibre
  <1>2. CASE UNCHANGED <<out, call, runs, task, muxVars, pipeVars, inside>>
    <2>1. Shaped' /\ MuxWrites'
      BY <1>2 DEF OnceInv, Shaped, MuxWrites, muxVars, pipeVars
    <2> QED
      BY <1>2, <2>1, FlushesKept
  <1>3. CASE UserClose \/ UNCHANGED vars \/ \E s \in Sockets : Cut(s)
    BY <1>2, <1>3 DEF UserClose, Cut, LinkCut, vars, wireVars, connVars, serverVars
  <1>4. ASSUME NEW s \in Sockets, Exchange(s)
        PROVE  OnceInv'
    BY <1>4, ExchangeOnce
  <1>5. ASSUME NEW c \in Commands, UserExec(c)
        PROVE  OnceInv'
    <2>1. /\ OwnerOf[c] = None /\ UNCHANGED <<pipeVars, inside>>
          /\ Exec(c) \/ ExecRefused(c)
      BY <1>5 DEF UserExec, serverVars
    <2>2. CASE Exec(c)
      BY <2>1, <2>2, ExecOnce
    <2>3. CASE ExecRefused(c)
      <3>1. Shaped' /\ MuxWrites' /\ UNCHANGED <<out, call, runs>>
        BY <2>1, <2>3 DEF ExecRefused, OnceInv, Shaped, MuxWrites, wireVars, connVars, pipeVars
      <3> QED
        BY <2>1, <3>1, FlushesKept
    <2> QED
      BY <2>1, <2>2, <2>3
  <1>6. ASSUME NEW p \in Pipes, NEW c \in Commands, PipeExec(p, c)
        PROVE  OnceInv'
    BY <1>6, PipeExecOnce
  <1>7. ASSUME NEW f \in Flushes, Flush(f)
        PROVE  OnceInv'
    BY <1>7, FlushOnce
  <1> QED
    BY <1>1, <1>3, <1>4, <1>5, <1>6, <1>7 DEF Next

\* A command given to a pipeline is executed at most once, whatever overlaps and wherever
\* the flush() ends: exec() adds it once, flush() takes it away before it awaits
\* (pipeline.ts:49-62), sendCommands() writes it once, and the server executes what a
\* socket brought it once, in EXEC or outside it.
THEOREM CommandsRunOnce == Spec => []EachCommandOnce
  <1>1. Init => OnceInv
    BY InitOnce
  <1>2. OnceInv /\ [Next]_vars => OnceInv'
    BY NextOnce
  <1>3. OnceInv => EachCommandOnce
    BY DEF OnceInv, Arrived, Owned, EachCommandOnce
  <1> QED
    BY <1>1, <1>2, <1>3, PTL DEF Spec
=============================================================================
