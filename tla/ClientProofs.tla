---------------------------- MODULE ClientProofs ----------------------------
(***************************************************************************)
(* Theorems about the client of redis.ts connect(), for any set of         *)
(* commands, any handshake, any retry budget and any number of sockets.    *)
(* Its one fibre always has the turn: what is added to TurnProofs is that  *)
(* connect() is over before the executor has anything to do (IInv).  The   *)
(* second part strengthens this with what relates a state to the past      *)
(* (HInv): how often the server executes a command, in which order         *)
(* promises settle, on which socket a command is sent again, and that the  *)
(* client implements CommandQueue.                                         *)
(***************************************************************************)
EXTENDS Client, TurnProofs, FiniteSetTheorems

\* Before the client exists only connect() is at work, and afterwards only the
\* executor.
PhaseShape ==
    /\ phase # "ready" => ~ isProcessing
    /\ phase = "boot" => task[Mux].pc # "idle"
    /\ phase # "boot" => MuxRests

IInv == TypeOK /\ InTurn(Mux) /\ PhaseShape

LEMMA MuxTypes ==
    ASSUME IInv
    PROVE  /\ Mux \in Fibers /\ Mux \notin Receivers
           /\ call \in [Fibers -> Calls] /\ call[Mux] \in Calls
           /\ call[Mux].st \in CallStates
           /\ task \in [Fibers -> Tasks] /\ task[Mux] \in Tasks
           /\ task[Mux].pc \in TaskStates
  BY MuxAssumption, FibreTypes DEF IInv

-----------------------------------------------------------------------------
(* One lemma for each step of the system: it preserves the invariant.      *)

\* The types of a step that leaves the turn to Mux.
LEMMA TypesKept ==
    ASSUME IInv, InTurn(Mux)', phase' \in {"boot", "ready", "failed"}, userClosed' \in BOOLEAN
    PROVE  TypeOK'
  BY DEF InTurn, TypesOK, TypeOK

\* The fibre in a call, in connect() or in reconnect().
LEMMA FibreInv ==
    ASSUME IInv,
           \/ CallStep(Mux) /\ UNCHANGED <<connVars, muxVars, userVars>>
           \/ ConnStep(Mux) /\ UNCHANGED <<muxVars, userVars>>
    PROVE  IInv'
  <1>1. InTurn(Mux)'
    BY MuxTypes, CallStepTurn, ConnStepTurn DEF IInv
  <1>2. UNCHANGED <<isProcessing, phase, userClosed>>
    BY DEF muxVars, userVars
  <1>3. phase # "boot" => isProcessing
    <2>1. CallStep(Mux) => call[Mux].st # "idle"
      BY DEF CallStep, WriteOk, WriteFails, StartRead, ReadReply, ReadFails
    <2>2. ConnStep(Mux) => task[Mux].pc # "idle"
      BY DEF ConnStep, DialOk, DialFails, HelloStep, HelloFails, DelayOver, PingOk, PingFails,
             RePing
    <2> QED
      BY <2>1, <2>2 DEF IInv, PhaseShape, MuxRests
  <1>4. phase = "boot" => task'[Mux].pc # "idle"
    BY MuxTypes, ConnStepTasks DEF connVars, IInv, PhaseShape
  <1>5. PhaseShape'
    BY <1>2, <1>3, <1>4 DEF IInv, PhaseShape, MuxRests
  <1> QED
    BY <1>1, <1>2, <1>5, TypesKept DEF IInv, TypeOK

\* dequeue() moves only while there is a command, which there is not before the
\* client exists.
LEMMA MuxStepInv ==
    ASSUME IInv, MuxStep, UNCHANGED userVars
    PROVE  IInv'
  <1>1. isProcessing /\ phase = "ready" /\ phase' = phase /\ userClosed' = userClosed
    BY DEF MuxStep, Resolve, Reject, Retry, Resume, GiveUp, HeadIsBack, IInv, PhaseShape,
           userVars
  <1>2. InTurn(Mux)' /\ MuxRests'
    BY MuxStepTurn DEF IInv
  <1> QED
    BY <1>1, <1>2, TypesKept DEF IInv, TypeOK, PhaseShape

\* An activation of connect() that has returned to redis.ts is forgotten.
LEMMA BootInv ==
    ASSUME IInv, BootOk \/ BootFails
    PROVE  IInv'
  <1>1. /\ phase = "boot" /\ task[Mux].pc \in {"ok", "failed"}
        /\ phase' \in {"ready", "failed"} /\ task' = [task EXCEPT ![Mux] = NoTask]
        /\ UNCHANGED <<wireVars, cur, isClosed, isConnected, retryCount, muxVars, userClosed>>
    BY DEF BootOk, BootFails
  <1>2. ~ isProcessing /\ queue = <<>> /\ call[Mux].st = "idle"
    BY <1>1 DEF IInv, PhaseShape, InTurn, QueueWorks, TaskOf
  <1>3. /\ task' \in [Fibers -> Tasks] /\ SameTasks(Mux)
        /\ task'[Mux].pc = "idle" /\ task'[Mux].dials <= MaxRetryCount + 1
    BY <1>1, MuxTypes, NoTaskType, ConnectionAssumption DEF SameTasks
  <1>4. Stopped(Mux) /\ SameCalls(Mux)
    BY <1>1, <1>2, MuxTypes, BetweenCalls DEF IInv, Stopped, SameCalls, NoLocks, wireVars
  <1>5. /\ queue' \in Seq(Commands) /\ isProcessing' \in BOOLEAN
        /\ settled' \in [Commands -> Outcomes(Requests) \cup {None}]
        /\ retries' \in [Commands -> Nat] /\ OwnReplies'
        /\ queue' = <<>> /\ ~ isProcessing'
    BY <1>1, <1>2 DEF IInv, InTurn, TypesOK, MuxTypeOK, OwnReplies, muxVars
  <1>6. /\ call' \in [Fibers -> Calls] /\ wlock' \in [Sockets -> Fibers \cup {None}]
        /\ UNCHANGED <<rid, link, out, inb, rlock, runs>>
    BY <1>1 DEF IInv, InTurn, TypesOK, WireTypeOK, wireVars
  <1>7. InTurn(Mux)' /\ MuxRests'
    BY <1>1, <1>2, <1>3, <1>4, <1>5, <1>6, MuxTurn DEF IInv
  <1> QED
    BY <1>1, <1>5, <1>7, TypesKept DEF IInv, TypeOK, PhaseShape

LEMMA UserExecInv ==
    ASSUME IInv, NEW c \in Commands, UserExec(c)
    PROVE  IInv'
  <1>1. /\ phase = "ready" /\ (Exec(c) \/ ExecRefused(c))
        /\ phase' = phase /\ userClosed' = userClosed
    BY DEF UserExec, userVars
  <1>2. InTurn(Mux)' /\ MuxRests'
    BY <1>1, MuxTypes, ExecTurn, ExecRefusedTurn DEF IInv, PhaseShape
  <1> QED
    BY <1>1, <1>2, TypesKept DEF IInv, TypeOK, PhaseShape

\* A step of the server, of the network or of close() leaves the fibre where it is.
LEMMA OutsideInv ==
    ASSUME IInv,
           UserClose \/ \E s \in Sockets : Exchange(s) \/ Cut(s)
    PROVE  IInv'
  <1>1. InTurn(Mux)'
    BY MuxTypes, CloseTurn, ServerTurn, LinkCutTurn DEF IInv, UserClose, Exchange, Cut
  <1>2. /\ UNCHANGED <<call, task, isProcessing, phase>>
        /\ userClosed' \in {userClosed, TRUE}
    BY DEF UserClose, Exchange, Cut, ServerExec, Serves, LinkCut, connVars, muxVars, userVars
  <1> QED
    BY <1>1, <1>2, TypesKept DEF IInv, TypeOK, PhaseShape, MuxRests

LEMMA StutterInv ==
    ASSUME IInv, UNCHANGED vars
    PROVE  IInv'
  <1>1. UNCHANGED <<wireVars, connVars, muxVars, phase, userClosed>>
    BY DEF vars, userVars
  <1>2. InTurn(Mux)'
    <2>1. TypesOK' /\ Others(Mux)' /\ CallOf(Mux)' /\ TaskOf(Mux)' /\ BudgetOf(Mux)'
      BY <1>1
      DEF IInv, InTurn, TypesOK, WireTypeOK, ConnTypeOK, MuxTypeOK, Others, Rests, CallOf,
          TaskOf, BudgetOf, wireVars, connVars, muxVars
    <2>2. SocketsOf(Mux)' /\ LocksOf(Mux)' /\ WireOf(Mux)'
      BY <1>1 DEF IInv, InTurn, SocketsOf, LocksOf, WireOf, wireVars, connVars
    <2>3. ErrorsOf(Mux)' /\ QueueWorks' /\ OwnReplies'
      BY <1>1 DEF IInv, InTurn, ErrorsOf, QueueWorks, OwnReplies, wireVars, connVars, muxVars
    <2> QED
      BY <2>1, <2>2, <2>3 DEF InTurn
  <1> QED
    BY <1>1, <1>2, TypesKept DEF IInv, TypeOK, PhaseShape, MuxRests, wireVars, connVars, muxVars

LEMMA InitInv ==
    ASSUME Init
    PROVE  IInv
  <1> DEFINE Dialing == [NoTask EXCEPT !.pc = "dialing", !.dials = 1]
  <1>1. 0 \in 0 .. MaxRetryCount /\ 1 <= MaxRetryCount + 1 /\ 0 <= MaxRetryCount + 1
        /\ 1 = 0 + 1
    BY ConnectionAssumption
  <1>2. NoCall \in Calls /\ NoCall.st = "idle" /\ Mux \in Fibers /\ Mux \notin Receivers
    BY NoCallType, MuxAssumption
  <1>3. /\ NoTask \in Tasks /\ NoTask.pc = "idle" /\ NoTask.dials = 0
        /\ Dialing \in Tasks /\ Dialing.pc = "dialing" /\ Dialing.dials = 1
    BY NoTaskType DEF Tasks, TaskStates
  <1>4. /\ retryCount = 0 /\ queue = <<>> /\ isProcessing = FALSE
        /\ \A c \in Commands : settled[c] = None
        /\ \A f \in Fibers : call[f] = NoCall
        /\ task[Mux] = Dialing /\ \A f \in Fibers \ {Mux} : task[f] = NoTask
        /\ \A s \in Sockets : /\ rid[s] = "unused" /\ out[s] = <<>> /\ inb[s] = <<>>
                              /\ rlock[s] = None /\ wlock[s] = None
    BY <1>2 DEF Init, WireInit, MuxInit
  <1>5. TypeOK
    <2>1. WireTypeOK
      BY <1>2, EmptyType DEF Init, WireInit, WireTypeOK
    <2>2. ConnTypeOK
      BY <1>1, <1>3 DEF Init, ConnTypeOK
    <2>3. MuxTypeOK
      <3>1. <<>> \in Seq(Commands) /\ FALSE \in BOOLEAN /\ 0 \in Nat
        OBVIOUS
      <3> QED
        BY <3>1 DEF Init, MuxInit, MuxTypeOK
    <2> QED
      BY <2>1, <2>2, <2>3 DEF Init, TypeOK
  <1> HIDE DEF Dialing
  <1>6. CallOf(Mux) /\ TaskOf(Mux) /\ BudgetOf(Mux) /\ Others(Mux)
    <2>1. CallOf(Mux) /\ TaskOf(Mux)
      BY <1>2, <1>3, <1>4 DEF CallOf, TaskOf
    <2>2. BudgetOf(Mux)
      BY <1>1, <1>3, <1>4 DEF BudgetOf
    <2>3. Others(Mux)
      BY <1>1, <1>2, <1>3, <1>4 DEF Others, Rests
    <2> QED
      BY <2>1, <2>2, <2>3
  <1>7. SocketsOf(Mux) /\ LocksOf(Mux) /\ WireOf(Mux)
    BY <1>2, <1>3, <1>4 DEF SocketsOf, LocksOf, WireOf
  <1>8. ErrorsOf(Mux) /\ QueueWorks /\ OwnReplies
    BY <1>2, <1>3, <1>4 DEF ErrorsOf, QueueWorks, OwnReplies
  <1>9. PhaseShape
    BY <1>3, <1>4 DEF Init, PhaseShape
  <1> QED
    BY <1>5, <1>6, <1>7, <1>8, <1>9 DEF IInv, InTurn, TypeOK, TypesOK

LEMMA NextInv ==
    ASSUME IInv, Next
    PROVE  IInv'
  <1>1. CASE Fibre
    BY <1>1, FibreInv, MuxStepInv, BootInv DEF Fibre
  <1>2. CASE UserClose \/ \E s \in Sockets : Exchange(s) \/ Cut(s)
    BY <1>2, OutsideInv
  <1>3. ASSUME NEW c \in Commands, UserExec(c) PROVE IInv'
    BY <1>3, UserExecInv
  <1>4. CASE Finished
    BY <1>4, StutterInv DEF Finished
  <1> QED
    BY <1>1, <1>2, <1>3, <1>4 DEF Next

-----------------------------------------------------------------------------
(* The theorems.                                                           *)

\* The parts above hold together in every state of every client.
THEOREM Invariance == Spec => []IInv
  <1>1. IInv /\ [Next]_vars => IInv'
    BY NextInv, StutterInv
  <1> QED
    BY <1>1, InitInv, PTL DEF Spec

\* Every variable keeps its type: in particular retryCount stays within
\* maxRetryCount, and a promise settles with a reply or an error.
THEOREM TypeCorrect == Spec => []TypeOK
  <1>1. IInv => TypeOK
    BY DEF IInv
  <1> QED
    BY <1>1, Invariance, PTL

\* No promise of exec() is ever fulfilled with the reply to another command,
\* whatever fails, reconnects or is closed in between (executor.ts dequeue()).
THEOREM OwnReply == Spec => []NoForeignReply
  <1>1. IInv => NoForeignReply
    BY InternalRequests DEF IInv, InTurn, OwnReplies, OwnOutcome, NoForeignReply
  <1> QED
    BY <1>1, Invariance, PTL

\* dequeue() is at work exactly while the queue holds a command, and on its
\* head: no command is stranded (executor.ts exec(), dequeue()).
THEOREM NothingStranded == Spec => []NoStrandedCommand
  <1>1. IInv => NoStrandedCommand
    BY DEF IInv, InTurn, QueueWorks, NoStrandedCommand
  <1> QED
    BY <1>1, Invariance, PTL

\* connect() dials at most 1 + maxRetryCount times and starts from a full
\* budget (connection.ts connect(), the shared retryCount).
THEOREM BoundedDials == Spec => []DialBudget
  <1>1. IInv => DialBudget
    BY DEF IInv, InTurn, BudgetOf, DialBudget
  <1> QED
    BY <1>1, Invariance, PTL

\* No socket is left open when connect() or reconnect() replaces it
\* (connection.ts connect(), reconnect(), close()).
THEOREM NoLeak == Spec => []NoSocketLeak
  <1>1. IInv => NoSocketLeak
    BY DEF IInv, InTurn, SocketsOf, NoSocketLeak
  <1> QED
    BY <1>1, Invariance, PTL

\* A caller's command is sent only when no connect() or reconnect() runs: after
\* the AUTH, SELECT and CLIENT SETNAME of the socket it uses.
THEOREM HandshakeFirst == Spec => []CommandsAfterHandshake
  <1>1. IInv => CommandsAfterHandshake
    BY MuxTypes, InternalRequests DEF IInv, InTurn, TaskOf, TaskStates, CommandsAfterHandshake
  <1> QED
    BY <1>1, Invariance, PTL

-----------------------------------------------------------------------------
(* What happened, and how often.                                          *)

Dead(s) == s \in Sockets /\ rid[s] \notin {"unused", "open"}

IsRetriable(o) == o.kind = "fault" /\ o.of \in RetriableFaults

\* Every call is made on the current socket; one that ended with an exception
\* that is retried has found that socket dead, and reconnect() asks it for a
\* PING.
SendShape ==
    /\ cur \in Sockets => rid[cur] # "unused"
    /\ call[Mux].st # "idle" => call[Mux].sock = cur
    /\ call[Mux].st = "done" /\ IsRetriable(call[Mux].res) => Dead(cur)
    /\ task[Mux].pc = "ping" => Dead(cur)

\* The queue holds every command once, and only commands that have not settled.
OrderShape ==
    /\ \A i \in 1 .. Len(queue) : settled[queue[i]] = None
    /\ \A i, j \in 1 .. Len(queue) : queue[i] = queue[j] => i = j

\* Command c has been written since the last reconnection it caused.
Sent(c) ==
    \/ settled[c] # None
    \/ /\ queue # <<>> /\ c = Head(queue) /\ task[Mux].pc = "idle"
       /\ call[Mux].st \in {"written", "reading", "done"}

\* The sockets whose server has not executed c yet.
Unread(c) == {s \in Sockets : out[s] = <<c>>}

\* The executions of c, those that may still come included, are paid for by the
\* reconnections c has caused.
CopiesShape ==
    /\ \A s \in Sockets : out[s] = <<>> \/ \E r \in Requests : out[s] = <<r>>
    /\ \A c \in Commands :
         runs[c] + Cardinality(Unread(c)) + (IF Sent(c) THEN 0 ELSE 1) <= 1 + retries[c]
    /\ \A c \in Commands : ~ Issued(c) \/ MaxRetryCount = 0 => retries[c] = 0

\* What is answered was executed; what was refused is not, and never will be.
AnswerShape ==
    /\ \A s \in Sockets : rid[s] = "open" /\ inb[s] # <<>> /\ call[Mux].req \in Commands =>
         runs[call[Mux].req] > 0
    /\ call[Mux].st = "done" /\ call[Mux].res.kind # "fault" /\ call[Mux].req \in Commands =>
         runs[call[Mux].req] > 0
    /\ call[Mux].st = "done" => call[Mux].res # Fault("ConnectionClosed")
    /\ task[Mux].pc = "failed" =>
         /\ task[Mux].err # Fault("ConnectionClosed")
         /\ task[Mux].err.kind = "fault" \/ task[Mux].err.of \in Promise!Internal
    /\ AnsweredIffExecuted
    /\ \A c \in Commands : settled[c] = Fault("ConnectionClosed") => Unread(c) = {}

HInv == IInv /\ SendShape /\ OrderShape /\ CopiesShape /\ AnswerShape

-----------------------------------------------------------------------------
(* What a step does to the fibre's call.                                   *)

\* The call after a step that begins or ends one: none, one that begins on the
\* current socket, or one that found its writer locked.
FreshCall ==
    \/ call'[Mux].st = "idle"
    \/ call'[Mux].sock = cur' /\ call'[Mux].st = "writing"
    \/ /\ call'[Mux].sock = cur' /\ call'[Mux].st = "done"
       /\ call'[Mux].res = Fault("TypeError")

\* An error that settles a promise without being the reply to a command.
IsFailure(o) ==
    /\ o # Fault("ConnectionClosed")
    /\ o.kind = "fault" \/ o.of \in Promise!Internal

LEMMA FreshNone ==
    ASSUME IInv, call' = [call EXCEPT ![Mux] = NoCall]
    PROVE  FreshCall
  BY MuxTypes, NoCallType DEF FreshCall

LEMMA FreshSend ==
    ASSUME IInv, NEW r, NEW locks, Send(Mux, cur', r, locks)
    PROVE  FreshCall
  <1>1. CASE cur' # NoSocket /\ locks[cur'] = None
    BY <1>1, MuxTypes DEF Send, FreshCall
  <1>2. CASE ~ (cur' # NoSocket /\ locks[cur'] = None)
    BY <1>2, MuxTypes DEF Send, FreshCall
  <1> QED
    BY <1>1, <1>2

LEMMA FreshDequeue ==
    ASSUME IInv, NEW q, Dequeue(q), cur' = cur
    PROVE  FreshCall
  <1>1. CASE q = <<>>
    BY <1>1, FreshNone DEF Dequeue, EndCall
  <1>2. CASE q # <<>>
    BY <1>2, FreshSend DEF Dequeue
  <1> QED
    BY <1>1, <1>2

LEMMA InternalHello ==
    /\ "PING" \in Promise!Internal
    /\ \A i \in 1 .. Len(Hello) : Hello[i] \in Promise!Internal
    /\ Promise!Internal \cap Commands = {}
  BY ConnectionAssumption DEF Promise!Internal

\* A call that was not a command's fails with an error of its own.
LEMMA InternalFailure ==
    ASSUME IInv, AnswerShape, call[Mux].st = "done", call[Mux].req \in Promise!Internal
    PROVE  IsFailure(call[Mux].res)
  BY DEF IInv, InTurn, WireOf, AnswerShape, IsFailure

LEMMA FaultFailure ==
    ASSUME NEW e \in FaultKinds \ {"ConnectionClosed"}
    PROVE  IsFailure(Fault(e))
  BY DEF IsFailure, Fault

\* connect() and reconnect() start and end calls on the current socket, close it
\* or replace it by a new one, and fail only with errors of their own.
ConnEffect ==
    /\ FreshCall
    /\ task'[Mux].pc \notin {"idle", "ping"}
    /\ task'[Mux].pc = "failed" => IsFailure(task'[Mux].err)
    /\ \/ cur' \in Sockets /\ rid'[cur'] = "open"
       \/ /\ cur' = cur
          /\ \A s \in Sockets : rid'[s] = rid[s] \/ rid'[s] = "closed"

LEMMA ConnectedHistory ==
    ASSUME IInv, NEW locks, Connected(Mux, cur', locks), task[Mux].pc # "failed"
    PROVE  FreshCall /\ task'[Mux].pc \in {"reping", "ok"}
  <1>1. CASE task[Mux].mode = "reconnect"
    <2>1. task' = [task EXCEPT ![Mux].pc = "reping"] /\ Send(Mux, cur', "PING", locks)
      BY <1>1 DEF Connected
    <2> QED
      BY <2>1, FreshSend, MuxTypes DEF Tasks
  <1>2. CASE task[Mux].mode # "reconnect"
    <2>1. task' = [task EXCEPT ![Mux].pc = "ok"] /\ call' = [call EXCEPT ![Mux] = NoCall]
      BY <1>2 DEF Connected
    <2> QED
      BY <2>1, FreshNone, MuxTypes DEF Tasks
  <1> QED
    BY <1>1, <1>2

LEMMA CatchHistory ==
    ASSUME IInv, NEW o, ConnectCatches(Mux, o), IsFailure(o)
    PROVE  /\ FreshCall
           /\ task'[Mux].pc \in {"failed", "delay"}
           /\ task'[Mux].pc = "failed" => IsFailure(task'[Mux].err)
  <1> DEFINE giveUp == o = Fault("Authentication") \/ retryCount >= MaxRetryCount
  <1>1. FreshCall
    BY FreshNone DEF ConnectCatches
  <1>2. task' = [task EXCEPT ![Mux] = IF giveUp THEN [@ EXCEPT !.pc = "failed", !.err = o]
                                                ELSE [@ EXCEPT !.pc = "delay"]]
    BY DEF ConnectCatches
  <1>3. CASE giveUp
    <2>1. task' = [task EXCEPT ![Mux] = [@ EXCEPT !.pc = "failed", !.err = o]]
      BY <1>2, <1>3
    <2> QED
      BY <1>1, <2>1, MuxTypes DEF Tasks
  <1>4. CASE ~ giveUp
    <2>1. task' = [task EXCEPT ![Mux] = [@ EXCEPT !.pc = "delay"]]
      BY <1>2, <1>4
    <2> QED
      BY <1>1, <2>1, MuxTypes DEF Tasks
  <1> QED
    BY <1>3, <1>4

LEMMA CloseNowHistory ==
    ASSUME IInv, CloseNow
    PROVE  \A s \in Sockets : rid'[s] = rid[s] \/ (rid[s] = "open" /\ rid'[s] = "closed")
  BY DEF IInv, TypeOK, WireTypeOK, CloseNow, CloseSocket

LEMMA DialHistory ==
    ASSUME IInv, AnswerShape, DialOk(Mux) \/ DialFails(Mux) \/ DelayOver(Mux)
    PROVE  ConnEffect
  <1>1. CASE DialOk(Mux)
    <2>1. PICK s \in Sockets :
            /\ rid' = [rid EXCEPT ![s] = "open"] /\ cur' = s
            /\ IF Hello = <<>>
               THEN Connected(Mux, s, wlock)
               ELSE /\ task' = [task EXCEPT ![Mux].pc = "hello", ![Mux].step = 1]
                    /\ Send(Mux, s, Hello[1], wlock)
      BY <1>1 DEF DialOk
    <2>2. cur' \in Sockets /\ rid'[cur'] = "open"
      BY <2>1 DEF IInv, TypeOK, WireTypeOK
    <2>3. task[Mux].pc = "dialing"
      BY <1>1 DEF DialOk
    <2>4. CASE Hello = <<>>
      BY <2>1, <2>2, <2>3, <2>4, ConnectedHistory DEF ConnEffect
    <2>5. CASE Hello # <<>>
      <3>1. Send(Mux, cur', Hello[1], wlock)
        BY <2>1, <2>5
      <3>2. task' = [task EXCEPT ![Mux] = [task[Mux] EXCEPT !.pc = "hello", !.step = 1]]
        BY <2>1, <2>5
      <3>3. task'[Mux].pc = "hello"
        BY <3>2, MuxTypes DEF Tasks
      <3> QED
        BY <2>2, <3>1, <3>3, FreshSend DEF ConnEffect
    <2> QED
      BY <2>4, <2>5
  <1>2. CASE DialFails(Mux)
    <2>1. IsFailure(Fault("ConnectionRefused"))
      BY FaultFailure DEF FaultKinds
    <2>2. UNCHANGED <<cur, rid>> /\ ConnectCatches(Mux, Fault("ConnectionRefused"))
      BY <1>2 DEF DialFails
    <2> QED
      BY <2>1, <2>2, CatchHistory DEF ConnEffect
  <1>3. CASE DelayOver(Mux)
    <2>1. /\ task' = [task EXCEPT ![Mux] = [task[Mux] EXCEPT !.pc = "dialing", !.dials = @ + 1]]
          /\ task[Mux].pc = "delay" /\ UNCHANGED <<cur, rid, call>>
      BY <1>3 DEF DelayOver, wireVars
    <2>2. call[Mux].st = "idle"
      BY <2>1 DEF IInv, InTurn, TaskOf
    <2>3. task'[Mux].pc = "dialing"
      BY <2>1, MuxTypes DEF Tasks
    <2> QED
      BY <2>1, <2>2, <2>3 DEF ConnEffect, FreshCall
  <1> QED
    BY <1>1, <1>2, <1>3

LEMMA HelloHistory ==
    ASSUME IInv, AnswerShape, HelloStep(Mux) \/ HelloFails(Mux)
    PROVE  ConnEffect
  <1>1. /\ task[Mux].pc = "hello" /\ call[Mux].st = "done" /\ cur' = cur
        /\ call[Mux].req \in Promise!Internal
    BY InternalHello DEF HelloStep, HelloFails, CallDone, IInv, InTurn, TaskOf
  <1>2. CASE HelloStep(Mux)
    <2>1. \A s \in Sockets : rid'[s] = rid[s]
      BY <1>2 DEF HelloStep
    <2>2. CASE task[Mux].step < Len(Hello)
      <3>1. /\ task' = [task EXCEPT ![Mux].step = @ + 1]
            /\ Send(Mux, cur', Hello[task[Mux].step + 1], wlock)
        BY <1>1, <1>2, <2>2 DEF HelloStep
      <3>2. task'[Mux].pc = "hello"
        BY <1>1, <3>1, MuxTypes DEF Tasks
      <3> QED
        BY <1>1, <2>1, <3>1, <3>2, FreshSend DEF ConnEffect
    <2>3. CASE ~ (task[Mux].step < Len(Hello))
      <3>1. Connected(Mux, cur', wlock)
        BY <1>1, <1>2, <2>3 DEF HelloStep
      <3> QED
        BY <1>1, <2>1, <3>1, ConnectedHistory DEF ConnEffect
    <2> QED
      BY <2>2, <2>3
  <1>3. CASE HelloFails(Mux)
    <2> DEFINE o == IF call[Mux].res.kind = "errorReply" /\ Hello[task[Mux].step] = "AUTH"
                    THEN Fault("Authentication") ELSE call[Mux].res
    <2>1. CloseNow /\ ConnectCatches(Mux, o)
      BY <1>3 DEF HelloFails
    <2>2. IsFailure(Fault("Authentication")) /\ IsFailure(call[Mux].res)
      BY <1>1, FaultFailure, InternalFailure DEF FaultKinds
    <2>3. IsFailure(o)
      BY <2>2
    <2> HIDE DEF o
    <2> QED
      BY <1>1, <2>1, <2>3, CloseNowHistory, CatchHistory DEF ConnEffect
  <1> QED
    BY <1>2, <1>3

LEMMA PingHistory ==
    ASSUME IInv, AnswerShape, PingOk(Mux) \/ PingFails(Mux) \/ RePing(Mux)
    PROVE  ConnEffect
  <1>1. /\ call' = [call EXCEPT ![Mux] = NoCall] /\ call[Mux].st = "done" /\ cur' = cur
        /\ call[Mux].req \in Promise!Internal
    BY InternalHello DEF PingOk, PingFails, RePing, CallDone, EndCall, IInv, InTurn, TaskOf
  <1>2. \A s \in Sockets : rid'[s] = rid[s] \/ rid'[s] = "closed"
    BY CloseNowHistory DEF PingOk, PingFails, RePing
  <1>3. /\ task'[Mux].pc \notin {"idle", "ping"}
        /\ task'[Mux].pc = "failed" => task'[Mux].err = call[Mux].res
    <2>1. CASE PingOk(Mux)
      <3>1. task' = [task EXCEPT ![Mux].pc = "ok"]
        BY <2>1 DEF PingOk
      <3> QED
        BY <3>1, MuxTypes DEF Tasks
    <2>2. CASE PingFails(Mux)
      <3>1. task' = [task EXCEPT ![Mux] = [NoTask EXCEPT !.pc = "dialing", !.mode = "reconnect",
                                                          !.dials = 1]]
        BY <2>2 DEF PingFails, StartConnect
      <3> QED
        BY <3>1, MuxTypes, NoTaskType DEF Tasks
    <2>3. CASE RePing(Mux) /\ IsAnswer(call[Mux].res)
      <3>1. task' = [task EXCEPT ![Mux] = [@ EXCEPT !.pc = "ok"]]
        BY <2>3 DEF RePing
      <3> QED
        BY <3>1, MuxTypes DEF Tasks
    <2>4. CASE RePing(Mux) /\ ~ IsAnswer(call[Mux].res)
      <3>1. task' = [task EXCEPT ![Mux] = [@ EXCEPT !.pc = "failed", !.err = call[Mux].res]]
        BY <2>4 DEF RePing
      <3> QED
        BY <3>1, MuxTypes DEF Tasks
    <2> QED
      BY <2>1, <2>2, <2>3, <2>4
  <1>4. IsFailure(call[Mux].res)
    BY <1>1, InternalFailure
  <1> QED
    BY <1>1, <1>2, <1>3, <1>4, FreshNone DEF ConnEffect

LEMMA ConnHistory ==
    ASSUME IInv, AnswerShape, ConnStep(Mux)
    PROVE  ConnEffect /\ UNCHANGED <<out, runs>>
  <1>1. ConnEffect
    BY DialHistory, HelloHistory, PingHistory DEF ConnStep
  <1>2. UNCHANGED <<out, runs>>
    BY DEF ConnStep, DialOk, DialFails, HelloStep, HelloFails, DelayOver, PingOk, PingFails,
           RePing, wireVars
  <1> QED
    BY <1>1, <1>2

\* A call moves on, or is over: with an answer only when its socket is open and
\* holds a reply, with an exception that is retried only when its socket is dead.
CallEffect ==
    /\ cur \in Sockets /\ call'[Mux].sock = cur /\ call'[Mux].req = call[Mux].req
    /\ \A s \in Sockets : rid'[s] = rid[s] \/ (rid'[s] \in {"eof", "reset"} /\ rid[s] = "open")
    /\ runs' = runs
    /\ \/ /\ call[Mux].st = "writing" /\ call'[Mux].st = "written"
          /\ rid[cur] = "open" /\ inb' = inb
          /\ out' \in {out, [out EXCEPT ![cur] = Append(@, call[Mux].req)]}
       \/ /\ call[Mux].st = "written" /\ call'[Mux].st = "reading"
          /\ inb' = inb /\ out' = out
       \/ /\ call'[Mux].st = "done" /\ out' = out
          /\ call'[Mux].res # Fault("ConnectionClosed")
          /\ call'[Mux].res.kind # "fault" =>
               call[Mux].st = "reading" /\ rid[cur] = "open" /\ inb[cur] # <<>>
          /\ IsRetriable(call'[Mux].res) => rid'[cur] # "open"

LEMMA DoneHistory ==
    ASSUME IInv, NEW o, call' = [call EXCEPT ![Mux] = Done(Mux, o)]
    PROVE  /\ call'[Mux].st = "done" /\ call'[Mux].res = o
           /\ call'[Mux].sock = call[Mux].sock /\ call'[Mux].req = call[Mux].req
  <1>1. call'[Mux] = [call[Mux] EXCEPT !.st = "done", !.res = o]
    BY MuxTypes DEF Done
  <1> QED
    BY <1>1, MuxTypes DEF Calls

LEMMA CallHistory ==
    ASSUME IInv, SendShape, CallStep(Mux)
    PROVE  CallEffect
  <1>1. call[Mux].st \in {"writing", "written", "reading"}
    BY DEF CallStep, WriteOk, WriteFails, StartRead, ReadReply, ReadFails
  <1>2. cur \in Sockets /\ call[Mux].sock = cur /\ rid[cur] # "unused"
    BY <1>1 DEF IInv, InTurn, CallOf, SendShape
  <1>3. runs' = runs
    BY DEF CallStep, WriteOk, WriteFails, StartRead, ReadReply, ReadFails, FinishRead
  <1>4. CASE WriteOk(Mux)
    <2>1. call' = [call EXCEPT ![Mux].st = "written"]
      BY <1>4 DEF WriteOk
    <2>2. /\ call'[Mux].st = "written" /\ call'[Mux].sock = cur
          /\ call'[Mux].req = call[Mux].req
      BY <1>2, <2>1, MuxTypes DEF Calls
    <2>3. /\ call[Mux].st = "writing" /\ rid[cur] = "open" /\ UNCHANGED <<rid, inb>>
          /\ out' \in {out, [out EXCEPT ![cur] = Append(@, call[Mux].req)]}
      BY <1>2, <1>4 DEF WriteOk
    <2> QED
      BY <1>2, <1>3, <2>2, <2>3 DEF CallEffect
  <1>5. CASE WriteFails(Mux)
    <2>1. PICK e \in FaultKinds :
            /\ call' = [call EXCEPT ![Mux] = Done(Mux, Fault(e))]
            /\ \/ /\ rid[cur] = "open" /\ e = "BrokenPipe"
                  /\ rid' = [rid EXCEPT ![cur] = "reset"]
               \/ rid[cur] # "open" /\ e \in {"BadResource", "Interrupted"} /\ rid' = rid
      BY <1>2, <1>5 DEF WriteFails
    <2>2. /\ Fault(e).kind = "fault" /\ Fault(e) # Fault("ConnectionClosed")
      BY <2>1 DEF Fault
    <2>3. /\ rid'[cur] # "open"
          /\ \A s \in Sockets : rid'[s] = rid[s] \/ (rid'[s] = "reset" /\ rid[s] = "open")
      BY <1>2, <2>1 DEF IInv, TypeOK, WireTypeOK
    <2>4. out' = out
      BY <1>5 DEF WriteFails
    <2> QED
      BY <1>2, <1>3, <2>1, <2>2, <2>3, <2>4, DoneHistory DEF CallEffect
  <1>6. CASE StartRead(Mux)
    <2>1. call[Mux].st = "written" /\ UNCHANGED <<rid, inb, out>>
      BY <1>6 DEF StartRead
    <2>2. CASE rlock[cur] = None
      <3>1. call' = [call EXCEPT ![Mux].st = "reading"]
        BY <1>2, <1>6, <2>2 DEF StartRead
      <3>2. /\ call'[Mux].st = "reading" /\ call'[Mux].sock = cur
            /\ call'[Mux].req = call[Mux].req
        BY <1>2, <3>1, MuxTypes DEF Calls
      <3> QED
        BY <1>2, <1>3, <2>1, <3>2 DEF CallEffect
    <2>3. CASE rlock[cur] # None
      <3>1. call' = [call EXCEPT ![Mux] = Done(Mux, Fault("TypeError"))]
        BY <1>2, <1>6, <2>3 DEF StartRead
      <3>2. /\ Fault("TypeError").kind = "fault" /\ ~ IsRetriable(Fault("TypeError"))
            /\ Fault("TypeError") # Fault("ConnectionClosed")
        BY DEF Fault, IsRetriable, RetriableFaults
      <3> QED
        BY <1>2, <1>3, <2>1, <3>1, <3>2, DoneHistory DEF CallEffect
    <2> QED
      BY <2>2, <2>3
  <1>7. CASE ReadReply(Mux)
    <2>1. /\ call[Mux].st = "reading" /\ rid[cur] = "open" /\ UNCHANGED <<rid, out>>
          /\ inb[cur] # <<>> /\ \E o \in Decoded(Head(inb[cur])) : FinishRead(Mux, o)
      BY <1>2, <1>7 DEF ReadReply, FinishRead
    <2>2. PICK a \in Replies(Requests) : inb[cur] = <<a>>
      BY <2>1, <1>2 DEF IInv, InTurn, WireOf
    <2>3. Head(inb[cur]) = a
      BY <2>2
    <2>4. call' = [call EXCEPT ![Mux] = Done(Mux, a)]
      BY <2>1, <2>3, WholeReply DEF FinishRead
    <2>5. a # Fault("ConnectionClosed") /\ ~ IsRetriable(a)
      BY DEF Replies, Fault, IsRetriable
    <2> QED
      BY <1>2, <1>3, <2>1, <2>4, <2>5, DoneHistory DEF CallEffect
  <1>8. CASE ReadFails(Mux)
    <2>1. PICK o :
            /\ FinishRead(Mux, o)
            /\ o # Fault("ConnectionClosed")
            /\ o.kind # "fault" => rid[cur] = "open" /\ inb[cur] # <<>>
      <3>1. \/ \E e \in {"EOF", "ConnectionReset", "BadResource", "Interrupted"} :
                 FinishRead(Mux, Fault(e))
            \/ /\ call[Mux].st = "reading" /\ rid[cur] = "open" /\ inb[cur] # <<>>
               /\ \E o \in CutShort(Head(inb[cur])) : FinishRead(Mux, o)
        BY <1>2, <1>8 DEF ReadFails
      <3>2. \A e \in {"EOF", "ConnectionReset", "BadResource", "Interrupted"} :
              Fault(e) # Fault("ConnectionClosed") /\ Fault(e).kind = "fault"
        BY DEF Fault
      <3>3. ASSUME call[Mux].st = "reading", rid[cur] = "open", inb[cur] # <<>>
            PROVE  \A o \in CutShort(Head(inb[cur])) : o # Fault("ConnectionClosed")
        <4>1. PICK a \in Replies(Requests) : inb[cur] = <<a>>
          BY <1>2, <3>3 DEF IInv, InTurn, WireOf
        <4>2. Head(inb[cur]) = a
          BY <4>1
        <4>3. Fault("ConnectionClosed").kind = "fault" /\ Fault("ConnectionClosed").of = "ConnectionClosed"
          BY DEF Fault
        <4> QED
          BY <4>2, <4>3, WholeReply
      <3> QED
        BY <3>1, <3>2, <3>3
    <2>2. call[Mux].st = "reading"
      BY <1>8 DEF ReadFails
    <2>3. \/ rid[cur] = "open" /\ \E v \in {"eof", "reset"} : rid' = [rid EXCEPT ![cur] = v]
          \/ rid[cur] # "open" /\ rid' = rid
      BY <1>2, <1>8 DEF ReadFails
    <2>4. /\ rid'[cur] # "open"
          /\ \A s \in Sockets : \/ rid'[s] = rid[s]
                                \/ rid'[s] \in {"eof", "reset"} /\ rid[s] = "open"
      BY <1>2, <2>3 DEF IInv, TypeOK, WireTypeOK
    <2>5. out' = out /\ call' = [call EXCEPT ![Mux] = Done(Mux, o)]
      BY <2>1 DEF FinishRead
    <2> QED
      BY <1>2, <1>3, <2>1, <2>2, <2>4, <2>5, DoneHistory DEF CallEffect
  <1> QED
    BY <1>4, <1>5, <1>6, <1>7, <1>8 DEF CallStep

-----------------------------------------------------------------------------
(* What a step does to the queue and to the promises.                      *)

\* What the head of the queue may settle with.
Outcome(o) ==
    /\ o \in Outcomes(Requests) /\ o # Fault("ConnectionClosed")
    /\ \/ o.kind = "fault"
       \/ o.of = Head(queue)
       \/ o.kind = "errorReply" /\ o.of \in Promise!Internal
    /\ o.kind # "fault" /\ o.of \in Commands => runs[o.of] > 0

HeadSettles ==
    /\ isProcessing
    /\ \E o : Outcome(o) /\ SettleHead(o)

Joins(c) == ~ Issued(c) /\ ~ isClosed /\ queue' = Append(queue, c) /\ settled' = settled

Refused(c) ==
    /\ ~ Issued(c) /\ isClosed /\ queue' = queue
    /\ settled' = [settled EXCEPT ![c] = Fault("ConnectionClosed")]

QueueEffect ==
    \/ UNCHANGED <<queue, settled>>
    \/ HeadSettles
    \/ \E c \in Commands : Joins(c)
    \/ \E c \in Commands : Refused(c)

LEMMA BackOutcome ==
    ASSUME IInv, AnswerShape, HeadIsBack
    PROVE  Outcome(call[Mux].res)
  <1>1. isProcessing /\ task[Mux].pc = "idle" /\ call[Mux].st = "done"
    BY DEF HeadIsBack, CallDone
  <1>2. call[Mux].req = Head(queue) /\ call[Mux].res \in Outcomes(Requests)
    BY <1>1 DEF IInv, InTurn, QueueWorks, CallOf
  <1> QED
    BY <1>1, <1>2 DEF Outcome, IInv, InTurn, WireOf, AnswerShape

LEMMA GivenUpOutcome ==
    ASSUME IInv, AnswerShape, task[Mux].pc = "failed"
    PROVE  Outcome(task[Mux].err)
  BY InternalHello DEF Outcome, IInv, InTurn, ErrorsOf, PassedOn, AnswerShape

LEMMA MuxQueue ==
    ASSUME IInv, AnswerShape, MuxStep
    PROVE  QueueEffect
  <1>1. CASE Resolve \/ Reject
    BY <1>1, BackOutcome DEF Resolve, Reject, HeadIsBack, QueueEffect, HeadSettles
  <1>2. CASE Retry \/ Resume
    BY <1>2 DEF Retry, Resume, QueueEffect
  <1>3. CASE GiveUp
    BY <1>3, GivenUpOutcome DEF GiveUp, QueueEffect, HeadSettles
  <1> QED
    BY <1>1, <1>2, <1>3 DEF MuxStep

LEMMA NextQueue ==
    ASSUME IInv, AnswerShape, [Next]_vars
    PROVE  QueueEffect
  <1>1. CASE Fibre
    <2>1. CASE MuxStep
      BY <2>1, MuxQueue
    <2>2. CASE UNCHANGED muxVars \/ BootOk \/ BootFails
      BY <2>2 DEF BootOk, BootFails, muxVars, QueueEffect
    <2> QED
      BY <1>1, <2>1, <2>2 DEF Fibre
  <1>2. CASE UserClose
    BY <1>2 DEF UserClose, muxVars, QueueEffect
  <1>3. ASSUME NEW c \in Commands, UserExec(c) PROVE QueueEffect
    BY <1>3 DEF UserExec, Exec, ExecRefused, QueueEffect, Joins, Refused
  <1>4. ASSUME NEW s \in Sockets, Exchange(s) \/ Cut(s) PROVE QueueEffect
    BY <1>4 DEF Exchange, Cut, muxVars, QueueEffect
  <1>5. CASE UNCHANGED vars
    BY <1>5 DEF vars, muxVars, QueueEffect
  <1> QED
    BY <1>1, <1>2, <1>3, <1>4, <1>5 DEF Next, Finished

LEMMA HeadSettlesHistory ==
    ASSUME IInv, HeadSettles
    PROVE  /\ queue \in Seq(Commands) /\ queue # <<>> /\ Head(queue) \in Commands
           /\ queue' = Tail(queue)
           /\ Outcome(settled'[Head(queue)])
           /\ \A c \in Commands : c # Head(queue) => settled'[c] = settled[c]
  <1>1. queue \in Seq(Commands) /\ queue # <<>>
    BY DEF HeadSettles, IInv, TypeOK, MuxTypeOK, InTurn, QueueWorks, PhaseShape, MuxRests
  <1>2. Head(queue) \in Commands
    BY <1>1
  <1>3. PICK o : Outcome(o) /\ SettleHead(o)
    BY DEF HeadSettles
  <1>4. settled' = [settled EXCEPT ![Head(queue)] = o] /\ queue' = Tail(queue)
    BY <1>3 DEF SettleHead
  <1>5. settled'[Head(queue)] = o /\ \A c \in Commands : c # Head(queue) => settled'[c] = settled[c]
    BY <1>2, <1>4 DEF IInv, TypeOK, MuxTypeOK
  <1> QED
    BY <1>1, <1>2, <1>3, <1>4, <1>5

\* Nothing leaves the queue but its head, and nothing that settled joins it.
LEMMA OrderInv ==
    ASSUME IInv, OrderShape, QueueEffect
    PROVE  OrderShape'
  <1>0. queue \in Seq(Commands) /\ settled \in [Commands -> Outcomes(Requests) \cup {None}]
    BY DEF IInv, TypeOK, MuxTypeOK
  <1>1. CASE UNCHANGED <<queue, settled>>
    BY <1>1 DEF OrderShape
  <1>2. CASE HeadSettles
    <2>1. Len(queue') = Len(queue) - 1 /\ \A i \in 1 .. Len(queue') : queue'[i] = queue[i + 1]
      BY <1>0, <1>2, HeadSettlesHistory
    <2>2. Head(queue) = queue[1] /\ Len(queue) \in Nat \ {0}
      BY <1>0, <1>2, HeadSettlesHistory
    <2>3. ASSUME NEW i \in 1 .. Len(queue')
          PROVE  /\ i + 1 \in 1 .. Len(queue) /\ queue'[i] = queue[i + 1]
                 /\ queue[i + 1] \in Commands /\ queue[i + 1] # Head(queue)
      <3>1. i + 1 \in 1 .. Len(queue) /\ 1 \in 1 .. Len(queue) /\ i + 1 # 1
        BY <2>1, <2>2
      <3> QED
        BY <1>0, <2>1, <2>2, <3>1 DEF OrderShape
    <2>4. \A i \in 1 .. Len(queue') : settled'[queue'[i]] = None
      BY <1>2, <2>3, HeadSettlesHistory DEF OrderShape
    <2>5. \A i, j \in 1 .. Len(queue') : queue'[i] = queue'[j] => i = j
      <3>1. TAKE i, j \in 1 .. Len(queue')
      <3>2. i + 1 \in 1 .. Len(queue) /\ queue'[i] = queue[i + 1]
        BY <2>3
      <3>3. j + 1 \in 1 .. Len(queue) /\ queue'[j] = queue[j + 1]
        BY <2>3
      <3>4. i \in Nat /\ j \in Nat
        BY <2>1, <2>2
      <3>5. queue'[i] = queue'[j] => i + 1 = j + 1
        BY <3>2, <3>3 DEF OrderShape
      <3> QED
        BY <3>4, <3>5
    <2> QED
      BY <2>4, <2>5 DEF OrderShape
  <1>3. ASSUME NEW c \in Commands, Joins(c) PROVE OrderShape'
    <2>1. settled[c] = None /\ \A i \in 1 .. Len(queue) : queue[i] # c
      BY <1>0, <1>3 DEF Joins, Issued, Waiting
    <2>2. /\ Len(queue') = Len(queue) + 1 /\ queue'[Len(queue) + 1] = c
          /\ \A i \in 1 .. Len(queue) : queue'[i] = queue[i]
      BY <1>0, <1>3, AppendProperties DEF Joins
    <2>3. Len(queue) \in Nat /\ settled' = settled
      BY <1>0, <1>3 DEF Joins
    <2> QED
      BY <2>1, <2>2, <2>3 DEF OrderShape
  <1>4. ASSUME NEW c \in Commands, Refused(c) PROVE OrderShape'
    <2>1. \A i \in 1 .. Len(queue) : queue[i] # c /\ queue[i] \in Commands
      BY <1>0, <1>4 DEF Refused, Issued, Waiting
    <2> QED
      BY <1>0, <1>4, <2>1 DEF Refused, OrderShape
  <1> QED
    BY <1>1, <1>2, <1>3, <1>4 DEF QueueEffect

\* A command that was issued stays issued.
LEMMA IssuedStays ==
    ASSUME IInv, QueueEffect, NEW c \in Commands, Issued(c)
    PROVE  Issued(c)'
  <1>0. queue \in Seq(Commands) /\ settled \in [Commands -> Outcomes(Requests) \cup {None}]
    BY DEF IInv, TypeOK, MuxTypeOK
  <1>1. CASE UNCHANGED <<queue, settled>>
    BY <1>1 DEF Issued, Waiting
  <1>2. CASE HeadSettles
    <2>1. CASE c = Head(queue)
      <3>1. settled'[c] \in Outcomes(Requests)
        BY <1>2, <2>1, HeadSettlesHistory DEF Outcome
      <3> QED
        BY <3>1, WireAssumption DEF Issued
    <2>2. CASE c # Head(queue) /\ settled[c] # None
      BY <1>2, <2>2, HeadSettlesHistory DEF Issued
    <2>3. CASE c # Head(queue) /\ Waiting(c)
      <3>1. PICK i \in 1 .. Len(queue) : queue[i] = c
        BY <1>0, <2>3 DEF Waiting
      <3>2. i # 1 /\ Len(queue) \in Nat
        BY <1>0, <2>3, <3>1
      <3>3. i - 1 \in 1 .. Len(Tail(queue)) /\ Tail(queue)[i - 1] = c
        BY <1>0, <3>1, <3>2
      <3>4. i - 1 \in DOMAIN queue' /\ queue'[i - 1] = c
        BY <1>0, <1>2, <3>3, HeadSettlesHistory
      <3> QED
        BY <3>4 DEF Issued, Waiting
    <2> QED
      BY <2>1, <2>2, <2>3 DEF Issued
  <1>3. ASSUME NEW d \in Commands, Joins(d) PROVE Issued(c)'
    <2>1. ASSUME NEW i \in DOMAIN queue PROVE i \in DOMAIN queue' /\ queue'[i] = queue[i]
      BY <1>0, <1>3, <2>1, AppendProperties DEF Joins
    <2> QED
      BY <1>3, <2>1 DEF Joins, Issued, Waiting
  <1>4. ASSUME NEW d \in Commands, Refused(d) PROVE Issued(c)'
    BY <1>0, <1>4 DEF Refused, Issued, Waiting
  <1> QED
    BY <1>1, <1>2, <1>3, <1>4 DEF QueueEffect

-----------------------------------------------------------------------------
(* Every step keeps SendShape.                                             *)

\* dequeue() starts and ends calls on the current socket, and asks it for a PING
\* only when it is dead.
MuxEffect ==
    /\ FreshCall /\ UNCHANGED <<cur, rid, inb, out, runs>>
    /\ task'[Mux].pc \in {"idle", "ping", "failed"}
    /\ task'[Mux].pc = "ping" => Dead(cur)
    /\ task'[Mux].pc = "failed" => IsFailure(task'[Mux].err)

LEMMA RetryHistory ==
    ASSUME IInv, SendShape, Retry
    PROVE  MuxEffect
  <1>1. /\ call[Mux].st = "done" /\ IsRetriable(call[Mux].res) /\ StartReconnect(Mux)
        /\ UNCHANGED <<cur, rid, inb, out, runs>>
    BY DEF Retry, HeadIsBack, CallDone, Retriable, isRetriableError, IsRetriable
  <1>2. Dead(cur)
    BY <1>1 DEF SendShape
  <1>3. CASE isClosed
    <2>1. /\ task' = [task EXCEPT ![Mux] = [NoTask EXCEPT !.pc = "failed",
                                                          !.err = Fault("ClientIsClosed")]]
          /\ call' = [call EXCEPT ![Mux] = NoCall]
      BY <1>1, <1>3 DEF StartReconnect, EndCall
    <2>2. task'[Mux].pc = "failed" /\ task'[Mux].err = Fault("ClientIsClosed")
      BY <2>1, MuxTypes, NoTaskType DEF Tasks
    <2>3. IsFailure(Fault("ClientIsClosed"))
      BY FaultFailure DEF FaultKinds
    <2> QED
      BY <1>1, <2>1, <2>2, <2>3, FreshNone DEF MuxEffect
  <1>4. CASE ~ isClosed
    <2>1. /\ task' = [task EXCEPT ![Mux] = [NoTask EXCEPT !.pc = "ping", !.mode = "reconnect"]]
          /\ Send(Mux, cur', "PING", wlock)
      BY <1>1, <1>4 DEF StartReconnect
    <2>2. task'[Mux].pc = "ping"
      BY <2>1, MuxTypes, NoTaskType DEF Tasks
    <2> QED
      BY <1>1, <1>2, <2>1, <2>2, FreshSend DEF MuxEffect
  <1> QED
    BY <1>3, <1>4

LEMMA MuxHistory ==
    ASSUME IInv, SendShape, MuxStep
    PROVE  MuxEffect
  <1>1. CASE Resolve \/ Reject
    <2>1. /\ Dequeue(Tail(queue)) /\ UNCHANGED <<cur, task, rid, inb, out, runs>>
          /\ task[Mux].pc = "idle"
      BY <1>1 DEF Resolve, Reject, HeadIsBack, SettleHead, connVars
    <2> QED
      BY <2>1, FreshDequeue DEF MuxEffect
  <1>2. CASE Resume \/ GiveUp
    <2>1. /\ \E q : Dequeue(q)
          /\ UNCHANGED <<cur, rid, inb, out, runs>>
          /\ task' = [task EXCEPT ![Mux] = NoTask]
      BY <1>2 DEF Resume, GiveUp, SettleHead
    <2>2. task'[Mux].pc = "idle"
      BY <2>1, MuxTypes, NoTaskType
    <2> QED
      BY <2>1, <2>2, FreshDequeue DEF MuxEffect
  <1>3. CASE Retry
    BY <1>3, RetryHistory
  <1> QED
    BY <1>1, <1>2, <1>3 DEF MuxStep

\* The steps that leave the fibre's call alone may close sockets.
OtherEffect ==
    /\ UNCHANGED <<call, cur, out, runs, retries>>
    /\ task'[Mux].pc = task[Mux].pc \/ (task'[Mux].pc = "idle" /\ ~ isProcessing)
    /\ task'[Mux].pc = "failed" => task'[Mux].err = task[Mux].err
    /\ \A s \in Sockets :
         \/ rid'[s] = rid[s] /\ inb'[s] = inb[s]
         \/ rid[s] = "open" /\ rid'[s] = "closed"

\* A command that finds dequeue() at rest starts it.
StartEffect ==
    /\ FreshCall /\ UNCHANGED <<cur, task, rid, inb, out, runs, retries>>
    /\ ~ isProcessing /\ task[Mux].pc = "idle"

LEMMA BootHistory ==
    ASSUME IInv, BootOk \/ BootFails
    PROVE  OtherEffect
  <1>1. /\ task' = [task EXCEPT ![Mux] = NoTask] /\ phase = "boot"
        /\ UNCHANGED <<call, cur, rid, inb, out, runs, retries>>
    BY DEF BootOk, BootFails, wireVars, muxVars
  <1>2. task'[Mux].pc = "idle" /\ ~ isProcessing
    BY <1>1, MuxTypes, NoTaskType DEF IInv, InTurn, QueueWorks, PhaseShape, MuxRests
  <1> QED
    BY <1>1, <1>2 DEF OtherEffect

LEMMA UserCloseHistory ==
    ASSUME IInv, UserClose
    PROVE  OtherEffect
  <1>1. CloseNow /\ UNCHANGED <<call, cur, task, out, runs, retries>>
    BY DEF UserClose, muxVars
  <1>2. \A s \in Sockets : rid'[s] = rid[s] => inb'[s] = inb[s]
    BY <1>1 DEF IInv, TypeOK, WireTypeOK, CloseNow, CloseSocket
  <1> QED
    BY <1>1, <1>2, CloseNowHistory DEF OtherEffect

LEMMA ExecHistory ==
    ASSUME IInv, NEW c \in Commands, UserExec(c)
    PROVE  OtherEffect \/ StartEffect
  <1>1. CASE ExecRefused(c)
    BY <1>1 DEF ExecRefused, connVars, wireVars, OtherEffect
  <1>2. CASE Exec(c) /\ isProcessing
    BY <1>2 DEF Exec, connVars, OtherEffect
  <1>3. CASE Exec(c) /\ ~ isProcessing
    <2>1. /\ Dequeue(queue') /\ UNCHANGED <<cur, task, rid, inb, out, runs, retries>>
          /\ phase = "ready"
      BY <1>3 DEF Exec, UserExec, connVars
    <2>2. task[Mux].pc = "idle"
      BY <1>3, <2>1 DEF IInv, InTurn, QueueWorks, PhaseShape, MuxRests
    <2> QED
      BY <1>3, <2>1, <2>2, FreshDequeue DEF StartEffect
  <1> QED
    BY <1>1, <1>2, <1>3 DEF UserExec

\* Every step is of one of six kinds.
LEMMA NextHistory ==
    ASSUME IInv, SendShape, AnswerShape, [Next]_vars
    PROVE  \/ CallStep(Mux) /\ CallEffect /\ UNCHANGED <<connVars, muxVars, userVars>>
           \/ ConnStep(Mux) /\ ConnEffect /\ UNCHANGED <<out, runs, muxVars, userVars>>
           \/ MuxStep /\ MuxEffect
           \/ OtherEffect
           \/ StartEffect
           \/ \E s \in Sockets : Exchange(s)
  <1>1. CASE Fibre
    BY <1>1, CallHistory, ConnHistory, MuxHistory, BootHistory DEF Fibre
  <1>2. ASSUME NEW s \in Sockets, Cut(s) PROVE OtherEffect
    BY <1>2 DEF Cut, LinkCut, connVars, muxVars, OtherEffect
  <1>3. CASE UNCHANGED vars
    BY <1>3 DEF vars, wireVars, connVars, muxVars, OtherEffect
  <1> QED
    BY <1>1, <1>2, <1>3, UserCloseHistory, ExecHistory DEF Next, Finished

LEMMA SendInv ==
    ASSUME IInv, SendShape, AnswerShape, [Next]_vars
    PROVE  SendShape'
  <1>1. CASE CallEffect /\ UNCHANGED connVars
    <2>1. cur' = cur /\ task' = task
      BY <1>1 DEF connVars
    <2>2. rid'[cur] # "unused" /\ (Dead(cur) => Dead(cur)')
      BY <1>1, <2>1 DEF CallEffect, SendShape, Dead
    <2>3. call'[Mux].st = "done" /\ IsRetriable(call'[Mux].res) => Dead(cur)'
      BY <1>1, <2>1, <2>2 DEF CallEffect, Dead
    <2> QED
      BY <1>1, <2>1, <2>2, <2>3 DEF CallEffect, SendShape
  <1>2. ASSUME FreshCall, cur' \in Sockets => rid'[cur'] # "unused",
               task'[Mux].pc = "ping" => Dead(cur)'
        PROVE  SendShape'
    BY <1>2 DEF FreshCall, SendShape, IsRetriable, Fault, RetriableFaults
  <1>3. CASE ConnEffect
    BY <1>2, <1>3 DEF ConnEffect, SendShape
  <1>4. CASE MuxEffect
    <2>1. task'[Mux].pc = "ping" => Dead(cur)'
      BY <1>4 DEF MuxEffect, Dead
    <2> QED
      BY <1>2, <1>4, <2>1 DEF MuxEffect, SendShape
  <1>5. CASE OtherEffect
    <2>1. Dead(cur) => Dead(cur)'
      BY <1>5 DEF OtherEffect, Dead
    <2>2. cur' \in Sockets => rid'[cur'] # "unused"
      BY <1>5 DEF OtherEffect, SendShape
    <2> QED
      BY <1>5, <2>1, <2>2 DEF OtherEffect, SendShape
  <1>6. CASE StartEffect
    BY <1>2, <1>6 DEF StartEffect, SendShape
  <1>7. ASSUME NEW s \in Sockets, Exchange(s) PROVE SendShape'
    BY <1>7 DEF Exchange, ServerExec, Serves, connVars, SendShape, Dead
  <1> QED
    BY <1>1, <1>3, <1>4, <1>5, <1>6, <1>7, NextHistory

-----------------------------------------------------------------------------
(* Every step keeps CopiesShape.                                           *)

LEMMA UnreadFinite ==
    ASSUME NEW c
    PROVE  IsFiniteSet(Unread(c)) /\ Cardinality(Unread(c)) \in Nat
  <1>1. IsFiniteSet(Sockets)
    BY WireAssumption, FS_Interval DEF Sockets
  <1>2. Unread(c) \in SUBSET Sockets
    BY DEF Unread
  <1>3. IsFiniteSet(Unread(c))
    BY <1>1, <1>2, FS_Subset
  <1> QED
    BY <1>3, FS_CardinalityType

\* A command stays sent while the queue goes its way, unless a reconnection
\* begins.
LEMMA SentStays ==
    ASSUME IInv, QueueEffect, NEW c \in Commands, Sent(c),
           ~ HeadSettles /\ queue # <<>> /\ task[Mux].pc = "idle"
             /\ call[Mux].st \in {"written", "reading", "done"} =>
               task'[Mux].pc = "idle" /\ call'[Mux].st \in {"written", "reading", "done"}
    PROVE  Sent(c)'
  <1>0. queue \in Seq(Commands) /\ settled \in [Commands -> Outcomes(Requests) \cup {None}]
    BY DEF IInv, TypeOK, MuxTypeOK
  <1>1. CASE UNCHANGED <<queue, settled>> /\ ~ HeadSettles
    BY <1>1 DEF Sent
  <1>2. CASE HeadSettles
    <2>1. settled'[Head(queue)] # None
      BY <1>2, HeadSettlesHistory, WireAssumption DEF Outcome
    <2> QED
      BY <1>2, <2>1, HeadSettlesHistory DEF Sent
  <1>3. ASSUME NEW d \in Commands, Joins(d), ~ HeadSettles PROVE Sent(c)'
    <2>1. queue # <<>> => queue' # <<>> /\ Head(queue') = Head(queue)
      BY <1>0, <1>3, HeadTailAppend, AppendProperties DEF Joins
    <2> QED
      BY <1>3, <2>1 DEF Joins, Sent
  <1>4. ASSUME NEW d \in Commands, Refused(d), ~ HeadSettles PROVE Sent(c)'
    <2>1. settled[c] # None => settled'[c] # None
      BY <1>0, <1>4, WireAssumption DEF Refused, Issued
    <2> QED
      BY <1>4, <2>1 DEF Refused, Sent
  <1> QED
    BY <1>1, <1>2, <1>3, <1>4 DEF QueueEffect

\* A step that sends nothing, executes nothing and retries nothing.
LEMMA CopiesKept ==
    ASSUME IInv, CopiesShape, QueueEffect, UNCHANGED <<out, runs, retries>>,
           ~ HeadSettles /\ queue # <<>> /\ task[Mux].pc = "idle"
             /\ call[Mux].st \in {"written", "reading", "done"} =>
               task'[Mux].pc = "idle" /\ call'[Mux].st \in {"written", "reading", "done"}
    PROVE  CopiesShape'
  <1>1. ASSUME NEW c \in Commands
        PROVE  runs'[c] + Cardinality(Unread(c)') + (IF Sent(c)' THEN 0 ELSE 1)
                 <= 1 + retries'[c]
    <2>1. Unread(c)' = Unread(c)
      BY DEF Unread
    <2>2. Sent(c) => Sent(c)'
      BY SentStays
    <2>3. runs[c] \in Nat /\ retries[c] \in Nat /\ Cardinality(Unread(c)) \in Nat
      BY UnreadFinite DEF IInv, TypeOK, WireTypeOK, MuxTypeOK
    <2>4. runs[c] + Cardinality(Unread(c)) + (IF Sent(c) THEN 0 ELSE 1) <= 1 + retries[c]
      BY DEF CopiesShape
    <2> QED
      BY <2>1, <2>2, <2>3, <2>4
  <1>2. \A c \in Commands : ~ Issued(c)' \/ MaxRetryCount = 0 => retries'[c] = 0
    BY IssuedStays DEF CopiesShape
  <1> QED
    BY <1>1, <1>2 DEF CopiesShape

\* The head is written for the first time since its last reconnection.
LEMMA WriteCopies ==
    ASSUME IInv, OrderShape, CopiesShape, CallEffect, call[Mux].st = "writing",
           call'[Mux].st = "written", rid[cur] = "open",
           out' = [out EXCEPT ![cur] = Append(@, call[Mux].req)],
           UNCHANGED <<connVars, muxVars>>
    PROVE  CopiesShape'
  <1> DEFINE r == call[Mux].req
  <1>1. cur \in Sockets /\ r \in Requests
    BY DEF CallEffect, IInv, InTurn, CallOf
  <1>2. out[cur] = <<>>
    BY <1>1 DEF IInv, InTurn, WireOf
  <1>3. out'[cur] = <<r>> /\ \A s \in Sockets : s # cur => out'[s] = out[s]
    BY <1>1, <1>2 DEF IInv, TypeOK, WireTypeOK
  <1>4. \A s \in Sockets : out'[s] = <<>> \/ \E q \in Requests : out'[s] = <<q>>
    BY <1>1, <1>3 DEF CopiesShape
  <1>5. ASSUME NEW c \in Commands
        PROVE  runs'[c] + Cardinality(Unread(c)') + (IF Sent(c)' THEN 0 ELSE 1)
                 <= 1 + retries'[c]
    <2>1. /\ runs'[c] = runs[c] /\ retries'[c] = retries[c]
          /\ runs[c] \in Nat /\ retries[c] \in Nat /\ Cardinality(Unread(c)) \in Nat
      BY UnreadFinite DEF IInv, TypeOK, WireTypeOK, MuxTypeOK, CallEffect, muxVars
    <2>2. runs[c] + Cardinality(Unread(c)) + (IF Sent(c) THEN 0 ELSE 1) <= 1 + retries[c]
      BY DEF CopiesShape
    <2>3. CASE c # r
      <3>1. Unread(c)' = Unread(c)
        BY <1>1, <1>2, <1>3, <2>3 DEF Unread
      <3>2. Sent(c) => Sent(c)'
        BY DEF Sent, connVars, muxVars
      <3> QED
        BY <2>1, <2>2, <3>1, <3>2
    <2>4. CASE c = r
      <3>1. task[Mux].pc = "idle"
        BY <2>4, MuxTypes, InternalRequests DEF IInv, InTurn, TaskOf, TaskStates
      <3>2. isProcessing /\ queue # <<>> /\ c = Head(queue)
        BY <2>4, <3>1 DEF IInv, InTurn, QueueWorks, PhaseShape, MuxRests
      <3>3. Sent(c)'
        BY <3>1, <3>2 DEF Sent, connVars, muxVars
      <3>4. Cardinality(Unread(c)') = Cardinality(Unread(c)) + 1
        <4>1. ASSUME NEW s \in Sockets
              PROVE  out'[s] = <<c>> <=> s = cur \/ out[s] = <<c>>
          BY <1>2, <1>3, <2>4
        <4>2. Unread(c)' = Unread(c) \cup {cur}
          BY <1>1, <4>1 DEF Unread
        <4>3. cur \notin Unread(c)
          <5>1. <<c>> # <<>>
            OBVIOUS
          <5> QED
            BY <1>2, <5>1 DEF Unread
        <4> QED
          BY <4>2, <4>3, UnreadFinite, FS_AddElement
      <3>5. ~ Sent(c)
        <4>1. 1 \in 1 .. Len(queue) /\ queue[1] = c
          BY <3>2 DEF IInv, TypeOK, MuxTypeOK
        <4> QED
          BY <4>1 DEF OrderShape, Sent
      <3> QED
        BY <2>1, <2>2, <3>3, <3>4, <3>5
    <2> QED
      BY <2>3, <2>4
  <1>6. \A c \in Commands : ~ Issued(c)' \/ MaxRetryCount = 0 => retries'[c] = 0
    BY DEF CopiesShape, Issued, Waiting, muxVars
  <1> QED
    BY <1>4, <1>5, <1>6 DEF CopiesShape

\* The server executes a request: c has one copy less and one execution more.
LEMMA ExchangeCopies ==
    ASSUME IInv, CopiesShape, NEW s \in Sockets, Exchange(s)
    PROVE  CopiesShape'
  <1>1. /\ out[s] # <<>> /\ out' = [out EXCEPT ![s] = Tail(@)]
        /\ runs' = [c \in Commands |-> IF c = Head(out[s]) THEN runs[c] + 1 ELSE runs[c]]
        /\ UNCHANGED <<call, task, queue, settled, retries>>
    BY ServerEffect DEF Exchange, connVars, muxVars, IInv, TypeOK, WireTypeOK
  <1>2. PICK r \in Requests : out[s] = <<r>>
    BY <1>1 DEF CopiesShape
  <1>3. out'[s] = <<>> /\ \A t \in Sockets : t # s => out'[t] = out[t]
    BY <1>1, <1>2, SingletonSeq DEF IInv, TypeOK, WireTypeOK
  <1>4. \A t \in Sockets : out'[t] = <<>> \/ \E q \in Requests : out'[t] = <<q>>
    BY <1>3 DEF CopiesShape
  <1>5. ASSUME NEW c \in Commands
        PROVE  runs'[c] + Cardinality(Unread(c)') + (IF Sent(c)' THEN 0 ELSE 1)
                 <= 1 + retries'[c]
    <2>1. /\ runs[c] \in Nat /\ retries[c] \in Nat /\ Cardinality(Unread(c)) \in Nat
          /\ retries'[c] = retries[c] /\ (Sent(c)' <=> Sent(c))
      BY <1>1, UnreadFinite DEF IInv, TypeOK, WireTypeOK, MuxTypeOK, Sent
    <2>2. runs[c] + Cardinality(Unread(c)) + (IF Sent(c) THEN 0 ELSE 1) <= 1 + retries[c]
      BY DEF CopiesShape
    <2>3. <<c>> # <<>>
      OBVIOUS
    <2>4. CASE c # r
      <3>1. Unread(c)' = Unread(c)
        BY <1>2, <1>3, <2>3, <2>4 DEF Unread
      <3>2. runs'[c] = runs[c]
        BY <1>1, <1>2, <2>4
      <3> QED
        BY <2>1, <2>2, <3>1, <3>2
    <2>5. CASE c = r
      <3>1. Unread(c)' = Unread(c) \ {s} /\ s \in Unread(c)
        BY <1>2, <1>3, <2>3, <2>5 DEF Unread
      <3>2. Cardinality(Unread(c)') = Cardinality(Unread(c)) - 1
        BY <3>1, UnreadFinite, FS_RemoveElement
      <3>3. runs'[c] = runs[c] + 1
        BY <1>1, <1>2, <2>5
      <3> QED
        BY <2>1, <2>2, <3>2, <3>3
    <2> QED
      BY <2>4, <2>5
  <1>6. \A c \in Commands : ~ Issued(c)' \/ MaxRetryCount = 0 => retries'[c] = 0
    BY <1>1 DEF CopiesShape, Issued, Waiting
  <1> QED
    BY <1>4, <1>5, <1>6 DEF CopiesShape

\* A reconnection pays for one more execution of the head.
LEMMA RetryCopies ==
    ASSUME IInv, CopiesShape, MuxEffect, Retry
    PROVE  CopiesShape'
  <1>1. /\ retries' = [retries EXCEPT ![Head(queue)] = @ + 1] /\ MaxRetryCount > 0
        /\ UNCHANGED <<queue, settled, out, runs>> /\ isProcessing
    BY DEF Retry, Retriable, HeadIsBack
  <1>2. Head(queue) \in Commands /\ Issued(Head(queue))
    <2>1. queue \in Seq(Commands) /\ queue # <<>>
      BY <1>1 DEF IInv, TypeOK, MuxTypeOK, InTurn, QueueWorks, PhaseShape, MuxRests
    <2>2. 1 \in DOMAIN queue /\ queue[1] = Head(queue) /\ Head(queue) \in Commands
      BY <2>1
    <2> QED
      BY <2>2 DEF Issued, Waiting
  <1>3. ASSUME NEW c \in Commands
        PROVE  runs'[c] + Cardinality(Unread(c)') + (IF Sent(c)' THEN 0 ELSE 1)
                 <= 1 + retries'[c]
    <2>1. runs[c] \in Nat /\ retries[c] \in Nat /\ Cardinality(Unread(c)) \in Nat
      BY UnreadFinite DEF IInv, TypeOK, WireTypeOK, MuxTypeOK
    <2>2. runs[c] + Cardinality(Unread(c)) + (IF Sent(c) THEN 0 ELSE 1) <= 1 + retries[c]
      BY DEF CopiesShape
    <2>3. Unread(c)' = Unread(c) /\ runs' = runs
      BY <1>1 DEF Unread
    <2>4. CASE c = Head(queue)
      <3>1. retries'[c] = retries[c] + 1
        BY <1>1, <1>2, <2>4 DEF IInv, TypeOK, MuxTypeOK
      <3> QED
        BY <2>1, <2>2, <2>3, <3>1
    <2>5. CASE c # Head(queue)
      <3>1. retries'[c] = retries[c]
        BY <1>1, <1>2, <2>5 DEF IInv, TypeOK, MuxTypeOK
      <3>2. Sent(c) => Sent(c)'
        BY <1>1, <2>5 DEF Sent
      <3> QED
        BY <2>1, <2>2, <2>3, <3>1, <3>2
    <2> QED
      BY <2>4, <2>5
  <1>4. \A c \in Commands : ~ Issued(c)' \/ MaxRetryCount = 0 => retries'[c] = 0
    BY <1>1, <1>2 DEF CopiesShape, Issued, Waiting, IInv, TypeOK, MuxTypeOK
  <1> QED
    BY <1>1, <1>3, <1>4 DEF CopiesShape

LEMMA CopiesInv ==
    ASSUME IInv, SendShape, OrderShape, CopiesShape, AnswerShape, [Next]_vars
    PROVE  CopiesShape'
  <1>0. QueueEffect
    BY NextQueue
  <1>1. CASE CallEffect /\ UNCHANGED <<connVars, muxVars>>
    <2>1. CASE out' = out
      <3>1. UNCHANGED <<out, runs, retries, task>>
        BY <1>1, <2>1 DEF CallEffect, connVars, muxVars
      <3>2. call[Mux].st \in {"written", "reading", "done"} =>
              call'[Mux].st \in {"written", "reading", "done"}
        BY <1>1 DEF CallEffect
      <3> QED
        BY <1>0, <3>1, <3>2, CopiesKept
    <2>2. CASE out' # out
      BY <1>1, <2>2, WriteCopies DEF CallEffect
    <2> QED
      BY <2>1, <2>2
  <1>2. CASE ConnStep(Mux) /\ UNCHANGED <<out, runs, muxVars>>
    <2>1. task[Mux].pc # "idle"
      BY <1>2 DEF ConnStep, DialOk, DialFails, HelloStep, HelloFails, DelayOver, PingOk,
                  PingFails, RePing
    <2> QED
      BY <1>0, <1>2, <2>1, CopiesKept DEF muxVars
  <1>3. CASE MuxStep /\ MuxEffect
    <2>1. CASE Retry
      BY <1>3, <2>1, RetryCopies
    <2>2. CASE Resolve \/ Reject \/ GiveUp
      <3>1. HeadSettles /\ retries' = retries
        BY <2>2, BackOutcome, GivenUpOutcome
        DEF Resolve, Reject, GiveUp, HeadIsBack, HeadSettles
      <3> QED
        BY <1>0, <1>3, <3>1, CopiesKept DEF MuxEffect
    <2>3. CASE Resume
      <3>1. task[Mux].pc = "ok" /\ retries' = retries
        BY <2>3 DEF Resume
      <3> QED
        BY <1>0, <1>3, <3>1, CopiesKept DEF MuxEffect
    <2> QED
      BY <1>3, <2>1, <2>2, <2>3 DEF MuxStep
  <1>4. CASE OtherEffect
    <2>1. queue # <<>> => isProcessing
      BY DEF IInv, InTurn, QueueWorks, PhaseShape, MuxRests
    <2> QED
      BY <1>0, <1>4, <2>1, CopiesKept DEF OtherEffect
  <1>5. CASE StartEffect
    <2>1. queue = <<>>
      BY <1>5 DEF StartEffect, IInv, InTurn, QueueWorks, PhaseShape, MuxRests
    <2> QED
      BY <1>0, <1>5, <2>1, CopiesKept DEF StartEffect
  <1>6. CASE \E s \in Sockets : Exchange(s)
    BY <1>6, ExchangeCopies
  <1> QED
    BY <1>1, <1>2, <1>3, <1>4, <1>5, <1>6, NextHistory

-----------------------------------------------------------------------------
(* Every step keeps AnswerShape.                                           *)

\* What AnswerShape says of the fibre's call.
CallAnswered ==
    /\ \A s \in Sockets : rid[s] = "open" /\ inb[s] # <<>> /\ call[Mux].req \in Commands =>
         runs[call[Mux].req] > 0
    /\ call[Mux].st = "done" /\ call[Mux].res.kind # "fault" /\ call[Mux].req \in Commands =>
         runs[call[Mux].req] > 0
    /\ call[Mux].st = "done" => call[Mux].res # Fault("ConnectionClosed")

LEMMA FreshAnswered ==
    ASSUME IInv', FreshCall
    PROVE  CallAnswered'
  <1>1. \A s \in Sockets : rid'[s] = "open" => inb'[s] = <<>>
    BY DEF IInv, InTurn, WireOf, FreshCall
  <1>2. call'[Mux].st = "done" =>
          call'[Mux].res.kind = "fault" /\ call'[Mux].res # Fault("ConnectionClosed")
    BY DEF FreshCall, Fault
  <1> QED
    BY <1>1, <1>2 DEF CallAnswered

LEMMA ExchangeAnswered ==
    ASSUME IInv, CopiesShape, CallAnswered, NEW s \in Sockets, Exchange(s)
    PROVE  CallAnswered'
  <1>1. /\ out[s] # <<>>
        /\ runs' = [c \in Commands |-> IF c = Head(out[s]) THEN runs[c] + 1 ELSE runs[c]]
        /\ rid' = rid /\ call' = call
        /\ \A t \in Sockets : t # s => inb'[t] = inb[t]
    BY ServerEffect DEF Exchange, IInv, TypeOK, WireTypeOK
  <1>2. \A c \in Commands : runs[c] \in Nat /\ runs'[c] \in Nat /\ runs'[c] >= runs[c]
    BY <1>1 DEF IInv, TypeOK, WireTypeOK
  <1>3. ASSUME rid[s] = "open", call[Mux].req \in Commands PROVE runs'[call[Mux].req] > 0
    <2>1. out[s] = <<call[Mux].req>>
      BY <1>1, <1>3 DEF IInv, InTurn, WireOf
    <2> QED
      BY <1>1, <1>2, <1>3, <2>1
  <1> QED
    BY <1>1, <1>2, <1>3 DEF CallAnswered

LEMMA AnsweredKept ==
    ASSUME HInv, IInv', [Next]_vars
    PROVE  CallAnswered'
  <1>0. IInv /\ SendShape /\ CopiesShape /\ AnswerShape /\ CallAnswered
    BY DEF HInv, AnswerShape, CallAnswered
  <1>1. CASE CallEffect
    <2>1. ASSUME NEW s \in Sockets, rid'[s] = "open", inb'[s] # <<>>,
                 call'[Mux].req \in Commands
          PROVE  runs'[call'[Mux].req] > 0
      <3>1. call'[Mux].st \in {"written", "reading"} /\ s = cur
        BY <1>1, <2>1 DEF IInv, InTurn, WireOf, CallEffect
      <3>2. inb'[s] = inb[s] /\ rid[s] = "open"
        BY <1>1, <2>1, <3>1 DEF CallEffect
      <3> QED
        BY <1>0, <1>1, <2>1, <3>2 DEF CallEffect, CallAnswered
    <2>2. call'[Mux].st = "done" => call'[Mux].res # Fault("ConnectionClosed")
      BY <1>1 DEF CallEffect
    <2>3. ASSUME call'[Mux].st = "done", call'[Mux].res.kind # "fault",
                 call'[Mux].req \in Commands
          PROVE  runs'[call'[Mux].req] > 0
      <3>1. rid[cur] = "open" /\ inb[cur] # <<>> /\ cur \in Sockets
        BY <1>1, <2>3 DEF CallEffect
      <3> QED
        BY <1>0, <1>1, <2>3, <3>1 DEF CallEffect, CallAnswered
    <2> QED
      BY <2>1, <2>2, <2>3 DEF CallAnswered
  <1>2. CASE OtherEffect
    BY <1>0, <1>2 DEF OtherEffect, CallAnswered
  <1>3. CASE ConnEffect \/ MuxEffect \/ StartEffect
    BY <1>3, FreshAnswered DEF ConnEffect, MuxEffect, StartEffect
  <1>4. CASE \E s \in Sockets : Exchange(s)
    BY <1>0, <1>4, ExchangeAnswered
  <1> QED
    BY <1>0, <1>1, <1>2, <1>3, <1>4, NextHistory

LEMMA FailureKept ==
    ASSUME HInv, [Next]_vars, task'[Mux].pc = "failed"
    PROVE  IsFailure(task'[Mux].err)
  <1>1. IInv /\ SendShape /\ AnswerShape
    BY DEF HInv
  <1>2. task[Mux].pc = "failed" => IsFailure(task[Mux].err)
    BY <1>1 DEF AnswerShape, IsFailure
  <1>3. CASE UNCHANGED connVars
    BY <1>2, <1>3 DEF connVars
  <1>4. CASE ConnEffect \/ MuxEffect
    BY <1>4 DEF ConnEffect, MuxEffect
  <1>5. CASE OtherEffect \/ StartEffect
    BY <1>2, <1>5 DEF OtherEffect, StartEffect
  <1>6. CASE \E s \in Sockets : Exchange(s)
    BY <1>2, <1>6 DEF Exchange, connVars
  <1> QED
    BY <1>1, <1>3, <1>4, <1>5, <1>6, NextHistory

\* A command that is not in the queue and on no socket is neither written nor
\* executed.
LEMMA NeverRuns ==
    ASSUME HInv, [Next]_vars, NEW c \in Commands, ~ Waiting(c), Unread(c) = {}
    PROVE  Unread(c)' = {} /\ runs'[c] = runs[c]
  <1>1. IInv /\ SendShape /\ CopiesShape /\ AnswerShape
    BY DEF HInv
  <1>2. CASE out' = out /\ runs' = runs
    BY <1>2 DEF Unread
  <1>3. CASE CallEffect /\ out' # out
    <2>1. /\ out' = [out EXCEPT ![cur] = Append(@, call[Mux].req)] /\ runs' = runs
          /\ call[Mux].st = "writing" /\ rid[cur] = "open" /\ cur \in Sockets
      BY <1>3 DEF CallEffect
    <2>2. out[cur] = <<>>
      BY <1>1, <2>1 DEF IInv, InTurn, WireOf
    <2>3. /\ out'[cur] = <<call[Mux].req>>
          /\ \A s \in Sockets : s # cur => out'[s] = out[s]
      BY <1>1, <2>1, <2>2 DEF IInv, TypeOK, WireTypeOK
    <2>4. call[Mux].req # c
      <3>1. ASSUME call[Mux].req = c PROVE FALSE
        <4>1. task[Mux].pc = "idle"
          BY <1>1, <2>1, <3>1, MuxTypes, InternalRequests DEF IInv, InTurn, TaskOf, TaskStates
        <4>2. isProcessing /\ queue # <<>> /\ c = Head(queue)
          BY <1>1, <2>1, <3>1, <4>1 DEF IInv, InTurn, QueueWorks, PhaseShape, MuxRests
        <4>3. 1 \in DOMAIN queue /\ queue[1] = c
          BY <1>1, <4>2 DEF IInv, TypeOK, MuxTypeOK
        <4> QED
          BY <4>3 DEF Waiting
      <3> QED
        BY <3>1
    <2> QED
      BY <2>1, <2>3, <2>4 DEF Unread
  <1>4. ASSUME NEW s \in Sockets, Exchange(s)
        PROVE  Unread(c)' = {} /\ runs'[c] = runs[c]
    <2>1. /\ out[s] # <<>> /\ out' = [out EXCEPT ![s] = Tail(@)]
          /\ runs' = [d \in Commands |-> IF d = Head(out[s]) THEN runs[d] + 1 ELSE runs[d]]
      BY <1>1, <1>4, ServerEffect DEF Exchange, IInv, TypeOK, WireTypeOK
    <2>2. PICK r \in Requests : out[s] = <<r>>
      BY <1>1, <2>1 DEF CopiesShape
    <2>3. r # c
      BY <2>2 DEF Unread
    <2>4. out'[s] = <<>> /\ \A t \in Sockets : t # s => out'[t] = out[t]
      BY <1>1, <2>1, <2>2, SingletonSeq DEF IInv, TypeOK, WireTypeOK
    <2>5. <<c>> # <<>>
      OBVIOUS
    <2>6. Unread(c)' = {}
      BY <2>4, <2>5 DEF Unread
    <2> QED
      BY <2>1, <2>2, <2>3, <2>6
  <1>5. CASE CallEffect \/ MuxEffect \/ OtherEffect \/ StartEffect
    BY <1>2, <1>3, <1>5 DEF CallEffect, MuxEffect, OtherEffect, StartEffect
  <1> QED
    BY <1>1, <1>2, <1>4, <1>5, NextHistory

LEMMA RunsGrow ==
    ASSUME HInv, [Next]_vars, NEW c \in Commands
    PROVE  runs[c] \in Nat /\ runs'[c] \in Nat /\ runs'[c] >= runs[c]
  <1>1. IInv /\ SendShape /\ AnswerShape /\ runs[c] \in Nat
    BY DEF HInv, IInv, TypeOK, WireTypeOK
  <1>2. CASE runs' = runs
    BY <1>1, <1>2
  <1>3. CASE \E s \in Sockets : Exchange(s)
    <2>1. PICK s \in Sockets : ServerExec(s)
      BY <1>3 DEF Exchange
    <2>2. out[s] \in Seq(Requests)
      BY <1>1 DEF IInv, TypeOK, WireTypeOK
    <2>3. runs' = [d \in Commands |-> IF d = Head(out[s]) THEN runs[d] + 1 ELSE runs[d]]
      BY <2>1, <2>2, ServerEffect
    <2> QED
      BY <1>1, <2>3
  <1> QED
    BY <1>1, <1>2, <1>3, NextHistory
    DEF CallEffect, MuxEffect, OtherEffect, StartEffect

\* No command is an exception: what names one does not answer the other.
LEMMA FaultOfNone ==
    /\ \A o \in Outcomes(Requests) : o.kind = "fault" => o.of \notin Commands
    /\ Fault("ConnectionClosed").of \notin Commands
  BY WireAssumption DEF Outcomes, Replies, Fault, FaultKinds

LEMMA AnswerInv ==
    ASSUME HInv, IInv', [Next]_vars
    PROVE  AnswerShape'
  <1>0. IInv /\ OrderShape /\ CopiesShape /\ AnswerShape /\ QueueEffect
    BY NextQueue DEF HInv
  <1>1. CallAnswered'
    BY AnsweredKept
  <1>2. task'[Mux].pc = "failed" => IsFailure(task'[Mux].err)
    BY FailureKept
  <1>3. queue \in Seq(Commands) /\ settled \in [Commands -> Outcomes(Requests) \cup {None}]
    BY <1>0 DEF IInv, TypeOK, MuxTypeOK
  <1>4. ASSUME NEW c \in Commands, settled'[c] = settled[c], settled[c] # None
        PROVE  /\ settled'[c].of = c => runs'[c] > 0
               /\ settled'[c] = Fault("ConnectionClosed") => runs'[c] = 0 /\ Unread(c)' = {}
    <2>1. settled[c].of = c => runs[c] > 0
      BY <1>0, <1>4 DEF AnswerShape, AnsweredIffExecuted
    <2>2. ~ Waiting(c)
      BY <1>0, <1>3, <1>4 DEF OrderShape, Waiting
    <2>3. settled[c] = Fault("ConnectionClosed") => runs[c] = 0 /\ Unread(c) = {}
      BY <1>0, <1>4 DEF AnswerShape, AnsweredIffExecuted
    <2> QED
      BY <1>4, <2>1, <2>2, <2>3, RunsGrow, NeverRuns
  <1>5. ASSUME NEW c \in Commands, HeadSettles, c = Head(queue)
        PROVE  /\ settled'[c].of = c => runs'[c] > 0
               /\ settled'[c] # Fault("ConnectionClosed")
    <2>1. Outcome(settled'[c])
      BY <1>0, <1>5, HeadSettlesHistory
    <2>2. settled'[c].of = c => runs[c] > 0
      BY <2>1, FaultOfNone DEF Outcome
    <2> QED
      BY <2>1, <2>2, RunsGrow DEF Outcome
  <1>6. ASSUME NEW c \in Commands, Refused(c)
        PROVE  /\ settled'[c] = Fault("ConnectionClosed") /\ settled'[c].of # c
               /\ runs'[c] = 0 /\ Unread(c)' = {}
    <2>1. settled'[c] = Fault("ConnectionClosed")
      BY <1>3, <1>6 DEF Refused
    <2>2. ~ Issued(c) /\ ~ Sent(c) /\ ~ Waiting(c)
      <3>1. ~ Issued(c) /\ ~ Waiting(c)
        BY <1>6 DEF Refused, Issued
      <3>2. queue # <<>> => c # Head(queue)
        BY <1>3, <3>1 DEF Waiting
      <3> QED
        BY <3>1, <3>2 DEF Issued, Sent
    <2>3. runs[c] + Cardinality(Unread(c)) + 1 <= 1
      BY <1>0, <2>2 DEF CopiesShape
    <2>4. runs[c] = 0 /\ Cardinality(Unread(c)) = 0
      BY <1>0, <2>3, UnreadFinite DEF IInv, TypeOK, WireTypeOK
    <2>5. Unread(c) = {}
      BY <2>4, UnreadFinite, FS_EmptySet
    <2> QED
      BY <2>1, <2>2, <2>4, <2>5, NeverRuns, FaultOfNone
  <1>7. ASSUME NEW c \in Commands, settled'[c] # None
        PROVE  /\ settled'[c].of = c => runs'[c] > 0
               /\ settled'[c] = Fault("ConnectionClosed") => runs'[c] = 0 /\ Unread(c)' = {}
    <2>1. CASE UNCHANGED <<queue, settled>> \/ \E d \in Commands : Joins(d)
      BY <1>4, <1>7, <2>1 DEF Joins
    <2>2. CASE HeadSettles
      BY <1>0, <1>4, <1>5, <1>7, <2>2, HeadSettlesHistory
    <2>3. ASSUME NEW d \in Commands, Refused(d), d # c
          PROVE  settled'[c] = settled[c]
      BY <1>3, <2>3 DEF Refused
    <2> QED
      BY <1>0, <1>4, <1>6, <1>7, <2>1, <2>2, <2>3 DEF QueueEffect
  <1>8. Fault("ConnectionClosed") # None
    BY WireAssumption, OutcomeType DEF FaultKinds
  <1> QED
    BY <1>1, <1>2, <1>7, <1>8 DEF AnswerShape, CallAnswered, AnsweredIffExecuted, IsFailure

LEMMA SettlesInOrder ==
    ASSUME HInv, [Next]_vars, NEW c \in Commands, settled'[c] # settled[c]
    PROVE  /\ settled[c] = None
           /\ \/ queue # <<>> /\ c = Head(queue) /\ queue' = Tail(queue)
              \/ isClosed /\ UNCHANGED queue
  <1>1. IInv /\ OrderShape /\ QueueEffect
    BY NextQueue DEF HInv
  <1>2. queue \in Seq(Commands) /\ settled \in [Commands -> Outcomes(Requests) \cup {None}]
    BY <1>1 DEF IInv, TypeOK, MuxTypeOK
  <1>3. CASE HeadSettles
    <2>1. queue # <<>> /\ c = Head(queue) /\ queue' = Tail(queue)
      BY <1>1, <1>3, HeadSettlesHistory
    <2>2. 1 \in 1 .. Len(queue) /\ queue[1] = Head(queue)
      BY <1>2, <2>1
    <2> QED
      BY <1>1, <2>1, <2>2 DEF OrderShape
  <1>4. ASSUME NEW d \in Commands, Refused(d)
        PROVE  settled[c] = None /\ isClosed /\ UNCHANGED queue
    BY <1>2, <1>4 DEF Refused, Issued
  <1> QED
    BY <1>1, <1>3, <1>4 DEF QueueEffect, Joins

-----------------------------------------------------------------------------
(* The theorems.                                                           *)

LEMMA InitHistory ==
    ASSUME Init
    PROVE  HInv
  <1> USE DEF Init, WireInit, MuxInit
  <1>1. IInv
    BY InitInv
  <1>2. task[Mux].pc = "dialing" /\ call[Mux].st = "idle"
    BY MuxAssumption, NoCallType, NoTaskType DEF Tasks
  <1>3. SendShape
    BY <1>2 DEF SendShape, NoSocket, Sockets
  <1>4. OrderShape
    BY DEF OrderShape
  <1>5. ASSUME NEW c \in Commands
        PROVE  runs[c] + Cardinality(Unread(c)) + (IF Sent(c) THEN 0 ELSE 1) <= 1 + retries[c]
    <2>1. <<c>> # <<>>
      OBVIOUS
    <2>2. Unread(c) = {}
      BY <2>1 DEF Unread
    <2>3. Cardinality(Unread(c)) = 0 /\ runs[c] = 0 /\ retries[c] = 0
      BY <2>2, FS_EmptySet
    <2>4. (IF Sent(c) THEN 0 ELSE 1) <= 1
      OBVIOUS
    <2> QED
      BY <2>3, <2>4
  <1>6. CopiesShape
    BY <1>5 DEF CopiesShape
  <1>7. AnswerShape
    <2>1. None # Fault("ConnectionClosed")
      BY WireAssumption, OutcomeType DEF FaultKinds
    <2> QED
      BY <1>2, <2>1 DEF AnswerShape, AnsweredIffExecuted
  <1> QED
    BY <1>1, <1>3, <1>4, <1>6, <1>7 DEF HInv

LEMMA NextHInv ==
    ASSUME HInv, [Next]_vars
    PROVE  HInv'
  <1>1. IInv'
    BY NextInv, StutterInv DEF HInv
  <1>2. SendShape' /\ CopiesShape'
    BY SendInv, CopiesInv DEF HInv
  <1>3. OrderShape'
    BY NextQueue, OrderInv DEF HInv
  <1>4. AnswerShape'
    BY <1>1, AnswerInv
  <1> QED
    BY <1>1, <1>2, <1>3, <1>4 DEF HInv

\* The history of every client obeys the strengthened invariant.
THEOREM History == Spec => []HInv
  BY InitHistory, NextHInv, PTL DEF Spec

\* The head is sent again only on another socket: reconnect() is called only
\* when the socket of the failed attempt is dead (executor.ts dequeue()).
THEOREM RetryNeedsDeadSocket == Spec => []RetryOnlyOnDeadSocket
  <1>1. HInv => RetryOnlyOnDeadSocket
    BY DEF HInv, SendShape, RetryOnlyOnDeadSocket, Dead
  <1> QED
    BY <1>1, History, PTL

\* The server executes a command once, and once more at most for each
\* reconnection its failure caused (executor.ts dequeue()).
THEOREM BoundedDuplicates == Spec => []DuplicatesNeedRetries
  <1>1. ASSUME HInv PROVE DuplicatesNeedRetries
    <2>1. ASSUME NEW c \in Commands PROVE runs[c] <= 1 + retries[c]
      <3>1. /\ runs[c] \in Nat /\ retries[c] \in Nat /\ Cardinality(Unread(c)) \in Nat
        BY <1>1, UnreadFinite DEF HInv, IInv, TypeOK, WireTypeOK, MuxTypeOK
      <3>2. runs[c] + Cardinality(Unread(c)) + (IF Sent(c) THEN 0 ELSE 1) <= 1 + retries[c]
        BY <1>1 DEF HInv, CopiesShape
      <3> QED
        BY <3>1, <3>2
    <2> QED
      BY <2>1 DEF DuplicatesNeedRetries
  <1> QED
    BY <1>1, History, PTL

\* With maxRetryCount = 0 nothing is executed twice.
THEOREM NoDuplicates == Spec => []NoRetryIfDisabled
  <1>1. HInv /\ DuplicatesNeedRetries => NoRetryIfDisabled
    BY DEF HInv, CopiesShape, DuplicatesNeedRetries, NoRetryIfDisabled
  <1> QED
    BY <1>1, History, BoundedDuplicates, PTL

\* A promise that is fulfilled was executed; a command that exec() refused never
\* reaches the server.
THEOREM AnswersAreExecuted == Spec => []AnsweredIffExecuted
  <1>1. HInv => AnsweredIffExecuted
    BY DEF HInv, AnswerShape
  <1> QED
    BY <1>1, History, PTL

\* Promises settle once, in the order of the queue (executor.ts exec(),
\* dequeue()).
THEOREM InOrder == Spec => SettledOnceInOrder
  <1>1. HInv /\ [Next]_vars =>
          [\A c \in Commands :
             settled'[c] # settled[c] =>
               /\ settled[c] = None
               /\ \/ queue # <<>> /\ c = Head(queue) /\ queue' = Tail(queue)
                  \/ isClosed /\ UNCHANGED queue]_vars
    BY SettlesInOrder
  <1> QED
    BY <1>1, History, PTL DEF Spec, SettledOnceInOrder

\* The client is the queue of CommandQueue, but for its liveness: every step of
\* the client takes, settles or refuses a command as a queue may, or is nothing
\* to the callers of exec().
THEOREM ImplementsQueue == Spec => Promise!Init /\ [][Promise!Next]_(Promise!vars)
  <1>1. Init => Promise!Init
    BY DEF Init, MuxInit, Promise!Init
  <1>2. ASSUME HInv, [Next]_vars PROVE [Promise!Next]_(Promise!vars)
    <2>1. IInv /\ QueueEffect
      BY <1>2, NextQueue DEF HInv
    <2>2. queue \in Seq(Commands) /\ settled \in [Commands -> Outcomes(Requests) \cup {None}]
      BY <2>1 DEF IInv, TypeOK, MuxTypeOK
    <2>3. CASE UNCHANGED <<queue, settled>>
      BY <2>3 DEF Promise!vars
    <2>4. CASE HeadSettles
      <3>1. PICK o : Outcome(o) /\ SettleHead(o)
        BY <2>4 DEF HeadSettles
      <3>2. /\ queue # <<>> /\ queue' = Tail(queue)
            /\ settled' = [settled EXCEPT ![Head(queue)] = o]
        BY <2>1, <2>4, <3>1, HeadSettlesHistory DEF SettleHead
      <3>3. CASE o.kind = "fault" \/ (o.kind = "errorReply" /\ o.of \in Promise!Internal)
        <4>1. o \in Promise!Failures
          BY <3>1, <3>3
          DEF Outcome, Outcomes, FaultKinds, Promise!Failures, Promise!FaultKinds
        <4> QED
          BY <3>2, <4>1 DEF Promise!Fail, Promise!Settle, Promise!Next
      <3>4. CASE o.kind # "fault" /\ o.of = Head(queue)
        <4>1. o \in {Value(Head(queue)), Torn(Head(queue)), ErrorReply(Head(queue))}
          BY <3>1, <3>4 DEF Outcome, Outcomes, Value, Torn, ErrorReply
        <4> QED
          BY <3>2, <4>1
          DEF Promise!Answer, Promise!Settle, Promise!Next, Promise!Value, Promise!Torn,
              Promise!ErrorReply, Value, Torn, ErrorReply
      <3> QED
        BY <3>1, <3>3, <3>4 DEF Outcome
    <2>5. ASSUME NEW c \in Commands, Joins(c) PROVE Promise!Submit(c)
      BY <2>2, <2>5 DEF Joins, Issued, Waiting, Promise!Submit
    <2>6. ASSUME NEW c \in Commands, Refused(c) PROVE Promise!Refuse(c)
      BY <2>2, <2>6 DEF Refused, Issued, Waiting, Promise!Refuse, Promise!Fault, Fault
    <2> QED
      BY <2>1, <2>3, <2>4, <2>5, <2>6 DEF QueueEffect, Promise!Next
  <1> QED
    BY <1>1, <1>2, History, PTL DEF Spec
=============================================================================
