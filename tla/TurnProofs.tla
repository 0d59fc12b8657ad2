----------------------------- MODULE TurnProofs -----------------------------
(***************************************************************************)
(* What holds of the client's one connection as long as its fibres take    *)
(* turns: while one of them, f, is inside sendCommand(), connect() or      *)
(* reconnect(), no other is.  The executor alone (redis.ts connect()), an  *)
(* awaited flush() and the first command of a lazy client all work like    *)
(* this; each of their modules of proofs adds who hands the turn to whom.  *)
(***************************************************************************)
EXTENDS MuxExecutor, TLAPS, SequenceTheorems

\* The requests of connect() and reconnect() themselves.
Internal == {"PING"} \cup {Hello[i] : i \in 1 .. Len(Hello)}

TypesOK == WireTypeOK /\ ConnTypeOK /\ MuxTypeOK

\* A fibre that waits for nothing.
Rests(f) ==
    /\ call[f].st = "idle"
    /\ task[f].pc \in {"idle", "ok", "failed"}
    /\ task[f].dials <= MaxRetryCount + 1

\* It is f's turn: no other fibre, and no receiver, is at work.
Others(f) == f \notin Receivers /\ \A g \in Fibers \ {f} : Rests(g)

\* A call that is under way has a socket and a request; one that is over has a
\* result, which answers that request.
CallOf(f) ==
    /\ call[f].st \in {"writing", "written", "reading"} => call[f].sock \in Sockets
    /\ call[f].st # "idle" => call[f].req \in Requests
    /\ call[f].st = "done" => call[f].res \in Outcomes(Requests)

\* What the fibre waits for in each state of connect() and reconnect().
TaskOf(f) ==
    /\ task[f].pc \in {"dialing", "delay", "ok", "failed"} => call[f].st = "idle"
    /\ task[f].pc = "hello" =>
         /\ task[f].step \in 1 .. Len(Hello)
         /\ call[f].st # "idle"
         /\ call[f].req = Hello[task[f].step]
    /\ task[f].pc \in {"ping", "reping"} => call[f].st # "idle" /\ call[f].req = "PING"

\* The shared counter counts the dials of the connect() that runs.
BudgetOf(f) ==
    /\ task[f].dials <= MaxRetryCount + 1
    /\ task[f].pc \in {"dialing", "hello"} => task[f].dials = retryCount + 1
    /\ task[f].pc = "delay" => task[f].dials = retryCount
    /\ task[f].pc \notin {"dialing", "hello", "delay"} => retryCount = 0

\* Only the current socket is open, and none while connect() is about to dial.
SocketsOf(f) ==
    /\ \A s \in Sockets : rid[s] = "open" => s = cur /\ ~ isClosed
    /\ task[f].pc \in {"dialing", "delay"} => \A s \in Sockets : rid[s] # "open"

\* Only the fibre's own call holds a lock, and of the socket it uses.
LocksOf(f) ==
    \A s \in Sockets :
        /\ rlock[s] # None => call[f].st = "reading" /\ call[f].sock = s
        /\ wlock[s] # None => call[f].st \in {"writing", "written"} /\ call[f].sock = s

\* An open socket carries at most one request or one reply: the one the fibre
\* waits for.
WireOf(f) ==
    /\ \A s \in Sockets : rid[s] = "unused" => out[s] = <<>> /\ inb[s] = <<>>
    /\ \A s \in Sockets : rid[s] = "open" =>
         \/ out[s] = <<>> /\ inb[s] = <<>>
         \/ /\ call[f].st \in {"written", "reading"} /\ call[f].sock = s
            /\ \/ out[s] = <<call[f].req>> /\ inb[s] = <<>>
               \/ /\ out[s] = <<>>
                  /\ \E a \in Replies(Requests) : a.of = call[f].req /\ inb[s] = <<a>>
    /\ call[f].st = "done" => call[f].res.kind = "fault" \/ call[f].res.of = call[f].req

\* dequeue() is at work exactly while the queue holds a command; outside of a
\* reconnection it waits for the reply to the head.
QueueWorks ==
    /\ isProcessing <=> queue # <<>>
    /\ isProcessing /\ task[Mux].pc = "idle" =>
         call[Mux].st # "idle" /\ call[Mux].req = Head(queue)

\* An error connect() or reconnect() may end with: no caller's reply.
PassedOn(o) ==
    /\ o \in Outcomes(Requests)
    /\ o.kind = "fault" \/ (o.kind = "errorReply" /\ o.of \in Internal)

\* A promise settles with the reply to its own command, or with an error.
OwnOutcome(c, o) ==
    o.kind = "fault" \/ o.of = c \/ (o.kind = "errorReply" /\ o.of \in Internal)

OwnReplies == \A c \in Commands : settled[c] # None => OwnOutcome(c, settled[c])

ErrorsOf(f) == task[f].pc = "failed" => PassedOn(task[f].err)

InTurn(f) ==
    /\ TypesOK /\ Others(f)
    /\ CallOf(f) /\ TaskOf(f) /\ BudgetOf(f) /\ SocketsOf(f) /\ LocksOf(f) /\ WireOf(f)
    /\ ErrorsOf(f) /\ QueueWorks /\ OwnReplies

\* dequeue() is at rest when it has nothing to do.
MuxRests == ~ isProcessing => task[Mux].pc = "idle" /\ call[Mux].st = "idle"

\* A step of f: the other fibres stay where they are.
SameCalls(f) == \A g \in Fibers \ {f} : call'[g] = call[g]
SameTasks(f) == \A g \in Fibers \ {f} : task'[g] = task[g]

-----------------------------------------------------------------------------
(* What the operators of Wire and Connection do to the records they update. *)

LEMMA CallStType ==
    ASSUME NEW c \in Calls, NEW x \in CallStates
    PROVE  [c EXCEPT !.st = x] \in Calls
  BY DEF Calls

LEMMA OutcomeType ==
    /\ \A e \in FaultKinds : Fault(e) \in Outcomes(Requests) /\ Fault(e).kind = "fault"
    /\ \A a \in Replies(Requests) : a \in Outcomes(Requests)
    /\ \A r \in Requests : /\ Torn(r) \in Outcomes(Requests)
                           /\ Value(r) \in Replies(Requests)
                           /\ ErrorReply(r) \in Replies(Requests)
  BY DEF Outcomes, Replies, Fault, Torn, Value, ErrorReply

LEMMA DoneType ==
    ASSUME NEW f \in Fibers, call[f] \in Calls, NEW o \in Outcomes(Requests)
    PROVE  /\ Done(f, o) \in Calls
           /\ Done(f, o).st = "done" /\ Done(f, o).res = o
           /\ Done(f, o).req = call[f].req /\ Done(f, o).sock = call[f].sock
  BY DEF Done, Calls, CallStates

LEMMA NoCallType ==
    NoCall \in Calls /\ NoCall.st = "idle"
  BY DEF NoCall, Calls, CallStates, NoSocket

LEMMA EmptyType ==
    <<>> \in Seq(Arriving) /\ <<>> \in Seq(Requests)
  OBVIOUS

\* A reply nothing was dropped of is decoded as it is, and when it is the only one no
\* chunk holds more.  Cut short, it is taken for its own part or for a fault.
LEMMA WholeReply ==
    ASSUME NEW a \in Replies(Requests)
    PROVE  /\ a \in Arriving /\ a \in Outcomes(Requests) /\ Decoded(a) = {a}
           /\ AfterChunk(<<a>>) = {<<>>}
           /\ \A o \in CutShort(a) :
                /\ o \in Outcomes(Requests) /\ o # Fault("TypeError")
                /\ o.kind = "fault" \/ o.of = a.of
                /\ o.kind = "fault" => o.of \in {"InvalidState", "RangeError"}
  <1>1. a.kind \in {"value", "errorReply"} /\ a.kind # "part" /\ a.of \in Requests
    BY DEF Replies
  <1>2. a \in Arriving /\ Decoded(a) = {a}
    BY <1>1 DEF Arriving, Decoded
  <1>3. AfterChunk(<<a>>) = {<<>>}
    <2> DEFINE q == <<a>>
    <2>1. Len(q) = 1 /\ q[1] = a /\ 1 .. Len(q) = {1} /\ SubSeq(q, 1 + 1, Len(q)) = <<>>
      OBVIOUS
    <2> HIDE DEF q
    <2>2. {k \in 1 .. Len(q) : Pieces(q[k]) > 0 /\ (k = 1 => q[k].kind = "part")} = {}
      BY <1>1, <2>1
    <2>3. {SubSeq(q, k + 1, Len(q)) : k \in 1 .. Len(q)} = {<<>>}
      <3> DEFINE Rest(k) == SubSeq(q, k + 1, Len(q))
      <3>1. Rest(1) = <<>>
        BY <2>1
      <3> HIDE DEF Rest
      <3>2. {Rest(k) : k \in 1 .. Len(q)} = {<<>>}
        BY <2>1, <3>1
      <3> QED
        BY <3>2 DEF Rest
    <2>4. AfterChunk(q) = {<<>>}
      BY ONLY <2>2, <2>3 DEF AfterChunk
    <2> QED
      BY <2>4 DEF q
  <1>4. /\ Torn(a.of) \in Outcomes(Requests) /\ Torn(a.of).of = a.of /\ Torn(a.of).kind = "torn"
        /\ \A e \in {"InvalidState", "RangeError"} :
              /\ Fault(e) \in Outcomes(Requests) /\ Fault(e).kind = "fault" /\ Fault(e).of = e
        /\ Fault("TypeError").kind = "fault" /\ Fault("TypeError").of = "TypeError"
    BY <1>1 DEF Torn, Fault, Outcomes, FaultKinds
  <1>5. CutShort(a) \subseteq {Torn(a.of), Fault("InvalidState"), Fault("RangeError"), a}
    BY <1>1 DEF CutShort
  <1>6. a \in Outcomes(Requests)
    BY <1>1 DEF Outcomes, Replies
  <1> QED
    BY <1>1, <1>2, <1>3, <1>4, <1>5, <1>6

LEMMA SingletonSeq ==
    ASSUME NEW S, NEW x \in S
    PROVE  Tail(<<x>>) = <<>> /\ Append(<<>>, x) = <<x>>
  <1>1. Tail(<<x>>) = <<>>
    OBVIOUS
  <1>2. Append(<<>>, x) = <<x>>
    OBVIOUS
  <1> QED
    BY <1>1, <1>2

LEMMA NoTaskType ==
    /\ NoTask \in Tasks /\ NoTask.pc = "idle" /\ NoTask.dials = 0 /\ NoTask.mode = "connect"
  <1>1. 0 \in 0 .. Len(Hello)
    BY ConnectionAssumption
  <1> QED
    BY <1>1 DEF NoTask, Tasks, TaskStates

\* Between two calls no stream is locked.
NoLocks == \A s \in Sockets : rlock[s] = None /\ wlock[s] = None

\* The fibre has just called sendCommand() with request r: the write is under
\* way, or there is no connection.
Started(f, r) ==
    /\ call'[f].req = r
    /\ \/ call'[f].st = "writing" /\ call'[f].sock \in Sockets
       \/ call'[f].st = "done" /\ call'[f].res = Fault("TypeError")
    /\ \A s \in Sockets : wlock'[s] # None => call'[f].st = "writing" /\ call'[f].sock = s

\* It has consumed the result of its last call.
Stopped(f) == call'[f].st = "idle" /\ \A s \in Sockets : wlock'[s] = None

\* On a connection that was ever established the write is under way.
LEMMA SendEffect ==
    ASSUME NEW f \in Fibers, NEW s \in Sockets \cup {NoSocket}, NEW r \in Requests,
           call \in [Fibers -> Calls], wlock \in [Sockets -> Fibers \cup {None}],
           NoLocks, Send(f, s, r, wlock)
    PROVE  /\ call' \in [Fibers -> Calls]
           /\ wlock' \in [Sockets -> Fibers \cup {None}]
           /\ Started(f, r) /\ SameCalls(f)
           /\ call'[f].sock = s
           /\ s # NoSocket => call'[f].st = "writing" /\ call'[f].res = None
  <1>1. Fault("TypeError") \in Outcomes(Requests)
    BY DEF Outcomes, Fault, FaultKinds
  <1>2. CASE s # NoSocket
    <2>1. s \in Sockets /\ wlock[s] = None
      BY <1>2 DEF NoLocks
    <2>2. /\ call' = [call EXCEPT ![f] = [st |-> "writing", sock |-> s, req |-> r, res |-> None]]
          /\ wlock' = [wlock EXCEPT ![s] = f]
      BY <1>2, <2>1 DEF Send
    <2>3. [st |-> "writing", sock |-> s, req |-> r, res |-> None] \in Calls
      BY <2>1 DEF Calls, CallStates
    <2>4. \A u \in Sockets : wlock'[u] # None => u = s
      BY <2>1, <2>2 DEF NoLocks
    <2> QED
      BY <2>1, <2>2, <2>3, <2>4 DEF Started, SameCalls
  <1>3. CASE s = NoSocket
    <2>1. /\ call' = [call EXCEPT ![f] = [st |-> "done", sock |-> s, req |-> r,
                                          res |-> Fault("TypeError")]]
          /\ wlock' = wlock
      BY <1>3 DEF Send
    <2>2. [st |-> "done", sock |-> s, req |-> r, res |-> Fault("TypeError")] \in Calls
      BY <1>1, <1>3 DEF Calls, CallStates
    <2> QED
      BY <1>3, <2>1, <2>2 DEF Started, SameCalls, NoLocks
  <1> QED
    BY <1>2, <1>3

-----------------------------------------------------------------------------
(* One lemma for each step of the system: it preserves the invariant.      *)

\* What every lemma starts from: the types of the values it reads.
LEMMA FibreTypes ==
    ASSUME NEW f \in Fibers, InTurn(f)
    PROVE  /\ Mux \in Fibers /\ Mux \notin Receivers
           /\ call \in [Fibers -> Calls] /\ call[f] \in Calls
           /\ call[f].st \in CallStates
           /\ task \in [Fibers -> Tasks] /\ task[f] \in Tasks
           /\ task[f].pc \in TaskStates
           /\ f \notin Receivers
  BY MuxAssumption DEF InTurn, Others, TypesOK, WireTypeOK, ConnTypeOK, Calls, Tasks

\* A call of f that goes on or ends: what is left to show of such a step are its
\* effects on the sockets.
LEMMA CallGoesOn ==
    ASSUME NEW f \in Fibers, InTurn(f), call[f].st # "idle",
           call' \in [Fibers -> Calls], SameCalls(f),
           call'[f].st \in {"written", "reading", "done"},
           call'[f].sock = call[f].sock, call'[f].req = call[f].req,
           call'[f].st # "done" => call'[f].sock \in Sockets,
           call'[f].st = "done" => call'[f].res \in Outcomes(Requests),
           \A s \in Sockets : rid'[s] = "open" => rid[s] = "open",
           UNCHANGED <<connVars, muxVars>>
    PROVE  /\ ConnTypeOK' /\ MuxTypeOK' /\ Others(f)'
           /\ CallOf(f)' /\ TaskOf(f)' /\ BudgetOf(f)' /\ SocketsOf(f)'
           /\ ErrorsOf(f)' /\ QueueWorks' /\ OwnReplies'
  <1>1. ConnTypeOK' /\ MuxTypeOK'
    BY DEF InTurn, TypesOK, ConnTypeOK, MuxTypeOK, connVars, muxVars
  <1>2. Others(f)'
    BY DEF InTurn, Others, Rests, SameCalls, connVars
  <1>3. CallOf(f)' /\ TaskOf(f)' /\ BudgetOf(f)'
    BY DEF InTurn, CallOf, TaskOf, BudgetOf, connVars
  <1>4. SocketsOf(f)' /\ ErrorsOf(f)' /\ OwnReplies'
    BY DEF InTurn, SocketsOf, ErrorsOf, OwnReplies, connVars, muxVars
  <1>5. QueueWorks'
    <2>1. CASE f = Mux
      BY <2>1 DEF InTurn, QueueWorks, connVars, muxVars
    <2>2. CASE f # Mux
      BY <2>2, FibreTypes DEF InTurn, QueueWorks, SameCalls, connVars, muxVars
    <2> QED
      BY <2>1, <2>2
  <1> QED
    BY <1>1, <1>2, <1>3, <1>4, <1>5

LEMMA WriteOkTurn ==
    ASSUME NEW f \in Fibers, InTurn(f), WriteOk(f), UNCHANGED <<connVars, muxVars>>
    PROVE  InTurn(f)'
  <1> DEFINE s == call[f].sock
  <1>1. /\ call[f].st = "writing" /\ rid[s] = "open"
        /\ s \in Sockets /\ call[f].req \in Requests
        /\ UNCHANGED <<rid, link, inb, wlock, rlock, runs>>
    BY DEF WriteOk, InTurn, CallOf
  <1>2. /\ call' \in [Fibers -> Calls] /\ SameCalls(f)
        /\ call'[f].st = "written" /\ call'[f].sock = s /\ call'[f].req = call[f].req
    <2>1. call' = [call EXCEPT ![f] = [call[f] EXCEPT !.st = "written"]]
      BY DEF WriteOk
    <2>2. [call[f] EXCEPT !.st = "written"] \in Calls
      BY FibreTypes, CallStType DEF CallStates
    <2> QED
      BY <2>1, <2>2, FibreTypes DEF Calls, SameCalls
  <1>3. WireTypeOK'
    <2>1. out' \in [Sockets -> Seq(Requests)]
      BY <1>1 DEF InTurn, TypesOK, WireTypeOK, WriteOk
    <2> QED
      BY <1>1, <1>2, <2>1 DEF InTurn, TypesOK, WireTypeOK
  <1>4. LocksOf(f)'
    BY <1>1, <1>2 DEF InTurn, LocksOf
  <1>5. WireOf(f)'
    <2>1. out[s] = <<>> /\ inb[s] = <<>>
      BY <1>1 DEF InTurn, WireOf
    <2>2. inb'[s] = <<>> /\ out'[s] \in {<<>>, <<call[f].req>>}
      BY <1>1, <2>1 DEF InTurn, TypesOK, WireTypeOK, WriteOk
    <2>3. \A t \in Sockets : t # s => out'[t] = out[t] /\ inb'[t] = inb[t]
      BY <1>1 DEF InTurn, TypesOK, WireTypeOK, WriteOk
    <2>4. \A t \in Sockets : t # s => rid[t] # "open"
      BY <1>1 DEF InTurn, SocketsOf
    <2> QED
      BY <1>1, <1>2, <2>2, <2>3, <2>4 DEF InTurn, WireOf
  <1>6. /\ ConnTypeOK' /\ MuxTypeOK' /\ Others(f)'
        /\ CallOf(f)' /\ TaskOf(f)' /\ BudgetOf(f)' /\ SocketsOf(f)'
        /\ ErrorsOf(f)' /\ QueueWorks' /\ OwnReplies'
    BY <1>1, <1>2, CallGoesOn
  <1> QED
    BY <1>3, <1>4, <1>5, <1>6 DEF InTurn, TypesOK

\* A call that is over for f, whatever it ended with: nothing is locked, and no
\* socket that is or will be open carries anything.
LEMMA CallOverTurn ==
    ASSUME NEW f \in Fibers, InTurn(f), NEW o \in Outcomes(Requests),
           call[f].st \in {"writing", "written", "reading"},
           call' = [call EXCEPT ![f] = Done(f, o)],
           o.kind = "fault" \/ o.of = call[f].req,
           rid' \in [Sockets -> {"unused", "open", "eof", "reset", "closed"}],
           inb' \in [Sockets -> Seq(Arriving)],
           wlock' \in [Sockets -> Fibers \cup {None}],
           rlock' \in [Sockets -> Fibers \cup {None}],
           \A s \in Sockets : rid'[s] = "open" => rid[s] = "open",
           \A s \in Sockets : rid'[s] \in {"unused", "open"} =>
                out[s] = <<>> /\ inb'[s] = <<>>,
           NoLocks',
           UNCHANGED <<link, out, runs, connVars, muxVars>>
    PROVE  InTurn(f)'
  <1>1. /\ call' \in [Fibers -> Calls] /\ call'[f].st = "done" /\ SameCalls(f)
        /\ call'[f].res = o /\ call'[f].req = call[f].req /\ call'[f].sock = call[f].sock
    BY FibreTypes, DoneType DEF SameCalls
  <1>2. WireTypeOK'
    BY <1>1 DEF InTurn, TypesOK, WireTypeOK
  <1>3. LocksOf(f)' /\ WireOf(f)'
    BY <1>1 DEF LocksOf, WireOf, NoLocks
  <1>4. /\ ConnTypeOK' /\ MuxTypeOK' /\ Others(f)'
        /\ CallOf(f)' /\ TaskOf(f)' /\ BudgetOf(f)' /\ SocketsOf(f)'
        /\ ErrorsOf(f)' /\ QueueWorks' /\ OwnReplies'
    BY <1>1, CallGoesOn
  <1> QED
    BY <1>2, <1>3, <1>4 DEF InTurn, TypesOK

LEMMA WriteFailsTurn ==
    ASSUME NEW f \in Fibers, InTurn(f), WriteFails(f), UNCHANGED <<connVars, muxVars>>
    PROVE  InTurn(f)'
  <1> DEFINE s == call[f].sock
  <1>1. call[f].st = "writing" /\ s \in Sockets
    BY DEF WriteFails, InTurn, CallOf
  <1>2. PICK e \in FaultKinds :
          /\ call' = [call EXCEPT ![f] = Done(f, Fault(e))]
          /\ \/ /\ rid[s] = "open"
                /\ rid' = [rid EXCEPT ![s] = "reset"]
                /\ inb' = [inb EXCEPT ![s] = <<>>]
             \/ rid[s] # "open" /\ UNCHANGED <<rid, inb>>
    BY DEF WriteFails
  <1>3. Fault(e) \in Outcomes(Requests) /\ Fault(e).kind = "fault"
    BY OutcomeType
  <1>4. /\ rid' \in [Sockets -> {"unused", "open", "eof", "reset", "closed"}]
        /\ inb' \in [Sockets -> Seq(Arriving)]
    <2>1. CASE rid[s] = "open"
      <3>1. rid' = [rid EXCEPT ![s] = "reset"] /\ inb' = [inb EXCEPT ![s] = <<>>]
        BY <1>2, <2>1
      <3>2. /\ rid \in [Sockets -> {"unused", "open", "eof", "reset", "closed"}]
            /\ inb \in [Sockets -> Seq(Arriving)]
        BY DEF InTurn, TypesOK, WireTypeOK
      <3> QED
        BY <3>1, <3>2, EmptyType
    <2>2. CASE rid[s] # "open"
      BY <1>2, <2>2 DEF InTurn, TypesOK, WireTypeOK
    <2> QED
      BY <2>1, <2>2
  <1>5. \A t \in Sockets :
          /\ rid'[t] = "unused" <=> rid[t] = "unused"
          /\ rid'[t] = "open" => rid[t] = "open"
          /\ rid'[t] \in {"unused", "open"} => inb'[t] = inb[t] /\ (rid'[t] = "open" => t # s)
    BY <1>1, <1>2 DEF InTurn, TypesOK, WireTypeOK
  <1>6. \A t \in Sockets : rid'[t] \in {"unused", "open"} => out[t] = <<>> /\ inb'[t] = <<>>
    BY <1>1, <1>5 DEF InTurn, WireOf
  <1>7. rlock' = rlock /\ wlock' = [wlock EXCEPT ![s] = None] /\ UNCHANGED <<link, out, runs>>
    BY DEF WriteFails
  <1>8. /\ rlock' \in [Sockets -> Fibers \cup {None}]
        /\ wlock' \in [Sockets -> Fibers \cup {None}]
    BY <1>7 DEF InTurn, TypesOK, WireTypeOK
  <1>9. NoLocks'
    BY <1>1, <1>7 DEF InTurn, TypesOK, WireTypeOK, LocksOf, NoLocks
  <1> QED
    BY <1>1, <1>2, <1>3, <1>4, <1>5, <1>6, <1>7, <1>8, <1>9, CallOverTurn

LEMMA StartReadTurn ==
    ASSUME NEW f \in Fibers, InTurn(f), StartRead(f), UNCHANGED <<connVars, muxVars>>
    PROVE  InTurn(f)'
  <1> DEFINE s == call[f].sock
  <1>1. /\ call[f].st = "written" /\ s \in Sockets
        /\ UNCHANGED <<rid, link, out, inb, runs>>
        /\ wlock' = [wlock EXCEPT ![s] = None]
        /\ rlock[s] = None
    BY DEF StartRead, InTurn, CallOf, LocksOf
  <1>2. rlock' = [rlock EXCEPT ![s] = f] /\ call' = [call EXCEPT ![f].st = "reading"]
    BY <1>1 DEF StartRead
  <1>3. /\ call' \in [Fibers -> Calls] /\ SameCalls(f)
        /\ call'[f].st = "reading" /\ call'[f].sock = s /\ call'[f].req = call[f].req
    <2>1. call' = [call EXCEPT ![f] = [call[f] EXCEPT !.st = "reading"]]
      BY <1>2
    <2>2. [call[f] EXCEPT !.st = "reading"] \in Calls
      BY FibreTypes, CallStType DEF CallStates
    <2> QED
      BY <2>1, <2>2, FibreTypes DEF Calls, SameCalls
  <1>4. WireTypeOK'
    <2>1. /\ wlock' \in [Sockets -> Fibers \cup {None}]
          /\ rlock' \in [Sockets -> Fibers \cup {None}]
      BY <1>1, <1>2 DEF InTurn, TypesOK, WireTypeOK
    <2> QED
      BY <1>1, <1>3, <2>1 DEF InTurn, TypesOK, WireTypeOK
  <1>5. LocksOf(f)'
    BY <1>1, <1>2, <1>3 DEF InTurn, TypesOK, WireTypeOK, LocksOf
  <1>6. WireOf(f)'
    BY <1>1, <1>3 DEF InTurn, WireOf
  <1>7. /\ ConnTypeOK' /\ MuxTypeOK' /\ Others(f)'
        /\ CallOf(f)' /\ TaskOf(f)' /\ BudgetOf(f)' /\ SocketsOf(f)'
        /\ ErrorsOf(f)' /\ QueueWorks' /\ OwnReplies'
    BY <1>1, <1>3, CallGoesOn
  <1> QED
    BY <1>4, <1>5, <1>6, <1>7 DEF InTurn, TypesOK

\* The end of a read of f, who is no receiver: the reader is unlocked.
LEMMA FinishReadEffect ==
    ASSUME NEW f \in Fibers, InTurn(f), NEW o \in Outcomes(Requests), call[f].st = "reading",
           FinishRead(f, o)
    PROVE  /\ call' = [call EXCEPT ![f] = Done(f, o)]
           /\ rlock' \in [Sockets -> Fibers \cup {None}]
           /\ wlock' \in [Sockets -> Fibers \cup {None}]
           /\ NoLocks'
           /\ UNCHANGED <<link, out, runs>>
  <1>1. call[f].sock \in Sockets
    BY DEF InTurn, CallOf
  <1>2. rlock' = [rlock EXCEPT ![call[f].sock] = None] /\ wlock' = wlock
    BY FibreTypes DEF FinishRead
  <1>3. NoLocks'
    BY <1>1, <1>2 DEF InTurn, TypesOK, WireTypeOK, LocksOf, NoLocks
  <1> QED
    BY <1>1, <1>2, <1>3 DEF InTurn, TypesOK, WireTypeOK, FinishRead

LEMMA ReadReplyTurn ==
    ASSUME NEW f \in Fibers, InTurn(f), ReadReply(f), UNCHANGED <<connVars, muxVars>>
    PROVE  InTurn(f)'
  <1> DEFINE s == call[f].sock
  <1>1. call[f].st = "reading" /\ s \in Sockets /\ rid[s] = "open" /\ rid' = rid
    BY DEF ReadReply, InTurn, CallOf
  <1>2. /\ inb[s] # <<>>
        /\ \E rest \in AfterChunk(inb[s]) : inb' = [inb EXCEPT ![s] = rest]
        /\ \E o \in Decoded(Head(inb[s])) : FinishRead(f, o)
    BY DEF ReadReply
  <1>3. PICK a \in Replies(Requests) :
          a.of = call[f].req /\ inb[s] = <<a>> /\ out[s] = <<>>
    BY <1>1, <1>2 DEF InTurn, WireOf
  <1>4. FinishRead(f, a) /\ a \in Outcomes(Requests)
    <2>1. Head(inb[s]) = a
      BY <1>3
    <2> QED
      BY <1>2, <2>1, WholeReply
  <1>5. inb' = [inb EXCEPT ![s] = <<>>]
    BY <1>2, <1>3, WholeReply
  <1>6. inb' \in [Sockets -> Seq(Arriving)]
    BY <1>1, <1>5, EmptyType DEF InTurn, TypesOK, WireTypeOK
  <1>7. \A t \in Sockets : t # s => rid[t] # "open" /\ inb'[t] = inb[t]
    BY <1>1, <1>5 DEF InTurn, TypesOK, WireTypeOK, SocketsOf
  <1>8. inb'[s] = <<>>
    BY <1>1, <1>5 DEF InTurn, TypesOK, WireTypeOK
  <1>9. \A t \in Sockets : rid'[t] \in {"unused", "open"} =>
          out[t] = <<>> /\ inb'[t] = <<>>
    BY <1>1, <1>3, <1>7, <1>8 DEF InTurn, WireOf
  <1>10. rid' \in [Sockets -> {"unused", "open", "eof", "reset", "closed"}]
    BY <1>1 DEF InTurn, TypesOK, WireTypeOK
  <1> QED
    BY <1>1, <1>3, <1>4, <1>6, <1>9, <1>10, FinishReadEffect, CallOverTurn

LEMMA ReadFailsTurn ==
    ASSUME NEW f \in Fibers, InTurn(f), ReadFails(f), UNCHANGED <<connVars, muxVars>>
    PROVE  InTurn(f)'
  <1> DEFINE s == call[f].sock
  <1>1. call[f].st = "reading" /\ s \in Sockets /\ call[f].req \in Requests
    BY DEF ReadFails, InTurn, CallOf
  <1>2. \E o \in Outcomes(Requests) :
          FinishRead(f, o) /\ (o.kind = "fault" \/ o.of = call[f].req)
    <2>1. ASSUME inb[s] # <<>>, rid[s] = "open", NEW o \in CutShort(Head(inb[s]))
          PROVE  o \in Outcomes(Requests) /\ (o.kind = "fault" \/ o.of = call[f].req)
      <3>1. PICK a \in Replies(Requests) : a.of = call[f].req /\ inb[s] = <<a>>
        BY <1>1, <2>1 DEF InTurn, WireOf
      <3>2. Head(inb[s]) = a
        BY <3>1
      <3> QED
        BY <2>1, <3>1, <3>2, WholeReply
    <2>2. {"EOF", "ConnectionReset", "BadResource", "Interrupted"} \subseteq FaultKinds
      BY DEF FaultKinds
    <2> QED
      BY <2>1, <2>2, OutcomeType DEF ReadFails
  <1>3. \/ /\ rid[s] = "open" /\ inb' = [inb EXCEPT ![s] = <<>>]
           /\ \E v \in {"eof", "reset"} : rid' = [rid EXCEPT ![s] = v]
        \/ rid[s] \notin {"unused", "open"} /\ UNCHANGED <<rid, inb>>
    BY DEF ReadFails
  <1>4. /\ rid' \in [Sockets -> {"unused", "open", "eof", "reset", "closed"}]
        /\ inb' \in [Sockets -> Seq(Arriving)]
    <2>1. CASE rid[s] = "open"
      <3>1. /\ inb' = [inb EXCEPT ![s] = <<>>]
            /\ \E v \in {"eof", "reset"} : rid' = [rid EXCEPT ![s] = v]
        BY <1>3, <2>1
      <3>2. /\ rid \in [Sockets -> {"unused", "open", "eof", "reset", "closed"}]
            /\ inb \in [Sockets -> Seq(Arriving)]
        BY DEF InTurn, TypesOK, WireTypeOK
      <3> QED
        BY <3>1, <3>2, EmptyType
    <2>2. CASE rid[s] # "open"
      BY <1>3, <2>2 DEF InTurn, TypesOK, WireTypeOK
    <2> QED
      BY <2>1, <2>2
  <1>5. /\ \A t \in Sockets : t # s => rid'[t] = rid[t] /\ inb'[t] = inb[t]
        /\ rid'[s] \notin {"unused", "open"} /\ rid[s] # "unused"
    BY <1>1, <1>3 DEF InTurn, TypesOK, WireTypeOK
  <1>6. \A t \in Sockets : rid'[t] \in {"unused", "open"} =>
          out[t] = <<>> /\ inb'[t] = <<>>
    BY <1>1, <1>5 DEF InTurn, WireOf
  <1> QED
    BY <1>1, <1>2, <1>4, <1>5, <1>6, FinishReadEffect, CallOverTurn

LEMMA CallStepTurn ==
    ASSUME NEW f \in Fibers, InTurn(f), CallStep(f), UNCHANGED <<connVars, muxVars>>
    PROVE  InTurn(f)'
  BY WriteOkTurn, WriteFailsTurn, StartReadTurn, ReadReplyTurn, ReadFailsTurn DEF CallStep

\* A step of the server or of the network: the fibres stay where they are.
LEMMA OutsideTurn ==
    ASSUME NEW f \in Fibers, InTurn(f), WireTypeOK', isClosed' \in BOOLEAN,
           isConnected' \in BOOLEAN,
           UNCHANGED <<wlock, rlock, call, cur, retryCount, task, muxVars>>,
           \A s \in Sockets : rid'[s] = "open" => rid[s] = "open" /\ isClosed' = isClosed,
           WireOf(f)'
    PROVE  InTurn(f)'
  <1>1. ConnTypeOK' /\ MuxTypeOK' /\ Others(f)'
    BY DEF InTurn, TypesOK, ConnTypeOK, MuxTypeOK, Others, Rests, muxVars
  <1>2. CallOf(f)' /\ TaskOf(f)' /\ BudgetOf(f)' /\ SocketsOf(f)' /\ LocksOf(f)'
    BY DEF InTurn, CallOf, TaskOf, BudgetOf, SocketsOf, LocksOf
  <1>3. ErrorsOf(f)' /\ QueueWorks' /\ OwnReplies'
    BY DEF InTurn, ErrorsOf, QueueWorks, OwnReplies, muxVars
  <1> QED
    BY <1>1, <1>2, <1>3 DEF InTurn, TypesOK

\* What ServerExec() does: it takes a request, counts it and answers it.
LEMMA ServerEffect ==
    ASSUME NEW s \in Sockets, ServerExec(s), out[s] \in Seq(Requests)
    PROVE  /\ out[s] # <<>> /\ out' = [out EXCEPT ![s] = Tail(@)]
           /\ runs' = [c \in Commands |-> IF c = Head(out[s]) THEN runs[c] + 1 ELSE runs[c]]
           /\ UNCHANGED <<rid, link, wlock, rlock, call>>
           /\ \E a \in Replies(Requests) :
                /\ a.of = Head(out[s]) /\ Serves(s, {Head(out[s])}, a)
                /\ inb' = IF link[s] = "up" /\ rid[s] = "open"
                          THEN [inb EXCEPT ![s] = Append(@, a)] ELSE inb
  <1> DEFINE r == Head(out[s])
  <1>1. out[s] # <<>> /\ r \in Requests
    BY DEF ServerExec
  <1>2. PICK a \in Answers(r) : Serves(s, {r}, a)
    BY DEF ServerExec
  <1>3. a \in Replies(Requests) /\ a.of = r
    <2>1. /\ Value(r) \in Replies(Requests) /\ Value(r).of = r
          /\ ErrorReply(r) \in Replies(Requests) /\ ErrorReply(r).of = r
      BY <1>1 DEF Replies, Value, ErrorReply
    <2>2. a \in {Value(r), ErrorReply(r)}
      BY DEF Answers
    <2> QED
      BY <2>1, <2>2
  <1> QED
    BY <1>1, <1>2, <1>3 DEF Serves

LEMMA ServesTurn ==
    ASSUME NEW f \in Fibers, InTurn(f), NEW s \in Sockets, NEW ran,
           NEW a \in Replies(Requests), a.of = Head(out[s]), Serves(s, ran, a),
           UNCHANGED <<connVars, muxVars>>
    PROVE  InTurn(f)'
  <1>1. /\ out[s] # <<>> /\ out' = [out EXCEPT ![s] = Tail(@)]
        /\ UNCHANGED <<rid, link, wlock, rlock, call, connVars, muxVars>>
    BY DEF Serves
  <1> DEFINE r == Head(out[s])
  <1>2. r \in Requests /\ Tail(out[s]) \in Seq(Requests)
    BY <1>1 DEF InTurn, TypesOK, WireTypeOK
  <1>3. /\ a.of = r /\ a \in Arriving
        /\ inb' = IF link[s] = "up" /\ rid[s] = "open"
                  THEN [inb EXCEPT ![s] = Append(@, a)] ELSE inb
    BY WholeReply DEF Serves
  <1>4. WireTypeOK'
    <2>1. out' \in [Sockets -> Seq(Requests)]
      BY <1>1, <1>2 DEF InTurn, TypesOK, WireTypeOK
    <2>2. inb' \in [Sockets -> Seq(Arriving)]
      BY <1>3 DEF InTurn, TypesOK, WireTypeOK
    <2>3. runs' \in [Commands -> Nat]
      <3>1. runs' = [c \in Commands |-> IF c \in ran THEN runs[c] + 1 ELSE runs[c]]
        BY DEF Serves
      <3> QED
        BY <3>1 DEF InTurn, TypesOK, WireTypeOK
    <2> QED
      BY <1>1, <2>1, <2>2, <2>3 DEF InTurn, TypesOK, WireTypeOK
  <1>5. WireOf(f)'
    <2>1. \A t \in Sockets : t # s => out'[t] = out[t] /\ inb'[t] = inb[t]
      BY <1>1, <1>3 DEF InTurn, TypesOK, WireTypeOK
    <2>2. rid[s] # "unused"
      BY <1>1 DEF InTurn, WireOf
    <2>3. ASSUME rid[s] = "open"
          PROVE  /\ call[f].st \in {"written", "reading"} /\ call[f].sock = s
                 /\ out[s] = <<call[f].req>> /\ inb[s] = <<>>
      BY <1>1, <2>3 DEF InTurn, WireOf
    <2>4. ASSUME rid[s] = "open"
          PROVE  /\ out'[s] = <<>> /\ a.of = call[f].req
                 /\ inb'[s] = <<>> \/ inb'[s] = <<a>>
      <3>1. r = call[f].req
        BY <2>3, <2>4
      <3>2. Tail(out[s]) = <<>>
        BY <1>2, <2>3, <2>4, <3>1, SingletonSeq
      <3>3. Append(inb[s], a) = <<a>>
        BY <2>3, <2>4, SingletonSeq
      <3> QED
        BY <1>1, <1>3, <2>3, <2>4, <3>1, <3>2, <3>3 DEF InTurn, TypesOK, WireTypeOK
    <2> QED
      BY <1>1, <2>1, <2>2, <2>3, <2>4 DEF InTurn, WireOf
  <1>6. /\ isClosed' \in BOOLEAN /\ isConnected' \in BOOLEAN
        /\ UNCHANGED <<cur, isClosed, retryCount, task, muxVars>>
    BY <1>1 DEF InTurn, TypesOK, ConnTypeOK, connVars
  <1> QED
    BY <1>1, <1>4, <1>5, <1>6, OutsideTurn

LEMMA ServerTurn ==
    ASSUME NEW f \in Fibers, InTurn(f), NEW s \in Sockets, ServerExec(s),
           UNCHANGED <<connVars, muxVars>>
    PROVE  InTurn(f)'
  <1>1. out[s] \in Seq(Requests)
    BY DEF InTurn, TypesOK, WireTypeOK
  <1> QED
    BY <1>1, ServerEffect, ServesTurn

LEMMA LinkCutTurn ==
    ASSUME NEW f \in Fibers, InTurn(f), NEW s \in Sockets, LinkCut(s),
           UNCHANGED <<connVars, muxVars>>
    PROVE  InTurn(f)'
  <1>1. /\ link' = [link EXCEPT ![s] = "cut"]
        /\ UNCHANGED <<rid, out, inb, wlock, rlock, call, runs>>
    BY DEF LinkCut
  <1>2. WireTypeOK'
    BY <1>1 DEF InTurn, TypesOK, WireTypeOK
  <1>3. WireOf(f)'
    BY <1>1 DEF InTurn, WireOf
  <1>4. /\ isClosed' \in BOOLEAN /\ isConnected' \in BOOLEAN
        /\ UNCHANGED <<cur, isClosed, retryCount, task, muxVars>>
    BY DEF InTurn, TypesOK, ConnTypeOK, connVars
  <1> QED
    BY <1>1, <1>2, <1>3, <1>4, OutsideTurn

\* close() ends the current socket and no other: afterwards none is open.
LEMMA CloseNowEffect ==
    ASSUME NEW f \in Fibers, InTurn(f), CloseNow
    PROVE  /\ isClosed' = TRUE /\ isConnected' = FALSE
           /\ rid' \in [Sockets -> {"unused", "open", "eof", "reset", "closed"}]
           /\ inb' \in [Sockets -> Seq(Arriving)]
           /\ \A t \in Sockets : /\ rid'[t] # "open"
                                 /\ rid'[t] = "unused" => rid[t] = "unused" /\ inb'[t] = inb[t]
  <1>1. CASE cur # NoSocket /\ rid[cur] = "open"
    <2>1. cur \in Sockets
      BY <1>1 DEF InTurn, TypesOK, ConnTypeOK
    <2>2. rid' = [rid EXCEPT ![cur] = "closed"] /\ inb' = [inb EXCEPT ![cur] = <<>>]
      BY <1>1 DEF CloseNow, CloseSocket
    <2> QED
      BY <2>1, <2>2, EmptyType
      DEF InTurn, TypesOK, WireTypeOK, SocketsOf, CloseNow
  <1>2. CASE ~ (cur # NoSocket /\ rid[cur] = "open")
    <2>1. UNCHANGED <<rid, inb>>
      BY <1>2 DEF CloseNow, CloseSocket
    <2>2. \A t \in Sockets : rid[t] # "open"
      <3>1. NoSocket \notin Sockets
        BY WireAssumption DEF NoSocket, Sockets
      <3> QED
        BY <1>2, <3>1 DEF InTurn, SocketsOf
    <2> QED
      BY <2>1, <2>2 DEF InTurn, TypesOK, WireTypeOK, CloseNow
  <1> QED
    BY <1>1, <1>2

LEMMA CloseTurn ==
    ASSUME NEW f \in Fibers, InTurn(f), CloseNow,
           UNCHANGED <<link, out, wlock, rlock, call, runs, cur, retryCount, task, muxVars>>
    PROVE  InTurn(f)'
  <1>1. WireTypeOK'
    BY CloseNowEffect DEF InTurn, TypesOK, WireTypeOK
  <1>2. WireOf(f)'
    BY CloseNowEffect DEF InTurn, WireOf
  <1> QED
    BY <1>1, <1>2, CloseNowEffect, OutsideTurn

-----------------------------------------------------------------------------
(* The steps of connect(), reconnect() and dequeue(), which replace the    *)
(* fibre's call: none is under way when they happen.                       *)

\* What a step finds that begins when no call of f is under way.
LEMMA BetweenCalls ==
    ASSUME NEW f \in Fibers, InTurn(f), call[f].st \in {"idle", "done"}
    PROVE  /\ NoLocks
           /\ \A s \in Sockets : rid[s] \in {"unused", "open"} => out[s] = <<>> /\ inb[s] = <<>>
  BY DEF InTurn, LocksOf, WireOf, NoLocks

LEMMA SendStarts ==
    ASSUME NEW f \in Fibers, InTurn(f), call[f].st \in {"idle", "done"},
           NEW s \in Sockets \cup {NoSocket}, NEW r \in Requests, Send(f, s, r, wlock)
    PROVE  /\ call' \in [Fibers -> Calls] /\ wlock' \in [Sockets -> Fibers \cup {None}]
           /\ Started(f, r) /\ SameCalls(f)
  BY FibreTypes, BetweenCalls, SendEffect DEF InTurn, TypesOK, WireTypeOK

LEMMA NoCallStarts ==
    ASSUME NEW f \in Fibers, InTurn(f), call[f].st \in {"idle", "done"},
           call' = [call EXCEPT ![f] = NoCall], UNCHANGED wlock
    PROVE  /\ call' \in [Fibers -> Calls] /\ wlock' \in [Sockets -> Fibers \cup {None}]
           /\ Stopped(f) /\ SameCalls(f)
  BY FibreTypes, NoCallType, BetweenCalls
  DEF InTurn, TypesOK, WireTypeOK, Stopped, SameCalls, NoLocks

\* Between two calls no open socket carries anything, so that whatever the
\* fibre calls next it will find its own reply.
LEMMA NextCallTurn ==
    ASSUME NEW f \in Fibers, InTurn(f), call[f].st \in {"idle", "done"},
           Stopped(f) \/ \E r \in Requests : Started(f, r),
           \A s \in Sockets : rid'[s] \in {"unused", "open"} =>
               rid[s] \in {"unused", "open"} /\ inb'[s] = inb[s],
           UNCHANGED <<out, rlock>>
    PROVE  CallOf(f)' /\ LocksOf(f)' /\ WireOf(f)'
  <1>1. \A s \in Sockets : rid'[s] \in {"unused", "open"} => out'[s] = <<>> /\ inb'[s] = <<>>
    BY BetweenCalls
  <1>2. \A s \in Sockets : rlock'[s] = None
    BY BetweenCalls DEF NoLocks
  <1>3. /\ Fault("TypeError") \in Outcomes(Requests)
        /\ Fault("TypeError").kind = "fault"
    BY OutcomeType DEF FaultKinds
  <1>4. CASE Stopped(f)
    BY <1>1, <1>2, <1>4 DEF CallOf, LocksOf, WireOf, Stopped
  <1>5. ASSUME NEW r \in Requests, Started(f, r) PROVE CallOf(f)' /\ LocksOf(f)' /\ WireOf(f)'
    BY <1>1, <1>2, <1>3, <1>5 DEF CallOf, LocksOf, WireOf, Started
  <1> QED
    BY <1>4, <1>5

\* The names of the handshake and PING are requests no caller makes.
LEMMA InternalRequests ==
    /\ "PING" \in Requests \ Commands /\ "PING" \in Internal
    /\ \A i \in 1 .. Len(Hello) : Hello[i] \in Requests \ Commands /\ Hello[i] \in Internal
    /\ Len(Hello) \in Nat
    /\ Hello # <<>> => 1 \in 1 .. Len(Hello)
    /\ Internal \cap Commands = {}
  BY ConnectionAssumption DEF Internal

LEMMA ConnectedEffect ==
    ASSUME NEW f \in Fibers, InTurn(f), call[f].st \in {"idle", "done"},
           NEW s \in Sockets \cup {NoSocket}, Connected(f, s, wlock)
    PROVE  /\ retryCount' = 0
           /\ task' \in [Fibers -> Tasks] /\ task'[f].dials = task[f].dials /\ SameTasks(f)
           /\ call' \in [Fibers -> Calls] /\ SameCalls(f)
           /\ wlock' \in [Sockets -> Fibers \cup {None}]
           /\ \/ task'[f].pc = "reping" /\ Started(f, "PING")
              \/ task'[f].pc = "ok" /\ Stopped(f)
  <1>1. ASSUME NEW p \in TaskStates, task' = [task EXCEPT ![f].pc = p]
        PROVE  /\ task' \in [Fibers -> Tasks] /\ task'[f].pc = p
               /\ task'[f].dials = task[f].dials /\ SameTasks(f)
    BY <1>1, FibreTypes DEF Tasks, SameTasks
  <1>2. "reping" \in TaskStates /\ "ok" \in TaskStates
    BY DEF TaskStates
  <1>3. CASE task[f].mode = "reconnect"
    BY <1>1, <1>2, <1>3, SendStarts, InternalRequests DEF Connected
  <1>4. CASE task[f].mode # "reconnect"
    BY <1>1, <1>2, <1>4, NoCallStarts DEF Connected
  <1> QED
    BY <1>3, <1>4

\* Either a retry that the budget allows, or the error is passed on.
LEMMA CatchEffect ==
    ASSUME NEW f \in Fibers, InTurn(f), NEW o \in Outcomes(Requests),
           call[f].st \in {"idle", "done"}, task[f].pc \in {"dialing", "hello"},
           ConnectCatches(f, o), UNCHANGED wlock
    PROVE  /\ task' \in [Fibers -> Tasks] /\ task'[f].dials <= MaxRetryCount + 1
           /\ SameTasks(f) /\ SameCalls(f)
           /\ call' \in [Fibers -> Calls] /\ Stopped(f)
           /\ wlock' \in [Sockets -> Fibers \cup {None}]
           /\ retryCount' \in 0 .. MaxRetryCount
           /\ \/ task'[f].pc = "failed" /\ task'[f].err = o /\ retryCount' = 0
              \/ task'[f].pc = "delay" /\ task'[f].dials = retryCount'
  <1>1. /\ task[f].dials = retryCount + 1 /\ task[f].dials \in Nat
        /\ retryCount \in 0 .. MaxRetryCount /\ MaxRetryCount \in Nat
    BY FibreTypes, ConnectionAssumption DEF InTurn, TypesOK, ConnTypeOK, BudgetOf, Tasks
  <1>2. /\ call' \in [Fibers -> Calls] /\ Stopped(f) /\ SameCalls(f)
        /\ wlock' \in [Sockets -> Fibers \cup {None}]
    BY NoCallStarts DEF ConnectCatches
  <1>3. CASE o = Fault("Authentication") \/ retryCount >= MaxRetryCount
    <2>1. /\ task' = [task EXCEPT ![f] = [@ EXCEPT !.pc = "failed", !.err = o]]
          /\ retryCount' = 0
      BY <1>3 DEF ConnectCatches
    <2>2. /\ task' \in [Fibers -> Tasks] /\ task'[f].pc = "failed" /\ task'[f].err = o
          /\ task'[f].dials = task[f].dials /\ SameTasks(f)
      BY <2>1, FibreTypes DEF Tasks, TaskStates, SameTasks
    <2> QED
      BY <1>1, <1>2, <2>1, <2>2
  <1>4. CASE ~ (o = Fault("Authentication") \/ retryCount >= MaxRetryCount)
    <2>1. /\ task' = [task EXCEPT ![f] = [@ EXCEPT !.pc = "delay"]]
          /\ retryCount' = retryCount + 1
      BY <1>4 DEF ConnectCatches
    <2>2. /\ task' \in [Fibers -> Tasks] /\ task'[f].pc = "delay"
          /\ task'[f].dials = task[f].dials /\ SameTasks(f)
      BY <2>1, FibreTypes DEF Tasks, TaskStates, SameTasks
    <2> QED
      BY <1>1, <1>2, <1>4, <2>1, <2>2
  <1> QED
    BY <1>3, <1>4

LEMMA FailedCall ==
    ASSUME NEW f \in Fibers, InTurn(f), call[f].st = "done", ~ IsAnswer(call[f].res),
           call[f].req \in Internal
    PROVE  PassedOn(call[f].res)
  <1>1. call[f].res \in Outcomes(Requests)
    BY DEF InTurn, CallOf
  <1>2. call[f].res.kind = "fault" \/ call[f].res.of = call[f].req
    BY DEF InTurn, WireOf
  <1>3. call[f].res.kind \in {"fault", "errorReply"}
    BY <1>1 DEF Outcomes, IsAnswer
  <1> QED
    BY <1>1, <1>2, <1>3 DEF PassedOn

\* A fibre in connect() or reconnect() that goes on inside it: what is left to
\* show of such a step are its effects on the sockets, the counter and the task.
LEMMA ConnTurn ==
    ASSUME NEW f \in Fibers, InTurn(f), task[f].pc # "idle", call[f].st \in {"idle", "done"},
           task' \in [Fibers -> Tasks], call' \in [Fibers -> Calls],
           SameTasks(f), SameCalls(f),
           wlock' \in [Sockets -> Fibers \cup {None}],
           rid' \in [Sockets -> {"unused", "open", "eof", "reset", "closed"}],
           inb' \in [Sockets -> Seq(Arriving)],
           retryCount' \in 0 .. MaxRetryCount, cur' \in Sockets \cup {NoSocket},
           isClosed' \in BOOLEAN, isConnected' \in BOOLEAN,
           UNCHANGED <<link, out, rlock, runs, muxVars>>,
           \A s \in Sockets : rid'[s] \in {"unused", "open"} =>
               rid[s] \in {"unused", "open"} /\ inb'[s] = inb[s],
           SocketsOf(f)', BudgetOf(f)',
           \/ task'[f].pc \in {"dialing", "delay", "ok"} /\ Stopped(f)
           \/ task'[f].pc = "failed" /\ Stopped(f) /\ PassedOn(task'[f].err)
           \/ task'[f].pc = "hello" /\ task'[f].step \in 1 .. Len(Hello)
                  /\ Started(f, Hello[task'[f].step])
           \/ task'[f].pc \in {"ping", "reping"} /\ Started(f, "PING")
    PROVE  InTurn(f)'
  <1>1. TypesOK'
    BY DEF InTurn, TypesOK, WireTypeOK, ConnTypeOK, MuxTypeOK, muxVars
  <1>2. CallOf(f)' /\ LocksOf(f)' /\ WireOf(f)'
    <2>1. Stopped(f) \/ \E r \in Requests : Started(f, r)
      BY InternalRequests
    <2> QED
      BY <2>1, NextCallTurn
  <1>3. TaskOf(f)'
    BY DEF TaskOf, Started, Stopped
  <1>4. QueueWorks'
    <2>1. CASE f = Mux
      BY <2>1 DEF InTurn, QueueWorks, muxVars
    <2>2. CASE f # Mux
      BY <2>2, FibreTypes DEF InTurn, QueueWorks, SameCalls, SameTasks, muxVars
    <2> QED
      BY <2>1, <2>2
  <1>5. ErrorsOf(f)' /\ OwnReplies'
    BY DEF InTurn, ErrorsOf, OwnReplies, PassedOn, muxVars
  <1>6. Others(f)'
    BY DEF InTurn, Others, Rests, SameCalls, SameTasks
  <1> QED
    BY <1>1, <1>2, <1>3, <1>4, <1>5, <1>6 DEF InTurn

\* What a socket keeps of its type and of its last bytes when it stays open.
LEMMA SameSockets ==
    ASSUME NEW f \in Fibers, InTurn(f), UNCHANGED <<rid, inb>>
    PROVE  /\ rid' \in [Sockets -> {"unused", "open", "eof", "reset", "closed"}]
           /\ inb' \in [Sockets -> Seq(Arriving)]
           /\ \A s \in Sockets : rid'[s] \in {"unused", "open"} =>
                  rid[s] \in {"unused", "open"} /\ inb'[s] = inb[s]
  BY DEF InTurn, TypesOK, WireTypeOK

LEMMA DialOkTurn ==
    ASSUME NEW f \in Fibers, InTurn(f), DialOk(f), UNCHANGED muxVars
    PROVE  InTurn(f)'
  <1>1. /\ task[f].pc = "dialing" /\ call[f].st = "idle"
        /\ isClosed' = FALSE /\ isConnected' = TRUE
        /\ UNCHANGED <<link, out, inb, rlock, runs>>
    BY DEF DialOk, InTurn, TaskOf
  <1>2. PICK s \in Sockets :
          /\ rid[s] = "unused" /\ rid' = [rid EXCEPT ![s] = "open"] /\ cur' = s
          /\ IF Hello = <<>>
             THEN Connected(f, s, wlock)
             ELSE /\ task' = [task EXCEPT ![f].pc = "hello", ![f].step = 1]
                  /\ Send(f, s, Hello[1], wlock)
                  /\ UNCHANGED retryCount
    BY DEF DialOk, IsFresh
  <1>3. /\ rid' \in [Sockets -> {"unused", "open", "eof", "reset", "closed"}]
        /\ \A t \in Sockets : t # s => rid'[t] = rid[t] /\ rid[t] # "open"
    BY <1>1, <1>2 DEF InTurn, TypesOK, WireTypeOK, SocketsOf
  <1>4. \A t \in Sockets : rid'[t] \in {"unused", "open"} =>
          rid[t] \in {"unused", "open"} /\ inb'[t] = inb[t]
    BY <1>1, <1>2, <1>3
  <1>5. inb' \in [Sockets -> Seq(Arriving)]
    BY <1>1 DEF InTurn, TypesOK, WireTypeOK
  <1>6. /\ task[f].dials = retryCount + 1 /\ task[f].dials <= MaxRetryCount + 1
        /\ retryCount \in 0 .. MaxRetryCount
    BY <1>1 DEF InTurn, BudgetOf, TypesOK, ConnTypeOK
  <1>7. 0 \in 0 .. MaxRetryCount
    BY ConnectionAssumption
  <1>8. CASE Hello = <<>>
    <2>1. Connected(f, s, wlock)
      BY <1>2, <1>8
    <2>2. SocketsOf(f)'
      BY <1>1, <1>2, <1>3, <2>1, ConnectedEffect DEF SocketsOf
    <2>3. BudgetOf(f)'
      BY <1>1, <1>6, <2>1, ConnectedEffect DEF BudgetOf
    <2>4. /\ task' \in [Fibers -> Tasks] /\ SameTasks(f) /\ call' \in [Fibers -> Calls] /\ SameCalls(f)
          /\ wlock' \in [Sockets -> Fibers \cup {None}] /\ retryCount' = 0
          /\ \/ task'[f].pc = "reping" /\ Started(f, "PING")
             \/ task'[f].pc = "ok" /\ Stopped(f)
      BY <1>1, <2>1, ConnectedEffect
    <2> QED
      BY <1>1, <1>2, <1>3, <1>4, <1>5, <1>7, <2>2, <2>3, <2>4, ConnTurn
  <1>9. CASE Hello # <<>>
    <2>1. /\ task' = [task EXCEPT ![f].pc = "hello", ![f].step = 1]
          /\ Send(f, s, Hello[1], wlock) /\ retryCount' = retryCount
      BY <1>2, <1>9
    <2>2. /\ task' \in [Fibers -> Tasks] /\ SameTasks(f) /\ task'[f].pc = "hello" /\ task'[f].step = 1
          /\ task'[f].dials = task[f].dials /\ 1 \in 1 .. Len(Hello)
      <3>1. 1 \in 1 .. Len(Hello) /\ 1 \in 0 .. Len(Hello)
        BY <1>9, InternalRequests
      <3>2. task' = [task EXCEPT ![f] = [task[f] EXCEPT !.pc = "hello", !.step = 1]]
        BY <2>1, FibreTypes
      <3> QED
        BY <3>1, <3>2, FibreTypes DEF Tasks, TaskStates, SameTasks
    <2>3. /\ call' \in [Fibers -> Calls] /\ SameCalls(f) /\ Started(f, Hello[1])
          /\ wlock' \in [Sockets -> Fibers \cup {None}]
      BY <1>1, <2>1, <2>2, SendStarts, InternalRequests
    <2>4. SocketsOf(f)'
      BY <1>1, <1>2, <1>3, <2>2 DEF SocketsOf
    <2>5. BudgetOf(f)'
      BY <1>6, <2>1, <2>2 DEF BudgetOf
    <2> QED
      BY <1>1, <1>2, <1>3, <1>4, <1>5, <1>6, <2>1, <2>2, <2>3, <2>4, <2>5, ConnTurn
  <1> QED
    BY <1>8, <1>9

LEMMA DialFailsTurn ==
    ASSUME NEW f \in Fibers, InTurn(f), DialFails(f), UNCHANGED muxVars
    PROVE  InTurn(f)'
  <1>1. /\ task[f].pc = "dialing" /\ call[f].st = "idle"
        /\ UNCHANGED <<cur, isClosed, isConnected, rid, link, out, inb, wlock, rlock, runs>>
    BY DEF DialFails, InTurn, TaskOf
  <1>2. PassedOn(Fault("ConnectionRefused"))
    BY OutcomeType DEF FaultKinds, PassedOn
  <1>3. ConnectCatches(f, Fault("ConnectionRefused"))
    BY DEF DialFails
  <1>4. SocketsOf(f)' /\ BudgetOf(f)'
    BY <1>1, <1>2, <1>3, CatchEffect DEF InTurn, SocketsOf, BudgetOf, PassedOn
  <1>5. /\ wlock' \in [Sockets -> Fibers \cup {None}] /\ cur' \in Sockets \cup {NoSocket}
        /\ isClosed' \in BOOLEAN /\ isConnected' \in BOOLEAN
    BY <1>1 DEF InTurn, TypesOK, WireTypeOK, ConnTypeOK
  <1>6. PassedOn(Fault("ConnectionRefused")) /\ Fault("ConnectionRefused") \in Outcomes(Requests)
    BY <1>2 DEF PassedOn
  <1> QED
    BY <1>1, <1>3, <1>4, <1>5, <1>6, SameSockets, CatchEffect, ConnTurn

LEMMA HelloStepTurn ==
    ASSUME NEW f \in Fibers, InTurn(f), HelloStep(f), UNCHANGED muxVars
    PROVE  InTurn(f)'
  <1>1. /\ task[f].pc = "hello" /\ call[f].st = "done"
        /\ UNCHANGED <<cur, isClosed, isConnected, rid, link, out, inb, rlock, runs>>
    BY DEF HelloStep, CallDone
  <1>2. /\ cur \in Sockets \cup {NoSocket} /\ cur' \in Sockets \cup {NoSocket}
        /\ isClosed' \in BOOLEAN /\ isConnected' \in BOOLEAN
    BY <1>1 DEF InTurn, TypesOK, ConnTypeOK
  <1>3. /\ task[f].dials = retryCount + 1 /\ task[f].dials <= MaxRetryCount + 1
        /\ retryCount \in 0 .. MaxRetryCount /\ 0 \in 0 .. MaxRetryCount
    BY <1>1, ConnectionAssumption DEF InTurn, BudgetOf, TypesOK, ConnTypeOK
  <1>4. task[f].step \in 1 .. Len(Hello)
    BY <1>1 DEF InTurn, TaskOf
  <1>5. CASE task[f].step < Len(Hello)
    <2>1. /\ task' = [task EXCEPT ![f].step = @ + 1] /\ retryCount' = retryCount
          /\ Send(f, cur, Hello[task[f].step + 1], wlock)
      BY <1>5 DEF HelloStep
    <2>2. /\ task[f].step + 1 \in 1 .. Len(Hello)
          /\ task[f].step + 1 \in 0 .. Len(Hello)
      BY <1>4, <1>5, InternalRequests
    <2>3. /\ task' \in [Fibers -> Tasks] /\ SameTasks(f) /\ task'[f].pc = "hello"
          /\ task'[f].step = task[f].step + 1 /\ task'[f].dials = task[f].dials
      BY <1>1, <2>1, <2>2, FibreTypes DEF Tasks, SameTasks
    <2>4. /\ call' \in [Fibers -> Calls] /\ SameCalls(f) /\ Started(f, Hello[task'[f].step])
          /\ wlock' \in [Sockets -> Fibers \cup {None}]
      BY <1>1, <1>2, <2>1, <2>2, <2>3, SendStarts, InternalRequests
    <2>5. SocketsOf(f)' /\ BudgetOf(f)'
      BY <1>1, <1>3, <2>1, <2>3 DEF InTurn, SocketsOf, BudgetOf
    <2> QED
      BY <1>1, <1>2, <1>3, <2>1, <2>2, <2>3, <2>4, <2>5, SameSockets, ConnTurn
  <1>6. CASE ~ (task[f].step < Len(Hello))
    <2>1. Connected(f, cur, wlock)
      BY <1>6 DEF HelloStep
    <2>2. /\ task' \in [Fibers -> Tasks] /\ SameTasks(f) /\ call' \in [Fibers -> Calls] /\ SameCalls(f)
          /\ wlock' \in [Sockets -> Fibers \cup {None}] /\ retryCount' = 0
          /\ task'[f].dials = task[f].dials
          /\ \/ task'[f].pc = "reping" /\ Started(f, "PING")
             \/ task'[f].pc = "ok" /\ Stopped(f)
      BY <1>1, <1>2, <2>1, ConnectedEffect
    <2>3. SocketsOf(f)' /\ BudgetOf(f)'
      BY <1>1, <1>3, <2>2 DEF InTurn, SocketsOf, BudgetOf
    <2> QED
      BY <1>1, <1>2, <1>3, <2>2, <2>3, SameSockets, ConnTurn
  <1> QED
    BY <1>5, <1>6

LEMMA HelloFailsTurn ==
    ASSUME NEW f \in Fibers, InTurn(f), HelloFails(f), UNCHANGED muxVars
    PROVE  InTurn(f)'
  <1> DEFINE o == IF call[f].res.kind = "errorReply" /\ Hello[task[f].step] = "AUTH"
                  THEN Fault("Authentication") ELSE call[f].res
  <1>1. /\ task[f].pc = "hello" /\ call[f].st = "done" /\ ~ IsAnswer(call[f].res)
        /\ CloseNow /\ ConnectCatches(f, o)
        /\ UNCHANGED <<cur, link, out, wlock, rlock, runs>>
    BY DEF HelloFails, CallDone
  <1>2. PassedOn(o)
    <2>1. call[f].req \in Internal
      BY <1>1, InternalRequests DEF InTurn, TaskOf
    <2>2. PassedOn(call[f].res)
      BY <1>1, <2>1, FailedCall
    <2>3. PassedOn(Fault("Authentication"))
      BY OutcomeType DEF FaultKinds, PassedOn
    <2> QED
      BY <2>2, <2>3
  <1>3. o \in Outcomes(Requests)
    BY <1>2 DEF PassedOn
  <1>4. /\ wlock' \in [Sockets -> Fibers \cup {None}] /\ cur' \in Sockets \cup {NoSocket}
    BY <1>1 DEF InTurn, TypesOK, WireTypeOK, ConnTypeOK
  <1>5. /\ task' \in [Fibers -> Tasks] /\ SameTasks(f) /\ task'[f].dials <= MaxRetryCount + 1
        /\ call' \in [Fibers -> Calls] /\ SameCalls(f) /\ Stopped(f)
        /\ retryCount' \in 0 .. MaxRetryCount
        /\ \/ task'[f].pc = "failed" /\ task'[f].err = o /\ retryCount' = 0
           \/ task'[f].pc = "delay" /\ task'[f].dials = retryCount'
    BY <1>1, <1>3, CatchEffect
  <1>6. /\ isClosed' = TRUE /\ isConnected' = FALSE
        /\ rid' \in [Sockets -> {"unused", "open", "eof", "reset", "closed"}]
        /\ inb' \in [Sockets -> Seq(Arriving)]
        /\ \A t \in Sockets : /\ rid'[t] # "open"
                              /\ rid'[t] = "unused" => rid[t] = "unused" /\ inb'[t] = inb[t]
    BY <1>1, CloseNowEffect
  <1>7. SocketsOf(f)' /\ BudgetOf(f)'
    BY <1>5, <1>6 DEF SocketsOf, BudgetOf
  <1> QED
    BY <1>1, <1>2, <1>4, <1>5, <1>6, <1>7, ConnTurn

LEMMA DelayOverTurn ==
    ASSUME NEW f \in Fibers, InTurn(f), DelayOver(f), UNCHANGED muxVars
    PROVE  InTurn(f)'
  <1>1. /\ task[f].pc = "delay" /\ call[f].st = "idle"
        /\ task' = [task EXCEPT ![f] = [task[f] EXCEPT !.pc = "dialing", !.dials = @ + 1]]
        /\ UNCHANGED <<cur, isClosed, isConnected, retryCount, wireVars>>
    BY DEF DelayOver, InTurn, TaskOf
  <1>2. /\ task[f].dials = retryCount /\ retryCount \in 0 .. MaxRetryCount
        /\ MaxRetryCount \in Nat /\ task[f].dials \in Nat
    BY <1>1, FibreTypes, ConnectionAssumption DEF InTurn, BudgetOf, TypesOK, ConnTypeOK, Tasks
  <1>3. /\ task' \in [Fibers -> Tasks] /\ SameTasks(f) /\ task'[f].pc = "dialing"
        /\ task'[f].dials = task[f].dials + 1
    <2> DEFINE t == [task[f] EXCEPT !.pc = "dialing", !.dials = @ + 1]
    <2>1. task[f] \in Tasks /\ task[f].dials + 1 \in Nat
      BY <1>2, FibreTypes
    <2>2. t \in Tasks /\ t.pc = "dialing" /\ t.dials = task[f].dials + 1
      BY <2>1 DEF Tasks, TaskStates
    <2>3. task' = [task EXCEPT ![f] = t]
      BY <1>1
    <2> HIDE DEF t
    <2> QED
      BY <2>2, <2>3, FibreTypes DEF SameTasks
  <1>4. SocketsOf(f)' /\ BudgetOf(f)'
    BY <1>1, <1>2, <1>3 DEF InTurn, SocketsOf, BudgetOf, wireVars
  <1>5. /\ cur' \in Sockets \cup {NoSocket} /\ isClosed' \in BOOLEAN
        /\ isConnected' \in BOOLEAN /\ retryCount' \in 0 .. MaxRetryCount
        /\ wlock' \in [Sockets -> Fibers \cup {None}]
        /\ call' \in [Fibers -> Calls] /\ SameCalls(f) /\ Stopped(f)
    BY <1>1, BetweenCalls
    DEF InTurn, TypesOK, WireTypeOK, ConnTypeOK, wireVars, Stopped, SameCalls, NoLocks
  <1>6. UNCHANGED <<rid, link, out, inb, rlock, runs>>
    BY <1>1 DEF wireVars
  <1> QED
    BY <1>1, <1>3, <1>4, <1>5, <1>6, SameSockets, ConnTurn

LEMMA PingOkTurn ==
    ASSUME NEW f \in Fibers, InTurn(f), PingOk(f), UNCHANGED muxVars
    PROVE  InTurn(f)'
  <1>1. /\ task[f].pc = "ping" /\ call[f].st = "done" /\ isConnected' = TRUE
        /\ task' = [task EXCEPT ![f].pc = "ok"]
        /\ call' = [call EXCEPT ![f] = NoCall]
        /\ UNCHANGED <<cur, isClosed, retryCount, rid, link, out, inb, wlock, rlock, runs>>
    BY DEF PingOk, CallDone, EndCall
  <1>2. /\ task' \in [Fibers -> Tasks] /\ SameTasks(f) /\ task'[f].pc = "ok"
        /\ task'[f].dials = task[f].dials
    BY <1>1, FibreTypes DEF Tasks, TaskStates, SameTasks
  <1>3. SocketsOf(f)' /\ BudgetOf(f)'
    BY <1>1, <1>2 DEF InTurn, SocketsOf, BudgetOf
  <1>4. /\ cur' \in Sockets \cup {NoSocket} /\ isClosed' \in BOOLEAN
        /\ isConnected' \in BOOLEAN /\ retryCount' \in 0 .. MaxRetryCount
        /\ wlock' \in [Sockets -> Fibers \cup {None}]
    BY <1>1 DEF InTurn, TypesOK, WireTypeOK, ConnTypeOK
  <1> QED
    BY <1>1, <1>2, <1>3, <1>4, SameSockets, NoCallStarts, ConnTurn

LEMMA PingFailsTurn ==
    ASSUME NEW f \in Fibers, InTurn(f), PingFails(f), UNCHANGED muxVars
    PROVE  InTurn(f)'
  <1>1. /\ task[f].pc = "ping" /\ call[f].st = "done" /\ CloseNow
        /\ task' = [task EXCEPT ![f] = [NoTask EXCEPT !.pc = "dialing", !.mode = "reconnect",
                                                        !.dials = 1]]
        /\ call' = [call EXCEPT ![f] = NoCall]
        /\ UNCHANGED <<cur, retryCount, link, out, wlock, rlock, runs>>
    BY DEF PingFails, CallDone, EndCall, StartConnect
  <1>2. task' \in [Fibers -> Tasks] /\ SameTasks(f) /\ task'[f].pc = "dialing" /\ task'[f].dials = 1
    BY <1>1, FibreTypes, NoTaskType DEF Tasks, TaskStates, SameTasks
  <1>3. retryCount = 0 /\ 0 \in 0 .. MaxRetryCount /\ 1 <= MaxRetryCount + 1
    BY <1>1, ConnectionAssumption DEF InTurn, BudgetOf
  <1>4. SocketsOf(f)' /\ BudgetOf(f)'
    <2>1. SocketsOf(f)'
      BY <1>1, CloseNowEffect DEF SocketsOf
    <2> QED
      BY <1>1, <1>2, <1>3, <2>1 DEF BudgetOf
  <1>5. wlock' \in [Sockets -> Fibers \cup {None}] /\ cur' \in Sockets \cup {NoSocket}
    BY <1>1 DEF InTurn, TypesOK, WireTypeOK, ConnTypeOK
  <1>6. /\ isClosed' = TRUE /\ isConnected' = FALSE
        /\ rid' \in [Sockets -> {"unused", "open", "eof", "reset", "closed"}]
        /\ inb' \in [Sockets -> Seq(Arriving)]
        /\ \A t \in Sockets : /\ rid'[t] # "open"
                              /\ rid'[t] = "unused" => rid[t] = "unused" /\ inb'[t] = inb[t]
    BY <1>1, CloseNowEffect
  <1> QED
    BY <1>1, <1>2, <1>3, <1>4, <1>5, <1>6, NoCallStarts, ConnTurn

LEMMA RePingTurn ==
    ASSUME NEW f \in Fibers, InTurn(f), RePing(f), UNCHANGED muxVars
    PROVE  InTurn(f)'
  <1>1. /\ task[f].pc = "reping" /\ call[f].st = "done"
        /\ call' = [call EXCEPT ![f] = NoCall]
        /\ UNCHANGED <<cur, isClosed, isConnected, retryCount, rid, link, out, inb, wlock,
                       rlock, runs>>
    BY DEF RePing, CallDone, EndCall
  <1>2. /\ task' \in [Fibers -> Tasks] /\ SameTasks(f) /\ task'[f].dials = task[f].dials
        /\ \/ task'[f].pc = "ok"
           \/ task'[f].pc = "failed" /\ PassedOn(task'[f].err)
    <2>1. CASE IsAnswer(call[f].res)
      <3>1. task' = [task EXCEPT ![f] = [@ EXCEPT !.pc = "ok"]]
        BY <2>1 DEF RePing
      <3> QED
        BY <3>1, FibreTypes DEF Tasks, TaskStates, SameTasks
    <2>2. CASE ~ IsAnswer(call[f].res)
      <3>1. task' = [task EXCEPT ![f] = [@ EXCEPT !.pc = "failed", !.err = call[f].res]]
        BY <2>2 DEF RePing
      <3>2. call[f].req \in Internal
        BY <1>1, InternalRequests DEF InTurn, TaskOf
      <3>3. PassedOn(call[f].res) /\ call[f].res \in Outcomes(Requests)
        BY <1>1, <2>2, <3>2, FailedCall DEF PassedOn
      <3> QED
        BY <3>1, <3>3, FibreTypes DEF Tasks, TaskStates, SameTasks
    <2> QED
      BY <2>1, <2>2
  <1>3. SocketsOf(f)' /\ BudgetOf(f)'
    BY <1>1, <1>2 DEF InTurn, SocketsOf, BudgetOf
  <1>4. /\ cur' \in Sockets \cup {NoSocket} /\ isClosed' \in BOOLEAN
        /\ isConnected' \in BOOLEAN /\ retryCount' \in 0 .. MaxRetryCount
        /\ wlock' \in [Sockets -> Fibers \cup {None}]
    BY <1>1 DEF InTurn, TypesOK, WireTypeOK, ConnTypeOK
  <1> QED
    BY <1>1, <1>2, <1>3, <1>4, SameSockets, NoCallStarts, ConnTurn

LEMMA ConnStepTurn ==
    ASSUME NEW f \in Fibers, InTurn(f), ConnStep(f), UNCHANGED muxVars
    PROVE  InTurn(f)'
  BY DialOkTurn, DialFailsTurn, HelloStepTurn, HelloFailsTurn, DelayOverTurn, PingOkTurn,
     PingFailsTurn, RePingTurn
  DEF ConnStep

\* dequeue() at rest, at work on the head, or in reconnect(): what is left to
\* show of a step that takes it from one to another.
LEMMA MuxTurn ==
    ASSUME InTurn(Mux), call[Mux].st \in {"idle", "done"},
           task[Mux].pc \in {"idle", "ok", "failed"},
           queue' \in Seq(Commands), isProcessing' \in BOOLEAN,
           settled' \in [Commands -> Outcomes(Requests) \cup {None}],
           retries' \in [Commands -> Nat], OwnReplies',
           task' \in [Fibers -> Tasks], SameTasks(Mux), task'[Mux].dials <= MaxRetryCount + 1,
           call' \in [Fibers -> Calls], SameCalls(Mux),
           wlock' \in [Sockets -> Fibers \cup {None}],
           UNCHANGED <<cur, isClosed, isConnected, retryCount, rid, link, out, inb, rlock, runs>>,
           \/ /\ queue' = <<>> /\ ~ isProcessing'
              /\ task'[Mux].pc = "idle" /\ Stopped(Mux)
           \/ /\ queue' # <<>> /\ isProcessing'
              /\ \/ task'[Mux].pc = "idle" /\ Started(Mux, Head(queue'))
                 \/ task'[Mux].pc = "ping" /\ Started(Mux, "PING")
                 \/ task'[Mux].pc = "failed" /\ Stopped(Mux) /\ PassedOn(task'[Mux].err)
    PROVE  InTurn(Mux)' /\ MuxRests'
  <1>1. TypesOK'
    BY DEF InTurn, TypesOK, WireTypeOK, ConnTypeOK, MuxTypeOK
  <1>2. CallOf(Mux)' /\ LocksOf(Mux)' /\ WireOf(Mux)'
    <2>1. queue' # <<>> => Head(queue') \in Requests
      BY WireAssumption
    <2>2. Stopped(Mux) \/ \E r \in Requests : Started(Mux, r)
      BY <2>1, InternalRequests
    <2>3. Mux \in Fibers
      BY MuxAssumption
    <2> QED
      BY <2>2, <2>3, SameSockets, NextCallTurn
  <1>3. TaskOf(Mux)'
    BY DEF TaskOf, Started, Stopped
  <1>4. QueueWorks' /\ MuxRests'
    BY DEF QueueWorks, MuxRests, Started, Stopped
  <1>5. BudgetOf(Mux)' /\ SocketsOf(Mux)'
    BY ConnectionAssumption DEF InTurn, BudgetOf, SocketsOf
  <1>6. ErrorsOf(Mux)'
    BY DEF ErrorsOf
  <1>7. Others(Mux)'
    BY DEF InTurn, Others, Rests, SameCalls, SameTasks
  <1> QED
    BY <1>1, <1>2, <1>3, <1>4, <1>5, <1>6, <1>7 DEF InTurn

LEMMA DequeueEffect ==
    ASSUME InTurn(Mux), call[Mux].st \in {"idle", "done"}, NEW q \in Seq(Commands), Dequeue(q)
    PROVE  /\ call' \in [Fibers -> Calls] /\ SameCalls(Mux)
           /\ wlock' \in [Sockets -> Fibers \cup {None}]
           /\ isProcessing' \in BOOLEAN
           /\ \/ q = <<>> /\ ~ isProcessing' /\ Stopped(Mux)
              \/ q # <<>> /\ isProcessing' /\ Started(Mux, Head(q))
  <1>1. Mux \in Fibers
    BY MuxAssumption
  <1>2. CASE q = <<>>
    BY <1>1, <1>2, NoCallStarts DEF Dequeue, EndCall
  <1>3. CASE q # <<>>
    <2>1. Head(q) \in Requests /\ cur \in Sockets \cup {NoSocket}
      BY <1>3, WireAssumption DEF InTurn, TypesOK, ConnTypeOK
    <2> QED
      BY <1>1, <1>3, <2>1, SendStarts DEF Dequeue
  <1> QED
    BY <1>2, <1>3

\* The head settles with its own reply or with an error that is nobody's reply.
LEMMA SettleHeadEffect ==
    ASSUME InTurn(Mux), call[Mux].st \in {"idle", "done"}, NEW o \in Outcomes(Requests),
           isProcessing, SettleHead(o), OwnOutcome(Head(queue), o)
    PROVE  /\ queue' \in Seq(Commands)
           /\ settled' \in [Commands -> Outcomes(Requests) \cup {None}]
           /\ OwnReplies'
           /\ call' \in [Fibers -> Calls] /\ SameCalls(Mux)
           /\ wlock' \in [Sockets -> Fibers \cup {None}]
           /\ isProcessing' \in BOOLEAN
           /\ \/ queue' = <<>> /\ ~ isProcessing' /\ Stopped(Mux)
              \/ queue' # <<>> /\ isProcessing' /\ Started(Mux, Head(queue'))
  <1>1. queue \in Seq(Commands) /\ queue # <<>>
    BY DEF InTurn, TypesOK, MuxTypeOK, QueueWorks
  <1>2. Head(queue) \in Commands /\ Tail(queue) \in Seq(Commands)
    BY <1>1
  <1>3. /\ settled' = [settled EXCEPT ![Head(queue)] = o] /\ queue' = Tail(queue)
        /\ Dequeue(Tail(queue))
    BY DEF SettleHead
  <1>4. settled' \in [Commands -> Outcomes(Requests) \cup {None}]
    BY <1>2, <1>3 DEF InTurn, TypesOK, MuxTypeOK
  <1>5. OwnReplies'
    <2>1. ASSUME NEW c \in Commands, c # Head(queue)
          PROVE  settled'[c] = settled[c]
      BY <1>2, <1>3, <2>1 DEF InTurn, TypesOK, MuxTypeOK
    <2>2. settled'[Head(queue)] = o
      BY <1>2, <1>3 DEF InTurn, TypesOK, MuxTypeOK
    <2> QED
      BY <2>1, <2>2 DEF InTurn, OwnReplies, OwnOutcome
  <1> QED
    BY <1>2, <1>3, <1>4, <1>5, DequeueEffect

LEMMA HeadSettlesTurn ==
    ASSUME InTurn(Mux), HeadIsBack, SettleHead(call[Mux].res),
           UNCHANGED <<retries, connVars, rid, link, out, inb, rlock, runs>>
    PROVE  InTurn(Mux)' /\ MuxRests'
  <1>1. isProcessing /\ task[Mux].pc = "idle" /\ call[Mux].st = "done"
    BY DEF HeadIsBack, CallDone, InTurn, QueueWorks
  <1>2. /\ call[Mux].res \in Outcomes(Requests)
        /\ call[Mux].res.kind = "fault" \/ call[Mux].res.of = Head(queue)
    BY <1>1 DEF InTurn, CallOf, WireOf, QueueWorks
  <1>3. /\ task' \in [Fibers -> Tasks] /\ task'[Mux].pc = "idle" /\ SameTasks(Mux)
        /\ task'[Mux].dials <= MaxRetryCount + 1
        /\ retries' \in [Commands -> Nat]
        /\ UNCHANGED <<cur, isClosed, isConnected, retryCount>>
    BY <1>1 DEF InTurn, TypesOK, ConnTypeOK, MuxTypeOK, BudgetOf, SameTasks, connVars
  <1>4. OwnOutcome(Head(queue), call[Mux].res)
    BY <1>2 DEF OwnOutcome
  <1> QED
    BY <1>1, <1>2, <1>3, <1>4, SettleHeadEffect, MuxTurn

LEMMA RetryTurn ==
    ASSUME InTurn(Mux), Retry
    PROVE  InTurn(Mux)' /\ MuxRests'
  <1>0. Mux \in Fibers
    BY MuxAssumption
  <1>1. /\ isProcessing /\ task[Mux].pc = "idle" /\ call[Mux].st = "done"
        /\ StartReconnect(Mux) /\ retries' = [retries EXCEPT ![Head(queue)] = @ + 1]
        /\ UNCHANGED <<queue, isProcessing, settled, cur, isClosed, isConnected, retryCount,
                       rid, link, out, inb, rlock, runs>>
    BY DEF Retry, HeadIsBack, CallDone, InTurn, QueueWorks
  <1>2. /\ queue' \in Seq(Commands) /\ queue' # <<>> /\ isProcessing'
        /\ settled' \in [Commands -> Outcomes(Requests) \cup {None}] /\ OwnReplies'
        /\ cur \in Sockets \cup {NoSocket} /\ isProcessing' \in BOOLEAN
    BY <1>1
    DEF InTurn, TypesOK, MuxTypeOK, ConnTypeOK, QueueWorks, OwnReplies
  <1>3. retries' \in [Commands -> Nat]
    <2>1. Head(queue) \in Commands
      BY <1>1, <1>2
    <2> QED
      BY <1>1, <2>1 DEF InTurn, TypesOK, MuxTypeOK
  <1>4. /\ task' \in [Fibers -> Tasks] /\ task'[Mux].dials = 0 /\ SameTasks(Mux)
        /\ call' \in [Fibers -> Calls] /\ SameCalls(Mux)
        /\ wlock' \in [Sockets -> Fibers \cup {None}]
        /\ \/ task'[Mux].pc = "ping" /\ Started(Mux, "PING")
           \/ /\ task'[Mux].pc = "failed" /\ Stopped(Mux)
              /\ PassedOn(task'[Mux].err)
    <2>1. CASE isClosed
      <3>1. Fault("ClientIsClosed") \in Outcomes(Requests) /\ PassedOn(Fault("ClientIsClosed"))
        BY OutcomeType DEF FaultKinds, PassedOn
      <3>2. /\ task' = [task EXCEPT ![Mux] = [NoTask EXCEPT !.pc = "failed",
                                                            !.err = Fault("ClientIsClosed")]]
            /\ EndCall(Mux)
        BY <2>1, <1>1 DEF StartReconnect
      <3>3. /\ task' \in [Fibers -> Tasks] /\ task'[Mux].dials = 0 /\ SameTasks(Mux)
            /\ task'[Mux].pc = "failed" /\ task'[Mux].err = Fault("ClientIsClosed")
        BY <1>0, <3>1, <3>2, FibreTypes, NoTaskType DEF Tasks, TaskStates, SameTasks
      <3> QED
        BY <1>0, <1>1, <3>1, <3>2, <3>3, NoCallStarts DEF EndCall
    <2>2. CASE ~ isClosed
      <3>1. /\ task' = [task EXCEPT ![Mux] = [NoTask EXCEPT !.pc = "ping", !.mode = "reconnect"]]
            /\ Send(Mux, cur, "PING", wlock)
        BY <2>2, <1>1 DEF StartReconnect
      <3>2. /\ task' \in [Fibers -> Tasks] /\ task'[Mux].dials = 0 /\ task'[Mux].pc = "ping"
            /\ SameTasks(Mux)
        BY <1>0, <3>1, FibreTypes, NoTaskType DEF Tasks, TaskStates, SameTasks
      <3> QED
        BY <1>0, <1>1, <1>2, <3>1, <3>2, SendStarts, InternalRequests
    <2> QED
      BY <2>1, <2>2
  <1>5. 0 <= MaxRetryCount + 1
    BY ConnectionAssumption
  <1> QED
    BY <1>1, <1>2, <1>3, <1>4, <1>5, MuxTurn

\* reconnect() is over and forgotten: dequeue() goes on with the queue.
LEMMA ReconnectedTurn ==
    ASSUME InTurn(Mux), Resume \/ GiveUp
    PROVE  InTurn(Mux)' /\ MuxRests'
  <1>1. /\ isProcessing /\ task[Mux].pc \in {"ok", "failed"}
        /\ call[Mux].st = "idle" /\ task' = [task EXCEPT ![Mux] = NoTask]
        /\ UNCHANGED <<retries, cur, isClosed, isConnected, retryCount,
                       rid, link, out, inb, rlock, runs>>
    BY DEF Resume, GiveUp, InTurn, QueueWorks, TaskOf
  <1>2. /\ task' \in [Fibers -> Tasks] /\ task'[Mux].pc = "idle" /\ SameTasks(Mux)
        /\ task'[Mux].dials <= MaxRetryCount + 1
        /\ retries' \in [Commands -> Nat]
    BY <1>1, FibreTypes, MuxAssumption, NoTaskType, ConnectionAssumption
    DEF InTurn, TypesOK, MuxTypeOK, SameTasks
  <1>3. CASE Resume
    <2>1. /\ queue \in Seq(Commands) /\ Dequeue(queue) /\ queue' = queue
          /\ settled' \in [Commands -> Outcomes(Requests) \cup {None}] /\ OwnReplies'
      BY <1>3 DEF Resume, InTurn, TypesOK, MuxTypeOK, OwnReplies
    <2> QED
      BY <1>1, <1>2, <2>1, DequeueEffect, MuxTurn
  <1>4. CASE GiveUp
    <2>1. SettleHead(task[Mux].err) /\ task[Mux].pc = "failed"
      BY <1>4 DEF GiveUp
    <2>2. OwnOutcome(Head(queue), task[Mux].err) /\ task[Mux].err \in Outcomes(Requests)
      BY <2>1 DEF InTurn, ErrorsOf, PassedOn, OwnOutcome
    <2> QED
      BY <1>1, <1>2, <2>1, <2>2, SettleHeadEffect, MuxTurn
  <1> QED
    BY <1>3, <1>4

LEMMA MuxStepTurn ==
    ASSUME InTurn(Mux), MuxStep
    PROVE  InTurn(Mux)' /\ MuxRests'
  <1>1. CASE Resolve \/ Reject
    BY <1>1, HeadSettlesTurn DEF Resolve, Reject
  <1>2. CASE Retry \/ Resume \/ GiveUp
    BY <1>2, RetryTurn, ReconnectedTurn
  <1> QED
    BY <1>1, <1>2 DEF MuxStep

LEMMA ExecTurn ==
    ASSUME InTurn(Mux), MuxRests, NEW c \in Commands, Exec(c)
    PROVE  InTurn(Mux)' /\ MuxRests'
  <1>1. /\ queue' = Append(queue, c)
        /\ UNCHANGED <<settled, retries, connVars, rid, link, out, inb, rlock, runs>>
    BY DEF Exec
  <1>2. /\ queue \in Seq(Commands) /\ queue' \in Seq(Commands) /\ queue' # <<>>
        /\ queue # <<>> => Head(queue') = Head(queue)
    <2>1. queue \in Seq(Commands)
      BY DEF InTurn, TypesOK, MuxTypeOK
    <2> QED
      BY <1>1, <2>1, AppendProperties, HeadTailAppend
  <1>3. CASE isProcessing
    <2>1. UNCHANGED <<isProcessing, call, wlock>>
      BY <1>3 DEF Exec
    <2>2. queue # <<>>
      BY <1>3 DEF InTurn, QueueWorks
    <2>3. TypesOK'
      BY <1>1, <1>2, <2>1
      DEF InTurn, TypesOK, WireTypeOK, ConnTypeOK, MuxTypeOK, connVars
    <2>4. CallOf(Mux)' /\ TaskOf(Mux)' /\ BudgetOf(Mux)' /\ Others(Mux)'
      BY <1>1, <2>1 DEF InTurn, CallOf, TaskOf, BudgetOf, Others, Rests, connVars
    <2>5. SocketsOf(Mux)' /\ LocksOf(Mux)' /\ WireOf(Mux)' /\ OwnReplies' /\ ErrorsOf(Mux)'
      BY <1>1, <2>1
      DEF InTurn, SocketsOf, LocksOf, WireOf, OwnReplies, ErrorsOf, connVars
    <2>6. QueueWorks' /\ MuxRests'
      BY <1>1, <1>2, <1>3, <2>1, <2>2 DEF InTurn, QueueWorks, MuxRests, connVars
    <2> QED
      BY <2>3, <2>4, <2>5, <2>6 DEF InTurn
  <1>4. CASE ~ isProcessing
    <2>1. Dequeue(queue')
      BY <1>4 DEF Exec
    <2>2. task[Mux].pc = "idle" /\ call[Mux].st = "idle"
      BY <1>4 DEF MuxRests
    <2>3. /\ task' \in [Fibers -> Tasks] /\ task'[Mux].pc = "idle" /\ SameTasks(Mux)
          /\ task'[Mux].dials <= MaxRetryCount + 1
          /\ settled' \in [Commands -> Outcomes(Requests) \cup {None}]
          /\ retries' \in [Commands -> Nat] /\ OwnReplies'
          /\ UNCHANGED <<cur, isClosed, isConnected, retryCount>>
      BY <1>1, <2>2
      DEF InTurn, TypesOK, ConnTypeOK, MuxTypeOK, BudgetOf, OwnReplies, SameTasks, connVars
    <2>4. /\ call' \in [Fibers -> Calls] /\ SameCalls(Mux) /\ wlock' \in [Sockets -> Fibers \cup {None}]
          /\ isProcessing' \in BOOLEAN /\ isProcessing' /\ Started(Mux, Head(queue'))
      BY <1>2, <2>1, <2>2, DequeueEffect
    <2> QED
      BY <1>1, <1>2, <2>2, <2>3, <2>4, MuxTurn
  <1> QED
    BY <1>3, <1>4

\* Nothing happens but that a promise settles with an error.
LEMMA SettleTurn ==
    ASSUME NEW f \in Fibers, InTurn(f), NEW c \in Commands, NEW o, PassedOn(o),
           settled' = [settled EXCEPT ![c] = o],
           UNCHANGED <<queue, isProcessing, retries, connVars, wireVars>>
    PROVE  InTurn(f)' /\ (MuxRests => MuxRests')
  <1>1. TypesOK'
    BY DEF InTurn, TypesOK, WireTypeOK, ConnTypeOK, MuxTypeOK, PassedOn, connVars, wireVars
  <1>2. CallOf(f)' /\ TaskOf(f)' /\ BudgetOf(f)' /\ QueueWorks' /\ Others(f)' /\ ErrorsOf(f)'
    BY DEF InTurn, CallOf, TaskOf, BudgetOf, QueueWorks, Others, Rests, ErrorsOf,
           connVars, wireVars
  <1>3. SocketsOf(f)' /\ LocksOf(f)' /\ WireOf(f)'
    BY DEF InTurn, SocketsOf, LocksOf, WireOf, connVars, wireVars
  <1>4. OwnReplies'
    BY DEF InTurn, TypesOK, MuxTypeOK, OwnReplies, OwnOutcome, PassedOn
  <1>5. MuxRests => MuxRests'
    BY DEF MuxRests, connVars, wireVars
  <1> QED
    BY <1>1, <1>2, <1>3, <1>4, <1>5 DEF InTurn

LEMMA ExecRefusedTurn ==
    ASSUME NEW f \in Fibers, InTurn(f), NEW c \in Commands, ExecRefused(c)
    PROVE  InTurn(f)' /\ (MuxRests => MuxRests')
  <1>1. PassedOn(Fault("ConnectionClosed"))
    BY OutcomeType DEF PassedOn, FaultKinds
  <1> QED
    BY <1>1, SettleTurn DEF ExecRefused

-----------------------------------------------------------------------------
(* The turn passes between fibres at rest; a fibre that is neither in       *)
(* connect() nor in reconnect() begins a call or is through with it.        *)

LEMMA TurnPasses ==
    ASSUME NEW f \in Fibers, InTurn(f), Rests(f),
           NEW g \in Fibers \ Receivers, ErrorsOf(g)
    PROVE  InTurn(g)
  <1>1. \A h \in Fibers : Rests(h)
    BY DEF InTurn, Others
  <1>2. call[f].st = "idle" /\ call[g].st = "idle"
    BY <1>1 DEF Rests
  <1>3. CallOf(g) /\ TaskOf(g) /\ BudgetOf(g)
    BY <1>1, <1>2 DEF InTurn, CallOf, TaskOf, BudgetOf, Rests
  <1>4. SocketsOf(g) /\ LocksOf(g) /\ WireOf(g)
    BY <1>1, <1>2 DEF InTurn, SocketsOf, LocksOf, WireOf, Rests
  <1> QED
    BY <1>1, <1>3, <1>4 DEF InTurn, Others

\* connect() may begin when no socket is open.
LEMMA StartConnectTurn ==
    ASSUME NEW f \in Fibers \ {Mux}, InTurn(f), task[f].pc = "idle", call[f].st = "idle",
           \A s \in Sockets : rid[s] # "open", StartConnect(f, "connect"),
           UNCHANGED <<wireVars, muxVars, cur, isClosed, isConnected, retryCount>>
    PROVE  InTurn(f)' /\ (MuxRests => MuxRests') /\ task'[f].pc = "dialing" /\ SameTasks(f)
  <1>1. task' = [task EXCEPT ![f] = [NoTask EXCEPT !.pc = "dialing", !.mode = "connect",
                                                    !.dials = 1]]
    BY DEF StartConnect
  <1>2. /\ task' \in [Fibers -> Tasks] /\ SameTasks(f)
        /\ task'[f].pc = "dialing" /\ task'[f].dials = 1
    BY <1>1, FibreTypes, NoTaskType DEF Tasks, TaskStates, SameTasks
  <1>3. TypesOK'
    BY <1>2 DEF InTurn, TypesOK, WireTypeOK, ConnTypeOK, MuxTypeOK, wireVars, muxVars
  <1>4. CallOf(f)' /\ TaskOf(f)' /\ Others(f)' /\ ErrorsOf(f)'
    BY <1>2 DEF InTurn, CallOf, TaskOf, Others, Rests, ErrorsOf, SameTasks, wireVars
  <1>5. BudgetOf(f)'
    BY <1>2, ConnectionAssumption DEF InTurn, BudgetOf
  <1>6. SocketsOf(f)' /\ LocksOf(f)' /\ WireOf(f)' /\ OwnReplies'
    BY <1>2 DEF InTurn, SocketsOf, LocksOf, WireOf, OwnReplies, wireVars, muxVars
  <1>7. QueueWorks' /\ (MuxRests => MuxRests')
    BY <1>2, FibreTypes DEF InTurn, QueueWorks, MuxRests, SameTasks, wireVars, muxVars
  <1> QED
    BY <1>2, <1>3, <1>4, <1>5, <1>6, <1>7 DEF InTurn

\* What is left to show of such a step.
LEMMA PlainCallTurn ==
    ASSUME NEW f \in Fibers \ {Mux}, InTurn(f), task[f].pc = "idle",
           call[f].st \in {"idle", "done"},
           call' \in [Fibers -> Calls], SameCalls(f),
           wlock' \in [Sockets -> Fibers \cup {None}],
           Stopped(f) \/ \E r \in Requests : Started(f, r),
           UNCHANGED <<rid, link, out, inb, rlock, runs, connVars, muxVars>>
    PROVE  InTurn(f)' /\ (MuxRests => MuxRests')
  <1>1. TypesOK'
    BY DEF InTurn, TypesOK, WireTypeOK, ConnTypeOK, MuxTypeOK, connVars, muxVars
  <1>2. CallOf(f)' /\ LocksOf(f)' /\ WireOf(f)'
    BY NextCallTurn
  <1>3. TaskOf(f)' /\ BudgetOf(f)' /\ SocketsOf(f)' /\ ErrorsOf(f)' /\ OwnReplies'
    BY DEF InTurn, TaskOf, BudgetOf, SocketsOf, ErrorsOf, OwnReplies, connVars, muxVars
  <1>4. Others(f)'
    BY DEF InTurn, Others, Rests, SameCalls, connVars
  <1>5. QueueWorks' /\ (MuxRests => MuxRests')
    BY FibreTypes DEF InTurn, QueueWorks, MuxRests, SameCalls, connVars, muxVars
  <1> QED
    BY <1>1, <1>2, <1>3, <1>4, <1>5 DEF InTurn

LEMMA FibreSends ==
    ASSUME NEW f \in Fibers \ {Mux}, InTurn(f), task[f].pc = "idle",
           call[f].st \in {"idle", "done"},
           NEW s \in Sockets \cup {NoSocket}, NEW r \in Requests, Send(f, s, r, wlock),
           UNCHANGED <<rid, link, out, inb, rlock, runs, connVars, muxVars>>
    PROVE  InTurn(f)' /\ (MuxRests => MuxRests')
  BY SendStarts, PlainCallTurn

LEMMA FibreEnds ==
    ASSUME NEW f \in Fibers \ {Mux}, InTurn(f), task[f].pc = "idle",
           call[f].st \in {"idle", "done"}, EndCall(f),
           UNCHANGED <<rid, link, out, inb, rlock, runs, connVars, muxVars>>
    PROVE  InTurn(f)' /\ (MuxRests => MuxRests')
  BY NoCallStarts, PlainCallTurn DEF EndCall

-----------------------------------------------------------------------------
(* While the fibres take turns no call meets a lock: sendCommand() never   *)
(* throws the TypeError of getReader() or getWriter().                     *)

NoTypeError(f) == call[f].res # Fault("TypeError")

\* The results a read or a write ends with when no lock is in its way.
LEMMA OtherFaults ==
    /\ \A e \in FaultKinds \ {"TypeError"} : Fault(e) # Fault("TypeError")
    /\ \A r \in Requests : Torn(r) # Fault("TypeError")
    /\ \A a \in Replies(Requests) : a # Fault("TypeError")
    /\ None # Fault("TypeError") /\ NoCall.res = None
  <1>1. \A r \in Requests : /\ Torn(r).kind # "fault" /\ Value(r).kind # "fault"
                            /\ ErrorReply(r).kind # "fault"
    BY DEF Torn, Value, ErrorReply
  <1>2. Fault("TypeError").kind = "fault" /\ \A e \in FaultKinds : Fault(e).of = e
    BY DEF Fault
  <1>3. Fault("TypeError").of = "TypeError"
    BY DEF Fault
  <1>4. None # Fault("TypeError")
    BY WireAssumption, OutcomeType DEF FaultKinds
  <1>5. \A a \in Replies(Requests) : a.kind # "fault"
    BY <1>1 DEF Replies
  <1> QED
    BY <1>1, <1>2, <1>3, <1>4, <1>5 DEF NoCall

LEMMA CallStepNoTypeError ==
    ASSUME NEW f \in Fibers, InTurn(f), CallStep(f), NoTypeError(f)
    PROVE  NoTypeError(f)' /\ SameCalls(f)
  <1>1. /\ call \in [Fibers -> Calls] /\ call[f].sock = call[f].sock
        /\ \A o : Done(f, o).res = o
    BY FibreTypes DEF Done, Calls
  <1>2. CASE WriteOk(f)
    BY <1>1, <1>2 DEF WriteOk, NoTypeError, SameCalls, Calls
  <1>3. CASE WriteFails(f)
    <2>1. PICK e \in {"BrokenPipe", "BadResource", "Interrupted"} :
            call' = [call EXCEPT ![f] = Done(f, Fault(e))]
      BY <1>3 DEF WriteFails
    <2>2. e \in FaultKinds \ {"TypeError"}
      BY DEF FaultKinds
    <2> QED
      BY <1>1, <2>1, <2>2, OtherFaults DEF NoTypeError, SameCalls
  <1>4. CASE StartRead(f)
    <2>1. rlock[call[f].sock] = None
      BY <1>4 DEF StartRead, InTurn, CallOf, LocksOf
    <2>2. call' = [call EXCEPT ![f].st = "reading"]
      BY <1>4, <2>1 DEF StartRead
    <2> QED
      BY <1>1, <2>2 DEF NoTypeError, SameCalls, Calls
  <1>5. ASSUME NEW o, FinishRead(f, o), o # Fault("TypeError")
        PROVE  NoTypeError(f)' /\ SameCalls(f)
    BY <1>1, <1>5 DEF FinishRead, NoTypeError, SameCalls
  <1>6. CASE ReadReply(f)
    <2> DEFINE q == inb[call[f].sock]
    <2>1. call[f].st = "reading" /\ rid[call[f].sock] = "open" /\ q # <<>>
          /\ \E o \in Decoded(Head(q)) : FinishRead(f, o)
      BY <1>6 DEF ReadReply
    <2>2. \E a \in Replies(Requests) : q = <<a>>
      BY <2>1 DEF InTurn, CallOf, WireOf
    <2> HIDE DEF q
    <2>3. PICK a \in Replies(Requests) : q = <<a>>
      BY <2>2
    <2>4. Head(q) = a
      BY <2>3
    <2>5. FinishRead(f, a)
      BY <2>1, <2>4, WholeReply
    <2> QED
      BY <1>5, <2>5, OtherFaults
  <1>7. CASE ReadFails(f)
    <2> DEFINE q == inb[call[f].sock]
    <2>1. \/ \E e \in {"EOF", "ConnectionReset", "BadResource", "Interrupted"} :
               FinishRead(f, Fault(e))
          \/ /\ call[f].st = "reading" /\ rid[call[f].sock] = "open" /\ q # <<>>
             /\ \E o \in CutShort(Head(q)) : FinishRead(f, o)
      BY <1>7 DEF ReadFails
    <2>2. {"EOF", "ConnectionReset", "BadResource", "Interrupted"} \subseteq FaultKinds \ {"TypeError"}
      BY DEF FaultKinds
    <2>3. ASSUME call[f].st = "reading", rid[call[f].sock] = "open", q # <<>>
          PROVE  \A o \in CutShort(Head(q)) : o # Fault("TypeError")
      <3>1. PICK a \in Replies(Requests) : q = <<a>>
        BY <2>3 DEF InTurn, CallOf, WireOf
      <3>2. Head(q) = a
        BY <3>1
      <3> QED
        BY <3>1, <3>2, WholeReply
    <2> QED
      BY <1>5, <2>1, <2>2, <2>3, OtherFaults
  <1> QED
    BY <1>2, <1>3, <1>4, <1>6, <1>7 DEF CallStep

LEMMA SendNoTypeError ==
    ASSUME NEW f \in Fibers, InTurn(f), call[f].st \in {"idle", "done"},
           NEW s \in Sockets, NEW r \in Requests, Send(f, s, r, wlock)
    PROVE  NoTypeError(f)' /\ SameCalls(f) /\ call'[f].sock = s /\ call'[f].st = "writing"
  <1>1. s \in Sockets \cup {NoSocket} /\ s # NoSocket
    BY WireAssumption DEF Sockets, NoSocket
  <1> QED
    BY <1>1, FibreTypes, BetweenCalls, SendEffect, OtherFaults
    DEF InTurn, TypesOK, WireTypeOK, NoTypeError

LEMMA EndNoTypeError ==
    ASSUME NEW f \in Fibers, InTurn(f), call' = [call EXCEPT ![f] = NoCall]
    PROVE  NoTypeError(f)' /\ SameCalls(f) /\ call'[f].st = "idle"
  BY FibreTypes, NoCallType, OtherFaults DEF NoTypeError, SameCalls

-----------------------------------------------------------------------------
(* Where a turn comes from and which tasks a step leaves alone.             *)

\* Nobody has done anything yet.
LEMMA InitTurn ==
    ASSUME WireInit, ConnInit, MuxInit
    PROVE  InTurn(Mux) /\ MuxRests
  <1>1. 0 \in 0 .. MaxRetryCount /\ 0 <= MaxRetryCount + 1
    BY ConnectionAssumption
  <1>2. NoCall \in Calls /\ NoCall.st = "idle"
    BY NoCallType
  <1>3. NoTask \in Tasks /\ NoTask.pc = "idle" /\ NoTask.dials = 0
    BY NoTaskType
  <1>4. /\ retryCount = 0 /\ queue = <<>> /\ isProcessing = FALSE
        /\ \A c \in Commands : settled[c] = None
        /\ \A f \in Fibers : call[f] = NoCall /\ task[f] = NoTask
        /\ \A s \in Sockets : /\ rid[s] = "unused" /\ out[s] = <<>> /\ inb[s] = <<>>
                              /\ rlock[s] = None /\ wlock[s] = None
    BY DEF WireInit, ConnInit, MuxInit
  <1>5. TypesOK
    <2>1. WireTypeOK
      BY <1>2, EmptyType DEF WireInit, WireTypeOK
    <2>2. ConnTypeOK
      BY <1>1, <1>3 DEF ConnInit, ConnTypeOK
    <2>3. MuxTypeOK
      <3>1. <<>> \in Seq(Commands) /\ FALSE \in BOOLEAN /\ 0 \in Nat
        OBVIOUS
      <3> QED
        BY <3>1 DEF MuxInit, MuxTypeOK
    <2> QED
      BY <2>1, <2>2, <2>3 DEF TypesOK
  <1>6. CallOf(Mux) /\ TaskOf(Mux) /\ BudgetOf(Mux)
    BY <1>1, <1>2, <1>3, <1>4, MuxAssumption DEF CallOf, TaskOf, BudgetOf
  <1>7. SocketsOf(Mux) /\ LocksOf(Mux) /\ WireOf(Mux)
    BY <1>2, <1>3, <1>4, MuxAssumption DEF SocketsOf, LocksOf, WireOf
  <1>8. Others(Mux)
    BY <1>1, <1>2, <1>3, <1>4, MuxAssumption DEF Others, Rests
  <1>9. ErrorsOf(Mux) /\ QueueWorks /\ OwnReplies /\ MuxRests
    BY <1>2, <1>3, <1>4, MuxAssumption DEF ErrorsOf, QueueWorks, OwnReplies, MuxRests
  <1> QED
    BY <1>5, <1>6, <1>7, <1>8, <1>9 DEF InTurn

\* connect() and reconnect() are their own fibre's, and do not end in nothing.
LEMMA ConnStepTasks ==
    ASSUME NEW f \in Fibers, task \in [Fibers -> Tasks], ConnStep(f)
    PROVE  SameTasks(f) /\ task'[f].pc # "idle"
  <1>1. task[f] \in Tasks /\ DOMAIN task = Fibers
    OBVIOUS
  <1>2. CASE DialOk(f) \/ HelloStep(f)
    <2>1. \/ task' = [task EXCEPT ![f].pc = "reping"] \/ task' = [task EXCEPT ![f].pc = "ok"]
          \/ task' = [task EXCEPT ![f].pc = "hello", ![f].step = 1]
          \/ task' = [task EXCEPT ![f].step = @ + 1] /\ task[f].pc = "hello"
      BY <1>2 DEF DialOk, HelloStep, Connected
    <2> QED
      BY <1>1, <2>1 DEF SameTasks, Tasks
  <1>3. CASE DialFails(f) \/ HelloFails(f)
    <2>1. \E o : \/ task' = [task EXCEPT ![f] = [@ EXCEPT !.pc = "failed", !.err = o]]
                 \/ task' = [task EXCEPT ![f] = [@ EXCEPT !.pc = "delay"]]
      BY <1>3 DEF DialFails, HelloFails, ConnectCatches
    <2> QED
      BY <1>1, <2>1 DEF SameTasks, Tasks
  <1>4. CASE DelayOver(f) \/ PingOk(f) \/ PingFails(f) \/ RePing(f)
    BY <1>1, <1>4
    DEF DelayOver, PingOk, PingFails, RePing, StartConnect, NoTask, SameTasks, Tasks
  <1> QED
    BY <1>2, <1>3, <1>4 DEF ConnStep

\* dequeue() and reconnect() touch no other fibre's connect().
LEMMA MuxStepTasks ==
    ASSUME MuxStep
    PROVE  SameTasks(Mux)
  <1>1. CASE Resolve \/ Reject
    BY <1>1 DEF Resolve, Reject, SameTasks, connVars
  <1>2. CASE Retry \/ Resume \/ GiveUp
    <2>1. \E x : task' = [task EXCEPT ![Mux] = x]
      BY <1>2 DEF Retry, Resume, GiveUp, StartReconnect
    <2> QED
      BY <2>1 DEF SameTasks
  <1> QED
    BY <1>1, <1>2 DEF MuxStep
=============================================================================
