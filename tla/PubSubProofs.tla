---------------------------- MODULE PubSubProofs ----------------------------
(***************************************************************************)
(* Theorems about receive(), which reads the client's stream behind the    *)
(* back of the executor and reconnects by itself: whoever dials when, for  *)
(* any subscriptions, messages, retry budget and number of sockets, it     *)
(* yields messages in the order in which they were published, and the live *)
(* stream that it leaves locked is one that it is about to close, or that  *)
(* an error reply has ended it on.                                         *)
(***************************************************************************)
EXTENDS PubSub, TurnProofs, FiniteSetTheorems

IsMessage(a) == a.kind = "value" /\ a.of \in Messages

\* What the steps below read of the variables.
Shapes ==
    /\ rid \in [Sockets -> {"unused", "open", "eof", "reset", "closed"}]
    /\ out \in [Sockets -> Seq(Requests)]
    /\ inb \in [Sockets -> Seq(Arriving)]
    /\ call \in [Fibers -> Calls]
    /\ task \in [Fibers -> Tasks]
    /\ cur \in Sockets
    /\ queue \in Seq(Commands)
    /\ channels \in SUBSET Channels
    /\ resub \in [Resubs -> (SUBSET Channels) \cup {None}]
    /\ subs = [s \in Sockets |-> subs[s]]
    /\ published \in Seq(Messages) /\ yielded \in Seq(Messages)

\* All that anybody sends.
Sendable == Commands \cup Internal

\* A call has a socket while it is under way and a result when it is over.  Nobody
\* sends a message, and receive() sends no command itself.
CallShape(f) ==
    /\ call[f].st \in {"writing", "written", "reading"} => call[f].sock \in Sockets
    /\ call[f].st = "writing" => /\ call[f].req \in Sendable
                                 /\ f = Recv => call[f].req \notin Commands
    /\ call[f].st = "done" => call[f].res \in Outcomes(Requests)
    /\ task[f].pc \in {"dialing", "delay", "ok", "failed"} => call[f].st = "idle"

CallShapes == \A f \in Fibers : CallShape(f)

OnlySent == \A s \in Sockets : \A i \in DOMAIN out[s] : out[s][i] \in Sendable

\* Which of the two fibres may be in connect() or reconnect(), and when.
FibreShape ==
    /\ call[Recv].st \in {"writing", "written"} => loop = "reconnecting"
    /\ task[Recv].pc # "idle" => loop = "reconnecting"
    /\ task[Mux].pc # "idle" => isProcessing
    /\ isProcessing => queue # <<>>

\* No message can be on its way on the socket, nor get there.
Clean(s) ==
    rid[s] = "open" =>
        /\ subs[s] = {}
        /\ \A i \in DOMAIN inb[s] : ~ IsMessage(inb[s][i])
        /\ \A i \in DOMAIN out[s] : out[s][i] \notin Commands
        /\ call[Mux].st = "writing" => call[Mux].sock # s

\* receive() waits for the next message on socket s.
ReadsFrom(s) == loop = "reading" /\ call[Recv].st = "reading" /\ call[Recv].sock = s

\* The executor is about to replace the socket.
MuxDials == task[Mux].pc \in {"dialing", "delay"}

\* A socket that receive() goes on reading after another one was dialled, or that
\* the executor is about to replace, never carries a message.
SocketShape ==
    /\ \A s \in Sockets : rid[s] = "unused" => out[s] = <<>> /\ inb[s] = <<>> /\ subs[s] = {}
    /\ \A s \in Sockets : ReadsFrom(s) /\ s # cur => Clean(s)
    /\ MuxDials => Clean(cur)

\* The message that receive() has read and not yielded yet.
Holds(m) == loop = "reading" /\ call[Recv].st = "done" /\ call[Recv].res = Value(m)

Published(m) == \E i \in DOMAIN published : published[i] = m

\* m was published after what receive() has yielded.
Later(m) == Published(m) /\ \A i \in DOMAIN yielded : Position(yielded[i]) < Position(m)

\* m was published after what receive() has read.
Newer(m) == Later(m) /\ \A h \in Messages : Holds(h) => Position(h) < Position(m)

OrderShape ==
    /\ \A i, j \in DOMAIN published : published[i] = published[j] => i = j
    /\ \A i \in DOMAIN yielded : Published(yielded[i])
    /\ \A m \in Messages : Holds(m) => Later(m)
    /\ \A i \in DOMAIN inb[cur] : IsMessage(inb[cur][i]) => Newer(inb[cur][i].of)
    /\ \A i, j \in DOMAIN inb[cur] :
         i < j /\ IsMessage(inb[cur][i]) /\ IsMessage(inb[cur][j])
            => Position(inb[cur][i].of) < Position(inb[cur][j].of)
    /\ DeliveredInOrder

SubInv ==
    /\ Shapes /\ CallShapes /\ OnlySent /\ FibreShape /\ SocketShape /\ OrderShape

-----------------------------------------------------------------------------
(* What a step must keep of the sockets and of the order.                   *)

\* The messages of b are those of a, less the first k replies.
Passes(b, a) ==
    \E k \in Nat : \A i \in DOMAIN b :
        IsMessage(b[i]) => i + k \in DOMAIN a /\ b[i] = a[i + k]

LEMMA PassesSame ==
    ASSUME NEW a \in Seq(Arriving)
    PROVE  Passes(a, a) /\ Passes(<<>>, a)
  <1>1. \A i \in DOMAIN a : i + 0 = i
    OBVIOUS
  <1>2. DOMAIN <<>> = {}
    OBVIOUS
  <1> QED
    BY <1>1, <1>2 DEF Passes

\* What a read finds in a reply, or in what is left of one.
LEMMA ReadOutcomes ==
    ASSUME NEW a \in Arriving
    PROVE  /\ a.of \in Requests /\ a.kind \in {"value", "errorReply", "part"}
           /\ \A o \in Decoded(a) : o \in Outcomes(Requests) /\ (o.kind = "value" => o = a)
           /\ \A o \in CutShort(a) : o \in Outcomes(Requests) /\ o.kind # "value"
           /\ Pieces(a) > 0 => Part(a.of, Pieces(a)) \in Arriving
  <1>1. a.of \in Requests /\ a.kind \in {"value", "errorReply", "part"}
    BY DEF Arriving, Replies
  <1>2. /\ \A o \in Fragments(a.of) : o \in Outcomes(Requests) /\ o.kind # "value"
        /\ \A e \in {"InvalidState", "RangeError"} :
             Fault(e) \in Outcomes(Requests) /\ Fault(e).kind # "value"
        /\ Torn(a.of) \in Outcomes(Requests) /\ Torn(a.of).kind # "value"
    BY <1>1 DEF Fragments, Torn, ErrorReply, Fault, Outcomes, FaultKinds
  <1>3. CASE a.kind = "part"
    <2>1. a.left \in 1 .. MaxPieces
      BY <1>3 DEF Arriving, Replies
    <2>2. Pieces(a) > 0 => Pieces(a) \in 1 .. MaxPieces
      BY <1>3, <2>1, WireAssumption DEF Pieces
    <2> QED
      BY <1>1, <1>2, <1>3, <2>2 DEF Decoded, CutShort, Part, Arriving
  <1>4. CASE a.kind # "part"
    <2>1. a \in Outcomes(Requests) /\ Decoded(a) = {a}
      BY <1>4 DEF Arriving, Replies, Outcomes, Decoded
    <2>2. Pieces(a) \in 1 .. MaxPieces
      BY <1>4, WireAssumption DEF Pieces
    <2>3. Part(a.of, Pieces(a)) \in Arriving
      BY <1>1, <2>2 DEF Part, Arriving
    <2>4. \A o \in CutShort(a) : o \in Outcomes(Requests) /\ o.kind # "value"
      BY <1>1, <1>2, <1>4, <2>1 DEF CutShort
    <2> QED
      BY <1>1, <2>1, <2>3, <2>4
  <1> QED
    BY <1>3, <1>4

LEMMA PutBefore ==
    ASSUME NEW S, NEW x \in S, NEW b \in Seq(S)
    PROVE  /\ <<x>> \o b \in Seq(S) /\ DOMAIN (<<x>> \o b) = 1 .. Len(b) + 1
           /\ (<<x>> \o b)[1] = x /\ \A i \in 1 .. Len(b) : (<<x>> \o b)[i + 1] = b[i]
  <1>1. <<x>> \in Seq(S) /\ Len(<<x>>) = 1 /\ <<x>>[1] = x
    OBVIOUS
  <1> DEFINE a == <<x>>
  <1>2. a \in Seq(S) /\ Len(a) = 1 /\ a[1] = x /\ Len(b) \in Nat
    BY <1>1
  <1> HIDE DEF a
  <1>3. /\ a \o b \in Seq(S) /\ Len(a \o b) = Len(a) + Len(b)
        /\ \A i \in 1 .. Len(a) + Len(b) :
             (a \o b)[i] = IF i <= Len(a) THEN a[i] ELSE b[i - Len(a)]
    BY <1>2, ConcatProperties
  <1>4. DOMAIN (a \o b) = 1 .. Len(b) + 1
    BY <1>2, <1>3
  <1>5. (a \o b)[1] = x
    BY <1>2, <1>3
  <1>6. ASSUME NEW i \in 1 .. Len(b)
        PROVE  (a \o b)[i + 1] = b[i]
    <2>1. i + 1 \in 1 .. Len(a) + Len(b) /\ ~ (i + 1 <= Len(a)) /\ (i + 1) - Len(a) = i
      BY <1>2
    <2> QED
      BY <1>3, <2>1
  <1> QED
    BY <1>3, <1>4, <1>5, <1>6 DEF a

\* A read takes the first reply at least: the messages that remain come after it.
LEMMA PassesRest ==
    ASSUME NEW a \in Seq(Arriving), NEW rest \in AfterChunk(a)
    PROVE  /\ rest \in Seq(Arriving) /\ a # <<>> /\ Passes(rest, a)
           /\ \E k \in Nat : \A i \in DOMAIN rest :
                IsMessage(rest[i]) =>
                    i + k \in DOMAIN a /\ 1 < i + k /\ rest[i] = a[i + k]
  <1>1. PICK k \in 1 .. Len(a) :
          \/ rest = SubSeq(a, k + 1, Len(a))
          \/ /\ rest = <<Part(a[k].of, Pieces(a[k]))>> \o SubSeq(a, k + 1, Len(a))
             /\ Pieces(a[k]) > 0
    BY DEF AfterChunk
  <1> DEFINE b == SubSeq(a, k + 1, Len(a))
             p == Part(a[k].of, Pieces(a[k]))
  <1>2. b \in Seq(Arriving) /\ Len(b) = Len(a) - k /\ k \in Nat /\ k >= 1 /\ Len(a) \in Nat
    OBVIOUS
  <1>3. \A i \in 1 .. Len(b) : i + k \in 1 .. Len(a) /\ b[i] = a[i + k]
    OBVIOUS
  <1>4. DOMAIN b = 1 .. Len(b) /\ DOMAIN a = 1 .. Len(a) /\ a # <<>>
    BY <1>2
  <1>5. Pieces(a[k]) > 0 => p \in Arriving
    BY ReadOutcomes
  <1>6. ~ IsMessage(p)
    BY DEF IsMessage, Part
  <1> HIDE DEF b, p
  <1>7. /\ rest \in Seq(Arriving)
        /\ \E n \in Nat : \A i \in DOMAIN rest :
             IsMessage(rest[i]) => i + n \in DOMAIN a /\ 1 < i + n /\ rest[i] = a[i + n]
    <2>1. CASE rest = b
      <3>1. \A i \in DOMAIN b : i + k \in DOMAIN a /\ 1 < i + k /\ b[i] = a[i + k]
        <4>1. SUFFICES ASSUME NEW i \in 1 .. Len(b)
                       PROVE  i + k \in DOMAIN a /\ 1 < i + k /\ b[i] = a[i + k]
          BY <1>4
        <4>2. 1 < i + k
          BY <1>2
        <4> QED
          BY <1>3, <1>4, <4>2
      <3> QED
        BY <1>2, <2>1, <3>1
    <2>2. CASE rest = <<p>> \o b /\ Pieces(a[k]) > 0
      <3>1. /\ rest \in Seq(Arriving) /\ DOMAIN rest = 1 .. Len(b) + 1
            /\ rest[1] = p /\ \A i \in 1 .. Len(b) : rest[i + 1] = b[i]
        BY <1>2, <1>5, <2>2, PutBefore
      <3>2. ASSUME NEW i \in DOMAIN rest, IsMessage(rest[i])
            PROVE  i + (k - 1) \in DOMAIN a /\ 1 < i + (k - 1) /\ rest[i] = a[i + (k - 1)]
        <4>1. i \in 1 .. Len(b) + 1 /\ i # 1
          BY <1>6, <3>1, <3>2
        <4> DEFINE j == i - 1
        <4>2. j \in 1 .. Len(b) /\ j + 1 = i /\ j + k = i + (k - 1)
          BY <1>2, <4>1
        <4> HIDE DEF j
        <4>3. rest[i] = b[j] /\ j + k \in 1 .. Len(a) /\ b[j] = a[j + k]
          BY <1>3, <3>1, <4>2
        <4>4. 1 < j + k
          BY <1>2, <4>2
        <4> QED
          BY <1>4, <4>2, <4>3, <4>4
      <3>3. k - 1 \in Nat
        BY <1>2
      <3> QED
        BY <3>1, <3>2, <3>3
    <2> QED
      BY <1>1, <2>1, <2>2 DEF b, p
  <1> QED
    BY <1>4, <1>7 DEF Passes

\* A message has one place in the order of publication.
LEMMA Place ==
    ASSUME NEW m, Published(m)
    PROVE  Position(m) \in DOMAIN published /\ published[Position(m)] = m
  BY DEF Published, Position

\* A socket that is clean stays clean as long as the executor does not use it.
StaysClean(s) ==
    rid'[s] = "open" /\ Clean(s) =>
        /\ rid[s] = "open" /\ subs'[s] = {}
        /\ \A i \in DOMAIN inb'[s] : ~ IsMessage(inb'[s][i])
        /\ \A i \in DOMAIN out'[s] : out'[s][i] \notin Commands

\* The executor begins to write on the current socket only, receive() to read there,
\* and connect() to dial when that socket is gone.
StaysOnCur ==
    /\ cur' = cur
    /\ call'[Mux].st = "writing" => call'[Mux] = call[Mux] \/ call'[Mux].sock = cur
    /\ \A s \in Sockets : ReadsFrom(s)' => ReadsFrom(s) \/ s = cur
    /\ MuxDials' => rid'[cur] # "open" \/ (MuxDials /\ call'[Mux].st # "writing")

LEMMA SocketsKept ==
    ASSUME Shapes, SocketShape, StaysOnCur,
           \A s \in Sockets : StaysClean(s),
           \A s \in Sockets : rid'[s] = "unused" => out'[s] = <<>> /\ inb'[s] = <<>> /\ subs'[s] = {}
    PROVE  SocketShape'
  <1>1. ASSUME NEW s \in Sockets, ReadsFrom(s)', s # cur'
        PROVE  Clean(s)'
    <2>1. s # cur /\ Clean(s)
      BY <1>1 DEF StaysOnCur, SocketShape
    <2>2. call'[Mux].st = "writing" /\ rid[s] = "open" => call'[Mux].sock # s
      BY <2>1 DEF StaysOnCur, Clean
    <2> QED
      BY <2>1, <2>2 DEF StaysClean, Clean, IsMessage
  <1>2. ASSUME MuxDials'
        PROVE  Clean(cur)'
    <2>1. CASE rid'[cur] # "open"
      BY <2>1 DEF Clean, StaysOnCur
    <2>2. CASE MuxDials /\ call'[Mux].st # "writing"
      <3>1. Clean(cur) /\ cur \in Sockets /\ cur' = cur
        BY <2>2 DEF Shapes, SocketShape, StaysOnCur
      <3> QED
        BY <2>2, <3>1 DEF StaysClean, Clean, IsMessage
    <2> QED
      BY <1>2, <2>1, <2>2 DEF StaysOnCur
  <1> QED
    BY <1>1, <1>2 DEF SocketShape

\* Nothing is published or yielded, and nothing overtakes on the current socket.
LEMMA OrderStep ==
    ASSUME Shapes, OrderShape, Passes(inb'[cur'], inb[cur]),
           cur' \in Sockets, inb' \in [Sockets -> Seq(Arriving)],
           UNCHANGED <<published, yielded>>,
           \A m \in Messages : Holds(m)' =>
             /\ Later(m)
             /\ \A i \in DOMAIN inb'[cur'] :
                  IsMessage(inb'[cur'][i]) => Position(m) < Position(inb'[cur'][i].of)
    PROVE  OrderShape'
  <1>1. /\ \A m : Position(m)' = Position(m) /\ Published(m)' = Published(m)
        /\ \A m : Later(m)' = Later(m)
    BY DEF Position, Published, Later
  <1>3. PICK k \in Nat : \A i \in DOMAIN inb'[cur'] :
          IsMessage(inb'[cur'][i]) => i + k \in DOMAIN inb[cur] /\ inb'[cur'][i] = inb[cur][i + k]
    BY DEF Passes
  <1>4. ASSUME NEW i \in DOMAIN inb'[cur'], IsMessage(inb'[cur'][i])
        PROVE  \E m : m = inb'[cur'][i].of /\ Newer(m)'
    <2>1. Later(inb'[cur'][i].of)
      BY <1>3, <1>4 DEF OrderShape, Newer
    <2> QED
      BY <1>1, <1>4, <2>1 DEF Newer
  <1>5. ASSUME NEW i \in DOMAIN inb'[cur'], NEW j \in DOMAIN inb'[cur'], i < j,
               IsMessage(inb'[cur'][i]), IsMessage(inb'[cur'][j])
        PROVE  Position(inb'[cur'][i].of) < Position(inb'[cur'][j].of)
    <2>1. i \in Nat /\ j \in Nat
      OBVIOUS
    <2>2. i + k < j + k
      BY <1>5, <2>1
    <2> QED
      BY <1>3, <1>5, <2>2 DEF OrderShape
  <1>6. DeliveredInOrder'
    BY <1>1 DEF OrderShape, DeliveredInOrder
  <1> QED
    BY <1>1, <1>4, <1>5, <1>6 DEF OrderShape, IsMessage

LEMMA OrderKept ==
    ASSUME Shapes, OrderShape, Passes(inb'[cur'], inb[cur]),
           cur' \in Sockets, inb' \in [Sockets -> Seq(Arriving)],
           UNCHANGED <<published, yielded>>,
           \A m \in Messages : Holds(m)' => Holds(m)
    PROVE  OrderShape'
  <1>1. ASSUME NEW m \in Messages, Holds(m)', NEW i \in DOMAIN inb'[cur'],
               IsMessage(inb'[cur'][i])
        PROVE  Position(m) < Position(inb'[cur'][i].of)
    BY <1>1 DEF Passes, OrderShape, Newer
  <1>2. \A m \in Messages : Holds(m)' => Later(m)
    BY DEF OrderShape
  <1> QED
    BY <1>1, <1>2, OrderStep

\* The wire is left alone, or the current socket is closed.
LEMMA QuietSockets ==
    ASSUME Shapes, OnlySent, SocketShape, StaysOnCur, UNCHANGED <<out, subs>>,
           UNCHANGED <<rid, inb>> \/ CloseSocket(cur)
    PROVE  /\ rid' \in [Sockets -> {"unused", "open", "eof", "reset", "closed"}]
           /\ inb' \in [Sockets -> Seq(Arriving)]
           /\ OnlySent' /\ SocketShape' /\ Passes(inb'[cur'], inb[cur])
  <1>1. cur \in Sockets /\ cur' = cur
    BY DEF Shapes, StaysOnCur
  <1>2. /\ rid' \in [Sockets -> {"unused", "open", "eof", "reset", "closed"}]
        /\ inb' \in [Sockets -> Seq(Arriving)]
        /\ \A s \in Sockets : rid'[s] \in {"open", "unused"} => rid'[s] = rid[s]
        /\ \A s \in Sockets : inb'[s] = inb[s] \/ inb'[s] = <<>>
    <2>1. CASE UNCHANGED <<rid, inb>>
      BY <2>1 DEF Shapes
    <2>2. CASE rid' = [rid EXCEPT ![cur] = "closed"] /\ inb' = [inb EXCEPT ![cur] = <<>>]
      BY <1>1, <2>2, EmptyType DEF Shapes
    <2> QED
      BY <2>1, <2>2 DEF CloseSocket
  <1>3. Passes(inb'[cur'], inb[cur])
    BY <1>1, <1>2, PassesSame DEF Shapes
  <1>4. \A s \in Sockets : StaysClean(s)
    BY <1>2 DEF StaysClean, Clean, IsMessage
  <1>5. \A s \in Sockets : rid'[s] = "unused" => out'[s] = <<>> /\ inb'[s] = <<>> /\ subs'[s] = {}
    BY <1>2 DEF SocketShape
  <1>6. SocketShape'
    BY <1>4, <1>5, SocketsKept
  <1> QED
    BY <1>2, <1>3, <1>6 DEF OnlySent

LEMMA QuietStep ==
    ASSUME Shapes, OnlySent, SocketShape, OrderShape, StaysOnCur,
           UNCHANGED <<out, subs, published, yielded>>,
           UNCHANGED <<rid, inb>> \/ CloseSocket(cur),
           \A m \in Messages : Holds(m)' => Holds(m)
    PROVE  /\ rid' \in [Sockets -> {"unused", "open", "eof", "reset", "closed"}]
           /\ inb' \in [Sockets -> Seq(Arriving)]
           /\ OnlySent' /\ SocketShape' /\ OrderShape'
  <1>1. cur' \in Sockets
    BY DEF Shapes, StaysOnCur
  <1> QED
    BY <1>1, QuietSockets, OrderKept

-----------------------------------------------------------------------------
(* What a fibre's step does to its own call and task.                       *)

LEMMA Basics ==
    /\ Mux \in Fibers /\ Recv \in Fibers /\ Mux # Recv
    /\ Sendable \subseteq Requests \ Messages
    /\ Commands \subseteq Sendable /\ Internal \subseteq Sendable \ Commands
    /\ "PING" \in Internal
    /\ \A i \in 1 .. Len(Hello) : Hello[i] \in Internal
  <1>1. \A i \in 1 .. Len(Hello) : Hello[i] \in Internal
    <2> SUFFICES ASSUME NEW i \in 1 .. Len(Hello) PROVE Hello[i] \in Internal
      OBVIOUS
    <2>1. Hello # <<>> /\ Hello[i] \in {"AUTH", "SELECT", "SETNAME"}
      BY ConnectionAssumption
    <2> QED
      BY <2>1 DEF Internal
  <1>2. /\ Internal \subseteq {"PING", "AUTH", "SELECT", "SETNAME"}
        /\ {"PING", "AUTH", "SELECT", "SETNAME"} \subseteq Requests \ Messages
        /\ {"PING", "AUTH", "SELECT", "SETNAME"} \cap Commands = {}
    BY WireAssumption, ConnectionAssumption, MuxAssumption, PubSubAssumption DEF Internal
  <1>3. Mux \in Fibers /\ Recv \in Fibers /\ Mux # Recv /\ Commands \subseteq Requests \ Messages
    BY WireAssumption, ConnectionAssumption, MuxAssumption, PubSubAssumption
  <1> QED
    BY <1>1, <1>2, <1>3 DEF Internal, Sendable

\* It has just called sendCommand() on the current connection.
Begins(f, r) ==
    /\ call' \in [Fibers -> Calls] /\ SameCalls(f)
    /\ call'[f].sock = cur'
    /\ \/ call'[f].st = "writing" /\ call'[f].req = r
       \/ call'[f].st = "done" /\ call'[f].res \in Outcomes(Requests)

\* It has consumed the result of its last call.
Ends(f) == call' \in [Fibers -> Calls] /\ SameCalls(f) /\ call'[f].st = "idle"

LEMMA SendBegins ==
    ASSUME NEW f \in Fibers, call \in [Fibers -> Calls], NEW s \in Sockets, s = cur',
           NEW r \in Requests, NEW locks, Send(f, s, r, locks)
    PROVE  Begins(f, r)
  <1>1. Fault("TypeError") \in Outcomes(Requests)
    BY OutcomeType DEF FaultKinds
  <1>2. PICK x \in {"writing", "done"}, o \in Outcomes(Requests) \cup {None} :
          /\ call' = [call EXCEPT ![f] = [st |-> x, sock |-> s, req |-> r, res |-> o]]
          /\ x = "done" => o = Fault("TypeError")
    <2>1. CASE s # NoSocket /\ locks[s] = None
      BY <2>1 DEF Send
    <2>2. CASE ~ (s # NoSocket /\ locks[s] = None)
      BY <1>1, <2>2 DEF Send
    <2> QED
      BY <2>1, <2>2
  <1>3. [st |-> x, sock |-> s, req |-> r, res |-> o] \in Calls
    BY DEF Calls, CallStates
  <1> QED
    BY <1>1, <1>2, <1>3 DEF Begins, SameCalls

LEMMA EndCallEnds ==
    ASSUME NEW f \in Fibers, call \in [Fibers -> Calls], call' = [call EXCEPT ![f] = NoCall]
    PROVE  Ends(f)
  BY NoCallType DEF Ends, SameCalls

\* A step of connect() or reconnect() ends the fibre's call or begins the next.
ConnMoves(f) ==
    /\ task' \in [Fibers -> Tasks] /\ SameTasks(f) /\ task'[f].pc # "idle"
    /\ \/ Ends(f)
       \/ /\ \E r \in Internal : Begins(f, r)
          /\ task'[f].pc \in {"hello", "ping", "reping"}

\* A fibre's task moves on.
LEMMA TaskMoves ==
    ASSUME NEW f \in Fibers, task \in [Fibers -> Tasks], NEW p \in TaskStates,
           \/ task' = [task EXCEPT ![f] = [@ EXCEPT !.pc = p]]
           \/ task' = [task EXCEPT ![f].pc = p]
           \/ \E o \in Outcomes(Requests) :
                task' = [task EXCEPT ![f] = [@ EXCEPT !.pc = p, !.err = o]]
    PROVE  task' \in [Fibers -> Tasks] /\ SameTasks(f) /\ task'[f].pc = p
  <1>1. task[f] \in Tasks
    OBVIOUS
  <1>2. ASSUME NEW o \in Outcomes(Requests)
        PROVE  [task[f] EXCEPT !.pc = p, !.err = o] \in Tasks
    BY <1>1 DEF Tasks
  <1>3. [task[f] EXCEPT !.pc = p] \in Tasks
    BY <1>1 DEF Tasks
  <1>4. CASE task' = [task EXCEPT ![f] = [@ EXCEPT !.pc = p]] \/ task' = [task EXCEPT ![f].pc = p]
    <2>1. task' = [task EXCEPT ![f] = [task[f] EXCEPT !.pc = p]]
      BY <1>4
    <2>2. [task[f] EXCEPT !.pc = p].pc = p
      BY <1>1 DEF Tasks
    <2> QED
      BY <1>3, <2>1, <2>2 DEF SameTasks
  <1>5. ASSUME NEW o \in Outcomes(Requests),
               task' = [task EXCEPT ![f] = [@ EXCEPT !.pc = p, !.err = o]]
        PROVE  task' \in [Fibers -> Tasks] /\ SameTasks(f) /\ task'[f].pc = p
    <2>1. [task[f] EXCEPT !.pc = p, !.err = o].pc = p
      BY <1>1 DEF Tasks
    <2> QED
      BY <1>2, <1>5, <2>1 DEF SameTasks
  <1> QED
    BY <1>4, <1>5

LEMMA ConnectedMoves ==
    ASSUME NEW f \in Fibers, call \in [Fibers -> Calls], task \in [Fibers -> Tasks],
           NEW s \in Sockets, s = cur', NEW locks, Connected(f, s, locks)
    PROVE  ConnMoves(f)
  <1>1. "reping" \in TaskStates /\ "ok" \in TaskStates
    BY DEF TaskStates
  <1>2. CASE task[f].mode = "reconnect"
    <2>1. task' = [task EXCEPT ![f].pc = "reping"] /\ Send(f, s, "PING", locks)
      BY <1>2 DEF Connected
    <2>2. Begins(f, "PING")
      BY <2>1, Basics, SendBegins
    <2>3. task' \in [Fibers -> Tasks] /\ SameTasks(f) /\ task'[f].pc = "reping"
      BY <1>1, <2>1, TaskMoves
    <2> QED
      BY <2>2, <2>3, Basics DEF ConnMoves
  <1>3. CASE task[f].mode # "reconnect"
    <2>1. task' = [task EXCEPT ![f].pc = "ok"] /\ call' = [call EXCEPT ![f] = NoCall]
      BY <1>3 DEF Connected
    <2>2. task' \in [Fibers -> Tasks] /\ SameTasks(f) /\ task'[f].pc = "ok"
      BY <1>1, <2>1, TaskMoves
    <2> QED
      BY <2>1, <2>2, EndCallEnds DEF ConnMoves
  <1> QED
    BY <1>2, <1>3

LEMMA CatchMoves ==
    ASSUME NEW f \in Fibers, call \in [Fibers -> Calls], task \in [Fibers -> Tasks],
           NEW o \in Outcomes(Requests), ConnectCatches(f, o)
    PROVE  ConnMoves(f)
  <1>1. Ends(f)
    BY EndCallEnds DEF ConnectCatches
  <1>2. \/ task' = [task EXCEPT ![f] = [@ EXCEPT !.pc = "failed", !.err = o]]
        \/ task' = [task EXCEPT ![f] = [@ EXCEPT !.pc = "delay"]]
    BY DEF ConnectCatches
  <1>3. "failed" \in TaskStates /\ "delay" \in TaskStates
    BY DEF TaskStates
  <1>4. CASE task' = [task EXCEPT ![f] = [@ EXCEPT !.pc = "failed", !.err = o]]
    <2>1. task' \in [Fibers -> Tasks] /\ SameTasks(f) /\ task'[f].pc = "failed"
      BY <1>3, <1>4, TaskMoves
    <2> QED
      BY <1>1, <2>1 DEF ConnMoves
  <1>5. CASE task' = [task EXCEPT ![f] = [@ EXCEPT !.pc = "delay"]]
    <2>1. task' \in [Fibers -> Tasks] /\ SameTasks(f) /\ task'[f].pc = "delay"
      BY <1>3, <1>5, TaskMoves
    <2> QED
      BY <1>1, <2>1 DEF ConnMoves
  <1> QED
    BY <1>2, <1>4, <1>5

LEMMA SendMoves ==
    ASSUME NEW f \in Fibers, call \in [Fibers -> Calls], NEW s \in Sockets, s = cur',
           NEW i \in 1 .. Len(Hello), NEW locks, Send(f, s, Hello[i], locks),
           task' \in [Fibers -> Tasks], SameTasks(f), task'[f].pc = "hello"
    PROVE  ConnMoves(f)
  <1>1. Hello[i] \in Internal
    BY Basics
  <1>2. Begins(f, Hello[i])
    BY Basics, <1>1, SendBegins
  <1> QED
    BY <1>1, <1>2 DEF ConnMoves

LEMMA DialOkMoves ==
    ASSUME NEW f \in Fibers, Shapes, DialOk(f)
    PROVE  ConnMoves(f) /\ cur' \in Sockets /\ task'[f].pc \notin {"dialing", "delay"}
  <1>1. call \in [Fibers -> Calls] /\ task \in [Fibers -> Tasks] /\ task[f] \in Tasks
    BY DEF Shapes
  <1>2. PICK s \in Sockets :
          /\ cur' = s
          /\ IF Hello = <<>>
             THEN Connected(f, s, wlock)
             ELSE /\ task' = [task EXCEPT ![f].pc = "hello", ![f].step = 1]
                  /\ Send(f, s, Hello[1], wlock)
    BY DEF DialOk
  <1>3. CASE Hello = <<>>
    <2>1. Connected(f, s, wlock)
      BY <1>2, <1>3
    <2>2. task'[f].pc \in {"reping", "ok"}
      BY <1>1, <2>1 DEF Connected, Tasks
    <2> QED
      BY <1>1, <1>2, <2>1, <2>2, ConnectedMoves
  <1>4. CASE Hello # <<>>
    <2>1. 1 \in 1 .. Len(Hello) /\ 1 \in 0 .. Len(Hello)
      BY <1>4, ConnectionAssumption
    <2>2. task' \in [Fibers -> Tasks] /\ SameTasks(f) /\ task'[f].pc = "hello"
      <3>1. task' = [task EXCEPT ![f].pc = "hello", ![f].step = 1]
        BY <1>2, <1>4
      <3> QED
        BY <1>1, <2>1, <3>1 DEF Tasks, TaskStates, SameTasks
    <2> QED
      BY <1>1, <1>2, <1>4, <2>1, <2>2, SendMoves
  <1> QED
    BY <1>2, <1>3, <1>4

LEMMA HelloStepMoves ==
    ASSUME NEW f \in Fibers, Shapes, HelloStep(f)
    PROVE  ConnMoves(f) /\ task'[f].pc \notin {"dialing", "delay"}
  <1>1. /\ call \in [Fibers -> Calls] /\ task \in [Fibers -> Tasks] /\ task[f] \in Tasks
        /\ cur \in Sockets /\ cur' = cur /\ task[f].pc = "hello"
    BY DEF Shapes, HelloStep
  <1>2. CASE task[f].step < Len(Hello)
    <2>1. task' = [task EXCEPT ![f].step = @ + 1] /\ Send(f, cur, Hello[task[f].step + 1], wlock)
      BY <1>2 DEF HelloStep
    <2>2. task[f].step + 1 \in 1 .. Len(Hello) /\ task[f].step + 1 \in 0 .. Len(Hello)
      BY <1>1, <1>2, ConnectionAssumption DEF Tasks
    <2>3. task' \in [Fibers -> Tasks] /\ SameTasks(f) /\ task'[f].pc = "hello"
      BY <1>1, <2>1, <2>2 DEF Tasks, SameTasks
    <2> QED
      BY <1>1, <2>1, <2>2, <2>3, SendMoves
  <1>3. CASE ~ (task[f].step < Len(Hello))
    <2>1. Connected(f, cur, wlock)
      BY <1>3 DEF HelloStep
    <2>2. task'[f].pc \in {"reping", "ok"}
      BY <1>1, <2>1 DEF Connected, Tasks
    <2> QED
      BY <1>1, <2>1, <2>2, ConnectedMoves
  <1> QED
    BY <1>2, <1>3

LEMMA FailsMoves ==
    ASSUME NEW f \in Fibers, Shapes, CallShapes, DialFails(f) \/ HelloFails(f)
    PROVE  ConnMoves(f)
  <1>1. call \in [Fibers -> Calls] /\ task \in [Fibers -> Tasks]
    BY DEF Shapes
  <1>2. /\ Fault("ConnectionRefused") \in Outcomes(Requests)
        /\ Fault("Authentication") \in Outcomes(Requests)
        /\ CallDone(f) => call[f].res \in Outcomes(Requests)
    BY OutcomeType DEF FaultKinds, CallShapes, CallShape, CallDone
  <1>3. PICK o \in Outcomes(Requests) : ConnectCatches(f, o)
    BY <1>2 DEF DialFails, HelloFails
  <1> QED
    BY <1>1, <1>3, CatchMoves

LEMMA DelayOverMoves ==
    ASSUME NEW f \in Fibers, Shapes, CallShapes, DelayOver(f)
    PROVE  ConnMoves(f)
  <1>1. /\ call \in [Fibers -> Calls] /\ task \in [Fibers -> Tasks] /\ task[f] \in Tasks
        /\ call[f].st = "idle" /\ call' = call
    BY DEF Shapes, CallShapes, CallShape, DelayOver, wireVars
  <1>2. Ends(f)
    BY <1>1 DEF Ends, SameCalls
  <1>3. task' \in [Fibers -> Tasks] /\ SameTasks(f) /\ task'[f].pc = "dialing"
    <2> DEFINE t == [task[f] EXCEPT !.pc = "dialing", !.dials = @ + 1]
    <2>1. t \in Tasks /\ t.pc = "dialing"
      <3>1. task[f].dials + 1 \in Nat
        BY <1>1 DEF Tasks
      <3> QED
        BY <1>1, <3>1 DEF Tasks, TaskStates
    <2>2. task' = [task EXCEPT ![f] = t]
      BY DEF DelayOver
    <2> HIDE DEF t
    <2> QED
      BY <1>1, <2>1, <2>2 DEF SameTasks
  <1> QED
    BY <1>2, <1>3 DEF ConnMoves

LEMMA PingMoves ==
    ASSUME NEW f \in Fibers, Shapes, CallShapes, PingOk(f) \/ PingFails(f) \/ RePing(f)
    PROVE  ConnMoves(f) /\ (PingOk(f) \/ RePing(f) => task'[f].pc \in {"ok", "failed"})
  <1>1. /\ call \in [Fibers -> Calls] /\ task \in [Fibers -> Tasks] /\ task[f] \in Tasks
        /\ call[f].res \in Outcomes(Requests)
    BY DEF Shapes, CallShapes, CallShape, PingOk, PingFails, RePing, CallDone
  <1>2. Ends(f)
    BY <1>1, EndCallEnds DEF PingOk, PingFails, RePing, EndCall
  <1>3. "ok" \in TaskStates /\ "failed" \in TaskStates /\ "dialing" \in TaskStates
    BY DEF TaskStates
  <1>4. CASE PingOk(f)
    <2>1. task' = [task EXCEPT ![f].pc = "ok"]
      BY <1>4 DEF PingOk
    <2>2. task' \in [Fibers -> Tasks] /\ SameTasks(f) /\ task'[f].pc = "ok"
      BY <1>1, <1>3, <2>1, TaskMoves
    <2> QED
      BY <1>2, <2>2 DEF ConnMoves
  <1>5. CASE PingFails(f)
    <2>1. task' = [task EXCEPT ![f] = [NoTask EXCEPT !.pc = "dialing", !.mode = "reconnect",
                                                      !.dials = 1]]
      BY <1>5 DEF PingFails, StartConnect
    <2>2. task' \in [Fibers -> Tasks] /\ SameTasks(f) /\ task'[f].pc = "dialing"
      BY <1>1, <2>1, NoTaskType DEF Tasks, TaskStates, SameTasks
    <2>3. ~ PingOk(f) /\ ~ RePing(f)
      BY <1>5 DEF PingOk, PingFails, RePing
    <2> QED
      BY <1>2, <2>2, <2>3 DEF ConnMoves
  <1>6. CASE RePing(f)
    <2>1. \/ task' = [task EXCEPT ![f] = [@ EXCEPT !.pc = "ok"]]
          \/ task' = [task EXCEPT ![f] = [@ EXCEPT !.pc = "failed", !.err = call[f].res]]
      BY <1>6 DEF RePing
    <2>2. CASE task' = [task EXCEPT ![f] = [@ EXCEPT !.pc = "ok"]]
      <3>1. task' \in [Fibers -> Tasks] /\ SameTasks(f) /\ task'[f].pc = "ok"
        BY <1>1, <1>3, <2>2, TaskMoves
      <3> QED
        BY <1>2, <3>1 DEF ConnMoves
    <2>3. CASE task' = [task EXCEPT ![f] = [@ EXCEPT !.pc = "failed", !.err = call[f].res]]
      <3>1. task' \in [Fibers -> Tasks] /\ SameTasks(f) /\ task'[f].pc = "failed"
        BY <1>1, <1>3, <2>3, TaskMoves
      <3> QED
        BY <1>2, <3>1 DEF ConnMoves
    <2> QED
      BY <2>1, <2>2, <2>3
  <1> QED
    BY <1>4, <1>5, <1>6

\* Such a step keeps what is known of the calls and tasks.
LEMMA MovesShape ==
    ASSUME NEW f \in {Mux, Recv}, CallShapes, FibreShape, ConnMoves(f), cur' \in Sockets,
           task[f].pc # "idle", UNCHANGED <<loop, queue, isProcessing>>
    PROVE  CallShapes' /\ FibreShape'
  <1>1. CallShape(f)'
    BY Basics DEF ConnMoves, Begins, Ends, CallShape
  <1>2. \A g \in Fibers \ {f} : CallShape(g)'
    BY DEF CallShapes, CallShape, ConnMoves, Begins, Ends, SameCalls, SameTasks
  <1>3. FibreShape'
    BY Basics DEF FibreShape, ConnMoves, Begins, Ends, SameCalls, SameTasks
  <1> QED
    BY <1>1, <1>2 , <1>3 DEF CallShapes

\* What is left to show of a step of connect() and reconnect() but DialOk: that the
\* executor does not come to dial while the current socket is open.
LEMMA ConnStaysOnCur ==
    ASSUME NEW f \in {Mux, Recv}, CallShapes, FibreShape, ConnMoves(f), task[f].pc # "idle",
           cur \in Sockets, cur' = cur, loop' = loop,
           f = Mux /\ MuxDials' => MuxDials \/ rid'[cur] # "open"
    PROVE  StaysOnCur /\ \A m \in Messages : Holds(m)' => Holds(m)
  <1>1. CASE f = Mux
    <2>1. call'[Recv] = call[Recv]
      BY <1>1, Basics DEF ConnMoves, Ends, Begins, SameCalls
    <2>2. \A m : Holds(m)' = Holds(m)
      BY <2>1 DEF Holds
    <2>3. \A s : ReadsFrom(s)' = ReadsFrom(s)
      BY <2>1 DEF ReadsFrom
    <2>4. call'[Mux].st = "writing" => call'[Mux].sock = cur
      BY <1>1 DEF ConnMoves, Ends, Begins
    <2>5. MuxDials' => call'[Mux].st # "writing"
      BY <1>1 DEF ConnMoves, Ends, MuxDials
    <2> QED
      BY <1>1, <2>2, <2>3, <2>4, <2>5 DEF StaysOnCur
  <1>2. CASE f = Recv
    <2>1. loop = "reconnecting" /\ loop' = "reconnecting"
      BY <1>2 DEF FibreShape
    <2>2. \A m : ~ Holds(m)'
      BY <2>1 DEF Holds
    <2>3. \A s : ~ ReadsFrom(s)'
      BY <2>1 DEF ReadsFrom
    <2>4. call'[Mux] = call[Mux] /\ task'[Mux] = task[Mux]
      BY <1>2, Basics DEF ConnMoves, Ends, Begins, SameCalls, SameTasks
    <2>5. MuxDials => call[Mux].st = "idle"
      BY Basics DEF MuxDials, CallShapes, CallShape
    <2>6. MuxDials' = MuxDials
      BY <2>4 DEF MuxDials
    <2> QED
      BY <2>2, <2>3, <2>4, <2>5, <2>6 DEF StaysOnCur
  <1> QED
    BY <1>1, <1>2

\* What connect() and reconnect() leave alone.
subRest == <<queue, isProcessing, channels, loop, resub, subs, published, yielded>>

LEMMA ConnStepKeeps ==
    ASSUME NEW f \in {Mux, Recv}, SubInv, ConnStep(f), ~ DialOk(f), UNCHANGED subRest
    PROVE  SubInv'
  <1>1. /\ Shapes /\ CallShapes /\ OnlySent /\ FibreShape /\ SocketShape /\ OrderShape
        /\ f \in Fibers /\ cur \in Sockets
    BY Basics DEF SubInv, Shapes
  <1>2. /\ \/ DialFails(f) \/ HelloStep(f) \/ HelloFails(f) \/ DelayOver(f)
           \/ PingOk(f) \/ PingFails(f) \/ RePing(f)
        /\ cur' = cur /\ out' = out /\ task[f].pc # "idle"
    BY DEF ConnStep, DialFails, HelloStep, HelloFails, DelayOver, PingOk, PingFails, RePing,
           wireVars
  <1>3. ConnMoves(f)
    BY <1>1, <1>2, HelloStepMoves, FailsMoves, DelayOverMoves, PingMoves
  <1>4. UNCHANGED <<rid, inb>> \/ CloseSocket(cur)
    BY <1>2
    DEF DialFails, HelloStep, HelloFails, DelayOver, PingOk, PingFails, RePing, wireVars, CloseNow
  <1>5. ASSUME f = Mux, MuxDials'
        PROVE  MuxDials \/ rid'[cur] # "open"
    <2>1. ~ HelloStep(Mux) /\ ~ PingOk(Mux) /\ ~ RePing(Mux)
      <3>1. task'[Mux].pc \in {"dialing", "delay"}
        BY <1>5 DEF MuxDials
      <3>2. ~ HelloStep(Mux)
        BY <1>1, <1>5, <3>1, HelloStepMoves
      <3>3. PingOk(Mux) \/ RePing(Mux) => task'[Mux].pc \in {"ok", "failed"}
        BY <1>1, Basics, PingMoves
      <3> QED
        BY <3>1, <3>2, <3>3
    <2>2. CASE DialFails(Mux) \/ DelayOver(Mux)
      BY <2>2 DEF DialFails, DelayOver, MuxDials
    <2>3. CASE HelloFails(Mux) \/ PingFails(Mux)
      <3>1. CloseSocket(cur)
        BY <2>3 DEF HelloFails, PingFails, CloseNow
      <3>2. cur # NoSocket /\ rid \in [Sockets -> {"unused", "open", "eof", "reset", "closed"}]
        BY <1>1, WireAssumption DEF Shapes, NoSocket, Sockets
      <3> QED
        BY <1>1, <3>1, <3>2 DEF CloseSocket
    <2> QED
      BY <1>2, <1>5, <2>1, <2>2, <2>3
  <1>6. UNCHANGED <<loop, queue, isProcessing, subs, published, yielded, channels, resub>>
    BY DEF subRest
  <1>7. CallShapes' /\ FibreShape'
    BY <1>1, <1>2, <1>3, <1>6, MovesShape
  <1>8. StaysOnCur /\ \A m \in Messages : Holds(m)' => Holds(m)
    BY <1>1, <1>2, <1>3, <1>5, <1>6, ConnStaysOnCur
  <1>9. /\ rid' \in [Sockets -> {"unused", "open", "eof", "reset", "closed"}]
        /\ inb' \in [Sockets -> Seq(Arriving)]
        /\ OnlySent' /\ SocketShape' /\ OrderShape'
    BY <1>1, <1>2, <1>4, <1>6, <1>8, QuietStep
  <1>10. Shapes'
    <2>1. call' \in [Fibers -> Calls] /\ task' \in [Fibers -> Tasks]
      BY <1>3 DEF ConnMoves, Begins, Ends
    <2> QED
      BY <1>1, <1>2, <1>6, <1>9, <2>1 DEF Shapes
  <1> QED
    BY <1>7, <1>9, <1>10 DEF SubInv

LEMMA DialOkKeeps ==
    ASSUME NEW f \in {Mux, Recv}, SubInv, DialOk(f), UNCHANGED subRest
    PROVE  SubInv'
  <1>1. /\ Shapes /\ CallShapes /\ OnlySent /\ FibreShape /\ SocketShape /\ OrderShape
        /\ f \in Fibers
    BY Basics DEF SubInv
  <1>2. /\ ConnMoves(f) /\ cur' \in Sockets /\ task'[f].pc \notin {"dialing", "delay"}
        /\ task[f].pc = "dialing"
        /\ UNCHANGED <<out, inb, queue, isProcessing, channels, loop, resub, subs, published,
                       yielded>>
    BY <1>1, DialOkMoves DEF DialOk, subRest
  <1>3. rid[cur'] = "unused" /\ rid' = [rid EXCEPT ![cur'] = "open"]
    BY DEF DialOk, IsFresh
  <1>4. CallShapes' /\ FibreShape'
    BY <1>1, <1>2, MovesShape
  <1>5. Shapes'
    <2>1. rid' \in [Sockets -> {"unused", "open", "eof", "reset", "closed"}]
      BY <1>1, <1>3 DEF Shapes
    <2>2. call' \in [Fibers -> Calls] /\ task' \in [Fibers -> Tasks]
      BY <1>2 DEF ConnMoves, Begins, Ends
    <2> QED
      BY <1>1, <1>2, <2>1, <2>2 DEF Shapes
  <1>6. out[cur'] = <<>> /\ inb[cur'] = <<>> /\ subs[cur'] = {}
    BY <1>1, <1>2, <1>3 DEF SocketShape
  <1>7. call'[Mux].st = "writing" /\ f = Mux => call'[Mux].sock = cur'
    BY <1>2 DEF ConnMoves, Begins, Ends
  <1>8. ASSUME NEW s \in Sockets, ReadsFrom(s)', s # cur'
        PROVE  Clean(s)'
    <2>1. f = Mux
      BY <1>1, <1>2, <1>8 DEF FibreShape, ReadsFrom
    <2>2. call'[Recv] = call[Recv]
      BY <1>2, <2>1, Basics DEF ConnMoves, Begins, Ends, SameCalls
    <2>3. ReadsFrom(s) /\ MuxDials
      BY <1>2, <1>8, <2>1, <2>2 DEF ReadsFrom, MuxDials
    <2>4. Clean(s)
      BY <1>1, <2>3 DEF SocketShape
    <2>5. rid'[s] = rid[s]
      BY <1>3, <1>8
    <2> QED
      BY <1>2, <1>7, <1>8, <2>1, <2>4, <2>5 DEF Clean, IsMessage
  <1>9. ASSUME MuxDials'
        PROVE  Clean(cur)'
    <2>1. f = Recv
      BY <1>2, <1>9 DEF MuxDials
    <2>2. call'[Mux] = call[Mux] /\ task'[Mux] = task[Mux]
      BY <1>2, <2>1, Basics DEF ConnMoves, Begins, Ends, SameCalls, SameTasks
    <2>3. call'[Mux].st = "idle"
      BY <1>1, <1>9, <2>2, Basics DEF MuxDials, CallShapes, CallShape
    <2> QED
      BY <1>2, <1>6, <2>3 DEF Clean
  <1>10. SocketShape'
    <2>1. ASSUME NEW s \in Sockets, rid'[s] = "unused"
          PROVE  rid[s] = "unused"
      BY <1>1, <1>2, <1>3, <2>1 DEF Shapes
    <2> QED
      BY <1>1, <1>2, <1>8, <1>9, <2>1 DEF SocketShape
  <1>11. OrderShape'
    <2>1. Passes(inb'[cur'], inb[cur])
      BY <1>1, <1>2, <1>6, PassesSame DEF Shapes
    <2>2. ASSUME NEW m \in Messages, Holds(m)'
          PROVE  Holds(m)
      <3>1. f = Mux
        BY <1>1, <1>2, <2>2 DEF FibreShape, Holds
      <3>2. call'[Recv] = call[Recv]
        BY <1>2, <3>1, Basics DEF ConnMoves, Begins, Ends, SameCalls
      <3> QED
        BY <1>2, <2>2, <3>2 DEF Holds
    <2>3. inb' \in [Sockets -> Seq(Arriving)]
      BY <1>1, <1>2 DEF Shapes
    <2> QED
      BY <1>1, <1>2, <2>1, <2>2, <2>3, OrderKept
  <1> QED
    BY <1>1, <1>2, <1>4, <1>5, <1>10, <1>11 DEF SubInv, OnlySent

-----------------------------------------------------------------------------
(* The steps of one sendCommand(), and of the readReply() of receive().     *)

\* The call goes on on its socket, or is over.
CallMoves(f) ==
    /\ call' \in [Fibers -> Calls] /\ SameCalls(f) /\ call[f].sock \in Sockets
    /\ call'[f].sock = call[f].sock
    /\ \/ call[f].st = "writing" /\ call'[f].st = "written"
       \/ call[f].st = "written" /\ call'[f].st = "reading"
       \/ /\ call[f].st \in {"writing", "written", "reading"}
          /\ call'[f].st = "done" /\ call'[f].res \in Outcomes(Requests)

\* What it does to the sockets but to write.
WireMoves ==
    /\ rid' \in [Sockets -> {"unused", "open", "eof", "reset", "closed"}]
    /\ inb' \in [Sockets -> Seq(Arriving)]
    /\ \A s \in Sockets :
         /\ rid'[s] \in {"open", "unused"} => rid'[s] = rid[s]
         /\ rid'[s] = "unused" => inb'[s] = inb[s]
         /\ Passes(inb'[s], inb[s])

LEMMA WireStays ==
    ASSUME Shapes, UNCHANGED <<rid, inb>>
    PROVE  WireMoves
  BY PassesSame DEF Shapes, WireMoves

\* The socket breaks under the call.
LEMMA WireBreaks ==
    ASSUME Shapes, NEW s \in Sockets, rid[s] = "open",
           NEW x \in {"eof", "reset"}, rid' = [rid EXCEPT ![s] = x],
           inb' = [inb EXCEPT ![s] = <<>>]
    PROVE  WireMoves
  <1>1. /\ rid' \in [Sockets -> {"unused", "open", "eof", "reset", "closed"}]
        /\ inb' \in [Sockets -> Seq(Arriving)]
    BY EmptyType DEF Shapes
  <1>2. \A u \in Sockets : u # s => rid'[u] = rid[u] /\ inb'[u] = inb[u]
    BY DEF Shapes
  <1>3. rid'[s] = x /\ inb'[s] = <<>>
    BY DEF Shapes
  <1>4. \A u \in Sockets : Passes(inb'[u], inb[u])
    BY <1>2, <1>3, PassesSame DEF Shapes
  <1> QED
    BY <1>1, <1>2, <1>3, <1>4 DEF WireMoves

LEMMA CallIsOver ==
    ASSUME NEW f \in Fibers, call \in [Fibers -> Calls], call[f].sock \in Sockets,
           call[f].st \in {"writing", "written", "reading"},
           NEW o \in Outcomes(Requests), call' = [call EXCEPT ![f] = Done(f, o)]
    PROVE  CallMoves(f) /\ call'[f].res = o /\ call'[f].st = "done"
  <1>1. call[f] \in Calls
    OBVIOUS
  <1> QED
    BY <1>1, DoneType DEF CallMoves, SameCalls

LEMMA CallGoes ==
    ASSUME NEW f \in Fibers, call \in [Fibers -> Calls], call[f].sock \in Sockets,
           NEW x \in {"written", "reading"}, call' = [call EXCEPT ![f].st = x],
           \/ call[f].st = "writing" /\ x = "written"
           \/ call[f].st = "written" /\ x = "reading"
    PROVE  CallMoves(f)
  <1>1. call' = [call EXCEPT ![f] = [call[f] EXCEPT !.st = x]]
    OBVIOUS
  <1>2. [call[f] EXCEPT !.st = x] \in Calls
    BY CallStType DEF CallStates
  <1>3. [call[f] EXCEPT !.st = x].st = x /\ [call[f] EXCEPT !.st = x].sock = call[f].sock
    BY DEF Calls
  <1> QED
    BY <1>1, <1>2, <1>3 DEF CallMoves, SameCalls

LEMMA WriteOkMoves ==
    ASSUME NEW f \in Fibers, Shapes, CallShapes, WriteOk(f)
    PROVE  CallMoves(f) /\ WireMoves
  <1>1. call \in [Fibers -> Calls] /\ call[f].sock \in Sockets /\ call[f].st = "writing"
    BY DEF Shapes, CallShapes, CallShape, WriteOk
  <1>2. call' = [call EXCEPT ![f].st = "written"] /\ UNCHANGED <<rid, inb>>
    BY DEF WriteOk
  <1> QED
    BY <1>1, <1>2, CallGoes, WireStays

LEMMA WriteFailsMoves ==
    ASSUME NEW f \in Fibers, Shapes, CallShapes, WriteFails(f)
    PROVE  /\ CallMoves(f) /\ WireMoves
           /\ call'[f].st = "done" /\ call'[f].res.kind = "fault" /\ out' = out
  <1> DEFINE s == call[f].sock
  <1>1. call \in [Fibers -> Calls] /\ s \in Sockets /\ call[f].st = "writing" /\ out' = out
    BY DEF Shapes, CallShapes, CallShape, WriteFails
  <1>2. PICK e \in FaultKinds :
          /\ call' = [call EXCEPT ![f] = Done(f, Fault(e))]
          /\ \/ /\ rid[s] = "open"
                /\ rid' = [rid EXCEPT ![s] = "reset"]
                /\ inb' = [inb EXCEPT ![s] = <<>>]
             \/ UNCHANGED <<rid, inb>>
    BY DEF WriteFails
  <1>3. Fault(e) \in Outcomes(Requests) /\ Fault(e).kind = "fault"
    BY OutcomeType
  <1>4. WireMoves
    BY <1>1, <1>2, WireStays, WireBreaks
  <1> QED
    BY <1>1, <1>2, <1>3, <1>4, CallIsOver

LEMMA StartReadMoves ==
    ASSUME NEW f \in Fibers, Shapes, CallShapes, StartRead(f)
    PROVE  /\ CallMoves(f) /\ WireMoves /\ out' = out
           /\ call'[f].st = "done" => call'[f].res.kind = "fault"
  <1> DEFINE s == call[f].sock
  <1>1. call \in [Fibers -> Calls] /\ s \in Sockets /\ call[f].st = "written"
    BY DEF Shapes, CallShapes, CallShape, StartRead
  <1>2. UNCHANGED <<rid, inb, out>>
    BY DEF StartRead
  <1>3. CASE rlock[s] = None
    <2>1. call' = [call EXCEPT ![f].st = "reading"]
      BY <1>3 DEF StartRead
    <2>2. call'[f].st = "reading"
      BY <1>1, <2>1 DEF Calls
    <2> QED
      BY <1>1, <1>2, <2>1, <2>2, CallGoes, WireStays
  <1>4. CASE rlock[s] # None
    <2>1. call' = [call EXCEPT ![f] = Done(f, Fault("TypeError"))]
      BY <1>4 DEF StartRead
    <2>2. Fault("TypeError") \in Outcomes(Requests) /\ Fault("TypeError").kind = "fault"
      BY OutcomeType DEF FaultKinds
    <2> QED
      BY <1>1, <1>2, <2>1, <2>2, CallIsOver, WireStays
  <1> QED
    BY <1>3, <1>4

LEMMA ReadReplyMoves ==
    ASSUME NEW f \in Fibers, Shapes, CallShapes, ReadReply(f)
    PROVE  /\ CallMoves(f) /\ WireMoves /\ out' = out /\ rid' = rid
           /\ call[f].sock \in Sockets /\ rid[call[f].sock] = "open"
           /\ inb[call[f].sock] # <<>>
           /\ call'[f].st = "done" /\ call'[f].res \in Decoded(inb[call[f].sock][1])
           /\ call'[f].res.kind = "value" => call'[f].res = inb[call[f].sock][1]
           /\ \E rest \in AfterChunk(inb[call[f].sock]) :
                inb' = [inb EXCEPT ![call[f].sock] = rest]
  <1> DEFINE s == call[f].sock
  <1>1. /\ call \in [Fibers -> Calls] /\ s \in Sockets /\ call[f].st = "reading"
        /\ rid[s] = "open" /\ rid' = rid /\ out' = out
    BY DEF Shapes, CallShapes, CallShape, ReadReply, FinishRead
  <1>2. PICK rest \in AfterChunk(inb[s]) : inb' = [inb EXCEPT ![s] = rest]
    BY DEF ReadReply
  <1>3. inb[s] \in Seq(Arriving) /\ inb \in [Sockets -> Seq(Arriving)]
    BY <1>1 DEF Shapes
  <1>4. inb[s] # <<>> /\ Head(inb[s]) = inb[s][1] /\ inb[s][1] \in Arriving
    BY <1>3 DEF ReadReply
  <1>5. PICK o \in Decoded(inb[s][1]) : call' = [call EXCEPT ![f] = Done(f, o)]
    BY <1>4 DEF ReadReply, FinishRead
  <1>6. Passes(rest, inb[s]) /\ rest \in Seq(Arriving)
    BY <1>3, PassesRest
  <1>7. WireMoves
    <2>1. inb' \in [Sockets -> Seq(Arriving)]
      BY <1>2, <1>3, <1>6
    <2>2. \A u \in Sockets : inb'[u] = IF u = s THEN rest ELSE inb[u]
      BY <1>2, <1>3
    <2>3. \A u \in Sockets : Passes(inb'[u], inb[u])
      BY <1>3, <1>6, <2>2, PassesSame
    <2> QED
      BY <1>1, <2>1, <2>2, <2>3 DEF WireMoves, Shapes
  <1>8. o \in Outcomes(Requests) /\ (o.kind = "value" => o = inb[s][1])
    BY <1>4, ReadOutcomes
  <1>9. call'[f].st = "done" /\ call'[f].res = o /\ CallMoves(f)
    BY <1>1, <1>5, <1>8, CallIsOver
  <1> QED
    BY <1>1, <1>2, <1>4, <1>5, <1>7, <1>8, <1>9

LEMMA ReadFailsMoves ==
    ASSUME NEW f \in Fibers, Shapes, CallShapes, ReadFails(f)
    PROVE  /\ CallMoves(f) /\ WireMoves
           /\ call'[f].st = "done" /\ call'[f].res.kind # "value" /\ out' = out
  <1> DEFINE s == call[f].sock
  <1>1. call \in [Fibers -> Calls] /\ s \in Sockets /\ call[f].st = "reading"
    BY DEF Shapes, CallShapes, CallShape, ReadFails
  <1>2. inb[s] \in Seq(Arriving)
    BY <1>1 DEF Shapes
  <1>3. \/ \E e \in {"EOF", "ConnectionReset", "BadResource", "Interrupted"} :
               FinishRead(f, Fault(e))
        \/ inb[s] # <<>> /\ \E o \in CutShort(Head(inb[s])) : FinishRead(f, o)
    BY DEF ReadFails
  <1>4. PICK o \in Outcomes(Requests) : FinishRead(f, o) /\ o.kind # "value"
    <2>1. \A e \in FaultKinds : Fault(e) \in Outcomes(Requests) /\ Fault(e).kind = "fault"
      BY OutcomeType
    <2>2. {"EOF", "ConnectionReset", "BadResource", "Interrupted"} \subseteq FaultKinds
      BY DEF FaultKinds
    <2>3. ASSUME inb[s] # <<>>
          PROVE  \A o \in CutShort(Head(inb[s])) : o \in Outcomes(Requests) /\ o.kind # "value"
      <3>1. Head(inb[s]) \in Arriving
        BY <1>2, <2>3
      <3> QED
        BY <3>1, ReadOutcomes
    <2> QED
      BY <1>3, <2>1, <2>2, <2>3
  <1>5. call' = [call EXCEPT ![f] = Done(f, o)] /\ out' = out
    BY <1>4 DEF FinishRead
  <1>6. WireMoves
    <2>1. \/ UNCHANGED <<rid, inb>>
          \/ /\ rid[s] = "open" /\ inb' = [inb EXCEPT ![s] = <<>>]
             /\ \E x \in {"eof", "reset"} : rid' = [rid EXCEPT ![s] = x]
      BY DEF ReadFails
    <2> QED
      BY <1>1, <2>1, WireStays, WireBreaks
  <1> QED
    BY <1>1, <1>4, <1>5, <1>6, CallIsOver

\* Any of these steps keeps what is known of calls, fibres and sockets.
LEMMA CallMovesKeeps ==
    ASSUME NEW f \in {Mux, Recv}, SubInv, CallMoves(f), WireMoves,
           UNCHANGED <<cur, task>>, UNCHANGED subRest,
           \/ out' = out
           \/ /\ call[f].st = "writing" /\ rid[call[f].sock] = "open"
              /\ out' = [out EXCEPT ![call[f].sock] = Append(@, call[f].req)]
    PROVE  Shapes' /\ CallShapes' /\ OnlySent' /\ FibreShape' /\ SocketShape'
  <1> DEFINE s == call[f].sock
  <1>1. /\ Shapes /\ CallShapes /\ OnlySent /\ FibreShape /\ SocketShape
        /\ f \in Fibers /\ s \in Sockets
    BY Basics DEF SubInv, CallMoves
  <1>2. UNCHANGED <<queue, isProcessing, channels, loop, resub, subs, published, yielded>>
    BY DEF subRest
  <1>3. CallShapes'
    <2>1. CallShape(f)'
      BY <1>1 DEF CallMoves, CallShapes, CallShape
    <2>2. \A g \in Fibers \ {f} : CallShape(g)'
      BY <1>1 DEF CallMoves, SameCalls, CallShapes, CallShape
    <2> QED
      BY <2>1, <2>2 DEF CallShapes
  <1>4. FibreShape'
    BY <1>1, <1>2, Basics DEF CallMoves, SameCalls, FibreShape
  <1>5. /\ out' \in [Sockets -> Seq(Requests)] /\ OnlySent'
        /\ \A u \in Sockets : rid[u] # "open" => out'[u] = out[u]
        /\ \A u \in Sockets : Clean(u) /\ rid[u] = "open" =>
             \A i \in DOMAIN out'[u] : out'[u][i] \notin Commands
    <2>1. CASE out' = out
      BY <1>1, <2>1 DEF Shapes, OnlySent, Clean
    <2>2. CASE /\ call[f].st = "writing" /\ rid[s] = "open"
               /\ out' = [out EXCEPT ![s] = Append(@, call[f].req)]
      <3>1. /\ out \in [Sockets -> Seq(Requests)] /\ out[s] \in Seq(Requests)
            /\ call[f].req \in Sendable
            /\ f = Recv => call[f].req \notin Commands
        BY <1>1, <2>2 DEF Shapes, CallShapes, CallShape
      <3> DEFINE q == Append(out[s], call[f].req)
      <3>2. /\ q \in Seq(Requests)
            /\ \A i \in DOMAIN q : q[i] = call[f].req \/ (i \in DOMAIN out[s] /\ q[i] = out[s][i])
        <4>1. call[f].req \in Requests
          BY Basics, <3>1
        <4>2. /\ q \in Seq(Requests) /\ Len(q) = Len(out[s]) + 1
              /\ \A i \in 1 .. Len(out[s]) : q[i] = out[s][i]
              /\ q[Len(out[s]) + 1] = call[f].req
          BY <3>1, <4>1, AppendProperties
        <4>3. DOMAIN q = 1 .. Len(q) /\ DOMAIN out[s] = 1 .. Len(out[s]) /\ Len(out[s]) \in Nat
          BY <3>1, <4>2, LenProperties
        <4> HIDE DEF q
        <4> QED
          BY <4>2, <4>3
      <3>3. out' = [out EXCEPT ![s] = q]
        BY <2>2
      <3> HIDE DEF q
      <3>4. \A u \in Sockets : out'[u] = IF u = s THEN q ELSE out[u]
        BY <3>1, <3>3
      <3>5. out' \in [Sockets -> Seq(Requests)]
        BY <3>1, <3>2, <3>3
      <3>6. OnlySent'
        BY <1>1, <3>1, <3>2, <3>4 DEF OnlySent
      <3>7. ASSUME NEW u \in Sockets, Clean(u), rid[u] = "open"
            PROVE  \A i \in DOMAIN out'[u] : out'[u][i] \notin Commands
        <4>1. CASE u # s
          BY <3>4, <3>7, <4>1 DEF Clean
        <4>2. CASE u = s
          <5>1. f = Recv
            BY <2>2, <3>7, <4>2 DEF Clean
          <5>2. \A i \in DOMAIN out[s] : out[s][i] \notin Commands
            BY <3>7, <4>2 DEF Clean
          <5>3. out'[u] = q /\ call[f].req \notin Commands
            BY <3>1, <3>4, <4>2, <5>1
          <5> QED
            BY <3>2, <5>2, <5>3
        <4> QED
          BY <4>1, <4>2
      <3> QED
        BY <2>2, <3>4, <3>5, <3>6, <3>7
    <2> QED
      BY <2>1, <2>2
  <1>6. Shapes'
    BY <1>1, <1>2, <1>5 DEF Shapes, CallMoves, WireMoves
  <1>7. \A u \in Sockets : StaysClean(u)
    <2>1. SUFFICES ASSUME NEW u \in Sockets, rid'[u] = "open", Clean(u)
                   PROVE  /\ rid[u] = "open" /\ subs'[u] = {}
                          /\ \A i \in DOMAIN inb'[u] : ~ IsMessage(inb'[u][i])
                          /\ \A i \in DOMAIN out'[u] : out'[u][i] \notin Commands
      BY DEF StaysClean
    <2>2. rid[u] = "open" /\ Passes(inb'[u], inb[u])
      BY <2>1 DEF WireMoves
    <2>3. \A i \in DOMAIN inb'[u] : ~ IsMessage(inb'[u][i])
      BY <2>1, <2>2 DEF Passes, Clean
    <2> QED
      BY <1>2, <1>5, <2>1, <2>2, <2>3 DEF Clean
  <1>8. \A u \in Sockets : rid'[u] = "unused" => out'[u] = <<>> /\ inb'[u] = <<>> /\ subs'[u] = {}
    BY <1>1, <1>2, <1>5 DEF WireMoves, SocketShape
  <1>9. StaysOnCur
    <2>1. call'[Mux].st = "writing" => call'[Mux] = call[Mux]
      BY Basics DEF CallMoves, SameCalls
    <2>2. \A u \in Sockets : ReadsFrom(u)' => ReadsFrom(u)
      BY <1>1, <1>2, Basics DEF CallMoves, SameCalls, ReadsFrom, FibreShape
    <2>3. MuxDials' => MuxDials /\ call'[Mux].st # "writing"
      BY <1>1, Basics DEF CallMoves, SameCalls, CallShapes, CallShape, MuxDials
    <2> QED
      BY <2>1, <2>2, <2>3 DEF StaysOnCur
  <1>10. SocketShape'
    BY <1>1, <1>7, <1>8, <1>9, SocketsKept
  <1> QED
    BY <1>3, <1>4, <1>5, <1>6, <1>10

\* receive() takes the next reply off the current socket.
LEMMA RecvReadsInOrder ==
    ASSUME SubInv, ReadReply(Recv), UNCHANGED <<cur, published, yielded, loop>>
    PROVE  OrderShape'
  <1> DEFINE s == call[Recv].sock
  <1>1. Shapes /\ CallShapes /\ OrderShape /\ SocketShape /\ Recv \in Fibers /\ cur \in Sockets
    BY Basics DEF SubInv, Shapes
  <1>2. /\ WireMoves /\ s \in Sockets /\ rid[s] = "open" /\ inb[s] # <<>>
        /\ call'[Recv].st = "done"
        /\ call'[Recv].res.kind = "value" => call'[Recv].res = inb[s][1]
        /\ call[Recv].st = "reading"
    BY <1>1, ReadReplyMoves DEF ReadReply
  <1>3. PICK rest \in AfterChunk(inb[s]) : inb' = [inb EXCEPT ![s] = rest]
    BY <1>1, ReadReplyMoves
  <1>4. /\ inb \in [Sockets -> Seq(Arriving)]
        /\ inb' \in [Sockets -> Seq(Arriving)]
        /\ Passes(inb'[cur'], inb[cur])
    BY <1>1, <1>2 DEF Shapes, WireMoves
  <1>5. CASE loop # "reading"
    <2>1. \A m \in Messages : ~ Holds(m)'
      BY <1>5 DEF Holds
    <2> QED
      BY <1>1, <1>4, <2>1, OrderKept
  <1>6. CASE loop = "reading" /\ s # cur
    <2>1. Clean(s)
      BY <1>1, <1>2, <1>6 DEF SocketShape, ReadsFrom
    <2>2. 1 \in DOMAIN inb[s]
      BY <1>2, <1>4
    <2>3. ~ IsMessage(inb[s][1])
      BY <1>2, <2>1, <2>2 DEF Clean
    <2>4. \A m \in Messages : ~ Holds(m)'
      BY <1>2, <2>3 DEF Holds, IsMessage, Value
    <2> QED
      BY <1>1, <1>4, <2>4, OrderKept
  <1>7. CASE loop = "reading" /\ s = cur
    <2>1. 1 \in DOMAIN inb[cur]
      BY <1>2, <1>4, <1>7
    <2>2. ASSUME NEW m \in Messages, Holds(m)'
          PROVE  IsMessage(inb[cur][1]) /\ inb[cur][1].of = m
      BY <1>2, <1>7, <2>2 DEF Holds, IsMessage, Value
    <2>3. ASSUME NEW m \in Messages, Holds(m)'
          PROVE  Later(m)
      BY <1>1, <2>1, <2>2, <2>3 DEF OrderShape, Newer
    <2>4. ASSUME NEW m \in Messages, Holds(m)', NEW i \in DOMAIN inb'[cur'],
                 IsMessage(inb'[cur'][i])
          PROVE  Position(m) < Position(inb'[cur'][i].of)
      <3>1. inb'[cur'] = rest /\ inb[cur] \in Seq(Arriving)
        BY <1>1, <1>3, <1>4, <1>7
      <3>2. PICK k \in Nat : \A n \in DOMAIN rest :
              IsMessage(rest[n]) =>
                  n + k \in DOMAIN inb[cur] /\ 1 < n + k /\ rest[n] = inb[cur][n + k]
        BY <1>7, <3>1, PassesRest
      <3>3. i + k \in DOMAIN inb[cur] /\ 1 < i + k /\ inb'[cur'][i] = inb[cur][i + k]
        BY <2>4, <3>1, <3>2
      <3>4. IsMessage(inb[cur][i + k])
        BY <2>4, <3>3
      <3>6. Position(inb[cur][1].of) < Position(inb[cur][i + k].of)
        BY <1>1, <2>1, <2>2, <2>4, <3>3, <3>4 DEF OrderShape
      <3> QED
        BY <2>2, <2>4, <3>3, <3>6
    <2> QED
      BY <1>1, <1>4, <2>3, <2>4, OrderStep
  <1> QED
    BY <1>5, <1>6, <1>7

LEMMA CallStepKeeps ==
    ASSUME NEW f \in {Mux, Recv}, SubInv, CallStep(f), UNCHANGED <<connVars, muxVars, subVars>>
    PROVE  SubInv'
  <1>1. /\ Shapes /\ CallShapes /\ OrderShape /\ SocketShape /\ FibreShape
        /\ f \in Fibers /\ cur \in Sockets
    BY Basics DEF SubInv, Shapes
  <1>2. UNCHANGED <<cur, task>> /\ UNCHANGED subRest
    BY DEF connVars, muxVars, subVars, subRest
  <1>3. UNCHANGED <<published, yielded, loop>>
    BY DEF subVars
  <1>4. CallMoves(f) /\ WireMoves
    BY <1>1, WriteOkMoves, WriteFailsMoves, StartReadMoves, ReadReplyMoves, ReadFailsMoves
    DEF CallStep
  <1>5. \/ out' = out
        \/ /\ call[f].st = "writing" /\ rid[call[f].sock] = "open"
           /\ out' = [out EXCEPT ![call[f].sock] = Append(@, call[f].req)]
    BY <1>1, WriteFailsMoves, StartReadMoves, ReadReplyMoves, ReadFailsMoves DEF CallStep, WriteOk
  <1>6. Shapes' /\ CallShapes' /\ OnlySent' /\ FibreShape' /\ SocketShape'
    BY <1>2, <1>4, <1>5, CallMovesKeeps
  <1>7. OrderShape'
    <2>1. CASE f = Recv /\ ReadReply(Recv)
      BY <1>2, <1>3, <2>1, RecvReadsInOrder
    <2>2. CASE ~ (f = Recv /\ ReadReply(Recv))
      <3>1. ASSUME NEW m \in Messages, Holds(m)'
            PROVE  Holds(m)
        <4>1. CASE f = Mux
          <5>1. call'[Recv] = call[Recv]
            BY <1>4, <4>1, Basics DEF CallMoves, SameCalls
          <5> QED
            BY <1>3, <3>1, <5>1 DEF Holds
        <4>2. CASE f = Recv
          <5>1. call'[Recv].st = "done" => call'[Recv].res.kind # "value"
            <6>1. WriteOk(Recv) => call'[Recv].st = "written"
              BY <1>1, Basics DEF WriteOk, Shapes, Calls
            <6> QED
              BY <1>1, <2>2, <4>2, <6>1, WriteFailsMoves, StartReadMoves, ReadFailsMoves
              DEF CallStep
          <5> QED
            BY <3>1, <5>1 DEF Holds, Value
        <4> QED
          BY <4>1, <4>2
      <3>2. /\ Passes(inb'[cur'], inb[cur]) /\ cur' \in Sockets
            /\ inb' \in [Sockets -> Seq(Arriving)]
        BY <1>1, <1>2, <1>4 DEF WireMoves
      <3> QED
        BY <1>1, <1>3, <3>1, <3>2, OrderKept
    <2> QED
      BY <2>1, <2>2
  <1> QED
    BY <1>6, <1>7 DEF SubInv

-----------------------------------------------------------------------------
(* The steps of the executor: its queue, its call and its task.             *)

MuxActs == Ends(Mux) \/ \E r \in Sendable : Begins(Mux, r)

LEMMA DequeueMoves ==
    ASSUME Shapes, cur' = cur, queue' \in Seq(Commands), Dequeue(queue')
    PROVE  MuxActs /\ (isProcessing' => queue' # <<>>)
  <1>1. call \in [Fibers -> Calls] /\ cur \in Sockets /\ Mux \in Fibers
    BY Basics DEF Shapes
  <1>2. CASE queue' = <<>>
    BY <1>1, <1>2, EndCallEnds DEF Dequeue, EndCall, MuxActs
  <1>3. CASE queue' # <<>>
    <2>1. Head(queue') \in Sendable
      BY <1>3, Basics
    <2>2. Send(Mux, cur, Head(queue'), wlock)
      BY <1>3 DEF Dequeue
    <2>3. Begins(Mux, Head(queue'))
      BY Basics, <1>1, <2>1, <2>2, SendBegins
    <2> QED
      BY <1>3, <2>1, <2>3 DEF MuxActs
  <1> QED
    BY <1>2, <1>3

LEMMA ReconnectMoves ==
    ASSUME NEW f \in Fibers, Shapes, cur' = cur, StartReconnect(f)
    PROVE  ConnMoves(f) /\ task'[f].pc \in {"ping", "failed"}
  <1>1. call \in [Fibers -> Calls] /\ task \in [Fibers -> Tasks] /\ cur \in Sockets
    BY DEF Shapes
  <1>2. CASE isClosed
    <2>1. Fault("ClientIsClosed") \in Outcomes(Requests)
      BY OutcomeType DEF FaultKinds
    <2>2. /\ task' = [task EXCEPT ![f] = [NoTask EXCEPT !.pc = "failed",
                                            !.err = Fault("ClientIsClosed")]]
          /\ EndCall(f)
      BY <1>2 DEF StartReconnect
    <2>3. task' \in [Fibers -> Tasks] /\ SameTasks(f) /\ task'[f].pc = "failed"
      BY <1>1, <2>1, <2>2, NoTaskType DEF Tasks, TaskStates, SameTasks
    <2> QED
      BY <1>1, <2>2, <2>3, EndCallEnds DEF ConnMoves, EndCall
  <1>3. CASE ~ isClosed
    <2>1. /\ task' = [task EXCEPT ![f] = [NoTask EXCEPT !.pc = "ping", !.mode = "reconnect"]]
          /\ Send(f, cur, "PING", wlock)
      BY <1>3 DEF StartReconnect
    <2>2. task' \in [Fibers -> Tasks] /\ SameTasks(f) /\ task'[f].pc = "ping"
      BY <1>1, <2>1, NoTaskType DEF Tasks, TaskStates, SameTasks
    <2>3. Begins(f, "PING")
      BY <1>1, <2>1, Basics, SendBegins
    <2> QED
      BY <2>2, <2>3, Basics DEF ConnMoves
  <1> QED
    BY <1>2, <1>3

\* What the executor's steps and exec() leave alone, but for the loop that waits for
\* its SUBSCRIBE.
LEMMA MuxMovesKeep ==
    ASSUME SubInv, task' \in [Fibers -> Tasks],
           \A g \in Fibers \ {Mux, Recv} : task'[g] = task[g],
           \/ task'[Recv] = task[Recv] /\ loop' = loop
           \/ task[Recv].pc = "ok" /\ task'[Recv].pc = "idle" /\ loop' = "resubscribing",
           \/ MuxActs /\ task'[Mux].pc = "idle"
           \/ ConnMoves(Mux) /\ task'[Mux].pc \in {"ping", "failed"} /\ isProcessing'
           \/ call' = call /\ task'[Mux] = task[Mux] /\ (isProcessing => isProcessing'),
           queue' \in Seq(Commands), isProcessing' => queue' # <<>>,
           resub' \in [Resubs -> (SUBSET Channels) \cup {None}],
           UNCHANGED <<rid, out, inb, cur, channels, subs, published, yielded>>
    PROVE  SubInv'
  <1>1. /\ Shapes /\ CallShapes /\ OnlySent /\ FibreShape /\ SocketShape /\ OrderShape
        /\ cur \in Sockets /\ call \in [Fibers -> Calls]
    BY DEF SubInv, Shapes
  <1>2. call' \in [Fibers -> Calls] /\ SameCalls(Mux) /\ call'[Recv] = call[Recv]
    BY <1>1, Basics DEF MuxActs, ConnMoves, Ends, Begins, SameCalls
  <1>3. CallShapes'
    <2>1. CallShape(Mux)'
      BY <1>1, Basics DEF MuxActs, ConnMoves, Ends, Begins, CallShapes, CallShape
    <2>2. CallShape(Recv)'
      BY <1>1, <1>2, Basics DEF CallShapes, CallShape
    <2>3. \A g \in Fibers \ {Mux, Recv} : CallShape(g)'
      BY <1>1, <1>2 DEF SameCalls, CallShapes, CallShape
    <2> QED
      BY <2>1, <2>2, <2>3 DEF CallShapes
  <1>4. FibreShape'
    <2>1. task[Recv].pc = "ok" => call[Recv].st = "idle"
      BY <1>1, Basics DEF CallShapes, CallShape
    <2> QED
      BY <1>1, <1>2, <2>1 DEF FibreShape
  <1>5. StaysOnCur
    <2>1. call'[Mux].st = "writing" => call'[Mux] = call[Mux] \/ call'[Mux].sock = cur
      BY DEF MuxActs, ConnMoves, Ends, Begins
    <2>2. \A s \in Sockets : ReadsFrom(s)' => ReadsFrom(s)
      BY <1>2 DEF ReadsFrom
    <2>3. MuxDials' => MuxDials /\ call'[Mux].st # "writing"
      BY <1>1, Basics DEF MuxDials, CallShapes, CallShape
    <2> QED
      BY <2>1, <2>2, <2>3 DEF StaysOnCur
  <1>6. \A m \in Messages : Holds(m)' => Holds(m)
    BY <1>2 DEF Holds
  <1>7. OnlySent' /\ SocketShape' /\ OrderShape'
    BY <1>1, <1>5, <1>6, QuietStep
  <1>8. Shapes'
    BY <1>1, <1>2 DEF Shapes
  <1> QED
    BY <1>3, <1>4, <1>7, <1>8 DEF SubInv

LEMMA MuxStepKeeps ==
    ASSUME SubInv, MuxStep, UNCHANGED subVars
    PROVE  SubInv'
  <1>1. /\ Shapes /\ FibreShape /\ Mux \in Fibers /\ Recv \in Fibers /\ Mux # Recv
        /\ queue \in Seq(Commands) /\ task \in [Fibers -> Tasks]
    BY Basics DEF SubInv, Shapes
  <1>2. /\ UNCHANGED <<rid, out, inb, cur>>
        /\ UNCHANGED <<channels, loop, resub, subs, published, yielded>>
        /\ isProcessing
    BY DEF MuxStep, Resolve, Reject, Retry, Resume, GiveUp, HeadIsBack, connVars, subVars
  <1>3. /\ queue # <<>> /\ Tail(queue) \in Seq(Commands)
        /\ resub' \in [Resubs -> (SUBSET Channels) \cup {None}]
    BY <1>1, <1>2 DEF FibreShape, Shapes
  <1>4. CASE Resolve \/ Reject
    <2>1. queue' = Tail(queue) /\ Dequeue(queue') /\ task' = task /\ task[Mux].pc = "idle"
      BY <1>4 DEF Resolve, Reject, SettleHead, HeadIsBack, connVars
    <2> QED
      BY <1>1, <1>2, <1>3, <2>1, DequeueMoves, MuxMovesKeep
  <1>5. CASE Resume \/ GiveUp
    <2>1. /\ task' = [task EXCEPT ![Mux] = NoTask]
          /\ queue' \in {queue, Tail(queue)} /\ Dequeue(queue')
      BY <1>5 DEF Resume, GiveUp, SettleHead
    <2>2. /\ task' \in [Fibers -> Tasks] /\ task'[Mux].pc = "idle"
          /\ \A g \in Fibers \ {Mux} : task'[g] = task[g]
      BY <1>1, <2>1, NoTaskType
    <2>3. queue' \in Seq(Commands)
      BY <1>1, <1>3, <2>1
    <2> QED
      BY <1>1, <1>2, <1>3, <2>1, <2>2, <2>3, DequeueMoves, MuxMovesKeep
  <1>6. CASE Retry
    <2>1. StartReconnect(Mux) /\ queue' = queue /\ isProcessing' = isProcessing
      BY <1>6 DEF Retry
    <2>2. ConnMoves(Mux) /\ task'[Mux].pc \in {"ping", "failed"}
      BY <1>1, <1>2, <2>1, ReconnectMoves
    <2>3. /\ task' \in [Fibers -> Tasks]
          /\ \A g \in Fibers \ {Mux} : task'[g] = task[g]
      BY <2>2 DEF ConnMoves, SameTasks
    <2> QED
      BY <1>1, <1>2, <1>3, <2>1, <2>2, <2>3, MuxMovesKeep
  <1> QED
    BY <1>4, <1>5, <1>6 DEF MuxStep

\* Queue a command and start dequeue() unless it runs, as exec() does.
LEMMA EnqueueMoves ==
    ASSUME Shapes, FibreShape, cur' = cur, NEW c \in Commands, queue' = Append(queue, c),
           IF isProcessing THEN UNCHANGED <<isProcessing, call, wlock>> ELSE Dequeue(queue')
    PROVE  /\ queue' \in Seq(Commands) /\ (isProcessing' => queue' # <<>>)
           /\ \/ MuxActs /\ task[Mux].pc = "idle"
              \/ call' = call /\ isProcessing'
  <1>1. queue' \in Seq(Commands) /\ queue' # <<>>
    <2>1. queue \in Seq(Commands)
      BY DEF Shapes
    <2> QED
      BY <2>1, AppendProperties
  <1>2. CASE isProcessing
    BY <1>1, <1>2
  <1>3. CASE ~ isProcessing
    BY <1>1, <1>3, DequeueMoves DEF FibreShape
  <1> QED
    BY <1>2, <1>3

LEMMA UserExecKeeps ==
    ASSUME SubInv, NEW c \in CallerCommands, UserExec(c)
    PROVE  SubInv'
  <1>1. /\ Shapes /\ FibreShape /\ c \in Commands /\ UNCHANGED subVars
        /\ task \in [Fibers -> Tasks] /\ resub \in [Resubs -> (SUBSET Channels) \cup {None}]
    BY DEF SubInv, Shapes, CallerCommands, UserExec
  <1>2. UNCHANGED <<channels, loop, resub, subs, published, yielded>>
    BY <1>1 DEF subVars
  <1>3. CASE Exec(c)
    <2>1. /\ UNCHANGED <<rid, out, inb, cur, task>> /\ queue' = Append(queue, c)
          /\ IF isProcessing THEN UNCHANGED <<isProcessing, call, wlock>> ELSE Dequeue(queue')
      BY <1>3 DEF Exec, connVars
    <2>2. /\ queue' \in Seq(Commands) /\ (isProcessing' => queue' # <<>>)
          /\ \/ MuxActs /\ task[Mux].pc = "idle"
             \/ call' = call /\ isProcessing'
      BY <1>1, <2>1, EnqueueMoves
    <2> QED
      BY <1>1, <1>2, <2>1, <2>2, MuxMovesKeep
  <1>4. CASE ExecRefused(c)
    <2>1. UNCHANGED <<rid, out, inb, cur, task, call, queue, isProcessing>>
      BY <1>4 DEF ExecRefused, connVars, wireVars
    <2>2. queue \in Seq(Commands) /\ (isProcessing => queue # <<>>)
      BY <1>1 DEF Shapes, FibreShape
    <2> QED
      BY <1>1, <1>2, <2>1, <2>2, MuxMovesKeep
  <1> QED
    BY <1>3, <1>4 DEF UserExec

-----------------------------------------------------------------------------
(* The steps of receive() outside of readReply() and reconnect().           *)

\* It goes into reconnect(), or stops reading, or reads the current socket.
RecvActs ==
    /\ task' \in [Fibers -> Tasks] /\ SameTasks(Recv)
    /\ \/ loop' = "reconnecting" /\ ConnMoves(Recv) /\ task'[Recv].pc \in {"ping", "failed"}
       \/ /\ loop' \in {"suspended", "ended", "refused", "thrown"} /\ task'[Recv].pc = "idle"
          /\ Ends(Recv) \/ (call' = call /\ call[Recv].st \in {"idle", "reading", "done"})
       \/ /\ loop' = "reading" /\ task'[Recv].pc = "idle"
          /\ call' = [call EXCEPT ![Recv] =
                        [st |-> "reading", sock |-> cur, req |-> None, res |-> None]]

LEMMA RecvCalls ==
    ASSUME Shapes, RecvActs
    PROVE  /\ call' \in [Fibers -> Calls] /\ SameCalls(Recv)
           /\ loop' = "reading" =>
                call'[Recv].st = "reading" /\ call'[Recv].sock = cur
  <1>1. call \in [Fibers -> Calls] /\ cur \in Sockets /\ Recv \in Fibers
    BY Basics DEF Shapes
  <1>2. CASE loop' = "reading"
    <2> DEFINE c == [st |-> "reading", sock |-> cur, req |-> None, res |-> None]
    <2>1. c \in Calls /\ c.st = "reading" /\ c.sock = cur
      BY <1>1 DEF Calls, CallStates
    <2>2. call' = [call EXCEPT ![Recv] = c]
      BY <1>2 DEF RecvActs
    <2> HIDE DEF c
    <2> QED
      BY <1>1, <2>1, <2>2 DEF SameCalls
  <1>3. CASE loop' # "reading"
    BY <1>1, <1>3 DEF RecvActs, ConnMoves, Ends, Begins, SameCalls
  <1> QED
    BY <1>2, <1>3

LEMMA RecvMovesShape ==
    ASSUME Shapes, CallShapes, FibreShape, RecvActs, cur' = cur,
           UNCHANGED <<queue, isProcessing>>
    PROVE  /\ CallShapes' /\ FibreShape' /\ StaysOnCur
           /\ \A m \in Messages : ~ Holds(m)'
  <1>1. /\ call' \in [Fibers -> Calls] /\ SameCalls(Recv)
        /\ loop' = "reading" => call'[Recv].st = "reading" /\ call'[Recv].sock = cur
        /\ cur \in Sockets
    BY RecvCalls DEF Shapes
  <1>2. CallShape(Recv)'
    <2>1. CASE loop' = "reconnecting"
      BY Basics, <1>1, <2>1 DEF RecvActs, ConnMoves, Ends, Begins, CallShape
    <2>2. CASE loop' \in {"suspended", "ended", "refused", "thrown"}
      BY <2>2, Basics DEF RecvActs, Ends, CallShapes, CallShape
    <2>3. CASE loop' = "reading"
      BY <1>1, <2>3 DEF RecvActs, CallShape
    <2> QED
      BY <2>1, <2>2, <2>3 DEF RecvActs
  <1>3. CallShapes'
    BY <1>1, <1>2 DEF SameCalls, RecvActs, SameTasks, CallShapes, CallShape
  <1>4. call'[Mux] = call[Mux] /\ task'[Mux] = task[Mux]
    BY <1>1, Basics DEF SameCalls, RecvActs, SameTasks
  <1>5. FibreShape'
    <2>1. call'[Recv].st \in {"writing", "written"} => loop' = "reconnecting"
      BY <1>1 DEF RecvActs, Ends
    <2> QED
      BY <1>4, <2>1 DEF RecvActs, FibreShape
  <1>6. StaysOnCur
    <2>1. \A s \in Sockets : ReadsFrom(s)' => s = cur
      BY <1>1 DEF ReadsFrom
    <2>2. MuxDials' => MuxDials /\ call'[Mux].st # "writing"
      BY <1>4, Basics DEF MuxDials, CallShapes, CallShape
    <2> QED
      BY <1>4, <2>1, <2>2 DEF StaysOnCur
  <1>7. \A m \in Messages : ~ Holds(m)'
    BY <1>1 DEF Holds
  <1> QED
    BY <1>3, <1>5, <1>6, <1>7

LEMMA RecvMovesKeep ==
    ASSUME SubInv, RecvActs, UNCHANGED <<rid, inb>> \/ CloseSocket(cur),
           channels' \in SUBSET Channels,
           UNCHANGED <<out, cur, queue, isProcessing, resub, subs, published, yielded>>
    PROVE  SubInv'
  <1>1. Shapes /\ CallShapes /\ OnlySent /\ FibreShape /\ SocketShape /\ OrderShape
    BY DEF SubInv
  <1>2. /\ CallShapes' /\ FibreShape' /\ StaysOnCur
        /\ \A m \in Messages : ~ Holds(m)'
    BY <1>1, RecvMovesShape
  <1>3. /\ rid' \in [Sockets -> {"unused", "open", "eof", "reset", "closed"}]
        /\ inb' \in [Sockets -> Seq(Arriving)]
        /\ OnlySent' /\ SocketShape' /\ OrderShape'
    BY <1>1, <1>2, QuietStep
  <1>4. Shapes'
    <2>1. call' \in [Fibers -> Calls] /\ task' \in [Fibers -> Tasks]
      BY <1>1, RecvCalls DEF RecvActs
    <2> QED
      BY <1>1, <1>3, <2>1 DEF Shapes
  <1> QED
    BY <1>2, <1>3, <1>4 DEF SubInv

\* The top of the loop.
LEMMA LoopTopActs ==
    ASSUME Shapes, LoopTop, call[Recv].st \in {"idle", "reading", "done"},
           task' \in [Fibers -> Tasks], SameTasks(Recv), task'[Recv].pc = "idle"
    PROVE  RecvActs
  BY DEF LoopTop, RecvActs

LEMMA NextMessageKeeps ==
    ASSUME SubInv, NextMessage
    PROVE  SubInv'
  <1>1. /\ Shapes /\ CallShapes /\ FibreShape /\ Recv \in Fibers
        /\ call[Recv] \in Calls /\ channels \in SUBSET Channels /\ task \in [Fibers -> Tasks]
    BY Basics DEF SubInv, Shapes
  <1>2. /\ LoopTop /\ task' = task /\ loop \in {"suspended", "off"}
        /\ UNCHANGED <<rid, inb, out, cur, queue, isProcessing, channels, resub, subs, published,
                       yielded>>
    BY DEF NextMessage, connVars, muxVars
  <1>3. task[Recv].pc = "idle" /\ call[Recv].st \in {"idle", "reading", "done"}
    BY <1>1, <1>2 DEF FibreShape, Calls, CallStates
  <1>4. RecvActs
    BY <1>1, <1>2, <1>3, LoopTopActs DEF SameTasks
  <1> QED
    BY <1>1, <1>2, <1>4, RecvMovesKeep

\* readReply() is back in the loop.
LEMMA BackShape ==
    ASSUME SubInv, Back
    PROVE  /\ Shapes /\ CallShapes /\ FibreShape /\ Recv \in Fibers
           /\ call \in [Fibers -> Calls] /\ call[Recv].st = "done"
           /\ call[Recv].res \in Outcomes(Requests)
           /\ task \in [Fibers -> Tasks] /\ task[Recv].pc = "idle"
           /\ channels \in SUBSET Channels
  BY Basics DEF SubInv, Shapes, CallShapes, CallShape, FibreShape, Back, CallDone

LEMMA RecvIgnoresKeeps ==
    ASSUME SubInv, RecvIgnores
    PROVE  SubInv'
  <1>1. Back /\ LoopTop /\ task' = task
    BY DEF RecvIgnores, connVars
  <1>2. RecvActs
    BY <1>1, BackShape, LoopTopActs DEF SameTasks
  <1> QED
    BY <1>1, <1>2, BackShape, RecvMovesKeep DEF RecvIgnores, connVars, muxVars

LEMMA RecvForcesKeeps ==
    ASSUME SubInv, RecvForces
    PROVE  SubInv'
  <1>1. Back /\ StartReconnect(Recv) /\ loop' = "reconnecting" /\ cur' = cur
    BY DEF RecvForces
  <1>2. RecvActs
    BY <1>1, BackShape, ReconnectMoves DEF RecvActs, ConnMoves
  <1> QED
    BY <1>1, <1>2, BackShape, RecvMovesKeep DEF RecvForces, muxVars

LEMMA RecvStopsKeeps ==
    ASSUME SubInv, RecvBreaks \/ RecvThrows
    PROVE  SubInv'
  <1>1. /\ Back /\ loop' \in {"ended", "refused", "thrown"} /\ EndCall(Recv) /\ task' = task
        /\ UNCHANGED <<rid, inb>> \/ CloseSocket(cur)
        /\ UNCHANGED <<out, cur, queue, isProcessing, channels, resub, subs, published, yielded>>
    BY DEF RecvBreaks, RecvThrows, CloseNow, connVars, muxVars
  <1>2. RecvActs
    BY <1>1, BackShape, EndCallEnds DEF RecvActs, SameTasks, EndCall
  <1> QED
    BY <1>1, <1>2, BackShape, RecvMovesKeep

LEMMA RecvReconnectFailsKeeps ==
    ASSUME SubInv, RecvReconnectFails
    PROVE  SubInv'
  <1>1. /\ Shapes /\ CallShapes /\ FibreShape /\ Recv \in Fibers
        /\ task \in [Fibers -> Tasks] /\ channels \in SUBSET Channels
    BY Basics DEF SubInv, Shapes
  <1>2. /\ call' = call /\ call[Recv].st = "idle" /\ loop' = "thrown"
        /\ task' = [task EXCEPT ![Recv] = NoTask]
        /\ UNCHANGED <<rid, inb, out, cur, queue, isProcessing, channels, resub, subs, published,
                       yielded>>
    BY <1>1 DEF RecvReconnectFails, CallShapes, CallShape, wireVars, muxVars
  <1>3. task' \in [Fibers -> Tasks] /\ SameTasks(Recv) /\ task'[Recv].pc = "idle"
    BY <1>1, <1>2, NoTaskType DEF SameTasks
  <1>4. RecvActs
    BY <1>2, <1>3 DEF RecvActs
  <1> QED
    BY <1>1, <1>2, <1>4, RecvMovesKeep

LEMMA RecvReconnectedKeeps ==
    ASSUME SubInv, RecvReconnected
    PROVE  SubInv'
  <1>1. /\ Shapes /\ CallShapes /\ FibreShape /\ Recv \in Fibers /\ Mux # Recv
        /\ task \in [Fibers -> Tasks] /\ channels \in SUBSET Channels
        /\ resub \in [Resubs -> (SUBSET Channels) \cup {None}] /\ Resubs \subseteq Commands
    BY Basics, PubSubAssumption DEF SubInv, Shapes
  <1>2. /\ task[Recv].pc = "ok" /\ call[Recv].st = "idle"
        /\ task' = [task EXCEPT ![Recv] = NoTask]
        /\ UNCHANGED <<rid, inb, out, cur, channels, subs, published, yielded>>
    BY <1>1 DEF RecvReconnected, CallShapes, CallShape
  <1>3. task' \in [Fibers -> Tasks] /\ SameTasks(Recv) /\ task'[Recv].pc = "idle"
    BY <1>1, <1>2, NoTaskType DEF SameTasks
  <1>4. CASE channels = {}
    <2>1. LoopTop /\ UNCHANGED <<queue, isProcessing, resub>>
      BY <1>4 DEF RecvReconnected, muxVars
    <2>2. RecvActs
      BY <1>1, <1>2, <1>3, <2>1, LoopTopActs
    <2> QED
      BY <1>1, <1>2, <2>1, <2>2, RecvMovesKeep
  <1>5. CASE channels # {}
    <2>1. PICK c \in Resubs :
            /\ resub' = [resub EXCEPT ![c] = channels]
            /\ IF isClosed
               THEN UNCHANGED <<queue, isProcessing, call, wlock>>
               ELSE /\ queue' = Append(queue, c)
                    /\ IF isProcessing THEN UNCHANGED <<isProcessing, call, wlock>>
                                       ELSE Dequeue(queue')
      BY <1>5 DEF RecvReconnected
    <2>2. loop' = "resubscribing"
      BY <1>5 DEF RecvReconnected
    <2>3. resub' \in [Resubs -> (SUBSET Channels) \cup {None}]
      BY <1>1, <2>1
    <2>4. /\ \A g \in Fibers \ {Mux, Recv} : task'[g] = task[g]
          /\ task'[Mux] = task[Mux]
      BY <1>1, <1>3, Basics DEF SameTasks
    <2>5. CASE ~ isClosed
      <3>1. /\ queue' \in Seq(Commands) /\ (isProcessing' => queue' # <<>>)
            /\ \/ MuxActs /\ task[Mux].pc = "idle"
               \/ call' = call /\ isProcessing'
        BY <1>1, <1>2, <2>1, <2>5, EnqueueMoves
      <3> QED
        BY <1>2, <1>3, <2>2, <2>3, <2>4, <3>1, MuxMovesKeep
    <2>6. CASE isClosed
      <3>1. UNCHANGED <<queue, isProcessing, call>>
        BY <2>1, <2>6
      <3>2. queue \in Seq(Commands) /\ (isProcessing => queue # <<>>)
        BY <1>1 DEF Shapes, FibreShape
      <3> QED
        BY <1>2, <1>3, <2>2, <2>3, <2>4, <3>1, <3>2, MuxMovesKeep
    <2> QED
      BY <2>5, <2>6
  <1> QED
    BY <1>4, <1>5

LEMMA RecvResubscribedKeeps ==
    ASSUME SubInv, RecvResubscribed
    PROVE  SubInv'
  <1>1. /\ Shapes /\ CallShapes /\ FibreShape /\ Recv \in Fibers
        /\ task \in [Fibers -> Tasks] /\ channels \in SUBSET Channels
        /\ resub \in [Resubs -> (SUBSET Channels) \cup {None}] /\ call[Recv] \in Calls
    BY Basics DEF SubInv, Shapes
  <1>2. /\ loop = "resubscribing" /\ task' = task
        /\ UNCHANGED <<rid, inb, out, cur, queue, isProcessing, resub, subs, published, yielded>>
    BY DEF RecvResubscribed, connVars, muxVars
  <1>3. task[Recv].pc = "idle" /\ call[Recv].st \in {"idle", "reading", "done"}
    BY <1>1, <1>2 DEF FibreShape, Calls, CallStates
  <1>4. PICK c \in Resubs :
          /\ resub[c] # None
          /\ \/ channels' = channels \cup resub[c] /\ LoopTop
             \/ loop' = "thrown" /\ UNCHANGED <<channels, call>>
    BY DEF RecvResubscribed
  <1>5. channels' \in SUBSET Channels
    BY <1>1, <1>4
  <1>6. RecvActs
    BY <1>1, <1>2, <1>3, <1>4, LoopTopActs DEF RecvActs, SameTasks
  <1> QED
    BY <1>1, <1>2, <1>5, <1>6, RecvMovesKeep

\* The message that was read goes to the consumer.
LEMMA RecvMessageKeeps ==
    ASSUME SubInv, RecvMessage
    PROVE  SubInv'
  <1>1. /\ Shapes /\ CallShapes /\ OnlySent /\ FibreShape /\ SocketShape /\ OrderShape
        /\ cur \in Sockets /\ yielded \in Seq(Messages)
    BY DEF SubInv, Shapes
  <1> DEFINE m == call[Recv].res.of
  <1>2. /\ Back /\ m \in Messages /\ call[Recv].res.kind = "value"
        /\ loop = "reading" /\ loop' = "suspended" /\ EndCall(Recv)
        /\ yielded' = Append(yielded, m)
        /\ UNCHANGED <<rid, inb, out, cur, task, queue, isProcessing, channels, resub, subs,
                       published>>
    BY DEF RecvMessage, Back, connVars, muxVars
  <1>3. RecvActs
    BY <1>2, BackShape, EndCallEnds DEF RecvActs, SameTasks, EndCall
  <1>4. /\ CallShapes' /\ FibreShape' /\ StaysOnCur
        /\ \A x \in Messages : ~ Holds(x)'
    BY <1>1, <1>2, <1>3, RecvMovesShape
  <1>5. OnlySent' /\ SocketShape'
    BY <1>1, <1>2, <1>4, QuietSockets
  <1>6. /\ yielded' \in Seq(Messages) /\ Len(yielded') = Len(yielded) + 1
        /\ \A i \in 1 .. Len(yielded) : yielded'[i] = yielded[i]
        /\ yielded'[Len(yielded) + 1] = m
    BY <1>1, <1>2, AppendProperties
  <1>7. Shapes'
    <2>1. call' \in [Fibers -> Calls] /\ task' \in [Fibers -> Tasks]
      BY <1>1, <1>3, RecvCalls DEF RecvActs
    <2> QED
      BY <1>1, <1>2, <1>6, <2>1 DEF Shapes
  <1>8. Holds(m) /\ Later(m)
    <2>1. call[Recv].res = Value(m)
      <3>1. call[Recv].res \in Outcomes(Requests)
        BY <1>2, BackShape
      <3> QED
        BY <1>2, <3>1 DEF Outcomes, Value
    <2> QED
      BY <1>1, <1>2, <2>1 DEF Holds, OrderShape, Back, CallDone
  <1>9. /\ DOMAIN yielded = 1 .. Len(yielded) /\ DOMAIN yielded' = 1 .. Len(yielded')
        /\ Len(yielded) \in Nat
    BY <1>1, <1>6
  <1> HIDE DEF m
  <1>10. \A i \in DOMAIN yielded' : \/ i \in DOMAIN yielded /\ yielded'[i] = yielded[i]
                                    \/ i = Len(yielded) + 1 /\ yielded'[i] = m
    BY <1>6, <1>9
  <1>11. \A x : Position(x)' = Position(x) /\ Published(x)' = Published(x)
    BY <1>2 DEF Position, Published
  <1>12. ASSUME NEW i \in DOMAIN yielded', NEW j \in DOMAIN yielded', i < j
         PROVE  Position(yielded'[i]) < Position(yielded'[j])
    <2>1. i \in DOMAIN yielded /\ yielded'[i] = yielded[i]
      BY <1>6, <1>9, <1>12
    <2>2. CASE j \in DOMAIN yielded /\ yielded'[j] = yielded[j]
      BY <1>1, <1>12, <2>1, <2>2 DEF OrderShape, DeliveredInOrder
    <2>3. CASE yielded'[j] = m
      BY <1>8, <2>1, <2>3 DEF Later
    <2> QED
      BY <1>10, <2>2, <2>3
  <1>13. ASSUME NEW x, Later(x), Position(m) < Position(x)
         PROVE  Later(x)'
    <2>1. \A i \in DOMAIN yielded' : Position(yielded'[i]) < Position(x)
      BY <1>10, <1>13 DEF Later
    <2> QED
      BY <1>11, <1>13, <2>1 DEF Later
  <1>14. ASSUME NEW i \in DOMAIN inb[cur], IsMessage(inb[cur][i])
         PROVE  Newer(inb[cur][i].of)'
    <2>1. Newer(inb[cur][i].of)
      BY <1>1, <1>14 DEF OrderShape
    <2>2. Later(inb[cur][i].of) /\ Position(m) < Position(inb[cur][i].of)
      BY <1>2, <1>8, <2>1 DEF Newer
    <2>3. \E x : x = inb[cur][i].of /\ Later(x)'
      BY <1>13, <2>2
    <2> QED
      BY <1>2, <1>4, <2>3 DEF Newer
  <1>15. OrderShape'
    <2>1. DeliveredInOrder'
      BY <1>11, <1>12 DEF DeliveredInOrder
    <2>2. \A i \in DOMAIN yielded' : Published(yielded'[i])
      BY <1>1, <1>8, <1>10 DEF OrderShape, Later
    <2> QED
      BY <1>1, <1>2, <1>4, <1>11, <1>14, <2>1, <2>2 DEF OrderShape, IsMessage
  <1> QED
    BY <1>4, <1>5, <1>7, <1>15 DEF SubInv

-----------------------------------------------------------------------------
(* The server, the network and close().                                     *)

LEMMA StandsStill ==
    ASSUME SubInv, UNCHANGED <<rid, inb>> \/ CloseSocket(cur), channels' \in SUBSET Channels,
           UNCHANGED <<out, cur, call, task, queue, isProcessing, loop, resub, subs, published,
                       yielded>>
    PROVE  SubInv'
  <1>1. Shapes /\ CallShapes /\ OnlySent /\ FibreShape /\ SocketShape /\ OrderShape
    BY DEF SubInv
  <1>2. StaysOnCur
    BY <1>1, Basics DEF StaysOnCur, ReadsFrom, MuxDials, CallShapes, CallShape
  <1>3. \A m \in Messages : Holds(m)' => Holds(m)
    BY DEF Holds
  <1>4. /\ rid' \in [Sockets -> {"unused", "open", "eof", "reset", "closed"}]
        /\ inb' \in [Sockets -> Seq(Arriving)]
        /\ OnlySent' /\ SocketShape' /\ OrderShape'
    BY <1>1, <1>2, <1>3, QuietStep
  <1>5. Shapes' /\ CallShapes' /\ FibreShape'
    BY <1>1, <1>4 DEF Shapes, CallShapes, CallShape, FibreShape
  <1> QED
    BY <1>4, <1>5 DEF SubInv

LEMMA RecordKeeps ==
    ASSUME SubInv, NEW c, Record(c)
    PROVE  SubInv'
  <1>1. channels' \in SUBSET Channels
    <2>1. channels \in SUBSET Channels
      BY DEF SubInv, Shapes
    <2>2. c \in Subscribes => Adds[c] \in SUBSET Channels
      BY PubSubAssumption
    <2> QED
      BY <2>1, <2>2 DEF Record
  <1> QED
    BY <1>1, StandsStill DEF Record, wireVars, connVars, muxVars

LEMMA UserCloseKeeps ==
    ASSUME SubInv, UserClose
    PROVE  SubInv'
  BY StandsStill DEF UserClose, CloseNow, muxVars, subVars, SubInv, Shapes

LEMMA CutKeeps ==
    ASSUME SubInv, NEW s, Cut(s)
    PROVE  SubInv'
  BY StandsStill DEF Cut, LinkCut, connVars, muxVars, subVars, SubInv, Shapes

LEMMA StutterKeeps ==
    ASSUME SubInv, UNCHANGED vars
    PROVE  SubInv'
  BY StandsStill DEF vars, wireVars, connVars, muxVars, subVars, SubInv, Shapes

\* The server answers a request with values or an error that name that request.
LEMMA NamesType ==
    ASSUME Shapes, NEW r
    PROVE  /\ Names(r) \in SUBSET Channels /\ Cardinality(Names(r)) \in Nat
           /\ r \notin Commands => Names(r) = {} /\ r \notin Unsubscribes
  <1>1. /\ \A c \in Subscribes : Adds[c] \in SUBSET Channels
        /\ \A c \in Unsubscribes : Drops[c] \in SUBSET Channels
        /\ Subscribes \cup Unsubscribes \cup Resubs \subseteq Commands
        /\ \A c \in Resubs : resub[c] # None => resub[c] \in SUBSET Channels
    BY PubSubAssumption DEF Shapes
  <1>2. Names(r) \in SUBSET Channels
    BY <1>1 DEF Names
  <1>3. Cardinality(Names(r)) \in Nat
    BY <1>2, PubSubAssumption, FS_Subset, FS_CardinalityType
  <1>4. r \notin Commands => Names(r) = {} /\ r \notin Unsubscribes
    BY <1>1 DEF Names
  <1> QED
    BY <1>2, <1>3, <1>4

LEMMA AckType ==
    ASSUME Shapes, NEW s, NEW r \in Requests
    PROVE  /\ Acknowledge(s, r) \in Seq(Arriving)
           /\ \A i \in DOMAIN Acknowledge(s, r) : Acknowledge(s, r)[i].of = r
  <1>1. /\ Value(r) \in Arriving /\ ErrorReply(r) \in Arriving
        /\ Value(r).of = r /\ ErrorReply(r).of = r
    BY OutcomeType DEF Value, ErrorReply, Arriving
  <1>2. CASE IsSubscription(r)
    <2> DEFINE n == Cardinality(Names(r))
    <2>1. n \in Nat
      BY NamesType
    <2>2. Acknowledge(s, r) = [i \in 1 .. n |-> Value(r)]
      BY <1>2 DEF Acknowledge
    <2> HIDE DEF n
    <2>3. [i \in 1 .. n |-> Value(r)] \in Seq(Arriving)
      BY <1>1, <2>1
    <2> QED
      BY <1>1, <2>2, <2>3
  <1>3. CASE ~ IsSubscription(r)
    <2>1. \E a \in Arriving : a.of = r /\ Acknowledge(s, r) = <<a>>
      BY <1>1, <1>3 DEF Acknowledge
    <2> QED
      BY <2>1
  <1> QED
    BY <1>2, <1>3

LEMMA ServeKeeps ==
    ASSUME SubInv, NEW s \in Sockets, Serve(s)
    PROVE  SubInv'
  <1> DEFINE r == Head(out[s])
             acks == Acknowledge(s, r)
  <1>1. /\ Shapes /\ CallShapes /\ OnlySent /\ FibreShape /\ SocketShape /\ OrderShape
        /\ cur \in Sockets
        /\ out \in [Sockets -> Seq(Requests)] /\ inb \in [Sockets -> Seq(Arriving)]
        /\ out[s] \in Seq(Requests) /\ inb[s] \in Seq(Arriving)
    BY DEF SubInv, Shapes
  <1>2. /\ out[s] # <<>> /\ out' = [out EXCEPT ![s] = Tail(@)]
        /\ inb' = inb \/ inb' = [inb EXCEPT ![s] = @ \o acks]
        /\ subs' = [subs EXCEPT ![s] = IF r \in Unsubscribes THEN @ \ Names(r)
                                                             ELSE @ \cup Names(r)]
        /\ UNCHANGED <<rid, cur, call, task, queue, isProcessing, channels, loop, resub,
                       published, yielded>>
    BY DEF Serve, connVars, muxVars
  <1>3. /\ r \in Sendable /\ r = out[s][1]
        /\ Tail(out[s]) \in Seq(Requests)
        /\ \A i \in DOMAIN Tail(out[s]) : i + 1 \in DOMAIN out[s] /\ Tail(out[s])[i] = out[s][i + 1]
    <2>1. r = out[s][1] /\ 1 \in DOMAIN out[s]
      BY <1>1, <1>2
    <2>2. r \in Sendable
      BY <1>1, <1>2, <2>1 DEF OnlySent
    <2>3. Tail(out[s]) \in Seq(Requests)
      BY <1>1, <1>2
    <2>4. \A i \in DOMAIN Tail(out[s]) : i + 1 \in DOMAIN out[s] /\ Tail(out[s])[i] = out[s][i + 1]
      BY <1>1, <1>2
    <2> QED
      BY <2>1, <2>2, <2>3, <2>4
  <1>4. acks \in Seq(Arriving) /\ \A i \in DOMAIN acks : ~ IsMessage(acks[i])
    BY Basics, <1>1, <1>3, AckType DEF IsMessage
  <1>5. r \notin Commands => Names(r) = {} /\ r \notin Unsubscribes
    BY <1>1, NamesType
  <1>6. /\ inb' \in [Sockets -> Seq(Arriving)]
        /\ \A u \in Sockets : Passes(inb'[u], inb[u])
        /\ \A u \in Sockets : u # s => inb'[u] = inb[u]
    <2>1. CASE inb' = inb
      BY <1>1, <2>1, PassesSame
    <2>2. CASE inb' = [inb EXCEPT ![s] = @ \o acks]
      <3> DEFINE q == inb[s] \o acks
      <3>1. /\ q \in Seq(Arriving) /\ Len(q) = Len(inb[s]) + Len(acks)
            /\ \A i \in 1 .. Len(q) : q[i] = IF i <= Len(inb[s]) THEN inb[s][i]
                                                              ELSE acks[i - Len(inb[s])]
        BY <1>1, <1>4, ConcatProperties
      <3>2. /\ DOMAIN q = 1 .. Len(q) /\ DOMAIN inb[s] = 1 .. Len(inb[s])
            /\ DOMAIN acks = 1 .. Len(acks) /\ Len(inb[s]) \in Nat /\ Len(acks) \in Nat
        BY <1>1, <1>4, <3>1, LenProperties
      <3>3. inb' = [inb EXCEPT ![s] = q]
        BY <2>2
      <3> HIDE DEF q, acks, r
      <3>4. \A i \in DOMAIN q : IsMessage(q[i]) => i + 0 \in DOMAIN inb[s] /\ q[i] = inb[s][i + 0]
        <4>1. SUFFICES ASSUME NEW i \in 1 .. Len(q), IsMessage(q[i])
                       PROVE  i \in DOMAIN inb[s] /\ q[i] = inb[s][i]
          BY <3>2
        <4>2. ASSUME i > Len(inb[s])
              PROVE  FALSE
          <5>1. q[i] = acks[i - Len(inb[s])] /\ i - Len(inb[s]) \in DOMAIN acks
            BY <3>1, <3>2, <4>2
          <5> QED
            BY <1>4, <4>1, <5>1
        <4> QED
          BY <3>1, <3>2, <4>2
      <3>5. Passes(q, inb[s])
        BY <3>4 DEF Passes
      <3>6. \A u \in Sockets : inb'[u] = IF u = s THEN q ELSE inb[u]
        BY <1>1, <3>3
      <3>7. inb' \in [Sockets -> Seq(Arriving)]
        BY <1>1, <3>1, <3>3
      <3> QED
        BY <1>1, <3>5, <3>6, <3>7, PassesSame
    <2> QED
      BY <1>2, <2>1, <2>2
  <1>7. /\ out' \in [Sockets -> Seq(Requests)]
        /\ \A u \in Sockets : out'[u] = IF u = s THEN Tail(out[s]) ELSE out[u]
    BY <1>1, <1>2, <1>3
  <1>8. OnlySent'
    BY <1>1, <1>3, <1>7 DEF OnlySent
  <1>9. /\ subs' = [u \in Sockets |-> subs'[u]]
        /\ \A u \in Sockets : u # s => subs'[u] = subs[u]
        /\ r \notin Commands => subs'[s] = subs[s]
    <2>1. subs = [u \in Sockets |-> subs[u]]
      BY <1>1 DEF Shapes
    <2> HIDE DEF r
    <2> QED
      BY <1>2, <1>5, <2>1
  <1> HIDE DEF r, acks
  <1>10. \A u \in Sockets : StaysClean(u)
    <2>1. SUFFICES ASSUME NEW u \in Sockets, rid'[u] = "open", Clean(u)
                   PROVE  /\ rid[u] = "open" /\ subs'[u] = {}
                          /\ \A i \in DOMAIN inb'[u] : ~ IsMessage(inb'[u][i])
                          /\ \A i \in DOMAIN out'[u] : out'[u][i] \notin Commands
      BY DEF StaysClean
    <2>2. rid[u] = "open"
      BY <1>2, <2>1
    <2>3. /\ subs[u] = {}
          /\ \A i \in DOMAIN inb[u] : ~ IsMessage(inb[u][i])
          /\ \A i \in DOMAIN out[u] : out[u][i] \notin Commands
      BY <2>1, <2>2 DEF Clean
    <2>4. \A i \in DOMAIN inb'[u] : ~ IsMessage(inb'[u][i])
      BY <1>6, <2>3 DEF Passes
    <2>5. \A i \in DOMAIN out'[u] : out'[u][i] \notin Commands
      BY <1>3, <1>7, <2>3
    <2>6. subs'[u] = {}
      <3>1. u = s => r \notin Commands
        <4>1. 1 \in DOMAIN out[s]
          BY <1>1, <1>2
        <4> QED
          BY <1>3, <2>3, <4>1
      <3> QED
        BY <1>9, <2>3, <3>1
    <2> QED
      BY <2>2, <2>4, <2>5, <2>6
  <1>11. \A u \in Sockets : rid'[u] = "unused" => out'[u] = <<>> /\ inb'[u] = <<>> /\ subs'[u] = {}
    BY <1>1, <1>2, <1>6, <1>7, <1>9 DEF SocketShape
  <1>12. StaysOnCur
    BY <1>1, <1>2, Basics DEF StaysOnCur, ReadsFrom, MuxDials, CallShapes, CallShape
  <1>13. SocketShape'
    BY <1>1, <1>10, <1>11, <1>12, SocketsKept
  <1>14. OrderShape'
    <2>1. \A m \in Messages : Holds(m)' => Holds(m)
      BY <1>2 DEF Holds
    <2> QED
      BY <1>1, <1>2, <1>6, <2>1, OrderKept
  <1>15. CallShapes' /\ FibreShape' /\ Shapes'
    BY <1>1, <1>2, <1>6, <1>7, <1>9 DEF CallShapes, CallShape, FibreShape, Shapes
  <1> QED
    BY <1>8, <1>13, <1>14, <1>15 DEF SubInv

\* A new message takes the place after all others.
LEMMA NewPlace ==
    ASSUME Shapes, OrderShape, NEW m \in Messages, Publish(m)
    PROVE  /\ published' \in Seq(Messages)
           /\ \A i, j \in DOMAIN published' : published'[i] = published'[j] => i = j
           /\ Published(m)' /\ Position(m)' = Len(published) + 1
           /\ \A x : Published(x) =>
                /\ Published(x)' /\ Position(x)' = Position(x)
                /\ Position(x) \in 1 .. Len(published)
  <1> DEFINE n == Len(published)
  <1>1. /\ published \in Seq(Messages) /\ n \in Nat /\ DOMAIN published = 1 .. n
        /\ \A i \in DOMAIN published : published[i] # m
        /\ published' = Append(published, m)
    BY DEF Shapes, Publish
  <1>2. /\ published' \in Seq(Messages) /\ Len(published') = n + 1
        /\ \A i \in 1 .. n : published'[i] = published[i]
        /\ published'[n + 1] = m
    BY <1>1, AppendProperties
  <1>3. DOMAIN published' = 1 .. n + 1
    BY <1>2
  <1> HIDE DEF n
  <1>4. ASSUME NEW i \in DOMAIN published', NEW j \in DOMAIN published',
               published'[i] = published'[j]
        PROVE  i = j
    <2>1. CASE i \in 1 .. n /\ j \in 1 .. n
      BY <1>1, <1>2, <1>4, <2>1 DEF OrderShape
    <2>2. CASE i = n + 1 \/ j = n + 1
      <3>1. \A k \in 1 .. n : published'[k] # m
        BY <1>1, <1>2
      <3> QED
        BY <1>2, <1>3, <1>4, <2>2, <3>1, <1>1
    <2> QED
      BY <1>1, <1>3, <2>1, <2>2
  <1>5. ASSUME NEW x, NEW i \in DOMAIN published', published'[i] = x
        PROVE  Published(x)' /\ Position(x)' = i
    BY <1>4, <1>5 DEF Published, Position
  <1>6. Published(m)' /\ Position(m)' = n + 1
    BY <1>1, <1>2, <1>3, <1>5
  <1>7. ASSUME NEW x, Published(x)
        PROVE  /\ Published(x)' /\ Position(x)' = Position(x) /\ Position(x) \in 1 .. n
    <2>1. Position(x) \in 1 .. n /\ published[Position(x)] = x
      BY <1>1, <1>7, Place
    <2>2. Position(x) \in DOMAIN published' /\ published'[Position(x)] = x
      BY <1>1, <1>2, <1>3, <2>1
    <2> QED
      BY <1>5, <2>1, <2>2
  <1> QED
    BY <1>2, <1>4, <1>6, <1>7 DEF n

LEMMA PublishKeeps ==
    ASSUME SubInv, NEW m \in Messages, Publish(m)
    PROVE  SubInv'
  <1>1. /\ Shapes /\ CallShapes /\ OnlySent /\ FibreShape /\ SocketShape /\ OrderShape
        /\ cur \in Sockets /\ inb \in [Sockets -> Seq(Arriving)]
    BY DEF SubInv, Shapes
  <1>2. UNCHANGED <<rid, out, cur, call, task, queue, isProcessing, channels, loop, resub, subs,
                    yielded>>
    BY DEF Publish, connVars, muxVars
  <1>3. PICK to \in SUBSET {s \in Sockets : rid[s] = "open" /\ subs[s] # {}} :
          inb' = [s \in Sockets |-> IF s \in to THEN Append(inb[s], Value(m)) ELSE inb[s]]
    BY DEF Publish
  <1>4. /\ Value(m) \in Arriving /\ IsMessage(Value(m)) /\ Value(m).of = m
    BY OutcomeType, PubSubAssumption DEF IsMessage, Value, Arriving
  <1>5. ASSUME NEW s \in Sockets
        PROVE  /\ inb'[s] \in Seq(Arriving)
               /\ s \notin to => inb'[s] = inb[s]
               /\ s \in to =>
                    /\ Len(inb'[s]) = Len(inb[s]) + 1
                    /\ \A i \in 1 .. Len(inb[s]) : inb'[s][i] = inb[s][i]
                    /\ inb'[s][Len(inb[s]) + 1] = Value(m)
    <2>1. inb[s] \in Seq(Arriving)
      BY <1>1
    <2>2. inb'[s] = IF s \in to THEN Append(inb[s], Value(m)) ELSE inb[s]
      BY <1>3
    <2> QED
      BY <1>4, <2>1, <2>2, AppendProperties
  <1>6. inb' \in [Sockets -> Seq(Arriving)]
    BY <1>3, <1>5
  <1>7. /\ published' \in Seq(Messages)
        /\ \A i, j \in DOMAIN published' : published'[i] = published'[j] => i = j
        /\ Published(m)' /\ Position(m)' = Len(published) + 1
        /\ \A x : Published(x) =>
             /\ Published(x)' /\ Position(x)' = Position(x)
             /\ Position(x) \in 1 .. Len(published)
        /\ Len(published) \in Nat
    BY <1>1, NewPlace DEF Shapes
  <1>8. OnlySent' /\ CallShapes' /\ FibreShape' /\ Shapes'
    BY <1>1, <1>2, <1>6, <1>7 DEF OnlySent, CallShapes, CallShape, FibreShape, Shapes
  <1>9. SocketShape'
    <2>1. \A s \in Sockets : StaysClean(s)
      BY <1>2, <1>3, <1>5 DEF StaysClean, Clean
    <2>2. \A s \in Sockets : rid'[s] = "unused" => out'[s] = <<>> /\ inb'[s] = <<>> /\ subs'[s] = {}
      BY <1>1, <1>2, <1>3, <1>5 DEF SocketShape
    <2>3. StaysOnCur
      BY <1>1, <1>2, Basics DEF StaysOnCur, ReadsFrom, MuxDials, CallShapes, CallShape
    <2> QED
      BY <1>1, <2>1, <2>2, <2>3, SocketsKept
  <1>10. /\ yielded' = yielded
         /\ \A i \in DOMAIN yielded : Published(yielded[i])
         /\ \A h : Holds(h)' = Holds(h)
    BY <1>1, <1>2 DEF OrderShape, Holds
  <1>11. \A x : Later(x) => Later(x)'
    BY <1>2, <1>7, <1>10 DEF Later
  <1>12. \A h \in Messages : Holds(h) => Later(h) /\ Published(h)
    BY <1>1 DEF OrderShape, Later
  <1>13. \A x : Newer(x) => Newer(x)' /\ Published(x)
    BY <1>7, <1>10, <1>11, <1>12 DEF Newer, Later
  <1>14. Newer(m)'
    <2>1. \A i \in DOMAIN yielded : \E x : x = yielded[i] /\ Position(x)' < Position(m)'
      BY <1>7, <1>10
    <2>2. \A h \in Messages : Holds(h)' => Position(h)' < Position(m)'
      BY <1>7, <1>10, <1>12
    <2> QED
      BY <1>7, <1>10, <2>1, <2>2 DEF Newer, Later
  <1>15. OrderShape'
    <2> DEFINE a == inb[cur]
               b == inb'[cur]
    <2>1. \A i \in DOMAIN b : \/ (i \in DOMAIN a /\ b[i] = a[i])
                             \/ (i = Len(a) + 1 /\ b[i] = Value(m))
      <3>1. /\ a \in Seq(Arriving) /\ b \in Seq(Arriving)
            /\ DOMAIN a = 1 .. Len(a) /\ DOMAIN b = 1 .. Len(b) /\ Len(a) \in Nat
        BY <1>1, <1>5
      <3>2. CASE cur \in to
        <4>1. /\ Len(b) = Len(a) + 1 /\ b[Len(a) + 1] = Value(m)
              /\ \A i \in 1 .. Len(a) : b[i] = a[i]
          BY <1>1, <1>5, <3>2
        <4> QED
          BY <3>1, <4>1
      <3>3. CASE cur \notin to
        BY <1>1, <1>5, <3>3
      <3> QED
        BY <3>2, <3>3
    <2>2. ASSUME NEW i \in DOMAIN b, IsMessage(b[i])
          PROVE  \E x : x = b[i].of /\ Newer(x)'
      BY <1>1, <1>4, <1>13, <1>14, <2>1, <2>2 DEF OrderShape
    <2>3. ASSUME NEW i \in DOMAIN b, NEW j \in DOMAIN b, i < j, IsMessage(b[i]), IsMessage(b[j])
          PROVE  \E x, y : x = b[i].of /\ y = b[j].of /\ Position(x)' < Position(y)'
      <3>1. i \in DOMAIN a /\ b[i] = a[i]
        BY <1>1, <1>5, <2>1, <2>3
      <3>2. Newer(a[i].of) /\ Published(a[i].of)
        BY <1>1, <1>13, <2>3, <3>1 DEF OrderShape
      <3>3. CASE j \in DOMAIN a /\ b[j] = a[j]
        <4>1. Newer(a[j].of) /\ Published(a[j].of)
          BY <1>1, <1>13, <2>3, <3>3 DEF OrderShape
        <4>2. Position(a[i].of) < Position(a[j].of)
          BY <1>1, <2>3, <3>1, <3>3 DEF OrderShape
        <4> QED
          BY <1>7, <3>1, <3>2, <3>3, <4>1, <4>2
      <3>4. CASE b[j] = Value(m)
        BY <1>4, <1>7, <3>1, <3>2, <3>4
      <3> QED
        BY <2>1, <3>3, <3>4
    <2>4. DeliveredInOrder'
      BY <1>1, <1>2, <1>7, <1>10 DEF OrderShape, DeliveredInOrder
    <2>5. b = inb'[cur']
      BY <1>2
    <2>6. /\ \A i \in DOMAIN inb'[cur'] :
               IsMessage(inb'[cur'][i]) => \E x : x = inb'[cur'][i].of /\ Newer(x)'
          /\ \A i, j \in DOMAIN inb'[cur'] :
               i < j /\ IsMessage(inb'[cur'][i]) /\ IsMessage(inb'[cur'][j])
                 => \E x, y : /\ x = inb'[cur'][i].of /\ y = inb'[cur'][j].of
                             /\ Position(x)' < Position(y)'
      BY <2>2, <2>3, <2>5
    <2>7. \A h \in Messages : Holds(h)' => Later(h)'
      BY <1>10, <1>11, <1>12
    <2>8. \A i \in DOMAIN yielded : \E x : x = yielded[i] /\ Published(x)'
      BY <1>7, <1>10
    <2> HIDE DEF a, b
    <2> QED
      BY <1>7, <1>10, <2>4, <2>6, <2>7, <2>8 DEF OrderShape, IsMessage
  <1> QED
    BY <1>8, <1>9, <1>15 DEF SubInv

LEMMA InitKeeps ==
    ASSUME Init
    PROVE  SubInv
  <1>1. /\ Mux \in Fibers /\ Recv \in Fibers /\ 1 \in Sockets
        /\ NoCall \in Calls /\ NoTask \in Tasks
        /\ NoCall.st = "idle" /\ NoTask.pc = "idle"
    BY Basics, NoCallType, NoTaskType, WireAssumption DEF Sockets, NoCall, NoTask
  <1>2. /\ rid = [s \in Sockets |-> IF s = 1 THEN "open" ELSE "unused"]
        /\ out = [s \in Sockets |-> <<>>] /\ inb = [s \in Sockets |-> <<>>]
        /\ call = [f \in Fibers |-> NoCall] /\ task = [f \in Fibers |-> NoTask]
        /\ cur = 1 /\ queue = <<>> /\ isProcessing = FALSE /\ channels = {} /\ loop = "off"
        /\ resub = [c \in Resubs |-> None] /\ subs = [s \in Sockets |-> {}]
        /\ published = <<>> /\ yielded = <<>>
    BY DEF Init, MuxInit
  <1>3. DOMAIN <<>> = {}
    OBVIOUS
  <1>4. Shapes
    BY <1>1, <1>2, EmptyType DEF Shapes
  <1>5. CallShapes /\ OnlySent /\ FibreShape
    BY <1>1, <1>2, <1>3 DEF CallShapes, CallShape, OnlySent, FibreShape
  <1>6. SocketShape
    BY <1>1, <1>2 DEF SocketShape, ReadsFrom, MuxDials
  <1>7. OrderShape
    BY <1>1, <1>2, <1>3 DEF OrderShape, Holds, DeliveredInOrder
  <1> QED
    BY <1>4, <1>5, <1>6, <1>7 DEF SubInv

LEMMA NextKeeps ==
    ASSUME SubInv, [Next]_vars
    PROVE  SubInv'
  <1>1. ASSUME NEW f \in {Mux, Recv}, CallStep(f), UNCHANGED <<connVars, muxVars, subVars>>
        PROVE  SubInv'
    BY <1>1, CallStepKeeps
  <1>2. ASSUME ConnStep(Recv), UNCHANGED <<muxVars, subVars>>
        PROVE  SubInv'
    <2>1. UNCHANGED subRest
      BY <1>2 DEF muxVars, subVars, subRest
    <2> QED
      BY <1>2, <2>1, ConnStepKeeps, DialOkKeeps
  <1>3. ASSUME ConnStep(Mux),
               UNCHANGED <<muxVars, channels, recorded, loop, resub, subs, published, sent,
                           yielded>>
        PROVE  SubInv'
    <2>1. UNCHANGED subRest
      BY <1>3 DEF muxVars, subRest
    <2> QED
      BY <1>3, <2>1, ConnStepKeeps, DialOkKeeps
  <1>4. ASSUME MuxStep, UNCHANGED subVars
        PROVE  SubInv'
    BY <1>4, MuxStepKeeps
  <1>5. ASSUME RecvStep
        PROVE  SubInv'
    BY <1>5, RecvMessageKeeps, RecvIgnoresKeeps, RecvForcesKeeps, RecvStopsKeeps,
       RecvReconnectedKeeps, RecvReconnectFailsKeeps, RecvResubscribedKeeps DEF RecvStep
  <1>6. CASE Fibre
    BY <1>1, <1>2, <1>3, <1>4, <1>5, <1>6, RecordKeeps DEF Fibre
  <1>7. CASE NextMessage \/ UserClose
    BY <1>7, NextMessageKeeps, UserCloseKeeps
  <1>8. CASE \E c \in CallerCommands : UserExec(c)
    BY <1>8, UserExecKeeps
  <1>9. CASE (\E m \in Messages : Publish(m)) \/ (\E s \in Sockets : Serve(s) \/ Cut(s))
    BY <1>9, PublishKeeps, ServeKeeps, CutKeeps
  <1> QED
    BY <1>6, <1>7, <1>8, <1>9, StutterKeeps DEF Next

-----------------------------------------------------------------------------
(* The locks that receive() leaves behind.                                  *)

LockTypes ==
    /\ link \in [Sockets -> {"up", "cut"}]
    /\ rlock \in [Sockets -> Fibers \cup {None}]
    /\ runs \in [Commands -> Nat]

\* Nobody can read the socket any more.
Dead(s) == rid[s] \notin {"open", "unused"} \/ link[s] = "cut"

ReadsAt(s) == call[Recv].st = "reading" /\ call[Recv].sock = s

\* receive() holds the lock of a socket that it does not read.
LeftLocked(s) == rlock[s] = Recv /\ ~ ReadsAt(s)

\* An error of readReply() on a socket that is well is about to force reconnect(), or it
\* is an error reply and ends, or has ended, the loop.
Refused ==
    \/ loop = "refused"
    \/ Back /\ (call[Recv].res = Fault("InvalidState") \/ call[Recv].res.kind = "errorReply")

\* The PING of receive()'s reconnect() is on the connection's own streams and cannot get
\* the reader, or has failed to.
Pinging ==
    /\ loop = "reconnecting" /\ task[Recv].pc = "ping"
    /\ \/ call[Recv].st \in {"writing", "written"} /\ call[Recv].sock = cur
       \/ CallDone(Recv) /\ ~ IsAnswer(call[Recv].res)

Excused == Refused \/ Pinging

LocksLeft == LeftLocked(cur) => Dead(cur) \/ Excused

\* The loop reads without a request, reconnect() only with one.
RecvShape ==
    /\ call[Recv].st \in {"writing", "written", "reading"} => rid[call[Recv].sock] # "unused"
    /\ call[Recv].st \in {"writing", "written"} => call[Recv].req \in Requests
    /\ call[Recv].st = "reading" =>
         \/ loop = "reading" /\ call[Recv].req = None
         \/ loop = "reconnecting" /\ call[Recv].req \in Requests

UsedShape ==
    /\ rid[cur] # "unused"
    /\ \A s \in Sockets : rid[s] = "unused" => rlock[s] # Recv

\* A connection that says it is closed has closed its socket.
ClosedShape == isClosed => rid[cur] # "open"

LockInv == LockTypes /\ LocksLeft /\ RecvShape /\ UsedShape /\ ClosedShape

\* What no step undoes.
SocketsMove ==
    \A s \in Sockets :
        /\ \/ rid'[s] = rid[s] \/ rid'[s] \in {"eof", "reset", "closed"}
           \/ rid[s] = "unused" /\ rid'[s] = "open"
        /\ link[s] = "cut" => link'[s] = "cut"

LEMMA LockStep ==
    ASSUME LockInv, LockTypes', SocketsMove, cur \in Sockets,
           RecvShape', ClosedShape', rid'[cur'] # "unused",
           \A s \in Sockets : rlock'[s] = Recv => rlock[s] = Recv \/ rid'[s] # "unused",
           LeftLocked(cur)' => \/ Dead(cur)' \/ Excused'
                               \/ cur' = cur /\ LeftLocked(cur) /\ ~ Excused
    PROVE  LockInv'
  <1>1. LocksLeft'
    BY DEF LockInv, LocksLeft, SocketsMove, Dead
  <1>2. UsedShape'
    BY DEF LockInv, UsedShape, SocketsMove
  <1> QED
    BY <1>1, <1>2 DEF LockInv

\* A step of anybody else, or one that sends the SUBSCRIBE of the finally block.
LEMMA LockOthers ==
    ASSUME LockInv, LockTypes', SocketsMove, cur \in Sockets, ClosedShape', rid'[cur'] # "unused",
           cur' = cur \/ rlock[cur'] # Recv, cur' \in Sockets,
           \A s \in Sockets : rlock'[s] = Recv => rlock[s] = Recv,
           call'[Recv] = call[Recv],
           call[Recv].st \in {"writing", "written", "reading"} => call[Recv].sock \in Sockets,
           \/ loop' = loop /\ task'[Recv] = task[Recv]
           \/ loop = "reconnecting" /\ call[Recv].st = "idle"
    PROVE  LockInv'
  <1>1. RecvShape'
    BY DEF LockInv, RecvShape, SocketsMove
  <1>2. LeftLocked(cur)' => cur' = cur /\ LeftLocked(cur)
    BY DEF LeftLocked, ReadsAt
  <1>3. cur' = cur /\ Excused => Excused'
    <2>1. CASE loop' = loop /\ task'[Recv] = task[Recv]
      BY <2>1 DEF Excused, Refused, Pinging, Back, CallDone
    <2>2. CASE loop = "reconnecting" /\ call[Recv].st = "idle"
      BY <2>2 DEF Excused, Refused, Pinging, Back, CallDone
    <2> QED
      BY <2>1, <2>2
  <1> QED
    BY <1>1, <1>2, <1>3, LockStep

\* The wire is left alone, or the current socket is closed.
LEMMA QuietLocks ==
    ASSUME Shapes, LockInv, UNCHANGED <<rid, inb>> \/ CloseSocket(cur),
           isClosed' = isClosed \/ CloseSocket(cur),
           UNCHANGED <<link, runs, cur>>
    PROVE  /\ SocketsMove /\ ClosedShape' /\ rid'[cur'] # "unused" /\ cur' \in Sockets
           /\ rlock' \in [Sockets -> Fibers \cup {None}] => LockTypes'
           /\ CloseSocket(cur) => Dead(cur)'
  <1>1. cur \in Sockets /\ cur # NoSocket
    BY DEF Shapes, Sockets, NoSocket
  <1>2. /\ \A s \in Sockets : rid'[s] = rid[s] \/ rid'[s] = "closed"
        /\ CloseSocket(cur) => rid'[cur] # "open"
    <2>1. CASE UNCHANGED <<rid, inb>>
      <3>1. CloseSocket(cur) => rid[cur] # "open"
        BY <1>1, <2>1 DEF CloseSocket, Shapes
      <3> QED
        BY <2>1, <3>1
    <2>2. CASE rid' = [rid EXCEPT ![cur] = "closed"] /\ inb' = [inb EXCEPT ![cur] = <<>>]
      BY <1>1, <2>2 DEF Shapes
    <2> QED
      BY <2>1, <2>2 DEF CloseSocket
  <1>3. ClosedShape'
    BY <1>1, <1>2 DEF LockInv, ClosedShape
  <1> QED
    BY <1>1, <1>2, <1>3 DEF LockInv, LockTypes, UsedShape, SocketsMove, Dead

LEMMA RecvSock ==
    ASSUME SubInv
    PROVE  /\ call[Recv] \in Calls /\ Recv \in Fibers /\ Mux # Recv /\ cur \in Sockets
           /\ call[Recv].st \in {"writing", "written", "reading"} => call[Recv].sock \in Sockets
  BY Basics DEF SubInv, Shapes, CallShapes, CallShape

\* A step that leaves the wire, but for the calls, and receive() alone.
LEMMA LockIdle ==
    ASSUME SubInv, LockInv, UNCHANGED <<rid, inb>> \/ CloseSocket(cur),
           isClosed' = isClosed \/ CloseSocket(cur),
           UNCHANGED <<link, runs, rlock, cur>>, call'[Recv] = call[Recv],
           \/ loop' = loop /\ task'[Recv] = task[Recv]
           \/ loop = "reconnecting" /\ call[Recv].st = "idle"
    PROVE  LockInv'
  <1>1. Shapes /\ rlock' \in [Sockets -> Fibers \cup {None}]
    BY DEF SubInv, LockInv, LockTypes
  <1> QED
    BY <1>1, RecvSock, QuietLocks, LockOthers

\* What one step of a call does to the sockets.
LEMMA CallStepLocks ==
    ASSUME SubInv, LockInv, NEW f \in {Mux, Recv}, CallStep(f), cur' = cur,
           isClosed' = isClosed
    PROVE  /\ LockTypes' /\ SocketsMove /\ ClosedShape' /\ rid'[cur'] # "unused"
           /\ \A s \in Sockets : s # call[f].sock => rlock'[s] = rlock[s]
           /\ \A s \in Sockets : rlock'[s] \in {rlock[s], None, f}
  <1> DEFINE s == call[f].sock
  <1>1. /\ Shapes /\ CallShapes /\ f \in Fibers /\ cur \in Sockets /\ call[f] \in Calls
        /\ rid \in [Sockets -> {"unused", "open", "eof", "reset", "closed"}]
        /\ rlock \in [Sockets -> Fibers \cup {None}]
    BY Basics DEF SubInv, Shapes, LockInv, LockTypes
  <1>2. s \in Sockets
    BY <1>1
    DEF CallShapes, CallShape, CallStep, WriteOk, WriteFails, StartRead, ReadReply, ReadFails
  <1>3. link' = link /\ runs' = runs
    BY DEF CallStep, WriteOk, WriteFails, StartRead, ReadReply, ReadFails, FinishRead
  <1>4. \/ rlock' = rlock
        \/ rlock' = [rlock EXCEPT ![s] = None]
        \/ rlock' = [rlock EXCEPT ![s] = f]
    BY DEF CallStep, WriteOk, WriteFails, StartRead, ReadReply, ReadFails, FinishRead
  <1>5. rid' = rid \/ \E x \in {"eof", "reset"} : rid' = [rid EXCEPT ![s] = x]
    BY DEF CallStep, WriteOk, WriteFails, StartRead, ReadReply, ReadFails
  <1>6. \A u \in Sockets : rid'[u] = rid[u] \/ rid'[u] \in {"eof", "reset", "closed"}
    BY <1>1, <1>2, <1>5
  <1>9. ClosedShape'
    BY <1>1, <1>6 DEF LockInv, ClosedShape
  <1>10. rlock' \in [Sockets -> Fibers \cup {None}]
    BY <1>1, <1>2, <1>4
  <1>11. /\ \A u \in Sockets : u # s => rlock'[u] = rlock[u]
         /\ \A u \in Sockets : rlock'[u] \in {rlock[u], None, f}
    BY <1>1, <1>2, <1>4
  <1>12. SocketsMove /\ rid'[cur'] # "unused" /\ LockTypes'
    BY <1>1, <1>3, <1>6, <1>10 DEF SocketsMove, LockInv, LockTypes, UsedShape
  <1> QED
    BY <1>9, <1>11, <1>12

LEMMA NoneIsNobody ==
    Mux # None /\ Recv # None /\ Recv \in Receivers /\ Mux \notin Receivers /\ None \notin Requests
  BY Basics, WireAssumption, MuxAssumption, PubSubAssumption

LEMMA MuxCallLocks ==
    ASSUME SubInv, LockInv, CallStep(Mux), UNCHANGED <<connVars, muxVars, subVars>>
    PROVE  LockInv'
  <1>1. cur' = cur /\ loop' = loop /\ task' = task /\ isClosed' = isClosed
    BY DEF connVars, subVars
  <1>2. call'[Recv] = call[Recv]
    <2>1. CallMoves(Mux)
      BY Basics, WriteOkMoves, WriteFailsMoves, StartReadMoves, ReadReplyMoves, ReadFailsMoves
      DEF SubInv, CallStep
    <2> QED
      BY <2>1, Basics DEF CallMoves, SameCalls
  <1> QED
    BY <1>1, <1>2, CallStepLocks, RecvSock, NoneIsNobody, LockOthers

\* When receive()'s read is over, it keeps the lock only of a socket that is dead, or
\* with an error in hand that ends the loop or forces reconnect().
LEMMA RecvReadLocks ==
    ASSUME SubInv, LockInv, ReadReply(Recv) \/ ReadFails(Recv), UNCHANGED loop,
           NEW s, s = call[Recv].sock, rlock'[s] = Recv
    PROVE  Dead(s)' \/ Refused'
  <1>1. /\ call[Recv].st = "reading" /\ s \in Sockets /\ call \in [Fibers -> Calls]
        /\ Recv \in Fibers /\ call[Recv] \in Calls
        /\ rid \in [Sockets -> {"unused", "open", "eof", "reset", "closed"}]
        /\ inb \in [Sockets -> Seq(Arriving)]
        /\ rlock \in [Sockets -> Fibers \cup {None}]
    BY RecvSock DEF SubInv, Shapes, ReadReply, ReadFails, LockInv, LockTypes
  <1>2. ASSUME NEW o, FinishRead(Recv, o)
        PROVE  /\ call[Recv].req = None /\ ~ IsAnswer(o)
               /\ call' = [call EXCEPT ![Recv] = Done(Recv, o)]
    BY <1>1, <1>2, NoneIsNobody DEF FinishRead
  <1>3. CASE ReadReply(Recv)
    <2>1. PICK o \in Decoded(Head(inb[s])) : FinishRead(Recv, o)
      BY <1>3 DEF ReadReply
    <2>2. Head(inb[s]) \in Arriving
      BY <1>1, <1>3 DEF ReadReply
    <2>3. o = Fault("InvalidState") \/ o.kind = "errorReply"
      <3>1. CASE Head(inb[s]).kind = "part"
        BY <1>2, <2>1, <3>1 DEF Decoded, Fragments, IsAnswer, Torn, ErrorReply
      <3>2. CASE Head(inb[s]).kind # "part"
        BY <1>2, <2>1, <2>2, <3>2 DEF Decoded, IsAnswer, Arriving, Replies
      <3> QED
        BY <3>1, <3>2
    <2>4. o \in Outcomes(Requests)
      BY <2>1, <2>2, ReadOutcomes
    <2>5. loop = "reading"
      BY <1>1, <1>2, <2>1, NoneIsNobody DEF LockInv, RecvShape
    <2>7. call'[Recv].st = "done" /\ call'[Recv].res = o
      BY <1>1, <1>2, <2>1, <2>4, DoneType
    <2> QED
      BY <2>3, <2>5, <2>7 DEF Refused, Back, CallDone
  <1>4. CASE ReadFails(Recv)
    <2>1. rid'[s] \in {"eof", "reset", "closed"}
      BY <1>1, <1>4 DEF ReadFails
    <2> QED
      BY <2>1 DEF Dead
  <1> QED
    BY <1>3, <1>4

LEMMA RecvCallLocks ==
    ASSUME SubInv, LockInv, CallStep(Recv), UNCHANGED <<connVars, muxVars, subVars>>
    PROVE  LockInv'
  <1> DEFINE s == call[Recv].sock
  <1>1. /\ cur' = cur /\ loop' = loop /\ task' = task /\ isClosed' = isClosed
        /\ cur \in Sockets /\ Recv \in Fibers /\ s \in Sockets
        /\ call \in [Fibers -> Calls] /\ call[Recv] \in Calls
        /\ call[Recv].st \in {"writing", "written", "reading"}
    BY RecvSock DEF SubInv, Shapes, connVars, subVars, CallStep, WriteOk, WriteFails, StartRead,
                    ReadReply, ReadFails
  <1>2. CallMoves(Recv)
    BY Basics, WriteOkMoves, WriteFailsMoves, StartReadMoves, ReadReplyMoves, ReadFailsMoves
    DEF SubInv, CallStep
  <1>3. /\ LockTypes' /\ SocketsMove /\ ClosedShape' /\ rid'[cur'] # "unused"
        /\ \A u \in Sockets : u # s => rlock'[u] = rlock[u]
    BY <1>1, Basics, CallStepLocks
  <1>4. rid[s] # "unused" /\ rid'[s] # "unused"
    BY <1>1, <1>3 DEF LockInv, RecvShape, SocketsMove
  <1>5. ~ Refused /\ (call[Recv].st = "reading" => ~ Excused)
    <2>1. loop \in {"reading", "reconnecting"} /\ ~ Back
      BY <1>1 DEF Back, CallDone, LockInv, RecvShape, SubInv, FibreShape
    <2> QED
      BY <1>1, <2>1 DEF Excused, Refused, Pinging, CallDone
  <1>6. RecvShape'
    <2>1. CASE WriteOk(Recv) \/ StartRead(Recv)
      <3>1. \/ call' = [call EXCEPT ![Recv].st = "written"]
            \/ /\ call[Recv].st = "written"
               /\ call' = [call EXCEPT ![Recv].st = "reading"]
            \/ call' = [call EXCEPT ![Recv] = Done(Recv, Fault("TypeError"))]
        BY <2>1 DEF WriteOk, StartRead
      <3>2. call'[Recv].st # "done" => call'[Recv].req = call[Recv].req
        <4>1. \A x : [call[Recv] EXCEPT !.st = x].req = call[Recv].req
          BY <1>1 DEF Calls
        <4>2. Done(Recv, Fault("TypeError")).st = "done"
          BY <1>1 DEF Done, Calls
        <4>3. \/ call'[Recv] = [call[Recv] EXCEPT !.st = "written"]
              \/ call'[Recv] = [call[Recv] EXCEPT !.st = "reading"]
              \/ call'[Recv] = Done(Recv, Fault("TypeError"))
          BY <1>1, <3>1
        <4> QED
          BY <4>1, <4>2, <4>3
      <3>3. call[Recv].req \in Requests /\ loop = "reconnecting"
        BY <2>1 DEF LockInv, RecvShape, SubInv, FibreShape, WriteOk, StartRead
      <3> QED
        BY <1>1, <1>2, <1>4, <3>2, <3>3 DEF RecvShape, CallMoves
    <2>2. CASE WriteFails(Recv) \/ ReadReply(Recv) \/ ReadFails(Recv)
      <3>1. call'[Recv].st = "done"
        BY <2>2, Basics, WriteFailsMoves, ReadReplyMoves, ReadFailsMoves DEF SubInv
      <3> QED
        BY <3>1 DEF RecvShape
    <2> QED
      BY <2>1, <2>2 DEF CallStep
  <1>7. ASSUME LeftLocked(cur)'
        PROVE  Dead(cur)' \/ Excused' \/ (LeftLocked(cur) /\ ~ Excused)
    <2>1. CASE ReadReply(Recv) \/ ReadFails(Recv)
      <3>1. CASE cur = s
        BY <1>1, <1>7, <2>1, <3>1, RecvReadLocks DEF LeftLocked, Excused
      <3>2. CASE cur # s
        <4>1. call[Recv].st = "reading"
          BY <2>1 DEF ReadReply, ReadFails
        <4> QED
          BY <1>1, <1>3, <1>5, <1>7, <3>2, <4>1 DEF LeftLocked, ReadsAt
      <3> QED
        BY <3>1, <3>2
    <2>2. CASE StartRead(Recv) /\ rlock[s] = None
      <3>1. /\ call[Recv].st = "written" /\ call'[Recv].st = "reading"
            /\ call'[Recv].sock = s
        BY <1>1, <1>2, <2>2 DEF StartRead, Calls, CallMoves
      <3>2. cur # s
        BY <1>1, <1>7, <3>1 DEF LeftLocked, ReadsAt
      <3>3. LeftLocked(cur)
        BY <1>1, <1>3, <1>7, <3>1, <3>2 DEF LeftLocked, ReadsAt
      <3>4. ~ Excused
        BY <1>5, <3>1, <3>2 DEF Excused, Pinging, CallDone
      <3> QED
        BY <3>3, <3>4
    <2>3. CASE WriteOk(Recv) \/ WriteFails(Recv) \/ (StartRead(Recv) /\ rlock[s] # None)
      <3>1. rlock' = rlock /\ call[Recv].st \in {"writing", "written"}
        BY <2>3 DEF WriteOk, WriteFails, StartRead
      <3>2. LeftLocked(cur)
        BY <1>1, <1>7, <3>1 DEF LeftLocked, ReadsAt
      <3>3. \/ call'[Recv].st = "written"
            \/ call'[Recv].st = "done" /\ call'[Recv].res.kind = "fault"
        <4>1. CASE WriteOk(Recv)
          BY <1>1, <4>1 DEF WriteOk, Calls
        <4>2. CASE WriteFails(Recv)
          BY <4>2, Basics, WriteFailsMoves DEF SubInv
        <4>3. CASE StartRead(Recv) /\ rlock[s] # None
          <5>1. call'[Recv].st = "done"
            <6>1. call' = [call EXCEPT ![Recv] = Done(Recv, Fault("TypeError"))]
              BY <4>3 DEF StartRead
            <6> QED
              BY <1>1, <6>1 DEF Done, Calls
          <5> QED
            BY <4>3, <5>1, Basics, StartReadMoves DEF SubInv
        <4> QED
          BY <2>3, <4>1, <4>2, <4>3
      <3>4. Excused => Pinging'
        BY <1>1, <1>2, <1>5, <3>1, <3>3 DEF Excused, Pinging, CallDone, CallMoves, IsAnswer
      <3> QED
        BY <3>2, <3>4 DEF Excused
    <2> QED
      BY <2>1, <2>2, <2>3 DEF CallStep
  <1>8. \A u \in Sockets : rlock'[u] = Recv => rlock[u] = Recv \/ rid'[u] # "unused"
    BY <1>3, <1>4
  <1> QED
    BY <1>1, <1>3, <1>6, <1>7, <1>8, LockStep

\* connect() and reconnect() lock nothing for reading.
LEMMA ConnLocks ==
    ASSUME SubInv, LockInv, NEW f \in {Mux, Recv}, ConnStep(f), loop' = loop
    PROVE  LockInv'
  <1>1. /\ Shapes /\ CallShapes /\ FibreShape /\ f \in Fibers /\ cur \in Sockets
        /\ rid \in [Sockets -> {"unused", "open", "eof", "reset", "closed"}]
    BY Basics DEF SubInv, Shapes
  <1>2. ConnMoves(f) /\ task[f].pc # "idle"
    BY <1>1, DialOkMoves, HelloStepMoves, FailsMoves, DelayOverMoves, PingMoves
    DEF ConnStep, DialOk, DialFails, HelloStep, HelloFails, DelayOver, PingOk, PingFails, RePing
  <1>3. UNCHANGED <<link, rlock, runs>> /\ rlock' \in [Sockets -> Fibers \cup {None}]
    BY DEF ConnStep, DialOk, DialFails, HelloStep, HelloFails, DelayOver, PingOk, PingFails, RePing,
           wireVars, LockInv, LockTypes
  <1>4. /\ LockTypes' /\ SocketsMove /\ ClosedShape' /\ rid'[cur'] # "unused"
        /\ cur' \in Sockets
        /\ cur' = cur \/ rlock[cur'] # Recv
        /\ PingFails(f) => Dead(cur)'
    <2>1. CASE DialOk(f)
      <3>1. PICK s \in Sockets : /\ rid[s] = "unused" /\ rid' = [rid EXCEPT ![s] = "open"]
                                 /\ cur' = s /\ isClosed' = FALSE
        BY <2>1 DEF DialOk, IsFresh
      <3>2. SocketsMove /\ rid'[cur'] # "unused"
        BY <1>1, <1>3, <3>1 DEF SocketsMove
      <3>3. rlock[s] # Recv
        BY <3>1 DEF LockInv, UsedShape
      <3>4. ~ PingFails(f)
        BY <2>1 DEF DialOk, PingFails
      <3> QED
        BY <1>3, <3>1, <3>2, <3>3, <3>4 DEF LockInv, LockTypes, ClosedShape
    <2>2. CASE ~ DialOk(f)
      <3>1. /\ UNCHANGED <<rid, inb>> \/ CloseSocket(cur)
            /\ isClosed' = isClosed \/ CloseSocket(cur)
            /\ cur' = cur
        BY <2>2
        DEF ConnStep, DialFails, HelloStep, HelloFails, DelayOver, PingOk, PingFails, RePing,
            wireVars, CloseNow
      <3>2. PingFails(f) => CloseSocket(cur)
        BY DEF PingFails, CloseNow
      <3> QED
        BY <1>1, <1>3, <3>1, <3>2, QuietLocks
    <2> QED
      BY <2>1, <2>2
  <1>5. CASE f = Mux
    <2>1. call'[Recv] = call[Recv] /\ task'[Recv] = task[Recv]
      BY <1>2, <1>5, Basics DEF ConnMoves, Ends, Begins, SameCalls, SameTasks
    <2> QED
      BY <1>3, <1>4, <2>1, RecvSock, LockOthers
  <1>6. CASE f = Recv
    <2>1. loop = "reconnecting" /\ loop' = "reconnecting"
      BY <1>1, <1>2, <1>6 DEF FibreShape
    <2>2. call[Recv].st \notin {"writing", "written", "reading"}
      BY <1>1, <1>6
      DEF ConnStep, DialOk, DialFails, HelloStep, HelloFails, DelayOver, PingOk, PingFails, RePing,
          CallDone, CallShapes, CallShape
    <2>3. RecvShape'
      <3>1. call'[Recv].st \in {"idle", "writing", "done"}
        BY <1>2, <1>6 DEF ConnMoves, Ends, Begins
      <3>2. call'[Recv].st = "writing" => call'[Recv].sock = cur' /\ call'[Recv].req \in Requests
        BY <1>2, <1>6, Basics DEF ConnMoves, Ends, Begins
      <3> QED
        BY <1>4, <3>1, <3>2 DEF RecvShape
    <2>4. LeftLocked(cur)' => cur' = cur /\ LeftLocked(cur)
      BY <1>3, <1>4, <2>2 DEF LeftLocked, ReadsAt
    <2>5. PingFails(Recv) \/ ~ Excused
      <3>1. ~ Refused
        BY <2>1 DEF Refused, Back
      <3>2. Pinging => CallDone(Recv) /\ ~ IsAnswer(call[Recv].res) /\ task[Recv].pc = "ping"
        BY <2>2 DEF Pinging
      <3>3. Pinging => PingFails(Recv)
        BY <1>6, <3>2
        DEF ConnStep, DialOk, DialFails, HelloStep, HelloFails, DelayOver, PingOk, RePing
      <3> QED
        BY <3>1, <3>3 DEF Excused
    <2>6. LeftLocked(cur)' => \/ Dead(cur)' \/ Excused'
                              \/ cur' = cur /\ LeftLocked(cur) /\ ~ Excused
      BY <1>4, <1>6, <2>4, <2>5
    <2> QED
      BY <1>1, <1>3, <1>4, <2>3, <2>6, LockStep
  <1> QED
    BY <1>5, <1>6

\* The steps of the executor begin and end its own calls.
LEMMA MuxActsLocks ==
    ASSUME SubInv, LockInv, UNCHANGED <<rid, inb, link, runs, rlock, cur, isClosed>>,
           MuxActs \/ ConnMoves(Mux) \/ call' = call,
           \/ loop' = loop /\ task'[Recv] = task[Recv]
           \/ loop = "reconnecting" /\ call[Recv].st = "idle"
    PROVE  LockInv'
  <1>1. call'[Recv] = call[Recv]
    BY Basics DEF MuxActs, ConnMoves, Ends, Begins, SameCalls
  <1> QED
    BY <1>1, LockIdle

LEMMA MuxStepLocks ==
    ASSUME SubInv, LockInv, MuxStep, UNCHANGED subVars
    PROVE  LockInv'
  <1>1. /\ Shapes /\ FibreShape /\ Mux \in Fibers /\ queue \in Seq(Commands)
    BY Basics DEF SubInv, Shapes
  <1>2. UNCHANGED <<rid, inb, link, runs, rlock, cur, loop, isClosed>> /\ isProcessing
    BY DEF MuxStep, Resolve, Reject, Retry, Resume, GiveUp, HeadIsBack, connVars, subVars
  <1>3. queue # <<>> /\ Tail(queue) \in Seq(Commands)
    BY <1>1, <1>2 DEF FibreShape
  <1>4. CASE Retry
    <2>1. ConnMoves(Mux)
      BY <1>1, <1>2, <1>4, ReconnectMoves DEF Retry
    <2>2. task'[Recv] = task[Recv]
      BY <2>1, Basics DEF ConnMoves, SameTasks
    <2> QED
      BY <1>2, <2>1, <2>2, MuxActsLocks
  <1>5. CASE ~ Retry
    <2>1. queue' \in {queue, Tail(queue)} /\ Dequeue(queue')
      BY <1>5 DEF MuxStep, Resolve, Reject, Resume, GiveUp, SettleHead
    <2>2. queue' \in Seq(Commands)
      BY <1>1, <1>3, <2>1
    <2>3. task'[Recv] = task[Recv]
      <3>1. task' = task \/ task' = [task EXCEPT ![Mux] = NoTask]
        BY <1>5 DEF MuxStep, Resolve, Reject, Resume, GiveUp, connVars
      <3> QED
        BY <1>1, <3>1, Basics DEF Shapes
    <2> QED
      BY <1>1, <1>2, <2>1, <2>2, <2>3, DequeueMoves, MuxActsLocks
  <1> QED
    BY <1>4, <1>5

LEMMA UserExecLocks ==
    ASSUME SubInv, LockInv, NEW c \in CallerCommands, UserExec(c)
    PROVE  LockInv'
  <1>1. Shapes /\ FibreShape /\ c \in Commands /\ loop' = loop
    BY DEF SubInv, CallerCommands, UserExec, subVars
  <1>2. CASE Exec(c)
    <2>1. UNCHANGED <<rid, inb, link, runs, rlock, cur, isClosed, task>>
      BY <1>2 DEF Exec, connVars
    <2>2. MuxActs \/ call' = call
      BY <1>1, <1>2, <2>1, EnqueueMoves DEF Exec
    <2> QED
      BY <1>1, <2>1, <2>2, MuxActsLocks
  <1>3. CASE ExecRefused(c)
    BY <1>1, <1>3, MuxActsLocks DEF ExecRefused, connVars, wireVars
  <1> QED
    BY <1>2, <1>3 DEF UserExec

\* Nothing happens to receive(), nor to the wire but that the socket is closed.
LEMMA StillLocks ==
    ASSUME SubInv, LockInv,
           (\E c : Record(c)) \/ UserClose \/ UNCHANGED vars
    PROVE  LockInv'
  <1>1. CASE (\E c : Record(c)) \/ UNCHANGED vars
    BY <1>1, LockIdle DEF Record, vars, wireVars, connVars, subVars
  <1>2. CASE UserClose
    BY <1>2, LockIdle DEF UserClose, CloseNow, subVars
  <1> QED
    BY <1>1, <1>2

LEMMA CutLocks ==
    ASSUME SubInv, LockInv, NEW s \in Sockets, Cut(s)
    PROVE  LockInv'
  <1>1. /\ UNCHANGED <<rid, rlock, runs, cur, isClosed, call, loop, task>>
        /\ link' = [link EXCEPT ![s] = "cut"] /\ link \in [Sockets -> {"up", "cut"}]
    BY DEF Cut, LinkCut, connVars, subVars, LockInv, LockTypes
  <1>2. LockTypes' /\ SocketsMove /\ ClosedShape' /\ rid'[cur'] # "unused"
    BY <1>1 DEF LockInv, LockTypes, SocketsMove, ClosedShape, UsedShape
  <1> QED
    BY <1>1, <1>2, RecvSock, LockOthers

\* What the server sends locks nothing.
LEMMA ServerLocks ==
    ASSUME SubInv, LockInv,
           (\E m \in Messages : Publish(m)) \/ (\E s \in Sockets : Serve(s))
    PROVE  LockInv'
  <1>1. UNCHANGED <<rid, link, rlock, cur, isClosed, call, loop, task>>
    BY DEF Publish, Serve, connVars
  <1>2. runs' \in [Commands -> Nat]
    <2>1. runs \in [Commands -> Nat]
      BY DEF LockInv, LockTypes
    <2>2. CASE \E m \in Messages : Publish(m)
      BY <2>1, <2>2 DEF Publish
    <2>3. ASSUME NEW s \in Sockets, Serve(s)
          PROVE  runs' \in [Commands -> Nat]
      <3>1. runs' = [c \in Commands |-> IF c = Head(out[s]) THEN runs[c] + 1 ELSE runs[c]]
        BY <2>3 DEF Serve
      <3> QED
        BY <2>1, <3>1
    <2> QED
      BY <2>2, <2>3
  <1>3. LockTypes' /\ SocketsMove /\ ClosedShape' /\ rid'[cur'] # "unused"
    BY <1>1, <1>2 DEF LockInv, LockTypes, SocketsMove, ClosedShape, UsedShape
  <1> QED
    BY <1>1, <1>3, RecvSock, LockOthers

\* A step of receive() outside of readReply() and reconnect(): it locks nothing but the
\* socket that it goes on to read.
LEMMA RecvActsLocks ==
    ASSUME SubInv, LockInv, RecvActs, UNCHANGED <<rid, inb>> \/ CloseSocket(cur),
           isClosed' = isClosed \/ CloseSocket(cur), UNCHANGED <<link, runs, cur>>,
           call[Recv].st \notin {"writing", "written", "reading"},
           \/ rlock' = rlock
           \/ loop' = "reading" /\ rlock' = [rlock EXCEPT ![cur] = Recv],
           LeftLocked(cur) /\ Excused => Dead(cur)' \/ Excused'
    PROVE  LockInv'
  <1>1. /\ Shapes /\ Recv \in Fibers /\ cur \in Sockets /\ call \in [Fibers -> Calls]
        /\ rlock \in [Sockets -> Fibers \cup {None}]
    BY Basics DEF SubInv, Shapes, LockInv, LockTypes
  <1>2. /\ SocketsMove /\ ClosedShape' /\ rid'[cur'] # "unused"
        /\ rlock' \in [Sockets -> Fibers \cup {None}] => LockTypes'
    BY <1>1, QuietLocks
  <1>3. /\ rlock' \in [Sockets -> Fibers \cup {None}]
        /\ \A s \in Sockets : s # cur => rlock'[s] = rlock[s]
        /\ rlock' = rlock \/ loop' = "reading"
    BY <1>1
  <1>4. loop' = "reading" => /\ call'[Recv].st = "reading" /\ call'[Recv].sock = cur
                             /\ call'[Recv].req = None
    <2> DEFINE c == [st |-> "reading", sock |-> cur, req |-> None, res |-> None]
    <2>1. loop' = "reading" => call' = [call EXCEPT ![Recv] = c]
      BY DEF RecvActs
    <2>2. c.st = "reading" /\ c.sock = cur /\ c.req = None
      OBVIOUS
    <2> HIDE DEF c
    <2> QED
      BY <1>1, <2>1, <2>2
  <1>5. RecvShape'
    <2>1. CASE loop' = "reconnecting"
      <3>1. call'[Recv].st \in {"idle", "writing", "done"}
        BY <2>1 DEF RecvActs, ConnMoves, Ends, Begins
      <3>2. call'[Recv].st = "writing" => call'[Recv].sock = cur' /\ call'[Recv].req \in Requests
        BY <2>1, Basics DEF RecvActs, ConnMoves, Ends, Begins
      <3> QED
        BY <1>2, <3>1, <3>2 DEF RecvShape
    <2>2. CASE loop' \in {"suspended", "ended", "refused", "thrown"}
      BY <2>2 DEF RecvActs, Ends, RecvShape
    <2>3. CASE loop' = "reading"
      BY <1>2, <1>4, <2>3 DEF RecvShape
    <2> QED
      BY <2>1, <2>2, <2>3 DEF RecvActs
  <1>6. ASSUME LeftLocked(cur)'
        PROVE  cur' = cur /\ LeftLocked(cur)
    <2>1. rlock[cur] = Recv
      BY <1>3, <1>4, <1>6 DEF LeftLocked, ReadsAt
    <2> QED
      BY <2>1 DEF LeftLocked, ReadsAt
  <1>7. \A s \in Sockets : rlock'[s] = Recv => rlock[s] = Recv \/ rid'[s] # "unused"
    BY <1>2, <1>3
  <1> QED
    BY <1>1, <1>2, <1>3, <1>5, <1>6, <1>7, LockStep

LEMMA LoopTopLocks ==
    ASSUME LoopTop
    PROVE  \/ rlock' = rlock
           \/ loop' = "reading" /\ rlock' = [rlock EXCEPT ![cur] = Recv]
  BY DEF LoopTop

LEMMA NextMessageLocks ==
    ASSUME SubInv, LockInv, NextMessage
    PROVE  LockInv'
  <1>1. /\ Shapes /\ FibreShape /\ Recv \in Fibers /\ call[Recv] \in Calls
        /\ task \in [Fibers -> Tasks]
    BY Basics DEF SubInv, Shapes
  <1>2. /\ LoopTop /\ task' = task /\ loop \in {"suspended", "off"}
        /\ UNCHANGED <<rid, inb, link, runs, cur, isClosed>>
    BY DEF NextMessage, connVars
  <1>3. task[Recv].pc = "idle" /\ call[Recv].st \in {"idle", "done"}
    BY <1>1, <1>2 DEF FibreShape, Calls, CallStates, LockInv, RecvShape
  <1>4. RecvActs
    BY <1>1, <1>2, <1>3, LoopTopActs DEF SameTasks
  <1>5. ~ Excused
    BY <1>2 DEF Excused, Refused, Pinging, Back, CallDone
  <1> QED
    BY <1>2, <1>3, <1>4, <1>5, LoopTopLocks, RecvActsLocks

\* readReply() is back: the loop goes on, is suspended, reconnects or is over.
LEMMA BackActs ==
    ASSUME SubInv, RecvMessage \/ RecvIgnores \/ RecvForces \/ RecvBreaks \/ RecvThrows
    PROVE  RecvActs
  <1>1. Back /\ cur' = cur
    BY DEF RecvMessage, RecvIgnores, RecvForces, RecvBreaks, RecvThrows, connVars
  <1>2. CASE RecvIgnores
    BY <1>1, <1>2, BackShape, LoopTopActs DEF RecvIgnores, connVars, SameTasks
  <1>3. CASE RecvForces
    BY <1>1, <1>3, BackShape, ReconnectMoves DEF RecvForces, RecvActs, ConnMoves
  <1>4. CASE RecvMessage \/ RecvBreaks \/ RecvThrows
    <2>1. loop' \in {"suspended", "ended", "refused", "thrown"} /\ EndCall(Recv) /\ task' = task
      BY <1>4 DEF RecvMessage, RecvBreaks, RecvThrows, connVars
    <2> QED
      BY <1>1, <2>1, BackShape, EndCallEnds DEF RecvActs, SameTasks, EndCall
  <1> QED
    BY <1>2, <1>3, <1>4

\* reconnect() begins with a PING on the connection's streams, unless the connection
\* has closed them.
LEMMA ForcesPings ==
    ASSUME SubInv, LockInv, RecvForces
    PROVE  Dead(cur)' \/ Excused'
  <1>1. /\ StartReconnect(Recv) /\ loop' = "reconnecting" /\ UNCHANGED <<cur, rid, link>>
        /\ cur \in Sockets /\ Recv \in Fibers
        /\ call \in [Fibers -> Calls] /\ task \in [Fibers -> Tasks]
    BY Basics DEF RecvForces, SubInv, Shapes
  <1>2. CASE isClosed
    BY <1>1, <1>2 DEF LockInv, ClosedShape, UsedShape, Dead
  <1>3. CASE ~ isClosed
    <2>1. /\ task' = [task EXCEPT ![Recv] = [NoTask EXCEPT !.pc = "ping", !.mode = "reconnect"]]
          /\ Send(Recv, cur, "PING", wlock)
      BY <1>1, <1>3 DEF StartReconnect
    <2>2. task'[Recv].pc = "ping"
      BY <1>1, <2>1 DEF NoTask
    <2>3. \/ call'[Recv].st = "writing" /\ call'[Recv].sock = cur
          \/ call'[Recv].st = "done" /\ call'[Recv].res = Fault("TypeError")
      BY <1>1, <2>1 DEF Send
    <2> QED
      BY <1>1, <2>2, <2>3 DEF Excused, Pinging, CallDone, IsAnswer, Fault
  <1> QED
    BY <1>2, <1>3

LEMMA BackLocks ==
    ASSUME SubInv, LockInv,
           RecvMessage \/ RecvIgnores \/ RecvForces \/ RecvBreaks \/ RecvThrows
    PROVE  LockInv'
  <1>1. /\ Back /\ UNCHANGED <<link, runs, cur>>
        /\ UNCHANGED <<rid, inb>> \/ CloseSocket(cur)
        /\ isClosed' = isClosed \/ CloseSocket(cur)
    BY DEF RecvMessage, RecvIgnores, RecvForces, RecvBreaks, RecvThrows, CloseNow, connVars
  <1>2. RecvActs
    BY BackActs
  <1>3. \/ rlock' = rlock
        \/ loop' = "reading" /\ rlock' = [rlock EXCEPT ![cur] = Recv]
    BY LoopTopLocks DEF RecvMessage, RecvIgnores, RecvForces, RecvBreaks, RecvThrows
  <1>4. ASSUME Excused
        PROVE  Dead(cur)' \/ Excused'
    <2>1. call[Recv].res = Fault("InvalidState") \/ call[Recv].res.kind = "errorReply"
      BY <1>1, <1>4 DEF Excused, Refused, Pinging, Back
    <2>2. CASE call[Recv].res.kind = "errorReply"
      <3>1. RecvThrows
        BY <2>2 DEF RecvMessage, RecvIgnores, RecvForces, RecvBreaks, IsAnswer, Fault
      <3> QED
        BY <2>2, <3>1 DEF RecvThrows, Excused, Refused
    <2>3. CASE call[Recv].res = Fault("InvalidState")
      <3>1. RecvForces
        BY <2>3 DEF RecvMessage, RecvIgnores, RecvBreaks, RecvThrows, IsAnswer, Fault
      <3> QED
        BY <3>1, ForcesPings
    <2> QED
      BY <2>1, <2>2, <2>3
  <1> QED
    BY <1>1, <1>2, <1>3, <1>4, BackShape, RecvActsLocks

LEMMA RecvReconnectLocks ==
    ASSUME SubInv, LockInv, RecvReconnected \/ RecvReconnectFails
    PROVE  LockInv'
  <1>1. /\ Shapes /\ CallShapes /\ FibreShape /\ Recv \in Fibers /\ Mux # Recv
        /\ task \in [Fibers -> Tasks] /\ Resubs \subseteq Commands
    BY Basics, PubSubAssumption DEF SubInv, Shapes
  <1>2. /\ loop = "reconnecting" /\ call[Recv].st = "idle"
        /\ task' = [task EXCEPT ![Recv] = NoTask]
        /\ UNCHANGED <<rid, inb, link, runs, cur, isClosed>>
    BY <1>1 DEF RecvReconnected, RecvReconnectFails, CallShapes, CallShape, wireVars
  <1>3. task' \in [Fibers -> Tasks] /\ SameTasks(Recv) /\ task'[Recv].pc = "idle"
    BY <1>1, <1>2, NoTaskType DEF SameTasks
  <1>4. ~ Excused
    BY <1>2 DEF Excused, Refused, Pinging, Back, CallDone
  <1>5. CASE RecvReconnectFails
    <2>1. call' = call /\ rlock' = rlock /\ loop' = "thrown"
      BY <1>5 DEF RecvReconnectFails, wireVars
    <2>2. RecvActs
      BY <1>2, <1>3, <2>1 DEF RecvActs
    <2> QED
      BY <1>2, <1>4, <2>1, <2>2, RecvActsLocks
  <1>6. CASE RecvReconnected /\ channels = {}
    <2>1. LoopTop
      BY <1>6 DEF RecvReconnected
    <2>2. RecvActs
      BY <1>1, <1>2, <1>3, <2>1, LoopTopActs
    <2> QED
      BY <1>2, <1>4, <2>1, <2>2, LoopTopLocks, RecvActsLocks
  <1>7. CASE RecvReconnected /\ channels # {}
    <2>1. PICK c \in Resubs :
            IF isClosed
            THEN UNCHANGED <<queue, isProcessing, call, wlock>>
            ELSE /\ queue' = Append(queue, c)
                 /\ IF isProcessing THEN UNCHANGED <<isProcessing, call, wlock>>
                                    ELSE Dequeue(queue')
      BY <1>7 DEF RecvReconnected
    <2>2. rlock' = rlock
      BY <1>7 DEF RecvReconnected
    <2>3. MuxActs \/ call' = call
      <3>1. CASE isClosed
        BY <2>1, <3>1
      <3>2. CASE ~ isClosed
        BY <1>1, <1>2, <2>1, <3>2, EnqueueMoves
      <3> QED
        BY <3>1, <3>2
    <2> QED
      BY <1>2, <2>2, <2>3, MuxActsLocks
  <1> QED
    BY <1>5, <1>6, <1>7

LEMMA RecvResubscribedLocks ==
    ASSUME SubInv, LockInv, RecvResubscribed
    PROVE  LockInv'
  <1>1. /\ Shapes /\ FibreShape /\ Recv \in Fibers /\ call[Recv] \in Calls
        /\ task \in [Fibers -> Tasks]
    BY Basics DEF SubInv, Shapes
  <1>2. /\ loop = "resubscribing" /\ task' = task /\ UNCHANGED <<rid, inb, link, runs, cur, isClosed>>
        /\ LoopTop \/ (loop' = "thrown" /\ UNCHANGED <<call, rlock>>)
    BY DEF RecvResubscribed, connVars
  <1>3. task[Recv].pc = "idle" /\ call[Recv].st \in {"idle", "done"}
    BY <1>1, <1>2 DEF FibreShape, Calls, CallStates, LockInv, RecvShape
  <1>4. RecvActs
    BY <1>1, <1>2, <1>3, LoopTopActs DEF RecvActs, SameTasks
  <1>5. ~ Excused
    BY <1>2 DEF Excused, Refused, Pinging, Back, CallDone
  <1> QED
    BY <1>2, <1>3, <1>4, <1>5, LoopTopLocks, RecvActsLocks

LEMMA InitLocks ==
    ASSUME Init
    PROVE  LockInv
  <1>1. /\ rid = [s \in Sockets |-> IF s = 1 THEN "open" ELSE "unused"]
        /\ link = [s \in Sockets |-> "up"] /\ inb = [s \in Sockets |-> <<>>]
        /\ rlock = [s \in Sockets |-> None] /\ call = [f \in Fibers |-> NoCall]
        /\ runs = [c \in Commands |-> 0] /\ cur = 1 /\ isClosed = FALSE
    BY DEF Init
  <1>2. 1 \in Sockets /\ NoCall.st = "idle" /\ DOMAIN <<>> = {} /\ Recv \in Fibers
    BY WireAssumption, Basics DEF Sockets, NoCall
  <1> QED
    BY <1>1, <1>2, NoneIsNobody
    DEF LockInv, LockTypes, LocksLeft, LeftLocked, RecvShape, UsedShape, ClosedShape

LEMMA NextLocks ==
    ASSUME SubInv, LockInv, [Next]_vars
    PROVE  LockInv'
  <1>1. ASSUME NEW f \in {Mux, Recv}, CallStep(f), UNCHANGED <<connVars, muxVars, subVars>>
        PROVE  LockInv'
    BY <1>1, MuxCallLocks, RecvCallLocks
  <1>2. ASSUME NEW f \in {Mux, Recv}, ConnStep(f), loop' = loop
        PROVE  LockInv'
    BY <1>2, ConnLocks
  <1>3. ASSUME RecvStep
        PROVE  LockInv'
    BY <1>3, BackLocks, RecvReconnectLocks, RecvResubscribedLocks DEF RecvStep
  <1>4. CASE Fibre
    <2>1. ASSUME MuxStep, UNCHANGED subVars
          PROVE  LockInv'
      BY <2>1, MuxStepLocks
    <2>2. ASSUME ConnStep(Recv), UNCHANGED <<muxVars, subVars>>
          PROVE  LockInv'
      BY <1>2, <2>2 DEF subVars
    <2> QED
      BY <1>1, <1>2, <1>3, <1>4, <2>1, <2>2, StillLocks DEF Fibre
  <1>5. CASE NextMessage \/ UserClose \/ UNCHANGED vars
    BY <1>5, NextMessageLocks, StillLocks
  <1>6. CASE \E c \in CallerCommands : UserExec(c)
    BY <1>6, UserExecLocks
  <1>7. CASE (\E m \in Messages : Publish(m)) \/ (\E s \in Sockets : Serve(s) \/ Cut(s))
    BY <1>7, ServerLocks, CutLocks
  <1> QED
    BY <1>4, <1>5, <1>6, <1>7 DEF Next

-----------------------------------------------------------------------------
(* The channels that a new socket gets back.                                *)

\* The channels each command names.
Wanted == [c \in Commands |-> Names(c)]

\* The channels of each socket on which nothing is missing: those that it has on the
\* server or is about to get, those that an UNSUBSCRIBE gave up, and all of them once
\* nobody can read it.
Covered ==
    [s \in Sockets |-> IF rid[s] = "open" /\ link[s] = "up"
                       THEN Channels \cap (subs[s] \cup Coming(s) \cup Dropping)
                       ELSE Channels]

\* The SUBSCRIBE commands whose channels are still to be noted.
Unnoted ==
    {c \in Subscribes : c \notin recorded} \cup
    {c \in Resubs : resub[c] # None /\ c \notin recorded}

\* The executor's call is about the head of its queue, unless it reconnects.
HeadShape ==
    /\ settled \in [Commands -> Outcomes(Requests) \cup {None}]
    /\ call[Mux].st \in {"writing", "written", "reading"} => rid[call[Mux].sock] # "unused"
    /\ isProcessing /\ task[Mux].pc = "idle" => call[Mux].req = Head(queue)
    /\ call[Mux].req \in Commands =>
         isProcessing /\ task[Mux].pc = "idle" /\ call[Mux].req = Head(queue)
    /\ task[Mux].pc = "failed" => ~ IsAnswer(task[Mux].err)

\* receive() waits for one SUBSCRIBE of its own at a time, and has issued no other.
IssueShape ==
    /\ \A c \in Resubs : resub[c] # None /\ c \notin recorded => loop = "resubscribing"
    /\ \A c, d \in Resubs :
         resub[c] # None /\ c \notin recorded /\ resub[d] # None /\ d \notin recorded => c = d
    /\ \A c \in Resubs : resub[c] = None => settled[c] = None /\ ~ Waiting(c) /\ c \notin recorded

\* Only the current socket is open, and not that while receive() dials.
OneSocket ==
    /\ \A s \in Sockets : rid[s] = "open" => s = cur
    /\ task[Recv].pc \in {"dialing", "delay"} => rid[cur] # "open"

\* The SUBSCRIBE in hand reached the server of its socket; if answered, of this one.
InFlight ==
    call[Mux].req \in Unnoted =>
        /\ call[Mux].st \in {"written", "reading"} =>
             Wanted[call[Mux].req] \subseteq Covered[call[Mux].sock]
        /\ call[Mux].st = "done" /\ IsAnswer(call[Mux].res) =>
             Wanted[call[Mux].req] \subseteq Covered[cur]

Acked ==
    \A c \in Unnoted : settled[c] # None /\ IsAnswer(settled[c]) => Wanted[c] \subseteq Covered[cur]

\* All channels are there; or all but those that the SUBSCRIBE under way brings back.
ChannelsThere ==
    /\ loop \in {"off", "reading", "suspended"} => channels \subseteq Covered[cur]
    /\ loop = "resubscribing" =>
         \E c \in Resubs : /\ resub[c] # None /\ c \notin recorded
                           /\ channels \ resub[c] \subseteq Covered[cur]

RestoreInv ==
    /\ HeadShape /\ IssueShape /\ moved \in BOOLEAN
    /\ ~ moved => OneSocket /\ InFlight /\ Acked /\ ChannelsThere

-----------------------------------------------------------------------------
(* The head of the queue.                                                   *)

\* A call that the executor has begun, or none.
NoAnswerYet(c) == c.st \in {"idle", "writing"} \/ (c.st = "done" /\ ~ IsAnswer(c.res))

LEMMA SendRests ==
    ASSUME NEW f \in Fibers, call \in [Fibers -> Calls], NEW s, NEW r, NEW locks,
           Send(f, s, r, locks)
    PROVE  /\ call'[f].req = r /\ NoAnswerYet(call'[f]) /\ call'[f].st # "idle"
           /\ call'[f].sock = s
  <1>1. \E x \in {"writing", "done"} : \E o :
          /\ call' = [call EXCEPT ![f] = [st |-> x, sock |-> s, req |-> r, res |-> o]]
          /\ x = "done" => o = Fault("TypeError")
    BY DEF Send
  <1>2. ~ IsAnswer(Fault("TypeError"))
    BY DEF IsAnswer, Fault
  <1> QED
    BY <1>1, <1>2 DEF NoAnswerYet

LEMMA EndRests ==
    ASSUME NEW f \in Fibers, call \in [Fibers -> Calls], call' = [call EXCEPT ![f] = NoCall]
    PROVE  call'[f].req = None /\ NoAnswerYet(call'[f])
  BY DEF NoCall, NoAnswerYet

LEMMA NotACommand ==
    None \notin Commands /\ \A r \in Internal : r \notin Commands
  BY Basics, NoneIsNobody DEF Sendable

\* connect() and reconnect() call sendCommand() with commands of their own, and fail with
\* what is no answer.
LEMMA ConnRests ==
    ASSUME NEW f \in Fibers, Shapes, ConnStep(f)
    PROVE  /\ call'[f] = call[f] \/ (NoAnswerYet(call'[f]) /\ call'[f].req \notin Commands)
           /\ task'[f].pc = "failed" => ~ IsAnswer(task'[f].err)
  <1>1. /\ call \in [Fibers -> Calls] /\ task \in [Fibers -> Tasks] /\ task[f] \in Tasks
    BY DEF Shapes
  <1>2. \A e : ~ IsAnswer(Fault(e))
    BY DEF IsAnswer, Fault
  <1>3. ASSUME NEW s, NEW locks, Connected(f, s, locks)
        PROVE  /\ NoAnswerYet(call'[f]) /\ call'[f].req \notin Commands
               /\ task'[f].pc # "failed"
    <2>1. CASE task[f].mode = "reconnect"
      <3>1. task' = [task EXCEPT ![f].pc = "reping"] /\ Send(f, s, "PING", locks)
        BY <1>3, <2>1 DEF Connected
      <3>2. task'[f].pc = "reping"
        BY <1>1, <3>1 DEF Tasks
      <3>3. NoAnswerYet(call'[f]) /\ call'[f].req = "PING"
        BY <1>1, <3>1, SendRests
      <3> QED
        BY <3>2, <3>3, NotACommand, Basics
    <2>2. CASE task[f].mode # "reconnect"
      BY <1>1, <1>3, <2>2, EndRests, NotACommand DEF Connected, Tasks
    <2> QED
      BY <2>1, <2>2
  <1>4. ASSUME NEW o, ~ IsAnswer(o), ConnectCatches(f, o)
        PROVE  /\ NoAnswerYet(call'[f]) /\ call'[f].req \notin Commands
               /\ task'[f].pc = "failed" => ~ IsAnswer(task'[f].err)
    <2>1. NoAnswerYet(call'[f]) /\ call'[f].req \notin Commands
      BY <1>1, <1>4, EndRests, NotACommand DEF ConnectCatches
    <2>2. \/ task' = [task EXCEPT ![f] = [@ EXCEPT !.pc = "failed", !.err = o]]
          \/ task' = [task EXCEPT ![f] = [@ EXCEPT !.pc = "delay"]]
      BY <1>4 DEF ConnectCatches
    <2>3. task'[f].pc = "failed" => task'[f].err = o
      BY <1>1, <2>2 DEF Tasks
    <2> QED
      BY <1>4, <2>1, <2>3
  <1>5. CASE DialOk(f)
    <2>1. CASE Hello = <<>>
      BY <1>3, <1>5, <2>1 DEF DialOk
    <2>2. CASE Hello # <<>>
      <3>1. PICK s : /\ task' = [task EXCEPT ![f].pc = "hello", ![f].step = 1]
                     /\ Send(f, s, Hello[1], wlock)
        BY <1>5, <2>2 DEF DialOk
      <3>2. 1 \in 1 .. Len(Hello)
        BY <2>2, ConnectionAssumption
      <3>3. task'[f].pc = "hello"
        BY <1>1, <3>1 DEF Tasks
      <3> QED
        BY <1>1, <3>1, <3>2, <3>3, SendRests, NotACommand, Basics
    <2> QED
      BY <2>1, <2>2
  <1>6. CASE HelloStep(f)
    <2>1. CASE task[f].step < Len(Hello)
      <3>1. /\ task' = [task EXCEPT ![f].step = @ + 1]
            /\ Send(f, cur, Hello[task[f].step + 1], wlock) /\ task[f].pc = "hello"
        BY <1>6, <2>1 DEF HelloStep
      <3>2. task[f].step + 1 \in 1 .. Len(Hello)
        BY <1>1, <2>1, ConnectionAssumption DEF Tasks
      <3>3. task'[f].pc = "hello"
        BY <1>1, <3>1 DEF Tasks
      <3> QED
        BY <1>1, <3>1, <3>2, <3>3, SendRests, NotACommand, Basics
    <2>2. CASE ~ (task[f].step < Len(Hello))
      BY <1>3, <1>6, <2>2 DEF HelloStep
    <2> QED
      BY <2>1, <2>2
  <1>7. CASE DialFails(f) \/ HelloFails(f)
    BY <1>2, <1>4, <1>7 DEF DialFails, HelloFails
  <1>8. CASE DelayOver(f)
    <2>1. task'[f].pc = "dialing"
      BY <1>1, <1>8 DEF DelayOver, Tasks
    <2> QED
      BY <1>8, <2>1 DEF DelayOver, wireVars
  <1>9. CASE PingOk(f) \/ PingFails(f) \/ RePing(f)
    <2>1. NoAnswerYet(call'[f]) /\ call'[f].req \notin Commands
      BY <1>1, <1>9, EndRests, NotACommand DEF PingOk, PingFails, RePing, EndCall
    <2>2. CASE PingOk(f)
      BY <1>1, <2>1, <2>2 DEF PingOk, Tasks
    <2>3. CASE PingFails(f)
      <3>1. task'[f].pc = "dialing"
        BY <1>1, <2>3 DEF PingFails, StartConnect, NoTask
      <3> QED
        BY <2>1, <3>1
    <2>4. CASE RePing(f)
      BY <1>1, <2>1, <2>4 DEF RePing, Tasks
    <2> QED
      BY <1>9, <2>1, <2>2, <2>3, <2>4
  <1> QED
    BY <1>5, <1>6, <1>7, <1>8, <1>9 DEF ConnStep

LEMMA ReconnectRests ==
    ASSUME NEW f \in Fibers, Shapes, StartReconnect(f)
    PROVE  /\ NoAnswerYet(call'[f]) /\ call'[f].req \notin Commands
           /\ task'[f].pc # "idle" /\ (task'[f].pc = "failed" => ~ IsAnswer(task'[f].err))
           /\ task'[f].pc \notin {"dialing", "delay"}
  <1>1. call \in [Fibers -> Calls] /\ task \in [Fibers -> Tasks]
    BY DEF Shapes
  <1>2. ~ IsAnswer(Fault("ClientIsClosed"))
    BY DEF IsAnswer, Fault
  <1>3. CASE isClosed
    <2>1. /\ task'[f].pc = "failed" /\ task'[f].err = Fault("ClientIsClosed")
          /\ call' = [call EXCEPT ![f] = NoCall]
      BY <1>1, <1>3 DEF StartReconnect, EndCall, NoTask
    <2> QED
      BY <1>1, <1>2, <2>1, EndRests, NotACommand
  <1>4. CASE ~ isClosed
    <2>1. task'[f].pc = "ping" /\ Send(f, cur, "PING", wlock)
      BY <1>1, <1>4 DEF StartReconnect, NoTask
    <2> QED
      BY <1>1, <2>1, SendRests, NotACommand, Basics
  <1> QED
    BY <1>3, <1>4

\* dequeue() begins a call about the head of the queue.
LEMMA DequeueRests ==
    ASSUME Shapes, queue' \in Seq(Commands), Dequeue(queue')
    PROVE  /\ NoAnswerYet(call'[Mux])
           /\ isProcessing' => call'[Mux].req = Head(queue')
           /\ call'[Mux].req \in Commands => isProcessing'
           /\ call'[Mux].st = "writing" => call'[Mux].sock = cur
  <1>1. call \in [Fibers -> Calls] /\ Mux \in Fibers
    BY Basics DEF Shapes
  <1>2. CASE queue' = <<>>
    BY <1>1, <1>2, EndRests, NotACommand DEF Dequeue, EndCall, NoCall
  <1>3. CASE queue' # <<>>
    <2>1. isProcessing' /\ Send(Mux, cur, Head(queue'), wlock)
      BY <1>3 DEF Dequeue
    <2> QED
      BY <1>1, <2>1, SendRests
  <1> QED
    BY <1>2, <1>3

-----------------------------------------------------------------------------
(* What a step must keep.                                                   *)

\* No socket is opened, none becomes unused.
RidsMove ==
    \A s \in Sockets : /\ rid'[s] = "open" => rid[s] = "open"
                       /\ rid'[s] = "unused" => rid[s] = "unused"

\* Nothing that was there gets lost.
NothingLost ==
    /\ RidsMove /\ cur' = cur /\ moved' = moved
    /\ \A s \in Sockets : Covered[s] \subseteq Covered'[s]
    /\ Wanted' = Wanted
    /\ task'[Recv].pc \in {"dialing", "delay"} =>
         task[Recv].pc \in {"dialing", "delay"} \/ rid'[cur] # "open"

LEMMA QuietRids ==
    ASSUME Shapes, UNCHANGED rid \/ CloseSocket(cur)
    PROVE  RidsMove /\ (CloseSocket(cur) => rid'[cur] # "open")
  <1>1. /\ rid \in [Sockets -> {"unused", "open", "eof", "reset", "closed"}]
        /\ cur \in Sockets /\ cur # NoSocket
    BY WireAssumption DEF Shapes, Sockets, NoSocket
  <1>2. CloseSocket(cur) =>
          rid' = IF rid[cur] = "open" THEN [rid EXCEPT ![cur] = "closed"] ELSE rid
    BY <1>1 DEF CloseSocket
  <1> QED
    BY <1>1, <1>2 DEF RidsMove

LEMMA CoveredAt ==
    ASSUME UNCHANGED <<out, subs, runs, resub>>
    PROVE  /\ Wanted' = Wanted
           /\ \A s \in Sockets :
                (rid'[s] = "open" => rid[s] = "open") /\ (link'[s] = "up" => link[s] = "up")
                    => Covered[s] \subseteq Covered'[s]
  <1>1. \A r : Names(r)' = Names(r)
    BY DEF Names
  <1>2. Wanted' = Wanted
    BY <1>1 DEF Wanted
  <1>3. Dropping' = Dropping /\ \A s : Coming(s)' = Coming(s)
    BY <1>1 DEF Dropping, Coming
  <1>4. ASSUME NEW s \in Sockets, rid'[s] = "open" => rid[s] = "open",
               link'[s] = "up" => link[s] = "up"
        PROVE  Covered[s] \subseteq Covered'[s]
    <2>1. /\ Covered[s] = IF rid[s] = "open" /\ link[s] = "up"
                          THEN Channels \cap (subs[s] \cup Coming(s) \cup Dropping) ELSE Channels
          /\ Covered'[s] = IF rid'[s] = "open" /\ link'[s] = "up"
                           THEN Channels \cap (subs'[s] \cup Coming(s)' \cup Dropping')
                           ELSE Channels
      BY DEF Covered
    <2> QED
      BY <1>3, <1>4, <2>1
  <1> QED
    BY <1>2, <1>4

LEMMA CoveredStays ==
    ASSUME RidsMove, UNCHANGED <<out, subs, runs, resub>>,
           \A s \in Sockets : link'[s] = "up" => link[s] = "up"
    PROVE  (\A s \in Sockets : Covered[s] \subseteq Covered'[s]) /\ Wanted' = Wanted
  BY CoveredAt DEF RidsMove

LEMMA HeadStays ==
    ASSUME CallShapes, HeadShape, call'[Mux] = call[Mux], task'[Mux] = task[Mux],
           \A s \in Sockets : rid'[s] = "unused" => rid[s] = "unused",
           UNCHANGED <<isProcessing, queue>>,
           settled' \in [Commands -> Outcomes(Requests) \cup {None}]
    PROVE  HeadShape'
  <1>1. call[Mux].st \in {"writing", "written", "reading"} => call[Mux].sock \in Sockets
    BY Basics DEF CallShapes, CallShape
  <1> QED
    BY <1>1 DEF HeadShape

LEMMA IssueStays ==
    ASSUME IssueShape, UNCHANGED <<loop, resub, recorded>>,
           \A c \in Resubs : ~ Waiting(c) => settled'[c] = settled[c] /\ ~ Waiting(c)'
    PROVE  IssueShape'
  BY DEF IssueShape

LEMMA ChannelsStay ==
    ASSUME Shapes, ChannelsThere, NothingLost, UNCHANGED <<loop, channels, resub, recorded>>
    PROVE  ChannelsThere'
  BY DEF Shapes, ChannelsThere, NothingLost

LEMMA UnnotedStay ==
    ASSUME UNCHANGED <<resub, recorded>>
    PROVE  Unnoted' = Unnoted
  BY DEF Unnoted

LEMMA AckedStays ==
    ASSUME Shapes, Acked, NothingLost, Unnoted' \subseteq Unnoted,
           \A c \in Unnoted' : \/ settled'[c] = settled[c] \/ ~ IsAnswer(settled'[c])
                               \/ Wanted[c] \subseteq Covered[cur]
    PROVE  Acked'
  <1>1. cur \in Sockets
    BY DEF Shapes
  <1> QED
    BY <1>1 DEF Acked, NothingLost

LEMMA InFlightStays ==
    ASSUME Shapes, CallShapes, InFlight, NothingLost, Unnoted' \subseteq Unnoted,
           call'[Mux] = call[Mux] \/ NoAnswerYet(call'[Mux])
    PROVE  InFlight'
  <1>1. /\ cur \in Sockets
        /\ call[Mux].st \in {"written", "reading"} => call[Mux].sock \in Sockets
    BY Basics DEF Shapes, CallShapes, CallShape
  <1>2. CASE call'[Mux] = call[Mux]
    BY <1>1, <1>2 DEF InFlight, NothingLost
  <1>3. CASE NoAnswerYet(call'[Mux])
    BY <1>3 DEF InFlight, NoAnswerYet
  <1> QED
    BY <1>2, <1>3

LEMMA OneSocketStays ==
    ASSUME Shapes, OneSocket, NothingLost
    PROVE  OneSocket'
  BY DEF Shapes, OneSocket, NothingLost, RidsMove

\* A step that leaves the subscription alone.
LEMMA QuietRestores ==
    ASSUME SubInv, RestoreInv, HeadShape', NothingLost,
           UNCHANGED <<loop, channels, recorded, resub, settled, queue>>,
           call'[Mux] = call[Mux] \/ NoAnswerYet(call'[Mux])
    PROVE  RestoreInv'
  <1>1. Shapes /\ CallShapes /\ moved' = moved /\ Unnoted' = Unnoted
    BY UnnotedStay DEF SubInv, NothingLost
  <1>2. IssueShape'
    BY IssueStays DEF RestoreInv, Waiting
  <1>3. ~ moved => OneSocket' /\ InFlight' /\ Acked' /\ ChannelsThere'
    BY <1>1, OneSocketStays, InFlightStays, AckedStays, ChannelsStay DEF RestoreInv
  <1> QED
    BY <1>1, <1>2, <1>3 DEF RestoreInv

-----------------------------------------------------------------------------
(* The steps of a call, of connect() and of reconnect().                    *)

LEMMA CallKeepsReq ==
    ASSUME NEW f \in Fibers, call \in [Fibers -> Calls], CallStep(f)
    PROVE  call'[f].req = call[f].req /\ UNCHANGED <<link, runs>>
  <1>1. \/ \E x \in {"written", "reading"} : call' = [call EXCEPT ![f].st = x]
        \/ \E o : call' = [call EXCEPT ![f] = Done(f, o)]
    BY DEF CallStep, WriteOk, WriteFails, StartRead, ReadReply, ReadFails, FinishRead
  <1>2. call[f] \in Calls
    OBVIOUS
  <1>3. call'[f].req = call[f].req
    BY <1>1, <1>2 DEF Done, Calls
  <1> QED
    BY <1>3 DEF CallStep, WriteOk, WriteFails, StartRead, ReadReply, ReadFails, FinishRead

\* What is written on a link that is up is on its way.
LEMMA WriteCovers ==
    ASSUME Shapes, CallShapes, NEW f \in Fibers, WriteOk(f), UNCHANGED <<subs, resub>>,
           NEW t, t = call[f].sock, NEW r, r = call[f].req
    PROVE  /\ \A s \in Sockets : Covered[s] \subseteq Covered'[s]
           /\ Wanted' = Wanted /\ t \in Sockets /\ Names(r) \subseteq Covered'[t]
  <1>1. /\ t \in Sockets /\ r \in Requests /\ UNCHANGED <<rid, link, runs>>
        /\ out \in [Sockets -> Seq(Requests)]
        /\ out' = IF link[t] = "up" THEN [out EXCEPT ![t] = Append(@, r)] ELSE out
    BY Basics DEF Shapes, CallShapes, CallShape, WriteOk
  <1>2. \A q : Names(q)' = Names(q)
    BY DEF Names
  <1>3. Wanted' = Wanted
    BY <1>2 DEF Wanted
  <1>4. Dropping' = Dropping
    BY <1>1, <1>2 DEF Dropping
  <1>5. Names(r) \subseteq Channels
    BY NamesType
  <1>6. \A s \in Sockets : Coming(s) \subseteq Coming(s)'
    <2>1. ASSUME NEW s \in Sockets, NEW i \in DOMAIN out[s]
          PROVE  i \in DOMAIN out'[s] /\ out'[s][i] = out[s][i]
      <3>1. out[s] \in Seq(Requests)
        BY <1>1
      <3>2. out'[s] = out[s] \/ out'[s] = Append(out[s], r)
        BY <1>1
      <3> QED
        BY <1>1, <3>1, <3>2
    <2> QED
      BY <1>2, <2>1 DEF Coming
  <1>7. link[t] = "up" => Names(r) \subseteq Coming(t)'
    <2>1. SUFFICES ASSUME link[t] = "up"
                   PROVE  \E i \in DOMAIN out'[t] : out'[t][i] = r
      BY <1>2 DEF Coming
    <2>2. out[t] \in Seq(Requests) /\ out'[t] = Append(out[t], r)
      BY <1>1, <2>1
    <2>3. Len(out[t]) + 1 \in DOMAIN out'[t] /\ out'[t][Len(out[t]) + 1] = r
      BY <1>1, <2>2
    <2> QED
      BY <2>3
  <1>8. \A s \in Sockets : Covered[s] \subseteq Covered'[s]
    <2>1. ASSUME NEW s \in Sockets
          PROVE  Covered[s] \subseteq Covered'[s]
      <3>1. Covered[s] = IF rid[s] = "open" /\ link[s] = "up"
                         THEN Channels \cap (subs[s] \cup Coming(s) \cup Dropping) ELSE Channels
        BY DEF Covered
      <3>2. Covered'[s] = IF rid[s] = "open" /\ link[s] = "up"
                          THEN Channels \cap (subs[s] \cup Coming(s)' \cup Dropping) ELSE Channels
        BY <1>1, <1>4 DEF Covered
      <3> QED
        BY <1>6, <3>1, <3>2
    <2> QED
      BY <2>1
  <1>9. Names(r) \subseteq Covered'[t]
    <2>1. Covered'[t] = IF rid[t] = "open" /\ link[t] = "up"
                        THEN Channels \cap (subs[t] \cup Coming(t)' \cup Dropping) ELSE Channels
      BY <1>1, <1>4 DEF Covered
    <2> QED
      BY <1>5, <1>7, <2>1
  <1> QED
    BY <1>1, <1>3, <1>8, <1>9

LEMMA CallLosesNothing ==
    ASSUME SubInv, NEW f \in {Mux, Recv}, CallStep(f), UNCHANGED <<connVars, muxVars, subVars>>
    PROVE  CallMoves(f) /\ NothingLost
  <1>1. Shapes /\ CallShapes /\ f \in Fibers /\ call \in [Fibers -> Calls]
    BY Basics DEF SubInv, Shapes
  <1>2. CallMoves(f) /\ WireMoves
    BY <1>1, WriteOkMoves, WriteFailsMoves, StartReadMoves, ReadReplyMoves, ReadFailsMoves
    DEF CallStep
  <1>3. RidsMove
    BY <1>2 DEF WireMoves, RidsMove
  <1>4. UNCHANGED <<link, runs, subs, resub, cur, moved, task>>
    BY <1>1, CallKeepsReq DEF subVars, connVars
  <1>5. CASE WriteOk(f)
    BY <1>1, <1>2, <1>3, <1>4, <1>5, WriteCovers DEF NothingLost
  <1>6. CASE ~ WriteOk(f)
    <2>1. out' = out
      BY <1>1, <1>6, WriteFailsMoves, StartReadMoves, ReadReplyMoves, ReadFailsMoves DEF CallStep
    <2> QED
      BY <1>2, <1>3, <1>4, <2>1, CoveredStays DEF NothingLost
  <1> QED
    BY <1>5, <1>6

LEMMA RecvCallRestores ==
    ASSUME SubInv, RestoreInv, CallStep(Recv), UNCHANGED <<connVars, muxVars, subVars>>
    PROVE  RestoreInv'
  <1>1. CallMoves(Recv) /\ NothingLost
    BY CallLosesNothing
  <1>2. /\ UNCHANGED <<loop, channels, recorded, resub, settled, queue, isProcessing, task>>
        /\ call'[Mux] = call[Mux]
    BY <1>1, Basics DEF CallMoves, SameCalls, connVars, muxVars, subVars
  <1>3. HeadShape'
    BY <1>1, <1>2, HeadStays DEF NothingLost, RidsMove, RestoreInv, HeadShape, SubInv
  <1> QED
    BY <1>1, <1>2, <1>3, QuietRestores

\* Only what was read from an open socket is an answer.
LEMMA AnswerFromOpen ==
    ASSUME SubInv, NEW f \in {Mux, Recv}, CallStep(f)
    PROVE  /\ call'[f].st = "written" => WriteOk(f)
           /\ call'[f].st = "reading" => call[f].st = "written"
           /\ call'[f].st = "done" /\ IsAnswer(call'[f].res) =>
                call[f].st = "reading" /\ rid[call[f].sock] = "open"
  <1>1. Shapes /\ CallShapes /\ f \in Fibers /\ call \in [Fibers -> Calls]
    BY Basics DEF SubInv, Shapes
  <1>2. CASE WriteOk(f)
    <2>1. call'[f].st = "written"
      BY <1>1, <1>2 DEF WriteOk, Calls
    <2> QED
      BY <1>2, <2>1
  <1>3. CASE WriteFails(f) \/ StartRead(f)
    <2>1. call'[f].st = "done" => call'[f].res.kind = "fault"
      BY <1>1, <1>3, WriteFailsMoves, StartReadMoves
    <2>2. CallMoves(f) /\ call[f].st \in {"writing", "written"}
      BY <1>1, <1>3, WriteFailsMoves, StartReadMoves DEF WriteFails, StartRead
    <2>3. WriteFails(f) => call'[f].st = "done"
      BY <1>1, WriteFailsMoves
    <2>4. StartRead(f) => call[f].st = "written"
      BY DEF StartRead
    <2> QED
      BY <1>3, <2>1, <2>2, <2>3, <2>4 DEF IsAnswer, CallMoves
  <1>4. CASE ReadReply(f)
    BY <1>1, <1>4, ReadReplyMoves DEF ReadReply
  <1>5. CASE ReadFails(f)
    <2>1. call'[f].st = "done" /\ call[f].st = "reading"
      BY <1>1, <1>5, ReadFailsMoves DEF ReadFails
    <2>2. ASSUME rid[call[f].sock] # "open"
          PROVE  ~ IsAnswer(call'[f].res)
      <3>1. PICK e : FinishRead(f, Fault(e))
        BY <1>5, <2>2 DEF ReadFails
      <3>2. call'[f].res = Fault(e)
        <4>1. call[f] \in Calls /\ call' = [call EXCEPT ![f] = Done(f, Fault(e))]
          BY <1>1, <3>1 DEF FinishRead
        <4> QED
          BY <1>1, <4>1 DEF Done, Calls
      <3> QED
        BY <3>2 DEF IsAnswer, Fault
    <2> QED
      BY <2>1, <2>2
  <1> QED
    BY <1>2, <1>3, <1>4, <1>5 DEF CallStep

LEMMA MuxCallRestores ==
    ASSUME SubInv, RestoreInv, CallStep(Mux), UNCHANGED <<connVars, muxVars, subVars>>
    PROVE  RestoreInv'
  <1>1. CallMoves(Mux) /\ NothingLost /\ Mux \in Fibers /\ Mux \in {Mux, Recv}
    BY CallLosesNothing, Basics
  <1>2. /\ Shapes /\ CallShapes /\ call \in [Fibers -> Calls] /\ cur \in Sockets
        /\ call[Mux].sock \in Sockets
    BY <1>1 DEF SubInv, Shapes, CallMoves
  <1>3. /\ UNCHANGED <<loop, channels, recorded, resub, settled, queue, isProcessing, task>>
        /\ call'[Mux].req = call[Mux].req /\ Unnoted' = Unnoted
    BY <1>1, <1>2, CallKeepsReq, UnnotedStay DEF connVars, muxVars, subVars
  <1>4. HeadShape'
    <2>1. call'[Mux].st \in {"writing", "written", "reading"} => rid'[call'[Mux].sock] # "unused"
      BY <1>1, <1>2 DEF CallMoves, NothingLost, RidsMove, RestoreInv, HeadShape
    <2> QED
      BY <1>3, <2>1 DEF RestoreInv, HeadShape
  <1>5. IssueShape'
    BY <1>3, IssueStays DEF RestoreInv, Waiting
  <1>6. ASSUME ~ moved, call[Mux].req \in Unnoted
        PROVE  /\ call'[Mux].st \in {"written", "reading"} =>
                    Wanted[call[Mux].req] \subseteq Covered'[call[Mux].sock]
               /\ call'[Mux].st = "done" /\ IsAnswer(call'[Mux].res) =>
                    Wanted[call[Mux].req] \subseteq Covered'[cur]
    <2>1. /\ InFlight /\ OneSocket
          /\ \A s \in Sockets : Covered[s] \subseteq Covered'[s]
      BY <1>1, <1>6 DEF RestoreInv, NothingLost
    <2>2. call'[Mux].st = "written" => Wanted[call[Mux].req] \subseteq Covered'[call[Mux].sock]
      <3>1. call[Mux].req \in Commands
        BY <1>6, PubSubAssumption DEF Unnoted
      <3>2. Wanted[call[Mux].req] = Names(call[Mux].req)
        BY <3>1 DEF Wanted
      <3>3. UNCHANGED <<subs, resub>>
        BY DEF subVars
      <3> QED
        BY <1>1, <1>2, <3>2, <3>3, AnswerFromOpen, WriteCovers
    <2>3. call'[Mux].st = "reading" => Wanted[call[Mux].req] \subseteq Covered'[call[Mux].sock]
      BY <1>1, <1>2, <1>6, <2>1, AnswerFromOpen DEF InFlight
    <2>4. call'[Mux].st = "done" /\ IsAnswer(call'[Mux].res) =>
            Wanted[call[Mux].req] \subseteq Covered'[cur]
      BY <1>1, <1>2, <1>6, <2>1, AnswerFromOpen DEF InFlight, OneSocket
    <2> QED
      BY <2>2, <2>3, <2>4
  <1>7. ~ moved => InFlight'
    <2>1. Wanted' = Wanted /\ cur' = cur /\ call'[Mux].sock = call[Mux].sock
      BY <1>1 DEF NothingLost, CallMoves
    <2> QED
      BY <1>3, <1>6, <2>1 DEF InFlight
  <1>8. ~ moved => OneSocket' /\ Acked' /\ ChannelsThere'
    BY <1>1, <1>2, <1>3, OneSocketStays, AckedStays, ChannelsStay DEF RestoreInv
  <1> QED
    BY <1>1, <1>4, <1>5, <1>7, <1>8 DEF RestoreInv, NothingLost

\* connect() and reconnect() but for a dial: the socket stays, or is closed.
LEMMA ConnRestores ==
    ASSUME SubInv, LockInv, RestoreInv, NEW f \in {Mux, Recv}, ConnStep(f), ~ DialOk(f),
           moved' = moved \/ (f = Mux /\ moved' = (moved \/ cur' # cur)),
           UNCHANGED <<muxVars, channels, recorded, loop, resub, subs>>
    PROVE  RestoreInv'
  <1>1. /\ Shapes /\ CallShapes /\ f \in Fibers /\ cur \in Sockets /\ task[f].pc # "idle"
    BY Basics
    DEF SubInv, Shapes, ConnStep, DialOk, DialFails, HelloStep, HelloFails, DelayOver, PingOk,
        PingFails, RePing
  <1>2. /\ UNCHANGED rid \/ CloseSocket(cur)
        /\ UNCHANGED <<cur, link, out, runs>>
        /\ HelloFails(f) \/ PingFails(f) => CloseSocket(cur)
    BY DEF ConnStep, DialFails, HelloStep, HelloFails, DelayOver, PingOk, PingFails, RePing,
           wireVars, CloseNow
  <1>3. /\ ConnMoves(f)
        /\ task'[f].pc \in {"dialing", "delay"} =>
             task[f].pc \in {"dialing", "delay"} \/ CloseSocket(cur)
    <2>1. CASE HelloStep(f)
      BY <1>1, <2>1, HelloStepMoves
    <2>2. CASE PingOk(f) \/ RePing(f)
      BY <1>1, <2>2, PingMoves
    <2>3. CASE DialFails(f) \/ DelayOver(f)
      BY <1>1, <2>3, FailsMoves, DelayOverMoves DEF DialFails, DelayOver
    <2>4. CASE HelloFails(f) \/ PingFails(f)
      BY <1>1, <1>2, <2>4, FailsMoves, PingMoves
    <2> QED
      BY <2>1, <2>2, <2>3, <2>4 DEF ConnStep
  <1>4. RidsMove /\ (CloseSocket(cur) => rid'[cur] # "open")
    BY <1>1, <1>2, QuietRids
  <1>5. NothingLost
    <2>1. (\A s \in Sockets : Covered[s] \subseteq Covered'[s]) /\ Wanted' = Wanted
      BY <1>2, <1>4, CoveredStays
    <2>2. f # Recv => task'[Recv] = task[Recv]
      BY <1>3, Basics DEF ConnMoves, SameTasks
    <2> QED
      BY <1>2, <1>3, <1>4, <2>1, <2>2 DEF NothingLost, RestoreInv
  <1>6. UNCHANGED <<queue, isProcessing, settled>>
    BY DEF muxVars
  <1>7. CASE f = Recv
    <2>1. call'[Mux] = call[Mux] /\ task'[Mux] = task[Mux]
      BY <1>3, <1>7, Basics DEF ConnMoves, Ends, Begins, SameCalls, SameTasks
    <2>2. HeadShape'
      BY <1>1, <1>4, <1>6, <2>1, HeadStays DEF RidsMove, RestoreInv, HeadShape
    <2> QED
      BY <1>5, <1>6, <2>1, <2>2, QuietRestores
  <1>8. CASE f = Mux
    <2>1. /\ call'[Mux] = call[Mux] \/ (NoAnswerYet(call'[Mux]) /\ call'[Mux].req \notin Commands)
          /\ task'[Mux].pc = "failed" => ~ IsAnswer(task'[Mux].err)
      BY <1>1, <1>8, ConnRests
    <2>2. call'[Mux].req \notin Commands
      BY <1>1, <1>8, <2>1 DEF RestoreInv, HeadShape
    <2>3. task'[Mux].pc # "idle" /\ (call'[Mux].st \in {"writing", "written", "reading"} =>
                                       call'[Mux].sock = cur)
      BY <1>2, <1>3, <1>8 DEF ConnMoves, Ends, Begins
    <2>4. rid'[cur] # "unused"
      BY <1>1, <1>4 DEF RidsMove, LockInv, UsedShape
    <2>5. HeadShape'
      BY <1>6, <2>1, <2>2, <2>3, <2>4 DEF RestoreInv, HeadShape
    <2> QED
      BY <1>5, <1>6, <2>1, <2>5, QuietRestores
  <1> QED
    BY <1>7, <1>8

\* receive() dials: the socket before was closed, and what was answered on it is noted.
LEMMA DialHead ==
    ASSUME SubInv, LockInv, RestoreInv, NEW f \in {Mux, Recv}, DialOk(f),
           UNCHANGED <<muxVars, recorded, loop, resub>>
    PROVE  /\ HeadShape' /\ IssueShape' /\ ConnMoves(f) /\ Unnoted' = Unnoted
           /\ cur \in Sockets /\ cur' \in Sockets /\ cur' # cur
           /\ rid[cur'] = "unused" /\ rid' = [rid EXCEPT ![cur'] = "open"]
           /\ rid \in [Sockets -> {"unused", "open", "eof", "reset", "closed"}]
  <1>1. /\ Shapes /\ CallShapes /\ f \in Fibers /\ cur \in Sockets /\ task[f].pc = "dialing"
        /\ rid \in [Sockets -> {"unused", "open", "eof", "reset", "closed"}]
    BY Basics DEF SubInv, Shapes, DialOk
  <1>2. rid[cur'] = "unused" /\ rid' = [rid EXCEPT ![cur'] = "open"] /\ cur' \in Sockets
    BY DEF DialOk, IsFresh
  <1>3. ConnMoves(f) /\ cur' # cur
    BY <1>1, <1>2, DialOkMoves DEF LockInv, UsedShape
  <1>4. UNCHANGED <<queue, isProcessing, settled>>
    BY DEF muxVars
  <1>5. \A s \in Sockets : rid'[s] = "unused" => rid[s] = "unused"
    BY <1>1, <1>2
  <1>6. HeadShape'
    <2>1. CASE f = Recv
      <3>1. call'[Mux] = call[Mux] /\ task'[Mux] = task[Mux]
        BY <1>3, <2>1, Basics DEF ConnMoves, Ends, Begins, SameCalls, SameTasks
      <3> QED
        BY <1>1, <1>4, <1>5, <3>1, HeadStays DEF RestoreInv, HeadShape
    <2>2. CASE f = Mux
      <3>1. /\ call'[Mux] = call[Mux] \/ (NoAnswerYet(call'[Mux]) /\ call'[Mux].req \notin Commands)
            /\ task'[Mux].pc = "failed" => ~ IsAnswer(task'[Mux].err)
        BY <1>1, <2>2, ConnRests DEF ConnStep
      <3>2. call'[Mux].req \notin Commands
        BY <1>1, <2>2, <3>1 DEF RestoreInv, HeadShape
      <3>3. task'[Mux].pc # "idle" /\ (call'[Mux].st \in {"writing", "written", "reading"} =>
                                         call'[Mux].sock = cur')
        BY <1>3, <2>2 DEF ConnMoves, Ends, Begins
      <3>4. rid'[cur'] # "unused"
        BY <1>1, <1>2
      <3> QED
        BY <1>4, <3>1, <3>2, <3>3, <3>4 DEF RestoreInv, HeadShape
    <2> QED
      BY <2>1, <2>2
  <1>7. IssueShape'
    BY <1>4, IssueStays DEF RestoreInv, Waiting
  <1> QED
    BY <1>1, <1>2, <1>3, <1>6, <1>7, UnnotedStay

LEMMA MuxDialRestores ==
    ASSUME SubInv, LockInv, RestoreInv, DialOk(Mux), moved' = (moved \/ cur' # cur),
           UNCHANGED <<muxVars, recorded, loop, resub>>
    PROVE  RestoreInv'
  BY DialHead DEF RestoreInv

LEMMA RecvDialRestores ==
    ASSUME SubInv, LockInv, RestoreInv, DialOk(Recv), Prompt, UNCHANGED <<muxVars, subVars>>
    PROVE  RestoreInv'
  <1>1. UNCHANGED <<settled, recorded, loop, resub, subs, moved, channels>>
    BY DEF muxVars, subVars
  <1>2. /\ HeadShape' /\ IssueShape' /\ ConnMoves(Recv) /\ Unnoted' = Unnoted
        /\ cur \in Sockets /\ cur' \in Sockets /\ cur' # cur
        /\ rid[cur'] = "unused" /\ rid' = [rid EXCEPT ![cur'] = "open"]
        /\ rid \in [Sockets -> {"unused", "open", "eof", "reset", "closed"}]
    BY <1>1, DialHead
  <1>3. /\ Shapes /\ CallShapes /\ task[Recv].pc = "dialing" /\ loop = "reconnecting"
        /\ UNCHANGED <<out, link, runs>>
    BY DEF SubInv, FibreShape, DialOk
  <1>4. call'[Mux] = call[Mux]
    BY <1>2, Basics DEF ConnMoves, Ends, Begins, SameCalls
  <1>5. /\ \A s \in Sockets : s # cur' => rid'[s] = rid[s]
        /\ \A s \in Sockets : s # cur' => Covered[s] \subseteq Covered'[s]
        /\ Wanted' = Wanted
    BY <1>1, <1>2, <1>3, CoveredAt
  <1>6. ASSUME ~ moved
        PROVE  OneSocket' /\ InFlight' /\ Acked' /\ ChannelsThere'
    <2>1. OneSocket'
      <3>1. rid[cur] # "open" /\ \A s \in Sockets : rid[s] = "open" => s = cur
        BY <1>3, <1>6 DEF RestoreInv, OneSocket
      <3>2. task'[Recv].pc \notin {"dialing", "delay"}
        BY <1>3, Basics, DialOkMoves
      <3> QED
        BY <1>5, <3>1, <3>2 DEF OneSocket
    <2>2. Unnoted \subseteq Subscribes \ recorded
      BY <1>3 DEF RestoreInv, IssueShape, Unnoted
    <2>3. \A c \in Unnoted : /\ ~ (settled[c] # None /\ IsAnswer(settled[c]))
                             /\ ~ (/\ call[Mux].st = "done" /\ call[Mux].req = c
                                   /\ IsAnswer(call[Mux].res))
      BY <1>1, <1>2, <1>6, <2>2 DEF Prompt, CallDone
    <2>4. Acked'
      BY <1>1, <1>2, <2>3 DEF Acked
    <2>5. InFlight'
      <3>1. call[Mux].st \in {"written", "reading"} =>
              call[Mux].sock \in Sockets /\ call[Mux].sock # cur'
        BY <1>2, <1>3, Basics DEF CallShapes, CallShape, RestoreInv, HeadShape
      <3> QED
        BY <1>2, <1>4, <1>5, <1>6, <2>3, <3>1 DEF RestoreInv, InFlight
    <2>6. ChannelsThere'
      BY <1>1, <1>3 DEF ChannelsThere
    <2> QED
      BY <2>1, <2>4, <2>5, <2>6
  <1> QED
    BY <1>1, <1>2, <1>6 DEF RestoreInv

-----------------------------------------------------------------------------
(* The steps of the executor.                                               *)

LEMMA StillCovered ==
    ASSUME UNCHANGED <<rid, link, out, subs, runs, resub, cur, moved>>, task'[Recv] = task[Recv]
    PROVE  NothingLost
  <1>1. RidsMove
    BY DEF RidsMove
  <1> QED
    BY <1>1, CoveredStays DEF NothingLost

\* dequeue() about the first command of the queue as it is now.
LEMMA DequeueHead ==
    ASSUME SubInv, LockInv, queue' \in Seq(Commands), Dequeue(queue'), UNCHANGED <<rid, cur>>,
           task'[Mux].pc = "idle",
           settled' \in [Commands -> Outcomes(Requests) \cup {None}]
    PROVE  HeadShape' /\ NoAnswerYet(call'[Mux])
  <1>1. Shapes
    BY DEF SubInv
  <1>2. /\ NoAnswerYet(call'[Mux])
        /\ isProcessing' => call'[Mux].req = Head(queue')
        /\ call'[Mux].req \in Commands => isProcessing'
        /\ call'[Mux].st = "writing" => call'[Mux].sock = cur
    BY <1>1, DequeueRests
  <1>3. call'[Mux].st \in {"writing", "written", "reading"} => rid'[call'[Mux].sock] # "unused"
    BY <1>2 DEF NoAnswerYet, LockInv, UsedShape
  <1> QED
    BY <1>2, <1>3 DEF HeadShape

LEMMA MuxStepRestores ==
    ASSUME SubInv, LockInv, RestoreInv, MuxStep, UNCHANGED subVars
    PROVE  RestoreInv'
  <1>1. /\ Shapes /\ CallShapes /\ FibreShape /\ Mux \in Fibers /\ Recv \in Fibers /\ Mux # Recv
        /\ queue \in Seq(Commands) /\ task \in [Fibers -> Tasks] /\ HeadShape
        /\ settled \in [Commands -> Outcomes(Requests) \cup {None}]
    BY Basics DEF SubInv, Shapes, RestoreInv, HeadShape
  <1>2. /\ UNCHANGED <<rid, link, out, runs, cur>>
        /\ UNCHANGED <<channels, recorded, loop, resub, subs, moved>>
        /\ isProcessing
    BY DEF MuxStep, Resolve, Reject, Retry, Resume, GiveUp, HeadIsBack, connVars, subVars,
           SettleHead, Dequeue, EndCall, Send, StartReconnect
  <1>3. /\ queue # <<>> /\ Tail(queue) \in Seq(Commands) /\ Head(queue) \in Commands
        /\ Head(queue) = queue[1] /\ 1 \in DOMAIN queue
        /\ \A i \in DOMAIN Tail(queue) : i + 1 \in DOMAIN queue /\ Tail(queue)[i] = queue[i + 1]
    BY <1>1, <1>2 DEF FibreShape
  \* What settles, and with what.
  <1>4. /\ queue' \in {queue, Tail(queue)}
        /\ \/ settled' = settled
           \/ \E o \in Outcomes(Requests) \cup {None} :
                /\ settled' = [settled EXCEPT ![Head(queue)] = o]
                /\ IsAnswer(o) => call[Mux].st = "done" /\ call[Mux].res = o
                                  /\ call[Mux].req = Head(queue)
    <2>1. CASE Resolve \/ Reject
      <3>1. /\ call[Mux].st = "done" /\ task[Mux].pc = "idle" /\ SettleHead(call[Mux].res)
        BY <2>1 DEF Resolve, Reject, HeadIsBack, CallDone
      <3>2. call[Mux].res \in Outcomes(Requests) /\ call[Mux].req = Head(queue)
        BY <1>1, <1>2, <3>1 DEF CallShapes, CallShape, HeadShape
      <3> QED
        BY <3>1, <3>2 DEF SettleHead
    <2>2. CASE GiveUp
      <3>1. task[Mux].err \in Outcomes(Requests) \cup {None} /\ ~ IsAnswer(task[Mux].err)
        BY <1>1, <2>2 DEF GiveUp, HeadShape, Tasks
      <3> QED
        BY <2>2, <3>1 DEF GiveUp, SettleHead
    <2>3. CASE Retry \/ Resume
      BY <2>3 DEF Retry, Resume
    <2> QED
      BY <2>1, <2>2, <2>3 DEF MuxStep
  <1>5. settled' \in [Commands -> Outcomes(Requests) \cup {None}]
    BY <1>1, <1>3, <1>4
  <1>6. HeadShape' /\ NoAnswerYet(call'[Mux]) /\ task'[Recv] = task[Recv]
    <2>1. CASE Retry
      <3>1. StartReconnect(Mux) /\ UNCHANGED <<queue, isProcessing>>
        BY <2>1 DEF Retry
      <3>2. /\ NoAnswerYet(call'[Mux]) /\ call'[Mux].req \notin Commands
            /\ task'[Mux].pc # "idle" /\ (task'[Mux].pc = "failed" => ~ IsAnswer(task'[Mux].err))
        BY <1>1, <3>1, ReconnectRests
      <3>3. ConnMoves(Mux)
        BY <1>1, <1>2, <3>1, ReconnectMoves
      <3>4. call'[Mux].st = "writing" => call'[Mux].sock = cur
        BY <1>2, <3>3 DEF ConnMoves, Ends, Begins
      <3>5. call'[Mux].st \in {"writing", "written", "reading"} => rid'[call'[Mux].sock] # "unused"
        BY <1>2, <3>2, <3>4 DEF NoAnswerYet, LockInv, UsedShape
      <3>6. task'[Recv] = task[Recv]
        BY <1>1, <3>3 DEF ConnMoves, SameTasks
      <3> QED
        BY <1>5, <3>2, <3>5, <3>6 DEF HeadShape
    <2>2. CASE ~ Retry
      <3>1. Dequeue(queue')
        BY <2>2 DEF MuxStep, Resolve, Reject, Resume, GiveUp, SettleHead
      <3>2. task'[Mux].pc = "idle" /\ task'[Recv] = task[Recv]
        BY <1>1, <2>2 DEF MuxStep, Resolve, Reject, Resume, GiveUp, HeadIsBack, connVars, NoTask
      <3>3. queue' \in Seq(Commands)
        BY <1>1, <1>3, <1>4
      <3> QED
        BY <1>2, <1>5, <3>1, <3>2, <3>3, DequeueHead
    <2> QED
      BY <2>1, <2>2
  <1>7. NothingLost
    BY <1>2, <1>6, StillCovered
  <1>8. IssueShape'
    <2>1. ASSUME NEW c \in Resubs, ~ Waiting(c)
          PROVE  settled'[c] = settled[c] /\ ~ Waiting(c)'
      <3>1. c # Head(queue)
        BY <1>3, <2>1 DEF Waiting
      <3>2. c \in Commands
        BY PubSubAssumption
      <3>3. settled'[c] = settled[c]
        BY <1>1, <1>4, <3>1, <3>2
      <3>4. ~ Waiting(c)'
        BY <1>3, <1>4, <2>1 DEF Waiting
      <3> QED
        BY <3>3, <3>4
    <2> QED
      BY <1>2, <2>1, IssueStays DEF RestoreInv
  <1>9. ASSUME ~ moved
        PROVE  OneSocket' /\ InFlight' /\ Acked' /\ ChannelsThere'
    <2>1. Unnoted' = Unnoted /\ Unnoted \subseteq Commands
      BY <1>2, UnnotedStay, PubSubAssumption DEF Unnoted
    <2>2. OneSocket /\ InFlight /\ Acked /\ ChannelsThere
      BY <1>9 DEF RestoreInv
    <2>3. \A c \in Unnoted : \/ settled'[c] = settled[c] \/ ~ IsAnswer(settled'[c])
                             \/ Wanted[c] \subseteq Covered[cur]
      <3>1. ASSUME NEW c \in Unnoted, settled'[c] # settled[c], IsAnswer(settled'[c])
            PROVE  Wanted[c] \subseteq Covered[cur]
        <4>1. c \in Commands
          BY <2>1
        <4>2. c = Head(queue) /\ call[Mux].st = "done" /\ call[Mux].res = settled'[c]
              /\ call[Mux].req = c
          BY <1>1, <1>3, <1>4, <3>1, <4>1
        <4> QED
          BY <2>2, <3>1, <4>2 DEF InFlight
      <3> QED
        BY <3>1
    <2>4. Acked'
      BY <1>1, <1>7, <2>1, <2>2, <2>3, AckedStays
    <2>5. InFlight'
      BY <1>1, <1>6, <1>7, <2>1, <2>2, InFlightStays
    <2>6. ChannelsThere'
      BY <1>1, <1>2, <1>7, <2>2, ChannelsStay
    <2>7. OneSocket'
      BY <1>1, <1>7, <2>2, OneSocketStays
    <2> QED
      BY <2>4, <2>5, <2>6, <2>7
  <1> QED
    BY <1>2, <1>6, <1>8, <1>9 DEF RestoreInv

\* Queue a command and start dequeue() unless it runs.
LEMMA EnqueueHead ==
    ASSUME SubInv, LockInv, RestoreInv, NEW c \in Commands, queue' = Append(queue, c),
           IF isProcessing THEN UNCHANGED <<isProcessing, call, wlock>> ELSE Dequeue(queue'),
           UNCHANGED <<rid, cur>>, task'[Mux] = task[Mux],
           settled' \in [Commands -> Outcomes(Requests) \cup {None}]
    PROVE  /\ HeadShape'
           /\ (isProcessing /\ call'[Mux] = call[Mux]) \/ NoAnswerYet(call'[Mux])
           /\ \A d : ~ Waiting(d) /\ d # c => ~ Waiting(d)'
  <1>1. FibreShape /\ HeadShape /\ queue \in Seq(Commands)
    BY DEF SubInv, Shapes, RestoreInv
  <1>2. /\ queue' \in Seq(Commands) /\ DOMAIN queue' = 1 .. Len(queue) + 1
        /\ \A i \in 1 .. Len(queue) : queue'[i] = queue[i]
        /\ queue'[Len(queue) + 1] = c
        /\ queue # <<>> => Head(queue') = Head(queue)
    BY <1>1
  <1>3. \A d : ~ Waiting(d) /\ d # c => ~ Waiting(d)'
    BY <1>1, <1>2 DEF Waiting
  <1>4. CASE isProcessing
    BY <1>1, <1>2, <1>3, <1>4 DEF FibreShape, HeadShape
  <1>5. CASE ~ isProcessing
    <2>1. task'[Mux].pc = "idle"
      BY <1>1, <1>5 DEF FibreShape
    <2> QED
      BY <1>2, <1>3, <1>5, <2>1, DequeueHead
  <1> QED
    BY <1>4, <1>5

LEMMA UserExecRestores ==
    ASSUME SubInv, LockInv, RestoreInv, NEW c \in CallerCommands, UserExec(c)
    PROVE  RestoreInv'
  <1>1. /\ Shapes /\ CallShapes /\ c \in Commands /\ c \notin Resubs /\ HeadShape
        /\ settled \in [Commands -> Outcomes(Requests) \cup {None}]
        /\ UNCHANGED <<channels, recorded, loop, resub, subs, moved>>
    BY DEF SubInv, CallerCommands, UserExec, subVars, RestoreInv, HeadShape
  <1>2. UNCHANGED <<rid, link, out, runs, cur, task>>
    BY DEF UserExec, Exec, ExecRefused, Dequeue, EndCall, Send, connVars, wireVars
  <1>3. /\ HeadShape' /\ (call'[Mux] = call[Mux] \/ NoAnswerYet(call'[Mux]))
        /\ \A d : ~ Waiting(d) /\ d # c => ~ Waiting(d)'
        /\ \A d \in Commands : settled'[d] = settled[d] \/ (d = c /\ ~ IsAnswer(settled'[d]))
    <2>1. CASE Exec(c)
      BY <1>1, <1>2, <2>1, EnqueueHead DEF Exec
    <2>2. CASE ExecRefused(c)
      <3>1. /\ settled' = [settled EXCEPT ![c] = Fault("ConnectionClosed")]
            /\ UNCHANGED <<queue, isProcessing, call>>
        BY <2>2 DEF ExecRefused, wireVars
      <3>2. /\ Fault("ConnectionClosed") \in Outcomes(Requests)
            /\ ~ IsAnswer(Fault("ConnectionClosed"))
        BY OutcomeType DEF FaultKinds, IsAnswer, Fault
      <3>3. /\ settled' \in [Commands -> Outcomes(Requests) \cup {None}]
            /\ \A d \in Commands : settled'[d] = settled[d] \/ (d = c /\ ~ IsAnswer(settled'[d]))
        BY <1>1, <3>1, <3>2
      <3> QED
        BY <1>1, <1>2, <3>1, <3>3, HeadStays DEF Waiting
    <2> QED
      BY <2>1, <2>2 DEF UserExec
  <1>4. NothingLost
    BY <1>1, <1>2, StillCovered
  <1>5. Resubs \subseteq Commands /\ Unnoted' = Unnoted /\ Unnoted \subseteq Commands
    BY <1>1, UnnotedStay, PubSubAssumption DEF Unnoted
  <1>6. IssueShape'
    BY <1>1, <1>3, <1>5, IssueStays DEF RestoreInv
  <1>7. ~ moved => OneSocket' /\ InFlight' /\ Acked' /\ ChannelsThere'
    BY <1>1, <1>3, <1>4, <1>5, OneSocketStays, InFlightStays, AckedStays, ChannelsStay
    DEF RestoreInv
  <1> QED
    BY <1>1, <1>3, <1>6, <1>7 DEF RestoreInv

-----------------------------------------------------------------------------
(* The steps of the subscription and of receive().                          *)

\* A command of the caller's names its channels, and one of receive() those it is told.
LEMMA WantedType ==
    ASSUME Shapes, NEW c \in Commands
    PROVE  /\ c \in Subscribes => Wanted[c] = Adds[c]
           /\ c \in Resubs /\ resub[c] # None => Wanted[c] = resub[c]
  <1>1. CASE c \in Subscribes
    <2>1. c \notin Resubs /\ c \notin Unsubscribes
      BY <1>1, PubSubAssumption
    <2>2. Names(c) = Adds[c]
      BY <1>1, <2>1 DEF Names
    <2> QED
      BY <2>1, <2>2 DEF Wanted
  <1>2. CASE c \in Resubs /\ resub[c] # None
    <2>1. c \notin Subscribes /\ c \notin Unsubscribes
      BY <1>2, PubSubAssumption
    <2>2. Names(c) = resub[c]
      BY <1>2, <2>1 DEF Names
    <2> QED
      BY <2>1, <2>2 DEF Wanted
  <1> QED
    BY <1>1, <1>2

LEMMA RecordRestores ==
    ASSUME SubInv, LockInv, RestoreInv, NEW c, Record(c)
    PROVE  RestoreInv'
  <1>1. /\ Shapes /\ CallShapes /\ c \in Subscribes \cup Unsubscribes /\ c \in Commands
        /\ c \notin Resubs /\ (c \in Unsubscribes => c \notin Subscribes)
        /\ settled[c] # None /\ IsAnswer(settled[c]) /\ c \notin recorded
    BY PubSubAssumption DEF SubInv, Record
  <1>2. /\ UNCHANGED <<rid, link, out, call, runs, cur, task, queue, isProcessing, settled,
                       loop, resub, subs, moved>>
        /\ recorded' = recorded \cup {c}
        /\ channels' = IF c \in Subscribes THEN channels \cup Adds[c] ELSE channels \ Drops[c]
    BY DEF Record, wireVars, connVars, muxVars
  <1>3. NothingLost
    BY <1>2, StillCovered
  <1>4. HeadShape'
    BY <1>1, <1>2, HeadStays DEF RestoreInv, HeadShape
  <1>5. IssueShape'
    BY <1>1, <1>2 DEF RestoreInv, IssueShape, Waiting
  <1>6. ASSUME ~ moved
        PROVE  OneSocket' /\ InFlight' /\ Acked' /\ ChannelsThere'
    <2>1. Unnoted' \subseteq Unnoted
      BY <1>2 DEF Unnoted
    <2>2. OneSocket' /\ InFlight' /\ Acked'
      BY <1>1, <1>2, <1>3, <1>6, <2>1, OneSocketStays, InFlightStays, AckedStays DEF RestoreInv
    <2>3. c \in Subscribes => Adds[c] \subseteq Covered[cur]
      <3>1. c \in Subscribes => c \in Unnoted
        BY <1>1 DEF Unnoted
      <3> QED
        BY <1>1, <1>6, <3>1, WantedType DEF RestoreInv, Acked
    <2>4. Covered[cur] \subseteq Covered'[cur'] /\ cur' = cur
      BY <1>1, <1>3 DEF Shapes, NothingLost
    <2>5. channels' \subseteq channels \cup Covered[cur]
      BY <1>2, <2>3
    <2>6. ChannelsThere'
      <3>1. ChannelsThere
        BY <1>6 DEF RestoreInv
      <3>2. loop \in {"off", "reading", "suspended"} => channels' \subseteq Covered'[cur']
        BY <2>4, <2>5, <3>1 DEF ChannelsThere
      <3>3. ASSUME loop = "resubscribing"
            PROVE  \E d \in Resubs : /\ resub[d] # None /\ d \notin recorded'
                                     /\ channels' \ resub[d] \subseteq Covered'[cur']
        <4>1. PICK d \in Resubs : /\ resub[d] # None /\ d \notin recorded
                                  /\ channels \ resub[d] \subseteq Covered[cur]
          BY <3>1, <3>3 DEF ChannelsThere
        <4> QED
          BY <1>1, <1>2, <2>4, <2>5, <4>1
      <3> QED
        BY <1>2, <3>2, <3>3 DEF ChannelsThere
    <2> QED
      BY <2>2, <2>6
  <1> QED
    BY <1>2, <1>4, <1>5, <1>6 DEF RestoreInv

\* The loop goes on, is suspended, reconnects or is over, but does not subscribe.
LEMMA RecvActsRestore ==
    ASSUME SubInv, LockInv, RestoreInv, RecvActs, UNCHANGED rid \/ CloseSocket(cur),
           UNCHANGED <<link, out, runs, cur, queue, isProcessing, settled>>,
           UNCHANGED <<channels, recorded, resub, subs, moved>>,
           loop # "resubscribing",
           loop' \in {"reading", "suspended"} =>
             loop \in {"off", "reading", "suspended"} \/ channels = {}
    PROVE  RestoreInv'
  <1>1. Shapes /\ CallShapes /\ cur \in Sockets /\ Mux \in Fibers /\ Mux # Recv
    BY Basics DEF SubInv, Shapes
  <1>2. /\ call'[Mux] = call[Mux] /\ task'[Mux] = task[Mux]
        /\ loop' \in {"reconnecting", "suspended", "ended", "refused", "thrown", "reading"}
        /\ task'[Recv].pc \notin {"dialing", "delay"}
    BY <1>1, RecvCalls DEF RecvActs, SameCalls, SameTasks
  <1>3. RidsMove
    BY <1>1, QuietRids
  <1>4. NothingLost
    BY <1>2, <1>3, CoveredStays DEF NothingLost
  <1>5. HeadShape'
    BY <1>1, <1>2, <1>3, HeadStays DEF RestoreInv, HeadShape, RidsMove
  <1>6. IssueShape'
    BY DEF RestoreInv, IssueShape, Waiting
  <1>7. Unnoted' = Unnoted
    BY UnnotedStay
  <1>8. ASSUME ~ moved
        PROVE  ChannelsThere'
    <2>1. ChannelsThere /\ Covered[cur] \subseteq Covered'[cur]
      BY <1>1, <1>4, <1>8 DEF RestoreInv, NothingLost
    <2> QED
      BY <1>2, <2>1 DEF ChannelsThere
  <1>9. ~ moved => OneSocket' /\ InFlight' /\ Acked'
    BY <1>1, <1>2, <1>4, <1>7, OneSocketStays, InFlightStays, AckedStays DEF RestoreInv
  <1> QED
    BY <1>5, <1>6, <1>8, <1>9 DEF RestoreInv

LEMMA NextMessageRestores ==
    ASSUME SubInv, LockInv, RestoreInv, NextMessage
    PROVE  RestoreInv'
  <1>1. /\ Shapes /\ FibreShape /\ Recv \in Fibers /\ call[Recv] \in Calls
        /\ task \in [Fibers -> Tasks]
    BY Basics DEF SubInv, Shapes
  <1>2. /\ LoopTop /\ task' = task /\ loop \in {"suspended", "off"}
        /\ UNCHANGED <<rid, link, out, runs, cur, queue, isProcessing, settled>>
        /\ UNCHANGED <<channels, recorded, resub, subs, moved>>
    BY DEF NextMessage, connVars, muxVars
  <1>3. task[Recv].pc = "idle" /\ call[Recv].st \in {"idle", "done"}
    BY <1>1, <1>2 DEF FibreShape, Calls, CallStates, LockInv, RecvShape
  <1>4. RecvActs
    BY <1>1, <1>2, <1>3, LoopTopActs DEF SameTasks
  <1> QED
    BY <1>2, <1>4, RecvActsRestore

LEMMA BackRestores ==
    ASSUME SubInv, LockInv, RestoreInv,
           RecvMessage \/ RecvIgnores \/ RecvForces \/ RecvBreaks \/ RecvThrows
    PROVE  RestoreInv'
  <1>1. /\ Back /\ RecvActs
    BY BackActs DEF RecvMessage, RecvIgnores, RecvForces, RecvBreaks, RecvThrows
  <1>2. /\ UNCHANGED rid \/ CloseSocket(cur)
        /\ UNCHANGED <<link, out, runs, cur, queue, isProcessing, settled>>
        /\ UNCHANGED <<channels, recorded, resub, subs, moved>>
        /\ loop = "reading"
    BY <1>1 DEF RecvMessage, RecvIgnores, RecvForces, RecvBreaks, RecvThrows, CloseNow, connVars,
                muxVars, Back
  <1> QED
    BY <1>1, <1>2, RecvActsRestore

\* reconnect() is over.
LEMMA ReconnectEnds ==
    ASSUME SubInv, RecvReconnected \/ RecvReconnectFails
    PROVE  /\ Shapes /\ CallShapes /\ Recv \in Fibers /\ Mux # Recv
           /\ loop = "reconnecting" /\ call[Recv].st = "idle"
           /\ task' \in [Fibers -> Tasks] /\ SameTasks(Recv) /\ task'[Recv].pc = "idle"
           /\ UNCHANGED <<rid, link, out, runs, cur, channels, recorded, subs, moved>>
  <1>1. Shapes /\ CallShapes /\ Recv \in Fibers /\ Mux # Recv /\ task \in [Fibers -> Tasks]
    BY Basics DEF SubInv, Shapes
  <1>2. /\ loop = "reconnecting" /\ call[Recv].st = "idle"
        /\ task' = [task EXCEPT ![Recv] = NoTask]
        /\ UNCHANGED <<rid, link, out, runs, cur, channels, recorded, subs, moved>>
    BY <1>1 DEF RecvReconnected, RecvReconnectFails, CallShapes, CallShape, wireVars
  <1> QED
    BY <1>1, <1>2, NoTaskType DEF SameTasks

LEMMA ReconnectEndsRestore ==
    ASSUME SubInv, LockInv, RestoreInv, RecvReconnectFails \/ (RecvReconnected /\ channels = {})
    PROVE  RestoreInv'
  <1>1. /\ Shapes /\ loop = "reconnecting" /\ call[Recv].st = "idle"
        /\ task' \in [Fibers -> Tasks] /\ SameTasks(Recv) /\ task'[Recv].pc = "idle"
        /\ UNCHANGED <<rid, link, out, runs, cur, channels, recorded, subs, moved>>
    BY ReconnectEnds
  <1>2. UNCHANGED <<queue, isProcessing, settled, resub>>
    BY DEF RecvReconnected, RecvReconnectFails, muxVars
  <1>3. CASE RecvReconnectFails
    <2>1. call' = call /\ loop' = "thrown"
      BY <1>3 DEF RecvReconnectFails, wireVars
    <2>2. RecvActs
      BY <1>1, <2>1 DEF RecvActs
    <2> QED
      BY <1>1, <1>2, <2>1, <2>2, RecvActsRestore
  <1>4. CASE RecvReconnected /\ channels = {}
    <2>1. LoopTop
      BY <1>4 DEF RecvReconnected
    <2>2. RecvActs
      BY <1>1, <2>1, LoopTopActs
    <2> QED
      BY <1>1, <1>2, <1>4, <2>2, RecvActsRestore
  <1> QED
    BY <1>3, <1>4

\* The SUBSCRIBE of the finally block: what receive() tells it to name.
LEMMA ResubCovers ==
    ASSUME Shapes, NEW c \in Resubs, resub[c] = None, resub' = [resub EXCEPT ![c] = channels],
           UNCHANGED <<rid, link, out, subs, runs>>
    PROVE  /\ \A s \in Sockets : Covered[s] \subseteq Covered'[s]
           /\ \A d \in Commands : d # c => Wanted'[d] = Wanted[d]
           /\ channels # None
  <1>1. /\ c \notin Subscribes /\ c \notin Unsubscribes
        /\ resub \in [Resubs -> (SUBSET Channels) \cup {None}] /\ channels # None
    BY PubSubAssumption DEF Shapes
  <1>2. \A r : r # c => Names(r)' = Names(r)
    BY <1>1 DEF Names
  <1>3. Names(c) = {}
    BY <1>1 DEF Names
  <1>4. \A d \in Commands : d # c => Wanted'[d] = Wanted[d]
    BY <1>2 DEF Wanted
  <1>5. \A r : Names(r) \subseteq Names(r)'
    BY <1>2, <1>3
  <1>6. Dropping' = Dropping
    BY DEF Dropping
  <1>7. ASSUME NEW s \in Sockets
        PROVE  Covered[s] \subseteq Covered'[s]
    <2>1. Coming(s) \subseteq Coming(s)'
      BY <1>5 DEF Coming
    <2>2. /\ Covered[s] = IF rid[s] = "open" /\ link[s] = "up"
                          THEN Channels \cap (subs[s] \cup Coming(s) \cup Dropping) ELSE Channels
          /\ Covered'[s] = IF rid[s] = "open" /\ link[s] = "up"
                           THEN Channels \cap (subs[s] \cup Coming(s)' \cup Dropping) ELSE Channels
      BY <1>6 DEF Covered
    <2> QED
      BY <2>1, <2>2
  <1> QED
    BY <1>1, <1>4, <1>7

LEMMA ResubscribeRestores ==
    ASSUME SubInv, LockInv, RestoreInv, RecvReconnected, channels # {}
    PROVE  RestoreInv'
  <1>1. /\ Shapes /\ CallShapes /\ FibreShape /\ Mux \in Fibers /\ Recv \in Fibers /\ Mux # Recv
        /\ cur \in Sockets /\ Resubs \subseteq Commands
        /\ resub \in [Resubs -> (SUBSET Channels) \cup {None}]
        /\ settled \in [Commands -> Outcomes(Requests) \cup {None}] /\ HeadShape
    BY Basics, PubSubAssumption DEF SubInv, Shapes, RestoreInv, HeadShape
  <1>2. /\ loop = "reconnecting" /\ loop' = "resubscribing"
        /\ SameTasks(Recv) /\ task'[Recv].pc = "idle"
        /\ UNCHANGED <<rid, link, out, runs, cur, channels, recorded, subs, moved>>
    BY ReconnectEnds DEF RecvReconnected
  <1>3. PICK c \in Resubs :
          /\ resub[c] = None /\ resub' = [resub EXCEPT ![c] = channels]
          /\ IF isClosed
             THEN /\ settled' = [settled EXCEPT ![c] = Fault("ConnectionClosed")]
                  /\ UNCHANGED <<queue, isProcessing, call>>
             ELSE /\ queue' = Append(queue, c)
                  /\ IF isProcessing THEN UNCHANGED <<isProcessing, call, wlock>>
                                     ELSE Dequeue(queue')
                  /\ UNCHANGED settled
    BY DEF RecvReconnected
  <1>4. /\ c \in Commands /\ task'[Mux] = task[Mux]
        /\ settled[c] = None /\ ~ Waiting(c) /\ c \notin recorded
        /\ \A d \in Resubs : ~ (resub[d] # None /\ d \notin recorded)
    BY <1>1, <1>2, <1>3 DEF RestoreInv, IssueShape, SameTasks
  <1>5. /\ \A s \in Sockets : Covered[s] \subseteq Covered'[s]
        /\ \A d \in Commands : d # c => Wanted'[d] = Wanted[d]
        /\ channels # None
    BY <1>1, <1>2, <1>3, ResubCovers
  <1>6. /\ HeadShape' /\ (call'[Mux] = call[Mux] \/ NoAnswerYet(call'[Mux]))
        /\ \A d : ~ Waiting(d) /\ d # c => ~ Waiting(d)'
        /\ \A d \in Commands : settled'[d] = settled[d] \/ (d = c /\ ~ IsAnswer(settled'[d]))
    <2>1. CASE isClosed
      <3>1. /\ settled' = [settled EXCEPT ![c] = Fault("ConnectionClosed")]
            /\ UNCHANGED <<queue, isProcessing, call>>
        BY <1>3, <2>1
      <3>2. /\ Fault("ConnectionClosed") \in Outcomes(Requests)
            /\ ~ IsAnswer(Fault("ConnectionClosed"))
        BY OutcomeType DEF FaultKinds, IsAnswer, Fault
      <3>3. /\ settled' \in [Commands -> Outcomes(Requests) \cup {None}]
            /\ \A d \in Commands : settled'[d] = settled[d] \/ (d = c /\ ~ IsAnswer(settled'[d]))
        BY <1>1, <3>1, <3>2
      <3> QED
        BY <1>1, <1>2, <1>4, <3>1, <3>3, HeadStays DEF Waiting
    <2>2. CASE ~ isClosed
      <3>1. /\ queue' = Append(queue, c) /\ settled' = settled
            /\ IF isProcessing THEN UNCHANGED <<isProcessing, call, wlock>> ELSE Dequeue(queue')
        BY <1>3, <2>2
      <3> QED
        BY <1>1, <1>2, <1>4, <3>1, EnqueueHead
    <2> QED
      BY <2>1, <2>2
  <1>7. /\ resub'[c] = channels
        /\ \A d \in Resubs : d # c => resub'[d] = resub[d]
    BY <1>1, <1>3
  <1>8. IssueShape'
    <2>1. \A d \in Resubs : resub'[d] # None /\ d \notin recorded' => d = c
      BY <1>2, <1>4, <1>7
    <2>2. ASSUME NEW d \in Resubs, resub'[d] = None
          PROVE  settled'[d] = None /\ ~ Waiting(d)' /\ d \notin recorded'
      <3>1. d # c /\ resub[d] = None /\ d \in Commands
        BY <1>1, <1>5, <1>7, <2>2
      <3>2. settled[d] = None /\ ~ Waiting(d) /\ d \notin recorded
        BY <3>1 DEF RestoreInv, IssueShape
      <3> QED
        BY <1>2, <1>6, <3>1, <3>2
    <2> QED
      BY <1>2, <2>1, <2>2 DEF IssueShape
  <1>9. \A d \in Unnoted' : d = c \/ (d \in Unnoted /\ d \in Commands /\ Wanted'[d] = Wanted[d])
    <2>1. Subscribes \subseteq Commands
      BY PubSubAssumption
    <2> QED
      BY <1>1, <1>2, <1>4, <1>5, <1>7, <2>1 DEF Unnoted
  <1>10. call'[Mux] = call[Mux] => call[Mux].req # c
    <2>1. Head(queue) # c \/ queue = <<>>
      BY <1>1, <1>4 DEF Waiting, Shapes
    <2> QED
      BY <1>1, <1>4, <2>1 DEF HeadShape, FibreShape
  <1>11. ASSUME ~ moved
         PROVE  OneSocket' /\ InFlight' /\ Acked' /\ ChannelsThere'
    <2>1. OneSocket /\ InFlight /\ Acked
      BY <1>11 DEF RestoreInv
    <2>2. OneSocket'
      BY <1>2, <2>1 DEF OneSocket
    <2>3. InFlight'
      <3>1. CASE NoAnswerYet(call'[Mux])
        BY <3>1 DEF InFlight, NoAnswerYet
      <3>2. CASE call'[Mux] = call[Mux]
        <4>1. call[Mux].st \in {"written", "reading"} => call[Mux].sock \in Sockets
          BY <1>1 DEF CallShapes, CallShape
        <4> QED
          BY <1>1, <1>2, <1>5, <1>9, <1>10, <2>1, <3>2, <4>1 DEF InFlight
      <3> QED
        BY <1>6, <3>1, <3>2
    <2>4. Acked'
      <3>1. ASSUME NEW d \in Unnoted', settled'[d] # None, IsAnswer(settled'[d])
            PROVE  Wanted'[d] \subseteq Covered'[cur']
        <4>1. d # c
          BY <1>4, <1>6, <3>1
        <4>2. d \in Unnoted /\ Wanted'[d] = Wanted[d] /\ settled'[d] = settled[d]
          BY <1>6, <1>9, <3>1, <4>1
        <4>3. Wanted[d] \subseteq Covered[cur]
          BY <2>1, <3>1, <4>2 DEF Acked
        <4> QED
          BY <1>1, <1>2, <1>5, <4>2, <4>3
      <3> QED
        BY <3>1 DEF Acked
    <2>5. ChannelsThere'
      <3>1. channels' \ resub'[c] \subseteq Covered'[cur'] /\ resub'[c] # None /\ c \notin recorded'
        BY <1>2, <1>4, <1>5, <1>7
      <3> QED
        BY <1>2, <3>1 DEF ChannelsThere
    <2> QED
      BY <2>2, <2>3, <2>4, <2>5
  <1> QED
    BY <1>2, <1>6, <1>8, <1>11 DEF RestoreInv

LEMMA ResubscribedRestores ==
    ASSUME SubInv, LockInv, RestoreInv, RecvResubscribed
    PROVE  RestoreInv'
  <1>1. /\ Shapes /\ CallShapes /\ FibreShape /\ Mux \in Fibers /\ Recv \in Fibers /\ Mux # Recv
        /\ cur \in Sockets /\ HeadShape /\ IssueShape /\ Resubs \subseteq Commands
    BY Basics, PubSubAssumption DEF SubInv, Shapes, RestoreInv
  <1>2. PICK c \in Resubs :
          /\ resub[c] # None /\ c \notin recorded /\ settled[c] # None
          /\ recorded' = recorded \cup {c}
          /\ IF IsAnswer(settled[c])
             THEN channels' = channels \cup resub[c] /\ LoopTop
             ELSE loop' = "thrown" /\ UNCHANGED <<channels, call, rlock>>
    BY DEF RecvResubscribed
  <1>3. /\ loop = "resubscribing"
        /\ loop' \in {"ended", "thrown", "reading"}
        /\ loop' = "reading" => IsAnswer(settled[c]) /\ channels' = channels \cup resub[c]
        /\ UNCHANGED <<rid, link, out, runs, cur, task, queue, isProcessing, settled, resub,
                       subs, moved>>
        /\ call'[Mux] = call[Mux]
    BY <1>1, <1>2 DEF RecvResubscribed, LoopTop, connVars, muxVars, Shapes
  <1>4. NothingLost
    BY <1>3, StillCovered
  <1>5. HeadShape'
    BY <1>1, <1>3, HeadStays DEF HeadShape
  <1>6. \A d \in Resubs : resub[d] # None /\ d \notin recorded' => FALSE
    BY <1>1, <1>2, <1>3 DEF IssueShape
  <1>7. IssueShape'
    <2>1. \A d \in Resubs :
            resub[d] = None => settled[d] = None /\ ~ Waiting(d) /\ d \notin recorded'
      BY <1>1, <1>2 DEF IssueShape
    <2> QED
      BY <1>3, <1>6, <2>1 DEF IssueShape, Waiting
  <1>8. ASSUME ~ moved
        PROVE  OneSocket' /\ InFlight' /\ Acked' /\ ChannelsThere'
    <2>1. Unnoted' \subseteq Unnoted
      BY <1>2, <1>3 DEF Unnoted
    <2>2. OneSocket' /\ InFlight' /\ Acked'
      BY <1>1, <1>3, <1>4, <1>8, <2>1, OneSocketStays, InFlightStays, AckedStays DEF RestoreInv
    <2>3. ChannelsThere'
      <3>1. PICK d \in Resubs : /\ resub[d] # None /\ d \notin recorded
                                /\ channels \ resub[d] \subseteq Covered[cur]
        BY <1>3, <1>8 DEF RestoreInv, ChannelsThere
      <3>2. d = c
        BY <1>1, <1>2, <3>1 DEF IssueShape
      <3>3. IsAnswer(settled[c]) => resub[c] \subseteq Covered[cur]
        <4>1. c \in Unnoted /\ Wanted[c] = resub[c]
          BY <1>1, <1>2, WantedType DEF Unnoted
        <4> QED
          BY <1>2, <1>8, <4>1 DEF RestoreInv, Acked
      <3>4. Covered[cur] \subseteq Covered'[cur'] /\ cur' = cur
        BY <1>1, <1>4 DEF NothingLost
      <3> QED
        BY <1>3, <3>1, <3>2, <3>3, <3>4 DEF ChannelsThere
    <2> QED
      BY <2>2, <2>3
  <1> QED
    BY <1>3, <1>5, <1>7, <1>8 DEF RestoreInv

-----------------------------------------------------------------------------
(* The server, the network and close().                                     *)

\* The server takes a request off the wire and does what it says.
LEMMA ServeCovers ==
    ASSUME Shapes, LockInv, NEW s \in Sockets, Serve(s)
    PROVE  (\A t \in Sockets : Covered[t] \subseteq Covered'[t]) /\ Wanted' = Wanted
  <1> DEFINE r == Head(out[s])
  <1>1. /\ out \in [Sockets -> Seq(Requests)] /\ out[s] \in Seq(Requests) /\ out[s] # <<>>
        /\ out' = [out EXCEPT ![s] = Tail(@)]
        /\ runs \in [Commands -> Nat]
        /\ runs' = [c \in Commands |-> IF c = r THEN runs[c] + 1 ELSE runs[c]]
        /\ subs' = [subs EXCEPT ![s] = IF r \in Unsubscribes THEN @ \ Names(r)
                                                             ELSE @ \cup Names(r)]
        /\ subs = [t \in Sockets |-> subs[t]]
        /\ UNCHANGED <<rid, link, resub>>
    BY DEF Shapes, Serve, LockInv, LockTypes
  <1>2. /\ r = out[s][1] /\ 1 \in DOMAIN out[s]
        /\ \A i \in DOMAIN out[s] :
             i = 1 \/ (i - 1 \in DOMAIN Tail(out[s]) /\ Tail(out[s])[i - 1] = out[s][i])
    BY <1>1
  <1> HIDE DEF r
  <1>3. \A q : Names(q)' = Names(q)
    BY <1>1 DEF Names
  <1>4. Wanted' = Wanted
    BY <1>3 DEF Wanted
  <1>5. Dropping \subseteq Dropping'
    <2>1. \A c \in Unsubscribes : runs[c] > 0 => runs'[c] > 0
      BY <1>1, PubSubAssumption
    <2> QED
      BY <2>1 DEF Dropping
  <1>6. r \in Unsubscribes => Names(r) \subseteq Dropping'
    <2>1. ASSUME r \in Unsubscribes
          PROVE  Names(r) = Drops[r] /\ runs'[r] > 0
      <3>1. r \notin Subscribes /\ r \notin Resubs /\ r \in Commands
        BY <2>1, PubSubAssumption
      <3>2. Names(r) = Drops[r]
        BY <2>1, <3>1 DEF Names
      <3>3. runs[r] \in Nat /\ runs'[r] = runs[r] + 1
        BY <1>1, <3>1
      <3> QED
        BY <3>2, <3>3
    <2> QED
      BY <2>1 DEF Dropping
  <1>7. Coming(s) \subseteq Names(r) \cup Coming(s)'
    <2>1. ASSUME NEW i \in DOMAIN out[s], i # 1
          PROVE  Names(out[s][i]) \subseteq Coming(s)'
      <3>1. i - 1 \in DOMAIN out'[s] /\ out'[s][i - 1] = out[s][i]
        BY <1>1, <1>2, <2>1
      <3> QED
        BY <1>3, <3>1 DEF Coming
    <2> QED
      BY <1>2, <2>1 DEF Coming
  <1>8. subs[s] \cup Names(r) \subseteq subs'[s] \cup Dropping'
    BY <1>1, <1>6
  <1>9. ASSUME NEW t \in Sockets
        PROVE  subs[t] \cup Coming(t) \cup Dropping
                 \subseteq subs'[t] \cup Coming(t)' \cup Dropping'
    <2>1. CASE t = s
      BY <1>5, <1>7, <1>8, <2>1
    <2>2. CASE t # s
      <3>1. subs'[t] = subs[t] /\ out'[t] = out[t]
        BY <1>1, <2>2
      <3>2. Coming(t)' = Coming(t)
        BY <1>3, <3>1 DEF Coming
      <3> QED
        BY <1>5, <3>1, <3>2
    <2> QED
      BY <2>1, <2>2
  <1>10. ASSUME NEW t \in Sockets
         PROVE  Covered[t] \subseteq Covered'[t]
    <2>1. /\ Covered[t] = IF rid[t] = "open" /\ link[t] = "up"
                          THEN Channels \cap (subs[t] \cup Coming(t) \cup Dropping) ELSE Channels
          /\ Covered'[t] = IF rid[t] = "open" /\ link[t] = "up"
                           THEN Channels \cap (subs'[t] \cup Coming(t)' \cup Dropping')
                           ELSE Channels
      BY <1>1 DEF Covered
    <2> QED
      BY <1>9, <2>1
  <1> QED
    BY <1>4, <1>10

\* A step that neither calls nor tells receive() anything.
LEMMA StillRestores ==
    ASSUME SubInv, LockInv, RestoreInv,
           \/ \E s \in Sockets : Serve(s) \/ Cut(s)
           \/ \E m \in Messages : Publish(m)
           \/ UserClose \/ UNCHANGED vars
    PROVE  RestoreInv'
  <1>1. Shapes /\ CallShapes
    BY DEF SubInv
  <1>2. /\ UNCHANGED <<call, task, cur, moved>>
        /\ UNCHANGED <<loop, channels, recorded, resub, settled, queue, isProcessing>>
        /\ UNCHANGED rid \/ CloseSocket(cur)
    BY DEF Serve, Cut, LinkCut, Publish, UserClose, CloseNow, vars, wireVars, connVars, muxVars,
           subVars
  <1>3. RidsMove
    BY <1>1, <1>2, QuietRids
  <1>4. (\A s \in Sockets : Covered[s] \subseteq Covered'[s]) /\ Wanted' = Wanted
    <2>1. CASE \E s \in Sockets : Serve(s)
      BY <1>1, <2>1, ServeCovers
    <2>2. ASSUME NEW s \in Sockets, Cut(s)
          PROVE  (\A t \in Sockets : Covered[t] \subseteq Covered'[t]) /\ Wanted' = Wanted
      <3>1. \A t \in Sockets : link'[t] = "up" => link[t] = "up"
        <4>1. link \in [Sockets -> {"up", "cut"}] /\ link' = [link EXCEPT ![s] = "cut"]
          BY <2>2 DEF Cut, LinkCut, LockInv, LockTypes
        <4> QED
          BY <4>1
      <3>2. UNCHANGED <<out, subs, runs, resub>>
        BY <2>2 DEF Cut, LinkCut, subVars
      <3> QED
        BY <1>3, <3>1, <3>2, CoveredStays
    <2>3. CASE (\E m \in Messages : Publish(m)) \/ UserClose \/ UNCHANGED vars
      <3>1. UNCHANGED <<out, subs, runs, resub, link>>
        BY <2>3 DEF Publish, UserClose, vars, wireVars, subVars
      <3> QED
        BY <1>3, <3>1, CoveredStays
    <2> QED
      BY <2>1, <2>2, <2>3
  <1>5. NothingLost
    BY <1>2, <1>3, <1>4 DEF NothingLost
  <1>6. HeadShape'
    BY <1>1, <1>2, <1>3, HeadStays DEF RestoreInv, HeadShape, RidsMove
  <1> QED
    BY <1>2, <1>5, <1>6, QuietRestores

LEMMA InitRestores ==
    ASSUME Init
    PROVE  RestoreInv
  <1>1. /\ rid = [s \in Sockets |-> IF s = 1 THEN "open" ELSE "unused"]
        /\ call = [f \in Fibers |-> NoCall] /\ task = [f \in Fibers |-> NoTask]
        /\ cur = 1 /\ queue = <<>> /\ isProcessing = FALSE /\ settled = [c \in Commands |-> None]
        /\ channels = {} /\ recorded = {} /\ loop = "off" /\ resub = [c \in Resubs |-> None]
        /\ moved = FALSE
    BY DEF Init, MuxInit
  <1>2. /\ Mux \in Fibers /\ Recv \in Fibers
        /\ Resubs \subseteq Commands /\ Subscribes \subseteq Commands
        /\ NoCall.st = "idle" /\ NoCall.req = None /\ NoTask.pc = "idle" /\ DOMAIN <<>> = {}
    BY Basics, PubSubAssumption DEF NoCall, NoTask
  <1>3. HeadShape
    BY <1>1, <1>2, NotACommand DEF HeadShape
  <1>4. IssueShape
    BY <1>1, <1>2 DEF IssueShape, Waiting
  <1>5. OneSocket /\ InFlight /\ Acked /\ ChannelsThere
    BY <1>1, <1>2 DEF OneSocket, InFlight, Acked, ChannelsThere, Unnoted
  <1> QED
    BY <1>1, <1>3, <1>4, <1>5 DEF RestoreInv

LEMMA NextRestores ==
    ASSUME SubInv, LockInv, RestoreInv, [Next /\ Prompt]_vars
    PROVE  RestoreInv'
  <1>1. ASSUME NEW f \in {Mux, Recv}, CallStep(f), UNCHANGED <<connVars, muxVars, subVars>>
        PROVE  RestoreInv'
    BY <1>1, MuxCallRestores, RecvCallRestores
  <1>2. ASSUME Prompt, ConnStep(Recv), UNCHANGED <<muxVars, subVars>>
        PROVE  RestoreInv'
    <2>1. UNCHANGED <<channels, recorded, loop, resub, subs, moved>>
      BY <1>2 DEF subVars
    <2> QED
      BY <1>2, <2>1, ConnRestores, RecvDialRestores
  <1>3. ASSUME ConnStep(Mux), moved' = (moved \/ cur' # cur),
               UNCHANGED <<muxVars, channels, recorded, loop, resub, subs, published, sent,
                           yielded>>
        PROVE  RestoreInv'
    BY <1>3, ConnRestores, MuxDialRestores
  <1>4. ASSUME MuxStep, UNCHANGED subVars
        PROVE  RestoreInv'
    BY <1>4, MuxStepRestores
  <1>5. ASSUME RecvStep
        PROVE  RestoreInv'
    BY <1>5, BackRestores, ReconnectEndsRestore, ResubscribeRestores, ResubscribedRestores
    DEF RecvStep
  <1>6. CASE Fibre /\ Prompt
    BY <1>1, <1>2, <1>3, <1>4, <1>5, <1>6, RecordRestores DEF Fibre
  <1>7. CASE NextMessage
    BY <1>7, NextMessageRestores
  <1>8. CASE \E c \in CallerCommands : UserExec(c)
    BY <1>8, UserExecRestores
  <1>9. CASE \/ UserClose \/ UNCHANGED vars
             \/ (\E m \in Messages : Publish(m)) \/ (\E s \in Sockets : Serve(s) \/ Cut(s))
    BY <1>9, StillRestores
  <1> QED
    BY <1>6, <1>7, <1>8, <1>9 DEF Next

LEMMA RestoreSurvives ==
    ASSUME SubInv, RestoreInv
    PROVE  SubscriptionsSurviveReconnect
  <1>1. SUFFICES ASSUME loop = "reading", ~ moved, rid[cur] = "open", link[cur] = "up"
                 PROVE  channels \ Dropping \subseteq subs[cur] \cup Coming(cur)
    BY DEF SubscriptionsSurviveReconnect
  <1>2. channels \subseteq Covered[cur] /\ cur \in Sockets
    BY <1>1 DEF RestoreInv, ChannelsThere, SubInv, Shapes
  <1>3. Covered[cur] = Channels \cap (subs[cur] \cup Coming(cur) \cup Dropping)
    BY <1>1, <1>2 DEF Covered
  <1> QED
    BY <1>2, <1>3

-----------------------------------------------------------------------------
(* A client that subscribes once.                                           *)

OneSubscribe == \A c, d \in Subscribes : c = d

\* Before the first subscribe() has returned nothing is received and nothing is there to
\* unsubscribe.
NotedInv ==
    /\ recorded = {} \/ Subscribes \subseteq recorded
    /\ \A c \in Unsubscribes : Issued(c) => recorded # {}
    /\ loop # "off" => recorded # {}

\* The executor settles and drops what was issued.
LEMMA MuxStepIssues ==
    ASSUME SubInv, RestoreInv, MuxStep, NEW c, Issued(c)', c \in Commands
    PROVE  Issued(c)
  <1>1. /\ FibreShape /\ queue \in Seq(Commands) /\ isProcessing
        /\ settled \in [Commands -> Outcomes(Requests) \cup {None}]
    BY DEF SubInv, Shapes, RestoreInv, HeadShape, MuxStep, Resolve, Reject, Retry, Resume, GiveUp,
           HeadIsBack
  <1>2. /\ queue # <<>> /\ Head(queue) = queue[1] /\ 1 \in DOMAIN queue
        /\ \A i \in DOMAIN Tail(queue) : i + 1 \in DOMAIN queue /\ Tail(queue)[i] = queue[i + 1]
    BY <1>1 DEF FibreShape
  <1>3. /\ queue' \in {queue, Tail(queue)}
        /\ settled' = settled \/ \E o : settled' = [settled EXCEPT ![Head(queue)] = o]
    BY DEF MuxStep, Resolve, Reject, Retry, Resume, GiveUp, SettleHead
  <1>4. Waiting(c)' => Waiting(c)
    BY <1>2, <1>3 DEF Waiting
  <1>5. settled'[c] # settled[c] => Waiting(c)
    BY <1>1, <1>2, <1>3 DEF Waiting
  <1> QED
    BY <1>4, <1>5 DEF Issued

LEMMA UserExecIssues ==
    ASSUME SubInv, RestoreInv, NEW d \in CallerCommands, UserExec(d), NEW c \in Commands,
           c # d, Issued(c)'
    PROVE  Issued(c)
  <1>1. /\ queue \in Seq(Commands) /\ d \in Commands
        /\ settled \in [Commands -> Outcomes(Requests) \cup {None}]
    BY DEF SubInv, Shapes, RestoreInv, HeadShape, CallerCommands
  <1>2. settled'[c] = settled[c] /\ (queue' = queue \/ queue' = Append(queue, d))
    BY <1>1 DEF UserExec, Exec, ExecRefused
  <1>3. Waiting(c)' => Waiting(c)
    <2>1. CASE queue' = queue
      BY <2>1 DEF Waiting
    <2>2. CASE queue' = Append(queue, d)
      <3>1. /\ DOMAIN queue' = 1 .. Len(queue) + 1 /\ DOMAIN queue = 1 .. Len(queue)
            /\ \A i \in 1 .. Len(queue) : queue'[i] = queue[i]
            /\ queue'[Len(queue) + 1] = d /\ Len(queue) \in Nat
        BY <1>1, <2>2
      <3> QED
        BY <3>1 DEF Waiting
    <2> QED
      BY <1>2, <2>1, <2>2
  <1> QED
    BY <1>2, <1>3 DEF Issued

\* Only a fibre in connect() or reconnect() takes another socket.
LEMMA NextDials ==
    ASSUME SubInv, [Next]_vars, cur' # cur
    PROVE  loop = "reconnecting" \/ moved'
  <1>1. task[Recv].pc # "idle" => loop = "reconnecting"
    BY DEF SubInv, FibreShape
  <1>2. ConnStep(Recv) => task[Recv].pc # "idle"
    BY DEF ConnStep, DialOk, DialFails, HelloStep, HelloFails, DelayOver, PingOk, PingFails, RePing
  <1>3. ~ MuxStep
    BY DEF MuxStep, Resolve, Reject, Retry, Resume, GiveUp, connVars
  <1>4. ~ RecvStep
    BY DEF RecvStep, RecvMessage, RecvIgnores, RecvForces, RecvBreaks, RecvThrows, RecvReconnected,
           RecvReconnectFails, RecvResubscribed, connVars
  <1>5. /\ ~ NextMessage /\ ~ UserClose /\ \A c : ~ Record(c) /\ ~ UserExec(c)
        /\ \A m : ~ Publish(m)
        /\ \A s : ~ Serve(s) /\ ~ Cut(s)
    BY DEF NextMessage, UserClose, Record, UserExec, Exec, ExecRefused, Publish, Serve, Cut,
           connVars
  <1>6. cur' = cur \/ ConnStep(Recv) \/ moved' = (moved \/ cur' # cur)
    BY <1>3, <1>4, <1>5 DEF Next, Fibre, connVars, vars
  <1> QED
    BY <1>1, <1>2, <1>6

LEMMA OnePrompt ==
    ASSUME SubInv, NotedInv, [Next]_vars
    PROVE  [Next /\ Prompt]_vars
  <1>1. ASSUME cur' # cur, ~ moved'
        PROVE  Subscribes \subseteq recorded
    BY <1>1, NextDials DEF NotedInv
  <1> QED
    BY <1>1 DEF Prompt

LEMMA NextNotes ==
    ASSUME OneSubscribe, SubInv, RestoreInv, NotedInv, [Next]_vars
    PROVE  NotedInv'
  <1>1. recorded \subseteq recorded'
    <2>1. CASE Fibre
      BY <2>1 DEF Fibre, RecvStep, RecvMessage, RecvIgnores, RecvForces, RecvBreaks, RecvThrows,
                  RecvReconnected, RecvReconnectFails, RecvResubscribed, Record, subVars
    <2>2. CASE ~ Fibre
      BY <2>2 DEF Next, NextMessage, UserClose, UserExec, Publish, Serve, Cut, subVars, vars
    <2> QED
      BY <2>1, <2>2
  <1>2. CASE recorded # {}
    BY <1>1, <1>2 DEF NotedInv
  <1>3. CASE recorded = {}
    <2>1. loop = "off" /\ \A c \in Unsubscribes : ~ Issued(c)
      BY <1>3 DEF NotedInv
    <2>2. ~ RecvStep /\ ~ NextMessage
      BY <1>3, <2>1
      DEF RecvStep, RecvMessage, RecvIgnores, RecvForces, RecvBreaks, RecvThrows, Back,
                        RecvReconnected, RecvReconnectFails, RecvResubscribed, NextMessage
    <2>3. Unsubscribes \subseteq Commands
      BY PubSubAssumption
    <2>4. ASSUME NEW c, Record(c)
          PROVE  NotedInv'
      <3>1. c \in Subscribes /\ recorded' = {c}
        BY <1>3, <2>1, <2>4 DEF Record, Issued
      <3>2. Subscribes \subseteq recorded' /\ recorded' # {}
        BY <3>1 DEF OneSubscribe
      <3> QED
        BY <3>2 DEF NotedInv
    <2>5. ASSUME UNCHANGED <<recorded, loop>>, \A c \in Unsubscribes : Issued(c)' => Issued(c)
          PROVE  NotedInv'
      BY <2>5 DEF NotedInv
    <2>6. CASE MuxStep /\ UNCHANGED subVars
      BY <2>3, <2>5, <2>6, MuxStepIssues DEF subVars
    <2>7. ASSUME NEW d \in CallerCommands, UserExec(d)
          PROVE  NotedInv'
      <3>1. d \notin Unsubscribes /\ UNCHANGED <<recorded, loop>>
        BY <1>3, <2>7 DEF UserExec, subVars
      <3> QED
        BY <2>3, <2>5, <2>7, <3>1, UserExecIssues
    <2>8. CASE UNCHANGED <<recorded, loop, settled, queue>>
      BY <2>5, <2>8 DEF Issued, Waiting
    <2>9. \/ \E c : Record(c)
          \/ MuxStep /\ UNCHANGED subVars
          \/ \E d \in CallerCommands : UserExec(d)
          \/ UNCHANGED <<recorded, loop, settled, queue>>
      <3>1. CASE Fibre
        BY <2>2, <3>1 DEF Fibre, muxVars, subVars
      <3>2. CASE ~ Fibre
        BY <2>2, <3>2 DEF Next, UserClose, Publish, Serve, Cut, muxVars, subVars, vars
      <3> QED
        BY <3>1, <3>2
    <2> QED
      BY <2>4, <2>6, <2>7, <2>8, <2>9
  <1> QED
    BY <1>2, <1>3

LEMMA InitNotes ==
    ASSUME Init
    PROVE  NotedInv
  <1>1. DOMAIN <<>> = {} /\ Unsubscribes \subseteq Commands
    BY PubSubAssumption
  <1> QED
    BY <1>1 DEF Init, MuxInit, NotedInv, Issued, Waiting

-----------------------------------------------------------------------------
(* The theorems.                                                            *)

\* pubsub.ts receive(): whoever dials when, the loop reads messages from the current
\* socket only, and from a socket it was left behind on none.
THEOREM ReceiveInvariance == Spec => []SubInv
  <1> QED
    BY InitKeeps, NextKeeps, PTL DEF Spec

\* What receive() yields is in the order of publication, and no message twice, whatever
\* fails, is dialled anew by it or by the executor, or is closed in between.
THEOREM ReceivesInOrder == Spec => []DeliveredInOrder
  <1>1. SubInv => DeliveredInOrder
    BY DEF SubInv, OrderShape
  <1> QED
    BY <1>1, ReceiveInvariance, PTL

\* pubsub.ts receive(): of the connection's own stream, the loop holds a reader that it
\* does not read with only when the stream is dead, when an error reply has ended it, or
\* from an error of readReply() until the PING of its reconnect() has failed on that
\* reader.  No error that leaves the stream alive is excepted.
THEOREM LocksInvariance == Spec => []LockInv
  <1> QED
    BY InitLocks, NextLocks, ReceiveInvariance, PTL DEF Spec

\* pubsub.ts:95 does not release the reader, and a chunk that ended inside a reply makes
\* readReply() throw on a socket that is well (reply.ts:146).  Whatever fails and whoever
\* reconnects, the live stream that is left locked so is one that receive() is about to
\* close; only an error reply leaves one locked for good.
THEOREM LiveLocksGivenUp == Spec => []LiveLockIsGivenUp
  <1>1. LockInv => LiveLockIsGivenUp
    BY DEF LockInv, LocksLeft, LeftLocked, ReadsAt, Dead, Excused, Refused, Pinging,
           LiveLockIsGivenUp, GivingUp
  <1> QED
    BY <1>1, LocksInvariance, PTL

\* What holds of receive() whoever dials when holds as well if the notes are prompt.
THEOREM PromptInvariance == PromptSpec => [](SubInv /\ LockInv /\ RestoreInv)
  <1>1. ASSUME SubInv, LockInv, RestoreInv, [Next /\ Prompt]_vars
        PROVE  SubInv' /\ LockInv' /\ RestoreInv'
    <2>1. [Next]_vars
      BY <1>1
    <2> QED
      BY <1>1, <2>1, NextKeeps, NextLocks, NextRestores
  <1>2. Init => SubInv /\ LockInv /\ RestoreInv
    BY InitKeeps, InitLocks, InitRestores
  <1> QED
    BY <1>1, <1>2, PTL DEF PromptSpec

\* pubsub.ts receive(): when it reads on after a reconnect(), the server has, or is about to
\* have, every channel that was noted and not given up, on the new socket as on the old one,
\* for any number of subscriptions, failures and sockets, where subscribe() notes what was
\* acknowledged before the next socket is there.
THEOREM SubscriptionsRestored == PromptSpec => []SubscriptionsSurviveReconnect
  <1> QED
    BY RestoreSurvives, PromptInvariance, PTL

\* With one subscribe() the order of the jobs does not matter.
THEOREM OneSubscriptionRestored ==
    ASSUME OneSubscribe
    PROVE  Spec => []SubscriptionsSurviveReconnect
  <1>1. ASSUME SubInv, LockInv, RestoreInv, NotedInv, [Next]_vars
        PROVE  SubInv' /\ LockInv' /\ RestoreInv' /\ NotedInv'
    BY <1>1, OnePrompt, NextKeeps, NextLocks, NextRestores, NextNotes
  <1>2. Init => SubInv /\ LockInv /\ RestoreInv /\ NotedInv
    BY InitKeeps, InitLocks, InitRestores, InitNotes
  <1>3. SubInv /\ RestoreInv => SubscriptionsSurviveReconnect
    BY RestoreSurvives
  <1> QED
    BY <1>1, <1>2, <1>3, PTL DEF Spec
=============================================================================
