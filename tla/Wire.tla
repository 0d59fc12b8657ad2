-------------------------------- MODULE Wire --------------------------------
(***************************************************************************)
(* protocol/command.ts over Deno's TCP streams: the fibres (chains of      *)
(* awaits) of one client that call sendCommand(), the sockets they share,  *)
(* and the server at the other end.                                        *)
(*                                                                         *)
(* sendCommand() is: lock the writer, write the request, unlock; lock the  *)
(* reader, read ONE reply, unlock.  Nothing ties the reply it reads to the *)
(* request it wrote but the order of bytes on the socket.  Each await is a *)
(* step, so that other fibres run in between.                              *)
(***************************************************************************)
EXTENDS RedisReply, Naturals, Sequences

CONSTANTS
    Fibers,       \* chains of awaits that may call sendCommand
    Receivers,    \* those of them that also read unasked: pubsub.ts receive()
    Commands,     \* the requests callers issue, each at most once
    Requests,     \* everything that is ever written to a socket
    Rejectable,   \* the requests the server may answer with an error reply
    MaxSockets,   \* bound: how many times the server accepts a connection
    MaxPieces     \* bound: how many reads what is left of a reply can take

Sockets == 1 .. MaxSockets
NoSocket == 0     \* a connection that was never established: undefined streams

ASSUME WireAssumption ==
    /\ MaxSockets \in Nat \ {0} /\ MaxPieces \in Nat \ {0}
    /\ Commands \subseteq Requests /\ Commands \cap FaultKinds = {}
    /\ Rejectable \subseteq Requests
    /\ Receivers \subseteq Fibers
    /\ None \notin Fibers /\ None \notin Outcomes(Requests)

VARIABLES
    rid,     \* the Deno resource of a socket and what ended it
    link,    \* the TCP connection under it
    out,     \* requests delivered to the server and not executed yet
    inb,     \* replies the client has not read yet, and what is left of one
    wlock,   \* the fibre whose WritableStreamDefaultWriter holds the socket
    rlock,   \* the fibre whose ReadableStreamDefaultReader holds it
    call,    \* each fibre's current or last sendCommand()
    runs     \* history: how many times the server executed each command

wireVars == <<rid, link, out, inb, wlock, rlock, call, runs>>

CallStates == {"idle", "writing", "written", "reading", "done"}

\* A fibre's sendCommand(): where it is, on which socket, and what it returns.
Calls == [st : CallStates, sock : Sockets \cup {NoSocket}, req : Requests \cup {None},
          res : Outcomes(Requests) \cup {None}]

\* What is left of a reply to r whose beginning was dropped: n reads at most.
Part(r, n) == [kind |-> "part", of |-> r, left |-> n]

Arriving == Replies(Requests) \cup [kind : {"part"}, of : Requests, left : 1 .. MaxPieces]

WireTypeOK ==
    /\ rid \in [Sockets -> {"unused", "open", "eof", "reset", "closed"}]
    /\ link \in [Sockets -> {"up", "cut"}]
    /\ out \in [Sockets -> Seq(Requests)]
    /\ inb \in [Sockets -> Seq(Arriving)]
    /\ wlock \in [Sockets -> Fibers \cup {None}]
    /\ rlock \in [Sockets -> Fibers \cup {None}]
    /\ call \in [Fibers -> Calls]
    /\ runs \in [Commands -> Nat]

NoCall == [st |-> "idle", sock |-> NoSocket, req |-> None, res |-> None]

WireInit ==
    /\ rid = [s \in Sockets |-> "unused"]
    /\ link = [s \in Sockets |-> "up"]
    /\ out = [s \in Sockets |-> <<>>]
    /\ inb = [s \in Sockets |-> <<>>]
    /\ wlock = [s \in Sockets |-> None]
    /\ rlock = [s \in Sockets |-> None]
    /\ call = [f \in Fibers |-> NoCall]
    /\ runs = [c \in Commands |-> 0]

-----------------------------------------------------------------------------
(* The client's side of one sendCommand().                                 *)

Done(f, o) == [call[f] EXCEPT !.st = "done", !.res = o]

CallDone(f) == call[f].st = "done"

\* The synchronous part of sendCommand(writer, reader, r): getWriter() throws a
\* TypeError on a locked stream and on the undefined stream of a connection
\* that was never established; otherwise the write is on its way.
Send(f, s, r, locks) ==
    LET started == s # NoSocket /\ locks[s] = None
    IN  /\ call' = [call EXCEPT ![f] =
                      [st   |-> IF started THEN "writing" ELSE "done",
                       sock |-> s,
                       req  |-> r,
                       res  |-> IF started THEN None ELSE Fault("TypeError")]]
        /\ wlock' = IF started THEN [locks EXCEPT ![s] = f] ELSE locks

\* The fibre has consumed the result of its last call and makes no other.
EndCall(f) == call' = [call EXCEPT ![f] = NoCall] /\ UNCHANGED wlock

\* write() resolves.  Bytes written to a peer that is gone are lost silently.
WriteOk(f) ==
    LET s == call[f].sock IN
    /\ call[f].st = "writing"
    /\ rid[s] = "open"
    /\ out' = IF link[s] = "up" THEN [out EXCEPT ![s] = Append(@, call[f].req)]
                                ELSE out
    /\ call' = [call EXCEPT ![f].st = "written"]
    /\ UNCHANGED <<rid, link, inb, wlock, rlock, runs>>

\* write() rejects: the peer is gone (Deno then closes the resource), or the
\* resource is closed already, or close() cancels the write.
WriteFails(f) ==
    LET s == call[f].sock IN
    /\ call[f].st = "writing"
    /\ \E e \in FaultKinds :
         /\ call' = [call EXCEPT ![f] = Done(f, Fault(e))]
         /\ \/ /\ rid[s] = "open" /\ link[s] = "cut" /\ e = "BrokenPipe"
               /\ rid' = [rid EXCEPT ![s] = "reset"]
               /\ inb' = [inb EXCEPT ![s] = <<>>]
            \/ rid[s] # "open" /\ e = "BadResource" /\ UNCHANGED <<rid, inb>>
            \/ rid[s] = "closed" /\ e = "Interrupted" /\ UNCHANGED <<rid, inb>>
    /\ wlock' = [wlock EXCEPT ![s] = None]
    /\ UNCHANGED <<link, out, rlock, runs>>

\* The continuation of the write: releaseLock(), then getReader(), which throws
\* when another fibre is reading from the same socket.
StartRead(f) ==
    LET s == call[f].sock IN
    /\ call[f].st = "written"
    /\ wlock' = [wlock EXCEPT ![s] = None]
    /\ IF rlock[s] = None
       THEN /\ rlock' = [rlock EXCEPT ![s] = f]
            /\ call' = [call EXCEPT ![f].st = "reading"]
       ELSE /\ call' = [call EXCEPT ![f] = Done(f, Fault("TypeError"))]
            /\ UNCHANGED rlock
    /\ UNCHANGED <<rid, link, out, inb, runs>>

\* sendCommand() unlocks in a finally block; receive(), which reads without having
\* sent anything, only after a reply.
FinishRead(f, o) ==
    /\ call' = [call EXCEPT ![f] = Done(f, o)]
    /\ rlock' = IF f \in Receivers /\ call[f].req = None /\ ~ IsAnswer(o)
                THEN rlock ELSE [rlock EXCEPT ![call[f].sock] = None]
    /\ UNCHANGED <<link, out, wlock, runs>>

\* What can be decoded of a reply to r whose beginning is gone: a bulk string or an
\* integer inside it, text that reads like an error reply, or nothing, on an unknown
\* code (an InvalidStateError, although the stream is as good as before).
Fragments(r) == {Torn(r), ErrorReply(r), Fault("InvalidState")}

Decoded(a) == IF a.kind = "part" THEN Fragments(a.of) ELSE {a}

\* How many reads are left of a reply that a chunk ends in.
Pieces(a) == IF a.kind = "part" THEN a.left - 1 ELSE MaxPieces

\* What remains on the socket when q was waiting and a read has taken a chunk of it: the
\* chunk holds what the read decodes and more of it, to the end of the reply at k or to
\* somewhere inside the next.  All of it dies with that call's StreamBuffer.
AfterChunk(q) ==
    {SubSeq(q, k + 1, Len(q)) : k \in 1 .. Len(q)}
        \cup {<<Part(q[k].of, Pieces(q[k]))>> \o SubSeq(q, k + 1, Len(q)) :
                 k \in {i \in 1 .. Len(q) : Pieces(q[i]) > 0 /\ (i = 1 => q[i].kind = "part")}}

\* Slip: the bytes of the last reply of the chunk are not taken off.
ReadReply_OffByOne(f) ==
    LET s == call[f].sock IN
    /\ call[f].st = "reading"
    /\ rid[s] = "open"
    /\ \E k \in 1 .. Len(inb[s]) :
         inb' = [inb EXCEPT ![s] = SubSeq(@, k, Len(@))]
    /\ FinishRead(f, Head(inb[s]))
    /\ UNCHANGED rid

\* readReply() decodes the first of the bytes it was given.
ReadReply(f) ==
    LET s == call[f].sock IN
    /\ call[f].st = "reading"
    /\ rid[s] = "open" /\ inb[s] # <<>>
    /\ \E rest \in AfterChunk(inb[s]) : inb' = [inb EXCEPT ![s] = rest]
    /\ \E o \in Decoded(Head(inb[s])) : FinishRead(f, o)
    /\ UNCHANGED rid

\* Slip: the decoder waits on when the stream has ended.
ReadFails_WaitsOn(f) ==
    LET s == call[f].sock IN
    /\ call[f].st = "reading" /\ rid[s] = "closed"
    /\ FinishRead(f, Fault("BadResource"))
    /\ UNCHANGED <<rid, inb>>

\* The stream ends in the middle of a reply.  What readReply() makes of it depends on
\* its type: a line is taken for complete, an error's as well, a bulk string is an
\* InvalidStateError, a size without digits a RangeError, an array an EOFError.
CutShort(a) ==
    CASE a.kind = "value" -> {Torn(a.of), Fault("InvalidState"), Fault("RangeError")}
      [] a.kind = "errorReply" -> {a}
      [] OTHER -> Fragments(a.of)

\* The stream ends or breaks before a reply is complete.
ReadFails(f) ==
    LET s == call[f].sock IN
    /\ call[f].st = "reading"
    /\ \/ /\ rid[s] = "open" /\ link[s] = "cut"
          /\ \/ /\ rid' = [rid EXCEPT ![s] = "eof"]
                /\ FinishRead(f, Fault("EOF"))
             \/ /\ rid' = [rid EXCEPT ![s] = "eof"]
                /\ inb[s] # <<>>
                /\ \E o \in CutShort(Head(inb[s])) : FinishRead(f, o)
             \/ /\ rid' = [rid EXCEPT ![s] = "reset"]
                /\ FinishRead(f, Fault("ConnectionReset"))
          /\ inb' = [inb EXCEPT ![s] = <<>>]
       \/ /\ rid[s] \in {"eof", "reset", "closed"}
          /\ FinishRead(f, Fault(CASE rid[s] = "eof" -> "EOF"
                                   [] rid[s] = "reset" -> "ConnectionReset"
                                   [] OTHER -> "BadResource"))
          /\ UNCHANGED <<rid, inb>>
       \/ /\ rid[s] = "closed"
          /\ FinishRead(f, Fault("Interrupted"))
          /\ UNCHANGED <<rid, inb>>

CallStep(f) ==
    WriteOk(f) \/ WriteFails(f) \/ StartRead(f) \/ ReadReply(f) \/ ReadFails(f)

-----------------------------------------------------------------------------
(* The sockets and the server.                                             *)

\* A socket the server has just accepted.
IsFresh(s) == rid[s] = "unused" /\ \A t \in Sockets : t < s => rid[t] # "unused"

\* closer.close(): the BadResource of a resource closed before is swallowed.
\* The bytes that were not read are gone.
CloseSocket(s) ==
    IF s # NoSocket /\ rid[s] = "open"
    THEN /\ rid' = [rid EXCEPT ![s] = "closed"]
         /\ inb' = [inb EXCEPT ![s] = <<>>]
    ELSE UNCHANGED <<rid, inb>>

\* The server takes the next request of a socket, executes the commands ran, and answers
\* a.  It may still take what it had received from a client that is gone; that reply
\* reaches nobody.
Serves(s, ran, a) ==
    /\ out[s] # <<>>
    /\ out' = [out EXCEPT ![s] = Tail(@)]
    /\ runs' = [c \in Commands |-> IF c \in ran THEN runs[c] + 1 ELSE runs[c]]
    /\ inb' = IF link[s] = "up" /\ rid[s] = "open"
              THEN [inb EXCEPT ![s] = Append(@, a)] ELSE inb
    /\ UNCHANGED <<rid, link, wlock, rlock, call>>

Answers(r) == {Value(r)} \cup {ErrorReply(q) : q \in Rejectable \cap {r}}

\* The requests of a socket are executed in order.
ServerExec(s) ==
    /\ out[s] # <<>>
    /\ \E a \in Answers(Head(out[s])) : Serves(s, {Head(out[s])}, a)

\* The server restarts, drops the client, or the network between them fails.
LinkCut(s) ==
    /\ rid[s] = "open" /\ link[s] = "up"
    /\ link' = [link EXCEPT ![s] = "cut"]
    /\ UNCHANGED <<rid, out, inb, wlock, rlock, call, runs>>
=============================================================================
