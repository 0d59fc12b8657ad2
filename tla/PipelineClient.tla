--------------------------- MODULE PipelineClient ---------------------------
(***************************************************************************)
(* pipeline.ts: pipelines and transactions of a client.  A pipeline keeps  *)
(* its commands to itself until flush(), which then sends them one by one  *)
(* with sendCommands() on the streams of the client's connection: it does  *)
(* not pass through the queue of the executor that uses the same streams.  *)
(***************************************************************************)
EXTENDS MuxExecutor, FiniteSets

CONSTANTS
    Pipes,     \* pipelines
    Txs,       \* those made by tx(): MULTI and EXEC around the commands
    OwnerOf,   \* the pipeline each command is given to, or None: the executor
    Flushes,   \* the calls of flush(), each a fibre of its own, numbered
    PipeOf,    \* the pipeline each of them flushes
    MaxCuts,   \* bound: how many links fail
    MaxCalls   \* bound: how many flush() and commands of the executor there are

ASSUME PipelineAssumption ==
    /\ Flushes \subseteq Nat /\ Flushes \subseteq Fibers \ (Receivers \cup {Mux})
    /\ Txs \subseteq Pipes
    /\ OwnerOf \in [Commands -> Pipes \cup {None}]
    /\ PipeOf \in [Flushes -> Pipes] /\ MaxCuts \in Nat /\ MaxCalls \in Nat
    /\ {"MULTI", "EXEC"} \subseteq Requests \ (Commands \cup Rejectable)

VARIABLES
    commands,   \* this.commands of each pipeline
    given,      \* history: the commands that were ever given to a pipeline
    batch,      \* the requests each flush()'s sendCommands() goes through
    results     \* what it has collected; then what flush() settled with

pipeVars == <<commands, given, batch, results>>

VARIABLES
    multi,      \* the server: whether a socket is inside MULTI, and if EXEC can succeed
    inside      \* the server: the requests queued there for EXEC

serverVars == <<multi, inside>>

(* Histories that only the properties read.                                *)
VARIABLES
    overlapped, \* a flush() was not alone on the connection
    crossed,    \* two flush() of transactions were under way at once
    loose       \* the commands of transactions the server executed outside MULTI

histories == <<overlapped, crossed, loose>>

vars == <<wireVars, connVars, muxVars, pipeVars, serverVars, histories>>

Init ==
    /\ MuxInit
    /\ rid = [s \in Sockets |-> IF s = 1 THEN "open" ELSE "unused"]
    /\ link = [s \in Sockets |-> "up"]
    /\ out = [s \in Sockets |-> <<>>] /\ inb = [s \in Sockets |-> <<>>]
    /\ wlock = [s \in Sockets |-> None] /\ rlock = [s \in Sockets |-> None]
    /\ call = [f \in Fibers |-> NoCall] /\ runs = [c \in Commands |-> 0]
    /\ cur = 1 /\ isClosed = FALSE /\ isConnected = TRUE /\ retryCount = 0
    /\ task = [f \in Fibers |-> NoTask]
    /\ commands = [p \in Pipes |-> <<>>]
    /\ given = {}
    /\ batch = [f \in Flushes |-> <<>>]
    /\ results = [f \in Flushes |-> <<>>]
    /\ multi = [s \in Sockets |-> "off"]
    /\ inside = [s \in Sockets |-> {}]
    /\ overlapped = FALSE /\ crossed = FALSE /\ loose = {}

-----------------------------------------------------------------------------

Flushing(f) == call[f].st # "idle"

SomeFlush == \E f \in Flushes : Flushing(f)

IsTx(f) == PipeOf[f] \in Txs

\* The callers may begin one more activity on the connection.
MayCall ==
    Cardinality({f \in Flushes : batch[f] # <<>>})
      + Cardinality({c \in Commands : OwnerOf[c] = None /\ Issued(c)}) < MaxCalls

\* Call f of flush() has not been made, and those of its pipeline before it have.
NextCall(f) ==
    /\ batch[f] = <<>>
    /\ \A g \in Flushes : g < f /\ PipeOf[g] = PipeOf[f] => batch[g] # <<>>

\* exec() of a pipeline: the command waits, its promise is resolved.
PipeExec(p, c) ==
    /\ OwnerOf[c] = p /\ c \notin given
    /\ given' = given \cup {c}
    /\ commands' = [commands EXCEPT ![p] = Append(@, c)]
    /\ UNCHANGED <<wireVars, connVars, muxVars, batch, results, serverVars, histories>>

\* What a flush() of the pipeline sends now.
ToFlush(p) == IF p \in Txs THEN <<"MULTI">> \o commands[p] \o <<"EXEC">> ELSE commands[p]

\* Slip: flush() does not take the commands it sends away from the pipeline.
Flush_KeepsCommands(f) ==
    LET list == ToFlush(PipeOf[f]) IN
    /\ MayCall /\ NextCall(f)
    /\ list # <<>>
    /\ batch' = [batch EXCEPT ![f] = list]
    /\ results' = [results EXCEPT ![f] = <<>>]
    /\ UNCHANGED commands
    /\ Send(f, cur, Head(list), wlock)
    /\ overlapped' = (overlapped \/ isProcessing \/ SomeFlush)
    /\ crossed' = (crossed \/ (IsTx(f) /\ \E g \in Flushes : Flushing(g) /\ IsTx(g)))
    /\ UNCHANGED <<rid, link, out, inb, rlock, runs, connVars, muxVars, given,
                   serverVars, loose>>

\* flush(), whatever else uses the connection: take the commands, and send the first
\* request on the streams the connection has now; an empty pipeline sends nothing.
Flush(f) ==
    LET list == ToFlush(PipeOf[f]) IN
    /\ MayCall /\ NextCall(f)
    /\ list # <<>>
    /\ batch' = [batch EXCEPT ![f] = list]
    /\ results' = [results EXCEPT ![f] = <<>>]
    /\ commands' = [commands EXCEPT ![PipeOf[f]] = <<>>]
    /\ Send(f, cur, Head(list), wlock)
    /\ overlapped' = (overlapped \/ isProcessing \/ SomeFlush)
    /\ crossed' = (crossed \/ (IsTx(f) /\ \E g \in Flushes : Flushing(g) /\ IsTx(g)))
    /\ UNCHANGED <<rid, link, out, inb, rlock, runs, connVars, muxVars, given,
                   serverVars, loose>>

\* Slip: the results are collected newest first.
PipeCollects_Reversed(f) ==
    /\ CallDone(f) /\ call[f].res.kind # "fault"
    /\ results' = [results EXCEPT ![f] = <<call[f].res>> \o @]
    /\ IF Len(results'[f]) < Len(batch[f])
       THEN Send(f, call[f].sock, batch[f][Len(results'[f]) + 1], wlock)
       ELSE EndCall(f)
    /\ UNCHANGED <<rid, link, out, inb, rlock, runs, connVars, muxVars, commands, given, batch,
                   serverVars, histories>>

\* Slip: the streams are asked of the connection again for every request.
PipeCollects_OnCurrent(f) ==
    /\ CallDone(f) /\ call[f].res.kind # "fault"
    /\ results' = [results EXCEPT ![f] = Append(@, call[f].res)]
    /\ IF Len(results'[f]) < Len(batch[f])
       THEN Send(f, cur, batch[f][Len(results'[f]) + 1], wlock)
       ELSE EndCall(f)
    /\ UNCHANGED <<rid, link, out, inb, rlock, runs, connVars, muxVars, commands, given, batch,
                   serverVars, histories>>

\* sendCommands() has a reply, or an ErrorReplyError which it collects as well;
\* the next request goes to the streams that flush() was started with.
PipeCollects(f) ==
    /\ CallDone(f) /\ call[f].res.kind # "fault"
    /\ results' = [results EXCEPT ![f] = Append(@, call[f].res)]
    /\ IF Len(results'[f]) < Len(batch[f])
       THEN Send(f, call[f].sock, batch[f][Len(results'[f]) + 1], wlock)
       ELSE EndCall(f)
    /\ UNCHANGED <<rid, link, out, inb, rlock, runs, connVars, muxVars, commands, given, batch,
                   serverVars, histories>>

\* It threw anything else: flush() rejects and the rest is never sent.
PipeThrows(f) ==
    /\ CallDone(f) /\ call[f].res.kind = "fault"
    /\ results' = [results EXCEPT ![f] = Append(@, call[f].res)]
    /\ EndCall(f)
    /\ UNCHANGED <<rid, link, out, inb, rlock, runs, connVars, muxVars, commands, given, batch,
                   serverVars, histories>>

PipeStep(f) ==
    \/ CallStep(f) /\ UNCHANGED <<connVars, muxVars, pipeVars, serverVars, histories>>
    \/ PipeCollects(f) \/ PipeThrows(f)

-----------------------------------------------------------------------------
(* The executor's callers.  Its exec() queues behind the executor's own    *)
(* commands, but knows nothing of a flush() that is under way.             *)

UserExec(c) ==
    /\ MayCall /\ OwnerOf[c] = None
    /\ \/ Exec(c) /\ overlapped' = (overlapped \/ SomeFlush)
       \/ ExecRefused(c) /\ UNCHANGED overlapped
    /\ UNCHANGED <<pipeVars, serverVars, crossed, loose>>

UserClose ==
    /\ CloseNow
    /\ UNCHANGED <<link, out, wlock, rlock, call, runs, cur, retryCount, task, muxVars,
                   pipeVars, serverVars, histories>>

-----------------------------------------------------------------------------
(* The server's side of MULTI and EXEC.                                    *)

\* MULTI does not nest; whether a second one spoils the first is the server's affair.
ServeMulti(s) ==
    /\ Head(out[s]) = "MULTI"
    /\ IF multi[s] = "off"
       THEN /\ multi' = [multi EXCEPT ![s] = "on"]
            /\ Serves(s, {}, Value("MULTI"))
       ELSE /\ multi' \in {multi, [multi EXCEPT ![s] = "spoilt"]}
            /\ Serves(s, {}, ErrorReply("MULTI"))
    /\ UNCHANGED <<inside, loose>>

\* What a socket sends inside MULTI waits for EXEC; a request that is refused spoils it.
ServeQueued(s) ==
    LET r == Head(out[s]) IN
    /\ r \notin {"MULTI", "EXEC"} /\ multi[s] # "off"
    /\ \E a \in Answers(r) :
         /\ Serves(s, {}, a)
         /\ IF a = Value(r)
            THEN inside' = [inside EXCEPT ![s] = @ \cup {r}] /\ UNCHANGED multi
            ELSE multi' = [multi EXCEPT ![s] = "spoilt"] /\ UNCHANGED inside
    /\ UNCHANGED loose

\* EXEC executes all of it, or nothing.
ServeExec(s) ==
    /\ Head(out[s]) = "EXEC"
    /\ IF multi[s] = "on" THEN Serves(s, inside[s], Value("EXEC"))
                          ELSE Serves(s, {}, ErrorReply("EXEC"))
    /\ multi' = [multi EXCEPT ![s] = "off"]
    /\ inside' = [inside EXCEPT ![s] = {}]
    /\ UNCHANGED loose

InTx(r) == r \in Commands /\ OwnerOf[r] \in Txs

ServeNow(s) ==
    LET r == Head(out[s]) IN
    /\ r \notin {"MULTI", "EXEC"} /\ multi[s] = "off"
    /\ ServerExec(s)
    /\ loose' = IF InTx(r) THEN loose \cup {r} ELSE loose
    /\ UNCHANGED serverVars

Exchange(s) ==
    /\ out[s] # <<>>
    /\ ServeMulti(s) \/ ServeQueued(s) \/ ServeExec(s) \/ ServeNow(s)
    /\ UNCHANGED <<connVars, muxVars, pipeVars, overlapped, crossed>>

Cut(s) ==
    /\ Cardinality({t \in Sockets : link[t] = "cut"}) < MaxCuts
    /\ LinkCut(s)
    /\ UNCHANGED <<connVars, muxVars, pipeVars, serverVars, histories>>

-----------------------------------------------------------------------------

Fibre ==
    \/ CallStep(Mux) /\ UNCHANGED <<connVars, muxVars, pipeVars, serverVars, histories>>
    \/ ConnStep(Mux) /\ UNCHANGED <<muxVars, pipeVars, serverVars, histories>>
    \/ MuxStep /\ UNCHANGED <<pipeVars, serverVars, histories>>
    \/ \E f \in Flushes : PipeStep(f)

Next ==
    \/ Fibre
    \/ UserClose
    \/ \E c \in Commands : UserExec(c)
    \/ \E p \in Pipes, c \in Commands : PipeExec(p, c)
    \/ \E f \in Flushes : Flush(f)
    \/ \E s \in Sockets : Exchange(s) \/ Cut(s)

Fairness ==
    /\ WF_vars(Fibre)
    /\ \A s \in Sockets : WF_vars(link[s] = "up" /\ Exchange(s))

Spec == Init /\ [][Next]_vars
FairSpec == Spec /\ Fairness

-----------------------------------------------------------------------------
(* Nothing keeps a flush() and the executor, or two flush(), apart on the  *)
(* streams they share.  The first three properties are about callers who   *)
(* do: while nothing has overlapped.  The last two hold whatever the       *)
(* callers do.                                                             *)

\* Every result of a flush() is the reply to the request at its place, and
\* nothing is sent after an exception: results[i] of pipeline_test.ts.
ResultsMatchCommands ==
    ~ overlapped =>
      \A f \in Flushes : \A i \in DOMAIN results[f] :
        /\ i <= Len(batch[f])
        /\ results[f][i].kind = "fault" \/ results[f][i].of = batch[f][i]
        /\ results[f][i].kind = "fault" => i = Len(results[f])

\* A promise of the executor settles with its own reply, or with an error: an
\* exception, or the error reply to a request of reconnect() itself; never with
\* the reply to a request of a pipeline on the same streams.
NoForeignReply ==
    ~ overlapped =>
      \A c \in Commands : settled[c] # None =>
        \/ settled[c].kind = "fault"
        \/ settled[c].of = c
        \/ settled[c].kind = "errorReply" /\ settled[c].of \in {"PING", "AUTH", "SELECT", "SETNAME"}

\* Every flush() settles; while nothing has overlapped there is one at a time.
EveryFlushSettles == SomeFlush ~> (~ SomeFlush \/ overlapped)

\* README.md:166, "Execute all commands atomically", where it is true.  The server
\* executes no command of a transaction outside its MULTI, whatever the executor, other
\* pipelines and reconnections do in between (command.ts:96), unless two transactions
\* are flushed at once.  And when nothing overlaps, the commands of a transaction are
\* executed all or not at all, wherever its flush() ends.
TxIsAtomic ==
    /\ ~ crossed => loose = {}
    /\ ~ overlapped =>
         \A f \in Flushes : IsTx(f) =>
           \A i, j \in 2 .. Len(batch[f]) - 1 : runs[batch[f][i]] = runs[batch[f][j]]

\* A command given to a pipeline is executed at most once, however often and however
\* closely the pipeline is flushed: flush() takes the commands before it awaits.
EachCommandOnce == \A c \in Commands : OwnerOf[c] # None => runs[c] <= 1
=============================================================================
