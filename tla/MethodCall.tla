------------------------------- MODULE MethodCall -------------------------------
(***************************************************************************)
(* One call of a command method, from its arguments to the bytes on the    *)
(* wire: the method of redis.ts builds the request, sendCommand() of       *)
(* protocol/command.ts encodes it when the executor's turn has come.       *)
(*                                                                         *)
(* The calls are those that command.ts declares, with every combination of *)
(* the optional parameters, lists of 0..MaxList elements, at most one      *)
(* falsy argument (zero, the empty string, false) and texts whose bytes    *)
(* outnumber their characters.  The public sendCommand() is called with    *)
(* any of its arguments undefined.                                         *)
(***************************************************************************)
EXTENDS CommandTypes, CommandMethods, Integers, SequencesExt

CONSTANT MaxList

ASSUME MaxListAssumption == MaxList \in Nat \ {0}

VARIABLES
    call,       \* the call: its method and its arguments
    stage,      \* "called", "built", "written" or "thrown"
    args,       \* the request as it is given to exec()
    request     \* the chunk that is written: its item count and its frames

vars == <<call, stage, args, request>>

---------------------------------------------------------------------------
(* Calls *)

Scalars(d) == (ToSet(d.req) \cup d.opt) \ (Lists \cup Enums)

DeclaredCalls ==
    UNION {UNION {
        {[method |-> m, req |-> d.req, given |-> ToSet(d.req) \cup o, zero |-> z, size |-> n,
          wide |-> w, holes |-> {}] :
            o \in SUBSET d.opt, z \in {{}} \cup {{p} : p \in Scalars(d)},
            n \in 0..MaxList, w \in BOOLEAN} : d \in Declared[m]} : m \in DOMAIN Declared}

\* sendCommand(command, ...args), some of the args undefined or null.
RawCalls ==
    {[method |-> "sendCommand", req |-> <<"command", "args">>, given |-> {"command", "args"},
      zero |-> {}, size |-> n, wide |-> w, holes |-> h] :
        n \in 0..MaxList, w \in BOOLEAN, h \in SUBSET (1..MaxList)}

Calls ==
    {c \in DeclaredCalls : /\ c.zero \subseteq c.given
                          /\ c.given \cap Lists = {} => c.size = 1}
    \cup {c \in RawCalls : c.holes \subseteq 1..c.size}

---------------------------------------------------------------------------
(* Building the request *)

Token(text, n) == [text |-> text, nth |-> n]
Undefined == Token("undefined", 0)

\* Whether a part of the request is sent: its if statement.
Holds(part, c) ==
    /\ part.unless \cap c.given = {}
    /\ part.of \subseteq c.given
    /\ part.when = "truthy" => part.of \cap c.zero = {}

Item(item, c) ==
    IF item = "#keys" THEN <<Token("#keys", c.size)>>
    ELSE IF item \in Lists
         THEN [i \in 1..c.size |-> IF i \in c.holes THEN Undefined ELSE Token(item, i)]
         ELSE <<Token(item, 0)>>

Spread(part, c) ==
    IF part.each
    THEN FlattenSeq([i \in 1..c.size |-> <<Token(part.items[1], 0), Token(part.items[2], i)>>])
    ELSE FlattenSeq([i \in DOMAIN part.items |-> Item(part.items[i], c)])

BodyOf(c) == IF c.method = "sendCommand" THEN Cmd(<<"command", "args">>) ELSE Methods[c.method]

RequestOf(c) ==
    FlattenSeq([i \in DOMAIN BodyOf(c) |-> IF Holds(BodyOf(c)[i], c) THEN Spread(BodyOf(c)[i], c) ELSE <<>>])

\* monitor() and sync() are not supported, clientList() refuses both of its options.
Throws(c) ==
    \/ c.method \in {"monitor", "sync"}
    \/ c.method = "clientList" /\ {"type", "ids"} \subseteq c.given

---------------------------------------------------------------------------
(* Encoding it: _writeCommand *)

Characters(t) == 1
Bytes(t, c) == IF c.wide /\ t.text \in Texts THEN 2 ELSE 1

Frame(t, announced, c) == [token |-> t, announced |-> announced, bytes |-> Bytes(t, c)]

\* The slip: the items are counted before the undefined ones are left out.
Encoded_CountsAll(c, as) ==
    LET _args == SelectSeq(Tail(as), LAMBDA t : t # Undefined)
    IN  [count |-> 1 + Len(Tail(as)),
         frames |-> <<Frame(Head(as), Characters(Head(as)), c)>>
                    \o [i \in DOMAIN _args |-> Frame(_args[i], Bytes(_args[i], c), c)]]

Encoded(c, as) ==
    LET _args == SelectSeq(Tail(as), LAMBDA t : t # Undefined)
    IN  [count |-> 1 + Len(_args),
         frames |-> <<Frame(Head(as), Characters(Head(as)), c)>>
                    \o [i \in DOMAIN _args |-> Frame(_args[i], Bytes(_args[i], c), c)]]

---------------------------------------------------------------------------
Init ==
    /\ call \in Calls
    /\ stage = "called"
    /\ args = <<>>
    /\ request = [count |-> 0, frames |-> <<>>]

\* The method runs up to executor.exec(command, ...args).
BuildRequest ==
    /\ stage = "called" /\ ~Throws(call)
    /\ args' = RequestOf(call)
    /\ stage' = "built"
    /\ UNCHANGED <<call, request>>

Refuse ==
    /\ stage = "called" /\ Throws(call)
    /\ stage' = "thrown"
    /\ UNCHANGED <<call, args, request>>

\* writeRequest(): the whole request is one chunk.
WriteRequest ==
    /\ stage = "built"
    /\ request' = Encoded(call, args)
    /\ stage' = "written"
    /\ UNCHANGED <<call, args>>

Next == BuildRequest \/ Refuse \/ WriteRequest

Spec == Init /\ [][Next]_vars

---------------------------------------------------------------------------
(* Properties *)

\* What the server finds in the chunk, frame by frame.
Received == [i \in DOMAIN request.frames |-> request.frames[i].token]
Places(p) == {i \in DOMAIN Received : Received[i].text = p}

\* The chunk announces as many items as it holds and as many bytes for each as it has: with
\* less the server would take the rest for the next request, with more it would wait for ever,
\* and every command after this one on the connection with it.
WellFramed ==
    stage = "written" =>
        /\ request.count = Len(request.frames)
        /\ \A i \in DOMAIN request.frames : request.frames[i].announced = request.frames[i].bytes

\* The options that redis.ts tests for their truth: a zero, or an empty text, is not sent.
LostWhenZero(m) ==
    CASE m = "clientKill" -> {"addr", "laddr", "id", "user"}
      [] m = "clientTracking" -> {"redirect"}
      [] m = "ping" -> {"message"}
      [] m = "stralgo" -> {"minmatchlen"}
      [] m = "xclaim" -> {"idle", "time", "retryCount"}
      [] m = "xpendingCount" -> {"consumer"}
      [] m \in {"xread", "xreadgroup"} -> {"count", "block"}
      [] m \in {"xrange", "xrevrange", "xinfoStreamFull"} -> {"count"}
      [] OTHER -> {}

\* Every argument of a call that command.ts declares reaches the server, and reaches it once:
\* a list with all its elements, a zero like any other number, in every combination of the
\* optional parameters (PX beside EX and the options above apart).
ArgumentsArrive ==
    stage = "written" /\ call.holes = {} =>
        \A p \in call.given \ Flags :
            \/ p \in call.zero \cap LostWhenZero(call.method)
            \/ call.method = "set" /\ p = "px" /\ "ex" \in call.given
            \/ Cardinality(Places(p)) = (IF p \in Lists THEN call.size ELSE 1)

\* The methods whose declared order is not Redis' own: the timeout of a blocking command comes
\* last, as do the keys and ids of XREAD, and an option that its overload requires comes early.
OwnOrder == {"blpop", "brpop", "bzpopmin", "bzpopmax", "xreadgroup", "xadd", "xtrim"}

\* Positional arguments keep the order in which the method takes them: nothing else tells the
\* server a key from a value, a destination from a source.
ArgumentsInOrder ==
    stage = "written" /\ call.method \notin OwnOrder =>
        \A a, b \in DOMAIN call.req : a < b =>
            \A i \in Places(call.req[a]), j \in Places(call.req[b]) : i < j

\* The calls without a falsy argument, and what the server can tell of a request: its words,
\* its enumerated values, and that there is some argument at a place.
PlainCalls ==
    {c \in Calls : /\ c.method # "sendCommand" /\ ~Throws(c)
                   /\ c.zero = {} /\ ~c.wide
                   /\ c.given \cap Lists # {} => c.size = MaxList}

Shape(c) ==
    LET r == RequestOf(c)
        values == c.given \ Enums
    IN  [i \in DOMAIN r |-> IF r[i].text \in values THEN "*" ELSE r[i].text]

Shapes == [c \in PlainCalls |-> Shape(c)]
FirstWords == [w \in {Shapes[c][1] : c \in PlainCalls} |-> {c \in PlainCalls : Shapes[c][1] = w}]

\* SET takes one expiry; GEORADIUS is sent without the words COUNT, STORE and STOREDIST.
Confused(c) ==
    \/ c.method = "set" /\ {"ex", "px"} \subseteq c.given
    \/ c.method \in {"georadius", "georadiusbymember"} /\ c.given \cap {"count", "store", "storeDist"} # {}

\* No two calls send the same request: each method has words of its own, and each option a
\* word or a value that no other option has at its place.
CallsToldApart ==
    stage = "written" /\ call \in PlainCalls /\ ~Confused(call) =>
        \A c \in FirstWords[Shapes[call][1]] :
            c # call /\ ~Confused(c) => Shapes[c] # Shapes[call]

=============================================================================
