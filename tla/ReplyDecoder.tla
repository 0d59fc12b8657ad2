---------------------------- MODULE ReplyDecoder ----------------------------
(***************************************************************************)
(* protocol/reply.ts: readReply() over a stream that arrives in chunks cut *)
(* anywhere and may end anywhere.  A byte is a symbol; each action is one  *)
(* call of StreamBuffer (peek, readLine, readBytes), which reads on while  *)
(* the buffer holds less than it needs.  Arrays nest: `stack` holds those  *)
(* whose elements are being read.                                          *)
(***************************************************************************)
EXTENDS Integers, Sequences, SequencesExt

CONSTANTS
    Symbols,    \* the bytes
    Replies,    \* the replies there are, the elements of arrays included
    Depth,      \* how deep each of them nests
    Sent,       \* those a server may send first
    NextBytes,  \* what it may send after it
    Safe,       \* the bound of integers and of sizes: a double holds them, new Array() takes them
    NaN         \* what parseInt() makes of a line without digits

VARIABLES
    sent,     \* the reply on the wire, and how many bytes of the stream there are
    rest,     \* bytes the socket has not delivered yet
    ends,     \* the stream ends after them; otherwise it stays open
    eof,      \* read() has said so
    buf,      \* StreamBuffer.buffer
    pc,       \* the call of StreamBuffer the decoder is in
    code,     \* the type of the reply it decodes
    size,     \* of the bulk string it reads
    data,     \* the bytes of that string
    stack,    \* the arrays around it: how many elements, those decoded so far
    result    \* what readReply() returns or throws

vars == <<sent, rest, ends, eof, buf, pc, code, size, data, stack, result>>

-----------------------------------------------------------------------------
(* Replies and their encoding, as a server writes them.                    *)

CRLF == <<"CR", "LF">>
Digits == <<"0", "1", "2", "3", "4", "5", "6", "7", "8", "9">>
Numeral[n \in 0..Safe] ==
    IF n < 10 THEN <<Digits[n + 1]>> ELSE Append(Numeral[n \div 10], Digits[(n % 10) + 1])
Decimal(n) == IF n < 0 THEN <<"-">> \o Numeral[-n] ELSE Numeral[n]
Pending == [is |-> "pending"]

Status(b) == [is |-> "+", body |-> b]
Integer(n) == [is |-> ":", body |-> n]
Bulk(b) == [is |-> "$", body |-> b]
Array(s) == [is |-> "*", body |-> s]
Error(b) == [is |-> "-", body |-> b]
Nil == [is |-> "nil"]
NilArray == [is |-> "nilArray"]

\* A line holds neither CR nor LF, a bulk string anything; a number is one that a double
\* holds exactly, an array nests deeper than each of its elements.
IsReply(r) ==
    CASE r.is \in {"+", "-"} -> r \in [is : {r.is}, body : Seq(Symbols \ ToSet(CRLF))]
      [] r.is = ":" -> r \in [is : {":"}, body : -Safe..Safe]
      [] r.is = "$" -> r \in [is : {"$"}, body : Seq(Symbols)] /\ Len(r.body) <= Safe
      [] r.is = "*" -> /\ r \in [is : {"*"}, body : Seq(Replies)] /\ Len(r.body) <= Safe
                       /\ \A i \in DOMAIN r.body : Depth[r.body[i]] < Depth[r]
      [] OTHER -> r \in {Nil, NilArray}

ASSUME ReplyAssumption ==
    /\ {"+", "-", ":", "$", "*"} \cup ToSet(CRLF) \cup ToSet(Digits) \subseteq Symbols
    /\ Sent \subseteq Replies /\ NextBytes \subseteq Seq(Symbols)
    /\ Depth \in [Replies -> Nat] /\ \A r \in Replies : IsReply(r)
    /\ Safe \in Nat \ {0} /\ NaN \notin Int

FirstLine(r) ==
    CASE r.is \in {"+", "-"} -> <<r.is>> \o r.body
      [] r.is = ":" -> <<":">> \o Decimal(r.body)
      [] r.is \in {"$", "*"} -> <<r.is>> \o Decimal(Len(r.body))
      [] r.is = "nil" -> <<"$">> \o Decimal(-1)
      [] r.is = "nilArray" -> <<"*">> \o Decimal(-1)

Encode[r \in Replies] ==
    FirstLine(r) \o CRLF \o
        IF r.is = "*" THEN FlattenSeq([i \in DOMAIN r.body |-> Encode[r.body[i]]])
        ELSE IF r.is = "$" THEN r.body \o CRLF
        ELSE <<>>

-----------------------------------------------------------------------------
(* What the caller of readReply() gets.                                    *)

ValueOf[r \in Replies] ==
    CASE r.is = "*" -> Array([i \in DOMAIN r.body |-> ValueOf[r.body[i]]])
      [] r.is = "nilArray" -> Nil
      [] OTHER -> r

Throws(e) == [is |-> "throws", body |-> e]
IsValue(o) == o.is \notin {"pending", "throws", "-"}

\* parseInt(): an optional sign and the digits that follow.
IsDigit(b) == b \in ToSet(Digits)
Leading(t) ==
    CHOOSE k \in 0 .. Len(t) :
        (\A i \in 1..k : IsDigit(t[i])) /\ (k = Len(t) \/ ~ IsDigit(t[k + 1]))
DigitOf(b) == CHOOSE d \in 0..9 : Digits[d + 1] = b
Number(t) ==
    LET val[i \in 0..Len(t)] == IF i = 0 THEN 0 ELSE 10 * val[i - 1] + DigitOf(t[i])
    IN  val[Len(t)]
ParseInt(s) ==
    LET signed == s # <<>> /\ Head(s) = "-"
        t == IF signed THEN Tail(s) ELSE s
        n == Number(SubSeq(t, 1, Leading(t)))
    IN  IF Leading(t) = 0 THEN NaN ELSE IF signed THEN -n ELSE n

-----------------------------------------------------------------------------
(* StreamBuffer.                                                           *)

\* Slip: `i < data.length - 2`.
FindCRLF_OffByOne(b) ==
    LET at == {i \in 1 .. Len(b) - 2 : b[i] = "CR" /\ b[i + 1] = "LF"}
    IN  IF at = {} THEN 0 ELSE CHOOSE i \in at : \A j \in at : i <= j

\* Where the first CRLF begins, 0 if there is none.
FindCRLF(b) ==
    LET at == {i \in 1 .. Len(b) - 1 : b[i] = "CR" /\ b[i + 1] = "LF"}
    IN  IF at = {} THEN 0 ELSE CHOOSE i \in at : \A j \in at : i <= j

\* All the elements of the innermost array are there.
ArrayIsComplete == stack # <<>> /\ Len(Last(stack).got) = Last(stack).want

\* How many bytes readBytes() and peek() ask for.
Wanted == CASE pc = "peek" -> IF ArrayIsComplete THEN 0 ELSE 1
            [] pc = "body" -> size
            [] OTHER -> 2

\* The call under way can go on with what the buffer holds.
Satisfied == IF pc = "line" THEN FindCRLF(buf) # 0 ELSE Len(buf) >= Wanted

\* readLine(): up to the CRLF; all there is when the stream has ended.
Line == IF FindCRLF(buf) = 0 THEN buf ELSE SubSeq(buf, 1, FindCRLF(buf) - 1)

\* Slip: the line feed stays in the buffer.
AfterLine_KeepsLF ==
    IF FindCRLF(buf) = 0 THEN <<>> ELSE SubSeq(buf, FindCRLF(buf) + 1, Len(buf))

AfterLine == IF FindCRLF(buf) = 0 THEN <<>> ELSE SubSeq(buf, FindCRLF(buf) + 2, Len(buf))

\* reader.read() resolves with a chunk.
Fill ==
    /\ result = Pending /\ ~ Satisfied /\ ~ eof
    /\ \E k \in 1 .. Len(rest) :
         /\ buf' = buf \o SubSeq(rest, 1, k)
         /\ rest' = SubSeq(rest, k + 1, Len(rest))
    /\ UNCHANGED <<sent, ends, eof, pc, code, size, data, stack, result>>

\* It resolves with done.
Ended ==
    /\ result = Pending /\ ~ Satisfied /\ ~ eof
    /\ rest = <<>> /\ ends
    /\ eof' = TRUE
    /\ UNCHANGED <<sent, rest, ends, buf, pc, code, size, data, stack, result>>

CanGoOn(at) == result = Pending /\ pc = at /\ (Satisfied \/ eof)

-----------------------------------------------------------------------------
(* readReply() and the decoders of the reply types.                        *)

\* A reply is decoded: the result, or the next element of the array around it.
Deliver(v) ==
    IF stack = <<>>
    THEN result' = v /\ UNCHANGED <<pc, stack>>
    ELSE /\ stack' = [stack EXCEPT ![Len(stack)].got = Append(@, v)]
         /\ pc' = "peek"
         /\ UNCHANGED result

Throw(e) == result' = Throws(e) /\ UNCHANGED <<pc, stack>>

\* Slip: the end of the stream ends the array.
Peek_EndsArray ==
    /\ CanGoOn("peek") /\ ~ ArrayIsComplete
    /\ IF buf = <<>> THEN /\ result' = IF stack = <<>> THEN Throws("EOF")
                                         ELSE Array(Last(stack).got)
                          /\ UNCHANGED <<pc, stack, code>>
       ELSE IF Head(buf) = "-" /\ stack # <<>> THEN Throw("InvalidState") /\ UNCHANGED code
       ELSE pc' = "line" /\ code' = Head(buf) /\ UNCHANGED <<stack, result>>
    /\ UNCHANGED <<sent, rest, ends, eof, buf, size, data>>

\* The type byte.  An element that is an error is of no known type.
Peek ==
    /\ CanGoOn("peek") /\ ~ ArrayIsComplete
    /\ IF buf = <<>> THEN Throw("EOF") /\ UNCHANGED code
       ELSE IF Head(buf) = "-" /\ stack # <<>> THEN Throw("InvalidState") /\ UNCHANGED code
       ELSE pc' = "line" /\ code' = Head(buf) /\ UNCHANGED <<stack, result>>
    /\ UNCHANGED <<sent, rest, ends, eof, buf, size, data>>

\* A reply of one line.
ReadSimple ==
    /\ CanGoOn("line") /\ code \in {"+", ":", "-"}
    /\ buf' = AfterLine
    /\ CASE code = "+" -> Deliver(Status(Tail(Line)))
         [] code = ":" -> Deliver(Integer(ParseInt(Tail(Line))))
         [] code = "-" -> result' = Error(Tail(Line)) /\ UNCHANGED <<pc, stack>>
    /\ UNCHANGED <<sent, rest, ends, eof, code, size, data>>

\* The size of a bulk string.  readBytes(NaN) reads nothing, like readBytes(0).
ReadBulkSize ==
    /\ CanGoOn("line") /\ code = "$"
    /\ buf' = AfterLine
    /\ LET n == ParseInt(Tail(Line)) IN
         IF n # NaN /\ n < 0
         THEN Deliver(Nil) /\ UNCHANGED size
         ELSE /\ size' = IF n = NaN THEN 0 ELSE n
              /\ pc' = "body"
              /\ UNCHANGED <<stack, result>>
    /\ UNCHANGED <<sent, rest, ends, eof, code, data>>

\* Its bytes, whatever they are; then the CRLF, which must be one.
ReadBulk ==
    /\ CanGoOn("body") \/ CanGoOn("crlf")
    /\ IF Len(buf) < Wanted THEN Throw("InvalidState") /\ UNCHANGED <<buf, data>>
       ELSE /\ buf' = SubSeq(buf, Wanted + 1, Len(buf))
            /\ LET bytes == SubSeq(buf, 1, Wanted) IN
                 IF pc = "body"
                 THEN pc' = "crlf" /\ data' = bytes /\ UNCHANGED <<stack, result>>
                 ELSE /\ IF bytes = CRLF THEN Deliver(Bulk(data)) ELSE Throw("InvalidState")
                      /\ UNCHANGED data
    /\ UNCHANGED <<sent, rest, ends, eof, code, size>>

\* The number of elements of an array; new Array() of no length is a RangeError.
ReadArraySize ==
    /\ CanGoOn("line") /\ code = "*"
    /\ buf' = AfterLine
    /\ LET n == ParseInt(Tail(Line)) IN
         CASE n = NaN \/ n < -1 -> Throw("RangeError")
           [] n = -1 -> Deliver(Nil)
           [] OTHER -> /\ stack' = Append(stack, [want |-> n, got |-> <<>>])
                       /\ pc' = "peek"
                       /\ UNCHANGED result
    /\ UNCHANGED <<sent, rest, ends, eof, code, size, data>>

\* The last element is there.
ArrayDone ==
    /\ CanGoOn("peek") /\ ArrayIsComplete
    /\ LET array == Array(Last(stack).got)
           around == Front(stack)
       IN  IF around = <<>>
           THEN result' = array /\ UNCHANGED stack
           ELSE /\ stack' = [around EXCEPT ![Len(around)].got = Append(@, array)]
                /\ UNCHANGED result
    /\ UNCHANGED <<sent, rest, ends, eof, buf, pc, code, size, data>>

-----------------------------------------------------------------------------

\* The bytes on the wire: the reply and what follows, all or a part of them.
Bytes == Encode[sent.reply] \o sent.after
Whole == sent.length >= Len(Encode[sent.reply])

Init ==
    /\ \E r \in Sent, a \in NextBytes :
         \E n \in 0 .. Len(Encode[r] \o a) :
            /\ sent = [reply |-> r, after |-> a, length |-> n]
            /\ rest = SubSeq(Encode[r] \o a, 1, n)
            /\ ends \in {TRUE} \cup {n # Len(Encode[r] \o a)}
    /\ eof = FALSE /\ buf = <<>> /\ pc = "peek" /\ code = "" /\ size = 0 /\ data = <<>>
    /\ stack = <<>> /\ result = Pending

Decode == Peek \/ ReadSimple \/ ReadBulkSize \/ ReadBulk \/ ReadArraySize \/ ArrayDone

Next == Fill \/ Ended \/ Decode

Spec == Init /\ [][Next]_vars

-----------------------------------------------------------------------------

\* The replies inside an array, those inside its elements included.
Inside[r \in Replies] ==
    IF r.is = "*" THEN UNION {{r.body[i]} \cup Inside[r.body[i]] : i \in DOMAIN r.body} ELSE {}
HoldsError(r) == \E e \in Inside[r] : e.is = "-"

\* What readReply() has read beyond the reply goes with its StreamBuffer.
Dropped == IF result = Pending THEN <<>> ELSE buf

\* However the bytes of a reply are cut into chunks, and whatever a bulk string
\* holds, readReply() returns the reply the server sent (or throws its error).  Of
\* what follows the reply, the bytes that came in its last chunk are dropped and the
\* others are on the socket; no byte of the reply itself is.
DecodesWhatWasSent ==
    result # Pending /\ Whole /\ ~ HoldsError(sent.reply) =>
        /\ result = ValueOf[sent.reply]
        /\ Dropped \o rest = SubSeq(Bytes, Len(Encode[sent.reply]) + 1, sent.length)

\* readReply() never waits for the socket when the reply is in its buffer: the
\* server would wait for the next request, and both would wait for ever.
NeverWaitsForMore ==
    result = Pending /\ ~ eof /\ ~ Satisfied =>
        sent.length - Len(rest) < Len(Encode[sent.reply])

\* The bytes of the line a reply ends with; none when it ends with a bulk string.
LastLine[r \in Replies] ==
    IF r.is = "*" /\ r.body # <<>> THEN LastLine[Last(r.body)]
    ELSE IF r.is \in {"+", ":", "-"} THEN Len(FirstLine(r)) + Len(CRLF)
    ELSE 0

\* A stream that ends inside a reply gives a value that was not sent only when
\* it ends inside a status or an integer that ends the reply: no part of a bulk
\* string and no shorter array is ever taken for a reply.
TornOnlyInLastLine ==
    IsValue(result) /\ ~ Whole /\ result # ValueOf[sent.reply] =>
        Len(Encode[sent.reply]) - sent.length < LastLine[sent.reply]
=============================================================================
