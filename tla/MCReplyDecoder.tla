--------------------------- MODULE MCReplyDecoder ---------------------------
(***************************************************************************)
(* Replies of every type, alone and nested, an empty one, a nil, a payload *)
(* with a CRLF in it and sizes of two digits.                              *)
(***************************************************************************)
EXTENDS ReplyDecoder

MCSymbols ==
    {"+", "-", ":", "$", "*", "O", "K", "E", "x"} \cup ToSet(CRLF) \cup ToSet(Digits)

MCSent == {
    Status(<<"O", "K">>), Integer(7), Integer(-1), Integer(-12), Error(<<"E">>), Nil, NilArray,
    Bulk(<<>>), Bulk(<<"x", "CR", "LF">>), Bulk([i \in 1..10 |-> "x"]), Array(<<>>),
    Array(<<Integer(1), Nil, Status(<<"O">>)>>),
    Array([i \in 1..10 |-> Status(<<>>)]),
    Array(<<Array(<<Bulk(<<"x">>), NilArray>>), Array(<<>>)>>),
    Array(<<Status(<<"O">>), Error(<<"E">>), Integer(1)>>)}
MCNext == {<<>>, <<":", "2", "CR", "LF">>}

ArraysOf(S) == {r \in S : r.is = "*"}
ElementsOf(S) == UNION {ToSet(r.body) : r \in ArraysOf(S)}
MCReplies == MCSent \cup ElementsOf(MCSent) \cup ElementsOf(ElementsOf(MCSent))
MCDepth ==
    [r \in MCReplies |-> IF r.is # "*" THEN 0 ELSE IF ElementsOf(ToSet(r.body)) = {} THEN 1 ELSE 2]
=============================================================================
