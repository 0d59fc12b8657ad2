------------------------------ MODULE MCPubSub ------------------------------
(***************************************************************************)
(* Values for the constants of PubSub: a SUBSCRIBE or two, one             *)
(* UNSUBSCRIBE, one ordinary command, one SUBSCRIBE that receive() may     *)
(* issue.                                                                  *)
(***************************************************************************)
EXTENDS PubSub, TLC

CONSTANTS mux, recv, sub1, sub2, uns1, get1, res1, a, b, m1, m2

MCFibers == {mux, recv}
MCReceivers == {recv}
MCRequests == Commands \cup Messages \cup {"AUTH", "SELECT", "SETNAME", "PING"}
MCHello == <<"SELECT">>
MCNoHello == <<>>
MCChannelOf == (m1 :> a) @@ (m2 :> b)
MCAddBoth == sub1 :> {a, b}
MCAddEach == (sub1 :> {a}) @@ (sub2 :> {b})
MCChannelOne == [m \in Messages |-> a]
MCDropOne == uns1 :> {a}
MCDropNone == <<>>

\* States that differ only in histories the properties of a run do not read, or in what
\* a promise settled with, go on alike.
MCView ==
    <<rid, link, out, inb, wlock, rlock, call, {u \in Unsubscribes : runs[u] > 0},
      cur, isClosed, isConnected, retryCount,
      [f \in {Mux, Recv} |-> [task[f] EXCEPT !.dials = 0, !.err = None]], queue, isProcessing,
      [c \in Commands |-> IF settled[c] = None THEN "waits"
                         ELSE IF IsAnswer(settled[c]) THEN "answered" ELSE "failed"],
      channels, recorded, loop, resub, subs, published, yielded, moved>>

\* The messages of one channel are alike.
MCAlike == Permutations(Messages)
=============================================================================
