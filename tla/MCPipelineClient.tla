-------------------------- MODULE MCPipelineClient --------------------------
(***************************************************************************)
(* Values for the constants of PipelineClient: the executor, a pipeline    *)
(* that is flushed from two places, and a transaction.                     *)
(***************************************************************************)
EXTENDS PipelineClient, TLC

CONSTANTS mux, p1, t1, g1, a1, b1, b2

MCFibers == {mux} \cup Flushes
MCRequests == Commands \cup {"AUTH", "SELECT", "SETNAME", "PING", "MULTI", "EXEC"}
MCNoHello == <<>>
MCOwnerOf == [c \in Commands |-> CASE c = a1 -> p1
                                   [] c \in {b1, b2} -> t1
                                   [] OTHER -> None]
MCPipeOf == [f \in Flushes |-> IF f = 1 THEN p1 ELSE t1]

Kind(o) == IF o = None THEN "none" ELSE IF o.kind = "fault" THEN o.of
           ELSE IF IsAnswer(o) THEN "answer" ELSE o.kind

\* Histories that no property of the run reads are left out, and when something has
\* overlapped, whose reply a reply is: states that differ only in these go on alike.
MCView ==
    <<rid, link, out, wlock, rlock, cur, isClosed, isConnected, retryCount,
      [task[Mux] EXCEPT !.dials = 0, !.err = Kind(@)], queue, isProcessing,
      commands, given, batch, multi, inside, overlapped, crossed, loose,
      [c \in Commands |-> IF OwnerOf[c] = None THEN 0 ELSE runs[c]],
      IF overlapped
      THEN <<[f \in Fibers |-> [call[f] EXCEPT !.res =
                IF f = Mux THEN Kind(@) ELSE @ # None /\ @.kind = "fault"]],
             [s \in Sockets |-> [i \in DOMAIN inb[s] |-> inb[s][i].kind]],
             [c \in Commands |-> settled[c] # None],
             [f \in Flushes |-> Len(results[f])]>>
      ELSE <<call, inb, settled, results>>>>
=============================================================================
