----------------------------- MODULE RedisReply -----------------------------
(***************************************************************************)
(* What a promise of this client can settle with: a reply of the server    *)
(* (protocol/types.ts, protocol/reply.ts), an error reply, or one of the   *)
(* errors of errors.ts and of Deno.errors.  The payload of a reply is      *)
(* abstracted to the request it answers: that is all the properties need   *)
(* to tell a caller's own reply from somebody else's.                      *)
(***************************************************************************)

CONSTANT None      \* "nothing yet": no outcome, no holder of a lock

\* A reply of type '+', ':', '$' or '*', answering request r.
Value(r) == [kind |-> "value", of |-> r]

\* What was decoded from only a part of that reply: readLine() returns what it holds when
\* the stream ends, and a read that starts in the middle of a reply may find a bulk
\* string or an integer there.
Torn(r) == [kind |-> "torn", of |-> r]

\* A '-' reply to request r: readReply throws it as an ErrorReplyError.
ErrorReply(r) == [kind |-> "errorReply", of |-> r]

\* An exception that is not a reply.
Fault(e) == [kind |-> "fault", of |-> e]

FaultKinds ==
    {"EOF", "BadResource", "BrokenPipe", "ConnectionReset", "ConnectionRefused",
     "Interrupted", "InvalidState", "RangeError", "TypeError", "Authentication",
     "ConnectionClosed", "ClientIsClosed"}

\* The exceptions the executor retries (executor.ts, isRetriableError).
RetriableFaults ==
    {"BadResource", "BrokenPipe", "ConnectionReset", "ConnectionRefused", "EOF"}

Replies(R) == [kind : {"value", "errorReply"}, of : R]
Outcomes(R) == [kind : {"value", "torn", "errorReply"}, of : R]
                    \cup [kind : {"fault"}, of : FaultKinds]

\* sendCommand resolves with these and throws the others.
IsAnswer(o) == o.kind \in {"value", "torn"}
=============================================================================
