---------------------------- MODULE CommandQueue ----------------------------
(***************************************************************************)
(* What a client promises the callers of exec(): their commands are taken  *)
(* in the order they were issued, each promise settles exactly once and in *)
(* that order, a promise that is fulfilled holds the reply to its own      *)
(* command, and no promise stays pending for ever.                         *)
(***************************************************************************)
EXTENDS RedisReply, Sequences

CONSTANT Commands

VARIABLES
    pending,    \* the commands taken and not settled, oldest first
    outcome     \* how each command's promise has settled

vars == <<pending, outcome>>

Init ==
    /\ pending = <<>>
    /\ outcome = [c \in Commands |-> None]

\* A caller issues a command for the first time.
Submit(c) ==
    /\ outcome[c] = None
    /\ \A i \in DOMAIN pending : pending[i] # c
    /\ pending' = Append(pending, c)
    /\ UNCHANGED outcome

\* The client is closed: the caller is told at once.
Refuse(c) ==
    /\ outcome[c] = None
    /\ \A i \in DOMAIN pending : pending[i] # c
    /\ outcome' = [outcome EXCEPT ![c] = Fault("ConnectionClosed")]
    /\ UNCHANGED pending

\* The oldest command gets its own reply.
Answer ==
    /\ pending # <<>>
    /\ \E o \in {Value(Head(pending)), Torn(Head(pending)), ErrorReply(Head(pending))} :
         outcome' = [outcome EXCEPT ![Head(pending)] = o]
    /\ pending' = Tail(pending)

\* The oldest command fails: with an exception, or with the error reply the
\* server gave to the PING of a reconnection.
Fail(Errors) ==
    /\ pending # <<>>
    /\ \E o \in Errors : outcome' = [outcome EXCEPT ![Head(pending)] = o]
    /\ pending' = Tail(pending)

Internal == {"AUTH", "SELECT", "SETNAME", "PING"}

Failures == [kind : {"fault"}, of : FaultKinds] \cup [kind : {"errorReply"}, of : Internal]

Settle == Answer \/ Fail(Failures)

Next == Settle \/ \E c \in Commands : Submit(c) \/ Refuse(c)

Spec == Init /\ [][Next]_vars /\ WF_vars(Settle)
=============================================================================
