---------------------------- MODULE Transaction ----------------------------
(***************************************************************************)
(* A transaction of a caller of the client (README, "Transactions"): it    *)
(* awaits multi(), a command, and exec(), all through the executor, which  *)
(* may replace the connection between them.  The server keeps the          *)
(* transaction with the connection.                                        *)
(***************************************************************************)
EXTENDS Client

CONSTANTS Begin, Body, Commit    \* the caller's MULTI, one command, its EXEC

ASSUME TransactionAssumption ==
    Begin # Body /\ Body # Commit /\ Commit # Begin /\ Commands = {Begin, Body, Commit}

VARIABLES
    multi,     \* the server: the sockets inside MULTI
    loose      \* history: the commands executed at once, outside a transaction

tvars == <<vars, multi, loose>>

TInit == Init /\ multi = {} /\ loose = {}

\* The caller goes on when the command before has been answered; it calls
\* exec() whatever became of the body.
Turn(c) ==
    CASE c = Begin -> TRUE
      [] c = Body -> settled[Begin] # None /\ IsAnswer(settled[Begin])
      [] c = Commit -> settled[Body] # None

TExchange(s) ==
    /\ Exchange(s)
    /\ LET r == Head(out[s]) IN
         /\ multi' = CASE r = Begin -> multi \cup {s}
                       [] r = Commit -> multi \ {s}
                       [] OTHER -> multi
         /\ loose' = IF r = Body /\ s \notin multi THEN loose \cup {r} ELSE loose

TNext ==
    \/ /\ \/ Fibre
          \/ UserClose
          \/ \E c \in Commands : Turn(c) /\ UserExec(c)
          \/ \E s \in Sockets : Cut(s)
       /\ UNCHANGED <<multi, loose>>
    \/ \E s \in Sockets : TExchange(s)

TSpec == TInit /\ [][TNext]_tvars

\* README.md:209, "Execute multiple commands atomically": the body of a
\* transaction that the server has begun is not executed outside of it.  A
\* command that is retried on a new connection is.
BodyStaysInTransaction == Body \notin loose
=============================================================================
