-------------------------- MODULE TransactionProofs --------------------------
(***************************************************************************)
(* A transaction through a client that does not retry: with maxRetryCount  *)
(* = 0 the server never executes its body outside of it, for any number of *)
(* sockets, any handshake and whatever the network does.                   *)
(***************************************************************************)
EXTENDS Transaction, ClientProofs

\* The connection is never replaced, and what the server has not executed of the
\* caller's commands is on the only one.
OneSocket ==
    /\ phase = "ready" => task[Mux].pc = "idle"
    /\ \A c \in Commands : Unread(c) \subseteq {cur} /\ (Unread(c) # {} => phase = "ready")

\* The caller's turns.
Turns ==
    /\ Issued(Body) => settled[Begin] # None /\ IsAnswer(settled[Begin])
    /\ Issued(Commit) => settled[Body] # None

\* The server is inside the transaction from MULTI to EXEC, and EXEC comes when
\* the body cannot come any more.
Inside ==
    /\ runs[Begin] > 0 => phase = "ready"
    /\ runs[Begin] > 0 /\ runs[Commit] = 0 => cur \in multi
    /\ runs[Commit] > 0 \/ Unread(Commit) # {} => Unread(Body) = {} /\ settled[Body] # None

TInv == HInv /\ OneSocket /\ Turns /\ Inside /\ BodyStaysInTransaction

LEMMA TNextIsNext ==
    ASSUME [TNext]_tvars
    PROVE  [Next]_vars
  BY DEF TNext, TExchange, tvars, Next

LEMMA Three ==
    Begin \in Commands /\ Body \in Commands /\ Commit \in Commands
  BY TransactionAssumption

\* Of all commands, only the one that is written can get onto a socket: the
\* current one, which held nothing.
LEMMA UnreadEffect ==
    ASSUME HInv, [Next]_vars
    PROVE  \/ \A c \in Commands : Unread(c)' \subseteq Unread(c)
           \/ /\ phase = "ready" /\ cur' = cur
              /\ \E c \in Commands :
                   /\ Waiting(c) /\ Unread(c)' \subseteq Unread(c) \cup {cur}
                   /\ \A d \in Commands : cur \notin Unread(d)
                   /\ \A d \in Commands : d # c => Unread(d)' \subseteq Unread(d)
  <1>1. IInv /\ SendShape /\ CopiesShape /\ AnswerShape
    BY DEF HInv
  <1>2. CASE out' = out
    BY <1>2 DEF Unread
  <1>3. CASE CallEffect /\ UNCHANGED <<connVars, userVars>> /\ out' # out
    <2> DEFINE r == call[Mux].req
    <2>1. /\ out' = [out EXCEPT ![cur] = Append(@, r)] /\ cur' = cur
          /\ call[Mux].st = "writing" /\ rid[cur] = "open" /\ cur \in Sockets
      BY <1>3 DEF CallEffect, connVars
    <2>2. out[cur] = <<>>
      BY <1>1, <2>1 DEF IInv, InTurn, WireOf
    <2>3. out'[cur] = <<r>> /\ \A s \in Sockets : s # cur => out'[s] = out[s]
      BY <1>1, <2>1, <2>2 DEF IInv, TypeOK, WireTypeOK
    <2>4. ASSUME NEW d \in Commands PROVE cur \notin Unread(d)
      <3>1. <<d>> # <<>>
        OBVIOUS
      <3> QED
        BY <2>2, <3>1 DEF Unread
    <2>5. ASSUME NEW d \in Commands PROVE Unread(d)' \subseteq Unread(d) \cup {cur}
      BY <2>3 DEF Unread
    <2>6. ASSUME NEW d \in Commands, d # r PROVE Unread(d)' \subseteq Unread(d)
      BY <2>3, <2>6 DEF Unread
    <2>7. CASE r \in Commands
      <3>1. task[Mux].pc = "idle"
        BY <1>1, <2>1, <2>7, MuxTypes, InternalRequests DEF IInv, InTurn, TaskOf, TaskStates
      <3>2. isProcessing /\ queue # <<>> /\ r = Head(queue) /\ phase = "ready"
        BY <1>1, <2>1, <3>1 DEF IInv, InTurn, QueueWorks, PhaseShape, MuxRests
      <3>3. 1 \in DOMAIN queue /\ queue[1] = r
        BY <1>1, <3>2 DEF IInv, TypeOK, MuxTypeOK
      <3>4. Waiting(r)
        BY <3>3 DEF Waiting
      <3> QED
        BY <2>1, <2>4, <2>5, <2>6, <2>7, <3>2, <3>4
    <2>8. CASE r \notin Commands
      BY <2>6, <2>8
    <2> QED
      BY <2>7, <2>8
  <1>4. ASSUME NEW s \in Sockets, Exchange(s)
        PROVE  \A c \in Commands : Unread(c)' \subseteq Unread(c)
    <2>1. out[s] # <<>> /\ out' = [out EXCEPT ![s] = Tail(@)]
      BY <1>1, <1>4, ServerEffect DEF Exchange, IInv, TypeOK, WireTypeOK
    <2>2. PICK r \in Requests : out[s] = <<r>>
      BY <1>1, <2>1 DEF CopiesShape
    <2>3. out'[s] = <<>> /\ \A t \in Sockets : t # s => out'[t] = out[t]
      BY <1>1, <2>1, <2>2, SingletonSeq DEF IInv, TypeOK, WireTypeOK
    <2>4. ASSUME NEW c \in Commands PROVE Unread(c)' \subseteq Unread(c)
      <3>1. <<c>> # <<>>
        OBVIOUS
      <3> QED
        BY <2>3, <3>1 DEF Unread
    <2> QED
      BY <2>4
  <1> QED
    BY <1>1, <1>2, <1>3, <1>4, NextHistory
    DEF CallEffect, MuxEffect, OtherEffect, StartEffect

\* The client stays ready, and without retries it stays on its socket.
LEMMA StaysReady ==
    ASSUME HInv, OneSocket, MaxRetryCount = 0, [Next]_vars, phase = "ready"
    PROVE  phase' = "ready" /\ cur' = cur /\ task'[Mux].pc = "idle"
  <1>1. IInv /\ SendShape /\ AnswerShape /\ task[Mux].pc = "idle"
    BY DEF HInv, OneSocket
  <1>2. phase' = "ready"
    BY MuxTypes, <1>1
    DEF Next, Fibre, BootOk, BootFails, UserClose, UserExec, Exchange, Cut, Finished,
        userVars, vars
  <1>3. ~ ConnStep(Mux)
    BY <1>1 DEF ConnStep, DialOk, DialFails, HelloStep, HelloFails, DelayOver, PingOk,
                PingFails, RePing
  <1>4. CASE MuxStep /\ MuxEffect
    <2>1. ~ Retry /\ ~ Resume /\ ~ GiveUp
      BY <1>1 DEF Retry, Resume, GiveUp, Retriable
    <2>2. UNCHANGED connVars
      BY <1>4, <2>1 DEF MuxStep, Resolve, Reject
    <2> QED
      BY <1>1, <1>2, <2>2 DEF connVars
  <1>5. CASE OtherEffect \/ StartEffect
    BY <1>1, <1>2, <1>5 DEF OtherEffect, StartEffect
  <1>6. CASE UNCHANGED connVars
    BY <1>1, <1>2, <1>6 DEF connVars
  <1> QED
    BY <1>1, <1>3, <1>4, <1>5, <1>6, NextHistory DEF Exchange

LEMMA OneSocketInv ==
    ASSUME HInv, OneSocket, MaxRetryCount = 0, [Next]_vars
    PROVE  OneSocket'
  <1>1. ASSUME phase # "ready", phase' = "ready" PROVE task'[Mux].pc = "idle"
    <2>1. BootOk
      BY <1>1 DEF Next, Fibre, BootFails, UserClose, UserExec, Exchange, Cut, Finished,
                  userVars, vars
    <2>2. task' = [task EXCEPT ![Mux] = NoTask]
      BY <2>1 DEF BootOk
    <2> QED
      BY <2>2, MuxTypes, NoTaskType DEF HInv
  <1>2. ASSUME NEW c \in Commands
        PROVE  Unread(c)' \subseteq {cur'} /\ (Unread(c)' # {} => phase' = "ready")
    <2>1. CASE Unread(c)' \subseteq Unread(c)
      BY <2>1, StaysReady DEF OneSocket
    <2>2. CASE phase = "ready" /\ Unread(c)' \subseteq Unread(c) \cup {cur}
      BY <2>2, StaysReady DEF OneSocket
    <2> QED
      BY <2>1, <2>2, UnreadEffect
  <1> QED
    BY <1>1, <1>2, StaysReady DEF OneSocket

\* A command is issued in its turn, by its caller.
LEMMA IssuedInTurn ==
    ASSUME HInv, [TNext]_tvars, NEW c \in Commands, Issued(c)', ~ Issued(c)
    PROVE  Turn(c)
  <1>1. IInv /\ AnswerShape /\ QueueEffect
    BY TNextIsNext, NextQueue DEF HInv
  <1>2. queue \in Seq(Commands) /\ settled \in [Commands -> Outcomes(Requests) \cup {None}]
    BY <1>1 DEF IInv, TypeOK, MuxTypeOK
  <1>3. ~ UNCHANGED <<queue, settled>>
    BY DEF Issued, Waiting
  <1>4. ~ HeadSettles
    <2>1. ASSUME HeadSettles PROVE FALSE
      <3>1. /\ queue # <<>> /\ queue' = Tail(queue)
            /\ \A d \in Commands : d # Head(queue) => settled'[d] = settled[d]
        BY <1>1, <2>1, HeadSettlesHistory
      <3>2. c # Head(queue)
        <4>1. 1 \in DOMAIN queue /\ queue[1] = Head(queue)
          BY <1>2, <3>1
        <4> QED
          BY <4>1 DEF Issued, Waiting
      <3>3. ASSUME NEW i \in DOMAIN Tail(queue)
            PROVE  i + 1 \in DOMAIN queue /\ Tail(queue)[i] = queue[i + 1]
        BY <1>2, <3>1
      <3> QED
        BY <3>1, <3>2, <3>3 DEF Issued, Waiting
    <2> QED
      BY <2>1
  <1>5. ~ MuxStep
    <2>1. ~ Retry /\ ~ Resume
      BY <1>3 DEF Retry, Resume
    <2>2. ~ Resolve /\ ~ Reject
      BY <1>1, <1>4, BackOutcome DEF Resolve, Reject, HeadIsBack, HeadSettles
    <2>3. ~ GiveUp
      BY <1>1, <1>4, GivenUpOutcome DEF GiveUp, HeadSettles
    <2> QED
      BY <2>1, <2>2, <2>3 DEF MuxStep
  <1>6. PICK d \in Commands : Turn(d) /\ UserExec(d)
    BY <1>3, <1>5 DEF TNext, Fibre, BootOk, BootFails, UserClose, Cut, TExchange, Exchange,
                      tvars, vars, muxVars
  <1>7. c = d
    <2>1. CASE Exec(d)
      <3>1. /\ queue' = Append(queue, d) /\ settled' = settled
        BY <2>1 DEF Exec
      <3>2. ASSUME NEW i \in DOMAIN queue', queue'[i] # d
            PROVE  i \in DOMAIN queue /\ queue[i] = queue'[i]
        BY <1>2, <3>1, <3>2, AppendProperties
      <3> QED
        BY <3>1, <3>2 DEF Issued, Waiting
    <2>2. CASE ExecRefused(d)
      BY <1>2, <2>2 DEF ExecRefused, Issued, Waiting
    <2> QED
      BY <1>6, <2>1, <2>2 DEF UserExec
  <1> QED
    BY <1>6, <1>7

\* What has settled stays, and is not in the queue.
LEMMA SettledStays ==
    ASSUME HInv, [Next]_vars, NEW c \in Commands, settled[c] # None
    PROVE  settled'[c] = settled[c] /\ ~ Waiting(c)
  <1>1. settled'[c] = settled[c]
    BY SettlesInOrder
  <1>2. queue \in Seq(Commands) /\ OrderShape
    BY DEF HInv, IInv, TypeOK, MuxTypeOK
  <1>3. ~ Waiting(c)
    BY <1>2 DEF OrderShape, Waiting
  <1> QED
    BY <1>1, <1>3

LEMMA TurnsInv ==
    ASSUME HInv, Turns, [TNext]_tvars
    PROVE  Turns'
  <1>1. [Next]_vars /\ Begin # Body /\ Body # Commit /\ Begin # Commit
    BY TNextIsNext, TransactionAssumption
  <1>2. Issued(Body)' => settled[Begin] # None /\ IsAnswer(settled[Begin])
    BY <1>1, Three, IssuedInTurn DEF Turns, Turn
  <1>3. Issued(Commit)' => settled[Body] # None
    BY <1>1, Three, IssuedInTurn DEF Turns, Turn
  <1> QED
    BY <1>1, <1>2, <1>3, Three, SettledStays DEF Turns, IsAnswer

\* A command that may still be executed was issued.
LEMMA UnreadIssued ==
    ASSUME HInv, NEW c \in Commands, Unread(c) # {}
    PROVE  Issued(c)
  <1>1. SUFFICES ASSUME ~ Issued(c) PROVE FALSE
    OBVIOUS
  <1>2. queue \in Seq(Commands) /\ runs[c] \in Nat /\ CopiesShape
    BY DEF HInv, IInv, TypeOK, MuxTypeOK, WireTypeOK
  <1>3. ~ Sent(c)
    <2>1. queue # <<>> => Head(queue) # c
      BY <1>1, <1>2 DEF Issued, Waiting
    <2> QED
      BY <1>1, <2>1 DEF Issued, Sent
  <1>4. runs[c] + Cardinality(Unread(c)) + 1 <= 1
    BY <1>1, <1>2, <1>3 DEF CopiesShape
  <1>5. Cardinality(Unread(c)) = 0
    BY <1>2, <1>4, UnreadFinite
  <1> QED
    BY <1>5, UnreadFinite, FS_EmptySet

\* What a step of the server does to the transaction: it is on the only socket,
\* and executes what was sent.
LEMMA ExchangeEffect ==
    ASSUME HInv, OneSocket, NEW s \in Sockets, TExchange(s)
    PROVE  \/ \A c \in Commands : runs'[c] = runs[c] /\ UNCHANGED <<multi, loose>>
           \/ \E c \in Commands :
                /\ s = cur /\ cur \in Unread(c) /\ phase = "ready"
                /\ runs'[c] = runs[c] + 1 /\ \A d \in Commands \ {c} : runs'[d] = runs[d]
                /\ multi' = CASE c = Begin -> multi \cup {cur}
                              [] c = Commit -> multi \ {cur}
                              [] OTHER -> multi
                /\ loose' = IF c = Body /\ cur \notin multi THEN loose \cup {c} ELSE loose
  <1>1. /\ out[s] # <<>>
        /\ runs' = [c \in Commands |-> IF c = Head(out[s]) THEN runs[c] + 1 ELSE runs[c]]
    BY ServerEffect DEF TExchange, Exchange, HInv, IInv, TypeOK, WireTypeOK
  <1>2. PICK r \in Requests : out[s] = <<r>>
    BY <1>1 DEF HInv, CopiesShape
  <1>3. Head(out[s]) = r
    BY <1>2
  <1>4. /\ multi' = CASE r = Begin -> multi \cup {s}
                      [] r = Commit -> multi \ {s}
                      [] OTHER -> multi
        /\ loose' = IF r = Body /\ s \notin multi THEN loose \cup {r} ELSE loose
    BY <1>3 DEF TExchange
  <1>5. CASE r \in Commands
    <2>1. s \in Unread(r) /\ s = cur /\ phase = "ready"
      BY <1>2, <1>5 DEF Unread, OneSocket
    <2>2. runs'[r] = runs[r] + 1 /\ \A d \in Commands \ {r} : runs'[d] = runs[d]
      BY <1>1, <1>3, <1>5
    <2> QED
      BY <1>4, <1>5, <2>1, <2>2
  <1>6. CASE r \notin Commands
    <2>1. r # Begin /\ r # Commit /\ r # Body
      BY <1>6, Three
    <2>2. UNCHANGED <<multi, loose>>
      BY <1>4, <2>1
    <2> QED
      BY <1>1, <1>3, <1>6, <2>2
  <1> QED
    BY <1>5, <1>6

\* Only a step of the server changes what it has executed.
LEMMA QuietStep ==
    ASSUME HInv, [TNext]_tvars
    PROVE  \/ UNCHANGED <<runs, multi, loose>>
           \/ \E s \in Sockets : TExchange(s)
  <1>1. IInv /\ SendShape /\ AnswerShape
    BY DEF HInv
  <1>2. ASSUME Fibre PROVE runs' = runs
    BY <1>1, <1>2, CallHistory, ConnHistory, MuxHistory, BootHistory
    DEF Fibre, CallEffect, MuxEffect, OtherEffect
  <1>3. ASSUME UserClose PROVE runs' = runs
    BY <1>1, <1>3, UserCloseHistory DEF OtherEffect
  <1>4. ASSUME NEW c \in Commands, UserExec(c) PROVE runs' = runs
    BY <1>1, <1>4, ExecHistory DEF OtherEffect, StartEffect
  <1>5. ASSUME NEW s \in Sockets, Cut(s) PROVE runs' = runs
    BY <1>5 DEF Cut, LinkCut
  <1>6. CASE UNCHANGED tvars
    BY <1>6 DEF tvars, vars, wireVars
  <1> QED
    BY <1>2, <1>3, <1>4, <1>5, <1>6 DEF TNext

\* What one step of the server means for the transaction.
LEMMA MultiEffect ==
    ASSUME HInv, OneSocket, [TNext]_tvars
    PROVE  \/ UNCHANGED <<runs, multi, loose>>
           \/ \E c \in Commands :
                /\ cur \in Unread(c) /\ phase = "ready"
                /\ runs'[c] = runs[c] + 1 /\ \A d \in Commands \ {c} : runs'[d] = runs[d]
                /\ multi' = CASE c = Begin -> multi \cup {cur}
                              [] c = Commit -> multi \ {cur}
                              [] OTHER -> multi
                /\ loose' = IF c = Body /\ cur \notin multi THEN loose \cup {c} ELSE loose
           \/ /\ UNCHANGED <<multi, loose>>
              /\ \A c \in Commands : runs'[c] = runs[c]
  BY QuietStep, ExchangeEffect, Three

\* When the body has settled and is on no socket, it stays so.
LEMMA BodyGone ==
    ASSUME HInv, [Next]_vars, settled[Body] # None, Unread(Body) = {}
    PROVE  Unread(Body)' = {} /\ settled'[Body] # None
  BY Three, SettledStays, NeverRuns

\* EXEC is executed, or on its way, only when the body cannot come any more.
LEMMA CommitInv ==
    ASSUME HInv, OneSocket, Turns, Inside, [TNext]_tvars,
           runs'[Commit] > 0 \/ Unread(Commit)' # {}
    PROVE  Unread(Body)' = {} /\ settled'[Body] # None
  <1>1. [Next]_vars
    BY TNextIsNext
  <1>2. CASE runs[Commit] > 0 \/ Unread(Commit) # {}
    BY <1>1, <1>2, BodyGone DEF Inside
  <1>3. CASE ~ (runs[Commit] > 0) /\ Unread(Commit) = {}
    <2>1. runs'[Commit] = runs[Commit]
      BY <1>3, MultiEffect, Three
    <2>2. Unread(Commit)' # {}
      BY <1>3, <2>1
    <2>3. ~ (Unread(Commit)' \subseteq Unread(Commit))
      BY <1>3, <2>2
    <2>4. PICK c \in Commands :
            /\ Waiting(c) /\ \A d \in Commands : cur \notin Unread(d)
            /\ \A d \in Commands : d # c => Unread(d)' \subseteq Unread(d)
      BY <1>1, <2>3, UnreadEffect, Three
    <2>5. c = Commit /\ Body # Commit
      BY <2>3, <2>4, Three, TransactionAssumption
    <2>6. settled[Body] # None
      BY <2>4, <2>5 DEF Turns, Issued
    <2>7. Unread(Body) = {}
      BY <2>4, Three DEF OneSocket
    <2> QED
      BY <1>1, <2>6, <2>7, BodyGone
  <1> QED
    BY <1>2, <1>3

LEMMA InsideInv ==
    ASSUME HInv, OneSocket, Turns, Inside, MaxRetryCount = 0, [TNext]_tvars
    PROVE  Inside'
  <1>1. [Next]_vars /\ Begin # Commit /\ Begin # Body /\ Body # Commit
    BY TNextIsNext, TransactionAssumption
  <1>2. /\ runs[Begin] \in Nat /\ runs[Commit] \in Nat /\ runs'[Commit] \in Nat
        /\ runs'[Commit] >= runs[Commit]
    BY <1>1, RunsGrow, Three
  <1>3. ASSUME phase = "ready", runs'[Begin] > 0, runs'[Commit] = 0
        PROVE  cur \in multi'
    <2>1. runs[Commit] = 0
      BY <1>2, <1>3
    <2>2. CASE runs'[Begin] = runs[Begin] /\ multi' = multi
      BY <1>3, <2>1, <2>2 DEF Inside
    <2>3. ASSUME NEW c \in Commands, runs'[c] = runs[c] + 1,
                 \A d \in Commands \ {c} : runs'[d] = runs[d],
                 multi' = CASE c = Begin -> multi \cup {cur}
                            [] c = Commit -> multi \ {cur}
                            [] OTHER -> multi
          PROVE  cur \in multi'
      <3>1. c # Commit
        BY <1>2, <1>3, <2>1, <2>3
      <3>2. CASE c = Begin
        <4>1. multi' = multi \cup {cur}
          BY <1>1, <2>3, <3>2
        <4> QED
          BY <4>1
      <3>3. CASE c # Begin
        <4>1. runs'[Begin] = runs[Begin] /\ multi' = multi
          BY <2>3, <3>1, <3>3, Three
        <4> QED
          BY <2>2, <4>1
      <3> QED
        BY <3>2, <3>3
    <2>4. CASE \E c \in Commands :
                 /\ runs'[c] = runs[c] + 1 /\ \A d \in Commands \ {c} : runs'[d] = runs[d]
                 /\ multi' = CASE c = Begin -> multi \cup {cur}
                               [] c = Commit -> multi \ {cur}
                               [] OTHER -> multi
      BY <2>3, <2>4
    <2> QED
      BY <2>2, <2>4, MultiEffect, Three
  <1>4. runs'[Begin] > 0 => phase = "ready"
    <2>1. CASE runs'[Begin] = runs[Begin]
      BY <2>1 DEF Inside
    <2>2. CASE phase = "ready"
      BY <2>2
    <2> QED
      BY <2>1, <2>2, MultiEffect, Three
  <1>5. phase = "ready" => phase' = "ready" /\ cur' = cur
    BY <1>1, StaysReady
  <1> QED
    BY <1>3, <1>4, <1>5, CommitInv DEF Inside

\* The body is executed inside the transaction.
LEMMA BodyInv ==
    ASSUME HInv, OneSocket, Turns, Inside, BodyStaysInTransaction, [TNext]_tvars
    PROVE  BodyStaysInTransaction'
  <1>1. Begin # Body
    BY TransactionAssumption
  <1>2. ASSUME cur \in Unread(Body) PROVE cur \in multi
    <2>1. Issued(Body)
      BY <1>2, Three, UnreadIssued
    <2>2. settled[Begin] # None /\ IsAnswer(settled[Begin])
      BY <2>1 DEF Turns
    <2>3. settled[Begin].of = Begin
      BY <2>2, Three, InternalRequests
      DEF HInv, IInv, InTurn, OwnReplies, OwnOutcome, IsAnswer
    <2>4. runs[Begin] > 0
      BY <2>2, <2>3, Three DEF HInv, AnswerShape, AnsweredIffExecuted
    <2>5. runs[Commit] \in Nat /\ ~ (runs[Commit] > 0)
      BY <1>2, Three DEF Inside, HInv, IInv, TypeOK, WireTypeOK
    <2> QED
      BY <2>4, <2>5 DEF Inside
  <1>3. loose' = loose \/ \E c \in Commands \ {Body} : loose' = loose \cup {c}
    BY <1>2, MultiEffect
  <1> QED
    BY <1>3 DEF BodyStaysInTransaction

LEMMA TInitInv ==
    ASSUME TInit
    PROVE  TInv
  <1>1. HInv
    BY InitHistory DEF TInit
  <1>2. /\ \A s \in Sockets : out[s] = <<>>
        /\ \A c \in Commands : runs[c] = 0 /\ settled[c] = None
        /\ queue = <<>> /\ phase = "boot" /\ loose = {}
    BY DEF TInit, Init, WireInit, MuxInit
  <1>3. ASSUME NEW c \in Commands PROVE Unread(c) = {} /\ ~ Issued(c)
    <2>1. <<c>> # <<>>
      OBVIOUS
    <2> QED
      BY <1>2, <2>1 DEF Unread, Issued, Waiting
  <1> QED
    BY <1>1, <1>2, <1>3, Three DEF TInv, OneSocket, Turns, Inside, BodyStaysInTransaction

LEMMA TNextInv ==
    ASSUME MaxRetryCount = 0, TInv, [TNext]_tvars
    PROVE  TInv'
  BY TNextIsNext, NextHInv, OneSocketInv, TurnsInv, InsideInv, BodyInv DEF TInv

\* README.md, "Transactions": what was begun is atomic.  With maxRetryCount = 0
\* the body of a transaction whose MULTI was answered is never executed outside
\* of it, whatever fails: the executor never replaces the connection that holds
\* the server's side of the transaction.
THEOREM TransactionIsAtomic ==
    ASSUME MaxRetryCount = 0
    PROVE  TSpec => []BodyStaysInTransaction
  <1>1. TInit => TInv
    BY TInitInv
  <1>2. TInv /\ [TNext]_tvars => TInv'
    BY TNextInv
  <1>3. TInv => BodyStaysInTransaction
    BY DEF TInv
  <1> QED
    BY <1>1, <1>2, <1>3, PTL DEF TSpec
=============================================================================
