----------------------------- MODULE LazyProofs -----------------------------
(***************************************************************************)
(* Theorems about the lazy client: what its URL says reaches the server,   *)
(* the delays of its backoff grow to their bound, and a caller who waits   *)
(* for the first command gets its own replies: for any URLs, backoffs,     *)
(* commands, handshake, retry budget and number of sockets.                *)
(***************************************************************************)
EXTENDS LazyClient, TurnProofs, WellFoundedInduction

\* The connection is the one the URL describes.
SetupShape ==
    /\ setup.stage \in {"url", "connection", "client"}
    /\ setup.stage = "url" => setup.url \in URLs
    /\ setup.stage = "connection" =>
         /\ setup.url \in URLs
         /\ \E b \in Backoffs : setup.conn = createRedisConnection(parseURL(setup.url), b)

-----------------------------------------------------------------------------
(* The three parts of a handshake.                                         *)

AuthPart(o) ==
    IF o.password = Undefined THEN <<>>
    ELSE IF Truthy(o.password) /\ Truthy(o.username)
         THEN <<<<"AUTH", o.username, o.password>>>>
         ELSE <<<<"AUTH", o.password>>>>

SelectPart(o) == IF TruthyNumber(o.db) THEN <<<<"SELECT", o.db>>>> ELSE <<>>

NamePart(name) == IF Truthy(name) THEN <<<<"SETNAME", name>>>> ELSE <<>>

\* h is made of a, b and c, of which each has one element at most.
HasParts(h, a, b, c) ==
    /\ DOMAIN h = 1 .. Len(a) + Len(b) + Len(c)
    /\ \A i \in DOMAIN h :
         \/ i <= Len(a) /\ h[i] = a[1]
         \/ i = Len(a) + 1 /\ Len(b) = 1 /\ h[i] = b[1]
         \/ i = Len(a) + Len(b) + 1 /\ Len(c) = 1 /\ h[i] = c[1]
    /\ Len(a) = 1 => 1 \in DOMAIN h /\ h[1] = a[1]
    /\ Len(b) = 1 => Len(a) + 1 \in DOMAIN h /\ h[Len(a) + 1] = b[1]
    /\ Len(c) = 1 => Len(a) + Len(b) + 1 \in DOMAIN h /\ h[Len(a) + Len(b) + 1] = c[1]

LEMMA ThreeParts ==
    ASSUME NEW S, NEW a \in Seq(S), NEW b \in Seq(S), NEW c \in Seq(S),
           Len(a) <= 1, Len(b) <= 1, Len(c) <= 1
    PROVE  HasParts(a \o b \o c, a, b, c)
  <1> DEFINE ab == a \o b
             h == ab \o c
  <1>1. /\ ab \in Seq(S) /\ Len(ab) = Len(a) + Len(b)
        /\ \A i \in 1 .. Len(a) + Len(b) :
             ab[i] = IF i <= Len(a) THEN a[i] ELSE b[i - Len(a)]
    BY ConcatProperties
  <1>2. /\ h \in Seq(S) /\ Len(h) = Len(ab) + Len(c)
        /\ \A i \in 1 .. Len(ab) + Len(c) :
             h[i] = IF i <= Len(ab) THEN ab[i] ELSE c[i - Len(ab)]
    BY <1>1, ConcatProperties
  <1>3. Len(a) \in {0, 1} /\ Len(b) \in {0, 1} /\ Len(c) \in {0, 1}
    <2>1. \A n \in Nat : n <= 1 => n \in {0, 1}
      OBVIOUS
    <2>2. Len(a) \in Nat /\ Len(b) \in Nat /\ Len(c) \in Nat
      BY LenProperties
    <2> QED
      BY <2>1, <2>2
  <1>4. DOMAIN h = 1 .. Len(a) + Len(b) + Len(c)
    BY <1>1, <1>2
  <1> HIDE DEF ab, h
  <1>5. ASSUME NEW i \in DOMAIN h
        PROVE  \/ i <= Len(a) /\ h[i] = a[1]
               \/ i = Len(a) + 1 /\ Len(b) = 1 /\ h[i] = b[1]
               \/ i = Len(a) + Len(b) + 1 /\ Len(c) = 1 /\ h[i] = c[1]
    BY <1>1, <1>2, <1>3, <1>4
  <1>6. Len(a) = 1 => 1 \in DOMAIN h /\ h[1] = a[1]
    BY <1>1, <1>2, <1>3, <1>4
  <1>7. Len(b) = 1 => Len(a) + 1 \in DOMAIN h /\ h[Len(a) + 1] = b[1]
    BY <1>1, <1>2, <1>3, <1>4
  <1>8. Len(c) = 1 => Len(a) + Len(b) + 1 \in DOMAIN h /\ h[Len(a) + Len(b) + 1] = c[1]
    BY <1>1, <1>2, <1>3, <1>4
  <1> QED
    <2>1. HasParts(h, a, b, c)
      BY <1>4, <1>5, <1>6, <1>7, <1>8 DEF HasParts
    <2> QED
      BY <2>1 DEF ab, h

\* The requests of a handshake, told by their first words: AUTH comes first.
LEMMA HandshakeRequests ==
    ASSUME NEW conn
    PROVE  LET h == Handshake(conn)
               o == conn.options
               Sent(w) == {i \in DOMAIN h : h[i][1] = w}
           IN  /\ Sent("AUTH") = IF o.password = Undefined THEN {} ELSE {1}
               /\ o.password # Undefined => h[1] = AuthPart(o)[1]
               /\ Sent("SELECT") # {} <=> TruthyNumber(o.db)
               /\ \A i \in Sent("SELECT") : h[i] = <<"SELECT", o.db>>
               /\ Sent("SETNAME") # {} <=> Truthy(conn.name)
  <1> DEFINE h == Handshake(conn)
             o == conn.options
             Sent(w) == {i \in DOMAIN h : h[i][1] = w}
             a == AuthPart(o)
             b == SelectPart(o)
             c == NamePart(conn.name)
             S == {a[1], b[1], c[1]}
  <1>1. h = a \o b \o c
    BY DEF Handshake, AuthPart, SelectPart, NamePart
  <1>2. /\ a \in Seq(S) /\ Len(a) = IF o.password = Undefined THEN 0 ELSE 1
        /\ Len(a) = 1 => a[1][1] = "AUTH"
    BY DEF AuthPart
  <1>3. /\ b \in Seq(S) /\ Len(b) = IF TruthyNumber(o.db) THEN 1 ELSE 0
        /\ Len(b) = 1 => b[1] = <<"SELECT", o.db>> /\ b[1][1] = "SELECT"
    BY DEF SelectPart
  <1>4. /\ c \in Seq(S) /\ Len(c) = IF Truthy(conn.name) THEN 1 ELSE 0
        /\ Len(c) = 1 => c[1][1] = "SETNAME"
    BY DEF NamePart
  <1> HIDE DEF a, b, c, S, o
  <1>5. HasParts(h, a, b, c)
    <2>1. a \in Seq(S) /\ b \in Seq(S) /\ c \in Seq(S)
      BY <1>2, <1>3, <1>4
    <2>2. Len(a) <= 1 /\ Len(b) <= 1 /\ Len(c) <= 1
      <3> HIDE DEF h
      <3> QED
        BY <1>2, <1>3, <1>4
    <2>3. HasParts(a \o b \o c, a, b, c)
      BY <2>1, <2>2, ThreeParts
    <2> HIDE DEF h
    <2> QED
      BY <1>1, <2>3
  <1> HIDE DEF h
  <1>6. Sent("AUTH") = IF o.password = Undefined THEN {} ELSE {1}
    BY <1>2, <1>3, <1>4, <1>5 DEF HasParts
  <1>7. o.password # Undefined => h[1] = a[1]
    BY <1>2, <1>5 DEF HasParts
  <1>8. Sent("SELECT") # {} <=> TruthyNumber(o.db)
    BY <1>2, <1>3, <1>4, <1>5 DEF HasParts
  <1>9. \A i \in Sent("SELECT") : h[i] = <<"SELECT", o.db>>
    BY <1>2, <1>3, <1>4, <1>5 DEF HasParts
  <1>10. Sent("SETNAME") # {} <=> Truthy(conn.name)
    BY <1>2, <1>3, <1>4, <1>5 DEF HasParts
  <1> QED
    BY <1>6, <1>7, <1>8, <1>9, <1>10 DEF h, o, a

-----------------------------------------------------------------------------
(* A URL's options and their handshake.                                    *)

\* No number is Undefined or NaN.
LEMMA Odd ==
    /\ \A n \in Int : n # Undefined /\ n # NaN
    /\ DefaultPort \in Int
    /\ \A t \in DOMAIN Numbers : Numbers[t] \in Int /\ t \notin {Undefined, ""}
  <1>1. Undefined \notin Int /\ NaN \notin Int
    BY NumberAssumption
  <1>2. \A n \in Int : n # Undefined /\ n # NaN
    BY <1>1
  <1>3. DefaultPort \in Int
    BY DEF DefaultPort
  <1>4. \A t \in DOMAIN Numbers : Numbers[t] \in Int /\ t \notin {Undefined, ""}
    BY NumberAssumption
  <1> QED
    BY <1>2, <1>3, <1>4

LEMMA PortNumber ==
    ASSUME NEW n \in Int
    PROVE  parsePortLike(n) = n
  BY Odd DEF parsePortLike

\* The options of a connection are those of its URL.
OptionsMatch(url, conn) ==
    LET o == conn.options
        db == IF url.path # "" THEN url.path ELSE url.queryDb
    IN  /\ o.password = IF url.password # "" THEN url.password ELSE url.queryPassword
        /\ o.username = IF url.username # "" THEN url.username ELSE Undefined
        /\ conn.name = IF url.username # "" THEN url.username ELSE Undefined
        /\ o.db = IF Truthy(db) THEN parseInt(db) ELSE Undefined
        /\ conn.port = IF url.port # "" THEN parseInt(url.port) ELSE DefaultPort

LEMMA OptionsOfTheURL ==
    ASSUME NEW url \in URLs, NEW b,
           NEW conn, conn = createRedisConnection(parseURL(url), b)
    PROVE  OptionsMatch(url, conn)
  <1> DEFINE db == IF url.path # "" THEN url.path ELSE url.queryDb
  <1>1. Undefined \notin {url.username, url.password, url.path}
    BY LazyAssumption
  <1>2. conn.options = parseURL(url)
    BY DEF createRedisConnection
  <1>3. /\ parseURL(url).password =
               IF url.password # "" THEN url.password ELSE url.queryPassword
        /\ parseURL(url).username = IF url.username # "" THEN url.username ELSE Undefined
    BY DEF parseURL
  <1>4. conn.name = IF url.username # "" THEN url.username ELSE Undefined
    BY <1>1 DEF createRedisConnection, parseURL, Truthy
  <1>5. parseURL(url).db = IF Truthy(db) THEN parseInt(db) ELSE Undefined
    BY DEF parseURL
  <1>6. url.port # "" => parseInt(url.port) # Undefined
    BY LazyAssumption, Odd DEF parseInt
  <1>7. conn.port = IF url.port # "" THEN parseInt(url.port) ELSE DefaultPort
    BY <1>6, Odd DEF createRedisConnection, parseURL
  <1> QED
    BY <1>2, <1>3, <1>4, <1>5, <1>7 DEF OptionsMatch

\* The database is selected when the text that names it is a number but 0.
LEMMA DatabaseOfTheURL ==
    ASSUME NEW text, NEW db, db = IF Truthy(text) THEN parseInt(text) ELSE Undefined
    PROVE  /\ TruthyNumber(db) <=> text \in {t \in DOMAIN Numbers : Numbers[t] # 0}
           /\ TruthyNumber(db) => db = Numbers[text]
  <1>1. CASE text \in DOMAIN Numbers
    <2>1. db = Numbers[text] /\ db # NaN /\ db # Undefined
      BY <1>1, Odd DEF Truthy, parseInt
    <2> QED
      BY <1>1, <2>1 DEF TruthyNumber
  <1>2. CASE text \notin DOMAIN Numbers
    BY <1>2 DEF Truthy, parseInt, TruthyNumber
  <1> QED
    BY <1>1, <1>2

LEMMA PortOfTheURL ==
    ASSUME NEW url \in URLs, NEW port,
           port = IF url.port # "" THEN parseInt(url.port) ELSE DefaultPort
    PROVE  parsePortLike(port) = IF url.port = "" THEN DefaultPort ELSE Numbers[url.port]
  <1>1. CASE url.port = ""
    BY <1>1, Odd, PortNumber
  <1>2. CASE url.port # ""
    <2>1. port = Numbers[url.port] /\ port \in Int
      BY <1>2, LazyAssumption, Odd DEF parseInt
    <2> QED
      BY <1>2, <2>1, PortNumber
  <1> QED
    BY <1>1, <1>2

LEMMA SetupHandshake ==
    ASSUME SetupShape
    PROVE  HandshakeOfTheURL
  <1> SUFFICES ASSUME setup.stage = "connection"
               PROVE  HandshakeOfTheURL
    BY DEF HandshakeOfTheURL
  <1> DEFINE url == setup.url
             conn == setup.conn
             o == conn.options
             h == Handshake(conn)
             Sent(name) == {i \in DOMAIN h : h[i][1] = name}
             password == {url.password, url.queryPassword} \ {"", Undefined}
             named == IF url.path # "" THEN url.path ELSE url.queryDb
  <1>1. PICK b \in Backoffs : url \in URLs /\ conn = createRedisConnection(parseURL(url), b)
    BY DEF SetupShape
  <1>2. /\ o.password = IF url.password # "" THEN url.password ELSE url.queryPassword
        /\ o.username = IF url.username # "" THEN url.username ELSE Undefined
        /\ conn.name = IF url.username # "" THEN url.username ELSE Undefined
        /\ o.db = IF Truthy(named) THEN parseInt(named) ELSE Undefined
        /\ conn.port = IF url.port # "" THEN parseInt(url.port) ELSE DefaultPort
    <2>1. OptionsMatch(setup.url, setup.conn)
      BY <1>1, OptionsOfTheURL
    <2> QED
      BY <2>1 DEF OptionsMatch
  <1>3. Undefined \notin {url.username, url.password, ""}
    BY <1>1, LazyAssumption, NumberAssumption
  <1>4. /\ Sent("AUTH") = IF o.password = Undefined THEN {} ELSE {1}
        /\ o.password # Undefined => h[1] = AuthPart(o)[1]
        /\ Sent("SELECT") # {} <=> TruthyNumber(o.db)
        /\ \A i \in Sent("SELECT") : h[i] = <<"SELECT", o.db>>
        /\ Sent("SETNAME") # {} <=> Truthy(conn.name)
    BY HandshakeRequests
  <1> HIDE DEF h
  <1>5. /\ TruthyNumber(o.db) <=> named \in {t \in DOMAIN Numbers : Numbers[t] # 0}
        /\ TruthyNumber(o.db) => o.db = Numbers[named]
    BY <1>2, DatabaseOfTheURL
  <1>6. parsePortLike(conn.port) = IF url.port = "" THEN DefaultPort ELSE Numbers[url.port]
    BY <1>1, <1>2, PortOfTheURL
  <1>7. /\ password # {} <=> Truthy(o.password)
        /\ Truthy(o.password) => o.password \in password
        /\ Truthy(o.username) <=> url.username # ""
    BY <1>2, <1>3 DEF Truthy
  <1>12. password # {} => 1 \in Sent("AUTH")
    BY <1>4, <1>7 DEF Truthy
  <1>8. url.password = "" /\ url.queryPassword = Undefined => Sent("AUTH") = {}
    BY <1>2, <1>4
  <1>9. ASSUME NEW i \in Sent("AUTH")
        PROVE  /\ i = 1
               /\ password # {} => h[i][Len(h[i])] \in password
               /\ Len(h[i]) = 3 <=> (url.username # "" /\ password # {})
    <2>1. i = 1 /\ o.password # Undefined /\ h[i] = AuthPart(o)[1]
      BY <1>4
    <2>2. CASE Truthy(o.password) /\ Truthy(o.username)
      <3>1. h[i] = <<"AUTH", o.username, o.password>>
        BY <2>1, <2>2 DEF AuthPart
      <3>2. h[i][Len(h[i])] = o.password /\ Len(h[i]) = 3
        BY <3>1
      <3> QED
        BY <1>7, <2>1, <2>2, <3>2
    <2>3. CASE ~ (Truthy(o.password) /\ Truthy(o.username))
      <3>1. h[i] = <<"AUTH", o.password>>
        BY <2>1, <2>3 DEF AuthPart
      <3>2. h[i][Len(h[i])] = o.password /\ Len(h[i]) = 2
        BY <3>1
      <3>3. password # {} => h[i][Len(h[i])] \in password
        BY <1>7, <3>2
      <3>4. ~ (url.username # "" /\ password # {})
        BY <1>7, <2>3
      <3>5. Len(h[i]) # 3
        BY <3>2
      <3> HIDE DEF password
      <3> QED
        BY <2>1, <3>3, <3>4, <3>5
    <2> QED
      BY <2>2, <2>3
  <1>10. ASSUME NEW i \in Sent("SELECT") PROVE h[i][2] = Numbers[named]
    <2>1. h[i] = <<"SELECT", o.db>> /\ TruthyNumber(o.db)
      BY <1>4
    <2>2. h[i][2] = o.db
      BY <2>1
    <2> QED
      BY <1>5, <2>1, <2>2
  <1>11. Sent("SETNAME") # {} <=> url.username # ""
    BY <1>2, <1>3, <1>4 DEF Truthy
  <1> QED
    BY <1>4, <1>5, <1>6, <1>7, <1>8, <1>9, <1>10, <1>11, <1>12
    DEF HandshakeOfTheURL, h

-----------------------------------------------------------------------------

LEMMA SetupInit ==
    ASSUME Init
    PROVE  SetupShape
  BY DEF Init, SetupShape

LEMMA SetupNext ==
    ASSUME SetupShape, [Next]_vars
    PROVE  SetupShape'
  <1>1. CASE setup' = setup
    BY <1>1 DEF SetupShape
  <1>2. ASSUME NEW b \in Backoffs, CreateConnection(b) PROVE SetupShape'
    BY <1>2 DEF CreateConnection, SetupShape
  <1>3. CASE CreateClient
    BY <1>3 DEF CreateClient, SetupShape
  <1> QED
    BY <1>1, <1>2, <1>3
    DEF Next, BootFibre, MuxFibre, UserClose, FirstExec, LaterExec, FirstGoesOn, FirstFails,
        Exchange, Cut, lazyVars, vars

\* What a Redis URL says reaches the server (redis.ts parseURL(), connection.ts
\* constructor): AUTH first, with the password of either place and the user if there
\* is one; SELECT of the database it names, if that is a number but 0; SETNAME with
\* the user; and the port it is dialled on.
THEOREM URLReachesServer == Spec => []HandshakeOfTheURL
  <1>1. Init => SetupShape
    BY SetupInit
  <1>2. SetupShape /\ [Next]_vars => SetupShape'
    BY SetupNext
  <1>3. SetupShape => HandshakeOfTheURL
    BY SetupHandshake
  <1> QED
    BY <1>1, <1>2, <1>3, PTL DEF Spec

-----------------------------------------------------------------------------
(* Induction over numbers without an induction rule: of the numbers for     *)
(* which something fails, one would be the least.                           *)

\* A set that holds 0, and the successor of each number it holds, holds them all.
LEMMA LeastCounterexample ==
    ASSUME NEW Good, 0 \in Good, \A n \in Nat : n \in Good => n + 1 \in Good
    PROVE  Nat \subseteq Good
  <1> DEFINE Bad == Nat \ Good
             R == OpToRel(<, Nat)
  <1> SUFFICES ASSUME Bad # {} PROVE FALSE
    OBVIOUS
  <1>1. PICK n \in Bad : \A m \in Bad : <<m, n>> \notin R
    BY WFMin, NatLessThanWellFounded
  <1>2. \A m \in Nat : m < n => m \in Good
    BY <1>1 DEF OpToRel
  <1>3. n - 1 \in Nat /\ n - 1 < n /\ (n - 1) + 1 = n
    <2>1. n \in Nat /\ n # 0
      BY <1>1
    <2> QED
      BY <2>1
  <1> QED
    BY <1>1, <1>2, <1>3

-----------------------------------------------------------------------------
(* Powers.                                                                 *)

\* g holds the powers of base up to the one of `top`.
Powers(base, top, g) ==
    g = [n \in 0..top |-> IF n = 0 THEN One ELSE Times(base, g[n - 1])]

LEMMA PowersExist ==
    ASSUME NEW base
    PROVE  \A top \in Nat : \E g : Powers(base, top, g)
  <1> DEFINE Good == {top \in Nat : \E g : Powers(base, top, g)}
  <1>1. 0 \in Good
    <2>1. Powers(base, 0, [n \in 0..0 |-> One])
      BY DEF Powers
    <2> QED
      BY <2>1
  <1>2. ASSUME NEW top \in Nat, top \in Good PROVE top + 1 \in Good
    <2>1. PICK g : Powers(base, top, g)
      BY <1>2
    <2> DEFINE h == [n \in 0 .. top + 1 |->
                        IF n = top + 1 THEN Times(base, g[top]) ELSE g[n]]
    <2>2. \A n \in 0 .. top : h[n] = g[n]
      OBVIOUS
    <2>3. ASSUME NEW n \in 0 .. top + 1
          PROVE  h[n] = IF n = 0 THEN One ELSE Times(base, h[n - 1])
      <3>1. CASE n = top + 1
        <4>1. h[n] = Times(base, g[top]) /\ n # 0 /\ n - 1 = top /\ top \in 0 .. top
          BY <3>1
        <4>2. h[n - 1] = g[top]
          BY <2>2, <4>1
        <4> QED
          BY <4>1, <4>2
      <3>2. CASE n \in 0 .. top
        <4>1. h[n] = g[n]
          BY <2>2, <3>2
        <4>2. g[n] = IF n = 0 THEN One ELSE Times(base, g[n - 1])
          BY <2>1, <3>2 DEF Powers
        <4>3. n # 0 => n - 1 \in 0 .. top /\ h[n - 1] = g[n - 1]
          BY <2>2, <3>2
        <4> QED
          BY <4>1, <4>2, <4>3
      <3> QED
        BY <3>1, <3>2
    <2> HIDE DEF h
    <2>4. h = [n \in 0 .. top + 1 |-> h[n]]
      BY DEF h
    <2>5. Powers(base, top + 1, h)
      BY <2>3, <2>4 DEF Powers
    <2> QED
      BY <2>5
  <1> HIDE DEF Good
  <1>3. Nat \subseteq Good
    BY <1>1, <1>2, LeastCounterexample
  <1> QED
    BY <1>3 DEF Good

LEMMA PowersAgree ==
    ASSUME NEW base, NEW a \in Nat, NEW b \in Nat, a <= b,
           NEW g, Powers(base, a, g), NEW h, Powers(base, b, h)
    PROVE  \A n \in 0 .. a : g[n] = h[n]
  <1> DEFINE Good == {n \in Nat : n <= a => g[n] = h[n]}
  <1>1. \A n \in 0 .. a : g[n] = IF n = 0 THEN One ELSE Times(base, g[n - 1])
    BY DEF Powers
  <1>2. \A n \in 0 .. b : h[n] = IF n = 0 THEN One ELSE Times(base, h[n - 1])
    BY DEF Powers
  <1>3. 0 \in Good
    BY <1>1, <1>2
  <1>4. ASSUME NEW n \in Nat, n \in Good PROVE n + 1 \in Good
    <2> SUFFICES ASSUME n + 1 <= a PROVE g[n + 1] = h[n + 1]
      OBVIOUS
    <2>1. n + 1 \in 0 .. a /\ n + 1 \in 0 .. b /\ n + 1 # 0 /\ (n + 1) - 1 = n
      OBVIOUS
    <2>2. g[n] = h[n]
      BY <1>4
    <2> QED
      BY <1>1, <1>2, <2>1, <2>2
  <1> HIDE DEF Good
  <1>5. Nat \subseteq Good
    BY <1>3, <1>4, LeastCounterexample
  <1> QED
    BY <1>5 DEF Good

\* What ToThe() is: 1, counted in One, and a product more for each attempt.
LEMMA PowerSteps ==
    ASSUME NEW base
    PROVE  /\ ToThe(base, 0) = One
           /\ \A n \in Nat : ToThe(base, n + 1) = Times(base, ToThe(base, n))
  <1> DEFINE P(top) == CHOOSE g : Powers(base, top, g)
  <1>1. \A top \in Nat : Powers(base, top, P(top))
    BY PowersExist
  <1>2. \A top : ToThe(base, top) = P(top)[top]
    BY DEF ToThe, Powers
  <1> HIDE DEF P
  <1>3. ToThe(base, 0) = One
    BY <1>1, <1>2 DEF Powers
  <1>4. ASSUME NEW n \in Nat PROVE ToThe(base, n + 1) = Times(base, ToThe(base, n))
    <2>1. Powers(base, n, P(n)) /\ Powers(base, n + 1, P(n + 1)) /\ n <= n + 1
      BY <1>1
    <2>2. P(n)[n] = P(n + 1)[n]
      BY <2>1, PowersAgree
    <2>3. P(n + 1)[n + 1] = Times(base, P(n + 1)[n])
      BY <2>1 DEF Powers
    <2> QED
      BY <1>2, <2>2, <2>3
  <1> QED
    BY <1>3, <1>4
-----------------------------------------------------------------------------
(* Products, powers and delays of doubles.                                 *)

Doubles == 0..Huge \cup {Inf}

LEMMA Bounds ==
    /\ One \in Nat \ {0} /\ Huge \in Nat /\ Inf \in Nat /\ One <= Huge /\ Huge < Inf
    /\ \A n \in Int : n # NaN
    /\ MaxAttempts \in Nat
    /\ 0 \in Doubles /\ One \in Doubles /\ Doubles \subseteq Nat
    /\ \A x \in Doubles : x # Inf <=> x <= Huge
  <1>1. One \in Nat \ {0} /\ Huge \in Nat /\ Inf \in Nat /\ One <= Huge /\ Huge < Inf
    BY NumberAssumption
  <1>2. NaN \notin Int
    BY NumberAssumption
  <1>3. MaxAttempts \in Nat
    BY LazyAssumption
  <1>4. 0 \in Doubles /\ One \in Doubles /\ Doubles \subseteq Nat
    BY <1>1 DEF Doubles
  <1>5. \A n \in Int : n # NaN
    BY <1>2
  <1>6. \A x \in Doubles : x # Inf <=> x <= Huge
    BY <1>1 DEF Doubles
  <1> QED
    BY <1>1, <1>3, <1>4, <1>5, <1>6

\* Rounding down: what it is, and that it keeps the order.
LEMMA Rounding ==
    ASSUME NEW d \in Nat \ {0}
    PROVE  /\ \A x \in Nat : x \div d \in Nat
           /\ \A x \in Nat, q \in Nat : d * q <= x => q <= x \div d
           /\ \A x \in Nat, q \in Nat : x <= d * q => x \div d <= q
           /\ \A x \in Nat, y \in Nat : x <= y => x \div d <= y \div d
  <1> DEFINE q(x) == x \div d
             r(x) == x % d
  <1>1. \A x \in Nat : q(x) \in Int /\ r(x) \in 0 .. d - 1 /\ x = d * q(x) + r(x)
    OBVIOUS
  <1> HIDE DEF q, r
  <1>2. ASSUME NEW a \in Int, NEW b \in Int, d * a <= d * b + (d - 1) PROVE a <= b
    <2> SUFFICES ASSUME b + 1 <= a PROVE FALSE
      BY <1>2
    <2>1. d * (b + 1) <= d * a
      <3>1. PICK k \in Nat : a = (b + 1) + k
        <4>1. a - (b + 1) \in Nat /\ a = (b + 1) + (a - (b + 1))
          OBVIOUS
        <4> QED
          BY <4>1
      <3>2. d * a = d * (b + 1) + d * k /\ d * k \in Nat
        BY <3>1
      <3> QED
        BY <3>2
    <2>2. d * (b + 1) = d * b + d
      OBVIOUS
    <2> QED
      BY <1>2, <2>1, <2>2
  <1>3. ASSUME NEW x \in Nat PROVE q(x) \in Nat
    <2> SUFFICES ASSUME q(x) <= -1 PROVE FALSE
      BY <1>1
    <2>1. PICK k \in Nat : q(x) = -1 - k
      <3>1. -1 - q(x) \in Nat /\ q(x) = -1 - (-1 - q(x))
        BY <1>1
      <3> QED
        BY <3>1
    <2>2. d * q(x) = - d - d * k /\ d * k \in Nat
      BY <2>1
    <2>3. x = (- d - d * k) + r(x) /\ r(x) <= d - 1 /\ r(x) \in Nat
      BY <1>1, <2>2
    <2> QED
      BY <2>2, <2>3
  <1>4. ASSUME NEW x \in Nat, NEW a \in Nat, d * a <= x PROVE a <= q(x)
    <2>1. d * a <= d * q(x) + (d - 1)
      BY <1>1, <1>4
    <2> QED
      BY <1>2, <1>3, <2>1
  <1>5. ASSUME NEW x \in Nat, NEW a \in Nat, x <= d * a PROVE q(x) <= a
    <2>1. d * q(x) <= d * a + (d - 1)
      BY <1>1, <1>5
    <2> QED
      BY <1>2, <1>3, <2>1
  <1>6. ASSUME NEW x \in Nat, NEW y \in Nat, x <= y PROVE q(x) <= q(y)
    <2>1. d * q(x) <= d * q(y) + (d - 1)
      BY <1>1, <1>6
    <2> QED
      BY <1>2, <1>3, <2>1
  <1> QED
    BY <1>3, <1>4, <1>5, <1>6 DEF q

\* A product is a double, unless it is of 0 and Infinity; a factor of 1 or more never
\* makes it smaller, one of 1 or less never greater.
LEMMA ProductOf ==
    ASSUME NEW a \in Doubles, NEW b \in Doubles
    PROVE  /\ (a = 0 /\ b = Inf) \/ (a = Inf /\ b = 0) => Times(a, b) = NaN
           /\ ~ (a = 0 /\ b = Inf) /\ ~ (a = Inf /\ b = 0) =>
                /\ Times(a, b) \in Doubles
                /\ a >= One => Times(a, b) >= b
                /\ a <= One => Times(a, b) <= b
           /\ a = 0 /\ b # Inf => Times(a, b) = 0
           /\ b = One => Times(a, b) = a
  <1> DEFINE x == a * b
             y == x \div One
  <1>1. /\ One \in Nat \ {0} /\ Huge \in Nat /\ Inf \in Nat /\ One <= Huge /\ Huge < Inf
        /\ a \in Nat /\ b \in Nat /\ (a # Inf <=> a <= Huge) /\ (b # Inf <=> b <= Huge)
    BY Bounds
  <1>2. x \in Nat
    BY <1>1
  <1>3. a >= One => One * b <= x
    <2> SUFFICES ASSUME a >= One PROVE One * b <= x
      OBVIOUS
    <2>1. a - One \in Nat /\ a = One + (a - One)
      BY <1>1
    <2>2. x = One * b + (a - One) * b /\ (a - One) * b \in Nat
      BY <1>1, <2>1
    <2> QED
      BY <1>1, <2>2
  <1>4. a <= One => x <= One * b
    <2> SUFFICES ASSUME a <= One PROVE x <= One * b
      OBVIOUS
    <2>1. One - a \in Nat /\ One = a + (One - a)
      BY <1>1
    <2>2. One * b = x + (One - a) * b /\ (One - a) * b \in Nat
      BY <1>1, <2>1
    <2> QED
      BY <1>1, <1>2, <2>2
  <1>5. b = One => x = One * a
    BY <1>1
  <1>6. a = 0 => x = One * 0
    BY <1>1
  <1> HIDE DEF x
  <1>7. /\ y \in Nat
        /\ a >= One => y >= b
        /\ a <= One => y <= b
        /\ b = One => y = a
        /\ a = 0 => y = 0
    <2>1. y \in Nat
      BY <1>1, <1>2, Rounding
    <2>2. a >= One => b <= y
      BY <1>1, <1>2, <1>3, Rounding
    <2>3. a <= One => y <= b
      BY <1>1, <1>2, <1>4, Rounding
    <2>4. b = One => a <= y /\ y <= a
      <3> SUFFICES ASSUME b = One PROVE a <= y /\ y <= a
        OBVIOUS
      <3>1. One * a <= x /\ x <= One * a
        BY <1>2, <1>5
      <3> QED
        BY <1>1, <1>2, <3>1, Rounding
    <2>5. a = 0 => y <= 0
      <3> SUFFICES ASSUME a = 0 PROVE y <= 0
        OBVIOUS
      <3>1. x <= One * 0
        BY <1>2, <1>6
      <3> QED
        BY <1>1, <1>2, <3>1, Rounding
    <2> HIDE DEF y
    <2> QED
      BY <1>1, <2>1, <2>2, <2>3, <2>4, <2>5
  <1>8. Times(a, b) = IF (a = 0 /\ b = Inf) \/ (a = Inf /\ b = 0) THEN NaN
                      ELSE IF a = Inf \/ b = Inf \/ y > Huge THEN Inf ELSE y
    BY DEF Times, x
  <1> HIDE DEF y
  <1> QED
    BY <1>1, <1>7, <1>8 DEF Doubles

LEMMA ProductGrows ==
    ASSUME NEW a \in 1..Huge, NEW b \in Doubles, NEW c \in Doubles, b <= c
    PROVE  Times(a, b) <= Times(a, c)
  <1> DEFINE x == a * b
             y == a * c
  <1>1. /\ One \in Nat \ {0} /\ Huge \in Nat /\ Inf \in Nat /\ Huge < Inf
        /\ a \in Nat /\ b \in Nat /\ c \in Nat /\ a # Inf /\ a # 0
        /\ (b # Inf <=> b <= Huge) /\ (c # Inf <=> c <= Huge)
    BY Bounds
  <1>2. x \in Nat /\ y \in Nat /\ x <= y
    <2>1. PICK k \in Nat : c = b + k
      <3>1. c - b \in Nat /\ c = b + (c - b)
        BY <1>1
      <3> QED
        BY <3>1
    <2>2. y = x + a * k /\ a * k \in Nat /\ x \in Nat
      BY <1>1, <2>1
    <2> QED
      BY <2>2
  <1> HIDE DEF x, y
  <1>3. x \div One \in Nat /\ y \div One \in Nat /\ x \div One <= y \div One
    BY <1>1, <1>2, Rounding
  <1>4. /\ Times(a, b) = IF b = Inf \/ x \div One > Huge THEN Inf ELSE x \div One
        /\ Times(a, c) = IF c = Inf \/ y \div One > Huge THEN Inf ELSE y \div One
    BY <1>1 DEF Times, x, y
  <1> QED
    BY <1>1, <1>3, <1>4

\* The powers: never NaN; of a base of 1 or more never below 1, of a base of 1 or less
\* never above.
LEMMA PowerTypes ==
    ASSUME NEW base \in Doubles
    PROVE  \A n \in Nat :
               /\ ToThe(base, n) \in Doubles
               /\ base >= One => ToThe(base, n) >= One
               /\ base <= One => ToThe(base, n) <= One
  <1> DEFINE p(n) == ToThe(base, n)
             Good == {n \in Nat : /\ p(n) \in Doubles
                                  /\ base >= One => p(n) >= One
                                  /\ base <= One => p(n) <= One}
  <1>1. /\ One \in Nat \ {0} /\ Huge \in Nat /\ Inf \in Nat /\ One <= Huge /\ Huge < Inf
        /\ base \in Nat
    BY Bounds
  <1>2. p(0) = One /\ \A n \in Nat : p(n + 1) = Times(base, p(n))
    BY PowerSteps
  <1> HIDE DEF p
  <1>3. 0 \in Good
    BY <1>1, <1>2, Bounds
  <1>4. ASSUME NEW n \in Nat, n \in Good PROVE n + 1 \in Good
    <2>1. /\ p(n) \in Doubles /\ p(n) \in Nat /\ p(n + 1) = Times(base, p(n))
          /\ base >= One => p(n) >= One
          /\ base <= One => p(n) <= One
      BY <1>2, <1>4, Bounds
    <2>2. ~ (base = 0 /\ p(n) = Inf) /\ ~ (base = Inf /\ p(n) = 0)
      BY <1>1, <2>1
    <2>3. /\ p(n + 1) \in Doubles
          /\ base >= One => p(n + 1) >= p(n)
          /\ base <= One => p(n + 1) <= p(n)
      BY <2>1, <2>2, ProductOf
    <2>4. p(n + 1) \in Nat
      BY <2>3, Bounds
    <2> QED
      BY <1>1, <2>1, <2>3, <2>4
  <1> HIDE DEF Good
  <1>5. Nat \subseteq Good
    BY <1>3, <1>4, LeastCounterexample
  <1> QED
    BY <1>5 DEF Good, p

LEMMA LeastTypes ==
    ASSUME NEW m \in Doubles, NEW x \in Doubles
    PROVE  LeastOf(m, x) \in 0..m /\ LeastOf(m, x) <= x /\ LeastOf(m, x) = LeastOf(x, m)
  <1>1. m \in Nat /\ x \in Nat
    BY Bounds
  <1>2. m # NaN /\ x # NaN
    BY <1>1, Bounds
  <1>3. LeastOf(m, x) = (IF m < x THEN m ELSE x) /\ LeastOf(x, m) = (IF x < m THEN x ELSE m)
    BY <1>2 DEF LeastOf
  <1> QED
    BY <1>1, <1>3

LEMMA LeastGrows ==
    ASSUME NEW m \in Doubles, NEW x \in Doubles, NEW y \in Doubles, x <= y
    PROVE  LeastOf(m, x) <= LeastOf(m, y)
  <1>1. m \in Nat /\ x \in Nat /\ y \in Nat
    BY Bounds
  <1>2. m # NaN /\ x # NaN /\ y # NaN
    BY <1>1, Bounds
  <1>3. LeastOf(m, x) = (IF m < x THEN m ELSE x) /\ LeastOf(m, y) = (IF m < y THEN m ELSE y)
    BY <1>2 DEF LeastOf
  <1> QED
    BY <1>1, <1>3

LEMMA DelayTypes ==
    ASSUME NEW b \in Backoffs
    PROVE  /\ b.multiplier \in Doubles /\ b.minInterval \in 0..Huge /\ b.maxInterval \in Doubles
           /\ b.minInterval \in Doubles
           /\ \A n \in Nat \ {0} :
                /\ ToThe(b.multiplier, n - 1) \in Doubles
                /\ exponentialBackoff(b, n) =
                      LeastOf(b.maxInterval, Times(b.minInterval, ToThe(b.multiplier, n - 1)))
  <1>1. /\ b.multiplier \in Doubles /\ b.minInterval \in 0..Huge /\ b.maxInterval \in Doubles
        /\ b.minInterval \in Doubles
    BY LazyAssumption DEF Doubles
  <1>2. ASSUME NEW n \in Nat \ {0} PROVE ToThe(b.multiplier, n - 1) \in Doubles
    <2>1. n - 1 \in Nat
      OBVIOUS
    <2> QED
      BY <1>1, <2>1, PowerTypes
  <1> QED
    BY <1>1, <1>2 DEF exponentialBackoff

\* Without a minimum there is no delay, until the power overflows.
LEMMA DelayFromZero ==
    ASSUME NEW b \in Backoffs, b.minInterval = 0, NEW n \in Nat \ {0}
    PROVE  exponentialBackoff(b, n) \in {0, NaN}
  <1> DEFINE p == ToThe(b.multiplier, n - 1)
             t == Times(b.minInterval, p)
  <1>1. p \in Doubles /\ exponentialBackoff(b, n) = LeastOf(b.maxInterval, t)
    BY DelayTypes
  <1>2. t = NaN \/ t = 0
    <2>1. b.minInterval \in Doubles
      BY DelayTypes
    <2> QED
      BY <1>1, <2>1, ProductOf
  <1> HIDE DEF t
  <1>3. CASE t = NaN
    BY <1>1, <1>3 DEF LeastOf
  <1>4. CASE t = 0
    <2>1. 0 \in Doubles
      BY Bounds
    <2>2. LeastOf(b.maxInterval, 0) \in 0..b.maxInterval /\ LeastOf(b.maxInterval, 0) <= 0
      BY <2>1, DelayTypes, LeastTypes
    <2>3. b.maxInterval \in Nat
      BY DelayTypes, Bounds
    <2> QED
      BY <1>1, <1>4, <2>2, <2>3
  <1> QED
    BY <1>2, <1>3, <1>4

LEMMA DelayFromMinimum ==
    ASSUME NEW b \in Backoffs, b.minInterval # 0
    PROVE  /\ exponentialBackoff(b, 1) = LeastOf(b.minInterval, b.maxInterval)
           /\ \A n \in Nat \ {0} : exponentialBackoff(b, n) \in 0..b.maxInterval
           /\ \A n \in Nat \ {0, 1} :
                /\ b.multiplier >= One =>
                       exponentialBackoff(b, n) >= exponentialBackoff(b, n - 1)
                /\ b.multiplier <= One =>
                       exponentialBackoff(b, n) <= exponentialBackoff(b, n - 1)
  <1> DEFINE p(n) == ToThe(b.multiplier, n - 1)
             t(n) == Times(b.minInterval, p(n))
             D(n) == exponentialBackoff(b, n)
  <1>1. /\ b.multiplier \in Doubles /\ b.minInterval \in 1..Huge /\ b.maxInterval \in Doubles
        /\ b.minInterval \in Doubles /\ b.minInterval # Inf
    BY DelayTypes, Bounds
  <1>2. \A n \in Nat \ {0} : p(n) \in Doubles /\ D(n) = LeastOf(b.maxInterval, t(n))
    BY DelayTypes
  <1>3. \A n \in Nat \ {0} : t(n) \in Doubles
    BY <1>1, <1>2, ProductOf
  <1>4. D(1) = LeastOf(b.minInterval, b.maxInterval)
    <2>1. 1 - 1 = 0 /\ 1 \in Nat \ {0}
      OBVIOUS
    <2>2. p(1) = One
      BY <2>1, PowerSteps
    <2>3. t(1) = b.minInterval
      BY <1>1, <1>2, <2>1, <2>2, ProductOf
    <2> QED
      BY <1>1, <1>2, <2>1, <2>3, LeastTypes
  <1>5. \A n \in Nat \ {0} : D(n) \in 0..b.maxInterval
    BY <1>1, <1>2, <1>3, LeastTypes
  <1>6. ASSUME NEW n \in Nat \ {0, 1}
        PROVE  /\ b.multiplier >= One => D(n) >= D(n - 1)
               /\ b.multiplier <= One => D(n) <= D(n - 1)
    <2>1. /\ n \in Nat \ {0} /\ n - 1 \in Nat \ {0}
          /\ (n - 1) - 1 \in Nat /\ ((n - 1) - 1) + 1 = n - 1
      OBVIOUS
    <2>2. p(n) = Times(b.multiplier, p(n - 1))
      BY <2>1, PowerSteps
    <2>3. /\ b.multiplier >= One => p(n - 1) >= One
          /\ b.multiplier <= One => p(n - 1) <= One
      BY <1>1, <2>1, PowerTypes
    <2>4. p(n) \in Doubles /\ p(n - 1) \in Doubles
      BY <1>2, <2>1
    <2> HIDE DEF p
    <2>5. ~ (b.multiplier = 0 /\ p(n - 1) = Inf) /\ ~ (b.multiplier = Inf /\ p(n - 1) = 0)
      <3>1. b.multiplier \in Nat /\ p(n - 1) \in Nat
        BY <1>1, <2>4, Bounds
      <3> QED
        BY <2>3, <3>1, Bounds
    <2>6. /\ b.multiplier >= One => p(n) >= p(n - 1)
          /\ b.multiplier <= One => p(n) <= p(n - 1)
      BY <1>1, <2>2, <2>4, <2>5, ProductOf
    <2>7. /\ b.multiplier >= One => p(n - 1) <= p(n)
          /\ b.multiplier <= One => p(n) <= p(n - 1)
      <3>1. p(n) \in Nat /\ p(n - 1) \in Nat
        BY <2>4, Bounds
      <3> QED
        BY <2>6, <3>1
    <2>8. /\ b.multiplier >= One => t(n - 1) <= t(n)
          /\ b.multiplier <= One => t(n) <= t(n - 1)
      BY <1>1, <2>4, <2>7, ProductGrows
    <2>9. t(n) \in Doubles /\ t(n - 1) \in Doubles
      BY <1>3, <2>1
    <2> HIDE DEF t
    <2>10. /\ b.multiplier >= One => LeastOf(b.maxInterval, t(n - 1)) <= LeastOf(b.maxInterval, t(n))
           /\ b.multiplier <= One => LeastOf(b.maxInterval, t(n)) <= LeastOf(b.maxInterval, t(n - 1))
      BY <1>1, <2>8, <2>9, LeastGrows
    <2>11. D(n - 1) \in Int /\ D(n) \in Int
      <3>1. b.maxInterval \in Nat
        BY <1>1, Bounds
      <3> QED
        BY <1>5, <2>1, <3>1
    <2>12. D(n) = LeastOf(b.maxInterval, t(n)) /\ D(n - 1) = LeastOf(b.maxInterval, t(n - 1))
      BY <1>2, <2>1
    <2> HIDE DEF D
    <2> QED
      BY <2>10, <2>11, <2>12
  <1> QED
    BY <1>4, <1>5, <1>6

\* The delays between two dials (backoff.ts:31), for any number of attempts and any
\* options that are not negative, fractions and Infinity included: they begin with the
\* minimum, never exceed the maximum, and never shrink with a multiplier of 1 or more,
\* never grow with one of 1 or less, also when the power is Infinity or rounds to 0.
THEOREM DelaysAreAsConfigured == Spec => []DelaysFollowTheOptions
  <1>1. SetupShape => DelaysFollowTheOptions
    <2> SUFFICES ASSUME SetupShape, setup.stage = "connection"
                 PROVE  DelaysFollowTheOptions
      BY DEF DelaysFollowTheOptions
    <2> DEFINE b == setup.conn.backoff
    <2>1. b \in Backoffs
      <3>1. PICK o \in Backoffs : setup.conn = createRedisConnection(parseURL(setup.url), o)
        BY DEF SetupShape
      <3>2. createRedisConnection(parseURL(setup.url), o).backoff = o
        BY DEF createRedisConnection
      <3> QED
        BY <3>1, <3>2
    <2>2. \A n \in 1..MaxAttempts : n \in Nat \ {0}
      BY Bounds
    <2>3. \A n \in 2..MaxAttempts : n \in Nat \ {0, 1}
      BY Bounds
    <2> HIDE DEF b
    <2>4. CASE b.minInterval = 0
      <3>1. \A n \in 1..MaxAttempts : exponentialBackoff(b, n) \in {0, NaN}
        BY <2>1, <2>2, <2>4, DelayFromZero
      <3> QED
        BY <2>4, <3>1 DEF DelaysFollowTheOptions, b
    <2>5. CASE b.minInterval # 0
      <3>1. exponentialBackoff(b, 1) = LeastOf(b.minInterval, b.maxInterval)
        BY <2>1, <2>5, DelayFromMinimum
      <3>2. \A n \in 1..MaxAttempts : exponentialBackoff(b, n) \in 0..b.maxInterval
        BY <2>1, <2>2, <2>5, DelayFromMinimum
      <3>3. \A n \in 2..MaxAttempts :
                /\ b.multiplier >= One =>
                       exponentialBackoff(b, n) >= exponentialBackoff(b, n - 1)
                /\ b.multiplier <= One =>
                       exponentialBackoff(b, n) <= exponentialBackoff(b, n - 1)
        BY <2>1, <2>3, <2>5, DelayFromMinimum
      <3> QED
        BY <2>5, <3>1, <3>2, <3>3 DEF DelaysFollowTheOptions, b
    <2> QED
      BY <2>4, <2>5
  <1>2. Init => SetupShape
    BY SetupInit
  <1>3. SetupShape /\ [Next]_vars => SetupShape'
    BY SetupNext
  <1> QED
    BY <1>1, <1>2, <1>3, PTL DEF Spec

-----------------------------------------------------------------------------
(* Whose turn it is: the fibre of the first exec() dials, the executor's    *)
(* waits; then it is the executor's, for good.                              *)

\* Whoever waits for the first command: until connect() has returned the turn is
\* the first exec()'s, and the executor has nothing to do; then it is the
\* executor's.
Waits ==
    /\ first # None =>
         hasExecutor /\ InTurn(Boot) /\ task[Boot].pc # "idle" /\ ~ isProcessing
    /\ first = None =>
         InTurn(Mux) /\ (hasExecutor => task[Boot].pc \in {"ok", "failed"})

\* A client without an executor has dialled nothing.
Untouched ==
    ~ hasExecutor =>
        /\ ~ isProcessing /\ task[Boot].pc = "idle"
        /\ \A s \in Sockets : rid[s] # "open"

LazyInv ==
    /\ overtaken \in BOOLEAN /\ first \in Commands \cup {None}
    /\ ~ overtaken => Waits /\ Untouched /\ MuxRests

LEMMA LazyFibers ==
    /\ Mux \in Fibers \ Receivers /\ Boot \in Fibers \ Receivers /\ Boot # Mux
    /\ Boot \in Fibers \ {Mux} /\ Mux \in Fibers \ {Boot}
    /\ None \notin Commands
  BY LazyAssumption, MuxAssumption

LEMMA InitLazyInv ==
    ASSUME Init
    PROVE  LazyInv
  <1>1. WireInit /\ ConnInit /\ MuxInit /\ hasExecutor = FALSE /\ first = None
        /\ overtaken = FALSE
    BY DEF Init
  <1>2. InTurn(Mux) /\ MuxRests
    BY <1>1, InitTurn
  <1>3. Untouched
    BY <1>1, LazyFibers, NoTaskType DEF Untouched, WireInit, ConnInit, MuxInit
  <1> QED
    BY <1>1, <1>2, <1>3 DEF LazyInv, Waits

\* While connect() is awaited the executor waits for nothing.
LEMMA FirstsTurn ==
    ASSUME LazyInv, ~ overtaken, first # None
    PROVE  /\ InTurn(Boot) /\ hasExecutor /\ ~ isProcessing /\ MuxRests
           /\ task[Boot].pc # "idle" /\ first \in Commands
           /\ task[Mux].pc = "idle" /\ call[Mux].st = "idle" /\ ErrorsOf(Mux)
  BY DEF LazyInv, Waits, MuxRests, ErrorsOf

LEMMA ExecutorsTurn ==
    ASSUME LazyInv, ~ overtaken, first = None
    PROVE  /\ InTurn(Mux) /\ MuxRests /\ Untouched /\ Rests(Boot)
           /\ hasExecutor => task[Boot].pc \in {"ok", "failed"}
  BY LazyFibers DEF LazyInv, Waits, InTurn, Others

\* A fibre at rest takes no step of a call, of connect() or of dequeue().
LEMMA RestsIsStill ==
    ASSUME NEW f \in Fibers, Rests(f)
    PROVE  ~ CallStep(f) /\ ~ ConnStep(f)
  BY DEF Rests, CallStep, WriteOk, WriteFails, StartRead, ReadReply, ReadFails, ConnStep,
         DialOk, DialFails, HelloStep, HelloFails, DelayOver, PingOk, PingFails, RePing

LEMMA BootFibreInv ==
    ASSUME LazyInv, ~ overtaken, BootFibre
    PROVE  LazyInv'
  <1>1. first # None
    <2>1. first = None => ~ CallStep(Boot) /\ ~ ConnStep(Boot)
      BY ExecutorsTurn, RestsIsStill, LazyFibers
    <2> QED
      BY <2>1 DEF BootFibre, FirstGoesOn, FirstFails
  <1>2. /\ InTurn(Boot) /\ hasExecutor /\ ~ isProcessing /\ MuxRests
        /\ task[Boot].pc # "idle" /\ first \in Commands
        /\ task[Mux].pc = "idle" /\ ErrorsOf(Mux) /\ call[Mux].st = "idle"
    BY <1>1, FirstsTurn
  <1>3. CASE (CallStep(Boot) /\ UNCHANGED <<connVars, muxVars, lazyVars>>)
             \/ (ConnStep(Boot) /\ UNCHANGED <<muxVars, lazyVars>>)
    <2>1. InTurn(Boot)'
      BY <1>2, <1>3, LazyFibers, CallStepTurn, ConnStepTurn
    <2>2. task'[Boot].pc # "idle" /\ task'[Mux].pc = "idle"
      <3>1. task \in [Fibers -> Tasks]
        BY <1>2 DEF InTurn, TypesOK, ConnTypeOK
      <3>2. CASE UNCHANGED connVars
        BY <1>2, <3>2 DEF connVars
      <3>3. CASE ConnStep(Boot)
        BY <1>2, <3>1, <3>3, LazyFibers, ConnStepTasks DEF SameTasks
      <3> QED
        BY <1>3, <3>2, <3>3
    <2>3. MuxRests'
      BY <2>1, <2>2, LazyFibers DEF InTurn, Others, Rests, MuxRests
    <2>4. UNCHANGED <<isProcessing, hasExecutor, first, overtaken>>
      BY <1>3 DEF muxVars, lazyVars, execVars
    <2> QED
      BY <1>1, <1>2, <2>1, <2>2, <2>3, <2>4 DEF LazyInv, Waits, Untouched
  <1>4. CASE FirstGoesOn
    <2>1. /\ task[Boot].pc = "ok" /\ first' = None /\ UNCHANGED <<hasExecutor, overtaken>>
          /\ UNCHANGED task
      BY <1>4 DEF FirstGoesOn, Exec, ExecRefused, connVars
    <2>2. Rests(Boot)
      BY <1>2, <2>1 DEF Rests, InTurn, TaskOf, BudgetOf
    <2>3. InTurn(Mux)
      BY <1>2, <2>2, LazyFibers, TurnPasses
    <2>4. InTurn(Mux)' /\ MuxRests'
      BY <1>2, <1>4, <2>3, LazyFibers, ExecTurn, ExecRefusedTurn DEF FirstGoesOn
    <2> QED
      BY <1>2, <2>1, <2>4 DEF LazyInv, Waits, Untouched
  <1>5. CASE FirstFails
    <2>1. /\ task[Boot].pc = "failed" /\ first' = None /\ UNCHANGED <<hasExecutor, overtaken>>
          /\ settled' = [settled EXCEPT ![first] = task[Boot].err]
          /\ UNCHANGED <<queue, isProcessing, retries, connVars, wireVars>> /\ UNCHANGED task
      BY <1>5 DEF FirstFails, connVars
    <2>2. Rests(Boot) /\ PassedOn(task[Boot].err)
      BY <1>2, <2>1 DEF Rests, InTurn, TaskOf, BudgetOf, ErrorsOf
    <2>3. InTurn(Mux)
      BY <1>2, <2>2, LazyFibers, TurnPasses
    <2>4. InTurn(Mux)' /\ MuxRests'
      BY <1>2, <2>1, <2>2, <2>3, LazyFibers, SettleTurn
    <2> QED
      BY <1>2, <2>1, <2>4 DEF LazyInv, Waits, Untouched
  <1> QED
    BY <1>3, <1>4, <1>5 DEF BootFibre

LEMMA MuxFibreInv ==
    ASSUME LazyInv, ~ overtaken, MuxFibre
    PROVE  LazyInv'
  <1>1. Mux \in Fibers
    BY MuxAssumption
  <1>2. isProcessing
    <2>1. ~ isProcessing => Rests(Mux) /\ ~ MuxStep
      <3>1. InTurn(Mux) \/ InTurn(Boot)
        BY FirstsTurn, ExecutorsTurn
      <3>2. task[Mux].dials <= MaxRetryCount + 1
        BY <3>1, LazyFibers DEF InTurn, Others, Rests, BudgetOf
      <3>3. MuxStep => isProcessing
        BY DEF MuxStep, Resolve, Reject, Retry, Resume, GiveUp, HeadIsBack
      <3> QED
        BY <3>2, <3>3, FirstsTurn, ExecutorsTurn DEF MuxRests, Rests
    <2> QED
      BY <1>1, <2>1, RestsIsStill DEF MuxFibre
  <1>3. first = None /\ hasExecutor
    BY <1>2, FirstsTurn, ExecutorsTurn DEF Untouched
  <1>4. InTurn(Mux) /\ MuxRests /\ task[Boot].pc \in {"ok", "failed"}
    BY <1>3, ExecutorsTurn
  <1>5. UNCHANGED <<hasExecutor, first, overtaken>>
    BY DEF MuxFibre, lazyVars, execVars
  <1>6. InTurn(Mux)' /\ MuxRests'
    <2>1. CASE MuxStep
      BY <1>4, <2>1, MuxStepTurn
    <2>2. CASE (CallStep(Mux) /\ UNCHANGED <<connVars, muxVars>>)
               \/ (ConnStep(Mux) /\ UNCHANGED muxVars)
      BY <1>1, <1>2, <1>4, <2>2, CallStepTurn, ConnStepTurn DEF muxVars, MuxRests
    <2> QED
      BY <2>1, <2>2 DEF MuxFibre
  <1>7. task'[Boot] = task[Boot]
    <2>1. task \in [Fibers -> Tasks]
      BY <1>4 DEF InTurn, TypesOK, ConnTypeOK
    <2> QED
      BY <1>1, <2>1, LazyFibers, ConnStepTasks, MuxStepTasks DEF MuxFibre, SameTasks, connVars
  <1> QED
    BY <1>3, <1>4, <1>5, <1>6, <1>7 DEF LazyInv, Waits, Untouched

\* A step of the network, the server or close() does not move a fibre.
LEMMA OutsideInv ==
    ASSUME LazyInv, ~ overtaken,
           \/ UserClose
           \/ \E s \in Sockets : Exchange(s) \/ Cut(s)
    PROVE  LazyInv'
  <1>1. /\ UNCHANGED <<task, call, isProcessing, hasExecutor, first, overtaken>>
        /\ ~ hasExecutor => UNCHANGED rid
    BY DEF UserClose, Exchange, Cut, ServerExec, Serves, LinkCut, connVars, muxVars, lazyVars, execVars
  <1>2. ASSUME NEW f \in Fibers, InTurn(f) PROVE InTurn(f)'
    BY <1>2, CloseTurn, ServerTurn, LinkCutTurn DEF UserClose, Exchange, Cut
  <1> QED
    BY <1>1, <1>2, LazyFibers DEF LazyInv, Waits, Untouched, MuxRests

LEMMA FirstExecInv ==
    ASSUME LazyInv, ~ overtaken, NEW c \in Commands, FirstExec(c)
    PROVE  LazyInv'
  <1>1. /\ ~ hasExecutor /\ hasExecutor' = TRUE /\ first' = c /\ UNCHANGED overtaken
        /\ StartConnect(Boot, "connect")
        /\ UNCHANGED <<wireVars, muxVars, cur, isClosed, isConnected, retryCount>>
    BY DEF FirstExec
  <1>2. first = None
    BY <1>1, FirstsTurn
  <1>3. /\ InTurn(Mux) /\ MuxRests /\ Rests(Boot)
        /\ ~ isProcessing /\ task[Boot].pc = "idle" /\ \A s \in Sockets : rid[s] # "open"
    BY <1>1, <1>2, ExecutorsTurn DEF Untouched
  <1>4. InTurn(Boot)
    <2>1. Rests(Mux)
      BY <1>3 DEF MuxRests, InTurn, BudgetOf, Rests
    <2>2. ErrorsOf(Boot)
      BY <1>3 DEF ErrorsOf
    <2> QED
      BY <1>3, <2>1, <2>2, LazyFibers, TurnPasses
  <1>5. InTurn(Boot)' /\ MuxRests' /\ task'[Boot].pc = "dialing"
    BY <1>1, <1>3, <1>4, LazyFibers, StartConnectTurn DEF Rests
  <1>6. ~ isProcessing'
    BY <1>1, <1>3 DEF muxVars
  <1> QED
    BY <1>1, <1>5, <1>6, LazyFibers DEF LazyInv, Waits, Untouched

LEMMA LaterExecInv ==
    ASSUME LazyInv, NEW c \in Commands, LaterExec(c)
    PROVE  LazyInv'
  <1>1. /\ hasExecutor /\ (Exec(c) \/ ExecRefused(c))
        /\ overtaken' = (overtaken \/ first # None) /\ UNCHANGED <<hasExecutor, first>>
    BY DEF LaterExec
  <1>2. CASE overtaken \/ first # None
    BY <1>1, <1>2 DEF LazyInv
  <1>3. CASE ~ overtaken /\ first = None
    <2>1. InTurn(Mux) /\ MuxRests /\ task[Boot].pc \in {"ok", "failed"}
      BY <1>1, <1>3, ExecutorsTurn
    <2>2. InTurn(Mux)' /\ MuxRests'
      BY <1>1, <2>1, MuxAssumption, ExecTurn, ExecRefusedTurn
    <2>3. UNCHANGED task
      BY <1>1 DEF Exec, ExecRefused, connVars
    <2> QED
      BY <1>1, <1>3, <2>1, <2>2, <2>3 DEF LazyInv, Waits, Untouched
  <1> QED
    BY <1>2, <1>3

\* Nothing the turns are about.
LEMMA SameLazyInv ==
    ASSUME LazyInv, UNCHANGED <<wireVars, connVars, muxVars, execVars>>
    PROVE  LazyInv'
  <1>1. UNCHANGED <<hasExecutor, first, overtaken, task, call, isProcessing, rid>>
    BY DEF execVars, connVars, muxVars, wireVars
  <1>2. InTurn(Mux)' = InTurn(Mux) /\ InTurn(Boot)' = InTurn(Boot)
    BY DEF wireVars, connVars, muxVars, InTurn, TypesOK, WireTypeOK, ConnTypeOK, MuxTypeOK,
           Others, Rests, CallOf, TaskOf, BudgetOf, SocketsOf, LocksOf, WireOf, ErrorsOf,
           QueueWorks, OwnReplies
  <1> QED
    BY <1>1, <1>2 DEF LazyInv, Waits, Untouched, MuxRests

LEMMA NextLazyInv ==
    LazyInv /\ [Next]_vars => LazyInv'
  <1> SUFFICES ASSUME LazyInv, [Next]_vars PROVE LazyInv'
    OBVIOUS
  <1>1. CASE UNCHANGED vars
    BY <1>1, SameLazyInv DEF vars, lazyVars
  <1>2. CASE CreateClient \/ \E b \in Backoffs : CreateConnection(b)
    BY <1>2, SameLazyInv DEF CreateClient, CreateConnection
  <1>3. ASSUME NEW c \in Commands, LaterExec(c) PROVE LazyInv'
    BY <1>3, LaterExecInv
  <1>4. CASE ~ overtaken /\ (\/ BootFibre \/ MuxFibre \/ UserClose
                             \/ \E c \in Commands : FirstExec(c)
                             \/ \E s \in Sockets : Exchange(s) \/ Cut(s))
    BY <1>4, BootFibreInv, MuxFibreInv, OutsideInv, FirstExecInv
  <1>5. CASE overtaken /\ (\/ BootFibre \/ MuxFibre \/ UserClose
                           \/ \E c \in Commands : FirstExec(c)
                           \/ \E s \in Sockets : Exchange(s) \/ Cut(s))
    <2>1. overtaken' = overtaken
      BY <1>5 DEF BootFibre, FirstGoesOn, FirstFails, MuxFibre, UserClose, FirstExec,
                  Exchange, Cut, lazyVars, execVars
    <2>2. first' \in Commands \cup {None}
      BY <1>5 DEF LazyInv, BootFibre, FirstGoesOn, FirstFails, MuxFibre, UserClose, FirstExec,
                  Exchange, Cut, lazyVars, execVars
    <2> QED
      BY <1>5, <2>1, <2>2 DEF LazyInv
  <1> QED
    BY <1>1, <1>2, <1>3, <1>4, <1>5 DEF Next, LazyInv

\* redis.ts createLazyExecutor(): a caller who waits for the first command hands the
\* connection from connect() to the executor, whichever way connect() ends.
THEOREM LazyTakesTurns == Spec => []LazyInv
  <1>1. Init => LazyInv
    BY InitLazyInv
  <1> QED
    BY <1>1, NextLazyInv, PTL DEF Spec

\* Its commands settle with their own replies or with errors, although connect() and
\* dequeue() read the same streams.
THEOREM LazyOwnReply == Spec => []OwnReplyInTurn
  <1>1. LazyInv => OwnReplyInTurn
    <2> SUFFICES ASSUME LazyInv, ~ overtaken PROVE OwnReplyInTurn
      BY DEF OwnReplyInTurn
    <2>1. OwnReplies
      BY FirstsTurn, ExecutorsTurn DEF InTurn
    <2> QED
      BY <2>1, InternalRequests DEF OwnReplies, OwnOutcome, OwnReplyInTurn
  <1> QED
    BY <1>1, LazyTakesTurns, PTL

\* And none of them is written before the handshake of the first connect() is over,
\* nor inside one of a reconnection.
THEOREM LazyHandshakeFirst == Spec => []HandshakeFirstInTurn
  <1>1. LazyInv => HandshakeFirstInTurn
    <2> SUFFICES ASSUME LazyInv, ~ overtaken, call[Mux].st # "idle", call[Mux].req \in Commands
                 PROVE  task[Boot].pc \in {"ok", "failed"} /\ task[Mux].pc = "idle"
      BY DEF HandshakeFirstInTurn
    <2>1. first = None
      BY FirstsTurn
    <2>2. InTurn(Mux) /\ isProcessing /\ hasExecutor
      BY <2>1, ExecutorsTurn DEF MuxRests, Untouched
    <2>3. task[Mux].pc \in TaskStates
      BY <2>2, MuxAssumption DEF InTurn, TypesOK, ConnTypeOK, Tasks
    <2>4. task[Mux].pc = "idle"
      BY <2>2, <2>3, InternalRequests DEF InTurn, TaskOf, TaskStates
    <2> QED
      BY <2>1, <2>2, <2>4, ExecutorsTurn
  <1> QED
    BY <1>1, LazyTakesTurns, PTL
=============================================================================
