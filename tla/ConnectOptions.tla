--------------------------- MODULE ConnectOptions ---------------------------
(***************************************************************************)
(* From a Redis URL to what connect() does with it: parseURL() and         *)
(* createRedisConnection() (redis.ts), the constructor of RedisConnection  *)
(* and the handshake it decides on (connection.ts), parsePortLike()        *)
(* (utils.ts) and the delays between attempts (backoff.ts).  A URL is a    *)
(* record of the parts that `new URL()` finds; a text that stands for a    *)
(* number is one of DOMAIN Numbers.                                        *)
(***************************************************************************)
EXTENDS Integers, Sequences

CONSTANTS
    Numbers,    \* the texts parseInt() takes, and the integer it makes of each
    NaN,        \* no number
    Inf,        \* Infinity
    One,        \* 1: the factors and delays of a backoff are counted in fractions of it
    Huge,       \* stands for Number.MAX_VALUE: what is greater is Inf
    Undefined   \* undefined or null

ASSUME NumberAssumption ==
    /\ One \in Nat \ {0} /\ Huge \in Nat /\ Inf \in Nat /\ One <= Huge /\ Huge < Inf
    /\ NaN \notin Int /\ Undefined \notin Int
    /\ Numbers \in [DOMAIN Numbers -> Int]
    /\ "" \notin DOMAIN Numbers /\ Undefined \notin DOMAIN Numbers \cup {""}

DefaultPort == 6379
InvalidPort == "Port is invalid"

parseInt(text) == IF text \in DOMAIN Numbers THEN Numbers[text] ELSE NaN
Truthy(x) == x \notin {Undefined, ""}
TruthyNumber(n) == n \notin {Undefined, 0, NaN}

\* A path after its slash, or else the query, names the database.
parseURL(url) ==
    LET db == IF url.path # "" THEN url.path ELSE url.queryDb
        user == IF url.username # "" THEN url.username ELSE Undefined
    IN  [hostname |-> IF url.hostname # "" THEN url.hostname ELSE "localhost",
         port |-> IF url.port # "" THEN parseInt(url.port) ELSE DefaultPort,
         tls |-> url.secure \/ url.querySsl,
         db |-> IF Truthy(db) THEN parseInt(db) ELSE Undefined,
         name |-> user, username |-> user,
         password |-> IF url.password # "" THEN url.password ELSE url.queryPassword]

\* createRedisConnection() and the constructor: the defaults.
createRedisConnection(options, backoff) ==
    [hostname |-> options.hostname,
     port |-> IF options.port = Undefined THEN DefaultPort ELSE options.port,
     name |-> IF Truthy(options.name) THEN options.name ELSE Undefined,
     backoff |-> backoff, options |-> options]

\* A port that is no number is refused, within connect() and its retries.
parsePortLike(port) ==
    IF port = Undefined THEN DefaultPort ELSE IF port = NaN THEN InvalidPort ELSE port

\* Slip: a name without a password authenticates as well.
Handshake_NameOnly(conn) ==
    LET o == conn.options IN
    (IF o.password # Undefined \/ o.username # Undefined
     THEN <<<<"AUTH", o.username, o.password>>>> ELSE <<>>)
    \o (IF TruthyNumber(o.db) THEN <<<<"SELECT", o.db>>>> ELSE <<>>)
    \o (IF Truthy(conn.name) THEN <<<<"SETNAME", conn.name>>>> ELSE <<>>)

\* What connect() sends before any command.
Handshake(conn) ==
    LET o == conn.options IN
    (IF o.password = Undefined THEN <<>>
     ELSE IF Truthy(o.password) /\ Truthy(o.username)
          THEN <<<<"AUTH", o.username, o.password>>>>
          ELSE <<<<"AUTH", o.password>>>>)
    \o (IF TruthyNumber(o.db) THEN <<<<"SELECT", o.db>>>> ELSE <<>>)
    \o (IF Truthy(conn.name) THEN <<<<"SETNAME", conn.name>>>> ELSE <<>>)

\* Products of doubles that are not negative: rounded to one, of which the greatest is
\* followed by Infinity alone.
Times(a, b) ==
    IF (a = 0 /\ b = Inf) \/ (a = Inf /\ b = 0) THEN NaN
    ELSE IF a = Inf \/ b = Inf \/ (a * b) \div One > Huge THEN Inf
    ELSE (a * b) \div One

ToThe(base, exponent) ==
    LET power[n \in 0..exponent] == IF n = 0 THEN One ELSE Times(base, power[n - 1])
    IN  power[exponent]

\* Math.min() of anything and NaN is NaN.
LeastOf(a, b) == IF a = NaN \/ b = NaN THEN NaN ELSE IF a < b THEN a ELSE b

\* Slip: the first attempt counts as the second.
exponentialBackoff_OneMore(b, attempts) ==
    LeastOf(b.maxInterval, Times(b.minInterval, ToThe(b.multiplier, attempts)))

\* The delay before the attempt after `attempts` failed ones.
exponentialBackoff(b, attempts) ==
    LeastOf(b.maxInterval, Times(b.minInterval, ToThe(b.multiplier, attempts - 1)))
=============================================================================
