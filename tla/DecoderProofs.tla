---------------------------- MODULE DecoderProofs ----------------------------
(***************************************************************************)
(* Theorems about readReply() of protocol/reply.ts, for replies of any     *)
(* length and depth, cut into any chunks.  First what the definitions of   *)
(* ReplyDecoder compute: numbers and parseInt(), the recursion over a      *)
(* reply, lines and encodings; then the invariant of the decoder, which    *)
(* relates the arrays on its stack to those of the reply that was sent;    *)
(* one lemma for each of its steps; and the properties.                    *)
(***************************************************************************)
EXTENDS ReplyDecoder, TLAPS, SequenceTheorems, WellFoundedInduction

\* Induction over the natural numbers: a set that holds 0 and the successor of each
\* of its members holds them all, for the least one outside of it has a predecessor.
LEMMA LeastCounterexample ==
    ASSUME NEW Good, 0 \in Good, \A n \in Nat : n \in Good => n + 1 \in Good
    PROVE  Nat \subseteq Good
  <1> DEFINE Bad == Nat \ Good
             R == OpToRel(<, Nat)
  <1> SUFFICES ASSUME Bad # {} PROVE FALSE
    OBVIOUS
  <1>1. PICK n \in Bad : \A m \in Bad : <<m, n>> \notin R
    BY WFMin, NatLessThanWellFounded
  <1>2. \A m \in Nat : m < n => m \in Good
    BY <1>1 DEF OpToRel
  <1>3. n - 1 \in Nat /\ n - 1 < n /\ (n - 1) + 1 = n
    <2>1. n \in Nat /\ n # 0
      OBVIOUS
    <2> QED
      BY <2>1
  <1> QED
    BY <1>2, <1>3

-----------------------------------------------------------------------------
(* Sequences.                                                               *)

\* Sequences of no, one and two symbols.
LEMMA Singles ==
    /\ \A x \in Symbols : <<x>> \in Seq(Symbols) /\ Len(<<x>>) = 1 /\ <<x>>[1] = x
    /\ \A x, y \in Symbols : <<x, y>> \in Seq(Symbols) /\ Len(<<x, y>>) = 2
    /\ <<>> \in Seq(Symbols) /\ Len(<<>>) = 0
  OBVIOUS

\* The bytes that RESP gives a meaning to.
LEMMA Marks ==
    /\ "+" \in Symbols /\ "-" \in Symbols /\ ":" \in Symbols /\ "$" \in Symbols /\ "*" \in Symbols
    /\ "CR" \in Symbols /\ "LF" \in Symbols
    /\ CRLF \in Seq(Symbols) /\ Len(CRLF) = 2
  <1>1. "CR" \in Symbols /\ "LF" \in Symbols
    BY ReplyAssumption DEF CRLF, ToSet
  <1>2. CRLF \in Seq(Symbols) /\ Len(CRLF) = 2
    BY <1>1, Singles DEF CRLF
  <1> QED
    BY <1>1, <1>2, ReplyAssumption

\* Joining strings is associative.
LEMMA Assoc ==
    ASSUME NEW a \in Seq(Symbols), NEW b \in Seq(Symbols), NEW c \in Seq(Symbols)
    PROVE  (a \o b) \o c = a \o (b \o c)
  OBVIOUS

\* What follows the same beginning is the same.
LEMMA CancelLeft ==
    ASSUME NEW a \in Seq(Symbols), NEW b \in Seq(Symbols), NEW c \in Seq(Symbols),
           a \o b = a \o c
    PROVE  b = c
  BY ConcatSimplifications

\* A sequence is its first k elements and the rest.
LEMMA CutAt ==
    ASSUME NEW s \in Seq(Symbols), NEW k \in 0 .. Len(s)
    PROVE  /\ SubSeq(s, 1, k) \in Seq(Symbols) /\ SubSeq(s, k + 1, Len(s)) \in Seq(Symbols)
           /\ Len(SubSeq(s, 1, k)) = k /\ Len(SubSeq(s, k + 1, Len(s))) = Len(s) - k
           /\ SubSeq(s, 1, k) \o SubSeq(s, k + 1, Len(s)) = s
           /\ \A i \in 1 .. k : SubSeq(s, 1, k)[i] = s[i]
  <1> DEFINE p == SubSeq(s, 1, k)
             q == SubSeq(s, k + 1, Len(s))
  <1>1. p \in Seq(Symbols) /\ Len(p) = k /\ \A i \in 1 .. k : p[i] = s[i]
    OBVIOUS
  <1>2. q \in Seq(Symbols) /\ Len(q) = Len(s) - k /\ \A i \in 1 .. Len(s) - k : q[i] = s[k + i]
    OBVIOUS
  <1> HIDE DEF p, q
  <1>3. p \o q = s
    <2>1. p \o q \in Seq(Symbols) /\ Len(p \o q) = Len(s)
      BY <1>1, <1>2
    <2>2. ASSUME NEW i \in 1 .. Len(s) PROVE (p \o q)[i] = s[i]
      <3>1. CASE i <= k
        <4>1. i \in 1 .. k /\ i \in 1 .. Len(p)
          BY <1>1, <3>1
        <4>2. (p \o q)[i] = p[i]
          BY <1>1, <1>2, <4>1
        <4> QED
          BY <1>1, <4>1, <4>2
      <3>2. CASE i > k
        <4>1. (p \o q)[i] = q[i - k] /\ i - k \in 1 .. Len(s) - k /\ k + (i - k) = i
          BY <1>1, <1>2, <3>2
        <4> QED
          BY <1>2, <4>1
      <3>3. i <= k \/ i > k
        OBVIOUS
      <3> QED
        BY ONLY <3>1, <3>2, <3>3, Zenon
    <2> QED
      BY <2>1, <2>2, SeqEqual
  <1> QED
    BY <1>1, <1>2, <1>3 DEF p, q

\* The same bytes split at two places.
Splits(a, b, c, d) ==
    /\ a \in Seq(Symbols) /\ b \in Seq(Symbols) /\ c \in Seq(Symbols) /\ d \in Seq(Symbols)
    /\ a \o b = c \o d

\* What c has after a.
Past(c, a) == SubSeq(c, Len(a) + 1, Len(c))

\* Of two beginnings of the same bytes, the shorter is a beginning of the longer.
LEMMA Overlap ==
    ASSUME NEW a, NEW b, NEW c, NEW d, Splits(a, b, c, d), Len(a) <= Len(c)
    PROVE  Past(c, a) \in Seq(Symbols) /\ c = a \o Past(c, a) /\ b = Past(c, a) \o d
  <1> USE DEF Splits
  <1> DEFINE e == Past(c, a)
             p == SubSeq(c, 1, Len(a))
  <1>1. Len(a) \in 0 .. Len(c)
    OBVIOUS
  <1>2. /\ p \in Seq(Symbols) /\ e \in Seq(Symbols) /\ Len(p) = Len(a) /\ p \o e = c
        /\ \A i \in 1 .. Len(a) : p[i] = c[i]
    BY <1>1, CutAt DEF Past
  <1> HIDE DEF e, p
  <1>3. p = a
    <2>1. \A i \in 1 .. Len(a) : (a \o b)[i] = a[i] /\ (c \o d)[i] = c[i]
      BY <1>1
    <2>2. \A i \in 1 .. Len(a) : p[i] = a[i]
      BY ONLY <1>2, <2>1, a \o b = c \o d
    <2>3. p \in Seq(Symbols) /\ a \in Seq(Symbols) /\ Len(p) = Len(a)
      BY ONLY <1>2, Splits(a, b, c, d)
    <2> QED
      BY ONLY <2>2, <2>3, SeqEqual
  <1>4. a \o b = a \o (e \o d)
    <2>1. a \in Seq(Symbols) /\ e \in Seq(Symbols) /\ d \in Seq(Symbols)
      BY ONLY <1>2, Splits(a, b, c, d)
    <2>2. (a \o e) \o d = a \o (e \o d)
      BY ONLY <2>1, Assoc
    <2> QED
      BY ONLY <1>2, <1>3, <2>2, Splits(a, b, c, d)
  <1>5. e \o d \in Seq(Symbols)
    BY <1>2
  <1>6. b = e \o d
    BY <1>4, <1>5, CancelLeft
  <1> QED
    BY <1>2, <1>3, <1>6 DEF e

\* Beginnings of the same length are the same.
LEMMA SplitAt ==
    ASSUME NEW a, NEW b, NEW c, NEW d, Splits(a, b, c, d), Len(a) = Len(c)
    PROVE  a = c /\ b = d
  <1>1. Len(a) <= Len(c)
    BY DEF Splits
  <1> DEFINE e == Past(c, a)
  <1>2. e \in Seq(Symbols) /\ c = a \o e /\ b = e \o d
    BY <1>1, Overlap
  <1> HIDE DEF e
  <1>3. e = <<>>
    BY <1>2 DEF Splits
  <1> QED
    BY <1>2, <1>3 DEF Splits

-----------------------------------------------------------------------------
(* Numbers.                                                                 *)

\* The bytes that are digits.
DigitBytes == ToSet(Digits)

\* A digit has a value, and is neither a sign nor a mark of a line's end.
LEMMA DigitsAre ==
    /\ DigitBytes \subseteq Symbols
    /\ \A n \in 0..9 : Digits[n + 1] \in DigitBytes /\ DigitOf(Digits[n + 1]) = n
    /\ \A b \in DigitBytes : DigitOf(b) \in 0..9
    /\ "-" \notin DigitBytes /\ "CR" \notin DigitBytes /\ "LF" \notin DigitBytes
    /\ \A b : IsDigit(b) <=> b \in DigitBytes
  <1>1. Len(Digits) = 10 /\ DOMAIN Digits = 1..10
    BY DEF Digits
  <1>2. \A b \in DigitBytes : \E n \in 0..9 : Digits[n + 1] = b
    <2>1. ASSUME NEW b \in DigitBytes PROVE \E n \in 0..9 : Digits[n + 1] = b
      <3>1. PICK i \in 1..10 : Digits[i] = b
        BY <1>1 DEF DigitBytes, ToSet
      <3>2. i - 1 \in 0..9 /\ (i - 1) + 1 = i
        OBVIOUS
      <3> QED
        BY <3>1, <3>2
    <2> QED
      BY <2>1
  <1>3. \A m, n \in 0..9 : Digits[m + 1] = Digits[n + 1] => m = n
    BY DEF Digits
  <1>4. \A n \in 0..9 : Digits[n + 1] \in DigitBytes
    <2>1. \A n \in 0..9 : n + 1 \in DOMAIN Digits
      BY <1>1
    <2> QED
      BY <2>1 DEF DigitBytes, ToSet
  <1>5. \A n \in 0..9 : DigitOf(Digits[n + 1]) = n
    BY <1>3 DEF DigitOf
  <1>6. \A n \in 0..9 : Digits[n + 1] # "-" /\ Digits[n + 1] # "CR" /\ Digits[n + 1] # "LF"
    BY DEF Digits
  <1>7. DigitBytes \subseteq Symbols
    BY ReplyAssumption DEF DigitBytes
  <1> QED
    BY <1>2, <1>4, <1>5, <1>6, <1>7 DEF DigitBytes, IsDigit

\* The values of the first digits of t, as the loop of parseInt() finds them.
Counts(t, val) ==
    val = [i \in 0 .. Len(t) |-> IF i = 0 THEN 0 ELSE 10 * val[i - 1] + DigitOf(t[i])]

\* The loop of parseInt() over the digits of t has values.
LEMMA CountsExist ==
    ASSUME NEW t \in Seq(DigitBytes)
    PROVE  \E val : Counts(t, val)
  <1> DEFINE Loop(g, top) == g[0] = 0 /\ \A i \in 1 .. top : g[i] = 10 * g[i - 1] + DigitOf(t[i])
             Good == {top \in Nat : top <= Len(t) => \E g \in [0 .. top -> Int] : Loop(g, top)}
  <1>1. 0 \in Good
    <2>1. [i \in 0..0 |-> 0] \in [0..0 -> Int] /\ Loop([i \in 0..0 |-> 0], 0)
      OBVIOUS
    <2> QED
      BY <2>1
  <1>2. ASSUME NEW top \in Nat, top \in Good PROVE top + 1 \in Good
    <2> HIDE DEF Loop
    <2> SUFFICES ASSUME top + 1 <= Len(t) PROVE \E g \in [0 .. top + 1 -> Int] : Loop(g, top + 1)
      OBVIOUS
    <2> USE DEF Loop
    <2>1. PICK g \in [0 .. top -> Int] : Loop(g, top)
      BY <1>2
    <2> DEFINE next == 10 * g[top] + DigitOf(t[top + 1])
               h == [i \in 0 .. top + 1 |-> IF i = top + 1 THEN next ELSE g[i]]
    <2>2. next \in Int
      <3>1. t[top + 1] \in DigitBytes /\ g[top] \in Int
        OBVIOUS
      <3>2. DigitOf(t[top + 1]) \in 0..9
        BY <3>1, DigitsAre
      <3> QED
        BY ONLY <3>1, <3>2
    <2> HIDE DEF next
    <2>3. h \in [0 .. top + 1 -> Int]
      BY <2>2
    <2>4. \A i \in 0 .. top : h[i] = g[i]
      OBVIOUS
    <2>5. h[top + 1] = next
      OBVIOUS
    <2> HIDE DEF h
    <2>6. h[0] = 0
      BY <2>1, <2>4
    <2>7. ASSUME NEW i \in 1 .. top + 1 PROVE h[i] = 10 * h[i - 1] + DigitOf(t[i])
      <3>1. CASE i = top + 1
        <4>1. i - 1 = top /\ top \in 0 .. top
          BY <3>1
        <4> QED
          BY <2>4, <2>5, <3>1, <4>1 DEF next
      <3>2. CASE i # top + 1
        <4>1. i \in 1 .. top /\ i \in 0 .. top /\ i - 1 \in 0 .. top
          BY <3>2
        <4> QED
          BY <2>1, <2>4, <4>1
      <3> QED
        BY <3>1, <3>2
    <2> QED
      BY <2>3, <2>6, <2>7
  <1>3. Len(t) \in Good
    <2> HIDE DEF Good
    <2> QED
      BY <1>1, <1>2, LeastCounterexample
  <1>4. PICK g \in [0 .. Len(t) -> Int] : Loop(g, Len(t))
    BY <1>3
  <1>5. \A i \in 0 .. Len(t) : g[i] = IF i = 0 THEN 0 ELSE 10 * g[i - 1] + DigitOf(t[i])
    <2>1. \A i \in 0 .. Len(t) : i = 0 \/ i \in 1 .. Len(t)
      OBVIOUS
    <2> QED
      BY <1>4, <2>1
  <1> QED
    BY <1>4, <1>5 DEF Counts

\* The value of more digits is found from the value of those before.
LEMMA NumberIs ==
    /\ Number(<<>>) = 0
    /\ \A t \in Seq(DigitBytes) : Number(t) \in Nat
    /\ \A t \in Seq(DigitBytes), d \in DigitBytes : Number(Append(t, d)) = 10 * Number(t) + DigitOf(d)
  <1>1. ASSUME NEW t \in Seq(DigitBytes)
        PROVE  \E val : Counts(t, val) /\ Number(t) = val[Len(t)]
    <2> DEFINE v == CHOOSE val : Counts(t, val)
    <2>1. Counts(t, v)
      BY CountsExist
    <2>2. Number(t) = v[Len(t)]
      BY DEF Number, Counts
    <2> QED
      BY <2>1, <2>2
  <1>2. ASSUME NEW t \in Seq(DigitBytes), NEW u \in Seq(DigitBytes), NEW v, NEW w,
               Counts(t, v), Counts(u, w), Len(t) <= Len(u), \A i \in 1 .. Len(t) : t[i] = u[i]
        PROVE  \A i \in 0 .. Len(t) : v[i] = w[i] /\ v[i] \in Nat
    <2> DEFINE Good == {n \in Nat : n <= Len(t) => v[n] = w[n] /\ v[n] \in Nat}
    <2>1. 0 \in Good
      BY <1>2 DEF Counts
    <2>2. ASSUME NEW n \in Nat, n \in Good PROVE n + 1 \in Good
      <3> SUFFICES ASSUME n + 1 <= Len(t) PROVE v[n + 1] = w[n + 1] /\ v[n + 1] \in Nat
        OBVIOUS
      <3>1. n + 1 \in 0 .. Len(t) /\ n + 1 \in 0 .. Len(u) /\ (n + 1) - 1 = n /\ n + 1 # 0 /\ n + 1 \in 1 .. Len(t)
        BY <1>2
      <3>2. v[n + 1] = 10 * v[n] + DigitOf(t[n + 1]) /\ w[n + 1] = 10 * w[n] + DigitOf(u[n + 1])
        BY <1>2, <3>1 DEF Counts
      <3>3. t[n + 1] = u[n + 1] /\ DigitOf(t[n + 1]) \in 0..9
        BY <1>2, <3>1, DigitsAre
      <3>4. v[n] = w[n] /\ v[n] \in Nat
        BY <2>2
      <3>5. w[n + 1] = 10 * v[n] + DigitOf(t[n + 1])
        BY ONLY <3>2, <3>3, <3>4
      <3>6. \A x \in Nat, d \in 0..9 : 10 * x + d \in Nat
        BY ONLY TRUE
      <3> QED
        BY ONLY <3>2, <3>3, <3>4, <3>5, <3>6
    <2>3. Nat \subseteq Good
      <3> HIDE DEF Good
      <3> QED
        BY <2>1, <2>2, LeastCounterexample
    <2> QED
      BY <2>3
  <1>3. Number(<<>>) = 0
    <2>1. <<>> \in Seq(DigitBytes) /\ Len(<<>>) = 0
      OBVIOUS
    <2>2. PICK v : Counts(<<>>, v) /\ Number(<<>>) = v[Len(<<>>)]
      BY <1>1, <2>1
    <2> QED
      BY <2>1, <2>2 DEF Counts
  <1>4. ASSUME NEW t \in Seq(DigitBytes) PROVE Number(t) \in Nat
    <2>1. PICK v : Counts(t, v) /\ Number(t) = v[Len(t)]
      BY <1>1
    <2>2. Len(t) \in 0 .. Len(t) /\ Len(t) <= Len(t)
      OBVIOUS
    <2> QED
      BY <1>2, <2>1, <2>2
  <1>5. ASSUME NEW t \in Seq(DigitBytes), NEW d \in DigitBytes
        PROVE  Number(Append(t, d)) = 10 * Number(t) + DigitOf(d)
    <2> DEFINE u == Append(t, d)
    <2>1. /\ u \in Seq(DigitBytes) /\ Len(u) = Len(t) + 1 /\ Len(t) \in Nat /\ u[Len(t) + 1] = d
          /\ \A i \in 1 .. Len(t) : t[i] = u[i]
      OBVIOUS
    <2> HIDE DEF u
    <2>2. PICK v : Counts(t, v) /\ Number(t) = v[Len(t)]
      BY <1>1
    <2>3. PICK w : Counts(u, w) /\ Number(u) = w[Len(u)]
      BY <1>1, <2>1
    <2>4. Len(t) \in 0 .. Len(t) /\ Len(t) <= Len(u)
      BY <2>1
    <2>5. v[Len(t)] = w[Len(t)]
      BY <1>2, <2>1, <2>2, <2>3, <2>4
    <2>6. w[Len(u)] = 10 * w[Len(t)] + DigitOf(d)
      <3>1. Len(u) \in 0 .. Len(u) /\ Len(u) # 0 /\ Len(u) - 1 = Len(t)
        BY <2>1
      <3> QED
        BY <2>1, <2>3, <3>1 DEF Counts
    <2> QED
      BY <2>2, <2>3, <2>5, <2>6 DEF u
  <1> QED
    BY <1>3, <1>4, <1>5

\* A numeral is the numeral of a tenth and one more digit.
Writes(g, n) == IF n < 10 THEN <<Digits[n + 1]>> ELSE Append(g[n \div 10], Digits[(n % 10) + 1])

\* What is left of a number without its last digit.
LEMMA Tenth ==
    ASSUME NEW n \in Nat
    PROVE  /\ n % 10 \in 0..9 /\ n = 10 * (n \div 10) + (n % 10)
           /\ n >= 10 => n \div 10 \in 1 .. n - 1
  OBVIOUS

\* A numeral is a string of digits if the numeral of the tenth is one.
LEMMA WritesType ==
    ASSUME NEW n \in Nat, NEW g, n >= 10 => g[n \div 10] \in Seq(DigitBytes)
    PROVE  Writes(g, n) \in Seq(DigitBytes)
  <1>1. CASE n < 10
    <2>1. n \in 0..9
      BY <1>1
    <2>2. Digits[n + 1] \in DigitBytes
      BY <2>1, DigitsAre
    <2>3. Writes(g, n) = <<Digits[n + 1]>>
      BY <1>1 DEF Writes
    <2> QED
      BY <2>2, <2>3
  <1>2. CASE ~ (n < 10)
    <2>1. n >= 10 /\ n % 10 \in 0..9
      BY <1>2, Tenth
    <2>2. Digits[(n % 10) + 1] \in DigitBytes
      BY <2>1, DigitsAre
    <2>3. Writes(g, n) = Append(g[n \div 10], Digits[(n % 10) + 1])
      BY <1>2 DEF Writes
    <2>4. g[n \div 10] \in Seq(DigitBytes)
      BY <2>1
    <2> QED
      BY <2>2, <2>3, <2>4
  <1> QED
    BY <1>1, <1>2

\* The recursion of Numeral has a value for every number.
LEMMA NumeralIs == \A n \in 0 .. Safe : Numeral[n] = Writes(Numeral, n)
  <1> DEFINE Loop(g, top) == \A n \in 0 .. top : g[n] = Writes(g, n)
             Good == {top \in Nat : \E g \in [0 .. top -> Seq(DigitBytes)] : Loop(g, top)}
  <1>1. 0 \in Good
    <2> DEFINE g == [n \in 0..0 |-> <<Digits[n + 1]>>]
    <2>1. Digits[0 + 1] \in DigitBytes
      BY DigitsAre, 0 \in 0..9
    <2>2. g \in [0..0 -> Seq(DigitBytes)]
      BY <2>1
    <2>3. Loop(g, 0)
      BY DEF Writes
    <2> QED
      BY <2>2, <2>3
  <1>2. ASSUME NEW top \in Nat, top \in Good PROVE top + 1 \in Good
    <2>1. PICK g \in [0 .. top -> Seq(DigitBytes)] : Loop(g, top)
      BY <1>2
    <2> DEFINE next == Writes(g, top + 1)
               h == [n \in 0 .. top + 1 |-> IF n = top + 1 THEN next ELSE g[n]]
    <2>2. next \in Seq(DigitBytes)
      <3>1. top + 1 >= 10 => (top + 1) \div 10 \in 0 .. top
        BY Tenth
      <3>2. top + 1 >= 10 => g[(top + 1) \div 10] \in Seq(DigitBytes)
        BY <3>1
      <3> QED
        BY <3>2, WritesType
    <2> HIDE DEF next
    <2>3. h \in [0 .. top + 1 -> Seq(DigitBytes)]
      BY <2>2
    <2>4. \A n \in 0 .. top : h[n] = g[n]
      OBVIOUS
    <2>5. h[top + 1] = next
      OBVIOUS
    <2> HIDE DEF h
    <2>6. ASSUME NEW n \in 0 .. top + 1 PROVE h[n] = Writes(h, n)
      <3>1. Writes(h, n) = Writes(g, n)
        <4>1. n >= 10 => n \div 10 \in 0 .. top
          BY Tenth
        <4>2. n >= 10 => h[n \div 10] = g[n \div 10]
          BY <2>4, <4>1
        <4> QED
          BY <4>2 DEF Writes
      <3>2. CASE n = top + 1
        BY <2>5, <3>1, <3>2 DEF next
      <3>3. CASE n # top + 1
        <4>1. n \in 0 .. top
          BY <3>3
        <4> QED
          BY <2>1, <2>4, <3>1, <4>1
      <3> QED
        BY <3>2, <3>3
    <2>7. Loop(h, top + 1)
      BY <2>6
    <2> HIDE DEF Loop
    <2> QED
      BY <2>3, <2>7
  <1>3. Safe \in Nat
    BY ReplyAssumption
  <1>4. Safe \in Good
    <2> HIDE DEF Good
    <2> QED
      BY <1>1, <1>2, <1>3, LeastCounterexample
  <1>5. PICK g \in [0 .. Safe -> Seq(DigitBytes)] : Loop(g, Safe)
    BY <1>4
  <1>6. g = [n \in 0 .. Safe |-> Writes(g, n)]
    BY <1>5
  <1>7. \A f : f = [n \in 0 .. Safe |-> Writes(f, n)] <=>
               f = [n \in 0 .. Safe |-> IF n < 10 THEN <<Digits[n + 1]>>
                                        ELSE Append(f[n \div 10], Digits[(n % 10) + 1])]
    BY DEF Writes
  <1>8. Numeral = [n \in 0 .. Safe |-> Writes(Numeral, n)]
    BY <1>6, <1>7 DEF Numeral
  <1> QED
    BY <1>8

\* parseInt() finds the number that was written, and in a part of its digits none
\* that is 0 unless the number is.
Readable(n) ==
    /\ Numeral[n] \in Seq(DigitBytes) /\ Numeral[n] # <<>> /\ Number(Numeral[n]) = n
    /\ \A k \in 1 .. Len(Numeral[n]) : Number(SubSeq(Numeral[n], 1, k)) = 0 => n = 0

\* Every numeral is readable.
LEMMA NumeralsReadable == \A n \in 0 .. Safe : Readable(n)
  <1> DEFINE Good == {top \in Nat : \A n \in 0 .. top : n <= Safe => Readable(n)}
  <1>0. Safe \in Nat
    BY ReplyAssumption
  <1>1. ASSUME NEW n \in 0 .. Safe, \A m \in 0 .. n - 1 : Readable(m)
        PROVE  Readable(n)
    <2>0. Numeral[n] = Writes(Numeral, n)
      BY NumeralIs
    <2>1. CASE n < 10
      <3>1. n \in 0..9 /\ Numeral[n] = <<Digits[n + 1]>>
        BY <1>0, <2>0, <2>1 DEF Writes
      <3>2. Digits[n + 1] \in DigitBytes /\ DigitOf(Digits[n + 1]) = n
        BY <3>1, DigitsAre
      <3>3. ASSUME NEW d \in DigitBytes
            PROVE  /\ <<d>> \in Seq(DigitBytes) /\ <<d>> = Append(<<>>, d) /\ <<d>> # <<>>
                   /\ \A k \in 1 .. Len(<<d>>) : SubSeq(<<d>>, 1, k) = <<d>>
        <4> DEFINE s == <<d>>
        <4>1. s \in Seq(DigitBytes) /\ s = Append(<<>>, d) /\ Len(s) = 1
          OBVIOUS
        <4> HIDE DEF s
        <4>2. SubSeq(s, 1, Len(s)) = s
          BY <4>1, SubSeqFull
        <4>3. s # <<>> /\ \A k \in 1 .. Len(s) : k = Len(s)
          BY <4>1
        <4> QED
          BY <4>1, <4>2, <4>3 DEF s
      <3>4. ASSUME NEW d \in DigitBytes
            PROVE  Number(<<d>>) = DigitOf(d)
        <4>1. <<>> \in Seq(DigitBytes) /\ <<d>> = Append(<<>>, d)
          BY <3>3
        <4>2. Number(<<d>>) = 10 * 0 + DigitOf(d) /\ DigitOf(d) \in 0..9
          BY <4>1, NumberIs, DigitsAre
        <4> QED
          BY <4>2
      <3>5. PICK d \in DigitBytes : Numeral[n] = <<d>> /\ DigitOf(d) = n
        BY <3>1, <3>2
      <3>6. Number(<<d>>) = n
        BY <3>4, <3>5
      <3> QED
        BY <3>3, <3>5, <3>6 DEF Readable
    <2>2. CASE ~ (n < 10)
      <3> DEFINE m == n \div 10
                 d == Digits[(n % 10) + 1]
                 s == Numeral[m]
      <3>1. m \in 1 .. n - 1 /\ n % 10 \in 0..9 /\ n = 10 * m + (n % 10)
        BY <1>0, <2>2, Tenth
      <3>2. d \in DigitBytes /\ DigitOf(d) = n % 10
        BY <3>1, DigitsAre
      <3>3. Numeral[n] = Append(s, d)
        BY <2>0, <2>2 DEF Writes
      <3>4. Readable(m)
        BY <1>1, <3>1
      <3> HIDE DEF m, d
      <3>5. s \in Seq(DigitBytes) /\ Number(s) = m /\ s # <<>>
            /\ \A k \in 1 .. Len(s) : Number(SubSeq(s, 1, k)) = 0 => m = 0
        BY <3>4 DEF Readable
      <3> HIDE DEF s
      <3>6. Append(s, d) \in Seq(DigitBytes) /\ Append(s, d) # <<>> /\ Len(Append(s, d)) = Len(s) + 1
        BY <3>2, <3>5
      <3>7. Number(Append(s, d)) = n
        <4>1. Number(Append(s, d)) = 10 * Number(s) + DigitOf(d)
          BY <3>2, <3>5, NumberIs
        <4>2. Number(s) = m /\ DigitOf(d) = n % 10 /\ m \in Int /\ n % 10 \in Int /\ n = 10 * m + (n % 10)
          BY <3>1, <3>2, <3>5
        <4> QED
          BY ONLY <4>1, <4>2
      <3>8. ASSUME NEW k \in 1 .. Len(s) + 1, Number(SubSeq(Append(s, d), 1, k)) = 0
            PROVE  n = 0
        <4>1. CASE k = Len(s) + 1
          <5>1. SubSeq(Append(s, d), 1, k) = Append(s, d)
            BY <3>2, <3>5, <4>1
          <5> QED
            BY <3>7, <3>8, <5>1
        <4>2. CASE k # Len(s) + 1
          <5>1. k \in 1 .. Len(s)
            BY <3>5, <4>2
          <5>2. SubSeq(Append(s, d), 1, k) = SubSeq(s, 1, k)
            BY <3>2, <3>5, <5>1
          <5>3. m = 0
            BY <3>5, <3>8, <5>1, <5>2
          <5> QED
            BY <3>1, <5>3
        <4> QED
          BY <4>1, <4>2
      <3> QED
        BY <3>3, <3>6, <3>7, <3>8 DEF Readable
    <2> QED
      BY <2>1, <2>2
  <1>2. 0 \in Good
    <2>1. 0 \in 0 .. Safe /\ \A m \in 0 .. 0 - 1 : Readable(m)
      BY <1>0
    <2>2. Readable(0)
      BY <1>1, <2>1
    <2> QED
      BY <2>2
  <1>3. ASSUME NEW top \in Nat, top \in Good PROVE top + 1 \in Good
    <2>1. ASSUME top + 1 <= Safe PROVE Readable(top + 1)
      <3>1. top + 1 \in 0 .. Safe
        BY <1>0, <2>1
      <3>2. \A m \in 0 .. (top + 1) - 1 : Readable(m)
        <4>1. \A m \in 0 .. (top + 1) - 1 : m \in 0 .. top /\ m <= Safe
          BY <1>0, <2>1
        <4> QED
          BY <1>3, <4>1
      <3> QED
        BY <1>1, <3>1, <3>2
    <2>2. \A m \in 0 .. top + 1 : m \in 0 .. top \/ m = top + 1
      OBVIOUS
    <2> QED
      BY <1>3, <2>1, <2>2
  <1>4. Safe \in Good
    <2> HIDE DEF Good
    <2> QED
      BY <1>0, <1>2, <1>3, LeastCounterexample
  <1> QED
    BY <1>0, <1>4

-----------------------------------------------------------------------------
(* parseInt().                                                              *)

\* What a line that was cut off may end with.
Stumps == {<<>>, <<"CR">>}

\* parseInt() goes on to the end of the digits.
LEMMA LeadingIs ==
    ASSUME NEW t \in Seq(DigitBytes), NEW z \in Stumps
    PROVE  /\ t \o z \in Seq(Symbols) /\ Leading(t \o z) = Len(t)
           /\ SubSeq(t \o z, 1, Len(t)) = t
           /\ t \o z # <<>> => Head(t \o z) # "-"
  <1> DEFINE s == t \o z
  <1>1. t \in Seq(Symbols) /\ z \in Seq(Symbols) /\ "CR" \in Symbols
    <2>1. "CR" \in Symbols
      BY Marks
    <2>2. t \in Seq(Symbols)
      <3>1. DigitBytes \subseteq Symbols
        BY DigitsAre
      <3> QED
        BY <3>1
    <2>3. z = <<>> \/ z = <<"CR">>
      BY DEF Stumps
    <2>4. z \in Seq(Symbols)
      BY <2>1, <2>3, Singles
    <2> QED
      BY <2>1, <2>2, <2>4
  <1>2. Len(z) \in {0, 1} /\ (Len(z) = 1 => z[1] = "CR")
    BY DEF Stumps
  <1>3. s \in Seq(Symbols) /\ Len(s) = Len(t) + Len(z) /\ Len(t) \in Nat
    BY <1>1
  <1>4. \A i \in 1 .. Len(t) : s[i] = t[i] /\ t[i] \in DigitBytes
    BY <1>1
  <1>5. Len(z) = 1 => s[Len(t) + 1] = "CR"
    <2>1. SUFFICES ASSUME Len(z) = 1 PROVE s[Len(t) + 1] = "CR"
      OBVIOUS
    <2>2. Len(t) + 1 \in 1 .. Len(t) + Len(z) /\ ~ (Len(t) + 1 <= Len(t)) /\ (Len(t) + 1) - Len(t) = 1
      BY <1>3, <2>1
    <2>3. s[Len(t) + 1] = z[(Len(t) + 1) - Len(t)]
      BY <1>1, <2>2, ConcatProperties
    <2> QED
      BY <1>2, <2>1, <2>2, <2>3
  <1>6. SubSeq(s, 1, Len(t)) = t
    <2> DEFINE p == SubSeq(s, 1, Len(t))
    <2>1. p \in Seq(Symbols) /\ Len(p) = Len(t) /\ \A i \in 1 .. Len(t) : p[i] = s[i]
      BY <1>3
    <2> HIDE DEF p
    <2>2. p = t
      BY <1>1, <1>4, <2>1, SeqEqual
    <2> QED
      BY <2>2 DEF p
  <1> HIDE DEF s
  <1>7. \A i \in 1 .. Len(t) : IsDigit(s[i])
    BY <1>4, DigitsAre
  <1>8. Len(t) = Len(s) \/ ~ IsDigit(s[Len(t) + 1])
    BY <1>2, <1>3, <1>5, DigitsAre
  <1>9. ASSUME NEW k \in 0 .. Len(s), \A i \in 1 .. k : IsDigit(s[i]),
               k = Len(s) \/ ~ IsDigit(s[k + 1])
        PROVE  k = Len(t)
    <2>1. k >= Len(t)
      <3> SUFFICES ASSUME k < Len(t) PROVE FALSE
        BY <1>3
      <3>1. k + 1 \in 1 .. Len(t) /\ k # Len(s)
        BY <1>2, <1>3
      <3> QED
        BY <1>7, <1>9, <3>1
    <2>2. k <= Len(t)
      <3> SUFFICES ASSUME k > Len(t) PROVE FALSE
        BY <1>3
      <3>1. Len(t) + 1 \in 1 .. k /\ Len(t) # Len(s)
        BY <1>3
      <3> QED
        BY <1>8, <1>9, <3>1
    <2> QED
      BY <1>3, <2>1, <2>2
  <1>10. Len(t) \in 0 .. Len(s)
    BY <1>2, <1>3
  <1>11. Leading(s) = Len(t)
    <2> DEFINE P(k) == (\A i \in 1 .. k : IsDigit(s[i])) /\ (k = Len(s) \/ ~ IsDigit(s[k + 1]))
    <2>1. P(Len(t))
      BY <1>7, <1>8
    <2>2. \A k \in 0 .. Len(s) : P(k) => k = Len(t)
      BY <1>9
    <2>3. Leading(s) = CHOOSE k \in 0 .. Len(s) : P(k)
      BY DEF Leading
    <2> HIDE DEF P
    <2> QED
      BY <1>10, <2>1, <2>2, <2>3
  <1>12. s # <<>> => Head(s) # "-"
    <2>1. CASE Len(t) >= 1
      <3>1. s[1] \in DigitBytes /\ 1 \in 1 .. Len(s)
        BY <1>3, <1>4, <1>2, <2>1
      <3> QED
        BY <1>3, <3>1, DigitsAre
    <2>2. CASE Len(t) = 0
      <3>1. s # <<>> => Len(z) = 1 /\ s[1] = "CR"
        BY <1>2, <1>3, <1>5, <2>2
      <3> QED
        BY <1>3, <3>1
    <2> QED
      BY <1>3, <2>1, <2>2
  <1> QED
    BY <1>3, <1>6, <1>11, <1>12 DEF s

\* parseInt() of digits, with and without a sign, whatever a line that was cut off
\* ends with.
LEMMA ParseDigits ==
    ASSUME NEW t \in Seq(DigitBytes), NEW z \in Stumps
    PROVE  /\ ParseInt(t \o z) = IF t = <<>> THEN NaN ELSE Number(t)
           /\ ParseInt(<<"-">> \o (t \o z)) = IF t = <<>> THEN NaN ELSE - Number(t)
  <1> DEFINE s == t \o z
  <1>1. s \in Seq(Symbols) /\ Leading(s) = Len(t) /\ SubSeq(s, 1, Len(t)) = t /\ (s # <<>> => Head(s) # "-")
    BY LeadingIs
  <1> HIDE DEF s
  <1>2. Len(t) = 0 <=> t = <<>>
    OBVIOUS
  <1>3. ParseInt(s) = IF t = <<>> THEN NaN ELSE Number(t)
    BY <1>1, <1>2 DEF ParseInt
  <1> DEFINE m == <<"-">> \o s
  <1>4. m # <<>> /\ Head(m) = "-" /\ Tail(m) = s
    <2>1. "-" \in Symbols
      BY ReplyAssumption
    <2> QED
      BY <1>1, <2>1
  <1> HIDE DEF m
  <1>5. ParseInt(m) = IF t = <<>> THEN NaN ELSE - Number(t)
    BY <1>1, <1>2, <1>4 DEF ParseInt
  <1> QED
    BY <1>3, <1>5 DEF s, m

-----------------------------------------------------------------------------
(* Replies.                                                                 *)

LineSymbols == Symbols \ ToSet(CRLF)
Kinds == {"+", "-", ":", "$", "*"}

\* The types of a reply and what it is made of.
LEMMA ReplyKinds ==
    ASSUME NEW r \in Replies
    PROVE  \/ r.is \in {"+", "-"} /\ r.body \in Seq(LineSymbols) /\ r = [is |-> r.is, body |-> r.body]
           \/ r.is = ":" /\ r.body \in -Safe .. Safe /\ r = Integer(r.body)
           \/ r.is = "$" /\ r.body \in Seq(Symbols) /\ Len(r.body) \in 0 .. Safe /\ r = Bulk(r.body)
           \/ /\ r.is = "*" /\ r.body \in Seq(Replies) /\ Len(r.body) \in 0 .. Safe
              /\ \A i \in 1 .. Len(r.body) : Depth[r.body[i]] < Depth[r]
           \/ r = Nil /\ r.is = "nil"
           \/ r = NilArray /\ r.is = "nilArray"
  <1>1. IsReply(r) /\ Safe \in Nat
    BY ReplyAssumption
  <1>2. CASE r.is \in {"+", "-"}
    <2>1. r \in [is : {r.is}, body : Seq(LineSymbols)]
      BY <1>1, <1>2 DEF IsReply, LineSymbols
    <2> QED
      BY <1>2, <2>1
  <1>3. CASE r.is = ":"
    <2>1. r \in [is : {":"}, body : -Safe .. Safe]
      BY <1>1, <1>3 DEF IsReply
    <2> QED
      BY <1>3, <2>1 DEF Integer
  <1>4. CASE r.is = "$"
    <2>1. r \in [is : {"$"}, body : Seq(Symbols)] /\ Len(r.body) <= Safe
      BY <1>1, <1>4 DEF IsReply
    <2>2. r.body \in Seq(Symbols) /\ r = Bulk(r.body)
      BY <2>1 DEF Bulk
    <2>3. Len(r.body) \in 0 .. Safe
      BY <1>1, <2>1, <2>2
    <2> QED
      BY <1>4, <2>2, <2>3
  <1>5. CASE r.is = "*"
    <2>1. r \in [is : {"*"}, body : Seq(Replies)] /\ Len(r.body) <= Safe
          /\ \A i \in DOMAIN r.body : Depth[r.body[i]] < Depth[r]
      BY <1>1, <1>5 DEF IsReply
    <2>2. r.body \in Seq(Replies)
      BY <2>1
    <2>3. Len(r.body) \in 0 .. Safe /\ DOMAIN r.body = 1 .. Len(r.body)
      BY <1>1, <2>1, <2>2
    <2> QED
      BY <1>5, <2>1, <2>2, <2>3
  <1>6. CASE r.is \notin Kinds
    <2>1. r = Nil \/ r = NilArray
      BY <1>1, <1>6 DEF IsReply, Kinds
    <2> QED
      BY <2>1 DEF Nil, NilArray
  <1> QED
    BY <1>2, <1>3, <1>4, <1>5, <1>6 DEF Kinds

\* Replies are of finite depth.
LEMMA DepthIs == \A r \in Replies : Depth[r] \in Nat
  BY ReplyAssumption

\* The bodies of the four recursive definitions.
EncodeFrom(f, r) ==
    FirstLine(r) \o CRLF \o
        IF r.is = "*" THEN FlattenSeq([i \in DOMAIN r.body |-> f[r.body[i]]])
        ELSE IF r.is = "$" THEN r.body \o CRLF
        ELSE <<>>
ValueFrom(f, r) ==
    CASE r.is = "*" -> Array([i \in DOMAIN r.body |-> f[r.body[i]]])
      [] r.is = "nilArray" -> Nil
      [] OTHER -> r
InsideFrom(f, r) ==
    IF r.is = "*" THEN UNION {{r.body[i]} \cup f[r.body[i]] : i \in DOMAIN r.body} ELSE {}
LastFrom(f, r) ==
    IF r.is = "*" /\ r.body # <<>> THEN f[Last(r.body)]
    ELSE IF r.is \in {"+", ":", "-"} THEN Len(FirstLine(r)) + Len(CRLF)
    ELSE 0

\* They look at the elements of an array only.
SameBelow(f, g, r) == r.is = "*" => \A i \in DOMAIN r.body : f[r.body[i]] = g[r.body[i]]

\* Each of the definitions gives the same for functions that agree on the elements.
LEMMA Local ==
    ASSUME NEW r \in Replies, NEW f, NEW g, SameBelow(f, g, r)
    PROVE  /\ EncodeFrom(f, r) = EncodeFrom(g, r)
           /\ ValueFrom(f, r) = ValueFrom(g, r)
           /\ InsideFrom(f, r) = InsideFrom(g, r)
           /\ LastFrom(f, r) = LastFrom(g, r)
  <1> DEFINE fs == [i \in DOMAIN r.body |-> f[r.body[i]]]
             gs == [i \in DOMAIN r.body |-> g[r.body[i]]]
  <1>1. CASE r.is = "*"
    <2>1. fs = gs
      BY <1>1 DEF SameBelow
    <2>2. EncodeFrom(f, r) = FirstLine(r) \o CRLF \o FlattenSeq(fs)
      BY <1>1 DEF EncodeFrom
    <2>3. EncodeFrom(g, r) = FirstLine(r) \o CRLF \o FlattenSeq(gs)
      BY <1>1 DEF EncodeFrom
    <2>4. ValueFrom(f, r) = Array(fs) /\ ValueFrom(g, r) = Array(gs)
      BY <1>1 DEF ValueFrom
    <2>5. LastFrom(f, r) = LastFrom(g, r)
      <3>1. r.body \in Seq(Replies)
        BY <1>1, ReplyKinds
      <3>2. r.body # <<>> => Len(r.body) \in DOMAIN r.body /\ Last(r.body) = r.body[Len(r.body)]
        BY <3>1 DEF Last
      <3>3. r.body # <<>> => f[Last(r.body)] = g[Last(r.body)]
        BY <1>1, <3>2 DEF SameBelow
      <3> QED
        BY <1>1, <3>3 DEF LastFrom
    <2>6. InsideFrom(f, r) = InsideFrom(g, r)
      BY <1>1 DEF InsideFrom, SameBelow
    <2> HIDE DEF fs, gs
    <2> QED
      BY <2>1, <2>2, <2>3, <2>4, <2>5, <2>6
  <1>2. CASE r.is # "*"
    <2>1. r.is \in {"+", "-", ":", "$", "nil", "nilArray"}
      BY <1>2, ReplyKinds
    <2> QED
      BY <1>2, <2>1 DEF EncodeFrom, ValueFrom, InsideFrom, LastFrom
  <1> QED
    BY <1>1, <1>2

\* Each of the definitions makes one function, found depth by depth.
Makes(f, r) ==
    [enc |-> EncodeFrom([e \in Replies |-> f[e].enc], r),
     val |-> ValueFrom([e \in Replies |-> f[e].val], r),
     inside |-> InsideFrom([e \in Replies |-> f[e].inside], r),
     last |-> LastFrom([e \in Replies |-> f[e].last], r)]
MadeTo(f, n) == \A r \in Replies : Depth[r] < n => f[r] = Makes(f, r)

\* So does the four of them together.
LEMMA MakesLocal ==
    ASSUME NEW r \in Replies, NEW f, NEW g,
           \A e \in Replies : Depth[e] < Depth[r] => f[e] = g[e]
    PROVE  Makes(f, r) = Makes(g, r)
  <1> DEFINE P(h) == [e \in Replies |-> h[e].enc]
             Q(h) == [e \in Replies |-> h[e].val]
             R(h) == [e \in Replies |-> h[e].last]
             S(h) == [e \in Replies |-> h[e].inside]
  <1>1. r.is = "*" => \A i \in DOMAIN r.body :
                          r.body[i] \in Replies /\ f[r.body[i]] = g[r.body[i]]
    BY ReplyKinds
  <1>2. SameBelow(P(f), P(g), r) /\ SameBelow(Q(f), Q(g), r) /\ SameBelow(R(f), R(g), r)
        /\ SameBelow(S(f), S(g), r)
    BY <1>1 DEF SameBelow
  <1> HIDE DEF P, Q, R, S
  <1>3. EncodeFrom(P(f), r) = EncodeFrom(P(g), r)
    BY <1>2, Local
  <1>4. ValueFrom(Q(f), r) = ValueFrom(Q(g), r)
    BY <1>2, Local
  <1>5. LastFrom(R(f), r) = LastFrom(R(g), r)
    BY <1>2, Local
  <1>6. InsideFrom(S(f), r) = InsideFrom(S(g), r)
    BY <1>2, Local
  <1>7. \A h : Makes(h, r) = [enc |-> EncodeFrom(P(h), r), val |-> ValueFrom(Q(h), r),
                              inside |-> InsideFrom(S(h), r), last |-> LastFrom(R(h), r)]
    BY DEF Makes, P, Q, R, S
  <1> QED
    BY <1>3, <1>4, <1>5, <1>6, <1>7

\* Down to a depth there is one such function.
LEMMA MadeOnce ==
    ASSUME NEW f, NEW g, NEW m \in Nat, NEW n \in Nat, MadeTo(f, m), MadeTo(g, n), m <= n
    PROVE  \A r \in Replies : Depth[r] < m => f[r] = g[r]
  <1> DEFINE Good == {k \in Nat : \A r \in Replies : Depth[r] < k /\ Depth[r] < m => f[r] = g[r]}
  <1>1. 0 \in Good
    BY DepthIs
  <1>2. ASSUME NEW k \in Nat, k \in Good PROVE k + 1 \in Good
    <2>1. ASSUME NEW r \in Replies, Depth[r] < k + 1, Depth[r] < m PROVE f[r] = g[r]
      <3>1. \A e \in Replies : Depth[e] < Depth[r] => f[e] = g[e]
        BY <1>2, <2>1, DepthIs
      <3>2. Makes(f, r) = Makes(g, r)
        BY <3>1, MakesLocal
      <3>3. Depth[r] < n
        BY <2>1, DepthIs
      <3> QED
        BY <2>1, <3>2, <3>3 DEF MadeTo
    <2> QED
      BY <2>1
  <1>3. m \in Good
    <2> HIDE DEF Good
    <2> QED
      BY <1>1, <1>2, LeastCounterexample
  <1> QED
    BY <1>3

\* There is one for each depth.
LEMMA MadeToEach ==
    ASSUME NEW n \in Nat
    PROVE  \E f : MadeTo(f, n)
  <1> DEFINE Good == {k \in Nat : \E f : MadeTo(f, k)}
  <1>1. 0 \in Good
    <2>1. \A f : MadeTo(f, 0)
      BY DepthIs DEF MadeTo
    <2> QED
      BY <2>1
  <1>2. ASSUME NEW k \in Nat, k \in Good PROVE k + 1 \in Good
    <2>1. PICK f : MadeTo(f, k)
      BY <1>2
    <2> DEFINE g == [r \in Replies |-> Makes(f, r)]
    <2>2. \A r \in Replies : g[r] = Makes(f, r)
      OBVIOUS
    <2> HIDE DEF g
    <2>3. ASSUME NEW r \in Replies, Depth[r] < k + 1 PROVE g[r] = Makes(g, r)
      <3>1. \A e \in Replies : Depth[e] < Depth[r] => f[e] = g[e]
        <4>1. \A e \in Replies : Depth[e] < Depth[r] => Depth[e] < k
          BY <2>3, DepthIs
        <4> QED
          BY <2>1, <2>2, <4>1 DEF MadeTo
      <3> QED
        BY <2>2, <3>1, MakesLocal
    <2>4. MadeTo(g, k + 1)
      BY <2>3 DEF MadeTo
    <2> QED
      BY <2>4
  <1> HIDE DEF Good
  <1>3. n \in Good
    BY <1>1, <1>2, LeastCounterexample
  <1> QED
    BY <1>3 DEF Good

\* There is one for all replies.
LEMMA MadeForAll == \E f : \A r \in Replies : f[r] = Makes(f, r)
  <1> DEFINE To(n) == CHOOSE f : MadeTo(f, n)
             f == [r \in Replies |-> To(Depth[r] + 1)[r]]
  <1>1. \A n \in Nat : MadeTo(To(n), n)
    BY MadeToEach
  <1>2. \A r \in Replies : f[r] = To(Depth[r] + 1)[r]
    OBVIOUS
  <1> HIDE DEF To, f
  <1>3. ASSUME NEW r \in Replies PROVE f[r] = Makes(f, r)
    <2> DEFINE g == To(Depth[r] + 1)
    <2>1. MadeTo(g, Depth[r] + 1) /\ Depth[r] \in Nat
      BY <1>1, DepthIs
    <2>2. f[r] = g[r]
      BY <1>2
    <2> HIDE DEF g
    <2>3. ASSUME NEW e \in Replies, Depth[e] < Depth[r] PROVE f[e] = g[e]
      <3> DEFINE h == To(Depth[e] + 1)
      <3>1. MadeTo(h, Depth[e] + 1) /\ Depth[e] \in Nat /\ f[e] = h[e]
        BY <1>1, <1>2, DepthIs
      <3> HIDE DEF h
      <3>2. Depth[e] + 1 \in Nat /\ Depth[r] + 1 \in Nat /\ Depth[e] + 1 <= Depth[r] + 1 /\ Depth[e] < Depth[e] + 1
        BY <2>1, <2>3, <3>1
      <3>3. h[e] = g[e]
        BY <2>1, <3>1, <3>2, MadeOnce
      <3> QED
        BY <3>1, <3>3
    <2>4. Makes(f, r) = Makes(g, r)
      BY <2>3, MakesLocal
    <2>5. g[r] = Makes(g, r)
      <3>1. Depth[r] < Depth[r] + 1
        BY <2>1
      <3> QED
        BY <2>1, <3>1 DEF MadeTo
    <2> QED
      BY <2>2, <2>4, <2>5
  <1> QED
    BY <1>3

\* The four recursive definitions satisfy their equations.
LEMMA RepliesAre ==
    /\ \A r \in Replies : Encode[r] = EncodeFrom(Encode, r)
    /\ \A r \in Replies : ValueOf[r] = ValueFrom(ValueOf, r)
    /\ \A r \in Replies : Inside[r] = InsideFrom(Inside, r)
    /\ \A r \in Replies : LastLine[r] = LastFrom(LastLine, r)
  <1>1. PICK f : \A r \in Replies : f[r] = Makes(f, r)
    BY MadeForAll
  <1> DEFINE enc == [r \in Replies |-> f[r].enc]
             val == [r \in Replies |-> f[r].val]
             inside == [r \in Replies |-> f[r].inside]
             last == [r \in Replies |-> f[r].last]
  <1>2. \A r \in Replies : /\ f[r].enc = EncodeFrom(enc, r)
                           /\ f[r].val = ValueFrom(val, r)
                           /\ f[r].inside = InsideFrom(inside, r)
                           /\ f[r].last = LastFrom(last, r)
    <2>1. \A r \in Replies : Makes(f, r) = [enc |-> EncodeFrom(enc, r), val |-> ValueFrom(val, r),
                                            inside |-> InsideFrom(inside, r), last |-> LastFrom(last, r)]
      BY DEF Makes
    <2> HIDE DEF enc, val, inside, last
    <2> QED
      BY <1>1, <2>1
  <1>3. /\ enc = [r \in Replies |-> EncodeFrom(enc, r)]
        /\ val = [r \in Replies |-> ValueFrom(val, r)]
        /\ inside = [r \in Replies |-> InsideFrom(inside, r)]
        /\ last = [r \in Replies |-> LastFrom(last, r)]
    BY <1>2
  <1> HIDE DEF enc, val, inside, last
  <1>4. Encode = CHOOSE g : g = [r \in Replies |-> EncodeFrom(g, r)]
    BY DEF Encode, EncodeFrom
  <1>5. ValueOf = CHOOSE g : g = [r \in Replies |-> ValueFrom(g, r)]
    BY DEF ValueOf, ValueFrom
  <1>6. Inside = CHOOSE g : g = [r \in Replies |-> InsideFrom(g, r)]
    BY DEF Inside, InsideFrom
  <1>7. LastLine = CHOOSE g : g = [r \in Replies |-> LastFrom(g, r)]
    BY DEF LastLine, LastFrom
  <1>8. Encode = [r \in Replies |-> EncodeFrom(Encode, r)]
    BY <1>3, <1>4
  <1>9. ValueOf = [r \in Replies |-> ValueFrom(ValueOf, r)]
    BY <1>3, <1>5
  <1>10. Inside = [r \in Replies |-> InsideFrom(Inside, r)]
    BY <1>3, <1>6
  <1>11. LastLine = [r \in Replies |-> LastFrom(LastLine, r)]
    BY <1>3, <1>7
  <1> QED
    BY <1>8, <1>9, <1>10, <1>11

-----------------------------------------------------------------------------
(* The encoding of an array.                                                *)

\* The loop of FlattenSeq, and the sequences it makes of the first i parts.
Flattening(h, s) == h = [i \in 1 .. Len(s) |-> IF i = 1 THEN s[i] ELSE h[i - 1] \o s[i]]
JoinedParts(F, s, top) ==
    /\ F[0] = <<>>
    /\ \A i \in 0 .. top : F[i] \in Seq(Symbols)
    /\ \A i \in 1 .. top : F[i] = F[i - 1] \o s[i]

\* The first i parts of a sequence of strings, joined.
LEMMA PrefixesExist ==
    ASSUME NEW s \in Seq(Seq(Symbols))
    PROVE  \E F : JoinedParts(F, s, Len(s))
  <1> DEFINE Good == {top \in Nat : top <= Len(s) => \E F : JoinedParts(F, s, top)}
  <1>1. 0 \in Good
    <2>1. JoinedParts([i \in 0..0 |-> <<>>], s, 0)
      BY Singles DEF JoinedParts
    <2> QED
      BY <2>1
  <1>2. ASSUME NEW top \in Nat, top \in Good PROVE top + 1 \in Good
    <2> SUFFICES ASSUME top + 1 <= Len(s) PROVE \E F : JoinedParts(F, s, top + 1)
      OBVIOUS
    <2>1. PICK F : JoinedParts(F, s, top)
      BY <1>2
    <2> DEFINE next == F[top] \o s[top + 1]
               h == [i \in 0 .. top + 1 |-> IF i = top + 1 THEN next ELSE F[i]]
    <2>2. next \in Seq(Symbols)
      <3>1. F[top] \in Seq(Symbols) /\ s[top + 1] \in Seq(Symbols)
        BY <2>1 DEF JoinedParts
      <3> QED
        BY <3>1
    <2> HIDE DEF next
    <2>7. \A i \in 0 .. top : h[i] = F[i]
      OBVIOUS
    <2>8. h[top + 1] = next
      OBVIOUS
    <2> HIDE DEF h
    <2>3. (\A i \in 0 .. top : h[i] = F[i]) /\ h[top + 1] = next
      BY <2>7, <2>8
    <2>4. \A i \in 0 .. top + 1 : i \in 0 .. top \/ i = top + 1
      OBVIOUS
    <2>5. h[0] = <<>> /\ \A i \in 0 .. top + 1 : h[i] \in Seq(Symbols)
      <3>1. 0 \in 0 .. top
        OBVIOUS
      <3> QED
        BY <2>1, <2>2, <2>3, <2>4, <3>1 DEF JoinedParts
    <2>6. ASSUME NEW i \in 1 .. top + 1 PROVE h[i] = h[i - 1] \o s[i]
      <3>1. CASE i = top + 1
        <4>1. i - 1 = top /\ top \in 0 .. top
          BY <3>1
        <4> QED
          BY <2>3, <3>1, <4>1 DEF next
      <3>2. CASE i # top + 1
        <4>1. i \in 1 .. top /\ i \in 0 .. top /\ i - 1 \in 0 .. top
          BY <3>2
        <4> QED
          BY <2>1, <2>3, <4>1 DEF JoinedParts
      <3> QED
        BY <3>1, <3>2
    <2> QED
      BY <2>5, <2>6 DEF JoinedParts
  <1>3. Len(s) \in Good
    <2> HIDE DEF Good
    <2> QED
      BY <1>1, <1>2, LeastCounterexample
  <1> QED
    BY <1>3

\* FlattenSeq() joins them all.
LEMMA FlattenIs ==
    ASSUME NEW s \in Seq(Seq(Symbols)), NEW F, JoinedParts(F, s, Len(s))
    PROVE  FlattenSeq(s) = F[Len(s)]
  <1>1. CASE Len(s) = 0
    BY <1>1 DEF FlattenSeq, JoinedParts
  <1>2. CASE Len(s) # 0
    <2> DEFINE g == [i \in 1 .. Len(s) |-> F[i]]
               h == CHOOSE f : Flattening(f, s)
    <2>1. Flattening(g, s)
      <3>1. ASSUME NEW i \in 1 .. Len(s)
            PROVE  g[i] = IF i = 1 THEN s[i] ELSE g[i - 1] \o s[i]
        <4>1. CASE i = 1
          <5>0. 1 \in 1 .. Len(s) /\ 1 - 1 = 0
            BY <1>2
          <5>3. s[1] \in Seq(Symbols)
            BY <5>0
          <5>4. F[1] = F[1 - 1] \o s[1]
            BY <5>0 DEF JoinedParts
          <5>1. F[1] = F[0] \o s[1] /\ F[0] = <<>> /\ s[1] \in Seq(Symbols)
            BY <5>0, <5>3, <5>4 DEF JoinedParts
          <5>2. <<>> \o s[1] = s[1]
            BY <5>1
          <5> QED
            BY <4>1, <5>1, <5>2
        <4>2. CASE i # 1
          <5>1. i - 1 \in 1 .. Len(s)
            BY <4>2
          <5> QED
            BY <4>2, <5>1 DEF JoinedParts
        <4> QED
          BY <4>1, <4>2
      <3> HIDE DEF g
      <3>2. g = [i \in 1 .. Len(s) |-> g[i]]
        BY DEF g
      <3> QED
        BY <3>1, <3>2 DEF Flattening
    <2>2. Flattening(h, s)
      BY <2>1
    <2>3. FlattenSeq(s) = h[Len(s)]
      BY <1>2 DEF FlattenSeq, Flattening
    <2> HIDE DEF g, h
    <2> DEFINE Good == {n \in Nat : n + 1 <= Len(s) => h[n + 1] = F[n + 1]}
    <2>4. 0 \in Good
      <3>1. 1 \in 1 .. Len(s) /\ 1 - 1 = 0
        BY <1>2
      <3>2. h[1] = s[1]
        BY <2>2, <3>1 DEF Flattening
      <3>5. s[1] \in Seq(Symbols)
        BY <3>1
      <3>6. F[1] = F[1 - 1] \o s[1]
        BY <3>1 DEF JoinedParts
      <3>4. F[1] = F[0] \o s[1] /\ F[0] = <<>> /\ s[1] \in Seq(Symbols)
        BY <3>1, <3>5, <3>6 DEF JoinedParts
      <3>3. <<>> \o s[1] = s[1]
        BY <3>4
      <3> QED
        BY <3>2, <3>3, <3>4
    <2>5. ASSUME NEW n \in Nat, n \in Good PROVE n + 1 \in Good
      <3> SUFFICES ASSUME (n + 1) + 1 <= Len(s) PROVE h[(n + 1) + 1] = F[(n + 1) + 1]
        OBVIOUS
      <3>1. (n + 1) + 1 \in 1 .. Len(s) /\ (n + 1) + 1 # 1 /\ ((n + 1) + 1) - 1 = n + 1
        OBVIOUS
      <3>2. h[(n + 1) + 1] = h[n + 1] \o s[(n + 1) + 1]
        BY <2>2, <3>1 DEF Flattening
      <3>3. F[(n + 1) + 1] = F[n + 1] \o s[(n + 1) + 1]
        BY <3>1 DEF JoinedParts
      <3>4. h[n + 1] = F[n + 1]
        BY <2>5
      <3> QED
        BY <3>2, <3>3, <3>4
    <2>6. Len(s) - 1 \in Nat /\ (Len(s) - 1) + 1 = Len(s)
      BY <1>2
    <2>7. Len(s) - 1 \in Good
      <3> HIDE DEF Good
      <3> QED
        BY <2>4, <2>5, <2>6, LeastCounterexample
    <2> QED
      BY <2>3, <2>6, <2>7
  <1> QED
    BY <1>1, <1>2

\* What is left of the parts after the first g of them.
LaterParts(A, s) ==
    /\ A[0] = FlattenSeq(s) /\ A[Len(s)] = <<>>
    /\ \A g \in 0 .. Len(s) : A[g] \in Seq(Symbols)
    /\ \A g \in 0 .. Len(s) - 1 : A[g] = s[g + 1] \o A[g + 1]

\* What follows the first g parts, for each g.
LEMMA SuffixesExist ==
    ASSUME NEW s \in Seq(Seq(Symbols))
    PROVE  \E A : LaterParts(A, s)
  <1>0. Len(s) \in Nat /\ \A i \in 1 .. Len(s) : s[i] \in Seq(Symbols)
    OBVIOUS
  <1>1. PICK F : JoinedParts(F, s, Len(s))
    BY PrefixesExist
  <1> DEFINE all == F[Len(s)]
  <1>2. FlattenSeq(s) = all /\ all \in Seq(Symbols) /\ F[0] = <<>>
    <2>1. FlattenSeq(s) = F[Len(s)]
      BY <1>1, FlattenIs
    <2> QED
      BY <1>0, <1>1, <2>1 DEF JoinedParts
  <1>3. \A g \in 0 .. Len(s) : F[g] \in Seq(Symbols)
    BY <1>1 DEF JoinedParts
  <1> HIDE DEF all
  <1>4. ASSUME NEW g \in 0 .. Len(s), NEW e \in Seq(Symbols), all = F[g] \o e
        PROVE  Past(all, F[g]) = e
    <2> DEFINE p == F[g]
    <2>1. p \in Seq(Symbols) /\ all = p \o e
      BY <1>3, <1>4
    <2> HIDE DEF p
    <2>2. Past(all, p) \in Seq(Symbols) /\ all = p \o Past(all, p)
      <3>1. all \in Seq(Symbols) /\ Len(p) \in Nat /\ Len(p) <= Len(all)
        BY <1>2, <2>1
      <3>2. PICK none \in Seq(Symbols) : all = all \o none
        <4>1. all \o <<>> = all /\ <<>> \in Seq(Symbols)
          BY <3>1
        <4> QED
          BY <4>1
      <3>3. Splits(p, e, all, none)
        BY <2>1, <3>1, <3>2 DEF Splits
      <3> QED
        BY <3>1, <3>3, Overlap
    <2>3. Past(all, p) = e
      BY <2>1, <2>2, CancelLeft
    <2> QED
      BY <2>3 DEF p
  <1> DEFINE A == [g \in 0 .. Len(s) |-> Past(all, F[g])]
             Fits(g) == Past(all, F[g]) \in Seq(Symbols) /\ all = F[g] \o Past(all, F[g])
  <1>5. \A g \in 0 .. Len(s) : Fits(g)
    <2> DEFINE Good == {k \in Nat : k <= Len(s) => Fits(Len(s) - k)}
    <2>1. 0 \in Good
      <3>1. Len(s) \in 0 .. Len(s) /\ all = F[Len(s)] \o <<>> /\ Len(s) - 0 = Len(s)
        BY <1>0, <1>2, <1>3 DEF all
      <3>2. Past(all, F[Len(s)]) = <<>>
        BY <1>4, <3>1, Singles
      <3> QED
        BY <3>1, <3>2, Singles
    <2>2. ASSUME NEW k \in Nat, k \in Good PROVE k + 1 \in Good
      <3> HIDE DEF Fits
      <3> SUFFICES ASSUME k + 1 <= Len(s) PROVE Fits(Len(s) - (k + 1))
        OBVIOUS
      <3> DEFINE g == Len(s) - (k + 1)
      <3>1. g \in 0 .. Len(s) /\ g + 1 \in 1 .. Len(s) /\ Len(s) - k = g + 1 /\ (g + 1) - 1 = g
        BY <1>0
      <3> HIDE DEF g
      <3>2. Fits(g + 1)
        <4>1. k <= Len(s)
          BY <1>0
        <4> QED
          BY <2>2, <3>1, <4>1
      <3> USE DEF Fits
      <3>3. F[g + 1] = F[g] \o s[g + 1] /\ s[g + 1] \in Seq(Symbols) /\ F[g] \in Seq(Symbols)
        BY <1>0, <1>1, <3>1 DEF JoinedParts
      <3> DEFINE e == s[g + 1] \o Past(all, F[g + 1])
      <3>4. e \in Seq(Symbols) /\ all = F[g] \o e
        <4> DEFINE q == Past(all, F[g + 1])
        <4>1. q \in Seq(Symbols) /\ all = (F[g] \o s[g + 1]) \o q
          BY <3>2, <3>3
        <4> HIDE DEF q
        <4>2. (F[g] \o s[g + 1]) \o q = F[g] \o (s[g + 1] \o q)
          BY <3>3, <4>1, Assoc
        <4>3. s[g + 1] \o q \in Seq(Symbols)
          BY <3>3, <4>1
        <4> QED
          BY <4>1, <4>2, <4>3 DEF q
      <3> HIDE DEF e
      <3>5. Past(all, F[g]) = e
        BY <1>4, <3>1, <3>4
      <3> QED
        BY <3>4, <3>5 DEF g
    <2>3. Nat \subseteq Good
      <3> HIDE DEF Good
      <3> QED
        BY <2>1, <2>2, LeastCounterexample
    <2>4. ASSUME NEW g \in 0 .. Len(s) PROVE Fits(g)
      <3>1. Len(s) - g \in Nat /\ Len(s) - g <= Len(s) /\ Len(s) - (Len(s) - g) = g
        BY <1>0
      <3> QED
        BY <2>3, <3>1
    <2> QED
      BY <2>4
  <1>6. A[0] = FlattenSeq(s)
    <2>1. all = F[0] \o all /\ 0 \in 0 .. Len(s)
      BY <1>0, <1>2
    <2> QED
      BY <1>2, <1>4, <2>1
  <1>7. A[Len(s)] = <<>>
    <2>1. Len(s) \in 0 .. Len(s) /\ all = F[Len(s)] \o <<>>
      BY <1>0, <1>2, <1>3 DEF all
    <2> QED
      BY <1>4, <2>1, Singles
  <1>8. \A g \in 0 .. Len(s) : A[g] \in Seq(Symbols)
    BY <1>5
  <1>9. ASSUME NEW g \in 0 .. Len(s) - 1 PROVE A[g] = s[g + 1] \o A[g + 1]
    <2>1. g \in 0 .. Len(s) /\ g + 1 \in 0 .. Len(s) /\ g + 1 \in 1 .. Len(s) /\ (g + 1) - 1 = g
      BY <1>0
    <2>2. A[g] = Past(all, F[g]) /\ A[g + 1] = Past(all, F[g + 1])
      BY <2>1
    <2>3. Fits(g) /\ Fits(g + 1)
      BY <1>5, <2>1
    <2>4. F[g + 1] = F[g] \o s[g + 1] /\ s[g + 1] \in Seq(Symbols) /\ F[g] \in Seq(Symbols)
      BY <1>0, <1>1, <2>1 DEF JoinedParts
    <2>5. all = F[g] \o (s[g + 1] \o Past(all, F[g + 1]))
      <3>1. all = (F[g] \o s[g + 1]) \o Past(all, F[g + 1])
        BY <2>3, <2>4
      <3> QED
        BY <2>3, <2>4, <3>1, Assoc
    <2>6. s[g + 1] \o Past(all, F[g + 1]) \in Seq(Symbols)
      BY <2>3, <2>4
    <2>7. Past(all, F[g]) = s[g + 1] \o Past(all, F[g + 1])
      BY <1>4, <2>1, <2>5, <2>6
    <2> QED
      BY <2>2, <2>7
  <1> HIDE DEF A
  <1>10. LaterParts(A, s)
    BY <1>6, <1>7, <1>8, <1>9 DEF LaterParts
  <1> QED
    BY <1>10

-----------------------------------------------------------------------------
(* Lines.                                                                   *)

\* The type byte of a reply, and the rest of its first line.
Code(r) == IF r.is = "nil" THEN "$" ELSE IF r.is = "nilArray" THEN "*" ELSE r.is
Text(r) ==
    IF r.is \in {"+", "-"} THEN r.body
    ELSE IF r.is = ":" THEN Decimal(r.body)
    ELSE IF r.is \in {"$", "*"} THEN Decimal(Len(r.body))
    ELSE Decimal(-1)

\* No byte of a line marks its end.
LEMMA LineBytes ==
    /\ LineSymbols \subseteq Symbols /\ DigitBytes \subseteq LineSymbols /\ Kinds \subseteq LineSymbols
    /\ "CR" \notin LineSymbols /\ "LF" \notin LineSymbols
  <1>1. \A b : b \in ToSet(CRLF) <=> b = "CR" \/ b = "LF"
    BY DEF ToSet, CRLF
  <1>2. DigitBytes \subseteq LineSymbols
    BY <1>1, DigitsAre DEF LineSymbols
  <1>3. Kinds \subseteq LineSymbols
    BY <1>1, Marks DEF Kinds, LineSymbols
  <1> QED
    BY <1>1, <1>2, <1>3 DEF LineSymbols

\* Numerals are strings of digits.
LEMMA NumeralType == \A n \in 0 .. Safe : Numeral[n] \in Seq(DigitBytes) /\ Numeral[n] # <<>>
  BY NumeralsReadable DEF Readable

\* A number is written in bytes that may stand in a line.
LEMMA DecimalType == \A n \in -Safe .. Safe : Decimal(n) \in Seq(LineSymbols)
  <1>0. Safe \in Nat
    BY ReplyAssumption
  <1>1. \A n \in 0 .. Safe : Numeral[n] \in Seq(LineSymbols)
    <2>1. \A n \in 0 .. Safe : Numeral[n] \in Seq(DigitBytes)
      BY NumeralType
    <2>2. DigitBytes \subseteq LineSymbols
      BY LineBytes
    <2> QED
      BY <2>1, <2>2, SeqMonotonic
  <1>2. "-" \in LineSymbols
    BY LineBytes DEF Kinds
  <1>3. ASSUME NEW n \in -Safe .. Safe PROVE Decimal(n) \in Seq(LineSymbols)
    <2>1. CASE n < 0
      <3>1. -n \in 0 .. Safe
        BY <1>0, <2>1
      <3> DEFINE d == Numeral[-n]
      <3>2. d \in Seq(LineSymbols)
        BY <1>1, <3>1
      <3>3. Decimal(n) = <<"-">> \o d
        BY <2>1 DEF Decimal
      <3> HIDE DEF d
      <3> QED
        BY <1>2, <3>2, <3>3
    <2>2. CASE ~ (n < 0)
      <3>1. n \in 0 .. Safe
        BY <1>0, <2>2
      <3> QED
        BY <1>1, <2>2, <3>1 DEF Decimal
    <2> QED
      BY <2>1, <2>2
  <1> QED
    BY <1>3

\* A first line is a type byte and a text, neither of which holds CR or LF.
LEMMA LineIs ==
    ASSUME NEW r \in Replies
    PROVE  /\ Code(r) \in LineSymbols /\ Code(r) \in Kinds
           /\ Text(r) \in Seq(LineSymbols)
           /\ FirstLine(r) = <<Code(r)>> \o Text(r)
  <1>0. Safe \in Nat \ {0}
    BY ReplyAssumption
  <1>1. CASE r.is \in {"+", "-"} /\ r.body \in Seq(LineSymbols)
    BY <1>1, LineBytes DEF Code, Text, FirstLine, Kinds
  <1>2. CASE r.is = ":" /\ r.body \in -Safe .. Safe
    BY <1>2, LineBytes, DecimalType DEF Code, Text, FirstLine, Kinds
  <1>3. CASE r.is \in {"$", "*"} /\ Len(r.body) \in 0 .. Safe
    <2>1. Len(r.body) \in -Safe .. Safe
      BY <1>0, <1>3
    <2> QED
      BY <1>3, <2>1, LineBytes, DecimalType DEF Code, Text, FirstLine, Kinds
  <1>4. CASE r.is \in {"nil", "nilArray"}
    <2>1. -1 \in -Safe .. Safe
      BY <1>0
    <2> QED
      BY <1>4, <2>1, LineBytes, DecimalType DEF Code, Text, FirstLine, Kinds
  <1> QED
    BY <1>1, <1>2, <1>3, <1>4, ReplyKinds

\* A first line is a string of at least one byte.
LEMMA FirstLineType ==
    ASSUME NEW r \in Replies
    PROVE  FirstLine(r) \in Seq(LineSymbols) /\ FirstLine(r) \in Seq(Symbols) /\ Len(FirstLine(r)) >= 1
  <1>1. ASSUME NEW c \in LineSymbols, NEW t \in Seq(LineSymbols)
        PROVE  <<c>> \o t \in Seq(LineSymbols) /\ Len(<<c>> \o t) >= 1
    OBVIOUS
  <1>2. FirstLine(r) \in Seq(LineSymbols) /\ Len(FirstLine(r)) >= 1
    BY ONLY <1>1, LineIs, r \in Replies
  <1> QED
    BY <1>2, LineBytes, SeqMonotonic

-----------------------------------------------------------------------------
(* Encodings.                                                               *)

Parts(r) == [i \in DOMAIN r.body |-> Encode[r.body[i]]]

\* What is left of an array after its first elements.
After(r) == CHOOSE A : LaterParts(A, Parts(r))

\* What follows the first line.
Payload(r) ==
    IF r.is = "*" THEN After(r)[0] ELSE IF r.is = "$" THEN r.body \o CRLF ELSE <<>>

\* The encoding of a reply is a string of bytes, by induction over its depth.
LEMMA EncodeType == \A r \in Replies : Encode[r] \in Seq(Symbols)
  <1> DEFINE Good == {n \in Nat : \A r \in Replies : Depth[r] < n => Encode[r] \in Seq(Symbols)}
  <1>1. 0 \in Good
    BY DepthIs
  <1>2. ASSUME NEW n \in Nat, n \in Good PROVE n + 1 \in Good
    <2>1. ASSUME NEW r \in Replies, Depth[r] < n + 1 PROVE Encode[r] \in Seq(Symbols)
      <3>1. Encode[r] = EncodeFrom(Encode, r)
        BY RepliesAre
      <3>2. FirstLine(r) \in Seq(Symbols) /\ CRLF \in Seq(Symbols)
        BY FirstLineType, Marks
      <3>3. CASE r.is = "*"
        <4>1. r.body \in Seq(Replies) /\ \A i \in 1 .. Len(r.body) : Depth[r.body[i]] < Depth[r]
          BY <3>3, ReplyKinds
        <4>2. \A i \in 1 .. Len(r.body) : Encode[r.body[i]] \in Seq(Symbols)
          <5>1. ASSUME NEW i \in 1 .. Len(r.body) PROVE Encode[r.body[i]] \in Seq(Symbols)
            <6>1. r.body[i] \in Replies
              BY <4>1
            <6>2. Depth[r.body[i]] < n
              BY <2>1, <4>1, <6>1, DepthIs
            <6> QED
              BY <1>2, <6>1, <6>2
          <5> QED
            BY <5>1
        <4>3. DOMAIN r.body = 1 .. Len(r.body) /\ Len(r.body) \in Nat
          BY <4>1
        <4>4. Parts(r) \in Seq(Seq(Symbols))
          BY <4>2, <4>3 DEF Parts
        <4>5. PICK A : LaterParts(A, Parts(r))
          BY <4>4, SuffixesExist
        <4>6. FlattenSeq(Parts(r)) \in Seq(Symbols)
          BY <4>4, <4>5 DEF LaterParts
        <4>7. Encode[r] = FirstLine(r) \o CRLF \o FlattenSeq(Parts(r))
          BY <3>1, <3>3 DEF EncodeFrom, Parts
        <4> QED
          BY <3>2, <4>6, <4>7
      <3>4. CASE r.is = "$"
        <4>1. r.body \in Seq(Symbols)
          BY <3>4, ReplyKinds
        <4>2. Encode[r] = FirstLine(r) \o CRLF \o (r.body \o CRLF)
          BY <3>1, <3>4 DEF EncodeFrom
        <4> QED
          BY <3>2, <4>1, <4>2
      <3>5. CASE r.is \notin {"*", "$"}
        <4>1. Encode[r] = FirstLine(r) \o CRLF \o <<>>
          BY <3>1, <3>5 DEF EncodeFrom
        <4> QED
          BY <3>2, <4>1
      <3> QED
        BY <3>3, <3>4, <3>5
    <2> QED
      BY <2>1
  <1>3. Nat \subseteq Good
    <2> HIDE DEF Good
    <2> QED
      BY <1>1, <1>2, LeastCounterexample
  <1>4. ASSUME NEW r \in Replies PROVE Encode[r] \in Seq(Symbols)
    <2>1. Depth[r] + 1 \in Nat /\ Depth[r] < Depth[r] + 1
      BY DepthIs
    <2> QED
      BY <1>3, <2>1
  <1> QED
    BY <1>4

\* The encoding of an array's elements, one after the other.
LEMMA AfterIs ==
    ASSUME NEW r \in Replies, r.is = "*"
    PROVE  /\ \A g \in 0 .. Len(r.body) : After(r)[g] \in Seq(Symbols)
           /\ After(r)[Len(r.body)] = <<>>
           /\ \A g \in 0 .. Len(r.body) - 1 : r.body[g + 1] \in Replies
                                              /\ After(r)[g] = Encode[r.body[g + 1]] \o After(r)[g + 1]
           /\ FlattenSeq(Parts(r)) = After(r)[0]
  <1>1. r.body \in Seq(Replies)
    BY ReplyKinds
  <1>2. DOMAIN r.body = 1 .. Len(r.body) /\ Len(r.body) \in Nat /\ \A i \in 1 .. Len(r.body) : r.body[i] \in Replies
    BY <1>1
  <1>3. Parts(r) \in Seq(Seq(Symbols)) /\ Len(Parts(r)) = Len(r.body)
    BY <1>2, EncodeType DEF Parts
  <1>4. LaterParts(After(r), Parts(r))
    BY <1>3, SuffixesExist DEF After
  <1>5. \A g \in 0 .. Len(r.body) - 1 : /\ r.body[g + 1] \in Replies
                                        /\ Parts(r)[g + 1] = Encode[r.body[g + 1]]
    BY <1>2 DEF Parts
  <1> QED
    BY <1>3, <1>4, <1>5 DEF LaterParts

\* An encoding is the first line, CRLF and what follows.
LEMMA EncodeIs ==
    ASSUME NEW r \in Replies
    PROVE  /\ Payload(r) \in Seq(Symbols)
           /\ Encode[r] = FirstLine(r) \o (CRLF \o Payload(r))
  <1>1. Encode[r] = EncodeFrom(Encode, r)
    BY RepliesAre
  <1>2. FirstLine(r) \in Seq(Symbols) /\ CRLF \in Seq(Symbols)
    BY FirstLineType, Marks
  <1>3. Payload(r) \in Seq(Symbols) /\ Encode[r] = FirstLine(r) \o CRLF \o Payload(r)
    <2>1. CASE r.is = "*"
      <3>0. Len(r.body) \in Nat
        <4>1. r.body \in Seq(Replies)
          BY <2>1, ReplyKinds
        <4> QED
          BY <4>1
      <3>1. FlattenSeq(Parts(r)) = After(r)[0] /\ Len(r.body) \in Nat
        BY <2>1, <3>0, AfterIs
      <3>2. After(r)[0] \in Seq(Symbols)
        <4>1. 0 \in 0 .. Len(r.body)
          BY <3>1
        <4> QED
          BY <2>1, <4>1, AfterIs
      <3>3. Encode[r] = FirstLine(r) \o CRLF \o FlattenSeq(Parts(r))
        BY <1>1, <2>1 DEF EncodeFrom, Parts
      <3> QED
        BY <2>1, <3>1, <3>2, <3>3 DEF Payload
    <2>2. CASE r.is = "$"
      <3>1. r.body \in Seq(Symbols)
        BY <2>2, ReplyKinds
      <3>2. Payload(r) = r.body \o CRLF
        BY <2>2 DEF Payload
      <3>3. Encode[r] = FirstLine(r) \o CRLF \o Payload(r)
        BY <1>1, <2>2, <3>2 DEF EncodeFrom
      <3> QED
        BY <1>2, <3>1, <3>2, <3>3
    <2>3. CASE r.is \notin {"*", "$"}
      <3>1. Payload(r) = <<>>
        BY <2>3 DEF Payload
      <3>2. Encode[r] = FirstLine(r) \o CRLF \o <<>>
        BY <1>1, <2>3 DEF EncodeFrom
      <3> QED
        BY <3>1, <3>2, Singles
    <2> QED
      BY <2>1, <2>2, <2>3
  <1> QED
    BY <1>2, <1>3, Assoc

-----------------------------------------------------------------------------
(* readLine().                                                              *)

Strings(a, b, c) == a \in Seq(Symbols) /\ b \in Seq(Symbols) /\ c \in Seq(Symbols)

\* Assoc, with its hypotheses in one.
LEMMA Regroup ==
    ASSUME NEW a, NEW b, NEW c, Strings(a, b, c)
    PROVE  (a \o b) \o c = a \o (b \o c)
  BY Assoc DEF Strings

\* The type and the length of two strings joined.
LEMMA Joined ==
    ASSUME NEW a, NEW b, Strings(a, b, b)
    PROVE  /\ a \o b \in Seq(Symbols) /\ Len(a \o b) = Len(a) + Len(b)
           /\ Len(a) \in Nat /\ Len(b) \in Nat
           /\ Len(a) = 2 => (a \o b)[1] = a[1] /\ (a \o b)[2] = a[2]
  BY DEF Strings

\* A part p of the text t of a line, cut off where s may be what follows.
TornText(p, e, s, t) == p \in Seq(Symbols) /\ e \in Seq(Symbols) /\ s \in Stumps /\ p \o e = t

\* Where the CRLFs of a buffer begin.
Marked(b) == {i \in 1 .. Len(b) - 1 : b[i] = "CR" /\ b[i + 1] = "LF"}

\* findCRLF() finds the first mark and says when there is none.
LEMMA FirstMark ==
    ASSUME NEW b \in Seq(Symbols)
    PROVE  /\ Marked(b) = {} => FindCRLF(b) = 0
           /\ \A n \in Marked(b) : (\A j \in Marked(b) : n <= j) => FindCRLF(b) = n
  <1> DEFINE P(i) == \A j \in Marked(b) : i <= j
  <1>1. FindCRLF(b) = IF Marked(b) = {} THEN 0 ELSE CHOOSE i \in Marked(b) : P(i)
    BY DEF FindCRLF, Marked
  <1>2. Marked(b) \subseteq Int
    BY DEF Marked
  <1>3. ASSUME NEW n \in Marked(b), P(n) PROVE FindCRLF(b) = n
    <2>1. \A m \in Marked(b) : P(m) => m = n
      BY <1>2, <1>3
    <2> HIDE DEF P
    <2>2. n = CHOOSE i \in Marked(b) : P(i)
      BY <1>3, <2>1
    <2> QED
      BY <1>1, <2>2
  <1> QED
    BY <1>1, <1>3

\* The bytes in the buffer b, the rest z of the stream after them.
One(c) == <<c>>
LineThere(b, z, c, t, x) ==
    /\ b \in Seq(Symbols) /\ z \in Seq(Symbols) /\ x \in Seq(Symbols)
    /\ c \in LineSymbols /\ t \in Seq(LineSymbols)
    /\ b # <<>> /\ b \o z = (<<c>> \o t) \o (CRLF \o x)

\* Where the bytes of the first line are in a buffer that has them.
LEMMA LineBeginning ==
    ASSUME NEW b, NEW z, NEW c, NEW t, NEW x, LineThere(b, z, c, t, x)
    PROVE  /\ t \in Seq(Symbols) /\ <<c>> \in Seq(Symbols) /\ Len(<<c>>) = 1
           /\ <<c>> \o t \in Seq(Symbols) /\ Len(<<c>> \o t) = Len(t) + 1 /\ Len(t) \in Nat
           /\ CRLF \o x \in Seq(Symbols) /\ Len(CRLF \o x) = Len(x) + 2 /\ Len(x) \in Nat
           /\ \A i \in 1 .. Len(t) + 1 : i <= Len(b) => b[i] \notin {"CR", "LF"}
           /\ Len(t) + 2 <= Len(b) => b[Len(t) + 2] = "CR"
           /\ Len(t) + 3 <= Len(b) => b[Len(t) + 3] = "LF"
  <1> USE DEF LineThere
  <1>1. t \in Seq(Symbols) /\ c \in Symbols
    BY LineBytes, SeqMonotonic
  <1>2. <<c>> \in Seq(Symbols) /\ Len(<<c>>) = 1
    BY <1>1, Singles
  <1> DEFINE L == <<c>> \o t
             R == CRLF \o x
  <1>3. L \in Seq(Symbols) /\ Len(L) = Len(t) + 1 /\ Len(t) \in Nat
    BY <1>1, <1>2
  <1>4. R \in Seq(Symbols) /\ Len(R) = Len(x) + 2 /\ Len(x) \in Nat /\ R[1] = "CR" /\ R[2] = "LF"
    <2>1. CRLF[1] = "CR" /\ CRLF[2] = "LF" /\ CRLF \in Seq(Symbols) /\ Len(CRLF) = 2
      BY Marks DEF CRLF
    <2>2. LineThere(b, z, c, t, x) => x \in Seq(Symbols)
      BY DEF LineThere
    <2>3. Strings(CRLF, x, x)
      BY <2>1, <2>2 DEF Strings
    <2>4. R \in Seq(Symbols) /\ Len(R) = Len(CRLF) + Len(x) /\ Len(x) \in Nat /\ Len(CRLF) = 2
      BY <2>1, <2>3, Joined
    <2>5. R[1] = CRLF[1] /\ R[2] = CRLF[2]
      BY <2>1, <2>3, Joined
    <2> QED
      BY <2>1, <2>4, <2>5
  <1>5. \A i \in 1 .. Len(t) + 1 : L[i] \in LineSymbols
    <2>1. <<c>> \in Seq(LineSymbols)
      OBVIOUS
    <2>2. L \in Seq(LineSymbols)
      BY <2>1
    <2> HIDE DEF L
    <2> QED
      BY <1>3, <2>2
  <1>6. b \o z = L \o R
    OBVIOUS
  <1> HIDE DEF L, R
  <1>7. \A i \in 1 .. Len(b) : b[i] = (L \o R)[i]
    <2>1. \A i \in 1 .. Len(b) : b[i] = (b \o z)[i]
      OBVIOUS
    <2> QED
      BY <1>6, <2>1
  <1>8. Len(b) <= Len(L) + Len(R)
    <2>0. b \in Seq(Symbols) /\ z \in Seq(Symbols)
      OBVIOUS
    <2>1. Len(b \o z) = Len(b) + Len(z) /\ Len(L \o R) = Len(L) + Len(R) /\ Len(z) \in Nat /\ Len(b) \in Nat
      BY ONLY <1>3, <1>4, <2>0
    <2> QED
      BY <1>3, <1>4, <1>6, <2>1
  <1>9. ASSUME NEW i \in 1 .. Len(t) + 1, i <= Len(b) PROVE b[i] \notin {"CR", "LF"}
    <2>1. (L \o R)[i] = L[i] /\ i \in 1 .. Len(b)
      BY <1>3, <1>4, <1>9
    <2>2. L[i] \in LineSymbols
      BY <1>5
    <2> QED
      BY <1>7, <2>1, <2>2, LineBytes
  <1>10. ASSUME Len(t) + 2 <= Len(b) PROVE b[Len(t) + 2] = "CR"
    <2>1. Len(t) + 2 \in 1 .. Len(b) /\ Len(t) + 2 \in 1 .. Len(L) + Len(R)
          /\ ~ (Len(t) + 2 <= Len(L)) /\ (Len(t) + 2) - Len(L) = 1
      BY <1>3, <1>4, <1>8, <1>10
    <2>2. (L \o R)[Len(t) + 2] = R[(Len(t) + 2) - Len(L)]
      BY <1>3, <1>4, <2>1, ConcatProperties
    <2> QED
      BY <1>4, <1>7, <2>1, <2>2
  <1>11. ASSUME Len(t) + 3 <= Len(b) PROVE b[Len(t) + 3] = "LF"
    <2>1. Len(t) + 3 \in 1 .. Len(b) /\ Len(t) + 3 \in 1 .. Len(L) + Len(R)
          /\ ~ (Len(t) + 3 <= Len(L)) /\ (Len(t) + 3) - Len(L) = 2
      BY <1>3, <1>4, <1>8, <1>11
    <2>2. (L \o R)[Len(t) + 3] = R[(Len(t) + 3) - Len(L)]
      BY <1>3, <1>4, <2>1, ConcatProperties
    <2> QED
      BY <1>4, <1>7, <2>1, <2>2
  <1> QED
    BY <1>1, <1>2, <1>3, <1>4, <1>9, <1>10, <1>11 DEF L, R

\* The whole line is in the buffer.
Found(b, z, c, t, x) ==
    /\ FindCRLF(b) # 0
    /\ SubSeq(b, 1, FindCRLF(b) - 1) = One(c) \o t
    /\ SubSeq(b, FindCRLF(b) + 2, Len(b)) \in Seq(Symbols)
    /\ SubSeq(b, FindCRLF(b) + 2, Len(b)) \o z = x

\* Then readLine() returns the line and leaves what follows it.
LEMMA LineFound ==
    ASSUME NEW b, NEW z, NEW c, NEW t, NEW x, LineThere(b, z, c, t, x), Len(t) + 3 <= Len(b)
    PROVE  Found(b, z, c, t, x)
  <1> USE DEF One, Found
  <1> DEFINE n == Len(t) + 2
             L == <<c>> \o t
  <1>0. b \in Seq(Symbols) /\ z \in Seq(Symbols) /\ x \in Seq(Symbols) /\ Len(b) \in Nat
    BY DEF LineThere
  <1>1. /\ L \in Seq(Symbols) /\ Len(L) = n - 1 /\ n \in Nat /\ n - 1 >= 1 /\ n + 1 <= Len(b)
        /\ (\A i \in 1 .. n - 1 : i <= Len(b) => b[i] \notin {"CR", "LF"})
        /\ b[n] = "CR" /\ b[n + 1] = "LF"
        /\ CRLF \o x \in Seq(Symbols)
    <2>1. Len(t) \in Nat
      BY LineBeginning
    <2>2. (Len(t) + 2) - 1 = Len(t) + 1 /\ (Len(t) + 2) + 1 = Len(t) + 3 /\ Len(t) + 2 <= Len(b)
      BY <1>0, <2>1
    <2> QED
      BY <2>1, <2>2, LineBeginning
  <1>2. b \o z = L \o (CRLF \o x)
    BY DEF LineThere
  <1> HIDE DEF n, L
  <1>3. FindCRLF(b) = n
    <2>1. n \in Marked(b)
      BY <1>0, <1>1 DEF Marked
    <2>2. \A j \in Marked(b) : n <= j
      <3> SUFFICES ASSUME NEW j \in Marked(b), ~ (n <= j) PROVE FALSE
        OBVIOUS
      <3>1. j \in 1 .. n - 1 /\ j <= Len(b) /\ b[j] = "CR"
        BY <1>0, <1>1 DEF Marked
      <3> QED
        BY <1>1, <3>1
    <2> QED
      BY <1>0, <2>1, <2>2, FirstMark
  <1>4. SubSeq(b, 1, n - 1) = L
    <2> DEFINE p == SubSeq(b, 1, n - 1)
               q == SubSeq(b, (n - 1) + 1, Len(b))
    <2>1. p \in Seq(Symbols) /\ q \in Seq(Symbols) /\ Len(p) = n - 1 /\ p \o q = b
      <3>1. n - 1 \in 0 .. Len(b)
        BY <1>0, <1>1
      <3> QED
        BY <1>0, <3>1, CutAt
    <2> HIDE DEF p, q
    <2>2. p \o (q \o z) = L \o (CRLF \o x)
      <3>0. Strings(p, q, z)
        BY <1>0, <2>1 DEF Strings
      <3>1. (p \o q) \o z = p \o (q \o z)
        BY ONLY <3>0, Regroup
      <3> QED
        BY <1>2, <2>1, <3>1
    <2>3. Splits(p, q \o z, L, CRLF \o x)
      <3>1. q \o z \in Seq(Symbols)
        BY <1>0, <2>1
      <3> QED
        BY <1>1, <2>1, <2>2, <3>1 DEF Splits
    <2>4. p = L
      BY <1>1, <2>1, <2>3, SplitAt
    <2> QED
      BY <2>4 DEF p
  <1>5. SubSeq(b, n + 2, Len(b)) \in Seq(Symbols) /\ SubSeq(b, n + 2, Len(b)) \o z = x
    <2> DEFINE p == SubSeq(b, 1, n + 1)
               q == SubSeq(b, (n + 1) + 1, Len(b))
    <2>1. p \in Seq(Symbols) /\ q \in Seq(Symbols) /\ Len(p) = n + 1 /\ p \o q = b
      <3>1. n + 1 \in 0 .. Len(b)
        BY <1>0, <1>1
      <3> QED
        BY <1>0, <3>1, CutAt
    <2>0. q = SubSeq(b, n + 2, Len(b))
      <3>1. (n + 1) + 1 = n + 2
        BY <1>1
      <3> QED
        BY <3>1
    <2> HIDE DEF p, q
    <2> DEFINE M == L \o CRLF
    <2>2. M \in Seq(Symbols) /\ Len(M) = n + 1
      <3>1. L \in Seq(Symbols) /\ Len(L) = n - 1 /\ n \in Nat
        BY <1>1
      <3>2. CRLF \in Seq(Symbols) /\ Len(CRLF) = 2
        BY Marks
      <3>3. Strings(L, CRLF, CRLF)
        BY <3>1, <3>2 DEF Strings
      <3>4. M \in Seq(Symbols) /\ Len(M) = Len(L) + Len(CRLF)
        BY ONLY <3>3, Joined
      <3> HIDE DEF M
      <3> QED
        BY <3>1, <3>2, <3>4
    <2>3. p \o (q \o z) = M \o x
      <3>0. Strings(p, q, z)
        BY <1>0, <2>1 DEF Strings
      <3>1. (p \o q) \o z = p \o (q \o z)
        BY ONLY <3>0, Regroup
      <3>2. (L \o CRLF) \o x = L \o (CRLF \o x)
        <4>1. Strings(L, CRLF, x)
          BY <1>0, <1>1, Marks DEF Strings
        <4> QED
          BY ONLY <4>1, Regroup
      <3> QED
        BY <1>2, <2>1, <3>1, <3>2
    <2> HIDE DEF M
    <2>4. Splits(p, q \o z, M, x)
      <3>1. q \o z \in Seq(Symbols)
        BY <1>0, <2>1
      <3> QED
        BY <1>0, <2>1, <2>2, <2>3, <3>1 DEF Splits
    <2>5. q \o z = x
      BY <2>1, <2>2, <2>4, SplitAt
    <2> QED
      BY <2>0, <2>1, <2>5
  <1>6. n # 0
    BY <1>1
  <1> QED
    BY <1>3, <1>4, <1>5, <1>6 DEF L

\* It is not: what is there is the beginning of the line.
Torn(b, c, t) ==
    /\ FindCRLF(b) = 0
    /\ \E p, e, s : TornText(p, e, s, t) /\ b = One(c) \o (p \o s)

\* Then readLine() finds no CRLF, and what it returns when the stream has ended is a
\* part of the line.
LEMMA LineTorn ==
    ASSUME NEW b, NEW z, NEW c, NEW t, NEW x, LineThere(b, z, c, t, x), ~ (Len(t) + 3 <= Len(b))
    PROVE  Torn(b, c, t)
  <1> USE DEF One, Torn
  <1> DEFINE L == <<c>> \o t
  <1>0. b \in Seq(Symbols) /\ z \in Seq(Symbols) /\ x \in Seq(Symbols) /\ Len(b) \in Nat /\ b # <<>>
    BY DEF LineThere
  <1>1. /\ t \in Seq(Symbols) /\ <<c>> \in Seq(Symbols) /\ Len(<<c>>) = 1
        /\ L \in Seq(Symbols) /\ Len(L) = Len(t) + 1 /\ Len(t) \in Nat
        /\ \A i \in 1 .. Len(t) + 1 : i <= Len(b) => b[i] \notin {"CR", "LF"}
        /\ CRLF \o x \in Seq(Symbols)
    BY LineBeginning
  <1>2. b \o z = L \o (CRLF \o x)
    BY DEF LineThere
  <1> HIDE DEF L
  <1>3. FindCRLF(b) = 0
    <2>1. Marked(b) = {}
      <3> SUFFICES ASSUME NEW i \in Marked(b) PROVE FALSE
        OBVIOUS
      <3>1. i \in 1 .. Len(t) + 1 /\ i <= Len(b) /\ b[i] = "CR"
        BY <1>0, <1>1 DEF Marked
      <3> QED
        BY <1>1, <3>1
    <2> QED
      BY <1>0, <2>1, FirstMark
  <1>4. CASE Len(b) <= Len(L)
    <2> DEFINE e == Past(L, b)
               h == <<Head(b)>>
               p == Tail(b)
    <2>1. e \in Seq(Symbols) /\ L = b \o e
      <3>1. Splits(b, z, L, CRLF \o x)
        BY <1>0, <1>1, <1>2 DEF Splits
      <3> QED
        BY <1>4, <3>1, Overlap
    <2>2. h \in Seq(Symbols) /\ Len(h) = 1 /\ p \in Seq(Symbols) /\ b = h \o p
      <3>1. Head(b) \in Symbols /\ p \in Seq(Symbols)
        BY <1>0
      <3>2. h \in Seq(Symbols) /\ Len(h) = 1
        BY <3>1, Singles
      <3>3. b = <<Head(b)>> \o Tail(b)
        BY <1>0
      <3> QED
        BY <3>1, <3>2, <3>3
    <2> HIDE DEF e, h, p
    <2>3. h \o (p \o e) = <<c>> \o t
      <3>1. (h \o p) \o e = h \o (p \o e)
        BY <2>1, <2>2, Assoc
      <3> QED
        BY <2>1, <2>2, <3>1 DEF L
    <2> DEFINE k == <<c>>
    <2>4. Splits(h, p \o e, k, t)
      <3>1. p \o e \in Seq(Symbols)
        BY <2>1, <2>2
      <3> QED
        BY <1>1, <2>2, <2>3, <3>1 DEF Splits
    <2>5. k \in Seq(Symbols) /\ Len(h) = Len(k)
      BY <1>1, <2>2
    <2>6. h = k /\ p \o e = t
      <3> HIDE DEF k
      <3> QED
        BY <2>4, <2>5, SplitAt
    <2>7. TornText(p, e, <<>>, t)
      BY <2>1, <2>2, <2>6 DEF TornText, Stumps
    <2>8. b = <<c>> \o (p \o <<>>)
      <3>1. p \o <<>> = p
        BY <2>2
      <3> QED
        BY <2>2, <2>6, <3>1
    <2> QED
      BY <1>3, <2>7, <2>8
  <1>5. CASE ~ (Len(b) <= Len(L))
    <2>1. Len(b) = Len(t) + 2
      BY <1>0, <1>1, <1>5
    <2> DEFINE s == <<"CR">>
               u == <<"LF">>
               W == L \o s
    <2>2. s \in Seq(Symbols) /\ Len(s) = 1 /\ u \in Seq(Symbols) /\ CRLF = s \o u
      <3>1. CRLF = <<"CR">> \o <<"LF">>
        BY DEF CRLF
      <3> QED
        BY <3>1, Marks, Singles
    <2> HIDE DEF s, u
    <2>3. W \in Seq(Symbols) /\ Len(W) = Len(t) + 2 /\ u \o x \in Seq(Symbols)
      <3>1. L \in Seq(Symbols) /\ Len(L) = Len(t) + 1 /\ Len(t) \in Nat
        BY <1>1
      <3>2. s \in Seq(Symbols) /\ Len(s) = 1 /\ u \in Seq(Symbols) /\ x \in Seq(Symbols)
        BY <1>0, <2>2
      <3>3. Strings(L, s, s) /\ Strings(u, x, x)
        BY <3>1, <3>2 DEF Strings
      <3>4. W \in Seq(Symbols) /\ Len(W) = Len(L) + Len(s)
        BY ONLY <3>3, Joined
      <3>5. u \o x \in Seq(Symbols)
        BY ONLY <3>3, Joined
      <3> HIDE DEF W
      <3> QED
        BY <3>1, <3>2, <3>4, <3>5
    <2>4. L \o (CRLF \o x) = W \o (u \o x)
      <3>1. (s \o u) \o x = s \o (u \o x)
        <4>1. Strings(s, u, x)
          BY <1>0, <2>2 DEF Strings
        <4> QED
          BY ONLY <4>1, Regroup
      <3>2. (L \o s) \o (u \o x) = L \o (s \o (u \o x))
        <4>1. Strings(L, s, u \o x)
          BY <1>1, <2>2, <2>3 DEF Strings
        <4> QED
          BY ONLY <4>1, Regroup
      <3> QED
        BY <2>2, <3>1, <3>2
    <2> HIDE DEF W
    <2>5. Splits(b, z, W, u \o x)
      BY <1>0, <1>2, <2>3, <2>4 DEF Splits
    <2>6. b = W
      BY <2>1, <2>3, <2>5, SplitAt
    <2>7. b = <<c>> \o (t \o s)
      BY <1>1, <2>2, <2>6, Assoc DEF W, L
    <2>8. TornText(t, <<>>, s, t)
      <3>1. t \o <<>> = t /\ <<>> \in Seq(Symbols)
        BY <1>1
      <3> QED
        BY <1>1, <3>1 DEF TornText, Stumps, s
    <2> QED
      BY <1>3, <2>7, <2>8
  <1> QED
    BY <1>4, <1>5

\* parseInt() reads back what was written.
LEMMA ReadsBack ==
    ASSUME NEW n \in -Safe .. Safe
    PROVE  ParseInt(Decimal(n)) = n
  <1>0. Safe \in Nat /\ <<>> \in Stumps
    BY ReplyAssumption DEF Stumps
  <1>1. ASSUME NEW m \in 0 .. Safe
        PROVE  ParseInt(Numeral[m]) = m /\ ParseInt(<<"-">> \o Numeral[m]) = -m
    <2> DEFINE t == Numeral[m]
    <2>1. t \in Seq(DigitBytes) /\ t # <<>> /\ Number(t) = m
      BY NumeralsReadable DEF Readable
    <2> HIDE DEF t
    <2>2. t \o <<>> = t
      BY <2>1
    <2>3. ParseInt(t \o <<>>) = Number(t) /\ ParseInt(<<"-">> \o (t \o <<>>)) = - Number(t)
      BY <1>0, <2>1, ParseDigits
    <2> QED
      BY <2>1, <2>2, <2>3 DEF t
  <1>2. CASE n < 0
    <2>1. -n \in 0 .. Safe /\ -(-n) = n
      BY <1>0, <1>2
    <2>2. Decimal(n) = <<"-">> \o Numeral[-n]
      BY <1>2 DEF Decimal
    <2>3. ParseInt(<<"-">> \o Numeral[-n]) = -(-n)
      BY <1>1, <2>1
    <2> QED
      BY <2>1, <2>2, <2>3
  <1>3. CASE ~ (n < 0)
    <2>1. n \in 0 .. Safe /\ Decimal(n) = Numeral[n]
      BY <1>0, <1>3 DEF Decimal
    <2> QED
      BY <1>1, <2>1
  <1> QED
    BY <1>2, <1>3

\* A beginning of a sequence of digits.
LEMMA Beginning ==
    ASSUME NEW t \in Seq(DigitBytes), NEW p \in Seq(Symbols), NEW e \in Seq(Symbols), p \o e = t
    PROVE  p \in Seq(DigitBytes) /\ Len(p) \in 0 .. Len(t) /\ p = SubSeq(t, 1, Len(p))
  <1>1. Len(t) = Len(p) + Len(e) /\ Len(p) \in Nat /\ Len(e) \in Nat
    OBVIOUS
  <1>2. \A i \in 1 .. Len(p) : p[i] = t[i]
    OBVIOUS
  <1>3. \A i \in 1 .. Len(p) : p[i] \in DigitBytes
    BY <1>1, <1>2
  <1>4. p \in Seq(DigitBytes)
    BY <1>1, <1>3
  <1> DEFINE q == SubSeq(t, 1, Len(p))
  <1>5. q \in Seq(DigitBytes) /\ Len(q) = Len(p) /\ \A i \in 1 .. Len(p) : q[i] = t[i]
    BY <1>1
  <1> HIDE DEF q
  <1>6. p = q
    BY <1>2, <1>4, <1>5, SeqEqual
  <1> QED
    BY <1>1, <1>4, <1>6 DEF q

\* What parseInt() makes of a part of a size.
LEMMA TornNumber ==
    ASSUME NEW n \in -1 .. Safe, NEW p, NEW e, NEW s, TornText(p, e, s, Decimal(n))
    PROVE  \/ ParseInt(p \o s) = NaN
           \/ n = -1 /\ ParseInt(p \o s) = -1
           \/ n \in Nat /\ ParseInt(p \o s) \in Nat /\ (ParseInt(p \o s) = 0 => n = 0)
  <1>0. Safe \in Nat \ {0}
    BY ReplyAssumption
  <1>1. p \in Seq(Symbols) /\ e \in Seq(Symbols) /\ s \in Stumps /\ p \o e = Decimal(n)
    BY DEF TornText
  <1>2. CASE n < 0
    <2> DEFINE t == Numeral[1]
               m == <<"-">>
    <2>1. n = -1 /\ 1 \in 0 .. Safe
      BY <1>0, <1>2
    <2>2. t \in Seq(DigitBytes) /\ t # <<>> /\ Number(t) = 1
      BY <2>1, NumeralsReadable DEF Readable
    <2>3. Len(t) = 1
      <3>1. Numeral[1] = <<Digits[1 + 1]>>
        <4>1. Numeral[1] = Writes(Numeral, 1)
          BY <2>1, NumeralIs
        <4>2. Writes(Numeral, 1) = <<Digits[1 + 1]>>
          BY DEF Writes
        <4> QED
          BY <4>1, <4>2
      <3> QED
        BY <3>1
    <2>4. Decimal(-1) = m \o t
      BY DEF Decimal
    <2> HIDE DEF t
    <2>5. m \in Seq(Symbols) /\ Len(m) = 1
      BY Marks, Singles
    <2>6. t \in Seq(Symbols)
      BY <2>2, DigitsAre, SeqMonotonic
    <2> HIDE DEF m
    <2>7. CASE p = <<>>
      <3>1. <<>> \in Seq(DigitBytes)
        OBVIOUS
      <3> QED
        BY <1>1, <2>7, <3>1, ParseDigits
    <2>8. CASE p # <<>>
      <3> DEFINE q == Past(p, m)
      <3>1. Splits(m, t, p, e) /\ Len(m) <= Len(p)
        BY <1>1, <2>1, <2>4, <2>5, <2>6, <2>8 DEF Splits
      <3>2. q \in Seq(Symbols) /\ p = m \o q /\ t = q \o e
        BY <3>1, Overlap
      <3> HIDE DEF q
      <3>3. q \in Seq(DigitBytes) /\ Len(q) \in 0 .. 1 /\ q = SubSeq(t, 1, Len(q))
        BY <1>1, <2>2, <2>3, <3>2, Beginning
      <3>4. q = <<>> \/ q = t
        <4>1. t = SubSeq(t, 1, 1)
          BY <2>2, <2>3
        <4> QED
          BY <3>3, <4>1
      <3>5. p \o s = m \o (q \o s)
        <4>1. Strings(m, q, s)
          BY <2>5, <3>2, <1>1, Marks, Singles DEF Strings, Stumps
        <4> QED
          BY ONLY <3>2, <4>1, Regroup
      <3>6. ParseInt(m \o (q \o s)) = IF q = <<>> THEN NaN ELSE - Number(q)
        BY <1>1, <3>3, ParseDigits DEF m
      <3>7. q # <<>> => - Number(q) = -1
        BY <2>2, <3>4
      <3> QED
        BY <2>1, <3>5, <3>6, <3>7
    <2> QED
      BY <2>7, <2>8
  <1>3. CASE ~ (n < 0)
    <2> DEFINE t == Numeral[n]
    <2>1. n \in 0 .. Safe /\ n \in Nat /\ Decimal(n) = t
      BY <1>0, <1>3 DEF Decimal
    <2>2. t \in Seq(DigitBytes) /\ \A k \in 1 .. Len(t) : Number(SubSeq(t, 1, k)) = 0 => n = 0
      BY <2>1, NumeralsReadable DEF Readable
    <2> HIDE DEF t
    <2>3. p \in Seq(DigitBytes) /\ Len(p) \in 0 .. Len(t) /\ p = SubSeq(t, 1, Len(p))
      BY <1>1, <2>1, <2>2, Beginning
    <2>4. ParseInt(p \o s) = IF p = <<>> THEN NaN ELSE Number(p)
      BY <1>1, <2>3, ParseDigits
    <2>5. Number(p) \in Nat
      BY <2>3, NumberIs
    <2>6. p # <<>> => (Number(p) = 0 => n = 0)
      <3>1. p # <<>> => Len(p) \in 1 .. Len(t)
        BY <2>3
      <3> QED
        BY <2>2, <2>3, <3>1
    <2> QED
      BY <2>1, <2>4, <2>5, <2>6
  <1> QED
    BY <1>2, <1>3

-----------------------------------------------------------------------------
(* The reply that is being decoded: the arrays around it, each with what    *)
(* follows it on the wire.                                                  *)

Frames == [node : Replies, left : Seq(Symbols)]
Entries(V) == [want : Nat, got : Seq(V)]
Root(s) == [node |-> s.reply, left |-> s.after]
Elem(f, g) == [node |-> f.node.body[g + 1], left |-> After(f.node)[g + 1] \o f.left]

IsSent(s) ==
    /\ s.reply \in Replies /\ s.after \in Seq(Symbols)
    /\ s.length \in 0 .. Len(Encode[s.reply] \o s.after)

\* What the server sends that never arrives.
CutOff(s) == SubSeq(Encode[s.reply] \o s.after, s.length + 1, Len(Encode[s.reply] \o s.after))

\* An array of which the first elements are decoded.
Parent(f, s) ==
    /\ f \in Frames /\ f.node.is = "*"
    /\ Inside[f.node] \subseteq Inside[s.reply] /\ Len(f.left) >= Len(s.after)
Exact(f, a) ==
    /\ a.want = Len(f.node.body) /\ Len(a.got) <= a.want
    /\ \A i \in 1 .. Len(a.got) : a.got[i] = ValueOf[f.node.body[i]]
Within(f, a) == Exact(f, a) /\ Len(a.got) < a.want

\* The arrays around an array are exact and wait for it.
Linked(fr, st, s) ==
    /\ \A k \in 1 .. Len(st) : Parent(fr[k], s)
    /\ st # <<>> => fr[1] = Root(s)
    /\ \A k \in 1 .. Len(st) - 1 : Within(fr[k], st[k]) /\ fr[k + 1] = Elem(fr[k], Len(st[k].got))
Reading(fr, st, s) == Linked(fr, st, s) /\ (st # <<>> => Within(fr[Len(st)], st[Len(st)]))

\* The element it is at, what is left of the stream there.
NowAt(fr, st, s) == IF st = <<>> THEN Root(s) ELSE Elem(fr[Len(st)], Len(st[Len(st)].got))
Todo(fr, st, s) ==
    IF st = <<>> THEN Encode[s.reply] \o s.after
    ELSE After(fr[Len(st)].node)[Len(st[Len(st)].got)] \o fr[Len(st)].left

\* The stream ends inside the line a reply ends with.
Excused(f, s) == Len(CutOff(s)) - Len(f.left) < LastLine[f.node]

\* An element of an array, and the bytes from it on.
LEMMA ElemIs ==
    ASSUME NEW f \in Frames, f.node.is = "*", NEW g \in Nat, g < Len(f.node.body)
    PROVE  /\ Elem(f, g) \in Frames
           /\ Len(Elem(f, g).left) >= Len(f.left)
           /\ {Elem(f, g).node} \cup Inside[Elem(f, g).node] \subseteq Inside[f.node]
           /\ After(f.node)[g] \o f.left = Encode[Elem(f, g).node] \o Elem(f, g).left
  <1> DEFINE r == f.node
             x == f.left
             e == r.body[g + 1]
             y == After(r)[g + 1]
  <1>1. r \in Replies /\ x \in Seq(Symbols) /\ r.is = "*"
    BY DEF Frames
  <1>2. r.body \in Seq(Replies) /\ Len(r.body) \in Nat
    BY <1>1, ReplyKinds
  <1>3. g \in 0 .. Len(r.body) - 1 /\ g + 1 \in 0 .. Len(r.body) /\ g + 1 \in DOMAIN r.body
    BY <1>2
  <1>4. e \in Replies /\ y \in Seq(Symbols) /\ After(r)[g] = Encode[e] \o y
    BY <1>1, <1>3, AfterIs
  <1>5. Inside[r] = UNION {{r.body[i]} \cup Inside[r.body[i]] : i \in DOMAIN r.body}
    <2>1. Inside[r] = InsideFrom(Inside, r)
      BY <1>1, RepliesAre
    <2> QED
      BY <1>1, <2>1 DEF InsideFrom
  <1>6. {e} \cup Inside[e] \subseteq Inside[r]
    BY <1>3, <1>5
  <1>7. Elem(f, g) = [node |-> e, left |-> y \o x]
    BY DEF Elem
  <1> HIDE DEF r, x, e, y
  <1> DEFINE w == Encode[e]
  <1>8. Strings(w, y, x)
    BY <1>1, <1>4, EncodeType DEF Strings
  <1> HIDE DEF w
  <1>9. Strings(y, x, x)
    BY <1>8 DEF Strings
  <1>10. y \o x \in Seq(Symbols) /\ Len(y \o x) >= Len(x)
    BY <1>9, Joined
  <1>11. (w \o y) \o x = w \o (y \o x)
    BY ONLY <1>8, Regroup
  <1>12. Elem(f, g) \in Frames
    BY <1>4, <1>7, <1>10 DEF Frames
  <1>13. After(f.node)[g] \o f.left = Encode[Elem(f, g).node] \o Elem(f, g).left
    <2>1. After(r)[g] = w \o y
      BY <1>4 DEF w
    <2>2. Encode[Elem(f, g).node] = w /\ Elem(f, g).left = y \o x
      BY <1>7 DEF w
    <2> QED
      BY ONLY <1>11, <2>1, <2>2 DEF r, x
  <1> QED
    BY <1>6, <1>7, <1>10, <1>12, <1>13 DEF r, x

\* The reply that was sent, and the length of what never arrives.
LEMMA RootIs ==
    ASSUME NEW s, IsSent(s)
    PROVE  /\ Root(s) \in Frames /\ Root(s).node = s.reply /\ Root(s).left = s.after
           /\ Len(s.after) \in Nat
           /\ Encode[s.reply] \o s.after \in Seq(Symbols)
           /\ Len(Encode[s.reply] \o s.after) = Len(Encode[s.reply]) + Len(s.after)
           /\ CutOff(s) \in Seq(Symbols)
           /\ Len(CutOff(s)) = Len(Encode[s.reply]) + Len(s.after) - s.length
           /\ Len(Encode[s.reply]) \in Nat /\ s.length \in Nat
  <1> DEFINE e == Encode[s.reply]
             a == s.after
             w == e \o a
  <1>1. s.reply \in Replies /\ a \in Seq(Symbols) /\ s.length \in 0 .. Len(w)
    BY DEF IsSent
  <1>2. Root(s) \in Frames /\ Root(s).node = s.reply /\ Root(s).left = a
    BY <1>1 DEF Root, Frames
  <1>3. e \in Seq(Symbols)
    BY <1>1, EncodeType
  <1> HIDE DEF e, a
  <1>4. Strings(e, a, a)
    BY <1>1, <1>3 DEF Strings
  <1>5. w \in Seq(Symbols) /\ Len(w) = Len(e) + Len(a) /\ Len(e) \in Nat /\ Len(a) \in Nat
    BY <1>4, Joined
  <1> HIDE DEF w
  <1>6. SubSeq(w, s.length + 1, Len(w)) \in Seq(Symbols)
        /\ Len(SubSeq(w, s.length + 1, Len(w))) = Len(w) - s.length
    BY <1>1, <1>5, CutAt
  <1>7. CutOff(s) = SubSeq(w, s.length + 1, Len(w))
    BY DEF CutOff, w, e, a
  <1>8. Len(w) - s.length = Len(e) + Len(a) - s.length /\ s.length \in Nat
    BY <1>1, <1>5
  <1> QED
    BY <1>2, <1>5, <1>6, <1>7, <1>8 DEF w, e, a

\* The reply it is at, and the bytes of it.
LEMMA NowIs ==
    ASSUME NEW fr, NEW V, NEW st \in Seq(Entries(V)), NEW s, IsSent(s), Reading(fr, st, s)
    PROVE  LET now == NowAt(fr, st, s) IN
           /\ now \in Frames /\ Len(now.left) >= Len(s.after)
           /\ Inside[now.node] \subseteq Inside[s.reply]
           /\ st # <<>> => now.node \in Inside[s.reply]
           /\ Todo(fr, st, s) = Encode[now.node] \o now.left
  <1> DEFINE now == NowAt(fr, st, s)
  <1>1. CASE st = <<>>
    <2>1. now = Root(s)
      BY <1>1 DEF NowAt
    <2>2. Len(s.after) >= Len(s.after)
      BY RootIs
    <2> QED
      BY <1>1, <2>1, <2>2, RootIs DEF Todo
  <1>2. CASE st # <<>>
    <2> DEFINE n == Len(st)
               f == fr[n]
               g == Len(st[n].got)
    <2>1. n \in 1 .. Len(st) /\ st[n] \in Entries(V)
      BY <1>2
    <2>2. g \in Nat /\ st[n].want \in Nat
      BY <2>1 DEF Entries
    <2>3. Parent(f, s) /\ Within(f, st[n])
      BY <1>2, <2>1 DEF Reading, Linked
    <2>4. now = Elem(f, g) /\ Todo(fr, st, s) = After(f.node)[g] \o f.left
      BY <1>2 DEF NowAt, Todo
    <2> HIDE DEF n, f, g
    <2>5. f \in Frames /\ f.node.is = "*" /\ g < Len(f.node.body)
          /\ Inside[f.node] \subseteq Inside[s.reply] /\ Len(f.left) >= Len(s.after)
      BY <2>3 DEF Parent, Within, Exact, g
    <2>6. /\ Elem(f, g) \in Frames
          /\ Len(Elem(f, g).left) >= Len(f.left)
          /\ {Elem(f, g).node} \cup Inside[Elem(f, g).node] \subseteq Inside[f.node]
          /\ After(f.node)[g] \o f.left = Encode[Elem(f, g).node] \o Elem(f, g).left
      BY <2>2, <2>5, ElemIs
    <2>7. Len(now.left) >= Len(s.after)
      <3>1. now.left \in Seq(Symbols) /\ f.left \in Seq(Symbols) /\ s.after \in Seq(Symbols)
        BY <2>4, <2>5, <2>6 DEF Frames, IsSent
      <3> QED
        BY <2>4, <2>5, <2>6, <3>1
    <2> HIDE DEF now
    <2> QED
      BY <2>4, <2>5, <2>6, <2>7 DEF now
  <1> QED
    BY <1>1, <1>2

\* The value of a reply, type by type.
LEMMA ValueIs ==
    ASSUME NEW r \in Replies
    PROVE  /\ r.is = "*" => ValueOf[r] = Array([i \in DOMAIN r.body |-> ValueOf[r.body[i]]])
           /\ r.is = "nilArray" => ValueOf[r] = Nil
           /\ r.is \notin {"*", "nilArray"} => ValueOf[r] = r
           /\ ValueOf[r].is # "pending"
  <1>1. ValueOf[r] = ValueFrom(ValueOf, r)
    BY RepliesAre
  <1>2. r.is = "*" => ValueOf[r] = Array([i \in DOMAIN r.body |-> ValueOf[r.body[i]]])
    BY <1>1 DEF ValueFrom
  <1>3. r.is = "nilArray" => ValueOf[r] = Nil
    BY <1>1 DEF ValueFrom
  <1>4. r.is \notin {"*", "nilArray"} => ValueOf[r] = r
    BY <1>1 DEF ValueFrom
  <1>5. \A b : Array(b).is = "*"
    BY DEF Array
  <1>6. r.is # "pending"
    BY ReplyKinds
  <1> QED
    BY <1>2, <1>3, <1>4, <1>5, <1>6 DEF Nil

\* The line an array ends with is the one its last element ends with.
LEMMA LastLineIs ==
    ASSUME NEW r \in Replies
    PROVE  /\ r.is = "*" /\ Len(r.body) > 0 => LastLine[r] = LastLine[r.body[Len(r.body)]]
           /\ r.is \in {"+", ":", "-"} => LastLine[r] = Len(FirstLine(r)) + 2
  <1>1. LastLine[r] = LastFrom(LastLine, r)
    BY RepliesAre
  <1>2. CASE r.is = "*" /\ Len(r.body) > 0
    <2>1. r.body \in Seq(Replies)
      BY <1>2, ReplyKinds
    <2>2. r.body # <<>> /\ Last(r.body) = r.body[Len(r.body)]
      BY <1>2, <2>1 DEF Last
    <2> QED
      BY <1>1, <1>2, <2>2 DEF LastFrom
  <1>3. CASE r.is \in {"+", ":", "-"}
    BY <1>1, <1>3, Marks DEF LastFrom
  <1> QED
    BY <1>2, <1>3

\* An element is put into the innermost array.
Put(st, v) == [st EXCEPT ![Len(st)].got = Append(@, v)]

PutGives(V, st, v) ==
    /\ Put(st, v) \in Seq(Entries(V \cup {v})) /\ Len(Put(st, v)) = Len(st)
    /\ \A k \in 1 .. Len(st) - 1 : Put(st, v)[k] = st[k]
    /\ Put(st, v)[Len(st)].want = st[Len(st)].want
    /\ Put(st, v)[Len(st)].got = Append(st[Len(st)].got, v)

\* The stack after it.
LEMMA PutType ==
    ASSUME NEW V, NEW st \in Seq(Entries(V)), st # <<>>, NEW v
    PROVE  PutGives(V, st, v)
  <1> DEFINE n == Len(st)
             a == st[n]
             b == [want |-> a.want, got |-> Append(a.got, v)]
             W == V \cup {v}
  <1>1. n \in 1 .. Len(st) /\ a \in Entries(V)
    OBVIOUS
  <1>2. a.want \in Nat /\ a.got \in Seq(V)
    BY <1>1 DEF Entries
  <1>3. a.got \in Seq(W)
    BY <1>2, SeqMonotonic
  <1>4. Append(a.got, v) \in Seq(W)
    BY <1>3
  <1>5. b.want = a.want /\ b.got = Append(a.got, v) /\ b \in Entries(W)
    BY <1>2, <1>4 DEF Entries
  <1>6. Entries(V) \subseteq Entries(W)
    <2>1. Seq(V) \subseteq Seq(W)
      BY SeqMonotonic
    <2> QED
      BY <2>1 DEF Entries
  <1>7. st \in Seq(Entries(W))
    BY <1>6, SeqMonotonic
  <1>8. Put(st, v) = [st EXCEPT ![n] = b]
    <2>1. a = [want |-> a.want, got |-> a.got]
      BY <1>1 DEF Entries
    <2>2. [a EXCEPT !.got = Append(@, v)] = b
      <3>1. ASSUME NEW w, NEW q, NEW x
            PROVE  [[want |-> w, got |-> q] EXCEPT !.got = x] = [want |-> w, got |-> x]
        OBVIOUS
      <3> DEFINE x == Append(a.got, v)
      <3>2. [a EXCEPT !.got = x] = [want |-> a.want, got |-> x]
        <4> HIDE DEF x, a
        <4> QED
          BY <2>1, <3>1 DEF a
      <3> QED
        BY <3>2
    <2>3. Put(st, v) = [st EXCEPT ![n] = [a EXCEPT !.got = Append(@, v)]]
      BY DEF Put
    <2> QED
      BY <2>2, <2>3
  <1> HIDE DEF n, a, b, W
  <1>9. /\ Put(st, v) \in Seq(Entries(W)) /\ Len(Put(st, v)) = Len(st)
        /\ \A j \in 1 .. Len(st) : Put(st, v)[j] = IF j = n THEN b ELSE st[j]
    BY <1>1, <1>5, <1>7, <1>8, ExceptSeq
  <1>10. \A k \in 1 .. n - 1 : k \in 1 .. Len(st) /\ k # n
    BY <1>1
  <1>11. Put(st, v)[n] = b
    BY <1>1, <1>9
  <1>12. /\ Put(st, v)[n].want = a.want /\ Put(st, v)[n].got = Append(a.got, v)
    BY <1>5, <1>11
  <1> QED
    BY ONLY <1>9, <1>10, <1>12 DEF n, a, W, PutGives

\* The arrays around it are as before; the innermost is exact if the element is what
\* was sent, and when it is complete it ends with the line of that element.
LEMMA PutIn ==
    ASSUME NEW fr, NEW V, NEW st \in Seq(Entries(V)), NEW s, IsSent(s), Reading(fr, st, s),
           st # <<>>, NEW v
    PROVE  LET n == Len(st)
               f == fr[n]
               a == Put(st, v)[n]
               now == NowAt(fr, st, s)
           IN  /\ Linked(fr, Put(st, v), s)
               /\ a.want = Len(f.node.body) /\ Len(a.got) <= a.want
               /\ v = ValueOf[now.node] => Exact(f, a)
               /\ Len(a.got) = a.want =>
                      LastLine[f.node] = LastLine[now.node] /\ f.left = now.left
  <1> DEFINE n == Len(st)
             f == fr[n]
             old == st[n]
             g == Len(old.got)
             st2 == Put(st, v)
             a == st2[n]
             now == NowAt(fr, st, s)
  <1>1. n \in 1 .. Len(st) /\ n \in Nat /\ old \in Entries(V) /\ n - 1 < n
    OBVIOUS
  <1>2. /\ Len(st2) = n /\ \A k \in 1 .. n - 1 : st2[k] = st[k]
        /\ a.want = old.want /\ a.got = Append(old.got, v)
    <2>1. PutGives(V, st, v)
      BY PutType
    <2> QED
      BY ONLY <2>1 DEF PutGives
  <1>3. old.got \in Seq(V) /\ old.want \in Nat /\ g \in Nat
    BY <1>1 DEF Entries
  <1>4. Parent(f, s) /\ Within(f, old)
    BY <1>1 DEF Reading, Linked
  <1>5. now = Elem(f, g)
    BY DEF NowAt
  <1>6. Linked(fr, st2, s)
    <2>1. Linked(fr, st, s)
      BY DEF Reading
    <2>2. \A k \in 1 .. n - 1 : st2[k] = st[k]
      BY <1>2
    <2>3. st2 # <<>>
      BY <1>1, <1>2
    <2> HIDE DEF st2
    <2> QED
      BY <1>2, <2>1, <2>2, <2>3 DEF Linked
  <1> HIDE DEF n, f, old, st2, a, now
  <1>7. f \in Frames /\ f.node.is = "*" /\ old.want = Len(f.node.body) /\ g < old.want
        /\ \A i \in 1 .. g : old.got[i] = ValueOf[f.node.body[i]]
    BY <1>4 DEF Parent, Within, Exact
  <1>8. f.node \in Replies /\ f.left \in Seq(Symbols)
    BY <1>7 DEF Frames
  <1>9. /\ Len(a.got) = g + 1
        /\ \A i \in 1 .. g : a.got[i] = old.got[i]
        /\ a.got[g + 1] = v
    BY <1>2, <1>3
  <1> HIDE DEF g
  <1>10. now.node = f.node.body[g + 1] /\ now.left = After(f.node)[g + 1] \o f.left
    BY <1>5 DEF Elem
  <1>11. ASSUME v = ValueOf[now.node] PROVE Exact(f, a)
    <2>1. a.want = Len(f.node.body) /\ Len(a.got) <= a.want
      BY <1>2, <1>3, <1>7, <1>9
    <2>2. \A i \in 1 .. g + 1 : i \in 1 .. g \/ i = g + 1
      BY <1>3
    <2>3. \A i \in 1 .. Len(a.got) : a.got[i] = ValueOf[f.node.body[i]]
      BY <1>7, <1>9, <1>10, <1>11, <2>2
    <2> QED
      BY <2>1, <2>3 DEF Exact
  <1>13. ASSUME Len(a.got) = a.want
         PROVE  LastLine[f.node] = LastLine[now.node] /\ f.left = now.left
    <2>1. g + 1 = Len(f.node.body) /\ Len(f.node.body) > 0
      BY <1>2, <1>3, <1>7, <1>9, <1>13
    <2>2. LastLine[f.node] = LastLine[f.node.body[Len(f.node.body)]]
      BY <1>7, <1>8, <2>1, LastLineIs
    <2>3. After(f.node)[Len(f.node.body)] = <<>>
      BY <1>7, <1>8, AfterIs
    <2>4. <<>> \o f.left = f.left
      BY <1>8
    <2> QED
      BY <1>10, <2>1, <2>2, <2>3, <2>4
  <1>14. a.want = Len(f.node.body) /\ Len(a.got) <= a.want
    BY <1>2, <1>3, <1>7, <1>9
  <1> QED
    BY <1>6, <1>11, <1>13, <1>14 DEF n, f, st2, a, now

\* What is left of the stream is what follows the element.
LEMMA PutTodo ==
    ASSUME NEW fr, NEW V, NEW st \in Seq(Entries(V)), NEW s, st # <<>>, NEW v
    PROVE  Todo(fr, Put(st, v), s) = NowAt(fr, st, s).left
  <1> DEFINE n == Len(st)
             f == fr[n]
             a == Put(st, v)[n]
             g == Len(st[n].got)
             now == NowAt(fr, st, s)
  <1>0. n \in 1 .. n /\ st[n] \in Entries(V)
    OBVIOUS
  <1>1. PutGives(V, st, v)
    BY PutType
  <1>2. Len(Put(st, v)) = n /\ Put(st, v) # <<>>
    <2>1. Put(st, v) \in Seq(Entries(V \cup {v})) /\ Len(Put(st, v)) = n
      BY ONLY <1>1 DEF PutGives
    <2> QED
      BY <1>0, <2>1
  <1>3. st[n] \in Entries(V) /\ a.got = Append(st[n].got, v)
    BY ONLY <1>0, <1>1 DEF PutGives
  <1>4. Len(a.got) = g + 1
    BY <1>3 DEF Entries
  <1>5. Todo(fr, Put(st, v), s) = After(f.node)[Len(a.got)] \o f.left
    BY <1>2 DEF Todo
  <1>6. now = Elem(f, g)
    BY DEF NowAt
  <1> HIDE DEF n, f, a, g, now
  <1>7. now.left = After(f.node)[g + 1] \o f.left
    BY <1>6 DEF Elem
  <1> QED
    BY <1>4, <1>5, <1>7 DEF now

\* All of it for an element as it was sent.
LEMMA PutExact ==
    ASSUME NEW fr, NEW V, NEW st \in Seq(Entries(V)), NEW s, IsSent(s), Reading(fr, st, s),
           st # <<>>, NEW v, v = ValueOf[NowAt(fr, st, s).node]
    PROVE  /\ Linked(fr, Put(st, v), s)
           /\ Exact(fr[Len(st)], Put(st, v)[Len(st)])
           /\ Todo(fr, Put(st, v), s) = NowAt(fr, st, s).left
  <1>1. Linked(fr, Put(st, v), s)
    BY PutIn
  <1>2. Exact(fr[Len(st)], Put(st, v)[Len(st)])
    BY PutIn
  <1>3. Todo(fr, Put(st, v), s) = NowAt(fr, st, s).left
    BY PutTodo
  <1> QED
    BY <1>1, <1>2, <1>3

\* An array begins.
PushedFrames(fr, st, s) ==
    [k \in 1 .. Len(st) + 1 |-> IF k = Len(st) + 1 THEN NowAt(fr, st, s) ELSE fr[k]]

Pushed(V, st, s, w, now, st2, fr2) ==
    /\ st2 \in Seq(Entries(V)) /\ Len(st2) = Len(st) + 1
    /\ st2[Len(st) + 1] = [want |-> w, got |-> <<>>]
    /\ Linked(fr2, st2, s) /\ fr2[Len(st) + 1] = now
    /\ w = Len(now.node.body) => Exact(now, st2[Len(st) + 1])
    /\ Todo(fr2, st2, s) = After(now.node)[0] \o now.left

\* It is linked to the arrays around it, and its first element comes next.
LEMMA PushOn ==
    ASSUME NEW fr, NEW V, NEW st \in Seq(Entries(V)), NEW s, IsSent(s), Reading(fr, st, s),
           NowAt(fr, st, s).node.is = "*", NEW w \in Nat
    PROVE  Pushed(V, st, s, w, NowAt(fr, st, s), Append(st, [want |-> w, got |-> <<>>]),
                  PushedFrames(fr, st, s))
  <1> DEFINE n == Len(st)
             new == [want |-> w, got |-> <<>>]
             st2 == Append(st, new)
             fr2 == PushedFrames(fr, st, s)
             now == NowAt(fr, st, s)
  <1>1. n \in Nat
    OBVIOUS
  <1>2. new \in Entries(V) /\ new.want = w /\ new.got = <<>>
    BY DEF Entries
  <1> HIDE DEF new
  <1>3. /\ st2 \in Seq(Entries(V)) /\ Len(st2) = n + 1 /\ st2[n + 1] = new
        /\ \A k \in 1 .. n : st2[k] = st[k]
    BY <1>2
  <1>4. fr2[n + 1] = now /\ \A k \in 1 .. n : fr2[k] = fr[k]
    <2>1. n + 1 \in 1 .. n + 1 /\ \A k \in 1 .. n : k \in 1 .. n + 1 /\ k # n + 1
      BY <1>1
    <2> QED
      BY <2>1 DEF PushedFrames
  <1>5. st = <<>> => n = 0 /\ now = Root(s)
    BY DEF NowAt
  <1>6. st # <<>> => n \in 1 .. n /\ 1 \in 1 .. n /\ now = Elem(fr[n], Len(st[n].got))
    BY <1>1 DEF NowAt
  <1> HIDE DEF n, st2, fr2, now
  <1>7. Parent(now, s)
    <2>1. now \in Frames /\ Len(now.left) >= Len(s.after) /\ Inside[now.node] \subseteq Inside[s.reply]
      BY NowIs DEF now
    <2>2. now.node.is = "*"
      BY DEF now
    <2> QED
      BY <2>1, <2>2 DEF Parent
  <1>8. Linked(fr, st, s) /\ (st # <<>> => Within(fr[n], st[n]))
    BY DEF Reading, n
  <1>9. Linked(fr2, st2, s)
    <2>1. \A k \in 1 .. n + 1 : k \in 1 .. n \/ k = n + 1
      BY <1>1
    <2>2. \A k \in 1 .. n + 1 : Parent(fr2[k], s)
      BY <1>4, <1>7, <1>8, <2>1 DEF Linked, n
    <2>3. fr2[1] = Root(s)
      <3>1. st = <<>> => fr2[1] = now
        BY <1>4, <1>5
      <3>2. st # <<>> => fr2[1] = fr[1] /\ fr[1] = Root(s)
        BY <1>4, <1>6, <1>8 DEF Linked
      <3> QED
        BY <1>5, <3>1, <3>2
    <2>4. ASSUME NEW k \in 1 .. n
          PROVE  Within(fr2[k], st2[k]) /\ fr2[k + 1] = Elem(fr2[k], Len(st2[k].got))
      <3>1. fr2[k] = fr[k] /\ st2[k] = st[k]
        BY <1>3, <1>4
      <3>2. CASE k = n
        <4>1. st # <<>>
          BY <1>5, <3>2
        <4> QED
          BY <1>4, <1>6, <1>8, <3>1, <3>2, <4>1
      <3>3. CASE k # n
        <4>1. k \in 1 .. n - 1 /\ k + 1 \in 1 .. n
          BY <1>1, <3>3
        <4>2. Within(fr[k], st[k]) /\ fr[k + 1] = Elem(fr[k], Len(st[k].got))
          BY <1>8, <4>1 DEF Linked, n
        <4> QED
          BY <1>4, <3>1, <4>1, <4>2
      <3> QED
        BY <3>2, <3>3
    <2>5. Len(st2) - 1 = n
      BY <1>1, <1>3
    <2> QED
      BY <1>3, <2>2, <2>3, <2>4, <2>5 DEF Linked
  <1>10. ASSUME w = Len(now.node.body) PROVE Exact(now, new)
    BY <1>2, <1>10 DEF Exact
  <1>11. Todo(fr2, st2, s) = After(now.node)[0] \o now.left
    <2>1. st2 # <<>> /\ Len(st2[Len(st2)].got) = 0
      BY <1>1, <1>2, <1>3
    <2> QED
      BY <1>3, <1>4, <2>1 DEF Todo
  <1>12. Pushed(V, st, s, w, now, st2, fr2)
    BY <1>3, <1>4, <1>9, <1>10, <1>11 DEF Pushed, n, new
  <1> QED
    BY <1>12 DEF st2, fr2, now, new

\* An array ends.
LEMMA PopOff ==
    ASSUME NEW fr, NEW V, NEW st \in Seq(Entries(V)), NEW s, Linked(fr, st, s), st # <<>>
    PROVE  /\ Front(st) \in Seq(Entries(V)) /\ Reading(fr, Front(st), s)
           /\ NowAt(fr, Front(st), s) = fr[Len(st)]
           /\ Last(st) = st[Len(st)] /\ st[Len(st)] \in Entries(V)
  <1> DEFINE n == Len(st)
             st0 == Front(st)
  <1>1. n \in 1 .. n /\ n \in Nat /\ 1 \in 1 .. n /\ st[n] \in Entries(V) /\ Last(st) = st[n]
    BY DEF Last
  <1>2. st0 \in Seq(Entries(V)) /\ Len(st0) = n - 1 /\ \A k \in 1 .. n - 1 : st0[k] = st[k]
    <2>1. st0 = SubSeq(st, 1, n - 1)
      BY DEF Front
    <2>2. \A i \in 1 .. n - 1 : st[i] \in Entries(V)
      BY <1>1
    <2>3. (n - 1) - 1 + 1 = n - 1 /\ \A i \in 1 .. n - 1 : 1 + i - 1 = i
      BY <1>1
    <2> HIDE DEF n, st0
    <2> QED
      BY <1>1, <2>1, <2>2, <2>3, SubSeqProperties
  <1>3. st0 = <<>> <=> n = 1
    BY <1>1, <1>2
  <1> HIDE DEF n, st0
  <1>4. (\A k \in 1 .. n : Parent(fr[k], s)) /\ fr[1] = Root(s)
        /\ \A k \in 1 .. n - 1 : Within(fr[k], st[k]) /\ fr[k + 1] = Elem(fr[k], Len(st[k].got))
    BY DEF Linked, n
  <1>5. Linked(fr, st0, s)
    <2>1. \A k \in 1 .. n - 1 : k \in 1 .. n
      BY <1>1
    <2>2. \A k \in 1 .. Len(st0) - 1 : k \in 1 .. n - 1
      BY <1>1, <1>2
    <2> QED
      BY <1>2, <1>4, <2>1, <2>2 DEF Linked
  <1>6. CASE n = 1
    <2>1. Reading(fr, st0, s)
      BY <1>3, <1>5, <1>6 DEF Reading
    <2>2. NowAt(fr, st0, s) = fr[n]
      BY <1>3, <1>4, <1>6 DEF NowAt
    <2> QED
      BY <1>1, <1>2, <2>1, <2>2 DEF n, st0
  <1>7. CASE n # 1
    <2>1. n - 1 \in 1 .. n - 1 /\ (n - 1) + 1 = n
      BY <1>1, <1>7
    <2>2. Within(fr[n - 1], st0[n - 1]) /\ fr[n] = Elem(fr[n - 1], Len(st0[n - 1].got))
      BY <1>2, <1>4, <2>1
    <2>3. Reading(fr, st0, s)
      BY <1>2, <1>5, <2>2 DEF Reading
    <2>4. NowAt(fr, st0, s) = fr[n]
      BY <1>2, <1>3, <1>7, <2>2 DEF NowAt
    <2> QED
      BY <1>1, <1>2, <2>3, <2>4 DEF n, st0
  <1> QED
    BY <1>6, <1>7

-----------------------------------------------------------------------------
(* The invariant.                                                           *)

TypeOK(V) ==
    /\ IsSent(sent) /\ buf \in Seq(Symbols) /\ rest \in Seq(Symbols)
    /\ eof => rest = <<>>
    /\ stack \in Seq(Entries(V))

\* What is not decoded yet, the bytes that never arrive included.
Stream == buf \o (rest \o CutOff(sent))

Innermost == stack[Len(stack)]
Now(fr) == NowAt(fr, stack, sent)

\* Everything decoded so far is what was sent.
AtPeek(fr) ==
    /\ pc = "peek" /\ Stream = Todo(fr, stack, sent)
    /\ stack # <<>> => Exact(fr[Len(stack)], Innermost)
AtLine(fr) ==
    /\ pc = "line" /\ Reading(fr, stack, sent) /\ buf # <<>>
    /\ code = Code(Now(fr).node) /\ (code = "-" => stack = <<>>)
    /\ Stream = Encode[Now(fr).node] \o Now(fr).left
AtBody(fr) ==
    /\ pc = "body" /\ Reading(fr, stack, sent) /\ Now(fr).node.is = "$"
    /\ size = Len(Now(fr).node.body) /\ Stream = Now(fr).node.body \o (CRLF \o Now(fr).left)
AtCRLF(fr) ==
    /\ pc = "crlf" /\ Reading(fr, stack, sent) /\ Now(fr).node.is = "$"
    /\ data = Now(fr).node.body /\ Stream = CRLF \o Now(fr).left
Live(fr) == Linked(fr, stack, sent) /\ (AtPeek(fr) \/ AtLine(fr) \/ AtBody(fr) \/ AtCRLF(fr))

\* A line was taken as it was when the stream ended: there is nothing left to read.
Drained(fr) ==
    /\ Linked(fr, stack, sent) /\ eof /\ buf = <<>> /\ ~ Whole
    /\ \/ /\ pc = "peek"
          /\ ArrayIsComplete => /\ Innermost.want = Len(fr[Len(stack)].node.body)
                                /\ \/ Exact(fr[Len(stack)], Innermost)
                                   \/ Excused(fr[Len(stack)], sent)
       \/ pc = "body" /\ size \in Nat
       \/ pc = "crlf"

Final ==
    \/ result = ValueOf[sent.reply] /\ Stream = sent.after
    \/ ~ Whole /\ (IsValue(result) => result = ValueOf[sent.reply] \/ Excused(Root(sent), sent))
    \/ HoldsError(sent.reply) /\ ~ IsValue(result)

IInv ==
    /\ \E V : TypeOK(V)
    /\ result = Pending => \E fr : Live(fr) \/ Drained(fr)
    /\ result # Pending => Final

-----------------------------------------------------------------------------

\* Of the same bytes split at two places, what is left after the shorter part is longer.
LEMMA TakenLess ==
    ASSUME NEW b, NEW c, NEW x, NEW y, Splits(b, c, x, y), Len(b) < Len(x)
    PROVE  Len(c) > Len(y) /\ Len(b) + Len(c) = Len(x) + Len(y)
           /\ Len(b) \in Nat /\ Len(c) \in Nat /\ Len(x) \in Nat /\ Len(y) \in Nat
  <1>1. Strings(b, c, c) /\ Strings(x, y, y) /\ b \o c = x \o y
    BY DEF Splits, Strings
  <1>2. Len(b \o c) = Len(b) + Len(c) /\ Len(b) \in Nat /\ Len(c) \in Nat
    BY <1>1, Joined
  <1>3. Len(x \o y) = Len(x) + Len(y) /\ Len(x) \in Nat /\ Len(y) \in Nat
    BY <1>1, Joined
  <1> QED
    BY <1>1, <1>2, <1>3

\* The stream is what is in the buffer, what the socket has and what never arrives.
LEMMA StreamIs ==
    ASSUME NEW V, TypeOK(V)
    PROVE  /\ Stream \in Seq(Symbols) /\ rest \o CutOff(sent) \in Seq(Symbols)
           /\ Len(rest \o CutOff(sent)) = Len(rest) + Len(CutOff(sent))
           /\ Len(Stream) = Len(buf) + Len(rest) + Len(CutOff(sent))
           /\ Len(buf) \in Nat /\ Len(rest) \in Nat /\ Len(CutOff(sent)) \in Nat
           /\ rest = <<>> => Stream = buf \o CutOff(sent)
  <1> DEFINE c == CutOff(sent)
  <1>1. buf \in Seq(Symbols) /\ rest \in Seq(Symbols) /\ c \in Seq(Symbols)
    BY RootIs DEF TypeOK
  <1> HIDE DEF c
  <1>2. Strings(rest, c, c)
    BY <1>1 DEF Strings
  <1>3. rest \o c \in Seq(Symbols) /\ Len(rest \o c) = Len(rest) + Len(c) /\ Len(rest) \in Nat /\ Len(c) \in Nat
    BY ONLY <1>2, Joined
  <1>4. Strings(buf, rest \o c, rest \o c)
    BY <1>1, <1>3 DEF Strings
  <1> DEFINE w == rest \o c
  <1> HIDE DEF w
  <1>5. buf \o w \in Seq(Symbols) /\ Len(buf \o w) = Len(buf) + Len(w) /\ Len(buf) \in Nat
    <2>1. Strings(buf, w, w)
      BY <1>4 DEF w
    <2> QED
      BY ONLY <2>1, Joined
  <1>6. Stream = buf \o w
    BY DEF Stream, w, c
  <1>7. Len(Stream) = Len(buf) + Len(rest) + Len(c)
    <2>1. Len(w) = Len(rest) + Len(c)
      BY <1>3 DEF w
    <2> QED
      BY <1>3, <1>5, <1>6, <2>1
  <1>8. rest = <<>> => w = c
    BY <1>1 DEF w
  <1> QED
    BY <1>3, <1>5, <1>6, <1>7, <1>8 DEF w, c

\* The stream ends before the reply does.
LEMMA Short ==
    ASSUME NEW V, TypeOK(V), NEW fr, Reading(fr, stack, sent), rest = <<>>,
           NEW x \in Seq(Symbols), Stream = x \o Now(fr).left, Len(buf) < Len(x)
    PROVE  /\ ~ Whole
           /\ Len(buf) + Len(CutOff(sent)) = Len(x) + Len(Now(fr).left)
           /\ Len(buf) \in Nat /\ Len(CutOff(sent)) \in Nat /\ Len(Now(fr).left) \in Nat
  <1>1. IsSent(sent) /\ stack \in Seq(Entries(V)) /\ buf \in Seq(Symbols)
    BY DEF TypeOK
  <1>2. Now(fr) \in Frames /\ Len(Now(fr).left) >= Len(sent.after)
    BY <1>1, NowIs DEF Now
  <1> DEFINE c == CutOff(sent)
             y == Now(fr).left
  <1>3. y \in Seq(Symbols) /\ c \in Seq(Symbols)
    BY <1>1, <1>2, RootIs DEF Frames
  <1>4. Splits(buf, c, x, y)
    BY <1>1, <1>3, StreamIs DEF Splits
  <1>5. Len(c) > Len(y) /\ Len(buf) + Len(c) = Len(x) + Len(y)
        /\ Len(buf) \in Nat /\ Len(c) \in Nat /\ Len(y) \in Nat
    BY <1>4, TakenLess
  <1>6. Len(c) = Len(Encode[sent.reply]) + Len(sent.after) - sent.length
        /\ Len(Encode[sent.reply]) \in Nat /\ sent.length \in Nat /\ Len(sent.after) \in Nat
    BY <1>1, RootIs
  <1> HIDE DEF c, y
  <1>7. Len(y) >= Len(sent.after)
    BY <1>2 DEF y
  <1>8. ~ (sent.length >= Len(Encode[sent.reply]))
    <2>1. \A p, q, m, n, l \in Nat : p > q /\ q >= n /\ p = m + n - l => ~ (l >= m)
      BY ONLY TRUE
    <2> QED
      BY ONLY <1>5, <1>6, <1>7, <2>1
  <1> QED
    BY <1>5, <1>8 DEF Whole, c, y

-----------------------------------------------------------------------------
(* A reply is decoded.                                                      *)

Delivers(st, v) ==
    \/ st = <<>> /\ result' = v /\ stack' = stack
    \/ st # <<>> /\ result' = result /\ stack' = Put(st, v) /\ pc' = "peek"

Feeds == sent' = sent /\ buf' \in Seq(Symbols) /\ rest' \in Seq(Symbols) /\ (eof' => rest' = <<>>)

\* The types after it.
LEMMA DeliversType ==
    ASSUME NEW V, TypeOK(V), NEW st \in Seq(Entries(V)), NEW v, Delivers(st, v), Feeds
    PROVE  (\E W : TypeOK(W))' /\ IsSent(sent) /\ sent' = sent
  <1>1. CASE st = <<>>
    BY <1>1 DEF TypeOK, Delivers, Feeds
  <1>2. CASE st # <<>>
    <2>1. stack' \in Seq(Entries(V \cup {v}))
      <3>1. PutGives(V, st, v)
        BY <1>2, PutType
      <3> QED
        BY <1>2, <3>1 DEF Delivers, PutGives
    <2>2. TypeOK(V \cup {v})'
      BY <2>1 DEF TypeOK, Feeds
    <2>3. IsSent(sent) /\ sent' = sent
      BY DEF TypeOK, Feeds
    <2> QED
      BY <2>2, <2>3
  <1> QED
    BY <1>1, <1>2

\* As it was sent.
LEMMA DeliveredExact ==
    ASSUME NEW V, TypeOK(V), result = Pending, NEW fr, NEW st \in Seq(Entries(V)),
           Reading(fr, st, sent), Feeds,
           Delivers(st, ValueOf[NowAt(fr, st, sent).node]),
           Stream' = NowAt(fr, st, sent).left
    PROVE  IInv'
  <1> DEFINE now == NowAt(fr, st, sent)
             v == ValueOf[now.node]
  <1>1. (\E W : TypeOK(W))' /\ IsSent(sent) /\ sent' = sent
    BY DeliversType
  <1>2. now.node \in Replies
    <2>1. now \in Frames
      BY <1>1, NowIs
    <2> QED
      BY <2>1 DEF Frames
  <1>3. v # Pending
    <2>1. v.is # "pending"
      BY <1>2, ValueIs
    <2> HIDE DEF v
    <2> QED
      BY <2>1 DEF Pending
  <1>4. CASE st = <<>>
    <2>1. now = Root(sent)
      BY <1>4 DEF NowAt
    <2>2. now.node = sent.reply /\ now.left = sent.after
      BY <1>1, <2>1, RootIs
    <2>3. result' = v
      BY <1>4 DEF Delivers
    <2>4. Final'
      BY <1>1, <2>2, <2>3 DEF Final
    <2> QED
      BY <1>1, <1>3, <2>3, <2>4 DEF IInv
  <1>5. CASE st # <<>>
    <2>1. result' = Pending /\ stack' = Put(st, v) /\ pc' = "peek"
      BY <1>5 DEF Delivers
    <2>2. Len(Put(st, v)) = Len(st)
      <3>1. PutGives(V, st, v)
        BY <1>5, PutType
      <3> QED
        BY ONLY <3>1 DEF PutGives
    <2> HIDE DEF v, now
    <2>3. /\ Linked(fr, Put(st, v), sent)
          /\ Exact(fr[Len(st)], Put(st, v)[Len(st)])
          /\ Todo(fr, Put(st, v), sent) = now.left
      BY <1>1, <1>5, PutExact DEF now, v
    <2>4. Linked(fr, stack, sent)'
      BY <1>1, <2>1, <2>3
    <2>5. AtPeek(fr)'
      BY <1>1, <2>1, <2>2, <2>3 DEF AtPeek, Innermost, v, now
    <2>6. Live(fr)'
      BY <2>4, <2>5 DEF Live
    <2> QED
      BY <1>1, <2>1, <2>6 DEF IInv
  <1> QED
    BY <1>4, <1>5

\* From a line that was cut off.
LEMMA DeliveredTorn ==
    ASSUME NEW V, TypeOK(V), result = Pending, NEW fr, NEW st \in Seq(Entries(V)),
           Reading(fr, st, sent), Feeds, eof', buf' = <<>>, ~ Whole,
           NEW v, Delivers(st, v), v.is # "pending",
           \/ v = ValueOf[NowAt(fr, st, sent).node]
           \/ Excused(NowAt(fr, st, sent), sent)
    PROVE  IInv'
  <1> DEFINE now == NowAt(fr, st, sent)
  <1>1. (\E W : TypeOK(W))' /\ IsSent(sent) /\ sent' = sent
    BY DeliversType
  <1>2. v # Pending
    BY DEF Pending
  <1>3. ~ Whole'
    BY <1>1 DEF Whole
  <1>4. CASE st = <<>>
    <2>1. now = Root(sent)
      BY <1>4 DEF NowAt
    <2>2. now.node = sent.reply
      BY <1>1, <2>1, RootIs
    <2>3. result' = v
      BY <1>4 DEF Delivers
    <2>4. Final'
      BY <1>1, <1>3, <2>1, <2>2, <2>3 DEF Final
    <2> QED
      BY <1>1, <1>2, <2>3, <2>4 DEF IInv
  <1>5. CASE st # <<>>
    <2> DEFINE n == Len(st)
               a == Put(st, v)[n]
               f == fr[n]
    <2>1. result' = Pending /\ stack' = Put(st, v) /\ pc' = "peek"
      BY <1>5 DEF Delivers
    <2>2. Len(Put(st, v)) = n
      <3>1. PutGives(V, st, v)
        BY <1>5, PutType
      <3> QED
        BY ONLY <3>1 DEF PutGives
    <2>3. /\ Linked(fr, Put(st, v), sent)
          /\ a.want = Len(f.node.body)
          /\ v = ValueOf[now.node] => Exact(f, a)
          /\ Len(a.got) = a.want => LastLine[f.node] = LastLine[now.node] /\ f.left = now.left
      BY <1>1, <1>5, PutIn
    <2>4. Linked(fr, stack, sent)'
      BY <1>1, <2>1, <2>3
    <2>5. Len(stack') = n /\ Innermost' = a
      BY <2>1, <2>2 DEF Innermost
    <2>6. ArrayIsComplete' => Len(a.got) = a.want
      BY <2>5 DEF ArrayIsComplete, Last, Innermost
    <2> HIDE DEF n, a, f, now
    <2>7. Excused(now, sent) /\ Len(a.got) = a.want => Excused(f, sent)
      BY <2>3 DEF Excused
    <2>8. ArrayIsComplete' => a.want = Len(f.node.body) /\ (Exact(f, a) \/ Excused(f, sent))
      BY <2>3, <2>6, <2>7 DEF now
    <2>9. ArrayIsComplete' => /\ Innermost'.want = Len(fr[Len(stack')].node.body)
                              /\ \/ Exact(fr[Len(stack')], Innermost')
                                 \/ Excused(fr[Len(stack')], sent')
      BY <1>1, <2>5, <2>8 DEF f
    <2>10. Drained(fr)'
      BY <1>3, <2>1, <2>4, <2>9 DEF Drained
    <2> QED
      BY <1>1, <2>1, <2>10 DEF IInv
  <1> QED
    BY <1>4, <1>5

\* No reply: what arrived is not a whole one, or holds an error.
LEMMA Thrown ==
    ASSUME NEW V, TypeOK(V), NEW e, result' = Throws(e), stack' = stack, Feeds,
           ~ Whole \/ HoldsError(sent.reply)
    PROVE  IInv'
  <1>1. TypeOK(V)' /\ sent' = sent
    BY DEF TypeOK, Feeds
  <1>2. result' # Pending /\ ~ IsValue(result')
    BY DEF Throws, Pending, IsValue
  <1>3. ~ Whole' \/ HoldsError(sent'.reply)
    BY <1>1 DEF Whole
  <1>4. Final'
    BY <1>2, <1>3 DEF Final
  <1> QED
    BY <1>1, <1>2, <1>4 DEF IInv

-----------------------------------------------------------------------------
(* The first line of a reply.                                               *)

\* readLine() returns it, or what there is of it at the end of the stream.
LineWhole(r, l) ==
    /\ Tail(Line) = Text(r) /\ AfterLine \in Seq(Symbols)
    /\ AfterLine \o (rest \o CutOff(sent)) = Payload(r) \o l
LineCut(r, l) ==
    /\ eof /\ rest = <<>> /\ AfterLine = <<>> /\ ~ Whole
    /\ \E p, e, s : TornText(p, e, s, Text(r)) /\ Tail(Line) = p \o s
    /\ r.is \in {"+", ":", "-"} => Len(CutOff(sent)) - Len(l) < LastLine[r]

\* The bytes of a reply from its type byte to what follows it.
LEMMA EncodeLeft ==
    ASSUME NEW r \in Replies, NEW l \in Seq(Symbols)
    PROVE  /\ Encode[r] \o l = (<<Code(r)>> \o Text(r)) \o (CRLF \o (Payload(r) \o l))
           /\ Payload(r) \o l \in Seq(Symbols)
           /\ Len(Encode[r]) = Len(Text(r)) + 3 + Len(Payload(r))
           /\ Len(Text(r)) \in Nat /\ Len(Payload(r)) \in Nat
           /\ Len(FirstLine(r)) = Len(Text(r)) + 1
  <1> DEFINE f == FirstLine(r)
             y == Payload(r)
             c == <<Code(r)>>
             t == Text(r)
  <1>1. f \in Seq(Symbols) /\ y \in Seq(Symbols) /\ Encode[r] = f \o (CRLF \o y) /\ f = c \o t
    BY EncodeIs, FirstLineType, LineIs
  <1>2. CRLF \in Seq(Symbols) /\ Len(CRLF) = 2
    BY Marks
  <1>3. c \in Seq(Symbols) /\ Len(c) = 1 /\ t \in Seq(Symbols)
    <2>1. Code(r) \in Symbols /\ t \in Seq(Symbols)
      BY LineIs, LineBytes, SeqMonotonic
    <2> QED
      BY <2>1, Singles
  <1> HIDE DEF f, y, c, t
  <1>4. Strings(CRLF, y, l) /\ Strings(CRLF, y, y) /\ Strings(y, l, l) /\ Strings(c, t, t)
    BY <1>1, <1>2, <1>3 DEF Strings
  <1>5. CRLF \o y \in Seq(Symbols) /\ Len(CRLF \o y) = Len(CRLF) + Len(y) /\ Len(y) \in Nat
    BY <1>4, Joined
  <1>6. y \o l \in Seq(Symbols)
    BY <1>4, Joined
  <1>7. Len(c \o t) = Len(c) + Len(t) /\ Len(t) \in Nat
    BY <1>4, Joined
  <1> DEFINE q == CRLF \o y
  <1>8. Strings(f, q, l) /\ Strings(f, q, q)
    BY <1>1, <1>5 DEF Strings
  <1> HIDE DEF q
  <1>9. (f \o q) \o l = f \o (q \o l)
    BY ONLY <1>8, Regroup
  <1>10. q \o l = CRLF \o (y \o l)
    BY ONLY <1>4, Regroup DEF q
  <1>11. Encode[r] \o l = (c \o t) \o (CRLF \o (y \o l))
    BY <1>1, <1>9, <1>10 DEF q
  <1>12. Len(f \o q) = Len(f) + Len(q)
    BY ONLY <1>8, Joined
  <1>13. Len(Encode[r]) = Len(t) + 3 + Len(y)
    <2>1. Len(f) = Len(t) + 1
      BY <1>1, <1>3, <1>7
    <2>2. Len(q) = 2 + Len(y)
      BY <1>2, <1>5 DEF q
    <2>3. Len(Encode[r]) = Len(f) + Len(q)
      BY <1>1, <1>12 DEF q
    <2> QED
      BY <1>5, <1>7, <2>1, <2>2, <2>3
  <1>14. Len(f) = Len(t) + 1
    BY <1>1, <1>3, <1>7
  <1> QED
    BY <1>5, <1>6, <1>7, <1>11, <1>13, <1>14 DEF f, y, c, t

\* The reply the decoder is at is one.
LEMMA NowTyped ==
    ASSUME NEW V, TypeOK(V), NEW fr, Reading(fr, stack, sent)
    PROVE  Now(fr).node \in Replies /\ Now(fr).left \in Seq(Symbols) /\ Now(fr) \in Frames
  <1>1. Now(fr) \in Frames
    BY NowIs DEF Now, TypeOK
  <1> QED
    BY <1>1 DEF Frames

\* readLine() returns when the line is there or when the stream has ended.
LEMMA LineCases ==
    ASSUME NEW V, TypeOK(V), NEW fr, AtLine(fr), Satisfied \/ eof
    PROVE  LineWhole(Now(fr).node, Now(fr).left) \/ LineCut(Now(fr).node, Now(fr).left)
  <1> DEFINE r == Now(fr).node
             l == Now(fr).left
             z == rest \o CutOff(sent)
             c == Code(r)
             t == Text(r)
             x == Payload(r) \o l
  <1>1. r \in Replies /\ l \in Seq(Symbols) /\ Reading(fr, stack, sent)
    BY NowTyped DEF AtLine
  <1>2. buf \in Seq(Symbols) /\ z \in Seq(Symbols) /\ (eof => rest = <<>>)
    BY StreamIs DEF TypeOK
  <1>3. buf # <<>> /\ pc = "line" /\ buf \o z = Encode[r] \o l
    BY DEF AtLine, Stream
  <1>4. /\ Encode[r] \o l = (<<c>> \o t) \o (CRLF \o x) /\ x \in Seq(Symbols)
        /\ Len(Encode[r]) = Len(t) + 3 + Len(Payload(r))
        /\ Len(t) \in Nat /\ Len(Payload(r)) \in Nat /\ Len(FirstLine(r)) = Len(t) + 1
    BY <1>1, EncodeLeft
  <1>5. c \in LineSymbols /\ t \in Seq(LineSymbols)
    BY <1>1, LineIs
  <1>6. LineThere(buf, z, c, t, x)
    BY <1>2, <1>3, <1>4, <1>5 DEF LineThere
  <1>7. \A p \in Seq(Symbols) : Tail(One(c) \o p) = p
    <2>1. c \in Symbols
      BY <1>5, LineBytes
    <2> HIDE DEF c
    <2> QED
      BY <2>1 DEF One
  <1>8. t \in Seq(Symbols)
    BY <1>5, LineBytes, SeqMonotonic
  <1> HIDE DEF r, l, z, c, t, x
  <1>9. CASE Len(t) + 3 <= Len(buf)
    <2>1. Found(buf, z, c, t, x)
      BY ONLY <1>6, <1>9, LineFound
    <2>2. Line = One(c) \o t /\ AfterLine \in Seq(Symbols) /\ AfterLine \o z = x
      BY <2>1 DEF Line, AfterLine, Found
    <2>3. Tail(Line) = t
      BY <1>7, <1>8, <2>2
    <2> QED
      BY <2>2, <2>3 DEF LineWhole, t, r, l, x, z
  <1>10. CASE ~ (Len(t) + 3 <= Len(buf))
    <2>0. Torn(buf, c, t)
      BY ONLY <1>6, <1>10, LineTorn
    <2>1. FindCRLF(buf) = 0
      BY <2>0 DEF Torn
    <2>2. PICK p, e, s : TornText(p, e, s, t) /\ buf = One(c) \o (p \o s)
      BY <2>0 DEF Torn
    <2>3. eof /\ rest = <<>>
      BY <1>2, <1>3, <2>1 DEF Satisfied
    <2>4. Line = buf /\ AfterLine = <<>>
      BY <2>1 DEF Line, AfterLine
    <2>5. Tail(Line) = p \o s
      <3>1. p \in Seq(Symbols) /\ s \in Seq(Symbols)
        BY <2>2, Marks, Singles DEF TornText, Stumps
      <3>2. p \o s \in Seq(Symbols)
        BY <3>1
      <3> QED
        BY <1>7, <2>2, <2>4, <3>2
    <2> DEFINE w == Encode[r]
    <2>6. w \in Seq(Symbols) /\ Stream = w \o l /\ Len(buf) < Len(w)
      <3>1. w \in Seq(Symbols) /\ Stream = w \o l
        BY <1>1, <1>3, EncodeType DEF Stream, z
      <3>2. Len(buf) \in Nat /\ Len(w) = Len(t) + 3 + Len(Payload(r))
        BY <1>2, <1>4
      <3> HIDE DEF w
      <3> QED
        BY <1>4, <1>10, <3>1, <3>2
    <2>7. /\ ~ Whole /\ Len(buf) + Len(CutOff(sent)) = Len(w) + Len(l)
          /\ Len(buf) \in Nat /\ Len(CutOff(sent)) \in Nat /\ Len(l) \in Nat
      <3> HIDE DEF w
      <3> QED
        BY <1>1, <2>3, <2>6, Short DEF l
    <2>8. ASSUME r.is \in {"+", ":", "-"} PROVE Len(CutOff(sent)) - Len(l) < LastLine[r]
      <3>1. LastLine[r] = Len(FirstLine(r)) + 2
        BY <1>1, <2>8, LastLineIs
      <3>2. Payload(r) = <<>>
        BY <2>8 DEF Payload
      <3>3. Len(w) = Len(t) + 3
        <4>1. Len(Payload(r)) = 0
          BY <3>2
        <4> QED
          BY <1>4, <4>1
      <3>4. Len(buf) >= 1
        BY <1>2, <1>3
      <3> HIDE DEF w
      <3> QED
        BY <1>4, <2>7, <3>1, <3>3, <3>4
    <2> QED
      BY <2>2, <2>3, <2>4, <2>5, <2>7, <2>8 DEF LineCut, t, r, l
  <1> QED
    BY <1>9, <1>10

\* Deliver() is one of the two ways to deliver.
LEMMA DeliverIs == ASSUME NEW v, Deliver(v) PROVE Delivers(stack, v)
  BY DEF Deliver, Delivers, Put

\* The action takes the line off the buffer.
LEMMA LineTaken ==
    ASSUME NEW V, TypeOK(V), NEW r, NEW l, LineWhole(r, l) \/ LineCut(r, l),
           buf' = AfterLine, sent' = sent, rest' = rest, eof' = eof
    PROVE  /\ Feeds
           /\ LineWhole(r, l) => Stream' = Payload(r) \o l
           /\ LineCut(r, l) => eof' /\ buf' = <<>> /\ ~ Whole /\ ~ Whole'
  <1>1. AfterLine \in Seq(Symbols)
    BY Singles DEF LineWhole, LineCut
  <1>2. Feeds
    BY <1>1 DEF Feeds, TypeOK
  <1>3. Stream' = AfterLine \o (rest \o CutOff(sent))
    BY DEF Stream
  <1>4. LineWhole(r, l) => Stream' = Payload(r) \o l
    BY <1>3 DEF LineWhole
  <1>5. LineCut(r, l) => eof' /\ buf' = <<>> /\ ~ Whole /\ ~ Whole'
    BY DEF LineCut, Whole
  <1> QED
    BY <1>2, <1>4, <1>5

-----------------------------------------------------------------------------
(* The steps.                                                               *)

\* The socket delivers a chunk.
LEMMA FillStep ==
    ASSUME NEW V, TypeOK(V), result = Pending, NEW fr, Live(fr) \/ Drained(fr), Fill
    PROVE  IInv'
  <1>1. ~ eof /\ sent' = sent /\ eof' = eof /\ pc' = pc /\ code' = code /\ size' = size /\ data' = data
        /\ stack' = stack /\ result' = result
    BY DEF Fill
  <1>2. Live(fr)
    BY <1>1 DEF Drained
  <1> DEFINE c == CutOff(sent)
  <1>3. PICK k \in 1 .. Len(rest) : /\ buf' = buf \o SubSeq(rest, 1, k)
                                   /\ rest' = SubSeq(rest, k + 1, Len(rest))
    BY DEF Fill
  <1> DEFINE p == SubSeq(rest, 1, k)
             q == SubSeq(rest, k + 1, Len(rest))
  <1>4. rest \in Seq(Symbols) /\ buf \in Seq(Symbols) /\ c \in Seq(Symbols) /\ k \in 0 .. Len(rest) /\ k >= 1
    BY RootIs DEF TypeOK
  <1>5. p \in Seq(Symbols) /\ q \in Seq(Symbols) /\ p \o q = rest /\ Len(p) = k
    BY <1>4, CutAt
  <1> HIDE DEF c, p, q
  <1>6. buf' = buf \o p /\ rest' = q
    BY <1>3 DEF p, q
  <1>7. Strings(buf, p, p) /\ Strings(p, q, c) /\ Strings(q, c, c)
    BY <1>4, <1>5 DEF Strings
  <1>8. (p \o q) \o c = p \o (q \o c)
    BY ONLY <1>7, Regroup
  <1>9. q \o c \in Seq(Symbols)
    BY <1>7, Joined
  <1> DEFINE w == q \o c
  <1>10. Strings(buf, p, w)
    BY <1>4, <1>5, <1>9 DEF Strings
  <1> HIDE DEF w
  <1>11. (buf \o p) \o w = buf \o (p \o w)
    BY ONLY <1>10, Regroup
  <1>12. Stream' = Stream
    <2>1. Stream' = buf' \o (rest' \o c)
      BY <1>1 DEF Stream, c
    <2>2. Stream = buf \o (rest \o c)
      BY DEF Stream, c
    <2> QED
      BY <1>5, <1>6, <1>8, <1>11, <2>1, <2>2 DEF w
  <1>13. buf' \in Seq(Symbols) /\ buf' # <<>>
    <2>1. buf \o p \in Seq(Symbols) /\ Len(buf \o p) = Len(buf) + Len(p) /\ Len(buf) \in Nat
      BY ONLY <1>7, Joined
    <2>2. Len(buf \o p) >= 1
      BY <1>4, <1>5, <2>1
    <2> QED
      BY <1>6, <2>1, <2>2
  <1>14. TypeOK(V)'
    BY <1>1, <1>5, <1>6, <1>13 DEF TypeOK
  <1>15. Live(fr)'
    <2>1. AtPeek(fr) => AtPeek(fr)'
      BY <1>1, <1>12 DEF AtPeek, Innermost
    <2>2. AtLine(fr) => AtLine(fr)'
      BY <1>1, <1>12, <1>13 DEF AtLine, Now
    <2>3. AtBody(fr) => AtBody(fr)'
      BY <1>1, <1>12 DEF AtBody, Now
    <2>4. AtCRLF(fr) => AtCRLF(fr)'
      BY <1>1, <1>12 DEF AtCRLF, Now
    <2> QED
      BY <1>1, <1>2, <2>1, <2>2, <2>3, <2>4 DEF Live
  <1> QED
    BY <1>1, <1>14, <1>15 DEF IInv

\* The socket ends.
LEMMA EndedStep ==
    ASSUME NEW V, TypeOK(V), result = Pending, NEW fr, Live(fr) \/ Drained(fr), Ended
    PROVE  IInv'
  <1>1. ~ eof /\ sent' = sent /\ rest' = rest /\ rest = <<>> /\ buf' = buf /\ pc' = pc /\ code' = code
        /\ size' = size /\ data' = data /\ stack' = stack /\ result' = result
    BY DEF Ended
  <1>2. Live(fr)
    BY <1>1 DEF Drained
  <1>3. TypeOK(V)'
    BY <1>1 DEF TypeOK
  <1>4. Live(fr)'
    <2>0. Stream' = Stream
      BY <1>1 DEF Stream
    <2>1. AtPeek(fr) => AtPeek(fr)'
      BY <1>1, <2>0 DEF AtPeek, Innermost
    <2>2. AtLine(fr) => AtLine(fr)'
      BY <1>1, <2>0 DEF AtLine, Now
    <2>3. AtBody(fr) => AtBody(fr)'
      BY <1>1, <2>0 DEF AtBody, Now
    <2>4. AtCRLF(fr) => AtCRLF(fr)'
      BY <1>1, <2>0 DEF AtCRLF, Now
    <2> QED
      BY <1>1, <1>2, <2>1, <2>2, <2>3, <2>4 DEF Live
  <1> QED
    BY <1>1, <1>3, <1>4 DEF IInv

\* At the first byte of a reply.
LEMMA AtReply ==
    ASSUME NEW V, TypeOK(V), NEW fr, Linked(fr, stack, sent), AtPeek(fr), ~ ArrayIsComplete
    PROVE  Reading(fr, stack, sent) /\ Stream = Encode[Now(fr).node] \o Now(fr).left
  <1>1. ASSUME stack # <<>> PROVE Within(fr[Len(stack)], stack[Len(stack)])
    <2>1. Last(stack) = stack[Len(stack)] /\ Len(stack) \in 1 .. Len(stack)
      BY <1>1 DEF Last, TypeOK
    <2> DEFINE a == stack[Len(stack)]
    <2>2. a \in Entries(V)
      BY <2>1 DEF TypeOK
    <2>3. Len(a.got) \in Nat /\ a.want \in Nat
      BY <2>2 DEF Entries
    <2>4. Exact(fr[Len(stack)], a) /\ Len(a.got) # a.want
      BY <1>1, <2>1 DEF AtPeek, Innermost, ArrayIsComplete
    <2> HIDE DEF a
    <2>5. Len(a.got) < a.want
      BY <2>3, <2>4 DEF Exact
    <2> QED
      BY <2>4, <2>5 DEF Within, a
  <1>2. Reading(fr, stack, sent)
    BY <1>1 DEF Reading
  <1>3. Todo(fr, stack, sent) = Encode[Now(fr).node] \o Now(fr).left
    BY <1>2, NowIs DEF Now, TypeOK
  <1> QED
    BY <1>2, <1>3 DEF AtPeek

\* The byte that peek() returns is the type of the reply.
LEMMA FirstByte ==
    ASSUME NEW V, TypeOK(V), NEW r \in Replies, NEW l \in Seq(Symbols), Stream = Encode[r] \o l, buf # <<>>
    PROVE  Head(buf) = Code(r)
  <1> DEFINE c == <<Code(r)>>
             t == Text(r)
             x == CRLF \o (Payload(r) \o l)
             z == rest \o CutOff(sent)
  <1>1. Encode[r] \o l = (c \o t) \o x /\ Payload(r) \o l \in Seq(Symbols)
    BY EncodeLeft
  <1>2. Code(r) \in Symbols /\ t \in Seq(Symbols)
    BY LineIs, LineBytes, SeqMonotonic
  <1>3. c \in Seq(Symbols) /\ Len(c) = 1 /\ c[1] = Code(r)
    BY <1>2, Singles
  <1>4. x \in Seq(Symbols)
    <2>1. Strings(CRLF, Payload(r) \o l, Payload(r) \o l)
      BY <1>1, Marks DEF Strings
    <2> QED
      BY <2>1, Joined
  <1>5. buf \in Seq(Symbols) /\ z \in Seq(Symbols) /\ Stream = buf \o z
    BY StreamIs DEF Stream, TypeOK
  <1> HIDE DEF c, t, x, z
  <1>6. t \o x \in Seq(Symbols)
    BY <1>2, <1>4
  <1>7. (c \o t) \o x = c \o (t \o x)
    BY <1>2, <1>3, <1>4, Assoc
  <1>8. buf \o z = c \o (t \o x)
    BY <1>1, <1>5, <1>7
  <1> DEFINE y == t \o x
  <1>9. y \in Seq(Symbols)
    BY <1>6
  <1> HIDE DEF y
  <1>10. (buf \o z)[1] = buf[1]
    BY <1>5
  <1>11. (c \o y)[1] = c[1]
    <2>1. 1 \in 1 .. Len(c) + Len(y) /\ 1 <= Len(c)
      <3>1. Len(c) = 1 /\ Len(y) \in Nat
        BY <1>3, <1>9
      <3> QED
        BY <3>1
    <2> QED
      BY <1>3, <1>9, <2>1, ConcatProperties
  <1>12. Head(buf) = buf[1]
    BY <1>5
  <1> QED
    BY <1>3, <1>8, <1>10, <1>11, <1>12 DEF y

\* peek().
LEMMA PeekStep ==
    ASSUME NEW V, TypeOK(V), result = Pending, NEW fr, Live(fr) \/ Drained(fr), Peek
    PROVE  IInv'
  <1>1. /\ pc = "peek" /\ (Satisfied \/ eof) /\ ~ ArrayIsComplete
        /\ sent' = sent /\ buf' = buf /\ rest' = rest /\ eof' = eof
    BY DEF Peek, CanGoOn
  <1>2. Feeds /\ Stream' = Stream /\ TypeOK(V)
    BY <1>1 DEF Feeds, Stream, TypeOK
  <1>3. ASSUME buf = <<>> PROVE result' = Throws("EOF") /\ stack' = stack
    BY <1>3 DEF Peek, Throw
  <1>4. CASE Drained(fr)
    BY <1>2, <1>3, <1>4, Thrown DEF Drained
  <1>5. CASE Live(fr)
    <2> DEFINE r == Now(fr).node
               l == Now(fr).left
    <2>1. AtPeek(fr) /\ Linked(fr, stack, sent)
      BY <1>1, <1>5 DEF Live, AtPeek, AtLine, AtBody, AtCRLF
    <2>2. Reading(fr, stack, sent) /\ Stream = Encode[r] \o l
      BY <1>1, <2>1, AtReply
    <2>3. r \in Replies /\ l \in Seq(Symbols)
      BY <2>2, NowTyped
    <2>4. CASE buf = <<>>
      <3>1. eof /\ rest = <<>>
        <4>1. ~ (Len(buf) >= 1)
          BY <2>4
        <4>2. ~ Satisfied
          BY <1>1, <4>1 DEF Satisfied, Wanted
        <4> QED
          BY <1>1, <4>2 DEF TypeOK
      <3> DEFINE w == Encode[r]
      <3>2. w \in Seq(Symbols) /\ Stream = w \o l
        BY <2>2, <2>3, EncodeType
      <3>3. Len(buf) < Len(w)
        <4>1. Len(w) = Len(Text(r)) + 3 + Len(Payload(r)) /\ Len(Text(r)) \in Nat /\ Len(Payload(r)) \in Nat
          BY <2>3, EncodeLeft
        <4>2. Len(buf) = 0
          BY <2>4
        <4> HIDE DEF w
        <4> QED
          BY <4>1, <4>2
      <3>4. ~ Whole
        <4> HIDE DEF w
        <4> QED
          BY <2>2, <3>1, <3>2, <3>3, Short
      <3> QED
        BY <1>2, <1>3, <2>4, <3>4, Thrown
    <2>5. CASE buf # <<>>
      <3>1. Head(buf) = Code(r)
        BY <2>2, <2>3, <2>5, FirstByte
      <3>2. CASE Head(buf) = "-" /\ stack # <<>>
        <4>1. r.is = "-"
          BY <3>1, <3>2 DEF Code
        <4>2. r \in Inside[sent.reply]
          BY <2>2, <3>2, NowIs DEF Now, TypeOK
        <4>3. HoldsError(sent.reply)
          BY <4>1, <4>2 DEF HoldsError
        <4>4. result' = Throws("InvalidState") /\ stack' = stack
          BY <2>5, <3>2 DEF Peek, Throw
        <4> QED
          BY <1>2, <4>3, <4>4, Thrown
      <3>3. CASE ~ (Head(buf) = "-" /\ stack # <<>>)
        <4>1. pc' = "line" /\ code' = Head(buf) /\ stack' = stack /\ result' = result
          BY <2>5, <3>3 DEF Peek
        <4>2. Now(fr)' = Now(fr)
          BY <1>1, <4>1 DEF Now
        <4>3. AtLine(fr)'
          <5> HIDE DEF r, l
          <5>1. Stream' = Encode[r] \o l
            BY <1>2, <2>2
          <5>2. code' = Code(r) /\ (code' = "-" => stack' = <<>>)
            BY <3>1, <3>3, <4>1
          <5>3. Reading(fr, stack, sent)'
            BY <1>1, <2>2, <4>1
          <5> QED
            BY <1>1, <2>5, <4>1, <4>2, <5>1, <5>2, <5>3 DEF AtLine, r, l
        <4>4. Live(fr)'
          BY <1>1, <2>1, <4>1, <4>3 DEF Live
        <4>5. TypeOK(V)'
          BY <1>1, <4>1 DEF TypeOK
        <4> QED
          BY <4>1, <4>4, <4>5 DEF IInv
      <3> QED
        BY <3>2, <3>3
    <2> QED
      BY <2>4, <2>5
  <1> QED
    BY <1>4, <1>5

-----------------------------------------------------------------------------
(* A line is read.                                                          *)

\* What readLine() leads to: the line of the reply, or a part of it.
LEMMA LineStep ==
    ASSUME NEW V, TypeOK(V), result = Pending, NEW fr, Live(fr) \/ Drained(fr), CanGoOn("line"),
           buf' = AfterLine, sent' = sent, rest' = rest, eof' = eof
    PROVE  /\ AtLine(fr) /\ Linked(fr, stack, sent) /\ Reading(fr, stack, sent)
           /\ Now(fr).node \in Replies /\ Now(fr).left \in Seq(Symbols) /\ code = Code(Now(fr).node)
           /\ LineWhole(Now(fr).node, Now(fr).left) \/ LineCut(Now(fr).node, Now(fr).left)
           /\ Feeds
           /\ LineWhole(Now(fr).node, Now(fr).left) => Stream' = Payload(Now(fr).node) \o Now(fr).left
           /\ LineCut(Now(fr).node, Now(fr).left) => eof' /\ buf' = <<>> /\ ~ Whole /\ ~ Whole'
  <1>1. pc = "line" /\ (Satisfied \/ eof)
    BY DEF CanGoOn
  <1>2. AtLine(fr) /\ Linked(fr, stack, sent)
    BY <1>1 DEF Live, Drained, AtPeek, AtLine, AtBody, AtCRLF
  <1>3. Reading(fr, stack, sent) /\ code = Code(Now(fr).node)
    BY <1>2 DEF AtLine
  <1>4. Now(fr).node \in Replies /\ Now(fr).left \in Seq(Symbols)
    BY <1>3, NowTyped
  <1>5. LineWhole(Now(fr).node, Now(fr).left) \/ LineCut(Now(fr).node, Now(fr).left)
    BY <1>1, <1>2, LineCases
  <1> DEFINE r == Now(fr).node
             l == Now(fr).left
  <1> HIDE DEF r, l
  <1>6. LineWhole(r, l) \/ LineCut(r, l)
    BY <1>5 DEF r, l
  <1>7. /\ Feeds
        /\ LineWhole(r, l) => Stream' = Payload(r) \o l
        /\ LineCut(r, l) => eof' /\ buf' = <<>> /\ ~ Whole /\ ~ Whole'
    BY <1>6, LineTaken
  <1> QED
    BY <1>2, <1>3, <1>4, <1>6, <1>7 DEF r, l

\* A status, an integer, an error.
LEMMA ReadSimpleStep ==
    ASSUME NEW V, TypeOK(V), result = Pending, NEW fr, Live(fr) \/ Drained(fr), ReadSimple
    PROVE  IInv'
  <1> DEFINE r == Now(fr).node
             l == Now(fr).left
  <1>1. /\ CanGoOn("line") /\ code \in {"+", ":", "-"}
        /\ buf' = AfterLine /\ sent' = sent /\ rest' = rest /\ eof' = eof
    BY DEF ReadSimple
  <1>2. /\ AtLine(fr) /\ Reading(fr, stack, sent) /\ r \in Replies /\ l \in Seq(Symbols)
        /\ code = Code(r) /\ (LineWhole(r, l) \/ LineCut(r, l)) /\ Feeds
        /\ LineWhole(r, l) => Stream' = Payload(r) \o l
        /\ LineCut(r, l) => eof' /\ buf' = <<>> /\ ~ Whole
    BY <1>1, LineStep
  <1>3. NowAt(fr, stack, sent) = Now(fr) /\ stack \in Seq(Entries(V))
    BY DEF Now, TypeOK
  <1> HIDE DEF r, l
  <1>4. r.is = code
    BY <1>1, <1>2 DEF Code
  <1>5. ValueOf[r] = r
    BY <1>1, <1>2, <1>4, ValueIs
  <1>6. PICK v : Delivers(stack, v) /\ v.is # "pending" /\ (Tail(Line) = Text(r) => v = ValueOf[r])
    <2>1. CASE code = "+"
      <3> DEFINE v == Status(Tail(Line))
      <3>1. Deliver(v)
        BY <2>1 DEF ReadSimple
      <3>2. v.is # "pending"
        BY DEF Status
      <3>3. Tail(Line) = Text(r) => v = r
        <4>1. r = [is |-> "+", body |-> r.body]
          BY <1>2, <1>4, <2>1, ReplyKinds
        <4>2. Text(r) = r.body
          BY <1>4, <2>1 DEF Text
        <4> QED
          BY <4>1, <4>2 DEF Status
      <3> HIDE DEF v
      <3> QED
        BY <1>5, <3>1, <3>2, <3>3, DeliverIs
    <2>2. CASE code = ":"
      <3> DEFINE v == Integer(ParseInt(Tail(Line)))
      <3>1. Deliver(v)
        BY <2>2 DEF ReadSimple
      <3>2. v.is # "pending"
        BY DEF Integer
      <3>3. Tail(Line) = Text(r) => v = r
        <4>1. r = Integer(r.body) /\ r.body \in -Safe .. Safe
          BY <1>2, <1>4, <2>2, ReplyKinds DEF Nil, NilArray
        <4>2. Text(r) = Decimal(r.body)
          BY <1>4, <2>2 DEF Text
        <4>3. ParseInt(Decimal(r.body)) = r.body
          BY <4>1, ReadsBack
        <4> QED
          BY <4>1, <4>2, <4>3
      <3> HIDE DEF v
      <3> QED
        BY <1>5, <3>1, <3>2, <3>3, DeliverIs
    <2>3. CASE code = "-"
      <3> DEFINE v == Error(Tail(Line))
      <3>1. Delivers(stack, v)
        <4>1. stack = <<>>
          BY <1>2, <2>3 DEF AtLine
        <4>2. result' = v /\ stack' = stack
          BY <2>3 DEF ReadSimple
        <4> QED
          BY <4>1, <4>2 DEF Delivers
      <3>2. v.is # "pending"
        BY DEF Error
      <3>3. Tail(Line) = Text(r) => v = r
        <4>1. r = [is |-> "-", body |-> r.body]
          BY <1>2, <1>4, <2>3, ReplyKinds
        <4>2. Text(r) = r.body
          BY <1>4, <2>3 DEF Text
        <4> QED
          BY <4>1, <4>2 DEF Error
      <3> HIDE DEF v
      <3> QED
        BY <1>5, <3>1, <3>2, <3>3
    <2> QED
      BY <1>1, <2>1, <2>2, <2>3
  <1>7. CASE LineWhole(r, l)
    <2>1. Payload(r) = <<>>
      BY <1>1, <1>4 DEF Payload
    <2>2. Stream' = l
      BY <1>2, <1>7, <2>1
    <2>3. v = ValueOf[r]
      BY <1>6, <1>7 DEF LineWhole
    <2>4. Delivers(stack, ValueOf[NowAt(fr, stack, sent).node]) /\ Stream' = NowAt(fr, stack, sent).left
      BY <1>3, <1>6, <2>2, <2>3 DEF r, l
    <2> QED
      BY <1>2, <1>3, <2>4, DeliveredExact
  <1>8. CASE LineCut(r, l)
    <2>1. Len(CutOff(sent)) - Len(l) < LastLine[r]
      BY <1>1, <1>4, <1>8 DEF LineCut
    <2>2. Excused(NowAt(fr, stack, sent), sent)
      BY <1>3, <2>1 DEF Excused, r, l
    <2>3. eof' /\ buf' = <<>> /\ ~ Whole
      BY <1>2, <1>8
    <2> QED
      BY <1>2, <1>3, <1>6, <2>2, <2>3, DeliveredTorn
  <1> QED
    BY <1>2, <1>7, <1>8

-----------------------------------------------------------------------------
(* A bulk string is read.                                                   *)

\* A line that was cut off may announce bytes: nothing is there to read.
LEMMA DrainedBody ==
    ASSUME NEW V, TypeOK(V), result = Pending, NEW fr, Linked(fr, stack, sent), Feeds,
           eof', buf' = <<>>, ~ Whole, size' \in Nat, pc' = "body", stack' = stack, result' = result
    PROVE  IInv'
  <1>1. TypeOK(V)' /\ sent' = sent
    BY DEF TypeOK, Feeds
  <1>2. ~ Whole'
    BY <1>1 DEF Whole
  <1>3. Drained(fr)'
    BY <1>1, <1>2 DEF Drained
  <1> QED
    BY <1>1, <1>3 DEF IInv

\* The size of a bulk string.
LEMMA ReadBulkSizeStep ==
    ASSUME NEW V, TypeOK(V), result = Pending, NEW fr, Live(fr) \/ Drained(fr), ReadBulkSize
    PROVE  IInv'
  <1> DEFINE r == Now(fr).node
             l == Now(fr).left
             n == ParseInt(Tail(Line))
  <1>0. Safe \in Nat \ {0} /\ NaN \notin Int
    BY ReplyAssumption
  <1>1. /\ CanGoOn("line") /\ code = "$"
        /\ buf' = AfterLine /\ sent' = sent /\ rest' = rest /\ eof' = eof
    BY DEF ReadBulkSize
  <1>2. /\ AtLine(fr) /\ Reading(fr, stack, sent) /\ Linked(fr, stack, sent)
        /\ r \in Replies /\ l \in Seq(Symbols)
        /\ code = Code(r) /\ (LineWhole(r, l) \/ LineCut(r, l)) /\ Feeds
        /\ LineWhole(r, l) => Stream' = Payload(r) \o l
        /\ LineCut(r, l) => eof' /\ buf' = <<>> /\ ~ Whole
    BY <1>1, LineStep
  <1>3. NowAt(fr, stack, sent) = Now(fr) /\ stack \in Seq(Entries(V))
    BY DEF Now, TypeOK
  <1>4. n # NaN /\ n < 0 => Delivers(stack, Nil)
    <2>1. n # NaN /\ n < 0 => Deliver(Nil)
      BY DEF ReadBulkSize
    <2> HIDE DEF n
    <2> QED
      BY <2>1, DeliverIs
  <1>5. ~ (n # NaN /\ n < 0) =>
            /\ size' = IF n = NaN THEN 0 ELSE n
            /\ pc' = "body" /\ stack' = stack /\ result' = result
    BY DEF ReadBulkSize
  <1> HIDE DEF r, l, n
  <1>6. \/ r.is = "$" /\ r.body \in Seq(Symbols) /\ Len(r.body) \in 0 .. Safe
        \/ r = Nil /\ r.is = "nil"
    <2>1. r.is \in {"$", "nil"}
      BY <1>1, <1>2 DEF Code
    <2> QED
      BY <1>2, <2>1, ReplyKinds
  <1>7. r.is = "nil" => Text(r) = Decimal(-1) /\ Payload(r) = <<>> /\ ValueOf[r] = Nil
    <2>1. r.is = "nil" => Text(r) = Decimal(-1) /\ Payload(r) = <<>>
      BY DEF Text, Payload
    <2>2. r.is = "nil" => ValueOf[r] = r
      BY <1>2, ValueIs
    <2> QED
      BY <1>6, <2>1, <2>2
  <1>8. r.is = "$" => Text(r) = Decimal(Len(r.body)) /\ Payload(r) = r.body \o CRLF
    BY DEF Text, Payload
  <1>9. CASE LineWhole(r, l) /\ r.is = "nil"
    <2>1. n = -1
      <3>1. Tail(Line) = Decimal(-1)
        BY <1>7, <1>9 DEF LineWhole
      <3>2. -1 \in -Safe .. Safe
        BY <1>0
      <3> QED
        BY <3>1, <3>2, ReadsBack DEF n
    <2>2. Delivers(stack, Nil)
      BY <1>0, <1>4, <2>1
    <2>3. Stream' = l
      BY <1>2, <1>7, <1>9
    <2>4. Delivers(stack, ValueOf[NowAt(fr, stack, sent).node]) /\ Stream' = NowAt(fr, stack, sent).left
      BY <1>3, <1>7, <1>9, <2>2, <2>3 DEF r, l
    <2> QED
      BY <1>2, <1>3, <2>4, DeliveredExact
  <1>10. CASE LineWhole(r, l) /\ r.is = "$"
    <2>0. r.body \in Seq(Symbols) /\ Len(r.body) \in 0 .. Safe
      BY <1>6, <1>10
    <2>1. n = Len(r.body)
      <3>1. Tail(Line) = Decimal(Len(r.body))
        BY <1>8, <1>10 DEF LineWhole
      <3>2. Len(r.body) \in -Safe .. Safe
        BY <1>0, <2>0
      <3> QED
        BY <3>1, <3>2, ReadsBack DEF n
    <2>2. n \in Nat /\ n # NaN
      BY <1>0, <2>0, <2>1
    <2>3. size' = Len(r.body) /\ pc' = "body" /\ stack' = stack /\ result' = result
      BY <1>5, <2>1, <2>2
    <2> DEFINE b == r.body
    <2>9. b \in Seq(Symbols) /\ (r.is = "$" => Payload(r) = b \o CRLF)
      BY <1>8, <2>0
    <2> HIDE DEF b
    <2>4. Stream' = b \o (CRLF \o l)
      <3>1. Strings(b, CRLF, l)
        BY <1>2, <2>9, Marks DEF Strings
      <3>2. (b \o CRLF) \o l = b \o (CRLF \o l)
        BY ONLY <3>1, Regroup
      <3> QED
        BY <1>2, <1>10, <2>9, <3>2
    <2>5. Now(fr)' = Now(fr)
      BY <1>1, <2>3 DEF Now
    <2>6. AtBody(fr)'
      <3>1. Reading(fr, stack, sent)'
        BY <1>1, <1>2, <2>3
      <3>2. r.is = "$"
        BY <1>10
      <3> QED
        BY <2>3, <2>4, <2>5, <3>1, <3>2 DEF AtBody, r, l, b
    <2>7. Live(fr)'
      BY <1>1, <1>2, <2>3, <2>6 DEF Live
    <2>8. TypeOK(V)'
      BY <1>2, <2>3 DEF TypeOK, Feeds
    <2> QED
      BY <2>3, <2>7, <2>8 DEF IInv
  <1>11. CASE LineCut(r, l)
    <2>0. eof' /\ buf' = <<>> /\ ~ Whole
      BY <1>2, <1>11
    <2> DEFINE m == IF r.is = "nil" THEN -1 ELSE Len(r.body)
    <2>1. Text(r) = Decimal(m) /\ m \in -1 .. Safe
      BY <1>0, <1>6, <1>7, <1>8
    <2>2. m = -1 => r.is = "nil"
      BY <1>0, <1>6
    <2> HIDE DEF m
    <2>3. PICK p, e, s : TornText(p, e, s, Decimal(m)) /\ Tail(Line) = p \o s
      BY <1>11, <2>1 DEF LineCut
    <2>4. \/ ParseInt(p \o s) = NaN
          \/ m = -1 /\ ParseInt(p \o s) = -1
          \/ m \in Nat /\ ParseInt(p \o s) \in Nat /\ (ParseInt(p \o s) = 0 => m = 0)
      BY <2>1, <2>3, TornNumber
    <2>5. n = ParseInt(p \o s)
      BY <2>3 DEF n
    <2>6. CASE m = -1 /\ n = -1
      <3>1. Delivers(stack, Nil) /\ Nil = ValueOf[r]
        BY <1>0, <1>4, <1>7, <2>2, <2>6
      <3>2. Nil.is # "pending"
        BY DEF Nil
      <3>3. Nil = ValueOf[NowAt(fr, stack, sent).node]
        BY <1>3, <3>1 DEF r
      <3> QED
        BY <1>2, <1>3, <2>0, <3>1, <3>2, <3>3, DeliveredTorn
    <2>7. CASE n = NaN \/ n \in Nat
      <3>1. ~ (n # NaN /\ n < 0)
        BY <2>7
      <3>2. size' \in Nat /\ pc' = "body" /\ stack' = stack /\ result' = result
        BY <1>5, <2>7, <3>1
      <3> QED
        BY <1>2, <2>0, <3>2, DrainedBody
    <2> QED
      BY <2>4, <2>5, <2>6, <2>7
  <1> QED
    BY <1>2, <1>6, <1>9, <1>10, <1>11

\* readBytes() takes a part of known length.
LEMMA TakenOff ==
    ASSUME NEW b, NEW z, NEW x, NEW y, Splits(b, z, x, y), Len(b) >= Len(x)
    PROVE  /\ SubSeq(b, 1, Len(x)) = x
           /\ SubSeq(b, Len(x) + 1, Len(b)) \in Seq(Symbols)
           /\ SubSeq(b, Len(x) + 1, Len(b)) \o z = y
  <1> DEFINE p == SubSeq(b, 1, Len(x))
             q == SubSeq(b, Len(x) + 1, Len(b))
  <1>0. b \in Seq(Symbols) /\ z \in Seq(Symbols) /\ x \in Seq(Symbols) /\ y \in Seq(Symbols) /\ b \o z = x \o y
    BY DEF Splits
  <1>1. Len(x) \in 0 .. Len(b)
    BY <1>0
  <1>2. p \in Seq(Symbols) /\ q \in Seq(Symbols) /\ Len(p) = Len(x) /\ p \o q = b
    BY <1>0, <1>1, CutAt
  <1> HIDE DEF p, q
  <1>3. q \o z \in Seq(Symbols)
    BY <1>0, <1>2
  <1>4. (p \o q) \o z = p \o (q \o z)
    <2>1. Strings(p, q, z)
      BY <1>0, <1>2 DEF Strings
    <2> QED
      BY ONLY <2>1, Regroup
  <1>5. Splits(p, q \o z, x, y)
    BY <1>0, <1>2, <1>3, <1>4 DEF Splits
  <1>6. p = x /\ q \o z = y
    BY <1>2, <1>5, SplitAt
  <1> QED
    BY <1>2, <1>6 DEF p, q

\* A part x of a reply, after a line of it, is not there.
LEMMA MissingPart ==
    ASSUME NEW V, TypeOK(V), result = Pending, NEW fr, Reading(fr, stack, sent), rest = <<>>,
           NEW x \in Seq(Symbols), Stream = x \o Now(fr).left, Len(buf) < Len(x),
           NEW e, result' = Throws(e), stack' = stack, Feeds
    PROVE  IInv'
  <1>1. ~ Whole
    BY Short
  <1> QED
    BY <1>1, Thrown

\* The bytes of a bulk string, and the CRLF after them.
LEMMA ReadBulkStep ==
    ASSUME NEW V, TypeOK(V), result = Pending, NEW fr, Live(fr) \/ Drained(fr), ReadBulk
    PROVE  IInv'
  <1> DEFINE r == Now(fr).node
             l == Now(fr).left
             z == rest \o CutOff(sent)
             b == r.body
  <1>1. /\ pc \in {"body", "crlf"} /\ (Satisfied \/ eof)
        /\ sent' = sent /\ rest' = rest /\ eof' = eof /\ size' = size
    BY DEF ReadBulk, CanGoOn
  <1>2. buf \in Seq(Symbols) /\ rest \in Seq(Symbols) /\ (eof => rest = <<>>) /\ Len(buf) \in Nat
        /\ stack \in Seq(Entries(V)) /\ z \in Seq(Symbols) /\ Stream = buf \o z
    BY StreamIs DEF TypeOK, Stream
  <1>3. ASSUME Len(buf) < Wanted
        PROVE  result' = Throws("InvalidState") /\ stack' = stack /\ buf' = buf
    BY <1>3 DEF ReadBulk, Throw
  <1>4. ASSUME ~ (Len(buf) < Wanted)
        PROVE  /\ buf' = SubSeq(buf, Wanted + 1, Len(buf))
               /\ pc = "body" => /\ pc' = "crlf" /\ data' = SubSeq(buf, 1, Wanted)
                                 /\ stack' = stack /\ result' = result
               /\ pc = "crlf" => IF SubSeq(buf, 1, Wanted) = CRLF THEN Deliver(Bulk(data))
                                 ELSE result' = Throws("InvalidState") /\ stack' = stack
    BY <1>1, <1>4 DEF ReadBulk, Throw
  <1>5. /\ pc = "body" => Wanted = size
        /\ pc = "crlf" => Wanted = 2
    BY DEF Wanted
  <1>6. buf' = buf => Feeds
    BY <1>1, <1>2 DEF Feeds
  <1> HIDE DEF z
  <1>7. CASE Drained(fr)
    <2>1. /\ Linked(fr, stack, sent) /\ eof /\ buf = <<>> /\ ~ Whole
          /\ (pc = "body" => size \in Nat)
      BY <1>1, <1>7 DEF Drained
    <2>2. Len(buf) = 0
      BY <2>1
    <2>3. CASE Len(buf) < Wanted
      BY <1>3, <1>6, <2>1, <2>3, Thrown
    <2>4. CASE ~ (Len(buf) < Wanted)
      <3>1. pc = "body" /\ Wanted = 0
        BY <1>1, <1>5, <2>1, <2>2, <2>4
      <3>2. buf' = SubSeq(buf, 1, 0)
        BY <1>4, <2>2, <2>4, <3>1
      <3>3. SubSeq(buf, 1, 0) = <<>>
        BY <1>2, SubSeqEmpty
      <3>4. pc' = "crlf" /\ stack' = stack /\ result' = result /\ buf' = <<>>
        BY <1>4, <2>4, <3>1, <3>2, <3>3
      <3>5. TypeOK(V)'
        BY <1>1, <3>4, <2>1 DEF TypeOK
      <3>6. ~ Whole'
        BY <1>1, <2>1 DEF Whole
      <3>7. Drained(fr)'
        BY <1>1, <2>1, <3>4, <3>6 DEF Drained
      <3> QED
        BY <3>4, <3>5, <3>7 DEF IInv
    <2> QED
      BY <2>3, <2>4
  <1>8. CASE AtBody(fr) /\ Linked(fr, stack, sent)
    <2>1. /\ pc = "body" /\ Reading(fr, stack, sent) /\ r.is = "$"
          /\ size = Len(b) /\ Stream = b \o (CRLF \o l)
      BY <1>8 DEF AtBody
    <2>2. r \in Replies /\ l \in Seq(Symbols)
      BY <2>1, NowTyped
    <2>3. b \in Seq(Symbols)
      BY <2>1, <2>2, ReplyKinds DEF Nil, NilArray
    <2>4. CRLF \in Seq(Symbols) /\ Len(CRLF) = 2
      BY Marks
    <2> HIDE DEF b, l, r
    <2>5. Strings(b, CRLF, l) /\ Strings(b, CRLF, CRLF) /\ Strings(CRLF, l, l)
      BY <2>2, <2>3, <2>4 DEF Strings
    <2>6. b \o CRLF \in Seq(Symbols) /\ Len(b \o CRLF) = Len(b) + Len(CRLF) /\ Len(b) \in Nat
      BY ONLY <2>5, Joined
    <2>7. CRLF \o l \in Seq(Symbols)
      BY ONLY <2>5, Joined
    <2>8. (b \o CRLF) \o l = b \o (CRLF \o l)
      BY ONLY <2>5, Regroup
    <2>9. CASE Len(buf) < Wanted
      <3>1. eof
        BY <1>1, <1>2, <1>5, <2>1, <2>6, <2>9 DEF Satisfied
      <3>2. Stream = (b \o CRLF) \o l
        BY <2>1, <2>8
      <3>3. Len(buf) < Len(b \o CRLF)
        BY <1>2, <1>5, <2>1, <2>4, <2>6, <2>9
      <3> DEFINE x == b \o CRLF
      <3>4. x \in Seq(Symbols) /\ Stream = x \o Now(fr).left /\ Len(buf) < Len(x)
        BY <2>6, <3>2, <3>3 DEF l
      <3> HIDE DEF x
      <3> QED
        BY <1>2, <1>3, <1>6, <2>1, <2>9, <3>1, <3>4, MissingPart
    <2>10. CASE ~ (Len(buf) < Wanted)
      <3>1. Splits(buf, z, b, CRLF \o l)
        BY <1>2, <2>1, <2>3, <2>7 DEF Splits
      <3>2. Len(buf) >= Len(b) /\ Wanted = Len(b)
        BY <1>2, <1>5, <2>1, <2>6, <2>10
      <3>3. /\ SubSeq(buf, 1, Len(b)) = b
            /\ SubSeq(buf, Len(b) + 1, Len(buf)) \in Seq(Symbols)
            /\ SubSeq(buf, Len(b) + 1, Len(buf)) \o z = CRLF \o l
        BY <3>1, <3>2, TakenOff
      <3>4. pc' = "crlf" /\ data' = b /\ stack' = stack /\ result' = result
            /\ buf' \in Seq(Symbols) /\ buf' \o z = CRLF \o l
        BY <1>4, <2>1, <2>10, <3>2, <3>3
      <3>5. Stream' = CRLF \o l
        BY <1>1, <3>4 DEF Stream, z
      <3>6. Now(fr)' = Now(fr)
        BY <1>1, <3>4 DEF Now
      <3>7. AtCRLF(fr)'
        <4>1. Reading(fr, stack, sent)'
          BY <1>1, <2>1, <3>4
        <4> QED
          BY <2>1, <3>4, <3>5, <3>6, <4>1 DEF AtCRLF, r, l, b
      <3>8. Live(fr)' /\ TypeOK(V)'
        BY <1>1, <1>8, <3>4, <3>7 DEF Live, TypeOK
      <3> QED
        BY <3>4, <3>8 DEF IInv
    <2> QED
      BY <2>9, <2>10
  <1>9. CASE AtCRLF(fr) /\ Linked(fr, stack, sent)
    <2>1. /\ pc = "crlf" /\ Reading(fr, stack, sent) /\ r.is = "$"
          /\ data = b /\ Stream = CRLF \o l
      BY <1>9 DEF AtCRLF
    <2>2. r \in Replies /\ l \in Seq(Symbols)
      BY <2>1, NowTyped
    <2>3. r = Bulk(b)
      BY <2>1, <2>2, ReplyKinds DEF Nil, NilArray
    <2>4. CRLF \in Seq(Symbols) /\ Len(CRLF) = 2
      BY Marks
    <2>5. NowAt(fr, stack, sent) = Now(fr)
      BY DEF Now
    <2>6. ValueOf[r] = r
      BY <2>1, <2>2, ValueIs
    <2> HIDE DEF b, l, r
    <2>7. CASE Len(buf) < Wanted
      <3>1. eof
        BY <1>1, <1>2, <1>5, <2>1, <2>7 DEF Satisfied
      <3>2. Stream = CRLF \o Now(fr).left /\ Len(buf) < Len(CRLF)
        BY <1>5, <2>1, <2>4, <2>7 DEF l
      <3> QED
        BY <1>2, <1>3, <1>6, <2>1, <2>4, <2>7, <3>1, <3>2, MissingPart
    <2>8. CASE ~ (Len(buf) < Wanted)
      <3>1. Splits(buf, z, CRLF, l)
        BY <1>2, <2>1, <2>2, <2>4 DEF Splits
      <3>2. Len(buf) >= Len(CRLF) /\ Wanted = Len(CRLF)
        BY <1>2, <1>5, <2>1, <2>4, <2>8
      <3>3. /\ SubSeq(buf, 1, Len(CRLF)) = CRLF
            /\ SubSeq(buf, Len(CRLF) + 1, Len(buf)) \in Seq(Symbols)
            /\ SubSeq(buf, Len(CRLF) + 1, Len(buf)) \o z = l
        BY <3>1, <3>2, TakenOff
      <3>4. buf' \in Seq(Symbols) /\ buf' \o z = l /\ Deliver(Bulk(data))
        BY <1>4, <2>1, <2>8, <3>2, <3>3
      <3>5. Stream' = l
        BY <1>1, <3>4 DEF Stream, z
      <3>6. Feeds
        BY <1>1, <1>2, <3>4 DEF Feeds
      <3>7. Delivers(stack, r)
        BY <2>1, <2>3, <3>4, DeliverIs
      <3>8. Delivers(stack, ValueOf[NowAt(fr, stack, sent).node]) /\ Stream' = NowAt(fr, stack, sent).left
        BY <2>5, <2>6, <3>5, <3>7 DEF r, l
      <3> QED
        BY <1>2, <2>1, <3>6, <3>8, DeliveredExact
    <2> QED
      BY <2>7, <2>8
  <1>10. Live(fr) => Linked(fr, stack, sent) /\ (AtBody(fr) \/ AtCRLF(fr))
    BY <1>1 DEF Live, AtPeek, AtLine
  <1> QED
    BY <1>7, <1>8, <1>9, <1>10

-----------------------------------------------------------------------------
(* An array is read.                                                        *)

\* An array of w elements begins: w is their number, or what is left of it in
\* a line that was cut off.
LEMMA ArrayBegins ==
    ASSUME NEW V, TypeOK(V), result = Pending, NEW fr, Reading(fr, stack, sent), Feeds,
           Now(fr).node.is = "*", NEW w \in Nat,
           stack' = Append(stack, [want |-> w, got |-> <<>>]), pc' = "peek", result' = result,
           \/ w = Len(Now(fr).node.body) /\ Stream' = After(Now(fr).node)[0] \o Now(fr).left
           \/ /\ eof' /\ buf' = <<>> /\ ~ Whole
              /\ w = 0 => Len(Now(fr).node.body) = 0
    PROVE  IInv'
  <1> DEFINE new == [want |-> w, got |-> <<>>]
  <1>0. PICK n, st2, fr2, now : /\ n = Len(stack) /\ st2 = Append(stack, new)
                               /\ fr2 = PushedFrames(fr, stack, sent) /\ now = NowAt(fr, stack, sent)
    OBVIOUS
  <1>1. IsSent(sent) /\ sent' = sent /\ stack \in Seq(Entries(V)) /\ n \in Nat
    BY <1>0 DEF TypeOK, Feeds
  <1>2. now.node.is = "*" /\ now = Now(fr)
    BY <1>0 DEF Now
  <1>9. Pushed(V, stack, sent, w, now, st2, fr2)
    BY <1>1, <1>2, <1>0, PushOn
  <1>3. /\ st2 \in Seq(Entries(V)) /\ Len(st2) = n + 1 /\ st2[n + 1] = new
        /\ Linked(fr2, st2, sent) /\ fr2[n + 1] = now
        /\ w = Len(now.node.body) => Exact(now, st2[n + 1])
        /\ Todo(fr2, st2, sent) = After(now.node)[0] \o now.left
    BY <1>0, <1>9 DEF Pushed
  <1>4. stack' = st2
    BY <1>0
  <1>5. Len(stack') = n + 1 /\ Innermost' = new /\ stack' # <<>> /\ Linked(fr2, stack, sent)'
    <2>1. Len(stack') = n + 1 /\ Innermost' = st2[n + 1]
      BY <1>3, <1>4 DEF Innermost
    <2>2. stack' \in Seq(Entries(V)) /\ n + 1 # 0
      BY <1>1, <1>3, <1>4
    <2>3. stack' # <<>>
      <3>1. Len(<<>>) = 0
        OBVIOUS
      <3> QED
        BY ONLY <2>1, <2>2, <3>1
    <2> QED
      BY <1>1, <1>3, <1>4, <2>1, <2>3
  <1>6. TypeOK(V)'
    BY <1>1, <1>3, <1>4 DEF TypeOK, Feeds
  <1>7. CASE w = Len(now.node.body) /\ Stream' = After(now.node)[0] \o now.left
    <2>1. Stream' = Todo(fr2, stack, sent)'
      BY <1>1, <1>3, <1>4, <1>7
    <2>2. Exact(fr2[Len(stack')], Innermost')
      BY <1>3, <1>5, <1>7
    <2>3. AtPeek(fr2)'
      BY <2>1, <2>2 DEF AtPeek
    <2>4. Live(fr2)'
      BY <1>5, <2>3 DEF Live
    <2> QED
      BY <1>6, <2>4 DEF IInv
  <1>8. CASE eof' /\ buf' = <<>> /\ ~ Whole /\ (w = 0 => Len(now.node.body) = 0)
    <2>1. ~ Whole'
      BY <1>1, <1>8 DEF Whole
    <2>2. ASSUME ArrayIsComplete'
          PROVE  /\ Innermost'.want = Len(fr2[Len(stack')].node.body)
                 /\ Exact(fr2[Len(stack')], Innermost')
      <3>1. Last(stack') = Innermost'
        BY DEF Last, Innermost
      <3>2. new.want = w /\ new.got = <<>>
        BY DEF new
      <3>3. w = 0
        <4>1. Len(Innermost'.got) = Innermost'.want
          BY <2>2, <3>1 DEF ArrayIsComplete
        <4>2. Len(<<>>) = w
          BY <1>5, <3>2, <4>1
        <4> QED
          BY <4>2
      <3>4. w = Len(now.node.body)
        BY <1>8, <3>3
      <3> HIDE DEF new
      <3> QED
        BY <1>3, <1>5, <3>2, <3>4
    <2>3. Drained(fr2)'
      BY <1>5, <1>8, <2>1, <2>2 DEF Drained
    <2> QED
      BY <1>6, <2>3 DEF IInv
  <1> QED
    BY <1>2, <1>7, <1>8

\* The number of elements of an array.
LEMMA ReadArraySizeStep ==
    ASSUME NEW V, TypeOK(V), result = Pending, NEW fr, Live(fr) \/ Drained(fr), ReadArraySize
    PROVE  IInv'
  <1> DEFINE r == Now(fr).node
             l == Now(fr).left
             n == ParseInt(Tail(Line))
  <1>0. Safe \in Nat \ {0} /\ NaN \notin Int
    BY ReplyAssumption
  <1>1. /\ CanGoOn("line") /\ code = "*"
        /\ buf' = AfterLine /\ sent' = sent /\ rest' = rest /\ eof' = eof
    BY DEF ReadArraySize
  <1>2. /\ AtLine(fr) /\ Reading(fr, stack, sent) /\ Linked(fr, stack, sent)
        /\ r \in Replies /\ l \in Seq(Symbols)
        /\ code = Code(r) /\ (LineWhole(r, l) \/ LineCut(r, l)) /\ Feeds
        /\ LineWhole(r, l) => Stream' = Payload(r) \o l
        /\ LineCut(r, l) => eof' /\ buf' = <<>> /\ ~ Whole
    BY <1>1, LineStep
  <1>3. NowAt(fr, stack, sent) = Now(fr) /\ stack \in Seq(Entries(V))
    BY DEF Now, TypeOK
  <1>4. n = -1 => Delivers(stack, Nil)
    <2>1. n = -1 => Deliver(Nil)
      <3>1. n = -1 => ~ (n = NaN \/ n < -1)
        BY <1>0
      <3> HIDE DEF n
      <3> QED
        BY <3>1 DEF ReadArraySize, n
    <2> HIDE DEF n
    <2> QED
      BY <2>1, DeliverIs
  <1>5. n \in Nat => stack' = Append(stack, [want |-> n, got |-> <<>>]) /\ pc' = "peek" /\ result' = result
    <2>1. n \in Nat => ~ (n = NaN \/ n < -1) /\ ~ (n = -1)
      BY <1>0
    <2> HIDE DEF n
    <2> QED
      BY <2>1 DEF ReadArraySize, n
  <1>6. n = NaN => result' = Throws("RangeError") /\ stack' = stack
    <2>1. n = NaN => n # -1
      BY <1>0
    <2> HIDE DEF n
    <2> QED
      BY <2>1 DEF ReadArraySize, Throw, n
  <1> HIDE DEF r, l, n
  <1>7. \/ r.is = "*" /\ r.body \in Seq(Replies) /\ Len(r.body) \in 0 .. Safe
        \/ r = NilArray /\ r.is = "nilArray"
    <2>1. r.is \in {"*", "nilArray"}
      BY <1>1, <1>2 DEF Code
    <2> QED
      BY <1>2, <2>1, ReplyKinds
  <1>8. r.is = "nilArray" => Text(r) = Decimal(-1) /\ Payload(r) = <<>> /\ ValueOf[r] = Nil
    <2>1. r.is = "nilArray" => Text(r) = Decimal(-1) /\ Payload(r) = <<>>
      BY DEF Text, Payload
    <2> QED
      BY <1>2, <2>1, ValueIs
  <1>9. r.is = "*" => Text(r) = Decimal(Len(r.body)) /\ Payload(r) = After(r)[0]
    BY DEF Text, Payload
  <1>10. CASE LineWhole(r, l) /\ r.is = "nilArray"
    <2>1. n = -1
      <3>1. Tail(Line) = Decimal(-1)
        BY <1>8, <1>10 DEF LineWhole
      <3>2. -1 \in -Safe .. Safe
        BY <1>0
      <3> QED
        BY <3>1, <3>2, ReadsBack DEF n
    <2>2. Stream' = l
      BY <1>2, <1>8, <1>10
    <2>3. Delivers(stack, ValueOf[NowAt(fr, stack, sent).node]) /\ Stream' = NowAt(fr, stack, sent).left
      BY <1>3, <1>4, <1>8, <1>10, <2>1, <2>2 DEF r, l
    <2> QED
      BY <1>2, <1>3, <2>3, DeliveredExact
  <1>11. CASE LineWhole(r, l) /\ r.is = "*"
    <2>0. Len(r.body) \in 0 .. Safe
      BY <1>7, <1>11
    <2>1. n = Len(r.body)
      <3>1. Tail(Line) = Decimal(Len(r.body))
        BY <1>9, <1>11 DEF LineWhole
      <3>2. Len(r.body) \in -Safe .. Safe
        BY <1>0, <2>0
      <3> QED
        BY <3>1, <3>2, ReadsBack DEF n
    <2>2. n \in Nat
      BY <1>0, <2>0, <2>1
    <2>3. Stream' = After(Now(fr).node)[0] \o Now(fr).left
      BY <1>2, <1>9, <1>11 DEF r, l
    <2>4. Now(fr).node.is = "*" /\ n = Len(Now(fr).node.body)
      BY <1>11, <2>1 DEF r
    <2> QED
      BY <1>2, <1>5, <2>2, <2>3, <2>4, ArrayBegins
  <1>12. CASE LineCut(r, l)
    <2>0. eof' /\ buf' = <<>> /\ ~ Whole
      BY <1>2, <1>12
    <2> DEFINE m == IF r.is = "nilArray" THEN -1 ELSE Len(r.body)
    <2>1. Text(r) = Decimal(m) /\ m \in -1 .. Safe
      BY <1>0, <1>7, <1>8, <1>9
    <2>2. (m = -1 => r.is = "nilArray") /\ (m \in Nat => r.is = "*" /\ m = Len(r.body))
      BY <1>0, <1>7
    <2> HIDE DEF m
    <2>3. PICK p, e, s : TornText(p, e, s, Decimal(m)) /\ Tail(Line) = p \o s
      BY <1>12, <2>1 DEF LineCut
    <2>4. \/ ParseInt(p \o s) = NaN
          \/ m = -1 /\ ParseInt(p \o s) = -1
          \/ m \in Nat /\ ParseInt(p \o s) \in Nat /\ (ParseInt(p \o s) = 0 => m = 0)
      BY <2>1, <2>3, TornNumber
    <2>5. n = ParseInt(p \o s)
      BY <2>3 DEF n
    <2>6. CASE m = -1 /\ n = -1
      <3>1. Delivers(stack, Nil) /\ Nil = ValueOf[r]
        BY <1>4, <1>8, <2>2, <2>6
      <3>2. Nil.is # "pending"
        BY DEF Nil
      <3>3. Nil = ValueOf[NowAt(fr, stack, sent).node]
        BY <1>3, <3>1 DEF r
      <3> QED
        BY <1>2, <1>3, <2>0, <3>1, <3>2, <3>3, DeliveredTorn
    <2>7. CASE n = NaN
      BY <1>2, <1>6, <2>0, <2>7, Thrown
    <2>8. CASE m \in Nat /\ n \in Nat /\ (n = 0 => m = 0)
      <3>1. Now(fr).node.is = "*" /\ (n = 0 => Len(Now(fr).node.body) = 0)
        BY <2>2, <2>8 DEF r
      <3> QED
        BY <1>2, <1>5, <2>0, <2>8, <3>1, ArrayBegins
    <2> QED
      BY <2>4, <2>5, <2>6, <2>7, <2>8
  <1> QED
    BY <1>2, <1>7, <1>10, <1>11, <1>12

\* An exact array that is complete is the value of the reply.
LEMMA WholeArray ==
    ASSUME NEW V, NEW f \in Frames, f.node.is = "*", NEW a \in Entries(V), Exact(f, a), Len(a.got) = a.want
    PROVE  /\ Array(a.got) = ValueOf[f.node]
           /\ After(f.node)[Len(a.got)] \o f.left = f.left
  <1>1. f.node \in Replies /\ f.left \in Seq(Symbols)
    BY DEF Frames
  <1> DEFINE r == f.node
             got == a.got
             vals == [i \in DOMAIN r.body |-> ValueOf[r.body[i]]]
  <1>2. r \in Replies /\ r.body \in Seq(Replies) /\ Len(r.body) \in Nat /\ DOMAIN r.body = 1 .. Len(r.body)
    BY <1>1, ReplyKinds DEF Nil, NilArray
  <1>3. got \in Seq(V) /\ Len(got) = Len(r.body) /\ \A i \in 1 .. Len(got) : got[i] = ValueOf[r.body[i]]
    BY DEF Exact, Entries
  <1>4. got = vals
    <2>1. got = [i \in 1 .. Len(got) |-> got[i]]
      BY <1>3
    <2>2. vals = [i \in 1 .. Len(got) |-> ValueOf[r.body[i]]]
      BY <1>2, <1>3
    <2> HIDE DEF got, vals, r
    <2> QED
      BY <1>3, <2>1, <2>2
  <1>5. ValueOf[r] = Array(vals)
    BY <1>1, ValueIs
  <1>6. After(r)[Len(got)] = <<>>
    BY <1>1, <1>3, AfterIs
  <1>7. <<>> \o f.left = f.left
    BY <1>1
  <1> QED
    BY <1>4, <1>5, <1>6, <1>7

\* The last element of an array is there.
LEMMA ArrayDoneStep ==
    ASSUME NEW V, TypeOK(V), result = Pending, NEW fr, Live(fr) \/ Drained(fr), ArrayDone
    PROVE  IInv'
  <1> DEFINE st == Front(stack)
             v == Array(Last(stack).got)
  <1>1. /\ pc = "peek" /\ ArrayIsComplete
        /\ sent' = sent /\ rest' = rest /\ eof' = eof /\ buf' = buf /\ pc' = pc
        /\ IF st = <<>> THEN result' = v /\ stack' = stack
           ELSE stack' = [st EXCEPT ![Len(st)].got = Append(@, v)] /\ result' = result
    BY DEF ArrayDone, CanGoOn
  <1>2. stack # <<>> /\ Len(Last(stack).got) = Last(stack).want /\ stack \in Seq(Entries(V))
    BY <1>1 DEF ArrayIsComplete, TypeOK
  <1>3. Linked(fr, stack, sent)
    BY DEF Live, Drained
  <1>4. /\ st \in Seq(Entries(V)) /\ Reading(fr, st, sent)
        /\ NowAt(fr, st, sent) = fr[Len(stack)]
        /\ Last(stack) = stack[Len(stack)] /\ stack[Len(stack)] \in Entries(V)
    BY <1>2, <1>3, PopOff
  <1>5. Delivers(st, v)
    BY <1>1 DEF Delivers, Put
  <1>6. v.is # "pending"
    BY DEF Array
  <1>7. Feeds
    BY <1>1 DEF Feeds, TypeOK
  <1>8. PICK f, a : f = fr[Len(stack)] /\ a = stack[Len(stack)]
    OBVIOUS
  <1>9. a \in Entries(V) /\ v = Array(a.got) /\ Len(a.got) = a.want /\ Innermost = a
    BY <1>2, <1>4, <1>8 DEF Innermost
  <1>10. f \in Frames /\ f.node.is = "*" /\ NowAt(fr, st, sent) = f
    <2>1. Len(stack) \in 1 .. Len(stack)
      BY <1>2
    <2>2. Parent(f, sent)
      BY <1>3, <1>8, <2>1 DEF Linked
    <2> QED
      BY <1>4, <1>8, <2>2 DEF Parent
  <1>11. Exact(f, a) => v = ValueOf[f.node] /\ After(f.node)[Len(a.got)] \o f.left = f.left
    BY <1>9, <1>10, WholeArray
  <1> HIDE DEF st, v
  <1>12. CASE Live(fr)
    <2>1. AtPeek(fr)
      BY <1>1, <1>12 DEF Live, AtLine, AtBody, AtCRLF
    <2>2. Exact(f, a)
      BY <1>2, <1>8, <1>9, <2>1 DEF AtPeek
    <2>3. Todo(fr, stack, sent) = After(f.node)[Len(a.got)] \o f.left
      BY <1>2, <1>8 DEF Todo
    <2>4. Stream' = f.left
      <3>1. Stream' = Stream
        BY <1>1 DEF Stream
      <3> QED
        BY <1>11, <2>1, <2>2, <2>3, <3>1 DEF AtPeek
    <2>5. Delivers(st, ValueOf[NowAt(fr, st, sent).node]) /\ Stream' = NowAt(fr, st, sent).left
      BY <1>5, <1>10, <1>11, <2>2, <2>4
    <2> QED
      BY <1>4, <1>7, <2>5, DeliveredExact
  <1>13. CASE Drained(fr)
    <2>1. eof' /\ buf' = <<>> /\ ~ Whole
      BY <1>1, <1>13 DEF Drained
    <2>2. Exact(f, a) \/ Excused(f, sent)
      BY <1>1, <1>8, <1>9, <1>13 DEF Drained
    <2>3. v = ValueOf[NowAt(fr, st, sent).node] \/ Excused(NowAt(fr, st, sent), sent)
      BY <1>10, <1>11, <2>2
    <2> QED
      BY <1>4, <1>5, <1>6, <1>7, <2>1, <2>3, DeliveredTorn
  <1> QED
    BY <1>12, <1>13

\* A step in which nothing changes.
LEMMA Kept == ASSUME IInv, UNCHANGED vars PROVE IInv'
  <1>1. sent' = sent /\ rest' = rest /\ eof' = eof /\ buf' = buf /\ pc' = pc /\ code' = code
        /\ size' = size /\ data' = data /\ stack' = stack /\ result' = result
    BY DEF vars
  <1>2. Stream' = Stream /\ Whole' = Whole /\ ArrayIsComplete' = ArrayIsComplete
        /\ Innermost' = Innermost
    BY <1>1 DEF Stream, Whole, ArrayIsComplete, Innermost
  <1>3. PICK V : TypeOK(V)
    BY DEF IInv
  <1>4. TypeOK(V)'
    BY <1>1, <1>3 DEF TypeOK
  <1>5. CASE result = Pending
    <2>1. PICK fr : Live(fr) \/ Drained(fr)
      BY <1>5 DEF IInv
    <2>2. Now(fr)' = Now(fr)
      BY <1>1 DEF Now
    <2>3. Live(fr) => Live(fr)'
      <3>1. AtPeek(fr) => AtPeek(fr)'
        BY <1>1, <1>2 DEF AtPeek
      <3>2. AtLine(fr) => AtLine(fr)'
        BY <1>1, <1>2, <2>2 DEF AtLine
      <3>3. AtBody(fr) => AtBody(fr)'
        BY <1>1, <1>2, <2>2 DEF AtBody
      <3>4. AtCRLF(fr) => AtCRLF(fr)'
        BY <1>1, <1>2, <2>2 DEF AtCRLF
      <3> QED
        BY <1>1, <3>1, <3>2, <3>3, <3>4 DEF Live
    <2>4. Drained(fr) => Drained(fr)'
      BY <1>1, <1>2 DEF Drained
    <2> QED
      BY <1>1, <1>4, <1>5, <2>1, <2>3, <2>4 DEF IInv
  <1>6. CASE result # Pending
    <2>1. Final
      BY <1>6 DEF IInv
    <2>2. Final'
      BY <1>1, <1>2, <2>1 DEF Final
    <2> QED
      BY <1>1, <1>4, <1>6, <2>2 DEF IInv
  <1> QED
    BY <1>5, <1>6

\* Before the first step.
LEMMA InitInv == ASSUME Init PROVE IInv
  <1>0. PICK r \in Sent, a \in NextBytes :
            \E n \in 0 .. Len(Encode[r] \o a) :
                /\ sent = [reply |-> r, after |-> a, length |-> n]
                /\ rest = SubSeq(Encode[r] \o a, 1, n)
    BY DEF Init
  <1>1. PICK n \in 0 .. Len(Encode[r] \o a) :
            /\ sent = [reply |-> r, after |-> a, length |-> n]
            /\ rest = SubSeq(Encode[r] \o a, 1, n)
    BY <1>0
  <1>2. eof = FALSE /\ buf = <<>> /\ pc = "peek" /\ stack = <<>> /\ result = Pending
    BY DEF Init
  <1>3. r \in Replies /\ a \in Seq(Symbols)
    BY ReplyAssumption
  <1> DEFINE w == Encode[r] \o a
             c == CutOff(sent)
  <1>4. IsSent(sent)
    <2>1. sent.reply = r /\ sent.after = a /\ sent.length = n
      BY <1>1
    <2> QED
      BY <1>1, <1>3, <2>1 DEF IsSent
  <1>5. w \in Seq(Symbols)
    <2> DEFINE e == Encode[r]
    <2>1. e \in Seq(Symbols)
      BY <1>3, EncodeType
    <2> HIDE DEF e
    <2>2. Strings(e, a, a)
      BY <1>3, <2>1 DEF Strings
    <2>3. e \o a \in Seq(Symbols)
      BY ONLY <2>2, Joined
    <2> QED
      BY <2>3 DEF e
  <1>6. c = SubSeq(w, n + 1, Len(w)) /\ rest = SubSeq(w, 1, n) /\ n \in 0 .. Len(w)
    BY <1>1 DEF CutOff
  <1>7. Encode[sent.reply] \o sent.after = w
    BY <1>1
  <1> HIDE DEF w, c
  <1>8. rest \in Seq(Symbols) /\ c \in Seq(Symbols) /\ rest \o c = w
    BY <1>5, <1>6, CutAt
  <1>9. Stream = w
    <2>1. <<>> \o w = w
      BY <1>5
    <2> QED
      BY <1>2, <1>8, <2>1 DEF Stream, c
  <1>10. TypeOK({})
    <2>1. <<>> \in Seq(Symbols) /\ <<>> \in Seq(Entries({}))
      OBVIOUS
    <2> QED
      BY <1>2, <1>4, <1>8, <2>1 DEF TypeOK
  <1>11. \A fr : Live(fr)
    <2> TAKE fr
    <2>1. Linked(fr, stack, sent)
      <3>1. Len(<<>>) = 0
        OBVIOUS
      <3>2. 1 .. 0 = {} /\ 1 .. 0 - 1 = {}
        OBVIOUS
      <3> QED
        BY <1>2, <3>1, <3>2 DEF Linked
    <2>2. AtPeek(fr)
      BY <1>2, <1>7, <1>9 DEF AtPeek, Todo
    <2> QED
      BY <2>1, <2>2 DEF Live
  <1> QED
    BY <1>2, <1>10, <1>11 DEF IInv

\* Every step.
LEMMA NextInv == ASSUME IInv, Next PROVE IInv'
  <1>1. result = Pending
    BY DEF Next, Fill, Ended, Decode, Peek, ReadSimple, ReadBulkSize, ReadBulk, ReadArraySize,
           ArrayDone, CanGoOn
  <1>2. PICK V : TypeOK(V)
    BY DEF IInv
  <1>3. PICK fr : Live(fr) \/ Drained(fr)
    BY <1>1 DEF IInv
  <1>4. CASE Fill
    BY <1>1, <1>2, <1>3, <1>4, FillStep
  <1>5. CASE Ended
    BY <1>1, <1>2, <1>3, <1>5, EndedStep
  <1>6. CASE Peek
    BY <1>1, <1>2, <1>3, <1>6, PeekStep
  <1>7. CASE ReadSimple
    BY <1>1, <1>2, <1>3, <1>7, ReadSimpleStep
  <1>8. CASE ReadBulkSize
    BY <1>1, <1>2, <1>3, <1>8, ReadBulkSizeStep
  <1>9. CASE ReadBulk
    BY <1>1, <1>2, <1>3, <1>9, ReadBulkStep
  <1>10. CASE ReadArraySize
    BY <1>1, <1>2, <1>3, <1>10, ReadArraySizeStep
  <1>11. CASE ArrayDone
    BY <1>1, <1>2, <1>3, <1>11, ArrayDoneStep
  <1> QED
    BY <1>4, <1>5, <1>6, <1>7, <1>8, <1>9, <1>10, <1>11 DEF Next, Decode

\* The invariant of readReply(): what it has decoded is what was sent, or the
\* stream has ended in the line it has just read.
THEOREM DecoderInvariance == Spec => []IInv
  <1>1. Init => IInv
    BY InitInv
  <1>2. IInv /\ [Next]_vars => IInv'
    BY NextInv, Kept
  <1> QED
    BY <1>1, <1>2, PTL DEF Spec

\* A part of the reply is missing from the buffer.
LEMMA StillComing ==
    ASSUME NEW V, TypeOK(V), NEW fr, Reading(fr, stack, sent),
           NEW x \in Seq(Symbols), Stream = x \o Now(fr).left, Len(buf) < Len(x)
    PROVE  sent.length - Len(rest) < Len(Encode[sent.reply])
  <1>1. IsSent(sent) /\ stack \in Seq(Entries(V)) /\ buf \in Seq(Symbols)
    BY DEF TypeOK
  <1>2. Now(fr) \in Frames /\ Len(Now(fr).left) >= Len(sent.after)
    BY <1>1, NowIs DEF Now
  <1> DEFINE c == CutOff(sent)
             z == rest \o c
             y == Now(fr).left
  <1>3. y \in Seq(Symbols) /\ z \in Seq(Symbols) /\ Len(z) = Len(rest) + Len(c)
        /\ Len(rest) \in Nat /\ Len(c) \in Nat
    BY <1>1, <1>2, StreamIs DEF Frames
  <1>4. Splits(buf, z, x, y)
    BY <1>1, <1>3 DEF Splits, Stream
  <1> HIDE DEF z
  <1>5. Len(z) > Len(y) /\ Len(y) \in Nat
    BY <1>4, TakenLess
  <1>6. Len(c) = Len(Encode[sent.reply]) + Len(sent.after) - sent.length
        /\ Len(Encode[sent.reply]) \in Nat /\ sent.length \in Nat /\ Len(sent.after) \in Nat
    BY <1>1, RootIs
  <1> HIDE DEF c, y
  <1>7. Len(y) >= Len(sent.after)
    BY <1>2 DEF y
  <1> DEFINE E == Len(Encode[sent.reply])
             A == Len(sent.after)
             N == sent.length
             Z == Len(z)
             R == Len(rest)
             C == Len(c)
             Y == Len(y)
  <1>8. Z = R + C /\ R \in Nat /\ C \in Nat /\ Z > Y /\ Y \in Nat
        /\ C = E + A - N /\ E \in Nat /\ N \in Nat /\ A \in Nat /\ Y >= A
    BY <1>3, <1>5, <1>6, <1>7 DEF c, y
  <1> HIDE DEF E, A, N, Z, R, C, Y
  <1>9. N - R < E
    BY <1>8
  <1> QED
    BY <1>9 DEF N, R, E

\* From the invariant: when readReply() waits, a byte of the reply is on its way.
LEMMA NeverWaitsInv == ASSUME IInv PROVE NeverWaitsForMore
  <1> SUFFICES ASSUME result = Pending, ~ eof, ~ Satisfied
               PROVE  sent.length - Len(rest) < Len(Encode[sent.reply])
    BY DEF NeverWaitsForMore
  <1>1. PICK V : TypeOK(V)
    BY DEF IInv
  <1>2. PICK fr : Live(fr)
    BY DEF IInv, Drained
  <1>3. Linked(fr, stack, sent) /\ (AtPeek(fr) \/ AtLine(fr) \/ AtBody(fr) \/ AtCRLF(fr))
    BY <1>2 DEF Live
  <1> DEFINE r == Now(fr).node
             l == Now(fr).left
             w == Encode[r]
  <1>4. Len(buf) \in Nat /\ buf \in Seq(Symbols)
    BY <1>1 DEF TypeOK
  <1>5. ASSUME Reading(fr, stack, sent)
        PROVE  /\ r \in Replies /\ l \in Seq(Symbols) /\ w \in Seq(Symbols)
               /\ Len(w) = Len(Text(r)) + 3 + Len(Payload(r))
               /\ Len(Text(r)) \in Nat /\ Len(Payload(r)) \in Nat
    BY <1>1, <1>5, NowTyped, EncodeType, EncodeLeft
  <1>6. CASE AtPeek(fr)
    <2>1. pc = "peek"
      BY <1>6 DEF AtPeek
    <2>2. ~ ArrayIsComplete /\ Len(buf) < 1
      BY <1>4, <2>1 DEF Satisfied, Wanted
    <2>3. Reading(fr, stack, sent) /\ Stream = w \o l
      BY <1>1, <1>3, <1>6, <2>2, AtReply
    <2>4. w \in Seq(Symbols) /\ Len(buf) < Len(w)
      BY <1>4, <1>5, <2>2, <2>3
    <2> HIDE DEF w
    <2> QED
      BY <1>1, <2>3, <2>4, StillComing
  <1>7. CASE AtLine(fr)
    <2>1. pc = "line" /\ Reading(fr, stack, sent) /\ Stream = w \o l /\ buf # <<>>
      BY <1>7 DEF AtLine
    <2>2. FindCRLF(buf) = 0
      BY <2>1 DEF Satisfied
    <2> DEFINE z == rest \o CutOff(sent)
               c == Code(r)
               t == Text(r)
               x == Payload(r) \o l
    <2>3. r \in Replies /\ l \in Seq(Symbols) /\ w \in Seq(Symbols)
      BY <1>5, <2>1
    <2>4. z \in Seq(Symbols) /\ buf \o z = w \o l
      BY <1>1, <2>1, StreamIs DEF Stream
    <2>5. w \o l = (<<c>> \o t) \o (CRLF \o x) /\ x \in Seq(Symbols)
      BY <2>3, EncodeLeft
    <2>6. c \in LineSymbols /\ t \in Seq(LineSymbols)
      BY <2>3, LineIs
    <2>7. LineThere(buf, z, c, t, x)
      BY <1>4, <2>1, <2>4, <2>5, <2>6 DEF LineThere
    <2> HIDE DEF z, c, x
    <2>8. ~ (Len(t) + 3 <= Len(buf))
      <3> SUFFICES ASSUME Len(t) + 3 <= Len(buf) PROVE FALSE
        OBVIOUS
      <3> HIDE DEF t
      <3>1. Found(buf, z, c, t, x)
        BY <2>7, LineFound
      <3> QED
        BY <2>2, <3>1 DEF Found
    <2>9. Len(buf) < Len(w)
      BY <1>4, <1>5, <2>1, <2>8
    <2> HIDE DEF w
    <2> QED
      BY <1>1, <2>1, <2>3, <2>9, StillComing
  <1>8. CASE AtBody(fr)
    <2> DEFINE b == r.body
               x == b \o CRLF
    <2>1. /\ pc = "body" /\ Reading(fr, stack, sent) /\ r.is = "$"
          /\ size = Len(b) /\ Stream = b \o (CRLF \o l)
      BY <1>8 DEF AtBody
    <2>2. r \in Replies /\ l \in Seq(Symbols)
      BY <1>5, <2>1
    <2>3. b \in Seq(Symbols)
      BY <2>1, <2>2, ReplyKinds DEF Nil, NilArray
    <2>4. CRLF \in Seq(Symbols) /\ Len(CRLF) = 2
      BY Marks
    <2> HIDE DEF b
    <2>5. Strings(b, CRLF, CRLF) /\ Strings(b, CRLF, l)
      BY <2>2, <2>3, <2>4 DEF Strings
    <2>6. x \in Seq(Symbols) /\ Len(x) = Len(b) + Len(CRLF) /\ Len(b) \in Nat
      BY ONLY <2>5, Joined
    <2> HIDE DEF l
    <2>7. x \o l = b \o (CRLF \o l)
      BY ONLY <2>5, Regroup
    <2>8. Stream = x \o Now(fr).left
      BY <2>1, <2>7 DEF l
    <2>9. Len(buf) < Len(b)
      BY <1>4, <2>1, <2>6 DEF Satisfied, Wanted
    <2> HIDE DEF x
    <2>10. Len(buf) < Len(x)
      BY <1>4, <2>4, <2>6, <2>9
    <2> QED
      BY <1>1, <2>1, <2>6, <2>8, <2>10, StillComing
  <1>9. CASE AtCRLF(fr)
    <2>1. pc = "crlf" /\ Reading(fr, stack, sent) /\ Stream = CRLF \o l
      BY <1>9 DEF AtCRLF
    <2>2. Len(buf) < 2
      BY <1>4, <2>1 DEF Satisfied, Wanted
    <2>3. CRLF \in Seq(Symbols) /\ Len(buf) < Len(CRLF)
      BY <2>2, Marks
    <2> QED
      BY <1>1, <2>1, <2>3, StillComing
  <1> QED
    BY <1>3, <1>6, <1>7, <1>8, <1>9

\* From the invariant: only a status or an integer at the end of a reply is ever
\* taken for another value.
LEMMA TornInv == ASSUME IInv PROVE TornOnlyInLastLine
  <1> SUFFICES ASSUME IsValue(result), ~ Whole, result # ValueOf[sent.reply]
               PROVE  Len(Encode[sent.reply]) - sent.length < LastLine[sent.reply]
    BY DEF TornOnlyInLastLine
  <1>1. result # Pending
    BY DEF IsValue, Pending
  <1>2. Excused(Root(sent), sent)
    BY <1>1 DEF IInv, Final
  <1>3. PICK V : TypeOK(V)
    BY DEF IInv
  <1>4. /\ Len(CutOff(sent)) = Len(Encode[sent.reply]) + Len(sent.after) - sent.length
        /\ Len(Encode[sent.reply]) \in Nat /\ sent.length \in Nat /\ Len(sent.after) \in Nat
        /\ Root(sent).node = sent.reply /\ Root(sent).left = sent.after
    BY <1>3, RootIs DEF TypeOK
  <1>5. Len(CutOff(sent)) - Len(sent.after) < LastLine[sent.reply]
    BY <1>2, <1>4 DEF Excused
  <1>6. Len(CutOff(sent)) - Len(sent.after) = Len(Encode[sent.reply]) - sent.length
    BY <1>4
  <1> QED
    BY <1>5, <1>6

\* From the invariant: the bytes dropped and those not read are those after the reply.
LEMMA DecodesInv == ASSUME IInv PROVE DecodesWhatWasSent
  <1> SUFFICES ASSUME result # Pending, Whole, ~ HoldsError(sent.reply)
               PROVE  /\ result = ValueOf[sent.reply]
                      /\ buf \o rest = SubSeq(Bytes, Len(Encode[sent.reply]) + 1, sent.length)
    BY DEF DecodesWhatWasSent, Dropped
  <1>1. result = ValueOf[sent.reply] /\ Stream = sent.after
    BY DEF IInv, Final
  <1>2. PICK V : TypeOK(V)
    BY DEF IInv
  <1> DEFINE e == Encode[sent.reply]
             w == Bytes
             n == sent.length
             c == CutOff(sent)
             u == buf \o rest
             k == Len(e)
             p == SubSeq(w, 1, n)
             g == e \o u
  <1>3. IsSent(sent) /\ buf \in Seq(Symbols) /\ rest \in Seq(Symbols)
    BY <1>2 DEF TypeOK
  <1>4. /\ w \in Seq(Symbols) /\ w = e \o sent.after /\ c \in Seq(Symbols) /\ n \in 0 .. Len(w)
        /\ c = SubSeq(w, n + 1, Len(w)) /\ n >= k /\ k \in Nat
    BY <1>3, RootIs DEF Bytes, CutOff, IsSent, Whole
  <1>5. e \in Seq(Symbols)
    BY <1>3, EncodeType DEF IsSent
  <1> HIDE DEF e, w, n, c, u
  <1>6. u \in Seq(Symbols) /\ u \o c = sent.after
    <2>1. Strings(buf, rest, rest) /\ Strings(buf, rest, c)
      BY <1>3, <1>4 DEF Strings
    <2>2. u \in Seq(Symbols)
      BY ONLY <2>1, Joined DEF u
    <2>3. u \o c = buf \o (rest \o c)
      BY ONLY <2>1, Regroup DEF u
    <2> QED
      BY <1>1, <2>2, <2>3 DEF Stream, c
  <1>7. g \in Seq(Symbols) /\ Len(g) = k + Len(u) /\ g \o c = w
    <2>1. Strings(e, u, u) /\ Strings(e, u, c)
      BY <1>4, <1>5, <1>6 DEF Strings
    <2>2. e \o u \in Seq(Symbols) /\ Len(e \o u) = Len(e) + Len(u)
      BY ONLY <2>1, Joined
    <2>3. (e \o u) \o c = e \o (u \o c)
      BY ONLY <2>1, Regroup
    <2> QED
      BY <1>4, <1>6, <2>2, <2>3
  <1>8. p \in Seq(Symbols) /\ Len(p) = n /\ p \o c = w /\ Len(c) = Len(w) - n
    BY <1>4, CutAt
  <1> HIDE DEF g, p
  <1>9. p = g
    <2>1. Strings(g, c, c)
      BY <1>4, <1>7 DEF Strings
    <2>2. Len(g \o c) = Len(g) + Len(c) /\ Len(g) \in Nat /\ Len(c) \in Nat
      BY ONLY <2>1, Joined
    <2>3. Len(g) = Len(p)
      <3>1. Len(w) = Len(g) + Len(c)
        BY <1>7, <2>2
      <3>2. n \in Nat /\ Len(w) \in Nat
        BY <1>4
      <3> QED
        BY <1>8, <2>2, <3>1, <3>2
    <2>4. Splits(p, c, g, c)
      BY <1>4, <1>7, <1>8 DEF Splits
    <2> QED
      BY <2>3, <2>4, SplitAt
  <1>10. SubSeq(w, k + 1, n) = u
    <2> DEFINE q == SubSeq(w, k + 1, n)
    <2>1. Len(u) = n - k /\ Len(u) \in Nat
      BY <1>4, <1>6, <1>7, <1>8, <1>9
    <2>2. \A i \in 1 .. n : w[i] = g[i]
      <3>1. \A i \in 1 .. n : p[i] = w[i]
        BY <1>4, CutAt DEF p
      <3> QED
        BY <1>9, <3>1
    <2>3. \A i \in 1 .. Len(u) : g[k + i] = u[i]
      <3> TAKE i \in 1 .. Len(u)
      <3>1. k + i \in 1 .. Len(e) + Len(u) /\ ~ (k + i <= Len(e)) /\ (k + i) - Len(e) = i
        BY <1>4, <2>1
      <3>2. (e \o u)[k + i] = u[(k + i) - Len(e)]
        BY <1>5, <1>6, <3>1, ConcatProperties
      <3> QED
        BY <3>1, <3>2 DEF g
    <2>4. k + 1 \in 1 .. Len(w) + 1 /\ n \in k .. Len(w)
      BY <1>4
    <2>5. /\ q \in Seq(Symbols) /\ Len(q) = n - k
          /\ \A i \in 1 .. n - k : q[i] = w[k + i]
      <3>1. q \in Seq(Symbols) /\ Len(q) = n - k
        BY <1>4, <2>4
      <3>2. \A i \in 1 .. n - k : q[i] = w[(k + 1) + i - 1]
        BY <1>4, <2>4
      <3>3. \A i \in 1 .. n - k : (k + 1) + i - 1 = k + i
        BY <1>4
      <3> QED
        BY <3>1, <3>2, <3>3
    <2> HIDE DEF q
    <2>6. \A i \in 1 .. Len(u) : q[i] = u[i]
      <3> TAKE i \in 1 .. Len(u)
      <3>1. i \in 1 .. n - k /\ k + i \in 1 .. n
        BY <1>4, <2>1
      <3> QED
        BY <2>2, <2>3, <2>5, <3>1
    <2>7. q = u
      BY <1>6, <2>1, <2>5, <2>6, SeqEqual
    <2> QED
      BY <2>7 DEF q
  <1> QED
    BY <1>1, <1>10 DEF w, n, u, e

\* However the bytes of a reply arrive, readReply() returns what was sent and leaves
\* no byte of it; what follows is dropped as far as it came in the same chunk, and is
\* still on the socket otherwise: for all replies, of any length and depth.
THEOREM DecodedAsSent == Spec => []DecodesWhatWasSent
  BY DecoderInvariance, DecodesInv, PTL

\* readReply() never waits for a byte the server does not owe it: no deadlock of a
\* client that waits for a reply it already has.
THEOREM NeverWaits == Spec => []NeverWaitsForMore
  BY DecoderInvariance, NeverWaitsInv, PTL

\* A stream that ends inside a reply is mistaken for another reply only in a
\* status or an integer it ends with: never in a bulk string or an array.
THEOREM TornAtTheEndOnly == Spec => []TornOnlyInLastLine
  BY DecoderInvariance, TornInv, PTL

=============================================================================
