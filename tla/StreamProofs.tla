---------------------------- MODULE StreamProofs ----------------------------
(***************************************************************************)
(* Theorems about ids that go from the server through stream.ts to a       *)
(* caller and back: a reader takes every entry once, and what a worker     *)
(* holds is what its group has pending, for any ids, entries and counts.   *)
(* Then about what else the replies say: an entry with all its fields, and *)
(* each field of XINFO and XPENDING under its name.                        *)
(***************************************************************************)
EXTENDS StreamReplies, TLAPS, WellFoundedInduction, FiniteSetTheorems

Pairs == Nat \X Nat

-----------------------------------------------------------------------------
(* Induction over numbers without an induction rule: of the numbers for     *)
(* which something fails, one would be the least.                           *)

\* A set that holds 0, and the successor of each number it holds, holds them all.
LEMMA LeastCounterexample ==
    ASSUME NEW Good, 0 \in Good, \A n \in Nat : n \in Good => n + 1 \in Good
    PROVE  Nat \subseteq Good
  <1> DEFINE Bad == Nat \ Good
             R == OpToRel(<, Nat)
  <1> SUFFICES ASSUME Bad # {} PROVE FALSE
    OBVIOUS
  <1>1. PICK n \in Bad : \A m \in Bad : <<m, n>> \notin R
    BY WFMin, NatLessThanWellFounded
  <1>2. \A m \in Nat : m < n => m \in Good
    BY <1>1 DEF OpToRel
  <1>3. n - 1 \in Nat /\ n - 1 < n /\ (n - 1) + 1 = n
    <2>1. n \in Nat /\ n # 0
      BY <1>1
    <2> QED
      BY <2>1
  <1> QED
    BY <1>1, <1>2, <1>3

-----------------------------------------------------------------------------
(* The loops of the conversions.  A recursive function is a CHOOSE: that    *)
(* there is one to choose is an induction over its argument.               *)

\* g holds what a loop of n steps has computed after each of them.
Steps(n, Values) == [1..n -> [Values -> Values]]
Runs(g, n, Values, first, step) ==
    /\ g \in [0..n -> Values]
    /\ g[0] = first /\ \A m \in 1..n : g[m] = step[m][g[m - 1]]

\* A recursive function whose values stay in a set exists.
LEMMA LoopExists ==
    ASSUME NEW Values, NEW first \in Values, NEW n \in Nat, NEW step \in Steps(n, Values)
    PROVE  \E g : Runs(g, n, Values, first, step)
  <1> USE DEF Steps
  <1> DEFINE Loop(g, top) ==
                 g[0] = first /\ \A m \in 1..top : g[m] = step[m][g[m - 1]]
             Good == {top \in Nat : top <= n => \E g \in [0..top -> Values] : Loop(g, top)}
  <1>1. 0 \in Good
    <2>1. [m \in 0..0 |-> first] \in [0..0 -> Values] /\ Loop([m \in 0..0 |-> first], 0)
      OBVIOUS
    <2> QED
      BY <2>1
  <1>2. ASSUME NEW top \in Nat, top \in Good PROVE top + 1 \in Good
    <2> SUFFICES ASSUME top + 1 <= n PROVE \E g \in [0 .. top + 1 -> Values] : Loop(g, top + 1)
      OBVIOUS
    <2>1. PICK g \in [0..top -> Values] : Loop(g, top)
      BY <1>2
    <2> DEFINE h == [m \in 0 .. top + 1 |-> IF m = top + 1 THEN step[top + 1][g[top]] ELSE g[m]]
    <2>2. g[top] \in Values /\ step[top + 1] \in [Values -> Values]
      OBVIOUS
    <2>3. step[top + 1][g[top]] \in Values
      BY <2>2
    <2>4. h \in [0 .. top + 1 -> Values]
      BY <2>3
    <2>5. \A m \in 0..top : h[m] = g[m]
      OBVIOUS
    <2>6. h[top + 1] = step[top + 1][g[top]]
      OBVIOUS
    <2> HIDE DEF h
    <2>7. h[0] = first
      BY <2>1, <2>5
    <2>8. ASSUME NEW m \in 1 .. top + 1 PROVE h[m] = step[m][h[m - 1]]
      <3>1. CASE m = top + 1
        <4>1. m - 1 = top /\ top \in 0..top
          BY <3>1
        <4> QED
          BY <2>5, <2>6, <3>1, <4>1
      <3>2. CASE m # top + 1
        <4>1. m \in 1..top /\ m \in 0..top /\ m - 1 \in 0..top
          BY <3>2
        <4> QED
          BY <2>1, <2>5, <4>1
      <3> QED
        BY <3>1, <3>2
    <2> QED
      BY <2>4, <2>7, <2>8
  <1> HIDE DEF Good
  <1>3. n \in Good
    BY <1>1, <1>2, LeastCounterexample
  <1> QED
    BY <1>3 DEF Good, Runs

\* The loop of Pushed(), as far as it is gone.
PushLoop(raws, passes, g) ==
    g = [n \in 0..Len(raws) |->
            IF n = 0 THEN <<>>
            ELSE IF passes[n] THEN Append(g[n - 1], raws[n]) ELSE g[n - 1]]

LEMMA PushedLoops ==
    ASSUME NEW S, NEW raws \in Seq(S), NEW passes
    PROVE  \E g \in [0..Len(raws) -> Seq(S)] :
               PushLoop(raws, passes, g) /\ Pushed(raws, passes) = g[Len(raws)]
  <1> DEFINE n == Len(raws)
             step == [m \in 1..n |-> [v \in Seq(S) |->
                         IF passes[m] THEN Append(v, raws[m]) ELSE v]]
             w == CHOOSE g : PushLoop(raws, passes, g)
  <1>1. n \in Nat /\ \A m \in 1..n : raws[m] \in S
    OBVIOUS
  <1>2. step \in [1..n -> [Seq(S) -> Seq(S)]]
    <2>1. \A m \in 1..n, v \in Seq(S) : Append(v, raws[m]) \in Seq(S)
      BY <1>1
    <2> HIDE DEF n
    <2> QED
      BY <2>1
  <1>3. <<>> \in Seq(S)
    OBVIOUS
  <1>4. PICK g \in [0..n -> Seq(S)] :
            g[0] = <<>> /\ \A m \in 1..n : g[m] = step[m][g[m - 1]]
    <2> DEFINE V == Seq(S)
               first == <<>>
    <2>1. first \in V /\ n \in Nat /\ step \in Steps(n, V)
      BY <1>1, <1>2, <1>3 DEF Steps
    <2> HIDE DEF step, n, V, first
    <2>2. \E g : Runs(g, n, V, first, step)
      BY <2>1, LoopExists
    <2> QED
      BY <2>2 DEF Runs, V, first
  <1>5. PushLoop(raws, passes, g)
    <2>1. \A m \in 1..n : g[m - 1] \in Seq(S)
      OBVIOUS
    <2>2. \A m \in 1..n : g[m] = IF passes[m] THEN Append(g[m - 1], raws[m]) ELSE g[m - 1]
      BY <1>4, <2>1
    <2>3. g = [m \in 0..n |-> g[m]]
      OBVIOUS
    <2>4. \A m \in 0..n : g[m] = IF m = 0 THEN <<>>
              ELSE IF passes[m] THEN Append(g[m - 1], raws[m]) ELSE g[m - 1]
      <3>1. \A m \in 0..n : m = 0 \/ m \in 1..n
        BY <1>1
      <3> HIDE DEF step, n
      <3> QED
        BY <1>4, <2>2, <3>1
    <2> HIDE DEF step
    <2> QED
      BY <2>3, <2>4 DEF PushLoop
  <1>6. PushLoop(raws, passes, w)
    BY <1>5
  <1>7. Pushed(raws, passes) = w[n]
    BY DEF Pushed, PushLoop
  <1>8. w \in [0..n -> Seq(S)]
    <2>1. \A m \in 0..n : w[m] = IF m = 0 THEN <<>>
              ELSE IF passes[m] THEN Append(w[m - 1], raws[m]) ELSE w[m - 1]
      <3> HIDE DEF w
      <3> QED
        BY <1>6 DEF PushLoop
    <2> HIDE DEF w, n, step
    <2> DEFINE Good == {m \in Nat : m <= n => w[m] \in Seq(S)}
    <2>2. 0 \in Good
      <3>1. w[0] = <<>>
        BY <1>1, <2>1
      <3> QED
        BY <1>3, <3>1
    <2>3. ASSUME NEW m \in Nat, m \in Good PROVE m + 1 \in Good
      <3> SUFFICES ASSUME m + 1 <= n PROVE w[m + 1] \in Seq(S)
        OBVIOUS
      <3>1. w[m] \in Seq(S) /\ m + 1 \in 1..n /\ (m + 1) - 1 = m
        BY <1>1, <2>3
      <3>2. w[m + 1] = IF passes[m + 1] THEN Append(w[m], raws[m + 1]) ELSE w[m]
        BY <2>1, <3>1
      <3>3. Append(w[m], raws[m + 1]) \in Seq(S)
        BY <1>1, <3>1
      <3> QED
        BY <3>1, <3>2, <3>3
    <2> HIDE DEF Good
    <2>4. Nat \subseteq Good
      BY <2>2, <2>3, LeastCounterexample
    <2>5. \A m \in 0..n : w[m] \in Seq(S)
      BY <2>4 DEF Good
    <2>6. w = [m \in 0..n |-> w[m]]
      BY <1>6 DEF PushLoop, n
    <2> QED
      BY <2>5, <2>6
  <1> QED
    BY <1>6, <1>7, <1>8

\* A loop whose test all elements pass, or none.
LEMMA PushedAll ==
    ASSUME NEW S, NEW raws \in Seq(S), NEW passes, \A i \in 1 .. Len(raws) : passes[i]
    PROVE  Pushed(raws, passes) = raws
  <1> DEFINE n == Len(raws)
  <1>1. PICK g \in [0..n -> Seq(S)] : PushLoop(raws, passes, g) /\ Pushed(raws, passes) = g[n]
    BY PushedLoops
  <1>2. \A m \in 0..n : g[m] = IF m = 0 THEN <<>>
            ELSE IF passes[m] THEN Append(g[m - 1], raws[m]) ELSE g[m - 1]
    BY <1>1 DEF PushLoop
  <1>3. n \in Nat /\ \A m \in 1..n : raws[m] \in S
    OBVIOUS
  <1>9. \A m \in 1..n : g[m] = Append(g[m - 1], raws[m])
    BY <1>2
  <1> HIDE DEF n
  <1> DEFINE Good == {m \in Nat : m <= n => Len(g[m]) = m /\ \A i \in 1..m : g[m][i] = raws[i]}
  <1>4. 0 \in Good
    BY <1>2, <1>3
  <1>5. ASSUME NEW m \in Nat, m \in Good PROVE m + 1 \in Good
    <2> SUFFICES ASSUME m + 1 <= n
                 PROVE  Len(g[m + 1]) = m + 1 /\ \A i \in 1 .. m + 1 : g[m + 1][i] = raws[i]
      OBVIOUS
    <2>1. m + 1 \in 1..n /\ (m + 1) - 1 = m /\ m \in 0..n /\ g[m] \in Seq(S)
      BY <1>3
    <2>2. g[m + 1] = Append(g[m], raws[m + 1])
      BY <1>9, <2>1
    <2>3. Len(g[m]) = m /\ \A i \in 1..m : g[m][i] = raws[i]
      BY <1>3, <1>5
    <2>4. raws[m + 1] \in S
      BY <1>3, <2>1
    <2> QED
      BY <2>1, <2>2, <2>3, <2>4
  <1> HIDE DEF Good
  <1>6. n \in Good
    BY <1>3, <1>4, <1>5, LeastCounterexample
  <1>7. g[n] \in Seq(S) /\ Len(g[n]) = n /\ \A i \in 1..n : g[n][i] = raws[i]
    BY <1>3, <1>6 DEF Good
  <1>8. g[n] = raws
    BY <1>7 DEF n
  <1> QED
    BY <1>1, <1>8

LEMMA PushedNone ==
    ASSUME NEW S, NEW raws \in Seq(S), NEW passes, \A i \in 1 .. Len(raws) : ~ passes[i]
    PROVE  Pushed(raws, passes) = <<>>
  <1> DEFINE n == Len(raws)
  <1>1. PICK g \in [0..n -> Seq(S)] : PushLoop(raws, passes, g) /\ Pushed(raws, passes) = g[n]
    BY PushedLoops
  <1>2. \A m \in 0..n : g[m] = IF m = 0 THEN <<>>
            ELSE IF passes[m] THEN Append(g[m - 1], raws[m]) ELSE g[m - 1]
    BY <1>1 DEF PushLoop
  <1>3. n \in Nat
    OBVIOUS
  <1> DEFINE Good == {m \in Nat : m <= n => g[m] = <<>>}
  <1>4. 0 \in Good
    BY <1>2, <1>3
  <1>5. ASSUME NEW m \in Nat, m \in Good PROVE m + 1 \in Good
    BY <1>2, <1>5
  <1> HIDE DEF Good
  <1>6. n \in Good
    BY <1>3, <1>4, <1>5, LeastCounterexample
  <1> QED
    BY <1>1, <1>3, <1>6 DEF Good

-----------------------------------------------------------------------------
(* Ids in their order.                                                     *)

LEMMA Order ==
    ASSUME NEW x \in Pairs, NEW y \in Pairs
    PROVE  /\ ~ Before(x, x)
           /\ Before(x, y) \/ Before(y, x) \/ x = y
           /\ ~ (Before(x, y) /\ Before(y, x))
           /\ \A z \in Pairs : Before(x, y) /\ Before(y, z) => Before(x, z)
  <1>1. /\ x[1] \in Nat /\ x[2] \in Nat /\ y[1] \in Nat /\ y[2] \in Nat
        /\ x = <<x[1], x[2]>> /\ y = <<y[1], y[2]>>
    BY DEF Pairs
  <1>2. ~ Before(x, x)
    BY <1>1 DEF Before
  <1>3. Before(x, y) \/ Before(y, x) \/ x = y
    BY <1>1 DEF Before
  <1>4. ~ (Before(x, y) /\ Before(y, x))
    BY <1>1 DEF Before
  <1>5. ASSUME NEW z \in Pairs, Before(x, y), Before(y, z) PROVE Before(x, z)
    <2>1. z[1] \in Nat /\ z[2] \in Nat
      BY DEF Pairs
    <2> QED
      BY <1>1, <1>5, <2>1 DEF Before
  <1> QED
    BY <1>2, <1>3, <1>4, <1>5

\* The sets of n ids.
OfSize(n) == {S \in SUBSET Pairs : IsFiniteSet(S) /\ Cardinality(S) = n}

LEMMA GreatestExists ==
    \A n \in Nat : \A S \in OfSize(n + 1) :
        \E m \in S : \A y \in S : y = m \/ Before(y, m)
  <1> DEFINE Greatest(S) == \E m \in S : \A y \in S : y = m \/ Before(y, m)
             Good == {n \in Nat : \A S \in OfSize(n + 1) : Greatest(S)}
  <1>1. 0 \in Good
    <2> SUFFICES ASSUME NEW S \in OfSize(0 + 1) PROVE Greatest(S)
      OBVIOUS
    <2>1. PICK m : S = {m}
      BY FS_Singleton DEF OfSize
    <2> QED
      BY <2>1
  <1>2. ASSUME NEW n \in Nat, n \in Good PROVE n + 1 \in Good
    <2> SUFFICES ASSUME NEW S \in OfSize((n + 1) + 1) PROVE Greatest(S)
      OBVIOUS
    <2>1. S \subseteq Pairs /\ IsFiniteSet(S) /\ Cardinality(S) = (n + 1) + 1
      BY DEF OfSize
    <2>2. S # {}
      BY <2>1, FS_EmptySet
    <2>3. PICK x : x \in S
      BY <2>2
    <2>4. S \ {x} \in OfSize(n + 1)
      <3>1. IsFiniteSet(S \ {x}) /\ Cardinality(S \ {x}) = Cardinality(S) - 1
        BY <2>1, <2>3, FS_RemoveElement
      <3>2. Cardinality(S) - 1 = n + 1
        BY <2>1
      <3> QED
        BY <2>1, <3>1, <3>2 DEF OfSize
    <2>5. PICK m \in S \ {x} : \A y \in S \ {x} : y = m \/ Before(y, m)
      BY <1>2, <2>4
    <2>6. x \in Pairs /\ m \in Pairs
      BY <2>1, <2>3
    <2>7. CASE Before(x, m)
      BY <2>5, <2>7
    <2>8. CASE ~ Before(x, m)
      <3>1. Before(m, x)
        BY <2>3, <2>5, <2>6, <2>8, Order
      <3>2. \A y \in S : y = x \/ Before(y, x)
        BY <2>1, <2>5, <2>6, <3>1, Order
      <3> QED
        BY <2>3, <3>2
    <2> QED
      BY <2>7, <2>8
  <1> HIDE DEF Good
  <1>3. Nat \subseteq Good
    BY <1>1, <1>2, LeastCounterexample
  <1> QED
    BY <1>3 DEF Good

Rising(s) == \A i, j \in DOMAIN s : i < j => Before(s[i], s[j])

LEMMA SortedExists ==
    \A n \in Nat : \A S \in OfSize(n) : \E s \in [1..n -> S] : Rising(s)
  <1> DEFINE Sortable(S, n) == \E s \in [1..n -> S] : Rising(s)
             Good == {n \in Nat : \A S \in OfSize(n) : Sortable(S, n)}
  <1>1. 0 \in Good
    <2> SUFFICES ASSUME NEW S \in OfSize(0) PROVE Sortable(S, 0)
      OBVIOUS
    <2>1. [i \in 1..0 |-> i] \in [1..0 -> S] /\ Rising([i \in 1..0 |-> i])
      BY DEF Rising
    <2> QED
      BY <2>1
  <1>2. ASSUME NEW n \in Nat, n \in Good PROVE n + 1 \in Good
    <2> SUFFICES ASSUME NEW S \in OfSize(n + 1) PROVE Sortable(S, n + 1)
      OBVIOUS
    <2>1. S \subseteq Pairs /\ IsFiniteSet(S) /\ Cardinality(S) = n + 1
      BY DEF OfSize
    <2>2. PICK m \in S : \A y \in S : y = m \/ Before(y, m)
      BY GreatestExists
    <2>3. S \ {m} \in OfSize(n)
      <3>1. IsFiniteSet(S \ {m}) /\ Cardinality(S \ {m}) = Cardinality(S) - 1
        BY <2>1, FS_RemoveElement
      <3>2. Cardinality(S) - 1 = n
        BY <2>1
      <3> QED
        BY <2>1, <3>1, <3>2 DEF OfSize
    <2>4. PICK s \in [1..n -> S \ {m}] : Rising(s)
      BY <1>2, <2>3
    <2> DEFINE t == [i \in 1 .. n + 1 |-> IF i = n + 1 THEN m ELSE s[i]]
    <2>5. t \in [1 .. n + 1 -> S]
      OBVIOUS
    <2>6. ASSUME NEW i \in 1 .. n + 1, NEW j \in 1 .. n + 1, i < j
          PROVE  Before(t[i], t[j])
      <3>1. i \in 1..n /\ t[i] = s[i] /\ s[i] \in S \ {m}
        BY <2>6
      <3>2. CASE j = n + 1
        BY <2>2, <3>1, <3>2
      <3>3. CASE j # n + 1
        <4>1. j \in 1..n /\ t[j] = s[j]
          BY <3>3
        <4> QED
          BY <2>4, <2>6, <3>1, <4>1 DEF Rising
      <3> QED
        BY <3>2, <3>3
    <2>7. Rising(t)
      BY <2>6 DEF Rising
    <2> QED
      BY <2>5, <2>7
  <1> HIDE DEF Good
  <1>3. Nat \subseteq Good
    BY <1>1, <1>2, LeastCounterexample
  <1> QED
    BY <1>3 DEF Good

\* A set of ids in their order: each once.
LEMMA InOrderIs ==
    ASSUME NEW S \in SUBSET Pairs, IsFiniteSet(S)
    PROVE  /\ InOrder(S) \in Seq(S)
           /\ DOMAIN InOrder(S) = 1 .. Len(InOrder(S)) /\ Len(InOrder(S)) = Cardinality(S)
           /\ Rising(InOrder(S))
           /\ S = {InOrder(S)[i] : i \in DOMAIN InOrder(S)}
  <1> DEFINE n == Cardinality(S)
             s == InOrder(S)
  <1>1. n \in Nat
    BY FS_CardinalityType
  <1>2. s \in [1..n -> S] /\ Rising(s)
    <2>1. \E t \in [1..n -> S] : Rising(t)
      BY <1>1, SortedExists DEF OfSize
    <2> QED
      BY <2>1 DEF InOrder, Rising
  <1> HIDE DEF s, n
  <1>3. s \in Seq(S) /\ Len(s) = n /\ DOMAIN s = 1..n
    BY <1>1, <1>2
  <1>4. ASSUME NEW x \in S, \A i \in 1..n : s[i] # x PROVE FALSE
    <2>1. s \in [1..n -> S \ {x}]
      BY <1>2, <1>4
    <2>2. IsFiniteSet(S \ {x}) /\ Cardinality(S \ {x}) = n - 1
      BY FS_RemoveElement DEF n
    <2>3. IsFiniteSet(1..n) /\ Cardinality(1..n) = n
      BY <1>1, FS_Interval
    <2>4. Cardinality(S \ {x}) < Cardinality(1..n)
      BY <1>1, <2>2, <2>3
    <2>5. PICK i \in 1..n, j \in 1..n : i # j /\ s[i] = s[j]
      <3> DEFINE A == 1..n
                 T == S \ {x}
      <3>1. IsFiniteSet(A) /\ IsFiniteSet(T) /\ Cardinality(T) < Cardinality(A) /\ s \in [A -> T]
        BY <2>1, <2>2, <2>3, <2>4
      <3> HIDE DEF A, T
      <3>2. \E i, j \in A : i # j /\ s[i] = s[j]
        BY <3>1, FS_PigeonHole
      <3> QED
        BY <3>2 DEF A
    <2>6. Before(s[i], s[j]) \/ Before(s[j], s[i])
      BY <1>1, <1>2, <1>3, <2>5 DEF Rising
    <2>7. s[i] \in Pairs /\ s[j] \in Pairs
      BY <1>2
    <2> QED
      BY <2>5, <2>6, <2>7, Order
  <1> QED
    BY <1>2, <1>3, <1>4 DEF s, n

\* The entries a server gives for an id and a count: in order, after that id, and
\* none is left out before the last of them.
LEMMA FollowingIs ==
    ASSUME NEW from \in Pairs, NEW count \in Nat \ {0},
           DOMAIN stream \in SUBSET Pairs, IsFiniteSet(DOMAIN stream)
    PROVE  LET ids == Following(from, count) IN
           /\ ids \in Seq(DOMAIN stream) /\ DOMAIN ids = 1 .. Len(ids)
           /\ Rising(ids)
           /\ \A i \in DOMAIN ids : Before(from, ids[i])
           /\ \A x \in DOMAIN stream : Before(from, x) =>
                \/ \E i \in DOMAIN ids : ids[i] = x
                \/ ids # <<>> /\ Before(ids[Len(ids)], x)
  <1> DEFINE S == {x \in DOMAIN stream : Before(from, x)}
             s == InOrder(S)
             k == IF count < Len(s) THEN count ELSE Len(s)
             ids == Following(from, count)
  <1>1. S \in SUBSET Pairs /\ IsFiniteSet(S)
    BY FS_Subset
  <1>2. /\ s \in Seq(S) /\ DOMAIN s = 1 .. Len(s) /\ Rising(s)
        /\ S = {s[i] : i \in DOMAIN s}
    BY <1>1, InOrderIs
  <1>3. ids = SubSeq(s, 1, k)
    BY DEF Following, Upto
  <1> HIDE DEF s, ids
  <1>4. Len(s) \in Nat /\ k \in 0 .. Len(s) /\ (k < Len(s) => k \in 1 .. Len(s))
    BY <1>2
  <1> HIDE DEF k
  <1>5. /\ ids \in Seq(S) /\ Len(ids) = k /\ DOMAIN ids = 1..k
        /\ \A i \in 1..k : ids[i] = s[i] /\ i \in DOMAIN s
    BY <1>2, <1>3, <1>4
  <1> HIDE DEF S
  <1>6. ids \in Seq(DOMAIN stream)
    <2>1. S \subseteq DOMAIN stream
      BY DEF S
    <2> QED
      BY <1>5, <2>1
  <1>7. Rising(ids)
    BY <1>2, <1>5 DEF Rising
  <1>8. \A i \in DOMAIN ids : Before(from, ids[i])
    <2>1. \A i \in DOMAIN ids : ids[i] \in S
      BY <1>5
    <2> QED
      BY <2>1 DEF S
  <1>9. ASSUME NEW x \in DOMAIN stream, Before(from, x)
        PROVE  \/ \E i \in DOMAIN ids : ids[i] = x
               \/ ids # <<>> /\ Before(ids[Len(ids)], x)
    <2>1. x \in S
      BY <1>9 DEF S
    <2>2. PICK i \in DOMAIN s : s[i] = x
      BY <1>2, <2>1
    <2>3. CASE i <= k
      <3>1. i \in 1..k
        BY <1>2, <1>4, <2>2, <2>3
      <3> QED
        BY <1>5, <2>2, <3>1
    <2>4. CASE ~ (i <= k)
      <3>1. k < i /\ k \in 1..k /\ k \in DOMAIN s
        BY <1>2, <1>4, <2>2, <2>4
      <3>2. Before(s[k], s[i])
        BY <1>2, <2>2, <3>1 DEF Rising
      <3> QED
        BY <1>5, <2>2, <3>1, <3>2
    <2> QED
      BY <2>3, <2>4
  <1> QED
    BY <1>5, <1>6, <1>7, <1>8, <1>9 DEF ids

-----------------------------------------------------------------------------
(* From a reply to the ids its caller holds.                               *)

\* The xids of a conversion that takes all of its entries.
XidsFor(ids) == [i \in 1 .. Len(ids) |-> parseXId(IdText(ids[i]))]

LEMMA EntryConverts ==
    ASSUME NEW id
    PROVE  LET m == parseXMessage(RawEntry(id)) IN
           /\ id \in DOMAIN stream => m.is = "value" /\ m.got.xid = parseXId(IdText(id))
           /\ id \notin DOMAIN stream => m.is = "throws"
  <1> DEFINE raw == RawEntry(id)
  <1>1. raw.is = "array" /\ raw.got[1].got = IdText(id)
    BY DEF RawEntry, Arr, IdStr, Str
  <1>2. id \in DOMAIN stream => raw.got[2].is = "array"
    BY DEF RawEntry, Arr
  <1>3. id \notin DOMAIN stream => raw.got[2].is = "nil"
    BY DEF RawEntry, Arr, Nil
  <1> HIDE DEF raw
  <1>4. id \in DOMAIN stream =>
            parseXMessage(raw).is = "value" /\ parseXMessage(raw).got.xid = parseXId(IdText(id))
    BY <1>1, <1>2 DEF parseXMessage, Gives
  <1>5. id \notin DOMAIN stream => parseXMessage(raw).is = "throws"
    BY <1>3 DEF parseXMessage, Throws
  <1> QED
    BY <1>4, <1>5 DEF raw

LEMMA EntriesConvert ==
    ASSUME NEW ids \in Seq(Pairs)
    PROVE  XidsOf(Each(parseXMessage, RawEntries(ids))) =
               IF \A i \in 1 .. Len(ids) : ids[i] \in DOMAIN stream THEN XidsFor(ids) ELSE <<>>
  <1> DEFINE raws == RawEntries(ids)
             outs == [i \in DOMAIN raws |-> parseXMessage(raws[i])]
             out == Each(parseXMessage, raws)
  <1>1. DOMAIN ids = 1 .. Len(ids)
    OBVIOUS
  <1>2. DOMAIN outs = 1 .. Len(ids) /\ \A i \in 1 .. Len(ids) : outs[i] = parseXMessage(RawEntry(ids[i]))
    BY <1>1 DEF RawEntries
  <1>3. out = IF \E i \in DOMAIN outs : outs[i].is = "throws"
              THEN outs[CHOOSE i \in DOMAIN outs : outs[i].is = "throws"]
              ELSE Gives([i \in DOMAIN outs |-> outs[i].got])
    BY DEF Each
  <1> HIDE DEF outs, out
  <1>4. CASE \A i \in 1 .. Len(ids) : ids[i] \in DOMAIN stream
    <2>1. \A i \in 1 .. Len(ids) :
              outs[i].is = "value" /\ outs[i].got.xid = parseXId(IdText(ids[i]))
      BY <1>2, <1>4, EntryConverts
    <2>2. out = Gives([i \in 1 .. Len(ids) |-> outs[i].got])
      BY <1>2, <1>3, <2>1
    <2>3. XidsOf(out) = [i \in 1 .. Len(ids) |-> outs[i].got.xid]
      BY <2>2 DEF XidsOf, Gives
    <2> QED
      BY <1>4, <2>1, <2>3 DEF XidsFor, out
  <1>5. CASE ~ \A i \in 1 .. Len(ids) : ids[i] \in DOMAIN stream
    <2>1. \E i \in DOMAIN outs : outs[i].is = "throws"
      BY <1>2, <1>5, EntryConverts
    <2>2. out.is = "throws"
      BY <1>3, <2>1
    <2> QED
      BY <1>5, <2>2 DEF XidsOf, out
  <1> QED
    BY <1>4, <1>5

\* xread() and xreadgroup(): an id for each entry of the reply, in its order.
LEMMA RepliesConvert ==
    ASSUME NEW ids \in Seq(Pairs)
    PROVE  /\ XidsOf(parseXReadReply(RawStream(ids))) =
                  IF \A i \in 1 .. Len(ids) : ids[i] \in DOMAIN stream THEN XidsFor(ids) ELSE <<>>
           /\ (\A i \in 1 .. Len(ids) : ids[i] \in DOMAIN stream) =>
                  XidsOf(parseXReadReply(RawFollowing(ids))) = XidsFor(ids)
  <1>1. parseXReadReply(RawStream(ids)) = Each(parseXMessage, RawEntries(ids))
    BY DEF parseXReadReply, RawStream, Arr, Word, Str
  <1>2. ids # <<>> => RawFollowing(ids) = RawStream(ids)
    BY DEF RawFollowing
  <1>3. ids = <<>> => XidsOf(parseXReadReply(RawFollowing(ids))) = XidsFor(ids)
    BY DEF parseXReadReply, RawFollowing, Nil, Gives, XidsOf, XidsFor
  <1> QED
    BY <1>1, <1>2, <1>3, EntriesConvert

\* An id that a double holds comes back as it was sent.
XId == [unixMs : Nat, seqNo : Nat]

LEMMA RoundTrip ==
    ASSUME NEW id \in Pairs
    PROVE  /\ parseXId(IdText(id)) \in XId
           /\ Exact(id) => AsId(parseXId(IdText(id))) = id
  <1>1. id[1] \in Nat /\ id[2] \in Nat /\ id = <<id[1], id[2]>>
    BY DEF Pairs
  <1>2. \A n \in Nat : parseInt(n) \in Nat
    BY StreamAssumption DEF parseInt
  <1>3. parseXId(IdText(id)) = [unixMs |-> parseInt(id[1]), seqNo |-> parseInt(id[2])]
    BY DEF parseXId, IdText
  <1>4. Exact(id) => AsId(parseXId(IdText(id))) = id
    BY <1>1, <1>3 DEF Exact, AsId
  <1> QED
    BY <1>1, <1>2, <1>3, <1>4 DEF XId

\* A caller's xid is sent as the id it stands for, and no two stand for the same one.
LEMMA SentBack ==
    /\ \A x \in XId : IdOf(xidstr([form |-> "xid", xid |-> x])) = AsId(x) /\ AsId(x) \in Pairs
    /\ \A x, y \in XId : AsId(x) = AsId(y) => x = y
  <1>1. \A x : IdOf(xidstr([form |-> "xid", xid |-> x])) = AsId(x)
    BY DEF xidstr, IdOf, AsId
  <1>2. \A x, y \in XId : AsId(x) = AsId(y) => x = y
    BY DEF XId, AsId
  <1>3. \A x \in XId : AsId(x) \in Pairs
    BY DEF XId, AsId, Pairs
  <1> QED
    BY <1>1, <1>2, <1>3

LEMMA XidsForIs ==
    ASSUME NEW ids \in Seq(Pairs)
    PROVE  /\ XidsFor(ids) \in Seq(XId) /\ Len(XidsFor(ids)) = Len(ids)
           /\ ToSet(XidsFor(ids)) \subseteq XId
           /\ \A i \in 1 .. Len(ids) : Exact(ids[i]) => AsId(XidsFor(ids)[i]) = ids[i]
           /\ (\A i \in 1 .. Len(ids) : Exact(ids[i])) =>
                  {AsId(x) : x \in ToSet(XidsFor(ids))} = ToSet(ids)
  <1> DEFINE xids == XidsFor(ids)
  <1>1. \A i \in 1 .. Len(ids) : ids[i] \in Pairs
    OBVIOUS
  <1>2. \A i \in 1 .. Len(ids) : parseXId(IdText(ids[i])) \in XId
    BY <1>1, RoundTrip
  <1>3. /\ xids \in Seq(XId) /\ Len(xids) = Len(ids) /\ DOMAIN xids = 1 .. Len(ids)
        /\ \A i \in 1 .. Len(ids) : xids[i] = parseXId(IdText(ids[i]))
    BY <1>2 DEF XidsFor
  <1>4. \A i \in 1 .. Len(ids) : Exact(ids[i]) => AsId(xids[i]) = ids[i]
    BY <1>1, <1>3, RoundTrip
  <1>5. DOMAIN ids = 1 .. Len(ids)
    OBVIOUS
  <1> HIDE DEF xids
  <1>6. ToSet(xids) \subseteq XId
    BY <1>2, <1>3 DEF ToSet
  <1>7. (\A i \in 1 .. Len(ids) : Exact(ids[i])) => {AsId(x) : x \in ToSet(xids)} = ToSet(ids)
    BY <1>3, <1>4, <1>5 DEF ToSet
  <1> QED
    BY <1>3, <1>4, <1>6, <1>7 DEF xids

LEMMA PushedOne ==
    ASSUME NEW r, NEW passes
    PROVE  /\ passes[1] => Pushed(<<r>>, passes) = <<r>>
           /\ ~ passes[1] => Pushed(<<r>>, passes) = <<>>
           /\ Pushed(<<>>, passes) = <<>>
  <1> DEFINE one == <<r>>
             none == <<>>
  <1>1. one \in Seq({r}) /\ none \in Seq({r})
    OBVIOUS
  <1>2. 1 .. Len(one) = {1} /\ 1 .. Len(none) = {}
    OBVIOUS
  <1> HIDE DEF one, none
  <1>3. passes[1] => Pushed(one, passes) = one
    BY <1>1, <1>2, PushedAll
  <1>4. ~ passes[1] => Pushed(one, passes) = <<>>
    BY <1>1, <1>2, PushedNone
  <1>5. Pushed(none, passes) = none
    BY <1>1, <1>2, PushedAll
  <1> QED
    BY <1>3, <1>4, <1>5 DEF one, none

LEMMA Singles ==
    ASSUME NEW x
    PROVE  /\ DOMAIN <<x>> = {1} /\ <<x>>[1] = x /\ Len(<<x>>) = 1
           /\ [i \in {1} |-> x] = <<x>>
           /\ DOMAIN <<>> = {} /\ [i \in {} |-> x] = <<>>
  OBVIOUS

\* xclaim() of one entry; then of none.
LEMMA ClaimConverts ==
    ASSUME NEW id \in Pairs, id \in DOMAIN stream, NEW j \in BOOLEAN
    PROVE  XidsOf(claimed(<<IF j THEN IdStr(id) ELSE RawEntry(id)>>, j)) = <<parseXId(IdText(id))>>
  <1> DEFINE xid == parseXId(IdText(id))
             text == IdStr(id)
             entry == RawEntry(id)
  <1>1. isString(text) /\ ~ isString(entry) /\ text.got = IdText(id)
    BY DEF isString, IdStr, Str, RawEntry, Arr
  <1>2. XidsOf(claimed(<<text>>, TRUE)) = <<xid>>
    <2> HIDE DEF text, xid
    <2>1. claimed(<<text>>, TRUE) =
              Gives([i \in DOMAIN <<text>> |-> [xid |-> parseXId(<<text>>[i].got)]])
      <3> DEFINE passes == [i \in DOMAIN <<text>> |-> isString(<<text>>[i])]
      <3>1. passes[1]
        BY <1>1, Singles
      <3>2. claimed(<<text>>, TRUE) =
                LET ids == Pushed(<<text>>, passes)
                IN  Gives([i \in DOMAIN ids |-> [xid |-> parseXId(ids[i].got)]])
        BY DEF claimed
      <3> HIDE DEF passes
      <3>3. Pushed(<<text>>, passes) = <<text>>
        BY <3>1, PushedOne
      <3> QED
        BY <3>2, <3>3
    <2> DEFINE out == [i \in {1} |-> [xid |-> xid]]
    <2>2. [i \in DOMAIN <<text>> |-> [xid |-> parseXId(<<text>>[i].got)]] = out
      BY <1>1, Singles DEF xid
    <2>3. XidsOf(Gives(out)) = [i \in {1} |-> xid]
      BY DEF XidsOf, Gives
    <2> QED
      BY <2>1, <2>2, <2>3, Singles
  <1>3. XidsOf(claimed(<<entry>>, FALSE)) = <<xid>>
    <2> DEFINE one == <<id>>
    <2>1. one \in Seq(Pairs) /\ Len(one) = 1 /\ one[1] = id /\ DOMAIN one = {1}
      OBVIOUS
    <2>2. RawEntries(one) = [i \in {1} |-> entry]
      BY <2>1 DEF RawEntries
    <2> HIDE DEF one, entry, xid
    <2>3. RawEntries(one) = <<entry>>
      BY <2>2, Singles
    <2>4. claimed(<<entry>>, FALSE) = Each(parseXMessage, <<entry>>)
      <3> DEFINE passes == [i \in DOMAIN <<entry>> |-> ~ isString(<<entry>>[i])]
      <3>1. passes[1]
        BY <1>1, Singles
      <3>2. claimed(<<entry>>, FALSE) = Each(parseXMessage, Pushed(<<entry>>, passes))
        BY DEF claimed
      <3> HIDE DEF passes
      <3>3. Pushed(<<entry>>, passes) = <<entry>>
        BY <3>1, PushedOne
      <3> QED
        BY <3>2, <3>3
    <2>5. XidsOf(claimed(<<entry>>, FALSE)) = XidsFor(one)
      <3>1. XidsOf(Each(parseXMessage, RawEntries(one))) = XidsFor(one)
        <4>1. \A i \in 1 .. Len(one) : one[i] \in DOMAIN stream
          BY <2>1
        <4> QED
          BY <2>1, <4>1, EntriesConvert
      <3> QED
        BY <2>3, <2>4, <3>1
    <2>6. XidsFor(one) = [i \in {1} |-> xid]
      BY <2>1 DEF XidsFor, xid
    <2> QED
      BY <2>5, <2>6, Singles
  <1> QED
    BY <1>2, <1>3

LEMMA NothingConverts ==
    ASSUME NEW j \in BOOLEAN
    PROVE  XidsOf(claimed(<<>>, j)) = <<>>
  <1>1. XidsOf(claimed(<<>>, TRUE)) = <<>>
    <2>1. claimed(<<>>, TRUE) = Gives([i \in DOMAIN <<>> |-> [xid |-> parseXId(<<>>[i].got)]])
      BY PushedOne DEF claimed
    <2>2. [i \in DOMAIN <<>> |-> [xid |-> parseXId(<<>>[i].got)]] = <<>>
      OBVIOUS
    <2>3. XidsOf(Gives(<<>>)) = <<>>
      BY DEF XidsOf, Gives
    <2> QED
      BY <2>1, <2>2, <2>3
  <1>2. XidsOf(claimed(<<>>, FALSE)) = <<>>
    <2>1. claimed(<<>>, FALSE) = Each(parseXMessage, <<>>)
      BY PushedOne DEF claimed
    <2> DEFINE none == <<>>
    <2>2. none \in Seq(Pairs) /\ Len(none) = 0 /\ RawEntries(none) = <<>>
      BY DEF RawEntries
    <2>3. XidsFor(none) = <<>>
      BY <2>2 DEF XidsFor
    <2> HIDE DEF none
    <2> QED
      BY <2>1, <2>2, <2>3, EntriesConvert
  <1> QED
    BY <1>1, <1>2

-----------------------------------------------------------------------------
(* What a worker holds is what its group has pending.                      *)

\* The group's pending entries were delivered, and every id is one that was added.
ServerTypes ==
    /\ IsFiniteSet(added) /\ added \in SUBSET Pairs
    /\ DOMAIN stream \subseteq added
    /\ DOMAIN pel \subseteq added
    /\ delivered \in Pairs
    /\ \A id \in DOMAIN pel : ~ Before(delivered, id)
    /\ held \subseteq XId
    /\ crashes \in Nat

\* What a read of the group's new entries is given, and what becomes of it.
LEMMA NewEntries ==
    ASSUME ServerTypes, NEW count \in Nat \ {0}
    PROVE  LET ids == Following(delivered, count)
               got == ToSet(XidsOf(xreadgroupNew(count)))
           IN  /\ ids \in Seq(DOMAIN stream) /\ ids \in Seq(Pairs) /\ DOMAIN ids = 1 .. Len(ids)
               /\ ToSet(ids) \subseteq DOMAIN stream
               /\ \A id \in ToSet(ids) : Before(delivered, id)
               /\ Rising(ids)
               /\ got \subseteq XId
               /\ AllExact => {AsId(x) : x \in got} = ToSet(ids)
  <1> DEFINE ids == Following(delivered, count)
  <1>1. DOMAIN stream \in SUBSET Pairs /\ IsFiniteSet(DOMAIN stream) /\ delivered \in Pairs
    BY FS_Subset DEF ServerTypes
  <1>2. /\ ids \in Seq(DOMAIN stream) /\ DOMAIN ids = 1 .. Len(ids) /\ Rising(ids)
        /\ \A i \in DOMAIN ids : Before(delivered, ids[i])
    BY <1>1, FollowingIs
  <1> HIDE DEF ids
  <1>3. ids \in Seq(Pairs)
    BY <1>1, <1>2
  <1>4. \A i \in 1 .. Len(ids) : ids[i] \in DOMAIN stream
    BY <1>2
  <1>5. XidsOf(xreadgroupNew(count)) = XidsFor(ids)
    BY <1>3, <1>4, RepliesConvert DEF xreadgroupNew, ids
  <1>6. AllExact => \A i \in 1 .. Len(ids) : Exact(ids[i])
    BY <1>4 DEF AllExact, ServerTypes
  <1>7. ToSet(ids) \subseteq DOMAIN stream /\ \A id \in ToSet(ids) : Before(delivered, id)
    BY <1>2, <1>4 DEF ToSet
  <1> QED
    BY <1>2, <1>3, <1>5, <1>6, <1>7, XidsForIs DEF ids

\* A read of the history gives entries the worker has pending, or fails.
LEMMA HistoryEntries ==
    ASSUME ServerTypes
    PROVE  LET got == ToSet(XidsOf(parseXReadReply(RawHistory))) IN
           /\ got \subseteq XId
           /\ AllExact => {AsId(x) : x \in got} \subseteq Owned(Mine)
  <1> DEFINE ids == InOrder(Owned(Mine))
             xids == XidsOf(parseXReadReply(RawStream(ids)))
  <1>1. Owned(Mine) \in SUBSET Pairs /\ IsFiniteSet(Owned(Mine)) /\ Owned(Mine) \subseteq added
    BY FS_Subset DEF ServerTypes, Owned
  <1>2. ids \in Seq(Owned(Mine)) /\ DOMAIN ids = 1 .. Len(ids)
    BY <1>1, InOrderIs
  <1> HIDE DEF ids
  <1>3. ids \in Seq(Pairs)
    BY <1>1, <1>2
  <1>4. xids = XidsFor(ids) \/ xids = <<>>
    BY <1>3, RepliesConvert
  <1>5. AllExact => \A i \in 1 .. Len(ids) : Exact(ids[i])
    BY <1>1, <1>2 DEF AllExact
  <1>6. ToSet(ids) \subseteq Owned(Mine)
    BY <1>2 DEF ToSet
  <1> HIDE DEF xids
  <1>7. CASE xids = XidsFor(ids)
    BY <1>3, <1>5, <1>6, <1>7, XidsForIs DEF RawHistory, ids, xids
  <1>8. CASE xids = <<>>
    <2>1. ToSet(xids) = {}
      BY <1>8 DEF ToSet
    <2> QED
      BY <2>1 DEF RawHistory, ids, xids
  <1> QED
    BY <1>4, <1>7, <1>8

WorkerInv == ServerTypes /\ HeldIsPending

LEMMA AddKeeps ==
    ASSUME WorkerInv, NEW id \in Ids, NEW body \in Bodies, Add(id, body)
    PROVE  WorkerInv'
  <1>1. id \in Pairs /\ added' = added \cup {id} /\ DOMAIN stream' = DOMAIN stream \cup {id}
    BY StreamAssumption DEF Add, Pairs
  <1>2. pel' = pel /\ delivered' = delivered /\ held' = held /\ crashes' = crashes
    BY DEF Add, workerVars
  <1>3. IsFiniteSet(added')
    BY <1>1, FS_AddElement DEF WorkerInv, ServerTypes
  <1>4. ServerTypes'
    BY <1>1, <1>2, <1>3 DEF WorkerInv, ServerTypes
  <1>5. AllExact' => AllExact
    BY <1>1 DEF AllExact
  <1>6. HeldIsPending'
    BY <1>2, <1>5 DEF WorkerInv, HeldIsPending, Owned
  <1> QED
    BY <1>4, <1>6 DEF WorkerInv

LEMMA DeleteKeeps ==
    ASSUME WorkerInv, NEW id \in Ids, Delete(id)
    PROVE  WorkerInv'
  <1>1. /\ added' = added /\ DOMAIN stream' \subseteq DOMAIN stream
        /\ pel' = pel /\ delivered' = delivered /\ held' = held /\ crashes' = crashes
    BY DEF Delete, workerVars
  <1> QED
    BY <1>1 DEF WorkerInv, ServerTypes, HeldIsPending, AllExact, Owned

\* What a delivery makes of the pending list.
LEMMA DeliverIs ==
    ASSUME ServerTypes, NEW c \in {Mine, Other}, NEW count \in Nat \ {0},
           Deliver(c, Following(delivered, count))
    PROVE  LET ids == Following(delivered, count) IN
           /\ stream' = stream /\ added' = added
           /\ DOMAIN pel' = DOMAIN pel \cup ToSet(ids)
           /\ \A x \in DOMAIN pel' : pel'[x] = IF x \in ToSet(ids) THEN c ELSE pel[x]
           /\ delivered' \in Pairs
           /\ \A x \in DOMAIN pel' : ~ Before(delivered', x)
           /\ DOMAIN pel' \subseteq added
           /\ ToSet(ids) \cap DOMAIN pel = {}
  <1> DEFINE ids == Following(delivered, count)
  <1>1. /\ ids \in Seq(Pairs) /\ DOMAIN ids = 1 .. Len(ids) /\ Rising(ids)
        /\ ToSet(ids) \subseteq DOMAIN stream /\ \A id \in ToSet(ids) : Before(delivered, id)
    BY NewEntries
  <1>2. /\ ids # <<>> /\ delivered' = Last(ids) /\ stream' = stream /\ added' = added
        /\ DOMAIN pel' = DOMAIN pel \cup ToSet(ids)
        /\ \A x \in DOMAIN pel' : pel'[x] = IF x \in ToSet(ids) THEN c ELSE pel[x]
    BY DEF Deliver
  <1> HIDE DEF ids
  <1>3. Len(ids) \in 1 .. Len(ids) /\ Last(ids) = ids[Len(ids)]
    BY <1>1, <1>2 DEF Last
  <1>4. delivered' \in ToSet(ids) /\ delivered' \in Pairs
    BY <1>1, <1>2, <1>3 DEF ToSet
  <1>5. \A x \in ToSet(ids) : x \in Pairs /\ ~ Before(delivered', x)
    <2> SUFFICES ASSUME NEW i \in 1 .. Len(ids) PROVE ids[i] \in Pairs /\ ~ Before(delivered', ids[i])
      BY <1>1 DEF ToSet
    <2>1. ids[i] \in Pairs
      BY <1>1
    <2>2. CASE i = Len(ids)
      BY <1>2, <1>3, <2>1, <2>2, Order
    <2>3. CASE i # Len(ids)
      <3>1. i < Len(ids)
        <4>1. Len(ids) \in Nat
          BY <1>1
        <4> QED
          BY <2>3, <4>1
      <3>2. Before(ids[i], delivered')
        BY <1>1, <1>2, <1>3, <3>1 DEF Rising
      <3> QED
        BY <1>4, <2>1, <3>2, Order
    <2> QED
      BY <2>2, <2>3
  <1>6. ASSUME NEW x \in DOMAIN pel PROVE ~ Before(delivered', x)
    <2>1. ~ Before(delivered, x) /\ x \in Pairs /\ delivered \in Pairs
      BY DEF ServerTypes
    <2>2. Before(delivered, delivered')
      BY <1>1, <1>4
    <2> QED
      BY <1>4, <2>1, <2>2, Order
  <1>7. ToSet(ids) \cap DOMAIN pel = {}
    BY <1>1 DEF ServerTypes
  <1>8. DOMAIN pel' \subseteq added
    BY <1>1, <1>2 DEF ServerTypes
  <1> QED
    BY <1>2, <1>4, <1>5, <1>6, <1>7, <1>8 DEF ids

LEMMA OtherReadsKeeps ==
    ASSUME WorkerInv, OtherReads
    PROVE  WorkerInv'
  <1> DEFINE ids == Following(delivered, 1)
  <1>1. Deliver(Other, ids) /\ held' = held /\ crashes' = crashes
    BY DEF OtherReads, workerVars
  <1>2. Other \in {Mine, Other} /\ 1 \in Nat \ {0} /\ ServerTypes
    BY DEF WorkerInv
  <1>3. /\ stream' = stream /\ added' = added
        /\ DOMAIN pel' = DOMAIN pel \cup ToSet(ids)
        /\ \A x \in DOMAIN pel' : pel'[x] = IF x \in ToSet(ids) THEN Other ELSE pel[x]
        /\ delivered' \in Pairs
        /\ \A x \in DOMAIN pel' : ~ Before(delivered', x)
        /\ DOMAIN pel' \subseteq added
        /\ ToSet(ids) \cap DOMAIN pel = {}
    BY <1>2, <1>1, DeliverIs
  <1> HIDE DEF ids
  <1>4. ServerTypes'
    BY <1>1, <1>3 DEF WorkerInv, ServerTypes
  <1>5. Owned(Mine)' = Owned(Mine)
    BY <1>3, StreamAssumption DEF Owned
  <1>6. HeldIsPending'
    BY <1>1, <1>3, <1>5 DEF WorkerInv, HeldIsPending, AllExact
  <1> QED
    BY <1>4, <1>6 DEF WorkerInv

LEMMA ReadNewKeeps ==
    ASSUME WorkerInv, NEW count \in Nat \ {0}, ReadNew(count)
    PROVE  WorkerInv'
  <1> DEFINE ids == Following(delivered, count)
             got == ToSet(XidsOf(xreadgroupNew(count)))
  <1>1. Deliver(Mine, ids) /\ held' = held \cup got /\ crashes' = crashes
    BY DEF ReadNew
  <1>2. /\ stream' = stream /\ added' = added
        /\ DOMAIN pel' = DOMAIN pel \cup ToSet(ids)
        /\ \A x \in DOMAIN pel' : pel'[x] = IF x \in ToSet(ids) THEN Mine ELSE pel[x]
        /\ delivered' \in Pairs
        /\ \A x \in DOMAIN pel' : ~ Before(delivered', x)
        /\ DOMAIN pel' \subseteq added
    BY <1>1, DeliverIs DEF WorkerInv
  <1>3. got \subseteq XId /\ (AllExact => {AsId(x) : x \in got} = ToSet(ids))
    BY NewEntries DEF WorkerInv
  <1> HIDE DEF ids, got
  <1>4. ServerTypes'
    BY <1>1, <1>2, <1>3 DEF WorkerInv, ServerTypes
  <1>5. Owned(Mine)' = Owned(Mine) \cup ToSet(ids)
    BY <1>2 DEF Owned
  <1>6. AllExact' = AllExact
    BY <1>2 DEF AllExact
  <1>7. {AsId(x) : x \in held'} = {AsId(x) : x \in held} \cup {AsId(x) : x \in got}
    BY <1>1
  <1>8. HeldIsPending'
    BY <1>1, <1>3, <1>5, <1>6, <1>7 DEF WorkerInv, HeldIsPending
  <1> QED
    BY <1>4, <1>8 DEF WorkerInv

LEMMA ReadHistoryKeeps ==
    ASSUME WorkerInv, ReadHistory
    PROVE  WorkerInv'
  <1> DEFINE got == ToSet(XidsOf(parseXReadReply(RawHistory)))
  <1>1. /\ held' = held \cup got /\ crashes' = crashes
        /\ stream' = stream /\ added' = added /\ delivered' = delivered /\ pel' = pel
    BY DEF ReadHistory, serverVars
  <1>2. got \subseteq XId /\ (AllExact => {AsId(x) : x \in got} \subseteq Owned(Mine))
    BY HistoryEntries DEF WorkerInv
  <1> HIDE DEF got
  <1>3. ServerTypes'
    BY <1>1, <1>2 DEF WorkerInv, ServerTypes
  <1>4. Owned(Mine)' = Owned(Mine) /\ AllExact' = AllExact
    BY <1>1 DEF Owned, AllExact
  <1>5. {AsId(x) : x \in held'} = {AsId(x) : x \in held} \cup {AsId(x) : x \in got}
    BY <1>1
  <1>6. HeldIsPending'
    BY <1>1, <1>2, <1>4, <1>5 DEF WorkerInv, HeldIsPending
  <1> QED
    BY <1>3, <1>6 DEF WorkerInv

LEMMA AckKeeps ==
    ASSUME WorkerInv, NEW xid \in held, Ack(xid)
    PROVE  WorkerInv'
  <1> DEFINE id == AsId(xid)
  <1>1. xid \in XId /\ held \subseteq XId
    BY DEF WorkerInv, ServerTypes
  <1>2. IdOf(xidstr([form |-> "xid", xid |-> xid])) = id
    BY <1>1, SentBack
  <1>3. /\ pel' = [x \in DOMAIN pel \ {id} |-> pel[x]] /\ held' = held \ {xid}
        /\ crashes' = crashes
        /\ stream' = stream /\ added' = added /\ delivered' = delivered
    BY <1>2 DEF Ack
  <1>4. ServerTypes'
    BY <1>3 DEF WorkerInv, ServerTypes
  <1>5. Owned(Mine)' = Owned(Mine) \ {id} /\ AllExact' = AllExact
    BY <1>3 DEF Owned, AllExact
  <1>6. {AsId(x) : x \in held'} = {AsId(x) : x \in held} \ {id}
    <2>1. \A x \in held : AsId(x) = id => x = xid
      BY <1>1, SentBack
    <2> QED
      BY <1>3, <2>1
  <1>7. HeldIsPending'
    BY <1>3, <1>5, <1>6 DEF WorkerInv, HeldIsPending
  <1> QED
    BY <1>4, <1>7 DEF WorkerInv

LEMMA ClaimKeeps ==
    ASSUME WorkerInv, NEW id \in Ids, NEW j \in BOOLEAN, Claim(id, j)
    PROVE  WorkerInv'
  <1> DEFINE xid == parseXId(IdText(id))
             asked == IdOf(xidstr([form |-> "xid", xid |-> xid]))
             found == asked \in Owned(Other) /\ asked \in DOMAIN stream
             raws == IF ~ found THEN <<>> ELSE <<IF j THEN IdStr(asked) ELSE RawEntry(asked)>>
             got == ToSet(XidsOf(claimed(raws, j)))
  <1>1. /\ id \in Owned(Other)
        /\ pel' = IF found THEN [pel EXCEPT ![asked] = Mine]
                  ELSE [x \in DOMAIN pel \ ({asked} \cap Owned(Other)) |-> pel[x]]
        /\ held' = held \cup got
        /\ crashes' = crashes
        /\ stream' = stream /\ added' = added /\ delivered' = delivered
    BY DEF Claim
  <1>2. got = IF found THEN {parseXId(IdText(asked))} ELSE {}
    <2>1. CASE found
      <3>1. asked \in Pairs /\ asked \in DOMAIN stream
        BY <2>1 DEF WorkerInv, ServerTypes
      <3>2. raws = <<IF j THEN IdStr(asked) ELSE RawEntry(asked)>>
        BY <2>1
      <3> HIDE DEF raws, asked
      <3>3. XidsOf(claimed(raws, j)) = <<parseXId(IdText(asked))>>
        BY <3>1, <3>2, ClaimConverts
      <3> DEFINE y == parseXId(IdText(asked))
      <3> HIDE DEF y
      <3>4. ToSet(<<y>>) = {y}
        BY DEF ToSet
      <3> QED
        BY <2>1, <3>3, <3>4 DEF y
    <2>2. CASE ~ found
      <3>1. raws = <<>> /\ id \in DOMAIN pel
        BY <1>1, <2>2 DEF Owned
      <3>2. XidsOf(claimed(<<>>, j)) = <<>>
        BY NothingConverts
      <3> HIDE DEF raws, found
      <3> QED
        BY <2>2, <3>1, <3>2 DEF ToSet
    <2> QED
      BY <2>1, <2>2
  <1> HIDE DEF got
  <1>3. Owned(Other) \subseteq DOMAIN pel /\ id \in added /\ id \in Pairs
    BY <1>1 DEF WorkerInv, ServerTypes, Owned
  <1>4. got \subseteq XId
    <2>1. found => asked \in Pairs
      BY DEF WorkerInv, ServerTypes
    <2> HIDE DEF asked
    <2> QED
      BY <1>2, <2>1, RoundTrip
  <1>5. AllExact => asked = id /\ AsId(xid) = id
    BY <1>3, RoundTrip, SentBack DEF AllExact
  <1> HIDE DEF asked, xid
  <1>6. DOMAIN pel' \subseteq DOMAIN pel
    BY <1>1
  <1>7. ServerTypes'
    BY <1>1, <1>4, <1>6 DEF WorkerInv, ServerTypes
  <1>8. Owned(Mine)' = IF found THEN Owned(Mine) \cup {asked} ELSE Owned(Mine)
    BY <1>1, <1>3, StreamAssumption DEF Owned
  <1>9. AllExact' = AllExact
    BY <1>1 DEF AllExact
  <1>10. {AsId(x) : x \in held'} = {AsId(x) : x \in held} \cup {AsId(x) : x \in got}
    BY <1>1
  <1>11. AllExact => {AsId(x) : x \in got} = IF found THEN {asked} ELSE {}
    BY <1>2, <1>5 DEF xid
  <1> HIDE DEF found
  <1>12. HeldIsPending'
    BY <1>1, <1>8, <1>9, <1>10, <1>11 DEF WorkerInv, HeldIsPending
  <1> QED
    BY <1>7, <1>12 DEF WorkerInv

LEMMA CrashKeeps ==
    ASSUME WorkerInv, Crash
    PROVE  WorkerInv'
  <1>1. /\ held' = {} /\ crashes' = crashes + 1
        /\ stream' = stream /\ added' = added /\ delivered' = delivered /\ pel' = pel
    BY DEF Crash, serverVars
  <1>2. crashes' # 0 /\ crashes' \in Nat
    BY <1>1 DEF WorkerInv, ServerTypes
  <1> QED
    BY <1>1, <1>2 DEF WorkerInv, ServerTypes, HeldIsPending

LEMMA WorkerStep == WorkerInv /\ [Next]_vars => WorkerInv'
  <1> SUFFICES ASSUME WorkerInv, [Next]_vars PROVE WorkerInv'
    OBVIOUS
  <1>1. ASSUME NEW n \in 1..MaxCount, Read(n) PROVE WorkerInv'
    BY <1>1 DEF Read, serverVars, workerVars, WorkerInv, ServerTypes, HeldIsPending, Owned,
                AllExact
  <1>2. CASE UNCHANGED vars
    BY <1>2 DEF vars, serverVars, workerVars, WorkerInv, ServerTypes, HeldIsPending, Owned,
                AllExact
  <1>3. \A n \in 1..MaxCount : n \in Nat \ {0}
    BY StreamAssumption
  <1> QED
    BY <1>1, <1>2, <1>3, AddKeeps, DeleteKeeps, ClaimKeeps, ReadNewKeeps, OtherReadsKeeps,
       ReadHistoryKeeps, CrashKeeps, AckKeeps DEF Next

LEMMA WorkerStarts == Init => WorkerInv
  <1> SUFFICES ASSUME Init PROVE WorkerInv
    OBVIOUS
  <1>1. /\ stream = <<>> /\ added = {} /\ delivered = <<0, 0>> /\ pel = <<>>
        /\ held = {} /\ crashes = 0
    BY DEF Init
  <1>2. IsFiniteSet({}) /\ DOMAIN <<>> = {}
    BY FS_EmptySet
  <1> QED
    BY <1>1, <1>2 DEF WorkerInv, ServerTypes, HeldIsPending, Owned, Pairs

\* For any ids, bodies and bounds: what the worker holds is pending for it, and without
\* a crash everything pending for it is held (stream.ts, parseXId() and xidstr(), as
\* xreadgroup(), xclaim() and xack() use them).
THEOREM WorkerHoldsWhatIsPending == Spec => []HeldIsPending
  <1>1. WorkerInv => HeldIsPending
    BY DEF WorkerInv
  <1> QED
    BY <1>1, WorkerStarts, WorkerStep, PTL DEF Spec

-----------------------------------------------------------------------------
(* A reader takes every entry once.                                        *)

Here == IdOf(xidstr(cursor))

\* The next read goes on after the last entry taken.
ReaderInv ==
    /\ since \in Pairs /\ taken \in Seq(XId) /\ Here \in Pairs
    /\ AllExact =>
        /\ Here = IF taken = <<>> THEN since ELSE AsId(taken[Len(taken)])
        /\ \A i \in DOMAIN taken : AsId(taken[i]) \in added
    /\ EveryEntryOnce

LEMMA Taken ==
    ASSUME ReaderInv
    PROVE  /\ DOMAIN taken = 1 .. Len(taken) /\ Len(taken) \in Nat
           /\ \A i \in DOMAIN taken : taken[i] \in XId /\ AsId(taken[i]) \in Pairs
           /\ AllExact =>
                 \A i \in DOMAIN taken : AsId(taken[i]) = Here \/ Before(AsId(taken[i]), Here)
           /\ AllExact => since = Here \/ Before(since, Here)
  <1>1. taken \in Seq(XId)
    BY DEF ReaderInv
  <1>2. DOMAIN taken = 1 .. Len(taken) /\ Len(taken) \in Nat
    BY <1>1
  <1>3. \A i \in DOMAIN taken : taken[i] \in XId
    BY <1>1
  <1>4. \A i \in DOMAIN taken : AsId(taken[i]) \in Pairs
    BY <1>3, SentBack
  <1>5. taken # <<>> => Len(taken) \in DOMAIN taken
    BY <1>1, <1>2
  <1>6. ASSUME AllExact, NEW i \in DOMAIN taken
        PROVE  AsId(taken[i]) = Here \/ Before(AsId(taken[i]), Here)
    <2>1. taken # <<>>
      BY <1>2, <1>6
    <2>2. Here = AsId(taken[Len(taken)])
      BY <1>6, <2>1 DEF ReaderInv
    <2>3. i = Len(taken) \/ i < Len(taken)
      BY <1>2
    <2> QED
      BY <1>5, <1>6, <2>1, <2>2, <2>3 DEF ReaderInv, EveryEntryOnce
  <1>7. AllExact => since = Here \/ Before(since, Here)
    BY <1>5 DEF ReaderInv, EveryEntryOnce
  <1> QED
    BY <1>2, <1>3, <1>4, <1>6, <1>7

LEMMA ReaderAdd ==
    ASSUME ServerTypes, ReaderInv, NEW id \in Ids, NEW body \in Bodies, Add(id, body)
    PROVE  ReaderInv'
  <1>1. /\ id \in Pairs /\ added' = added \cup {id} /\ DOMAIN stream' = DOMAIN stream \cup {id}
        /\ since' = since /\ cursor' = cursor /\ taken' = taken
        /\ \A x \in added : Before(x, id)
    BY StreamAssumption DEF Add, Pairs, readerVars
  <1>2. AllExact' => AllExact
    BY <1>1 DEF AllExact
  <1>3. Here' = Here
    BY <1>1 DEF Here
  <1>4. ASSUME AllExact, Before(since, id) PROVE Before(Here, id)
    <2>1. taken # <<>> => Len(taken) \in DOMAIN taken
      BY Taken DEF ReaderInv
    <2>2. CASE taken = <<>>
      BY <1>4, <2>2 DEF ReaderInv
    <2>3. CASE taken # <<>>
      BY <1>1, <1>4, <2>1, <2>3 DEF ReaderInv
    <2> QED
      BY <2>2, <2>3
  <1>5. EveryEntryOnce'
    <2> SUFFICES ASSUME AllExact'
                 PROVE  \A x \in DOMAIN stream' :
                            Before(since, x) /\ ~ Before(Here, x)
                                => \E i \in DOMAIN taken : AsId(taken[i]) = x
      BY <1>1, <1>2, <1>3 DEF ReaderInv, EveryEntryOnce, Here
    <2> QED
      BY <1>1, <1>2, <1>4 DEF ReaderInv, EveryEntryOnce, Here
  <1> QED
    BY <1>1, <1>2, <1>3, <1>5 DEF ReaderInv

LEMMA Split ==
    ASSUME NEW n \in Nat, NEW k \in Nat, NEW i \in 1 .. n + k
    PROVE  i \in 1..n \/ \E m \in 1..k : i = n + m
  <1> SUFFICES ASSUME ~ (i \in 1..n) PROVE \E m \in 1..k : i = n + m
    OBVIOUS
  <1>1. i - n \in 1..k /\ i = n + (i - n)
    OBVIOUS
  <1> QED
    BY <1>1

\* u is s with t after it.
Joined(u, s, t) ==
    /\ u \in Seq(XId) /\ Len(u) = Len(s) + Len(t) /\ DOMAIN u = 1 .. Len(s) + Len(t)
    /\ \A i \in 1 .. Len(s) : u[i] = s[i]
    /\ \A i \in 1 .. Len(t) : u[Len(s) + i] = t[i]

LEMMA Appended ==
    ASSUME NEW s \in Seq(XId), NEW t \in Seq(XId)
    PROVE  Joined(s \o t, s, t)
  <1>1. s \o t \in Seq(XId) /\ Len(s \o t) = Len(s) + Len(t)
    OBVIOUS
  <1>2. DOMAIN (s \o t) = 1 .. Len(s) + Len(t)
    BY <1>1
  <1>3. \A i \in 1 .. Len(s) : (s \o t)[i] = s[i]
    OBVIOUS
  <1>4. \A i \in 1 .. Len(t) : (s \o t)[Len(s) + i] = t[i]
    OBVIOUS
  <1> QED
    BY <1>1, <1>2, <1>3, <1>4 DEF Joined

LEMMA ReaderRead ==
    ASSUME ServerTypes, ReaderInv, NEW count \in Nat \ {0}, Read(count)
    PROVE  ReaderInv'
  <1> DEFINE ids == Following(Here, count)
             xids == XidsFor(ids)
             n == Len(taken)
             k == Len(ids)
  <1>1. DOMAIN stream \in SUBSET Pairs /\ IsFiniteSet(DOMAIN stream) /\ Here \in Pairs
    BY FS_Subset DEF ServerTypes, ReaderInv
  <1>2. /\ ids \in Seq(DOMAIN stream) /\ DOMAIN ids = 1..k /\ Rising(ids)
        /\ \A i \in DOMAIN ids : Before(Here, ids[i])
        /\ \A x \in DOMAIN stream : Before(Here, x) =>
               (\E i \in DOMAIN ids : ids[i] = x) \/ (ids # <<>> /\ Before(ids[k], x))
    BY <1>1, FollowingIs
  <1>3. XidsOf(xread(count)) = XidsOf(parseXReadReply(RawFollowing(ids)))
    BY DEF xread, Here
  <1> HIDE DEF ids
  <1>4. ids \in Seq(Pairs) /\ k \in Nat
    BY <1>1, <1>2
  <1>5. \A i \in 1..k : ids[i] \in DOMAIN stream /\ ids[i] \in added /\ ids[i] \in Pairs
    BY <1>1, <1>2 DEF ServerTypes
  <1>6. XidsOf(xread(count)) = xids
    BY <1>3, <1>4, <1>5, RepliesConvert
  <1>7. xids \in Seq(XId) /\ Len(xids) = k
    BY <1>4, XidsForIs
  <1>8. AllExact => \A i \in 1..k : AsId(xids[i]) = ids[i]
    BY <1>4, <1>5, XidsForIs DEF AllExact
  <1>9. /\ xids # <<>> /\ taken' = taken \o xids
        /\ cursor' = [form |-> "xid", xid |-> Last(xids)]
        /\ since' = since /\ stream' = stream /\ added' = added
    BY <1>6 DEF Read, serverVars
  <1> HIDE DEF xids
  <1>10. k >= 1 /\ k \in 1..k /\ Last(xids) = xids[k] /\ xids[k] \in XId
    BY <1>7, <1>9 DEF Last
  <1>11. Here' = AsId(xids[k]) /\ Here' \in Pairs
    BY <1>9, <1>10, SentBack DEF Here
  <1>12. /\ taken \in Seq(XId) /\ n \in Nat /\ DOMAIN taken = 1..n
         /\ taken' \in Seq(XId) /\ Len(taken') = n + k /\ DOMAIN taken' = 1 .. n + k
         /\ \A i \in 1..n : taken'[i] = taken[i]
         /\ \A i \in 1..k : taken'[n + i] = xids[i]
    <2>1. taken \in Seq(XId)
      BY DEF ReaderInv
    <2>2. /\ taken' \in Seq(XId) /\ Len(taken') = n + k /\ DOMAIN taken' = 1 .. n + k
          /\ \A i \in 1..n : taken'[i] = taken[i]
          /\ \A i \in 1..k : taken'[n + i] = xids[i]
      <3>1. Joined(taken \o xids, taken, xids)
        BY <1>7, <2>1, Appended
      <3>2. Joined(taken', taken, xids)
        BY <1>9, <3>1
      <3> QED
        BY <1>7, <3>2 DEF Joined
    <2> QED
      BY <2>1, <2>2
  <1>13. n \in Nat /\ k \in Nat
    BY <1>4, <1>12
  <1> HIDE DEF n, k
  <1>14. \A i \in DOMAIN taken' : i \in 1..n \/ \E m \in 1..k : i = n + m
    <2>1. \A i \in 1 .. n + k : i \in 1..n \/ \E m \in 1..k : i = n + m
      BY <1>13, Split
    <2>2. DOMAIN taken' = 1 .. n + k
      BY <1>12
    <2> QED
      BY <2>1, <2>2
  <1>15. AllExact' = AllExact
    BY <1>9 DEF AllExact
  <1>16. ASSUME AllExact PROVE /\ Here' = AsId(taken'[Len(taken')])
                               /\ \A i \in DOMAIN taken' : AsId(taken'[i]) \in added
    <2>1. taken'[n + k] = xids[k]
      BY <1>10, <1>12
    <2>3. \A i \in 1..n : AsId(taken'[i]) \in added
      BY <1>12, <1>16 DEF ReaderInv
    <2>4. \A m \in 1..k : AsId(taken'[n + m]) \in added
      BY <1>5, <1>8, <1>12, <1>16
    <2> QED
      BY <1>11, <1>12, <1>14, <2>1, <2>3, <2>4
  <1>17. ASSUME AllExact, NEW i \in 1..n PROVE AsId(taken[i]) = Here \/ Before(AsId(taken[i]), Here)
    BY <1>12, <1>17, Taken
  <1>18. ASSUME AllExact PROVE since = Here \/ Before(since, Here)
    BY <1>18, Taken
  <1>19. ASSUME AllExact PROVE EveryEntryOnce'
    <2>1. ASSUME NEW i \in DOMAIN taken', NEW j \in DOMAIN taken', i < j
          PROVE  Before(AsId(taken'[i]), AsId(taken'[j]))
      <3>1. CASE j \in 1..n
        <4>1. i \in 1..n
          BY <1>12, <2>1, <3>1
        <4> QED
          BY <1>12, <1>19, <2>1, <3>1, <4>1 DEF ReaderInv, EveryEntryOnce
      <3>2. CASE \E m \in 1..k : j = n + m
        <4>1. PICK m \in 1..k : j = n + m
          BY <3>2
        <4>2. AsId(taken'[j]) = ids[m] /\ ids[m] \in Pairs /\ Before(Here, ids[m])
          BY <1>2, <1>5, <1>8, <1>12, <1>19, <4>1
        <4>3. CASE i \in 1..n
          <5>1. AsId(taken[i]) \in Pairs
            BY <1>12, <4>3, Taken
          <5> QED
            BY <1>1, <1>12, <1>17, <1>19, <4>2, <4>3, <5>1, Order
        <4>4. CASE \E p \in 1..k : i = n + p
          <5>1. PICK p \in 1..k : i = n + p
            BY <4>4
          <5>2. p < m
            BY <1>12, <2>1, <4>1, <5>1
          <5>3. AsId(taken'[i]) = ids[p]
            BY <1>8, <1>12, <1>19, <5>1
          <5> QED
            BY <1>2, <4>2, <5>2, <5>3 DEF Rising
        <4> QED
          BY <1>14, <4>3, <4>4
      <3> QED
        BY <1>14, <3>1, <3>2
    <2>2. ASSUME NEW id \in DOMAIN stream', Before(since', id), ~ Before(Here', id)
          PROVE  \E i \in DOMAIN taken' : AsId(taken'[i]) = id
      <3>1. CASE Before(Here, id)
        <4>1. Here' = ids[k]
          BY <1>8, <1>10, <1>11, <1>19
        <4>2. PICK m \in 1..k : ids[m] = id
          BY <1>2, <1>9, <2>2, <3>1, <4>1
        <4>3. n + m \in DOMAIN taken' /\ AsId(taken'[n + m]) = id
          BY <1>4, <1>8, <1>12, <1>19, <4>2 DEF k
        <4> QED
          BY <4>3
      <3>2. CASE ~ Before(Here, id)
        <4>1. PICK i \in DOMAIN taken : AsId(taken[i]) = id
          BY <1>9, <1>19, <2>2, <3>2 DEF ReaderInv, EveryEntryOnce, Here
        <4>2. i \in 1..n /\ i \in DOMAIN taken'
          BY <1>4, <1>12 DEF k
        <4> QED
          BY <1>12, <4>1, <4>2
      <3> QED
        BY <3>1, <3>2
    <2>3. ASSUME NEW i \in DOMAIN taken' PROVE Before(since', AsId(taken'[i]))
      <3>1. CASE i \in 1..n
        BY <1>9, <1>12, <1>19, <3>1 DEF ReaderInv, EveryEntryOnce
      <3>2. CASE \E m \in 1..k : i = n + m
        <4>1. PICK m \in 1..k : i = n + m
          BY <3>2
        <4>2. AsId(taken'[i]) = ids[m] /\ ids[m] \in Pairs /\ Before(Here, ids[m])
          BY <1>2, <1>5, <1>8, <1>12, <1>19, <4>1
        <4>3. since \in Pairs
          BY DEF ReaderInv
        <4> QED
          BY <1>1, <1>9, <1>18, <1>19, <4>2, <4>3, Order
      <3> QED
        BY <1>14, <3>1, <3>2
    <2> QED
      BY <2>1, <2>2, <2>3 DEF EveryEntryOnce, Here
  <1>20. taken' # <<>>
    BY <1>4, <1>10, <1>12 DEF k
  <1>21. ~ AllExact => EveryEntryOnce'
    BY <1>15 DEF EveryEntryOnce
  <1> QED
    BY <1>9, <1>11, <1>12, <1>15, <1>16, <1>19, <1>20, <1>21 DEF ReaderInv

LEMMA ReaderStep == ServerTypes /\ ReaderInv /\ [Next]_vars => ReaderInv'
  <1> SUFFICES ASSUME ServerTypes, ReaderInv, [Next]_vars PROVE ReaderInv'
    OBVIOUS
  <1>1. ASSUME readerVars' = readerVars, added' = added, DOMAIN stream' \subseteq DOMAIN stream
        PROVE  ReaderInv'
    BY <1>1 DEF readerVars, ReaderInv, EveryEntryOnce, AllExact, Here
  <1>2. ASSUME NEW id \in Ids, Delete(id) PROVE ReaderInv'
    <2>1. readerVars' = readerVars /\ added' = added /\ DOMAIN stream' \subseteq DOMAIN stream
      BY <1>2 DEF Delete, readerVars
    <2> QED
      BY <1>1, <2>1
  <1>3. ASSUME NEW id \in Ids, NEW j \in BOOLEAN, Claim(id, j) PROVE ReaderInv'
    BY <1>1, <1>3 DEF Claim
  <1>4. ASSUME NEW n \in 1..MaxCount, ReadNew(n) PROVE ReaderInv'
    BY <1>1, <1>4 DEF ReadNew, Deliver
  <1>5. CASE OtherReads
    BY <1>1, <1>5 DEF OtherReads, Deliver
  <1>6. CASE ReadHistory
    BY <1>1, <1>6 DEF ReadHistory, serverVars
  <1>7. CASE Crash
    BY <1>1, <1>7 DEF Crash, serverVars
  <1>8. ASSUME NEW xid \in held, Ack(xid) PROVE ReaderInv'
    BY <1>1, <1>8 DEF Ack
  <1>9. CASE UNCHANGED vars
    BY <1>1, <1>9 DEF vars, serverVars
  <1>10. \A n \in 1..MaxCount : n \in Nat \ {0}
    BY StreamAssumption
  <1> QED
    BY <1>2, <1>3, <1>4, <1>5, <1>6, <1>7, <1>8, <1>9, <1>10, ReaderAdd, ReaderRead DEF Next

\* A reader starts with an empty list and the id it was told to start after.
LEMMA ReaderStarts == Init => ReaderInv
  <1> SUFFICES ASSUME Init PROVE ReaderInv
    OBVIOUS
  <1>1. stream = <<>> /\ taken = <<>> /\ since \in Pairs /\ cursor \in Forms(since)
    BY StreamAssumption DEF Init, Pairs
  <1>2. since = <<since[1], since[2]>>
    BY <1>1 DEF Pairs
  <1>3. \/ cursor = AsXId(since[1], since[2])
        \/ cursor = AsPair(since[1], since[2])
        \/ since[2] = 0 /\ cursor = AsNumber(since[1])
    BY <1>1 DEF Forms
  <1>4. Here = since
    <2>1. cursor = AsXId(since[1], since[2]) => Here = <<since[1], since[2]>>
      BY DEF AsXId, xidstr, IdOf, Here
    <2>2. cursor = AsPair(since[1], since[2]) => Here = <<since[1], since[2]>>
      BY DEF AsPair, xidstr, IdOf, Here
    <2>3. cursor = AsNumber(since[1]) => Here = <<since[1], 0>>
      BY DEF AsNumber, xidstr, IdOf, Here
    <2> QED
      BY <1>2, <1>3, <2>1, <2>2, <2>3
  <1>5. taken \in Seq(XId) /\ DOMAIN taken = {} /\ DOMAIN stream = {}
    BY <1>1
  <1> QED
    BY <1>1, <1>4, <1>5 DEF ReaderInv, EveryEntryOnce

\* For any ids, starts, entries and counts: a reader that passes on the last xid it was
\* given takes every entry after its start once and in order (stream.ts, parseXId() and
\* xidstr(), as xread() uses them).
THEOREM ReaderTakesEveryEntryOnce == Spec => []EveryEntryOnce
  <1>1. WorkerInv /\ ReaderInv /\ [Next]_vars => (WorkerInv /\ ReaderInv)'
    BY WorkerStep, ReaderStep DEF WorkerInv
  <1>2. Init => WorkerInv /\ ReaderInv
    BY WorkerStarts, ReaderStarts
  <1>3. WorkerInv /\ ReaderInv => EveryEntryOnce
    BY DEF ReaderInv
  <1> QED
    BY <1>1, <1>2, <1>3, PTL DEF Spec

-----------------------------------------------------------------------------
(* Maps.                                                                   *)

Maps(K, V) == UNION {[D -> V] : D \in SUBSET K}

LEMMA SetStays ==
    ASSUME NEW K, NEW V, NEW map \in Maps(K, V), NEW key \in K, NEW value \in V
    PROVE  Set(map, key, value) \in Maps(K, V)
  <1>1. PICK D \in SUBSET K : map \in [D -> V]
    BY DEF Maps
  <1>2. Set(map, key, value) \in [D \cup {key} -> V] /\ D \cup {key} \in SUBSET K
    BY <1>1 DEF Set
  <1> QED
    BY <1>2 DEF Maps

\* An element that is no name.
Unnamed(e) == e.got = <<"">>

\* The loop of FieldValues(), as far as it is gone.
FieldLoop(body, g) ==
    g = [m \in 0..Len(body) |->
            IF m = 0 THEN <<>>
            ELSE IF m % 2 = 1 \/ body[m - 1].got = <<"">> THEN g[m - 1]
            ELSE Set(g[m - 1], body[m - 1].got, body[m].got)]

LEMMA FieldsLoop ==
    ASSUME NEW S, NEW body \in Seq(S)
    PROVE  \E g : FieldLoop(body, g) /\ FieldValues(body) = g[Len(body)]
  <1> DEFINE n == Len(body)
             K == {body[m].got : m \in 1..n}
             M == Maps(K, K)
             next(m, v) == IF m % 2 = 1 \/ body[m - 1].got = <<"">> THEN v
                           ELSE Set(v, body[m - 1].got, body[m].got)
             step == [m \in 1..n |-> [v \in M |-> next(m, v)]]
             first == <<>>
             w == CHOOSE g : FieldLoop(body, g)
  <1>1. n \in Nat /\ \A m \in 1..n : body[m].got \in K
    OBVIOUS
  <1> HIDE DEF next, n, K, step
  <1>2. \A m \in 1..n : m % 2 # 1 => m - 1 \in 1..n
    BY <1>1
  <1>3. first \in M
    <2>1. <<>> \in [{} -> K] /\ {} \in SUBSET K
      OBVIOUS
    <2> QED
      BY <2>1 DEF Maps
  <1>4. \A m \in 1..n, v \in M : next(m, v) \in M
    BY <1>1, <1>2, SetStays DEF next
  <1> HIDE DEF M
  <1>5. step \in Steps(n, M)
    BY <1>4 DEF Steps, step
  <1>6. \A m \in 1..n, v \in M : step[m][v] = next(m, v)
    BY DEF step
  <1> HIDE DEF first
  <1>7. PICK g : Runs(g, n, M, first, step)
    BY <1>1, <1>3, <1>5, LoopExists
  <1>8. FieldLoop(body, g)
    <2>1. \A m \in 1..n : g[m] = next(m, g[m - 1])
      <3>1. \A m \in 1..n : m - 1 \in 0..n
        BY <1>1
      <3> QED
        BY <1>6, <1>7, <3>1 DEF Runs
    <2>2. \A m \in 0..n : g[m] = IF m = 0 THEN first ELSE next(m, g[m - 1])
      <3>1. \A m \in 0..n : m = 0 \/ m \in 1..n
        BY <1>1
      <3> QED
        BY <1>7, <2>1, <3>1 DEF Runs
    <2>3. g = [m \in 0..n |-> g[m]]
      BY <1>7 DEF Runs
    <2>4. g = [m \in 0..n |-> IF m = 0 THEN first ELSE next(m, g[m - 1])]
      BY <2>2, <2>3
    <2> QED
      BY <2>4 DEF FieldLoop, n, next, first
  <1>9. FieldLoop(body, w)
    BY <1>8
  <1>10. FieldValues(body) = w[n]
    BY DEF FieldValues, FieldLoop, n
  <1> QED
    BY <1>9, <1>10 DEF n

\* The places of names before place m, and of those that no later one repeats.
Names(body, m) == {k \in 1..m : k % 2 = 1 /\ k < m /\ ~ Unnamed(body[k])}
LastNames(body, m) ==
    {k \in Names(body, m) : \A j \in Names(body, m) : j > k => body[j].got # body[k].got}

\* The fields of the first m elements.
FieldsUpto(body, m, map) ==
    /\ \A k \in LastNames(body, m) :
           body[k].got \in DOMAIN map /\ map[body[k].got] = body[k + 1].got
    /\ \A f \in DOMAIN map : \E k \in LastNames(body, m) : body[k].got = f

LEMMA FieldKept ==
    ASSUME NEW body, NEW m \in Nat, m > 0, m % 2 = 1 \/ Unnamed(body[m - 1])
    PROVE  Names(body, m) = Names(body, m - 1)
  <1>1. \A k \in 1..m : k % 2 = 1 /\ k < m /\ ~ Unnamed(body[k]) =>
            k \in 1 .. m - 1 /\ k < m - 1
    <2> SUFFICES ASSUME NEW k \in 1..m, k % 2 = 1, k < m, ~ Unnamed(body[k])
                 PROVE  k \in 1 .. m - 1 /\ k < m - 1
      OBVIOUS
    <2>1. k # m - 1
      <3>1. CASE m % 2 = 1
        BY <3>1
      <3>2. CASE Unnamed(body[m - 1])
        BY <3>2
      <3> QED
        BY <3>1, <3>2
    <2> QED
      BY <2>1
  <1>2. \A k \in 1 .. m - 1 : k < m - 1 => k \in 1..m /\ k < m
    OBVIOUS
  <1> QED
    BY <1>1, <1>2 DEF Names

LEMMA FieldAdded ==
    ASSUME NEW body, NEW m \in Nat, m > 0, m % 2 # 1, ~ Unnamed(body[m - 1])
    PROVE  Names(body, m) = Names(body, m - 1) \cup {m - 1}
  <1>1. m - 1 \in 1..m /\ (m - 1) % 2 = 1 /\ m - 1 < m
    OBVIOUS
  <1>2. \A k \in 1..m : k < m /\ k # m - 1 => k \in 1 .. m - 1 /\ k < m - 1
    OBVIOUS
  <1>3. \A k \in 1 .. m - 1 : k < m - 1 => k \in 1..m /\ k < m
    OBVIOUS
  <1> QED
    BY <1>1, <1>2, <1>3 DEF Names

LEMMA FieldsGrow ==
    ASSUME NEW body, NEW m \in Nat, m > 0, NEW map, NEW next,
           FieldsUpto(body, m - 1, map),
           next = IF m % 2 = 1 \/ Unnamed(body[m - 1]) THEN map
                  ELSE Set(map, body[m - 1].got, body[m].got)
    PROVE  FieldsUpto(body, m, next)
  <1>1. CASE m % 2 = 1 \/ Unnamed(body[m - 1])
    <2>1. LastNames(body, m) = LastNames(body, m - 1) /\ next = map
      BY <1>1, FieldKept DEF LastNames
    <2> QED
      BY <2>1 DEF FieldsUpto
  <1>2. CASE ~ (m % 2 = 1 \/ Unnamed(body[m - 1]))
    <2> DEFINE key == body[m - 1].got
    <2>1. Names(body, m) = Names(body, m - 1) \cup {m - 1}
      BY <1>2, FieldAdded
    <2>2. \A k \in Names(body, m - 1) : k \in Nat /\ k < m - 1
      BY DEF Names
    <2>3. LastNames(body, m) = {m - 1} \cup {k \in LastNames(body, m - 1) : body[k].got # key}
      <3>1. ASSUME NEW k \in Names(body, m), k # m - 1
            PROVE  k \in LastNames(body, m) <=> k \in LastNames(body, m - 1) /\ body[k].got # key
        <4>1. k \in Names(body, m - 1) /\ m - 1 > k
          BY <2>1, <2>2, <3>1
        <4> QED
          BY <2>1, <4>1 DEF LastNames
      <3>2. m - 1 \in LastNames(body, m)
        <4>1. \A j \in Names(body, m) : ~ (j > m - 1)
          BY <2>1, <2>2
        <4> QED
          BY <2>1, <4>1 DEF LastNames
      <3>3. \A k \in LastNames(body, m) : k \in Names(body, m)
        BY DEF LastNames
      <3>4. \A k \in LastNames(body, m - 1) : k \in Names(body, m) /\ k # m - 1
        BY <2>1, <2>2 DEF LastNames
      <3> QED
        BY <3>1, <3>2, <3>3, <3>4
    <2>4. /\ DOMAIN next = DOMAIN map \cup {key} /\ next[key] = body[m].got
          /\ \A f \in DOMAIN map : f # key => next[f] = map[f]
      <3> DEFINE value == body[m].got
      <3>1. next = Set(map, key, value)
        BY <1>2
      <3> HIDE DEF key, value
      <3>2. /\ DOMAIN next = DOMAIN map \cup {key} /\ next[key] = value
            /\ \A f \in DOMAIN map : f # key => next[f] = map[f]
        BY <3>1 DEF Set
      <3> QED
        BY <3>2 DEF value
    <2>5. (m - 1) + 1 = m
      OBVIOUS
    <2> QED
      BY <2>3, <2>4, <2>5 DEF FieldsUpto
  <1> QED
    BY <1>1, <1>2

LEMMA FieldValuesAre ==
    ASSUME NEW S, NEW body \in Seq(S)
    PROVE  FieldsUpto(body, Len(body), FieldValues(body))
  <1> DEFINE n == Len(body)
  <1>1. PICK g : FieldLoop(body, g) /\ FieldValues(body) = g[n]
    BY FieldsLoop
  <1>2. n \in Nat
    OBVIOUS
  <1>3. \A m \in 0..n : g[m] = IF m = 0 THEN <<>>
            ELSE IF m % 2 = 1 \/ Unnamed(body[m - 1]) THEN g[m - 1]
            ELSE Set(g[m - 1], body[m - 1].got, body[m].got)
    BY <1>1 DEF FieldLoop, Unnamed
  <1> HIDE DEF n
  <1> DEFINE Good == {m \in Nat : m <= n => FieldsUpto(body, m, g[m])}
  <1>4. 0 \in Good
    <2>1. g[0] = <<>>
      BY <1>2, <1>3
    <2>2. Names(body, 0) = {} /\ DOMAIN <<>> = {}
      BY DEF Names
    <2> QED
      BY <2>1, <2>2 DEF FieldsUpto, LastNames
  <1>5. ASSUME NEW m \in Nat, m \in Good PROVE m + 1 \in Good
    <2> SUFFICES ASSUME m + 1 <= n PROVE FieldsUpto(body, m + 1, g[m + 1])
      OBVIOUS
    <2>1. m + 1 \in 0..n /\ m + 1 > 0 /\ (m + 1) - 1 = m /\ m + 1 # 0 /\ m <= n
      BY <1>2
    <2>2. g[m + 1] = IF (m + 1) % 2 = 1 \/ Unnamed(body[(m + 1) - 1]) THEN g[m]
                     ELSE Set(g[m], body[(m + 1) - 1].got, body[m + 1].got)
      BY <1>3, <2>1
    <2>3. FieldsUpto(body, (m + 1) - 1, g[m])
      BY <1>5, <2>1
    <2> QED
      BY <2>1, <2>2, <2>3, FieldsGrow
  <1> HIDE DEF Good
  <1>6. n \in Good
    BY <1>2, <1>4, <1>5, LeastCounterexample
  <1> QED
    BY <1>1, <1>2, <1>6 DEF Good, n

\* What parseXMessage() makes of a body of names and values: for every name but the empty
\* one, the value given last.
LEMMA FieldValuesOf ==
    ASSUME NEW S, NEW body \in Seq(S), Len(body) % 2 = 0
    PROVE  {<<f, FieldValues(body)[f]>> : f \in DOMAIN FieldValues(body)} = FieldsOf(body)
  <1> DEFINE n == Len(body)
             map == FieldValues(body)
             names == {k \in DOMAIN body : k % 2 = 1 /\ ~ Unnamed(body[k])}
             last == {k \in names : \A m \in names : m > k => body[m].got # body[k].got}
  <1>1. FieldsUpto(body, n, map)
    BY FieldValuesAre
  <1>2. names = Names(body, n)
    <2>1. DOMAIN body = 1..n /\ n \in Nat
      OBVIOUS
    <2>2. \A k \in 1..n : k % 2 = 1 => k < n
      BY <2>1
    <2> HIDE DEF n
    <2> QED
      BY <2>1, <2>2 DEF Names, Unnamed
  <1>3. last = LastNames(body, n)
    BY <1>2 DEF LastNames
  <1>4. FieldsOf(body) = {<<body[k].got, body[k + 1].got>> : k \in last}
    BY Zenon DEF FieldsOf, Unnamed
  <1> HIDE DEF n, map, names, last
  <1>5. \A k \in last : body[k].got \in DOMAIN map /\ map[body[k].got] = body[k + 1].got
    BY <1>1, <1>3 DEF FieldsUpto
  <1>6. \A f \in DOMAIN map : \E k \in last : body[k].got = f
    BY <1>1, <1>3 DEF FieldsUpto
  <1> QED
    BY <1>4, <1>5, <1>6 DEF map

-----------------------------------------------------------------------------
(* A loop over names and values.                                           *)

\* The loop of convertMap(), as far as it is gone.
MapLoop(raw, g) ==
    g = [m \in 0..Len(raw) |->
            IF m = 0 THEN [f |-> <<"">>, map |-> <<>>] ELSE MapStep(g[m - 1], m, raw[m])]

LEMMA MapLoops ==
    ASSUME NEW S, NEW raw \in Seq(S)
    PROVE  \E g : MapLoop(raw, g) /\ convertMap(raw) = g[Len(raw)].map
  <1> DEFINE n == Len(raw)
             V == {raw[m] : m \in 1..n}
             K == {<<"">>} \cup {raw[m].got : m \in 1..n}
             M == Maps(K, V)
             L == [f : K, map : M]
             step == [m \in 1..n |-> [v \in L |-> MapStep(v, m, raw[m])]]
             first == [f |-> <<"">>, map |-> <<>>]
             w == CHOOSE g : MapLoop(raw, g)
  <1>1. n \in Nat
    OBVIOUS
  <1>10. \A m \in 1..n : raw[m] \in V /\ raw[m].got \in K
    OBVIOUS
  <1>11. <<"">> \in K
    OBVIOUS
  <1> HIDE DEF n, V, K
  <1>2. first \in L
    <2>1. <<>> \in [{} -> V] /\ {} \in SUBSET K
      OBVIOUS
    <2>2. <<>> \in M
      BY <2>1 DEF Maps
    <2> HIDE DEF M
    <2> QED
      BY <1>11, <2>2
  <1>3. ASSUME NEW m \in 1..n, NEW v \in L PROVE MapStep(v, m, raw[m]) \in L
    <2>1. v.f \in K /\ v.map \in M
      <3> HIDE DEF M
      <3> QED
        OBVIOUS
    <2>2. Set(v.map, v.f, raw[m]) \in M
      BY <1>10, <2>1, SetStays
    <2>3. raw[m].got \in K
      BY <1>10
    <2> HIDE DEF M
    <2>4. [v EXCEPT !.f = raw[m].got] \in L /\ [v EXCEPT !.map = Set(v.map, v.f, raw[m])] \in L
      BY <2>1, <2>2, <2>3
    <2> QED
      BY <2>4 DEF MapStep
  <1> HIDE DEF L
  <1>4. step \in Steps(n, L)
    BY <1>3 DEF Steps
  <1>5. \A m \in 1..n, v \in L : step[m][v] = MapStep(v, m, raw[m])
    OBVIOUS
  <1> HIDE DEF step, first
  <1>6. PICK g : Runs(g, n, L, first, step)
    BY <1>1, <1>2, <1>4, LoopExists
  <1>7. MapLoop(raw, g)
    <2>1. \A m \in 1..n : g[m] = MapStep(g[m - 1], m, raw[m])
      <3>1. \A m \in 1..n : m - 1 \in 0..n
        BY <1>1
      <3> QED
        BY <1>5, <1>6, <3>1 DEF Runs
    <2>2. \A m \in 0..n : g[m] = IF m = 0 THEN first ELSE MapStep(g[m - 1], m, raw[m])
      <3>1. \A m \in 0..n : m = 0 \/ m \in 1..n
        BY <1>1
      <3> QED
        BY <1>6, <2>1, <3>1 DEF Runs
    <2>3. g = [m \in 0..n |-> g[m]]
      BY <1>6 DEF Runs
    <2>4. g = [m \in 0..n |-> IF m = 0 THEN first ELSE MapStep(g[m - 1], m, raw[m])]
      BY <2>2, <2>3
    <2> QED
      BY <2>4 DEF MapLoop, n, first
  <1>8. MapLoop(raw, w)
    BY <1>7
  <1>9. convertMap(raw) = w[n].map
    BY DEF convertMap, MapLoop, n
  <1> QED
    BY <1>8, <1>9 DEF n

\* Names at the odd places, and no name twice.
Fields(raw) ==
    /\ Len(raw) % 2 = 0
    /\ \A i \in 1 .. Len(raw) : i % 2 = 1 =>
           /\ isString(raw[i]) /\ ~ Unnamed(raw[i])
           /\ \A j \in 1 .. Len(raw) : j % 2 = 1 /\ i # j => raw[i].got # raw[j].got

\* The map after the first m elements.
MapUpto(raw, m, loop) ==
    /\ loop = [f |-> loop.f, map |-> loop.map]
    /\ m % 2 = 1 => loop.f = raw[m].got
    /\ \A k \in 1..m : k % 2 = 1 /\ k < m =>
           raw[k].got \in DOMAIN loop.map /\ loop.map[raw[k].got] = raw[k + 1]

LEMMA MapGrows ==
    ASSUME NEW raw, NEW m \in 1 .. Len(raw), Len(raw) \in Nat, Fields(raw), NEW loop,
           MapUpto(raw, m - 1, loop)
    PROVE  MapUpto(raw, m, MapStep(loop, m, raw[m]))
  <1> DEFINE next == MapStep(loop, m, raw[m])
  <1>1. loop = [f |-> loop.f, map |-> loop.map]
    BY DEF MapUpto
  <1>2. CASE m % 2 = 1
    <2>1. isString(raw[m])
      BY <1>2 DEF Fields
    <2>2. next = [f |-> raw[m].got, map |-> loop.map]
      BY <1>1, <1>2, <2>1 DEF MapStep
    <2>3. next = [f |-> next.f, map |-> next.map] /\ next.f = raw[m].got /\ next.map = loop.map
      BY <2>2
    <2>4. \A k \in 1..m : k % 2 = 1 /\ k < m => k \in 1 .. m - 1 /\ k < m - 1
      <3> SUFFICES ASSUME NEW k \in 1..m, k % 2 = 1, k < m PROVE k \in 1 .. m - 1 /\ k < m - 1
        OBVIOUS
      <3>1. k # m - 1
        BY <1>2
      <3> QED
        BY <3>1
    <2>5. \A k \in 1..m : k % 2 = 1 /\ k < m =>
              raw[k].got \in DOMAIN next.map /\ next.map[raw[k].got] = raw[k + 1]
      BY <2>3, <2>4 DEF MapUpto
    <2> HIDE DEF next
    <2>6. MapUpto(raw, m, next)
      BY <2>3, <2>5 DEF MapUpto
    <2> QED
      BY <2>6 DEF next
  <1>3. CASE m % 2 # 1
    <2> DEFINE key == loop.f
               data == raw[m]
               p == m - 1
    <2>1. p \in 1 .. Len(raw) /\ p % 2 = 1 /\ p < m /\ p + 1 = m
      BY <1>3
    <2> HIDE DEF p
    <2>2. key = raw[p].got
      BY <2>1 DEF MapUpto, p
    <2>3. key # <<"">>
      BY <2>1, <2>2 DEF Fields, Unnamed
    <2>4. next = [f |-> key, map |-> Set(loop.map, key, data)]
      BY <1>1, <1>3, <2>3 DEF MapStep
    <2>5. next = [f |-> next.f, map |-> next.map] /\ next.map = Set(loop.map, key, data)
      BY <2>4
    <2> HIDE DEF next, key
    <2>6. /\ DOMAIN next.map = DOMAIN loop.map \cup {key} /\ next.map[key] = data
          /\ \A f \in DOMAIN loop.map : f # key => next.map[f] = loop.map[f]
      BY <2>5 DEF Set
    <2>7. ASSUME NEW k \in 1..m, k < m, k # p PROVE k \in 1..p /\ k < p /\ k \in 1 .. Len(raw)
      BY <2>1, <2>7
    <2>8. ASSUME NEW k \in 1..m, k % 2 = 1, k < m
          PROVE  raw[k].got \in DOMAIN next.map /\ next.map[raw[k].got] = raw[k + 1]
      <3>1. CASE k = p
        BY <2>1, <2>2, <2>6, <3>1
      <3>2. CASE k # p
        <4>1. k \in 1..p /\ k < p /\ k \in 1 .. Len(raw)
          BY <2>7, <2>8, <3>2
        <4>2. raw[k].got \in DOMAIN loop.map /\ loop.map[raw[k].got] = raw[k + 1]
          BY <2>8, <4>1 DEF MapUpto, p
        <4>3. raw[k].got # key
          BY <2>1, <2>2, <2>8, <3>2, <4>1 DEF Fields
        <4> QED
          BY <2>6, <4>2, <4>3
      <3> QED
        BY <3>1, <3>2
    <2> QED
      BY <1>3, <2>5, <2>8 DEF MapUpto, next
  <1> QED
    BY <1>2, <1>3

\* convertMap() finds the value of every name.
LEMMA MapHolds ==
    ASSUME NEW S, NEW raw \in Seq(S), Fields(raw), NEW i \in 1 .. Len(raw), i % 2 = 1
    PROVE  raw[i].got \in DOMAIN convertMap(raw) /\ convertMap(raw)[raw[i].got] = raw[i + 1]
  <1> DEFINE n == Len(raw)
  <1>1. PICK g : MapLoop(raw, g) /\ convertMap(raw) = g[n].map
    BY MapLoops
  <1>2. n \in Nat
    OBVIOUS
  <1>3. \A m \in 0..n : g[m] = IF m = 0 THEN [f |-> <<"">>, map |-> <<>>]
                                ELSE MapStep(g[m - 1], m, raw[m])
    BY <1>1 DEF MapLoop
  <1>4. i < n
    BY DEF Fields
  <1> DEFINE Good == {m \in Nat : m <= n => MapUpto(raw, m, g[m])}
             first == [f |-> <<"">>, map |-> <<>>]
  <1>9. \A m \in 0..n : g[m] = IF m = 0 THEN first ELSE MapStep(g[m - 1], m, raw[m])
    BY <1>3
  <1>10. first = [f |-> first.f, map |-> first.map]
    OBVIOUS
  <1> HIDE DEF n, first
  <1>5. 0 \in Good
    <2>1. g[0] = first
      BY <1>2, <1>9
    <2> QED
      BY <1>10, <2>1 DEF MapUpto
  <1>6. ASSUME NEW m \in Nat, m \in Good PROVE m + 1 \in Good
    <2> SUFFICES ASSUME m + 1 <= n PROVE MapUpto(raw, m + 1, g[m + 1])
      OBVIOUS
    <2>1. m + 1 \in 0..n /\ m + 1 \in 1..n /\ m + 1 # 0 /\ (m + 1) - 1 = m /\ m <= n
      BY <1>2
    <2>2. g[m + 1] = MapStep(g[m], m + 1, raw[m + 1])
      BY <1>9, <2>1
    <2>3. MapUpto(raw, (m + 1) - 1, g[m])
      BY <1>6, <2>1
    <2>4. MapUpto(raw, m + 1, MapStep(g[m], m + 1, raw[m + 1]))
      BY <1>2, <2>1, <2>3, MapGrows DEF n
    <2> QED
      BY <2>2, <2>4
  <1> HIDE DEF Good
  <1>7. n \in Good
    BY <1>2, <1>5, <1>6, LeastCounterexample
  <1>8. MapUpto(raw, n, g[n])
    BY <1>2, <1>7 DEF Good
  <1> HIDE DEF n
  <1> QED
    BY <1>1, <1>2, <1>4, <1>8 DEF MapUpto, n

-----------------------------------------------------------------------------
(* The fields of a reply in whatever order they come.                      *)

NoName == ""

\* Names of their own, none of them empty.
Distinct(fields) ==
    \A i \in 1 .. Len(fields) :
        /\ fields[i][1] # NoName
        /\ \A j \in 1 .. Len(fields) : i # j => fields[i][1] # fields[j][1]

\* t holds the elements of s from the one after the k-th.
Turned(t, s, k) ==
    /\ Len(t) = Len(s)
    /\ \A p \in 1 .. Len(s) : t[p] = s[IF p <= Len(s) - k THEN p + k ELSE p - (Len(s) - k)]

LEMMA Turns ==
    ASSUME NEW S, NEW s \in Seq(S), NEW k \in 0 .. Len(s)
    PROVE  Turned(SubSeq(s, k + 1, Len(s)) \o SubSeq(s, 1, k), s, k)
  <1> DEFINE n == Len(s)
             a == SubSeq(s, k + 1, n)
             b == SubSeq(s, 1, k)
  <1>1. n \in Nat
    OBVIOUS
  <1>2. a \in Seq(S) /\ Len(a) = n - k /\ \A p \in 1 .. n - k : a[p] = s[p + k]
    OBVIOUS
  <1>3. b \in Seq(S) /\ Len(b) = k /\ \A p \in 1..k : b[p] = s[p]
    OBVIOUS
  <1> HIDE DEF n, a, b
  <1>4. Len(a \o b) = n
    BY <1>1, <1>2, <1>3
  <1>5. ASSUME NEW p \in 1..n
        PROVE  (a \o b)[p] = s[IF p <= n - k THEN p + k ELSE p - (n - k)]
    <2>1. CASE p <= n - k
      <3>1. p \in 1 .. n - k
        BY <1>1, <2>1
      <3>2. (a \o b)[p] = a[p]
        BY <1>1, <1>2, <1>3, <3>1
      <3> QED
        BY <1>2, <2>1, <3>1, <3>2
    <2>2. CASE ~ (p <= n - k)
      <3>1. p - (n - k) \in 1..k /\ p = (n - k) + (p - (n - k))
        BY <1>1, <2>2 DEF n
      <3>2. (a \o b)[p] = b[p - (n - k)]
        BY <1>1, <1>2, <1>3, <2>2, <3>1
      <3> QED
        BY <1>3, <2>2, <3>1, <3>2
    <2> QED
      BY <2>1, <2>2
  <1> QED
    BY <1>4, <1>5 DEF Turned, n, a, b

LEMMA TurnedFields ==
    ASSUME NEW S, NEW s \in Seq(S), NEW k \in 0 .. Len(s), NEW t, Turned(t, s, k), Distinct(s)
    PROVE  /\ Distinct(t)
           /\ \A i \in 1 .. Len(s) : \E p \in 1 .. Len(t) : t[p] = s[i]
  <1> DEFINE n == Len(s)
             from(p) == IF p <= n - k THEN p + k ELSE p - (n - k)
  <1>1. n \in Nat /\ Len(t) = n /\ \A p \in 1..n : t[p] = s[from(p)]
    BY DEF Turned
  <1>2. \A p \in 1..n : from(p) \in 1..n
    BY <1>1
  <1>3. \A p, q \in 1..n : p # q => from(p) # from(q)
    BY <1>1
  <1>4. \A i \in 1..n : \E p \in 1..n : from(p) = i
    <2> SUFFICES ASSUME NEW i \in 1..n PROVE \E p \in 1..n : from(p) = i
      OBVIOUS
    <2>1. CASE i > k
      <3>1. i - k \in 1..n /\ from(i - k) = i
        BY <1>1, <2>1
      <3> QED
        BY <3>1
    <2>2. CASE ~ (i > k)
      <3>1. i + (n - k) \in 1..n /\ from(i + (n - k)) = i
        BY <1>1, <2>2
      <3> QED
        BY <3>1
    <2> QED
      BY <2>1, <2>2
  <1> HIDE DEF from
  <1>5. Distinct(t)
    <2> SUFFICES ASSUME NEW p \in 1..n
                 PROVE  t[p][1] # NoName /\ \A q \in 1..n : p # q => t[p][1] # t[q][1]
      BY <1>1 DEF Distinct
    <2>1. t[p] = s[from(p)] /\ from(p) \in 1..n
      BY <1>1, <1>2
    <2>2. t[p][1] # NoName
      BY <2>1 DEF Distinct
    <2>3. ASSUME NEW q \in 1..n, p # q PROVE t[p][1] # t[q][1]
      <3>1. t[q] = s[from(q)] /\ from(q) \in 1..n /\ from(p) # from(q)
        BY <1>1, <1>2, <1>3, <2>3
      <3> QED
        BY <2>1, <3>1 DEF Distinct
    <2> QED
      BY <2>2, <2>3
  <1> QED
    BY <1>1, <1>4, <1>5

\* Names and values in turn.
Flat(fields) ==
    [i \in 1 .. 2 * Len(fields) |->
        IF i % 2 = 1 THEN Word(fields[(i + 1) \div 2][1]) ELSE fields[i \div 2][2]]

LEMMA Words ==
    /\ \A w : isString(Word(w)) /\ Word(w).got = <<w>>
    /\ \A w : Unnamed(Word(w)) <=> w = NoName
    /\ \A w, x : <<w>> = <<x>> <=> w = x
  BY DEF Word, Str, isString, Unnamed, NoName

LEMMA FlatFields ==
    ASSUME NEW t, Len(t) \in Nat, Distinct(t), NEW p \in 1 .. Len(t)
    PROVE  Get(convertMap(Flat(t)), t[p][1]) = t[p][2]
  <1> DEFINE n == Len(t)
             raw == Flat(t)
             R == {raw[i] : i \in 1 .. 2 * n}
             at(i) == (i + 1) \div 2
  <1>1. raw = [i \in 1 .. 2 * n |->
                  IF i % 2 = 1 THEN Word(t[at(i)][1]) ELSE t[i \div 2][2]]
    BY DEF Flat
  <1>2. 2 * n \in Nat /\ (2 * n) % 2 = 0
    OBVIOUS
  <1>3. raw = [i \in 1 .. 2 * n |-> raw[i]]
    BY <1>1
  <1> HIDE DEF raw
  <1>4. raw \in Seq(R) /\ Len(raw) = 2 * n
    BY <1>2, <1>3
  <1>5. \A i \in 1 .. 2 * n : i % 2 = 1 => at(i) \in 1..n
    OBVIOUS
  <1>6. \A i, j \in 1 .. 2 * n : i % 2 = 1 /\ j % 2 = 1 /\ i # j => at(i) # at(j)
    OBVIOUS
  <1>7. \A i \in 1 .. 2 * n : i % 2 = 1 => raw[i] = Word(t[at(i)][1])
    BY <1>1
  <1>8. /\ 2 * p - 1 \in 1 .. 2 * n /\ (2 * p - 1) % 2 = 1 /\ at(2 * p - 1) = p
        /\ 2 * p \in 1 .. 2 * n /\ (2 * p) % 2 # 1 /\ (2 * p) \div 2 = p
        /\ (2 * p - 1) + 1 = 2 * p
    OBVIOUS
  <1>9. raw[2 * p - 1] = Word(t[p][1]) /\ raw[2 * p] = t[p][2]
    BY <1>1, <1>8
  <1> HIDE DEF at, n, R
  <1>10. Fields(raw)
    <2>1. Len(raw) % 2 = 0
      BY <1>2, <1>4
    <2>2. ASSUME NEW i \in 1 .. 2 * n, i % 2 = 1
          PROVE  /\ isString(raw[i]) /\ ~ Unnamed(raw[i])
                 /\ \A j \in 1 .. 2 * n : j % 2 = 1 /\ i # j => raw[i].got # raw[j].got
      <3>1. at(i) \in 1..n /\ raw[i] = Word(t[at(i)][1])
        BY <1>5, <1>7, <2>2
      <3>2. t[at(i)][1] # NoName
        BY <3>1 DEF Distinct, n
      <3>3. isString(raw[i]) /\ ~ Unnamed(raw[i])
        <4> DEFINE w == t[at(i)][1]
        <4>1. w # NoName /\ raw[i] = Word(w)
          BY <3>1, <3>2
        <4> HIDE DEF w
        <4>2. isString(Word(w)) /\ ~ Unnamed(Word(w))
          BY <4>1, Words
        <4> QED
          BY <4>1, <4>2
      <3>4. ASSUME NEW j \in 1 .. 2 * n, j % 2 = 1, i # j PROVE raw[i].got # raw[j].got
        <4>1. at(j) \in 1..n /\ raw[j] = Word(t[at(j)][1]) /\ at(i) # at(j)
          BY <1>5, <1>6, <1>7, <2>2, <3>4
        <4>2. t[at(i)][1] # t[at(j)][1]
          BY <3>1, <4>1 DEF Distinct, n
        <4>3. raw[i].got = <<t[at(i)][1]>> /\ raw[j].got = <<t[at(j)][1]>>
          <5>1. Word(t[at(i)][1]).got = <<t[at(i)][1]>> /\ Word(t[at(j)][1]).got = <<t[at(j)][1]>>
            BY Words
          <5> QED
            BY <3>1, <4>1, <5>1
        <4> QED
          BY <4>2, <4>3
      <3> QED
        BY <3>3, <3>4
    <2> QED
      BY <1>4, <2>1, <2>2 DEF Fields
  <1>11. /\ raw[2 * p - 1].got \in DOMAIN convertMap(raw)
         /\ convertMap(raw)[raw[2 * p - 1].got] = raw[2 * p]
    BY <1>4, <1>8, <1>10, MapHolds
  <1>12. raw[2 * p - 1].got = <<t[p][1]>>
    BY <1>9, Words
  <1>13. <<t[p][1]>> \in DOMAIN convertMap(raw) /\ convertMap(raw)[<<t[p][1]>>] = t[p][2]
    BY <1>9, <1>11, <1>12
  <1> QED
    BY <1>13 DEF Get, raw

\* A field is found by its name, in whatever order the fields come.
LEMMA FieldFound ==
    ASSUME NEW S, NEW fields \in Seq(S), Distinct(fields), NEW k \in 0 .. Len(fields),
           NEW i \in 1 .. Len(fields)
    PROVE  Get(convertMap(From(k, fields)), fields[i][1]) = fields[i][2]
  <1> DEFINE t == SubSeq(fields, k + 1, Len(fields)) \o SubSeq(fields, 1, k)
  <1>1. Turned(t, fields, k)
    BY Turns
  <1>2. From(k, fields) = Flat(t)
    BY DEF From, Flat
  <1> HIDE DEF t
  <1>3. Len(t) \in Nat
    BY <1>1 DEF Turned
  <1>4. Distinct(t)
    BY <1>1, TurnedFields
  <1>5. PICK p \in 1 .. Len(t) : t[p] = fields[i]
    BY <1>1, TurnedFields
  <1>6. Get(convertMap(Flat(t)), t[p][1]) = t[p][2]
    BY <1>3, <1>4, FlatFields
  <1> QED
    BY <1>2, <1>5, <1>6

-----------------------------------------------------------------------------
(* The fields of the replies, by their names.                              *)

LEMMA InfoFound ==
    ASSUME NEW k \in Orders
    PROVE  LET data == convertMap(From(k, RawInfo)) IN
           /\ Get(data, "length") = Num(Cardinality(DOMAIN stream))
           /\ Get(data, "last-generated-id") = IdStr(Newest(added))
           /\ Get(data, "groups") = Num(1)
           /\ Get(data, "first-entry") = EntryOrNil(Head(InOrder(DOMAIN stream)))
           /\ Get(data, "last-entry") = EntryOrNil(Last(InOrder(DOMAIN stream)))
  <1> DEFINE fields == RawInfo
             S == {fields[i] : i \in 1..8}
             data == convertMap(From(k, fields))
  <1>1. /\ Len(fields) = 8
        /\ fields[1] = <<"length", Num(Cardinality(DOMAIN stream))>>
        /\ fields[2] = <<"radix-tree-keys", Num(1)>>
        /\ fields[3] = <<"radix-tree-nodes", Num(2)>>
        /\ fields[4] = <<"unknown", Word("length")>>
        /\ fields[5] = <<"last-generated-id", IdStr(Newest(added))>>
        /\ fields[6] = <<"groups", Num(1)>>
        /\ fields[7] = <<"first-entry", EntryOrNil(Head(InOrder(DOMAIN stream)))>>
        /\ fields[8] = <<"last-entry", EntryOrNil(Last(InOrder(DOMAIN stream)))>>
    BY DEF RawInfo
  <1>2. fields \in Seq(S)
    BY DEF RawInfo
  <1> HIDE DEF fields, S
  <1>3. /\ fields[1][1] = "length" /\ fields[2][1] = "radix-tree-keys"
        /\ fields[3][1] = "radix-tree-nodes" /\ fields[4][1] = "unknown"
        /\ fields[5][1] = "last-generated-id" /\ fields[6][1] = "groups"
        /\ fields[7][1] = "first-entry" /\ fields[8][1] = "last-entry"
    BY <1>1
  <1>4. ASSUME NEW i \in 1..8 PROVE fields[i][1] # NoName
    <2>1. /\ fields[1][1] # NoName /\ fields[2][1] # NoName /\ fields[3][1] # NoName
          /\ fields[4][1] # NoName /\ fields[5][1] # NoName /\ fields[6][1] # NoName
          /\ fields[7][1] # NoName /\ fields[8][1] # NoName
      BY <1>3 DEF NoName
    <2> QED
      BY <2>1
  <1>5. ASSUME NEW i \in 1..8, NEW j \in 1..8, i # j PROVE fields[i][1] # fields[j][1]
    BY <1>3, <1>5
  <1>6. Distinct(fields)
    BY <1>1, <1>4, <1>5 DEF Distinct
  <1>7. k \in 0 .. Len(fields)
    BY <1>1, StreamAssumption
  <1>8. \A i \in 1..8 : Get(data, fields[i][1]) = fields[i][2]
    BY <1>1, <1>2, <1>6, <1>7, FieldFound
  <1> HIDE DEF data
  <1>9. /\ Get(data, fields[1][1]) = fields[1][2] /\ Get(data, fields[5][1]) = fields[5][2]
        /\ Get(data, fields[6][1]) = fields[6][2] /\ Get(data, fields[7][1]) = fields[7][2]
        /\ Get(data, fields[8][1]) = fields[8][2]
    BY <1>8
  <1> QED
    BY <1>1, <1>9 DEF data, fields

LEMMA FullFound ==
    ASSUME NEW k \in Orders
    PROVE  LET data == convertMap(From(k, RawInfoFull(k))) IN
           /\ Get(data, "entries") = Arr(RawEntries(InOrder(DOMAIN stream)))
           /\ Get(data, "groups") = Arr(<<Arr(From(k, RawGroup(k)))>>)
  <1> DEFINE fields == RawInfoFull(k)
             S == {fields[i] : i \in 1..6}
             data == convertMap(From(k, fields))
  <1>1. /\ Len(fields) = 6
        /\ fields[1] = <<"length", Num(Cardinality(DOMAIN stream))>>
        /\ fields[2] = <<"radix-tree-keys", Num(1)>>
        /\ fields[3] = <<"radix-tree-nodes", Num(2)>>
        /\ fields[4] = <<"last-generated-id", IdStr(Newest(added))>>
        /\ fields[5] = <<"entries", Arr(RawEntries(InOrder(DOMAIN stream)))>>
        /\ fields[6] = <<"groups", Arr(<<Arr(From(k, RawGroup(k)))>>)>>
    BY DEF RawInfoFull
  <1>2. fields \in Seq(S)
    BY DEF RawInfoFull
  <1> HIDE DEF fields, S
  <1>3. /\ fields[1][1] = "length" /\ fields[2][1] = "radix-tree-keys"
        /\ fields[3][1] = "radix-tree-nodes" /\ fields[4][1] = "last-generated-id"
        /\ fields[5][1] = "entries" /\ fields[6][1] = "groups"
    BY <1>1
  <1>4. ASSUME NEW i \in 1..6 PROVE fields[i][1] # NoName
    <2>1. /\ fields[1][1] # NoName /\ fields[2][1] # NoName /\ fields[3][1] # NoName
          /\ fields[4][1] # NoName /\ fields[5][1] # NoName /\ fields[6][1] # NoName
      BY <1>3 DEF NoName
    <2> QED
      BY <2>1
  <1>5. ASSUME NEW i \in 1..6, NEW j \in 1..6, i # j PROVE fields[i][1] # fields[j][1]
    BY <1>3, <1>5
  <1>6. Distinct(fields)
    BY <1>1, <1>4, <1>5 DEF Distinct
  <1>7. k \in 0 .. Len(fields)
    BY <1>1, StreamAssumption
  <1>8. \A i \in 1..6 : Get(data, fields[i][1]) = fields[i][2]
    BY <1>1, <1>2, <1>6, <1>7, FieldFound
  <1> HIDE DEF data
  <1>9. Get(data, fields[5][1]) = fields[5][2] /\ Get(data, fields[6][1]) = fields[6][2]
    BY <1>8
  <1> QED
    BY <1>1, <1>9 DEF data, fields

LEMMA GroupFound ==
    ASSUME NEW k \in Orders
    PROVE  LET data == convertMap(From(k, RawGroup(k))) IN
           /\ Get(data, "name") = Word("group")
           /\ Get(data, "last-delivered-id") = IdStr(delivered)
           /\ Get(data, "pending") = Arr(RawPendings)
           /\ Get(data, "consumers") = Arr(<<Arr(From(k, RawConsumer(Mine))), Arr(From(k, RawConsumer(Other)))>>)
  <1> DEFINE fields == RawGroup(k)
             S == {fields[i] : i \in 1..6}
             data == convertMap(From(k, fields))
  <1>1. /\ Len(fields) = 6
        /\ fields[1] = <<"name", Word("group")>>
        /\ fields[2] = <<"last-delivered-id", IdStr(delivered)>>
        /\ fields[3] = <<"entries-read", Nil>>
        /\ fields[4] = <<"pel-count", Num(Cardinality(DOMAIN pel))>>
        /\ fields[5] = <<"pending", Arr(RawPendings)>>
        /\ fields[6] = <<"consumers", Arr(<<Arr(From(k, RawConsumer(Mine))), Arr(From(k, RawConsumer(Other)))>>)>>
    BY DEF RawGroup
  <1>2. fields \in Seq(S)
    BY DEF RawGroup
  <1> HIDE DEF fields, S
  <1>3. /\ fields[1][1] = "name" /\ fields[2][1] = "last-delivered-id"
        /\ fields[3][1] = "entries-read" /\ fields[4][1] = "pel-count"
        /\ fields[5][1] = "pending" /\ fields[6][1] = "consumers"
    BY <1>1
  <1>4. ASSUME NEW i \in 1..6 PROVE fields[i][1] # NoName
    <2>1. /\ fields[1][1] # NoName /\ fields[2][1] # NoName /\ fields[3][1] # NoName
          /\ fields[4][1] # NoName /\ fields[5][1] # NoName /\ fields[6][1] # NoName
      BY <1>3 DEF NoName
    <2> QED
      BY <2>1
  <1>5. ASSUME NEW i \in 1..6, NEW j \in 1..6, i # j PROVE fields[i][1] # fields[j][1]
    BY <1>3, <1>5
  <1>6. Distinct(fields)
    BY <1>1, <1>4, <1>5 DEF Distinct
  <1>7. k \in 0 .. Len(fields)
    BY <1>1, StreamAssumption
  <1>8. \A i \in 1..6 : Get(data, fields[i][1]) = fields[i][2]
    BY <1>1, <1>2, <1>6, <1>7, FieldFound
  <1> HIDE DEF data
  <1>9. /\ Get(data, fields[1][1]) = fields[1][2] /\ Get(data, fields[2][1]) = fields[2][2]
        /\ Get(data, fields[5][1]) = fields[5][2] /\ Get(data, fields[6][1]) = fields[6][2]
    BY <1>8
  <1> QED
    BY <1>1, <1>9 DEF data, fields

LEMMA ConsumerFound ==
    ASSUME NEW k \in Orders, NEW c
    PROVE  LET data == convertMap(From(k, RawConsumer(c))) IN
           /\ Get(data, "name") = Word(c)
           /\ Get(data, "pending") = Arr([i \in DOMAIN InOrder(Owned(c)) |-> RawPendingOf(InOrder(Owned(c))[i])])
  <1> DEFINE fields == RawConsumer(c)
             S == {fields[i] : i \in 1..4}
             data == convertMap(From(k, fields))
  <1>1. /\ Len(fields) = 4
        /\ fields[1] = <<"name", Word(c)>>
        /\ fields[2] = <<"seen-time", Num(0)>>
        /\ fields[3] = <<"pel-count", Num(Cardinality(Owned(c)))>>
        /\ fields[4] = <<"pending", Arr([i \in DOMAIN InOrder(Owned(c)) |-> RawPendingOf(InOrder(Owned(c))[i])])>>
    BY DEF RawConsumer
  <1>2. fields \in Seq(S)
    BY DEF RawConsumer
  <1> HIDE DEF fields, S
  <1>3. /\ fields[1][1] = "name" /\ fields[2][1] = "seen-time" /\ fields[3][1] = "pel-count"
        /\ fields[4][1] = "pending"
    BY <1>1
  <1>4. ASSUME NEW i \in 1..4 PROVE fields[i][1] # NoName
    <2>1. /\ fields[1][1] # NoName /\ fields[2][1] # NoName /\ fields[3][1] # NoName
          /\ fields[4][1] # NoName
      BY <1>3 DEF NoName
    <2> QED
      BY <2>1
  <1>5. ASSUME NEW i \in 1..4, NEW j \in 1..4, i # j PROVE fields[i][1] # fields[j][1]
    BY <1>3, <1>5
  <1>6. Distinct(fields)
    BY <1>1, <1>4, <1>5 DEF Distinct
  <1>7. k \in 0 .. Len(fields)
    BY <1>1, StreamAssumption
  <1>8. \A i \in 1..4 : Get(data, fields[i][1]) = fields[i][2]
    BY <1>1, <1>2, <1>6, <1>7, FieldFound
  <1> HIDE DEF data
  <1>9. Get(data, fields[1][1]) = fields[1][2] /\ Get(data, fields[4][1]) = fields[4][2]
    BY <1>8
  <1> QED
    BY <1>1, <1>9 DEF data, fields

LEMMA GroupInfoFound ==
    ASSUME NEW k \in Orders
    PROVE  LET data == convertMap(From(k, RawGroupInfo)) IN
           /\ Get(data, "consumers") = Num(2)
           /\ Get(data, "pending") = Num(Cardinality(DOMAIN pel))
           /\ Get(data, "last-delivered-id") = IdStr(delivered)
  <1> DEFINE fields == RawGroupInfo
             S == {fields[i] : i \in 1..5}
             data == convertMap(From(k, fields))
  <1>1. /\ Len(fields) = 5
        /\ fields[1] = <<"name", Word("group")>>
        /\ fields[2] = <<"consumers", Num(2)>>
        /\ fields[3] = <<"pending", Num(Cardinality(DOMAIN pel))>>
        /\ fields[4] = <<"last-delivered-id", IdStr(delivered)>>
        /\ fields[5] = <<"lag", Nil>>
    BY DEF RawGroupInfo
  <1>2. fields \in Seq(S)
    BY DEF RawGroupInfo
  <1> HIDE DEF fields, S
  <1>3. /\ fields[1][1] = "name" /\ fields[2][1] = "consumers" /\ fields[3][1] = "pending"
        /\ fields[4][1] = "last-delivered-id" /\ fields[5][1] = "lag"
    BY <1>1
  <1>4. ASSUME NEW i \in 1..5 PROVE fields[i][1] # NoName
    <2>1. /\ fields[1][1] # NoName /\ fields[2][1] # NoName /\ fields[3][1] # NoName
          /\ fields[4][1] # NoName /\ fields[5][1] # NoName
      BY <1>3 DEF NoName
    <2> QED
      BY <2>1
  <1>5. ASSUME NEW i \in 1..5, NEW j \in 1..5, i # j PROVE fields[i][1] # fields[j][1]
    BY <1>3, <1>5
  <1>6. Distinct(fields)
    BY <1>1, <1>4, <1>5 DEF Distinct
  <1>7. k \in 0 .. Len(fields)
    BY <1>1, StreamAssumption
  <1>8. \A i \in 1..5 : Get(data, fields[i][1]) = fields[i][2]
    BY <1>1, <1>2, <1>6, <1>7, FieldFound
  <1> HIDE DEF data
  <1>9. /\ Get(data, fields[2][1]) = fields[2][2] /\ Get(data, fields[3][1]) = fields[3][2]
        /\ Get(data, fields[4][1]) = fields[4][2]
    BY <1>8
  <1> QED
    BY <1>1, <1>9 DEF data, fields

LEMMA ConsumerInfoFound ==
    ASSUME NEW k \in Orders, NEW c
    PROVE  LET data == convertMap(From(k, RawConsumerInfo(c))) IN
           /\ Get(data, "name") = Word(c)
           /\ Get(data, "pending") = Num(Cardinality(Owned(c)))
  <1> DEFINE fields == RawConsumerInfo(c)
             S == {fields[i] : i \in 1..4}
             data == convertMap(From(k, fields))
  <1>1. /\ Len(fields) = 4
        /\ fields[1] = <<"name", Word(c)>>
        /\ fields[2] = <<"pending", Num(Cardinality(Owned(c)))>>
        /\ fields[3] = <<"idle", Num(0)>>
        /\ fields[4] = <<"inactive", Num(0)>>
    BY DEF RawConsumerInfo
  <1>2. fields \in Seq(S)
    BY DEF RawConsumerInfo
  <1> HIDE DEF fields, S
  <1>3. /\ fields[1][1] = "name" /\ fields[2][1] = "pending" /\ fields[3][1] = "idle"
        /\ fields[4][1] = "inactive"
    BY <1>1
  <1>4. ASSUME NEW i \in 1..4 PROVE fields[i][1] # NoName
    <2>1. /\ fields[1][1] # NoName /\ fields[2][1] # NoName /\ fields[3][1] # NoName
          /\ fields[4][1] # NoName
      BY <1>3 DEF NoName
    <2> QED
      BY <2>1
  <1>5. ASSUME NEW i \in 1..4, NEW j \in 1..4, i # j PROVE fields[i][1] # fields[j][1]
    BY <1>3, <1>5
  <1>6. Distinct(fields)
    BY <1>1, <1>4, <1>5 DEF Distinct
  <1>7. k \in 0 .. Len(fields)
    BY <1>1, StreamAssumption
  <1>8. \A i \in 1..4 : Get(data, fields[i][1]) = fields[i][2]
    BY <1>1, <1>2, <1>6, <1>7, FieldFound
  <1> HIDE DEF data
  <1>9. Get(data, fields[1][1]) = fields[1][2] /\ Get(data, fields[2][1]) = fields[2][2]
    BY <1>8
  <1> QED
    BY <1>1, <1>9 DEF data, fields

-----------------------------------------------------------------------------
(* What a caller is given of the stream.                                   *)

\* Entries are bodies of names and values, and the maps of the server are functions.
Contents ==
    /\ stream = [id \in DOMAIN stream |-> stream[id]]
    /\ pel = [id \in DOMAIN pel |-> pel[id]]
    /\ \A id \in DOMAIN stream : stream[id] \in Bodies

LEMMA ContentsStep == Contents /\ [Next]_vars => Contents'
  <1> SUFFICES ASSUME Contents, [Next]_vars PROVE Contents'
    OBVIOUS
  <1>1. ASSUME stream' = stream, pel' = pel PROVE Contents'
    BY <1>1 DEF Contents
  <1>2. ASSUME NEW id \in Ids, NEW body \in Bodies, Add(id, body) PROVE Contents'
    BY <1>2 DEF Add, Contents
  <1>3. ASSUME NEW id \in Ids, Delete(id) PROVE Contents'
    BY <1>3 DEF Delete, Contents
  <1>4. ASSUME NEW id \in Ids, NEW j \in BOOLEAN, Claim(id, j) PROVE Contents'
    <2> DEFINE asked == IdOf(xidstr([form |-> "xid", xid |-> parseXId(IdText(id))]))
               found == asked \in Owned(Other) /\ asked \in DOMAIN stream
    <2>1. /\ stream' = stream
          /\ pel' = IF found THEN [pel EXCEPT ![asked] = Mine]
                    ELSE [x \in DOMAIN pel \ ({asked} \cap Owned(Other)) |-> pel[x]]
      BY <1>4 DEF Claim
    <2> HIDE DEF asked, found
    <2>2. pel' = [x \in DOMAIN pel' |-> pel'[x]]
      BY <2>1
    <2> QED
      BY <2>1, <2>2 DEF Contents
  <1>5. ASSUME NEW n \in 1..MaxCount, Read(n) PROVE Contents'
    BY <1>1, <1>5 DEF Read, serverVars
  <1>6. ASSUME NEW c, NEW ids, Deliver(c, ids) PROVE Contents'
    BY <1>6 DEF Deliver, Contents
  <1>7. ASSUME NEW n \in 1..MaxCount, ReadNew(n) PROVE Contents'
    BY <1>6, <1>7 DEF ReadNew
  <1>8. CASE OtherReads
    BY <1>6, <1>8 DEF OtherReads
  <1>9. CASE ReadHistory
    BY <1>1, <1>9 DEF ReadHistory, serverVars
  <1>10. CASE Crash
    BY <1>1, <1>10 DEF Crash, serverVars
  <1>11. ASSUME NEW xid \in held, Ack(xid) PROVE Contents'
    BY <1>11 DEF Ack, Contents
  <1>12. CASE UNCHANGED vars
    BY <1>1, <1>12 DEF vars, serverVars
  <1> QED
    BY <1>2, <1>3, <1>4, <1>5, <1>7, <1>8, <1>9, <1>10, <1>11, <1>12 DEF Next

LEMMA ContentsStart == Init => Contents
  BY DEF Init, Contents

\* The types that the replies are made of.
ReplyInv == WorkerInv /\ ReaderInv /\ Contents

THEOREM ReplyTypes == Spec => []ReplyInv
  <1>1. Init => ReplyInv
    BY WorkerStarts, ReaderStarts, ContentsStart DEF ReplyInv
  <1>2. ReplyInv /\ [Next]_vars => ReplyInv'
    BY WorkerStep, ReaderStep, ContentsStep DEF ReplyInv, WorkerInv
  <1> QED
    BY <1>1, <1>2, PTL DEF Spec

\* parseXMessage() of an entry that is in the stream.
LEMMA EntryArrives ==
    ASSUME Contents, NEW id \in DOMAIN stream
    PROVE  /\ parseXMessage(RawEntry(id)).is = "value"
           /\ MessageOf(parseXMessage(RawEntry(id)).got, id)
  <1> DEFINE body == stream[id]
             m == parseXMessage(RawEntry(id))
  <1>1. body \in Seq(ToSet(body)) /\ Len(body) % 2 = 0
    BY StreamAssumption DEF Contents
  <1>2. m.is = "value" /\ m.got.xid = parseXId(IdText(id))
    BY EntryConverts
  <1>3. m.got.fieldValues = FieldValues(body)
    <2>1. RawEntry(id).is = "array" /\ RawEntry(id).got[2] = Arr(body)
      BY DEF RawEntry, Arr
    <2>2. Arr(body).is = "array" /\ Arr(body).got = body
      BY DEF Arr
    <2> HIDE DEF body
    <2> QED
      BY <2>1, <2>2 DEF parseXMessage, Gives
  <1>4. {<<f, FieldValues(body)[f]>> : f \in DOMAIN FieldValues(body)} = FieldsOf(body)
    <2> DEFINE S == ToSet(body)
    <2>1. body \in Seq(S) /\ Len(body) % 2 = 0
      BY <1>1
    <2> HIDE DEF S, body
    <2> QED
      BY <2>1, FieldValuesOf
  <1> HIDE DEF m
  <1>5. MessageOf(m.got, id)
    BY <1>2, <1>3, <1>4 DEF MessageOf
  <1> QED
    BY <1>2, <1>5 DEF m

LEMMA EntriesAreMessages ==
    ASSUME Contents, NEW ids \in Seq(DOMAIN stream)
    PROVE  Messages(Each(parseXMessage, RawEntries(ids)), ids)
  <1> DEFINE raws == RawEntries(ids)
             outs == [i \in DOMAIN raws |-> parseXMessage(raws[i])]
             out == Each(parseXMessage, raws)
  <1>1. DOMAIN ids = 1 .. Len(ids) /\ Len(ids) \in Nat /\ \A i \in DOMAIN ids : ids[i] \in DOMAIN stream
    OBVIOUS
  <1>2. DOMAIN outs = DOMAIN ids /\ \A i \in DOMAIN ids : outs[i] = parseXMessage(RawEntry(ids[i]))
    BY DEF RawEntries
  <1>3. out = IF \E i \in DOMAIN outs : outs[i].is = "throws"
              THEN outs[CHOOSE i \in DOMAIN outs : outs[i].is = "throws"]
              ELSE Gives([i \in DOMAIN outs |-> outs[i].got])
    BY DEF Each
  <1> HIDE DEF outs, out
  <1>4. \A i \in DOMAIN ids : outs[i].is = "value" /\ MessageOf(outs[i].got, ids[i])
    BY <1>1, <1>2, EntryArrives
  <1>5. out = Gives([i \in DOMAIN ids |-> outs[i].got])
    BY <1>2, <1>3, <1>4
  <1>6. out.is = "value" /\ out.got = [i \in DOMAIN ids |-> outs[i].got]
    BY <1>5 DEF Gives
  <1>7. Len(out.got) = Len(ids) /\ \A i \in DOMAIN ids : MessageOf(out.got[i], ids[i])
    BY <1>1, <1>4, <1>6
  <1> QED
    BY <1>6, <1>7 DEF Messages, out

LEMMA RepliesAreMessages ==
    ASSUME Contents, NEW ids \in Seq(DOMAIN stream)
    PROVE  Messages(parseXReadReply(RawFollowing(ids)), ids)
  <1>1. parseXReadReply(RawStream(ids)) = Each(parseXMessage, RawEntries(ids))
    BY DEF parseXReadReply, RawStream, Arr, Word, Str
  <1>2. CASE ids # <<>>
    BY <1>1, <1>2, EntriesAreMessages DEF RawFollowing
  <1>3. CASE ids = <<>>
    <2>1. parseXReadReply(RawFollowing(ids)) = Gives(<<>>)
      BY <1>3 DEF parseXReadReply, RawFollowing, Nil
    <2> QED
      BY <1>3, <2>1 DEF Messages, Gives
  <1> QED
    BY <1>2, <1>3

\* For any ids, bodies and counts: xread(), xreadgroup(), xrange() and xrevrange() resolve
\* to the entries of the reply, in its order, each with the last value of every name
\* (stream.ts, parseXMessage() and parseXReadReply()).
THEOREM EntriesComeComplete == Spec => []EntriesArrive
  <1>1. ReplyInv => EntriesArrive
    <2> SUFFICES ASSUME ReplyInv PROVE EntriesArrive
      OBVIOUS
    <2>1. DOMAIN stream \in SUBSET Pairs /\ IsFiniteSet(DOMAIN stream) /\ Contents
      BY FS_Subset DEF ReplyInv, WorkerInv, ServerTypes
    <2>2. Here \in Pairs /\ delivered \in Pairs
      BY DEF ReplyInv, WorkerInv, ServerTypes, ReaderInv
    <2>3. \A n \in 1..MaxCount : n \in Nat \ {0}
      BY StreamAssumption
    <2>4. ASSUME NEW n \in 1..MaxCount PROVE Messages(xread(n), Following(Here, n))
      <3>1. Following(Here, n) \in Seq(DOMAIN stream)
        BY <2>1, <2>2, <2>3, FollowingIs
      <3> QED
        BY <2>1, <3>1, RepliesAreMessages DEF xread, Here
    <2>5. ASSUME NEW n \in 1..MaxCount PROVE Messages(xreadgroupNew(n), Following(delivered, n))
      <3>1. Following(delivered, n) \in Seq(DOMAIN stream)
        BY <2>1, <2>2, <2>3, FollowingIs
      <3> QED
        BY <2>1, <3>1, RepliesAreMessages DEF xreadgroupNew
    <2> DEFINE all == InOrder(DOMAIN stream)
    <2>6. all \in Seq(DOMAIN stream)
      BY <2>1, InOrderIs
    <2> HIDE DEF all
    <2>7. Reverse(all) \in Seq(DOMAIN stream)
      BY <2>6 DEF Reverse
    <2>8. Messages(xrange, all)
      BY <2>1, <2>6, EntriesAreMessages DEF xrange, all
    <2>9. Messages(xrevrange, Reverse(all))
      BY <2>1, <2>7, EntriesAreMessages DEF xrevrange, all
    <2> QED
      BY <2>4, <2>5, <2>8, <2>9 DEF EntriesArrive, Here, all
  <1> QED
    BY <1>1, ReplyTypes, PTL

-----------------------------------------------------------------------------
(* What a caller is told about the stream and its group.                   *)

\* The first and the last of a set of ids.
LEMMA Ends ==
    ASSUME NEW S \in SUBSET Pairs, IsFiniteSet(S)
    PROVE  /\ InOrder(S) = <<>> <=> S = {}
           /\ S # {} => /\ Head(InOrder(S)) \in S /\ Last(InOrder(S)) \in S
                        /\ Last(InOrder(S)) = Newest(S)
  <1> DEFINE s == InOrder(S)
             n == Len(s)
  <1>1. /\ s \in Seq(S) /\ DOMAIN s = 1..n /\ n \in Nat /\ Rising(s)
        /\ S = {s[i] : i \in DOMAIN s}
    BY InOrderIs
  <1> HIDE DEF s
  <1>2. s = <<>> <=> S = {}
    BY <1>1
  <1>3. ASSUME S # {} PROVE Head(s) \in S /\ Last(s) \in S /\ Last(s) = Newest(S)
    <2>1. s # <<>> /\ n >= 1 /\ n \in DOMAIN s
      BY <1>1, <1>2, <1>3
    <2>2. Head(s) \in S
      BY <1>1, <2>1
    <2>3. Last(s) = s[n] /\ s[n] \in S
      BY <1>1, <2>1 DEF Last
    <2>4. \A y \in S : y = s[n] \/ Before(y, s[n])
      <3> SUFFICES ASSUME NEW y \in S PROVE y = s[n] \/ Before(y, s[n])
        OBVIOUS
      <3>1. PICK i \in DOMAIN s : s[i] = y
        BY <1>1
      <3>2. i = n \/ i < n
        BY <1>1
      <3> QED
        BY <2>1, <3>1, <3>2, <1>1 DEF Rising
    <2>5. s[n] \in Pairs /\ \A y \in S : y \in Pairs
      BY <2>3
    <2>6. \A y \in S : ~ Before(s[n], y)
      BY <2>4, <2>5, Order
    <2>7. \A x \in S : (\A y \in S : ~ Before(x, y)) => x = s[n]
      BY <2>3, <2>4
    <2>8. Newest(S) = CHOOSE x \in S : \A y \in S : ~ Before(x, y)
      BY <1>3 DEF Newest
    <2>9. Newest(S) = s[n]
      BY <2>3, <2>6, <2>7, <2>8
    <2> QED
      BY <2>2, <2>3, <2>9
  <1> QED
    BY <1>2, <1>3 DEF s

LEMMA Plain ==
    /\ \A n : rawnum(Num(n)) = n
    /\ \A id : rawstr(IdStr(id)) = IdText(id)
    /\ \A w : rawstr(Word(w)) = <<w>> /\ rawstr(Word(w))[1] = w
  BY DEF rawnum, rawstr, Num, IdStr, Word, Str

\* XINFO STREAM: of a stream that is empty, parseXMessage() is given null.
LEMMA InfoTold ==
    ASSUME ReplyInv, NEW k \in Orders
    PROVE  /\ xinfoStream(k).is = "throws" <=> DOMAIN stream = {}
           /\ DOMAIN stream # {} =>
                LET o == xinfoStream(k).got IN
                /\ xinfoStream(k).is = "value"
                /\ o.length = Cardinality(DOMAIN stream) /\ o.groups = 1
                /\ o.lastGeneratedId = parseXId(IdText(Newest(added)))
                /\ MessageOf(o.lastEntry, Newest(DOMAIN stream))
  <1> DEFINE data == convertMap(From(k, RawInfo))
             a == Get(data, "first-entry")
             b == Get(data, "last-entry")
             ends == Each(parseXMessage, <<a, b>>)
             all == InOrder(DOMAIN stream)
             info == [length |-> rawnum(Get(data, "length")),
                      radixTreeKeys |-> rawnum(Get(data, "radix-tree-keys")),
                      radixTreeNodes |-> rawnum(Get(data, "radix-tree-nodes")),
                      groups |-> rawnum(Get(data, "groups")),
                      lastGeneratedId |-> parseXId(rawstr(Get(data, "last-generated-id"))),
                      firstEntry |-> ends.got[1], lastEntry |-> ends.got[2]]
  <1>1. /\ Get(data, "length") = Num(Cardinality(DOMAIN stream))
        /\ Get(data, "last-generated-id") = IdStr(Newest(added))
        /\ Get(data, "groups") = Num(1)
        /\ a = EntryOrNil(Head(all)) /\ b = EntryOrNil(Last(all))
    BY InfoFound
  <1>2. xinfoStream(k) = IF ends.is = "throws" THEN ends ELSE Gives(info)
    BY DEF xinfoStream, infoStream
  <1>3. DOMAIN stream \in SUBSET Pairs /\ IsFiniteSet(DOMAIN stream) /\ Contents
    BY FS_Subset DEF ReplyInv, WorkerInv, ServerTypes
  <1> HIDE DEF data, a, b, all
  <1>4. ASSUME DOMAIN stream = {} PROVE ends.is = "throws"
    <2>1. a = Nil
      BY <1>1, <1>4 DEF EntryOrNil
    <2> DEFINE outs == [i \in DOMAIN <<a, b>> |-> parseXMessage(<<a, b>>[i])]
    <2>2. 1 \in DOMAIN outs /\ outs[1] = parseXMessage(a)
      OBVIOUS
    <2>3. outs[1].is = "throws"
      BY <2>1, <2>2 DEF parseXMessage, Nil, Throws
    <2>4. ends = IF \E i \in DOMAIN outs : outs[i].is = "throws"
                 THEN outs[CHOOSE i \in DOMAIN outs : outs[i].is = "throws"]
                 ELSE Gives([i \in DOMAIN outs |-> outs[i].got])
      BY DEF Each
    <2> HIDE DEF outs, ends
    <2> QED
      BY <2>2, <2>3, <2>4
  <1>5. ASSUME DOMAIN stream # {}
        PROVE  ends.is = "value" /\ MessageOf(ends.got[2], Newest(DOMAIN stream))
    <2> DEFINE h == Head(all)
               l == Last(all)
               ids == <<h, l>>
    <2>1. h \in DOMAIN stream /\ l \in DOMAIN stream /\ l = Newest(DOMAIN stream)
      BY <1>3, <1>5, Ends DEF all
    <2>2. a = RawEntry(h) /\ b = RawEntry(l)
      BY <1>1, <1>5 DEF EntryOrNil
    <2> HIDE DEF h, l
    <2>3. ids \in Seq(DOMAIN stream) /\ DOMAIN ids = 1..2 /\ ids[1] = h /\ ids[2] = l
      BY <2>1
    <2>4. RawEntries(ids) = <<a, b>>
      <3>1. RawEntries(ids) = [i \in 1..2 |-> RawEntry(ids[i])]
        BY <2>3 DEF RawEntries
      <3>2. <<a, b>> = [i \in 1..2 |-> <<a, b>>[i]] /\ <<a, b>>[1] = a /\ <<a, b>>[2] = b
        OBVIOUS
      <3> HIDE DEF ids
      <3> QED
        BY <2>2, <2>3, <3>1, <3>2
    <2> HIDE DEF ids
    <2>5. Messages(ends, ids)
      BY <1>3, <2>3, <2>4, EntriesAreMessages
    <2> HIDE DEF ends
    <2>6. ends.is = "value" /\ MessageOf(ends.got[2], ids[2])
      BY <2>3, <2>5 DEF Messages
    <2> QED
      BY <2>1, <2>3, <2>6
  <1> HIDE DEF ends
  <1>6. Gives(info).is = "value" /\ Gives(info).got = info
    BY DEF Gives
  <1>7. /\ info.length = rawnum(Get(data, "length")) /\ info.groups = rawnum(Get(data, "groups"))
        /\ info.lastGeneratedId = parseXId(rawstr(Get(data, "last-generated-id")))
        /\ info.lastEntry = ends.got[2]
    OBVIOUS
  <1> HIDE DEF info
  <1>8. /\ info.length = Cardinality(DOMAIN stream) /\ info.groups = 1
        /\ info.lastGeneratedId = parseXId(IdText(Newest(added)))
    BY <1>1, <1>7, Plain
  <1> QED
    BY <1>2, <1>4, <1>5, <1>6, <1>7, <1>8

\* A pending entry, as XPENDING and XINFO STREAM FULL give it.
PendingOf(id) == [xid |-> parseXId(IdText(id)), owner |-> pel[id],
                  lastDeliveredMs |-> 0, timesDelivered |-> 1]

LEMMA PendingsTold ==
    ASSUME ReplyInv
    PROVE  LET ids == InOrder(DOMAIN pel) IN
           parseXPendingCounts(RawPendings) = [i \in DOMAIN ids |-> PendingOf(ids[i])]
  <1> DEFINE ids == InOrder(DOMAIN pel)
             raws == RawPendings
             passes == [i \in DOMAIN raws |->
                           /\ isCondArray(raws[i])
                           /\ isString(raws[i].got[1]) /\ isString(raws[i].got[2])
                           /\ isNumber(raws[i].got[3]) /\ isNumber(raws[i].got[4])]
             fit == Pushed(raws, passes)
             S == {raws[i] : i \in DOMAIN raws}
  <1>1. DOMAIN pel \in SUBSET Pairs /\ IsFiniteSet(DOMAIN pel)
    BY FS_Subset DEF ReplyInv, WorkerInv, ServerTypes
  <1>2. DOMAIN ids = 1 .. Len(ids) /\ Len(ids) \in Nat
    BY <1>1, InOrderIs
  <1>3. DOMAIN raws = DOMAIN ids /\ \A i \in DOMAIN ids : raws[i] = RawPending(ids[i])
    BY DEF RawPendings
  <1>4. raws = [i \in 1 .. Len(ids) |-> raws[i]]
    BY <1>2 DEF RawPendings
  <1> HIDE DEF ids, raws
  <1>5. raws \in Seq(S) /\ Len(raws) = Len(ids)
    BY <1>2, <1>3, <1>4
  <1>6. \A id : /\ RawPending(id).is = "array"
                /\ RawPending(id).got[1] = IdStr(id) /\ RawPending(id).got[2] = Word(pel[id])
                /\ RawPending(id).got[3] = Num(0) /\ RawPending(id).got[4] = Num(1)
    BY DEF RawPending, Arr
  <1>7. /\ \A id : isString(IdStr(id)) /\ IdStr(id).got = IdText(id)
        /\ \A w : isString(Word(w)) /\ Word(w).got[1] = w
        /\ \A n : isNumber(Num(n)) /\ Num(n).got = n
    BY DEF IdStr, Word, Str, Num, isString, isNumber
  <1>8. \A i \in DOMAIN raws : /\ raws[i].is = "array" /\ raws[i].got[1] = IdStr(ids[i])
                               /\ raws[i].got[2] = Word(pel[ids[i]])
                               /\ raws[i].got[3] = Num(0) /\ raws[i].got[4] = Num(1)
    BY <1>3, <1>6
  <1>9. \A i \in 1 .. Len(raws) : passes[i]
    BY <1>2, <1>3, <1>5, <1>7, <1>8 DEF isCondArray
  <1>10. parseXPendingCounts(raws) =
            [i \in DOMAIN fit |-> [xid |-> parseXId(fit[i].got[1].got), owner |-> fit[i].got[2].got[1],
                                   lastDeliveredMs |-> fit[i].got[3].got,
                                   timesDelivered |-> fit[i].got[4].got]]
    BY DEF parseXPendingCounts
  <1> HIDE DEF passes, S
  <1>11. fit = raws
    BY <1>5, <1>9, PushedAll
  <1> HIDE DEF fit
  <1>12. parseXPendingCounts(raws) = [i \in DOMAIN ids |-> PendingOf(ids[i])]
    <2>1. ASSUME NEW i \in DOMAIN ids
          PROVE  [xid |-> parseXId(raws[i].got[1].got), owner |-> raws[i].got[2].got[1],
                  lastDeliveredMs |-> raws[i].got[3].got,
                  timesDelivered |-> raws[i].got[4].got] = PendingOf(ids[i])
      <3>1. /\ raws[i].got[1].got = IdText(ids[i]) /\ raws[i].got[2].got[1] = pel[ids[i]]
            /\ raws[i].got[3].got = 0 /\ raws[i].got[4].got = 1
        BY <1>3, <1>7, <1>8
      <3> QED
        BY <3>1 DEF PendingOf
    <2> QED
      BY <1>3, <1>10, <1>11, <2>1
  <1> QED
    BY <1>12 DEF ids, raws

LEMMA ConsumerTold ==
    ASSUME NEW k \in Orders, NEW c, NEW raws, NEW i \in DOMAIN raws,
           raws[i] = Arr(From(k, RawConsumer(c)))
    PROVE  LET o == parseXConsumerDetail(raws)[i] IN
           o.name = c /\ Xids(o.pending) = PendingXids(Owned(c))
  <1> DEFINE data == convertMap(From(k, RawConsumer(c)))
             ids == InOrder(Owned(c))
             ps == Get(data, "pending").got
             o == parseXConsumerDetail(raws)[i]
  <1>1. Get(data, "name") = Word(c) /\ Get(data, "pending") = Arr([j \in DOMAIN ids |-> RawPendingOf(ids[j])])
    BY ConsumerFound
  <1>2. convertMap(raws[i].got) = data
    BY DEF Arr
  <1> HIDE DEF data, ids
  <1>3. ps = [j \in DOMAIN ids |-> RawPendingOf(ids[j])]
    BY <1>1 DEF Arr
  <1>4. o.name = rawstr(Get(data, "name"))[1]
    BY <1>2 DEF parseXConsumerDetail
  <1>5. o.pending = [j \in DOMAIN ps |-> [xid |-> parseXId(rawstr(ps[j].got[1])),
                                          lastDeliveredMs |-> rawnum(ps[j].got[2]),
                                          timesDelivered |-> rawnum(ps[j].got[3])]]
    BY <1>2 DEF parseXConsumerDetail
  <1> HIDE DEF ps, o
  <1>6. \A j \in DOMAIN ids : ps[j].got[1] = IdStr(ids[j])
    BY <1>3 DEF RawPendingOf, Arr
  <1>7. Xids(o.pending) = [j \in DOMAIN ids |-> parseXId(rawstr(ps[j].got[1]))]
    BY <1>3, <1>5 DEF Xids
  <1>8. \A j \in DOMAIN ids : parseXId(rawstr(ps[j].got[1])) = parseXId(IdText(ids[j]))
    BY <1>6, Plain
  <1>9. Xids(o.pending) = PendingXids(Owned(c))
    BY <1>7, <1>8 DEF PendingXids, ids
  <1> QED
    BY <1>1, <1>4, <1>9, Plain DEF o

LEMMA GroupTold ==
    ASSUME ReplyInv, NEW k \in Orders
    PROVE  LET groups == parseXGroupDetail(<<Arr(From(k, RawGroup(k)))>>)
               g == groups[1]
           IN  /\ Len(groups) = 1
               /\ g.name = "group" /\ g.lastDeliveredId = parseXId(IdText(delivered))
               /\ Xids(g.pending) = PendingXids(DOMAIN pel)
               /\ \A i \in DOMAIN g.consumers :
                      Xids(g.consumers[i].pending) = PendingXids(Owned(g.consumers[i].name))
  <1> DEFINE raw == Arr(From(k, RawGroup(k)))
             raws == <<raw>>
             data == convertMap(From(k, RawGroup(k)))
             passes == [i \in DOMAIN raws |-> isCondArray(raws[i])]
             fit == Pushed(raws, passes)
             groups == parseXGroupDetail(raws)
             g == groups[1]
             cs == <<Arr(From(k, RawConsumer(Mine))), Arr(From(k, RawConsumer(Other)))>>
  <1>1. /\ Get(data, "name") = Word("group")
        /\ Get(data, "last-delivered-id") = IdStr(delivered)
        /\ Get(data, "pending") = Arr(RawPendings)
        /\ Get(data, "consumers") = Arr(cs)
    BY GroupFound
  <1>2. raw.is = "array" /\ convertMap(raw.got) = data
    BY DEF Arr
  <1> HIDE DEF raw, data, cs
  <1>3. raws \in Seq({raw}) /\ DOMAIN raws = 1..1 /\ Len(raws) = 1 /\ raws[1] = raw
    OBVIOUS
  <1> HIDE DEF raws
  <1>4. \A i \in 1 .. Len(raws) : passes[i]
    <2>1. isCondArray(raw)
      BY <1>2 DEF isCondArray
    <2>2. passes[1]
      BY <1>3, <2>1
    <2> QED
      BY <1>3, <2>2
  <1>5. groups = [i \in DOMAIN fit |->
            LET d == convertMap(fit[i].got)
            IN  [name |-> rawstr(Get(d, "name"))[1],
                 lastDeliveredId |-> parseXId(rawstr(Get(d, "last-delivered-id"))),
                 pelCount |-> rawnum(Get(d, "pel-count")),
                 pending |-> parseXPendingCounts(Get(d, "pending").got),
                 consumers |-> parseXConsumerDetail(Get(d, "consumers").got)]]
    BY DEF parseXGroupDetail
  <1> HIDE DEF passes
  <1>6. fit = raws
    BY <1>3, <1>4, PushedAll
  <1> HIDE DEF fit, groups
  <1>7. /\ Len(groups) = 1
        /\ g = [name |-> rawstr(Get(data, "name"))[1],
                lastDeliveredId |-> parseXId(rawstr(Get(data, "last-delivered-id"))),
                pelCount |-> rawnum(Get(data, "pel-count")),
                pending |-> parseXPendingCounts(Get(data, "pending").got),
                consumers |-> parseXConsumerDetail(Get(data, "consumers").got)]
    BY <1>2, <1>3, <1>5, <1>6
  <1> HIDE DEF g
  <1>8. /\ g.name = rawstr(Get(data, "name"))[1]
        /\ g.lastDeliveredId = parseXId(rawstr(Get(data, "last-delivered-id")))
        /\ g.pending = parseXPendingCounts(Get(data, "pending").got)
        /\ g.consumers = parseXConsumerDetail(Get(data, "consumers").got)
    BY <1>7
  <1>9. g.name = "group" /\ g.lastDeliveredId = parseXId(IdText(delivered))
    BY <1>1, <1>8, Plain
  <1>10. g.pending = parseXPendingCounts(RawPendings) /\ g.consumers = parseXConsumerDetail(cs)
    BY <1>1, <1>8 DEF Arr
  <1>11. Xids(g.pending) = PendingXids(DOMAIN pel)
    <2> DEFINE ids == InOrder(DOMAIN pel)
    <2>1. g.pending = [i \in DOMAIN ids |-> PendingOf(ids[i])]
      BY <1>10, PendingsTold
    <2> HIDE DEF ids
    <2>2. Xids(g.pending) = [i \in DOMAIN ids |-> parseXId(IdText(ids[i]))]
      BY <2>1 DEF Xids, PendingOf
    <2> QED
      BY <2>2 DEF PendingXids, ids
  <1>12. ASSUME NEW i \in DOMAIN g.consumers
         PROVE  Xids(g.consumers[i].pending) = PendingXids(Owned(g.consumers[i].name))
    <2>1. DOMAIN cs = 1..2 /\ cs[1] = Arr(From(k, RawConsumer(Mine))) /\ cs[2] = Arr(From(k, RawConsumer(Other)))
      BY DEF cs
    <2>2. DOMAIN g.consumers = DOMAIN cs
      BY <1>10 DEF parseXConsumerDetail
    <2>3. i = 1 \/ i = 2
      BY <1>12, <2>1, <2>2
    <2>4. CASE i = 1
      <3>1. parseXConsumerDetail(cs)[i].name = Mine /\ Xids(parseXConsumerDetail(cs)[i].pending) = PendingXids(Owned(Mine))
        BY <2>1, <2>4, ConsumerTold
      <3> QED
        BY <1>10, <3>1
    <2>5. CASE i = 2
      <3>1. parseXConsumerDetail(cs)[i].name = Other /\ Xids(parseXConsumerDetail(cs)[i].pending) = PendingXids(Owned(Other))
        BY <2>1, <2>5, ConsumerTold
      <3> QED
        BY <1>10, <3>1
    <2> QED
      BY <2>3, <2>4, <2>5
  <1> QED
    BY <1>7, <1>9, <1>11, <1>12 DEF g, groups, raws, raw

LEMMA FullTold ==
    ASSUME ReplyInv, NEW k \in Orders
    PROVE  LET o == xinfoStreamFull(k).got IN
           /\ xinfoStreamFull(k).is = "value"
           /\ Messages(Gives(o.entries), InOrder(DOMAIN stream))
           /\ o.groups = parseXGroupDetail(<<Arr(From(k, RawGroup(k)))>>)
  <1> DEFINE data == convertMap(From(k, RawInfoFull(k)))
             all == InOrder(DOMAIN stream)
             es == Each(parseXMessage, RawEntries(all))
             groups == <<Arr(From(k, RawGroup(k)))>>
             info == [length |-> rawnum(Get(data, "length")),
                      radixTreeKeys |-> rawnum(Get(data, "radix-tree-keys")),
                      radixTreeNodes |-> rawnum(Get(data, "radix-tree-nodes")),
                      lastGeneratedId |-> parseXId(rawstr(Get(data, "last-generated-id"))),
                      entries |-> es.got,
                      groups |-> parseXGroupDetail(Get(data, "groups").got)]
  <1>1. Get(data, "entries") = Arr(RawEntries(all)) /\ Get(data, "groups") = Arr(groups)
    BY FullFound
  <1>2. Get(data, "entries").got = RawEntries(all) /\ Get(data, "groups").got = groups
    BY <1>1 DEF Arr
  <1>3. all \in Seq(DOMAIN stream) /\ Contents
    BY FS_Subset, InOrderIs DEF ReplyInv, WorkerInv, ServerTypes
  <1>4. Messages(es, all)
    BY <1>3, EntriesAreMessages
  <1>5. xinfoStreamFull(k) =
            LET entries == Each(parseXMessage, Get(data, "entries").got)
            IN  IF entries.is = "throws" THEN entries
                ELSE Gives([length |-> rawnum(Get(data, "length")),
                            radixTreeKeys |-> rawnum(Get(data, "radix-tree-keys")),
                            radixTreeNodes |-> rawnum(Get(data, "radix-tree-nodes")),
                            lastGeneratedId |-> parseXId(rawstr(Get(data, "last-generated-id"))),
                            entries |-> entries.got,
                            groups |-> parseXGroupDetail(Get(data, "groups").got)])
    BY DEF xinfoStreamFull, infoStreamFull
  <1> HIDE DEF data, all, groups
  <1>6. xinfoStreamFull(k) = IF es.is = "throws" THEN es ELSE Gives(info)
    BY <1>2, <1>5
  <1> HIDE DEF es
  <1>7. es.is = "value" /\ Len(es.got) = Len(all) /\ \A i \in DOMAIN all : MessageOf(es.got[i], all[i])
    BY <1>4 DEF Messages
  <1>8. xinfoStreamFull(k).is = "value" /\ xinfoStreamFull(k).got = info
    BY <1>6, <1>7 DEF Gives
  <1>9. info.entries = es.got /\ info.groups = parseXGroupDetail(Get(data, "groups").got)
    OBVIOUS
  <1> HIDE DEF info
  <1>10. Messages(Gives(info.entries), all)
    BY <1>7, <1>9 DEF Messages, Gives
  <1> QED
    BY <1>2, <1>8, <1>9, <1>10 DEF all, groups

LEMMA GroupsTold ==
    ASSUME NEW k \in Orders
    PROVE  LET g == xinfoGroups(k)[1] IN
           /\ g.pending = Cardinality(DOMAIN pel) /\ g.consumers = 2
           /\ g.lastDeliveredId = parseXId(IdText(delivered))
  <1> DEFINE data == convertMap(From(k, RawGroupInfo))
             g == xinfoGroups(k)[1]
  <1>1. /\ Get(data, "consumers") = Num(2)
        /\ Get(data, "pending") = Num(Cardinality(DOMAIN pel))
        /\ Get(data, "last-delivered-id") = IdStr(delivered)
    BY GroupInfoFound
  <1> DEFINE raw == From(k, RawGroupInfo)
             raws == <<Arr(raw)>>
  <1>2. 1 \in DOMAIN raws /\ raws[1].got = raw
    BY DEF Arr
  <1> HIDE DEF raws
  <1>3. infoGroups(raws)[1] =
            [name |-> rawstr(Get(data, "name"))[1],
             consumers |-> rawnum(Get(data, "consumers")),
             pending |-> rawnum(Get(data, "pending")),
             lastDeliveredId |-> parseXId(rawstr(Get(data, "last-delivered-id")))]
    BY <1>2 DEF infoGroups
  <1>4. g = infoGroups(raws)[1]
    BY DEF xinfoGroups, raws
  <1> HIDE DEF data, raw, g
  <1>5. /\ g.consumers = rawnum(Get(data, "consumers")) /\ g.pending = rawnum(Get(data, "pending"))
        /\ g.lastDeliveredId = parseXId(rawstr(Get(data, "last-delivered-id")))
    BY <1>3, <1>4
  <1> QED
    BY <1>1, <1>5, Plain DEF g

LEMMA OwnersTold ==
    ASSUME NEW k \in Orders, NEW i \in 1..2
    PROVE  LET c == xinfoConsumers(k)[i] IN c.pending = Cardinality(Owned(c.name))
  <1> DEFINE w == IF i = 1 THEN Mine ELSE Other
             data == convertMap(From(k, RawConsumerInfo(w)))
             raws == <<Arr(From(k, RawConsumerInfo(Mine))), Arr(From(k, RawConsumerInfo(Other)))>>
             c == xinfoConsumers(k)[i]
  <1>1. Get(data, "name") = Word(w) /\ Get(data, "pending") = Num(Cardinality(Owned(w)))
    BY ConsumerInfoFound
  <1>2. i \in DOMAIN raws /\ raws[i].got = From(k, RawConsumerInfo(w))
    <2>1. i = 1 \/ i = 2
      OBVIOUS
    <2> QED
      BY <2>1 DEF Arr
  <1>3. xinfoConsumers(k) = infoConsumers(raws)
    BY DEF xinfoConsumers
  <1> HIDE DEF raws, w
  <1>4. c = [name |-> rawstr(Get(data, "name"))[1],
             pending |-> rawnum(Get(data, "pending")), idle |-> rawnum(Get(data, "idle"))]
    BY <1>2, <1>3 DEF infoConsumers
  <1> HIDE DEF data, c
  <1>5. c.name = w /\ c.pending = Cardinality(Owned(w))
    BY <1>1, <1>4, Plain
  <1> QED
    BY <1>5 DEF c

\* A consumer that has something pending, as XPENDING tells of it.
RawBusy(c) == Arr(<<Word(c), Decimal(Cardinality(Owned(c)))>>)

LEMMA BusyTold ==
    ASSUME NEW S, NEW busy \in Seq(S)
    PROVE  parseXPendingConsumers([i \in DOMAIN busy |-> RawBusy(busy[i])]) =
               [i \in DOMAIN busy |-> [name |-> busy[i], pending |-> parseInt(Cardinality(Owned(busy[i])))]]
  <1> DEFINE n == Len(busy)
             raws == [i \in DOMAIN busy |-> RawBusy(busy[i])]
             passes == [i \in DOMAIN raws |->
                           isCondArray(raws[i]) /\ isString(raws[i].got[1]) /\ isString(raws[i].got[2])]
             fit == Pushed(raws, passes)
             R == {raws[i] : i \in DOMAIN raws}
             told == parseXPendingConsumers(raws)
  <1>1. n \in Nat /\ DOMAIN busy = 1..n
    OBVIOUS
  <1>2. DOMAIN raws = 1..n /\ \A i \in 1..n : raws[i] = RawBusy(busy[i])
    BY <1>1
  <1>3. raws = [i \in 1..n |-> raws[i]]
    BY <1>1
  <1> HIDE DEF raws, n
  <1>4. raws \in Seq(R) /\ Len(raws) = n
    BY <1>1, <1>2, <1>3
  <1>5. \A c : /\ isCondArray(RawBusy(c))
               /\ isString(RawBusy(c).got[1]) /\ RawBusy(c).got[1].got[1] = c
               /\ isString(RawBusy(c).got[2]) /\ RawBusy(c).got[2].got[2] = Cardinality(Owned(c))
    BY DEF RawBusy, Arr, Word, Decimal, Str, isCondArray, isString
  <1>6. \A i \in 1 .. Len(raws) : passes[i]
    BY <1>2, <1>4, <1>5
  <1>7. told = [i \in DOMAIN fit |-> [name |-> fit[i].got[1].got[1],
                                      pending |-> parseInt(fit[i].got[2].got[2])]]
    BY DEF parseXPendingConsumers
  <1> HIDE DEF passes, R, told
  <1>8. fit = raws
    BY <1>4, <1>6, PushedAll
  <1> HIDE DEF fit
  <1>9. told = [i \in 1..n |-> [name |-> raws[i].got[1].got[1],
                                pending |-> parseInt(raws[i].got[2].got[2])]]
    BY <1>2, <1>7, <1>8
  <1>10. told = [i \in 1..n |-> [name |-> busy[i], pending |-> parseInt(Cardinality(Owned(busy[i])))]]
    BY <1>2, <1>5, <1>9
  <1> QED
    BY <1>1, <1>10 DEF told, raws

\* XPENDING: of a group that waits for nothing, there is no id to convert.
LEMMA SummaryTold ==
    ASSUME ReplyInv
    PROVE  /\ xpending.is = "throws" <=> DOMAIN pel = {}
           /\ DOMAIN pel # {} =>
                LET o == xpending.got IN
                /\ o.count = Cardinality(DOMAIN pel)
                /\ \A i \in DOMAIN o.consumers :
                      o.count <= Safe =>
                          o.consumers[i].pending = Cardinality(Owned(o.consumers[i].name))
  <1> DEFINE ids == InOrder(DOMAIN pel)
             busy == Pushed(<<Mine, Other>>, <<Owned(Mine) # {}, Owned(Other) # {}>>)
             raws == [i \in DOMAIN busy |-> RawBusy(busy[i])]
             full == <<Num(Len(ids)), IdStr(Head(ids)), IdStr(Last(ids)), Arr(raws)>>
             none == <<Num(0), Nil, Nil, Nil>>
  <1>1. DOMAIN pel \in SUBSET Pairs /\ IsFiniteSet(DOMAIN pel)
    BY FS_Subset DEF ReplyInv, WorkerInv, ServerTypes
  <1>2. Len(ids) = Cardinality(DOMAIN pel) /\ (ids = <<>> <=> DOMAIN pel = {})
    BY <1>1, InOrderIs, Ends
  <1>3. RawSummary = IF ids = <<>> THEN none ELSE full
    BY DEF RawSummary, RawBusy
  <1>4. busy \in Seq({Mine, Other})
    <2> DEFINE two == <<Mine, Other>>
               passes == <<Owned(Mine) # {}, Owned(Other) # {}>>
    <2>1. two \in Seq({Mine, Other}) /\ Len(two) = 2
      OBVIOUS
    <2> HIDE DEF two, passes
    <2>2. PICK g \in [0..Len(two) -> Seq({Mine, Other})] : Pushed(two, passes) = g[Len(two)]
      BY <2>1, PushedLoops
    <2>3. g[Len(two)] \in Seq({Mine, Other})
      BY <2>1, <2>2
    <2> QED
      BY <2>2, <2>3 DEF two, passes
  <1> HIDE DEF busy, ids
  <1>5. CASE DOMAIN pel = {}
    <2>1. RawSummary = none
      BY <1>2, <1>3, <1>5
    <2>2. none[2] = Nil
      OBVIOUS
    <2>3. ~ isString(RawSummary[2])
      BY <2>1, <2>2 DEF isString, Nil
    <2>4. xpending.is = "throws"
      BY <2>3 DEF xpending, pending, Throws
    <2> QED
      BY <1>5, <2>4
  <1>6. CASE DOMAIN pel # {}
    <2> DEFINE o == xpending.got
    <2>1. RawSummary = full
      BY <1>2, <1>3, <1>6
    <2> HIDE DEF raws
    <2>2. full[1] = Num(Len(ids)) /\ full[2] = IdStr(Head(ids)) /\ full[3] = IdStr(Last(ids)) /\ full[4] = Arr(raws)
      OBVIOUS
    <2> HIDE DEF full
    <2>3. /\ isNumber(full[1]) /\ full[1].got = Len(ids) /\ isString(full[2]) /\ isString(full[3])
          /\ isCondArray(full[4]) /\ full[4].got = raws
      BY <2>2 DEF Num, IdStr, Str, Arr, isNumber, isString, isCondArray
    <2>4. xpending = Gives([count |-> full[1].got,
                            startId |-> parseXId(full[2].got), endId |-> parseXId(full[3].got),
                            consumers |-> parseXPendingConsumers(full[4].got)])
      BY <2>1, <2>3 DEF xpending, pending
    <2>5. xpending.is = "value" /\ o.count = full[1].got /\ o.consumers = parseXPendingConsumers(full[4].got)
      BY <2>4 DEF Gives
    <2> HIDE DEF o
    <2>6. o.consumers = [i \in DOMAIN busy |-> [name |-> busy[i], pending |-> parseInt(Cardinality(Owned(busy[i])))]]
      BY <1>4, <2>3, <2>5, BusyTold DEF raws
    <2>7. o.count = Cardinality(DOMAIN pel)
      BY <1>2, <2>3, <2>5
    <2>8. ASSUME o.count <= Safe, NEW i \in DOMAIN o.consumers
          PROVE  o.consumers[i].pending = Cardinality(Owned(o.consumers[i].name))
      <3> DEFINE c == busy[i]
      <3>1. o.consumers[i].name = c /\ o.consumers[i].pending = parseInt(Cardinality(Owned(c)))
        BY <2>6, <2>8
      <3>2. Cardinality(Owned(c)) <= Cardinality(DOMAIN pel) /\ Cardinality(Owned(c)) \in Nat /\ Cardinality(DOMAIN pel) \in Nat
        <4>1. Owned(c) \subseteq DOMAIN pel
          BY DEF Owned
        <4> QED
          BY <1>1, <4>1, FS_Subset, FS_CardinalityType
      <3>3. Cardinality(Owned(c)) <= Safe
        BY <2>7, <2>8, <3>2, StreamAssumption
      <3>4. parseInt(Cardinality(Owned(c))) = Cardinality(Owned(c))
        BY <3>2, <3>3, StreamAssumption DEF parseInt
      <3> QED
        BY <3>1, <3>4
    <2> QED
      BY <1>6, <2>5, <2>7, <2>8 DEF o
  <1> QED
    BY <1>5, <1>6

\* The history of a worker: the first entry that was deleted throws.
LEMMA HistoryThrows ==
    ASSUME ReplyInv
    PROVE  xreadgroupHistory.is = "throws" <=> ~ (Owned(Mine) \subseteq DOMAIN stream)
  <1> DEFINE ids == InOrder(Owned(Mine))
             raws == RawEntries(ids)
             outs == [i \in DOMAIN raws |-> parseXMessage(raws[i])]
             out == Each(parseXMessage, raws)
  <1>1. Owned(Mine) \in SUBSET Pairs /\ IsFiniteSet(Owned(Mine))
    BY FS_Subset DEF ReplyInv, WorkerInv, ServerTypes, Owned
  <1>2. DOMAIN ids = 1 .. Len(ids) /\ Owned(Mine) = {ids[i] : i \in DOMAIN ids}
    BY <1>1, InOrderIs
  <1>3. xreadgroupHistory = out
    BY DEF xreadgroupHistory, parseXReadReply, RawHistory, RawStream, Arr, Word, Str
  <1> HIDE DEF ids
  <1>4. DOMAIN outs = DOMAIN ids /\ \A i \in DOMAIN ids : outs[i] = parseXMessage(RawEntry(ids[i]))
    BY DEF RawEntries
  <1>5. out = IF \E i \in DOMAIN outs : outs[i].is = "throws"
              THEN outs[CHOOSE i \in DOMAIN outs : outs[i].is = "throws"]
              ELSE Gives([i \in DOMAIN outs |-> outs[i].got])
    BY DEF Each
  <1> HIDE DEF outs, out
  <1>6. \A i \in DOMAIN ids : outs[i].is = "throws" <=> ids[i] \notin DOMAIN stream
    <2> SUFFICES ASSUME NEW i \in DOMAIN ids
                 PROVE  outs[i].is = "throws" <=> ids[i] \notin DOMAIN stream
      OBVIOUS
    <2> DEFINE id == ids[i]
    <2>1. outs[i] = parseXMessage(RawEntry(id))
      BY <1>4
    <2> HIDE DEF id
    <2>2. /\ id \in DOMAIN stream => outs[i].is = "value"
          /\ id \notin DOMAIN stream => outs[i].is = "throws"
      BY <2>1, EntryConverts
    <2> QED
      BY <2>2 DEF id
  <1>7. CASE \E i \in DOMAIN outs : outs[i].is = "throws"
    <2>1. out.is = "throws"
      BY <1>5, <1>7
    <2>2. \E i \in DOMAIN ids : ids[i] \notin DOMAIN stream
      BY <1>4, <1>6, <1>7
    <2> QED
      BY <1>2, <1>3, <2>1, <2>2
  <1>8. CASE ~ \E i \in DOMAIN outs : outs[i].is = "throws"
    <2>1. out.is = "value"
      BY <1>5, <1>8 DEF Gives
    <2>2. \A i \in DOMAIN ids : ids[i] \in DOMAIN stream
      BY <1>4, <1>6, <1>8
    <2> QED
      BY <1>2, <1>3, <2>1, <2>2
  <1> QED
    BY <1>7, <1>8

LEMMA Empty ==
    ASSUME Contents
    PROVE  /\ stream = <<>> <=> DOMAIN stream = {}
           /\ pel = <<>> <=> DOMAIN pel = {}
  <1>1. ASSUME DOMAIN stream = {} PROVE stream = <<>>
    BY <1>1 DEF Contents
  <1>2. ASSUME DOMAIN pel = {} PROVE pel = <<>>
    BY <1>2 DEF Contents
  <1>3. DOMAIN <<>> = {}
    OBVIOUS
  <1> QED
    BY <1>1, <1>2, <1>3

\* For any ids, bodies and shifts of the fields: every field a caller of the XINFO and
\* XPENDING methods is given is the one of that name, among others that the client does
\* not know (stream.ts, convertMap(); redis.ts:1700-1839).
THEOREM InfoFoundByName == Spec => []InfoByName
  <1>1. ReplyInv => InfoByName
    <2> SUFFICES ASSUME ReplyInv PROVE InfoByName
      OBVIOUS
    <2>1. stream = <<>> <=> DOMAIN stream = {}
      BY Empty DEF ReplyInv
    <2>2. pel = <<>> <=> DOMAIN pel = {}
      BY Empty DEF ReplyInv
    <2>3. ASSUME NEW k \in Orders, stream # <<>>
          PROVE  LET o == xinfoStream(k).got IN
              /\ xinfoStream(k).is = "value"
              /\ o.length = Cardinality(DOMAIN stream) /\ o.groups = 1
              /\ o.lastGeneratedId = parseXId(IdText(Newest(added)))
              /\ MessageOf(o.lastEntry, Newest(DOMAIN stream))
      BY <2>1, <2>3, InfoTold
    <2>4. ASSUME NEW k \in Orders
          PROVE  LET o == xinfoStreamFull(k).got
                     g == o.groups[1]
                 IN
              /\ Messages(Gives(o.entries), InOrder(DOMAIN stream))
              /\ Len(o.groups) = 1
              /\ g.name = "group" /\ g.lastDeliveredId = parseXId(IdText(delivered))
              /\ Xids(g.pending) = PendingXids(DOMAIN pel)
              /\ \A i \in DOMAIN g.consumers :
                     Xids(g.consumers[i].pending) = PendingXids(Owned(g.consumers[i].name))
      <3> DEFINE o == xinfoStreamFull(k).got
                 groups == parseXGroupDetail(<<Arr(From(k, RawGroup(k)))>>)
      <3>1. Messages(Gives(o.entries), InOrder(DOMAIN stream)) /\ o.groups = groups
        BY FullTold
      <3>2. /\ Len(groups) = 1
            /\ groups[1].name = "group" /\ groups[1].lastDeliveredId = parseXId(IdText(delivered))
            /\ Xids(groups[1].pending) = PendingXids(DOMAIN pel)
            /\ \A i \in DOMAIN groups[1].consumers :
                   Xids(groups[1].consumers[i].pending) = PendingXids(Owned(groups[1].consumers[i].name))
        BY GroupTold
      <3> HIDE DEF o, groups
      <3>3. /\ Messages(Gives(o.entries), InOrder(DOMAIN stream))
            /\ Len(o.groups) = 1
            /\ o.groups[1].name = "group" /\ o.groups[1].lastDeliveredId = parseXId(IdText(delivered))
            /\ Xids(o.groups[1].pending) = PendingXids(DOMAIN pel)
            /\ \A i \in DOMAIN o.groups[1].consumers :
                   Xids(o.groups[1].consumers[i].pending) = PendingXids(Owned(o.groups[1].consumers[i].name))
        BY <3>1, <3>2
      <3> QED
        BY <3>3 DEF o
    <2>5. ASSUME NEW k \in Orders
          PROVE  LET g == xinfoGroups(k)[1] IN
              /\ g.pending = Cardinality(DOMAIN pel) /\ g.consumers = 2
              /\ g.lastDeliveredId = parseXId(IdText(delivered))
      BY GroupsTold
    <2>6. ASSUME NEW k \in Orders, NEW i \in 1..2
          PROVE  LET c == xinfoConsumers(k)[i] IN c.pending = Cardinality(Owned(c.name))
      BY OwnersTold
    <2>7. ASSUME NEW i \in DOMAIN xpendingCount
          PROVE  xpendingCount[i].owner = pel[InOrder(DOMAIN pel)[i]]
      <3> DEFINE ids == InOrder(DOMAIN pel)
      <3>1. xpendingCount = [j \in DOMAIN ids |-> PendingOf(ids[j])]
        BY PendingsTold DEF xpendingCount
      <3> HIDE DEF ids
      <3>2. xpendingCount[i].owner = pel[ids[i]]
        BY <2>7, <3>1 DEF PendingOf
      <3> QED
        BY <3>2 DEF ids
    <2>8. ASSUME pel # <<>>
          PROVE  LET o == xpending.got IN
           /\ o.count = Cardinality(DOMAIN pel)
           /\ \A i \in DOMAIN o.consumers :
              o.count <= Safe =>
                  o.consumers[i].pending = Cardinality(Owned(o.consumers[i].name))
      BY <2>2, <2>8, SummaryTold
    <2> QED
      BY <2>3, <2>4, <2>5, <2>6, <2>7, <2>8 DEF InfoByName
  <1> QED
    BY <1>1, ReplyTypes, PTL

\* For any stream and group: a well-formed reply makes a conversion throw when, and only
\* when, an entry the worker has pending was deleted, the stream is empty, or the group
\* waits for nothing (stream.ts:217, redis.ts:1708, redis.ts:1817).
THEOREM ThrowsOnlyForThose == Spec => []ThrowsOnlyFor
  <1>1. ReplyInv => ThrowsOnlyFor
    <2> SUFFICES ASSUME ReplyInv PROVE ThrowsOnlyFor
      OBVIOUS
    <2>1. stream = <<>> <=> DOMAIN stream = {}
      BY Empty DEF ReplyInv
    <2>2. pel = <<>> <=> DOMAIN pel = {}
      BY Empty DEF ReplyInv
    <2>3. xreadgroupHistory.is = "throws" <=> ~ (Owned(Mine) \subseteq DOMAIN stream)
      BY HistoryThrows
    <2>4. xpending.is = "throws" <=> pel = <<>>
      BY <2>2, SummaryTold
    <2>5. \A k \in Orders : xinfoStream(k).is = "throws" <=> stream = <<>>
      BY <2>1, InfoTold
    <2>6. \A k \in Orders : xinfoStreamFull(k).is = "value"
      BY FullTold
    <2> QED
      BY <2>3, <2>4, <2>5, <2>6 DEF ThrowsOnlyFor
  <1> QED
    BY <1>1, ReplyTypes, PTL
=============================================================================
