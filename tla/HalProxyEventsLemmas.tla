------------------------ MODULE HalProxyEventsLemmas ------------------------
(***************************************************************************)
(* What the operators of HalProxyEvents compute, for sequences of any      *)
(* length: the flattened backlog, the sum of the counts that wait in       *)
(* mWakeLockQueue and the number of wake-up events in a queue, when it     *)
(* grows at its end or is cut at its front.                                *)
(*                                                                         *)
(* FlattenSeq and SumOf are recursive functions.  Their values are found   *)
(* by induction, for which a set of natural numbers takes the place of the *)
(* predicate.                                                              *)
(***************************************************************************)
EXTENDS HalProxyEvents, SequenceTheorems, FiniteSetTheorems,
        WellFoundedInduction, TLAPS

\* A set that contains zero, and with each number its successor, contains all.
LEMMA SetInduction ==
    ASSUME NEW S, 0 \in S, \A n \in Nat : n \in S => n + 1 \in S
    PROVE  Nat \subseteq S
<1> DEFINE T == Nat \ S
<1> SUFFICES ASSUME T # {} PROVE FALSE
  OBVIOUS
<1>1. PICK x \in T : \A y \in T : ~(<<y, x>> \in OpToRel(<, Nat))
  BY NatLessThanWellFounded, WFMin
<1>2. x \in Nat \ {0}
  OBVIOUS
<1>3. x - 1 \in Nat /\ <<x - 1, x>> \in OpToRel(<, Nat)
  BY <1>2 DEF OpToRel
<1>4. x - 1 \notin T
  BY <1>1, <1>3
<1>5. x - 1 \in S
  BY <1>3, <1>4
<1>6. (x - 1) + 1 \in S
  BY <1>3, <1>5
<1>7. (x - 1) + 1 = x
  BY <1>2
<1> QED
  BY <1>6, <1>7, Zenon

\* The same for a set of numbers from 1 to k.
LEMMA IntervalInduction ==
    ASSUME NEW k \in Nat, NEW T, k > 0 => 1 \in T,
           \A n \in 1 .. k : n \in T /\ n + 1 <= k => n + 1 \in T
    PROVE  1 .. k \subseteq T
<1> DEFINE N == {n \in Nat : n \in 1 .. k => n \in T}
<1>1. 0 \in N
  OBVIOUS
<1>2. \A n \in Nat : n \in N => n + 1 \in N
  OBVIOUS
<1>3. Nat \subseteq N
  <2> HIDE DEF N
  <2> QED
    BY <1>1, <1>2, SetInduction
<1> QED
  BY <1>3

----------------------------------------------------------------------------
\* FlattenSeq.

\* f[i] is the concatenation of t[1] to t[i].
Concats(f, t, k) ==
    \A i \in 1 .. k : f[i] = IF i = 1 THEN t[i] ELSE f[i - 1] \o t[i]

\* The first k values of t are in Q.
Within(t, k, Q) == \A i \in 1 .. k : t[i] \in Q

\* Concatenation stays in Q and is associative there.
Concatenable(Q) ==
    \A a, b \in Q : /\ a \o b \in Q
                    /\ \A c \in Q : (a \o b) \o c = a \o (b \o c)

LEMMA SeqConcatenable == \A S : Concatenable(Seq(S))
<1> SUFFICES ASSUME NEW S, NEW a \in Seq(S), NEW b \in Seq(S)
             PROVE  /\ a \o b \in Seq(S)
                    /\ \A c \in Seq(S) : (a \o b) \o c = a \o (b \o c)
  BY DEF Concatenable
<1> QED
  BY ConcatProperties, ConcatAssociative

\* Such a function exists, ...
LEMMA ConcatsExist ==
    ASSUME NEW Q, Concatenable(Q), NEW k \in Nat, NEW t, Within(t, k, Q)
    PROVE  \E f : f \in [1 .. k -> Q] /\ Concats(f, t, k)
<1> DEFINE Good(n) == \E f : f \in [1 .. n -> Q] /\ Concats(f, t, n)
           T == {n \in 1 .. k : Good(n)}
<1>1. CASE k = 0
  <2> DEFINE f == [i \in 1 .. k |-> t[i]]
  <2>1. f \in [1 .. k -> Q] /\ Concats(f, t, k)
    BY <1>1 DEF Concats
  <2> QED
    BY <2>1
<1>2. CASE k > 0
  <2>1. 1 \in T
    <3> DEFINE f == [i \in 1 .. 1 |-> t[1]]
    <3>1. f \in [1 .. 1 -> Q] /\ Concats(f, t, 1)
      BY <1>2 DEF Concats, Within
    <3> QED
      BY <1>2, <3>1
  <2>2. ASSUME NEW n \in 1 .. k, n \in T, n + 1 <= k PROVE n + 1 \in T
    <3>1. PICK f : f \in [1 .. n -> Q] /\ Concats(f, t, n)
      BY <2>2
    <3> DEFINE x == f[n] \o t[n + 1]
               g == [i \in 1 .. n + 1 |-> IF i = n + 1 THEN x ELSE f[i]]
    <3>2. x \in Q
      <4>1. f[n] \in Q /\ t[n + 1] \in Q
        BY <2>2, <3>1 DEF Within
      <4> QED
        BY <4>1 DEF Concatenable
    <3>3. g \in [1 .. n + 1 -> Q]
      <4> HIDE DEF x
      <4> QED
        BY <3>1, <3>2
    <3>4. ASSUME NEW i \in 1 .. n + 1
          PROVE  g[i] = IF i = 1 THEN t[i] ELSE g[i - 1] \o t[i]
      <4>1. CASE i = n + 1
        <5>1. i # 1 /\ i - 1 = n /\ n \in 1 .. n + 1 /\ n # n + 1
          BY <4>1
        <5>2. g[i] = x /\ g[n] = f[n]
          BY <4>1, <5>1
        <5> QED
          BY <4>1, <5>1, <5>2
      <4>2. CASE i # n + 1
        <5>1. i \in 1 .. n /\ (i # 1 => i - 1 \in 1 .. n + 1 /\ i - 1 # n + 1)
          BY <4>2
        <5>2. f[i] = IF i = 1 THEN t[i] ELSE f[i - 1] \o t[i]
          BY <3>1, <5>1 DEF Concats
        <5> QED
          BY <4>2, <5>1, <5>2
      <4> QED
        BY <4>1, <4>2
    <3>5. Concats(g, t, n + 1)
      <4> HIDE DEF g
      <4> QED
        BY <3>4 DEF Concats
    <3>6. Good(n + 1)
      <4> HIDE DEF g
      <4> QED
        BY <3>3, <3>5
    <3> QED
      <4> HIDE DEF Good
      <4> QED
        BY <2>2, <3>6
  <2>3. 1 .. k \subseteq T
    <3> HIDE DEF T
    <3> QED
      BY <2>1, <2>2, IntervalInduction
  <2>4. Good(k)
    <3> HIDE DEF Good
    <3> QED
      BY <1>2, <2>3
  <2> QED
    BY <2>4
<1> QED
  BY <1>1, <1>2

\* ... it is determined by t, ...
LEMMA ConcatsUnique ==
    ASSUME NEW k \in Nat, NEW t, NEW f, Concats(f, t, k),
           NEW g, Concats(g, t, k)
    PROVE  \A i \in 1 .. k : f[i] = g[i]
<1> DEFINE T == {n \in 1 .. k : f[n] = g[n]}
<1>1. k > 0 => 1 \in T
  BY DEF Concats
<1>2. ASSUME NEW n \in 1 .. k, n \in T, n + 1 <= k PROVE n + 1 \in T
  <2>1. n + 1 \in 1 .. k /\ n + 1 # 1 /\ (n + 1) - 1 = n
    BY <1>2
  <2>2. f[n + 1] = f[n] \o t[n + 1] /\ g[n + 1] = g[n] \o t[n + 1]
    BY <2>1 DEF Concats
  <2> QED
    BY <1>2, <2>1, <2>2
<1>3. 1 .. k \subseteq T
  <2> HIDE DEF T
  <2> QED
    BY <1>1, <1>2, IntervalInduction
<1> QED
  BY <1>3

\* s is t with one more value in front.
Prefixed(s, t, k) == \A i \in 1 .. k : s[i + 1] = t[i]

\* The values of f, from the second on, are those of g behind a.
Behind(f, g, a, k) == \A i \in 1 .. k : f[i + 1] = a \o g[i]

\* ... one sequence in front of t comes in front of each of its values, ...
LEMMA ConcatsShift ==
    ASSUME NEW Q, Concatenable(Q), NEW k \in Nat, NEW t, Within(t, k, Q),
           NEW g, Within(g, k, Q), Concats(g, t, k),
           NEW s, s[1] \in Q, Prefixed(s, t, k),
           NEW f, Concats(f, s, k + 1)
    PROVE  Behind(f, g, s[1], k)
<1> DEFINE a == s[1]
           T == {n \in 1 .. k : f[n + 1] = a \o g[n]}
<1>1. ASSUME NEW n \in 1 .. k PROVE f[n + 1] = f[n] \o t[n]
  <2>1. n + 1 \in 1 .. k + 1 /\ n + 1 # 1 /\ (n + 1) - 1 = n
    OBVIOUS
  <2>2. f[n + 1] = f[n] \o s[n + 1]
    BY <2>1 DEF Concats
  <2> QED
    BY <2>2 DEF Prefixed
<1>2. f[1] = a
  BY DEF Concats
<1>3. k > 0 => 1 \in T
  <2> SUFFICES ASSUME k > 0 PROVE f[1 + 1] = a \o g[1]
    <3> HIDE DEF a
    <3> QED
      OBVIOUS
  <2>1. f[1 + 1] = f[1] \o t[1]
    <3>1. 1 \in 1 .. k
      OBVIOUS
    <3> QED
      BY <1>1, <3>1, Zenon
  <2>2. g[1] = t[1]
    BY DEF Concats
  <2> QED
    BY <1>2, <2>1, <2>2
<1>4. ASSUME NEW n \in 1 .. k, n \in T, n + 1 <= k PROVE n + 1 \in T
  <2>1. n + 1 \in 1 .. k /\ n + 1 # 1 /\ (n + 1) - 1 = n
    BY <1>4
  <2>2. g[n + 1] = g[n] \o t[n + 1]
    BY <2>1 DEF Concats
  <2>3. f[(n + 1) + 1] = f[n + 1] \o t[n + 1]
    BY <1>1, <2>1
  <2>4. f[n + 1] = a \o g[n]
    BY <1>4
  <2>5. g[n] \in Q /\ t[n + 1] \in Q
    BY <2>1 DEF Within
  <2>6. (a \o g[n]) \o t[n + 1] = a \o (g[n] \o t[n + 1])
    BY <2>5, Zenon DEF Concatenable
  <2>7. f[(n + 1) + 1] = a \o g[n + 1]
    BY <2>2, <2>3, <2>4, <2>6, Zenon
  <2> QED
    BY <2>1, <2>7
<1>5. 1 .. k \subseteq T
  <2> HIDE DEF T
  <2> QED
    BY <1>3, <1>4, IntervalInduction
<1> QED
  BY <1>5 DEF Behind

\* ... and its last value is FlattenSeq(t).
LEMMA FlattenIs ==
    ASSUME NEW t, Len(t) \in Nat, Len(t) > 0, NEW Q,
           NEW f \in [1 .. Len(t) -> Q], Concats(f, t, Len(t))
    PROVE  FlattenSeq(t) = f[Len(t)]
<1> DEFINE Good(g) == g = [i \in 1 .. Len(t) |->
                             IF i = 1 THEN t[i] ELSE g[i - 1] \o t[i]]
           h == CHOOSE g : Good(g)
<1>1. Good(f)
  BY DEF Concats
<1>2. Good(h)
  BY <1>1
<1>3. FlattenSeq(t) = h[Len(t)]
  BY DEF FlattenSeq
<1>4. Concats(h, t, Len(t))
  <2> HIDE DEF h
  <2> QED
    BY <1>2 DEF Concats
<1>5. h[Len(t)] = f[Len(t)]
  <2> HIDE DEF h
  <2> QED
    BY <1>4, ConcatsUnique
<1> QED
  BY <1>3, <1>5

\* A list of sequences over S.
IsList(t, S) ==
    /\ Len(t) \in Nat /\ (Len(t) = 0 => t = <<>>)
    /\ Within(t, Len(t), Seq(S))

\* The flattened sequence has the elements' type; that of no sequence is empty.
LEMMA FlattenType ==
    ASSUME NEW S, NEW t, IsList(t, S)
    PROVE  FlattenSeq(t) \in Seq(S) /\ (Len(t) = 0 => FlattenSeq(t) = <<>>)
<1>1. CASE Len(t) = 0
  <2>1. FlattenSeq(t) = t /\ t = <<>>
    BY <1>1 DEF FlattenSeq, IsList
  <2> QED
    BY <2>1
<1>2. CASE Len(t) # 0
  <2>1. PICK f : f \in [1 .. Len(t) -> Seq(S)] /\ Concats(f, t, Len(t))
    BY SeqConcatenable, ConcatsExist DEF IsList
  <2>2. Len(t) \in Nat /\ Len(t) > 0 /\ Len(t) \in 1 .. Len(t)
    BY <1>2 DEF IsList
  <2>3. FlattenSeq(t) = f[Len(t)]
    BY <2>1, <2>2, FlattenIs
  <2> QED
    BY <1>2, <2>1, <2>2, <2>3
<1> QED
  BY <1>1, <1>2

\* A sequence that is appended to the list comes last.
LEMMA FlattenAppend ==
    ASSUME NEW S, NEW t, IsList(t, S), NEW u, IsList(u, S),
           Len(u) = Len(t) + 1, \A i \in 1 .. Len(t) : u[i] = t[i]
    PROVE  FlattenSeq(u) = FlattenSeq(t) \o u[Len(u)]
<1>1. /\ Len(t) \in Nat /\ Len(u) \in 1 .. Len(u) /\ Len(u) > 0
      /\ Len(u) \in Nat /\ Len(u) - 1 = Len(t)
  BY DEF IsList
<1>2. PICK g : g \in [1 .. Len(u) -> Seq(S)] /\ Concats(g, u, Len(u))
  BY SeqConcatenable, ConcatsExist DEF IsList
<1>3. FlattenSeq(u) = g[Len(u)]
  BY <1>1, <1>2, FlattenIs
<1>4. u[Len(u)] \in Seq(S)
  BY <1>1 DEF IsList, Within
<1>5. CASE Len(t) = 0
  <2>1. g[Len(u)] = u[Len(u)]
    BY <1>1, <1>2, <1>5 DEF Concats
  <2>2. FlattenSeq(t) = <<>>
    BY <1>5, FlattenType
  <2>3. <<>> \o u[Len(u)] = u[Len(u)]
    BY <1>4, ConcatEmptySeq
  <2> QED
    BY <1>3, <2>1, <2>2, <2>3
<1>6. CASE Len(t) # 0
  <2>1. PICK f : f \in [1 .. Len(t) -> Seq(S)] /\ Concats(f, t, Len(t))
    BY SeqConcatenable, ConcatsExist DEF IsList
  <2>2. Len(t) > 0 /\ Len(t) \in 1 .. Len(t) /\ Len(u) # 1
    BY <1>1, <1>6
  <2>3. FlattenSeq(t) = f[Len(t)]
    BY <1>1, <2>1, <2>2, FlattenIs
  <2>4. Concats(g, t, Len(t))
    <3>1. \A i \in 1 .. Len(t) : i \in 1 .. Len(u)
      BY <1>1
    <3> QED
      BY <1>2, <3>1 DEF Concats
  <2>5. f[Len(t)] = g[Len(t)]
    BY <1>1, <2>1, <2>2, <2>4, ConcatsUnique
  <2>6. g[Len(u)] = g[Len(u) - 1] \o u[Len(u)]
    BY <1>1, <1>2, <2>2 DEF Concats
  <2> QED
    BY <1>1, <1>3, <2>3, <2>5, <2>6
<1> QED
  BY <1>5, <1>6

\* A sequence in front of the list comes first.
LEMMA FlattenHead ==
    ASSUME NEW S, NEW t, IsList(t, S), NEW u, IsList(u, S),
           Len(u) = Len(t) + 1, \A i \in 1 .. Len(t) : u[i + 1] = t[i]
    PROVE  FlattenSeq(u) = u[1] \o FlattenSeq(t)
<1>1. /\ Len(t) \in Nat /\ Len(u) > 0 /\ 1 \in 1 .. Len(u) /\ Len(u) \in Nat
  BY DEF IsList
<1>2. PICK g : g \in [1 .. Len(u) -> Seq(S)] /\ Concats(g, u, Len(u))
  BY SeqConcatenable, ConcatsExist DEF IsList
<1>3. FlattenSeq(u) = g[Len(u)]
  BY <1>1, <1>2, FlattenIs
<1>4. u[1] \in Seq(S)
  BY <1>1 DEF IsList, Within
<1>5. CASE Len(t) = 0
  <2>1. Len(u) = 1
    BY <1>5
  <2>2. g[Len(u)] = u[1]
    BY <1>1, <1>2, <2>1 DEF Concats
  <2>3. FlattenSeq(t) = <<>>
    BY <1>5, FlattenType
  <2>4. u[1] \o <<>> = u[1]
    BY <1>4, ConcatEmptySeq
  <2> QED
    BY <1>3, <2>2, <2>3, <2>4
<1>6. CASE Len(t) # 0
  <2>1. PICK f : f \in [1 .. Len(t) -> Seq(S)] /\ Concats(f, t, Len(t))
    BY SeqConcatenable, ConcatsExist DEF IsList
  <2>2. Len(t) > 0 /\ Len(t) \in 1 .. Len(t)
    BY <1>1, <1>6
  <2>3. FlattenSeq(t) = f[Len(t)]
    BY <1>1, <2>1, <2>2, FlattenIs
  <2>4. Within(t, Len(t), Seq(S)) /\ Within(f, Len(t), Seq(S))
    BY <2>1 DEF IsList, Within
  <2>5. Behind(g, f, u[1], Len(t))
    <3>1. Concats(g, u, Len(t) + 1) /\ Concatenable(Seq(S))
      BY <1>2, SeqConcatenable, Zenon
    <3>2. Prefixed(u, t, Len(t)) /\ Len(t) \in Nat
      BY <1>1 DEF Prefixed
    <3> QED
      BY <1>4, <2>1, <2>4, <3>1, <3>2, ConcatsShift
  <2>6. g[Len(u)] = u[1] \o f[Len(t)]
    BY <2>2, <2>5 DEF Behind
  <2> QED
    BY <1>3, <2>3, <2>6
<1> QED
  BY <1>5, <1>6

----------------------------------------------------------------------------
\* First and Rest.

\* A sequence falls into its first n elements and the others.
LEMMA Split ==
    ASSUME NEW S, NEW s \in Seq(S), NEW n \in 0 .. Len(s)
    PROVE  /\ First(s, n) \in Seq(S) /\ Len(First(s, n)) = n
           /\ Rest(s, n) \in Seq(S) /\ Len(Rest(s, n)) = Len(s) - n
           /\ First(s, n) \o Rest(s, n) = s
<1>1. 1 \in 1 .. Len(s) + 1 /\ n \in 1 - 1 .. Len(s) /\ Len(s) \in n .. Len(s)
  BY LenProperties
<1>2. First(s, n) \o Rest(s, n) = SubSeq(s, 1, Len(s))
  BY <1>1, ConcatAdjacentSubSeq DEF First, Rest
<1>3. SubSeq(s, 1, Len(s)) = s
  BY SubSeqFull
<1>4. First(s, n) \in Seq(S) /\ Len(First(s, n)) = n
  BY DEF First
<1>5. Rest(s, n) \in Seq(S) /\ Len(Rest(s, n)) = Len(s) - n
  BY DEF Rest
<1> QED
  BY <1>2, <1>3, <1>4, <1>5

\* The limits: nothing is taken, or everything.
LEMMA SplitLimits ==
    ASSUME NEW S, NEW s \in Seq(S)
    PROVE  /\ First(s, 0) = <<>> /\ Rest(s, 0) = s
           /\ First(s, Len(s)) = s /\ Rest(s, Len(s)) = <<>>
BY DEF First, Rest

\* What is taken from the front leaves the rear alone.
LEMMA RestConcat ==
    ASSUME NEW S, NEW s \in Seq(S), NEW t \in Seq(S), NEW n \in 0 .. Len(s)
    PROVE  Rest(s \o t, n) = Rest(s, n) \o t
<1> DEFINE u == s \o t
           l == Rest(u, n)
           r == Rest(s, n) \o t
<1>1. /\ u \in Seq(S) /\ Len(u) = Len(s) + Len(t)
      /\ \A i \in 1 .. Len(s) + Len(t) :
            u[i] = IF i <= Len(s) THEN s[i] ELSE t[i - Len(s)]
  BY ConcatProperties
<1>2. Len(s) \in Nat /\ Len(t) \in Nat
  BY LenProperties
<1>3. /\ l \in Seq(S) /\ Len(l) = Len(u) - n
      /\ \A i \in 1 .. Len(u) - n : l[i] = u[n + i]
  <2> HIDE DEF u
  <2> QED
    BY <1>1, <1>2 DEF Rest
<1>4. /\ Rest(s, n) \in Seq(S) /\ Len(Rest(s, n)) = Len(s) - n
      /\ \A i \in 1 .. Len(s) - n : Rest(s, n)[i] = s[n + i]
  BY <1>2 DEF Rest
<1>5. /\ r \in Seq(S) /\ Len(r) = (Len(s) - n) + Len(t)
      /\ \A i \in 1 .. (Len(s) - n) + Len(t) :
            r[i] = IF i <= Len(s) - n THEN Rest(s, n)[i]
                                      ELSE t[i - (Len(s) - n)]
  <2> DEFINE v == Rest(s, n)
  <2>1. v \in Seq(S) /\ Len(v) = Len(s) - n
    BY <1>4
  <2>2. /\ v \o t \in Seq(S) /\ Len(v \o t) = Len(v) + Len(t)
        /\ \A i \in 1 .. Len(v) + Len(t) :
              (v \o t)[i] = IF i <= Len(v) THEN v[i] ELSE t[i - Len(v)]
    <3> HIDE DEF v
    <3> QED
      BY <2>1, ConcatProperties
  <2> QED
    BY <2>1, <2>2
<1>6. ASSUME NEW i \in 1 .. Len(l) PROVE l[i] = r[i]
  <2> HIDE DEF u, l, r
  <2>1. /\ i \in 1 .. Len(u) - n /\ n + i \in 1 .. Len(s) + Len(t)
        /\ i \in 1 .. (Len(s) - n) + Len(t)
    BY <1>1, <1>2, <1>3
  <2>2. l[i] = u[n + i]
    BY <1>3, <2>1
  <2>3. CASE i <= Len(s) - n
    <3>1. n + i <= Len(s) /\ i \in 1 .. Len(s) - n
      BY <1>2, <2>3
    <3> QED
      BY <1>1, <1>4, <1>5, <2>1, <2>2, <2>3, <3>1
  <2>4. CASE ~(i <= Len(s) - n)
    <3>1. ~(n + i <= Len(s)) /\ i - (Len(s) - n) = (n + i) - Len(s)
      BY <1>2, <2>4
    <3> QED
      BY <1>1, <1>5, <2>1, <2>2, <2>4, <3>1
  <2> QED
    BY <2>3, <2>4
<1>7. Len(l) = Len(r)
  <2> HIDE DEF u, l, r
  <2> QED
    BY <1>1, <1>2, <1>3, <1>5
<1> QED
  <2> HIDE DEF l, r
  <2>1. l = r
    BY <1>3, <1>5, <1>6, <1>7, SeqEqual
  <2> QED
    BY <2>1 DEF l, r, u

----------------------------------------------------------------------------
\* SumOf.

\* f[i] is the sum of s[1] to s[i].
Sums(f, s, k) ==
    \A i \in 0 .. k : f[i] = IF i = 0 THEN 0 ELSE f[i - 1] + s[i]

LEMMA SumsExist ==
    ASSUME NEW k \in Nat, NEW s, Within(s, k, Nat)
    PROVE  \E f : f \in [0 .. k -> Nat] /\ Sums(f, s, k)
<1> DEFINE Good(n) == \E f : f \in [0 .. n -> Nat] /\ Sums(f, s, n)
           T == {n \in Nat : n <= k => Good(n)}
<1>1. 0 \in T
  <2> DEFINE f == [i \in 0 .. 0 |-> 0]
  <2>1. f \in [0 .. 0 -> Nat] /\ Sums(f, s, 0)
    BY DEF Sums
  <2> QED
    BY <2>1
<1>2. ASSUME NEW n \in Nat, n \in T PROVE n + 1 \in T
  <2> SUFFICES ASSUME n + 1 <= k PROVE Good(n + 1)
    <3> HIDE DEF Good
    <3> QED
      OBVIOUS
  <2>1. PICK f : f \in [0 .. n -> Nat] /\ Sums(f, s, n)
    BY <1>2
  <2> DEFINE x == f[n] + s[n + 1]
             g == [i \in 0 .. n + 1 |-> IF i = n + 1 THEN x ELSE f[i]]
  <2>2. f[n] \in Nat /\ s[n + 1] \in Nat
    BY <2>1 DEF Within
  <2>3. g \in [0 .. n + 1 -> Nat]
    BY <2>1, <2>2
  <2>4. ASSUME NEW i \in 0 .. n + 1
        PROVE  g[i] = IF i = 0 THEN 0 ELSE g[i - 1] + s[i]
    <3>1. CASE i = n + 1
      BY <3>1
    <3>2. CASE i # n + 1
      <4>1. i \in 0 .. n /\ (i # 0 => i - 1 \in 0 .. n + 1 /\ i - 1 # n + 1)
        BY <3>2
      <4>2. f[i] = IF i = 0 THEN 0 ELSE f[i - 1] + s[i]
        BY <2>1, <4>1 DEF Sums
      <4> QED
        BY <3>2, <4>1, <4>2
    <3> QED
      BY <3>1, <3>2
  <2>5. Sums(g, s, n + 1)
    <3> HIDE DEF g
    <3> QED
      BY <2>4 DEF Sums
  <2> QED
    <3> HIDE DEF g
    <3> QED
      BY <2>3, <2>5
<1>3. Nat \subseteq T
  <2> HIDE DEF T
  <2> QED
    BY <1>1, <1>2, SetInduction
<1>4. Good(k)
  <2> HIDE DEF Good
  <2> QED
    BY <1>3
<1> QED
  BY <1>4

LEMMA SumsUnique ==
    ASSUME NEW k \in Nat, NEW s, NEW f, Sums(f, s, k), NEW g, Sums(g, s, k)
    PROVE  \A i \in 0 .. k : f[i] = g[i]
<1> DEFINE T == {n \in Nat : n <= k => f[n] = g[n]}
<1>1. 0 \in T
  BY DEF Sums
<1>2. ASSUME NEW n \in Nat, n \in T PROVE n + 1 \in T
  <2> SUFFICES ASSUME n + 1 <= k PROVE f[n + 1] = g[n + 1]
    OBVIOUS
  <2>1. n + 1 \in 0 .. k /\ n + 1 # 0 /\ (n + 1) - 1 = n /\ n <= k
    OBVIOUS
  <2>2. f[n + 1] = f[n] + s[n + 1] /\ g[n + 1] = g[n] + s[n + 1]
    BY <2>1 DEF Sums
  <2> QED
    BY <1>2, <2>1, <2>2
<1>3. Nat \subseteq T
  <2> HIDE DEF T
  <2> QED
    BY <1>1, <1>2, SetInduction
<1> QED
  BY <1>3

LEMMA SumIs ==
    ASSUME NEW s, Len(s) \in Nat, NEW f \in [0 .. Len(s) -> Nat],
           Sums(f, s, Len(s))
    PROVE  SumOf(s) = f[Len(s)]
<1> DEFINE Good(g) == g = [i \in 0 .. Len(s) |->
                             IF i = 0 THEN 0 ELSE g[i - 1] + s[i]]
           h == CHOOSE g : Good(g)
<1>1. Good(f)
  BY DEF Sums
<1>2. Good(h)
  BY <1>1
<1>3. SumOf(s) = h[Len(s)]
  BY DEF SumOf
<1>4. Sums(h, s, Len(s))
  <2> HIDE DEF h
  <2> QED
    BY <1>2 DEF Sums
<1>5. h[Len(s)] = f[Len(s)]
  <2> HIDE DEF h
  <2> QED
    BY <1>4, SumsUnique
<1> QED
  BY <1>3, <1>5

\* A sum of counts is a count; that of no counts is zero.
LEMMA SumType ==
    ASSUME NEW s \in Seq(Nat)
    PROVE  SumOf(s) \in Nat /\ (s = <<>> => SumOf(s) = 0)
<1>1. Len(s) \in Nat /\ Within(s, Len(s), Nat)
  BY DEF Within
<1>2. PICK f : f \in [0 .. Len(s) -> Nat] /\ Sums(f, s, Len(s))
  BY <1>1, SumsExist
<1>3. SumOf(s) = f[Len(s)]
  BY <1>1, <1>2, SumIs
<1>4. s = <<>> => Len(s) = 0
  OBVIOUS
<1>5. f[0] = 0
  BY <1>1, <1>2 DEF Sums
<1> QED
  BY <1>1, <1>2, <1>3, <1>4, <1>5

\* An appended count is added.
LEMMA SumAppend ==
    ASSUME NEW s \in Seq(Nat), NEW x \in Nat
    PROVE  SumOf(Append(s, x)) = SumOf(s) + x
<1> DEFINE u == Append(s, x)
           k == Len(s)
<1>1. /\ u \in Seq(Nat) /\ Len(u) = k + 1 /\ u[k + 1] = x /\ k \in Nat
      /\ \A i \in 1 .. k : u[i] = s[i]
  BY AppendProperties
<1> HIDE DEF u
<1>2. Within(s, k, Nat) /\ Within(u, k + 1, Nat) /\ k + 1 \in Nat
  BY <1>1 DEF Within
<1>3. PICK g : g \in [0 .. k + 1 -> Nat] /\ Sums(g, u, k + 1)
  BY <1>1, <1>2, SumsExist
<1>4. PICK f : f \in [0 .. k -> Nat] /\ Sums(f, s, k)
  BY <1>1, <1>2, SumsExist
<1>5. SumOf(u) = g[k + 1] /\ SumOf(s) = f[k]
  <2>1. Len(u) \in Nat /\ g \in [0 .. Len(u) -> Nat] /\ Sums(g, u, Len(u))
    BY <1>1, <1>2, <1>3
  <2>2. SumOf(u) = g[Len(u)]
    BY <2>1, SumIs
  <2>3. SumOf(s) = f[Len(s)]
    BY <1>1, <1>4, SumIs
  <2> QED
    BY <1>1, <2>2, <2>3
<1>6. Sums(g, s, k)
  <2>1. ASSUME NEW i \in 0 .. k
        PROVE  g[i] = IF i = 0 THEN 0 ELSE g[i - 1] + s[i]
    <3>1. g[i] = IF i = 0 THEN 0 ELSE g[i - 1] + u[i]
      BY <1>1, <1>3 DEF Sums
    <3> QED
      BY <1>1, <3>1
  <2> QED
    BY <2>1 DEF Sums
<1>7. g[k] = f[k]
  BY <1>1, <1>4, <1>6, SumsUnique
<1>8. g[k + 1] = g[k] + x
  <2>1. k + 1 \in 0 .. k + 1 /\ k + 1 # 0 /\ (k + 1) - 1 = k
    BY <1>1
  <2> QED
    BY <1>1, <1>3, <2>1 DEF Sums
<1> QED
  BY <1>5, <1>7, <1>8 DEF u

\* The first count can be taken off.
LEMMA SumHead ==
    ASSUME NEW s \in Seq(Nat), s # <<>>
    PROVE  SumOf(s) = Head(s) + SumOf(Tail(s))
<1> DEFINE t == Tail(s)
           k == Len(t)
           a == s[1]
<1>1. /\ t \in Seq(Nat) /\ Len(s) = k + 1 /\ k \in Nat
      /\ \A i \in 1 .. k : t[i] = s[i + 1]
      /\ Head(s) = a /\ a \in Nat
  <2>1. t \in Seq(Nat) /\ Len(t) = Len(s) - 1 /\ Len(s) \in Nat \ {0}
    BY HeadTailProperties
  <2>2. \A i \in 1 .. Len(t) : t[i] = s[i + 1]
    BY HeadTailProperties
  <2>3. Head(s) = a /\ a \in Nat
    BY <2>1
  <2> QED
    BY <2>1, <2>2, <2>3
<1> HIDE DEF t, a
<1>2. Within(t, k, Nat) /\ Within(s, k + 1, Nat) /\ k + 1 \in Nat
  <2>1. \A i \in 1 .. k : t[i] \in Nat
    <3>1. t \in Seq(Nat)
      BY <1>1
    <3> QED
      BY <3>1
  <2>2. \A i \in 1 .. Len(s) : s[i] \in Nat
    OBVIOUS
  <2> QED
    BY <1>1, <2>1, <2>2 DEF Within
<1>3. PICK g : g \in [0 .. k + 1 -> Nat] /\ Sums(g, s, k + 1)
  BY <1>1, <1>2, SumsExist
<1>4. PICK f : f \in [0 .. k -> Nat] /\ Sums(f, t, k)
  BY <1>1, <1>2, SumsExist
<1>5. SumOf(s) = g[k + 1] /\ SumOf(t) = f[k]
  <2>1. Len(s) \in Nat /\ g \in [0 .. Len(s) -> Nat] /\ Sums(g, s, Len(s))
    BY <1>1, <1>2, <1>3
  <2>2. SumOf(s) = g[Len(s)]
    BY <2>1, SumIs
  <2>3. SumOf(t) = f[Len(t)]
    BY <1>1, <1>4, SumIs
  <2> QED
    BY <1>1, <2>2, <2>3
<1> DEFINE T == {n \in Nat : n <= k => g[n + 1] = a + f[n]}
<1>6. 0 \in T
  <2>1. g[0] = 0 /\ f[0] = 0
    BY <1>1, <1>3, <1>4 DEF Sums
  <2>2. g[1] = g[0] + s[1]
    BY <1>1, <1>3 DEF Sums
  <2> QED
    BY <1>1, <2>1, <2>2 DEF a
<1>7. ASSUME NEW n \in Nat, n \in T PROVE n + 1 \in T
  <2> SUFFICES ASSUME n + 1 <= k PROVE g[(n + 1) + 1] = a + f[n + 1]
    OBVIOUS
  <2>1. /\ (n + 1) + 1 \in 0 .. k + 1 /\ (n + 1) + 1 # 0
        /\ ((n + 1) + 1) - 1 = n + 1
        /\ n + 1 \in 0 .. k /\ n + 1 # 0 /\ (n + 1) - 1 = n
        /\ n + 1 \in 1 .. k /\ n <= k /\ n \in 0 .. k
    <3> k \in Nat
      BY <1>1
    <3> HIDE DEF k, T
    <3> QED
      OBVIOUS
  <2>2. g[(n + 1) + 1] = g[n + 1] + s[(n + 1) + 1]
    BY <1>3, <2>1 DEF Sums
  <2>3. f[n + 1] = f[n] + t[n + 1]
    BY <1>4, <2>1 DEF Sums
  <2>4. t[n + 1] = s[(n + 1) + 1]
    BY <1>1, <2>1
  <2>5. g[n + 1] = a + f[n]
    BY <1>7, <2>1
  <2>6. f[n] \in Nat /\ t[n + 1] \in Nat
    BY <1>2, <1>4, <2>1 DEF Within
  <2> QED
    <3>1. a \in Nat
      BY <1>1
    <3>2. g[(n + 1) + 1] = (a + f[n]) + t[n + 1]
      BY <2>2, <2>4, <2>5
    <3> QED
      BY <2>3, <2>6, <3>1, <3>2
<1>8. Nat \subseteq T
  <2> HIDE DEF T
  <2> QED
    BY <1>6, <1>7, SetInduction
<1>9. g[k + 1] = a + f[k]
  BY <1>1, <1>8
<1> QED
  BY <1>1, <1>5, <1>9 DEF t

----------------------------------------------------------------------------
\* NumWake.

WakeAt(s) == {i \in 1 .. Len(s) : s[i].wake}

LEMMA WakeAtFacts ==
    ASSUME NEW S, NEW s \in Seq(S)
    PROVE  /\ NumWake(s) = Cardinality(WakeAt(s)) /\ NumWake(s) \in Nat
           /\ IsFiniteSet(WakeAt(s))
<1>1. DOMAIN s = 1 .. Len(s) /\ Len(s) \in Nat
  BY LenProperties
<1>2. IsFiniteSet(1 .. Len(s))
  BY <1>1, FS_Interval
<1>3. IsFiniteSet(WakeAt(s))
  BY <1>2, FS_Subset DEF WakeAt
<1> QED
  BY <1>1, <1>3, FS_CardinalityType DEF NumWake, WakeAt

\* The wake-up events of two queues, one behind the other, add up.
LEMMA WakeConcat ==
    ASSUME NEW S, NEW s \in Seq(S), NEW t \in Seq(S)
    PROVE  NumWake(s \o t) = NumWake(s) + NumWake(t)
<1> DEFINE u == s \o t
           m == Len(s)
           A == WakeAt(s)
           B == WakeAt(t)
           C == {i \in m + 1 .. m + Len(t) : t[i - m].wake}
           shift == [i \in B |-> m + i]
<1>1. /\ u \in Seq(S) /\ Len(u) = m + Len(t)
      /\ \A i \in 1 .. m + Len(t) :
            u[i] = IF i <= m THEN s[i] ELSE t[i - m]
  BY ConcatProperties
<1>2. m \in Nat /\ Len(t) \in Nat
  BY LenProperties
<1> HIDE DEF u, m
<1>3. WakeAt(u) = A \cup C
  <2>1. ASSUME NEW i \in 1 .. m + Len(t)
        PROVE  i \in WakeAt(u) <=> i \in A \/ i \in C
    <3>1. CASE i <= m
      BY <1>1, <1>2, <3>1 DEF WakeAt, m
    <3>2. CASE ~(i <= m)
      BY <1>1, <1>2, <3>2 DEF WakeAt, m
    <3> QED
      BY <3>1, <3>2
  <2>2. \A i \in A : i \in 1 .. m + Len(t)
    BY <1>2 DEF WakeAt, m
  <2>3. \A i \in C : i \in 1 .. m + Len(t)
    BY <1>2
  <2>4. \A i \in WakeAt(u) : i \in 1 .. m + Len(t)
    BY <1>1 DEF WakeAt
  <2> HIDE DEF C
  <2> QED
    BY <2>1, <2>2, <2>3, <2>4
<1>4. A \cap C = {}
  BY <1>2 DEF WakeAt, m
<1>5. ExistsBijection(B, C)
  <2>1. shift \in [B -> C]
    BY <1>2 DEF WakeAt
  <2>2. \A i, j \in B : shift[i] = shift[j] => i = j
    BY <1>2 DEF WakeAt
  <2>3. \A c \in C : \E i \in B : shift[i] = c
    <3> SUFFICES ASSUME NEW c \in C PROVE \E i \in B : shift[i] = c
      OBVIOUS
    <3>1. c - m \in B /\ m + (c - m) = c
      BY <1>2 DEF WakeAt
    <3> QED
      BY <3>1
  <2>4. shift \in Bijection(B, C)
    <3> HIDE DEF shift, B, C
    <3> QED
      BY <2>1, <2>2, <2>3 DEF Bijection, Injection, IsInjective, Surjection
  <2> QED
    BY <2>4 DEF ExistsBijection
<1>6. /\ NumWake(s) = Cardinality(A) /\ IsFiniteSet(A)
      /\ NumWake(t) = Cardinality(B) /\ IsFiniteSet(B)
      /\ NumWake(u) = Cardinality(WakeAt(u))
      /\ NumWake(s) \in Nat /\ NumWake(t) \in Nat
  BY <1>1, WakeAtFacts
<1> HIDE DEF A, B, C
<1>7. IsFiniteSet(C) /\ Cardinality(C) = Cardinality(B)
  BY <1>5, <1>6, FS_Bijection
<1>8. Cardinality(A \cup C) =
          Cardinality(A) + Cardinality(C) - Cardinality(A \cap C)
  BY <1>6, <1>7, FS_Union
<1>9. Cardinality(A \cap C) = 0
  BY <1>4, FS_EmptySet
<1> QED
  BY <1>3, <1>6, <1>7, <1>8, <1>9 DEF u

\* The same when a queue is read from its front.
LEMMA WakeSplit ==
    ASSUME NEW S, NEW s \in Seq(S), NEW n \in 0 .. Len(s)
    PROVE  /\ NumWake(First(s, n)) \in Nat /\ NumWake(Rest(s, n)) \in Nat
           /\ NumWake(s) = NumWake(First(s, n)) + NumWake(Rest(s, n))
<1> DEFINE a == First(s, n)
           b == Rest(s, n)
<1>1. a \in Seq(S) /\ b \in Seq(S) /\ a \o b = s
  BY Split
<1> HIDE DEF a, b
<1>2. NumWake(a) \in Nat /\ NumWake(b) \in Nat
  BY <1>1, WakeAtFacts
<1>3. NumWake(a \o b) = NumWake(a) + NumWake(b)
  BY <1>1, WakeConcat
<1> QED
  BY <1>1, <1>2, <1>3 DEF a, b

----------------------------------------------------------------------------
\* The backlog.

PendingEntry == [events : Seq(Event), wake : Nat]
EventsOf(q) == [i \in DOMAIN q |-> q[i].events]
AllOf(q) == FlattenSeq(EventsOf(q))

LEMMA EventsOfFacts ==
    ASSUME NEW q \in Seq(PendingEntry)
    PROVE  /\ IsList(EventsOf(q), Event) /\ Len(EventsOf(q)) = Len(q)
           /\ \A i \in 1 .. Len(q) : EventsOf(q)[i] = q[i].events
<1>1. DOMAIN q = 1 .. Len(q) /\ Len(q) \in Nat
  BY LenProperties
<1>2. \A i \in 1 .. Len(q) : q[i] \in PendingEntry
  BY ElementOfSeq
<1>3. \A i \in 1 .. Len(q) : q[i].events \in Seq(Event)
  BY <1>2 DEF PendingEntry
<1>4. DOMAIN EventsOf(q) = 1 .. Len(q)
  BY <1>1 DEF EventsOf
<1>5. \A i \in 1 .. Len(q) : EventsOf(q)[i] = q[i].events
  BY <1>1 DEF EventsOf
<1>6. Len(EventsOf(q)) = Len(q)
  BY <1>1 DEF EventsOf
<1>7. Len(q) = 0 => EventsOf(q) = <<>>
  BY <1>1 DEF EventsOf
<1> QED
  BY <1>1, <1>3, <1>5, <1>6, <1>7 DEF IsList, Within

\* The backlog is a sequence of events, empty if the queue of batches is.
LEMMA AllType ==
    ASSUME NEW q \in Seq(PendingEntry)
    PROVE  AllOf(q) \in Seq(Event) /\ (q = <<>> => AllOf(q) = <<>>)
<1>1. q = <<>> => Len(q) = 0
  OBVIOUS
<1> QED
  BY <1>1, EventsOfFacts, FlattenType DEF AllOf

\* A batch that is queued comes last.
LEMMA AllAppend ==
    ASSUME NEW q \in Seq(PendingEntry), NEW e \in PendingEntry
    PROVE  AllOf(Append(q, e)) = AllOf(q) \o e.events
<1> DEFINE r == Append(q, e)
<1>1. /\ r \in Seq(PendingEntry) /\ Len(r) = Len(q) + 1 /\ r[Len(q) + 1] = e
      /\ \A i \in 1 .. Len(q) : r[i] = q[i]
  BY AppendProperties
<1> HIDE DEF r
<1>2. /\ IsList(EventsOf(q), Event) /\ Len(EventsOf(q)) = Len(q)
      /\ \A i \in 1 .. Len(q) : EventsOf(q)[i] = q[i].events
      /\ IsList(EventsOf(r), Event) /\ Len(EventsOf(r)) = Len(q) + 1
      /\ \A i \in 1 .. Len(q) + 1 : EventsOf(r)[i] = r[i].events
  BY <1>1, EventsOfFacts
<1>3. /\ Len(q) \in Nat /\ Len(q) + 1 \in 1 .. Len(q) + 1
      /\ \A i \in 1 .. Len(q) : i \in 1 .. Len(q) + 1
  BY LenProperties
<1>4. \A i \in 1 .. Len(EventsOf(q)) : EventsOf(r)[i] = EventsOf(q)[i]
  BY <1>1, <1>2, <1>3
<1>5. EventsOf(r)[Len(EventsOf(r))] = e.events
  BY <1>1, <1>2, <1>3
<1> QED
  <2> DEFINE a == EventsOf(q)
             b == EventsOf(r)
  <2>1. /\ IsList(a, Event) /\ IsList(b, Event) /\ Len(b) = Len(a) + 1
        /\ \A i \in 1 .. Len(a) : b[i] = a[i]
    BY <1>2, <1>4
  <2>2. FlattenSeq(b) = FlattenSeq(a) \o b[Len(b)]
    <3> HIDE DEF a, b
    <3> QED
      BY <2>1, FlattenAppend
  <2> QED
    BY <1>5, <2>2 DEF AllOf, r

\* The front batch comes first, whatever is left of it.
LEMMA AllHead ==
    ASSUME NEW q \in Seq(PendingEntry), q # <<>>
    PROVE  /\ Head(q).events \in Seq(Event) /\ AllOf(Tail(q)) \in Seq(Event)
           /\ AllOf(q) = Head(q).events \o AllOf(Tail(q))
<1> DEFINE t == Tail(q)
<1>1. /\ t \in Seq(PendingEntry) /\ Len(q) = Len(t) + 1 /\ Head(q) = q[1]
      /\ Head(q) \in PendingEntry
      /\ \A i \in 1 .. Len(t) : t[i] = q[i + 1]
  BY HeadTailProperties
<1> HIDE DEF t
<1>2. /\ IsList(EventsOf(q), Event) /\ Len(EventsOf(q)) = Len(t) + 1
      /\ \A i \in 1 .. Len(t) + 1 : EventsOf(q)[i] = q[i].events
      /\ IsList(EventsOf(t), Event) /\ Len(EventsOf(t)) = Len(t)
      /\ \A i \in 1 .. Len(t) : EventsOf(t)[i] = t[i].events
  BY <1>1, EventsOfFacts
<1>3. /\ Len(t) \in Nat /\ 1 \in 1 .. Len(t) + 1
      /\ \A i \in 1 .. Len(t) : i + 1 \in 1 .. Len(t) + 1
  BY <1>1, LenProperties
<1>4. \A i \in 1 .. Len(EventsOf(t)) : EventsOf(q)[i + 1] = EventsOf(t)[i]
  BY <1>1, <1>2, <1>3
<1>5. EventsOf(q)[1] = Head(q).events
  BY <1>1, <1>2, <1>3
<1>6. AllOf(q) = Head(q).events \o AllOf(t)
  <2> DEFINE a == EventsOf(t)
             b == EventsOf(q)
  <2>1. /\ IsList(a, Event) /\ IsList(b, Event) /\ Len(b) = Len(a) + 1
        /\ \A i \in 1 .. Len(a) : b[i + 1] = a[i]
    BY <1>2, <1>4
  <2>2. FlattenSeq(b) = b[1] \o FlattenSeq(a)
    <3> HIDE DEF a, b
    <3> QED
      BY <2>1, FlattenHead
  <2> QED
    BY <1>5, <2>2 DEF AllOf
<1> QED
  BY <1>1, <1>6, AllType DEF t, PendingEntry

LEMMA AllCut ==
    ASSUME NEW q \in Seq(PendingEntry), q # <<>>, NEW n \in 0 .. Len(Head(q).events)
    PROVE  LET r == [q EXCEPT ![1].events = Rest(@, n)]
           IN /\ r \in Seq(PendingEntry) /\ r # <<>>
              /\ AllOf(r) = Rest(Head(q).events, n) \o AllOf(Tail(q))
<1> DEFINE h == Head(q).events
           e == [q[1] EXCEPT !.events = Rest(@, n)]
           r == [q EXCEPT ![1] = e]
<1>1. q[1] \in PendingEntry /\ Head(q) = q[1]
  OBVIOUS
<1>2. h \in Seq(Event)
  BY <1>1 DEF PendingEntry
<1>3. Rest(h, n) \in Seq(Event)
  BY <1>2, Split
<1>4. e \in PendingEntry /\ e.events = Rest(h, n)
  BY <1>1, <1>3 DEF PendingEntry
<1> HIDE DEF e
<1>5. 1 \in 1 .. Len(q)
  BY EmptySeq
<1>6. /\ r \in Seq(PendingEntry) /\ Len(r) = Len(q)
      /\ \A j \in 1 .. Len(q) : r[j] = IF j = 1 THEN e ELSE q[j]
  BY <1>4, <1>5, ExceptSeq
<1> HIDE DEF r
<1>7. r # <<>> /\ Head(r) = e
  BY <1>5, <1>6
<1>8. Tail(r) = Tail(q)
  <2>1. /\ Tail(q) \in Seq(PendingEntry) /\ Len(Tail(q)) = Len(q) - 1
        /\ \A i \in 1 .. Len(Tail(q)) : Tail(q)[i] = q[i + 1]
    BY HeadTailProperties
  <2>2. /\ Tail(r) \in Seq(PendingEntry) /\ Len(Tail(r)) = Len(q) - 1
        /\ \A i \in 1 .. Len(Tail(r)) : Tail(r)[i] = r[i + 1]
    BY <1>6, <1>7, HeadTailProperties
  <2>3. \A i \in 1 .. Len(Tail(r)) : Tail(r)[i] = Tail(q)[i]
    <3>1. \A i \in 1 .. Len(q) - 1 : i + 1 \in 1 .. Len(q) /\ i + 1 # 1
      BY <1>5
    <3> QED
      BY <1>6, <2>1, <2>2, <3>1
  <2> QED
    BY <2>1, <2>2, <2>3, SeqEqual
<1>9. AllOf(r) = Rest(h, n) \o AllOf(Tail(q))
  BY <1>4, <1>6, <1>7, <1>8, AllHead
<1>10. r = [q EXCEPT ![1].events = Rest(@, n)]
  BY DEF r, e
<1> QED
  BY <1>6, <1>7, <1>9, <1>10

----------------------------------------------------------------------------
\* A queue cut in its rear part.

LEMMA CutRear ==
    ASSUME NEW S, NEW s \in Seq(S), NEW t \in Seq(S), NEW n \in 0 .. Len(t)
    PROVE  /\ First(s \o t, Len(s)) = s
           /\ Rest(s \o t, Len(s) + n) = Rest(t, n)
<1> DEFINE u == s \o t
           a == First(u, Len(s))
           b == Rest(u, Len(s) + n)
           c == Rest(t, n)
<1>1. /\ u \in Seq(S) /\ Len(u) = Len(s) + Len(t)
      /\ \A i \in 1 .. Len(s) + Len(t) :
            u[i] = IF i <= Len(s) THEN s[i] ELSE t[i - Len(s)]
  BY ConcatProperties
<1>2. Len(s) \in Nat /\ Len(t) \in Nat
  BY LenProperties
<1>3. a = s
  <2>1. a \in Seq(S) /\ Len(a) = Len(s) /\ \A i \in 1 .. Len(s) : a[i] = u[i]
    <3> HIDE DEF u
    <3> QED
      BY <1>1, <1>2 DEF First
  <2> HIDE DEF u, a
  <2>2. \A i \in 1 .. Len(s) : u[i] = s[i]
    BY <1>1, <1>2
  <2> QED
    BY <2>1, <2>2, SeqEqual
<1>4. b = c
  <2>1. /\ b \in Seq(S) /\ Len(b) = Len(t) - n
        /\ \A i \in 1 .. Len(t) - n : b[i] = u[(Len(s) + n) + i]
    <3> HIDE DEF u
    <3> QED
      BY <1>1, <1>2 DEF Rest
  <2>2. /\ c \in Seq(S) /\ Len(c) = Len(t) - n
        /\ \A i \in 1 .. Len(t) - n : c[i] = t[n + i]
    BY <1>2 DEF Rest
  <2> HIDE DEF u, b, c
  <2>3. ASSUME NEW i \in 1 .. Len(t) - n PROVE b[i] = c[i]
    <3>1. /\ (Len(s) + n) + i \in 1 .. Len(s) + Len(t)
          /\ ~((Len(s) + n) + i <= Len(s))
          /\ ((Len(s) + n) + i) - Len(s) = n + i
      BY <1>2
    <3> QED
      BY <1>1, <2>1, <2>2, <3>1
  <2> QED
    BY <2>1, <2>2, <2>3, SeqEqual
<1> QED
  BY <1>3, <1>4

----------------------------------------------------------------------------
\* The numbers of the events in a queue.

LEMMA IdsFacts ==
    ASSUME NEW s \in Seq(Event)
    PROVE  /\ Ids(s) \in Seq(Nat) /\ Len(Ids(s)) = Len(s)
           /\ \A i \in 1 .. Len(s) : Ids(s)[i] = s[i].id
<1>1. DOMAIN s = 1 .. Len(s) /\ Len(s) \in Nat
  BY LenProperties
<1>2. \A i \in 1 .. Len(s) : s[i] \in Event
  BY ElementOfSeq
<1>3. \A i \in 1 .. Len(s) : s[i].id \in Nat
  BY <1>2 DEF Event
<1>4. Ids(s) \in [1 .. Len(s) -> Nat]
  BY <1>1, <1>3 DEF Ids
<1> QED
  BY <1>1, <1>4 DEF Ids

LEMMA IdsConcat ==
    ASSUME NEW s \in Seq(Event), NEW t \in Seq(Event)
    PROVE  Ids(s \o t) = Ids(s) \o Ids(t)
<1> DEFINE u == s \o t
           a == Ids(s)
           b == Ids(t)
           c == Ids(u)
<1>1. /\ u \in Seq(Event) /\ Len(u) = Len(s) + Len(t)
      /\ \A i \in 1 .. Len(s) + Len(t) :
            u[i] = IF i <= Len(s) THEN s[i] ELSE t[i - Len(s)]
  BY ConcatProperties
<1>2. Len(s) \in Nat /\ Len(t) \in Nat
  BY LenProperties
<1> HIDE DEF u
<1>3. /\ a \in Seq(Nat) /\ Len(a) = Len(s)
      /\ \A i \in 1 .. Len(s) : a[i] = s[i].id
      /\ b \in Seq(Nat) /\ Len(b) = Len(t)
      /\ \A i \in 1 .. Len(t) : b[i] = t[i].id
      /\ c \in Seq(Nat) /\ Len(c) = Len(s) + Len(t)
      /\ \A i \in 1 .. Len(s) + Len(t) : c[i] = u[i].id
  BY <1>1, IdsFacts
<1> HIDE DEF a, b, c
<1>4. /\ a \o b \in Seq(Nat) /\ Len(a \o b) = Len(a) + Len(b)
      /\ \A i \in 1 .. Len(a) + Len(b) :
            (a \o b)[i] = IF i <= Len(a) THEN a[i] ELSE b[i - Len(a)]
  <2>1. a \in Seq(Nat) /\ b \in Seq(Nat)
    BY <1>3
  <2> QED
    BY <2>1, ConcatProperties
<1>5. ASSUME NEW i \in 1 .. Len(s) + Len(t) PROVE c[i] = (a \o b)[i]
  <2>1. CASE i <= Len(s)
    <3>1. i \in 1 .. Len(s)
      BY <1>2, <2>1
    <3>2. c[i] = s[i].id
      BY <1>1, <1>3, <2>1
    <3>3. (a \o b)[i] = a[i]
      BY <1>3, <1>4, <2>1
    <3> QED
      BY <1>3, <3>1, <3>2, <3>3
  <2>2. CASE ~(i <= Len(s))
    <3>1. i - Len(s) \in 1 .. Len(t)
      BY <1>2, <2>2
    <3>2. c[i] = t[i - Len(s)].id
      BY <1>1, <1>3, <2>2
    <3>3. (a \o b)[i] = b[i - Len(s)]
      BY <1>3, <1>4, <2>2
    <3> QED
      BY <1>3, <3>1, <3>2, <3>3
  <2> QED
    BY <2>1, <2>2
<1>6. c = a \o b
  BY <1>3, <1>4, <1>5, SeqEqual
<1> QED
  BY <1>6 DEF a, b, c, u

LEMMA IdsSplit ==
    ASSUME NEW s \in Seq(Event), NEW n \in 0 .. Len(s)
    PROVE  /\ Ids(First(s, n)) = First(Ids(s), n)
           /\ Ids(Rest(s, n)) = Rest(Ids(s), n)
<1> DEFINE a == First(s, n)
           b == Rest(s, n)
<1>1. a \in Seq(Event) /\ Len(a) = n /\ b \in Seq(Event) /\ a \o b = s
  BY Split
<1> HIDE DEF a, b
<1>2. /\ Ids(a) \in Seq(Nat) /\ Len(Ids(a)) = n
      /\ Ids(b) \in Seq(Nat) /\ Len(Ids(b)) \in Nat
  BY <1>1, IdsFacts, LenProperties
<1>3. Ids(s) = Ids(a) \o Ids(b)
  BY <1>1, IdsConcat
<1>4. /\ First(Ids(a) \o Ids(b), Len(Ids(a))) = Ids(a)
      /\ Rest(Ids(a) \o Ids(b), Len(Ids(a)) + 0) = Rest(Ids(b), 0)
  <2>1. 0 \in 0 .. Len(Ids(b))
    BY <1>2
  <2> QED
    BY <1>2, <2>1, CutRear
<1>5. Rest(Ids(b), 0) = Ids(b)
  BY <1>2, SplitLimits
<1>6. n + 0 = n
  OBVIOUS
<1> QED
  BY <1>2, <1>3, <1>4, <1>5, <1>6 DEF a, b

=============================================================================
