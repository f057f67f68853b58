---------------------------- MODULE SequenceFacts ----------------------------
(***************************************************************************)
(* What the loops over lists and sets that the models share do, however    *)
(* many they are.  Each is a recursive function of how far the loop has    *)
(* come, and what holds of it is shown by induction on that: a set of      *)
(* numbers that has a first element and with each number the next one has  *)
(* them all.                                                               *)
(***************************************************************************)
EXTENDS Loops, SequencesExt, SequenceTheorems, FiniteSetTheorems,
        WellFoundedInduction, TLAPS

\* A set of numbers with a member has a least one.
LEMMA LeastNat ==
  ASSUME NEW T \in SUBSET Nat, T # {}
  PROVE  \E n \in T : \A m \in T : n <= m
<1>1. PICK n \in T : \A m \in T : ~ (<<m, n>> \in OpToRel(<, Nat))
  BY NatLessThanWellFounded, WFMin
<1>2. \A m \in T : ~ (m < n)
  BY <1>1 DEF OpToRel
<1> QED
  BY <1>2

\* Induction up to a bound: what holds of 0 and goes on to the next number holds of all.
LEMMA Reached ==
  ASSUME NEW n \in Nat, NEW T, 0 \in T,
         \A i \in 1 .. n : i - 1 \in T => i \in T
  PROVE  0 .. n \subseteq T
<1> DEFINE bad == (0 .. n) \ T
<1>1. SUFFICES ASSUME bad # {} PROVE FALSE
  OBVIOUS
<1>2. PICK i \in bad : \A j \in bad : i <= j
  <2> bad \in SUBSET Nat
    OBVIOUS
  <2> HIDE DEF bad
  <2> QED
    BY <1>1, LeastNat
<1>3. i \in 1 .. n /\ i - 1 \in 0 .. n /\ i - 1 \notin bad
  BY <1>2
<1> QED
  BY <1>3

-----------------------------------------------------------------------------
(***************************************************************************)
(* Filter                                                                  *)
(***************************************************************************)

\* What Filter has after i elements, if f is what it has after each number of them.
FilterBody(s, S, f, i) ==
  IF i = 0 THEN <<>>
  ELSE IF s[i] \in S THEN Append(f[i - 1], s[i]) ELSE f[i - 1]

FilterFcn(s, S) == CHOOSE f : f = [i \in 0 .. Len(s) |-> FilterBody(s, S, f, i)]

\* The function Filter is defined with, by a name.
LEMMA FilterIs ==
  ASSUME NEW s, NEW S
  PROVE  Filter(s, S) = FilterFcn(s, S)[Len(s)]
  BY DEF Filter, FilterFcn, FilterBody

\* There is such a function: it can be continued from each number to the next.
LEMMA FilterFcnExists ==
  ASSUME NEW s, NEW S, Len(s) \in Nat
  PROVE  FilterFcn(s, S) = [i \in 0 .. Len(s) |-> FilterBody(s, S, FilterFcn(s, S), i)]
<1> DEFINE Good(n) == \E f : f = [i \in 0 .. n |-> FilterBody(s, S, f, i)]
<1> DEFINE T == {n \in 0 .. Len(s) : Good(n)}
<1>1. 0 \in T
  <2> DEFINE f == [i \in 0 .. 0 |-> <<>>]
  <2>1. f = [i \in 0 .. 0 |-> FilterBody(s, S, f, i)]
    BY DEF FilterBody
  <2> QED BY <2>1
<1>2. ASSUME NEW n \in 1 .. Len(s), n - 1 \in T PROVE n \in T
  <2>1. PICK f : f = [i \in 0 .. n - 1 |-> FilterBody(s, S, f, i)]
    BY <1>2
  <2> DEFINE g == [i \in 0 .. n |-> IF i = n THEN FilterBody(s, S, f, n) ELSE f[i]]
  <2>2. \A i \in 0 .. n : g[i] = FilterBody(s, S, g, i)
    <3> SUFFICES ASSUME NEW i \in 0 .. n PROVE g[i] = FilterBody(s, S, g, i)
      OBVIOUS
    <3>1. i # 0 => g[i - 1] = f[i - 1]
      OBVIOUS
    <3>2. FilterBody(s, S, g, i) = FilterBody(s, S, f, i)
      BY <3>1 DEF FilterBody
    <3>3. i # n => f[i] = FilterBody(s, S, f, i)
      BY <2>1
    <3> QED BY <3>2, <3>3
  <2>3. g = [i \in 0 .. n |-> FilterBody(s, S, g, i)]
    BY <2>2
  <2> HIDE DEF g
  <2>4. Good(n)
    BY <2>3
  <2> QED BY <2>4
<1>3. Len(s) \in T
  <2> HIDE DEF T
  <2>1. \A n \in 1 .. Len(s) : n - 1 \in T => n \in T
    BY <1>2
  <2>2. 0 .. Len(s) \subseteq T
    BY <1>1, <2>1, Reached
  <2> QED BY <2>2
<1> QED
  BY <1>3 DEF FilterFcn

\* t is made of the first i elements of s that are in S, e the places it has them from.
Picks(e, t, s, S, i) ==
  /\ e \in [1 .. Len(t) -> 1 .. i]
  /\ \A k \in 1 .. Len(t) : t[k] = s[e[k]] /\ s[e[k]] \in S
  /\ \A k, m \in 1 .. Len(t) : k < m => e[k] < e[m]
  /\ \A j \in 1 .. i : s[j] \in S => \E k \in 1 .. Len(t) : e[k] = j

\* Filter picks what is in the set, all of it, in order and no place twice.
LEMMA FilterPicks ==
  ASSUME NEW X, NEW s \in Seq(X), NEW S
  PROVE  /\ Filter(s, S) \in Seq(X)
         /\ \E e : Picks(e, Filter(s, S), s, S, Len(s))
<1> DEFINE f == FilterFcn(s, S)
           Good(i) == f[i] \in Seq(X) /\ \E e : Picks(e, f[i], s, S, i)
           T == {i \in 0 .. Len(s) : Good(i)}
<1>0. Len(s) \in Nat /\ \A i \in 0 .. Len(s) : f[i] = FilterBody(s, S, f, i)
  <2>1. Len(s) \in Nat
    OBVIOUS
  <2>2. f = [i \in 0 .. Len(s) |-> FilterBody(s, S, f, i)]
    BY <2>1, FilterFcnExists
  <2> HIDE DEF f
  <2> QED
    BY <2>1, <2>2
<1> HIDE DEF f
<1>1. 0 \in T
  <2>1. f[0] = <<>>
    BY <1>0 DEF FilterBody
  <2>2. Picks(<<>>, <<>>, s, S, 0)
    BY DEF Picks
  <2>3. Good(0)
    BY <2>1, <2>2
  <2> QED
    BY <2>3, <1>0
<1>2. ASSUME NEW i \in 1 .. Len(s), i - 1 \in T PROVE i \in T
  <2>1. f[i - 1] \in Seq(X)
    BY <1>2
  <2>2. PICK e : Picks(e, f[i - 1], s, S, i - 1)
    BY <1>2
  <2> DEFINE t == f[i - 1]
             n == Len(t)
  <2>3. n \in Nat /\ i - 1 \in Nat /\ i \in Nat /\ s[i] \in X
    BY <2>1
  <2>4. CASE s[i] \notin S
    <3>1. f[i] = t
      <4>1. f[i] = FilterBody(s, S, f, i)
        BY <1>0
      <4> QED
        BY <4>1, <2>4 DEF FilterBody
    <3>2. Picks(e, t, s, S, i)
      BY <2>2, <2>3, <2>4 DEF Picks
    <3> QED
      BY <2>1, <3>1, <3>2
  <2>5. CASE s[i] \in S
    <3> DEFINE u == Append(t, s[i])
               d == [k \in 1 .. n + 1 |-> IF k = n + 1 THEN i ELSE e[k]]
    <3>1. f[i] = u
      <4>1. f[i] = FilterBody(s, S, f, i)
        BY <1>0
      <4> QED
        BY <4>1, <2>5 DEF FilterBody
    <3>2. /\ u \in Seq(X) /\ Len(u) = n + 1 /\ u[n + 1] = s[i]
          /\ \A k \in 1 .. n : u[k] = t[k]
      BY <2>1, <2>3
    <3>3. /\ e \in [1 .. n -> 1 .. i - 1]
          /\ \A k \in 1 .. n : t[k] = s[e[k]] /\ s[e[k]] \in S
          /\ \A k, m \in 1 .. n : k < m => e[k] < e[m]
          /\ \A j \in 1 .. i - 1 : s[j] \in S => \E k \in 1 .. n : e[k] = j
      BY <2>2 DEF Picks
    <3> HIDE DEF u
    <3>4. /\ d \in [1 .. n + 1 -> 1 .. i]
          /\ d[n + 1] = i
          /\ \A k \in 1 .. n : d[k] = e[k]
      BY <3>3, <2>3
    <3> HIDE DEF d
    <3>5. \A k \in 1 .. n + 1 : u[k] = s[d[k]] /\ s[d[k]] \in S
      <4> SUFFICES ASSUME NEW k \in 1 .. n + 1 PROVE u[k] = s[d[k]] /\ s[d[k]] \in S
        OBVIOUS
      <4>1. CASE k = n + 1
        BY <3>2, <3>4, <4>1, <2>5
      <4>2. CASE k \in 1 .. n
        BY <3>2, <3>3, <3>4, <4>2
      <4> QED
        BY <4>1, <4>2, <2>3
    <3>6. \A k, m \in 1 .. n + 1 : k < m => d[k] < d[m]
      <4> SUFFICES ASSUME NEW k \in 1 .. n + 1, NEW m \in 1 .. n + 1, k < m
                   PROVE  d[k] < d[m]
        OBVIOUS
      <4>0. n \in Nat
        BY <2>3
      <4>1. k \in 1 .. n /\ e[k] \in 1 .. i - 1
        <5>1. k \in 1 .. n
          BY <4>0
        <5> QED
          BY <5>1, <3>3
      <4>2. CASE m = n + 1
        BY <3>4, <4>1, <4>2, <2>3
      <4>3. CASE m \in 1 .. n
        BY <3>3, <3>4, <4>1, <4>3, <2>3
      <4> QED
        BY <4>2, <4>3, <2>3
    <3>7. \A j \in 1 .. i : s[j] \in S => \E k \in 1 .. n + 1 : d[k] = j
      <4> SUFFICES ASSUME NEW j \in 1 .. i, s[j] \in S PROVE \E k \in 1 .. n + 1 : d[k] = j
        OBVIOUS
      <4>1. CASE j = i
        BY <3>4, <4>1, <2>3
      <4>2. CASE j \in 1 .. i - 1
        <5>1. PICK k \in 1 .. n : e[k] = j
          BY <3>3, <4>2
        <5> QED
          BY <5>1, <3>4, <2>3
      <4> QED
        BY <4>1, <4>2, <2>3
    <3>8. Picks(d, u, s, S, i)
      BY <3>2, <3>4, <3>5, <3>6, <3>7 DEF Picks
    <3> QED
      BY <3>1, <3>2, <3>8
  <2> QED
    BY <2>4, <2>5
<1>3. 0 .. Len(s) \subseteq T
  <2> HIDE DEF T
  <2>1. \A i \in 1 .. Len(s) : i - 1 \in T => i \in T
    BY <1>2
  <2> QED
    BY <1>0, <1>1, <2>1, Reached
<1> QED
  BY <1>0, <1>3, FilterIs DEF f

-----------------------------------------------------------------------------
(***************************************************************************)
(* SumOf                                                                   *)
(***************************************************************************)

\* What SumOf has after i elements, if f is what it has after each number of them.
SumBody(s, f, i) == IF i = 0 THEN 0 ELSE f[i - 1] + s[i]

SumFcn(s) == CHOOSE f : f = [i \in 0 .. Len(s) |-> SumBody(s, f, i)]

\* The function SumOf is defined with, by a name.
LEMMA SumIs ==
  ASSUME NEW s
  PROVE  SumOf(s) = SumFcn(s)[Len(s)]
  BY DEF SumOf, SumFcn, SumBody

\* There is such a function: it can be continued from each number to the next.
LEMMA SumFcnExists ==
  ASSUME NEW s, Len(s) \in Nat
  PROVE  SumFcn(s) = [i \in 0 .. Len(s) |-> SumBody(s, SumFcn(s), i)]
<1> DEFINE Good(n) == \E f : f = [i \in 0 .. n |-> SumBody(s, f, i)]
           T == {n \in 0 .. Len(s) : Good(n)}
<1>1. 0 \in T
  <2> DEFINE f == [i \in 0 .. 0 |-> 0]
  <2>1. f = [i \in 0 .. 0 |-> SumBody(s, f, i)]
    BY DEF SumBody
  <2> QED
    BY <2>1
<1>2. ASSUME NEW n \in 1 .. Len(s), n - 1 \in T PROVE n \in T
  <2>1. PICK f : f = [i \in 0 .. n - 1 |-> SumBody(s, f, i)]
    BY <1>2
  <2> DEFINE g == [i \in 0 .. n |-> IF i = n THEN SumBody(s, f, n) ELSE f[i]]
  <2>2. \A i \in 0 .. n : g[i] = SumBody(s, g, i)
    <3> SUFFICES ASSUME NEW i \in 0 .. n PROVE g[i] = SumBody(s, g, i)
      OBVIOUS
    <3>1. i # 0 => g[i - 1] = f[i - 1]
      OBVIOUS
    <3>2. SumBody(s, g, i) = SumBody(s, f, i)
      BY <3>1 DEF SumBody
    <3>3. i # n => f[i] = SumBody(s, f, i)
      BY <2>1
    <3> QED
      BY <3>2, <3>3
  <2>3. g = [i \in 0 .. n |-> SumBody(s, g, i)]
    BY <2>2
  <2> HIDE DEF g
  <2>4. Good(n)
    BY <2>3
  <2> QED
    BY <2>4
<1>3. Len(s) \in T
  <2> HIDE DEF T
  <2>1. \A n \in 1 .. Len(s) : n - 1 \in T => n \in T
    BY <1>2
  <2>2. 0 .. Len(s) \subseteq T
    BY <1>1, <2>1, Reached
  <2> QED
    BY <2>2
<1> QED
  BY <1>3 DEF SumFcn

\* What the function is at each number.
LEMMA SumSteps ==
  ASSUME NEW s, Len(s) \in Nat
  PROVE  /\ SumFcn(s)[0] = 0
         /\ \A i \in 1 .. Len(s) : SumFcn(s)[i] = SumFcn(s)[i - 1] + s[i]
<1> DEFINE f == SumFcn(s)
<1>1. f = [i \in 0 .. Len(s) |-> SumBody(s, f, i)]
  BY SumFcnExists
<1> HIDE DEF f
<1>2. \A i \in 0 .. Len(s) : f[i] = SumBody(s, f, i)
  BY <1>1
<1> QED
  BY <1>2 DEF SumBody, f

\* Numbers sum up to a number.
LEMMA SumIsInt ==
  ASSUME NEW s \in Seq(Int)
  PROVE  SumOf(s) \in Int
<1> DEFINE f == SumFcn(s)
           T == {i \in 0 .. Len(s) : f[i] \in Int}
<1>1. Len(s) \in Nat /\ \A i \in 1 .. Len(s) : s[i] \in Int
  OBVIOUS
<1>2. f[0] = 0 /\ \A i \in 1 .. Len(s) : f[i] = f[i - 1] + s[i]
  BY <1>1, SumSteps
<1> HIDE DEF f
<1>3. 0 \in T
  BY <1>1, <1>2
<1>4. \A i \in 1 .. Len(s) : i - 1 \in T => i \in T
  BY <1>1, <1>2
<1>5. Len(s) \in 0 .. Len(s)
  BY <1>1
<1>6. 0 .. Len(s) \subseteq T
  <2> HIDE DEF T
  <2> QED
    BY <1>1, <1>3, <1>4, Reached
<1> QED
  BY <1>5, <1>6, SumIs DEF f

\* Nothing sums up to nothing, and one element more adds itself.
LEMMA SumOneMore ==
  /\ SumOf(<<>>) = 0
  /\ \A s \in Seq(Int), x \in Int : SumOf(Append(s, x)) = SumOf(s) + x
<1>1. SumOf(<<>>) = 0
  <2>1. Len(<<>>) = 0
    OBVIOUS
  <2> QED
    BY <2>1, SumIs, SumSteps
<1>2. ASSUME NEW s \in Seq(Int), NEW x \in Int PROVE SumOf(Append(s, x)) = SumOf(s) + x
  <2> DEFINE t == Append(s, x)
             f == SumFcn(s)
             g == SumFcn(t)
             n == Len(s)
             T == {i \in 0 .. n : f[i] = g[i]}
  <2>1. /\ n \in Nat /\ Len(t) = n + 1 /\ t[n + 1] = x
        /\ \A i \in 1 .. n : t[i] = s[i]
    OBVIOUS
  <2> HIDE DEF t
  <2>2. /\ f[0] = 0 /\ \A i \in 1 .. n : f[i] = f[i - 1] + s[i]
        /\ g[0] = 0 /\ \A i \in 1 .. n + 1 : g[i] = g[i - 1] + t[i]
    BY <2>1, SumSteps
  <2> HIDE DEF f, g, n
  <2>3. 0 \in T /\ \A i \in 1 .. n : i - 1 \in T => i \in T
    BY <2>1, <2>2
  <2>4. n \in T
    <3>1. 0 .. n \subseteq T
      <4> HIDE DEF T
      <4> QED
        BY <2>1, <2>3, Reached
    <3> QED
      BY <2>1, <3>1
  <2>5. g[n + 1] = f[n] + x
    BY <2>1, <2>2, <2>4
  <2> QED
    BY <2>1, <2>5, SumIs DEF f, g, n, t
<1> QED
  BY <1>1, <1>2

-----------------------------------------------------------------------------
(***************************************************************************)
(* SumOver                                                                 *)
(***************************************************************************)

\* What SumOver has after n arguments, if c is what it has after each number of them.
TakenBody(f, c, n) ==
  IF n = 0 THEN [left |-> DOMAIN f, sum |-> 0]
  ELSE LET before == c[n - 1]
           next   == CHOOSE x \in before.left : TRUE
       IN  [left |-> before.left \ {next}, sum |-> before.sum + f[next]]

TakenFcn(f) == CHOOSE c : c = [n \in 0 .. Cardinality(DOMAIN f) |-> TakenBody(f, c, n)]

\* The function SumOver is defined with, by a name.
LEMMA SumOverIs ==
  ASSUME NEW f
  PROVE  SumOver(f) = TakenFcn(f)[Cardinality(DOMAIN f)].sum
  BY DEF SumOver, TakenFcn, TakenBody

\* There is such a function: it can be continued from each number to the next.
LEMMA TakenFcnExists ==
  ASSUME NEW f, NEW N \in Nat, N = Cardinality(DOMAIN f)
  PROVE  TakenFcn(f) = [n \in 0 .. N |-> TakenBody(f, TakenFcn(f), n)]
<1> DEFINE Good(m) == \E c : c = [n \in 0 .. m |-> TakenBody(f, c, n)]
           T == {m \in 0 .. N : Good(m)}
<1>1. 0 \in T
  <2> DEFINE c == [n \in 0 .. 0 |-> [left |-> DOMAIN f, sum |-> 0]]
  <2>1. c = [n \in 0 .. 0 |-> TakenBody(f, c, n)]
    BY DEF TakenBody
  <2> HIDE DEF c
  <2>2. Good(0)
    BY <2>1
  <2> QED
    BY <2>2
<1>2. ASSUME NEW m \in 1 .. N, m - 1 \in T PROVE m \in T
  <2>1. PICK c : c = [n \in 0 .. m - 1 |-> TakenBody(f, c, n)]
    BY <1>2
  <2> DEFINE d == [n \in 0 .. m |-> IF n = m THEN TakenBody(f, c, m) ELSE c[n]]
  <2>2. \A n \in 0 .. m : d[n] = TakenBody(f, d, n)
    <3> SUFFICES ASSUME NEW n \in 0 .. m PROVE d[n] = TakenBody(f, d, n)
      OBVIOUS
    <3>1. n # 0 => d[n - 1] = c[n - 1]
      OBVIOUS
    <3>2. TakenBody(f, d, n) = TakenBody(f, c, n)
      BY <3>1 DEF TakenBody
    <3>3. n # m => c[n] = TakenBody(f, c, n)
      BY <2>1
    <3> QED
      BY <3>2, <3>3
  <2>3. d = [n \in 0 .. m |-> TakenBody(f, d, n)]
    BY <2>2
  <2> HIDE DEF d
  <2>4. Good(m)
    BY <2>3
  <2> QED
    BY <2>4
<1>3. N \in T
  <2> HIDE DEF T
  <2>1. \A m \in 1 .. N : m - 1 \in T => m \in T
    BY <1>2
  <2>2. 0 .. N \subseteq T
    BY <1>1, <2>1, Reached
  <2> QED
    BY <2>2
<1> QED
  BY <1>3 DEF TakenFcn

\* The argument that is taken next, what is left after n of them, and their sum.
NextOf(S) == CHOOSE x \in S : TRUE

LeftAfter(f, n) == TakenFcn(f)[n].left

SumAfter(f, n) == TakenFcn(f)[n].sum

\* There is an argument to take until all have been taken.
LEMMA TakenSteps ==
  ASSUME NEW f, IsFiniteSet(DOMAIN f), NEW N, N = Cardinality(DOMAIN f)
  PROVE  /\ N \in Nat
         /\ LeftAfter(f, 0) = DOMAIN f /\ SumAfter(f, 0) = 0
         /\ \A n \in 1 .. N :
              /\ NextOf(LeftAfter(f, n - 1)) \in DOMAIN f
              /\ NextOf(LeftAfter(f, n - 1)) \in LeftAfter(f, n - 1)
              /\ LeftAfter(f, n) = LeftAfter(f, n - 1) \ {NextOf(LeftAfter(f, n - 1))}
              /\ SumAfter(f, n) = SumAfter(f, n - 1) + f[NextOf(LeftAfter(f, n - 1))]
<1> DEFINE c == TakenFcn(f)
           T == {n \in 0 .. N : /\ LeftAfter(f, n) \subseteq DOMAIN f
                                /\ IsFiniteSet(LeftAfter(f, n))
                                /\ Cardinality(LeftAfter(f, n)) = N - n}
<1>1. N \in Nat
  BY FS_CardinalityType
<1>2. c = [n \in 0 .. N |-> TakenBody(f, c, n)]
  BY <1>1, TakenFcnExists
<1> HIDE DEF c
<1>3. \A n \in 0 .. N : c[n] = TakenBody(f, c, n)
  BY <1>2
<1>4. LeftAfter(f, 0) = DOMAIN f /\ SumAfter(f, 0) = 0
  <2>1. c[0] = [left |-> DOMAIN f, sum |-> 0]
    <3>1. 0 \in 0 .. N
      BY <1>1
    <3>2. c[0] = TakenBody(f, c, 0)
      BY <1>3, <3>1
    <3> QED
      BY <3>2 DEF TakenBody
  <2> QED
    BY <2>1 DEF LeftAfter, SumAfter, c
<1>5. ASSUME NEW n \in 1 .. N
      PROVE  /\ LeftAfter(f, n) = LeftAfter(f, n - 1) \ {NextOf(LeftAfter(f, n - 1))}
             /\ SumAfter(f, n) = SumAfter(f, n - 1) + f[NextOf(LeftAfter(f, n - 1))]
  <2>1. n \in 0 .. N /\ n # 0
    OBVIOUS
  <2>2. c[n] = [left |-> c[n - 1].left \ {NextOf(c[n - 1].left)},
                sum  |-> c[n - 1].sum + f[NextOf(c[n - 1].left)]]
    BY <1>3, <2>1 DEF TakenBody, NextOf
  <2> QED
    BY <2>2 DEF LeftAfter, SumAfter, c
<1>6. ASSUME NEW n \in 1 .. N, n - 1 \in T
      PROVE  n \in T /\ NextOf(LeftAfter(f, n - 1)) \in LeftAfter(f, n - 1)
  <2> DEFINE S == LeftAfter(f, n - 1)
             x == NextOf(S)
  <2>1. S \subseteq DOMAIN f /\ IsFiniteSet(S) /\ Cardinality(S) = N - (n - 1)
    BY <1>6
  <2> HIDE DEF S
  <2>2. Cardinality(S) # 0
    BY <1>1, <2>1
  <2>3. S # {}
    BY <2>2, FS_EmptySet
  <2>4. x \in S
    BY <2>3 DEF NextOf
  <2> HIDE DEF x
  <2>5. /\ IsFiniteSet(S \ {x})
        /\ Cardinality(S \ {x}) = IF x \in S THEN Cardinality(S) - 1 ELSE Cardinality(S)
    BY <2>1, FS_RemoveElement
  <2>6. Cardinality(S \ {x}) = N - n
    BY <1>1, <2>1, <2>4, <2>5
  <2>7. LeftAfter(f, n) = S \ {x}
    BY <1>5 DEF S, x
  <2>8. n \in 0 .. N
    OBVIOUS
  <2> QED
    BY <2>1, <2>4, <2>5, <2>6, <2>7, <2>8 DEF S, x
<1>7. 0 .. N \subseteq T
  <2>1. 0 \in T
    BY <1>1, <1>4
  <2>2. \A n \in 1 .. N : n - 1 \in T => n \in T
    BY <1>6
  <2> HIDE DEF T
  <2> QED
    BY <1>1, <2>1, <2>2, Reached
<1>8. ASSUME NEW n \in 1 .. N
      PROVE  /\ NextOf(LeftAfter(f, n - 1)) \in LeftAfter(f, n - 1)
             /\ NextOf(LeftAfter(f, n - 1)) \in DOMAIN f
  <2>1. n - 1 \in T
    BY <1>1, <1>7
  <2> QED
    BY <1>6, <2>1
<1> QED
  BY <1>1, <1>4, <1>5, <1>8

\* Numbers sum up to a number.
LEMMA SumOverIsInt ==
  ASSUME NEW S, IsFiniteSet(S), NEW f \in [S -> Int]
  PROVE  SumOver(f) \in Int
<1> DEFINE N == Cardinality(S)
           T == {n \in 0 .. N : SumAfter(f, n) \in Int}
<1>1. DOMAIN f = S
  OBVIOUS
<1>2. /\ N \in Nat /\ SumAfter(f, 0) = 0
      /\ \A n \in 1 .. N :
           /\ NextOf(LeftAfter(f, n - 1)) \in S
           /\ SumAfter(f, n) = SumAfter(f, n - 1) + f[NextOf(LeftAfter(f, n - 1))]
  BY <1>1, TakenSteps
<1> HIDE DEF N
<1>3. 0 .. N \subseteq T
  <2>1. 0 \in T
    BY <1>2
  <2>2. \A n \in 1 .. N : n - 1 \in T => n \in T
    BY <1>2
  <2> HIDE DEF T
  <2> QED
    BY <1>2, <2>1, <2>2, Reached
<1>4. SumOver(f) = SumAfter(f, N)
  BY <1>1, SumOverIs DEF SumAfter, N
<1> QED
  BY <1>2, <1>3, <1>4

\* A sum of sums: the arguments are taken in one order for all functions of them.
LEMMA SumOverAdds ==
  ASSUME NEW S, IsFiniteSet(S), NEW f \in [S -> Int], NEW g \in [S -> Int]
  PROVE  SumOver([x \in S |-> f[x] + g[x]]) = SumOver(f) + SumOver(g)
<1> DEFINE N == Cardinality(S)
           h == [x \in S |-> f[x] + g[x]]
           T == {n \in 0 .. N : /\ LeftAfter(h, n) = LeftAfter(f, n)
                                /\ LeftAfter(h, n) = LeftAfter(g, n)
                                /\ SumAfter(f, n) \in Int /\ SumAfter(g, n) \in Int
                                /\ SumAfter(h, n) = SumAfter(f, n) + SumAfter(g, n)}
<1>1. DOMAIN f = S /\ DOMAIN g = S /\ DOMAIN h = S
  OBVIOUS
<1>2. \A x \in S : f[x] \in Int /\ g[x] \in Int /\ h[x] = f[x] + g[x]
  OBVIOUS
<1> HIDE DEF h, N
<1>3. /\ N \in Nat /\ LeftAfter(f, 0) = S /\ SumAfter(f, 0) = 0
      /\ \A n \in 1 .. N :
           /\ NextOf(LeftAfter(f, n - 1)) \in S
           /\ LeftAfter(f, n) = LeftAfter(f, n - 1) \ {NextOf(LeftAfter(f, n - 1))}
           /\ SumAfter(f, n) = SumAfter(f, n - 1) + f[NextOf(LeftAfter(f, n - 1))]
  BY <1>1, TakenSteps DEF N
<1>4. /\ LeftAfter(g, 0) = S /\ SumAfter(g, 0) = 0
      /\ \A n \in 1 .. N :
           /\ LeftAfter(g, n) = LeftAfter(g, n - 1) \ {NextOf(LeftAfter(g, n - 1))}
           /\ SumAfter(g, n) = SumAfter(g, n - 1) + g[NextOf(LeftAfter(g, n - 1))]
  BY <1>1, TakenSteps DEF N
<1>5. /\ LeftAfter(h, 0) = S /\ SumAfter(h, 0) = 0
      /\ \A n \in 1 .. N :
           /\ LeftAfter(h, n) = LeftAfter(h, n - 1) \ {NextOf(LeftAfter(h, n - 1))}
           /\ SumAfter(h, n) = SumAfter(h, n - 1) + h[NextOf(LeftAfter(h, n - 1))]
  BY <1>1, TakenSteps DEF N
<1>6. 0 \in T
  BY <1>3, <1>4, <1>5
<1>7. ASSUME NEW n \in 1 .. N, n - 1 \in T PROVE n \in T
  <2> DEFINE x == NextOf(LeftAfter(f, n - 1))
  <2>1. /\ LeftAfter(h, n - 1) = LeftAfter(f, n - 1) /\ LeftAfter(g, n - 1) = LeftAfter(f, n - 1)
        /\ SumAfter(f, n - 1) \in Int /\ SumAfter(g, n - 1) \in Int
        /\ SumAfter(h, n - 1) = SumAfter(f, n - 1) + SumAfter(g, n - 1)
    BY <1>7
  <2>2. x \in S /\ LeftAfter(f, n) = LeftAfter(f, n - 1) \ {x}
        /\ SumAfter(f, n) = SumAfter(f, n - 1) + f[x]
    BY <1>3
  <2>3. LeftAfter(g, n) = LeftAfter(f, n) /\ SumAfter(g, n) = SumAfter(g, n - 1) + g[x]
    BY <1>4, <2>1, <2>2
  <2>4. LeftAfter(h, n) = LeftAfter(f, n) /\ SumAfter(h, n) = SumAfter(h, n - 1) + h[x]
    BY <1>5, <2>1, <2>2
  <2> HIDE DEF x
  <2>5. f[x] \in Int /\ g[x] \in Int /\ h[x] = f[x] + g[x]
    BY <1>2, <2>2
  <2>6. /\ SumAfter(f, n) \in Int /\ SumAfter(g, n) \in Int
        /\ SumAfter(h, n) = SumAfter(f, n) + SumAfter(g, n)
    BY <2>1, <2>2, <2>3, <2>4, <2>5
  <2>7. n \in 0 .. N
    BY <1>3
  <2> QED
    BY <2>3, <2>4, <2>6, <2>7
<1>8. 0 .. N \subseteq T
  <2>1. \A n \in 1 .. N : n - 1 \in T => n \in T
    BY <1>7
  <2> HIDE DEF T
  <2> QED
    BY <1>3, <1>6, <2>1, Reached
<1>9. /\ SumOver(f) = SumAfter(f, N) /\ SumOver(g) = SumAfter(g, N)
      /\ SumOver(h) = SumAfter(h, N)
  BY <1>1, SumOverIs DEF SumAfter, N
<1>10. N \in T
  BY <1>3, <1>8
<1> QED
  BY <1>9, <1>10 DEF h

\* Numbers that are all above zero have a sum above zero, and so below it.
LEMMA SumOverSign ==
  ASSUME NEW S, IsFiniteSet(S), S # {}, NEW f \in [S -> Int]
  PROVE  /\ SumOver(f) \in Int
         /\ (\A x \in S : f[x] > 0) => SumOver(f) > 0
         /\ (\A x \in S : f[x] < 0) => SumOver(f) < 0
<1> DEFINE N == Cardinality(S)
           above == \A x \in S : f[x] > 0
           below == \A x \in S : f[x] < 0
           T == {n \in 0 .. N : /\ SumAfter(f, n) \in Int
                                /\ above => SumAfter(f, n) >= n
                                /\ below => SumAfter(f, n) <= -n}
<1>1. DOMAIN f = S
  OBVIOUS
<1>2. /\ N \in Nat /\ SumAfter(f, 0) = 0
      /\ \A n \in 1 .. N :
           /\ NextOf(LeftAfter(f, n - 1)) \in S
           /\ SumAfter(f, n) = SumAfter(f, n - 1) + f[NextOf(LeftAfter(f, n - 1))]
  BY <1>1, TakenSteps
<1>3. N # 0
  BY FS_EmptySet
<1> HIDE DEF N
<1>4. ASSUME NEW n \in 1 .. N, n - 1 \in T PROVE n \in T
  <2> DEFINE x == NextOf(LeftAfter(f, n - 1))
  <2>1. x \in S /\ SumAfter(f, n) = SumAfter(f, n - 1) + f[x]
    BY <1>2
  <2> HIDE DEF x
  <2>2. f[x] \in Int /\ (above => f[x] > 0) /\ (below => f[x] < 0)
    BY <2>1
  <2> HIDE DEF above, below
  <2>3. /\ SumAfter(f, n - 1) \in Int
        /\ above => SumAfter(f, n - 1) >= n - 1
        /\ below => SumAfter(f, n - 1) <= -(n - 1)
    BY <1>4
  <2>4. n \in 0 .. N
    BY <1>2
  <2> QED
    BY <2>1, <2>2, <2>3, <2>4
<1>5. 0 .. N \subseteq T
  <2>1. 0 \in T
    BY <1>2
  <2>2. \A n \in 1 .. N : n - 1 \in T => n \in T
    BY <1>4
  <2> HIDE DEF T
  <2> QED
    BY <1>2, <2>1, <2>2, Reached
<1>6. SumOver(f) = SumAfter(f, N)
  BY <1>1, SumOverIs DEF SumAfter, N
<1>7. N \in T
  BY <1>2, <1>5
<1> HIDE DEF above, below
<1>8. /\ SumOver(f) \in Int
      /\ above => SumOver(f) > 0
      /\ below => SumOver(f) < 0
  BY <1>2, <1>3, <1>6, <1>7
<1> QED
  BY <1>8 DEF above, below

\* Three sums that add up to a fourth, and two that add up to two others.
LEMMA SumsAddUp ==
  ASSUME NEW S, IsFiniteSet(S), NEW a \in [S -> Int], NEW b \in [S -> Int],
         NEW c \in [S -> Int], NEW d \in [S -> Int]
  PROVE  /\ (\A x \in S : d[x] = a[x] + b[x] + c[x]) =>
              SumOver(d) = SumOver(a) + SumOver(b) + SumOver(c)
         /\ (\A x \in S : a[x] + b[x] = c[x] + d[x]) =>
              SumOver(a) + SumOver(b) = SumOver(c) + SumOver(d)
<1> DEFINE ab == [x \in S |-> a[x] + b[x]]
           cd == [x \in S |-> c[x] + d[x]]
           abc == [x \in S |-> ab[x] + c[x]]
<1>1. SumOver(ab) = SumOver(a) + SumOver(b) /\ SumOver(cd) = SumOver(c) + SumOver(d)
  BY SumOverAdds
<1>2. ab \in [S -> Int]
  OBVIOUS
<1>3. SumOver(abc) = SumOver(ab) + SumOver(c)
  <2> HIDE DEF ab
  <2> QED
    BY <1>2, SumOverAdds
<1>4. ASSUME \A x \in S : d[x] = a[x] + b[x] + c[x]
      PROVE  SumOver(d) = SumOver(a) + SumOver(b) + SumOver(c)
  <2>1. abc = d
    BY <1>4
  <2> HIDE DEF ab, abc
  <2> QED
    BY <1>1, <1>3, <2>1
<1>5. ASSUME \A x \in S : a[x] + b[x] = c[x] + d[x]
      PROVE  SumOver(a) + SumOver(b) = SumOver(c) + SumOver(d)
  <2>1. ab = cd
    BY <1>5
  <2> HIDE DEF ab, cd
  <2> QED
    BY <1>1, <2>1
<1> QED
  BY <1>4, <1>5

\* Two things are two.
LEMMA TwoMembers ==
  ASSUME NEW x, NEW y, x # y
  PROVE  IsFiniteSet({x, y}) /\ Cardinality({x, y}) = 2
<1>1. IsFiniteSet({x}) /\ Cardinality({x}) = 1
  BY FS_Singleton
<1>2. /\ IsFiniteSet({x} \cup {y})
      /\ Cardinality({x} \cup {y}) = IF y \in {x} THEN Cardinality({x}) ELSE Cardinality({x}) + 1
  BY <1>1, FS_AddElement
<1>3. {x} \cup {y} = {x, y} /\ y \notin {x}
  OBVIOUS
<1> QED
  BY <1>1, <1>2, <1>3

\* One argument, or two.
LEMMA SumOverFew ==
  ASSUME NEW f, NEW x, NEW y, f[x] \in Int, f[y] \in Int
  PROVE  /\ DOMAIN f = {x} => SumOver(f) = f[x]
         /\ DOMAIN f = {x, y} /\ x # y => SumOver(f) = f[x] + f[y]
<1>1. ASSUME DOMAIN f = {x} PROVE SumOver(f) = f[x]
  <2>1. IsFiniteSet({x}) /\ Cardinality({x}) = 1
    BY FS_Singleton
  <2>2. Cardinality(DOMAIN f) = 1 /\ IsFiniteSet(DOMAIN f)
    BY <1>1, <2>1, Zenon
  <2>3. /\ LeftAfter(f, 0) = DOMAIN f /\ SumAfter(f, 0) = 0
        /\ \A n \in 1 .. 1 :
              /\ NextOf(LeftAfter(f, n - 1)) \in LeftAfter(f, n - 1)
              /\ SumAfter(f, n) = SumAfter(f, n - 1) + f[NextOf(LeftAfter(f, n - 1))]
    BY <2>2, TakenSteps
  <2>4. /\ NextOf(LeftAfter(f, 0)) \in LeftAfter(f, 0)
        /\ SumAfter(f, 1) = SumAfter(f, 0) + f[NextOf(LeftAfter(f, 0))]
    <3>1. 1 \in 1 .. 1 /\ 1 - 1 = 0
      OBVIOUS
    <3> QED
      BY <2>3, <3>1
  <2>5. NextOf(LeftAfter(f, 0)) = x
    BY <1>1, <2>3, <2>4
  <2>6. SumAfter(f, 1) = f[x]
    BY <2>3, <2>4, <2>5
  <2> QED
    BY <2>2, <2>6, SumOverIs DEF SumAfter
<1>2. ASSUME DOMAIN f = {x, y}, x # y PROVE SumOver(f) = f[x] + f[y]
  <2>1. IsFiniteSet({x, y}) /\ Cardinality({x, y}) = 2
    BY <1>2, TwoMembers
  <2>2. Cardinality(DOMAIN f) = 2 /\ IsFiniteSet(DOMAIN f)
    BY <1>2, <2>1, Zenon
  <2>3. /\ LeftAfter(f, 0) = DOMAIN f /\ SumAfter(f, 0) = 0
        /\ \A n \in 1 .. 2 :
              /\ NextOf(LeftAfter(f, n - 1)) \in LeftAfter(f, n - 1)
              /\ LeftAfter(f, n) = LeftAfter(f, n - 1) \ {NextOf(LeftAfter(f, n - 1))}
              /\ SumAfter(f, n) = SumAfter(f, n - 1) + f[NextOf(LeftAfter(f, n - 1))]
    BY <2>2, TakenSteps
  <2> DEFINE a == NextOf(LeftAfter(f, 0))
             b == NextOf(LeftAfter(f, 1))
  <2>4. /\ a \in LeftAfter(f, 0) /\ LeftAfter(f, 1) = LeftAfter(f, 0) \ {a}
        /\ SumAfter(f, 1) = SumAfter(f, 0) + f[a]
    <3>1. 1 \in 1 .. 2 /\ 1 - 1 = 0
      OBVIOUS
    <3> QED
      BY <2>3, <3>1
  <2>5. b \in LeftAfter(f, 1) /\ SumAfter(f, 2) = SumAfter(f, 1) + f[b]
    <3>1. 2 \in 1 .. 2 /\ 2 - 1 = 1
      OBVIOUS
    <3> QED
      BY <2>3, <3>1
  <2> HIDE DEF a, b
  <2>6. (a = x /\ b = y) \/ (a = y /\ b = x)
    BY <1>2, <2>3, <2>4, <2>5
  <2>7. SumAfter(f, 2) = f[a] + f[b] /\ f[a] + f[b] = f[x] + f[y]
    BY <2>3, <2>4, <2>5, <2>6
  <2> QED
    BY <2>2, <2>7, SumOverIs DEF SumAfter
<1> QED
  BY <1>1, <1>2

-----------------------------------------------------------------------------
(***************************************************************************)
(* FirstBest                                                               *)
(***************************************************************************)

\* What takes one value to the next, at each number.
Rules(n, V) == [1 .. n -> [V -> V]]

\* Values can be computed one from the other up to a number.
LEMMA Recursion ==
  ASSUME NEW n \in Nat, NEW V, NEW start \in V, NEW step \in Rules(n, V)
  PROVE  \E f \in [0 .. n -> V] :
           f[0] = start /\ \A i \in 1 .. n : f[i] = step[i][f[i - 1]]
<1> DEFINE Good(m) == \E f \in [0 .. m -> V] :
                        f[0] = start /\ \A i \in 1 .. m : f[i] = step[i][f[i - 1]]
           T == {m \in 0 .. n : Good(m)}
<1>1. 0 \in T
  <2> DEFINE f == [i \in 0 .. 0 |-> start]
  <2>1. f \in [0 .. 0 -> V] /\ f[0] = start
    OBVIOUS
  <2> HIDE DEF f
  <2>2. Good(0)
    BY <2>1
  <2> QED
    BY <2>2
<1>2. ASSUME NEW m \in 1 .. n, m - 1 \in T PROVE m \in T
  <2>1. PICK f \in [0 .. m - 1 -> V] :
          f[0] = start /\ \A i \in 1 .. m - 1 : f[i] = step[i][f[i - 1]]
    BY <1>2
  <2> DEFINE g == [i \in 0 .. m |-> IF i = m THEN step[m][f[m - 1]] ELSE f[i]]
  <2>2. /\ f[m - 1] \in V /\ step[m] \in [V -> V]
    BY <2>1 DEF Rules
  <2>3. /\ g \in [0 .. m -> V]
        /\ \A i \in 0 .. m - 1 : g[i] = f[i]
        /\ g[m] = step[m][f[m - 1]]
    BY <2>1, <2>2
  <2> HIDE DEF g
  <2>4. g[0] = start
    BY <2>1, <2>3
  <2>5. ASSUME NEW i \in 1 .. m PROVE g[i] = step[i][g[i - 1]]
    <3>1. CASE i = m
      BY <2>3, <3>1
    <3>2. CASE i \in 1 .. m - 1
      BY <2>1, <2>3, <3>2
    <3> QED
      BY <3>1, <3>2
  <2>6. Good(m)
    BY <2>3, <2>4, <2>5
  <2> HIDE DEF Good
  <2> QED
    BY <2>6
<1>3. 0 .. n \subseteq T
  <2> HIDE DEF T
  <2>1. \A m \in 1 .. n : m - 1 \in T => m \in T
    BY <1>2
  <2> QED
    BY <1>1, <2>1, Reached
<1>4. Good(n)
  <2>1. n \in 0 .. n
    OBVIOUS
  <2> HIDE DEF Good
  <2> QED
    BY <1>3, <2>1
<1> QED
  BY <1>4

\* The candidate kept after i of them, if f is the one kept after each number of them.
KeptBody(eligible, beats, f, i) ==
  IF i = 0 THEN 0
  ELSE LET best == f[i - 1]
       IN  IF i \in eligible /\ (best = 0 \/ beats[i][best]) THEN i ELSE best

KeptFcn(n, eligible, beats) ==
  CHOOSE f : f = [i \in 0 .. n |-> KeptBody(eligible, beats, f, i)]

\* The function FirstBest is defined with, by a name.
LEMMA FirstBestIs ==
  ASSUME NEW n, NEW eligible, NEW beats
  PROVE  FirstBest(n, eligible, beats) = KeptFcn(n, eligible, beats)[n]
  BY DEF FirstBest, KeptFcn, KeptBody

\* What is kept after each candidate.
LEMMA KeptSteps ==
  ASSUME NEW n \in Nat, NEW eligible, NEW beats
  PROVE  /\ KeptFcn(n, eligible, beats)[0] = 0
         /\ \A i \in 1 .. n :
              LET best == KeptFcn(n, eligible, beats)[i - 1]
              IN  KeptFcn(n, eligible, beats)[i] =
                    IF i \in eligible /\ (best = 0 \/ beats[i][best]) THEN i ELSE best
<1> DEFINE next(i, best) == IF i \in eligible /\ (best = 0 \/ beats[i][best]) THEN i ELSE best
           step == [i \in 1 .. n |-> [best \in 0 .. n |-> next(i, best)]]
           k == KeptFcn(n, eligible, beats)
<1>1. step \in [1 .. n -> [0 .. n -> 0 .. n]]
  OBVIOUS
<1>2. \A i \in 1 .. n, best \in 0 .. n : step[i][best] = next(i, best)
  OBVIOUS
<1> HIDE DEF step
<1>3. PICK f \in [0 .. n -> 0 .. n] :
        f[0] = 0 /\ \A i \in 1 .. n : f[i] = step[i][f[i - 1]]
  <2> DEFINE V == 0 .. n
  <2>1. 0 \in V /\ step \in Rules(n, V)
    BY <1>1 DEF Rules
  <2>2. \E f \in [0 .. n -> V] : f[0] = 0 /\ \A i \in 1 .. n : f[i] = step[i][f[i - 1]]
    <3> HIDE DEF V
    <3> QED
      BY <2>1, Recursion
  <2> QED
    BY <2>2
<1>4. \A i \in 0 .. n : f[i] = KeptBody(eligible, beats, f, i)
  <2> SUFFICES ASSUME NEW i \in 0 .. n PROVE f[i] = KeptBody(eligible, beats, f, i)
    OBVIOUS
  <2>1. CASE i = 0
    BY <1>3, <2>1 DEF KeptBody
  <2>2. CASE i \in 1 .. n
    <3>1. f[i - 1] \in 0 .. n /\ f[i] = step[i][f[i - 1]]
      <4>1. i - 1 \in 0 .. n
        BY <2>2
      <4> QED
        BY <1>3, <2>2, <4>1
    <3>2. f[i] = next(i, f[i - 1])
      BY <1>2, <2>2, <3>1
    <3> QED
      BY <2>2, <3>2 DEF KeptBody
  <2> QED
    BY <2>1, <2>2
<1>5. f = [i \in 0 .. n |-> KeptBody(eligible, beats, f, i)]
  BY <1>3, <1>4
<1>6. k = [i \in 0 .. n |-> KeptBody(eligible, beats, k, i)]
  BY <1>5 DEF KeptFcn
<1> HIDE DEF k
<1>7. \A i \in 0 .. n : k[i] = KeptBody(eligible, beats, k, i)
  BY <1>6
<1> QED
  BY <1>7 DEF KeptBody, k

\* What is kept in the end is an eligible candidate, if there is one.
LEMMA FirstBestIsEligible ==
  ASSUME NEW n \in Nat, NEW eligible, NEW beats
  PROVE  LET best == FirstBest(n, eligible, beats)
         IN  /\ best \in 0 .. n
             /\ best # 0 => best \in eligible
             /\ best = 0 => \A i \in 1 .. n : i \notin eligible
<1> DEFINE k == KeptFcn(n, eligible, beats)
           T == {m \in 0 .. n : /\ k[m] \in 0 .. m
                                /\ k[m] # 0 => k[m] \in eligible
                                /\ k[m] = 0 => \A i \in 1 .. m : i \notin eligible}
<1>1. /\ k[0] = 0
      /\ \A i \in 1 .. n :
           k[i] = IF i \in eligible /\ (k[i - 1] = 0 \/ beats[i][k[i - 1]]) THEN i ELSE k[i - 1]
  BY KeptSteps
<1> HIDE DEF k
<1>2. 0 \in T
  BY <1>1
<1>3. ASSUME NEW m \in 1 .. n, m - 1 \in T PROVE m \in T
  BY <1>1, <1>3
<1>4. n \in T
  <2> HIDE DEF T
  <2>1. \A m \in 1 .. n : m - 1 \in T => m \in T
    BY <1>3
  <2> QED
    BY <1>2, <2>1, Reached
<1> QED
  BY <1>4, FirstBestIs DEF k

\* If no two beat each other, and what beats one beats all that do not beat that one, the
\* candidate kept in the end is beaten by no eligible one and beats those before it.
LEMMA FirstBestWins ==
  ASSUME NEW n \in Nat, NEW eligible, NEW beats,
         \A i, j \in 1 .. n : beats[i][j] => ~ beats[j][i],
         \A i, j, m \in 1 .. n : beats[i][j] /\ ~ beats[m][j] => beats[i][m]
  PROVE  LET best == FirstBest(n, eligible, beats)
         IN  best # 0 => \A i \in (1 .. n) \cap eligible :
                           /\ ~ beats[i][best]
                           /\ i < best => beats[best][i]
<1> DEFINE k == KeptFcn(n, eligible, beats)
           T == {m \in 0 .. n :
                   /\ k[m] \in 0 .. m
                   /\ k[m] # 0 => \A i \in (1 .. m) \cap eligible :
                                    /\ ~ beats[i][k[m]]
                                    /\ i < k[m] => beats[k[m]][i]
                   /\ k[m] = 0 => \A i \in 1 .. m : i \notin eligible}
<1>1. /\ k[0] = 0
      /\ \A i \in 1 .. n :
           k[i] = IF i \in eligible /\ (k[i - 1] = 0 \/ beats[i][k[i - 1]]) THEN i ELSE k[i - 1]
  BY KeptSteps
<1> HIDE DEF k
<1>2. 0 \in T
  BY <1>1
<1>3. ASSUME NEW m \in 1 .. n, m - 1 \in T PROVE m \in T
  <2> DEFINE best == k[m - 1]
  <2>1. /\ best \in 0 .. m - 1
        /\ best # 0 => \A i \in (1 .. m - 1) \cap eligible :
                         /\ ~ beats[i][best]
                         /\ i < best => beats[best][i]
        /\ best = 0 => \A i \in 1 .. m - 1 : i \notin eligible
    BY <1>3
  <2>2. k[m] = IF m \in eligible /\ (best = 0 \/ beats[m][best]) THEN m ELSE best
    BY <1>1
  <2> HIDE DEF best
  <2>3. CASE m \notin eligible
    BY <2>1, <2>2, <2>3
  <2>4. CASE m \in eligible /\ best = 0
    <3>1. k[m] = m /\ \A i \in (1 .. m) \cap eligible : i = m
      BY <2>1, <2>2, <2>4
    <3>2. ~ beats[m][m]
      OBVIOUS
    <3> QED
      BY <3>1, <3>2
  <2>5. CASE m \in eligible /\ best # 0 /\ beats[m][best]
    <3>1. k[m] = m /\ best \in 1 .. n /\ m \in 1 .. n
      BY <2>1, <2>2, <2>5
    <3>2. ~ beats[m][m]
      OBVIOUS
    <3>3. ASSUME NEW i \in (1 .. m - 1) \cap eligible PROVE beats[m][i] /\ ~ beats[i][m]
      <4>1. i \in 1 .. n /\ ~ beats[i][best]
        BY <2>1, <2>5
      <4> QED
        BY <2>5, <3>1, <4>1
    <3>4. \A i \in (1 .. m) \cap eligible : i = m \/ i \in (1 .. m - 1) \cap eligible
      OBVIOUS
    <3> QED
      BY <3>1, <3>2, <3>3, <3>4
  <2>6. CASE m \in eligible /\ best # 0 /\ ~ beats[m][best]
    <3>1. k[m] = best
      BY <2>2, <2>6
    <3>2. \A i \in (1 .. m) \cap eligible : i = m \/ i \in (1 .. m - 1) \cap eligible
      OBVIOUS
    <3> QED
      BY <2>1, <2>6, <3>1, <3>2
  <2> QED
    BY <2>3, <2>4, <2>5, <2>6
<1>4. n \in T
  <2> HIDE DEF T
  <2>1. \A m \in 1 .. n : m - 1 \in T => m \in T
    BY <1>3
  <2> QED
    BY <1>2, <2>1, Reached
<1> QED
  BY <1>4, FirstBestIs DEF k

-----------------------------------------------------------------------------
(***************************************************************************)
(* Lists of lists, put together                                            *)
(***************************************************************************)

\* What FlattenSeq has after i lists, if f is what it has after each number of them.
FlattenBody(s, f, i) == IF i = 1 THEN s[i] ELSE f[i - 1] \o s[i]

FlattenFcn(s) == CHOOSE f : f = [i \in 1 .. Len(s) |-> FlattenBody(s, f, i)]

\* The function FlattenSeq is defined with, by a name.
LEMMA FlattenIs ==
  ASSUME NEW s
  PROVE  FlattenSeq(s) = IF Len(s) = 0 THEN s ELSE FlattenFcn(s)[Len(s)]
  BY DEF FlattenSeq, FlattenFcn, FlattenBody

\* h is a function FlattenSeq may be defined with.
Flattens(h, s, n) == h = [i \in 1 .. n |-> FlattenBody(s, h, i)]

\* Lists of V can be put together, and the empty one adds nothing.
Lists(V, empty) == (\A v, w \in V : v \o w \in V) /\ \A v \in V : empty \o v = v

\* Lists can be put together one after the other.
LEMMA FlattenFcnExists ==
  ASSUME NEW n \in Nat, NEW V, NEW empty \in V, NEW s, \A i \in 1 .. n : s[i] \in V,
         Lists(V, empty)
  PROVE  \E h : Flattens(h, s, n)
<1> DEFINE step == [i \in 1 .. n |-> [v \in V |-> v \o s[i]]]
<1>1. step \in Rules(n, V)
  BY DEF Rules, Lists
<1>2. \A i \in 1 .. n, v \in V : step[i][v] = v \o s[i]
  OBVIOUS
<1> HIDE DEF step
<1>3. PICK g \in [0 .. n -> V] : g[0] = empty /\ \A i \in 1 .. n : g[i] = step[i][g[i - 1]]
  BY <1>1, Recursion
<1>4. ASSUME NEW i \in 1 .. n
      PROVE  g[i - 1] \in V /\ g[i] \in V /\ g[i] = g[i - 1] \o s[i]
  <2>1. i - 1 \in 0 .. n /\ i \in 0 .. n
    OBVIOUS
  <2>2. g[i - 1] \in V /\ g[i] \in V /\ g[i] = step[i][g[i - 1]]
    BY <1>3, <2>1
  <2> QED
    BY <1>2, <2>2
<1> DEFINE h == [i \in 1 .. n |-> g[i]]
<1>5. \A i \in 1 .. n : h[i] = FlattenBody(s, h, i)
  <2> SUFFICES ASSUME NEW i \in 1 .. n PROVE h[i] = FlattenBody(s, h, i)
    OBVIOUS
  <2>1. CASE i = 1
    <3>1. g[1] = g[0] \o s[1] /\ g[0] = empty /\ s[1] \in V
      <4>1. 1 \in 1 .. n /\ 1 - 1 = 0
        BY <2>1
      <4> QED
        BY <1>3, <1>4, <4>1
    <3>2. g[1] = s[1]
      BY <3>1 DEF Lists
    <3> QED
      BY <2>1, <3>2 DEF FlattenBody
  <2>2. CASE i # 1
    <3>1. h[i] = g[i] /\ h[i - 1] = g[i - 1]
      BY <2>2
    <3> HIDE DEF h
    <3> QED
      BY <1>4, <2>2, <3>1 DEF FlattenBody
  <2> QED
    BY <2>1, <2>2
<1>6. h = [i \in 1 .. n |-> FlattenBody(s, h, i)]
  BY <1>5
<1> HIDE DEF h
<1> QED
  BY <1>6 DEF Flattens

\* What there is after each list.
LEMMA FlattenSteps ==
  ASSUME NEW X, NEW s \in Seq(Seq(X))
  PROVE  /\ \A i \in 1 .. Len(s) : FlattenFcn(s)[i] \in Seq(X)
         /\ Len(s) > 0 => FlattenFcn(s)[1] = s[1]
         /\ \A i \in 2 .. Len(s) : FlattenFcn(s)[i] = FlattenFcn(s)[i - 1] \o s[i]
<1> DEFINE n == Len(s)
           V == Seq(X)
           f == FlattenFcn(s)
           empty == <<>>
<1>1. n \in Nat
  OBVIOUS
<1>2. \A i \in 1 .. n : s[i] \in V
  OBVIOUS
<1>3. /\ \A v, w \in V : v \o w \in V
      /\ \A v \in V : empty \o v = v
  OBVIOUS
<1>4. \E h : Flattens(h, s, n)
  <2>1. empty \in V
    OBVIOUS
  <2>2. Lists(V, empty)
    BY <1>3 DEF Lists
  <2> HIDE DEF n, V, f, empty
  <2> QED
    BY <1>1, <1>2, <2>1, <2>2, FlattenFcnExists
<1>5. f = [i \in 1 .. n |-> FlattenBody(s, f, i)]
  BY <1>4 DEF FlattenFcn, Flattens
<1> HIDE DEF f, n, V, empty
<1>6. ASSUME NEW i \in 1 .. n PROVE f[i] = IF i = 1 THEN s[i] ELSE f[i - 1] \o s[i]
  BY <1>5 DEF FlattenBody
<1>7. n > 0 => f[1] = s[1]
  BY <1>1, <1>6
<1>8. ASSUME NEW i \in 2 .. n PROVE f[i] = f[i - 1] \o s[i]
  <2>1. i \in 1 .. n /\ i # 1
    BY <1>1
  <2> QED
    BY <1>6, <2>1
<1>9. \A i \in 1 .. n : f[i] \in V
  <2> DEFINE T == {m \in 0 .. n : m # 0 => f[m] \in V}
  <2>1. 0 \in T
    BY <1>1
  <2>2. ASSUME NEW m \in 1 .. n, m - 1 \in T PROVE m \in T
    <3>1. CASE m = 1
      BY <1>1, <1>2, <1>7, <3>1
    <3>2. CASE m # 1
      <4>1. m \in 2 .. n /\ m - 1 # 0
        BY <1>1, <3>2
      <4>2. f[m - 1] \in V /\ s[m] \in V /\ f[m] = f[m - 1] \o s[m]
        BY <1>2, <1>8, <2>2, <4>1
      <4>3. f[m] \in V
        BY <1>3, <4>2
      <4> QED
        BY <1>1, <4>3
    <3> QED
      BY <3>1, <3>2
  <2>3. 0 .. n \subseteq T
    <3> HIDE DEF T
    <3>1. \A m \in 1 .. n : m - 1 \in T => m \in T
      BY <2>2
    <3> QED
      BY <1>1, <2>1, <3>1, Reached
  <2> QED
    BY <1>1, <2>3
<1> QED
  BY <1>7, <1>8, <1>9 DEF f, V, n

\* What is where in two lists put together.
LEMMA ConcatAt ==
  ASSUME NEW X, NEW s \in Seq(X), NEW t \in Seq(X), NEW i \in 1 .. Len(s) + Len(t)
  PROVE  (s \o t)[i] = IF i <= Len(s) THEN s[i] ELSE t[i - Len(s)]
  BY ConcatProperties

\* One list more is put at the end.
LEMMA FlattenOneMore ==
  /\ FlattenSeq(<<>>) = <<>>
  /\ \A X : \A s \in Seq(Seq(X)), x \in Seq(X) :
       /\ FlattenSeq(s) \in Seq(X)
       /\ FlattenSeq(Append(s, x)) = FlattenSeq(s) \o x
<1>1. FlattenSeq(<<>>) = <<>>
  <2>1. Len(<<>>) = 0
    OBVIOUS
  <2> QED
    BY <2>1, FlattenIs
<1>2. ASSUME NEW X, NEW s \in Seq(Seq(X)), NEW x \in Seq(X)
      PROVE  /\ FlattenSeq(s) \in Seq(X)
             /\ FlattenSeq(Append(s, x)) = FlattenSeq(s) \o x
  <2> DEFINE t == Append(s, x)
             f == FlattenFcn(s)
             g == FlattenFcn(t)
             n == Len(s)
             T == {m \in 0 .. n : m # 0 => f[m] = g[m]}
  <2>1. /\ n \in Nat /\ t \in Seq(Seq(X)) /\ Len(t) = n + 1 /\ t[n + 1] = x
        /\ \A i \in 1 .. n : t[i] = s[i]
        /\ n = 0 => s = <<>>
    OBVIOUS
  <2> HIDE DEF t
  <2>2. /\ \A i \in 1 .. n : f[i] \in Seq(X)
        /\ n > 0 => f[1] = s[1]
        /\ \A i \in 2 .. n : f[i] = f[i - 1] \o s[i]
    BY FlattenSteps
  <2>3. /\ g[1] = t[1]
        /\ \A i \in 2 .. n + 1 : g[i] = g[i - 1] \o t[i]
    <3>1. /\ Len(t) > 0 => g[1] = t[1]
          /\ \A i \in 2 .. Len(t) : g[i] = g[i - 1] \o t[i]
      BY <2>1, FlattenSteps
    <3>2. Len(t) > 0 /\ Len(t) = n + 1
      BY <2>1
    <3> HIDE DEF g, n
    <3> QED
      BY <3>1, <3>2
  <2> HIDE DEF f, g, n
  <2>4. n \in T
    <3>1. 0 \in T
      BY <2>1
    <3>2. ASSUME NEW m \in 1 .. n, m - 1 \in T PROVE m \in T
      <4>1. CASE m = 1
        BY <2>1, <2>2, <2>3, <4>1
      <4>2. CASE m # 1
        <5>1. m \in 2 .. n /\ m \in 2 .. n + 1 /\ m - 1 # 0
          BY <2>1, <4>2
        <5>2. f[m - 1] = g[m - 1] /\ t[m] = s[m]
          BY <2>1, <3>2, <5>1
        <5>3. f[m] = g[m]
          BY <2>2, <2>3, <5>1, <5>2
        <5> QED
          BY <2>1, <5>3
      <4> QED
        BY <4>1, <4>2
    <3>3. 0 .. n \subseteq T
      <4> HIDE DEF T
      <4>1. \A m \in 1 .. n : m - 1 \in T => m \in T
        BY <3>2
      <4> QED
        BY <2>1, <3>1, <4>1, Reached
    <3> QED
      BY <2>1, <3>3
  <2>5. FlattenSeq(t) = g[n + 1]
    BY <2>1, FlattenIs DEF g
  <2>6. CASE n = 0
    <3>1. FlattenSeq(s) = <<>>
      BY <1>1, <2>1, <2>6
    <3>2. g[n + 1] = x
      BY <2>1, <2>3, <2>6
    <3>3. <<>> \in Seq(X) /\ <<>> \o x = x
      OBVIOUS
    <3> QED
      BY <2>5, <3>1, <3>2, <3>3 DEF t
  <2>7. CASE n # 0
    <3>1. FlattenSeq(s) = f[n]
      BY <2>1, <2>7, FlattenIs DEF f, n
    <3>2. n + 1 \in 2 .. n + 1 /\ n \in 1 .. n
      BY <2>1, <2>7
    <3>3. g[n + 1] = g[n] \o x
      <4> DEFINE m == n + 1
      <4>0. m \in 2 .. n + 1
        BY <3>2
      <4>1. g[m] = g[m - 1] \o t[m]
        <5> HIDE DEF m
        <5> QED
          BY <2>3, <4>0
      <4>2. m - 1 = n /\ t[m] = x
        BY <2>1
      <4> HIDE DEF t, g
      <4>3. g[m] = g[n] \o x
        BY <4>1, <4>2
      <4> QED
        BY <4>3
    <3>4. f[n] = g[n] /\ f[n] \in Seq(X)
      BY <2>2, <2>4, <2>7, <3>2
    <3> QED
      BY <2>5, <3>1, <3>3, <3>4 DEF t
  <2> QED
    BY <2>6, <2>7
<1> QED
  BY <1>1, <1>2

\* The lists of the lists s and t are put together by putting together those of each.
LEMMA FlattenJoin ==
  ASSUME NEW X, NEW s \in Seq(Seq(X)), NEW t \in Seq(Seq(X))
  PROVE  FlattenSeq(s \o t) = FlattenSeq(s) \o FlattenSeq(t)
<1> DEFINE V == Seq(X)
           n == Len(t)
           p(i) == SubSeq(t, 1, i)
           T == {i \in 0 .. n : FlattenSeq(s \o p(i)) = FlattenSeq(s) \o FlattenSeq(p(i))}
<1>1. n \in Nat /\ s \in Seq(V) /\ t \in Seq(V)
  OBVIOUS
<1>2. FlattenSeq(s) \in V
  BY FlattenOneMore
<1>3. 0 \in T
  <2>1. p(0) = <<>>
    BY SubSeqEmpty
  <2>2. s \o <<>> = s /\ FlattenSeq(s) \o <<>> = FlattenSeq(s)
    BY <1>2, ConcatEmptySeq
  <2>3. FlattenSeq(<<>>) = <<>>
    BY FlattenOneMore
  <2>4. 0 \in 0 .. n
    BY <1>1
  <2> HIDE DEF p, n, V
  <2> QED
    BY <2>1, <2>2, <2>3, <2>4
<1>4. ASSUME NEW m \in 1 .. n, m - 1 \in T PROVE m \in T
  <2> DEFINE q == p(m - 1)
             x == t[m]
  <2>1. p(m) = q \o <<x>>
    <3>1. 1 \in 1 .. Len(t) /\ m \in 1 .. Len(t)
      BY <1>1
    <3> QED
      BY <1>1, <3>1, SubSeqRecursiveSecond
  <2>2. x \in V
    BY <1>1
  <2>3. q \in Seq(V)
    <3>1. \A i \in 1 .. m - 1 : t[i] \in V
      BY <1>1
    <3> HIDE DEF V
    <3> QED
      BY <3>1, SubSeqProperties
  <2>4. s \o p(m) = Append(s \o q, x) /\ p(m) = Append(q, x) /\ s \o q \in Seq(V)
    <3>1. <<x>> \in Seq(V)
      BY <2>2
    <3> HIDE DEF V, p, q, x
    <3>2. s \o (q \o <<x>>) = (s \o q) \o <<x>>
      BY <1>1, <2>3, <3>1, ConcatAssociative, SMTT(30)
    <3>3. s \o q \in Seq(V)
      BY <1>1, <2>3, ConcatProperties
    <3>4. Append(s \o q, x) = (s \o q) \o <<x>> /\ Append(q, x) = q \o <<x>>
      BY <2>2, <2>3, <3>3, AppendIsConcat
    <3> QED
      BY <2>1, <3>2, <3>3, <3>4
  <2> HIDE DEF p, q, x, n
  <2>5. /\ FlattenSeq(Append(s \o q, x)) = FlattenSeq(s \o q) \o x
        /\ FlattenSeq(Append(q, x)) = FlattenSeq(q) \o x
        /\ FlattenSeq(q) \in V
    BY <2>2, <2>3, <2>4, FlattenOneMore
  <2>6. FlattenSeq(s \o q) = FlattenSeq(s) \o FlattenSeq(q)
    BY <1>4 DEF q
  <2>7. (FlattenSeq(s) \o FlattenSeq(q)) \o x = FlattenSeq(s) \o (FlattenSeq(q) \o x)
    <3>1. FlattenSeq(s) \in Seq(X) /\ FlattenSeq(q) \in Seq(X) /\ x \in Seq(X)
      BY <1>2, <2>2, <2>5
    <3> QED
      BY <3>1, ConcatAssociative, SMTT(30)
  <2>8. m \in 0 .. n
    BY <1>1
  <2> QED
    BY <2>4, <2>5, <2>6, <2>7, <2>8
<1>5. n \in T
  <2> HIDE DEF T, p, n
  <2>1. \A m \in 1 .. n : m - 1 \in T => m \in T
    BY <1>4
  <2>2. 0 .. n \subseteq T
    BY <1>1, <1>3, <2>1, Reached
  <2> QED
    BY <1>1, <2>2
<1>6. p(n) = t
  BY <1>1, SubSeqFull
<1> HIDE DEF n, p
<1> QED
  BY <1>5, <1>6

\* A sequence is what comes before one of its elements, that element, and the rest.
LEMMA Split ==
  ASSUME NEW V, NEW s \in Seq(V), NEW k \in 1 .. Len(s)
  PROVE  /\ SubSeq(s, 1, k - 1) \in Seq(V) /\ SubSeq(s, k + 1, Len(s)) \in Seq(V)
         /\ s = (SubSeq(s, 1, k - 1) \o <<s[k]>>) \o SubSeq(s, k + 1, Len(s))
<1> DEFINE n == Len(s)
<1>1. n \in Nat /\ \A i \in 1 .. n : s[i] \in V
  OBVIOUS
<1>2. SubSeq(s, 1, k - 1) \in Seq(V)
  <2>1. \A i \in 1 .. k - 1 : s[i] \in V
    BY <1>1
  <2> QED
    BY <2>1, SubSeqProperties
<1>3. SubSeq(s, k + 1, n) \in Seq(V)
  <2>1. \A i \in k + 1 .. n : s[i] \in V
    BY <1>1
  <2> QED
    BY <2>1, SubSeqProperties
<1>4. SubSeq(s, 1, k) = SubSeq(s, 1, k - 1) \o <<s[k]>>
  <2>1. 1 \in 1 .. n /\ k \in 1 .. n
    BY <1>1
  <2> QED
    BY <2>1, SubSeqRecursiveSecond
<1>5. SubSeq(s, 1, k) \o SubSeq(s, k + 1, n) = SubSeq(s, 1, n)
  <2>1. 1 \in 1 .. Len(s) + 1 /\ k \in 1 - 1 .. Len(s) /\ n \in k .. Len(s)
    BY <1>1
  <2> QED
    BY <2>1, ConcatAdjacentSubSeq
<1>6. SubSeq(s, 1, n) = s
  BY SubSeqFull
<1> QED
  BY <1>2, <1>3, <1>4, <1>5, <1>6

\* The elements of one list stand between those of the lists before it and after it.
LEMMA FlattenAround ==
  ASSUME NEW X, NEW s \in Seq(Seq(X)), NEW k \in 1 .. Len(s)
  PROVE  LET before == FlattenSeq(SubSeq(s, 1, k - 1))
             after  == FlattenSeq(SubSeq(s, k + 1, Len(s)))
         IN  /\ before \in Seq(X) /\ after \in Seq(X) /\ s[k] \in Seq(X)
             /\ FlattenSeq(s) = (before \o s[k]) \o after
<1> DEFINE V == Seq(X)
           p == SubSeq(s, 1, k - 1)
           q == SubSeq(s, k + 1, Len(s))
           x == s[k]
<1>1. s \in Seq(V) /\ x \in V
  OBVIOUS
<1>2. /\ p \in Seq(V) /\ q \in Seq(V)
      /\ s = (p \o <<x>>) \o q
  <2> HIDE DEF V
  <2> QED
    BY <1>1, Split
<1>3. <<x>> \in Seq(V)
  BY <1>1
<1>4. FlattenSeq(<<x>>) = x
  <2>1. <<>> \in Seq(V) /\ <<x>> = Append(<<>>, x) /\ <<>> \o x = x
    BY <1>1
  <2>2. FlattenSeq(Append(<<>>, x)) = FlattenSeq(<<>>) \o x
    BY <1>1, <2>1, FlattenOneMore
  <2>3. FlattenSeq(<<>>) = <<>>
    BY FlattenOneMore
  <2> QED
    BY <2>1, <2>2, <2>3
<1> HIDE DEF p, q, x
<1>5. p \o <<x>> \in Seq(V)
  <2> HIDE DEF V
  <2> QED
    BY <1>2, <1>3, ConcatProperties
<1>6. FlattenSeq(p \o <<x>>) = FlattenSeq(p) \o FlattenSeq(<<x>>)
  BY <1>2, <1>3, FlattenJoin
<1>7. FlattenSeq((p \o <<x>>) \o q) = FlattenSeq(p \o <<x>>) \o FlattenSeq(q)
  BY <1>2, <1>5, FlattenJoin
<1>8. FlattenSeq(p) \in V /\ FlattenSeq(q) \in V
  BY <1>1, <1>2, FlattenOneMore
<1> QED
  BY <1>1, <1>2, <1>4, <1>6, <1>7, <1>8 DEF p, q, x

\* What is put together from t is what is put together from s, but for its k-th list.
ChangedAt(X, s, t, k) ==
  LET start == Len(FlattenSeq(SubSeq(s, 1, k - 1)))
  IN  /\ start \in Nat
      /\ FlattenSeq(t) \in Seq(X) /\ FlattenSeq(s) \in Seq(X)
      /\ Len(FlattenSeq(t)) = Len(FlattenSeq(s))
      /\ \A i \in 1 .. Len(FlattenSeq(s)) :
           \/ FlattenSeq(t)[i] = FlattenSeq(s)[i]
           \/ /\ i - start \in 1 .. Len(t[k])
              /\ FlattenSeq(s)[i] = s[k][i - start] /\ FlattenSeq(t)[i] = t[k][i - start]

\* A list is replaced by another one of its length: the rest stays where it is.
LEMMA FlattenChanged ==
  ASSUME NEW X, NEW s \in Seq(Seq(X)), NEW k \in 1 .. Len(s),
         NEW v \in Seq(X), Len(v) = Len(s[k])
  PROVE  ChangedAt(X, s, [s EXCEPT ![k] = v], k)
<1> DEFINE V == Seq(X)
           n == Len(s)
           t == [s EXCEPT ![k] = v]
           before == FlattenSeq(SubSeq(s, 1, k - 1))
           after == FlattenSeq(SubSeq(s, k + 1, n))
           start == Len(before)
<1>1. /\ n \in Nat /\ s \in Seq(V) /\ v \in V /\ s[k] \in V
      /\ t \in Seq(V) /\ Len(t) = n /\ t[k] = v
      /\ \A i \in 1 .. n : i # k => t[i] = s[i]
  OBVIOUS
<1>2. /\ before \in V /\ after \in V
      /\ FlattenSeq(s) = (before \o s[k]) \o after
  BY FlattenAround
<1>3. /\ SubSeq(t, 1, k - 1) = SubSeq(s, 1, k - 1)
      /\ SubSeq(t, k + 1, n) = SubSeq(s, k + 1, n)
  <2>1. \A i \in 1 .. k - 1 : s[i] \in V /\ t[i] = s[i]
    BY <1>1
  <2>2. \A i \in k + 1 .. n : s[i] \in V /\ t[i] = s[i]
    BY <1>1
  <2> HIDE DEF V, t, n
  <2>3. /\ SubSeq(s, 1, k - 1) \in Seq(V) /\ SubSeq(t, 1, k - 1) \in Seq(V)
        /\ Len(SubSeq(s, 1, k - 1)) = Len(SubSeq(t, 1, k - 1))
        /\ \A i \in 1 .. Len(SubSeq(s, 1, k - 1)) :
             SubSeq(s, 1, k - 1)[i] = SubSeq(t, 1, k - 1)[i]
    <3> DEFINE m == k - 1
    <3>1. m \in Int /\ 1 \in Int
      BY <1>1
    <3>2. \A i \in 1 .. m : s[i] \in V /\ t[i] \in V /\ t[i] = s[i]
      BY <2>1
    <3> HIDE DEF m
    <3>3. /\ SubSeq(s, 1, m) \in Seq(V)
          /\ Len(SubSeq(s, 1, m)) = IF 1 <= m THEN m - 1 + 1 ELSE 0
          /\ \A i \in 1 .. m - 1 + 1 : SubSeq(s, 1, m)[i] = s[1 + i - 1]
      BY <3>1, <3>2, SubSeqProperties
    <3>4. /\ SubSeq(t, 1, m) \in Seq(V)
          /\ Len(SubSeq(t, 1, m)) = IF 1 <= m THEN m - 1 + 1 ELSE 0
          /\ \A i \in 1 .. m - 1 + 1 : SubSeq(t, 1, m)[i] = t[1 + i - 1]
      BY <3>1, <3>2, SubSeqProperties
    <3>5. ASSUME NEW i \in 1 .. Len(SubSeq(s, 1, m)) PROVE SubSeq(s, 1, m)[i] = SubSeq(t, 1, m)[i]
      <4>1. i \in 1 .. m /\ i \in 1 .. m - 1 + 1 /\ 1 + i - 1 = i
        BY <3>1, <3>3
      <4> QED
        BY <3>2, <3>3, <3>4, <4>1
    <3> QED
      BY <3>3, <3>4, <3>5 DEF m
  <2>4. /\ SubSeq(s, k + 1, n) \in Seq(V) /\ SubSeq(t, k + 1, n) \in Seq(V)
        /\ Len(SubSeq(s, k + 1, n)) = Len(SubSeq(t, k + 1, n))
        /\ \A i \in 1 .. Len(SubSeq(s, k + 1, n)) :
             SubSeq(s, k + 1, n)[i] = SubSeq(t, k + 1, n)[i]
    BY <1>1, <2>2, SubSeqProperties
  <2> QED
    BY <2>3, <2>4, SeqEqual
<1>4. FlattenSeq(t) = (before \o v) \o after
  <2>1. k \in 1 .. Len(t) /\ t \in Seq(Seq(X))
    BY <1>1
  <2>2. FlattenSeq(t) =
          (FlattenSeq(SubSeq(t, 1, k - 1)) \o t[k]) \o FlattenSeq(SubSeq(t, k + 1, Len(t)))
    <3> HIDE DEF t
    <3> QED
      BY <2>1, FlattenAround
  <2> HIDE DEF t
  <2> QED
    BY <1>1, <1>3, <2>2
<1> DEFINE w == s[k]
           fs == FlattenSeq(s)
           ft == FlattenSeq(t)
<1>5. fs = (before \o w) \o after /\ ft = (before \o v) \o after /\ w \in V /\ Len(v) = Len(w)
  BY <1>1, <1>2, <1>4
<1> HIDE DEF t, before, after, w, fs, ft
<1>6. /\ start \in Nat /\ Len(v) \in Nat /\ Len(after) \in Nat
      /\ before \o w \in V /\ Len(before \o w) = start + Len(v)
      /\ before \o v \in V /\ Len(before \o v) = start + Len(v)
  <2>1. before \in Seq(X) /\ after \in Seq(X) /\ v \in Seq(X) /\ w \in Seq(X)
    BY <1>1, <1>2, <1>5
  <2>2. before \o w \in Seq(X) /\ Len(before \o w) = Len(before) + Len(w)
    BY <2>1, ConcatProperties
  <2>3. before \o v \in Seq(X) /\ Len(before \o v) = Len(before) + Len(v)
    BY <2>1, ConcatProperties
  <2>4. Len(before) \in Nat /\ Len(after) \in Nat /\ Len(v) \in Nat
    BY <2>1, LenProperties
  <2> QED
    BY <1>5, <2>2, <2>3, <2>4
<1>7. /\ fs \in V /\ Len(fs) = start + Len(v) + Len(after)
      /\ ft \in V /\ Len(ft) = start + Len(v) + Len(after)
  <2>1. before \o w \in Seq(X) /\ before \o v \in Seq(X) /\ after \in Seq(X)
    BY <1>2, <1>6
  <2>2. fs \in Seq(X) /\ Len(fs) = Len(before \o w) + Len(after)
    BY <1>5, <2>1, ConcatProperties
  <2>3. ft \in Seq(X) /\ Len(ft) = Len(before \o v) + Len(after)
    BY <1>5, <2>1, ConcatProperties
  <2> QED
    BY <1>6, <2>2, <2>3
<1>8. ASSUME NEW i \in 1 .. Len(fs)
      PROVE  \/ ft[i] = fs[i]
             \/ i - start \in 1 .. Len(v) /\ fs[i] = w[i - start] /\ ft[i] = v[i - start]
  <2> DEFINE p == before \o w
             q == before \o v
  <2>1. /\ before \in Seq(X) /\ after \in Seq(X) /\ v \in Seq(X) /\ w \in Seq(X)
        /\ p \in Seq(X) /\ q \in Seq(X) /\ Len(v) = Len(w)
        /\ Len(p) = start + Len(v) /\ Len(q) = start + Len(v)
        /\ fs = p \o after /\ ft = q \o after
        /\ start \in Nat /\ Len(v) \in Nat /\ Len(after) \in Nat
        /\ i \in 1 .. (start + Len(v)) + Len(after)
    BY <1>1, <1>2, <1>5, <1>6, <1>7
  <2>2. i <= start + Len(v) =>
          /\ p[i] = IF i <= start THEN before[i] ELSE w[i - start]
          /\ q[i] = IF i <= start THEN before[i] ELSE v[i - start]
    <3>1. SUFFICES ASSUME i <= start + Len(v)
                   PROVE  /\ p[i] = IF i <= start THEN before[i] ELSE w[i - start]
                          /\ q[i] = IF i <= start THEN before[i] ELSE v[i - start]
      OBVIOUS
    <3>2. i \in 1 .. Len(before) + Len(w) /\ i \in 1 .. Len(before) + Len(v)
      BY <2>1, <3>1
    <3>3. /\ (before \o w)[i] = IF i <= Len(before) THEN before[i] ELSE w[i - Len(before)]
          /\ (before \o v)[i] = IF i <= Len(before) THEN before[i] ELSE v[i - Len(before)]
      BY <2>1, <3>2, ConcatAt
    <3> QED
      BY <3>3
  <2> HIDE DEF p, q
  <2>3. /\ fs[i] = IF i <= Len(p) THEN p[i] ELSE after[i - Len(p)]
        /\ ft[i] = IF i <= Len(q) THEN q[i] ELSE after[i - Len(q)]
    <3>1. i \in 1 .. Len(p) + Len(after) /\ i \in 1 .. Len(q) + Len(after)
      BY <2>1
    <3>2. /\ (p \o after)[i] = IF i <= Len(p) THEN p[i] ELSE after[i - Len(p)]
          /\ (q \o after)[i] = IF i <= Len(q) THEN q[i] ELSE after[i - Len(q)]
      <4>1. p \in Seq(X) /\ q \in Seq(X) /\ after \in Seq(X)
        BY <2>1
      <4> QED
        BY <3>1, <4>1, ConcatAt
    <3>3. fs = p \o after /\ ft = q \o after
      BY <2>1
    <3> QED
      BY <3>2, <3>3, Zenon
  <2> HIDE DEF start
  <2>4. i \in Int /\ start \in Nat /\ Len(v) \in Nat /\ 1 <= i
    BY <2>1
  <2>5. CASE i > start + Len(v)
    BY <2>1, <2>3, <2>4, <2>5
  <2>6. CASE i <= start
    BY <2>1, <2>2, <2>3, <2>4, <2>6
  <2>7. CASE i > start /\ i <= start + Len(v)
    BY <2>1, <2>2, <2>3, <2>4, <2>7
  <2> QED
    BY <2>4, <2>5, <2>6, <2>7
<1>9. t[k] = v
  BY <1>1 DEF t
<1> QED
  BY <1>6, <1>7, <1>8, <1>9 DEF ChangedAt, t, before, w, fs, ft

-----------------------------------------------------------------------------
(***************************************************************************)
(* The best of finitely many                                               *)
(***************************************************************************)

\* R is a strict order of S.
StrictOrder(R, S) ==
  /\ \A x \in S : <<x, x>> \notin R
  /\ \A x, y, z \in S : <<x, y>> \in R /\ <<y, z>> \in R => <<x, z>> \in R

\* x is in S, and nothing in S comes before it.
FirstIn(R, S, x) == x \in S /\ \A y \in S : <<y, x>> \notin R

\* Of finitely many things in a strict order there is one that nothing comes before.
LEMMA FirstExists ==
  ASSUME NEW S, IsFiniteSet(S), S # {}, NEW R, StrictOrder(R, S)
  PROVE  \E x : FirstIn(R, S, x)
<1> DEFINE N == Cardinality(S)
           Good(A) == A # {} => \E x : FirstIn(R, A, x)
           T == {n \in 0 .. N : \A A \in SUBSET S : Cardinality(A) = n => Good(A)}
<1>1. N \in Nat
  BY FS_CardinalityType
<1>2. 0 \in T
  <2>1. ASSUME NEW A \in SUBSET S, Cardinality(A) = 0 PROVE A = {}
    <3>1. IsFiniteSet(A)
      BY FS_Subset
    <3> QED
      BY <2>1, <3>1, FS_EmptySet
  <2>2. 0 \in 0 .. N
    BY <1>1
  <2> QED
    BY <2>1, <2>2
<1>3. ASSUME NEW n \in 1 .. N, n - 1 \in T PROVE n \in T
  <2>1. ASSUME NEW A \in SUBSET S, Cardinality(A) = n, A # {}
        PROVE  \E x : FirstIn(R, A, x)
    <3>1. PICK a \in A : TRUE
      BY <2>1
    <3> DEFINE B == A \ {a}
    <3>2. IsFiniteSet(A)
      BY FS_Subset
    <3>3. Cardinality(B) = n - 1
      <4>1. Cardinality(B) = IF a \in A THEN Cardinality(A) - 1 ELSE Cardinality(A)
        BY <3>2, FS_RemoveElement
      <4> QED
        BY <2>1, <3>1, <4>1
    <3>4. B \in SUBSET S
      OBVIOUS
    <3>5. \A x, y, z \in A : <<x, y>> \in R /\ <<y, z>> \in R => <<x, z>> \in R
      BY DEF StrictOrder
    <3>6. \A x \in A : <<x, x>> \notin R
      BY DEF StrictOrder
    <3>7. CASE B = {}
      <4>1. A = {a}
        BY <3>1, <3>7
      <4>2. FirstIn(R, A, a)
        BY <3>6, <4>1 DEF FirstIn
      <4> QED
        BY <4>2
    <3>8. CASE B # {}
      <4>1. PICK b : FirstIn(R, B, b)
        <5> HIDE DEF B
        <5> QED
          BY <1>3, <3>3, <3>4, <3>8
      <4>2. b \in A /\ \A y \in A : y # a => <<y, b>> \notin R
        BY <4>1 DEF FirstIn
      <4>3. CASE <<a, b>> \notin R
        <5>1. FirstIn(R, A, b)
          BY <4>2, <4>3 DEF FirstIn
        <5> QED
          BY <5>1
      <4>4. CASE <<a, b>> \in R
        <5>1. \A y \in A : <<y, a>> \notin R
          BY <3>1, <3>5, <3>6, <4>2, <4>4
        <5>2. FirstIn(R, A, a)
          BY <3>1, <5>1 DEF FirstIn
        <5> QED
          BY <5>2
      <4> QED
        BY <4>3, <4>4
    <3> QED
      BY <3>7, <3>8
  <2>2. n \in 0 .. N
    BY <1>1
  <2> QED
    BY <2>1, <2>2
<1>4. 0 .. N \subseteq T
  <2>1. \A n \in 1 .. N : n - 1 \in T => n \in T
    BY <1>3
  <2> HIDE DEF T
  <2> QED
    BY <1>1, <1>2, <2>1, Reached
<1>5. N \in T
  BY <1>1, <1>4
<1>6. S \in SUBSET S /\ Cardinality(S) = N
  OBVIOUS
<1> HIDE DEF N
<1> QED
  BY <1>5, <1>6

\* Finitely many numbers have a least and a greatest one.
LEMMA LeastAndGreatest ==
  ASSUME NEW S \in SUBSET Int, IsFiniteSet(S), S # {}
  PROVE  /\ \E x \in S : \A y \in S : x <= y
         /\ \E x \in S : \A y \in S : y <= x
<1> DEFINE up == {p \in S \X S : p[1] < p[2]}
           down == {p \in S \X S : p[1] > p[2]}
<1>1. \A x, y \in S : (<<x, y>> \in up <=> x < y) /\ (<<x, y>> \in down <=> x > y)
  OBVIOUS
<1> HIDE DEF up, down
<1>2. \A x, y \in S : x \in Int /\ y \in Int
  OBVIOUS
<1>3. StrictOrder(up, S) /\ StrictOrder(down, S)
  BY <1>1, <1>2 DEF StrictOrder
<1>4. \E x \in S : \A y \in S : x <= y
  <2>1. PICK x : FirstIn(up, S, x)
    BY <1>3, FirstExists
  <2>2. x \in S /\ \A y \in S : ~ (y < x)
    BY <1>1, <2>1 DEF FirstIn
  <2> QED
    BY <1>2, <2>2
<1>5. \E x \in S : \A y \in S : y <= x
  <2>1. PICK x : FirstIn(down, S, x)
    BY <1>3, FirstExists
  <2>2. x \in S /\ \A y \in S : ~ (y > x)
    BY <1>1, <2>1 DEF FirstIn
  <2> QED
    BY <1>2, <2>2
<1> QED
  BY <1>4, <1>5

-----------------------------------------------------------------------------
(***************************************************************************)
(* The members of lists                                                    *)
(***************************************************************************)

\* The list Filter makes has the members of the list that are in the set.
LEMMA FilterRange ==
  ASSUME NEW X, NEW s \in Seq(X), NEW S
  PROVE  /\ Filter(s, S) \in Seq(X)
         /\ Range(Filter(s, S)) = Range(s) \cap S
<1> DEFINE t == Filter(s, S)
<1>1. t \in Seq(X) /\ \E e : Picks(e, t, s, S, Len(s))
  BY FilterPicks
<1> HIDE DEF t
<1>2. PICK e : Picks(e, t, s, S, Len(s))
  BY <1>1
<1>3. DOMAIN t = 1 .. Len(t) /\ DOMAIN s = 1 .. Len(s) /\ Len(s) \in Nat /\ Len(t) \in Nat
  BY <1>1
<1>4. ASSUME NEW x \in Range(t) PROVE x \in Range(s) \cap S
  <2>1. PICK k \in 1 .. Len(t) : x = t[k]
    BY <1>3 DEF Range
  <2>2. e[k] \in 1 .. Len(s) /\ t[k] = s[e[k]] /\ s[e[k]] \in S
    BY <1>2 DEF Picks
  <2> QED
    BY <1>3, <2>1, <2>2 DEF Range
<1>5. ASSUME NEW x \in Range(s) \cap S PROVE x \in Range(t)
  <2>1. PICK j \in 1 .. Len(s) : x = s[j]
    BY <1>3 DEF Range
  <2>2. PICK k \in 1 .. Len(t) : e[k] = j
    BY <1>2, <2>1 DEF Picks
  <2>3. t[k] = x
    BY <1>2, <2>1, <2>2 DEF Picks
  <2> QED
    BY <1>3, <2>3 DEF Range
<1> QED
  BY <1>1, <1>4, <1>5 DEF t

\* A list has finitely many members.
LEMMA FewMembers ==
  ASSUME NEW X, NEW s \in Seq(X)
  PROVE  IsFiniteSet(Range(s)) /\ (s # <<>> => Range(s) # {})
<1>1. Len(s) \in Nat /\ DOMAIN s = 1 .. Len(s)
  OBVIOUS
<1>2. IsFiniteSet(1 .. Len(s))
  BY <1>1, FS_Interval
<1>3. s \in Surjection(1 .. Len(s), Range(s))
  BY <1>1 DEF Surjection, Range
<1>4. IsFiniteSet(Range(s))
  BY <1>2, <1>3, FS_Surjection
<1>5. ASSUME s # <<>> PROVE Range(s) # {}
  <2>1. Len(s) # 0
    BY <1>5, EmptySeq
  <2>2. 1 \in DOMAIN s
    BY <1>1, <2>1
  <2> QED
    BY <2>2 DEF Range
<1> QED
  BY <1>4, <1>5

\* The members of two lists put together are those of both.
LEMMA ConcatRange ==
  ASSUME NEW X, NEW s \in Seq(X), NEW t \in Seq(X)
  PROVE  Range(s \o t) = Range(s) \cup Range(t)
<1> DEFINE st == s \o t
<1>1. /\ Len(s) \in Nat /\ Len(t) \in Nat /\ DOMAIN s = 1 .. Len(s) /\ DOMAIN t = 1 .. Len(t)
      /\ st \in Seq(X) /\ Len(st) = Len(s) + Len(t)
  BY ConcatProperties
<1>2. ASSUME NEW i \in 1 .. Len(s) + Len(t)
      PROVE  st[i] = IF i <= Len(s) THEN s[i] ELSE t[i - Len(s)]
  BY ConcatAt
<1> HIDE DEF st
<1>3. DOMAIN st = 1 .. Len(s) + Len(t)
  BY <1>1
<1>4. ASSUME NEW i \in DOMAIN st PROVE st[i] \in Range(s) \cup Range(t)
  <2>1. CASE i <= Len(s)
    BY <1>1, <1>2, <1>3, <2>1 DEF Range
  <2>2. CASE i > Len(s)
    <3>1. i - Len(s) \in DOMAIN t /\ st[i] = t[i - Len(s)]
      BY <1>1, <1>2, <1>3, <2>2
    <3> QED
      BY <3>1 DEF Range
  <2> QED
    BY <1>1, <1>3, <2>1, <2>2
<1>5. ASSUME NEW i \in DOMAIN s PROVE s[i] \in Range(st)
  <2>1. i \in DOMAIN st /\ st[i] = s[i]
    BY <1>1, <1>2, <1>3
  <2> QED
    BY <2>1 DEF Range
<1>6. ASSUME NEW i \in DOMAIN t PROVE t[i] \in Range(st)
  <2> DEFINE j == Len(s) + i
  <2>1. j \in 1 .. Len(s) + Len(t) /\ ~ (j <= Len(s)) /\ j - Len(s) = i
    BY <1>1
  <2> HIDE DEF j
  <2>2. st[j] = t[j - Len(s)]
    BY <1>2, <2>1
  <2>3. j \in DOMAIN st /\ st[j] = t[i]
    BY <1>3, <2>1, <2>2
  <2> QED
    BY <2>3 DEF Range
<1>7. \A x : x \in Range(st) <=> x \in Range(s) \cup Range(t)
  BY <1>4, <1>5, <1>6 DEF Range
<1> QED
  BY <1>7 DEF st

=============================================================================
