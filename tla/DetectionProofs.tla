--------------------------- MODULE DetectionProofs ---------------------------
(***************************************************************************)
(* What detect_poem promises of every poem, of any length and however it   *)
(* is cut by blank lines, whatever the two validators find in its lines;   *)
(* and what the two kinds of validators behind it promise of every line    *)
(* that can be put together from a vocabulary.                             *)
(***************************************************************************)
EXTENDS Detection, ProsodyCases, SequenceFacts, SequenceTheorems, FiniteSetTheorems,
        FunctionTheorems

-----------------------------------------------------------------------------
(***************************************************************************)
(* split_stanzas                                                           *)
(***************************************************************************)

Heaps(X) == [stanzas : Seq(Seq(X)), current : Seq(X)]

\* The lines collected so far.
Gathered(acc) == FlattenSeq(acc.stanzas) \o acc.current

\* A blank line gathers nothing and loses nothing, any other line is put at the end.
LEMMA CollectGathers ==
  ASSUME NEW X, NEW acc \in Heaps(X), NEW verse, verse # Blank => verse \in X
  PROVE  /\ Collect(acc, verse) \in Heaps(X) /\ Flush(acc) \in Heaps(X)
         /\ Gathered(acc) \in Seq(X)
         /\ FlattenSeq(Flush(acc).stanzas) = Gathered(acc)
         /\ Gathered(Collect(acc, verse)) =
              IF verse = Blank THEN Gathered(acc) ELSE Append(Gathered(acc), verse)
<1> DEFINE st == acc.stanzas
           cur == acc.current
           flat == FlattenSeq(st)
<1>1. st \in Seq(Seq(X)) /\ cur \in Seq(X) /\ acc = [stanzas |-> st, current |-> cur]
  BY DEF Heaps
<1>2. flat \in Seq(X) /\ FlattenSeq(Append(st, cur)) = flat \o cur
  BY <1>1, FlattenOneMore
<1>3. Append(st, cur) \in Seq(Seq(X)) /\ <<>> \in Seq(X)
  BY <1>1
<1> HIDE DEF flat
<1>4. /\ flat \o cur \in Seq(X) /\ flat \o <<>> = flat
      /\ (flat \o cur) \o <<>> = flat \o cur
  BY <1>1, <1>2
<1>5. Gathered(acc) = flat \o cur
  BY DEF Gathered, flat
<1> DEFINE flushed == Flush(acc)
<1>6. /\ flushed \in Heaps(X)
      /\ FlattenSeq(flushed.stanzas) = flat \o cur
      /\ Gathered(flushed) = flat \o cur
  <2>1. CASE cur = <<>>
    <3>1. flushed = acc
      BY <2>1 DEF Flush
    <3> QED
      BY <1>4, <1>5, <2>1, <3>1 DEF flat
  <2>2. CASE cur # <<>>
    <3>1. flushed = [stanzas |-> Append(st, cur), current |-> <<>>]
      BY <2>2 DEF Flush
    <3> HIDE DEF flushed
    <3>2. flushed.stanzas = Append(st, cur) /\ flushed.current = <<>>
      BY <3>1
    <3>3. flushed \in Heaps(X)
      BY <1>3, <3>1 DEF Heaps
    <3> QED
      BY <1>2, <1>4, <3>2, <3>3 DEF Gathered
  <2> QED
    BY <2>1, <2>2
<1>7. CASE verse = Blank
  <2>1. Collect(acc, verse) = flushed
    BY <1>7 DEF Collect
  <2> HIDE DEF flushed
  <2> QED
    BY <1>4, <1>5, <1>6, <1>7, <2>1 DEF flushed
<1>8. CASE verse # Blank
  <2> DEFINE more == Collect(acc, verse)
  <2>1. verse \in X
    BY <1>8
  <2>2. Append(cur, verse) \in Seq(X) /\ flat \o Append(cur, verse) = Append(flat \o cur, verse)
    BY <1>1, <1>2, <2>1
  <2>3. more = [stanzas |-> st, current |-> Append(cur, verse)]
    BY <1>1, <1>8 DEF Collect
  <2> HIDE DEF more, flushed
  <2>4. more.stanzas = st /\ more.current = Append(cur, verse)
    BY <2>3
  <2>5. more \in Heaps(X)
    BY <1>1, <2>2, <2>3 DEF Heaps
  <2>6. Gathered(more) = flat \o Append(cur, verse)
    BY <2>4 DEF Gathered, flat
  <2> QED
    BY <1>4, <1>5, <1>6, <1>8, <2>2, <2>5, <2>6 DEF more, flushed
<1> QED
  BY <1>7, <1>8

\* What has been collected after i lines, if f is what it is after each number of them.
CollectBody(text, f, i) ==
  IF i = 0 THEN [stanzas |-> <<>>, current |-> <<>>] ELSE Collect(f[i - 1], text[i])

CollectFcn(text) == CHOOSE f : f = [i \in 0 .. Len(text) |-> CollectBody(text, f, i)]

\* The function Collected is defined with, by a name.
LEMMA CollectedIs ==
  ASSUME NEW text
  PROVE  Collected(text) = CollectFcn(text)[Len(text)]
  BY DEF Collected, CollectFcn, CollectBody

Collects(f, text, n) == f = [i \in 0 .. n |-> CollectBody(text, f, i)]

\* Lines can be collected one after the other.
LEMMA CollectFcnExists ==
  ASSUME NEW n \in Nat, NEW X, NEW text, \A i \in 1 .. n : text[i] # Blank => text[i] \in X
  PROVE  \E f : Collects(f, text, n)
<1> DEFINE V == Heaps(X)
           start == [stanzas |-> <<>>, current |-> <<>>]
           step == [i \in 1 .. n |-> [acc \in V |-> Collect(acc, text[i])]]
<1>1. start \in V
  BY DEF Heaps
<1>2. \A i \in 1 .. n, acc \in V : Collect(acc, text[i]) \in V
  BY CollectGathers
<1> HIDE DEF V, start
<1>3. step \in Rules(n, V)
  BY <1>2 DEF Rules
<1>4. \A i \in 1 .. n, acc \in V : step[i][acc] = Collect(acc, text[i])
  OBVIOUS
<1> HIDE DEF step
<1>5. PICK f \in [0 .. n -> V] : f[0] = start /\ \A i \in 1 .. n : f[i] = step[i][f[i - 1]]
  BY <1>1, <1>3, Recursion
<1>6. \A i \in 0 .. n : f[i] = CollectBody(text, f, i)
  <2> SUFFICES ASSUME NEW i \in 0 .. n PROVE f[i] = CollectBody(text, f, i)
    OBVIOUS
  <2>1. CASE i = 0
    BY <1>5, <2>1 DEF CollectBody, start
  <2>2. CASE i \in 1 .. n
    <3>1. f[i - 1] \in V /\ f[i] = step[i][f[i - 1]]
      BY <1>5, <2>2
    <3>2. f[i] = Collect(f[i - 1], text[i])
      BY <1>4, <2>2, <3>1
    <3> QED
      BY <2>2, <3>2 DEF CollectBody
  <2> QED
    BY <2>1, <2>2
<1>7. f = [i \in 0 .. n |-> CollectBody(text, f, i)]
  BY <1>5, <1>6
<1> QED
  BY <1>7 DEF Collects

\* The blocks of a text are made of its lines, in order and each once.
LEMMA BlocksHaveTheLines ==
  ASSUME NEW X, NEW text \in Seq(X \cup {Blank}), Blank \notin X
  PROVE  /\ Blocks(text) \in Seq(Seq(X))
         /\ LinesOf(text) \in Seq(X)
         /\ FlattenSeq(Blocks(text)) = LinesOf(text)
<1> DEFINE n == Len(text)
           S == Range(text) \ {Blank}
           c == CollectFcn(text)
           g == FilterFcn(text, S)
           T == {m \in 0 .. n : /\ c[m] \in Heaps(X)
                                /\ g[m] \in Seq(X)
                                /\ Gathered(c[m]) = g[m]}
<1>1. n \in Nat
  OBVIOUS
<1>2. \A i \in 1 .. n : text[i] # Blank => text[i] \in X
  OBVIOUS
<1>2a. \A i \in 1 .. n : text[i] \in S <=> text[i] # Blank
  BY DEF Range
<1>3. /\ c[0] = [stanzas |-> <<>>, current |-> <<>>]
      /\ \A i \in 1 .. n : c[i] = Collect(c[i - 1], text[i])
  <2>1. \E f : Collects(f, text, n)
    BY <1>1, <1>2, CollectFcnExists
  <2>2. c = [i \in 0 .. n |-> CollectBody(text, c, i)]
    BY <2>1 DEF CollectFcn, Collects
  <2> HIDE DEF c, n
  <2>3. \A i \in 0 .. n : c[i] = CollectBody(text, c, i)
    BY <2>2
  <2>4. ASSUME NEW i \in 1 .. n PROVE c[i] = Collect(c[i - 1], text[i])
    <3>1. i \in 0 .. n /\ i # 0
      BY <1>1
    <3> QED
      BY <2>3, <3>1 DEF CollectBody
  <2>5. c[0] = [stanzas |-> <<>>, current |-> <<>>]
    <3>1. 0 \in 0 .. n
      BY <1>1
    <3>2. c[0] = CollectBody(text, c, 0)
      BY <2>3, <3>1
    <3> QED
      BY <3>2 DEF CollectBody
  <2> QED
    BY <2>4, <2>5
<1>4. /\ g[0] = <<>>
      /\ \A i \in 1 .. n : g[i] = IF text[i] \in S THEN Append(g[i - 1], text[i]) ELSE g[i - 1]
  <2>1. g = [i \in 0 .. n |-> FilterBody(text, S, g, i)]
    BY <1>1, FilterFcnExists
  <2> HIDE DEF g, n, S
  <2>2. \A i \in 0 .. n : g[i] = FilterBody(text, S, g, i)
    BY <2>1
  <2>3. ASSUME NEW i \in 1 .. n
        PROVE  g[i] = IF text[i] \in S THEN Append(g[i - 1], text[i]) ELSE g[i - 1]
    <3>1. i \in 0 .. n /\ i # 0
      BY <1>1
    <3> QED
      BY <2>2, <3>1 DEF FilterBody
  <2>4. g[0] = <<>>
    <3>1. 0 \in 0 .. n
      BY <1>1
    <3>2. g[0] = FilterBody(text, S, g, 0)
      BY <2>2, <3>1
    <3> QED
      BY <3>2 DEF FilterBody
  <2> QED
    BY <2>3, <2>4
<1>5. LinesOf(text) = g[n]
  BY FilterIs DEF LinesOf
<1>6. Blocks(text) = Flush(c[n]).stanzas
  BY CollectedIs DEF Blocks
<1> HIDE DEF c, g, n, S
<1>7. 0 \in T
  <2>1. c[0] \in Heaps(X) /\ g[0] \in Seq(X)
    BY <1>3, <1>4 DEF Heaps
  <2>2. Gathered(c[0]) = FlattenSeq(<<>>) \o <<>>
    BY <1>3 DEF Gathered
  <2>3. Gathered(c[0]) = g[0]
    <3>1. FlattenSeq(<<>>) = <<>> /\ <<>> \o <<>> = <<>>
      BY FlattenOneMore
    <3> QED
      BY <1>4, <2>2, <3>1
  <2>4. 0 \in 0 .. n
    BY <1>1
  <2> QED
    BY <2>1, <2>3, <2>4
<1>8. ASSUME NEW m \in 1 .. n, m - 1 \in T PROVE m \in T
  <2>1. /\ c[m - 1] \in Heaps(X) /\ g[m - 1] \in Seq(X)
        /\ Gathered(c[m - 1]) = g[m - 1]
    BY <1>8
  <2> DEFINE acc == c[m - 1]
             verse == text[m]
             before == g[m - 1]
  <2>2. /\ c[m] = Collect(acc, verse)
        /\ g[m] = IF verse \in S THEN Append(before, verse) ELSE before
        /\ verse # Blank => verse \in X
        /\ verse \in S <=> verse # Blank
    <3>1. c[m] = Collect(acc, verse)
      BY <1>3
    <3>2. g[m] = IF verse \in S THEN Append(before, verse) ELSE before
      BY <1>4
    <3>3. verse # Blank => verse \in X
      BY <1>2
    <3>4. verse \in S <=> verse # Blank
      BY <1>2a
    <3> QED
      BY <3>1, <3>2, <3>3, <3>4
  <2>2a. acc \in Heaps(X)
    BY <2>1
  <2> HIDE DEF acc, verse, before
  <2>3. /\ c[m] \in Heaps(X)
        /\ Gathered(c[m]) = IF verse = Blank THEN Gathered(acc) ELSE Append(Gathered(acc), verse)
    <3>1. /\ Collect(acc, verse) \in Heaps(X)
          /\ Gathered(Collect(acc, verse)) =
               IF verse = Blank THEN Gathered(acc) ELSE Append(Gathered(acc), verse)
      <4>1. verse # Blank => verse \in X
        BY <2>2
      <4> QED
        BY <2>2a, <4>1, CollectGathers
    <3> QED
      BY <2>2, <3>1
  <2>4. g[m] = IF verse = Blank THEN before ELSE Append(before, verse)
    BY <2>2
  <2>5. g[m] \in Seq(X)
    BY <2>1, <2>2, <2>4 DEF before
  <2>6. Gathered(c[m]) = g[m]
    BY <2>1, <2>3, <2>4 DEF acc, before
  <2>7. m \in 0 .. n
    BY <1>1
  <2> QED
    BY <2>3, <2>5, <2>6, <2>7
<1>9. n \in T
  <2> HIDE DEF T
  <2>1. \A m \in 1 .. n : m - 1 \in T => m \in T
    BY <1>8
  <2>2. 0 .. n \subseteq T
    BY <1>1, <1>7, <2>1, Reached
  <2> QED
    BY <1>1, <2>2
<1>10. Blank # Blank => Blank \in X
  OBVIOUS
<1>11. /\ Flush(c[n]) \in Heaps(X)
       /\ FlattenSeq(Flush(c[n]).stanzas) = Gathered(c[n])
  BY <1>9, <1>10, CollectGathers
<1>12. Flush(c[n]).stanzas \in Seq(Seq(X))
  BY <1>11 DEF Heaps
<1> QED
  BY <1>5, <1>6, <1>9, <1>11, <1>12

\* The lesser of two numbers.
LEMMA MinOfTwo ==
  ASSUME NEW a \in Nat, NEW b \in Nat
  PROVE  Min({a, b}) = IF a <= b THEN a ELSE b
<1> DEFINE m == IF a <= b THEN a ELSE b
<1>1. m \in {a, b} /\ \A y \in {a, b} : m <= y
  OBVIOUS
<1>2. \A x \in {a, b} : (\A y \in {a, b} : x <= y) => x = m
  OBVIOUS
<1> HIDE DEF m
<1>3. Min({a, b}) = m
  BY <1>1, <1>2 DEF Min
<1> QED
  BY <1>3 DEF m

\* A piece and the next one.
LEMMA PiecesJoin ==
  ASSUME NEW X, NEW s \in Seq(X), NEW a \in Nat, NEW b \in Nat, a <= b, b <= Len(s)
  PROVE  /\ SubSeq(s, 1, b) \in Seq(X) /\ SubSeq(s, a + 1, b) \in Seq(X)
         /\ SubSeq(s, 1, a) \o SubSeq(s, a + 1, b) = SubSeq(s, 1, b)
<1>1. \A i \in 1 .. b : s[i] \in X
  OBVIOUS
<1>2. SubSeq(s, 1, b) \in Seq(X)
  BY <1>1, SubSeqProperties
<1>3. SubSeq(s, a + 1, b) \in Seq(X)
  <2>1. \A i \in a + 1 .. b : s[i] \in X
    BY <1>1
  <2> QED
    BY <2>1, SubSeqProperties
<1>4. 1 \in 1 .. Len(s) + 1 /\ a \in 1 - 1 .. Len(s) /\ b \in a .. Len(s)
  OBVIOUS
<1> QED
  BY <1>2, <1>3, <1>4, ConcatAdjacentSubSeq

\* The chunks of a text are made of its lines, in order and each once.
LEMMA ChunksHaveTheLines ==
  ASSUME NEW X, NEW text \in Seq(X)
  PROVE  /\ Chunks(text) \in Seq(Seq(X))
         /\ FlattenSeq(Chunks(text)) = text
<1> DEFINE n == Len(text)
           k == (n + 3) \div 4
           End(i) == IF 4 * i <= n THEN 4 * i ELSE n
           c == Chunks(text)
           f == FlattenFcn(c)
<1>1. n \in Nat /\ k \in Nat /\ 4 * k >= n /\ 4 * k < n + 4
  OBVIOUS
<1>2. c = [i \in 1 .. k |-> SubSeq(text, 4 * (i - 1) + 1, End(i))]
  <2>1. \A i \in 1 .. k : Min({4 * i, n}) = End(i)
    BY <1>1, MinOfTwo
  <2>2. StanzaSize = 4
    BY DEF StanzaSize
  <2>3. /\ (n + StanzaSize - 1) \div StanzaSize = k
        /\ \A i : StanzaSize * i = 4 * i /\ StanzaSize * (i - 1) + 1 = 4 * (i - 1) + 1
    <3>1. n + 4 - 1 = n + 3
      BY <1>1
    <3> QED
      BY <2>2, <3>1
  <2>4. c = [i \in 1 .. k |-> SubSeq(text, 4 * (i - 1) + 1, Min({4 * i, n}))]
    BY <2>3 DEF Chunks
  <2> HIDE DEF End, k, n, c
  <2> QED
    BY <2>1, <2>4
<1> HIDE DEF c, f, k, n
<1>3. ASSUME NEW i \in 1 .. k
      PROVE  /\ 4 * (i - 1) \in Nat /\ End(i) \in Nat
             /\ 4 * (i - 1) <= End(i) /\ End(i) <= n
             /\ i > 1 => End(i - 1) = 4 * (i - 1)
             /\ c[i] = SubSeq(text, 4 * (i - 1) + 1, End(i)) /\ c[i] \in Seq(X)
             /\ SubSeq(text, 1, 4 * (i - 1)) \o c[i] = SubSeq(text, 1, End(i))
  <2>1. /\ 4 * (i - 1) \in Nat /\ End(i) \in Nat
        /\ 4 * (i - 1) <= End(i) /\ End(i) <= n
        /\ i > 1 => End(i - 1) = 4 * (i - 1)
    BY <1>1
  <2>2. c[i] = SubSeq(text, 4 * (i - 1) + 1, End(i))
    BY <1>2
  <2> HIDE DEF End
  <2>3. /\ SubSeq(text, 4 * (i - 1) + 1, End(i)) \in Seq(X)
        /\ SubSeq(text, 1, 4 * (i - 1)) \o SubSeq(text, 4 * (i - 1) + 1, End(i)) =
             SubSeq(text, 1, End(i))
    <3> DEFINE a == 4 * (i - 1)
               b == End(i)
    <3>1. a \in Nat /\ b \in Nat /\ a <= b /\ b <= Len(text)
      BY <2>1 DEF n
    <3> HIDE DEF a, b
    <3>2. /\ SubSeq(text, a + 1, b) \in Seq(X)
          /\ SubSeq(text, 1, a) \o SubSeq(text, a + 1, b) = SubSeq(text, 1, b)
      BY <3>1, PiecesJoin
    <3> QED
      BY <3>2 DEF a, b
  <2> QED
    BY <2>1, <2>2, <2>3
<1> HIDE DEF End
<1>4. c \in Seq(Seq(X)) /\ Len(c) = k
  <2>1. \A i \in 1 .. k : c[i] \in Seq(X)
    BY <1>3
  <2> QED
    BY <1>1, <1>2, <2>1
<1>5. /\ Len(c) > 0 => f[1] = c[1]
      /\ \A i \in 2 .. Len(c) : f[i] = f[i - 1] \o c[i]
  BY <1>4, FlattenSteps DEF f
<1>6. CASE k = 0
  <2>1. c = <<>> /\ text = <<>>
    BY <1>1, <1>4, <1>6 DEF n
  <2> QED
    BY <1>4, <2>1, FlattenOneMore DEF c
<1>7. CASE k # 0
  <2> DEFINE T == {m \in 0 .. k : m # 0 => f[m] = SubSeq(text, 1, End(m))}
  <2>1. 0 \in T
    BY <1>1
  <2>2. ASSUME NEW m \in 1 .. k, m - 1 \in T PROVE m \in T
    <3>1. CASE m = 1
      <4>1. f[1] = c[1]
        BY <1>1, <1>4, <1>5, <1>7
      <4>2. c[1] = SubSeq(text, 1, End(1))
        <5>1. c[m] = SubSeq(text, 4 * (m - 1) + 1, End(m))
          BY <1>3
        <5>2. 4 * (m - 1) + 1 = 1
          BY <3>1
        <5> QED
          BY <3>1, <5>1, <5>2
      <4> QED
        BY <1>1, <3>1, <4>1, <4>2
    <3>2. CASE m # 1
      <4>1. m \in 2 .. k /\ m - 1 # 0 /\ m > 1 /\ m \in 0 .. k
        BY <1>1, <3>2
      <4>2. f[m] = f[m - 1] \o c[m]
        BY <1>4, <1>5, <4>1
      <4>3. f[m - 1] = SubSeq(text, 1, End(m - 1))
        BY <2>2, <4>1
      <4>4. /\ End(m - 1) = 4 * (m - 1)
            /\ SubSeq(text, 1, 4 * (m - 1)) \o c[m] = SubSeq(text, 1, End(m))
        BY <1>3, <4>1
      <4>5. f[m] = SubSeq(text, 1, End(m))
        BY <4>2, <4>3, <4>4
      <4> QED
        BY <4>1, <4>5
    <3> QED
      BY <3>1, <3>2
  <2>3. k \in T
    <3> HIDE DEF T
    <3>1. \A m \in 1 .. k : m - 1 \in T => m \in T
      BY <2>2
    <3>2. 0 .. k \subseteq T
      BY <1>1, <2>1, <3>1, Reached
    <3> QED
      BY <1>1, <3>2
  <2>4. f[k] = SubSeq(text, 1, End(k)) /\ End(k) = n
    BY <1>1, <1>7, <2>3 DEF End
  <2>5. FlattenSeq(c) = f[k]
    BY <1>4, <1>7, FlattenIs DEF f
  <2>6. SubSeq(text, 1, n) = text
    BY DEF n
  <2> QED
    BY <1>4, <2>4, <2>5, <2>6 DEF c
<1> QED
  BY <1>6, <1>7

\* The stanzas of a poem are made of its lines, in order and each once.
LEMMA StanzasHaveTheLines ==
  ASSUME NEW X, NEW text \in Seq(X \cup {Blank}), Blank \notin X
  PROVE  /\ SplitStanzas(text) \in Seq(Seq(X))
         /\ LinesOf(text) \in Seq(X)
         /\ FlattenSeq(SplitStanzas(text)) = LinesOf(text)
<1>1. /\ Blocks(text) \in Seq(Seq(X)) /\ LinesOf(text) \in Seq(X)
      /\ FlattenSeq(Blocks(text)) = LinesOf(text)
  BY BlocksHaveTheLines
<1>2. /\ Chunks(LinesOf(text)) \in Seq(Seq(X))
      /\ FlattenSeq(Chunks(LinesOf(text))) = LinesOf(text)
  BY <1>1, ChunksHaveTheLines
<1>3. SplitStanzas(text) \in {Blocks(text), Chunks(LinesOf(text))}
  BY DEF SplitStanzas
<1> QED
  BY <1>1, <1>2, <1>3

-----------------------------------------------------------------------------
(***************************************************************************)
(* The inductive invariant                                                 *)
(***************************************************************************)

\* What a stanza can be shown as, with the meter and the scheme found for the poem.
Results == {StanzaResult(stanza) : stanza \in Seq(Lines)}

DetectInv ==
  /\ pc \in {"request", "refused", "rhyme", "stanzas", "done"}
  /\ poem \in Poems
  /\ todo \in Seq(Seq(Lines))
  /\ pc \in {"request", "rhyme"} => stanzas = <<>>
  /\ stanzas \in Seq(Results)
  /\ EveryLineShownOnce
  /\ fullRhyme \in {None, DetectRhyme(LinesOf(poem))}

\* The stanzas of a poem are stanzas of lines.
LEMMA PoemsHaveLines ==
  ASSUME NEW text \in Poems
  PROVE  /\ SplitStanzas(text) \in Seq(Seq(Lines))
         /\ LinesOf(text) \in Seq(Lines)
         /\ FlattenSeq(SplitStanzas(text)) = LinesOf(text)
         /\ <<LinesOf(text)>> \in Seq(Seq(Lines))
         /\ FlattenSeq(<<LinesOf(text)>>) = LinesOf(text)
<1>1. text \in Seq(Lines \cup {Blank}) /\ Blank \notin Lines
  <2>1. text \in Seq(Lines \cup {Blank})
    BY TextAssumption
  <2>2. Blank \notin Lines
    BY DEF Lines
  <2> QED
    BY <2>1, <2>2
<1>2. /\ SplitStanzas(text) \in Seq(Seq(Lines)) /\ LinesOf(text) \in Seq(Lines)
      /\ FlattenSeq(SplitStanzas(text)) = LinesOf(text)
  BY <1>1, StanzasHaveTheLines
<1> DEFINE lines == LinesOf(text)
<1> HIDE DEF lines
<1>3. lines \in Seq(Lines)
  BY <1>2 DEF lines
<1>4. <<lines>> = Append(<<>>, lines) /\ <<>> \in Seq(Seq(Lines)) /\ <<>> \o lines = lines
  BY <1>3
<1>5. FlattenSeq(<<lines>>) = lines
  <2>1. FlattenSeq(Append(<<>>, lines)) = FlattenSeq(<<>>) \o lines /\ FlattenSeq(<<>>) = <<>>
    BY <1>3, <1>4, FlattenOneMore
  <2> QED
    BY <1>4, <2>1
<1>6. <<lines>> \in Seq(Seq(Lines))
  BY <1>3
<1> QED
  BY <1>2, <1>5, <1>6 DEF lines

\* A request is detected from nothing.
LEMMA DetectInit == Init => DetectInv
<1> SUFFICES ASSUME Init PROVE DetectInv
  OBVIOUS
<1>1. <<>> \in Seq(Seq(Lines)) /\ <<>> \in Seq(Results)
  OBVIOUS
<1> QED
  BY <1>1 DEF Init, DetectInv, EveryLineShownOnce

\* Before the stanzas there are none.
LEMMA EarlySteps ==
  ASSUME DetectInv, Refuse \/ DetectWithMeter \/ SkipMeter
  PROVE  DetectInv'
<1>1. pc = "request" /\ stanzas' = <<>> /\ todo' = todo /\ poem' = poem
      /\ pc' \in {"refused", "rhyme"}
  BY DEF DetectInv, Refuse, DetectWithMeter, SkipMeter
<1>2. stanzas' \in Seq(Results)'
  BY <1>1
<1>3. fullRhyme' \in {None, DetectRhyme(LinesOf(poem))}
  BY DEF DetectInv, Refuse, DetectWithMeter, SkipMeter, Detect
<1> QED
  BY <1>1, <1>2, <1>3 DEF DetectInv, EveryLineShownOnce

\* All lines of the poem are to be shown once it is split.
LEMMA SplitStep ==
  ASSUME DetectInv, DetectRhymeAndSplit
  PROVE  DetectInv'
<1>1. /\ pc' = "stanzas" /\ stanzas' = <<>> /\ poem' = poem /\ poem \in Poems
      /\ todo' \in {SplitStanzas(poem), <<LinesOf(poem)>>}
  BY DEF DetectInv, DetectRhymeAndSplit
<1>2. stanzas' \in Seq(Results)'
  BY <1>1
<1>3. fullRhyme' \in {None, DetectRhyme(LinesOf(poem))}
  BY DEF DetectInv, DetectRhymeAndSplit, Detect
<1>4. todo' \in Seq(Seq(Lines)) /\ FlattenSeq(todo') = LinesOf(poem)
  BY <1>1, PoemsHaveLines
<1>5. EveryLineShownOnce'
  <2> DEFINE shown == [i \in DOMAIN stanzas' |-> stanzas'[i].lines]
             next == todo'
  <2>1. shown = <<>>
    BY <1>1
  <2> HIDE DEF shown, next
  <2>2. next \in Seq(Seq(Lines)) /\ FlattenSeq(next) = LinesOf(poem)
    BY <1>4 DEF next
  <2>3. shown \o next = next
    BY <2>1, <2>2
  <2>4. FlattenSeq(shown \o next) = LinesOf(poem)
    BY <2>2, <2>3
  <2> QED
    BY <1>1, <2>4 DEF EveryLineShownOnce, shown, next
<1> QED
  BY <1>1, <1>2, <1>3, <1>4, <1>5 DEF DetectInv

\* The next stanza moves from what is to be shown to what is shown.
LEMMA ResolveStep ==
  ASSUME DetectInv, ResolveStanza
  PROVE  DetectInv'
<1> DEFINE stanza == Head(todo)
           result == StanzaResult(stanza)
<1>1. /\ pc = "stanzas" /\ pc' = pc /\ poem' = poem /\ poem \in Poems
      /\ fullRhyme' = fullRhyme /\ fullRhyme \in {None, DetectRhyme(LinesOf(poem))}
      /\ stanzas' = Append(stanzas, result) /\ stanzas \in Seq(Results)
      /\ todo # <<>> /\ todo' = Tail(todo) /\ todo \in Seq(Seq(Lines))
  BY DEF DetectInv, ResolveStanza
<1>2. stanza \in Seq(Lines) /\ todo' \in Seq(Seq(Lines)) /\ todo = <<stanza>> \o Tail(todo)
  BY <1>1
<1>3. Results' = Results
  BY DEF ResolveStanza, Results, StanzaResult, StanzaMeter, StanzaRhyme
<1>4. result \in Results
  BY <1>2 DEF Results
<1>5. result.lines = stanza
  BY DEF StanzaResult
<1> HIDE DEF result, stanza
<1>6. stanzas' \in Seq(Results)'
  BY <1>1, <1>3, <1>4
<1>7. EveryLineShownOnce'
  <2> DEFINE shown == [i \in DOMAIN stanzas |-> stanzas[i].lines]
             next == [i \in DOMAIN stanzas' |-> stanzas'[i].lines]
             rest == Tail(todo)
  <2>1. FlattenSeq(shown \o todo) = LinesOf(poem)
    BY <1>1 DEF DetectInv, EveryLineShownOnce
  <2>2. shown \in Seq(Seq(Lines))
    <3>1. \A r \in Results : r.lines \in Seq(Lines)
      BY DEF Results, StanzaResult
    <3>2. \A i \in DOMAIN stanzas : stanzas[i].lines \in Seq(Lines)
      BY <1>1, <3>1
    <3>3. DOMAIN stanzas = 1 .. Len(stanzas) /\ Len(stanzas) \in Nat
      BY <1>1
    <3> QED
      BY <3>2, <3>3
  <2>3. next = Append(shown, stanza)
    <3> DEFINE n == Len(stanzas)
    <3>1. /\ n \in Nat /\ DOMAIN stanzas = 1 .. n /\ DOMAIN stanzas' = 1 .. n + 1
          /\ stanzas'[n + 1] = result /\ \A i \in 1 .. n : stanzas'[i] = stanzas[i]
      BY <1>1
    <3> HIDE DEF n
    <3>2. /\ next = [i \in 1 .. n + 1 |-> stanzas'[i].lines]
          /\ shown = [i \in 1 .. n |-> stanzas[i].lines]
      BY <3>1
    <3>3. /\ Append(shown, stanza) \in Seq(Seq(Lines)) /\ Len(shown) = n
          /\ Len(Append(shown, stanza)) = n + 1
          /\ Append(shown, stanza)[n + 1] = stanza
          /\ \A i \in 1 .. n : Append(shown, stanza)[i] = shown[i]
      BY <1>2, <2>2, <3>1, <3>2
    <3>4. ASSUME NEW i \in 1 .. n + 1 PROVE next[i] = Append(shown, stanza)[i]
      <4>1. CASE i = n + 1
        BY <1>5, <3>1, <3>2, <3>3, <4>1
      <4>2. CASE i # n + 1
        BY <3>1, <3>2, <3>3, <4>2
      <4> QED
        BY <4>1, <4>2
    <3> QED
      BY <3>1, <3>2, <3>3, <3>4
  <2> HIDE DEF shown, next, rest
  <2>4. next \o rest = shown \o todo
    <3>1. rest \in Seq(Seq(Lines)) /\ todo = <<stanza>> \o rest
      BY <1>1, <1>2 DEF rest
    <3>2. Append(shown, stanza) = shown \o <<stanza>> /\ <<stanza>> \in Seq(Seq(Lines))
      BY <1>2, <2>2
    <3> QED
      BY <2>2, <2>3, <3>1, <3>2, ConcatAssociative, SMTT(30)
  <2> QED
    BY <1>1, <2>1, <2>4 DEF EveryLineShownOnce, next, rest
<1> QED
  BY <1>1, <1>2, <1>6, <1>7 DEF DetectInv

\* The rest changes nothing the invariant speaks of.
LEMMA LateSteps ==
  ASSUME DetectInv, Respond \/ UNCHANGED vars
  PROVE  DetectInv'
<1>1. /\ poem' = poem /\ todo' = todo /\ stanzas' = stanzas /\ fullRhyme' = fullRhyme
      /\ fullMeter' = fullMeter /\ want' = want
      /\ (pc' = pc \/ (pc = "stanzas" /\ pc' = "done"))
  BY DEF Respond, vars
<1>2. Results' = Results
  BY <1>1 DEF Results, StanzaResult, StanzaMeter, StanzaRhyme
<1> QED
  BY <1>1, <1>2 DEF DetectInv, EveryLineShownOnce

\* The invariant holds in every reachable state.
THEOREM DetectionInvariant == Spec => []DetectInv
<1>1. ASSUME DetectInv, [Next]_vars PROVE DetectInv'
  BY <1>1, EarlySteps, SplitStep, ResolveStep, LateSteps DEF Next
<1> QED
  BY <1>1, DetectInit, PTL DEF Spec

\* No line of the poem is lost, doubled or moved by the split into stanzas, whatever
\* the poem and however blank lines cut it.
THEOREM LinesShownOnce == Spec => []EveryLineShownOnce
<1>1. DetectInv => EveryLineShownOnce
  BY DEF DetectInv
<1> QED
  BY <1>1, DetectionInvariant, PTL

-----------------------------------------------------------------------------
(***************************************************************************)
(* Schemes                                                                 *)
(***************************************************************************)

\* The four schemes in their order, and the pairs each demands of a stanza.
LEMMA SchemesAre ==
  /\ Len(Schemes) = 4 /\ DOMAIN Schemes = 1 .. 4
  /\ Schemes[1] = "AAAA" /\ Schemes[2] = "ABAB" /\ Schemes[3] = "AABB" /\ Schemes[4] = "ABBA"
  /\ Range(Schemes) = {"AAAA", "ABAB", "AABB", "ABBA"}
<1>1. Len(Schemes) = 4 /\ DOMAIN Schemes = 1 .. 4
  BY DEF Schemes
<1>2. Schemes[1] = "AAAA" /\ Schemes[2] = "ABAB" /\ Schemes[3] = "AABB" /\ Schemes[4] = "ABBA"
  BY DEF Schemes
<1>3. Range(Schemes) = {Schemes[1], Schemes[2], Schemes[3], Schemes[4]}
  BY <1>1 DEF Range
<1> QED
  BY <1>1, <1>2, <1>3

\* The pairs of lines of a stanza with the same letter, scheme by scheme.
Demands(scheme) ==
  CASE scheme = "ABAB" -> {<<1, 3>>, <<2, 4>>}
    [] scheme = "AABB" -> {<<1, 2>>, <<3, 4>>}
    [] scheme = "ABBA" -> {<<1, 4>>, <<2, 3>>}
    [] scheme = "AAAA" -> {<<1, 2>>, <<1, 3>>, <<1, 4>>, <<2, 3>>, <<2, 4>>, <<3, 4>>}

\* They are what the letters say.
LEMMA DemandsAre ==
  ASSUME NEW scheme \in {"AAAA", "ABAB", "AABB", "ABBA"}
  PROVE  /\ Len(Letters[scheme]) = 4
         /\ StanzaPairs(Letters[scheme]) = Demands(scheme)
<1> DEFINE s == Letters[scheme]
<1>1. /\ DOMAIN s = 1 .. 4 /\ Len(s) = 4
      /\ s[1] = "A"
      /\ s[2] = IF scheme \in {"AAAA", "AABB"} THEN "A" ELSE "B"
      /\ s[3] = IF scheme \in {"AAAA", "ABAB"} THEN "A" ELSE "B"
      /\ s[4] = IF scheme \in {"AAAA", "ABBA"} THEN "A" ELSE "B"
  BY DEF Letters
<1> HIDE DEF s
<1>2. StanzaPairs(s) = {p \in (1 .. 4) \X (1 .. 4) : p[1] < p[2] /\ s[p[1]] = s[p[2]]}
  BY <1>1 DEF StanzaPairs
<1>3. ASSUME NEW i \in 1 .. 4, NEW j \in 1 .. 4
      PROVE  (i < j /\ s[i] = s[j]) <=> <<i, j>> \in Demands(scheme)
  BY <1>1 DEF Demands
<1>4. Demands(scheme) \subseteq (1 .. 4) \X (1 .. 4)
  BY DEF Demands
<1> QED
  BY <1>1, <1>2, <1>3, <1>4 DEF s

\* The places of a text that some pairs of places of a stanza of four stand for.
Taken(D, m) == {<<k * 4 + p[1], k * 4 + p[2]>> : k \in 0 .. m - 1, p \in D}

Places == (1 .. 4) \X (1 .. 4)

\* One pair of a stanza stands for one pair of each stanza.
LEMMA OneTaken ==
  ASSUME NEW p \in Places, NEW m \in Nat
  PROVE  IsFiniteSet(Taken({p}, m)) /\ Cardinality(Taken({p}, m)) = m
<1> DEFINE f == [k \in 0 .. m - 1 |-> <<k * 4 + p[1], k * 4 + p[2]>>]
<1>1. f \in [0 .. m - 1 -> Taken({p}, m)]
  BY DEF Taken
<1>2. ASSUME NEW j \in 0 .. m - 1, NEW k \in 0 .. m - 1, f[j] = f[k] PROVE j = k
  <2>1. p[1] \in 1 .. 4
    BY DEF Places
  <2>2. j * 4 + p[1] = k * 4 + p[1]
    BY <1>2
  <2> QED
    BY <2>1, <2>2
<1>3. ASSUME NEW q \in Taken({p}, m) PROVE \E k \in 0 .. m - 1 : f[k] = q
  <2>1. PICK k \in 0 .. m - 1 : q = <<k * 4 + p[1], k * 4 + p[2]>>
    BY DEF Taken
  <2>2. f[k] = q
    BY <2>1
  <2> QED
    BY <2>2
<1> HIDE DEF f
<1>4. f \in Bijection(0 .. m - 1, Taken({p}, m))
  BY <1>1, <1>2, <1>3 DEF Bijection, Injection, IsInjective, Surjection
<1>5. IsFiniteSet(0 .. m - 1) /\ Cardinality(0 .. m - 1) = m
  BY FS_Interval
<1>6. ExistsBijection(0 .. m - 1, Taken({p}, m))
  BY <1>4 DEF ExistsBijection
<1> QED
  BY <1>5, <1>6, FS_Bijection

\* Different pairs of a stanza stand for different pairs of the text.
LEMMA TakenApart ==
  ASSUME NEW D \in SUBSET Places, NEW E \in SUBSET Places, D \cap E = {}, NEW m \in Nat
  PROVE  Taken(D, m) \cap Taken(E, m) = {}
<1> SUFFICES ASSUME NEW k \in 0 .. m - 1, NEW p \in D, NEW j \in 0 .. m - 1, NEW q \in E,
                    <<k * 4 + p[1], k * 4 + p[2]>> = <<j * 4 + q[1], j * 4 + q[2]>>
             PROVE  FALSE
  BY DEF Taken
<1>1. /\ p \in Places /\ q \in Places /\ p # q
  OBVIOUS
<1>2. p[1] \in 1 .. 4 /\ p[2] \in 1 .. 4 /\ q[1] \in 1 .. 4 /\ q[2] \in 1 .. 4
  BY <1>1 DEF Places
<1>3. k * 4 + p[1] = j * 4 + q[1] /\ k * 4 + p[2] = j * 4 + q[2]
  OBVIOUS
<1>4. p[1] = q[1] /\ p[2] = q[2]
  BY <1>2, <1>3
<1>5. p = <<p[1], p[2]>> /\ q = <<q[1], q[2]>>
  BY <1>1 DEF Places
<1> QED
  BY <1>1, <1>4, <1>5

\* What is taken of two sets of pairs is what is taken of each.
LEMMA TakenJoin ==
  ASSUME NEW D, NEW E, NEW m
  PROVE  Taken(D \cup E, m) = Taken(D, m) \cup Taken(E, m)
BY DEF Taken

\* Two pairs of a stanza stand for two pairs of each stanza.
LEMMA TwoTaken ==
  ASSUME NEW p \in Places, NEW q \in Places, p # q, NEW m \in Nat
  PROVE  IsFiniteSet(Taken({p, q}, m)) /\ Cardinality(Taken({p, q}, m)) = 2 * m
<1>1. Taken({p, q}, m) = Taken({p}, m) \cup Taken({q}, m)
  <2>1. {p, q} = {p} \cup {q}
    OBVIOUS
  <2> QED
    BY <2>1, TakenJoin
<1>2. Taken({p}, m) \cap Taken({q}, m) = {}
  BY TakenApart
<1>3. Cardinality({}) = 0
  BY FS_EmptySet
<1>4. /\ IsFiniteSet(Taken({p}, m)) /\ Cardinality(Taken({p}, m)) = m
      /\ IsFiniteSet(Taken({q}, m)) /\ Cardinality(Taken({q}, m)) = m
  BY OneTaken
<1>5. /\ IsFiniteSet(Taken({p}, m) \cup Taken({q}, m))
      /\ Cardinality(Taken({p}, m) \cup Taken({q}, m)) =
           Cardinality(Taken({p}, m)) + Cardinality(Taken({q}, m))
             - Cardinality(Taken({p}, m) \cap Taken({q}, m))
  BY <1>4, FS_Union
<1>6. Cardinality(Taken({p}, m) \cap Taken({q}, m)) = 0
  BY <1>2, <1>3, Zenon
<1>7. Cardinality(Taken({p}, m) \cup Taken({q}, m)) = m + m - 0
  BY <1>4, <1>5, <1>6, Zenon
<1>8. m + m - 0 = 2 * m
  OBVIOUS
<1> QED
  BY <1>1, <1>5, <1>7, <1>8, Zenon

\* The pairs among some that rhyme.
Rhyming(text, pairs) == {p \in pairs : RhymeOk(text[p[1]], text[p[2]])}

\* They can be counted part by part.
LEMMA RhymingApart ==
  ASSUME NEW text, NEW S, NEW T, IsFiniteSet(S), IsFiniteSet(T), S \cap T = {}
  PROVE  /\ IsFiniteSet(S \cup T)
         /\ Cardinality(S \cup T) = Cardinality(S) + Cardinality(T)
         /\ Cardinality(Rhyming(text, S \cup T)) =
              Cardinality(Rhyming(text, S)) + Cardinality(Rhyming(text, T))
<1>1. Cardinality({}) = 0
  BY FS_EmptySet
<1>2. /\ IsFiniteSet(Rhyming(text, S)) /\ Cardinality(Rhyming(text, S)) \in Nat
      /\ IsFiniteSet(Rhyming(text, T)) /\ Cardinality(Rhyming(text, T)) \in Nat
      /\ Cardinality(S) \in Nat /\ Cardinality(T) \in Nat
  <2>1. Rhyming(text, S) \in SUBSET S /\ Rhyming(text, T) \in SUBSET T
    BY DEF Rhyming
  <2> QED
    BY <2>1, FS_Subset, FS_CardinalityType
<1>3. Rhyming(text, S \cup T) = Rhyming(text, S) \cup Rhyming(text, T)
  BY DEF Rhyming
<1>4. Rhyming(text, S) \cap Rhyming(text, T) = {}
  BY DEF Rhyming
<1>5. /\ IsFiniteSet(S \cup T)
      /\ Cardinality(S \cup T) = Cardinality(S) + Cardinality(T) - Cardinality(S \cap T)
  BY FS_Union
<1>6. Cardinality(Rhyming(text, S) \cup Rhyming(text, T)) =
        Cardinality(Rhyming(text, S)) + Cardinality(Rhyming(text, T))
          - Cardinality(Rhyming(text, S) \cap Rhyming(text, T))
  BY <1>2, FS_Union
<1>7. Cardinality(S \cup T) = Cardinality(S) + Cardinality(T)
  <2> DEFINE a == Cardinality(S)
             b == Cardinality(T)
             c == Cardinality(S \cup T)
             d == Cardinality(S \cap T)
  <2>1. d = 0
    BY <1>1, Zenon
  <2>2. a \in Nat /\ b \in Nat /\ c = a + b - d
    BY <1>2, <1>5
  <2> HIDE DEF a, b, c, d
  <2>3. c = a + b
    BY <2>1, <2>2
  <2> QED
    BY <2>3 DEF a, b, c
<1>8. Cardinality(Rhyming(text, S \cup T)) =
        Cardinality(Rhyming(text, S)) + Cardinality(Rhyming(text, T))
  <2> DEFINE a == Cardinality(Rhyming(text, S))
             b == Cardinality(Rhyming(text, T))
  <2>1. a \in Nat /\ b \in Nat
    BY <1>2
  <2>2. Cardinality(Rhyming(text, S) \cup Rhyming(text, T)) = a + b - 0
    BY <1>1, <1>4, <1>6
  <2> HIDE DEF a, b
  <2>3. a + b - 0 = a + b
    BY <2>1
  <2> QED
    BY <1>3, <2>2, <2>3 DEF a, b
<1> QED
  BY <1>5, <1>7, <1>8

\* The pairs a scheme demands of a text, and what its accuracy counts.
LEMMA AccuracyIs ==
  ASSUME NEW text, Len(text) \in Nat, NEW scheme \in Range(Schemes)
  PROVE  LET pairs == Taken(Demands(scheme), Len(text) \div 4)
         IN  RhymeAccuracy(text, scheme) =
               IF pairs = {} THEN <<1, 1>>
               ELSE <<Cardinality(Rhyming(text, pairs)), Cardinality(pairs)>>
<1> DEFINE s == Letters[scheme]
<1>1. Len(s) = 4 /\ StanzaPairs(s) = Demands(scheme)
  BY DemandsAre, SchemesAre
<1> HIDE DEF s
<1>2. ExtractPairs(s, Len(text)) = Taken(Demands(scheme), Len(text) \div 4)
  BY <1>1 DEF ExtractPairs, Taken
<1> QED
  BY <1>2 DEF RhymeAccuracy, Rhyming, s

\* The lines of the text that rhyme are counted scheme by scheme, and the monorhyme
\* demands what the other three demand together.
LEMMA Shares ==
  ASSUME NEW text, Len(text) \in Nat, NEW m, m = Len(text) \div 4, m # 0
  PROVE  \E a, b, c \in Nat :
           /\ RhymeAccuracy(text, "ABAB") = <<a, 2 * m>>
           /\ RhymeAccuracy(text, "AABB") = <<b, 2 * m>>
           /\ RhymeAccuracy(text, "ABBA") = <<c, 2 * m>>
           /\ RhymeAccuracy(text, "AAAA") = <<a + b + c, 6 * m>>
<1> DEFINE x == Taken(Demands("ABAB"), m)
           y == Taken(Demands("AABB"), m)
           z == Taken(Demands("ABBA"), m)
           a == Cardinality(Rhyming(text, x))
           b == Cardinality(Rhyming(text, y))
           c == Cardinality(Rhyming(text, z))
<1>1. m \in Nat \ {0}
  OBVIOUS
<1>2. /\ Demands("ABAB") = {<<1, 3>>, <<2, 4>>}
      /\ Demands("AABB") = {<<1, 2>>, <<3, 4>>}
      /\ Demands("ABBA") = {<<1, 4>>, <<2, 3>>}
      /\ Demands("AAAA") = (Demands("ABAB") \cup Demands("AABB")) \cup Demands("ABBA")
  BY DEF Demands
<1>3. /\ IsFiniteSet(x) /\ Cardinality(x) = 2 * m
      /\ IsFiniteSet(y) /\ Cardinality(y) = 2 * m
      /\ IsFiniteSet(z) /\ Cardinality(z) = 2 * m
  <2>1. <<1, 3>> \in Places /\ <<2, 4>> \in Places /\ <<1, 3>> # <<2, 4>>
    BY DEF Places
  <2>2. <<1, 2>> \in Places /\ <<3, 4>> \in Places /\ <<1, 2>> # <<3, 4>>
    BY DEF Places
  <2>3. <<1, 4>> \in Places /\ <<2, 3>> \in Places /\ <<1, 4>> # <<2, 3>>
    BY DEF Places
  <2>4. IsFiniteSet(x) /\ Cardinality(x) = 2 * m
    BY <1>1, <1>2, <2>1, TwoTaken
  <2>5. IsFiniteSet(y) /\ Cardinality(y) = 2 * m
    BY <1>1, <1>2, <2>2, TwoTaken
  <2>6. IsFiniteSet(z) /\ Cardinality(z) = 2 * m
    BY <1>1, <1>2, <2>3, TwoTaken
  <2> QED
    BY <2>4, <2>5, <2>6
<1>4. /\ x \cap y = {} /\ (x \cup y) \cap z = {}
      /\ Taken(Demands("AAAA"), m) = (x \cup y) \cup z
  <2>1. /\ Demands("ABAB") \in SUBSET Places /\ Demands("AABB") \in SUBSET Places
        /\ Demands("ABBA") \in SUBSET Places
        /\ Demands("ABAB") \cup Demands("AABB") \in SUBSET Places
    BY <1>2 DEF Places
  <2>2. /\ Demands("ABAB") \cap Demands("AABB") = {}
        /\ (Demands("ABAB") \cup Demands("AABB")) \cap Demands("ABBA") = {}
    BY <1>2
  <2>3. Taken(Demands("ABAB") \cup Demands("AABB"), m) = x \cup y
    BY TakenJoin
  <2>4. Taken(Demands("AAAA"), m) = (x \cup y) \cup z
    BY <1>2, <2>3, TakenJoin
  <2>5. x \cap y = {}
    BY <1>1, <2>1, <2>2, TakenApart
  <2>6. (x \cup y) \cap z = {}
    BY <1>1, <2>1, <2>2, <2>3, TakenApart
  <2> QED
    BY <2>4, <2>5, <2>6
<1> HIDE DEF x, y, z
<1>5. /\ IsFiniteSet(x \cup y)
      /\ Cardinality(x \cup y) = Cardinality(x) + Cardinality(y)
      /\ Cardinality(Rhyming(text, x \cup y)) =
           Cardinality(Rhyming(text, x)) + Cardinality(Rhyming(text, y))
  <2>1. IsFiniteSet(x) /\ IsFiniteSet(y) /\ x \cap y = {}
    BY <1>3, <1>4
  <2> QED
    BY <2>1, RhymingApart
<1> DEFINE w == x \cup y
<1>6. IsFiniteSet(w) /\ w \cap z = {}
  BY <1>4, <1>5
<1> HIDE DEF w
<1>7. /\ Cardinality(w \cup z) = Cardinality(w) + Cardinality(z)
      /\ Cardinality(Rhyming(text, w \cup z)) =
           Cardinality(Rhyming(text, w)) + Cardinality(Rhyming(text, z))
  BY <1>3, <1>6, RhymingApart
<1>8. /\ Cardinality((x \cup y) \cup z) = 2 * m + 2 * m + 2 * m
      /\ Cardinality(Rhyming(text, (x \cup y) \cup z)) = a + b + c
  BY <1>3, <1>5, <1>7, Zenon DEF w
<1>9. /\ a \in Nat /\ b \in Nat /\ c \in Nat
  <2>1. /\ Rhyming(text, x) \in SUBSET x /\ Rhyming(text, y) \in SUBSET y
        /\ Rhyming(text, z) \in SUBSET z
    BY DEF Rhyming
  <2>2. /\ IsFiniteSet(Rhyming(text, x)) /\ IsFiniteSet(Rhyming(text, y))
        /\ IsFiniteSet(Rhyming(text, z))
    BY <1>3, <2>1, FS_Subset
  <2> QED
    BY <2>2, FS_CardinalityType
<1>10. x # {} /\ y # {} /\ z # {}
  BY <1>1, <1>3, FS_EmptySet
<1>11. /\ RhymeAccuracy(text, "ABAB") = <<a, 2 * m>>
      /\ RhymeAccuracy(text, "AABB") = <<b, 2 * m>>
      /\ RhymeAccuracy(text, "ABBA") = <<c, 2 * m>>
      /\ RhymeAccuracy(text, "AAAA") = <<a + b + c, 6 * m>>
  <2>1. /\ "ABAB" \in Range(Schemes) /\ "AABB" \in Range(Schemes)
        /\ "ABBA" \in Range(Schemes) /\ "AAAA" \in Range(Schemes)
    BY SchemesAre
  <2>2. RhymeAccuracy(text, "ABAB") = <<a, 2 * m>>
    BY <1>3, <1>10, <2>1, AccuracyIs DEF x
  <2>3. RhymeAccuracy(text, "AABB") = <<b, 2 * m>>
    BY <1>3, <1>10, <2>1, AccuracyIs DEF y
  <2>4. RhymeAccuracy(text, "ABBA") = <<c, 2 * m>>
    BY <1>3, <1>10, <2>1, AccuracyIs DEF z
  <2>5. RhymeAccuracy(text, "AAAA") = <<a + b + c, 2 * m + 2 * m + 2 * m>>
    BY <1>4, <1>8, <1>10, <2>1, AccuracyIs
  <2>6. 2 * m + 2 * m + 2 * m = 6 * m
    BY <1>1
  <2> QED
    BY <2>2, <2>3, <2>4, <2>5, <2>6
<1> HIDE DEF a, b, c
<1> QED
  BY <1>9, <1>11

\* Fractions of the same positive denominator are compared by what is above it.
LEMMA SameBelow ==
  ASSUME NEW x \in Int, NEW y \in Int, NEW d \in Nat \ {0}
  PROVE  x * d > y * d <=> x > y
<1>1. CASE x > y
  <2>1. (x - y) * d > 0
    BY <1>1
  <2>2. (x - y) * d = x * d - y * d
    OBVIOUS
  <2> QED
    BY <1>1, <2>1, <2>2
<1>2. CASE ~ (x > y)
  <2>1. (y - x) * d >= 0
    BY <1>2
  <2>2. (y - x) * d = y * d - x * d
    OBVIOUS
  <2> QED
    BY <1>2, <2>1, <2>2
<1> QED
  BY <1>1, <1>2

\* An accuracy on a scale: once or three times both of its parts.
OnScale(accuracy, score, below) ==
  \E n \in Nat, d \in Nat, k \in {1, 3} :
    accuracy = <<n, d>> /\ score = k * n /\ below = k * d

\* Accuracies are compared, with each other and with a threshold, on one scale.
LEMMA ScaleCompares ==
  ASSUME NEW below \in Nat \ {0}, NEW percent \in Nat,
         NEW accuracy, NEW score, OnScale(accuracy, score, below),
         NEW other, NEW score2, OnScale(other, score2, below)
  PROVE  /\ Higher(accuracy, other) <=> score > score2
         /\ Reaches(accuracy, percent) <=> 100 * score >= percent * below
         /\ score \in Nat
<1>1. PICK n \in Nat, d \in Nat, k \in {1, 3} :
        accuracy = <<n, d>> /\ score = k * n /\ below = k * d
  BY DEF OnScale
<1>2. PICK n2 \in Nat, d2 \in Nat, k2 \in {1, 3} :
        other = <<n2, d2>> /\ score2 = k2 * n2 /\ below = k2 * d2
  BY DEF OnScale
<1>3. d \in Nat \ {0} /\ d2 \in Nat \ {0}
  BY <1>1, <1>2
<1>4. n * d2 > n2 * d <=> score > score2
  <2>1. CASE k = k2
    <3>1. d = d2
      BY <1>1, <1>2, <2>1
    <3>2. n * d2 > n2 * d2 <=> n > n2
      BY <1>3, SameBelow
    <3> QED
      BY <1>1, <1>2, <2>1, <3>1, <3>2
  <2>2. CASE k = 1 /\ k2 = 3
    <3>1. d = 3 * d2 /\ score = n /\ score2 = 3 * n2
      BY <1>1, <1>2, <2>2
    <3>2. n2 * (3 * d2) = (3 * n2) * d2
      OBVIOUS
    <3>3. n * d2 > (3 * n2) * d2 <=> n > 3 * n2
      BY <1>3, SameBelow
    <3> QED
      BY <3>1, <3>2, <3>3
  <2>3. CASE k = 3 /\ k2 = 1
    <3>1. d2 = 3 * d /\ score = 3 * n /\ score2 = n2
      BY <1>1, <1>2, <2>3
    <3>2. n * (3 * d) = (3 * n) * d
      OBVIOUS
    <3>3. (3 * n) * d > n2 * d <=> 3 * n > n2
      BY <1>3, SameBelow
    <3> QED
      BY <3>1, <3>2, <3>3
  <2> QED
    BY <2>1, <2>2, <2>3
<1>5. 100 * n >= percent * d <=> 100 * score >= percent * below
  <2>1. CASE k = 1
    BY <1>1, <2>1
  <2>2. CASE k = 3
    <3>1. score = 3 * n /\ below = 3 * d
      BY <1>1, <2>2
    <3>2. percent * (3 * d) = 3 * (percent * d) /\ percent * d \in Nat
      OBVIOUS
    <3> QED
      BY <3>1, <3>2
  <2> QED
    BY <2>1, <2>2
<1>6. score \in Nat
  BY <1>1
<1> QED
  BY <1>1, <1>2, <1>4, <1>5, <1>6 DEF Higher, Reaches

\* On one scale the score of the monorhyme is the mean of those of the other schemes.
Scored(text, score, below) ==
  /\ below \in Nat \ {0}
  /\ \A s \in Range(Schemes) : OnScale(RhymeAccuracy(text, s), score[s], below)
  /\ 3 * score["AAAA"] = score["ABAB"] + score["AABB"] + score["ABBA"]

\* There is such a scale for every text.
LEMMA Scores ==
  ASSUME NEW text, Len(text) \in Nat
  PROVE  \E score, below : Scored(text, score, below)
<1> DEFINE m == Len(text) \div 4
<1>1. m \in Nat
  OBVIOUS
<1>2. Range(Schemes) = {"AAAA", "ABAB", "AABB", "ABBA"}
  BY SchemesAre
<1>3. CASE m = 0
  <2> DEFINE score == [s \in Range(Schemes) |-> 1]
  <2>1. ASSUME NEW s \in Range(Schemes) PROVE OnScale(RhymeAccuracy(text, s), score[s], 1)
    <3>1. Taken(Demands(s), Len(text) \div 4) = {}
      BY <1>3 DEF Taken
    <3>2. RhymeAccuracy(text, s) = <<1, 1>>
      BY <3>1, AccuracyIs
    <3>3. score[s] = 1 * 1 /\ 1 = 1 * 1 /\ 1 \in Nat /\ 1 \in {1, 3}
      OBVIOUS
    <3> QED
      BY <3>2, <3>3 DEF OnScale
  <2>2. Scored(text, score, 1)
    BY <1>2, <2>1 DEF Scored
  <2> QED
    BY <2>2
<1>4. CASE m # 0
  <2>1. PICK a, b, c \in Nat :
          /\ RhymeAccuracy(text, "ABAB") = <<a, 2 * m>>
          /\ RhymeAccuracy(text, "AABB") = <<b, 2 * m>>
          /\ RhymeAccuracy(text, "ABBA") = <<c, 2 * m>>
          /\ RhymeAccuracy(text, "AAAA") = <<a + b + c, 6 * m>>
    BY <1>1, <1>4, Shares
  <2> DEFINE score == [s \in Range(Schemes) |->
                         IF s = "AAAA" THEN a + b + c
                         ELSE IF s = "ABAB" THEN 3 * a
                         ELSE IF s = "AABB" THEN 3 * b ELSE 3 * c]
  <2>2. /\ score["AAAA"] = a + b + c /\ score["ABAB"] = 3 * a
        /\ score["AABB"] = 3 * b /\ score["ABBA"] = 3 * c
    BY <1>2
  <2> HIDE DEF score, m
  <2>3. /\ 6 * m = 1 * (6 * m) /\ 6 * m = 3 * (2 * m) /\ a + b + c = 1 * (a + b + c)
        /\ 2 * m \in Nat /\ 6 * m \in Nat \ {0} /\ a + b + c \in Nat
    BY <1>1, <1>4
  <2>4. OnScale(RhymeAccuracy(text, "AAAA"), score["AAAA"], 6 * m)
    BY <2>1, <2>2, <2>3 DEF OnScale
  <2>5. OnScale(RhymeAccuracy(text, "ABAB"), score["ABAB"], 6 * m)
    BY <2>1, <2>2, <2>3 DEF OnScale
  <2>6. OnScale(RhymeAccuracy(text, "AABB"), score["AABB"], 6 * m)
    BY <2>1, <2>2, <2>3 DEF OnScale
  <2>7. OnScale(RhymeAccuracy(text, "ABBA"), score["ABBA"], 6 * m)
    BY <2>1, <2>2, <2>3 DEF OnScale
  <2>8. Scored(text, score, 6 * m)
    BY <1>2, <2>2, <2>3, <2>4, <2>5, <2>6, <2>7 DEF Scored
  <2> QED
    BY <2>8
<1> QED
  BY <1>3, <1>4

\* What the detector of schemes makes of a text: none if none reaches the threshold,
\* or one that does, that no other one that does is better than, and that is better
\* than those before it.
LEMMA SchemeChosen ==
  ASSUME NEW text, Len(text) \in Nat
  PROVE  LET Fits(i) == Reaches(RhymeAccuracy(text, Schemes[i]), RhymeMinPercent)
         IN  \/ DetectRhyme(text) = None /\ \A i \in 1 .. 4 : ~ Fits(i)
             \/ \E i \in 1 .. 4 :
                  /\ DetectRhyme(text) =
                       [scheme |-> Schemes[i], accuracy |-> RhymeAccuracy(text, Schemes[i])]
                  /\ Fits(i)
                  /\ \A j \in 1 .. 4 : Fits(j) =>
                       /\ ~ Higher(RhymeAccuracy(text, Schemes[j]), RhymeAccuracy(text, Schemes[i]))
                       /\ j < i =>
                            Higher(RhymeAccuracy(text, Schemes[i]), RhymeAccuracy(text, Schemes[j]))
<1> DEFINE acc(i) == RhymeAccuracy(text, Schemes[i])
           tried == [i \in DOMAIN Schemes |-> [scheme |-> Schemes[i], accuracy |-> acc(i)]]
           eligible == {i \in DOMAIN tried : Reaches(tried[i].accuracy, RhymeMinPercent)}
           beats == [i \in DOMAIN tried |->
                       [j \in DOMAIN tried |-> BetterScheme(tried[i].accuracy, tried[j])]]
           best == FirstBest(4, eligible, beats)
<1>1. DOMAIN Schemes = 1 .. 4 /\ DOMAIN tried = 1 .. 4 /\ Len(tried) = 4
  BY SchemesAre
<1>2. \A i \in 1 .. 4 : tried[i] = [scheme |-> Schemes[i], accuracy |-> acc(i)]
  BY <1>1
<1>3. DetectRhyme(text) = IF best = 0 THEN None ELSE tried[best]
  BY <1>1 DEF DetectRhyme, Winner
<1>4. \A i \in 1 .. 4 : i \in eligible <=> Reaches(acc(i), RhymeMinPercent)
  BY <1>1
<1>5. \A i, j \in 1 .. 4 : beats[i][j] <=> Higher(acc(i), acc(j))
  BY <1>1 DEF BetterScheme
<1>6. PICK score, below : Scored(text, score, below)
  BY Scores
<1>7. \A i, j \in 1 .. 4 : Higher(acc(i), acc(j)) <=> score[Schemes[i]] > score[Schemes[j]]
  <2>1. \A s \in Range(Schemes) : OnScale(RhymeAccuracy(text, s), score[s], below)
    BY <1>6 DEF Scored
  <2>2. \A i \in 1 .. 4 : Schemes[i] \in Range(Schemes)
    BY SchemesAre DEF Range
  <2>3. below \in Nat \ {0} /\ RhymeMinPercent \in Nat
    BY <1>6, DetectionAssumption DEF Scored
  <2> QED
    BY <2>1, <2>2, <2>3, ScaleCompares
<1>8. ASSUME NEW i \in 1 .. 4 PROVE score[Schemes[i]] \in Nat
  <2>1. Schemes[i] \in Range(Schemes)
    BY SchemesAre DEF Range
  <2>2. OnScale(RhymeAccuracy(text, Schemes[i]), score[Schemes[i]], below)
    BY <1>6, <2>1 DEF Scored
  <2> QED
    BY <2>2 DEF OnScale
<1> HIDE DEF tried, eligible, beats, best, acc
<1>9. /\ \A i, j \in 1 .. 4 : beats[i][j] => ~ beats[j][i]
      /\ \A i, j, n \in 1 .. 4 : beats[i][j] /\ ~ beats[n][j] => beats[i][n]
  <2> DEFINE v(i) == score[Schemes[i]]
  <2>1. \A i, j \in 1 .. 4 : beats[i][j] <=> v(i) > v(j)
    BY <1>5, <1>7
  <2>2. \A i \in 1 .. 4 : v(i) \in Nat
    BY <1>8
  <2> HIDE DEF v
  <2> QED
    BY <2>1, <2>2
<1>10. /\ best \in 0 .. 4
       /\ best # 0 => best \in eligible
       /\ best = 0 => \A i \in 1 .. 4 : i \notin eligible
  BY FirstBestIsEligible DEF best
<1>11. best # 0 => \A i \in (1 .. 4) \cap eligible :
                     ~ beats[i][best] /\ (i < best => beats[best][i])
  BY <1>9, FirstBestWins DEF best
<1>12. CASE best = 0
  <2>1. DetectRhyme(text) = None /\ \A i \in 1 .. 4 : ~ Reaches(acc(i), RhymeMinPercent)
    BY <1>3, <1>4, <1>10, <1>12
  <2> QED
    BY <2>1 DEF acc
<1>13. CASE best # 0
  <2>1. /\ best \in 1 .. 4 /\ DetectRhyme(text) = [scheme |-> Schemes[best], accuracy |-> acc(best)]
        /\ Reaches(acc(best), RhymeMinPercent)
    BY <1>2, <1>3, <1>4, <1>10, <1>13
  <2>2. \A j \in 1 .. 4 : Reaches(acc(j), RhymeMinPercent) =>
          ~ Higher(acc(j), acc(best)) /\ (j < best => Higher(acc(best), acc(j)))
    BY <1>4, <1>5, <1>11, <1>13, <2>1
  <2> QED
    BY <2>1, <2>2 DEF acc
<1> QED
  BY <1>12, <1>13

\* The strict scheme is chosen exactly if no scheme is better than another.
LEMMA MonorhymeChosen ==
  ASSUME NEW text, Len(text) \in Nat, DetectRhyme(text) # None
  PROVE  DetectRhyme(text).scheme = "AAAA" <=>
           \A s, t \in Range(Schemes) : ~ Higher(RhymeAccuracy(text, s), RhymeAccuracy(text, t))
<1> DEFINE acc(i) == RhymeAccuracy(text, Schemes[i])
           Fits(i) == Reaches(acc(i), RhymeMinPercent)
<1>1. PICK i \in 1 .. 4 :
        /\ DetectRhyme(text) = [scheme |-> Schemes[i], accuracy |-> acc(i)]
        /\ Fits(i)
        /\ \A j \in 1 .. 4 : Fits(j) =>
             ~ Higher(acc(j), acc(i)) /\ (j < i => Higher(acc(i), acc(j)))
  BY SchemeChosen
<1>2. PICK score, below : Scored(text, score, below)
  BY Scores
<1> DEFINE v(j) == score[Schemes[j]]
           limit == RhymeMinPercent * below
<1>3. /\ Schemes[1] = "AAAA" /\ Schemes[2] = "ABAB" /\ Schemes[3] = "AABB" /\ Schemes[4] = "ABBA"
      /\ Range(Schemes) = {"AAAA", "ABAB", "AABB", "ABBA"}
  BY SchemesAre
<1>4. ASSUME NEW j \in 1 .. 4 PROVE OnScale(acc(j), v(j), below) /\ v(j) \in Nat
  <2>1. Schemes[j] \in Range(Schemes)
    BY <1>3
  <2>2. OnScale(acc(j), v(j), below)
    BY <1>2, <2>1 DEF Scored
  <2> HIDE DEF acc, v
  <2>3. v(j) \in Nat
    BY <2>2 DEF OnScale
  <2> QED
    BY <2>2, <2>3
<1>5. below \in Nat \ {0} /\ RhymeMinPercent \in Nat /\ limit \in Nat
  BY <1>2, DetectionAssumption DEF Scored
<1> HIDE DEF acc, v, limit
<1>6. ASSUME NEW j \in 1 .. 4, NEW k \in 1 .. 4
      PROVE  /\ Higher(acc(j), acc(k)) <=> v(j) > v(k)
             /\ Fits(j) <=> 100 * v(j) >= limit
  BY <1>4, <1>5, ScaleCompares DEF limit
<1> HIDE DEF Fits
<1>7. 3 * v(1) = v(2) + v(3) + v(4)
  BY <1>2, <1>3 DEF Scored, v
<1>8. DetectRhyme(text).scheme = "AAAA" <=> i = 1
  BY <1>1, <1>3
<1>9. (\A s, t \in Range(Schemes) : ~ Higher(RhymeAccuracy(text, s), RhymeAccuracy(text, t)))
        <=> \A j, k \in 1 .. 4 : ~ Higher(acc(j), acc(k))
  <2>1. \A j \in 1 .. 4 : Schemes[j] \in Range(Schemes)
    BY <1>3
  <2>2. \A s \in Range(Schemes) : \E j \in 1 .. 4 : s = Schemes[j]
    BY <1>3
  <2> QED
    BY <2>1, <2>2 DEF acc
<1>10. ASSUME i = 1, NEW j \in 1 .. 4 PROVE v(j) = v(1)
  <2>1. ASSUME NEW k \in 1 .. 4 PROVE v(k) <= v(1)
    <3>1. CASE Fits(k)
      <4>1. ~ Higher(acc(k), acc(1))
        BY <1>1, <1>10, <3>1
      <4> QED
        BY <1>4, <1>6, <4>1
    <3>2. CASE ~ Fits(k)
      <4>1. ~ (100 * v(k) >= limit) /\ 100 * v(1) >= limit
        BY <1>1, <1>6, <1>10, <3>2
      <4> QED
        BY <1>4, <1>5, <4>1
    <3> QED
      BY <3>1, <3>2
  <2>2. v(2) <= v(1) /\ v(3) <= v(1) /\ v(4) <= v(1)
    BY <2>1
  <2>3. v(1) \in Nat /\ v(2) \in Nat /\ v(3) \in Nat /\ v(4) \in Nat
    BY <1>4
  <2>4. v(2) = v(1) /\ v(3) = v(1) /\ v(4) = v(1)
    BY <1>7, <2>2, <2>3
  <2>5. j = 1 \/ j = 2 \/ j = 3 \/ j = 4
    OBVIOUS
  <2> QED
    BY <2>4, <2>5
<1>11. ASSUME \A j, k \in 1 .. 4 : ~ Higher(acc(j), acc(k)) PROVE i = 1
  <2>1. v(1) = v(i)
    <3>1. ~ (v(1) > v(i)) /\ ~ (v(i) > v(1))
      BY <1>6, <1>11
    <3> QED
      BY <1>4, <3>1
  <2>2. Fits(1)
    BY <1>1, <1>6, <2>1
  <2>3. ~ (1 < i)
    BY <1>1, <1>11, <2>2
  <2> QED
    BY <2>3
<1>12. ASSUME i = 1, NEW j \in 1 .. 4, NEW k \in 1 .. 4 PROVE ~ Higher(acc(j), acc(k))
  BY <1>4, <1>6, <1>10, <1>12
<1> QED
  BY <1>8, <1>9, <1>11, <1>12

\* A poem is found to be monorhyme exactly when no scheme says more of it than another,
\* for every validator of rhymes, every threshold and every length of poem.
THEOREM MonorhymeFound == Spec => []MonorhymeIffSchemesAgree
<1>1. ASSUME DetectInv PROVE MonorhymeIffSchemesAgree
  <2> SUFFICES ASSUME fullRhyme # None
               PROVE  LET accuracy == [scheme \in Range(Schemes) |-> RhymeAccuracy(LinesOf(poem), scheme)]
                      IN  fullRhyme.scheme = "AAAA" <=>
                            \A s1, s2 \in Range(Schemes) : ~ Higher(accuracy[s1], accuracy[s2])
    BY DEF MonorhymeIffSchemesAgree
  <2>1. fullRhyme = DetectRhyme(LinesOf(poem)) /\ poem \in Poems
    BY <1>1 DEF DetectInv
  <2>2. Len(LinesOf(poem)) \in Nat
    <3>1. LinesOf(poem) \in Seq(Lines)
      BY <2>1, PoemsHaveLines
    <3> QED
      BY <3>1
  <2> QED
    BY <2>1, <2>2, MonorhymeChosen
<1> QED
  BY <1>1, DetectionInvariant, PTL

-----------------------------------------------------------------------------
(***************************************************************************)
(* What a stanza is shown with                                             *)
(***************************************************************************)

\* A scheme that is detected is one of the four.
LEMMA SchemeIsKnown ==
  ASSUME NEW text, Len(text) \in Nat, DetectRhyme(text) # None
  PROVE  /\ DetectRhyme(text).scheme \in Range(Schemes)
         /\ Reaches(RhymeAccuracy(text, DetectRhyme(text).scheme), RhymeMinPercent)
<1>1. PICK i \in 1 .. 4 :
        /\ DetectRhyme(text) =
             [scheme |-> Schemes[i], accuracy |-> RhymeAccuracy(text, Schemes[i])]
        /\ Reaches(RhymeAccuracy(text, Schemes[i]), RhymeMinPercent)
  BY SchemeChosen
<1>2. Schemes[i] \in Range(Schemes)
  BY SchemesAre DEF Range
<1> QED
  BY <1>1, <1>2

\* If none is detected no scheme reaches the threshold.
LEMMA NoSchemeFits ==
  ASSUME NEW text, Len(text) \in Nat, DetectRhyme(text) = None,
         NEW s \in Range(Schemes)
  PROVE  ~ Reaches(RhymeAccuracy(text, s), RhymeMinPercent)
<1>1. PICK j \in 1 .. 4 : s = Schemes[j]
  BY SchemesAre
<1>2. ASSUME NEW i \in 1 .. 4
      PROVE  DetectRhyme(text) #
               [scheme |-> Schemes[i], accuracy |-> RhymeAccuracy(text, Schemes[i])]
  <2>1. Schemes[i] \in Range(Schemes)
    BY SchemesAre DEF Range
  <2>2. PICK score, below : Scored(text, score, below)
    BY Scores
  <2>3. OnScale(RhymeAccuracy(text, Schemes[i]), score[Schemes[i]], below)
    BY <2>1, <2>2 DEF Scored
  <2>4. RhymeAccuracy(text, Schemes[i]) \in Nat \X Nat
    BY <2>3 DEF OnScale
  <2> QED
    BY <2>1, <2>4, NoneAssumption
<1>3. \A i \in 1 .. 4 : ~ Reaches(RhymeAccuracy(text, Schemes[i]), RhymeMinPercent)
  BY <1>2, SchemeChosen
<1> QED
  BY <1>1, <1>3

\* Every scheme holds of a text shorter than a stanza.
LEMMA ShortTextFits ==
  ASSUME NEW text, Len(text) \in Nat, Len(text) < 4, NEW s \in Range(Schemes)
  PROVE  Reaches(RhymeAccuracy(text, s), RhymeMinPercent)
<1>1. Len(text) \div 4 = 0
  OBVIOUS
<1>2. Taken(Demands(s), Len(text) \div 4) = {}
  BY <1>1 DEF Taken
<1>3. RhymeAccuracy(text, s) = <<1, 1>>
  BY <1>2, AccuracyIs
<1> QED
  BY <1>3, DetectionAssumption DEF Reaches

\* The scheme a stanza is shown with, if it is not one that fits, is shown because
\* none does.
LEMMA RhymeJustified ==
  ASSUME NEW text, Len(text) \in Nat, fullRhyme = DetectRhyme(text) \/ fullRhyme = None,
         NEW stanza, Len(stanza) \in Nat, StanzaRhyme(stanza) # None,
         ~ Reaches(RhymeAccuracy(stanza, StanzaRhyme(stanza).scheme), RhymeMinPercent),
         NEW s \in Range(Schemes)
  PROVE  ~ Reaches(RhymeAccuracy(stanza, s), RhymeMinPercent)
<1> DEFINE fits == /\ fullRhyme # None
                   /\ Reaches(RhymeAccuracy(stanza, fullRhyme.scheme), RhymeMinPercent)
<1>1. StanzaRhyme(stanza) =
        IF ~ fits /\ Detect(stanza).rhyme # None THEN Detect(stanza).rhyme ELSE fullRhyme
  BY DEF StanzaRhyme
<1>2. Detect(stanza).rhyme = IF Len(stanza) < 4 THEN None ELSE DetectRhyme(stanza)
  BY DetectionAssumption DEF Detect
<1>3. CASE Detect(stanza).rhyme # None
  <2>1. Detect(stanza).rhyme = DetectRhyme(stanza) /\ DetectRhyme(stanza) # None
    BY <1>2, <1>3
  <2>2. Reaches(RhymeAccuracy(stanza, DetectRhyme(stanza).scheme), RhymeMinPercent)
    BY <2>1, SchemeIsKnown
  <2> QED
    BY <1>1, <1>3, <2>1, <2>2
<1>4. CASE Detect(stanza).rhyme = None
  <2>1. StanzaRhyme(stanza) = fullRhyme /\ fullRhyme = DetectRhyme(text)
    BY <1>1, <1>4
  <2>2. fullRhyme.scheme \in Range(Schemes)
    BY <2>1, SchemeIsKnown
  <2>3. ~ (Len(stanza) < 4)
    BY <2>1, <2>2, ShortTextFits
  <2>4. DetectRhyme(stanza) = None
    BY <1>2, <1>4, <2>3
  <2> QED
    BY <2>4, NoSchemeFits
<1> QED
  BY <1>3, <1>4

\* A scheme that does not fit a stanza is shown there only if none does.
THEOREM SchemesJustified == Spec => []StanzaSchemeIsJustified
<1>1. ASSUME DetectInv PROVE StanzaSchemeIsJustified
  <2> SUFFICES ASSUME NEW i \in DOMAIN stanzas,
                      stanzas[i].rhyme # None,
                      ~ Reaches(RhymeAccuracy(stanzas[i].lines, stanzas[i].rhyme.scheme),
                                RhymeMinPercent),
                      NEW s \in Range(Schemes)
               PROVE  ~ Reaches(RhymeAccuracy(stanzas[i].lines, s), RhymeMinPercent)
    BY DEF StanzaSchemeIsJustified
  <2>1. stanzas[i] \in Results
    BY <1>1 DEF DetectInv
  <2>2. PICK stanza \in Seq(Lines) : stanzas[i] = StanzaResult(stanza)
    BY <2>1 DEF Results
  <2>3. stanzas[i].lines = stanza /\ stanzas[i].rhyme \in {None, StanzaRhyme(stanza)}
    BY <2>2 DEF StanzaResult
  <2>4. fullRhyme = DetectRhyme(LinesOf(poem)) \/ fullRhyme = None
    BY <1>1 DEF DetectInv
  <2>5. Len(LinesOf(poem)) \in Nat /\ Len(stanza) \in Nat
    <3>1. LinesOf(poem) \in Seq(Lines)
      BY <1>1, PoemsHaveLines DEF DetectInv
    <3> QED
      BY <3>1
  <2> QED
    BY <2>3, <2>4, <2>5, RhymeJustified
<1> QED
  BY <1>1, DetectionInvariant, PTL

\* The readings a best guess is made of: each meter with 2 to 6 feet.
LEMMA GuessesAre ==
  LET specs == MeterSpecs(2, 6)
  IN  /\ DOMAIN specs = 1 .. 25 /\ Len(specs) = 25
      /\ \A i \in 1 .. 25 : specs[i].meter \in Range(Meters) /\ specs[i].feet \in 2 .. 6
      /\ \A meter \in Range(Meters), feet \in 2 .. 6 :
           \E i \in 1 .. 25 : specs[i].meter = meter /\ specs[i].feet = feet
<1> DEFINE specs == MeterSpecs(2, 6)
<1>1. Len(Meters) = 5 /\ DOMAIN Meters = 1 .. 5
  BY DEF Meters
<1>2. specs = [i \in 1 .. 25 |-> [meter |-> Meters[((i - 1) \div 5) + 1], feet |-> 2 + ((i - 1) % 5)]]
  BY <1>1 DEF MeterSpecs
<1> HIDE DEF specs
<1>3. DOMAIN specs = 1 .. 25 /\ Len(specs) = 25
  BY <1>2
<1>4. ASSUME NEW i \in 1 .. 25
      PROVE  specs[i].meter \in Range(Meters) /\ specs[i].feet \in 2 .. 6
  <2>1. ((i - 1) \div 5) + 1 \in 1 .. 5 /\ 2 + ((i - 1) % 5) \in 2 .. 6
    OBVIOUS
  <2>2. specs[i].meter = Meters[((i - 1) \div 5) + 1] /\ specs[i].feet = 2 + ((i - 1) % 5)
    BY <1>2
  <2> QED
    BY <1>1, <2>1, <2>2 DEF Range
<1>5. ASSUME NEW meter \in Range(Meters), NEW feet \in 2 .. 6
      PROVE  \E i \in 1 .. 25 : specs[i].meter = meter /\ specs[i].feet = feet
  <2>1. PICK k \in 1 .. 5 : meter = Meters[k]
    BY <1>1 DEF Range
  <2> DEFINE i == (k - 1) * 5 + feet - 1
  <2>2. i \in 1 .. 25 /\ (i - 1) \div 5 = k - 1 /\ (i - 1) % 5 = feet - 2
    OBVIOUS
  <2> HIDE DEF i
  <2>3. specs[i].meter = Meters[((i - 1) \div 5) + 1] /\ specs[i].feet = 2 + ((i - 1) % 5)
    BY <1>2, <2>2
  <2>4. specs[i].meter = meter /\ specs[i].feet = feet
    BY <2>1, <2>2, <2>3
  <2> QED
    BY <2>2, <2>4
<1> QED
  BY <1>3, <1>4, <1>5 DEF specs

\* A reading of some lines counts the lines that pass, and it is a reading.
LEMMA ReadingIs ==
  ASSUME NEW text \in Seq(Lines), NEW meter \in Range(Meters), NEW feet \in 2 .. 6,
         NEW spec, spec.meter = meter, spec.feet = feet
  PROVE  /\ Reading(text, spec) # None
         /\ (\E k \in DOMAIN text : Scan(text[k], meter, feet).ok) =>
              Reading(text, spec).accuracy[1] # 0
<1> DEFINE result == [i \in DOMAIN text |-> Scan(text[i], meter, feet)]
           passed == {i \in DOMAIN text : result[i].ok}
           accuracy == IF text = <<>> THEN <<0, 1>> ELSE <<Cardinality(passed), Len(text)>>
           counts == [i \in DOMAIN text |-> Cardinality(result[i].errors)]
           reading == [meter |-> meter, feet |-> feet, accuracy |-> accuracy,
                       errors |-> SumOf(counts)]
<1>1. Reading(text, spec) = reading
  BY DEF Reading
<1>2. Len(text) \in Nat /\ DOMAIN text = 1 .. Len(text) /\ \A i \in DOMAIN text : text[i] \in Lines
  OBVIOUS
<1>3. IsFiniteSet(passed) /\ Cardinality(passed) \in Nat
  <2>1. passed \in SUBSET (1 .. Len(text)) /\ IsFiniteSet(1 .. Len(text))
    BY <1>2, FS_Interval
  <2> QED
    BY <2>1, FS_Subset, FS_CardinalityType
<1>4. accuracy \in Nat \X Nat
  BY <1>2, <1>3
<1>5. SumOf(counts) \in Int
  <2>1. ASSUME NEW i \in DOMAIN text PROVE counts[i] \in Int
    <3>1. IsFiniteSet(Scan(text[i], meter, feet).errors)
      BY <1>2, TextAssumption
    <3> QED
      BY <3>1, FS_CardinalityType
  <2>2. counts \in Seq(Int)
    BY <1>2, <2>1
  <2> QED
    BY <2>2, SumIsInt
<1>6. (\E k \in DOMAIN text : Scan(text[k], meter, feet).ok) => accuracy[1] # 0
  <2> SUFFICES ASSUME NEW k \in DOMAIN text, Scan(text[k], meter, feet).ok
               PROVE  accuracy[1] # 0
    OBVIOUS
  <2>1. k \in passed /\ text # <<>>
    OBVIOUS
  <2>2. Cardinality(passed) # 0
    BY <1>3, <2>1, FS_EmptySet
  <2> QED
    BY <2>1, <2>2
<1>7. reading # None
  <2> HIDE DEF accuracy, counts
  <2>1. feet \in Nat
    OBVIOUS
  <2> QED
    BY <1>4, <1>5, <2>1, NoneAssumption
<1> QED
  BY <1>1, <1>6, <1>7

\* There is a best guess at the meter of lines of which one scans.
LEMMA GuessFound ==
  ASSUME NEW text \in Seq(Lines),
         NEW k \in DOMAIN text, NEW meter \in Range(Meters), NEW feet \in 2 .. 6,
         Scan(text[k], meter, feet).ok
  PROVE  BestGuessMeter(text) # None
<1> DEFINE readings == Readings(text, 2, 6)
           eligible == {i \in DOMAIN readings : readings[i].accuracy[1] # 0}
           beats == [i \in DOMAIN readings |->
                       [j \in DOMAIN readings |-> Higher(readings[i].accuracy, readings[j].accuracy)]]
           best == FirstBest(25, eligible, beats)
           specs == MeterSpecs(2, 6)
<1>1. /\ DOMAIN specs = 1 .. 25
      /\ \A i \in 1 .. 25 : specs[i].meter \in Range(Meters) /\ specs[i].feet \in 2 .. 6
  BY GuessesAre
<1>2. DOMAIN readings = 1 .. 25 /\ \A i \in 1 .. 25 : readings[i] = Reading(text, specs[i])
  BY <1>1 DEF Readings
<1>3. Len(readings) = 25
  BY <1>1 DEF Readings
<1>4. PICK m \in 1 .. 25 : specs[m].meter = meter /\ specs[m].feet = feet
  <2>1. \A me \in Range(Meters), fe \in 2 .. 6 :
          \E i \in 1 .. 25 : specs[i].meter = me /\ specs[i].feet = fe
    BY GuessesAre, ZenonT(30)
  <2> HIDE DEF specs
  <2>2. meter \in Range(Meters) /\ feet \in 2 .. 6
    OBVIOUS
  <2> QED
    BY <2>1, <2>2, ZenonT(30)
<1> HIDE DEF specs, readings
<1>5. m \in eligible
  <2>1. Reading(text, specs[m]).accuracy[1] # 0
    BY <1>4, ReadingIs
  <2> QED
    BY <1>2, <2>1
<1>6. BestGuessMeter(text) = IF best = 0 THEN None ELSE readings[best]
  BY <1>3 DEF BestGuessMeter, Winner, readings
<1> HIDE DEF eligible, beats
<1>7. best \in 0 .. 25 /\ (best = 0 => \A i \in 1 .. 25 : i \notin eligible)
  BY FirstBestIsEligible
<1> HIDE DEF best
<1>8. best \in 1 .. 25
  <2>1. best # 0
    BY <1>4, <1>5, <1>7
  <2> QED
    BY <1>7, <2>1
<1>9. readings[best] # None
  <2>1. readings[best] = Reading(text, specs[best])
    BY <1>2, <1>8
  <2>2. specs[best].meter \in Range(Meters) /\ specs[best].feet \in 2 .. 6
    BY <1>1, <1>8
  <2> QED
    BY <2>1, <2>2, ReadingIs
<1> QED
  BY <1>6, <1>8, <1>9

\* A stanza with a line that scans is never shown without a meter.
THEOREM ScanningGetsMeter == Spec => []ScanningStanzaGetsMeter
<1>1. ASSUME DetectInv PROVE ScanningStanzaGetsMeter
  <2> SUFFICES ASSUME "meter" \in want, NEW i \in DOMAIN stanzas,
                      NEW k \in DOMAIN stanzas[i].lines, NEW meter \in Range(Meters),
                      NEW feet \in 2 .. 6, Scan(stanzas[i].lines[k], meter, feet).ok
               PROVE  stanzas[i].meter # None
    BY DEF ScanningStanzaGetsMeter
  <2>1. stanzas[i] \in Results
    BY <1>1 DEF DetectInv
  <2>2. PICK stanza \in Seq(Lines) : stanzas[i] = StanzaResult(stanza)
    BY <2>1 DEF Results
  <2>3. stanzas[i].lines = stanza
    BY <2>2 DEF StanzaResult
  <2>4. BestGuessMeter(stanza) # None
    BY <2>3, GuessFound
  <2>5. StanzaMeter(stanza) # None
    BY <2>4 DEF StanzaMeter
  <2>6. stanzas[i].meter = StanzaMeter(stanza)
    BY <2>2, <2>5 DEF StanzaResult
  <2> QED
    BY <2>5, <2>6
<1> QED
  BY <1>1, DetectionInvariant, PTL

-----------------------------------------------------------------------------
(***************************************************************************)
(* The validators, on every line of every vocabulary                       *)
(***************************************************************************)

\* A line is made of words of the vocabularies.
CasesInv == line \in Seq(Word) /\ line \in Seq(Vocabulary \cup EndWords)

\* It is, from the first word on.
LEMMA LinesAreWords == CasesSpec => []CasesInv
<1>1. Vocabulary \subseteq Word /\ EndWords \subseteq Word
  BY VocabularyAssumption
<1>2. CasesInit => CasesInv
  BY DEF CasesInit, CasesInv
<1>3. ASSUME CasesInv, [CasesNext]_line PROVE CasesInv'
  <2>1. ASSUME NEW word \in Vocabulary, AddWord(word) PROVE CasesInv'
    BY <1>1, <1>3, <2>1 DEF CasesInv, AddWord
  <2>2. ASSUME NEW word \in EndWords, NEW other \in EndWords, Compare(word, other)
        PROVE  CasesInv'
    <3>1. word \in Word /\ other \in Word
      BY <1>1
    <3>2. line' = <<word, other>>
      BY <2>2 DEF Compare
    <3>3. line' \in Seq(Word)
      BY <3>1, <3>2
    <3>4. line' \in Seq(Vocabulary \cup EndWords)
      BY <3>2
    <3> QED
      BY <3>3, <3>4 DEF CasesInv
  <2> QED
    BY <1>3, <2>1, <2>2 DEF CasesNext, CasesInv
<1> QED
  BY <1>2, <1>3, PTL DEF CasesSpec

Marks == {"S", "u"}

Patterns(l) == [k \in DOMAIN l |-> WordPattern(l[k])]

\* A word has one mark for each syllable.
LEMMA WordPatternIs ==
  ASSUME NEW word \in Word
  PROVE  /\ WordPattern(word) \in Seq(Marks)
         /\ Len(WordPattern(word)) = word.syllables
         /\ word.syllables \in Nat
<1>1. word.syllables \in Nat
  BY DEF Word
<1> QED
  BY <1>1 DEF WordPattern, Marks

\* A line has the marks of its words.
LEMMA ActualPatternIs ==
  ASSUME NEW l \in Seq(Word)
  PROVE  /\ Patterns(l) \in Seq(Seq(Marks))
         /\ ActualPattern(l) = FlattenSeq(Patterns(l))
         /\ ActualPattern(l) \in Seq(Marks)
<1>1. Patterns(l) \in Seq(Seq(Marks))
  <2>1. DOMAIN l = 1 .. Len(l) /\ Len(l) \in Nat /\ \A k \in 1 .. Len(l) : l[k] \in Word
    OBVIOUS
  <2>2. \A k \in 1 .. Len(l) : WordPattern(l[k]) \in Seq(Marks)
    BY <2>1, WordPatternIs
  <2> QED
    BY <2>1, <2>2 DEF Patterns
<1>2. ActualPattern(l) = FlattenSeq(Patterns(l))
  BY DEF ActualPattern, Patterns
<1>3. FlattenSeq(Patterns(l)) \in Seq(Marks)
  <2>1. <<>> \in Seq(Marks)
    OBVIOUS
  <2> QED
    BY <1>1, <2>1, FlattenOneMore
<1> QED
  BY <1>1, <1>2, <1>3

\* So has what a meter asks for.
LEMMA ExpectedIs ==
  ASSUME NEW meter \in DOMAIN Foot, NEW feet \in Nat
  PROVE  Expected(meter, feet) \in Seq(Marks)
<1>1. \E n \in {2, 3} : Len(Foot[meter]) = n /\ \A i \in 1 .. n : Foot[meter][i] \in Marks
  BY DEF Foot, Marks
<1>2. PICK n \in {2, 3} : Len(Foot[meter]) = n /\ \A i \in 1 .. n : Foot[meter][i] \in Marks
  BY <1>1
<1>3. ASSUME NEW i \in 1 .. feet * n PROVE ((i - 1) % n) + 1 \in 1 .. n
  BY <1>2
<1>4. feet * n \in Nat
  BY <1>2
<1> QED
  BY <1>2, <1>3, <1>4 DEF Expected

\* Both validators find the same errors in a line: where one mark is expected and the
\* other is there.
LEMMA SameErrors ==
  ASSUME CasesInv, NEW meter \in DOMAIN Foot, NEW feet \in Nat
  PROVE  HardErrors(BspIssues(Bits(ActualPattern(line)), Bits(Expected(meter, feet)), Flags(line)))
           = RealErrors(line, meter, feet)
<1> DEFINE actual == ActualPattern(line)
           expected == Expected(meter, feet)
           flags == Flags(line)
           both == DOMAIN actual \cap DOMAIN expected
<1>1. actual \in Seq(Marks) /\ expected \in Seq(Marks)
  BY ActualPatternIs, ExpectedIs DEF CasesInv
<1>2. \A i \in both : actual[i] \in {"S", "u"} /\ expected[i] \in {"S", "u"}
  BY <1>1 DEF Marks
<1> HIDE DEF actual, expected, flags
<1>3. /\ DOMAIN Bits(actual) = DOMAIN actual /\ DOMAIN Bits(expected) = DOMAIN expected
      /\ \A i \in both : /\ Bits(actual)[i] = IF actual[i] = "S" THEN 1 ELSE 0
                         /\ Bits(expected)[i] = IF expected[i] = "S" THEN 1 ELSE 0
  BY DEF Bits
<1>4. ASSUME NEW i
      PROVE  i \in HardErrors(BspIssues(Bits(actual), Bits(expected), flags))
               <=> /\ i \in both
                   /\ actual[i] # expected[i]
                   /\ ~ (i \in DOMAIN flags /\ Tolerated(flags[i]))
  <2>1. i \in HardErrors(BspIssues(Bits(actual), Bits(expected), flags))
          <=> /\ i \in both
              /\ \/ Bits(expected)[i] = 1 /\ Bits(actual)[i] = 0
                 \/ Bits(expected)[i] = 0 /\ Bits(actual)[i] = 1
              /\ ~ (i \in DOMAIN flags /\ Tolerated(flags[i]))
    BY <1>3 DEF HardErrors, BspIssues, Tolerated
  <2>2. i \in both => (actual[i] # expected[i] <=>
                         \/ Bits(expected)[i] = 1 /\ Bits(actual)[i] = 0
                         \/ Bits(expected)[i] = 0 /\ Bits(actual)[i] = 1)
    BY <1>2, <1>3
  <2> QED
    BY <2>1, <2>2
<1>5. RealErrors(line, meter, feet) =
        {i \in both : actual[i] # expected[i] /\ ~ (i \in DOMAIN flags /\ Tolerated(flags[i]))}
  BY DEF RealErrors, Mismatches, actual, expected, flags
<1> HIDE DEF both
<1> QED
  BY <1>4, <1>5 DEF actual, expected, flags

\* The two metre validators name the same errors in every line of every vocabulary, and
\* but for the score pass the same lines.
THEOREM ValidatorsAlike == CasesSpec => []ValidatorsAgree
<1>1. ASSUME CasesInv PROVE ValidatorsAgree
  <2> SUFFICES ASSUME NEW meter \in DOMAIN Foot, NEW feet \in Feet, NEW scoreOk \in BOOLEAN
               PROVE  LET pattern == LineResult(line, meter, feet)
                          bsp     == BspLineResult(line, meter, feet, scoreOk)
                      IN  bsp.errors = pattern.errors /\ (bsp.ok <=> scoreOk /\ pattern.ok)
    BY DEF ValidatorsAgree
  <2>1. feet \in Nat
    BY FeetAssumption
  <2>2. HardErrors(BspIssues(Bits(ActualPattern(line)), Bits(Expected(meter, feet)), Flags(line)))
          = RealErrors(line, meter, feet)
    BY <1>1, <2>1, SameErrors
  <2> QED
    BY <2>2 DEF LineResult, BspLineResult
<1> QED
  BY <1>1, LinesAreWords, PTL

\* The same word with the stress the dictionary names replaced.
Restressed(word, stress) == [word EXCEPT !.dictionary = stress]

\* Only where a word was stressed or is now can its marks differ, twice at most.
LEMMA RestressedDiffers ==
  ASSUME NEW word \in Word, NEW stress \in Nat
  PROVE  /\ Restressed(word, stress) \in Word
         /\ Len(WordPattern(Restressed(word, stress))) = Len(WordPattern(word))
         /\ \A i \in 1 .. Len(WordPattern(word)) :
              WordPattern(Restressed(word, stress))[i] # WordPattern(word)[i] =>
                i \in {StressOf(word), StressOf(Restressed(word, stress))}
<1> DEFINE other == Restressed(word, stress)
<1>1. other \in Word /\ other.syllables = word.syllables /\ other.weak = word.weak
  BY DEF Restressed, Word
<1> HIDE DEF other
<1>2. Len(WordPattern(other)) = word.syllables /\ Len(WordPattern(word)) = word.syllables
  BY <1>1, WordPatternIs
<1>3. ASSUME NEW i \in 1 .. word.syllables,
             i # StressOf(word), i # StressOf(other)
      PROVE  WordPattern(other)[i] = WordPattern(word)[i]
  BY <1>1, <1>3 DEF WordPattern
<1> QED
  BY <1>1, <1>2, <1>3 DEF other

\* A set of two numbers has at most two members, and so has what is in it.
LEMMA AtMostTwo ==
  ASSUME NEW x, NEW y, NEW S \in SUBSET {x, y}
  PROVE  IsFiniteSet(S) /\ Cardinality(S) \in Nat /\ Cardinality(S) <= 2
<1>1. IsFiniteSet({x}) /\ Cardinality({x}) = 1
  BY FS_Singleton
<1>2. /\ IsFiniteSet({x} \cup {y})
      /\ Cardinality({x} \cup {y}) = IF y \in {x} THEN Cardinality({x}) ELSE Cardinality({x}) + 1
  BY <1>1, FS_AddElement
<1>3. {x} \cup {y} = {x, y}
  OBVIOUS
<1>4. IsFiniteSet({x, y}) /\ Cardinality({x, y}) <= 2 /\ Cardinality({x, y}) \in Nat
  BY <1>1, <1>2, <1>3
<1>5. IsFiniteSet(S) /\ Cardinality(S) <= Cardinality({x, y})
  BY <1>4, FS_Subset
<1>6. Cardinality(S) \in Nat
  BY <1>5, FS_CardinalityType
<1> QED
  BY <1>4, <1>5, <1>6

\* With another stress on one word a line differs from itself in two places at most,
\* both within the word.
LEMMA LineRestressed ==
  ASSUME NEW l \in Seq(Word), NEW k \in 1 .. Len(l), NEW stress \in Nat
  PROVE  LET other == [l EXCEPT ![k].dictionary = stress]
             start == Len(ActualPattern(SubSeq(l, 1, k - 1)))
             old   == ActualPattern(l)
             new   == ActualPattern(other)
         IN  /\ old \in Seq(Marks) /\ new \in Seq(Marks) /\ Len(new) = Len(old) /\ start \in Nat
             /\ \E x, y \in Int : \A i \in 1 .. Len(old) :
                  new[i] # old[i] =>
                    i \in {x, y} /\ i \in start + 1 .. start + l[k].syllables
<1> DEFINE word == l[k]
           w == Restressed(word, stress)
           other == [l EXCEPT ![k].dictionary = stress]
           s == Patterns(l)
           v == WordPattern(w)
           start == Len(FlattenSeq(SubSeq(s, 1, k - 1)))
           old == FlattenSeq(s)
           new == FlattenSeq([s EXCEPT ![k] = v])
<1>1. Len(l) \in Nat /\ DOMAIN l = 1 .. Len(l) /\ word \in Word /\ \A j \in 1 .. Len(l) : l[j] \in Word
  OBVIOUS
<1>2. /\ w \in Word /\ Len(v) = Len(WordPattern(word)) /\ v \in Seq(Marks)
      /\ Len(WordPattern(word)) = word.syllables /\ word.syllables \in Nat
      /\ \A i \in 1 .. word.syllables :
           v[i] # WordPattern(word)[i] => i \in {StressOf(word), StressOf(w)}
  <2>1. word \in Word
    BY <1>1
  <2> HIDE DEF word
  <2> QED
    BY <2>1, RestressedDiffers, WordPatternIs
<1>3. /\ other \in Seq(Word) /\ other = [l EXCEPT ![k] = w]
  BY <1>1, <1>2 DEF Restressed
<1>4. /\ s \in Seq(Seq(Marks)) /\ s = [j \in 1 .. Len(l) |-> WordPattern(l[j])]
      /\ Len(s) = Len(l) /\ s[k] = WordPattern(word)
  <2>1. s \in Seq(Seq(Marks))
    BY ActualPatternIs
  <2>2. s = [j \in 1 .. Len(l) |-> WordPattern(l[j])]
    BY <1>1 DEF Patterns
  <2>3. Len(s) = Len(l) /\ s[k] = WordPattern(word)
    BY <1>1, <2>2
  <2> HIDE DEF s, word
  <2> QED
    BY <2>1, <2>2, <2>3
<1>5. Patterns(other) = [s EXCEPT ![k] = v]
  BY <1>1, <1>3, <1>4 DEF Patterns
<1>6. ActualPattern(other) = new /\ ActualPattern(l) = old
  BY <1>3, <1>5, ActualPatternIs
<1>7. ActualPattern(SubSeq(l, 1, k - 1)) = FlattenSeq(SubSeq(s, 1, k - 1))
  <2>1. SubSeq(l, 1, k - 1) = [j \in 1 .. k - 1 |-> l[j]]
    BY <1>1
  <2>2. SubSeq(s, 1, k - 1) = [j \in 1 .. k - 1 |-> s[j]]
    BY <1>1, <1>4
  <2>3. Patterns(SubSeq(l, 1, k - 1)) = SubSeq(s, 1, k - 1)
    BY <1>1, <1>4, <2>1, <2>2 DEF Patterns
  <2> QED
    BY <2>3 DEF ActualPattern, Patterns
<1> HIDE DEF s, v, w, word, other
<1>8. /\ start \in Nat /\ new \in Seq(Marks) /\ old \in Seq(Marks) /\ Len(new) = Len(old)
      /\ \A i \in 1 .. Len(old) :
           \/ new[i] = old[i]
           \/ i - start \in 1 .. Len(v) /\ old[i] = s[k][i - start] /\ new[i] = v[i - start]
  <2>1. k \in 1 .. Len(s) /\ Len(v) = Len(s[k])
    BY <1>2, <1>4
  <2>2. s \in Seq(Seq(Marks)) /\ v \in Seq(Marks)
    BY <1>2, <1>4
  <2> QED
    <3> DEFINE t == [s EXCEPT ![k] = v]
    <3>1. ChangedAt(Marks, s, t, k)
      BY <2>1, <2>2, FlattenChanged
    <3>2. t[k] = v
      BY <2>1, <2>2
    <3> HIDE DEF t
    <3> QED
      BY <3>1, <3>2 DEF ChangedAt, t
<1> HIDE DEF old, new, start
<1>9. StressOf(word) \in Int /\ StressOf(w) \in Int
  <2>1. word.syllables \in Nat /\ w.syllables \in Nat
    BY <1>2, WordPatternIs
  <2>2. Resolve(word) \in Int /\ Resolve(w) \in Int
    BY <1>1, <1>2, <2>1, SMTT(30) DEF Resolve, GuessStress, Word, word
  <2> QED
    BY <2>1, <2>2 DEF StressOf
<1> DEFINE x == start + StressOf(word)
           y == start + StressOf(w)
<1>10. x \in Int /\ y \in Int
  BY <1>8, <1>9
<1>11. ASSUME NEW i \in 1 .. Len(old), new[i] # old[i]
       PROVE  i \in {x, y} /\ i \in start + 1 .. start + word.syllables
  <2>1. i \in Nat
    BY <1>8
  <2>2. i - start \in 1 .. word.syllables /\ v[i - start] # WordPattern(word)[i - start]
    BY <1>2, <1>4, <1>8, <1>11
  <2>3. i - start = StressOf(word) \/ i - start = StressOf(w)
    BY <1>2, <2>2
  <2>4. i = start + (i - start) /\ start \in Nat
    BY <1>8, <2>1
  <2>5. i = x \/ i = y
    BY <2>3, <2>4
  <2>6. i \in start + 1 .. start + word.syllables
    BY <1>2, <2>1, <2>2, <2>4
  <2> HIDE DEF x, y
  <2> QED
    BY <2>5, <2>6
<1> HIDE DEF x, y
<1>12. \E a, b \in Int : \A i \in 1 .. Len(old) :
         new[i] # old[i] => i \in {a, b} /\ i \in start + 1 .. start + word.syllables
  BY <1>10, <1>11
<1> QED
  BY <1>6, <1>7, <1>8, <1>12 DEF start, word, other

\* A line that scans exactly still passes with one word stressed wrongly, in every
\* vocabulary, if two mismatches are allowed: the two places are all that can differ,
\* and what lies beyond the last foot is as before.
THEOREM WrongStressForgiven ==
  ASSUME AllowedMismatches >= 2
  PROVE  CasesSpec => []OneWrongStressIsForgiven
<1>1. ASSUME CasesInv PROVE OneWrongStressIsForgiven
  <2> SUFFICES ASSUME NEW meter \in DOMAIN Foot, NEW feet \in Feet,
                      ScansExactly(meter, feet),
                      NEW k \in DOMAIN line, Span(k) \subseteq 1 .. Len(Expected(meter, feet)),
                      NEW stress \in 0 .. line[k].syllables
               PROVE  LineResult([line EXCEPT ![k].dictionary = stress], meter, feet).ok
    BY DEF OneWrongStressIsForgiven
  <2> DEFINE other == [line EXCEPT ![k].dictionary = stress]
             old == ActualPattern(line)
             new == ActualPattern(other)
             expected == Expected(meter, feet)
             start == Len(ActualPattern(SubSeq(line, 1, k - 1)))
             span == start + 1 .. start + line[k].syllables
  <2>1. line \in Seq(Word) /\ k \in 1 .. Len(line) /\ stress \in Nat
    <3>1. line \in Seq(Word)
      BY <1>1 DEF CasesInv
    <3>2. k \in 1 .. Len(line)
      BY <3>1
    <3>3. line[k].syllables \in Nat
      <4>1. line[k] \in Word
        BY <3>1, <3>2
      <4> QED
        BY <4>1, WordPatternIs
    <3> QED
      BY <3>1, <3>2, <3>3
  <2>2. /\ old \in Seq(Marks) /\ new \in Seq(Marks) /\ Len(new) = Len(old)
        /\ \E x, y \in Int : \A i \in 1 .. Len(old) :
             new[i] # old[i] => i \in {x, y} /\ i \in span
    <3>1. line \in Seq(Word) /\ k \in 1 .. Len(line) /\ stress \in Nat
      BY <2>1
    <3> QED
      BY <3>1, LineRestressed
  <2>3. expected \in Seq(Marks)
    <3>1. feet \in Nat
      BY FeetAssumption
    <3> QED
      BY <3>1, ExpectedIs
  <2>4. span \subseteq 1 .. Len(expected)
    BY DEF Span
  <2>5. Mismatches(old, expected) = {} /\ LineLengthOk(old, expected)
    BY DEF ScansExactly
  <2>6. LineResult(other, meter, feet).ok <=>
          FewEnough(RealErrors(other, meter, feet)) /\ LineLengthOk(new, expected)
    BY DEF LineResult
  <2>7. RealErrors(other, meter, feet) \subseteq Mismatches(new, expected)
    BY DEF RealErrors
  <2> HIDE DEF other, old, new, expected, span
  <2>8. /\ DOMAIN new = 1 .. Len(old) /\ DOMAIN old = 1 .. Len(old)
        /\ DOMAIN expected = 1 .. Len(expected)
        /\ Len(old) \in Nat /\ Len(expected) \in Nat
    BY <2>2, <2>3
  <2>9. PICK x, y \in Int : \A i \in 1 .. Len(old) :
          new[i] # old[i] => i \in {x, y} /\ i \in span
    BY <2>2
  <2>10. Mismatches(new, expected) \subseteq {x, y}
    <3>1. ASSUME NEW i \in Mismatches(new, expected) PROVE i \in {x, y}
      <4>1. i \in 1 .. Len(old) /\ i \in 1 .. Len(expected) /\ new[i] # expected[i]
        BY <2>8 DEF Mismatches
      <4>2. old[i] = expected[i]
        BY <2>5, <2>8, <4>1 DEF Mismatches
      <4> QED
        BY <2>9, <4>1, <4>2
    <3> QED
      BY <3>1
  <2>11. FewEnough(RealErrors(other, meter, feet))
    <3>1. RealErrors(other, meter, feet) \in SUBSET {x, y}
      BY <2>7, <2>10
    <3>2. /\ Cardinality(RealErrors(other, meter, feet)) \in Nat
          /\ Cardinality(RealErrors(other, meter, feet)) <= 2
      BY <3>1, AtMostTwo
    <3> QED
      BY <3>2, MismatchAssumption DEF FewEnough
  <2>12. \A i \in Len(expected) + 1 .. Len(old) : new[i] = old[i]
    <3> SUFFICES ASSUME NEW i \in Len(expected) + 1 .. Len(old) PROVE new[i] = old[i]
      OBVIOUS
    <3>1. i \in 1 .. Len(old) /\ i \notin 1 .. Len(expected)
      BY <2>8
    <3> QED
      BY <2>4, <2>9, <3>1
  <2>13. LineLengthOk(new, expected)
    BY <2>2, <2>5, <2>12 DEF LineLengthOk
  <2> QED
    BY <2>6, <2>11, <2>13 DEF other
<1> QED
  BY <1>1, LinesAreWords, PTL

-----------------------------------------------------------------------------
(***************************************************************************)
(* Meter and rhyme hear the same stress                                    *)
(***************************************************************************)

\* The numbers below another one.
Below(V, i) == {j \in V : j < i}

\* Of more than n numbers one has n below it.
LEMMA OneHasSoManyBelow ==
  ASSUME NEW N \in Nat, NEW V \in SUBSET (1 .. N), NEW n \in Nat, n < Cardinality(V)
  PROVE  \E i \in V : Cardinality(Below(V, i)) = n
<1> DEFINE enough == {m \in Nat : n < Cardinality({j \in V : j <= m})}
<1>1. IsFiniteSet(V)
  <2>1. IsFiniteSet(1 .. N)
    BY FS_Interval
  <2> QED
    BY <2>1, FS_Subset
<1>0. \A j \in V : j \in Int /\ 1 <= j /\ j <= N
  OBVIOUS
<1>2. N \in enough
  <2>1. {j \in V : j <= N} = V
    BY <1>0
  <2> QED
    BY <2>1
<1>3. PICK i \in enough : \A m \in enough : i <= m
  <2>1. enough \in SUBSET Nat /\ enough # {}
    BY <1>2
  <2> HIDE DEF enough
  <2> QED
    BY <2>1, LeastNat
<1> DEFINE below == {j \in V : j < i}
           upto  == {j \in V : j <= i}
<1>4. i \in Nat /\ n < Cardinality(upto)
  BY <1>3
<1>5. IsFiniteSet(below) /\ Cardinality(below) \in Nat
  <2>1. below \in SUBSET V
    OBVIOUS
  <2>2. IsFiniteSet(below)
    BY <1>1, <2>1, FS_Subset
  <2> QED
    BY <2>2, FS_CardinalityType
<1>6. i # 0
  <2>1. ASSUME i = 0 PROVE upto = {}
    <3>1. \A j \in V : ~ (j <= i)
      BY <1>0, <2>1
    <3> QED
      BY <3>1
  <2>2. Cardinality({}) = 0
    BY FS_EmptySet
  <2> HIDE DEF upto
  <2> QED
    BY <1>4, <2>1, <2>2
<1>7. Cardinality(below) <= n
  <2>1. i - 1 \in Nat /\ ~ (i <= i - 1)
    BY <1>4, <1>6
  <2>2. i - 1 \notin enough
    BY <1>3, <2>1
  <2>3. {j \in V : j <= i - 1} = below
    <3>1. \A j \in V : j <= i - 1 <=> j < i
      BY <1>0, <1>4
    <3> QED
      BY <3>1
  <2>4. ~ (n < Cardinality(below))
    BY <2>1, <2>2, <2>3
  <2> HIDE DEF below
  <2> QED
    BY <1>5, <2>4
<1>8. i \in V
  <2>1. ASSUME i \notin V PROVE upto = below
    <3>1. \A j \in V : j <= i <=> j < i
      BY <1>0, <1>4, <2>1
    <3> QED
      BY <3>1
  <2> HIDE DEF upto, below
  <2> QED
    BY <1>4, <1>5, <1>7, <2>1
<1>9. upto = below \cup {i}
  <2>1. \A j \in V : j <= i <=> j < i \/ j = i
    BY <1>0, <1>4
  <2> QED
    BY <1>8, <2>1
<1>10. Cardinality(upto) <= Cardinality(below) + 1
  <2> HIDE DEF upto, below
  <2>1. Cardinality(below \cup {i}) =
          IF i \in below THEN Cardinality(below) ELSE Cardinality(below) + 1
    BY <1>5, FS_AddElement
  <2> QED
    BY <1>5, <1>9, <2>1
<1>11. Cardinality(below) = n
  <2> HIDE DEF upto, below
  <2>1. Cardinality(upto) \in Nat
    <3>1. IsFiniteSet(upto)
      BY <1>5, <1>9, FS_AddElement
    <3> QED
      BY <3>1, FS_CardinalityType
  <2> QED
    BY <1>4, <1>5, <1>7, <1>10, <2>1
<1> QED
  BY <1>8, <1>11 DEF Below

\* The vowels of a transcription are among its letters.
LEMMA VowelsCounted ==
  ASSUME NEW ipa \in Seq(STRING)
  PROVE  /\ VowelPositions(ipa) \in SUBSET (1 .. Len(ipa)) /\ Len(ipa) \in Nat
         /\ IsFiniteSet(VowelPositions(ipa)) /\ Cardinality(VowelPositions(ipa)) \in Nat
<1>1. VowelPositions(ipa) \in SUBSET (1 .. Len(ipa)) /\ Len(ipa) \in Nat
  BY DEF VowelPositions
<1>2. IsFiniteSet(1 .. Len(ipa))
  BY <1>1, FS_Interval
<1>3. IsFiniteSet(VowelPositions(ipa))
  BY <1>1, <1>2, FS_Subset
<1> QED
  BY <1>1, <1>3, FS_CardinalityType

\* From the vowel on that n vowels precede there are all the others.
LEMMA VowelsFrom ==
  ASSUME NEW ipa \in Seq(STRING), NEW n \in Nat, n < Cardinality(VowelPositions(ipa))
  PROVE  Cardinality(VowelPositions(Suffix(ipa, VowelAt(ipa, n)))) =
           Cardinality(VowelPositions(ipa)) - n
<1> DEFINE V == VowelPositions(ipa)
           i == VowelAt(ipa, n)
           below == {j \in V : j < i}
           rest == {j \in V : j >= i}
           there == VowelPositions(Suffix(ipa, i))
           f == [j \in rest |-> j - i + 1]
<1>1. V \in SUBSET (1 .. Len(ipa)) /\ Len(ipa) \in Nat /\ IsFiniteSet(V) /\ Cardinality(V) \in Nat
  BY VowelsCounted
<1>2. i \in V /\ Cardinality(below) = n
  <2>1. \E k \in V : Cardinality(Below(V, k)) = n
    <3>1. n < Cardinality(V)
      OBVIOUS
    <3> HIDE DEF V
    <3> QED
      BY <1>1, <3>1, OneHasSoManyBelow
  <2> QED
    BY <2>1 DEF VowelAt, Below
<1> HIDE DEF i
<1>3. i \in 1 .. Len(ipa)
  BY <1>1, <1>2
<1>4. /\ DOMAIN Suffix(ipa, i) = 1 .. Len(ipa) - i + 1
      /\ \A m \in 1 .. Len(ipa) - i + 1 : Suffix(ipa, i)[m] = ipa[i + m - 1]
  BY <1>1, <1>3 DEF Suffix
<1>5. there = {m \in 1 .. Len(ipa) - i + 1 : ipa[i + m - 1] \in Vowels}
  BY <1>4 DEF VowelPositions
<1>6. V = {j \in 1 .. Len(ipa) : ipa[j] \in Vowels}
  BY <1>1 DEF VowelPositions
<1> HIDE DEF V, there
<1>7. ASSUME NEW j \in rest PROVE j \in Int /\ j - i + 1 \in there
  <2>1. j \in 1 .. Len(ipa) /\ j >= i /\ ipa[j] \in Vowels
    BY <1>6
  <2>2. j - i + 1 \in 1 .. Len(ipa) - i + 1 /\ i + (j - i + 1) - 1 = j
    BY <1>1, <1>3, <2>1
  <2> QED
    BY <1>5, <2>1, <2>2
<1>8. ASSUME NEW m \in there PROVE m + i - 1 \in rest /\ m \in Int
  <2>1. m \in 1 .. Len(ipa) - i + 1 /\ ipa[i + m - 1] \in Vowels
    BY <1>5
  <2>2. i + m - 1 \in 1 .. Len(ipa) /\ i + m - 1 >= i /\ m + i - 1 = i + m - 1
    BY <1>1, <1>3, <2>1
  <2> QED
    BY <1>6, <2>1, <2>2
<1>9. ExistsBijection(rest, there)
  <2> HIDE DEF rest
  <2>1. f \in [rest -> there]
    BY <1>7
  <2>2. \A a, b \in rest : f[a] = f[b] => a = b
    BY <1>3, <1>7
  <2>3. \A m \in there : \E j \in rest : f[j] = m
    <3> SUFFICES ASSUME NEW m \in there PROVE f[m + i - 1] = m /\ m + i - 1 \in rest
      OBVIOUS
    <3> QED
      BY <1>3, <1>8
  <2> HIDE DEF f
  <2>4. f \in Bijection(rest, there)
    BY <2>1, <2>2, <2>3, Fun_IsBij
  <2> QED
    BY <2>4 DEF ExistsBijection
<1>10. /\ IsFiniteSet(below) /\ IsFiniteSet(rest) /\ Cardinality(rest) \in Nat
  <2>1. below \in SUBSET V /\ rest \in SUBSET V
    OBVIOUS
  <2> HIDE DEF below, rest
  <2>2. IsFiniteSet(below) /\ IsFiniteSet(rest)
    BY <1>1, <2>1, FS_Subset
  <2> QED
    BY <2>2, FS_CardinalityType
<1>11. Cardinality(V) = n + Cardinality(rest)
  <2>1. below \cup rest = V /\ below \cap rest = {}
    <3>1. \A j \in V : j < i <=> ~ (j >= i)
      BY <1>3, <1>6
    <3> QED
      BY <3>1
  <2>2. Cardinality({}) = 0
    BY FS_EmptySet
  <2> HIDE DEF below, rest
  <2>3. Cardinality(below \cup rest) =
          Cardinality(below) + Cardinality(rest) - Cardinality(below \cap rest)
    BY <1>10, FS_Union
  <2>4. Cardinality(below \cup rest) = Cardinality(V)
    BY <2>1, Zenon
  <2>5. Cardinality(below \cap rest) = 0
    BY <2>1, <2>2, Zenon
  <2> QED
    BY <1>2, <1>10, <2>3, <2>4, <2>5
<1>12. Cardinality(there) = Cardinality(rest)
  <2> HIDE DEF rest
  <2> QED
    BY <1>9, <1>10, FS_Bijection
<1> QED
  BY <1>1, <1>10, <1>11, <1>12 DEF V, there, i

\* The meter validator and the rhyme analyzer hear a word stressed on the same vowel,
\* also where the dictionary names one the word does not have.
THEOREM OneStressHeard == CasesSpec => []OneStressForMeterAndRhyme
<1>1. ASSUME CasesInv PROVE OneStressForMeterAndRhyme
  <2> SUFFICES ASSUME NEW k \in DOMAIN line, line[k].syllables > 0
               PROVE  LET trailing == line[k].syllables - StressOf(line[k])
                      IN  /\ Cardinality(VowelPositions(Candidates(line[k])[1])) = trailing + 1
                          /\ Clausula(line[k]) = CASE trailing = 0 -> "MASCULINE"
                                                   [] trailing = 1 -> "FEMININE"
                                                   [] trailing = 2 -> "DACTYLIC"
                                                   [] trailing > 2 -> "HYPERDACTYLIC"
    BY DEF OneStressForMeterAndRhyme
  <2> DEFINE word == line[k]
             count == Cardinality(VowelPositions(word.ipa))
             n == Least(Resolve(word), count - 1)
  <2>1. word \in Word /\ word \in Vocabulary \cup EndWords
    BY <1>1 DEF CasesInv
  <2> HIDE DEF word
  <2>2. word.syllables \in Nat /\ word.syllables > 0 /\ word.ipa \in Seq(STRING)
    BY <2>1 DEF Word, word
  <2>3. count = word.syllables
    BY <2>1, VocabularyAssumption
  <2>4. Resolve(word) \in Nat
    BY <2>1, <2>2 DEF Resolve, GuessStress, Word
  <2> HIDE DEF count
  <2>5. n \in Nat /\ n < count /\ StressOf(word) = n + 1
    BY <2>2, <2>3, <2>4 DEF Least, StressOf
  <2> HIDE DEF n
  <2>6. Candidates(word)[1] = Suffix(word.ipa, VowelAt(word.ipa, n))
    <3>1. Candidates(word)[1] = RhymePart(word, Resolve(word))
      BY DEF Candidates
    <3>2. count # 0
      BY <2>5, <2>2, <2>3
    <3> QED
      BY <3>1, <3>2 DEF RhymePart, count, n
  <2>7. Cardinality(VowelPositions(Candidates(word)[1])) = count - n
    BY <2>2, <2>5, <2>6, VowelsFrom DEF count
  <2>8. Cardinality(VowelPositions(Candidates(word)[1])) = word.syllables - StressOf(word) + 1
    BY <2>2, <2>3, <2>5, <2>7
  <2>9. Clausula(word) = CASE word.syllables - StressOf(word) = 0 -> "MASCULINE"
                           [] word.syllables - StressOf(word) = 1 -> "FEMININE"
                           [] word.syllables - StressOf(word) = 2 -> "DACTYLIC"
                           [] word.syllables - StressOf(word) > 2 -> "HYPERDACTYLIC"
    <3>1. CASE Resolve(word) >= word.syllables
      <4>1. word.syllables - StressOf(word) = 0
        BY <2>2, <3>1 DEF StressOf
      <4>2. word.syllables - 1 - Resolve(word) <= 0
        BY <2>2, <2>4, <3>1
      <4>3. Clausula(word) = "MASCULINE"
        BY <2>2, <2>4, <4>2 DEF Clausula
      <4> QED
        BY <4>1, <4>3
    <3>2. CASE Resolve(word) < word.syllables
      <4>1. word.syllables - StressOf(word) = word.syllables - 1 - Resolve(word)
        BY <2>2, <2>4, <3>2 DEF StressOf
      <4>2. word.syllables - 1 - Resolve(word) \in Nat
        BY <2>2, <2>4, <3>2
      <4>3. PICK m \in Nat : /\ word.syllables - StressOf(word) = m
                             /\ word.syllables - 1 - Resolve(word) = m
        BY <4>1, <4>2
      <4>4. Clausula(word) = CASE m <= 0 -> "MASCULINE" [] m = 1 -> "FEMININE"
                               [] m = 2 -> "DACTYLIC" [] m > 2 -> "HYPERDACTYLIC"
        BY <2>2, <4>3 DEF Clausula
      <4>5. m = 0 \/ m = 1 \/ m = 2 \/ m > 2
        OBVIOUS
      <4> DEFINE t == word.syllables - StressOf(word)
      <4>6. t = m
        BY <4>3
      <4> HIDE DEF t
      <4>7. Clausula(word) = CASE t = 0 -> "MASCULINE" [] t = 1 -> "FEMININE"
                               [] t = 2 -> "DACTYLIC" [] t > 2 -> "HYPERDACTYLIC"
        <5>1. CASE m = 0
          BY <4>4, <4>6, <5>1
        <5>2. CASE m = 1
          BY <4>4, <4>6, <5>2
        <5>3. CASE m = 2
          BY <4>4, <4>6, <5>3
        <5>4. CASE m > 2
          BY <4>4, <4>6, <5>4
        <5> QED
          BY <4>5, <5>1, <5>2, <5>3, <5>4
      <4> QED
        BY <4>7 DEF t
    <3>3. Resolve(word) >= word.syllables \/ Resolve(word) < word.syllables
      BY <2>2, <2>4
    <3> QED
      BY <3>1, <3>2, <3>3, Zenon
  <2> QED
    BY <2>8, <2>9 DEF word
<1> QED
  BY <1>1, LinesAreWords, PTL

-----------------------------------------------------------------------------
(***************************************************************************)
(* The edit distance                                                       *)
(***************************************************************************)

\* Row i of the table has at j, from the row before it and what it has before j, ...
RowBody(a, b, i, previous, row, j) ==
  IF j = 0 THEN i
  ELSE Least(Least(row[j - 1] + 1, previous[j] + 1),
             previous[j - 1] + ReplacementCost(a[i], b[j]))

RowFcn(a, b, i, previous) ==
  CHOOSE row : row = [j \in 0 .. Len(b) |-> RowBody(a, b, i, previous, row, j)]

\* ... and the table has at i, from the row before it.
TableBody(a, b, table, i) ==
  IF i = 0 THEN [j \in 0 .. Len(b) |-> j] ELSE RowFcn(a, b, i, table[i - 1])

TableFcn(a, b) ==
  CHOOSE table : table = [i \in 0 .. Len(a) |-> TableBody(a, b, table, i)]

\* The table Distance is defined with, by a name.
LEMMA DistanceIs ==
  ASSUME NEW x, NEW y
  PROVE  LET a == IF Len(x) < Len(y) THEN y ELSE x
             b == IF Len(x) < Len(y) THEN x ELSE y
         IN  Distance(x, y) = TableFcn(a, b)[Len(a)][Len(b)]
  BY DEF Distance, TableFcn, TableBody, RowFcn, RowBody

\* What a row has: the number of the row at 0, and elsewhere the least of three ways to
\* come there.
IsRow(row, a, b, i, m, previous) ==
  /\ row \in [0 .. m -> Int]
  /\ row[0] = i
  /\ \A j \in 1 .. m :
       row[j] = Least(Least(row[j - 1] + 1, previous[j] + 1),
                      previous[j - 1] + ReplacementCost(a[i], b[j]))

\* There is such a row, and it has this.
LEMMA RowIs ==
  ASSUME NEW a, NEW b, NEW m \in Nat, Len(b) = m, NEW i \in Int,
         NEW previous \in [0 .. m -> Int]
  PROVE  IsRow(RowFcn(a, b, i, previous), a, b, i, m, previous)
<1> DEFINE after(v, j) == Least(Least(v + 1, previous[j] + 1),
                                previous[j - 1] + ReplacementCost(a[i], b[j]))
           step == [j \in 1 .. m |-> [v \in Int |-> after(v, j)]]
<1>1. step \in Rules(m, Int)
  <2>1. ASSUME NEW j \in 1 .. m, NEW v \in Int PROVE after(v, j) \in Int
    <3>1. j \in 0 .. m /\ j - 1 \in 0 .. m
      OBVIOUS
    <3>2. previous[j] \in Int /\ previous[j - 1] \in Int
      BY <3>1
    <3> QED
      BY <3>2 DEF Least, ReplacementCost
  <2> HIDE DEF after
  <2> QED
    BY <2>1 DEF Rules
<1>2. PICK f \in [0 .. m -> Int] : f[0] = i /\ \A j \in 1 .. m : f[j] = step[j][f[j - 1]]
  <2> HIDE DEF step
  <2> DEFINE V == Int
  <2>1. i \in V /\ step \in Rules(m, V)
    BY <1>1
  <2> HIDE DEF V
  <2>2. \E f \in [0 .. m -> V] : f[0] = i /\ \A j \in 1 .. m : f[j] = step[j][f[j - 1]]
    BY <2>1, Recursion
  <2> QED
    BY <2>2 DEF V
<1>3. \A j \in 1 .. m : f[j - 1] \in Int /\ f[j] = after(f[j - 1], j)
  <2> SUFFICES ASSUME NEW j \in 1 .. m PROVE f[j - 1] \in Int /\ f[j] = after(f[j - 1], j)
    OBVIOUS
  <2>1. j - 1 \in 0 .. m
    OBVIOUS
  <2> HIDE DEF after
  <2> QED
    BY <1>2, <2>1
<1>4. f = [j \in 0 .. m |-> RowBody(a, b, i, previous, f, j)]
  <2>1. ASSUME NEW j \in 0 .. m PROVE f[j] = RowBody(a, b, i, previous, f, j)
    <3>1. CASE j = 0
      BY <1>2, <3>1 DEF RowBody
    <3>2. CASE j \in 1 .. m
      <4>1. j # 0 /\ f[j] = after(f[j - 1], j)
        BY <1>3, <3>2
      <4> QED
        BY <4>1 DEF RowBody
    <3> QED
      BY <3>1, <3>2
  <2> QED
    BY <1>2, <2>1
<1> DEFINE row == RowFcn(a, b, i, previous)
<1>5. row = [j \in 0 .. m |-> RowBody(a, b, i, previous, row, j)]
  <2> DEFINE Good(g) == g = [j \in 0 .. Len(b) |-> RowBody(a, b, i, previous, g, j)]
  <2>1. Good(f)
    BY <1>4
  <2>2. row = CHOOSE g : Good(g)
    BY DEF RowFcn
  <2>3. Good(row)
    <3> HIDE DEF Good, row
    <3> QED
      BY <2>1, <2>2
  <2> QED
    BY <2>3
<1> HIDE DEF row
<1>6. \A j \in 0 .. m : row[j] = RowBody(a, b, i, previous, row, j)
  BY <1>5
<1>7. row[0] = i
  BY <1>6 DEF RowBody
<1>8. \A j \in 1 .. m : row[j] = after(row[j - 1], j)
  <2> SUFFICES ASSUME NEW j \in 1 .. m PROVE row[j] = after(row[j - 1], j)
    OBVIOUS
  <2>1. j \in 0 .. m /\ j # 0
    OBVIOUS
  <2> QED
    BY <1>6, <2>1 DEF RowBody
<1> DEFINE T == {j \in 0 .. m : row[j] = f[j]}
<1>9. 0 .. m \subseteq T
  <2>1. 0 \in T
    BY <1>2, <1>7
  <2>2. \A j \in 1 .. m : j - 1 \in T => j \in T
    <3> HIDE DEF after
    <3> QED
      BY <1>3, <1>8
  <2> HIDE DEF T
  <2> QED
    BY <2>1, <2>2, Reached
<1>10. row \in [0 .. m -> Int]
  <2>1. \A j \in 0 .. m : row[j] \in Int
    BY <1>2, <1>9
  <2>2. DOMAIN row = 0 .. m
    BY <1>5
  <2>3. row = [j \in 0 .. m |-> row[j]]
    BY <1>5
  <2> QED
    BY <2>1, <2>3
<1> QED
  BY <1>7, <1>8, <1>10 DEF row, IsRow

\* What the table has: in row 0 and column 0 the number of letters, and elsewhere the
\* least of three ways to come there.
IsTable(t, a, b, n, m) ==
  /\ t \in [0 .. n -> [0 .. m -> Int]]
  /\ \A j \in 0 .. m : t[0][j] = j
  /\ \A i \in 0 .. n : t[i][0] = i
  /\ \A i \in 1 .. n, j \in 1 .. m :
       t[i][j] = Least(Least(t[i][j - 1] + 1, t[i - 1][j] + 1),
                       t[i - 1][j - 1] + ReplacementCost(a[i], b[j]))

\* The table is one, whatever the lengths of the words.
LEMMA TableIs ==
  ASSUME NEW a, NEW b, NEW n \in Nat, NEW m \in Nat, Len(a) = n, Len(b) = m
  PROVE  IsTable(TableFcn(a, b), a, b, n, m)
<1> DEFINE V == [0 .. m -> Int]
           first == [j \in 0 .. m |-> j]
           step == [i \in 1 .. n |-> [p \in V |-> RowFcn(a, b, i, p)]]
           t == TableFcn(a, b)
<1>1. first \in V
  OBVIOUS
<1>2. \A i \in 1 .. n, p \in V : RowFcn(a, b, i, p) \in V
  <2> SUFFICES ASSUME NEW i \in 1 .. n, NEW p \in V PROVE RowFcn(a, b, i, p) \in V
    OBVIOUS
  <2>1. i \in Int /\ p \in [0 .. m -> Int]
    OBVIOUS
  <2> QED
    BY <2>1, RowIs DEF IsRow
<1>3. step \in Rules(n, V)
  <2> HIDE DEF V
  <2> QED
    BY <1>2 DEF Rules
<1>4. PICK f \in [0 .. n -> V] : f[0] = first /\ \A i \in 1 .. n : f[i] = step[i][f[i - 1]]
  <2> HIDE DEF step, first, V
  <2> QED
    BY <1>1, <1>3, Recursion
<1> HIDE DEF V
<1>5. \A i \in 1 .. n : f[i - 1] \in V /\ f[i] = RowFcn(a, b, i, f[i - 1])
  <2> SUFFICES ASSUME NEW i \in 1 .. n
               PROVE  f[i - 1] \in V /\ f[i] = RowFcn(a, b, i, f[i - 1])
    OBVIOUS
  <2>1. i - 1 \in 0 .. n
    OBVIOUS
  <2> QED
    BY <1>4, <2>1
<1>6. f = [i \in 0 .. n |-> TableBody(a, b, f, i)]
  <2>1. ASSUME NEW i \in 0 .. n PROVE f[i] = TableBody(a, b, f, i)
    <3>1. CASE i = 0
      BY <1>4, <3>1 DEF TableBody
    <3>2. CASE i \in 1 .. n
      <4>1. i # 0 /\ f[i] = RowFcn(a, b, i, f[i - 1])
        BY <1>5, <3>2
      <4> QED
        BY <4>1 DEF TableBody
    <3> QED
      BY <3>1, <3>2
  <2> QED
    BY <1>4, <2>1
<1>7. t = [i \in 0 .. n |-> TableBody(a, b, t, i)]
  <2> DEFINE Good(g) == g = [i \in 0 .. Len(a) |-> TableBody(a, b, g, i)]
  <2>1. Good(f)
    BY <1>6
  <2>2. t = CHOOSE g : Good(g)
    BY DEF TableFcn
  <2>3. Good(t)
    <3> HIDE DEF Good, t
    <3> QED
      BY <2>1, <2>2
  <2> QED
    BY <2>3
<1> HIDE DEF t
<1>8. \A i \in 0 .. n : t[i] = TableBody(a, b, t, i)
  BY <1>7
<1>9. t[0] = first
  BY <1>8 DEF TableBody
<1>10. \A i \in 1 .. n : t[i] = RowFcn(a, b, i, t[i - 1])
  <2> SUFFICES ASSUME NEW i \in 1 .. n PROVE t[i] = RowFcn(a, b, i, t[i - 1])
    OBVIOUS
  <2>1. i \in 0 .. n /\ i # 0
    OBVIOUS
  <2> QED
    BY <1>8, <2>1 DEF TableBody
<1> DEFINE T == {i \in 0 .. n : t[i] \in V}
<1>11. 0 .. n \subseteq T
  <2>1. 0 \in T
    BY <1>1, <1>9
  <2>2. \A i \in 1 .. n : i - 1 \in T => i \in T
    BY <1>2, <1>10
  <2> HIDE DEF T
  <2> QED
    BY <2>1, <2>2, Reached
<1>12. t \in [0 .. n -> V]
  <2>1. \A i \in 0 .. n : t[i] \in V
    BY <1>11
  <2>2. t = [i \in 0 .. n |-> t[i]]
    BY <1>7
  <2> QED
    BY <2>1, <2>2
<1>13. ASSUME NEW i \in 1 .. n
       PROVE  /\ t[i][0] = i
              /\ \A j \in 1 .. m :
                   t[i][j] = Least(Least(t[i][j - 1] + 1, t[i - 1][j] + 1),
                                   t[i - 1][j - 1] + ReplacementCost(a[i], b[j]))
  <2>1. i \in Int /\ t[i - 1] \in [0 .. m -> Int] /\ t[i] = RowFcn(a, b, i, t[i - 1])
    BY <1>10, <1>12 DEF V
  <2> DEFINE previous == t[i - 1]
  <2> HIDE DEF previous
  <2>2. IsRow(RowFcn(a, b, i, previous), a, b, i, m, previous)
    <3>1. i \in Int /\ previous \in [0 .. m -> Int]
      BY <2>1 DEF previous
    <3> QED
      BY <3>1, RowIs
  <2>3. t[i] = RowFcn(a, b, i, previous)
    BY <2>1 DEF previous
  <2> QED
    BY <2>2, <2>3 DEF previous, IsRow
<1>14. \A j \in 0 .. m : t[0][j] = j
  BY <1>9
<1>15. \A i \in 0 .. n : t[i][0] = i
  <2> SUFFICES ASSUME NEW i \in 0 .. n PROVE t[i][0] = i
    OBVIOUS
  <2>1. 0 \in 0 .. m
    OBVIOUS
  <2>2. i = 0 \/ i \in 1 .. n
    OBVIOUS
  <2> QED
    BY <1>13, <1>14, <2>1, <2>2
<1> QED
  BY <1>12, <1>13, <1>14, <1>15 DEF IsTable, V, t

Mirrored(t, u, n, m) == \A i \in 0 .. n, j \in 0 .. m : t[i][j] = u[j][i]

\* The table of two words in the other order is the table mirrored.
LEMMA TablesMirrored ==
  ASSUME NEW a, NEW b, NEW n \in Nat, NEW m \in Nat, NEW t, NEW u,
         IsTable(t, a, b, n, m), IsTable(u, b, a, m, n)
  PROVE  Mirrored(t, u, n, m)
<1> DEFINE Good(i, j) == t[i][j] = u[j][i]
           T == {i \in 0 .. n : \A j \in 0 .. m : Good(i, j)}
<1>1. /\ t \in [0 .. n -> [0 .. m -> Int]] /\ u \in [0 .. m -> [0 .. n -> Int]]
      /\ \A j \in 0 .. m : t[0][j] = j /\ u[j][0] = j
      /\ \A i \in 0 .. n : t[i][0] = i /\ u[0][i] = i
  BY DEF IsTable
<1>2. \A i \in 1 .. n, j \in 1 .. m :
        /\ t[i][j] = Least(Least(t[i][j - 1] + 1, t[i - 1][j] + 1),
                           t[i - 1][j - 1] + ReplacementCost(a[i], b[j]))
        /\ u[j][i] = Least(Least(u[j][i - 1] + 1, u[j - 1][i] + 1),
                           u[j - 1][i - 1] + ReplacementCost(b[j], a[i]))
  BY DEF IsTable
<1>3. 0 \in T
  BY <1>1
<1>4. ASSUME NEW i \in 1 .. n, i - 1 \in T PROVE i \in T
  <2> DEFINE R == {j \in 0 .. m : Good(i, j)}
  <2>0. i \in 0 .. n /\ i - 1 \in 0 .. n /\ 0 \in 0 .. m
    OBVIOUS
  <2>1. 0 \in R
    BY <1>1, <2>0
  <2>2. ASSUME NEW j \in 1 .. m, j - 1 \in R PROVE j \in R
    <3>1. j \in 0 .. m /\ j - 1 \in 0 .. m
      OBVIOUS
    <3>2. /\ t[i][j - 1] = u[j - 1][i] /\ t[i - 1][j] = u[j][i - 1]
          /\ t[i - 1][j - 1] = u[j - 1][i - 1]
      BY <1>4, <2>2, <3>1
    <3>3. t[i][j - 1] \in Int /\ t[i - 1][j] \in Int /\ t[i - 1][j - 1] \in Int
      <4>1. t[i] \in [0 .. m -> Int] /\ t[i - 1] \in [0 .. m -> Int]
        BY <1>1, <2>0
      <4> QED
        BY <3>1, <4>1
    <3>4. ReplacementCost(a[i], b[j]) = ReplacementCost(b[j], a[i])
      BY DEF ReplacementCost
    <3>5. \A v, w \in Int : Least(v, w) = Least(w, v)
      BY DEF Least
    <3>6. Good(i, j)
      <4>1. Least(t[i][j - 1] + 1, t[i - 1][j] + 1) = Least(u[j][i - 1] + 1, u[j - 1][i] + 1)
        BY <3>2, <3>3, <3>5
      <4> QED
        BY <1>2, <3>2, <3>4, <4>1
    <3> QED
      BY <3>1, <3>6
  <2>3. 0 .. m \subseteq R
    <3> HIDE DEF R
    <3> QED
      BY <2>1, <2>2, Reached
  <2> QED
    BY <2>0, <2>3
<1>5. 0 .. n \subseteq T
  <2> HIDE DEF T
  <2> QED
    BY <1>3, <1>4, Reached
<1> QED
  BY <1>5 DEF Mirrored

\* The edit distance does not depend on the order of the words.
LEMMA DistanceSymmetric ==
  ASSUME NEW x, NEW y, Len(x) \in Nat, Len(y) \in Nat
  PROVE  Distance(x, y) \in Int /\ Distance(x, y) = Distance(y, x)
<1> DEFINE n == Len(x)
           m == Len(y)
<1>1. n \in Nat /\ m \in Nat
  OBVIOUS
<1>2. IsTable(TableFcn(x, y), x, y, n, m) /\ IsTable(TableFcn(y, x), y, x, m, n)
  BY <1>1, TableIs
<1>3. TableFcn(x, y)[n][m] \in Int /\ TableFcn(y, x)[m][n] \in Int
  <2>1. n \in 0 .. n /\ m \in 0 .. m
    BY <1>1
  <2> HIDE DEF n, m
  <2> QED
    BY <1>2, <2>1 DEF IsTable
<1>4. CASE n < m
  <2>1. ~ (m < n)
    BY <1>1, <1>4
  <2>2. Distance(x, y) = TableFcn(y, x)[m][n] /\ Distance(y, x) = TableFcn(y, x)[m][n]
    BY <1>4, <2>1, DistanceIs
  <2> QED
    BY <1>3, <2>2
<1>5. CASE m < n
  <2>1. ~ (n < m)
    BY <1>1, <1>5
  <2>2. Distance(x, y) = TableFcn(x, y)[n][m] /\ Distance(y, x) = TableFcn(x, y)[n][m]
    BY <1>5, <2>1, DistanceIs
  <2> QED
    BY <1>3, <2>2
<1>6. CASE n = m
  <2>1. ~ (n < m) /\ ~ (m < n)
    BY <1>1, <1>6
  <2>2. Distance(x, y) = TableFcn(x, y)[n][m] /\ Distance(y, x) = TableFcn(y, x)[m][n]
    BY <2>1, DistanceIs
  <2>3. TableFcn(x, y)[n][m] = TableFcn(y, x)[m][n]
    <3>1. n \in 0 .. n /\ m \in 0 .. m
      BY <1>1
    <3>2. Mirrored(TableFcn(x, y), TableFcn(y, x), n, m)
      <4> HIDE DEF n, m
      <4> QED
        BY <1>1, <1>2, TablesMirrored
    <3> HIDE DEF n, m
    <3> QED
      BY <3>1, <3>2 DEF Mirrored
  <2> QED
    BY <1>3, <2>2, <2>3
<1>7. n < m \/ m < n \/ n = m
  BY <1>1
<1> QED
  BY <1>4, <1>5, <1>6, <1>7

\* f makes letters of the first i into letters of the first j, in order.
IsKept(f, i, j) ==
  /\ f = [k \in DOMAIN f |-> f[k]]
  /\ DOMAIN f \in SUBSET (1 .. i)
  /\ \A k \in DOMAIN f : f[k] \in 1 .. j
  /\ \A k, l \in DOMAIN f : k < l => f[k] < f[l]

\* The letters that become other ones.
Replaced(a, b, f) == {k \in DOMAIN f : a[k] # b[f[k]]}

\* What it takes, of so many letters altogether.
Paid(a, b, letters, f) == letters - 2 * Cardinality(DOMAIN f) + Cardinality(Replaced(a, b, f))

\* What is paid is a number, and nothing but the letters if nothing is kept.
LEMMA PaidIs ==
  ASSUME NEW a, NEW b, NEW i \in Nat, NEW j \in Nat, NEW f, IsKept(f, i, j), NEW letters \in Int
  PROVE  /\ IsFiniteSet(DOMAIN f) /\ Cardinality(DOMAIN f) \in Nat
         /\ IsFiniteSet(Replaced(a, b, f)) /\ Cardinality(Replaced(a, b, f)) \in Nat
         /\ Paid(a, b, letters, f) \in Int
         /\ Paid(a, b, letters + 1, f) = Paid(a, b, letters, f) + 1
         /\ i = 0 \/ j = 0 => Paid(a, b, letters, f) = letters
<1> DEFINE D == DOMAIN f
           E == Replaced(a, b, f)
<1>1. IsFiniteSet(D) /\ Cardinality(D) \in Nat
  <2>1. D \in SUBSET (1 .. i)
    BY DEF IsKept
  <2>2. IsFiniteSet(1 .. i)
    BY FS_Interval
  <2> HIDE DEF D
  <2>3. IsFiniteSet(D)
    BY <2>1, <2>2, FS_Subset
  <2> QED
    BY <2>3, FS_CardinalityType
<1>2. E \in SUBSET D
  BY DEF Replaced
<1>3. IsFiniteSet(E) /\ Cardinality(E) \in Nat
  <2> HIDE DEF D, E
  <2>1. IsFiniteSet(E)
    BY <1>1, <1>2, FS_Subset
  <2> QED
    BY <2>1, FS_CardinalityType
<1>4. /\ Paid(a, b, letters, f) = letters - 2 * Cardinality(D) + Cardinality(E)
      /\ Paid(a, b, letters + 1, f) = (letters + 1) - 2 * Cardinality(D) + Cardinality(E)
  BY Zenon DEF Paid
<1>5. ASSUME i = 0 \/ j = 0 PROVE Cardinality(D) = 0 /\ Cardinality(E) = 0
  <2>1. D = {}
    <3>1. CASE i = 0
      <4>1. 1 .. i = {}
        BY <3>1
      <4> QED
        BY <4>1 DEF IsKept
    <3>2. CASE j = 0
      <4>1. 1 .. j = {}
        BY <3>2
      <4> QED
        BY <4>1 DEF IsKept
    <3> QED
      BY <1>5, <3>1, <3>2
  <2>2. E = {}
    BY <1>2, <2>1
  <2>3. Cardinality({}) = 0
    BY FS_EmptySet
  <2> HIDE DEF D, E
  <2> QED
    BY <2>1, <2>2, <2>3
<1> DEFINE c == Cardinality(D)
           e == Cardinality(E)
<1>6. c \in Nat /\ e \in Nat /\ (i = 0 \/ j = 0 => c = 0 /\ e = 0)
  BY <1>1, <1>3, <1>5
<1>7. Paid(a, b, letters, f) = letters - 2 * c + e /\ Paid(a, b, letters + 1, f) = (letters + 1) - 2 * c + e
  BY <1>4
<1> HIDE DEF c, e
<1>8. /\ Paid(a, b, letters, f) \in Int
      /\ Paid(a, b, letters + 1, f) = Paid(a, b, letters, f) + 1
      /\ i = 0 \/ j = 0 => Paid(a, b, letters, f) = letters
  BY <1>6, <1>7
<1> QED
  BY <1>1, <1>3, <1>8

\* f and g are the same but that f makes letter i into letter j, which are the last.
OneLonger(f, g, i, j) ==
  /\ IsKept(f, i, j) /\ IsKept(g, i - 1, j - 1)
  /\ i \in DOMAIN f /\ f[i] = j
  /\ DOMAIN g = DOMAIN f \ {i}
  /\ \A k \in DOMAIN g : g[k] = f[k]

\* f costs what g does, and the replacement of the last letter.
PaidMore(a, b, f, g, i, j) ==
  \A letters \in Int :
    Paid(a, b, letters + 2, f) = Paid(a, b, letters, g) + ReplacementCost(a[i], b[j])

\* One letter more is made into one letter more: it costs if they differ.
LEMMA OneMoreLetter ==
  ASSUME NEW a, NEW b, NEW i \in Nat \ {0}, NEW j \in Nat \ {0}, NEW f, NEW g,
         OneLonger(f, g, i, j)
  PROVE  PaidMore(a, b, f, g, i, j)
<1> SUFFICES ASSUME NEW letters \in Int
             PROVE  Paid(a, b, letters + 2, f) = Paid(a, b, letters, g) + ReplacementCost(a[i], b[j])
  BY DEF PaidMore
<1> DEFINE D == DOMAIN f
           E == Replaced(a, b, f)
           C == DOMAIN g
           B == Replaced(a, b, g)
<1>1. i \in Nat /\ j \in Nat /\ i - 1 \in Nat /\ j - 1 \in Nat
  OBVIOUS
<1>2. IsFiniteSet(C) /\ IsFiniteSet(B) /\ Cardinality(C) \in Nat /\ Cardinality(B) \in Nat
  <2>1. IsKept(g, i - 1, j - 1)
    BY DEF OneLonger
  <2> QED
    BY <1>1, <2>1, PaidIs
<1>3. i \in D /\ f[i] = j /\ C = D \ {i} /\ \A k \in C : g[k] = f[k]
  BY DEF OneLonger
<1>4. D = C \cup {i} /\ i \notin C
  BY <1>3
<1>5. i \notin B
  BY <1>4 DEF Replaced
<1>6. E = IF a[i] = b[j] THEN B ELSE B \cup {i}
  <2>1. \A k \in C : k \in E <=> k \in B
    BY <1>3, <1>4 DEF Replaced
  <2>2. i \in E <=> a[i] # b[j]
    BY <1>3 DEF Replaced
  <2>3. E \subseteq C \cup {i} /\ B \subseteq C
    BY <1>4 DEF Replaced
  <2> HIDE DEF E, B, C
  <2> QED
    BY <1>5, <2>1, <2>2, <2>3
<1>7. /\ Paid(a, b, letters + 2, f) = (letters + 2) - 2 * Cardinality(D) + Cardinality(E)
      /\ Paid(a, b, letters, g) = letters - 2 * Cardinality(C) + Cardinality(B)
  BY Zenon DEF Paid
<1> HIDE DEF B, C, D, E
<1>8. Cardinality(D) = Cardinality(C) + 1
  BY <1>2, <1>4, FS_AddElement
<1>9. Cardinality(E) = Cardinality(B) + ReplacementCost(a[i], b[j])
  <2>1. CASE a[i] = b[j]
    BY <1>2, <1>6, <2>1 DEF ReplacementCost
  <2>2. CASE a[i] # b[j]
    <3>1. Cardinality(B \cup {i}) = Cardinality(B) + 1
      BY <1>2, <1>5, FS_AddElement
    <3> QED
      BY <1>6, <2>2, <3>1 DEF ReplacementCost
  <2> QED
    BY <2>1, <2>2
<1>10. ReplacementCost(a[i], b[j]) \in Int
  BY DEF ReplacementCost
<1> DEFINE c == Cardinality(C)
           e == Cardinality(B)
           x == ReplacementCost(a[i], b[j])
<1>11. /\ c \in Int /\ e \in Int /\ x \in Int
       /\ Paid(a, b, letters + 2, f) = (letters + 2) - 2 * (c + 1) + (e + x)
       /\ Paid(a, b, letters, g) = letters - 2 * c + e
  BY <1>2, <1>7, <1>8, <1>9, <1>10
<1>12. (letters + 2) - 2 * (c + 1) + (e + x) = (letters - 2 * c + e) + x
  <2> HIDE DEF c, e, x
  <2> QED
    BY <1>11
<1> QED
  BY <1>11, <1>12

\* From fewer letters to more: some are left out, or one is made into another.
LEMMA KeepMore ==
  ASSUME NEW a, NEW b, NEW i \in Nat \ {0}, NEW j \in Nat \ {0}
  PROVE  /\ \A f : IsKept(f, i - 1, j) \/ IsKept(f, i, j - 1) => IsKept(f, i, j)
         /\ \A g : IsKept(g, i - 1, j - 1) =>
              \E f : OneLonger(f, g, i, j)
<1>1. 1 .. i - 1 \subseteq 1 .. i /\ 1 .. j - 1 \subseteq 1 .. j /\ i \in 1 .. i /\ j \in 1 .. j
  OBVIOUS
<1>2. \A f : IsKept(f, i - 1, j) \/ IsKept(f, i, j - 1) => IsKept(f, i, j)
  BY <1>1 DEF IsKept
<1>3. ASSUME NEW g, IsKept(g, i - 1, j - 1)
      PROVE  \E f : OneLonger(f, g, i, j)
  <2> DEFINE C == DOMAIN g
             D == C \cup {i}
             f == [k \in D |-> IF k = i THEN j ELSE g[k]]
  <2>1. /\ C \in SUBSET (1 .. i - 1)
        /\ \A k \in C : g[k] \in 1 .. j - 1
        /\ \A k, l \in C : k < l => g[k] < g[l]
    BY <1>3 DEF IsKept
  <2>2. \A k \in C : k # i /\ k < i /\ ~ (i < k) /\ g[k] < j
    BY <2>1
  <2>3. /\ DOMAIN f = D /\ f[i] = j /\ \A k \in C : f[k] = g[k]
        /\ f = [k \in D |-> f[k]]
    BY <2>2
  <2> HIDE DEF f
  <2>4. D \in SUBSET (1 .. i) /\ \A k \in D : f[k] \in 1 .. j
    BY <1>1, <2>1, <2>3
  <2>5. \A k, l \in D : k < l => f[k] < f[l]
    <3> SUFFICES ASSUME NEW k \in D, NEW l \in D, k < l PROVE f[k] < f[l]
      OBVIOUS
    <3>1. k # i
      <4>1. l = i \/ l < i
        BY <2>2
      <4>2. i \in Int /\ l \in Int
        BY <2>4
      <4> QED
        BY <4>1, <4>2
    <3>2. k \in C
      BY <3>1
    <3>3. CASE l = i
      BY <2>2, <2>3, <3>2, <3>3
    <3>4. CASE l \in C
      BY <2>1, <2>3, <3>2, <3>4
    <3> QED
      BY <3>3, <3>4
  <2>6. IsKept(f, i, j)
    BY <2>3, <2>4, <2>5 DEF IsKept
  <2>7. OneLonger(f, g, i, j)
    BY <1>3, <2>2, <2>3, <2>6 DEF OneLonger
  <2> QED
    BY <2>7
<1> QED
  BY <1>2, <1>3

\* From more letters to fewer: the last of one word is left out, or both are kept and
\* the one is made into the other.
LEMMA KeepFewer ==
  ASSUME NEW i \in Nat \ {0}, NEW j \in Nat \ {0}, NEW f, IsKept(f, i, j)
  PROVE  \/ IsKept(f, i - 1, j)
         \/ IsKept(f, i, j - 1)
         \/ \E g : OneLonger(f, g, i, j)
<1> DEFINE D == DOMAIN f
           C == D \ {i}
           g == [k \in C |-> f[k]]
<1>1. /\ D \in SUBSET (1 .. i) /\ f = [k \in D |-> f[k]]
      /\ \A k \in D : f[k] \in 1 .. j
      /\ \A k, l \in D : k < l => f[k] < f[l]
  BY DEF IsKept
<1>2. C \in SUBSET (1 .. i - 1)
  BY <1>1
<1>3. CASE i \notin D
  <2>1. D \in SUBSET (1 .. i - 1)
    BY <1>2, <1>3
  <2> QED
    BY <1>1, <2>1 DEF IsKept
<1>4. CASE i \in D /\ f[i] # j
  <2>1. \A k \in D : k = i \/ k < i
    BY <1>1
  <2>2. f[i] \in Int /\ f[i] <= j - 1
    BY <1>1, <1>4
  <2>3. ASSUME NEW k \in D PROVE f[k] \in 1 .. j - 1
    <3>1. k = i \/ f[k] < f[i]
      BY <1>1, <1>4, <2>1
    <3>2. f[k] \in 1 .. j
      BY <1>1
    <3> QED
      BY <2>2, <3>1, <3>2
  <2> QED
    BY <1>1, <2>3 DEF IsKept
<1>5. CASE i \in D /\ f[i] = j
  <2>1. ASSUME NEW k \in C PROVE f[k] \in 1 .. j - 1
    <3>1. k \in D /\ k < i
      BY <1>2
    <3>2. f[k] \in 1 .. j /\ f[k] < j
      BY <1>1, <1>5, <3>1
    <3> QED
      BY <3>2
  <2>2. DOMAIN g = C /\ g = [k \in C |-> g[k]] /\ \A k \in C : g[k] = f[k]
    OBVIOUS
  <2> HIDE DEF g
  <2>3. IsKept(g, i - 1, j - 1)
    BY <1>1, <1>2, <2>1, <2>2 DEF IsKept
  <2>4. OneLonger(f, g, i, j)
    BY <1>5, <2>2, <2>3 DEF OneLonger
  <2> QED
    BY <2>4
<1> QED
  BY <1>3, <1>4, <1>5

\* n is the least that has to be paid to make the first i letters into the first j.
Fewest(a, b, i, j, n) ==
  /\ \A f : IsKept(f, i, j) => n <= Paid(a, b, i + j, f)
  /\ \E f : IsKept(f, i, j) /\ Paid(a, b, i + j, f) = n

\* It is the least of what the three ways come to.
LEMMA FewestStep ==
  ASSUME NEW a, NEW b, NEW i \in Nat \ {0}, NEW j \in Nat \ {0},
         NEW p \in Int, NEW q \in Int, NEW r \in Int,
         Fewest(a, b, i, j - 1, p), Fewest(a, b, i - 1, j, q), Fewest(a, b, i - 1, j - 1, r)
  PROVE  Fewest(a, b, i, j, Least(Least(p + 1, q + 1), r + ReplacementCost(a[i], b[j])))
<1> DEFINE c == ReplacementCost(a[i], b[j])
           n == Least(Least(p + 1, q + 1), r + c)
           total == i + j
<1>1. /\ i \in Nat /\ j \in Nat /\ i - 1 \in Nat /\ j - 1 \in Nat /\ c \in Int /\ total \in Int
      /\ total - 1 \in Int /\ total - 2 \in Int
      /\ i + (j - 1) = total - 1 /\ (i - 1) + j = total - 1 /\ (i - 1) + (j - 1) = total - 2
      /\ total - 1 + 1 = total /\ total - 2 + 2 = total
  BY DEF ReplacementCost
<1> HIDE DEF c, total
<1>2. n \in Int /\ n <= p + 1 /\ n <= q + 1 /\ n <= r + c /\ (n = p + 1 \/ n = q + 1 \/ n = r + c)
  BY <1>1 DEF Least
<1> HIDE DEF n
<1>3. ASSUME NEW f, IsKept(f, i, j - 1)
      PROVE  Paid(a, b, total - 1, f) \in Int /\ Paid(a, b, total, f) = Paid(a, b, total - 1, f) + 1
  <2>1. Paid(a, b, total - 1 + 1, f) = Paid(a, b, total - 1, f) + 1 /\ Paid(a, b, total - 1, f) \in Int
    BY <1>1, <1>3, PaidIs
  <2> QED
    BY <1>1, <2>1
<1>4. ASSUME NEW f, IsKept(f, i - 1, j)
      PROVE  Paid(a, b, total - 1, f) \in Int /\ Paid(a, b, total, f) = Paid(a, b, total - 1, f) + 1
  <2>1. Paid(a, b, total - 1 + 1, f) = Paid(a, b, total - 1, f) + 1 /\ Paid(a, b, total - 1, f) \in Int
    BY <1>1, <1>4, PaidIs
  <2> QED
    BY <1>1, <2>1
<1>5. ASSUME NEW f, NEW g, OneLonger(f, g, i, j)
      PROVE  /\ IsKept(f, i, j) /\ IsKept(g, i - 1, j - 1)
             /\ Paid(a, b, total - 2, g) \in Int
             /\ Paid(a, b, total, f) = Paid(a, b, total - 2, g) + c
  <2>0. IsKept(f, i, j) /\ IsKept(g, i - 1, j - 1)
    BY <1>5 DEF OneLonger
  <2>1. Paid(a, b, total - 2, g) \in Int
    BY <1>1, <2>0, PaidIs
  <2> DEFINE letters == total - 2
  <2>2. Paid(a, b, letters + 2, f) = Paid(a, b, letters, g) + c
    <3>1. letters \in Int
      BY <1>1
    <3> HIDE DEF letters
    <3>2. PaidMore(a, b, f, g, i, j)
      BY <1>5, OneMoreLetter
    <3> QED
      BY <3>1, <3>2 DEF c, PaidMore
  <2> QED
    BY <1>1, <2>0, <2>1, <2>2
<1>6. /\ \A f : IsKept(f, i, j - 1) => p <= Paid(a, b, total - 1, f)
      /\ \A f : IsKept(f, i - 1, j) => q <= Paid(a, b, total - 1, f)
      /\ \A f : IsKept(f, i - 1, j - 1) => r <= Paid(a, b, total - 2, f)
  BY <1>1 DEF Fewest
<1>7. /\ \E f : IsKept(f, i, j - 1) /\ Paid(a, b, total - 1, f) = p
      /\ \E f : IsKept(f, i - 1, j) /\ Paid(a, b, total - 1, f) = q
      /\ \E f : IsKept(f, i - 1, j - 1) /\ Paid(a, b, total - 2, f) = r
  BY <1>1 DEF Fewest
<1>8. ASSUME NEW f, IsKept(f, i, j) PROVE n <= Paid(a, b, total, f)
  <2>1. CASE IsKept(f, i - 1, j)
    <3>1. /\ q <= Paid(a, b, total - 1, f) /\ Paid(a, b, total - 1, f) \in Int
          /\ Paid(a, b, total, f) = Paid(a, b, total - 1, f) + 1
      BY <1>4, <1>6, <2>1
    <3> QED
      BY <1>2, <3>1
  <2>2. CASE IsKept(f, i, j - 1)
    <3>1. /\ p <= Paid(a, b, total - 1, f) /\ Paid(a, b, total - 1, f) \in Int
          /\ Paid(a, b, total, f) = Paid(a, b, total - 1, f) + 1
      BY <1>3, <1>6, <2>2
    <3> QED
      BY <1>2, <3>1
  <2>3. CASE \E g : OneLonger(f, g, i, j)
    <3>1. PICK g : OneLonger(f, g, i, j)
      BY <2>3
    <3>2. /\ r <= Paid(a, b, total - 2, g) /\ Paid(a, b, total - 2, g) \in Int
          /\ Paid(a, b, total, f) = Paid(a, b, total - 2, g) + c
      BY <1>5, <1>6, <1>8, <3>1
    <3> QED
      BY <1>1, <1>2, <3>2
  <2> QED
    BY <1>8, <2>1, <2>2, <2>3, KeepFewer
<1>9. \E f : IsKept(f, i, j) /\ Paid(a, b, total, f) = n
  <2>1. CASE n = p + 1
    <3>1. PICK f : IsKept(f, i, j - 1) /\ Paid(a, b, total - 1, f) = p
      BY <1>7
    <3>2. IsKept(f, i, j)
      BY <3>1, KeepMore
    <3> QED
      BY <1>3, <2>1, <3>1, <3>2
  <2>2. CASE n = q + 1
    <3>1. PICK f : IsKept(f, i - 1, j) /\ Paid(a, b, total - 1, f) = q
      BY <1>7
    <3>2. IsKept(f, i, j)
      BY <3>1, KeepMore
    <3> QED
      BY <1>4, <2>2, <3>1, <3>2
  <2>3. CASE n = r + c
    <3>1. PICK g : IsKept(g, i - 1, j - 1) /\ Paid(a, b, total - 2, g) = r
      BY <1>7
    <3>2. PICK f : OneLonger(f, g, i, j)
      BY <3>1, KeepMore
    <3> QED
      BY <1>5, <2>3, <3>1, <3>2
  <2> QED
    BY <1>2, <2>1, <2>2, <2>3
<1>10. Fewest(a, b, i, j, n)
  BY <1>8, <1>9 DEF Fewest, total
<1> QED
  BY <1>10 DEF n, c

\* At the edges of the table nothing is kept.
LEMMA FewestAtEdges ==
  ASSUME NEW a, NEW b, NEW i \in Nat, NEW j \in Nat, i = 0 \/ j = 0
  PROVE  Fewest(a, b, i, j, i + j)
<1> DEFINE none == [k \in {} |-> k]
<1>1. IsKept(none, i, j)
  <2>1. DOMAIN none = {} /\ none = [k \in DOMAIN none |-> none[k]]
    OBVIOUS
  <2> HIDE DEF none
  <2> QED
    BY <2>1 DEF IsKept
<1> HIDE DEF none
<1>2. ASSUME NEW f, IsKept(f, i, j) PROVE Paid(a, b, i + j, f) = i + j
  <2> DEFINE letters == i + j
  <2>1. letters \in Int
    OBVIOUS
  <2> HIDE DEF letters
  <2>2. Paid(a, b, letters, f) = letters
    BY <1>2, <2>1, PaidIs
  <2> QED
    BY <2>2 DEF letters
<1>3. i + j <= i + j
  OBVIOUS
<1> QED
  BY <1>1, <1>2, <1>3 DEF Fewest

\* Each place of the table has the fewest edits of what was read so far.
LEMMA TableHasFewest ==
  ASSUME NEW a, NEW b, NEW n \in Nat, NEW m \in Nat, NEW t, IsTable(t, a, b, n, m)
  PROVE  \A i \in 0 .. n, j \in 0 .. m : t[i][j] \in Int /\ Fewest(a, b, i, j, t[i][j])
<1> DEFINE Good(i, j) == Fewest(a, b, i, j, t[i][j])
           T == {i \in 0 .. n : \A j \in 0 .. m : Good(i, j)}
<1>1. ASSUME NEW i \in 0 .. n, NEW j \in 0 .. m PROVE t[i][j] \in Int
  <2>1. t[i] \in [0 .. m -> Int]
    BY DEF IsTable
  <2> QED
    BY <2>1
<1>2. \A j \in 0 .. m : Good(0, j)
  <2> SUFFICES ASSUME NEW j \in 0 .. m PROVE Good(0, j)
    OBVIOUS
  <2>1. t[0][j] = j
    BY DEF IsTable
  <2>2. Fewest(a, b, 0, j, 0 + j) /\ 0 + j = j
    BY FewestAtEdges
  <2> QED
    BY <2>1, <2>2
<1>3. \A i \in 0 .. n : Good(i, 0)
  <2> SUFFICES ASSUME NEW i \in 0 .. n PROVE Good(i, 0)
    OBVIOUS
  <2>1. t[i][0] = i
    BY DEF IsTable
  <2>2. Fewest(a, b, i, 0, i + 0) /\ i + 0 = i
    BY FewestAtEdges
  <2> QED
    BY <2>1, <2>2
<1>4. ASSUME NEW i \in 1 .. n, i - 1 \in T PROVE i \in T
  <2> DEFINE R == {j \in 0 .. m : Good(i, j)}
  <2>0. i \in 0 .. n /\ i - 1 \in 0 .. n /\ 0 \in 0 .. m /\ i \in Nat \ {0}
    OBVIOUS
  <2>1. 0 \in R
    BY <1>3, <2>0
  <2>2. ASSUME NEW j \in 1 .. m, j - 1 \in R PROVE j \in R
    <3>1. j \in 0 .. m /\ j - 1 \in 0 .. m /\ j \in Nat \ {0}
      OBVIOUS
    <3>2. Good(i, j - 1) /\ Good(i - 1, j) /\ Good(i - 1, j - 1)
      BY <1>4, <2>2, <3>1
    <3>3. t[i][j - 1] \in Int /\ t[i - 1][j] \in Int /\ t[i - 1][j - 1] \in Int
      BY <1>1, <2>0, <3>1
    <3> DEFINE p == t[i][j - 1]
               q == t[i - 1][j]
               r == t[i - 1][j - 1]
    <3>4. /\ p \in Int /\ q \in Int /\ r \in Int
          /\ Fewest(a, b, i, j - 1, p) /\ Fewest(a, b, i - 1, j, q) /\ Fewest(a, b, i - 1, j - 1, r)
      BY <3>2, <3>3
    <3>5. t[i][j] = Least(Least(p + 1, q + 1), r + ReplacementCost(a[i], b[j]))
      BY DEF IsTable
    <3> HIDE DEF p, q, r
    <3>6. Fewest(a, b, i, j, Least(Least(p + 1, q + 1), r + ReplacementCost(a[i], b[j])))
      BY <2>0, <3>1, <3>4, FewestStep
    <3> QED
      BY <3>1, <3>5, <3>6
  <2>3. 0 .. m \subseteq R
    <3> HIDE DEF R
    <3> QED
      BY <2>1, <2>2, Reached
  <2> QED
    BY <2>0, <2>3
<1>5. 0 .. n \subseteq T
  <2>1. 0 \in T
    BY <1>2
  <2> HIDE DEF T
  <2> QED
    BY <1>4, <2>1, Reached
<1> QED
  BY <1>1, <1>5

\* The edit distance is the fewest edits.
LEMMA DistanceIsFewest ==
  ASSUME NEW X, NEW x \in Seq(X), NEW y \in Seq(X)
  PROVE  Distance(x, y) = FewestEdits(x, y)
<1> DEFINE n == Len(x)
           m == Len(y)
           t == TableFcn(x, y)
           u == TableFcn(y, x)
<1>1. n \in Nat /\ m \in Nat /\ n \in 0 .. n /\ m \in 0 .. m /\ DOMAIN x = 1 .. n /\ DOMAIN y = 1 .. m
  OBVIOUS
<1>2. IsTable(t, x, y, n, m) /\ IsTable(u, y, x, m, n)
  BY <1>1, TableIs
<1>3. t[n][m] = u[m][n] /\ t[n][m] \in Int /\ Fewest(x, y, n, m, t[n][m])
  <2> HIDE DEF n, m, t, u
  <2>1. Mirrored(t, u, n, m)
    BY <1>1, <1>2, TablesMirrored
  <2>2. \A i \in 0 .. n, j \in 0 .. m : t[i][j] \in Int /\ Fewest(x, y, i, j, t[i][j])
    BY <1>1, <1>2, TableHasFewest
  <2> QED
    BY <1>1, <2>1, <2>2 DEF Mirrored
<1>4. Distance(x, y) = t[n][m]
  <2>1. CASE n < m
    <3>1. Distance(x, y) = u[m][n]
      BY <2>1, DistanceIs
    <3> QED
      BY <1>3, <3>1
  <2>2. CASE ~ (n < m)
    BY <2>2, DistanceIs
  <2> QED
    BY <2>1, <2>2
<1>5. ASSUME NEW f PROVE f \in Alignments(x, y) <=> IsKept(f, n, m)
  <2>1. ASSUME f \in Alignments(x, y) PROVE IsKept(f, n, m)
    <3>1. PICK kept \in SUBSET (1 .. n) : f \in [kept -> 1 .. m]
      BY <1>1, <2>1 DEF Alignments
    <3>2. \A i, j \in DOMAIN f : i < j => f[i] < f[j]
      BY <2>1 DEF Alignments
    <3> HIDE DEF n, m
    <3> QED
      BY <3>1, <3>2 DEF IsKept
  <2>2. ASSUME IsKept(f, n, m) PROVE f \in Alignments(x, y)
    <3>1. DOMAIN f \in SUBSET DOMAIN x /\ f \in [DOMAIN f -> DOMAIN y]
      BY <1>1, <2>2 DEF IsKept
    <3>2. \A i, j \in DOMAIN f : i < j => f[i] < f[j]
      BY <2>2 DEF IsKept
    <3> QED
      BY <3>1, <3>2 DEF Alignments
  <2> QED
    BY <2>1, <2>2
<1>6. \A f : Edits(x, y, f) = Paid(x, y, n + m, f)
  BY Zenon DEF Edits, Paid, Replaced
<1> DEFINE S == {Edits(x, y, f) : f \in Alignments(x, y)}
           d == t[n][m]
<1>7. d \in S
  <2>1. PICK f : IsKept(f, n, m) /\ Paid(x, y, n + m, f) = d
    BY <1>3 DEF Fewest
  <2> QED
    BY <1>5, <1>6, <2>1
<1>8. ASSUME NEW s \in S PROVE s \in Int /\ d <= s
  <2>1. PICK f \in Alignments(x, y) : s = Edits(x, y, f)
    OBVIOUS
  <2>2. IsKept(f, n, m) /\ s = Paid(x, y, n + m, f)
    BY <1>5, <1>6, <2>1
  <2>3. n + m \in Int
    BY <1>1
  <2>4. Paid(x, y, n + m, f) \in Int
    <3> HIDE DEF n, m
    <3> QED
      BY <1>1, <2>2, <2>3, PaidIs
  <2>5. d <= Paid(x, y, n + m, f)
    BY <1>3, <2>2 DEF Fewest
  <2> QED
    BY <2>2, <2>4, <2>5
<1>9. Min(S) = d
  <2>1. d \in Int
    BY <1>3
  <2> HIDE DEF S, d
  <2>2. \E s \in S : \A r \in S : s <= r
    BY <1>7, <1>8
  <2>3. Min(S) \in S /\ \A r \in S : Min(S) <= r
    BY <2>2 DEF Min
  <2>4. Min(S) \in Int /\ Min(S) <= d /\ d <= Min(S)
    BY <1>7, <1>8, <2>3
  <2> QED
    BY <2>1, <2>4
<1> QED
  BY <1>4, <1>9 DEF FewestEdits

\* For words of any length, the table finds the fewest letters to insert, delete or
\* replace.
THEOREM FewestEditsFound == CasesSpec => []DistanceIsFewestEdits
<1>1. ASSUME CasesInv PROVE DistanceIsFewestEdits
  <2> SUFFICES ASSUME NEW a \in {word.ipa : word \in ToSet(line)},
                      NEW b \in {word.ipa : word \in ToSet(line)}
               PROVE  Distance(a, b) = FewestEdits(a, b)
    BY DEF DistanceIsFewestEdits
  <2>1. \A word \in ToSet(line) : word \in Word
    BY <1>1 DEF CasesInv, ToSet
  <2>2. \A word \in ToSet(line) : word.ipa \in Seq(STRING)
    BY <2>1 DEF Word
  <2>3. a \in Seq(STRING) /\ b \in Seq(STRING)
    BY <2>2
  <2> QED
    BY <2>3, DistanceIsFewest
<1> QED
  BY <1>1, LinesAreWords, PTL

-----------------------------------------------------------------------------
(***************************************************************************)
(* Which line of a pair comes first does not matter                        *)
(***************************************************************************)

\* Words may be compared in either order.
LEMMA SimilaritySymmetric ==
  ASSUME NEW X, NEW a \in Seq(X), NEW b \in Seq(X)
  PROVE  /\ Similarity(a, b) = Similarity(b, a)
         /\ a # <<>> \/ b # <<>> =>
              /\ Similarity(a, b) = <<Similarity(a, b)[1], Similarity(a, b)[2]>>
              /\ Similarity(a, b)[1] \in Int /\ Similarity(a, b)[2] \in Nat \ {0}
<1>1. Len(a) \in Nat /\ Len(b) \in Nat /\ (a = <<>> <=> Len(a) = 0) /\ (b = <<>> <=> Len(b) = 0)
  OBVIOUS
<1>2. Distance(a, b) \in Int /\ Distance(a, b) = Distance(b, a)
  BY <1>1, DistanceSymmetric
<1>3. Longer(a, b) = Longer(b, a) /\ Longer(a, b) \in Nat
  BY <1>1 DEF Longer
<1>4. a # <<>> \/ b # <<>> => Longer(a, b) # 0
  BY <1>1 DEF Longer
<1>5. Similarity(a, b) = Similarity(b, a)
  BY <1>2, <1>3 DEF Similarity
<1>6. ASSUME a # <<>> \/ b # <<>>
      PROVE  /\ Similarity(a, b) = <<Similarity(a, b)[1], Similarity(a, b)[2]>>
             /\ Similarity(a, b)[1] \in Int /\ Similarity(a, b)[2] \in Nat \ {0}
  <2>1. Similarity(a, b) = <<Longer(a, b) - Distance(a, b), Longer(a, b)>>
    BY <1>6 DEF Similarity
  <2>2. Longer(a, b) - Distance(a, b) \in Int /\ Longer(a, b) \in Nat \ {0}
    BY <1>2, <1>3, <1>4, <1>6
  <2> QED
    BY <2>1, <2>2
<1> QED
  BY <1>5, <1>6

\* A set of positions with a member has a first one.
LEMMA FirstPosition ==
  ASSUME NEW N \in Nat, NEW S \in SUBSET (1 .. N), S # {}
  PROVE  Min(S) \in S /\ \A i \in S : Min(S) <= i
<1>1. S \in SUBSET Nat
  OBVIOUS
<1>2. \E i \in S : \A j \in S : i <= j
  BY <1>1, LeastNat
<1> QED
  BY <1>2 DEF Min

\* The consonants after the stressed vowel are letters of the part.
LEMMA ConsonantsAre ==
  ASSUME NEW X, NEW part \in Seq(X)
  PROVE  StressedConsonants(part) \in Seq(X)
<1> DEFINE V == VowelPositions(part)
           first == Min(V)
           others == (V \ {first}) \cup {Len(part) + 1}
           next == Min(others)
<1>1. Len(part) \in Nat /\ V \in SUBSET (1 .. Len(part))
  BY DEF VowelPositions
<1>2. CASE V = {}
  BY <1>2 DEF StressedConsonants
<1>3. CASE V # {}
  <2>1. first \in 1 .. Len(part)
    <3> HIDE DEF V
    <3> QED
      BY <1>1, <1>3, FirstPosition
  <2> HIDE DEF first, V
  <2>2. next \in 1 .. Len(part) + 1
    <3>1. Len(part) + 1 \in Nat /\ Len(part) + 1 \in 1 .. Len(part) + 1
      BY <1>1
    <3>2. V \subseteq 1 .. Len(part) + 1
      BY <1>1
    <3>3. others \in SUBSET (1 .. Len(part) + 1) /\ others # {}
      BY <3>1, <3>2
    <3> HIDE DEF others
    <3> QED
      BY <3>1, <3>3, FirstPosition
  <2> HIDE DEF next
  <2>3. StressedConsonants(part) = SubSeq(part, first + 1, next - 1)
    BY <1>3 DEF StressedConsonants, first, next, V
  <2>4. CASE first + 1 <= next - 1
    <3>1. first + 1 \in 1 .. Len(part) /\ next - 1 \in 1 .. Len(part)
      BY <1>1, <2>1, <2>2, <2>4
    <3>2. SubSeq(part, first + 1, next - 1) \in Seq(X)
      BY <3>1
    <3> QED
      BY <2>3, <3>2
  <2>5. CASE ~ (first + 1 <= next - 1)
    <3>1. SubSeq(part, first + 1, next - 1) = <<>>
      BY <1>1, <2>1, <2>2, <2>5
    <3>2. <<>> \in Seq(X)
      OBVIOUS
    <3> QED
      BY <2>3, <3>1, <3>2
  <2> QED
    BY <2>4, <2>5
<1> QED
  BY <1>2, <1>3

\* Nor does anything that is found of two parts depend on the order, ...
LEMMA AlignSymmetric ==
  ASSUME NEW X, NEW a \in Seq(X), NEW b \in Seq(X)
  PROVE  Align(a, b) = Align(b, a)
<1> DEFINE c == StressedConsonants(a)
           d == StressedConsonants(b)
<1>1. c \in Seq(X) /\ d \in Seq(X)
  BY ConsonantsAre
<1> HIDE DEF c, d
<1>2. Similarity(c, d) = Similarity(d, c)
  BY <1>1, SimilaritySymmetric
<1>3. /\ Align(a, b) \in BOOLEAN /\ Align(b, a) \in BOOLEAN
      /\ Align(a, b) <=> Align(b, a)
  BY <1>2, Zenon DEF Align, c, d
<1> QED
  BY <1>3

\* ... the score is a fraction, ...
LEMMA ScoreSymmetric ==
  ASSUME NEW X, NEW a \in Seq(X), NEW b \in Seq(X)
  PROVE  /\ Score(a, b) = Score(b, a)
         /\ Score(a, b)[1] \in Int /\ Score(a, b)[2] \in Nat \ {0}
<1>1. CASE a = <<>> \/ b = <<>>
  <2>1. Score(a, b) = <<0, 1>> /\ Score(b, a) = <<0, 1>>
    BY <1>1 DEF Score
  <2> QED
    BY <2>1
<1>2. CASE a # <<>> /\ b # <<>>
  <2>1. Score(a, b) = Similarity(a, b) /\ Score(b, a) = Similarity(b, a)
    BY <1>2 DEF Score
  <2> QED
    BY <1>2, <2>1, SimilaritySymmetric
<1> QED
  BY <1>1, <1>2

\* Are of two parts the vowels or the consonants alike?
AlikeOn(a, b, n, vowels) ==
  AtLeast(Similarity(Channel(Suffix(a, Len(a) - n + 1), vowels),
                     Channel(Suffix(b, Len(b) - n + 1), vowels)), 75)

\* An ending is made of the letters.
LEMMA EndingIs ==
  ASSUME NEW X, NEW a \in Seq(X), NEW n \in 0 .. Len(a), NEW S
  PROVE  Filter(Suffix(a, Len(a) - n + 1), S) \in Seq(X)
<1>1. Suffix(a, Len(a) - n + 1) \in Seq(X)
  <2>1. Len(a) \in Nat /\ n \in Nat /\ n <= Len(a)
    OBVIOUS
  <2>2. CASE n = 0
    <3>1. Len(a) - n + 1 > Len(a)
      BY <2>1, <2>2
    <3>2. SubSeq(a, Len(a) - n + 1, Len(a)) = <<>>
      BY <2>1, <2>2
    <3> QED
      BY <3>2 DEF Suffix
  <2>3. CASE n # 0
    <3>1. Len(a) - n + 1 \in 1 .. Len(a) /\ Len(a) \in 1 .. Len(a)
      BY <2>1, <2>3
    <3>2. SubSeq(a, Len(a) - n + 1, Len(a)) \in Seq(X)
      BY <3>1
    <3> QED
      BY <3>2 DEF Suffix
  <2> QED
    BY <2>2, <2>3
<1> QED
  BY <1>1, FilterPicks

\* ... and so is the precision.
LEMMA PrecisionSymmetric ==
  ASSUME NEW X, NEW a \in Seq(X), NEW b \in Seq(X)
  PROVE  Precision(a, b) = Precision(b, a)
<1> DEFINE n == IF Len(a) < Len(b) THEN Len(a) ELSE Len(b)
           m == IF Len(b) < Len(a) THEN Len(b) ELSE Len(a)
           alike == {vowels \in BOOLEAN : AlikeOn(a, b, n, vowels)}
           other == {vowels \in BOOLEAN : AlikeOn(b, a, m, vowels)}
<1>1. m = n /\ n \in 0 .. Len(a) /\ n \in 0 .. Len(b)
  OBVIOUS
<1>2. ASSUME NEW vowels \in BOOLEAN PROVE AlikeOn(a, b, n, vowels) <=> AlikeOn(b, a, n, vowels)
  <2> DEFINE c == Channel(Suffix(a, Len(a) - n + 1), vowels)
             d == Channel(Suffix(b, Len(b) - n + 1), vowels)
  <2> HIDE DEF n
  <2>1. c \in Seq(X) /\ d \in Seq(X)
    BY <1>1, EndingIs DEF Channel
  <2>2. (AlikeOn(a, b, n, vowels) <=> AtLeast(Similarity(c, d), 75))
        /\ (AlikeOn(b, a, n, vowels) <=> AtLeast(Similarity(d, c), 75))
    BY Zenon DEF AlikeOn
  <2> HIDE DEF c, d
  <2>3. Similarity(c, d) = Similarity(d, c)
    BY <2>1, SimilaritySymmetric
  <2> QED
    BY <2>2, <2>3, Zenon
<1>3. alike = other
  <2> HIDE DEF n, m
  <2>1. other = {vowels \in BOOLEAN : AlikeOn(b, a, n, vowels)}
    BY <1>1
  <2> QED
    BY <1>2, <2>1
<1>4. Score(a, b) = Score(b, a)
  BY ScoreSymmetric
<1> DEFINE verdict(k, found, score) ==
             IF k = 0 THEN "NONE"
             ELSE IF AtLeast(score, 95) THEN "EXACT"
             ELSE CASE found = {TRUE}         -> "ASSONANCE"
                    [] found = {FALSE}        -> "CONSONANCE"
                    [] Cardinality(found) # 1 -> IF score[1] > 0 THEN "INEXACT" ELSE "NONE"
<1>5. Precision(a, b) = verdict(n, alike, Score(a, b))
  BY Zenon DEF Precision, AlikeOn
<1>6. Precision(b, a) = verdict(m, other, Score(b, a))
  BY Zenon DEF Precision, AlikeOn
<1> HIDE DEF verdict, alike, other, n, m
<1> QED
  BY <1>1, <1>3, <1>4, <1>5, <1>6

\* Being closer is a strict order of fractions with a positive denominator, and two of
\* which none is closer are over the same thresholds.
LEMMA CloserOrders ==
  ASSUME NEW a \in Int, NEW b \in Int, NEW c \in Int,
         NEW p \in Nat \ {0}, NEW q \in Nat \ {0}, NEW t \in Nat \ {0}
  PROVE  /\ a * q > b * p /\ b * t > c * q => a * t > c * p
         /\ ~ (a * q > b * p) /\ ~ (b * p > a * q) =>
              \A k \in Nat : 100 * a >= k * p <=> 100 * b >= k * q
<1>1. ASSUME a * q > b * p, b * t > c * q PROVE a * t > c * p
  <2>1. (a * q) * t > (b * p) * t
    <3> DEFINE x == a * q
               y == b * p
    <3>1. x \in Int /\ y \in Int /\ t \in Int /\ t > 0 /\ x > y
      BY <1>1
    <3> HIDE DEF x, y
    <3>2. x * t > y * t
      BY <3>1
    <3> QED
      BY <3>2 DEF x, y
  <2>2. (b * t) * p > (c * q) * p
    <3> DEFINE x == b * t
               y == c * q
    <3>1. x \in Int /\ y \in Int /\ p \in Int /\ p > 0 /\ x > y
      BY <1>1
    <3> HIDE DEF x, y
    <3>2. x * p > y * p
      BY <3>1
    <3> QED
      BY <3>2 DEF x, y
  <2>3. /\ (a * q) * t = (a * t) * q /\ (b * p) * t = (b * t) * p
        /\ (c * q) * p = (c * p) * q
    OBVIOUS
  <2> DEFINE u == a * t
             v == c * p
  <2>4. u \in Int /\ v \in Int /\ u * q > v * q
    <3>1. (a * q) * t \in Int /\ (b * p) * t \in Int /\ (c * q) * p \in Int
      OBVIOUS
    <3> DEFINE A == (a * q) * t
               B == (b * p) * t
               C == (c * q) * p
    <3>2. A \in Int /\ B \in Int /\ C \in Int /\ A > B /\ B > C
      BY <2>1, <2>2, <2>3, <3>1
    <3>3. A = (a * t) * q /\ C = (c * p) * q
      BY <2>3
    <3> HIDE DEF A, B, C
    <3>4. (a * t) * q > (c * p) * q
      BY <3>2, <3>3
    <3> QED
      BY <3>4
  <2> HIDE DEF u, v
  <2>5. u > v
    <3>1. SUFFICES ASSUME ~ (u > v) PROVE FALSE
      OBVIOUS
    <3>2. v - u \in Nat /\ q \in Nat
      BY <2>4, <3>1
    <3>3. (v - u) * q >= 0
      BY <3>2
    <3>4. (v - u) * q = v * q - u * q
      BY <2>4
    <3> QED
      BY <2>4, <3>3, <3>4
  <2> QED
    BY <2>5 DEF u, v
<1>2. ASSUME ~ (a * q > b * p), ~ (b * p > a * q), NEW k \in Nat
      PROVE  100 * a >= k * p <=> 100 * b >= k * q
  <2>1. a * q = b * p
    <3> DEFINE x == a * q
               y == b * p
    <3>1. x \in Int /\ y \in Int /\ ~ (x > y) /\ ~ (y > x)
      BY <1>2
    <3> HIDE DEF x, y
    <3>2. x = y
      BY <3>1
    <3> QED
      BY <3>2 DEF x, y
  <2> DEFINE x == 100 * a - k * p
             y == 100 * b - k * q
  <2>2. x \in Int /\ y \in Int /\ x * q = y * p
    <3>1. x \in Int /\ y \in Int
      OBVIOUS
    <3>2. x * q = 100 * (a * q) - (k * p) * q /\ y * p = 100 * (b * p) - (k * q) * p
      OBVIOUS
    <3>3. (k * p) * q = (k * q) * p
      OBVIOUS
    <3> QED
      BY <2>1, <3>1, <3>2, <3>3
  <2>3. 100 * a >= k * p <=> x >= 0
    <3> DEFINE z == k * p
    <3>1. z \in Int
      OBVIOUS
    <3> HIDE DEF z
    <3>2. 100 * a >= z <=> 100 * a - z >= 0
      BY <3>1
    <3> QED
      BY <3>2 DEF z
  <2>4. 100 * b >= k * q <=> y >= 0
    <3> DEFINE z == k * q
    <3>1. z \in Int
      OBVIOUS
    <3> HIDE DEF z
    <3>2. 100 * b >= z <=> 100 * b - z >= 0
      BY <3>1
    <3> QED
      BY <3>2 DEF z
  <2> HIDE DEF x, y
  <2>5. p > 0 /\ q > 0 /\ p \in Int /\ q \in Int
    OBVIOUS
  <2>6. (x >= 0 => x * q >= 0) /\ (x < 0 => x * q < 0)
    BY <2>2, <2>5
  <2>7. (y >= 0 => y * p >= 0) /\ (y < 0 => y * p < 0)
    BY <2>2, <2>5
  <2>8. x >= 0 <=> y >= 0
    <3> DEFINE z == x * q
    <3>1. z \in Int /\ z = y * p
      BY <2>2
    <3>2. (x >= 0 => z >= 0) /\ (x < 0 => z < 0)
      BY <2>6
    <3> HIDE DEF z
    <3>3. (y >= 0 => z >= 0) /\ (y < 0 => z < 0)
      BY <2>7, <3>1
    <3> QED
      BY <2>2, <3>1, <3>2, <3>3
  <2> QED
    BY <2>3, <2>4, <2>8
<1> QED
  BY <1>1, <1>2

\* A word has one or two candidates.
LEMMA CandidatesAre ==
  ASSUME NEW word \in Word
  PROVE  /\ Candidates(word) \in Seq(Seq(STRING))
         /\ Len(Candidates(word)) \in {1, 2}
<1>1. word.ipa \in Seq(STRING) /\ Resolve(word) \in Nat /\ Penultimate(word) \in Nat
  BY DEF Word, Resolve, GuessStress, Penultimate
<1>2. ASSUME NEW stress \in Nat PROVE RhymePart(word, stress) \in Seq(STRING)
  <2> DEFINE ipa == word.ipa
             count == Cardinality(VowelPositions(ipa))
             n == Least(stress, count - 1)
  <2>1. count \in Nat /\ VowelPositions(ipa) \in SUBSET (1 .. Len(ipa)) /\ Len(ipa) \in Nat
    BY <1>1, VowelsCounted
  <2>2. CASE count = 0
    BY <1>1, <2>2 DEF RhymePart
  <2>3. CASE count # 0
    <3>1. n \in Nat /\ n < count
      <4> HIDE DEF count
      <4> QED
        BY <2>1, <2>3 DEF Least
    <3> HIDE DEF n
    <3> DEFINE i == VowelAt(ipa, n)
    <3>2. i \in VowelPositions(ipa)
      <4>1. \E k \in VowelPositions(ipa) : Cardinality(Below(VowelPositions(ipa), k)) = n
        <5> DEFINE V == VowelPositions(ipa)
        <5>1. Len(ipa) \in Nat /\ V \in SUBSET (1 .. Len(ipa)) /\ n < Cardinality(V)
          BY <2>1, <3>1
        <5> HIDE DEF V
        <5> QED
          BY <3>1, <5>1, OneHasSoManyBelow DEF V
      <4> QED
        BY <4>1 DEF VowelAt, Below
    <3>3. i \in 1 .. Len(ipa)
      BY <2>1, <3>2
    <3> HIDE DEF i
    <3>4. Len(ipa) \in 1 .. Len(ipa)
      BY <2>1, <3>3
    <3> DEFINE s == word.ipa
    <3>5. s \in Seq(STRING) /\ i \in 1 .. Len(s) /\ Len(s) \in 1 .. Len(s)
      BY <1>1, <3>3, <3>4
    <3> HIDE DEF s
    <3>6. SubSeq(s, i, Len(s)) \in Seq(STRING)
      BY <3>5
    <3>7. RhymePart(word, stress) = SubSeq(s, i, Len(s))
      BY <2>3 DEF RhymePart, Suffix, i, n, s
    <3> QED
      BY <3>6, <3>7
  <2> QED
    BY <2>2, <2>3
<1> DEFINE first == RhymePart(word, Resolve(word))
           second == RhymePart(word, Penultimate(word))
<1>3. first \in Seq(STRING) /\ second \in Seq(STRING)
  BY <1>1, <1>2
<1>4. Candidates(word) = <<first>> \/ Candidates(word) = <<first, second>>
  BY DEF Candidates
<1> DEFINE Q == Seq(STRING)
<1>5. first \in Q /\ second \in Q
  BY <1>3
<1> HIDE DEF first, second, Q
<1>6. /\ <<first>> \in Seq(Q) /\ Len(<<first>>) = 1
      /\ <<first, second>> \in Seq(Q) /\ Len(<<first, second>>) = 2
  BY <1>5
<1> QED
  BY <1>4, <1>6 DEF Q

\* The numbers of the pairings are those of the pairs of places.
EveryPairing(n, m) ==
  /\ n * m \in Nat
  /\ \A k \in 1 .. n * m : ((k - 1) \div m) + 1 \in 1 .. n /\ ((k - 1) % m) + 1 \in 1 .. m
  /\ \A i \in 1 .. n, j \in 1 .. m : \E k \in 1 .. n * m :
       ((k - 1) \div m) + 1 = i /\ ((k - 1) % m) + 1 = j

\* They are, for the numbers of candidates there may be.
LEMMA PairingsAre ==
  ASSUME NEW n \in {1, 2}, NEW m \in {1, 2}
  PROVE  EveryPairing(n, m)
<1>1. CASE m = 1
  <2>1. n * m = n /\ n \in Nat
    BY <1>1
  <2>2. \A k \in 1 .. n : ((k - 1) \div m) + 1 = k /\ ((k - 1) % m) + 1 = 1
    BY <1>1
  <2> QED
    BY <1>1, <2>1, <2>2 DEF EveryPairing
<1>2. CASE m = 2 /\ n = 1
  <2>1. n * m = 2
    BY <1>2
  <2>2. ((1 - 1) \div 2) + 1 = 1 /\ ((2 - 1) \div 2) + 1 = 1
    OBVIOUS
  <2>3. ((1 - 1) % 2) + 1 = 1 /\ ((2 - 1) % 2) + 1 = 2
    OBVIOUS
  <2>4. 1 .. 2 = {1, 2} /\ 1 .. 1 = {1}
    OBVIOUS
  <2> QED
    BY <1>2, <2>1, <2>2, <2>3, <2>4 DEF EveryPairing
<1>3. CASE m = 2 /\ n = 2
  <2>1. n * m = 4
    BY <1>3
  <2>2. /\ ((1 - 1) \div 2) + 1 = 1 /\ ((2 - 1) \div 2) + 1 = 1
        /\ ((3 - 1) \div 2) + 1 = 2 /\ ((4 - 1) \div 2) + 1 = 2
    OBVIOUS
  <2>3. /\ ((1 - 1) % 2) + 1 = 1 /\ ((2 - 1) % 2) + 1 = 2
        /\ ((3 - 1) % 2) + 1 = 1 /\ ((4 - 1) % 2) + 1 = 2
    OBVIOUS
  <2>4. 1 .. 4 = {1, 2, 3, 4} /\ 1 .. 2 = {1, 2}
    OBVIOUS
  <2> QED
    BY <1>3, <2>1, <2>2, <2>3, <2>4 DEF EveryPairing
<1> QED
  BY <1>1, <1>2, <1>3

\* Nothing is found.
NoRating(p, q) ==
  [a |-> p, b |-> q, aligned |-> FALSE, score |-> <<0, 1>>, precision |-> "NONE"]

\* p and q align, and of all pairs that do none is closer.
ClosestPair(S, T, p, q) ==
  /\ p \in S /\ q \in T /\ Align(p, q)
  /\ \A v \in S, w \in T : Align(v, w) => ~ Closer(Score(v, w), Score(p, q))

\* What analyze finds is the rating of a closest pair, or nothing if no pair aligns.
LEMMA AnalyzeIs ==
  ASSUME NEW wordA \in Word, NEW wordB \in Word
  PROVE  LET S == ToSet(Candidates(wordA))
             T == ToSet(Candidates(wordB))
         IN  \/ /\ \A p \in S, q \in T : ~ Align(p, q)
                /\ \E p \in S, q \in T : Analyze(wordA, wordB) = NoRating(p, q)
             \/ \E p \in S, q \in T :
                  ClosestPair(S, T, p, q) /\ Analyze(wordA, wordB) = Rating(p, q)
<1> DEFINE ca == Candidates(wordA)
           cb == Candidates(wordB)
           S == ToSet(ca)
           T == ToSet(cb)
           n == Len(ca)
           m == Len(cb)
           pairs == Pairings(ca, cb)
           rating == [pair \in S \X T |-> Rating(pair[1], pair[2])]
           rated == [k \in DOMAIN pairs |-> rating[pairs[k]]]
           aligned == {k \in DOMAIN rated : rated[k].aligned}
           closest == {k \in aligned : \A l \in aligned : ~ Closer(rated[l].score, rated[k].score)}
<1>1. /\ ca \in Seq(Seq(STRING)) /\ n \in {1, 2} /\ cb \in Seq(Seq(STRING)) /\ m \in {1, 2}
  BY CandidatesAre
<1>2. Analyze(wordA, wordB) = IF aligned = {} THEN NoRating(ca[1], cb[1]) ELSE rated[Min(closest)]
  BY DEF Analyze, NoRating
<1> HIDE DEF ca, cb
<1>3. /\ \A i \in 1 .. n : ca[i] \in S /\ ca[i] \in Seq(STRING)
      /\ \A p \in S : p \in Seq(STRING) /\ \E i \in 1 .. n : p = ca[i]
  BY <1>1 DEF ToSet
<1>4. /\ \A j \in 1 .. m : cb[j] \in T /\ cb[j] \in Seq(STRING)
      /\ \A q \in T : q \in Seq(STRING) /\ \E j \in 1 .. m : q = cb[j]
  BY <1>1 DEF ToSet
<1> HIDE DEF S, T
<1>5. n * m \in Nat /\ DOMAIN pairs = 1 .. n * m /\ DOMAIN rated = 1 .. n * m
  BY <1>1 DEF Pairings
<1>10. EveryPairing(n, m)
  <2>1. n \in {1, 2} /\ m \in {1, 2}
    BY <1>1
  <2> HIDE DEF n, m
  <2> QED
    BY <2>1, PairingsAre
<1>11. ASSUME NEW k \in DOMAIN rated, NEW p \in S, NEW q \in T, pairs[k] = <<p, q>>
       PROVE  rated[k] = Rating(p, q)
  <2>1. <<p, q>> \in S \X T /\ <<p, q>>[1] = p /\ <<p, q>>[2] = q
    OBVIOUS
  <2>2. rating[<<p, q>>] = Rating(p, q)
    BY <2>1
  <2>3. k \in DOMAIN pairs
    OBVIOUS
  <2> HIDE DEF rating, pairs
  <2>4. rated[k] = rating[pairs[k]]
    BY <2>3
  <2> QED
    BY <1>11, <2>2, <2>4
<1>6. ASSUME NEW k \in 1 .. n * m
      PROVE  \E p \in S, q \in T : pairs[k] = <<p, q>> /\ rated[k] = Rating(p, q)
  <2> DEFINE i == ((k - 1) \div m) + 1
             j == ((k - 1) % m) + 1
  <2>1. i \in 1 .. n /\ j \in 1 .. m
    BY <1>10 DEF EveryPairing
  <2>2. pairs[k] = <<ca[i], cb[j]>>
    BY DEF Pairings
  <2> HIDE DEF i, j, pairs
  <2>3. ca[i] \in S /\ cb[j] \in T
    BY <1>3, <1>4, <2>1
  <2>4. rated[k] = Rating(ca[i], cb[j])
    BY <1>5, <1>11, <2>2, <2>3
  <2> QED
    BY <2>2, <2>3, <2>4
<1>7. ASSUME NEW p \in S, NEW q \in T
      PROVE  \E k \in 1 .. n * m : rated[k] = Rating(p, q)
  <2>1. PICK i \in 1 .. n : p = ca[i]
    BY <1>3
  <2>2. PICK j \in 1 .. m : q = cb[j]
    BY <1>4
  <2>3. PICK k \in 1 .. n * m : ((k - 1) \div m) + 1 = i /\ ((k - 1) % m) + 1 = j
    BY <1>10 DEF EveryPairing
  <2>4. pairs[k] = <<p, q>>
    BY <2>1, <2>2, <2>3 DEF Pairings
  <2> HIDE DEF pairs
  <2>5. rated[k] = Rating(p, q)
    BY <1>5, <1>11, <2>4
  <2> QED
    BY <2>5
<1> HIDE DEF rated, pairs, rating
<1>8. CASE aligned = {}
  <2>1. ASSUME NEW p \in S, NEW q \in T PROVE ~ Align(p, q)
    <3>1. PICK k \in 1 .. n * m : rated[k] = Rating(p, q)
      BY <1>7
    <3>2. rated[k].aligned = Align(p, q)
      BY <3>1 DEF Rating
    <3> QED
      BY <1>5, <1>8, <3>2
  <2>2. ca[1] \in S /\ cb[1] \in T
    BY <1>1, <1>3, <1>4
  <2>3. Analyze(wordA, wordB) = NoRating(ca[1], cb[1])
    BY <1>2, <1>8
  <2> QED
    BY <2>1, <2>2, <2>3 DEF S, T, ca, cb
<1>9. CASE aligned # {}
  <2> DEFINE R == {x \in aligned \X aligned : Closer(rated[x[1]].score, rated[x[2]].score)}
  <2>1. aligned \in SUBSET (1 .. n * m) /\ IsFiniteSet(aligned)
    <3>1. aligned \in SUBSET (1 .. n * m)
      BY <1>5
    <3>2. IsFiniteSet(1 .. n * m)
      BY <1>5, FS_Interval
    <3> HIDE DEF aligned
    <3> QED
      BY <3>1, <3>2, FS_Subset
  <2>2. ASSUME NEW k \in 1 .. n * m
        PROVE  rated[k].score[1] \in Int /\ rated[k].score[2] \in Nat \ {0}
    <3>1. PICK p \in S, q \in T : rated[k] = Rating(p, q)
      BY <1>6
    <3>2. p \in Seq(STRING) /\ q \in Seq(STRING) /\ rated[k].score = Score(p, q)
      BY <1>3, <1>4, <3>1 DEF Rating
    <3> QED
      BY <3>2, ScoreSymmetric
  <2>3. \A k, l \in aligned : <<k, l>> \in R <=> Closer(rated[k].score, rated[l].score)
    BY DEF R
  <2>4. StrictOrder(R, aligned)
    <3>1. ASSUME NEW k \in aligned PROVE <<k, k>> \notin R
      <4>1. rated[k].score[1] \in Int /\ rated[k].score[2] \in Nat \ {0}
        BY <2>1, <2>2
      <4> DEFINE x == rated[k].score[1] * rated[k].score[2]
      <4>2. x \in Int
        BY <4>1
      <4>3. Closer(rated[k].score, rated[k].score) <=> x > x
        BY DEF Closer
      <4> HIDE DEF x
      <4>4. ~ (x > x)
        BY <4>2
      <4> QED
        BY <2>3, <4>3, <4>4
    <3>2. ASSUME NEW k \in aligned, NEW l \in aligned, NEW o \in aligned,
                 <<k, l>> \in R, <<l, o>> \in R
          PROVE  <<k, o>> \in R
      <4> DEFINE a == rated[k].score[1]
                 p == rated[k].score[2]
                 b == rated[l].score[1]
                 q == rated[l].score[2]
                 c == rated[o].score[1]
                 t == rated[o].score[2]
      <4>1. /\ a \in Int /\ b \in Int /\ c \in Int
            /\ p \in Nat \ {0} /\ q \in Nat \ {0} /\ t \in Nat \ {0}
        BY <2>1, <2>2
      <4>2. a * q > b * p /\ b * t > c * q
        BY <2>3, <3>2 DEF Closer
      <4> HIDE DEF a, b, c, p, q, t
      <4>3. a * t > c * p
        BY <4>1, <4>2, CloserOrders
      <4>4. Closer(rated[k].score, rated[o].score)
        BY <4>3 DEF Closer, a, c, p, t
      <4> QED
        BY <2>3, <4>4
    <3> HIDE DEF R, aligned
    <3> QED
      BY <3>1, <3>2 DEF StrictOrder
  <2>5. \E k : FirstIn(R, aligned, k)
    <3> HIDE DEF R, aligned
    <3> QED
      BY <1>9, <2>1, <2>4, FirstExists
  <2>6. closest # {} /\ closest \in SUBSET (1 .. n * m)
    <3>1. PICK k : FirstIn(R, aligned, k)
      BY <2>5
    <3>2. k \in aligned /\ \A l \in aligned : <<l, k>> \notin R
      BY <3>1 DEF FirstIn
    <3>3. k \in closest
      BY <2>3, <3>2
    <3> QED
      BY <2>1, <3>3
  <2> DEFINE best == Min(closest)
  <2>7. best \in closest
    <3> HIDE DEF closest
    <3> QED
      BY <1>5, <2>6, FirstPosition
  <2> HIDE DEF best, R
  <2>8. /\ best \in aligned /\ best \in 1 .. n * m /\ rated[best].aligned
        /\ \A l \in aligned : ~ Closer(rated[l].score, rated[best].score)
    BY <2>1, <2>7
  <2>9. PICK p \in S, q \in T : rated[best] = Rating(p, q)
    BY <1>6, <2>8
  <2>10. Align(p, q) /\ rated[best].score = Score(p, q)
    BY <2>8, <2>9 DEF Rating
  <2>11. ASSUME NEW v \in S, NEW w \in T, Align(v, w)
         PROVE  ~ Closer(Score(v, w), Score(p, q))
    <3>1. PICK l \in 1 .. n * m : rated[l] = Rating(v, w)
      BY <1>7
    <3>2. rated[l].aligned /\ rated[l].score = Score(v, w)
      BY <2>11, <3>1 DEF Rating
    <3>3. l \in aligned
      BY <1>5, <3>2
    <3> QED
      BY <2>8, <2>10, <3>2, <3>3
  <2>12. Analyze(wordA, wordB) = Rating(p, q)
    BY <1>2, <1>9, <2>9 DEF best
  <2>13. ClosestPair(S, T, p, q)
    BY <2>9, <2>10, <2>11 DEF ClosestPair
  <2> QED
    BY <2>12, <2>13 DEF S, T, ca, cb
<1> QED
  BY <1>8, <1>9

\* For any two words, whether their lines rhyme and how closely does not depend on
\* which of them comes first; and precision only if another pair of candidates wins.
THEOREM OrderOfLinesIrrelevant == CasesSpec => []RhymeIsSymmetric
<1>1. ASSUME CasesInv PROVE RhymeIsSymmetric
  <2> SUFFICES ASSUME NEW a \in ToSet(line), NEW b \in ToSet(line)
               PROVE  LET one == Analyze(a, b)
                          two == Analyze(b, a)
                      IN  /\ one.aligned = two.aligned
                          /\ ~ Closer(one.score, two.score)
                          /\ Rhyme(a, b) = Rhyme(b, a)
                          /\ one.a = two.b /\ one.b = two.a => one.precision = two.precision
    BY Zenon DEF RhymeIsSymmetric
  <2> DEFINE S == ToSet(Candidates(a))
             T == ToSet(Candidates(b))
             one == Analyze(a, b)
             two == Analyze(b, a)
  <2>1. a \in Word /\ b \in Word
    BY <1>1 DEF CasesInv, ToSet
  <2>2. \A p \in S \cup T : p \in Seq(STRING)
    BY <2>1, CandidatesAre DEF ToSet
  <2>3. ASSUME NEW p \in S \cup T, NEW q \in S \cup T
        PROVE  /\ Align(p, q) = Align(q, p) /\ Score(p, q) = Score(q, p)
               /\ Precision(p, q) = Precision(q, p)
               /\ Score(p, q)[1] \in Int /\ Score(p, q)[2] \in Nat \ {0}
    <3>1. p \in Seq(STRING) /\ q \in Seq(STRING)
      BY <2>2
    <3> QED
      BY <3>1, AlignSymmetric, ScoreSymmetric, PrecisionSymmetric
  <2>4. \/ /\ \A p \in S, q \in T : ~ Align(p, q)
           /\ \E p \in S, q \in T : one = NoRating(p, q)
        \/ \E p \in S, q \in T : ClosestPair(S, T, p, q) /\ one = Rating(p, q)
    BY <2>1, AnalyzeIs
  <2>5. \/ /\ \A q \in T, p \in S : ~ Align(q, p)
           /\ \E q \in T, p \in S : two = NoRating(q, p)
        \/ \E q \in T, p \in S : ClosestPair(T, S, q, p) /\ two = Rating(q, p)
    BY <2>1, AnalyzeIs
  <2>6. (Rhyme(a, b) <=> AtLeast(one.score, RhymeThreshold))
        /\ (Rhyme(b, a) <=> AtLeast(two.score, RhymeThreshold))
        /\ Rhyme(a, b) \in BOOLEAN /\ Rhyme(b, a) \in BOOLEAN
    BY DEF Rhyme, AtLeast
  <2> HIDE DEF S, T, one, two
  <2>7. CASE \A p \in S, q \in T : ~ Align(p, q)
    <3>1. \A q \in T, p \in S : ~ Align(q, p)
      BY <2>3, <2>7
    <3>2. PICK p \in S, q \in T : one = NoRating(p, q)
      BY <2>4, <2>7 DEF ClosestPair
    <3>3. PICK r \in T, s \in S : two = NoRating(r, s)
      BY <2>5, <3>1 DEF ClosestPair
    <3>4. /\ one.aligned = two.aligned /\ one.score = <<0, 1>> /\ two.score = <<0, 1>>
          /\ one.precision = two.precision
      BY <3>2, <3>3 DEF NoRating
    <3>5. ~ Closer(one.score, two.score)
      BY <3>4 DEF Closer
    <3> QED
      BY <2>6, <3>4, <3>5 DEF one, two
  <2>8. CASE \E p \in S, q \in T : Align(p, q)
    <3>1. \E q \in T, p \in S : Align(q, p)
      BY <2>3, <2>8
    <3>2. PICK p \in S, q \in T : ClosestPair(S, T, p, q) /\ one = Rating(p, q)
      BY <2>4, <2>8
    <3>3. PICK r \in T, s \in S : ClosestPair(T, S, r, s) /\ two = Rating(r, s)
      BY <2>5, <3>1
    <3>4. /\ one.aligned = Align(p, q) /\ one.score = Score(p, q)
          /\ one.a = p /\ one.b = q /\ one.precision = Precision(p, q)
      BY <3>2 DEF Rating
    <3>5. /\ two.aligned = Align(r, s) /\ two.score = Score(r, s)
          /\ two.a = r /\ two.b = s /\ two.precision = Precision(r, s)
      BY <3>3 DEF Rating
    <3>6. /\ p \in S \cup T /\ q \in S \cup T /\ r \in S \cup T /\ s \in S \cup T
      OBVIOUS
    <3>7. Score(q, p) = Score(p, q) /\ Score(s, r) = Score(r, s)
      BY <2>3, <3>6
    <3>8. Align(p, q) /\ Align(q, p) /\ Align(r, s) /\ Align(s, r)
      BY <2>3, <3>2, <3>3, <3>6 DEF ClosestPair
    <3>9. one.aligned = two.aligned
      <4>1. Align(p, q) = TRUE /\ Align(r, s) = TRUE
        BY <3>8 DEF Align
      <4> QED
        BY <3>4, <3>5, <4>1
    <3>10. ~ Closer(one.score, two.score)
      <4>1. ~ Closer(Score(q, p), Score(r, s))
        BY <3>3, <3>8 DEF ClosestPair
      <4> QED
        BY <3>4, <3>5, <3>7, <4>1
    <3>11. ~ Closer(two.score, one.score)
      <4>1. ~ Closer(Score(s, r), Score(p, q))
        BY <3>2, <3>8 DEF ClosestPair
      <4> QED
        BY <3>4, <3>5, <3>7, <4>1
    <3>12. AtLeast(one.score, RhymeThreshold) <=> AtLeast(two.score, RhymeThreshold)
      <4> DEFINE c == one.score[1]
                 t == one.score[2]
                 d == two.score[1]
                 u == two.score[2]
      <4>1. c \in Int /\ d \in Int /\ t \in Nat \ {0} /\ u \in Nat \ {0}
        BY <2>3, <3>4, <3>5, <3>6
      <4>2. ~ (c * u > d * t) /\ ~ (d * t > c * u)
        BY <3>10, <3>11 DEF Closer
      <4>3. RhymeThreshold \in Nat
        BY DEF RhymeThreshold
      <4> HIDE DEF c, t, d, u
      <4>4. \A k \in Nat : 100 * c >= k * t <=> 100 * d >= k * u
        BY <4>1, <4>2, CloserOrders
      <4>5. 100 * c >= RhymeThreshold * t <=> 100 * d >= RhymeThreshold * u
        BY <4>3, <4>4
      <4> QED
        BY <4>5 DEF AtLeast, c, t, d, u
    <3>13. Rhyme(a, b) = Rhyme(b, a)
      BY <2>6, <3>12
    <3>14. ASSUME one.a = two.b, one.b = two.a PROVE one.precision = two.precision
      <4>1. p = s /\ q = r
        BY <3>4, <3>5, <3>14
      <4> QED
        BY <2>3, <3>4, <3>5, <3>6, <4>1
    <3> QED
      BY <3>9, <3>10, <3>13, <3>14 DEF one, two
  <2> QED
    BY <2>7, <2>8
<1> QED
  BY <1>1, LinesAreWords, PTL

-----------------------------------------------------------------------------
(***************************************************************************)
(* A line that scans is detected in its own metre                          *)
(***************************************************************************)

\* A stress at i is one that feet of this size, stressed at this place, ask for.
Beat(i, place, size, feet) == i \in 1 .. feet * size /\ (i - 1) % size = place - 1

\* Feet of these two kinds, so many of each, ask for the same stresses.
SameBeats(place, size, feet, place2, size2, feet2) ==
  \A i \in Int : Beat(i, place, size, feet) <=> Beat(i, place2, size2, feet2)

\* The stressed syllable of a foot, and how many a foot has.
Place == [iamb |-> 2, trochee |-> 1, dactyl |-> 1, amphibrach |-> 2, anapest |-> 3]

Size == [iamb |-> 2, trochee |-> 2, dactyl |-> 3, amphibrach |-> 3, anapest |-> 3]

\* The metres have feet of two or three syllables, stressed at one of them, and no two
\* of them at the same.
LEMMA FeetAre ==
  /\ \A m \in DOMAIN Foot :
       /\ Size[m] \in {2, 3} /\ Place[m] \in 1 .. Size[m] /\ Len(Foot[m]) = Size[m]
       /\ \A i \in 1 .. Size[m] : Foot[m][i] = "S" <=> i = Place[m]
  /\ \A m, o \in DOMAIN Foot : Place[m] = Place[o] /\ Size[m] = Size[o] => m = o
<1> DEFINE Fits(m) == /\ Size[m] \in {2, 3} /\ Place[m] \in 1 .. Size[m] /\ Len(Foot[m]) = Size[m]
                      /\ \A i \in 1 .. Size[m] : Foot[m][i] = "S" <=> i = Place[m]
<1>1. \A m \in DOMAIN Foot :
        m = "iamb" \/ m = "trochee" \/ m = "dactyl" \/ m = "amphibrach" \/ m = "anapest"
  BY DEF Foot
<1>2. \A m, o \in DOMAIN Foot : Place[m] = Place[o] /\ Size[m] = Size[o] => m = o
  BY <1>1 DEF Place, Size
<1>3. (\A i \in 1 .. 2 : i = 1 \/ i = 2) /\ \A i \in 1 .. 3 : i = 1 \/ i = 2 \/ i = 3
  OBVIOUS
<1>4. Fits("iamb")
  BY <1>3 DEF Foot, Place, Size
<1>5. Fits("trochee")
  BY <1>3 DEF Foot, Place, Size
<1>6. Fits("dactyl")
  BY <1>3 DEF Foot, Place, Size
<1>7. Fits("amphibrach")
  BY <1>3 DEF Foot, Place, Size
<1>8. Fits("anapest")
  BY <1>3 DEF Foot, Place, Size
<1>9. \A m \in DOMAIN Foot : Fits(m)
  <2> HIDE DEF Fits
  <2> QED
    BY <1>1, <1>4, <1>5, <1>6, <1>7, <1>8
<1> QED
  BY <1>2, <1>9

\* Where the beats of a metre are.
LEMMA BeatsAre ==
  ASSUME NEW meter \in DOMAIN Foot, NEW feet \in Nat
  PROVE  Stressed(Expected(meter, feet)) = {i \in Int : Beat(i, Place[meter], Size[meter], feet)}
<1> DEFINE size == Size[meter]
           place == Place[meter]
           expected == Expected(meter, feet)
<1>0. /\ size \in {2, 3} /\ place \in 1 .. size /\ Len(Foot[meter]) = size
      /\ \A i \in 1 .. size : Foot[meter][i] = "S" <=> i = place
  BY FeetAre
<1> HIDE DEF size, place
<1>1. /\ DOMAIN expected = 1 .. feet * size
      /\ \A i \in 1 .. feet * size : expected[i] = Foot[meter][((i - 1) % size) + 1]
  BY <1>0 DEF Expected
<1>2. \A i \in Int : ((i - 1) % size) + 1 \in 1 .. size
  BY <1>0
<1>3. ASSUME NEW i PROVE i \in Stressed(expected) <=> i \in Int /\ Beat(i, place, size, feet)
  <2>1. feet * size \in Int
    BY <1>0
  <2>2. i \in Stressed(expected) <=> i \in 1 .. feet * size /\ expected[i] = "S"
    BY <1>1 DEF Stressed
  <2>3. i \in 1 .. feet * size => (expected[i] = "S" <=> ((i - 1) % size) + 1 = place)
    <3> SUFFICES ASSUME i \in 1 .. feet * size
                 PROVE  expected[i] = "S" <=> ((i - 1) % size) + 1 = place
      OBVIOUS
    <3> DEFINE j == ((i - 1) % size) + 1
    <3>1. j \in 1 .. size /\ expected[i] = Foot[meter][j]
      BY <1>1, <1>2, <2>1
    <3> HIDE DEF j, expected
    <3>2. expected[i] = "S" <=> j = place
      BY <1>0, <3>1
    <3> QED
      BY <3>2 DEF j
  <2>4. i \in 1 .. feet * size => (((i - 1) % size) + 1 = place <=> (i - 1) % size = place - 1)
    BY <1>0
  <2> HIDE DEF expected
  <2> QED
    BY <2>1, <2>2, <2>3, <2>4 DEF Beat
<1> HIDE DEF expected
<1> QED
  BY <1>3 DEF expected, place, size

\* Two feet or more tell where the first beat is, the next one, and the last one.
LEMMA BeatsTell ==
  ASSUME NEW size \in {2, 3}, NEW place \in 1 .. size, NEW feet \in Nat, feet >= 2,
         NEW size2 \in {2, 3}, NEW place2 \in 1 .. size2, NEW feet2 \in Nat, feet2 >= 1,
         SameBeats(place, size, feet, place2, size2, feet2)
  PROVE  place = place2 /\ size = size2 /\ feet = feet2
<1>0. \A i \in Int : Beat(i, place, size, feet) <=> Beat(i, place2, size2, feet2)
  BY DEF SameBeats
<1>1. Beat(place, place, size, feet) /\ \A i \in Int : Beat(i, place, size, feet) => place <= i
  BY DEF Beat
<1>2. Beat(place2, place2, size2, feet2) /\ \A i \in Int : Beat(i, place2, size2, feet2) => place2 <= i
  BY DEF Beat
<1>3. place = place2
  BY <1>0, <1>1, <1>2
<1>4. size = size2
  <2>1. Beat(place + size, place, size, feet)
    BY DEF Beat
  <2>2. (place + size - 1) % size2 = place - 1
    BY <1>0, <1>3, <2>1 DEF Beat
  <2> QED
    BY <1>3, <2>2
<1>5. feet <= feet2
  <2>1. Beat(place + size * (feet - 1), place, size, feet)
    BY DEF Beat
  <2>2. Beat(place + size * (feet - 1), place2, size2, feet2)
    BY <1>0, <2>1
  <2>3. place + size * (feet - 1) <= feet2 * size
    BY <1>4, <2>2 DEF Beat
  <2> QED
    BY <2>3
<1>6. feet2 <= feet
  <2>1. Beat(place + size * (feet2 - 1), place, size, feet2)
    BY DEF Beat
  <2>2. Beat(place + size * (feet2 - 1), place, size, feet)
    BY <1>0, <1>3, <1>4, <2>1
  <2>3. place + size * (feet2 - 1) <= feet * size
    BY <2>2 DEF Beat
  <2> QED
    BY <2>3
<1> QED
  BY <1>3, <1>4, <1>5, <1>6

\* A pattern that fits a metre exactly has its beats: none where there is none, none left out.
LEMMA ExactBeats ==
  ASSUME NEW actual \in Seq(Marks), NEW expected \in Seq(Marks),
         Mismatches(actual, expected) = {}, LineLengthOk(actual, expected)
  PROVE  Stressed(actual) = Stressed(expected)
<1>1. /\ DOMAIN actual = 1 .. Len(actual) /\ Len(actual) \in Nat
      /\ DOMAIN expected = 1 .. Len(expected) /\ Len(expected) \in Nat
  OBVIOUS
<1>2. \A i \in DOMAIN actual \cap DOMAIN expected : actual[i] = expected[i]
  BY DEF Mismatches
<1>3. ASSUME NEW i \in DOMAIN actual, i \notin DOMAIN expected PROVE actual[i] # "S"
  <2>1. i \in Len(expected) + 1 .. Len(actual)
    BY <1>1, <1>3
  <2> QED
    BY <2>1 DEF LineLengthOk
<1>4. ASSUME NEW i \in DOMAIN expected, i \notin DOMAIN actual PROVE expected[i] # "S"
  <2>1. i \in Len(actual) + 1 .. Len(expected) /\ Len(actual) < Len(expected)
    BY <1>1, <1>4
  <2> QED
    BY <2>1 DEF LineLengthOk
<1> QED
  BY <1>2, <1>3, <1>4 DEF Stressed

\* So there is one metre and one number of feet in which a pattern fits exactly.
LEMMA OneMetreFits ==
  ASSUME NEW actual \in Seq(Marks),
         NEW meter \in DOMAIN Foot, NEW feet \in Nat, feet >= 2,
         NEW meter2 \in DOMAIN Foot, NEW feet2 \in Nat, feet2 >= 1,
         Mismatches(actual, Expected(meter, feet)) = {}, LineLengthOk(actual, Expected(meter, feet)),
         Mismatches(actual, Expected(meter2, feet2)) = {}, LineLengthOk(actual, Expected(meter2, feet2))
  PROVE  meter = meter2 /\ feet = feet2
<1>1. Expected(meter, feet) \in Seq(Marks) /\ Expected(meter2, feet2) \in Seq(Marks)
  BY ExpectedIs
<1>2. Stressed(Expected(meter, feet)) = Stressed(Expected(meter2, feet2))
  BY <1>1, ExactBeats
<1>3. /\ Stressed(Expected(meter, feet)) = {i \in Int : Beat(i, Place[meter], Size[meter], feet)}
      /\ Stressed(Expected(meter2, feet2)) = {i \in Int : Beat(i, Place[meter2], Size[meter2], feet2)}
  BY BeatsAre
<1> DEFINE size == Size[meter]
           place == Place[meter]
           size2 == Size[meter2]
           place2 == Place[meter2]
<1>4. SameBeats(place, size, feet, place2, size2, feet2)
  BY <1>2, <1>3 DEF SameBeats
<1>5. size \in {2, 3} /\ place \in 1 .. size /\ size2 \in {2, 3} /\ place2 \in 1 .. size2
  BY FeetAre
<1>6. place = place2 /\ size = size2 /\ feet = feet2
  <2> HIDE DEF size, place, size2, place2
  <2> QED
    BY <1>4, <1>5, BeatsTell
<1> QED
  BY <1>6, FeetAre

\* The detector counts with the Cardinality of FiniteSets.
LEMMA SameCardinality == \A S : Detector!Cardinality(S) = Cardinality(S)
BY DEF Detector!Cardinality, Cardinality

\* The sums the detector makes are the sums of Loops.
LEMMA SameSums == \A s : Detector!SumOf(s) = SumOf(s)
BY DEF Detector!SumOf, SumOf

\* The choice the detector makes is the one of Loops.
LEMMA SameBest ==
  \A n, eligible, beats : Detector!FirstBest(n, eligible, beats) = FirstBest(n, eligible, beats)
BY DEF Detector!FirstBest, FirstBest

\* Numbers below five times n, by whole n and a rest.
LEMMA WholeAndRest ==
  ASSUME NEW n \in Nat \ {0}
  PROVE  /\ \A x \in 0 .. 5 * n - 1 : x \div n \in 0 .. 4 /\ x % n \in 0 .. n - 1
         /\ \A a \in 0 .. 4, rest \in 0 .. n - 1 :
              /\ a * n + rest \in 0 .. 5 * n - 1
              /\ (a * n + rest) \div n = a /\ (a * n + rest) % n = rest
<1>1. ASSUME NEW x \in 0 .. 5 * n - 1 PROVE x \div n \in 0 .. 4 /\ x % n \in 0 .. n - 1
  OBVIOUS
<1>2. ASSUME NEW a \in 0 .. 4, NEW rest \in 0 .. n - 1
      PROVE  /\ a * n + rest \in 0 .. 5 * n - 1
             /\ (a * n + rest) \div n = a /\ (a * n + rest) % n = rest
  <2>1. a = 0 \/ a = 1 \/ a = 2 \/ a = 3 \/ a = 4
    OBVIOUS
  <2> QED
    BY <2>1
<1> QED
  BY <1>1, <1>2

\* A list of every meter with each number of feet.
TriesAll(specs, low, high) ==
  /\ Len(specs) \in Nat /\ DOMAIN specs = 1 .. Len(specs)
  /\ \A i \in DOMAIN specs : specs[i].meter \in DOMAIN Foot /\ specs[i].feet \in low .. high
  /\ \A meter \in DOMAIN Foot, feet \in low .. high :
       \E i \in DOMAIN specs : specs[i].meter = meter /\ specs[i].feet = feet

\* The detector tries every meter with each number of feet.
LEMMA TriedAre ==
  ASSUME NEW low \in Nat, NEW high \in Nat, low <= high
  PROVE  TriesAll(Detector!MeterSpecs(low, high), low, high)
<1> DEFINE specs == Detector!MeterSpecs(low, high)
           n == high - low + 1
           names == Detector!Meters
<1>1. /\ Len(names) = 5 /\ \A k \in 1 .. 5 : names[k] \in DOMAIN Foot
      /\ \A meter \in DOMAIN Foot : \E k \in 1 .. 5 : names[k] = meter
  <2>1. names = <<"iamb", "trochee", "dactyl", "amphibrach", "anapest">>
    BY DEF Detector!Meters
  <2>2. \A meter \in DOMAIN Foot : meter = "iamb" \/ meter = "trochee" \/ meter = "dactyl"
                                     \/ meter = "amphibrach" \/ meter = "anapest"
    BY DEF Foot
  <2>3. \A k \in 1 .. 5 : k = 1 \/ k = 2 \/ k = 3 \/ k = 4 \/ k = 5
    OBVIOUS
  <2>4. {"iamb", "trochee", "dactyl", "amphibrach", "anapest"} \subseteq DOMAIN Foot
    BY DEF Foot
  <2>5. Len(names) = 5 /\ \A k \in 1 .. 5 : names[k] \in DOMAIN Foot
    BY <2>1, <2>3, <2>4
  <2>6. names[1] = "iamb" /\ names[2] = "trochee" /\ names[3] = "dactyl"
          /\ names[4] = "amphibrach" /\ names[5] = "anapest"
    BY <2>1
  <2> HIDE DEF names
  <2> QED
    BY <2>2, <2>5, <2>6
<1>2. specs = [i \in 1 .. 5 * n |-> [meter |-> names[((i - 1) \div n) + 1], feet |-> low + ((i - 1) % n)]]
  BY <1>1 DEF Detector!MeterSpecs
<1>3. n \in Nat \ {0} /\ 5 * n \in Nat /\ high = low + n - 1
  OBVIOUS
<1> HIDE DEF specs, names, n
<1>4. DOMAIN specs = 1 .. 5 * n /\ Len(specs) = 5 * n
  BY <1>2, <1>3
<1>5. ASSUME NEW i \in 1 .. 5 * n
      PROVE  specs[i].meter \in DOMAIN Foot /\ specs[i].feet \in low .. high
  <2>1. i - 1 \in 0 .. 5 * n - 1
    BY <1>3
  <2>2. (i - 1) \div n \in 0 .. 4 /\ (i - 1) % n \in 0 .. n - 1
    BY <1>3, <2>1, WholeAndRest
  <2>3. specs[i].meter = names[((i - 1) \div n) + 1] /\ specs[i].feet = low + ((i - 1) % n)
    BY <1>2
  <2> DEFINE q == (i - 1) \div n
             rest == (i - 1) % n
  <2> HIDE DEF q, rest
  <2>4. q + 1 \in 1 .. 5 /\ low + rest \in low .. high
    BY <1>3, <2>2 DEF q, rest
  <2> QED
    BY <1>1, <2>3, <2>4 DEF q, rest
<1>6. ASSUME NEW meter \in DOMAIN Foot, NEW feet \in low .. high
      PROVE  \E i \in 1 .. 5 * n : specs[i].meter = meter /\ specs[i].feet = feet
  <2>1. PICK k \in 1 .. 5 : names[k] = meter
    BY <1>1
  <2> DEFINE a == k - 1
             rest == feet - low
             i == a * n + rest + 1
  <2>2. a \in 0 .. 4 /\ rest \in 0 .. n - 1
    BY <1>3
  <2>3. a * n + rest \in 0 .. 5 * n - 1 /\ (a * n + rest) \div n = a /\ (a * n + rest) % n = rest
    <3> HIDE DEF a, rest
    <3> QED
      BY <1>3, <2>2, WholeAndRest
  <2> DEFINE x == a * n + rest
  <2>4. i = x + 1 /\ a + 1 = k /\ low + rest = feet
    BY <2>2
  <2> HIDE DEF x, a, rest, i
  <2>5. i \in 1 .. 5 * n /\ i - 1 = x
    <3>1. x \in 0 .. 5 * n - 1
      BY <2>3 DEF x
    <3> QED
      BY <1>3, <2>4, <3>1
  <2>6. specs[i].meter = names[(x \div n) + 1] /\ specs[i].feet = low + (x % n)
    BY <1>2, <2>5
  <2>7. x \div n = a /\ x % n = rest
    BY <2>3 DEF x
  <2>8. specs[i].meter = meter /\ specs[i].feet = feet
    BY <2>1, <2>4, <2>6, <2>7
  <2> QED
    BY <2>5, <2>8
<1>7. Len(specs) \in Nat /\ DOMAIN specs = 1 .. Len(specs)
  BY <1>3, <1>4
<1>8. \A i \in DOMAIN specs : specs[i].meter \in DOMAIN Foot /\ specs[i].feet \in low .. high
  BY <1>4, <1>5
<1>9. ASSUME NEW meter \in DOMAIN Foot, NEW feet \in low .. high
      PROVE  \E i \in DOMAIN specs : specs[i].meter = meter /\ specs[i].feet = feet
  <2>1. PICK i \in 1 .. 5 * n : specs[i].meter = meter /\ specs[i].feet = feet
    BY <1>6
  <2>2. i \in DOMAIN specs
    BY <1>4
  <2> QED
    BY <2>1, <2>2
<1> QED
  BY <1>7, <1>8, <1>9 DEF specs, TriesAll

\* Four times the same number.
LEMMA FourTimes ==
  ASSUME NEW c \in Int, NEW s, s = [i \in 1 .. 4 |-> c]
  PROVE  SumOf(s) = 4 * c
<1>1. Len(s) = 4 /\ s[1] = c /\ s[2] = c /\ s[3] = c /\ s[4] = c
  OBVIOUS
<1> DEFINE f == SumFcn(s)
<1>2. f[0] = 0 /\ \A i \in 1 .. 4 : f[i] = f[i - 1] + s[i]
  <2>1. Len(s) \in Nat
    BY <1>1
  <2>2. f[0] = 0 /\ \A i \in 1 .. Len(s) : f[i] = f[i - 1] + s[i]
    BY <2>1, SumSteps
  <2> HIDE DEF f
  <2> QED
    BY <1>1, <2>2
<1>3. SumOf(s) = f[4]
  BY <1>1, SumIs
<1> HIDE DEF f
<1>4. f[1] = f[0] + s[1] /\ f[2] = f[1] + s[2] /\ f[3] = f[2] + s[3] /\ f[4] = f[3] + s[4]
  BY <1>2
<1> QED
  BY <1>1, <1>2, <1>3, <1>4

\* A line four times passes as a whole or not at all, with four times its errors.
LEMMA FourLines ==
  ASSUME NEW spec, IsFiniteSet(LineResult(line, spec.meter, spec.feet).errors)
  PROVE  LET reading == Detector!Reading(<<line, line, line, line>>, spec)
             result  == LineResult(line, spec.meter, spec.feet)
         IN  /\ reading.meter = spec.meter /\ reading.feet = spec.feet
             /\ reading.accuracy = IF result.ok THEN <<4, 4>> ELSE <<0, 4>>
             /\ reading.errors = 4 * Cardinality(result.errors)
<1> DEFINE text == <<line, line, line, line>>
           one == LineResult(line, spec.meter, spec.feet)
           result == [i \in DOMAIN text |-> LineResult(text[i], spec.meter, spec.feet)]
           passed == {i \in DOMAIN text : result[i].ok}
           counts == [i \in DOMAIN text |-> Cardinality(result[i].errors)]
           reading == Detector!Reading(text, spec)
<1>2. DOMAIN text = 1 .. 4 /\ Len(text) = 4 /\ text # <<>> /\ \A i \in 1 .. 4 : text[i] = line
  OBVIOUS
<1> HIDE DEF text
<1>1. reading = [meter |-> spec.meter, feet |-> spec.feet,
                 accuracy |-> IF text = <<>> THEN <<0, 1>> ELSE <<Cardinality(passed), Len(text)>>,
                 errors |-> SumOf(counts)]
  <2> DEFINE counted == [i \in DOMAIN text |-> Detector!Cardinality(result[i].errors)]
  <2>1. reading = [meter |-> spec.meter, feet |-> spec.feet,
                   accuracy |-> IF text = <<>> THEN <<0, 1>>
                                ELSE <<Detector!Cardinality(passed), Len(text)>>,
                   errors |-> Detector!SumOf(counted)]
    BY DEF Detector!Reading
  <2>2. counted = counts
    <3> HIDE DEF result
    <3> QED
      BY SameCardinality
  <2> HIDE DEF passed, counts, counted, reading
  <2>3. Detector!Cardinality(passed) = Cardinality(passed) /\ Detector!SumOf(counted) = SumOf(counts)
    BY <2>2, SameCardinality, SameSums
  <2> QED
    BY <2>1, <2>3
<1>3. \A i \in 1 .. 4 : result[i] = one
  BY <1>2
<1> HIDE DEF one, result
<1>4. Cardinality(passed) = IF one.ok THEN 4 ELSE 0
  <2>1. CASE one.ok
    <3>1. passed = 1 .. 4
      BY <1>2, <1>3, <2>1
    <3>2. Cardinality(1 .. 4) = 4
      <4>1. Cardinality(1 .. 4) = IF 1 > 4 THEN 0 ELSE 4 - 1 + 1
        BY FS_Interval, 1 \in Int, 4 \in Int, Zenon
      <4> QED
        BY <4>1
    <3> QED
      BY <2>1, <3>1, <3>2
  <2>2. CASE ~ one.ok
    <3>1. passed = {}
      BY <1>2, <1>3, <2>2
    <3> QED
      BY <2>2, <3>1, FS_EmptySet
  <2> QED
    BY <2>1, <2>2
<1>5. SumOf(counts) = 4 * Cardinality(one.errors)
  <2>1. counts = [i \in 1 .. 4 |-> Cardinality(one.errors)]
    BY <1>2, <1>3
  <2>2. Cardinality(one.errors) \in Int
    BY FS_CardinalityType DEF one
  <2> QED
    BY <2>1, <2>2, FourTimes
<1> HIDE DEF passed, counts
<1>6. /\ reading.meter = spec.meter /\ reading.feet = spec.feet
      /\ reading.accuracy = IF one.ok THEN <<4, 4>> ELSE <<0, 4>>
      /\ reading.errors = 4 * Cardinality(one.errors)
  BY <1>1, <1>2, <1>4, <1>5
<1> QED
  BY <1>6 DEF reading, text, one

\* Without words the validator is lenient about, every mismatch is an error.
LEMMA NothingTolerated ==
  ASSUME CasesInv, \A k \in DOMAIN line : line[k].syllables # 1 /\ ~ line[k].weak,
         NEW meter \in DOMAIN Foot, NEW feet \in Nat
  PROVE  /\ RealErrors(line, meter, feet) = Mismatches(ActualPattern(line), Expected(meter, feet))
         /\ IsFiniteSet(RealErrors(line, meter, feet))
<1> DEFINE words == {word \in Word : word.syllables # 1 /\ ~ word.weak}
           strict == {[mono |-> word.syllables = 1, weak |-> word.weak] : word \in words}
           lists == [k \in DOMAIN line |-> WordFlags(line[k])]
           flags == Flags(line)
<1>1. line \in Seq(Word) /\ DOMAIN line = 1 .. Len(line) /\ Len(line) \in Nat
  BY DEF CasesInv
<1>2. ASSUME NEW k \in DOMAIN line PROVE WordFlags(line[k]) \in Seq(strict)
  <2> DEFINE word == line[k]
             flag == [mono |-> word.syllables = 1, weak |-> word.weak]
  <2>0. word \in Word /\ word.syllables # 1 /\ ~ word.weak
    BY <1>1
  <2>1. word \in words /\ word.syllables \in Nat
    <3> HIDE DEF word
    <3>1. word \in words
      BY <2>0
    <3>2. word.syllables \in Nat
      BY <2>0 DEF Word
    <3> QED
      BY <3>1, <3>2
  <2> HIDE DEF words, word
  <2>2. flag \in strict
    BY <2>1
  <2>3. WordFlags(word) = [i \in 1 .. word.syllables |-> flag]
    BY DEF WordFlags
  <2> HIDE DEF flag, strict
  <2>4. WordFlags(word) \in Seq(strict)
    BY <2>1, <2>2, <2>3
  <2> QED
    BY <2>4 DEF word
<1> HIDE DEF strict, words
<1>3. lists \in Seq(Seq(strict))
  BY <1>1, <1>2
<1>4. flags = FlattenSeq(lists)
  BY DEF Flags
<1> HIDE DEF lists
<1>5. flags \in Seq(strict)
  <2>1. <<>> \in Seq(strict)
    OBVIOUS
  <2> QED
    BY <1>3, <1>4, <2>1, FlattenOneMore
<1> HIDE DEF flags
<1>6. \A i \in DOMAIN flags : ~ Tolerated(flags[i])
  <2> SUFFICES ASSUME NEW i \in DOMAIN flags PROVE ~ Tolerated(flags[i])
    OBVIOUS
  <2>1. flags[i] \in strict
    BY <1>5
  <2>2. PICK word \in words : flags[i] = [mono |-> word.syllables = 1, weak |-> word.weak]
    BY <2>1 DEF strict
  <2>3. word.syllables # 1 /\ ~ word.weak
    BY DEF words
  <2>4. flags[i].mono = (word.syllables = 1) /\ flags[i].weak = word.weak
    BY <2>2
  <2>5. ~ flags[i].mono /\ ~ flags[i].weak
    BY <2>3, <2>4, Zenon
  <2> QED
    BY <2>5 DEF Tolerated
<1>7. RealErrors(line, meter, feet) = Mismatches(ActualPattern(line), Expected(meter, feet))
  BY <1>6 DEF RealErrors, Mismatches, flags
<1>8. IsFiniteSet(Mismatches(ActualPattern(line), Expected(meter, feet)))
  <2>1. ActualPattern(line) \in Seq(Marks)
    BY <1>1, ActualPatternIs
  <2> DEFINE actual == ActualPattern(line)
  <2> HIDE DEF actual
  <2>2. DOMAIN actual = 1 .. Len(actual) /\ Len(actual) \in Nat
    BY <2>1 DEF actual
  <2>3. IsFiniteSet(DOMAIN actual)
    BY <2>2, FS_Interval
  <2>4. Mismatches(actual, Expected(meter, feet)) \subseteq DOMAIN actual
    BY DEF Mismatches
  <2>5. IsFiniteSet(Mismatches(actual, Expected(meter, feet)))
    BY <2>3, <2>4, FS_Subset
  <2> QED
    BY <2>5 DEF actual
<1> QED
  BY <1>7, <1>8

\* What one reading does to another: the accuracies are all or nothing.
Convinces(v, e, w, d) ==
  \/ v * 4 > w * 4
  \/ /\ ~ (w * 4 > v * 4)
     /\ e < d

\* No two readings beat each other, and what beats one beats all that do not beat it.
LEMMA ConvincingOrders ==
  ASSUME NEW S, NEW v \in [S -> Int], NEW e \in [S -> Int]
  PROVE  /\ \A i, j \in S : Convinces(v[i], e[i], v[j], e[j]) => ~ Convinces(v[j], e[j], v[i], e[i])
         /\ \A i, j, m \in S : Convinces(v[i], e[i], v[j], e[j]) /\ ~ Convinces(v[m], e[m], v[j], e[j])
                                 => Convinces(v[i], e[i], v[m], e[m])
<1>1. ASSUME NEW x \in Int, NEW y \in Int, NEW z \in Int, NEW a \in Int, NEW b \in Int, NEW c \in Int
      PROVE  /\ Convinces(x, a, y, b) => ~ Convinces(y, b, x, a)
             /\ Convinces(x, a, y, b) /\ ~ Convinces(z, c, y, b) => Convinces(x, a, z, c)
  BY DEF Convinces
<1>2. \A i \in S : v[i] \in Int /\ e[i] \in Int
  OBVIOUS
<1>3. ASSUME NEW i \in S, NEW j \in S, NEW m \in S
      PROVE  /\ Convinces(v[i], e[i], v[j], e[j]) => ~ Convinces(v[j], e[j], v[i], e[i])
             /\ Convinces(v[i], e[i], v[j], e[j]) /\ ~ Convinces(v[m], e[m], v[j], e[j])
                  => Convinces(v[i], e[i], v[m], e[m])
  BY <1>1, <1>2
<1> QED
  BY <1>3

\* The least and the greatest number of feet enclose the others.
LEMMA FeetBetween ==
  ASSUME NEW feet \in Feet
  PROVE  Min(Feet) \in Nat \ {0} /\ Max(Feet) \in Nat /\ feet \in Min(Feet) .. Max(Feet)
<1>1. Feet \in SUBSET Int /\ Feet # {} /\ IsFiniteSet(Feet) /\ Feet \subseteq Nat \ {0}
  BY FeetAssumption
<1>2. /\ \E x \in Feet : \A y \in Feet : x <= y
      /\ \E x \in Feet : \A y \in Feet : y <= x
  BY <1>1, LeastAndGreatest
<1>3. Min(Feet) \in Feet /\ \A y \in Feet : Min(Feet) <= y
  BY <1>2 DEF Min
<1>4. Max(Feet) \in Feet /\ \A y \in Feet : y <= Max(Feet)
  BY <1>1, <1>2 DEF Max
<1>5. \A x \in Feet : x \in Nat \ {0}
  BY <1>1
<1> QED
  BY <1>3, <1>4, <1>5

\* Of the readings of a line without tolerated words, four times, the one that scans
\* exactly is the best.
LEMMA OwnMeterWins ==
  ASSUME CasesInv, \A k \in DOMAIN line : line[k].syllables # 1 /\ ~ line[k].weak,
         NEW meter \in DOMAIN Foot, NEW feet \in Feet \ {1}, ScansExactly(meter, feet)
  PROVE  LET detected == Detector!DetectMeter(<<line, line, line, line>>)
         IN  detected.meter = meter /\ detected.feet = feet
<1> DEFINE text == <<line, line, line, line>>
           low == Min(Feet)
           high == Max(Feet)
           specs == Detector!MeterSpecs(low, high)
           n == Len(specs)
           result == [i \in 1 .. n |-> LineResult(line, specs[i].meter, specs[i].feet)]
           readings == Detector!Readings(text, low, high)
           eligible == {i \in DOMAIN readings : Detector!Reaches(readings[i].accuracy, 85)}
           beats == [i \in DOMAIN readings |->
                       [j \in DOMAIN readings |-> Detector!MoreConvincing(readings[i], readings[j])]]
           best == FirstBest(Len(readings), eligible, beats)
           detected == Detector!DetectMeter(text)
<1>1. low \in Nat \ {0} /\ high \in Nat /\ feet \in low .. high /\ low <= high
  <2>1. low \in Nat \ {0} /\ high \in Nat /\ feet \in low .. high
    BY FeetBetween
  <2> HIDE DEF low, high
  <2> QED
    BY <2>1
<1>2. feet \in Nat /\ feet >= 2
  BY FeetAssumption
<1>3. /\ n \in Nat /\ DOMAIN specs = 1 .. n
      /\ \A i \in 1 .. n : specs[i].meter \in DOMAIN Foot /\ specs[i].feet \in low .. high
      /\ \A m \in DOMAIN Foot, f \in low .. high : \E i \in 1 .. n : specs[i].meter = m /\ specs[i].feet = f
  <2>1. TriesAll(specs, low, high)
    <3> HIDE DEF low, high
    <3> QED
      BY <1>1, TriedAre
  <2> HIDE DEF specs, low, high
  <2>2. n \in Nat /\ DOMAIN specs = 1 .. n
    BY <2>1 DEF TriesAll
  <2>3. \A i \in 1 .. n : specs[i].meter \in DOMAIN Foot /\ specs[i].feet \in low .. high
    BY <2>1 DEF TriesAll
  <2>4. ASSUME NEW m \in DOMAIN Foot, NEW f \in low .. high
        PROVE  \E i \in 1 .. n : specs[i].meter = m /\ specs[i].feet = f
    BY <2>1 DEF TriesAll
  <2> QED
    BY <2>2, <2>3, <2>4
<1>4. readings = [i \in DOMAIN specs |-> Detector!Reading(text, specs[i])]
  BY DEF Detector!Readings
<1>5. detected = IF best = 0 THEN Nothing ELSE readings[best]
  <2>1. Detector!FirstBest(Len(readings), eligible, beats) = best
    BY SameBest
  <2>2. detected = IF Detector!FirstBest(Len(readings), eligible, beats) = 0 THEN Nothing
                   ELSE readings[Detector!FirstBest(Len(readings), eligible, beats)]
    BY DEF Detector!DetectMeter, Detector!Winner
  <2> HIDE DEF detected, best, readings, eligible, beats
  <2> QED
    BY <2>1, <2>2
<1> HIDE DEF low, high, specs, n, result, readings, eligible, beats, best, detected
<1>6. ASSUME NEW i \in 1 .. n
      PROVE  /\ IsFiniteSet(result[i].errors) /\ Cardinality(result[i].errors) \in Nat
             /\ readings[i].meter = specs[i].meter /\ readings[i].feet = specs[i].feet
             /\ readings[i].accuracy = IF result[i].ok THEN <<4, 4>> ELSE <<0, 4>>
             /\ readings[i].errors = 4 * Cardinality(result[i].errors)
             /\ result[i].ok <=> /\ Cardinality(result[i].errors) <= AllowedMismatches
                                 /\ LineLengthOk(ActualPattern(line), Expected(specs[i].meter, specs[i].feet))
             /\ result[i].errors = Mismatches(ActualPattern(line), Expected(specs[i].meter, specs[i].feet))
  <2> DEFINE spec == specs[i]
             one == LineResult(line, spec.meter, spec.feet)
             reading == Detector!Reading(<<line, line, line, line>>, spec)
  <2>1. spec.meter \in DOMAIN Foot /\ spec.feet \in Nat
    <3>1. spec.meter \in DOMAIN Foot /\ spec.feet \in low .. high
      BY <1>3
    <3>2. \A f \in low .. high : f \in Nat
      BY <1>1
    <3> QED
      BY <3>1, <3>2
  <2>2. result[i] = one /\ readings[i] = reading
    BY <1>3, <1>4 DEF result, text
  <2>3. one.errors = RealErrors(line, spec.meter, spec.feet)
    BY DEF LineResult
  <2>4. one.ok <=> /\ Cardinality(one.errors) <= AllowedMismatches
                   /\ LineLengthOk(ActualPattern(line), Expected(spec.meter, spec.feet))
    BY <2>3 DEF LineResult, FewEnough
  <2> HIDE DEF spec
  <2>5. /\ RealErrors(line, spec.meter, spec.feet)
             = Mismatches(ActualPattern(line), Expected(spec.meter, spec.feet))
        /\ IsFiniteSet(RealErrors(line, spec.meter, spec.feet))
    BY <2>1, NothingTolerated
  <2>6. IsFiniteSet(LineResult(line, spec.meter, spec.feet).errors)
    BY <2>3, <2>5
  <2>7. /\ reading.meter = spec.meter /\ reading.feet = spec.feet
        /\ reading.accuracy = IF one.ok THEN <<4, 4>> ELSE <<0, 4>>
        /\ reading.errors = 4 * Cardinality(one.errors)
    BY <2>6, FourLines
  <2> HIDE DEF one, reading
  <2>8. Cardinality(one.errors) \in Nat
    BY <2>3, <2>5, FS_CardinalityType
  <2> QED
    BY <2>2, <2>3, <2>4, <2>5, <2>7, <2>8 DEF spec
<1>7. Len(readings) = n /\ DOMAIN readings = 1 .. n
  BY <1>3, <1>4
<1> DEFINE v == [i \in 1 .. n |-> IF result[i].ok THEN 4 ELSE 0]
           e == [i \in 1 .. n |-> 4 * Cardinality(result[i].errors)]
<1>8. v \in [1 .. n -> Int] /\ e \in [1 .. n -> Int]
  BY <1>6
<1>9. \A i \in 1 .. n : i \in eligible <=> result[i].ok
  <2> SUFFICES ASSUME NEW i \in 1 .. n PROVE i \in eligible <=> result[i].ok
    OBVIOUS
  <2>1. i \in eligible <=> Detector!Reaches(readings[i].accuracy, 85)
    BY <1>7 DEF eligible
  <2>2. Detector!Reaches(<<4, 4>>, 85) /\ ~ Detector!Reaches(<<0, 4>>, 85)
    BY DEF Detector!Reaches
  <2> QED
    BY <1>6, <2>1, <2>2
<1>10. ASSUME NEW i \in 1 .. n, NEW j \in 1 .. n
       PROVE  beats[i][j] <=> Convinces(v[i], e[i], v[j], e[j])
  <2>1. beats[i][j] <=> Detector!MoreConvincing(readings[i], readings[j])
    BY <1>7 DEF beats
  <2>2. /\ readings[i].accuracy[1] = v[i] /\ readings[i].accuracy[2] = 4
        /\ readings[j].accuracy[1] = v[j] /\ readings[j].accuracy[2] = 4
        /\ readings[i].errors = e[i] /\ readings[j].errors = e[j]
    BY <1>6
  <2>3. v[i] \in Int /\ v[j] \in Int /\ e[i] \in Int /\ e[j] \in Int
    BY <1>8
  <2>4. Detector!MoreConvincing(readings[i], readings[j]) <=>
          \/ v[i] * 4 > v[j] * 4
          \/ ~ (v[j] * 4 > v[i] * 4) /\ e[i] < e[j]
    BY <2>2, Zenon DEF Detector!MoreConvincing, Detector!Higher
  <2> HIDE DEF v, e
  <2>5. Convinces(v[i], e[i], v[j], e[j]) <=>
          \/ v[i] * 4 > v[j] * 4
          \/ ~ (v[j] * 4 > v[i] * 4) /\ e[i] < e[j]
    BY <2>3 DEF Convinces
  <2> QED
    BY <2>1, <2>4, <2>5, Zenon
<1>11. PICK own \in 1 .. n : specs[own].meter = meter /\ specs[own].feet = feet
  BY <1>1, <1>3
<1>12. result[own].ok /\ e[own] = 0
  <2>1. /\ Mismatches(ActualPattern(line), Expected(meter, feet)) = {}
        /\ LineLengthOk(ActualPattern(line), Expected(meter, feet))
    BY DEF ScansExactly
  <2>2. result[own].errors = {} /\ Cardinality({}) = 0
    BY <1>6, <1>11, <2>1, FS_EmptySet
  <2>3. 0 <= AllowedMismatches
    BY MismatchAssumption
  <2>4. result[own].ok
    BY <1>6, <1>11, <2>1, <2>2, <2>3
  <2>5. e[own] = 4 * Cardinality(result[own].errors)
    BY <1>11
  <2> QED
    BY <2>2, <2>4, <2>5
<1> HIDE DEF v, e
<1>13. best \in 1 .. n /\ result[best].ok /\ e[best] = 0
  <2>1. /\ best \in 0 .. n /\ (best # 0 => best \in eligible)
        /\ best = 0 => \A i \in 1 .. n : i \notin eligible
    BY <1>3, <1>7, FirstBestIsEligible DEF best
  <2>2. own \in eligible
    BY <1>9, <1>11, <1>12
  <2>3. best \in 1 .. n /\ best \in eligible
    BY <1>3, <2>1, <2>2
  <2>4. /\ \A i, j \in 1 .. n : beats[i][j] => ~ beats[j][i]
        /\ \A i, j, m \in 1 .. n : beats[i][j] /\ ~ beats[m][j] => beats[i][m]
    BY <1>8, <1>10, ConvincingOrders
  <2>5. best # 0 => \A i \in (1 .. n) \cap eligible : ~ beats[i][best] /\ (i < best => beats[best][i])
    BY <1>3, <1>7, <2>4, FirstBestWins DEF best
  <2>6. ~ beats[own][best]
    BY <2>2, <2>3, <2>5
  <2>7. ~ Convinces(v[own], e[own], v[best], e[best])
    BY <1>10, <2>3, <2>6
  <2>8. result[best].ok
    BY <1>9, <2>3
  <2>9. v[own] = 4 /\ v[best] = 4 /\ e[best] \in Nat
    BY <1>6, <1>12, <2>3, <2>8 DEF v, e
  <2>10. e[best] = 0
    BY <1>12, <2>7, <2>9 DEF Convinces
  <2> QED
    BY <2>3, <2>8, <2>10
<1>14. result[best].errors = {}
  <2>1. Cardinality(result[best].errors) = 0
    BY <1>6, <1>13 DEF e
  <2> QED
    BY <1>6, <1>13, <2>1, FS_EmptySet
<1>15. specs[best].meter = meter /\ specs[best].feet = feet
  <2>1. /\ specs[best].meter \in DOMAIN Foot /\ specs[best].feet \in Nat /\ specs[best].feet >= 1
    <3>1. specs[best].meter \in DOMAIN Foot /\ specs[best].feet \in low .. high
      BY <1>3, <1>13
    <3>2. \A f \in low .. high : f \in Nat /\ f >= 1
      BY <1>1
    <3> QED
      BY <3>1, <3>2
  <2>2. /\ Mismatches(ActualPattern(line), Expected(specs[best].meter, specs[best].feet)) = {}
        /\ LineLengthOk(ActualPattern(line), Expected(specs[best].meter, specs[best].feet))
    BY <1>6, <1>13, <1>14
  <2>3. /\ Mismatches(ActualPattern(line), Expected(meter, feet)) = {}
        /\ LineLengthOk(ActualPattern(line), Expected(meter, feet))
    BY DEF ScansExactly
  <2>4. ActualPattern(line) \in Seq(Marks)
    BY ActualPatternIs DEF CasesInv
  <2> DEFINE meter2 == specs[best].meter
             feet2 == specs[best].feet
  <2> HIDE DEF meter2, feet2
  <2> QED
    BY <1>2, <2>1, <2>2, <2>3, <2>4, OneMetreFits DEF meter2, feet2
<1> QED
  BY <1>5, <1>6, <1>13, <1>15 DEF detected, text

\* For every vocabulary and all numbers of feet: a quatrain of a line of two feet or more
\* that scans exactly, without tolerated words, is detected in its own metre, and no other
\* reading of it, earlier or later in the order they are tried, wins.
THEOREM OwnMeterDetected == CasesSpec => []DetectsOwnMeter
<1>1. CasesInv => DetectsOwnMeter
  BY OwnMeterWins DEF DetectsOwnMeter
<1> QED
  BY <1>1, LinesAreWords, PTL

=============================================================================
