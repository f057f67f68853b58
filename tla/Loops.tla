-------------------------------- MODULE Loops --------------------------------
(***************************************************************************)
(* The loops over lists and sets that several components run.  The library *)
(* says the same of them with an operator for an argument; as recursive    *)
(* functions of how far the loop has come they can be reasoned about.      *)
(***************************************************************************)
EXTENDS Integers, Sequences, FiniteSets

\* The elements of s that are in S, in order.
Filter(s, S) ==
  LET upTo[i \in 0 .. Len(s)] ==
        IF i = 0 THEN <<>>
        ELSE IF s[i] \in S THEN Append(upTo[i - 1], s[i]) ELSE upTo[i - 1]
  IN  upTo[Len(s)]

\* The sum of a list of numbers.
SumOf(s) ==
  LET upTo[i \in 0 .. Len(s)] == IF i = 0 THEN 0 ELSE upTo[i - 1] + s[i]
  IN  upTo[Len(s)]

\* The sum of what a function with finitely many arguments has for them, which are
\* taken one after the other.
SumOver(f) ==
  LET taken[n \in 0 .. Cardinality(DOMAIN f)] ==
        IF n = 0 THEN [left |-> DOMAIN f, sum |-> 0]
        ELSE LET before == taken[n - 1]
                 next   == CHOOSE x \in before.left : TRUE
             IN  [left |-> before.left \ {next}, sum |-> before.sum + f[next]]
  IN  taken[Cardinality(DOMAIN f)].sum

\* Of the candidates 1 .. n, one after the other, the one to keep: an eligible one, and
\* instead of it a later one that beats it.  It is 0 if no candidate is eligible.
FirstBest(n, eligible, beats) ==
  LET kept[i \in 0 .. n] ==
        IF i = 0 THEN 0
        ELSE LET best == kept[i - 1]
             IN  IF i \in eligible /\ (best = 0 \/ beats[i][best]) THEN i ELSE best
  IN  kept[n]

=============================================================================
