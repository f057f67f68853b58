----------------------------- MODULE RhymeScheme -----------------------------
(***************************************************************************)
(* The lines of a poem that must rhyme under a scheme.  A scheme is a      *)
(* sequence of letters, one for each line of a stanza; lines are numbered  *)
(* from 1, the code numbers them from 0.                                   *)
(***************************************************************************)
EXTENDS Naturals, Sequences

\* The lines of a stanza with the same letter, as pairs of positions.
StanzaPairs(scheme) ==
  {p \in (DOMAIN scheme) \X (DOMAIN scheme) : p[1] < p[2] /\ scheme[p[1]] = scheme[p[2]]}

\* extract_pairs: the scheme, repeated over the complete stanzas of n lines.
ExtractPairs(scheme, n) ==
  {<<k * Len(scheme) + p[1], k * Len(scheme) + p[2]>> :
     k \in 0 .. (n \div Len(scheme)) - 1, p \in StanzaPairs(scheme)}

=============================================================================
