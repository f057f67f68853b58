----------------------------- MODULE MCDetection -----------------------------
(***************************************************************************)
(* Small instance of Detection, with MeterValidation and RhymeAnalysis as  *)
(* the two validators.  Lines a and b are iambs, c is a dactyl and mute    *)
(* has no word; b rhymes with a and with c, which do not rhyme with each   *)
(* other: b has a part in common with each by another stress.              *)
(***************************************************************************)
EXTENDS Detection

CONSTANTS AllowedMismatches, NoAnswer

Prosody == INSTANCE RhymeAnalysis

Iamb(ipa) ==
  [syllables |-> 2, dictionary |-> 1, ending |-> "soft", weak |-> FALSE, ipa |-> ipa]
Dactyl(ipa) ==
  [syllables |-> 3, dictionary |-> 0, ending |-> "soft", weak |-> FALSE, ipa |-> ipa]

Twice(word) == <<word, word>>

a == Twice(Iamb(<<"m", "o", "t", "a">>))
b == Twice(Iamb(<<"k", "a", "l", "a">>))
c == Twice(Dactyl(<<"o", "k", "a", "l", "a">>))
mute == <<>>

\* The verdicts of the meter validator, worked out once.
Verdicts ==
  [line \in {a, b, c, mute}, meter \in Range(Meters), feet \in 1 .. 6 |->
     Prosody!LineResult(line, meter, feet)]
MCScan(line, meter, feet) == Verdicts[line, meter, feet]

\* The pairs that rhyme, written out, and the check that they are those that do.
Rhyming == {<<a, a>>, <<b, b>>, <<c, c>>, <<a, b>>, <<b, a>>, <<b, c>>, <<c, b>>}
MCRhymeOk(line, other) == <<line, other>> \in Rhyming

ASSUME RhymingAssumption ==
  Rhyming = {pair \in {a, b, c, mute} \X {a, b, c, mute} : Prosody!LinesRhyme(pair[1], pair[2])}

\* Every text of up to four lines, blank ones included; two quatrains one after the
\* other, with a blank line between them or elsewhere; and three quatrains.
Quatrains == [1 .. 4 -> {a, b, c}]
Some == {<<a, a, a, a>>, <<a, c, a, c>>, <<a, a, c, c>>, <<c, a, a, c>>, <<b, a, c, a>>,
         <<mute, a, a, mute>>}
MCPoems ==
  (UNION {[1 .. n -> {a, c, mute, Blank}] : n \in 0 .. 4})
    \cup {q \o r : q \in Quatrains, r \in Some}
    \cup {q \o <<Blank>> \o r : q \in Some, r \in Quatrains}
    \cup {<<Blank>> \o q \o r : q \in Some, r \in Some}
    \cup {q \o <<c, Blank, c>> \o r \o <<a, a, Blank>> : q \in Some, r \in Some}
    \cup {q \o r \o s : q \in Some, r \in Some, s \in Some}

=============================================================================
