--------------------------- MODULE MCProsodyCases ---------------------------
(***************************************************************************)
(* Small instance of ProsodyCases: words of up to three syllables with the *)
(* stress on each of them, words the dictionary does not know or counts    *)
(* otherwise, light words, and a preposition without a vowel.  The words   *)
(* compared as ends of lines have every shape of up to three letters and   *)
(* some of four and five, read by the dictionary, wrongly or not at all;   *)
(* two of them have two pairs of candidates that are as close.             *)
(***************************************************************************)
EXTENDS ProsodyCases

\* A word spelt with these letters.
Spelt(ipa, dictionary, ending) ==
  [syllables |-> Cardinality(VowelPositions(ipa)), dictionary |-> dictionary,
   ending |-> ending, weak |-> FALSE, ipa |-> ipa]

\* A word of which the letters do not matter.
Content(syllables, dictionary, ending) ==
  Spelt([i \in 1 .. syllables |-> "a"], dictionary, ending)

Light(syllables, dictionary) ==
  [Content(syllables, dictionary, "soft") EXCEPT !.weak = TRUE]

MCVocabulary ==
  { Light(0, NoAnswer), Light(1, 0), Light(2, 0),
    Content(1, NoAnswer, "hard"), Content(2, 0, "hard"), Content(2, NoAnswer, "hard"),
    Content(3, 0, "soft"), Content(3, NoAnswer, "soft"), Content(3, 3, "hard"),
    Content(3, NoAnswer, "ota") }

MCEndWords ==
  {Spelt(ipa, NoAnswer, "hard") :
     ipa \in {<<>>, <<"t">>, <<"l">>, <<"a", "t">>, <<"o", "t">>, <<"a", "l">>, <<"l", "a">>,
              <<"l", "a", "t">>, <<"t", "o", "t">>, <<"o", "l", "t">>, <<"a", "t", "a">>}}
  \cup {Spelt(<<"t", "o", "a">>, 1, "soft"), Spelt(<<"t", "o", "t", "a", "a">>, 0, "soft")}
  \cup {Spelt(ipa, stress, "soft") :
     stress \in {0, 1, 2, NoAnswer},
     ipa \in {<<"t", "a", "l", "o">>, <<"o", "t", "a", "l">>, <<"t", "o", "t", "a">>,
              <<"t", "o", "l", "a">>, <<"a", "l", "o", "t", "a">>}}

MCFeet == 1 .. 6

=============================================================================
