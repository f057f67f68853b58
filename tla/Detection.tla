------------------------------ MODULE Detection ------------------------------
(***************************************************************************)
(* detect_poem, behind the HTML and the JSON front end: classify a whole   *)
(* poem, split it into stanzas and give each stanza the meter and the      *)
(* rhyme scheme of the poem or, where these do not do, its own.            *)
(*                                                                         *)
(* A poem is a sequence of lines, some of them blank.  The detectors run   *)
(* in one thread and keep nothing between requests; a DomainError they     *)
(* could raise needs a meter or a scheme that does not exist.              *)
(***************************************************************************)
EXTENDS Detectors, SequencesExt

CONSTANTS
  Poems,  \* the texts a request may bring
  Blank   \* a line of white space

\* The lines of the texts; the validator finds finitely many errors in each.
Lines == (UNION {Range(text) : text \in Poems}) \ {Blank}

ASSUME TextAssumption ==
  /\ \A text \in Poems : text \in Seq(Lines \cup {Blank})
  /\ \A line \in Lines, meter \in Range(Meters), feet \in 2 .. 6 :
       IsFiniteSet(Scan(line, meter, feet).errors)

VARIABLES
  pc,         \* the part of detect_poem to run next
  poem,       \* poem_text
  want,       \* the aspects the request asks for, of {"meter", "rhyme"}
  fullMeter,  \* full_meter
  fullRhyme,  \* full_rhyme
  todo,       \* the stanzas not yet looked at
  stanzas     \* stanza_results

vars == <<pc, poem, want, fullMeter, fullRhyme, todo, stanzas>>

StanzaSize == 4

\* all_lines.
LinesOf(text) == Filter(text, Range(text) \ {Blank})

-----------------------------------------------------------------------------
\* split_stanzas.

\* Close the stanza that is being collected, if it has a line.
Flush(acc) ==
  IF acc.current = <<>> THEN acc
  ELSE [stanzas |-> Append(acc.stanzas, acc.current), current |-> <<>>]

\* Put the next line of the text into the stanza, or close it at a blank one.
Collect(acc, line) ==
  IF line = Blank THEN Flush(acc) ELSE [acc EXCEPT !.current = Append(@, line)]

Collected(text) ==
  LET upTo[i \in 0 .. Len(text)] ==
        IF i = 0 THEN [stanzas |-> <<>>, current |-> <<>>] ELSE Collect(upTo[i - 1], text[i])
  IN  upTo[Len(text)]

\* Mutant of Blocks: the stanza after the last blank line is forgotten.
BlocksUnflushed(text) == Collected(text).stanzas

\* The stanzas that blank lines separate.
Blocks(text) == Flush(Collected(text)).stanzas

\* The text in stanzas of equal size, the last one as long as the rest.
Chunks(text) ==
  [i \in 1 .. (Len(text) + StanzaSize - 1) \div StanzaSize |->
     SubSeq(text, StanzaSize * (i - 1) + 1, Min({StanzaSize * i, Len(text)}))]

\* Any blank line, a leading or trailing one too, stands against chunks.
SplitStanzas(text) ==
  IF Blank \in Range(text) \/ Len(Blocks(text)) # 1 \/ Len(LinesOf(text)) <= StanzaSize
  THEN Blocks(text)
  ELSE Chunks(LinesOf(text))

-----------------------------------------------------------------------------
\* What a stanza gets.

\* _detect_meter_for_stanza: the poem's meter, its own, or the best guess.
StanzaMeter(stanza) ==
  IF fullMeter # None THEN fullMeter
  ELSE IF Detect(stanza).meter # None THEN Detect(stanza).meter
  ELSE BestGuessMeter(stanza)

\* Mutant of StanzaRhyme: the poem's scheme is not tried on the stanza.
StanzaRhymeInherited(stanza) ==
  IF fullRhyme # None THEN fullRhyme ELSE Detect(stanza).rhyme

\* _resolve_stanza_rhyme: the poem's scheme if it fits, the stanza's own, or again
\* the poem's.
StanzaRhyme(stanza) ==
  LET fits == /\ fullRhyme # None
              /\ Reaches(RhymeAccuracy(stanza, fullRhyme.scheme), RhymeMinPercent)
  IN  IF ~ fits /\ Detect(stanza).rhyme # None THEN Detect(stanza).rhyme ELSE fullRhyme

\* A stanza of the response.  One without a meter is shown as plain text and not
\* validated, whatever its rhyme.
StanzaResult(stanza) ==
  LET meter == IF "meter" \in want THEN StanzaMeter(stanza) ELSE None
      rhyme == IF "rhyme" \in want THEN StanzaRhyme(stanza) ELSE None
  IN  IF meter = None
      THEN [lines |-> stanza, meter |-> None, rhyme |-> None,
            meterAccuracy |-> None, rhymeAccuracy |-> None]
      ELSE [lines |-> stanza, meter |-> meter, rhyme |-> rhyme,
            meterAccuracy |-> Reading(stanza, meter).accuracy,
            rhymeAccuracy |->
              RhymeAccuracy(stanza, IF rhyme # None THEN rhyme.scheme ELSE "ABAB")]

-----------------------------------------------------------------------------

Init ==
  /\ pc = "request"
  /\ poem \in Poems
  /\ want \in SUBSET {"meter", "rhyme"}
  /\ fullMeter = None
  /\ fullRhyme = None
  /\ todo = <<>>
  /\ stanzas = <<>>

Refused ==
  \/ want = {}
  \/ LinesOf(poem) = <<>>
  \/ "rhyme" \in want /\ Len(LinesOf(poem)) % StanzaSize # 0

\* Nothing is asked for, the poem is empty, or it has no whole number of quatrains.
Refuse ==
  /\ pc = "request"
  /\ Refused
  /\ pc' = "refused"
  /\ UNCHANGED <<poem, want, fullMeter, fullRhyme, todo, stanzas>>

\* The meter of the whole poem, and its scheme on the way; a poem of less than a
\* stanza gets the best guess.
DetectWithMeter ==
  /\ pc = "request"
  /\ ~ Refused
  /\ "meter" \in want
  /\ pc' = "rhyme"
  /\ IF Len(LinesOf(poem)) >= StanzaSize
     THEN LET result == Detect(LinesOf(poem))
          IN  /\ fullMeter' = result.meter
              /\ fullRhyme' = IF "rhyme" \in want THEN result.rhyme ELSE fullRhyme
     ELSE /\ fullMeter' = BestGuessMeter(LinesOf(poem))
          /\ fullRhyme' = fullRhyme
  /\ UNCHANGED <<poem, want, todo, stanzas>>

\* No meter is asked for.
SkipMeter ==
  /\ pc = "request"
  /\ ~ Refused
  /\ "meter" \notin want
  /\ pc' = "rhyme"
  /\ UNCHANGED <<poem, want, fullMeter, fullRhyme, todo, stanzas>>

\* The scheme of the whole poem, if it is not known yet, and the stanzas: without
\* rhyme the whole poem is one.
DetectRhymeAndSplit ==
  /\ pc = "rhyme"
  /\ pc' = "stanzas"
  /\ fullRhyme' =
       IF /\ "rhyme" \in want
          /\ fullRhyme = None
          /\ Len(LinesOf(poem)) >= StanzaSize
       THEN Detect(LinesOf(poem)).rhyme
       ELSE fullRhyme
  /\ todo' = IF "rhyme" \in want THEN SplitStanzas(poem) ELSE <<LinesOf(poem)>>
  /\ UNCHANGED <<poem, want, fullMeter, stanzas>>

ResolveStanza ==
  /\ pc = "stanzas"
  /\ todo # <<>>
  /\ stanzas' = Append(stanzas, StanzaResult(Head(todo)))
  /\ todo' = Tail(todo)
  /\ UNCHANGED <<pc, poem, want, fullMeter, fullRhyme>>

Respond ==
  /\ pc = "stanzas"
  /\ todo = <<>>
  /\ pc' = "done"
  /\ UNCHANGED <<poem, want, fullMeter, fullRhyme, todo, stanzas>>

Next ==
  \/ Refuse \/ DetectWithMeter \/ SkipMeter
  \/ DetectRhymeAndSplit \/ ResolveStanza \/ Respond

Spec == Init /\ [][Next]_vars

-----------------------------------------------------------------------------

\* No line of the poem is lost, doubled or moved by the split into stanzas
\* (split_stanzas, the loop of detect_poem).
EveryLineShownOnce ==
  pc \in {"stanzas", "done"} =>
    FlattenSeq([i \in DOMAIN stanzas |-> stanzas[i].lines] \o todo) = LinesOf(poem)

\* A scheme that does not reach the threshold on a stanza is shown there only if no
\* scheme does: a stanza that departs from the poem's scheme gets its own
\* (_stanza_rhyme_fits and _resolve_stanza_rhyme).
StanzaSchemeIsJustified ==
  pc = "done" =>
    \A i \in DOMAIN stanzas :
      LET Fits(scheme) == Reaches(RhymeAccuracy(stanzas[i].lines, scheme), RhymeMinPercent)
      IN  stanzas[i].rhyme # None /\ ~ Fits(stanzas[i].rhyme.scheme) =>
            \A scheme \in Range(Schemes) : ~ Fits(scheme)

\* A poem is detected as monorhyme exactly when no scheme says more: a poem of which
\* one scheme holds better than another is never AAAA, and a poem that satisfies all
\* of them equally is never anything else (the order of _CANDIDATE_PATTERNS).
MonorhymeIffSchemesAgree ==
  fullRhyme # None =>
    LET accuracy == [scheme \in Range(Schemes) |-> RhymeAccuracy(LinesOf(poem), scheme)]
    IN  fullRhyme.scheme = "AAAA" <=>
          \A s1, s2 \in Range(Schemes) : ~ Higher(accuracy[s1], accuracy[s2])

\* A stanza with a line that scans in some meter of two feet or more is never shown
\* without a meter (the three levels of _detect_meter_for_stanza).
ScanningStanzaGetsMeter ==
  pc = "done" /\ "meter" \in want =>
    \A i \in DOMAIN stanzas :
      (\E k \in DOMAIN stanzas[i].lines, meter \in Range(Meters), feet \in 2 .. 6 :
         Scan(stanzas[i].lines[k], meter, feet).ok) =>
      stanzas[i].meter # None

=============================================================================
