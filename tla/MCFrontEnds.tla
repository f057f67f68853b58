---------------------------- MODULE MCFrontEnds ----------------------------
(***************************************************************************)
(* Environments and requests that differ from the ordinary one in one      *)
(* variable or in up to two fields, at the bounds and next to them.        *)
(***************************************************************************)
EXTENDS FrontEnds, Integers, TLC

Environment ==
  [LLM_PROVIDER |-> <<>>, GEMINI_API_KEY |-> <<"key">>, GEMINI_TEMPERATURE |-> 9,
   GEMINI_MAX_TOKENS |-> 8192, LLM_TIMEOUT_SEC |-> 120, LLM_RETRY_MAX_ATTEMPTS |-> 2,
   PORT |-> 8000]

MCEnvironments ==
  {[Environment EXCEPT !.LLM_PROVIDER = p, !.GEMINI_API_KEY = k] :
     p \in {<<>>, <<"#", "auto">>, <<"gemini">>, <<"mock", "#", "for tests">>, <<"claude">>},
     k \in {<<>>, <<"key">>}}
    \cup {[Environment EXCEPT !.GEMINI_TEMPERATURE = t] : t \in {-1, 20, 21}}
    \cup {[Environment EXCEPT !.GEMINI_MAX_TOKENS = 0], [Environment EXCEPT !.LLM_TIMEOUT_SEC = 0],
           [Environment EXCEPT !.LLM_RETRY_MAX_ATTEMPTS = 0]}
    \cup {[Environment EXCEPT !.PORT = p] : p \in {0, 65535, 65536}}

Text(length, blank, lines) == [length |-> length, blank |-> blank, lines |-> lines]

Texts(longest) ==
  {Text(0, TRUE, 0), Text(1, TRUE, 0), Text(longest, FALSE, 4), Text(longest + 1, FALSE, 4)}

\* The values a field of an endpoint may have.
Choices ==
  [generate |->
     [theme |-> Texts(200), meter |-> {"", "iamb", "dactyl_en", "hexameter"}, feet |-> {0, 1, 6, 7},
      scheme |-> {"", "AABB", "ABCB"}, stanzas |-> {0, 1, 5, 6}, iterations |-> {-1, 0, 3, 4},
      top_k |-> {0, 20, 21}, metric_examples_top_k |-> {0, 10, 11}, lines_per_stanza |-> {3, 4}],
   validate |->
     [poem_text |-> Texts(5000), meter |-> {"", "iamb", "dactyl_en", "hexameter"},
      feet |-> {0, 1, 6, 7}, scheme |-> {"", "AABB", "ABCB"}],
   detect |->
     [poem_text |-> Texts(5000) \cup {Text(9, FALSE, 3), Text(9, FALSE, 8)},
      detect_meter |-> BOOLEAN, detect_rhyme |-> BOOLEAN, sample_lines |-> {4, 5}],
   evaluate |->
     [scenario_id |-> {"", "N01", "C04", "C08", "X99"}, config_label |-> {"", "A", "H", "Z"},
      iterations |-> {-1, 0, 3, 4}]]

\* What every request sends.
Base ==
  [generate |-> "theme" :> Text(200, FALSE, 0),
   validate |-> "poem_text" :> Text(5000, FALSE, 4),
   detect   |-> [poem_text    |-> Text(5000, FALSE, 4),
                 detect_meter |-> TRUE, detect_rhyme |-> TRUE],
   evaluate |-> "scenario_id" :> "N01"]

\* One field with a value of its own, or none.
Change(e) ==
  {<<>>} \cup UNION {{n :> v : v \in Choices[e][n]} : n \in DOMAIN Choices[e]}

\* The ordinary request with up to two changes; and the empty one.
MCRequests ==
  UNION {{[endpoint |-> e, fields |-> c @@ d @@ Base[e]] : c \in Change(e), d \in Change(e)} :
         e \in DOMAIN Choices}
    \cup {[endpoint |-> e, fields |-> <<>>] : e \in DOMAIN Choices}

=============================================================================
