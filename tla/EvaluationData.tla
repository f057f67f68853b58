--------------------------- MODULE EvaluationData ---------------------------
(***************************************************************************)
(* The two catalogues an evaluation ranges over: the ablation              *)
(* configurations A to H, which say what stages of the pipeline are on,    *)
(* and the registered scenarios N01 to C08.  Themes, names and             *)
(* descriptions of scenarios are left out.                                 *)
(***************************************************************************)
EXTENDS Naturals

\* Mutant of EnabledStages: one of the configurations without feedback has it.
EnabledStagesLeaky ==
  [A |-> {"validation"},
   B |-> {"validation", "feedback_loop"},
   C |-> {"validation", "feedback_loop", "retrieval"},
   D |-> {"validation", "feedback_loop", "metric_examples"},
   E |-> {"validation", "feedback_loop", "retrieval", "metric_examples"},
   F |-> {"validation", "feedback_loop", "retrieval"},
   G |-> {"validation", "metric_examples"},
   H |-> {"validation", "retrieval", "metric_examples"}]

\* ABLATION_CONFIGS: validation is always on, feedback only in B to E.
EnabledStages ==
  [A |-> {"validation"},
   B |-> {"validation", "feedback_loop"},
   C |-> {"validation", "feedback_loop", "retrieval"},
   D |-> {"validation", "feedback_loop", "metric_examples"},
   E |-> {"validation", "feedback_loop", "retrieval", "metric_examples"},
   F |-> {"validation", "retrieval"},
   G |-> {"validation", "metric_examples"},
   H |-> {"validation", "retrieval", "metric_examples"}]

\* The order in which ABLATION_CONFIGS lists its labels.
ConfigLabels == <<"A", "B", "C", "D", "E", "F", "G", "H">>

\* DEFAULT_GENERATION_CONFIG, of the interactive front end.
GenerationConfig == {"retrieval", "metric_examples", "validation", "feedback_loop"}

-----------------------------------------------------------------------------

\* EvaluationScenario: a stanza has four lines unless a caller overrides it.
Scenario(category, meter, feet, scheme, stanzas) ==
  [category |-> category, meter |-> meter, feet |-> feet, scheme |-> scheme,
   stanzas  |-> stanzas, linesPerStanza |-> 4]

NORMAL_SCENARIOS ==
  [N01 |-> Scenario("normal", "iamb", 4, "ABAB", 1),
   N02 |-> Scenario("normal", "trochee", 4, "AABB", 1),
   N03 |-> Scenario("normal", "dactyl", 4, "ABBA", 1),
   N04 |-> Scenario("normal", "amphibrach", 4, "ABAB", 2),
   N05 |-> Scenario("normal", "anapest", 4, "AABB", 2)]

EDGE_SCENARIOS ==
  [E01 |-> Scenario("edge", "iamb", 2, "AABB", 1),
   E02 |-> Scenario("edge", "iamb", 6, "ABAB", 1),
   E03 |-> Scenario("edge", "anapest", 6, "ABBA", 1),
   E04 |-> Scenario("edge", "amphibrach", 5, "AAAA", 1),
   E05 |-> Scenario("edge", "dactyl", 5, "ABAB", 1)]

CORNER_SCENARIOS ==
  [C01 |-> Scenario("corner", "trochee", 6, "ABAB", 1),
   C02 |-> Scenario("corner", "iamb", 5, "ABAB", 1),
   C03 |-> Scenario("corner", "dactyl", 3, "ABAB", 1),
   C04 |-> Scenario("corner", "hexameter", 4, "ABAB", 1),
   C05 |-> Scenario("corner", "anapest", 1, "ABAB", 1),
   C06 |-> Scenario("corner", "amphibrach", 6, "AABB", 1),
   C07 |-> Scenario("corner", "iamb", 4, "ABAB", 1),
   C08 |-> Scenario("corner", "trochee", 0, "ABAB", 1)]

ALL_SCENARIOS ==
  [id \in DOMAIN NORMAL_SCENARIOS \cup DOMAIN EDGE_SCENARIOS \cup DOMAIN CORNER_SCENARIOS |->
     CASE id \in DOMAIN NORMAL_SCENARIOS -> NORMAL_SCENARIOS[id]
       [] id \in DOMAIN EDGE_SCENARIOS   -> EDGE_SCENARIOS[id]
       [] id \in DOMAIN CORNER_SCENARIOS -> CORNER_SCENARIOS[id]]

TotalLines(scenario) == scenario.stanzas * scenario.linesPerStanza

=============================================================================
