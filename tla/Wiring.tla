------------------------------- MODULE Wiring -------------------------------
(***************************************************************************)
(* The object graph of the application: for each adapter the sub-          *)
(* containers can make, the adapters its factory asks the container for,   *)
(* in the order of the code; and what each program asks for.               *)
(***************************************************************************)
EXTENDS Sequences

Primitives ==
  [clock |-> <<>>, delayer |-> <<>>, text_processor |-> <<>>,
   string_similarity |-> <<>>, stress_dict |-> <<>>, syllable_counter |-> <<>>,
   stress_resolver |-> <<"stress_dict", "syllable_counter">>,
   phonetic_transcriber |-> <<>>, meter_canonicalizer |-> <<>>,
   meter_template_provider |-> <<>>, weak_stress_lexicon |-> <<>>,
   syllable_flag_strategy |-> <<"weak_stress_lexicon">>,
   prosody |-> <<"meter_template_provider", "syllable_flag_strategy",
                 "stress_resolver", "weak_stress_lexicon">>,
   line_feedback_builder |-> <<"meter_template_provider">>]

Validation ==
  [bsp_algorithm |-> <<>>,
   bsp_meter_validator |-> <<"prosody", "text_processor", "line_feedback_builder",
                             "bsp_algorithm">>,
   meter_validator |-> <<"prosody", "text_processor", "line_feedback_builder">>,
   rhyme_scheme_extractor |-> <<>>,
   rhyme_pair_analyzer |-> <<"stress_resolver", "phonetic_transcriber",
                             "string_similarity", "syllable_counter">>,
   rhyme_validator |-> <<"text_processor", "rhyme_scheme_extractor", "rhyme_pair_analyzer">>,
   poem_validator |-> <<"meter_validator", "rhyme_validator">>,
   feedback_formatter |-> <<>>]

DataPlane ==
  [theme_repo |-> <<>>,
   metric_repo |-> <<"meter_canonicalizer">>,
   embedder |-> <<>>,
   retriever |-> <<"embedder">>]

\* An injected provider replaces the whole reliability stack.
LLMStack(injected) ==
  [llm_factory |-> <<>>, poem_output_sanitizer |-> <<>>, poem_extractor |-> <<>>,
   llm_call_recorder |-> <<>>,
   llm |-> IF injected THEN <<>>
           ELSE <<"regeneration_prompt_builder", "llm_factory", "llm_call_recorder",
                  "llm_call_recorder", "poem_extractor", "poem_output_sanitizer">>,
   provider_info |-> <<"llm">>]

PipelineStages ==
  [regeneration_prompt_builder |-> <<>>, prompt_builder |-> <<>>,
   regeneration_merger |-> <<>>, iteration_stop_policy |-> <<>>,
   feedback_cycle |-> <<"meter_validator", "rhyme_validator", "feedback_formatter">>,
   feedback_iterator |-> <<"llm", "feedback_cycle", "regeneration_merger",
                           "iteration_stop_policy", "llm_call_recorder">>,
   skip_policy |-> <<>>,
   stage_registrations |->
     <<"skip_policy", "theme_repo", "retriever", "metric_repo", "prompt_builder", "llm",
       "meter_validator", "rhyme_validator", "feedback_formatter", "stage_record_builder",
       "llm_call_recorder", "feedback_iterator">>,
   stage_factory |-> <<"stage_registrations">>,
   generation_pipeline_inner |-> <<"stage_factory">>,
   poem_generation_pipeline |-> <<"generation_pipeline_inner">>]

\* Mutant of CalculatorRegistry: the metrics stage asks for its registry when it runs.
CalculatorRegistryLate ==
  [metric_registry |-> <<"meter_validator", "rhyme_validator", "embedder">>,
   final_metrics_stage |-> <<>>,
   stage_record_builder |-> <<>>]

CalculatorRegistry ==
  [metric_registry |-> <<"meter_validator", "rhyme_validator", "embedder">>,
   final_metrics_stage |-> <<"metric_registry">>,
   stage_record_builder |-> <<>>]

Reporting ==
  [reporter |-> <<>>, results_writer |-> <<"reporter">>, batch_results_writer |-> <<>>,
   tracer_factory |-> <<>>, http_error_mapper |-> <<>>, evaluation_aggregator |-> <<>>]

Evaluation ==
  [scenario_registry |-> <<>>,
   evaluation_pipeline |-> <<"stage_factory", "final_metrics_stage">>]

DetectionAdapters ==
  [stanza_sampler |-> <<"text_processor">>,
   meter_detector |-> <<"meter_validator">>,
   rhyme_detector |-> <<"rhyme_validator">>]

\* The getters of one container, by whether it was given a provider.
Parts(injected) ==
  {Primitives, Validation, DataPlane, LLMStack(injected), PipelineStages,
   CalculatorRegistry, Reporting, Evaluation, DetectionAdapters}

Adapters == UNION {DOMAIN part : part \in Parts(FALSE)}

\* What they lead to.
Getters ==
  [injected \in BOOLEAN |->
     [name \in Adapters |-> (CHOOSE part \in Parts(injected) : name \in DOMAIN part)[name]]]

-----------------------------------------------------------------------------

PoetryService == <<"poem_generation_pipeline", "poem_validator", "provider_info">>

EvaluationService ==
  <<"evaluation_pipeline", "tracer_factory", "scenario_registry", "clock">>

BatchEvaluationService == EvaluationService \o <<"batch_results_writer", "delayer">>

DetectionService == <<"stanza_sampler", "meter_detector", "rhyme_detector">>

\* A program asks its n-th container for something.
Ask(n, keys) == [i \in DOMAIN keys |-> <<n, keys[i]>>]

\* What the web application asks for before it serves a request.
AppStartup ==
  Ask(1, PoetryService \o
         <<"feedback_formatter", "http_error_mapper", "scenario_registry",
           "meter_validator", "rhyme_validator">> \o
         EvaluationService \o DetectionService)

\* The evaluation script: reporter, writer and service each in a container of its own.
EvaluationScript ==
  Ask(1, <<"reporter">>) \o Ask(2, <<"results_writer">>) \o
  Ask(3, <<"scenario_registry", "evaluation_aggregator">>) \o Ask(4, EvaluationService)

\* The batch script: scenarios from one container, the service in another.
BatchScript == Ask(1, <<"scenario_registry">>) \o Ask(2, BatchEvaluationService)

\* The single-run script: formatter first, service at the start of the run.
GenerateScript == Ask(1, <<"feedback_formatter">>) \o Ask(2, PoetryService)
=============================================================================
