------------------------------ MODULE FrontEnds ------------------------------
(***************************************************************************)
(* The web application from its environment variables to its answers.  It  *)
(* reads its configuration once, decides which LLM provider to show and    *)
(* which one to build, and serves four operations twice: a JSON endpoint   *)
(* and an HTML form, each with rules, defaults and refusals of its own.    *)
(*                                                                         *)
(* A handler shares nothing with another but what was set at startup, so   *)
(* each is one step.  A request is submitted to both twins.  Words are     *)
(* taken as they are after strip() and lower() or upper(), which every     *)
(* handler applies before it looks one up.                                 *)
(***************************************************************************)
EXTENDS EvaluationData, Sequences, Naturals

CONSTANTS
  Environments,  \* the environments the application may be started in
  Requests,      \* the requests: an endpoint and the fields sent
  None           \* nothing yet

\* None is no answer, and a box is checked or not.
ASSUME FrontEndsAssumption ==
  /\ None \notin [status : Nat, body : {"result", "error", "detail", "error.html", "evaluate.html"}]
  /\ \A asked \in Requests :
       \A n \in {"detect_meter", "detect_rhyme"} \cap DOMAIN asked.fields :
         asked.fields[n] \in BOOLEAN

VARIABLES
  environment,  \* the environment variables
  app,          \* "new", "configured", "serving" or "failed"
  config,       \* the AppConfig
  info,         \* app.state.llm_info, what pages and API show of the provider
  provider,     \* the provider under the reliability stack
  request,      \* the request both twins are asked
  fault,        \* what goes wrong behind the services: "none" or a DomainError
  answers,      \* the answer of each twin
  calls         \* the command each twin gave to a service, and who served it

startVars == <<environment, app, config, info, provider>>
vars == <<startVars, request, fault, answers, calls>>

Twins == {"json", "html"}

-----------------------------------------------------------------------------
\* Configuration.

\* _str of from_env: the value up to a comment; a variable is a sequence of words.
Str(variable) ==
  IF variable = <<>> \/ Head(variable) = "#" THEN "" ELSE Head(variable)

\* The variables that are read, temperatures in tenths; the others keep their default.
FromEnv(env) ==
  [llm_provider       |-> Str(env.LLM_PROVIDER),
   gemini_api_key     |-> Str(env.GEMINI_API_KEY),
   gemini_temperature |-> env.GEMINI_TEMPERATURE,
   gemini_max_tokens  |-> env.GEMINI_MAX_TOKENS,
   timeout_sec        |-> env.LLM_TIMEOUT_SEC,
   retry_max_attempts |-> env.LLM_RETRY_MAX_ATTEMPTS,
   port               |-> env.PORT]

KNOWN_LLM_PROVIDERS == {"", "gemini", "mock"}

\* What __post_init__ of the configurations asks of these.
LegalNumbers(cfg) ==
  /\ cfg.gemini_temperature \in 0 .. 20
  /\ cfg.gemini_max_tokens > 0
  /\ cfg.timeout_sec > 0
  /\ cfg.retry_max_attempts >= 1
  /\ cfg.port \in 1 .. 65535

LegalConfig(cfg) == cfg.llm_provider \in KNOWN_LLM_PROVIDERS /\ LegalNumbers(cfg)

HasKey(cfg) == cfg.gemini_api_key # ""

\* llm_info: a mock that was asked for is ready, one that stands in is not.
LlmInfo(cfg) ==
  CASE cfg.llm_provider = "mock"   -> [provider |-> "mock", ready |-> TRUE]
    [] cfg.llm_provider = "gemini" -> [provider |-> "gemini", ready |-> HasKey(cfg)]
    [] OTHER -> [provider |-> IF HasKey(cfg) THEN "gemini" ELSE "mock",
                 ready    |-> HasKey(cfg)]

\* Mutant of ResolveName: a key decides, whatever the provider asked for.
ResolveNameByKey(cfg) == IF HasKey(cfg) THEN "gemini" ELSE "mock"

\* _resolve_name of the provider factory.
ResolveName(cfg) ==
  IF cfg.llm_provider # "" THEN cfg.llm_provider
  ELSE IF HasKey(cfg) THEN "gemini" ELSE "mock"

-----------------------------------------------------------------------------
\* Errors and their HTTP status.

HttpStatus ==
  [DomainError            |-> 500,
   ConfigurationError     |-> 400,
   UnsupportedConfigError |-> 422,
   ValidationError        |-> 422,
   RepositoryError        |-> 503,
   LLMError               |-> 502,
   LLMQuotaExceededError  |-> 429,
   EmbedderError          |-> 503,
   StressDictionaryError  |-> 503]

\* The errors of a generation, which are raised again after the pipeline.
GenerationFaults == {"LLMError", "LLMQuotaExceededError"}

-----------------------------------------------------------------------------
\* The domain: commands check themselves when they are made.

\* MeterName, with the canonical name of each member.
Canonical ==
  [iamb |-> "iamb", trochee |-> "trochee", dactyl |-> "dactyl",
   amphibrach |-> "amphibrach", anapest |-> "anapest",
   iamb_en |-> "iamb", trochee_en |-> "trochee", dactyl_en |-> "dactyl",
   amphibrach_en |-> "amphibrach", anapest_en |-> "anapest"]

RhymePatterns == {"ABAB", "AABB", "ABBA", "AAAA"}

MeterSpec(name, feet) ==
  [name |-> IF name \in DOMAIN Canonical THEN Canonical[name] ELSE name, feet |-> feet]

LegalMeterSpec(spec) == spec.name \in DOMAIN Canonical /\ spec.feet \in 1 .. 8

LegalGenerationRequest(command) ==
  /\ ~ command.theme.blank
  /\ LegalMeterSpec(command.meter)
  /\ command.rhyme \in RhymePatterns
  /\ command.stanzas >= 1 /\ command.lines_per_stanza >= 1
  /\ command.max_iterations \in 0 .. 10
  /\ command.top_k \in 1 .. 20
  /\ command.metric_examples_top_k \in 0 .. 10

LegalValidationRequest(command) ==
  /\ ~ command.poem_text.blank
  /\ LegalMeterSpec(command.meter)
  /\ command.rhyme \in RhymePatterns

\* The checks detect_poem makes before it detects anything.
LegalDetection(command) ==
  /\ command.want_meter \/ command.want_rhyme
  /\ command.poem_text.lines > 0
  /\ command.want_rhyme => command.poem_text.lines % 4 = 0

\* registry.by_id: an evaluation needs a scenario that is registered.
LegalEvaluation(command) == command.scenario \in DOMAIN ALL_SCENARIOS

\* An unknown label is taken for the last configuration.
ConfigFor(label) == IF label \in DOMAIN EnabledStages THEN label ELSE "H"

\* A scenario that makes no request is recorded on the trace, and no stage runs.
RunsPipeline(command) ==
  LET scenario == ALL_SCENARIOS[command.scenario]
  IN  /\ LegalMeterSpec(MeterSpec(scenario.meter, scenario.feet))
      /\ scenario.scheme \in RhymePatterns

-----------------------------------------------------------------------------
\* What is sent.  A field that is not sent is not in the domain of the fields.

Given(fields, name, default) == IF name \in DOMAIN fields THEN fields[name] ELSE default

\* External (FastAPI and the browser): a form field without a character counts as
\* not sent, and a box that is not checked is not sent.
FormFields(fields) ==
  LET empty == {n \in DOMAIN fields :
                  \/ n \in {"theme", "poem_text"} /\ fields[n].length = 0
                  \/ n \in {"meter", "scheme", "scenario_id", "config_label"} /\ fields[n] = ""
                  \/ n \in {"detect_meter", "detect_rhyme"} /\ ~ fields[n]}
  IN  [n \in DOMAIN fields \ empty |-> fields[n]]

LengthWithin(fields, name, longest) ==
  name \in DOMAIN fields /\ fields[name].length \in 1 .. longest

\* The JSON twins: the pydantic schemas and the commands made from them.

\* Mutant of GenerationSchema: the schema allows what the domain allows.
GenerationSchemaLoose(fields) ==
  /\ LengthWithin(fields, "theme", 200)
  /\ Given(fields, "feet", 4) \in 1 .. 6
  /\ Given(fields, "stanzas", 4) \in 1 .. 5
  /\ Given(fields, "lines_per_stanza", 4) = 4
  /\ Given(fields, "iterations", 3) \in 0 .. 10
  /\ Given(fields, "top_k", 5) \in 1 .. 20
  /\ Given(fields, "metric_examples_top_k", 3) \in 0 .. 10

GenerationSchema(fields) ==
  /\ LengthWithin(fields, "theme", 200)
  /\ Given(fields, "feet", 4) \in 1 .. 6
  /\ Given(fields, "stanzas", 4) \in 1 .. 5
  /\ Given(fields, "lines_per_stanza", 4) = 4
  /\ Given(fields, "iterations", 3) \in 0 .. 3
  /\ Given(fields, "top_k", 5) \in 1 .. 20
  /\ Given(fields, "metric_examples_top_k", 3) \in 0 .. 10

GenerationFromSchema(fields) ==
  [theme                 |-> fields.theme,
   meter                 |-> MeterSpec(Given(fields, "meter", "iamb"), Given(fields, "feet", 4)),
   rhyme                 |-> Given(fields, "scheme", "ABAB"),
   stanzas               |-> Given(fields, "stanzas", 4),
   lines_per_stanza      |-> Given(fields, "lines_per_stanza", 4),
   max_iterations        |-> Given(fields, "iterations", 3),
   top_k                 |-> Given(fields, "top_k", 5),
   metric_examples_top_k |-> Given(fields, "metric_examples_top_k", 3)]

ValidationSchema(fields) ==
  LengthWithin(fields, "poem_text", 5000) /\ Given(fields, "feet", 4) \in 1 .. 6

ValidationFromSchema(fields) ==
  [poem_text |-> fields.poem_text,
   meter     |-> MeterSpec(Given(fields, "meter", "iamb"), Given(fields, "feet", 4)),
   rhyme     |-> Given(fields, "scheme", "ABAB")]

DetectionSchema(fields) ==
  LengthWithin(fields, "poem_text", 5000) /\ Given(fields, "sample_lines", 4) = 4

DetectionFromSchema(fields) ==
  [poem_text  |-> fields.poem_text,
   want_meter |-> Given(fields, "detect_meter", TRUE),
   want_rhyme |-> Given(fields, "detect_rhyme", TRUE)]

EvaluationSchema(fields) ==
  /\ Given(fields, "scenario_id", "") # ""
  /\ Given(fields, "config_label", "E") # ""
  /\ Given(fields, "iterations", 1) \in 0 .. 3

EvaluationFromSchema(fields) ==
  [scenario       |-> fields.scenario_id,
   config         |-> ConfigFor(Given(fields, "config_label", "E")),
   max_iterations |-> Given(fields, "iterations", 1)]

\* The HTML twins: the parameters of the form handlers and the commands they make.

GenerationForm(fields) ==
  /\ LengthWithin(fields, "theme", 200)
  /\ Given(fields, "feet", 4) \in 1 .. 6
  /\ Given(fields, "stanzas", 4) \in 1 .. 5
  /\ Given(fields, "iterations", 3) \in 0 .. 3

\* Retrieval and examples get the defaults of the command.
GenerationFromForm(fields) ==
  [theme                 |-> fields.theme,
   meter                 |-> MeterSpec(Given(fields, "meter", "iamb"), Given(fields, "feet", 4)),
   rhyme                 |-> Given(fields, "scheme", "ABAB"),
   stanzas               |-> Given(fields, "stanzas", 4),
   lines_per_stanza      |-> 4,
   max_iterations        |-> Given(fields, "iterations", 3),
   top_k                 |-> 5,
   metric_examples_top_k |-> 3]

ValidationForm(fields) ==
  LengthWithin(fields, "poem_text", 5000) /\ Given(fields, "feet", 4) \in 1 .. 6

ValidationFromForm(fields) ==
  [poem_text |-> fields.poem_text,
   meter     |-> MeterSpec(Given(fields, "meter", "iamb"), Given(fields, "feet", 4)),
   rhyme     |-> Given(fields, "scheme", "ABAB")]

DetectionForm(fields) == LengthWithin(fields, "poem_text", 5000)

\* A box is sent when it is checked, with whatever value.
DetectionFromForm(fields) ==
  [poem_text  |-> fields.poem_text,
   want_meter |-> "detect_meter" \in DOMAIN fields,
   want_rhyme |-> "detect_rhyme" \in DOMAIN fields]

EvaluationForm(fields) ==
  "scenario_id" \in DOMAIN fields /\ Given(fields, "iterations", 1) \in 0 .. 3

EvaluationFromForm(fields) ==
  [scenario       |-> fields.scenario_id,
   config         |-> ConfigFor(Given(fields, "config_label", "E")),
   max_iterations |-> Given(fields, "iterations", 1)]

-----------------------------------------------------------------------------
\* From the environment to a serving application.

Init ==
  /\ environment \in Environments
  /\ app = "new"
  /\ config = None /\ info = None /\ provider = None
  /\ request = None /\ fault = "none"
  /\ answers = [twin \in Twins |-> None]
  /\ calls = [twin \in Twins |-> None]

\* create_app: an illegal configuration ends the program before it listens.
CreateApp ==
  /\ app = "new"
  /\ config' = FromEnv(environment)
  /\ app' = IF LegalConfig(config') THEN "configured" ELSE "failed"
  /\ UNCHANGED <<environment, info, provider, request, fault, answers, calls>>

\* lifespan: the services are built, the provider with them.  The Gemini client
\* may refuse to be made without a key, and the application does not come up.
StartApp ==
  /\ app = "configured"
  /\ \/ /\ app' = "serving"
        /\ provider' = ResolveName(config)
        /\ info' = LlmInfo(config)
     \/ /\ ResolveName(config) = "gemini" /\ ~ HasKey(config)
        /\ app' = "failed"
        /\ UNCHANGED <<provider, info>>
  /\ UNCHANGED <<environment, config, request, fault, answers, calls>>

Submit ==
  /\ app = "serving"
  /\ request = None
  /\ request' \in Requests
  /\ fault' \in {"none"} \cup (IF request'.endpoint = "generate" THEN GenerationFaults ELSE {})
  /\ UNCHANGED <<startVars, answers, calls>>

\* Both have answered, and nothing of the request is kept.
Forget ==
  /\ None \notin {answers[twin] : twin \in Twins}
  /\ request' = None
  /\ fault' = "none"
  /\ answers' = [twin \in Twins |-> None]
  /\ calls' = [twin \in Twins |-> None]
  /\ UNCHANGED startVars

-----------------------------------------------------------------------------
\* The handlers.

Asked(twin, endpoint) ==
  request # None /\ request.endpoint = endpoint /\ answers[twin] = None

Reply(twin, status, body) ==
  /\ answers' = [answers EXCEPT ![twin] = [status |-> status, body |-> body]]
  /\ UNCHANGED <<startVars, request, fault>>

Refuse(twin, status, body) == Reply(twin, status, body) /\ UNCHANGED calls

\* A command reaches its service; who writes is the provider that was built.
Call(twin, command, server) ==
  calls' = [calls EXCEPT ![twin] = [command |-> command, server |-> server]]

\* The JSON endpoints: a DomainError that is not caught goes through the mapper.
JsonGenerate ==
  LET fields == request.fields
      command == GenerationFromSchema(fields)
  IN  /\ Asked("json", "generate")
      /\ \/ ~ GenerationSchema(fields) /\ Refuse("json", 422, "detail")
         \/ GenerationSchema(fields) /\ ~ info.ready /\ Refuse("json", 503, "detail")
         \/ /\ GenerationSchema(fields) /\ info.ready /\ ~ LegalGenerationRequest(command)
            /\ Refuse("json", HttpStatus.UnsupportedConfigError, "error")
         \/ /\ GenerationSchema(fields) /\ info.ready /\ LegalGenerationRequest(command)
            /\ Call("json", command, provider)
            /\ IF fault = "none" THEN Reply("json", 200, "result")
               ELSE Reply("json", HttpStatus[fault], "error")

JsonValidate ==
  LET fields == request.fields
      command == ValidationFromSchema(fields)
  IN  /\ Asked("json", "validate")
      /\ \/ ~ ValidationSchema(fields) /\ Refuse("json", 422, "detail")
         \/ /\ ValidationSchema(fields) /\ ~ LegalValidationRequest(command)
            /\ Refuse("json", HttpStatus.UnsupportedConfigError, "error")
         \/ /\ ValidationSchema(fields) /\ LegalValidationRequest(command)
            /\ Call("json", command, None) /\ Reply("json", 200, "result")

JsonDetect ==
  LET fields == request.fields
      command == DetectionFromSchema(fields)
  IN  /\ Asked("json", "detect")
      /\ \/ ~ DetectionSchema(fields) /\ Refuse("json", 422, "detail")
         \/ /\ DetectionSchema(fields) /\ ~ LegalDetection(command)
            /\ Refuse("json", 422, "detail")
         \/ /\ DetectionSchema(fields) /\ LegalDetection(command)
            /\ Call("json", command, None) /\ Reply("json", 200, "result")

JsonEvaluate ==
  LET fields == request.fields
      command == EvaluationFromSchema(fields)
  IN  /\ Asked("json", "evaluate")
      /\ \/ ~ EvaluationSchema(fields) /\ Refuse("json", 422, "detail")
         \/ EvaluationSchema(fields) /\ ~ info.ready /\ Refuse("json", 503, "detail")
         \/ /\ EvaluationSchema(fields) /\ info.ready /\ ~ LegalEvaluation(command)
            /\ Refuse("json", 404, "detail")
         \/ /\ EvaluationSchema(fields) /\ info.ready /\ LegalEvaluation(command)
            /\ Call("json", command, IF RunsPipeline(command) THEN provider ELSE None)
            /\ Reply("json", 200, "result")

\* The form handlers: a refusal is a page, of status 200 unless a field is at fault.
HtmlGenerate ==
  LET fields == FormFields(request.fields)
      command == GenerationFromForm(fields)
  IN  /\ Asked("html", "generate")
      /\ \/ ~ GenerationForm(fields) /\ Refuse("html", 422, "error.html")
         \/ GenerationForm(fields) /\ ~ info.ready /\ Refuse("html", 200, "error.html")
         \/ /\ GenerationForm(fields) /\ info.ready /\ ~ LegalGenerationRequest(command)
            /\ Refuse("html", 200, "error.html")
         \/ /\ GenerationForm(fields) /\ info.ready /\ LegalGenerationRequest(command)
            /\ Call("html", command, provider)
            /\ Reply("html", 200, IF fault = "none" THEN "result" ELSE "error.html")

HtmlValidate ==
  LET fields == FormFields(request.fields)
      command == ValidationFromForm(fields)
  IN  /\ Asked("html", "validate")
      /\ \/ ~ ValidationForm(fields) /\ Refuse("html", 422, "error.html")
         \/ /\ ValidationForm(fields) /\ ~ LegalValidationRequest(command)
            /\ Refuse("html", 200, "error.html")
         \/ /\ ValidationForm(fields) /\ LegalValidationRequest(command)
            /\ Call("html", command, None) /\ Reply("html", 200, "result")

HtmlDetect ==
  LET fields == FormFields(request.fields)
      command == DetectionFromForm(fields)
  IN  /\ Asked("html", "detect")
      /\ \/ ~ DetectionForm(fields) /\ Refuse("html", 422, "error.html")
         \/ /\ DetectionForm(fields) /\ ~ LegalDetection(command)
            /\ Refuse("html", 200, "error.html")
         \/ /\ DetectionForm(fields) /\ LegalDetection(command)
            /\ Call("html", command, None) /\ Reply("html", 200, "result")

HtmlEvaluate ==
  LET fields == FormFields(request.fields)
      command == EvaluationFromForm(fields)
  IN  /\ Asked("html", "evaluate")
      /\ \/ ~ EvaluationForm(fields) /\ Refuse("html", 422, "error.html")
         \/ EvaluationForm(fields) /\ ~ info.ready /\ Refuse("html", 200, "error.html")
         \/ /\ EvaluationForm(fields) /\ info.ready /\ ~ LegalEvaluation(command)
            /\ Refuse("html", 200, "evaluate.html")
         \/ /\ EvaluationForm(fields) /\ info.ready /\ LegalEvaluation(command)
            /\ Call("html", command, IF RunsPipeline(command) THEN provider ELSE None)
            /\ Reply("html", 200, "result")

\* A program that could not start has ended.
Ended == app = "failed" /\ UNCHANGED vars

Next ==
  \/ CreateApp \/ StartApp \/ Submit \/ Forget
  \/ JsonGenerate \/ JsonValidate \/ JsonDetect \/ JsonEvaluate
  \/ HtmlGenerate \/ HtmlValidate \/ HtmlDetect \/ HtmlEvaluate
  \/ Ended

Spec == Init /\ [][Next]_vars

-----------------------------------------------------------------------------

\* Fields only the JSON twin has; a word without a letter, which a form cannot
\* send; a box left out, which the two read differently.
OneSided(fields) ==
  \/ {"lines_per_stanza", "top_k", "metric_examples_top_k", "sample_lines"}
       \cap DOMAIN fields # {}
  \/ \E n \in {"meter", "scheme", "scenario_id", "config_label"} \cap DOMAIN fields :
       fields[n] = ""
  \/ request.endpoint = "detect" /\ ~ {"detect_meter", "detect_rhyme"} \subseteq DOMAIN fields

\* What can be asked of both twins is asked of the service in the same words or of
\* neither, and comes out well for both or for neither: two sets of bounds, defaults
\* and refusals, in schemas.py and in the form handlers, are the same.
TwinsAnswerAlike ==
  (request # None /\ ~ OneSided(request.fields) /\ None \notin {answers[t] : t \in Twins}) =>
    /\ calls["json"] = calls["html"]
    /\ answers["json"].body = "result" <=> answers["html"].body = "result"

\* Whoever writes a poem is the provider that pages and API show, and the mock writes
\* only where LLM_PROVIDER asks for it: llm_info, which lets a request pass, and the
\* factory, which builds the provider, read the configuration each in its own way.
ShownProviderServes ==
  \A twin \in Twins :
    calls[twin] # None /\ calls[twin].server # None =>
      /\ calls[twin].server = info.provider
      /\ calls[twin].server = "mock" => Str(environment.LLM_PROVIDER) = "mock"

=============================================================================
