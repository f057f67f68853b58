-------------------------- MODULE FrontEndsProofs --------------------------
(***************************************************************************)
(* In every environment and for every request, the provider that is shown  *)
(* is the one that writes, and the two twins pass on the same command or   *)
(* none.                                                                   *)
(***************************************************************************)
EXTENDS FrontEnds, TLAPS

\* The configuration is read from the environment and is legal, ...
ConfigIsOfEnvironment ==
  app \in {"configured", "serving"} => config = FromEnv(environment) /\ LegalConfig(config)

\* ... what is shown and what is built are both made from it, ...
BothReadConfig ==
  app = "serving" => provider = ResolveName(config) /\ info = LlmInfo(config)

\* ... requests come only when that has been done, ...
RequestsAreServed == request # None => app = "serving"

\* ... and a handler that lets somebody write has looked whether he is ready.
WritersAreReady ==
  /\ calls = [twin \in Twins |-> calls[twin]]
  /\ \A twin \in Twins :
       calls[twin] # None =>
         /\ app = "serving"
         /\ calls[twin].server # None => calls[twin].server = provider /\ info.ready

ShownInv ==
  ConfigIsOfEnvironment /\ BothReadConfig /\ RequestsAreServed /\ WritersAreReady

\* What a handler does to this: it refuses, or gives one command to a service.
Handled(twin) ==
  /\ request # None
  /\ UNCHANGED <<startVars, request>>
  /\ \/ UNCHANGED calls
     \/ \E command, server :
          /\ Call(twin, command, server)
          /\ server # None => server = provider /\ info.ready

\* The invariant holds before the application has been made.
LEMMA ShownInit == Init => ShownInv
BY DEF Init, ShownInv, ConfigIsOfEnvironment, BothReadConfig, RequestsAreServed, WritersAreReady

\* The JSON endpoints ask for a provider that is ready (generation.py, evaluation.py).
LEMMA JsonHandled ==
  ASSUME JsonGenerate \/ JsonValidate \/ JsonDetect \/ JsonEvaluate
  PROVE  Handled("json")
<1> USE DEF Asked, Reply, Refuse, Handled
<1>1. CASE JsonGenerate
  BY <1>1 DEF JsonGenerate
<1>2. CASE JsonValidate
  BY <1>2 DEF JsonValidate
<1>3. CASE JsonDetect
  BY <1>3 DEF JsonDetect
<1>4. CASE JsonEvaluate
  BY <1>4 DEF JsonEvaluate
<1>5. QED
  BY <1>1, <1>2, <1>3, <1>4

\* So do the forms (web/routes/generation.py, web/routes/evaluation.py).
LEMMA HtmlHandled ==
  ASSUME HtmlGenerate \/ HtmlValidate \/ HtmlDetect \/ HtmlEvaluate
  PROVE  Handled("html")
<1> USE DEF Asked, Reply, Refuse, Handled
<1>1. CASE HtmlGenerate
  BY <1>1 DEF HtmlGenerate
<1>2. CASE HtmlValidate
  BY <1>2 DEF HtmlValidate
<1>3. CASE HtmlDetect
  BY <1>3 DEF HtmlDetect
<1>4. CASE HtmlEvaluate
  BY <1>4 DEF HtmlEvaluate
<1>5. QED
  BY <1>1, <1>2, <1>3, <1>4

\* A handler of either twin keeps the invariant.
LEMMA HandledKeeps ==
  ASSUME NEW twin \in Twins, ShownInv, Handled(twin)
  PROVE  ShownInv'
<1> USE DEF ShownInv, Handled, startVars
<1>1. ConfigIsOfEnvironment' /\ BothReadConfig' /\ RequestsAreServed'
  BY DEF ConfigIsOfEnvironment, BothReadConfig, RequestsAreServed
<1>2. WritersAreReady'
  <2>1. CASE UNCHANGED calls
    BY <2>1 DEF WritersAreReady
  <2>2. CASE \E command, server :
               /\ Call(twin, command, server)
               /\ server # None => server = provider /\ info.ready
    <3>1. PICK command, server :
            /\ Call(twin, command, server)
            /\ server # None => server = provider /\ info.ready
      BY <2>2
    <3>2. app = "serving"
      BY DEF RequestsAreServed
    <3> DEFINE given == [command |-> command, server |-> server]
    <3>3. given.server = server
      OBVIOUS
    <3> HIDE DEF given
    <3>4. calls' = [calls EXCEPT ![twin] = given]
      BY <3>1 DEF Call, given
    <3>5. QED
      BY <3>1, <3>2, <3>3, <3>4 DEF WritersAreReady
  <2>3. QED
    BY <2>1, <2>2
<1>3. QED
  BY <1>1, <1>2

\* Every step keeps it: startup sets both readings at once, and nothing resets them.
LEMMA ShownNext == ShownInv /\ [Next]_vars => ShownInv'
<1> SUFFICES ASSUME ShownInv, [Next]_vars PROVE ShownInv'
  OBVIOUS
<1> USE DEF ShownInv, ConfigIsOfEnvironment, BothReadConfig, RequestsAreServed, WritersAreReady,
            startVars
<1>1. CASE CreateApp
  BY <1>1 DEF CreateApp
<1>2. CASE StartApp
  BY <1>2 DEF StartApp
<1>3. CASE Submit
  BY <1>3 DEF Submit
<1>4. CASE Forget
  BY <1>4 DEF Forget
<1>5. CASE JsonGenerate \/ JsonValidate \/ JsonDetect \/ JsonEvaluate
  <2>1. "json" \in Twins
    BY DEF Twins
  <2>2. QED
    BY <1>5, <2>1, JsonHandled, HandledKeeps
<1>6. CASE HtmlGenerate \/ HtmlValidate \/ HtmlDetect \/ HtmlEvaluate
  <2>1. "html" \in Twins
    BY DEF Twins
  <2>2. QED
    BY <1>6, <2>1, HtmlHandled, HandledKeeps
<1>7. CASE Ended \/ UNCHANGED vars
  BY <1>7 DEF Ended, vars
<1>8. QED
  BY <1>1, <1>2, <1>3, <1>4, <1>5, <1>6, <1>7 DEF Next

\* llm_info and the factory agree wherever somebody may write: the one shown as ready is
\* the one built, and it is a mock only if a mock was asked for.
LEMMA ReadingsAgree ==
  ASSUME NEW cfg, LegalConfig(cfg), LlmInfo(cfg).ready
  PROVE  /\ ResolveName(cfg) = LlmInfo(cfg).provider
         /\ ResolveName(cfg) = "mock" => cfg.llm_provider = "mock"
<1>1. cfg.llm_provider \in {"", "gemini", "mock"}
  BY Zenon DEF LegalConfig, KNOWN_LLM_PROVIDERS
<1>2. CASE cfg.llm_provider = "mock"
  BY <1>2 DEF LlmInfo, ResolveName
<1>3. CASE cfg.llm_provider = "gemini"
  BY <1>3 DEF LlmInfo, ResolveName
<1>4. CASE cfg.llm_provider = ""
  BY <1>4 DEF LlmInfo, ResolveName
<1>5. QED
  BY <1>1, <1>2, <1>3, <1>4

\* The invariant of startup and of the handlers, in every environment.
THEOREM ShownInvariant == Spec => []ShownInv
<1>1. Init => ShownInv
  BY ShownInit
<1>2. ShownInv /\ [Next]_vars => ShownInv'
  BY ShownNext
<1>3. QED
  BY <1>1, <1>2, PTL DEF Spec

\* A poem is written by the provider that pages and API show (config.py:228,
\* factory.py:110), and by the mock only where the mock was asked for.
THEOREM ShownProviderWrites == Spec => []ShownProviderServes
<1>1. ShownInv => ShownProviderServes
  <2> SUFFICES ASSUME ShownInv, NEW twin \in Twins,
                      calls[twin] # None, calls[twin].server # None
               PROVE  /\ calls[twin].server = info.provider
                      /\ calls[twin].server = "mock" => Str(environment.LLM_PROVIDER) = "mock"
    BY DEF ShownProviderServes
  <2>1. app = "serving" /\ calls[twin].server = provider /\ info.ready
    BY DEF ShownInv, WritersAreReady
  <2>2. provider = ResolveName(config) /\ info = LlmInfo(config)
    BY <2>1 DEF ShownInv, BothReadConfig
  <2>3. config = FromEnv(environment) /\ LegalConfig(config)
    BY <2>1 DEF ShownInv, ConfigIsOfEnvironment
  <2>4. config.llm_provider = Str(environment.LLM_PROVIDER)
    BY <2>3 DEF FromEnv
  <2>5. QED
    BY <2>1, <2>2, <2>3, <2>4, ReadingsAgree
<1>2. QED
  BY <1>1, ShownInvariant, PTL

-----------------------------------------------------------------------------
\* The twins.

\* What each twin lets pass to a service, ...
JsonPasses ==
  LET f == request.fields IN
    \/ /\ request.endpoint = "generate"
       /\ GenerationSchema(f) /\ info.ready /\ LegalGenerationRequest(GenerationFromSchema(f))
    \/ /\ request.endpoint = "validate"
       /\ ValidationSchema(f) /\ LegalValidationRequest(ValidationFromSchema(f))
    \/ /\ request.endpoint = "detect"
       /\ DetectionSchema(f) /\ LegalDetection(DetectionFromSchema(f))
    \/ /\ request.endpoint = "evaluate"
       /\ EvaluationSchema(f) /\ info.ready /\ LegalEvaluation(EvaluationFromSchema(f))

HtmlPasses ==
  LET f == FormFields(request.fields) IN
    \/ /\ request.endpoint = "generate"
       /\ GenerationForm(f) /\ info.ready /\ LegalGenerationRequest(GenerationFromForm(f))
    \/ /\ request.endpoint = "validate"
       /\ ValidationForm(f) /\ LegalValidationRequest(ValidationFromForm(f))
    \/ /\ request.endpoint = "detect"
       /\ DetectionForm(f) /\ LegalDetection(DetectionFromForm(f))
    \/ /\ request.endpoint = "evaluate"
       /\ EvaluationForm(f) /\ info.ready /\ LegalEvaluation(EvaluationFromForm(f))

\* ... as which command, ...
JsonCommand ==
  LET f == request.fields IN
    CASE request.endpoint = "generate" -> GenerationFromSchema(f)
      [] request.endpoint = "validate" -> ValidationFromSchema(f)
      [] request.endpoint = "detect"   -> DetectionFromSchema(f)
      [] OTHER                         -> EvaluationFromSchema(f)

HtmlCommand ==
  LET f == FormFields(request.fields) IN
    CASE request.endpoint = "generate" -> GenerationFromForm(f)
      [] request.endpoint = "validate" -> ValidationFromForm(f)
      [] request.endpoint = "detect"   -> DetectionFromForm(f)
      [] OTHER                         -> EvaluationFromForm(f)

\* ... and who serves it.
ServerOf(command) ==
  CASE request.endpoint = "generate" -> provider
    [] request.endpoint = "evaluate" -> IF RunsPipeline(command) THEN provider ELSE None
    [] OTHER                         -> None

Well == request.endpoint = "generate" => fault = "none"

\* A twin that has answered has called its service with what it lets pass.
JsonSettled ==
  IF answers["json"] = None THEN calls["json"] = None
  ELSE /\ request # None
       /\ IF JsonPasses
          THEN /\ calls["json"] = [command |-> JsonCommand, server |-> ServerOf(JsonCommand)]
               /\ answers["json"].body = "result" <=> Well
          ELSE calls["json"] = None /\ answers["json"].body # "result"

HtmlSettled ==
  IF answers["html"] = None THEN calls["html"] = None
  ELSE /\ request # None
       /\ IF HtmlPasses
          THEN /\ calls["html"] = [command |-> HtmlCommand, server |-> ServerOf(HtmlCommand)]
               /\ answers["html"].body = "result" <=> Well
          ELSE calls["html"] = None /\ answers["html"].body # "result"

TwinTypeOK ==
  /\ DOMAIN answers = Twins /\ DOMAIN calls = Twins
  /\ answers = [twin \in Twins |-> answers[twin]] /\ calls = [twin \in Twins |-> calls[twin]]
  /\ request # None => request \in Requests /\ app = "serving"
  /\ fault \in {"none"} \cup GenerationFaults

TwinInv == TwinTypeOK /\ JsonSettled /\ HtmlSettled

Words == {"meter", "scheme", "scenario_id", "config_label"}

Texts == {"theme", "poem_text"}

Numbers == {"feet", "stanzas", "iterations"}

Boxes == {"detect_meter", "detect_rhyme"}

\* A word that is sent is not empty.
NoEmptyWord(f) == \A n \in Words \cap DOMAIN f : f[n] # ""

\* What is left of the fields in a form: all but empty texts and boxes not checked.
LEMMA FormKeeps ==
  ASSUME NEW f, NoEmptyWord(f)
  PROVE  /\ \A n \in Words \cup Numbers :
              (n \in DOMAIN FormFields(f) <=> n \in DOMAIN f)
              /\ (n \in DOMAIN f => FormFields(f)[n] = f[n])
         /\ \A n \in Texts :
              /\ n \in DOMAIN FormFields(f) <=> n \in DOMAIN f /\ f[n].length # 0
              /\ n \in DOMAIN FormFields(f) => FormFields(f)[n] = f[n]
         /\ \A n \in Boxes : n \in DOMAIN FormFields(f) <=> n \in DOMAIN f /\ f[n]
<1> DEFINE Dropped(n) == \/ n \in {"theme", "poem_text"} /\ f[n].length = 0
                         \/ n \in {"meter", "scheme", "scenario_id", "config_label"} /\ f[n] = ""
                         \/ n \in {"detect_meter", "detect_rhyme"} /\ ~ f[n]
<1>1. FormFields(f) = [n \in DOMAIN f \ {n \in DOMAIN f : Dropped(n)} |-> f[n]]
  BY DEF FormFields
<1>2. \A n \in Words \cup Numbers : n \in DOMAIN f => ~ Dropped(n)
  BY DEF Words, Numbers, NoEmptyWord
<1>3. \A n \in Texts : Dropped(n) <=> f[n].length = 0
  BY DEF Texts
<1>4. \A n \in Boxes : Dropped(n) <=> ~ f[n]
  BY DEF Boxes
<1> HIDE DEF Dropped
<1>5. /\ \A n : n \in DOMAIN FormFields(f) <=> n \in DOMAIN f /\ ~ Dropped(n)
      /\ \A n : n \in DOMAIN FormFields(f) => FormFields(f)[n] = f[n]
  BY <1>1
<1>6. QED
  BY <1>2, <1>3, <1>4, <1>5

\* What is given of words and numbers, and which texts are short enough, is the same.
LEMMA GivenAlike ==
  ASSUME NEW f, NoEmptyWord(f)
  PROVE  /\ \A n \in Words \cup Numbers : \A d : Given(FormFields(f), n, d) = Given(f, n, d)
         /\ \A n \in Texts : \A longest :
              /\ LengthWithin(FormFields(f), n, longest) <=> LengthWithin(f, n, longest)
              /\ LengthWithin(f, n, longest) => FormFields(f)[n] = f[n]
<1>1. \A n \in Words \cup Numbers : \A d : Given(FormFields(f), n, d) = Given(f, n, d)
  BY FormKeeps DEF Given
<1>2. ASSUME NEW n \in Texts, NEW longest
      PROVE  /\ LengthWithin(FormFields(f), n, longest) <=> LengthWithin(f, n, longest)
             /\ LengthWithin(f, n, longest) => FormFields(f)[n] = f[n]
  <2>1. \A k : k \in 1 .. longest => k # 0
    OBVIOUS
  <2>2. QED
    BY <2>1, FormKeeps DEF LengthWithin
<1>3. QED
  BY <1>1, <1>2

\* A field that is not sent has its default.
LEMMA NotGiven == \A f, n, d : n \notin DOMAIN f => Given(f, n, d) = d
BY DEF Given

\* schemas.py and the form handler of a generation have the same bounds and defaults.
LEMMA GenerationAlike ==
  ASSUME NEW f, NoEmptyWord(f),
         "lines_per_stanza" \notin DOMAIN f, "top_k" \notin DOMAIN f,
         "metric_examples_top_k" \notin DOMAIN f
  PROVE  /\ GenerationSchema(f) <=> GenerationForm(FormFields(f))
         /\ GenerationSchema(f) => GenerationFromSchema(f) = GenerationFromForm(FormFields(f))
<1> DEFINE g == FormFields(f)
<1>1. /\ \A d : Given(g, "feet", d) = Given(f, "feet", d)
      /\ \A d : Given(g, "stanzas", d) = Given(f, "stanzas", d)
      /\ \A d : Given(g, "iterations", d) = Given(f, "iterations", d)
      /\ \A d : Given(g, "meter", d) = Given(f, "meter", d)
      /\ \A d : Given(g, "scheme", d) = Given(f, "scheme", d)
  BY GivenAlike DEF Words, Numbers
<1>2. /\ LengthWithin(g, "theme", 200) <=> LengthWithin(f, "theme", 200)
      /\ LengthWithin(f, "theme", 200) => g["theme"] = f["theme"]
  BY GivenAlike DEF Texts
<1>3. /\ Given(f, "lines_per_stanza", 4) = 4 /\ Given(f, "top_k", 5) = 5
      /\ Given(f, "metric_examples_top_k", 3) = 3
  BY NotGiven
<1> HIDE DEF g
<1>4. GenerationSchema(f) <=> GenerationForm(g)
  BY <1>1, <1>2, <1>3 DEF GenerationSchema, GenerationForm
<1>5. GenerationSchema(f) => GenerationFromSchema(f) = GenerationFromForm(g)
  <2>1. GenerationSchema(f) => f.theme = g.theme
    BY <1>2 DEF GenerationSchema
  <2>2. QED
    BY <1>1, <1>3, <2>1 DEF GenerationFromSchema, GenerationFromForm
<1>6. QED
  BY <1>4, <1>5 DEF g

\* So have those of a validation, ...
LEMMA ValidationAlike ==
  ASSUME NEW f, NoEmptyWord(f)
  PROVE  /\ ValidationSchema(f) <=> ValidationForm(FormFields(f))
         /\ ValidationSchema(f) => ValidationFromSchema(f) = ValidationFromForm(FormFields(f))
<1> DEFINE g == FormFields(f)
<1>1. /\ \A d : Given(g, "feet", d) = Given(f, "feet", d)
      /\ \A d : Given(g, "meter", d) = Given(f, "meter", d)
      /\ \A d : Given(g, "scheme", d) = Given(f, "scheme", d)
  BY GivenAlike DEF Words, Numbers
<1>2. /\ LengthWithin(g, "poem_text", 5000) <=> LengthWithin(f, "poem_text", 5000)
      /\ LengthWithin(f, "poem_text", 5000) => g["poem_text"] = f["poem_text"]
  BY GivenAlike DEF Texts
<1> HIDE DEF g
<1>3. ValidationSchema(f) <=> ValidationForm(g)
  BY <1>1, <1>2 DEF ValidationSchema, ValidationForm
<1>4. ValidationSchema(f) => ValidationFromSchema(f) = ValidationFromForm(g)
  BY <1>1, <1>2 DEF ValidationSchema, ValidationFromSchema, ValidationFromForm
<1>5. QED
  BY <1>3, <1>4 DEF g

\* ... of a detection, where both boxes are given, ...
LEMMA DetectionAlike ==
  ASSUME NEW f, NoEmptyWord(f), "sample_lines" \notin DOMAIN f,
         \A n \in Boxes : n \in DOMAIN f /\ f[n] \in BOOLEAN
  PROVE  /\ DetectionSchema(f) <=> DetectionForm(FormFields(f))
         /\ DetectionSchema(f) => DetectionFromSchema(f) = DetectionFromForm(FormFields(f))
<1> DEFINE g == FormFields(f)
<1>1. /\ LengthWithin(g, "poem_text", 5000) <=> LengthWithin(f, "poem_text", 5000)
      /\ LengthWithin(f, "poem_text", 5000) => g["poem_text"] = f["poem_text"]
  BY GivenAlike DEF Texts
<1>2. \A n \in Boxes : n \in DOMAIN g <=> f[n]
  BY FormKeeps
<1>3. ASSUME NEW n \in Boxes PROVE Given(f, n, TRUE) = (n \in DOMAIN g)
  <2>1. Given(f, n, TRUE) = f[n]
    BY DEF Given
  <2>2. f[n] = (n \in DOMAIN g)
    <3>1. CASE f[n] = TRUE
      BY <1>2, <3>1
    <3>2. CASE f[n] = FALSE
      BY <1>2, <3>2
    <3>3. QED
      BY <3>1, <3>2
  <2>3. QED
    BY <2>1, <2>2
<1>4. /\ Given(f, "detect_meter", TRUE) = ("detect_meter" \in DOMAIN g)
      /\ Given(f, "detect_rhyme", TRUE) = ("detect_rhyme" \in DOMAIN g)
  BY <1>3 DEF Boxes
<1>5. Given(f, "sample_lines", 4) = 4
  BY NotGiven
<1> HIDE DEF g
<1>6. DetectionSchema(f) <=> DetectionForm(g)
  BY <1>1, <1>5 DEF DetectionSchema, DetectionForm
<1>7. DetectionSchema(f) => DetectionFromSchema(f) = DetectionFromForm(g)
  <2>1. DetectionSchema(f) => f.poem_text = g.poem_text
    BY <1>1 DEF DetectionSchema
  <2>2. QED
    BY <1>4, <2>1, Zenon DEF DetectionFromSchema, DetectionFromForm
<1>8. QED
  BY <1>6, <1>7 DEF g

\* ... and of an evaluation.
LEMMA EvaluationAlike ==
  ASSUME NEW f, NoEmptyWord(f)
  PROVE  /\ EvaluationSchema(f) <=> EvaluationForm(FormFields(f))
         /\ EvaluationSchema(f) => EvaluationFromSchema(f) = EvaluationFromForm(FormFields(f))
<1> DEFINE g == FormFields(f)
<1>1. /\ \A d : Given(g, "config_label", d) = Given(f, "config_label", d)
      /\ \A d : Given(g, "iterations", d) = Given(f, "iterations", d)
  BY GivenAlike DEF Words, Numbers
<1>2. /\ "scenario_id" \in DOMAIN g <=> "scenario_id" \in DOMAIN f
      /\ "scenario_id" \in DOMAIN f => g["scenario_id"] = f["scenario_id"]
  BY FormKeeps DEF Words
<1>3. /\ Given(f, "scenario_id", "") # "" <=> "scenario_id" \in DOMAIN f
      /\ Given(f, "config_label", "E") # ""
  BY DEF Given, NoEmptyWord, Words
<1> HIDE DEF g
<1>4. EvaluationSchema(f) <=> EvaluationForm(g)
  BY <1>1, <1>2, <1>3 DEF EvaluationSchema, EvaluationForm
<1>5. EvaluationSchema(f) => EvaluationFromSchema(f) = EvaluationFromForm(g)
  BY <1>1, <1>2, <1>3 DEF EvaluationSchema, EvaluationFromSchema, EvaluationFromForm
<1>6. QED
  BY <1>4, <1>5 DEF g

\* What both twins can be asked of passes both, as one command, or neither.
LEMMA PassAlike ==
  ASSUME TwinTypeOK, request # None, ~ OneSided(request.fields)
  PROVE  /\ JsonPasses <=> HtmlPasses
         /\ JsonPasses => JsonCommand = HtmlCommand
<1> DEFINE f == request.fields
<1>1. NoEmptyWord(f)
  BY DEF OneSided, NoEmptyWord, Words
<1>2. /\ "lines_per_stanza" \notin DOMAIN f /\ "top_k" \notin DOMAIN f
      /\ "metric_examples_top_k" \notin DOMAIN f /\ "sample_lines" \notin DOMAIN f
  BY DEF OneSided
<1>3. request.endpoint = "detect" => \A n \in Boxes : n \in DOMAIN f /\ f[n] \in BOOLEAN
  <2>1. request.endpoint = "detect" => \A n \in Boxes : n \in DOMAIN f
    BY DEF OneSided, Boxes
  <2>2. \A n \in Boxes : n \in DOMAIN f => f[n] \in BOOLEAN
    BY FrontEndsAssumption DEF TwinTypeOK, Boxes
  <2>3. QED
    BY <2>1, <2>2
<1> HIDE DEF f
<1>4. CASE request.endpoint = "generate"
  BY <1>1, <1>2, <1>4, GenerationAlike DEF JsonPasses, HtmlPasses, JsonCommand, HtmlCommand, f
<1>5. CASE request.endpoint = "validate"
  BY <1>1, <1>5, ValidationAlike DEF JsonPasses, HtmlPasses, JsonCommand, HtmlCommand, f
<1>6. CASE request.endpoint = "detect"
  BY <1>1, <1>2, <1>3, <1>6, DetectionAlike DEF JsonPasses, HtmlPasses, JsonCommand, HtmlCommand, f
<1>7. CASE request.endpoint = "evaluate"
  BY <1>1, <1>7, EvaluationAlike DEF JsonPasses, HtmlPasses, JsonCommand, HtmlCommand, f
<1>8. CASE request.endpoint \notin {"generate", "validate", "detect", "evaluate"}
  BY <1>8 DEF JsonPasses, HtmlPasses
<1>9. QED
  BY <1>4, <1>5, <1>6, <1>7, <1>8

\* What an answer may show.
Bodies == {"result", "error", "detail", "error.html", "evaluate.html"}

\* A twin decides: what it lets pass it calls the service with, and answers for; the
\* rest it refuses.
Decides(twin, passes, command) ==
  /\ request # None
  /\ answers[twin] = None
  /\ UNCHANGED <<startVars, request, fault>>
  /\ \E status \in Nat, body \in Bodies :
       /\ answers' = [answers EXCEPT ![twin] = [status |-> status, body |-> body]]
       /\ \/ passes /\ Call(twin, command, ServerOf(command)) /\ (body = "result" <=> Well)
          \/ ~ passes /\ UNCHANGED calls /\ body # "result"

\* What the mapper gives an error is a status.
LEMMA StatusOfFault ==
  /\ \A error \in GenerationFaults : HttpStatus[error] \in Nat
  /\ HttpStatus.UnsupportedConfigError \in Nat
BY DEF GenerationFaults, HttpStatus

\* The JSON endpoints decide so (api/routers/*.py).
LEMMA JsonDecides ==
  ASSUME TwinTypeOK, JsonGenerate \/ JsonValidate \/ JsonDetect \/ JsonEvaluate
  PROVE  Decides("json", JsonPasses, JsonCommand)
<1> USE StatusOfFault DEF Asked, Refuse, Reply, Decides, JsonPasses, JsonCommand, ServerOf, Well,
        Bodies
<1>0. fault = "none" \/ fault \in GenerationFaults
  BY DEF TwinTypeOK
<1>1. CASE JsonGenerate
  BY <1>0, <1>1 DEF JsonGenerate
<1>2. CASE JsonValidate
  BY <1>2 DEF JsonValidate
<1>3. CASE JsonDetect
  BY <1>3 DEF JsonDetect
<1>4. CASE JsonEvaluate
  BY <1>4 DEF JsonEvaluate
<1>5. QED
  BY <1>1, <1>2, <1>3, <1>4

\* The form handlers do (web/routes/*.py).
LEMMA HtmlDecides ==
  ASSUME TwinTypeOK, HtmlGenerate \/ HtmlValidate \/ HtmlDetect \/ HtmlEvaluate
  PROVE  Decides("html", HtmlPasses, HtmlCommand)
<1> USE DEF Asked, Refuse, Reply, Decides, HtmlPasses, HtmlCommand, ServerOf, Well, Bodies
<1>1. CASE HtmlGenerate
  BY <1>1 DEF HtmlGenerate
<1>2. CASE HtmlValidate
  BY <1>2 DEF HtmlValidate
<1>3. CASE HtmlDetect
  BY <1>3 DEF HtmlDetect
<1>4. CASE HtmlEvaluate
  BY <1>4 DEF HtmlEvaluate
<1>5. QED
  BY <1>1, <1>2, <1>3, <1>4

\* What is let pass, as what and for whom depends on the request and the startup only.
LEMMA SamePasses ==
  ASSUME UNCHANGED <<startVars, request, fault>>
  PROVE  /\ JsonPasses' <=> JsonPasses
         /\ HtmlPasses' <=> HtmlPasses
         /\ JsonCommand' = JsonCommand /\ HtmlCommand' = HtmlCommand
         /\ ServerOf(JsonCommand)' = ServerOf(JsonCommand)
         /\ ServerOf(HtmlCommand)' = ServerOf(HtmlCommand)
         /\ Well' <=> Well
<1> USE DEF startVars
<1>1. (JsonPasses' <=> JsonPasses) /\ (HtmlPasses' <=> HtmlPasses)
  BY DEF JsonPasses, HtmlPasses
<1>2. JsonCommand' = JsonCommand /\ HtmlCommand' = HtmlCommand
  BY DEF JsonCommand, HtmlCommand
<1>3. /\ ServerOf(JsonCommand)' = ServerOf(JsonCommand)
      /\ ServerOf(HtmlCommand)' = ServerOf(HtmlCommand)
  BY <1>2 DEF ServerOf
<1>4. Well' <=> Well
  BY DEF Well
<1>5. QED
  BY <1>1, <1>2, <1>3, <1>4

\* A decision sets the answer and the call of one twin.
LEMMA DecisionEffect ==
  ASSUME TwinTypeOK, NEW twin \in Twins, NEW passes, NEW command, Decides(twin, passes, command),
         answers[twin] = None => calls[twin] = None
  PROVE  /\ TwinTypeOK'
         /\ answers'[twin] # None
         /\ IF passes
            THEN /\ calls'[twin] = [command |-> command, server |-> ServerOf(command)]
                 /\ answers'[twin].body = "result" <=> Well
            ELSE calls'[twin] = None /\ answers'[twin].body # "result"
         /\ \A other \in Twins \ {twin} :
              answers'[other] = answers[other] /\ calls'[other] = calls[other]
<1>1. PICK status \in Nat, body \in Bodies :
        /\ answers' = [answers EXCEPT ![twin] = [status |-> status, body |-> body]]
        /\ \/ passes /\ Call(twin, command, ServerOf(command)) /\ (body = "result" <=> Well)
           \/ ~ passes /\ UNCHANGED calls /\ body # "result"
  BY DEF Decides
<1>2. /\ answers[twin] = None /\ calls[twin] = None /\ request # None
      /\ UNCHANGED <<startVars, request, fault>>
  BY DEF Decides
<1> DEFINE answer == [status |-> status, body |-> body]
           given == [command |-> command, server |-> ServerOf(command)]
<1>3. answer # None /\ answer.body = body
  BY FrontEndsAssumption DEF Bodies
<1> HIDE DEF answer
<1>4. answers' = [answers EXCEPT ![twin] = answer]
  BY <1>1 DEF answer
<1>5. \/ passes /\ calls' = [calls EXCEPT ![twin] = given] /\ (body = "result" <=> Well)
      \/ ~ passes /\ calls' = calls /\ body # "result"
  BY <1>1 DEF Call
<1> HIDE DEF given
<1>6. /\ answers'[twin] = answer
      /\ \A other \in Twins \ {twin} : answers'[other] = answers[other]
      /\ DOMAIN answers' = Twins /\ answers' = [t \in Twins |-> answers'[t]]
  BY <1>4 DEF TwinTypeOK
<1>7. /\ calls'[twin] = IF passes THEN given ELSE None
      /\ \A other \in Twins \ {twin} : calls'[other] = calls[other]
      /\ DOMAIN calls' = Twins /\ calls' = [t \in Twins |-> calls'[t]]
  BY <1>2, <1>5 DEF TwinTypeOK
<1>8. TwinTypeOK'
  BY <1>2, <1>6, <1>7 DEF TwinTypeOK, startVars
<1>9. QED
  BY <1>3, <1>5, <1>6, <1>7, <1>8 DEF given

\* A decision of either twin keeps the invariant.
LEMMA DecisionKeeps ==
  ASSUME TwinInv,
         \/ Decides("json", JsonPasses, JsonCommand)
         \/ Decides("html", HtmlPasses, HtmlCommand)
  PROVE  TwinInv'
<1>1. UNCHANGED <<startVars, request, fault>> /\ request # None
  BY DEF Decides
<1>2. "json" \in Twins /\ "html" \in Twins
  BY DEF Twins
<1>3. TwinTypeOK /\ JsonSettled /\ HtmlSettled
  BY DEF TwinInv
<1>4. CASE Decides("json", JsonPasses, JsonCommand)
  <2>1. answers["json"] = None => calls["json"] = None
    BY <1>3 DEF JsonSettled
  <2>2. /\ TwinTypeOK'
        /\ answers'["json"] # None
        /\ IF JsonPasses
           THEN /\ calls'["json"] = [command |-> JsonCommand, server |-> ServerOf(JsonCommand)]
                /\ answers'["json"].body = "result" <=> Well
           ELSE calls'["json"] = None /\ answers'["json"].body # "result"
        /\ answers'["html"] = answers["html"] /\ calls'["html"] = calls["html"]
    BY <1>2, <1>3, <1>4, <2>1, DecisionEffect
  <2>3. JsonSettled'
    BY <1>1, <2>2, SamePasses DEF JsonSettled
  <2>4. HtmlSettled'
    BY <1>1, <1>3, <2>2, SamePasses DEF HtmlSettled
  <2>5. QED
    BY <2>2, <2>3, <2>4 DEF TwinInv
<1>5. CASE Decides("html", HtmlPasses, HtmlCommand)
  <2>1. answers["html"] = None => calls["html"] = None
    BY <1>3 DEF HtmlSettled
  <2>2. /\ TwinTypeOK'
        /\ answers'["html"] # None
        /\ IF HtmlPasses
           THEN /\ calls'["html"] = [command |-> HtmlCommand, server |-> ServerOf(HtmlCommand)]
                /\ answers'["html"].body = "result" <=> Well
           ELSE calls'["html"] = None /\ answers'["html"].body # "result"
        /\ answers'["json"] = answers["json"] /\ calls'["json"] = calls["json"]
    BY <1>2, <1>3, <1>5, <2>1, DecisionEffect
  <2>3. HtmlSettled'
    BY <1>1, <2>2, SamePasses DEF HtmlSettled
  <2>4. JsonSettled'
    BY <1>1, <1>3, <2>2, SamePasses DEF JsonSettled
  <2>5. QED
    BY <2>2, <2>3, <2>4 DEF TwinInv
<1>6. QED
  BY <1>4, <1>5

\* While nothing is asked, nothing is answered.
Quiet == \A twin \in Twins : answers[twin] = None /\ calls[twin] = None

\* The invariant of the twins, in every environment and for every request.
THEOREM TwinInvariant == Spec => []TwinInv
<1> USE DEF Twins
<1>1. Init => TwinInv
  <2> SUFFICES ASSUME Init PROVE TwinInv
    OBVIOUS
  <2>1. Quiet
    BY DEF Init, Quiet
  <2>2. TwinTypeOK
    BY DEF Init, TwinTypeOK
  <2>3. QED
    BY <2>1, <2>2 DEF Quiet, TwinInv, JsonSettled, HtmlSettled
<1>2. TwinInv /\ [Next]_vars => TwinInv'
  <2> SUFFICES ASSUME TwinInv, [Next]_vars PROVE TwinInv'
    OBVIOUS
  <2>0. TwinTypeOK /\ JsonSettled /\ HtmlSettled
    BY DEF TwinInv
  <2>1. ASSUME CreateApp \/ StartApp \/ Submit PROVE TwinInv'
    <3>1. app # "serving" \/ request = None
      BY <2>1 DEF CreateApp, StartApp, Submit
    <3>2. request = None
      BY <2>0, <3>1 DEF TwinTypeOK
    <3>3. Quiet
      BY <2>0, <3>2 DEF Quiet, JsonSettled, HtmlSettled
    <3>4. UNCHANGED <<answers, calls>>
      BY <2>1 DEF CreateApp, StartApp, Submit
    <3>5. TwinTypeOK'
      <4>1. CASE CreateApp \/ StartApp
        BY <2>0, <3>2, <3>4, <4>1 DEF TwinTypeOK, CreateApp, StartApp
      <4>2. CASE Submit
        <5>1. fault' \in {"none"} \cup GenerationFaults
          BY <4>2 DEF Submit
        <5>2. QED
          BY <2>0, <3>4, <4>2, <5>1 DEF TwinTypeOK, Submit, startVars
      <4>3. QED
        BY <2>1, <4>1, <4>2
    <3>6. QED
      BY <3>3, <3>4, <3>5 DEF Quiet, TwinInv, JsonSettled, HtmlSettled
  <2>2. CASE Forget
    <3>1. Quiet'
      BY <2>2 DEF Forget, Quiet
    <3>2. TwinTypeOK'
      BY <2>0, <2>2 DEF Forget, TwinTypeOK, startVars
    <3>3. QED
      BY <3>1, <3>2 DEF Quiet, TwinInv, JsonSettled, HtmlSettled
  <2>3. CASE JsonGenerate \/ JsonValidate \/ JsonDetect \/ JsonEvaluate
    BY <2>0, <2>3, JsonDecides, DecisionKeeps
  <2>4. CASE HtmlGenerate \/ HtmlValidate \/ HtmlDetect \/ HtmlEvaluate
    BY <2>0, <2>4, HtmlDecides, DecisionKeeps
  <2>5. CASE Ended \/ UNCHANGED vars
    <3>1. UNCHANGED <<startVars, request, fault>> /\ UNCHANGED <<answers, calls>>
      BY <2>5 DEF Ended, vars
    <3>2. TwinTypeOK'
      BY <2>0, <3>1 DEF TwinTypeOK, startVars
    <3>3. JsonSettled' /\ HtmlSettled'
      BY <2>0, <3>1, SamePasses DEF JsonSettled, HtmlSettled
    <3>4. QED
      BY <3>2, <3>3 DEF TwinInv
  <2>6. QED
    BY <2>1, <2>2, <2>3, <2>4, <2>5 DEF Next
<1>3. QED
  BY <1>1, <1>2, PTL DEF Spec

\* Whatever is asked of both twins, in whatever environment, passes on the same command
\* or none, and comes out well for both or for neither.
THEOREM TwinsAgree == Spec => []TwinsAnswerAlike
<1>1. TwinInv => TwinsAnswerAlike
  <2> SUFFICES ASSUME TwinInv, request # None, ~ OneSided(request.fields),
                      None \notin {answers[t] : t \in Twins}
               PROVE  /\ calls["json"] = calls["html"]
                      /\ answers["json"].body = "result" <=> answers["html"].body = "result"
    BY DEF TwinsAnswerAlike
  <2>1. answers["json"] # None /\ answers["html"] # None
    BY DEF Twins
  <2>2. /\ JsonPasses <=> HtmlPasses
        /\ JsonPasses => JsonCommand = HtmlCommand
    BY PassAlike DEF TwinInv
  <2>3. QED
    BY <2>1, <2>2 DEF TwinInv, JsonSettled, HtmlSettled
<1>2. QED
  BY <1>1, TwinInvariant, PTL

=============================================================================
