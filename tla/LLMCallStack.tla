---------------------------- MODULE LLMCallStack ----------------------------
(***************************************************************************)
(* The reliability stack every LLM call of the application passes through: *)
(* retry -> timeout -> sanitizing -> extracting -> Gemini, and the one     *)
(* in-memory trace recorder that all calls of a process share.             *)
(*                                                                         *)
(* A caller is a request thread of the web application (or the one thread  *)
(* of a batch).  Each ATTEMPT of a call runs on a daemon thread of its own,*)
(* which the timeout layer joins for a bounded time and then abandons: the *)
(* thread keeps running, and keeps writing the recorder, after the caller  *)
(* has moved on.                                                           *)
(*                                                                         *)
(* Texts are abstracted to where they come from: the raw, extracted and    *)
(* sanitized text of an attempt are all written as the attempt's identity, *)
(* and the only thing told apart about a response is whether anything is   *)
(* left of it after sanitization.  Logging is left out.                    *)
(***************************************************************************)
EXTENDS Naturals

CONSTANTS
  Callers,        \* threads that call the stack
  MaxCalls,       \* bound of the model: calls made by one caller
  MaxAttempts,    \* ExponentialBackoffRetry.max_attempts
  SlowProvider,   \* may an attempt outlive the deadline of the timeout layer?
  OmitsUsage,     \* the calls whose responses may come without usage metadata
  NoAttempt       \* "no text", "zero tokens": a field that nothing was put in

\* The constructor of the retry policy refuses fewer than one attempt.
ASSUME StackAssumption ==
  /\ MaxCalls \in Nat
  /\ MaxAttempts \in Nat \ {0}
  /\ SlowProvider \in BOOLEAN
  /\ OmitsUsage \subseteq Nat
  /\ NoAttempt \notin Callers \X (1 .. MaxCalls) \X (1 .. MaxAttempts)

\* One attempt: the caller, the number of its call, the number of the attempt.
AttemptId == Callers \X (1 .. MaxCalls) \X (1 .. MaxAttempts)

Origin == AttemptId \cup {NoAttempt}

VARIABLES
  pc,         \* where each caller is in its current call
  callNo,     \* how many calls each caller has made
  attempt,    \* RetryingLLMProvider._retry: the local "attempt"
  answer,     \* the origin of the text the stack returned to the caller
  thread,     \* the daemon thread of each attempt
  result,     \* the "result" dictionaries the threads fill
  recorder,   \* the shared InMemoryLLMCallRecorder
  trace,      \* what the caller's last IterationRecord says about its call
  abandoned   \* history: attempts whose join timed out

vars == <<pc, callNo, attempt, answer, thread, result, recorder, trace, abandoned>>

callerVars == <<pc, callNo, attempt, answer, trace, abandoned>>

-----------------------------------------------------------------------------

Running == {"calling", "junk", "poem", "junkRaw", "poemRaw", "junkOut", "poemOut"}

Failures == {"llm", "quota", "unexpected"}

\* LLMCallSnapshot; its default is a snapshot in which nothing was recorded.
Snapshot == [raw : Origin, extracted : Origin, sanitized : Origin, tokens : Origin]

EmptySnapshot == [raw       |-> NoAttempt, extracted |-> NoAttempt,
                  sanitized |-> NoAttempt, tokens    |-> NoAttempt]

Result == [value : Origin, error : Failures \cup {"none"}]

EmptyResult == [value |-> NoAttempt, error |-> "none"]

\* The attempt a caller is joining, or joined last.
Current(c) == <<c, callNo[c], attempt[c]>>

\* Mutant of ResultDict: one dictionary kept on the timeout provider per caller.
ResultDictShared(t) == <<t[1], 1, 1>>

\* The dictionary an attempt's thread fills and its caller reads: a local of
\* _run_with_timeout, so a new one for every attempt.
ResultDict(t) == t

Alive(t) == thread[t] \in Running

Init ==
  /\ pc        = [c \in Callers |-> "idle"]
  /\ callNo    = [c \in Callers |-> 0]
  /\ attempt   = [c \in Callers |-> 0]
  /\ answer    = [c \in Callers |-> NoAttempt]
  /\ thread    = [t \in AttemptId |-> "unborn"]
  /\ result    = [t \in AttemptId |-> EmptyResult]
  /\ recorder  = EmptySnapshot
  /\ trace     = [c \in Callers |-> [answer |-> NoAttempt, snapshot |-> EmptySnapshot]]
  /\ abandoned = {}

-----------------------------------------------------------------------------
(***************************************************************************)
(* The caller: RetryingLLMProvider and TimeoutLLMProvider                  *)
(***************************************************************************)

\* Start the daemon thread of an attempt and join it.
StartThread(t) ==
  /\ thread' = [thread EXCEPT ![t] = "calling"]
  /\ UNCHANGED result

\* generate / regenerate_lines is entered: the first attempt starts.
Call(c) ==
  /\ pc[c] = "idle"
  /\ callNo[c] < MaxCalls
  /\ pc' = [pc EXCEPT ![c] = "joining"]
  /\ callNo' = [callNo EXCEPT ![c] = @ + 1]
  /\ attempt' = [attempt EXCEPT ![c] = 1]
  /\ answer' = [answer EXCEPT ![c] = NoAttempt]
  /\ StartThread(<<c, callNo[c] + 1, 1>>)
  /\ UNCHANGED <<recorder, trace, abandoned>>

\* Mutants of ShouldRetry: the quota check dropped; off by one, either way.
ShouldRetryQuota(n, failure) == n < MaxAttempts
ShouldRetryTooFew(n, failure) == failure # "quota" /\ n + 1 < MaxAttempts
ShouldRetryTooMany(n, failure) == failure # "quota" /\ n <= MaxAttempts

\* The retry policy: a quota error is never retried, any other LLMError while
\* attempts are left.  (next_delay_sec only decides how long the pause is.)
ShouldRetry(n, failure) == failure # "quota" /\ n < MaxAttempts

\* An attempt raised: the retry loop pauses before the next one, or re-raises.
AttemptRaises(c, failure) ==
  /\ pc' = [pc EXCEPT ![c] = IF ShouldRetry(attempt[c], failure)
                             THEN "backoff" ELSE "failed"]
  /\ UNCHANGED <<callNo, attempt, answer, thread, result, recorder, trace>>

\* The join ends because the thread has: an error in the dictionary is raised
\* (an exception that is no LLMError is wrapped in one), else the value returned.
JoinReturns(c) ==
  LET r == result[ResultDict(Current(c))]
  IN  /\ pc[c] = "joining"
      /\ thread[Current(c)] = "ended"
      /\ r.error = "none"
      /\ pc' = [pc EXCEPT ![c] = "answered"]
      /\ answer' = [answer EXCEPT ![c] = r.value]
      /\ UNCHANGED <<callNo, attempt, thread, result, recorder, trace, abandoned>>

JoinRaises(c) ==
  LET r == result[ResultDict(Current(c))]
  IN  /\ pc[c] = "joining"
      /\ thread[Current(c)] = "ended"
      /\ r.error # "none"
      /\ AttemptRaises(c, IF r.error = "quota" THEN "quota" ELSE "llm")
      /\ UNCHANGED abandoned

\* Mutant of DeadlineExpires: a join without a timeout.
DeadlineNever(c) == pc[c] = "joining" /\ FALSE /\ UNCHANGED vars

\* The deadline passes while the thread is alive: an LLMError is raised, and
\* the thread goes on unobserved.
DeadlineExpires(c) ==
  /\ SlowProvider
  /\ pc[c] = "joining"
  /\ Alive(Current(c))
  /\ AttemptRaises(c, "llm")
  /\ abandoned' = abandoned \cup {Current(c)}

\* Mutant of Retry: a hedged retry, which does not wait for the attempt before.
RetryHedged(c) ==
  /\ pc[c] \in {"backoff", "joining"}
  /\ attempt[c] < MaxAttempts
  /\ pc' = [pc EXCEPT ![c] = "joining"]
  /\ attempt' = [attempt EXCEPT ![c] = @ + 1]
  /\ StartThread(<<c, callNo[c], attempt[c] + 1>>)
  /\ UNCHANGED <<callNo, answer, recorder, trace, abandoned>>

\* The pause is over: the next attempt starts.
Retry(c) ==
  /\ pc[c] = "backoff"
  /\ pc' = [pc EXCEPT ![c] = "joining"]
  /\ attempt' = [attempt EXCEPT ![c] = @ + 1]
  /\ StartThread(<<c, callNo[c], attempt[c] + 1>>)
  /\ UNCHANGED <<callNo, answer, recorder, trace, abandoned>>

(***************************************************************************)
(* The caller's caller: a pipeline stage that records the call             *)
(***************************************************************************)

\* The stage reads the recorder and attaches the snapshot to its record.
TakeSnapshot(c) ==
  /\ pc[c] = "answered"
  /\ pc' = [pc EXCEPT ![c] = "idle"]
  /\ trace' = [trace EXCEPT ![c] = [answer |-> answer[c], snapshot |-> recorder]]
  /\ UNCHANGED <<callNo, attempt, answer, thread, result, recorder, abandoned>>

\* A failed call is recorded with the default snapshot, or not at all.
GiveUp(c) ==
  /\ pc[c] = "failed"
  /\ pc' = [pc EXCEPT ![c] = "idle"]
  /\ trace' = [trace EXCEPT ![c] = [answer |-> NoAttempt, snapshot |-> EmptySnapshot]]
  /\ UNCHANGED <<callNo, attempt, answer, thread, result, recorder, abandoned>>

-----------------------------------------------------------------------------
(***************************************************************************)
(* The daemon thread of attempt t: Gemini, extracting, sanitizing          *)
(***************************************************************************)

\* The thread's last step: a value or an exception is left in the dictionary.
EndThread(t, value, error) ==
  /\ thread' = [thread EXCEPT ![t] = "ended"]
  /\ result' = [result EXCEPT ![ResultDict(t)] =
                  [value |-> IF error = "none" THEN value ELSE @.value,
                   error |-> IF error = "none" THEN @.error ELSE error]]

\* generate_content raises: the error is a quota error or another LLMError.
ProviderFails(t) ==
  /\ thread[t] = "calling"
  /\ \E failure \in {"llm", "quota"} : EndThread(t, NoAttempt, failure)
  /\ UNCHANGED <<recorder, callerVars>>

\* _record_usage: nothing is recorded when the response has no usage metadata.
RecordUsage(t) ==
  \/ recorder' = [recorder EXCEPT !.tokens = t]
  \/ t[2] \in OmitsUsage /\ UNCHANGED recorder

\* The response has arrived and its usage is recorded; it has a text, or it has
\* none (an LLMError), or reading the text raises (not an LLMError).
ProviderResponds(t) ==
  /\ thread[t] = "calling"
  /\ RecordUsage(t)
  /\ \/ /\ \E text \in {"junk", "poem"} : thread' = [thread EXCEPT ![t] = text]
        /\ UNCHANGED result
     \/ \E failure \in {"llm", "unexpected"} : EndThread(t, NoAttempt, failure)
  /\ UNCHANGED callerVars

\* record_raw forgets the later layers of the call before, but not its tokens.
RecordRaw(t) ==
  /\ thread[t] \in {"junk", "poem"}
  /\ thread' = [thread EXCEPT ![t] = IF @ = "poem" THEN "poemRaw" ELSE "junkRaw"]
  /\ recorder' = [recorder EXCEPT !.raw = t, !.extracted = NoAttempt,
                                  !.sanitized = NoAttempt]
  /\ UNCHANGED <<result, callerVars>>

\* Mutant of RecordExtracted: the layer is not recorded.
RecordExtractedNot(t) ==
  /\ thread[t] \in {"junkRaw", "poemRaw"}
  /\ thread' = [thread EXCEPT ![t] = IF @ = "poemRaw" THEN "poemOut" ELSE "junkOut"]
  /\ UNCHANGED <<recorder, result, callerVars>>

RecordExtracted(t) ==
  /\ thread[t] \in {"junkRaw", "poemRaw"}
  /\ thread' = [thread EXCEPT ![t] = IF @ = "poemRaw" THEN "poemOut" ELSE "junkOut"]
  /\ recorder' = [recorder EXCEPT !.extracted = t]
  /\ UNCHANGED <<result, callerVars>>

\* The sanitized text is recorded even when it is empty; an empty one raises.
Sanitize(t) ==
  /\ thread[t] \in {"junkOut", "poemOut"}
  /\ IF thread[t] = "poemOut"
     THEN /\ recorder' = [recorder EXCEPT !.sanitized = t]
          /\ EndThread(t, t, "none")
     ELSE /\ recorder' = [recorder EXCEPT !.sanitized = NoAttempt]
          /\ EndThread(t, NoAttempt, "llm")
  /\ UNCHANGED callerVars

-----------------------------------------------------------------------------

CallerStep(c) ==
  \/ Call(c)
  \/ JoinReturns(c)
  \/ JoinRaises(c)
  \/ DeadlineExpires(c)
  \/ Retry(c)
  \/ TakeSnapshot(c)
  \/ GiveUp(c)

ThreadStep(t) ==
  \/ ProviderFails(t)
  \/ ProviderResponds(t)
  \/ RecordRaw(t)
  \/ RecordExtracted(t)
  \/ Sanitize(t)

\* Every caller has made the calls the model allows it and no thread is left.
Quiescent ==
  /\ \A c \in Callers : pc[c] = "idle" /\ callNo[c] = MaxCalls
  /\ \A t \in AttemptId : ~ Alive(t)
  /\ UNCHANGED vars

Next ==
  \/ \E c \in Callers : CallerStep(c)
  \/ \E t \in AttemptId : ThreadStep(t)
  \/ Quiescent

\* The interpreter schedules a request thread that can go on: its join returns
\* or times out and its pause ends.  Nothing obliges a daemon thread to go on (the
\* remote service may never answer), nor a client to make a call.
CallerFairness ==
  \A c \in Callers : WF_vars(JoinReturns(c) \/ JoinRaises(c) \/ DeadlineExpires(c) \/ Retry(c))

Spec == Init /\ [][Next]_vars /\ CallerFairness

(***************************************************************************)
(* Properties                                                              *)
(***************************************************************************)

\* The values the variables range over.
TypeOK ==
  /\ pc \in [Callers -> {"idle", "joining", "backoff", "answered", "failed"}]
  /\ callNo \in [Callers -> 0 .. MaxCalls]
  /\ attempt \in [Callers -> 0 .. MaxAttempts]
  /\ answer \in [Callers -> Origin]
  /\ thread \in [AttemptId -> Running \cup {"unborn", "ended"}]
  /\ result \in [AttemptId -> Result]
  /\ recorder \in Snapshot
  /\ trace \in [Callers -> [answer : Origin, snapshot : Snapshot]]
  /\ abandoned \subseteq AttemptId

\* The text a call returns is the sanitized, non-blank text of the attempt its
\* caller joined last: never a blank one, never one of an attempt it abandoned,
\* however late that attempt's thread delivers (timeout_provider.py:43-69).
FreshAnswer ==
  \A c \in Callers : pc[c] = "answered" => answer[c] = Current(c)

\* No attempt follows one whose caller saw a quota error: the daily limit does
\* not recover within a retry window (retry_policy.py:43-50).  An abandoned
\* attempt may still hit the quota, unseen.
QuotaIsFinal ==
  \A c \in Callers : \A a \in 1 .. MaxAttempts :
    LET t == <<c, callNo[c], a>>
    IN  /\ callNo[c] > 0
        /\ a < attempt[c]
        /\ t \notin abandoned
        => result[t].error # "quota"

\* A call fails only when its attempts are spent or the quota is
\* (retrying_provider.py:44-68).
FailsOnlyWhenSpent ==
  \A c \in Callers :
    pc[c] = "failed" => \/ attempt[c] = MaxAttempts
                        \/ /\ Current(c) \notin abandoned
                           /\ result[Current(c)].error = "quota"

\* A caller has at most one attempt it has not given up on, and it is blocked on
\* that one: every other thread still running is one the timeout layer leaked.
SingleLiveAttempt ==
  \A t \in AttemptId :
    Alive(t) /\ t \notin abandoned => pc[t[1]] = "joining" /\ t = Current(t[1])

\* What the domain says of an IterationRecord (evaluation.py:185-187): the texts
\* in it are those of the LLM call that produced the iteration.
TraceOfThisCall ==
  \A c \in Callers :
    trace[c].answer # NoAttempt =>
      /\ trace[c].snapshot.raw = trace[c].answer
      /\ trace[c].snapshot.extracted = trace[c].answer
      /\ trace[c].snapshot.sanitized = trace[c].answer

\* What a lone caller, whose attempts all ended before their deadline, finds in the
\* recorder: the texts of this call, its token counts unless its response may omit
\* them, and no layer later than the text beside it (evaluation.py:185-195,
\* llm_call_recorder.py:28-36).
LoneCallIsTraced ==
  (\A c, d \in Callers : c = d) /\ abandoned = {} =>
    /\ TraceOfThisCall
    /\ \A c \in Callers :
         trace[c].answer # NoAttempt /\ trace[c].answer[2] \notin OmitsUsage =>
           trace[c].snapshot.tokens = trace[c].answer
    /\ recorder.extracted \in {recorder.raw, NoAttempt}
    /\ recorder.sanitized \in {recorder.extracted, NoAttempt}

\* A call returns to its caller although the provider may never answer.
EveryCallReturns ==
  \A c \in Callers :
    pc[c] \in {"joining", "backoff"} ~> pc[c] \in {"answered", "failed"}

=============================================================================
