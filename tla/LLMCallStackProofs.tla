------------------------- MODULE LLMCallStackProofs -------------------------
(***************************************************************************)
(* Theorems about LLMCallStack, for any set of callers and any bounds:     *)
(* type correctness, the safety of retries and timeouts, and the trace of  *)
(* a lone caller.                                                          *)
(***************************************************************************)
EXTENDS LLMCallStack, TLAPS

-----------------------------------------------------------------------------
(***************************************************************************)
(* The inductive invariant                                                 *)
(***************************************************************************)

\* The call and the attempt a caller is at exist; one that pauses may try again.
CallerInv ==
  \A c \in Callers :
    /\ pc[c] # "idle" => callNo[c] \in 1 .. MaxCalls /\ attempt[c] \in 1 .. MaxAttempts
    /\ pc[c] = "backoff" => attempt[c] < MaxAttempts
    /\ pc[c] = "joining" => thread[Current(c)] # "unborn"

\* Calls and attempts are started in order: those ahead of a caller are unborn.
UnbornInv ==
  \A c \in Callers : \A k \in 1 .. MaxCalls : \A a \in 1 .. MaxAttempts :
    k > callNo[c] \/ (k = callNo[c] /\ a > attempt[c]) => thread[<<c, k, a>>] = "unborn"

\* A thread leaves one thing in its dictionary, when it ends: an error, or the
\* text it produced itself.
ResultInv ==
  \A t \in AttemptId :
    IF thread[t] = "ended"
    THEN result[t].error = "none" => result[t].value = t
    ELSE result[t] = EmptyResult

\* The caller saw attempt t end in an error that the policy lets it retry: the
\* join timed out, or the thread ended with something else than a quota error.
RetriedAttempt(t) ==
  t \in abandoned \/ (thread[t] = "ended" /\ result[t].error # "quota")

HistoryInv ==
  \A c \in Callers :
    /\ \A a \in 1 .. MaxAttempts :
         callNo[c] > 0 /\ a < attempt[c] => RetriedAttempt(<<c, callNo[c], a>>)
    /\ pc[c] = "backoff" => RetriedAttempt(Current(c))

\* An attempt is abandoned after it was started, and is not joined again.
AbandonedInv ==
  /\ \A t \in abandoned : thread[t] # "unborn"
  /\ \A c \in Callers : pc[c] = "joining" => Current(c) \notin abandoned

Inv ==
  /\ TypeOK
  /\ CallerInv
  /\ UnbornInv
  /\ ResultInv
  /\ HistoryInv
  /\ AbandonedInv
  /\ SingleLiveAttempt
  /\ FreshAnswer
  /\ FailsOnlyWhenSpent

-----------------------------------------------------------------------------
(***************************************************************************)
(* Lemmas                                                                  *)
(***************************************************************************)

\* The attempts of a caller are a caller, a call number and an attempt number, and
\* NoAttempt is none of them.
LEMMA AttemptIdFacts ==
  /\ \A c \in Callers, k \in 1 .. MaxCalls, a \in 1 .. MaxAttempts :
       <<c, k, a>> \in AttemptId
  /\ \A t \in AttemptId :
       /\ t[1] \in Callers /\ t[2] \in 1 .. MaxCalls /\ t[3] \in 1 .. MaxAttempts
       /\ t = <<t[1], t[2], t[3]>>
  /\ NoAttempt \notin AttemptId
BY StackAssumption DEF AttemptId

\* What a step of a daemon thread does, whichever it is: the thread was running,
\* it touches no caller and no other thread or dictionary, and it fills its own
\* dictionary only when it ends.
LEMMA ThreadStepEffect ==
  ASSUME TypeOK, ResultInv, NEW t \in AttemptId, ThreadStep(t)
  PROVE  /\ Alive(t)
         /\ UNCHANGED callerVars
         /\ recorder' \in Snapshot
         /\ \E s \in Running \cup {"ended"} : thread' = [thread EXCEPT ![t] = s]
         /\ \E r \in Result :
              /\ result' = [result EXCEPT ![t] = r]
              /\ IF thread'[t] = "ended" THEN r.error = "none" => r.value = t
                                         ELSE r = EmptyResult
<1> USE DEF TypeOK, Running, Alive, callerVars
<1>1. /\ result[t] \in Result /\ t \in Origin /\ NoAttempt \in Origin
      /\ thread[t] # "ended" => result[t] = EmptyResult
  BY DEF ResultInv, Origin
<1>2. ASSUME NEW value \in Origin, NEW error \in Failures \cup {"none"},
             EndThread(t, value, error), thread[t] \in Running,
             error = "none" => value = t
      PROVE  /\ \E s \in Running \cup {"ended"} : thread' = [thread EXCEPT ![t] = s]
             /\ \E r \in Result :
                  /\ result' = [result EXCEPT ![t] = r]
                  /\ IF thread'[t] = "ended" THEN r.error = "none" => r.value = t
                                             ELSE r = EmptyResult
  <2> DEFINE r == [value |-> IF error = "none" THEN value ELSE result[t].value,
                   error |-> IF error = "none" THEN result[t].error ELSE error]
  <2>1. r \in Result
    BY <1>1 DEF Result
  <2>2. result' = [result EXCEPT ![t] = r] /\ thread' = [thread EXCEPT ![t] = "ended"]
    BY <1>2 DEF EndThread, ResultDict
  <2>3. r.error = "none" => r.value = t
    BY <1>2 DEF Failures
  <2> QED
    BY <2>1, <2>2, <2>3
<1>3. ASSUME NEW s \in Running, thread' = [thread EXCEPT ![t] = s], UNCHANGED result,
             thread[t] \in Running
      PROVE  \E r \in Result :
                  /\ result' = [result EXCEPT ![t] = r]
                  /\ IF thread'[t] = "ended" THEN r.error = "none" => r.value = t
                                             ELSE r = EmptyResult
  BY <1>1, <1>3
<1>4. CASE ProviderFails(t)
  <2>1. PICK failure \in {"llm", "quota"} : EndThread(t, NoAttempt, failure)
    BY <1>4 DEF ProviderFails
  <2> QED
    BY <1>1, <1>2, <1>4, <2>1 DEF ProviderFails, Failures
<1>5. CASE ProviderResponds(t)
  <2>1. recorder' \in Snapshot
    BY <1>1, <1>5 DEF ProviderResponds, RecordUsage, Snapshot
  <2>2. CASE \E text \in {"junk", "poem"} : thread' = [thread EXCEPT ![t] = text] /\ UNCHANGED result
    BY <1>3, <1>5, <2>1, <2>2 DEF ProviderResponds
  <2>3. CASE \E failure \in {"llm", "unexpected"} : EndThread(t, NoAttempt, failure)
    BY <1>1, <1>2, <1>5, <2>1, <2>3 DEF ProviderResponds, Failures
  <2> QED
    BY <1>5, <2>2, <2>3 DEF ProviderResponds
<1>6. CASE RecordRaw(t)
  <2>1. recorder' \in Snapshot
    BY <1>1, <1>6 DEF RecordRaw, Snapshot
  <2> QED
    BY <1>3, <1>6, <2>1 DEF RecordRaw
<1>7. CASE RecordExtracted(t)
  <2>1. recorder' \in Snapshot
    BY <1>1, <1>7 DEF RecordExtracted, Snapshot
  <2> QED
    BY <1>3, <1>7, <2>1 DEF RecordExtracted
<1>8. CASE Sanitize(t)
  <2>1. recorder' \in Snapshot
    BY <1>1, <1>8 DEF Sanitize, Snapshot
  <2>2. EndThread(t, t, "none") \/ EndThread(t, NoAttempt, "llm")
    BY <1>8 DEF Sanitize
  <2> QED
    BY <1>1, <1>2, <1>8, <2>1, <2>2 DEF Sanitize, Failures
<1> QED
  BY <1>4, <1>5, <1>6, <1>7, <1>8 DEF ThreadStep

-----------------------------------------------------------------------------
(***************************************************************************)
(* The invariant holds initially, and a thread's step preserves it         *)
(***************************************************************************)

\* The invariant holds before any call is made.
LEMMA InitInv == Init => Inv
<1> SUFFICES ASSUME Init PROVE Inv
  OBVIOUS
<1> USE StackAssumption DEF Init
<1>1. TypeOK
  BY DEF TypeOK, Origin, Snapshot, Result, EmptySnapshot, EmptyResult, Running
<1>2. CallerInv /\ HistoryInv /\ AbandonedInv
  BY DEF CallerInv, HistoryInv, AbandonedInv
<1>3. UnbornInv
  BY AttemptIdFacts DEF UnbornInv
<1>4. ResultInv /\ SingleLiveAttempt
  BY DEF ResultInv, SingleLiveAttempt, Alive, Running
<1>5. FreshAnswer /\ FailsOnlyWhenSpent
  BY DEF FreshAnswer, FailsOnlyWhenSpent
<1> QED
  BY <1>1, <1>2, <1>3, <1>4, <1>5 DEF Inv

\* Whatever a daemon thread does, joined or abandoned, preserves the invariant.
LEMMA ThreadStepInv ==
  ASSUME Inv, NEW t \in AttemptId, ThreadStep(t)
  PROVE  Inv'
<1> USE DEF Inv, callerVars, Alive, Running
<1>1. /\ thread[t] \in Running
      /\ UNCHANGED callerVars
      /\ recorder' \in Snapshot
  BY ThreadStepEffect
<1>2. PICK s \in Running \cup {"ended"} : thread' = [thread EXCEPT ![t] = s]
  BY ThreadStepEffect
<1>3. PICK r \in Result :
        /\ result' = [result EXCEPT ![t] = r]
        /\ IF thread'[t] = "ended" THEN r.error = "none" => r.value = t
                                   ELSE r = EmptyResult
  BY ThreadStepEffect
<1>4. thread' \in [AttemptId -> Running \cup {"unborn", "ended"}] /\ result' \in [AttemptId -> Result]
  BY <1>2, <1>3 DEF TypeOK
<1>5. /\ \A u \in AttemptId : thread[u] = "unborn" => thread'[u] = "unborn"
      /\ \A u \in AttemptId : thread[u] # "unborn" => thread'[u] # "unborn"
      /\ \A u \in AttemptId : thread[u] = "ended" => thread'[u] = "ended" /\ result'[u] = result[u]
      /\ \A u \in AttemptId : thread'[u] \in Running => thread[u] \in Running
  BY <1>1, <1>2, <1>3 DEF TypeOK
<1>6. TypeOK'
  BY <1>1, <1>4 DEF TypeOK
<1>7. CallerInv'
  BY <1>1, <1>5, AttemptIdFacts DEF CallerInv, Current
<1>8. UnbornInv'
  BY <1>1, <1>5, AttemptIdFacts DEF UnbornInv
<1>9. ResultInv'
  BY <1>1, <1>2, <1>3 DEF ResultInv, TypeOK
<1>10. HistoryInv'
  <2>1. \A u \in AttemptId : RetriedAttempt(u) => RetriedAttempt(u)'
    BY <1>1, <1>5 DEF RetriedAttempt
  <2> QED
    BY <1>1, <2>1, AttemptIdFacts DEF HistoryInv, CallerInv, TypeOK, Current
<1>11. SingleLiveAttempt'
  BY <1>1, <1>5 DEF SingleLiveAttempt, Current
<1>12. FreshAnswer'
  BY <1>1 DEF FreshAnswer, Current
<1>13. FailsOnlyWhenSpent'
  <2> SUFFICES ASSUME NEW c \in Callers, pc[c] = "failed", attempt[c] # MaxAttempts
               PROVE  Current(c) \notin abandoned /\ result'[Current(c)].error = "quota"
    BY <1>1 DEF FailsOnlyWhenSpent, Current
  <2>1. Current(c) \in AttemptId
    BY AttemptIdFacts DEF CallerInv, Current
  <2>2. Current(c) \notin abandoned /\ result[Current(c)].error = "quota"
    BY DEF FailsOnlyWhenSpent
  <2>3. thread[Current(c)] = "ended"
    BY <2>1, <2>2 DEF ResultInv, EmptyResult
  <2> QED
    BY <1>5, <2>1, <2>2, <2>3
<1>14. AbandonedInv'
  BY <1>1, <1>5 DEF AbandonedInv, Current, TypeOK
<1> QED
  BY <1>6, <1>7, <1>8, <1>9, <1>10, <1>11, <1>12, <1>13, <1>14

-----------------------------------------------------------------------------
(***************************************************************************)
(* A caller's step preserves the invariant                                 *)
(***************************************************************************)

\* Facts every case below starts from: the attempt a busy caller is at exists,
\* its state is one of a thread's states, and callers do not share attempts.
LEMMA CurrentFacts ==
  ASSUME Inv, NEW c \in Callers, pc[c] # "idle"
  PROVE  /\ Current(c) \in AttemptId
         /\ callNo[c] \in 1 .. MaxCalls /\ attempt[c] \in 1 .. MaxAttempts
         /\ \A d \in Callers : d # c => Current(d) # Current(c)
BY AttemptIdFacts DEF Inv, CallerInv, Current

\* Starting a thread: Call(c) and Retry(c).
LEMMA StartInv ==
  ASSUME Inv, NEW c \in Callers, Call(c) \/ Retry(c)
  PROVE  Inv'
<1> DEFINE n == Current(c)'
<1> USE StackAssumption
<1>1. /\ pc' = [pc EXCEPT ![c] = "joining"]
      /\ callNo' \in [Callers -> 0 .. MaxCalls] /\ attempt' \in [Callers -> 0 .. MaxAttempts]
      /\ \A d \in Callers \ {c} : callNo'[d] = callNo[d] /\ attempt'[d] = attempt[d]
      /\ callNo'[c] \in 1 .. MaxCalls /\ attempt'[c] \in 1 .. MaxAttempts
      /\ \/ callNo'[c] = callNo[c] + 1 /\ attempt'[c] = 1 /\ pc[c] = "idle"
         \/ callNo'[c] = callNo[c] /\ attempt'[c] = attempt[c] + 1 /\ pc[c] = "backoff"
  BY SMTT(30) DEF Inv, TypeOK, CallerInv, Call, Retry
<1>2. /\ answer' \in [Callers -> Origin]
      /\ \A d \in Callers \ {c} : answer'[d] = answer[d]
      /\ UNCHANGED <<result, recorder, trace, abandoned>>
  BY DEF Inv, TypeOK, Call, Retry, StartThread, Origin
<1>3. n \in AttemptId /\ n = <<c, callNo'[c], attempt'[c]>>
  BY <1>1, AttemptIdFacts DEF Current
<1>4. thread' = [thread EXCEPT ![n] = "calling"]
  <2>1. CASE Call(c)
    BY <2>1, <1>3 DEF Call, StartThread, Inv, TypeOK
  <2>2. CASE Retry(c)
    BY <2>2, <1>3 DEF Retry, StartThread, Inv, TypeOK
  <2> QED
    BY <2>1, <2>2
<1>5. thread[n] = "unborn"
  BY <1>1, <1>3 DEF Inv, UnbornInv, TypeOK
<1>6. TypeOK'
  BY <1>1, <1>2, <1>4 DEF Inv, TypeOK, Running
<1>7. CallerInv'
  <2> SUFFICES ASSUME NEW d \in Callers
               PROVE  /\ pc'[d] # "idle" => callNo'[d] \in 1 .. MaxCalls /\ attempt'[d] \in 1 .. MaxAttempts
                      /\ pc'[d] = "backoff" => attempt'[d] < MaxAttempts
                      /\ pc'[d] = "joining" => thread'[Current(d)'] # "unborn"
    BY DEF CallerInv, Current
  <2>1. CASE d = c
    BY <2>1, <1>1, <1>3, <1>4 DEF Inv, TypeOK
  <2>2. CASE d # c
    <3>1. Current(d)' = Current(d) /\ pc'[d] = pc[d]
      BY <2>2, <1>1 DEF Current, Inv, TypeOK
    <3>2. pc[d] = "joining" => Current(d) \in AttemptId
      BY CurrentFacts
    <3>3. pc[d] = "joining" => thread'[Current(d)] # "unborn"
      BY <3>2, <1>4, <1>3 DEF Inv, TypeOK, CallerInv
    <3> QED
      BY <2>2, <3>1, <3>3, <1>1 DEF Inv, CallerInv
  <2> QED
    BY <2>1, <2>2
<1>8. UnbornInv'
  <2> SUFFICES ASSUME NEW d \in Callers, NEW k \in 1 .. MaxCalls, NEW a \in 1 .. MaxAttempts,
                      k > callNo'[d] \/ (k = callNo'[d] /\ a > attempt'[d])
               PROVE  thread'[<<d, k, a>>] = "unborn"
    BY DEF UnbornInv
  <2>1. <<d, k, a>> # n /\ <<d, k, a>> \in AttemptId
    BY <1>1, <1>3, AttemptIdFacts
  <2>2. k > callNo[d] \/ (k = callNo[d] /\ a > attempt[d])
    BY <1>1 DEF Inv, TypeOK
  <2> QED
    BY <2>1, <2>2, <1>4 DEF Inv, UnbornInv, TypeOK
<1>9. ResultInv'
  BY <1>2, <1>3, <1>4, <1>5 DEF Inv, ResultInv, TypeOK
<1>10. HistoryInv'
  <2>1. \A u \in AttemptId : RetriedAttempt(u) => RetriedAttempt(u)'
    BY <1>2, <1>3, <1>4, <1>5 DEF RetriedAttempt, Inv, TypeOK
  <2> SUFFICES ASSUME NEW d \in Callers
               PROVE  /\ \A a \in 1 .. MaxAttempts :
                           callNo'[d] > 0 /\ a < attempt'[d] => RetriedAttempt(<<d, callNo[d], a>>)'
                      /\ pc'[d] = "backoff" => RetriedAttempt(Current(d))'
    BY DEF HistoryInv, RetriedAttempt, Current
  <2>2. CASE d = c
    <3>1. pc'[d] = "joining"
      BY <2>2, <1>1 DEF Inv, TypeOK
    <3>2. ASSUME NEW a \in 1 .. MaxAttempts, a < attempt'[d]
          PROVE  RetriedAttempt(<<d, callNo[d], a>>)'
      <4>1. callNo'[d] = callNo[d] /\ attempt'[d] = attempt[d] + 1 /\ pc[d] = "backoff"
        BY <2>2, <3>2, <1>1
      <4>2. /\ attempt[d] \in 1 .. MaxAttempts /\ callNo[d] \in 1 .. MaxCalls
            /\ <<d, callNo[d], a>> \in AttemptId
        BY <4>1, AttemptIdFacts DEF Inv, CallerInv
      <4>3. RetriedAttempt(<<d, callNo[d], a>>)
        <5>1. CASE a = attempt[d]
          BY <5>1, <4>1 DEF Inv, HistoryInv, Current
        <5>2. CASE a < attempt[d]
          BY <5>2, <4>2 DEF Inv, HistoryInv
        <5> QED
          BY <5>1, <5>2, <3>2, <4>1, <4>2
      <4> QED
        BY <4>1, <4>2, <4>3, <2>1 DEF RetriedAttempt
    <3> QED
      BY <3>1, <3>2
  <2>3. CASE d # c
    <3>1. Current(d)' = Current(d) /\ pc'[d] = pc[d] /\ callNo'[d] = callNo[d] /\ attempt'[d] = attempt[d]
      BY <2>3, <1>1 DEF Current, Inv, TypeOK
    <3>2. \A a \in 1 .. MaxAttempts : callNo[d] > 0 => <<d, callNo[d], a>> \in AttemptId
      <4>1. callNo[d] \in 0 .. MaxCalls
        BY DEF Inv, TypeOK
      <4>2. MaxCalls \in Nat
        BY StackAssumption
      <4> QED
        BY <4>1, <4>2 DEF AttemptId
    <3>3. pc[d] = "backoff" => Current(d) \in AttemptId
      BY CurrentFacts
    <3> QED
      BY <3>1, <3>2, <3>3, <2>1 DEF Inv, HistoryInv, RetriedAttempt
  <2> QED
    BY <2>2, <2>3
<1>11. SingleLiveAttempt'
  <2> SUFFICES ASSUME NEW t \in AttemptId, thread'[t] \in Running, t \notin abandoned
               PROVE  pc'[t[1]] = "joining" /\ t = Current(t[1])'
    BY <1>2 DEF SingleLiveAttempt, Alive
  <2>1. CASE t = n
    BY <2>1, <1>1, <1>3, AttemptIdFacts DEF Inv, TypeOK, Current
  <2>2. CASE t # n
    <3>1. pc[t[1]] = "joining" /\ t = Current(t[1])
      BY <2>2, <1>3, <1>4 DEF Inv, SingleLiveAttempt, Alive, TypeOK
    <3>2. t[1] # c /\ t[1] \in Callers
      BY <3>1, <1>1, AttemptIdFacts
    <3> QED
      BY <3>1, <3>2, <1>1 DEF Current, Inv, TypeOK
  <2> QED
    BY <2>1, <2>2
<1>12. FreshAnswer'
  BY <1>1, <1>2 DEF FreshAnswer, Current, Inv, TypeOK
<1>13. FailsOnlyWhenSpent'
  BY <1>1, <1>2 DEF FailsOnlyWhenSpent, Current, Inv, TypeOK
<1>14. AbandonedInv'
  <2>1. \A t \in abandoned' : thread'[t] # "unborn"
    BY <1>2, <1>3, <1>4 DEF Inv, AbandonedInv, TypeOK
  <2>2. ASSUME NEW d \in Callers, pc'[d] = "joining"
        PROVE  Current(d)' \notin abandoned'
    <3>1. CASE d = c
      BY <3>1, <1>2, <1>5 DEF Inv, AbandonedInv
    <3>2. CASE d # c
      BY <3>2, <2>2, <1>1, <1>2 DEF Inv, AbandonedInv, TypeOK, Current
    <3> QED
      BY <3>1, <3>2
  <2> QED
    BY <2>1, <2>2 DEF AbandonedInv
<1> QED
  BY <1>6, <1>7, <1>8, <1>9, <1>10, <1>11, <1>12, <1>13, <1>14 DEF Inv

\* A step of a caller that starts no thread: JoinReturns, JoinRaises,
\* DeadlineExpires, TakeSnapshot, GiveUp.
LEMMA MoveInv ==
  ASSUME Inv, NEW c \in Callers, pc[c] # "idle",
         NEW s \in {"idle", "backoff", "answered", "failed"},
         pc' = [pc EXCEPT ![c] = s],
         UNCHANGED <<callNo, attempt, thread, result, recorder>>,
         trace' \in [Callers -> [answer : Origin, snapshot : Snapshot]],
         answer' \in [Callers -> Origin],
         \A d \in Callers \ {c} : answer'[d] = answer[d],
         abandoned' \in {abandoned, abandoned \cup {Current(c)}},
         pc[c] = "joining" => thread[Current(c)] = "ended" \/ Current(c) \in abandoned',
         pc[c] = "joining" \/ UNCHANGED abandoned,
         s = "backoff" => /\ pc[c] = "joining" /\ attempt[c] < MaxAttempts
                          /\ \/ Current(c) \in abandoned'
                             \/ result[Current(c)].error # "quota",
         s = "answered" => answer'[c] = Current(c),
         s = "failed" => \/ attempt[c] = MaxAttempts
                         \/ /\ Current(c) \notin abandoned'
                            /\ result[Current(c)].error = "quota"
  PROVE  Inv'
<1>1. /\ Current(c) \in AttemptId
      /\ callNo[c] \in 1 .. MaxCalls /\ attempt[c] \in 1 .. MaxAttempts
      /\ \A d \in Callers : d # c => Current(d) # Current(c)
  BY CurrentFacts
<1>2. pc'[c] = s /\ \A d \in Callers \ {c} : pc'[d] = pc[d]
  BY DEF Inv, TypeOK
<1>3. \A d \in Callers : Current(d)' = Current(d)
  BY DEF Current
<1>4. TypeOK'
  BY <1>1 DEF Inv, TypeOK
<1>5. CallerInv'
  BY <1>1, <1>2 DEF Inv, CallerInv, Current
<1>6. UnbornInv' /\ ResultInv'
  BY DEF Inv, UnbornInv, ResultInv
<1>7. HistoryInv'
  <2>1. \A u : RetriedAttempt(u) => RetriedAttempt(u)'
    BY DEF RetriedAttempt
  <2>2. s = "backoff" => RetriedAttempt(Current(c))'
    BY DEF RetriedAttempt, Current
  <2> QED
    BY <1>2, <2>1, <2>2 DEF Inv, HistoryInv, RetriedAttempt, Current
<1>8. SingleLiveAttempt'
  <2> SUFFICES ASSUME NEW t \in AttemptId, Alive(t), t \notin abandoned'
               PROVE  pc'[t[1]] = "joining" /\ t = Current(t[1])
    BY <1>3, AttemptIdFacts DEF SingleLiveAttempt, Alive
  <2>1. pc[t[1]] = "joining" /\ t = Current(t[1])
    BY DEF Inv, SingleLiveAttempt
  <2>2. t[1] # c
    BY <2>1 DEF Alive, Running
  <2> QED
    BY <1>2, <2>1, <2>2, AttemptIdFacts
<1>9. FreshAnswer'
  BY <1>2, <1>3 DEF Inv, FreshAnswer
<1>10. FailsOnlyWhenSpent'
  BY <1>1, <1>2, <1>3 DEF Inv, FailsOnlyWhenSpent, Current
<1>11. AbandonedInv'
  BY <1>1, <1>2, <1>3 DEF Inv, AbandonedInv, CallerInv
<1> QED
  BY <1>4, <1>5, <1>6, <1>7, <1>8, <1>9, <1>10, <1>11 DEF Inv

\* Each action of a caller preserves the invariant: the first two start a thread,
\* the others move the caller.
LEMMA CallerStepInv ==
  ASSUME Inv, NEW c \in Callers, CallerStep(c)
  PROVE  Inv'
<1>1. CASE Call(c) \/ Retry(c)
  BY <1>1, StartInv
<1>2. CASE JoinReturns(c)
  <2>1. Current(c) \in AttemptId
    BY <1>2, CurrentFacts DEF JoinReturns
  <2>2. result[Current(c)].value = Current(c)
    BY <1>2, <2>1 DEF JoinReturns, ResultDict, Inv, ResultInv
  <2>3. answer' = [answer EXCEPT ![c] = Current(c)] /\ answer' \in [Callers -> Origin]
    BY <1>2, <2>1, <2>2 DEF JoinReturns, ResultDict, Inv, TypeOK, Origin
  <2> QED
    BY <1>2, <2>3, MoveInv DEF JoinReturns, Inv, TypeOK
<1>3. CASE JoinRaises(c)
  <2>1. /\ result[Current(c)].error # "none" /\ thread[Current(c)] = "ended"
        /\ pc[c] = "joining" /\ UNCHANGED abandoned
        /\ AttemptRaises(c, IF result[Current(c)].error = "quota" THEN "quota" ELSE "llm")
    BY <1>3 DEF JoinRaises, ResultDict
  <2>2. attempt[c] \in 1 .. MaxAttempts
    BY <2>1, CurrentFacts
  <2>3. Current(c) \notin abandoned
    BY <2>1 DEF Inv, AbandonedInv
  <2>4. CASE result[Current(c)].error # "quota" /\ attempt[c] < MaxAttempts
    BY <2>1, <2>4, MoveInv DEF AttemptRaises, ShouldRetry, Inv, TypeOK
  <2>5. CASE result[Current(c)].error = "quota"
    BY <2>1, <2>3, <2>5, MoveInv DEF AttemptRaises, ShouldRetry, Inv, TypeOK
  <2>6. CASE result[Current(c)].error # "quota" /\ attempt[c] = MaxAttempts
    <3>1. ~ ShouldRetry(attempt[c], "llm")
      BY <2>6, StackAssumption DEF ShouldRetry
    <3> QED
      BY <2>1, <2>6, <3>1, MoveInv DEF AttemptRaises, Inv, TypeOK
  <2> QED
    BY <2>2, <2>4, <2>5, <2>6, StackAssumption
<1>4. CASE DeadlineExpires(c)
  <2>1. /\ pc[c] = "joining" /\ abandoned' = abandoned \cup {Current(c)}
        /\ AttemptRaises(c, "llm")
    BY <1>4 DEF DeadlineExpires
  <2>2. attempt[c] \in 1 .. MaxAttempts
    BY <2>1, CurrentFacts
  <2>3. CASE attempt[c] < MaxAttempts
    BY <2>1, <2>3, MoveInv DEF AttemptRaises, ShouldRetry, Inv, TypeOK
  <2>4. CASE attempt[c] = MaxAttempts
    BY <2>1, <2>4, MoveInv, StackAssumption DEF AttemptRaises, ShouldRetry, Inv, TypeOK
  <2> QED
    BY <2>2, <2>3, <2>4, StackAssumption
<1>5. CASE TakeSnapshot(c)
  <2>1. trace' \in [Callers -> [answer : Origin, snapshot : Snapshot]]
    BY <1>5 DEF TakeSnapshot, Inv, TypeOK
  <2> QED
    BY <1>5, <2>1, MoveInv DEF TakeSnapshot, Inv, TypeOK
<1>6. CASE GiveUp(c)
  <2>1. trace' \in [Callers -> [answer : Origin, snapshot : Snapshot]]
    BY <1>6 DEF GiveUp, Inv, TypeOK, Origin, Snapshot, EmptySnapshot
  <2> QED
    BY <1>6, <2>1, MoveInv DEF GiveUp, Inv, TypeOK
<1> QED
  BY <1>1, <1>2, <1>3, <1>4, <1>5, <1>6 DEF CallerStep

-----------------------------------------------------------------------------
(***************************************************************************)
(* The recorder of a lone caller                                           *)
(***************************************************************************)

\* One caller, and no attempt of it has missed its deadline.
Alone == (\A c, d \in Callers : c = d) /\ abandoned = {}

\* The token counts in the recorder are those of attempt t.
TokensOf(t) == t[2] \notin OmitsUsage => recorder.tokens = t

\* What the recorder holds while the thread of attempt t is on its way out.
UnderWay(t) ==
  /\ thread[t] \in {"junk", "poem"} => TokensOf(t)
  /\ thread[t] \in {"junkRaw", "poemRaw"} =>
       TokensOf(t) /\ recorder.raw = t /\ recorder.sanitized = NoAttempt
  /\ thread[t] \in {"junkOut", "poemOut"} =>
       TokensOf(t) /\ recorder.raw = t /\ recorder.extracted = t

\* All of attempt t is in the recorder.
Recorded(t) ==
  /\ TokensOf(t)
  /\ recorder.raw = t
  /\ recorder.extracted = t
  /\ recorder.sanitized = t

\* No layer of the recorder is of another attempt than the one before it.
LayersInv ==
  /\ recorder.extracted \in {recorder.raw, NoAttempt}
  /\ recorder.sanitized \in {recorder.extracted, NoAttempt}

\* An answer that is on its way to the stage is still in the recorder.
AnswerInv ==
  \A c \in Callers :
    \/ pc[c] = "answered"
    \/ /\ pc[c] = "joining"
       /\ thread[Current(c)] = "ended"
       /\ result[Current(c)].error = "none"
    => Recorded(Current(c))

\* The stage has kept what the recorder held.
KeptInv ==
  \A c \in Callers :
    trace[c].answer # NoAttempt =>
      /\ trace[c].snapshot.raw = trace[c].answer
      /\ trace[c].snapshot.extracted = trace[c].answer
      /\ trace[c].snapshot.sanitized = trace[c].answer
      /\ trace[c].answer[2] \notin OmitsUsage => trace[c].snapshot.tokens = trace[c].answer

RecorderInv ==
  Alone => /\ LayersInv
           /\ \A t \in AttemptId : UnderWay(t)
           /\ AnswerInv
           /\ KeptInv

\* A lone caller has one thread running at most: the one it is joining.
LEMMA OneThread ==
  ASSUME Inv, Alone, NEW t \in AttemptId, Alive(t)
  PROVE  /\ pc[t[1]] = "joining" /\ t = Current(t[1])
         /\ \A u \in AttemptId : Alive(u) => u = t
         /\ \A c \in Callers : c = t[1] /\ Current(c) = t
<1>1. \A u \in AttemptId : Alive(u) => pc[u[1]] = "joining" /\ u = Current(u[1])
  BY DEF Inv, SingleLiveAttempt, Alone
<1>2. \A u \in AttemptId : u[1] \in Callers
  BY AttemptIdFacts
<1> QED
  BY <1>1, <1>2 DEF Alone

\* A step of a lone caller's thread keeps the recorder true to its attempt.
LEMMA ThreadStepRecords ==
  ASSUME Inv, RecorderInv, NEW t \in AttemptId, ThreadStep(t)
  PROVE  RecorderInv'
<1>1. Alive(t) /\ UNCHANGED callerVars /\ recorder' \in Snapshot
  BY ThreadStepEffect DEF Inv
<1>2. PICK s \in Running \cup {"ended"} : thread' = [thread EXCEPT ![t] = s]
  BY ThreadStepEffect DEF Inv
<1>3. SUFFICES ASSUME Alone
               PROVE  /\ LayersInv'
                      /\ UnderWay(t)'
                      /\ thread'[t] = "ended" /\ result'[t].error = "none" => Recorded(t)'
  <2> SUFFICES ASSUME Alone' PROVE (LayersInv /\ (\A u \in AttemptId : UnderWay(u)) /\ AnswerInv /\ KeptInv)'
    BY DEF RecorderInv
  <2>1. Alone
    BY <1>1 DEF Alone, callerVars
  <2>2. LayersInv' /\ UnderWay(t)' /\ (thread'[t] = "ended" /\ result'[t].error = "none" => Recorded(t)')
    BY <2>1, <1>3
  <2>3. /\ \A u \in AttemptId : Alive(u) => u = t
        /\ \A c \in Callers : pc[c] = "joining" /\ Current(c) = t
    BY <2>1, <1>1, OneThread
  <2>4. ASSUME NEW u \in AttemptId PROVE UnderWay(u)'
    <3>1. CASE u = t
      BY <3>1, <2>2
    <3>2. CASE u # t
      <4>1. thread'[u] = thread[u] /\ ~ Alive(u)
        BY <3>2, <2>3, <1>2 DEF Inv, TypeOK
      <4> QED
        BY <4>1 DEF UnderWay, Alive, Running
    <3> QED
      BY <3>1, <3>2
  <2>5. AnswerInv'
    <3>1. \A c \in Callers : pc'[c] = "joining" /\ Current(c)' = t
      BY <2>3, <1>1 DEF Current, callerVars
    <3> QED
      BY <3>1, <2>2 DEF AnswerInv
  <2>6. KeptInv'
    BY <2>1, <1>1 DEF RecorderInv, KeptInv, callerVars
  <2> QED
    BY <2>2, <2>4, <2>5, <2>6
<1>4. LayersInv /\ UnderWay(t) /\ recorder \in Snapshot /\ thread[t] \in Running
  BY <1>1, <1>3 DEF RecorderInv, Alive, Inv, TypeOK
<1>5. t # NoAttempt /\ result[t] = EmptyResult
  BY <1>4, AttemptIdFacts DEF Inv, ResultInv, Running
<1> USE DEF LayersInv, UnderWay, Recorded, TokensOf, Running, Snapshot
<1>6. CASE ProviderFails(t)
  <2>1. thread'[t] = "ended" /\ result'[t].error # "none" /\ recorder' = recorder
    BY <1>6 DEF ProviderFails, EndThread, ResultDict, Inv, TypeOK
  <2> QED
    BY <2>1, <1>4
<1>7. CASE ProviderResponds(t)
  <2>1. \/ thread'[t] \in {"junk", "poem"}
        \/ thread'[t] = "ended" /\ result'[t].error # "none"
    BY <1>7 DEF ProviderResponds, EndThread, ResultDict, Inv, TypeOK
  <2>2. /\ recorder'.raw = recorder.raw /\ recorder'.extracted = recorder.extracted
        /\ recorder'.sanitized = recorder.sanitized
        /\ t[2] \notin OmitsUsage => recorder'.tokens = t
    BY <1>4, <1>7 DEF ProviderResponds, RecordUsage
  <2> QED
    BY <2>1, <2>2, <1>4
<1>8. CASE RecordRaw(t)
  <2>1. thread[t] \in {"junk", "poem"} /\ thread'[t] \in {"junkRaw", "poemRaw"}
    BY <1>8 DEF RecordRaw, Inv, TypeOK
  <2>2. /\ recorder'.raw = t /\ recorder'.extracted = NoAttempt
        /\ recorder'.sanitized = NoAttempt /\ recorder'.tokens = recorder.tokens
    BY <1>4, <1>8 DEF RecordRaw
  <2> QED
    BY <2>1, <2>2, <1>4
<1>9. CASE RecordExtracted(t)
  <2>1. thread[t] \in {"junkRaw", "poemRaw"} /\ thread'[t] \in {"junkOut", "poemOut"}
    BY <1>9 DEF RecordExtracted, Inv, TypeOK
  <2>2. /\ recorder'.raw = recorder.raw /\ recorder'.extracted = t
        /\ recorder'.sanitized = recorder.sanitized /\ recorder'.tokens = recorder.tokens
    BY <1>4, <1>9 DEF RecordExtracted
  <2> QED
    BY <2>1, <2>2, <1>4
<1>10. CASE Sanitize(t)
  <2>1. thread[t] \in {"junkOut", "poemOut"} /\ thread'[t] = "ended"
    BY <1>10 DEF Sanitize, EndThread, Inv, TypeOK
  <2>2. /\ recorder'.raw = recorder.raw /\ recorder'.extracted = recorder.extracted
        /\ recorder'.tokens = recorder.tokens
        /\ \/ recorder'.sanitized = t
           \/ recorder'.sanitized = NoAttempt /\ result'[t].error # "none"
    BY <1>4, <1>10 DEF Sanitize, EndThread, ResultDict, Inv, TypeOK
  <2> QED
    BY <2>1, <2>2, <1>4
<1> QED
  BY <1>6, <1>7, <1>8, <1>9, <1>10 DEF ThreadStep

\* A step of a lone caller leaves the recorder alone, and keeps what it holds.
LEMMA CallerStepRecords ==
  ASSUME Inv, RecorderInv, NEW c \in Callers, CallerStep(c)
  PROVE  RecorderInv'
<1> SUFFICES ASSUME Alone' PROVE (LayersInv /\ (\A t \in AttemptId : UnderWay(t)) /\ AnswerInv /\ KeptInv)'
  BY DEF RecorderInv
<1>1. recorder' = recorder /\ abandoned = {} /\ \A d \in Callers : d = c
  BY DEF CallerStep, Call, Retry, JoinReturns, JoinRaises, DeadlineExpires, AttemptRaises,
         TakeSnapshot, GiveUp, Alone
<1>2. LayersInv /\ (\A t \in AttemptId : UnderWay(t)) /\ AnswerInv /\ KeptInv
  BY <1>1 DEF RecorderInv, Alone
<1>3. LayersInv'
  BY <1>1, <1>2 DEF LayersInv
<1>4. CASE Call(c) \/ Retry(c)
  <2> DEFINE n == <<c, callNo'[c], attempt'[c]>>
  <2>1. thread' = [thread EXCEPT ![n] = "calling"] /\ pc'[c] = "joining" /\ UNCHANGED trace
    BY <1>4 DEF Call, Retry, StartThread, Inv, TypeOK
  <2>2. n \in AttemptId
    <3>1. callNo'[c] \in 1 .. MaxCalls /\ attempt'[c] \in 1 .. MaxAttempts
      BY <1>4, StackAssumption DEF Call, Retry, Inv, TypeOK, CallerInv
    <3> QED
      BY <3>1, AttemptIdFacts
  <2>3. \A t \in AttemptId : UnderWay(t)'
    BY <2>1, <1>1, <1>2 DEF UnderWay, TokensOf, Inv, TypeOK
  <2>4. AnswerInv'
    BY <2>1, <2>2, <1>1 DEF AnswerInv, Current, Inv, TypeOK
  <2> QED
    BY <2>1, <2>3, <2>4, <1>2, <1>3 DEF KeptInv
<1>5. CASE JoinReturns(c) \/ JoinRaises(c) \/ DeadlineExpires(c) \/ TakeSnapshot(c) \/ GiveUp(c)
  <2>1. UNCHANGED <<thread, result, callNo, attempt>>
    BY <1>5 DEF JoinReturns, JoinRaises, DeadlineExpires, AttemptRaises, TakeSnapshot, GiveUp
  <2>2. \A t \in AttemptId : UnderWay(t)'
    BY <2>1, <1>1, <1>2 DEF UnderWay, TokensOf
  <2>3. AnswerInv'
    <3>1. pc'[c] # "joining"
      BY <1>5 DEF JoinReturns, JoinRaises, DeadlineExpires, AttemptRaises, TakeSnapshot, GiveUp,
                  Inv, TypeOK
    <3>2. pc'[c] = "answered" => JoinReturns(c)
      BY <1>5 DEF JoinRaises, DeadlineExpires, AttemptRaises, TakeSnapshot, GiveUp, Inv, TypeOK
    <3>3. JoinReturns(c) => Recorded(Current(c))
      BY <1>2 DEF JoinReturns, ResultDict, AnswerInv
    <3> QED
      BY <3>1, <3>2, <3>3, <2>1, <1>1 DEF AnswerInv, Current, Recorded, TokensOf
  <2>4. KeptInv'
    <3>1. CASE TakeSnapshot(c)
      <4>1. trace'[c] = [answer |-> answer[c], snapshot |-> recorder] /\ answer[c] = Current(c)
        BY <3>1 DEF TakeSnapshot, Inv, TypeOK, FreshAnswer
      <4>2. Recorded(answer[c])
        BY <3>1, <4>1, <1>2 DEF TakeSnapshot, AnswerInv
      <4> QED
        BY <4>1, <4>2, <1>1 DEF KeptInv, Recorded, TokensOf
    <3>2. CASE GiveUp(c)
      <4>1. trace'[c].answer = NoAttempt
        BY <3>2 DEF GiveUp, Inv, TypeOK
      <4> QED
        BY <4>1, <1>1 DEF KeptInv
    <3>3. CASE UNCHANGED trace
      BY <3>3, <1>2 DEF KeptInv
    <3> QED
      BY <1>5, <3>1, <3>2, <3>3 DEF JoinReturns, JoinRaises, DeadlineExpires, AttemptRaises
  <2> QED
    BY <2>2, <2>3, <2>4, <1>3
<1> QED
  BY <1>4, <1>5 DEF CallerStep

-----------------------------------------------------------------------------
(***************************************************************************)
(* Theorems                                                                *)
(***************************************************************************)

\* Inv is an inductive invariant of the call stack.
THEOREM Invariance == Spec => []Inv
<1>1. Inv /\ [Next]_vars => Inv'
  <2> SUFFICES ASSUME Inv, [Next]_vars PROVE Inv'
    OBVIOUS
  <2>1. CASE \E c \in Callers : CallerStep(c)
    BY <2>1, CallerStepInv
  <2>2. CASE \E t \in AttemptId : ThreadStep(t)
    BY <2>2, ThreadStepInv
  <2>3. CASE UNCHANGED vars
    BY <2>3 DEF vars, Inv, TypeOK, CallerInv, UnbornInv, ResultInv, HistoryInv, AbandonedInv,
                RetriedAttempt, SingleLiveAttempt, FreshAnswer, FailsOnlyWhenSpent, Current, Alive
  <2> QED
    BY <2>1, <2>2, <2>3 DEF Next, Quiescent
<1> QED
  BY InitInv, <1>1, PTL DEF Spec

\* The variables keep their types.
THEOREM TypeCorrect == Spec => []TypeOK
BY Invariance, PTL DEF Inv

\* A call returns the non-blank text of the attempt it joined last, whatever the
\* threads it abandoned deliver and whenever they do.
THEOREM AnswersAreFresh == Spec => []FreshAnswer
BY Invariance, PTL DEF Inv

\* The only threads running besides the one each caller is blocked on are those
\* it abandoned at a deadline.
THEOREM OneLiveAttempt == Spec => []SingleLiveAttempt
BY Invariance, PTL DEF Inv

\* A call that fails has spent its attempts, or has seen the quota exhausted.
THEOREM FailuresAreEarned == Spec => []FailsOnlyWhenSpent
BY Invariance, PTL DEF Inv

\* No attempt follows a quota error that its caller has seen.
THEOREM QuotaStopsRetries == Spec => []QuotaIsFinal
<1>1. Inv => QuotaIsFinal
  BY DEF Inv, HistoryInv, RetriedAttempt, QuotaIsFinal
<1> QED
  BY Invariance, <1>1, PTL

\* What a lone caller, none of whose attempts missed its deadline, finds in the
\* recorder and keeps of it is of the call it made, in every layer.
THEOREM LoneCallsAreTraced == Spec => []LoneCallIsTraced
<1>1. Init => RecorderInv
  BY DEF Init, RecorderInv, LayersInv, UnderWay, AnswerInv, KeptInv, EmptySnapshot
<1>2. Inv /\ RecorderInv /\ [Next]_vars => RecorderInv'
  <2> SUFFICES ASSUME Inv, RecorderInv, [Next]_vars PROVE RecorderInv'
    OBVIOUS
  <2>1. CASE \E c \in Callers : CallerStep(c)
    BY <2>1, CallerStepRecords
  <2>2. CASE \E t \in AttemptId : ThreadStep(t)
    BY <2>2, ThreadStepRecords
  <2>3. CASE UNCHANGED vars
    BY <2>3 DEF vars, RecorderInv, Alone, LayersInv, UnderWay, TokensOf, AnswerInv, Recorded,
                KeptInv, Current
  <2> QED
    BY <2>1, <2>2, <2>3 DEF Next, Quiescent
<1>3. RecorderInv => LoneCallIsTraced
  BY DEF RecorderInv, Alone, LayersInv, KeptInv, LoneCallIsTraced, TraceOfThisCall
<1> QED
  BY Invariance, <1>1, <1>2, <1>3, PTL DEF Spec

=============================================================================
