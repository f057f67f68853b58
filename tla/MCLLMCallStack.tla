--------------------------- MODULE MCLLMCallStack ---------------------------
(***************************************************************************)
(* Model-checking instance of LLMCallStack.                                *)
(***************************************************************************)
EXTENDS LLMCallStack

\* The recorder and the traces are written and never read by the steps that move
\* the callers and the threads on, and LoneCallIsTraced asks for them only while
\* nothing has been abandoned, which it remains once it is: states that differ in
\* them alone after that have the same futures for all that is checked.
ControlView ==
  <<pc, callNo, attempt, answer, thread, result, abandoned,
    IF abandoned = {} THEN <<recorder, trace>> ELSE <<>> >>

=============================================================================
