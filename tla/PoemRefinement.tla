--------------------------- MODULE PoemRefinement ---------------------------
(***************************************************************************)
(* What a run of the generation pipeline promises, whatever its stages do: *)
(* a first draft is improved in at most "rounds" rounds, only while it is  *)
(* not valid; a round that is interrupted leaves the poem as it was and    *)
(* ends the improvement; and what is delivered is the last poem of the     *)
(* history its records show.                                               *)
(***************************************************************************)
EXTENDS Naturals, Sequences, SequencesExt

CONSTANTS
  Poems,      \* the texts a poem can be
  Valid(_),   \* does a poem violate neither meter nor rhyme?
  Nothing     \* no poem was delivered

VARIABLES
  phase,      \* how far the run has come
  rounds,     \* how many rounds the request allows
  history,    \* the poem after the draft and after each round
  delivered   \* the poem the caller gets

vars == <<phase, rounds, history, delivered>>

Init ==
  /\ phase = "drafting"
  /\ rounds \in Nat
  /\ history = <<>>
  /\ delivered = Nothing

\* Any poem may be recorded next.
Record ==
  /\ Last(history') \in Poems
  /\ history' = Append(history, Last(history'))

Draft ==
  /\ phase = "drafting"
  /\ phase' = "refining"
  /\ Record
  /\ UNCHANGED <<rounds, delivered>>

MayImprove ==
  /\ phase = "refining"
  /\ ~ Valid(Last(history))
  /\ Len(history) <= rounds

Improve ==
  /\ MayImprove
  /\ Record
  /\ UNCHANGED <<phase, rounds, delivered>>

Interrupt ==
  /\ MayImprove
  /\ phase' = "interrupted"
  /\ history' = Append(history, Last(history))
  /\ UNCHANGED <<rounds, delivered>>

Deliver ==
  /\ phase \in {"refining", "interrupted"}
  /\ ~ MayImprove
  /\ phase' = "delivered"
  /\ delivered' = Last(history)
  /\ UNCHANGED <<rounds, history>>

Fail ==
  /\ phase = "drafting"
  /\ phase' = "failed"
  /\ UNCHANGED <<rounds, history, delivered>>

Next == Draft \/ Improve \/ Interrupt \/ Deliver \/ Fail

Spec == Init /\ [][Next]_vars

=============================================================================
