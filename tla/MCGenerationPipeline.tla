------------------------ MODULE MCGenerationPipeline ------------------------
(***************************************************************************)
(* Small instances of GenerationPipeline: four lines of verse rhyming AABB.*)
(* Line a and line b scan and do not rhyme with each other; x rhymes with  *)
(* a but does not scan; stub is a fragment that is no verse.               *)
(***************************************************************************)
EXTENDS GenerationPipeline

CONSTANTS a, b, x, stub

MCLines == {a, b, x, stub}
MCStubs == {stub}
MCMetrical == {a, b}
MCRhyming == {<<l, l>> : l \in MCLines} \cup {<<a, x>>, <<x, a>>}
MCScheme == <<"A", "A", "B", "B">>

\* Full poems that are valid, break the meter, the rhyme, both; one with a stub;
\* too long ones; fragments of one to three lines, some of them copied lines only.
MCResponses ==
  { <<a, a, b, b>>, <<x, a, b, b>>, <<a, a, b, a>>, <<x, b, b, x>>,
    <<a, a, b, stub>>, <<x, a, b, b, a>>, <<a, a, b, b, a>>,
    <<a>>, <<b>>, <<x>>, <<b, b>>, <<a, x>>, <<b, b, a>>, <<stub>> }

=============================================================================
