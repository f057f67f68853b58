--------------------------- MODULE MCBatchResume ---------------------------
(***************************************************************************)
(* Small instances of BatchResume: a matrix of three cells, and one that   *)
(* leaves the middle cell out (--config or --scenario narrows the matrix). *)
(***************************************************************************)
EXTENDS BatchResume

CONSTANTS c1, c2, c3

MCCells == {c1, c2, c3}
MCMatrices == {<<c1, c2, c3>>, <<c1, c3>>}
MCOneMatrix == {<<c1, c2>>}

=============================================================================
