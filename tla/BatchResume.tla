---------------------------- MODULE BatchResume ----------------------------
(***************************************************************************)
(* The ablation batch: a process runs a matrix of cells (scenario, config, *)
(* seed), one evaluation each, and streams one row per cell to runs.csv.   *)
(* The process may die at any point; the next one starts afresh or resumes,*)
(* that is, reads the file, keeps the rows without an error, TRUNCATES the *)
(* file and writes the kept rows again before it runs the cells left.      *)
(*                                                                         *)
(* An evaluation is one step with two outcomes: its results, or an error   *)
(* row (GenerationPipeline shows that a run always ends in one of them).   *)
(* A row is told apart by its cell, the execution that made it and what a  *)
(* crash left of it.  The pause between calls is left out.                 *)
(***************************************************************************)
EXTENDS Naturals, Sequences, SequencesExt, Loops

CONSTANTS
  Cells,           \* the cells of the largest matrix
  Matrices,        \* the matrices an invocation may be asked for, in run order
  AllowFresh,      \* may an invocation be made without --resume?
  TornWrites,      \* may a crash cut the row that is being written?
  MaxInvocations,  \* bound of the model: processes started
  NoRow            \* no row is waiting to be written

ASSUME BatchAssumption ==
  /\ \A m \in Matrices : m \in Seq(Cells) /\ IsInjective(m)
  /\ AllowFresh \in BOOLEAN
  /\ TornWrites \in BOOLEAN
  /\ MaxInvocations \in Nat

VARIABLES
  file,         \* the rows of runs.csv; a missing file and one without rows are alike
  pc,           \* the process: "idle" when there is none
  matrix,       \* the cells this invocation was asked for
  resumed,      \* was it asked to resume?
  kept,         \* preserved_rows
  skip,         \* skip_cells
  todo,         \* the cells the generator has not come to
  ready,        \* the row the writer has been handed
  ended,        \* how the last invocation ended
  invocations,  \* how many there were
  executions,   \* history: how often each cell was run
  before        \* history: the file as the invocation found it

vars == <<file, pc, matrix, resumed, kept, skip, todo, ready, ended, invocations,
          executions, before>>

request == <<matrix, resumed, before, invocations>>

\* What a crash may leave of a row: all of it, or a prefix that ends before the
\* seed column, with an empty seed, or after the seed.
Cuts == {"beforeSeed", "emptySeed", "afterSeed"}

Row == [cell : Cells, run : 1 .. MaxInvocations, error : BOOLEAN,
        cut : Cuts \cup {"whole"}]

Init ==
  /\ file = <<>>
  /\ pc = "idle"
  /\ matrix = <<>>
  /\ resumed = FALSE
  /\ kept = <<>>
  /\ skip = {}
  /\ todo = <<>>
  /\ ready = NoRow
  /\ ended = "never"
  /\ invocations = 0
  /\ executions = [c \in Cells |-> 0]
  /\ before = <<>>

-----------------------------------------------------------------------------
(***************************************************************************)
(* Reading runs.csv                                                        *)
(***************************************************************************)

\* _row_from_dict: a missing seed is None, int(None) is a TypeError, and only
\* KeyError and ValueError are caught.
Raises(row) == row.cut = "beforeSeed"

\* An empty seed is a ValueError: the row is dropped.
Dropped(row) == row.cut = "emptySeed"

\* Columns that are missing after the seed read as zero, and the error as none.
Parsed(row) ==
  IF row.cut = "afterSeed"
  THEN [row EXCEPT !.cut = "whole", !.error = FALSE]
  ELSE row

\* Mutant of ReadExistingRuns: the last row is distrusted whatever it says.
ReadAllButLast ==
  LET rows == Filter(file, {row \in ToSet(file) : ~ Dropped(row)})
  IN  IF rows = <<>> THEN rows ELSE [i \in DOMAIN Front(rows) |-> Parsed(rows[i])]

\* read_existing_runs.
ReadExistingRuns ==
  LET rows == Filter(file, {row \in ToSet(file) : ~ Dropped(row)})
  IN  [i \in DOMAIN rows |-> Parsed(rows[i])]

\* Mutant of KeptRows: rows with an error are kept as well.
KeptRowsAll == ReadExistingRuns

\* _load_resume_state: the rows that carry no error.
KeptRows == Filter(ReadExistingRuns, {row \in ToSet(ReadExistingRuns) : ~ row.error})

\* Mutant of SkipCells: no cell is ever skipped.
SkipCellsNone(rows) == {}

\* skip_cells: the keys of the rows that are kept.
SkipCells(rows) == {row.cell : row \in ToSet(rows)}

-----------------------------------------------------------------------------
(***************************************************************************)
(* The process                                                             *)
(***************************************************************************)

MayStart == pc = "idle" /\ invocations < MaxInvocations

\* The runner starts: with --resume it reads the file, without it ignores it.
Invoke(m, resume) ==
  /\ MayStart
  /\ resume \/ AllowFresh
  /\ resume => \A row \in ToSet(file) : ~ Raises(row)
  /\ pc' = "loaded"
  /\ matrix' = m
  /\ resumed' = resume
  /\ kept' = IF resume THEN KeptRows ELSE <<>>
  /\ skip' = IF resume THEN SkipCells(KeptRows) ELSE {}
  /\ todo' = m
  /\ ended' = "never"
  /\ invocations' = invocations + 1
  /\ before' = file
  /\ UNCHANGED <<file, ready, executions>>

\* Reading the file raises: the runner dies before it has touched anything.
ResumeRaises ==
  /\ MayStart
  /\ \E row \in ToSet(file) : Raises(row)
  /\ ended' = "raised"
  /\ invocations' = invocations + 1
  /\ before' = file
  /\ resumed' = TRUE
  /\ UNCHANGED <<file, pc, matrix, kept, skip, todo, ready, executions>>

\* The writer opens the file for writing, which truncates it, and writes the header.
OpenFile ==
  /\ pc = "loaded"
  /\ pc' = "writing"
  /\ file' = <<>>
  /\ UNCHANGED <<request, kept, skip, todo, ready, ended, executions>>

\* The kept rows come first: each is written and flushed.
WritePreserved ==
  /\ pc = "writing"
  /\ Len(file) < Len(kept)
  /\ file' = Append(file, kept[Len(file) + 1])
  /\ UNCHANGED <<pc, request, kept, skip, todo, ready, ended, executions>>

\* The generator is asked for a row once the kept ones are written.
Generating == pc = "writing" /\ Len(file) >= Len(kept)

\* Mutant of SkipCell: a cell that is skipped is put off to the end of the list.
SkipCellDefers ==
  /\ Generating
  /\ todo # <<>>
  /\ Head(todo) \in skip
  /\ todo' = Append(Tail(todo), Head(todo))
  /\ UNCHANGED <<file, pc, request, kept, skip, ready, ended, executions>>

SkipCell ==
  /\ Generating
  /\ todo # <<>>
  /\ Head(todo) \in skip
  /\ todo' = Tail(todo)
  /\ UNCHANGED <<file, pc, request, kept, skip, ready, ended, executions>>

\* The next cell is evaluated: its row is handed to the writer.
RunCell ==
  /\ Generating
  /\ todo # <<>>
  /\ Head(todo) \notin skip
  /\ todo' = Tail(todo)
  /\ executions' = [executions EXCEPT ![Head(todo)] = @ + 1]
  /\ \E failed \in BOOLEAN :
       ready' = [cell |-> Head(todo), run |-> executions'[Head(todo)], error |-> failed,
                 cut  |-> "whole"]
  /\ pc' = "rowReady"
  /\ UNCHANGED <<file, request, kept, skip, ended>>

\* The row is written and flushed.
WriteRow ==
  /\ pc = "rowReady"
  /\ pc' = "writing"
  /\ file' = Append(file, ready)
  /\ ready' = NoRow
  /\ UNCHANGED <<request, kept, skip, todo, ended, executions>>

\* Mutant of Finish: a row with an error ends the batch.
FinishOnError ==
  /\ Generating
  /\ todo = <<>> \/ (file # <<>> /\ Last(file).error)
  /\ pc' = "idle"
  /\ ended' = "finished"
  /\ UNCHANGED <<file, request, kept, skip, todo, ready, executions>>

Finish ==
  /\ Generating
  /\ todo = <<>>
  /\ pc' = "idle"
  /\ ended' = "finished"
  /\ UNCHANGED <<file, request, kept, skip, todo, ready, executions>>

\* The row a write call is working on, if there is one.
BeingWritten ==
  CASE pc = "rowReady"                           -> {ready}
    [] pc = "writing" /\ Len(file) < Len(kept)   -> {kept[Len(file) + 1]}
    [] OTHER                                     -> {}

\* The process dies; what is flushed stays, and the row being written may be cut.
Crash ==
  /\ pc # "idle"
  /\ pc' = "idle"
  /\ ready' = NoRow
  /\ ended' = "crashed"
  /\ \/ UNCHANGED file
     \/ /\ TornWrites
        /\ \E row \in BeingWritten, cut \in Cuts :
             file' = Append(file, [row EXCEPT !.cut = cut])
  /\ UNCHANGED <<request, kept, skip, todo, executions>>

Steps ==
  \/ OpenFile
  \/ WritePreserved
  \/ SkipCell
  \/ RunCell
  \/ WriteRow
  \/ Finish

\* No more invocations are made.
Over == pc = "idle" /\ invocations = MaxInvocations /\ UNCHANGED vars

Next ==
  \/ \E m \in Matrices, resume \in BOOLEAN : Invoke(m, resume)
  \/ ResumeRaises
  \/ Steps
  \/ Crash
  \/ Over

\* A process that is running goes on unless it dies; nobody has to start one.
Spec == Init /\ [][Next]_vars /\ WF_vars(Steps)

-----------------------------------------------------------------------------
(***************************************************************************)
(* Properties                                                              *)
(***************************************************************************)

\* However often the batch is killed and resumed, and with whatever matrix, no
\* cell ever has two rows: the analysis would count it twice.
OneRowPerCell ==
  \A i, j \in DOMAIN file : file[i].cell = file[j].cell => i = j

CellsOf(rows) == {row.cell : row \in ToSet(rows)}

\* An invocation that comes to its end leaves a whole row for every cell it was
\* asked for and for every cell it kept, and for no other
\* (batch_evaluation_service.py:58-68).
FinishedIsComplete ==
  ended = "finished" =>
    /\ CellsOf(file) = ToSet(matrix) \cup CellsOf(kept)
    /\ \A row \in ToSet(file) : row.cut = "whole"

\* A resumed invocation that comes to its end has every successful row it found
\* in the file, as it was, those outside its own matrix too.
ResultsSurviveResume ==
  ended = "finished" /\ resumed =>
    \A row \in ToSet(before) :
      row.cut = "whole" /\ ~ row.error => row \in ToSet(file)

\* ... and its failures are its own: a row with an error that it found has been
\* run again, or is gone.
FailuresAreRetried ==
  ended = "finished" /\ resumed =>
    \A row \in ToSet(file) : row.error => row \notin ToSet(before)

\* A resumed invocation never runs a cell whose successful row it found.
SuccessNotRerun ==
  [][\A row \in ToSet(before) :
       resumed /\ row.cut = "whole" /\ ~ row.error =>
         executions'[row.cell] = executions[row.cell]]_vars

\* An invocation comes to an end, whatever it found in the file.
InvocationEnds == pc # "idle" ~> pc = "idle"

\* What csv_batch_results_writer.py:64-72 says: a corrupt last line is dropped and
\* its cell run again, and reading the file does not fail loudly.
CorruptLineIsRerun ==
  /\ ended # "raised"
  /\ resumed => \A row \in ToSet(before) : row.cut # "whole" => row.cell \notin skip

=============================================================================
