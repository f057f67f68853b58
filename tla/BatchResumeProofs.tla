-------------------------- MODULE BatchResumeProofs --------------------------
(***************************************************************************)
(* What the batch promises of its file, for any cells and matrices,        *)
(* however often its process dies, wherever, whatever a crash leaves of a  *)
(* row, and however often and with whatever matrix it is started again.    *)
(***************************************************************************)
EXTENDS BatchResume, SequenceFacts, SequenceTheorems

Rows == [cell : Cells, run : Nat, error : BOOLEAN, cut : Cuts \cup {"whole"}]

BatchTypeOK ==
  /\ file \in Seq(Rows) /\ kept \in Seq(Rows) /\ before \in Seq(Rows)
  /\ pc \in {"idle", "loaded", "writing", "rowReady"}
  /\ matrix \in Seq(Cells) /\ todo \in Seq(Cells)
  /\ executions \in [Cells -> Nat]
  /\ pc = "rowReady" => ready \in Rows

OneEach(rows) == \A i, j \in DOMAIN rows : rows[i].cell = rows[j].cell => i = j

\* A row is of an execution its cell has had.
Earned(row) == row.run <= executions[row.cell]

EarnedInv ==
  /\ \A i \in DOMAIN file : Earned(file[i])
  /\ \A i \in DOMAIN kept : Earned(kept[i])
  /\ \A i \in DOMAIN before : Earned(before[i])
  /\ pc = "rowReady" => Earned(ready)

\* What is kept: whole successes, one of a cell, and all of those that were found.
KeptInv ==
  /\ OneEach(kept)
  /\ \A i \in DOMAIN kept : kept[i].cut = "whole" /\ ~ kept[i].error
  /\ skip = CellsOf(kept)
  /\ resumed /\ ended # "raised" =>
       \A i \in DOMAIN before :
         before[i].cut = "whole" /\ ~ before[i].error => before[i] \in ToSet(kept)

\* A row of this invocation: its cell was asked for, is done and was not kept, and
\* it is later than what was found of the cell.
OfThisInvocation(row) ==
  /\ row.cut = "whole"
  /\ row.cell \in ToSet(matrix)
  /\ row.cell \notin skip
  /\ row.cell \notin ToSet(todo)
  /\ \A i \in DOMAIN before : before[i].cell = row.cell => before[i].run < row.run

\* Is the file this invocation's?
Laid == pc \in {"writing", "rowReady"} \/ ended = "finished"

\* The file is a beginning of what is kept or has rows of this invocation after it.
FileInv ==
  /\ OneRowPerCell
  /\ Laid => \A i \in DOMAIN file :
       /\ i <= Len(kept) => file[i] = kept[i]
       /\ i > Len(kept) => OfThisInvocation(file[i])

\* Every cell that was asked for is to be done, was kept, has a row or waits for it.
ProgressInv ==
  /\ \A i, j \in DOMAIN todo : todo[i] = todo[j] => i = j
  /\ ToSet(todo) \subseteq ToSet(matrix)
  /\ pc = "loaded" => todo = matrix
  /\ pc # "idle" => ended = "never"
  /\ ended = "finished" => todo = <<>> /\ Len(file) >= Len(kept)
  /\ pc = "rowReady" =>
       /\ Len(file) >= Len(kept)
       /\ OfThisInvocation(ready)
       /\ ready.cell \notin CellsOf(file)
  /\ Laid => \A c \in ToSet(matrix) :
       \/ c \in ToSet(todo) \cup skip \cup CellsOf(file)
       \/ pc = "rowReady" /\ c = ready.cell

BatchInv == BatchTypeOK /\ EarnedInv /\ KeptInv /\ FileInv /\ ProgressInv

-----------------------------------------------------------------------------
(***************************************************************************)
(* Sequences                                                               *)
(***************************************************************************)

\* A list with one more element.
LEMMA OneMore ==
  ASSUME NEW X, NEW s \in Seq(X), NEW x \in X
  PROVE  /\ Append(s, x) \in Seq(X)
         /\ Len(Append(s, x)) = Len(s) + 1
         /\ DOMAIN Append(s, x) = 1 .. Len(s) + 1
         /\ DOMAIN s = 1 .. Len(s)
         /\ Append(s, x)[Len(s) + 1] = x
         /\ \A i \in DOMAIN s : Append(s, x)[i] = s[i]
  OBVIOUS

\* The first element and the others.
LEMMA FirstAndRest ==
  ASSUME NEW X, NEW s \in Seq(X), s # <<>>
  PROVE  /\ Head(s) \in X /\ Tail(s) \in Seq(X)
         /\ Len(s) \in Nat \ {0} /\ DOMAIN s = 1 .. Len(s) /\ s[1] = Head(s)
         /\ DOMAIN Tail(s) = 1 .. Len(s) - 1
         /\ \A i \in DOMAIN Tail(s) : Tail(s)[i] = s[i + 1]
  OBVIOUS

\* Taking the first of a list without repetitions takes it out of the set of its elements.
LEMMA TakeFirst ==
  ASSUME NEW X, NEW s \in Seq(X), s # <<>>,
         \A i, j \in DOMAIN s : s[i] = s[j] => i = j
  PROVE  /\ ToSet(Tail(s)) = ToSet(s) \ {Head(s)}
         /\ Head(s) \in ToSet(s)
         /\ \A i, j \in DOMAIN Tail(s) : Tail(s)[i] = Tail(s)[j] => i = j
<1>1. /\ Len(s) \in Nat \ {0} /\ DOMAIN s = 1 .. Len(s) /\ s[1] = Head(s)
      /\ DOMAIN Tail(s) = 1 .. Len(s) - 1
      /\ \A i \in DOMAIN Tail(s) : Tail(s)[i] = s[i + 1]
  BY FirstAndRest
<1>2. \A i \in 2 .. Len(s) : i - 1 \in DOMAIN Tail(s) /\ Tail(s)[i - 1] = s[i]
  BY <1>1
<1>3. \A i \in DOMAIN Tail(s) : i + 1 \in DOMAIN s /\ i + 1 # 1
  BY <1>1
<1>4. \A i \in DOMAIN s : i = 1 \/ i \in 2 .. Len(s)
  BY <1>1
<1>5. 1 \in DOMAIN s
  BY <1>1
<1>6. ToSet(Tail(s)) = ToSet(s) \ {Head(s)}
  <2>1. ASSUME NEW x \in ToSet(Tail(s)) PROVE x \in ToSet(s) \ {Head(s)}
    BY <1>1, <1>3, <1>5 DEF ToSet
  <2>2. ASSUME NEW x \in ToSet(s) \ {Head(s)} PROVE x \in ToSet(Tail(s))
    <3>1. PICK i \in DOMAIN s : s[i] = x
      BY <2>2 DEF ToSet
    <3>2. i \in 2 .. Len(s)
      BY <3>1, <2>2, <1>1, <1>4
    <3> QED
      BY <3>1, <3>2, <1>2 DEF ToSet
  <2> QED
    BY <2>1, <2>2
<1>7. ASSUME NEW i \in DOMAIN Tail(s), NEW j \in DOMAIN Tail(s), Tail(s)[i] = Tail(s)[j]
      PROVE  i = j
  <2>1. i + 1 = j + 1
    BY <1>1, <1>3, <1>7
  <2> QED
    BY <1>1, <2>1
<1> QED
  BY <1>1, <1>5, <1>6, <1>7 DEF ToSet

-----------------------------------------------------------------------------
(***************************************************************************)
(* Reading the file                                                        *)
(***************************************************************************)

\* What is kept of a file with at most one row of a cell that can be read: its whole
\* successes, one of a cell.  A row cut after the seed passes for one of them.
LEMMA KeptOfFile ==
  ASSUME file \in Seq(Rows), OneRowPerCell, \A i \in DOMAIN file : Earned(file[i]),
         \A row \in ToSet(file) : ~ Raises(row)
  PROVE  /\ KeptRows \in Seq(Rows)
         /\ OneEach(KeptRows)
         /\ \A k \in DOMAIN KeptRows :
              KeptRows[k].cut = "whole" /\ ~ KeptRows[k].error /\ Earned(KeptRows[k])
         /\ \A i \in DOMAIN file :
              file[i].cut = "whole" /\ ~ file[i].error => file[i] \in ToSet(KeptRows)
<1> DEFINE readable == {row \in ToSet(file) : ~ Dropped(row)}
           rows     == Filter(file, readable)
           existing == ReadExistingRuns
           good     == {row \in ToSet(existing) : ~ row.error}
<1>1. /\ rows \in Seq(Rows)
      /\ \E e : Picks(e, rows, file, readable, Len(file))
  <2> HIDE DEF readable
  <2> QED
    BY FilterPicks
<1>2. PICK d : Picks(d, rows, file, readable, Len(file))
  BY <1>1
<1>3. /\ Len(file) \in Nat /\ DOMAIN file = 1 .. Len(file)
      /\ Len(rows) \in Nat /\ DOMAIN rows = 1 .. Len(rows)
  BY <1>1
<1>4. /\ \A k \in DOMAIN rows : /\ d[k] \in DOMAIN file /\ rows[k] = file[d[k]]
                               /\ ~ Dropped(file[d[k]]) /\ ~ Raises(file[d[k]])
      /\ \A k, m \in DOMAIN rows : k < m => d[k] < d[m]
      /\ \A i \in DOMAIN file : ~ Dropped(file[i]) => \E k \in DOMAIN rows : d[k] = i
  BY <1>2, <1>3 DEF Picks, ToSet
<1> HIDE DEF rows, readable
<1>5. /\ existing = [k \in DOMAIN rows |-> Parsed(rows[k])]
      /\ existing \in Seq(Rows) /\ Len(existing) = Len(rows)
  <2>1. existing = [k \in DOMAIN rows |-> Parsed(rows[k])]
    BY DEF ReadExistingRuns, rows, readable
  <2>2. \A k \in DOMAIN rows : Parsed(rows[k]) \in Rows
    <3> SUFFICES ASSUME NEW k \in DOMAIN rows PROVE Parsed(rows[k]) \in Rows
      OBVIOUS
    <3>1. rows[k] \in Rows
      BY <1>1, <1>3
    <3> QED
      BY <3>1 DEF Parsed, Rows
  <2> QED
    BY <2>1, <2>2, <1>3
<1> HIDE DEF existing
<1>6. \A k \in DOMAIN existing :
        /\ d[k] \in DOMAIN file
        /\ existing[k].cell = file[d[k]].cell /\ existing[k].run = file[d[k]].run
        /\ existing[k].cut = "whole"
        /\ file[d[k]].cut = "whole" => existing[k] = file[d[k]]
  <2> SUFFICES ASSUME NEW k \in DOMAIN rows
               PROVE  /\ d[k] \in DOMAIN file
                      /\ existing[k].cell = file[d[k]].cell /\ existing[k].run = file[d[k]].run
                      /\ existing[k].cut = "whole"
                      /\ file[d[k]].cut = "whole" => existing[k] = file[d[k]]
    BY <1>5
  <2>1. file[d[k]] \in Rows
    BY <1>3, <1>4
  <2>2. existing[k] = Parsed(file[d[k]])
    BY <1>4, <1>5
  <2>3. file[d[k]].cut \in {"whole", "afterSeed"}
    BY <1>4, <2>1 DEF Rows, Cuts, Dropped, Raises
  <2> QED
    BY <1>4, <2>1, <2>2, <2>3 DEF Parsed, Rows
<1>7. /\ KeptRows \in Seq(Rows)
      /\ \E e : Picks(e, KeptRows, existing, good, Len(existing))
  <2>1. KeptRows = Filter(existing, good)
    BY DEF KeptRows, existing
  <2> HIDE DEF good
  <2> QED
    BY <1>5, <2>1, FilterPicks
<1>8. PICK e : Picks(e, KeptRows, existing, good, Len(existing))
  BY <1>7
<1> DEFINE kr == KeptRows
<1>9. /\ Len(kr) \in Nat /\ DOMAIN kr = 1 .. Len(kr)
      /\ Len(existing) \in Nat /\ DOMAIN existing = 1 .. Len(existing)
  BY <1>5, <1>7
<1>10. /\ \A k \in DOMAIN kr : e[k] \in DOMAIN existing /\ kr[k] = existing[e[k]] /\ ~ kr[k].error
       /\ \A k, m \in DOMAIN kr : k < m => e[k] < e[m]
       /\ \A i \in DOMAIN existing : ~ existing[i].error => \E k \in DOMAIN kr : e[k] = i
  BY <1>8, <1>9 DEF Picks, ToSet
<1>11. OneEach(kr)
  <2> SUFFICES ASSUME NEW k \in DOMAIN kr, NEW m \in DOMAIN kr, kr[k].cell = kr[m].cell,
                      k < m
               PROVE  FALSE
    BY <1>9 DEF OneEach
  <2>1. e[k] < e[m] /\ e[k] \in DOMAIN existing /\ e[m] \in DOMAIN existing
    BY <1>10
  <2>2. d[e[k]] < d[e[m]] /\ d[e[k]] \in DOMAIN file /\ d[e[m]] \in DOMAIN file
    BY <2>1, <1>3, <1>4, <1>5, <1>9
  <2>3. file[d[e[k]]].cell = file[d[e[m]]].cell
    BY <2>1, <1>6, <1>10
  <2> QED
    BY <2>2, <2>3, <1>3 DEF OneRowPerCell
<1>12. \A k \in DOMAIN kr : kr[k].cut = "whole" /\ ~ kr[k].error /\ Earned(kr[k])
  BY <1>6, <1>10 DEF Earned
<1>13. ASSUME NEW i \in DOMAIN file, file[i].cut = "whole", ~ file[i].error
       PROVE  file[i] \in ToSet(kr)
  <2>1. ~ Dropped(file[i])
    BY <1>13 DEF Dropped
  <2>2. PICK k \in DOMAIN rows : d[k] = i
    BY <2>1, <1>4
  <2>3. k \in DOMAIN existing /\ existing[k] = file[i]
    BY <2>2, <1>3, <1>5, <1>6, <1>9, <1>13
  <2>4. PICK m \in DOMAIN kr : e[m] = k
    BY <2>3, <1>10, <1>13
  <2> QED
    BY <2>3, <2>4, <1>10 DEF ToSet
<1> QED
  BY <1>7, <1>11, <1>12, <1>13

-----------------------------------------------------------------------------
(***************************************************************************)
(* The steps                                                               *)
(***************************************************************************)

\* A cell is of a list of rows when one of them is of it.
LEMMA CellsAre == \A rows, c : c \in CellsOf(rows) <=> \E i \in DOMAIN rows : rows[i].cell = c
  BY DEF CellsOf, ToSet

\* A row of a cell that has none is added to the file.
LEMMA RowAdded ==
  ASSUME file \in Seq(Rows), OneRowPerCell, NEW row \in Rows, row.cell \notin CellsOf(file),
         file' = Append(file, row)
  PROVE  /\ file' \in Seq(Rows) /\ Len(file) \in Nat /\ Len(file') = Len(file) + 1
         /\ DOMAIN file' = 1 .. Len(file) + 1 /\ DOMAIN file = 1 .. Len(file)
         /\ file'[Len(file) + 1] = row
         /\ \A i \in DOMAIN file : file'[i] = file[i]
         /\ OneRowPerCell'
         /\ \A c : c \in CellsOf(file') <=> c \in CellsOf(file) \/ c = row.cell
<1>1. /\ file' \in Seq(Rows) /\ Len(file) \in Nat /\ Len(file') = Len(file) + 1
      /\ DOMAIN file' = 1 .. Len(file) + 1 /\ DOMAIN file = 1 .. Len(file)
      /\ file'[Len(file) + 1] = row
      /\ \A i \in DOMAIN file : file'[i] = file[i]
  BY OneMore
<1>2. \A i \in DOMAIN file' : i \in DOMAIN file \/ i = Len(file) + 1
  BY <1>1
<1>3. \A i \in DOMAIN file : file[i].cell # row.cell
  BY CellsAre
<1>4. ASSUME NEW i \in DOMAIN file', NEW j \in DOMAIN file', file'[i].cell = file'[j].cell
      PROVE  i = j
  BY <1>1, <1>2, <1>3, <1>4 DEF OneRowPerCell
<1>5. ASSUME NEW c PROVE c \in CellsOf(file') <=> c \in CellsOf(file) \/ c = row.cell
  <2>1. ASSUME c \in CellsOf(file') PROVE c \in CellsOf(file) \/ c = row.cell
    <3>1. PICK i \in DOMAIN file' : file'[i].cell = c
      BY <2>1, CellsAre
    <3> QED
      BY <3>1, <1>1, <1>2, CellsAre
  <2>2. ASSUME c \in CellsOf(file) PROVE c \in CellsOf(file')
    <3>1. PICK i \in DOMAIN file : file[i].cell = c
      BY <2>2, CellsAre
    <3>2. i \in DOMAIN file' /\ file'[i].cell = c
      BY <3>1, <1>1
    <3> QED
      BY <3>2, CellsAre
  <2>3. row.cell \in CellsOf(file')
    <3>1. Len(file) + 1 \in DOMAIN file'
      BY <1>1
    <3> QED
      BY <1>1, <3>1, CellsAre
  <2> QED
    BY <2>1, <2>2, <2>3
<1> QED
  BY <1>1, <1>4, <1>5 DEF OneRowPerCell

\* Before the first invocation there is no file.
LEMMA BatchInit == Init => BatchInv
  BY DEF Init, BatchInv, BatchTypeOK, EarnedInv, KeptInv, OneEach, CellsOf, ToSet, FileInv,
         OneRowPerCell, Laid, ProgressInv

\* The file and what is kept of it when a process starts.
LEMMA InvokeKeeps ==
  ASSUME BatchInv, NEW m \in Matrices, NEW resume \in BOOLEAN, Invoke(m, resume)
  PROVE  BatchInv'
<1> USE DEF BatchInv
<1>1. m \in Seq(Cells) /\ \A i, j \in DOMAIN m : m[i] = m[j] => i = j
  BY BatchAssumption DEF IsInjective
<1>2. /\ pc = "idle" /\ pc' = "loaded" /\ matrix' = m /\ resumed' = resume /\ todo' = m
      /\ ended' = "never" /\ before' = file
      /\ UNCHANGED <<file, ready, executions>>
      /\ resume => \A row \in ToSet(file) : ~ Raises(row)
      /\ kept' = IF resume THEN KeptRows ELSE <<>>
      /\ skip' = IF resume THEN SkipCells(KeptRows) ELSE {}
  BY DEF Invoke, MayStart
<1>3. ~ Laid'
  BY <1>2 DEF Laid
<1>4. /\ kept' \in Seq(Rows)
      /\ OneEach(kept')
      /\ \A k \in DOMAIN kept' :
           kept'[k].cut = "whole" /\ ~ kept'[k].error /\ Earned(kept'[k])
      /\ skip' = CellsOf(kept')
      /\ resume => \A i \in DOMAIN file :
           file[i].cut = "whole" /\ ~ file[i].error => file[i] \in ToSet(kept')
  <2>1. CASE resume
    <3>1. kept' = KeptRows /\ skip' = CellsOf(KeptRows)
      BY <1>2, <2>1 DEF SkipCells, CellsOf
    <3> QED
      BY <1>2, <2>1, <3>1, KeptOfFile DEF BatchTypeOK, EarnedInv, FileInv
  <2>2. CASE ~ resume
    <3>1. kept' = <<>> /\ skip' = {}
      BY <1>2, <2>2
    <3> QED
      BY <2>2, <3>1 DEF OneEach, CellsOf, ToSet
  <2> QED
    BY <2>1, <2>2
<1>5. BatchTypeOK'
  BY <1>1, <1>2, <1>4 DEF BatchTypeOK
<1>6. EarnedInv'
  BY <1>2, <1>4 DEF EarnedInv, Earned
<1>7. KeptInv'
  BY <1>2, <1>4 DEF KeptInv
<1>8. FileInv'
  BY <1>2, <1>3 DEF FileInv, OneRowPerCell
<1>9. ProgressInv'
  BY <1>1, <1>2, <1>3 DEF ProgressInv
<1> QED
  BY <1>5, <1>6, <1>7, <1>8, <1>9

\* Nobody is running when the file cannot be read, and what is there stays.
LEMMA RaisesKeeps == ASSUME BatchInv, ResumeRaises PROVE BatchInv'
<1> USE DEF BatchInv, ResumeRaises, MayStart
<1>1. ~ Laid'
  BY DEF Laid
<1>2. BatchTypeOK'
  BY DEF BatchTypeOK
<1>3. EarnedInv'
  BY DEF EarnedInv, Earned
<1>4. KeptInv'
  BY DEF KeptInv
<1>5. FileInv'
  BY <1>1 DEF FileInv, OneRowPerCell
<1>6. ProgressInv'
  BY <1>1 DEF ProgressInv
<1> QED
  BY <1>2, <1>3, <1>4, <1>5, <1>6

\* Opening the file leaves it empty: everything is still to be written or done.
LEMMA OpenKeeps == ASSUME BatchInv, OpenFile PROVE BatchInv'
<1> USE DEF BatchInv, OpenFile, request
<1>1. BatchTypeOK'
  BY DEF BatchTypeOK
<1>2. EarnedInv'
  BY DEF EarnedInv, Earned
<1>3. KeptInv'
  BY DEF KeptInv
<1>4. FileInv'
  BY DEF FileInv, OneRowPerCell
<1>5. ProgressInv'
  BY DEF ProgressInv, Laid
<1> QED
  BY <1>1, <1>2, <1>3, <1>4, <1>5

\* One more row that was kept: its cell has none in the file yet.
LEMMA PreservedKeeps == ASSUME BatchInv, WritePreserved PROVE BatchInv'
<1> USE DEF BatchInv
<1> DEFINE row == kept[Len(file) + 1]
<1>1. /\ pc = "writing" /\ Len(file) < Len(kept) /\ file' = Append(file, row)
      /\ UNCHANGED <<pc, matrix, resumed, before, kept, skip, todo, ready, ended, executions>>
  BY DEF WritePreserved, request
<1>2. /\ Len(file) \in Nat /\ Len(kept) \in Nat
      /\ DOMAIN file = 1 .. Len(file) /\ DOMAIN kept = 1 .. Len(kept)
      /\ Len(file) + 1 \in DOMAIN kept /\ row \in Rows
  BY <1>1 DEF BatchTypeOK
<1>3. \A i \in DOMAIN file : i \in DOMAIN kept /\ i # Len(file) + 1 /\ file[i] = kept[i]
  BY <1>1, <1>2 DEF FileInv, Laid
<1>4. row.cell \notin CellsOf(file)
  BY <1>2, <1>3, CellsAre DEF KeptInv, OneEach
<1>5. /\ file' \in Seq(Rows) /\ Len(file') = Len(file) + 1
      /\ DOMAIN file' = 1 .. Len(file) + 1
      /\ file'[Len(file) + 1] = row
      /\ \A i \in DOMAIN file : file'[i] = file[i]
      /\ OneRowPerCell'
      /\ \A c : c \in CellsOf(file') <=> c \in CellsOf(file) \/ c = row.cell
  <2> HIDE DEF row
  <2> QED
    BY <1>1, <1>2, <1>4, RowAdded DEF BatchTypeOK, FileInv
<1>6. \A i \in DOMAIN file' : file'[i] = kept[i] /\ i <= Len(kept) /\ i \in DOMAIN kept
  <2> SUFFICES ASSUME NEW i \in DOMAIN file'
               PROVE  file'[i] = kept[i] /\ i <= Len(kept) /\ i \in DOMAIN kept
    OBVIOUS
  <2>1. CASE i = Len(file) + 1
    BY <1>1, <1>2, <1>5, <2>1
  <2>2. CASE i \in DOMAIN file
    BY <1>2, <1>3, <1>5, <2>2
  <2> QED
    BY <1>2, <1>5, <2>1, <2>2
<1>7. BatchTypeOK'
  BY <1>1, <1>5 DEF BatchTypeOK
<1>8. EarnedInv'
  BY <1>1, <1>6 DEF EarnedInv, Earned
<1>9. KeptInv'
  BY <1>1 DEF KeptInv
<1>10. FileInv'
  <2>1. \A i \in DOMAIN file' : ~ (i > Len(kept))
    BY <1>2, <1>5, <1>6
  <2> QED
    BY <1>1, <1>5, <1>6, <2>1 DEF FileInv
<1>11. ProgressInv'
  BY <1>1, <1>5 DEF ProgressInv, Laid
<1> QED
  BY <1>7, <1>8, <1>9, <1>10, <1>11

\* A cell that was kept is passed over.
LEMMA SkipKeeps == ASSUME BatchInv, SkipCell PROVE BatchInv'
<1> USE DEF BatchInv
<1>1. /\ pc = "writing" /\ todo # <<>> /\ Head(todo) \in skip /\ todo' = Tail(todo)
      /\ UNCHANGED <<file, pc, matrix, resumed, before, kept, skip, ready, ended, executions>>
  BY DEF SkipCell, Generating, request
<1>2. /\ todo' \in Seq(Cells)
      /\ ToSet(todo') = ToSet(todo) \ {Head(todo)}
      /\ \A i, j \in DOMAIN todo' : todo'[i] = todo'[j] => i = j
  BY <1>1, TakeFirst, FirstAndRest DEF BatchTypeOK, ProgressInv
<1>3. \A row : OfThisInvocation(row) => OfThisInvocation(row)'
  BY <1>1, <1>2 DEF OfThisInvocation
<1>4. BatchTypeOK'
  BY <1>1, <1>2 DEF BatchTypeOK
<1>5. EarnedInv'
  BY <1>1 DEF EarnedInv, Earned
<1>6. KeptInv'
  BY <1>1 DEF KeptInv
<1>7. FileInv'
  <2>1. \A i \in DOMAIN file : OfThisInvocation(file[i]) => OfThisInvocation(file[i])'
    BY <1>1, <1>2 DEF OfThisInvocation
  <2> QED
    BY <1>1, <2>1 DEF FileInv, Laid, OneRowPerCell
<1>8. ProgressInv'
  <2>1. ended # "finished"
    BY <1>1 DEF ProgressInv
  <2> QED
    BY <1>1, <1>2, <2>1 DEF ProgressInv, Laid
<1> QED
  BY <1>4, <1>5, <1>6, <1>7, <1>8

\* A cell is run: its row is later than any that was found of it.
LEMMA RunKeeps == ASSUME BatchInv, RunCell PROVE BatchInv'
<1> USE DEF BatchInv
<1> DEFINE c == Head(todo)
<1>1. /\ pc = "writing" /\ todo # <<>> /\ c \notin skip /\ todo' = Tail(todo)
      /\ Len(file) >= Len(kept)
      /\ executions' = [executions EXCEPT ![c] = @ + 1]
      /\ pc' = "rowReady"
      /\ UNCHANGED <<file, matrix, resumed, before, kept, skip, ended>>
  BY DEF RunCell, Generating, request
<1>2. PICK failed \in BOOLEAN :
        ready' = [cell |-> c, run |-> executions'[c], error |-> failed, cut |-> "whole"]
  BY DEF RunCell
<1>3. /\ todo' \in Seq(Cells) /\ c \in Cells
      /\ c \in ToSet(todo) /\ ToSet(todo') = ToSet(todo) \ {c}
      /\ \A i, j \in DOMAIN todo' : todo'[i] = todo'[j] => i = j
  BY <1>1, TakeFirst, FirstAndRest DEF BatchTypeOK, ProgressInv
<1> HIDE DEF c
<1>4. /\ executions' \in [Cells -> Nat]
      /\ executions'[c] = executions[c] + 1 /\ executions[c] \in Nat
      /\ \A d \in Cells : executions[d] <= executions'[d] /\ executions'[d] \in Nat
                         /\ executions[d] \in Nat
  BY <1>1, <1>3 DEF BatchTypeOK
<1>5. /\ ready' \in Rows /\ ready'.cell = c /\ ready'.run = executions'[c]
      /\ ready'.cut = "whole"
  BY <1>2, <1>3, <1>4 DEF Rows
<1>6. /\ \A i \in DOMAIN file : file[i] \in Rows
      /\ \A i \in DOMAIN kept : kept[i] \in Rows
      /\ \A i \in DOMAIN before : before[i] \in Rows
  BY DEF BatchTypeOK
<1>7. \A row \in Rows : Earned(row) => Earned(row)'
  BY <1>4 DEF Earned, Rows
<1>8. BatchTypeOK'
  BY <1>1, <1>3, <1>4, <1>5 DEF BatchTypeOK
<1>9. EarnedInv'
  <2>1. /\ \A i \in DOMAIN file : Earned(file[i])'
        /\ \A i \in DOMAIN kept : Earned(kept[i])'
        /\ \A i \in DOMAIN before : Earned(before[i])'
    BY <1>1, <1>4, <1>6 DEF EarnedInv, Earned, Rows
  <2>2. Earned(ready)'
    BY <1>4, <1>5 DEF Earned
  <2> QED
    BY <1>1, <2>1, <2>2 DEF EarnedInv
<1>10. KeptInv'
  BY <1>1 DEF KeptInv
<1>11. \A i \in DOMAIN file : OfThisInvocation(file[i]) => OfThisInvocation(file[i])'
  BY <1>1, <1>3 DEF OfThisInvocation
<1>12. FileInv'
  BY <1>1, <1>11 DEF FileInv, Laid, OneRowPerCell
<1>13. OfThisInvocation(ready)'
  <2>1. \A i \in DOMAIN before : before[i].cell = c => before[i].run < ready'.run
    BY <1>4, <1>5, <1>6 DEF EarnedInv, Earned, Rows
  <2>2. c \in ToSet(matrix) /\ c \notin skip /\ c \notin ToSet(todo')
    BY <1>1, <1>3 DEF ProgressInv
  <2> QED
    BY <1>1, <1>5, <2>1, <2>2 DEF OfThisInvocation
<1>14. c \notin CellsOf(file)
  <2> SUFFICES ASSUME NEW i \in DOMAIN file PROVE file[i].cell # c
    BY CellsAre
  <2>1. /\ i <= Len(kept) => file[i] = kept[i]
        /\ i > Len(kept) => OfThisInvocation(file[i])
    BY <1>1 DEF FileInv, Laid
  <2>2. i \in Nat /\ Len(kept) \in Nat /\ DOMAIN kept = 1 .. Len(kept) /\ DOMAIN file = 1 .. Len(file)
    BY DEF BatchTypeOK
  <2>3. CASE i <= Len(kept)
    <3>1. i \in DOMAIN kept
      BY <2>2, <2>3
    <3>2. file[i].cell \in skip
      BY <2>1, <2>3, <3>1, CellsAre DEF KeptInv
    <3> QED
      BY <1>1, <3>2
  <2>4. CASE i > Len(kept)
    BY <2>1, <2>4, <1>3 DEF OfThisInvocation
  <2> QED
    BY <2>2, <2>3, <2>4
<1>15. ProgressInv'
  <2>1. ended # "finished"
    BY <1>1 DEF ProgressInv
  <2>2. \A d \in ToSet(matrix) : d \in ToSet(todo') \cup skip \cup CellsOf(file) \/ d = ready'.cell
    BY <1>1, <1>3, <1>5 DEF ProgressInv, Laid
  <2> QED
    BY <1>1, <1>3, <1>5, <1>13, <1>14, <2>1, <2>2 DEF ProgressInv, Laid
<1> QED
  BY <1>8, <1>9, <1>10, <1>12, <1>15

\* The row that was waiting is written.
LEMMA WriteRowKeeps == ASSUME BatchInv, WriteRow PROVE BatchInv'
<1> USE DEF BatchInv
<1>1. /\ pc = "rowReady" /\ pc' = "writing" /\ file' = Append(file, ready)
      /\ UNCHANGED <<matrix, resumed, before, kept, skip, todo, ended, executions>>
  BY DEF WriteRow, request
<1>2. ready \in Rows /\ ready.cell \notin CellsOf(file) /\ OfThisInvocation(ready)
      /\ Len(file) >= Len(kept) /\ ended = "never"
  BY <1>1 DEF BatchTypeOK, ProgressInv
<1>3. /\ file' \in Seq(Rows) /\ Len(file) \in Nat /\ Len(file') = Len(file) + 1
      /\ DOMAIN file' = 1 .. Len(file) + 1 /\ DOMAIN file = 1 .. Len(file)
      /\ file'[Len(file) + 1] = ready
      /\ \A i \in DOMAIN file : file'[i] = file[i]
      /\ OneRowPerCell'
      /\ \A c : c \in CellsOf(file') <=> c \in CellsOf(file) \/ c = ready.cell
  BY <1>1, <1>2, RowAdded DEF BatchTypeOK, FileInv
<1>4. Len(kept) \in Nat
  BY DEF BatchTypeOK
<1>5. BatchTypeOK'
  BY <1>1, <1>3 DEF BatchTypeOK
<1>6. \A i \in DOMAIN file' : i \in DOMAIN file \/ i = Len(file) + 1
  BY <1>3
<1>7. EarnedInv'
  BY <1>1, <1>3, <1>6 DEF EarnedInv, Earned
<1>8. KeptInv'
  BY <1>1 DEF KeptInv
<1>9. FileInv'
  <2> SUFFICES ASSUME NEW i \in DOMAIN file'
               PROVE  /\ i <= Len(kept) => file'[i] = kept[i]
                      /\ i > Len(kept) => OfThisInvocation(file[i])'
    BY <1>1, <1>3 DEF FileInv
  <2>1. CASE i \in DOMAIN file
    BY <1>1, <1>3, <2>1 DEF FileInv, Laid, OfThisInvocation
  <2>2. CASE i = Len(file) + 1
    BY <1>1, <1>2, <1>3, <1>4, <2>2 DEF OfThisInvocation
  <2> QED
    BY <1>6, <2>1, <2>2
<1>10. ProgressInv'
  BY <1>1, <1>2, <1>3 DEF ProgressInv, Laid
<1> QED
  BY <1>5, <1>7, <1>8, <1>9, <1>10

\* The batch comes to its end.
LEMMA FinishKeeps == ASSUME BatchInv, Finish PROVE BatchInv'
<1> USE DEF BatchInv
<1>1. /\ pc = "writing" /\ Len(file) >= Len(kept) /\ todo = <<>>
      /\ pc' = "idle" /\ ended' = "finished"
      /\ UNCHANGED <<file, matrix, resumed, before, kept, skip, todo, ready, executions>>
  BY DEF Finish, Generating, request
<1>2. BatchTypeOK'
  BY <1>1 DEF BatchTypeOK
<1>3. EarnedInv'
  BY <1>1 DEF EarnedInv, Earned
<1>4. KeptInv'
  <2>1. ended = "never"
    BY <1>1 DEF ProgressInv
  <2> QED
    BY <1>1, <2>1 DEF KeptInv
<1>5. FileInv'
  BY <1>1 DEF FileInv, Laid, OneRowPerCell, OfThisInvocation
<1>6. ProgressInv'
  BY <1>1 DEF ProgressInv, Laid
<1> QED
  BY <1>2, <1>3, <1>4, <1>5, <1>6

\* The process dies: what it was writing is a row of a cell that has none.
LEMMA CrashKeeps == ASSUME BatchInv, Crash PROVE BatchInv'
<1> USE DEF BatchInv
<1>1. /\ pc # "idle" /\ pc' = "idle" /\ ended' = "crashed"
      /\ UNCHANGED <<matrix, resumed, before, kept, skip, todo, executions>>
  BY DEF Crash, request
<1>2. ~ Laid'
  BY <1>1 DEF Laid
<1>3. KeptInv'
  <2>1. ended = "never"
    BY <1>1 DEF ProgressInv
  <2> QED
    BY <1>1, <2>1 DEF KeptInv
<1>4. ProgressInv'
  BY <1>1, <1>2 DEF ProgressInv
<1> DEFINE Sound == /\ file' \in Seq(Rows)
                    /\ OneRowPerCell'
                    /\ \A i \in DOMAIN file' : Earned(file'[i])
<1>5. Sound
  <2>0. \/ UNCHANGED file
        \/ \E row \in BeingWritten, cut \in Cuts : file' = Append(file, [row EXCEPT !.cut = cut])
    BY DEF Crash
  <2>1. CASE UNCHANGED file
    BY <2>1 DEF BatchTypeOK, FileInv, OneRowPerCell, EarnedInv
  <2>2. ASSUME NEW row \in BeingWritten, NEW cut \in Cuts,
               file' = Append(file, [row EXCEPT !.cut = cut])
        PROVE  Sound
    <3> DEFINE torn == [row EXCEPT !.cut = cut]
    <3>1. row \in Rows /\ row.cell \notin CellsOf(file) /\ Earned(row)
      <4>1. CASE pc = "rowReady"
        BY <4>1 DEF BeingWritten, BatchTypeOK, ProgressInv, EarnedInv
      <4>2. CASE pc = "writing" /\ Len(file) < Len(kept)
        <5>1. row = kept[Len(file) + 1]
          BY <4>2 DEF BeingWritten
        <5>2. /\ Len(file) \in Nat /\ Len(kept) \in Nat
              /\ DOMAIN file = 1 .. Len(file) /\ DOMAIN kept = 1 .. Len(kept)
              /\ Len(file) + 1 \in DOMAIN kept /\ row \in Rows
          BY <4>2, <5>1 DEF BatchTypeOK
        <5>3. \A i \in DOMAIN file : i \in DOMAIN kept /\ i # Len(file) + 1 /\ file[i] = kept[i]
          BY <4>2, <5>2 DEF FileInv, Laid
        <5> QED
          BY <5>1, <5>2, <5>3, CellsAre DEF KeptInv, OneEach, EarnedInv
      <4>3. CASE ~ (pc = "rowReady") /\ ~ (pc = "writing" /\ Len(file) < Len(kept))
        BY <4>3 DEF BeingWritten
      <4> QED
        BY <4>1, <4>2, <4>3
    <3>2. torn \in Rows /\ torn.cell = row.cell /\ torn.run = row.run
      BY <3>1 DEF Rows
    <3>3. file' = Append(file, torn)
      BY <2>2
    <3> HIDE DEF torn
    <3>4. /\ file' \in Seq(Rows) /\ OneRowPerCell'
          /\ DOMAIN file' = 1 .. Len(file) + 1 /\ DOMAIN file = 1 .. Len(file) /\ Len(file) \in Nat
          /\ file'[Len(file) + 1] = torn
          /\ \A i \in DOMAIN file : file'[i] = file[i]
      BY <3>1, <3>2, <3>3, RowAdded DEF BatchTypeOK, FileInv
    <3>5. Earned(torn) /\ \A i \in DOMAIN file : Earned(file[i])
      BY <3>1, <3>2 DEF Earned, EarnedInv
    <3>6. \A i \in DOMAIN file' : i \in DOMAIN file \/ i = Len(file) + 1
      BY <3>4
    <3> QED
      BY <3>4, <3>5, <3>6
  <2> HIDE DEF Sound
  <2> QED
    BY <2>0, <2>1, <2>2
<1>6. BatchTypeOK'
  BY <1>1, <1>5 DEF BatchTypeOK
<1>7. EarnedInv'
  BY <1>1, <1>5 DEF EarnedInv, Earned
<1>8. FileInv'
  BY <1>2, <1>5 DEF FileInv
<1> QED
  BY <1>3, <1>4, <1>6, <1>7, <1>8

\* Nothing happens.
LEMMA BatchStutters == ASSUME BatchInv, UNCHANGED vars PROVE BatchInv'
  BY DEF BatchInv, vars, BatchTypeOK, EarnedInv, Earned, KeptInv, FileInv, OneRowPerCell,
         Laid, ProgressInv, OfThisInvocation

\* Every step of the batch keeps the invariant.
LEMMA BatchStep == ASSUME BatchInv, [Next]_vars PROVE BatchInv'
<1>1. CASE \E m \in Matrices, resume \in BOOLEAN : Invoke(m, resume)
  BY <1>1, InvokeKeeps
<1>2. CASE ResumeRaises
  BY <1>2, RaisesKeeps
<1>3. CASE Steps
  BY <1>3, OpenKeeps, PreservedKeeps, SkipKeeps, RunKeeps, WriteRowKeeps, FinishKeeps DEF Steps
<1>4. CASE Crash
  BY <1>4, CrashKeeps
<1>5. CASE Over \/ UNCHANGED vars
  BY <1>5, BatchStutters DEF Over
<1> QED
  BY <1>1, <1>2, <1>3, <1>4, <1>5 DEF Next

-----------------------------------------------------------------------------
(***************************************************************************)
(* Theorems                                                                *)
(***************************************************************************)

\* The inductive invariant of the batch: what is kept, what the file has of it and
\* of this invocation, and what is still to be done, whatever crashes and restarts.
THEOREM BatchInvariant == Spec => []BatchInv
<1>1. Init => BatchInv
  BY BatchInit
<1>2. BatchInv /\ [Next]_vars => BatchInv'
  BY BatchStep
<1> QED
  BY <1>1, <1>2, PTL DEF Spec

\* No cell ever has two rows in runs.csv.
THEOREM OneRowEach == Spec => []OneRowPerCell
<1>1. BatchInv => OneRowPerCell
  BY DEF BatchInv, FileInv
<1> QED
  BY <1>1, BatchInvariant, PTL

\* An invocation that comes to its end leaves the rows it was asked for and those it
\* kept, each of them whole.
THEOREM EndIsComplete == Spec => []FinishedIsComplete
<1>1. ASSUME BatchInv, ended = "finished"
      PROVE  /\ CellsOf(file) = ToSet(matrix) \cup CellsOf(kept)
             /\ \A row \in ToSet(file) : row.cut = "whole"
  <2> USE <1>1 DEF BatchInv
  <2>1. /\ pc = "idle" /\ todo = <<>> /\ Len(file) >= Len(kept) /\ Laid
        /\ skip = CellsOf(kept)
    BY DEF ProgressInv, Laid, KeptInv
  <2>2. /\ Len(file) \in Nat /\ Len(kept) \in Nat
        /\ DOMAIN file = 1 .. Len(file) /\ DOMAIN kept = 1 .. Len(kept)
    BY DEF BatchTypeOK
  <2>3. \A i \in DOMAIN file :
          /\ i \in DOMAIN kept => file[i] = kept[i]
          /\ i \notin DOMAIN kept => OfThisInvocation(file[i])
    BY <2>1, <2>2 DEF FileInv
  <2>4. \A i \in DOMAIN kept : i \in DOMAIN file
    BY <2>1, <2>2
  <2>5. ASSUME NEW c \in CellsOf(file) PROVE c \in ToSet(matrix) \cup CellsOf(kept)
    <3>1. PICK i \in DOMAIN file : file[i].cell = c
      BY CellsAre
    <3> QED
      BY <2>3, <3>1, CellsAre DEF OfThisInvocation
  <2>6. ASSUME NEW c \in CellsOf(kept) PROVE c \in CellsOf(file)
    <3>1. PICK i \in DOMAIN kept : kept[i].cell = c
      BY CellsAre
    <3> QED
      BY <2>3, <2>4, <3>1, CellsAre
  <2>7. ASSUME NEW c \in ToSet(matrix) PROVE c \in CellsOf(file)
    <3>1. c \notin ToSet(todo)
      BY <2>1 DEF ToSet
    <3> QED
      BY <2>1, <2>6, <3>1 DEF ProgressInv
  <2>8. ASSUME NEW i \in DOMAIN file PROVE file[i].cut = "whole"
    BY <2>3 DEF KeptInv, OfThisInvocation
  <2>9. CellsOf(file) = ToSet(matrix) \cup CellsOf(kept)
    BY <2>5, <2>6, <2>7
  <2> QED
    BY <2>8, <2>9 DEF ToSet
<1>2. BatchInv => FinishedIsComplete
  BY <1>1 DEF FinishedIsComplete
<1> QED
  BY <1>2, BatchInvariant, PTL

\* A resumed invocation that comes to its end has lost no success it found.
THEOREM ResultsSurvive == Spec => []ResultsSurviveResume
<1>1. ASSUME BatchInv, ended = "finished", resumed,
             NEW row \in ToSet(before), row.cut = "whole", ~ row.error
      PROVE  row \in ToSet(file)
  <2> USE <1>1 DEF BatchInv
  <2>1. PICK i \in DOMAIN before : before[i] = row
    BY DEF ToSet
  <2>2. PICK k \in DOMAIN kept : kept[k] = row
    BY <2>1 DEF KeptInv, ToSet
  <2>3. k \in DOMAIN file /\ k <= Len(kept)
    BY DEF ProgressInv, BatchTypeOK
  <2>4. file[k] = kept[k]
    BY <2>3 DEF FileInv, Laid
  <2> QED
    BY <2>2, <2>3, <2>4 DEF ToSet
<1>2. BatchInv => ResultsSurviveResume
  BY <1>1 DEF ResultsSurviveResume
<1> QED
  BY <1>2, BatchInvariant, PTL

\* The failures in the file of a finished invocation are its own.
THEOREM FailuresRetried == Spec => []FailuresAreRetried
<1>1. ASSUME BatchInv, ended = "finished", NEW row \in ToSet(file), row.error
      PROVE  row \notin ToSet(before)
  <2> USE <1>1 DEF BatchInv
  <2>1. PICK i \in DOMAIN file : file[i] = row
    BY DEF ToSet
  <2>2. /\ i <= Len(kept) => file[i] = kept[i]
        /\ i > Len(kept) => OfThisInvocation(file[i])
    BY <2>1 DEF FileInv, Laid
  <2>3. /\ i \in Nat /\ i > 0 /\ Len(kept) \in Nat /\ DOMAIN kept = 1 .. Len(kept)
        /\ row \in Rows
    BY <2>1 DEF BatchTypeOK
  <2>4. CASE i <= Len(kept)
    <3>1. i \in DOMAIN kept
      BY <2>3, <2>4
    <3> QED
      BY <2>1, <2>2, <2>4, <3>1 DEF KeptInv
  <2>5. CASE i > Len(kept)
    <3> SUFFICES ASSUME NEW j \in DOMAIN before, before[j] = row PROVE FALSE
      BY DEF ToSet
    <3>1. row.run < row.run
      BY <2>1, <2>2, <2>5 DEF OfThisInvocation
    <3> QED
      BY <2>3, <3>1 DEF Rows
  <2> QED
    BY <2>3, <2>4, <2>5
<1>2. BatchInv => FailuresAreRetried
  BY <1>1 DEF FailuresAreRetried
<1> QED
  BY <1>2, BatchInvariant, PTL

\* A success that was found is never run again by the invocation that found it.
THEOREM SuccessesStand == Spec => SuccessNotRerun
<1> DEFINE Stands == \A row \in ToSet(before) :
                       resumed /\ row.cut = "whole" /\ ~ row.error =>
                         executions'[row.cell] = executions[row.cell]
<1>1. ASSUME BatchInv, [Next]_vars PROVE Stands
  <2>1. CASE UNCHANGED executions
    BY <2>1
  <2>2. CASE RunCell
    <3> USE <2>2, <1>1 DEF BatchInv
    <3> SUFFICES ASSUME NEW i \in DOMAIN before, resumed,
                        before[i].cut = "whole", ~ before[i].error
                 PROVE  executions'[before[i].cell] = executions[before[i].cell]
      BY DEF ToSet
    <3>1. /\ pc = "writing" /\ Head(todo) \notin skip
          /\ executions' = [executions EXCEPT ![Head(todo)] = @ + 1]
      BY DEF RunCell, Generating
    <3>2. before[i] \in ToSet(kept)
      BY <3>1 DEF KeptInv, ProgressInv
    <3>3. before[i].cell \in skip
      BY <3>2 DEF KeptInv, CellsOf
    <3>4. executions \in [Cells -> Nat]
      BY DEF BatchTypeOK
    <3> QED
      BY <3>1, <3>3, <3>4
  <2>3. UNCHANGED executions \/ RunCell
    BY <1>1 DEF Next, Invoke, ResumeRaises, Steps, OpenFile, WritePreserved, SkipCell, WriteRow,
                Finish, Crash, Over, vars
  <2> QED
    BY <2>1, <2>2, <2>3
<1>2. BatchInv /\ [Next]_vars => [Stands]_vars
  BY <1>1
<1> HIDE DEF Stands
<1>3. Spec => [][Stands]_vars
  BY <1>2, BatchInvariant, PTL DEF Spec
<1> QED
  BY <1>3 DEF SuccessNotRerun, Stands

=============================================================================
