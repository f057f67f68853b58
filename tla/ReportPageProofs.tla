-------------------------- MODULE ReportPageProofs --------------------------
(***************************************************************************)
(* A page is never ahead of its data, its rows measure what they are       *)
(* explained to measure, their effects add up, script and page judge them  *)
(* alike, and all views count the same runs: whatever the rows of the      *)
(* batch are, however often the analysis is started, killed and started    *)
(* again while the page reads, and however often the batch is resumed.     *)
(***************************************************************************)
EXTENDS ReportPage, SequenceFacts

Written == {"contributions", "by_category", "plots", "report"}

Read == {"report", "contributions", "by_category", "runs"}

Tables == {"contributions", "by_category"}

Files == [state : {"missing", "torn", "whole"}, analysis : Nat, revision : Nat]

ReportTypeOK ==
  /\ history \in Seq(Range(history))
  /\ files \in [Written -> Files]
  /\ analyses \in Nat
  /\ script \in 0 .. 4
  /\ opened \in BOOLEAN
  /\ df \in 0 .. Len(history)
  /\ reader \in 0 .. 4
  /\ parts \in [Read -> Files]

\* A file is of an analysis that was started and of runs that were there.
Known(file) == file.analysis <= analyses /\ file.revision <= Len(history)

KnownInv ==
  /\ \A f \in Written : Known(files[f])
  /\ \A f \in Read : Known(parts[f])

\* What the running script has passed is whole and its own; what it has opened is torn.
ScriptInv ==
  /\ opened => script # 0 /\ files[WriteOrder[script]] = Torn
  /\ \A i \in 1 .. 4 : i < script => files[WriteOrder[i]] = File("whole", analyses, df)

\* A table that is not being written is there and at least as new as the report.
NotBehind(table, report) ==
  table # Torn => table.state = "whole" /\ report.analysis <= table.analysis

\* On disk, the report comes last.
DiskInv ==
  files["report"] # Missing =>
    /\ files["plots"] # Missing
    /\ \A t \in Tables : NotBehind(files[t], files["report"])

\* A page that has read the report has a whole one, and finds, or has read already,
\* tables that are not behind it.
PageInv ==
  /\ reader # 0 => page = "none" /\ files["report"] # Missing
  /\ reader > 1 => \A t \in Tables : NotBehind(files[t], parts["report"])
  /\ reader > 2 => NotBehind(parts["contributions"], parts["report"])
  /\ reader > 3 => NotBehind(parts["by_category"], parts["report"])
  /\ PageIsNeverAheadOfItsData

Inv == ReportTypeOK /\ KnownInv /\ ScriptInv /\ DiskInv /\ PageInv

-----------------------------------------------------------------------------

\* The two orders, file by file.
LEMMA Orders ==
  /\ Len(WriteOrder) = 4 /\ Range(WriteOrder) = Written
  /\ WriteOrder[1] = "contributions" /\ WriteOrder[2] = "by_category"
  /\ WriteOrder[3] = "plots" /\ WriteOrder[4] = "report"
  /\ Len(ReadOrder) = 4 /\ Range(ReadOrder) = Read
  /\ ReadOrder[1] = "report" /\ ReadOrder[2] = "contributions"
  /\ ReadOrder[3] = "by_category" /\ ReadOrder[4] = "runs"
<1>1. Range(WriteOrder) = Written
  BY DEF Range, WriteOrder, Written
<1>2. Range(ReadOrder) = Read
  BY DEF Range, ReadOrder, Read
<1>3. QED
  BY <1>1, <1>2 DEF WriteOrder, ReadOrder

\* The files a program makes are files.
LEMMA FilesMade ==
  /\ Missing \in Files /\ Torn \in Files /\ Missing # Torn
  /\ Missing.analysis = 0 /\ Missing.revision = 0 /\ Torn.analysis = 0 /\ Torn.revision = 0
  /\ \A n, r \in Nat : LET new == File("whole", n, r) IN
       /\ new \in Files /\ new # Missing /\ new # Torn
       /\ new.state = "whole" /\ new.analysis = n /\ new.revision = r
BY DEF Missing, Torn, File, Files

\* One more content of runs.csv.
LEMMA OneMoreContent ==
  ASSUME NEW h, h \in Seq(Range(h)), NEW new
  PROVE  Append(h, new) \in Seq(Range(Append(h, new))) /\ Len(Append(h, new)) = Len(h) + 1
<1> DEFINE after == Append(h, new)
<1>1. /\ h \in Seq(Range(h) \cup {new}) /\ new \in Range(h) \cup {new}
      /\ Len(h) \in Nat
  OBVIOUS
<1>2. after \in Seq(Range(h) \cup {new}) /\ Len(after) = Len(h) + 1
  BY <1>1
<1>3. \A i \in 1 .. Len(after) : after[i] \in Range(after)
  BY <1>2 DEF Range
<1>4. after \in Seq(Range(after))
  BY <1>2, <1>3
<1>5. QED
  BY <1>2, <1>4

\* Nothing is written and nothing read at the start.
LEMMA InitInv == Init => Inv
<1> SUFFICES ASSUME Init PROVE Inv
  OBVIOUS
<1>1. files = [f \in Written |-> Missing] /\ parts = [f \in Read |-> Missing]
  BY Orders DEF Init, NothingRead
<1>2. history \in Seq(Range(history)) /\ Len(history) \in Nat
  <2>1. PICK batch \in Batches : history = <<batch>>
    BY DEF Init
  <2>2. batch \in Range(history)
    BY <2>1 DEF Range
  <2>3. QED
    BY <2>1, <2>2
<1>3. ReportTypeOK
  <2>1. files \in [Written -> Files] /\ parts \in [Read -> Files]
    BY <1>1, FilesMade
  <2>2. /\ analyses \in Nat /\ script \in 0 .. 4
        /\ df \in 0 .. Len(history) /\ reader \in 0 .. 4
    BY <1>2 DEF Init
  <2>3. opened \in BOOLEAN
    BY Zenon DEF Init
  <2>4. QED
    BY <1>2, <2>1, <2>2, <2>3 DEF ReportTypeOK
<1>4. KnownInv
  BY <1>1, <1>2, FilesMade DEF Init, KnownInv, Known
<1>5. ScriptInv
  BY DEF Init, ScriptInv
<1>6. DiskInv
  BY <1>1 DEF DiskInv, Written
<1>7. PageInv
  BY DEF Init, PageInv, PageIsNeverAheadOfItsData, Shown
<1>8. QED
  BY <1>3, <1>4, <1>5, <1>6, <1>7 DEF Inv

\* The script replaces one file: a table by a torn one or one of its own analysis, the
\* report only when the tables are not behind it and the plots are there.
LEMMA WriteKeeps ==
  ASSUME Inv, NEW f \in Written, NEW new \in Files, new # Missing, Known(new),
         files' = [files EXCEPT ![f] = new],
         UNCHANGED <<history, analyses, df, reader, parts, page>>,
         f \in Tables => new = Torn \/ (new.state = "whole" /\ new.analysis = analyses),
         f = "report" => /\ files["plots"] # Missing
                         /\ \A t \in Tables : NotBehind(files[t], new)
  PROVE  KnownInv' /\ DiskInv' /\ PageInv'
<1>1. files \in [Written -> Files] /\ files'[f] = new /\ \A g \in Written \ {f} : files'[g] = files[g]
  BY DEF Inv, ReportTypeOK
<1>2. KnownInv'
  BY <1>1 DEF Inv, KnownInv, Known
<1>3. ASSUME NEW report \in Files, report.analysis <= analyses, NEW t \in Tables,
             NotBehind(files[t], report)
      PROVE  NotBehind(files'[t], report)
  <2>1. CASE f = t
    BY <1>1, <1>3, <2>1 DEF NotBehind
  <2>2. CASE f # t
    <3>1. files'[t] = files[t]
      BY <1>1, <2>2 DEF Tables, Written
    <3>2. QED
      BY <1>3, <3>1
  <2>3. QED
    BY <2>1, <2>2
<1>4. \A t \in Tables : t \in Written /\ t # "report"
  BY DEF Tables, Written
<1>5. DiskInv'
  <2>1. CASE f = "report"
    <3>1. files'["plots"] = files["plots"] /\ files'["report"] = new
      BY <1>1, <2>1 DEF Written
    <3>2. \A t \in Tables : files'[t] = files[t]
      BY <1>1, <1>4, <2>1
    <3>3. QED
      BY <2>1, <3>1, <3>2 DEF DiskInv
  <2>2. CASE f # "report"
    <3>1. files'["report"] = files["report"] /\ files["report"] \in Files
      BY <1>1, <2>2 DEF Written
    <3>2. files["report"].analysis <= analyses
      BY DEF Inv, KnownInv, Known, Written
    <3>3. files["report"] # Missing => files'["plots"] # Missing
      BY <1>1 DEF Inv, DiskInv, Written
    <3>4. files["report"] # Missing => \A t \in Tables : NotBehind(files'[t], files["report"])
      BY <1>3, <3>1, <3>2 DEF Inv, DiskInv
    <3>5. QED
      BY <3>1, <3>3, <3>4 DEF DiskInv
  <2>3. QED
    BY <2>1, <2>2
<1>6. PageInv'
  <2>1. files["report"] # Missing => files'["report"] # Missing
    BY <1>1 DEF Written
  <2>2. files["plots"] # Missing => files'["plots"] # Missing
    BY <1>1 DEF Written
  <2>3. parts["report"] \in Files /\ parts["report"].analysis <= analyses
    BY DEF Inv, ReportTypeOK, KnownInv, Known, Read
  <2>4. reader > 1 => \A t \in Tables : NotBehind(files'[t], parts["report"])
    BY <1>3, <2>3 DEF Inv, PageInv
  <2>5. PageIsNeverAheadOfItsData'
    BY <2>2 DEF Inv, PageInv, PageIsNeverAheadOfItsData, Shown
  <2>6. QED
    BY <2>1, <2>4, <2>5 DEF Inv, PageInv
<1>7. QED
  BY <1>2, <1>5, <1>6

\* Where the running script is, and what it has written.
LEMMA Behind ==
  ASSUME Inv, script # 0
  PROVE  /\ script \in 1 .. 4 /\ WriteOrder[script] \in Written
         /\ \A i \in 1 .. 4 : i # script => WriteOrder[i] # WriteOrder[script]
         /\ WriteOrder[script] = "report" =>
              /\ files["plots"] # Missing
              /\ \A t \in Tables : files[t] = File("whole", analyses, df)
<1>1. script \in 1 .. 4 /\ analyses \in Nat /\ df \in Nat
  BY DEF Inv, ReportTypeOK
<1>2. WriteOrder[script] \in Written /\ \A i \in 1 .. 4 : i # script => WriteOrder[i] # WriteOrder[script]
  <2>1. script = 1 \/ script = 2 \/ script = 3 \/ script = 4
    BY <1>1
  <2>2. QED
    BY <2>1, Orders DEF Written
<1>3. WriteOrder[script] = "report" => script = 4
  BY <1>1, <1>2, Orders
<1>4. script = 4 => /\ files["plots"] = File("whole", analyses, df)
                    /\ files["contributions"] = File("whole", analyses, df)
                    /\ files["by_category"] = File("whole", analyses, df)
  BY Orders DEF Inv, ScriptInv
<1>5. QED
  BY <1>1, <1>2, <1>3, <1>4, FilesMade DEF Tables

\* Opening a file.
LEMMA OpenKeeps == ASSUME Inv, OpenFile PROVE Inv'
<1> DEFINE f == WriteOrder[script]
<1>1. /\ script # 0 /\ opened' = TRUE /\ files' = [files EXCEPT ![f] = Torn]
      /\ UNCHANGED <<history, analyses, script, df, reader, parts, page>>
  BY DEF OpenFile, pageVars
<1>2. /\ f \in Written /\ files \in [Written -> Files]
      /\ \A i \in 1 .. 4 : i # script => WriteOrder[i] # f
  BY <1>1, Behind DEF Inv, ReportTypeOK
<1>3. KnownInv' /\ DiskInv' /\ PageInv'
  <2>1. Known(Torn)
    BY FilesMade DEF Known, Inv, ReportTypeOK
  <2>2. ASSUME f = "report"
        PROVE  files["plots"] # Missing /\ \A t \in Tables : NotBehind(files[t], Torn)
    <3>1. \A t \in Tables : files[t] = File("whole", analyses, df)
      BY <1>1, <2>2, Behind
    <3>2. analyses \in Nat /\ df \in Nat
      BY DEF Inv, ReportTypeOK
    <3>3. QED
      BY <1>1, <2>2, <3>1, <3>2, Behind, FilesMade DEF NotBehind
  <2> HIDE DEF f
  <2>3. QED
    BY <1>1, <1>2, <2>1, <2>2, FilesMade, WriteKeeps
<1>4. ReportTypeOK'
  BY <1>1, <1>2, FilesMade DEF Inv, ReportTypeOK
<1>5. ScriptInv'
  <2>1. \A i \in 1 .. 4 : WriteOrder[i] \in Written
    BY Orders DEF Written
  <2>2. QED
    BY <1>1, <1>2, <2>1 DEF Inv, ScriptInv
<1>6. QED
  BY <1>3, <1>4, <1>5 DEF Inv

\* Filling a file.
LEMMA FillKeeps == ASSUME Inv, FillFile PROVE Inv'
<1> DEFINE f == WriteOrder[script]
           new == File("whole", analyses, df)
<1>1. /\ script # 0 /\ opened' = FALSE /\ files' = [files EXCEPT ![f] = new]
      /\ script' = IF script = 4 THEN 0 ELSE script + 1
      /\ UNCHANGED <<history, analyses, df, reader, parts, page>>
  BY Orders DEF FillFile, pageVars
<1>2. /\ f \in Written /\ files \in [Written -> Files] /\ script \in 1 .. 4
      /\ \A i \in 1 .. 4 : i # script => WriteOrder[i] # f
  BY <1>1, Behind DEF Inv, ReportTypeOK
<1>3. /\ analyses \in Nat /\ df \in Nat /\ df <= Len(history)
      /\ new \in Files /\ new # Missing /\ new # Torn
      /\ new.state = "whole" /\ new.analysis = analyses /\ new.revision = df
  BY FilesMade DEF Inv, ReportTypeOK
<1>4. f = "report" => /\ files["plots"] # Missing
                      /\ \A t \in Tables : files[t] = new
  BY <1>1, Behind
<1> HIDE DEF f, new
<1>5. KnownInv' /\ DiskInv' /\ PageInv'
  <2>1. Known(new)
    BY <1>3 DEF Known
  <2>2. f = "report" => files["plots"] # Missing /\ \A t \in Tables : NotBehind(files[t], new)
    BY <1>3, <1>4 DEF NotBehind
  <2>3. QED
    BY <1>1, <1>2, <1>3, <2>1, <2>2, WriteKeeps
<1>6. ReportTypeOK'
  <2>1. files' \in [Written -> Files] /\ script' \in 0 .. 4
    BY <1>1, <1>2, <1>3
  <2>2. opened' \in BOOLEAN
    BY <1>1, Zenon
  <2>3. QED
    BY <1>1, <2>1, <2>2 DEF Inv, ReportTypeOK
<1>7. ScriptInv'
  <2>1. \A i \in 1 .. 4 : WriteOrder[i] \in Written
    BY Orders DEF Written
  <2>2. ASSUME NEW i \in 1 .. 4, i < script' PROVE files'[WriteOrder[i]] = new
    <3>1. CASE i = script
      BY <1>1, <1>2, <3>1 DEF f
    <3>2. CASE i # script
      <4>1. i < script
        BY <1>1, <1>2, <2>2, <3>2
      <4>2. files[WriteOrder[i]] = new
        BY <4>1 DEF Inv, ScriptInv, new
      <4>3. QED
        BY <1>1, <1>2, <2>1, <3>2, <4>2
    <3>3. QED
      BY <3>1, <3>2
  <2>3. new = File("whole", analyses', df')
    BY <1>1 DEF new
  <2>4. QED
    BY <1>1, <2>2, <2>3 DEF ScriptInv
<1>8. QED
  BY <1>5, <1>6, <1>7 DEF Inv

\* The script starts, or stops wherever it is: no file changes.
LEMMA ScriptKeeps == ASSUME Inv, StartAnalysis \/ AnalysisStops PROVE Inv'
<1>1. /\ UNCHANGED <<history, files, reader, parts, page>>
      /\ analyses' \in Nat /\ analyses <= analyses'
      /\ opened' = FALSE /\ script' \in 0 .. 1
      /\ df' \in 0 .. Len(history)
  BY DEF StartAnalysis, AnalysisStops, pageVars, Inv, ReportTypeOK, ScriptInv
<1>2. ReportTypeOK'
  <2>1. opened' \in BOOLEAN
    BY <1>1, Zenon
  <2>2. script' \in 0 .. 4
    BY <1>1
  <2>3. QED
    BY <1>1, <2>1, <2>2 DEF Inv, ReportTypeOK
<1>3. KnownInv'
  <2>1. \A f \in Written : files[f].analysis \in Nat
    BY DEF Inv, ReportTypeOK, Files
  <2>2. \A f \in Read : parts[f].analysis \in Nat
    BY DEF Inv, ReportTypeOK, Files
  <2>3. QED
    BY <1>1, <2>1, <2>2 DEF Inv, ReportTypeOK, KnownInv, Known
<1>4. ScriptInv'
  BY <1>1 DEF ScriptInv
<1>5. DiskInv' /\ PageInv'
  BY <1>1 DEF Inv, DiskInv, PageInv, PageIsNeverAheadOfItsData, Shown
<1>6. QED
  BY <1>2, <1>3, <1>4, <1>5 DEF Inv

\* The batch is resumed: there is one more content of runs.csv.
LEMMA ResumeKeeps == ASSUME Inv, ResumeBatch PROVE Inv'
<1>1. /\ UNCHANGED <<files, analyses, script, opened, df, reader, parts, page>>
      /\ history' \in Seq(Range(history')) /\ Len(history') = Len(history) + 1
      /\ Len(history) \in Nat
  <2>1. PICK new : history' = Append(history, new)
    BY DEF ResumeBatch
  <2>2. history \in Seq(Range(history))
    BY DEF Inv, ReportTypeOK
  <2>3. QED
    BY <2>1, <2>2, OneMoreContent DEF ResumeBatch, scriptVars, pageVars
<1>2. ReportTypeOK'
  <2>1. df' \in 0 .. Len(history')
    BY <1>1 DEF Inv, ReportTypeOK
  <2>2. QED
    BY <1>1, <2>1 DEF Inv, ReportTypeOK
<1>3. KnownInv'
  <2>1. \A f \in Written : files[f].revision \in Nat
    BY DEF Inv, ReportTypeOK, Files
  <2>2. \A f \in Read : parts[f].revision \in Nat
    BY DEF Inv, ReportTypeOK, Files
  <2>3. QED
    BY <1>1, <2>1, <2>2 DEF Inv, KnownInv, Known
<1>4. ScriptInv' /\ DiskInv' /\ PageInv'
  BY <1>1 DEF Inv, ScriptInv, DiskInv, PageInv, PageIsNeverAheadOfItsData, Shown
<1>5. QED
  BY <1>2, <1>3, <1>4 DEF Inv

\* A request begins, or ends at a report that is being written.
LEMMA RequestKeeps == ASSUME Inv, RequestPage \/ ReadTornReport PROVE Inv'
<1>1. UNCHANGED <<history, files, analyses, script, opened, df>>
  BY DEF RequestPage, ReadTornReport, scriptVars
<1>2. /\ parts' \in [Read -> Files] /\ \A f \in Read : Known(parts'[f])
      /\ page' # "shown"
      /\ reader' = 0 \/ (reader' = 1 /\ page' = "none" /\ files["report"] # Missing)
  <2>1. CASE RequestPage
    <3>1. parts' = [f \in Read |-> Missing]
      BY <2>1, Orders DEF RequestPage, NothingRead
    <3>2. Known(Missing)
      BY FilesMade DEF Known, Inv, ReportTypeOK
    <3>3. parts' \in [Read -> Files] /\ \A f \in Read : Known(parts'[f])
      BY <3>1, <3>2, FilesMade
    <3>4. /\ page' # "shown"
          /\ reader' = 0 \/ (reader' = 1 /\ page' = "none" /\ files["report"] # Missing)
      BY <2>1 DEF RequestPage
    <3>5. QED
      BY <3>3, <3>4
  <2>2. CASE ReadTornReport
    BY <2>2 DEF ReadTornReport, Inv, ReportTypeOK, KnownInv
  <2>3. QED
    BY <2>1, <2>2
<1>3. ReportTypeOK'
  BY <1>1, <1>2 DEF Inv, ReportTypeOK
<1>4. KnownInv'
  BY <1>1, <1>2 DEF Inv, KnownInv, Known
<1>5. ScriptInv' /\ DiskInv'
  BY <1>1 DEF Inv, ScriptInv, DiskInv
<1>6. PageInv'
  BY <1>1, <1>2 DEF PageInv, PageIsNeverAheadOfItsData, Shown
<1>7. QED
  BY <1>3, <1>4, <1>5, <1>6 DEF Inv

\* The page reads on: the report first, then tables that cannot be behind it.
LEMMA ReadKeeps == ASSUME Inv, ReadFile PROVE Inv'
<1>1. /\ UNCHANGED <<history, files, analyses, script, opened, df>>
      /\ reader \in 1 .. 4 /\ page = "none" /\ files["report"] # Missing
      /\ Len(history) \in Nat /\ analyses \in Nat
  BY DEF ReadFile, scriptVars, Inv, ReportTypeOK, PageInv
<1>2. files \in [Written -> Files] /\ parts \in [Read -> Files]
  BY DEF Inv, ReportTypeOK
<1>3. /\ files["plots"] # Missing
      /\ \A t \in Tables : NotBehind(files[t], files["report"])
  BY <1>1 DEF Inv, DiskInv
<1> DEFINE name == ReadOrder[reader]
           new == IF name = "runs" THEN File("whole", 0, Len(history)) ELSE files[name]
<1>4. parts' = [parts EXCEPT ![name] = new]
  BY DEF ReadFile
<1>5. name \in Read /\ (name # "runs" => name \in Written)
  BY <1>1, Orders DEF Read, Written
<1>6. new \in Files /\ Known(new)
  <2>1. CASE name = "runs"
    BY <1>1, <2>1, FilesMade DEF Known
  <2>2. CASE name # "runs"
    BY <1>2, <1>5, <2>2 DEF Inv, KnownInv
  <2>3. QED
    BY <2>1, <2>2
<1>7. parts'[name] = new /\ \A f \in Read \ {name} : parts'[f] = parts[f]
  BY <1>2, <1>4, <1>5
<1>8. IF reader < 4 THEN reader' = reader + 1 /\ page' = page ELSE reader' = 0 /\ page' = "shown"
  BY Orders DEF ReadFile
<1>9. ReportTypeOK'
  <2>1. parts' \in [Read -> Files] /\ reader' \in 0 .. 4
    BY <1>1, <1>2, <1>4, <1>5, <1>6, <1>8
  <2>2. QED
    BY <1>1, <2>1 DEF Inv, ReportTypeOK
<1>10. KnownInv'
  BY <1>1, <1>6, <1>7 DEF Inv, KnownInv, Known
<1>11. ScriptInv' /\ DiskInv'
  BY <1>1 DEF Inv, ScriptInv, DiskInv
<1>12. PageInv'
  <2>1. CASE reader = 1
    <3>1. name = "report" /\ parts'["report"] = files["report"]
      BY <1>7, <2>1, Orders
    <3>2. QED
      BY <1>1, <1>3, <1>8, <2>1, <3>1 DEF PageInv, PageIsNeverAheadOfItsData, Shown
  <2>2. CASE reader = 2
    <3>1. /\ parts'["contributions"] = files["contributions"]
          /\ parts'["report"] = parts["report"]
      BY <1>7, <2>2, Orders DEF Read
    <3>2. \A t \in Tables : NotBehind(files[t], parts["report"])
      BY <2>2 DEF Inv, PageInv
    <3>3. QED
      BY <1>1, <1>8, <2>2, <3>1, <3>2 DEF PageInv, PageIsNeverAheadOfItsData, Shown, Tables
  <2>3. CASE reader = 3
    <3>1. /\ parts'["by_category"] = files["by_category"]
          /\ parts'["contributions"] = parts["contributions"]
          /\ parts'["report"] = parts["report"]
      BY <1>7, <2>3, Orders DEF Read
    <3>2. /\ \A t \in Tables : NotBehind(files[t], parts["report"])
          /\ NotBehind(parts["contributions"], parts["report"])
      BY <2>3 DEF Inv, PageInv
    <3>3. QED
      BY <1>1, <1>8, <2>3, <3>1, <3>2 DEF PageInv, PageIsNeverAheadOfItsData, Shown, Tables
  <2>4. CASE reader = 4
    <3>1. /\ parts'["by_category"] = parts["by_category"]
          /\ parts'["contributions"] = parts["contributions"]
          /\ parts'["report"] = parts["report"]
          /\ parts'["runs"].revision = Len(history)
      BY <1>1, <1>7, <2>4, Orders, FilesMade DEF Read
    <3>2. /\ NotBehind(parts["contributions"], parts["report"])
          /\ NotBehind(parts["by_category"], parts["report"])
      BY <2>4 DEF Inv, PageInv
    <3>3. parts["contributions"].revision <= Len(history) /\ parts["by_category"].revision <= Len(history)
      BY DEF Inv, KnownInv, Known, Read
    <3>4. PageIsNeverAheadOfItsData'
      BY <1>1, <1>3, <3>1, <3>2, <3>3 DEF PageIsNeverAheadOfItsData, NotBehind
    <3>5. QED
      BY <1>8, <2>4, <3>4 DEF PageInv
  <2>5. QED
    BY <1>1, <2>1, <2>2, <2>3, <2>4
<1>13. QED
  BY <1>9, <1>10, <1>11, <1>12 DEF Inv

-----------------------------------------------------------------------------

\* The inductive invariant of script and page.
THEOREM PageInvariant == Spec => []Inv
<1>1. Init => Inv
  BY InitInv
<1>2. Inv /\ [Next]_vars => Inv'
  <2> SUFFICES ASSUME Inv, [Next]_vars PROVE Inv'
    OBVIOUS
  <2>1. CASE UNCHANGED vars
    BY <2>1 DEF vars, Inv, ReportTypeOK, KnownInv, Known, ScriptInv, DiskInv, PageInv,
       PageIsNeverAheadOfItsData, Shown
  <2>2. CASE ResumeBatch
    BY <2>2, ResumeKeeps
  <2>3. CASE StartAnalysis \/ AnalysisStops
    BY <2>3, ScriptKeeps
  <2>4. CASE OpenFile
    BY <2>4, OpenKeeps
  <2>5. CASE FillFile
    BY <2>5, FillKeeps
  <2>6. CASE RequestPage \/ ReadTornReport
    BY <2>6, RequestKeeps
  <2>7. CASE ReadFile
    BY <2>7, ReadKeeps
  <2>8. QED
    BY <2>1, <2>2, <2>3, <2>4, <2>5, <2>6, <2>7 DEF Next
<1>3. QED
  BY <1>1, <1>2, PTL DEF Spec

\* However analyses, kills, resumes and pages interleave, a page is never ahead of its
\* data: the script writes the report last and the page reads it first
\* (analyze_contributions.py:525-553, ablation_report.py:502-506).
THEOREM PageIsBehind == Spec => []PageIsNeverAheadOfItsData
<1>1. Inv => PageIsNeverAheadOfItsData
  BY DEF Inv, PageInv
<1>2. QED
  BY <1>1, PageInvariant, PTL

-----------------------------------------------------------------------------
(***************************************************************************)
(* The rows of a table                                                     *)
(***************************************************************************)

\* The comparisons of configurations that have runs.
Possible(runs) == {cmp \in Range(Comparisons) : (cmp.plus \cup cmp.minus) \subseteq ConfigsIn(runs)}

\* The rows there can be in a table of these runs.
RowsOf(runs, category) ==
  {StatRow(runs, category, p[1], p[2]) : p \in Possible(runs) \X Range(METRICS)}

\* The comparisons, one by one.
LEMMA TenComparisons ==
  /\ Comparisons \in Seq(Range(Comparisons))
  /\ \A cmp \in Range(Comparisons) :
       \/ cmp = Comparison("feedback_loop", {"B"}, {"A"})
       \/ cmp = Comparison("semantic_rag", {"C"}, {"B"})
       \/ cmp = Comparison("metric_examples", {"D"}, {"B"})
       \/ cmp = Comparison("rag_metric_combined", {"E"}, {"B"})
       \/ cmp = Comparison("pure_semantic_rag", {"F"}, {"A"})
       \/ cmp = Comparison("pure_metric_examples", {"G"}, {"A"})
       \/ cmp = Comparison("pure_rag_metric_combined", {"H"}, {"A"})
       \/ cmp = Comparison("feedback_value_full", {"E"}, {"H"})
       \/ cmp = Comparison("interaction_rag_metric", {"E", "B"}, {"C", "D"})
       \/ cmp = Comparison("interaction_rag_metric_no_feedback", {"H", "A"}, {"F", "G"})
<1>1. DOMAIN Comparisons = 1 .. 10 /\ Len(Comparisons) = 10
  BY DEF Comparisons
<1>2. Comparisons \in Seq(Range(Comparisons))
  <2>1. Comparisons = [i \in 1 .. 10 |-> Comparisons[i]]
    BY DEF Comparisons
  <2>2. \A i \in 1 .. 10 : Comparisons[i] \in Range(Comparisons)
    BY <1>1 DEF Range
  <2> QED
    BY <2>1, <2>2
<1>3. \A cmp \in Range(Comparisons) : \E i \in 1 .. 10 : cmp = Comparisons[i]
  BY <1>1 DEF Range
<1>4. \A i \in 1 .. 10 : i = 1 \/ i = 2 \/ i = 3 \/ i = 4 \/ i = 5 \/ i = 6 \/ i = 7 \/ i = 8
                         \/ i = 9 \/ i = 10
  OBVIOUS
<1>5. /\ Comparisons[1] = Comparison("feedback_loop", {"B"}, {"A"})
      /\ Comparisons[2] = Comparison("semantic_rag", {"C"}, {"B"})
      /\ Comparisons[3] = Comparison("metric_examples", {"D"}, {"B"})
      /\ Comparisons[4] = Comparison("rag_metric_combined", {"E"}, {"B"})
      /\ Comparisons[5] = Comparison("pure_semantic_rag", {"F"}, {"A"})
      /\ Comparisons[6] = Comparison("pure_metric_examples", {"G"}, {"A"})
      /\ Comparisons[7] = Comparison("pure_rag_metric_combined", {"H"}, {"A"})
      /\ Comparisons[8] = Comparison("feedback_value_full", {"E"}, {"H"})
      /\ Comparisons[9] = Comparison("interaction_rag_metric", {"E", "B"}, {"C", "D"})
      /\ Comparisons[10] = Comparison("interaction_rag_metric_no_feedback", {"H", "A"}, {"F", "G"})
  BY DEF Comparisons
<1> QED
  BY <1>2, <1>3, <1>4, <1>5

\* A table has such rows and no other.
LEMMA TableRows ==
  ASSUME NEW runs, NEW category
  PROVE  Compute(runs, category) \in Seq(RowsOf(runs, category))
<1> DEFINE R == RowsOf(runs, category)
           possible == Filter(Comparisons, Possible(runs))
           Rows(m) == [i \in DOMAIN possible |-> StatRow(runs, category, possible[i], METRICS[m])]
           lists == [m \in DOMAIN METRICS |-> Rows(m)]
<1>1. possible \in Seq(Range(Comparisons)) /\ Range(possible) \subseteq Possible(runs)
  <2>1. Comparisons \in Seq(Range(Comparisons))
    BY TenComparisons
  <2> QED
    BY <2>1, FilterRange
<1> HIDE DEF possible
<1>2. DOMAIN METRICS = 1 .. 5 /\ \A m \in 1 .. 5 : METRICS[m] \in Range(METRICS)
  BY DEF METRICS, Range
<1>3. ASSUME NEW m \in 1 .. 5 PROVE Rows(m) \in Seq(R)
  <2>1. DOMAIN possible = 1 .. Len(possible) /\ Len(possible) \in Nat
    BY <1>1
  <2>2. ASSUME NEW i \in 1 .. Len(possible)
        PROVE  StatRow(runs, category, possible[i], METRICS[m]) \in R
    <3>1. possible[i] \in Possible(runs)
      BY <1>1, <2>1 DEF Range
    <3>2. <<possible[i], METRICS[m]>> \in Possible(runs) \X Range(METRICS)
      BY <1>2, <3>1
    <3> QED
      BY <3>2 DEF RowsOf
  <2> HIDE DEF R
  <2> QED
    BY <2>1, <2>2
<1>4. lists \in Seq(Seq(R))
  <2> HIDE DEF R
  <2>1. \A m \in 1 .. 5 : lists[m] \in Seq(R)
    BY <1>2, <1>3
  <2> DEFINE all == lists
  <2>2. DOMAIN all = 1 .. 5 /\ all = [m \in 1 .. 5 |-> all[m]]
    BY <1>2
  <2> HIDE DEF lists
  <2> QED
    BY <2>1, <2>2
<1>5. Compute(runs, category) = FlattenSeq(lists)
  BY DEF Compute, possible, Possible
<1> HIDE DEF lists, R
<1>6. FlattenSeq(lists) \in Seq(R)
  BY <1>4, FlattenOneMore
<1> QED
  BY <1>5, <1>6 DEF R

\* What a row of the table shown is made of: a comparison that was possible.
LEMMA ShownPossible ==
  ASSUME NEW r \in Range(ContributionsShown)
  PROVE  /\ parts["contributions"].state = "whole"
         /\ \E cmp \in Possible(FilterSuccessful(history[parts["contributions"].revision])),
              m \in Range(METRICS) :
              r = StatRow(FilterSuccessful(history[parts["contributions"].revision]),
                          "overall", cmp, m)
<1> DEFINE runs == FilterSuccessful(history[parts["contributions"].revision])
<1>1. CASE parts["contributions"].state # "whole"
  <2>1. ContributionsShown = <<>>
    BY <1>1 DEF ContributionsShown
  <2> QED
    BY <2>1 DEF Range
<1>2. CASE parts["contributions"].state = "whole"
  <2>1. ContributionsShown = Compute(runs, "overall")
    BY <1>2 DEF ContributionsShown, ComputeOverall
  <2> HIDE DEF runs
  <2>2. ContributionsShown \in Seq(RowsOf(runs, "overall"))
    BY <2>1, TableRows
  <2>3. r \in RowsOf(runs, "overall")
    BY <2>2 DEF Range
  <2>4. PICK p \in Possible(runs) \X Range(METRICS) : r = StatRow(runs, "overall", p[1], p[2])
    BY <2>3 DEF RowsOf
  <2> QED
    BY <1>2, <2>4 DEF runs
<1> QED
  BY <1>1, <1>2

\* It is one of the comparisons of the analysis.
LEMMA ShownRows ==
  ASSUME NEW r \in Range(ContributionsShown)
  PROVE  /\ parts["contributions"].state = "whole"
         /\ \E cmp \in Range(Comparisons), m \in Range(METRICS) :
              r = StatRow(FilterSuccessful(history[parts["contributions"].revision]),
                          "overall", cmp, m)
BY ShownPossible DEF Possible

\* Every row that can be shown is explained by the formula it was computed with, is
\* named for the stages that formula differs in, and is pure if it is called so.
Explained(cmp) ==
  LET name == cmp.component
  IN  /\ name \in DOMAIN ComponentGlossary
      /\ ComponentGlossary[name] = [plus |-> cmp.plus, minus |-> cmp.minus]
      /\ Cardinality(cmp.plus) = 1 =>
           \A one \in cmp.plus, two \in cmp.minus :
             /\ EnabledStages[two] \subseteq EnabledStages[one]
             /\ EnabledStages[one] \ EnabledStages[two] = StagesNamed(name)
      /\ name \in PureComponents =>
           \A l \in cmp.plus \cup cmp.minus : "feedback_loop" \notin EnabledStages[l]

\* The difference of two configurations.
LEMMA PairExplained ==
  ASSUME NEW name \in DOMAIN ComponentGlossary, NEW one, NEW two,
         ComponentGlossary[name] = [plus |-> {one}, minus |-> {two}],
         EnabledStages[two] \subseteq EnabledStages[one],
         EnabledStages[one] \ EnabledStages[two] = StagesNamed(name),
         name \in PureComponents => /\ "feedback_loop" \notin EnabledStages[one]
                                   /\ "feedback_loop" \notin EnabledStages[two]
  PROVE  Explained(Comparison(name, {one}, {two}))
BY DEF Explained, Comparison

\* The difference of two differences.
LEMMA InteractionExplained ==
  ASSUME NEW name \in DOMAIN ComponentGlossary, NEW plus, NEW minus,
         ComponentGlossary[name] = [plus |-> plus, minus |-> minus],
         Cardinality(plus) = 2, name \notin PureComponents
  PROVE  Explained(Comparison(name, plus, minus))
BY DEF Explained, Comparison

\* All of them.
LEMMA AllExplained ==
  ASSUME NEW cmp \in Range(Comparisons)
  PROVE  Explained(cmp)
<1>1. Explained(Comparison("feedback_loop", {"B"}, {"A"}))
  BY PairExplained DEF ComponentGlossary, EnabledStages, StagesNamed, PureComponents
<1>2. Explained(Comparison("semantic_rag", {"C"}, {"B"}))
  BY PairExplained DEF ComponentGlossary, EnabledStages, StagesNamed, PureComponents
<1>3. Explained(Comparison("metric_examples", {"D"}, {"B"}))
  BY PairExplained DEF ComponentGlossary, EnabledStages, StagesNamed, PureComponents
<1>4. Explained(Comparison("rag_metric_combined", {"E"}, {"B"}))
  BY PairExplained DEF ComponentGlossary, EnabledStages, StagesNamed, PureComponents
<1>5. Explained(Comparison("pure_semantic_rag", {"F"}, {"A"}))
  BY PairExplained DEF ComponentGlossary, EnabledStages, StagesNamed, PureComponents
<1>6. Explained(Comparison("pure_metric_examples", {"G"}, {"A"}))
  BY PairExplained DEF ComponentGlossary, EnabledStages, StagesNamed, PureComponents
<1>7. Explained(Comparison("pure_rag_metric_combined", {"H"}, {"A"}))
  BY PairExplained DEF ComponentGlossary, EnabledStages, StagesNamed, PureComponents
<1>8. Explained(Comparison("feedback_value_full", {"E"}, {"H"}))
  BY PairExplained DEF ComponentGlossary, EnabledStages, StagesNamed, PureComponents
<1>9. Cardinality({"E", "B"}) = 2 /\ Cardinality({"H", "A"}) = 2
  BY TwoMembers
<1>10. Explained(Comparison("interaction_rag_metric", {"E", "B"}, {"C", "D"}))
  BY <1>9, InteractionExplained DEF ComponentGlossary, PureComponents
<1>11. Explained(Comparison("interaction_rag_metric_no_feedback", {"H", "A"}, {"F", "G"}))
  BY <1>9, InteractionExplained DEF ComponentGlossary, PureComponents
<1> QED
  BY <1>1, <1>2, <1>3, <1>4, <1>5, <1>6, <1>7, <1>8, <1>10, <1>11, TenComparisons

\* Whatever the batch, every row of a page is explained by the formula it was computed
\* with and measures the stages it is named for.
THEOREM RowsMeasure == Spec => []RowsMeasureWhatTheyName
<1>1. RowsMeasureWhatTheyName
  <2> DEFINE cmp(name) == CHOOSE c \in Range(Comparisons) : c.component = name
  <2> SUFFICES ASSUME NEW name \in {r.component : r \in Range(ContributionsShown)}
               PROVE  Explained(cmp(name)) /\ cmp(name).component = name
    <3>1. ASSUME NEW name, Explained(cmp(name)), cmp(name).component = name
          PROVE  /\ name \in DOMAIN ComponentGlossary
                 /\ ComponentGlossary[name] = [plus |-> cmp(name).plus, minus |-> cmp(name).minus]
                 /\ Cardinality(cmp(name).plus) = 1 =>
                      \A one \in cmp(name).plus, two \in cmp(name).minus :
                        /\ EnabledStages[two] \subseteq EnabledStages[one]
                        /\ EnabledStages[one] \ EnabledStages[two] = StagesNamed(name)
                 /\ name \in PureComponents =>
                      \A l \in cmp(name).plus \cup cmp(name).minus :
                        "feedback_loop" \notin EnabledStages[l]
      <4> HIDE DEF cmp
      <4> QED
        BY <3>1 DEF Explained
    <3> QED
      BY <3>1 DEF RowsMeasureWhatTheyName
  <2>1. PICK r \in Range(ContributionsShown) : name = r.component
    OBVIOUS
  <2>2. PICK c \in Range(Comparisons), m \in Range(METRICS) :
          r = StatRow(FilterSuccessful(history[parts["contributions"].revision]), "overall", c, m)
    BY ShownRows
  <2>3. c.component = name
    BY <2>1, <2>2 DEF StatRow
  <2> QED
    BY <2>3, AllExplained
<1> QED
  BY <1>1, PTL

-----------------------------------------------------------------------------
(***************************************************************************)
(* The data behind the tables                                              *)
(***************************************************************************)

\* A whole file is of a content runs.csv has had.
OfRuns(file) == file.state = "whole" => file.revision >= 1

\* All contents of runs.csv have the same cells, and rows for them; the script has read
\* one of them, and so have those who wrote a file or read it.
DataInv ==
  /\ Len(history) >= 1 /\ IsFiniteSet(DOMAIN history[1])
  /\ \A i \in 1 .. Len(history) : history[i] \in [DOMAIN history[1] -> RunRow]
  /\ script # 0 => df >= 1
  /\ \A f \in Written : OfRuns(files[f])
  /\ \A f \in Read : OfRuns(parts[f])

\* It is so at the start,
LEMMA InitData == Init => DataInv
<1> SUFFICES ASSUME Init PROVE DataInv
  OBVIOUS
<1>1. PICK batch \in Batches : history = <<batch>>
  BY DEF Init
<1>2. IsFiniteSet(DOMAIN batch) /\ batch \in [DOMAIN batch -> RunRow]
  BY BatchAssumption
<1>3. Len(history) = 1 /\ history[1] = batch
  BY <1>1
<1>4. files = [f \in Written |-> Missing] /\ parts = [f \in Read |-> Missing]
  BY Orders DEF Init, NothingRead
<1>5. OfRuns(Missing)
  BY DEF OfRuns, Missing, File
<1>6. \A i \in 1 .. Len(history) : i = 1
  BY <1>3
<1>7. (\A f \in Written : OfRuns(files[f])) /\ \A f \in Read : OfRuns(parts[f])
  BY <1>4, <1>5
<1>8. script = 0
  BY DEF Init
<1> QED
  BY <1>2, <1>3, <1>6, <1>7, <1>8 DEF DataInv

\* and stays so when the batch is resumed: a row takes the place of another one.
LEMMA ResumeData == ASSUME Inv, DataInv, ResumeBatch PROVE DataInv'
<1>1. PICK cell \in DOMAIN Last(history), row \in Values :
        history' = Append(history, [Last(history) EXCEPT ![cell] = row])
  BY DEF ResumeBatch
<1> DEFINE n == Len(history)
           new == [Last(history) EXCEPT ![cell] = row]
           D == DOMAIN history[1]
<1>2. n \in Nat /\ n >= 1 /\ history \in Seq(Range(history))
  BY DEF Inv, ReportTypeOK, DataInv
<1>3. Last(history) = history[n] /\ n \in 1 .. n
  BY <1>2 DEF Last
<1>4. history[n] \in [D -> RunRow] /\ row \in RunRow
  BY <1>3, BatchAssumption DEF DataInv
<1>5. new \in [D -> RunRow]
  BY <1>3, <1>4
<1> HIDE DEF new
<1>6. /\ Len(history') = n + 1 /\ history'[n + 1] = new
      /\ \A i \in 1 .. n : history'[i] = history[i]
  BY <1>1, <1>2 DEF new
<1>7. history'[1] = history[1]
  BY <1>2, <1>6
<1>8. \A i \in 1 .. Len(history') : history'[i] \in [D -> RunRow]
  <2> SUFFICES ASSUME NEW i \in 1 .. n + 1 PROVE history'[i] \in [D -> RunRow]
    BY <1>6
  <2>1. CASE i \in 1 .. n
    BY <1>6, <2>1 DEF DataInv
  <2>2. CASE i = n + 1
    BY <1>5, <1>6, <2>2
  <2> QED
    BY <1>2, <2>1, <2>2
<1>9. UNCHANGED <<files, script, df, parts>>
  BY DEF ResumeBatch, scriptVars, pageVars
<1> QED
  BY <1>2, <1>6, <1>7, <1>8, <1>9 DEF DataInv

\* A file that is put into the place of another one, by script or page.
LEMMA FileData ==
  ASSUME NEW S, NEW fs \in [S -> Files], NEW name \in S, NEW new \in Files,
         \A f \in S : OfRuns(fs[f]), OfRuns(new)
  PROVE  \A f \in S : OfRuns([fs EXCEPT ![name] = new][f])
OBVIOUS

\* It stays so whatever script and page do.
LEMMA OthersData ==
  ASSUME Inv, DataInv, UNCHANGED history,
         StartAnalysis \/ OpenFile \/ FillFile \/ AnalysisStops \/ RequestPage
           \/ ReadTornReport \/ ReadFile
  PROVE  DataInv'
<1>1. /\ Len(history) \in Nat /\ Len(history) >= 1 /\ analyses \in Nat /\ df \in Nat
      /\ files \in [Written -> Files] /\ parts \in [Read -> Files]
  BY DEF Inv, ReportTypeOK, DataInv
<1>2. SUFFICES /\ script' # 0 => df' >= 1
               /\ \A f \in Written : OfRuns(files'[f])
               /\ \A f \in Read : OfRuns(parts'[f])
  BY DEF DataInv
<1>3. OfRuns(Torn) /\ OfRuns(Missing)
  BY DEF OfRuns, Torn, Missing, File
<1>4. CASE StartAnalysis
  BY <1>1, <1>4 DEF StartAnalysis, pageVars, DataInv
<1>5. CASE OpenFile
  <2>1. /\ script # 0 /\ files' = [files EXCEPT ![WriteOrder[script]] = Torn]
        /\ UNCHANGED <<script, df, parts>>
    BY <1>5 DEF OpenFile, pageVars
  <2>2. WriteOrder[script] \in Written
    BY <2>1, Behind
  <2>3. \A f \in Written : OfRuns(files'[f])
    BY <1>1, <1>3, <2>1, <2>2, FileData, FilesMade DEF DataInv
  <2> QED
    BY <2>1, <2>3 DEF DataInv
<1>6. CASE FillFile
  <2> DEFINE new == File("whole", analyses, df)
  <2>1. /\ script # 0 /\ files' = [files EXCEPT ![WriteOrder[script]] = new]
        /\ UNCHANGED <<df, parts>>
    BY <1>6 DEF FillFile, pageVars
  <2>2. WriteOrder[script] \in Written
    BY <2>1, Behind
  <2>3. new \in Files /\ OfRuns(new)
    BY <1>1, <2>1, FilesMade DEF DataInv, OfRuns
  <2> HIDE DEF new
  <2>4. \A f \in Written : OfRuns(files'[f])
    BY <1>1, <2>1, <2>2, <2>3, FileData DEF DataInv
  <2> QED
    BY <2>1, <2>4 DEF DataInv
<1>7. CASE AnalysisStops
  BY <1>7 DEF AnalysisStops, pageVars, DataInv
<1>8. CASE RequestPage
  <2>1. UNCHANGED <<files, script, df>> /\ parts' = [f \in Read |-> Missing]
    BY <1>8, Orders DEF RequestPage, scriptVars, NothingRead
  <2> QED
    BY <1>3, <2>1 DEF DataInv
<1>9. CASE ReadTornReport
  BY <1>9 DEF ReadTornReport, scriptVars, DataInv
<1>10. CASE ReadFile
  <2> DEFINE name == ReadOrder[reader]
             new == IF name = "runs" THEN File("whole", 0, Len(history)) ELSE files[name]
  <2>1. /\ reader # 0 /\ parts' = [parts EXCEPT ![name] = new]
        /\ UNCHANGED <<files, script, df>>
    BY <1>10 DEF ReadFile, scriptVars
  <2>2. reader \in 1 .. 4
    BY <2>1 DEF Inv, ReportTypeOK
  <2>3. name \in Read /\ (name # "runs" => name \in Written)
    BY <2>2, Orders DEF Read, Written
  <2>4. new \in Files /\ OfRuns(new)
    <3>1. CASE name = "runs"
      BY <1>1, <3>1, FilesMade DEF OfRuns
    <3>2. CASE name # "runs"
      BY <1>1, <2>3, <3>2 DEF DataInv
    <3> QED
      BY <3>1, <3>2
  <2> HIDE DEF name, new
  <2>5. \A f \in Read : OfRuns(parts'[f])
    BY <1>1, <2>1, <2>3, <2>4, FileData DEF DataInv
  <2> QED
    BY <2>1, <2>5 DEF DataInv
<1> QED
  BY <1>2, <1>4, <1>5, <1>6, <1>7, <1>8, <1>9, <1>10

\* The tables are of data that were there.
LEMMA DataInvariant == Spec => []DataInv
<1>1. ASSUME Inv, DataInv, [Next]_vars PROVE DataInv'
  <2>1. CASE ResumeBatch
    BY <1>1, <2>1, ResumeData
  <2>2. CASE UNCHANGED vars
    BY <1>1, <2>2 DEF vars, DataInv
  <2>3. CASE StartAnalysis \/ OpenFile \/ FillFile \/ AnalysisStops \/ RequestPage
             \/ ReadTornReport \/ ReadFile
    <3>1. UNCHANGED history
      BY <2>3 DEF StartAnalysis, OpenFile, FillFile, AnalysisStops, RequestPage, ReadTornReport, ReadFile
    <3> QED
      BY <1>1, <2>3, <3>1, OthersData
  <2> QED
    BY <1>1, <2>1, <2>2, <2>3 DEF Next
<1> QED
  BY <1>1, InitData, PageInvariant, PTL DEF Spec

-----------------------------------------------------------------------------
(***************************************************************************)
(* Effects add up                                                          *)
(***************************************************************************)

\* The (scenario, seed) pairs of the batch, and the rows behind the table shown.
AllPairs == {PairOf(cell) : cell \in DOMAIN history[1]}

OkRuns == FilterSuccessful(history[parts["contributions"].revision])

\* A component is compared in one way.
LEMMA OneComparison ==
  ASSUME NEW cmp \in Range(Comparisons), NEW other \in Range(Comparisons),
         cmp.component = other.component
  PROVE  cmp = other
<1>1. \A c \in Range(Comparisons) : \E name, plus, minus : c = Comparison(name, plus, minus)
  BY TenComparisons
<1>2. ASSUME NEW c \in Range(Comparisons)
      PROVE  c = Comparison(c.component, ComponentGlossary[c.component].plus,
                            ComponentGlossary[c.component].minus)
  <2>1. PICK name, plus, minus : c = Comparison(name, plus, minus)
    BY <1>1
  <2>2. c.component = name /\ c.plus = plus /\ c.minus = minus
    BY <2>1 DEF Comparison
  <2>3. ComponentGlossary[c.component] = [plus |-> c.plus, minus |-> c.minus]
    BY AllExplained DEF Explained
  <2> QED
    BY <2>1, <2>2, <2>3
<1> QED
  BY <1>2

\* The pairs of a finite batch are finitely many.
LEMMA FewPairs ==
  ASSUME DataInv
  PROVE  IsFiniteSet(AllPairs)
<1> DEFINE D == DOMAIN history[1]
           f == [cell \in D |-> PairOf(cell)]
<1>1. f \in Surjection(D, AllPairs)
  BY DEF Surjection, AllPairs
<1>2. IsFiniteSet(D)
  BY DEF DataInv
<1> HIDE DEF f, D
<1> QED
  BY <1>1, <1>2, FS_Surjection

\* The rows behind the table shown are rows of the batch.
LEMMA RowsBehind ==
  ASSUME Inv, DataInv, parts["contributions"].state = "whole"
  PROVE  /\ DOMAIN OkRuns \subseteq DOMAIN history[1]
         /\ \A cell \in DOMAIN OkRuns : OkRuns[cell] \in RunRow
<1> DEFINE file == parts["contributions"]
           all == history[file.revision]
<1>1. all \in [DOMAIN history[1] -> RunRow]
  <2>1. "contributions" \in Read
    BY DEF Read
  <2>2. file \in Files /\ Known(file) /\ OfRuns(file)
    BY <2>1 DEF Inv, ReportTypeOK, KnownInv, DataInv
  <2>3. file.revision \in Nat
    BY <2>2 DEF Files
  <2>4. file.revision \in 1 .. Len(history)
    BY <2>2, <2>3 DEF Known, OfRuns
  <2> QED
    BY <2>4 DEF DataInv
<1>2. OkRuns = [cell \in {c \in DOMAIN all : ~ all[c].error} |-> all[cell]]
  BY DEF OkRuns, FilterSuccessful, Restrict
<1> HIDE DEF all
<1> QED
  BY <1>1, <1>2

\* The row of a comparison for which no pair is missing: its sum is that of the
\* differences of all pairs, and every value in them is a number.
LEMMA CompleteRow ==
  ASSUME Inv, DataInv, NEW m \in Range(METRICS), NEW cmp \in Range(Comparisons),
         NEW r \in Range(ContributionsShown), r.metric = m, r.component = cmp.component,
         r.n = Cardinality(AllPairs)
  PROVE  /\ r.sum = SumOver([p \in AllPairs |-> Delta(OkRuns, cmp, m, p)])
         /\ \A p \in AllPairs, l \in cmp.plus \cup cmp.minus : ValueAt(OkRuns, p, l, m) \in Int
<1> DEFINE file == parts["contributions"]
           labels == cmp.plus \cup cmp.minus
           pairs == PairsOf(OkRuns, labels)
<1>1. file.state = "whole" /\ r = StatRow(OkRuns, "overall", cmp, m)
  <2>1. PICK c \in Range(Comparisons), k \in Range(METRICS) : r = StatRow(OkRuns, "overall", c, k)
    BY ShownRows DEF OkRuns
  <2>2. r.component = c.component /\ r.metric = k
    BY <2>1 DEF StatRow
  <2>3. c = cmp
    BY <2>2, OneComparison
  <2> QED
    BY <2>1, <2>2, <2>3, ShownRows
<1>2. /\ DOMAIN OkRuns \subseteq DOMAIN history[1]
      /\ \A cell \in DOMAIN OkRuns : OkRuns[cell] \in RunRow
  BY <1>1, RowsBehind
<1>4. pairs \in SUBSET AllPairs
  BY <1>2 DEF PairsOf, AllPairs
<1>5. r.n = Cardinality(pairs) /\ r.sum = SumOver([p \in pairs |-> Delta(OkRuns, cmp, m, p)])
  BY <1>1 DEF StatRow
<1>6. pairs = AllPairs
  <2>1. Cardinality(pairs) = Cardinality(AllPairs)
    BY <1>5
  <2> HIDE DEF pairs
  <2> QED
    BY <1>4, <2>1, FewPairs, FS_Subset
<1>7. ASSUME NEW p \in AllPairs, NEW l \in labels PROVE ValueAt(OkRuns, p, l, m) \in Int
  <2>1. <<p[1], l, p[2]>> \in DOMAIN OkRuns
    BY <1>6 DEF PairsOf
  <2>2. OkRuns[<<p[1], l, p[2]>>] \in RunRow
    BY <1>2, <2>1
  <2> QED
    BY <2>2 DEF ValueAt, RunRow
<1> QED
  BY <1>5, <1>6, <1>7

\* The difference of two configurations is that of their values,
LEMMA DeltaOfTwo ==
  ASSUME NEW runs, NEW m, NEW p, NEW a, NEW b, NEW name,
         ValueAt(runs, p, a, m) \in Int, ValueAt(runs, p, b, m) \in Int
  PROVE  Delta(runs, Comparison(name, {a}, {b}), m, p) =
           ValueAt(runs, p, a, m) - ValueAt(runs, p, b, m)
<1> DEFINE fa == [l \in {a} |-> ValueAt(runs, p, l, m)]
           fb == [l \in {b} |-> ValueAt(runs, p, l, m)]
<1>1. /\ fa[a] = ValueAt(runs, p, a, m) /\ DOMAIN fa = {a}
      /\ fb[b] = ValueAt(runs, p, b, m) /\ DOMAIN fb = {b}
  OBVIOUS
<1>2. Delta(runs, Comparison(name, {a}, {b}), m, p) = SumOver(fa) - SumOver(fb)
  BY DEF Delta, Comparison
<1> HIDE DEF fa, fb
<1>3. SumOver(fa) = fa[a] /\ SumOver(fb) = fb[b]
  BY <1>1, SumOverFew
<1> QED
  BY <1>1, <1>2, <1>3

\* and that of two pairs of them the difference of their sums.
LEMMA DeltaOfFour ==
  ASSUME NEW runs, NEW m, NEW p, NEW a, NEW b, NEW c, NEW d, NEW name, a # b, c # d,
         ValueAt(runs, p, a, m) \in Int, ValueAt(runs, p, b, m) \in Int,
         ValueAt(runs, p, c, m) \in Int, ValueAt(runs, p, d, m) \in Int
  PROVE  Delta(runs, Comparison(name, {a, b}, {c, d}), m, p) =
           (ValueAt(runs, p, a, m) + ValueAt(runs, p, b, m))
             - (ValueAt(runs, p, c, m) + ValueAt(runs, p, d, m))
<1> DEFINE plus == [l \in {a, b} |-> ValueAt(runs, p, l, m)]
           minus == [l \in {c, d} |-> ValueAt(runs, p, l, m)]
<1>1. /\ plus[a] = ValueAt(runs, p, a, m) /\ plus[b] = ValueAt(runs, p, b, m)
      /\ DOMAIN plus = {a, b}
      /\ minus[c] = ValueAt(runs, p, c, m) /\ minus[d] = ValueAt(runs, p, d, m)
      /\ DOMAIN minus = {c, d}
  OBVIOUS
<1>2. Delta(runs, Comparison(name, {a, b}, {c, d}), m, p) = SumOver(plus) - SumOver(minus)
  BY DEF Delta, Comparison
<1> HIDE DEF plus, minus
<1>3. SumOver(plus) = plus[a] + plus[b] /\ SumOver(minus) = minus[c] + minus[d]
  <2>1. plus[a] \in Int /\ plus[b] \in Int /\ minus[c] \in Int /\ minus[d] \in Int
    BY <1>1
  <2>2. SumOver(plus) = plus[a] + plus[b]
    <3>1. DOMAIN plus = {a, b} /\ a # b
      BY <1>1
    <3> QED
      BY <2>1, <3>1, SumOverFew, ZenonT(30)
  <2>3. SumOver(minus) = minus[c] + minus[d]
    <3>1. DOMAIN minus = {c, d} /\ c # d
      BY <1>1
    <3> QED
      BY <2>1, <3>1, SumOverFew, ZenonT(30)
  <2> QED
    BY <2>2, <2>3
<1> QED
  BY <1>1, <1>2, <1>3

\* What EffectsAddUp speaks of: the complete rows of a metric, the components they are of,
\* and the sum of each.
WholeRows(m) == {r \in Range(ContributionsShown) : r.metric = m /\ r.n = Cardinality(AllPairs)}

Made(m) == {r.component : r \in WholeRows(m)}

Total(m, name) == (CHOOSE r \in WholeRows(m) : r.component = name).sum

\* The differences of a comparison, pair by pair.
Effect(cmp, m) == [p \in AllPairs |-> Delta(OkRuns, cmp, m, p)]

\* The comparisons that effects are added up for.
LEMMA ComparisonsMade ==
  /\ Comparison("feedback_loop", {"B"}, {"A"}) \in Range(Comparisons)
  /\ Comparison("semantic_rag", {"C"}, {"B"}) \in Range(Comparisons)
  /\ Comparison("metric_examples", {"D"}, {"B"}) \in Range(Comparisons)
  /\ Comparison("rag_metric_combined", {"E"}, {"B"}) \in Range(Comparisons)
  /\ Comparison("pure_semantic_rag", {"F"}, {"A"}) \in Range(Comparisons)
  /\ Comparison("pure_metric_examples", {"G"}, {"A"}) \in Range(Comparisons)
  /\ Comparison("pure_rag_metric_combined", {"H"}, {"A"}) \in Range(Comparisons)
  /\ Comparison("feedback_value_full", {"E"}, {"H"}) \in Range(Comparisons)
  /\ Comparison("interaction_rag_metric", {"E", "B"}, {"C", "D"}) \in Range(Comparisons)
  /\ Comparison("interaction_rag_metric_no_feedback", {"H", "A"}, {"F", "G"}) \in Range(Comparisons)
<1>1. \A i \in 1 .. 10 : Comparisons[i] \in Range(Comparisons)
  BY DEF Comparisons, Range
<1>2. /\ Comparisons[1] \in Range(Comparisons) /\ Comparisons[2] \in Range(Comparisons)
      /\ Comparisons[3] \in Range(Comparisons) /\ Comparisons[4] \in Range(Comparisons)
      /\ Comparisons[5] \in Range(Comparisons) /\ Comparisons[6] \in Range(Comparisons)
      /\ Comparisons[7] \in Range(Comparisons) /\ Comparisons[8] \in Range(Comparisons)
      /\ Comparisons[9] \in Range(Comparisons) /\ Comparisons[10] \in Range(Comparisons)
  BY <1>1
<1> DEFINE all == Range(Comparisons)
<1> HIDE DEF all
<1>3. /\ Comparisons[1] \in all /\ Comparisons[2] \in all /\ Comparisons[3] \in all
      /\ Comparisons[4] \in all /\ Comparisons[5] \in all /\ Comparisons[6] \in all
      /\ Comparisons[7] \in all /\ Comparisons[8] \in all /\ Comparisons[9] \in all
      /\ Comparisons[10] \in all
  BY <1>2 DEF all
<1>4. /\ Comparison("feedback_loop", {"B"}, {"A"}) \in all
      /\ Comparison("semantic_rag", {"C"}, {"B"}) \in all
      /\ Comparison("metric_examples", {"D"}, {"B"}) \in all
      /\ Comparison("rag_metric_combined", {"E"}, {"B"}) \in all
      /\ Comparison("pure_semantic_rag", {"F"}, {"A"}) \in all
      /\ Comparison("pure_metric_examples", {"G"}, {"A"}) \in all
      /\ Comparison("pure_rag_metric_combined", {"H"}, {"A"}) \in all
      /\ Comparison("feedback_value_full", {"E"}, {"H"}) \in all
      /\ Comparison("interaction_rag_metric", {"E", "B"}, {"C", "D"}) \in all
      /\ Comparison("interaction_rag_metric_no_feedback", {"H", "A"}, {"F", "G"}) \in all
  BY <1>3 DEF Comparisons
<1> QED
  BY <1>4 DEF all

\* The total of a component that has a complete row is the sum of its differences over
\* all pairs.
LEMMA TotalIs ==
  ASSUME Inv, DataInv, NEW m \in Range(METRICS), NEW cmp \in Range(Comparisons),
         cmp.component \in Made(m)
  PROVE  /\ Total(m, cmp.component) = SumOver(Effect(cmp, m))
         /\ \A p \in AllPairs, l \in cmp.plus \cup cmp.minus : ValueAt(OkRuns, p, l, m) \in Int
<1> DEFINE name == cmp.component
           r == CHOOSE x \in WholeRows(m) : x.component = name
<1>1. \E x \in WholeRows(m) : x.component = name
  BY DEF Made
<1>2. r \in WholeRows(m) /\ r.component = name
  BY <1>1
<1>3. Total(m, name) = r.sum
  BY DEF Total
<1> HIDE DEF r
<1>4. r \in Range(ContributionsShown) /\ r.metric = m /\ r.n = Cardinality(AllPairs)
  BY <1>2 DEF WholeRows
<1> QED
  BY <1>2, <1>3, <1>4, CompleteRow DEF Effect

\* A comparison of the analysis with a complete row.
Measured(m, name, plus, minus) ==
  Comparison(name, plus, minus) \in Range(Comparisons) /\ name \in Made(m)

\* The effect of a difference of two configurations, of numbers,
Differs(m, name, a, b) ==
  LET e == Effect(Comparison(name, {a}, {b}), m)
  IN  /\ Total(m, name) = SumOver(e) /\ e \in [AllPairs -> Int]
      /\ \A p \in AllPairs :
           /\ ValueAt(OkRuns, p, a, m) \in Int /\ ValueAt(OkRuns, p, b, m) \in Int
           /\ e[p] = ValueAt(OkRuns, p, a, m) - ValueAt(OkRuns, p, b, m)

\* and of an interaction.
Interacts(m, name, a, b, c, d) ==
  LET e == Effect(Comparison(name, {a, b}, {c, d}), m)
  IN  /\ Total(m, name) = SumOver(e) /\ e \in [AllPairs -> Int]
      /\ \A p \in AllPairs :
           e[p] = (ValueAt(OkRuns, p, a, m) + ValueAt(OkRuns, p, b, m))
                    - (ValueAt(OkRuns, p, c, m) + ValueAt(OkRuns, p, d, m))

\* A difference of two configurations, pair by pair.
LEMMA EffectOfTwo ==
  ASSUME Inv, DataInv, NEW m \in Range(METRICS), NEW name, NEW a, NEW b,
         Measured(m, name, {a}, {b})
  PROVE  Differs(m, name, a, b)
<1> USE DEF Measured, Differs
<1> DEFINE cmp == Comparison(name, {a}, {b})
           e == Effect(cmp, m)
<1>1. cmp.component = name /\ cmp.plus = {a} /\ cmp.minus = {b}
  BY DEF Comparison
<1> HIDE DEF cmp
<1>2. /\ Total(m, name) = SumOver(e)
      /\ \A p \in AllPairs, l \in cmp.plus \cup cmp.minus : ValueAt(OkRuns, p, l, m) \in Int
  <2>1. cmp \in Range(Comparisons) /\ cmp.component \in Made(m)
    BY <1>1 DEF cmp
  <2> QED
    BY <1>1, <2>1, TotalIs
<1>3. ASSUME NEW p \in AllPairs
      PROVE  /\ ValueAt(OkRuns, p, a, m) \in Int /\ ValueAt(OkRuns, p, b, m) \in Int
             /\ Delta(OkRuns, cmp, m, p) = ValueAt(OkRuns, p, a, m) - ValueAt(OkRuns, p, b, m)
  <2>1. ValueAt(OkRuns, p, a, m) \in Int /\ ValueAt(OkRuns, p, b, m) \in Int
    BY <1>1, <1>2
  <2> QED
    BY <2>1, DeltaOfTwo DEF cmp
<1>4. e \in [AllPairs -> Int] /\ \A p \in AllPairs : e[p] = Delta(OkRuns, cmp, m, p)
  BY <1>3 DEF Effect
<1> HIDE DEF e
<1> QED
  BY <1>2, <1>3, <1>4 DEF e, cmp

\* An interaction, pair by pair.
LEMMA EffectOfFour ==
  ASSUME Inv, DataInv, NEW m \in Range(METRICS), NEW name, NEW a, NEW b, NEW c, NEW d,
         a # b, c # d, Measured(m, name, {a, b}, {c, d})
  PROVE  Interacts(m, name, a, b, c, d)
<1> USE DEF Measured, Interacts
<1> DEFINE cmp == Comparison(name, {a, b}, {c, d})
           e == Effect(cmp, m)
<1>1. cmp.component = name /\ cmp.plus = {a, b} /\ cmp.minus = {c, d}
  BY DEF Comparison
<1> HIDE DEF cmp
<1>2. /\ Total(m, name) = SumOver(e)
      /\ \A p \in AllPairs, l \in cmp.plus \cup cmp.minus : ValueAt(OkRuns, p, l, m) \in Int
  <2>1. cmp \in Range(Comparisons) /\ cmp.component \in Made(m)
    BY <1>1 DEF cmp
  <2> QED
    BY <1>1, <2>1, TotalIs
<1>3. ASSUME NEW p \in AllPairs
      PROVE  /\ Delta(OkRuns, cmp, m, p) \in Int
             /\ Delta(OkRuns, cmp, m, p) =
                  (ValueAt(OkRuns, p, a, m) + ValueAt(OkRuns, p, b, m))
                    - (ValueAt(OkRuns, p, c, m) + ValueAt(OkRuns, p, d, m))
  <2>1. /\ ValueAt(OkRuns, p, a, m) \in Int /\ ValueAt(OkRuns, p, b, m) \in Int
        /\ ValueAt(OkRuns, p, c, m) \in Int /\ ValueAt(OkRuns, p, d, m) \in Int
    BY <1>1, <1>2
  <2>2. Delta(OkRuns, cmp, m, p) =
          (ValueAt(OkRuns, p, a, m) + ValueAt(OkRuns, p, b, m))
            - (ValueAt(OkRuns, p, c, m) + ValueAt(OkRuns, p, d, m))
    BY <2>1, DeltaOfFour DEF cmp
  <2> QED
    BY <2>1, <2>2
<1>4. e \in [AllPairs -> Int] /\ \A p \in AllPairs : e[p] = Delta(OkRuns, cmp, m, p)
  BY <1>3 DEF Effect
<1> HIDE DEF e
<1> QED
  BY <1>2, <1>3, <1>4 DEF e, cmp

\* Two parts on top of a configuration, both of them, and their interaction,
PartsMeasured(m, both, one, other, inter, base, a, b, c) ==
  /\ base # c /\ a # b
  /\ Measured(m, one, {a}, {base}) /\ Measured(m, other, {b}, {base})
  /\ Measured(m, both, {c}, {base}) /\ Measured(m, inter, {c, base}, {a, b})

\* and two ways from a configuration to another.
WaysMeasured(m, ab, bc, ad, dc, a, b, c, d) ==
  /\ Measured(m, ab, {b}, {a}) /\ Measured(m, bc, {c}, {b})
  /\ Measured(m, ad, {d}, {a}) /\ Measured(m, dc, {c}, {d})

\* The effect of both parts is that of each and of their interaction, when the rows are
\* complete,
LEMMA PartsAddUp ==
  ASSUME Inv, DataInv, NEW m \in Range(METRICS), NEW both, NEW one, NEW other, NEW inter,
         NEW base, NEW a, NEW b, NEW c,
         PartsMeasured(m, both, one, other, inter, base, a, b, c)
  PROVE  Total(m, both) = Total(m, one) + Total(m, other) + Total(m, inter)
<1> USE DEF PartsMeasured
<1> DEFINE ea == Effect(Comparison(one, {a}, {base}), m)
           eb == Effect(Comparison(other, {b}, {base}), m)
           ec == Effect(Comparison(both, {c}, {base}), m)
           ei == Effect(Comparison(inter, {c, base}, {a, b}), m)
           At(l, p) == ValueAt(OkRuns, p, l, m)
<1>1. /\ Total(m, one) = SumOver(ea) /\ ea \in [AllPairs -> Int]
      /\ \A p \in AllPairs : /\ At(a, p) \in Int /\ At(base, p) \in Int
                             /\ ea[p] = At(a, p) - At(base, p)
  <2>1. Differs(m, one, a, base)
    BY EffectOfTwo
  <2> QED
    BY <2>1 DEF Differs
<1>2. /\ Total(m, other) = SumOver(eb) /\ eb \in [AllPairs -> Int]
      /\ \A p \in AllPairs : At(b, p) \in Int /\ eb[p] = At(b, p) - At(base, p)
  <2>1. Differs(m, other, b, base)
    BY EffectOfTwo
  <2> QED
    BY <2>1 DEF Differs
<1>3. /\ Total(m, both) = SumOver(ec) /\ ec \in [AllPairs -> Int]
      /\ \A p \in AllPairs : At(c, p) \in Int /\ ec[p] = At(c, p) - At(base, p)
  <2>1. Differs(m, both, c, base)
    BY EffectOfTwo
  <2> QED
    BY <2>1 DEF Differs
<1>4. /\ Total(m, inter) = SumOver(ei) /\ ei \in [AllPairs -> Int]
      /\ \A p \in AllPairs : ei[p] = (At(c, p) + At(base, p)) - (At(a, p) + At(b, p))
  <2>1. c # base
    OBVIOUS
  <2>2. Interacts(m, inter, c, base, a, b)
    BY <2>1, EffectOfFour
  <2> QED
    BY <2>2 DEF Interacts
<1> HIDE DEF ea, eb, ec, ei, At
<1>5. \A p \in AllPairs : ec[p] = ea[p] + eb[p] + ei[p]
  BY <1>1, <1>2, <1>3, <1>4
<1>6. SumOver(ec) = SumOver(ea) + SumOver(eb) + SumOver(ei)
  <2>1. IsFiniteSet(AllPairs)
    BY FewPairs
  <2> QED
    BY <1>1, <1>2, <1>3, <1>4, <1>5, <2>1, SumsAddUp
<1> QED
  BY <1>1, <1>2, <1>3, <1>4, <1>6

\* and from one configuration to another two ways come to the same.
LEMMA WaysAgree ==
  ASSUME Inv, DataInv, NEW m \in Range(METRICS),
         NEW ab, NEW bc, NEW ad, NEW dc, NEW a, NEW b, NEW c, NEW d,
         WaysMeasured(m, ab, bc, ad, dc, a, b, c, d)
  PROVE  Total(m, ab) + Total(m, bc) = Total(m, ad) + Total(m, dc)
<1> USE DEF WaysMeasured
<1> DEFINE e1 == Effect(Comparison(ab, {b}, {a}), m)
           e2 == Effect(Comparison(bc, {c}, {b}), m)
           e3 == Effect(Comparison(ad, {d}, {a}), m)
           e4 == Effect(Comparison(dc, {c}, {d}), m)
           At(l, p) == ValueAt(OkRuns, p, l, m)
<1>1. /\ Total(m, ab) = SumOver(e1) /\ e1 \in [AllPairs -> Int]
      /\ \A p \in AllPairs : /\ At(b, p) \in Int /\ At(a, p) \in Int
                             /\ e1[p] = At(b, p) - At(a, p)
  <2>1. Differs(m, ab, b, a)
    BY EffectOfTwo
  <2> QED
    BY <2>1 DEF Differs
<1>2. /\ Total(m, bc) = SumOver(e2) /\ e2 \in [AllPairs -> Int]
      /\ \A p \in AllPairs : At(c, p) \in Int /\ e2[p] = At(c, p) - At(b, p)
  <2>1. Differs(m, bc, c, b)
    BY EffectOfTwo
  <2> QED
    BY <2>1 DEF Differs
<1>3. /\ Total(m, ad) = SumOver(e3) /\ e3 \in [AllPairs -> Int]
      /\ \A p \in AllPairs : At(d, p) \in Int /\ e3[p] = At(d, p) - At(a, p)
  <2>1. Differs(m, ad, d, a)
    BY EffectOfTwo
  <2> QED
    BY <2>1 DEF Differs
<1>4. /\ Total(m, dc) = SumOver(e4) /\ e4 \in [AllPairs -> Int]
      /\ \A p \in AllPairs : e4[p] = At(c, p) - At(d, p)
  <2>1. Differs(m, dc, c, d)
    BY EffectOfTwo
  <2> QED
    BY <2>1 DEF Differs
<1> HIDE DEF e1, e2, e3, e4, At
<1>5. \A p \in AllPairs : e1[p] + e2[p] = e3[p] + e4[p]
  BY <1>1, <1>2, <1>3, <1>4
<1>6. SumOver(e1) + SumOver(e2) = SumOver(e3) + SumOver(e4)
  <2>1. IsFiniteSet(AllPairs)
    BY FewPairs
  <2> QED
    BY <1>1, <1>2, <1>3, <1>4, <1>5, <2>1, SumsAddUp
<1> QED
  BY <1>1, <1>2, <1>3, <1>4, <1>6

\* In a table of complete rows the effects of the parts add up to that of the whole, with
\* feedback and without, and from A to E it does not matter what is switched on first: of
\* every batch, in every state of the analysis and the page
\* (analyze_contributions.py:52-77, 175-194).
THEOREM EffectsSum == Spec => []EffectsAddUp
<1>1. ASSUME Inv, DataInv
      PROVE  EffectsAddUp
  <2>1. ASSUME NEW m \in Range(METRICS),
               {"semantic_rag", "metric_examples", "rag_metric_combined",
                "interaction_rag_metric"} \subseteq Made(m)
        PROVE  Total(m, "rag_metric_combined") = Total(m, "semantic_rag")
                 + Total(m, "metric_examples") + Total(m, "interaction_rag_metric")
    <3>1. /\ "semantic_rag" \in Made(m) /\ "metric_examples" \in Made(m)
          /\ "rag_metric_combined" \in Made(m) /\ "interaction_rag_metric" \in Made(m)
      BY <2>1
    <3>2. "B" # "E" /\ "C" # "D"
      OBVIOUS
    <3>3. /\ Measured(m, "semantic_rag", {"C"}, {"B"})
          /\ Measured(m, "metric_examples", {"D"}, {"B"})
          /\ Measured(m, "rag_metric_combined", {"E"}, {"B"})
          /\ Measured(m, "interaction_rag_metric", {"E", "B"}, {"C", "D"})
      BY <3>1, ComparisonsMade DEF Measured
    <3>4. PartsMeasured(m, "rag_metric_combined", "semantic_rag", "metric_examples",
                        "interaction_rag_metric", "B", "C", "D", "E")
      BY <3>2, <3>3 DEF PartsMeasured
    <3> QED
      BY <1>1, <3>4, PartsAddUp
  <2>2. ASSUME NEW m \in Range(METRICS),
               {"pure_semantic_rag", "pure_metric_examples", "pure_rag_metric_combined",
                "interaction_rag_metric_no_feedback"} \subseteq Made(m)
        PROVE  Total(m, "pure_rag_metric_combined") = Total(m, "pure_semantic_rag")
                 + Total(m, "pure_metric_examples")
                 + Total(m, "interaction_rag_metric_no_feedback")
    <3>1. /\ "pure_semantic_rag" \in Made(m) /\ "pure_metric_examples" \in Made(m)
          /\ "pure_rag_metric_combined" \in Made(m)
          /\ "interaction_rag_metric_no_feedback" \in Made(m)
      BY <2>2
    <3>2. "A" # "H" /\ "F" # "G"
      OBVIOUS
    <3>3. /\ Measured(m, "pure_semantic_rag", {"F"}, {"A"})
          /\ Measured(m, "pure_metric_examples", {"G"}, {"A"})
          /\ Measured(m, "pure_rag_metric_combined", {"H"}, {"A"})
          /\ Measured(m, "interaction_rag_metric_no_feedback", {"H", "A"}, {"F", "G"})
      BY <3>1, ComparisonsMade DEF Measured
    <3>4. PartsMeasured(m, "pure_rag_metric_combined", "pure_semantic_rag", "pure_metric_examples",
                        "interaction_rag_metric_no_feedback", "A", "F", "G", "H")
      BY <3>2, <3>3 DEF PartsMeasured
    <3> QED
      BY <1>1, <3>4, PartsAddUp
  <2>3. ASSUME NEW m \in Range(METRICS),
               {"feedback_loop", "rag_metric_combined", "pure_rag_metric_combined",
                "feedback_value_full"} \subseteq Made(m)
        PROVE  Total(m, "feedback_loop") + Total(m, "rag_metric_combined")
                 = Total(m, "pure_rag_metric_combined") + Total(m, "feedback_value_full")
    <3>1. /\ "feedback_loop" \in Made(m) /\ "rag_metric_combined" \in Made(m)
          /\ "pure_rag_metric_combined" \in Made(m) /\ "feedback_value_full" \in Made(m)
      BY <2>3
    <3>2. /\ Measured(m, "feedback_loop", {"B"}, {"A"})
          /\ Measured(m, "rag_metric_combined", {"E"}, {"B"})
          /\ Measured(m, "pure_rag_metric_combined", {"H"}, {"A"})
          /\ Measured(m, "feedback_value_full", {"E"}, {"H"})
      BY <3>1, ComparisonsMade DEF Measured
    <3>3. WaysMeasured(m, "feedback_loop", "rag_metric_combined", "pure_rag_metric_combined",
                       "feedback_value_full", "A", "B", "E", "H")
      BY <3>2 DEF WaysMeasured
    <3> QED
      BY <1>1, <3>3, WaysAgree
  <2> QED
    BY <2>1, <2>2, <2>3 DEF EffectsAddUp, WholeRows, Made, Total, AllPairs
<1> QED
  BY <1>1, PageInvariant, DataInvariant, PTL

-----------------------------------------------------------------------------
(***************************************************************************)
(* What the script and the page say of a row                               *)
(***************************************************************************)

\* A row that shows an improvement, and one that shows a change for the worse.
Improves(r) == r.significant /\ IsGood(r.metric, r.sum)

Harms(r) == r.significant /\ ~ IsGood(r.metric, r.sum)

\* Colour and verdict of a row are decided by that, if no significant row has a sum of 0.
LEMMA Judgement ==
  ASSUME NEW r, r.significant \in BOOLEAN, r.significant => r.sum # 0
  PROVE  /\ PointColour(r) = "green" <=> Improves(r)
         /\ PointColour(r) = "red" <=> Harms(r)
         /\ VerdictFor(r) = "positive" <=> Improves(r)
         /\ VerdictFor(r) = "negative" <=> Harms(r)
<1>0. IsImprovement(r.metric, r.sum) = IsGood(r.metric, r.sum)
  BY DEF IsImprovement, IsGood, LOWER_IS_BETTER_METRICS, LowerIsBetterMetrics
<1>1. CASE Improves(r)
  <2>1. PointColour(r) = "green" /\ VerdictFor(r) = "positive" /\ ~ Harms(r)
    BY <1>0, <1>1 DEF PointColour, VerdictFor, Improves, Harms
  <2> QED
    BY <1>1, <2>1
<1>2. CASE Harms(r)
  <2>1. PointColour(r) = "red" /\ VerdictFor(r) = "negative" /\ ~ Improves(r)
    BY <1>0, <1>2 DEF PointColour, VerdictFor, Improves, Harms
  <2> QED
    BY <1>2, <2>1
<1>3. CASE ~ r.significant
  <2>1. /\ PointColour(r) = "grey" /\ VerdictFor(r) = "neutral"
        /\ ~ Improves(r) /\ ~ Harms(r)
    BY <1>3 DEF PointColour, VerdictFor, Improves, Harms
  <2> QED
    BY <2>1
<1> QED
  BY <1>1, <1>2, <1>3 DEF Improves, Harms

\* A row as the commentary reads it: a significant one has pairs, and their sum is not 0.
Readable(r) ==
  /\ r.n \in Nat /\ r.sum \in Int /\ r.significant \in BOOLEAN
  /\ r.significant => r.n > 0 /\ r.sum # 0

\* Of finitely many numbers of one sign the sum has that sign: so a row is significant
\* only if its mean is not 0.
LEMMA RowIsReadable ==
  ASSUME NEW runs, NEW cmp, NEW m,
         IsFiniteSet(PairsOf(runs, cmp.plus \cup cmp.minus)),
         \A p \in PairsOf(runs, cmp.plus \cup cmp.minus) : Delta(runs, cmp, m, p) \in Int
  PROVE  Readable(StatRow(runs, "overall", cmp, m))
<1> DEFINE pairs == PairsOf(runs, cmp.plus \cup cmp.minus)
           f == [p \in pairs |-> Delta(runs, cmp, m, p)]
           D == {Delta(runs, cmp, m, p) : p \in pairs}
           r == StatRow(runs, "overall", cmp, m)
           interval == ConfidenceInterval(D)
<1>1. /\ r.n = Cardinality(pairs) /\ r.sum = SumOver(f)
      /\ r.significant = (interval.low > 0 \/ interval.high < 0)
  BY DEF StatRow
<1>2. IsFiniteSet(pairs) /\ f \in [pairs -> Int] /\ D \in SUBSET Int
      /\ (\A p \in pairs : f[p] \in D) /\ (\A d \in D : \E p \in pairs : d = f[p])
  OBVIOUS
<1> HIDE DEF r, D, pairs, f
<1>3. Cardinality(pairs) \in Nat /\ SumOver(f) \in Int
  BY <1>2, FS_CardinalityType, SumOverIsInt
<1>4. CASE pairs = {}
  <2>1. D = {}
    BY <1>2, <1>4
  <2>2. interval.low = 0 /\ interval.high = 0
    BY <2>1 DEF ConfidenceInterval
  <2>3. r.significant = FALSE
    <3>1. ~ (interval.low > 0) /\ ~ (interval.high < 0)
      BY <2>2
    <3> HIDE DEF interval
    <3> QED
      BY <1>1, <3>1, Zenon
  <2> QED
    BY <1>1, <1>3, <2>3 DEF Readable, r
<1>5. CASE pairs # {}
  <2>1. IsFiniteSet(D) /\ D # {}
    <3>1. f \in Surjection(pairs, D)
      BY <1>2 DEF Surjection
    <3> QED
      BY <1>2, <1>5, <3>1, FS_Surjection
  <2>2. /\ Min(D) \in D /\ \A y \in D : Min(D) <= y
        /\ Max(D) \in D /\ \A y \in D : Max(D) >= y
    <3>1. (\E x \in D : \A y \in D : x <= y) /\ (\E x \in D : \A y \in D : y <= x)
      BY <1>2, <2>1, LeastAndGreatest
    <3>2. Min(D) \in D /\ \A y \in D : Min(D) <= y
      BY <3>1 DEF Min
    <3>3. \E x \in D : \A y \in D : x >= y
      <4>1. \A x, y \in D : y <= x => x >= y
        BY <1>2
      <4> QED
        BY <3>1, <4>1
    <3>4. Max(D) \in D /\ \A y \in D : Max(D) >= y
      BY <3>3 DEF Max
    <3> QED
      BY <3>2, <3>4
  <2> DEFINE low == Min(D)
             high == Max(D)
  <2>3. interval.low = low /\ interval.high = high
    BY <2>1 DEF ConfidenceInterval
  <2> HIDE DEF low, high
  <2>4. /\ low \in Int /\ high \in Int
        /\ \A p \in pairs : f[p] \in Int /\ low <= f[p] /\ f[p] <= high
    BY <1>2, <2>2 DEF low, high
  <2>5. low > 0 => SumOver(f) > 0
    <3>1. low > 0 => \A p \in pairs : f[p] > 0
      BY <2>4
    <3> QED
      BY <1>2, <1>5, <3>1, SumOverSign
  <2>6. high < 0 => SumOver(f) < 0
    <3>1. high < 0 => \A p \in pairs : f[p] < 0
      BY <2>4
    <3> QED
      BY <1>2, <1>5, <3>1, SumOverSign
  <2>7. Cardinality(pairs) # 0
    BY <1>2, <1>5, FS_EmptySet
  <2>8. /\ r.significant \in BOOLEAN
        /\ r.significant => SumOver(f) # 0 /\ Cardinality(pairs) > 0
    <3>1. low > 0 \/ high < 0 => SumOver(f) # 0 /\ Cardinality(pairs) > 0
      BY <1>3, <2>4, <2>5, <2>6, <2>7
    <3> HIDE DEF interval
    <3>2. r.significant = (low > 0 \/ high < 0)
      BY <1>1, <2>3, Zenon
    <3> QED
      BY <3>1, <3>2, Zenon
  <2> QED
    BY <1>1, <1>3, <2>8 DEF Readable, r
<1> QED
  BY <1>4, <1>5

\* The sides of every comparison are of one or two configurations.
LEMMA SidesAreFew ==
  ASSUME NEW cmp \in Range(Comparisons)
  PROVE  IsFiniteSet(cmp.plus) /\ IsFiniteSet(cmp.minus)
<1>1. ASSUME NEW a, NEW b PROVE IsFiniteSet({a}) /\ IsFiniteSet({a, b})
  <2>1. IsFiniteSet({a})
    BY FS_Singleton
  <2>2. IsFiniteSet({a} \cup {b})
    BY <2>1, FS_AddElement
  <2>3. {a} \cup {b} = {a, b}
    OBVIOUS
  <2> QED
    BY <2>1, <2>2, <2>3
<1>2. \E name, a, b, c, d : \/ cmp = Comparison(name, {a}, {b})
                            \/ cmp = Comparison(name, {a, b}, {c, d})
  BY TenComparisons
<1>3. PICK name, a, b, c, d : \/ cmp = Comparison(name, {a}, {b})
                              \/ cmp = Comparison(name, {a, b}, {c, d})
  BY <1>2
<1>4. \/ cmp.plus = {a} /\ cmp.minus = {b}
      \/ cmp.plus = {a, b} /\ cmp.minus = {c, d}
  BY <1>3 DEF Comparison
<1>5. IsFiniteSet({a}) /\ IsFiniteSet({b}) /\ IsFiniteSet({a, b}) /\ IsFiniteSet({c, d})
  BY <1>1, Zenon
<1>6. CASE cmp.plus = {a} /\ cmp.minus = {b}
  BY <1>5, <1>6, Zenon
<1>7. CASE cmp.plus = {a, b} /\ cmp.minus = {c, d}
  BY <1>5, <1>7, Zenon
<1> QED
  BY <1>4, <1>6, <1>7, Zenon

\* Every row shown is readable, whatever values the runs have.
LEMMA ShownReadable ==
  ASSUME Inv, DataInv, NEW r \in Range(ContributionsShown)
  PROVE  Readable(r)
<1>1. PICK cmp \in Range(Comparisons), m \in Range(METRICS) :
        r = StatRow(OkRuns, "overall", cmp, m)
  BY ShownRows DEF OkRuns
<1>2. parts["contributions"].state = "whole"
  BY ShownRows
<1> DEFINE labels == cmp.plus \cup cmp.minus
           pairs == PairsOf(OkRuns, labels)
<1>3. /\ DOMAIN OkRuns \subseteq DOMAIN history[1]
      /\ \A cell \in DOMAIN OkRuns : OkRuns[cell] \in RunRow
  BY <1>2, RowsBehind
<1>4. IsFiniteSet(pairs)
  <2>1. pairs \in SUBSET AllPairs
    BY <1>3 DEF PairsOf, AllPairs
  <2> QED
    BY <2>1, FewPairs, FS_Subset
<1>5. ASSUME NEW p \in pairs PROVE Delta(OkRuns, cmp, m, p) \in Int
  <2>1. ASSUME NEW l \in labels PROVE ValueAt(OkRuns, p, l, m) \in Int
    <3>1. <<p[1], l, p[2]>> \in DOMAIN OkRuns
      BY DEF PairsOf
    <3>2. OkRuns[<<p[1], l, p[2]>>] \in RunRow
      BY <1>3, <3>1
    <3> QED
      BY <3>2 DEF ValueAt, RunRow
  <2> DEFINE plus == [l \in cmp.plus |-> ValueAt(OkRuns, p, l, m)]
             minus == [l \in cmp.minus |-> ValueAt(OkRuns, p, l, m)]
  <2>2. plus \in [cmp.plus -> Int] /\ minus \in [cmp.minus -> Int]
    BY <2>1
  <2>3. Delta(OkRuns, cmp, m, p) = SumOver(plus) - SumOver(minus)
    BY DEF Delta
  <2> HIDE DEF plus, minus
  <2>4. SumOver(plus) \in Int /\ SumOver(minus) \in Int
    BY <2>2, SidesAreFew, SumOverIsInt
  <2> QED
    BY <2>3, <2>4
<1> HIDE DEF pairs, labels
<1>6. Readable(StatRow(OkRuns, "overall", cmp, m))
  BY <1>4, <1>5, RowIsReadable DEF pairs, labels
<1> QED
  BY <1>1, <1>6

\* A component has one row of a metric.
LEMMA OneRow ==
  ASSUME NEW r \in Range(ContributionsShown), NEW s \in Range(ContributionsShown),
         r.component = s.component, r.metric = s.metric
  PROVE  r = s
<1>1. PICK c \in Range(Comparisons), k \in Range(METRICS) : r = StatRow(OkRuns, "overall", c, k)
  BY ShownRows DEF OkRuns
<1>2. PICK d \in Range(Comparisons), l \in Range(METRICS) : s = StatRow(OkRuns, "overall", d, l)
  BY ShownRows DEF OkRuns
<1>3. r.component = c.component /\ r.metric = k /\ s.component = d.component /\ s.metric = l
  BY <1>1, <1>2 DEF StatRow
<1>4. c = d /\ k = l
  BY <1>3, OneComparison
<1> QED
  BY <1>1, <1>2, <1>4

-----------------------------------------------------------------------------
(***************************************************************************)
(* The winners of the headline                                             *)
(***************************************************************************)

\* The greater of two means, in absolute value, is found by multiplying crosswise: of rows
\* that have pairs that is a strict order.
LEMMA CrossProducts ==
  ASSUME NEW a \in Nat, NEW b \in Nat, NEW c \in Nat,
         NEW p \in Nat \ {0}, NEW q \in Nat \ {0}, NEW t \in Nat \ {0},
         a * q > b * p, b * t > c * q
  PROVE  a * t > c * p
<1>1. (a * q) * t > (b * p) * t
  <2>1. a * q \in Nat /\ b * p \in Nat /\ t \in Nat /\ t > 0
    OBVIOUS
  <2> DEFINE x == a * q
             y == b * p
  <2>2. x \in Nat /\ y \in Nat /\ x > y
    BY <2>1
  <2> HIDE DEF x, y
  <2>3. x * t > y * t
    BY <2>1, <2>2
  <2> QED
    BY <2>3 DEF x, y
<1>2. (b * t) * p > (c * q) * p
  <2>1. b * t \in Nat /\ c * q \in Nat /\ p \in Nat /\ p > 0
    OBVIOUS
  <2> DEFINE x == b * t
             y == c * q
  <2>2. x \in Nat /\ y \in Nat /\ x > y
    BY <2>1
  <2> HIDE DEF x, y
  <2>3. x * p > y * p
    BY <2>1, <2>2
  <2> QED
    BY <2>3 DEF x, y
<1>3. /\ (a * q) * t = (a * t) * q /\ (b * p) * t = (b * t) * p
      /\ (c * q) * p = (c * p) * q
  OBVIOUS
<1> DEFINE x == a * t
           y == c * p
           z == (b * t) * p
<1>4. x \in Nat /\ y \in Nat /\ z \in Nat /\ x * q > z /\ z > y * q
  BY <1>1, <1>2, <1>3
<1> HIDE DEF x, y, z
<1>5. x * q \in Nat /\ y * q \in Nat /\ x * q > y * q
  BY <1>4
<1>6. x > y
  <2>1. SUFFICES ASSUME x <= y PROVE FALSE
    BY <1>4
  <2>2. x * q <= y * q
    BY <1>4, <2>1
  <2> QED
    BY <1>5, <2>2
<1> QED
  BY <1>6 DEF x, y

\* Of rows that have pairs, to be stronger is a strict order.
LEMMA StrongerIsStrict ==
  /\ \A r : r.sum \in Int /\ r.n \in Nat => ~ Stronger(r, r)
  /\ \A r, s, t : /\ r.sum \in Int /\ s.sum \in Int /\ t.sum \in Int
                  /\ r.n \in Nat \ {0} /\ s.n \in Nat \ {0} /\ t.n \in Nat \ {0}
                  /\ Stronger(r, s) /\ Stronger(s, t)
                  => Stronger(r, t)
<1>1. \A x \in Int : Abs(x) \in Nat
  BY DEF Abs
<1>2. ASSUME NEW r, r.sum \in Int, r.n \in Nat PROVE ~ Stronger(r, r)
  <2> DEFINE x == Abs(r.sum) * r.n
  <2>1. x \in Int
    BY <1>1, <1>2
  <2> HIDE DEF x
  <2>2. ~ (x > x)
    BY <2>1
  <2> QED
    BY <2>2 DEF Stronger, x
<1>3. ASSUME NEW r, NEW s, NEW t, r.sum \in Int, s.sum \in Int, t.sum \in Int,
             r.n \in Nat \ {0}, s.n \in Nat \ {0}, t.n \in Nat \ {0},
             Stronger(r, s), Stronger(s, t)
      PROVE  Stronger(r, t)
  <2> DEFINE a == Abs(r.sum)
             b == Abs(s.sum)
             c == Abs(t.sum)
             p == r.n
             q == s.n
             u == t.n
  <2>1. a \in Nat /\ b \in Nat /\ c \in Nat /\ p \in Nat \ {0} /\ q \in Nat \ {0} /\ u \in Nat \ {0}
    BY <1>1, <1>3
  <2>2. a * q > b * p /\ b * u > c * q
    BY <1>3 DEF Stronger
  <2> HIDE DEF a, b, c, p, q, u
  <2>3. a * u > c * p
    BY <2>1, <2>2, CrossProducts
  <2> QED
    BY <2>3 DEF Stronger, a, c, p, u
<1> QED
  BY <1>2, <1>3

\* The row Strongest picks is one of the rows, and no row is stronger; of no rows it
\* picks none.
LEMMA StrongestIs ==
  ASSUME NEW X, NEW rows \in Seq(X),
         \A r \in Range(rows) : r.sum \in Int /\ r.n \in Nat \ {0}
  PROVE  /\ Strongest(rows) \in Seq(X)
         /\ Range(Strongest(rows)) \subseteq Range(rows)
         /\ rows # <<>> => \E w \in Range(Strongest(rows)) :
                             \A r \in Range(rows) : ~ Stronger(r, w)
<1> DEFINE all == Range(rows)
           unbeaten == {r \in all : \A s \in all : ~ Stronger(s, r)}
           best == Filter(rows, unbeaten)
<1>1. Strongest(rows) = IF best = <<>> THEN <<>> ELSE <<Head(best)>>
  BY DEF Strongest
<1>2. best \in Seq(X) /\ Range(best) = all \cap unbeaten
  BY FilterRange
<1> HIDE DEF best
<1>3. CASE best = <<>>
  <2>1. Strongest(rows) = <<>>
    BY <1>1, <1>3
  <2>2. Range(Strongest(rows)) = {}
    BY <2>1 DEF Range
  <2>3. unbeaten = {}
    <3>1. Range(best) = {}
      BY <1>3 DEF Range
    <3>2. unbeaten \subseteq all
      OBVIOUS
    <3> QED
      BY <1>2, <3>1, <3>2
  <2>4. ASSUME rows # <<>> PROVE FALSE
    <3> DEFINE R == {p \in all \X all : Stronger(p[1], p[2])}
    <3>1. IsFiniteSet(all) /\ all # {}
      BY <2>4, FewMembers
    <3>2. \A x, y \in all : <<x, y>> \in R <=> Stronger(x, y)
      OBVIOUS
    <3> HIDE DEF R
    <3>3. StrictOrder(R, all)
      <4>1. \A x \in all : <<x, x>> \notin R
        BY <3>2, StrongerIsStrict
      <4>2. ASSUME NEW x \in all, NEW y \in all, NEW z \in all,
                   <<x, y>> \in R, <<y, z>> \in R
            PROVE  <<x, z>> \in R
        <5>1. Stronger(x, y) /\ Stronger(y, z)
          BY <3>2, <4>2
        <5>2. Stronger(x, z)
          BY <5>1, StrongerIsStrict
        <5> QED
          BY <3>2, <5>2
      <4> QED
        BY <4>1, <4>2 DEF StrictOrder
    <3> HIDE DEF all
    <3>4. PICK x : FirstIn(R, all, x)
      BY <3>1, <3>3, FirstExists
    <3>5. x \in all /\ \A s \in all : ~ Stronger(s, x)
      BY <3>2, <3>4 DEF FirstIn
    <3> QED
      BY <2>3, <3>5
  <2>5. <<>> \in Seq(X)
    OBVIOUS
  <2> QED
    BY <2>1, <2>2, <2>4, <2>5
<1>4. CASE best # <<>>
  <2> DEFINE w == Head(best)
  <2>1. w \in X /\ w \in Range(best)
    <3>1. Len(best) \in Nat /\ Len(best) # 0 /\ DOMAIN best = 1 .. Len(best)
      BY <1>2, <1>4, EmptySeq
    <3>2. 1 \in DOMAIN best /\ w = best[1]
      BY <1>2, <1>4, <3>1
    <3> QED
      BY <1>2, <3>1, <3>2 DEF Range
  <2>2. w \in all /\ \A r \in all : ~ Stronger(r, w)
    BY <1>2, <2>1
  <2>3. Strongest(rows) = <<w>>
    BY <1>1, <1>4
  <2> HIDE DEF w
  <2>4. Strongest(rows) \in Seq(X) /\ Range(Strongest(rows)) = {w}
    BY <2>1, <2>3 DEF Range
  <2> QED
    BY <2>2, <2>4
<1> QED
  BY <1>3, <1>4

\* The rows of the headline are rows of the table.
LEMMA HeadlineIs ==
  ASSUME NEW X, NEW table \in Seq(X)
  PROVE  /\ HeadlineRows(table) \in Seq({r \in Range(table) : OnHeadline(r)})
         /\ Range(HeadlineRows(table)) \subseteq {r \in Range(table) : OnHeadline(r)}
<1> DEFINE Y == {r \in Range(table) : OnHeadline(r)}
           lists == [m \in DOMAIN HeadlineMetrics |-> RowsOfMetric(table, HeadlineMetrics[m])]
<1>1. DOMAIN HeadlineMetrics = 1 .. 3
      /\ \A m \in 1 .. 3 : HeadlineMetrics[m] \in Range(HeadlineMetrics)
  BY DEF HeadlineMetrics, Range
<1>2. ASSUME NEW m \in 1 .. 3 PROVE RowsOfMetric(table, HeadlineMetrics[m]) \in Seq(Y)
  <2> DEFINE S == {row \in Range(table) : row.metric = HeadlineMetrics[m]}
             t == Filter(table, S)
  <2>1. t \in Seq(X) /\ Range(t) = Range(table) \cap S
    BY FilterRange
  <2>2. S \subseteq Y
    BY <1>1 DEF OnHeadline
  <2>3. RowsOfMetric(table, HeadlineMetrics[m]) = t
    BY DEF RowsOfMetric
  <2> HIDE DEF t, S, Y
  <2>4. \A i \in DOMAIN t : t[i] \in Y
    BY <2>1, <2>2 DEF Range
  <2>5. t \in Seq(Y)
    BY <2>1, <2>4
  <2> QED
    BY <2>3, <2>5
<1>3. lists \in Seq(Seq(Y))
  <2> HIDE DEF Y
  <2>1. \A m \in 1 .. 3 : lists[m] \in Seq(Y)
    BY <1>1, <1>2
  <2> DEFINE all == lists
  <2>2. DOMAIN all = 1 .. 3 /\ all = [m \in 1 .. 3 |-> all[m]]
    BY <1>1
  <2> HIDE DEF lists
  <2> QED
    BY <2>1, <2>2
<1>4. HeadlineRows(table) = FlattenSeq(lists)
  BY DEF HeadlineRows
<1> HIDE DEF lists, Y
<1>5. HeadlineRows(table) \in Seq(Y)
  BY <1>3, <1>4, FlattenOneMore
<1>6. Range(HeadlineRows(table)) \subseteq Y
  BY <1>5 DEF Range
<1> QED
  BY <1>5, <1>6 DEF Y

\* The table shown is a list of its rows.
LEMMA TableShown ==
  ContributionsShown \in Seq(Range(ContributionsShown))
<1> DEFINE table == ContributionsShown
           runs == FilterSuccessful(history[parts["contributions"].revision])
<1>1. \E X : table \in Seq(X)
  <2>1. CASE parts["contributions"].state = "whole"
    <3>1. table = Compute(runs, "overall")
      BY <2>1 DEF ContributionsShown, ComputeOverall
    <3> HIDE DEF table, runs
    <3> QED
      BY <3>1, TableRows
  <2>2. CASE parts["contributions"].state # "whole"
    <3>1. table = <<>>
      BY <2>2 DEF ContributionsShown
    <3>2. table \in Seq({})
      BY <3>1
    <3> QED
      BY <3>2
  <2> QED
    BY <2>1, <2>2
<1> HIDE DEF table
<1>2. PICK X : table \in Seq(X)
  BY <1>1
<1>3. /\ Len(table) \in Nat /\ DOMAIN table = 1 .. Len(table)
      /\ table = [i \in 1 .. Len(table) |-> table[i]]
  BY <1>2
<1>4. \A i \in 1 .. Len(table) : table[i] \in Range(table)
  BY <1>3 DEF Range
<1>5. table \in Seq(Range(table))
  BY <1>3, <1>4
<1> QED
  BY <1>5 DEF table

\* A row is judged by its name alone: it is that of no other row of the table.
LEMMA BucketsAndVerdicts ==
  ASSUME Inv, DataInv, NEW r \in Range(HeadlineRows(ContributionsShown))
  PROVE  LET name   == <<r.component, r.metric>>
             forest == AnalyzeForest(ContributionsShown)
             said   == Insights(ContributionsShown).verdicts
         IN  /\ name \in forest.improve <=> Improves(r)
             /\ name \in forest.harm <=> Harms(r)
             /\ <<r.component, r.metric, "positive">> \in said <=> Improves(r)
             /\ <<r.component, r.metric, "negative">> \in said <=> Harms(r)
<1> DEFINE table == ContributionsShown
           shown == Range(table)
           rows == {x \in shown : OnHeadline(x)}
           head == Range(HeadlineRows(table))
           good == {x \in rows : x.significant /\ IsGood(x.metric, x.sum)}
           bad == {x \in rows \ good : x.significant /\ x.sum # 0}
           name == <<r.component, r.metric>>
           forest == AnalyzeForest(table)
           said == Insights(table).verdicts
<1>1. /\ forest.improve = {<<x.component, x.metric>> : x \in good}
      /\ forest.harm = {<<x.component, x.metric>> : x \in bad}
  BY DEF AnalyzeForest
<1>2. said = {<<x.component, x.metric, VerdictFor(x)>> : x \in head}
  BY DEF Insights
<1>3. head \subseteq rows
  BY TableShown, HeadlineIs
<1> HIDE DEF table, head, forest, said
<1>4. r \in head /\ r \in rows
  BY <1>3 DEF head, table
<1>5. ASSUME NEW x \in shown, NEW y \in shown, x.component = y.component, x.metric = y.metric
      PROVE  x = y
  BY <1>5, OneRow DEF table
<1>6. ASSUME NEW x \in shown
      PROVE  /\ x.significant \in BOOLEAN /\ (x.significant => x.sum # 0)
             /\ VerdictFor(x) = "positive" <=> Improves(x)
             /\ VerdictFor(x) = "negative" <=> Harms(x)
  <2>1. Readable(x)
    BY ShownReadable DEF table
  <2>2. x.significant \in BOOLEAN /\ (x.significant => x.sum # 0)
    BY <2>1 DEF Readable
  <2> QED
    BY <2>2, Judgement
<1>7. r \in good <=> Improves(r)
  BY <1>4 DEF Improves
<1>8. r \in bad <=> Harms(r)
  BY <1>4, <1>6 DEF Harms
<1>9. name \in forest.improve <=> Improves(r)
  <2>1. ASSUME NEW x \in good, <<x.component, x.metric>> = name PROVE x = r
    BY <1>4, <1>5, <2>1
  <2> HIDE DEF good
  <2> QED
    BY <1>1, <1>7, <2>1
<1>10. name \in forest.harm <=> Harms(r)
  <2>1. ASSUME NEW x \in bad, <<x.component, x.metric>> = name PROVE x = r
    BY <1>4, <1>5, <2>1
  <2> HIDE DEF bad
  <2> QED
    BY <1>1, <1>8, <2>1
<1>11. ASSUME NEW x \in head, x.component = r.component, x.metric = r.metric PROVE x = r
  BY <1>3, <1>4, <1>5, <1>11
<1>12. ASSUME NEW tone
       PROVE  <<r.component, r.metric, tone>> \in said <=> VerdictFor(r) = tone
  <2>1. ASSUME <<r.component, r.metric, tone>> \in said PROVE VerdictFor(r) = tone
    <3>1. PICK x \in head : <<r.component, r.metric, tone>> = <<x.component, x.metric, VerdictFor(x)>>
      BY <1>2, <2>1
    <3>2. x.component = r.component /\ x.metric = r.metric /\ VerdictFor(x) = tone
      BY <3>1
    <3> QED
      BY <1>11, <3>2
  <2>2. ASSUME VerdictFor(r) = tone PROVE <<r.component, r.metric, tone>> \in said
    BY <1>2, <1>4, <2>2
  <2> QED
    BY <2>1, <2>2
<1>13. /\ <<r.component, r.metric, "positive">> \in said <=> Improves(r)
       /\ <<r.component, r.metric, "negative">> \in said <=> Harms(r)
  BY <1>4, <1>6, <1>12
<1> QED
  BY <1>9, <1>10, <1>13 DEF forest, said, table

\* The winners of the headline improve, and each row of it that improves has a winner that
\* it is not stronger than: the two parts between them have all these rows.
LEMMA WinnersAreGood ==
  ASSUME Inv, DataInv
  PROVE  LET table    == ContributionsShown
             insights == Insights(table)
             winners  == Range(insights.converged \o insights.raw)
         IN  /\ \A w \in winners : w \in Range(table) /\ Improves(w)
             /\ \A r \in Range(HeadlineRows(table)) :
                  Improves(r) => \E w \in winners : ~ Stronger(r, w)
<1> DEFINE table == ContributionsShown
           rows == HeadlineRows(table)
           good == {r \in Range(rows) : r.significant /\ IsGood(r.metric, r.sum)}
           pure == {r \in Range(rows) : r.component \in PureComponents}
           one == Filter(rows, good \ pure)
           two == Filter(rows, good \cap pure)
           first == Insights(table).converged
           second == Insights(table).raw
           Y == {r \in Range(table) : OnHeadline(r)}
<1>1. first = Strongest(one) /\ second = Strongest(two)
  BY DEF Insights
<1>2. rows \in Seq(Y) /\ Range(rows) \subseteq Y
  BY TableShown, HeadlineIs
<1> HIDE DEF table, rows, first, second
<1>3. \A r \in good : r \in Range(table) /\ Improves(r)
  BY <1>2 DEF Improves
<1>4. \A r \in Range(rows) : Improves(r) => r \in good
  BY DEF Improves
<1>5. ASSUME NEW r \in good PROVE r.sum \in Int /\ r.n \in Nat \ {0}
  <2>1. Readable(r) /\ r.significant
    BY <1>3, ShownReadable DEF table
  <2> QED
    BY <2>1 DEF Readable
<1> DEFINE A == good \ pure
           B == good \cap pure
<1>6. A \subseteq good /\ B \subseteq good /\ good \subseteq A \cup B /\ good \subseteq Range(rows)
  OBVIOUS
<1>7. /\ one = Filter(rows, A) /\ two = Filter(rows, B)
  OBVIOUS
<1> HIDE DEF Y, good, A, B, one, two
<1>8. /\ one \in Seq(Y) /\ Range(one) = A
      /\ two \in Seq(Y) /\ Range(two) = B
  <2>1. /\ one \in Seq(Y) /\ Range(one) = Range(rows) \cap A
        /\ two \in Seq(Y) /\ Range(two) = Range(rows) \cap B
    BY <1>2, <1>7, FilterRange
  <2> QED
    BY <1>6, <2>1
<1>9. /\ first \in Seq(Y) /\ Range(first) \subseteq A
      /\ one # <<>> => \E w \in Range(first) : \A r \in A : ~ Stronger(r, w)
  <2>1. \A r \in Range(one) : r.sum \in Int /\ r.n \in Nat \ {0}
    BY <1>5, <1>6, <1>8
  <2> QED
    BY <1>1, <1>8, <2>1, StrongestIs
<1>10. /\ second \in Seq(Y) /\ Range(second) \subseteq B
       /\ two # <<>> => \E w \in Range(second) : \A r \in B : ~ Stronger(r, w)
  <2>1. \A r \in Range(two) : r.sum \in Int /\ r.n \in Nat \ {0}
    BY <1>5, <1>6, <1>8
  <2> QED
    BY <1>1, <1>8, <2>1, StrongestIs
<1> DEFINE winners == Range(first \o second)
<1>11. winners = Range(first) \cup Range(second)
  BY <1>9, <1>10, ConcatRange
<1> HIDE DEF winners
<1>12. \A w \in winners : w \in Range(table) /\ Improves(w)
  BY <1>3, <1>6, <1>9, <1>10, <1>11
<1>13. ASSUME NEW r \in Range(rows), Improves(r)
       PROVE  \E w \in winners : ~ Stronger(r, w)
  <2>1. r \in good
    BY <1>4, <1>13
  <2>2. CASE r \in A
    <3>1. one # <<>>
      <4>1. one = <<>> => Range(one) = {}
        BY DEF Range
      <4> QED
        BY <1>8, <2>2, <4>1
    <3> QED
      BY <1>9, <1>11, <2>2, <3>1
  <2>3. CASE r \in B
    <3>1. two # <<>>
      <4>1. two = <<>> => Range(two) = {}
        BY DEF Range
      <4> QED
        BY <1>8, <2>3, <4>1
    <3> QED
      BY <1>10, <1>11, <2>3, <3>1
  <2> QED
    BY <1>6, <2>1, <2>2, <2>3
<1> QED
  BY <1>12, <1>13 DEF winners, first, second, rows, table

\* The script and the page, each with its own copy of the rules, judge every row of every
\* batch alike (the interval of a row is the script's for at most three pairs); the headline
\* names effects that improve only, and no effect that improves exceeds all of those it
\* names (analyze_contributions.py:275-280, ablation_report.py:690-728, 799-811, 843-863).
THEOREM JudgedAlike == Spec => []VerdictsAgree
<1>1. ASSUME Inv, DataInv
      PROVE  VerdictsAgree
  <2> DEFINE table == ContributionsShown
             insights == Insights(table)
             forest == AnalyzeForest(table)
             winners == Range(insights.converged \o insights.raw)
  <2>1. ASSUME NEW r \in Range(table)
        PROVE  /\ PointColour(r) = "green" <=> Improves(r)
               /\ PointColour(r) = "red" <=> Harms(r)
    <3>1. r.significant \in BOOLEAN /\ (r.significant => r.sum # 0)
      BY <1>1, ShownReadable DEF Readable
    <3> QED
      BY <3>1, Judgement
  <2>2. Range(HeadlineRows(table)) \subseteq Range(table)
    BY TableShown, HeadlineIs
  <2>3. ASSUME NEW r \in Range(HeadlineRows(table))
        PROVE  /\ <<r.component, r.metric>> \in forest.improve <=> Improves(r)
               /\ <<r.component, r.metric>> \in forest.harm <=> Harms(r)
               /\ <<r.component, r.metric, "positive">> \in insights.verdicts <=> Improves(r)
               /\ <<r.component, r.metric, "negative">> \in insights.verdicts <=> Harms(r)
    BY <1>1, BucketsAndVerdicts
  <2>4. /\ \A w \in winners : w \in Range(table) /\ Improves(w)
        /\ \A r \in Range(HeadlineRows(table)) :
             Improves(r) => \E w \in winners : ~ Stronger(r, w)
    BY <1>1, WinnersAreGood
  <2> HIDE DEF table, insights, forest, winners
  <2>5. ASSUME NEW r \in Range(HeadlineRows(table))
        PROVE  /\ PointColour(r) = "green" <=> <<r.component, r.metric>> \in forest.improve
               /\ PointColour(r) = "green"
                    <=> <<r.component, r.metric, "positive">> \in insights.verdicts
               /\ PointColour(r) = "red" <=> <<r.component, r.metric>> \in forest.harm
               /\ PointColour(r) = "red"
                    <=> <<r.component, r.metric, "negative">> \in insights.verdicts
               /\ PointColour(r) = "green" => \E w \in winners : ~ Stronger(r, w)
    BY <2>1, <2>2, <2>3, <2>4
  <2>6. \A w \in winners : PointColour(w) = "green"
    BY <2>1, <2>4
  <2> QED
    BY <2>5, <2>6 DEF VerdictsAgree, table, insights, forest, winners
<1> QED
  BY <1>1, PageInvariant, DataInvariant, PTL

-----------------------------------------------------------------------------
(***************************************************************************)
(* The views count the same runs                                           *)
(***************************************************************************)

\* What aggregate_runs.py and the evaluation service know of a scenario agrees.
Mirrored(id) ==
  /\ CategoryOf(<<id>>) \in {"normal", "edge", "corner"}
  /\ EXPECTED_LINES[id] = TotalLines(ALL_SCENARIOS[id])

\* The scenarios of each kind, by name.
LEMMA ScenarioNames ==
  /\ DOMAIN NORMAL_SCENARIOS = {"N01", "N02", "N03", "N04", "N05"}
  /\ DOMAIN EDGE_SCENARIOS = {"E01", "E02", "E03", "E04", "E05"}
  /\ DOMAIN CORNER_SCENARIOS = {"C01", "C02", "C03", "C04", "C05", "C06", "C07", "C08"}
BY DEF NORMAL_SCENARIOS, EDGE_SCENARIOS, CORNER_SCENARIOS

\* Their categories, and their lines.
LEMMA ScenarioLines ==
  /\ \A id \in DOMAIN NORMAL_SCENARIOS :
       /\ NORMAL_SCENARIOS[id].category = "normal"
       /\ TotalLines(NORMAL_SCENARIOS[id]) = IF id \in {"N04", "N05"} THEN 8 ELSE 4
  /\ \A id \in DOMAIN EDGE_SCENARIOS :
       EDGE_SCENARIOS[id].category = "edge" /\ TotalLines(EDGE_SCENARIOS[id]) = 4
  /\ \A id \in DOMAIN CORNER_SCENARIOS :
       CORNER_SCENARIOS[id].category = "corner" /\ TotalLines(CORNER_SCENARIOS[id]) = 4
<1>1. \A id \in DOMAIN NORMAL_SCENARIOS :
        /\ NORMAL_SCENARIOS[id].category = "normal"
        /\ TotalLines(NORMAL_SCENARIOS[id]) = IF id \in {"N04", "N05"} THEN 8 ELSE 4
  BY ScenarioNames DEF NORMAL_SCENARIOS, Scenario, TotalLines
<1>2. \A id \in DOMAIN EDGE_SCENARIOS :
        EDGE_SCENARIOS[id].category = "edge" /\ TotalLines(EDGE_SCENARIOS[id]) = 4
  BY ScenarioNames DEF EDGE_SCENARIOS, Scenario, TotalLines
<1>3. \A id \in DOMAIN CORNER_SCENARIOS :
        CORNER_SCENARIOS[id].category = "corner" /\ TotalLines(CORNER_SCENARIOS[id]) = 4
  BY ScenarioNames DEF CORNER_SCENARIOS, Scenario, TotalLines
<1> QED
  BY <1>1, <1>2, <1>3

\* So for every scenario both agree on its lines.
LEMMA ScenariosMirrored == \A id \in DOMAIN ALL_SCENARIOS : Mirrored(id)
<1> DEFINE N == DOMAIN NORMAL_SCENARIOS
           D == DOMAIN EDGE_SCENARIOS
           C == DOMAIN CORNER_SCENARIOS
<1> SUFFICES ASSUME NEW id \in DOMAIN ALL_SCENARIOS PROVE Mirrored(id)
  OBVIOUS
<1>1. DOMAIN ALL_SCENARIOS = N \cup D \cup C
  BY DEF ALL_SCENARIOS
<1>2. /\ id \in D => id \notin N /\ id \notin {"N04", "N05"}
      /\ id \in C => id \notin N /\ id \notin D /\ id \notin {"N04", "N05"}
  BY ScenarioNames
<1>3. /\ id \in N => ALL_SCENARIOS[id] = NORMAL_SCENARIOS[id]
      /\ id \in D => ALL_SCENARIOS[id] = EDGE_SCENARIOS[id]
      /\ id \in C => ALL_SCENARIOS[id] = CORNER_SCENARIOS[id]
  BY <1>1, <1>2 DEF ALL_SCENARIOS
<1>4. EXPECTED_LINES[id] = IF id \in {"N04", "N05"} THEN 8 ELSE 4
  BY DEF EXPECTED_LINES
<1>5. CategoryOf(<<id>>) = ALL_SCENARIOS[id].category
  BY DEF CategoryOf
<1> QED
  BY <1>1, <1>2, <1>3, <1>4, <1>5, ScenarioLines DEF Mirrored

\* Finitely many arguments have finitely many values.
LEMMA FewValues ==
  ASSUME NEW f, IsFiniteSet(DOMAIN f)
  PROVE  IsFiniteSet(Range(f))
<1> DEFINE g == [x \in DOMAIN f |-> f[x]]
<1>1. g \in Surjection(DOMAIN f, Range(f))
  BY DEF Surjection, Range
<1> HIDE DEF g
<1> QED
  BY <1>1, FS_Surjection

\* Of the values of a function there is one that fewer than i lie below and i or more do
\* not exceed: the least one of the latter kind.
LEMMA ValueOfRank ==
  ASSUME NEW f, IsFiniteSet(DOMAIN f), \A x \in DOMAIN f : f[x] \in Int,
         NEW i \in 1 .. Cardinality(DOMAIN f)
  PROVE  \E v \in Range(f) : /\ Cardinality({x \in DOMAIN f : f[x] < v}) < i
                             /\ i <= Cardinality({x \in DOMAIN f : f[x] <= v})
<1> DEFINE X == DOMAIN f
           Below(v) == {x \in X : f[x] < v}
           UpTo(v) == {x \in X : f[x] <= v}
           V == {v \in Range(f) : i <= Cardinality(UpTo(v))}
<1>1. Range(f) \in SUBSET Int /\ IsFiniteSet(Range(f)) /\ \A x \in X : f[x] \in Range(f)
  BY FewValues DEF Range
<1>2. Cardinality(X) \in Nat /\ i \in Nat /\ 1 <= i /\ i <= Cardinality(X)
  BY FS_CardinalityType
<1>3. X # {}
  BY <1>2, FS_EmptySet
<1>4. V # {}
  <2>1. Range(f) # {}
    BY <1>1, <1>3
  <2>2. PICK v \in Range(f) : \A w \in Range(f) : w <= v
    BY <1>1, <2>1, LeastAndGreatest
  <2>3. UpTo(v) = X
    BY <1>1, <2>2
  <2> QED
    BY <1>2, <2>2, <2>3
<1>5. V \in SUBSET Int /\ IsFiniteSet(V)
  BY <1>1, FS_Subset
<1>6. PICK v \in V : \A w \in V : v <= w
  <2> HIDE DEF V
  <2> QED
    BY <1>4, <1>5, LeastAndGreatest
<1>7. Cardinality(Below(v)) < i
  <2>1. CASE Below(v) = {}
    BY <1>2, <2>1, FS_EmptySet
  <2>2. CASE Below(v) # {}
    <3> DEFINE W == {w \in Range(f) : w < v}
    <3>1. W # {} /\ W \in SUBSET Int /\ IsFiniteSet(W)
      BY <1>1, <2>2, FS_Subset
    <3> HIDE DEF W
    <3>2. PICK w \in W : \A u \in W : u <= w
      BY <3>1, LeastAndGreatest
    <3>3. w \in Range(f) /\ w < v /\ w \in Int /\ v \in Int
      BY <1>1, <1>5, <3>2 DEF W
    <3>4. \A x \in X : f[x] < v => f[x] <= w
      BY <1>1, <3>2 DEF W
    <3>5. Below(v) = UpTo(w)
      BY <1>1, <3>3, <3>4
    <3>6. ~ (i <= Cardinality(UpTo(w)))
      BY <1>6, <3>3
    <3>7. Cardinality(UpTo(w)) \in Nat
      BY FS_Subset, FS_CardinalityType
    <3> QED
      BY <1>2, <3>5, <3>6, <3>7
  <2> QED
    BY <2>1, <2>2
<1> QED
  BY <1>6, <1>7

\* The values in ascending order do ascend.
LEMMA AscendingIs ==
  ASSUME NEW f, IsFiniteSet(DOMAIN f), \A x \in DOMAIN f : f[x] \in Int
  PROVE  /\ Ascending(f) \in Seq(Int) /\ Len(Ascending(f)) = Cardinality(DOMAIN f)
         /\ \A i, j \in 1 .. Cardinality(DOMAIN f) : i <= j => Ascending(f)[i] <= Ascending(f)[j]
<1> DEFINE X == DOMAIN f
           n == Cardinality(X)
           Below(v) == {x \in X : f[x] < v}
           UpTo(v) == {x \in X : f[x] <= v}
           below == [v \in Range(f) |-> Cardinality(Below(v))]
           upTo == [v \in Range(f) |-> Cardinality(UpTo(v))]
           Fits(i, v) == Cardinality(Below(v)) < i /\ i <= Cardinality(UpTo(v))
           Value(i) == CHOOSE v \in Range(f) : below[v] < i /\ i <= upTo[v]
           ranked == [i \in 1 .. n |-> Value(i)]
<1>1. n \in Nat
  BY FS_CardinalityType
<1>2. \A v \in Range(f) : v \in Int
  BY DEF Range
<1>3. Ascending(f) = ranked
  BY DEF Ascending
<1>4. \A i \in 1 .. n : ranked[i] \in Range(f) /\ Fits(i, ranked[i])
  <2> SUFFICES ASSUME NEW i \in 1 .. n PROVE ranked[i] \in Range(f) /\ Fits(i, ranked[i])
    OBVIOUS
  <2>1. \E v \in Range(f) : Fits(i, v)
    BY ValueOfRank
  <2>2. \A v \in Range(f) : below[v] = Cardinality(Below(v)) /\ upTo[v] = Cardinality(UpTo(v))
    OBVIOUS
  <2>3. ranked[i] = CHOOSE v \in Range(f) : below[v] < i /\ i <= upTo[v]
    OBVIOUS
  <2> HIDE DEF ranked, below, upTo
  <2>4. \E v \in Range(f) : below[v] < i /\ i <= upTo[v]
    BY <2>1, <2>2
  <2>5. ranked[i] \in Range(f) /\ below[ranked[i]] < i /\ i <= upTo[ranked[i]]
    BY <2>3, <2>4
  <2> QED
    BY <2>2, <2>5
<1>5. DOMAIN ranked = 1 .. n
  OBVIOUS
<1>6. ranked \in Seq(Int) /\ Len(ranked) = n
  <2>1. \A i \in 1 .. n : ranked[i] \in Int
    BY <1>2, <1>4
  <2> HIDE DEF Value
  <2>2. ranked = [i \in 1 .. n |-> ranked[i]]
    OBVIOUS
  <2> HIDE DEF ranked
  <2> QED
    BY <1>1, <2>1, <2>2, <1>5
<1> HIDE DEF ranked
<1>7. ASSUME NEW i \in 1 .. n, NEW j \in 1 .. n, i <= j PROVE ranked[i] <= ranked[j]
  <2> DEFINE v == ranked[i]
             w == ranked[j]
  <2>1. v \in Int /\ w \in Int /\ Fits(i, v) /\ Fits(j, w)
    BY <1>2, <1>4
  <2> HIDE DEF v, w
  <2>2. CASE w < v
    <3>1. UpTo(w) \subseteq Below(v)
      BY <2>1, <2>2
    <3>2. IsFiniteSet(Below(v)) /\ IsFiniteSet(UpTo(w))
      BY FS_Subset
    <3>3. /\ Cardinality(UpTo(w)) <= Cardinality(Below(v))
          /\ Cardinality(UpTo(w)) \in Nat /\ Cardinality(Below(v)) \in Nat
      BY <3>1, <3>2, FS_Subset, FS_CardinalityType
    <3> QED
      BY <1>1, <1>7, <2>1, <3>3
  <2> QED
    BY <2>1, <2>2 DEF v, w
<1> QED
  BY <1>3, <1>6, <1>7

\* The lesser and the greater of two numbers.
LEMMA OfTwo ==
  ASSUME NEW a \in Int, NEW b \in Int
  PROVE  Min({a, b}) = (IF a <= b THEN a ELSE b) /\ Max({a, b}) = (IF a <= b THEN b ELSE a)
<1>1. \E x \in {a, b} : \A y \in {a, b} : x <= y
  OBVIOUS
<1>2. \E x \in {a, b} : \A y \in {a, b} : x >= y
  OBVIOUS
<1>3. Min({a, b}) \in {a, b} /\ \A y \in {a, b} : Min({a, b}) <= y
  BY <1>1 DEF Min
<1>4. Max({a, b}) \in {a, b} /\ \A y \in {a, b} : Max({a, b}) >= y
  BY <1>2 DEF Max
<1> QED
  BY <1>3, <1>4

\* The value d quarters of the way from the j-th to the next one.
Between(values, j, d) == values[j] * (4 - d) + values[j + 1] * d

\* It lies between the two, the further on the more quarters.
LEMMA QuartersAscend ==
  ASSUME NEW a \in Int, NEW b \in Int, a <= b, NEW d \in 0 .. 4, NEW e \in 0 .. 4, d <= e
  PROVE  /\ a * (4 - d) + b * d \in Int /\ a * (4 - e) + b * e \in Int
         /\ 4 * a <= a * (4 - d) + b * d
         /\ a * (4 - d) + b * d <= a * (4 - e) + b * e
         /\ a * (4 - e) + b * e <= 4 * b
<1> DEFINE At(x) == a * (4 - x) + b * x
<1>1. At(0) = 4 * a /\ At(4) = 4 * b
  OBVIOUS
<1>2. At(1) = 3 * a + b /\ At(2) = 2 * a + 2 * b /\ At(3) = a + 3 * b
  OBVIOUS
<1>3. /\ d = 0 \/ d = 1 \/ d = 2 \/ d = 3 \/ d = 4
      /\ e = 0 \/ e = 1 \/ e = 2 \/ e = 3 \/ e = 4
  OBVIOUS
<1> HIDE DEF At
<1>4. At(d) \in Int /\ At(e) \in Int /\ 4 * a <= At(d) /\ At(d) <= At(e) /\ At(e) <= 4 * b
  BY <1>1, <1>2, <1>3
<1> QED
  BY <1>4 DEF At

\* The i-th quartile is d quarters behind the j-th value.
Lies(values, i, j, d) ==
  /\ Quartile(values, i) = Between(values, j, d)
  /\ 4 * j + d = i * (Len(values) + 1)
  /\ Len(values) = 2 => j = 1
  /\ Len(values) > 2 => d \in 0 .. 4

\* The exclusive method puts the i-th quartile i times n + 1 quarters behind a value
\* before the first, and takes the two values around it, or the nearest two.
LEMMA QuartileIs ==
  ASSUME NEW values \in Seq(Int), Len(values) >= 2, NEW i \in 1 .. 3
  PROVE  \E j \in 1 .. Len(values) - 1, d \in Int : Lies(values, i, j, d)
<1> DEFINE n == Len(values)
           k == (i * (n + 1)) \div 4
           low == Min({n - 1, k})
           j == Max({1, low})
           d == i * (n + 1) - j * 4
<1>1. n \in Nat /\ n >= 2
  OBVIOUS
<1>2. Quartile(values, i) = Between(values, j, d)
  BY DEF Quartile, Between
<1>3. k \in Int /\ 4 * k <= i * (n + 1) /\ i * (n + 1) < 4 * k + 4
  <2>1. i = 1 \/ i = 2 \/ i = 3
    OBVIOUS
  <2> QED
    BY <1>1, <2>1
<1> HIDE DEF n, k
<1>4. low = IF n - 1 <= k THEN n - 1 ELSE k
  BY <1>1, <1>3, OfTwo
<1>5. low \in Int
  BY <1>1, <1>3, <1>4
<1> HIDE DEF low
<1>6. j = IF 1 <= low THEN low ELSE 1
  <2>1. Max({1, low}) = IF 1 <= low THEN low ELSE 1
    BY <1>5, OfTwo, 1 \in Int, Zenon
  <2> QED
    BY <2>1
<1>7. j \in 1 .. n - 1 /\ d \in Int /\ 4 * j + d = i * (n + 1) /\ (n = 2 => j = 1)
  <2>1. i = 1 \/ i = 2 \/ i = 3
    OBVIOUS
  <2> HIDE DEF j
  <2>2. j \in 1 .. n - 1
    BY <1>1, <1>3, <1>4, <1>6
  <2> QED
    BY <1>1, <2>1, <2>2
<1>8. n > 2 => d \in 0 .. 4
  <2>1. i = 1 \/ i = 2 \/ i = 3
    OBVIOUS
  <2> HIDE DEF j
  <2>2. j \in Int /\ (j = k \/ (j = 1 /\ k < 1) \/ (j = n - 1 /\ n - 1 <= k))
    BY <1>1, <1>3, <1>4, <1>6, <1>7
  <2> QED
    BY <1>1, <1>3, <2>1, <2>2
<1> HIDE DEF j, d
<1> QED
  BY <1>2, <1>7, <1>8 DEF n, Lies

\* Further on between ascending values is no lower.
LEMMA BetweenAscends ==
  ASSUME NEW values \in Seq(Int), NEW j \in 1 .. Len(values) - 1, NEW k \in 1 .. Len(values) - 1,
         NEW d \in 0 .. 4, NEW e \in 0 .. 4, 4 * j + d <= 4 * k + e,
         \A x, y \in 1 .. Len(values) : x <= y => values[x] <= values[y]
  PROVE  Between(values, j, d) <= Between(values, k, e)
<1>1. /\ values[j] \in Int /\ values[j + 1] \in Int /\ values[k] \in Int /\ values[k + 1] \in Int
      /\ values[j] <= values[j + 1] /\ values[k] <= values[k + 1]
      /\ j < k => values[j + 1] <= values[k]
  <2>1. /\ j \in 1 .. Len(values) /\ j + 1 \in 1 .. Len(values) /\ j <= j + 1
        /\ k \in 1 .. Len(values) /\ k + 1 \in 1 .. Len(values) /\ k <= k + 1
        /\ j < k => j + 1 <= k
    OBVIOUS
  <2>2. \A x \in 1 .. Len(values) : values[x] \in Int
    OBVIOUS
  <2> QED
    BY <2>1, <2>2
<1>2. /\ Between(values, j, d) \in Int /\ Between(values, j, d) <= 4 * values[j + 1]
      /\ Between(values, k, e) \in Int /\ 4 * values[k] <= Between(values, k, e)
  <2>1. d <= d /\ e <= e
    OBVIOUS
  <2>2. /\ values[j] * (4 - d) + values[j + 1] * d \in Int
        /\ values[j] * (4 - d) + values[j + 1] * d <= 4 * values[j + 1]
    BY <1>1, <2>1, QuartersAscend, Zenon
  <2>3. /\ values[k] * (4 - e) + values[k + 1] * e \in Int
        /\ 4 * values[k] <= values[k] * (4 - e) + values[k + 1] * e
    BY <1>1, <2>1, QuartersAscend, Zenon
  <2> QED
    BY <2>2, <2>3 DEF Between
<1>3. CASE j < k
  <2> DEFINE from == Between(values, j, d)
             to == Between(values, k, e)
             a == values[j + 1]
             b == values[k]
  <2>1. a \in Int /\ b \in Int /\ a <= b
    BY <1>1, <1>3
  <2>2. from \in Int /\ to \in Int /\ from <= 4 * a /\ 4 * b <= to
    BY <1>2
  <2> HIDE DEF from, to, a, b
  <2>3. from <= to
    BY <2>1, <2>2
  <2> QED
    BY <2>3 DEF from, to
<1>4. CASE j = k
  <2>1. d <= e
    BY <1>4
  <2>2. values[j] * (4 - d) + values[j + 1] * d <= values[j] * (4 - e) + values[j + 1] * e
    BY <1>1, <2>1, QuartersAscend, Zenon
  <2> QED
    BY <1>4, <2>2 DEF Between
<1>5. CASE k < j
  <2>1. j = k + 1 /\ d = 0 /\ e = 4
    BY <1>5
  <2>2. Between(values, j, 0) = 4 * values[j] /\ Between(values, k, 4) = 4 * values[k + 1]
    <3>1. \A x, y \in Int : x * (4 - 0) + y * 0 = 4 * x /\ x * (4 - 4) + y * 4 = 4 * y
      OBVIOUS
    <3>2. values[j] \in Int /\ values[j + 1] \in Int /\ values[k] \in Int /\ values[k + 1] \in Int
      BY <1>1
    <3> QED
      BY <3>1, <3>2, Zenon DEF Between
  <2> QED
    BY <1>1, <2>1, <2>2
<1> QED
  BY <1>3, <1>4, <1>5

\* So the quartiles are in order, also those of two values, which lie beyond them.
LEMMA QuartilesAscend ==
  ASSUME NEW values \in Seq(Int), Len(values) >= 2,
         \A x, y \in 1 .. Len(values) : x <= y => values[x] <= values[y],
         NEW i \in 1 .. 2
  PROVE  Quartile(values, i) <= Quartile(values, i + 1)
<1>0. i \in 1 .. 3 /\ i + 1 \in 1 .. 3
  OBVIOUS
<1>1. PICK j \in 1 .. Len(values) - 1, d \in Int : Lies(values, i, j, d)
  BY <1>0, QuartileIs
<1>2. PICK k \in 1 .. Len(values) - 1, e \in Int : Lies(values, i + 1, k, e)
  BY <1>0, QuartileIs
<1>3. i = 1 \/ i = 2
  OBVIOUS
<1>4. CASE Len(values) > 2
  <2>1. 4 * j + d <= 4 * k + e
    BY <1>1, <1>2, <1>3 DEF Lies
  <2> QED
    BY <1>1, <1>2, <1>4, <2>1, BetweenAscends DEF Lies
<1>5. CASE Len(values) = 2
  <2>1. j = 1 /\ k = 1 /\ ((d = -1 /\ e = 2) \/ (d = 2 /\ e = 5))
    BY <1>1, <1>2, <1>3, <1>5 DEF Lies
  <2>2. values[1] \in Int /\ values[2] \in Int /\ values[1] <= values[2]
    <3>1. 1 \in 1 .. Len(values) /\ 2 \in 1 .. Len(values)
      BY <1>5
    <3> QED
      BY <3>1
  <2>3. /\ Between(values, 1, -1) = 5 * values[1] - values[2]
        /\ Between(values, 1, 2) = 2 * values[1] + 2 * values[2]
        /\ Between(values, 1, 5) = 5 * values[2] - values[1]
    BY <2>2 DEF Between
  <2>4. Between(values, 1, -1) <= Between(values, 1, 2) /\ Between(values, 1, 2) <= Between(values, 1, 5)
    <3>1. \A x, y \in Int : x <= y => 5 * x - y <= 2 * x + 2 * y /\ 2 * x + 2 * y <= 5 * y - x
      OBVIOUS
    <3> QED
      BY <2>2, <2>3, <3>1, Zenon
  <2>5. Between(values, 1, d) <= Between(values, 1, e)
    BY <2>1, <2>4
  <2> QED
    BY <1>1, <1>2, <2>1, <2>5 DEF Lies
<1>6. Len(values) > 2 \/ Len(values) = 2
  <2>1. Len(values) \in Nat
    OBVIOUS
  <2>2. \A n \in Nat : n >= 2 => n > 2 \/ n = 2
    OBVIOUS
  <2> QED
    BY <2>1, <2>2
<1> QED
  BY <1>4, <1>5, <1>6, Zenon

\* A box lies between its ends.
LEMMA BoxInOrder ==
  ASSUME NEW values \in Seq(Int), Len(values) >= 1,
         \A x, y \in 1 .. Len(values) : x <= y => values[x] <= values[y]
  PROVE  /\ BoxStats(values).low <= BoxStats(values).median
         /\ BoxStats(values).median <= BoxStats(values).high
<1>1. CASE Len(values) < 2
  BY <1>1 DEF BoxStats
<1>2. CASE Len(values) >= 2
  <2>1. BoxStats(values) = [median |-> Quartile(values, 2), low |-> Quartile(values, 1),
                            high   |-> Quartile(values, 3)]
    BY <1>2 DEF BoxStats
  <2>2. Quartile(values, 1) <= Quartile(values, 1 + 1) /\ Quartile(values, 2) <= Quartile(values, 2 + 1)
    BY <1>2, QuartilesAscend
  <2> QED
    BY <2>1, <2>2
<1> QED
  BY <1>1, <1>2

\* The cells of a batch are cells of the matrix, no success is ever lost, and a page is
\* not shown before it has read the runs.
RunsInv ==
  /\ Shown => parts["runs"].state = "whole"
  /\ DOMAIN history[1] \subseteq Cells
  /\ \A i, j \in 1 .. Len(history) : i <= j =>
       \A c \in DOMAIN history[1] : ~ history[i][c].error => ~ history[j][c].error

\* A resumed batch puts a row only into the place of a failed one.
LEMMA ResumeKeepsSuccess == ASSUME Inv, DataInv, RunsInv, ResumeBatch PROVE RunsInv'
<1>1. PICK cell \in {c \in DOMAIN Last(history) : Last(history)[c].error}, row \in Values :
        history' = Append(history, [Last(history) EXCEPT ![cell] = row])
  BY DEF ResumeBatch
<1> DEFINE n == Len(history)
           new == [Last(history) EXCEPT ![cell] = row]
           D == DOMAIN history[1]
<1>2. n \in Nat /\ n >= 1 /\ history \in Seq(Range(history))
  BY DEF Inv, ReportTypeOK, DataInv
<1>3. Last(history) = history[n] /\ n \in 1 .. n /\ history[n] \in [D -> RunRow]
  BY <1>2 DEF Last, DataInv
<1>4. \A c \in D : ~ history[n][c].error => new[c] = history[n][c]
  BY <1>1, <1>3
<1> HIDE DEF new
<1>5. /\ Len(history') = n + 1 /\ history'[n + 1] = new
      /\ \A i \in 1 .. n : history'[i] = history[i]
  BY <1>1, <1>2 DEF new
<1>6. history'[1] = history[1]
  BY <1>2, <1>5
<1>7. ASSUME NEW i \in 1 .. n + 1, NEW j \in 1 .. n + 1, i <= j,
             NEW c \in D, ~ history'[i][c].error
      PROVE  ~ history'[j][c].error
  <2>1. CASE j \in 1 .. n
    <3>1. i \in 1 .. n
      BY <1>7, <2>1
    <3> QED
      BY <1>5, <1>7, <2>1, <3>1 DEF RunsInv
  <2>2. CASE i = n + 1
    <3>1. j = n + 1
      BY <1>2, <1>7, <2>2
    <3> QED
      BY <1>7, <2>2, <3>1
  <2>3. CASE i \in 1 .. n /\ j = n + 1
    <3>1. ~ history[i][c].error /\ i <= n
      BY <1>5, <1>7, <2>3
    <3>2. ~ history[n][c].error
      BY <1>3, <2>3, <3>1 DEF RunsInv
    <3> QED
      BY <1>4, <1>5, <2>3, <3>2
  <2>4. (i \in 1 .. n \/ i = n + 1) /\ (j \in 1 .. n \/ j = n + 1)
    BY <1>2
  <2> QED
    BY <2>1, <2>2, <2>3, <2>4
<1>8. UNCHANGED <<page, parts>>
  BY DEF ResumeBatch, pageVars
<1> QED
  BY <1>5, <1>6, <1>7, <1>8 DEF RunsInv, Shown

\* A page reads the runs last, and is shown then.
LEMMA ShownWithRuns ==
  ASSUME Inv, RunsInv, [Next]_vars
  PROVE  (Shown => parts["runs"].state = "whole")'
<1>1. CASE ReadFile
  <2>1. /\ reader # 0 /\ reader \in 0 .. 4 /\ parts \in [Read -> Files]
        /\ Len(ReadOrder) = 4 /\ ReadOrder[4] = "runs" /\ "runs" \in Read
    BY <1>1 DEF ReadFile, Inv, ReportTypeOK, ReadOrder, Read
  <2>2. CASE reader < 4
    <3>1. page' = page /\ page = "none"
      BY <1>1, <2>1, <2>2 DEF ReadFile, Inv, PageInv
    <3> QED
      BY <3>1 DEF Shown
  <2>3. CASE reader = 4
    <3>1. parts'["runs"] = File("whole", 0, Len(history))
      BY <1>1, <2>1, <2>3 DEF ReadFile
    <3> QED
      BY <3>1 DEF File
  <2> QED
    BY <2>1, <2>2, <2>3
<1>2. CASE RequestPage \/ ReadTornReport
  <2>1. page' # "shown"
    BY <1>2 DEF RequestPage, ReadTornReport
  <2> QED
    BY <2>1 DEF Shown
<1>3. CASE UNCHANGED <<page, parts>>
  BY <1>3 DEF RunsInv, Shown
<1>4. ReadFile \/ RequestPage \/ ReadTornReport \/ UNCHANGED <<page, parts>>
  BY DEF Next, vars, pageVars, ResumeBatch, StartAnalysis, OpenFile, FillFile, AnalysisStops
<1> QED
  BY <1>1, <1>2, <1>3, <1>4

\* So what has succeeded in a content of runs.csv has in every later one.
LEMMA RunsInvariant == Spec => []RunsInv
<1>1. Init => RunsInv
  <2> SUFFICES ASSUME Init PROVE RunsInv
    OBVIOUS
  <2>1. PICK batch \in Batches : history = <<batch>>
    BY DEF Init
  <2>2. Len(history) = 1 /\ history[1] = batch /\ DOMAIN batch \subseteq Cells
    BY <2>1, BatchAssumption
  <2>3. \A i, j \in 1 .. Len(history) : i = 1 /\ j = 1
    BY <2>2
  <2>4. page # "shown"
    BY DEF Init
  <2> QED
    BY <2>2, <2>3, <2>4 DEF RunsInv, Shown
<1>2. ASSUME Inv, DataInv, RunsInv, [Next]_vars PROVE RunsInv'
  <2>1. CASE ResumeBatch
    BY <1>2, <2>1, ResumeKeepsSuccess
  <2>2. CASE UNCHANGED history
    BY <1>2, <2>2, ShownWithRuns DEF RunsInv
  <2>3. ResumeBatch \/ UNCHANGED history
    BY <1>2 DEF vars, Next, StartAnalysis, OpenFile, FillFile, AnalysisStops, RequestPage,
                ReadTornReport, ReadFile
  <2> QED
    BY <2>1, <2>2, <2>3
<1> QED
  BY <1>1, <1>2, PageInvariant, DataInvariant, PTL DEF Spec

\* The runs that did not fail, and those of a configuration.
OkCells(all) == {c \in DOMAIN all : ~ all[c].error}

Ok(all) == [c \in OkCells(all) |-> all[c]]

CellsOf(all, l) == {c \in OkCells(all) : ConfigOf(c) = l}

\* The three programs leave out the same rows.
LEMMA LoadedAlike ==
  ASSUME NEW all
  PROVE  FilterSuccessful(all) = Ok(all) /\ LoadRuns(all) = Ok(all) /\ LoadRunsForSummary(all) = Ok(all)
BY DEF FilterSuccessful, LoadRuns, LoadRunsForSummary, Restrict, Ok, OkCells

\* The rows a batch consists of.
IsBatch(all) ==
  IsFiniteSet(DOMAIN all) /\ DOMAIN all \subseteq Cells /\ all \in [DOMAIN all -> RunRow]

\* Every cell has a category the summary knows.
LEMMA CategoriesKnown ==
  ASSUME NEW c \in Cells
  PROVE  CategoryOf(c) \in {"normal", "edge", "corner"}
<1>1. c[1] \in DOMAIN ALL_SCENARIOS
  BY DEF Cells
<1>2. CategoryOf(c) = CategoryOf(<<c[1]>>)
  BY DEF CategoryOf
<1> QED
  BY <1>1, <1>2, ScenariosMirrored DEF Mirrored

\* The accuracy that is summed up, and the mean it is summed up for.
Accuracies(all, l) == [c \in CellsOf(all, l) |-> all[c].value["meter_accuracy"]]

MeanAccuracy(all, l) == [sum |-> SumOver(Accuracies(all, l)), n |-> Cardinality(CellsOf(all, l))]

\* The cost summary counts the runs that did not fail,
LEMMA CostsAre ==
  ASSUME NEW all
  PROVE  /\ DOMAIN CostSummary(all).perConfig = ConfigsIn(Ok(all))
         /\ \A l \in ConfigsIn(Ok(all)) :
              CostSummary(all).perConfig[l].runs = Cardinality(CellsOf(all, l))
<1> DEFINE ok == Ok(all)
           RunsOf(l) == {c \in DOMAIN ok : ConfigOf(c) = l}
           Tokens(l) == SumOver([c \in RunsOf(l) |-> ok[c].tokens])
           perConfig == [l \in ConfigsIn(ok) |-> [runs |-> Cardinality(RunsOf(l)), tokens |-> Tokens(l)]]
<1>1. CostSummary(all).perConfig = perConfig
  BY LoadedAlike DEF CostSummary
<1>2. \A l : RunsOf(l) = CellsOf(all, l)
  BY DEF Ok, CellsOf
<1> HIDE DEF ok, RunsOf, Tokens
<1> QED
  BY <1>1, <1>2 DEF ok

\* so does the Markdown summary, which has their mean,
LEMMA SummaryIs ==
  ASSUME NEW all, IsBatch(all)
  PROVE  /\ DOMAIN MarkdownSummary(all) = ConfigsIn(Ok(all))
         /\ \A l \in ConfigsIn(Ok(all)) :
              /\ MarkdownSummary(all)[l].overall.n = Cardinality(CellsOf(all, l))
              /\ MarkdownSummary(all)[l].overall.sums["meter_accuracy"] = SumOver(Accuracies(all, l))
<1> DEFINE ok == Ok(all)
           kinds == {"normal", "edge", "corner"}
           Rows(l) == {c \in DOMAIN ok : ConfigOf(c) = l /\ CategoryOf(c) \in kinds}
<1>1. \A l : Rows(l) = CellsOf(all, l)
  BY CategoriesKnown DEF IsBatch, Ok, OkCells, CellsOf
<1>2. ASSUME NEW l
      PROVE  /\ Aggregate(ok, l, kinds).n = Cardinality(CellsOf(all, l))
             /\ Aggregate(ok, l, kinds).sums["meter_accuracy"] = SumOver(Accuracies(all, l))
  <2>1. Aggregate(ok, l, kinds).n = Cardinality(Rows(l))
    BY DEF Aggregate
  <2>2. "meter_accuracy" \in Range(METRICS)
    <3>1. 1 \in DOMAIN METRICS /\ METRICS[1] = "meter_accuracy"
      BY DEF METRICS
    <3> QED
      BY <3>1 DEF Range
  <2>3. Aggregate(ok, l, kinds).sums["meter_accuracy"] =
          SumOver([c \in Rows(l) |-> ok[c].value["meter_accuracy"]])
    BY <2>2 DEF Aggregate
  <2>4. [c \in Rows(l) |-> ok[c].value["meter_accuracy"]] = Accuracies(all, l)
    <3>1. \A c \in CellsOf(all, l) : ok[c] = all[c]
      BY DEF Ok, CellsOf
    <3> HIDE DEF ok, Rows
    <3> QED
      BY <1>1, <3>1 DEF Accuracies
  <2> QED
    BY <1>1, <2>1, <2>3, <2>4
<1>3. DOMAIN MarkdownSummary(all) = ConfigsIn(ok)
  BY LoadedAlike DEF MarkdownSummary
<1>4. ASSUME NEW l \in ConfigsIn(ok)
      PROVE  MarkdownSummary(all)[l].overall = Aggregate(ok, l, kinds)
  BY LoadedAlike DEF MarkdownSummary
<1> HIDE DEF ok
<1> QED
  BY <1>2, <1>3, <1>4 DEF ok

\* and the heatmap judges the configurations by the same mean,
LEMMA BestIs ==
  ASSUME NEW all
  PROVE  AnalyzeHeatmap(LoadRuns(all)).best =
           {l \in ConfigsIn(Ok(all)) :
              \A k \in ConfigsIn(Ok(all)) : NotAbove(MeanAccuracy(all, k), MeanAccuracy(all, l))}
<1> DEFINE ok == Ok(all)
           Of(l) == MeanOf(ok, {c \in DOMAIN ok : ConfigOf(c) = l})
<1>1. AnalyzeHeatmap(LoadRuns(all)).best =
        {l \in ConfigsIn(ok) : \A k \in ConfigsIn(ok) : NotAbove(Of(k), Of(l))}
  BY LoadedAlike DEF AnalyzeHeatmap
<1>2. ASSUME NEW l PROVE Of(l) = MeanAccuracy(all, l)
  <2> DEFINE cells == {c \in DOMAIN ok : ConfigOf(c) = l}
  <2>1. cells = CellsOf(all, l)
    BY DEF Ok, CellsOf
  <2>2. [c \in cells |-> ok[c].value["meter_accuracy"]] = Accuracies(all, l)
    <3>1. \A c \in CellsOf(all, l) : ok[c] = all[c]
      BY DEF Ok, CellsOf
    <3> HIDE DEF ok, cells
    <3> QED
      BY <2>1, <3>1 DEF Accuracies
  <2>3. Of(l) = [sum |-> SumOver([c \in cells |-> ok[c].value["meter_accuracy"]]),
                 n   |-> Cardinality(cells)]
    BY DEF MeanOf
  <2> QED
    BY <2>1, <2>2, <2>3 DEF MeanAccuracy
<1> HIDE DEF Of, ok
<1> QED
  BY <1>1, <1>2 DEF ok

\* and every weak cell is of a configuration that has feedback or has none.
LEMMA WeakCells ==
  ASSUME NEW all, IsBatch(all)
  PROVE  LET heatmap == AnalyzeHeatmap(LoadRuns(all))
         IN  heatmap.weak = heatmap.weakWithFeedback \cup heatmap.weakNoFeedback
<1> DEFINE heatmap == AnalyzeHeatmap(LoadRuns(all))
           ok == Ok(all)
           seen == {<<ConfigOf(c), c[1]>> : c \in DOMAIN ok}
<1>1. /\ heatmap.weak \subseteq seen
      /\ heatmap.weakWithFeedback = {cell \in heatmap.weak : cell[1] \in WithFeedbackConfigs}
      /\ heatmap.weakNoFeedback = {cell \in heatmap.weak : cell[1] \in NoFeedbackConfigs}
  BY LoadedAlike DEF AnalyzeHeatmap
<1>2. \A l \in Range(ConfigLabels) : l \in WithFeedbackConfigs \/ l \in NoFeedbackConfigs
  <2>1. \A i \in DOMAIN ConfigLabels : i \in {1, 2, 3, 4, 5, 6, 7, 8}
    BY DEF ConfigLabels
  <2> QED
    BY <2>1 DEF Range, ConfigLabels, WithFeedbackConfigs, NoFeedbackConfigs
<1>3. \A cell \in seen : cell[1] \in Range(ConfigLabels)
  BY DEF IsBatch, Ok, OkCells, Cells, ConfigOf
<1> HIDE DEF heatmap, seen
<1>4. heatmap.weak = heatmap.weakWithFeedback \cup heatmap.weakNoFeedback
  BY <1>1, <1>2, <1>3
<1> QED
  BY <1>4 DEF heatmap

\* The box of every configuration is in order.
LEMMA BoxesInOrder ==
  ASSUME NEW all, IsBatch(all)
  PROVE  LET box == AnalyzeBox(LoadRuns(all)).stats
         IN  /\ DOMAIN box = ConfigsIn(Ok(all))
             /\ \A l \in ConfigsIn(Ok(all)) :
                  box[l].low <= box[l].median /\ box[l].median <= box[l].high
<1> DEFINE ok == Ok(all)
           box == AnalyzeBox(LoadRuns(all)).stats
<1>1. box = [l \in ConfigsIn(ok) |-> BoxStats(MeterValues(ok, l))]
  BY LoadedAlike DEF AnalyzeBox
<1>2. ASSUME NEW l \in ConfigsIn(ok)
      PROVE  /\ BoxStats(MeterValues(ok, l)).low <= BoxStats(MeterValues(ok, l)).median
             /\ BoxStats(MeterValues(ok, l)).median <= BoxStats(MeterValues(ok, l)).high
  <2> DEFINE f == Accuracies(all, l)
  <2>1. MeterValues(ok, l) = Ascending(f)
    <3> DEFINE cells == {c \in DOMAIN ok : ConfigOf(c) = l}
    <3>1. cells = CellsOf(all, l)
      BY DEF Ok, CellsOf
    <3>2. [c \in cells |-> ok[c].value["meter_accuracy"]] = f
      <4>1. \A c \in CellsOf(all, l) : ok[c] = all[c]
        BY DEF Ok, CellsOf
      <4> HIDE DEF ok, cells
      <4> QED
        BY <3>1, <4>1 DEF Accuracies
    <3>3. MeterValues(ok, l) = Ascending([c \in cells |-> ok[c].value["meter_accuracy"]])
      BY DEF MeterValues
    <3> QED
      BY <3>2, <3>3
  <2>2. DOMAIN f = CellsOf(all, l)
    BY DEF Accuracies
  <2>3. CellsOf(all, l) \subseteq DOMAIN all /\ IsFiniteSet(CellsOf(all, l)) /\ CellsOf(all, l) # {}
    <3>1. CellsOf(all, l) \subseteq DOMAIN all
      BY DEF CellsOf, OkCells
    <3>2. CellsOf(all, l) # {}
      BY DEF CellsOf, ConfigsIn, Ok
    <3> QED
      BY <3>1, <3>2, FS_Subset DEF IsBatch
  <2>4. \A c \in DOMAIN f : f[c] \in Int
    <3>1. "meter_accuracy" \in Range(METRICS)
      <4>1. 1 \in DOMAIN METRICS /\ METRICS[1] = "meter_accuracy"
        BY DEF METRICS
      <4> QED
        BY <4>1 DEF Range
    <3>2. ASSUME NEW c \in CellsOf(all, l) PROVE f[c] \in Int
      <4>1. all[c] \in RunRow
        BY <2>3 DEF IsBatch
      <4>2. all[c].value \in [Range(METRICS) -> Int]
        BY <4>1 DEF RunRow
      <4> QED
        BY <3>1, <4>2 DEF Accuracies
    <3> QED
      BY <2>2, <3>2
  <2> HIDE DEF f
  <2>5. Cardinality(DOMAIN f) \in Nat /\ Cardinality(DOMAIN f) # 0
    BY <2>2, <2>3, FS_CardinalityType, FS_EmptySet
  <2>6. /\ Ascending(f) \in Seq(Int) /\ Len(Ascending(f)) >= 1
        /\ \A x, y \in 1 .. Len(Ascending(f)) : x <= y => Ascending(f)[x] <= Ascending(f)[y]
    BY <2>2, <2>3, <2>4, <2>5, AscendingIs
  <2> QED
    BY <2>1, <2>6, BoxInOrder
<1> HIDE DEF box, ok
<1>3. /\ DOMAIN box = ConfigsIn(ok)
      /\ \A l \in ConfigsIn(ok) : box[l].low <= box[l].median /\ box[l].median <= box[l].high
  BY <1>1, <1>2
<1> QED
  BY <1>3 DEF box, ok

\* The runs a page shows are of a content runs.csv has had.
LEMMA RunsShown ==
  ASSUME Inv, DataInv, RunsInv, Shown
  PROVE  IsBatch(history[parts["runs"].revision])
<1>1. "runs" \in Read
  BY DEF Read
<1>2. parts["runs"] \in Files /\ Known(parts["runs"]) /\ parts["runs"].revision >= 1
  BY <1>1 DEF Inv, ReportTypeOK, KnownInv, DataInv, RunsInv, OfRuns
<1>3. parts["runs"].revision \in 1 .. Len(history)
  BY <1>2 DEF Files, Known
<1> QED
  BY <1>3 DEF DataInv, RunsInv, IsBatch

\* A row compares configurations that have runs, of which it pairs some.
LEMMA TableCounted ==
  ASSUME Inv, DataInv, RunsInv, Shown, NEW r \in Range(ContributionsShown),
         NEW cmp \in Range(Comparisons), cmp.component = r.component,
         NEW l \in cmp.plus \cup cmp.minus
  PROVE  LET all == history[parts["runs"].revision]
         IN  l \in ConfigsIn(Ok(all)) /\ r.n <= Cardinality(CellsOf(all, l))
<1> DEFINE table == parts["contributions"]
           old == history[table.revision]
           all == history[parts["runs"].revision]
           D == DOMAIN history[1]
           pairs == PairsOf(Ok(old), cmp.plus \cup cmp.minus)
<1>1. PICK c \in Possible(Ok(old)), m \in Range(METRICS) : r = StatRow(Ok(old), "overall", c, m)
  BY ShownPossible, LoadedAlike
<1>2. table.state = "whole"
  BY ShownPossible
<1>3. c = cmp /\ l \in ConfigsIn(Ok(old)) /\ r.n = Cardinality(pairs)
  <2>1. c \in Range(Comparisons) /\ (c.plus \cup c.minus) \subseteq ConfigsIn(Ok(old))
    BY DEF Possible
  <2>2. r.component = c.component /\ r.n = Cardinality(PairsOf(Ok(old), c.plus \cup c.minus))
    BY <1>1 DEF StatRow
  <2>3. c = cmp
    BY <2>1, <2>2, OneComparison
  <2> QED
    BY <2>1, <2>2, <2>3
<1>4. /\ table.revision \in 1 .. Len(history) /\ parts["runs"].revision \in 1 .. Len(history)
      /\ table.revision <= parts["runs"].revision
  <2>1. "contributions" \in Read /\ "runs" \in Read
    BY DEF Read
  <2>2. /\ table \in Files /\ Known(table) /\ OfRuns(table)
        /\ parts["runs"] \in Files /\ Known(parts["runs"])
    BY <2>1 DEF Inv, ReportTypeOK, KnownInv, DataInv
  <2>3. table # Torn
    BY <1>2 DEF Torn, File
  <2>4. table.revision <= parts["runs"].revision
    BY <2>3 DEF Inv, PageInv, PageIsNeverAheadOfItsData
  <2>5. table.revision \in Nat /\ parts["runs"].revision \in Nat
    BY <2>2 DEF Files
  <2>6. Len(history) \in Nat
    BY DEF Inv, ReportTypeOK
  <2> QED
    BY <1>2, <2>2, <2>4, <2>5, <2>6 DEF Known, OfRuns
<1>5. old \in [D -> RunRow] /\ all \in [D -> RunRow] /\ IsFiniteSet(D)
  BY <1>4 DEF DataInv
<1>6. OkCells(old) \subseteq OkCells(all) /\ OkCells(all) \subseteq D
  BY <1>4, <1>5 DEF RunsInv, OkCells
<1> HIDE DEF old, all, D
<1>7. l \in ConfigsIn(Ok(all))
  BY <1>3, <1>6 DEF ConfigsIn, Ok
<1>8. Cardinality(pairs) <= Cardinality(CellsOf(all, l))
  <2> DEFINE f == [p \in pairs |-> <<p[1], l, p[2]>>]
  <2>1. \A p \in pairs : <<p[1], l, p[2]>> \in OkCells(old) /\ \E a, b : p = <<a, b>>
    BY DEF PairsOf, Ok, PairOf
  <2>2. \A p \in pairs : f[p] \in CellsOf(all, l)
    BY <1>6, <2>1 DEF CellsOf, ConfigOf
  <2>3. \A p, q \in pairs : f[p] = f[q] => p = q
    BY <2>1
  <2>4. f \in [pairs -> CellsOf(all, l)]
    <3> HIDE DEF pairs
    <3> QED
      BY <2>2
  <2>5. f \in Injection(pairs, CellsOf(all, l))
    <3> HIDE DEF pairs, f
    <3> QED
      BY <2>3, <2>4 DEF Injection, IsInjective
  <2>6. IsFiniteSet(CellsOf(all, l))
    <3>1. CellsOf(all, l) \subseteq D
      BY <1>6 DEF CellsOf
    <3> QED
      BY <1>5, <3>1, FS_Subset
  <2> HIDE DEF f, pairs
  <2> QED
    BY <2>5, <2>6, FS_Injection
<1> HIDE DEF pairs
<1> QED
  BY <1>3, <1>7, <1>8 DEF all

\* Whatever the batch and however often it is resumed, the views of it count the same runs
\* and order the configurations alike.
THEOREM ViewsCountAlike == Spec => []ViewsCountTheSameRuns
<1>1. ASSUME Inv, DataInv, RunsInv PROVE ViewsCountTheSameRuns
  <2> SUFFICES ASSUME Shown PROVE ViewsCountTheSameRuns
    BY DEF ViewsCountTheSameRuns
  <2> DEFINE all == history[parts["runs"].revision]
             counts == CostSummary(all).perConfig
             box == AnalyzeBox(LoadRuns(all)).stats
             heatmap == AnalyzeHeatmap(LoadRuns(all))
             text == MarkdownSummary(all)
             Mean(l) == [sum |-> text[l].overall.sums["meter_accuracy"], n |-> text[l].overall.n]
             configs == ConfigsIn(Ok(all))
  <2>1. CASE parts["report"].revision # parts["runs"].revision
    BY <2>1 DEF ViewsCountTheSameRuns
  <2>2. CASE parts["report"].revision = parts["runs"].revision
    <3>1. IsBatch(all)
      BY <1>1, RunsShown
    <3>2. DOMAIN counts = configs /\ DOMAIN box = configs /\ DOMAIN text = configs
      BY <3>1, CostsAre, SummaryIs, BoxesInOrder
    <3>3. ASSUME NEW l \in configs
          PROVE  /\ counts[l].runs = text[l].overall.n
                 /\ counts[l].runs = Cardinality({c \in DOMAIN all : ConfigOf(c) = l /\ ~ all[c].error})
                 /\ l \in heatmap.best <=> \A k \in configs : NotAbove(Mean(k), Mean(l))
                 /\ box[l].low <= box[l].median /\ box[l].median <= box[l].high
      <4>1. counts[l].runs = Cardinality(CellsOf(all, l)) /\ text[l].overall.n = Cardinality(CellsOf(all, l))
        BY <3>1, CostsAre, SummaryIs
      <4>2. CellsOf(all, l) = {c \in DOMAIN all : ConfigOf(c) = l /\ ~ all[c].error}
        BY DEF CellsOf, OkCells
      <4>3. \A k \in configs : Mean(k) = MeanAccuracy(all, k)
        BY <3>1, SummaryIs DEF MeanAccuracy
      <4>4. l \in heatmap.best <=>
              \A k \in configs : NotAbove(MeanAccuracy(all, k), MeanAccuracy(all, l))
        BY BestIs
      <4>5. l \in heatmap.best <=> \A k \in configs : NotAbove(Mean(k), Mean(l))
        <5> HIDE DEF Mean, configs, heatmap
        <5> QED
          BY <4>3, <4>4
      <4>6. box[l].low <= box[l].median /\ box[l].median <= box[l].high
        BY <3>1, BoxesInOrder
      <4> QED
        BY <4>1, <4>2, <4>5, <4>6
    <3>4. heatmap.weak = heatmap.weakWithFeedback \cup heatmap.weakNoFeedback
      BY <3>1, WeakCells
    <3>5. \A id \in DOMAIN ALL_SCENARIOS : EXPECTED_LINES[id] = TotalLines(ALL_SCENARIOS[id])
      BY ScenariosMirrored DEF Mirrored
    <3>6. ASSUME NEW r \in Range(ContributionsShown), NEW cmp \in Range(Comparisons),
                 cmp.component = r.component, NEW l \in cmp.plus \cup cmp.minus
          PROVE  l \in DOMAIN counts /\ r.n <= counts[l].runs
      <4>1. l \in configs /\ r.n <= Cardinality(CellsOf(all, l))
        BY <1>1, <3>6, TableCounted
      <4>2. counts[l].runs = Cardinality(CellsOf(all, l))
        BY <4>1, CostsAre
      <4> QED
        BY <3>2, <4>1, <4>2
    <3> HIDE DEF counts, box, heatmap, text, Mean, configs
    <3>7. /\ DOMAIN counts = DOMAIN box
          /\ DOMAIN counts = DOMAIN text
          /\ \A l \in DOMAIN counts :
               /\ counts[l].runs = text[l].overall.n
               /\ counts[l].runs = Cardinality({c \in DOMAIN all : ConfigOf(c) = l /\ ~ all[c].error})
               /\ l \in heatmap.best <=> \A k \in DOMAIN counts : NotAbove(Mean(k), Mean(l))
               /\ box[l].low <= box[l].median /\ box[l].median <= box[l].high
      BY <3>2, <3>3
    <3>8. \A r \in Range(ContributionsShown), cmp \in Range(Comparisons) :
            cmp.component = r.component =>
              \A l \in cmp.plus \cup cmp.minus : l \in DOMAIN counts /\ r.n <= counts[l].runs
      BY <3>6
    <3> QED
      BY <3>4, <3>5, <3>7, <3>8
      DEF ViewsCountTheSameRuns, counts, box, heatmap, text, Mean
  <2> QED
    BY <2>1, <2>2
<1> QED
  BY <1>1, PageInvariant, DataInvariant, RunsInvariant, PTL

=============================================================================
