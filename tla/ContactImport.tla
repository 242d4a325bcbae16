---------------------------- MODULE ContactImport ----------------------------
(***************************************************************************)
(* The import of a file of contacts: the modal parses the file and posts   *)
(* its rows a chunk at a time, each when the one before was taken.  A run  *)
(* goes on when its modal is closed, and a modal can start another run     *)
(* while the file of the first is still being read.                        *)
(***************************************************************************)
EXTENDS Integers, Sequences, FiniteSets

CONSTANTS FileRows,           \* bound: the files that are picked, as the numbers of their rows
          NotANumber,         \* what a row has that has no number
          NoColumn,           \* a file without the column of mobiles
          NoFile,             \* none was picked
          IMPORT_CHUNK_ROWS,  \* the rows of a request
          MaxRuns,            \* bound: imports of a behaviour
          MaxModals           \* bound: times the modal is opened

ContactImportAssumption ==
  /\ \A file \in FileRows : Len(file) \in Nat /\ DOMAIN file = 1 .. Len(file)
  /\ {NoColumn, NoFile} \cap FileRows = {}
  /\ IMPORT_CHUNK_ROWS \in Nat \ {0} /\ MaxRuns \in Nat /\ MaxModals \in Nat

VARIABLES
  importer,  \* the modal that is open
  opened,    \* how often it was opened
  runs,      \* the runs of the import
  taken      \* the rows of each run that the API has put into the list

vars == <<importer, opened, runs, taken>>

Runs      == 1 .. MaxRuns
Files     == FileRows \cup {NoColumn}
NO_IMPORTS == [imported |-> 0, updated |-> 0, skipped |-> 0]
Closed    == [open |-> 0, file |-> NoFile, report |-> 0, asking |-> 0, refused |-> FALSE]
NoRun     == [at |-> "no run", modal |-> 0, file |-> NoFile, sent |-> 0, totals |-> NO_IMPORTS,
              answer |-> NO_IMPORTS]

TypeOK ==
  /\ importer.open \in 0 .. opened /\ importer.file \in Files \cup {NoFile}
  /\ importer.report \in 0 .. MaxRuns /\ importer.asking \in 0 .. MaxRuns
  /\ opened \in 0 .. MaxModals
  /\ \A r \in Runs :
       /\ runs[r].at \in {"no run", "reading", "asked", "taken", "failed", "over"}
       /\ taken[r] # {} => taken[r] \subseteq DOMAIN runs[r].file

Init ==
  /\ importer = Closed /\ opened = 0
  /\ runs = [r \in Runs |-> NoRun] /\ taken = [r \in Runs |-> {}]

Least(a, b) == IF a < b THEN a ELSE b

\* The rows of the chunk that follows those that were sent.
chunksOf(file, sent) == (sent + 1) .. Least(sent + IMPORT_CHUNK_ROWS, Len(file))

\* import_contacts: the rows without a number, and those that go into the list: of rows
\* with one number, the last.
Skipped(file, rows) == {i \in rows : file[i] = NotANumber}
Parsed(file, rows) ==
  {i \in rows : file[i] # NotANumber /\ \A j \in rows : j > i => file[j] # file[i]}

\* Of those that go into the list, any may have been there.
Reports(file, rows) ==
  {[imported |-> n, updated |-> Cardinality(Parsed(file, rows)) - n,
    skipped |-> Cardinality(Skipped(file, rows))] : n \in 0 .. Cardinality(Parsed(file, rows))}

withReport(totals, report) == [f \in DOMAIN totals |-> totals[f] + report[f]]

-----------------------------------------------------------------------------
(* The modal                                                               *)

Open ==
  /\ importer.open = 0 /\ opened < MaxModals
  /\ importer' = [Closed EXCEPT !.open = opened + 1]
  /\ opened' = opened + 1
  /\ UNCHANGED <<runs, taken>>

Close ==
  /\ importer.open # 0
  /\ importer' = Closed
  /\ UNCHANGED <<opened, runs, taken>>

\* Another file leaves the report of the last one on show.
Choose(file) ==
  /\ importer.open # 0
  /\ importer' = [importer EXCEPT !.file = file]
  /\ UNCHANGED <<opened, runs, taken>>

\* Only a request under way disables the button, not a file that is being read;
\* a refusal stays on show through the next run.
ImportModal(r) ==
  /\ importer.open # 0 /\ importer.file # NoFile
  /\ importer.asking # 0 => runs[importer.asking].at \notin {"asked", "taken", "failed"}
  /\ runs[r] = NoRun /\ \A p \in Runs : p < r => runs[p] # NoRun
  /\ importer' = [importer EXCEPT !.report = 0]
  /\ runs' = [runs EXCEPT ![r] = [NoRun EXCEPT !.at = "reading", !.modal = importer.open,
                                               !.file = importer.file]]
  /\ UNCHANGED <<opened, taken>>

-----------------------------------------------------------------------------
(* A run                                                                   *)

\* What a run does to its modal, while that is open.
Shows(r, shown) ==
  importer' = IF importer.open = runs[r].modal THEN shown ELSE importer

\* The next chunk is asked for, or the whole file has been and its totals are
\* reported.
Proceed(r, sent, totals) ==
  IF sent < Len(runs[r].file)
    THEN /\ runs' = [runs EXCEPT ![r] = [@ EXCEPT !.at = "asked", !.sent = sent,
                                         !.totals = totals, !.answer = NO_IMPORTS]]
         /\ Shows(r, [importer EXCEPT !.asking = r])
    ELSE /\ runs' = [runs EXCEPT ![r] = [@ EXCEPT !.at = "over", !.sent = sent,
                                         !.totals = totals, !.answer = NO_IMPORTS]]
         /\ Shows(r, [importer EXCEPT !.report = r])

Stop(r) ==
  /\ runs' = [runs EXCEPT ![r].at = "over", ![r].totals = NO_IMPORTS]
  /\ Shows(r, [importer EXCEPT !.refused = TRUE])

\* The file has been read: it has the column of mobiles, or is refused.
importRows(r) ==
  /\ runs[r].at = "reading"
  /\ IF runs[r].file = NoColumn THEN Stop(r) ELSE Proceed(r, 0, NO_IMPORTS)
  /\ UNCHANGED <<opened, taken>>

\* The API puts the chunk into the list and reports on it; it may refuse the chunk, or
\* put some or all of it and fail.
Handle(r) ==
  /\ runs[r].at = "asked"
  /\ LET rows == chunksOf(runs[r].file, runs[r].sent)
         put  == Parsed(runs[r].file, rows)
     IN \/ /\ taken' = [taken EXCEPT ![r] = @ \cup put]
           /\ \E report \in Reports(runs[r].file, rows) :
                runs' = [runs EXCEPT ![r].at = "taken", ![r].answer = report]
        \/ /\ \E some \in SUBSET put : taken' = [taken EXCEPT ![r] = @ \cup some]
           /\ runs' = [runs EXCEPT ![r].at = "failed"]
  /\ UNCHANGED <<importer, opened>>

\* How much of its file a run has sent with the chunk it asked for.
SentBy(r) == Least(runs[r].sent + IMPORT_CHUNK_ROWS, Len(runs[r].file))

\* A chunk that failed is passed over: a mutant of Answered.
AnsweredOnwards(r) ==
  /\ runs[r].at \in {"taken", "failed"}
  /\ LET sent == SentBy(r)
     IN IF runs[r].at = "taken"
          THEN Proceed(r, sent, withReport(runs[r].totals, runs[r].answer))
          ELSE Proceed(r, sent, runs[r].totals)
  /\ UNCHANGED <<opened, taken>>

\* An answer: the run goes on with the next chunk, or stops at the first that is
\* refused; what was taken before it stays taken.
Answered(r) ==
  /\ runs[r].at \in {"taken", "failed"}
  /\ IF runs[r].at = "taken"
       THEN Proceed(r, SentBy(r), withReport(runs[r].totals, runs[r].answer))
       ELSE Stop(r)
  /\ UNCHANGED <<opened, taken>>

-----------------------------------------------------------------------------
Next ==
  \/ Open \/ Close \/ \E file \in Files : Choose(file)
  \/ \E r \in Runs : ImportModal(r) \/ importRows(r) \/ Handle(r) \/ Answered(r)

Spec == Init /\ [][Next]_vars

-----------------------------------------------------------------------------
(* Properties                                                              *)

\* Whether a chunk ends between two rows of a file.
Parted(file, i, j) ==
  \E k \in DOMAIN file : i <= k * IMPORT_CHUNK_ROWS /\ k * IMPORT_CHUNK_ROWS < j

\* The rows with a number that does not come again in their chunk.
LastOfChunk(file, rows) ==
  {i \in rows : /\ file[i] # NotANumber
                /\ \A j \in DOMAIN file : j > i /\ file[j] = file[i] => Parted(file, i, j)}

\* A report on show says that the whole file it is about is in the list, whichever runs
\* and modals came between: it counts each row once, the skipped ones too, but for those
\* whose number comes again in their chunk, of which only the last is put and counted.
ReportMeansAll ==
  importer.report # 0 =>
    LET run  == runs[importer.report]
        rows == DOMAIN run.file
    IN /\ taken[importer.report] = LastOfChunk(run.file, rows)
       /\ run.totals.imported + run.totals.updated = Cardinality(LastOfChunk(run.file, rows))
       /\ run.totals.skipped = Cardinality(Skipped(run.file, rows))
=============================================================================
