------------------------- MODULE ContactImportProofs -------------------------
(***************************************************************************)
(* A lemma about ContactImport that a theorem of the tab rests on: for     *)
(* files of any length, chunks of any size and any number of runs and      *)
(* modals, a run's totals count the rows it has sent, of those with one    *)
(* number in a chunk the last, which are in the list; so a report, which   *)
(* only a run that sent all of its file makes, is about all of it.         *)
(***************************************************************************)
EXTENDS ContactImport, FiniteSetTheorems, TLAPS

Counts == [imported : Nat, updated : Nat, skipped : Nat]

RunState ==
  [at : {"no run", "reading", "asked", "taken", "failed", "over"}, modal : Nat,
   file : Files \cup {NoFile}, sent : Nat, totals : Counts, answer : Counts]

RunType ==
  /\ runs \in [Runs -> RunState]
  /\ taken \in [Runs -> SUBSET Nat]
  /\ importer \in [open : Nat, file : Files \cup {NoFile}, report : Runs \cup {0},
                   asking : Runs \cup {0}, refused : BOOLEAN]
  /\ opened \in Nat

\* Until it is asked for its first chunk, nothing of a run's file was taken.
NothingYet(r) ==
  /\ runs[r].at \in {"no run", "reading"} => taken[r] = {}
  /\ runs[r].at = "reading" => runs[r].file \in Files

\* The totals count so many rows of a file, and what is in the list of them.
Tallies(totals, file, rows) ==
  /\ totals.imported + totals.updated = Cardinality(LastOfChunk(file, rows))
  /\ totals.skipped = Cardinality(Skipped(file, rows))

\* The same of what a chunk was answered.
Answers(answer, file, rows) ==
  /\ answer.imported + answer.updated = Cardinality(Parsed(file, rows))
  /\ answer.skipped = Cardinality(Skipped(file, rows))

\* Whole chunks were sent.
Whole(sent) == \E q \in Nat : sent = q * IMPORT_CHUNK_ROWS

\* A run that asks for a chunk has one to ask for, and its totals count those
\* before it; the answer to a chunk that was taken counts its rows.
InStep(r) ==
  runs[r].at \in {"asked", "taken", "failed"} =>
    LET file == runs[r].file
        sent == runs[r].sent
    IN /\ file \in FileRows /\ sent < Len(file) /\ Whole(sent)
       /\ Tallies(runs[r].totals, file, 1 .. sent)
       /\ runs[r].at = "asked" => taken[r] = LastOfChunk(file, 1 .. sent)
       /\ runs[r].at = "taken" =>
            /\ taken[r] = LastOfChunk(file, 1 .. sent) \cup Parsed(file, chunksOf(file, sent))
            /\ Answers(runs[r].answer, file, chunksOf(file, sent))

\* The run of a report on show is over, with all of its file taken and counted.
ReportIsOver ==
  importer.report # 0 =>
    LET run == runs[importer.report]
    IN /\ run.at = "over"
       /\ taken[importer.report] = LastOfChunk(run.file, DOMAIN run.file)
       /\ Tallies(run.totals, run.file, DOMAIN run.file)

ImportInv ==
  /\ RunType
  /\ \A r \in Runs : NothingYet(r) /\ InStep(r)
  /\ ReportIsOver

-----------------------------------------------------------------------------
(* Chunks                                                                  *)

\* Of two multiples of the rows of a chunk, the greater is that of the greater number.
LEMMA ChunksInOrder ==
  ASSUME ContactImportAssumption, NEW a \in Nat, NEW b \in Nat
  PROVE  /\ a * IMPORT_CHUNK_ROWS \in Nat /\ a <= a * IMPORT_CHUNK_ROWS
         /\ a * IMPORT_CHUNK_ROWS < b * IMPORT_CHUNK_ROWS => a < b
         /\ (a + 1) * IMPORT_CHUNK_ROWS = a * IMPORT_CHUNK_ROWS + IMPORT_CHUNK_ROWS
<1>1. PICK size \in Nat \ {0} : size = IMPORT_CHUNK_ROWS
  BY DEF ContactImportAssumption
<1>2. a * size \in Nat /\ a <= a * size /\ (a + 1) * size = a * size + size
  BY <1>1
<1>3. ASSUME a * size < b * size PROVE a < b
  <2> SUFFICES ASSUME b <= a PROVE FALSE
    OBVIOUS
  <2>1. PICK d \in Nat : a = b + d
    <3>1. a - b \in Nat /\ a = b + (a - b)
      OBVIOUS
    <3>2. QED
      BY <3>1
  <2>2. a * size = b * size + d * size /\ d * size >= 0 /\ b * size \in Nat /\ d * size \in Nat
    BY <1>1, <2>1
  <2>3. QED
    BY <1>2, <1>3, <2>2
<1>4. QED
  BY <1>1, <1>2, <1>3

LEMMA ChunkIsWithin ==
  ASSUME ContactImportAssumption, NEW file \in FileRows, NEW sent \in Nat, sent < Len(file),
         NEW end, end = Least(sent + IMPORT_CHUNK_ROWS, Len(file))
  PROVE  /\ end \in Nat /\ sent < end /\ end <= Len(file)
         /\ chunksOf(file, sent) = (sent + 1) .. end /\ DOMAIN file = 1 .. Len(file)
         /\ end = Len(file) \/ end = sent + IMPORT_CHUNK_ROWS
BY DEF ContactImportAssumption, chunksOf, Least

\* No chunk ends between rows of one, and one does between its rows and those after it.
LEMMA PartedAtEnds ==
  ASSUME ContactImportAssumption, NEW file \in FileRows, NEW sent \in Nat, sent < Len(file),
         Whole(sent), NEW i \in chunksOf(file, sent), NEW j \in DOMAIN file, j > i
  PROVE  Parted(file, i, j) <=> j \notin chunksOf(file, sent)
<1>1. PICK q \in Nat : sent = q * IMPORT_CHUNK_ROWS
  BY DEF Whole
<1>2. PICK end \in Nat : end = Least(sent + IMPORT_CHUNK_ROWS, Len(file))
  BY ChunkIsWithin
<1>3. /\ Len(file) \in Nat /\ chunksOf(file, sent) = (sent + 1) .. end /\ end <= Len(file)
      /\ DOMAIN file = 1 .. Len(file) /\ IMPORT_CHUNK_ROWS \in Nat \ {0}
      /\ end = Len(file) \/ end = sent + IMPORT_CHUNK_ROWS
      /\ end <= sent + IMPORT_CHUNK_ROWS
  BY <1>2, ChunkIsWithin DEF ContactImportAssumption, Least
<1>4. (q + 1) * IMPORT_CHUNK_ROWS = sent + IMPORT_CHUNK_ROWS
  BY <1>1, ChunksInOrder
<1>a. i \in (sent + 1) .. end /\ j \in 1 .. Len(file)
  BY <1>3
<1>b. i \in Nat /\ j \in Nat /\ sent < i /\ i <= end /\ j <= Len(file)
  <2>1. Len(file) \in Nat /\ end \in Nat /\ sent \in Nat
    BY <1>3
  <2>2. QED
    BY ONLY <1>a, <2>1
<1>5. ASSUME j \in chunksOf(file, sent), Parted(file, i, j)
      PROVE  FALSE
  <2>1. PICK k \in DOMAIN file : i <= k * IMPORT_CHUNK_ROWS /\ k * IMPORT_CHUNK_ROWS < j
    BY <1>5 DEF Parted
  <2>2. k \in Nat /\ k * IMPORT_CHUNK_ROWS \in Nat
    <3>1. k \in 1 .. Len(file)
      BY <1>3, <2>1
    <3>2. k \in Nat
      <4>1. Len(file) \in Nat
        BY <1>3
      <4>2. QED
        BY ONLY <3>1, <4>1
    <3>3. QED
      BY <3>2, ChunksInOrder
  <2>3. j <= sent + IMPORT_CHUNK_ROWS
    <3>1. j \in (sent + 1) .. end
      BY <1>3, <1>5
    <3>2. end <= sent + IMPORT_CHUNK_ROWS /\ IMPORT_CHUNK_ROWS \in Nat
      BY <1>3
    <3>3. QED
      BY ONLY end \in Nat, sent \in Nat, <3>1, <3>2
  <2>4. /\ q * IMPORT_CHUNK_ROWS < k * IMPORT_CHUNK_ROWS
        /\ k * IMPORT_CHUNK_ROWS < (q + 1) * IMPORT_CHUNK_ROWS
    <3>1. IMPORT_CHUNK_ROWS \in Nat
      BY <1>3
    <3>2. QED
      BY ONLY sent \in Nat, <1>1, <1>4, <1>b, <2>1, <2>2, <2>3, <3>1
  <2>5. q < k /\ k < q + 1
    BY <2>2, <2>4, ChunksInOrder
  <2>6. QED
    BY <2>2, <2>5
<1>6. ASSUME j \notin chunksOf(file, sent)
      PROVE  Parted(file, i, j)
  <2>1. i \in Nat /\ j \in Nat /\ i <= end /\ end < j /\ j <= Len(file)
    <3>1. j \notin (sent + 1) .. end /\ j > i
      BY <1>3, <1>6
    <3>2. QED
      BY <1>b, <3>1
  <2>2. end = (q + 1) * IMPORT_CHUNK_ROWS
    BY <1>2, <1>3, <1>4, <2>1
  <2>3. q + 1 <= end /\ q + 1 \in Nat
    BY <2>2, ChunksInOrder
  <2>4. q + 1 \in DOMAIN file
    BY <1>2, <1>3, <2>3
  <2>5. QED
    BY <2>1, <2>2, <2>4 DEF Parted
<1>7. QED
  BY <1>5, <1>6

\* What goes into the list of a chunk is what a file has of it, with the chunks before it.
LEMMA ChunkAdds ==
  ASSUME ContactImportAssumption, NEW file \in FileRows, NEW sent \in Nat, sent < Len(file),
         Whole(sent), NEW end, end = Least(sent + IMPORT_CHUNK_ROWS, Len(file))
  PROVE  LET chunk == chunksOf(file, sent)
         IN /\ LastOfChunk(file, 1 .. end) = LastOfChunk(file, 1 .. sent) \cup Parsed(file, chunk)
            /\ Skipped(file, 1 .. end) = Skipped(file, 1 .. sent) \cup Skipped(file, chunk)
            /\ Cardinality(LastOfChunk(file, 1 .. end))
                 = Cardinality(LastOfChunk(file, 1 .. sent)) + Cardinality(Parsed(file, chunk))
            /\ Cardinality(Skipped(file, 1 .. end))
                 = Cardinality(Skipped(file, 1 .. sent)) + Cardinality(Skipped(file, chunk))
<1> DEFINE chunk == chunksOf(file, sent)
<1>1. /\ end \in Nat /\ sent < end /\ end <= Len(file) /\ chunk = (sent + 1) .. end
      /\ DOMAIN file = 1 .. Len(file) /\ Len(file) \in Nat
  BY ChunkIsWithin DEF ContactImportAssumption
<1>2. /\ 1 .. end = (1 .. sent) \cup chunk /\ (1 .. sent) \cap chunk = {}
      /\ chunk \subseteq DOMAIN file
  BY <1>1
<1>3. \A i \in chunk, j \in DOMAIN file : j > i => (Parted(file, i, j) <=> j \notin chunk)
  BY PartedAtEnds
<1> HIDE DEF chunk
<1>4. LastOfChunk(file, chunk) = Parsed(file, chunk)
  BY <1>2, <1>3 DEF LastOfChunk, Parsed
<1>5. LastOfChunk(file, 1 .. end) = LastOfChunk(file, 1 .. sent) \cup LastOfChunk(file, chunk)
  BY <1>2 DEF LastOfChunk
<1>6. Skipped(file, 1 .. end) = Skipped(file, 1 .. sent) \cup Skipped(file, chunk)
  BY <1>2 DEF Skipped
<1>7. /\ LastOfChunk(file, 1 .. sent) \subseteq 1 .. sent /\ Skipped(file, 1 .. sent) \subseteq 1 .. sent
      /\ Parsed(file, chunk) \subseteq chunk /\ Skipped(file, chunk) \subseteq chunk
  BY DEF LastOfChunk, Skipped, Parsed
<1>8. IsFiniteSet(1 .. sent) /\ IsFiniteSet(chunk)
  BY <1>1, FS_Interval
<1>9. \A S \in SUBSET (1 .. sent), T \in SUBSET chunk :
        Cardinality(S \cup T) = Cardinality(S) + Cardinality(T)
  <2> SUFFICES ASSUME NEW S \in SUBSET (1 .. sent), NEW T \in SUBSET chunk
               PROVE  Cardinality(S \cup T) = Cardinality(S) + Cardinality(T)
    OBVIOUS
  <2>1. IsFiniteSet(S) /\ IsFiniteSet(T) /\ S \cap T = {}
    BY <1>2, <1>8, FS_Subset
  <2>2. Cardinality(S) \in Nat /\ Cardinality(T) \in Nat /\ Cardinality(S \cap T) = 0
    BY <2>1, FS_CardinalityType, FS_EmptySet
  <2>3. Cardinality(S \cup T) = Cardinality(S) + Cardinality(T) - Cardinality(S \cap T)
    BY <2>1, FS_Union
  <2>4. QED
    BY <2>2, <2>3
<1>10. QED
  BY <1>4, <1>5, <1>6, <1>7, <1>9 DEF chunk

\* Of any rows of a file there are so many that go into the list and so many that do not.
LEMMA RowsAreCounted ==
  ASSUME NEW file, NEW m \in Int, NEW n \in Int
  PROVE  /\ Cardinality(Parsed(file, m .. n)) \in Nat
         /\ Cardinality(Skipped(file, m .. n)) \in Nat
<1>1. IsFiniteSet(m .. n) /\ Parsed(file, m .. n) \subseteq m .. n
      /\ Skipped(file, m .. n) \subseteq m .. n
  BY FS_Interval DEF Parsed, Skipped
<1>2. IsFiniteSet(Parsed(file, m .. n)) /\ IsFiniteSet(Skipped(file, m .. n))
  BY <1>1, FS_Subset
<1>3. QED
  BY <1>2, FS_CardinalityType

\* The totals with a report added count the rows of both.
LEMMA TotalsAdd ==
  ASSUME ContactImportAssumption, NEW file \in FileRows, NEW sent \in Nat, sent < Len(file),
         Whole(sent), NEW end, end = Least(sent + IMPORT_CHUNK_ROWS, Len(file)),
         NEW a \in Counts, NEW b \in Counts,
         Tallies(a, file, 1 .. sent), Answers(b, file, chunksOf(file, sent))
  PROVE  withReport(a, b) \in Counts /\ Tallies(withReport(a, b), file, 1 .. end)
<1>1. withReport(a, b) = [imported |-> a.imported + b.imported,
                          updated |-> a.updated + b.updated, skipped |-> a.skipped + b.skipped]
  BY DEF withReport, Counts
<1>2. /\ Cardinality(LastOfChunk(file, 1 .. end))
           = Cardinality(LastOfChunk(file, 1 .. sent)) + Cardinality(Parsed(file, chunksOf(file, sent)))
      /\ Cardinality(Skipped(file, 1 .. end))
           = Cardinality(Skipped(file, 1 .. sent)) + Cardinality(Skipped(file, chunksOf(file, sent)))
  BY ChunkAdds
<1>3. /\ a.imported \in Nat /\ a.updated \in Nat /\ a.skipped \in Nat
      /\ b.imported \in Nat /\ b.updated \in Nat /\ b.skipped \in Nat
  BY DEF Counts
<1>4. withReport(a, b) \in Counts
  BY <1>1, <1>3 DEF Counts
<1>5. /\ a.imported + a.updated = Cardinality(LastOfChunk(file, 1 .. sent))
      /\ b.imported + b.updated = Cardinality(Parsed(file, chunksOf(file, sent)))
      /\ a.skipped = Cardinality(Skipped(file, 1 .. sent))
      /\ b.skipped = Cardinality(Skipped(file, chunksOf(file, sent)))
  BY DEF Tallies, Answers
<1>6. (a.imported + b.imported) + (a.updated + b.updated)
        = (a.imported + a.updated) + (b.imported + b.updated)
  BY <1>3
<1>7. QED
  BY <1>1, <1>2, <1>4, <1>5, <1>6 DEF Tallies

\* A run that gets a new state is still one of the runs.
LEMMA RunMoves ==
  ASSUME RunType, NEW r \in Runs, NEW run \in RunState, runs' = [runs EXCEPT ![r] = run]
  PROVE  /\ runs' \in [Runs -> RunState] /\ runs'[r] = run
         /\ \A p \in Runs : p # r => runs'[p] = runs[p]
  BY DEF RunType

LEMMA NoRunIsState == NoRun \in RunState
<1>1. NO_IMPORTS \in Counts
  BY DEF NO_IMPORTS, Counts
<1>2. QED
  BY <1>1 DEF NoRun, RunState

LEMMA InitHolds == ASSUME ContactImportAssumption PROVE Init => ImportInv
<1> SUFFICES ASSUME Init PROVE ImportInv
  OBVIOUS
<1>1. RunType
  BY NoRunIsState DEF Init, RunType, Closed
<1>2. \A r \in Runs : NothingYet(r) /\ InStep(r)
  BY DEF Init, NothingYet, InStep, NoRun
<1>3. ReportIsOver
  BY DEF Init, ReportIsOver, Closed
<1>4. QED
  BY <1>1, <1>2, <1>3 DEF ImportInv

-----------------------------------------------------------------------------
(* The steps of a run                                                      *)

\* A run that has sent so much, all of it taken and counted, goes on or reports.
LEMMA ProceedHolds ==
  ASSUME ContactImportAssumption, ImportInv, UNCHANGED taken,
         NEW r \in Runs, runs[r].at \in {"reading", "taken"}, runs[r].file \in FileRows,
         NEW sent \in Nat, sent <= Len(runs[r].file), sent < Len(runs[r].file) => Whole(sent),
         taken[r] = LastOfChunk(runs[r].file, 1 .. sent),
         NEW totals \in Counts, Tallies(totals, runs[r].file, 1 .. sent),
         Proceed(r, sent, totals), UNCHANGED opened
  PROVE  ImportInv'
<1> DEFINE run == [at |-> IF sent < Len(runs[r].file) THEN "asked" ELSE "over",
                   modal |-> runs[r].modal, file |-> runs[r].file, sent |-> sent,
                   totals |-> totals, answer |-> NO_IMPORTS]
<1>1. runs[r] \in RunState /\ RunType
  BY DEF ImportInv, RunType
<1>2. NO_IMPORTS \in Counts
  BY DEF NO_IMPORTS, Counts
<1>3. run \in RunState
  BY <1>1, <1>2 DEF RunState
<1>4. runs' = [runs EXCEPT ![r] = run]
  <2>1. CASE sent < Len(runs[r].file)
    BY <1>1, <2>1 DEF Proceed, RunState
  <2>2. CASE ~(sent < Len(runs[r].file))
    BY <1>1, <2>2 DEF Proceed, RunState
  <2>3. QED
    BY <2>1, <2>2
<1>5. /\ runs' \in [Runs -> RunState] /\ runs'[r] = run
      /\ \A p \in Runs : p # r => runs'[p] = runs[p]
  BY <1>1, <1>3, <1>4, RunMoves
<1>6. \/ importer' = importer \/ importer' = [importer EXCEPT !.asking = r]
      \/ /\ run.at = "over"
         /\ importer' = [importer EXCEPT !.report = r]
  <2>1. CASE sent < Len(runs[r].file)
    BY <2>1 DEF Proceed, Shows
  <2>2. CASE ~(sent < Len(runs[r].file))
    BY <2>2 DEF Proceed, Shows
  <2>3. QED
    BY <2>1, <2>2
<1>7. importer'.report = importer.report \/ (run.at = "over" /\ importer'.report = r)
  BY <1>1, <1>6 DEF RunType
<1>8. RunType'
  BY <1>1, <1>5, <1>6 DEF RunType
<1>9. \A p \in Runs : NothingYet(p)' /\ InStep(p)'
  <2>1. NothingYet(r)' /\ InStep(r)'
    BY <1>5 DEF NothingYet, InStep
  <2>2. ASSUME NEW p \in Runs, p # r PROVE NothingYet(p)' /\ InStep(p)'
    BY <1>5, <2>2 DEF NothingYet, InStep, ImportInv
  <2>3. QED
    BY <2>1, <2>2
<1>10. run.at = "over" => 1 .. sent = DOMAIN run.file
  BY DEF ContactImportAssumption
<1>11. ReportIsOver'
  <2>1. CASE importer'.report = r /\ run.at = "over"
    BY <1>5, <1>10, <2>1 DEF ReportIsOver
  <2>2. CASE importer'.report = importer.report
    <3>1. importer'.report # 0 => importer'.report \in Runs /\ importer'.report # r
      BY <1>1, <2>2 DEF ReportIsOver, ImportInv, RunType
    <3>2. QED
      BY <1>5, <2>2, <3>1 DEF ReportIsOver, ImportInv
  <2>3. QED
    BY <1>7, <2>1, <2>2
<1>12. QED
  BY <1>8, <1>9, <1>11 DEF ImportInv

LEMMA StopHolds ==
  ASSUME ImportInv, UNCHANGED <<taken, opened>>, NEW r \in Runs,
         runs[r].at \in {"reading", "failed"}, Stop(r)
  PROVE  ImportInv'
<1> DEFINE run == [runs[r] EXCEPT !.at = "over", !.totals = NO_IMPORTS]
<1>1. runs[r] \in RunState /\ RunType
  BY DEF ImportInv, RunType
<1>2. run \in RunState /\ run.at = "over"
  <2>1. NO_IMPORTS \in Counts
    BY DEF NO_IMPORTS, Counts
  <2>2. QED
    BY <1>1, <2>1 DEF RunState
<1>3. runs' = [runs EXCEPT ![r] = run]
  BY <1>1 DEF Stop, RunState, RunType
<1>4. /\ runs' \in [Runs -> RunState] /\ runs'[r] = run
      /\ \A p \in Runs : p # r => runs'[p] = runs[p]
  BY <1>1, <1>2, <1>3, RunMoves
<1>5. importer' = importer \/ importer' = [importer EXCEPT !.refused = TRUE]
  BY DEF Stop, Shows
<1>6. RunType' /\ importer'.report = importer.report
  BY <1>1, <1>4, <1>5 DEF RunType
<1>7. \A p \in Runs : NothingYet(p)' /\ InStep(p)'
  BY <1>2, <1>4, ZenonT(40) DEF NothingYet, InStep, ImportInv
<1>8. ReportIsOver'
  BY <1>1, <1>4, <1>6 DEF ReportIsOver, ImportInv, RunType
<1>9. QED
  BY <1>6, <1>7, <1>8 DEF ImportInv

LEMMA HandleHolds ==
  ASSUME ContactImportAssumption, ImportInv, NEW r \in Runs, Handle(r)
  PROVE  ImportInv'
<1> DEFINE file == runs[r].file
           sent == runs[r].sent
           rows == chunksOf(file, sent)
           put == Parsed(file, rows)
<1>1. runs[r] \in RunState /\ RunType /\ UNCHANGED <<importer, opened>>
  BY DEF ImportInv, RunType, Handle
<1>2. /\ runs[r].at = "asked" /\ file \in FileRows /\ sent < Len(file) /\ Whole(sent)
      /\ Tallies(runs[r].totals, file, 1 .. sent) /\ taken[r] = LastOfChunk(file, 1 .. sent)
  BY DEF Handle, InStep, ImportInv
<1>3. /\ sent \in Nat /\ put \in SUBSET Nat
      /\ Cardinality(put) \in Nat /\ Cardinality(Skipped(file, rows)) \in Nat
  <2>a. sent \in Nat
    BY <1>1 DEF RunState
  <2>b. PICK end : end = Least(sent + IMPORT_CHUNK_ROWS, Len(file))
    OBVIOUS
  <2>1. sent \in Nat /\ Least(sent + IMPORT_CHUNK_ROWS, Len(file)) \in Nat
    <3>1. file \in FileRows /\ sent < Len(file)
      BY <1>2
    <3> HIDE DEF file, sent
    <3>2. QED
      BY <2>a, <2>b, <3>1, ChunkIsWithin
  <2>2. sent + 1 \in Int /\ rows \subseteq Nat
    BY <2>1 DEF chunksOf
  <2>3. put \subseteq rows
    BY DEF Parsed
  <2>4. Cardinality(put) \in Nat /\ Cardinality(Skipped(file, rows)) \in Nat
    BY <2>1, <2>2, RowsAreCounted DEF chunksOf
  <2>5. QED
    BY <2>1, <2>2, <2>3, <2>4
<1>a. ASSUME Handle(r)
      PROVE  \/ /\ taken' = [taken EXCEPT ![r] = @ \cup put]
                /\ \E report \in Reports(file, rows) :
                     runs' = [runs EXCEPT ![r].at = "taken", ![r].answer = report]
             \/ /\ \E some \in SUBSET put : taken' = [taken EXCEPT ![r] = @ \cup some]
                /\ runs' = [runs EXCEPT ![r].at = "failed"]
  BY <1>a DEF Handle
<1> HIDE DEF file, sent, rows, put
<1>4. \E some \in SUBSET put : taken' = [taken EXCEPT ![r] = @ \cup some]
  BY <1>a
<1>b. /\ taken' \in [Runs -> SUBSET Nat]
      /\ \A p \in Runs : p # r => taken'[p] = taken[p]
  BY <1>1, <1>3, <1>4 DEF RunType
<1>5. ASSUME NEW run \in RunState, runs' = [runs EXCEPT ![r] = run],
             NothingYet(r)', InStep(r)'
      PROVE  ImportInv'
  <2>1. /\ runs' \in [Runs -> RunState] /\ runs'[r] = run
        /\ \A p \in Runs : p # r => runs'[p] = runs[p]
    BY <1>1, <1>5, RunMoves
  <2>2. RunType'
    BY <1>1, <1>b, <2>1 DEF RunType
  <2>3. \A p \in Runs : NothingYet(p)' /\ InStep(p)'
    BY <1>b, <1>5, <2>1, ZenonT(40) DEF NothingYet, InStep, ImportInv
  <2>4. ReportIsOver'
    <3>1. importer.report # 0 => importer.report \in Runs /\ importer.report # r
      BY <1>1, <1>2 DEF ReportIsOver, ImportInv, RunType
    <3>2. QED
      BY <1>1, <1>b, <2>1, <3>1 DEF ReportIsOver, ImportInv
  <2>5. QED
    BY <2>2, <2>3, <2>4 DEF ImportInv
<1>6. CASE runs' = [runs EXCEPT ![r].at = "failed"]
  <2> DEFINE run == [runs[r] EXCEPT !.at = "failed"]
  <2>1. run \in RunState /\ runs' = [runs EXCEPT ![r] = run] /\ runs'[r] = run
    BY <1>1, <1>6 DEF RunState, RunType
  <2>2. run.at = "failed" /\ run.file = file /\ run.sent = sent
        /\ run.totals = runs[r].totals
    BY <1>1 DEF RunState, file, sent
  <2> HIDE DEF run
  <2>3. NothingYet(r)' /\ InStep(r)'
    BY <1>2, <2>1, <2>2 DEF NothingYet, InStep
  <2>4. QED
    BY <1>5, <2>1, <2>3
<1>7. ASSUME NEW report \in Reports(file, rows), taken' = [taken EXCEPT ![r] = @ \cup put],
             runs' = [runs EXCEPT ![r].at = "taken", ![r].answer = report]
      PROVE  ImportInv'
  <2> DEFINE run == [runs[r] EXCEPT !.at = "taken", !.answer = report]
  <2>1. report \in Counts /\ Answers(report, file, rows)
    <3>1. PICK n \in 0 .. Cardinality(put) :
            report = [imported |-> n, updated |-> Cardinality(put) - n,
                      skipped |-> Cardinality(Skipped(file, rows))]
      BY DEF Reports, put
    <3>2. n \in Nat /\ Cardinality(put) - n \in Nat /\ n + (Cardinality(put) - n) = Cardinality(put)
      BY <1>3
    <3>3. QED
      BY <1>3, <3>1, <3>2 DEF Counts, Answers, put
  <2>2. run \in RunState /\ runs' = [runs EXCEPT ![r] = run] /\ runs'[r] = run
    BY <1>1, <1>7, <2>1 DEF RunState, RunType
  <2>3. run.at = "taken" /\ run.file = file /\ run.sent = sent
        /\ run.totals = runs[r].totals /\ run.answer = report
    BY <1>1 DEF RunState, file, sent
  <2> HIDE DEF run
  <2>4. taken'[r] = LastOfChunk(file, 1 .. sent) \cup Parsed(file, chunksOf(file, sent))
    BY <1>1, <1>2, <1>7 DEF RunType, put, rows
  <2>5. NothingYet(r)' /\ InStep(r)'
    BY <1>2, <2>1, <2>2, <2>3, <2>4 DEF NothingYet, InStep, rows
  <2>6. QED
    BY <1>5, <2>2, <2>5
<1>8. QED
  BY <1>6, <1>7, <1>a

LEMMA AnsweredHolds ==
  ASSUME ContactImportAssumption, ImportInv, NEW r \in Runs, Answered(r)
  PROVE  ImportInv'
<1>1. CASE runs[r].at = "taken"
  <2> DEFINE file == runs[r].file
             sent == runs[r].sent
             end == SentBy(r)
  <2>1. /\ file \in FileRows /\ sent \in Nat /\ sent < Len(file) /\ Whole(sent)
        /\ Tallies(runs[r].totals, file, 1 .. sent)
        /\ taken[r] = LastOfChunk(file, 1 .. sent) \cup Parsed(file, chunksOf(file, sent))
        /\ Answers(runs[r].answer, file, chunksOf(file, sent))
        /\ runs[r].totals \in Counts /\ runs[r].answer \in Counts
    BY <1>1 DEF ImportInv, RunType, RunState, InStep
  <2>2. end = Least(sent + IMPORT_CHUNK_ROWS, Len(file))
    BY DEF SentBy
  <2>3. /\ Proceed(r, end, withReport(runs[r].totals, runs[r].answer))
        /\ UNCHANGED <<taken, opened>>
    BY <1>1 DEF Answered
  <2> HIDE DEF end
  <2>4. /\ end \in Nat /\ end <= Len(file)
        /\ end = Len(file) \/ end = sent + IMPORT_CHUNK_ROWS
    BY <2>1, <2>2, ChunkIsWithin
  <2>5. end < Len(file) => Whole(end)
    <3> SUFFICES ASSUME end < Len(file) PROVE Whole(end)
      OBVIOUS
    <3>1. PICK q \in Nat : sent = q * IMPORT_CHUNK_ROWS
      BY <2>1 DEF Whole
    <3>2. end = (q + 1) * IMPORT_CHUNK_ROWS /\ q + 1 \in Nat
      <4>1. Len(file) \in Nat
        BY <2>1 DEF ContactImportAssumption
      <4>2. end = sent + IMPORT_CHUNK_ROWS
        BY <2>4, <4>1
      <4>3. (q + 1) * IMPORT_CHUNK_ROWS = sent + IMPORT_CHUNK_ROWS
        BY <3>1, ChunksInOrder
      <4>4. QED
        BY <4>2, <4>3
    <3>3. QED
      BY <3>2 DEF Whole
  <2>6. /\ withReport(runs[r].totals, runs[r].answer) \in Counts
        /\ Tallies(withReport(runs[r].totals, runs[r].answer), file, 1 .. end)
    BY <2>1, <2>2, TotalsAdd
  <2>7. taken[r] = LastOfChunk(file, 1 .. end)
    BY <2>1, <2>2, ChunkAdds
  <2>8. QED
    BY <1>1, <2>1, <2>3, <2>4, <2>5, <2>6, <2>7, ProceedHolds
<1>2. CASE runs[r].at = "failed"
  BY <1>2, StopHolds DEF Answered
<1>3. QED
  BY <1>1, <1>2 DEF Answered

LEMMA ReadHolds ==
  ASSUME ContactImportAssumption, ImportInv, NEW r \in Runs, importRows(r)
  PROVE  ImportInv'
<1>1. runs[r].at = "reading" /\ taken[r] = {} /\ runs[r].file \in Files
      /\ UNCHANGED <<taken, opened>>
  BY DEF importRows, ImportInv, NothingYet
<1>2. CASE runs[r].file = NoColumn
  BY <1>1, <1>2, StopHolds DEF importRows
<1>3. CASE runs[r].file # NoColumn
  <2>1. runs[r].file \in FileRows /\ Proceed(r, 0, NO_IMPORTS)
    BY <1>1, <1>3 DEF importRows, Files
  <2>2. 1 .. 0 = {} /\ 0 <= Len(runs[r].file)
    BY <2>1 DEF ContactImportAssumption
  <2>3. LastOfChunk(runs[r].file, 1 .. 0) = {} /\ Skipped(runs[r].file, 1 .. 0) = {}
    BY <2>2 DEF LastOfChunk, Skipped
  <2>4. NO_IMPORTS \in Counts /\ Tallies(NO_IMPORTS, runs[r].file, 1 .. 0)
    BY <2>3, FS_EmptySet DEF NO_IMPORTS, Counts, Tallies
  <2>5. Whole(0)
    <3>1. 0 = 0 * IMPORT_CHUNK_ROWS
      BY DEF ContactImportAssumption
    <3>2. QED
      BY <3>1 DEF Whole
  <2>6. QED
    BY <1>1, <2>1, <2>2, <2>3, <2>4, <2>5, ProceedHolds
<1>4. QED
  BY <1>2, <1>3

-----------------------------------------------------------------------------
(* Every step                                                              *)

LEMMA StepHolds ==
  ASSUME ContactImportAssumption PROVE ImportInv /\ [Next]_vars => ImportInv'
<1> SUFFICES ASSUME ImportInv, [Next]_vars PROVE ImportInv'
  OBVIOUS
<1>a. ASSUME UNCHANGED <<runs, taken>>, importer'.report \in {importer.report, 0},
             RunType'
      PROVE  ImportInv'
  BY <1>a DEF ImportInv, NothingYet, InStep, ReportIsOver
<1>b. RunType
  BY DEF ImportInv
<1>1. CASE Open
  <2>1. RunType' /\ importer'.report = 0 /\ UNCHANGED <<runs, taken>>
    <3>1. importer' = [open |-> opened + 1, file |-> NoFile, report |-> 0, asking |-> 0,
                       refused |-> FALSE]
      BY <1>1 DEF Open, Closed
    <3>2. UNCHANGED <<runs, taken>> /\ opened' = opened + 1 /\ opened \in Nat
      BY <1>1, <1>b DEF Open, RunType
    <3>3. QED
      BY <1>b, <3>1, <3>2 DEF RunType
  <2>2. QED
    BY <1>a, <2>1
<1>2. CASE Close
  BY <1>2, <1>a, <1>b DEF Close, Closed, RunType
<1>3. ASSUME NEW file \in Files, Choose(file) PROVE ImportInv'
  BY <1>3, <1>a, <1>b DEF Choose, RunType
<1>4. ASSUME NEW r \in Runs, ImportModal(r) PROVE ImportInv'
  <2> DEFINE run == [NoRun EXCEPT !.at = "reading", !.modal = importer.open,
                                  !.file = importer.file]
  <2>1. importer.open \in Nat /\ importer.file \in Files
    BY <1>4, <1>b DEF ImportModal, RunType
  <2>2. run \in RunState /\ run.at = "reading" /\ run.file = importer.file
    BY <2>1, NoRunIsState DEF RunState
  <2>3. runs' = [runs EXCEPT ![r] = run] /\ runs[r].at = "no run" /\ taken' = taken
    <3>1. runs' = [runs EXCEPT ![r] = run] /\ runs[r] = NoRun /\ taken' = taken
      BY <1>4 DEF ImportModal
    <3>2. NoRun.at = "no run"
      BY DEF NoRun
    <3>3. QED
      BY <3>1, <3>2
  <2>4. /\ runs' \in [Runs -> RunState] /\ runs'[r] = run
        /\ \A p \in Runs : p # r => runs'[p] = runs[p]
    BY <1>b, <2>2, <2>3, RunMoves
  <2>5. RunType' /\ importer'.report = 0
    BY <1>4, <1>b, <2>3, <2>4 DEF ImportModal, RunType
  <2>6. \A p \in Runs : NothingYet(p)' /\ InStep(p)'
    BY <2>1, <2>2, <2>3, <2>4 DEF NothingYet, InStep, ImportInv
  <2>7. QED
    BY <2>5, <2>6 DEF ImportInv, ReportIsOver
<1>5. ASSUME NEW r \in Runs, importRows(r) \/ Handle(r) \/ Answered(r) PROVE ImportInv'
  BY <1>5, ReadHolds, HandleHolds, AnsweredHolds
<1>6. CASE UNCHANGED vars
  BY <1>6, <1>a, <1>b DEF vars, RunType
<1>7. QED
  BY <1>1, <1>2, <1>3, <1>4, <1>5, <1>6 DEF Next

-----------------------------------------------------------------------------
(* The types *)

\* No run has taken more rows than its file has, and the modal that is open was opened.
TakenWithin ==
  /\ importer.open <= opened /\ opened <= MaxModals
  /\ \A r \in Runs : taken[r] # {} => taken[r] \subseteq DOMAIN runs[r].file

LEMMA ImportTypes ==
  ASSUME ImportInv, TakenWithin, ContactImportAssumption PROVE TypeOK
<1>1. /\ importer.open \in Nat /\ importer.file \in Files \cup {NoFile}
      /\ importer.report \in 0 .. MaxRuns /\ importer.asking \in 0 .. MaxRuns
      /\ opened \in Nat /\ MaxModals \in Nat
  BY DEF ImportInv, RunType, Runs, ContactImportAssumption
<1>2. \A r \in Runs : runs[r].at \in {"no run", "reading", "asked", "taken", "failed", "over"}
  BY DEF ImportInv, RunType, RunState
<1>3. importer.open \in 0 .. opened /\ opened \in 0 .. MaxModals
  BY <1>1 DEF TakenWithin
<1>4. QED
  BY <1>1, <1>2, <1>3 DEF TypeOK, TakenWithin

LEMMA TakenInit == ASSUME ContactImportAssumption PROVE Init => TakenWithin
BY DEF Init, TakenWithin, Closed, ContactImportAssumption

\* The file of a run stays.
LEMMA FileStays ==
  ASSUME ImportInv, NEW r \in Runs, importRows(r) \/ Handle(r) \/ Answered(r)
  PROVE  /\ \A p \in Runs : runs'[p].file = runs[p].file
         /\ UNCHANGED opened /\ importer'.open = importer.open
<1>1. runs \in [Runs -> RunState] /\ runs[r] \in RunState
      /\ importer \in [open : Nat, file : Files \cup {NoFile}, report : Runs \cup {0},
                       asking : Runs \cup {0}, refused : BOOLEAN]
  BY DEF ImportInv, RunType
<1>2. ASSUME NEW run, runs' = [runs EXCEPT ![r] = run], run.file = runs[r].file
      PROVE  \A p \in Runs : runs'[p].file = runs[p].file
  BY <1>1, <1>2
<1>3. ASSUME Stop(r)
      PROVE  /\ \A p \in Runs : runs'[p].file = runs[p].file
             /\ importer'.open = importer.open
  <2> DEFINE run == [runs[r] EXCEPT !.at = "over", !.totals = NO_IMPORTS]
  <2>1. runs' = [runs EXCEPT ![r] = run]
    BY <1>1, <1>3 DEF Stop
  <2>2. run.file = runs[r].file
    BY <1>1 DEF RunState
  <2>3. importer'.open = importer.open
    BY <1>1, <1>3 DEF Stop, Shows
  <2> HIDE DEF run
  <2>4. QED
    BY <1>2, <2>1, <2>2, <2>3
<1>4. ASSUME NEW sent, NEW totals, Proceed(r, sent, totals)
      PROVE  /\ \A p \in Runs : runs'[p].file = runs[p].file
             /\ importer'.open = importer.open
  <2>1. PICK at : runs' = [runs EXCEPT ![r] = [runs[r] EXCEPT !.at = at, !.sent = sent,
                                               !.totals = totals, !.answer = NO_IMPORTS]]
    BY <1>4 DEF Proceed
  <2> DEFINE run == [runs[r] EXCEPT !.at = at, !.sent = sent, !.totals = totals,
                                    !.answer = NO_IMPORTS]
  <2>2. runs' = [runs EXCEPT ![r] = run]
    BY <2>1
  <2>3. run.file = runs[r].file
    BY <1>1 DEF RunState
  <2>4. importer'.open = importer.open
    BY <1>1, <1>4 DEF Proceed, Shows
  <2> HIDE DEF run
  <2>5. QED
    BY <1>2, <2>2, <2>3, <2>4
<1>5. CASE importRows(r)
  BY <1>3, <1>4, <1>5 DEF importRows
<1>6. CASE Answered(r)
  BY <1>3, <1>4, <1>6 DEF Answered
<1>7. CASE Handle(r)
  <2>1. UNCHANGED <<importer, opened>>
    BY <1>7 DEF Handle
  <2>2. \/ \E a : runs' = [runs EXCEPT ![r].at = "taken", ![r].answer = a]
        \/ runs' = [runs EXCEPT ![r].at = "failed"]
    BY <1>7 DEF Handle
  <2>3. ASSUME NEW a, runs' = [runs EXCEPT ![r].at = "taken", ![r].answer = a]
        PROVE  \A p \in Runs : runs'[p].file = runs[p].file
    <3> DEFINE run == [runs[r] EXCEPT !.at = "taken", !.answer = a]
    <3>1. runs' = [runs EXCEPT ![r] = run]
      BY <1>1, <2>3
    <3>2. run.file = runs[r].file
      BY <1>1 DEF RunState
    <3> HIDE DEF run
    <3>3. QED
      BY <1>2, <3>1, <3>2
  <2>4. ASSUME runs' = [runs EXCEPT ![r].at = "failed"]
        PROVE  \A p \in Runs : runs'[p].file = runs[p].file
    <3> DEFINE run == [runs[r] EXCEPT !.at = "failed"]
    <3>1. runs' = [runs EXCEPT ![r] = run]
      BY <1>1, <2>4
    <3>2. run.file = runs[r].file
      BY <1>1 DEF RunState
    <3> HIDE DEF run
    <3>3. QED
      BY <1>2, <3>1, <3>2
  <2>5. QED
    BY <2>1, <2>2, <2>3, <2>4
<1>8. QED
  BY <1>5, <1>6, <1>7 DEF importRows, Handle, Answered

\* No step takes more than the file has.
LEMMA TakenStep ==
  ASSUME ContactImportAssumption, ImportInv, TakenWithin, [Next]_vars PROVE TakenWithin'
<1>0. /\ importer.open <= opened /\ opened <= MaxModals /\ MaxModals \in Nat
      /\ importer.open \in Nat /\ opened \in Nat
      /\ \A r \in Runs : taken[r] # {} => taken[r] \subseteq DOMAIN runs[r].file
      /\ runs \in [Runs -> RunState] /\ taken \in [Runs -> SUBSET Nat]
      /\ importer \in [open : Nat, file : Files \cup {NoFile}, report : Runs \cup {0},
                       asking : Runs \cup {0}, refused : BOOLEAN]
  BY DEF TakenWithin, ImportInv, RunType, ContactImportAssumption
<1>1. CASE UNCHANGED vars
  BY <1>0, <1>1 DEF vars, TakenWithin
<1>2. CASE Open
  <2>1. importer'.open = opened + 1 /\ opened' = opened + 1 /\ opened < MaxModals
    BY <1>2 DEF Open, Closed
  <2>2. UNCHANGED <<runs, taken>>
    BY <1>2 DEF Open
  <2>3. QED
    BY <1>0, <2>1, <2>2 DEF TakenWithin
<1>3. CASE Close
  <2>1. importer'.open = 0 /\ UNCHANGED <<opened, runs, taken>>
    BY <1>3 DEF Close, Closed
  <2>2. QED
    BY <1>0, <2>1 DEF TakenWithin
<1>4. ASSUME NEW file \in Files, Choose(file) PROVE TakenWithin'
  <2>1. importer'.open = importer.open /\ UNCHANGED <<opened, runs, taken>>
    BY <1>0, <1>4 DEF Choose
  <2>2. QED
    BY <1>0, <2>1 DEF TakenWithin
<1>5. ASSUME NEW r \in Runs, ImportModal(r) PROVE TakenWithin'
  <2>1. /\ importer'.open = importer.open /\ UNCHANGED <<opened, taken>>
        /\ \A p \in Runs : p # r => runs'[p] = runs[p]
    BY <1>0, <1>5 DEF ImportModal
  <2>2. taken[r] = {}
    <3>1. runs[r] = NoRun /\ NoRun.at = "no run"
      BY <1>5 DEF ImportModal, NoRun
    <3>2. runs[r].at = "no run"
      BY <3>1
    <3>3. QED
      BY <3>2 DEF ImportInv, NothingYet
  <2>3. \A p \in Runs : taken'[p] # {} => taken'[p] \subseteq DOMAIN runs'[p].file
    BY <1>0, <2>1, <2>2
  <2>4. QED
    BY <1>0, <2>1, <2>3 DEF TakenWithin
<1>6. ASSUME NEW r \in Runs, importRows(r) \/ Handle(r) \/ Answered(r) PROVE TakenWithin'
  <2>1. /\ \A p \in Runs : runs'[p].file = runs[p].file
        /\ UNCHANGED opened /\ importer'.open = importer.open
    BY <1>6, FileStays
  <2>2. ASSUME NEW p \in Runs, taken'[p] # {} PROVE taken'[p] \subseteq DOMAIN runs'[p].file
    <3>1. CASE taken'[p] = taken[p]
      BY <1>0, <2>1, <2>2, <3>1
    <3>2. CASE taken'[p] # taken[p]
      <4>1. /\ Handle(r) /\ p = r
            /\ taken'[r] \subseteq taken[r] \cup Parsed(runs[r].file, chunksOf(runs[r].file, runs[r].sent))
        BY <1>0, <1>6, <3>2 DEF importRows, Answered, Handle
      <4>2. /\ runs[r].file \in FileRows /\ runs[r].sent \in Nat
            /\ runs[r].sent < Len(runs[r].file)
        BY <4>1 DEF Handle, ImportInv, InStep, RunType, RunState
      <4>3. chunksOf(runs[r].file, runs[r].sent) \subseteq DOMAIN runs[r].file
        <5>1. PICK end \in Nat :
                /\ chunksOf(runs[r].file, runs[r].sent) = (runs[r].sent + 1) .. end
                /\ end <= Len(runs[r].file) /\ DOMAIN runs[r].file = 1 .. Len(runs[r].file)
          BY <4>2, ChunkIsWithin
        <5>2. Len(runs[r].file) \in Nat
          BY <4>2 DEF ContactImportAssumption
        <5>3. QED
          BY <4>2, <5>1, <5>2
      <4>4. QED
        BY <1>0, <2>1, <4>1, <4>3 DEF Parsed
    <3>3. QED
      BY <3>1, <3>2
  <2>3. QED
    BY <1>0, <2>1, <2>2 DEF TakenWithin
<1>7. QED
  BY <1>1, <1>2, <1>3, <1>4, <1>5, <1>6 DEF Next

=============================================================================
