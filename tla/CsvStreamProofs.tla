-------------------------- MODULE CsvStreamProofs --------------------------
(***************************************************************************)
(* Theorems about CsvStream, for every limit and every length of file, and *)
(* that it implements UploadRequest: also for the files it cuts wrongly,   *)
(* since that contract is about jobs and not about rows.                   *)
(***************************************************************************)
EXTENDS CsvStream, SequenceTheorems, TLAPS

---------------------------------------------------------------------------
(* The inductive invariant *)

\* The parser: it ends at the end of the file and of its source, 'end' is due
\* when the stream has ended and everything was delivered, and a flowing stream
\* whose source has ended with a row to deliver was paused before.
ParserOK ==
  /\ next <= parsed + 1 /\ parsed <= file.rows
  /\ file.end # "open" => parsed = file.rows
  /\ ended => closing /\ parsed = file.rows
  /\ endDue => ended /\ next = parsed + 1
  /\ closing /\ flowing /\ next <= parsed => jobs # <<>>

Flowing ==
  /\ inflight = <<>>
  /\ next = Len(jobs) * BatchSize + Len(records) + 1

Paused ==
  /\ Len(inflight) = 1 /\ ~inflight[1].last
  /\ Len(records) = BatchSize
  /\ next = Len(jobs) * BatchSize + BatchSize + 2

\* Rows are counted: the ones delivered are in jobs, in the array or held.
CountOK ==
  /\ Len(records) <= BatchSize
  /\ \A k \in 1..Len(jobs) : Len(jobs[k].rows) <= BatchSize
  /\ \A k \in 1..Len(inflight) : Len(inflight[k].rows) <= BatchSize
  /\ outcome \in {"arriving", "reading"} => IF flowing THEN Flowing ELSE Paused

\* Rows are in their places, which the exceptional files do not keep.
CutOK ==
  /\ \A k \in 1..Len(jobs) :
       \/ jobs[k] = FullBatch(k)
       \/ /\ jobs[k] = Rest(k - 1) /\ k = Len(jobs)
          /\ inflight = <<>> /\ outcome \in {"responded", "crashed"}
  /\ \/ inflight = <<>>
     \/ /\ inflight = <<FullBatch(Len(jobs) + 1)>>
        /\ ~flowing /\ outcome \in {"reading", "rejected"}
     \/ inflight = <<Rest(Len(jobs))>> /\ outcome = "responded"
  /\ outcome \in {"arriving", "reading"} =>
       IF flowing
       THEN \A m \in 1..Len(records) : records[m] = Len(jobs) * BatchSize + m
       ELSE held = next - 1 /\ ~endDue

IInv == TypeOK /\ ParserOK /\ CountOK /\ (LastRowFlushes \/ CutOK)

---------------------------------------------------------------------------
(* Batches *)

LEMMA BatchSizeType == BatchSize \in Nat /\ BatchSize = Limit + 1 /\ BatchSize >= 2
BY CsvAssumption DEF BatchSize

\* So many full batches hold a whole number of rows.
LEMMA RowsOfBatches ==
  ASSUME NEW n \in Nat
  PROVE  /\ n * BatchSize \in Nat /\ n <= n * BatchSize
         /\ (n + 1) * BatchSize = n * BatchSize + BatchSize
BY BatchSizeType

\* A sequence is known by its length and its elements.
LEMMA SameRows ==
  ASSUME NEW s \in Seq(Nat), NEW b \in Nat, \A m \in 1..Len(s) : s[m] = b + m
  PROVE  s = [m \in 1..Len(s) |-> b + m]
OBVIOUS

LEMMA OneElement ==
  ASSUME NEW S, NEW s \in Seq(S), Len(s) = 1
  PROVE  s # <<>> /\ Head(s) = s[1] /\ Tail(s) = <<>> /\ s = <<s[1]>>
<1>1. s # <<>> /\ Head(s) = s[1]
  OBVIOUS
<1>2. Tail(s) \in Seq(S) /\ Len(Tail(s)) = 0
  BY <1>1
<1>3. Tail(s) = <<>>
  BY <1>2, EmptySeq
<1> QED BY <1>1, <1>3

---------------------------------------------------------------------------
(* The steps *)

LEMMA InitOK == Init => IInv
<1> SUFFICES ASSUME Init PROVE IInv
  OBVIOUS
<1> USE DEF Init
<1>1. TypeOK
  <2>1. file.rows \in 0..MaxRows
    OBVIOUS
  <2>2. parsed \in 0..MaxRows /\ next \in 1..(MaxRows + 1) /\ held \in 0..MaxRows
    BY <2>1, CsvAssumption
  <2>3. records \in Seq(Nat) /\ inflight \in Seq(Job) /\ jobs \in Seq(Job)
    OBVIOUS
  <2> QED BY <2>2, <2>3 DEF TypeOK, Outcomes
<1>2. ParserOK
  BY CsvAssumption DEF ParserOK
<1>3. CountOK
  BY BatchSizeType DEF CountOK, Flowing
<1>4. CutOK
  BY DEF CutOK
<1> QED BY <1>1, <1>2, <1>3, <1>4 DEF IInv

\* A row is read from a flowing stream, and is one of the file.
LEMMA ReadsARow ==
  ASSUME TypeOK, ParserOK, Read
  PROVE  /\ outcome = "reading" /\ flowing
         /\ next \in 1..MaxRows /\ next' = next + 1
         /\ parsed' \in 0..MaxRows
         /\ endDue' \in BOOLEAN
<1>1. file.rows \in Nat /\ file.rows <= MaxRows /\ MaxRows \in Nat
  BY CsvAssumption DEF TypeOK
<1>2. CASE Deliverable /\ ~Straight
  BY <1>1, <1>2 DEF Read, Deliverable, TypeOK, ParserOK
<1>3. CASE Straight
  BY <1>1, <1>3 DEF Read, Straight, Due, TypeOK, ParserOK
<1> QED BY <1>2, <1>3 DEF Read

LEMMA TypeStep == TypeOK /\ ParserOK /\ [Next]_vars => TypeOK'
<1> SUFFICES ASSUME TypeOK, ParserOK, [Next]_vars PROVE TypeOK'
  OBVIOUS
<1> USE CsvAssumption DEF TypeOK, Outcomes, parserVars
<1>1. CASE Receive
  BY <1>1 DEF Receive
<1>2. CASE Push
  <2>1. records' \in Seq(Nat)
    BY <1>2 DEF Push
  <2> QED BY <1>2, <2>1, ReadsARow DEF Push
<1>3. CASE Flush
  <2>1. inflight' \in Seq(Job)
    BY <1>3 DEF Flush, Job
  <2>2. /\ next' \in 1..(MaxRows + 1) /\ parsed' \in 0..MaxRows /\ endDue' \in BOOLEAN
        /\ held' \in 0..MaxRows /\ held' # 0 /\ flowing' = FALSE
    BY <1>3, ReadsARow DEF Flush
  <2>3. UNCHANGED <<file, closing, ended, records, jobs, outcome>>
    BY <1>3 DEF Flush
  <2> QED BY <2>1, <2>2, <2>3
<1>4. CASE SourceEnd
  BY <1>4 DEF SourceEnd
<1>5. CASE ParserEnd
  BY <1>5 DEF ParserEnd
<1>6. CASE ParseError
  BY <1>6 DEF ParseError, Broken
<1>7. CASE EmitEnd
  <2>1. inflight' \in Seq(Job)
    BY <1>7 DEF EmitEnd, Job
  <2> QED BY <1>7, <2>1 DEF EmitEnd
<1>8. ASSUME Accepted PROVE jobs' \in Seq(Job) /\ inflight' \in Seq(Job)
  BY <1>8 DEF Accepted
<1>9. CASE FlushDone
  BY <1>8, <1>9 DEF FlushDone, Accepted
<1>10. CASE LastDone
  BY <1>8, <1>10 DEF LastDone, Accepted
<1>11. CASE AddRejected
  BY <1>11 DEF AddRejected
<1>12. CASE UNCHANGED vars
  BY <1>12 DEF vars
<1> QED BY <1>1, <1>2, <1>3, <1>4, <1>5, <1>6, <1>7, <1>9, <1>10, <1>11, <1>12 DEF Next

LEMMA ParserStep == TypeOK /\ ParserOK /\ [Next]_vars => ParserOK'
<1> SUFFICES ASSUME TypeOK, ParserOK, [Next]_vars PROVE ParserOK'
  OBVIOUS
<1> USE DEF ParserOK, TypeOK, parserVars
<1>1. CASE Receive
  BY <1>1 DEF Receive
<1>2. CASE Push
  BY <1>2 DEF Push, Read, Deliverable, Straight, Due
<1>3. CASE Flush
  BY <1>3 DEF Flush, Read, Deliverable, Straight, Due
<1>4. CASE SourceEnd
  BY <1>4 DEF SourceEnd, Deliverable, Due
<1>5. CASE ParserEnd
  BY <1>5 DEF ParserEnd, Due, Straight
<1>6. CASE ParseError
  BY <1>6 DEF ParseError, Broken
<1>7. CASE EmitEnd
  BY <1>7 DEF EmitEnd
<1>8. ASSUME Accepted PROVE jobs' # <<>>
  <2>1. Len(jobs') = Len(jobs) + 1 /\ Len(jobs) \in Nat
    BY <1>8 DEF Accepted
  <2> QED BY <2>1
<1>9. CASE FlushDone
  BY <1>8, <1>9 DEF FlushDone, Accepted, Idle
<1>10. CASE LastDone
  BY <1>8, <1>10 DEF LastDone
<1>11. CASE AddRejected
  BY <1>11 DEF AddRejected
<1>12. CASE UNCHANGED vars
  BY <1>12 DEF vars
<1> QED BY <1>1, <1>2, <1>3, <1>4, <1>5, <1>6, <1>7, <1>9, <1>10, <1>11, <1>12 DEF Next

\* The only answer that can be awaited while the stream is read is that of the
\* batch that paused it.
LEMMA AwaitedBatch ==
  ASSUME TypeOK, CountOK, Accepted, outcome \in {"arriving", "reading"}
  PROVE  Paused /\ ~flowing /\ ~Head(inflight).last /\ Tail(inflight) = <<>>
<1>1. inflight # <<>> /\ inflight \in Seq(Job)
  BY DEF Accepted, TypeOK
<1>2. Paused /\ ~flowing
  BY <1>1 DEF CountOK, Flowing
<1>3. Len(inflight) = 1 /\ Head(inflight) = inflight[1] /\ Tail(inflight) = <<>>
  BY <1>1, <1>2, OneElement DEF Paused
<1> QED BY <1>2, <1>3 DEF Paused

LEMMA CountStep == TypeOK /\ CountOK /\ [Next]_vars => CountOK'
<1> SUFFICES ASSUME TypeOK, CountOK, [Next]_vars PROVE CountOK'
  OBVIOUS
<1>0. /\ records \in Seq(Nat) /\ inflight \in Seq(Job) /\ jobs \in Seq(Job) /\ next \in Nat
      /\ Len(records) <= BatchSize
      /\ \A k \in 1..Len(jobs) : Len(jobs[k].rows) <= BatchSize
      /\ \A k \in 1..Len(inflight) : Len(inflight[k].rows) <= BatchSize
  BY DEF TypeOK, CountOK
<1>1. CASE Receive
  BY <1>1 DEF Receive, CountOK, Flowing, Paused, parserVars
<1>2. CASE Push
  <2>1. flowing /\ outcome = "reading" /\ Flowing
    BY <1>2 DEF Push, Read, Deliverable, Straight, Due, CountOK
  <2>2. Len(records') = Len(records) + 1 /\ Len(records') <= BatchSize
    BY <1>0, <1>2, BatchSizeType, CsvAssumption DEF Push
  <2>3. Flowing'
    BY <1>0, <1>2, <2>1, <2>2, BatchSizeType DEF Push, Read, Flowing
  <2>4. flowing' /\ UNCHANGED <<inflight, jobs>>
    BY <1>2, <2>1 DEF Push
  <2> QED BY <1>0, <2>2, <2>3, <2>4, BatchSizeType DEF CountOK
<1>3. CASE Flush
  <2>1. flowing /\ outcome = "reading" /\ Flowing
    BY <1>3 DEF Flush, Read, Deliverable, Straight, Due, CountOK
  <2>2. Len(records) = BatchSize
    BY <1>0, <1>3, BatchSizeType, CsvAssumption DEF Flush
  <2>3. inflight' = <<[rows |-> records, last |-> FALSE]>>
    BY <1>3, <2>1 DEF Flush, Flowing
  <2>4. Paused'
    BY <1>0, <1>3, <2>1, <2>2, <2>3, BatchSizeType DEF Flush, Read, Flowing, Paused
  <2>5. \A k \in 1..Len(inflight') : Len(inflight'[k].rows) <= BatchSize
    BY <2>2, <2>3, BatchSizeType
  <2> QED BY <1>0, <1>3, <2>4, <2>5 DEF Flush, CountOK
<1>4. CASE SourceEnd
  BY <1>4 DEF SourceEnd, CountOK, Flowing, Paused
<1>5. CASE ParserEnd
  BY <1>5 DEF ParserEnd, CountOK, Flowing, Paused
<1>6. CASE ParseError
  BY <1>6 DEF ParseError, Broken, CountOK
<1>7. CASE EmitEnd
  <2>1. \A k \in 1..Len(inflight') : Len(inflight'[k].rows) <= BatchSize
    BY <1>0, <1>7 DEF EmitEnd
  <2> QED BY <1>0, <1>7, <2>1 DEF EmitEnd, CountOK
<1>8. ASSUME Accepted
      PROVE  /\ \A k \in 1..Len(jobs') : Len(jobs'[k].rows) <= BatchSize
             /\ \A k \in 1..Len(inflight') : Len(inflight'[k].rows) <= BatchSize
             /\ Len(jobs') = Len(jobs) + 1
  <2>1. inflight # <<>> /\ jobs' = Append(jobs, Head(inflight)) /\ inflight' = Tail(inflight)
    BY <1>8 DEF Accepted
  <2>2. Len(Head(inflight).rows) <= BatchSize
    BY <1>0, <2>1
  <2>3. \A k \in 1..Len(inflight') : inflight'[k] = inflight[k + 1] /\ k + 1 \in 1..Len(inflight)
    BY <1>0, <2>1
  <2> QED BY <1>0, <2>1, <2>2, <2>3
<1>9. CASE FlushDone
  <2>1. Accepted /\ flowing' /\ Len(records') = 1 /\ UNCHANGED <<next, outcome>>
    BY <1>9 DEF FlushDone
  <2>2. ASSUME outcome \in {"arriving", "reading"} PROVE Flowing'
    <3>1. Paused /\ Tail(inflight) = <<>>
      BY <2>1, <2>2, AwaitedBatch
    <3>2. Len(jobs) \in Nat /\ Len(jobs') = Len(jobs) + 1
      BY <1>0, <1>8, <2>1
    <3>3. Len(jobs') * BatchSize = Len(jobs) * BatchSize + BatchSize
      BY <3>2, RowsOfBatches
    <3>4. next' = Len(jobs) * BatchSize + BatchSize + 2
      BY <2>1, <3>1 DEF Paused
    <3>5. Len(jobs) * BatchSize \in Nat
      BY <3>2, RowsOfBatches
    <3>6. next' = Len(jobs') * BatchSize + Len(records') + 1
      BY <2>1, <3>3, <3>4, <3>5, BatchSizeType
    <3> QED BY <2>1, <3>1, <3>6 DEF Accepted, Flowing
  <2> QED BY <1>8, <2>1, <2>2, BatchSizeType DEF CountOK
<1>10. CASE LastDone
  <2>1. Accepted /\ UNCHANGED <<records, outcome>> /\ Head(inflight).last
    BY <1>10 DEF LastDone
  <2>2. outcome \notin {"arriving", "reading"}
    BY <2>1, AwaitedBatch
  <2> QED BY <1>0, <1>8, <2>1, <2>2 DEF CountOK
<1>11. CASE AddRejected
  BY <1>0, <1>11 DEF AddRejected, CountOK
<1>12. CASE UNCHANGED vars
  BY <1>12 DEF vars, CountOK, Flowing, Paused
<1> QED BY <1>1, <1>2, <1>3, <1>4, <1>5, <1>6, <1>7, <1>9, <1>10, <1>11, <1>12 DEF Next

LEMMA FileStays == [Next]_vars => file' = file
BY DEF Next, vars, parserVars, Receive, Push, Flush, Read, SourceEnd, ParserEnd,
       ParseError, EmitEnd, FlushDone, LastDone, AddRejected

LEMMA Kinds == \A k, n \in Nat : ~FullBatch(k).last /\ Rest(n).last
BY DEF FullBatch, Rest

\* While the file is read all jobs are full batches.
LEMMA FullSoFar ==
  ASSUME CutOK, outcome \in {"arriving", "reading", "rejected"} \/ inflight # <<>>
  PROVE  \A k \in 1..Len(jobs) : jobs[k] = FullBatch(k)
BY DEF CutOK

\* The array, when full, is the next batch.
LEMMA ArrayIsABatch ==
  ASSUME TypeOK, CutOK, flowing, outcome = "reading", Len(records) = BatchSize
  PROVE  [rows |-> records, last |-> FALSE] = FullBatch(Len(jobs) + 1)
<1>1. Len(jobs) \in Nat /\ records \in Seq(Nat)
  BY DEF TypeOK
<1>2. Len(jobs) * BatchSize \in Nat /\ (Len(jobs) + 1) - 1 = Len(jobs)
  BY <1>1, RowsOfBatches
<1>3. records = [m \in 1..BatchSize |-> Len(jobs) * BatchSize + m]
  BY <1>1, <1>2, SameRows DEF CutOK
<1> QED BY <1>2, <1>3 DEF FullBatch

\* A row that flushes is not the last of a stream that has ended.
LEMMA FlushIsNotTheEnd ==
  ASSUME TypeOK, ParserOK, CountOK, ~LastRowFlushes, Flush
  PROVE  endDue' = FALSE
<1>1. flowing /\ outcome = "reading" /\ Flowing
  BY DEF Flush, Read, Deliverable, Straight, Due, CountOK
<1>2. ASSUME next = parsed, ended PROVE FALSE
  <2>1. jobs # <<>> /\ parsed = file.rows
    BY <1>1, <1>2 DEF ParserOK
  <2>2. Len(jobs) \in Nat /\ Len(jobs) # 0
    BY <2>1, EmptySeq DEF TypeOK
  <2>3. Len(records) = BatchSize
    BY BatchSizeType, CsvAssumption DEF Flush, TypeOK, CountOK
  <2> DEFINE n == Len(jobs) + 1
  <2>4. n \in Nat /\ n >= 2
    BY <2>2
  <2>5. n * BatchSize = Len(jobs) * BatchSize + BatchSize
    BY <2>2, RowsOfBatches
  <2>6. next = Len(jobs) * BatchSize + BatchSize + 1
    BY <1>1, <2>3 DEF Flowing
  <2> HIDE DEF n
  <2>7. n <= n * BatchSize /\ n * BatchSize \in Nat
    BY <2>4, RowsOfBatches
  <2>8. file.rows = n * BatchSize + 1
    BY <1>2, <2>1, <2>5, <2>6
  <2>9. file.rows \in 0..MaxRows
    BY DEF TypeOK
  <2>10. n \in 2..MaxRows
    BY <2>4, <2>7, <2>8, <2>9, CsvAssumption
  <2> QED BY <2>8, <2>10 DEF LastRowFlushes
<1>3. ~endDue
  BY <1>1 DEF Flush, Read, Deliverable, Straight, Due, ParserOK, TypeOK
<1> QED BY <1>2, <1>3 DEF Flush, Read, TypeOK

\* What the end of the stream sends is the rest of the file.
LEMMA EndSendsTheRest ==
  ASSUME TypeOK, ParserOK, CountOK, CutOK, EmitEnd
  PROVE  /\ inflight' = <<Rest(Len(jobs))>>
         /\ \A k \in 1..Len(jobs) : jobs[k] = FullBatch(k)
<1>1. outcome = "reading" /\ endDue /\ next = file.rows + 1
  BY DEF EmitEnd, ParserOK
<1>2. flowing /\ Flowing
  BY <1>1 DEF CutOK, CountOK, TypeOK
<1>3. Len(jobs) \in Nat /\ records \in Seq(Nat) /\ file.rows \in Nat /\ Len(records) \in Nat
  BY CsvAssumption DEF TypeOK
<1>4. Len(jobs) * BatchSize \in Nat
  BY <1>3, RowsOfBatches
<1>5. Len(records) = file.rows - Len(jobs) * BatchSize
  BY <1>1, <1>2, <1>3, <1>4 DEF Flowing
<1>6. records = [m \in 1..Len(records) |-> Len(jobs) * BatchSize + m]
  BY <1>1, <1>2, <1>3, <1>4, SameRows DEF CutOK
<1>7. [rows |-> records, last |-> TRUE] = Rest(Len(jobs))
  BY <1>5, <1>6 DEF Rest
<1> QED BY <1>1, <1>2, <1>7, FullSoFar DEF EmitEnd, Flowing

\* An answer from Redis is about the batch, or the rest, that follows the jobs.
LEMMA AcceptedBatch ==
  ASSUME TypeOK, CutOK, Accepted
  PROVE  /\ inflight' = <<>> /\ Len(jobs') = Len(jobs) + 1
         /\ \A k \in 1..Len(jobs) : jobs'[k] = FullBatch(k)
         /\ jobs'[Len(jobs) + 1] = Head(inflight)
         /\ \/ /\ Head(inflight) = FullBatch(Len(jobs) + 1) /\ ~Head(inflight).last
               /\ ~flowing /\ outcome \in {"reading", "rejected"}
            \/ /\ Head(inflight) = Rest(Len(jobs)) /\ Head(inflight).last
               /\ outcome = "responded"
<1>1. inflight # <<>> /\ jobs' = Append(jobs, Head(inflight)) /\ inflight' = Tail(inflight)
  BY DEF Accepted
<1>2. jobs \in Seq(Job) /\ inflight \in Seq(Job) /\ Len(jobs) \in Nat
  BY DEF TypeOK
<1>3. \A k \in 1..Len(jobs) : jobs[k] = FullBatch(k)
  BY <1>1, FullSoFar
<1>4. \A k \in 1..Len(jobs) : jobs'[k] = jobs[k]
  BY <1>1, <1>2
<1>5. Len(jobs') = Len(jobs) + 1 /\ jobs'[Len(jobs) + 1] = Head(inflight)
  BY <1>1, <1>2
<1>6. CASE inflight = <<FullBatch(Len(jobs) + 1)>>
  <2>1. Len(inflight) = 1 /\ inflight[1] = FullBatch(Len(jobs) + 1)
    BY <1>6
  <2>2. Head(inflight) = FullBatch(Len(jobs) + 1) /\ Tail(inflight) = <<>>
    BY <1>2, <2>1, OneElement
  <2>3. ~Head(inflight).last
    BY <1>2, <2>2, Kinds
  <2>4. ~Rest(Len(jobs)).last => FALSE
    BY <1>2, Kinds
  <2>5. inflight # <<Rest(Len(jobs))>>
    BY <2>1, <2>2, <2>3, <2>4
  <2> QED BY <1>1, <1>3, <1>4, <1>5, <2>2, <2>3, <2>5 DEF CutOK
<1>7. CASE inflight = <<Rest(Len(jobs))>> /\ outcome = "responded"
  <2>1. Len(inflight) = 1 /\ inflight[1] = Rest(Len(jobs))
    BY <1>7
  <2>2. Head(inflight) = Rest(Len(jobs)) /\ Tail(inflight) = <<>>
    BY <1>2, <2>1, OneElement
  <2>3. Head(inflight).last
    BY <1>2, <2>2, Kinds
  <2> QED BY <1>1, <1>3, <1>4, <1>5, <1>7, <2>2, <2>3
<1> QED BY <1>1, <1>6, <1>7 DEF CutOK

LEMMA CutStep ==
  ASSUME TypeOK, ParserOK, CountOK, CutOK, ~LastRowFlushes, [Next]_vars
  PROVE  CutOK'
<1>0. file' = file /\ \A n : Rest(n)' = Rest(n)
  BY FileStays DEF Rest
<1>1. jobs \in Seq(Job) /\ inflight \in Seq(Job) /\ records \in Seq(Nat) /\ Len(jobs) \in Nat
  BY DEF TypeOK
<1>2. CASE Receive
  BY <1>0, <1>2 DEF Receive, CutOK, parserVars
<1>3. CASE Push
  <2>1. flowing /\ outcome = "reading" /\ Flowing
    BY <1>3 DEF Push, Read, Deliverable, Straight, Due, CountOK
  <2>2. \A m \in 1..Len(records') : records'[m] = Len(jobs) * BatchSize + m
    <3>1. records' = Append(records, Len(jobs) * BatchSize + Len(records) + 1)
      BY <1>3, <2>1 DEF Push, Flowing
    <3>2. \A m \in 1..Len(records) : records[m] = Len(jobs) * BatchSize + m
      BY <2>1 DEF CutOK
    <3>3. Len(jobs) * BatchSize \in Nat
      BY <1>1, RowsOfBatches
    <3>4. /\ Len(records') = Len(records) + 1
          /\ records'[Len(records) + 1] = Len(jobs) * BatchSize + Len(records) + 1
          /\ \A m \in 1..Len(records) : records'[m] = records[m]
      BY <1>1, <3>1
    <3>5. Len(jobs) * BatchSize + Len(records) + 1 = Len(jobs) * BatchSize + (Len(records) + 1)
      BY <1>1, <3>3
    <3>6. \A m \in 1..Len(records') : m \in 1..Len(records) \/ m = Len(records) + 1
      BY <1>1, <3>4
    <3> QED BY <3>2, <3>4, <3>5, <3>6
  <2>3. UNCHANGED <<jobs, inflight, flowing, outcome>>
    BY <1>3 DEF Push
  <2> QED BY <1>0, <2>1, <2>2, <2>3 DEF CutOK, Flowing
<1>4. CASE Flush
  <2>1. flowing /\ outcome = "reading" /\ Flowing /\ Len(records) = BatchSize
    BY <1>4, BatchSizeType, CsvAssumption DEF Flush, Read, Deliverable, Straight, Due, CountOK, TypeOK
  <2>2. inflight' = <<FullBatch(Len(jobs) + 1)>>
    BY <1>4, <2>1, ArrayIsABatch DEF Flush, Flowing
  <2>3. /\ UNCHANGED <<jobs, outcome>> /\ flowing' = FALSE
        /\ held' = next /\ next' = next + 1
    BY <1>4 DEF Flush, Read
  <2>4. held' = next' - 1
    BY <2>3 DEF TypeOK
  <2>5. endDue' = FALSE
    BY <1>4, FlushIsNotTheEnd
  <2>6. \A k \in 1..Len(jobs) : jobs[k] = FullBatch(k)
    BY <2>1, FullSoFar
  <2> QED BY <1>0, <2>1, <2>2, <2>3, <2>4, <2>5, <2>6 DEF CutOK
<1>5. CASE SourceEnd
  BY <1>0, <1>5 DEF SourceEnd, CutOK
<1>6. CASE ParserEnd
  BY <1>0, <1>6 DEF ParserEnd, CutOK, TypeOK
<1>7. CASE ParseError
  <2>1. \A k \in 1..Len(jobs) : jobs[k] = FullBatch(k)
    BY <1>7, FullSoFar DEF ParseError, Broken
  <2>2. UNCHANGED <<jobs, inflight, flowing>> /\ outcome' = "rejected" /\ outcome = "reading"
    BY <1>7 DEF ParseError, Broken
  <2> QED BY <1>0, <2>1, <2>2 DEF CutOK
<1>8. CASE EmitEnd
  <2>1. inflight' = <<Rest(Len(jobs))>> /\ \A k \in 1..Len(jobs) : jobs[k] = FullBatch(k)
    BY <1>8, EndSendsTheRest
  <2>2. jobs' = jobs /\ outcome' = "responded"
    BY <1>8 DEF EmitEnd
  <2> QED BY <1>0, <2>1, <2>2 DEF CutOK
<1>9. CASE FlushDone
  <2>1. Accepted /\ ~Head(inflight).last /\ records' = <<held>> /\ flowing' = TRUE
        /\ UNCHANGED <<next, outcome>>
    BY <1>9 DEF FlushDone
  <2>2. /\ inflight' = <<>> /\ Len(jobs') = Len(jobs) + 1
        /\ \A k \in 1..Len(jobs') : jobs'[k] = FullBatch(k)
        /\ ~flowing /\ outcome \in {"reading", "rejected"}
    BY <1>1, <2>1, AcceptedBatch
  <2>3. ASSUME outcome = "reading"
        PROVE  \A m \in 1..Len(records') : records'[m] = Len(jobs') * BatchSize + m
    <3>1. held = Len(jobs) * BatchSize + BatchSize + 1
      <4>1. held = next - 1 /\ Paused
        BY <2>2, <2>3 DEF CutOK, CountOK
      <4>2. Len(jobs) * BatchSize \in Nat
        BY <1>1, RowsOfBatches
      <4> QED BY <4>1, <4>2, BatchSizeType DEF Paused
    <3>2. Len(jobs') * BatchSize = Len(jobs) * BatchSize + BatchSize
      BY <1>1, <2>2, RowsOfBatches
    <3>3. records'[1] = held /\ Len(records') = 1
      BY <2>1
    <3> QED BY <3>1, <3>2, <3>3
  <2> QED BY <2>1, <2>2, <2>3 DEF CutOK
<1>10. CASE LastDone
  <2>1. Accepted /\ Head(inflight).last /\ UNCHANGED outcome
    BY <1>10 DEF LastDone
  <2>2. /\ inflight' = <<>> /\ Len(jobs') = Len(jobs) + 1 /\ outcome = "responded"
        /\ \A k \in 1..Len(jobs) : jobs'[k] = FullBatch(k)
        /\ jobs'[Len(jobs) + 1] = Rest(Len(jobs))
    BY <2>1, AcceptedBatch
  <2>3. \A k \in 1..Len(jobs') :
          jobs'[k] = FullBatch(k) \/ (jobs'[k] = Rest(k - 1) /\ k = Len(jobs'))
    <3> SUFFICES ASSUME NEW k \in 1..Len(jobs'), k \notin 1..Len(jobs)
                 PROVE  jobs'[k] = Rest(k - 1) /\ k = Len(jobs')
      BY <2>2
    <3>1. k = Len(jobs) + 1 /\ k - 1 = Len(jobs)
      BY <1>1, <2>2
    <3> QED BY <2>2, <3>1
  <2> QED BY <1>0, <2>1, <2>2, <2>3 DEF CutOK
<1>11. CASE AddRejected
  <2>1. inflight # <<>> /\ inflight' = <<>> /\ outcome' = "crashed" /\ jobs' = jobs
    BY <1>11 DEF AddRejected
  <2> QED BY <1>0, <2>1, FullSoFar DEF CutOK
<1>12. CASE UNCHANGED vars
  BY <1>0, <1>12 DEF vars, parserVars, CutOK
<1> QED BY <1>2, <1>3, <1>4, <1>5, <1>6, <1>7, <1>8, <1>9, <1>10, <1>11, <1>12 DEF Next

---------------------------------------------------------------------------
(* The theorems *)

LEMMA Inductive == Spec => []IInv
<1>1. IInv /\ [Next]_vars => IInv'
  <2> SUFFICES ASSUME IInv, [Next]_vars PROVE IInv'
    OBVIOUS
  <2>1. TypeOK' /\ ParserOK' /\ CountOK'
    BY TypeStep, ParserStep, CountStep DEF IInv
  <2>2. LastRowFlushes' <=> LastRowFlushes
    BY FileStays DEF LastRowFlushes
  <2>3. ~LastRowFlushes => CutOK'
    BY CutStep DEF IInv
  <2> QED BY <2>1, <2>2, <2>3 DEF IInv
<1> QED BY <1>1, InitOK, PTL DEF Spec

\* The variables have their types, and a row is held back exactly while the
\* stream is paused.
THEOREM TypeInvariant == Spec => []TypeOK
<1>1. IInv => TypeOK
  BY DEF IInv
<1> QED BY <1>1, Inductive, PTL

\* Whatever the file, execute never gathers or sends more than Limit + 1 rows,
\* and pauses with one row waiting.
THEOREM RecordsStayBounded == Spec => []RecordsAreBounded
<1>1. IInv => RecordsAreBounded
  <2> SUFFICES ASSUME IInv PROVE RecordsAreBounded
    OBVIOUS
  <2>1. jobs \in Seq(Job) /\ inflight \in Seq(Job) /\ Len(jobs) \in Nat /\ Len(records) \in Nat
    BY DEF IInv, TypeOK
  <2>2. \A k \in 1..Len(Sent) : Len(Sent[k].rows) <= BatchSize
    <3>1. \A k \in 1..Len(Sent) :
            \/ k \in 1..Len(jobs) /\ Sent[k] = jobs[k]
            \/ k - Len(jobs) \in 1..Len(inflight) /\ Sent[k] = inflight[k - Len(jobs)]
      BY <2>1 DEF Sent
    <3> QED BY <3>1 DEF IInv, CountOK
  <2>3. outcome = "reading" =>
          Len(inflight) <= 1 /\ next - 1 <= Len(jobs) * BatchSize + Len(records) + 1
    <3>1. Len(jobs) * BatchSize \in Nat
      BY <2>1, RowsOfBatches
    <3>2. CASE flowing /\ Flowing
      <4>1. Len(inflight) = 0
        BY <3>2 DEF Flowing
      <4> QED BY <2>1, <3>1, <3>2, <4>1 DEF Flowing
    <3>3. CASE Paused
      <4> DEFINE sent == Len(jobs) * BatchSize
      <4>1. next = sent + BatchSize + 2 /\ Len(records) = BatchSize /\ Len(inflight) = 1
        BY <3>3 DEF Paused
      <4> HIDE DEF sent
      <4>2. sent \in Nat /\ sent = Len(jobs) * BatchSize
        BY <3>1 DEF sent
      <4>3. next - 1 <= sent + Len(records) + 1
        BY <4>1, <4>2, BatchSizeType, SMTT(20)
      <4> QED BY <4>1, <4>2, <4>3
    <3> QED BY <3>2, <3>3 DEF IInv, CountOK
  <2> QED BY <2>2, <2>3 DEF IInv, CountOK, RecordsAreBounded
<1> QED BY <1>1, Inductive, PTL

\* parseCSV and create cut every file into its consecutive batches, but those
\* whose last row flushes one that is not the first.
THEOREM FilesAreCut == Spec => []JobsCutTheFile
<1>1. IInv => JobsCutTheFile
  <2> SUFFICES ASSUME IInv, ~LastRowFlushes, NEW k \in 1..Len(Sent)
               PROVE  IF Sent[k].last
                      THEN /\ k = Len(Sent) /\ Sent[k] = Rest(k - 1)
                           /\ outcome \in {"responded", "crashed"}
                      ELSE Sent[k] = FullBatch(k)
    BY DEF JobsCutTheFile
  <2>1. CutOK /\ jobs \in Seq(Job) /\ inflight \in Seq(Job) /\ Len(jobs) \in Nat
    BY DEF IInv, TypeOK
  <2>2. Len(Sent) = Len(jobs) + Len(inflight)
    BY <2>1 DEF Sent
  <2>3. CASE k \in 1..Len(jobs)
    <3>1. Sent[k] = jobs[k] /\ k \in Nat /\ k - 1 \in Nat
      BY <2>1, <2>3 DEF Sent
    <3>2. CASE jobs[k] = FullBatch(k)
      BY <3>1, <3>2, Kinds
    <3>3. CASE /\ jobs[k] = Rest(k - 1) /\ k = Len(jobs)
               /\ inflight = <<>> /\ outcome \in {"responded", "crashed"}
      <4>1. Len(Sent) = Len(jobs)
        BY <2>1, <2>2, <3>3
      <4> QED BY <3>1, <3>3, <4>1, Kinds
    <3> QED BY <2>1, <2>3, <3>2, <3>3 DEF CutOK
  <2>4. CASE k \notin 1..Len(jobs)
    <3>1. Len(inflight) # 0
      BY <2>1, <2>2, <2>4
    <3>2. Len(inflight) = 1
      BY <2>1, <3>1 DEF CutOK
    <3>3. k = Len(jobs) + 1 /\ k = Len(Sent) /\ k - 1 = Len(jobs) /\ k \in Nat
      BY <2>1, <2>2, <2>4, <3>2
    <3>4. Sent[k] = inflight[1]
      BY <2>1, <3>2, <3>3 DEF Sent
    <3>5. CASE inflight = <<FullBatch(Len(jobs) + 1)>>
      BY <2>1, <3>3, <3>4, <3>5, Kinds
    <3>6. CASE inflight = <<Rest(Len(jobs))>> /\ outcome = "responded"
      BY <2>1, <3>3, <3>4, <3>6, Kinds
    <3> QED BY <2>1, <3>1, <3>5, <3>6 DEF CutOK
  <2> QED BY <2>3, <2>4
<1> QED BY <1>1, Inductive, PTL

---------------------------------------------------------------------------
(* Where the batch flagged `last` can be *)

LastOK ==
  /\ \A k \in 1..Len(jobs) : jobs[k].last => inflight = <<>> /\ outcome \in {"responded", "crashed"}
  /\ \A k \in 1..Len(inflight) :
       inflight[k].last <=> (k = Len(inflight) /\ outcome = "responded")

LEMMA NoJobIsLast ==
  ASSUME LastOK, inflight # <<>> \/ outcome \in {"arriving", "reading", "rejected"}
  PROVE  \A k \in 1..Len(jobs) : ~jobs[k].last
BY DEF LastOK

\* An answer is about the last batch exactly if the client was answered and
\* nothing else is on its way.
LEMMA AcceptedLast ==
  ASSUME TypeOK, LastOK, Accepted
  PROVE  /\ Len(inflight) \in Nat \ {0} /\ Len(inflight') = Len(inflight) - 1
         /\ Len(jobs) \in Nat /\ Len(jobs') = Len(jobs) + 1
         /\ \A k \in 1..Len(jobs) : ~jobs[k].last /\ jobs'[k] = jobs[k]
         /\ jobs'[Len(jobs) + 1] = Head(inflight)
         /\ \A k \in 1..Len(inflight') : inflight'[k] = inflight[k + 1]
         /\ Head(inflight).last <=> (Len(inflight) = 1 /\ outcome = "responded")
<1>1. inflight # <<>> /\ jobs' = Append(jobs, Head(inflight)) /\ inflight' = Tail(inflight)
  BY DEF Accepted
<1>2. jobs \in Seq(Job) /\ inflight \in Seq(Job)
  BY DEF TypeOK
<1>3. Len(inflight) \in Nat \ {0}
  BY <1>1, <1>2, EmptySeq
<1>4. Head(inflight) = inflight[1] /\ Len(inflight') = Len(inflight) - 1
      /\ \A k \in 1..Len(inflight') : inflight'[k] = inflight[k + 1]
  BY <1>1, <1>2, <1>3
<1>5. Len(jobs) \in Nat /\ Len(jobs') = Len(jobs) + 1
      /\ jobs'[Len(jobs) + 1] = Head(inflight)
      /\ \A k \in 1..Len(jobs) : jobs'[k] = jobs[k]
  BY <1>1, <1>2
<1>6. \A k \in 1..Len(jobs) : ~jobs[k].last
  BY <1>1, NoJobIsLast
<1>7. Head(inflight).last <=> (Len(inflight) = 1 /\ outcome = "responded")
  BY <1>3, <1>4 DEF LastOK
<1> QED BY <1>3, <1>4, <1>5, <1>6, <1>7

LEMMA LastStep == TypeOK /\ CountOK /\ LastOK /\ [Next]_vars => LastOK'
<1> SUFFICES ASSUME TypeOK, CountOK, LastOK, [Next]_vars PROVE LastOK'
  OBVIOUS
<1>0. jobs \in Seq(Job) /\ inflight \in Seq(Job) /\ Len(inflight) \in Nat
  BY DEF TypeOK
<1>1. CASE Receive
  BY <1>1 DEF Receive, LastOK
<1>2. CASE Push
  BY <1>2 DEF Push, LastOK
<1>3. CASE Flush
  <2>1. outcome = "reading" /\ inflight = <<>>
    BY <1>3 DEF Flush, Read, Deliverable, Straight, Due, CountOK, Flowing
  <2>2. inflight' = <<[rows |-> records, last |-> FALSE]>> /\ UNCHANGED <<jobs, outcome>>
    BY <1>3, <2>1 DEF Flush
  <2>3. \A k \in 1..Len(jobs) : ~jobs[k].last
    BY <2>1, NoJobIsLast
  <2> QED BY <2>1, <2>2, <2>3 DEF LastOK
<1>4. CASE SourceEnd
  BY <1>4 DEF SourceEnd, LastOK
<1>5. CASE ParserEnd
  BY <1>5 DEF ParserEnd, LastOK
<1>6. CASE ParseError
  BY <1>6 DEF ParseError, Broken, LastOK
<1>7. CASE EmitEnd
  <2>1. \A k \in 1..Len(jobs) : ~jobs[k].last
    BY <1>7, NoJobIsLast DEF EmitEnd
  <2>2. /\ Len(inflight') = Len(inflight) + 1
        /\ inflight'[Len(inflight) + 1].last
        /\ \A k \in 1..Len(inflight) : inflight'[k] = inflight[k] /\ ~inflight[k].last
    BY <1>0, <1>7 DEF EmitEnd, LastOK
  <2>3. \A k \in 1..Len(inflight') : inflight'[k].last <=> k = Len(inflight')
    BY <1>0, <2>2
  <2> QED BY <1>7, <2>1, <2>3 DEF EmitEnd, LastOK
<1>8. CASE FlushDone
  <2>1. Accepted /\ ~Head(inflight).last /\ UNCHANGED outcome
    BY <1>8 DEF FlushDone
  <2>2. \A k \in 1..Len(jobs') : ~jobs'[k].last
    BY <2>1, AcceptedLast
  <2>3. \A k \in 1..Len(inflight') :
          inflight'[k].last <=> (k = Len(inflight') /\ outcome' = "responded")
    BY <2>1, AcceptedLast DEF LastOK
  <2> QED BY <2>2, <2>3 DEF LastOK
<1>9. CASE LastDone
  <2>1. Accepted /\ Head(inflight).last /\ UNCHANGED outcome
    BY <1>9 DEF LastDone
  <2>2. Len(inflight') = 0 /\ outcome = "responded"
    BY <2>1, AcceptedLast
  <2>3. inflight' \in Seq(Job)
    BY <1>0, <2>1 DEF Accepted
  <2>4. inflight' = <<>>
    BY <2>2, <2>3, EmptySeq
  <2> QED BY <2>1, <2>2, <2>4 DEF LastOK
<1>10. CASE AddRejected
  BY <1>10 DEF AddRejected, LastOK
<1>11. CASE UNCHANGED vars
  BY <1>11 DEF vars, LastOK
<1> QED BY <1>1, <1>2, <1>3, <1>4, <1>5, <1>6, <1>7, <1>8, <1>9, <1>10, <1>11 DEF Next

---------------------------------------------------------------------------
(* The steps of the contract *)

LEMMA SentIs ==
  ASSUME TypeOK
  PROVE  /\ Len(Sent) = Len(jobs) + Len(inflight)
         /\ Len(jobs) \in Nat /\ Len(inflight) \in Nat /\ Len(Sent) \in Nat
BY DEF TypeOK, Sent

LEMMA MappedInit == Init => LastOK /\ Request!Init
<1> SUFFICES ASSUME Init PROVE LastOK /\ Request!Init
  OBVIOUS
<1>1. Len(Sent) = 0 /\ Len(jobs) = 0 /\ Steps[outcome] = "reading"
  BY DEF Init, Sent, Steps
<1>2. LastOK
  BY DEF Init, LastOK
<1>3. ~\E k \in 1..Len(jobs) : jobs[k].last
  BY <1>1
<1> QED BY <1>1, <1>2, <1>3 DEF Request!Init

\* A step of the parser or the stream is none of the contract's.
LEMMA Silent ==
  ASSUME UNCHANGED <<jobs, inflight>>, Steps[outcome'] = Steps[outcome]
  PROVE  UNCHANGED Request!vars
BY DEF Request!vars, Sent

LEMMA MappedStep ==
  ASSUME TypeOK, TypeOK', CountOK, LastOK, [Next]_vars
  PROVE  [Request!Next]_(Request!vars)
<1>1. /\ Len(Sent) = Len(jobs) + Len(inflight)
      /\ Len(jobs) \in Nat /\ Len(inflight) \in Nat /\ Len(Sent) \in Nat
  BY SentIs
<1>2. Len(Sent)' = Len(jobs') + Len(inflight') /\ Len(jobs') \in Nat /\ Len(inflight') \in Nat
  <2>1. jobs' \in Seq(Job) /\ inflight' \in Seq(Job)
    BY DEF TypeOK
  <2> QED BY <2>1 DEF Sent
<1>3. CASE Receive
  <2>1. outcome = "arriving" /\ outcome' \in {"reading", "rejected"}
        /\ UNCHANGED <<jobs, inflight>>
    BY <1>3 DEF Receive
  <2>2. CASE outcome' = "reading"
    BY <2>1, <2>2, Silent DEF Steps
  <2>3. CASE outcome' = "rejected"
    BY <2>1, <2>3 DEF Request!Next, Request!Refuse, Steps, Sent
  <2> QED BY <2>1, <2>2, <2>3
<1>4. CASE Push \/ SourceEnd \/ ParserEnd
  BY <1>4, Silent DEF Push, SourceEnd, ParserEnd
<1>5. CASE Flush
  <2>1. outcome = "reading" /\ inflight = <<>> /\ UNCHANGED <<jobs, outcome>>
    BY <1>5 DEF Flush, Read, Deliverable, Straight, Due, CountOK, Flowing
  <2>2. Len(inflight) = 0 /\ Len(inflight') = 1
    BY <1>5, <2>1 DEF Flush
  <2>3. Len(Sent)' = Len(Sent) + 1 /\ Len(Sent) = Len(jobs)
    BY <1>1, <1>2, <2>1, <2>2
  <2>4. Request!Batch(1)
    BY <2>1, <2>3 DEF Request!Batch, Request!Hand, Steps
  <2> QED BY <2>4 DEF Request!Next
<1>6. CASE ParseError
  <2>1. Request!Refuse(1)
    BY <1>6 DEF ParseError, Broken, Request!Refuse, Steps, Sent
  <2> QED BY <2>1 DEF Request!Next
<1>7. CASE EmitEnd
  <2>1. outcome = "reading" /\ outcome' = "responded" /\ jobs' = jobs
    BY <1>7 DEF EmitEnd
  <2>2. Len(inflight') = Len(inflight) + 1
    BY <1>7 DEF EmitEnd, TypeOK
  <2>3. Len(Sent)' = Len(Sent) + 1
    BY <1>1, <1>2, <2>1, <2>2
  <2>4. Request!Answer(1)
    BY <2>1, <2>3 DEF Request!Answer, Request!Hand, Steps
  <2> QED BY <2>4 DEF Request!Next
<1>8. ASSUME Accepted, UNCHANGED outcome
      PROVE  Request!Accept(1)
  <2>1. /\ Len(inflight) # 0 /\ Len(inflight') = Len(inflight) - 1
        /\ Len(jobs') = Len(jobs) + 1
    BY <1>8, AcceptedLast
  <2>2. Len(Sent)' = Len(Sent) /\ Len(jobs') = Len(jobs) + 1 /\ Len(jobs) < Len(Sent)
    BY <1>1, <1>2, <2>1
  <2>3. (\E k \in 1..Len(jobs') : jobs'[k].last)
          <=> (outcome = "responded" /\ Len(jobs) + 1 = Len(Sent))
    <3>1. (\E k \in 1..Len(jobs') : jobs'[k].last) <=> Head(inflight).last
      <4>1. /\ Len(jobs) \in Nat /\ Len(jobs') = Len(jobs) + 1
            /\ \A k \in 1..Len(jobs) : ~jobs'[k].last
            /\ jobs'[Len(jobs) + 1] = Head(inflight)
        BY <1>8, AcceptedLast
      <4>2. Len(jobs) + 1 \in 1..Len(jobs')
        BY <4>1
      <4>3. \A k \in 1..Len(jobs') : k \in 1..Len(jobs) \/ k = Len(jobs) + 1
        BY <4>1
      <4> QED BY <4>1, <4>2, <4>3
    <3>2. (Len(inflight) = 1) <=> (Len(jobs) + 1 = Len(Sent))
      <4>1. \A a, b, c \in Nat : a = b + c => (c = 1 <=> b + 1 = a)
        OBVIOUS
      <4> QED BY <1>1, <4>1
    <3> QED BY <1>8, <3>1, <3>2, AcceptedLast
  <2>4. outcome # "crashed" /\ outcome \in Outcomes
    BY <1>8 DEF Accepted, Idle, TypeOK
  <2>5. Steps[outcome] # "lost" /\ (Steps[outcome] = "answered" <=> outcome = "responded")
    BY <2>4 DEF Steps, Outcomes
  <2> QED BY <1>8, <2>2, <2>3, <2>5 DEF Request!Accept, Request!Arrive
<1>9. CASE FlushDone \/ LastDone
  BY <1>8, <1>9 DEF FlushDone, LastDone, Request!Next
<1>10. CASE AddRejected
  <2>1. inflight # <<>> /\ inflight' = <<>> /\ outcome' = "crashed" /\ jobs' = jobs
    BY <1>10 DEF AddRejected
  <2>2. Len(inflight) # 0
    BY <2>1, EmptySeq DEF TypeOK
  <2>3. Len(jobs) < Len(Sent)
    BY <1>1, <2>2
  <2>4. Len(Sent)' = Len(jobs)
    BY <1>1, <1>2, <2>1
  <2>5. Request!Lose({1})
    BY <2>1, <2>3, <2>4 DEF Request!Lose, Steps
  <2> QED BY <2>5 DEF Request!Next
<1>11. CASE UNCHANGED vars
  BY <1>11, Silent DEF vars
<1> QED BY <1>3, <1>4, <1>5, <1>6, <1>7, <1>9, <1>10, <1>11 DEF Next

\* The stream keeps the contract of FileService.create: one batch on its way at
\* a time while the file is read, none added after a refusal however late, the
\* last one flagged, and sent with the answer.
THEOREM StreamKeepsTheContract == Spec => KeepsTheContract
<1>1. Init => LastOK /\ Request!Init
  BY MappedInit
<1>2. IInv /\ IInv' /\ LastOK /\ [Next]_vars => LastOK' /\ [Request!Next]_(Request!vars)
  BY LastStep, MappedStep DEF IInv
<1> QED BY <1>1, <1>2, Inductive, PTL DEF Spec, KeepsTheContract, Request!Spec
===========================================================================
