--------------------------- MODULE LogFileProofs ---------------------------
(***************************************************************************)
(* Proofs about LogFile, for any threads, days and failures: with its file *)
(* the logger is still the pipeline of LogPipeline, whose invariants it    *)
(* therefore keeps, a day's file holds the day's items in order, and it is *)
(* closed with everything in it when Shutdown returns.                     *)
(***************************************************************************)
EXTENDS LogFile, LogPipelineProofs

\* The file agrees with what was written, and is open for writing unless a
\* failure or the end of Shutdown explains otherwise.
FileTypeOK ==
  /\ date \in Dates \union {""}
  /\ stream \in {"closed", "good", "bad"}
  /\ files \in [Dates -> Seq(Items)]
  /\ errors \subseteq Dates

StreamInv ==
  /\ stream # "good" =>
       \/ date = "" \/ date \in errors
       \/ \E k \in Closers : closer[k] = "done"
       \/ ClosedUnderShutdown
  /\ (\E k \in Closers : closer[k] = "done") /\ ~ClosedUnderShutdown => ~IsOpen

FileInv == FileTypeOK /\ StreamInv /\ FilesAreWritten

-----------------------------------------------------------------------------
(***************************************************************************)
(* The pipeline below the file.                                            *)
(***************************************************************************)

\* The logger with its file is the pipeline: every step of it is a step of the
\* pipeline, or closes the file and moves nothing (logger.cc:12-66).
THEOREM FileImplementsPipeline == FileSpec => Spec
<1>1. FileInit => Init
  BY DEF FileInit
<1>2. [FileNext]_allVars => [Next]_vars
  BY DEF FileNext, DestructorCloses, allVars
<1>. QED  BY <1>1, <1>2, PTL DEF FileSpec, Spec

\* The pipeline's invariant under the file.
THEOREM FileKeepsLogInv == FileSpec => []LogInv
BY FileImplementsPipeline, LogInvariance, PTL

\* A step writes one item at most, and only before Shutdown is done; a thread
\* that is done or was turned away stays so.
LEMMA StepWrites ==
  ASSUME LogInv, Next
  PROVE  /\ \/ written' = written
            \/ /\ \E e \in Items : written' = Append(written, e)
               /\ \A k \in Closers : closer[k] # "done" /\ closer'[k] # "done"
         /\ \A k \in Closers :
              /\ closer[k] \in {"done", "skipped"} => closer'[k] = closer[k]
              /\ closer'[k] = "done" /\ closer[k] # "done" => closer[k] = "drain"
<1> USE DEF LogInv
<1>0. closer \in [Closers -> {"idle", "won", "join", "drain", "write", "done", "skipped", "threw"}]
  BY DEF TypeOK
<1>1. ASSUME NEW p \in Producers, ProducerStep(p)
      PROVE  written' = written /\ closer' = closer
  BY <1>1 DEF ProducerStep, LogEnters, Push, closerVars
<1>2. CASE WorkerStep
  <2>1. closer' = closer
    BY <1>2 DEF WorkerStep, WorkerTests, WorkerPopsBulk, WorkerTimesOut, WorkerWrites,
                WorkerCatches, WorkerTestsEmpty, WorkerPops, WorkerFlushes,
                WorkerTerminates, closerVars
  <2>2. CASE WorkerWrites
    <3>1. next \in DOMAIN bulk /\ worker = "write" /\ written' = Append(written, bulk[next])
      BY <2>2, Lengths, ShortSequences DEF WorkerWrites, HandsInv, TypeOK
    <3>2. bulk[next] \in Items
      BY <3>1 DEF TypeOK
    <3>3. \A k \in Closers : closer[k] # "done"
      BY <3>1 DEF WinnerInv, Joined
    <3>. QED  BY <2>1, <3>1, <3>2, <3>3
  <2>3. CASE WorkerFlushes
    <3>1. worker = "flush" /\ Len(item) = 1 /\ written' = written \o item
      BY <2>3 DEF WorkerFlushes, HandsInv
    <3>2. item = <<item[1]>> /\ item[1] \in Items
      BY <3>1, ShortSequences DEF TypeOK
    <3>3. written \in Seq(Items)
      BY DEF TypeOK
    <3>4. written \o <<item[1]>> = Append(written, item[1])
      BY <3>2, <3>3
    <3>5. \A k \in Closers : closer[k] # "done"
      BY <3>1 DEF WinnerInv, Joined
    <3>6. written' = Append(written, item[1])
      BY <3>1, <3>2, <3>4
    <3>. QED  BY <2>1, <3>2, <3>5, <3>6
  <2>4. CASE ~WorkerWrites /\ ~WorkerFlushes
    <3>1. written' = written
      BY <1>2, <2>4 DEF WorkerStep, WorkerTests, WorkerPopsBulk, WorkerTimesOut,
                        WorkerCatches, WorkerTestsEmpty, WorkerPops, WorkerTerminates
    <3>. QED  BY <2>1, <3>1
  <2>. QED  BY <2>2, <2>3, <2>4
<1>3. ASSUME NEW k \in Closers, ShutdownWrites(k)
      PROVE  /\ \E e \in Items : written' = Append(written, e)
             /\ \A j \in Closers : closer[j] # "done" /\ closer'[j] # "done"
             /\ \A j \in Closers : closer[j] \in {"done", "skipped"} => closer'[j] = closer[j]
  <2>1. closer[k] = "write" /\ rest # <<>> /\ written' = Append(written, Head(rest))
    BY <1>3, OneConsumer DEF ShutdownWrites
  <2>2. Head(rest) \in Items
    BY <2>1 DEF TypeOK
  <2>3. \A j \in Closers : closer[j] # "done"
    BY <2>1 DEF WinnerInv, Winning, Joined
  <2>4. closer' = [closer EXCEPT ![k] = IF rest' # <<>> THEN "write" ELSE "drain"]
    BY <1>3 DEF ShutdownWrites, CloserGoes
  <2>. QED  BY <1>0, <2>1, <2>2, <2>3, <2>4
<1>4. ASSUME NEW k \in Closers,
             ShutdownBegins(k) \/ ShutdownSetsExit(k) \/ ShutdownJoins(k)
               \/ ShutdownPopsBulk(k) \/ ShutdownThrows(k)
      PROVE  /\ written' = written
             /\ \A j \in Closers :
                  /\ closer[j] \in {"done", "skipped"} => closer'[j] = closer[j]
                  /\ closer'[j] = "done" /\ closer[j] # "done" => closer[j] = "drain"
  BY <1>0, <1>4 DEF ShutdownBegins, ShutdownSetsExit, ShutdownJoins, ShutdownPopsBulk,
                    ShutdownThrows, CloserGoes
<1>. QED  BY <1>1, <1>2, <1>3, <1>4 DEF Next, CloserStep

-----------------------------------------------------------------------------
(***************************************************************************)
(* Counting the items of a day.                                            *)
(***************************************************************************)

\* The count is a number, grows with the prefix, and counts item j at j.
LEMMA CountBounds ==
  ASSUME TypeOK, NEW d, NEW n \in Nat, NEW j \in 0 .. n
  PROVE  /\ OfDay(d, j) \in Nat /\ OfDay(d, n) \in Nat /\ OfDay(d, j) <= OfDay(d, n)
         /\ j >= 1 /\ DateOf[written[j]] = d => OfDay(d, j) >= 1
<1> DEFINE P(m) == { i \in 1 .. m : DateOf[written[i]] = d }
<1>1. ASSUME NEW m \in Nat PROVE IsFiniteSet(P(m)) /\ Cardinality(P(m)) \in Nat
  <2>1. IsFiniteSet(1 .. m) /\ P(m) \subseteq 1 .. m
    BY FS_Interval
  <2>. QED  BY <2>1, FS_Subset, FS_CardinalityType
<1>2. P(j) \subseteq P(n)
  OBVIOUS
<1>3. Cardinality(P(j)) <= Cardinality(P(n))
  BY <1>1, <1>2, FS_Subset
<1>4. ASSUME j >= 1, DateOf[written[j]] = d PROVE Cardinality(P(j)) >= 1
  <2>1. j \in P(j)
    BY <1>4
  <2>2. {j} \subseteq P(j) /\ Cardinality({j}) = 1
    BY <2>1, FS_Singleton
  <2>3. Cardinality({j}) <= Cardinality(P(j))
    BY <1>1, <2>2, FS_Subset
  <2>. QED  BY <1>1, <2>2, <2>3
<1>. QED  BY <1>1, <1>3, <1>4 DEF OfDay

\* What one more item does to the counts.
LEMMA CountOneMore ==
  ASSUME TypeOK, NEW d, NEW e \in Items, written' = Append(written, e),
         NEW n, n = Len(written)
  PROVE  /\ \A j \in 0 .. n : OfDay(d, j)' = OfDay(d, j)
         /\ OfDay(d, n + 1)' = OfDay(d, n) + (IF DateOf[e] = d THEN 1 ELSE 0)
<1>1. /\ n \in Nat /\ \A i \in 1 .. n : written'[i] = written[i]
      /\ written'[n + 1] = e
  BY WritesOne, Lengths
<1> DEFINE P(m) == { i \in 1 .. m : DateOf[written[i]] = d }
           Q(m) == { i \in 1 .. m : DateOf[written'[i]] = d }
<1>2. ASSUME NEW j \in 0 .. n PROVE Q(j) = P(j)
  BY <1>1
<1>3. IsFiniteSet(P(n)) /\ Cardinality(P(n)) \in Nat
  <2>1. IsFiniteSet(1 .. n) /\ P(n) \subseteq 1 .. n
    BY <1>1, FS_Interval
  <2>. QED  BY <2>1, FS_Subset, FS_CardinalityType
<1>4. \A j \in 0 .. n : OfDay(d, j)' = OfDay(d, j)
  BY <1>2 DEF OfDay
<1>5. OfDay(d, n) = Cardinality(P(n)) /\ OfDay(d, n + 1)' = Cardinality(Q(n + 1))
  BY DEF OfDay
<1>6. Cardinality(Q(n + 1)) = Cardinality(P(n)) + (IF DateOf[e] = d THEN 1 ELSE 0)
  <2>1. CASE DateOf[e] = d
    <3>1. Q(n + 1) = Q(n) \union {n + 1} /\ n + 1 \notin P(n)
      BY <1>1, <2>1
    <3>2. Q(n) = P(n) /\ n \in 0 .. n
      BY <1>1, <1>2
    <3>3. Q(n + 1) = P(n) \union {n + 1}
      BY <3>1, <3>2
    <3> HIDE DEF P, Q
    <3>. QED  BY <1>3, <2>1, <3>1, <3>3, FS_AddElement
  <2>2. CASE DateOf[e] # d
    <3>1. Q(n + 1) = P(n)
      BY <1>1, <2>2
    <3>2. Cardinality(Q(n + 1)) = Cardinality(P(n))
      BY <3>1
    <3> HIDE DEF P, Q
    <3>. QED  BY <1>3, <2>2, <3>2
  <2>. QED  BY <2>1, <2>2
<1>. QED  BY <1>4, <1>5, <1>6

-----------------------------------------------------------------------------
(***************************************************************************)
(* The invariant of the file.                                              *)
(***************************************************************************)

\* The days' files as they are after one more item of day t was written, which
\* went into the file of its day, or was lost on a day that counts as failed.
LEMMA DaysStayInOrder ==
  ASSUME LogInv, FileTypeOK, FilesAreWritten, ~ClosedUnderShutdown,
         NEW e \in Items, written' = Append(written, e),
         errors \subseteq errors',
         \/ files' = [files EXCEPT ![DateOf[e]] = Append(@, e)]
         \/ files' = files /\ DateOf[e] \in errors'
  PROVE  FilesAreWritten'
<1>1. PICK n : n = Len(written)
  OBVIOUS
<1>2. TypeOK /\ DateOf[e] \in Dates
  BY FileAssumption DEF LogInv
<1>3. /\ n \in Nat /\ Len(written') = n + 1 /\ DOMAIN written' = 1 .. n + 1
      /\ \A i \in 1 .. n : written'[i] = written[i]
      /\ written'[n + 1] = e /\ DOMAIN written = 1 .. n
  BY <1>1, <1>2, WritesOne, Lengths
<1>4. SUFFICES ASSUME NEW d \in Dates, d \notin errors'
               PROVE  /\ Len(files'[d]) = OfDay(d, n + 1)'
                      /\ \A j \in 1 .. n + 1 :
                           DateOf[written'[j]] = d => files'[d][OfDay(d, j)'] = written'[j]
  BY <1>1, <1>3 DEF FilesAreWritten
<1>5. /\ files[d] \in Seq(Items) /\ Len(files[d]) = OfDay(d, n)
      /\ \A j \in 1 .. n : DateOf[written[j]] = d => files[d][OfDay(d, j)] = written[j]
  BY <1>1, <1>3, <1>4 DEF FilesAreWritten, FileTypeOK
<1>6. /\ \A j \in 0 .. n : OfDay(d, j)' = OfDay(d, j)
      /\ OfDay(d, n + 1)' = OfDay(d, n) + (IF DateOf[e] = d THEN 1 ELSE 0)
  BY <1>1, <1>2, CountOneMore
<1>7. /\ \A j \in 1 .. n : DateOf[written[j]] = d => OfDay(d, j) \in 1 .. OfDay(d, n)
      /\ OfDay(d, n) \in Nat
  <2>1. OfDay(d, n) \in Nat
    BY <1>2, <1>3, CountBounds
  <2>2. ASSUME NEW j \in 1 .. n, DateOf[written[j]] = d PROVE OfDay(d, j) \in 1 .. OfDay(d, n)
    <3>1. j \in 0 .. n /\ j >= 1
      OBVIOUS
    <3>2. OfDay(d, j) \in Nat /\ OfDay(d, j) <= OfDay(d, n) /\ OfDay(d, j) >= 1
      BY <1>2, <1>3, <2>2, <3>1, CountBounds
    <3>. QED  BY <2>1, <3>2
  <2>. QED  BY <2>1, <2>2
<1>8. CASE DateOf[e] = d
  <2>1. files'[d] = Append(files[d], e)
    BY <1>4, <1>8 DEF FileTypeOK
  <2>2. /\ Len(files'[d]) = OfDay(d, n) + 1 /\ files'[d][OfDay(d, n) + 1] = e
        /\ \A m \in 1 .. OfDay(d, n) : files'[d][m] = files[d][m]
    BY <1>5, <2>1
  <2>3. OfDay(d, n + 1)' = OfDay(d, n) + 1
    BY <1>6, <1>8
  <2>4. ASSUME NEW j \in 1 .. n, DateOf[written'[j]] = d
        PROVE  files'[d][OfDay(d, j)'] = written'[j]
    <3>1. DateOf[written[j]] = d /\ OfDay(d, j)' = OfDay(d, j) /\ written'[j] = written[j]
      BY <1>3, <1>6, <2>4
    <3>2. OfDay(d, j) \in 1 .. OfDay(d, n) /\ files[d][OfDay(d, j)] = written[j]
      BY <1>5, <1>7, <3>1
    <3>. QED  BY <2>2, <3>1, <3>2
  <2>5. files'[d][OfDay(d, n + 1)'] = written'[n + 1]
    BY <1>3, <2>2, <2>3
  <2>6. \A j \in 1 .. n + 1 : j \in 1 .. n \/ j = n + 1
    BY <1>3
  <2>. QED  BY <2>2, <2>3, <2>4, <2>5, <2>6
<1>9. CASE DateOf[e] # d
  <2>1. files'[d] = files[d]
    BY <1>2, <1>4, <1>9 DEF FileTypeOK
  <2>2. OfDay(d, n + 1)' = OfDay(d, n)
    BY <1>6, <1>7, <1>9
  <2>3. ASSUME NEW j \in 1 .. n, DateOf[written'[j]] = d
        PROVE  files'[d][OfDay(d, j)'] = written'[j]
    <3>1. DateOf[written[j]] = d /\ OfDay(d, j)' = OfDay(d, j) /\ written'[j] = written[j]
      BY <1>3, <1>6, <2>3
    <3>. QED  BY <1>5, <2>1, <3>1
  <2>4. \A j \in 1 .. n + 1 : j \in 1 .. n \/ j = n + 1
    BY <1>3
  <2>. QED  BY <1>3, <1>5, <1>9, <2>1, <2>2, <2>3, <2>4
<1>. QED  BY <1>8, <1>9

\* The destructor that found another thread in Shutdown stays with it.
LEMMA TurnedAwayStays ==
  ASSUME LogInv, Next \/ UNCHANGED vars
  PROVE  ClosedUnderShutdown => ClosedUnderShutdown'
<1>1. \A k \in Destructors : closer[k] = "skipped" => closer'[k] = "skipped"
  BY StepWrites, FileAssumption DEF vars
<1>. QED  BY <1>1 DEF ClosedUnderShutdown

\* A call of the callback: the item goes into the file of its day, or the day
\* is one that failed (logger.cc:31-54).
LEMMA OutputKeeps ==
  ASSUME LogInv, FileInv, Next, written' # written, Output(Last(written'))
  PROVE  FileInv'
<1> USE DEF FileInv
<1>1. PICK e \in Items : written' = Append(written, e)
  BY StepWrites
<1>2. \A k \in Closers : closer[k] # "done" /\ closer'[k] # "done"
  BY StepWrites
<1>3. Last(written') = e /\ DateOf[e] \in Dates /\ "" \notin Dates
  <2>1. written \in Seq(Items) /\ Len(written) \in Nat
    BY Lengths DEF LogInv, TypeOK
  <2>2. Last(written') = e
    BY ONLY <1>1, <2>1, AppendProperties DEF Last
  <2>. QED  BY <2>2, FileAssumption
<1>4. /\ date \in Dates \union {""} /\ files \in [Dates -> Seq(Items)]
      /\ stream \in {"closed", "good", "bad"} /\ errors \subseteq Dates
  BY DEF FileTypeOK
<1>5. \/ OpenFails(DateOf[e]) \/ WritesLine(e) \/ WriteFails(e) \/ DropsLine(DateOf[e])
  BY <1>3 DEF Output
<1>6. FileTypeOK'
  <2>1. CASE OpenFails(DateOf[e])
    BY <1>3, <1>4, <2>1 DEF OpenFails, Fails, FileTypeOK
  <2>2. CASE WritesLine(e)
    <3>1. date' = DateOf[e] /\ files' = [files EXCEPT ![DateOf[e]] = Append(@, e)]
          /\ stream' = "good" /\ errors' = errors
      BY <2>2 DEF WritesLine, SameDay
    <3>2. Append(files[DateOf[e]], e) \in Seq(Items)
      <4>1. files[DateOf[e]] \in Seq(Items)
        BY <1>3, <1>4
      <4>. QED  BY <4>1, AppendProperties
    <3>. QED  BY <1>3, <1>4, <3>1, <3>2 DEF FileTypeOK
  <2>3. CASE WriteFails(e)
    BY <1>3, <1>4, <2>3 DEF WriteFails, Fails, FileTypeOK, SameDay
  <2>4. CASE DropsLine(DateOf[e])
    BY <1>4, <2>4 DEF DropsLine, fileVars, FileTypeOK
  <2>. QED  BY <1>5, <2>1, <2>2, <2>3, <2>4
<1>7. StreamInv'
  <2>1. ~\E k \in Closers : closer'[k] = "done"
    BY <1>2
  <2>2. stream' # "good" => date' = "" \/ date' \in errors' \/ ClosedUnderShutdown'
    <3>1. CASE OpenFails(DateOf[e])
      BY <3>1 DEF OpenFails, Fails
    <3>2. CASE WritesLine(e)
      BY <3>2 DEF WritesLine
    <3>3. CASE WriteFails(e)
      BY <3>3 DEF WriteFails, Fails, SameDay
    <3>4. CASE DropsLine(DateOf[e])
      BY <1>2, <3>4, TurnedAwayStays DEF DropsLine, fileVars, StreamInv
    <3>. QED  BY <1>5, <3>1, <3>2, <3>3, <3>4
  <2>. QED  BY <2>1, <2>2 DEF StreamInv
<1>8. FilesAreWritten'
  <2>1. SUFFICES ASSUME ~ClosedUnderShutdown' PROVE FilesAreWritten'
    BY DEF FilesAreWritten
  <2>2. ~ClosedUnderShutdown
    BY <2>1, TurnedAwayStays
  <2>3. errors \subseteq errors'
    BY <1>5 DEF OpenFails, Fails, WritesLine, WriteFails, DropsLine, fileVars
  <2>4. \/ files' = [files EXCEPT ![DateOf[e]] = Append(@, e)]
        \/ files' = files /\ DateOf[e] \in errors'
    <3>1. CASE OpenFails(DateOf[e])
      BY <3>1 DEF OpenFails, Fails
    <3>2. CASE WritesLine(e)
      BY <3>2 DEF WritesLine, SameDay
    <3>3. CASE WriteFails(e)
      BY <3>3 DEF WriteFails, Fails
    <3>4. CASE DropsLine(DateOf[e])
      BY <1>2, <1>3, <2>2, <3>4 DEF DropsLine, SameDay, fileVars, StreamInv
    <3>. QED  BY <1>5, <3>1, <3>2, <3>3, <3>4
  <2>. QED  BY <1>1, <2>2, <2>3, <2>4, DaysStayInOrder
<1>. QED  BY <1>6, <1>7, <1>8

\* A step that writes nothing; the last one of Shutdown closes the file
\* (logger.cc:177-188).
LEMMA SilentKeeps ==
  ASSUME LogInv, FileInv, Next \/ UNCHANGED vars, written' = written,
         UNCHANGED <<date, files, errors>>,
         \/ stream' = stream /\ ~Closes
         \/ stream' = "closed" /\ Closes
         \/ stream' = "closed" /\ \E k \in Destructors : closer[k] \in {"done", "skipped"}
  PROVE  FileInv'
<1> USE DEF FileInv
<1>1. \A k \in Closers :
        /\ closer[k] \in {"done", "skipped"} => closer'[k] = closer[k]
        /\ closer'[k] = "done" /\ closer[k] # "done" => closer[k] = "drain"
  BY StepWrites DEF vars
<1>2. FileTypeOK'
  BY DEF FileTypeOK
<1>3. StreamInv'
  <2>1. ClosedUnderShutdown => ClosedUnderShutdown'
    BY TurnedAwayStays
  <2>2. CASE stream' = stream /\ ~Closes
    <3>1. \A k \in Closers : closer'[k] = "done" <=> closer[k] = "done"
      BY <1>1, <2>2 DEF Closes
    <3>. QED  BY <2>1, <2>2, <3>1 DEF StreamInv, IsOpen
  <2>3. CASE stream' = "closed" /\ Closes
    <3>1. \E k \in Closers : closer'[k] = "done"
      BY <2>3 DEF Closes
    <3>. QED  BY <2>3, <3>1 DEF StreamInv, IsOpen
  <2>4. CASE stream' = "closed" /\ \E k \in Destructors : closer[k] \in {"done", "skipped"}
    <3>1. (\E k \in Closers : closer'[k] = "done") \/ ClosedUnderShutdown'
      BY <1>1, <2>4, FileAssumption DEF ClosedUnderShutdown
    <3>. QED  BY <2>4, <3>1 DEF StreamInv, IsOpen
  <2>. QED  BY <2>2, <2>3, <2>4
<1>4. FilesAreWritten'
  <2>1. \A d, j : OfDay(d, j)' = OfDay(d, j)
    BY DEF OfDay
  <2>2. Len(written') = Len(written) /\ \A d : OfDay(d, Len(written))' = OfDay(d, Len(written))
    BY DEF OfDay
  <2>. QED  BY <2>1, <2>2, TurnedAwayStays DEF FilesAreWritten
<1>. QED  BY <1>2, <1>3, <1>4

-----------------------------------------------------------------------------
(***************************************************************************)
(* The theorems.                                                           *)
(***************************************************************************)

\* The invariant of the file, over the pipeline's (logger.cc:12-66).
THEOREM FileInvariance == FileSpec => []FileInv
<1>1. FileInit => FileInv
  <2> SUFFICES ASSUME FileInit PROVE FileInv
    OBVIOUS
  <2>1. FileTypeOK
    <3>1. date = "" /\ stream = "closed" /\ errors = {} /\ files = [d \in Dates |-> <<>>]
      BY DEF FileInit
    <3>2. <<>> \in Seq(Items)
      OBVIOUS
    <3>. QED  BY <3>1, <3>2 DEF FileTypeOK
  <2>2. StreamInv
    BY DEF FileInit, Init, StreamInv
  <2>3. written = <<>> /\ files = [d \in Dates |-> <<>>]
    BY DEF FileInit, Init
  <2>4. Len(written) = 0 /\ DOMAIN written = {} /\ \A d \in Dates : Len(files[d]) = 0
    BY <2>3
  <2>5. ASSUME NEW d PROVE OfDay(d, 0) = 0
    <3>1. { i \in 1 .. 0 : DateOf[written[i]] = d } = {}
      OBVIOUS
    <3>. QED  BY <3>1, FS_EmptySet DEF OfDay
  <2>6. FilesAreWritten
    BY <2>4, <2>5 DEF FilesAreWritten
  <2>. QED  BY <2>1, <2>2, <2>6 DEF FileInv
<1>2. LogInv /\ FileInv /\ [FileNext]_allVars => FileInv'
  <2> SUFFICES ASSUME LogInv, FileInv, [FileNext]_allVars PROVE FileInv'
    OBVIOUS
  <2>1. CASE Next /\ FileStep /\ written' # written
    BY <2>1, OutputKeeps DEF FileStep
  <2>2. CASE Next /\ FileStep /\ written' = written
    <3>1. IF Closes THEN CloseFile ELSE UNCHANGED fileVars
      BY <2>2 DEF FileStep
    <3>. QED  BY <2>2, <3>1, SilentKeeps DEF CloseFile, fileVars
  <2>3. CASE DestructorCloses
    BY <2>3, SilentKeeps DEF DestructorCloses, CloseFile, vars
  <2>4. CASE UNCHANGED allVars
    <3>1. UNCHANGED vars /\ UNCHANGED fileVars /\ written' = written /\ closer' = closer
      BY <2>4 DEF allVars, vars
    <3>2. ~Closes
      BY <3>1 DEF Closes
    <3>. QED  BY <3>1, <3>2, SilentKeeps DEF fileVars
  <2>. QED  BY <2>1, <2>2, <2>3, <2>4 DEF FileNext
<1>. QED  BY <1>1, <1>2, FileKeepsLogInv, PTL DEF FileSpec

\* However often the days go back and forth, a day's file is the day's items
\* in the order of writing, unless that day itself failed (logger.cc:35-54).
THEOREM FilesInOrder == FileSpec => []FilesAreWritten
BY FileInvariance, PTL DEF FileInv

\* When Shutdown returns and no callback threw, the file is closed and
\* everything pushed before Shutdown began is in it (logger.cc:165-194).
THEOREM OnDisk == FileSpec => []OnDiskAtShutdown
<1>1. LogInv /\ FileInv => OnDiskAtShutdown
  <2> SUFFICES ASSUME LogInv, FileInv,
                      NEW k \in Closers, closer[k] = "done", throws = 0, ~ClosedUnderShutdown
               PROVE  /\ ~IsOpen
                      /\ \A i \in 1 .. cutoff :
                           DateOf[pushed[i]] \notin errors =>
                             pushed[i] \in ToSet(files[DateOf[pushed[i]]])
    BY DEF OnDiskAtShutdown
  <2>1. ~IsOpen
    BY DEF FileInv, StreamInv
  <2>2. ASSUME NEW i \in 1 .. cutoff, DateOf[pushed[i]] \notin errors
        PROVE  pushed[i] \in ToSet(files[DateOf[pushed[i]]])
    <3> DEFINE d == DateOf[pushed[i]]
    <3>1. /\ Len(written) \in Nat /\ i \in 1 .. Len(written) /\ i \in DOMAIN written
          /\ i \in DOMAIN pushed /\ written[i] = pushed[i] /\ TypeOK
      BY CalmIsPrefix, Lengths DEF LogInv, CalmInv, TypeOK
    <3>2. d \in Dates
      <4>1. pushed[i] \in Items
        BY <3>1 DEF TypeOK
      <4>. QED  BY <4>1, FileAssumption
    <3>3. /\ files[d] \in Seq(Items) /\ Len(files[d]) = OfDay(d, Len(written))
          /\ files[d][OfDay(d, i)] = pushed[i]
      BY <2>2, <3>1, <3>2 DEF FileInv, FileTypeOK, FilesAreWritten
    <3>4. OfDay(d, i) \in Nat /\ OfDay(d, i) >= 1 /\ OfDay(d, i) <= OfDay(d, Len(written))
      <4>1. i \in 0 .. Len(written) /\ i >= 1
        BY <3>1
      <4>. QED  BY <3>1, <4>1, CountBounds
    <3>5. OfDay(d, i) \in DOMAIN files[d]
      BY <3>3, <3>4
    <3>. QED  BY <3>3, <3>5 DEF ToSet
  <2>. QED  BY <2>1, <2>2
<1>. QED  BY <1>1, FileKeepsLogInv, FileInvariance, PTL

=============================================================================
