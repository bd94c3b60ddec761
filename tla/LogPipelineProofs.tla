------------------------- MODULE LogPipelineProofs -------------------------
(***************************************************************************)
(* Proofs about LogPipeline, for any threads, bulks of any size, any       *)
(* number of messages and of exceptions: LogInv (LogPipelineInv) is an     *)
(* inductive invariant, and the safety properties the runs check follow    *)
(* from it.                                                                *)
(***************************************************************************)
EXTENDS LogPipelineInv, SequenceTheorems, FiniteSetTheorems, TLAPS

-----------------------------------------------------------------------------
(***************************************************************************)
(* Facts about the sequences.                                              *)
(***************************************************************************)

\* Every sequence of the logger has a length and the indices up to it.
LEMMA Lengths ==
  ASSUME TypeOK
  PROVE  /\ Len(queue) \in Nat /\ DOMAIN queue = 1 .. Len(queue)
         /\ Len(bulk) \in Nat /\ DOMAIN bulk = 1 .. Len(bulk)
         /\ Len(item) \in Nat /\ DOMAIN item = 1 .. Len(item)
         /\ Len(rest) \in Nat /\ DOMAIN rest = 1 .. Len(rest)
         /\ Len(pushed) \in Nat /\ DOMAIN pushed = 1 .. Len(pushed)
         /\ Len(written) \in Nat /\ DOMAIN written = 1 .. Len(written)
BY DEF TypeOK

\* A sequence without items, or with one.
LEMMA ShortSequences ==
  ASSUME NEW S, NEW s \in Seq(S)
  PROVE  /\ s = <<>> <=> Len(s) = 0
         /\ Len(s) = 1 => s = <<s[1]>> /\ s[1] \in S
<1>1. s = <<>> <=> Len(s) = 0
  BY EmptySeq
<1>2. ASSUME Len(s) = 1 PROVE s = <<s[1]>> /\ s[1] \in S
  BY <1>2, SeqEqual
<1>. QED  BY <1>1, <1>2

\* Two sequences, one behind the other.
LEMMA Behind ==
  ASSUME NEW s \in Seq(Items), NEW t \in Seq(Items)
  PROVE  /\ s \o t \in Seq(Items) /\ Len(s \o t) = Len(s) + Len(t)
         /\ DOMAIN (s \o t) = 1 .. Len(s) + Len(t)
         /\ \A i \in 1 .. Len(s) : (s \o t)[i] = s[i]
         /\ \A i \in 1 .. Len(t) : (s \o t)[Len(s) + i] = t[i]
BY ConcatProperties, LenProperties

\* PopBulk moves no more than there is and than fits (lockqueue.h:41-44).
LEMMA MovedFits ==
  ASSUME TypeOK, NEW n \in Nat, n <= BulkMax
  PROVE  /\ Moved(n) \in 0 .. Len(queue)
         /\ n + Moved(n) <= BulkMax
         /\ n < BulkMax /\ Moved(n) = 0 => queue = <<>>
<1>1. Len(queue) \in Nat /\ (queue = <<>> <=> Len(queue) = 0)
  BY EmptySeq DEF TypeOK
<1>. QED  BY <1>1, LogAssumption DEF Moved

\* The items it takes and those it leaves.
LEMMA Splits ==
  ASSUME TypeOK, NEW n \in 0 .. Len(queue)
  PROVE  /\ Oldest(n) \in Seq(Items) /\ After(n) \in Seq(Items)
         /\ Len(Oldest(n)) = n /\ Len(After(n)) = Len(queue) - n
         /\ \A i \in 1 .. n : Oldest(n)[i] = queue[i]
         /\ \A i \in 1 .. Len(queue) - n : After(n)[i] = queue[n + i]
BY DEF TypeOK, Oldest, After

\* Places of an item in written are finitely many.
LEMMA TimesAreNumbers ==
  ASSUME TypeOK, NEW x
  PROVE  IsFiniteSet(Places(x)) /\ Times(x) \in Nat
<1>1. Places(x) \subseteq 1 .. Len(written) /\ Len(written) \in Nat
  BY Lengths DEF Places
<1>2. IsFiniteSet(1 .. Len(written))
  BY <1>1, FS_Interval
<1>. QED  BY <1>1, <1>2, FS_Subset, FS_CardinalityType DEF Times

\* An item that was never written has been written no time.
LEMMA NotWritten ==
  ASSUME TypeOK, NEW x, x \notin ToSet(written)
  PROVE  Times(x) = 0
<1>1. Places(x) = {}
  BY DEF Places, ToSet
<1>. QED  BY <1>1, FS_EmptySet DEF Times

\* What a call of the output callback for one item does to written.
LEMMA WritesOne ==
  ASSUME TypeOK, NEW e \in Items, written' = Append(written, e)
  PROVE  /\ written' \in Seq(Items) /\ Len(written') = Len(written) + 1
         /\ \A i \in 1 .. Len(written) : written'[i] = written[i]
         /\ written'[Len(written) + 1] = e
         /\ ToSet(written)' = ToSet(written) \union {e}
         /\ \A x : Times(x)' = IF x = e THEN Times(x) + 1 ELSE Times(x)
<1>1. /\ written' \in Seq(Items) /\ Len(written') = Len(written) + 1
      /\ \A i \in 1 .. Len(written) : written'[i] = written[i]
      /\ written'[Len(written) + 1] = e
      /\ Len(written) \in Nat
  BY AppendProperties DEF TypeOK
<1>2. DOMAIN written = 1 .. Len(written) /\ DOMAIN written' = 1 .. Len(written) + 1
  BY <1>1, LenProperties DEF TypeOK
<1>3. ToSet(written)' = ToSet(written) \union {e}
  BY <1>1, <1>2 DEF ToSet
<1>4. ASSUME NEW x, x # e PROVE Times(x)' = Times(x)
  <2>1. Places(x)' = Places(x)
    BY <1>1, <1>2, <1>4 DEF Places
  <2>. QED  BY <2>1 DEF Times
<1>5. Times(e)' = Times(e) + 1
  <2>1. Places(e)' = Places(e) \union {Len(written) + 1}
    BY <1>1, <1>2 DEF Places
  <2>2. Len(written) + 1 \notin Places(e)
    BY <1>1, <1>2 DEF Places
  <2>. QED  BY <2>1, <2>2, TimesAreNumbers, FS_AddElement DEF Times
<1>. QED  BY <1>1, <1>3, <1>4, <1>5

-----------------------------------------------------------------------------
(***************************************************************************)
(* Steps that move no item: tests, time-outs, exceptions and the hand-over *)
(* from the log thread to Shutdown.                                        *)
(***************************************************************************)

\* The bulk holds items that were pushed.
LEMMA BulkIsPushed ==
  ASSUME LogInv, NEW i \in 1 .. Len(bulk)
  PROVE  bulk[i] \in ToSet(pushed)
<1>1. PICK b \in 0 .. Len(pushed) : BulkAt(b)
  BY DEF LogInv, BulkInv
<1>2. b + i \in DOMAIN pushed /\ bulk[i] = pushed[b + i]
  BY <1>1, Lengths DEF LogInv, BulkAt, Taken
<1>. QED  BY <1>2 DEF ToSet

\* Where every item is stays true; an exception that starts the bulk again
\* (logger.cc:118) leaves each of its items one more writing.
LEMMA NothingMoves ==
  ASSUME LogInv,
         UNCHANGED <<queue, producerVars, bulk, item, rest, written>>,
         throws' \in {throws, throws + 1},
         \/ next' = next
         \/ next' = 1 /\ throws' = throws + 1,
         running' => running,
         worker' \in Looping => worker \in Looping
  PROVE  BacklogInv' /\ BulkInv' /\ TimesInv' /\ NoSkipInv'
<1> USE DEF LogInv, producerVars
<1>1. Taken' = Taken /\ Taken \in Int
  BY Lengths DEF Taken
<1>2. BacklogInv'
  BY <1>1 DEF BacklogInv
<1>3. BulkInv'
  BY <1>1 DEF BulkInv, BulkAt
<1>4. \A x : Times(x)' = Times(x) /\ Times(x) \in Nat
  BY TimesAreNumbers DEF Times, Places
<1>5. TimesInv'
  <2>1. ASSUME NEW i \in next' .. Len(bulk) PROVE Times(bulk[i]) <= throws'
    <3>1. throws \in Nat /\ next \in Nat \ {0} /\ Len(bulk) \in Nat /\ i \in 1 .. Len(bulk)
      BY Lengths DEF TypeOK
    <3>2. CASE next' = next
      BY <1>4, <3>1, <3>2 DEF TimesInv
    <3>3. CASE throws' = throws + 1
      BY <1>4, <3>1, <3>3, BulkIsPushed DEF TimesInv
    <3>. QED  BY <3>2, <3>3
  <2>2. throws \in Nat
    BY DEF TypeOK
  <2>3. \A x \in ToSet(pushed) : Times(x) <= 1 + throws'
    BY <1>4, <2>2 DEF TimesInv
  <2>4. \A i \in Taken + 1 .. Len(pushed) : Times(pushed[i]) <= throws'
    BY <1>1, <1>4, <2>2, Lengths DEF TimesInv
  <2>. QED  BY <1>1, <1>4, <2>1, <2>3, <2>4 DEF TimesInv
<1>6. NoSkipInv'
  BY <1>1, Lengths DEF NoSkipInv, TypeOK
<1>. QED  BY <1>2, <1>3, <1>5, <1>6

\* Log's test of m_running (logger.cc:93).
LEMMA LogEntersKeeps ==
  ASSUME LogInv, NEW p \in Producers, LogEnters(p)
  PROVE  LogInv'
<1> USE DEF LogEnters, workerVars, closerVars, LogInv
<1>1. TypeOK'
  BY DEF TypeOK
<1>2. WinnerInv' /\ HandsInv'
  BY DEF WinnerInv, HandsInv
<1>3. PushedInv'
  BY DEF PushedInv, TypeOK
<1>4. Taken' = Taken
  BY DEF Taken
<1>5. BacklogInv' /\ BulkInv' /\ NoSkipInv' /\ CalmInv'
  BY <1>4 DEF BacklogInv, BulkInv, BulkAt, NoSkipInv, CalmInv
<1>6. TimesInv'
  BY <1>4 DEF TimesInv, Times, Places
<1>. QED  BY <1>1, <1>2, <1>3, <1>5, <1>6

\* The log thread's tests, its time-out and its exceptions
\* (logger.cc:108-129).
LEMMA WorkerStaysKeeps ==
  ASSUME LogInv,
         WorkerTests \/ WorkerTimesOut \/ WorkerCatches \/ WorkerTestsEmpty \/ WorkerTerminates
  PROVE  LogInv'
<1> USE DEF LogInv, producerVars, closerVars
<1>1. /\ UNCHANGED <<queue, producerVars, bulk, item, closerVars, written>>
      /\ worker' \in Looping => worker \in Looping
      /\ \/ next' = next /\ throws' = throws
         \/ next' = next /\ throws' = throws + 1 /\ throws < MaxThrows /\ worker' = "terminated"
         \/ next' = 1 /\ throws' = throws + 1 /\ throws < MaxThrows /\ worker' = "loop"
  BY DEF WorkerTests, WorkerTimesOut, WorkerCatches, WorkerTestsEmpty, WorkerTerminates, Looping
<1>2. TypeOK'
  <2>1. worker' \in {"loop", "wait", "drain", "pop", "ended", "terminated"}
    BY DEF WorkerTests, WorkerTimesOut, WorkerCatches, WorkerTestsEmpty, WorkerTerminates
  <2>2. throws' \in 0 .. MaxThrows /\ next' \in Nat \ {0}
    BY <1>1, LogAssumption DEF TypeOK
  <2>. QED  BY <1>1, <2>1, <2>2 DEF TypeOK
<1>3. WinnerInv'
  BY <1>1 DEF WinnerInv, WorkerTests, WorkerTimesOut, WorkerCatches, WorkerTestsEmpty,
              WorkerTerminates, Looping, Joined, Winning
<1>4. HandsInv'
  BY <1>1, Lengths DEF HandsInv, WorkerTests, WorkerTimesOut, WorkerCatches,
                       WorkerTestsEmpty, WorkerTerminates
<1>5. PushedInv'
  BY <1>1 DEF PushedInv
<1>6. Taken' = Taken
  BY <1>1 DEF Taken
<1>7. CalmInv'
  <2>1. SUFFICES ASSUME throws' = 0 PROVE CalmInv'
    BY DEF CalmInv
  <2>2. throws = 0 /\ next' = next
    BY <1>1, <2>1 DEF TypeOK
  <2>3. worker # "write" /\ worker' # "write"
    BY <2>1, <2>2 DEF WorkerTests, WorkerTimesOut, WorkerCatches, WorkerTestsEmpty,
                      WorkerTerminates, TypeOK
  <2>4. worker' # "terminated"
    BY <2>1, <2>2 DEF WorkerTests, WorkerTimesOut, WorkerCatches, WorkerTestsEmpty,
                      WorkerTerminates, TypeOK
  <2>. QED  BY <1>1, <1>6, <2>2, <2>3, <2>4 DEF CalmInv
<1>8. BacklogInv' /\ BulkInv' /\ TimesInv' /\ NoSkipInv'
  BY <1>1, NothingMoves
<1>. QED  BY <1>2, <1>3, <1>4, <1>5, <1>7, <1>8

\* Shutdown's compare-exchange, SetExit, join and exception (logger.cc:165-190).
LEMMA ShutdownStaysKeeps ==
  ASSUME LogInv, NEW k \in Closers,
         ShutdownBegins(k) \/ ShutdownSetsExit(k) \/ ShutdownJoins(k) \/ ShutdownThrows(k)
  PROVE  LogInv'
<1> USE DEF LogInv, producerVars, workerVars, CloserGoes
<1>1. /\ UNCHANGED <<queue, producerVars, workerVars, rest, written>>
      /\ throws' = throws \/ (throws' = throws + 1 /\ throws < MaxThrows)
  BY DEF ShutdownBegins, ShutdownSetsExit, ShutdownJoins, ShutdownThrows
<1>2. closer \in [Closers -> {"idle", "won", "join", "drain", "write", "done", "skipped", "threw"}]
  BY DEF TypeOK
<1>3. TypeOK'
  <2>1. closer' \in [Closers -> {"idle", "won", "join", "drain", "write", "done", "skipped", "threw"}]
    BY <1>2 DEF ShutdownBegins, ShutdownSetsExit, ShutdownJoins, ShutdownThrows
  <2>2. running' \in BOOLEAN /\ exit' \in BOOLEAN /\ cutoff' \in Nat
    BY Lengths DEF TypeOK, ShutdownBegins, ShutdownSetsExit, ShutdownJoins, ShutdownThrows
  <2>3. throws' \in 0 .. MaxThrows
    BY <1>1, LogAssumption DEF TypeOK
  <2>. QED  BY <1>1, <2>1, <2>2, <2>3 DEF TypeOK
<1>4. WinnerInv'
  <2> USE <1>2 DEF WinnerInv, Winning, Joined, Looping
  <2>1. CASE ShutdownBegins(k) /\ running
    <3>1. closer' = [closer EXCEPT ![k] = "won"] /\ ~running' /\ worker' = worker
      BY <2>1 DEF ShutdownBegins
    <3>2. \A j \in Closers : closer[j] = "idle"
      BY <2>1
    <3>. QED  BY <3>1, <3>2
  <2>2. CASE ShutdownBegins(k) /\ ~running
    <3>1. closer' = [closer EXCEPT ![k] = "skipped"] /\ ~running' /\ worker' = worker
      BY <2>2 DEF ShutdownBegins
    <3>. QED  BY <3>1
  <2>3. CASE ShutdownSetsExit(k)
    BY <2>3 DEF ShutdownSetsExit
  <2>4. CASE ShutdownJoins(k)
    BY <2>4 DEF ShutdownJoins
  <2>5. CASE ShutdownThrows(k)
    BY <2>5 DEF ShutdownThrows
  <2>. QED  BY <2>1, <2>2, <2>3, <2>4, <2>5
<1>5. HandsInv'
  BY DEF HandsInv, ShutdownBegins, ShutdownSetsExit, ShutdownJoins, ShutdownThrows, TypeOK
<1>6. PushedInv'
  BY <1>1, Lengths DEF PushedInv, ShutdownBegins, ShutdownSetsExit, ShutdownJoins, ShutdownThrows
<1>7. Taken' = Taken
  BY <1>1 DEF Taken
<1>8. CalmInv'
  <2>1. SUFFICES ASSUME throws' = 0 PROVE CalmInv'
    BY DEF CalmInv
  <2>2. throws = 0
    BY <1>1, <2>1 DEF TypeOK
  <2>3. \A j \in Closers : closer'[j] = "done" => closer[j] = "done" /\ cutoff' = cutoff
    BY DEF WinnerInv, ShutdownBegins, ShutdownSetsExit, ShutdownJoins, ShutdownThrows, TypeOK
  <2>. QED  BY <1>1, <1>7, <2>2, <2>3 DEF CalmInv
<1>9. BacklogInv' /\ BulkInv' /\ TimesInv' /\ NoSkipInv'
  <2>1. running' => running
    BY DEF ShutdownBegins, ShutdownSetsExit, ShutdownJoins, ShutdownThrows
  <2>2. next' = next /\ UNCHANGED <<queue, bulk, item, worker>>
    BY <1>1 DEF workerVars
  <2>. QED  BY <1>1, <2>1, <2>2, NothingMoves
<1>. QED  BY <1>3, <1>4, <1>5, <1>6, <1>8, <1>9

-----------------------------------------------------------------------------
(***************************************************************************)
(* Steps that move items.                                                  *)
(***************************************************************************)

\* While the log thread has not ended Shutdown holds nothing, and the thread
\* that drains the queue is the only one that may hold a bulk.
LEMMA OneConsumer ==
  ASSUME LogInv
  PROVE  /\ worker # "ended" => rest = <<>>
         /\ \A k \in Closers : closer[k] = "drain" => worker = "ended" /\ rest = <<>>
         /\ \A k \in Closers : closer[k] = "write" => worker = "ended" /\ rest # <<>>
BY DEF LogInv, WinnerInv, HandsInv, Joined, Winning

\* Push (lockqueue.h:20-26): the new item is the youngest and like no other.
LEMMA PushKeeps ==
  ASSUME LogInv, NEW p \in Producers, Push(p)
  PROVE  LogInv'
<1> USE DEF LogInv
<1> DEFINE new == <<p, count[p] + 1>>
<1>1. /\ p \in admitted /\ count[p] \in 0 .. MaxLogs - 1 /\ new \in Items
      /\ queue' = Append(queue, new) /\ pushed' = Append(pushed, new)
      /\ count' = [count EXCEPT ![p] = @ + 1] /\ admitted' = admitted \ {p}
      /\ UNCHANGED <<workerVars, closerVars, written, throws>>
  <2>1. p \in admitted /\ count[p] < MaxLogs /\ count[p] \in 0 .. MaxLogs
    BY DEF Push, PushedInv, TypeOK
  <2>2. count[p] \in 0 .. MaxLogs - 1 /\ count[p] + 1 \in 1 .. MaxLogs
    BY ONLY <2>1, LogAssumption
  <2>. QED  BY <2>1, <2>2 DEF Push, Items
<1>2. /\ queue' \in Seq(Items) /\ Len(queue') = Len(queue) + 1
      /\ \A i \in 1 .. Len(queue) : queue'[i] = queue[i]
      /\ queue'[Len(queue) + 1] = new
      /\ DOMAIN queue' = 1 .. Len(queue) + 1
  BY <1>1 DEF TypeOK
<1>3. /\ pushed' \in Seq(Items) /\ Len(pushed') = Len(pushed) + 1
      /\ \A i \in 1 .. Len(pushed) : pushed'[i] = pushed[i]
      /\ pushed'[Len(pushed) + 1] = new
      /\ DOMAIN pushed' = 1 .. Len(pushed) + 1
  BY <1>1 DEF TypeOK
<1>4. TypeOK'
  <2>1. count \in [Producers -> 0 .. MaxLogs] /\ admitted \subseteq Producers /\ p \in Producers
    BY <1>1 DEF TypeOK
  <2>2. count[p] + 1 \in 0 .. MaxLogs
    BY ONLY <1>1, LogAssumption
  <2>3. count' \in [Producers -> 0 .. MaxLogs] /\ admitted' \subseteq Producers
    BY ONLY <1>1, <2>1, <2>2
  <2>. QED  BY <1>1, <1>2, <1>3, <2>3 DEF TypeOK, workerVars, closerVars
<1>5. new \notin ToSet(pushed) /\ ToSet(pushed)' = ToSet(pushed) \union {new}
  <2>1. \A i \in DOMAIN pushed : pushed[i] # new
    BY <1>1, Lengths DEF PushedInv, TypeOK
  <2> HIDE DEF new
  <2>2. new \notin ToSet(pushed)
    BY <2>1 DEF ToSet
  <2>3. ToSet(pushed)' = ToSet(pushed) \union {new}
    BY <1>3, Lengths DEF ToSet
  <2>. QED  BY <2>2, <2>3
<1>6. Taken' = Taken /\ Taken \in Nat
  BY <1>1, <1>2, <1>3, Lengths DEF Taken, workerVars, closerVars, BacklogInv
<1>7. WinnerInv' /\ HandsInv'
  BY <1>1, <1>2 DEF WinnerInv, HandsInv, workerVars, closerVars
<1>8. PushedInv'
  <2>1. \A q \in admitted' : count'[q] < MaxLogs
    BY <1>1 DEF PushedInv, TypeOK
  <2>2. \A i \in DOMAIN pushed : pushed[i] \in Items
    BY DEF TypeOK
  <2>3. ASSUME NEW i \in DOMAIN pushed' PROVE pushed'[i][2] <= count'[pushed'[i][1]]
    <3>1. CASE i \in DOMAIN pushed
      <4>1. /\ pushed'[i] = pushed[i] /\ pushed[i][2] <= count[pushed[i][1]]
            /\ pushed[i][1] \in Producers /\ pushed[i][2] \in Nat
        BY <1>3, <2>2, <3>1, Lengths DEF PushedInv, Items
      <4>2. \A q \in Producers : count[q] \in Nat /\ count'[q] \in Nat /\ count[q] <= count'[q]
        BY <1>1 DEF TypeOK
      <4>. QED  BY <4>1, <4>2
    <3>2. CASE i = Len(pushed) + 1
      BY <1>1, <1>3, <3>2 DEF TypeOK
    <3>. QED  BY <1>3, <3>1, <3>2, Lengths
  <2>4. ASSUME NEW i \in DOMAIN pushed', NEW j \in DOMAIN pushed', pushed'[i] = pushed'[j]
        PROVE  i = j
    <3>1. \A n \in 1 .. Len(pushed) : pushed'[n] \in ToSet(pushed)
      BY <1>3, Lengths DEF ToSet
    <3>2. CASE i \in 1 .. Len(pushed) /\ j \in 1 .. Len(pushed)
      BY <1>3, <2>4, <3>2, Lengths DEF PushedInv
    <3> HIDE DEF new
    <3>. QED  BY <1>3, <1>5, <2>4, <3>1, <3>2, Lengths
  <2>5. cutoff' <= Len(pushed')
    BY <1>1, <1>3, Lengths DEF PushedInv, closerVars, TypeOK
  <2>. QED  BY <2>1, <2>3, <2>4, <2>5 DEF PushedInv
<1>9. BacklogInv'
  <2>1. item' = item /\ rest' = rest
    BY <1>1 DEF workerVars, closerVars
  <2>2. Len(pushed) = Taken + Len(item) + Len(rest) + Len(queue)
    BY <1>6, Lengths DEF Taken
  <2>3. ASSUME NEW i \in DOMAIN item PROVE item[i] = pushed'[Taken + i]
    <3>1. Taken + i \in 1 .. Len(pushed)
      BY <1>6, <2>2, Lengths
    <3>. QED  BY <1>3, <3>1 DEF BacklogInv
  <2>4. ASSUME NEW i \in DOMAIN rest PROVE rest[i] = pushed'[Taken + Len(item) + i]
    <3>1. Taken + Len(item) + i \in 1 .. Len(pushed)
      BY <1>6, <2>2, Lengths
    <3>. QED  BY <1>3, <3>1 DEF BacklogInv
  <2>5. ASSUME NEW i \in DOMAIN queue'
        PROVE  queue'[i] = pushed'[Taken + Len(item) + Len(rest) + i]
    <3>1. CASE i \in DOMAIN queue
      <4>1. Taken + Len(item) + Len(rest) + i \in 1 .. Len(pushed)
        BY <1>6, <2>2, <3>1, Lengths
      <4>. QED  BY <1>2, <1>3, <3>1, <4>1, Lengths DEF BacklogInv
    <3>2. CASE i = Len(queue) + 1
      <4>1. Taken + Len(item) + Len(rest) + i = Len(pushed) + 1
        BY <1>6, <2>2, <3>2, Lengths
      <4>. QED  BY <1>2, <1>3, <3>2, <4>1
    <3>. QED  BY <1>2, <3>1, <3>2, Lengths
  <2>. QED  BY <1>6, <2>1, <2>3, <2>4, <2>5 DEF BacklogInv
<1>10. BulkInv'
  <2>1. bulk' = bulk /\ worker' = worker
    BY <1>1 DEF workerVars
  <2>2. Taken <= Len(pushed)
    BY <1>6, Lengths DEF Taken
  <2>3. ASSUME NEW b \in Nat, BulkAt(b)
        PROVE  b + Len(bulk) <= Taken /\ \A i \in DOMAIN bulk : bulk[i] = pushed'[b + i]
    <3>1. b + Len(bulk) <= Taken /\ \A i \in DOMAIN bulk : bulk[i] = pushed[b + i]
      BY <2>3 DEF BulkAt
    <3>2. \A i \in DOMAIN bulk : b + i \in 1 .. Len(pushed)
      BY <1>6, <2>2, <3>1, Lengths
    <3>. QED  BY <1>3, <3>1, <3>2
  <2>4. PICK b \in 0 .. Len(pushed) : BulkAt(b)
    BY DEF BulkInv
  <2>5. b \in 0 .. Len(pushed') /\ BulkAt(b)'
    <3>1. b + Len(bulk) <= Taken /\ \A i \in DOMAIN bulk : bulk[i] = pushed'[b + i]
      BY <2>3, <2>4
    <3>2. b \in 0 .. Len(pushed')
      BY <1>3, Lengths
    <3>. QED  BY <1>6, <2>1, <3>1, <3>2 DEF BulkAt
  <2>6. ASSUME worker \in Looping PROVE Taken >= Len(bulk) /\ BulkAt(Taken - Len(bulk))'
    <3>1. Taken - Len(bulk) \in Nat /\ BulkAt(Taken - Len(bulk)) /\ Taken >= Len(bulk)
      BY <1>6, <2>6, Lengths DEF BulkInv
    <3>2. /\ (Taken - Len(bulk)) + Len(bulk) <= Taken
          /\ \A i \in DOMAIN bulk : bulk[i] = pushed'[(Taken - Len(bulk)) + i]
      BY <2>3, <3>1
    <3>. QED  BY <1>6, <2>1, <3>1, <3>2 DEF BulkAt
  <2>. QED  BY <1>6, <2>1, <2>5, <2>6 DEF BulkInv
<1>11. TimesInv'
  <2>1. \A x : Times(x)' = Times(x)
    BY <1>1 DEF Times, Places
  <2>2. ToSet(written)' = ToSet(written) /\ Times(new) = 0
    BY <1>1, <1>5, NotWritten DEF TimesInv
  <2>3. throws \in Nat /\ throws' = throws /\ bulk' = bulk /\ next' = next
    BY <1>1 DEF TypeOK, workerVars
  <2>4. ASSUME NEW i \in Taken' + 1 .. Len(pushed') PROVE Times(pushed'[i]) <= throws
    <3>1. CASE i = Len(pushed) + 1
      <4>1. pushed'[i] = new
        BY <1>3, <3>1
      <4> HIDE DEF new
      <4>. QED  BY <2>2, <2>3, <4>1
    <3>2. CASE i # Len(pushed) + 1
      <4>1. i \in Taken + 1 .. Len(pushed) /\ i \in 1 .. Len(pushed)
        BY <1>3, <1>6, <2>4, <3>2, Lengths
      <4>2. Times(pushed[i]) <= throws
        BY <4>1 DEF TimesInv
      <4>. QED  BY <1>3, <4>1, <4>2
    <3>. QED  BY <3>1, <3>2
  <2>5. \A x \in ToSet(pushed)' : Times(x) <= 1 + throws
    BY <1>5, <2>2, <2>3 DEF TimesInv
  <2>. QED  BY <1>5, <2>1, <2>2, <2>3, <2>4, <2>5 DEF TimesInv
<1>12. NoSkipInv'
  <2>1. SUFFICES ASSUME worker \in Looping \/ running PROVE NoSkipInv'
    BY <1>1 DEF NoSkipInv, workerVars, closerVars
  <2>2. ToSet(written)' = ToSet(written) /\ new \notin ToSet(written)
    BY <1>1, <1>5 DEF TimesInv
  <2>3. ASSUME NEW i \in DOMAIN pushed', NEW j \in DOMAIN pushed',
               i < j, pushed'[j] \in ToSet(written)
        PROVE  pushed'[i] \in ToSet(written)
    <3>1. j # Len(pushed) + 1
      BY <1>3, <2>2, <2>3
    <3>2. i \in 1 .. Len(pushed) /\ j \in 1 .. Len(pushed)
      BY <1>3, <2>3, <3>1, Lengths
    <3>3. pushed'[i] = pushed[i] /\ pushed[j] \in ToSet(written)
      BY <1>3, <2>3, <3>2
    <3>. QED  BY <2>1, <2>3, <3>2, <3>3, Lengths DEF NoSkipInv
  <2>4. Taken - Len(bulk) + next - 1 <= Len(pushed)
    BY <2>1, Lengths DEF Taken, HandsInv, TypeOK, BulkInv
  <2>5. \A i \in 1 .. Taken' - Len(bulk') + next' - 1 : pushed'[i] \in ToSet(written)
    BY <1>1, <1>3, <1>6, <2>1, <2>4, Lengths DEF NoSkipInv, workerVars, TypeOK
  <2>. QED  BY <1>1, <2>2, <2>3, <2>5 DEF NoSkipInv, workerVars
<1>13. CalmInv'
  <2>1. SUFFICES ASSUME throws = 0 PROVE CalmInv'
    BY <1>1 DEF CalmInv
  <2>2. Len(written) <= Len(pushed)
    BY <2>1, Lengths DEF CalmInv, HandsInv, Taken, TypeOK
  <2>. QED  BY <1>1, <1>3, <1>6, <2>1, <2>2, Lengths DEF CalmInv, workerVars, closerVars
<1>. QED
  BY <1>4, <1>7, <1>8, <1>9, <1>10, <1>11, <1>12, <1>13

\* PopBulk (lockqueue.h:28-55): what it moves stays where it is in the order
\* of pushes, behind what an exception left in the bulk.
LEMMA PopsBulkKeeps ==
  ASSUME LogInv, WorkerPopsBulk
  PROVE  LogInv'
<1> USE DEF LogInv
<1> DEFINE n == Moved(Len(bulk))
<1>1. /\ worker = "wait" /\ bulk' = bulk \o Oldest(n) /\ queue' = After(n)
      /\ worker' = IF bulk' # <<>> THEN "write" ELSE "loop"
      /\ next' = 1
      /\ UNCHANGED <<producerVars, item, closerVars, written, throws>>
  BY DEF WorkerPopsBulk
<1>2. next = 1 /\ item = <<>> /\ rest = <<>>
  BY <1>1, OneConsumer DEF HandsInv
<1>3. n \in 0 .. Len(queue) /\ Len(bulk) + n <= BulkMax
  BY MovedFits, Lengths DEF TypeOK
<1> HIDE DEF n
<1>4. /\ Oldest(n) \in Seq(Items) /\ After(n) \in Seq(Items)
      /\ Len(Oldest(n)) = n /\ Len(After(n)) = Len(queue) - n
      /\ \A i \in 1 .. n : Oldest(n)[i] = queue[i]
      /\ \A i \in 1 .. Len(queue) - n : After(n)[i] = queue[n + i]
  BY <1>3, Splits
<1>5. /\ queue' \in Seq(Items) /\ Len(queue') = Len(queue) - n
      /\ \A i \in 1 .. Len(queue) - n : queue'[i] = queue[n + i]
      /\ DOMAIN queue' = 1 .. Len(queue) - n
  BY <1>1, <1>3, <1>4, Lengths
<1>6. /\ bulk' \in Seq(Items) /\ Len(bulk') = Len(bulk) + n
      /\ \A i \in 1 .. Len(bulk) : bulk'[i] = bulk[i]
      /\ \A i \in 1 .. n : bulk'[Len(bulk) + i] = queue[i]
      /\ DOMAIN bulk' = 1 .. Len(bulk) + n
  <2>1. bulk \in Seq(Items)
    BY DEF TypeOK
  <2> DEFINE old == Oldest(n)
  <2>2. old \in Seq(Items) /\ Len(old) = n /\ \A i \in 1 .. n : old[i] = queue[i]
    BY <1>4
  <2> HIDE DEF old
  <2>3. bulk' = bulk \o old
    BY <1>1 DEF old
  <2>. QED  BY <2>1, <2>2, <2>3, Behind
<1>7. Taken' = Taken + n /\ Taken \in Nat /\ Taken + Len(queue) = Len(pushed)
  BY <1>1, <1>2, <1>3, <1>5, Lengths DEF Taken, BacklogInv, producerVars, closerVars
<1>8. Len(bulk) <= Taken /\ \A i \in 1 .. Len(bulk) : bulk[i] = pushed[Taken - Len(bulk) + i]
  BY <1>1, <1>7, Lengths DEF BulkInv, BulkAt, Looping
<1>9. \A i \in 1 .. Len(queue) : queue[i] = pushed[Taken + i]
  BY <1>2, <1>7, Lengths DEF BacklogInv
<1>10. TypeOK'
  BY <1>1, <1>3, <1>5, <1>6 DEF TypeOK, producerVars, closerVars
<1>11. WinnerInv' /\ HandsInv' /\ PushedInv'
  <2>1. worker' \in {"loop", "write"} /\ (worker' = "write" <=> bulk' # <<>>)
    BY <1>1
  <2>2. WinnerInv'
    BY <1>1, <2>1 DEF WinnerInv, Looping, Joined, closerVars
  <2>3. HandsInv'
    BY <1>1, <1>2, <2>1 DEF HandsInv, closerVars
  <2>4. PushedInv'
    BY <1>1 DEF PushedInv, producerVars, closerVars
  <2>. QED  BY <2>2, <2>3, <2>4
<1>12. BacklogInv'
  <2>1. item' = <<>> /\ rest' = <<>> /\ pushed' = pushed
    BY <1>1, <1>2 DEF producerVars, closerVars
  <2>2. ASSUME NEW i \in 1 .. Len(queue) - n PROVE queue'[i] = pushed[Taken + n + i]
    <3>1. n + i \in 1 .. Len(queue) /\ Taken + (n + i) = Taken + n + i
      BY <1>3, <1>7, Lengths
    <3>. QED  BY <1>5, <1>9, <3>1
  <2>. QED  BY <1>3, <1>5, <1>7, <2>1, <2>2 DEF BacklogInv
<1>13. BulkInv'
  <2>1. ASSUME NEW i \in 1 .. Len(bulk) + n PROVE bulk'[i] = pushed[Taken - Len(bulk) + i]
    <3>1. CASE i \in 1 .. Len(bulk)
      BY <1>6, <1>8, <3>1
    <3>2. CASE i \in Len(bulk) + 1 .. Len(bulk) + n
      <4>1. PICK j \in 1 .. n : i = Len(bulk) + j /\ j \in 1 .. Len(queue)
        <5>1. i - Len(bulk) \in 1 .. n /\ i = Len(bulk) + (i - Len(bulk))
          BY <1>3, <3>2, Lengths
        <5>. QED  BY <1>3, <5>1, Lengths
      <4>2. Taken - Len(bulk) + i = Taken + j
        BY <1>7, <4>1, Lengths
      <4>. QED  BY <1>6, <1>9, <4>1, <4>2
    <3>. QED  BY <1>3, <3>1, <3>2, Lengths
  <2>2. Taken' - Len(bulk') = Taken - Len(bulk) /\ pushed' = pushed
    BY <1>1, <1>6, <1>3, <1>7, Lengths DEF producerVars
  <2> DEFINE b == Taken - Len(bulk)
  <2>3. b \in 0 .. Len(pushed)
    BY <1>7, <1>8, Lengths
  <2>4. b + Len(bulk') <= Taken' /\ \A i \in DOMAIN bulk' : bulk'[i] = pushed'[b + i]
    <3>1. b + Len(bulk') = Taken' /\ Taken' \in Nat
      BY <1>3, <1>6, <1>7, Lengths
    <3>. QED  BY <1>6, <2>1, <2>2, <3>1
  <2>5. Taken' >= Len(bulk')
    BY <1>3, <1>6, <1>7, <1>8, Lengths
  <2> HIDE DEF b
  <2>6. (\E c \in 0 .. Len(pushed) : BulkAt(c))'
    BY <2>2, <2>3, <2>4 DEF BulkAt
  <2>7. BulkAt(Taken - Len(bulk))'
    BY <2>2, <2>4 DEF BulkAt, b
  <2>. QED  BY <2>5, <2>6, <2>7 DEF BulkInv
<1>14. \A x : Times(x)' = Times(x)
  BY <1>1 DEF Times, Places
<1>15. TimesInv'
  <2>1. pushed' = pushed /\ ToSet(written)' = ToSet(written) /\ ToSet(pushed)' = ToSet(pushed)
        /\ throws' = throws
    BY <1>1 DEF producerVars
  <2>2. \A i \in Taken' + 1 .. Len(pushed) : Times(pushed[i]) <= throws
    BY <1>3, <1>7, Lengths DEF TimesInv
  <2>3. ASSUME NEW i \in next' .. Len(bulk') PROVE Times(bulk'[i]) <= throws
    <3>1. CASE i \in 1 .. Len(bulk)
      BY <1>2, <1>6, <3>1, Lengths DEF TimesInv
    <3>2. CASE i \in Len(bulk) + 1 .. Len(bulk) + n
      <4>1. bulk'[i] = pushed[Taken + (i - Len(bulk))]
        <5>1. i - Len(bulk) \in 1 .. n /\ i - Len(bulk) \in 1 .. Len(queue)
              /\ i = Len(bulk) + (i - Len(bulk))
          BY <1>3, <3>2, Lengths
        <5>. QED  BY <1>6, <1>9, <5>1
      <4>2. Taken + (i - Len(bulk)) \in Taken + 1 .. Len(pushed)
        BY <1>3, <1>7, <3>2, Lengths
      <4>. QED  BY <4>1, <4>2 DEF TimesInv
    <3>. QED  BY <1>1, <1>3, <1>6, <3>1, <3>2, Lengths
  <2>. QED  BY <1>14, <2>1, <2>2, <2>3 DEF TimesInv
<1>16. NoSkipInv'
  <2>1. Taken' - Len(bulk') + next' - 1 = Taken - Len(bulk) + next - 1
    BY <1>1, <1>2, <1>3, <1>6, <1>7, Lengths
  <2>. QED  BY <1>1, <2>1 DEF NoSkipInv, Looping, producerVars
<1>17. CalmInv'
  <2>1. SUFFICES ASSUME throws = 0 PROVE CalmInv'
    BY <1>1 DEF CalmInv
  <2>2. bulk = <<>> /\ Len(written) = Taken - (Len(bulk) - next + 1)
    BY <1>1, <2>1 DEF CalmInv
  <2>3. Len(written') = Taken' - (Len(bulk') - next' + 1)
    BY <1>1, <1>2, <1>3, <1>6, <1>7, <2>2, Lengths
  <2>4. worker' # "write" => bulk' = <<>>
    BY <1>1
  <2>. QED  BY <1>1, <2>1, <2>3, <2>4 DEF CalmInv, producerVars, closerVars
<1>. QED
  BY <1>10, <1>11, <1>12, <1>13, <1>15, <1>16, <1>17

\* The callback writes an item of the bulk, the last one clears it
\* (logger.cc:112-117).
LEMMA WorkerWritesKeeps ==
  ASSUME LogInv, WorkerWrites
  PROVE  LogInv'
<1> USE DEF LogInv
<1> DEFINE e == bulk[next]
           q == Taken - Len(bulk) + next
<1>1. /\ worker = "write" /\ written' = Append(written, e)
      /\ UNCHANGED <<queue, producerVars, item, closerVars, throws>>
      /\ \/ /\ next < Len(bulk) /\ next' = next + 1 /\ worker' = worker /\ bulk' = bulk
         \/ /\ next >= Len(bulk) /\ next' = 1 /\ worker' = "loop" /\ bulk' = <<>>
  BY Lengths DEF WorkerWrites, TypeOK
<1>2. next \in 1 .. Len(bulk) /\ item = <<>> /\ rest = <<>>
  <2>1. Len(bulk) > 0
    BY <1>1, Lengths, ShortSequences DEF HandsInv, TypeOK
  <2>2. next \in 1 .. Len(bulk)
    BY <2>1, Lengths DEF HandsInv, TypeOK
  <2>. QED  BY <1>1, <2>2, OneConsumer DEF HandsInv
<1>3. e \in Items
  BY <1>2, Lengths DEF TypeOK
<1>4. Taken' = Taken /\ Taken \in Nat /\ Taken <= Len(pushed)
  BY <1>1, Lengths DEF Taken, BacklogInv, producerVars, closerVars
<1>5. Len(bulk) <= Taken /\ \A i \in 1 .. Len(bulk) : bulk[i] = pushed[Taken - Len(bulk) + i]
  BY <1>1, <1>4, Lengths DEF BulkInv, BulkAt, Looping
<1>6. q \in 1 .. Taken /\ e = pushed[q] /\ q \in DOMAIN pushed
  BY <1>2, <1>4, <1>5, Lengths
<1> HIDE DEF e
<1>7. /\ written' \in Seq(Items) /\ Len(written') = Len(written) + 1
      /\ \A i \in 1 .. Len(written) : written'[i] = written[i]
      /\ written'[Len(written) + 1] = e
      /\ ToSet(written)' = ToSet(written) \union {e}
      /\ \A x : Times(x)' = IF x = e THEN Times(x) + 1 ELSE Times(x)
  BY <1>1, <1>3, WritesOne
<1>8. \A x : Times(x) \in Nat
  BY TimesAreNumbers
<1>9. \A i \in 1 .. Len(pushed) : pushed[i] = e => i = q
  BY <1>6, Lengths DEF PushedInv
<1>10. /\ bulk' \in Seq(Items) /\ Len(bulk') <= BulkMax /\ next' \in Nat \ {0}
       /\ \/ bulk' = bulk /\ next' = next + 1 /\ next + 1 <= Len(bulk)
          \/ bulk' = <<>> /\ Len(bulk') = 0 /\ next' = 1 /\ next = Len(bulk)
  <2>1. CASE next < Len(bulk)
    BY <1>1, <1>2, <2>1, Lengths DEF TypeOK
  <2>2. CASE ~(next < Len(bulk))
    <3>1. bulk' = <<>> /\ next' = 1 /\ next = Len(bulk)
      <4>1. bulk' = <<>> /\ next' = 1
        BY <1>1, <2>2
      <4>2. next \in Int /\ Len(bulk) \in Int /\ next <= Len(bulk)
        BY <1>2, Lengths
      <4>3. next = Len(bulk)
        BY <2>2, <4>2
      <4>. QED  BY <4>1, <4>3
    <3>2. <<>> \in Seq(Items) /\ Len(<<>>) = 0 /\ 0 <= BulkMax
      BY LogAssumption
    <3>. QED  BY <3>1, <3>2
  <2>. QED  BY <2>1, <2>2
<1>11. TypeOK'
  BY <1>1, <1>7, <1>10 DEF TypeOK, producerVars, closerVars
<1>12. WinnerInv' /\ HandsInv' /\ PushedInv'
  <2>1. WinnerInv'
    BY <1>1 DEF WinnerInv, Looping, Joined, closerVars
  <2>2. HandsInv'
    BY <1>1, <1>2, <1>10, OneConsumer DEF HandsInv, closerVars
  <2>3. PushedInv'
    BY <1>1 DEF PushedInv, producerVars, closerVars
  <2>. QED  BY <2>1, <2>2, <2>3
<1>13. BacklogInv'
  BY <1>1, <1>4 DEF BacklogInv, producerVars, closerVars
<1>14. BulkInv'
  <2>1. CASE bulk' = bulk
    BY <1>1, <1>4, <2>1 DEF BulkInv, BulkAt, Looping, producerVars
  <2>2. CASE bulk' = <<>> /\ Len(bulk') = 0
    <3>1. \A b \in Nat : b <= Taken => BulkAt(b)'
      BY <1>4, <2>2 DEF BulkAt
    <3>2. (\E b \in 0 .. Len(pushed) : BulkAt(b))'
      BY <1>1, <1>4, <3>1, Lengths DEF producerVars
    <3>3. Taken' >= Len(bulk') /\ BulkAt(Taken - Len(bulk))'
      BY <1>4, <2>2 DEF BulkAt
    <3>. QED  BY <3>2, <3>3 DEF BulkInv
  <2>. QED  BY <1>10, <2>1, <2>2
<1>15. TimesInv'
  <2>1. pushed' = pushed /\ ToSet(pushed)' = ToSet(pushed) /\ throws' = throws /\ throws \in Nat
    BY <1>1 DEF producerVars, TypeOK
  <2>2. e \in ToSet(pushed)
    BY <1>6 DEF ToSet
  <2>3. ToSet(written)' \subseteq ToSet(pushed)'
    BY <1>7, <2>1, <2>2 DEF TimesInv
  <2>4. Times(e) <= throws
    BY <1>2, Lengths DEF TimesInv, e
  <2>5. \A x \in ToSet(pushed) : Times(x)' <= 1 + throws
    BY <1>7, <1>8, <2>1, <2>4 DEF TimesInv
  <2>6. \A i \in Taken + 1 .. Len(pushed) : Times(pushed[i])' <= throws
    <3>1. ASSUME NEW i \in Taken + 1 .. Len(pushed) PROVE pushed[i] # e
      BY <1>4, <1>6, <1>9, <3>1, Lengths
    <3>. QED  BY <1>7, <2>1, <3>1 DEF TimesInv
  <2>7. ASSUME NEW i \in next' .. Len(bulk') PROVE Times(bulk[i])' <= throws
    <3>1. i \in next + 1 .. Len(bulk) /\ bulk' = bulk
      BY <1>10, <2>7
    <3>2. /\ i \in 1 .. Len(bulk) /\ bulk[i] = pushed[Taken - Len(bulk) + i]
          /\ Taken - Len(bulk) + i \in 1 .. Len(pushed) /\ Taken - Len(bulk) + i # q
      <4>1. i \in Nat /\ next \in Nat /\ next < i /\ i \in 1 .. Len(bulk)
        BY <1>2, <3>1, Lengths
      <4>2. Taken - Len(bulk) + i \in 1 .. Len(pushed) /\ Taken - Len(bulk) + i # q
        BY <1>4, <1>5, <4>1, Lengths
      <4>. QED  BY <1>5, <4>1, <4>2
    <3>3. bulk[i] # e
      BY <1>9, <3>2
    <3>4. i \in next .. Len(bulk)
      BY <1>2, <3>1, Lengths
    <3>5. bulk'[i] = bulk[i] /\ Times(bulk[i]) <= throws
      BY <3>1, <3>4 DEF TimesInv
    <3>6. \A x : x # e => Times(x)' = Times(x)
      BY <1>7
    <3>. QED  BY <3>3, <3>5, <3>6
  <2>8. (\A i \in next .. Len(bulk) : Times(bulk[i]) <= throws)'
    BY <2>1, <2>7
  <2>. QED  BY <1>4, <2>1, <2>3, <2>5, <2>6, <2>8 DEF TimesInv
<1>16. NoSkipInv'
  <2>1. Taken - Len(bulk) + next - 1 = q - 1 /\ Taken' - Len(bulk') + next' - 1 = q
    <3>1. CASE bulk' = bulk /\ next' = next + 1
      BY <1>2, <1>4, <3>1, Lengths
    <3>2. CASE Len(bulk') = 0 /\ next' = 1 /\ next = Len(bulk)
      BY <1>2, <1>4, <3>2, Lengths
    <3>. QED  BY <1>10, <3>1, <3>2
  <2>2. \A i \in 1 .. q - 1 : pushed[i] \in ToSet(written)
    BY <1>1, <2>1 DEF NoSkipInv, Looping
  <2>3. \A i \in 1 .. q : pushed[i] \in ToSet(written)'
    BY <1>2, <1>6, <1>7, <2>2, Lengths
  <2>4. ASSUME NEW i \in DOMAIN pushed, NEW j \in DOMAIN pushed,
               i < j, pushed[j] \in ToSet(written)'
        PROVE  pushed[i] \in ToSet(written)'
    <3>1. CASE pushed[j] \in ToSet(written)
      BY <1>1, <1>7, <2>4, <3>1 DEF NoSkipInv, Looping
    <3>2. CASE pushed[j] = e
      <4>1. j = q /\ i \in 1 .. q
        BY <1>9, <2>4, <3>2, Lengths
      <4>. QED  BY <2>3, <4>1
    <3>. QED  BY <1>7, <2>4, <3>1, <3>2
  <2>. QED  BY <1>1, <2>1, <2>3, <2>4 DEF NoSkipInv, producerVars
<1>17. CalmInv'
  <2>1. SUFFICES ASSUME throws = 0 PROVE CalmInv'
    BY <1>1 DEF CalmInv
  <2>2. Len(written) + 1 = q /\ \A i \in 1 .. Len(written) : written[i] = pushed[i]
    BY <1>2, <1>4, <2>1, Lengths DEF CalmInv
  <2>3. Len(written') = Taken' - (Len(bulk') - next' + 1)
    <3>1. CASE bulk' = bulk /\ next' = next + 1
      BY <1>2, <1>4, <1>7, <2>2, <3>1, Lengths
    <3>2. CASE Len(bulk') = 0 /\ next' = 1 /\ next = Len(bulk)
      BY <1>2, <1>4, <1>7, <2>2, <3>2, Lengths
    <3>. QED  BY <1>10, <3>1, <3>2
  <2>4. \A i \in 1 .. Len(written) + 1 : written'[i] = pushed[i]
    BY <1>6, <1>7, <2>2, Lengths
  <2>5. DOMAIN written' = 1 .. Len(written) + 1
    BY <1>7, Lengths
  <2>6. \A k \in Closers : closer[k] # "done"
    BY <1>1 DEF WinnerInv, Joined
  <2>. QED  BY <1>1, <2>3, <2>4, <2>5, <2>6 DEF CalmInv, producerVars, closerVars
<1>. QED
  BY <1>11, <1>12, <1>13, <1>14, <1>15, <1>16, <1>17

\* A call of the callback for the oldest item that the bulk does not hold,
\* once the log thread is out of its loop.
LEMMA WritesOldest ==
  ASSUME LogInv,
         Taken + 1 <= Len(pushed),
         written' = Append(written, pushed[Taken + 1]),
         Taken' = Taken + 1,
         worker \notin Looping \union {"terminated"},
         worker' \notin Looping \union {"terminated"},
         UNCHANGED <<running, pushed, bulk, next, throws, cutoff>>,
         \A k \in Closers : closer'[k] = "done" => closer[k] = "done"
  PROVE  /\ written' \in Seq(Items)
         /\ BulkInv' /\ TimesInv' /\ NoSkipInv' /\ CalmInv'
<1> USE DEF LogInv
<1> DEFINE e == pushed[Taken + 1]
<1>1. /\ Taken \in Nat /\ Taken + 1 \in DOMAIN pushed /\ e \in Items
      /\ throws \in Nat /\ next = 1
  BY Lengths DEF Taken, BacklogInv, TypeOK, HandsInv, Looping
<1>2. \A i \in 1 .. Len(pushed) : pushed[i] = e => i = Taken + 1
  BY <1>1, Lengths DEF PushedInv
<1>3. e \in ToSet(pushed)
  BY <1>1 DEF ToSet
<1>4. Times(e) <= throws
  BY <1>1, Lengths DEF TimesInv
<1> HIDE DEF e
<1>5. written' = Append(written, e)
  BY DEF e
<1>6. /\ written' \in Seq(Items) /\ Len(written') = Len(written) + 1
      /\ \A i \in 1 .. Len(written) : written'[i] = written[i]
      /\ written'[Len(written) + 1] = e
      /\ ToSet(written)' = ToSet(written) \union {e}
      /\ \A x : Times(x)' = IF x = e THEN Times(x) + 1 ELSE Times(x)
  BY <1>1, <1>5, WritesOne
<1>7. \A x : Times(x) \in Nat
  BY TimesAreNumbers
<1>8. PICK b \in 0 .. Len(pushed) : BulkAt(b)
  BY DEF BulkInv
<1>9. BulkInv'
  <2>1. b + Len(bulk) <= Taken /\ \A i \in DOMAIN bulk : bulk[i] = pushed[b + i]
    BY <1>8 DEF BulkAt
  <2>2. b + Len(bulk) <= Taken'
    BY <1>1, <2>1, Lengths
  <2>3. BulkAt(b)'
    BY <2>1, <2>2 DEF BulkAt
  <2>4. worker' \notin Looping /\ b \in 0 .. Len(pushed')
    OBVIOUS
  <2>. QED  BY <2>3, <2>4 DEF BulkInv
<1>10. TimesInv'
  <2>1. ToSet(pushed)' = ToSet(pushed) /\ ToSet(written)' \subseteq ToSet(pushed)
    BY <1>3, <1>6 DEF TimesInv
  <2>2. ASSUME NEW x \in ToSet(pushed) PROVE Times(x)' <= 1 + throws
    <3>1. Times(x) \in Nat /\ Times(x) <= 1 + throws /\ throws \in Nat
      BY <1>1, <1>7 DEF TimesInv
    <3>2. CASE x = e
      <4>1. Times(x)' = Times(x) + 1 /\ Times(x) <= throws
        BY <1>4, <1>6, <3>2
      <4>. QED  BY <3>1, <4>1
    <3>3. CASE x # e
      BY <1>6, <3>1, <3>3
    <3>. QED  BY <3>2, <3>3
  <2>3. ASSUME NEW i \in Taken' + 1 .. Len(pushed) PROVE Times(pushed[i])' <= throws
    <3>1. i \in Taken + 1 .. Len(pushed) /\ i \in 1 .. Len(pushed) /\ i # Taken + 1
      BY <1>1, <2>3, Lengths
    <3>2. pushed[i] # e /\ Times(pushed[i]) <= throws
      BY <1>2, <3>1 DEF TimesInv
    <3>. QED  BY <1>6, <3>2
  <2>4. ASSUME NEW i \in next .. Len(bulk) PROVE Times(bulk[i])' <= throws
    <3>1. i \in 1 .. Len(bulk)
      BY <1>1, <2>4
    <3>2. bulk[i] = pushed[b + i] /\ b + Len(bulk) <= Taken
      BY <1>8, <3>1, Lengths DEF BulkAt
    <3>3. b + i \in 1 .. Len(pushed) /\ b + i # Taken + 1
      BY <1>1, <1>8, <3>1, <3>2, Lengths
    <3>4. bulk[i] # e /\ Times(bulk[i]) <= throws
      BY <1>2, <3>2, <3>3 DEF TimesInv
    <3>. QED  BY <1>6, <3>4
  <2>. QED  BY <2>1, <2>2, <2>3, <2>4 DEF TimesInv
<1>11. NoSkipInv'
  BY DEF NoSkipInv, WinnerInv
<1>12. CalmInv'
  <2>1. SUFFICES ASSUME throws = 0 PROVE CalmInv'
    BY DEF CalmInv
  <2>2. worker # "write" /\ worker' # "write"
    BY DEF Looping
  <2>3. bulk = <<>> /\ Len(bulk) = 0 /\ Len(written) = Taken
    BY <1>1, <2>1, <2>2 DEF CalmInv
  <2>4. Len(written') = Taken' - (Len(bulk') - next' + 1)
    BY <1>1, <1>6, <2>3
  <2>5. ASSUME NEW i \in DOMAIN written' PROVE written'[i] = pushed[i]
    <3>1. i \in 1 .. Len(written) + 1
      BY <1>6, <2>3, <1>1
    <3>2. CASE i \in 1 .. Len(written)
      BY <1>6, <2>1, <3>2, Lengths DEF CalmInv
    <3>3. CASE i = Len(written) + 1
      BY <1>6, <2>3, <3>3 DEF e
    <3>. QED  BY <1>1, <2>3, <3>1, <3>2, <3>3
  <2>6. \A k \in Closers : closer'[k] = "done" => Len(written') >= cutoff
    BY <1>1, <1>6, <2>1, <2>3 DEF CalmInv, TypeOK
  <2>7. worker' # "terminated"
    OBVIOUS
  <2>. QED  BY <2>2, <2>3, <2>4, <2>5, <2>6, <2>7 DEF CalmInv
<1>. QED
  BY <1>6, <1>9, <1>10, <1>11, <1>12

\* Pop takes the oldest item of the queue (lockqueue.h:57-75).
LEMMA WorkerPopsKeeps ==
  ASSUME LogInv, WorkerPops
  PROVE  LogInv'
<1> USE DEF LogInv
<1>1. /\ worker = "pop" /\ worker' = "flush" /\ queue # <<>>
      /\ item' = <<Head(queue)>> /\ queue' = Tail(queue)
      /\ UNCHANGED <<producerVars, bulk, next, closerVars, written, throws>>
  BY DEF WorkerPops, HandsInv
<1>2. item = <<>> /\ rest = <<>> /\ Len(item) = 0 /\ Len(rest) = 0
  BY <1>1, OneConsumer DEF HandsInv
<1>3. /\ queue' \in Seq(Items) /\ Len(queue') = Len(queue) - 1 /\ Len(queue) >= 1
      /\ \A i \in 1 .. Len(queue) - 1 : queue'[i] = queue[i + 1]
      /\ item' \in Seq(Items) /\ Len(item') = 1 /\ item'[1] = queue[1]
      /\ DOMAIN queue' = 1 .. Len(queue) - 1 /\ DOMAIN item' = 1 .. 1
  BY <1>1, Lengths DEF TypeOK
<1>4. Taken' = Taken /\ Taken \in Nat
  BY <1>1, <1>2, <1>3, Lengths DEF Taken, BacklogInv, producerVars, closerVars
<1>5. TypeOK'
  BY <1>1, <1>3 DEF TypeOK, producerVars, closerVars
<1>6. WinnerInv' /\ HandsInv' /\ PushedInv'
  <2>1. WinnerInv'
    BY <1>1 DEF WinnerInv, Looping, Joined, closerVars
  <2>2. HandsInv'
    BY <1>1, <1>2, <1>3 DEF HandsInv, closerVars
  <2>3. PushedInv'
    BY <1>1 DEF PushedInv, producerVars, closerVars
  <2>. QED  BY <2>1, <2>2, <2>3
<1>7. BacklogInv'
  <2>1. \A i \in 1 .. Len(queue) : queue[i] = pushed[Taken + i]
    BY <1>2, <1>4, Lengths DEF BacklogInv
  <2>2. item'[1] = pushed[Taken + 1]
    BY <1>3, <2>1, Lengths
  <2>3. ASSUME NEW i \in 1 .. Len(queue) - 1 PROVE queue'[i] = pushed[Taken + 1 + i]
    <3>1. i + 1 \in 1 .. Len(queue) /\ Taken + (i + 1) = Taken + 1 + i
      BY <1>4, Lengths
    <3>. QED  BY <1>3, <2>1, <3>1
  <2>4. pushed' = pushed /\ rest' = rest
    BY <1>1 DEF producerVars, closerVars
  <2>. QED  BY <1>2, <1>3, <1>4, <2>2, <2>3, <2>4 DEF BacklogInv
<1>8. BulkInv' /\ TimesInv'
  <2>1. \A x : Times(x)' = Times(x)
    BY <1>1 DEF Times, Places
  <2>2. BulkInv'
    BY <1>1, <1>4 DEF BulkInv, BulkAt, Looping, producerVars
  <2>. QED  BY <1>1, <1>4, <2>1, <2>2 DEF TimesInv, producerVars
<1>9. NoSkipInv' /\ CalmInv'
  BY <1>1, <1>4 DEF NoSkipInv, CalmInv, Looping, producerVars, closerVars
<1>. QED
  BY <1>5, <1>6, <1>7, <1>8, <1>9

\* The callback writes what the final loop popped (logger.cc:125-126).
LEMMA WorkerFlushesKeeps ==
  ASSUME LogInv, WorkerFlushes
  PROVE  LogInv'
<1> USE DEF LogInv
<1>1. /\ worker = "flush" /\ worker' = "drain" /\ written' = written \o item /\ item' = <<>>
      /\ UNCHANGED <<queue, producerVars, bulk, next, closerVars, throws>>
  BY DEF WorkerFlushes
<1>2. Len(item) = 1 /\ item = <<item[1]>> /\ item[1] \in Items /\ rest = <<>> /\ Len(rest) = 0
  <2>1. Len(item) = 1 /\ item \in Seq(Items)
    BY <1>1 DEF HandsInv, TypeOK
  <2>. QED  BY <1>1, <2>1, ShortSequences, OneConsumer
<1>3. /\ Taken' = Taken + 1 /\ Taken \in Nat /\ Taken + 1 + Len(queue) = Len(pushed)
      /\ item[1] = pushed[Taken + 1]
  BY <1>1, <1>2, Lengths DEF Taken, BacklogInv, producerVars, closerVars
<1>4. written' = Append(written, pushed[Taken + 1])
  <2>1. written \in Seq(Items)
    BY DEF TypeOK
  <2>2. written \o <<item[1]>> = Append(written, item[1])
    BY <1>2, <2>1
  <2>. QED  BY <1>1, <1>2, <1>3, <2>2
<1>5. /\ written' \in Seq(Items)
      /\ BulkInv' /\ TimesInv' /\ NoSkipInv' /\ CalmInv'
  <2>1. Taken + 1 <= Len(pushed)
    BY <1>3, Lengths
  <2>2. {worker, worker'} \intersect (Looping \union {"terminated"}) = {}
    BY <1>1 DEF Looping
  <2>3. UNCHANGED <<running, pushed, bulk, next, throws, cutoff>> /\ closer' = closer
    BY <1>1 DEF producerVars, closerVars
  <2>. QED  BY <1>3, <1>4, <2>1, <2>2, <2>3, WritesOldest
<1>6. TypeOK'
  BY <1>1, <1>5 DEF TypeOK, producerVars, closerVars
<1>7. WinnerInv' /\ HandsInv' /\ PushedInv'
  BY <1>1, <1>2 DEF WinnerInv, HandsInv, PushedInv, Looping, Joined, producerVars, closerVars
<1>8. BacklogInv'
  <2>1. item' = <<>> /\ Len(item') = 0 /\ rest' = rest /\ queue' = queue /\ pushed' = pushed
    BY <1>1 DEF producerVars, closerVars
  <2>2. \A i \in 1 .. Len(queue) : queue[i] = pushed[Taken + 1 + i]
    <3>1. \A i \in DOMAIN queue : queue[i] = pushed[Taken + Len(item) + Len(rest) + i]
      BY DEF BacklogInv
    <3>2. \A i \in 1 .. Len(queue) : Taken + Len(item) + Len(rest) + i = Taken + 1 + i
      BY <1>2, <1>3
    <3>. QED  BY <3>1, <3>2, Lengths
  <2>. QED  BY <1>2, <1>3, <2>1, <2>2, Lengths DEF BacklogInv
<1>. QED
  BY <1>5, <1>6, <1>7, <1>8

\* Shutdown's PopBulk, which finds the queue as the log thread left it
\* (logger.cc:183); when nothing is left everything pushed has been written.
LEMMA ShutdownPopsBulkKeeps ==
  ASSUME LogInv, NEW k \in Closers, ShutdownPopsBulk(k)
  PROVE  LogInv'
<1> USE DEF LogInv
<1> DEFINE n == IF Ready THEN Moved(0) ELSE 0
<1>1. /\ closer[k] = "drain" /\ rest' = Oldest(n) /\ queue' = After(n)
      /\ closer' = [closer EXCEPT ![k] = IF rest' # <<>> THEN "write" ELSE "done"]
      /\ UNCHANGED <<running, exit, producerVars, workerVars, cutoff, written, throws>>
  BY DEF ShutdownPopsBulk, CloserGoes
<1>2. /\ worker = "ended" /\ item = <<>> /\ rest = <<>> /\ Len(item) = 0 /\ Len(rest) = 0
      /\ next = 1
  BY <1>1, OneConsumer DEF HandsInv
<1>3. n \in 0 .. Len(queue) /\ (n = 0 => Len(queue) = 0)
  <2>1. Moved(0) \in 0 .. Len(queue) /\ (Moved(0) = 0 => queue = <<>>)
    BY MovedFits, LogAssumption
  <2>2. ~Ready => queue = <<>>
    BY DEF Ready
  <2>3. (queue = <<>> => Len(queue) = 0) /\ Len(queue) \in Nat
    BY Lengths
  <2>. QED  BY <2>1, <2>2, <2>3
<1> HIDE DEF n
<1>4. /\ rest' \in Seq(Items) /\ queue' \in Seq(Items)
      /\ Len(rest') = n /\ Len(queue') = Len(queue) - n
      /\ \A i \in 1 .. n : rest'[i] = queue[i]
      /\ \A i \in 1 .. Len(queue) - n : queue'[i] = queue[n + i]
      /\ DOMAIN rest' = 1 .. n /\ DOMAIN queue' = 1 .. Len(queue) - n
  <2>1. /\ rest' \in Seq(Items) /\ queue' \in Seq(Items)
        /\ Len(rest') = n /\ Len(queue') = Len(queue) - n
        /\ \A i \in 1 .. n : rest'[i] = queue[i]
        /\ \A i \in 1 .. Len(queue) - n : queue'[i] = queue[n + i]
    BY <1>1, <1>3, Splits
  <2>. QED  BY <2>1, LenProperties
<1>5. rest' = <<>> <=> n = 0
  BY <1>4, ShortSequences
<1>6. Taken' = Taken /\ Taken \in Nat /\ Len(pushed) = Taken + Len(queue)
  BY <1>1, <1>2, <1>3, <1>4, Lengths DEF Taken, BacklogInv, producerVars, workerVars
<1>7. closer \in [Closers -> {"idle", "won", "join", "drain", "write", "done", "skipped", "threw"}]
  BY DEF TypeOK
<1>8. TypeOK'
  <2>1. closer' \in [Closers -> {"idle", "won", "join", "drain", "write", "done", "skipped", "threw"}]
    BY <1>1, <1>7
  <2>. QED  BY <1>1, <1>4, <2>1 DEF TypeOK, producerVars, workerVars
<1>9. WinnerInv'
  BY <1>1, <1>2, <1>7 DEF WinnerInv, Winning, Joined, Looping, workerVars
<1>10. HandsInv'
  <2>1. rest' # <<>> => closer'[k] = "write"
    BY <1>1, <1>7
  <2>2. \A j \in Closers : closer'[j] = "write" => j = k /\ rest' # <<>>
    BY <1>1, <1>2, <1>7, OneConsumer
  <2>. QED  BY <1>1, <1>2, <2>1, <2>2 DEF HandsInv, workerVars
<1>11. PushedInv' /\ NoSkipInv'
  BY <1>1, <1>2, <1>6 DEF PushedInv, NoSkipInv, Looping, producerVars, workerVars
<1>12. BacklogInv'
  <2>1. item' = <<>> /\ Len(item') = 0 /\ pushed' = pushed
    BY <1>1, <1>2 DEF producerVars, workerVars
  <2>2. \A i \in 1 .. Len(queue) : queue[i] = pushed[Taken + i]
    BY <1>2, <1>6, Lengths DEF BacklogInv
  <2>3. ASSUME NEW i \in 1 .. n PROVE rest'[i] = pushed[Taken + i]
    <3>1. i \in 1 .. Len(queue)
      BY <1>3, Lengths
    <3>. QED  BY <1>4, <2>2, <3>1
  <2>4. ASSUME NEW i \in 1 .. Len(queue) - n PROVE queue'[i] = pushed[Taken + n + i]
    <3>1. n + i \in 1 .. Len(queue) /\ Taken + (n + i) = Taken + n + i
      BY <1>3, <1>6, Lengths
    <3>. QED  BY <1>4, <2>2, <3>1
  <2>5. DOMAIN item' = {} /\ Taken' >= 0
    BY <1>6, <2>1
  <2>6. Taken' + Len(item') = Taken /\ Taken' + Len(item') + Len(rest') = Taken + n
    BY <1>3, <1>4, <1>6, <2>1
  <2>. QED  BY ONLY <1>4, <2>1, <2>3, <2>4, <2>5, <2>6 DEF BacklogInv
<1>13. BulkInv' /\ TimesInv'
  <2>1. \A x : Times(x)' = Times(x)
    BY <1>1 DEF Times, Places
  <2>2. BulkInv'
    BY <1>1, <1>2, <1>6 DEF BulkInv, BulkAt, Looping, producerVars, workerVars
  <2>. QED  BY <1>1, <1>6, <2>1, <2>2 DEF TimesInv, producerVars, workerVars
<1>14. CalmInv'
  <2>1. SUFFICES ASSUME throws = 0 PROVE CalmInv'
    BY <1>1 DEF CalmInv
  <2>2. bulk = <<>> /\ Len(bulk) = 0 /\ Len(written) = Taken
    BY <1>2, <1>6, <2>1 DEF CalmInv
  <2>3. closer'[k] = "done" => Len(written) >= cutoff
    BY <1>1, <1>3, <1>5, <1>6, <1>7, <2>2, Lengths DEF PushedInv, TypeOK
  <2>4. \A j \in Closers : closer'[j] = "done" => Len(written) >= cutoff
    BY <1>1, <1>7, <2>1, <2>3 DEF CalmInv
  <2>. QED  BY <1>1, <1>6, <2>1, <2>4 DEF CalmInv, producerVars, workerVars
<1>. QED
  BY <1>8, <1>9, <1>10, <1>11, <1>12, <1>13, <1>14

\* Shutdown writes the oldest item of its bulk (logger.cc:186-188).
LEMMA ShutdownWritesKeeps ==
  ASSUME LogInv, NEW k \in Closers, ShutdownWrites(k)
  PROVE  LogInv'
<1> USE DEF LogInv
<1>1. /\ closer[k] = "write" /\ written' = Append(written, Head(rest)) /\ rest' = Tail(rest)
      /\ closer' = [closer EXCEPT ![k] = IF rest' # <<>> THEN "write" ELSE "drain"]
      /\ UNCHANGED <<running, exit, queue, producerVars, workerVars, cutoff, throws>>
  BY DEF ShutdownWrites, CloserGoes
<1>2. worker = "ended" /\ item = <<>> /\ Len(item) = 0 /\ rest # <<>>
  BY <1>1, OneConsumer DEF HandsInv
<1>3. /\ Len(rest) >= 1 /\ Head(rest) = rest[1]
      /\ rest' \in Seq(Items) /\ Len(rest') = Len(rest) - 1
      /\ \A i \in 1 .. Len(rest) - 1 : rest'[i] = rest[i + 1]
      /\ DOMAIN rest' = 1 .. Len(rest) - 1
  BY <1>1, <1>2, Lengths DEF TypeOK
<1>4. /\ Taken' = Taken + 1 /\ Taken \in Nat
      /\ Taken + Len(rest) + Len(queue) = Len(pushed)
  BY <1>1, <1>2, <1>3, Lengths DEF Taken, BacklogInv, producerVars, workerVars
<1>5. \A i \in 1 .. Len(rest) : rest[i] = pushed[Taken + i]
  BY <1>2, <1>4, Lengths DEF BacklogInv
<1>6. written' = Append(written, pushed[Taken + 1])
  BY <1>1, <1>3, <1>5, Lengths
<1>7. closer \in [Closers -> {"idle", "won", "join", "drain", "write", "done", "skipped", "threw"}]
  BY DEF TypeOK
<1>8. /\ written' \in Seq(Items)
      /\ BulkInv' /\ TimesInv' /\ NoSkipInv' /\ CalmInv'
  <2>1. Taken + 1 <= Len(pushed)
    BY <1>3, <1>4, Lengths
  <2>2. {worker, worker'} \intersect (Looping \union {"terminated"}) = {}
    BY <1>1, <1>2 DEF Looping, workerVars
  <2>3. UNCHANGED <<running, pushed, bulk, next, throws, cutoff>>
    BY <1>1 DEF producerVars, workerVars
  <2>4. \A j \in Closers : closer'[j] = "done" => closer[j] = "done"
    BY <1>1, <1>7
  <2>. QED  BY <1>4, <1>6, <2>1, <2>2, <2>3, <2>4, WritesOldest
<1>9. TypeOK'
  <2>1. closer' \in [Closers -> {"idle", "won", "join", "drain", "write", "done", "skipped", "threw"}]
    BY <1>1, <1>7
  <2>. QED  BY <1>1, <1>3, <1>8, <2>1 DEF TypeOK, producerVars, workerVars
<1>10. WinnerInv'
  BY <1>1, <1>2, <1>7 DEF WinnerInv, Winning, Joined, Looping, workerVars
<1>11. HandsInv'
  <2>1. rest' # <<>> => closer'[k] = "write"
    BY <1>1, <1>7
  <2>2. \A j \in Closers : closer[j] = "write" => j = k
    BY <1>1 DEF WinnerInv, Winning, Joined
  <2>3. \A j \in Closers : closer'[j] = "write" => rest' # <<>>
    BY <1>1, <1>7, <2>2
  <2>. QED  BY <1>1, <1>2, <2>1, <2>3 DEF HandsInv, workerVars
<1>12. PushedInv'
  BY <1>1 DEF PushedInv, producerVars
<1>13. BacklogInv'
  <2>1. item' = <<>> /\ Len(item') = 0 /\ queue' = queue /\ pushed' = pushed
    BY <1>1, <1>2 DEF producerVars, workerVars
  <2>2. ASSUME NEW i \in 1 .. Len(rest) - 1 PROVE rest'[i] = pushed[Taken + 1 + i]
    <3>1. i + 1 \in 1 .. Len(rest) /\ Taken + (i + 1) = Taken + 1 + i
      BY <1>4, Lengths
    <3>. QED  BY <1>3, <1>5, <3>1
  <2>3. \A i \in DOMAIN queue : queue[i] = pushed[Taken + Len(rest) + i]
    <3>1. Taken + Len(item) + Len(rest) = Taken + Len(rest)
      BY <1>2, <1>4, Lengths
    <3>. QED  BY <3>1 DEF BacklogInv
  <2>4. Taken' + Len(item') + Len(rest') = Taken + Len(rest) /\ Taken' + Len(item') = Taken + 1
    BY <1>3, <1>4, <2>1, Lengths
  <2>5. Taken' >= 0
    BY <1>4
  <2>6. ASSUME NEW i \in DOMAIN rest' PROVE rest'[i] = pushed'[Taken' + Len(item') + i]
    <3>1. Taken' + Len(item') + i = Taken + 1 + i
      BY <2>4
    <3>. QED  BY <1>3, <2>1, <2>2, <3>1
  <2>7. ASSUME NEW i \in DOMAIN queue'
        PROVE  queue'[i] = pushed'[Taken' + Len(item') + Len(rest') + i]
    <3>1. Taken' + Len(item') + Len(rest') + i = Taken + Len(rest) + i
      BY <2>4
    <3>. QED  BY <2>1, <2>3, <3>1
  <2>. QED  BY <2>1, <2>5, <2>6, <2>7 DEF BacklogInv
<1>. QED
  BY <1>8, <1>9, <1>10, <1>11, <1>12, <1>13

-----------------------------------------------------------------------------
(***************************************************************************)
(* What the invariant says about the file.                                 *)
(***************************************************************************)

\* Two runs of items that follow each other in the order of pushes.
LEMMA Follows ==
  ASSUME NEW a \in Seq(Items), NEW b \in Seq(Items), NEW m \in Nat,
         \A i \in 1 .. Len(a) : a[i] = pushed[m + i],
         \A i \in 1 .. Len(b) : b[i] = pushed[m + Len(a) + i]
  PROVE  /\ a \o b \in Seq(Items) /\ Len(a \o b) = Len(a) + Len(b)
         /\ \A i \in 1 .. Len(a \o b) : (a \o b)[i] = pushed[m + i]
<1>1. Len(a) \in Nat /\ Len(b) \in Nat
  OBVIOUS
<1>2. ASSUME NEW i \in 1 .. Len(a) + Len(b) PROVE (a \o b)[i] = pushed[m + i]
  <2>1. CASE i \in 1 .. Len(a)
    BY <2>1, Behind
  <2>2. CASE i \notin 1 .. Len(a)
    <3>1. PICK j \in 1 .. Len(b) : i = Len(a) + j
      <4>1. i - Len(a) \in 1 .. Len(b) /\ i = Len(a) + (i - Len(a))
        BY <1>1, <2>2
      <4>. QED  BY <4>1
    <3>2. (a \o b)[i] = b[j] /\ m + i = m + Len(a) + j
      BY <1>1, <3>1, Behind
    <3>. QED  BY <3>2
  <2>. QED  BY <2>1, <2>2
<1>. QED  BY <1>1, <1>2, Behind

\* The places an item can be in, one behind the other, hold all that was pushed.
LEMMA CalmConserves ==
  ASSUME LogInv
  PROVE  Conserved
<1> USE DEF LogInv
<1>1. SUFFICES ASSUME throws = 0 PROVE pushed = written \o InHand \o queue
  BY DEF Conserved
<1> DEFINE s == SubSeq(bulk, next, Len(bulk))
           n == Len(bulk) - next + 1
<1>2. next \in 1 .. Len(bulk) + 1 /\ n \in Nat
  <2>1. CASE worker = "write"
    BY <2>1, Lengths DEF HandsInv, TypeOK
  <2>2. CASE worker # "write"
    BY <1>1, <2>2, Lengths DEF HandsInv, CalmInv, TypeOK
  <2>. QED  BY <2>1, <2>2
<1>3. s \in Seq(Items) /\ Len(s) = n /\ \A i \in 1 .. n : s[i] = bulk[next + i - 1]
  BY <1>2, Lengths DEF TypeOK
<1>4. /\ Len(written) + n = Taken /\ \A i \in 1 .. Len(written) : written[i] = pushed[i]
      /\ Len(written) \in Nat /\ Len(item) \in Nat /\ Len(rest) \in Nat
      /\ Taken + Len(item) + Len(rest) + Len(queue) = Len(pushed) /\ Taken \in Int
  BY <1>1, <1>2, Lengths DEF CalmInv, Taken
<1>5. ASSUME NEW i \in 1 .. n PROVE s[i] = pushed[Len(written) + i]
  <2>1. CASE worker \in Looping
    <3>1. next + i - 1 \in 1 .. Len(bulk)
      BY <1>2, Lengths
    <3>2. bulk[next + i - 1] = pushed[Taken - Len(bulk) + (next + i - 1)]
      BY <2>1, <3>1, Lengths DEF BulkInv, BulkAt
    <3>3. Taken - Len(bulk) + (next + i - 1) = Len(written) + i
      <4>1. Len(bulk) \in Int /\ next \in Int /\ i \in Int
        BY <1>2, Lengths
      <4>. QED  BY <1>4, <4>1
    <3>. QED  BY <1>3, <3>2, <3>3
  <2>2. CASE worker \notin Looping
    <3>1. bulk = <<>> /\ Len(bulk) = 0 /\ next = 1
      BY <1>1, <2>2 DEF CalmInv, HandsInv, Looping
    <3>. QED  BY <3>1
  <2>. QED  BY <2>1, <2>2
<1> HIDE DEF s, n
<1>6. /\ written \in Seq(Items) /\ item \in Seq(Items) /\ rest \in Seq(Items)
      /\ queue \in Seq(Items) /\ pushed \in Seq(Items)
  BY DEF TypeOK
<1>7. Len(written) \in Nat /\ Len(item) \in Nat /\ Len(rest) \in Nat /\ n \in Nat /\ Taken \in Int
  BY <1>2, <1>4
<1>8. Len(written) + n = Taken /\ Taken + Len(item) + Len(rest) + Len(queue) = Len(pushed)
  BY <1>4
<1> DEFINE u == s \o item
           h == u \o rest
           w == written \o h
           all == w \o queue
<1>9. /\ u \in Seq(Items) /\ Len(u) = Len(s) + Len(item)
      /\ \A i \in 1 .. Len(u) : u[i] = pushed[Len(written) + i]
  <2>1. \A i \in 1 .. Len(s) : s[i] = pushed[Len(written) + i]
    BY <1>3, <1>5
  <2>2. \A i \in 1 .. Len(item) : item[i] = pushed[Len(written) + Len(s) + i]
    BY <1>3, <1>8, Lengths DEF BacklogInv
  <2>3. s \in Seq(Items) /\ item \in Seq(Items) /\ Len(written) \in Nat
    BY <1>3, <1>6, <1>7
  <2>. QED  BY ONLY <2>1, <2>2, <2>3, Follows DEF u
<1> HIDE DEF u
<1>10. Len(u) = n + Len(item)
  BY <1>3, <1>9
<1>11. /\ h \in Seq(Items) /\ Len(h) = Len(u) + Len(rest)
       /\ \A i \in 1 .. Len(h) : h[i] = pushed[Len(written) + i]
  <2>1. Len(written) + Len(u) = Taken + Len(item)
    BY <1>7, <1>8, <1>10
  <2>2. \A i \in 1 .. Len(rest) : rest[i] = pushed[Len(written) + Len(u) + i]
    BY <2>1, Lengths DEF BacklogInv
  <2>3. u \in Seq(Items) /\ rest \in Seq(Items) /\ Len(written) \in Nat
    BY <1>6, <1>7, <1>9
  <2>4. \A i \in 1 .. Len(u) : u[i] = pushed[Len(written) + i]
    BY <1>9
  <2>. QED  BY <2>2, <2>3, <2>4, Follows
<1> HIDE DEF h
<1>12. Len(h) = n + Len(item) + Len(rest)
  BY <1>10, <1>11
<1>13. /\ w \in Seq(Items) /\ Len(w) = Len(written) + Len(h)
       /\ \A i \in 1 .. Len(w) : w[i] = pushed[0 + i]
  <2>1. PICK z \in Nat : z = 0
    OBVIOUS
  <2>2. \A i \in 1 .. Len(written) : written[i] = pushed[z + i]
    BY <1>4, <2>1
  <2>3. \A i \in 1 .. Len(h) : h[i] = pushed[z + Len(written) + i]
    BY <1>7, <1>11, <2>1
  <2>4. /\ w \in Seq(Items) /\ Len(w) = Len(written) + Len(h)
        /\ \A i \in 1 .. Len(w) : w[i] = pushed[z + i]
    <3>1. written \in Seq(Items) /\ h \in Seq(Items) /\ z \in Nat
      BY <1>6, <1>11
    <3> HIDE <2>1
    <3>. QED  BY <2>2, <2>3, <3>1, Follows
  <2>. QED  BY <2>1, <2>4
<1> HIDE DEF w
<1>14. Len(w) = Taken + Len(item) + Len(rest)
  BY <1>7, <1>8, <1>12, <1>13
<1>15. /\ all \in Seq(Items) /\ Len(all) = Len(w) + Len(queue)
       /\ \A i \in 1 .. Len(all) : all[i] = pushed[0 + i]
  <2>1. \A i \in 1 .. Len(w) : w[i] = pushed[0 + i]
    BY <1>13
  <2>2. 0 + Len(w) = Taken + Len(item) + Len(rest)
    BY <1>7, <1>14
  <2>3. \A i \in 1 .. Len(queue) : queue[i] = pushed[0 + Len(w) + i]
    BY <2>2, Lengths DEF BacklogInv
  <2>4. 0 \in Nat
    OBVIOUS
  <2>5. w \in Seq(Items) /\ queue \in Seq(Items)
    BY <1>6, <1>13
  <2>. QED  BY <2>1, <2>3, <2>4, <2>5, Follows
<1> HIDE DEF all
<1>16. Len(all) = Len(pushed)
  BY <1>8, <1>14, <1>15
<1>17. \A i \in 1 .. Len(all) : all[i] = pushed[i]
  <2>1. Len(all) \in Nat
    BY <1>15
  <2>. QED  BY <1>15, <2>1
<1>18. all = pushed
  BY <1>6, <1>15, <1>16, <1>17, SeqEqual
<1>. QED  BY <1>18 DEF all, w, h, u, s, InHand

\* While no callback throws, the file is a beginning of the order of pushes.
LEMMA CalmIsPrefix ==
  ASSUME LogInv, throws = 0
  PROVE  /\ Len(written) <= Len(pushed)
         /\ \A i \in 1 .. Len(written) : written[i] = pushed[i]
         /\ IsPrefix(written, pushed)
<1> USE DEF LogInv
<1>1. Len(written) <= Len(pushed) /\ \A i \in 1 .. Len(written) : written[i] = pushed[i]
  <2>1. Len(bulk) - next + 1 >= 0
    <3>1. CASE worker = "write"
      BY <3>1, Lengths DEF HandsInv, TypeOK
    <3>2. CASE worker # "write"
      BY <3>2, Lengths DEF HandsInv, CalmInv, TypeOK
    <3>. QED  BY <3>1, <3>2
  <2>2. Taken <= Len(pushed) /\ Taken \in Int
    BY Lengths DEF Taken
  <2>. QED  BY <2>1, <2>2, Lengths DEF CalmInv, TypeOK
<1>2. SubSeq(written, 1, Len(written)) = SubSeq(pushed, 1, Len(written))
  <2>1. /\ SubSeq(written, 1, Len(written)) \in Seq(Items)
        /\ Len(SubSeq(written, 1, Len(written))) = Len(written)
        /\ \A i \in 1 .. Len(written) : SubSeq(written, 1, Len(written))[i] = written[i]
    BY Lengths DEF TypeOK
  <2>2. /\ SubSeq(pushed, 1, Len(written)) \in Seq(Items)
        /\ Len(SubSeq(pushed, 1, Len(written))) = Len(written)
        /\ \A i \in 1 .. Len(written) : SubSeq(pushed, 1, Len(written))[i] = pushed[i]
    BY <1>1, Lengths DEF TypeOK
  <2>. QED  BY <1>1, <2>1, <2>2, SeqEqual
<1>. QED  BY <1>1, <1>2 DEF IsPrefix

\* A message overtaken while no exception was raised, or while the logger ran,
\* would be a gap in the file.
LEMMA NoGaps ==
  ASSUME LogInv
  PROVE  SkippedOnlyAtExit
<1> USE DEF LogInv
<1>1. SUFFICES ASSUME NEW i \in DOMAIN pushed, NEW j \in DOMAIN pushed, i < j,
                      pushed[j] \in ToSet(written), pushed[i] \notin ToSet(written)
               PROVE  throws > 0 /\ ~running
  BY DEF SkippedOnlyAtExit
<1>2. ~running
  BY <1>1 DEF WinnerInv, NoSkipInv
<1>3. throws # 0
  <2>1. SUFFICES ASSUME throws = 0 PROVE FALSE
    OBVIOUS
  <2>2. PICK m \in DOMAIN written : written[m] = pushed[j]
    BY <1>1 DEF ToSet
  <2>3. m \in DOMAIN pushed /\ pushed[m] = pushed[j] /\ m \in 1 .. Len(written)
    BY <2>1, <2>2, CalmIsPrefix, Lengths
  <2>4. m = j
    BY <2>3 DEF PushedInv
  <2>5. i \in 1 .. Len(written)
    BY <1>1, <2>3, <2>4, Lengths
  <2>6. written[i] = pushed[i] /\ i \in DOMAIN written
    BY <2>1, <2>5, CalmIsPrefix, Lengths
  <2>. QED  BY <1>1, <2>6 DEF ToSet
<1>. QED  BY <1>2, <1>3 DEF TypeOK

-----------------------------------------------------------------------------
(***************************************************************************)
(* The theorems.                                                           *)
(***************************************************************************)

LEMMA InitInv ==
  ASSUME Init
  PROVE  LogInv
<1> USE DEF Init
<1>1. /\ queue \in Seq(Items) /\ Len(queue) = 0 /\ DOMAIN queue = {}
      /\ bulk \in Seq(Items) /\ Len(bulk) = 0 /\ DOMAIN bulk = {}
      /\ item \in Seq(Items) /\ Len(item) = 0 /\ DOMAIN item = {}
      /\ rest \in Seq(Items) /\ Len(rest) = 0 /\ DOMAIN rest = {}
      /\ pushed \in Seq(Items) /\ Len(pushed) = 0 /\ DOMAIN pushed = {}
      /\ written \in Seq(Items) /\ Len(written) = 0 /\ DOMAIN written = {}
  OBVIOUS
<1>2. TypeOK
  <2>1. count \in [Producers -> 0 .. MaxLogs] /\ throws \in 0 .. MaxThrows /\ Len(bulk) <= BulkMax
    BY <1>1, LogAssumption
  <2>2. closer \in [Closers -> {"idle", "won", "join", "drain", "write", "done", "skipped", "threw"}]
    OBVIOUS
  <2>3. /\ worker \in {"loop", "wait", "write", "drain", "pop", "flush", "ended", "terminated"}
        /\ next \in Nat \ {0} /\ cutoff \in Nat /\ admitted \subseteq Producers
    OBVIOUS
  <2>4. running \in BOOLEAN /\ exit \in BOOLEAN
    BY Zenon
  <2>. QED  BY <1>1, <2>1, <2>2, <2>3, <2>4 DEF TypeOK
<1>3. Taken = 0
  <2> HIDE DEF Init
  <2>. QED  BY <1>1 DEF Taken
<1>4. WinnerInv /\ HandsInv
  BY <1>1 DEF WinnerInv, HandsInv, Looping, Joined, Winning
<1>5. PushedInv
  BY <1>1 DEF PushedInv
<1>6. BacklogInv
  BY <1>1, <1>3 DEF BacklogInv
<1>7. BulkInv
  <2>1. BulkAt(0) /\ 0 \in 0 .. Len(pushed)
    BY <1>1, <1>3 DEF BulkAt
  <2>. QED  BY <1>1, <1>3, <2>1 DEF BulkInv
<1>8. ToSet(written) = {} /\ ToSet(pushed) = {}
  BY <1>1 DEF ToSet
<1>9. TimesInv
  BY <1>1, <1>3, <1>8 DEF TimesInv
<1>10. NoSkipInv
  BY <1>1, <1>3 DEF NoSkipInv
<1>11. CalmInv
  <2>1. /\ bulk = <<>> /\ next = 1 /\ worker # "terminated"
        /\ \A k \in Closers : closer[k] # "done"
    OBVIOUS
  <2> HIDE DEF Init
  <2>. QED  BY <1>1, <1>3, <2>1 DEF CalmInv
<1>. QED  BY <1>2, <1>4, <1>5, <1>6, <1>7, <1>9, <1>10, <1>11 DEF LogInv

LEMMA StutterKeeps ==
  ASSUME LogInv, UNCHANGED vars
  PROVE  LogInv'
<1> USE DEF vars, LogInv
<1>1. Taken' = Taken /\ \A x : Times(x)' = Times(x)
  BY DEF Taken, Times, Places
<1>2. TypeOK' /\ WinnerInv' /\ HandsInv' /\ PushedInv'
  BY DEF TypeOK, WinnerInv, HandsInv, PushedInv
<1>3. BacklogInv' /\ BulkInv' /\ TimesInv'
  BY <1>1 DEF BacklogInv, BulkInv, BulkAt, TimesInv
<1>4. NoSkipInv' /\ CalmInv'
  BY <1>1 DEF NoSkipInv, CalmInv
<1>. QED  BY <1>2, <1>3, <1>4

LEMMA NextKeeps ==
  ASSUME LogInv, [Next]_vars
  PROVE  LogInv'
<1>1. CASE UNCHANGED vars
  BY <1>1, StutterKeeps
<1>2. ASSUME NEW p \in Producers, ProducerStep(p) PROVE LogInv'
  BY <1>2, LogEntersKeeps, PushKeeps DEF ProducerStep
<1>3. CASE WorkerStep
  BY <1>3, WorkerStaysKeeps, PopsBulkKeeps, WorkerWritesKeeps, WorkerPopsKeeps,
     WorkerFlushesKeeps DEF WorkerStep
<1>4. ASSUME NEW k \in Closers, ShutdownBegins(k) \/ CloserStep(k) PROVE LogInv'
  BY <1>4, ShutdownStaysKeeps, ShutdownPopsBulkKeeps, ShutdownWritesKeeps DEF CloserStep
<1>. QED  BY <1>1, <1>2, <1>3, <1>4 DEF Next

\* The inductive invariant: one thread at a time takes from the queue, and the
\* items on their way are the youngest ones, in order (logger.cc:93-196).
THEOREM LogInvariance == Spec => []LogInv
<1>1. Init => LogInv
  BY InitInv
<1>2. LogInv /\ [Next]_vars => LogInv'
  BY NextKeeps
<1>. QED  BY <1>1, <1>2, PTL DEF Spec

\* Every variable keeps its type; a bulk never holds more than PopBulk's
\* max_size (lockqueue.h:41-44), whatever an exception left in it.
THEOREM TypeCorrect == Spec => []TypeOK
BY LogInvariance, PTL DEF LogInv

\* The exception of Pop on an empty queue is never thrown (lockqueue.h:64-66):
\* between Empty and Pop nobody else takes the item (logger.cc:124-125).
THEOREM NeverPopsEmpty == Spec => []PopFindsItem
<1>1. LogInv => PopFindsItem
  BY DEF LogInv, HandsInv, PopFindsItem
<1>. QED  BY <1>1, LogInvariance, PTL


\* While no callback throws every message is in exactly one place and in its
\* turn, whatever the interleaving of producers, log thread and Shutdown.
THEOREM NothingLost == Spec => []Conserved
BY CalmConserves, LogInvariance, PTL

\* When Shutdown returns to the thread that won it, everything pushed before
\* it began is in the file, in order, if no callback threw (logger.cc:165-194).
THEOREM ShutdownFlushes == Spec => []FlushedOnShutdown
<1>1. LogInv => FlushedOnShutdown
  BY CalmIsPrefix DEF LogInv, CalmInv, FlushedOnShutdown
<1>. QED  BY <1>1, LogInvariance, PTL

\* An exception repeats the bulk it interrupts and nothing else: no message is
\* written more often than once and once again for each exception, in whichever
\* bulk, and however many rounds it is repeated in (logger.cc:108-122).
THEOREM RepeatsNeedThrows == Spec => []DuplicatesNeedThrows
<1>1. LogInv => DuplicatesNeedThrows
  BY DEF LogInv, TimesInv, Times, Places, DuplicatesNeedThrows
<1>. QED  BY <1>1, LogInvariance, PTL

\* A message is passed over only at shutdown, and only after an exception left
\* it in the bulk: while the logger runs the next rounds write it before any
\* younger one (logger.cc:110-122).
THEOREM SkippedAtExit == Spec => []SkippedOnlyAtExit
BY NoGaps, LogInvariance, PTL

=============================================================================
