---------------------------- MODULE LogPipeline ----------------------------
(***************************************************************************)
(* The asynchronous logger: threads that log (Logger::Log), the log thread *)
(* (Logger::WriteLogTask), threads that shut the logger down               *)
(* (Logger::Shutdown, also called by ~Logger), and the LockQueue between   *)
(* them.  Each LockQueue operation runs under its mutex and is one step;   *)
(* between two of them, and between the test of m_running and the push in  *)
(* Log, any other thread may run.                                          *)
(*                                                                         *)
(* The output callback is one step that writes its item or throws.  Level  *)
(* filtering is left out: a message below the level leaves no trace.       *)
(***************************************************************************)
EXTENDS Integers, SequencesExt

CONSTANTS
  Producers,  \* threads that log
  Closers,    \* threads that call Shutdown
  BulkMax,    \* the most items a bulk holds (100 in the code)
  MaxLogs,    \* bound: messages each producer logs
  MaxThrows   \* bound: exceptions the output callback raises in all

ASSUME LogAssumption ==
  /\ BulkMax \in Nat \ {0}
  /\ MaxLogs \in Nat
  /\ MaxThrows \in Nat

VARIABLES
  running,   \* m_running
  exit,      \* the queue's m_exit
  queue,     \* the queue's items
  admitted,  \* producers past the tests in Log, about to push
  count,     \* messages each producer has pushed
  worker,    \* where WriteLogTask is
  bulk,      \* its bulk
  next,      \* index in bulk of the item to write next
  item,      \* what Pop returned in its final loop: one item or none
  closer,    \* where each Shutdown is
  rest,      \* the unwritten part of Shutdown's own bulk
  pushed,    \* every item pushed, in order (history)
  written,   \* every item written, in order (history)
  cutoff,    \* length of pushed when m_running became false (history)
  throws     \* exceptions raised so far

vars == <<running, exit, queue, admitted, count, worker, bulk, next, item,
          closer, rest, pushed, written, cutoff, throws>>
producerVars == <<admitted, count, pushed>>
workerVars   == <<worker, bulk, next, item>>
closerVars   == <<running, exit, closer, rest, cutoff>>

Items == Producers \X (1 .. MaxLogs)

TypeOK ==
  /\ running \in BOOLEAN /\ exit \in BOOLEAN
  /\ queue \in Seq(Items)
  /\ admitted \subseteq Producers
  /\ count \in [Producers -> 0 .. MaxLogs]
  /\ worker \in {"loop", "wait", "write", "drain", "pop", "flush", "ended", "terminated"}
  /\ bulk \in Seq(Items) /\ Len(bulk) <= BulkMax
  /\ next \in Nat \ {0}
  /\ item \in Seq(Items)
  /\ closer \in [Closers -> {"idle", "won", "join", "drain", "write", "done", "skipped", "threw"}]
  /\ rest \in Seq(Items)
  /\ pushed \in Seq(Items) /\ written \in Seq(Items)
  /\ cutoff \in Nat
  /\ throws \in 0 .. MaxThrows

Init ==
  /\ running = TRUE /\ exit = FALSE
  /\ queue = <<>>
  /\ admitted = {}
  /\ count = [p \in Producers |-> 0]
  /\ worker = "loop" /\ bulk = <<>> /\ next = 1 /\ item = <<>>
  /\ closer = [k \in Closers |-> "idle"] /\ rest = <<>>
  /\ pushed = <<>> /\ written = <<>>
  /\ cutoff = 0
  /\ throws = 0

-----------------------------------------------------------------------------
(***************************************************************************)
(* LockQueue.                                                              *)
(***************************************************************************)
\* the predicate PopBulk and Pop wait for
Ready == queue # <<>> \/ exit

\* Mutant: the size of the output is not looked at.
MovedAll(n) == Len(queue)

\* How many items PopBulk moves to an output that already holds n.
Moved(n) ==
  IF n + Len(queue) <= BulkMax THEN Len(queue)
  ELSE IF n < BulkMax THEN BulkMax - n ELSE 0

Oldest(n) == SubSeq(queue, 1, n)

\* Mutant: one item too many is popped.
AfterNext(n) == SubSeq(queue, n + 2, Len(queue))

After(n) == SubSeq(queue, n + 1, Len(queue))

-----------------------------------------------------------------------------
(***************************************************************************)
(* Logger::Log.                                                            *)
(***************************************************************************)

\* Log finds m_running true; otherwise it returns and changes nothing.
LogEnters(p) ==
  /\ p \notin admitted /\ count[p] < MaxLogs
  /\ running
  /\ admitted' = admitted \union {p}
  /\ UNCHANGED <<queue, count, pushed, workerVars, closerVars, written, throws>>

\* LockQueue::Push.
Push(p) ==
  /\ p \in admitted
  /\ LET new == <<p, count[p] + 1>> IN
       /\ queue' = Append(queue, new)
       /\ pushed' = Append(pushed, new)
  /\ count' = [count EXCEPT ![p] = @ + 1]
  /\ admitted' = admitted \ {p}
  /\ UNCHANGED <<workerVars, closerVars, written, throws>>

-----------------------------------------------------------------------------
(***************************************************************************)
(* Logger::WriteLogTask.                                                   *)
(***************************************************************************)
WorkerTests ==
  /\ worker = "loop"
  /\ worker' = IF running THEN "wait" ELSE "drain"
  /\ UNCHANGED <<queue, producerVars, bulk, next, item, closerVars, written, throws>>

\* PopBulk(bulk, 100, 100).  What an exception left in the bulk stays in it.
WorkerPopsBulk ==
  /\ worker = "wait"
  /\ Ready
  /\ LET n == Moved(Len(bulk)) IN
       /\ bulk' = bulk \o Oldest(n)
       /\ queue' = After(n)
  /\ worker' = IF bulk' # <<>> THEN "write" ELSE "loop"
  /\ next' = 1
  /\ UNCHANGED <<producerVars, item, closerVars, written, throws>>

WorkerTimesOut ==
  /\ worker = "wait"
  /\ ~Ready
  /\ worker' = "loop"
  /\ UNCHANGED <<queue, producerVars, bulk, next, item, closerVars, written, throws>>

\* Mutant: bulk.clear() is forgotten.
WorkerWritesUncleared ==
  /\ worker = "write"
  /\ written' = Append(written, bulk[next])
  /\ IF next < Len(bulk)
     THEN next' = next + 1 /\ UNCHANGED worker
     ELSE next' = 1 /\ worker' = "loop"
  /\ UNCHANGED <<queue, producerVars, bulk, item, closerVars, throws>>

\* The callback writes an item; after the last one the bulk is cleared.
WorkerWrites ==
  /\ worker = "write"
  /\ written' = Append(written, bulk[next])
  /\ IF next < Len(bulk)
     THEN next' = next + 1 /\ UNCHANGED <<worker, bulk>>
     ELSE next' = 1 /\ bulk' = <<>> /\ worker' = "loop"
  /\ UNCHANGED <<queue, producerVars, item, closerVars, throws>>

\* Mutant: the handler clears the bulk.
WorkerCatchesAndClears ==
  /\ worker = "write"
  /\ throws < MaxThrows
  /\ throws' = throws + 1
  /\ worker' = "loop"
  /\ next' = 1 /\ bulk' = <<>>
  /\ UNCHANGED <<queue, producerVars, item, closerVars, written>>

\* The callback throws a std::exception: the handler around the loop body
\* catches it, the bulk is not cleared, and the next round starts again at its
\* first item.
WorkerCatches ==
  /\ worker = "write"
  /\ throws < MaxThrows
  /\ throws' = throws + 1
  /\ worker' = "loop"
  /\ next' = 1
  /\ UNCHANGED <<queue, producerVars, bulk, item, closerVars, written>>

\* Mutant: the final loop pops without looking.
WorkerTestsNothing ==
  /\ worker = "drain"
  /\ worker' = "pop"
  /\ UNCHANGED <<queue, producerVars, bulk, next, item, closerVars, written, throws>>

\* The final loop's test, Empty().
WorkerTestsEmpty ==
  /\ worker = "drain"
  /\ worker' = IF queue = <<>> THEN "ended" ELSE "pop"
  /\ UNCHANGED <<queue, producerVars, bulk, next, item, closerVars, written, throws>>

\* Pop() waits with no time-out, and throws when the queue is empty on exit.
WorkerPops ==
  /\ worker = "pop"
  /\ Ready
  /\ IF queue = <<>>
     THEN worker' = "terminated" /\ UNCHANGED <<queue, item>>
     ELSE /\ item' = <<Head(queue)>>
          /\ queue' = Tail(queue)
          /\ worker' = "flush"
  /\ UNCHANGED <<producerVars, bulk, next, closerVars, written, throws>>

\* Mutant: what the final loop pops is not written.
WorkerDiscards ==
  /\ worker = "flush"
  /\ item' = <<>>
  /\ worker' = "drain"
  /\ UNCHANGED <<queue, producerVars, bulk, next, closerVars, written, throws>>

WorkerFlushes ==
  /\ worker = "flush"
  /\ written' = written \o item
  /\ item' = <<>>
  /\ worker' = "drain"
  /\ UNCHANGED <<queue, producerVars, bulk, next, closerVars, throws>>

\* An exception in the final loop, or one of another type in the first, leaves
\* the thread function: std::terminate.
WorkerTerminates ==
  /\ worker \in {"write", "flush"}
  /\ throws < MaxThrows
  /\ throws' = throws + 1
  /\ worker' = "terminated"
  /\ UNCHANGED <<queue, producerVars, bulk, next, item, closerVars, written>>

-----------------------------------------------------------------------------
(***************************************************************************)
(* Logger::Shutdown.                                                       *)
(***************************************************************************)
CloserGoes(k, to) == closer' = [closer EXCEPT ![k] = to]

\* Mutant: m_running is tested and never cleared.
ShutdownKeepsRunning(k) ==
  /\ closer[k] = "idle"
  /\ running
  /\ CloserGoes(k, "won") /\ cutoff' = Len(pushed)
  /\ UNCHANGED <<running, exit, queue, producerVars, workerVars, rest, written, throws>>

\* compare_exchange_strong: the first thread goes on, the others return.
ShutdownBegins(k) ==
  /\ closer[k] = "idle"
  /\ running' = FALSE
  /\ IF running
     THEN CloserGoes(k, "won") /\ cutoff' = Len(pushed)
     ELSE CloserGoes(k, "skipped") /\ UNCHANGED cutoff
  /\ UNCHANGED <<exit, queue, producerVars, workerVars, rest, written, throws>>

ShutdownSetsExit(k) ==
  /\ closer[k] = "won"
  /\ exit' = TRUE
  /\ CloserGoes(k, "join")
  /\ UNCHANGED <<running, queue, producerVars, workerVars, rest, cutoff, written, throws>>

\* Mutant: the log thread is detached, not joined.
ShutdownDetaches(k) ==
  /\ closer[k] = "join"
  /\ CloserGoes(k, "drain")
  /\ UNCHANGED <<running, exit, queue, producerVars, workerVars, rest, cutoff, written, throws>>

ShutdownJoins(k) ==
  /\ closer[k] = "join"
  /\ worker = "ended"
  /\ CloserGoes(k, "drain")
  /\ UNCHANGED <<running, exit, queue, producerVars, workerVars, rest, cutoff, written, throws>>

\* PopBulk(bulk, 100, 0): a bulk to write, or nothing left and the file is
\* closed.
ShutdownPopsBulk(k) ==
  /\ closer[k] = "drain"
  /\ LET n == IF Ready THEN Moved(0) ELSE 0 IN
       /\ rest' = Oldest(n)
       /\ queue' = After(n)
  /\ CloserGoes(k, IF rest' # <<>> THEN "write" ELSE "done")
  /\ UNCHANGED <<running, exit, producerVars, workerVars, cutoff, written, throws>>

ShutdownWrites(k) ==
  /\ closer[k] = "write"
  /\ written' = Append(written, Head(rest))
  /\ rest' = Tail(rest)
  /\ CloserGoes(k, IF rest' # <<>> THEN "write" ELSE "drain")
  /\ UNCHANGED <<running, exit, queue, producerVars, workerVars, cutoff, throws>>

\* Nothing catches here: the exception leaves Shutdown.
ShutdownThrows(k) ==
  /\ closer[k] = "write"
  /\ throws < MaxThrows
  /\ throws' = throws + 1
  /\ CloserGoes(k, "threw")
  /\ UNCHANGED <<running, exit, queue, producerVars, workerVars, rest, cutoff, written>>

-----------------------------------------------------------------------------
ProducerStep(p) == LogEnters(p) \/ Push(p)

WorkerStep ==
  \/ WorkerTests \/ WorkerPopsBulk \/ WorkerTimesOut \/ WorkerWrites \/ WorkerCatches
  \/ WorkerTestsEmpty \/ WorkerPops \/ WorkerFlushes \/ WorkerTerminates

CloserStep(k) ==
  \/ ShutdownSetsExit(k) \/ ShutdownJoins(k)
  \/ ShutdownPopsBulk(k) \/ ShutdownWrites(k) \/ ShutdownThrows(k)

\* std::terminate ends every thread.
Next ==
  /\ worker # "terminated"
  /\ \/ \E p \in Producers : ProducerStep(p)
     \/ WorkerStep
     \/ \E k \in Closers : ShutdownBegins(k) \/ CloserStep(k)

Spec == Init /\ [][Next]_vars

(***************************************************************************)
(* Every thread is scheduled, except that nothing makes a producer log or  *)
(* a thread shut the logger down.                                          *)
(***************************************************************************)
FairSpec ==
  /\ Spec
  /\ WF_vars(WorkerStep)
  /\ \A p \in Producers : WF_vars(Push(p))
  /\ \A k \in Closers : WF_vars(CloserStep(k))

-----------------------------------------------------------------------------
(***************************************************************************)
(* Properties.                                                             *)
(***************************************************************************)

\* What has left the queue and has still to be written, oldest first.
InHand == SubSeq(bulk, next, Len(bulk)) \o item \o rest

\* As long as no callback throws, every message pushed is in exactly one place
\* on its way to the file, and overtakes no other: across the two bulks, the
\* final Pop loop and the hand-over from the log thread to Shutdown.
Conserved == throws = 0 => pushed = written \o InHand \o queue

\* A message is written again only by the rounds an exception repeats, at
\* most once for each exception (WriteLogTask does not clear the bulk).
DuplicatesNeedThrows ==
  \A x \in ToSet(written) :
    Cardinality({ i \in DOMAIN written : written[i] = x }) <= 1 + throws

\* A message is passed over for a younger one only when the logger was shut
\* down while an exception had left it in a bulk.
SkippedOnlyAtExit ==
  \A i, j \in DOMAIN pushed :
    i < j /\ pushed[j] \in ToSet(written) /\ pushed[i] \notin ToSet(written)
      => throws > 0 /\ ~running

\* The queue never has two consumers, so that the untimed Pop after Empty, and
\* the exception it throws on an empty queue, are safe (logger.cc:124-125).
PopFindsItem == worker = "pop" => queue # <<>>

\* When Shutdown returns to the thread that won it, everything pushed before
\* it began has been written, in order, if no callback threw.
FlushedOnShutdown ==
  \A k \in Closers : closer[k] = "done" /\ throws = 0 =>
    /\ Len(written) >= cutoff
    /\ IsPrefix(written, pushed)

\* Shutdown returns, whatever is pushed meanwhile, unless an exception ends it.
ShutdownReturns ==
  \A k \in Closers :
    closer[k] = "won" ~> closer[k] \in {"done", "threw"} \/ worker = "terminated"

\* A message pushed before the logger was shut down is written, by the log
\* thread or by Shutdown, if no callback throws.
EventuallyWritten ==
  \A n \in 1 .. MaxLogs * Cardinality(Producers) :
    running /\ Len(pushed) >= n ~> Len(written) >= n \/ throws > 0

\* What logger.h says of Shutdown ("shut the log system down, making sure that
\* all messages are written", logger.h:43): once it has returned, no message
\* that Log accepted is left.
ShutdownWritesAll ==
  \A k \in Closers : closer[k] = "done" => queue = <<>>
=============================================================================
