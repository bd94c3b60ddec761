--------------------------- MODULE LogPipelineInv ---------------------------
(***************************************************************************)
(* The inductive invariant of LogPipeline: who may take from the queue,    *)
(* and where in the order of pushes each item on its way is.               *)
(*                                                                         *)
(* The queue, the item of the final loop and Shutdown's bulk are always    *)
(* the youngest items, without a gap.  The log thread's bulk is a segment  *)
(* of older ones, which joins them as long as the thread is in its loop    *)
(* and stays behind if an exception left it there when the loop ended.     *)
(***************************************************************************)
EXTENDS LogPipeline

Looping == {"loop", "wait", "write"}
Joined  == {"drain", "write", "done", "threw"}
Winning == {"won", "join"} \union Joined

\* One thread wins Shutdown, and after m_running was cleared.  It takes from
\* the queue only when the log thread has ended.
WinnerInv ==
  /\ running => \A k \in Closers : closer[k] = "idle"
  /\ worker \notin Looping /\ running => worker = "terminated"
  /\ \A k \in Closers : closer[k] \in Joined => worker = "ended"
  /\ \A j, k \in Closers : closer[j] \in Winning /\ closer[k] \in Winning => j = k

\* What each consumer holds where it is.
HandsInv ==
  /\ next = 1 \/ (worker \in {"write", "terminated"} /\ next <= Len(bulk))
  /\ worker = "write" => bulk # <<>>
  /\ worker = "pop" => queue # <<>>
  /\ worker = "flush" => Len(item) = 1
  /\ worker \notin {"flush", "terminated"} => item = <<>>
  /\ rest # <<>> => \E k \in Closers : closer[k] \in {"write", "threw"}
  /\ \A k \in Closers : closer[k] = "write" => rest # <<>>

\* A producer's messages are pushed in the order of their numbers, so that no
\* two items are the same.
PushedInv ==
  /\ \A p \in admitted : count[p] < MaxLogs
  /\ \A i \in DOMAIN pushed : pushed[i][2] <= count[pushed[i][1]]
  /\ \A i, j \in DOMAIN pushed : pushed[i] = pushed[j] => i = j
  /\ cutoff <= Len(pushed)

\* How many items the log thread or Shutdown has taken over for good: the
\* others are in Pop's hand, in Shutdown's bulk or in the queue.
Taken == Len(pushed) - Len(queue) - Len(rest) - Len(item)

BacklogInv ==
  /\ Taken >= 0
  /\ \A i \in DOMAIN item  : item[i]  = pushed[Taken + i]
  /\ \A i \in DOMAIN rest  : rest[i]  = pushed[Taken + Len(item) + i]
  /\ \A i \in DOMAIN queue : queue[i] = pushed[Taken + Len(item) + Len(rest) + i]

\* The bulk is the segment of the pushes that begins behind b.
BulkAt(b) ==
  /\ b + Len(bulk) <= Taken
  /\ \A i \in DOMAIN bulk : bulk[i] = pushed[b + i]

BulkInv ==
  /\ \E b \in 0 .. Len(pushed) : BulkAt(b)
  /\ worker \in Looping => Taken >= Len(bulk) /\ BulkAt(Taken - Len(bulk))

\* How often an item has been written.
Places(x) == { i \in DOMAIN written : written[i] = x }
Times(x)  == Cardinality(Places(x))

\* An item that has still to be written has been written at most once for
\* each exception, and any other at most once more.
TimesInv ==
  /\ ToSet(written) \subseteq ToSet(pushed)
  /\ \A x \in ToSet(pushed) : Times(x) <= 1 + throws
  /\ \A i \in Taken + 1 .. Len(pushed) : Times(pushed[i]) <= throws
  /\ \A i \in next .. Len(bulk) : Times(bulk[i]) <= throws

\* Nothing is passed over while the log thread is in its loop, nor if an
\* exception ended it there.
NoSkipInv ==
  worker \in Looping \/ running =>
    /\ \A i, j \in DOMAIN pushed :
         i < j /\ pushed[j] \in ToSet(written) => pushed[i] \in ToSet(written)
    /\ \A i \in 1 .. Taken - Len(bulk) + next - 1 : pushed[i] \in ToSet(written)

\* As long as no callback throws, the log thread lives, written is the
\* beginning of pushed, and a bulk is empty when it is not being written.
CalmInv ==
  throws = 0 =>
    /\ worker # "terminated"
    /\ worker # "write" => bulk = <<>>
    /\ Len(written) = Taken - (Len(bulk) - next + 1)
    /\ \A i \in DOMAIN written : written[i] = pushed[i]
    /\ \A k \in Closers : closer[k] = "done" => Len(written) >= cutoff

\* The inductive invariant (logger.cc:93-196, lockqueue.h:11-75).
LogInv ==
  /\ TypeOK
  /\ WinnerInv /\ HandsInv /\ PushedInv
  /\ BacklogInv /\ BulkInv
  /\ TimesInv /\ NoSkipInv /\ CalmInv
=============================================================================
