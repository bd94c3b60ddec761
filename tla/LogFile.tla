------------------------------ MODULE LogFile ------------------------------
(***************************************************************************)
(* The logger of LogPipeline with the output callback its constructor      *)
(* installs: a file per day, opened when an item of another day than the   *)
(* last one comes, and closed by Shutdown and by ~Logger.  Every step of   *)
(* LogPipeline that writes an item is a call of the callback, under        *)
(* m_fileMutex.                                                            *)
(*                                                                         *)
(* An item's day is that of the time Log took before the push: items of    *)
(* two threads, a repeated bulk or a clock that is set back can take the   *)
(* days backwards.                                                         *)
(***************************************************************************)
EXTENDS LogPipeline

CONSTANTS
  Dates,       \* the days items are from
  DateOf,      \* DateOf[x]: the day of item x
  Destructors, \* the closers that are ~Logger, which closes the file in any case
  MaxErrors    \* bound: days on which opens or writes fail

ASSUME FileAssumption ==
  /\ DateOf \in [Items -> Dates]
  /\ "" \notin Dates             \* GetCurrentDateString never returns it
  /\ Destructors \subseteq Closers
  /\ MaxErrors \in Nat

VARIABLES
  date,    \* m_currentDate, "" at first
  stream,  \* m_currentFile: "closed", "good", or "bad" after a failed write
  files,   \* files[d]: the items in the file of day d
  errors   \* days on which an open or a write has failed (history)

fileVars == <<date, stream, files, errors>>
allVars  == <<vars, fileVars>>

FileInit ==
  /\ Init
  /\ date = "" /\ stream = "closed"
  /\ files = [d \in Dates |-> <<>>]
  /\ errors = {}

-----------------------------------------------------------------------------
(***************************************************************************)
(* The callback.                                                           *)
(***************************************************************************)
IsOpen == stream # "closed"

Fails(d) ==
  /\ errors' = errors \union {d}
  /\ Cardinality(errors') <= MaxErrors

\* Mutant: the first day's file stays the current one for good.
OpenedOnce(d) == date # ""

SameDay(d) == date = d

\* The file for day d is not the current one and does not open: the day is
\* noted all the same, and the item is dropped.
OpenFails(d) ==
  /\ ~SameDay(d)
  /\ Fails(d)
  /\ date' = d /\ stream' = "closed"
  /\ UNCHANGED files

\* The item goes into the file, which is opened for a new day.
WritesLine(x) ==
  /\ SameDay(DateOf[x]) => stream = "good"
  /\ date' = IF SameDay(DateOf[x]) THEN date ELSE DateOf[x]
  /\ stream' = "good"
  /\ files' = [files EXCEPT ![date'] = Append(@, x)]
  /\ UNCHANGED errors

\* The stream takes the item and sets badbit; nobody looks at it.
WriteFails(x) ==
  /\ SameDay(DateOf[x]) => stream = "good"
  /\ Fails(DateOf[x])
  /\ date' = IF SameDay(DateOf[x]) THEN date ELSE DateOf[x]
  /\ stream' = "bad"
  /\ UNCHANGED files

\* No file, or one that failed, and still the same day.
DropsLine(d) ==
  /\ SameDay(d) /\ stream # "good"
  /\ UNCHANGED fileVars

Output(x) ==
  OpenFails(DateOf[x]) \/ WritesLine(x) \/ WriteFails(x) \/ DropsLine(DateOf[x])

-----------------------------------------------------------------------------
(***************************************************************************)
(* The end of Shutdown, and ~Logger after its call of Shutdown.            *)
(***************************************************************************)
CloseFile ==
  /\ stream' = "closed"
  /\ UNCHANGED <<date, files, errors>>

\* Mutant: the file is closed when Shutdown begins.
ClosesEarly == \E k \in Closers : closer[k] = "won" /\ closer'[k] = "join"

Closes == \E k \in Closers : closer[k] = "drain" /\ closer'[k] = "done"

\* ~Logger is noexcept: an exception that leaves Shutdown there ends the program.
DestructorThrew == \E k \in Destructors : closer[k] = "threw"

DestructorCloses ==
  /\ \E k \in Destructors : closer[k] \in {"done", "skipped"}
  /\ IsOpen
  /\ CloseFile
  /\ UNCHANGED vars

\* What a step of the pipeline does to the file.
FileStep ==
  \/ /\ written' # written
     /\ Output(Last(written'))
  \/ /\ written' = written
     /\ IF Closes THEN CloseFile ELSE UNCHANGED fileVars

Runs == worker # "terminated" /\ ~DestructorThrew

FileNext ==
  \/ Runs /\ Next /\ FileStep
  \/ Runs /\ DestructorCloses

FileSpec == FileInit /\ [][FileNext]_allVars

\* A mutex and a stream never block for ever: fairness is the pipeline's.
FileFairSpec ==
  /\ FileSpec
  /\ WF_allVars(Runs /\ WorkerStep /\ FileStep)
  /\ \A p \in Producers : WF_allVars(Runs /\ Push(p) /\ FileStep)
  /\ \A k \in Closers : WF_allVars(Runs /\ CloserStep(k) /\ FileStep)

-----------------------------------------------------------------------------
(***************************************************************************)
(* Properties.                                                             *)
(***************************************************************************)

\* ~Logger found another thread in Shutdown, and closes the file under it.
ClosedUnderShutdown == \E k \in Destructors : closer[k] = "skipped"

\* How many of the first j items written are of day d.
OfDay(d, j) == Cardinality({ i \in 1 .. j : DateOf[written[i]] = d })

\* The file of a day holds the day's items, in the order of writing, unless
\* an open or a write failed on that day itself: however often the days go
\* back and forth, between threads or in the bulks an exception repeats, no
\* line gets into another day's file, and a day that fails, which drops its
\* items until the next one (logger.cc:35-54), takes none of another day's.
FilesAreWritten ==
  ~ClosedUnderShutdown =>
    \A d \in Dates \ errors :
      /\ Len(files[d]) = OfDay(d, Len(written))
      /\ \A j \in DOMAIN written :
           DateOf[written[j]] = d => files[d][OfDay(d, j)] = written[j]

\* When Shutdown returns to the thread that won it, and no callback threw, the
\* file is closed and the messages pushed before Shutdown began are in it, but
\* for days on which an open or a write failed: what was still in the queue,
\* in the log thread's bulk or in Shutdown's own was written before the close.
OnDiskAtShutdown ==
  \A k \in Closers :
    closer[k] = "done" /\ throws = 0 /\ ~ClosedUnderShutdown =>
      /\ ~IsOpen
      /\ \A i \in 1 .. cutoff :
           DateOf[pushed[i]] \notin errors => pushed[i] \in ToSet(files[DateOf[pushed[i]]])
=============================================================================
