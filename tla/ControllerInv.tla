--------------------------- MODULE ControllerInv ---------------------------
(***************************************************************************)
(* The inductive invariant of Controller: which stores to the callback are *)
(* still to reach the other threads, and what a thread in StartCancel, in  *)
(* Reset or in NotifyOnCancel can therefore find, as long as no two of     *)
(* these have met.                                                         *)
(***************************************************************************)
EXTENDS Controller

Pointers == Callbacks \union {Null}

TypeOK ==
  /\ failed \in BOOLEAN /\ canceled \in BOOLEAN /\ unreset \in BOOLEAN
  /\ callback \in Pointers
  /\ buffer \in [Threads -> Seq(Pointers)]
  /\ pc \in [Threads -> {"idle", "reset", "clear", "load", "test", "run", "crashed"}]
  /\ op \in [Threads -> {"none", "call", "reset", "cancel", "notify"}]
  /\ ops \in [Threads -> 0 .. MaxOps]
  /\ registered \subseteq Callbacks
  /\ retired \subseteq registered
  /\ late \subseteq Callbacks
  /\ runs \in [Callbacks -> Nat]
  /\ cancels \in Nat
  /\ outcome \in {"none", "ok", "failed"}

Met(a, b) == {a, b} \in races

\* Threads between the store and the end of StartCancel, and the user thread
\* inside NotifyOnCancel.
Cancelling == { t \in Threads : pc[t] \in {"test", "run"} /\ op[t] = "cancel" }
Notifying(u) == pc[u] \in {"load", "test", "run"} /\ op[u] = "notify"

\* Which operation a thread is in where it is; only the user stores to the
\* pointer, and it sees what it stored last.
StepInv ==
  \A t \in Threads :
    /\ pc[t] \in {"reset", "clear"} => op[t] = "reset"
    /\ pc[t] = "load" => op[t] = "notify"
    /\ pc[t] \in {"test", "run"} => op[t] \in {"cancel", "notify"}
    /\ t \notin Users => buffer[t] = <<>> /\ op[t] \in {"none", "cancel"}
    /\ t \in Users /\ pc[t] = "run" => Sees(t) # Null
    /\ Notifying(t) => Sees(t) # Null

\* Memory and the stores on their way hold registered callbacks, and behind
\* each one that a Reset was to forget comes that Reset's store of null.
StoresInv ==
  /\ callback \in registered \union {Null}
  /\ \A u \in Users :
       /\ ToSet(buffer[u]) \subseteq registered \union {Null}
       /\ callback \in retired => Null \in ToSet(buffer[u])
       /\ \A i \in DOMAIN buffer[u] :
            buffer[u][i] \in retired => \E j \in DOMAIN buffer[u] : i < j /\ buffer[u][j] = Null

FailedInv == ~unreset => (failed <=> outcome = "failed")

\* While no StartCancel has met a Reset, whoever cancels finds no pointer that
\* is being cleared.
ResetInv ==
  ~Met("cancel", "reset") =>
    /\ ~Crashed /\ late = {}
    /\ \A t \in Threads : pc[t] = "run" => Sees(t) # Null
    /\ \A u \in Users : Cancelling \ {u} # {} =>
         pc[u] \notin {"reset", "clear"} /\ Null \notin ToSet(buffer[u])

\* Runs are paid for by cancels, but for one of each callback, which its own
\* NotifyOnCancel may have made.
Own(c) == c \in registered /\ ~\E u \in Users : Notifying(u) /\ Sees(u) = c

CountInv ==
  /\ IsFiniteSet(Cancelling)
  /\ canceled => cancels > 0
  /\ \A c \in Callbacks :
       /\ c \notin registered => runs[c] = 0
       /\ runs[c] + Cardinality(Cancelling) <= cancels + (IF Own(c) THEN 1 ELSE 0)

\* While no StartCancel has met a NotifyOnCancel, every run is paid for by a
\* cancel, and the callback of a canceled controller has run or is about to.
MeetInv ==
  ~Met("cancel", "notify") =>
    /\ \A c \in Callbacks : runs[c] + Cardinality(Cancelling) <= cancels
    /\ \A u \in Users :
         /\ Cancelling \ {u} # {} => ToSet(buffer[u]) \subseteq {Null} /\ ~Notifying(u)
         /\ Notifying(u) => runs[Sees(u)] = 0 /\ (pc[u] # "load" => cancels > 0)
         /\ canceled /\ Sees(u) # Null /\ runs[Sees(u)] = 0
              => Notifying(u) \/ Cancelling # {}

\* The inductive invariant (mprpc_controller.cc:10-59).
ControllerInvariant ==
  /\ TypeOK /\ StepInv /\ StoresInv
  /\ FailedInv /\ ResetInv /\ CountInv /\ MeetInv
=============================================================================
