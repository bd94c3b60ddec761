----------------------------- MODULE Controller -----------------------------
(***************************************************************************)
(* One MprpcController that a user thread passes to its calls, resets and  *)
(* registers cancel callbacks with, while other threads cancel it.         *)
(*                                                                         *)
(* m_canceled is atomic, and m_cancelCallback a plain pointer: the project *)
(* is built for x86 without optimization (CMakeLists.txt:4 sets Debug), so *)
(* a plain store waits in its thread's store buffer, a store to the atomic *)
(* drains the buffer first, and every mention of the pointer is a load.    *)
(* Nothing in the framework calls StartCancel or NotifyOnCancel, and no    *)
(* call looks at m_canceled.                                               *)
(***************************************************************************)
EXTENDS Integers, SequencesExt

CONSTANTS
  Users,      \* threads that make calls, reset, and register callbacks
  Cancelers,  \* threads that cancel
  Callbacks,  \* each is registered at most once
  MaxOps      \* bound: operations of each thread

Threads == Users \union Cancelers

Null == "null"

ASSUME ControllerAssumption ==
  /\ \E u \in Users : Users = {u}  \* Reset and SetFailed write a std::string unlocked
  /\ Null \notin Callbacks
  /\ MaxOps \in Nat

VARIABLES
  failed,     \* m_failed
  canceled,   \* m_canceled
  callback,   \* m_cancelCallback, in memory
  buffer,     \* stores to it that each thread has not drained
  pc,         \* where each thread is
  op,         \* the operation it is in, or was in last (history)
  ops,        \* operations it has begun
  registered, \* callbacks registered so far
  retired,    \* those a Reset was to forget (history)
  late,       \* those that ran after that Reset had returned (history)
  runs,       \* how often each callback ran (history)
  cancels,    \* StartCancels begun (history)
  outcome,    \* what the last call came to: "none", "ok" or "failed" (history)
  unreset,    \* an earlier call failed and the user has not reset (history)
  races       \* kinds of operations that ran at the same time (history)

vars == <<failed, canceled, callback, buffer, pc, op, ops, registered, retired,
          late, runs, cancels, outcome, unreset, races>>
callVars == <<failed, outcome, unreset>>
histVars == <<registered, retired, late, runs, cancels>>

Init ==
  /\ failed = FALSE /\ canceled = FALSE /\ callback = Null
  /\ buffer = [t \in Threads |-> <<>>]
  /\ pc = [t \in Threads |-> "idle"] /\ op = [t \in Threads |-> "none"]
  /\ ops = [t \in Threads |-> 0]
  /\ registered = {} /\ retired = {} /\ late = {}
  /\ runs = [c \in Callbacks |-> 0] /\ cancels = 0
  /\ outcome = "none" /\ unreset = FALSE
  /\ races = {}

Goto(t, to) == pc' = [pc EXCEPT ![t] = to]

\* A thread's own stores are forwarded to its loads.
Sees(t) == IF buffer[t] = <<>> THEN callback ELSE Last(buffer[t])

\* What thread u has under way, undrained stores included.
Pending(u) ==
  (IF pc[u] = "idle" THEN {} ELSE {op[u]})
    \union { IF b = Null THEN "reset" ELSE "notify" : b \in ToSet(buffer[u]) }

Begins(t, kind) ==
  /\ pc[t] = "idle" /\ ops[t] < MaxOps
  /\ ops' = [ops EXCEPT ![t] = @ + 1]
  /\ op' = [op EXCEPT ![t] = kind]
  /\ races' = races \union { {kind, k} : k \in UNION { Pending(u) : u \in Threads \ {t} } }

-----------------------------------------------------------------------------
\* A call with this controller: CallMethod sets the failure and clears none.
Call(t, fails) ==
  /\ t \in Users /\ Begins(t, "call")
  /\ failed' = (failed \/ fails)
  /\ unreset' = (unreset \/ outcome = "failed")
  /\ outcome' = IF fails THEN "failed" ELSE "ok"
  /\ UNCHANGED <<canceled, callback, buffer, pc, histVars>>

\* Mutant: the failure stays.
ResetKeepsFailure(t) ==
  /\ t \in Users /\ Begins(t, "reset")
  /\ outcome' = "none" /\ unreset' = FALSE
  /\ Goto(t, "reset")
  /\ UNCHANGED <<failed, canceled, callback, buffer, histVars>>

ResetBegins(t) ==
  /\ t \in Users /\ Begins(t, "reset")
  /\ failed' = FALSE
  /\ outcome' = "none" /\ unreset' = FALSE
  /\ Goto(t, "reset")
  /\ UNCHANGED <<canceled, callback, buffer, histVars>>

ResetStores(t) ==
  /\ pc[t] = "reset" /\ buffer[t] = <<>>
  /\ canceled' = FALSE
  /\ Goto(t, "clear")
  /\ UNCHANGED <<callVars, callback, buffer, op, ops, histVars, races>>

\* Mutant: the pointer is left.
ResetKeepsCallback(t) ==
  /\ pc[t] = "clear"
  /\ retired' = registered
  /\ Goto(t, "idle")
  /\ UNCHANGED <<callVars, canceled, callback, buffer, op, ops, registered, late, runs, cancels, races>>

ResetClears(t) ==
  /\ pc[t] = "clear"
  /\ buffer' = [buffer EXCEPT ![t] = Append(@, Null)]
  /\ retired' = registered
  /\ Goto(t, "idle")
  /\ UNCHANGED <<callVars, canceled, callback, op, ops, registered, late, runs, cancels, races>>

-----------------------------------------------------------------------------
\* m_canceled.store(true)
StartCancel(t) ==
  /\ t \in Cancelers /\ buffer[t] = <<>> /\ Begins(t, "cancel")
  /\ canceled' = TRUE
  /\ cancels' = cancels + 1
  /\ Goto(t, "test")
  /\ UNCHANGED <<callVars, callback, buffer, registered, retired, late, runs>>

NotifyOnCancel(t, c) ==
  /\ t \in Users /\ c \notin registered /\ Begins(t, "notify")
  /\ registered' = registered \union {c}
  /\ buffer' = [buffer EXCEPT ![t] = Append(@, c)]
  /\ Goto(t, "load")
  /\ UNCHANGED <<callVars, canceled, callback, retired, late, runs, cancels>>

\* Mutant: NotifyOnCancel leaves the callback to StartCancel.
NotifyForgets(t) ==
  /\ pc[t] = "load"
  /\ Goto(t, "idle")
  /\ UNCHANGED <<callVars, canceled, callback, buffer, op, ops, histVars, races>>

\* Mutant: m_canceled is not looked at.
NotifyRuns(t) ==
  /\ pc[t] = "load"
  /\ Goto(t, "test")
  /\ UNCHANGED <<callVars, canceled, callback, buffer, op, ops, histVars, races>>

\* NotifyOnCancel's m_canceled.load(), which drains nothing.
NotifyLoads(t) ==
  /\ pc[t] = "load"
  /\ Goto(t, IF canceled THEN "test" ELSE "idle")
  /\ UNCHANGED <<callVars, canceled, callback, buffer, op, ops, histVars, races>>

\* if (m_cancelCallback), in StartCancel and in NotifyOnCancel.
Tests(t) ==
  /\ pc[t] = "test"
  /\ Goto(t, IF Sees(t) = Null THEN "idle" ELSE "run")
  /\ UNCHANGED <<callVars, canceled, callback, buffer, op, ops, histVars, races>>

\* m_cancelCallback->Run()
Runs(t) ==
  /\ pc[t] = "run" /\ Sees(t) # Null
  /\ runs' = [runs EXCEPT ![Sees(t)] = @ + 1]
  /\ late' = late \union ({Sees(t)} \intersect retired)
  /\ Goto(t, "idle")
  /\ UNCHANGED <<callVars, canceled, callback, buffer, op, ops, registered, retired, cancels, races>>

\* The second load finds a null pointer, and the program ends.
RunsNull(t) ==
  /\ pc[t] = "run" /\ Sees(t) = Null
  /\ Goto(t, "crashed")
  /\ UNCHANGED <<callVars, canceled, callback, buffer, op, ops, histVars, races>>

Drains(t) ==
  /\ buffer[t] # <<>>
  /\ callback' = Head(buffer[t])
  /\ buffer' = [buffer EXCEPT ![t] = Tail(@)]
  /\ UNCHANGED <<callVars, canceled, pc, op, ops, histVars, races>>

-----------------------------------------------------------------------------
Crashed == \E t \in Threads : pc[t] = "crashed"

Next ==
  /\ ~Crashed
  /\ \E t \in Threads :
       \/ \E fails \in BOOLEAN : Call(t, fails)
       \/ ResetBegins(t) \/ ResetStores(t) \/ ResetClears(t)
       \/ StartCancel(t)
       \/ \E c \in Callbacks : NotifyOnCancel(t, c)
       \/ NotifyLoads(t) \/ Tests(t) \/ Runs(t) \/ RunsNull(t) \/ Drains(t)

Spec == Init /\ [][Next]_vars

-----------------------------------------------------------------------------
(***************************************************************************)
(* Properties.                                                             *)
(***************************************************************************)
Quiet == \A t \in Threads : pc[t] = "idle" /\ buffer[t] = <<>>

\* A registered callback of a canceled controller has run, unless StartCancel
\* and NotifyOnCancel met: then each may miss the other's store, as the load
\* of m_canceled does not drain the pointer (mprpc_controller.cc:38-59).
LostNeedsRace ==
  Quiet /\ canceled /\ callback # Null /\ runs[callback] = 0
    => {"cancel", "notify"} \in races

\* A callback, which may delete itself when it runs, runs no more often than
\* the controller was canceled, and only once more if StartCancel and
\* NotifyOnCancel met and both ran it.
TwiceNeedsRace ==
  \A c \in Callbacks :
    /\ runs[c] <= cancels + 1
    /\ runs[c] > cancels => {"cancel", "notify"} \in races

\* Once Reset has returned no callback registered before it runs, and no null
\* pointer is called, unless StartCancel met the Reset.
ResetIsClean ==
  Crashed \/ late # {} => {"cancel", "reset"} \in races

\* Failed() tells of the last call, unless the user did not reset after an
\* earlier one that failed: a call that succeeds clears nothing.
FailedIsThisCall ==
  outcome # "none" /\ ~unreset => (failed <=> outcome = "failed")
=============================================================================
