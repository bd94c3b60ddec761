-------------------------- MODULE ControllerProofs --------------------------
(***************************************************************************)
(* Proofs about Controller, for any number of canceling threads, callbacks *)
(* and operations: ControllerInvariant (ControllerInv) is inductive, and   *)
(* the properties of callbacks and of Failed follow from it.               *)
(***************************************************************************)
EXTENDS ControllerInv, SequenceTheorems, FiniteSetTheorems, TLAPS

-----------------------------------------------------------------------------
(***************************************************************************)
(* Facts about store buffers and races.                                    *)
(***************************************************************************)

\* What a thread sees is a pointer, the last of what it stored.
LEMMA SeesPointer ==
  ASSUME TypeOK, NEW t \in Threads
  PROVE  /\ buffer[t] \in Seq(Pointers) /\ Len(buffer[t]) \in Nat
         /\ DOMAIN buffer[t] = 1 .. Len(buffer[t])
         /\ Sees(t) \in Pointers
         /\ buffer[t] = <<>> => Sees(t) = callback
         /\ buffer[t] # <<>> => /\ Len(buffer[t]) >= 1
                                /\ Sees(t) = buffer[t][Len(buffer[t])]
                                /\ Sees(t) \in ToSet(buffer[t])
<1>1. /\ buffer[t] \in Seq(Pointers) /\ Len(buffer[t]) \in Nat
      /\ DOMAIN buffer[t] = 1 .. Len(buffer[t]) /\ callback \in Pointers
  BY DEF TypeOK
<1>2. CASE buffer[t] = <<>>
  BY <1>1, <1>2 DEF Sees
<1>3. CASE buffer[t] # <<>>
  <2>1. Len(buffer[t]) >= 1
    BY <1>1, <1>3, EmptySeq
  <2>2. Sees(t) = buffer[t][Len(buffer[t])]
    BY <1>3 DEF Sees, Last
  <2>. QED  BY <1>1, <1>3, <2>1, <2>2 DEF ToSet
<1>. QED  BY <1>1, <1>2, <1>3

\* A store waits behind the others, and is what its thread sees.
LEMMA StoreIsSeen ==
  ASSUME TypeOK, NEW t \in Threads, NEW v \in Pointers,
         buffer' = [buffer EXCEPT ![t] = Append(@, v)]
  PROVE  /\ buffer'[t] \in Seq(Pointers) /\ Len(buffer'[t]) = Len(buffer[t]) + 1
         /\ DOMAIN buffer'[t] = 1 .. Len(buffer[t]) + 1
         /\ \A i \in 1 .. Len(buffer[t]) : buffer'[t][i] = buffer[t][i]
         /\ buffer'[t][Len(buffer[t]) + 1] = v
         /\ ToSet(buffer'[t]) = ToSet(buffer[t]) \union {v}
         /\ Sees(t)' = v
         /\ \A s \in Threads : s # t => buffer'[s] = buffer[s]
<1>1. buffer'[t] = Append(buffer[t], v) /\ buffer[t] \in Seq(Pointers)
      /\ \A s \in Threads : s # t => buffer'[s] = buffer[s]
  BY DEF TypeOK
<1>2. /\ buffer'[t] \in Seq(Pointers) /\ Len(buffer'[t]) = Len(buffer[t]) + 1
      /\ \A i \in 1 .. Len(buffer[t]) : buffer'[t][i] = buffer[t][i]
      /\ buffer'[t][Len(buffer[t]) + 1] = v /\ Len(buffer[t]) \in Nat
  BY <1>1, AppendProperties
<1>3. DOMAIN buffer'[t] = 1 .. Len(buffer[t]) + 1 /\ DOMAIN buffer[t] = 1 .. Len(buffer[t])
  BY <1>1, <1>2, LenProperties
<1>4. ToSet(buffer'[t]) = ToSet(buffer[t]) \union {v}
  BY <1>2, <1>3 DEF ToSet
<1>5. Sees(t)' = v
  <2>1. buffer'[t] # <<>>
    BY <1>2, EmptySeq
  <2>. QED  BY <1>2, <2>1 DEF Sees, Last
<1>. QED  BY <1>1, <1>2, <1>3, <1>4, <1>5

\* A store that drains is the oldest one, and its thread sees what it saw.
LEMMA DrainIsNotSeen ==
  ASSUME TypeOK, NEW t \in Threads, Drains(t)
  PROVE  /\ buffer'[t] \in Seq(Pointers) /\ Len(buffer[t]) >= 1
         /\ Len(buffer'[t]) = Len(buffer[t]) - 1
         /\ DOMAIN buffer'[t] = 1 .. Len(buffer[t]) - 1
         /\ \A i \in 1 .. Len(buffer[t]) - 1 : buffer'[t][i] = buffer[t][i + 1]
         /\ callback' = buffer[t][1]
         /\ ToSet(buffer'[t]) \subseteq ToSet(buffer[t])
         /\ Sees(t)' = Sees(t)
         /\ \A s \in Threads : s # t => buffer'[s] = buffer[s]
<1>1. /\ buffer[t] # <<>> /\ callback' = Head(buffer[t])
      /\ buffer'[t] = Tail(buffer[t]) /\ buffer[t] \in Seq(Pointers)
      /\ \A s \in Threads : s # t => buffer'[s] = buffer[s]
  BY DEF TypeOK, Drains
<1>2. /\ buffer'[t] \in Seq(Pointers) /\ Len(buffer[t]) >= 1 /\ Len(buffer[t]) \in Nat
      /\ Len(buffer'[t]) = Len(buffer[t]) - 1 /\ callback' = buffer[t][1]
      /\ \A i \in 1 .. Len(buffer[t]) - 1 : buffer'[t][i] = buffer[t][i + 1]
  BY ONLY <1>1, HeadTailProperties, EmptySeq
<1>3. DOMAIN buffer'[t] = 1 .. Len(buffer[t]) - 1 /\ DOMAIN buffer[t] = 1 .. Len(buffer[t])
  BY <1>1, <1>2, LenProperties
<1>4. ToSet(buffer'[t]) \subseteq ToSet(buffer[t])
  <2>1. SUFFICES ASSUME NEW i \in 1 .. Len(buffer[t]) - 1
                 PROVE  buffer'[t][i] \in ToSet(buffer[t])
    BY <1>3 DEF ToSet
  <2>2. i + 1 \in DOMAIN buffer[t] /\ buffer'[t][i] = buffer[t][i + 1]
    BY <1>2, <1>3
  <2>. QED  BY ONLY <2>2 DEF ToSet
<1>5. Sees(t)' = Sees(t)
  <2>1. Sees(t) = buffer[t][Len(buffer[t])]
    BY <1>1 DEF Sees, Last
  <2>2. CASE Len(buffer[t]) = 1
    <3>1. buffer'[t] = <<>>
      BY <1>2, <2>2, EmptySeq
    <3>. QED  BY <1>2, <2>1, <2>2, <3>1 DEF Sees
  <2>3. CASE Len(buffer[t]) # 1
    <3>1. Len(buffer[t]) - 1 \in 1 .. Len(buffer[t]) - 1 /\ Len(buffer'[t]) # 0
      <4>1. PICK n \in Nat : Len(buffer[t]) = n
        BY <1>2
      <4>2. n >= 1 /\ n # 1 /\ Len(buffer'[t]) = n - 1
        BY <1>2, <2>3, <4>1
      <4>3. n - 1 \in 1 .. n - 1 /\ n - 1 # 0
        BY <4>2
      <4>. QED  BY <4>1, <4>2, <4>3
    <3>2. buffer'[t] # <<>>
      BY <1>2, <3>1, EmptySeq
    <3>3. Sees(t)' = buffer'[t][Len(buffer[t]) - 1]
      BY <1>2, <3>2 DEF Sees, Last
    <3>. QED  BY <1>2, <2>1, <3>1, <3>3
  <2>. QED  BY <2>2, <2>3
<1>. QED  BY <1>1, <1>2, <1>3, <1>4, <1>5

\* Whoever begins an operation while another is under way, or while its store
\* is, meets it.
LEMMA Meets ==
  ASSUME TypeOK, NEW t \in Threads, NEW kind, Begins(t, kind)
  PROVE  /\ races \subseteq races'
         /\ \A a, b : Met(a, b) => Met(a, b)'
         /\ \A u \in Threads \ {t} :
              /\ \A k : pc[u] # "idle" /\ op[u] = k => Met(kind, k)' /\ Met(k, kind)'
              /\ Null \in ToSet(buffer[u]) => Met(kind, "reset")'
              /\ \A b \in ToSet(buffer[u]) : b # Null => Met(kind, "notify")'
<1>1. races' = races \union { {kind, k} : k \in UNION { Pending(u) : u \in Threads \ {t} } }
  BY DEF Begins
<1>2. \A u \in Threads \ {t} : \A k \in Pending(u) : {kind, k} \in races' /\ {k, kind} \in races'
  BY <1>1
<1>3. \A u \in Threads : \A k : pc[u] # "idle" /\ op[u] = k => k \in Pending(u)
  BY DEF Pending
<1>4. \A u \in Threads : \A b \in ToSet(buffer[u]) :
        IF b = Null THEN "reset" \in Pending(u) ELSE "notify" \in Pending(u)
  BY DEF Pending
<1>. QED  BY <1>1, <1>2, <1>3, <1>4 DEF Met

\* There is one user thread.
LEMMA OneUser ==
  ASSUME NEW u \in Users
  PROVE  Users = {u} /\ u \in Threads
BY ControllerAssumption DEF Threads

\* What the other threads see is what is in memory; what any thread sees is
\* registered, and what the user sees is not to be forgotten.
LEMMA WhatIsSeen ==
  ASSUME TypeOK, StepInv, StoresInv, NEW t \in Threads
  PROVE  /\ Sees(t) \in registered \union {Null}
         /\ t \notin Users => Sees(t) = callback
         /\ t \in Users => Sees(t) \notin retired
<1>1. t \notin Users => Sees(t) = callback
  BY SeesPointer DEF StepInv
<1>2. Sees(t) \in registered \union {Null}
  <2>1. CASE t \notin Users
    BY <1>1, <2>1 DEF StoresInv
  <2>2. CASE t \in Users
    BY <2>2, SeesPointer DEF StoresInv
  <2>. QED  BY <2>1, <2>2
<1>3. ASSUME t \in Users PROVE Sees(t) \notin retired
  <2>1. CASE buffer[t] = <<>>
    <3>1. Sees(t) = callback /\ ToSet(buffer[t]) = {}
      BY <2>1, SeesPointer DEF ToSet
    <3>. QED  BY <1>3, <3>1 DEF StoresInv
  <2>2. CASE buffer[t] # <<>>
    <3>1. /\ Sees(t) = buffer[t][Len(buffer[t])] /\ Len(buffer[t]) \in DOMAIN buffer[t]
          /\ \A j \in DOMAIN buffer[t] : ~(Len(buffer[t]) < j)
      BY <2>2, SeesPointer
    <3>. QED  BY <1>3, <3>1 DEF StoresInv
  <2>. QED  BY <2>1, <2>2
<1>. QED  BY <1>1, <1>2, <1>3

\* While no StartCancel has met a NotifyOnCancel, a thread that cancels sees
\* the callback the user sees, or the user has just cleared it.
LEMMA CancelerSees ==
  ASSUME ControllerInvariant, ~Met("cancel", "notify"),
         NEW t \in Cancelling, NEW u \in Users
  PROVE  Sees(u) = Null \/ Sees(u) = Sees(t)
<1> USE DEF ControllerInvariant
<1>1. t \in Threads /\ u \in Threads /\ Users = {u}
  BY OneUser DEF Cancelling
<1>2. CASE t = u
  BY <1>2
<1>3. CASE t # u
  <2>1. ToSet(buffer[u]) \subseteq {Null} /\ Sees(t) = callback
    BY <1>1, <1>3, WhatIsSeen DEF MeetInv
  <2>. QED  BY <1>1, <2>1, SeesPointer
<1>. QED  BY <1>2, <1>3

-----------------------------------------------------------------------------
(***************************************************************************)
(* The user's call and Reset.                                              *)
(***************************************************************************)

\* A call changes the failure only (mprpc_controller.cc:29-33).
LEMMA CallKeeps ==
  ASSUME ControllerInvariant, NEW t \in Threads, NEW fails \in BOOLEAN, Call(t, fails)
  PROVE  ControllerInvariant'
<1> USE DEF ControllerInvariant
<1>1. /\ t \in Users /\ pc[t] = "idle" /\ op' = [op EXCEPT ![t] = "call"]
      /\ ops' = [ops EXCEPT ![t] = @ + 1] /\ ops[t] < MaxOps
      /\ UNCHANGED <<canceled, callback, buffer, pc, histVars>>
      /\ failed' = (failed \/ fails) /\ unreset' = (unreset \/ outcome = "failed")
      /\ outcome' = IF fails THEN "failed" ELSE "ok"
  BY DEF Call, Begins
<1>2. \A a, b : Met(a, b) => Met(a, b)'
  BY Meets DEF Call
<1>3. \A s \in Threads : Sees(s)' = Sees(s) /\ (s # t => op'[s] = op[s]) /\ op'[t] = "call"
  BY <1>1 DEF Sees, TypeOK
<1>4. Cancelling' = Cancelling /\ \A s \in Threads : Notifying(s)' <=> Notifying(s)
  BY <1>1, <1>3 DEF Cancelling, Notifying
<1>5. TypeOK'
  BY <1>1, ControllerAssumption DEF TypeOK, histVars
<1>6. StepInv'
  BY <1>1, <1>3, <1>4 DEF StepInv
<1>7. StoresInv'
  BY <1>1 DEF StoresInv, histVars
<1>8. FailedInv'
  BY <1>1 DEF FailedInv, TypeOK
<1>9. ResetInv'
  BY <1>1, <1>2, <1>3, <1>4 DEF ResetInv, Crashed, histVars
<1>10. CountInv' /\ MeetInv'
  <2>1. \A c \in Callbacks : Own(c)' <=> Own(c)
    BY <1>1, <1>3, <1>4, OneUser DEF Own, histVars
  <2>. QED  BY <1>1, <1>2, <1>3, <1>4, <2>1, OneUser DEF CountInv, MeetInv, histVars
<1>. QED  BY <1>5, <1>6, <1>7, <1>8, <1>9, <1>10

\* Reset clears the failure first (mprpc_controller.cc:12-13).
LEMMA ResetBeginsKeeps ==
  ASSUME ControllerInvariant, NEW t \in Threads, ResetBegins(t)
  PROVE  ControllerInvariant'
<1> USE DEF ControllerInvariant
<1>1. /\ t \in Users /\ pc[t] = "idle" /\ op' = [op EXCEPT ![t] = "reset"]
      /\ pc' = [pc EXCEPT ![t] = "reset"]
      /\ ops' = [ops EXCEPT ![t] = @ + 1] /\ ops[t] < MaxOps
      /\ UNCHANGED <<canceled, callback, buffer, histVars>>
      /\ failed' = FALSE /\ unreset' = FALSE /\ outcome' = "none"
  BY DEF ResetBegins, Begins, Goto
<1>2. \A a, b : Met(a, b) => Met(a, b)'
  BY Meets DEF ResetBegins
<1>3. /\ \A s \in Threads : Sees(s)' = Sees(s)
      /\ \A s \in Threads : s # t => op'[s] = op[s] /\ pc'[s] = pc[s]
      /\ op'[t] = "reset" /\ pc'[t] = "reset"
  BY <1>1 DEF Sees, TypeOK
<1>4. Cancelling' = Cancelling /\ \A s \in Threads : Notifying(s)' <=> Notifying(s)
  BY <1>1, <1>3 DEF Cancelling, Notifying
<1>5. TypeOK'
  <2>1. ops' \in [Threads -> 0 .. MaxOps]
    BY <1>1, ControllerAssumption DEF TypeOK
  <2>2. pc' \in [Threads -> {"idle", "reset", "clear", "load", "test", "run", "crashed"}]
    BY <1>1 DEF TypeOK
  <2>3. op' \in [Threads -> {"none", "call", "reset", "cancel", "notify"}]
    BY <1>1 DEF TypeOK
  <2>4. failed' \in BOOLEAN /\ unreset' \in BOOLEAN /\ outcome' \in {"none", "ok", "failed"}
    BY <1>1
  <2>. QED  BY <1>1, <2>1, <2>2, <2>3, <2>4 DEF TypeOK, histVars
<1>6. StepInv'
  BY <1>1, <1>3, <1>4 DEF StepInv
<1>7. StoresInv'
  BY <1>1 DEF StoresInv, histVars
<1>8. FailedInv'
  BY <1>1 DEF FailedInv
<1>9. ResetInv'
  <2>1. SUFFICES ASSUME ~Met("cancel", "reset")' PROVE ResetInv'
    BY DEF ResetInv
  <2>2. Cancelling \ {t} = {}
    BY <2>1, Meets DEF Cancelling, ResetBegins
  <2>3. Users = {t}
    BY <1>1, OneUser
  <2>. QED  BY <1>1, <1>2, <1>3, <1>4, <2>1, <2>2, <2>3 DEF ResetInv, Crashed, histVars
<1>10. CountInv' /\ MeetInv'
  <2>1. \A c \in Callbacks : Own(c)' <=> Own(c)
    BY <1>1, <1>3, <1>4, OneUser DEF Own, histVars
  <2>2. CountInv'
    BY <1>1, <1>4, <2>1 DEF CountInv, histVars
  <2>3. MeetInv'
    BY <1>1, <1>2, <1>3, <1>4, OneUser DEF MeetInv, Notifying, histVars
  <2>. QED  BY <2>2, <2>3
<1>. QED  BY <1>5, <1>6, <1>7, <1>8, <1>9, <1>10

\* The store to m_canceled (mprpc_controller.cc:15).
LEMMA ResetStoresKeeps ==
  ASSUME ControllerInvariant, NEW t \in Threads, ResetStores(t)
  PROVE  ControllerInvariant'
<1> USE DEF ControllerInvariant
<1>1. /\ pc[t] = "reset" /\ pc' = [pc EXCEPT ![t] = "clear"]
      /\ canceled' = FALSE
      /\ UNCHANGED <<callVars, callback, buffer, op, ops, histVars, races>>
  BY DEF ResetStores, Goto
<1>2. op[t] = "reset" /\ t \in Users
  BY <1>1 DEF StepInv
<1>3. /\ \A s \in Threads : Sees(s)' = Sees(s)
      /\ \A s \in Threads : s # t => pc'[s] = pc[s]
      /\ pc'[t] = "clear" /\ \A a, b : Met(a, b)' <=> Met(a, b)
  BY <1>1 DEF Sees, TypeOK, Met
<1>4. Cancelling' = Cancelling /\ \A s \in Threads : Notifying(s)' <=> Notifying(s)
  BY <1>1, <1>2, <1>3 DEF Cancelling, Notifying
<1>5. TypeOK'
  BY <1>1 DEF TypeOK, histVars, callVars
<1>6. StepInv' /\ StoresInv' /\ FailedInv'
  BY <1>1, <1>2, <1>3, <1>4 DEF StepInv, StoresInv, FailedInv, histVars, callVars
<1>7. ResetInv'
  BY <1>1, <1>2, <1>3, <1>4 DEF ResetInv, Crashed, histVars
<1>8. CountInv' /\ MeetInv'
  <2>1. \A c \in Callbacks : Own(c)' <=> Own(c)
    BY <1>1, <1>3, <1>4, OneUser DEF Own, histVars
  <2>2. CountInv'
    BY <1>1, <1>4, <2>1 DEF CountInv, histVars
  <2>3. MeetInv'
    BY <1>1, <1>3, <1>4, OneUser DEF MeetInv, Notifying, histVars
  <2>. QED  BY <2>2, <2>3
<1>. QED  BY <1>5, <1>6, <1>7, <1>8

\* The store of null, behind which nothing registered so far is left
\* (mprpc_controller.cc:16).
LEMMA ResetClearsKeeps ==
  ASSUME ControllerInvariant, NEW t \in Threads, ResetClears(t)
  PROVE  ControllerInvariant'
<1> USE DEF ControllerInvariant
<1>1. /\ pc[t] = "clear" /\ pc' = [pc EXCEPT ![t] = "idle"]
      /\ buffer' = [buffer EXCEPT ![t] = Append(@, Null)]
      /\ retired' = registered
      /\ UNCHANGED <<callVars, canceled, callback, op, ops, registered, late, runs, cancels, races>>
  BY DEF ResetClears, Goto
<1>2. op[t] = "reset" /\ t \in Users /\ Users = {t} /\ Null \in Pointers
  BY <1>1, OneUser DEF StepInv, Pointers
<1>3. /\ buffer'[t] \in Seq(Pointers) /\ Len(buffer'[t]) = Len(buffer[t]) + 1
      /\ DOMAIN buffer'[t] = 1 .. Len(buffer[t]) + 1
      /\ \A i \in 1 .. Len(buffer[t]) : buffer'[t][i] = buffer[t][i]
      /\ buffer'[t][Len(buffer[t]) + 1] = Null
      /\ ToSet(buffer'[t]) = ToSet(buffer[t]) \union {Null}
      /\ Sees(t)' = Null
      /\ \A s \in Threads : s # t => buffer'[s] = buffer[s]
  BY <1>1, <1>2, StoreIsSeen
<1>4. /\ \A s \in Threads : s # t => Sees(s)' = Sees(s) /\ pc'[s] = pc[s]
      /\ pc'[t] = "idle" /\ \A a, b : Met(a, b)' <=> Met(a, b)
  BY <1>1, <1>3 DEF Sees, TypeOK, Met
<1>5. /\ Cancelling' = Cancelling /\ t \notin Cancelling
      /\ \A s \in Threads : Notifying(s)' <=> Notifying(s)
      /\ ~Notifying(t)
  BY <1>1, <1>2, <1>4 DEF Cancelling, Notifying
<1>6. TypeOK'
  <2>1. buffer' \in [Threads -> Seq(Pointers)]
    BY <1>1, <1>3 DEF TypeOK
  <2>. QED  BY <1>1, <2>1 DEF TypeOK, callVars
<1>7. StepInv'
  BY <1>1, <1>2, <1>3, <1>4, <1>5 DEF StepInv
<1>8. StoresInv'
  <2>1. Null \notin registered
    BY ControllerAssumption DEF TypeOK
  <2>2. callback' \in registered \union {Null} /\ ToSet(buffer'[t]) \subseteq registered \union {Null}
    BY <1>1, <1>2, <1>3 DEF StoresInv
  <2>3. Null \in ToSet(buffer'[t])
    BY <1>3
  <2>4. ASSUME NEW i \in DOMAIN buffer'[t], buffer'[t][i] \in registered
        PROVE  \E j \in DOMAIN buffer'[t] : i < j /\ buffer'[t][j] = Null
    <3>1. Len(buffer[t]) \in Nat
      BY SeesPointer
    <3>2. i # Len(buffer[t]) + 1
      BY <1>3, <2>1, <2>4
    <3>3. i < Len(buffer[t]) + 1 /\ Len(buffer[t]) + 1 \in DOMAIN buffer'[t]
      BY <1>3, <3>1, <3>2
    <3>. QED  BY <1>3, <3>3
  <2>. QED  BY <1>1, <1>2, <2>2, <2>3, <2>4 DEF StoresInv
<1>9. FailedInv'
  BY <1>1 DEF FailedInv, callVars
<1>10. ResetInv'
  BY <1>1, <1>2, <1>3, <1>4, <1>5 DEF ResetInv, Crashed
<1>11. CountInv'
  <2>1. \A c \in Callbacks : Own(c)' <=> Own(c)
    BY <1>1, <1>2, <1>5 DEF Own
  <2>. QED  BY <1>1, <1>5, <2>1 DEF CountInv
<1>12. MeetInv'
  BY <1>1, <1>2, <1>3, <1>4, <1>5 DEF MeetInv
<1>. QED  BY <1>6, <1>7, <1>8, <1>9, <1>10, <1>11, <1>12

-----------------------------------------------------------------------------
(***************************************************************************)
(* StartCancel and NotifyOnCancel.                                         *)
(***************************************************************************)

\* The store to m_canceled pays for one run, and meets a Reset or a
\* NotifyOnCancel that is under way (mprpc_controller.cc:38).
LEMMA StartCancelKeeps ==
  ASSUME ControllerInvariant, NEW t \in Threads, StartCancel(t)
  PROVE  ControllerInvariant'
<1> USE DEF ControllerInvariant
<1>1. /\ buffer[t] = <<>> /\ pc[t] = "idle" /\ op' = [op EXCEPT ![t] = "cancel"]
      /\ pc' = [pc EXCEPT ![t] = "test"]
      /\ ops' = [ops EXCEPT ![t] = @ + 1] /\ ops[t] < MaxOps
      /\ canceled' = TRUE /\ cancels' = cancels + 1
      /\ UNCHANGED <<callVars, callback, buffer, registered, retired, late, runs>>
  BY DEF StartCancel, Begins, Goto
<1>2. /\ \A a, b : Met(a, b) => Met(a, b)'
      /\ \A u \in Threads \ {t} :
           /\ pc[u] # "idle" /\ op[u] = "reset" => Met("cancel", "reset")'
           /\ pc[u] # "idle" /\ op[u] = "notify" => Met("cancel", "notify")'
           /\ Null \in ToSet(buffer[u]) => Met("cancel", "reset")'
           /\ \A b \in ToSet(buffer[u]) : b # Null => Met("cancel", "notify")'
  BY Meets DEF StartCancel
<1>3. /\ \A s \in Threads : Sees(s)' = Sees(s)
      /\ \A s \in Threads : s # t => op'[s] = op[s] /\ pc'[s] = pc[s]
      /\ op'[t] = "cancel" /\ pc'[t] = "test" /\ ToSet(buffer[t]) = {}
  BY <1>1 DEF Sees, TypeOK, ToSet
<1>4. /\ Cancelling' = Cancelling \union {t} /\ t \notin Cancelling
      /\ \A s \in Threads : Notifying(s)' <=> Notifying(s)
      /\ ~Notifying(t)
  BY <1>1, <1>3 DEF Cancelling, Notifying
<1>5. TypeOK'
  <2>1. ops' \in [Threads -> 0 .. MaxOps]
    BY <1>1, ControllerAssumption DEF TypeOK
  <2>2. pc' \in [Threads -> {"idle", "reset", "clear", "load", "test", "run", "crashed"}]
    BY <1>1 DEF TypeOK
  <2>3. op' \in [Threads -> {"none", "call", "reset", "cancel", "notify"}]
    BY <1>1 DEF TypeOK
  <2>4. canceled' \in BOOLEAN /\ cancels' \in Nat
    BY <1>1 DEF TypeOK
  <2>. QED  BY <1>1, <2>1, <2>2, <2>3, <2>4 DEF TypeOK, callVars
<1>6. StepInv' /\ StoresInv' /\ FailedInv'
  BY <1>1, <1>3, <1>4 DEF StepInv, StoresInv, FailedInv, callVars
<1>7. ResetInv'
  <2>1. SUFFICES ASSUME ~Met("cancel", "reset")' PROVE ResetInv'
    BY DEF ResetInv
  <2>2. \A u \in Users : u # t => pc[u] \notin {"reset", "clear"} /\ Null \notin ToSet(buffer[u])
    BY <1>2, <2>1, OneUser DEF StepInv
  <2>. QED  BY <1>1, <1>2, <1>3, <1>4, <2>1, <2>2, OneUser DEF ResetInv, Crashed
<1>8. /\ IsFiniteSet(Cancelling') /\ Cardinality(Cancelling') = Cardinality(Cancelling) + 1
      /\ Cardinality(Cancelling) \in Nat /\ cancels \in Nat /\ \A c \in Callbacks : runs[c] \in Nat
  BY <1>4, FS_AddElement, FS_CardinalityType DEF CountInv, TypeOK
<1>9. CountInv'
  <2>1. \A c \in Callbacks : Own(c)' <=> Own(c)
    BY <1>1, <1>3, <1>4, OneUser DEF Own
  <2>2. ASSUME NEW c \in Callbacks
        PROVE  runs'[c] + Cardinality(Cancelling') <= cancels' + (IF Own(c)' THEN 1 ELSE 0)
    BY <1>1, <1>8, <2>1 DEF CountInv
  <2>3. cancels' > 0
    BY <1>1, <1>8
  <2>. QED  BY <1>1, <1>8, <2>2, <2>3 DEF CountInv
<1>10. MeetInv'
  <2>1. SUFFICES ASSUME ~Met("cancel", "notify")' PROVE MeetInv'
    BY DEF MeetInv
  <2>2. \A u \in Users : ToSet(buffer[u]) \subseteq {Null} /\ ~Notifying(u)
    BY <1>2, <1>3, <1>4, <2>1, OneUser DEF Notifying
  <2>3. \A c \in Callbacks : runs'[c] + Cardinality(Cancelling') <= cancels'
    BY <1>1, <1>2, <1>8, <2>1 DEF MeetInv
  <2>. QED  BY <1>1, <1>3, <1>4, <2>1, <2>2, <2>3, OneUser DEF MeetInv
<1>. QED  BY <1>5, <1>6, <1>7, <1>9, <1>10

\* The callback is new, so it has not run, and no one is canceling unless the
\* two have met (mprpc_controller.cc:54).
LEMMA NotifyOnCancelKeeps ==
  ASSUME ControllerInvariant, NEW t \in Threads, NEW c \in Callbacks, NotifyOnCancel(t, c)
  PROVE  ControllerInvariant'
<1> USE DEF ControllerInvariant
<1>1. /\ c \notin registered /\ pc[t] = "idle" /\ op' = [op EXCEPT ![t] = "notify"]
      /\ pc' = [pc EXCEPT ![t] = "load"]
      /\ ops' = [ops EXCEPT ![t] = @ + 1] /\ ops[t] < MaxOps
      /\ registered' = registered \union {c}
      /\ buffer' = [buffer EXCEPT ![t] = Append(@, c)]
      /\ UNCHANGED <<callVars, canceled, callback, retired, late, runs, cancels>>
  BY DEF NotifyOnCancel, Begins, Goto
<1>2. t \in Users /\ Users = {t} /\ c \in Pointers /\ c # Null
  BY OneUser, ControllerAssumption DEF NotifyOnCancel, Pointers
<1>3. /\ buffer'[t] \in Seq(Pointers) /\ Len(buffer'[t]) = Len(buffer[t]) + 1
      /\ DOMAIN buffer'[t] = 1 .. Len(buffer[t]) + 1
      /\ \A i \in 1 .. Len(buffer[t]) : buffer'[t][i] = buffer[t][i]
      /\ buffer'[t][Len(buffer[t]) + 1] = c
      /\ ToSet(buffer'[t]) = ToSet(buffer[t]) \union {c}
      /\ Sees(t)' = c
      /\ \A s \in Threads : s # t => buffer'[s] = buffer[s]
  BY <1>1, <1>2, StoreIsSeen
<1>4. /\ \A a, b : Met(a, b) => Met(a, b)'
      /\ \A u \in Threads \ {t} : pc[u] # "idle" /\ op[u] = "cancel" => Met("cancel", "notify")'
  BY Meets DEF NotifyOnCancel
<1>5. /\ \A s \in Threads : s # t => Sees(s)' = Sees(s) /\ op'[s] = op[s] /\ pc'[s] = pc[s]
      /\ op'[t] = "notify" /\ pc'[t] = "load"
  BY <1>1, <1>3 DEF Sees, TypeOK
<1>6. /\ Cancelling' = Cancelling /\ t \notin Cancelling
      /\ ~Notifying(t) /\ Notifying(t)'
      /\ \A s \in Threads : s # t => (Notifying(s)' <=> Notifying(s))
  BY <1>1, <1>5 DEF Cancelling, Notifying
<1>7. TypeOK'
  <2>1. ops' \in [Threads -> 0 .. MaxOps]
    BY <1>1, ControllerAssumption DEF TypeOK
  <2>2. pc' \in [Threads -> {"idle", "reset", "clear", "load", "test", "run", "crashed"}]
    BY <1>1 DEF TypeOK
  <2>3. op' \in [Threads -> {"none", "call", "reset", "cancel", "notify"}]
    BY <1>1 DEF TypeOK
  <2>4. buffer' \in [Threads -> Seq(Pointers)]
    BY <1>1, <1>3 DEF TypeOK
  <2>. QED  BY <1>1, <2>1, <2>2, <2>3, <2>4 DEF TypeOK, callVars
<1>8. StepInv'
  BY <1>1, <1>2, <1>3, <1>5, <1>6 DEF StepInv
<1>9. StoresInv'
  <2>1. c \notin retired /\ retired \subseteq registered /\ Len(buffer[t]) \in Nat
        /\ DOMAIN buffer[t] = 1 .. Len(buffer[t])
    BY <1>1, SeesPointer DEF TypeOK
  <2>2. callback' \in registered' \union {Null} /\ ToSet(buffer'[t]) \subseteq registered' \union {Null}
    BY <1>1, <1>2, <1>3 DEF StoresInv
  <2>3. callback \in retired => Null \in ToSet(buffer'[t])
    BY <1>2, <1>3 DEF StoresInv
  <2>4. ASSUME NEW i \in DOMAIN buffer'[t], buffer'[t][i] \in retired
        PROVE  \E j \in DOMAIN buffer'[t] : i < j /\ buffer'[t][j] = Null
    <3>1. i \in DOMAIN buffer[t] /\ buffer[t][i] \in retired
      BY <1>3, <2>1, <2>4
    <3>2. PICK j \in DOMAIN buffer[t] : i < j /\ buffer[t][j] = Null
      BY <1>2, <3>1 DEF StoresInv
    <3>3. j \in DOMAIN buffer'[t] /\ buffer'[t][j] = Null
      BY <1>3, <2>1, <3>2
    <3>. QED  BY <3>2, <3>3
  <2>. QED  BY <1>1, <1>2, <2>2, <2>3, <2>4 DEF StoresInv
<1>10. FailedInv'
  BY <1>1 DEF FailedInv, callVars
<1>11. ResetInv'
  BY <1>1, <1>2, <1>3, <1>4, <1>5, <1>6 DEF ResetInv, Crashed
<1>12. CountInv'
  <2>1. ASSUME NEW d \in Callbacks
        PROVE  /\ d \notin registered' => runs'[d] = 0
               /\ runs'[d] + Cardinality(Cancelling') <= cancels' + (IF Own(d)' THEN 1 ELSE 0)
    <3>1. CASE d = c
      <4>1. ~Own(c) /\ ~Own(c)'
        BY <1>1, <1>2, <1>3, <1>6 DEF Own
      <4>. QED  BY <1>1, <1>6, <3>1, <4>1 DEF CountInv
    <3>2. CASE d # c
      <4>1. Own(d)' <=> Own(d)
        BY <1>1, <1>2, <1>3, <1>6, <3>2 DEF Own
      <4>. QED  BY <1>1, <1>6, <3>2, <4>1 DEF CountInv
    <3>. QED  BY <3>1, <3>2
  <2>. QED  BY <1>1, <1>6, <2>1 DEF CountInv
<1>13. MeetInv'
  <2>1. SUFFICES ASSUME ~Met("cancel", "notify")' PROVE MeetInv'
    BY DEF MeetInv
  <2>2. Cancelling = {}
    BY <1>4, <1>6, <2>1 DEF Cancelling
  <2>3. runs'[c] = 0
    BY <1>1 DEF CountInv
  <2>. QED  BY <1>1, <1>2, <1>3, <1>4, <1>5, <1>6, <2>1, <2>2, <2>3 DEF MeetInv
<1>. QED  BY <1>7, <1>8, <1>9, <1>10, <1>11, <1>12, <1>13

\* NotifyOnCancel goes on only if the controller is canceled
\* (mprpc_controller.cc:57).
LEMMA NotifyLoadsKeeps ==
  ASSUME ControllerInvariant, NEW t \in Threads, NotifyLoads(t)
  PROVE  ControllerInvariant'
<1> USE DEF ControllerInvariant
<1>1. /\ pc[t] = "load" /\ pc' = [pc EXCEPT ![t] = IF canceled THEN "test" ELSE "idle"]
      /\ UNCHANGED <<callVars, canceled, callback, buffer, op, ops, histVars, races>>
  BY DEF NotifyLoads, Goto
<1>2. op[t] = "notify" /\ t \in Users /\ Users = {t}
  BY <1>1, OneUser DEF StepInv
<1>3. /\ \A s \in Threads : Sees(s)' = Sees(s)
      /\ \A s \in Threads : s # t => pc'[s] = pc[s]
      /\ pc'[t] = (IF canceled THEN "test" ELSE "idle") /\ \A a, b : Met(a, b)' <=> Met(a, b)
  BY <1>1 DEF Sees, TypeOK, Met
<1>4. /\ Cancelling' = Cancelling
      /\ \A s \in Threads : s # t => (Notifying(s)' <=> Notifying(s))
      /\ Notifying(t) /\ (Notifying(t)' <=> canceled)
  BY <1>1, <1>2, <1>3 DEF Cancelling, Notifying
<1>5. TypeOK'
  BY <1>1 DEF TypeOK, histVars, callVars
<1>6. StepInv' /\ StoresInv' /\ FailedInv'
  BY <1>1, <1>2, <1>3, <1>4 DEF StepInv, StoresInv, FailedInv, histVars, callVars
<1>7. ResetInv'
  BY <1>1, <1>2, <1>3, <1>4 DEF ResetInv, Crashed, histVars
<1>8. CountInv'
  <2>1. \A c \in Callbacks : Own(c) => Own(c)'
    BY <1>1, <1>2, <1>3, <1>4 DEF Own, histVars
  <2>2. /\ Cardinality(Cancelling) \in Nat /\ cancels \in Nat
        /\ \A c \in Callbacks : runs[c] \in Nat
    BY FS_CardinalityType DEF CountInv, TypeOK
  <2>. QED  BY <1>1, <1>4, <2>1, <2>2 DEF CountInv, histVars
<1>9. MeetInv'
  BY <1>1, <1>2, <1>3, <1>4 DEF MeetInv, CountInv, histVars
<1>. QED  BY <1>5, <1>6, <1>7, <1>8, <1>9

\* A thread leaves StartCancel without a run only where it found no callback,
\* and then the user has none either (mprpc_controller.cc:41 and 57).
LEMMA TestsKeeps ==
  ASSUME ControllerInvariant, NEW t \in Threads, Tests(t)
  PROVE  ControllerInvariant'
<1> USE DEF ControllerInvariant
<1>1. /\ pc[t] = "test" /\ pc' = [pc EXCEPT ![t] = IF Sees(t) = Null THEN "idle" ELSE "run"]
      /\ UNCHANGED <<callVars, canceled, callback, buffer, op, ops, histVars, races>>
  BY DEF Tests, Goto
<1>2. /\ \A s \in Threads : Sees(s)' = Sees(s)
      /\ \A s \in Threads : s # t => pc'[s] = pc[s]
      /\ pc'[t] = (IF Sees(t) = Null THEN "idle" ELSE "run")
      /\ \A a, b : Met(a, b)' <=> Met(a, b)
  BY <1>1 DEF Sees, TypeOK, Met
<1>3. Notifying(t) => Sees(t) # Null
  BY DEF StepInv
<1>4. /\ Cancelling' \subseteq Cancelling
      /\ Cancelling' # Cancelling => t \in Cancelling /\ Sees(t) = Null
      /\ \A s \in Threads : Notifying(s)' <=> Notifying(s)
  BY <1>1, <1>2, <1>3 DEF Cancelling, Notifying
<1>5. TypeOK'
  BY <1>1 DEF TypeOK, histVars, callVars
<1>6. StepInv' /\ StoresInv' /\ FailedInv'
  BY <1>1, <1>2, <1>4 DEF StepInv, StoresInv, FailedInv, histVars, callVars
<1>7. ResetInv'
  BY <1>1, <1>2, <1>4 DEF ResetInv, Crashed, histVars
<1>8. /\ IsFiniteSet(Cancelling') /\ Cardinality(Cancelling') <= Cardinality(Cancelling)
      /\ Cardinality(Cancelling') \in Nat /\ Cardinality(Cancelling) \in Nat
      /\ cancels \in Nat /\ \A c \in Callbacks : runs[c] \in Nat
  BY <1>4, FS_Subset, FS_CardinalityType DEF CountInv, TypeOK
<1>9. CountInv'
  <2>1. \A c \in Callbacks : Own(c)' <=> Own(c)
    BY <1>1, <1>2, <1>4, OneUser DEF Own, histVars
  <2>. QED  BY <1>1, <1>8, <2>1 DEF CountInv, histVars
<1>10. MeetInv'
  <2>1. SUFFICES ASSUME ~Met("cancel", "notify") PROVE MeetInv'
    BY <1>2 DEF MeetInv
  <2>2. \A c \in Callbacks : runs[c] + Cardinality(Cancelling') <= cancels
    BY <1>8, <2>1 DEF MeetInv
  <2>3. \A u \in Users : Sees(u) # Null => Cancelling' = Cancelling
    BY <1>4, <2>1, CancelerSees
  <2>4. ASSUME NEW u \in Users PROVE Notifying(u)' => pc[u] # "load" \/ u # t
    BY <1>1
  <2>5. ASSUME NEW u \in Users, Notifying(u)
        PROVE  runs[Sees(u)] = 0 /\ (pc'[u] # "load" => cancels > 0)
    <3>1. pc'[u] # "load" => pc[u] # "load"
      BY <1>1, <1>2, OneUser
    <3>. QED  BY <2>1, <2>5, <3>1 DEF MeetInv
  <2>. QED  BY <1>1, <1>2, <1>4, <2>1, <2>2, <2>3, <2>5, OneUser DEF MeetInv, histVars
<1>. QED  BY <1>5, <1>6, <1>7, <1>9, <1>10

\* Whoever runs a callback has a cancel to pay for it, or is the callback's
\* own NotifyOnCancel (mprpc_controller.cc:42 and 58).
LEMMA RunsKeeps ==
  ASSUME ControllerInvariant, NEW t \in Threads, Runs(t)
  PROVE  ControllerInvariant'
<1> USE DEF ControllerInvariant
<1>1. PICK c \in Callbacks : c = Sees(t)
  BY WhatIsSeen DEF Runs, TypeOK
<1>2. /\ pc[t] = "run" /\ c # Null /\ pc' = [pc EXCEPT ![t] = "idle"]
      /\ runs' = [runs EXCEPT ![c] = @ + 1]
      /\ late' = late \union ({c} \intersect retired)
      /\ UNCHANGED <<callVars, canceled, callback, buffer, op, ops, registered, retired,
                     cancels, races>>
  BY <1>1 DEF Runs, Goto
<1>3. /\ \A s \in Threads : Sees(s)' = Sees(s)
      /\ \A s \in Threads : s # t => pc'[s] = pc[s]
      /\ pc'[t] = "idle" /\ \A a, b : Met(a, b)' <=> Met(a, b)
      /\ runs'[c] = runs[c] + 1 /\ \A d \in Callbacks : d # c => runs'[d] = runs[d]
  BY <1>2 DEF Sees, TypeOK, Met
<1>4. c \in registered /\ (t \in Users => c \notin retired)
      /\ (t \notin Users => c = callback)
      /\ (op[t] = "cancel" \/ (op[t] = "notify" /\ t \in Users))
  BY <1>1, <1>2, WhatIsSeen DEF StepInv
<1>5. /\ Cancelling' = Cancelling \ {t}
      /\ \A s \in Threads : s # t => (Notifying(s)' <=> Notifying(s))
      /\ ~Notifying(t)'
      /\ op[t] = "cancel" => t \in Cancelling /\ ~Notifying(t)
      /\ op[t] = "notify" => t \notin Cancelling /\ Notifying(t)
  BY <1>2, <1>3 DEF Cancelling, Notifying
<1>6. TypeOK'
  <2>1. runs' \in [Callbacks -> Nat]
    BY <1>2 DEF TypeOK
  <2>2. pc' \in [Threads -> {"idle", "reset", "clear", "load", "test", "run", "crashed"}]
    BY <1>2 DEF TypeOK
  <2>. QED  BY <1>2, <2>1, <2>2 DEF TypeOK, callVars
<1>7. StepInv' /\ StoresInv' /\ FailedInv'
  BY <1>2, <1>3, <1>5 DEF StepInv, StoresInv, FailedInv, callVars
<1>8. ResetInv'
  <2>1. SUFFICES ASSUME ~Met("cancel", "reset") PROVE ResetInv'
    BY <1>3 DEF ResetInv
  <2>2. c \notin retired
    <3>1. CASE t \in Users
      BY <1>4, <3>1
    <3>2. CASE t \notin Users
      <4>1. PICK u \in Users : TRUE
        BY ControllerAssumption
      <4>2. t \in Cancelling \ {u}
        BY <1>4, <1>5, <3>2
      <4>3. Null \notin ToSet(buffer[u])
        BY <2>1, <4>2 DEF ResetInv
      <4>. QED  BY <1>4, <3>2, <4>3 DEF StoresInv
    <3>. QED  BY <3>1, <3>2
  <2>. QED  BY <1>2, <1>3, <1>5, <2>1, <2>2, OneUser DEF ResetInv, Crashed
<1>9. /\ IsFiniteSet(Cancelling) /\ IsFiniteSet(Cancelling')
      /\ Cardinality(Cancelling) \in Nat /\ Cardinality(Cancelling') \in Nat
      /\ op[t] = "cancel" => Cardinality(Cancelling') = Cardinality(Cancelling) - 1
      /\ op[t] = "notify" => Cardinality(Cancelling') = Cardinality(Cancelling)
      /\ cancels \in Nat /\ \A d \in Callbacks : runs[d] \in Nat
  <2>1. IsFiniteSet(Cancelling) /\ IsFiniteSet(Cancelling')
    BY <1>5, FS_RemoveElement DEF CountInv
  <2>2. op[t] = "notify" => Cancelling' = Cancelling
    BY <1>5
  <2>. QED  BY <1>5, <2>1, <2>2, FS_RemoveElement, FS_CardinalityType DEF TypeOK
<1>10. CountInv'
  <2>1. ASSUME NEW d \in Callbacks
        PROVE  runs'[d] + Cardinality(Cancelling') <= cancels + (IF Own(d)' THEN 1 ELSE 0)
    <3>1. runs[d] + Cardinality(Cancelling) <= cancels + (IF Own(d) THEN 1 ELSE 0)
      BY DEF CountInv
    <3>2. CASE op[t] = "cancel"
      <4>1. Own(d)' <=> Own(d)
        BY <1>2, <1>3, <1>5, <3>2, OneUser DEF Own
      <4>. QED  BY <1>3, <1>9, <3>1, <3>2, <4>1
    <3>3. CASE op[t] = "notify"
      <4>1. Users = {t} /\ t \in Users
        BY <1>4, <3>3, OneUser
      <4>2. /\ d # c => (Own(d)' <=> Own(d))
            /\ d = c => Own(d)' /\ ~Own(d)
        BY <1>1, <1>2, <1>3, <1>4, <1>5, <3>3, <4>1 DEF Own
      <4>. QED  BY <1>3, <1>9, <3>1, <3>3, <4>2
    <3>. QED  BY <1>4, <3>2, <3>3
  <2>2. \A d \in Callbacks : d \notin registered => runs'[d] = 0
    BY <1>3, <1>4 DEF CountInv
  <2>. QED  BY <1>2, <1>9, <2>1, <2>2 DEF CountInv
<1>11. MeetInv'
  <2>1. SUFFICES ASSUME ~Met("cancel", "notify") PROVE MeetInv'
    BY <1>3 DEF MeetInv
  <2>2. \A d \in Callbacks : runs[d] + Cardinality(Cancelling) <= cancels
    BY <2>1 DEF MeetInv
  <2>3. CASE op[t] = "cancel"
    <3>1. \A u \in Users : ~Notifying(u) /\ ~Notifying(u)'
      BY <1>5, <2>1, <2>3, OneUser DEF MeetInv
    <3>2. \A u \in Users : Sees(u) # Null => Sees(u) = c
      BY <1>1, <1>5, <2>1, <2>3, CancelerSees
    <3>3. \A d \in Callbacks : runs'[d] + Cardinality(Cancelling') <= cancels
      BY <1>3, <1>9, <2>2, <2>3
    <3>4. \A u \in Users : Sees(u)' # Null => runs'[Sees(u)'] # 0
      BY <1>3, <1>9, <3>2, OneUser
    <3>5. \A u \in Users : Cancelling' \ {u} # {} => ToSet(buffer'[u]) \subseteq {Null}
      BY <1>2, <1>5, <2>1 DEF MeetInv
    <3>. QED  BY <1>2, <3>1, <3>3, <3>4, <3>5 DEF MeetInv
  <2>4. CASE op[t] = "notify"
    <3>1. Users = {t} /\ t \in Users
      BY <1>4, <2>4, OneUser
    <3>2. Cancelling = {} /\ Cancelling' = {} /\ runs[c] = 0 /\ cancels > 0
      BY <1>1, <1>2, <1>5, <2>1, <2>4, <3>1 DEF MeetInv
    <3>3. \A d \in Callbacks : runs'[d] + Cardinality(Cancelling') <= cancels
      BY <1>3, <1>9, <2>2, <3>2, FS_EmptySet
    <3>4. runs'[c] # 0
      BY <1>3, <1>9
    <3>. QED  BY <1>1, <1>2, <1>3, <1>5, <3>1, <3>2, <3>3, <3>4 DEF MeetInv
  <2>. QED  BY <1>4, <2>3, <2>4
<1>. QED  BY <1>6, <1>7, <1>8, <1>10, <1>11

\* A null pointer is called only where a StartCancel met a Reset.
LEMMA RunsNullKeeps ==
  ASSUME ControllerInvariant, NEW t \in Threads, RunsNull(t)
  PROVE  ControllerInvariant'
<1> USE DEF ControllerInvariant
<1>1. /\ pc[t] = "run" /\ Sees(t) = Null /\ pc' = [pc EXCEPT ![t] = "crashed"]
      /\ UNCHANGED <<callVars, canceled, callback, buffer, op, ops, histVars, races>>
  BY DEF RunsNull, Goto
<1>2. t \notin Users /\ op[t] = "cancel"
  BY <1>1 DEF StepInv
<1>3. /\ \A s \in Threads : Sees(s)' = Sees(s)
      /\ \A s \in Threads : s # t => pc'[s] = pc[s]
      /\ pc'[t] = "crashed" /\ \A a, b : Met(a, b)' <=> Met(a, b)
  BY <1>1 DEF Sees, TypeOK, Met
<1>4. /\ Cancelling' = Cancelling \ {t} /\ t \in Cancelling
      /\ \A s \in Threads : Notifying(s)' <=> Notifying(s)
  BY <1>1, <1>2, <1>3 DEF Cancelling, Notifying
<1>5. TypeOK'
  BY <1>1 DEF TypeOK, histVars, callVars
<1>6. StepInv' /\ StoresInv' /\ FailedInv'
  BY <1>1, <1>2, <1>3, <1>4 DEF StepInv, StoresInv, FailedInv, histVars, callVars
<1>7. ResetInv'
  BY <1>1, <1>3 DEF ResetInv
<1>8. /\ IsFiniteSet(Cancelling') /\ Cardinality(Cancelling') <= Cardinality(Cancelling)
      /\ Cardinality(Cancelling') \in Nat /\ Cardinality(Cancelling) \in Nat
      /\ cancels \in Nat /\ \A c \in Callbacks : runs[c] \in Nat
  BY <1>4, FS_Subset, FS_CardinalityType DEF CountInv, TypeOK
<1>9. CountInv'
  <2>1. \A c \in Callbacks : Own(c)' <=> Own(c)
    BY <1>1, <1>3, <1>4, OneUser DEF Own, histVars
  <2>. QED  BY <1>1, <1>8, <2>1 DEF CountInv, histVars
<1>10. MeetInv'
  <2>1. SUFFICES ASSUME ~Met("cancel", "notify") PROVE MeetInv'
    BY <1>3 DEF MeetInv
  <2>2. \A c \in Callbacks : runs[c] + Cardinality(Cancelling') <= cancels
    BY <1>8, <2>1 DEF MeetInv
  <2>3. \A u \in Users : Sees(u) = Null /\ ~Notifying(u)
    BY <1>1, <1>2, <1>4, <2>1, CancelerSees DEF MeetInv
  <2>. QED  BY <1>1, <1>2, <1>3, <1>4, <2>1, <2>2, <2>3, OneUser DEF MeetInv, histVars
<1>. QED  BY <1>5, <1>6, <1>7, <1>9, <1>10

\* A store that drains was behind nothing, and what is behind it moves up.
LEMMA DrainsKeeps ==
  ASSUME ControllerInvariant, NEW t \in Threads, Drains(t)
  PROVE  ControllerInvariant'
<1> USE DEF ControllerInvariant
<1>1. /\ buffer' = [buffer EXCEPT ![t] = Tail(@)]
      /\ UNCHANGED <<callVars, canceled, pc, op, ops, histVars, races>>
  BY DEF Drains
<1>2. t \in Users /\ Users = {t}
  BY OneUser DEF Drains, StepInv
<1>3. /\ buffer'[t] \in Seq(Pointers) /\ Len(buffer[t]) >= 1 /\ Len(buffer[t]) \in Nat
      /\ DOMAIN buffer'[t] = 1 .. Len(buffer[t]) - 1 /\ DOMAIN buffer[t] = 1 .. Len(buffer[t])
      /\ \A i \in 1 .. Len(buffer[t]) - 1 : buffer'[t][i] = buffer[t][i + 1]
      /\ callback' = buffer[t][1]
      /\ ToSet(buffer'[t]) \subseteq ToSet(buffer[t])
      /\ Sees(t)' = Sees(t)
      /\ \A s \in Threads : s # t => buffer'[s] = buffer[s]
  BY DrainIsNotSeen, SeesPointer
<1>4. callback' \in ToSet(buffer[t]) /\ 1 \in DOMAIN buffer[t]
  BY <1>3 DEF ToSet
<1>5. /\ Cancelling' = Cancelling /\ \A a, b : Met(a, b)' <=> Met(a, b)
      /\ \A s \in Threads : Notifying(s)' <=> Notifying(s)
  BY <1>1 DEF Cancelling, Notifying, Met
<1>6. TypeOK'
  <2>1. buffer' \in [Threads -> Seq(Pointers)]
    BY <1>1, <1>3 DEF TypeOK
  <2>2. callback' \in Pointers
    BY <1>2, <1>4 DEF StoresInv, TypeOK, Pointers
  <2>. QED  BY <1>1, <2>1, <2>2 DEF TypeOK, histVars, callVars
<1>7. StepInv'
  <2>1. \A s \in Threads : s # t => s \notin Users /\ buffer'[s] = buffer[s] /\ ~Notifying(s)
    BY <1>2, <1>3 DEF StepInv, Notifying
  <2>. QED  BY <1>1, <1>2, <1>3, <1>5, <2>1 DEF StepInv
<1>8. StoresInv'
  <2>1. ASSUME NEW i \in DOMAIN buffer[t], buffer[t][i] \in retired
        PROVE  \E j \in DOMAIN buffer'[t] : i < j + 1 /\ buffer'[t][j] = Null
    <3>1. PICK j \in DOMAIN buffer[t] : i < j /\ buffer[t][j] = Null
      BY <1>2, <2>1 DEF StoresInv
    <3>2. j \in Nat /\ i \in Nat /\ 1 <= i /\ j <= Len(buffer[t])
      BY <1>3
    <3>3. j - 1 \in 1 .. Len(buffer[t]) - 1 /\ (j - 1) + 1 = j
      BY <1>3, <3>1, <3>2
    <3>4. buffer'[t][j - 1] = Null
      BY <1>3, <3>1, <3>3
    <3>. QED  BY <1>3, <3>1, <3>3, <3>4
  <2>2. callback' \in retired => Null \in ToSet(buffer'[t])
    <3>1. SUFFICES ASSUME callback' \in retired PROVE Null \in ToSet(buffer'[t])
      OBVIOUS
    <3>2. PICK j \in DOMAIN buffer'[t] : buffer'[t][j] = Null
      BY <1>3, <1>4, <2>1, <3>1
    <3>. QED  BY <3>2 DEF ToSet
  <2>3. ASSUME NEW i \in DOMAIN buffer'[t], buffer'[t][i] \in retired
        PROVE  \E j \in DOMAIN buffer'[t] : i < j /\ buffer'[t][j] = Null
    <3>1. i \in Nat /\ i + 1 \in DOMAIN buffer[t] /\ buffer[t][i + 1] \in retired
      BY <1>3, <2>3
    <3>2. PICK j \in DOMAIN buffer'[t] : i + 1 < j + 1 /\ buffer'[t][j] = Null
      BY <2>1, <3>1
    <3>3. j \in Nat
      BY <1>3
    <3>. QED  BY <3>1, <3>2, <3>3
  <2>. QED  BY <1>1, <1>2, <1>3, <1>4, <2>2, <2>3 DEF StoresInv, histVars
<1>9. FailedInv'
  BY <1>1 DEF FailedInv, callVars
<1>10. ResetInv'
  <2>1. SUFFICES ASSUME ~Met("cancel", "reset") PROVE ResetInv'
    BY <1>5 DEF ResetInv
  <2>2. ASSUME NEW s \in Threads, pc[s] = "run" PROVE Sees(s)' # Null
    <3>1. CASE s = t
      BY <1>3, <2>1, <2>2, <3>1 DEF ResetInv
    <3>2. CASE s # t
      <4>1. buffer[s] = <<>> /\ buffer'[s] = <<>> /\ s \in Cancelling \ {t}
        BY <1>2, <1>3, <2>2, <3>2 DEF StepInv, Cancelling
      <4>2. Null \notin ToSet(buffer[t])
        BY <1>2, <2>1, <4>1 DEF ResetInv
      <4>. QED  BY <1>4, <4>1, <4>2 DEF Sees
    <3>. QED  BY <3>1, <3>2
  <2>. QED  BY <1>1, <1>2, <1>3, <1>5, <2>1, <2>2 DEF ResetInv, Crashed, histVars
<1>11. CountInv'
  <2>1. \A c \in Callbacks : Own(c)' <=> Own(c)
    BY <1>1, <1>2, <1>3, <1>5 DEF Own, histVars
  <2>. QED  BY <1>1, <1>5, <2>1 DEF CountInv, histVars
<1>12. MeetInv'
  BY <1>1, <1>2, <1>3, <1>5 DEF MeetInv, histVars
<1>. QED  BY <1>6, <1>7, <1>8, <1>9, <1>10, <1>11, <1>12

-----------------------------------------------------------------------------
(***************************************************************************)
(* The invariant holds in every state, and what follows from it.           *)
(***************************************************************************)

LEMMA InitInv == Init => ControllerInvariant
<1> SUFFICES ASSUME Init PROVE ControllerInvariant
  OBVIOUS
<1>1. \A t \in Threads : buffer[t] = <<>> /\ pc[t] = "idle" /\ op[t] = "none" /\ Sees(t) = Null
  BY DEF Init, Sees
<1>2. /\ Cancelling = {} /\ \A t \in Threads : ~Notifying(t)
      /\ \A t \in Threads : ToSet(buffer[t]) = {}
      /\ IsFiniteSet(Cancelling) /\ Cardinality(Cancelling) = 0
  BY <1>1, FS_EmptySet DEF Cancelling, Notifying, ToSet
<1>3. TypeOK
  <2>1. buffer \in [Threads -> Seq(Pointers)] /\ callback \in Pointers
    BY DEF Init, Pointers
  <2>2. ops \in [Threads -> 0 .. MaxOps] /\ runs \in [Callbacks -> Nat] /\ cancels \in Nat
    BY ControllerAssumption DEF Init
  <2>3. /\ pc \in [Threads -> {"idle", "reset", "clear", "load", "test", "run", "crashed"}]
        /\ op \in [Threads -> {"none", "call", "reset", "cancel", "notify"}]
    BY DEF Init
  <2>. QED  BY <2>1, <2>2, <2>3 DEF Init, TypeOK
<1>4. StepInv /\ StoresInv /\ FailedInv
  <2>1. \A u \in Users : u \in Threads
    BY OneUser
  <2>2. StepInv
    BY <1>1, <1>2 DEF StepInv
  <2>3. StoresInv
    BY <1>1, <1>2, <2>1 DEF Init, StoresInv
  <2>. QED  BY <2>2, <2>3 DEF Init, FailedInv
<1>5. ResetInv
  BY <1>1, <1>2 DEF Init, ResetInv, Crashed
<1>6. CountInv /\ MeetInv
  BY <1>1, <1>2, OneUser DEF Init, CountInv, MeetInv, Own
<1>. QED  BY <1>3, <1>4, <1>5, <1>6 DEF ControllerInvariant

LEMMA StepKeeps == ControllerInvariant /\ [Next]_vars => ControllerInvariant'
<1> SUFFICES ASSUME ControllerInvariant, [Next]_vars PROVE ControllerInvariant'
  OBVIOUS
<1>1. CASE UNCHANGED vars
  <2>1. UNCHANGED <<failed, canceled, callback, buffer, pc, op, ops, registered, retired, late, runs,
                    cancels, outcome, unreset, races>>
    BY <1>1 DEF vars
  <2>2. Cancelling' = Cancelling /\ \A s : Sees(s)' = Sees(s) /\ (Notifying(s)' <=> Notifying(s))
    BY <2>1 DEF Cancelling, Notifying, Sees
  <2>3. \A c : Own(c)' <=> Own(c)
    BY <2>1, <2>2 DEF Own
  <2>4. TypeOK' /\ StepInv' /\ StoresInv' /\ FailedInv'
    BY <2>1, <2>2 DEF ControllerInvariant, TypeOK, StepInv, StoresInv, FailedInv
  <2>5. ResetInv'
    BY <2>1, <2>2 DEF ControllerInvariant, ResetInv, Crashed, Met
  <2>6. CountInv' /\ MeetInv'
    BY <2>1, <2>2, <2>3 DEF ControllerInvariant, CountInv, MeetInv, Met
  <2>. QED  BY <2>4, <2>5, <2>6 DEF ControllerInvariant
<1>2. ASSUME NEW t \in Threads, NEW fails \in BOOLEAN, Call(t, fails) PROVE ControllerInvariant'
  BY <1>2, CallKeeps
<1>3. ASSUME NEW t \in Threads, ResetBegins(t) PROVE ControllerInvariant'
  BY <1>3, ResetBeginsKeeps
<1>4. ASSUME NEW t \in Threads, ResetStores(t) PROVE ControllerInvariant'
  BY <1>4, ResetStoresKeeps
<1>5. ASSUME NEW t \in Threads, ResetClears(t) PROVE ControllerInvariant'
  BY <1>5, ResetClearsKeeps
<1>6. ASSUME NEW t \in Threads, StartCancel(t) PROVE ControllerInvariant'
  BY <1>6, StartCancelKeeps
<1>7. ASSUME NEW t \in Threads, NEW c \in Callbacks, NotifyOnCancel(t, c)
      PROVE  ControllerInvariant'
  BY <1>7, NotifyOnCancelKeeps
<1>8. ASSUME NEW t \in Threads, NotifyLoads(t) PROVE ControllerInvariant'
  BY <1>8, NotifyLoadsKeeps
<1>9. ASSUME NEW t \in Threads, Tests(t) PROVE ControllerInvariant'
  BY <1>9, TestsKeeps
<1>10. ASSUME NEW t \in Threads, Runs(t) PROVE ControllerInvariant'
  BY <1>10, RunsKeeps
<1>11. ASSUME NEW t \in Threads, RunsNull(t) PROVE ControllerInvariant'
  BY <1>11, RunsNullKeeps
<1>12. ASSUME NEW t \in Threads, Drains(t) PROVE ControllerInvariant'
  BY <1>12, DrainsKeeps
<1>. QED  BY <1>1, <1>2, <1>3, <1>4, <1>5, <1>6, <1>7, <1>8, <1>9, <1>10, <1>11, <1>12 DEF Next

\* Every reachable state satisfies the inductive invariant, for any number of
\* canceling threads, of callbacks and of operations.
THEOREM ControllerInvariance == Spec => []ControllerInvariant
<1>1. Init => ControllerInvariant
  BY InitInv
<1>2. ControllerInvariant /\ [Next]_vars => ControllerInvariant'
  BY StepKeeps
<1>. QED  BY <1>1, <1>2, PTL DEF Spec

\* Failed() tells of the last call unless an earlier failure was not reset:
\* CallMethod sets the failure and clears none (mprpc_controller.cc:10-33).
THEOREM FailedTellsOfTheCall == Spec => []FailedIsThisCall
<1>1. ControllerInvariant => FailedIsThisCall
  BY DEF ControllerInvariant, FailedInv, FailedIsThisCall
<1>. QED  BY <1>1, ControllerInvariance, PTL

\* A Reset that no StartCancel met leaves nothing behind that can run, and no
\* null pointer is called (mprpc_controller.cc:10-17 and 38-43).
THEOREM ResetForgets == Spec => []ResetIsClean
<1>1. ControllerInvariant => ResetIsClean
  BY DEF ControllerInvariant, ResetInv, ResetIsClean, Met
<1>. QED  BY <1>1, ControllerInvariance, PTL

\* A callback runs once per StartCancel, and once more only where StartCancel
\* and NotifyOnCancel met (mprpc_controller.cc:38-59).
THEOREM RunsArePaidFor == Spec => []TwiceNeedsRace
<1>1. ControllerInvariant => TwiceNeedsRace
  <2> SUFFICES ASSUME ControllerInvariant, NEW c \in Callbacks
               PROVE  runs[c] <= cancels + 1 /\ (runs[c] > cancels => Met("cancel", "notify"))
    BY DEF TwiceNeedsRace, Met
  <2>1. Cardinality(Cancelling) \in Nat /\ cancels \in Nat /\ runs[c] \in Nat
    BY FS_CardinalityType DEF ControllerInvariant, CountInv, TypeOK
  <2>2. runs[c] + Cardinality(Cancelling) <= cancels + 1
    <3>1. runs[c] + Cardinality(Cancelling) <= cancels + (IF Own(c) THEN 1 ELSE 0)
      BY DEF ControllerInvariant, CountInv
    <3>. QED  BY <2>1, <3>1
  <2>3. ~Met("cancel", "notify") => runs[c] + Cardinality(Cancelling) <= cancels
    BY DEF ControllerInvariant, MeetInv
  <2>. QED  BY <2>1, <2>2, <2>3
<1>. QED  BY <1>1, ControllerInvariance, PTL

\* At rest the callback of a canceled controller has run, unless StartCancel
\* and NotifyOnCancel met (mprpc_controller.cc:38-59).
THEOREM CancelIsNoticed == Spec => []LostNeedsRace
<1>1. ControllerInvariant => LostNeedsRace
  <2> SUFFICES ASSUME ControllerInvariant, Quiet, canceled, callback # Null, runs[callback] = 0,
                      ~Met("cancel", "notify")
               PROVE  FALSE
    BY DEF LostNeedsRace, Met
  <2>1. PICK u \in Users : Users = {u} /\ u \in Threads
    BY ControllerAssumption, OneUser
  <2>2. Sees(u) = callback /\ ~Notifying(u) /\ Cancelling = {}
    BY <2>1 DEF Quiet, Sees, Notifying, Cancelling
  <2>. QED  BY <2>1, <2>2 DEF ControllerInvariant, MeetInv
<1>. QED  BY <1>1, ControllerInvariance, PTL

=============================================================================
