--------------------------- MODULE ConfigFileProofs ---------------------------
(***************************************************************************)
(* Proofs about ConfigFile, for any text and any length of fgets' buffer:  *)
(* LoadConfigFile makes of a text what its lines say.                      *)
(*                                                                         *)
(* The library's theorems of induction take an operator, which the provers *)
(* cannot instantiate.  Upward is the induction used here: it takes a set. *)
(***************************************************************************)
EXTENDS ConfigFile, SequenceTheorems, WellFoundedInduction, TLAPS

-----------------------------------------------------------------------------
(***************************************************************************)
(* Numbers.                                                                *)
(***************************************************************************)

\* Natural numbers have a least one.
LEMMA MinIsLeast ==
  ASSUME NEW S, S \subseteq Nat, S # {}
  PROVE  Min(S) \in S /\ \A y \in S : Min(S) <= y
<1> DEFINE less == OpToRel(<, Nat)
<1>1. \A x, y \in Nat : x < y => <<x, y>> \in less
  BY DEF OpToRel
<1>2. IsWellFoundedOn(less, Nat)
  BY NatLessThanWellFounded
<1> HIDE DEF less
<1>3. PICK x \in S : \A y \in S : ~ (<<y, x>> \in less)
  BY <1>2, WFMin
<1>4. \A y \in S : x <= y
  <2>1. SUFFICES ASSUME NEW y \in S PROVE ~(y < x)
    OBVIOUS
  <2>. QED  BY <1>1, <1>3
<1>. QED  BY <1>4 DEF Min

LEMMA MinIs ==
  ASSUME NEW S, S \subseteq Nat, NEW k \in S, \A i \in S : k <= i
  PROVE  Min(S) = k
<1>1. Min(S) \in S /\ \A y \in S : Min(S) <= y
  BY MinIsLeast
<1>2. Min(S) \in Nat /\ k \in Nat /\ Min(S) <= k /\ k <= Min(S)
  BY <1>1
<1>. QED  BY <1>2

LEMMA MaxIs ==
  ASSUME NEW S, S \subseteq Nat, NEW k \in S, \A i \in S : i <= k
  PROVE  Max(S) = k
<1>1. Max(S) \in S /\ \A y \in S : Max(S) >= y
  BY DEF Max
<1>2. Max(S) \in Nat /\ k \in Nat /\ Max(S) <= k /\ k <= Max(S)
  BY <1>1
<1>. QED  BY <1>2

\* Numbers up to a bound have a greatest one.
LEMMA MaxIsGreatest ==
  ASSUME NEW N \in Nat, NEW S, S \subseteq 0 .. N, S # {}
  PROVE  Max(S) \in S /\ \A y \in S : y <= Max(S)
<1> DEFINE mirror == { N - i : i \in S }
<1>1. mirror \subseteq Nat /\ mirror # {}
  <2>1. \A i \in S : i \in 0 .. N /\ N - i \in Nat
    OBVIOUS
  <2>. QED  BY <2>1
<1>2. PICK k \in S : N - k = Min(mirror)
  BY <1>1, MinIsLeast
<1>3. \A i \in S : N - k <= N - i
  BY <1>1, <1>2, MinIsLeast
<1>4. S \subseteq Nat /\ \A i \in S : i <= k
  BY <1>3
<1> HIDE DEF mirror
<1>5. Max(S) = k
  BY <1>4, MaxIs
<1>. QED  BY <1>4, <1>5

\* Induction: what holds of a number if it holds of those below holds of all.
LEMMA Upward ==
  ASSUME NEW N \in Nat, NEW S, \A n \in 0 .. N : (\A m \in 0 .. n - 1 : m \in S) => n \in S
  PROVE  \A n \in 0 .. N : n \in S
<1> DEFINE others == { n \in 0 .. N : n \notin S }
<1>1. SUFFICES ASSUME others # {} PROVE FALSE
  OBVIOUS
<1>2. PICK n \in others : \A m \in others : n <= m
  <2>1. others \subseteq Nat
    OBVIOUS
  <2>. QED  BY <1>1, <2>1, MinIsLeast
<1>3. \A m \in 0 .. n - 1 : m \in S
  BY <1>2
<1>. QED  BY <1>2, <1>3

-----------------------------------------------------------------------------
(***************************************************************************)
(* Folds.                                                                  *)
(***************************************************************************)

\* The function by which FoldLeft is defined exists: iter[T] is the fold of
\* the elements whose places are in T.
Iterates(iter, G, base, s, N) ==
  iter = [T \in SUBSET (1 .. N) |->
            IF T = {} THEN base ELSE G[<<iter[T \ {Max(T)}], s[Max(T)]>>]]

LEMMA FoldExists ==
  ASSUME NEW A, NEW B, NEW base \in A, NEW G \in [A \X B -> A], NEW s \in Seq(B)
  PROVE  \E iter \in [SUBSET (1 .. Len(s)) -> A] : Iterates(iter, G, base, s, Len(s))
<1> DEFINE Good(n) == \E iter \in [SUBSET (1 .. n) -> A] : Iterates(iter, G, base, s, n)
           S == { n \in 0 .. Len(s) : Good(n) }
<1>1. Len(s) \in Nat
  BY LenProperties
<1>2. ASSUME NEW n \in 0 .. Len(s), \A m \in 0 .. n - 1 : m \in S
      PROVE  Good(n)
  <2>1. CASE n = 0
    <3> DEFINE iter == [T \in SUBSET (1 .. n) |-> base]
    <3>1. \A T \in SUBSET (1 .. n) : T = {}
      BY <2>1
    <3>2. Iterates(iter, G, base, s, n)
      BY <3>1 DEF Iterates
    <3>. QED  BY <3>2
  <2>2. CASE n > 0
    <3>1. n - 1 \in 0 .. n - 1 /\ n \in 1 .. Len(s)
      BY <2>2
    <3>2. PICK old \in [SUBSET (1 .. n - 1) -> A] : Iterates(old, G, base, s, n - 1)
      BY <1>2, <3>1
    <3> DEFINE iter == [T \in SUBSET (1 .. n) |->
                          IF n \in T THEN G[<<old[T \ {n}], s[n]>>] ELSE old[T]]
    <3>3. \A T \in SUBSET (1 .. n) : T \ {n} \in SUBSET (1 .. n - 1)
      OBVIOUS
    <3>4. \A T \in SUBSET (1 .. n - 1) : T \in SUBSET (1 .. n) /\ n \notin T /\ iter[T] = old[T]
      BY <3>1
    <3>5. iter \in [SUBSET (1 .. n) -> A]
      <4>1. s[n] \in B
        BY <3>1, ElementOfSeq
      <4>. QED  BY <3>3, <4>1
    <3>6. ASSUME NEW T \in SUBSET (1 .. n)
          PROVE  iter[T] = IF T = {} THEN base ELSE G[<<iter[T \ {Max(T)}], s[Max(T)]>>]
      <4>1. CASE n \in T
        <5>1. T \subseteq Nat /\ \A i \in T : i <= n
          OBVIOUS
        <5>2. Max(T) = n
          BY <4>1, <5>1, MaxIs
        <5>. QED  BY <3>3, <3>4, <4>1, <5>2
      <4>2. CASE n \notin T
        <5>1. T \in SUBSET (1 .. n - 1) /\ T \ {Max(T)} \in SUBSET (1 .. n - 1)
          BY <3>3, <4>2
        <5>2. old[T] = IF T = {} THEN base ELSE G[<<old[T \ {Max(T)}], s[Max(T)]>>]
          BY <3>2, <5>1 DEF Iterates
        <5>. QED  BY <3>4, <5>1, <5>2
      <4>. QED  BY <4>1, <4>2
    <3> HIDE DEF iter
    <3>7. Iterates(iter, G, base, s, n)
      BY <3>5, <3>6 DEF Iterates
    <3>. QED  BY <3>5, <3>7
  <2>3. n \in Nat
    OBVIOUS
  <2> HIDE DEF Good
  <2>. QED  BY <2>1, <2>2, <2>3
<1> HIDE DEF Good
<1>3. \A n \in 0 .. Len(s) : (\A m \in 0 .. n - 1 : m \in S) => n \in S
  BY <1>2
<1>4. \A n \in 0 .. Len(s) : n \in S
  <2> HIDE DEF S
  <2>. QED  BY <1>1, <1>3, Upward
<1>5. Good(Len(s))
  BY <1>1, <1>4
<1>. QED  BY <1>5 DEF Good

\* The greatest element of a set of places is a place.
LEMMA LastPlace ==
  ASSUME NEW N \in Nat, NEW T \in SUBSET (1 .. N), T # {}
  PROVE  Max(T) \in 1 .. N /\ T \ {Max(T)} \in SUBSET (1 .. N)
<1>1. T \subseteq 0 .. N
  OBVIOUS
<1>2. Max(T) \in T
  BY <1>1, MaxIsGreatest
<1>. QED  BY <1>2

\* The places up to n, less the last of them.
LEMMA PlacesUpTo ==
  ASSUME NEW N \in Nat, NEW n \in 1 .. N
  PROVE  /\ 1 .. n \in SUBSET (1 .. N) /\ 1 .. n # {}
         /\ Max(1 .. n) = n /\ (1 .. n) \ {Max(1 .. n)} = 1 .. n - 1
<1>1. 1 .. n \subseteq Nat /\ n \in 1 .. n /\ \A i \in 1 .. n : i <= n
  OBVIOUS
<1>2. Max(1 .. n) = n
  BY <1>1, MaxIs
<1>. QED  BY <1>1, <1>2

\* A fold runs through its sequence, and each of its results is in A.
Runs(f, A, G, base, s) ==
  /\ f \in [0 .. Len(s) -> A] /\ f[0] = base
  /\ \A n \in 1 .. Len(s) : f[n] = G[<<f[n - 1], s[n]>>]

RunsTo(result, A, G, base, s) ==
  \E f : Runs(f, A, G, base, s) /\ f[Len(s)] = result

\* Of the function by which FoldLeft is defined only these values count.
Climbs(iter, A, G, base, s) ==
  /\ iter[{}] = base
  /\ \A n \in 1 .. Len(s) :
       iter[1 .. n - 1] \in A => iter[1 .. n] = G[<<iter[1 .. n - 1], s[n]>>]

LEMMA FoldRuns ==
  ASSUME NEW A, NEW B, NEW base \in A, NEW G \in [A \X B -> A], NEW s \in Seq(B),
         NEW iter, Climbs(iter, A, G, base, s)
  PROVE  RunsTo(iter[1 .. Len(s)], A, G, base, s)
<1> DEFINE S == { n \in 0 .. Len(s) : iter[1 .. n] \in A }
           f == [n \in 0 .. Len(s) |-> iter[1 .. n]]
<1>1. Len(s) \in Nat /\ iter[1 .. 0] = base
  <2>1. 1 .. 0 = {}
    OBVIOUS
  <2>. QED  BY <2>1, LenProperties DEF Climbs
<1>2. ASSUME NEW n \in 0 .. Len(s), \A m \in 0 .. n - 1 : m \in S
      PROVE  n \in S
  <2>1. CASE n = 0
    BY <1>1, <2>1
  <2>2. CASE n # 0
    <3>1. n \in 1 .. Len(s) /\ n - 1 \in 0 .. n - 1
      BY <1>1, <2>2
    <3>2. iter[1 .. n - 1] \in A /\ s[n] \in B
      BY <1>2, <3>1, ElementOfSeq
    <3>. QED  BY <3>1, <3>2 DEF Climbs
  <2>. QED  BY <2>1, <2>2
<1>3. \A n \in 0 .. Len(s) : n \in S
  <2> HIDE DEF S
  <2>. QED  BY <1>1, <1>2, Upward
<1>4. f \in [0 .. Len(s) -> A] /\ f[0] = base /\ f[Len(s)] = iter[1 .. Len(s)]
  BY <1>1, <1>3
<1>5. ASSUME NEW n \in 1 .. Len(s) PROVE f[n] = G[<<f[n - 1], s[n]>>]
  <2>1. n \in 0 .. Len(s) /\ n - 1 \in 0 .. Len(s)
    BY <1>1
  <2>2. iter[1 .. n - 1] \in A
    BY <1>3, <2>1
  <2>. QED  BY <2>1, <2>2 DEF Climbs
<1> HIDE DEF f
<1>6. Runs(f, A, G, base, s)
  BY <1>4, <1>5 DEF Runs
<1>. QED  BY <1>4, <1>6 DEF RunsTo

-----------------------------------------------------------------------------
(***************************************************************************)
(* Parts of a text s, from x to y, named by their places in s; y = x - 1   *)
(* is the empty one.                                                       *)
(***************************************************************************)

LEMMA PartIs ==
  ASSUME NEW C, NEW s \in Seq(C), NEW x \in 1 .. Len(s) + 1, NEW y \in x - 1 .. Len(s)
  PROVE  /\ SubSeq(s, x, y) \in Seq(C) /\ Len(SubSeq(s, x, y)) = y - x + 1
         /\ DOMAIN SubSeq(s, x, y) = 1 .. y - x + 1
         /\ \A i \in 1 .. y - x + 1 : SubSeq(s, x, y)[i] = s[x + i - 1]
         /\ \A i \in x .. y : SubSeq(s, x, y)[i - x + 1] = s[i]
<1>1. Len(s) \in Nat /\ x \in Int /\ y \in Int
  BY LenProperties
<1>2. \A i \in x .. y : i \in 1 .. Len(s)
  BY <1>1
<1>3. \A i \in x .. y : s[i] \in C
  BY <1>2, ElementOfSeq
<1>4. /\ SubSeq(s, x, y) \in Seq(C)
      /\ Len(SubSeq(s, x, y)) = IF x <= y THEN y - x + 1 ELSE 0
      /\ \A i \in 1 .. y - x + 1 : SubSeq(s, x, y)[i] = s[x + i - 1]
  BY <1>1, <1>3, SubSeqProperties
<1>5. Len(SubSeq(s, x, y)) = y - x + 1
  BY <1>1, <1>4
<1>6. DOMAIN SubSeq(s, x, y) = 1 .. y - x + 1
  BY <1>4, <1>5, LenProperties
<1>7. \A i \in x .. y : i - x + 1 \in 1 .. y - x + 1 /\ x + (i - x + 1) - 1 = i
  BY <1>1
<1>8. \A i \in x .. y : SubSeq(s, x, y)[i - x + 1] = s[i]
  BY <1>4, <1>7
<1>. QED  BY <1>4, <1>5, <1>6, <1>8

LEMMA PartOfPart ==
  ASSUME NEW C, NEW s \in Seq(C), NEW x \in 1 .. Len(s) + 1, NEW y \in x - 1 .. Len(s),
         NEW a \in x .. y + 1, NEW b \in a - 1 .. y
  PROVE  SubSeq(SubSeq(s, x, y), a - x + 1, b - x + 1) = SubSeq(s, a, b)
<1> DEFINE p == SubSeq(s, x, y)
<1>1. Len(s) \in Nat /\ x \in Int /\ y \in Int /\ a \in Int /\ b \in Int
  BY LenProperties
<1>2. p \in Seq(C) /\ Len(p) = y - x + 1 /\ \A i \in x .. y : p[i - x + 1] = s[i]
  BY PartIs
<1> HIDE DEF p
<1>3. /\ a - x + 1 \in 1 .. Len(p) + 1 /\ b - x + 1 \in (a - x + 1) - 1 .. Len(p)
      /\ a \in 1 .. Len(s) + 1 /\ b \in a - 1 .. Len(s)
  BY <1>1, <1>2
<1>4. /\ SubSeq(p, a - x + 1, b - x + 1) \in Seq(C)
      /\ Len(SubSeq(p, a - x + 1, b - x + 1)) = (b - x + 1) - (a - x + 1) + 1
      /\ \A i \in 1 .. (b - x + 1) - (a - x + 1) + 1 :
           SubSeq(p, a - x + 1, b - x + 1)[i] = p[(a - x + 1) + i - 1]
  BY <1>2, <1>3, PartIs
<1>5. /\ SubSeq(s, a, b) \in Seq(C) /\ Len(SubSeq(s, a, b)) = b - a + 1
      /\ \A i \in 1 .. b - a + 1 : SubSeq(s, a, b)[i] = s[a + i - 1]
  BY <1>3, PartIs
<1>6. (b - x + 1) - (a - x + 1) + 1 = b - a + 1
  BY <1>1
<1>7. ASSUME NEW i \in 1 .. b - a + 1
      PROVE  SubSeq(p, a - x + 1, b - x + 1)[i] = SubSeq(s, a, b)[i]
  <2>1. a + i - 1 \in x .. y /\ (a + i - 1) - x + 1 = (a - x + 1) + i - 1
    BY <1>1
  <2>2. p[(a - x + 1) + i - 1] = s[a + i - 1]
    BY <1>2, <2>1
  <2>. QED  BY <1>4, <1>5, <1>6, <2>2
<1>8. SubSeq(p, a - x + 1, b - x + 1) = SubSeq(s, a, b)
  BY <1>4, <1>5, <1>6, <1>7, SeqEqual
<1>. QED  BY <1>8 DEF p

\* Find finds the first place.
LEMMA FindIs ==
  ASSUME NEW C, NEW s \in Seq(C), NEW c, NEW k \in 1 .. Len(s),
         s[k] = c, \A i \in 1 .. k - 1 : s[i] # c
  PROVE  Find(s, c) = k
<1> DEFINE places == { i \in 1 .. Len(s) : s[i] = c }
<1>1. places \subseteq Nat /\ k \in places /\ \A i \in places : k <= i
  OBVIOUS
<1>2. Min(places) = k
  BY <1>1, MinIs
<1>. QED  BY <1>1, <1>2 DEF Find, SelectInSeq

FirstIs(s, x, y, c, k) == k \in x .. y /\ s[k] = c /\ \A i \in x .. k - 1 : s[i] # c

LEMMA FindInPart ==
  ASSUME NEW C, NEW s \in Seq(C), NEW x \in 1 .. Len(s) + 1, NEW y \in x - 1 .. Len(s),
         NEW c, NEW k \in x .. y, FirstIs(s, x, y, c, k)
  PROVE  Find(SubSeq(s, x, y), c) = k - x + 1
<1> DEFINE p == SubSeq(s, x, y)
<1>1. /\ p \in Seq(C) /\ Len(p) = y - x + 1
      /\ \A i \in 1 .. y - x + 1 : p[i] = s[x + i - 1]
  BY PartIs
<1> HIDE DEF p
<1>2. x \in Int /\ y \in Int /\ k \in Int
  BY LenProperties
<1>3. k - x + 1 \in 1 .. Len(p) /\ k - x + 1 \in 1 .. y - x + 1 /\ x + (k - x + 1) - 1 = k
  BY <1>1, <1>2
<1>4. p[k - x + 1] = c
  BY <1>1, <1>3 DEF FirstIs
<1>5. ASSUME NEW i \in 1 .. (k - x + 1) - 1 PROVE p[i] # c
  <2>1. i \in 1 .. y - x + 1 /\ x + i - 1 \in x .. k - 1
    BY <1>2
  <2>. QED  BY <1>1, <2>1 DEF FirstIs
<1>6. Find(p, c) = k - x + 1
  BY <1>1, <1>3, <1>4, <1>5, FindIs
<1>. QED  BY <1>6 DEF p

LEMMA FindsNone ==
  ASSUME NEW C, NEW s \in Seq(C), NEW x \in 1 .. Len(s) + 1, NEW y \in x - 1 .. Len(s),
         NEW c, \A i \in x .. y : s[i] # c
  PROVE  Find(SubSeq(s, x, y), c) = 0
<1> DEFINE p == SubSeq(s, x, y)
<1>1. Len(p) = y - x + 1 /\ \A i \in 1 .. y - x + 1 : p[i] = s[x + i - 1]
  BY PartIs
<1> HIDE DEF p
<1>2. ASSUME NEW i \in 1 .. Len(p) PROVE p[i] # c
  <2>1. x \in Int /\ y \in Int
    BY LenProperties
  <2>2. i \in 1 .. y - x + 1 /\ x + i - 1 \in x .. y
    BY <1>1, <2>1
  <2>. QED  BY <1>1, <2>2
<1>3. { i \in 1 .. Len(p) : p[i] = c } = {}
  BY <1>2
<1>4. Find(p, c) = 0
  BY <1>3 DEF Find, SelectInSeq
<1>. QED  BY <1>4 DEF p

\* The part of x to y without spaces around it is that of a to b, or none of it
\* is left.
IsSpace(c) == c = " "

Around(s, x, y, a, b) ==
  /\ a \in x .. y /\ b \in a .. y /\ ~IsSpace(s[a]) /\ ~IsSpace(s[b])
  /\ \A i \in x .. a - 1 : IsSpace(s[i])
  /\ \A i \in b + 1 .. y : IsSpace(s[i])

LEMMA TrimIs ==
  ASSUME NEW C, NEW s \in Seq(C), NEW x \in 1 .. Len(s) + 1, NEW y \in x - 1 .. Len(s),
         NEW a \in x .. y, NEW b \in x .. y, Around(s, x, y, a, b)
  PROVE  /\ Trim(SubSeq(s, x, y)) = SubSeq(s, a, b)
         /\ Bare(SubSeq(s, x, y)) = SubSeq(s, a, b)
<1> DEFINE p == SubSeq(s, x, y)
           kept == { i \in DOMAIN p : ~IsSpace(p[i]) }
<1>1. /\ DOMAIN p = 1 .. y - x + 1
      /\ \A i \in 1 .. y - x + 1 : p[i] = s[x + i - 1]
      /\ \A i \in x .. y : p[i - x + 1] = s[i]
  BY PartIs
<1>2. Len(s) \in Nat /\ x \in Int /\ y \in Int
  BY LenProperties
<1>3. a \in x .. y /\ b \in x .. y /\ a \in Int /\ b \in Int /\ a <= b
  BY <1>2 DEF Around
<1>8. SubSeq(p, a - x + 1, b - x + 1) = SubSeq(s, a, b)
  <2>1. a \in x .. y + 1 /\ b \in a - 1 .. y
    BY <1>2, <1>3
  <2>. QED  BY <2>1, PartOfPart
<1> HIDE DEF p
<1>4. a - x + 1 \in kept /\ b - x + 1 \in kept
  <2>1. a - x + 1 \in 1 .. y - x + 1 /\ b - x + 1 \in 1 .. y - x + 1
    BY <1>2, <1>3
  <2>2. p[a - x + 1] = s[a] /\ p[b - x + 1] = s[b]
    BY <1>1, <1>3
  <2>. QED  BY <1>1, <2>1, <2>2 DEF Around
<1>5. ASSUME NEW i \in kept PROVE i \in Nat /\ a - x + 1 <= i /\ i <= b - x + 1
  <2>1. i \in 1 .. y - x + 1 /\ ~IsSpace(s[x + i - 1])
    BY <1>1
  <2>2. ~(x + i - 1 \in x .. a - 1) /\ ~(x + i - 1 \in b + 1 .. y)
    BY <2>1 DEF Around
  <2> DEFINE j == x + i - 1
  <2>3. i \in Nat /\ j \in x .. y /\ j \in Int /\ i = j - x + 1
    BY <1>2, <2>1
  <2> HIDE DEF j
  <2>4. ~(j \in x .. a - 1) /\ ~(j \in b + 1 .. y)
    BY <2>2 DEF j
  <2>5. a <= j /\ j <= b
    BY <1>2, <1>3, <2>3, <2>4
  <2>. QED  BY <1>2, <1>3, <2>3, <2>5
<1> HIDE DEF kept
<1>6. Min(kept) = a - x + 1 /\ Max(kept) = b - x + 1 /\ kept # {}
  BY <1>4, <1>5, MinIs, MaxIs
<1>7. Trim(p) = SubSeq(p, a - x + 1, b - x + 1) /\ Bare(p) = SubSeq(p, a - x + 1, b - x + 1)
  BY <1>6 DEF Trim, Bare, kept, IsSpace
<1>. QED  BY <1>7, <1>8 DEF p

LEMMA TrimsNone ==
  ASSUME NEW C, NEW s \in Seq(C), NEW x \in 1 .. Len(s) + 1, NEW y \in x - 1 .. Len(s),
         \A i \in x .. y : IsSpace(s[i])
  PROVE  Trim(SubSeq(s, x, y)) = SubSeq(s, x, y) /\ Bare(SubSeq(s, x, y)) = <<>>
<1> DEFINE p == SubSeq(s, x, y)
<1>1. DOMAIN p = 1 .. y - x + 1 /\ \A i \in 1 .. y - x + 1 : p[i] = s[x + i - 1]
  BY PartIs
<1> HIDE DEF p
<1>2. ASSUME NEW i \in DOMAIN p PROVE IsSpace(p[i])
  <2>1. Len(s) \in Nat /\ x \in Int /\ y \in Int
    BY LenProperties
  <2>2. i \in 1 .. y - x + 1 /\ x + i - 1 \in x .. y
    BY <1>1, <2>1
  <2>. QED  BY <1>1, <2>2
<1>3. { i \in DOMAIN p : p[i] # " " } = {}
  BY <1>2 DEF IsSpace
<1>4. Trim(p) = p /\ Bare(p) = <<>>
  BY <1>3 DEF Trim, Bare
<1>. QED  BY <1>4 DEF p

\* There is such a part unless all are spaces.
LEMMA AroundExists ==
  ASSUME NEW C, NEW s \in Seq(C), NEW x \in 1 .. Len(s) + 1, NEW y \in x - 1 .. Len(s),
         \E i \in x .. y : ~IsSpace(s[i])
  PROVE  \E a, b \in x .. y : Around(s, x, y, a, b)
<1> DEFINE kept == { i \in x .. y : ~IsSpace(s[i]) }
<1>1. Len(s) \in Nat /\ x \in Nat /\ y \in Nat
  BY LenProperties
<1>2. kept \subseteq Nat /\ kept \subseteq 0 .. y /\ kept # {}
  BY <1>1
<1>3. Min(kept) \in kept /\ \A i \in kept : Min(kept) <= i
  BY <1>2, MinIsLeast
<1>4. Max(kept) \in kept /\ \A i \in kept : i <= Max(kept)
  BY <1>1, <1>2, MaxIsGreatest
<1>5. Around(s, x, y, Min(kept), Max(kept))
  <2>1. PICK a \in x .. y : a = Min(kept)
    BY <1>3
  <2>2. PICK b \in x .. y : b = Max(kept)
    BY <1>4
  <2>3. a \in kept /\ b \in kept /\ \A i \in kept : a <= i /\ i <= b
    BY <1>3, <1>4, <2>1, <2>2
  <2>4. Around(s, x, y, a, b)
    BY <1>1, <2>3 DEF Around
  <2>. QED  BY <2>1, <2>2, <2>4
<1>. QED  BY <1>3, <1>4, <1>5

-----------------------------------------------------------------------------
(***************************************************************************)
(* What the loop makes of a piece, and what the line says of which it is.  *)
(***************************************************************************)

\* Without a '=' neither is a setting.
LEMMA NeedsEquals ==
  ASSUME NEW C, NEW s \in Seq(C), NEW x \in 1 .. Len(s) + 1, NEW y \in x - 1 .. Len(s),
         \A i \in x .. y : s[i] # "="
  PROVE  ~IsPair(SubSeq(s, x, y)) /\ ~IsSetting(SubSeq(s, x, y))
<1> DEFINE eq == "="
           p == SubSeq(s, x, y)
<1>1. Len(s) \in Nat /\ x \in Int /\ y \in Int
  BY LenProperties
<1>2. \A i \in x .. y : s[i] # eq
  OBVIOUS
<1> HIDE DEF eq
<1>3. CASE \A i \in x .. y : IsSpace(s[i])
  <2>1. Trim(p) = p /\ Bare(p) = <<>>
    BY <1>3, TrimsNone
  <2>2. Find(Trim(p), eq) = 0
    BY <1>2, <2>1, FindsNone
  <2>. QED  BY <2>1, <2>2 DEF IsPair, IsSetting, ToSet, eq
<1>4. CASE \E i \in x .. y : ~IsSpace(s[i])
  <2>1. PICK a, b \in x .. y : Around(s, x, y, a, b)
    BY <1>4, AroundExists
  <2>2. Trim(p) = SubSeq(s, a, b) /\ Bare(p) = SubSeq(s, a, b)
    BY <2>1, TrimIs
  <2>3. a \in 1 .. Len(s) + 1 /\ b \in a - 1 .. Len(s) /\ \A i \in a .. b : i \in x .. y
    BY <1>1, <2>1 DEF Around
  <2>4. Find(Trim(p), eq) = 0
    BY <1>2, <2>2, <2>3, FindsNone
  <2>5. eq \notin ToSet(Bare(p))
    <3>1. /\ DOMAIN SubSeq(s, a, b) = 1 .. b - a + 1
          /\ \A i \in 1 .. b - a + 1 : SubSeq(s, a, b)[i] = s[a + i - 1]
      BY <2>3, PartIs
    <3>2. \A i \in 1 .. b - a + 1 : a + i - 1 \in x .. y
      BY <1>1, <2>3
    <3>. QED  BY <1>2, <2>2, <3>1, <3>2 DEF ToSet
  <2>. QED  BY <2>4, <2>5 DEF IsPair, IsSetting, eq
<1>. QED  BY <1>3, <1>4

\* Without the spaces, what is left of a text has no more to lose.
LEMMA BareOfTrim ==
  ASSUME NEW C, NEW s \in Seq(C), NEW x \in 1 .. Len(s) + 1, NEW y \in x - 1 .. Len(s),
         NEW z \in x - 1 .. y, \A i \in z + 1 .. y : IsSpace(s[i])
  PROVE  Bare(Trim(SubSeq(s, x, z))) = Bare(SubSeq(s, x, y))
<1>1. Len(s) \in Nat /\ x \in Int /\ y \in Int /\ z \in Int /\ z \in x - 1 .. Len(s) /\ z <= y
  BY LenProperties
<1>2. CASE \A i \in x .. z : IsSpace(s[i])
  <2>1. Trim(SubSeq(s, x, z)) = SubSeq(s, x, z) /\ Bare(SubSeq(s, x, z)) = <<>>
    BY <1>1, <1>2, TrimsNone
  <2>2. \A i \in x .. y : IsSpace(s[i])
    <3>1. \A i \in x .. y : i \in x .. z \/ i \in z + 1 .. y
      BY <1>1
    <3>. QED  BY <1>2, <3>1
  <2>3. Bare(SubSeq(s, x, y)) = <<>>
    BY <2>2, TrimsNone
  <2>. QED  BY <2>1, <2>3
<1>3. CASE \E i \in x .. z : ~IsSpace(s[i])
  <2>1. PICK a, b \in x .. z : Around(s, x, z, a, b)
    BY <1>1, <1>3, AroundExists
  <2>2. Trim(SubSeq(s, x, z)) = SubSeq(s, a, b)
    BY <1>1, <2>1, TrimIs
  <2>3. a \in 1 .. Len(s) + 1 /\ b \in a - 1 .. Len(s) /\ a <= b /\ a \in Int /\ b \in Int
    BY <1>1, <2>1 DEF Around
  <2>4. Around(s, a, b, a, b)
    BY <2>1, <2>3 DEF Around
  <2>5. Bare(SubSeq(s, a, b)) = SubSeq(s, a, b)
    BY <2>3, <2>4, TrimIs
  <2>6. Around(s, x, y, a, b)
    BY <1>1, <2>1, <2>3 DEF Around
  <2>7. Bare(SubSeq(s, x, y)) = SubSeq(s, a, b)
    BY <2>6, TrimIs
  <2>. QED  BY <2>2, <2>5, <2>7
<1>. QED  BY <1>2, <1>3

IsNewline(c) == c = "\n"
IsEquals(c) == c = "="

\* A piece is a line with its newline, if that was read with it: p to q, of a
\* line from p to e.
IsLine(s, p, e, q) ==
  /\ p \in 1 .. Len(s) /\ e \in p - 1 .. Len(s) /\ q \in p .. Len(s)
  /\ q = e \/ (q = e + 1 /\ IsNewline(s[q]))
  /\ \A i \in p .. e : ~IsNewline(s[i])

\* A line with a '=', at k, is read as what it says (mprpc_config.cc:25-56).
LEMMA SettingIsRead ==
  ASSUME NEW C, NEW s \in Seq(C), NEW p \in 1 .. Len(s), NEW e \in p - 1 .. Len(s),
         NEW q \in p .. Len(s), IsLine(s, p, e, q),
         NEW k \in p .. e, IsEquals(s[k]), \A i \in p .. k - 1 : ~IsEquals(s[i])
  PROVE  LET piece == SubSeq(s, p, q)
             line == SubSeq(s, p, e)
         IN /\ IsPair(piece) = IsSetting(line)
            /\ Key(piece) = KeyOf(line)
            /\ Bare(Value(piece)) = ValueOf(line)
<1> DEFINE piece == SubSeq(s, p, q)
           line == SubSeq(s, p, e)
           eq == "="
           nl == "\n"
<1> HIDE DEF eq, nl
<1>1. /\ Len(s) \in Nat /\ p \in Int /\ e \in Int /\ q \in Int /\ k \in Int
      /\ p \in 1 .. Len(s) + 1 /\ e \in p - 1 .. Len(s) /\ q \in p - 1 .. Len(s)
      /\ p <= k /\ k <= e /\ e <= q
  <2>1. Len(s) \in Nat
    BY LenProperties
  <2>. QED  BY <2>1 DEF IsLine
<1>2. ~IsSpace(s[k]) /\ ~IsNewline(s[k])
  <2>1. ~IsSpace(s[k])
    BY DEF IsSpace, IsEquals
  <2>. QED  BY <2>1 DEF IsLine
<1>3. PICK a, b \in p .. e : Around(s, p, e, a, b)
  BY <1>1, <1>2, AroundExists
<1>4. a \in Int /\ b \in Int /\ p <= a /\ a <= k /\ k <= b /\ b <= e
  <2>1. a \in Int /\ b \in Int /\ p <= a /\ b <= e
    BY <1>1
  <2>2. ~(k \in p .. a - 1) /\ ~(k \in b + 1 .. e)
    BY <1>2, <1>3 DEF Around
  <2>. QED  BY <1>1, <2>1, <2>2
<1> DEFINE z == IF q = e THEN b ELSE q
<1>5. Around(s, p, q, a, z) /\ z \in Int /\ b <= z /\ z <= q
  <2>1. CASE q = e
    BY <1>1, <1>3, <1>4, <2>1
  <2>2. CASE q # e
    <3>1. q = e + 1 /\ ~IsSpace(s[q])
      BY <2>2 DEF IsLine, IsNewline, IsSpace
    <3>. QED  BY <1>1, <1>3, <1>4, <2>2, <3>1 DEF Around
  <2>. QED  BY <2>1, <2>2
<1> HIDE DEF z
\* The trimmed line, and the trimmed piece.
<1>6. Trim(piece) = SubSeq(s, a, z) /\ Bare(line) = SubSeq(s, a, b)
  <2>1. Trim(piece) = SubSeq(s, a, z)
    BY <1>1, <1>5, TrimIs
  <2>2. Bare(line) = SubSeq(s, a, b)
    BY <1>1, <1>3, TrimIs
  <2>. QED  BY <2>1, <2>2
<1>7. /\ a \in 1 .. Len(s) + 1 /\ z \in a - 1 .. Len(s) /\ b \in a - 1 .. Len(s)
      /\ k \in a .. z /\ k \in a .. b
  BY <1>1, <1>4, <1>5
<1>8. \A i \in a .. k - 1 : ~IsEquals(s[i])
  BY <1>1, <1>4
<1>9. Find(Trim(piece), eq) = k - a + 1
  <2>1. FirstIs(s, a, z, eq, k)
    BY <1>7, <1>8 DEF IsEquals, FirstIs, eq
  <2>. QED  BY <1>6, <1>7, <2>1, FindInPart
<1>10. Find(line, eq) = k - p + 1
  <2>1. FirstIs(s, p, e, eq, k)
    BY DEF IsEquals, FirstIs, eq
  <2>. QED  BY <1>1, <2>1, FindInPart
<1>11. IsPair(piece) = IsSetting(line)
  <2>1. Trim(piece) # <<>> /\ Trim(piece)[1] = s[a]
    <3>1. Len(SubSeq(s, a, z)) = z - a + 1 /\ SubSeq(s, a, z)[a - a + 1] = s[a]
      <4>1. a \in a .. z
        BY <1>4, <1>5
      <4>. QED  BY <1>7, <4>1, PartIs
    <3>2. z - a + 1 > 0 /\ a - a + 1 = 1
      BY <1>4, <1>5
    <3>3. SubSeq(s, a, z) # <<>>
      <4>1. Len(SubSeq(s, a, z)) # 0
        BY <1>4, <1>5, <3>1
      <4>2. Len(<<>>) = 0
        OBVIOUS
      <4>. QED  BY ONLY <4>1, <4>2
    <3>. QED  BY <1>6, <3>1, <3>2, <3>3
  <2>2. Bare(line)[1] = s[a] /\ eq \in ToSet(Bare(line))
    <3>1. /\ SubSeq(s, a, b)[a - a + 1] = s[a]
          /\ SubSeq(s, a, b)[k - a + 1] = s[k]
          /\ DOMAIN SubSeq(s, a, b) = 1 .. b - a + 1
      <4>1. a \in a .. b
        BY <1>4
      <4>. QED  BY <1>7, <4>1, PartIs
    <3>2. k - a + 1 \in 1 .. b - a + 1 /\ a - a + 1 = 1
      BY <1>4
    <3>3. s[k] \in ToSet(SubSeq(s, a, b))
      BY <3>1, <3>2 DEF ToSet
    <3>. QED  BY <1>6, <3>1, <3>2, <3>3 DEF IsEquals, eq
  <2>3. Find(Trim(piece), eq) # 0
    BY <1>4, <1>9
  <2> HIDE DEF piece, line
  <2>. QED  BY <2>1, <2>2, <2>3, Zenon DEF IsPair, IsSetting, eq
<1>12. Key(piece) = KeyOf(line)
  <2>1. SubSeq(Trim(piece), 1, Find(Trim(piece), eq) - 1) = SubSeq(s, a, k - 1)
    <3>1. SubSeq(SubSeq(s, a, z), a - a + 1, (k - 1) - a + 1) = SubSeq(s, a, k - 1)
      <4>1. a \in a .. z + 1 /\ k - 1 \in a - 1 .. z
        BY <1>4, <1>5
      <4>. QED  BY <1>7, <4>1, PartOfPart
    <3>2. a - a + 1 = 1 /\ (k - 1) - a + 1 = (k - a + 1) - 1
      BY <1>1, <1>4
    <3>. QED  BY <1>6, <1>9, <3>1, <3>2
  <2>2. SubSeq(line, 1, Find(line, eq) - 1) = SubSeq(s, p, k - 1)
    <3>1. SubSeq(SubSeq(s, p, e), p - p + 1, (k - 1) - p + 1) = SubSeq(s, p, k - 1)
      <4>1. p \in p .. e + 1 /\ k - 1 \in p - 1 .. e
        BY <1>1
      <4>. QED  BY <1>1, <4>1, PartOfPart
    <3>2. p - p + 1 = 1 /\ (k - 1) - p + 1 = (k - p + 1) - 1
      BY <1>1
    <3>. QED  BY <1>10, <3>1, <3>2
  <2>3. Trim(SubSeq(s, a, k - 1)) = Bare(SubSeq(s, p, k - 1))
    <3>1. k - 1 \in a - 1 .. Len(s) /\ k - 1 \in p - 1 .. Len(s) /\ \A i \in p .. a - 1 : IsSpace(s[i])
      BY <1>1, <1>3, <1>4 DEF Around
    <3>2. CASE k = a
      <4>1. SubSeq(s, a, k - 1) = <<>>
        BY <1>4, <3>2, SubSeqEmpty
      <4>2. Trim(SubSeq(s, a, k - 1)) = SubSeq(s, a, k - 1)
        <5>1. \A i \in a .. k - 1 : IsSpace(s[i])
          BY <1>1, <1>4, <3>2
        <5>. QED  BY <1>7, <3>1, <5>1, TrimsNone
      <4>3. Bare(SubSeq(s, p, k - 1)) = <<>>
        BY <1>1, <3>1, <3>2, TrimsNone
      <4>. QED  BY <4>1, <4>2, <4>3
    <3>3. CASE k # a
      <4>1. a \in a .. k - 1 /\ ~IsSpace(s[a])
        BY <1>1, <1>3, <1>4, <3>3 DEF Around
      <4>2. PICK x, y \in a .. k - 1 : Around(s, a, k - 1, x, y)
        BY <1>7, <3>1, <4>1, AroundExists
      <4>3. x = a
        <5>1. ~(a \in a .. x - 1) /\ x \in a .. k - 1
          BY <4>1, <4>2 DEF Around
        <5>. QED  BY <1>1, <1>4, <5>1
      <4>4. Trim(SubSeq(s, a, k - 1)) = SubSeq(s, a, y)
        BY <1>7, <3>1, <4>2, <4>3, TrimIs
      <4>5. Around(s, p, k - 1, a, y)
        BY <1>1, <1>4, <3>1, <4>2, <4>3 DEF Around
      <4>6. Bare(SubSeq(s, p, k - 1)) = SubSeq(s, a, y)
        <5>1. a \in p .. k - 1 /\ y \in p .. k - 1
          BY <1>1, <1>4, <3>3
        <5>. QED  BY <1>1, <3>1, <4>5, <5>1, TrimIs
      <4>. QED  BY <4>4, <4>6
    <3>. QED  BY <3>2, <3>3
  <2> HIDE DEF piece, line
  <2>. QED  BY <2>1, <2>2, <2>3 DEF Key, KeyOf, eq
<1>13. Bare(Value(piece)) = ValueOf(line)
  <2> DEFINE v == IF q = e THEN b ELSE e
             found == Find(Trim(piece), nl)
             end == IF found = 0 THEN Len(Trim(piece)) ELSE found - 1
  <2>1. end = v - a + 1
    <3>1. Len(Trim(piece)) = z - a + 1
      BY <1>6, <1>7, PartIs
    <3>2. \A i \in a .. e : s[i] # nl
      BY <1>1, <1>4 DEF IsLine, IsNewline, nl
    <3>3. CASE q = e
      <4>1. z = b /\ \A i \in a .. z : s[i] # nl
        BY <1>1, <1>4, <3>2, <3>3 DEF z
      <4>2. found = 0
        BY <1>6, <1>7, <4>1, FindsNone
      <4>. QED  BY <3>1, <3>3, <4>1, <4>2
    <3>4. CASE q # e
      <4>1. z = q /\ q = e + 1 /\ q \in a .. z /\ FirstIs(s, a, z, nl, q)
        <5>1. z = q /\ q = e + 1 /\ s[q] = nl
          BY <3>4 DEF IsLine, IsNewline, z, nl
        <5>. QED  BY <1>1, <1>4, <3>2, <5>1 DEF FirstIs
      <4>2. found = q - a + 1
        BY <1>6, <1>7, <4>1, FindInPart
      <4>. QED  BY <1>1, <1>4, <3>4, <4>1, <4>2
    <3>. QED  BY <3>3, <3>4
  <2>2. v \in k .. z /\ v \in k .. e /\ v \in Int /\ \A i \in v + 1 .. e : IsSpace(s[i])
    <3>1. \A i \in b + 1 .. e : IsSpace(s[i])
      BY <1>3 DEF Around
    <3>2. v \in {b, e} /\ (q = e \/ q = e + 1) /\ (q # e => z = q)
      BY DEF z, IsLine
    <3>. QED  BY <1>1, <1>4, <1>5, <3>1, <3>2
  <2>3. SubSeq(Trim(piece), Find(Trim(piece), eq) + 1, end) = SubSeq(s, k + 1, v)
    <3>1. SubSeq(SubSeq(s, a, z), (k + 1) - a + 1, v - a + 1) = SubSeq(s, k + 1, v)
      <4>1. k + 1 \in a .. z + 1 /\ v \in (k + 1) - 1 .. z
        BY <1>1, <1>4, <1>5, <2>2
      <4> HIDE DEF v
      <4>. QED  BY <1>7, <4>1, PartOfPart
    <3>2. (k + 1) - a + 1 = (k - a + 1) + 1
      BY <1>1, <1>4
    <3> HIDE DEF end, v
    <3>. QED  BY <1>6, <1>9, <2>1, <3>1, <3>2
  <2>4. SubSeq(line, Find(line, eq) + 1, Len(line)) = SubSeq(s, k + 1, e)
    <3>1. SubSeq(SubSeq(s, p, e), (k + 1) - p + 1, e - p + 1) = SubSeq(s, k + 1, e)
      <4>1. k + 1 \in p .. e + 1 /\ e \in (k + 1) - 1 .. e
        BY <1>1
      <4>. QED  BY <1>1, <4>1, PartOfPart
    <3>2. (k + 1) - p + 1 = (k - p + 1) + 1 /\ Len(line) = e - p + 1
      <4>1. Len(line) = e - p + 1
        BY <1>1, PartIs
      <4>. QED  BY <1>1, <4>1
    <3>. QED  BY <1>10, <3>1, <3>2
  <2>5. Bare(Trim(SubSeq(s, k + 1, v))) = Bare(SubSeq(s, k + 1, e))
    <3>1. k + 1 \in 1 .. Len(s) + 1 /\ e \in (k + 1) - 1 .. Len(s) /\ v \in (k + 1) - 1 .. e
      BY <1>1, <2>2
    <3> HIDE DEF v
    <3>. QED  BY <2>2, <3>1, BareOfTrim
  <2>6. Value(piece) = Trim(SubSeq(Trim(piece), Find(Trim(piece), eq) + 1, end))
    <3> HIDE DEF piece
    <3>. QED  BY DEF Value, eq, nl
  <2> HIDE DEF piece, line, v, end
  <2>. QED  BY <2>3, <2>4, <2>5, <2>6 DEF ValueOf, eq
<1>. QED  BY <1>11, <1>12, <1>13

-----------------------------------------------------------------------------
(***************************************************************************)
(* The pieces of a text.                                                   *)
(***************************************************************************)
Some(C) == Seq(C) \ {<<>>}

LEMMA ReadIsTyped ==
  ASSUME NEW C, NEW ps \in Seq(Some(C)), NEW c \in C
  PROVE  Read(ps, c) \in Seq(Some(C))
<1>1. <<c>> \in Some(C)
  BY DEF Some
<1>2. CASE ps = <<>> \/ Complete(Last(ps))
  <2>1. Append(ps, <<c>>) \in Seq(Some(C))
    BY <1>1
  <2>. QED  BY <1>2, <2>1 DEF Read
<1>3. CASE ~(ps = <<>> \/ Complete(Last(ps)))
  <2>1. Len(ps) \in 1 .. Len(ps)
    BY <1>3, EmptySeq
  <2>2. ps[Len(ps)] \in Seq(C)
    BY <2>1, ElementOfSeq DEF Some
  <2>3. Append(ps[Len(ps)], c) \in Some(C)
    BY <2>2 DEF Some
  <2>4. [ps EXCEPT ![Len(ps)] = Append(ps[Len(ps)], c)] \in Seq(Some(C))
    BY <2>1, <2>3, ExceptSeq
  <2>. QED  BY <1>3, <2>4 DEF Read
<1>. QED  BY <1>2, <1>3

LEMMA PiecesRun ==
  ASSUME NEW C, NEW text \in Seq(C)
  PROVE  \E f \in [0 .. Len(text) -> Seq(Some(C))] :
           /\ f[0] = <<>> /\ f[Len(text)] = Pieces(text)
           /\ \A n \in 1 .. Len(text) : f[n] = Read(f[n - 1], text[n])
<1> DEFINE A == Seq(Some(C))
           G == [x \in A \X C |-> Read(x[1], x[2])]
           N == Len(text)
           Eq(iter) == iter = [T \in SUBSET DOMAIN text |->
                         IF T = {} THEN <<>> ELSE Read(iter[T \ {Max(T)}], text[Max(T)])]
           it == CHOOSE iter : Eq(iter)
<1>1. N \in Nat /\ DOMAIN text = 1 .. N /\ <<>> \in A
  BY LenProperties
<1>2. G \in [A \X C -> A] /\ \A x \in A, c \in C : G[<<x, c>>] = Read(x, c)
  BY ReadIsTyped
<1> HIDE DEF A, G
<1>3. PICK iter \in [SUBSET (1 .. N) -> A] : Iterates(iter, G, <<>>, text, N)
  BY <1>1, <1>2, FoldExists
<1>4. Eq(iter)
  <2>1. ASSUME NEW T \in SUBSET (1 .. N)
        PROVE  iter[T] = IF T = {} THEN <<>> ELSE Read(iter[T \ {Max(T)}], text[Max(T)])
    <3>1. iter[T] = IF T = {} THEN <<>> ELSE G[<<iter[T \ {Max(T)}], text[Max(T)]>>]
      BY <1>3 DEF Iterates
    <3>2. T # {} => iter[T \ {Max(T)}] \in A /\ text[Max(T)] \in C
      BY <1>1, <1>3, LastPlace, ElementOfSeq
    <3>. QED  BY <1>2, <3>1, <3>2
  <2>. QED  BY <1>1, <1>3, <2>1
<1>5. Eq(it)
  <2> HIDE DEF Eq
  <2>. QED  BY <1>4
<1>6. Pieces(text) = it[1 .. N]
  <2>1. Pieces(text) = it[DOMAIN text]
    BY Zenon DEF Pieces, FoldLeft, MapThenFoldSet
  <2>. QED  BY <1>1, <2>1
<1> HIDE DEF it
<1>7. ASSUME NEW n \in 1 .. N PROVE it[1 .. n] = Read(it[1 .. n - 1], text[n])
  <2>1. /\ 1 .. n \in SUBSET DOMAIN text /\ 1 .. n # {}
        /\ Max(1 .. n) = n /\ (1 .. n) \ {Max(1 .. n)} = 1 .. n - 1
    BY <1>1, PlacesUpTo
  <2>2. it[1 .. n] = Read(it[(1 .. n) \ {Max(1 .. n)}], text[Max(1 .. n)])
    BY <1>5, <2>1
  <2>. QED  BY <2>1, <2>2
<1>8. Climbs(it, A, G, <<>>, text)
  <2>1. it[{}] = <<>>
    BY <1>1, <1>5
  <2>. QED  BY <1>2, <1>7, <2>1, ElementOfSeq DEF Climbs
<1>9. RunsTo(it[1 .. N], A, G, <<>>, text)
  BY <1>1, <1>2, <1>8, FoldRuns
<1> HIDE DEF Eq
<1>10. PICK f : Runs(f, A, G, <<>>, text) /\ f[N] = it[1 .. N]
  BY <1>9 DEF RunsTo
<1>11. ASSUME NEW n \in 1 .. N PROVE f[n] = Read(f[n - 1], text[n])
  <2>1. f[n - 1] \in A /\ text[n] \in C
    BY <1>1, <1>10, ElementOfSeq DEF Runs
  <2>. QED  BY <1>2, <1>10, <2>1 DEF Runs
<1>. QED  BY <1>6, <1>10, <1>11 DEF Runs, A

\* The pieces of the first n characters cut them at the places st; each piece
\* but the last is complete, and only there.
CutAt(text, n, ps, st) ==
  /\ st \in [1 .. Len(ps) + 1 -> 1 .. n + 1] /\ st[1] = 1 /\ st[Len(ps) + 1] = n + 1
  /\ \A j \in 1 .. Len(ps) :
       /\ st[j] < st[j + 1] /\ st[j + 1] - st[j] <= LineMax
       /\ ps[j] = SubSeq(text, st[j], st[j + 1] - 1)
       /\ \A i \in st[j] .. st[j + 1] - 2 : ~IsNewline(text[i])
       /\ j < Len(ps) => IsNewline(text[st[j + 1] - 1]) \/ st[j + 1] - st[j] = LineMax

\* A new piece.
LEMMA CutsNew ==
  ASSUME NEW C, NEW text \in Seq(C), NEW n \in 1 .. Len(text), NEW ps \in Seq(Some(C)),
         NEW st, CutAt(text, n - 1, ps, st), ps = <<>> \/ Complete(Last(ps))
  PROVE  \E new : CutAt(text, n, Read(ps, text[n]), new)
<1> DEFINE m == Len(ps)
           more == Append(ps, <<text[n]>>)
           new == [j \in 1 .. m + 2 |-> IF j = m + 2 THEN n + 1 ELSE st[j]]
<1>1. /\ m \in Nat /\ Len(text) \in Nat /\ n \in Nat /\ n >= 1 /\ LineMax \in Nat /\ LineMax >= 1
      /\ text[n] \in C
  BY LenProperties, ElementOfSeq, LineAssumption
<1>2. /\ Len(more) = m + 1 /\ more[m + 1] = <<text[n]>>
      /\ \A j \in 1 .. m : more[j] = ps[j]
  <2>1. <<text[n]>> \in Some(C)
    BY <1>1 DEF Some
  <2>. QED  BY <1>1, <2>1
<1> HIDE DEF more
<1>3. /\ st \in [1 .. m + 1 -> 1 .. n] /\ st[1] = 1 /\ st[m + 1] = n
      /\ \A j \in 1 .. m :
           /\ st[j] < st[j + 1] /\ st[j + 1] - st[j] <= LineMax
           /\ ps[j] = SubSeq(text, st[j], st[j + 1] - 1)
           /\ \A i \in st[j] .. st[j + 1] - 2 : ~IsNewline(text[i])
           /\ j < m => IsNewline(text[st[j + 1] - 1]) \/ st[j + 1] - st[j] = LineMax
  BY <1>1 DEF CutAt
<1>4. m > 0 => IsNewline(text[st[m + 1] - 1]) \/ st[m + 1] - st[m] = LineMax
  <2> SUFFICES ASSUME m > 0 PROVE IsNewline(text[st[m + 1] - 1]) \/ st[m + 1] - st[m] = LineMax
    OBVIOUS
  <2>1. m \in 1 .. m /\ m \in 1 .. m + 1 /\ m + 1 \in 1 .. m + 1
    BY <1>1
  <2>2. st[m] \in 1 .. n /\ st[m] < n /\ ps[m] = SubSeq(text, st[m], n - 1)
    BY <1>3, <2>1
  <2>3. Complete(ps[m])
    <3>1. ps # <<>>
      BY <1>1
    <3>. QED  BY <3>1 DEF Last
  <2>4. Len(ps[m]) = n - st[m] /\ Last(ps[m]) = text[n - 1]
    <3>1. st[m] \in 1 .. Len(text) + 1 /\ n - 1 \in st[m] - 1 .. Len(text) /\ n - 1 \in st[m] .. n - 1
      BY <1>1, <2>2
    <3>2. /\ Len(SubSeq(text, st[m], n - 1)) = (n - 1) - st[m] + 1
          /\ SubSeq(text, st[m], n - 1)[(n - 1) - st[m] + 1] = text[n - 1]
      BY ONLY <3>1, PartIs, text \in Seq(C)
    <3>3. (n - 1) - st[m] + 1 = n - st[m]
      BY <1>1, <2>2
    <3>. QED  BY <2>2, <3>2, <3>3 DEF Last
  <2>. QED  BY <1>3, <2>3, <2>4 DEF Complete, IsNewline
<1>5. /\ new \in [1 .. m + 2 -> 1 .. n + 1] /\ new[1] = 1 /\ new[m + 2] = n + 1
      /\ \A j \in 1 .. m + 1 : new[j] = st[j]
  <2>1. \A j \in 1 .. m + 1 : j \in 1 .. m + 2 /\ j # m + 2 /\ st[j] \in 1 .. n + 1
    BY <1>1, <1>3
  <2>2. 1 \in 1 .. m + 1 /\ m + 2 \in 1 .. m + 2 /\ n + 1 \in 1 .. n + 1
    BY <1>1
  <2>3. \A j \in 1 .. m + 2 : j = m + 2 \/ j \in 1 .. m + 1
    BY <1>1
  <2>. QED  BY <1>3, <2>1, <2>2, <2>3
<1> HIDE DEF new
<1>6. ASSUME NEW j \in 1 .. m + 1
      PROVE  /\ new[j] < new[j + 1] /\ new[j + 1] - new[j] <= LineMax
             /\ more[j] = SubSeq(text, new[j], new[j + 1] - 1)
             /\ \A i \in new[j] .. new[j + 1] - 2 : ~IsNewline(text[i])
             /\ j < m + 1 => IsNewline(text[new[j + 1] - 1]) \/ new[j + 1] - new[j] = LineMax
  <2>1. CASE j = m + 1
    <3>1. new[j] = n /\ new[j + 1] = n + 1
      <4>1. j + 1 = m + 2 /\ m + 1 \in 1 .. m + 1
        BY <1>1, <2>1
      <4>. QED  BY <1>3, <1>5, <2>1, <4>1
    <3>2. SubSeq(text, n, n) = <<text[n]>>
      <4>1. n \in 1 .. Len(text) + 1 /\ n \in n - 1 .. Len(text) /\ n - n + 1 = 1
        BY <1>1
      <4>2. /\ SubSeq(text, n, n) \in Seq(C) /\ Len(SubSeq(text, n, n)) = 1
            /\ \A i \in 1 .. 1 : SubSeq(text, n, n)[i] = text[n + i - 1]
        BY <4>1, PartIs
      <4>3. SubSeq(text, n, n)[1] = text[n]
        BY <1>1, <4>2
      <4>4. <<text[n]>> \in Seq(C) /\ Len(<<text[n]>>) = 1 /\ <<text[n]>>[1] = text[n]
        BY <1>1
      <4>5. \A i \in 1 .. 1 : i = 1
        OBVIOUS
      <4>6. \A i \in 1 .. Len(SubSeq(text, n, n)) : SubSeq(text, n, n)[i] = <<text[n]>>[i]
        BY <4>2, <4>3, <4>4, <4>5
      <4>. QED  BY <4>2, <4>4, <4>6, SeqEqual
    <3>3. n < n + 1 /\ (n + 1) - n = 1 /\ (n + 1) - 1 = n /\ n .. (n + 1) - 2 = {}
      BY <1>1
    <3>4. ~(j < m + 1)
      BY <1>1, <2>1
    <3>. QED  BY <1>1, <1>2, <2>1, <3>1, <3>2, <3>3, <3>4
  <2>2. CASE j # m + 1
    <3>1. j \in 1 .. m /\ j + 1 \in 1 .. m + 1 /\ j \in 1 .. m + 1
      BY <1>1, <2>2
    <3>2. new[j] = st[j] /\ new[j + 1] = st[j + 1] /\ more[j] = ps[j]
      BY <1>2, <1>5, <3>1
    <3>3. IsNewline(text[st[j + 1] - 1]) \/ st[j + 1] - st[j] = LineMax
      <4>1. j = m \/ j < m
        BY <1>1, <3>1
      <4>. QED  BY <1>1, <1>3, <1>4, <3>1, <4>1
    <3>. QED  BY <1>3, <3>1, <3>2, <3>3
  <2>. QED  BY <2>1, <2>2
<1>7. CutAt(text, n, more, new)
  <2>1. m + 1 + 1 = m + 2
    BY <1>1
  <2>. QED  BY <1>2, <1>5, <1>6, <2>1 DEF CutAt
<1>8. Read(ps, text[n]) = more
  BY DEF Read, more
<1>. QED  BY <1>7, <1>8

\* A piece that goes on.
LEMMA CutsOn ==
  ASSUME NEW C, NEW text \in Seq(C), NEW n \in 1 .. Len(text), NEW ps \in Seq(Some(C)),
         NEW st, CutAt(text, n - 1, ps, st), ps # <<>>, ~Complete(Last(ps))
  PROVE  \E new : CutAt(text, n, Read(ps, text[n]), new)
<1> DEFINE m == Len(ps)
           more == [ps EXCEPT ![m] = Append(@, text[n])]
           new == [st EXCEPT ![m + 1] = n + 1]
<1>1. /\ m \in Nat /\ m >= 1 /\ Len(text) \in Nat /\ n \in Nat /\ n >= 1 /\ LineMax \in Nat
      /\ text[n] \in C /\ m \in 1 .. m /\ m \in 1 .. m + 1 /\ m + 1 \in 1 .. m + 1
  BY EmptySeq, LenProperties, ElementOfSeq, LineAssumption
<1>2. /\ st \in [1 .. m + 1 -> 1 .. n] /\ st[1] = 1 /\ st[m + 1] = n
      /\ \A j \in 1 .. m :
           /\ st[j] < st[j + 1] /\ st[j + 1] - st[j] <= LineMax
           /\ ps[j] = SubSeq(text, st[j], st[j + 1] - 1)
           /\ \A i \in st[j] .. st[j + 1] - 2 : ~IsNewline(text[i])
           /\ j < m => IsNewline(text[st[j + 1] - 1]) \/ st[j + 1] - st[j] = LineMax
  BY <1>1 DEF CutAt
<1>3. st[m] \in 1 .. n /\ st[m] < n /\ ps[m] = SubSeq(text, st[m], n - 1) /\ n - st[m] <= LineMax
  BY <1>1, <1>2
<1>4. /\ st[m] \in 1 .. Len(text) + 1 /\ n - 1 \in st[m] - 1 .. Len(text) /\ n - 1 \in st[m] .. n - 1
      /\ n \in st[m] - 1 .. Len(text)
  <2> DEFINE a == st[m]
  <2>1. a \in Nat /\ 1 <= a /\ a <= n - 1 /\ n <= Len(text)
    BY <1>1, <1>3
  <2> HIDE DEF a
  <2>2. a \in 1 .. Len(text) + 1 /\ n - 1 \in a - 1 .. Len(text) /\ n - 1 \in a .. n - 1
    BY <1>1, <2>1
  <2>3. n \in a - 1 .. Len(text)
    BY <1>1, <2>1
  <2>. QED  BY <2>2, <2>3 DEF a
<1>5. ~IsNewline(text[n - 1]) /\ n - st[m] # LineMax
  <2>1. ~Complete(ps[m])
    BY DEF Last
  <2>2. /\ Len(SubSeq(text, st[m], n - 1)) = (n - 1) - st[m] + 1
        /\ SubSeq(text, st[m], n - 1)[(n - 1) - st[m] + 1] = text[n - 1]
    BY <1>4, PartIs
  <2>3. (n - 1) - st[m] + 1 = n - st[m]
    BY <1>1, <1>3
  <2>4. Len(ps[m]) = n - st[m] /\ Last(ps[m]) = text[n - 1]
    BY <1>3, <2>2, <2>3 DEF Last
  <2>. QED  BY <2>1, <2>4 DEF Complete, IsNewline
<1>6. /\ Len(more) = m /\ more[m] = SubSeq(text, st[m], n)
      /\ \A j \in 1 .. m : j # m => more[j] = ps[j]
  <2>1. ps[m] \in Seq(C) /\ Append(ps[m], text[n]) \in Some(C)
    <3>1. ps[m] \in Some(C)
      BY <1>1, ElementOfSeq
    <3>2. ps[m] \in Seq(C)
      BY <3>1 DEF Some
    <3>3. Append(ps[m], text[n]) \in Seq(C) /\ Append(ps[m], text[n]) # <<>>
      BY <1>1, <3>2, AppendProperties
    <3>. QED  BY <3>2, <3>3 DEF Some
  <2>2. /\ Len(more) = m /\ more[m] = Append(ps[m], text[n])
        /\ \A j \in 1 .. m : j # m => more[j] = ps[j]
    BY <1>1, <2>1, ExceptSeq
  <2>3. SubSeq(text, st[m], n) = SubSeq(text, st[m], n - 1) \o <<text[n]>>
    <3>1. st[m] \in 1 .. Len(text) /\ n \in st[m] .. Len(text)
      BY <1>1, <1>3
    <3>. QED  BY <3>1, SubSeqRecursiveSecond
  <2>4. Append(ps[m], text[n]) = ps[m] \o <<text[n]>>
    BY <1>1, <2>1, AppendIsConcat
  <2>. QED  BY <1>3, <2>2, <2>3, <2>4, Zenon
<1> HIDE DEF more
<1>7. /\ new \in [1 .. m + 1 -> 1 .. n + 1] /\ new[1] = 1 /\ new[m + 1] = n + 1
      /\ \A j \in 1 .. m : new[j] = st[j]
  BY <1>1, <1>2
<1> HIDE DEF new
<1>8. ASSUME NEW j \in 1 .. m
      PROVE  /\ new[j] < new[j + 1] /\ new[j + 1] - new[j] <= LineMax
             /\ more[j] = SubSeq(text, new[j], new[j + 1] - 1)
             /\ \A i \in new[j] .. new[j + 1] - 2 : ~IsNewline(text[i])
             /\ j < m => IsNewline(text[new[j + 1] - 1]) \/ new[j + 1] - new[j] = LineMax
  <2>1. CASE j = m
    <3>1. new[j] = st[m] /\ new[j + 1] = n + 1
      BY <1>1, <1>7, <2>1
    <3>2. \A i \in st[m] .. n - 1 : ~IsNewline(text[i])
      <4>1. \A i \in st[m] .. n - 2 : ~IsNewline(text[i])
        BY <1>1, <1>2
      <4>2. \A i \in st[m] .. n - 1 : i = n - 1 \/ i \in st[m] .. n - 2
        BY <1>1, <1>3
      <4>. QED  BY <1>5, <4>1, <4>2
    <3>3. (n + 1) - st[m] <= LineMax /\ st[m] < n + 1 /\ (n + 1) - 1 = n /\ (n + 1) - 2 = n - 1
      <4> DEFINE a == st[m]
      <4>1. a \in Nat /\ a < n /\ n - a <= LineMax /\ n - a # LineMax
        BY <1>3, <1>5
      <4> HIDE DEF a
      <4>2. (n + 1) - a <= LineMax /\ a < n + 1 /\ (n + 1) - 1 = n /\ (n + 1) - 2 = n - 1
        BY <1>1, <4>1
      <4>. QED  BY <4>2 DEF a
    <3>4. ~(j < m)
      BY <1>1, <2>1
    <3>. QED  BY <1>6, <2>1, <3>1, <3>2, <3>3, <3>4
  <2>2. CASE j # m
    <3>1. j + 1 \in 1 .. m
      BY <1>1, <2>2
    <3>2. new[j] = st[j] /\ new[j + 1] = st[j + 1] /\ more[j] = ps[j]
      BY <1>6, <1>7, <2>2, <3>1
    <3>. QED  BY <1>2, <3>2
  <2>. QED  BY <2>1, <2>2
<1>9. CutAt(text, n, more, new)
  BY <1>6, <1>7, <1>8 DEF CutAt
<1>10. Read(ps, text[n]) = more
  BY DEF Read, more
<1>. QED  BY <1>9, <1>10

\* All the pieces of a text.
LEMMA PiecesAreCut ==
  ASSUME NEW C, NEW text \in Seq(C)
  PROVE  /\ Pieces(text) \in Seq(Some(C))
         /\ \E st : CutAt(text, Len(text), Pieces(text), st)
<1>1. PICK f \in [0 .. Len(text) -> Seq(Some(C))] :
        /\ f[0] = <<>> /\ f[Len(text)] = Pieces(text)
        /\ \A n \in 1 .. Len(text) : f[n] = Read(f[n - 1], text[n])
  BY PiecesRun
<1> DEFINE Good(n) == \E st : CutAt(text, n, f[n], st)
           S == { n \in 0 .. Len(text) : Good(n) }
<1>2. Len(text) \in Nat
  BY LenProperties
<1>3. ASSUME NEW n \in 0 .. Len(text), \A m \in 0 .. n - 1 : m \in S
      PROVE  Good(n)
  <2>1. CASE n = 0
    <3> DEFINE st == [j \in 1 .. 1 |-> 1]
    <3>1. f[n] = <<>> /\ Len(f[n]) = 0
      BY <1>1, <2>1
    <3>2. CutAt(text, n, f[n], st)
      BY <2>1, <3>1 DEF CutAt
    <3>. QED  BY <3>2
  <2>2. CASE n # 0
    <3>1. n \in 1 .. Len(text) /\ n - 1 \in 0 .. n - 1 /\ n - 1 \in 0 .. Len(text)
      BY <1>2, <2>2
    <3>2. PICK st : CutAt(text, n - 1, f[n - 1], st)
      BY <1>3, <3>1
    <3>3. f[n - 1] \in Seq(Some(C)) /\ f[n] = Read(f[n - 1], text[n])
      BY <1>1, <3>1
    <3>4. \E new : CutAt(text, n, Read(f[n - 1], text[n]), new)
      <4>1. CASE f[n - 1] = <<>> \/ Complete(Last(f[n - 1]))
        BY <3>1, <3>2, <3>3, <4>1, CutsNew
      <4>2. CASE f[n - 1] # <<>> /\ ~Complete(Last(f[n - 1]))
        BY <3>1, <3>2, <3>3, <4>2, CutsOn
      <4>. QED  BY <4>1, <4>2
    <3>. QED  BY <3>3, <3>4
  <2>. QED  BY <2>1, <2>2
<1>4. \A n \in 0 .. Len(text) : (\A m \in 0 .. n - 1 : m \in S) => n \in S
  <2> HIDE DEF Good
  <2>. QED  BY <1>3
<1>5. \A n \in 0 .. Len(text) : n \in S
  <2> HIDE DEF S
  <2>. QED  BY <1>2, <1>4, Upward
<1>6. Good(Len(text))
  <2> HIDE DEF Good
  <2>. QED  BY <1>2, <1>5
<1>. QED  BY <1>1, <1>2, <1>6

-----------------------------------------------------------------------------
(***************************************************************************)
(* Pieces and lines.                                                       *)
(***************************************************************************)

LEMMA StartsAre ==
  ASSUME NEW C, NEW text \in Seq(C), NEW p
  PROVE  p \in LineStarts(text) <=>
           \/ p = 1
           \/ p \in 2 .. Len(text) + 1 /\ IsNewline(text[p - 1])
<1> DEFINE breaks == { j \in DOMAIN text : IsNewline(text[j]) }
<1>1. Len(text) \in Nat /\ DOMAIN text = 1 .. Len(text)
  BY LenProperties
<1>2. LineStarts(text) = {1} \union { i + 1 : i \in breaks }
  BY DEF LineStarts, IsNewline
<1>3. p \in 2 .. Len(text) + 1 /\ IsNewline(text[p - 1]) => p - 1 \in breaks /\ p = (p - 1) + 1
  BY <1>1
<1>4. \A i \in breaks : i + 1 \in 2 .. Len(text) + 1 /\ (i + 1) - 1 = i /\ IsNewline(text[i])
  BY <1>1
<1> HIDE DEF breaks
<1>5. (\E i \in breaks : p = i + 1) => p \in 2 .. Len(text) + 1 /\ IsNewline(text[p - 1])
  BY <1>4
<1>6. p \in 2 .. Len(text) + 1 /\ IsNewline(text[p - 1]) => \E i \in breaks : p = i + 1
  BY <1>3
<1>. QED  BY <1>2, <1>5, <1>6

\* The line that starts at p ends at e.
EndsAt(text, p, e) ==
  /\ e \in p - 1 .. Len(text)
  /\ \A i \in p .. e : ~IsNewline(text[i])
  /\ e = Len(text) \/ IsNewline(text[e + 1])

LEMMA LineIs ==
  ASSUME NEW C, NEW text \in Seq(C), NEW p \in 1 .. Len(text) + 1, NEW e, EndsAt(text, p, e)
  PROVE  LineAt(text, p) = SubSeq(text, p, e)
<1> DEFINE ends == { j \in p .. Len(text) : IsNewline(text[j]) }
<1>1. Len(text) \in Nat /\ p \in Nat /\ e \in Int /\ e <= Len(text) /\ p - 1 <= e
  BY LenProperties DEF EndsAt
<1>2. LineAt(text, p) = SubSeq(text, p, IF ends = {} THEN Len(text) ELSE Min(ends) - 1)
  BY DEF LineAt, IsNewline
<1>3. CASE e = Len(text)
  <2>1. ends = {}
    BY <1>3 DEF EndsAt
  <2>. QED  BY <1>2, <1>3, <2>1
<1>4. CASE e # Len(text)
  <2>1. e + 1 \in ends
    BY <1>1, <1>4 DEF EndsAt
  <2>2. ASSUME NEW i \in ends PROVE i \in Nat /\ e + 1 <= i
    <3>1. i \in Nat /\ p <= i /\ ~(i \in p .. e)
      BY <1>1 DEF EndsAt
    <3>. QED  BY <1>1, <3>1
  <2> HIDE DEF ends
  <2>3. Min(ends) = e + 1
    BY <2>1, <2>2, MinIs
  <2>4. (e + 1) - 1 = e
    BY <1>1
  <2>. QED  BY <1>2, <2>1, <2>3, <2>4
<1>. QED  BY <1>3, <1>4

LEMMA LineEnds ==
  ASSUME NEW C, NEW text \in Seq(C), NEW p \in 1 .. Len(text) + 1
  PROVE  \E e \in p - 1 .. Len(text) : EndsAt(text, p, e)
<1> DEFINE ends == { j \in p .. Len(text) : IsNewline(text[j]) }
<1>1. Len(text) \in Nat /\ p \in Nat /\ p >= 1
  BY LenProperties
<1>2. CASE ends = {}
  <2>1. EndsAt(text, p, Len(text)) /\ Len(text) \in p - 1 .. Len(text)
    BY <1>1, <1>2 DEF EndsAt
  <2>. QED  BY <2>1
<1>3. CASE ends # {}
  <2>1. ends \subseteq Nat
    BY <1>1
  <2>2. PICK k \in ends : \A i \in ends : k <= i
    BY <1>3, <2>1, MinIsLeast
  <2>3. k - 1 \in p - 1 .. Len(text) /\ (k - 1) + 1 = k /\ IsNewline(text[k])
    BY <1>1
  <2>4. \A i \in p .. k - 1 : ~IsNewline(text[i])
    <3>1. \A i \in p .. k - 1 : i \in p .. Len(text) /\ ~(k <= i)
      BY <1>1
    <3>. QED  BY <2>2, <3>1
  <2>5. EndsAt(text, p, k - 1)
    BY <2>3, <2>4 DEF EndsAt
  <2>. QED  BY <2>3, <2>5
<1>. QED  BY <1>2, <1>3

\* After LineMax characters of a line that fgets can take comes its newline.
LEMMA LineIsShort ==
  ASSUME NEW C, NEW text \in Seq(C), ~HasLongLine(text),
         NEW p \in 1 .. Len(text) + 1, p \in LineStarts(text), NEW q \in p .. Len(text) - 1,
         q - p + 1 = LineMax, \A i \in p .. q : ~IsNewline(text[i])
  PROVE  IsNewline(text[q + 1])
<1>1. PICK e \in p - 1 .. Len(text) : EndsAt(text, p, e)
  BY LineEnds
<1>2. Len(text) \in Nat /\ p \in Nat /\ p >= 1 /\ LineMax \in Nat
  BY LenProperties, LineAssumption
<1>3. Len(LineAt(text, p)) = e - p + 1
  BY <1>1, LineIs, PartIs
<1>4. e - p + 1 <= LineMax
  BY <1>2, <1>3 DEF HasLongLine
<1>5. ~(e + 1 \in p .. q)
  BY <1>1, <1>2 DEF EndsAt
<1>6. e = q
  BY <1>2, <1>4, <1>5
<1>. QED  BY <1>1, <1>2, <1>6 DEF EndsAt

-----------------------------------------------------------------------------
\* The places of the cuts grow.
LEMMA CutsGrow ==
  ASSUME NEW text, NEW n \in Nat, NEW ps, Len(ps) \in Nat, NEW st, CutAt(text, n, ps, st),
         NEW j \in 1 .. Len(ps) + 1, NEW i \in 1 .. j - 1
  PROVE  st[i] < st[j]
<1> DEFINE m == Len(ps) + 1
           S == { k \in 0 .. m : \A x \in 1 .. k - 1 : st[x] < st[k] }
<1>1. m \in Nat /\ st \in [1 .. m -> 1 .. n + 1] /\ \A k \in 1 .. m - 1 : st[k] < st[k + 1]
  BY DEF CutAt
<1> HIDE DEF m
<1>2. ASSUME NEW k \in 0 .. m, \A x \in 0 .. k - 1 : x \in S PROVE k \in S
  <2>1. ASSUME NEW x \in 1 .. k - 1 PROVE st[x] < st[k]
    <3>1. /\ k \in 1 .. m /\ k - 1 \in 0 .. k - 1 /\ k - 1 \in 1 .. m - 1 /\ (k - 1) + 1 = k
          /\ x \in 1 .. m /\ k - 1 \in 1 .. m
      BY <1>1
    <3>2. st[k - 1] < st[k] /\ st[x] \in Int /\ st[k - 1] \in Int /\ st[k] \in Int
      BY <1>1, <3>1
    <3>3. k - 1 \in S
      BY <1>2, <3>1
    <3>4. x = k - 1 \/ x \in 1 .. (k - 1) - 1
      BY <1>1
    <3>. QED  BY <3>2, <3>3, <3>4
  <2>. QED  BY <2>1
<1>3. \A k \in 0 .. m : k \in S
  <2> HIDE DEF S
  <2>. QED  BY <1>1, <1>2, Upward
<1>. QED  BY <1>1, <1>3 DEF m

\* A piece starts with a line, or is the newline of one that was read without.
LEMMA PieceStarts ==
  ASSUME NEW C, NEW text \in Seq(C), ~HasLongLine(text), NEW ps, Len(ps) \in Nat,
         NEW st, CutAt(text, Len(text), ps, st), NEW j \in 1 .. Len(ps)
  PROVE  st[j] \in LineStarts(text) \/ (IsNewline(text[st[j]]) /\ st[j + 1] = st[j] + 1)
<1> DEFINE m == Len(ps)
           n == Len(text)
           Good(k) == st[k] \in LineStarts(text) \/ (IsNewline(text[st[k]]) /\ st[k + 1] = st[k] + 1)
           S == { k \in 0 .. m : k = 0 \/ Good(k) }
<1>1. m \in Nat /\ n \in Nat /\ LineMax \in Nat \ {0}
  BY LenProperties, LineAssumption
<1>2. /\ st \in [1 .. m + 1 -> 1 .. n + 1] /\ st[1] = 1
      /\ \A k \in 1 .. m :
           /\ st[k] < st[k + 1]
           /\ \A i \in st[k] .. st[k + 1] - 2 : ~IsNewline(text[i])
           /\ k < m => IsNewline(text[st[k + 1] - 1]) \/ st[k + 1] - st[k] = LineMax
  BY DEF CutAt
<1>3. ASSUME NEW k \in 1 .. m, k - 1 \in S PROVE Good(k)
  <2>1. CASE k = 1
    BY <1>2, <2>1, StartsAre
  <2>2. CASE k # 1
    <3> DEFINE o == k - 1
               x == st[o]
               y == st[k]
    <3>1. o \in 1 .. m /\ o < m /\ o + 1 = k /\ k + 1 \in 1 .. m + 1 /\ k \in 1 .. m + 1 /\ o \in 1 .. m + 1
      BY <1>1, <2>2
    <3>2. /\ x \in 1 .. n + 1 /\ y \in 1 .. n + 1 /\ st[k + 1] \in 1 .. n + 1 /\ x < y /\ y < st[k + 1]
          /\ IsNewline(text[y - 1]) \/ y - x = LineMax
          /\ \A i \in x .. y - 2 : ~IsNewline(text[i])
          /\ \A i \in y .. st[k + 1] - 2 : ~IsNewline(text[i])
      BY <1>2, <3>1
    <3>3. Good(o)
      BY <1>3, <3>1
    <3> HIDE DEF y, o
    <3>4. CASE IsNewline(text[y - 1])
      <4>1. y \in 2 .. n + 1
        BY <1>1, <3>2
      <4>2. y \in LineStarts(text)
        BY <3>4, <4>1, StartsAre
      <4>. QED  BY <4>2 DEF y
    <3>5. CASE ~IsNewline(text[y - 1])
      <4>1. x \in LineStarts(text)
        <5>1. SUFFICES ASSUME IsNewline(text[x]) /\ y = x + 1 PROVE FALSE
          BY <3>1, <3>3 DEF y
        <5>2. y - 1 = x
          BY <3>2, <5>1
        <5>. QED  BY <3>5, <5>1, <5>2
      <4> HIDE DEF x
      <4>2. \A i \in x .. y - 1 : ~IsNewline(text[i])
        <5>1. \A i \in x .. y - 1 : i = y - 1 \/ i \in x .. y - 2
          BY <3>2
        <5>. QED  BY <3>2, <3>5, <5>1
      <4>3. y - 1 \in x .. n - 1 /\ (y - 1) - x + 1 = LineMax /\ (y - 1) + 1 = y
        BY <1>1, <3>2, <3>5
      <4>4. IsNewline(text[y])
        BY <3>2, <4>1, <4>2, <4>3, LineIsShort
      <4>5. ~(y \in y .. st[k + 1] - 2)
        BY <3>2, <4>4
      <4>6. st[k + 1] = y + 1
        BY <3>2, <4>5
      <4>. QED  BY <4>4, <4>6 DEF y
    <3>. QED  BY <3>4, <3>5
  <2>. QED  BY <2>1, <2>2
<1> HIDE DEF Good
<1>4. ASSUME NEW k \in 0 .. m, \A x \in 0 .. k - 1 : x \in S PROVE k \in S
  <2>1. CASE k = 0
    BY <1>1, <2>1
  <2>2. CASE k # 0
    <3>1. k \in 1 .. m /\ k - 1 \in 0 .. k - 1
      BY <1>1, <2>2
    <3>. QED  BY <1>3, <1>4, <3>1
  <2>. QED  BY <2>1, <2>2
<1>5. \A k \in 0 .. m : k \in S
  <2> HIDE DEF S
  <2>. QED  BY <1>1, <1>4, Upward
<1>6. Good(j)
  BY <1>1, <1>5
<1>. QED  BY <1>6 DEF Good

\* A piece that starts with a line is that line, with its newline if that was
\* read with it.
LEMMA PieceIsLine ==
  ASSUME NEW C, NEW text \in Seq(C), ~HasLongLine(text), NEW ps, Len(ps) \in Nat,
         NEW st, CutAt(text, Len(text), ps, st), NEW j \in 1 .. Len(ps),
         st[j] \in LineStarts(text)
  PROVE  \E e \in st[j] - 1 .. Len(text) :
           IsLine(text, st[j], e, st[j + 1] - 1) /\ LineAt(text, st[j]) = SubSeq(text, st[j], e)
<1> DEFINE m == Len(ps)
           n == Len(text)
           p == st[j]
           q == st[j + 1] - 1
           e == IF IsNewline(text[q]) THEN q - 1 ELSE q
<1>1. /\ m \in Nat /\ n \in Nat /\ LineMax \in Nat \ {0} /\ j \in 1 .. m + 1 /\ j + 1 \in 1 .. m + 1
  BY LenProperties, LineAssumption
<1>2. /\ p \in 1 .. n /\ q \in p .. n /\ q + 1 = st[j + 1]
      /\ \A i \in p .. q - 1 : ~IsNewline(text[i])
      /\ j < m => IsNewline(text[q]) \/ q - p + 1 = LineMax
  <2>1. /\ p \in 1 .. n + 1 /\ st[j + 1] \in 1 .. n + 1 /\ p < st[j + 1]
        /\ \A i \in p .. st[j + 1] - 2 : ~IsNewline(text[i])
        /\ j < m => IsNewline(text[st[j + 1] - 1]) \/ st[j + 1] - p = LineMax
    BY <1>1 DEF CutAt
  <2> DEFINE z == st[j + 1]
  <2>2. p \in Nat /\ 1 <= p /\ z \in Nat /\ p < z /\ z <= n + 1
    BY <1>1, <2>1
  <2>3. p \in 1 .. n /\ z - 1 \in p .. n
    <3> HIDE DEF z, p
    <3>. QED  BY <1>1, <2>2
  <2>4. (z - 1) + 1 = z /\ (z - 1) - 1 = z - 2 /\ (z - 1) - p + 1 = z - p
    <3> HIDE DEF z, p
    <3>. QED  BY <1>1, <2>2
  <2>. QED  BY <2>1, <2>3, <2>4
<1>3. j < m => q < n
  <2>1. SUFFICES ASSUME j < m PROVE q < n
    OBVIOUS
  <2>2. j + 1 \in 1 .. m /\ (j + 1) + 1 \in 1 .. m + 1
    BY <1>1, <2>1
  <2>3. st[j + 1] < st[(j + 1) + 1] /\ st[(j + 1) + 1] \in 1 .. n + 1 /\ st[j + 1] \in 1 .. n + 1
    BY <1>1, <2>2 DEF CutAt
  <2>. QED  BY <1>1, <1>2, <2>3
<1>4. j >= m => q = n
  <2>1. SUFFICES ASSUME j >= m PROVE q = n
    OBVIOUS
  <2>2. j = m
    BY <1>1, <2>1
  <2>3. st[m + 1] = n + 1
    BY DEF CutAt
  <2>. QED  BY <1>1, <2>2, <2>3
<1> HIDE DEF p, q
<1>5. e \in p - 1 .. n /\ \A i \in p .. e : ~IsNewline(text[i])
  <2>1. CASE IsNewline(text[q])
    BY <1>1, <1>2, <2>1
  <2>2. CASE ~IsNewline(text[q])
    <3>1. \A i \in p .. q : i = q \/ i \in p .. q - 1
      BY <1>1, <1>2
    <3>. QED  BY <1>1, <1>2, <2>2, <3>1
  <2>. QED  BY <2>1, <2>2
<1>6. IsLine(text, p, e, q)
  <2>1. q = e \/ (q = e + 1 /\ IsNewline(text[q]))
    BY <1>1, <1>2
  <2> HIDE DEF e
  <2>. QED  BY <1>2, <1>5, <2>1 DEF IsLine
<1>7. e = n \/ IsNewline(text[e + 1])
  <2>1. CASE IsNewline(text[q])
    <3>1. e + 1 = q
      BY <1>1, <1>2, <2>1
    <3>. QED  BY <2>1, <3>1
  <2>2. CASE ~IsNewline(text[q]) /\ j >= m
    BY <1>4, <2>2
  <2>3. CASE ~IsNewline(text[q]) /\ j < m
    <3>1. e = q /\ q \in p .. n - 1 /\ q - p + 1 = LineMax /\ p \in 1 .. n + 1
      BY <1>1, <1>2, <1>3, <2>3
    <3>2. p \in LineStarts(text)
      BY DEF p
    <3>3. IsNewline(text[q + 1])
      BY <1>5, <3>1, <3>2, LineIsShort
    <3>. QED  BY <3>1, <3>3
  <2>. QED  BY <1>1, <2>1, <2>2, <2>3
<1> HIDE DEF e
<1>8. EndsAt(text, p, e)
  BY <1>5, <1>7 DEF EndsAt
<1>9. LineAt(text, p) = SubSeq(text, p, e)
  BY <1>1, <1>2, <1>8, LineIs
<1>. QED  BY <1>5, <1>6, <1>9 DEF p, q

\* What the loop makes of a piece is what the line at p says, if one does.
Says(text, p, piece) ==
  /\ IsPair(piece) <=> p \in Settings(text)
  /\ IsPair(piece) => /\ Key(piece) = KeyOf(LineAt(text, p))
                      /\ Bare(Value(piece)) = ValueOf(LineAt(text, p))

LEMMA PieceSays ==
  ASSUME NEW C, NEW text \in Seq(C), ~HasLongLine(text), NEW ps, Len(ps) \in Nat,
         NEW st, CutAt(text, Len(text), ps, st), NEW j \in 1 .. Len(ps)
  PROVE  Says(text, st[j], ps[j])
<1> DEFINE n == Len(text)
           p == st[j]
           q == st[j + 1] - 1
           piece == SubSeq(text, p, q)
<1>1. n \in Nat /\ p \in 1 .. n /\ p \in 1 .. n + 1 /\ q \in p .. n /\ q \in p - 1 .. n /\ ps[j] = piece
  <2>1. n \in Nat /\ j \in 1 .. Len(ps) + 1 /\ j + 1 \in 1 .. Len(ps) + 1
    BY LenProperties
  <2>2. p \in 1 .. n + 1 /\ st[j + 1] \in 1 .. n + 1 /\ p < st[j + 1] /\ ps[j] = piece
    BY <2>1 DEF CutAt
  <2>. QED  BY <2>1, <2>2
<1>2. CASE p \notin LineStarts(text)
  <2>1. IsNewline(text[p]) /\ q = p
    <3>1. IsNewline(text[p]) /\ st[j + 1] = p + 1
      BY <1>2, PieceStarts
    <3>. QED  BY <1>1, <3>1
  <2>2. \A i \in p .. q : text[i] # "="
    <3>1. \A i \in p .. q : i = p
      BY <1>1, <2>1
    <3>. QED  BY <2>1, <3>1 DEF IsNewline
  <2>3. ~IsPair(piece)
    BY <1>1, <2>2, NeedsEquals
  <2>. QED  BY <1>1, <1>2, <2>3 DEF Says, Settings
<1>3. CASE p \in LineStarts(text)
  <2> DEFINE line == LineAt(text, p)
  <2>1. PICK e \in p - 1 .. n : IsLine(text, p, e, q) /\ line = SubSeq(text, p, e)
    BY <1>3, PieceIsLine
  <2> HIDE DEF q, p
  <2>2. CASE \A i \in p .. e : ~IsEquals(text[i])
    <3>1. \A i \in p .. e : text[i] # "="
      BY <2>2 DEF IsEquals
    <3>2. \A i \in p .. q : text[i] # "="
      <4>1. \A i \in p .. q : i \in p .. e \/ IsNewline(text[i])
        BY <1>1, <2>1 DEF IsLine
      <4>. QED  BY <3>1, <4>1 DEF IsNewline
    <3>3. ~IsPair(piece) /\ ~IsSetting(line)
      BY <1>1, <2>1, <3>1, <3>2, NeedsEquals
    <3>. QED  BY <1>1, <3>3 DEF Says, Settings, p
  <2>3. CASE \E i \in p .. e : IsEquals(text[i])
    <3> DEFINE T == { i \in p .. e : IsEquals(text[i]) }
    <3>1. T \subseteq Nat /\ T # {}
      BY <1>1, <2>3
    <3>2. PICK k \in T : \A i \in T : k <= i
      BY <3>1, MinIsLeast
    <3>3. k \in p .. e /\ IsEquals(text[k]) /\ \A i \in p .. k - 1 : ~IsEquals(text[i])
      <4>1. \A i \in p .. k - 1 : i \in p .. e /\ ~(k <= i)
        BY <1>1
      <4>. QED  BY <3>2, <4>1
    <3>4. /\ IsPair(piece) = IsSetting(line)
          /\ Key(piece) = KeyOf(line) /\ Bare(Value(piece)) = ValueOf(line)
      BY <1>1, <2>1, <3>3, SettingIsRead
    <3>5. p \in Settings(text) <=> IsSetting(line)
      BY <1>3 DEF Settings
    <3>6. Says(text, p, piece)
      <4> HIDE DEF piece
      <4>. QED  BY <3>4, <3>5 DEF Says
    <3>. QED  BY <1>1, <3>6 DEF p
  <2>. QED  BY <2>2, <2>3
<1>. QED  BY <1>2, <1>3

\* Every setting's line starts a piece.
LEMMA SettingStartsPiece ==
  ASSUME NEW C, NEW text \in Seq(C), NEW ps, Len(ps) \in Nat,
         NEW st, CutAt(text, Len(text), ps, st), NEW p \in Settings(text)
  PROVE  \E j \in 1 .. Len(ps) : st[j] = p
<1> DEFINE m == Len(ps)
           n == Len(text)
<1>1. m \in Nat /\ n \in Nat
  BY LenProperties
<1>2. /\ st \in [1 .. m + 1 -> 1 .. n + 1] /\ st[1] = 1 /\ st[m + 1] = n + 1
      /\ \A k \in 1 .. m : \A i \in st[k] .. st[k + 1] - 2 : ~IsNewline(text[i])
  BY DEF CutAt
<1>3. p \in LineStarts(text) /\ IsSetting(LineAt(text, p))
  BY DEF Settings
<1>4. p = 1 \/ (p \in 2 .. n + 1 /\ IsNewline(text[p - 1]))
  BY <1>3, StartsAre
<1>5. p # n + 1
  <2>1. SUFFICES ASSUME p = n + 1 PROVE FALSE
    OBVIOUS
  <2>2. p \in 1 .. n + 1 /\ n \in p - 1 .. n /\ p .. n = {}
    BY <1>1, <2>1
  <2>3. EndsAt(text, p, n)
    BY <2>2 DEF EndsAt
  <2>4. LineAt(text, p) = SubSeq(text, p, n)
    BY <2>2, <2>3, LineIs
  <2>5. ~IsSetting(SubSeq(text, p, n))
    BY <2>2, NeedsEquals
  <2>. QED  BY <1>3, <2>4, <2>5
<1>6. CASE p = 1
  <2>1. m # 0
    BY <1>1, <1>2, <1>5, <1>6
  <2>2. 1 \in 1 .. m
    BY <1>1, <2>1
  <2>. QED  BY <1>2, <1>6, <2>2
<1>7. CASE p # 1
  <2> DEFINE T == { j \in 1 .. m : st[j] <= p - 1 }
  <2>1. p \in 2 .. n /\ IsNewline(text[p - 1])
    BY <1>1, <1>4, <1>5, <1>7
  <2>2. m # 0
    BY <1>1, <1>2, <2>1
  <2>3. T \subseteq 0 .. m /\ 1 \in T
    BY <1>1, <1>2, <2>1, <2>2
  <2>4. PICK k \in T : \A j \in T : j <= k
    BY <1>1, <2>3, MaxIsGreatest
  <2>5. /\ k \in 1 .. m /\ st[k] <= p - 1 /\ k + 1 \in 1 .. m + 1 /\ k \in 1 .. m + 1
        /\ st[k] \in Int /\ st[k + 1] \in Int
    BY <1>1, <1>2
  <2>6. ~(k + 1 \in T)
    BY <1>1, <2>4, <2>5
  <2>7. (k + 1 \in 1 .. m /\ st[k + 1] > p - 1) \/ (k = m /\ st[k + 1] = n + 1)
    <3>1. CASE k = m
      BY <1>2, <3>1
    <3>2. CASE k # m
      <4>1. k + 1 \in 1 .. m
        BY <1>1, <2>5, <3>2
      <4>2. ~(st[k + 1] <= p - 1)
        BY <2>6, <4>1
      <4>. QED  BY <2>1, <2>5, <4>1, <4>2
    <3>. QED  BY <3>1, <3>2
  <2>8. ~(p - 1 \in st[k] .. st[k + 1] - 2)
    BY <1>2, <2>1, <2>5
  <2>9. st[k + 1] = p
    BY <1>1, <2>1, <2>5, <2>7, <2>8
  <2>10. k + 1 \in 1 .. m
    BY <1>1, <2>1, <2>7, <2>9
  <2>. QED  BY <2>9, <2>10
<1>. QED  BY <1>6, <1>7

-----------------------------------------------------------------------------
(***************************************************************************)
(* What is read is text.                                                   *)
(***************************************************************************)

LEMMA PartIsText ==
  ASSUME NEW C, NEW s \in Seq(C), NEW x \in 1 .. Len(s) + 1, NEW y \in Int, y <= Len(s)
  PROVE  SubSeq(s, x, y) \in Seq(C)
<1>1. Len(s) \in Nat /\ x \in Int
  BY LenProperties
<1>2. CASE x - 1 <= y
  BY <1>1, <1>2, PartIs
<1>3. CASE ~(x - 1 <= y)
  <2>1. SubSeq(s, x, y) = <<>>
    BY <1>1, <1>3, SubSeqEmpty
  <2>. QED  BY <2>1
<1>. QED  BY <1>2, <1>3

LEMMA TrimIsText ==
  ASSUME NEW C, NEW s \in Seq(C)
  PROVE  Trim(s) \in Seq(C)
<1> DEFINE kept == { i \in DOMAIN s : ~IsSpace(s[i]) }
<1>1. Len(s) \in Nat /\ DOMAIN s = 1 .. Len(s)
  BY LenProperties
<1>2. kept \subseteq Nat /\ kept \subseteq 0 .. Len(s) /\ \A i \in kept : i \in 1 .. Len(s)
  BY <1>1
<1>3. Trim(s) = IF kept = {} THEN s ELSE SubSeq(s, Min(kept), Max(kept))
  BY DEF Trim, IsSpace
<1> HIDE DEF kept
<1>4. CASE kept # {}
  <2>1. Min(kept) \in kept /\ Max(kept) \in kept
    BY <1>1, <1>2, <1>4, MinIsLeast, MaxIsGreatest
  <2>2. Min(kept) \in 1 .. Len(s) /\ Max(kept) \in 1 .. Len(s)
    BY <1>2, <2>1
  <2>3. Min(kept) \in 1 .. Len(s) + 1 /\ Max(kept) \in Int /\ Max(kept) <= Len(s)
    BY <1>1, <2>2
  <2>. QED  BY <1>3, <1>4, <2>3, PartIsText
<1>. QED  BY <1>3, <1>4

LEMMA FindIsPlace ==
  ASSUME NEW C, NEW s \in Seq(C), NEW c
  PROVE  /\ Find(s, c) \in 0 .. Len(s)
         /\ Find(s, c) # 0 => s[Find(s, c)] = c
<1> DEFINE places == { i \in 1 .. Len(s) : s[i] = c }
<1>1. Len(s) \in Nat /\ places \subseteq Nat
  BY LenProperties
<1>2. Find(s, c) = IF places # {} THEN Min(places) ELSE 0
  BY DEF Find, SelectInSeq
<1>3. CASE places # {}
  <2>1. Min(places) \in places
    BY <1>1, <1>3, MinIsLeast
  <2>. QED  BY <1>1, <1>2, <1>3, <2>1
<1>4. CASE places = {}
  <2>1. Find(s, c) = 0
    BY <1>2, <1>4
  <2>. QED  BY <1>1, <2>1
<1>. QED  BY <1>3, <1>4

\* Keys and values.
LEMMA PairIsText ==
  ASSUME NEW C, NEW piece \in Seq(C), IsPair(piece)
  PROVE  Key(piece) \in Seq(C) /\ Value(piece) \in Seq(C)
<1> DEFINE eq == "="
           nl == "\n"
           line == Trim(piece)
           f == Find(line, eq)
           g == Find(line, nl)
           end == IF g = 0 THEN Len(line) ELSE g - 1
<1> HIDE DEF eq, nl
<1>1. line \in Seq(C) /\ Len(line) \in Nat
  BY TrimIsText, LenProperties
<1>2. f \in 1 .. Len(line)
  <2>1. f # 0
    BY DEF IsPair, eq
  <2>2. f \in 0 .. Len(line)
    BY <1>1, FindIsPlace
  <2> HIDE DEF f, line
  <2>. QED  BY <1>1, <2>1, <2>2
<1>3. g \in 0 .. Len(line)
  BY <1>1, FindIsPlace
<1>4. Key(piece) = Trim(SubSeq(line, 1, f - 1)) /\ Value(piece) = Trim(SubSeq(line, f + 1, end))
  BY DEF Key, Value, eq, nl
<1> HIDE DEF f, g, line
<1>5. SubSeq(line, 1, f - 1) \in Seq(C)
  BY <1>1, <1>2, PartIsText
<1>6. SubSeq(line, f + 1, end) \in Seq(C)
  <2>1. f + 1 \in 1 .. Len(line) + 1 /\ end \in Int /\ end <= Len(line)
    BY <1>1, <1>2, <1>3
  <2>. QED  BY <1>1, <2>1, PartIsText
<1>. QED  BY <1>4, <1>5, <1>6, TrimIsText

-----------------------------------------------------------------------------
(***************************************************************************)
(* The configuration.                                                      *)
(***************************************************************************)
Maps(C) == UNION { [D -> Seq(C)] : D \in SUBSET Seq(C) }

LEMMA TakesIsTyped ==
  ASSUME NEW C, NEW map \in Maps(C), NEW piece \in Some(C)
  PROVE  Takes(map, piece) \in Maps(C)
<1>1. PICK D \in SUBSET Seq(C) : map \in [D -> Seq(C)]
  BY DEF Maps
<1>2. CASE ~IsPair(piece)
  BY <1>2 DEF Takes
<1>3. CASE IsPair(piece)
  <2>1. Key(piece) \in Seq(C) /\ Value(piece) \in Seq(C)
    BY <1>3, PairIsText DEF Some
  <2>2. Inserted(map, Key(piece), Value(piece)) \in [D \union {Key(piece)} -> Seq(C)]
    BY <1>1, <2>1 DEF Inserted
  <2>3. D \union {Key(piece)} \in SUBSET Seq(C)
    BY <2>1
  <2>. QED  BY <1>3, <2>2, <2>3 DEF Takes, Maps
<1>. QED  BY <1>2, <1>3

LEMMA ConfigRun ==
  ASSUME NEW C, NEW text, NEW ps \in Seq(Some(C)), ps = Pieces(text)
  PROVE  \E f \in [0 .. Len(ps) -> Maps(C)] :
           /\ f[0] = NoConfig /\ f[Len(ps)] = LoadConfigFile(text)
           /\ \A n \in 1 .. Len(ps) : f[n] = Takes(f[n - 1], ps[n])
<1> DEFINE A == Maps(C)
           B == Some(C)
           G == [x \in A \X B |-> Takes(x[1], x[2])]
           N == Len(ps)
           Eq(iter) == iter = [T \in SUBSET DOMAIN ps |->
                         IF T = {} THEN NoConfig ELSE Takes(iter[T \ {Max(T)}], ps[Max(T)])]
           it == CHOOSE iter : Eq(iter)
<1>1. N \in Nat /\ DOMAIN ps = 1 .. N
  BY LenProperties
<1>2. NoConfig \in A
  <2>1. NoConfig \in [{} -> Seq(C)] /\ {} \in SUBSET Seq(C)
    BY DEF NoConfig
  <2>. QED  BY <2>1 DEF Maps
<1>3. G \in [A \X B -> A] /\ \A x \in A, c \in B : G[<<x, c>>] = Takes(x, c)
  BY TakesIsTyped
<1> HIDE DEF A, B, G
<1>4. ps \in Seq(B)
  BY DEF B
<1>5. PICK iter \in [SUBSET (1 .. N) -> A] : Iterates(iter, G, NoConfig, ps, N)
  BY <1>2, <1>3, <1>4, FoldExists
<1>6. Eq(iter)
  <2>1. ASSUME NEW T \in SUBSET (1 .. N)
        PROVE  iter[T] = IF T = {} THEN NoConfig ELSE Takes(iter[T \ {Max(T)}], ps[Max(T)])
    <3>1. iter[T] = IF T = {} THEN NoConfig ELSE G[<<iter[T \ {Max(T)}], ps[Max(T)]>>]
      BY <1>5 DEF Iterates
    <3>2. T # {} => iter[T \ {Max(T)}] \in A /\ ps[Max(T)] \in B
      BY <1>1, <1>4, <1>5, LastPlace, ElementOfSeq
    <3>. QED  BY <1>3, <3>1, <3>2
  <2>. QED  BY <1>1, <1>5, <2>1
<1>7. Eq(it)
  <2> HIDE DEF Eq
  <2>. QED  BY <1>6
<1>8. LoadConfigFile(text) = it[1 .. N]
  <2>1. LoadConfigFile(text) = it[DOMAIN ps]
    BY Zenon DEF LoadConfigFile, FoldLeft, MapThenFoldSet
  <2>. QED  BY <1>1, <2>1
<1> HIDE DEF it
<1>9. ASSUME NEW n \in 1 .. N PROVE it[1 .. n] = Takes(it[1 .. n - 1], ps[n])
  <2>1. /\ 1 .. n \in SUBSET DOMAIN ps /\ 1 .. n # {}
        /\ Max(1 .. n) = n /\ (1 .. n) \ {Max(1 .. n)} = 1 .. n - 1
    BY <1>1, PlacesUpTo
  <2>2. it[1 .. n] = Takes(it[(1 .. n) \ {Max(1 .. n)}], ps[Max(1 .. n)])
    BY <1>7, <2>1
  <2>. QED  BY <2>1, <2>2
<1>10. Climbs(it, A, G, NoConfig, ps)
  <2>1. it[{}] = NoConfig
    BY <1>1, <1>7
  <2>. QED  BY <1>3, <1>4, <1>9, <2>1, ElementOfSeq DEF Climbs
<1>11. RunsTo(it[1 .. N], A, G, NoConfig, ps)
  BY <1>2, <1>3, <1>4, <1>10, FoldRuns
<1> HIDE DEF Eq
<1>12. PICK f : Runs(f, A, G, NoConfig, ps) /\ f[N] = it[1 .. N]
  BY <1>11 DEF RunsTo
<1>13. ASSUME NEW n \in 1 .. N PROVE f[n] = Takes(f[n - 1], ps[n])
  <2>1. f[n - 1] \in A /\ ps[n] \in B
    BY <1>1, <1>4, <1>12, ElementOfSeq DEF Runs
  <2>. QED  BY <1>3, <1>12, <2>1 DEF Runs
<1>. QED  BY <1>8, <1>12, <1>13 DEF Runs, A

\* The value of k in map is that of the first of the first n pieces that sets it.
SetFirst(ps, k, j) ==
  /\ IsPair(ps[j]) /\ Key(ps[j]) = k
  /\ \A i \in 1 .. j - 1 : IsPair(ps[i]) => Key(ps[i]) # k

FirstOfEach(map, ps, n) ==
  /\ \A j \in 1 .. n : IsPair(ps[j]) => Key(ps[j]) \in DOMAIN map
  /\ \A k \in DOMAIN map : \E j \in 1 .. n : SetFirst(ps, k, j) /\ map[k] = Value(ps[j])

LEMMA TakesFirst ==
  ASSUME NEW map, NEW ps, NEW n \in Nat \ {0}, FirstOfEach(map, ps, n - 1)
  PROVE  FirstOfEach(Takes(map, ps[n]), ps, n)
<1>1. \A j \in 1 .. n : j = n \/ j \in 1 .. n - 1
  OBVIOUS
<1>2. \A j \in 1 .. n - 1 : j \in 1 .. n
  OBVIOUS
<1>3. n \in 1 .. n
  OBVIOUS
<1>4. CASE ~IsPair(ps[n])
  <2>1. Takes(map, ps[n]) = map
    BY <1>4 DEF Takes
  <2>2. \A j \in 1 .. n : IsPair(ps[j]) => Key(ps[j]) \in DOMAIN map
    BY <1>1, <1>4 DEF FirstOfEach
  <2>3. \A k \in DOMAIN map : \E j \in 1 .. n : SetFirst(ps, k, j) /\ map[k] = Value(ps[j])
    BY <1>2 DEF FirstOfEach
  <2>. QED  BY <2>1, <2>2, <2>3 DEF FirstOfEach
<1>5. CASE IsPair(ps[n])
  <2> DEFINE key == Key(ps[n])
             more == Takes(map, ps[n])
  <2>1. /\ DOMAIN more = DOMAIN map \union {key}
        /\ \A k \in DOMAIN map : more[k] = map[k]
        /\ key \notin DOMAIN map => more[key] = Value(ps[n])
    BY <1>5 DEF Takes, Inserted
  <2>2. key \notin DOMAIN map => SetFirst(ps, key, n)
    BY <1>5 DEF FirstOfEach, SetFirst
  <2> HIDE DEF more
  <2>3. ASSUME NEW j \in 1 .. n, IsPair(ps[j]) PROVE Key(ps[j]) \in DOMAIN more
    BY <1>1, <2>1, <2>3 DEF FirstOfEach
  <2>4. ASSUME NEW k \in DOMAIN more
        PROVE  \E j \in 1 .. n : SetFirst(ps, k, j) /\ more[k] = Value(ps[j])
    <3>1. CASE k \in DOMAIN map
      <4>1. PICK j \in 1 .. n - 1 : SetFirst(ps, k, j) /\ map[k] = Value(ps[j])
        BY <3>1 DEF FirstOfEach
      <4>. QED  BY <1>2, <2>1, <3>1, <4>1
    <3>2. CASE k \notin DOMAIN map
      <4>1. k = key
        BY <2>1, <3>2
      <4>. QED  BY <1>3, <2>1, <2>2, <3>2, <4>1
    <3>. QED  BY <3>1, <3>2
  <2>. QED  BY <2>3, <2>4 DEF FirstOfEach, more
<1>. QED  BY <1>4, <1>5

LEMMA ConfigIsFirsts ==
  ASSUME NEW C, NEW text \in Seq(C)
  PROVE  /\ LoadConfigFile(text) \in Maps(C)
         /\ FirstOfEach(LoadConfigFile(text), Pieces(text), Len(Pieces(text)))
<1> DEFINE ps == Pieces(text)
           m == Len(ps)
<1>1. ps \in Seq(Some(C)) /\ m \in Nat
  BY PiecesAreCut, LenProperties
<1>2. PICK f \in [0 .. m -> Maps(C)] :
        /\ f[0] = NoConfig /\ f[m] = LoadConfigFile(text)
        /\ \A n \in 1 .. m : f[n] = Takes(f[n - 1], ps[n])
  BY <1>1, ConfigRun
<1> DEFINE S == { n \in 0 .. m : FirstOfEach(f[n], ps, n) }
<1> HIDE DEF m, ps
<1>3. ASSUME NEW n \in 0 .. m, \A i \in 0 .. n - 1 : i \in S
      PROVE  n \in S
  <2>1. CASE n = 0
    <3>1. f[n] = NoConfig /\ DOMAIN NoConfig = {} /\ 1 .. n = {}
      BY <1>2, <2>1 DEF NoConfig
    <3>. QED  BY <3>1 DEF FirstOfEach
  <2>2. CASE n # 0
    <3>1. n \in Nat \ {0} /\ n \in 1 .. m /\ n - 1 \in 0 .. n - 1
      BY <1>1, <2>2
    <3>2. FirstOfEach(f[n - 1], ps, n - 1) /\ f[n] = Takes(f[n - 1], ps[n])
      BY <1>2, <1>3, <3>1
    <3>. QED  BY <3>1, <3>2, TakesFirst
  <2>. QED  BY <2>1, <2>2
<1>4. \A n \in 0 .. m : n \in S
  <2> HIDE DEF S
  <2>. QED  BY <1>1, <1>3, Upward
<1>5. m \in 0 .. m
  BY <1>1
<1>6. LoadConfigFile(text) \in Maps(C) /\ FirstOfEach(LoadConfigFile(text), ps, m)
  BY <1>2, <1>4, <1>5
<1>. QED  BY <1>6 DEF m, ps

\* Of a text none of whose lines is longer than fgets' buffer, LoadConfigFile
\* makes what its lines say: the settings, spaces around keys and values apart,
\* and of several with the same key the first (mprpc_config.cc:6-64).
THEOREM LoadsWhatItMeans ==
  ASSUME NEW C, NEW text \in Seq(C), ~HasLongLine(text)
  PROVE  Means(text, LoadConfigFile(text))
<1> DEFINE map == LoadConfigFile(text)
           ps == Pieces(text)
           m == Len(ps)
           key(i) == KeyOf(LineAt(text, i))
<1>1. ps \in Seq(Some(C)) /\ m \in Nat /\ FirstOfEach(map, ps, m)
  BY PiecesAreCut, ConfigIsFirsts, LenProperties
<1>2. PICK st : CutAt(text, Len(text), ps, st)
  BY PiecesAreCut
<1> HIDE DEF map, ps
<1>3. \A j \in 1 .. m : Says(text, st[j], ps[j])
  BY <1>1, <1>2, PieceSays
<1>4. \A p \in Settings(text) : \E j \in 1 .. m : st[j] = p
  BY <1>1, <1>2, SettingStartsPiece
<1>5. \A j \in 1 .. m : st[j] \in Nat
  <2>1. \A j \in 1 .. m : j \in 1 .. m + 1
    BY <1>1
  <2>2. st \in [1 .. m + 1 -> 1 .. Len(text) + 1] /\ Len(text) \in Nat
    BY <1>2, LenProperties DEF CutAt
  <2>3. \A j \in 1 .. m + 1 : st[j] \in Nat
    BY <2>2
  <2>. QED  BY <2>1, <2>3
<1>6. \A j \in 1 .. m : IsPair(ps[j]) =>
        /\ st[j] \in Settings(text) /\ Key(ps[j]) = key(st[j])
        /\ Bare(Value(ps[j])) = ValueOf(LineAt(text, st[j]))
  BY <1>3 DEF Says
<1>7. \A p \in Settings(text) : \E j \in 1 .. m : st[j] = p /\ IsPair(ps[j]) /\ Key(ps[j]) = key(p)
  BY <1>3, <1>4 DEF Says
<1>8. DOMAIN map = { key(i) : i \in Settings(text) }
  <2>1. ASSUME NEW k \in DOMAIN map PROVE k \in { key(i) : i \in Settings(text) }
    <3>1. PICK j \in 1 .. m : SetFirst(ps, k, j)
      BY <1>1 DEF FirstOfEach
    <3>2. IsPair(ps[j]) /\ Key(ps[j]) = k
      BY <3>1 DEF SetFirst
    <3>3. st[j] \in Settings(text) /\ k = key(st[j])
      BY <1>6, <3>2
    <3> HIDE DEF key
    <3>. QED  BY <3>3
  <2>2. ASSUME NEW p \in Settings(text) PROVE key(p) \in DOMAIN map
    <3>1. PICK j \in 1 .. m : IsPair(ps[j]) /\ Key(ps[j]) = key(p)
      BY <1>7
    <3> HIDE DEF key
    <3>. QED  BY <1>1, <3>1 DEF FirstOfEach
  <2> HIDE DEF key
  <2>. QED  BY <2>1, <2>2
<1>9. ASSUME NEW k \in DOMAIN map
      PROVE  Bare(map[k]) = ValueOf(LineAt(text, Min({ i \in Settings(text) : key(i) = k })))
  <2> DEFINE K == { i \in Settings(text) : key(i) = k }
  <2>1. PICK j \in 1 .. m : SetFirst(ps, k, j) /\ map[k] = Value(ps[j])
    BY <1>1 DEF FirstOfEach
  <2>2. IsPair(ps[j]) /\ Key(ps[j]) = k /\ \A i \in 1 .. j - 1 : IsPair(ps[i]) => Key(ps[i]) # k
    BY <2>1 DEF SetFirst
  <2>3. st[j] \in K
    BY <1>6, <2>2
  <2>4. ASSUME NEW p \in K PROVE p \in Nat /\ st[j] <= p
    <3>1. PICK x \in 1 .. m : st[x] = p /\ IsPair(ps[x]) /\ Key(ps[x]) = k
      BY <1>7
    <3>2. ~(x \in 1 .. j - 1)
      BY <2>2, <3>1
    <3>3. x = j \/ (j \in 1 .. x - 1 /\ x \in 1 .. m + 1)
      BY <1>1, <3>2
    <3>4. CASE x = j
      BY <1>5, <3>1, <3>4
    <3>5. CASE j \in 1 .. x - 1 /\ x \in 1 .. m + 1
      <4>1. Len(text) \in Nat
        BY LenProperties
      <4>2. st[j] < st[x]
        BY <1>1, <1>2, <3>5, <4>1, CutsGrow
      <4>3. st[j] \in Nat /\ st[x] \in Nat
        BY <1>5
      <4>. QED  BY <3>1, <4>2, <4>3
    <3>. QED  BY <3>3, <3>4, <3>5
  <2> HIDE DEF K
  <2>5. Min(K) = st[j]
    <3>1. K \subseteq Nat /\ \A p \in K : st[j] <= p
      BY <2>4
    <3>. QED  BY <2>3, <3>1, MinIs
  <2>6. Bare(map[k]) = ValueOf(LineAt(text, st[j]))
    BY <1>6, <2>1, <2>2
  <2>. QED  BY <2>5, <2>6 DEF K
<1> HIDE DEF key
<1>10. Means(text, map)
  BY <1>8, <1>9 DEF Means, key
<1>. QED  BY <1>10 DEF map

=============================================================================
